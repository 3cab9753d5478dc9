SPECIFICATION Spec
CONSTANTS
  Nodes = {1, 2, 3}
  Ifaces = {0}
  MaxNet = 2
  MaxLink = 3
  Reqs = {r1, r2}
  Starters = {}
  Pairs <- EditPairs
  Keys = {}
  NoKey = NoKey
  CacheMax = 1
  MaxGen = 1
  HostFaults = FALSE
  None = None
SYMMETRY Symmetric
INVARIANTS
  TypeOK
  OneLinkPerPort
  LinkedNetworksExist
  ImplicitAtMostTwo
  NoWaitCycle
  HeldWhilePublishing
