SPECIFICATION FairSpec
CONSTANTS
  Nodes = {1}
  Ifaces = {0, 1}
  MaxNet = 1
  MaxLink = 2
  Reqs = {r1, r2}
  Starters = {s1}
  Pairs <- LoopPairs
  Keys = {k1, k2}
  NoKey = NoKey
  CacheMax = 1
  MaxGen = 1
  HostFaults = FALSE
  None = None
INVARIANTS
  CacheBounded
PROPERTIES
  RequestsEnd
