SPECIFICATION Spec
CONSTANTS
  Nodes = {1}
  Ifaces = {0, 1}
  MaxNet = 2
  MaxLink = 2
  Reqs = {r1}
  Starters = {s1}
  Pairs <- PlugPairs
  Keys = {}
  NoKey = NoKey
  CacheMax = 1
  MaxGen = 1
  HostFaults = TRUE
  None = None
INVARIANTS
  RecordBacked
PROPERTIES
  HandlersKeepWiring
  FailedCreateUndone
