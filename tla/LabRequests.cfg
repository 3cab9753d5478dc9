CHECK_DEADLOCK FALSE
SPECIFICATION FairSpec
CONSTANTS
  Nodes = {1, 2, 3}
  Ifaces = {0, 1}
  MaxNet = 3
  MaxLink = 5
  Templates <- SomeTemplates
  Kept = {0, 1}
  MaxRequests = 6
  Pairs <- SomePairs
INVARIANTS
  HandlersTypeOK
  LinksOnNodes
  PreflightMirrors
PROPERTIES
  WholeEdits
  PairEnds
