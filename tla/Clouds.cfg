SPECIFICATION Spec
CONSTANTS
  Labs = {A, B}
  Hashes = {h1, h2}
  MaxNet = 2
  MaxRecords = 3
  PoolSize = 2
  Asked <- SomeCidrs
  HostBr = HostBr
  MaxFault = 1
  None = None
INVARIANTS
  CidrsDisjoint
  
  HostMatchesLabs
PROPERTIES
  CreatedIsWhole
  OpenRepairs
SYMMETRY Symmetric
CHECK_DEADLOCK FALSE
