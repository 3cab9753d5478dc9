SPECIFICATION FairSpec
CONSTANTS
  a = a
  b = b
  c = c
  Labs = {a, b, c}
  Networks <- SomeNetworks
  Stem <- SomeStems
  Foreign <- SomeForeign
  MaxFaults = 2
  None = None
INVARIANTS
  StampedClean
  NothingForgotten
  DocumentSafe
PROPERTIES
  Migrates
