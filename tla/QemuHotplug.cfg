CONSTANTS
  Boot = 1
  Hot = 2
  MaxNics = 3
  Nets = {n1, n2}
  MaxGen = 3
  MaxFaults = 1
  None = None
SPECIFICATION Spec
INVARIANTS PortsExclusive  AttachedWhole  TokensAgree
SYMMETRY NetSymmetry
