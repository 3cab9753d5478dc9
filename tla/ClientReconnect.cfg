SPECIFICATION ClientFairSpec
CONSTANTS
  Sockets = {w1, w2, w3}
  MaxFaults = 3
  None = None
INVARIANTS
  NeverStranded
PROPERTIES
  Reconnects
