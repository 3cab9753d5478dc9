SPECIFICATION Spec
CONSTANTS
  Conns = {c1, c2}
  Publishers = {p1, p2}
  Ring = 2
  MaxSeq = 3
SYMMETRY Symmetric
CHECK_DEADLOCK FALSE
INVARIANTS
  EventsOnce
  OnlyHandshakeGap
