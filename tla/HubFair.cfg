SPECIFICATION FairSpec
CONSTANTS
  Conns = {c1, c2}
  Publishers = {p1}
  Ring = 1
  MaxSeq = 3
CHECK_DEADLOCK FALSE
PROPERTIES
  GoneLeave
  PublishesEnd
