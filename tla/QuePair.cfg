SPECIFICATION Spec
CONSTANTS
  p1 = p1  p2 = p2  g1 = g1  g2 = g2
  a = a  b = b
  NoData = NoData
  Task <- Tasks11
  Data <- Items
  Calls <- Pair
  BlockOn <- BothSides
  Controls = {"unblock", "reset"}
  MaxElements = 3
  SemBound = 1
INVARIANTS TypeOK CursorsAgree
PROPERTIES ImplementsFifo UnBlockReleasesAll
CHECK_DEADLOCK FALSE
