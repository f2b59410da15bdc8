SPECIFICATION FairSpec
CONSTANTS
  p1 = p1  p2 = p2  g1 = g1  g2 = g2
  a = a  b = b
  NoData = NoData
  Task <- Tasks22
  Data <- Items
  Calls <- Crowd
  BlockOn <- BothSides
  Controls = {"unblock"}
  MaxElements = 2
  SemBound = 1
INVARIANTS NoLostWakeup NoStaleForce
PROPERTIES Served
CHECK_DEADLOCK FALSE
