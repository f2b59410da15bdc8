SPECIFICATION GraphSpec
CONSTANTS
  a = a  b = b  sel = sel  n0 = n0  n1 = n1
  NumInQue = 2
  NumCh <- TwoOne
  Frame = {a, b}
  Owner <- OwnerAB
  Chan <- ChanAB
  None = None
  Caller = {sel, n0, n1}
  SelTask = sel
  NumOutQue = 2
  NextTask <- Next01
  Created <- First
  Selection <- Lists12
  MaxSet = 1
INVARIANTS GraphTypeOK FramesHome NoFrameWaits
PROPERTIES ImplementsMerge
