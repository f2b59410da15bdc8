SPECIFICATION Spec
CONSTANTS
  f1 = f1  f2 = f2
  Frame = {f1, f2}
  NoFrame = NoFrame
  NumOutQue = 2
  MaxCopies = 4
SYMMETRY FrameSymmetry
INVARIANTS TypeOK CountsLiveCopies NoStrandedFrame
PROPERTIES ImplementsBroadcast
