SPECIFICATION FairSpec
CONSTANTS
  t1 = t1  b1 = b1  f1 = f1  f2 = f2
  None = None
  NumCh = 1
  Tsk = {t1}
  TskOf <- OneTask
  Bit = {b1}
  BitCh <- Bits0
  Frame = {f1, f2}
  ChOf <- Frames0
  OutNum <- Twos
  CodecKeeps <- Ones
  NumDup = 4
  NumReq = 2
  PerCall <- Twos
  Kind <- H264
  Alone = {}
  MaxBatch = 2
  Dropping = {0}
  TrickPlay = {0}
  Caller = {c1}
  Dynamic = {0}
  Faults = {"codec"}
  MbxBound = 1
INVARIANTS TypeOK RefsHeld RequestsKept NoStrandedInput 
PROPERTIES Answered 
