SPECIFICATION FairSpec
CONSTANTS
  t1 = t1  t2 = t2  f1 = f1  f2 = f2  g1 = g1  g2 = g2  b1 = b1  b2 = b2
  None = None
  NumCh = 2
  Tsk = {t1, t2}
  TskOf <- FirstTask
  Frame = {f1, f2, g1, g2}
  ChOf <- ChOfFrame
  Fids <- FieldsOf
  Bit = {b1, b2}
  PoolOf <- OnePool
  PoolCh <- PoolOfCh
  Merge = {0}
  PerCall <- PerCalls
  Skipping = {1}
  Kind <- H264
  BatchMax <- Twos
  Alone = {}
  NumReq = 2
  QueMax = 1
  ListMax = 3
  Caller = {c1}
  FillMax = 2
  MbxBound = 1
INVARIANTS BuffersKept 
PROPERTIES  Returns
