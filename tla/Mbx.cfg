SPECIFICATION MbxFairSpec
CONSTANTS
  c1 = c1  c2 = c2  c3 = c3  l1 = l1
  m1 = m1  m2 = m2  m3 = m3  NoMsg = NoMsg
  Caller <- Three
  Link = {l1}
  Msg = {m1, m2}
  Slot = {1, 2}
  RecvMax = 1
  AckMax = 2
  Requests <- ThreeReq
INVARIANTS OneOwner AcksMatch
PROPERTIES Answered
