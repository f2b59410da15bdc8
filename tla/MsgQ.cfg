SPECIFICATION FairSpec
CONSTANTS
  host = host  dsp = dsp
  a1 = a1  a2 = a2  s = s  h = h  d = d  v = v
  m1 = m1  m2 = m2  m3 = m3
  NoThread = NoThread  NoMsg = NoMsg
  Proc = {host, dsp}
  Host = host
  App = {a1, a2}
  Link = {s, h, d, v}
  LinkProc <- Where
  Prev <- Before
  UpAtStart <- Running
  Requests <- OneBuilder
  Msg = {m1, m2, m3}
  MaxQueued = 1
INVARIANTS OneOwner RepliesMatch PrmsIntact NoWaitCycle
PROPERTIES ImplementsControl Returns
