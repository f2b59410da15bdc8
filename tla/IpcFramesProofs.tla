-------------------------- MODULE IpcFramesProofs --------------------------
(* Theorems of IpcFrames, and with it of IpcM3, for every set of frames,    *)
(* list elements and headers, every kind and mode of a pair and every       *)
(* division of the channels over the queues of the out link.                *)
EXTENDS IpcFrames, OwningLemmas

-----------------------------------------------------------------------------
(* The channels.                                                            *)

\* ChBefore is the function its recursion describes.
LEMMA ChannelsBefore ==
    /\ ChBefore \in [1 .. Len(NumChPerOutQue) + 1 -> Nat]
    /\ \A q \in 1 .. Len(NumChPerOutQue) + 1 :
          ChBefore[q] = IF q = 1 THEN 0 ELSE ChBefore[q - 1] + NumChPerOutQue[q - 1]
<1> DEFINE All == 1 .. Len(NumChPerOutQue) + 1
           Sums(n, f) == \A q \in 1 .. n :
                            f[q] = IF q = 1 THEN 0 ELSE f[q - 1] + NumChPerOutQue[q - 1]
           Without == {n \in All : ~ \E f \in [1 .. n -> Nat] : Sums(n, f)}
<1>1. Len(NumChPerOutQue) \in Nat /\ \A q \in 1 .. Len(NumChPerOutQue) : NumChPerOutQue[q] \in Nat
  BY ChanAssumption
<1>2. Without = {}
  <2> SUFFICES ASSUME Without # {} PROVE FALSE
    OBVIOUS
  <2>1. PICK n \in Without : \A j \in Without : n <= j
    <3>1. Without \subseteq Nat
      BY <1>1
    <3> HIDE DEF Without
    <3> QED BY <3>1, LeastNatural
  <2>2. n \in Nat /\ n \in All
    BY <1>1, <2>1
  <2>3. CASE n = 1
    <3>1. [q \in 1 .. 1 |-> 0] \in [1 .. 1 -> Nat] /\ Sums(1, [q \in 1 .. 1 |-> 0])
      OBVIOUS
    <3> QED BY <2>1, <2>3, <3>1
  <2>4. CASE n # 1
    <3>1. n - 1 \in All /\ n - 1 \notin Without
      <4> HIDE DEF Without
      <4> QED BY <1>1, <2>1, <2>2, <2>4
    <3>2. PICK f \in [1 .. n - 1 -> Nat] : Sums(n - 1, f)
      BY <3>1
    <3> DEFINE g == [q \in 1 .. n |-> IF q = n THEN f[n - 1] + NumChPerOutQue[n - 1] ELSE f[q]]
    <3>3. f[n - 1] \in Nat /\ NumChPerOutQue[n - 1] \in Nat
      BY <1>1, <2>2, <2>4, <3>1
    <3>4. g \in [1 .. n -> Nat]
      BY <2>2, <3>3
    <3>5. Sums(n, g)
      <4> SUFFICES ASSUME NEW q \in 1 .. n
                   PROVE  g[q] = IF q = 1 THEN 0 ELSE g[q - 1] + NumChPerOutQue[q - 1]
        OBVIOUS
      <4>1. CASE q = n
        BY <2>2, <2>4, <4>1
      <4>2. CASE q # n
        <5>1. q \in 1 .. n - 1 /\ g[q] = f[q]
          BY <2>2, <4>2
        <5>2. q # 1 => g[q - 1] = f[q - 1]
          BY <2>2, <5>1
        <5> QED BY <3>2, <5>1, <5>2
      <4> QED BY <4>1, <4>2
    <3> HIDE DEF g, Sums
    <3> QED BY <2>1, <3>4, <3>5
  <2> QED BY <2>3, <2>4
<1>3. PICK f \in [All -> Nat] : Sums(Len(NumChPerOutQue) + 1, f)
  <2>1. Len(NumChPerOutQue) + 1 \in All
    BY <1>1
  <2> HIDE DEF Sums
  <2> QED BY <1>2, <2>1
<1>4. f = [q \in All |-> IF q = 1 THEN 0 ELSE f[q - 1] + NumChPerOutQue[q - 1]]
  BY <1>1, <1>3
<1>5. ChBefore = [q \in All |-> IF q = 1 THEN 0 ELSE ChBefore[q - 1] + NumChPerOutQue[q - 1]]
  BY <1>4 DEF ChBefore
<1>6. ASSUME NEW q \in All
      PROVE  ChBefore[q] = IF q = 1 THEN 0 ELSE ChBefore[q - 1] + NumChPerOutQue[q - 1]
  BY <1>5
<1> DEFINE Differs == {n \in All : ChBefore[n] # f[n]}
<1>7. Differs = {}
  <2> SUFFICES ASSUME Differs # {} PROVE FALSE
    OBVIOUS
  <2>1. PICK n \in Differs : \A j \in Differs : n <= j
    <3>1. Differs \subseteq Nat
      BY <1>1
    <3> HIDE DEF Differs
    <3> QED BY <3>1, LeastNatural
  <2>2. n \in All /\ n \in Nat /\ ChBefore[n] # f[n]
    BY <1>1, <2>1
  <2>3. n # 1 => n - 1 \in All /\ n - 1 \notin Differs
    <3> HIDE DEF Differs
    <3> QED BY <1>1, <2>1, <2>2
  <2>4. n # 1 => ChBefore[n - 1] = f[n - 1]
    BY <2>3
  <2>5. f[n] = IF n = 1 THEN 0 ELSE f[n - 1] + NumChPerOutQue[n - 1]
    BY <1>3, <2>2
  <2> QED BY <1>6, <2>2, <2>4, <2>5
<1>8. \A q \in All : ChBefore[q] \in Nat
  BY <1>1, <1>3, <1>7
<1>9. ChBefore \in [All -> Nat]
  BY <1>5, <1>8
<1> QED
  BY <1>6, <1>9

\* Every frame's channel is that of a queue, and has a number in that queue.
LEMMA QueueOfChannel ==
    ASSUME NEW f \in Frame
    PROVE  /\ QueOf(Chan[f]) \in OutQue
           /\ ChBefore[QueOf(Chan[f])] \in Nat /\ Chan[f] \in Nat
           /\ ChBefore[QueOf(Chan[f])] <= Chan[f]
<1> DEFINE n == Len(NumChPerOutQue)
           After == {q \in 1 .. n + 1 : Chan[f] < ChBefore[q]}
<1>1. n \in Nat /\ OutQue = 1 .. n
  BY ChanAssumption DEF OutQue
<1>2. ChBefore \in [1 .. n + 1 -> Nat] /\ ChBefore[1] = 0
  BY <1>1, ChannelsBefore
<1>3. Chan[f] \in Nat /\ Chan[f] < ChBefore[n + 1]
  BY <1>1, <1>2, ChanAssumption
<1>4. PICK q \in After : \A j \in After : q <= j
  <2>1. After \subseteq Nat /\ n + 1 \in After
    BY <1>1, <1>3
  <2> HIDE DEF After
  <2> QED BY <2>1, LeastNatural
<1>5. q \in 1 .. n + 1 /\ Chan[f] < ChBefore[q] /\ q # 1
  BY <1>2, <1>3, <1>4
<1>6. q - 1 \in 1 .. n /\ q - 1 \notin After
  <2> HIDE DEF After
  <2> QED BY <1>1, <1>4, <1>5
<1>7. ChBefore[q - 1] <= Chan[f] /\ Chan[f] < ChBefore[(q - 1) + 1]
  BY <1>1, <1>2, <1>3, <1>5, <1>6
<1>8. \E r \in OutQue : ChBefore[r] <= Chan[f] /\ Chan[f] < ChBefore[r + 1]
  BY <1>1, <1>6, <1>7
<1>9. /\ QueOf(Chan[f]) \in OutQue
      /\ ChBefore[QueOf(Chan[f])] <= Chan[f]
  BY <1>8 DEF QueOf
<1> QED
  BY <1>1, <1>2, <1>3, <1>9

-----------------------------------------------------------------------------
(* The inductive invariant.                                                 *)

\* An element is in one of its places, and there once.
HasUser(e) == \E h \in Users : orgElem[h] = e
ElemAlone(e) ==
    /\ \/ e \in listElemQue \/ e \in Range(listMPOut) \/ e \in Range(listMPIn)
       \/ e = stopElem \/ e = pListElem \/ HasUser(e)
    /\ e \in listElemQue => /\ e \notin Range(listMPOut) /\ e \notin Range(listMPIn)
                            /\ e # stopElem /\ e # pListElem /\ ~HasUser(e)
    /\ e \in Range(listMPOut) => /\ e \notin Range(listMPIn)
                                 /\ e # stopElem /\ e # pListElem /\ ~HasUser(e)
    /\ e \in Range(listMPIn) => e # stopElem /\ e # pListElem /\ ~HasUser(e)
    /\ e = stopElem => e # pListElem /\ ~HasUser(e)
    /\ e = pListElem => ~HasUser(e)
    /\ \A g, h \in Users : orgElem[g] = e /\ orgElem[h] = e => g = h
ElemsInv == /\ \A e \in Elem : ElemAlone(e)
            /\ IsInjective(listMPOut) /\ IsInjective(listMPIn)

\* So is a frame, for which an element may stand that is not in the pool.
InElem(f) == \E e \in Elem \ listElemQue : pFrame[e] = f
InQueue(f) == \E q \in OutQue : f \in Range(outFrameBufQue[q])
InNext(f) == \E q \in OutQue : f \in fwdHeld[q]
FrameAlone(f) ==
    /\ f \in source \/ f \in Range(list) \/ f \in outFree \/ InElem(f) \/ InQueue(f) \/ InNext(f)
    /\ f \in source => /\ f \notin Range(list) /\ f \notin outFree
                       /\ ~InElem(f) /\ ~InQueue(f) /\ ~InNext(f)
    /\ f \in Range(list) => f \notin outFree /\ ~InElem(f) /\ ~InQueue(f) /\ ~InNext(f)
    /\ f \in outFree => ~InElem(f) /\ ~InQueue(f) /\ ~InNext(f)
    /\ InElem(f) => ~InQueue(f) /\ ~InNext(f)
    /\ InQueue(f) => ~InNext(f)
    /\ \A d, e \in Elem \ listElemQue : pFrame[d] = f /\ pFrame[e] = f => d = e
FramesInv == /\ \A f \in Frame : FrameAlone(f)
             /\ IsInjective(list) /\ \A q \in OutQue : IsInjective(outFrameBufQue[q])

\* What an element stands for.
StandsInv == \A e \in Elem : IF e \in listElemQue THEN kind # "m3" => pFrame[e] = NoFrame
                                                  ELSE pFrame[e] \in Frame

\* What is behind the in link has an element, the frame that one stands for if
\* the cores share the frames.
HandlesInv ==
    /\ \A h \in Users : orgElem[h] \in Elem
    /\ IF kind = "m3"
       THEN /\ freeFrameQue = Header /\ state = "active"
            /\ Behind \subseteq Frame /\ \A f \in Behind : pFrame[orgElem[f]] = f
       ELSE /\ Behind \subseteq Header /\ freeFrameQue \cap Behind = {}
            /\ state = "active" => freeFrameQue \cup Behind = Header
    /\ IsInjective(outFrameQue) /\ IsInjective(ret)
    /\ held \cap Range(outFrameQue) = {}
    /\ Range(ret) \cap (held \cup Range(outFrameQue)) = {}

\* A frame that is passed on has its number in its queue.
Passed(f) == {q \in OutQue : f \in Range(outFrameBufQue[q]) \/ f \in fwdHeld[q]}
ChannelsInv == \A f \in Frame :
    /\ Passed(f) \subseteq {QueOf(Chan[f])}
    /\ channelNum[f] = IF Passed(f) = {} THEN Chan[f] ELSE Chan[f] - ChBefore[QueOf(Chan[f])]

\* Where the tasks stand, and what is left of their lists there.
TasksInv ==
    /\ outPc = "send" <=> list # <<>>
    /\ nextPc = "put" => ret # <<>>
    /\ ret # <<>> => nextPc \in {"put", "elem"}
    /\ pListElem # NoElem <=> nextPc = "elem"
    /\ stopElem # NoElem => inPc = "stop"
    /\ inPc \in {"stop", "stopNotify"} => state = "inactive"
    /\ kind = "m3" => inPc \in {"idle", "drain"} /\ nextPc # "elem"
    /\ outPc = "notify" => mode.notifyNext
    /\ nextPc = "notify" \/ inPc = "stopNotify" => mode.notifyPrev

DataInv == ElemsInv /\ FramesInv /\ StandsInv /\ HandlesInv /\ ChannelsInv
IpcInv == FramesTypeOK /\ DataInv /\ TasksInv

-----------------------------------------------------------------------------
(* Steps that leave one of these alone.                                     *)

LEMMA ElemsStay ==
    ASSUME ElemsInv, UNCHANGED <<listElemQue, listMPOut, listMPIn, stopElem, pListElem>>,
           Users' = Users, \A h \in Users : orgElem'[h] = orgElem[h]
    PROVE  ElemsInv'
BY DEF ElemsInv, ElemAlone, HasUser

\* The state only says whether the handles behind are all that is not free.
LEMMA HandlesStay ==
    ASSUME HandlesInv,
           UNCHANGED <<outFrameQue, held, ret, kind, freeFrameQue>>,
           kind = "m3" => state' = state,
           state' = "active" => state = "active",
           \A h \in Users : orgElem'[h] = orgElem[h] /\ (kind = "m3" => pFrame'[orgElem[h]] = pFrame[orgElem[h]])
    PROVE  HandlesInv' /\ Users' = Users
<1>1. Behind' = Behind /\ Users' = Users
  BY DEF Behind, Users
<1> QED
  BY <1>1 DEF HandlesInv, Users

LEMMA FramesStay ==
    ASSUME FramesInv,
           UNCHANGED <<source, list, outFree, pFrame, listElemQue, outFrameBufQue, fwdHeld>>
    PROVE  FramesInv'
BY DEF FramesInv, FrameAlone, InElem, InQueue, InNext

LEMMA ChannelsStay ==
    ASSUME ChannelsInv, UNCHANGED <<channelNum, outFrameBufQue, fwdHeld>>
    PROVE  ChannelsInv'
BY DEF ChannelsInv, Passed

LEMMA StandsStay ==
    ASSUME StandsInv, UNCHANGED <<pFrame, listElemQue, kind>>
    PROVE  StandsInv'
BY DEF StandsInv

LEMMA OnlyFrames ==
    ASSUME DataInv, FramesInv', ChannelsInv',
           UNCHANGED <<listElemQue, pFrame, listMPOut, listMPIn, orgElem, outFrameQue,
                       held, ret, kind, freeFrameQue, state, stopElem, pListElem>>
    PROVE  DataInv'
<1>1. HandlesInv' /\ Users' = Users
  BY HandlesStay DEF DataInv
<1> QED
  BY <1>1, ElemsStay, StandsStay DEF DataInv

\* Nothing is moved; the in link may be stopped.
LEMMA Still ==
    ASSUME DataInv,
           UNCHANGED <<source, list, outFree, listElemQue, pFrame, listMPOut, listMPIn,
                       orgElem, outFrameQue, held, ret, kind, freeFrameQue, stopElem,
                       pListElem, channelNum, outFrameBufQue, fwdHeld>>,
           kind = "m3" => state' = state,
           state' = "active" => state = "active"
    PROVE  DataInv'
<1>1. HandlesInv' /\ Users' = Users
  BY HandlesStay DEF DataInv
<1> QED
  BY <1>1, ElemsStay, StandsStay, FramesStay, ChannelsStay DEF DataInv

-----------------------------------------------------------------------------
(* Steps that move frames, but no elements.                                 *)

LEMMA ListOf ==
    ASSUME NEW S, NEW s \in Lists(S) \cup {<<>>}
    PROVE  s \in Seq(S) /\ Range(s) \subseteq S /\ IsInjective(s)
<1>1. CASE s = <<>>
  BY <1>1, EmptyQueue
<1>2. CASE s \in Lists(S)
  BY <1>2 DEF Lists, Range
<1> QED
  BY <1>1, <1>2

LEMMA GetFrames ==
    ASSUME IpcInv, Event(OutGet)
    PROVE  DataInv'
<1>1. PICK s \in Lists(source) \cup {<<>>} : list' = s /\ source' = source \ Range(s)
  BY DEF Event, OutGet
<1>2. Range(s) \subseteq source /\ IsInjective(s) /\ Range(list) = {}
  BY <1>1, ListOf, EmptyQueue DEF Event, OutGet, IpcInv, TasksInv
<1>3. UNCHANGED <<outFree, pFrame, listElemQue, outFrameBufQue, fwdHeld, channelNum,
                  listMPOut, listMPIn, orgElem, outFrameQue, held, ret, kind,
                  freeFrameQue, state, stopElem, pListElem>>
  BY DEF Event, OutGet, frames, inFrames, forward, in, next
<1>4. FramesInv'
  <2>1. ASSUME NEW f \in Frame, FrameAlone(f) PROVE FrameAlone(f)'
    BY <1>1, <1>2, <1>3, <2>1 DEF FrameAlone, InElem, InQueue, InNext
  <2> QED BY <1>1, <1>2, <1>3, <2>1 DEF FramesInv, IpcInv, DataInv
<1> QED
  BY <1>3, <1>4, ChannelsStay, OnlyFrames DEF IpcInv, DataInv

LEMMA DropFrames ==
    ASSUME IpcInv, Event(OutDrop)
    PROVE  DataInv'
<1>1. list \in Seq(Frame) /\ list # <<>>
  BY DEF Event, OutDrop, IpcInv, FramesTypeOK, DataOK, TasksInv
<1>2. PICK f \in Frame : f = Head(list) /\ f \in Range(list)
  BY <1>1, QueueTake
<1>3. list' = Tail(list) /\ outFree' = outFree \cup {f}
  BY <1>2 DEF Event, OutDrop, SendNext
<1>4. IsInjective(list') /\ Range(list') = Range(list) \ {f}
  BY <1>1, <1>2, <1>3, QueueTake DEF IpcInv, DataInv, FramesInv
<1>5. UNCHANGED <<source, pFrame, listElemQue, outFrameBufQue, fwdHeld, channelNum,
                  listMPOut, listMPIn, orgElem, outFrameQue, held, ret, kind,
                  freeFrameQue, state, stopElem, pListElem>>
  BY DEF Event, OutDrop, frames, inFrames, forward, in, next
<1>6. FramesInv'
  <2>1. ASSUME NEW g \in Frame, FrameAlone(g) PROVE FrameAlone(g)'
    BY <1>2, <1>3, <1>4, <1>5, <2>1 DEF FrameAlone, InElem, InQueue, InNext
  <2> QED BY <1>4, <1>5, <2>1 DEF FramesInv, IpcInv, DataInv
<1> QED
  BY <1>5, <1>6, ChannelsStay, OnlyFrames DEF IpcInv, DataInv

\* What the out link has to free goes back to the previous link.
LEMMA FreeFrames ==
    ASSUME IpcInv, source' = source \cup outFree, outFree' = {},
           UNCHANGED <<list, pFrame, listElemQue, outFrameBufQue, fwdHeld, channelNum,
                       listMPOut, listMPIn, orgElem, outFrameQue, held, ret, kind,
                       freeFrameQue, state, stopElem, pListElem>>
    PROVE  DataInv'
<1>1. FramesInv'
  <2>1. ASSUME NEW g \in Frame, FrameAlone(g) PROVE FrameAlone(g)'
    BY <2>1 DEF FrameAlone, InElem, InQueue, InNext
  <2> QED BY <2>1 DEF FramesInv, IpcInv, DataInv
<1> QED
  BY <1>1, ChannelsStay, OnlyFrames DEF IpcInv, DataInv

LEMMA ForwardFrames ==
    ASSUME IpcInv, FrForward
    PROVE  DataInv'
<1>1. PICK f \in outFree :
         LET q == QueOf(channelNum[f])
         IN  /\ channelNum' = [channelNum EXCEPT ![f] = @ - ChBefore[q]]
             /\ outFrameBufQue' = [outFrameBufQue EXCEPT ![q] = Append(@, f)]
             /\ outFree' = outFree \ {f}
  BY DEF FrForward
<1>2. f \in Frame /\ FrameAlone(f)
  BY DEF IpcInv, FramesTypeOK, DataOK, DataInv, FramesInv
<1>3. Passed(f) = {} /\ channelNum[f] = Chan[f]
  BY <1>2 DEF Passed, FrameAlone, InQueue, InNext, IpcInv, DataInv, ChannelsInv
<1>4. PICK q \in OutQue : q = QueOf(Chan[f])
  BY <1>2, QueueOfChannel
<1>5. /\ channelNum' = [channelNum EXCEPT ![f] = Chan[f] - ChBefore[q]]
      /\ outFrameBufQue' = [outFrameBufQue EXCEPT ![q] = Append(outFrameBufQue[q], f)]
  BY <1>1, <1>3, <1>4
<1>6. /\ outFrameBufQue \in [OutQue -> Seq(Frame)] /\ channelNum \in [Frame -> Nat]
      /\ \A r \in OutQue : outFrameBufQue[r] \in Seq(Frame) /\ IsInjective(outFrameBufQue[r])
      /\ f \notin Range(outFrameBufQue[q])
  BY <1>2, <1>3 DEF IpcInv, FramesTypeOK, DataInv, FramesInv, Passed
<1>7. /\ IsInjective(outFrameBufQue'[q]) /\ Range(outFrameBufQue'[q]) = Range(outFrameBufQue[q]) \cup {f}
      /\ \A r \in OutQue \ {q} : outFrameBufQue'[r] = outFrameBufQue[r]
  <2>1. outFrameBufQue'[q] = Append(outFrameBufQue[q], f)
    BY <1>5, <1>6
  <2> QED BY <1>2, <1>5, <1>6, <2>1, QueueAppend
<1>8. UNCHANGED <<source, list, pFrame, listElemQue, fwdHeld, listMPOut, listMPIn, orgElem,
                  outFrameQue, held, ret, kind, freeFrameQue, state, stopElem, pListElem>>
  BY DEF FrForward, frames, inFrames, in, next
<1>9. FramesInv'
  <2>1. ASSUME NEW g \in Frame, FrameAlone(g) PROVE FrameAlone(g)'
    <3>1. InElem(g)' = InElem(g) /\ InNext(g)' = InNext(g)
      BY <1>8 DEF InElem, InNext
    <3>2. InQueue(g)' <=> InQueue(g) \/ g = f
      BY <1>4, <1>7 DEF InQueue
    <3> QED BY <1>1, <1>2, <1>8, <2>1, <3>1, <3>2 DEF FrameAlone
  <2> QED BY <1>6, <1>7, <1>8, <2>1 DEF FramesInv, IpcInv, DataInv
<1>10. ChannelsInv'
  <2>1. ASSUME NEW g \in Frame \ {f} PROVE Passed(g)' = Passed(g) /\ channelNum'[g] = channelNum[g]
    BY <1>5, <1>6, <1>7, <1>8 DEF Passed
  <2>2. Passed(f)' = {q} /\ channelNum'[f] = Chan[f] - ChBefore[q]
    BY <1>2, <1>3, <1>4, <1>5, <1>6, <1>7, <1>8 DEF Passed
  <2> QED BY <1>4, <2>1, <2>2 DEF IpcInv, DataInv, ChannelsInv
<1> QED
  BY <1>8, <1>9, <1>10, OnlyFrames DEF IpcInv

LEMMA FwdGetFrames ==
    ASSUME IpcInv, NEW q \in OutQue, FwdGet(q)
    PROVE  DataInv'
<1>1. outFrameBufQue \in [OutQue -> Seq(Frame)] /\ fwdHeld \in [OutQue -> SUBSET Frame]
  BY DEF IpcInv, FramesTypeOK
<1>2. /\ Range(outFrameBufQue'[q]) = {} /\ IsInjective(outFrameBufQue'[q])
      /\ fwdHeld'[q] = fwdHeld[q] \cup Range(outFrameBufQue[q])
      /\ \A r \in OutQue \ {q} : outFrameBufQue'[r] = outFrameBufQue[r] /\ fwdHeld'[r] = fwdHeld[r]
  BY <1>1, EmptyQueue DEF FwdGet
<1>3. UNCHANGED <<source, list, outFree, pFrame, listElemQue, channelNum, listMPOut, listMPIn,
                  orgElem, outFrameQue, held, ret, kind, freeFrameQue, state, stopElem,
                  pListElem>>
  BY DEF FwdGet, inFrames, vars, out, in, next
<1>4. \A g \in Frame : Passed(g)' = Passed(g)
  BY <1>2 DEF Passed
<1>5. FramesInv'
  <2>1. ASSUME NEW g \in Frame, FrameAlone(g) PROVE FrameAlone(g)'
    <3>1. InElem(g)' = InElem(g)
      BY <1>3 DEF InElem
    <3>2. InQueue(g)' <=> InQueue(g) /\ g \notin Range(outFrameBufQue[q])
      <4>1. Passed(g) \subseteq {QueOf(Chan[g])}
        BY DEF IpcInv, DataInv, ChannelsInv
      <4> QED BY <1>2, <4>1 DEF InQueue, Passed
    <3>3. InNext(g)' <=> InNext(g) \/ g \in Range(outFrameBufQue[q])
      BY <1>2 DEF InNext
    <3>4. g \in Range(outFrameBufQue[q]) => InQueue(g)
      BY DEF InQueue
    <3> QED BY <1>3, <2>1, <3>1, <3>2, <3>3, <3>4 DEF FrameAlone
  <2> QED BY <1>2, <1>3, <2>1 DEF FramesInv, IpcInv, DataInv
<1>6. ChannelsInv'
  BY <1>3, <1>4 DEF IpcInv, DataInv, ChannelsInv
<1> QED
  BY <1>3, <1>5, <1>6, OnlyFrames DEF IpcInv

LEMMA FwdPutFrames ==
    ASSUME IpcInv, NEW q \in OutQue, FwdPut(q)
    PROVE  DataInv'
<1>1. PICK f \in fwdHeld[q] : /\ fwdHeld' = [fwdHeld EXCEPT ![q] = @ \ {f}]
                              /\ channelNum' = [channelNum EXCEPT ![f] = @ + ChBefore[q]]
                              /\ source' = source \cup {f}
  BY DEF FwdPut
<1>2. fwdHeld \in [OutQue -> SUBSET Frame] /\ channelNum \in [Frame -> Nat]
  BY DEF IpcInv, FramesTypeOK
<1>3. f \in Frame /\ InNext(f) /\ FrameAlone(f)
  BY <1>2 DEF InNext, IpcInv, DataInv, FramesInv
<1>4. Passed(f) = {q} /\ q = QueOf(Chan[f]) /\ channelNum[f] = Chan[f] - ChBefore[q]
  BY <1>3 DEF Passed, IpcInv, DataInv, ChannelsInv
<1>5. /\ fwdHeld'[q] = fwdHeld[q] \ {f}
      /\ \A r \in OutQue \ {q} : fwdHeld'[r] = fwdHeld[r]
      /\ channelNum'[f] = channelNum[f] + ChBefore[q]
      /\ \A g \in Frame \ {f} : channelNum'[g] = channelNum[g]
  BY <1>1, <1>2, <1>3
<1>6. UNCHANGED <<outFrameBufQue, list, outFree, pFrame, listElemQue, listMPOut, listMPIn,
                  orgElem, outFrameQue, held, ret, kind, freeFrameQue, state, stopElem,
                  pListElem>>
  BY DEF FwdPut, inFrames, out, in, next
<1>7. FramesInv'
  <2>1. ASSUME NEW g \in Frame, FrameAlone(g) PROVE FrameAlone(g)'
    <3>1. InElem(g)' = InElem(g) /\ InQueue(g)' = InQueue(g)
      BY <1>6 DEF InElem, InQueue
    <3>2. InNext(g)' <=> InNext(g) /\ g # f
      <4>1. \A r \in OutQue : f \in fwdHeld[r] => r = q
        BY <1>4 DEF Passed
      <4> QED BY <1>5, <4>1 DEF InNext
    <3> QED BY <1>1, <1>3, <1>6, <2>1, <3>1, <3>2 DEF FrameAlone
  <2> QED BY <1>6, <2>1 DEF FramesInv, IpcInv, DataInv
<1>8. ChannelsInv'
  <2>1. ASSUME NEW g \in Frame \ {f} PROVE Passed(g)' = Passed(g)
    BY <1>5, <1>6 DEF Passed
  <2>2. Passed(f)' = {}
    <3>1. ~InQueue(f)
      BY <1>3 DEF FrameAlone
    <3>2. \A r \in OutQue : f \in fwdHeld[r] => r = q
      BY <1>4 DEF Passed
    <3> QED BY <1>5, <1>6, <3>1, <3>2 DEF Passed, InQueue
  <2>3. channelNum'[f] = Chan[f]
    BY <1>3, <1>4, <1>5, QueueOfChannel
  <2> QED BY <1>5, <2>1, <2>2, <2>3 DEF IpcInv, DataInv, ChannelsInv
<1> QED
  BY <1>6, <1>7, <1>8, OnlyFrames DEF IpcInv

-----------------------------------------------------------------------------
(* Steps that move elements and handles, but no frames.                     *)

LEMMA OnlyElems ==
    ASSUME DataInv, ElemsInv', HandlesInv',
           UNCHANGED <<source, list, outFree, pFrame, listElemQue, outFrameBufQue, fwdHeld,
                       channelNum, kind>>
    PROVE  DataInv'
BY FramesStay, ChannelsStay, StandsStay DEF DataInv

LEMMA StopTakeElem ==
    ASSUME IpcInv, FrStopTake
    PROVE  DataInv'
<1>1. listMPOut \in Seq(Elem) /\ listMPOut # <<>> /\ IsInjective(listMPOut)
  BY DEF FrStopTake, IpcInv, FramesTypeOK, DataOK, DataInv, ElemsInv
<1>2. PICK e \in Elem : e = Head(listMPOut) /\ e \in Range(listMPOut)
  BY <1>1, QueueTake
<1>3. /\ stopElem = NoElem /\ stopElem' = e
      /\ IsInjective(listMPOut') /\ Range(listMPOut') = Range(listMPOut) \ {e}
  BY <1>1, <1>2, QueueTake DEF FrStopTake
<1>4. UNCHANGED <<source, list, outFree, pFrame, listElemQue, outFrameBufQue, fwdHeld,
                  channelNum, kind, listMPIn, pListElem, orgElem, outFrameQue, held, ret,
                  freeFrameQue, state>>
  BY DEF FrStopTake, forward, out, in, next
<1>5. HandlesInv' /\ Users' = Users
  BY <1>4, HandlesStay DEF IpcInv, DataInv
<1>6. ElemsInv'
  <2>1. ASSUME NEW d \in Elem, ElemAlone(d) PROVE ElemAlone(d)'
    <3>1. HasUser(d)' = HasUser(d)
      BY <1>4, <1>5 DEF HasUser
    <3> QED BY <1>2, <1>3, <1>4, <1>5, <2>1, <3>1, NullAssumption DEF ElemAlone
  <2> QED BY <1>3, <1>4, <2>1 DEF ElemsInv, IpcInv, DataInv
<1> QED
  BY <1>4, <1>5, <1>6, OnlyElems DEF IpcInv

LEMMA StopPutElem ==
    ASSUME IpcInv, FrStopPut
    PROVE  DataInv'
<1>1. PICK e \in Elem : e = stopElem
  BY DEF FrStopPut, IpcInv, FramesTypeOK
<1>2. listMPIn \in Seq(Elem) /\ IsInjective(listMPIn) /\ e \notin Range(listMPIn)
  BY <1>1 DEF IpcInv, FramesTypeOK, DataOK, DataInv, ElemsInv, ElemAlone
<1>3. /\ stopElem' = NoElem
      /\ IsInjective(listMPIn') /\ Range(listMPIn') = Range(listMPIn) \cup {e}
  BY <1>1, <1>2, QueueAppend DEF FrStopPut
<1>4. UNCHANGED <<source, list, outFree, pFrame, listElemQue, outFrameBufQue, fwdHeld,
                  channelNum, kind, listMPOut, pListElem, orgElem, outFrameQue, held, ret,
                  freeFrameQue, state>>
  BY DEF FrStopPut, forward, out, next
<1>5. HandlesInv' /\ Users' = Users
  BY <1>4, HandlesStay DEF IpcInv, DataInv
<1>6. ElemsInv'
  <2>1. ASSUME NEW d \in Elem, ElemAlone(d) PROVE ElemAlone(d)'
    <3>1. HasUser(d)' = HasUser(d)
      BY <1>4, <1>5 DEF HasUser
    <3> QED BY <1>1, <1>3, <1>4, <1>5, <2>1, <3>1, NullAssumption DEF ElemAlone
  <2> QED BY <1>3, <1>4, <2>1 DEF ElemsInv, IpcInv, DataInv
<1> QED
  BY <1>4, <1>5, <1>6, OnlyElems DEF IpcInv

\* The in link gives the element back after its header.
PutElem ==
    /\ nextPc = "elem"
    /\ listMPIn' = Append(listMPIn, pListElem)
    /\ pListElem' = NoElem
    /\ nextPc' = FrReturned(ret)
    /\ UNCHANGED <<freeFrameQue, ret, orgElem>>
    /\ UNCHANGED <<mode, source, out, outWake, listMPOut, inPc, inGot, outFrameQue,
                   notice, inWake, held, kind, sendMsgToTsk, state, stopElem, forward>>

LEMMA PutElemElem ==
    ASSUME IpcInv, PutElem
    PROVE  DataInv'
<1>1. PICK e \in Elem : e = pListElem
  BY DEF PutElem, IpcInv, FramesTypeOK, TasksInv
<1>2. listMPIn \in Seq(Elem) /\ IsInjective(listMPIn) /\ e \notin Range(listMPIn)
  BY <1>1 DEF IpcInv, FramesTypeOK, DataOK, DataInv, ElemsInv, ElemAlone
<1>3. /\ pListElem' = NoElem
      /\ IsInjective(listMPIn') /\ Range(listMPIn') = Range(listMPIn) \cup {e}
  BY <1>1, <1>2, QueueAppend DEF PutElem
<1>4. UNCHANGED <<source, list, outFree, pFrame, listElemQue, outFrameBufQue, fwdHeld,
                  channelNum, kind, listMPOut, stopElem, orgElem, outFrameQue, held, ret,
                  freeFrameQue, state>>
  BY DEF PutElem, forward, out
<1>5. HandlesInv' /\ Users' = Users
  BY <1>4, HandlesStay DEF IpcInv, DataInv
<1>6. ElemsInv'
  <2>1. ASSUME NEW d \in Elem, ElemAlone(d) PROVE ElemAlone(d)'
    <3>1. HasUser(d)' = HasUser(d)
      BY <1>4, <1>5 DEF HasUser
    <3> QED BY <1>1, <1>3, <1>4, <1>5, <2>1, <3>1, NullAssumption DEF ElemAlone
  <2> QED BY <1>3, <1>4, <2>1 DEF ElemsInv, IpcInv, DataInv
<1> QED
  BY <1>4, <1>5, <1>6, OnlyElems DEF IpcInv

LEMMA GetHandles ==
    ASSUME IpcInv, Event(GetFull)
    PROVE  DataInv'
<1>1. /\ held' = held \cup Range(outFrameQue) /\ outFrameQue' = <<>>
      /\ Range(outFrameQue') = {} /\ IsInjective(outFrameQue')
  BY EmptyQueue DEF Event, GetFull
<1>2. UNCHANGED <<source, list, outFree, pFrame, listElemQue, outFrameBufQue, fwdHeld,
                  channelNum, kind, listMPOut, listMPIn, stopElem, pListElem, orgElem, ret,
                  freeFrameQue, state>>
  BY DEF Event, GetFull, frames, inFrames, forward, out
<1>3. Behind' = Behind /\ Users' = Users
  BY <1>1, <1>2 DEF Behind, Users
<1>4. HandlesInv'
  <2>1. HandlesInv
    BY DEF IpcInv, DataInv
  <2> QED BY <1>1, <1>2, <1>3, <2>1 DEF HandlesInv
<1>5. ElemsInv'
  BY <1>2, <1>3, ElemsStay DEF IpcInv, DataInv
<1> QED
  BY <1>2, <1>4, <1>5, OnlyElems DEF IpcInv

LEMMA ReturnHandles ==
    ASSUME IpcInv, Event(StartReturn)
    PROVE  DataInv'
<1>1. PICK s \in Lists(held) : ret' = s /\ held' = held \ Range(s)
  BY DEF Event, StartReturn
<1>2. /\ Range(s) \subseteq held /\ IsInjective(s)
      /\ Range(ret) = {}
  BY <1>1, ListOf, EmptyQueue DEF Event, StartReturn, IpcInv, TasksInv
<1>3. UNCHANGED <<source, list, outFree, pFrame, listElemQue, outFrameBufQue, fwdHeld,
                  channelNum, kind, listMPOut, listMPIn, stopElem, pListElem, orgElem,
                  outFrameQue, freeFrameQue, state>>
  BY DEF Event, StartReturn, frames, inFrames, forward, out, in
<1>4. Behind' = Behind /\ Users' = Users
  BY <1>1, <1>2, <1>3 DEF Behind, Users
<1>5. HandlesInv'
  <2>1. HandlesInv
    BY DEF IpcInv, DataInv
  <2> QED BY <1>1, <1>2, <1>3, <1>4, <2>1 DEF HandlesInv
<1>6. ElemsInv'
  BY <1>3, <1>4, ElemsStay DEF IpcInv, DataInv
<1> QED
  BY <1>3, <1>5, <1>6, OnlyElems DEF IpcInv

\* What a stopped link lets fall is not free, and not behind it any more.
LEMMA FallHandles ==
    ASSUME IpcInv, kind # "m3", state # "active",
           NEW S, held' = held \ S,
           UNCHANGED <<source, list, outFree, pFrame, listElemQue, outFrameBufQue, fwdHeld,
                       channelNum, kind, listMPOut, listMPIn, stopElem, pListElem, orgElem,
                       outFrameQue, ret, freeFrameQue, state>>
    PROVE  DataInv'
<1>1. Behind' \subseteq Behind /\ Users' = Users
  BY DEF Behind, Users
<1>2. HandlesInv'
  <2>1. HandlesInv
    BY DEF IpcInv, DataInv
  <2> QED BY <1>1, <2>1 DEF HandlesInv
<1>3. ElemsInv'
  BY <1>1, ElemsStay DEF IpcInv, DataInv
<1> QED
  BY <1>2, <1>3, OnlyElems DEF IpcInv

\* The in link takes an element, and handle h has it from now on.
LEMMA TakeElem ==
    ASSUME IpcInv, listMPOut # <<>>, NEW h \in Handle \ Users, Users' = Users \cup {h},
           listMPOut' = Tail(listMPOut),
           orgElem' = [orgElem EXCEPT ![h] = Head(listMPOut)],
           UNCHANGED <<listElemQue, listMPIn, stopElem, pListElem>>
    PROVE  ElemsInv'
<1>1. listMPOut \in Seq(Elem) /\ IsInjective(listMPOut) /\ orgElem \in [Handle -> Elem \cup {NoElem}]
  BY DEF IpcInv, FramesTypeOK, DataOK, DataInv, ElemsInv
<1>2. PICK e \in Elem : e = Head(listMPOut) /\ e \in Range(listMPOut)
  BY <1>1, QueueTake
<1>3. IsInjective(listMPOut') /\ Range(listMPOut') = Range(listMPOut) \ {e}
  BY <1>1, <1>2, QueueTake
<1>4. orgElem'[h] = e /\ \A g \in Users : g # h /\ orgElem'[g] = orgElem[g]
  <2>1. \A g \in Users : g # h /\ (g \in Handle => orgElem'[g] = orgElem[g])
    BY <1>1, <1>2
  <2>2. Users \subseteq Handle
    BY HandleAssumption, HeaderAssumption DEF Users, IpcInv, DataInv, HandlesInv
  <2> QED BY <1>1, <1>2, <2>1, <2>2
<1>5. ASSUME NEW d \in Elem, ElemAlone(d) PROVE ElemAlone(d)'
  <2>1. HasUser(d)' <=> HasUser(d) \/ d = e
    BY <1>4 DEF HasUser
  <2>2. ~HasUser(e)
    BY <1>2 DEF IpcInv, DataInv, ElemsInv, ElemAlone
  <2>3. \A g, k \in Users' : orgElem'[g] = d /\ orgElem'[k] = d => g = k
    BY <1>4, <1>5, <2>2 DEF ElemAlone, HasUser
  <2> QED BY <1>2, <1>3, <1>5, <2>1, <2>3 DEF ElemAlone
<1> QED
  BY <1>3, <1>5 DEF ElemsInv, IpcInv, DataInv

LEMMA InTakeData ==
    ASSUME IpcInv, kind = "m3", Event(InTake)
    PROVE  DataInv'
<1>1. listMPOut \in Seq(Elem) /\ listMPOut # <<>>
  BY DEF Event, InTake, IpcInv, FramesTypeOK, DataOK
<1>2. PICK e \in Elem : e = Head(listMPOut) /\ e \in Range(listMPOut)
  BY <1>1, QueueTake
<1>3. e \notin listElemQue /\ ~HasUser(e)
  BY <1>2 DEF IpcInv, DataInv, ElemsInv, ElemAlone
<1>4. PICK f \in Frame : f = pFrame[e]
  BY <1>3 DEF IpcInv, DataInv, StandsInv
<1>5. Users = Behind /\ \A g \in Behind : orgElem[g] \in Elem /\ pFrame[orgElem[g]] = g
  BY DEF Users, IpcInv, DataInv, HandlesInv
<1>6. f \notin Behind
  <2> SUFFICES ASSUME f \in Behind PROVE FALSE
    OBVIOUS
  <2>1. PICK d \in Elem : d = orgElem[f] /\ pFrame[d] = f
    BY <1>5
  <2>2. HasUser(d)
    BY <1>5, <2>1 DEF HasUser
  <2>3. d \notin listElemQue
    BY <2>2 DEF IpcInv, DataInv, ElemsInv, ElemAlone
  <2>4. d = e
    BY <1>3, <1>4, <2>1, <2>3 DEF IpcInv, DataInv, FramesInv, FrameAlone
  <2> QED BY <1>3, <2>2, <2>4
<1>7. /\ orgElem' = [orgElem EXCEPT ![f] = e] /\ outFrameQue' = Append(outFrameQue, f)
      /\ listMPOut' = Tail(listMPOut)
      /\ UNCHANGED <<source, list, outFree, pFrame, listElemQue, outFrameBufQue, fwdHeld,
                     channelNum, kind, listMPIn, stopElem, pListElem, held, ret,
                     freeFrameQue, state>>
  BY <1>2, <1>4 DEF Event, InTake, frames, inFrames, forward, out, next
<1>8. outFrameQue \in Seq(Handle) /\ IsInjective(outFrameQue) /\ f \notin Range(outFrameQue)
  BY <1>6 DEF IpcInv, FramesTypeOK, DataOK, DataInv, HandlesInv, Behind
<1>9. f \in Handle
  BY HandleAssumption
<1>10. IsInjective(outFrameQue') /\ Range(outFrameQue') = Range(outFrameQue) \cup {f}
  BY <1>7, <1>8, <1>9, QueueAppend
<1>11. Behind' = Behind \cup {f} /\ Users' = Users \cup {f}
  BY <1>5, <1>7, <1>10 DEF Behind, Users
<1>12. ElemsInv'
  BY <1>1, <1>2, <1>5, <1>6, <1>7, <1>9, <1>11, TakeElem
<1>13. HandlesInv'
  <2>1. HandlesInv /\ orgElem \in [Handle -> Elem \cup {NoElem}]
    BY DEF IpcInv, DataInv, FramesTypeOK, DataOK
  <2>2. orgElem'[f] = e /\ \A g \in Behind : orgElem'[g] = orgElem[g]
    BY <1>6, <1>7, <1>9, <2>1, HandleAssumption DEF HandlesInv
  <2>3. \A g \in Users' : orgElem'[g] \in Elem /\ pFrame'[orgElem'[g]] = g
    BY <1>4, <1>5, <1>7, <1>11, <2>2
  <2>4. f \notin held /\ f \notin Range(ret)
    BY <1>6 DEF Behind
  <2>5. Behind' \subseteq Frame
    BY <1>11, <2>1 DEF HandlesInv
  <2>6. Users' = Behind'
    BY <1>5, <1>11
  <2> QED BY <1>7, <1>10, <2>1, <2>3, <2>4, <2>5, <2>6 DEF HandlesInv
<1> QED
  BY <1>7, <1>12, <1>13, OnlyElems DEF IpcInv

LEMMA FrTakeData ==
    ASSUME IpcInv, kind # "m3", FrTake
    PROVE  DataInv'
<1>1. PICK h \in freeFrameQue : /\ freeFrameQue' = freeFrameQue \ {h}
                                /\ orgElem' = [orgElem EXCEPT ![h] = Head(listMPOut)]
                                /\ outFrameQue' = Append(outFrameQue, h)
  BY DEF FrTake
<1>2. /\ listMPOut # <<>> /\ listMPOut' = Tail(listMPOut)
      /\ UNCHANGED <<source, list, outFree, pFrame, listElemQue, outFrameBufQue, fwdHeld,
                     channelNum, kind, listMPIn, stopElem, pListElem, held, ret, state>>
  BY DEF FrTake, forward, out, next
<1>3. listMPOut \in Seq(Elem) /\ outFrameQue \in Seq(Handle) /\ orgElem \in [Handle -> Elem \cup {NoElem}]
  BY DEF IpcInv, FramesTypeOK, DataOK
<1>4. Head(listMPOut) \in Elem
  BY <1>2, <1>3, QueueTake
<1>5. h \in Header /\ h \in Handle /\ h \notin Behind /\ h \notin Users
  BY HeaderAssumption DEF Users, IpcInv, FramesTypeOK, DataInv, HandlesInv
<1>6. IsInjective(outFrameQue') /\ Range(outFrameQue') = Range(outFrameQue) \cup {h}
  BY <1>1, <1>3, <1>5, QueueAppend DEF Behind, IpcInv, DataInv, HandlesInv
<1>7. Behind' = Behind \cup {h} /\ Users' = Users \cup {h}
  BY <1>1, <1>2, <1>5, <1>6 DEF Behind, Users
<1>8. ElemsInv'
  BY <1>1, <1>2, <1>5, <1>7, TakeElem
<1>9. HandlesInv'
  <2>1. HandlesInv
    BY DEF IpcInv, DataInv
  <2>2. \A g \in Users : orgElem'[g] = orgElem[g]
    BY <1>1, <1>3, <1>5, HeaderAssumption DEF Users
  <2>3. \A g \in Users' : orgElem'[g] \in Elem
    BY <1>1, <1>3, <1>4, <1>5, <1>7, <2>1, <2>2 DEF HandlesInv
  <2>4. h \notin held /\ h \notin Range(ret)
    BY <1>5 DEF Behind
  <2> QED BY <1>1, <1>2, <1>5, <1>6, <1>7, <2>1, <2>3, <2>4 DEF HandlesInv
<1> QED
  BY <1>2, <1>8, <1>9, OnlyElems DEF IpcInv

\* The first of the handles that the next link returns.
LEMMA FirstReturned ==
    ASSUME IpcInv, nextPc = "put"
    PROVE  /\ ret \in Seq(Handle) /\ ret # <<>>
           /\ Head(ret) \in Behind /\ Head(ret) \in Users /\ Head(ret) \in Handle
           /\ orgElem[Head(ret)] \in Elem
           /\ IsInjective(Tail(ret)) /\ Range(Tail(ret)) = Range(ret) \ {Head(ret)}
<1>1. ret \in Seq(Handle) /\ ret # <<>> /\ IsInjective(ret)
  BY DEF IpcInv, FramesTypeOK, DataOK, TasksInv, DataInv, HandlesInv
<1>2. PICK h \in Handle : h = Head(ret) /\ h \in Range(ret)
  BY <1>1, QueueTake
<1>3. h \in Behind
  BY <1>2 DEF Behind
<1>4. h \in Users /\ orgElem[h] \in Elem
  BY <1>3 DEF Users, IpcInv, DataInv, HandlesInv
<1>5. IsInjective(Tail(ret)) /\ Range(Tail(ret)) = Range(ret) \ {Head(ret)}
  BY <1>1, QueueTake
<1> QED
  BY <1>1, <1>2, <1>3, <1>4, <1>5

LEMMA PutEmptyData ==
    ASSUME IpcInv, kind = "m3", Event(PutEmpty)
    PROVE  DataInv'
<1>1. PICK h \in Behind : h = Head(ret)
  BY FirstReturned DEF Event, PutEmpty
<1>2. h \in Users /\ IsInjective(ret') /\ Range(ret') = Range(ret) \ {h} /\ h \in Range(ret)
  BY <1>1, FirstReturned, QueueTake DEF Event, PutEmpty
<1>3. PICK e \in Elem : e = orgElem[h]
  BY <1>1, FirstReturned DEF Event, PutEmpty
<1>4. HasUser(e) /\ listMPIn \in Seq(Elem) /\ IsInjective(listMPIn) /\ e \notin Range(listMPIn)
  <2>1. HasUser(e)
    BY <1>2, <1>3 DEF HasUser
  <2> QED BY <2>1 DEF IpcInv, FramesTypeOK, DataOK, DataInv, ElemsInv, ElemAlone
<1>5. /\ listMPIn' = Append(listMPIn, e)
      /\ UNCHANGED <<source, list, outFree, pFrame, listElemQue, outFrameBufQue, fwdHeld,
                     channelNum, kind, listMPOut, stopElem, pListElem, held, orgElem,
                     outFrameQue, freeFrameQue, state>>
  BY <1>1, <1>3 DEF Event, PutEmpty, frames, inFrames, forward, out, in
<1>6. IsInjective(listMPIn') /\ Range(listMPIn') = Range(listMPIn) \cup {e}
  BY <1>4, <1>5, QueueAppend
<1>7. h \notin held /\ h \notin Range(outFrameQue)
  BY <1>2 DEF IpcInv, DataInv, HandlesInv
<1>8. Behind' = Behind \ {h} /\ Users' = Users \ {h}
  BY <1>2, <1>5, <1>7 DEF Behind, Users
<1>9. HandlesInv'
  <2>1. HandlesInv
    BY DEF IpcInv, DataInv
  <2> QED BY <1>2, <1>5, <1>8, <2>1 DEF HandlesInv
<1>10. ElemsInv'
  <2>1. ASSUME NEW d \in Elem, ElemAlone(d) PROVE ElemAlone(d)'
    <3>1. HasUser(d)' <=> HasUser(d) /\ d # e
      BY <1>2, <1>3, <1>5, <1>8, <2>1 DEF HasUser, ElemAlone
    <3> QED BY <1>4, <1>5, <1>6, <1>8, <2>1, <3>1 DEF ElemAlone
  <2> QED BY <1>5, <1>6, <2>1 DEF ElemsInv, IpcInv, DataInv
<1> QED
  BY <1>5, <1>9, <1>10, OnlyElems DEF IpcInv

\* The in link takes a header back; its element is in its hands.
PutHeader ==
    /\ nextPc = "put"
    /\ pListElem' = orgElem[Head(ret)]
    /\ orgElem' = [orgElem EXCEPT ![Head(ret)] = NoElem]
    /\ freeFrameQue' = freeFrameQue \cup {Head(ret)}
    /\ ret' = Tail(ret)
    /\ nextPc' = "elem"
    /\ UNCHANGED listMPIn
    /\ UNCHANGED <<mode, source, out, outWake, listMPOut, inPc, inGot, outFrameQue,
                   notice, inWake, held, kind, sendMsgToTsk, state, stopElem, forward>>

LEMMA PutHeaderData ==
    ASSUME IpcInv, kind # "m3", PutHeader
    PROVE  DataInv'
<1>1. PICK h \in Behind : h = Head(ret)
  BY FirstReturned DEF PutHeader
<1>2. /\ h \in Users /\ h \in Handle /\ h \in Range(ret)
      /\ IsInjective(ret') /\ Range(ret') = Range(ret) \ {h}
  BY <1>1, FirstReturned, QueueTake DEF PutHeader
<1>3. PICK e \in Elem : e = orgElem[h]
  BY <1>1, FirstReturned DEF PutHeader
<1>4. /\ pListElem' = e /\ pListElem = NoElem
      /\ orgElem' = [orgElem EXCEPT ![h] = NoElem]
      /\ freeFrameQue' = freeFrameQue \cup {h}
      /\ UNCHANGED <<source, list, outFree, pFrame, listElemQue, outFrameBufQue, fwdHeld,
                     channelNum, kind, listMPOut, listMPIn, stopElem, held,
                     outFrameQue, state>>
  BY <1>1, <1>3 DEF PutHeader, forward, out, IpcInv, TasksInv
<1>5. HasUser(e)
  BY <1>2, <1>3 DEF HasUser
<1>6. h \notin held /\ h \notin Range(outFrameQue) /\ h \notin freeFrameQue /\ h \in Header
  BY <1>1, <1>2 DEF IpcInv, DataInv, HandlesInv
<1>7. Behind' = Behind \ {h} /\ Users' = Users \ {h}
  BY <1>2, <1>4, <1>6 DEF Behind, Users
<1>8. orgElem \in [Handle -> Elem \cup {NoElem}] /\ Users \subseteq Handle
  BY HeaderAssumption DEF IpcInv, FramesTypeOK, DataOK, Users
<1>9. \A g \in Users' : orgElem'[g] = orgElem[g]
  BY <1>4, <1>7, <1>8
<1>10. HandlesInv'
  <2>1. HandlesInv
    BY DEF IpcInv, DataInv
  <2> QED BY <1>2, <1>4, <1>6, <1>7, <1>9, <2>1 DEF HandlesInv
<1>11. ElemsInv'
  <2>1. ASSUME NEW d \in Elem, ElemAlone(d) PROVE ElemAlone(d)'
    <3>1. HasUser(d)' <=> HasUser(d) /\ d # e
      BY <1>2, <1>3, <1>7, <1>9, <2>1 DEF HasUser, ElemAlone
    <3>2. \A g, k \in Users' : orgElem'[g] = d /\ orgElem'[k] = d => g = k
      BY <1>7, <1>9, <2>1 DEF ElemAlone
    <3> QED BY <1>4, <1>5, <2>1, <3>1, <3>2, NullAssumption DEF ElemAlone
  <2> QED BY <1>4, <2>1 DEF ElemsInv, IpcInv, DataInv
<1> QED
  BY <1>4, <1>10, <1>11, OnlyElems DEF IpcInv

-----------------------------------------------------------------------------
(* Steps that move an element with its frame.                               *)

LEMMA SendData ==
    ASSUME IpcInv, OutSend, UNCHANGED <<kind, inFrames, forward>>
    PROVE  DataInv'
<1>1. PICK e \in listElemQue : /\ listElemQue' = listElemQue \ {e}
                               /\ pFrame' = [pFrame EXCEPT ![e] = Head(list)]
                               /\ listMPOut' = Append(listMPOut, e)
  BY DEF OutSend
<1>2. list \in Seq(Frame) /\ list # <<>> /\ IsInjective(list)
  BY DEF OutSend, IpcInv, FramesTypeOK, DataOK, TasksInv, DataInv, FramesInv
<1>3. PICK f \in Frame : f = Head(list) /\ f \in Range(list)
  BY <1>2, QueueTake
<1>4. IsInjective(list') /\ Range(list') = Range(list) \ {f}
  BY <1>2, <1>3, QueueTake DEF OutSend, SendNext
<1>5. /\ e \in Elem /\ ElemAlone(e)
      /\ listMPOut \in Seq(Elem) /\ IsInjective(listMPOut) /\ e \notin Range(listMPOut)
      /\ pFrame \in [Elem -> Frame \cup {NoFrame}]
  BY DEF IpcInv, FramesTypeOK, DataOK, DataInv, ElemsInv, ElemAlone
<1>6. IsInjective(listMPOut') /\ Range(listMPOut') = Range(listMPOut) \cup {e}
  BY <1>1, <1>5, QueueAppend
<1>7. pFrame'[e] = f /\ \A d \in Elem \ {e} : pFrame'[d] = pFrame[d]
  BY <1>1, <1>3, <1>5
<1>8. UNCHANGED <<source, outFree, outFrameBufQue, fwdHeld, channelNum, kind, listMPIn,
                  stopElem, pListElem, held, ret, orgElem, outFrameQue, freeFrameQue, state>>
  BY DEF OutSend, inFrames, forward, in, next
<1>9. HandlesInv' /\ Users' = Users
  <2>1. \A h \in Users : orgElem[h] \in Elem \ {e}
    BY <1>1, <1>5 DEF ElemAlone, HasUser, IpcInv, DataInv, HandlesInv
  <2>2. \A h \in Users : pFrame'[orgElem[h]] = pFrame[orgElem[h]]
    BY <1>7, <2>1
  <2> QED BY <1>8, <2>2, HandlesStay DEF IpcInv, DataInv
<1>10. ElemsInv'
  <2>1. ASSUME NEW d \in Elem, ElemAlone(d) PROVE ElemAlone(d)'
    <3>1. HasUser(d)' = HasUser(d)
      BY <1>8, <1>9 DEF HasUser
    <3> QED BY <1>1, <1>6, <1>8, <1>9, <2>1, <3>1 DEF ElemAlone
  <2> QED BY <1>6, <1>8, <2>1 DEF ElemsInv, IpcInv, DataInv
<1>11. FramesInv'
  <2>1. ASSUME NEW g \in Frame, FrameAlone(g) PROVE FrameAlone(g)'
    <3>1. InElem(g)' <=> InElem(g) \/ g = f
      BY <1>1, <1>5, <1>7 DEF InElem
    <3>2. InQueue(g)' = InQueue(g) /\ InNext(g)' = InNext(g)
      BY <1>8 DEF InQueue, InNext
    <3>3. \A c, d \in Elem \ listElemQue' : pFrame'[c] = g /\ pFrame'[d] = g => c = d
      <4>1. ~InElem(f)
        BY <1>3 DEF FrameAlone, IpcInv, DataInv, FramesInv
      <4> QED BY <1>1, <1>7, <2>1, <4>1 DEF FrameAlone, InElem
    <3> QED BY <1>3, <1>4, <1>8, <2>1, <3>1, <3>2, <3>3 DEF FrameAlone
  <2> QED BY <1>4, <1>8, <2>1 DEF FramesInv, IpcInv, DataInv
<1>12. StandsInv'
  BY <1>1, <1>7, <1>8 DEF StandsInv, IpcInv, DataInv
<1> QED
  BY <1>8, <1>9, <1>10, <1>11, <1>12, ChannelsStay DEF IpcInv, DataInv

LEMMA ReleaseData ==
    ASSUME IpcInv, listMPIn # <<>>,
           outFree' = outFree \cup {pFrame[Head(listMPIn)]},
           listElemQue' = listElemQue \cup {Head(listMPIn)},
           listMPIn' = Tail(listMPIn),
           pFrame' = IF kind = "m3" THEN pFrame
                     ELSE [pFrame EXCEPT ![Head(listMPIn)] = NoFrame],
           UNCHANGED <<source, list, outFrameBufQue, fwdHeld, channelNum, kind, listMPOut,
                       stopElem, pListElem, held, ret, orgElem, outFrameQue, freeFrameQue,
                       state>>
    PROVE  DataInv'
<1>1. /\ listMPIn \in Seq(Elem) /\ IsInjective(listMPIn)
      /\ pFrame \in [Elem -> Frame \cup {NoFrame}] /\ listElemQue \subseteq Elem
  BY DEF IpcInv, FramesTypeOK, DataOK, DataInv, ElemsInv
<1>2. PICK e \in Elem : e = Head(listMPIn) /\ e \in Range(listMPIn)
  BY <1>1, QueueTake
<1>3. IsInjective(listMPIn') /\ Range(listMPIn') = Range(listMPIn) \ {e}
  BY <1>1, <1>2, QueueTake
<1>4. ElemAlone(e) /\ e \notin listElemQue
  BY <1>2 DEF IpcInv, DataInv, ElemsInv, ElemAlone
<1>5. PICK f \in Frame : f = pFrame[e]
  BY <1>4 DEF IpcInv, DataInv, StandsInv
<1>6. /\ \A d \in Elem \ {e} : pFrame'[d] = pFrame[d]
      /\ kind # "m3" => pFrame'[e] = NoFrame
      /\ outFree' = outFree \cup {f} /\ listElemQue' = listElemQue \cup {e}
  BY <1>1, <1>2, <1>5
<1>7. HandlesInv' /\ Users' = Users
  <2>1. \A h \in Users : orgElem[h] \in Elem \ {e}
    BY <1>2, <1>4 DEF ElemAlone, HasUser, IpcInv, DataInv, HandlesInv
  <2>2. \A h \in Users : pFrame'[orgElem[h]] = pFrame[orgElem[h]]
    BY <1>6, <2>1
  <2> QED BY <2>2, HandlesStay DEF IpcInv, DataInv
<1>8. ElemsInv'
  <2>1. ASSUME NEW d \in Elem, ElemAlone(d) PROVE ElemAlone(d)'
    <3>1. HasUser(d)' = HasUser(d)
      BY <1>7 DEF HasUser
    <3> QED BY <1>2, <1>3, <1>6, <1>7, <2>1, <3>1 DEF ElemAlone
  <2> QED BY <1>3, <2>1 DEF ElemsInv, IpcInv, DataInv
<1>9. FramesInv'
  <2>1. ASSUME NEW g \in Frame, FrameAlone(g) PROVE FrameAlone(g)'
    <3>1. InElem(g)' <=> InElem(g) /\ g # f
      BY <1>4, <1>5, <1>6, <2>1 DEF InElem, FrameAlone
    <3>2. InQueue(g)' = InQueue(g) /\ InNext(g)' = InNext(g)
      BY DEF InQueue, InNext
    <3>3. \A c, d \in Elem \ listElemQue' : pFrame'[c] = g /\ pFrame'[d] = g => c = d
      BY <1>6, <2>1 DEF FrameAlone
    <3>4. InElem(f)
      BY <1>4, <1>5 DEF InElem
    <3> QED BY <1>6, <2>1, <3>1, <3>2, <3>3, <3>4 DEF FrameAlone
  <2> QED BY <2>1 DEF FramesInv, IpcInv, DataInv
<1>10. StandsInv'
  BY <1>6 DEF StandsInv, IpcInv, DataInv
<1> QED
  BY <1>7, <1>8, <1>9, <1>10, ChannelsStay DEF IpcInv, DataInv
-----------------------------------------------------------------------------
(* The steps of a pair, of every kind.                                      *)

\* Frames of a pair of M3 links need not be told of.
Sends == /\ OutSend
         /\ sendMsgToTsk \subseteq sendMsgToTsk' /\ sendMsgToTsk' \subseteq OutQue
         /\ kind # "m3" => sendMsgToTsk' # {}
         /\ UNCHANGED <<kind, inFrames, forward>>
\* A stopped link gives nothing and takes nothing back.
GetNone == /\ nextPc = "get" /\ nextPc' = "idle"
           /\ UNCHANGED <<mode, source, out, outWake, listMPOut, listMPIn, in, inWake,
                          held, ret, frames>>
Falls == /\ nextPc = "idle"
         /\ \E s \in Lists(held) : held' = held \ Range(s)
         /\ UNCHANGED <<mode, source, out, outWake, listMPOut, listMPIn, in, inWake,
                        nextPc, ret, frames>>

\* The steps that move nothing.
Quiet ==
    \/ Event(OutNotify) \/ Event(OutStart) \/ Event(OutWake)
    \/ Event(OutEvent) \/ Event(OutTick) \/ Event(InEvent) \/ Event(InTick)
    \/ Event(InWake) \/ Event(InDone) \/ Event(NextWake) \/ Event(InNotify)
    \/ kind # "m3" /\ (FrStop \/ FrStopped \/ FrStopNotify)
    \/ kind # "m3" /\ state # "active" /\ GetNone
    \/ FrTell
\* Those that move frames, and those that move elements and handles.
FrameStep ==
    \/ Event(OutGet) \/ Event(OutDrop)
    \/ kind = "m3" /\ Event(OutPutBack)
    \/ kind # "m3" /\ FrPutBack
    \/ kind # "process" /\ Event(OutUp)
    \/ FrForward
    \/ \E q \in OutQue : FwdGet(q) \/ FwdPut(q)
ElemStep ==
    \/ Sends
    \/ kind = "m3" /\ (Event(OutRelease) \/ Event(InTake) \/ Event(PutEmpty))
    \/ kind # "m3" /\ (FrRelease \/ FrTake \/ FrStopTake \/ FrStopPut \/ PutHeader \/ PutElem)
    \/ state = "active" /\ (Event(GetFull) \/ Event(StartReturn))
    \/ kind # "m3" /\ state # "active" /\ Falls

LEMMA SendStep ==
    ASSUME IpcInv, IF kind = "m3" THEN Event(OutSend) ELSE FrSend
    PROVE  Sends
<1>1. CASE kind = "m3"
  BY <1>1 DEF Event, Sends, frames, IpcInv, FramesTypeOK
<1>2. CASE kind # "m3"
  <2>1. list \in Seq(Frame) /\ list # <<>>
    BY <1>2 DEF FrSend, OutSend, IpcInv, FramesTypeOK, DataOK, TasksInv
  <2>2. PICK f \in Frame : f = Head(list) /\ f \in Range(list)
    BY <2>1, QueueTake
  <2>3. FrameAlone(f)
    BY DEF IpcInv, DataInv, FramesInv
  <2>4. Passed(f) = {}
    BY <2>2, <2>3 DEF FrameAlone, InQueue, InNext, Passed
  <2>5. channelNum[f] = Chan[f] /\ QueOf(Chan[f]) \in OutQue
    BY <2>4, QueueOfChannel DEF IpcInv, DataInv, ChannelsInv
  <2> QED BY <1>2, <2>2, <2>5 DEF FrSend, Sends, IpcInv, FramesTypeOK
<1> QED
  BY <1>1, <1>2

\* Every step of the specification is one of these.
LEMMA IpcSteps ==
    ASSUME IpcInv, FramesNext
    PROVE  Quiet \/ FrameStep \/ ElemStep
<1>1. kind \in Kind /\ (kind = "m3" => state = "active")
  BY DEF IpcInv, FramesTypeOK, DataInv, HandlesInv
<1>2. CASE GetStep
  BY <1>2 DEF GetStep, FrGet, FrameStep, Event
<1>3. CASE OutStep
  <2>1. CASE kind = "m3"
    <3>1. OutTask /\ UNCHANGED frames
      BY <1>3, <2>1 DEF OutStep
    <3>2. CASE OutSend
      BY <2>1, <3>1, <3>2, SendStep DEF ElemStep, Event
    <3>3. CASE OutDrop \/ OutPutBack \/ OutUp
      BY <2>1, <3>1, <3>3 DEF FrameStep, Event
    <3>4. CASE OutNotify \/ OutStart \/ OutWake
      BY <3>1, <3>4 DEF Quiet, Event
    <3>5. CASE OutRelease
      BY <2>1, <3>1, <3>5 DEF ElemStep, Event
    <3> QED BY <3>1, <3>2, <3>3, <3>4, <3>5 DEF OutTask
  <2>2. CASE kind # "m3"
    <3>1. FrOutTask
      BY <1>3, <2>2 DEF OutStep
    <3>2. CASE FrSend
      BY <2>2, <3>2, SendStep DEF ElemStep
    <3>3. CASE FrDrop \/ FrPutBack \/ FrUp \/ FrForward
      BY <2>2, <3>3 DEF FrameStep, Event, FrDrop, FrUp
    <3>4. CASE FrNotify \/ FrTell
      BY <2>2, <3>4 DEF Quiet, Event, FrNotify
    <3>5. CASE FrRelease
      BY <2>2, <3>5 DEF ElemStep
    <3> QED BY <3>1, <3>2, <3>3, <3>4, <3>5 DEF FrOutTask
  <2> QED BY <2>1, <2>2
<1>4. CASE InStep
  <2>1. CASE kind = "m3"
    BY <1>4, <2>1 DEF InStep, InTask, Quiet, ElemStep, Event
  <2>2. CASE kind # "m3"
    BY <1>4, <2>2 DEF InStep, FrInTask, FrIn, Quiet, ElemStep, Event
  <2> QED BY <2>1, <2>2
<1>5. CASE NextStep
  <2>1. CASE kind = "m3"
    BY <1>1, <1>5, <2>1 DEF NextStep, NextTask, Quiet, ElemStep, Event
  <2>2. CASE kind # "m3"
    <3>1. FrNextTask
      BY <1>5, <2>2 DEF NextStep
    <3>2. CASE FrNext
      BY <3>2 DEF FrNext, Quiet, Event
    <3>3. CASE FrGetFull
      BY <2>2, <3>3 DEF FrGetFull, GetNone, Quiet, ElemStep, Event, frames
    <3>4. CASE FrPutEmpty
      BY <2>2, <3>4 DEF FrPutEmpty, PutHeader, PutElem, ElemStep
    <3> QED BY <3>1, <3>2, <3>3, <3>4 DEF FrNextTask
  <2> QED BY <2>1, <2>2
<1>6. CASE ReturnStep
  BY <1>1, <1>6 DEF ReturnStep, FrReturn, Falls, ElemStep, Event, frames
<1>7. CASE StopStep
  BY <1>7 DEF StopStep, Quiet
<1>8. CASE Event(OutEvent) \/ Event(OutTick) \/ Event(InEvent) \/ Event(InTick)
  BY <1>8 DEF Quiet
<1>9. CASE \E q \in OutQue : FwdGet(q) \/ FwdPut(q)
  BY <1>9 DEF FrameStep
<1> QED
  BY <1>2, <1>3, <1>4, <1>5, <1>6, <1>7, <1>8, <1>9 DEF FramesNext

\* Nothing but the data of DataInv is moved by a step.
LEMMA DataKept ==
    ASSUME IpcInv, FramesNext
    PROVE  DataInv'
<1>1. CASE Quiet
  <2> USE DEF frames, inFrames, forward, out, in, next
  <2>1. CASE Event(OutNotify) \/ Event(OutStart) \/ Event(OutWake)
    BY <2>1, Still DEF Event, OutNotify, OutStart, OutWake, IpcInv
  <2>2. CASE Event(OutEvent) \/ Event(OutTick) \/ Event(InEvent) \/ Event(InTick)
    BY <2>2, Still DEF Event, OutEvent, OutTick, InEvent, InTick, IpcInv
  <2>3. CASE Event(InWake) \/ Event(InDone) \/ Event(NextWake) \/ Event(InNotify)
    BY <2>3, Still DEF Event, InWake, InDone, NextWake, InNotify, IpcInv
  <2>4. CASE kind # "m3" /\ (FrStop \/ FrStopped \/ FrStopNotify)
    BY <2>4, Still DEF FrStop, FrStopped, FrStopNotify, IpcInv
  <2>5. CASE GetNone
    BY <2>5, Still DEF GetNone, IpcInv
  <2>6. CASE FrTell
    BY <2>6, Still DEF FrTell, IpcInv
  <2> QED BY <1>1, <2>1, <2>2, <2>3, <2>4, <2>5, <2>6 DEF Quiet
<1>2. CASE FrameStep
  <2>1. CASE Event(OutPutBack) \/ Event(OutUp)
    BY <2>1, FreeFrames DEF Event, OutPutBack, OutUp, frames, inFrames, forward, in, next
  <2>2. CASE FrPutBack
    BY <2>2, FreeFrames DEF FrPutBack, inFrames, forward, in, next
  <2> QED
    BY <1>2, <2>1, <2>2, GetFrames, DropFrames, ForwardFrames, FwdGetFrames, FwdPutFrames
       DEF FrameStep
<1>3. CASE ElemStep
  <2>1. CASE Sends
    BY <2>1, SendData DEF Sends
  <2>2. CASE kind = "m3" /\ Event(OutRelease)
    <3>1. CASE listMPIn = <<>>
      BY <2>2, <3>1, Still DEF Event, OutRelease, frames, inFrames, forward, in, next, IpcInv
    <3>2. CASE listMPIn # <<>>
      BY <2>2, <3>2, ReleaseData DEF Event, OutRelease, frames, inFrames, forward, in, next
    <3> QED BY <3>1, <3>2
  <2>3. CASE kind # "m3" /\ FrRelease
    <3>1. CASE listMPIn = <<>>
      BY <2>3, <3>1, Still DEF FrRelease, frames, inFrames, forward, in, next, IpcInv
    <3>2. CASE listMPIn # <<>>
      BY <2>3, <3>2, ReleaseData DEF FrRelease, frames, inFrames, forward, in, next
    <3> QED BY <3>1, <3>2
  <2>4. CASE kind # "m3" /\ state # "active" /\ Falls
    BY <2>4, FallHandles DEF Falls, frames, inFrames, forward, out, in
  <2> QED
    BY <1>3, <2>1, <2>2, <2>3, <2>4, InTakeData, PutEmptyData, FrTakeData, StopTakeElem,
       StopPutElem, PutHeaderData, PutElemElem, GetHandles, ReturnHandles DEF ElemStep
<1> QED
  BY <1>1, <1>2, <1>3, IpcSteps
-----------------------------------------------------------------------------
(* The types.                                                               *)

\* Behind the lists: what the heads of non-empty ones are.
LEMMA HeadTypes ==
    ASSUME IpcInv
    PROVE  /\ list # <<>> => Head(list) \in Frame /\ Tail(list) \in Seq(Frame)
           /\ listMPOut # <<>> => /\ Head(listMPOut) \in Elem /\ Tail(listMPOut) \in Seq(Elem)
                                  /\ pFrame[Head(listMPOut)] \in Frame
           /\ listMPIn # <<>> => /\ Head(listMPIn) \in Elem /\ Tail(listMPIn) \in Seq(Elem)
                                 /\ pFrame[Head(listMPIn)] \in Frame
           /\ ret # <<>> => /\ Head(ret) \in Handle /\ Tail(ret) \in Seq(Handle)
                            /\ orgElem[Head(ret)] \in Elem
                            /\ kind # "m3" => Head(ret) \in Header
           /\ \A s \in Lists(held) : s \in Seq(Handle)
           /\ \A s \in Lists(source) \cup {<<>>} : s \in Seq(Frame)
<1>1. /\ list \in Seq(Frame) /\ listMPOut \in Seq(Elem) /\ listMPIn \in Seq(Elem)
      /\ ret \in Seq(Handle) /\ held \subseteq Handle /\ source \subseteq Frame
  BY DEF IpcInv, FramesTypeOK, DataOK
<1>2. ASSUME NEW e \in Elem, e \in Range(listMPOut) \/ e \in Range(listMPIn)
      PROVE  pFrame[e] \in Frame
  BY <1>2 DEF IpcInv, DataInv, StandsInv, ElemsInv, ElemAlone
<1>3. list # <<>> => Head(list) \in Frame /\ Tail(list) \in Seq(Frame)
  BY <1>1, QueueTake
<1>4. listMPOut # <<>> => /\ Head(listMPOut) \in Elem /\ Tail(listMPOut) \in Seq(Elem)
                          /\ pFrame[Head(listMPOut)] \in Frame
  BY <1>1, <1>2, QueueTake
<1>5. listMPIn # <<>> => /\ Head(listMPIn) \in Elem /\ Tail(listMPIn) \in Seq(Elem)
                         /\ pFrame[Head(listMPIn)] \in Frame
  BY <1>1, <1>2, QueueTake
<1>6. ASSUME ret # <<>>
      PROVE  /\ Head(ret) \in Handle /\ Tail(ret) \in Seq(Handle)
             /\ orgElem[Head(ret)] \in Elem
             /\ kind # "m3" => Head(ret) \in Header
  <2>1. PICK h \in Handle : h = Head(ret) /\ h \in Range(ret)
    BY <1>1, <1>6, QueueTake
  <2>2. h \in Behind
    BY <2>1 DEF Behind
  <2>3. h \in Users /\ (kind # "m3" => h \in Header)
    BY <2>2 DEF Users, IpcInv, DataInv, HandlesInv
  <2> QED BY <1>1, <1>6, <2>1, <2>3, QueueTake DEF IpcInv, DataInv, HandlesInv
<1>7. ASSUME NEW s \in Lists(held) PROVE s \in Seq(Handle)
  <2>1. s \in Seq(held)
    BY ListOf
  <2> QED BY <1>1, <2>1
<1>8. ASSUME NEW s \in Lists(source) \cup {<<>>} PROVE s \in Seq(Frame)
  <2>1. s \in Seq(source)
    BY ListOf
  <2> QED BY <1>1, <2>1
<1> QED
  BY <1>3, <1>4, <1>5, <1>6, <1>7, <1>8

LEMMA QuietTypes ==
    ASSUME IpcInv, Quiet PROVE FramesTypeOK'
<1> USE DEF FramesTypeOK, DataOK, frames, inFrames, forward, out, outWake, in, inWake, next
<1>0. FramesTypeOK
  BY DEF IpcInv
<1>1. CASE Event(OutNotify) \/ Event(OutStart) \/ Event(OutWake)
  <2>1. Start(outClk) \in Clk
    BY <1>0 DEF Start, Clk
  <2>2. CASE Event(OutNotify)
    BY <1>0, <2>2 DEF Event, OutNotify
  <2>3. CASE Event(OutStart)
    BY <1>0, <2>1, <2>3 DEF Event, OutStart
  <2>4. CASE Event(OutWake)
    <3>1. /\ outRelease' \in BOOLEAN /\ outPc' = "release"
          /\ UNCHANGED <<mode, source, list, outFree, listElemQue, pFrame, outEvent,
                         outClk, listMPOut, listMPIn, inPc, inGot, inEvent, inNewData,
                         inClk, orgElem, outFrameQue, notice, nextPc, held, ret, kind,
                         sendMsgToTsk, freeFrameQue, state, stopElem, pListElem,
                         channelNum, outFrameBufQue, fwdNotice, fwdHeld>>
      BY <2>4 DEF Event, OutWake
    <3> QED BY <1>0, <3>1
  <2> QED BY <1>1, <2>2, <2>3, <2>4
<1>2. CASE Event(OutEvent) \/ Event(OutTick) \/ Event(InEvent) \/ Event(InTick)
  <2>1. /\ Reconfig(outClk) \in Clk /\ Fired(outClk) \in Clk
        /\ Reconfig(inClk) \in Clk /\ Fired(inClk) \in Clk
    BY <1>0 DEF Reconfig, Fired, Clk
  <2>2. CASE Event(OutEvent)
    <3>1. /\ outEvent' \in BOOLEAN /\ outRelease' \in BOOLEAN /\ outClk' = Reconfig(outClk)
          /\ UNCHANGED <<mode, source, outPc, list, outFree, listElemQue, pFrame,
                         listMPOut, listMPIn, inPc, inGot, inEvent, inNewData, inClk,
                         orgElem, outFrameQue, notice, nextPc, held, ret, kind,
                         sendMsgToTsk, freeFrameQue, state, stopElem, pListElem,
                         channelNum, outFrameBufQue, fwdNotice, fwdHeld>>
      BY <2>2 DEF Event, OutEvent
    <3> QED BY <1>0, <2>1, <3>1
  <2>3. CASE Event(OutTick)
    BY <1>0, <2>1, <2>3 DEF Event, OutTick
  <2>4. CASE Event(InEvent)
    <3>1. /\ inEvent' \in BOOLEAN /\ inNewData' \in BOOLEAN /\ inClk' = Reconfig(inClk)
          /\ UNCHANGED <<mode, source, outPc, list, outFree, listElemQue, pFrame,
                         outEvent, outRelease, outClk, listMPOut, listMPIn, inPc,
                         inGot, orgElem, outFrameQue, notice, nextPc, held, ret, kind,
                         sendMsgToTsk, freeFrameQue, state, stopElem, pListElem,
                         channelNum, outFrameBufQue, fwdNotice, fwdHeld>>
      BY <2>4 DEF Event, InEvent
    <3> QED BY <1>0, <2>1, <3>1
  <2>5. CASE Event(InTick)
    BY <1>0, <2>1, <2>5 DEF Event, InTick
  <2> QED BY <1>2, <2>2, <2>3, <2>4, <2>5
<1>3. CASE Event(InWake) \/ Event(InDone) \/ Event(NextWake) \/ Event(InNotify)
  <2>1. CASE Event(InWake)
    <3>1. /\ inNewData' \in BOOLEAN /\ inPc' = "drain" /\ inGot' \in BOOLEAN
          /\ UNCHANGED <<mode, source, outPc, list, outFree, listElemQue, pFrame,
                         outEvent, outRelease, outClk, listMPOut, listMPIn, inEvent,
                         inClk, orgElem, outFrameQue, notice, nextPc, held, ret, kind,
                         sendMsgToTsk, freeFrameQue, state, stopElem, pListElem,
                         channelNum, outFrameBufQue, fwdNotice, fwdHeld>>
      BY <2>1 DEF Event, InWake
    <3> QED BY <1>0, <3>1
  <2>2. CASE Event(InDone)
    <3>1. /\ notice' \in BOOLEAN /\ inPc' = "idle" /\ inGot' \in BOOLEAN
          /\ UNCHANGED <<mode, source, outPc, list, outFree, listElemQue, pFrame,
                         outEvent, outRelease, outClk, listMPOut, listMPIn, inEvent,
                         inNewData, inClk, orgElem, outFrameQue, nextPc, held, ret,
                         kind, sendMsgToTsk, freeFrameQue, state, stopElem, pListElem,
                         channelNum, outFrameBufQue, fwdNotice, fwdHeld>>
      BY <2>2 DEF Event, InDone
    <3> QED BY <1>0, <3>1
  <2>3. CASE Event(NextWake)
    <3>1. /\ notice' \in BOOLEAN /\ nextPc' = "get"
          /\ UNCHANGED <<mode, source, outPc, list, outFree, listElemQue, pFrame,
                         outEvent, outRelease, outClk, listMPOut, listMPIn, inPc,
                         inGot, inEvent, inNewData, inClk, orgElem, outFrameQue, held,
                         ret, kind, sendMsgToTsk, freeFrameQue, state, stopElem,
                         pListElem, channelNum, outFrameBufQue, fwdNotice, fwdHeld>>
      BY <2>3 DEF Event, NextWake
    <3> QED BY <1>0, <3>1
  <2>4. CASE Event(InNotify)
    BY <1>0, <2>4 DEF Event, InNotify
  <2> QED BY <1>3, <2>1, <2>2, <2>3, <2>4
<1>4. CASE FrStop \/ FrStopped \/ FrStopNotify
  <2>1. CASE FrStop
    BY <1>0, <2>1 DEF FrStop
  <2>2. CASE FrStopped
    <3>1. /\ inPc' \in {"stopNotify", "idle"} /\ inGot' \in BOOLEAN
          /\ UNCHANGED <<mode, source, outPc, list, outFree, listElemQue, pFrame,
                         outEvent, outRelease, outClk, listMPOut, listMPIn, inEvent,
                         inNewData, inClk, orgElem, outFrameQue, notice, nextPc, held,
                         ret, kind, sendMsgToTsk, freeFrameQue, state, stopElem,
                         pListElem, channelNum, outFrameBufQue, fwdNotice, fwdHeld>>
      BY <2>2 DEF FrStopped
    <3> QED BY <1>0, <3>1
  <2>3. CASE FrStopNotify
    BY <1>0, <2>3 DEF FrStopNotify
  <2> QED BY <1>4, <2>1, <2>2, <2>3
<1>5. CASE GetNone
  BY <1>0, <1>5 DEF GetNone
<1>6. CASE FrTell
  BY <1>0, <1>6 DEF FrTell
<1> QED
  BY <1>1, <1>2, <1>3, <1>4, <1>5, <1>6 DEF Quiet

LEMMA FrameTypes ==
    ASSUME IpcInv, FrameStep PROVE FramesTypeOK'
<1> USE DEF FramesTypeOK, DataOK, frames, inFrames, forward, out, outWake, in, inWake, next
<1>0. FramesTypeOK
  BY DEF IpcInv
<1>1. CASE Event(OutGet)
  BY <1>0, <1>1, HeadTypes DEF Event, OutGet
<1>2. CASE Event(OutDrop)
  <2>1. list # <<>>
    BY <1>2 DEF Event, OutDrop, IpcInv, TasksInv
  <2>2. Head(list) \in Frame /\ Tail(list) \in Seq(Frame)
    BY <2>1, HeadTypes
  <2> QED BY <1>0, <1>2, <2>2 DEF Event, OutDrop, SendNext
<1>3. CASE Event(OutPutBack) \/ Event(OutUp)
  BY <1>0, <1>3 DEF Event, OutPutBack, OutUp
<1>4. CASE FrPutBack
  BY <1>0, <1>4 DEF FrPutBack
<1>5. CASE FrForward
  <2>1. PICK f \in outFree :
           LET q == QueOf(channelNum[f])
           IN  /\ channelNum' = [channelNum EXCEPT ![f] = @ - ChBefore[q]]
               /\ outFrameBufQue' = [outFrameBufQue EXCEPT ![q] = Append(@, f)]
               /\ sendMsgToTsk' = sendMsgToTsk \cup {q}
               /\ outFree' = outFree \ {f}
    BY <1>5 DEF FrForward
  <2>2. f \in Frame /\ FrameAlone(f)
    BY DEF IpcInv, DataInv, FramesInv
  <2>3. Passed(f) = {} /\ channelNum[f] = Chan[f]
    BY <2>2 DEF Passed, FrameAlone, InQueue, InNext, IpcInv, DataInv, ChannelsInv
  <2>4. PICK q \in OutQue : q = QueOf(Chan[f])
    BY <2>2, QueueOfChannel
  <2>5. Chan[f] - ChBefore[q] \in Nat
    BY <2>2, <2>4, QueueOfChannel
  <2>6. Append(outFrameBufQue[q], f) \in Seq(Frame)
    BY <1>0, <2>2
  <2>7. /\ channelNum' = [channelNum EXCEPT ![f] = Chan[f] - ChBefore[q]]
        /\ outFrameBufQue' = [outFrameBufQue EXCEPT ![q] = Append(outFrameBufQue[q], f)]
        /\ sendMsgToTsk' = sendMsgToTsk \cup {q}
    BY <2>1, <2>3, <2>4
  <2> QED BY <1>0, <1>5, <2>1, <2>2, <2>5, <2>6, <2>7 DEF FrForward
<1>6. ASSUME NEW q \in OutQue, FwdGet(q) PROVE FramesTypeOK'
  <2>1. Range(outFrameBufQue[q]) \subseteq Frame
    BY <1>0 DEF Range
  <2> QED BY <1>0, <1>6, <2>1 DEF FwdGet, vars
<1>7. ASSUME NEW q \in OutQue, FwdPut(q) PROVE FramesTypeOK'
  <2>1. q \in 1 .. Len(NumChPerOutQue) + 1
    BY ChanAssumption DEF OutQue
  <2>2. ChBefore[q] \in Nat
    BY <2>1, ChannelsBefore
  <2> QED BY <1>0, <1>7, <2>2, SMTT(30) DEF FwdPut
<1> QED
  BY <1>1, <1>2, <1>3, <1>4, <1>5, <1>6, <1>7 DEF FrameStep

LEMMA ElemTypes ==
    ASSUME IpcInv, ElemStep PROVE FramesTypeOK'
<1> USE DEF FramesTypeOK, DataOK, frames, inFrames, forward, out, outWake, in, inWake, next
<1>0. FramesTypeOK /\ freeFrameQue \subseteq Handle
  BY HeaderAssumption DEF IpcInv
<1>1. CASE Sends
  <2>1. Head(list) \in Frame /\ Tail(list) \in Seq(Frame)
    BY <1>1, HeadTypes DEF Sends, OutSend, IpcInv, TasksInv
  <2>2. \A e \in listElemQue : Append(listMPOut, e) \in Seq(Elem)
    BY <1>0
  <2> QED BY <1>0, <1>1, <2>1, <2>2 DEF Sends, OutSend, SendNext
<1>2. CASE Event(OutRelease) \/ FrRelease
  <2>1. listMPIn # <<>> => /\ Head(listMPIn) \in Elem /\ Tail(listMPIn) \in Seq(Elem)
                           /\ pFrame[Head(listMPIn)] \in Frame
    BY HeadTypes
  <2>2. CASE Event(OutRelease)
    <3>1. /\ outPc' \in {"release", "up"} /\ outFree' \subseteq Frame /\ listElemQue' \subseteq Elem
          /\ listMPIn' \in Seq(Elem)
      BY <1>0, <2>1, <2>2 DEF Event, OutRelease
    <3>2. UNCHANGED <<mode, source, list, pFrame, outEvent, outRelease, outClk,
                      listMPOut, inPc, inGot, inEvent, inNewData, inClk, orgElem,
                      outFrameQue, notice, nextPc, held, ret, kind, sendMsgToTsk,
                      freeFrameQue, state, stopElem, pListElem, channelNum,
                      outFrameBufQue, fwdNotice, fwdHeld>>
      BY <2>2 DEF Event, OutRelease
    <3> QED BY <1>0, <3>1, <3>2
  <2>3. CASE FrRelease
    <3>1. /\ outPc' \in {"release", "up"} /\ outFree' \subseteq Frame /\ listElemQue' \subseteq Elem
          /\ listMPIn' \in Seq(Elem)
          /\ pFrame' \in [Elem -> Frame \cup {NoFrame}]
      BY <1>0, <2>1, <2>3 DEF FrRelease
    <3>2. UNCHANGED <<mode, source, list, outEvent, outRelease, outClk, listMPOut,
                      inPc, inGot, inEvent, inNewData, inClk, orgElem, outFrameQue,
                      notice, nextPc, held, ret, kind, sendMsgToTsk, freeFrameQue,
                      state, stopElem, pListElem, channelNum, outFrameBufQue,
                      fwdNotice, fwdHeld>>
      BY <2>3 DEF FrRelease
    <3> QED BY <1>0, <3>1, <3>2
  <2> QED BY <1>2, <2>2, <2>3
<1>3. CASE Event(InTake) /\ kind = "m3"
  <2>1. /\ Head(listMPOut) \in Elem /\ Tail(listMPOut) \in Seq(Elem)
        /\ pFrame[Head(listMPOut)] \in Handle
    BY <1>3, HeadTypes, HandleAssumption DEF Event, InTake
  <2>2. Append(outFrameQue, pFrame[Head(listMPOut)]) \in Seq(Handle)
    BY <1>0, <2>1
  <2> QED BY <1>0, <1>3, <2>1, <2>2 DEF Event, InTake
<1>4. CASE Event(PutEmpty) \/ (kind # "m3" /\ PutHeader)
  <2>1. ret # <<>>
    BY <1>4 DEF Event, PutEmpty, PutHeader, IpcInv, TasksInv
  <2>2. /\ Tail(ret) \in Seq(Handle) /\ orgElem[Head(ret)] \in Elem
        /\ kind # "m3" => Head(ret) \in Header
    BY <2>1, HeadTypes
  <2>3. Append(listMPIn, orgElem[Head(ret)]) \in Seq(Elem)
    BY <1>0, <2>2
  <2>4. CASE Event(PutEmpty)
    BY <1>0, <2>2, <2>3, <2>4 DEF Event, PutEmpty
  <2>5. CASE PutHeader /\ kind # "m3"
    BY <1>0, <2>2, <2>5 DEF PutHeader
  <2> QED BY <1>4, <2>4, <2>5
<1>5. CASE FrTake
  <2>1. /\ Head(listMPOut) \in Elem /\ Tail(listMPOut) \in Seq(Elem)
        /\ \A h \in freeFrameQue : Append(outFrameQue, h) \in Seq(Handle)
    BY <1>0, <1>5, HeadTypes DEF FrTake
  <2> QED BY <1>0, <1>5, <2>1 DEF FrTake
<1>6. CASE FrStopTake
  BY <1>0, <1>6, HeadTypes DEF FrStopTake
<1>7. CASE FrStopPut
  <2>1. Append(listMPIn, stopElem) \in Seq(Elem)
    BY <1>0, <1>7 DEF FrStopPut
  <2> QED BY <1>0, <1>7, <2>1 DEF FrStopPut
<1>8. CASE PutElem
  <2>1. Append(listMPIn, pListElem) \in Seq(Elem)
    BY <1>0, <1>8 DEF PutElem, IpcInv, TasksInv
  <2> QED BY <1>0, <1>8, <2>1 DEF PutElem, FrReturned
<1>9. CASE Event(GetFull)
  <2>1. Range(outFrameQue) \subseteq Handle
    BY <1>0 DEF Range
  <2> QED BY <1>0, <1>9, <2>1 DEF Event, GetFull
<1>10. CASE Event(StartReturn)
  BY <1>0, <1>10, HeadTypes DEF Event, StartReturn
<1>11. CASE Falls
  BY <1>0, <1>11 DEF Falls
<1> QED
  BY <1>1, <1>2, <1>3, <1>4, <1>5, <1>6, <1>7, <1>8, <1>9, <1>10, <1>11 DEF ElemStep
-----------------------------------------------------------------------------
(* Where the tasks stand.                                                   *)

LEMMA QuietTasks ==
    ASSUME IpcInv, Quiet PROVE TasksInv'
<1> USE DEF TasksInv, frames, inFrames, forward, out, outWake, in, inWake, next
<1>0. TasksInv
  BY DEF IpcInv
<1>1. CASE Event(OutNotify) \/ Event(OutStart) \/ Event(OutWake)
  BY <1>0, <1>1 DEF Event, OutNotify, OutStart, OutWake
<1>2. CASE Event(OutEvent) \/ Event(OutTick) \/ Event(InEvent) \/ Event(InTick)
  BY <1>0, <1>2 DEF Event, OutEvent, OutTick, InEvent, InTick
<1>3. CASE Event(InWake) \/ Event(InDone) \/ Event(NextWake) \/ Event(InNotify)
  BY <1>0, <1>3 DEF Event, InWake, InDone, NextWake, InNotify
<1>4. CASE kind # "m3" /\ (FrStop \/ FrStopped \/ FrStopNotify)
  BY <1>0, <1>4 DEF FrStop, FrStopped, FrStopNotify
<1>5. CASE GetNone
  BY <1>0, <1>5 DEF GetNone
<1>6. CASE FrTell
  BY <1>0, <1>6 DEF FrTell
<1> QED
  BY <1>1, <1>2, <1>3, <1>4, <1>5, <1>6 DEF Quiet

\* The last of a list.
LEMMA LastOf ==
    ASSUME NEW S, NEW q \in Seq(S), q # <<>>
    PROVE  /\ Len(q) = 1 => Tail(q) = <<>>
           /\ Len(q) # 1 => Tail(q) # <<>>
           /\ Len(q) > 1 <=> Len(q) # 1
<1>1. PICK t \in Seq(S) : t = Tail(q) /\ Len(t) = Len(q) - 1
  BY QueueTake
<1>2. PICK n \in Nat : n = Len(q) /\ n # 0
  BY EmptySeq, LenProperties
<1>3. t = <<>> <=> Len(t) = 0
  BY <1>1, EmptySeq
<1>4. Len(t) = n - 1
  BY <1>1, <1>2
<1>5. n = 1 => t = <<>>
  BY <1>3, <1>4
<1>6. n # 1 => t # <<>>
  BY <1>3, <1>4
<1>7. n > 1 <=> n # 1
  <2>1. n \in Nat /\ n # 0
    BY <1>2
  <2> QED BY ONLY <2>1
<1> QED
  BY <1>1, <1>2, <1>5, <1>6, <1>7

LEMMA FrameTasks ==
    ASSUME IpcInv, FrameStep PROVE TasksInv'
<1> USE DEF TasksInv, frames, inFrames, forward, out, outWake, in, inWake, next
<1>0. TasksInv /\ list \in Seq(Frame)
  BY DEF IpcInv, FramesTypeOK, DataOK
<1>1. CASE Event(OutGet)
  BY <1>0, <1>1 DEF Event, OutGet
<1>2. CASE Event(OutDrop)
  <2>1. list # <<>>
    BY <1>0, <1>2 DEF Event, OutDrop
  <2>2. list' = Tail(list) /\ outPc' = IF list' = <<>> THEN "putBack" ELSE "send"
    BY <1>0, <1>2, <2>1, LastOf DEF Event, OutDrop, SendNext
  <2>3. UNCHANGED <<mode, nextPc, ret, pListElem, stopElem, inPc, state, kind>>
    BY <1>2 DEF Event, OutDrop
  <2> QED BY <1>0, <2>2, <2>3
<1>3. CASE Event(OutPutBack) \/ Event(OutUp)
  BY <1>0, <1>3 DEF Event, OutPutBack, OutUp
<1>4. CASE FrPutBack
  BY <1>0, <1>4 DEF FrPutBack
<1>5. CASE FrForward
  BY <1>0, <1>5 DEF FrForward
<1>6. ASSUME NEW q \in OutQue, FwdGet(q) \/ FwdPut(q) PROVE TasksInv'
  BY <1>0, <1>6 DEF FwdGet, FwdPut, vars
<1> QED
  BY <1>1, <1>2, <1>3, <1>4, <1>5, <1>6 DEF FrameStep

LEMMA ElemTasks ==
    ASSUME IpcInv, ElemStep PROVE TasksInv'
<1> USE DEF TasksInv, frames, inFrames, forward, out, outWake, in, inWake, next
<1>0. TasksInv /\ list \in Seq(Frame) /\ ret \in Seq(Handle)
  BY DEF IpcInv, FramesTypeOK, DataOK
<1>1. CASE Sends
  <2>1. list # <<>>
    BY <1>0, <1>1 DEF Sends, OutSend
  <2>2. list' = Tail(list) /\ outPc' = IF list' = <<>> THEN "putBack" ELSE "send"
    BY <1>0, <1>1, <2>1, LastOf DEF Sends, OutSend, SendNext
  <2>3. UNCHANGED <<mode, nextPc, ret, pListElem, stopElem, inPc, state, kind>>
    BY <1>1 DEF Sends, OutSend
  <2> QED BY <1>0, <2>2, <2>3
<1>2. CASE Event(OutRelease) \/ FrRelease
  BY <1>0, <1>2 DEF Event, OutRelease, FrRelease
<1>3. CASE Event(InTake) \/ FrTake
  BY <1>0, <1>3 DEF Event, InTake, FrTake
<1>4. CASE Event(PutEmpty)
  <2>1. ret # <<>>
    BY <1>0, <1>4 DEF Event, PutEmpty
  <2>2. /\ ret' = Tail(ret) /\ nextPc = "put"
        /\ nextPc' = IF ret' # <<>> THEN "put" ELSE IF mode.notifyPrev THEN "notify" ELSE "idle"
    BY <1>0, <1>4, <2>1, LastOf DEF Event, PutEmpty
  <2>3. UNCHANGED <<mode, outPc, list, pListElem, stopElem, inPc, state, kind>>
    BY <1>4 DEF Event, PutEmpty
  <2> QED BY <1>0, <2>2, <2>3
<1>5. CASE kind # "m3" /\ PutHeader
  <2>1. orgElem[Head(ret)] \in Elem
    BY <1>5, FirstReturned DEF PutHeader
  <2> QED BY <1>0, <1>5, <2>1, NullAssumption DEF PutHeader
<1>6. CASE kind # "m3" /\ FrStopTake
  BY <1>0, <1>6 DEF FrStopTake
<1>7. CASE kind # "m3" /\ FrStopPut
  BY <1>0, <1>7 DEF FrStopPut
<1>8. CASE kind # "m3" /\ PutElem
  BY <1>0, <1>8 DEF PutElem, FrReturned
<1>9. CASE Event(GetFull)
  BY <1>0, <1>9 DEF Event, GetFull
<1>10. CASE Event(StartReturn)
  <2>1. \A s \in Lists(held) : s # <<>>
    <3>1. ASSUME NEW s \in Lists(held) PROVE s # <<>>
      <4>1. PICK n \in 1 .. Cardinality(held) : s \in [1 .. n -> held]
        BY DEF Lists
      <4>2. 1 \in DOMAIN s
        BY <4>1
      <4> QED BY <4>2
    <3> QED BY <3>1
  <2> QED BY <1>0, <1>10, <2>1 DEF Event, StartReturn
<1>11. CASE Falls
  BY <1>0, <1>11 DEF Falls
<1> QED
  BY <1>1, <1>2, <1>3, <1>4, <1>5, <1>6, <1>7, <1>8, <1>9, <1>10, <1>11 DEF ElemStep

-----------------------------------------------------------------------------
(* The invariant holds.                                                     *)

LEMMA IpcInit == FramesInit => IpcInv
<1> SUFFICES ASSUME FramesInit PROVE IpcInv
  OBVIOUS
<1> USE DEF FramesInit, Init
<1>1. Range(list) = {} /\ Range(listMPOut) = {} /\ Range(listMPIn) = {}
      /\ Range(outFrameQue) = {} /\ Range(ret) = {} /\ IsInjective(<<>>)
      /\ \A q \in OutQue : Range(outFrameBufQue[q]) = {} /\ fwdHeld[q] = {}
  BY EmptyQueue
<1>2. Behind = {} /\ Users = {}
  BY <1>1 DEF Behind, Users
<1>3. FramesTypeOK
  <2>1. \A f \in Frame : Chan[f] \in Nat
    BY QueueOfChannel
  <2>2. Chan \in [Frame -> Nat]
    BY <2>1, ChanAssumption
  <2>3. Start(Stopped) \in Clk /\ Stopped \in Clk
    BY DEF Start, Stopped, Clk
  <2>4. DataOK
    <3>1. /\ source \subseteq Frame /\ list \in Seq(Frame) /\ outFree \subseteq Frame
          /\ listElemQue \subseteq Elem /\ held \subseteq Handle
          /\ pFrame \in [Elem -> Frame \cup {NoFrame}]
          /\ orgElem \in [Handle -> Elem \cup {NoElem}]
      OBVIOUS
    <3>2. /\ mode \in Modes /\ outClk \in Clk /\ inClk \in Clk
      BY <2>3
    <3>3. /\ listMPOut \in Seq(Elem) /\ listMPIn \in Seq(Elem)
          /\ outFrameQue \in Seq(Handle) /\ ret \in Seq(Handle)
      OBVIOUS
    <3>4. /\ outEvent \in BOOLEAN /\ outRelease \in BOOLEAN /\ inGot \in BOOLEAN
          /\ inEvent \in BOOLEAN /\ inNewData \in BOOLEAN /\ notice \in BOOLEAN
      OBVIOUS
    <3> QED BY <3>1, <3>2, <3>3, <3>4 DEF DataOK
  <2> QED BY <2>2, <2>4 DEF FramesTypeOK
<1>4. ElemsInv
  BY <1>1, <1>2, NullAssumption DEF ElemsInv, ElemAlone, HasUser
<1>5. FramesInv
  BY <1>1 DEF FramesInv, FrameAlone, InElem, InQueue, InNext
<1>6. StandsInv
  BY DEF StandsInv
<1>7. HandlesInv
  BY <1>1, <1>2 DEF HandlesInv
<1>8. ChannelsInv
  BY <1>1 DEF ChannelsInv, Passed
<1>9. TasksInv
  BY DEF TasksInv
<1> QED
  BY <1>3, <1>4, <1>5, <1>6, <1>7, <1>8, <1>9 DEF IpcInv, DataInv

LEMMA IpcStutter ==
    ASSUME IpcInv, UNCHANGED framesVars PROVE IpcInv'
<1>1. DataInv'
  BY Still DEF IpcInv, framesVars, vars, frames, inFrames, forward, out, in, next
<1>2. FramesTypeOK' /\ TasksInv'
  BY DEF IpcInv, FramesTypeOK, DataOK, TasksInv, framesVars, vars, frames, inFrames, forward,
         out, outWake, in, inWake, next
<1> QED
  BY <1>1, <1>2 DEF IpcInv

LEMMA IpcKept == IpcInv /\ [FramesNext]_framesVars => IpcInv'
<1> SUFFICES ASSUME IpcInv, [FramesNext]_framesVars PROVE IpcInv'
  OBVIOUS
<1>1. CASE UNCHANGED framesVars
  BY <1>1, IpcStutter
<1>2. CASE FramesNext
  <2>1. FramesTypeOK' /\ TasksInv'
    BY <1>2, IpcSteps, QuietTypes, FrameTypes, ElemTypes, QuietTasks, FrameTasks, ElemTasks
  <2> QED BY <1>2, <2>1, DataKept DEF IpcInv
<1> QED
  BY <1>1, <1>2

\* Whatever is in the lists, queues and hands of a pair of any kind, the
\* inductive invariant says where it may be: one place for each element, frame
\* and header, and what each stands for.
THEOREM Inductive == FramesSpec => []IpcInv
BY IpcInit, IpcKept, PTL DEF FramesSpec

\* The variables of both links have their types, whatever the pair.
THEOREM TypeCorrect == FramesSpec => []FramesTypeOK
<1>1. IpcInv => FramesTypeOK
  BY DEF IpcInv
<1> QED
  BY <1>1, Inductive, PTL
-----------------------------------------------------------------------------
(* Every buffer is in one place, and there is one when it is needed.        *)

LEMMA ElemInOnePlace ==
    ASSUME NEW e \in Elem, ElemAlone(e)
    PROVE  Cardinality(Tagged(ElemPlaces(e))) = 1
<1> DEFINE by == ElemPlaces(e)
<1>1. /\ DOMAIN by = {"pool", "outList", "inList", "stop", "put", "user"}
      /\ by["pool"] = {e} \cap listElemQue /\ by["outList"] = {e} \cap Range(listMPOut)
      /\ by["inList"] = {e} \cap Range(listMPIn)
      /\ by["stop"] = {e} \cap {stopElem} /\ by["put"] = {e} \cap {pListElem}
      /\ by["user"] = {h \in Users : orgElem[h] = e}
  BY DEF ElemPlaces
<1>2. PICK k \in DOMAIN by : by[k] # {}
  <2>1. CASE e \in listElemQue
    BY <1>1, <2>1
  <2>2. CASE e \in Range(listMPOut)
    BY <1>1, <2>2
  <2>3. CASE e \in Range(listMPIn)
    BY <1>1, <2>3
  <2>4. CASE e = stopElem
    BY <1>1, <2>4
  <2>5. CASE e = pListElem
    BY <1>1, <2>5
  <2>6. CASE HasUser(e)
    BY <1>1, <2>6 DEF HasUser
  <2> QED BY <2>1, <2>2, <2>3, <2>4, <2>5, <2>6 DEF ElemAlone
<1>3. PICK x : x \in by[k]
  BY <1>2
<1>4. \A l \in DOMAIN by : by[l] # {} => l = k
  <2>1. /\ by["pool"] # {} <=> e \in listElemQue
        /\ by["outList"] # {} <=> e \in Range(listMPOut)
        /\ by["inList"] # {} <=> e \in Range(listMPIn)
        /\ by["stop"] # {} <=> e = stopElem
        /\ by["put"] # {} <=> e = pListElem
        /\ by["user"] # {} <=> HasUser(e)
    BY <1>1, ZenonT(30) DEF HasUser
  <2> HIDE DEF by
  <2> QED BY <1>1, <1>2, <2>1 DEF ElemAlone
<1>5. \A y \in by[k] : y = x
  <2>1. CASE k = "user"
    BY <1>1, <1>3, <2>1 DEF ElemAlone
  <2>2. CASE k # "user"
    <3>1. by[k] \subseteq {e}
      BY <1>1, <2>2
    <3> QED BY <1>3, <3>1
  <2> QED BY <2>1, <2>2
<1> HIDE DEF by
<1>6. Cardinality(Tagged(by)) = 1
  BY <1>3, <1>4, <1>5, OnlyOwner
<1> QED
  BY <1>6 DEF by

LEMMA FrameInOnePlace ==
    ASSUME NEW f \in Frame, FrameAlone(f), Passed(f) \subseteq {QueOf(Chan[f])}
    PROVE  Cardinality(Tagged(FramePlaces(f))) = 1
<1> DEFINE by == FramePlaces(f)
<1>1. /\ DOMAIN by = {"source", "list", "outFree", "elem", "queue", "fwdHeld"}
      /\ by["source"] = {f} \cap source /\ by["list"] = {f} \cap Range(list)
      /\ by["outFree"] = {f} \cap outFree
      /\ by["elem"] = {e \in Elem \ listElemQue : pFrame[e] = f}
      /\ by["queue"] = {q \in OutQue : f \in Range(outFrameBufQue[q])}
      /\ by["fwdHeld"] = {q \in OutQue : f \in fwdHeld[q]}
  BY DEF FramePlaces
<1>2. /\ by["source"] # {} <=> f \in source
      /\ by["list"] # {} <=> f \in Range(list)
      /\ by["outFree"] # {} <=> f \in outFree
      /\ by["elem"] # {} <=> InElem(f)
      /\ by["queue"] # {} <=> InQueue(f)
      /\ by["fwdHeld"] # {} <=> InNext(f)
  BY <1>1 DEF InElem, InQueue, InNext
<1>3. PICK k \in DOMAIN by : by[k] # {}
  <2> HIDE DEF by
  <2> QED BY <1>1, <1>2 DEF FrameAlone
<1>4. PICK x : x \in by[k]
  BY <1>3
<1>5. \A l \in DOMAIN by : by[l] # {} => l = k
  <2> HIDE DEF by
  <2> QED BY <1>1, <1>2, <1>3 DEF FrameAlone
<1>6. \A y \in by[k] : y = x
  <2>1. CASE k = "elem"
    BY <1>1, <1>4, <2>1 DEF FrameAlone
  <2>2. CASE k \in {"queue", "fwdHeld"}
    <3>1. by[k] \subseteq {QueOf(Chan[f])}
      BY <1>1, <2>2 DEF Passed
    <3> QED BY <1>4, <3>1
  <2>3. CASE k \in {"source", "list", "outFree"}
    <3>1. by[k] \subseteq {f}
      BY <1>1, <2>3
    <3> QED BY <1>4, <3>1
  <2> QED BY <1>1, <2>1, <2>2, <2>3
<1> HIDE DEF by
<1>7. Cardinality(Tagged(by)) = 1
  BY <1>4, <1>5, <1>6, OnlyOwner
<1> QED
  BY <1>7 DEF by

\* While the out link has a frame to send, that frame has no element yet, so
\* the elements in use are fewer than the frames.
LEMMA ElementForFrame ==
    ASSUME IpcInv, Cardinality(Frame) <= Cardinality(Elem), list # <<>>
    PROVE  listElemQue # {}
<1> SUFFICES ASSUME listElemQue = {} PROVE FALSE
  OBVIOUS
<1>1. list \in Seq(Frame) /\ pFrame \in [Elem -> Frame \cup {NoFrame}]
  BY DEF IpcInv, FramesTypeOK, DataOK
<1>2. PICK f \in Frame : f \in Range(list)
  BY <1>1, QueueTake
<1>3. ~InElem(f)
  BY <1>2 DEF IpcInv, DataInv, FramesInv, FrameAlone
<1>4. \A e \in Elem : pFrame[e] \in Frame \ {f}
  BY <1>3 DEF InElem, IpcInv, DataInv, StandsInv
<1>5. pFrame \in [Elem -> Frame \ {f}]
  BY <1>1, <1>4
<1>6. IsFiniteSet(Elem) /\ IsFiniteSet(Frame)
  BY HandleAssumption, FS_Subset
<1>7. /\ IsFiniteSet(Frame \ {f}) /\ Cardinality(Frame \ {f}) = Cardinality(Frame) - 1
      /\ Cardinality(Frame) \in Nat /\ Cardinality(Elem) \in Nat
  BY <1>6, FS_RemoveElement, FS_CardinalityType
<1>8. Cardinality(Frame \ {f}) < Cardinality(Elem)
  BY <1>7
<1>9. PICK d, e \in Elem : d # e /\ pFrame[d] = pFrame[e]
  BY <1>5, <1>6, <1>7, <1>8, FS_PigeonHole
<1>10. pFrame[d] \in Frame
  BY <1>4
<1> QED
  BY <1>9, <1>10 DEF IpcInv, DataInv, FramesInv, FrameAlone

\* An element on the list of the out link has no header yet.
LEMMA HeaderForElement ==
    ASSUME IpcInv, kind # "m3", Cardinality(Elem) <= Cardinality(Header), listMPOut # <<>>
    PROVE  freeFrameQue # {}
<1> SUFFICES ASSUME freeFrameQue = {} PROVE FALSE
  OBVIOUS
<1>1. listMPOut \in Seq(Elem) /\ orgElem \in [Handle -> Elem \cup {NoElem}] /\ Users = Header
  BY DEF IpcInv, FramesTypeOK, DataOK, Users
<1>2. PICK e \in Elem : e \in Range(listMPOut)
  BY <1>1, QueueTake
<1>3. ~HasUser(e)
  BY <1>2 DEF IpcInv, DataInv, ElemsInv, ElemAlone
<1>4. \A h \in Header : orgElem[h] \in Elem \ {e}
  BY <1>1, <1>3 DEF HasUser, IpcInv, DataInv, HandlesInv
<1> DEFINE org == [h \in Header |-> orgElem[h]]
<1>5. org \in [Header -> Elem \ {e}]
  BY <1>4
<1>6. IsFiniteSet(Elem) /\ IsFiniteSet(Header)
  BY HandleAssumption, HeaderAssumption, FS_Subset
<1>7. /\ IsFiniteSet(Elem \ {e}) /\ Cardinality(Elem \ {e}) = Cardinality(Elem) - 1
      /\ Cardinality(Elem) \in Nat /\ Cardinality(Header) \in Nat
  BY <1>6, FS_RemoveElement, FS_CardinalityType
<1>8. Cardinality(Elem \ {e}) < Cardinality(Header)
  BY <1>7
<1>9. PICK g, h \in Header : g # h /\ org[g] = org[h]
  <2> HIDE DEF org
  <2> QED BY <1>5, <1>6, <1>7, <1>8, FS_PigeonHole
<1>10. PICK d \in Elem : orgElem[g] = d /\ orgElem[h] = d
  BY <1>4, <1>9
<1> QED
  BY <1>1, <1>9, <1>10 DEF IpcInv, DataInv, ElemsInv, ElemAlone

LEMMA IpcBuffers ==
    ASSUME Cardinality(Frame) <= Cardinality(Elem), Cardinality(Elem) <= Cardinality(Header)
    PROVE  IpcInv => BuffersKept
<1> SUFFICES ASSUME IpcInv PROVE BuffersKept
  OBVIOUS
<1>1. \A e \in Elem : Cardinality(Tagged(ElemPlaces(e))) = 1
  BY ElemInOnePlace DEF IpcInv, DataInv, ElemsInv
<1>2. ASSUME NEW f \in Frame
      PROVE  /\ Cardinality(Tagged(FramePlaces(f))) = 1
             /\ f \in source => channelNum[f] = Chan[f]
  <2>1. FrameAlone(f) /\ Passed(f) \subseteq {QueOf(Chan[f])}
    BY DEF IpcInv, DataInv, FramesInv, ChannelsInv
  <2>2. ASSUME f \in source PROVE channelNum[f] = Chan[f]
    <3>1. Passed(f) = {}
      BY <2>1, <2>2 DEF FrameAlone, InQueue, InNext, Passed
    <3> QED BY <3>1 DEF IpcInv, DataInv, ChannelsInv
  <2> QED BY <2>1, <2>2, FrameInOnePlace
<1>3. QueuedOnce
  BY DEF QueuedOnce, IpcInv, DataInv, ElemsInv, FramesInv, HandlesInv
<1>4. IF kind = "m3" THEN \A f \in Behind : pFrame[orgElem[f]] = f
      ELSE /\ freeFrameQue \cap Behind = {}
           /\ state = "active" => freeFrameQue \cup Behind = Header
           /\ \A e \in listElemQue : pFrame[e] = NoFrame
  BY DEF IpcInv, DataInv, HandlesInv, StandsInv, FramesTypeOK, DataOK
<1>5. NeverShort
  BY ElementForFrame, HeaderForElement DEF NeverShort, IpcInv, TasksInv
<1> QED
  BY <1>1, <1>2, <1>3, <1>4, <1>5 DEF BuffersKept

\* Elements, frames and headers are never lost, copied or mixed up, and the out
\* link never lacks an element nor the in link a header: that needs as many
\* elements as frames, and as many headers as elements.
THEOREM AlwaysBuffersKept ==
    ASSUME Cardinality(Frame) <= Cardinality(Elem), Cardinality(Elem) <= Cardinality(Header)
    PROVE  FramesSpec => []BuffersKept
BY IpcBuffers, Inductive, PTL
-----------------------------------------------------------------------------
(* Nothing on the way waits without a reason to look for it.                *)

\* The in link will look at listMPOut: the out link has an event to send, has
\* sent it, or will find that it has one, or the clock goes on.
ForthInv ==
    /\ listMPOut # <<>> =>
          \/ inEvent \/ inNewData \/ inClk.run # "stopped" \/ inPc \in {"drain", "stop"}
          \/ outPc = "notify"
          \/ outPc \in {"send", "putBack"} /\ (kind = "frames" => sendMsgToTsk # {})
    /\ ~mode.notifyNext => ~inEvent /\ inClk.run = "periodic"

\* The out link will look at listMPIn; if no event tells it to, its clock has
\* been running since its first frames, and nothing can stop that clock.
BackInv ==
    /\ listMPIn # <<>> /\ mode.notifyPrev =>
          \/ outEvent \/ outRelease \/ outClk.run # "stopped"
          \/ nextPc \in {"put", "elem", "notify"}
          \/ (inPc = "stop" /\ inGot) \/ inPc = "stopNotify"
          \/ outPc \notin {"idle", "up"}
    /\ ~mode.notifyPrev =>
          /\ ~outEvent
          /\ outClk.clkStarted => outClk.run = "periodic"
          /\ listElemQue # Elem /\ outPc \in {"idle", "release", "up"} => outClk.run = "periodic"

\* A next link of the out link has been told, or will be in this round.
OnInv == \A q \in OutQue : outFrameBufQue[q] # <<>> =>
            kind = "process" /\ (fwdNotice[q] \/ (outPc = "up" /\ q \in sendMsgToTsk))

WakeInv == ForthInv /\ BackInv /\ OnInv

LEMMA ForthKept ==
    ASSUME IpcInv, ForthInv, FramesNext PROVE ForthInv'
<1> USE DEF ForthInv, frames, inFrames, forward, out, outWake, in, inWake, next
<1>0. /\ mode.notifyNext \in BOOLEAN /\ inEvent \in BOOLEAN /\ inNewData \in BOOLEAN
      /\ kind \in Kind /\ TasksInv
      /\ (outPc = "notify" => mode.notifyNext)
  BY ModesAssumption DEF IpcInv, FramesTypeOK, DataOK, Mode, TasksInv
<1>1. CASE Event(OutNotify) \/ Event(OutStart) \/ Event(OutWake)
  BY <1>0, <1>1 DEF Event, OutNotify, OutStart, OutWake
<1>2. CASE Event(OutEvent) \/ Event(OutTick)
  BY <1>2 DEF Event, OutEvent, OutTick
<1>3. CASE Event(InEvent)
  BY <1>3 DEF Event, InEvent
<1>4. CASE Event(InTick)
  <2>1. inClk.run = "periodic" => Fired(inClk).run = "periodic"
    BY DEF Fired
  <2> QED BY <1>4, <2>1 DEF Event, InTick
<1>5. CASE Event(InWake) \/ Event(InDone)
  BY <1>5 DEF Event, InWake, InDone
<1>6. CASE Event(NextWake) \/ Event(InNotify) \/ GetNone \/ Falls
  BY <1>6 DEF Event, NextWake, InNotify, GetNone, Falls
<1>7. CASE FrStop
  BY <1>7 DEF FrStop
<1>8. CASE FrStopped \/ FrStopNotify
  BY <1>8 DEF FrStopped, FrStopNotify
<1>9. CASE FrTell
  BY <1>9 DEF FrTell
<1>10. CASE Event(OutGet)
  BY <1>10 DEF Event, OutGet
<1>11. CASE Event(OutDrop)
  BY <1>11 DEF Event, OutDrop, SendNext
<1>12. CASE kind = "m3" /\ Event(OutPutBack)
  BY <1>12 DEF Event, OutPutBack
<1>13. CASE kind # "m3" /\ FrPutBack
  BY <1>0, <1>13 DEF FrPutBack, Kind
<1>14. CASE Event(OutUp) \/ FrForward
  BY <1>14 DEF Event, OutUp, FrForward
<1>15. ASSUME NEW q \in OutQue, FwdGet(q) \/ FwdPut(q) PROVE ForthInv'
  BY <1>15 DEF FwdGet, FwdPut, vars
<1>16. CASE Sends
  BY <1>16 DEF Sends, OutSend, SendNext
<1>17. CASE Event(OutRelease) \/ FrRelease
  BY <1>17 DEF Event, OutRelease, FrRelease
<1>18. CASE Event(InTake) \/ FrTake
  BY <1>18 DEF Event, InTake, FrTake
<1>19. CASE FrStopTake \/ FrStopPut
  BY <1>19 DEF FrStopTake, FrStopPut
<1>20. CASE Event(PutEmpty) \/ PutHeader \/ PutElem
  BY <1>20 DEF Event, PutEmpty, PutHeader, PutElem
<1>21. CASE Event(GetFull) \/ Event(StartReturn)
  BY <1>21 DEF Event, GetFull, StartReturn
<1>22. CASE Quiet
  BY <1>22, <1>1, <1>2, <1>3, <1>4, <1>5, <1>6, <1>7, <1>8, <1>9 DEF Quiet
<1>23. CASE FrameStep
  BY <1>23, <1>10, <1>11, <1>12, <1>13, <1>14, <1>15 DEF FrameStep
<1>24. CASE ElemStep
  BY <1>24, <1>6, <1>16, <1>17, <1>18, <1>19, <1>20, <1>21 DEF ElemStep
<1> QED
  BY <1>22, <1>23, <1>24, IpcSteps

LEMMA BackKept ==
    ASSUME IpcInv, BackInv, FramesNext PROVE BackInv'
<1> USE DEF BackInv, frames, inFrames, forward, out, outWake, in, inWake, next
<1>0. /\ TasksInv /\ listElemQue \subseteq Elem
      /\ nextPc = "notify" \/ inPc = "stopNotify" => mode.notifyPrev
      /\ mode \in Mode /\ (mode.notifyPrev \/ mode.outClock)
  BY ModesAssumption DEF IpcInv, FramesTypeOK, DataOK, TasksInv
<1>1. CASE Event(OutNotify) \/ Event(OutWake)
  BY <1>1 DEF Event, OutNotify, OutWake
<1>2. CASE Event(OutStart)
  <2>1. ASSUME ~mode.notifyPrev
        PROVE  outClk' = Start(outClk)
    BY <1>0, <1>2, <2>1 DEF Event, OutStart
  <2>2. ~mode.notifyPrev => outClk'.run = "periodic"
    BY <2>1 DEF Start
  <2>3. /\ outPc' = "release"
        /\ UNCHANGED <<mode, outEvent>>
    BY <1>2 DEF Event, OutStart
  <2> QED BY <2>2, <2>3
<1>3. CASE Event(OutEvent)
  BY <1>3 DEF Event, OutEvent
<1>4. CASE Event(OutTick)
  <2>1. /\ outClk.run = "periodic" => Fired(outClk) = outClk
        /\ outClk.run # "periodic" => Fired(outClk).clkStarted = outClk.clkStarted
    BY <1>0 DEF Fired, IpcInv, FramesTypeOK, DataOK, Clk
  <2> QED BY <1>4, <2>1 DEF Event, OutTick
<1>5. CASE Event(InEvent) \/ Event(InTick) \/ Event(InWake) \/ Event(InDone)
  BY <1>5 DEF Event, InEvent, InTick, InWake, InDone
<1>6. CASE Event(NextWake) \/ GetNone \/ Falls
  BY <1>6 DEF Event, NextWake, GetNone, Falls
<1>7. CASE Event(InNotify)
  BY <1>0, <1>7 DEF Event, InNotify
<1>8. CASE FrStop \/ FrStopped
  BY <1>8 DEF FrStop, FrStopped
<1>9. CASE FrStopNotify
  BY <1>0, <1>9 DEF FrStopNotify
<1>10. CASE FrTell
  BY <1>10 DEF FrTell
<1>11. CASE Event(OutGet)
  BY <1>11 DEF Event, OutGet
<1>12. CASE Event(OutDrop)
  BY <1>12 DEF Event, OutDrop, SendNext
<1>13. CASE Event(OutPutBack) \/ FrPutBack
  BY <1>13 DEF Event, OutPutBack, FrPutBack
<1>14. CASE Event(OutUp) \/ FrForward
  BY <1>14 DEF Event, OutUp, FrForward
<1>15. ASSUME NEW q \in OutQue, FwdGet(q) \/ FwdPut(q) PROVE BackInv'
  BY <1>15 DEF FwdGet, FwdPut, vars
<1>16. CASE Sends
  BY <1>16 DEF Sends, OutSend, SendNext
<1>17. CASE Event(OutRelease) \/ FrRelease
  <2>1. /\ listElemQue \subseteq listElemQue' /\ listElemQue' \subseteq Elem
        /\ outPc = "release"
        /\ outPc' = "release" \/ (outPc' = "up" /\ listMPIn' = <<>>)
        /\ UNCHANGED <<mode, outWake, nextPc, inPc, inGot>>
    BY <1>0, <1>17, HeadTypes DEF Event, OutRelease, FrRelease
  <2> QED BY <2>1
<1>18. CASE Event(InTake) \/ FrTake
  BY <1>18 DEF Event, InTake, FrTake
<1>19. CASE FrStopTake \/ FrStopPut
  BY <1>19 DEF FrStopTake, FrStopPut
<1>20. CASE Event(PutEmpty) \/ PutHeader
  BY <1>20 DEF Event, PutEmpty, PutHeader
<1>21. CASE PutElem
  BY <1>21 DEF PutElem, FrReturned
<1>22. CASE Event(GetFull) \/ Event(StartReturn)
  BY <1>22 DEF Event, GetFull, StartReturn
<1>23. CASE Quiet
  BY <1>23, <1>1, <1>2, <1>3, <1>4, <1>5, <1>6, <1>7, <1>8, <1>9, <1>10 DEF Quiet
<1>24. CASE FrameStep
  BY <1>24, <1>11, <1>12, <1>13, <1>14, <1>15 DEF FrameStep
<1>25. CASE ElemStep
  BY <1>25, <1>6, <1>16, <1>17, <1>18, <1>19, <1>20, <1>21, <1>22 DEF ElemStep
<1> QED
  BY <1>23, <1>24, <1>25, IpcSteps
LEMMA OnKept ==
    ASSUME IpcInv, OnInv, FramesNext PROVE OnInv'
<1> DEFINE On(q) == outFrameBufQue[q] # <<>> =>
                       kind = "process" /\ (fwdNotice[q] \/ (outPc = "up" /\ q \in sendMsgToTsk))
<1> USE DEF OnInv
<1>0. /\ outFrameBufQue \in [OutQue -> Seq(Frame)] /\ fwdNotice \in [OutQue -> BOOLEAN]
      /\ kind \in Kind
  BY DEF IpcInv, FramesTypeOK
<1>1. ASSUME UNCHANGED <<kind, outFrameBufQue, fwdNotice>>,
             outPc = "up" /\ kind = "process" =>
                outPc' = "up" /\ sendMsgToTsk \subseteq sendMsgToTsk'
      PROVE  OnInv'
  BY <1>1
<1>2. CASE FrTell
  <2>1. ASSUME NEW q \in OutQue, On(q) PROVE On(q)'
    BY <1>0, <1>2, <2>1 DEF FrTell
  <2> QED BY <2>1
<1>3. CASE FrForward
  <2>1. /\ kind = "process" /\ kind' = kind /\ outPc' = "up" /\ fwdNotice' = fwdNotice
        /\ sendMsgToTsk \subseteq sendMsgToTsk'
    BY <1>3 DEF FrForward
  <2>2. PICK f \in outFree :
           LET q == QueOf(channelNum[f])
           IN  /\ outFrameBufQue' = [outFrameBufQue EXCEPT ![q] = Append(@, f)]
               /\ sendMsgToTsk' = sendMsgToTsk \cup {q}
    BY <1>3 DEF FrForward
  <2>3. ASSUME NEW q \in OutQue, On(q) PROVE On(q)'
    <3>1. CASE q = QueOf(channelNum[f])
      BY <2>1, <2>2, <3>1
    <3>2. CASE q # QueOf(channelNum[f])
      BY <1>0, <1>3, <2>1, <2>2, <2>3, <3>2 DEF FrForward
    <3> QED BY <3>1, <3>2
  <2> QED BY <2>3
<1>4. ASSUME NEW r \in OutQue, FwdGet(r) PROVE OnInv'
  <2>1. ASSUME NEW q \in OutQue, On(q) PROVE On(q)'
    BY <1>0, <1>4, <2>1 DEF FwdGet, vars, out
  <2> QED BY <2>1
<1>5. ASSUME NEW r \in OutQue, FwdPut(r) PROVE OnInv'
  BY <1>1, <1>5 DEF FwdPut, out
<1> USE DEF frames, inFrames, forward, out
<1>6. CASE Event(OutNotify) \/ Event(OutStart) \/ Event(OutWake)
  BY <1>1, <1>6 DEF Event, OutNotify, OutStart, OutWake
<1>7. CASE Event(OutEvent) \/ Event(OutTick) \/ Event(InEvent) \/ Event(InTick)
  BY <1>1, <1>7 DEF Event, OutEvent, OutTick, InEvent, InTick
<1>8. CASE Event(InWake) \/ Event(InDone) \/ Event(NextWake) \/ Event(InNotify)
  BY <1>1, <1>8 DEF Event, InWake, InDone, NextWake, InNotify
<1>9. CASE FrStop \/ FrStopped \/ FrStopNotify \/ GetNone \/ Falls
  BY <1>1, <1>9 DEF FrStop, FrStopped, FrStopNotify, GetNone, Falls
<1>10. CASE Event(OutGet) \/ Event(OutDrop) \/ Event(OutPutBack) \/ FrPutBack
  BY <1>1, <1>10 DEF Event, OutGet, OutDrop, OutPutBack, FrPutBack
<1>11. CASE kind # "process" /\ Event(OutUp)
  BY <1>1, <1>11 DEF Event, OutUp
<1>12. CASE Sends
  BY <1>1, <1>12 DEF Sends, OutSend
<1>13. CASE Event(OutRelease) \/ FrRelease
  BY <1>1, <1>13 DEF Event, OutRelease, FrRelease
<1>14. CASE Event(InTake) \/ FrTake \/ FrStopTake \/ FrStopPut
  BY <1>1, <1>14 DEF Event, InTake, FrTake, FrStopTake, FrStopPut
<1>15. CASE Event(PutEmpty) \/ PutHeader \/ PutElem \/ Event(GetFull) \/ Event(StartReturn)
  BY <1>1, <1>15 DEF Event, PutEmpty, PutHeader, PutElem, GetFull, StartReturn
<1>16. CASE Quiet
  BY <1>16, <1>2, <1>6, <1>7, <1>8, <1>9 DEF Quiet
<1>17. CASE FrameStep
  BY <1>17, <1>3, <1>4, <1>5, <1>10, <1>11 DEF FrameStep
<1>18. CASE ElemStep
  BY <1>18, <1>9, <1>12, <1>13, <1>14, <1>15 DEF ElemStep
<1> QED
  BY <1>16, <1>17, <1>18, IpcSteps

LEMMA WakeInit == FramesInit => WakeInv
<1> SUFFICES ASSUME FramesInit PROVE WakeInv
  OBVIOUS
<1>1. mode \in Mode /\ (mode.notifyNext \/ mode.inClock)
  BY ModesAssumption DEF FramesInit, Init
<1>2. ~mode.notifyNext => inClk.run = "periodic"
  BY <1>1 DEF FramesInit, Init, Start, Stopped
<1>3. ForthInv
  BY <1>2 DEF ForthInv, FramesInit, Init
<1>4. BackInv
  BY DEF BackInv, FramesInit, Init, Stopped
<1>5. OnInv
  BY DEF OnInv, FramesInit
<1> QED
  BY <1>3, <1>4, <1>5 DEF WakeInv

LEMMA WakeKept == IpcInv /\ WakeInv /\ [FramesNext]_framesVars => WakeInv'
<1> SUFFICES ASSUME IpcInv, WakeInv, [FramesNext]_framesVars PROVE WakeInv'
  OBVIOUS
<1>1. CASE UNCHANGED framesVars
  BY <1>1 DEF WakeInv, ForthInv, BackInv, OnInv, framesVars, vars, frames, inFrames, forward,
              out, outWake, in, inWake, next
<1>2. CASE FramesNext
  BY <1>2, ForthKept, BackKept, OnKept DEF WakeInv
<1> QED
  BY <1>1, <1>2

LEMMA WakeShows == IpcInv /\ WakeInv => NothingStranded
<1> SUFFICES ASSUME IpcInv, WakeInv PROVE NothingStranded
  OBVIOUS
<1>1. listMPOut # <<>> => \/ inEvent \/ inNewData \/ inClk.run # "stopped"
                          \/ inPc \in {"drain", "stop"}
                          \/ outPc \in {"send", "putBack", "notify"}
  BY DEF WakeInv, ForthInv
<1>2. listMPIn # <<>> => \/ outEvent \/ outRelease \/ outClk.run # "stopped"
                         \/ nextPc \in {"put", "elem", "notify"}
                         \/ inPc \in {"stop", "stopNotify"}
                         \/ outPc \notin {"idle", "up"}
  <2>1. CASE mode.notifyPrev
    BY <2>1 DEF WakeInv, BackInv
  <2>2. CASE ~mode.notifyPrev
    <3> SUFFICES ASSUME listMPIn # <<>>, outPc \in {"idle", "up"} PROVE outClk.run # "stopped"
      OBVIOUS
    <3>1. listMPIn \in Seq(Elem)
      BY DEF IpcInv, FramesTypeOK, DataOK
    <3>2. PICK e \in Elem : e \in Range(listMPIn)
      BY <3>1, QueueTake
    <3>3. listElemQue # Elem
      BY <3>2 DEF IpcInv, DataInv, ElemsInv, ElemAlone
    <3> QED BY <2>2, <3>3 DEF WakeInv, BackInv
  <2> QED BY <2>1, <2>2
<1>3. \A q \in OutQue : outFrameBufQue[q] # <<>> => fwdNotice[q] \/ q \in sendMsgToTsk
  BY DEF WakeInv, OnInv
<1> QED
  BY <1>1, <1>2, <1>3 DEF NothingStranded

\* Nothing waits on a list between the cores, or in a queue of the out link,
\* that no event, command, clock or running loop will find: with events or
\* clocks in either direction, and after a stop of the in link.
THEOREM AlwaysNothingStranded == FramesSpec => []NothingStranded
BY Inductive, WakeInit, WakeKept, WakeShows, PTL DEF FramesSpec
-----------------------------------------------------------------------------
(* Every pair implements FrameBroadcast with one output.                    *)

\* The frames on their way to the next link, and those that are behind.
Line == Mapped(pFrame, Under)
InHands == {pFrame[e] : e \in Used}

\* A frame is at home when no element stands for it.
LEMMA HomeIs ==
    ASSUME IpcInv
    PROVE  AtHome = {f \in Frame : ~InElem(f)}
<1>1. \A f : f \in AtHome <=> \/ f \in source \/ f \in Range(list) \/ f \in outFree
                              \/ InQueue(f) \/ InNext(f)
  BY DEF AtHome, InQueue, InNext
<1>2. AtHome \subseteq Frame
  <2>1. /\ source \subseteq Frame /\ list \in Seq(Frame) /\ outFree \subseteq Frame
        /\ outFrameBufQue \in [OutQue -> Seq(Frame)] /\ fwdHeld \in [OutQue -> SUBSET Frame]
    BY DEF IpcInv, FramesTypeOK, DataOK
  <2>2. Range(list) \subseteq Frame /\ \A q \in OutQue : Range(outFrameBufQue[q]) \subseteq Frame
    BY <2>1 DEF Range
  <2> QED BY <2>1, <2>2 DEF AtHome
<1>3. ASSUME NEW f \in Frame PROVE f \in AtHome <=> ~InElem(f)
  BY <1>1 DEF IpcInv, DataInv, FramesInv, FrameAlone
<1> QED
  BY <1>2, <1>3

LEMMA HomeNext == IpcInv' => (AtHome = {f \in Frame : ~InElem(f)})'
<1>1. IpcInv => AtHome = {f \in Frame : ~InElem(f)}
  BY HomeIs
<1> QED
  BY <1>1, PTL

\* No two elements stand for the same frame.
LEMMA OneElem ==
    ASSUME IpcInv, NEW d \in Elem \ listElemQue, NEW e \in Elem \ listElemQue,
           pFrame[d] = pFrame[e]
    PROVE  d = e
<1>1. pFrame[d] \in Frame
  BY DEF IpcInv, DataInv, StandsInv
<1> QED
  BY <1>1 DEF IpcInv, DataInv, FramesInv, FrameAlone

LEMMA UnderIs ==
    ASSUME IpcInv
    PROVE  /\ Taken \in Seq(Elem) /\ Under \in Seq(Elem) /\ listMPOut \in Seq(Elem)
           /\ Range(Under) = Range(Taken) \cup Range(listMPOut)
           /\ state = "active" => Taken = Mapped(orgElem, outFrameQue)
           /\ state # "active" => Taken = <<>> /\ Under = listMPOut
           /\ \A e \in Range(Taken) : \E h \in Users : h \in Range(outFrameQue) /\ orgElem[h] = e
           /\ \A e \in Range(Under) : /\ e \in Elem \ listElemQue /\ e \notin Range(listMPIn)
                                      /\ e # stopElem /\ e # pListElem
<1>1. listMPOut \in Seq(Elem) /\ outFrameQue \in Seq(Handle)
  BY DEF IpcInv, FramesTypeOK, DataOK
<1>2. \A h \in Range(outFrameQue) : h \in Users /\ orgElem[h] \in Elem
  BY DEF Users, Behind, IpcInv, DataInv, HandlesInv
<1>3. /\ Mapped(orgElem, outFrameQue) \in Seq(Elem)
      /\ Range(Mapped(orgElem, outFrameQue)) = {orgElem[h] : h \in Range(outFrameQue)}
  BY <1>1, <1>2, MappedSeq
<1>4. state = "active" => Taken = Mapped(orgElem, outFrameQue)
  BY DEF Taken, Mapped
<1>5. state # "active" => Taken = <<>>
  BY DEF Taken
<1>6. Taken \in Seq(Elem)
  <2>1. <<>> \in Seq(Elem)
    OBVIOUS
  <2> QED BY <1>3, <1>4, <1>5, <2>1
<1>7. Under \in Seq(Elem) /\ Range(Under) = Range(Taken) \cup Range(listMPOut)
  BY <1>1, <1>6, QueueConcat DEF Under
<1>8. \A e \in Range(Taken) : \E h \in Users : h \in Range(outFrameQue) /\ orgElem[h] = e
  <2>1. CASE state = "active"
    BY <1>2, <1>3, <1>4, <2>1
  <2>2. CASE state # "active"
    BY <1>5, <2>2, EmptyQueue
  <2> QED BY <2>1, <2>2
<1>9. ASSUME NEW e \in Range(Under)
      PROVE  /\ e \in Elem \ listElemQue /\ e \notin Range(listMPIn)
             /\ e # stopElem /\ e # pListElem
  <2>1. e \in Elem
    BY <1>7 DEF Range
  <2>2. HasUser(e) \/ e \in Range(listMPOut)
    BY <1>7, <1>8 DEF HasUser
  <2> QED BY <2>1, <2>2 DEF IpcInv, DataInv, ElemsInv, ElemAlone
<1>10. state # "active" => Under = listMPOut
  BY <1>1, <1>5 DEF Under
<1> QED
  BY <1>1, <1>4, <1>5, <1>6, <1>7, <1>8, <1>9, <1>10

LEMMA UnderNext == IpcInv' => (Under \in Seq(Elem))'
<1>1. IpcInv => Under \in Seq(Elem)
  BY UnderIs
<1> QED
  BY <1>1, PTL

LEMMA LineIs ==
    ASSUME IpcInv
    PROVE  /\ Line \in Seq(Frame) /\ Range(Line) = {pFrame[e] : e \in Range(Under)}
           /\ InHands \subseteq Frame
<1>1. \A e \in Range(Under) : pFrame[e] \in Frame
  BY UnderIs DEF IpcInv, DataInv, StandsInv
<1>2. Under \in Seq(Elem)
  BY UnderIs
<1>3. Line \in Seq(Frame) /\ Range(Line) = {pFrame[e] : e \in Range(Under)}
  BY <1>1, <1>2, MappedSeq DEF Line
<1>4. InHands \subseteq Frame
  BY DEF InHands, Used, IpcInv, DataInv, StandsInv
<1> QED
  BY <1>3, <1>4

\* What the steps do to the three.
Hides == AtHome' = AtHome /\ Line' = Line /\ InHands' = InHands
Gives == \E f \in AtHome : /\ AtHome' = AtHome \ {f}
                           /\ Line' = Append(Line, f) /\ InHands' = InHands
Takes == \E n \in 1 .. Len(Line) : /\ AtHome' = AtHome
                                   /\ Line' = SubSeq(Line, n + 1, Len(Line))
                                   /\ InHands' = InHands \cup {Line[i] : i \in 1 .. n}
Returns == \E f \in Frame : /\ f \in InHands /\ InHands' = InHands \ {f}
                            /\ AtHome' = AtHome /\ Line' = Line
Reclaims == \E f \in Frame : /\ f \notin AtHome /\ f \notin InHands /\ f \notin Range(Line)
                             /\ AtHome' = AtHome \cup {f}
                             /\ Line' = Line /\ InHands' = InHands

LEMMA HomeSame ==
    ASSUME IpcInv, IpcInv', UNCHANGED <<pFrame, listElemQue>>
    PROVE  AtHome' = AtHome
<1>1. AtHome = {f \in Frame : ~InElem(f)}
  BY HomeIs
<1>2. AtHome' = {f \in Frame : ~InElem(f)}'
  BY HomeNext
<1> QED
  BY <1>1, <1>2 DEF InElem

LEMMA Hidden ==
    ASSUME IpcInv, IpcInv', UNCHANGED <<pFrame, listElemQue, listMPIn>>, Under' = Under
    PROVE  Hides
BY HomeSame DEF Hides, Line, InHands, Used, Mapped

LEMMA UnderSame ==
    ASSUME UNCHANGED <<state, outFrameQue, listMPOut>>,
           \A h \in Range(outFrameQue) : orgElem'[h] = orgElem[h]
    PROVE  Under' = Under
<1>1. Mapped(orgElem', outFrameQue) = Mapped(orgElem, outFrameQue)
  BY MappedSame
<1>2. Taken' = Taken
  BY <1>1 DEF Taken, Mapped
<1> QED
  BY <1>2 DEF Under

\* The elements at the front of the line pass to those behind.
LEMMA TakesSome ==
    ASSUME IpcInv, IpcInv', UNCHANGED <<pFrame, listElemQue, listMPIn>>,
           NEW p \in Seq(Elem), Under = p \o Under', Range(p) \cap Range(Under') = {}
    PROVE  Hides \/ Takes
<1>1. PICK t \in Seq(Elem) : t = Under'
  BY UnderNext
<1>2. Under = p \o t /\ Range(Under) = Range(p) \cup Range(t) /\ Range(p) \cap Range(t) = {}
  BY <1>1, QueueConcat
<1>3. CASE p = <<>>
  <2>1. Under' = Under
    BY <1>1, <1>2, <1>3
  <2> QED BY <2>1, Hidden
<1>4. CASE p # <<>>
  <2>1. \A e \in Range(Under) : pFrame[e] \in Frame
    BY UnderIs DEF IpcInv, DataInv, StandsInv
  <2>2. PICK a \in Seq(Frame) : a = Mapped(pFrame, p) /\ Len(a) = Len(p)
                                /\ Range(a) = {pFrame[e] : e \in Range(p)}
    <3>1. p \in Seq(Elem) /\ \A c \in Range(p) : pFrame[c] \in Frame
      BY <1>2, <2>1
    <3>2. /\ Mapped(pFrame, p) \in Seq(Frame) /\ Len(Mapped(pFrame, p)) = Len(p)
          /\ Range(Mapped(pFrame, p)) = {pFrame[e] : e \in Range(p)}
      BY ONLY <3>1, MappedSeq
    <3> QED BY <3>2
  <2>3. PICK b \in Seq(Frame) : b = Mapped(pFrame, t)
    BY <1>1, <1>2, <2>1, MappedSeq
  <2>4. Line = a \o b
    <3>1. Mapped(pFrame, p \o t) = Mapped(pFrame, p) \o Mapped(pFrame, t)
      BY <1>1, MappedConcat
    <3> QED BY <1>2, <2>2, <2>3, <3>1 DEF Line
  <2>5. Line' = b
    BY <1>1, <2>3 DEF Line
  <2>6. /\ SubSeq(Line, Len(a) + 1, Len(Line)) = b
        /\ {Line[i] : i \in 1 .. Len(a)} = Range(a)
    BY <2>4, TakeFirst
  <2>7. Used' = Used \cup Range(p)
    <3>1. Range(p) \subseteq Elem /\ \A e \in Range(p) : e \notin listElemQue /\ e \notin Range(listMPIn)
      BY <1>2, UnderIs
    <3>2. Used = Elem \ (listElemQue \cup Range(p) \cup Range(t) \cup Range(listMPIn))
      BY <1>2 DEF Used
    <3>3. Used' = Elem \ (listElemQue \cup Range(t) \cup Range(listMPIn))
      BY <1>1 DEF Used
    <3> QED BY <1>2, <3>1, <3>2, <3>3
  <2>8. InHands' = InHands \cup Range(a)
    BY <2>2, <2>7 DEF InHands
  <2>9. Len(a) \in 1 .. Len(Line)
    <3>1. Len(Line) = Len(a) + Len(b) /\ Len(a) \in Nat /\ Len(b) \in Nat
      BY <2>4, ConcatProperties, LenProperties
    <3>2. Len(a) # 0
      BY <1>4, <2>2, EmptySeq
    <3> QED BY <3>1, <3>2
  <2> QED BY <2>5, <2>6, <2>8, <2>9, HomeSame DEF Takes
<1> QED
  BY <1>3, <1>4

\* An element behind is put on listMPIn.
LEMMA ReturnsElem ==
    ASSUME IpcInv, IpcInv', UNCHANGED <<pFrame, listElemQue>>, Under' = Under,
           NEW e \in Used, listMPIn' = Append(listMPIn, e)
    PROVE  Returns
<1>1. e \in Elem \ listElemQue /\ listMPIn \in Seq(Elem)
  BY DEF Used, IpcInv, FramesTypeOK, DataOK
<1>2. Range(listMPIn') = Range(listMPIn) \cup {e}
  BY <1>1, QueueAppend
<1>3. Used' = Used \ {e}
  BY <1>2 DEF Used
<1>4. PICK f \in Frame : f = pFrame[e]
  BY <1>1 DEF IpcInv, DataInv, StandsInv
<1>5. \A d \in Used : pFrame[d] = f => d = e
  BY <1>1, <1>4, OneElem DEF Used
<1>6. f \in InHands /\ InHands' = InHands \ {f}
  BY <1>3, <1>4, <1>5 DEF InHands
<1>7. Line' = Line
  BY DEF Line, Mapped
<1> QED
  BY <1>6, <1>7, HomeSame DEF Returns
LEMMA SendGives ==
    ASSUME IpcInv, IpcInv', Sends
    PROVE  Gives
<1>1. PICK e \in listElemQue : /\ listElemQue' = listElemQue \ {e}
                               /\ pFrame' = [pFrame EXCEPT ![e] = Head(list)]
                               /\ listMPOut' = Append(listMPOut, e)
  BY DEF Sends, OutSend
<1>2. /\ list \in Seq(Frame) /\ list # <<>> /\ e \in Elem
      /\ pFrame \in [Elem -> Frame \cup {NoFrame}]
  BY DEF Sends, OutSend, IpcInv, FramesTypeOK, DataOK, TasksInv
<1>3. PICK f \in Frame : f = Head(list) /\ f \in Range(list)
  BY <1>2, QueueTake
<1>4. pFrame'[e] = f /\ \A d \in Elem \ {e} : pFrame'[d] = pFrame[d]
  BY <1>1, <1>2, <1>3
<1>5. /\ Taken \in Seq(Elem) /\ listMPOut \in Seq(Elem) /\ Under \in Seq(Elem)
      /\ e \notin Range(Under) /\ \A d \in Range(Under) : d \in Elem
  BY <1>1, UnderIs
<1>6. UNCHANGED <<listMPIn, state, orgElem, outFrameQue>>
  BY DEF Sends, OutSend, inFrames, in
<1>7. Under' = Append(Under, e)
  <2>1. Taken' = Taken
    BY <1>6 DEF Taken
  <2>2. PICK o \in Seq(Elem) : o = <<e>>
    <3>1. <<e>> \in Seq(Elem)
      BY <1>2
    <3> QED BY <3>1, Zenon
  <2>3. Append(listMPOut, e) = listMPOut \o o /\ Append(Under, e) = Under \o o
    BY <1>2, <1>5, <2>2, AppendIsConcat
  <2>4. (Taken \o listMPOut) \o o = Taken \o (listMPOut \o o)
    BY <1>5, ConcatAssociative
  <2> QED BY <1>1, <2>1, <2>3, <2>4 DEF Under
<1>8. Line' = Append(Line, f)
  <2>1. Mapped(pFrame', Under) = Mapped(pFrame, Under)
    <3>1. \A d \in Range(Under) : pFrame'[d] = pFrame[d]
      BY <1>4, <1>5
    <3> QED BY <3>1, MappedSame
  <2>2. Mapped(pFrame', Append(Under, e)) = Append(Mapped(pFrame', Under), pFrame'[e])
    BY <1>2, <1>5, MappedAppend
  <2>3. Line' = Mapped(pFrame', Append(Under, e))
    BY <1>7 DEF Line
  <2> QED BY <1>4, <2>1, <2>2, <2>3 DEF Line
<1>9. Range(Under') = Range(Under) \cup {e}
  BY <1>2, <1>5, <1>7, QueueAppend
<1>10. Used' = Used
  BY <1>1, <1>2, <1>6, <1>9 DEF Used
<1>11. InHands' = InHands
  <2>1. \A d \in Used : d \in Elem \ {e}
    BY <1>1 DEF Used
  <2> QED BY <1>4, <1>10, <2>1 DEF InHands
<1>12. f \in AtHome /\ AtHome' = AtHome \ {f}
  <2>1. f \in AtHome
    BY <1>3 DEF AtHome
  <2>2. \A g : InElem(g)' <=> InElem(g) \/ g = f
    BY <1>1, <1>2, <1>4 DEF InElem
  <2> QED BY <2>1, <2>2, HomeIs, HomeNext
<1> QED
  BY <1>8, <1>11, <1>12 DEF Gives

LEMMA ReleaseReclaims ==
    ASSUME IpcInv, IpcInv', listMPIn # <<>>,
           listElemQue' = listElemQue \cup {Head(listMPIn)},
           listMPIn' = Tail(listMPIn),
           pFrame' = IF kind = "m3" THEN pFrame
                     ELSE [pFrame EXCEPT ![Head(listMPIn)] = NoFrame],
           UNCHANGED <<listMPOut, orgElem, outFrameQue, state>>
    PROVE  Reclaims
<1>1. listMPIn \in Seq(Elem) /\ IsInjective(listMPIn) /\ pFrame \in [Elem -> Frame \cup {NoFrame}]
  BY DEF IpcInv, FramesTypeOK, DataOK, DataInv, ElemsInv
<1>2. PICK e \in Elem : e = Head(listMPIn) /\ e \in Range(listMPIn)
  BY <1>1, QueueTake
<1>3. Range(listMPIn') = Range(listMPIn) \ {e}
  BY <1>1, <1>2, QueueTake
<1>4. e \notin listElemQue /\ e \notin Range(Under) /\ e \notin Used
  <2>1. e \notin listElemQue
    BY <1>2 DEF IpcInv, DataInv, ElemsInv, ElemAlone
  <2>2. e \notin Range(Under)
    BY <1>2, UnderIs
  <2> QED BY <1>2, <2>1, <2>2 DEF Used
<1>5. PICK f \in Frame : f = pFrame[e]
  BY <1>4 DEF IpcInv, DataInv, StandsInv
<1>6. \A d \in Elem \ {e} : pFrame'[d] = pFrame[d]
  BY <1>1, <1>2
<1>7. \A d \in Elem \ listElemQue : pFrame[d] = f => d = e
  BY <1>4, <1>5, OneElem
<1>8. Under' = Under
  BY UnderSame
<1>9. Line' = Line
  <2>1. \A d \in Range(Under) : pFrame'[d] = pFrame[d]
    BY <1>4, <1>6, UnderIs
  <2> QED BY <1>8, <2>1, MappedSame DEF Line
<1>10. Used' = Used
  BY <1>2, <1>3, <1>8 DEF Used
<1>11. InHands' = InHands
  <2>1. \A d \in Used : d \in Elem \ {e}
    BY <1>4 DEF Used
  <2> QED BY <1>6, <1>10, <2>1 DEF InHands
<1>12. f \notin AtHome /\ AtHome' = AtHome \cup {f}
  <2>1. InElem(f)
    BY <1>4, <1>5 DEF InElem
  <2>2. \A g : InElem(g)' <=> InElem(g) /\ g # f
    BY <1>2, <1>4, <1>5, <1>6, <1>7 DEF InElem
  <2> QED BY <2>1, <2>2, HomeIs, HomeNext
<1>13. f \notin InHands
  BY <1>4, <1>7 DEF InHands, Used
<1>14. f \notin Range(Line)
  BY <1>4, <1>7, UnderIs, LineIs
<1> QED
  BY <1>9, <1>11, <1>12, <1>13, <1>14 DEF Reclaims

\* What the in link takes stays on the line while it is active ...
LEMMA TakeHides ==
    ASSUME IpcInv, IpcInv', state = "active", listMPOut # <<>>, NEW h \in Handle,
           orgElem' = [orgElem EXCEPT ![h] = Head(listMPOut)],
           outFrameQue' = Append(outFrameQue, h), listMPOut' = Tail(listMPOut),
           UNCHANGED <<state, pFrame, listElemQue, listMPIn>>
    PROVE  Hides
<1>1. /\ outFrameQue \in Seq(Handle) /\ orgElem \in [Handle -> Elem \cup {NoElem}]
      /\ IsInjective(outFrameQue')
  BY DEF IpcInv, FramesTypeOK, DataOK, DataInv, HandlesInv
<1>2. h \notin Range(outFrameQue)
  <2> SUFFICES ASSUME h \in Range(outFrameQue) PROVE FALSE
    OBVIOUS
  <2>1. /\ outFrameQue' \in Seq(Handle) /\ Len(outFrameQue') = Len(outFrameQue) + 1
        /\ \A i \in 1 .. Len(outFrameQue) : outFrameQue'[i] = outFrameQue[i]
        /\ outFrameQue'[Len(outFrameQue) + 1] = h
    BY <1>1, AppendProperties
  <2>2. PICK i \in 1 .. Len(outFrameQue) : outFrameQue[i] = h
    BY <1>1 DEF Range
  <2>3. Len(outFrameQue) \in Nat /\ DOMAIN outFrameQue' = 1 .. Len(outFrameQue) + 1
    BY <1>1, <2>1, LenProperties
  <2>4. i \in DOMAIN outFrameQue' /\ Len(outFrameQue) + 1 \in DOMAIN outFrameQue'
        /\ i # Len(outFrameQue) + 1
    BY <2>2, <2>3
  <2> QED BY <1>1, <2>1, <2>2, <2>4 DEF IsInjective
<1>3. PICK e \in Elem : e = Head(listMPOut)
  BY HeadTypes
<1>4. orgElem'[h] = e /\ \A g \in Range(outFrameQue) : orgElem'[g] = orgElem[g]
  BY <1>1, <1>2, <1>3 DEF Range
<1>5. Taken \in Seq(Elem) /\ listMPOut \in Seq(Elem) /\ Taken = Mapped(orgElem, outFrameQue)
  BY UnderIs
<1>6. Taken' = Append(Taken, e)
  <2>1. Taken' = Mapped(orgElem', outFrameQue')
    BY DEF Taken, Mapped
  <2>2. Mapped(orgElem', Append(outFrameQue, h)) = Append(Mapped(orgElem', outFrameQue), orgElem'[h])
    BY <1>1, MappedAppend
  <2>3. Mapped(orgElem', outFrameQue) = Mapped(orgElem, outFrameQue)
    BY <1>4, MappedSame
  <2> QED BY <1>4, <1>5, <2>1, <2>2, <2>3
<1>7. Append(Taken, e) \o Tail(listMPOut) = Taken \o listMPOut
  BY <1>3, <1>5, PassOn
<1>8. Under' = Under
  BY <1>6, <1>7 DEF Under
<1> QED
  BY <1>8, Hidden

\* ... and leaves it when it is not: nobody gets those frames any more.
LEMMA StoppedTakes ==
    ASSUME IpcInv, IpcInv', state # "active", listMPOut # <<>>, listMPOut' = Tail(listMPOut),
           UNCHANGED <<state, pFrame, listElemQue, listMPIn>>
    PROVE  Hides \/ Takes
<1>1. listMPOut \in Seq(Elem) /\ Under = listMPOut /\ IsInjective(listMPOut)
  BY UnderIs DEF IpcInv, DataInv, ElemsInv
<1>2. PICK e \in Elem : e = Head(listMPOut) /\ e \in Range(listMPOut)
  BY <1>1, QueueTake
<1>3. PICK t \in Seq(Elem) : t = Tail(listMPOut) /\ Range(t) = Range(listMPOut) \ {e}
  BY <1>1, <1>2, QueueTake
<1>4. Under' = t
  <2>1. Taken' = <<>>
    BY DEF Taken
  <2> QED BY <1>3, <2>1, ConcatEmptySeq DEF Under
<1>5. PICK n \in Seq(Elem) : n = <<>> /\ Range(n) = {}
  <2>1. <<>> \in Seq(Elem) /\ Range(<<>>) = {}
    BY EmptyQueue
  <2> QED BY <2>1, Zenon
<1>6. PICK p \in Seq(Elem) : p = Append(n, e) /\ Range(p) = {e}
  <2>1. Append(n, e) \in Seq(Elem) /\ Range(Append(n, e)) = Range(n) \cup {e}
    BY <1>2, <1>5, QueueAppend
  <2> QED BY <1>5, <2>1
<1>7. Under = p \o t
  <2>1. Append(n, Head(listMPOut)) \o Tail(listMPOut) = n \o listMPOut
    BY <1>1, PassOn
  <2> QED BY <1>1, <1>2, <1>3, <1>5, <1>6, <2>1, ConcatEmptySeq
<1> QED
  BY <1>3, <1>4, <1>6, <1>7, TakesSome

\* The next link takes the whole full queue, or the in link stops.
LEMMA FullTakes ==
    ASSUME IpcInv, IpcInv', UNCHANGED <<listMPOut, pFrame, listElemQue, listMPIn>>,
           outFrameQue' = <<>> \/ state' # "active"
    PROVE  Hides \/ Takes
<1>1. Taken \in Seq(Elem) /\ listMPOut \in Seq(Elem)
  BY UnderIs
<1>2. Taken' = <<>>
  BY DEF Taken
<1>3. Under' = listMPOut
  BY <1>1, <1>2, ConcatEmptySeq DEF Under
<1>4. Under = Taken \o Under'
  BY <1>3 DEF Under
<1>5. Range(Taken) \cap Range(Under') = {}
  <2>1. ASSUME NEW e \in Range(Taken) PROVE e \notin Range(listMPOut)
    <3>1. HasUser(e)
      BY <2>1, UnderIs DEF HasUser
    <3>2. e \in Elem
      BY <1>1 DEF Range
    <3> QED BY <3>1, <3>2 DEF IpcInv, DataInv, ElemsInv, ElemAlone
  <2> QED BY <1>3, <2>1
<1> QED
  BY <1>1, <1>4, <1>5, TakesSome
LEMMA StillHides ==
    ASSUME IpcInv, IpcInv',
           UNCHANGED <<pFrame, listElemQue, listMPIn, listMPOut, state, outFrameQue>>,
           \A h \in Range(outFrameQue) : orgElem'[h] = orgElem[h]
    PROVE  Hides
<1>1. Under' = Under
  BY UnderSame
<1> QED
  BY <1>1, Hidden

LEMMA QuietShows ==
    ASSUME IpcInv, IpcInv', Quiet
    PROVE  Hides \/ Takes
<1> USE DEF frames, inFrames, forward, out, in, next
<1>1. CASE Event(OutNotify) \/ Event(OutStart) \/ Event(OutWake)
  BY <1>1, StillHides DEF Event, OutNotify, OutStart, OutWake
<1>2. CASE Event(OutEvent) \/ Event(OutTick) \/ Event(InEvent) \/ Event(InTick)
  BY <1>2, StillHides DEF Event, OutEvent, OutTick, InEvent, InTick
<1>3. CASE Event(InWake) \/ Event(InDone) \/ Event(NextWake) \/ Event(InNotify)
  BY <1>3, StillHides DEF Event, InWake, InDone, NextWake, InNotify
<1>4. CASE FrStop
  BY <1>4, FullTakes DEF FrStop
<1>5. CASE FrStopped \/ FrStopNotify
  BY <1>5, StillHides DEF FrStopped, FrStopNotify
<1>6. CASE GetNone \/ FrTell
  BY <1>6, StillHides DEF GetNone, FrTell
<1> QED
  BY <1>1, <1>2, <1>3, <1>4, <1>5, <1>6 DEF Quiet

LEMMA FrameShows ==
    ASSUME IpcInv, IpcInv', FrameStep
    PROVE  Hides
<1> USE DEF frames, inFrames, forward, out, in, next
<1>1. CASE Event(OutGet) \/ Event(OutDrop)
  BY <1>1, StillHides DEF Event, OutGet, OutDrop
<1>2. CASE Event(OutPutBack) \/ FrPutBack \/ Event(OutUp)
  BY <1>2, StillHides DEF Event, OutPutBack, FrPutBack, OutUp
<1>3. CASE FrForward
  BY <1>3, StillHides DEF FrForward
<1>4. ASSUME NEW q \in OutQue, FwdGet(q) \/ FwdPut(q) PROVE Hides
  BY <1>4, StillHides DEF FwdGet, FwdPut, vars
<1> QED
  BY <1>1, <1>2, <1>3, <1>4 DEF FrameStep

\* What is in the hands of a task of the in link is behind.
LEMMA PassedIsUsed ==
    ASSUME IpcInv
    PROVE  /\ stopElem # NoElem => stopElem \in Used
           /\ pListElem # NoElem => pListElem \in Used
           /\ nextPc = "put" => orgElem[Head(ret)] \in Used
<1>1. ASSUME NEW e \in Elem, e = stopElem \/ e = pListElem PROVE e \in Used
  <2>1. e \notin listElemQue /\ e \notin Range(listMPIn)
    BY <1>1 DEF IpcInv, DataInv, ElemsInv, ElemAlone
  <2>2. e \notin Range(Under)
    BY <1>1, UnderIs
  <2> QED BY <2>1, <2>2 DEF Used
<1>2. ASSUME nextPc = "put" PROVE orgElem[Head(ret)] \in Used
  <2>1. PICK h \in Users : h = Head(ret) /\ h \in Range(ret)
    BY <1>2, FirstReturned, QueueTake
  <2>2. PICK e \in Elem : e = orgElem[h]
    BY <1>2, <2>1, FirstReturned
  <2>3. HasUser(e) /\ ElemAlone(e)
    BY <2>1, <2>2 DEF HasUser, IpcInv, DataInv, ElemsInv
  <2>4. h \notin Range(outFrameQue)
    BY <2>1 DEF IpcInv, DataInv, HandlesInv
  <2>5. e \notin Range(Taken)
    BY <2>1, <2>2, <2>3, <2>4, UnderIs DEF ElemAlone
  <2>6. e \notin Range(Under)
    BY <2>3, <2>5, UnderIs DEF ElemAlone
  <2> QED BY <2>1, <2>2, <2>3, <2>6 DEF Used, ElemAlone
<1>3. stopElem \in Elem \cup {NoElem} /\ pListElem \in Elem \cup {NoElem}
  BY DEF IpcInv, FramesTypeOK
<1> QED
  BY <1>1, <1>2, <1>3

LEMMA ElemShows ==
    ASSUME IpcInv, IpcInv', ElemStep
    PROVE  Hides \/ Gives \/ Takes \/ Returns \/ Reclaims
<1> USE DEF frames, inFrames, forward, out, in, next
<1>1. CASE Sends
  BY <1>1, SendGives
<1>2. CASE kind = "m3" /\ Event(OutRelease)
  <2>1. CASE listMPIn = <<>>
    BY <1>2, <2>1, StillHides DEF Event, OutRelease
  <2>2. CASE listMPIn # <<>>
    BY <1>2, <2>2, ReleaseReclaims DEF Event, OutRelease
  <2> QED BY <2>1, <2>2
<1>3. CASE kind # "m3" /\ FrRelease
  <2>1. CASE listMPIn = <<>>
    BY <1>3, <2>1, StillHides DEF FrRelease
  <2>2. CASE listMPIn # <<>>
    BY <1>3, <2>2, ReleaseReclaims DEF FrRelease
  <2> QED BY <2>1, <2>2
<1>4. CASE kind = "m3" /\ Event(InTake)
  <2>1. pFrame[Head(listMPOut)] \in Handle /\ state = "active"
    BY <1>4, HeadTypes, HandleAssumption DEF Event, InTake, IpcInv, DataInv, HandlesInv
  <2> QED BY <1>4, <2>1, TakeHides DEF Event, InTake
<1>5. CASE kind # "m3" /\ FrTake
  <2>1. PICK h \in freeFrameQue : /\ orgElem' = [orgElem EXCEPT ![h] = Head(listMPOut)]
                                  /\ outFrameQue' = Append(outFrameQue, h)
    BY <1>5 DEF FrTake
  <2>2. h \in Handle
    BY HeaderAssumption DEF IpcInv, FramesTypeOK
  <2>3. /\ listMPOut # <<>> /\ listMPOut' = Tail(listMPOut)
        /\ UNCHANGED <<state, pFrame, listElemQue, listMPIn>>
    BY <1>5 DEF FrTake
  <2>4. CASE state = "active"
    BY <2>1, <2>2, <2>3, <2>4, TakeHides
  <2>5. CASE state # "active"
    BY <2>3, <2>5, StoppedTakes
  <2> QED BY <2>4, <2>5
<1>6. CASE kind # "m3" /\ FrStopTake
  <2>1. state # "active"
    BY <1>6 DEF FrStopTake, IpcInv, TasksInv
  <2> QED BY <1>6, <2>1, StoppedTakes DEF FrStopTake
<1>7. CASE kind # "m3" /\ FrStopPut
  <2>1. stopElem \in Used
    BY <1>7, PassedIsUsed DEF FrStopPut
  <2>2. Under' = Under
    BY <1>7, UnderSame DEF FrStopPut
  <2> QED BY <1>7, <2>1, <2>2, ReturnsElem DEF FrStopPut
<1>8. CASE kind = "m3" /\ Event(PutEmpty)
  <2>1. orgElem[Head(ret)] \in Used
    BY <1>8, PassedIsUsed DEF Event, PutEmpty
  <2>2. Under' = Under
    BY <1>8, UnderSame DEF Event, PutEmpty
  <2> QED BY <1>8, <2>1, <2>2, ReturnsElem DEF Event, PutEmpty
<1>9. CASE kind # "m3" /\ PutElem
  <2>1. pListElem \in Used
    BY <1>9, PassedIsUsed DEF PutElem, IpcInv, TasksInv
  <2>2. Under' = Under
    BY <1>9, UnderSame DEF PutElem
  <2> QED BY <1>9, <2>1, <2>2, ReturnsElem DEF PutElem
<1>10. CASE kind # "m3" /\ PutHeader
  <2>1. PICK h \in Handle : h = Head(ret) /\ h \in Range(ret)
    BY <1>10, FirstReturned, QueueTake DEF PutHeader
  <2>2. h \notin Range(outFrameQue)
    BY <2>1 DEF IpcInv, DataInv, HandlesInv
  <2>3. outFrameQue \in Seq(Handle) /\ orgElem \in [Handle -> Elem \cup {NoElem}]
    BY DEF IpcInv, FramesTypeOK, DataOK
  <2>4. \A g \in Range(outFrameQue) : orgElem'[g] = orgElem[g]
    BY <1>10, <2>1, <2>2, <2>3 DEF PutHeader, Range
  <2> QED BY <1>10, <2>4, StillHides DEF PutHeader
<1>11. CASE Event(GetFull)
  BY <1>11, FullTakes DEF Event, GetFull
<1>12. CASE Event(StartReturn) \/ Falls
  BY <1>12, StillHides DEF Event, StartReturn, Falls
<1> QED
  BY <1>1, <1>2, <1>3, <1>4, <1>5, <1>6, <1>7, <1>8, <1>9, <1>10, <1>11, <1>12 DEF ElemStep

LEMMA IpcShows ==
    ASSUME IpcInv, IpcInv', [FramesNext]_framesVars
    PROVE  Hides \/ Gives \/ Takes \/ Returns \/ Reclaims
<1>1. CASE UNCHANGED framesVars
  BY <1>1, StillHides DEF framesVars, vars, frames, inFrames, out, in
<1>2. CASE FramesNext
  BY <1>2, IpcSteps, QuietShows, FrameShows, ElemShows
<1> QED
  BY <1>1, <1>2

\* Each kind of pair, in each of its modes, carries frames as FrameBroadcast
\* does with one output: what the out link sends reaches the next link of the
\* other core once and in order, and no frame is back in the hands of the
\* previous link, or of a next link of the out link, while the other core uses
\* it.  The stop of the in link is one of the steps.
THEOREM Implements == FramesSpec => CarriesFrames
<1> DEFINE queue == [q \in {"in"} |-> [i \in DOMAIN Under |-> pFrame[Under[i]]]]
           used == [q \in {"in"} |-> {pFrame[e] : e \in Used}]
<1>1. FramesInit => Carried!Init
  <2> SUFFICES ASSUME FramesInit PROVE Carried!Init
    OBVIOUS
  <2>1. IpcInv
    BY IpcInit
  <2>2. \A f \in Frame : ~InElem(f)
    BY DEF InElem, FramesInit, Init
  <2>3. AtHome = Frame
    BY <2>1, <2>2, HomeIs
  <2>4. Under = <<>>
    <3>1. Taken = <<>>
      BY DEF Taken, FramesInit, Init
    <3> QED BY <3>1, ConcatEmptySeq DEF Under, FramesInit, Init
  <2>5. [i \in DOMAIN Under |-> pFrame[Under[i]]] = <<>>
    BY <2>4
  <2>6. {pFrame[e] : e \in Used} = {}
    BY DEF Used, FramesInit, Init
  <2> QED BY <2>3, <2>5, <2>6 DEF Carried!Init
<1>2. queue = [q \in {"in"} |-> Line] /\ used = [q \in {"in"} |-> InHands]
  BY DEF Line, Mapped, InHands
<1>3. (queue = [q \in {"in"} |-> Line] /\ used = [q \in {"in"} |-> InHands])'
  BY <1>2, PTL
<1>4. IpcInv /\ IpcInv' /\ [FramesNext]_framesVars => [Carried!Next]_<<AtHome, queue, used>>
  <2> SUFFICES ASSUME IpcInv, IpcInv', [FramesNext]_framesVars
               PROVE  Carried!Next \/ (AtHome' = AtHome /\ queue' = queue /\ used' = used)
    OBVIOUS
  <2>1. /\ queue = [q \in {"in"} |-> Line] /\ used = [q \in {"in"} |-> InHands]
        /\ queue' = [q \in {"in"} |-> Line'] /\ used' = [q \in {"in"} |-> InHands']
    BY <1>2, <1>3
  <2>2. /\ queue["in"] = Line /\ used["in"] = InHands
    BY <2>1
  <2> HIDE DEF queue, used
  <2>3. CASE Hides
    BY <2>1, <2>3 DEF Hides
  <2>4. CASE Gives
    <3>1. PICK f \in AtHome : /\ AtHome' = AtHome \ {f}
                              /\ Line' = Append(Line, f) /\ InHands' = InHands
      BY <2>4 DEF Gives
    <3>2. PICK s : s = <<f>>
      OBVIOUS
    <3>3. s \in Carried!Lists(AtHome) /\ Carried!Range(s) = {f}
      <4>1. IsFiniteSet(AtHome) /\ AtHome # {}
        BY <3>1, HomeIs, HandleAssumption, FS_Subset
      <4>2. Cardinality(AtHome) \in Nat \ {0}
        BY <4>1, FS_CardinalityType, FS_EmptySet
      <4>3. Carried!Cardinality(AtHome) = Cardinality(AtHome)
        BY DEF Cardinality, Carried!Cardinality
      <4>4. s \in [1 .. 1 -> AtHome] /\ s[1] = f /\ DOMAIN s = 1 .. 1
        BY <3>1, <3>2
      <4>5. 1 \in 1 .. Carried!Cardinality(AtHome)
        BY <4>2, <4>3
      <4>6. Carried!IsInjective(s)
        BY <4>4 DEF Carried!IsInjective
      <4>7. Carried!Range(s) = {f}
        BY <4>4 DEF Carried!Range
      <4> QED BY <4>4, <4>5, <4>6, <4>7 DEF Carried!Lists
    <3>4. Line' = Line \o s
      <4>1. f \in Frame /\ Line \in Seq(Frame)
        BY HomeIs, LineIs
      <4> QED BY <3>1, <3>2, <4>1, AppendIsConcat
    <3>5. queue' = [q \in {"in"} |-> queue[q] \o s] /\ used' = used
      BY <2>1, <2>2, <3>1, <3>4
    <3>6. Carried!Give(s)
      BY <3>1, <3>3, <3>5 DEF Carried!Give, queue, used
    <3> QED BY <3>3, <3>6 DEF Carried!Next
  <2>5. CASE Takes
    <3>1. PICK n \in 1 .. Len(Line) : /\ AtHome' = AtHome
                                      /\ Line' = SubSeq(Line, n + 1, Len(Line))
                                      /\ InHands' = InHands \cup {Line[i] : i \in 1 .. n}
      BY <2>5 DEF Takes
    <3>2. /\ queue' = [queue EXCEPT !["in"] = SubSeq(@, n + 1, Len(@))]
          /\ used' = [used EXCEPT !["in"] = @ \cup {queue["in"][i] : i \in 1 .. n}]
          /\ n \in 1 .. Len(queue["in"])
      BY <2>1, <2>2, <3>1
    <3>3. Carried!Take("in", n)
      BY <3>1, <3>2 DEF Carried!Take, queue, used
    <3> QED BY <3>2, <3>3 DEF Carried!Next, queue
  <2>6. CASE Returns
    <3>1. PICK f \in Frame : /\ f \in InHands /\ InHands' = InHands \ {f}
                             /\ AtHome' = AtHome /\ Line' = Line
      BY <2>6 DEF Returns
    <3>2. f \in used["in"] /\ used' = [used EXCEPT !["in"] = @ \ {f}] /\ queue' = queue
      BY <2>1, <2>2, <3>1
    <3>3. Carried!Return("in", f)
      BY <3>1, <3>2 DEF Carried!Return, queue, used
    <3> QED BY <3>3 DEF Carried!Next
  <2>7. CASE Reclaims
    <3>1. PICK f \in Frame :
             /\ f \notin AtHome /\ f \notin InHands /\ f \notin Range(Line)
             /\ AtHome' = AtHome \cup {f}
             /\ Line' = Line /\ InHands' = InHands
      BY <2>7 DEF Reclaims
    <3>2. queue' = queue /\ used' = used
      BY <2>1, <3>1
    <3>3. ~Carried!InFlight(f)
      <4>1. f \notin used["in"] /\ f \notin Carried!Range(queue["in"])
        BY <2>2, <3>1 DEF Range, Carried!Range
      <4> QED BY <4>1 DEF Carried!InFlight, queue, used
    <3>4. Carried!Reclaim({f})
      BY <3>1, <3>2, <3>3 DEF Carried!Reclaim, queue, used
    <3> QED BY <3>4 DEF Carried!Next
  <2> QED BY <2>3, <2>4, <2>5, <2>6, <2>7, IpcShows
<1> QED
  BY <1>1, <1>4, Inductive, PTL DEF FramesSpec, CarriesFrames, Carried!Spec, Carried!vars

=============================================================================
