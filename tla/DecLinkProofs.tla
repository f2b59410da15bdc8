--------------------------- MODULE DecLinkProofs ---------------------------
(* Theorems of DecLink, for any numbers of channels, process tasks, frames, *)
(* buffers and request objects, and any codecs and batches.                 *)
(*                                                                          *)
(* They assume that one caller sends the control commands, each after the   *)
(* answer to the last: the host sends them under one lock (msgQLock,        *)
(* src_linux/links/system/system_ipc_msgq.c:357), and a second caller could *)
(* overwrite pMsgTmp, or create a channel whose dummy request is under way. *)
EXTENDS DecLink, OwningLemmas

OneCaller == \A c, d \in Caller : c = d

-----------------------------------------------------------------------------
(* The inductive invariant.                                                 *)

\* The requests of a process task.
Own(t) == Range(processQue[t]) \cup Range(batch[t])

\* They are in one place, those of a channel before the dummy one; and what
\* a task that waits, flushes a channel or runs the codec has at hand.
QueueInv(t) ==
    /\ IsInjective(processQue[t])
    /\ Range(processQue[t]) \cap Range(batch[t]) = {}
    /\ \A r \in Own(t) : TskOf[r.ch] = t
    /\ \A i, j \in DOMAIN processQue[t] :
          /\ processQue[t][i].in = None
          /\ processQue[t][i].ch = processQue[t][j].ch
          => j <= i
    /\ taskPc[t] \in {"get", "end"} => batch[t] = <<>>
    /\ taskPc[t] = "flush" =>
          \E ch \in Ch : /\ batch[t] = <<Dummy(ch)>>
                         /\ \A r \in Range(processQue[t]) : r.ch # ch
    /\ taskPc[t] = "codec" =>
          /\ batch[t] # <<>> /\ \A r \in Range(batch[t]) : r.in # None
          /\ \A i, j \in DOMAIN batch[t] : batch[t][i].ch = batch[t][j].ch => i = j
QueuesInv == \A t \in Tsk : QueueInv(t)

\* No two requests have the same buffer or the same frame.
IsReal(r) == /\ r.in \in Bit /\ BitCh[r.in] = r.ch
             /\ \E f \in Frames(r.ch) : r.out = Org(f)
RequestsInv ==
    /\ \A r \in AtTasks : IsReal(r) \/ r = Dummy(r.ch)
    /\ \A r \in doneQue : /\ r.in \in Bit /\ BitCh[r.in] = r.ch
                          /\ r.out # NoItem => ChOf[r.out[1]] = r.ch
    /\ \A r, s \in AtTasks : r.in = s.in \/ r.out = s.out => r = s
    /\ \A r, s \in doneQue : r.in = s.in \/ (r.out = s.out /\ r.out # NoItem) => r = s
    /\ \A r \in AtTasks, s \in doneQue : r.in # s.in

CountInv ==
    /\ IsFiniteSet(AtTasks) /\ IsFiniteSet(doneQue)
    /\ NumReq = reqQue + Cardinality(AtTasks) + Cardinality(doneQue)

\* A buffer is in one place, in that of its channel.
InRequest(b) == \E r \in AtTasks \cup doneQue : r.in = b
BitAlone(b) ==
    /\ b \in prev \/ b \in prevFull \/ b \in inQue[BitCh[b]] \/ InRequest(b)
    /\ b \in prev => b \notin prevFull /\ b \notin inQue[BitCh[b]] /\ ~InRequest(b)
    /\ b \in prevFull => b \notin inQue[BitCh[b]] /\ ~InRequest(b)
    /\ b \in inQue[BitCh[b]] => ~InRequest(b)
BuffersInv == /\ \A b \in Bit : BitAlone(b)
              /\ \A ch \in Ch : \A b \in inQue[ch] : BitCh[b] = ch

\* A frame is written by one, or read by the next link; and when both, the
\* codec keeps it and has put it out.
AtTask(f) == \E r \in AtTasks : r.out = Org(f)
Writes(f) == AtTask(f) \/ f \in locked[ChOf[f]]
Outs == {r.out : r \in doneQue} \ {NoItem}
One(b) == IF b THEN 1 ELSE 0
FrameInv(f) ==
    /\ AtTask(f) => f \notin locked[ChOf[f]]
    /\ Writes(f) => Org(f) \notin Outside
    /\ Dup(f) \in Outside => ~AtTask(f) /\ (f \in locked[ChOf[f]] => f \in shown[ChOf[f]])
    /\ refs[f] = One(Writes(f)) + One(Org(f) \in Outside) + One(Dup(f) \in Outside)
    /\ refs[f] > 0 => f \notin emptyQue[ChOf[f]] /\ f \notin fvidFrmQue[ChOf[f]]
    /\ f \in emptyQue[ChOf[f]] => f \notin fvidFrmQue[ChOf[f]]
FramesInv ==
    /\ \A f \in Frame : FrameInv(f)
    /\ \A ch \in Ch : emptyQue[ch] \cup fvidFrmQue[ch] \cup locked[ch] \subseteq Frames(ch)
    /\ full \cap next = {} /\ Outs \cap (full \cup next) = {}

\* A channel that is being deleted takes no buffers, and is closed only when
\* its last request has come through.
ChannelInv(ch) ==
    /\ openLocal[ch] => open[ch]
    /\ inQue[ch] # {} => openLocal[ch]
    /\ ~open[ch] => locked[ch] = {}
    /\ \A r \in AtTasks : r.ch = ch => IF r.in = None THEN ~openLocal[ch] ELSE open[ch]
ChannelsInv == \A ch \in Ch : ChannelInv(ch)

\* The one command is in the mailbox, or the link's task stops because of it,
\* or it waits for a dummy request and then for a LATE_ACK.
Deleted == \E r \in AtTasks : r.in = None
OnceIn(m) == \A i, j \in DOMAIN m : m[i] = m[j] /\ m[i] \in Caller \cup {"LATE_ACK"} => i = j
CallsInv ==
    /\ \A c \in Caller \cap Range(mbx) : control[c] # NoControl /\ pMsg = None /\ pMsgTmp = None
    /\ OnceIn(mbx)
    /\ pMsgTmp # None => /\ control[pMsgTmp].cmd \in {"CREATE_CHANNEL", "DELETE_CHANNEL"}
                         /\ pMsg = None
    /\ Deleted \/ "LATE_ACK" \in Range(mbx) => pMsgTmp # None
    /\ Deleted => "LATE_ACK" \notin Range(mbx)
    /\ pMsg # None => control[pMsg].cmd \in {"STOP", "DELETE"}
    /\ pMsg # None <=> linkPc \in {"stop", "join"}

LoopInv == idx \in Ch /\ left \in 1 .. NumCh

DataInv == RequestsInv /\ CountInv /\ BuffersInv /\ FramesInv /\ ChannelsInv
DecInv == TypeOK /\ QueuesInv /\ DataInv /\ CallsInv /\ LoopInv

-----------------------------------------------------------------------------
(* The queues of the process tasks.                                         *)

LEMMA AtTasksAre == \A r : r \in AtTasks <=> \E t \in Tsk : r \in Own(t)
BY DEF AtTasks, Own, Range

LEMMA AtTasksNext == \A r : (r \in AtTasks)' <=> \E t \in Tsk : r \in Own(t)'
BY DEF AtTasks, Own, Range

\* A queue as a sequence of S.
LEMMA RangeOf ==
    ASSUME NEW S, NEW q \in Seq(S)
    PROVE  /\ DOMAIN q = 1 .. Len(q) /\ Len(q) \in Nat /\ Range(q) \subseteq S
           /\ \A i \in 1 .. Len(q) : q[i] \in S /\ q[i] \in Range(q)
           /\ q = <<>> <=> Len(q) = 0
           /\ q # <<>> => Head(q) = q[1] /\ Head(q) \in Range(q)
<1>1. DOMAIN q = 1 .. Len(q) /\ Len(q) \in Nat /\ \A i \in 1 .. Len(q) : q[i] \in S
  BY LenProperties, ElementOfSeq
<1>2. Range(q) \subseteq S /\ \A i \in 1 .. Len(q) : q[i] \in Range(q)
  BY <1>1 DEF Range
<1>3. q = <<>> <=> Len(q) = 0
  BY EmptySeq
<1>4. q # <<>> => Head(q) = q[1]
  BY HeadTailProperties
<1> QED
  BY <1>1, <1>2, <1>3, <1>4

LEMMA Single == ASSUME NEW x PROVE Range(<<x>>) = {x} /\ IsInjective(<<x>>)
BY DEF Range, IsInjective

\* A request is queued.
LEMMA QueuePut ==
    ASSUME TypeOK, QueuesInv, NEW t \in Tsk, NEW r \in Request, TskOf[r.ch] = t,
           r \notin Own(t), \A s \in Own(t) : s.in = None => s.ch # r.ch,
           processQue' = [processQue EXCEPT ![t] = Append(@, r)],
           UNCHANGED <<batch, taskPc>>
    PROVE  /\ processQue' \in [Tsk -> Seq(Request)]
           /\ QueuesInv' /\ \A s : (s \in AtTasks)' <=> s \in AtTasks \/ s = r
<1> DEFINE q == processQue[t]
<1>1. q \in Seq(Request) /\ batch[t] \in Seq(Request) /\ QueueInv(t)
  BY DEF TypeOK, QueuesInv
<1>2. /\ Append(q, r) \in Seq(Request) /\ Range(Append(q, r)) = Range(q) \cup {r}
      /\ IsInjective(Append(q, r))
  BY <1>1, QueueAppend DEF QueueInv, Own
<1>3. processQue' \in [Tsk -> Seq(Request)] /\ processQue'[t] = Append(q, r)
      /\ \A u \in Tsk \ {t} : processQue'[u] = processQue[u]
  BY <1>2 DEF TypeOK
<1>4. Own(t)' = Own(t) \cup {r} /\ \A u \in Tsk \ {t} : Own(u)' = Own(u)
  BY <1>2, <1>3 DEF Own
<1>5. ASSUME NEW u \in Tsk \ {t} PROVE QueueInv(u)'
  BY <1>3, <1>4, <1>5, SMTT(30) DEF QueuesInv, QueueInv
<1>6. QueueInv(t)'
  <2>1. ASSUME NEW i \in DOMAIN Append(q, r), NEW j \in DOMAIN Append(q, r),
               Append(q, r)[i].in = None, Append(q, r)[i].ch = Append(q, r)[j].ch
        PROVE  j <= i
    <3>1. /\ Len(q) \in Nat /\ DOMAIN q = 1 .. Len(q) /\ DOMAIN Append(q, r) = 1 .. Len(q) + 1
          /\ \A k \in 1 .. Len(q) : Append(q, r)[k] = q[k] /\ q[k] \in Range(q)
          /\ Append(q, r)[Len(q) + 1] = r
      BY <1>1, <1>2, RangeOf, AppendProperties, LenProperties
    <3>2. CASE i = Len(q) + 1
      BY <3>1, <3>2
    <3>3. CASE i \in 1 .. Len(q)
      <4>1. q[i].ch # r.ch
        BY <2>1, <3>1, <3>3 DEF Own
      <4>2. j \in 1 .. Len(q)
        BY <2>1, <3>1, <3>3, <4>1
      <4> QED BY <1>1, <2>1, <3>1, <3>3, <4>2 DEF QueueInv
    <3> QED BY <3>1, <3>2, <3>3
  <2>2. Range(processQue[t])' = Range(q) \cup {r} /\ r \notin Range(batch[t])
    BY <1>2, <1>3 DEF Own
  <2>3. taskPc[t] = "flush" =>
          \E ch \in Ch : batch[t] = <<Dummy(ch)>> /\ \A s \in Range(q) \cup {r} : s.ch # ch
    <3> SUFFICES ASSUME taskPc[t] = "flush"
                 PROVE  \E ch \in Ch : /\ batch[t] = <<Dummy(ch)>>
                                       /\ \A s \in Range(q) \cup {r} : s.ch # ch
      OBVIOUS
    <3>1. PICK ch \in Ch : batch[t] = <<Dummy(ch)>> /\ \A s \in Range(q) : s.ch # ch
      BY <1>1 DEF QueueInv
    <3>2. Dummy(ch) \in Own(t)
      BY <3>1, Single DEF Own
    <3> QED BY <3>1, <3>2 DEF Dummy
  <2>4. \A s \in Own(t)' : TskOf[s.ch] = t
    BY <1>1, <1>4 DEF QueueInv
  <2> QED
    <3>1. batch'[t] = batch[t] /\ taskPc'[t] = taskPc[t] /\ processQue'[t] = Append(q, r)
      BY <1>3
    <3>2. Range(processQue'[t]) \cap Range(batch'[t]) = {}
      BY <1>1, <2>2, <3>1 DEF QueueInv
    <3>3. \A i, j \in DOMAIN processQue'[t] :
            /\ processQue'[t][i].in = None /\ processQue'[t][i].ch = processQue'[t][j].ch
            => j <= i
      BY <2>1, <3>1
    <3>4. taskPc'[t] = "flush" =>
            \E ch \in Ch : /\ batch'[t] = <<Dummy(ch)>>
                          /\ \A s \in Range(processQue'[t]) : s.ch # ch
      BY <2>2, <2>3, <3>1
    <3>5. IsInjective(processQue'[t])
      BY <1>2, <3>1
    <3> QED
      BY <1>1, <2>4, <3>1, <3>2, <3>3, <3>4, <3>5 DEF QueueInv, Dummy
<1>7. QueuesInv'
  BY <1>5, <1>6 DEF QueuesInv
<1> QED
  BY <1>3, <1>4, <1>7, AtTasksAre, AtTasksNext
\* The front of a queue, and what is left of it.
LEMMA Split ==
    ASSUME NEW S, NEW q \in Seq(S), NEW n \in 1 .. Len(q), IsInjective(q)
    PROVE  LET a == SubSeq(q, 1, n)
               b == SubSeq(q, n + 1, Len(q))
           IN  /\ a \in Seq(S) /\ b \in Seq(S) /\ a # <<>>
               /\ DOMAIN a = 1 .. n /\ \A i \in 1 .. n : a[i] = q[i]
               /\ DOMAIN b = 1 .. Len(q) - n /\ \A i \in 1 .. Len(q) - n : b[i] = q[i + n]
               /\ IsInjective(b) /\ Range(a) \cap Range(b) = {}
               /\ Range(a) = {q[i] : i \in 1 .. n} /\ Range(q) = Range(a) \cup Range(b)
<1> DEFINE a == SubSeq(q, 1, n)
           b == SubSeq(q, n + 1, Len(q))
<1>1. Len(q) \in Nat /\ DOMAIN q = 1 .. Len(q) /\ \A i \in 1 .. Len(q) : q[i] \in S
  BY RangeOf
<1>2. a \in Seq(S) /\ Len(a) = n /\ \A i \in 1 .. n : a[i] = q[i]
  <2>1. \A i \in 1 .. n : q[i] \in S
    BY <1>1
  <2>2. /\ SubSeq(q, 1, n) \in Seq(S)
        /\ Len(SubSeq(q, 1, n)) = IF 1 <= n THEN n - 1 + 1 ELSE 0
        /\ \A i \in 1 .. n - 1 + 1 : SubSeq(q, 1, n)[i] = q[1 + i - 1]
    BY ONLY <1>1, <2>1, SubSeqProperties, n \in 1 .. Len(q)
  <2> QED BY <1>1, <2>2
<1>3. b \in Seq(S) /\ Len(b) = Len(q) - n /\ \A i \in 1 .. Len(q) - n : b[i] = q[i + n]
  <2>1. \A i \in n + 1 .. Len(q) : q[i] \in S
    BY <1>1
  <2>2. n + 1 \in Int /\ Len(q) \in Int
    BY <1>1
  <2>3. /\ b \in Seq(S)
        /\ Len(b) = IF n + 1 <= Len(q) THEN Len(q) - (n + 1) + 1 ELSE 0
        /\ \A i \in 1 .. Len(q) - (n + 1) + 1 : b[i] = q[(n + 1) + i - 1]
    BY ONLY <2>1, <2>2, SubSeqProperties
  <2> HIDE DEF a, b
  <2>0. n \in Nat /\ n <= Len(q) /\ 1 <= n
    BY <1>1
  <2>4. Len(b) = Len(q) - n
    <3>1. CASE n + 1 <= Len(q)
      BY ONLY <2>0, <2>2, <2>3, <3>1
    <3>2. CASE n = Len(q)
      <4>1. ~(n + 1 <= Len(q)) /\ Len(q) - n = 0
        BY <2>0, <3>2
      <4> QED BY ONLY <4>1, <2>3
    <3> QED BY ONLY <2>0, <2>2, <3>1, <3>2
  <2>5. ASSUME NEW i \in 1 .. Len(q) - n PROVE b[i] = q[i + n]
    <3>1. i \in 1 .. Len(q) - (n + 1) + 1 /\ (n + 1) + i - 1 = i + n
      BY <1>1
    <3> QED BY <2>3, <3>1
  <2> QED BY <2>3, <2>4, <2>5
<1> HIDE DEF a, b
<1>4. DOMAIN a = 1 .. n /\ DOMAIN b = 1 .. Len(q) - n /\ a # <<>>
  BY <1>2, <1>3, LenProperties, EmptySeq
<1>5. \A i, j \in 1 .. Len(q) : q[i] = q[j] => i = j
  BY <1>1 DEF IsInjective
<1>6. IsInjective(b)
  <2>1. ASSUME NEW i \in 1 .. Len(q) - n, NEW j \in 1 .. Len(q) - n, b[i] = b[j]
        PROVE  i = j
    <3>1. i + n \in 1 .. Len(q) /\ j + n \in 1 .. Len(q) /\ q[i + n] = q[j + n]
      BY <1>1, <1>3, <2>1
    <3> QED BY <1>5, <3>1
  <2> QED BY <1>4, <2>1 DEF IsInjective
<1>7. Range(a) = {q[i] : i \in 1 .. n} /\ Range(b) = {q[i + n] : i \in 1 .. Len(q) - n}
  <2>1. Range(a) = {a[i] : i \in 1 .. n} /\ Range(b) = {b[i] : i \in 1 .. Len(q) - n}
    BY <1>4 DEF Range
  <2>2. {a[i] : i \in 1 .. n} = {q[i] : i \in 1 .. n}
    BY ONLY <1>2
  <2>3. {b[i] : i \in 1 .. Len(q) - n} = {q[i + n] : i \in 1 .. Len(q) - n}
    BY ONLY <1>3
  <2> QED BY ONLY <2>1, <2>2, <2>3
<1>8. Range(a) \cap Range(b) = {}
  <2>1. ASSUME NEW i \in 1 .. n, NEW j \in 1 .. Len(q) - n, q[i] = q[j + n] PROVE FALSE
    <3>1. i \in 1 .. Len(q) /\ j + n \in 1 .. Len(q) /\ i # j + n
      BY <1>1
    <3> QED BY <1>5, <2>1, <3>1
  <2> QED BY <1>7, <2>1
<1>9. Range(q) = Range(a) \cup Range(b)
  <2>1. ASSUME NEW i \in 1 .. Len(q) PROVE q[i] \in Range(a) \cup Range(b)
    <3>1. CASE i \in 1 .. n
      BY <1>7, <3>1
    <3>2. CASE i \notin 1 .. n
      <4>1. i - n \in 1 .. Len(q) - n /\ (i - n) + n = i
        BY <1>1, <3>2
      <4> QED BY <1>7, <4>1
    <3> QED BY <3>1, <3>2
  <2>2. \A i \in 1 .. n : q[i] \in Range(q)
    BY <1>1 DEF Range
  <2>3. ASSUME NEW i \in 1 .. Len(q) - n PROVE q[i + n] \in Range(q)
    <3>1. i + n \in 1 .. Len(q)
      BY <1>1
    <3> QED BY <1>1, <3>1 DEF Range
  <2>4. Range(q) \subseteq Range(a) \cup Range(b)
    BY <1>1, <2>1 DEF Range
  <2> QED BY <1>7, <2>2, <2>3, <2>4
<1> QED
  BY <1>2, <1>3, <1>4, <1>6, <1>7, <1>8, <1>9 DEF a, b

\* There is a longest batch at the front of a queue that is not empty.
LEMMA BatchIs ==
    ASSUME NEW q \in Seq(Request), q # <<>>
    PROVE  BatchLen(q) \in 1 .. Len(q) /\ IsBatch(q, BatchLen(q))
<1> DEFINE Ends == {n \in 1 .. Len(q) : n = Len(q) \/ ~IsBatch(q, n + 1)}
<1>1. Len(q) \in Nat \ {0}
  BY RangeOf
<1>2. PICK n \in Ends : \A j \in Ends : n <= j
  <2>1. Ends \subseteq Nat /\ Len(q) \in Ends
    BY <1>1
  <2> HIDE DEF Ends
  <2> QED BY <2>1, LeastNatural
<1>3. IsBatch(q, n)
  <2>1. CASE n = 1
    BY <2>1, BoundAssumption DEF IsBatch
  <2>2. CASE n # 1
    <3>1. n - 1 \in 1 .. Len(q) /\ n - 1 \notin Ends
      <4>1. n \in 1 .. Len(q)
        BY <1>2
      <4> HIDE DEF Ends
      <4> QED BY <1>1, <1>2, <2>2, <4>1
    <3>2. IsBatch(q, (n - 1) + 1) /\ (n - 1) + 1 = n
      BY <1>1, <3>1
    <3> QED BY <3>2
  <2> QED BY <2>1, <2>2
<1>4. \E m \in 1 .. Len(q) : IsBatch(q, m) /\ (m = Len(q) \/ ~IsBatch(q, m + 1))
  BY <1>2, <1>3
<1> HIDE DEF Ends
<1> QED
  BY <1>4 DEF BatchLen
\* The batch a process task takes is the front of its queue: a dummy request,
\* behind which there is nothing of its channel, or real ones of different
\* channels.
LEMMA QueueGet ==
    ASSUME TypeOK, QueuesInv, RequestsInv, NEW t \in Tsk, Get(t)
    PROVE  /\ processQue' \in [Tsk -> Seq(Request)] /\ batch' \in [Tsk -> Seq(Request)]
           /\ taskPc' \in [Tsk -> {"get", "codec", "flush", "end"}]
           /\ QueuesInv' /\ \A r : (r \in AtTasks)' <=> r \in AtTasks
<1> DEFINE q == processQue[t]
           n == IF q[1].in = None THEN 1 ELSE BatchLen(q)
           a == SubSeq(q, 1, n)
           b == SubSeq(q, n + 1, Len(q))
<1>1. /\ q \in Seq(Request) /\ q # <<>> /\ taskPc[t] = "get"
      /\ QueueInv(t) /\ batch[t] = <<>>
  BY DEF TypeOK, QueuesInv, QueueInv, Get, Ready
<1>2. /\ Len(q) \in Nat \ {0} /\ DOMAIN q = 1 .. Len(q) /\ 1 \in 1 .. Len(q)
      /\ \A i \in 1 .. Len(q) : q[i] \in Request /\ q[i] \in Range(q)
  BY <1>1, RangeOf
<1>3. n \in 1 .. Len(q) /\ (q[1].in # None => IsBatch(q, n))
  BY <1>1, <1>2, BatchIs
<1> HIDE DEF n
<1>4. IsInjective(q)
  BY <1>1 DEF QueueInv
<1>5. /\ a \in Seq(Request) /\ b \in Seq(Request) /\ a # <<>>
      /\ DOMAIN a = 1 .. n /\ \A i \in 1 .. n : a[i] = q[i]
      /\ DOMAIN b = 1 .. Len(q) - n /\ \A i \in 1 .. Len(q) - n : b[i] = q[i + n]
      /\ IsInjective(b) /\ Range(a) \cap Range(b) = {}
      /\ Range(a) = {q[i] : i \in 1 .. n} /\ Range(q) = Range(a) \cup Range(b)
  <2> HIDE DEF q
  <2> QED BY ONLY <1>1, <1>3, <1>4, Split
<1>6. /\ processQue' = [processQue EXCEPT ![t] = b] /\ batch' = [batch EXCEPT ![t] = a]
      /\ taskPc' = [taskPc EXCEPT ![t] = IF q[1].in = None THEN "flush" ELSE "codec"]
  BY DEF Get, n
<1> HIDE DEF q, a, b
<1>7. /\ processQue' \in [Tsk -> Seq(Request)] /\ batch' \in [Tsk -> Seq(Request)]
      /\ taskPc' \in [Tsk -> {"get", "codec", "flush", "end"}]
      /\ processQue'[t] = b /\ batch'[t] = a
      /\ taskPc'[t] = IF q[1].in = None THEN "flush" ELSE "codec"
      /\ \A u \in Tsk \ {t} : /\ processQue'[u] = processQue[u] /\ batch'[u] = batch[u]
                              /\ taskPc'[u] = taskPc[u]
  BY <1>5, <1>6 DEF TypeOK
<1>8. \A u \in Tsk : Own(u)' = Own(u)
  <2>1. Own(t) = Range(q) /\ Own(t)' = Range(b) \cup Range(a)
    BY <1>1, <1>7, EmptyQueue DEF Own, q
  <2>2. \A u \in Tsk \ {t} : Own(u)' = Own(u)
    BY <1>7 DEF Own
  <2> QED BY <1>5, <2>1, <2>2
<1>9. ASSUME NEW u \in Tsk \ {t} PROVE QueueInv(u)'
  <2>1. QueueInv(u) /\ Own(u)' = Own(u)
    BY <1>8 DEF QueuesInv
  <2>2. /\ processQue'[u] = processQue[u] /\ batch'[u] = batch[u]
        /\ taskPc'[u] = taskPc[u]
    BY <1>7
  <2> QED BY ONLY <2>1, <2>2 DEF QueueInv, Dummy
<1>10. QueueInv(t)'
  <2>1. \A i, j \in DOMAIN b : b[i].in = None /\ b[i].ch = b[j].ch => j <= i
    <3> SUFFICES ASSUME NEW i \in 1 .. Len(q) - n, NEW j \in 1 .. Len(q) - n,
                        b[i].in = None, b[i].ch = b[j].ch
                 PROVE  j <= i
      BY <1>5
    <3>1. i + n \in 1 .. Len(q) /\ j + n \in 1 .. Len(q)
      BY <1>2, <1>3
    <3>2. q[i + n].in = None /\ q[i + n].ch = q[j + n].ch
      BY <1>5
    <3>3. j + n <= i + n
      BY <1>1, <1>2, <3>1, <3>2 DEF QueueInv, q
    <3> QED BY <1>2, <1>3, <3>3
  <2>2. CASE q[1].in = None
    <3>1. n = 1
      BY <2>2 DEF n
    <3>2. q[1] = Dummy(q[1].ch) /\ q[1].ch \in Ch
      <4>1. q[1] \in Own(t) /\ q[1] \in Request
        BY <1>2 DEF Own, q
      <4>2. ~IsReal(q[1])
        BY <2>2, NoneAssumption DEF IsReal
      <4> QED BY <4>1, <4>2, AtTasksAre DEF RequestsInv, Request
    <3>3. a = <<q[1]>>
      <4>1. a \in Seq(Request) /\ DOMAIN a = 1 .. 1 /\ a[1] = q[1]
        BY <1>5, <3>1
      <4>2. Len(a) = 1
        BY <4>1, RangeOf
      <4> QED BY <4>1, <4>2, <1>2
    <3>4. \A r \in Range(b) : r.ch # q[1].ch
      <4> SUFFICES ASSUME NEW i \in 1 .. Len(q) - n, b[i].ch = q[1].ch PROVE FALSE
        BY <1>5 DEF Range
      <4>1. i + n \in 1 .. Len(q) /\ q[i + n].ch = q[1].ch /\ ~(i + n <= 1)
        BY <1>2, <1>3, <1>5, <3>1
      <4> QED BY <1>1, <1>2, <2>2, <4>1 DEF QueueInv, q
    <3>5. taskPc'[t] = "flush" /\ batch'[t] = <<Dummy(q[1].ch)>>
      BY <1>7, <2>2, <3>2, <3>3
    <3> QED
      BY <1>1, <1>5, <1>7, <1>8, <2>1, <3>2, <3>4, <3>5, ZenonT(30) DEF QueueInv, Dummy
  <2>3. CASE q[1].in # None
    <3>1. IsBatch(q, n)
      BY <1>3, <2>3
    <3>2. \A r \in Range(a) : r.in # None
      <4> SUFFICES ASSUME NEW i \in 1 .. n PROVE q[i].in # None
        BY <1>5
      <4> QED BY <2>3, <3>1, <1>3 DEF IsBatch
    <3>3. \A i, j \in 1 .. n : i < j => q[i].ch # q[j].ch
      BY <3>1, <1>2, <1>3 DEF IsBatch
    <3>4. \A i, j \in DOMAIN a : a[i].ch = a[j].ch => i = j
      <4> SUFFICES ASSUME NEW i \in 1 .. n, NEW j \in 1 .. n, q[i].ch = q[j].ch
                   PROVE  i = j
        BY <1>5
      <4>1. ~(i < j) /\ ~(j < i)
        BY <3>3
      <4> QED BY <1>2, <1>3, <4>1
    <3>5. taskPc'[t] = "codec"
      BY <1>7, <2>3
    <3> QED
      BY <1>1, <1>5, <1>7, <1>8, <2>1, <3>2, <3>4, <3>5 DEF QueueInv
  <2> QED BY <2>2, <2>3
<1> QED
  BY <1>7, <1>8, <1>9, <1>10, AtTasksAre, AtTasksNext DEF QueuesInv

\* A process task is done with its batch.
LEMMA QueueEnd ==
    ASSUME TypeOK, QueuesInv, NEW t \in Tsk,
           batch' = [batch EXCEPT ![t] = <<>>], taskPc' = [taskPc EXCEPT ![t] = Again],
           UNCHANGED processQue
    PROVE  /\ batch' \in [Tsk -> Seq(Request)]
           /\ taskPc' \in [Tsk -> {"get", "codec", "flush", "end"}]
           /\ QueuesInv' /\ \A r : (r \in AtTasks)' <=> r \in AtTasks /\ r \notin Range(batch[t])
<1>1. batch' \in [Tsk -> Seq(Request)] /\ batch'[t] = <<>> /\ taskPc'[t] \in {"get", "end"}
      /\ taskPc' \in [Tsk -> {"get", "codec", "flush", "end"}]
      /\ \A u \in Tsk \ {t} : batch'[u] = batch[u] /\ taskPc'[u] = taskPc[u]
  BY EmptySeq DEF TypeOK, Again
<1>2. /\ Own(t)' = Range(processQue[t]) /\ Own(t)' = Own(t) \ Range(batch[t])
      /\ \A u \in Tsk \ {t} : Own(u)' = Own(u)
  BY <1>1, EmptyQueue DEF Own, QueuesInv, QueueInv
<1>3. ASSUME NEW u \in Tsk \ {t} PROVE QueueInv(u)'
  BY <1>1, <1>2, <1>3 DEF QueuesInv, QueueInv
<1>4. QueueInv(t)'
  BY <1>1, <1>2, EmptyQueue DEF QueuesInv, QueueInv
<1>5. \A u \in Tsk \ {t} : Own(u) \cap Range(batch[t]) = {}
  BY DEF Own, QueuesInv, QueueInv
<1> QED
  BY <1>1, <1>2, <1>3, <1>4, <1>5, AtTasksAre, AtTasksNext DEF QueuesInv

\* The queues stay; a task that waits may end.
LEMMA QueueStill ==
    ASSUME TypeOK, QueuesInv, UNCHANGED <<processQue, batch>>, taskPc' = taskPc \/ Unblock
    PROVE  /\ taskPc' \in [Tsk -> {"get", "codec", "flush", "end"}]
           /\ QueuesInv' /\ AtTasks' = AtTasks
<1>1. /\ taskPc' \in [Tsk -> {"get", "codec", "flush", "end"}]
      /\ \A t \in Tsk : taskPc'[t] = taskPc[t] \/ (taskPc[t] = "get" /\ taskPc'[t] = "end")
  BY DEF TypeOK, Unblock
<1>2. ASSUME NEW t \in Tsk PROVE QueueInv(t)'
  BY <1>1, <1>2 DEF QueuesInv, QueueInv, Own, Dummy
<1> QED
  BY <1>1, <1>2 DEF QueuesInv, AtTasks
-----------------------------------------------------------------------------
(* The mailbox.                                                             *)

Answerable == Caller \cup {"LATE_ACK"}

LEMMA CommandQueued ==
    ASSUME NEW m \in Seq(Cmd), NEW c \in Cmd
    PROVE  /\ After(m, c) \in Seq(Cmd) /\ Range(After(m, c)) = Range(m) \cup {c}
           /\ OnceIn(m) /\ c \notin Answerable \cap Range(m) => OnceIn(After(m, c))
<1>1. DOMAIN m = 1 .. Len(m) /\ Len(m) \in Nat /\ (m = <<>> <=> Len(m) = 0)
      /\ \A i \in 1 .. Len(m) : m[i] \in Range(m)
  BY RangeOf
<1>2. CASE m # <<>> /\ m[Len(m)] = c
  BY <1>1, <1>2 DEF After
<1>3. CASE ~(m # <<>> /\ m[Len(m)] = c)
  <2>1. After(m, c) = Append(m, c)
    BY <1>3 DEF After
  <2>2. Append(m, c) \in Seq(Cmd) /\ Range(Append(m, c)) = Range(m) \cup {c}
    BY QueueAppend
  <2>3. /\ DOMAIN Append(m, c) = 1 .. Len(m) + 1
        /\ \A i \in 1 .. Len(m) : Append(m, c)[i] = m[i]
        /\ Append(m, c)[Len(m) + 1] = c
    BY <1>1, AppendProperties, LenProperties
  <2>4. OnceIn(m) /\ c \notin Answerable \cap Range(m) => OnceIn(Append(m, c))
    <3> SUFFICES ASSUME OnceIn(m), c \notin Answerable \cap Range(m),
                        NEW i \in 1 .. Len(m) + 1, NEW j \in 1 .. Len(m) + 1,
                        Append(m, c)[i] = Append(m, c)[j], Append(m, c)[i] \in Answerable
                 PROVE  i = j
      BY <2>3 DEF OnceIn, Answerable
    <3>1. CASE i \in 1 .. Len(m) /\ j \in 1 .. Len(m)
      BY <1>1, <2>3, <3>1 DEF OnceIn, Answerable
    <3>2. CASE i = Len(m) + 1 /\ j = Len(m) + 1
      BY <3>2
    <3>3. CASE (i \in 1 .. Len(m)) # (j \in 1 .. Len(m))
      BY <1>1, <2>3, <3>3
    <3> QED BY <1>1, <3>1, <3>2, <3>3
  <2> QED BY <2>1, <2>2, <2>4
<1> QED
  BY <1>2, <1>3

\* A command is taken; one that is answered is not there a second time.
LEMMA CommandTaken ==
    ASSUME NEW m \in Seq(Cmd), m # <<>>
    PROVE  /\ Tail(m) \in Seq(Cmd) /\ Range(m) = Range(Tail(m)) \cup {Head(m)}
           /\ OnceIn(m) => /\ OnceIn(Tail(m))
                           /\ Head(m) \in Answerable => Head(m) \notin Range(Tail(m))
<1>1. /\ Tail(m) \in Seq(Cmd) /\ Range(m) = Range(Tail(m)) \cup {Head(m)}
      /\ Len(Tail(m)) = Len(m) - 1
  BY QueueTake
<1>2. /\ DOMAIN m = 1 .. Len(m) /\ Len(m) \in Nat \ {0} /\ Head(m) = m[1]
      /\ DOMAIN Tail(m) = 1 .. Len(m) - 1
      /\ \A i \in 1 .. Len(m) - 1 : Tail(m)[i] = m[i + 1]
  BY <1>1, RangeOf, HeadTailProperties
<1>3. ASSUME OnceIn(m), NEW i \in 1 .. Len(m) - 1, NEW j \in 1 .. Len(m) - 1,
             Tail(m)[i] = Tail(m)[j], Tail(m)[i] \in Answerable
      PROVE  i = j
  <2>1. i + 1 \in 1 .. Len(m) /\ j + 1 \in 1 .. Len(m) /\ m[i + 1] = m[j + 1]
        /\ m[i + 1] \in Answerable
    BY <1>2, <1>3
  <2>2. i + 1 = j + 1
    BY <1>2, <1>3, <2>1 DEF OnceIn, Answerable
  <2> QED BY <1>2, <2>2
<1>4. ASSUME OnceIn(m), Head(m) \in Answerable, NEW i \in 1 .. Len(m) - 1,
             Tail(m)[i] = Head(m)
      PROVE  FALSE
  <2>1. i + 1 \in 1 .. Len(m) /\ 1 \in 1 .. Len(m) /\ m[i + 1] = m[1] /\ i + 1 # 1
    BY <1>2, <1>4
  <2> QED BY <1>2, <1>4, <2>1 DEF OnceIn, Answerable
<1>5. OnceIn(m) => OnceIn(Tail(m))
  BY <1>2, <1>3 DEF OnceIn, Answerable
<1>6. OnceIn(m) /\ Head(m) \in Answerable => Head(m) \notin Range(Tail(m))
  BY <1>2, <1>4 DEF Range
<1> QED
  BY <1>1, <1>5, <1>6

\* Commands that nobody waits for come and go.
LEMMA CallsQuiet ==
    ASSUME CallsInv, UNCHANGED <<control, pMsg, pMsgTmp>>, OnceIn(mbx'),
           Range(mbx') \cap Answerable = Range(mbx) \cap Answerable,
           linkPc' \in {"stop", "join"} <=> linkPc \in {"stop", "join"},
           \A r : (r \in AtTasks)' => r \in AtTasks \/ r.in # None
    PROVE  CallsInv'
<1>1. Deleted' => Deleted
  BY DEF Deleted
<1>2. \A c : c \in Answerable => (c \in Range(mbx') <=> c \in Range(mbx))
  OBVIOUS
<1>3. \A c \in Caller : c \in Range(mbx') => c \in Range(mbx)
  BY <1>2 DEF Answerable
<1>4. "LATE_ACK" \in Range(mbx') <=> "LATE_ACK" \in Range(mbx)
  BY <1>2 DEF Answerable
<1> QED
  BY <1>1, <1>3, <1>4 DEF CallsInv, OnceIn
-----------------------------------------------------------------------------
(* Frames and their references.                                             *)

\* Of a frame there are two items at most.
LEMMA ItemsOf ==
    ASSUME NEW S, S \subseteq Item, NEW f \in Frame
    PROVE  Cardinality({x \in S : x[1] = f}) = One(Org(f) \in S) + One(Dup(f) \in S)
<1> DEFINE Of == {x \in S : x[1] = f}
<1>1. \A x : x \in Of <=> x \in S /\ (x = Org(f) \/ x = Dup(f))
  <2> SUFFICES ASSUME NEW x PROVE x \in Of <=> x \in S /\ (x = Org(f) \/ x = Dup(f))
    OBVIOUS
  <2>1. x \in Of => x \in S /\ (x = Org(f) \/ x = Dup(f))
    <3> SUFFICES ASSUME x \in Of PROVE x \in S /\ (x = Org(f) \/ x = Dup(f))
      OBVIOUS
    <3>1. PICK g \in Frame, d \in BOOLEAN : x = <<g, d>>
      BY DEF Item
    <3>2. g = f /\ x \in S
      BY <3>1
    <3> QED BY <3>1, <3>2 DEF Org, Dup
  <2>2. x \in S /\ (x = Org(f) \/ x = Dup(f)) => x \in Of
    <3>1. Org(f)[1] = f /\ Dup(f)[1] = f
      BY DEF Org, Dup
    <3> QED BY <3>1
  <2> QED BY <2>1, <2>2
<1>2. Org(f) # Dup(f)
  BY DEF Org, Dup
<1> HIDE DEF Of
<1>3. CASE Org(f) \in S /\ Dup(f) \in S
  <2>1. Of = {Org(f)} \cup {Dup(f)}
    BY <1>1, <1>3
  <2>2. IsFiniteSet({Org(f)}) /\ Cardinality({Org(f)}) = 1
    BY FS_Singleton
  <2>3. Cardinality({Org(f)} \cup {Dup(f)}) = 1 + 1
    BY <1>2, <2>2, FS_AddElement
  <2> QED BY <1>3, <2>1, <2>3 DEF One, Of
<1>4. CASE Org(f) \in S /\ Dup(f) \notin S
  <2>1. Of = {Org(f)}
    BY <1>1, <1>4
  <2>2. Cardinality(Of) = 1
    BY <2>1, FS_Singleton
  <2>3. One(Org(f) \in S) = 1 /\ One(Dup(f) \in S) = 0
    BY <1>4 DEF One
  <2> QED BY <2>2, <2>3 DEF Of
<1>5. CASE Org(f) \notin S /\ Dup(f) \in S
  <2>1. Of = {Dup(f)}
    BY <1>1, <1>5
  <2>2. Cardinality(Of) = 1
    BY <2>1, FS_Singleton
  <2>3. One(Org(f) \in S) = 0 /\ One(Dup(f) \in S) = 1
    BY <1>5 DEF One
  <2> QED BY <2>2, <2>3 DEF Of
<1>6. CASE Org(f) \notin S /\ Dup(f) \notin S
  <2>1. Of = {}
    BY <1>1, <1>6
  <2> QED BY <1>6, <2>1, FS_EmptySet DEF One, Of
<1> QED
  BY <1>3, <1>4, <1>5, <1>6

\* What is freed: a frame that has lost its last reference is empty, or with
\* the headers if it was marked invalid.
LEMMA FreeIs ==
    ASSUME TypeOK, NEW S, S \subseteq Item, NEW R \in [Frame -> Nat],
           \A f \in Frame : R[f] >= One(Org(f) \in S) + One(Dup(f) \in S),
           FreeFrames(S, R)
    PROVE  /\ refs' \in [Frame -> Nat] /\ invalid' \subseteq Frame
           /\ emptyQue' \in [Ch -> SUBSET Frame] /\ fvidFrmQue' \in [Ch -> SUBSET Frame]
           /\ \A f \in Frame : refs'[f] = R[f] - (One(Org(f) \in S) + One(Dup(f) \in S))
           /\ \A ch \in Ch, f \in Frame :
                /\ f \in emptyQue'[ch] <=>
                      \/ f \in emptyQue[ch]
                      \/ ChOf[f] = ch /\ R[f] > 0 /\ refs'[f] = 0 /\ f \notin invalid
                /\ f \in fvidFrmQue'[ch] <=>
                      \/ f \in fvidFrmQue[ch]
                      \/ ChOf[f] = ch /\ R[f] > 0 /\ refs'[f] = 0 /\ f \in invalid
           /\ \A f \in Frame : f \in invalid' <=> f \in invalid /\ (R[f] > 0 => refs'[f] > 0)
<1>1. \A f \in Frame : One(Org(f) \in S) + One(Dup(f) \in S) \in Nat
  BY DEF One
<1>2. \A f \in Frame :
        Cardinality({x \in S : x[1] = f}) = One(Org(f) \in S) + One(Dup(f) \in S)
  BY ItemsOf
<1>3. \A f \in Frame : refs'[f] = R[f] - (One(Org(f) \in S) + One(Dup(f) \in S))
  BY <1>2 DEF FreeFrames
<1>4. refs' \in [Frame -> Nat]
  <2>1. refs' = [f \in Frame |-> R[f] - Cardinality({x \in S : x[1] = f})]
    BY DEF FreeFrames
  <2>2. \A f \in Frame : R[f] - (One(Org(f) \in S) + One(Dup(f) \in S)) \in Nat
    BY <1>1
  <2> QED BY <1>2, <2>1, <2>2
<1>5. \A f : f \in Gone(S, R) <=> f \in Frame /\ R[f] > 0 /\ refs'[f] = 0
  <2> SUFFICES ASSUME NEW f \in Frame
               PROVE  R[f] = One(Org(f) \in S) + One(Dup(f) \in S) <=> refs'[f] = 0
    BY <1>2 DEF Gone
  <2> QED BY <1>1, <1>3
<1>6. /\ emptyQue' = [ch \in Ch |-> emptyQue[ch] \cup (Freed(S, R) \cap Frames(ch))]
      /\ fvidFrmQue' = [ch \in Ch |->
                          fvidFrmQue[ch] \cup (Gone(S, R) \cap invalid \cap Frames(ch))]
      /\ invalid' = invalid \ Gone(S, R)
  BY DEF FreeFrames
<1>7. emptyQue' \in [Ch -> SUBSET Frame] /\ fvidFrmQue' \in [Ch -> SUBSET Frame]
      /\ invalid' \subseteq Frame
  BY <1>6 DEF TypeOK, Frames
<1>8. ASSUME NEW ch \in Ch, NEW f \in Frame
      PROVE  /\ f \in emptyQue'[ch] <=>
                  \/ f \in emptyQue[ch]
                  \/ ChOf[f] = ch /\ R[f] > 0 /\ refs'[f] = 0 /\ f \notin invalid
             /\ f \in fvidFrmQue'[ch] <=>
                  \/ f \in fvidFrmQue[ch]
                  \/ ChOf[f] = ch /\ R[f] > 0 /\ refs'[f] = 0 /\ f \in invalid
  BY <1>5, <1>6 DEF Freed, Frames
<1>9. ASSUME NEW f \in Frame
      PROVE  f \in invalid' <=> f \in invalid /\ (R[f] > 0 => refs'[f] > 0)
  <2>1. refs'[f] \in Nat
    BY <1>4
  <2> QED BY <1>5, <1>6, <2>1
<1> QED
  BY <1>3, <1>4, <1>7, <1>8, <1>9

\* What the next link has or will be given.
LEMMA OutsideIs == \A x : x \in Outside <=> x \in full \/ x \in next \/ x \in Outs
BY DEF Outside, Outs

LEMMA OutsideNext == \A x : (x \in Outside)' <=> x \in full' \/ x \in next' \/ x \in Outs'
BY DEF Outside, Outs

LEMMA OutsideItems == TypeOK => Outside \subseteq Item /\ Outs \subseteq Item
BY DEF TypeOK, Outside, Outs, Request

-----------------------------------------------------------------------------
(* Steps that leave one of these alone.                                     *)

LEMMA RequestsStay == ASSUME RequestsInv, AtTasks' = AtTasks, UNCHANGED doneQue
                      PROVE  RequestsInv'
BY DEF RequestsInv, IsReal, Dummy, Frames, Org

LEMMA CountStay == ASSUME CountInv, AtTasks' = AtTasks, UNCHANGED <<doneQue, reqQue>>
                   PROVE  CountInv'
BY DEF CountInv

LEMMA BuffersStay ==
    ASSUME BuffersInv, UNCHANGED <<prev, prevFull, inQue>>,
           \A b \in Bit : InRequest(b)' = InRequest(b)
    PROVE  BuffersInv'
BY DEF BuffersInv, BitAlone

LEMMA FramesStay ==
    ASSUME FramesInv, AtTasks' = AtTasks,
           UNCHANGED <<doneQue, full, next, locked, shown, refs, emptyQue, fvidFrmQue>>
    PROVE  FramesInv'
<1>1. Outs' = Outs /\ Outside' = Outside
  BY DEF Outs, Outside
<1>2. \A f \in Frame : AtTask(f)' = AtTask(f) /\ Writes(f)' = Writes(f)
  BY DEF AtTask, Writes, Org
<1> QED
  BY <1>1, <1>2 DEF FramesInv, FrameInv, Org, Dup, One, Frames

LEMMA ChannelsStay ==
    ASSUME ChannelsInv, AtTasks' = AtTasks, UNCHANGED <<inQue, locked, open, openLocal>>
    PROVE  ChannelsInv'
BY DEF ChannelsInv, ChannelInv

LEMMA DataStay ==
    ASSUME DataInv, AtTasks' = AtTasks,
           UNCHANGED <<doneQue, reqQue, prev, prevFull, inQue, full, next, locked, shown,
                       refs, emptyQue, fvidFrmQue, open, openLocal>>
    PROVE  DataInv'
<1>1. \A b \in Bit : InRequest(b)' = InRequest(b)
  BY DEF InRequest
<1> QED
  BY <1>1, RequestsStay, CountStay, BuffersStay, FramesStay, ChannelsStay DEF DataInv
-----------------------------------------------------------------------------
(* Buffers and frames move.                                                 *)

LEMMA FillData ==
    ASSUME TypeOK, DataInv, NEW b \in Bit, Fill(b), AtTasks' = AtTasks
    PROVE  DataInv'
<1>1. /\ b \in prev /\ prev' = prev \ {b} /\ prevFull' = prevFull \cup {b}
      /\ UNCHANGED <<inQue, doneQue, reqQue, full, next, locked, shown, refs, emptyQue,
                     fvidFrmQue, open, openLocal>>
  BY DEF Fill, frames, codec, tasks, chans
<1>2. \A a \in Bit : InRequest(a)' = InRequest(a)
  BY <1>1 DEF InRequest
<1>3. BuffersInv'
  BY <1>1, <1>2 DEF DataInv, BuffersInv, BitAlone
<1> QED
  BY <1>1, <1>3, RequestsStay, CountStay, FramesStay, ChannelsStay DEF DataInv

\* The buffers of a channel that is open go to its queue.
LEMMA QueueBufsData ==
    ASSUME TypeOK, DataInv, NEW D, QueueBufs(D), AtTasks' = AtTasks
    PROVE  DataInv' /\ inQue' \in [Ch -> SUBSET Bit]
<1>1. /\ D \subseteq prevFull /\ \A b \in prevFull \ D : openLocal[BitCh[b]]
      /\ prev' = prev \cup D /\ prevFull' = {}
      /\ inQue' = [ch \in Ch |-> inQue[ch] \cup {b \in prevFull \ D : BitCh[b] = ch}]
      /\ UNCHANGED <<doneQue, reqQue, full, next, locked, shown, refs, emptyQue,
                     fvidFrmQue, open, openLocal>>
  BY DEF QueueBufs, frames, codec, tasks, chans
<1>2. \A a \in Bit : InRequest(a)' = InRequest(a)
  BY <1>1 DEF InRequest
<1>3. /\ inQue' \in [Ch -> SUBSET Bit]
      /\ \A ch \in Ch, b \in Bit :
            b \in inQue'[ch] <=> b \in inQue[ch] \/ (b \in prevFull \ D /\ BitCh[b] = ch)
  BY <1>1 DEF TypeOK
<1>4. BuffersInv'
  <2>1. \A b \in Bit : BitCh[b] \in Ch
    BY ChannelAssumption
  <2>2. ASSUME NEW b \in Bit PROVE BitAlone(b)'
    <3>1. b \in inQue'[BitCh[b]] <=> b \in inQue[BitCh[b]] \/ b \in prevFull \ D
      BY <1>3, <2>1
    <3> QED BY <1>1, <1>2, <3>1 DEF DataInv, BuffersInv, BitAlone
  <2>3. \A ch \in Ch : \A b \in inQue'[ch] : BitCh[b] = ch
    BY <1>3 DEF DataInv, BuffersInv
  <2> QED BY <2>2, <2>3 DEF BuffersInv
<1>5. ChannelsInv'
  <2> SUFFICES ASSUME NEW ch \in Ch PROVE ChannelInv(ch)'
    BY DEF ChannelsInv
  <2>1. inQue'[ch] # {} => openLocal[ch]
    <3> SUFFICES ASSUME NEW b \in inQue'[ch] PROVE openLocal[ch]
      OBVIOUS
    <3> QED BY <1>1, <1>3 DEF DataInv, ChannelsInv, ChannelInv
  <2> QED BY <1>1, <2>1 DEF DataInv, ChannelsInv, ChannelInv
<1> QED
  BY <1>1, <1>3, <1>4, <1>5, RequestsStay, CountStay, FramesStay DEF DataInv

LEMMA StoppedData ==
    ASSUME TypeOK, DataInv, Stopped, AtTasks' = AtTasks
    PROVE  DataInv'
<1>1. /\ prev' = prev \cup prevFull /\ prevFull' = {}
      /\ UNCHANGED <<inQue, doneQue, reqQue, full, next, locked, shown, refs, emptyQue,
                     fvidFrmQue, open, openLocal>>
  BY DEF Stopped, frames, codec, chans
<1>2. \A a \in Bit : InRequest(a)' = InRequest(a)
  BY <1>1 DEF InRequest
<1>3. BuffersInv'
  BY <1>1, <1>2 DEF DataInv, BuffersInv, BitAlone
<1> QED
  BY <1>1, <1>3, RequestsStay, CountStay, FramesStay, ChannelsStay DEF DataInv

LEMMA GetFullData ==
    ASSUME TypeOK, DataInv, GetFullFrames, AtTasks' = AtTasks
    PROVE  DataInv'
<1>1. /\ next' = next \cup full /\ full' = {}
      /\ UNCHANGED <<prev, prevFull, inQue, doneQue, reqQue, locked, shown, refs, emptyQue,
                     fvidFrmQue, open, openLocal>>
  BY DEF GetFullFrames, frames, codec, tasks, chans
<1>2. Outs' = Outs /\ \A x : (x \in Outside)' <=> x \in Outside
  BY <1>1, OutsideIs, OutsideNext DEF Outs
<1>3. \A f \in Frame : AtTask(f)' = AtTask(f) /\ Writes(f)' = Writes(f)
  BY <1>1 DEF AtTask, Writes, Org
<1>4. \A f \in Frame : FrameInv(f)'
  BY <1>1, <1>2, <1>3 DEF DataInv, FramesInv, FrameInv, Org, Dup, One
<1>5. FramesInv'
  BY <1>1, <1>2, <1>4 DEF DataInv, FramesInv, Frames
<1>6. \A b \in Bit : InRequest(b)' = InRequest(b)
  BY <1>1 DEF InRequest
<1> QED
  BY <1>1, <1>5, <1>6, RequestsStay, CountStay, BuffersStay, ChannelsStay DEF DataInv

\* The items in S are no longer outside, and freed.
LEMMA ItemsBack ==
    ASSUME TypeOK, FramesInv, AtTasks' = AtTasks, UNCHANGED <<locked, shown>>,
           NEW S, S \subseteq Outside, FreeFrames(S, refs),
           \A x : (x \in Outside)' <=> x \in Outside /\ x \notin S
    PROVE  /\ \A f \in Frame : FrameInv(f)'
           /\ \A ch \in Ch : emptyQue'[ch] \cup fvidFrmQue'[ch] \cup locked'[ch] \subseteq Frames(ch)
           /\ refs' \in [Frame -> Nat] /\ invalid' \subseteq Frame
           /\ emptyQue' \in [Ch -> SUBSET Frame] /\ fvidFrmQue' \in [Ch -> SUBSET Frame]
<1>1. /\ refs \in [Frame -> Nat] /\ S \subseteq Item
  <2>1. refs \in [Frame -> 0 .. 2]
    BY DEF TypeOK
  <2> QED BY <2>1, OutsideItems
<1>2. \A f \in Frame : /\ Org(f) \in S => Org(f) \in Outside
                       /\ Dup(f) \in S => Dup(f) \in Outside
  OBVIOUS
<1>3. \A f \in Frame : refs[f] >= One(Org(f) \in S) + One(Dup(f) \in S)
  BY <1>2 DEF FramesInv, FrameInv, One
<1>4. /\ refs' \in [Frame -> Nat] /\ invalid' \subseteq Frame
      /\ emptyQue' \in [Ch -> SUBSET Frame] /\ fvidFrmQue' \in [Ch -> SUBSET Frame]
      /\ \A f \in Frame : refs'[f] = refs[f] - (One(Org(f) \in S) + One(Dup(f) \in S))
      /\ \A ch \in Ch, f \in Frame :
           /\ f \in emptyQue'[ch] <=>
                 \/ f \in emptyQue[ch]
                 \/ ChOf[f] = ch /\ refs[f] > 0 /\ refs'[f] = 0 /\ f \notin invalid
           /\ f \in fvidFrmQue'[ch] <=>
                 \/ f \in fvidFrmQue[ch]
                 \/ ChOf[f] = ch /\ refs[f] > 0 /\ refs'[f] = 0 /\ f \in invalid
  BY <1>1, <1>3, FreeIs
<1>5. \A f \in Frame : AtTask(f)' = AtTask(f) /\ Writes(f)' = Writes(f)
  BY DEF AtTask, Writes, Org
<1>6. ASSUME NEW f \in Frame PROVE FrameInv(f)'
  <2>1. /\ (Org(f) \in Outside)' <=> Org(f) \in Outside /\ Org(f) \notin S
        /\ (Dup(f) \in Outside)' <=> Dup(f) \in Outside /\ Dup(f) \notin S
    BY DEF Org, Dup
  <2>2. refs'[f] = One(Writes(f)') + One((Org(f) \in Outside)') + One((Dup(f) \in Outside)')
    BY <1>2, <1>4, <1>5, <2>1 DEF FramesInv, FrameInv, One
  <2>3. refs'[f] > 0 => f \notin emptyQue'[ChOf[f]] /\ f \notin fvidFrmQue'[ChOf[f]]
    <3>1. ChOf[f] \in Ch
      BY ChannelAssumption
    <3>2. refs'[f] > 0 => refs[f] > 0 /\ ~(refs'[f] = 0)
      BY <1>1, <1>4 DEF One
    <3> QED BY <1>4, <3>1, <3>2 DEF FramesInv, FrameInv
  <2>4. f \in emptyQue'[ChOf[f]] => f \notin fvidFrmQue'[ChOf[f]]
    <3>1. ChOf[f] \in Ch
      BY ChannelAssumption
    <3> QED BY <1>4, <3>1 DEF FramesInv, FrameInv
  <2> QED BY <1>5, <2>1, <2>2, <2>3, <2>4 DEF FramesInv, FrameInv, Org, Dup, One
<1>7. \A ch \in Ch : emptyQue'[ch] \cup fvidFrmQue'[ch] \cup locked'[ch] \subseteq Frames(ch)
  <2> SUFFICES ASSUME NEW ch \in Ch, NEW f \in emptyQue'[ch] \cup fvidFrmQue'[ch] \cup locked[ch]
               PROVE  f \in Frames(ch)
    OBVIOUS
  <2>1. f \in Frame
    BY <1>4 DEF TypeOK
  <2> QED BY <1>4, <2>1 DEF FramesInv, Frames
<1> QED
  BY <1>4, <1>6, <1>7

LEMMA PutEmptyData ==
    ASSUME TypeOK, DataInv, NEW S, PutEmptyFrames(S), AtTasks' = AtTasks
    PROVE  /\ DataInv' /\ refs' \in [Frame -> Nat] /\ invalid' \subseteq Frame
           /\ emptyQue' \in [Ch -> SUBSET Frame] /\ fvidFrmQue' \in [Ch -> SUBSET Frame]
<1>1. /\ S \subseteq next /\ next' = next \ S /\ FreeFrames(S, refs)
      /\ UNCHANGED <<prev, prevFull, inQue, doneQue, reqQue, full, locked, shown,
                     open, openLocal>>
  BY DEF PutEmptyFrames, codec, tasks, chans
<1>2. Outs' = Outs /\ \A x : (x \in Outside)' <=> x \in Outside /\ x \notin S
  BY <1>1, OutsideIs, OutsideNext DEF Outs, DataInv, FramesInv
<1>3. S \subseteq Outside
  BY <1>1, OutsideIs
<1>4. /\ \A f \in Frame : FrameInv(f)'
      /\ \A ch \in Ch : emptyQue'[ch] \cup fvidFrmQue'[ch] \cup locked'[ch] \subseteq Frames(ch)
      /\ refs' \in [Frame -> Nat] /\ invalid' \subseteq Frame
      /\ emptyQue' \in [Ch -> SUBSET Frame] /\ fvidFrmQue' \in [Ch -> SUBSET Frame]
  BY <1>1, <1>2, <1>3, ItemsBack DEF DataInv
<1>5. FramesInv'
  BY <1>1, <1>2, <1>4 DEF DataInv, FramesInv, Frames
<1>6. \A b \in Bit : InRequest(b)' = InRequest(b)
  BY <1>1 DEF InRequest
<1> QED
  BY <1>1, <1>4, <1>5, <1>6, RequestsStay, CountStay, BuffersStay, ChannelsStay DEF DataInv

\* The requests that are done are free again, their buffers with the previous
\* link, and their frames with the next one or freed.
LEMMA GetProcessedData ==
    ASSUME TypeOK, DataInv, NEW m, NEW skip, GetProcessed(m, skip), UNCHANGED prevFull,
           AtTasks' = AtTasks
    PROVE  /\ DataInv' /\ refs' \in [Frame -> Nat] /\ invalid' \subseteq Frame
           /\ emptyQue' \in [Ch -> SUBSET Frame] /\ fvidFrmQue' \in [Ch -> SUBSET Frame]
           /\ prev' \subseteq Bit /\ full' \subseteq Item
<1>1. /\ skip \subseteq Outs /\ prev' = prev \cup {r.in : r \in doneQue}
      /\ full' = full \cup (Outs \ skip) /\ FreeFrames(skip, refs)
      /\ reqQue' = reqQue + Cardinality(doneQue) /\ doneQue' = {}
      /\ UNCHANGED <<next, inQue, locked, shown, open, openLocal>>
  BY DEF GetProcessed, Outs, codec, chans
<1>2. Outs' = {} /\ \A x : (x \in Outside)' <=> x \in Outside /\ x \notin skip
  <2>1. Outs' = {}
    BY <1>1 DEF Outs
  <2> QED BY <1>1, <2>1, OutsideIs, OutsideNext DEF DataInv, FramesInv
<1>3. skip \subseteq Outside
  BY <1>1, OutsideIs
<1>4. /\ \A f \in Frame : FrameInv(f)'
      /\ \A ch \in Ch : emptyQue'[ch] \cup fvidFrmQue'[ch] \cup locked'[ch] \subseteq Frames(ch)
      /\ refs' \in [Frame -> Nat] /\ invalid' \subseteq Frame
      /\ emptyQue' \in [Ch -> SUBSET Frame] /\ fvidFrmQue' \in [Ch -> SUBSET Frame]
  BY <1>1, <1>2, <1>3, ItemsBack DEF DataInv
<1>5. FramesInv'
  BY <1>1, <1>2, <1>4 DEF DataInv, FramesInv, Frames
<1>6. RequestsInv'
  BY <1>1 DEF DataInv, RequestsInv, IsReal, Dummy, Frames, Org
<1>7. CountInv'
  <2>1. IsFiniteSet({}) /\ Cardinality({}) = 0
    BY FS_EmptySet
  <2>2. Cardinality(doneQue) \in Nat /\ Cardinality(AtTasks) \in Nat
    BY FS_CardinalityType DEF DataInv, CountInv
  <2>3. reqQue \in Nat
    BY DEF TypeOK
  <2>4. NumReq = reqQue + Cardinality(AtTasks) + Cardinality(doneQue)
    BY DEF DataInv, CountInv
  <2>5. NumReq = reqQue' + Cardinality(AtTasks) + 0
    BY <1>1, <2>2, <2>3, <2>4
  <2> QED BY <1>1, <2>1, <2>5 DEF DataInv, CountInv
<1>8. BuffersInv'
  <2>1. ASSUME NEW b \in Bit PROVE BitAlone(b)'
    <3>1. b \in prev' <=> b \in prev \/ \E r \in doneQue : r.in = b
      BY <1>1
    <3>2. InRequest(b)' <=> \E r \in AtTasks : r.in = b
      BY <1>1 DEF InRequest
    <3>3. ~((\E r \in doneQue : r.in = b) /\ (\E r \in AtTasks : r.in = b))
      BY DEF DataInv, RequestsInv
    <3>4. InRequest(b) <=> (\E r \in doneQue : r.in = b) \/ (\E r \in AtTasks : r.in = b)
      BY DEF InRequest
    <3> QED BY <1>1, <3>1, <3>2, <3>3, <3>4 DEF DataInv, BuffersInv, BitAlone
  <2> QED BY <1>1, <2>1 DEF DataInv, BuffersInv
<1>9. prev' \subseteq Bit /\ full' \subseteq Item
  BY <1>1, OutsideItems DEF TypeOK, DataInv, RequestsInv
<1> QED
  BY <1>1, <1>4, <1>5, <1>6, <1>7, <1>8, <1>9, ChannelsStay DEF DataInv
-----------------------------------------------------------------------------
(* Requests.                                                                *)

\* A request joins those of the tasks, and is one less of the free ones.
LEMMA CountOne ==
    ASSUME TypeOK, CountInv, NEW r, r \notin AtTasks,
           \A s : (s \in AtTasks)' <=> s \in AtTasks \/ s = r,
           reqQue' = reqQue - 1, UNCHANGED doneQue
    PROVE  CountInv'
<1>1. AtTasks' = AtTasks \cup {r}
  OBVIOUS
<1>2. /\ IsFiniteSet(AtTasks \cup {r}) /\ Cardinality(AtTasks \cup {r}) = Cardinality(AtTasks) + 1
  BY FS_AddElement DEF CountInv
<1>3. Cardinality(AtTasks) \in Nat /\ Cardinality(doneQue) \in Nat /\ reqQue \in Nat
  BY FS_CardinalityType DEF CountInv, TypeOK
<1>4. NumReq = reqQue' + Cardinality(AtTasks') + Cardinality(doneQue)
  BY <1>1, <1>2, <1>3 DEF CountInv
<1> QED
  BY <1>1, <1>2, <1>4 DEF CountInv

LEMMA SubmitData ==
    ASSUME TypeOK, QueuesInv, DataInv, LoopInv, NEW b \in Bit, NEW f \in Frame, Submit(b, f)
    PROVE  /\ DataInv' /\ QueuesInv'
           /\ processQue' \in [Tsk -> Seq(Request)] /\ inQue' \in [Ch -> SUBSET Bit]
           /\ emptyQue' \in [Ch -> SUBSET Frame] /\ refs' \in [Frame -> Nat]
           /\ \A s : (s \in AtTasks)' => s \in AtTasks \/ s.in # None
           /\ \A s : s \in AtTasks => (s \in AtTasks)'
<1> DEFINE r == [ch |-> idx, in |-> b, out |-> Org(f)]
<1>1. /\ b \in inQue[idx] /\ f \in emptyQue[idx]
      /\ inQue' = [inQue EXCEPT ![idx] = @ \ {b}]
      /\ emptyQue' = [emptyQue EXCEPT ![idx] = @ \ {f}]
      /\ refs' = [refs EXCEPT ![f] = 1]
      /\ reqQue' = reqQue - 1
      /\ processQue' = [processQue EXCEPT ![TskOf[idx]] = Append(@, r)]
      /\ UNCHANGED <<prev, prevFull, full, next, fvidFrmQue, locked, shown, doneQue, taskPc,
                     batch, open, openLocal>>
  BY DEF Submit, outer, codec, chans
<1>2. /\ idx \in Ch /\ BitCh[b] = idx /\ ChOf[f] = idx /\ f \in Frames(idx)
      /\ TskOf[idx] \in Tsk
  BY <1>1, ChannelAssumption DEF LoopInv, DataInv, BuffersInv, FramesInv, Frames
<1>3. /\ inQue' \in [Ch -> SUBSET Bit] /\ emptyQue' \in [Ch -> SUBSET Frame]
      /\ refs' \in [Frame -> Nat] /\ refs'[f] = 1
      /\ \A g \in Frame \ {f} : refs'[g] = refs[g]
      /\ inQue'[idx] = inQue[idx] \ {b} /\ emptyQue'[idx] = emptyQue[idx] \ {f}
      /\ \A ch \in Ch \ {idx} : inQue'[ch] = inQue[ch] /\ emptyQue'[ch] = emptyQue[ch]
  <2>1. /\ inQue \in [Ch -> SUBSET Bit] /\ emptyQue \in [Ch -> SUBSET Frame]
        /\ refs \in [Frame -> 0 .. 2]
    BY DEF TypeOK
  <2>2. refs \in [Frame -> Nat]
    BY <2>1
  <2> QED BY ONLY <1>1, <1>2, <2>1, <2>2
<1>4. ~InRequest(b)
  BY <1>1, <1>2 DEF DataInv, BuffersInv, BitAlone
<1>5. ~Writes(f) /\ ~AtTask(f) /\ Org(f) \notin Outside /\ Dup(f) \notin Outside
  BY <1>1, <1>2 DEF DataInv, FramesInv, FrameInv, One, Writes
<1>6. open[idx] /\ openLocal[idx]
  BY <1>1, <1>2 DEF DataInv, ChannelsInv, ChannelInv
<1>7. /\ r \in Request /\ r.ch = idx /\ r.in = b /\ r.out = Org(f)
  BY <1>2 DEF Request, Item, Org
<1>8. r \notin AtTasks /\ \A s \in AtTasks : s.in # b /\ s.out # Org(f)
  BY <1>4, <1>5, <1>7 DEF InRequest, AtTask
<1> HIDE DEF r
<1>9. /\ processQue' \in [Tsk -> Seq(Request)] /\ QueuesInv'
      /\ \A s : (s \in AtTasks)' <=> s \in AtTasks \/ s = r
  <2>1. /\ r \notin Own(TskOf[idx])
        /\ \A s \in Own(TskOf[idx]) : s.in = None => s.ch # r.ch
    BY <1>2, <1>6, <1>7, <1>8, AtTasksAre DEF DataInv, ChannelsInv, ChannelInv
  <2> QED BY <1>1, <1>2, <1>7, <2>1, QueuePut
<1>10. CountInv'
  BY <1>1, <1>8, <1>9, CountOne DEF DataInv
<1>11. IsReal(r) /\ b # None
  BY <1>2, <1>7, NoneAssumption DEF IsReal
<1>12. RequestsInv'
  <2>1. \A s \in AtTasks' : IsReal(s) \/ s = Dummy(s.ch)
    BY <1>9, <1>11 DEF DataInv, RequestsInv
  <2>2. \A s, u \in AtTasks' : s.in = u.in \/ s.out = u.out => s = u
    BY <1>7, <1>8, <1>9 DEF DataInv, RequestsInv
  <2>3. \A s \in AtTasks', u \in doneQue : s.in # u.in
    BY <1>4, <1>7, <1>9 DEF DataInv, RequestsInv, InRequest
  <2> QED BY <1>1, <2>1, <2>2, <2>3 DEF DataInv, RequestsInv, IsReal, Dummy, Org
<1>13. BuffersInv'
  <2>1. \A a \in Bit : InRequest(a)' <=> InRequest(a) \/ a = b
    BY <1>1, <1>7, <1>9 DEF InRequest
  <2>2. ASSUME NEW a \in Bit PROVE BitAlone(a)'
    <3>1. BitCh[a] \in Ch
      BY ChannelAssumption
    <3>2. a # b => (a \in inQue'[BitCh[a]] <=> a \in inQue[BitCh[a]])
      BY <1>3, <3>1
    <3>3. b \notin inQue'[BitCh[b]]
      BY <1>2, <1>3
    <3>4. b \notin prev /\ b \notin prevFull
      BY <1>1, <1>2 DEF DataInv, BuffersInv, BitAlone
    <3> QED BY <1>1, <2>1, <3>2, <3>3, <3>4 DEF DataInv, BuffersInv, BitAlone
  <2>3. \A ch \in Ch : \A a \in inQue'[ch] : BitCh[a] = ch
    BY <1>3 DEF DataInv, BuffersInv
  <2> QED BY <2>2, <2>3 DEF BuffersInv
<1>14. FramesInv'
  <2>1. Outs' = Outs /\ \A x : (x \in Outside)' <=> x \in Outside
    BY <1>1, OutsideIs, OutsideNext DEF Outs
  <2>2. \A g \in Frame : AtTask(g)' <=> AtTask(g) \/ g = f
    <3>1. \A g : Org(g) = Org(f) => g = f
      BY DEF Org
    <3> QED BY <1>7, <1>9, <3>1 DEF AtTask, Org
  <2>3. \A g \in Frame : Writes(g)' <=> Writes(g) \/ g = f
    BY <1>1, <2>2 DEF Writes
  <2>4. ASSUME NEW g \in Frame PROVE FrameInv(g)'
    <3>0. ChOf[g] \in Ch
      BY ChannelAssumption
    <3>1. CASE g = f
      <4>1. AtTask(f)' /\ Writes(f)'
        BY <2>2, <2>3
      <4>2. f \notin locked[ChOf[f]]
        BY <1>5 DEF Writes
      <4>3. (Org(f) \notin Outside)' /\ (Dup(f) \notin Outside)'
        BY <1>5, <2>1 DEF Org, Dup
      <4>4. f \notin emptyQue'[ChOf[f]] /\ f \notin fvidFrmQue[ChOf[f]]
        <5>1. f \in emptyQue'[ChOf[f]] => FALSE
          BY <1>2, <1>3
        <5> QED BY <1>1, <1>2, <5>1 DEF DataInv, FramesInv, FrameInv
      <4> QED BY <1>1, <1>3, <3>1, <4>1, <4>2, <4>3, <4>4 DEF FrameInv, One
    <3>2. CASE g # f
      <4>1. refs'[g] = refs[g] /\ (AtTask(g)' <=> AtTask(g)) /\ (Writes(g)' <=> Writes(g))
        BY <1>3, <2>2, <2>3, <3>2
      <4>2. /\ (Org(g) \in Outside)' <=> Org(g) \in Outside
            /\ (Dup(g) \in Outside)' <=> Dup(g) \in Outside
        BY <2>1 DEF Org, Dup
      <4>3. g \in emptyQue'[ChOf[g]] => g \in emptyQue[ChOf[g]]
        BY <1>3, <3>0
      <4> QED BY <1>1, <4>1, <4>2, <4>3 DEF DataInv, FramesInv, FrameInv, One
    <3> QED BY <3>1, <3>2
  <2>5. \A ch \in Ch : emptyQue'[ch] \subseteq emptyQue[ch]
    BY <1>3
  <2> QED BY <1>1, <2>1, <2>4, <2>5 DEF DataInv, FramesInv, Frames
<1>15. ChannelsInv'
  <2>1. ASSUME NEW ch \in Ch PROVE ChannelInv(ch)'
    <3>1. inQue'[ch] \subseteq inQue[ch]
      BY <1>3
    <3>2. \A s : (s \in AtTasks)' /\ s.ch = ch => s \in AtTasks \/ (ch = idx /\ s.in # None)
      BY <1>7, <1>9, <1>11
    <3> QED BY <1>1, <1>6, <3>1, <3>2 DEF DataInv, ChannelsInv, ChannelInv
  <2> QED BY <2>1 DEF ChannelsInv
<1> QED
  BY <1>3, <1>7, <1>9, <1>10, <1>11, <1>12, <1>13, <1>14, <1>15 DEF DataInv
\* Empty frames and free headers change places.
LEMMA HeadersMove ==
    ASSUME TypeOK, FramesInv, UNCHANGED <<doneQue, full, next, locked, shown, refs>>,
           \A f \in Frame : AtTask(f)' = AtTask(f),
           \A ch \in Ch : /\ emptyQue'[ch] \subseteq emptyQue[ch] \cup fvidFrmQue[ch]
                          /\ fvidFrmQue'[ch] \subseteq fvidFrmQue[ch]
                          /\ emptyQue'[ch] \cap fvidFrmQue'[ch] = {}
    PROVE  FramesInv'
<1>1. Outs' = Outs /\ Outside' = Outside
  BY DEF Outs, Outside
<1>2. \A f \in Frame : Writes(f)' = Writes(f)
  BY DEF Writes
<1>3. \A f \in Frame : ChOf[f] \in Ch
  BY ChannelAssumption
<1>4. ASSUME NEW f \in Frame PROVE FrameInv(f)'
  <2>1. /\ f \in emptyQue'[ChOf[f]] => /\ f \in emptyQue[ChOf[f]] \/ f \in fvidFrmQue[ChOf[f]]
                                       /\ f \notin fvidFrmQue'[ChOf[f]]
        /\ f \in fvidFrmQue'[ChOf[f]] => f \in fvidFrmQue[ChOf[f]]
    BY <1>3
  <2>2. FrameInv(f)
    BY DEF FramesInv
  <2> QED BY <1>1, <1>2, <2>1, <2>2 DEF FrameInv, Org, Dup, One
<1>5. \A ch \in Ch : emptyQue'[ch] \cup fvidFrmQue'[ch] \cup locked'[ch] \subseteq Frames(ch)
  BY DEF FramesInv
<1> QED
  BY <1>1, <1>4, <1>5 DEF FramesInv, Frames

\* A dummy request is queued, when there is none.
LEMMA DummyQueued ==
    ASSUME TypeOK, QueuesInv, ~Deleted, NEW ch \in Ch,
           processQue' = [processQue EXCEPT ![TskOf[ch]] = Append(@, Dummy(ch))],
           UNCHANGED <<batch, taskPc>>
    PROVE  /\ processQue' \in [Tsk -> Seq(Request)] /\ QueuesInv'
           /\ \A r : (r \in AtTasks)' <=> r \in AtTasks \/ r = Dummy(ch)
<1>1. /\ Dummy(ch) \in Request /\ Dummy(ch).ch = ch /\ Dummy(ch).in = None
      /\ TskOf[ch] \in Tsk
  BY ChannelAssumption DEF Dummy, Request
<1>2. Dummy(ch) \notin Own(TskOf[ch]) /\ \A s \in Own(TskOf[ch]) : s.in # None
  BY <1>1, AtTasksAre DEF Deleted
<1> HIDE DEF Dummy
<1> QED BY <1>1, <1>2, QueuePut

LEMMA DeletingData ==
    ASSUME TypeOK, QueuesInv, DataInv, ~Deleted, NEW c, NEW ch \in Ch, NEW F,
           Deleting(c, ch, F), UNCHANGED Quiet, \A d \in Ch : open[d] => open'[d],
           \A d \in Ch : /\ emptyQue'[d] \subseteq emptyQue[d] \cup fvidFrmQue[d]
                         /\ fvidFrmQue'[d] \subseteq fvidFrmQue[d]
                         /\ emptyQue'[d] \cap fvidFrmQue'[d] = {}
    PROVE  /\ DataInv' /\ QueuesInv'
           /\ processQue' \in [Tsk -> Seq(Request)] /\ inQue' \in [Ch -> SUBSET Bit]
           /\ prev' \subseteq Bit /\ openLocal' \in [Ch -> BOOLEAN]
           /\ \A r : (r \in AtTasks)' <=> r \in AtTasks \/ r = Dummy(ch)
<1>1. /\ openLocal' = [openLocal EXCEPT ![ch] = FALSE]
      /\ prev' = prev \cup inQue[ch] /\ inQue' = [inQue EXCEPT ![ch] = {}]
      /\ reqQue' = reqQue - 1
      /\ processQue' = [processQue EXCEPT ![TskOf[ch]] = Append(@, Dummy(ch))]
      /\ UNCHANGED <<full, next, prevFull, refs, locked, shown, doneQue, taskPc, batch>>
  BY DEF Deleting, Quiet, codec
<1>2. /\ openLocal' \in [Ch -> BOOLEAN] /\ openLocal'[ch] = FALSE
      /\ \A d \in Ch \ {ch} : openLocal'[d] = openLocal[d]
      /\ inQue' \in [Ch -> SUBSET Bit] /\ inQue'[ch] = {}
      /\ \A d \in Ch \ {ch} : inQue'[d] = inQue[d]
      /\ prev' \subseteq Bit
  <2>1. openLocal \in [Ch -> BOOLEAN] /\ inQue \in [Ch -> SUBSET Bit] /\ prev \subseteq Bit
    BY DEF TypeOK
  <2> QED BY ONLY <1>1, <2>1, ch \in Ch
<1>3. /\ Dummy(ch) \in Request /\ Dummy(ch).ch = ch
      /\ Dummy(ch).in = None /\ Dummy(ch).out = NoItem /\ TskOf[ch] \in Tsk
  BY ChannelAssumption DEF Dummy, Request
<1>4. \A r \in AtTasks : r.in # None /\ r # Dummy(ch)
  BY <1>3 DEF Deleted
<1>5. /\ processQue' \in [Tsk -> Seq(Request)] /\ QueuesInv'
      /\ \A r : (r \in AtTasks)' <=> r \in AtTasks \/ r = Dummy(ch)
  BY <1>1, DummyQueued
<1>6. CountInv'
  BY <1>1, <1>4, <1>5, CountOne DEF DataInv
<1>7. RequestsInv'
  <2>1. \A r \in AtTasks' : IsReal(r) \/ r = Dummy(r.ch)
    BY <1>3, <1>5 DEF DataInv, RequestsInv
  <2>2. \A r \in AtTasks : r.in # None /\ r.out # NoItem
    <3> SUFFICES ASSUME NEW r \in AtTasks PROVE r.in # None /\ r.out # NoItem
      OBVIOUS
    <3>1. r.in # None /\ IsReal(r)
      BY <1>4 DEF DataInv, RequestsInv, Dummy
    <3> QED BY <3>1, NoneAssumption DEF IsReal, Org, NoItem, Frames
  <2>3. \A r, s \in AtTasks' : r.in = s.in \/ r.out = s.out => r = s
    BY <1>3, <1>5, <2>2 DEF DataInv, RequestsInv
  <2>4. \A r \in AtTasks', s \in doneQue : r.in # s.in
    BY <1>3, <1>5, NoneAssumption DEF DataInv, RequestsInv
  <2> QED BY <1>1, <2>1, <2>3, <2>4 DEF DataInv, RequestsInv, IsReal, Dummy, Org
<1>8. \A b \in Bit : InRequest(b)' = InRequest(b)
  BY <1>1, <1>3, <1>5, NoneAssumption DEF InRequest
<1>9. BuffersInv'
  <2>1. ASSUME NEW b \in Bit PROVE BitAlone(b)'
    <3>1. BitCh[b] \in Ch
      BY ChannelAssumption
    <3>2. b \in inQue'[BitCh[b]] <=> b \in inQue[BitCh[b]] /\ BitCh[b] # ch
      BY <1>2, <3>1
    <3>3. b \in prev' <=> b \in prev \/ (b \in inQue[BitCh[b]] /\ BitCh[b] = ch)
      BY <1>1 DEF DataInv, BuffersInv
    <3> QED BY <1>1, <1>8, <3>2, <3>3 DEF DataInv, BuffersInv, BitAlone
  <2>2. \A d \in Ch : \A b \in inQue'[d] : BitCh[b] = d
    BY <1>2 DEF DataInv, BuffersInv
  <2> QED BY <2>1, <2>2 DEF BuffersInv
<1>10. FramesInv'
  <2>1. \A f \in Frame : NoItem # Org(f)
    BY NoneAssumption DEF NoItem, Org
  <2>2. \A f \in Frame : AtTask(f)' = AtTask(f)
    BY <1>3, <1>5, <2>1 DEF AtTask, Org
  <2> QED BY <1>1, <2>2, HeadersMove DEF DataInv
<1>11. ChannelsInv'
  <2>1. ASSUME NEW d \in Ch PROVE ChannelInv(d)'
    <3>1. CASE d = ch
      <4>1. \A r : (r \in AtTasks)' /\ r.ch = ch =>
               IF r.in = None THEN ~openLocal'[ch] ELSE open'[ch]
        BY <1>2, <1>3, <1>5 DEF DataInv, ChannelsInv, ChannelInv
      <4> QED BY <1>1, <1>2, <3>1, <4>1 DEF DataInv, ChannelsInv, ChannelInv
    <3>2. CASE d # ch
      <4>1. \A r : (r \in AtTasks)' /\ r.ch = d => r \in AtTasks
        BY <1>3, <1>5, <3>2
      <4> QED BY <1>1, <1>2, <3>2, <4>1 DEF DataInv, ChannelsInv, ChannelInv
    <3> QED BY <3>1, <3>2
  <2> QED BY <2>1 DEF ChannelsInv
<1> QED
  BY <1>2, <1>5, <1>6, <1>7, <1>9, <1>10, <1>11 DEF DataInv

\* The caller of the command at hand waits for nothing else.
LEMMA NotDeleted ==
    ASSUME CallsInv, NEW c \in Caller, c \in Range(mbx)
    PROVE  ~Deleted
BY DEF CallsInv

LEMMA AskedFor ==
    ASSUME TypeOK, CallsInv, NEW c \in Caller, NEW cmd, Ask1(c, cmd)
    PROVE  c \in Range(mbx) /\ control[c].ch \in Ch /\ ~Deleted
<1>1. mbx \in Seq(Cmd) /\ mbx # <<>> /\ Head(mbx) = c /\ control[c] \in Control
  BY DEF TypeOK, Ask1, Head1
<1>2. c \in Range(mbx)
  BY <1>1, RangeOf
<1>3. control[c].ch \in Ch
  BY <1>1 DEF Control
<1> QED
  BY <1>2, <1>3, NotDeleted

LEMMA DeleteChData ==
    ASSUME TypeOK, QueuesInv, DataInv, CallsInv, NEW c \in Caller, RecvDeleteCh(c)
    PROVE  /\ DataInv' /\ QueuesInv'
           /\ processQue' \in [Tsk -> Seq(Request)] /\ inQue' \in [Ch -> SUBSET Bit]
           /\ prev' \subseteq Bit /\ openLocal' \in [Ch -> BOOLEAN]
<1>1. control[c].ch \in Ch /\ ~Deleted
  BY AskedFor DEF RecvDeleteCh
<1>2. /\ Deleting(c, control[c].ch, outFrames[control[c].ch])
      /\ UNCHANGED <<Quiet, emptyQue, fvidFrmQue, open>>
  BY DEF RecvDeleteCh
<1>3. UNCHANGED Quiet /\ UNCHANGED emptyQue /\ UNCHANGED fvidFrmQue /\ UNCHANGED open
  BY <1>2
<1>4. \A d \in Ch : /\ emptyQue'[d] \subseteq emptyQue[d] \cup fvidFrmQue[d]
                    /\ fvidFrmQue'[d] \subseteq fvidFrmQue[d]
                    /\ emptyQue'[d] \cap fvidFrmQue'[d] = {}
  <2>1. \A d \in Ch : emptyQue[d] \cap fvidFrmQue[d] = {}
    BY DEF DataInv, FramesInv, FrameInv, Frames
  <2> QED BY <1>3, <2>1
<1> QED
  BY <1>1, <1>2, <1>3, <1>4, DeletingData
\* A channel that is closed gets headers, or what there was is deleted again.
LEMMA CreateChData ==
    ASSUME TypeOK, QueuesInv, DataInv, CallsInv, NEW c \in Caller, RecvCreateCh(c)
    PROVE  /\ DataInv' /\ QueuesInv'
           /\ processQue' \in [Tsk -> Seq(Request)] /\ inQue' \in [Ch -> SUBSET Bit]
           /\ prev' \subseteq Bit
           /\ openLocal' \in [Ch -> BOOLEAN] /\ open' \in [Ch -> BOOLEAN]
           /\ outFrames' \in [Ch -> SUBSET Frame] /\ emptyQue' \in [Ch -> SUBSET Frame]
           /\ fvidFrmQue' \in [Ch -> SUBSET Frame] /\ invalid' \subseteq Frame
<1> DEFINE ch == control[c].ch
<1>1. ch \in Ch /\ ~Deleted
  BY AskedFor DEF RecvCreateCh
<1> HIDE DEF ch
<1>2. /\ UNCHANGED Quiet
      /\ processQue \in [Tsk -> Seq(Request)] /\ inQue \in [Ch -> SUBSET Bit]
      /\ prev \subseteq Bit /\ invalid \subseteq Frame
      /\ openLocal \in [Ch -> BOOLEAN] /\ open \in [Ch -> BOOLEAN]
      /\ outFrames \in [Ch -> SUBSET Frame] /\ emptyQue \in [Ch -> SUBSET Frame]
      /\ fvidFrmQue \in [Ch -> SUBSET Frame]
  BY DEF TypeOK, RecvCreateCh
<1>3. UNCHANGED <<full, next, prevFull, refs, locked, shown, doneQue, taskPc, batch>>
  BY <1>2 DEF Quiet, codec
<1>4. CASE open[ch] /\ UNCHANGED <<prev, inQue, emptyQue, fvidFrmQue, invalid, reqQue,
                                   processQue, chans, pMsgTmp>>
  <2>1. UNCHANGED <<prev, inQue, emptyQue, fvidFrmQue, invalid, reqQue, processQue,
                    open, openLocal, outFrames>>
    BY <1>4 DEF chans
  <2>2. QueuesInv' /\ AtTasks' = AtTasks
    BY <1>3, <2>1, QueueStill
  <2> QED BY <1>2, <1>3, <2>1, <2>2, DataStay
<1>5. ASSUME NEW S \in SUBSET fvidFrmQue[ch],
             outFrames' = [outFrames EXCEPT ![ch] = S],
             emptyQue' = [emptyQue EXCEPT ![ch] = S],
             fvidFrmQue' = [fvidFrmQue EXCEPT ![ch] = @ \ S],
             open' = [open EXCEPT ![ch] = TRUE],
             openLocal' = [openLocal EXCEPT ![ch] = TRUE],
             UNCHANGED <<prev, inQue, invalid, reqQue, processQue, pMsgTmp>>
      PROVE  /\ DataInv' /\ QueuesInv' /\ openLocal' \in [Ch -> BOOLEAN]
             /\ open' \in [Ch -> BOOLEAN] /\ outFrames' \in [Ch -> SUBSET Frame]
             /\ emptyQue' \in [Ch -> SUBSET Frame] /\ fvidFrmQue' \in [Ch -> SUBSET Frame]
  <2>1. QueuesInv' /\ AtTasks' = AtTasks
    BY <1>3, <1>5, QueueStill
  <2>2. /\ openLocal' \in [Ch -> BOOLEAN] /\ open' \in [Ch -> BOOLEAN]
        /\ outFrames' \in [Ch -> SUBSET Frame] /\ emptyQue' \in [Ch -> SUBSET Frame]
        /\ fvidFrmQue' \in [Ch -> SUBSET Frame]
        /\ emptyQue'[ch] = S /\ fvidFrmQue'[ch] = fvidFrmQue[ch] \ S
        /\ \A d \in Ch \ {ch} : /\ emptyQue'[d] = emptyQue[d] /\ fvidFrmQue'[d] = fvidFrmQue[d]
                                /\ open'[d] = open[d] /\ openLocal'[d] = openLocal[d]
        /\ open'[ch] = TRUE /\ openLocal'[ch] = TRUE
    BY <1>1, <1>2, <1>5
  <2>3. \A d \in Ch : /\ emptyQue'[d] \subseteq emptyQue[d] \cup fvidFrmQue[d]
                      /\ fvidFrmQue'[d] \subseteq fvidFrmQue[d]
                      /\ emptyQue'[d] \cap fvidFrmQue'[d] = {}
    <3>1. \A d \in Ch : emptyQue[d] \cap fvidFrmQue[d] = {}
      BY DEF DataInv, FramesInv, FrameInv, Frames
    <3> QED BY <1>1, <2>2, <3>1
  <2>4. \A f \in Frame : AtTask(f)' = AtTask(f)
    BY <2>1 DEF AtTask, Org
  <2>5. FramesInv'
    BY <1>3, <2>3, <2>4, HeadersMove DEF DataInv
  <2>6. ChannelsInv'
    <3>1. ASSUME NEW d \in Ch PROVE ChannelInv(d)'
      <4>1. CASE d = ch
        BY <1>1, <1>3, <1>5, <2>1, <2>2, <4>1 DEF DataInv, ChannelsInv, ChannelInv, Deleted
      <4>2. CASE d # ch
        BY <1>3, <1>5, <2>1, <2>2, <4>2 DEF DataInv, ChannelsInv, ChannelInv
      <4> QED BY <4>1, <4>2
    <3> QED BY <3>1 DEF ChannelsInv
  <2>7. \A b \in Bit : InRequest(b)' = InRequest(b)
    BY <1>3, <2>1 DEF InRequest
  <2>8. RequestsInv' /\ CountInv' /\ BuffersInv'
    BY <1>3, <1>5, <2>1, <2>7, RequestsStay, CountStay, BuffersStay DEF DataInv
  <2> QED BY <2>1, <2>2, <2>5, <2>6, <2>8 DEF DataInv
<1>6. ASSUME NEW S \in SUBSET fvidFrmQue[ch], NEW K \in SUBSET S,
             open' \in {open, [open EXCEPT ![ch] = TRUE]},
             outFrames' = [outFrames EXCEPT ![ch] = K],
             emptyQue' = [emptyQue EXCEPT ![ch] = K],
             fvidFrmQue' = [fvidFrmQue EXCEPT ![ch] = @ \ S],
             Deleting(c, ch, K)
      PROVE  /\ DataInv' /\ QueuesInv'
             /\ processQue' \in [Tsk -> Seq(Request)] /\ inQue' \in [Ch -> SUBSET Bit]
             /\ prev' \subseteq Bit /\ openLocal' \in [Ch -> BOOLEAN]
             /\ open' \in [Ch -> BOOLEAN]
             /\ outFrames' \in [Ch -> SUBSET Frame] /\ emptyQue' \in [Ch -> SUBSET Frame]
             /\ fvidFrmQue' \in [Ch -> SUBSET Frame] /\ invalid' \subseteq Frame
  <2>1. /\ open' \in [Ch -> BOOLEAN] /\ \A d \in Ch : open[d] => open'[d]
        /\ outFrames' \in [Ch -> SUBSET Frame] /\ emptyQue' \in [Ch -> SUBSET Frame]
        /\ fvidFrmQue' \in [Ch -> SUBSET Frame]
        /\ emptyQue'[ch] = K /\ fvidFrmQue'[ch] = fvidFrmQue[ch] \ S
        /\ \A d \in Ch \ {ch} : emptyQue'[d] = emptyQue[d] /\ fvidFrmQue'[d] = fvidFrmQue[d]
    BY <1>1, <1>2, <1>6
  <2>2. \A d \in Ch : /\ emptyQue'[d] \subseteq emptyQue[d] \cup fvidFrmQue[d]
                      /\ fvidFrmQue'[d] \subseteq fvidFrmQue[d]
                      /\ emptyQue'[d] \cap fvidFrmQue'[d] = {}
    <3>1. \A d \in Ch : emptyQue[d] \cap fvidFrmQue[d] = {}
      BY DEF DataInv, FramesInv, FrameInv, Frames
    <3> QED BY <1>1, <1>6, <2>1, <3>1
  <2>3. invalid' \subseteq Frame
    <3>1. invalid' = invalid \cup K
      BY <1>6 DEF Deleting
    <3> QED BY <1>1, <1>2, <1>6, <3>1
  <2>4. UNCHANGED Quiet
    BY <1>2
  <2> QED BY <1>1, <1>6, <2>1, <2>2, <2>3, <2>4, DeletingData
<1>7. \/ open[ch] /\ UNCHANGED <<prev, inQue, emptyQue, fvidFrmQue, invalid, reqQue,
                                 processQue, chans, pMsgTmp>>
      \/ \E S \in SUBSET fvidFrmQue[ch] :
            /\ outFrames' = [outFrames EXCEPT ![ch] = S]
            /\ emptyQue' = [emptyQue EXCEPT ![ch] = S]
            /\ fvidFrmQue' = [fvidFrmQue EXCEPT ![ch] = @ \ S]
            /\ open' = [open EXCEPT ![ch] = TRUE]
            /\ openLocal' = [openLocal EXCEPT ![ch] = TRUE]
            /\ UNCHANGED <<prev, inQue, invalid, reqQue, processQue, pMsgTmp>>
      \/ \E S \in SUBSET fvidFrmQue[ch] : \E K \in SUBSET S :
            /\ open' \in {open, [open EXCEPT ![ch] = TRUE]}
            /\ outFrames' = [outFrames EXCEPT ![ch] = K]
            /\ emptyQue' = [emptyQue EXCEPT ![ch] = K]
            /\ fvidFrmQue' = [fvidFrmQue EXCEPT ![ch] = @ \ S]
            /\ Deleting(c, ch, K)
  BY DEF RecvCreateCh, ch
<1> QED
  BY <1>2, <1>4, <1>5, <1>6, <1>7
\* The dummy request comes through: the frames of the codec lose their last
\* reference or go on with the next link, and the empty headers leave.
\* What becomes of the channel, of its frames and of the others.
Flushed(ch) ==
    /\ Dummy(ch) \in AtTasks /\ ~openLocal[ch]
    /\ \A r : (r \in AtTasks)' <=> r \in AtTasks /\ r # Dummy(ch)
    /\ emptyQue'[ch] = {} /\ open'[ch] = FALSE /\ openLocal'[ch] = FALSE
    /\ \A f \in Frames(ch) :
         LET back == (f \in locked[ch] /\ refs[f] = 1) \/ f \in emptyQue[ch] IN
         /\ refs'[f] = refs[f] - One(f \in locked[ch])
         /\ f \in fvidFrmQue'[ch] <=> f \in fvidFrmQue[ch] \/ back
         /\ f \in invalid' <=> f \in invalid /\ ~back
    /\ \A f \in Frame : ChOf[f] # ch => /\ refs'[f] = refs[f]
                                        /\ f \in invalid' <=> f \in invalid
    /\ \A d \in Ch \ {ch} : /\ emptyQue'[d] = emptyQue[d] /\ fvidFrmQue'[d] = fvidFrmQue[d]
                            /\ open'[d] = open[d] /\ openLocal'[d] = openLocal[d]
LEMMA FlushData ==
    ASSUME TypeOK, QueuesInv, DataInv, NEW t \in Tsk, Flush(t)
    PROVE  /\ DataInv' /\ QueuesInv' /\ Deleted /\ ~Deleted'
           /\ batch' \in [Tsk -> Seq(Request)]
           /\ taskPc' \in [Tsk -> {"get", "codec", "flush", "end"}]
           /\ refs' \in [Frame -> Nat] /\ invalid' \subseteq Frame
           /\ emptyQue' \in [Ch -> SUBSET Frame] /\ fvidFrmQue' \in [Ch -> SUBSET Frame]
           /\ locked' \in [Ch -> SUBSET Frame] /\ shown' \in [Ch -> SUBSET Frame]
           /\ inUse' \in [Ch -> Frame \cup {None}]
           /\ open' \in [Ch -> BOOLEAN] /\ openLocal' \in [Ch -> BOOLEAN]
           /\ \E ch \in Ch : Flushed(ch)
<1>1. taskPc[t] = "flush" /\ QueueInv(t)
  BY DEF Flush, QueuesInv
<1>2. PICK ch \in Ch : /\ batch[t] = <<Dummy(ch)>>
                       /\ \A r \in Range(processQue[t]) : r.ch # ch
  BY <1>1 DEF QueueInv
<1>3. /\ batch[t][1].ch = ch /\ Range(batch[t]) = {Dummy(ch)}
      /\ Dummy(ch).ch = ch /\ Dummy(ch).in = None /\ Dummy(ch).out = NoItem
  <2>1. batch[t][1] = Dummy(ch)
    BY <1>2
  <2> QED BY <1>2, <2>1, Single DEF Dummy
<1> DEFINE mine == IF open[ch] THEN locked[ch] ELSE {}
           gone == Gone({Org(f) : f \in mine}, refs) \cup emptyQue[ch]
<1>4. /\ refs' = [f \in Frame |-> refs[f] - IF f \in mine THEN 1 ELSE 0]
      /\ emptyQue' = [emptyQue EXCEPT ![ch] = {}]
      /\ fvidFrmQue' = [fvidFrmQue EXCEPT ![ch] = @ \cup gone]
      /\ invalid' = invalid \ gone
      /\ locked' = [locked EXCEPT ![ch] = {}] /\ shown' = [shown EXCEPT ![ch] = {}]
      /\ inUse' = [inUse EXCEPT ![ch] = None]
      /\ open' = [open EXCEPT ![ch] = FALSE] /\ openLocal' = [openLocal EXCEPT ![ch] = FALSE]
      /\ reqQue' = reqQue + 1 /\ batch' = [batch EXCEPT ![t] = <<>>]
      /\ taskPc' = [taskPc EXCEPT ![t] = Again]
      /\ UNCHANGED <<prev, prevFull, full, next, inQue, processQue, doneQue>>
  BY <1>3 DEF Flush, outer
<1>5. /\ batch' \in [Tsk -> Seq(Request)]
      /\ taskPc' \in [Tsk -> {"get", "codec", "flush", "end"}]
      /\ QueuesInv' /\ \A r : (r \in AtTasks)' <=> r \in AtTasks /\ r # Dummy(ch)
  BY <1>3, <1>4, QueueEnd
<1>6. Dummy(ch) \in AtTasks
  BY <1>3, AtTasksAre DEF Own
<1>7. Deleted /\ ~Deleted'
  <2>1. \A r \in AtTasks : r.in = None => r = Dummy(ch)
    BY <1>3, <1>6 DEF DataInv, RequestsInv
  <2> QED BY <1>3, <1>5, <1>6, <2>1 DEF Deleted
<1>8. \A r : (r \in AtTasks)' => r.ch # ch
  <2> SUFFICES ASSUME NEW r, r \in AtTasks, r # Dummy(ch), r.ch = ch PROVE FALSE
    BY <1>5
  <2>1. PICK u \in Tsk : r \in Own(u)
    BY AtTasksAre
  <2>2. u = t
    <3>1. TskOf[ch] = u
      BY <2>1 DEF QueuesInv, QueueInv
    <3>2. TskOf[ch] = t
      BY <1>1, <1>3 DEF QueueInv, Own
    <3> QED BY <3>1, <3>2
  <2> QED BY <1>2, <1>3, <2>1, <2>2 DEF Own
<1>9. mine = locked[ch] /\ ~openLocal[ch] /\ inQue[ch] = {}
  BY <1>3, <1>6 DEF DataInv, ChannelsInv, ChannelInv
<1>10. mine \subseteq Frames(ch) /\ emptyQue[ch] \subseteq Frames(ch)
  BY <1>9 DEF DataInv, FramesInv
<1>11. refs \in [Frame -> Nat] /\ \A f \in Frame : refs[f] \in Nat
  <2>1. refs \in [Frame -> 0 .. 2]
    BY DEF TypeOK
  <2> QED BY <2>1
<1>12. \A f \in mine : refs[f] > 0
  BY <1>9, <1>10, <1>11 DEF DataInv, FramesInv, FrameInv, Writes, One, Frames
<1>13. ASSUME NEW f \in Frame
       PROVE  f \in gone <=> (f \in mine /\ refs[f] = 1) \/ f \in emptyQue[ch]
  <2> DEFINE S == {Org(g) : g \in mine}
  <2>1. S \subseteq Item
    <3>1. \A g \in mine : g \in Frame
      BY <1>10 DEF Frames
    <3>2. \A g \in Frame : Org(g) \in Item
      BY DEF Org, Item
    <3> HIDE DEF mine
    <3> QED BY <3>1, <3>2
  <2>2. /\ Org(f) \in S <=> f \in mine
        /\ Dup(f) \notin S
    BY DEF Org, Dup
  <2>3. Cardinality({x \in S : x[1] = f}) = One(Org(f) \in S) + One(Dup(f) \in S)
    <3> HIDE DEF S
    <3> QED BY <2>1, ItemsOf
  <2>4. f \in Gone(S, refs) <=> refs[f] > 0 /\ refs[f] = One(f \in mine)
    <3>1. One(Org(f) \in S) = One(f \in mine) /\ One(Dup(f) \in S) = 0
      BY <2>2 DEF One
    <3>2. One(f \in mine) \in Nat
      BY DEF One
    <3> QED BY <2>3, <3>1, <3>2 DEF Gone
  <2>5. refs[f] > 0 /\ refs[f] = One(f \in mine) <=> f \in mine /\ refs[f] = 1
    BY <1>11 DEF One
  <2> QED BY <2>4, <2>5
<1>14. gone \subseteq Frames(ch)
  <2>1. gone \subseteq Frame
    BY <1>10 DEF Gone, Frames
  <2> QED BY <1>10, <1>13, <2>1
<1> HIDE DEF gone, mine
<1>15. /\ refs' \in [Frame -> Nat]
       /\ \A f \in Frame : refs'[f] = refs[f] - One(f \in mine)
  <2>1. \A f \in Frame : refs[f] - (IF f \in mine THEN 1 ELSE 0) \in Nat
    BY <1>11, <1>12
  <2> QED BY <1>4, <1>11, <2>1 DEF One
<1>16. /\ invalid' \subseteq Frame
       /\ emptyQue' \in [Ch -> SUBSET Frame] /\ fvidFrmQue' \in [Ch -> SUBSET Frame]
       /\ locked' \in [Ch -> SUBSET Frame] /\ shown' \in [Ch -> SUBSET Frame]
       /\ inUse' \in [Ch -> Frame \cup {None}]
       /\ open' \in [Ch -> BOOLEAN] /\ openLocal' \in [Ch -> BOOLEAN]
       /\ emptyQue'[ch] = {} /\ fvidFrmQue'[ch] = fvidFrmQue[ch] \cup gone
       /\ locked'[ch] = {} /\ shown'[ch] = {}
       /\ open'[ch] = FALSE /\ openLocal'[ch] = FALSE
       /\ \A d \in Ch \ {ch} : /\ emptyQue'[d] = emptyQue[d] /\ fvidFrmQue'[d] = fvidFrmQue[d]
                               /\ locked'[d] = locked[d] /\ shown'[d] = shown[d]
                               /\ open'[d] = open[d] /\ openLocal'[d] = openLocal[d]
  <2>1. /\ emptyQue \in [Ch -> SUBSET Frame] /\ fvidFrmQue \in [Ch -> SUBSET Frame]
        /\ locked \in [Ch -> SUBSET Frame] /\ shown \in [Ch -> SUBSET Frame]
        /\ inUse \in [Ch -> Frame \cup {None}] /\ invalid \subseteq Frame
        /\ open \in [Ch -> BOOLEAN] /\ openLocal \in [Ch -> BOOLEAN]
    BY DEF TypeOK
  <2>2. gone \subseteq Frame
    BY <1>14 DEF Frames
  <2> QED BY ONLY <1>4, <2>1, <2>2, ch \in Ch
<1>17. FramesInv'
  <2>1. Outs' = Outs /\ Outside' = Outside
    BY <1>4 DEF Outs, Outside
  <2>2. \A f \in Frame : NoItem # Org(f)
    BY NoneAssumption DEF NoItem, Org
  <2>3. \A f \in Frame : AtTask(f)' <=> AtTask(f)
    BY <1>3, <1>5, <2>2 DEF AtTask, Org
  <2>4. ASSUME NEW f \in Frame PROVE FrameInv(f)'
    <3>0. FrameInv(f) /\ ChOf[f] \in Ch
      BY ChannelAssumption DEF DataInv, FramesInv
    <3>1. CASE ChOf[f] = ch
      <4>1. ~AtTask(f) /\ ~AtTask(f)'
        <5>1. ~AtTask(f)'
          <6> SUFFICES ASSUME NEW r, (r \in AtTasks)', r.out = Org(f) PROVE FALSE
            BY DEF AtTask, Org
          <6>1. r \in AtTasks /\ r.ch # ch /\ r # Dummy(ch)
            BY <1>5, <1>8
          <6>2. IsReal(r)
            BY <6>1, <2>2 DEF DataInv, RequestsInv, Dummy
          <6>3. \A g : Org(g) = Org(f) => g = f
            BY DEF Org
          <6> QED BY <3>1, <6>1, <6>2, <6>3 DEF IsReal, Frames
        <5> QED BY <2>3, <5>1
      <4>2. ~Writes(f)' /\ (Writes(f) <=> f \in mine)
        BY <1>9, <1>16, <3>1, <4>1 DEF Writes
      <4>3. refs'[f] = One(Writes(f)') + One(Org(f) \in Outside) + One(Dup(f) \in Outside)
        <5>1. refs'[f] = refs[f] - One(f \in mine) /\ One(f \in mine) = One(Writes(f))
              /\ One(Writes(f)') = 0
          BY <1>15, <4>2 DEF One
        <5> QED BY <3>0, <5>1 DEF FrameInv, One
      <4>4. refs'[f] > 0 => f \notin fvidFrmQue'[ch]
        <5>1. f \in mine /\ refs[f] = 1 => refs'[f] = 0
          BY <1>15 DEF One
        <5>2. f \in emptyQue[ch] \/ f \in fvidFrmQue[ch] => ~(refs[f] > 0)
          BY <3>0, <3>1 DEF FrameInv
        <5>3. refs'[f] > 0 => refs[f] > 0 /\ ~(refs'[f] = 0)
          BY <1>11, <1>15 DEF One
        <5> QED BY <1>13, <1>16, <5>1, <5>2, <5>3
      <4> QED BY <1>16, <2>1, <3>1, <4>1, <4>2, <4>3, <4>4 DEF FrameInv, Org, Dup, One
    <3>2. CASE ChOf[f] # ch
      <4>1. f \notin mine
        BY <1>10, <3>2 DEF Frames
      <4>2. refs'[f] = refs[f]
        BY <1>11, <1>15, <4>1 DEF One
      <4>3. Writes(f)' <=> Writes(f)
        BY <1>16, <2>3, <3>0, <3>2 DEF Writes
      <4> QED BY <1>16, <2>1, <2>3, <3>0, <3>2, <4>2, <4>3 DEF FrameInv, Org, Dup, One
    <3> QED BY <3>1, <3>2
  <2>5. \A d \in Ch : emptyQue'[d] \cup fvidFrmQue'[d] \cup locked'[d] \subseteq Frames(d)
    BY <1>14, <1>16 DEF DataInv, FramesInv
  <2> QED BY <1>4, <2>1, <2>4, <2>5 DEF DataInv, FramesInv, Frames
<1>18. ChannelsInv'
  <2>1. ASSUME NEW d \in Ch PROVE ChannelInv(d)'
    <3>1. CASE d = ch
      BY <1>4, <1>8, <1>9, <1>16, <3>1 DEF ChannelInv
    <3>2. CASE d # ch
      BY <1>4, <1>5, <1>16, <3>2 DEF DataInv, ChannelsInv, ChannelInv
    <3> QED BY <3>1, <3>2
  <2> QED BY <2>1 DEF ChannelsInv
<1>19. RequestsInv'
  BY <1>4, <1>5 DEF DataInv, RequestsInv, IsReal, Dummy, Frames, Org
<1>20. BuffersInv'
  <2>1. \A b \in Bit : InRequest(b)' = InRequest(b)
    BY <1>3, <1>4, <1>5, NoneAssumption DEF InRequest
  <2> QED BY <1>4, <2>1, BuffersStay DEF DataInv
<1>21. CountInv'
  <2>1. AtTasks' = AtTasks \ {Dummy(ch)}
    BY <1>5
  <2>2. /\ IsFiniteSet(AtTasks \ {Dummy(ch)})
        /\ Cardinality(AtTasks \ {Dummy(ch)}) = Cardinality(AtTasks) - 1
    <3> HIDE DEF Dummy
    <3> QED BY <1>6, FS_RemoveElement DEF DataInv, CountInv
  <2>3. Cardinality(AtTasks) \in Nat /\ Cardinality(doneQue) \in Nat /\ reqQue \in Nat
    BY FS_CardinalityType DEF DataInv, CountInv, TypeOK
  <2>4. NumReq = reqQue' + Cardinality(AtTasks') + Cardinality(doneQue)
    BY <1>4, <2>1, <2>2, <2>3 DEF DataInv, CountInv
  <2> QED BY <1>4, <2>1, <2>2, <2>4 DEF DataInv, CountInv
<1>22. Flushed(ch)
  <2>1. ASSUME NEW f \in Frames(ch)
        PROVE  LET back == (f \in locked[ch] /\ refs[f] = 1) \/ f \in emptyQue[ch] IN
               /\ refs'[f] = refs[f] - One(f \in locked[ch])
               /\ f \in fvidFrmQue'[ch] <=> f \in fvidFrmQue[ch] \/ back
               /\ f \in invalid' <=> f \in invalid /\ ~back
    <3>1. f \in Frame /\ refs'[f] = refs[f] - One(f \in locked[ch])
      BY <1>9, <1>15, <2>1 DEF Frames
    <3>2. f \in gone <=> (f \in locked[ch] /\ refs[f] = 1) \/ f \in emptyQue[ch]
      BY <1>9, <1>13, <3>1
    <3> QED BY <1>4, <1>16, <3>1, <3>2
  <2>2. ASSUME NEW f \in Frame, ChOf[f] # ch
        PROVE  refs'[f] = refs[f] /\ (f \in invalid' <=> f \in invalid)
    <3>1. f \notin mine /\ f \notin gone
      BY <1>10, <1>14, <2>2 DEF Frames
    <3>2. refs'[f] = refs[f]
      BY <1>11, <1>15, <3>1 DEF One
    <3> QED BY <1>4, <3>1, <3>2
  <2> QED BY <1>5, <1>6, <1>9, <1>16, <2>1, <2>2 DEF Flushed, Dummy, One
<1> QED
  BY <1>5, <1>7, <1>15, <1>16, <1>17, <1>18, <1>19, <1>20, <1>21, <1>22 DEF DataInv
-----------------------------------------------------------------------------
(* The codec returns.                                                       *)

LEMMA AtMostOne ==
    ASSUME NEW S, IsFiniteSet(S), Cardinality(S) <= 1, NEW x \in S, NEW y \in S
    PROVE  x = y
<1> SUFFICES ASSUME x # y PROVE FALSE
  OBVIOUS
<1>1. /\ IsFiniteSet(S \ {x}) /\ Cardinality(S \ {x}) = Cardinality(S) - 1
      /\ y \in S \ {x}
  BY FS_RemoveElement
<1>2. /\ IsFiniteSet((S \ {x}) \ {y})
      /\ Cardinality((S \ {x}) \ {y}) = Cardinality(S \ {x}) - 1
  BY <1>1, FS_RemoveElement
<1> QED
  BY <1>1, <1>2, FS_CardinalityType

\* The requests of a batch, their channels and their frames.
LEMMA CodecBatch ==
    ASSUME TypeOK, QueuesInv, DataInv, NEW t \in Tsk, taskPc[t] = "codec"
    PROVE  /\ \A r \in Range(batch[t]) : /\ r \in AtTasks /\ r \in Request /\ IsReal(r)
                                         /\ r.ch \in Ch /\ open[r.ch]
           /\ \A r, s \in Range(batch[t]) : r.ch = s.ch => r = s
           /\ Channels(t) = {r.ch : r \in Range(batch[t])}
           /\ \A f : f \in New(t) <=> f \in Frame /\ \E r \in Range(batch[t]) : r.out = Org(f)
           /\ \A f \in New(t) : AtTask(f) /\ ChOf[f] \in Channels(t)
           /\ \A f \in Held(t) : f \in Frame /\ Writes(f) /\ ChOf[f] \in Channels(t)
<1> DEFINE B == Range(batch[t])
<1>1. batch[t] \in Seq(Request) /\ B \subseteq Request
  BY RangeOf DEF TypeOK
<1>2. /\ \A r \in B : r.in # None
      /\ \A i, j \in DOMAIN batch[t] : batch[t][i].ch = batch[t][j].ch => i = j
  BY DEF QueuesInv, QueueInv
<1>3. ASSUME NEW r \in B
      PROVE  /\ r \in AtTasks /\ r \in Request /\ IsReal(r)
             /\ r.ch \in Ch /\ open[r.ch]
  <2>1. r \in AtTasks /\ r \in Request
    BY <1>1, AtTasksAre DEF Own
  <2>2. IsReal(r)
    BY <1>2, <2>1 DEF DataInv, RequestsInv, Dummy
  <2>3. r.ch \in Ch
    BY <2>1 DEF Request
  <2> QED BY <1>2, <2>1, <2>2, <2>3 DEF DataInv, ChannelsInv, ChannelInv
<1>4. \A r, s \in B : r.ch = s.ch => r = s
  BY <1>2 DEF Range
<1>5. Channels(t) = {r.ch : r \in B}
  BY DEF Channels, Range
<1>6. New(t) = {r.out[1] : r \in B}
  BY DEF New, Range
<1> HIDE DEF B
<1>7. \A f : f \in New(t) <=> f \in Frame /\ \E r \in B : r.out = Org(f)
  <2>1. \A f : Org(f)[1] = f
    BY DEF Org
  <2>2. \A r \in B : r.out[1] \in Frame /\ r.out = Org(r.out[1])
    BY <1>3, <2>1 DEF IsReal, Frames
  <2> HIDE DEF Org
  <2> QED BY <1>6, <2>1, <2>2
<1>8. ASSUME NEW f \in New(t) PROVE AtTask(f) /\ ChOf[f] \in Channels(t)
  <2>1. PICK r \in B : r.out = Org(f)
    BY <1>7
  <2>2. PICK g \in Frames(r.ch) : r.out = Org(g)
    BY <1>3 DEF IsReal
  <2>3. g = f
    BY <2>1, <2>2 DEF Org
  <2>4. ChOf[f] = r.ch
    BY <2>2, <2>3 DEF Frames
  <2> QED BY <1>3, <1>5, <2>1, <2>4 DEF AtTask
<1>9. ASSUME NEW f \in Held(t)
      PROVE  f \in Frame /\ Writes(f) /\ ChOf[f] \in Channels(t)
  <2>1. CASE f \in New(t)
    BY <1>7, <1>8, <2>1 DEF Writes
  <2>2. CASE \E ch \in Channels(t) : f \in locked[ch]
    <3>1. PICK ch \in Channels(t) : f \in locked[ch]
      BY <2>2
    <3>2. ch \in Ch
      BY <1>3, <1>5
    <3>3. f \in Frame /\ ChOf[f] = ch
      BY <3>1, <3>2 DEF DataInv, FramesInv, Frames
    <3> QED BY <3>1, <3>3 DEF Writes
  <2> QED BY <1>9, <2>1, <2>2 DEF Held
<1> QED
  BY <1>3, <1>4, <1>5, <1>7, <1>8, <1>9 DEF B

\* At most one frame of a channel is put out, and none that was before: nobody
\* has it or a duplicate of it yet.
LEMMA ShownFrames ==
    ASSUME TypeOK, QueuesInv, DataInv, NEW t \in Tsk, taskPc[t] = "codec",
           NEW free \in SUBSET Held(t), NEW show \in SUBSET Held(t), NEW use,
           Outcome(t, free, show, use)
    PROVE  /\ \A f, g \in show : ChOf[f] = ChOf[g] => f = g
           /\ \A f \in show : /\ Org(f) \notin Outside /\ Dup(f) \notin Outside
                              /\ refs[f] = 1
<1>1. \A f \in Held(t) : f \in Frame /\ Writes(f) /\ ChOf[f] \in Channels(t)
  BY CodecBatch
<1>2. \A ch \in Channels(t) : Cardinality(show \cap Frames(ch)) <= 1 /\ show \cap shown[ch] = {}
  BY DEF Outcome
<1>3. ASSUME NEW f \in show, NEW g \in show, ChOf[f] = ChOf[g] PROVE f = g
  <2>1. f \in show \cap Frames(ChOf[f]) /\ g \in show \cap Frames(ChOf[f])
    BY <1>1, <1>3 DEF Frames
  <2>2. IsFiniteSet(show \cap Frames(ChOf[f]))
    <3>1. show \cap Frames(ChOf[f]) \subseteq Frame
      BY DEF Frames
    <3> QED BY <3>1, FS_Subset, ChannelAssumption
  <2>3. Cardinality(show \cap Frames(ChOf[f])) <= 1
    BY <1>1, <1>2
  <2> QED BY <2>1, <2>2, <2>3, AtMostOne
<1>4. ASSUME NEW f \in show
      PROVE  Org(f) \notin Outside /\ Dup(f) \notin Outside /\ refs[f] = 1
  <2>1. f \in Frame /\ Writes(f) /\ f \notin shown[ChOf[f]] /\ FrameInv(f)
    BY <1>1, <1>2 DEF DataInv, FramesInv
  <2>2. Org(f) \notin Outside /\ Dup(f) \notin Outside
    BY <2>1 DEF FrameInv, Writes
  <2> QED BY <2>1, <2>2 DEF FrameInv, One
<1> QED
  BY <1>3, <1>4
\* What Decode puts out for each channel, and the requests that are done.
PutOut(free, g) == <<g, g \notin free>>
PutNow(free, show) == {PutOut(free, g) : g \in show}
Item1(free, show, ch) ==
    LET Put == {f \in show : ChOf[f] = ch}
    IN  IF Put = {} THEN NoItem
        ELSE CHOOSE x \in Item : x[1] \in Put /\ x[2] = (x[1] \notin free)
Finished(r, free, show) == [r EXCEPT !.out = Item1(free, show, r.ch)]
DoneNow(t, free, show) == {Finished(r, free, show) : r \in Range(batch[t])}
Early(t) == {f \in New(t) : inUse[ChOf[f]] # None}
LetGo(t, free, show) == {Org(f) : f \in (free \ show) \cup Early(t)}

LEMMA DecodeIs ==
    ASSUME NEW t \in Tsk, NEW free, NEW show, NEW use, Decode(t, free, show, use)
    PROVE  /\ Outcome(t, free, show, use)
           /\ FreeFrames(LetGo(t, free, show), Counted(t, free, show))
           /\ locked' = [ch \in Ch |-> IF ch \in Channels(t)
                                       THEN (Held(t) \ free) \cap Frames(ch) ELSE locked[ch]]
           /\ shown' = [ch \in Ch |-> (shown[ch] \cup {f \in show : ChOf[f] = ch}) \cap locked'[ch]]
           /\ doneQue' = doneQue \cup DoneNow(t, free, show)
           /\ batch' = [batch EXCEPT ![t] = <<>>]
           /\ taskPc' = [taskPc EXCEPT ![t] = Again]
           /\ prev' = prev /\ prevFull' = prevFull /\ full' = full /\ next' = next
           /\ inQue' = inQue /\ reqQue' = reqQue /\ processQue' = processQue
           /\ open' = open /\ openLocal' = openLocal
<1>1. doneQue' = doneQue \cup {Finished(batch[t][i], free, show) : i \in DOMAIN batch[t]}
  BY DEF Decode, Finished, Item1
<1>2. {Finished(batch[t][i], free, show) : i \in DOMAIN batch[t]}
        = {Finished(r, free, show) : r \in Range(batch[t])}
  BY DEF Range
<1>3. FreeFrames(LetGo(t, free, show), Counted(t, free, show))
  BY DEF Decode, Early, LetGo
<1> QED
  BY <1>1, <1>2, <1>3 DEF Decode, outer, chans, DoneNow

LEMMA ItemPut ==
    ASSUME NEW free, NEW show \in SUBSET Frame, NEW ch,
           \A f, g \in show : ChOf[f] = ChOf[g] => f = g
    PROVE  /\ (\A g \in show : ChOf[g] # ch) => Item1(free, show, ch) = NoItem
           /\ \A g \in show : ChOf[g] = ch => Item1(free, show, ch) = PutOut(free, g)
<1>1. ASSUME \A g \in show : ChOf[g] # ch PROVE Item1(free, show, ch) = NoItem
  <2>1. {f \in show : ChOf[f] = ch} = {}
    BY <1>1
  <2> QED BY <2>1 DEF Item1
<1>2. ASSUME NEW g \in show, ChOf[g] = ch PROVE Item1(free, show, ch) = PutOut(free, g)
  <2>1. {f \in show : ChOf[f] = ch} = {g}
    BY <1>2
  <2>2. Item1(free, show, ch) = CHOOSE x \in Item : x[1] \in {g} /\ x[2] = (x[1] \notin free)
    BY <2>1 DEF Item1
  <2>3. \A x \in Item : x[1] \in {g} /\ x[2] = (x[1] \notin free) <=> x = PutOut(free, g)
    <3> SUFFICES ASSUME NEW a \in Frame, NEW b \in BOOLEAN
                 PROVE  a \in {g} /\ b = (a \notin free) <=> <<a, b>> = PutOut(free, g)
      BY DEF Item
    <3>1. <<a, b>> = PutOut(free, g) <=> a = g /\ b = (g \notin free)
      BY DEF PutOut
    <3> QED BY <3>1
  <2>4. PutOut(free, g) \in Item
    BY DEF PutOut, Item
  <2> HIDE DEF PutOut
  <2> QED BY <2>2, <2>3, <2>4
<1> QED
  BY <1>1, <1>2

\* A frame that the codec lets go of is put out itself, another one as a
\* duplicate.
LEMMA PutOutIs ==
    ASSUME NEW free, NEW g
    PROVE  PutOut(free, g) = IF g \in free THEN Org(g) ELSE Dup(g)
<1>1. CASE g \in free
  <2>1. (g \notin free) = FALSE
    BY <1>1
  <2> QED BY <1>1, <2>1 DEF PutOut, Org
<1>2. CASE g \notin free
  <2>1. (g \notin free) = TRUE
    BY <1>2
  <2> QED BY <1>2, <2>1 DEF PutOut, Dup
<1> QED
  BY <1>1, <1>2
LEMMA PutOutNew ==
    ASSUME TypeOK, QueuesInv, DataInv, NEW t \in Tsk, taskPc[t] = "codec",
           NEW free \in SUBSET Held(t), NEW show \in SUBSET Held(t), NEW use,
           Outcome(t, free, show, use)
    PROVE  /\ show \subseteq Frame
           /\ \A g \in show : /\ PutOut(free, g) \in Item /\ PutOut(free, g) \notin Outside
                              /\ PutOut(free, g) # NoItem /\ PutOut(free, g)[1] = g
           /\ \A r \in Range(batch[t]) :
                 LET e == Finished(r, free, show) IN
                 /\ e \in Request /\ e.ch = r.ch /\ e.in = r.in
                 /\ \/ e.out = NoItem
                    \/ \E g \in show : ChOf[g] = r.ch /\ e.out = PutOut(free, g)
                 /\ \A g \in show : ChOf[g] = r.ch => e.out = PutOut(free, g)
<1>1. \A f \in Held(t) : f \in Frame /\ Writes(f) /\ ChOf[f] \in Channels(t)
  BY CodecBatch
<1>2. show \subseteq Frame
  BY <1>1
<1>3. /\ \A f, g \in show : ChOf[f] = ChOf[g] => f = g
      /\ \A f \in show : Org(f) \notin Outside /\ Dup(f) \notin Outside
  BY ShownFrames
<1>4. ASSUME NEW g \in show
      PROVE  /\ PutOut(free, g) \in Item /\ PutOut(free, g) \notin Outside
             /\ PutOut(free, g) # NoItem /\ PutOut(free, g)[1] = g
  <2>1. PutOut(free, g) \in Item /\ PutOut(free, g)[1] = g
    BY <1>2 DEF PutOut, Item
  <2>2. PutOut(free, g) \notin Outside
    BY <1>3, PutOutIs
  <2>3. PutOut(free, g) # NoItem
    BY <1>2, <1>4, NoneAssumption DEF PutOut, NoItem
  <2> QED BY <2>1, <2>2, <2>3
<1>5. ASSUME NEW r \in Range(batch[t])
      PROVE  LET e == Finished(r, free, show) IN
             /\ e \in Request /\ e.ch = r.ch /\ e.in = r.in
             /\ \/ e.out = NoItem
                \/ \E g \in show : ChOf[g] = r.ch /\ e.out = PutOut(free, g)
             /\ \A g \in show : ChOf[g] = r.ch => e.out = PutOut(free, g)
  <2>1. r \in Request
    BY CodecBatch
  <2>2. /\ (\A g \in show : ChOf[g] # r.ch) => Item1(free, show, r.ch) = NoItem
        /\ \A g \in show : ChOf[g] = r.ch => Item1(free, show, r.ch) = PutOut(free, g)
    BY <1>2, <1>3, ItemPut
  <2>3. Item1(free, show, r.ch) \in Item \cup {NoItem}
    BY <1>4, <2>2
  <2>4. /\ Finished(r, free, show) \in Request
        /\ Finished(r, free, show).ch = r.ch /\ Finished(r, free, show).in = r.in
        /\ Finished(r, free, show).out = Item1(free, show, r.ch)
    BY <2>1, <2>3 DEF Finished, Request
  <2> QED BY <2>2, <2>4
<1> QED
  BY <1>2, <1>4, <1>5

\* What the next link will be given in addition.
LEMMA DecodeOuts ==
    ASSUME TypeOK, QueuesInv, DataInv, NEW t \in Tsk, taskPc[t] = "codec",
           NEW free \in SUBSET Held(t), NEW show \in SUBSET Held(t), NEW use,
           Decode(t, free, show, use)
    PROVE  Outs' = Outs \cup PutNow(free, show) /\ Outside' = Outside \cup PutNow(free, show)
<1>1. /\ Outcome(t, free, show, use)
      /\ doneQue' = doneQue \cup DoneNow(t, free, show)
      /\ UNCHANGED <<full, next>>
  BY DecodeIs
<1>2. /\ \A g \in show : PutOut(free, g) # NoItem
      /\ \A r \in Range(batch[t]) :
            LET e == Finished(r, free, show) IN
            /\ \/ e.out = NoItem
               \/ \E g \in show : ChOf[g] = r.ch /\ e.out = PutOut(free, g)
            /\ \A g \in show : ChOf[g] = r.ch => e.out = PutOut(free, g)
  BY <1>1, PutOutNew
<1>3. \A g \in show : \E r \in Range(batch[t]) : ChOf[g] = r.ch
  <2>1. \A g \in show : ChOf[g] \in Channels(t)
    BY CodecBatch
  <2>2. Channels(t) = {r.ch : r \in Range(batch[t])}
    BY CodecBatch
  <2> QED BY <2>1, <2>2
<1>4. ASSUME NEW x
      PROVE  (x \in Outs)' <=> x \in Outs \/ \E g \in show : x = PutOut(free, g)
  <2>1. (x \in Outs)' <=> x # NoItem /\ \E r \in doneQue' : x = r.out
    BY DEF Outs
  <2>2. (\E r \in doneQue' : x = r.out) <=>
           \/ \E r \in doneQue : x = r.out
           \/ \E r \in Range(batch[t]) : x = Finished(r, free, show).out
    BY <1>1 DEF DoneNow
  <2>3. x \in Outs <=> x # NoItem /\ \E r \in doneQue : x = r.out
    BY DEF Outs
  <2>4. x # NoItem /\ (\E r \in Range(batch[t]) : x = Finished(r, free, show).out) <=>
           \E g \in show : x = PutOut(free, g)
    BY <1>2, <1>3
  <2> QED BY <2>1, <2>2, <2>3, <2>4
<1>5. ASSUME NEW x
      PROVE  (x \in Outside)' <=> x \in Outside \/ \E g \in show : x = PutOut(free, g)
  BY <1>1, <1>4, OutsideIs, OutsideNext
<1>6. Outs' = Outs \cup PutNow(free, show)
  BY <1>4 DEF PutNow
<1>7. Outside' = Outside \cup PutNow(free, show)
  BY <1>5 DEF PutNow
<1> QED
  BY <1>6, <1>7

\* The requests of the batch are done.
LEMMA DecodeRequests ==
    ASSUME TypeOK, QueuesInv, DataInv, NEW t \in Tsk, taskPc[t] = "codec",
           NEW free \in SUBSET Held(t), NEW show \in SUBSET Held(t), NEW use,
           Decode(t, free, show, use),
           \A r : (r \in AtTasks)' <=> r \in AtTasks /\ r \notin Range(batch[t])
    PROVE  /\ RequestsInv' /\ CountInv' /\ BuffersInv' /\ doneQue' \subseteq Request
<1> DEFINE B == Range(batch[t])
           e(r) == Finished(r, free, show)
           E == {e(r) : r \in B}
<1>1. /\ Outcome(t, free, show, use) /\ doneQue' = doneQue \cup E
      /\ UNCHANGED <<prev, prevFull, inQue, reqQue>>
  <2>1. E = DoneNow(t, free, show)
    BY DEF DoneNow
  <2> HIDE DEF E
  <2> QED BY <2>1, DecodeIs
<1>2. /\ \A r \in B : r \in AtTasks /\ IsReal(r)
      /\ \A r, s \in B : r.ch = s.ch => r = s
  BY CodecBatch
<1>3. /\ show \subseteq Frame
      /\ \A g \in show : PutOut(free, g) \notin Outside /\ PutOut(free, g)[1] = g
      /\ \A r \in B : /\ e(r) \in Request /\ e(r).ch = r.ch /\ e(r).in = r.in
                      /\ \/ e(r).out = NoItem
                         \/ \E g \in show : ChOf[g] = r.ch /\ e(r).out = PutOut(free, g)
  BY <1>1, PutOutNew
<1> HIDE DEF B, e
<1>4. \A r \in AtTasks' : r \in AtTasks /\ r \notin B
  BY DEF B
<1>5. \A d \in doneQue' : d \in doneQue \/ \E r \in B : d = e(r)
  BY <1>1
<1>6. \A r \in B, d \in doneQue : e(r).in # d.in
  BY <1>2, <1>3 DEF DataInv, RequestsInv
<1>7. \A r, s \in B : e(r).in = e(s).in => r = s
  BY <1>2, <1>3 DEF DataInv, RequestsInv
<1>8. ASSUME NEW r \in B, NEW d \in doneQue, e(r).out = d.out PROVE d.out = NoItem
  <2>1. d.out # NoItem => d.out \in Outside
    BY DEF Outside
  <2> QED BY <1>3, <1>8, <2>1
<1>9. ASSUME NEW r \in B, NEW s \in B, e(r).out = e(s).out, e(r).out # NoItem PROVE r = s
  <2>1. PICK g \in show : ChOf[g] = r.ch /\ e(r).out = PutOut(free, g)
    BY <1>3, <1>9
  <2>2. PICK h \in show : ChOf[h] = s.ch /\ e(s).out = PutOut(free, h)
    BY <1>3, <1>9
  <2>3. g = h
    <3>1. PutOut(free, g) = PutOut(free, h)
      BY <1>9, <2>1, <2>2
    <3>2. PutOut(free, g)[1] = g /\ PutOut(free, h)[1] = h
      BY <1>3
    <3> QED BY <3>1, <3>2
  <2> QED BY <1>2, <2>1, <2>2, <2>3
<1>10. RequestsInv'
  <2>1. \A r \in AtTasks' : IsReal(r) \/ r = Dummy(r.ch)
    BY <1>4 DEF DataInv, RequestsInv
  <2>2. \A d \in doneQue' : /\ d.in \in Bit /\ BitCh[d.in] = d.ch
                            /\ d.out # NoItem => ChOf[d.out[1]] = d.ch
    <3>1. \A d \in doneQue : /\ d.in \in Bit /\ BitCh[d.in] = d.ch
                             /\ d.out # NoItem => ChOf[d.out[1]] = d.ch
      BY DEF DataInv, RequestsInv
    <3>2. \A r \in B : /\ e(r).in \in Bit /\ BitCh[e(r).in] = e(r).ch
                       /\ e(r).out # NoItem => ChOf[e(r).out[1]] = e(r).ch
      BY <1>2, <1>3 DEF IsReal
    <3> QED BY <1>5, <3>1, <3>2
  <2>3. \A r, s \in AtTasks' : r.in = s.in \/ r.out = s.out => r = s
    BY <1>4 DEF DataInv, RequestsInv
  <2>4. \A c, d \in doneQue' : c.in = d.in \/ (c.out = d.out /\ c.out # NoItem) => c = d
    <3> SUFFICES ASSUME NEW c \in doneQue', NEW d \in doneQue',
                        c.in = d.in \/ (c.out = d.out /\ c.out # NoItem)
                 PROVE  c = d
      OBVIOUS
    <3>1. CASE c \in doneQue /\ d \in doneQue
      BY <3>1 DEF DataInv, RequestsInv
    <3>2. CASE c \in doneQue /\ \E r \in B : d = e(r)
      <4>1. PICK r \in B : d = e(r)
        BY <3>2
      <4>2. e(r).in # c.in
        BY <1>6, <3>2
      <4>3. e(r).out = c.out => c.out = NoItem
        BY <1>8, <3>2
      <4> QED BY <4>1, <4>2, <4>3
    <3>3. CASE d \in doneQue /\ \E r \in B : c = e(r)
      <4>1. PICK r \in B : c = e(r)
        BY <3>3
      <4>2. e(r).in # d.in
        BY <1>6, <3>3
      <4>3. e(r).out = d.out => d.out = NoItem
        BY <1>8, <3>3
      <4> QED BY <4>1, <4>2, <4>3
    <3>4. CASE (\E r \in B : c = e(r)) /\ \E s \in B : d = e(s)
      <4>1. PICK r \in B : c = e(r)
        BY <3>4
      <4>2. PICK s \in B : d = e(s)
        BY <3>4
      <4>3. r = s
        BY <1>7, <1>9, <4>1, <4>2
      <4> QED BY <4>1, <4>2, <4>3
    <3> QED BY <1>5, <3>1, <3>2, <3>3, <3>4
  <2>5. \A r \in AtTasks', d \in doneQue' : r.in # d.in
    <3>1. \A r \in AtTasks, d \in doneQue : r.in # d.in
      BY DEF DataInv, RequestsInv
    <3>2. \A r \in AtTasks, s \in B : r \notin B => r.in # s.in
      BY <1>2 DEF DataInv, RequestsInv
    <3> QED BY <1>3, <1>4, <1>5, <3>1, <3>2
  <2> QED BY <2>1, <2>2, <2>3, <2>4, <2>5 DEF RequestsInv, IsReal, Dummy, Org
<1>11. CountInv'
  <2>1. IsFiniteSet(B) /\ IsFiniteSet(AtTasks) /\ IsFiniteSet(doneQue)
    <3>1. B \subseteq AtTasks
      BY <1>2
    <3> QED BY <3>1, FS_Subset DEF DataInv, CountInv
  <2>2. /\ IsFiniteSet(AtTasks \ B)
        /\ Cardinality(AtTasks \ B) = Cardinality(AtTasks) - Cardinality(AtTasks \cap B)
    BY <2>1, FS_Difference
  <2>3. AtTasks \cap B = B /\ AtTasks' = AtTasks \ B
    <3>1. \A r : (r \in AtTasks)' <=> r \in AtTasks /\ r \notin B
      BY DEF B
    <3> QED BY <1>2, <3>1
  <2>4. IsFiniteSet(E) /\ Cardinality(E) = Cardinality(B)
    <3> DEFINE F == [r \in B |-> e(r)]
    <3>1. F \in Bijection(B, E)
      <4>1. F \in [B -> E]
        OBVIOUS
      <4>2. \A r, s \in B : F[r] = F[s] => r = s
        BY <1>7
      <4>3. \A d \in E : \E r \in B : F[r] = d
        OBVIOUS
      <4> HIDE DEF F, E
      <4> QED BY <4>1, <4>2, <4>3 DEF Bijection, Injection, Surjection, IsInjective
    <3> QED BY <2>1, <3>1, FS_Bijection DEF ExistsBijection
  <2>5. /\ IsFiniteSet(doneQue \cup E)
        /\ Cardinality(doneQue \cup E)
              = Cardinality(doneQue) + Cardinality(E) - Cardinality(doneQue \cap E)
    BY <2>1, <2>4, FS_Union
  <2>6. doneQue \cap E = {} /\ Cardinality({}) = 0
    <3>1. \A r \in B : e(r) \notin doneQue
      BY <1>6
    <3> QED BY <3>1, FS_EmptySet
  <2> HIDE DEF E
  <2>7. /\ Cardinality(B) \in Nat /\ Cardinality(AtTasks) \in Nat
        /\ Cardinality(doneQue) \in Nat /\ reqQue \in Nat
    BY <2>1, FS_CardinalityType DEF TypeOK
  <2>8. NumReq = reqQue + Cardinality(AtTasks) + Cardinality(doneQue)
    BY DEF DataInv, CountInv
  <2>9. /\ Cardinality(AtTasks \ B) = Cardinality(AtTasks) - Cardinality(B)
        /\ Cardinality(doneQue \cup E) = Cardinality(doneQue) + Cardinality(B)
    <3>1. Cardinality(AtTasks \cap B) = Cardinality(B)
      BY <2>3
    <3>2. Cardinality(doneQue \cap E) = 0
      BY <2>6
    <3> QED BY <2>2, <2>4, <2>5, <2>7, <3>1, <3>2
  <2>10. NumReq = reqQue + Cardinality(AtTasks \ B) + Cardinality(doneQue \cup E)
    BY <2>7, <2>8, <2>9
  <2> QED BY <1>1, <2>2, <2>3, <2>5, <2>10 DEF CountInv
<1>12. BuffersInv'
  <2>1. ASSUME NEW b \in Bit PROVE InRequest(b)' = InRequest(b)
    <3>1. (\E r \in B : e(r).in = b) <=> \E r \in B : r.in = b
      BY <1>3
    <3>2. InRequest(b)' <=> \/ \E r \in AtTasks : r \notin B /\ r.in = b
                            \/ \E d \in doneQue : d.in = b
                            \/ \E r \in B : e(r).in = b
      BY <1>1 DEF InRequest, B
    <3>3. InRequest(b) <=> \/ \E r \in AtTasks : r.in = b
                           \/ \E d \in doneQue : d.in = b
      BY DEF InRequest
    <3> QED BY <1>2, <3>1, <3>2, <3>3 DEF InRequest
  <2> QED BY <1>1, <2>1, BuffersStay DEF DataInv
<1>13. doneQue' \subseteq Request
  BY <1>3, <1>5 DEF TypeOK
<1> QED
  BY <1>10, <1>11, <1>12, <1>13
\* Who writes, has and counts a frame that the codec held, one that was freed
\* because the codec filled another, and any other.
LEMMA DecodeFrames ==
    ASSUME TypeOK, QueuesInv, DataInv, NEW t \in Tsk, taskPc[t] = "codec",
           NEW free \in SUBSET Held(t), NEW show \in SUBSET Held(t), NEW use,
           Decode(t, free, show, use),
           \A r : (r \in AtTasks)' <=> r \in AtTasks /\ r \notin Range(batch[t])
    PROVE  /\ FramesInv' /\ refs' \in [Frame -> Nat] /\ invalid' \subseteq Frame
           /\ emptyQue' \in [Ch -> SUBSET Frame] /\ fvidFrmQue' \in [Ch -> SUBSET Frame]
           /\ locked' \in [Ch -> SUBSET Frame] /\ shown' \in [Ch -> SUBSET Frame]
<1> DEFINE S == LetGo(t, free, show)
           R == Counted(t, free, show)
<1>1. /\ Outcome(t, free, show, use) /\ FreeFrames(S, R)
      /\ locked' = [ch \in Ch |-> IF ch \in Channels(t)
                                  THEN (Held(t) \ free) \cap Frames(ch) ELSE locked[ch]]
      /\ shown' = [ch \in Ch |-> (shown[ch] \cup {f \in show : ChOf[f] = ch}) \cap locked'[ch]]
      /\ full' = full /\ next' = next
  BY DecodeIs
<1>2. /\ \A r \in Range(batch[t]) : r \in AtTasks
      /\ \A f : f \in New(t) <=> f \in Frame /\ \E r \in Range(batch[t]) : r.out = Org(f)
      /\ \A f \in New(t) : AtTask(f) /\ ChOf[f] \in Channels(t)
      /\ \A f \in Held(t) : f \in Frame /\ Writes(f) /\ ChOf[f] \in Channels(t)
  BY CodecBatch
<1>3. \A f \in show : Org(f) \notin Outside /\ Dup(f) \notin Outside /\ refs[f] = 1
  BY <1>1, ShownFrames
<1>4. \A x : /\ (x \in Outs)' <=> x \in Outs \/ \E g \in show : x = PutOut(free, g)
             /\ (x \in Outside)' <=> x \in Outside \/ \E g \in show : x = PutOut(free, g)
  <2>1. Outs' = Outs \cup PutNow(free, show) /\ Outside' = Outside \cup PutNow(free, show)
    BY DecodeOuts
  <2> QED BY <2>1 DEF PutNow
<1>5. \A f \in Frame : ChOf[f] \in Ch /\ FrameInv(f)
  BY ChannelAssumption DEF DataInv, FramesInv
<1>6. /\ locked' \in [Ch -> SUBSET Frame] /\ shown' \in [Ch -> SUBSET Frame]
      /\ \A f \in Frame : /\ f \in locked'[ChOf[f]] <=>
                                IF ChOf[f] \in Channels(t) THEN f \in Held(t) /\ f \notin free
                                                           ELSE f \in locked[ChOf[f]]
                          /\ f \in shown'[ChOf[f]] <=>
                                f \in locked'[ChOf[f]] /\ (f \in shown[ChOf[f]] \/ f \in show)
  <2>1. locked \in [Ch -> SUBSET Frame]
    BY DEF TypeOK
  <2>2. \A ch : Frames(ch) \subseteq Frame
    BY DEF Frames
  <2>3. locked' \in [Ch -> SUBSET Frame]
    BY <1>1, <2>1, <2>2
  <2>4. shown' \in [Ch -> SUBSET Frame]
    BY <1>1, <2>3
  <2>5. ASSUME NEW f \in Frame
        PROVE  f \in locked'[ChOf[f]] <=>
                  IF ChOf[f] \in Channels(t) THEN f \in Held(t) /\ f \notin free
                                             ELSE f \in locked[ChOf[f]]
    <3>1. f \in Frames(ChOf[f])
      BY DEF Frames
    <3> QED BY <1>1, <1>5, <3>1
  <2>6. ASSUME NEW f \in Frame
        PROVE  f \in shown'[ChOf[f]] <=>
                  f \in locked'[ChOf[f]] /\ (f \in shown[ChOf[f]] \/ f \in show)
    BY <1>1, <1>5
  <2> QED BY <2>3, <2>4, <2>5, <2>6
<1>7. \A f \in Frame : AtTask(f)' <=> AtTask(f) /\ f \notin New(t)
  <2> SUFFICES ASSUME NEW f \in Frame PROVE AtTask(f)' <=> AtTask(f) /\ f \notin New(t)
    OBVIOUS
  <2>1. AtTask(f)' <=> \E r \in AtTasks : r \notin Range(batch[t]) /\ r.out = Org(f)
    BY DEF AtTask, Org
  <2>2. f \in New(t) => \E r \in Range(batch[t]) : r.out = Org(f)
    BY <1>2
  <2>3. \A r, s \in AtTasks : r.out = Org(f) /\ s.out = Org(f) => r = s
    BY DEF DataInv, RequestsInv
  <2>4. f \notin New(t) => \A r \in Range(batch[t]) : r.out # Org(f)
    BY <1>2
  <2> QED BY <1>2, <2>1, <2>2, <2>3, <2>4 DEF AtTask
<1>8. /\ \A f : f \in Held(t) => f \notin Early(t)
      /\ \A f \in New(t) : f \in Held(t) \/ f \in Early(t)
      /\ \A f \in Early(t) : f \in New(t)
      /\ \A f \in Frame : f \in locked[ChOf[f]] /\ ChOf[f] \in Channels(t) => f \in Held(t)
      /\ \A f \in Held(t) : f \in locked[ChOf[f]] \/ f \in New(t)
  <2>1. \A f \in New(t) : f \in Held(t) \/ f \in Early(t)
    BY DEF Held, Early
  <2>2. \A f \in Frame : f \in locked[ChOf[f]] /\ ChOf[f] \in Channels(t) => f \in Held(t)
    BY DEF Held
  <2>3. ASSUME NEW f \in Held(t) PROVE f \notin Early(t) /\ (f \in locked[ChOf[f]] \/ f \in New(t))
    <3>1. CASE f \in New(t) /\ inUse[ChOf[f]] = None
      BY <3>1 DEF Early
    <3>2. CASE ~(f \in New(t) /\ inUse[ChOf[f]] = None)
      <4>1. \E ch \in Channels(t) : f \in locked[ch]
        BY <2>3, <3>2 DEF Held
      <4>2. Channels(t) \subseteq Ch
        BY CodecBatch
      <4>3. \A ch \in Ch : \A g \in locked[ch] : ChOf[g] = ch /\ g \in Frame
        BY DEF DataInv, FramesInv, Frames
      <4>4. f \in locked[ChOf[f]] /\ f \in Frame
        BY <4>1, <4>2, <4>3
      <4>5. ~AtTask(f)
        BY <1>5, <4>4 DEF FrameInv
      <4> QED BY <1>2, <4>4, <4>5 DEF Early
    <3> QED BY <3>1, <3>2
  <2>4. \A f \in Early(t) : f \in New(t)
    BY DEF Early
  <2> QED BY <2>1, <2>2, <2>3, <2>4
<1>9. \A f \in Frame : /\ Org(f) \in S <=> (f \in free /\ f \notin show) \/ f \in Early(t)
                       /\ Dup(f) \notin S
  BY DEF LetGo, Org, Dup
<1>10. S \subseteq Item
  <2>1. \A f \in free : f \in Frame
    BY <1>2
  <2>2. \A f \in Early(t) : f \in Frame
    BY <1>2, <1>8
  <2>3. \A f \in Frame : Org(f) \in Item
    BY DEF Org, Item
  <2> HIDE DEF Early
  <2> QED BY <2>1, <2>2, <2>3 DEF LetGo
<1>11. /\ R \in [Frame -> Nat]
       /\ \A f \in Frame : R[f] = refs[f] + One(f \in show /\ f \notin free)
  <2>1. refs \in [Frame -> 0 .. 2]
    BY DEF TypeOK
  <2>2. refs \in [Frame -> Nat]
    BY <2>1
  <2> QED BY <2>2 DEF Counted, One
<1> HIDE DEF S, R
<1>12. ASSUME NEW f \in Frame
       PROVE  /\ One(Org(f) \in S) = One((f \in free /\ f \notin show) \/ f \in Early(t))
              /\ One(Dup(f) \in S) = 0
  BY <1>9 DEF One
<1>13. \A f \in Frame : R[f] >= One(Org(f) \in S) + One(Dup(f) \in S)
  <2> SUFFICES ASSUME NEW f \in Frame PROVE R[f] >= One(Org(f) \in S)
    BY <1>12, <1>11 DEF One
  <2>1. CASE (f \in free /\ f \notin show) \/ f \in Early(t)
    <3>1. Writes(f)
      BY <1>2, <1>8, <2>1 DEF Writes
    <3>2. refs[f] > 0 /\ refs[f] \in Nat
      BY <1>5, <3>1 DEF FrameInv, One
    <3> QED BY <1>11, <1>12, <3>2 DEF One
  <2>2. CASE ~((f \in free /\ f \notin show) \/ f \in Early(t))
    BY <1>11, <1>12, <2>2 DEF One
  <2> QED BY <2>1, <2>2
<1>14. /\ refs' \in [Frame -> Nat] /\ invalid' \subseteq Frame
       /\ emptyQue' \in [Ch -> SUBSET Frame] /\ fvidFrmQue' \in [Ch -> SUBSET Frame]
       /\ \A f \in Frame : refs'[f] = R[f] - (One(Org(f) \in S) + One(Dup(f) \in S))
       /\ \A ch \in Ch, f \in Frame :
            /\ f \in emptyQue'[ch] <=>
                  \/ f \in emptyQue[ch]
                  \/ ChOf[f] = ch /\ R[f] > 0 /\ refs'[f] = 0 /\ f \notin invalid
            /\ f \in fvidFrmQue'[ch] <=>
                  \/ f \in fvidFrmQue[ch]
                  \/ ChOf[f] = ch /\ R[f] > 0 /\ refs'[f] = 0 /\ f \in invalid
  BY <1>1, <1>10, <1>11, <1>13, FreeIs
<1>15. \A f \in Frame : refs'[f] = refs[f] + One(f \in show /\ f \notin free)
                                   - One((f \in free /\ f \notin show) \/ f \in Early(t))
  <2> SUFFICES ASSUME NEW f \in Frame
               PROVE  refs'[f] = refs[f] + One(f \in show /\ f \notin free)
                                 - One((f \in free /\ f \notin show) \/ f \in Early(t))
    OBVIOUS
  <2>1. /\ refs'[f] = R[f] - (One(Org(f) \in S) + One(Dup(f) \in S))
        /\ R[f] = refs[f] + One(f \in show /\ f \notin free)
    BY <1>11, <1>14
  <2>2. /\ One(Org(f) \in S) = One((f \in free /\ f \notin show) \/ f \in Early(t))
        /\ One(Dup(f) \in S) = 0
    BY <1>12
  <2>3. One((f \in free /\ f \notin show) \/ f \in Early(t)) \in Nat
    BY DEF One
  <2>4. refs[f] \in Nat /\ One(f \in show /\ f \notin free) \in Nat
    BY <1>5 DEF FrameInv, One
  <2> QED BY <2>1, <2>2, <2>3, <2>4
<1>16. \A f \in Frame : /\ (Org(f) \in Outside)' <=> Org(f) \in Outside \/ (f \in show /\ f \in free)
                        /\ (Dup(f) \in Outside)' <=> Dup(f) \in Outside \/ (f \in show /\ f \notin free)
  <2>1. \A f, g : Org(g) # Dup(f) /\ (Org(f) = Org(g) <=> f = g) /\ (Dup(f) = Dup(g) <=> f = g)
    BY DEF Org, Dup
  <2>2. \A g \in show : PutOut(free, g) = IF g \in free THEN Org(g) ELSE Dup(g)
    BY PutOutIs
  <2>3. \A f : /\ (\E g \in show : Org(f) = PutOut(free, g)) <=> f \in show /\ f \in free
               /\ (\E g \in show : Dup(f) = PutOut(free, g)) <=> f \in show /\ f \notin free
    BY <2>1, <2>2
  <2>4. \A f : /\ (Org(f) \in Outside)' <=> Org(f) \in Outside \/ \E g \in show : Org(f) = PutOut(free, g)
               /\ (Dup(f) \in Outside)' <=> Dup(f) \in Outside \/ \E g \in show : Dup(f) = PutOut(free, g)
    BY <1>4 DEF Org, Dup
  <2> QED BY <2>3, <2>4
<1>17. ASSUME NEW f \in Frame
       PROVE  /\ AtTask(f)' => f \notin locked'[ChOf[f]]
              /\ Writes(f)' => (Org(f) \notin Outside)'
              /\ (Dup(f) \in Outside)' =>
                    ~AtTask(f)' /\ (f \in locked'[ChOf[f]] => f \in shown'[ChOf[f]])
              /\ refs'[f] = One(Writes(f)') + One((Org(f) \in Outside)')
                            + One((Dup(f) \in Outside)')
  <2>0. FrameInv(f) /\ (Writes(f)' <=> AtTask(f)' \/ f \in locked'[ChOf[f]])
        /\ (f \in New(t) => AtTask(f))
    BY <1>2, <1>5 DEF Writes
  <2>1. CASE f \in Held(t)
    <3>1. /\ ~AtTask(f)' /\ ChOf[f] \in Channels(t) /\ f \notin Early(t) /\ Writes(f)
          /\ f \in locked'[ChOf[f]] <=> f \notin free
      BY <1>2, <1>6, <1>7, <1>8, <2>0, <2>1 DEF FrameInv
    <3>2. CASE f \in show
      <4>1. Org(f) \notin Outside /\ Dup(f) \notin Outside /\ refs[f] = 1
        BY <1>3, <3>2
      <4> QED BY <1>6, <1>15, <1>16, <2>0, <3>1, <3>2, <4>1 DEF One
    <3>3. CASE f \notin show
      <4>1. /\ (Org(f) \in Outside)' <=> Org(f) \in Outside
            /\ (Dup(f) \in Outside)' <=> Dup(f) \in Outside
        BY <1>16, <3>3
      <4>2. Dup(f) \in Outside => f \in shown[ChOf[f]]
        BY <1>8, <2>0, <2>1 DEF FrameInv
      <4>3. refs[f] = 1 + One(Org(f) \in Outside) + One(Dup(f) \in Outside)
        BY <2>0, <3>1 DEF FrameInv, One
      <4>4. refs'[f] = refs[f] - One(f \in free)
        BY <1>15, <3>1, <3>3, <4>3 DEF One
      <4> QED BY <1>6, <2>0, <3>1, <4>1, <4>2, <4>3, <4>4 DEF FrameInv, One
    <3> QED BY <3>2, <3>3
  <2>2. CASE f \in Early(t)
    <3>1. f \notin Held(t) /\ f \in New(t) /\ AtTask(f) /\ f \notin show /\ f \notin free
      BY <1>2, <1>8, <2>2
    <3>2. ~AtTask(f)' /\ f \notin locked'[ChOf[f]]
      BY <1>2, <1>6, <1>7, <3>1
    <3>3. Writes(f) /\ Org(f) \notin Outside /\ Dup(f) \notin Outside /\ refs[f] = 1
      BY <2>0, <3>1 DEF FrameInv, Writes, One
    <3> QED BY <1>15, <1>16, <2>0, <2>2, <3>1, <3>2, <3>3 DEF One
  <2>3. CASE f \notin Held(t) /\ f \notin Early(t)
    <3>1. f \notin New(t) /\ f \notin show /\ f \notin free
      BY <1>8, <2>3
    <3>2. /\ AtTask(f)' <=> AtTask(f)
          /\ f \in locked'[ChOf[f]] <=> f \in locked[ChOf[f]]
      BY <1>6, <1>7, <1>8, <2>3, <3>1
    <3>3. /\ (Org(f) \in Outside)' <=> Org(f) \in Outside
          /\ (Dup(f) \in Outside)' <=> Dup(f) \in Outside
      BY <1>16, <3>1
    <3>4. refs'[f] = refs[f]
      BY <1>15, <2>0, <2>3, <3>1 DEF One, FrameInv
    <3>5. f \in shown'[ChOf[f]] <=> f \in locked[ChOf[f]] /\ f \in shown[ChOf[f]]
      BY <1>6, <3>1, <3>2
    <3>6. Writes(f)' <=> Writes(f)
      BY <2>0, <3>2 DEF Writes
    <3> QED BY <2>0, <3>2, <3>3, <3>4, <3>5, <3>6 DEF FrameInv, One
  <2> QED BY <2>1, <2>2, <2>3
<1>18. ASSUME NEW f \in Frame PROVE FrameInv(f)'
  <2>1. /\ refs'[f] > 0 => f \notin emptyQue'[ChOf[f]] /\ f \notin fvidFrmQue'[ChOf[f]]
        /\ f \in emptyQue'[ChOf[f]] => f \notin fvidFrmQue'[ChOf[f]]
    <3>1. R[f] > 0 \/ refs'[f] > 0 => refs[f] > 0
      <4>1. f \in show => refs[f] > 0
        BY <1>3
      <4>2. f \notin show => R[f] = refs[f]
        <5>1. refs[f] \in Nat
          BY <1>5 DEF FrameInv, One
        <5> QED BY <1>11, <5>1 DEF One
      <4>3. refs'[f] > 0 => R[f] > 0
        BY <1>11, <1>14 DEF One
      <4> QED BY <4>1, <4>2, <4>3
    <3>2. refs[f] > 0 => f \notin emptyQue[ChOf[f]] /\ f \notin fvidFrmQue[ChOf[f]]
      BY <1>5 DEF FrameInv
    <3>3. f \in emptyQue[ChOf[f]] => f \notin fvidFrmQue[ChOf[f]]
      BY <1>5 DEF FrameInv
    <3>4. refs'[f] > 0 => ~(refs'[f] = 0)
      BY <1>14
    <3> QED BY <1>5, <1>14, <3>1, <3>2, <3>3, <3>4
  <2> QED BY <1>17, <2>1 DEF FrameInv, Org, Dup, One
<1>19. \A ch \in Ch : emptyQue'[ch] \cup fvidFrmQue'[ch] \cup locked'[ch] \subseteq Frames(ch)
  <2> SUFFICES ASSUME NEW ch \in Ch, NEW f \in emptyQue'[ch] \cup fvidFrmQue'[ch] \cup locked'[ch]
               PROVE  f \in Frames(ch)
    OBVIOUS
  <2>1. f \in Frame
    BY <1>6, <1>14
  <2>2. f \in locked'[ch] => f \in Frames(ch)
    BY <1>1 DEF DataInv, FramesInv
  <2>3. f \in emptyQue'[ch] \/ f \in fvidFrmQue'[ch] => f \in Frames(ch)
    <3>1. f \in emptyQue[ch] \/ f \in fvidFrmQue[ch] => f \in Frames(ch)
      BY DEF DataInv, FramesInv
    <3> QED BY <1>14, <2>1, <3>1 DEF Frames
  <2> QED BY <2>2, <2>3
<1>20. full' \cap next' = {} /\ Outs' \cap (full' \cup next') = {}
  <2>1. full \cap next = {} /\ Outs \cap (full \cup next) = {}
    BY DEF DataInv, FramesInv
  <2>2. \A g \in show : PutOut(free, g) \notin Outside
    BY <1>1, PutOutNew
  <2>3. \A x \in full \cup next : x \in Outside
    BY OutsideIs
  <2> QED BY <1>1, <1>4, <2>1, <2>2, <2>3
<1> QED
  BY <1>6, <1>14, <1>18, <1>19, <1>20 DEF FramesInv, Frames
LEMMA DecodeData ==
    ASSUME TypeOK, QueuesInv, DataInv, NEW t \in Tsk, taskPc[t] = "codec",
           NEW free \in SUBSET Held(t), NEW show \in SUBSET Held(t),
           NEW use \in SUBSET FirstField(t), Decode(t, free, show, use)
    PROVE  /\ DataInv' /\ QueuesInv' /\ \A r : (r \in AtTasks)' => r \in AtTasks
           /\ \A r : r \in AtTasks /\ r.in = None => (r \in AtTasks)'
           /\ batch' \in [Tsk -> Seq(Request)] /\ doneQue' \subseteq Request
           /\ taskPc' \in [Tsk -> {"get", "codec", "flush", "end"}]
           /\ refs' \in [Frame -> Nat] /\ invalid' \subseteq Frame
           /\ emptyQue' \in [Ch -> SUBSET Frame] /\ fvidFrmQue' \in [Ch -> SUBSET Frame]
           /\ locked' \in [Ch -> SUBSET Frame] /\ shown' \in [Ch -> SUBSET Frame]
           /\ inUse' \in [Ch -> Frame \cup {None}]
<1>1. /\ batch' = [batch EXCEPT ![t] = <<>>] /\ taskPc' = [taskPc EXCEPT ![t] = Again]
      /\ locked' = [ch \in Ch |-> IF ch \in Channels(t)
                                  THEN (Held(t) \ free) \cap Frames(ch) ELSE locked[ch]]
      /\ processQue' = processQue /\ inQue' = inQue
      /\ open' = open /\ openLocal' = openLocal
  BY DecodeIs
<1>2. /\ batch' \in [Tsk -> Seq(Request)]
      /\ taskPc' \in [Tsk -> {"get", "codec", "flush", "end"}]
      /\ QueuesInv' /\ \A r : (r \in AtTasks)' <=> r \in AtTasks /\ r \notin Range(batch[t])
  BY <1>1, QueueEnd
<1>3. RequestsInv' /\ CountInv' /\ BuffersInv' /\ doneQue' \subseteq Request
  BY <1>2, DecodeRequests
<1>4. /\ FramesInv' /\ refs' \in [Frame -> Nat] /\ invalid' \subseteq Frame
      /\ emptyQue' \in [Ch -> SUBSET Frame] /\ fvidFrmQue' \in [Ch -> SUBSET Frame]
      /\ locked' \in [Ch -> SUBSET Frame] /\ shown' \in [Ch -> SUBSET Frame]
  BY <1>2, DecodeFrames
<1>5. ChannelsInv'
  <2>1. ASSUME NEW ch \in Ch PROVE ChannelInv(ch)'
    <3>1. ~open[ch] => locked'[ch] = {}
      <4>1. ch \in Channels(t) => open[ch]
        BY CodecBatch
      <4>2. ~open[ch] => locked[ch] = {}
        BY DEF DataInv, ChannelsInv, ChannelInv
      <4> QED BY <1>1, <4>1, <4>2
    <3> QED BY <1>1, <1>2, <3>1 DEF DataInv, ChannelsInv, ChannelInv
  <2> QED BY <2>1 DEF ChannelsInv
<1>6. inUse' \in [Ch -> Frame \cup {None}]
  <2> DEFINE used(ch) == {f \in use : ChOf[f] = ch}
  <2>1. inUse' = [ch \in Ch |-> IF ch \notin Channels(t) THEN inUse[ch]
                                ELSE IF used(ch) = {} THEN None
                                ELSE CHOOSE f \in used(ch) : TRUE]
    BY DEF Decode
  <2>2. \A f \in use : f \in Frame
    BY CodecBatch DEF FirstField
  <2>3. \A ch : used(ch) # {} => (CHOOSE f \in used(ch) : TRUE) \in Frame
    BY <2>2
  <2>4. inUse \in [Ch -> Frame \cup {None}]
    BY DEF TypeOK
  <2> HIDE DEF used
  <2> QED BY <2>1, <2>3, <2>4
<1>7. \A r : r \in AtTasks /\ r.in = None => (r \in AtTasks)'
  <2>1. \A r \in Range(batch[t]) : r.in # None
    BY DEF QueuesInv, QueueInv
  <2> QED BY <1>2, <2>1
<1> QED
  BY <1>2, <1>3, <1>4, <1>5, <1>6, <1>7 DEF DataInv
-----------------------------------------------------------------------------
(* The calls of each action.                                                *)

LEMMA MailQuiet ==
    ASSUME TypeOK, CallsInv, UNCHANGED <<control, pMsg, pMsgTmp>>,
           NEW m, \/ m = mbx
                  \/ mbx # <<>> /\ Head(mbx) \notin Answerable /\ m = Tail(mbx),
           mbx' \in {m, After(m, "NEW_DATA"), After(m, "GET_PROCESSED_DATA")},
           linkPc' \in {"stop", "join"} <=> linkPc \in {"stop", "join"},
           \A r : (r \in AtTasks)' => r \in AtTasks \/ r.in # None
    PROVE  CallsInv' /\ mbx' \in Seq(Cmd)
<1>1. mbx \in Seq(Cmd) /\ OnceIn(mbx)
  BY DEF TypeOK, CallsInv
<1>2. m \in Seq(Cmd) /\ OnceIn(m) /\ Range(m) \cap Answerable = Range(mbx) \cap Answerable
  <2>1. CASE m = mbx
    BY <1>1, <2>1
  <2>2. CASE mbx # <<>> /\ Head(mbx) \notin Answerable /\ m = Tail(mbx)
    <3>1. /\ Tail(mbx) \in Seq(Cmd) /\ Range(mbx) = Range(Tail(mbx)) \cup {Head(mbx)}
          /\ OnceIn(Tail(mbx))
      BY <1>1, <2>2, CommandTaken
    <3> QED BY <2>2, <3>1
  <2> QED BY <2>1, <2>2
<1>3. ASSUME NEW c \in {"NEW_DATA", "GET_PROCESSED_DATA"}, mbx' = After(m, c)
      PROVE  /\ mbx' \in Seq(Cmd) /\ OnceIn(mbx')
             /\ Range(mbx') \cap Answerable = Range(mbx) \cap Answerable
  <2>1. c \in Cmd /\ c \notin Answerable
    BY NoneAssumption DEF Cmd, Answerable
  <2>2. /\ After(m, c) \in Seq(Cmd) /\ Range(After(m, c)) = Range(m) \cup {c}
        /\ OnceIn(After(m, c))
    BY <1>2, <2>1, CommandQueued
  <2> QED BY <1>2, <1>3, <2>1, <2>2
<1>4. /\ mbx' \in Seq(Cmd) /\ OnceIn(mbx')
      /\ Range(mbx') \cap Answerable = Range(mbx) \cap Answerable
  BY <1>2, <1>3
<1> QED
  BY <1>4, CallsQuiet

LEMMA AskCalls ==
    ASSUME OneCaller, TypeOK, CallsInv, NEW c \in Caller, NEW cmd, NEW ch, Ask(c, cmd, ch),
           AtTasks' = AtTasks
    PROVE  CallsInv' /\ mbx' \in Seq(Cmd)
<1>1. /\ control[c] = NoControl /\ mbx' = After(mbx, c)
      /\ control' = [control EXCEPT ![c] = [cmd |-> cmd, ch |-> ch]]
      /\ cmd \in {"CREATE_CHANNEL", "DELETE_CHANNEL", "STOP", "DELETE"}
      /\ UNCHANGED <<pMsg, pMsgTmp, linkPc>>
  BY DEF Ask, Post, loop
<1>2. mbx \in Seq(Cmd) /\ c \in Cmd /\ \A d \in Caller : d = c
  BY DEF TypeOK, Cmd, OneCaller
<1>3. /\ c \notin Range(mbx) /\ pMsg \in {c, None} /\ pMsgTmp \in {c, None}
      /\ NoControl.cmd = "none"
  BY <1>1, <1>2 DEF CallsInv, TypeOK, NoControl
<1>4. pMsg = None /\ pMsgTmp = None
  BY <1>1, <1>3 DEF CallsInv
<1>5. /\ mbx' \in Seq(Cmd) /\ Range(mbx') = Range(mbx) \cup {c} /\ OnceIn(mbx')
  BY <1>1, <1>2, <1>3, CommandQueued DEF CallsInv
<1>6. control'[c] # NoControl
  <2>1. control'[c] = [cmd |-> cmd, ch |-> ch]
    BY <1>1 DEF TypeOK
  <2>2. control'[c].cmd # "none"
    BY <1>1, <2>1
  <2> QED BY <1>3, <2>2
<1>7. c # "LATE_ACK" /\ Deleted' = Deleted
  BY NoneAssumption DEF Deleted
<1> QED
  BY <1>1, <1>2, <1>4, <1>5, <1>6, <1>7 DEF CallsInv

\* The mailbox once a command that is answered is taken from it.
LEMMA CallTaken ==
    ASSUME OneCaller, TypeOK, CallsInv, NEW c \in Answerable, mbx # <<>>, Head(mbx) = c,
           mbx' = Tail(mbx)
    PROVE  /\ mbx' \in Seq(Cmd) /\ OnceIn(mbx') /\ c \in Range(mbx)
           /\ Range(mbx') \subseteq Range(mbx) /\ c \notin Range(mbx')
           /\ Caller \cap Range(mbx') = {}
<1>1. mbx \in Seq(Cmd) /\ OnceIn(mbx)
  BY DEF TypeOK, CallsInv
<1>2. /\ mbx' \in Seq(Cmd) /\ OnceIn(mbx') /\ c \in Range(mbx)
      /\ Range(mbx') \subseteq Range(mbx) /\ c \notin Range(mbx')
  BY <1>1, CommandTaken
<1>3. Caller \cap Range(mbx') = {}
  <2>1. CASE c \in Caller
    BY <1>2, <2>1 DEF OneCaller
  <2>2. CASE c = "LATE_ACK"
    BY <1>2, <2>2 DEF CallsInv
  <2> QED BY <2>1, <2>2 DEF Answerable
<1> QED
  BY <1>2, <1>3

LEMMA LateCalls ==
    ASSUME OneCaller, TypeOK, CallsInv, RecvLate, AtTasks' = AtTasks
    PROVE  CallsInv' /\ mbx' \in Seq(Cmd) /\ control' \in [Caller -> Control]
<1>1. /\ mbx # <<>> /\ Head(mbx) = "LATE_ACK" /\ mbx' = Tail(mbx)
      /\ control' = [c \in Caller |-> IF c \in {pMsgTmp} THEN NoControl ELSE control[c]]
      /\ pMsgTmp' = None /\ UNCHANGED <<pMsg, linkPc>>
  BY DEF RecvLate, Head1, Ack, loop
<1>2. "LATE_ACK" \in Answerable
  BY DEF Answerable
<1>3. /\ mbx' \in Seq(Cmd) /\ OnceIn(mbx') /\ "LATE_ACK" \in Range(mbx)
      /\ "LATE_ACK" \notin Range(mbx') /\ Caller \cap Range(mbx') = {}
  BY <1>1, <1>2, CallTaken
<1>4. pMsgTmp # None /\ pMsg = None /\ ~Deleted /\ (Deleted' <=> Deleted)
  BY <1>3 DEF CallsInv, Deleted
<1>5. NoControl \in Control /\ control \in [Caller -> Control]
  BY ChannelAssumption DEF NoControl, Control, Ch, TypeOK
<1>6. control' \in [Caller -> Control]
  BY <1>1, <1>5
<1> QED
  BY <1>1, <1>3, <1>4, <1>6 DEF CallsInv

LEMMA StopCalls ==
    ASSUME OneCaller, TypeOK, CallsInv, NEW c \in Caller, RecvStop(c), AtTasks' = AtTasks
    PROVE  CallsInv' /\ mbx' \in Seq(Cmd)
<1>1. /\ mbx # <<>> /\ Head(mbx) = c /\ mbx' = Tail(mbx)
      /\ control[c].cmd \in {"STOP", "DELETE"}
      /\ pMsg' = c /\ linkPc' = "stop" /\ UNCHANGED <<pMsgTmp, control>>
  BY DEF RecvStop, Ask1, Head1
<1>2. /\ mbx' \in Seq(Cmd) /\ OnceIn(mbx') /\ c \in Range(mbx)
      /\ Range(mbx') \subseteq Range(mbx) /\ Caller \cap Range(mbx') = {}
  BY <1>1, CallTaken DEF Answerable
<1>3. pMsgTmp = None /\ ~Deleted /\ "LATE_ACK" \notin Range(mbx) /\ (Deleted' <=> Deleted)
  BY <1>2 DEF CallsInv, Deleted
<1>4. c # None
  BY NoneAssumption
<1> QED
  BY <1>1, <1>2, <1>3, <1>4 DEF CallsInv

\* While the link stops, nobody asks it for anything.
LEMMA DropCalls ==
    ASSUME OneCaller, TypeOK, CallsInv, StopDrop, AtTasks' = AtTasks
    PROVE  CallsInv' /\ mbx' \in Seq(Cmd) /\ control' = control
<1>1. /\ mbx # <<>> /\ linkPc = "stop" /\ mbx' = Tail(mbx)
      /\ control' = [c \in Caller |-> IF c \in {Head(mbx)} THEN NoControl ELSE control[c]]
      /\ UNCHANGED <<pMsg, pMsgTmp, linkPc>>
  BY DEF StopDrop, Stopping, Ack, loop
<1>2. mbx \in Seq(Cmd) /\ Head(mbx) \in Range(mbx)
  BY <1>1, RangeOf DEF TypeOK
<1>3. Head(mbx) \notin Answerable
  BY <1>1, <1>2 DEF CallsInv, Answerable
<1>4. control' = control
  <2>1. control = [c \in Caller |-> control[c]]
    BY DEF TypeOK
  <2>2. \A c \in Caller : c \notin {Head(mbx)}
    BY <1>3 DEF Answerable
  <2> QED BY <1>1, <2>1, <2>2
<1>5. CallsInv' /\ mbx' \in Seq(Cmd)
  BY <1>1, <1>3, <1>4, MailQuiet
<1> QED
  BY <1>4, <1>5

LEMMA StoppedCalls ==
    ASSUME TypeOK, CallsInv, Stopped \/ Join, AtTasks' = AtTasks
    PROVE  /\ CallsInv' /\ mbx' \in Seq(Cmd) /\ control' \in [Caller -> Control]
           /\ pMsg' \in Caller \cup {None}
           /\ linkPc' \in {"idle", "join", "gone"}
<1>1. /\ linkPc \in {"stop", "join"} /\ UNCHANGED <<mbx, pMsgTmp>>
      /\ \/ linkPc' = "join" /\ UNCHANGED <<pMsg, control>>
         \/ /\ linkPc' \in {"idle", "gone"} /\ pMsg' = None
            /\ control' = [c \in Caller |-> IF c \in {pMsg} THEN NoControl ELSE control[c]]
  BY DEF Stopped, Join, Stopping, Ack
<1>2. pMsg # None /\ Caller \cap Range(mbx) = {} /\ pMsgTmp = None
  BY <1>1 DEF CallsInv
<1>3. Deleted' <=> Deleted
  BY DEF Deleted
<1>4. control' \in [Caller -> Control] /\ pMsg' \in Caller \cup {None}
  <2>1. NoControl \in Control /\ control \in [Caller -> Control] /\ pMsg \in Caller \cup {None}
    BY ChannelAssumption DEF NoControl, Control, Ch, TypeOK
  <2> QED BY <1>1, <2>1
<1>5. CallsInv'
  <2>1. CASE linkPc' = "join" /\ UNCHANGED <<pMsg, control>>
    BY <1>1, <1>2, <1>3, <2>1 DEF CallsInv
  <2>2. CASE linkPc' \in {"idle", "gone"} /\ pMsg' = None
    BY <1>1, <1>2, <1>3, <2>2 DEF CallsInv
  <2> QED BY <1>1, <2>1, <2>2
<1> QED
  BY <1>1, <1>4, <1>5 DEF TypeOK

\* A dummy request is queued, or the caller is answered.
LEMMA ChannelCalls ==
    ASSUME OneCaller, TypeOK, CallsInv, NEW c \in Caller,
           \/ RecvDeleteCh(c)
           \/ RecvCreateCh(c),
           \/ pMsgTmp' = c /\ control' = control
           \/ AtTasks' = AtTasks /\ pMsgTmp' = pMsgTmp /\ Ack({c})
    PROVE  /\ CallsInv' /\ mbx' \in Seq(Cmd) /\ control' \in [Caller -> Control]
           /\ pMsgTmp' \in Caller \cup {None}
<1>1. /\ mbx # <<>> /\ Head(mbx) = c /\ mbx' = Tail(mbx)
      /\ control[c].cmd \in {"CREATE_CHANNEL", "DELETE_CHANNEL"}
      /\ UNCHANGED <<pMsg, linkPc>>
  BY DEF RecvDeleteCh, RecvCreateCh, Ask1, Head1, Quiet, loop
<1>2. /\ mbx' \in Seq(Cmd) /\ OnceIn(mbx') /\ c \in Range(mbx)
      /\ Range(mbx') \subseteq Range(mbx) /\ Caller \cap Range(mbx') = {}
  BY <1>1, CallTaken DEF Answerable
<1>3. pMsg = None /\ pMsgTmp = None /\ ~Deleted /\ "LATE_ACK" \notin Range(mbx)
  BY <1>2 DEF CallsInv
<1>4. c # None
  BY NoneAssumption
<1>5. CASE pMsgTmp' = c /\ control' = control
  BY <1>1, <1>2, <1>3, <1>4, <1>5 DEF CallsInv, TypeOK
<1>6. CASE AtTasks' = AtTasks /\ pMsgTmp' = pMsgTmp /\ Ack({c})
  <2>1. Deleted' <=> Deleted
    BY <1>6 DEF Deleted
  <2>2. NoControl \in Control /\ control \in [Caller -> Control]
    BY ChannelAssumption DEF NoControl, Control, Ch, TypeOK
  <2>3. control' \in [Caller -> Control]
    BY <1>6, <2>2 DEF Ack
  <2> QED BY <1>1, <1>2, <1>3, <1>6, <2>1, <2>3 DEF CallsInv
<1> QED
  BY <1>5, <1>6

LEMMA FlushCalls ==
    ASSUME TypeOK, CallsInv, NEW t \in Tsk, Flush(t), Deleted, ~Deleted'
    PROVE  CallsInv' /\ mbx' \in Seq(Cmd)
<1>1. mbx' = After(mbx, "LATE_ACK") /\ UNCHANGED <<pMsg, pMsgTmp, control, linkPc>>
  BY DEF Flush, Post, ctl, loop
<1>2. pMsgTmp # None /\ "LATE_ACK" \notin Range(mbx) /\ Caller \cap Range(mbx) = {}
  BY DEF CallsInv
<1>3. "LATE_ACK" \in Cmd /\ "LATE_ACK" \notin Caller
  BY NoneAssumption DEF Cmd
<1>4. mbx' \in Seq(Cmd) /\ Range(mbx') = Range(mbx) \cup {"LATE_ACK"} /\ OnceIn(mbx')
  BY <1>1, <1>2, <1>3, CommandQueued DEF TypeOK, CallsInv
<1> QED
  BY <1>1, <1>2, <1>3, <1>4 DEF CallsInv
-----------------------------------------------------------------------------
(* The invariant is inductive.                                              *)

\* Three could have a frame, but not the writer and the one to whom it was
\* put out.
LEMMA RefsTwo ==
    ASSUME FramesInv', refs' \in [Frame -> Nat]
    PROVE  refs' \in [Frame -> 0 .. 2]
<1>1. ASSUME NEW f \in Frame PROVE refs'[f] \in 0 .. 2
  <2>1. FrameInv(f)'
    BY DEF FramesInv
  <2>2. /\ refs'[f] = One(Writes(f)') + One((Org(f) \in Outside)') + One((Dup(f) \in Outside)')
        /\ ~(Writes(f)' /\ (Org(f) \in Outside)')
    BY <2>1 DEF FrameInv, Org, Dup, One
  <2> QED BY <2>2 DEF One
<1> QED
  BY <1>1

\* While no channel is being deleted, there is a request object for a dummy:
\* every other one that is not free has a buffer.
LEMMA OneLeft ==
    ASSUME TypeOK, DataInv, ~Deleted, NEW c \in Caller
    PROVE  reqQue > 0
<1> DEFINE A == AtTasks \cup doneQue
           F == [r \in A |-> r.in]
<1>1. IsFiniteSet(Bit) /\ Cardinality(Bit) \in Nat /\ IsFiniteSet(Caller)
      /\ NumReq \in Nat /\ NumReq >= Cardinality(Bit) + Cardinality(Caller)
  BY ReqAssumption, FS_CardinalityType
<1>2. Cardinality(Caller) \in Nat /\ Cardinality(Caller) # 0
  BY <1>1, FS_CardinalityType, FS_EmptySet
<1>3. /\ \A r \in A : r.in \in Bit
      /\ \A r, s \in A : r.in = s.in => r = s
  <2>1. \A r \in AtTasks : r.in \in Bit
    BY DEF Deleted, DataInv, RequestsInv, IsReal, Dummy
  <2> QED BY <2>1 DEF DataInv, RequestsInv
<1>4. F \in Injection(A, Bit)
  <2>1. F \in [A -> Bit]
    BY <1>3
  <2>2. \A r, s \in A : F[r] = F[s] => r = s
    BY <1>3
  <2> HIDE DEF A, F
  <2> QED BY <2>1, <2>2 DEF Injection, IsInjective
<1>5. Cardinality(A) <= Cardinality(Bit)
  <2> HIDE DEF A, F
  <2> QED BY <1>1, <1>4, FS_Injection
<1>6. IsFiniteSet(AtTasks) /\ IsFiniteSet(doneQue)
      /\ NumReq = reqQue + Cardinality(AtTasks) + Cardinality(doneQue)
  BY DEF DataInv, CountInv
<1>7. Cardinality(A) = Cardinality(AtTasks) + Cardinality(doneQue)
                       - Cardinality(AtTasks \cap doneQue)
  BY <1>6, FS_Union
<1>8. Cardinality(AtTasks \cap doneQue) = 0
  <2>1. AtTasks \cap doneQue = {}
    BY DEF DataInv, RequestsInv
  <2> QED BY <2>1, FS_EmptySet
<1>9. Cardinality(AtTasks) \in Nat /\ Cardinality(doneQue) \in Nat /\ reqQue \in Nat
  BY <1>6, FS_CardinalityType DEF TypeOK
<1>10. Cardinality(A) = Cardinality(AtTasks) + Cardinality(doneQue)
  BY <1>7, <1>8, <1>9
<1> HIDE DEF A, F
<1>11. Cardinality(AtTasks) + Cardinality(doneQue) <= Cardinality(Bit)
  BY <1>5, <1>10
<1> QED
  BY ONLY <1>1, <1>2, <1>6, <1>9, <1>11

\* The neighbours.
LEMMA FillStep == ASSUME DecInv, NEW b \in Bit, Fill(b) PROVE DecInv'
<1>1. /\ prev' = prev \ {b} /\ prevFull' = prevFull \cup {b} /\ mbx' = After(mbx, "NEW_DATA")
      /\ UNCHANGED <<full, next, inQue, frames, codec, tasks, chans, newDataOnFree, loop,
                     ctl, freePc>>
  BY DEF Fill, Post
<1>2. QueuesInv' /\ AtTasks' = AtTasks
  BY <1>1, QueueStill DEF DecInv, tasks
<1>3. DataInv'
  BY <1>2, FillData DEF DecInv
<1>4. CallsInv' /\ mbx' \in Seq(Cmd)
  BY <1>1, <1>2, MailQuiet DEF DecInv, loop, ctl
<1>5. TypeOK'
  BY <1>1, <1>4 DEF DecInv, TypeOK, frames, codec, tasks, chans, loop, ctl
<1>6. LoopInv'
  BY <1>1 DEF DecInv, LoopInv, loop
<1> QED
  BY <1>2, <1>3, <1>4, <1>5, <1>6 DEF DecInv

LEMMA TickStep == ASSUME DecInv, Tick PROVE DecInv'
<1>1. /\ mbx' = After(mbx, "GET_PROCESSED_DATA")
      /\ UNCHANGED <<outer, inQue, frames, codec, tasks, chans, newDataOnFree, loop, ctl,
                     freePc>>
  BY DEF Tick, Post
<1>2. QueuesInv' /\ AtTasks' = AtTasks
  BY <1>1, QueueStill DEF DecInv, tasks
<1>3. DataInv'
  BY <1>1, <1>2, DataStay DEF DecInv, outer, frames, codec, tasks, chans
<1>4. CallsInv' /\ mbx' \in Seq(Cmd)
  BY <1>1, <1>2, MailQuiet DEF DecInv, loop, ctl
<1>5. TypeOK'
  BY <1>1, <1>4 DEF DecInv, TypeOK, outer, frames, codec, tasks, chans, loop, ctl
<1>6. LoopInv'
  BY <1>1 DEF DecInv, LoopInv, loop
<1> QED
  BY <1>2, <1>3, <1>4, <1>5, <1>6 DEF DecInv

LEMMA AskStep ==
    ASSUME OneCaller, DecInv, NEW c \in Caller, NEW cmd, NEW ch \in Ch, Ask(c, cmd, ch)
    PROVE  DecInv'
<1>1. /\ control' = [control EXCEPT ![c] = [cmd |-> cmd, ch |-> ch]]
      /\ phase' \in {phase, "stop", "delete"}
      /\ cmd \in {"CREATE_CHANNEL", "DELETE_CHANNEL", "STOP", "DELETE"}
      /\ UNCHANGED <<outer, inQue, frames, codec, tasks, chans, newDataOnFree, loop, pMsg,
                     pMsgTmp, freePc>>
  BY DEF Ask
<1>2. QueuesInv' /\ AtTasks' = AtTasks
  BY <1>1, QueueStill DEF DecInv, tasks
<1>3. DataInv'
  BY <1>1, <1>2, DataStay DEF DecInv, outer, frames, codec, tasks, chans
<1>4. CallsInv' /\ mbx' \in Seq(Cmd)
  BY <1>2, AskCalls DEF DecInv
<1>5. control' \in [Caller -> Control]
  BY <1>1 DEF DecInv, TypeOK, Control
<1>6. TypeOK'
  BY <1>1, <1>4, <1>5 DEF DecInv, TypeOK, outer, frames, codec, tasks, chans, loop
<1>7. LoopInv'
  BY <1>1 DEF DecInv, LoopInv, loop
<1> QED
  BY <1>2, <1>3, <1>4, <1>6, <1>7 DEF DecInv

LEMMA NextLinkStep == ASSUME DecInv, NextLink PROVE DecInv'
<1>1. QueuesInv' /\ AtTasks' = AtTasks
  <2>1. UNCHANGED tasks
    BY DEF NextLink, GetFullFrames, PutEmptyFrames, PutEmptySend, PutEmptyClear
  <2> QED BY <2>1, QueueStill DEF DecInv, tasks
<1>2. UNCHANGED loop /\ LoopInv'
  <2>1. UNCHANGED loop
    BY DEF NextLink, GetFullFrames, PutEmptyFrames, PutEmptySend, PutEmptyClear
  <2> QED BY <2>1 DEF DecInv, LoopInv, loop
<1>3. CallsInv' /\ mbx' \in Seq(Cmd)
  <2>1. mbx' \in {mbx, After(mbx, "NEW_DATA")} /\ UNCHANGED ctl
    BY DEF NextLink, GetFullFrames, PutEmptyFrames, PutEmptySend, PutEmptyClear, Post
  <2> QED BY <1>1, <1>2, <2>1, MailQuiet DEF DecInv, loop, ctl
<1>4. ASSUME GetFullFrames PROVE DecInv'
  <2>1. DataInv'
    BY <1>1, <1>4, GetFullData DEF DecInv
  <2>2. TypeOK'
    BY <1>3, <1>4 DEF GetFullFrames, DecInv, TypeOK, frames, codec, tasks, chans, loop, ctl
  <2> QED BY <1>1, <1>2, <1>3, <2>1, <2>2 DEF DecInv
<1>5. ASSUME NEW S \in SUBSET next, PutEmptyFrames(S) PROVE DecInv'
  <2>1. /\ DataInv' /\ refs' \in [Frame -> Nat] /\ invalid' \subseteq Frame
        /\ emptyQue' \in [Ch -> SUBSET Frame] /\ fvidFrmQue' \in [Ch -> SUBSET Frame]
    BY <1>1, <1>5, PutEmptyData DEF DecInv
  <2>2. refs' \in [Frame -> 0 .. 2]
    BY <2>1, RefsTwo DEF DataInv
  <2>3. /\ next' = next \ S /\ freePc' \in {"send", "idle"}
        /\ UNCHANGED <<prev, prevFull, full, inQue, codec, tasks, chans, newDataOnFree, loop,
                       ctl, mbx>>
    BY <1>5 DEF PutEmptyFrames
  <2>4. TypeOK'
    BY <2>1, <2>2, <2>3 DEF DecInv, TypeOK, codec, tasks, chans, loop, ctl
  <2> QED BY <1>1, <1>2, <1>3, <2>1, <2>4 DEF DecInv
<1>6. ASSUME PutEmptySend \/ PutEmptyClear PROVE DecInv'
  <2>1. /\ UNCHANGED <<outer, inQue, frames, codec, tasks, chans, loop, ctl>>
        /\ newDataOnFree' \in {newDataOnFree, FALSE} /\ freePc' \in {"clear", "idle"}
    BY <1>6 DEF PutEmptySend, PutEmptyClear
  <2>2. DataInv'
    BY <1>1, <2>1, DataStay DEF DecInv, outer, frames, codec, tasks, chans
  <2>3. TypeOK'
    BY <1>3, <2>1, ZenonT(30) DEF DecInv, TypeOK, outer, frames, codec, tasks, chans, loop, ctl
  <2> QED BY <1>1, <1>2, <1>3, <2>2, <2>3 DEF DecInv
<1> QED
  BY <1>4, <1>5, <1>6 DEF NextLink
\* The link's task.
LEMMA ScanStep ==
    ASSUME DecInv, UNCHANGED Scan, newDataOnFree' \in BOOLEAN, startChID' \in Ch, idx' \in Ch,
           left' \in 1 .. NumCh, tries' \in 0 .. 2, again' \in BOOLEAN,
           linkPc \in {"top", "mark", "try", "retest", "remark"},
           linkPc' \in {"idle", "top", "mark", "try", "retest", "remark"}
    PROVE  DecInv'
<1>1. UNCHANGED <<outer, inQue, frames, codec, tasks, chans, ctl, mbx, freePc>>
  BY DEF Scan
<1>2. QueuesInv' /\ AtTasks' = AtTasks
  BY <1>1, QueueStill DEF DecInv, tasks
<1>3. DataInv'
  BY <1>1, <1>2, DataStay DEF DecInv, outer, frames, codec, tasks, chans
<1>4. CallsInv' /\ mbx' \in Seq(Cmd)
  BY <1>1, <1>2, MailQuiet DEF DecInv, ctl
<1>5. TypeOK'
  BY <1>1, <1>4 DEF DecInv, TypeOK, outer, frames, codec, tasks, chans, ctl, Ch
<1>6. LoopInv'
  BY DEF LoopInv
<1> QED
  BY <1>2, <1>3, <1>4, <1>5, <1>6 DEF DecInv

LEMMA ProcessDataStep == ASSUME DecInv, ProcessData PROVE DecInv'
<1>1. /\ newDataOnFree \in BOOLEAN /\ startChID \in Ch /\ idx \in Ch /\ left \in 1 .. NumCh
      /\ tries \in 0 .. 2 /\ again \in BOOLEAN /\ NumCh \in Nat \ {0}
      /\ PerCall[idx] \in {1, 2}
  BY ChannelAssumption DEF DecInv, TypeOK, LoopInv
<1>2. ASSUME RecvNew PROVE DecInv'
  <2>1. /\ mbx # <<>> /\ Head(mbx) = "NEW_DATA" /\ mbx' = Tail(mbx)
        /\ linkPc = "idle" /\ linkPc' = "take" /\ newDataOnFree' = FALSE
        /\ UNCHANGED <<outer, inQue, frames, codec, tasks, chans, startChID, idx, left, tries,
                       again, ctl, freePc>>
    BY <1>2 DEF RecvNew, Head1
  <2>2. QueuesInv' /\ AtTasks' = AtTasks
    BY <2>1, QueueStill DEF DecInv, tasks
  <2>3. DataInv'
    BY <2>1, <2>2, DataStay DEF DecInv, outer, frames, codec, tasks, chans
  <2>4. CallsInv' /\ mbx' \in Seq(Cmd)
    <3>1. "NEW_DATA" \notin Answerable
      BY NoneAssumption DEF Answerable
    <3> QED BY <2>1, <2>2, <3>1, MailQuiet DEF DecInv, ctl
  <2>5. TypeOK'
    BY <2>1, <2>4 DEF DecInv, TypeOK, outer, frames, codec, tasks, chans, ctl
  <2>6. LoopInv'
    BY <1>1, <2>1 DEF LoopInv
  <2> QED BY <2>2, <2>3, <2>4, <2>5, <2>6 DEF DecInv
<1>3. ASSUME NEW D \in SUBSET prevFull, QueueBufs(D) PROVE DecInv'
  <2>1. /\ prev' = prev \cup D /\ prevFull' = {}
        /\ linkPc = "take" /\ linkPc' = "top" /\ idx' = startChID /\ left' = NumCh
        /\ tries' = 0 /\ again' = FALSE
        /\ UNCHANGED <<full, next, frames, codec, tasks, chans, newDataOnFree, startChID, ctl,
                       mbx, freePc>>
    BY <1>3 DEF QueueBufs
  <2>2. QueuesInv' /\ AtTasks' = AtTasks
    BY <2>1, QueueStill DEF DecInv, tasks
  <2>3. DataInv' /\ inQue' \in [Ch -> SUBSET Bit]
    BY <1>3, <2>2, QueueBufsData DEF DecInv
  <2>4. CallsInv' /\ mbx' \in Seq(Cmd)
    BY <2>1, <2>2, MailQuiet DEF DecInv, ctl
  <2>5. LoopInv'
    BY <1>1, <2>1 DEF LoopInv
  <2>6. prev' \subseteq Bit /\ prevFull' \subseteq Bit
    BY <1>3, <2>1 DEF DecInv, TypeOK
  <2>7. idx' \in Nat /\ left' \in 0 .. NumCh /\ tries' \in 0 .. 2 /\ again' \in BOOLEAN
    <3>1. startChID \in Nat /\ NumCh \in 0 .. NumCh
      BY <1>1 DEF Ch
    <3>2. again' \in BOOLEAN
      BY <2>1
    <3> QED BY <2>1, <3>1, <3>2
  <2>8. TypeOK'
    BY <2>1, <2>3, <2>4, <2>6, <2>7 DEF DecInv, TypeOK, frames, codec, tasks, chans, ctl
  <2> QED BY <2>2, <2>3, <2>4, <2>5, <2>8 DEF DecInv
<1>4. ASSUME \/ Test("top", "mark", "try") \/ MarkIt("mark")
             \/ Test("retest", "remark", "try") \/ MarkIt("remark")
      PROVE  DecInv'
  BY <1>1, <1>4, ScanStep DEF Test, MarkIt
<1>5. ASSUME NEW b \in Bit, NEW f \in Frame, Submit(b, f) PROVE DecInv'
  <2>1. /\ linkPc = "try" /\ tries < PerCall[idx] /\ reqQue > 0
        /\ reqQue' = reqQue - 1 /\ tries' = tries + 1 /\ again' = TRUE
        /\ UNCHANGED <<outer, fvidFrmQue, invalid, codec, doneQue, taskPc, batch,
                       chans, newDataOnFree, startChID, linkPc, idx, left, ctl, mbx, freePc>>
    BY <1>5 DEF Submit, MayTry
  <2>2. /\ DataInv' /\ QueuesInv'
        /\ processQue' \in [Tsk -> Seq(Request)] /\ inQue' \in [Ch -> SUBSET Bit]
        /\ emptyQue' \in [Ch -> SUBSET Frame] /\ refs' \in [Frame -> Nat]
        /\ \A s : (s \in AtTasks)' => s \in AtTasks \/ s.in # None
    BY <1>5, SubmitData DEF DecInv
  <2>3. refs' \in [Frame -> 0 .. 2]
    BY <2>2, RefsTwo DEF DataInv
  <2>4. CallsInv' /\ mbx' \in Seq(Cmd)
    BY <2>1, <2>2, MailQuiet DEF DecInv, ctl
  <2>5. reqQue' \in 0 .. NumReq /\ tries' \in 0 .. 2
    BY <1>1, <2>1, ReqAssumption DEF DecInv, TypeOK
  <2>6. TypeOK'
    BY <2>1, <2>2, <2>3, <2>4, <2>5 DEF DecInv, TypeOK, outer, codec, chans, ctl
  <2>7. LoopInv'
    BY <1>1, <2>1 DEF LoopInv
  <2> QED BY <2>2, <2>4, <2>6, <2>7 DEF DecInv
<1>6. ASSUME Fail PROVE DecInv'
  <2>1. tries < PerCall[idx] /\ tries' = tries + 1
    BY <1>6 DEF Fail, MayTry
  <2>2. tries' \in 0 .. 2
    BY <1>1, <2>1
  <2> QED BY <1>1, <1>6, <2>2, ScanStep DEF Fail, MayTry
<1>7. ASSUME NextCh PROVE DecInv'
  <2>1. /\ linkPc = "try" /\ tries' = 0
        /\ idx' = IF left = 1 THEN startChID ELSE (idx + 1) % NumCh
        /\ left' = IF left = 1 THEN NumCh ELSE left - 1
        /\ again' = (again /\ ~(left = 1))
        /\ linkPc' \in {"idle", "top"}
        /\ UNCHANGED <<Scan, newDataOnFree, startChID>>
    BY <1>7 DEF NextCh
  <2>2. (idx + 1) % NumCh \in Ch
    BY <1>1 DEF Ch
  <2>3. idx' \in Ch /\ left' \in 1 .. NumCh /\ again' \in BOOLEAN
    BY <1>1, <2>1, <2>2
  <2> QED BY <1>1, <2>1, <2>3, ScanStep
<1> QED
  BY <1>2, <1>3, <1>4, <1>5, <1>6, <1>7 DEF ProcessData

LEMMA GetProcessedStep ==
    ASSUME DecInv, NEW skip, RecvGet(skip) \/ StopGet(skip)
    PROVE  DecInv'
<1>1. /\ mbx # <<>> /\ Head(mbx) = "GET_PROCESSED_DATA"
      /\ GetProcessed(Tail(mbx), skip) /\ UNCHANGED <<prevFull, loop, ctl>>
  BY DEF RecvGet, StopGet, Head1
<1>2. /\ reqQue' = reqQue + Cardinality(doneQue) /\ doneQue' = {}
      /\ mbx' \in {Tail(mbx), After(Tail(mbx), "NEW_DATA")}
      /\ newDataOnFree' \in BOOLEAN
      /\ UNCHANGED <<next, inQue, codec, processQue, taskPc, batch, chans, freePc>>
  BY <1>1 DEF GetProcessed, Tell
<1>3. QueuesInv' /\ AtTasks' = AtTasks
  BY <1>2, QueueStill DEF DecInv
<1>4. /\ DataInv' /\ refs' \in [Frame -> Nat] /\ invalid' \subseteq Frame
      /\ emptyQue' \in [Ch -> SUBSET Frame] /\ fvidFrmQue' \in [Ch -> SUBSET Frame]
      /\ prev' \subseteq Bit /\ full' \subseteq Item
  BY <1>1, <1>3, GetProcessedData DEF DecInv
<1>5. refs' \in [Frame -> 0 .. 2]
  BY <1>4, RefsTwo DEF DataInv
<1>6. CallsInv' /\ mbx' \in Seq(Cmd)
  <2>1. "GET_PROCESSED_DATA" \notin Answerable
    BY NoneAssumption DEF Answerable
  <2> QED BY <1>1, <1>2, <1>3, <2>1, MailQuiet DEF DecInv, loop, ctl
<1>7. reqQue' \in 0 .. NumReq
  <2>1. /\ Cardinality(AtTasks) \in Nat /\ Cardinality(doneQue) \in Nat /\ reqQue \in Nat
        /\ NumReq = reqQue + Cardinality(AtTasks) + Cardinality(doneQue)
    BY FS_CardinalityType DEF DecInv, DataInv, CountInv, TypeOK
  <2> QED BY <1>2, <2>1
<1>8. TypeOK'
  BY <1>1, <1>2, <1>4, <1>5, <1>6, <1>7 DEF DecInv, TypeOK, codec, chans, loop, ctl
<1>9. LoopInv'
  BY <1>1 DEF DecInv, LoopInv, loop
<1> QED
  BY <1>3, <1>4, <1>6, <1>8, <1>9 DEF DecInv

LEMMA ChannelStep ==
    ASSUME OneCaller, DecInv, NEW c \in Caller, RecvDeleteCh(c) \/ RecvCreateCh(c)
    PROVE  DecInv'
<1>1. ~Deleted /\ control[c].ch \in Ch
  BY AskedFor DEF RecvDeleteCh, RecvCreateCh, DecInv
<1>2. reqQue > 0
  BY <1>1, OneLeft DEF DecInv
<1>3. /\ UNCHANGED <<full, next, prevFull, refs, codec, doneQue, taskPc, batch, newDataOnFree,
                     loop, pMsg, phase, freePc>>
      /\ \/ Ack({c}) /\ UNCHANGED <<reqQue, processQue, pMsgTmp>>
         \/ UNCHANGED control /\ pMsgTmp' = c /\ reqQue' = reqQue - 1
  BY DEF RecvDeleteCh, RecvCreateCh, Quiet, Deleting
<1>4. /\ DataInv' /\ QueuesInv'
      /\ processQue' \in [Tsk -> Seq(Request)] /\ inQue' \in [Ch -> SUBSET Bit]
      /\ prev' \subseteq Bit
      /\ openLocal' \in [Ch -> BOOLEAN] /\ open' \in [Ch -> BOOLEAN]
      /\ outFrames' \in [Ch -> SUBSET Frame] /\ emptyQue' \in [Ch -> SUBSET Frame]
      /\ fvidFrmQue' \in [Ch -> SUBSET Frame] /\ invalid' \subseteq Frame
  <2>1. CASE RecvDeleteCh(c)
    <3>1. /\ DataInv' /\ QueuesInv'
          /\ processQue' \in [Tsk -> Seq(Request)] /\ inQue' \in [Ch -> SUBSET Bit]
          /\ prev' \subseteq Bit /\ openLocal' \in [Ch -> BOOLEAN]
      BY <2>1, DeleteChData DEF DecInv
    <3>2. /\ UNCHANGED <<emptyQue, fvidFrmQue, outFrames, open>>
          /\ invalid' = invalid \cup outFrames[control[c].ch]
      BY <2>1 DEF RecvDeleteCh, Deleting
    <3> QED BY <1>1, <3>1, <3>2 DEF DecInv, TypeOK
  <2>2. CASE RecvCreateCh(c)
    BY <2>2, CreateChData DEF DecInv
  <2> QED BY <2>1, <2>2
<1>5. \/ pMsgTmp' = c /\ control' = control
      \/ AtTasks' = AtTasks /\ pMsgTmp' = pMsgTmp /\ Ack({c})
  <2>1. UNCHANGED <<processQue, batch>> => AtTasks' = AtTasks
    BY DEF AtTasks
  <2> QED BY <1>3, <2>1
<1>6. /\ CallsInv' /\ mbx' \in Seq(Cmd) /\ control' \in [Caller -> Control]
      /\ pMsgTmp' \in Caller \cup {None}
  BY <1>5, ChannelCalls DEF DecInv
<1>7. reqQue' \in 0 .. NumReq
  <2>1. reqQue \in 0 .. NumReq /\ NumReq \in Nat
    BY ReqAssumption DEF DecInv, TypeOK
  <2>2. reqQue' = reqQue \/ reqQue' = reqQue - 1
    BY <1>3
  <2> QED BY <1>2, <2>1, <2>2
<1>8. TypeOK'
  BY <1>3, <1>4, <1>6, <1>7 DEF DecInv, TypeOK, codec, loop
<1>9. LoopInv'
  BY <1>3 DEF DecInv, LoopInv, loop
<1> QED
  BY <1>4, <1>6, <1>8, <1>9 DEF DecInv

\* A step of the link's task that moves no data but the previous link's.
LEMMA CallStep ==
    ASSUME DecInv, DataInv', QueuesInv', CallsInv',
           mbx' \in Seq(Cmd), control' \in [Caller -> Control],
           pMsg' \in Caller \cup {None}, pMsgTmp' \in Caller \cup {None},
           linkPc' \in {"idle", "stop", "join", "gone"},
           taskPc' \in [Tsk -> {"get", "codec", "flush", "end"}],
           prev' \subseteq Bit, prevFull' \subseteq Bit,
           UNCHANGED <<full, next, inQue, frames, codec, reqQue, processQue, doneQue, batch,
                       chans, newDataOnFree, startChID, idx, left, tries, again, phase,
                       freePc>>
    PROVE  DecInv'
<1>1. TypeOK'
  BY DEF DecInv, TypeOK, frames, codec, chans
<1>2. LoopInv'
  BY DEF DecInv, LoopInv
<1> QED
  BY <1>1, <1>2 DEF DecInv

LEMMA LateStep == ASSUME OneCaller, DecInv, RecvLate PROVE DecInv'
<1>1. /\ UNCHANGED <<outer, inQue, frames, codec, tasks, chans, newDataOnFree, loop, pMsg,
                     phase, freePc>>
      /\ pMsgTmp' = None /\ linkPc' = "idle"
  BY DEF RecvLate, Head1, loop
<1>2. QueuesInv' /\ AtTasks' = AtTasks
  BY <1>1, QueueStill DEF DecInv, tasks
<1>3. DataInv'
  BY <1>1, <1>2, DataStay DEF DecInv, outer, frames, codec, tasks, chans
<1>4. CallsInv' /\ mbx' \in Seq(Cmd) /\ control' \in [Caller -> Control]
  BY <1>2, LateCalls DEF DecInv
<1>5. /\ pMsg' \in Caller \cup {None} /\ prev' \subseteq Bit /\ prevFull' \subseteq Bit
      /\ taskPc' \in [Tsk -> {"get", "codec", "flush", "end"}]
  BY <1>1 DEF DecInv, TypeOK, outer, tasks
<1> QED
  BY <1>1, <1>2, <1>3, <1>4, <1>5, CallStep DEF outer, tasks, loop

LEMMA StopStep == ASSUME OneCaller, DecInv, NEW c \in Caller, RecvStop(c) PROVE DecInv'
<1>1. /\ UNCHANGED <<outer, inQue, frames, codec, tasks, chans, newDataOnFree, startChID, idx,
                     left, tries, again, pMsgTmp, control, phase, freePc>>
      /\ pMsg' = c /\ linkPc' = "stop"
  BY DEF RecvStop
<1>2. QueuesInv' /\ AtTasks' = AtTasks
  BY <1>1, QueueStill DEF DecInv, tasks
<1>3. DataInv'
  BY <1>1, <1>2, DataStay DEF DecInv, outer, frames, codec, tasks, chans
<1>4. CallsInv' /\ mbx' \in Seq(Cmd)
  BY <1>2, StopCalls DEF DecInv
<1>5. /\ pMsgTmp' \in Caller \cup {None} /\ control' \in [Caller -> Control]
      /\ prev' \subseteq Bit /\ prevFull' \subseteq Bit
      /\ taskPc' \in [Tsk -> {"get", "codec", "flush", "end"}]
  BY <1>1 DEF DecInv, TypeOK, outer, tasks
<1> QED
  BY <1>1, <1>2, <1>3, <1>4, <1>5, CallStep DEF outer, tasks

LEMMA DropStep == ASSUME OneCaller, DecInv, StopDrop PROVE DecInv'
<1>1. /\ UNCHANGED <<outer, inQue, frames, codec, tasks, chans, newDataOnFree, loop, pMsg,
                     pMsgTmp, phase, freePc>>
      /\ linkPc' = "stop"
  BY DEF StopDrop, Stopping, loop
<1>2. QueuesInv' /\ AtTasks' = AtTasks
  BY <1>1, QueueStill DEF DecInv, tasks
<1>3. DataInv'
  BY <1>1, <1>2, DataStay DEF DecInv, outer, frames, codec, tasks, chans
<1>4. CallsInv' /\ mbx' \in Seq(Cmd) /\ control' = control
  BY <1>2, DropCalls DEF DecInv
<1>5. /\ pMsg' \in Caller \cup {None} /\ pMsgTmp' \in Caller \cup {None}
      /\ control' \in [Caller -> Control] /\ prev' \subseteq Bit /\ prevFull' \subseteq Bit
      /\ taskPc' \in [Tsk -> {"get", "codec", "flush", "end"}]
  BY <1>1, <1>4 DEF DecInv, TypeOK, outer, tasks
<1> QED
  BY <1>1, <1>2, <1>3, <1>4, <1>5, CallStep DEF outer, tasks, loop

LEMMA StoppedStep == ASSUME DecInv, Stopped \/ Join PROVE DecInv'
<1>1. /\ UNCHANGED <<full, next, inQue, frames, codec, reqQue, processQue, doneQue, batch,
                     chans, newDataOnFree, startChID, idx, left, tries, again, phase,
                     pMsgTmp, freePc>>
      /\ taskPc' = taskPc \/ Unblock
  BY DEF Stopped, Join, outer, tasks
<1>2. /\ QueuesInv' /\ AtTasks' = AtTasks
      /\ taskPc' \in [Tsk -> {"get", "codec", "flush", "end"}]
  BY <1>1, QueueStill DEF DecInv
<1>3. DataInv' /\ prev' \subseteq Bit /\ prevFull' \subseteq Bit
  <2>1. CASE Stopped
    <3>1. prev' = prev \cup prevFull /\ prevFull' = {}
      BY <2>1 DEF Stopped
    <3> QED BY <1>2, <2>1, <3>1, StoppedData DEF DecInv, TypeOK
  <2>2. CASE Join
    <3>1. prev' = prev /\ prevFull' = prevFull
      BY <2>2 DEF Join, outer
    <3> QED BY <1>1, <1>2, <3>1, DataStay DEF DecInv, TypeOK, frames, codec, chans
  <2> QED BY <2>1, <2>2
<1>4. /\ CallsInv' /\ mbx' \in Seq(Cmd) /\ control' \in [Caller -> Control]
      /\ pMsg' \in Caller \cup {None} /\ linkPc' \in {"idle", "join", "gone"}
  BY <1>2, StoppedCalls DEF DecInv
<1>5. pMsgTmp' \in Caller \cup {None}
  BY <1>1 DEF DecInv, TypeOK
<1> QED
  BY <1>1, <1>2, <1>3, <1>4, <1>5, CallStep

\* The process tasks.
LEMMA GetStep == ASSUME DecInv, NEW t \in Tsk, Get(t) PROVE DecInv'
<1>1. UNCHANGED <<outer, inQue, frames, codec, reqQue, doneQue, chans, newDataOnFree, loop,
                  ctl, mbx, freePc>>
  BY DEF Get
<1>2. /\ processQue' \in [Tsk -> Seq(Request)] /\ batch' \in [Tsk -> Seq(Request)]
      /\ taskPc' \in [Tsk -> {"get", "codec", "flush", "end"}]
      /\ QueuesInv' /\ \A r : (r \in AtTasks)' <=> r \in AtTasks
  BY QueueGet DEF DecInv, DataInv
<1>3. AtTasks' = AtTasks
  BY <1>2
<1>4. DataInv'
  BY <1>1, <1>3, DataStay DEF DecInv, outer, frames, codec, chans
<1>5. CallsInv' /\ mbx' \in Seq(Cmd)
  BY <1>1, <1>3, MailQuiet DEF DecInv, loop, ctl
<1>6. TypeOK'
  BY <1>1, <1>2, <1>5 DEF DecInv, TypeOK, outer, frames, codec, chans, loop, ctl
<1>7. LoopInv'
  BY <1>1 DEF DecInv, LoopInv, loop
<1> QED
  BY <1>2, <1>4, <1>5, <1>6, <1>7 DEF DecInv

LEMMA DecodeStep ==
    ASSUME DecInv, NEW t \in Tsk, taskPc[t] = "codec",
           NEW free \in SUBSET Held(t), NEW show \in SUBSET Held(t),
           NEW use \in SUBSET FirstField(t), Decode(t, free, show, use)
    PROVE  DecInv'
<1>1. /\ DataInv' /\ QueuesInv' /\ \A r : (r \in AtTasks)' => r \in AtTasks
      /\ batch' \in [Tsk -> Seq(Request)] /\ doneQue' \subseteq Request
      /\ taskPc' \in [Tsk -> {"get", "codec", "flush", "end"}]
      /\ refs' \in [Frame -> Nat] /\ invalid' \subseteq Frame
      /\ emptyQue' \in [Ch -> SUBSET Frame] /\ fvidFrmQue' \in [Ch -> SUBSET Frame]
      /\ locked' \in [Ch -> SUBSET Frame] /\ shown' \in [Ch -> SUBSET Frame]
      /\ inUse' \in [Ch -> Frame \cup {None}]
  BY DecodeData DEF DecInv
<1>2. /\ UNCHANGED <<outer, inQue, reqQue, processQue, chans, loop, ctl, freePc>>
      /\ mbx' \in {mbx, After(mbx, "NEW_DATA")} /\ newDataOnFree' \in BOOLEAN
  BY DEF Decode, Tell
<1>3. refs' \in [Frame -> 0 .. 2]
  BY <1>1, RefsTwo DEF DataInv
<1>4. CallsInv' /\ mbx' \in Seq(Cmd)
  BY <1>1, <1>2, MailQuiet DEF DecInv, loop, ctl
<1>5. TypeOK'
  BY <1>1, <1>2, <1>3, <1>4 DEF DecInv, TypeOK, outer, chans, loop, ctl
<1>6. LoopInv'
  BY <1>2 DEF DecInv, LoopInv, loop
<1> QED
  BY <1>1, <1>4, <1>5, <1>6 DEF DecInv

LEMMA FlushStep == ASSUME DecInv, NEW t \in Tsk, Flush(t) PROVE DecInv'
<1>1. /\ DataInv' /\ QueuesInv' /\ Deleted /\ ~Deleted'
      /\ batch' \in [Tsk -> Seq(Request)]
      /\ taskPc' \in [Tsk -> {"get", "codec", "flush", "end"}]
      /\ refs' \in [Frame -> Nat] /\ invalid' \subseteq Frame
      /\ emptyQue' \in [Ch -> SUBSET Frame] /\ fvidFrmQue' \in [Ch -> SUBSET Frame]
      /\ locked' \in [Ch -> SUBSET Frame] /\ shown' \in [Ch -> SUBSET Frame]
      /\ inUse' \in [Ch -> Frame \cup {None}]
      /\ open' \in [Ch -> BOOLEAN] /\ openLocal' \in [Ch -> BOOLEAN]
  BY FlushData DEF DecInv
<1>2. /\ UNCHANGED <<outer, inQue, processQue, doneQue, outFrames, newDataOnFree, loop, ctl,
                     freePc>>
      /\ reqQue' = reqQue + 1
  BY DEF Flush
<1>3. refs' \in [Frame -> 0 .. 2]
  BY <1>1, RefsTwo DEF DataInv
<1>4. CallsInv' /\ mbx' \in Seq(Cmd)
  BY <1>1, FlushCalls DEF DecInv
<1>5. reqQue' \in 0 .. NumReq
  <2>1. IsFiniteSet(AtTasks)' /\ IsFiniteSet(doneQue)'
        /\ NumReq = reqQue' + Cardinality(AtTasks)' + Cardinality(doneQue)'
    BY <1>1 DEF DataInv, CountInv
  <2>2. Cardinality(AtTasks)' \in Nat /\ Cardinality(doneQue)' \in Nat
    BY <2>1, FS_CardinalityType
  <2>3. reqQue' \in Nat /\ NumReq \in Nat
    BY <1>2, ReqAssumption DEF DecInv, TypeOK
  <2> QED BY <2>1, <2>2, <2>3
<1>6. TypeOK'
  BY <1>1, <1>2, <1>3, <1>4, <1>5 DEF DecInv, TypeOK, outer, loop, ctl
<1>7. LoopInv'
  BY <1>2 DEF DecInv, LoopInv, loop
<1> QED
  BY <1>1, <1>4, <1>6, <1>7 DEF DecInv

LEMMA Step == ASSUME OneCaller, DecInv, [Next]_vars PROVE DecInv'
<1>1. ASSUME LinkTask PROVE DecInv'
  BY <1>1, ProcessDataStep, GetProcessedStep, ChannelStep, StopStep, LateStep, DropStep,
     StoppedStep DEF LinkTask
<1>2. ASSUME NEW t \in Tsk, ProcessTask(t) PROVE DecInv'
  BY <1>2, GetStep, DecodeStep, FlushStep DEF ProcessTask
<1>3. ASSUME UNCHANGED vars PROVE DecInv'
  <2>1. UNCHANGED <<outer, inQue, frames, codec, tasks, chans, newDataOnFree, loop, ctl, mbx,
                    freePc>>
    BY <1>3 DEF vars
  <2>2. QueuesInv' /\ AtTasks' = AtTasks
    BY <2>1, QueueStill DEF DecInv, tasks
  <2>3. DataInv'
    BY <2>1, <2>2, DataStay DEF DecInv, outer, frames, codec, tasks, chans
  <2>4. CallsInv' /\ mbx' \in Seq(Cmd)
    BY <2>1, <2>2, MailQuiet DEF DecInv, loop, ctl
  <2>5. TypeOK'
    BY <2>1, <2>4 DEF DecInv, TypeOK, outer, frames, codec, tasks, chans, loop, ctl
  <2>6. LoopInv'
    BY <2>1 DEF DecInv, LoopInv, loop
  <2> QED BY <2>2, <2>3, <2>4, <2>5, <2>6 DEF DecInv
<1> QED
  BY <1>1, <1>2, <1>3, NextLinkStep, FillStep, TickStep, AskStep DEF Next, Callers, Done

LEMMA First == ASSUME Init PROVE DecInv
<1>1. AtTasks = {} /\ Outside = {} /\ Outs = {} /\ Range(<<>>) = {}
  BY EmptyQueue DEF Init, AtTasks, Outside, Outs
<1>2. TypeOK
  <2>1. 0 \in Ch /\ NumCh \in Nat /\ NumReq \in 0 .. NumReq /\ <<>> \in Seq(Request)
        /\ <<>> \in Seq(Cmd)
    BY ChannelAssumption, ReqAssumption, EmptySeq DEF Ch
  <2>2. /\ fvidFrmQue \in [Ch -> SUBSET Frame] /\ refs \in [Frame -> 0 .. 2]
        /\ control \in [Caller -> Control] /\ linkPc = "idle" /\ phase = "run"
    BY <2>1 DEF Init, Frames, Control, NoControl
  <2>3. /\ prev \subseteq Bit /\ prevFull \subseteq Bit /\ full \subseteq Item
        /\ next \subseteq Item /\ inQue \in [Ch -> SUBSET Bit]
        /\ outFrames \in [Ch -> SUBSET Frame] /\ emptyQue \in [Ch -> SUBSET Frame]
        /\ invalid \subseteq Frame
    BY DEF Init
  <2>4. /\ locked \in [Ch -> SUBSET Frame] /\ shown \in [Ch -> SUBSET Frame]
        /\ inUse \in [Ch -> Frame \cup {None}]
        /\ reqQue \in 0 .. NumReq /\ doneQue \subseteq Request
        /\ processQue \in [Tsk -> Seq(Request)] /\ batch \in [Tsk -> Seq(Request)]
        /\ taskPc \in [Tsk -> {"get", "codec", "flush", "end"}]
    BY <2>1 DEF Init
  <2>5. newDataOnFree \in BOOLEAN /\ again \in BOOLEAN
    BY DEF Init
  <2>6. /\ open \in [Ch -> BOOLEAN] /\ openLocal \in [Ch -> BOOLEAN]
        /\ startChID \in Ch /\ idx \in Nat /\ left \in 0 .. NumCh /\ tries \in 0 .. 2
        /\ pMsg \in Caller \cup {None} /\ pMsgTmp \in Caller \cup {None}
        /\ mbx \in Seq(Cmd) /\ freePc \in {"idle", "send", "clear"}
    BY <2>1 DEF Init
  <2> QED BY <2>2, <2>3, <2>4, <2>5, <2>6 DEF TypeOK
<1>3. QueuesInv
  <2>1. ASSUME NEW t \in Tsk PROVE QueueInv(t)
    <3>1. processQue[t] = <<>> /\ batch[t] = <<>> /\ taskPc[t] = "get" /\ Own(t) = {}
      BY <1>1 DEF Init, Own
    <3> QED BY <1>1, <3>1, EmptyQueue DEF QueueInv
  <2> QED BY <2>1 DEF QueuesInv
<1>4. RequestsInv /\ CountInv
  <2>1. IsFiniteSet({}) /\ Cardinality({}) = 0
    BY FS_EmptySet
  <2> QED BY <1>1, <2>1, ReqAssumption DEF Init, RequestsInv, CountInv
<1>5. BuffersInv
  BY <1>1, ChannelAssumption DEF Init, BuffersInv, BitAlone, InRequest
<1>6. FramesInv
  <2>1. ASSUME NEW f \in Frame PROVE FrameInv(f)
    <3>1. ~AtTask(f) /\ locked[ChOf[f]] = {} /\ refs[f] = 0 /\ ~Writes(f)
      BY <1>1, ChannelAssumption DEF Init, AtTask, Writes
    <3>2. f \in emptyQue[ChOf[f]] => f \notin fvidFrmQue[ChOf[f]]
      BY ChannelAssumption DEF Init
    <3> QED BY <1>1, <3>1, <3>2 DEF FrameInv, One
  <2>2. \A ch \in Ch : emptyQue[ch] \cup fvidFrmQue[ch] \cup locked[ch] \subseteq Frames(ch)
    BY DEF Init
  <2> QED BY <1>1, <2>1, <2>2 DEF Init, FramesInv
<1>7. ChannelsInv
  BY <1>1 DEF Init, ChannelsInv, ChannelInv
<1>8. CallsInv
  BY <1>1 DEF Init, CallsInv, Deleted, OnceIn
<1>9. LoopInv
  BY ChannelAssumption DEF Init, LoopInv, Ch
<1> QED
  BY <1>2, <1>3, <1>4, <1>5, <1>6, <1>7, <1>8, <1>9 DEF DecInv, DataInv
-----------------------------------------------------------------------------
(* The theorems.                                                            *)

\* DecInv holds in every state.
THEOREM Inductive == ASSUME OneCaller PROVE Spec => []DecInv
<1>1. Init => DecInv
  BY First
<1>2. DecInv /\ [Next]_vars => DecInv'
  BY Step
<1> QED
  BY <1>1, <1>2, PTL DEF Spec

\* Every variable of the link keeps its type: no count leaves its range, and
\* a request object is left whenever the link's task takes one.
THEOREM TypeCorrect == ASSUME OneCaller PROVE Spec => []TypeOK
<1>1. DecInv => TypeOK
  BY DEF DecInv
<1> QED
  BY <1>1, Inductive, PTL
-----------------------------------------------------------------------------
(* Every request object and every buffer is in one place.                   *)

LEMMA BitInOnePlace ==
    ASSUME TypeOK, RequestsInv, BuffersInv, NEW b \in Bit
    PROVE  Cardinality(Tagged(BitPlaces(b))) = 1
<1> DEFINE by == BitPlaces(b)
<1>1. /\ DOMAIN by = {"prev", "prevFull", "inQue", "tasks", "doneQue"}
      /\ by["prev"] = {b} \cap prev /\ by["prevFull"] = {b} \cap prevFull
      /\ by["inQue"] = {ch \in Ch : b \in inQue[ch]}
      /\ by["tasks"] = {r \in AtTasks : r.in = b}
      /\ by["doneQue"] = {r \in doneQue : r.in = b}
  BY DEF BitPlaces
<1>2. BitAlone(b) /\ BitCh[b] \in Ch
  BY ChannelAssumption DEF BuffersInv
<1>3. \A ch \in Ch : b \in inQue[ch] => ch = BitCh[b]
  BY DEF BuffersInv
<1>4. /\ by["prev"] # {} <=> b \in prev
      /\ by["prevFull"] # {} <=> b \in prevFull
      /\ by["inQue"] # {} <=> b \in inQue[BitCh[b]]
      /\ by["tasks"] # {} <=> \E r \in AtTasks : r.in = b
      /\ by["doneQue"] # {} <=> \E r \in doneQue : r.in = b
  BY <1>1, <1>2, <1>3, ZenonT(30)
<1>5. PICK k \in DOMAIN by : by[k] # {}
  <2>1. \/ b \in prev \/ b \in prevFull \/ b \in inQue[BitCh[b]]
        \/ \E r \in AtTasks : r.in = b
        \/ \E r \in doneQue : r.in = b
    BY <1>2 DEF BitAlone, InRequest
  <2> HIDE DEF by
  <2> QED BY <1>1, <1>4, <2>1
<1>6. PICK x : x \in by[k]
  BY <1>5
<1>7. \A l \in DOMAIN by : by[l] # {} => l = k
  <2>1. ~(\E r \in AtTasks : r.in = b) \/ ~(\E r \in doneQue : r.in = b)
    BY DEF RequestsInv
  <2>2. InRequest(b) <=> \/ \E r \in AtTasks : r.in = b
                         \/ \E r \in doneQue : r.in = b
    BY DEF InRequest
  <2> HIDE DEF by
  <2> QED BY <1>1, <1>2, <1>4, <1>5, <2>1, <2>2 DEF BitAlone
<1>8. \A y \in by[k] : y = x
  <2>1. \A r, s \in AtTasks : r.in = b /\ s.in = b => r = s
    BY DEF RequestsInv
  <2>2. \A r, s \in doneQue : r.in = b /\ s.in = b => r = s
    BY DEF RequestsInv
  <2>3. CASE k \in {"prev", "prevFull"}
    BY <1>1, <1>6, <2>3
  <2>4. CASE k = "inQue"
    BY <1>1, <1>3, <1>6, <2>4
  <2>5. CASE k = "tasks"
    BY <1>1, <1>6, <2>1, <2>5
  <2>6. CASE k = "doneQue"
    BY <1>1, <1>6, <2>2, <2>6
  <2> HIDE DEF by
  <2> QED BY <1>1, <1>5, <2>3, <2>4, <2>5, <2>6
<1> HIDE DEF by
<1>9. Cardinality(Tagged(by)) = 1
  BY <1>5, <1>6, <1>7, <1>8, OnlyOwner
<1> QED
  BY <1>9 DEF by

\* Every request object of DEC_LINK_MAX_REQ is free, with a process task or
\* done, so that DecLink_codecStop, which waits for all of them, has none to
\* wait for in vain; and no buffer of the previous link is lost or used twice.
THEOREM AlwaysRequestsKept == ASSUME OneCaller PROVE Spec => []RequestsKept
<1>1. DecInv => RequestsKept
  <2> SUFFICES ASSUME DecInv PROVE RequestsKept
    OBVIOUS
  <2>1. NumReq = reqQue + Cardinality(AtTasks) + Cardinality(doneQue)
    BY DEF DecInv, DataInv, CountInv
  <2>2. \A b \in Bit : Cardinality(Tagged(BitPlaces(b))) = 1
    BY BitInOnePlace DEF DecInv, DataInv
  <2> QED BY <2>1, <2>2 DEF RequestsKept
<1> QED
  BY <1>1, Inductive, PTL
-----------------------------------------------------------------------------
(* vdecRefCount counts those who have a frame.                              *)

\* There is at most one duplicate of a frame at a time.
LEMMA DupsFit ==
    ASSUME TypeOK
    PROVE  Cardinality({x \in Outside : x[2]}) <= NumDup
<1> DEFINE D == {x \in Outside : x[2]}
           F == [x \in D |-> x[1]]
<1>1. Outside \subseteq Item
  BY OutsideItems
<1>2. \A x \in D : x[1] \in Frame /\ x = Dup(x[1])
  <2>1. ASSUME NEW x \in D PROVE x[1] \in Frame /\ x = Dup(x[1])
    <3>1. PICK f \in Frame, d \in BOOLEAN : x = <<f, d>>
      BY <1>1, <2>1 DEF Item
    <3>2. x[1] = f /\ x[2] = d /\ d
      BY <2>1, <3>1
    <3>3. d = TRUE
      BY <3>1, <3>2
    <3> QED BY <3>1, <3>2, <3>3 DEF Dup
  <2> QED BY <2>1
<1>3. F \in Injection(D, Frame)
  <2>1. F \in [D -> Frame]
    BY <1>2
  <2>2. \A x, y \in D : F[x] = F[y] => x = y
    BY <1>2
  <2> HIDE DEF D, F
  <2> QED BY <2>1, <2>2 DEF Injection, IsInjective
<1>4. IsFiniteSet(D) /\ Cardinality(D) <= Cardinality(Frame)
  <2>1. IsFiniteSet(Frame)
    BY ChannelAssumption
  <2> HIDE DEF D, F
  <2> QED BY <1>3, <2>1, FS_Injection
<1>5. /\ Cardinality(D) \in Nat /\ Cardinality(Frame) \in Nat /\ NumDup \in Nat
      /\ NumDup >= Cardinality(Frame)
  <2>1. IsFiniteSet(Frame)
    BY ChannelAssumption
  <2> HIDE DEF D, F
  <2> QED BY <1>4, <2>1, FS_CardinalityType, BoundAssumption
<1> HIDE DEF D, F
<1>6. Cardinality(D) <= NumDup
  BY <1>4, <1>5
<1> QED
  BY <1>6 DEF D

\* The count of every frame is that of those who write it or read it, so that
\* it is empty again exactly when none of them needs it any more; the pool of
\* duplicates always has one left.
THEOREM AlwaysRefsHeld == ASSUME OneCaller PROVE Spec => []RefsHeld
<1>1. DecInv => RefsHeld
  <2> SUFFICES ASSUME DecInv PROVE RefsHeld
    OBVIOUS
  <2>1. ASSUME NEW f \in Frame
        PROVE  /\ refs[f] = (IF \/ \E r \in AtTasks : r.out = Org(f)
                                \/ f \in locked[ChOf[f]] THEN 1 ELSE 0)
                            + Cardinality({x \in Outside : x[1] = f})
               /\ refs[f] > 0 => f \notin emptyQue[ChOf[f]] \cup fvidFrmQue[ChOf[f]]
    <3>1. FrameInv(f)
      BY DEF DecInv, DataInv, FramesInv
    <3>2. Cardinality({x \in Outside : x[1] = f})
            = One(Org(f) \in Outside) + One(Dup(f) \in Outside)
      BY OutsideItems, ItemsOf DEF DecInv
    <3>3. One(Org(f) \in Outside) \in Nat /\ One(Dup(f) \in Outside) \in Nat
          /\ One(Writes(f)) \in Nat
      BY DEF One
    <3>4. One(Writes(f)) = IF \/ \E r \in AtTasks : r.out = Org(f)
                              \/ f \in locked[ChOf[f]] THEN 1 ELSE 0
      BY DEF One, Writes, AtTask
    <3>5. /\ refs[f] = One(Writes(f)) + One(Org(f) \in Outside) + One(Dup(f) \in Outside)
          /\ refs[f] > 0 => f \notin emptyQue[ChOf[f]] /\ f \notin fvidFrmQue[ChOf[f]]
      BY <3>1 DEF FrameInv
    <3>6. refs[f] = One(Writes(f)) + Cardinality({x \in Outside : x[1] = f})
      BY <3>2, <3>3, <3>5
    <3> QED BY <3>4, <3>5, <3>6
  <2>2. Cardinality({x \in Outside : x[2]}) <= NumDup
    BY DupsFit DEF DecInv
  <2> QED BY <2>1, <2>2 DEF RefsHeld
<1> QED
  BY <1>1, Inductive, PTL
-----------------------------------------------------------------------------
(* No buffer waits without a reason.                                        *)

Word == "NEW_DATA" \in Range(mbx)

\* What a scan that ends now leaves behind in the channel: no buffer, word of
\* new data, or the flag for a frame, which nobody has returned unseen ...
Settled(ch) == \/ inQue[ch] = {} \/ Word
               \/ newDataOnFree /\ (emptyQue[ch] = {} \/ freePc = "send")
\* ... and what one finds that has passed its test and is to try the channel.
Armed(ch) == inQue[ch] = {} \/ Word \/ newDataOnFree \/ emptyQue[ch] # {}

\* How many channels the scan is away from this one, going round.
Ahead(ch) == IF ch >= idx THEN ch - idx ELSE ch - idx + NumCh
Scanning == linkPc \in {"top", "mark", "try", "retest", "remark"}

\* A scan that has submitted nothing has settled what it left behind, and the
\* channel at hand once it has failed there.
ScanPart ==
    /\ \A ch \in Ch : Ahead(ch) >= left => Settled(ch)
    /\ linkPc = "try" => Armed(idx)
    /\ tries > 0 => Settled(idx)
RunPart ==
    /\ pMsg = None /\ \A c \in Caller : control[c].cmd \notin {"STOP", "DELETE"}
    /\ prevFull # {} => Word \/ linkPc = "take"
    /\ linkPc = "idle" => \A ch \in Ch : Settled(ch)
ScanInv ==
    /\ freePc = "clear" => Word
    /\ linkPc \in {"top", "mark"} => tries = 0
    /\ linkPc \in {"retest", "remark"} => tries > 0
    /\ Scanning /\ ~again => ScanPart
    /\ phase = "run" => RunPart

\* A buffer that waits has left a request object to be submitted with.
LEMMA RequestLeft ==
    ASSUME DecInv, NEW ch \in Ch, inQue[ch] # {}
    PROVE  reqQue > 0
<1> DEFINE A == AtTasks \cup doneQue
           F == [r \in A |-> r.in]
<1>1. PICK b \in Bit : b \in inQue[ch] /\ BitCh[b] = ch
  BY DEF DecInv, TypeOK, DataInv, BuffersInv
<1>2. \A r \in A : r.in # b
  BY <1>1 DEF DecInv, DataInv, BuffersInv, BitAlone, InRequest
<1>3. /\ IsFiniteSet(Bit) /\ Cardinality(Bit) \in Nat /\ IsFiniteSet(Caller)
      /\ Cardinality(Caller) \in Nat /\ NumReq \in Nat
      /\ NumReq >= Cardinality(Bit) + Cardinality(Caller)
  BY ReqAssumption, FS_CardinalityType
<1>4. Deleted => Cardinality(Caller) > 0
  <2>1. Deleted => \E c : c \in Caller
    BY DEF DecInv, CallsInv, TypeOK
  <2>2. Deleted => Cardinality(Caller) # 0
    BY <1>3, <2>1, FS_EmptySet
  <2> QED BY <1>3, <2>2
<1>5. IsFiniteSet(Bit \ {b}) /\ Cardinality(Bit \ {b}) = Cardinality(Bit) - 1
  BY <1>3, FS_RemoveElement
<1>6. PICK B : /\ \A r \in A : r.in \in B
               /\ IsFiniteSet(B) /\ Cardinality(B) < NumReq
  <2>1. ASSUME NEW r \in A PROVE r.in \in Bit \/ (r.in = None /\ Deleted)
    <3>1. CASE r \in doneQue
      BY <3>1 DEF DecInv, DataInv, RequestsInv
    <3>2. CASE r \in AtTasks
      <4>1. r.in \in Bit \/ r.in = None
        BY <3>2 DEF DecInv, DataInv, RequestsInv, IsReal, Dummy
      <4> QED BY <3>2, <4>1 DEF Deleted
    <3> QED BY <3>1, <3>2
  <2>2. CASE ~Deleted
    <3>1. \A r \in A : r.in \in Bit \ {b}
      BY <1>2, <2>1, <2>2
    <3>2. Cardinality(Bit \ {b}) < NumReq
      BY <1>3, <1>5
    <3> QED BY <1>5, <3>1, <3>2
  <2>3. CASE Deleted
    <3>1. \A r \in A : r.in \in (Bit \ {b}) \cup {None}
      BY <1>2, <2>1
    <3>2. /\ IsFiniteSet((Bit \ {b}) \cup {None})
          /\ Cardinality((Bit \ {b}) \cup {None}) = Cardinality(Bit \ {b}) + 1
      <4>1. None \notin Bit \ {b}
        BY NoneAssumption
      <4> QED BY ONLY <1>5, <4>1, FS_AddElement
    <3>3. Cardinality((Bit \ {b}) \cup {None}) < NumReq
      BY <1>3, <1>4, <1>5, <2>3, <3>2
    <3> QED BY <3>1, <3>2, <3>3
  <2> QED BY <2>2, <2>3
<1>7. F \in Injection(A, B)
  <2>1. \A r, s \in A : r.in = s.in => r = s
    BY DEF DecInv, DataInv, RequestsInv
  <2>2. F \in [A -> B]
    BY <1>6
  <2>3. \A r, s \in A : F[r] = F[s] => r = s
    BY <2>1
  <2> HIDE DEF A, F
  <2> QED BY <2>2, <2>3 DEF Injection, IsInjective
<1>8. Cardinality(A) <= Cardinality(B)
  <2> HIDE DEF A, F
  <2> QED BY <1>6, <1>7, FS_Injection
<1>9. /\ IsFiniteSet(AtTasks) /\ IsFiniteSet(doneQue) /\ AtTasks \cap doneQue = {}
      /\ NumReq = reqQue + Cardinality(AtTasks) + Cardinality(doneQue)
  BY DEF DecInv, DataInv, CountInv, RequestsInv
<1>10. Cardinality(A) = Cardinality(AtTasks) + Cardinality(doneQue)
  <2>1. Cardinality(A) = Cardinality(AtTasks) + Cardinality(doneQue)
                         - Cardinality(AtTasks \cap doneQue)
    BY <1>9, FS_Union
  <2>2. Cardinality(AtTasks \cap doneQue) = 0
    BY <1>9, FS_EmptySet
  <2>3. Cardinality(AtTasks) \in Nat /\ Cardinality(doneQue) \in Nat
    BY <1>9, FS_CardinalityType
  <2> QED BY ONLY <2>1, <2>2, <2>3
<1>11. /\ Cardinality(AtTasks) \in Nat /\ Cardinality(doneQue) \in Nat /\ reqQue \in Nat
       /\ Cardinality(B) \in Nat
  BY <1>6, <1>9, FS_CardinalityType DEF DecInv, TypeOK
<1> HIDE DEF A, F
<1>12. Cardinality(AtTasks) + Cardinality(doneQue) < NumReq
  BY ONLY <1>3, <1>6, <1>8, <1>10, <1>11
<1> QED
  BY ONLY <1>3, <1>9, <1>11, <1>12

\* A step of another actor, or one of the link's task that keeps its place.
LEMMA ScanStays ==
    ASSUME ScanInv, UNCHANGED <<linkPc, idx, left, tries, again>>,
           freePc' = "clear" => Word',
           \A ch \in Ch : (Settled(ch) => Settled(ch)') /\ (Armed(ch) => Armed(ch)'),
           idx \in Ch,
           phase' = "run" => /\ phase = "run" /\ pMsg' = None
                             /\ \A c \in Caller : control'[c].cmd \notin {"STOP", "DELETE"}
                             /\ prevFull' # {} => Word' \/ (prevFull # {} /\ (Word => Word'))
    PROVE  ScanInv'
<1>1. (Scanning /\ ~again)' => Scanning /\ ~again
  BY DEF Scanning
<1>2. ScanPart => ScanPart'
  BY DEF ScanPart, Ahead
<1>3. phase' = "run" => RunPart'
  BY DEF ScanInv, RunPart
<1> QED
  BY <1>1, <1>2, <1>3 DEF ScanInv

\* A channel is not disturbed by what takes its buffers or its frames, or
\* sends word.
LEMMA ChannelRests ==
    ASSUME NEW ch \in Ch, inQue'[ch] \subseteq inQue[ch], Word => Word',
           newDataOnFree => newDataOnFree' \/ Word',
           emptyQue'[ch] = emptyQue[ch] \/ (inQue'[ch] = {}),
           freePc = "send" => freePc' = "send" \/ Word' \/ ~newDataOnFree
    PROVE  (Settled(ch) => Settled(ch)') /\ (Armed(ch) => Armed(ch)')
BY DEF Settled, Armed

\* Frames become free at a stroke, and who waits for one is told at once.
LEMMA FreeRests ==
    ASSUME TypeOK, NEW S, NEW R, NEW m \in Seq(Cmd),
           "NEW_DATA" \in Range(mbx) => "NEW_DATA" \in Range(m),
           FreeFrames(S, R), Tell(m, S, R), UNCHANGED <<inQue, freePc>>
    PROVE  /\ Word => Word'
           /\ \A ch \in Ch : (Settled(ch) => Settled(ch)') /\ (Armed(ch) => Armed(ch)')
<1> DEFINE told == Freed(S, R) # {} /\ newDataOnFree
<1>1. /\ mbx' = IF told THEN After(m, "NEW_DATA") ELSE m
      /\ newDataOnFree' = (newDataOnFree /\ ~told)
      /\ \A ch \in Ch : emptyQue'[ch] = emptyQue[ch] \cup (Freed(S, R) \cap Frames(ch))
  BY DEF Tell, FreeFrames
<1>2. Range(After(m, "NEW_DATA")) = Range(m) \cup {"NEW_DATA"}
  BY CommandQueued DEF Cmd
<1>3. CASE told
  BY <1>1, <1>2, <1>3 DEF Word, Settled, Armed
<1>4. CASE ~told
  <2>1. Word => Word'
    BY <1>1, <1>4 DEF Word
  <2>2. (newDataOnFree' <=> newDataOnFree) /\ (newDataOnFree => Freed(S, R) = {})
    BY <1>1, <1>4
  <2>3. ASSUME NEW ch \in Ch PROVE (Settled(ch) => Settled(ch)') /\ (Armed(ch) => Armed(ch)')
    <3>1. /\ emptyQue[ch] \subseteq emptyQue'[ch]
          /\ newDataOnFree => emptyQue'[ch] = emptyQue[ch]
      BY <1>1, <2>2
    <3> QED BY <2>1, <2>2, <3>1 DEF Settled, Armed
  <2> QED BY <2>1, <2>3
<1> QED
  BY <1>3, <1>4

\* Word is lost only to the link's task that takes it.
LEMMA WordTaken ==
    ASSUME TypeOK, mbx # <<>>, Head(mbx) # "NEW_DATA"
    PROVE  /\ Tail(mbx) \in Seq(Cmd)
           /\ "NEW_DATA" \in Range(mbx) => "NEW_DATA" \in Range(Tail(mbx))
BY CommandTaken DEF TypeOK

LEMMA WordSent ==
    ASSUME TypeOK, NEW c \in Cmd
    PROVE  /\ "NEW_DATA" \in Range(mbx) => "NEW_DATA" \in Range(After(mbx, c))
           /\ "NEW_DATA" \in Range(After(mbx, "NEW_DATA"))
<1>1. mbx \in Seq(Cmd) /\ "NEW_DATA" \in Cmd
  BY DEF TypeOK, Cmd
<1>2. Range(After(mbx, c)) = Range(mbx) \cup {c}
  BY <1>1, CommandQueued
<1>3. Range(After(mbx, "NEW_DATA")) = Range(mbx) \cup {"NEW_DATA"}
  BY <1>1, CommandQueued
<1> QED
  BY <1>2, <1>3

\* The steps that leave the frames, the flag and the buffers in the link.
LEMMA ScanUndisturbed ==
    ASSUME TypeOK, LoopInv, ScanInv, UNCHANGED <<emptyQue, newDataOnFree, inQue, freePc>>,
           UNCHANGED <<linkPc, idx, left, tries, again>>, Word => Word',
           prevFull' \subseteq prevFull \/ Word',
           phase' = "run" => /\ phase = "run" /\ pMsg' = pMsg
                             /\ \A c \in Caller : control'[c].cmd \notin {"STOP", "DELETE"}
                                                  \/ control'[c] = control[c]
    PROVE  ScanInv'
<1>1. \A ch \in Ch : (Settled(ch) => Settled(ch)') /\ (Armed(ch) => Armed(ch)')
  BY DEF Settled, Armed
<1>2. freePc' = "clear" => Word'
  BY DEF ScanInv
<1>3. phase' = "run" => /\ phase = "run" /\ pMsg' = None
                        /\ \A c \in Caller : control'[c].cmd \notin {"STOP", "DELETE"}
                        /\ prevFull' # {} => Word' \/ (prevFull # {} /\ (Word => Word'))
  BY DEF ScanInv, RunPart
<1>4. idx \in Ch
  BY DEF LoopInv
<1> QED
  BY <1>1, <1>2, <1>3, <1>4, ScanStays

LEMMA OuterScan ==
    ASSUME DecInv, ScanInv,
           \/ \E b \in Bit : Fill(b)
           \/ Tick \/ GetFullFrames
           \/ \E t \in Tsk : Get(t)
           \/ \E c \in Caller, cmd \in {"CREATE_CHANNEL", "DELETE_CHANNEL", "STOP", "DELETE"},
                 ch \in Ch : Ask(c, cmd, ch)
    PROVE  ScanInv'
<1>1. ASSUME NEW b \in Bit, Fill(b) PROVE ScanInv'
  <2>1. Word'
    BY <1>1, WordSent DEF DecInv, Cmd, Fill, Post, Word
  <2> QED BY <1>1, <2>1, ScanUndisturbed DEF DecInv, Fill, frames, loop, ctl
<1>2. ASSUME Tick PROVE ScanInv'
  <2>1. Word => Word'
    BY <1>2, WordSent DEF DecInv, Cmd, Tick, Post, Word
  <2> QED BY <1>2, <2>1, ScanUndisturbed DEF DecInv, Tick, outer, frames, loop, ctl
<1>3. ASSUME GetFullFrames PROVE ScanInv'
  BY <1>3, ScanUndisturbed DEF DecInv, GetFullFrames, frames, loop, ctl, Word
<1>4. ASSUME NEW t \in Tsk, Get(t) PROVE ScanInv'
  BY <1>4, ScanUndisturbed DEF DecInv, Get, outer, frames, loop, ctl, Word
<1>5. ASSUME NEW c \in Caller, NEW cmd \in {"CREATE_CHANNEL", "DELETE_CHANNEL", "STOP", "DELETE"},
             NEW ch \in Ch, Ask(c, cmd, ch)
      PROVE  ScanInv'
  <2>1. Word => Word'
    BY <1>5, WordSent DEF DecInv, Cmd, Ask, Post, Word
  <2>2. /\ control' = [control EXCEPT ![c] = [cmd |-> cmd, ch |-> ch]]
        /\ phase' = "run" => phase = "run" /\ cmd \notin {"STOP", "DELETE"}
        /\ pMsg' = pMsg
    BY <1>5 DEF Ask
  <2>3. \A d \in Caller : control'[d] = IF d = c THEN [cmd |-> cmd, ch |-> ch] ELSE control[d]
    BY <2>2 DEF DecInv, TypeOK
  <2>4. phase' = "run" => \A d \in Caller : control'[d].cmd \notin {"STOP", "DELETE"}
                                            \/ control'[d] = control[d]
    BY <2>2, <2>3
  <2>5. /\ UNCHANGED <<emptyQue, newDataOnFree, inQue, freePc>>
        /\ UNCHANGED <<linkPc, idx, left, tries, again>> /\ prevFull' \subseteq prevFull
    BY <1>5 DEF Ask, outer, frames, loop
  <2> QED BY <2>1, <2>2, <2>4, <2>5, ScanUndisturbed DEF DecInv
<1> QED
  BY <1>1, <1>2, <1>3, <1>4, <1>5

\* The tasks of the next link: the frames first, then word, then the flag.
LEMMA NextLinkScan ==
    ASSUME DecInv, ScanInv,
           (\E S \in SUBSET next : PutEmptyFrames(S)) \/ PutEmptySend \/ PutEmptyClear
    PROVE  ScanInv'
<1>0. /\ UNCHANGED <<linkPc, idx, left, tries, again, pMsg, control, phase, inQue, prevFull>>
      /\ idx \in Ch
  BY DEF PutEmptyFrames, PutEmptySend, PutEmptyClear, outer, loop, ctl, DecInv, LoopInv
<1>1. ASSUME Word => Word', freePc' = "clear" => Word',
             \A ch \in Ch : (Settled(ch) => Settled(ch)') /\ (Armed(ch) => Armed(ch)')
      PROVE  ScanInv'
  <2>1. phase' = "run" => /\ phase = "run" /\ pMsg' = None
                          /\ \A c \in Caller : control'[c].cmd \notin {"STOP", "DELETE"}
                          /\ prevFull' # {} => Word' \/ (prevFull # {} /\ (Word => Word'))
    BY <1>0, <1>1 DEF ScanInv, RunPart
  <2> QED BY <1>0, <1>1, <2>1, ScanStays
<1>2. ASSUME NEW S \in SUBSET next, PutEmptyFrames(S) PROVE ScanInv'
  <2>1. /\ freePc = "idle" /\ UNCHANGED <<mbx, newDataOnFree>> /\ FreeFrames(S, refs)
        /\ freePc' = IF Freed(S, refs) # {} THEN "send" ELSE "idle"
    BY <1>2 DEF PutEmptyFrames
  <2>2. Word' <=> Word
    BY <2>1 DEF Word
  <2>3. ASSUME NEW ch \in Ch PROVE (Settled(ch) => Settled(ch)') /\ (Armed(ch) => Armed(ch)')
    <3>1. emptyQue'[ch] = emptyQue[ch] \cup (Freed(S, refs) \cap Frames(ch))
      BY <2>1 DEF FreeFrames
    <3>2. emptyQue[ch] \subseteq emptyQue'[ch]
          /\ (emptyQue'[ch] = emptyQue[ch] \/ freePc' = "send")
      BY <2>1, <3>1
    <3> QED BY <1>0, <2>1, <2>2, <3>2 DEF Settled, Armed
  <2> QED BY <1>1, <2>1, <2>2, <2>3
<1>3. ASSUME PutEmptySend PROVE ScanInv'
  <2>1. /\ freePc = "send" /\ UNCHANGED <<emptyQue, newDataOnFree>>
        /\ IF newDataOnFree THEN mbx' = After(mbx, "NEW_DATA") /\ freePc' = "clear"
                            ELSE freePc' = "idle" /\ mbx' = mbx
    BY <1>3 DEF PutEmptySend, Post, frames
  <2>2. (Word => Word') /\ (newDataOnFree => Word')
    BY <2>1, WordSent DEF DecInv, Word, Cmd
  <2>3. ASSUME NEW ch \in Ch PROVE (Settled(ch) => Settled(ch)') /\ (Armed(ch) => Armed(ch)')
    BY <1>0, <2>1, <2>2 DEF Settled, Armed
  <2> QED BY <1>1, <2>1, <2>2, <2>3
<1>4. ASSUME PutEmptyClear PROVE ScanInv'
  <2>1. freePc = "clear" /\ freePc' = "idle" /\ UNCHANGED mbx
    BY <1>4 DEF PutEmptyClear
  <2>2. Word'
    BY <2>1 DEF ScanInv, Word
  <2>3. ASSUME NEW ch \in Ch PROVE (Settled(ch) => Settled(ch)') /\ (Armed(ch) => Armed(ch)')
    BY <2>2 DEF Settled, Armed
  <2> QED BY <1>1, <2>1, <2>2, <2>3
<1> QED
  BY <1>2, <1>3, <1>4

\* The process tasks that return frames.
LEMMA TaskScan ==
    ASSUME DecInv, ScanInv, NEW t \in Tsk,
           \/ Flush(t)
           \/ /\ taskPc[t] = "codec"
              /\ \E free, show \in SUBSET Held(t), use \in SUBSET FirstField(t) :
                    Decode(t, free, show, use)
    PROVE  ScanInv'
<1>0. /\ UNCHANGED <<linkPc, idx, left, tries, again, pMsg, control, phase, inQue, prevFull,
                     freePc>>
      /\ idx \in Ch
  BY DEF Flush, Decode, outer, loop, ctl, DecInv, LoopInv
<1>1. ASSUME Word => Word',
             \A ch \in Ch : (Settled(ch) => Settled(ch)') /\ (Armed(ch) => Armed(ch)')
      PROVE  ScanInv'
  <2>1. phase' = "run" => /\ phase = "run" /\ pMsg' = None
                          /\ \A c \in Caller : control'[c].cmd \notin {"STOP", "DELETE"}
                          /\ prevFull' # {} => Word' \/ (prevFull # {} /\ (Word => Word'))
    BY <1>0, <1>1 DEF ScanInv, RunPart
  <2>2. freePc' = "clear" => Word'
    BY <1>0, <1>1 DEF ScanInv
  <2> QED BY <1>0, <1>1, <2>1, <2>2, ScanStays
<1>2. ASSUME Flush(t) PROVE ScanInv'
  <2>1. PICK ch \in Ch : batch[t] = <<Dummy(ch)>>
    BY <1>2 DEF Flush, DecInv, QueuesInv, QueueInv
  <2>2. inQue[ch] = {}
    <3>1. Dummy(ch) \in AtTasks
      BY <2>1, AtTasksAre, Single DEF Own
    <3>2. Dummy(ch).in = None /\ Dummy(ch).ch = ch
      BY DEF Dummy
    <3> QED BY <3>1, <3>2 DEF DecInv, DataInv, ChannelsInv, ChannelInv
  <2>3. batch[t][1].ch = ch
    BY <2>1 DEF Dummy
  <2>4. /\ emptyQue' = [emptyQue EXCEPT ![ch] = {}] /\ UNCHANGED newDataOnFree
        /\ mbx' = After(mbx, "LATE_ACK")
    BY <1>2, <2>3 DEF Flush, Post
  <2>5. Word => Word'
    BY <2>4, WordSent DEF DecInv, Word, Cmd
  <2>6. ASSUME NEW c \in Ch PROVE (Settled(c) => Settled(c)') /\ (Armed(c) => Armed(c)')
    <3>1. emptyQue'[c] = emptyQue[c] \/ inQue'[c] = {}
      BY <1>0, <2>2, <2>4 DEF DecInv, TypeOK
    <3> QED BY <1>0, <2>4, <2>5, <3>1 DEF Settled, Armed
  <2> QED BY <1>1, <2>5, <2>6
<1>3. ASSUME NEW free \in SUBSET Held(t), NEW show \in SUBSET Held(t),
             NEW use \in SUBSET FirstField(t), Decode(t, free, show, use)
      PROVE  ScanInv'
  <2>1. PICK S, R : FreeFrames(S, R) /\ Tell(mbx, S, R)
    BY <1>3 DEF Decode
  <2>2. mbx \in Seq(Cmd)
    BY DEF DecInv, TypeOK
  <2>3. /\ Word => Word'
        /\ \A ch \in Ch : (Settled(ch) => Settled(ch)') /\ (Armed(ch) => Armed(ch)')
    BY <1>0, <2>1, <2>2, FreeRests DEF DecInv
  <2> QED BY <1>1, <2>3
<1> QED
  BY <1>2, <1>3

\* The link's task does not look at its mailbox while a task of the next link
\* is about to clear the flag.
LEMMA LinkRests == LinkRuns => freePc # "clear"
BY DEF LinkRuns

LEMMA ScanStart ==
    ASSUME DecInv, ScanInv, RecvNew \/ \E D \in SUBSET prevFull : QueueBufs(D)
    PROVE  ScanInv'
<1>1. ASSUME RecvNew PROVE ScanInv'
  <2>1. /\ freePc' # "clear" /\ linkPc' = "take"
        /\ UNCHANGED <<pMsg, control, phase>>
    BY <1>1, LinkRests DEF RecvNew, Head1, ctl
  <2>2. phase' = "run" => RunPart'
    BY <2>1 DEF ScanInv, RunPart
  <2> QED BY <2>1, <2>2 DEF ScanInv, Scanning
<1>2. ASSUME NEW D \in SUBSET prevFull, QueueBufs(D) PROVE ScanInv'
  <2>1. /\ freePc' # "clear" /\ linkPc' = "top" /\ prevFull' = {} /\ left' = NumCh
        /\ tries' = 0 /\ idx' = startChID /\ startChID \in Ch
        /\ UNCHANGED <<pMsg, control, phase>>
    BY <1>2, LinkRests DEF QueueBufs, ctl, DecInv, TypeOK
  <2>2. phase' = "run" => RunPart'
    BY <2>1 DEF ScanInv, RunPart
  <2>3. ScanPart'
    <3>1. \A ch \in Ch : ~(Ahead(ch)' >= left')
      BY <2>1, ChannelAssumption DEF Ahead, Ch
    <3> QED BY <2>1, <3>1 DEF ScanPart
  <2> QED BY <2>1, <2>2, <2>3 DEF ScanInv
<1> QED
  BY <1>1, <1>2

\* The test of a channel and the flag: the flag set, a channel is armed.
LEMMA ScanMark ==
    ASSUME DecInv, ScanInv,
           \/ Test("top", "mark", "try") \/ MarkIt("mark")
           \/ Test("retest", "remark", "try") \/ MarkIt("remark")
    PROVE  ScanInv'
<1>1. /\ UNCHANGED <<inQue, emptyQue, mbx, freePc, prevFull, pMsg, control, phase, idx, left,
                     tries, again>>
      /\ newDataOnFree => newDataOnFree'
      /\ freePc # "clear" /\ Scanning /\ linkPc # "idle" /\ linkPc # "take"
  BY LinkRests DEF Test, MarkIt, Scan, outer, frames, ctl, Scanning
<1>2. /\ linkPc' \in {"try", "mark", "remark"}
      /\ linkPc' = "mark" => linkPc = "top" /\ linkPc' # "remark"
      /\ linkPc' = "remark" => linkPc = "retest"
      /\ linkPc' = "try" => newDataOnFree' \/ emptyQue[idx] # {}
  BY DEF Test, MarkIt
<1>3. \A ch \in Ch : Settled(ch) => Settled(ch)'
  BY <1>1 DEF Settled, Word
<1>4. ScanPart => ScanPart'
  <2>1. linkPc' = "try" => Armed(idx)'
    BY <1>1, <1>2 DEF Armed
  <2>2. idx \in Ch /\ \A ch \in Ch : Ahead(ch)' = Ahead(ch)
    BY <1>1 DEF DecInv, LoopInv, Ahead
  <2> QED BY <1>1, <1>3, <2>1, <2>2 DEF ScanPart
<1>5. phase' = "run" => RunPart'
  BY <1>1, <1>2 DEF ScanInv, RunPart, Word
<1> QED
  BY <1>1, <1>2, <1>4, <1>5 DEF ScanInv, Scanning

\* A channel is settled when it can not be submitted: the test of its frames
\* came before, and word of any that came since has been sent.
LEMMA ScanTry ==
    ASSUME DecInv, ScanInv, Fail \/ \E b \in Bit, f \in Frame : Submit(b, f)
    PROVE  ScanInv'
<1>1. ASSUME Fail PROVE ScanInv'
  <2>1. /\ UNCHANGED <<inQue, emptyQue, newDataOnFree, mbx, freePc, prevFull, pMsg, control,
                       phase, idx, left, again>>
        /\ freePc # "clear" /\ linkPc = "try" /\ linkPc' = "retest" /\ tries' = tries + 1
        /\ inQue[idx] = {} \/ emptyQue[idx] = {}
    BY <1>1, LinkRests DEF Fail, MayTry, Scan, outer, frames, ctl
  <2>2. /\ tries' > 0 /\ tries' # 0 /\ idx \in Ch
    BY <2>1 DEF DecInv, TypeOK, LoopInv
  <2>3. \A ch \in Ch : (Settled(ch) => Settled(ch)') /\ Ahead(ch)' = Ahead(ch)
    BY <2>1 DEF Settled, Word, Ahead
  <2>4. Armed(idx) => Settled(idx)'
    BY <2>1 DEF Settled, Armed, Word
  <2>5. ScanPart => ScanPart'
    BY <2>1, <2>3, <2>4 DEF ScanPart
  <2>6. phase' = "run" => RunPart'
    BY <2>1 DEF ScanInv, RunPart, Word
  <2> QED BY <2>1, <2>2, <2>5, <2>6 DEF ScanInv, Scanning
<1>2. ASSUME NEW b \in Bit, NEW f \in Frame, Submit(b, f) PROVE ScanInv'
  <2>1. /\ UNCHANGED <<mbx, freePc, prevFull, pMsg, control, phase, linkPc>>
        /\ freePc # "clear" /\ linkPc = "try" /\ again' = TRUE
    BY <1>2, LinkRests DEF Submit, MayTry, outer, ctl
  <2>2. phase' = "run" => RunPart'
    BY <2>1 DEF ScanInv, RunPart, Word
  <2> QED BY <2>1, <2>2 DEF ScanInv
<1> QED
  BY <1>1, <1>2

LEMMA RoundTrip ==
    ASSUME NEW n \in Nat \ {0}, NEW i \in 0 .. n - 1, NEW c \in 0 .. n - 1
    PROVE  ~((IF c >= i THEN c - i ELSE c - i + n) >= n)
OBVIOUS

\* From a channel that is settled to the next one, all the way round.
LEMMA ScanNext == ASSUME DecInv, ScanInv, NextCh PROVE ScanInv'
<1> DEFINE last == left = 1
<1>1. /\ UNCHANGED <<inQue, emptyQue, newDataOnFree, mbx, freePc, prevFull, pMsg, control,
                     phase>>
      /\ freePc # "clear" /\ linkPc = "try" /\ tries' = 0
      /\ tries = PerCall[idx] \/ reqQue = 0
      /\ again' = (again /\ ~last)
      /\ linkPc' = IF last /\ ~again THEN "idle" ELSE "top"
      /\ idx' = IF last THEN startChID ELSE (idx + 1) % NumCh
      /\ left' = IF last THEN NumCh ELSE left - 1
  BY LinkRests DEF NextCh, Scan, outer, frames, ctl
<1>2. /\ idx \in Ch /\ left \in 1 .. NumCh /\ NumCh \in Nat \ {0} /\ startChID \in Ch
      /\ Ch = 0 .. NumCh - 1 /\ PerCall[idx] > 0 /\ again \in BOOLEAN
  <2>1. NumCh \in Nat \ {0} /\ PerCall \in [Ch -> {1, 2}] /\ Ch = 0 .. NumCh - 1
    BY ChannelAssumption DEF Ch
  <2>2. idx \in Ch /\ left \in 1 .. NumCh /\ startChID \in Ch /\ again \in BOOLEAN
    BY DEF DecInv, LoopInv, TypeOK
  <2>3. PerCall[idx] > 0
    BY <2>1, <2>2
  <2> QED BY <2>1, <2>2, <2>3
<1>3. \A ch \in Ch : Settled(ch) => Settled(ch)'
  BY <1>1 DEF Settled, Word
<1>4. ASSUME ~again PROVE Settled(idx)
  <2>1. CASE tries = PerCall[idx]
    BY <1>1, <1>2, <1>4, <2>1 DEF ScanInv, ScanPart, Scanning
  <2>2. CASE reqQue = 0
    <3>1. inQue[idx] = {}
      BY <1>2, <2>2, RequestLeft
    <3> QED BY <3>1 DEF Settled
  <2> QED BY <1>1, <2>1, <2>2
<1>5. ASSUME ~again, NEW ch \in Ch, Ahead(ch) >= left \/ ch = idx PROVE Settled(ch)'
  BY <1>1, <1>3, <1>4, <1>5 DEF ScanInv, ScanPart, Scanning
<1>6. ASSUME ~again, last, NEW ch \in Ch PROVE Settled(ch)'
  <2>1. Ahead(ch) >= left \/ ch = idx
    BY <1>2, <1>6 DEF Ahead
  <2> QED BY <1>5, <1>6, <2>1
<1>7. ASSUME ~again, ~last PROVE ScanPart'
  <2>1. ASSUME NEW ch \in Ch, Ahead(ch)' >= left' PROVE Ahead(ch) >= left \/ ch = idx
    <3>1. left' = left - 1 /\ idx' = (idx + 1) % NumCh
      BY <1>1, <1>7
    <3>2. idx' = IF idx = NumCh - 1 THEN 0 ELSE idx + 1
      <4>1. CASE idx = NumCh - 1
        BY <1>2, <3>1, <4>1
      <4>2. CASE idx # NumCh - 1
        BY <1>2, <3>1, <4>2
      <4> QED BY <4>1, <4>2
    <3> QED BY <1>2, <2>1, <3>1, <3>2 DEF Ahead
  <2>2. linkPc' # "try" /\ ~(tries' > 0)
    BY <1>1
  <2> QED BY <1>5, <1>7, <2>1, <2>2 DEF ScanPart
<1>8. (Scanning /\ ~again)' => ScanPart'
  <2>1. CASE last /\ ~again
    BY <1>1, <2>1 DEF Scanning
  <2>2. CASE ~last /\ ~again
    BY <1>7, <2>2
  <2>3. CASE ~last /\ again
    BY <1>1, <2>3
  <2>4. CASE last /\ again
    <3>1. left' = NumCh /\ idx' \in Ch /\ linkPc' = "top" /\ tries' = 0
      BY <1>1, <1>2, <2>4
    <3>2. ASSUME NEW ch \in Ch PROVE ~(Ahead(ch)' >= left')
      <4>1. /\ ch \in 0 .. NumCh - 1 /\ idx' \in 0 .. NumCh - 1 /\ left' = NumCh
            /\ NumCh \in Nat \ {0}
        BY <1>2, <3>1
      <4>2. ~((IF ch >= idx' THEN ch - idx' ELSE ch - idx' + NumCh) >= left')
        BY <4>1, RoundTrip
      <4> QED BY <4>2 DEF Ahead
    <3> QED BY <3>1, <3>2 DEF ScanPart
  <2> QED BY <2>1, <2>2, <2>3, <2>4
<1>9. phase' = "run" => RunPart'
  <2>1. linkPc' = "idle" => \A ch \in Ch : Settled(ch)'
    BY <1>1, <1>6
  <2> QED BY <1>1, <2>1 DEF ScanInv, RunPart, Word
<1> QED
  BY <1>1, <1>8, <1>9 DEF ScanInv

\* The finished requests are collected.
LEMMA ScanGet ==
    ASSUME DecInv, ScanInv, NEW skip \in SUBSET {r.out : r \in doneQue},
           RecvGet(skip) \/ StopGet(skip)
    PROVE  ScanInv'
<1>1. /\ LinkRuns /\ mbx # <<>> /\ Head(mbx) = "GET_PROCESSED_DATA"
      /\ GetProcessed(Tail(mbx), skip)
      /\ UNCHANGED <<linkPc, idx, left, tries, again, pMsg, control, phase, prevFull>>
  BY DEF RecvGet, StopGet, Head1, Stopping, loop, ctl
<1>2. /\ FreeFrames(skip, refs) /\ Tell(Tail(mbx), skip, refs) /\ UNCHANGED <<inQue, freePc>>
  BY <1>1 DEF GetProcessed
<1>3. /\ Tail(mbx) \in Seq(Cmd)
      /\ "NEW_DATA" \in Range(mbx) => "NEW_DATA" \in Range(Tail(mbx))
  BY <1>1, WordTaken DEF DecInv
<1>4. /\ Word => Word'
      /\ \A ch \in Ch : (Settled(ch) => Settled(ch)') /\ (Armed(ch) => Armed(ch)')
  BY <1>2, <1>3, FreeRests DEF DecInv
<1>5. freePc' # "clear" /\ idx \in Ch
  BY <1>1, <1>2, LinkRests DEF DecInv, LoopInv
<1>6. phase' = "run" => /\ phase = "run" /\ pMsg' = None
                        /\ \A c \in Caller : control'[c].cmd \notin {"STOP", "DELETE"}
                        /\ prevFull' # {} => Word' \/ (prevFull # {} /\ (Word => Word'))
  BY <1>1, <1>4 DEF ScanInv, RunPart
<1> QED
  BY <1>1, <1>4, <1>5, <1>6, ScanStays

\* A channel that is created was closed, and one that is deleted is left
\* without buffers.
LEMMA ScanChannel ==
    ASSUME DecInv, ScanInv, NEW c \in Caller, RecvDeleteCh(c) \/ RecvCreateCh(c)
    PROVE  ScanInv'
<1> DEFINE ch == control[c].ch
           Created == /\ inQue' = inQue \/ inQue' = [inQue EXCEPT ![ch] = {}]
                      /\ control' = control \/ Ack({c})
                      /\ \/ emptyQue' = emptyQue
                         \/ ~open[ch] /\ \E U : emptyQue' = [emptyQue EXCEPT ![ch] = U]
<1>1. /\ LinkRuns /\ linkPc = "idle" /\ mbx # <<>> /\ Head(mbx) = c /\ mbx' = Tail(mbx)
      /\ UNCHANGED <<linkPc, idx, left, tries, again, pMsg, phase, prevFull, freePc,
                     newDataOnFree>>
  BY DEF RecvDeleteCh, RecvCreateCh, Ask1, Head1, Quiet, loop
<1>2. Word => Word'
  <2>1. c # "NEW_DATA"
    BY NoneAssumption
  <2> QED BY <1>1, <2>1, WordTaken DEF DecInv, Word
<1>3. ch \in Ch /\ inQue \in [Ch -> SUBSET Bit] /\ emptyQue \in [Ch -> SUBSET Frame]
  BY DEF DecInv, TypeOK, Control
<1>4. ~open[ch] => inQue[ch] = {}
  BY <1>3 DEF DecInv, DataInv, ChannelsInv, ChannelInv
<1>5. Created
  <2>1. CASE RecvDeleteCh(c)
    BY <2>1 DEF RecvDeleteCh, Deleting
  <2>2. CASE RecvCreateCh(c)
    <3>1. ASSUME UNCHANGED <<prev, inQue, emptyQue, fvidFrmQue, invalid, reqQue, processQue,
                             chans, pMsgTmp>>, Ack({c})
          PROVE  Created
      BY <3>1
    <3>2. ASSUME ~open[ch], NEW S, emptyQue' = [emptyQue EXCEPT ![ch] = S], Ack({c}),
                 UNCHANGED <<prev, inQue, invalid, reqQue, processQue, pMsgTmp>>
          PROVE  Created
      BY <3>2
    <3>3. ASSUME ~open[ch], NEW K, emptyQue' = [emptyQue EXCEPT ![ch] = K], Deleting(c, ch, K)
          PROVE  Created
      BY <3>3 DEF Deleting
    <3> HIDE DEF Created
    <3> QED BY <2>2, <3>1, <3>2, <3>3 DEF RecvCreateCh
  <2> QED BY <2>1, <2>2
<1>6. ASSUME NEW d \in Ch
      PROVE  /\ inQue'[d] = {} \/ (inQue'[d] = inQue[d] /\ emptyQue'[d] = emptyQue[d])
  <2>1. CASE d # ch
    BY <1>3, <1>5, <2>1
  <2>2. CASE d = ch
    BY <1>3, <1>4, <1>5, <2>2
  <2> QED BY <2>1, <2>2
<1>7. \A d \in Ch : (Settled(d) => Settled(d)') /\ (Armed(d) => Armed(d)')
  BY <1>1, <1>2, <1>6 DEF Settled, Armed
<1>8. \A d \in Caller : control'[d] = control[d] \/ control'[d].cmd = "none"
  BY <1>5 DEF Ack, NoControl
<1>9. phase' = "run" => /\ phase = "run" /\ pMsg' = None
                        /\ \A d \in Caller : control'[d].cmd \notin {"STOP", "DELETE"}
                        /\ prevFull' # {} => Word' \/ (prevFull # {} /\ (Word => Word'))
  BY <1>1, <1>2, <1>8 DEF ScanInv, RunPart
<1>10. freePc' # "clear" /\ idx \in Ch
  BY <1>1, LinkRests DEF DecInv, LoopInv
<1> QED
  BY <1>1, <1>7, <1>9, <1>10, ScanStays

\* The other commands; word of new data is thrown away only when the link is
\* being stopped.
LEMMA ScanCall ==
    ASSUME DecInv, ScanInv,
           RecvLate \/ (\E c \in Caller : RecvStop(c)) \/ StopDrop \/ Stopped \/ Join
    PROVE  ScanInv'
<1>1. ASSUME RecvLate PROVE ScanInv'
  <2>1. mbx # <<>> /\ Head(mbx) # "NEW_DATA" /\ mbx' = Tail(mbx)
    BY <1>1 DEF RecvLate, Head1
  <2>2. Word => Word'
    BY <2>1, WordTaken DEF DecInv, Word
  <2>3. \A c \in Caller : control'[c].cmd \notin {"STOP", "DELETE"} \/ control'[c] = control[c]
    BY <1>1 DEF RecvLate, Ack, NoControl
  <2> QED BY <1>1, <2>2, <2>3, ScanUndisturbed DEF DecInv, RecvLate, outer, frames, loop
<1>2. phase = "run" => linkPc \notin {"stop", "join"}
  BY DEF ScanInv, RunPart, DecInv, CallsInv
<1>3. ASSUME NEW c \in Caller, RecvStop(c) PROVE ScanInv'
  <2>1. phase' # "run"
    BY <1>3 DEF RecvStop, Ask1, ScanInv, RunPart
  <2>2. freePc' # "clear" /\ linkPc' = "stop"
    BY <1>3, LinkRests DEF RecvStop, Ask1, Head1
  <2> QED BY <2>1, <2>2 DEF ScanInv, Scanning
<1>4. ASSUME StopDrop PROVE ScanInv'
  <2>1. phase' # "run" /\ freePc' # "clear" /\ linkPc' = "stop"
    BY <1>2, <1>4, LinkRests DEF StopDrop, Stopping, loop
  <2> QED BY <2>1 DEF ScanInv, Scanning
<1>5. ASSUME Stopped \/ Join PROVE ScanInv'
  <2>1. phase' # "run" /\ freePc' # "clear" /\ linkPc' \in {"join", "idle", "gone"}
    BY <1>2, <1>5, LinkRests DEF Stopped, Join, Stopping
  <2> QED BY <2>1 DEF ScanInv, Scanning
<1> QED
  BY <1>1, <1>3, <1>4, <1>5

LEMMA ScanInvStep == ASSUME DecInv, ScanInv, [Next]_vars PROVE ScanInv'
<1>1. ASSUME LinkTask PROVE ScanInv'
  <2>1. ASSUME ProcessData PROVE ScanInv'
    BY <2>1, ScanStart, ScanMark, ScanTry, ScanNext DEF ProcessData
  <2> QED BY <1>1, <2>1, ScanGet, ScanChannel, ScanCall DEF LinkTask
<1>2. ASSUME NEW t \in Tsk, ProcessTask(t) PROVE ScanInv'
  BY <1>2, OuterScan, TaskScan DEF ProcessTask
<1>3. ASSUME NextLink PROVE ScanInv'
  BY <1>3, OuterScan, NextLinkScan DEF NextLink
<1>4. ASSUME Callers \/ Tick \/ \E b \in Bit : Fill(b) PROVE ScanInv'
  BY <1>4, OuterScan DEF Callers
<1>5. ASSUME UNCHANGED vars PROVE ScanInv'
  BY <1>5, ScanUndisturbed DEF DecInv, vars, outer, frames, loop, ctl, Word
<1> QED
  BY <1>1, <1>2, <1>3, <1>4, <1>5 DEF Next, Done

\* When the link's task waits for its next command, a buffer is left in the
\* link only because its channel has no empty frame, and then the flag is up
\* for whoever returns one: putEmptyFrames' three steps, and a scan's test and
\* flag, never lose the word of a frame between them.
THEOREM AlwaysNoStrandedInput == ASSUME OneCaller PROVE Spec => []NoStrandedInput
<1>1. Init => ScanInv
  <2> SUFFICES ASSUME Init PROVE ScanInv
    OBVIOUS
  <2>1. \A ch \in Ch : Settled(ch)
    BY DEF Init, Settled
  <2>2. \A c \in Caller : control[c].cmd = "none"
    BY DEF Init, NoControl
  <2> QED BY <2>1, <2>2 DEF Init, ScanInv, RunPart, Scanning
<1>2. DecInv /\ ScanInv /\ [Next]_vars => ScanInv'
  BY ScanInvStep
<1>3. DecInv /\ ScanInv => NoStrandedInput
  <2> SUFFICES ASSUME DecInv, ScanInv, linkPc = "idle", freePc = "idle", phase = "run",
                      \A i \in DOMAIN mbx : mbx[i] # "NEW_DATA"
               PROVE  /\ prevFull = {}
                      /\ \A ch \in Ch : inQue[ch] # {} => emptyQue[ch] = {} /\ newDataOnFree
    BY DEF NoStrandedInput
  <2>1. ~Word
    BY DEF Word, Range
  <2> QED BY <2>1 DEF ScanInv, RunPart, Settled
<1> QED
  BY <1>1, <1>2, <1>3, Inductive, PTL DEF Spec
-----------------------------------------------------------------------------
(* A closed channel is empty.                                               *)

\* A header of a frame that somebody has is of the channel as it is open now,
\* or marked; one that nobody has is empty in an open channel, or in the pool.
HeaderInv(f) ==
    LET ch == ChOf[f] IN
    /\ refs[f] > 0 => f \in invalid \/ (openLocal[ch] /\ f \in outFrames[ch])
    /\ refs[f] = 0 => f \in emptyQue[ch] \/ f \in fvidFrmQue[ch]
    /\ f \in fvidFrmQue[ch] => f \notin invalid
    /\ openLocal[ch] /\ f \in outFrames[ch] => f \notin invalid /\ f \notin fvidFrmQue[ch]
    /\ f \in emptyQue[ch] => open[ch] /\ (openLocal[ch] => f \in outFrames[ch])
HeadersInv == /\ \A f \in Frame : HeaderInv(f)
              /\ \A ch \in Ch : outFrames[ch] \subseteq Frames(ch)

\* The dummy request is that of the caller who waits for it, and an open
\* channel is asked to be deleted once.
ClosingInv ==
    /\ \A r \in AtTasks : r.in = None => control[pMsgTmp].ch = r.ch
    /\ \A ch \in Ch : open[ch] /\ ~openLocal[ch] => Dummy(ch) \in AtTasks
    /\ \A c \in Caller : c \in Range(mbx) /\ control[c].cmd = "DELETE_CHANNEL"
                         => open[control[c].ch]
DrainInv == ClosingInv /\ HeadersInv

LEMMA Headers ==
    ASSUME NEW f \in Frame, DecInv
    PROVE  ChOf[f] \in Ch /\ refs[f] \in Nat /\ FrameInv(f)
<1>1. ChOf[f] \in Ch
  BY ChannelAssumption
<1>2. refs[f] \in 0 .. 2
  BY DEF DecInv, TypeOK
<1>3. FrameInv(f)
  BY DEF DecInv, DataInv, FramesInv
<1> QED
  BY <1>1, <1>2, <1>3

LEMMA HeadersStay ==
    ASSUME HeadersInv, UNCHANGED <<emptyQue, fvidFrmQue, refs, invalid>>,
           UNCHANGED <<open, openLocal, outFrames>>
    PROVE  HeadersInv'
BY DEF HeadersInv, HeaderInv, Frames

\* The last one who had a frame gives it back, to where its channel wants it.
LEMMA HeadersFree ==
    ASSUME DecInv, DecInv', HeadersInv, NEW S, S \subseteq Item, NEW R \in [Frame -> Nat],
           \A f \in Frame : R[f] > 0 <=> refs[f] > 0, FreeFrames(S, R),
           UNCHANGED <<open, openLocal, outFrames>>
    PROVE  HeadersInv'
<1>1. refs' \in [Frame -> Nat]
  <2>1. refs' \in [Frame -> 0 .. 2]
    BY DEF DecInv, TypeOK
  <2> QED BY <2>1
<1>2. \A f \in Frame : R[f] >= One(Org(f) \in S) + One(Dup(f) \in S)
  <2>1. ASSUME NEW f \in Frame PROVE R[f] >= One(Org(f) \in S) + One(Dup(f) \in S)
    <3>1. refs'[f] = R[f] - (One(Org(f) \in S) + One(Dup(f) \in S))
      BY ItemsOf DEF FreeFrames
    <3>2. refs'[f] \in Nat /\ R[f] \in Nat
      BY <1>1
    <3>3. One(Org(f) \in S) + One(Dup(f) \in S) \in Nat
      BY DEF One
    <3> QED BY <3>1, <3>2, <3>3
  <2> QED BY <2>1
<1>3. TypeOK
  BY DEF DecInv
<1>4. /\ \A f \in Frame : refs'[f] = R[f] - (One(Org(f) \in S) + One(Dup(f) \in S))
      /\ \A ch \in Ch, f \in Frame :
           /\ f \in emptyQue'[ch] <=>
                 \/ f \in emptyQue[ch]
                 \/ ChOf[f] = ch /\ R[f] > 0 /\ refs'[f] = 0 /\ f \notin invalid
           /\ f \in fvidFrmQue'[ch] <=>
                 \/ f \in fvidFrmQue[ch]
                 \/ ChOf[f] = ch /\ R[f] > 0 /\ refs'[f] = 0 /\ f \in invalid
      /\ \A f \in Frame : f \in invalid' <=> f \in invalid /\ (R[f] > 0 => refs'[f] > 0)
  BY <1>2, <1>3, FreeIs
<1>5. ASSUME NEW f \in Frame PROVE HeaderInv(f)'
  <2> DEFINE ch == ChOf[f]
  <2>1. ch \in Ch /\ refs[f] \in Nat /\ FrameInv(f) /\ HeaderInv(f)
    BY Headers DEF HeadersInv
  <2>2. /\ refs'[f] \in Nat /\ R[f] \in Nat
        /\ f \in emptyQue'[ch] <=>
              f \in emptyQue[ch] \/ (R[f] > 0 /\ refs'[f] = 0 /\ f \notin invalid)
        /\ f \in fvidFrmQue'[ch] <=>
              f \in fvidFrmQue[ch] \/ (R[f] > 0 /\ refs'[f] = 0 /\ f \in invalid)
        /\ f \in invalid' <=> f \in invalid /\ (R[f] > 0 => refs'[f] > 0)
    BY <1>1, <1>4, <2>1
  <2>3. openLocal[ch] => open[ch]
    BY <2>1 DEF DecInv, DataInv, ChannelsInv, ChannelInv
  <2>4. CASE refs[f] = 0
    <3>1. R[f] = 0 /\ refs'[f] = 0
      <4>1. R[f] = 0
        BY <2>2, <2>4
      <4>2. One(Org(f) \in S) + One(Dup(f) \in S) \in Nat
        BY DEF One
      <4> QED BY <1>4, <2>2, <4>1, <4>2
    <3> QED BY <2>1, <2>2, <2>4, <3>1 DEF HeaderInv
  <2>5. CASE refs[f] > 0
    <3>1. /\ R[f] > 0 /\ f \notin emptyQue[ch] /\ f \notin fvidFrmQue[ch]
          /\ f \in invalid \/ (openLocal[ch] /\ f \in outFrames[ch])
          /\ openLocal[ch] /\ f \in outFrames[ch] => f \notin invalid
      BY <2>1, <2>5 DEF FrameInv, HeaderInv
    <3>2. CASE refs'[f] = 0
      BY <2>2, <2>3, <3>1, <3>2 DEF HeaderInv
    <3>3. CASE refs'[f] > 0
      BY <2>2, <3>1, <3>3 DEF HeaderInv
    <3> QED BY <2>2, <3>2, <3>3
  <2> QED BY <2>1, <2>4, <2>5
<1> QED
  BY <1>5 DEF HeadersInv, Frames

LEMMA ClosingStays ==
    ASSUME DecInv, ClosingInv, UNCHANGED <<open, openLocal>>,
           \A r : r.in = None => ((r \in AtTasks)' <=> r \in AtTasks),
           Deleted => /\ pMsgTmp' = pMsgTmp
                      /\ control'[pMsgTmp].ch = control[pMsgTmp].ch,
           \A c \in Caller : c \in Range(mbx') /\ control'[c].cmd = "DELETE_CHANNEL"
                             => open[control'[c].ch]
    PROVE  ClosingInv'
<1>1. ASSUME NEW r, (r \in AtTasks)', r.in = None PROVE control'[pMsgTmp'].ch = r.ch
  <2>1. r \in AtTasks /\ Deleted
    BY <1>1 DEF Deleted
  <2> QED BY <1>1, <2>1 DEF ClosingInv
<1>2. ASSUME NEW ch \in Ch, open[ch], ~openLocal[ch] PROVE (Dummy(ch) \in AtTasks)'
  <2>1. Dummy(ch) \in AtTasks /\ Dummy(ch).in = None
    BY <1>2 DEF ClosingInv, Dummy
  <2> QED BY <2>1 DEF Dummy
<1> QED
  BY <1>1, <1>2 DEF ClosingInv

\* No command of a caller comes to the mailbox when others do.
LEMMA CallersStay ==
    ASSUME TypeOK, NEW m, m = mbx \/ (mbx # <<>> /\ m = Tail(mbx)),
           mbx' \in {m, After(m, "NEW_DATA"), After(m, "GET_PROCESSED_DATA"),
                     After(m, "LATE_ACK")}
    PROVE  \A c \in Caller : c \in Range(mbx') => c \in Range(mbx)
<1>1. m \in Seq(Cmd) /\ Range(m) \subseteq Range(mbx)
  <2>1. mbx \in Seq(Cmd)
    BY DEF TypeOK
  <2>2. CASE m = mbx
    BY <2>1, <2>2
  <2>3. CASE mbx # <<>> /\ m = Tail(mbx)
    <3>1. Tail(mbx) \in Seq(Cmd) /\ Range(mbx) = Range(Tail(mbx)) \cup {Head(mbx)}
      BY <2>1, <2>3, CommandTaken
    <3> QED BY <2>3, <3>1
  <2> QED BY <2>2, <2>3
<1>2. ASSUME NEW d \in {"NEW_DATA", "GET_PROCESSED_DATA", "LATE_ACK"}
      PROVE  d \notin Caller /\ Range(After(m, d)) = Range(m) \cup {d}
  <2>1. d \in Cmd /\ d \notin Caller
    BY NoneAssumption DEF Cmd
  <2> QED BY <1>1, <2>1, CommandQueued
<1> QED
  BY <1>1, <1>2

LEMMA TasksStill ==
    ASSUME UNCHANGED <<processQue, batch>>
    PROVE  \A r : (r \in AtTasks)' <=> r \in AtTasks
BY DEF AtTasks

\* Steps that only move buffers, items and commands nobody waits for.
LEMMA DrainQuiet ==
    ASSUME DecInv, DrainInv, UNCHANGED <<emptyQue, fvidFrmQue, refs, invalid>>,
           UNCHANGED <<open, openLocal, outFrames>>,
           \A r : (r \in AtTasks)' <=> r \in AtTasks,
           UNCHANGED <<control, pMsgTmp>>,
           NEW m, m = mbx \/ (mbx # <<>> /\ m = Tail(mbx)),
           mbx' \in {m, After(m, "NEW_DATA"), After(m, "GET_PROCESSED_DATA"),
                     After(m, "LATE_ACK")}
    PROVE  DrainInv'
<1>1. HeadersInv'
  BY HeadersStay DEF DrainInv
<1>2. \A c \in Caller : c \in Range(mbx') => c \in Range(mbx)
  BY CallersStay DEF DecInv
<1>3. \A c \in Caller : c \in Range(mbx') /\ control'[c].cmd = "DELETE_CHANNEL"
                        => open[control'[c].ch]
  BY <1>2 DEF DrainInv, ClosingInv
<1>4. ClosingInv'
  BY <1>3, ClosingStays DEF DrainInv
<1> QED
  BY <1>1, <1>4 DEF DrainInv

\* Steps that answer other callers than the one who has a channel deleted.
LEMMA DrainAck ==
    ASSUME DecInv, DrainInv, UNCHANGED <<emptyQue, fvidFrmQue, refs, invalid>>,
           UNCHANGED <<open, openLocal, outFrames>>, UNCHANGED <<processQue, batch>>,
           mbx' = mbx \/ (mbx # <<>> /\ mbx' = Tail(mbx)),
           NEW S, Ack(S), Deleted => pMsgTmp' = pMsgTmp /\ pMsgTmp \notin S
    PROVE  DrainInv'
<1>1. HeadersInv'
  BY HeadersStay DEF DrainInv
<1>2. \A c \in Caller : control'[c] = IF c \in S THEN NoControl ELSE control[c]
  BY DEF Ack
<1>3. \A c \in Caller : c \in Range(mbx') /\ control'[c].cmd = "DELETE_CHANNEL"
                        => open[control'[c].ch]
  <2>1. \A c \in Caller : c \in Range(mbx') => c \in Range(mbx)
    BY CallersStay DEF DecInv
  <2> QED BY <1>2, <2>1 DEF DrainInv, ClosingInv, NoControl
<1>4. Deleted => pMsgTmp' = pMsgTmp /\ control'[pMsgTmp].ch = control[pMsgTmp].ch
  <2>1. Deleted => pMsgTmp \in Caller
    BY DEF DecInv, CallsInv, TypeOK
  <2> QED BY <1>2, <2>1
<1>5. ClosingInv'
  BY <1>3, <1>4, TasksStill, ClosingStays DEF DrainInv
<1> QED
  BY <1>1, <1>5 DEF DrainInv

LEMMA OuterDrain ==
    ASSUME DecInv, DrainInv,
           \/ \E b \in Bit : Fill(b)
           \/ Tick \/ GetFullFrames \/ PutEmptySend \/ PutEmptyClear
           \/ \E t \in Tsk : Get(t)
           \/ UNCHANGED vars
    PROVE  DrainInv'
<1>1. ASSUME UNCHANGED <<emptyQue, fvidFrmQue, refs, invalid>>,
             UNCHANGED <<open, openLocal, outFrames>>, UNCHANGED <<processQue, batch>>,
             UNCHANGED <<control, pMsgTmp>>,
             mbx' \in {mbx, After(mbx, "NEW_DATA"), After(mbx, "GET_PROCESSED_DATA")}
      PROVE  DrainInv'
  BY <1>1, TasksStill, DrainQuiet
<1>2. ASSUME NEW b \in Bit, Fill(b) PROVE DrainInv'
  BY <1>1, <1>2 DEF Fill, frames, chans, tasks, ctl, Post
<1>3. ASSUME Tick \/ GetFullFrames PROVE DrainInv'
  BY <1>1, <1>3 DEF Tick, GetFullFrames, frames, chans, tasks, ctl, Post
<1>4. ASSUME PutEmptySend \/ PutEmptyClear PROVE DrainInv'
  BY <1>1, <1>4 DEF PutEmptySend, PutEmptyClear, frames, chans, tasks, ctl, Post
<1>5. ASSUME NEW t \in Tsk, Get(t) PROVE DrainInv'
  <2>1. \A r : (r \in AtTasks)' <=> r \in AtTasks
    BY <1>5, QueueGet DEF DecInv, DataInv
  <2>2. /\ UNCHANGED <<emptyQue, fvidFrmQue, refs, invalid>>
        /\ UNCHANGED <<open, openLocal, outFrames>> /\ UNCHANGED <<control, pMsgTmp>>
        /\ mbx' = mbx
    BY <1>5 DEF Get, frames, chans, ctl
  <2> QED BY <2>1, <2>2, DrainQuiet
<1>6. ASSUME UNCHANGED vars PROVE DrainInv'
  BY <1>1, <1>6 DEF vars, frames, chans, tasks, ctl
<1> QED
  BY <1>2, <1>3, <1>4, <1>5, <1>6

LEMMA AskDrain ==
    ASSUME DecInv, DrainInv, NEW c \in Caller, NEW ch \in Ch,
           NEW cmd \in {"CREATE_CHANNEL", "DELETE_CHANNEL", "STOP", "DELETE"}, Ask(c, cmd, ch)
    PROVE  DrainInv'
<1>1. /\ control[c] = NoControl /\ control' = [control EXCEPT ![c] = [cmd |-> cmd, ch |-> ch]]
      /\ cmd = "DELETE_CHANNEL" => open[ch]
      /\ mbx' = After(mbx, c) /\ UNCHANGED <<processQue, batch>>
      /\ UNCHANGED <<emptyQue, fvidFrmQue, refs, invalid>>
      /\ UNCHANGED <<open, openLocal, outFrames>> /\ pMsgTmp' = pMsgTmp
  BY DEF Ask, Post, frames, chans, tasks
<1>2. control'[c] = [cmd |-> cmd, ch |-> ch] /\ \A d \in Caller \ {c} : control'[d] = control[d]
  BY <1>1 DEF DecInv, TypeOK
<1>3. Range(mbx') = Range(mbx) \cup {c}
  BY <1>1, CommandQueued DEF DecInv, TypeOK, Cmd
<1>4. \A d \in Caller : d \in Range(mbx') /\ control'[d].cmd = "DELETE_CHANNEL"
                        => open[control'[d].ch]
  BY <1>1, <1>2, <1>3 DEF DrainInv, ClosingInv
<1>5. Deleted => pMsgTmp' = pMsgTmp /\ control'[pMsgTmp].ch = control[pMsgTmp].ch
  <2>1. Deleted => /\ pMsgTmp \in Caller
                   /\ control[pMsgTmp].cmd \in {"CREATE_CHANNEL", "DELETE_CHANNEL"}
    BY DEF DecInv, CallsInv, TypeOK
  <2>2. Deleted => pMsgTmp # c
    BY <1>1, <2>1 DEF NoControl
  <2> QED BY <1>1, <1>2, <2>1, <2>2
<1>6. ClosingInv'
  BY <1>1, <1>4, <1>5, TasksStill, ClosingStays DEF DrainInv
<1>7. HeadersInv'
  BY <1>1, HeadersStay DEF DrainInv
<1> QED
  BY <1>6, <1>7 DEF DrainInv

LEMMA ScanDrain ==
    ASSUME DecInv, DrainInv,
           \/ RecvNew \/ \E D \in SUBSET prevFull : QueueBufs(D)
           \/ Test("top", "mark", "try") \/ MarkIt("mark")
           \/ Fail \/ Test("retest", "remark", "try") \/ MarkIt("remark") \/ NextCh
           \/ \E c \in Caller : RecvStop(c)
    PROVE  DrainInv'
<1>1. ASSUME UNCHANGED <<emptyQue, fvidFrmQue, refs, invalid>>,
             UNCHANGED <<open, openLocal, outFrames>>, UNCHANGED <<processQue, batch>>,
             UNCHANGED <<control, pMsgTmp>>,
             mbx' = mbx \/ (mbx # <<>> /\ mbx' = Tail(mbx))
      PROVE  DrainInv'
  BY <1>1, TasksStill, DrainQuiet
<1>2. ASSUME RecvNew \/ \E c \in Caller : RecvStop(c) PROVE DrainInv'
  BY <1>1, <1>2 DEF RecvNew, RecvStop, Ask1, Head1, frames, chans, tasks, ctl
<1>3. ASSUME NEW D \in SUBSET prevFull, QueueBufs(D) PROVE DrainInv'
  BY <1>1, <1>3 DEF QueueBufs, frames, chans, tasks, ctl
<1>4. ASSUME UNCHANGED Scan PROVE DrainInv'
  BY <1>1, <1>4 DEF Scan, frames, chans, tasks, ctl
<1> QED
  BY <1>2, <1>3, <1>4 DEF Test, MarkIt, Fail, NextCh

LEMMA CallDrain ==
    ASSUME DecInv, DrainInv, RecvLate \/ StopDrop \/ Stopped \/ Join
    PROVE  DrainInv'
<1>1. mbx \in Seq(Cmd)
  BY DEF DecInv, TypeOK
<1>2. CASE RecvLate
  <2>1. "LATE_ACK" \in Range(mbx)
    BY <1>1, <1>2, RangeOf DEF RecvLate, Head1
  <2>2. ~Deleted
    BY <2>1 DEF DecInv, CallsInv
  <2> QED BY <1>2, <2>2, DrainAck DEF RecvLate, Head1, frames, chans, tasks
<1>3. CASE StopDrop
  <2>1. /\ mbx # <<>> /\ mbx' = Tail(mbx) /\ Ack({Head(mbx)}) /\ pMsgTmp' = pMsgTmp
        /\ Head(mbx) \in Range(mbx)
    BY <1>1, <1>3, RangeOf DEF StopDrop
  <2>2. Deleted => pMsgTmp \notin {Head(mbx)}
    BY <2>1 DEF DecInv, CallsInv, TypeOK
  <2> QED BY <1>3, <2>1, <2>2, DrainAck DEF StopDrop, frames, chans, tasks
<1>4. CASE Stopped \/ Join
  <2>1. linkPc \in {"stop", "join"}
    BY <1>4 DEF Stopped, Join, Stopping
  <2>2. ~Deleted
    BY <2>1 DEF DecInv, CallsInv
  <2>3. UNCHANGED <<emptyQue, fvidFrmQue, refs, invalid>>
    BY <1>4 DEF Stopped, Join, frames
  <2>4. UNCHANGED <<open, openLocal, outFrames>> /\ UNCHANGED <<processQue, batch>>
    BY <1>4 DEF Stopped, Join, chans, tasks
  <2>5. mbx' = mbx /\ pMsgTmp' = pMsgTmp /\ (control' = control \/ Ack({pMsg}))
    BY <1>4 DEF Stopped, Join
  <2>6. control' = control => Ack({})
    BY DEF DecInv, TypeOK, Ack
  <2> QED BY <2>2, <2>3, <2>4, <2>5, <2>6, DrainAck
<1> QED
  BY <1>2, <1>3, <1>4

\* Those who return frames; the reference a duplicate adds is not the first.
LEMMA FreeDrain ==
    ASSUME DecInv, DecInv', DrainInv,
           \/ \E S \in SUBSET next : PutEmptyFrames(S)
           \/ \E skip \in SUBSET {r.out : r \in doneQue} : RecvGet(skip) \/ StopGet(skip)
    PROVE  DrainInv'
<1>1. full \cup next \cup Outs \subseteq Item /\ mbx \in Seq(Cmd)
  BY OutsideItems DEF DecInv, TypeOK
<1>2. refs \in [Frame -> Nat]
  <2>1. refs \in [Frame -> 0 .. 2]
    BY DEF DecInv, TypeOK
  <2> QED BY <2>1
<1>3. ASSUME NEW S, S \subseteq Item, FreeFrames(S, refs),
             UNCHANGED <<open, openLocal, outFrames>>, UNCHANGED <<processQue, batch>>,
             UNCHANGED <<control, pMsgTmp>>,
             NEW m, m = mbx \/ (mbx # <<>> /\ m = Tail(mbx)),
             mbx' \in {m, After(m, "NEW_DATA")}
      PROVE  DrainInv'
  <2>1. HeadersInv'
    BY <1>2, <1>3, HeadersFree DEF DrainInv
  <2>2. \A c \in Caller : c \in Range(mbx') => c \in Range(mbx)
    BY <1>3, CallersStay DEF DecInv
  <2>3. \A c \in Caller : c \in Range(mbx') /\ control'[c].cmd = "DELETE_CHANNEL"
                          => open[control'[c].ch]
    BY <1>3, <2>2 DEF DrainInv, ClosingInv
  <2>4. ClosingInv'
    BY <1>3, <2>3, TasksStill, ClosingStays DEF DrainInv
  <2> QED BY <2>1, <2>4 DEF DrainInv
<1>4. ASSUME NEW S \in SUBSET next, PutEmptyFrames(S) PROVE DrainInv'
  BY <1>1, <1>3, <1>4 DEF PutEmptyFrames, chans, tasks, ctl
<1>5. ASSUME NEW skip \in SUBSET {r.out : r \in doneQue}, RecvGet(skip) \/ StopGet(skip)
      PROVE  DrainInv'
  <2>1. /\ mbx # <<>> /\ GetProcessed(Tail(mbx), skip) /\ UNCHANGED <<control, pMsgTmp>>
    BY <1>5 DEF RecvGet, StopGet, Head1, ctl
  <2>2. /\ skip \subseteq Outs /\ FreeFrames(skip, refs) /\ Tell(Tail(mbx), skip, refs)
        /\ UNCHANGED <<processQue, batch>> /\ UNCHANGED <<open, openLocal, outFrames>>
    BY <2>1 DEF GetProcessed, Outs, chans
  <2>3. mbx' \in {Tail(mbx), After(Tail(mbx), "NEW_DATA")}
    BY <2>2 DEF Tell
  <2> QED BY <1>1, <1>3, <2>1, <2>2, <2>3
<1> QED
  BY <1>4, <1>5

LEMMA DecodeDrain ==
    ASSUME DecInv, DecInv', DrainInv, NEW t \in Tsk, taskPc[t] = "codec",
           NEW free \in SUBSET Held(t), NEW show \in SUBSET Held(t),
           NEW use \in SUBSET FirstField(t), Decode(t, free, show, use)
    PROVE  DrainInv'
<1> DEFINE early == {f \in New(t) : inUse[ChOf[f]] # None}
           G == (free \ show) \cup early
           gone == {Org(f) : f \in G}
           R == Counted(t, free, show)
<1>1. /\ FreeFrames(gone, R) /\ Tell(mbx, gone, R)
      /\ UNCHANGED <<open, openLocal, outFrames>> /\ UNCHANGED <<control, pMsgTmp>>
  BY DEF Decode, chans, ctl
<1>2. /\ \A f \in Held(t) : f \in Frame /\ Writes(f)
      /\ \A f \in New(t) : f \in Frame
  BY CodecBatch DEF DecInv
<1>3. gone \subseteq Item
  <2>1. \A f \in G : f \in Frame
    BY <1>2
  <2>2. \A f \in Frame : Org(f) \in Item
    BY DEF Org, Item
  <2> HIDE DEF G
  <2> QED BY <2>1, <2>2
<1>4. \A f \in Frame : /\ refs[f] \in Nat /\ R[f] = refs[f] + IF f \in show \ free THEN 1 ELSE 0
                       /\ f \in show => refs[f] > 0
  <2>1. \A f \in Frame : refs[f] \in Nat /\ FrameInv(f)
    BY Headers
  <2>2. \A f \in show : Writes(f)
    BY <1>2
  <2>3. \A f \in Frame : Writes(f) => refs[f] > 0
    BY <2>1 DEF FrameInv, One
  <2> QED BY <2>1, <2>2, <2>3 DEF Counted
<1>5. R \in [Frame -> Nat] /\ \A f \in Frame : R[f] > 0 <=> refs[f] > 0
  <2>1. \A f \in Frame : refs[f] + (IF f \in show \ free THEN 1 ELSE 0) \in Nat
    BY <1>4
  <2>2. R \in [Frame -> Nat]
    BY <2>1 DEF Counted
  <2>3. \A f \in Frame : R[f] > 0 <=> refs[f] > 0
    BY <1>4
  <2> QED BY <2>2, <2>3
<1> HIDE DEF gone, R
<1>6. HeadersInv'
  BY <1>1, <1>3, <1>5, HeadersFree DEF DrainInv
<1>7. \A r : r.in = None => ((r \in AtTasks)' <=> r \in AtTasks)
  BY DecodeData DEF DecInv
<1>8. mbx' \in {mbx, After(mbx, "NEW_DATA")}
  BY <1>1 DEF Tell
<1>9. \A c \in Caller : c \in Range(mbx') => c \in Range(mbx)
  BY <1>8, CallersStay DEF DecInv
<1>10. \A c \in Caller : c \in Range(mbx') /\ control'[c].cmd = "DELETE_CHANNEL"
                         => open[control'[c].ch]
  BY <1>1, <1>9 DEF DrainInv, ClosingInv
<1>11. ClosingInv'
  BY <1>1, <1>7, <1>10, ClosingStays DEF DrainInv
<1> QED
  BY <1>6, <1>11 DEF DrainInv

\* A frame that is submitted is of the channel as it is open now, for buffers
\* wait only in a channel that is not being deleted.
LEMMA SubmitDrain ==
    ASSUME DecInv, DrainInv, NEW b \in Bit, NEW f \in Frame, Submit(b, f)
    PROVE  DrainInv'
<1>1. /\ b \in inQue[idx] /\ f \in emptyQue[idx] /\ idx \in Ch
      /\ refs' = [refs EXCEPT ![f] = 1] /\ emptyQue' = [emptyQue EXCEPT ![idx] = @ \ {f}]
      /\ fvidFrmQue' = fvidFrmQue /\ invalid' = invalid
      /\ UNCHANGED <<open, openLocal, outFrames>> /\ UNCHANGED <<control, pMsgTmp>>
      /\ mbx' = mbx
  BY DEF Submit, MayTry, chans, ctl, DecInv, LoopInv
<1>2. ChOf[f] = idx /\ openLocal[idx]
  BY <1>1 DEF DecInv, DataInv, FramesInv, Frames, ChannelsInv, ChannelInv
<1>3. /\ refs'[f] = 1 /\ \A g \in Frame \ {f} : refs'[g] = refs[g]
      /\ \A ch \in Ch, g \in Frame : g \in emptyQue'[ch] <=> g \in emptyQue[ch] /\ ~(ch = idx /\ g = f)
  BY <1>1 DEF DecInv, TypeOK
<1>4. ASSUME NEW g \in Frame PROVE HeaderInv(g)'
  <2>1. ChOf[g] \in Ch /\ HeaderInv(g) /\ HeaderInv(f)
    BY Headers DEF DrainInv, HeadersInv
  <2>2. CASE g = f
    <3>1. f \in outFrames[idx] /\ f \notin invalid /\ f \notin fvidFrmQue[idx]
      BY <1>1, <1>2, <2>1 DEF HeaderInv
    <3> QED BY <1>1, <1>2, <1>3, <2>2, <3>1 DEF HeaderInv
  <2>3. CASE g # f
    BY <1>1, <1>3, <2>1, <2>3 DEF HeaderInv
  <2> QED BY <2>2, <2>3
<1>5. HeadersInv'
  BY <1>1, <1>4 DEF DrainInv, HeadersInv, Frames
<1>6. \A r : r.in = None => ((r \in AtTasks)' <=> r \in AtTasks)
  BY SubmitData DEF DecInv
<1>7. ClosingInv'
  BY <1>1, <1>6, ClosingStays DEF DrainInv, ClosingInv
<1> QED
  BY <1>5, <1>7 DEF DrainInv

\* The channel that is flushed gives all it has back to the pool.
LEMMA FlushDrain ==
    ASSUME DecInv, DecInv', DrainInv, NEW t \in Tsk, Flush(t)
    PROVE  DrainInv'
<1>1. PICK ch \in Ch : Flushed(ch)
  BY FlushData DEF DecInv
<1>2. /\ Dummy(ch) \in AtTasks /\ ~openLocal[ch]
      /\ \A r : (r \in AtTasks)' <=> r \in AtTasks /\ r # Dummy(ch)
      /\ emptyQue'[ch] = {} /\ open'[ch] = FALSE /\ openLocal'[ch] = FALSE
      /\ \A d \in Ch \ {ch} : /\ emptyQue'[d] = emptyQue[d] /\ fvidFrmQue'[d] = fvidFrmQue[d]
                              /\ open'[d] = open[d] /\ openLocal'[d] = openLocal[d]
  BY <1>1 DEF Flushed, Dummy
<1>3. UNCHANGED <<control, pMsgTmp>> /\ outFrames' = outFrames /\ mbx' = After(mbx, "LATE_ACK")
  BY DEF Flush, Post, ctl
<1>4. ASSUME NEW f \in Frame PROVE HeaderInv(f)'
  <2>1. ChOf[f] \in Ch /\ refs[f] \in Nat /\ HeaderInv(f) /\ FrameInv(f)
    BY Headers DEF DrainInv, HeadersInv
  <2>2. CASE ChOf[f] = ch
    <3> DEFINE back == (f \in locked[ch] /\ refs[f] = 1) \/ f \in emptyQue[ch]
    <3>1. /\ refs'[f] = refs[f] - One(f \in locked[ch])
          /\ f \in fvidFrmQue'[ch] <=> f \in fvidFrmQue[ch] \/ back
          /\ f \in invalid' <=> f \in invalid /\ ~back
      BY <1>1, <2>2 DEF Flushed, Frames
    <3>2. /\ f \in locked[ch] => refs[f] > 0
          /\ f \in emptyQue[ch] \/ f \in fvidFrmQue[ch] => refs[f] = 0
      <4>1. f \in locked[ch] => Writes(f)
        BY <2>2 DEF Writes
      <4>2. Writes(f) => refs[f] > 0
        BY <2>1 DEF FrameInv, One
      <4> QED BY <2>1, <2>2, <4>1, <4>2 DEF FrameInv
    <3>3. /\ refs[f] > 0 => f \in invalid
          /\ refs[f] = 0 => f \in emptyQue[ch] \/ f \in fvidFrmQue[ch]
          /\ f \in fvidFrmQue[ch] => f \notin invalid
      BY <1>2, <2>1, <2>2 DEF HeaderInv
    <3>4. refs'[f] = IF f \in locked[ch] THEN refs[f] - 1 ELSE refs[f]
      BY <2>1, <3>1 DEF One
    <3>5. refs'[f] > 0 => f \in invalid'
      BY <2>1, <3>1, <3>2, <3>3, <3>4
    <3>6. refs'[f] = 0 => f \in fvidFrmQue'[ch]
      BY <2>1, <3>1, <3>2, <3>3, <3>4
    <3>7. f \in fvidFrmQue'[ch] => f \notin invalid'
      BY <3>1, <3>3
    <3> QED BY <1>2, <2>2, <3>5, <3>6, <3>7 DEF HeaderInv
  <2>3. CASE ChOf[f] # ch
    <3>1. refs'[f] = refs[f] /\ (f \in invalid' <=> f \in invalid)
      BY <1>1, <2>3 DEF Flushed
    <3> QED BY <1>2, <1>3, <2>1, <2>3, <3>1 DEF HeaderInv
  <2> QED BY <2>2, <2>3
<1>5. HeadersInv'
  BY <1>3, <1>4 DEF DrainInv, HeadersInv, Frames
<1>6. ClosingInv'
  <2>1. \A r \in AtTasks' : r.in = None => control'[pMsgTmp'].ch = r.ch
    BY <1>2, <1>3 DEF DrainInv, ClosingInv
  <2>2. ASSUME NEW d \in Ch, open'[d], ~openLocal'[d] PROVE (Dummy(d) \in AtTasks)'
    <3>1. d # ch
      BY <1>2, <2>2
    <3>2. Dummy(d) \in AtTasks /\ Dummy(d) # Dummy(ch)
      BY <1>2, <2>2, <3>1 DEF DrainInv, ClosingInv, Dummy
    <3> QED BY <1>2, <3>2 DEF Dummy
  <2>3. \A c \in Caller : c \notin Range(mbx')
    <3>1. Deleted
      BY <1>2 DEF Deleted, Dummy
    <3>2. \A c \in Caller : c \notin Range(mbx)
      BY <3>1 DEF DecInv, CallsInv
    <3>3. \A c \in Caller : c \in Range(mbx') => c \in Range(mbx)
      BY <1>3, CallersStay DEF DecInv
    <3> QED BY <3>2, <3>3
  <2> QED BY <2>1, <2>2, <2>3 DEF ClosingInv
<1> QED
  BY <1>5, <1>6 DEF DrainInv

\* The dummy request is queued, and its caller waits.
LEMMA DeletingDrain ==
    ASSUME DecInv, DrainInv, ~Deleted, NEW c \in Caller, NEW ch \in Ch, ch = control[c].ch,
           NEW F, Deleting(c, ch, F), UNCHANGED <<batch, taskPc>>, open' = open,
           mbx # <<>>, mbx' = Tail(mbx)
    PROVE  ClosingInv'
<1>1. /\ processQue' = [processQue EXCEPT ![TskOf[ch]] = Append(@, Dummy(ch))]
      /\ pMsgTmp' = c /\ control' = control
      /\ openLocal' = [openLocal EXCEPT ![ch] = FALSE]
  BY DEF Deleting
<1>2. \A r : (r \in AtTasks)' <=> r \in AtTasks \/ r = Dummy(ch)
  BY <1>1, DummyQueued DEF DecInv
<1>3. \A d \in Ch : ~openLocal'[d] => d = ch \/ ~openLocal[d]
  BY <1>1 DEF DecInv, TypeOK
<1>4. \A r \in AtTasks' : r.in = None => control'[pMsgTmp'].ch = r.ch
  BY <1>1, <1>2 DEF Deleted, Dummy
<1>5. \A d \in Ch : open'[d] /\ ~openLocal'[d] => (Dummy(d) \in AtTasks)'
  BY <1>2, <1>3 DEF DrainInv, ClosingInv, Dummy
<1>6. \A d \in Caller : d \in Range(mbx') /\ control'[d].cmd = "DELETE_CHANNEL"
                        => open'[control'[d].ch]
  <2>1. \A d \in Caller : d \in Range(mbx') => d \in Range(mbx)
    BY CallersStay DEF DecInv
  <2> QED BY <1>1, <2>1 DEF DrainInv, ClosingInv
<1> QED
  BY <1>4, <1>5, <1>6 DEF ClosingInv

LEMMA DeleteChDrain ==
    ASSUME DecInv, DrainInv, NEW c \in Caller, RecvDeleteCh(c)
    PROVE  DrainInv'
<1> DEFINE ch == control[c].ch
<1>1. c \in Range(mbx) /\ ch \in Ch /\ ~Deleted /\ control[c].cmd = "DELETE_CHANNEL"
  BY AskedFor DEF RecvDeleteCh, Ask1, DecInv
<1> HIDE DEF ch
<1>2. /\ Deleting(c, ch, outFrames[ch]) /\ UNCHANGED <<batch, taskPc>>
      /\ refs' = refs /\ emptyQue' = emptyQue /\ fvidFrmQue' = fvidFrmQue
      /\ open' = open /\ outFrames' = outFrames
      /\ mbx # <<>> /\ mbx' = Tail(mbx)
  BY DEF RecvDeleteCh, Quiet, Ask1, Head1, ch
<1>3. ClosingInv'
  BY <1>1, <1>2, DeletingDrain DEF ch
<1>4. open[ch] /\ openLocal[ch]
  <2>1. open[ch]
    BY <1>1 DEF DrainInv, ClosingInv, ch
  <2>2. ~openLocal[ch] => Deleted
    BY <1>1, <2>1 DEF DrainInv, ClosingInv, Deleted, Dummy
  <2> QED BY <1>1, <2>1, <2>2
<1>5. /\ invalid' = invalid \cup outFrames[ch] /\ openLocal'[ch] = FALSE
      /\ \A d \in Ch \ {ch} : openLocal'[d] = openLocal[d]
  BY <1>1, <1>2 DEF Deleting, DecInv, TypeOK
<1>6. ASSUME NEW f \in Frame PROVE HeaderInv(f)'
  <2>1. ChOf[f] \in Ch /\ HeaderInv(f)
    BY Headers DEF DrainInv, HeadersInv
  <2>2. CASE ChOf[f] = ch
    BY <1>2, <1>4, <1>5, <2>1, <2>2 DEF HeaderInv
  <2>3. CASE ChOf[f] # ch
    <3>1. f \in invalid' <=> f \in invalid
      BY <1>1, <1>5, <2>3 DEF DrainInv, HeadersInv, Frames
    <3> QED BY <1>2, <1>5, <2>1, <2>3, <3>1 DEF HeaderInv
  <2> QED BY <2>2, <2>3
<1>7. HeadersInv'
  BY <1>2, <1>6 DEF DrainInv, HeadersInv, Frames
<1> QED
  BY <1>3, <1>7 DEF DrainInv

\* The headers of a closed channel that are in the pool become those of the
\* new one, unless it does not come to be.
LEMMA CreateChDrain ==
    ASSUME "memory" \notin Faults, DecInv, DrainInv, NEW c \in Caller, RecvCreateCh(c)
    PROVE  DrainInv'
<1> DEFINE ch == control[c].ch
<1>1. c \in Range(mbx) /\ ch \in Ch /\ ~Deleted
  BY AskedFor DEF RecvCreateCh, DecInv
<1> HIDE DEF ch
<1>2. /\ UNCHANGED <<batch, taskPc>> /\ refs' = refs /\ mbx # <<>> /\ mbx' = Tail(mbx)
  BY DEF RecvCreateCh, Quiet, Ask1, Head1
<1>3. ASSUME ~open[ch]
      PROVE  /\ ~openLocal[ch]
             /\ \A f \in Frame : ChOf[f] = ch =>
                   /\ f \notin emptyQue[ch]
                   /\ refs[f] > 0 => f \in invalid
                   /\ refs[f] = 0 => f \in fvidFrmQue[ch]
                   /\ f \in fvidFrmQue[ch] => f \notin invalid
  <2>1. ~openLocal[ch]
    BY <1>1, <1>3 DEF DecInv, DataInv, ChannelsInv, ChannelInv
  <2> QED BY <1>3, <2>1 DEF DrainInv, HeadersInv, HeaderInv
\* What becomes of the headers when the channel gets those of S.
<1>4. ASSUME ~open[ch], NEW S \in SUBSET fvidFrmQue[ch],
             outFrames' = [outFrames EXCEPT ![ch] = S],
             emptyQue' = [emptyQue EXCEPT ![ch] = S],
             fvidFrmQue' = [fvidFrmQue EXCEPT ![ch] = @ \ S],
             \A f \in Frame : f \in invalid' <=> f \in invalid,
             \A d \in Ch \ {ch} : open'[d] = open[d] /\ openLocal'[d] = openLocal[d],
             open'[ch] \/ (S = {} /\ ~openLocal'[ch])
      PROVE  HeadersInv'
  <2>1. /\ outFrames'[ch] = S /\ emptyQue'[ch] = S /\ fvidFrmQue'[ch] = fvidFrmQue[ch] \ S
        /\ \A d \in Ch \ {ch} : /\ outFrames'[d] = outFrames[d] /\ emptyQue'[d] = emptyQue[d]
                                /\ fvidFrmQue'[d] = fvidFrmQue[d]
    BY <1>1, <1>4 DEF DecInv, TypeOK
  <2>2. ASSUME NEW f \in Frame PROVE HeaderInv(f)'
    <3>1. ChOf[f] \in Ch /\ refs[f] \in Nat /\ HeaderInv(f)
      BY Headers DEF DrainInv, HeadersInv
    <3>2. CASE ChOf[f] = ch
      BY <1>2, <1>3, <1>4, <2>1, <3>1, <3>2 DEF HeaderInv
    <3>3. CASE ChOf[f] # ch
      BY <1>2, <1>4, <2>1, <3>1, <3>3 DEF HeaderInv
    <3> QED BY <3>2, <3>3
  <2>3. ASSUME NEW d \in Ch PROVE outFrames'[d] \subseteq Frames(d)
    <3>1. CASE d = ch
      BY <1>1, <1>4, <2>1, <3>1 DEF DecInv, DataInv, FramesInv
    <3>2. CASE d # ch
      BY <2>1, <3>2 DEF DrainInv, HeadersInv
    <3> QED BY <3>1, <3>2
  <2> QED BY <2>2, <2>3 DEF HeadersInv, Frames
<1>5. ASSUME UNCHANGED <<prev, inQue, emptyQue, fvidFrmQue, invalid, reqQue, processQue,
                         chans, pMsgTmp>>, Ack({c})
      PROVE  DrainInv'
  BY <1>1, <1>2, <1>5, DrainAck DEF chans
<1>6. ASSUME ~open[ch], NEW S \in SUBSET fvidFrmQue[ch],
             outFrames' = [outFrames EXCEPT ![ch] = S],
             emptyQue' = [emptyQue EXCEPT ![ch] = S],
             fvidFrmQue' = [fvidFrmQue EXCEPT ![ch] = @ \ S],
             open' = [open EXCEPT ![ch] = TRUE],
             openLocal' = [openLocal EXCEPT ![ch] = TRUE], Ack({c}),
             UNCHANGED <<prev, inQue, invalid, reqQue, processQue, pMsgTmp>>
      PROVE  DrainInv'
  <2>1. /\ open'[ch] = TRUE /\ openLocal'[ch] = TRUE
        /\ \A d \in Ch \ {ch} : open'[d] = open[d] /\ openLocal'[d] = openLocal[d]
    BY <1>1, <1>6 DEF DecInv, TypeOK
  <2>2. HeadersInv'
    BY <1>4, <1>6, <2>1
  <2>3. \A r : (r \in AtTasks)' <=> r \in AtTasks
    BY <1>2, <1>6, TasksStill
  <2>4. \A r \in AtTasks' : r.in = None => control'[pMsgTmp'].ch = r.ch
    BY <1>1, <2>3 DEF Deleted
  <2>5. \A d \in Ch : open'[d] /\ ~openLocal'[d] => (Dummy(d) \in AtTasks)'
    BY <2>1, <2>3 DEF DrainInv, ClosingInv, Dummy
  <2>6. ASSUME NEW d \in Caller, d \in Range(mbx'), control'[d].cmd = "DELETE_CHANNEL"
        PROVE  open'[control'[d].ch]
    <3>1. d \in Range(mbx)
      BY <1>2, <2>6, CallersStay DEF DecInv
    <3>2. control'[d] = control[d] /\ control[d].ch \in Ch
      BY <1>6, <2>6 DEF Ack, NoControl, DecInv, TypeOK, Control
    <3> QED BY <2>1, <2>6, <3>1, <3>2 DEF DrainInv, ClosingInv
  <2>7. ClosingInv'
    BY <2>4, <2>5, <2>6 DEF ClosingInv
  <2> QED BY <2>2, <2>7 DEF DrainInv
<1>7. ASSUME ~open[ch], open' = open,
             outFrames' = [outFrames EXCEPT ![ch] = {}],
             emptyQue' = [emptyQue EXCEPT ![ch] = {}],
             fvidFrmQue' = [fvidFrmQue EXCEPT ![ch] = @ \ {}],
             Deleting(c, ch, {})
      PROVE  DrainInv'
  <2>1. /\ \A f \in Frame : f \in invalid' <=> f \in invalid
        /\ openLocal' = [openLocal EXCEPT ![ch] = FALSE]
    BY <1>7 DEF Deleting
  <2>2. ~openLocal'[ch] /\ \A d \in Ch \ {ch} : openLocal'[d] = openLocal[d]
    BY <1>1, <2>1 DEF DecInv, TypeOK
  <2>3. HeadersInv'
    BY <1>4, <1>7, <2>1, <2>2
  <2>4. ClosingInv'
    BY <1>1, <1>2, <1>7, DeletingDrain DEF ch
  <2> QED BY <2>3, <2>4 DEF DrainInv
<1> QED
  BY <1>5, <1>6, <1>7 DEF RecvCreateCh, ch

LEMMA DrainStep ==
    ASSUME "memory" \notin Faults, DecInv, DecInv', DrainInv, [Next]_vars
    PROVE  DrainInv'
<1>1. ASSUME LinkTask PROVE DrainInv'
  <2>1. ASSUME ProcessData PROVE DrainInv'
    BY <2>1, ScanDrain, SubmitDrain DEF ProcessData
  <2> QED BY <1>1, <2>1, FreeDrain, ScanDrain, DeleteChDrain, CreateChDrain, CallDrain
          DEF LinkTask
<1>2. ASSUME NEW t \in Tsk, ProcessTask(t) PROVE DrainInv'
  BY <1>2, OuterDrain, FlushDrain, DecodeDrain DEF ProcessTask
<1>3. ASSUME NextLink PROVE DrainInv'
  BY <1>3, OuterDrain, FreeDrain DEF NextLink
<1> QED
  BY <1>1, <1>2, <1>3, OuterDrain, AskDrain DEF Next, Callers, Done

LEMMA FirstDrain == ASSUME Init PROVE DrainInv
<1>1. HeadersInv
  <2>1. ASSUME NEW f \in Frame PROVE HeaderInv(f)
    <3>1. ChOf[f] \in Ch
      BY ChannelAssumption
    <3>2. /\ refs[f] = 0 /\ invalid = {} /\ open[ChOf[f]] /\ openLocal[ChOf[f]]
          /\ emptyQue[ChOf[f]] = outFrames[ChOf[f]]
          /\ fvidFrmQue[ChOf[f]] = Frames(ChOf[f]) \ outFrames[ChOf[f]]
      BY <3>1 DEF Init
    <3> QED BY <3>2 DEF HeaderInv, Frames
  <2> QED BY <2>1 DEF Init, HeadersInv
<1>2. ClosingInv
  <2>1. AtTasks = {} /\ Range(mbx) = {}
    BY EmptyQueue DEF Init, AtTasks
  <2> QED BY <2>1 DEF Init, ClosingInv
<1> QED
  BY <1>1, <1>2 DEF DrainInv

\* When the caller of DELETE_CHANNEL is answered, the channel has no buffer,
\* no request and no frame in the link, however its requests, the codec and
\* the next link were interleaved, and a later CREATE_CHANNEL finds its headers
\* in the pool. (A creation that has no memory for a frame loses the headers it
\* has taken, decLink_common.c:429, and is left out.)
THEOREM AlwaysClosedMeansDrained ==
    ASSUME OneCaller, "memory" \notin Faults
    PROVE  Spec => []ClosedMeansDrained
<1>1. Init => DrainInv
  BY FirstDrain
<1>2. DecInv /\ DecInv' /\ DrainInv /\ [Next]_vars => DrainInv'
  BY DrainStep
<1>3. DecInv /\ DrainInv => ClosedMeansDrained
  <2> SUFFICES ASSUME DecInv, DrainInv, NEW ch \in Ch, ~open[ch],
                      \A c \in Caller : control[c].ch = ch => pMsgTmp # c
               PROVE  /\ inQue[ch] = {} /\ locked[ch] = {} /\ emptyQue[ch] = {}
                      /\ \A r \in AtTasks : r.ch # ch
                      /\ \A f \in Frames(ch) : IF refs[f] > 0 THEN f \in invalid
                                               ELSE f \in fvidFrmQue[ch]
    BY DEF ClosedMeansDrained
  <2>1. inQue[ch] = {} /\ locked[ch] = {} /\ ~openLocal[ch]
    BY DEF DecInv, DataInv, ChannelsInv, ChannelInv
  <2>2. ASSUME NEW r \in AtTasks, r.ch = ch PROVE FALSE
    <3>1. r.in = None
      BY <2>2 DEF DecInv, DataInv, ChannelsInv, ChannelInv
    <3>2. control[pMsgTmp].ch = ch /\ pMsgTmp \in Caller
      BY <2>2, <3>1 DEF DrainInv, ClosingInv, DecInv, CallsInv, Deleted, TypeOK
    <3> QED BY <3>2
  <2>3. ASSUME NEW f \in Frame, ChOf[f] = ch
        PROVE  /\ f \notin emptyQue[ch] /\ refs[f] \in Nat
               /\ refs[f] > 0 => f \in invalid
               /\ refs[f] = 0 => f \in fvidFrmQue[ch]
    <3>1. HeaderInv(f) /\ refs[f] \in Nat
      BY Headers DEF DrainInv, HeadersInv
    <3> QED BY <2>1, <2>3, <3>1 DEF HeaderInv
  <2>4. emptyQue[ch] = {}
    BY <2>3 DEF DecInv, DataInv, FramesInv, Frames
  <2>5. \A f \in Frames(ch) : IF refs[f] > 0 THEN f \in invalid ELSE f \in fvidFrmQue[ch]
    BY <2>3 DEF Frames
  <2> QED BY <2>1, <2>2, <2>4, <2>5
<1> QED
  BY <1>1, <1>2, <1>3, Inductive, PTL DEF Spec

=============================================================================
