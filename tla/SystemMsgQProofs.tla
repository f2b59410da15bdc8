------------------------- MODULE SystemMsgQProofs -------------------------
(* Theorems of SystemMsgQ, for every number of processors, threads, links   *)
(* and messages, every placement of the links and every set of commands.    *)
EXTENDS SystemMsgQ, OwningLemmas

Caller == App \cup Link

-----------------------------------------------------------------------------
(* The inductive invariant.                                                 *)

\* Where a thread can stand, and what it has in hand there.
ThreadsInv ==
    /\ \A t \in Caller : /\ pc[t] # "reply"
                         /\ ptr[t] \in Msg <=> pc[t] = "ack"
    /\ \A p \in Proc : /\ pc[p] \notin {"lock", "send", "ack"}
                       /\ ptr[p] = NoMsg <=> pc[p] = "idle"
    /\ \A t \in Thread : /\ pc[t] # "idle" => req[t] \in Command
                         /\ pc[t] \in {"ack", "link", "answered"} => req[t].ack

\* The lock is held from the sending of a message to the end of the call.
LockInv == \A t \in Caller : pc[t] \in {"send", "ack"} => lock[Home(t)] = t

\* A caller that waits and the message it sent, a MsgQ task and the message
\* it carries out, and what an acknowledgement says.
HeapInv ==
    /\ \A t \in Caller : pc[t] = "ack" =>
          /\ heap[ptr[t]] # Free /\ heap[ptr[t]].cmd = req[t]
          /\ heap[ptr[t]].reply = Home(t)
    /\ \A m \in Msg : heap[m].cmd.ack => \E t \in Caller : pc[t] = "ack" /\ ptr[t] = m
    /\ \A p \in Proc : pc[p] # "idle" => heap[ptr[p]].cmd = req[p]
    /\ \A p \in Proc : pc[p] = "reply" /\ req[p].ack => heap[ptr[p]].done
    /\ \A p \in Proc : \A m \in Range(ackQ[p]) :
          heap[m].cmd.ack /\ heap[m].reply = p /\ heap[m].done

\* No thread is named in two entries of the queue.
NamedOnce(q) == \A i, j \in DOMAIN q :
                   q[i].from = q[j].from /\ q[i].from # NoThread => i = j

\* Who is named in a mailbox entry waits for the answer to that one.
EntriesInv ==
    \A l \in Link :
       /\ \A e \in Range(mbx[l]) \cup {held[l]} : e.from # NoThread =>
             e.cmd.to = l /\ pc[e.from] = "link" /\ req[e.from] = e.cmd
       /\ NamedOnce(mbx[l])
       /\ \A e \in Range(mbx[l]) : e.from = held[l].from => e.from = NoThread

OwnInv == /\ TypeOK
          /\ \A m \in Msg : Sole(Owners(m))
          /\ \A p \in Proc : IsInjective(recvQ[p]) /\ IsInjective(ackQ[p])

MsgQInv == OwnInv /\ ThreadsInv /\ LockInv /\ HeapInv /\ EntriesInv

-----------------------------------------------------------------------------
LEMMA Threads ==
    /\ NoThread \notin Thread
    /\ Thread = Caller \cup Proc /\ Caller \cap Proc = {}
    /\ \A t \in Thread : Home(t) \in Proc
    /\ NoCommand \notin Command /\ ~NoCommand.ack /\ Free.cmd = NoCommand
    /\ NoEntry \notin Entry /\ NoEntry.from = NoThread
BY ProcAssumption, ThreadAssumption
   DEF Thread, Caller, Home, NoCommand, Command, Free, NoEntry, Entry

\* A message in use is not the free one, whatever its fields.
LEMMA InUse ==
    ASSUME TypeOK, NEW m \in Msg, NEW x, x = heap[m], x # Free
    PROVE  /\ x \in [cmd : Command, reply : Proc, done : BOOLEAN]
           /\ [x EXCEPT !.done = TRUE] \in [cmd : Command, reply : Proc, done : BOOLEAN]
           /\ [x EXCEPT !.done = TRUE] # Free
           /\ [x EXCEPT !.done = TRUE].cmd = x.cmd
           /\ [x EXCEPT !.done = TRUE].reply = x.reply
           /\ [x EXCEPT !.done = TRUE].done
<1>1. x \in [cmd : Command, reply : Proc, done : BOOLEAN]
  BY DEF TypeOK
<1>2. PICK y \in [cmd : Command, reply : Proc, done : BOOLEAN] : y = [x EXCEPT !.done = TRUE]
  BY <1>1
<1>3. y.cmd = x.cmd /\ y.reply = x.reply /\ y.done
  BY <1>1, <1>2
<1>4. y # Free
  BY ThreadAssumption, <1>2 DEF Free
<1> QED
  BY <1>1, <1>2, <1>3, <1>4

\* The message a caller sends is a free one.
LEMMA SendTakes ==
    ASSUME NEW t, Send(t)
    PROVE  \E m \in Msg :
              /\ heap[m] = Free /\ pc[t] = "send"
              /\ heap' = [heap EXCEPT ![m] = [cmd |-> req[t], reply |-> Home(t), done |-> FALSE]]
              /\ recvQ' = [recvQ EXCEPT ![LinkProc[req[t].to]] = Append(@, m)]
              /\ \/ /\ req[t].ack /\ pc' = [pc EXCEPT ![t] = "ack"]
                    /\ ptr' = [ptr EXCEPT ![t] = m] /\ UNCHANGED <<req, lock>>
                 \/ ~req[t].ack /\ ReturnFrom(t) /\ ptr' = ptr
              /\ UNCHANGED <<mutex, ackQ, links>>
<1> DEFINE free == {m \in Msg : heap[m] = Free}
           m0 == CHOOSE m \in Msg : m \in free
<1>1. free # {} /\ pc[t] = "send"
  BY DEF Send
<1>2. m0 \in Msg /\ heap[m0] = Free
  BY <1>1
<1>3. /\ heap' = [heap EXCEPT ![m0] = [cmd |-> req[t], reply |-> Home(t), done |-> FALSE]]
      /\ recvQ' = [recvQ EXCEPT ![LinkProc[req[t].to]] = Append(@, m0)]
      /\ IF req[t].ack
         THEN /\ pc' = [pc EXCEPT ![t] = "ack"]
              /\ ptr' = [ptr EXCEPT ![t] = m0] /\ UNCHANGED <<req, lock>>
         ELSE ReturnFrom(t) /\ ptr' = ptr
      /\ UNCHANGED <<mutex, ackQ, links>>
  BY DEF Send
<1> HIDE DEF m0
<1> QED
  BY <1>1, <1>2, <1>3

-----------------------------------------------------------------------------
(* Who owns a message, one kind of owner at a time.                         *)
Kind == {"heap", "recvQ", "ackQ", "task"}

LEMMA ByKind ==
    ASSUME NEW m, NEW w
    PROVE  /\ DOMAIN OwnersByKind(m) = Kind
           /\ w \in OwnersByKind(m)["heap"] <=> w = m /\ heap[m] = Free
           /\ w \in OwnersByKind(m)["recvQ"] <=> w \in Proc /\ m \in Range(recvQ[w])
           /\ w \in OwnersByKind(m)["ackQ"] <=> w \in Proc /\ m \in Range(ackQ[w])
           /\ w \in OwnersByKind(m)["task"] <=> w \in Proc /\ ptr[w] = m
BY DEF OwnersByKind, Kind

LEMMA ByKindNext ==
    ASSUME NEW m, NEW w
    PROVE  /\ DOMAIN OwnersByKind(m)' = Kind
           /\ w \in OwnersByKind(m)'["heap"] <=> w = m /\ heap'[m] = Free
           /\ w \in OwnersByKind(m)'["recvQ"] <=> w \in Proc /\ m \in Range(recvQ'[w])
           /\ w \in OwnersByKind(m)'["ackQ"] <=> w \in Proc /\ m \in Range(ackQ'[w])
           /\ w \in OwnersByKind(m)'["task"] <=> w \in Proc /\ ptr'[w] = m
BY DEF OwnersByKind, Kind, Free, NoCommand

\* A message in one place is in no other.
LEMMA OneHand ==
    ASSUME OwnInv, NEW m \in Msg
    PROVE  /\ heap[m] = Free => \A p \in Proc : /\ ptr[p] # m /\ m \notin Range(recvQ[p])
                                                /\ m \notin Range(ackQ[p])
           /\ \A p \in Proc : m \in Range(recvQ[p]) =>
                 \A o \in Proc : ptr[o] # m /\ m \notin Range(ackQ[o])
           /\ \A p \in Proc : ptr[p] = m =>
                 \A o \in Proc : m \notin Range(ackQ[o]) /\ (ptr[o] = m => o = p)
<1> DEFINE by == OwnersByKind(m)
<1>1. Sole(Tagged(by)) /\ DOMAIN by = Kind
  BY ByKind DEF OwnInv, Owners
<1>2. \A k, j \in Kind : \A x \in by[k], y \in by[j] : k = j /\ x = y
  BY <1>1, NowhereElse
<1>3. \A w : /\ w \in by["heap"] <=> w = m /\ heap[m] = Free
             /\ w \in by["recvQ"] <=> w \in Proc /\ m \in Range(recvQ[w])
             /\ w \in by["ackQ"] <=> w \in Proc /\ m \in Range(ackQ[w])
             /\ w \in by["task"] <=> w \in Proc /\ ptr[w] = m
  BY ByKind
<1> HIDE DEF by
<1>4. /\ \A x \in by["heap"] : by["recvQ"] = {} /\ by["ackQ"] = {} /\ by["task"] = {}
      /\ \A x \in by["recvQ"] : by["ackQ"] = {} /\ by["task"] = {}
      /\ \A x \in by["task"] : by["ackQ"] = {} /\ \A y \in by["task"] : y = x
  BY <1>2 DEF Kind
<1>5. heap[m] = Free => \A p \in Proc : /\ ptr[p] # m /\ m \notin Range(recvQ[p])
                                        /\ m \notin Range(ackQ[p])
  BY <1>3, <1>4
<1>6. \A p \in Proc : m \in Range(recvQ[p]) =>
         \A o \in Proc : ptr[o] # m /\ m \notin Range(ackQ[o])
  BY <1>3, <1>4
<1>7. \A p \in Proc : ptr[p] = m =>
         \A o \in Proc : m \notin Range(ackQ[o]) /\ (ptr[o] = m => o = p)
  BY <1>3, <1>4
<1> QED
  BY <1>5, <1>6, <1>7

\* A step by which owner x of kind k passes message m0 on to y of kind l.
Passes(m0, k, x, l, y) ==
    \A m \in Msg : \A j \in Kind : \A w :
       w \in OwnersByKind(m)'[j] <=>
          \/ w \in OwnersByKind(m)[j] /\ ~(m = m0 /\ j = k /\ w = x)
          \/ m = m0 /\ j = l /\ w = y

LEMMA PassesSole ==
    ASSUME OwnInv, NEW m0 \in Msg, NEW k \in Kind, NEW x, NEW l \in Kind, NEW y,
           k # l, x \in OwnersByKind(m0)[k], Passes(m0, k, x, l, y)
    PROVE  \A m \in Msg : Sole(Owners(m)')
<1>1. \A m : DOMAIN OwnersByKind(m) = Kind /\ DOMAIN OwnersByKind(m)' = Kind
  BY ByKind, ByKindNext
<1>2. HandsOver(OwnersByKind(m0), OwnersByKind(m0)', k, x, l, y)
  BY <1>1 DEF Passes, HandsOver
<1>3. \A m \in Msg \ {m0} : Keeps(OwnersByKind(m), OwnersByKind(m)')
  BY <1>1 DEF Passes, Keeps
<1> QED
  BY <1>2, <1>3, HandOver, Keep DEF OwnInv, Owners

\* A step after which everybody has what he had.
LEMMA StaysSole ==
    ASSUME OwnInv, UNCHANGED <<recvQ, ackQ>>, \A p \in Proc : ptr'[p] = ptr[p],
           \A m \in Msg : heap'[m] = Free <=> heap[m] = Free
    PROVE  /\ \A m \in Msg : Sole(Owners(m)')
           /\ \A p \in Proc : IsInjective(recvQ'[p]) /\ IsInjective(ackQ'[p])
<1>1. ASSUME NEW m \in Msg, NEW j \in Kind, NEW w
      PROVE  w \in OwnersByKind(m)'[j] <=> w \in OwnersByKind(m)[j]
  BY ByKind, ByKindNext DEF Kind
<1>2. \A m : DOMAIN OwnersByKind(m) = Kind /\ DOMAIN OwnersByKind(m)' = Kind
  BY ByKind, ByKindNext
<1>3. \A m \in Msg : Keeps(OwnersByKind(m), OwnersByKind(m)')
  BY <1>1, <1>2 DEF Keeps
<1> QED
  BY <1>3, Keep DEF OwnInv, Owners

\* The parts of the types that the steps of a thread leave alone.
LEMMA TypeStep == ASSUME MsgQInv, [Next]_vars PROVE TypeOK'
<1> USE Threads
<1>0. TypeOK /\ \A t \in Thread : pc[t] # "idle" => req[t] \in Command
  BY DEF MsgQInv, OwnInv, ThreadsInv
<1>1. \A t \in Thread : \A r \in Command :
         (IF Remote(t, r) THEN "lock" ELSE LocalPc(t, r)) \in Pc
  BY DEF Pc, LocalPc
<1>2. ASSUME NEW t \in App \cup Link, NEW r \in Requests[t], Begin(t, r) PROVE TypeOK'
  <2>1. r \in Command /\ t \in Thread
    BY RequestAssumption DEF Thread
  <2> QED BY <1>0, <1>1, <1>2, <2>1 DEF Begin, Call, TypeOK, locks, queues, links
<1>3. ASSUME NEW t \in Thread, PendLock(t) PROVE TypeOK'
  <2>1. t \in App \cup Link
    BY <1>3 DEF PendLock, MsgQInv, ThreadsInv, Caller
  <2> QED BY <1>0, <1>3, <2>1 DEF PendLock, TypeOK, Pc, queues, links
<1>4. ASSUME NEW t \in Thread, Send(t) PROVE TypeOK'
  <2>1. PICK m \in Msg :
           /\ heap[m] = Free /\ pc[t] = "send"
           /\ heap' = [heap EXCEPT ![m] = [cmd |-> req[t], reply |-> Home(t), done |-> FALSE]]
           /\ recvQ' = [recvQ EXCEPT ![LinkProc[req[t].to]] = Append(@, m)]
           /\ \/ /\ req[t].ack /\ pc' = [pc EXCEPT ![t] = "ack"]
                 /\ ptr' = [ptr EXCEPT ![t] = m] /\ UNCHANGED <<req, lock>>
              \/ ~req[t].ack /\ ReturnFrom(t) /\ ptr' = ptr
           /\ UNCHANGED <<mutex, ackQ, links>>
    BY <1>4, SendTakes
  <2>2. /\ req[t] \in Command /\ LinkProc[req[t].to] \in Proc
    BY <1>0, <2>1, ProcAssumption DEF Command
  <2>3. heap' \in [Msg -> [cmd : Command, reply : Proc, done : BOOLEAN] \cup {Free}]
    BY <1>0, <2>1, <2>2 DEF TypeOK
  <2>4. recvQ' \in [Proc -> Seq(Msg)]
    BY <1>0, <2>1, <2>2 DEF TypeOK
  <2>5. pc' \in [Thread -> Pc] /\ req' \in [Thread -> Command \cup {NoCommand}]
        /\ ptr' \in [Thread -> Msg \cup {NoMsg}] /\ lock' \in [Proc -> App \cup Link \cup {NoThread}]
    <3>1. CASE pc' = [pc EXCEPT ![t] = "ack"] /\ ptr' = [ptr EXCEPT ![t] = m]
               /\ UNCHANGED <<req, lock>>
      BY <1>0, <3>1 DEF TypeOK, Pc
    <3>2. CASE ReturnFrom(t) /\ ptr' = ptr
      BY <1>0, <3>2 DEF TypeOK, Pc, ReturnFrom
    <3> QED BY <2>1, <3>1, <3>2
  <2> QED BY <1>0, <2>1, <2>3, <2>4, <2>5 DEF TypeOK, links
<1>5. ASSUME NEW t \in Thread, GetAck(t) PROVE TypeOK'
  <2>1. ackQ[Home(t)] \in Seq(Msg) /\ ackQ[Home(t)] # <<>>
    BY <1>0, <1>5 DEF GetAck, TypeOK
  <2>2. Head(ackQ[Home(t)]) \in Msg /\ Tail(ackQ[Home(t)]) \in Seq(Msg)
    BY <2>1, QueueTake
  <2> QED BY <1>0, <1>5, <2>2 DEF GetAck, ReturnFrom, TypeOK, Pc, links
<1>6. ASSUME NEW t \in Thread, LockMutex(t) PROVE TypeOK'
  BY <1>0, <1>6 DEF LockMutex, TypeOK, Pc, queues, links
<1>7. ASSUME NEW t \in Thread, Post(t) PROVE TypeOK'
  <2>1. req[t] \in Command /\ req[t].to \in Link
    BY <1>0, <1>7 DEF Post, Command
  <2>2. PICK e \in Entry : /\ mbx' = [mbx EXCEPT ![req[t].to] = Append(@, e)]
                           /\ e.cmd = req[t]
    <3>1. [cmd |-> req[t], from |-> IF req[t].ack THEN t ELSE NoThread,
           msg |-> IF req[t].prm THEN ptr[t] ELSE NoMsg] \in Entry
      BY <1>0, <2>1 DEF Entry, TypeOK
    <3> QED BY <1>7, <3>1 DEF Post
  <2>3. mbx' \in [Link -> Seq(Entry)]
    BY <1>0, <2>1, <2>2 DEF TypeOK
  <2> QED BY <1>0, <1>7, <2>3 DEF Post, TypeOK, Pc, locks, queues
<1>8. ASSUME NEW t \in Thread, Answered(t) PROVE TypeOK'
  <2>1. CASE t \in Proc
    <3>1. PICK m \in Msg : m = ptr[t]
      BY <1>0, <1>8, <2>1 DEF Answered, TypeOK, MsgQInv, ThreadsInv
    <3>2. heap' = [heap EXCEPT ![m] = [heap[m] EXCEPT !.done = TRUE]]
      BY <1>8, <2>1, <3>1 DEF Answered
    <3>3. [heap[m] EXCEPT !.done = TRUE] \in [cmd : Command, reply : Proc, done : BOOLEAN] \cup {Free}
      <4>1. heap[m] # Free
        BY <1>0, <1>8, <2>1, <3>1 DEF Answered, MsgQInv, HeapInv
      <4> QED BY <1>0, <4>1, InUse
    <3>4. heap' \in [Msg -> [cmd : Command, reply : Proc, done : BOOLEAN] \cup {Free}]
      BY <1>0, <3>2, <3>3 DEF TypeOK
    <3> QED BY <1>0, <1>8, <2>1, <3>4 DEF Answered, TypeOK, Pc, links
  <2>2. CASE t \notin Proc
    <3>1. /\ mutex' \in {mutex, NoThread}
          /\ pc' = [pc EXCEPT ![t] = "idle"] /\ req' = [req EXCEPT ![t] = NoCommand]
          /\ UNCHANGED <<heap, ptr, lock, recvQ, ackQ, mbx, held, up>>
      BY <1>8, <2>2 DEF Answered, links
    <3> QED BY <1>0, <3>1 DEF TypeOK, Pc
  <2> QED BY <2>1, <2>2
<1>9. ASSUME NEW p \in Proc, GetMsg(p) PROVE TypeOK'
  <2>1. recvQ[p] \in Seq(Msg) /\ recvQ[p] # <<>>
    BY <1>0, <1>9 DEF GetMsg, TypeOK
  <2>2. PICK m \in Msg : m = Head(recvQ[p])
    BY <2>1, QueueTake
  <2>3. Tail(recvQ[p]) \in Seq(Msg) /\ m \in Range(recvQ[p])
    BY <2>1, <2>2, QueueTake
  <2>4. heap[m] # Free
    BY <2>3, OneHand DEF MsgQInv
  <2>5. heap[m].cmd \in Command
    BY <1>0, <2>4, InUse
  <2>6. PICK q \in Pc, h \in [cmd : Command, reply : Proc, done : BOOLEAN] \cup {Free} :
           pc' = [pc EXCEPT ![p] = q] /\ heap' = [heap EXCEPT ![m] = h]
    <3>1. CASE heap[m].cmd.cmd = "getInfo"
      <4>1. /\ heap' = [heap EXCEPT ![m] = [heap[m] EXCEPT !.done = TRUE]]
            /\ pc' = [pc EXCEPT ![p] = "reply"]
        BY <1>9, <2>2, <3>1 DEF GetMsg
      <4> QED BY <1>0, <2>4, <4>1, InUse DEF Pc
    <3>2. CASE heap[m].cmd.cmd # "getInfo"
      <4>1. heap' = heap /\ pc' = [pc EXCEPT ![p] = LocalPc(p, heap[m].cmd)]
        BY <1>9, <2>2, <3>2 DEF GetMsg
      <4>2. heap' = [heap EXCEPT ![m] = heap[m]] /\ LocalPc(p, heap[m].cmd) \in Pc
        BY <1>0, <4>1 DEF TypeOK, Pc, LocalPc
      <4> QED BY <1>0, <2>4, <4>1, <4>2, InUse
    <3> QED BY <3>1, <3>2
  <2>7. /\ recvQ' = [recvQ EXCEPT ![p] = Tail(@)]
        /\ ptr' = [ptr EXCEPT ![p] = m]
        /\ req' = [req EXCEPT ![p] = heap[m].cmd]
        /\ UNCHANGED <<lock, mutex, ackQ, mbx, held, up>>
    BY <1>9, <2>2 DEF GetMsg, locks, links
  <2> QED BY <1>0, <2>3, <2>5, <2>6, <2>7 DEF TypeOK
<1>10. ASSUME NEW p \in Proc, Reply(p) PROVE TypeOK'
  <2>1. PICK m \in Msg : m = ptr[p]
    BY <1>0, <1>10 DEF Reply, MsgQInv, ThreadsInv, TypeOK
  <2>2. req[p].ack => heap[m].reply \in Proc
    <3>1. heap[m] # Free
      BY <2>1, OneHand DEF MsgQInv
    <3> QED BY <1>0, <3>1, InUse
  <2>3. ackQ' \in [Proc -> Seq(Msg)]
    <3>1. CASE req[p].ack
      <4>1. PICK o \in Proc : o = heap[m].reply
        BY <2>2, <3>1
      <4>2. ackQ' = [ackQ EXCEPT ![o] = Append(ackQ[o], m)] /\ ackQ[o] \in Seq(Msg)
        BY <1>0, <1>10, <2>1, <3>1, <4>1 DEF Reply, TypeOK
      <4> QED BY <1>0, <4>2 DEF TypeOK
    <3>2. CASE ~req[p].ack
      BY <1>0, <1>10, <3>2 DEF Reply, TypeOK
    <3> QED BY <3>1, <3>2
  <2>4. heap' \in [Msg -> [cmd : Command, reply : Proc, done : BOOLEAN] \cup {Free}]
    BY <1>0, <1>10, <2>1 DEF Reply, TypeOK
  <2>5. /\ pc' = [pc EXCEPT ![p] = "idle"] /\ ptr' = [ptr EXCEPT ![p] = NoMsg]
        /\ req' = [req EXCEPT ![p] = NoCommand]
        /\ UNCHANGED <<lock, mutex, recvQ, mbx, held, up>>
    BY <1>10 DEF Reply, locks, links
  <2> QED BY <1>0, <2>3, <2>4, <2>5 DEF TypeOK, Pc
<1>11. ASSUME NEW l \in Link, Take(l) PROVE TypeOK'
  <2>1. mbx[l] \in Seq(Entry) /\ mbx[l] # <<>> /\ l \in Thread
    BY <1>0, <1>11 DEF Take, TypeOK, Thread
  <2>2. Head(mbx[l]) \in Entry /\ Tail(mbx[l]) \in Seq(Entry)
    BY <2>1, QueueTake
  <2>3. pc' \in [Thread -> Pc] /\ req' \in [Thread -> Command \cup {NoCommand}]
    <3>1. CASE AsksPrev(l, Head(mbx[l]).cmd.cmd)
      <4>1. Call(l, GetInfo(l)) /\ GetInfo(l) \in Command
        BY <1>11, <3>1, LinkAssumption DEF Take, AsksPrev, GetInfo, Command, Cmd
      <4> QED BY <1>0, <1>1, <2>1, <4>1 DEF Call, TypeOK
    <3>2. CASE ~AsksPrev(l, Head(mbx[l]).cmd.cmd)
      BY <1>0, <1>11, <3>2 DEF Take, TypeOK
    <3> QED BY <3>1, <3>2
  <2> QED BY <1>0, <1>11, <2>2, <2>3 DEF Take, TypeOK, locks, queues
<1>12. ASSUME NEW l \in Link, Answer(l) PROVE TypeOK'
  <2>1. up' \subseteq Link /\ pc' \in [Thread -> Pc]
    BY <1>0, <1>12 DEF Answer, TypeOK, Pc
  <2> QED BY <1>0, <1>12, <2>1 DEF Answer, TypeOK, locks, queues
<1>13. ASSUME UNCHANGED vars PROVE TypeOK'
  BY <1>0, <1>13 DEF vars, threads, locks, queues, links, TypeOK
<1> QED
  BY <1>2, <1>3, <1>4, <1>5, <1>6, <1>7, <1>8, <1>9, <1>10, <1>11, <1>12, <1>13
     DEF Next, Step

-----------------------------------------------------------------------------
(* The steps that pass a message on.                                        *)
OwnersNext == /\ \A m \in Msg : Sole(Owners(m)')
              /\ \A p \in Proc : IsInjective(recvQ'[p]) /\ IsInjective(ackQ'[p])

LEMMA SendOwners == ASSUME MsgQInv, NEW t \in Thread, Send(t) PROVE OwnersNext
<1>1. PICK m0 \in Msg :
         /\ heap[m0] = Free /\ pc[t] = "send"
         /\ heap' = [heap EXCEPT ![m0] = [cmd |-> req[t], reply |-> Home(t), done |-> FALSE]]
         /\ recvQ' = [recvQ EXCEPT ![LinkProc[req[t].to]] = Append(@, m0)]
         /\ \/ /\ req[t].ack /\ pc' = [pc EXCEPT ![t] = "ack"]
               /\ ptr' = [ptr EXCEPT ![t] = m0] /\ UNCHANGED <<req, lock>>
            \/ ~req[t].ack /\ ReturnFrom(t) /\ ptr' = ptr
         /\ UNCHANGED <<mutex, ackQ, links>>
  BY SendTakes
<1>2. PICK p \in Proc : p = LinkProc[req[t].to]
  BY <1>1, ProcAssumption DEF MsgQInv, ThreadsInv, Command
<1>3. /\ recvQ' = [recvQ EXCEPT ![p] = Append(recvQ[p], m0)] /\ ackQ' = ackQ
      /\ \A o \in Proc : ptr'[o] = ptr[o]
      /\ \A m \in Msg \ {m0} : heap'[m] = heap[m]
      /\ heap'[m0] # Free
  <2>1. recvQ' = [recvQ EXCEPT ![p] = Append(recvQ[p], m0)] /\ ackQ' = ackQ
    BY <1>1, <1>2
  <2>2. \A o \in Proc : ptr'[o] = ptr[o]
    <3>1. t \notin Proc
      BY <1>1 DEF MsgQInv, ThreadsInv
    <3>2. ptr' = ptr \/ ptr' = [ptr EXCEPT ![t] = m0]
      BY <1>1
    <3> QED BY <3>1, <3>2, Threads DEF MsgQInv, OwnInv, TypeOK
  <2>3. (\A m \in Msg \ {m0} : heap'[m] = heap[m]) /\ heap'[m0].reply = Home(t)
    BY <1>1 DEF MsgQInv, OwnInv, TypeOK
  <2>4. heap'[m0] # Free
    BY <2>3, Threads, ThreadAssumption DEF Free
  <2> QED BY <2>1, <2>2, <2>3, <2>4
<1>4. m0 \notin Range(recvQ[p]) /\ recvQ[p] \in Seq(Msg) /\ IsInjective(recvQ[p])
  BY <1>1, OneHand DEF MsgQInv, OwnInv, TypeOK
<1>5. /\ Range(Append(recvQ[p], m0)) = Range(recvQ[p]) \cup {m0}
      /\ IsInjective(Append(recvQ[p], m0))
  BY <1>4, QueueAppend
<1>b. ASSUME NEW m, NEW w
      PROVE  w \in OwnersByKind(m)'["task"] <=> w \in OwnersByKind(m)["task"]
  BY <1>3, ByKind, ByKindNext
<1>c. ASSUME NEW m \in Msg, NEW w
      PROVE  w \in OwnersByKind(m)'["heap"] <=>
                w \in OwnersByKind(m)["heap"] /\ ~(m = m0 /\ w = m0)
  BY <1>3, ByKind, ByKindNext
<1>6. ASSUME NEW m \in Msg, NEW j \in Kind, NEW w
      PROVE  w \in OwnersByKind(m)'[j] <=>
                \/ w \in OwnersByKind(m)[j] /\ ~(m = m0 /\ j = "heap" /\ w = m0)
                \/ m = m0 /\ j = "recvQ" /\ w = p
  <2> USE <1>3, <1>5, ByKind, ByKindNext DEF MsgQInv, OwnInv, TypeOK
  <2>1. CASE j = "heap"
    BY <1>c, <2>1
  <2>2. CASE j = "recvQ"
    BY <2>2
  <2>3. CASE j = "ackQ"
    BY <2>3
  <2>4. CASE j = "task"
    BY <1>b, <2>4
  <2> QED BY <2>1, <2>2, <2>3, <2>4 DEF Kind
<1>7. Passes(m0, "heap", m0, "recvQ", p)
  BY <1>6 DEF Passes
<1>8. m0 \in OwnersByKind(m0)["heap"]
  BY <1>1, ByKind
<1>9. \A m \in Msg : Sole(Owners(m)')
  BY <1>7, <1>8, PassesSole DEF Kind, MsgQInv
<1> QED
  BY <1>3, <1>5, <1>9 DEF OwnersNext, MsgQInv, OwnInv, TypeOK

LEMMA GetAckOwners == ASSUME MsgQInv, NEW t \in Thread, GetAck(t) PROVE OwnersNext
<1>1. PICK p \in Proc : p = Home(t)
  BY Threads
<1>2. ackQ[p] \in Seq(Msg) /\ IsInjective(ackQ[p]) /\ ackQ[p] # <<>>
  BY <1>1 DEF GetAck, MsgQInv, OwnInv, TypeOK
<1>3. PICK m0 \in Msg : m0 = Head(ackQ[p])
  BY <1>2, QueueTake
<1>4. /\ m0 \in Range(ackQ[p]) /\ IsInjective(Tail(ackQ[p]))
      /\ Range(Tail(ackQ[p])) = Range(ackQ[p]) \ {m0}
  BY <1>2, <1>3, QueueTake
<1>5. /\ ackQ' = [ackQ EXCEPT ![p] = Tail(ackQ[p])] /\ recvQ' = recvQ
      /\ \A o \in Proc : ptr'[o] = ptr[o]
      /\ heap' = [heap EXCEPT ![m0] = Free]
  <2>1. t \notin Proc
    BY DEF GetAck, MsgQInv, ThreadsInv
  <2>2. /\ ackQ' = [ackQ EXCEPT ![p] = Tail(ackQ[p])] /\ recvQ' = recvQ
        /\ ptr' = [ptr EXCEPT ![t] = NoMsg]
        /\ heap' = [heap EXCEPT ![m0] = Free]
    BY <1>1, <1>3 DEF GetAck
  <2> QED BY <2>1, <2>2, Threads DEF MsgQInv, OwnInv, TypeOK
<1>b. ASSUME NEW m, NEW w
      PROVE  w \in OwnersByKind(m)'["task"] <=> w \in OwnersByKind(m)["task"]
  BY <1>5, ByKind, ByKindNext
<1>6. ASSUME NEW m \in Msg, NEW j \in Kind, NEW w
      PROVE  w \in OwnersByKind(m)'[j] <=>
                \/ w \in OwnersByKind(m)[j] /\ ~(m = m0 /\ j = "ackQ" /\ w = p)
                \/ m = m0 /\ j = "heap" /\ w = m0
  <2> USE <1>4, <1>5, ByKind, ByKindNext DEF MsgQInv, OwnInv, TypeOK
  <2>1. CASE j = "heap"
    BY <2>1
  <2>2. CASE j = "recvQ"
    BY <2>2
  <2>3. CASE j = "ackQ"
    BY <2>3
  <2>4. CASE j = "task"
    BY <1>b, <2>4
  <2> QED BY <2>1, <2>2, <2>3, <2>4 DEF Kind
<1>7. Passes(m0, "ackQ", p, "heap", m0)
  BY <1>6 DEF Passes
<1>8. p \in OwnersByKind(m0)["ackQ"]
  BY <1>4, ByKind
<1>9. \A m \in Msg : Sole(Owners(m)')
  BY <1>7, <1>8, PassesSole DEF Kind, MsgQInv
<1> QED
  BY <1>4, <1>5, <1>9 DEF OwnersNext, MsgQInv, OwnInv, TypeOK

LEMMA GetMsgOwners == ASSUME MsgQInv, NEW p \in Proc, GetMsg(p) PROVE OwnersNext
<1>2. recvQ[p] \in Seq(Msg) /\ IsInjective(recvQ[p]) /\ recvQ[p] # <<>> /\ pc[p] = "idle"
  BY DEF GetMsg, MsgQInv, OwnInv, TypeOK
<1>3. PICK m0 \in Msg : m0 = Head(recvQ[p])
  BY <1>2, QueueTake
<1>4. /\ m0 \in Range(recvQ[p]) /\ IsInjective(Tail(recvQ[p]))
      /\ Range(Tail(recvQ[p])) = Range(recvQ[p]) \ {m0}
  BY <1>2, <1>3, QueueTake
<1>5. /\ recvQ' = [recvQ EXCEPT ![p] = Tail(recvQ[p])] /\ ackQ' = ackQ
      /\ ptr[p] = NoMsg /\ ptr' = [ptr EXCEPT ![p] = m0] /\ p \in Thread
  BY <1>2, <1>3, Threads DEF GetMsg, MsgQInv, ThreadsInv
<1>a. \A m \in Msg : heap'[m] = Free <=> heap[m] = Free
  <2>1. heap[m0] # Free
    BY <1>4, OneHand DEF MsgQInv
  <2>2. heap' = heap \/ heap' = [heap EXCEPT ![m0] = [heap[m0] EXCEPT !.done = TRUE]]
    BY <1>3 DEF GetMsg
  <2>3. [heap[m0] EXCEPT !.done = TRUE] # Free
    BY <2>1, InUse DEF MsgQInv, OwnInv
  <2> QED BY <2>1, <2>2, <2>3 DEF MsgQInv, OwnInv, TypeOK
<1>6. ASSUME NEW m \in Msg, NEW j \in Kind, NEW w
      PROVE  w \in OwnersByKind(m)'[j] <=>
                \/ w \in OwnersByKind(m)[j] /\ ~(m = m0 /\ j = "recvQ" /\ w = p)
                \/ m = m0 /\ j = "task" /\ w = p
  <2> USE <1>4, <1>5, <1>a, MsgAssumption, ByKind, ByKindNext DEF MsgQInv, OwnInv, TypeOK
  <2>1. CASE j = "heap"
    BY <2>1
  <2>2. CASE j = "recvQ"
    BY <2>2
  <2>3. CASE j = "ackQ"
    BY <2>3
  <2>4. CASE j = "task"
    BY <2>4, Threads, SMTT(30)
  <2> QED BY <2>1, <2>2, <2>3, <2>4 DEF Kind
<1>7. Passes(m0, "recvQ", p, "task", p)
  BY <1>6 DEF Passes
<1>8. p \in OwnersByKind(m0)["recvQ"]
  BY <1>4, ByKind
<1>9. \A m \in Msg : Sole(Owners(m)')
  BY <1>7, <1>8, PassesSole DEF Kind, MsgQInv
<1> QED
  BY <1>4, <1>5, <1>9 DEF OwnersNext, MsgQInv, OwnInv, TypeOK

LEMMA ReplyOwners == ASSUME MsgQInv, NEW p \in Proc, Reply(p) PROVE OwnersNext
<1>1. PICK m0 \in Msg : m0 = ptr[p]
  BY Threads DEF Reply, MsgQInv, ThreadsInv, OwnInv, TypeOK
<1>2. p \in OwnersByKind(m0)["task"] /\ p \in Thread
  BY <1>1, ByKind, Threads
<1>3. ptr' = [ptr EXCEPT ![p] = NoMsg] /\ recvQ' = recvQ
  BY DEF Reply
<1>b. ASSUME NEW m \in Msg, NEW w
      PROVE  w \in OwnersByKind(m)'["task"] <=>
                w \in OwnersByKind(m)["task"] /\ ~(m = m0 /\ w = p)
  <2>1. \A q \in Proc : ptr'[q] = IF q = p THEN NoMsg ELSE ptr[q]
    BY <1>2, <1>3, Threads DEF MsgQInv, OwnInv, TypeOK
  <2> QED BY <1>1, <2>1, MsgAssumption, ByKind, ByKindNext
<1>4. CASE req[p].ack
  <2>1. PICK o \in Proc : o = heap[m0].reply
    <3>1. heap[m0] # Free
      BY <1>1, OneHand DEF MsgQInv
    <3> QED BY <3>1, InUse DEF MsgQInv, OwnInv
  <2>2. ackQ' = [ackQ EXCEPT ![o] = Append(ackQ[o], m0)] /\ heap' = heap
    BY <1>1, <1>4, <2>1 DEF Reply
  <2>3. m0 \notin Range(ackQ[o]) /\ ackQ[o] \in Seq(Msg) /\ IsInjective(ackQ[o])
    BY <1>1, OneHand DEF MsgQInv, OwnInv, TypeOK
  <2>4. /\ Range(Append(ackQ[o], m0)) = Range(ackQ[o]) \cup {m0}
        /\ IsInjective(Append(ackQ[o], m0))
    BY <2>3, QueueAppend
  <2>5. ASSUME NEW m \in Msg, NEW j \in Kind, NEW w
        PROVE  w \in OwnersByKind(m)'[j] <=>
                  \/ w \in OwnersByKind(m)[j] /\ ~(m = m0 /\ j = "task" /\ w = p)
                  \/ m = m0 /\ j = "ackQ" /\ w = o
    <3> USE <1>1, <1>2, <1>3, <2>2, <2>4, MsgAssumption, ByKind, ByKindNext
        DEF MsgQInv, OwnInv, TypeOK
    <3>1. CASE j = "heap"
      BY <3>1
    <3>2. CASE j = "recvQ"
      BY <3>2
    <3>3. CASE j = "ackQ"
      BY <3>3
    <3>4. CASE j = "task"
      BY <1>b, <3>4
    <3> QED BY <3>1, <3>2, <3>3, <3>4 DEF Kind
  <2>6. Passes(m0, "task", p, "ackQ", o)
    BY <2>5 DEF Passes
  <2>7. \A m \in Msg : Sole(Owners(m)')
    BY <1>2, <2>6, PassesSole DEF Kind, MsgQInv
  <2> QED BY <1>3, <2>2, <2>4, <2>7 DEF OwnersNext, MsgQInv, OwnInv, TypeOK
<1>5. CASE ~req[p].ack
  <2>1. ackQ' = ackQ /\ heap' = [heap EXCEPT ![m0] = Free]
    BY <1>1, <1>5 DEF Reply
  <2>2. ASSUME NEW m \in Msg, NEW j \in Kind, NEW w
        PROVE  w \in OwnersByKind(m)'[j] <=>
                  \/ w \in OwnersByKind(m)[j] /\ ~(m = m0 /\ j = "task" /\ w = p)
                  \/ m = m0 /\ j = "heap" /\ w = m0
    <3> USE <1>1, <1>2, <1>3, <2>1, MsgAssumption, ByKind, ByKindNext
        DEF MsgQInv, OwnInv, TypeOK
    <3>1. CASE j = "heap"
      BY <3>1
    <3>2. CASE j = "recvQ"
      BY <3>2
    <3>3. CASE j = "ackQ"
      BY <3>3
    <3>4. CASE j = "task"
      BY <1>b, <3>4
    <3> QED BY <3>1, <3>2, <3>3, <3>4 DEF Kind
  <2>3. Passes(m0, "task", p, "heap", m0)
    BY <2>2 DEF Passes
  <2>4. \A m \in Msg : Sole(Owners(m)')
    BY <1>2, <2>3, PassesSole DEF Kind, MsgQInv
  <2> QED BY <1>3, <2>1, <2>4 DEF OwnersNext, MsgQInv, OwnInv
<1> QED
  BY <1>4, <1>5

LEMMA OwnersStep == ASSUME MsgQInv, [Next]_vars PROVE OwnersNext
<1>1. ASSUME UNCHANGED <<recvQ, ackQ>>, \A p \in Proc : ptr'[p] = ptr[p],
             \A m \in Msg : heap'[m] = Free <=> heap[m] = Free
      PROVE  OwnersNext
  BY <1>1, StaysSole DEF OwnersNext, MsgQInv
<1>2. ASSUME NEW t \in Thread, Answered(t) PROVE OwnersNext
  <2>1. CASE t \in Proc
    <3>1. PICK m0 \in Msg : m0 = ptr[t]
      BY <1>2, <2>1 DEF Answered, MsgQInv, ThreadsInv, OwnInv, TypeOK
    <3>2. heap[m0] # Free
      BY <2>1, <3>1, OneHand DEF MsgQInv
    <3>3. /\ heap' = [heap EXCEPT ![m0] = [heap[m0] EXCEPT !.done = TRUE]]
          /\ UNCHANGED <<recvQ, ackQ, ptr>>
      BY <1>2, <2>1, <3>1 DEF Answered
    <3>4. [heap[m0] EXCEPT !.done = TRUE] # Free
      BY <3>2, InUse DEF MsgQInv, OwnInv
    <3>5. \A m \in Msg : heap'[m] = Free <=> heap[m] = Free
      BY <3>2, <3>3, <3>4 DEF MsgQInv, OwnInv, TypeOK
    <3> QED BY <1>1, <3>3, <3>5
  <2>2. CASE t \notin Proc
    BY <1>1, <1>2, <2>2 DEF Answered
  <2> QED BY <2>1, <2>2
<1>3. ASSUME UNCHANGED <<ptr, queues>> PROVE OwnersNext
  BY <1>1, <1>3 DEF queues
<1>4. ASSUME NEW t \in Thread, Step(t) PROVE OwnersNext
  BY <1>2, <1>3, <1>4, SendOwners, GetAckOwners DEF Step, PendLock, LockMutex, Post
<1>5. ASSUME NEW t, NEW r, Begin(t, r) PROVE OwnersNext
  BY <1>3, <1>5 DEF Begin
<1>6. ASSUME NEW l \in Link, Take(l) \/ Answer(l) PROVE OwnersNext
  BY <1>3, <1>6 DEF Take, Answer
<1>7. ASSUME UNCHANGED vars PROVE OwnersNext
  BY <1>3, <1>7 DEF vars, threads
<1> QED
  BY <1>4, <1>5, <1>6, <1>7, GetMsgOwners, ReplyOwners DEF Next

-----------------------------------------------------------------------------
(* The threads and the locks.                                               *)

LEMMA CallerStep ==
    ASSUME MsgQInv, NEW t \in Caller, NEW q \in Pc \ {"ack", "reply", "link", "answered"},
           pc[t] # "ack", pc' = [pc EXCEPT ![t] = q], ptr' = ptr,
           \A b \in Thread \ {t} : req'[b] = req[b],
           q # "idle" => req'[t] \in Command,
           q = "send" => lock'[Home(t)] = t,
           \A b \in Caller \ {t} : lock'[Home(b)] = lock[Home(b)]
                                   \/ pc[b] \notin {"send", "ack"}
    PROVE  ThreadsInv' /\ LockInv'
<1>1. /\ t \in Thread /\ t \notin Proc /\ Caller \subseteq Thread /\ Proc \subseteq Thread
      /\ pc \in [Thread -> Pc]
  BY Threads DEF MsgQInv, OwnInv, TypeOK
<1>2. pc'[t] = q /\ \A b \in Thread \ {t} : pc'[b] = pc[b]
  BY <1>1
<1>3. ptr[t] \notin Msg
  BY DEF MsgQInv, ThreadsInv
<1>4. ThreadsInv'
  BY <1>1, <1>2, <1>3 DEF MsgQInv, ThreadsInv, Pc
<1>5. LockInv'
  BY <1>1, <1>2 DEF MsgQInv, LockInv, Pc
<1> QED
  BY <1>4, <1>5

\* A MsgQ task, or a caller that waits for a link, goes on.
LEMMA OtherStep ==
    ASSUME MsgQInv, NEW t \in Thread, NEW q \in Pc \ {"lock", "send", "ack"},
           pc' = [pc EXCEPT ![t] = q], pc[t] \notin {"send", "ack"}, UNCHANGED lock,
           q = "reply" => t \in Proc,
           \A b \in Thread \ {t} : req'[b] = req[b] /\ ptr'[b] = ptr[b],
           q # "idle" => req'[t] \in Command,
           q \in {"link", "answered"} => req'[t].ack,
           t \in Caller => ptr'[t] = ptr[t],
           t \in Proc => (ptr'[t] = NoMsg <=> q = "idle")
    PROVE  ThreadsInv' /\ LockInv'
<1>1. /\ Caller \cap Proc = {} /\ Caller \subseteq Thread /\ Proc \subseteq Thread
      /\ pc \in [Thread -> Pc]
  BY Threads DEF MsgQInv, OwnInv, TypeOK
<1>2. pc'[t] = q /\ \A b \in Thread \ {t} : pc'[b] = pc[b]
  BY <1>1
<1>4. ThreadsInv'
  <2>1. ASSUME NEW b \in Caller
        PROVE  pc'[b] # "reply" /\ (ptr'[b] \in Msg <=> pc'[b] = "ack")
    BY <1>1, <1>2 DEF MsgQInv, ThreadsInv
  <2>2. ASSUME NEW p \in Proc
        PROVE  pc'[p] \notin {"lock", "send", "ack"} /\ (ptr'[p] = NoMsg <=> pc'[p] = "idle")
    BY <1>1, <1>2 DEF MsgQInv, ThreadsInv
  <2>3. ASSUME NEW b \in Thread
        PROVE  /\ pc'[b] # "idle" => req'[b] \in Command
               /\ pc'[b] \in {"ack", "link", "answered"} => req'[b].ack
    BY <1>2 DEF MsgQInv, ThreadsInv
  <2> QED BY <2>1, <2>2, <2>3 DEF ThreadsInv
<1>5. LockInv'
  BY <1>1, <1>2 DEF MsgQInv, LockInv
<1> QED
  BY <1>4, <1>5

LEMMA ThreadsStep == ASSUME MsgQInv, [Next]_vars PROVE ThreadsInv' /\ LockInv'
<1>0. /\ TypeOK /\ Caller \subseteq Thread /\ Caller \cap Proc = {}
      /\ \A t \in Thread : pc[t] # "idle" => req[t] \in Command
  BY Threads DEF MsgQInv, OwnInv, ThreadsInv
<1>1. ASSUME NEW t \in Caller, NEW r \in Command, pc[t] = "idle", Call(t, r),
             UNCHANGED <<ptr, lock>>
      PROVE  ThreadsInv' /\ LockInv'
  <2>1. PICK q \in {"lock", "mutex", "post"} : pc' = [pc EXCEPT ![t] = q]
    BY <1>1 DEF Call, LocalPc
  <2>2. req'[t] = r /\ \A b \in Thread \ {t} : req'[b] = req[b]
    BY <1>0, <1>1 DEF Call, TypeOK
  <2> QED BY <1>1, <2>1, <2>2, CallerStep DEF Pc
<1>2. ASSUME NEW t \in App \cup Link, NEW r \in Requests[t], Begin(t, r)
      PROVE  ThreadsInv' /\ LockInv'
  <2>1. r \in Command
    BY RequestAssumption
  <2> QED BY <1>1, <1>2, <2>1 DEF Begin, Caller, locks
<1>3. ASSUME NEW t \in Thread, PendLock(t) PROVE ThreadsInv' /\ LockInv'
  <2>1. t \in Caller /\ pc[t] = "lock" /\ lock[Home(t)] = NoThread
        /\ pc' = [pc EXCEPT ![t] = "send"] /\ UNCHANGED <<req, ptr>>
        /\ lock' = [lock EXCEPT ![Home(t)] = t]
    BY <1>3, Threads DEF PendLock, MsgQInv, ThreadsInv
  <2>2. lock'[Home(t)] = t /\ \A b \in Caller : Home(b) # Home(t) => lock'[Home(b)] = lock[Home(b)]
    BY <2>1, <1>0, Threads DEF TypeOK
  <2>3. \A b \in Caller : Home(b) = Home(t) => pc[b] \notin {"send", "ack"}
    BY <2>1, <1>0, Threads DEF MsgQInv, LockInv
  <2> QED BY <1>0, <2>1, <2>2, <2>3, CallerStep DEF Pc
<1>4. ASSUME NEW t \in Caller, pc[t] \in {"send", "ack"}, ReturnFrom(t),
             ptr' = ptr \/ ptr' = [ptr EXCEPT ![t] = NoMsg], pc[t] = "ack" => ptr' # ptr
      PROVE  ThreadsInv' /\ LockInv'
  <2>1. /\ pc'[t] = "idle" /\ \A b \in Thread \ {t} : pc'[b] = pc[b] /\ req'[b] = req[b]
        /\ \A b \in Thread \ {t} : ptr'[b] = ptr[b]
    BY <1>0, <1>4 DEF ReturnFrom, TypeOK
  <2>2. ptr'[t] \notin Msg
    BY <1>0, <1>4, MsgAssumption DEF TypeOK, MsgQInv, ThreadsInv
  <2>3. ThreadsInv'
    BY <1>0, <2>1, <2>2, Threads DEF MsgQInv, ThreadsInv
  <2>4. LockInv'
    <3> SUFFICES ASSUME NEW b \in Caller, pc'[b] \in {"send", "ack"} PROVE lock'[Home(b)] = b
      BY DEF LockInv
    <3>1. b # t /\ pc[b] \in {"send", "ack"}
      BY <1>0, <2>1
    <3>2. lock[Home(b)] = b /\ lock[Home(t)] = t
      BY <1>4, <3>1 DEF MsgQInv, LockInv
    <3>3. Home(b) # Home(t)
      BY <3>1, <3>2
    <3> QED BY <1>0, <1>4, <3>2, <3>3, Threads DEF ReturnFrom, TypeOK
  <2> QED BY <2>3, <2>4
<1>5. ASSUME NEW t \in Thread, Send(t) PROVE ThreadsInv' /\ LockInv'
  <2>1. PICK m \in Msg :
           /\ pc[t] = "send"
           /\ \/ /\ req[t].ack /\ pc' = [pc EXCEPT ![t] = "ack"]
                 /\ ptr' = [ptr EXCEPT ![t] = m] /\ UNCHANGED <<req, lock>>
              \/ ~req[t].ack /\ ReturnFrom(t) /\ ptr' = ptr
    BY <1>5, SendTakes
  <2>2. t \in Caller
    BY <2>1, Threads DEF MsgQInv, ThreadsInv
  <2>3. CASE ReturnFrom(t) /\ ptr' = ptr
    BY <1>4, <2>1, <2>2, <2>3
  <2>4. CASE req[t].ack /\ pc' = [pc EXCEPT ![t] = "ack"]
             /\ ptr' = [ptr EXCEPT ![t] = m] /\ UNCHANGED <<req, lock>>
    <3>1. /\ pc'[t] = "ack" /\ ptr'[t] = m
          /\ \A b \in Thread \ {t} : pc'[b] = pc[b] /\ ptr'[b] = ptr[b]
      BY <1>0, <2>4 DEF TypeOK
    <3>2. ThreadsInv'
      BY <1>0, <2>1, <2>2, <2>4, <3>1, Threads DEF MsgQInv, ThreadsInv
    <3>3. LockInv'
      BY <1>0, <2>1, <2>2, <2>4, <3>1 DEF MsgQInv, LockInv
    <3> QED BY <3>2, <3>3
  <2> QED BY <2>1, <2>3, <2>4
<1>6. ASSUME NEW t \in Thread, GetAck(t) PROVE ThreadsInv' /\ LockInv'
  <2>1. t \in Caller /\ pc[t] = "ack" /\ ReturnFrom(t) /\ ptr' = [ptr EXCEPT ![t] = NoMsg]
    BY <1>6, Threads DEF GetAck, MsgQInv, ThreadsInv
  <2>2. ptr' # ptr
    BY <1>0, <2>1, MsgAssumption DEF TypeOK, MsgQInv, ThreadsInv
  <2> QED BY <1>4, <2>1, <2>2
<1>7. ASSUME NEW t \in Thread, LockMutex(t) PROVE ThreadsInv' /\ LockInv'
  BY <1>0, <1>7, OtherStep DEF LockMutex, Pc, MsgQInv, ThreadsInv
<1>8. ASSUME NEW t \in Thread, Post(t) PROVE ThreadsInv' /\ LockInv'
  <2>1. /\ pc[t] = "post" /\ UNCHANGED <<req, ptr, lock>>
        /\ pc' = [pc EXCEPT ![t] = IF req[t].ack THEN "link"
                                   ELSE IF t \in Proc THEN "reply" ELSE "idle"]
    BY <1>8 DEF Post, locks
  <2>2. PICK q \in {"link", "reply", "idle"} :
           /\ pc' = [pc EXCEPT ![t] = q]
           /\ q = "link" => req[t].ack
           /\ q = "reply" => t \in Proc
           /\ q = "idle" => t \notin Proc
    BY <2>1
  <2>3. req[t] \in Command /\ (t \in Proc => ptr[t] # NoMsg)
    BY <1>0, <2>1 DEF MsgQInv, ThreadsInv
  <2> QED BY <2>1, <2>2, <2>3, OtherStep DEF Pc
<1>9. ASSUME NEW t \in Thread, Answered(t) PROVE ThreadsInv' /\ LockInv'
  <2>1. pc[t] = "answered" /\ UNCHANGED <<ptr, lock>> /\ req[t] \in Command
    BY <1>0, <1>9 DEF Answered
  <2>2. CASE t \in Proc
    <3>1. pc' = [pc EXCEPT ![t] = "reply"] /\ req' = req
      BY <1>9, <2>2 DEF Answered
    <3>2. ptr[t] # NoMsg
      BY <2>1, <2>2 DEF MsgQInv, ThreadsInv
    <3> QED BY <2>1, <2>2, <3>1, <3>2, OtherStep DEF Pc
  <2>3. CASE t \notin Proc
    <3>1. pc' = [pc EXCEPT ![t] = "idle"] /\ \A b \in Thread \ {t} : req'[b] = req[b]
      BY <1>0, <1>9, <2>3 DEF Answered, TypeOK
    <3> QED BY <2>1, <2>3, <3>1, OtherStep DEF Pc
  <2> QED BY <2>2, <2>3
<1>10. ASSUME NEW p \in Proc, GetMsg(p) PROVE ThreadsInv' /\ LockInv'
  <2>1. recvQ[p] \in Seq(Msg) /\ recvQ[p] # <<>>
    BY <1>0, <1>10 DEF GetMsg, TypeOK
  <2>2. PICK m \in Msg : m = Head(recvQ[p]) /\ m \in Range(recvQ[p])
    BY <2>1, QueueTake
  <2>3. heap[m].cmd \in Command
    <3>1. heap[m] # Free
      BY <2>2, OneHand DEF MsgQInv
    <3> QED BY <1>0, <3>1, InUse
  <2>4. /\ ptr' = [ptr EXCEPT ![p] = m] /\ req' = [req EXCEPT ![p] = heap[m].cmd]
        /\ lock' = lock /\ pc[p] = "idle" /\ p \in Thread
    BY <1>10, <2>2, Threads DEF GetMsg, locks
  <2>5. /\ ptr'[p] = m /\ req'[p] = heap[m].cmd
        /\ \A b \in Thread \ {p} : ptr'[b] = ptr[b] /\ req'[b] = req[b]
    BY <1>0, <2>4 DEF TypeOK
  <2>6. PICK q \in {"reply", "mutex", "post"} : pc' = [pc EXCEPT ![p] = q]
    <3>1. CASE heap[m].cmd.cmd = "getInfo"
      BY <1>10, <2>2, <3>1 DEF GetMsg
    <3>2. CASE heap[m].cmd.cmd # "getInfo"
      BY <1>10, <2>2, <3>2 DEF GetMsg, LocalPc
    <3> QED BY <3>1, <3>2
  <2>7. p \notin Caller /\ m # NoMsg
    BY <1>0, MsgAssumption
  <2> QED BY <2>3, <2>4, <2>5, <2>6, <2>7, OtherStep DEF Pc
<1>11. ASSUME NEW p \in Proc, Reply(p) PROVE ThreadsInv' /\ LockInv'
  <2>1. /\ ptr' = [ptr EXCEPT ![p] = NoMsg] /\ req' = [req EXCEPT ![p] = NoCommand]
        /\ lock' = lock /\ pc[p] = "reply" /\ p \in Thread /\ pc' = [pc EXCEPT ![p] = "idle"]
    BY <1>11, Threads DEF Reply, locks
  <2>2. ptr'[p] = NoMsg /\ \A b \in Thread \ {p} : ptr'[b] = ptr[b] /\ req'[b] = req[b]
    BY <1>0, <2>1 DEF TypeOK
  <2> QED BY <1>0, <2>1, <2>2, OtherStep DEF Pc
<1>12. ASSUME NEW l \in Link, Take(l) PROVE ThreadsInv' /\ LockInv'
  <2>1. CASE AsksPrev(l, Head(mbx[l]).cmd.cmd)
    <3>1. Call(l, GetInfo(l)) /\ GetInfo(l) \in Command /\ l \in Caller /\ pc[l] = "idle"
      BY <1>12, <2>1, LinkAssumption DEF Take, AsksPrev, GetInfo, Command, Cmd, Caller
    <3> QED BY <1>1, <1>12, <3>1 DEF Take, locks
  <2>2. CASE ~AsksPrev(l, Head(mbx[l]).cmd.cmd)
    BY <1>12, <2>2 DEF Take, locks, MsgQInv, ThreadsInv, LockInv
  <2> QED BY <2>1, <2>2
<1>13. ASSUME NEW l \in Link, Answer(l) PROVE ThreadsInv' /\ LockInv'
  <2>1. UNCHANGED <<req, ptr, lock>>
    BY <1>13 DEF Answer, locks
  <2>2. CASE held[l].from = NoThread
    <3>1. pc' = pc
      BY <1>13, <2>2 DEF Answer
    <3> QED BY <2>1, <3>1 DEF MsgQInv, ThreadsInv, LockInv
  <2>3. CASE held[l].from # NoThread
    <3>1. PICK t \in Thread : t = held[l].from
      BY <1>0, <2>3, Threads DEF TypeOK, Entry
    <3>2. pc' = [pc EXCEPT ![t] = "answered"]
      BY <1>13, <2>3, <3>1 DEF Answer
    <3>3. pc[t] = "link"
      BY <2>3, <3>1 DEF MsgQInv, EntriesInv
    <3>4. req[t].ack /\ req[t] \in Command /\ (t \in Proc => ptr[t] # NoMsg)
      BY <3>3 DEF MsgQInv, ThreadsInv
    <3> QED BY <2>1, <3>2, <3>3, <3>4, OtherStep DEF Pc
  <2> QED BY <2>2, <2>3
<1>14. ASSUME UNCHANGED vars PROVE ThreadsInv' /\ LockInv'
  BY <1>14 DEF vars, threads, locks, MsgQInv, ThreadsInv, LockInv
<1> QED
  BY <1>2, <1>3, <1>5, <1>6, <1>7, <1>8, <1>9, <1>10, <1>11, <1>12, <1>13, <1>14 DEF Next, Step

-----------------------------------------------------------------------------
(* The messages in use, who sent them and who carries them out.             *)

\* Two callers that wait sent different messages.
LEMMA SentApart ==
    ASSUME MsgQInv, NEW t \in Caller, NEW b \in Caller,
           pc[t] \in {"send", "ack"}, pc[b] \in {"send", "ack"}, Home(t) = Home(b)
    PROVE  t = b
BY DEF MsgQInv, LockInv

\* Nothing happens to a message, a waiting caller or a busy MsgQ task.
LEMMA HeapStays ==
    ASSUME MsgQInv, UNCHANGED <<heap, ackQ>>,
           \A t \in Caller : /\ pc'[t] = "ack" <=> pc[t] = "ack"
                             /\ pc[t] = "ack" => ptr'[t] = ptr[t] /\ req'[t] = req[t],
           \A p \in Proc : /\ pc'[p] # "idle" => /\ pc[p] # "idle"
                                                 /\ ptr'[p] = ptr[p] /\ req'[p] = req[p]
                           /\ pc'[p] = "reply" => pc[p] = "reply" \/ ~req[p].ack
    PROVE  HeapInv'
<1> USE DEF MsgQInv, HeapInv
<1>1. \A t \in Caller : pc'[t] = "ack" =>
         /\ heap'[ptr'[t]] # Free /\ heap'[ptr'[t]].cmd = req'[t]
         /\ heap'[ptr'[t]].reply = Home(t)
  OBVIOUS
<1>2. \A m \in Msg : heap'[m].cmd.ack => \E t \in Caller : pc'[t] = "ack" /\ ptr'[t] = m
  OBVIOUS
<1>3. \A p \in Proc : pc'[p] # "idle" => heap'[ptr'[p]].cmd = req'[p]
  OBVIOUS
<1>4. \A p \in Proc : pc'[p] = "reply" /\ req'[p].ack => heap'[ptr'[p]].done
  OBVIOUS
<1>5. \A p \in Proc : \A m \in Range(ackQ'[p]) :
         heap'[m].cmd.ack /\ heap'[m].reply = p /\ heap'[m].done
  OBVIOUS
<1> QED
  BY <1>1, <1>2, <1>3, <1>4, <1>5, Zenon DEF Free, NoCommand

LEMMA SendHeap == ASSUME MsgQInv, NEW t \in Thread, Send(t) PROVE HeapInv'
<1>0. TypeOK /\ OwnInv /\ HeapInv
  BY DEF MsgQInv, OwnInv
<1>1. PICK m0 \in Msg :
         /\ heap[m0] = Free /\ pc[t] = "send"
         /\ heap' = [heap EXCEPT ![m0] = [cmd |-> req[t], reply |-> Home(t), done |-> FALSE]]
         /\ recvQ' = [recvQ EXCEPT ![LinkProc[req[t].to]] = Append(@, m0)]
         /\ \/ /\ req[t].ack /\ pc' = [pc EXCEPT ![t] = "ack"]
               /\ ptr' = [ptr EXCEPT ![t] = m0] /\ UNCHANGED <<req, lock>>
            \/ ~req[t].ack /\ ReturnFrom(t) /\ ptr' = ptr
         /\ UNCHANGED <<mutex, ackQ, links>>
  BY SendTakes
<1>2. t \in Caller /\ t \notin Proc /\ Caller \subseteq Thread /\ Proc \subseteq Thread
  BY <1>1, Threads DEF MsgQInv, ThreadsInv
<1>3. /\ \A m \in Msg \ {m0} : heap'[m] = heap[m]
      /\ heap'[m0].cmd = req[t] /\ heap'[m0].reply = Home(t)
      /\ ackQ' = ackQ
  BY <1>0, <1>1 DEF TypeOK
<1>4. heap'[m0] # Free
  BY <1>2, <1>3, Threads, ThreadAssumption DEF Free
<1>5. /\ \A b \in Thread \ {t} : pc'[b] = pc[b] /\ ptr'[b] = ptr[b] /\ req'[b] = req[b]
      /\ \/ req[t].ack /\ pc'[t] = "ack" /\ ptr'[t] = m0 /\ req'[t] = req[t]
         \/ ~req[t].ack /\ pc'[t] = "idle"
  <2>1. CASE req[t].ack /\ pc' = [pc EXCEPT ![t] = "ack"]
             /\ ptr' = [ptr EXCEPT ![t] = m0] /\ UNCHANGED <<req, lock>>
    BY <1>0, <2>1 DEF TypeOK
  <2>2. CASE ~req[t].ack /\ ReturnFrom(t) /\ ptr' = ptr
    BY <1>0, <2>2 DEF TypeOK, ReturnFrom
  <2> QED BY <1>1, <2>1, <2>2
<1>6. \A b \in Caller : pc[b] = "ack" => ptr[b] \in Msg /\ ptr[b] # m0
  BY <1>0, <1>1 DEF HeapInv, MsgQInv, ThreadsInv
<1>7. \A p \in Proc : pc[p] # "idle" => ptr[p] \in Msg /\ ptr[p] # m0
  <2>1. \A p \in Proc : ptr[p] # m0
    BY <1>0, <1>1, OneHand
  <2> QED BY <1>0, <1>2, <2>1 DEF MsgQInv, ThreadsInv, TypeOK
<1>8. \A p \in Proc : \A m \in Range(ackQ[p]) : m \in Msg /\ m # m0
  <2>1. \A p \in Proc : m0 \notin Range(ackQ[p])
    BY <1>0, <1>1, OneHand
  <2>2. \A p \in Proc : Range(ackQ[p]) \subseteq Msg
    BY <1>0 DEF TypeOK, Range
  <2> QED BY <2>1, <2>2
<1>9. ASSUME NEW b \in Caller, pc'[b] = "ack"
      PROVE  /\ heap'[ptr'[b]] # Free /\ heap'[ptr'[b]].cmd = req'[b]
             /\ heap'[ptr'[b]].reply = Home(b)
  BY <1>0, <1>2, <1>3, <1>4, <1>5, <1>6, <1>9 DEF HeapInv
<1>10. ASSUME NEW m \in Msg, heap'[m].cmd.ack
       PROVE  \E b \in Caller : pc'[b] = "ack" /\ ptr'[b] = m
  <2>1. CASE m = m0
    BY <1>2, <1>3, <1>5, <1>10, <2>1
  <2>2. CASE m # m0
    <3>1. PICK b \in Caller : pc[b] = "ack" /\ ptr[b] = m
      BY <1>0, <1>3, <1>10, <2>2 DEF HeapInv
    <3>2. b # t
      BY <1>1, <3>1
    <3> QED BY <1>2, <1>5, <3>1, <3>2
  <2> QED BY <2>1, <2>2
<1>11. ASSUME NEW p \in Proc
       PROVE  /\ pc'[p] # "idle" => heap'[ptr'[p]].cmd = req'[p]
              /\ pc'[p] = "reply" /\ req'[p].ack => heap'[ptr'[p]].done
              /\ \A m \in Range(ackQ'[p]) :
                   heap'[m].cmd.ack /\ heap'[m].reply = p /\ heap'[m].done
  BY <1>0, <1>2, <1>3, <1>5, <1>7, <1>8 DEF HeapInv
<1> QED
  BY <1>9, <1>10, <1>11 DEF HeapInv, Free, NoCommand

\* The acknowledgement a caller takes is that of its own message.
LEMMA OwnAck ==
    ASSUME MsgQInv, NEW t \in Caller, pc[t] = "ack", NEW m \in Range(ackQ[Home(t)])
    PROVE  m \in Msg /\ ptr[t] = m /\ heap[m].done
<1>1. m \in Msg /\ t \in Thread /\ Home(t) \in Proc
  BY Threads DEF MsgQInv, OwnInv, TypeOK, Range
<1>2. heap[m].cmd.ack /\ heap[m].reply = Home(t) /\ heap[m].done
  BY <1>1 DEF MsgQInv, HeapInv
<1>3. PICK b \in Caller : pc[b] = "ack" /\ ptr[b] = m
  BY <1>1, <1>2 DEF MsgQInv, HeapInv
<1>4. Home(b) = Home(t)
  BY <1>2, <1>3 DEF MsgQInv, HeapInv
<1> QED
  BY <1>1, <1>2, <1>3, <1>4, SentApart

LEMMA GetAckHeap == ASSUME MsgQInv, NEW t \in Thread, GetAck(t) PROVE HeapInv'
<1>0. TypeOK /\ OwnInv /\ HeapInv
  BY DEF MsgQInv, OwnInv
<1>1. t \in Caller /\ t \notin Proc /\ Caller \subseteq Thread /\ Proc \subseteq Thread
      /\ pc[t] = "ack"
  BY Threads DEF GetAck, MsgQInv, ThreadsInv
<1>2. PICK o \in Proc : o = Home(t)
  BY Threads
<1>3. ackQ[o] \in Seq(Msg) /\ IsInjective(ackQ[o]) /\ ackQ[o] # <<>>
  BY <1>0, <1>2 DEF GetAck, OwnInv, TypeOK
<1>4. PICK m0 \in Msg : m0 = Head(ackQ[o]) /\ m0 \in Range(ackQ[o])
  BY <1>3, QueueTake
<1>5. ptr[t] = m0
  BY <1>1, <1>2, <1>4, OwnAck
<1>6. /\ Range(ackQ'[o]) = Range(ackQ[o]) \ {m0}
      /\ \A p \in Proc \ {o} : ackQ'[p] = ackQ[p]
      /\ heap'[m0] = Free /\ \A m \in Msg \ {m0} : heap'[m] = heap[m]
  <2>1. ackQ' = [ackQ EXCEPT ![o] = Tail(ackQ[o])] /\ heap' = [heap EXCEPT ![m0] = Free]
    BY <1>2, <1>4 DEF GetAck
  <2>2. Range(Tail(ackQ[o])) = Range(ackQ[o]) \ {m0}
    BY <1>3, <1>4, QueueTake
  <2> QED BY <1>0, <2>1, <2>2 DEF TypeOK
<1>7. /\ pc'[t] = "idle"
      /\ \A b \in Thread \ {t} : pc'[b] = pc[b] /\ ptr'[b] = ptr[b] /\ req'[b] = req[b]
  BY <1>0 DEF GetAck, ReturnFrom, TypeOK
<1>8. \A b \in Caller \ {t} : pc[b] = "ack" => ptr[b] \in Msg /\ ptr[b] # m0
  <2> SUFFICES ASSUME NEW b \in Caller \ {t}, pc[b] = "ack", ptr[b] = m0 PROVE FALSE
    BY DEF MsgQInv, ThreadsInv
  <2>1. Home(b) = Home(t)
    BY <1>0, <1>1, <1>5 DEF HeapInv
  <2> QED BY <1>1, <2>1, SentApart
<1>9. \A p \in Proc : pc[p] # "idle" => ptr[p] \in Msg /\ ptr[p] # m0
  <2>1. \A p \in Proc : ptr[p] # m0
    BY <1>0, <1>4, OneHand
  <2> QED BY <1>0, <1>1, <2>1 DEF MsgQInv, ThreadsInv, TypeOK
<1>10. \A p \in Proc : \A m \in Range(ackQ'[p]) : m \in Range(ackQ[p]) /\ m \in Msg \ {m0}
  <2>1. \A p \in Proc \ {o} : m0 \notin Range(ackQ[p])
    <3> SUFFICES ASSUME NEW p \in Proc \ {o}, m0 \in Range(ackQ[p]) PROVE FALSE
      OBVIOUS
    <3> QED BY <1>0, <1>4 DEF HeapInv
  <2>2. \A p \in Proc : Range(ackQ[p]) \subseteq Msg
    BY <1>0 DEF TypeOK, Range
  <2> QED BY <1>6, <2>1, <2>2
<1>11. ~Free.cmd.ack
  BY Threads
<1>12. ASSUME NEW b \in Caller, pc'[b] = "ack"
      PROVE  /\ heap'[ptr'[b]] # Free /\ heap'[ptr'[b]].cmd = req'[b]
             /\ heap'[ptr'[b]].reply = Home(b)
  BY <1>0, <1>1, <1>6, <1>7, <1>8, <1>12 DEF HeapInv
<1>13. ASSUME NEW m \in Msg, heap'[m].cmd.ack
       PROVE  \E b \in Caller : pc'[b] = "ack" /\ ptr'[b] = m
  <2>1. m # m0
    BY <1>6, <1>11, <1>13
  <2>2. PICK b \in Caller : pc[b] = "ack" /\ ptr[b] = m
    BY <1>0, <1>6, <1>13, <2>1 DEF HeapInv
  <2> QED BY <1>1, <1>5, <1>7, <2>1, <2>2
<1>14. ASSUME NEW p \in Proc
       PROVE  /\ pc'[p] # "idle" => heap'[ptr'[p]].cmd = req'[p]
              /\ pc'[p] = "reply" /\ req'[p].ack => heap'[ptr'[p]].done
              /\ \A m \in Range(ackQ'[p]) :
                   heap'[m].cmd.ack /\ heap'[m].reply = p /\ heap'[m].done
  BY <1>0, <1>1, <1>6, <1>7, <1>9, <1>10 DEF HeapInv
<1> QED
  BY <1>12, <1>13, <1>14 DEF HeapInv, Free, NoCommand

\* The MsgQ task of p marks the message m0 it has, or takes, as done, or
\* leaves it as it is.
LEMMA DoneHeap ==
    ASSUME MsgQInv, NEW p \in Proc, NEW m0 \in Msg, heap[m0] # Free,
           ptr'[p] = m0, req'[p] = heap[m0].cmd, pc'[p] # "idle",
           heap' = heap \/ heap' = [heap EXCEPT ![m0] = [heap[m0] EXCEPT !.done = TRUE]],
           pc'[p] = "reply" => heap' # heap \/ heap[m0].done,
           \A b \in Thread \ {p} : pc'[b] = pc[b] /\ ptr'[b] = ptr[b] /\ req'[b] = req[b],
           ackQ' = ackQ
    PROVE  HeapInv'
<1>0. TypeOK /\ OwnInv /\ HeapInv /\ p \in Thread /\ p \notin Caller
      /\ Caller \subseteq Thread /\ Proc \subseteq Thread
  BY Threads DEF MsgQInv, OwnInv
<1>1. \A m \in Msg : /\ heap'[m] = Free <=> heap[m] = Free
                     /\ heap'[m].cmd = heap[m].cmd /\ heap'[m].reply = heap[m].reply
                     /\ heap[m].done => heap'[m].done
  <2>1. CASE heap' = heap
    BY <2>1
  <2>2. CASE heap' = [heap EXCEPT ![m0] = [heap[m0] EXCEPT !.done = TRUE]]
    <3>1. /\ [heap[m0] EXCEPT !.done = TRUE] # Free
          /\ [heap[m0] EXCEPT !.done = TRUE].cmd = heap[m0].cmd
          /\ [heap[m0] EXCEPT !.done = TRUE].reply = heap[m0].reply
          /\ [heap[m0] EXCEPT !.done = TRUE].done
      BY <1>0, InUse
    <3>2. heap'[m0] = [heap[m0] EXCEPT !.done = TRUE] /\ \A m \in Msg \ {m0} : heap'[m] = heap[m]
      BY <1>0, <2>2 DEF TypeOK
    <3> QED BY <3>1, <3>2, ZenonT(30)
  <2> QED BY <2>1, <2>2
<1>2. pc'[p] = "reply" => heap'[m0].done
  <2>1. CASE heap' = heap
    BY <2>1
  <2>2. CASE heap' = [heap EXCEPT ![m0] = [heap[m0] EXCEPT !.done = TRUE]]
    BY <1>0, <2>2, InUse DEF TypeOK
  <2> QED BY <2>1, <2>2
<1>3. \A b \in Caller : pc[b] = "ack" => ptr[b] \in Msg
  BY DEF MsgQInv, ThreadsInv
<1>4. \A o \in Proc : pc[o] # "idle" => ptr[o] \in Msg
  BY <1>0 DEF MsgQInv, ThreadsInv, TypeOK
<1>5. \A o \in Proc : Range(ackQ[o]) \subseteq Msg
  BY <1>0 DEF TypeOK, Range
<1>6. ASSUME NEW b \in Caller, pc'[b] = "ack"
      PROVE  /\ heap'[ptr'[b]] # Free /\ heap'[ptr'[b]].cmd = req'[b]
             /\ heap'[ptr'[b]].reply = Home(b)
  BY <1>0, <1>1, <1>3, <1>6 DEF HeapInv
<1>7. ASSUME NEW m \in Msg, heap'[m].cmd.ack
      PROVE  \E b \in Caller : pc'[b] = "ack" /\ ptr'[b] = m
  BY <1>0, <1>1, <1>7 DEF HeapInv
<1>8. ASSUME NEW o \in Proc
      PROVE  /\ pc'[o] # "idle" => heap'[ptr'[o]].cmd = req'[o]
             /\ pc'[o] = "reply" /\ req'[o].ack => heap'[ptr'[o]].done
  <2>1. CASE o = p
    BY <1>1, <1>2, <2>1
  <2>2. CASE o # p
    BY <1>0, <1>1, <1>4, <2>2 DEF HeapInv
  <2> QED BY <2>1, <2>2
<1>9. ASSUME NEW o \in Proc, NEW m \in Range(ackQ'[o])
      PROVE  heap'[m].cmd.ack /\ heap'[m].reply = o /\ heap'[m].done
  BY <1>0, <1>1, <1>5 DEF HeapInv
<1> QED
  BY <1>6, <1>7, <1>8, <1>9, Zenon DEF HeapInv, Free, NoCommand

LEMMA ReplyHeap == ASSUME MsgQInv, NEW p \in Proc, Reply(p) PROVE HeapInv'
<1>0. TypeOK /\ OwnInv /\ HeapInv /\ p \in Thread /\ p \notin Caller
      /\ Caller \subseteq Thread /\ Proc \subseteq Thread
  BY Threads DEF MsgQInv, OwnInv
<1>1. PICK m0 \in Msg : m0 = ptr[p]
  BY <1>0 DEF Reply, MsgQInv, ThreadsInv, TypeOK
<1>2. heap[m0] # Free /\ heap[m0].cmd = req[p] /\ (req[p].ack => heap[m0].done)
  BY <1>0, <1>1, OneHand DEF Reply, HeapInv
<1>3. /\ pc'[p] = "idle"
      /\ \A b \in Thread \ {p} : pc'[b] = pc[b] /\ ptr'[b] = ptr[b] /\ req'[b] = req[b]
  BY <1>0 DEF Reply, TypeOK
<1>4. CASE req[p].ack
  <2>1. PICK o \in Proc : o = heap[m0].reply
    BY <1>0, <1>2, InUse
  <2>2. ackQ' = [ackQ EXCEPT ![o] = Append(ackQ[o], m0)] /\ heap' = heap
    BY <1>1, <1>4, <2>1 DEF Reply
  <2>3. Range(Append(ackQ[o], m0)) = Range(ackQ[o]) \cup {m0}
    BY <1>0, QueueAppend DEF TypeOK
  <2>4. \A q \in Proc : \A m \in Range(ackQ'[q]) : m \in Range(ackQ[q]) \/ (q = o /\ m = m0)
    BY <1>0, <2>2, <2>3 DEF TypeOK
  <2>5. ASSUME NEW b \in Caller, pc'[b] = "ack"
        PROVE  /\ heap'[ptr'[b]] # Free /\ heap'[ptr'[b]].cmd = req'[b]
               /\ heap'[ptr'[b]].reply = Home(b)
    BY <1>0, <1>3, <2>2, <2>5 DEF HeapInv
  <2>6. ASSUME NEW m \in Msg, heap'[m].cmd.ack
        PROVE  \E b \in Caller : pc'[b] = "ack" /\ ptr'[b] = m
    BY <1>0, <1>3, <2>2, <2>6 DEF HeapInv
  <2>7. ASSUME NEW q \in Proc
        PROVE  /\ pc'[q] # "idle" => heap'[ptr'[q]].cmd = req'[q]
               /\ pc'[q] = "reply" /\ req'[q].ack => heap'[ptr'[q]].done
    BY <1>0, <1>3, <2>2 DEF HeapInv
  <2>8. ASSUME NEW q \in Proc, NEW m \in Range(ackQ'[q])
        PROVE  heap'[m].cmd.ack /\ heap'[m].reply = q /\ heap'[m].done
    BY <1>0, <1>2, <1>4, <2>1, <2>2, <2>4, SMTT(30) DEF HeapInv
  <2> QED BY <2>5, <2>6, <2>7, <2>8, Zenon DEF HeapInv, Free, NoCommand
<1>5. CASE ~req[p].ack
  <2>1. ackQ' = ackQ /\ heap'[m0] = Free /\ \A m \in Msg \ {m0} : heap'[m] = heap[m]
    BY <1>0, <1>1, <1>5 DEF Reply, TypeOK
  <2>2. \A b \in Caller : pc[b] = "ack" => ptr[b] \in Msg /\ ptr[b] # m0
    BY <1>0, <1>2, <1>5 DEF MsgQInv, ThreadsInv, HeapInv
  <2>3. \A q \in Proc : pc[q] # "idle" /\ q # p => ptr[q] \in Msg /\ ptr[q] # m0
    <3>1. \A q \in Proc : ptr[q] = m0 => q = p
      BY <1>0, <1>1, OneHand
    <3> QED BY <1>0, <3>1 DEF MsgQInv, ThreadsInv, TypeOK
  <2>4. \A q \in Proc : \A m \in Range(ackQ[q]) : m \in Msg /\ m # m0
    <3>1. \A q \in Proc : m0 \notin Range(ackQ[q])
      BY <1>0, <1>1, OneHand
    <3>2. \A q \in Proc : Range(ackQ[q]) \subseteq Msg
      BY <1>0 DEF TypeOK, Range
    <3> QED BY <3>1, <3>2
  <2>5. ASSUME NEW b \in Caller, pc'[b] = "ack"
        PROVE  /\ heap'[ptr'[b]] # Free /\ heap'[ptr'[b]].cmd = req'[b]
               /\ heap'[ptr'[b]].reply = Home(b)
    BY <1>0, <1>3, <2>1, <2>2, <2>5 DEF HeapInv
  <2>6. ASSUME NEW m \in Msg, heap'[m].cmd.ack
        PROVE  \E b \in Caller : pc'[b] = "ack" /\ ptr'[b] = m
    <3>1. m # m0
      BY <2>1, <2>6, Threads
    <3> QED BY <1>0, <1>3, <2>1, <2>6, <3>1 DEF HeapInv
  <2>7. ASSUME NEW q \in Proc
        PROVE  /\ pc'[q] # "idle" => heap'[ptr'[q]].cmd = req'[q]
               /\ pc'[q] = "reply" /\ req'[q].ack => heap'[ptr'[q]].done
    BY <1>0, <1>3, <2>1, <2>3 DEF HeapInv
  <2>8. ASSUME NEW q \in Proc, NEW m \in Range(ackQ'[q])
        PROVE  heap'[m].cmd.ack /\ heap'[m].reply = q /\ heap'[m].done
    BY <1>0, <2>1, <2>4 DEF HeapInv
  <2> QED BY <2>5, <2>6, <2>7, <2>8, Zenon DEF HeapInv, Free, NoCommand
<1> QED
  BY <1>4, <1>5

LEMMA HeapStep == ASSUME MsgQInv, [Next]_vars PROVE HeapInv'
<1>0. /\ TypeOK /\ Caller \subseteq Thread /\ Proc \subseteq Thread /\ Caller \cap Proc = {}
      /\ \A t \in Caller : pc[t] # "reply"
      /\ \A p \in Proc : pc[p] \notin {"lock", "send", "ack"}
  BY Threads DEF MsgQInv, OwnInv, ThreadsInv
\* A step of a thread that neither starts nor ends a wait for a message.
<1>1. ASSUME NEW t \in Thread, NEW q \in Pc \ {"ack"}, pc' = [pc EXCEPT ![t] = q],
             pc[t] # "ack", UNCHANGED <<heap, ackQ, ptr>>,
             \A b \in Thread \ {t} : req'[b] = req[b],
             t \in Proc => /\ req'[t] = req[t]
                           /\ pc[t] # "idle" /\ (q = "reply" => ~req[t].ack)
      PROVE  HeapInv'
  <2>1. pc'[t] = q /\ \A b \in Thread \ {t} : pc'[b] = pc[b]
    BY <1>0, <1>1 DEF TypeOK
  <2>2. \A b \in Caller : /\ pc'[b] = "ack" <=> pc[b] = "ack"
                          /\ pc[b] = "ack" => ptr'[b] = ptr[b] /\ req'[b] = req[b]
    BY <1>0, <1>1, <2>1
  <2>3. \A p \in Proc : /\ pc'[p] # "idle" => /\ pc[p] # "idle"
                                              /\ ptr'[p] = ptr[p] /\ req'[p] = req[p]
                        /\ pc'[p] = "reply" => pc[p] = "reply" \/ ~req[p].ack
    BY <1>0, <1>1, <2>1
  <2> QED BY <1>1, <2>2, <2>3, HeapStays
<1>2. ASSUME NEW t \in Caller, NEW r \in Command, pc[t] = "idle", Call(t, r),
             UNCHANGED <<ptr, heap, ackQ>>
      PROVE  HeapInv'
  <2>1. PICK q \in {"lock", "mutex", "post"} : pc' = [pc EXCEPT ![t] = q]
    BY <1>2 DEF Call, LocalPc
  <2>2. \A b \in Thread \ {t} : req'[b] = req[b]
    BY <1>0, <1>2 DEF Call, TypeOK
  <2> QED BY <1>0, <1>1, <1>2, <2>1, <2>2 DEF Pc
<1>3. ASSUME NEW t \in App \cup Link, NEW r \in Requests[t], Begin(t, r) PROVE HeapInv'
  <2>1. r \in Command
    BY RequestAssumption
  <2> QED BY <1>2, <1>3, <2>1 DEF Begin, Caller, queues
<1>4. ASSUME NEW t \in Thread, PendLock(t) \/ LockMutex(t) PROVE HeapInv'
  <2>1. PICK q \in {"send", "post"} : pc' = [pc EXCEPT ![t] = q]
    BY <1>4 DEF PendLock, LockMutex
  <2>2. pc[t] \in {"lock", "mutex"} /\ UNCHANGED <<req, ptr, heap, ackQ>>
    BY <1>4 DEF PendLock, LockMutex, queues
  <2> QED BY <1>1, <2>1, <2>2 DEF Pc
<1>5. ASSUME NEW t \in Thread, Post(t) PROVE HeapInv'
  <2>1. PICK q \in {"link", "reply", "idle"} :
           pc' = [pc EXCEPT ![t] = q] /\ (q = "reply" => ~req[t].ack)
    BY <1>5 DEF Post
  <2>2. pc[t] = "post" /\ UNCHANGED <<req, ptr, heap, ackQ>>
    BY <1>5 DEF Post, queues
  <2> QED BY <1>1, <2>1, <2>2 DEF Pc
<1>6. ASSUME NEW t \in Thread, Answered(t) PROVE HeapInv'
  <2>1. pc[t] = "answered" /\ UNCHANGED <<ptr, ackQ>>
    BY <1>6 DEF Answered
  <2>2. CASE t \in Proc
    <3>1. PICK m0 \in Msg : m0 = ptr[t]
      BY <1>0, <2>1, <2>2 DEF MsgQInv, ThreadsInv, TypeOK
    <3>2. heap[m0] # Free /\ heap[m0].cmd = req[t]
      BY <2>1, <2>2, <3>1, OneHand DEF MsgQInv, HeapInv
    <3>3. /\ heap' = [heap EXCEPT ![m0] = [heap[m0] EXCEPT !.done = TRUE]]
          /\ pc' = [pc EXCEPT ![t] = "reply"] /\ req' = req
      BY <1>6, <2>2, <3>1 DEF Answered
    <3>4. pc'[t] = "reply" /\ \A b \in Thread \ {t} : pc'[b] = pc[b]
      BY <1>0, <3>3 DEF TypeOK
    <3>5. heap' # heap \/ heap[m0].done
      <4>1. heap' = heap => heap[m0] = [heap[m0] EXCEPT !.done = TRUE]
        BY <1>0, <3>3 DEF TypeOK
      <4>2. [heap[m0] EXCEPT !.done = TRUE].done
        BY <1>0, <3>2, InUse
      <4> QED BY <4>1, <4>2
    <3> QED BY <2>1, <2>2, <3>1, <3>2, <3>3, <3>4, <3>5, DoneHeap
  <2>3. CASE t \notin Proc
    <3>1. /\ pc' = [pc EXCEPT ![t] = "idle"] /\ req' = [req EXCEPT ![t] = NoCommand]
          /\ heap' = heap
      BY <1>6, <2>3 DEF Answered
    <3>2. \A b \in Thread \ {t} : req'[b] = req[b]
      BY <1>0, <3>1 DEF TypeOK
    <3> QED BY <1>1, <2>1, <2>3, <3>1, <3>2 DEF Pc
  <2> QED BY <2>2, <2>3
<1>7. ASSUME NEW p \in Proc, GetMsg(p) PROVE HeapInv'
  <2>1. recvQ[p] \in Seq(Msg) /\ recvQ[p] # <<>>
    BY <1>0, <1>7 DEF GetMsg, TypeOK
  <2>2. PICK m0 \in Msg : m0 = Head(recvQ[p]) /\ m0 \in Range(recvQ[p])
    BY <2>1, QueueTake
  <2>3. heap[m0] # Free
    BY <2>2, OneHand DEF MsgQInv
  <2>4. /\ ptr' = [ptr EXCEPT ![p] = m0] /\ req' = [req EXCEPT ![p] = heap[m0].cmd]
        /\ ackQ' = ackQ /\ p \in Thread
    BY <1>0, <1>7, <2>2 DEF GetMsg
  <2>5. \/ /\ heap' = [heap EXCEPT ![m0] = [heap[m0] EXCEPT !.done = TRUE]]
           /\ pc' = [pc EXCEPT ![p] = "reply"]
        \/ heap' = heap /\ \E q \in {"mutex", "post"} : pc' = [pc EXCEPT ![p] = q]
    <3>1. CASE heap[m0].cmd.cmd = "getInfo"
      BY <1>7, <2>2, <3>1 DEF GetMsg
    <3>2. CASE heap[m0].cmd.cmd # "getInfo"
      BY <1>7, <2>2, <3>2 DEF GetMsg, LocalPc
    <3> QED BY <3>1, <3>2
  <2>6. /\ ptr'[p] = m0 /\ req'[p] = heap[m0].cmd
        /\ \A b \in Thread \ {p} : pc'[b] = pc[b] /\ ptr'[b] = ptr[b] /\ req'[b] = req[b]
    BY <1>0, <2>4, <2>5 DEF TypeOK
  <2>7. pc'[p] # "idle"
    BY <1>0, <2>4, <2>5 DEF TypeOK
  <2>8. pc'[p] = "reply" => heap' # heap \/ heap[m0].done
    <3>1. CASE heap' = [heap EXCEPT ![m0] = [heap[m0] EXCEPT !.done = TRUE]]
      <4>1. heap' = heap => heap[m0] = [heap[m0] EXCEPT !.done = TRUE]
        BY <1>0, <3>1 DEF TypeOK
      <4>2. [heap[m0] EXCEPT !.done = TRUE].done
        BY <1>0, <2>3, InUse
      <4> QED BY <4>1, <4>2
    <3>2. CASE \E q \in {"mutex", "post"} : pc' = [pc EXCEPT ![p] = q]
      BY <1>0, <2>4, <3>2 DEF TypeOK
    <3> QED BY <2>5, <3>1, <3>2
  <2>9. heap' = heap \/ heap' = [heap EXCEPT ![m0] = [heap[m0] EXCEPT !.done = TRUE]]
    BY <2>5
  <2> QED BY <2>3, <2>4, <2>6, <2>7, <2>8, <2>9, DoneHeap
<1>8. ASSUME NEW l \in Link, Take(l) PROVE HeapInv'
  <2>1. CASE AsksPrev(l, Head(mbx[l]).cmd.cmd)
    <3>1. Call(l, GetInfo(l)) /\ GetInfo(l) \in Command /\ l \in Caller /\ pc[l] = "idle"
      BY <1>8, <2>1, LinkAssumption DEF Take, AsksPrev, GetInfo, Command, Cmd, Caller
    <3> QED BY <1>2, <1>8, <3>1 DEF Take, queues
  <2>2. CASE ~AsksPrev(l, Head(mbx[l]).cmd.cmd)
    BY <1>8, <2>2, HeapStays DEF Take, queues
  <2> QED BY <2>1, <2>2
<1>9. ASSUME NEW l \in Link, Answer(l) PROVE HeapInv'
  <2>1. UNCHANGED <<req, ptr, heap, ackQ>>
    BY <1>9 DEF Answer, queues
  <2>2. CASE held[l].from = NoThread
    <3>1. pc' = pc
      BY <1>9, <2>2 DEF Answer
    <3> QED BY <2>1, <3>1, HeapStays
  <2>3. CASE held[l].from # NoThread
    <3>1. PICK t \in Thread : t = held[l].from
      BY <1>0, <2>3, Threads DEF TypeOK, Entry
    <3>2. pc' = [pc EXCEPT ![t] = "answered"]
      BY <1>9, <2>3, <3>1 DEF Answer
    <3>3. pc[t] = "link"
      BY <2>3, <3>1 DEF MsgQInv, EntriesInv
    <3> QED BY <1>1, <2>1, <3>2, <3>3 DEF Pc
  <2> QED BY <2>2, <2>3
<1>10. ASSUME UNCHANGED vars PROVE HeapInv'
  BY <1>10, HeapStays DEF vars, threads, queues
<1> QED
  BY <1>3, <1>4, <1>5, <1>6, <1>7, <1>8, <1>9, <1>10, SendHeap, GetAckHeap, ReplyHeap
     DEF Next, Step

-----------------------------------------------------------------------------
(* The entries in the mailboxes of the links.                               *)

LEMMA NamedAppend ==
    ASSUME NEW q \in Seq(Entry), NEW e \in Entry, NamedOnce(q),
           e.from # NoThread => \A x \in Range(q) : x.from # e.from
    PROVE  NamedOnce(Append(q, e))
<1>1. /\ \A i \in 1 .. Len(q) : Append(q, e)[i] = q[i]
      /\ Append(q, e)[Len(q) + 1] = e
      /\ Len(Append(q, e)) = Len(q) + 1
      /\ Append(q, e) \in Seq(Entry)
  BY AppendProperties
<1>2. Len(q) \in Nat /\ DOMAIN q = 1 .. Len(q) /\ DOMAIN Append(q, e) = 1 .. Len(q) + 1
  BY <1>1, LenProperties
<1>3. \A i \in 1 .. Len(q) : q[i] \in Range(q)
  BY <1>2 DEF Range
<1>4. \A i \in DOMAIN Append(q, e) : i \in 1 .. Len(q) \/ i = Len(q) + 1
  BY <1>2
<1> QED
  BY <1>1, <1>2, <1>3, <1>4 DEF NamedOnce

LEMMA NamedTake ==
    ASSUME NEW q \in Seq(Entry), q # <<>>, NamedOnce(q)
    PROVE  /\ NamedOnce(Tail(q))
           /\ \A x \in Range(Tail(q)) : x.from = Head(q).from => x.from = NoThread
<1>1. /\ Tail(q) \in Seq(Entry) /\ Len(Tail(q)) = Len(q) - 1
      /\ \A i \in 1 .. Len(q) - 1 : Tail(q)[i] = q[i + 1]
  BY HeadTailProperties
<1>2. Len(q) \in Nat \ {0} /\ DOMAIN q = 1 .. Len(q) /\ DOMAIN Tail(q) = 1 .. Len(q) - 1
  BY <1>1, LenProperties, EmptySeq
<1>3. \A i \in 1 .. Len(q) - 1 : i + 1 \in DOMAIN q /\ i + 1 # 1
  BY <1>2
<1>4. \A i, j \in 1 .. Len(q) - 1 : i + 1 = j + 1 => i = j
  BY <1>2
<1>5. NamedOnce(Tail(q))
  BY <1>1, <1>2, <1>3, <1>4 DEF NamedOnce
<1>6. ASSUME NEW x \in Range(Tail(q)), x.from = Head(q).from PROVE x.from = NoThread
  <2>1. PICK i \in 1 .. Len(q) - 1 : x = q[i + 1]
    BY <1>1, <1>2 DEF Range
  <2>2. Head(q) = q[1] /\ 1 \in DOMAIN q
    BY <1>2
  <2> QED BY <1>3, <1>6, <2>1, <2>2 DEF NamedOnce
<1> QED
  BY <1>5, <1>6

\* Nobody who is named in an entry moves.
LEMMA EntriesStay ==
    ASSUME MsgQInv, UNCHANGED <<mbx, held>>,
           \A t \in Thread : pc[t] = "link" => pc'[t] = "link" /\ req'[t] = req[t]
    PROVE  EntriesInv'
<1>1. ASSUME NEW l \in Link, NEW e \in Range(mbx[l]) \cup {held[l]}, e.from # NoThread
      PROVE  e.cmd.to = l /\ pc'[e.from] = "link" /\ req'[e.from] = e.cmd
  <2>1. e.cmd.to = l /\ pc[e.from] = "link" /\ req[e.from] = e.cmd
    BY <1>1 DEF MsgQInv, EntriesInv
  <2>2. e \in Entry
    BY <1>1, Threads DEF MsgQInv, OwnInv, TypeOK, Range
  <2>3. e.from \in Thread
    BY <1>1, <2>2 DEF Entry
  <2> QED BY <2>1, <2>3
<1> QED
  BY <1>1 DEF MsgQInv, EntriesInv, NamedOnce, NoEntry, NoCommand

LEMMA PostEntries == ASSUME MsgQInv, NEW t \in Thread, Post(t) PROVE EntriesInv'
<1>0. TypeOK /\ EntriesInv /\ pc[t] = "post" /\ req' = req
  BY DEF Post, MsgQInv, OwnInv
<1>1. PICK l \in Link : l = req[t].to
  BY <1>0 DEF MsgQInv, ThreadsInv, Command
<1>2. PICK e \in Entry : /\ mbx' = [mbx EXCEPT ![l] = Append(mbx[l], e)]
                         /\ e.cmd = req[t] /\ e.from = IF req[t].ack THEN t ELSE NoThread
  <2>1. [cmd |-> req[t], from |-> IF req[t].ack THEN t ELSE NoThread,
         msg |-> IF req[t].prm THEN ptr[t] ELSE NoMsg] \in Entry
    BY <1>0 DEF Entry, TypeOK, MsgQInv, ThreadsInv
  <2> QED BY <1>1, <2>1 DEF Post
<1>3. /\ \A b \in Thread \ {t} : pc'[b] = pc[b]
      /\ req[t].ack => pc'[t] = "link"
      /\ held' = held
  BY <1>0 DEF Post, TypeOK
<1>4. \A k \in Link : \A x \in Range(mbx[k]) \cup {held[k]} : x.from # NoThread =>
         /\ x.from # t /\ x.from \in Thread
         /\ x.cmd.to = k /\ pc'[x.from] = "link" /\ req[x.from] = x.cmd
  <2> SUFFICES ASSUME NEW k \in Link, NEW x \in Range(mbx[k]) \cup {held[k]}, x.from # NoThread
               PROVE  /\ x.from # t /\ x.from \in Thread
                      /\ x.cmd.to = k /\ pc'[x.from] = "link" /\ req[x.from] = x.cmd
    OBVIOUS
  <2>1. x.cmd.to = k /\ pc[x.from] = "link" /\ req[x.from] = x.cmd
    BY <1>0 DEF EntriesInv
  <2>2. x \in Entry
    BY <1>0, Threads DEF TypeOK, Range
  <2>3. x.from \in Thread
    BY <2>2 DEF Entry
  <2> QED BY <1>0, <1>3, <2>1, <2>3
<1>5. mbx[l] \in Seq(Entry)
  BY <1>0 DEF TypeOK
<1>6. Range(Append(mbx[l], e)) = Range(mbx[l]) \cup {e} /\ NamedOnce(Append(mbx[l], e))
  <2>1. e.from # NoThread => \A x \in Range(mbx[l]) : x.from # e.from
    BY <1>2, <1>4
  <2> QED BY <1>0, <1>5, <2>1, QueueAppend, NamedAppend DEF EntriesInv
<1>7. /\ Range(mbx'[l]) = Range(mbx[l]) \cup {e} /\ NamedOnce(mbx'[l])
      /\ \A k \in Link \ {l} : mbx'[k] = mbx[k]
  BY <1>0, <1>2, <1>6 DEF TypeOK
<1>8. ASSUME NEW k \in Link, NEW x \in Range(mbx'[k]) \cup {held'[k]}, x.from # NoThread
      PROVE  x.cmd.to = k /\ pc'[x.from] = "link" /\ req'[x.from] = x.cmd
  <2>1. CASE x \in Range(mbx[k]) \cup {held[k]}
    BY <1>0, <1>4, <1>8, <2>1
  <2>2. CASE k = l /\ x = e
    BY <1>0, <1>1, <1>2, <1>3, <1>8, <2>2
  <2> QED BY <1>3, <1>7, <2>1, <2>2
<1>9. ASSUME NEW k \in Link
      PROVE  /\ NamedOnce(mbx'[k])
             /\ \A x \in Range(mbx'[k]) : x.from = held'[k].from => x.from = NoThread
  <2>1. CASE k = l
    <3>1. held[l].from # NoThread => e.from # held[l].from
      BY <1>2, <1>4
    <3> QED BY <1>0, <1>3, <1>7, <2>1, <3>1 DEF EntriesInv
  <2>2. CASE k # l
    BY <1>0, <1>3, <1>7, <2>2 DEF EntriesInv
  <2> QED BY <2>1, <2>2
<1> QED
  BY <1>8, <1>9 DEF EntriesInv, NamedOnce

LEMMA TakeEntries == ASSUME MsgQInv, NEW l \in Link, Take(l) PROVE EntriesInv'
<1>0. TypeOK /\ EntriesInv /\ pc[l] = "idle" /\ l \in Thread
  BY DEF Take, MsgQInv, OwnInv, Thread
<1>1. mbx[l] \in Seq(Entry) /\ mbx[l] # <<>>
  BY <1>0 DEF Take, TypeOK
<1>2. PICK e \in Entry : e = Head(mbx[l]) /\ e \in Range(mbx[l])
  BY <1>1, QueueTake
<1>3. /\ held'[l] = e /\ \A k \in Link \ {l} : held'[k] = held[k] /\ mbx'[k] = mbx[k]
      /\ mbx'[l] = Tail(mbx[l])
  BY <1>0, <1>2 DEF Take, TypeOK
<1>4. /\ Range(mbx'[l]) \subseteq Range(mbx[l]) /\ NamedOnce(mbx'[l])
      /\ \A x \in Range(mbx'[l]) : x.from = e.from => x.from = NoThread
  BY <1>0, <1>1, <1>2, <1>3, QueueTake, NamedTake DEF EntriesInv
<1>5. \A b \in Thread \ {l} : pc'[b] = pc[b] /\ req'[b] = req[b]
  BY <1>0 DEF Take, Call, TypeOK
<1>6. ASSUME NEW k \in Link, NEW x \in Range(mbx'[k]) \cup {held'[k]}, x.from # NoThread
      PROVE  x.cmd.to = k /\ pc'[x.from] = "link" /\ req'[x.from] = x.cmd
  <2>1. x \in Range(mbx[k]) \cup {held[k]}
    BY <1>2, <1>3, <1>4
  <2>2. x.cmd.to = k /\ pc[x.from] = "link" /\ req[x.from] = x.cmd
    BY <1>0, <1>6, <2>1 DEF EntriesInv
  <2>3. x \in Entry
    BY <1>0, <1>6, <2>1, Threads DEF TypeOK, Range
  <2>4. x.from \in Thread /\ x.from # l
    BY <1>0, <1>6, <2>2, <2>3 DEF Entry
  <2> QED BY <1>5, <2>2, <2>4
<1>7. ASSUME NEW k \in Link
      PROVE  /\ NamedOnce(mbx'[k])
             /\ \A x \in Range(mbx'[k]) : x.from = held'[k].from => x.from = NoThread
  BY <1>0, <1>3, <1>4 DEF EntriesInv
<1> QED
  BY <1>6, <1>7 DEF EntriesInv, NamedOnce

LEMMA AnswerEntries == ASSUME MsgQInv, NEW l \in Link, Answer(l) PROVE EntriesInv'
<1>0. TypeOK /\ EntriesInv
  BY DEF MsgQInv, OwnInv
<1>1. /\ held'[l] = NoEntry /\ \A k \in Link \ {l} : held'[k] = held[k]
      /\ mbx' = mbx /\ req' = req
      /\ \A b \in Thread : b # held[l].from => pc'[b] = pc[b]
  BY <1>0 DEF Answer, TypeOK
<1>2. ASSUME NEW k \in Link, NEW x \in Range(mbx'[k]) \cup {held'[k]}, x.from # NoThread
      PROVE  x.cmd.to = k /\ pc'[x.from] = "link" /\ req'[x.from] = x.cmd
  <2>1. x \in Range(mbx[k]) \/ (k # l /\ x = held[k])
    BY <1>1, <1>2, Threads
  <2>2. x.cmd.to = k /\ pc[x.from] = "link" /\ req[x.from] = x.cmd
    BY <1>0, <1>2, <2>1 DEF EntriesInv
  <2>3. x \in Entry
    BY <1>0, <1>2, <2>1, Threads DEF TypeOK, Range
  <2>4. x.from \in Thread
    BY <1>2, <2>3 DEF Entry
  <2>5. x.from # held[l].from
    <3>1. CASE k = l
      BY <1>0, <1>2, <2>1, <3>1 DEF EntriesInv
    <3>2. CASE k # l
      BY <1>0, <1>2, <2>2, <3>2 DEF EntriesInv
    <3> QED BY <3>1, <3>2
  <2> QED BY <1>1, <2>2, <2>4, <2>5
<1>3. ASSUME NEW k \in Link
      PROVE  /\ NamedOnce(mbx'[k])
             /\ \A x \in Range(mbx'[k]) : x.from = held'[k].from => x.from = NoThread
  BY <1>0, <1>1, Threads DEF EntriesInv
<1> QED
  BY <1>2, <1>3 DEF EntriesInv, NamedOnce

LEMMA EntriesStep == ASSUME MsgQInv, [Next]_vars PROVE EntriesInv'
<1>0. TypeOK
  BY DEF MsgQInv, OwnInv
<1>1. ASSUME NEW t \in Thread, pc[t] # "link", UNCHANGED <<mbx, held>>,
             \A b \in Thread \ {t} : pc'[b] = pc[b] /\ req'[b] = req[b]
      PROVE  EntriesInv'
  <2>1. \A b \in Thread : pc[b] = "link" => pc'[b] = "link" /\ req'[b] = req[b]
    BY <1>1
  <2> QED BY <1>1, <2>1, EntriesStay
<1>2. ASSUME NEW t \in App \cup Link, NEW r \in Requests[t], Begin(t, r) PROVE EntriesInv'
  BY <1>0, <1>1, <1>2 DEF Begin, Call, TypeOK, Thread, links
<1>3. ASSUME NEW t \in Thread, PendLock(t) \/ LockMutex(t) PROVE EntriesInv'
  BY <1>0, <1>1, <1>3 DEF PendLock, LockMutex, TypeOK, links
<1>4. ASSUME NEW t \in Thread, Send(t) \/ GetAck(t) PROVE EntriesInv'
  <2>1. pc[t] # "link" /\ UNCHANGED <<mbx, held>>
    BY <1>4 DEF Send, GetAck, links
  <2>2. ReturnFrom(t) \/ (pc' = [pc EXCEPT ![t] = "ack"] /\ req' = req)
    BY <1>4, SendTakes DEF GetAck
  <2>3. \A b \in Thread \ {t} : pc'[b] = pc[b] /\ req'[b] = req[b]
    BY <1>0, <2>2 DEF ReturnFrom, TypeOK
  <2> QED BY <1>1, <2>1, <2>3
<1>5. ASSUME NEW t \in Thread, Answered(t) PROVE EntriesInv'
  <2>1. pc[t] = "answered" /\ UNCHANGED <<mbx, held>>
    BY <1>5 DEF Answered, links
  <2>2. \A b \in Thread \ {t} : pc'[b] = pc[b] /\ req'[b] = req[b]
    BY <1>0, <1>5 DEF Answered, TypeOK
  <2> QED BY <1>1, <2>1, <2>2
<1>6. ASSUME NEW p \in Proc, GetMsg(p) \/ Reply(p) PROVE EntriesInv'
  <2>1. pc[p] # "link" /\ UNCHANGED <<mbx, held>> /\ p \in Thread
    BY <1>6, Threads DEF GetMsg, Reply, links
  <2>2. \A b \in Thread \ {p} : pc'[b] = pc[b] /\ req'[b] = req[b]
    BY <1>0, <1>6 DEF GetMsg, Reply, TypeOK
  <2> QED BY <1>1, <2>1, <2>2
<1>7. ASSUME UNCHANGED vars PROVE EntriesInv'
  BY <1>7, EntriesStay DEF vars, threads, links
<1> QED
  BY <1>2, <1>3, <1>4, <1>5, <1>6, <1>7, PostEntries, TakeEntries, AnswerEntries DEF Next, Step

-----------------------------------------------------------------------------
LEMMA InitMsgQ == Init => MsgQInv
<1> SUFFICES ASSUME Init PROVE MsgQInv
  OBVIOUS
<1>1. TypeOK
  BY LinkAssumption DEF Init, TypeOK, Pc
<1>2. \A p \in Proc : IsInjective(recvQ[p]) /\ IsInjective(ackQ[p])
  BY EmptyQueue DEF Init
<1>3. ASSUME NEW m \in Msg PROVE Sole(Owners(m))
  <2>1. ASSUME NEW j \in Kind, NEW w
        PROVE  w \in OwnersByKind(m)[j] <=> j = "heap" /\ w = m
    <3>1. /\ heap[m] = Free /\ \A p \in Proc : recvQ[p] = <<>> /\ ackQ[p] = <<>> /\ ptr[p] = NoMsg
      BY Threads DEF Init
    <3> QED BY <3>1, EmptyQueue, ByKind, MsgAssumption DEF Kind
  <2>2. DOMAIN OwnersByKind(m) = Kind /\ "heap" \in Kind
    BY ByKind DEF Kind
  <2>3. Tagged(OwnersByKind(m)) = {<<"heap", m>>}
    BY <2>1, <2>2 DEF Tagged
  <2> QED BY <2>3 DEF Sole, Owners
<1>4. ThreadsInv /\ LockInv
  BY Threads, MsgAssumption DEF Init, ThreadsInv, LockInv
<1>5. HeapInv
  BY Threads, EmptyQueue DEF Init, HeapInv
<1>6. EntriesInv
  BY Threads, EmptyQueue DEF Init, EntriesInv, NamedOnce
<1> QED
  BY <1>1, <1>2, <1>3, <1>4, <1>5, <1>6 DEF MsgQInv, OwnInv

\* The inductive invariant holds in every reachable state: the types, the one
\* place of each message, and what a thread's place in its call says of the
\* locks, the messages it holds and the entries of the links' mailboxes.
THEOREM Inductive == Spec => []MsgQInv
<1>1. Init => MsgQInv
  BY InitMsgQ
<1>2. MsgQInv /\ [Next]_vars => MsgQInv'
  BY TypeStep, OwnersStep, ThreadsStep, HeapStep, EntriesStep DEF MsgQInv, OwnInv, OwnersNext
<1> QED
  BY <1>1, <1>2, PTL DEF Spec

\* In every reachable state the variables have their types, and a message of
\* the shared heap is free, in one queue or with one MsgQ task: it is freed
\* exactly once, by whoever looks at it last.
THEOREM AlwaysOneOwner == Spec => []OneOwner
<1>1. MsgQInv => OneOwner
  BY SoleMeansOne DEF MsgQInv, OwnInv, OneOwner
<1> QED
  BY <1>1, Inductive, PTL

\* In every reachable state what lies in the queue of acknowledgements that
\* the callers of a processor share is the answer to the one caller that
\* holds the lock, although neither the queue nor the message names it.
THEOREM AlwaysRepliesMatch == Spec => []RepliesMatch
<1>1. MsgQInv => RepliesMatch
  <2> SUFFICES ASSUME MsgQInv, NEW p \in Proc, ackQ[p] # <<>>
               PROVE  /\ Len(ackQ[p]) = 1 /\ lock[p] # NoThread
                      /\ pc[lock[p]] = "ack" /\ ptr[lock[p]] = Head(ackQ[p])
                      /\ heap[ptr[lock[p]]].done
    BY DEF RepliesMatch
  <2>1. ackQ[p] \in Seq(Msg) /\ IsInjective(ackQ[p])
    BY DEF MsgQInv, OwnInv, TypeOK
  <2>2. PICK m \in Msg : m = Head(ackQ[p]) /\ m \in Range(ackQ[p])
    BY <2>1, QueueTake
  <2>3. heap[m].cmd.ack /\ heap[m].reply = p
    BY <2>2 DEF MsgQInv, HeapInv
  <2>4. PICK t \in Caller : pc[t] = "ack" /\ ptr[t] = m /\ Home(t) = p
    BY <2>3 DEF MsgQInv, HeapInv
  <2>5. lock[p] = t /\ t # NoThread
    BY <2>4, Threads DEF MsgQInv, LockInv
  <2>6. \A x \in Range(ackQ[p]) : x = m /\ heap[x].done
    BY <2>4, OwnAck
  <2>7. Len(ackQ[p]) = 1
    <3>1. Len(ackQ[p]) \in Nat \ {0} /\ DOMAIN ackQ[p] = 1 .. Len(ackQ[p])
      BY <2>1, LenProperties, EmptySeq
    <3>2. \A i \in 1 .. Len(ackQ[p]) : ackQ[p][i] = m
      BY <2>6, <3>1 DEF Range
    <3>3. \A i, j \in 1 .. Len(ackQ[p]) : i = j
      BY <2>1, <3>1, <3>2 DEF IsInjective
    <3>4. 1 \in 1 .. Len(ackQ[p]) /\ Len(ackQ[p]) \in 1 .. Len(ackQ[p])
      BY <3>1
    <3> QED BY <3>3, <3>4
  <2> QED BY <2>2, <2>4, <2>5, <2>6, <2>7
<1> QED
  BY <1>1, Inductive, PTL

-----------------------------------------------------------------------------
(* The refinement of ControlCall.  What has become of the command of one    *)
(* caller changes at a step of that caller, of the link that answers it, or *)
(* of the MsgQ task that marks its message as done.                         *)

LEMMA SameProgress ==
    ASSUME MsgQInv, NEW b \in Caller, pc'[b] = pc[b], req'[b] = req[b], ptr'[b] = ptr[b],
           pc[b] = "ack" => heap'[ptr[b]].done = heap[ptr[b]].done
    PROVE  Progress(b)' = Progress(b)
BY DEF Progress

Moves(t) == \/ Progress(t) = "none" /\ Progress(t)' = "sent"
            \/ Progress(t) = "sent" /\ Progress(t)' = "done"
            \/ Progress(t) = "done" /\ Progress(t)' = "none"
            \/ Progress(t)' = Progress(t)
OneMoves == \/ \E t \in Caller : /\ Moves(t)
                                 /\ \A b \in Caller \ {t} : Progress(b)' = Progress(b)
            \/ \A b \in Caller : Progress(b)' = Progress(b)

LEMMA DoneMoves ==
    ASSUME MsgQInv, NEW m0 \in Msg, heap[m0] # Free,
           heap' = heap \/ heap' = [heap EXCEPT ![m0] = [heap[m0] EXCEPT !.done = TRUE]],
           \A b \in Caller : pc'[b] = pc[b] /\ req'[b] = req[b] /\ ptr'[b] = ptr[b]
    PROVE  OneMoves
<1>0. /\ \A b \in Caller : pc[b] = "ack" => ptr[b] \in Msg /\ req[b].ack /\ b \in Thread
      /\ TypeOK
  BY Threads DEF MsgQInv, OwnInv, ThreadsInv
<1>1. CASE heap' = heap
  BY <1>1, SameProgress DEF OneMoves
<1>2. CASE heap' = [heap EXCEPT ![m0] = [heap[m0] EXCEPT !.done = TRUE]]
  <2>1. heap'[m0].done /\ \A m \in Msg \ {m0} : heap'[m] = heap[m]
    BY <1>0, <1>2, InUse DEF TypeOK
  <2>2. CASE \A b \in Caller : pc[b] = "ack" => ptr[b] # m0
    <3>1. \A b \in Caller : pc[b] = "ack" => heap'[ptr[b]].done = heap[ptr[b]].done
      BY <1>0, <2>1, <2>2
    <3> QED BY <3>1, SameProgress DEF OneMoves
  <2>3. CASE \E t \in Caller : pc[t] = "ack" /\ ptr[t] = m0
    <3>1. PICK t \in Caller : pc[t] = "ack" /\ ptr[t] = m0
      BY <2>3
    <3>2. \A b \in Caller \ {t} : pc[b] = "ack" => ptr[b] # m0
      <4> SUFFICES ASSUME NEW b \in Caller \ {t}, pc[b] = "ack", ptr[b] = m0 PROVE FALSE
        OBVIOUS
      <4>1. Home(b) = Home(t)
        BY <3>1 DEF MsgQInv, HeapInv
      <4> QED BY <3>1, <4>1, SentApart
    <3>3. \A b \in Caller \ {t} : pc[b] = "ack" => heap'[ptr[b]].done = heap[ptr[b]].done
      BY <1>0, <2>1, <3>2
    <3>4. \A b \in Caller \ {t} : Progress(b)' = Progress(b)
      BY <3>3, SameProgress
    <3>5. Progress(t) \in {"sent", "done"} /\ Progress(t)' = "done"
      BY <1>0, <2>1, <3>1 DEF Progress
    <3> QED BY <3>4, <3>5 DEF OneMoves, Moves
  <2> QED BY <2>2, <2>3
<1> QED
  BY <1>1, <1>2

LEMMA OneMovesStep == ASSUME MsgQInv, [Next]_vars PROVE OneMoves
<1>0. /\ TypeOK /\ Caller \subseteq Thread /\ Proc \subseteq Thread /\ Caller \cap Proc = {}
      /\ \A b \in Caller : pc[b] = "ack" => ptr[b] \in Msg /\ req[b].ack
  BY Threads DEF MsgQInv, OwnInv, ThreadsInv
\* A step of one caller that does not touch the messages.
<1>1. ASSUME NEW t \in Caller, UNCHANGED <<heap, ptr>>, Moves(t),
             \A b \in Thread \ {t} : pc'[b] = pc[b] /\ req'[b] = req[b]
      PROVE  OneMoves
  <2>1. \A b \in Caller \ {t} : Progress(b)' = Progress(b)
    BY <1>0, <1>1, SameProgress
  <2> QED BY <1>1, <2>1 DEF OneMoves
\* A step that no caller takes part in.
<1>2. ASSUME UNCHANGED heap,
             \A b \in Caller : pc'[b] = pc[b] /\ req'[b] = req[b] /\ ptr'[b] = ptr[b]
      PROVE  OneMoves
  BY <1>2, SameProgress DEF OneMoves
<1>3. ASSUME NEW t \in Caller, NEW r \in Command, pc[t] = "idle", Call(t, r),
             UNCHANGED <<ptr, heap>>
      PROVE  OneMoves
  <2>1. pc' = [pc EXCEPT ![t] = IF Remote(t, r) THEN "lock" ELSE LocalPc(t, r)]
    BY <1>3 DEF Call
  <2>2. pc'[t] \in {"lock", "mutex", "post"} /\ req'[t] = r
    BY <1>0, <1>3, <2>1 DEF Call, LocalPc, TypeOK
  <2>3. \A b \in Thread \ {t} : pc'[b] = pc[b] /\ req'[b] = req[b]
    BY <1>0, <1>3 DEF Call, TypeOK
  <2>4. Moves(t)
    BY <1>3, <2>2 DEF Moves, Progress
  <2> QED BY <1>1, <1>3, <2>3, <2>4
<1>4. ASSUME NEW t \in App \cup Link, NEW r \in Requests[t], Begin(t, r) PROVE OneMoves
  <2>1. r \in Command
    BY RequestAssumption
  <2> QED BY <1>3, <1>4, <2>1 DEF Begin, Caller, queues
<1>5. ASSUME NEW t \in Thread, PendLock(t) \/ LockMutex(t) PROVE OneMoves
  <2>1. /\ pc[t] \in {"lock", "mutex"} /\ UNCHANGED <<req, ptr, heap>>
        /\ \A b \in Thread \ {t} : pc'[b] = pc[b]
        /\ pc'[t] \in {"send", "post"}
    BY <1>0, <1>5 DEF PendLock, LockMutex, queues, TypeOK
  <2>2. CASE t \in Caller
    <3>1. Moves(t)
      BY <2>1 DEF Moves, Progress
    <3> QED BY <1>1, <2>1, <2>2, <3>1
  <2>3. CASE t \notin Caller
    BY <1>0, <1>2, <2>1, <2>3
  <2> QED BY <2>2, <2>3
<1>6. ASSUME NEW t \in Thread, Send(t) PROVE OneMoves
  <2>1. PICK m0 \in Msg :
           /\ heap[m0] = Free /\ pc[t] = "send"
           /\ heap' = [heap EXCEPT ![m0] = [cmd |-> req[t], reply |-> Home(t), done |-> FALSE]]
           /\ recvQ' = [recvQ EXCEPT ![LinkProc[req[t].to]] = Append(@, m0)]
           /\ \/ /\ req[t].ack /\ pc' = [pc EXCEPT ![t] = "ack"]
                 /\ ptr' = [ptr EXCEPT ![t] = m0] /\ UNCHANGED <<req, lock>>
              \/ ~req[t].ack /\ ReturnFrom(t) /\ ptr' = ptr
           /\ UNCHANGED <<mutex, ackQ, links>>
    BY <1>6, SendTakes
  <2>2. t \in Caller
    BY <2>1, Threads DEF MsgQInv, ThreadsInv
  <2>3. ~heap'[m0].done /\ \A m \in Msg \ {m0} : heap'[m] = heap[m]
    BY <1>0, <2>1 DEF TypeOK
  <2>4. \A b \in Caller : pc[b] = "ack" => heap'[ptr[b]].done = heap[ptr[b]].done
    <3>1. \A b \in Caller : pc[b] = "ack" => ptr[b] # m0
      BY <2>1 DEF MsgQInv, HeapInv
    <3> QED BY <1>0, <2>3, <3>1
  <2>5. CASE req[t].ack /\ pc' = [pc EXCEPT ![t] = "ack"]
             /\ ptr' = [ptr EXCEPT ![t] = m0] /\ UNCHANGED <<req, lock>>
    <3>1. /\ \A b \in Thread \ {t} : pc'[b] = pc[b] /\ req'[b] = req[b] /\ ptr'[b] = ptr[b]
          /\ pc'[t] = "ack" /\ ptr'[t] = m0 /\ req'[t] = req[t]
      BY <1>0, <2>5 DEF TypeOK
    <3>2. Progress(t) = "sent" /\ Progress(t)' = "sent"
      BY <2>1, <2>3, <2>5, <3>1 DEF Progress
    <3>3. \A b \in Caller \ {t} : Progress(b)' = Progress(b)
      BY <1>0, <2>4, <3>1, SameProgress
    <3> QED BY <2>2, <3>2, <3>3 DEF OneMoves, Moves
  <2>6. CASE ~req[t].ack /\ ReturnFrom(t) /\ ptr' = ptr
    <3>1. /\ \A b \in Thread \ {t} : pc'[b] = pc[b] /\ req'[b] = req[b] /\ ptr'[b] = ptr[b]
          /\ pc'[t] = "idle"
      BY <1>0, <2>6 DEF TypeOK, ReturnFrom
    <3>2. Progress(t) = "none" /\ Progress(t)' = "none"
      BY <2>6, <3>1 DEF Progress
    <3>3. \A b \in Caller \ {t} : Progress(b)' = Progress(b)
      BY <1>0, <2>4, <3>1, SameProgress
    <3> QED BY <2>2, <3>2, <3>3 DEF OneMoves, Moves
  <2> QED BY <2>1, <2>5, <2>6
<1>7. ASSUME NEW t \in Thread, GetAck(t) PROVE OneMoves
  <2>1. t \in Caller /\ pc[t] = "ack"
    BY <1>7, Threads DEF GetAck, MsgQInv, ThreadsInv
  <2>2. PICK o \in Proc : o = Home(t)
    BY Threads
  <2>3. ackQ[o] \in Seq(Msg) /\ ackQ[o] # <<>>
    BY <1>0, <1>7, <2>2 DEF GetAck, TypeOK
  <2>4. PICK m0 \in Msg : m0 = Head(ackQ[o]) /\ m0 \in Range(ackQ[o])
    BY <2>3, QueueTake
  <2>5. ptr[t] = m0 /\ heap[m0].done
    BY <2>1, <2>2, <2>4, OwnAck
  <2>6. /\ \A m \in Msg \ {m0} : heap'[m] = heap[m]
        /\ \A b \in Thread \ {t} : pc'[b] = pc[b] /\ req'[b] = req[b] /\ ptr'[b] = ptr[b]
        /\ pc'[t] = "idle"
    BY <1>0, <1>7, <2>2, <2>4 DEF GetAck, ReturnFrom, TypeOK
  <2>7. \A b \in Caller \ {t} : pc[b] = "ack" => ptr[b] # m0
    <3> SUFFICES ASSUME NEW b \in Caller \ {t}, pc[b] = "ack", ptr[b] = m0 PROVE FALSE
      OBVIOUS
    <3>1. Home(b) = Home(t)
      BY <2>1, <2>5 DEF MsgQInv, HeapInv
    <3> QED BY <2>1, <3>1, SentApart
  <2>8. \A b \in Caller \ {t} : Progress(b)' = Progress(b)
    <3>1. \A b \in Caller \ {t} : pc[b] = "ack" => heap'[ptr[b]].done = heap[ptr[b]].done
      BY <1>0, <2>6, <2>7
    <3> QED BY <1>0, <2>6, <3>1, SameProgress
  <2>9. Progress(t) = "done" /\ Progress(t)' = "none"
    BY <1>0, <2>1, <2>5, <2>6 DEF Progress
  <2> QED BY <2>1, <2>8, <2>9 DEF OneMoves, Moves
<1>8. ASSUME NEW t \in Thread, Post(t) PROVE OneMoves
  <2>1. /\ pc[t] = "post" /\ UNCHANGED <<req, ptr, heap>>
        /\ \A b \in Thread \ {t} : pc'[b] = pc[b]
        /\ req[t].ack => pc'[t] = "link"
    BY <1>0, <1>8 DEF Post, queues, TypeOK
  <2>2. CASE t \in Caller
    <3>1. Moves(t)
      BY <2>1 DEF Moves, Progress
    <3> QED BY <1>1, <2>1, <2>2, <3>1
  <2>3. CASE t \notin Caller
    BY <1>0, <1>2, <2>1, <2>3
  <2> QED BY <2>2, <2>3
<1>9. ASSUME NEW t \in Thread, Answered(t) PROVE OneMoves
  <2>1. pc[t] = "answered" /\ ptr' = ptr /\ \A b \in Thread \ {t} : pc'[b] = pc[b]
    BY <1>0, <1>9 DEF Answered, TypeOK
  <2>2. CASE t \in Proc
    <3>1. PICK m0 \in Msg : m0 = ptr[t]
      BY <1>0, <2>1, <2>2 DEF MsgQInv, ThreadsInv, TypeOK
    <3>2. heap[m0] # Free
      BY <2>2, <3>1, OneHand DEF MsgQInv
    <3>3. heap' = [heap EXCEPT ![m0] = [heap[m0] EXCEPT !.done = TRUE]] /\ req' = req
      BY <1>9, <2>2, <3>1 DEF Answered
    <3>4. \A b \in Caller : pc'[b] = pc[b] /\ req'[b] = req[b] /\ ptr'[b] = ptr[b]
      BY <1>0, <2>1, <2>2, <3>3
    <3> QED BY <3>2, <3>3, <3>4, DoneMoves
  <2>3. CASE t \notin Proc
    <3>1. /\ pc'[t] = "idle" /\ heap' = heap
          /\ \A b \in Thread \ {t} : req'[b] = req[b]
      BY <1>0, <1>9, <2>3 DEF Answered, TypeOK
    <3>2. req[t].ack /\ t \in Caller
      BY <2>1, <2>3, Threads DEF MsgQInv, ThreadsInv
    <3>3. Moves(t)
      BY <2>1, <3>1, <3>2 DEF Moves, Progress
    <3> QED BY <1>1, <2>1, <3>1, <3>2, <3>3
  <2> QED BY <2>2, <2>3
<1>10. ASSUME NEW p \in Proc, GetMsg(p) PROVE OneMoves
  <2>1. recvQ[p] \in Seq(Msg) /\ recvQ[p] # <<>>
    BY <1>0, <1>10 DEF GetMsg, TypeOK
  <2>2. PICK m0 \in Msg : m0 = Head(recvQ[p]) /\ m0 \in Range(recvQ[p])
    BY <2>1, QueueTake
  <2>3. heap[m0] # Free
    BY <2>2, OneHand DEF MsgQInv
  <2>4. \A b \in Caller : pc'[b] = pc[b] /\ req'[b] = req[b] /\ ptr'[b] = ptr[b]
    BY <1>0, <1>10 DEF GetMsg, TypeOK
  <2>5. heap' = heap \/ heap' = [heap EXCEPT ![m0] = [heap[m0] EXCEPT !.done = TRUE]]
    BY <1>10, <2>2 DEF GetMsg
  <2> QED BY <2>3, <2>4, <2>5, DoneMoves
<1>11. ASSUME NEW p \in Proc, Reply(p) PROVE OneMoves
  <2>1. \A b \in Caller : pc'[b] = pc[b] /\ req'[b] = req[b] /\ ptr'[b] = ptr[b]
    BY <1>0, <1>11 DEF Reply, TypeOK
  <2>2. CASE req[p].ack
    BY <1>2, <1>11, <2>1, <2>2 DEF Reply
  <2>3. CASE ~req[p].ack
    <3>1. PICK m0 \in Msg : m0 = ptr[p] /\ heap[m0].cmd = req[p]
      BY <1>0, <1>11 DEF Reply, MsgQInv, ThreadsInv, HeapInv, TypeOK
    <3>2. \A m \in Msg \ {m0} : heap'[m] = heap[m]
      BY <1>0, <1>11, <2>3, <3>1 DEF Reply, TypeOK
    <3>3. \A b \in Caller : pc[b] = "ack" => ptr[b] # m0
      BY <1>0, <2>3, <3>1 DEF MsgQInv, HeapInv
    <3>4. \A b \in Caller : pc[b] = "ack" => heap'[ptr[b]].done = heap[ptr[b]].done
      BY <1>0, <3>2, <3>3
    <3> QED BY <2>1, <3>4, SameProgress DEF OneMoves
  <2> QED BY <2>2, <2>3
<1>12. ASSUME NEW l \in Link, Take(l) PROVE OneMoves
  <2>1. CASE AsksPrev(l, Head(mbx[l]).cmd.cmd)
    <3>1. Call(l, GetInfo(l)) /\ GetInfo(l) \in Command /\ l \in Caller /\ pc[l] = "idle"
      BY <1>12, <2>1, LinkAssumption DEF Take, AsksPrev, GetInfo, Command, Cmd, Caller
    <3> QED BY <1>3, <1>12, <3>1 DEF Take, queues
  <2>2. CASE ~AsksPrev(l, Head(mbx[l]).cmd.cmd)
    BY <1>2, <1>12, <2>2 DEF Take, queues
  <2> QED BY <2>1, <2>2
<1>13. ASSUME NEW l \in Link, Answer(l) PROVE OneMoves
  <2>1. UNCHANGED <<req, ptr, heap>>
    BY <1>13 DEF Answer, queues
  <2>2. CASE held[l].from = NoThread
    BY <1>2, <1>13, <2>1, <2>2 DEF Answer
  <2>3. CASE held[l].from # NoThread
    <3>1. PICK t \in Thread : t = held[l].from
      BY <1>0, <2>3, Threads DEF TypeOK, Entry
    <3>2. pc'[t] = "answered" /\ \A b \in Thread \ {t} : pc'[b] = pc[b]
      BY <1>0, <1>13, <2>3, <3>1 DEF Answer, TypeOK
    <3>3. pc[t] = "link" /\ req[t].ack
      BY <2>3, <3>1 DEF MsgQInv, EntriesInv, ThreadsInv
    <3>4. CASE t \in Caller
      <4>1. Moves(t)
        BY <2>1, <3>2, <3>3 DEF Moves, Progress
      <4> QED BY <1>1, <2>1, <3>2, <3>4, <4>1
    <3>5. CASE t \notin Caller
      BY <1>0, <1>2, <2>1, <3>2, <3>5
    <3> QED BY <3>4, <3>5
  <2> QED BY <2>2, <2>3
<1>14. ASSUME UNCHANGED vars PROVE OneMoves
  BY <1>2, <1>14 DEF vars, threads, queues
<1> QED
  BY <1>4, <1>5, <1>6, <1>7, <1>8, <1>9, <1>10, <1>11, <1>12, <1>13, <1>14 DEF Next, Step

\* The transport implements ControlCall: seen from its caller, a command that
\* wants an acknowledgement is carried out once, after it was sent and before
\* the call returns, whatever processors it crosses.
THEOREM Implements == Spec => ImplementsControl
<1> DEFINE call == [t \in App \cup Link |-> Progress(t)]
<1>1. Init => Abstract!Init
  BY DEF Init, Abstract!Init, Progress, Thread
<1>2. MsgQInv /\ [Next]_vars => [Abstract!Next]_call
  <2> SUFFICES ASSUME MsgQInv, [Next]_vars PROVE Abstract!Next \/ call' = call
    OBVIOUS
  <2>1. CASE \A b \in Caller : Progress(b)' = Progress(b)
    BY <2>1 DEF Caller
  <2>2. CASE \E t \in Caller : /\ Moves(t)
                               /\ \A b \in Caller \ {t} : Progress(b)' = Progress(b)
    <3>1. PICK t \in Caller : /\ Moves(t)
                              /\ \A b \in Caller \ {t} : Progress(b)' = Progress(b)
      BY <2>2
    <3>2. call' = [call EXCEPT ![t] = Progress(t)']
      BY <3>1 DEF Caller
    <3>3. call[t] = Progress(t) /\ t \in App \cup Link
      BY DEF Caller
    <3>4. CASE Progress(t)' = Progress(t)
      BY <3>1, <3>4 DEF Caller
    <3>5. CASE Progress(t) = "none" /\ Progress(t)' = "sent"
      <4>1. Abstract!Send(t)
        BY <3>2, <3>3, <3>5 DEF Abstract!Send
      <4> QED BY <3>3, <4>1 DEF Abstract!Next
    <3>6. CASE Progress(t) = "sent" /\ Progress(t)' = "done"
      <4>1. Abstract!Execute(t)
        BY <3>2, <3>3, <3>6 DEF Abstract!Execute
      <4> QED BY <3>3, <4>1 DEF Abstract!Next
    <3>7. CASE Progress(t) = "done" /\ Progress(t)' = "none"
      <4>1. Abstract!Return(t)
        BY <3>2, <3>3, <3>7 DEF Abstract!Return
      <4> QED BY <3>3, <4>1 DEF Abstract!Next
    <3> QED BY <3>1, <3>4, <3>5, <3>6, <3>7 DEF Moves
  <2> QED BY <2>1, <2>2, OneMovesStep DEF OneMoves
<1> QED
  BY <1>1, <1>2, Inductive, PTL DEF Spec, ImplementsControl, Abstract!Spec

-----------------------------------------------------------------------------
(* Commands with parameters.  They are copied by nobody: the sender has to  *)
(* keep them until the link has read them, so it has to wait.               *)
WaitsWithPrms == \A t \in Caller : \A r \in Requests[t] : r.prm => r.ack

\* Who sent the parameters, or carries the message they lie in, waits.
PrmsInv ==
    /\ \A t \in Thread : pc[t] # "idle" /\ req[t].prm => req[t].ack
    /\ \A m \in Msg : heap[m].cmd.prm => heap[m].cmd.ack
    /\ \A l \in Link : \A e \in Range(mbx[l]) \cup {held[l]} : e.cmd.prm =>
          /\ e.from # NoThread
          /\ e.msg # NoMsg => e.from \in Proc /\ ptr[e.from] = e.msg

\* A step that leaves the mailboxes alone and moves no thread a link has in hand.
LEMMA PrmsStay ==
    ASSUME MsgQInv, PrmsInv, UNCHANGED <<mbx, held>>,
           \A p \in Proc : pc[p] = "link" => ptr'[p] = ptr[p],
           \A t \in Thread : pc'[t] # "idle" /\ req'[t].prm => req'[t].ack,
           \A m \in Msg : heap'[m].cmd.prm => heap'[m].cmd.ack
    PROVE  PrmsInv'
<1>1. ASSUME NEW l \in Link, NEW e \in Range(mbx[l]) \cup {held[l]}, e.cmd.prm
      PROVE  /\ e.from # NoThread
             /\ e.msg # NoMsg => e.from \in Proc /\ ptr'[e.from] = e.msg
  <2>1. e.from # NoThread /\ (e.msg # NoMsg => e.from \in Proc /\ ptr[e.from] = e.msg)
    BY <1>1 DEF PrmsInv
  <2>2. pc[e.from] = "link"
    BY <1>1, <2>1 DEF MsgQInv, EntriesInv
  <2> QED BY <2>1, <2>2
<1> QED
  BY <1>1 DEF PrmsInv

LEMMA PostPrms == ASSUME MsgQInv, PrmsInv, NEW t \in Thread, Post(t) PROVE PrmsInv'
<1>0. TypeOK /\ pc[t] = "post" /\ UNCHANGED <<req, ptr, heap, held>>
  BY DEF Post, MsgQInv, OwnInv, queues
<1>1. PICK l \in Link : l = req[t].to
  BY <1>0 DEF MsgQInv, ThreadsInv, Command
<1>2. PICK e \in Entry : /\ mbx' = [mbx EXCEPT ![l] = Append(mbx[l], e)]
                         /\ e.cmd = req[t] /\ e.from = IF req[t].ack THEN t ELSE NoThread
                         /\ e.msg = IF req[t].prm THEN ptr[t] ELSE NoMsg
  <2>1. [cmd |-> req[t], from |-> IF req[t].ack THEN t ELSE NoThread,
         msg |-> IF req[t].prm THEN ptr[t] ELSE NoMsg] \in Entry
    BY <1>0 DEF Entry, TypeOK, MsgQInv, ThreadsInv
  <2> QED BY <1>1, <2>1 DEF Post
<1>3. \A b \in Thread : pc'[b] # "idle" => pc[b] # "idle"
  BY <1>0 DEF Post, TypeOK
<1>4. e.cmd.prm => e.from = t /\ t # NoThread /\ (e.msg # NoMsg => t \in Proc /\ ptr[t] = e.msg)
  <2>1. t \notin Proc => ptr[t] = NoMsg
    BY <1>0, Threads DEF MsgQInv, ThreadsInv, TypeOK
  <2> QED BY <1>0, <1>2, <2>1, Threads DEF PrmsInv
<1>5. mbx[l] \in Seq(Entry) /\ Range(Append(mbx[l], e)) = Range(mbx[l]) \cup {e}
  BY <1>0, QueueAppend DEF TypeOK
<1>6. Range(mbx'[l]) = Range(mbx[l]) \cup {e} /\ \A k \in Link \ {l} : mbx'[k] = mbx[k]
  BY <1>0, <1>2, <1>5 DEF TypeOK
<1>7. ASSUME NEW k \in Link, NEW x \in Range(mbx'[k]) \cup {held'[k]}, x.cmd.prm
      PROVE  /\ x.from # NoThread
             /\ x.msg # NoMsg => x.from \in Proc /\ ptr'[x.from] = x.msg
  <2>1. x \in Range(mbx[k]) \cup {held[k]} \/ x = e
    BY <1>0, <1>6, <1>7
  <2> QED BY <1>0, <1>4, <1>7, <2>1 DEF PrmsInv
<1> QED
  BY <1>0, <1>3, <1>7 DEF PrmsInv

LEMMA LinkPrms ==
    ASSUME MsgQInv, PrmsInv, NEW l \in Link, Take(l) \/ Answer(l) PROVE PrmsInv'
<1>0. TypeOK /\ UNCHANGED <<ptr, heap>> /\ l \in Thread
  BY DEF Take, Answer, MsgQInv, OwnInv, queues, Thread
<1>1. \A k \in Link : Range(mbx'[k]) \cup {held'[k]} \subseteq Range(mbx[k]) \cup {held[k], NoEntry}
  <2>1. CASE Take(l)
    <3>1. mbx[l] \in Seq(Entry) /\ mbx[l] # <<>>
      BY <1>0, <2>1 DEF Take, TypeOK
    <3>2. PICK e \in Entry : e = Head(mbx[l]) /\ e \in Range(mbx[l])
      BY <3>1, QueueTake
    <3>3. Range(Tail(mbx[l])) \subseteq Range(mbx[l])
      BY <3>1, QueueTake
    <3>4. /\ held'[l] = e /\ mbx'[l] = Tail(mbx[l])
          /\ \A k \in Link \ {l} : held'[k] = held[k] /\ mbx'[k] = mbx[k]
      BY <1>0, <2>1, <3>2 DEF Take, TypeOK
    <3> QED BY <3>2, <3>3, <3>4
  <2>2. CASE Answer(l)
    BY <1>0, <2>2 DEF Answer, TypeOK
  <2> QED BY <2>1, <2>2
<1>2. ~NoEntry.cmd.prm
  BY DEF NoEntry, NoCommand
<1>3. ASSUME NEW t \in Thread, pc'[t] # "idle", req'[t].prm PROVE req'[t].ack
  <2>1. CASE Take(l)
    <3>1. (pc'[t] = pc[t] /\ req'[t] = req[t]) \/ req'[t] = GetInfo(l)
      BY <1>0, <2>1 DEF Take, Call, TypeOK
    <3>2. GetInfo(l).ack
      BY DEF GetInfo
    <3> QED BY <1>3, <3>1, <3>2 DEF PrmsInv
  <2>2. CASE Answer(l)
    <3>1. req' = req /\ (pc'[t] = pc[t] \/ t = held[l].from)
      BY <1>0, <2>2 DEF Answer, TypeOK
    <3>2. CASE pc'[t] = pc[t]
      BY <1>3, <3>1, <3>2 DEF PrmsInv
    <3>3. CASE t = held[l].from
      BY <1>3, <3>1, <3>3, Threads DEF MsgQInv, EntriesInv, PrmsInv
    <3> QED BY <3>1, <3>2, <3>3
  <2> QED BY <2>1, <2>2
<1> QED
  BY <1>0, <1>1, <1>2, <1>3 DEF PrmsInv

\* A command that is marked as done stays the command it is.
LEMMA DoneKeepsCmd ==
    ASSUME TypeOK, NEW m \in Msg, heap' = [heap EXCEPT ![m].done = TRUE]
    PROVE  \A n \in Msg : heap'[n].cmd = heap[n].cmd
<1>1. PICK x \in [cmd : Command, reply : Proc, done : BOOLEAN] \cup {Free} : x = heap[m]
  BY DEF TypeOK
<1>2. [x EXCEPT !.done = TRUE].cmd = x.cmd
  <2>1. CASE x = Free
    BY <2>1 DEF Free
  <2>2. CASE x # Free
    BY <1>1, <2>2
  <2> QED BY <2>1, <2>2
<1>3. \A n \in Msg : heap'[n] = IF n = m THEN [x EXCEPT !.done = TRUE] ELSE heap[n]
  BY <1>1 DEF TypeOK
<1> QED
  BY <1>1, <1>2, <1>3

LEMMA PrmsStep == ASSUME WaitsWithPrms, MsgQInv, PrmsInv, [Next]_vars PROVE PrmsInv'
<1>0. TypeOK
  BY DEF MsgQInv, OwnInv
<1>1. ASSUME NEW t \in Caller, NEW r \in Requests[t], Begin(t, r) PROVE PrmsInv'
  <2>1. t \in Thread /\ UNCHANGED <<ptr, heap, mbx, held>>
    BY <1>1 DEF Begin, Caller, Thread, queues, links
  <2>2. \A b \in Thread : (pc'[b] = pc[b] /\ req'[b] = req[b]) \/ req'[b] = r
    BY <1>0, <1>1, <2>1 DEF Begin, Call, TypeOK
  <2>3. r.prm => r.ack
    BY <1>1 DEF WaitsWithPrms
  <2> QED BY <2>1, <2>2, <2>3, PrmsStay DEF PrmsInv
<1>2. ASSUME NEW t \in Thread, PendLock(t) \/ LockMutex(t) PROVE PrmsInv'
  <2>1. pc[t] # "idle" /\ UNCHANGED <<req, ptr, heap, mbx, held>>
    BY <1>2 DEF PendLock, LockMutex, queues, links
  <2>2. \A b \in Thread : pc'[b] # "idle" => pc[b] # "idle"
    BY <1>0, <1>2, <2>1 DEF PendLock, LockMutex, TypeOK
  <2> QED BY <2>1, <2>2, PrmsStay DEF PrmsInv
<1>3. ASSUME NEW t \in Thread, Send(t) PROVE PrmsInv'
  <2>1. PICK m \in Msg :
           /\ pc[t] = "send"
           /\ heap' = [heap EXCEPT ![m] = [cmd |-> req[t], reply |-> Home(t), done |-> FALSE]]
           /\ \/ /\ req[t].ack /\ pc' = [pc EXCEPT ![t] = "ack"]
                 /\ ptr' = [ptr EXCEPT ![t] = m] /\ UNCHANGED <<req, lock>>
              \/ ~req[t].ack /\ ReturnFrom(t) /\ ptr' = ptr
           /\ UNCHANGED <<mutex, ackQ, links>>
    BY <1>3, SendTakes
  <2>2. \A b \in Thread : (pc[b] # "idle" /\ req'[b] = req[b]) \/ pc'[b] = "idle"
    BY <1>0, <2>1 DEF ReturnFrom, TypeOK
  <2>3. \A n \in Msg : heap'[n].cmd = heap[n].cmd \/ heap'[n].cmd = req[t]
    BY <1>0, <2>1 DEF TypeOK
  <2>4. t \notin Proc /\ \A p \in Proc : ptr'[p] = ptr[p]
    BY <1>0, <2>1, Threads DEF TypeOK, MsgQInv, ThreadsInv
  <2>5. UNCHANGED <<mbx, held>>
    BY <2>1 DEF links
  <2> QED BY <2>1, <2>2, <2>3, <2>4, <2>5, PrmsStay DEF PrmsInv
<1>4. ASSUME NEW t \in Thread, GetAck(t) PROVE PrmsInv'
  <2>1. pc[t] = "ack" /\ ReturnFrom(t) /\ UNCHANGED <<mbx, held>>
    BY <1>4 DEF GetAck, links
  <2>2. \A b \in Thread : (pc'[b] = pc[b] /\ req'[b] = req[b]) \/ pc'[b] = "idle"
    BY <1>0, <2>1 DEF ReturnFrom, TypeOK
  <2>3. \A m \in Msg : heap'[m] = heap[m] \/ heap'[m] = Free
    BY <1>0, <1>4 DEF GetAck, TypeOK
  <2>4. ~Free.cmd.prm
    BY DEF Free, NoCommand
  <2>5. t \notin Proc /\ \A p \in Proc : ptr'[p] = ptr[p]
    BY <1>0, <1>4, <2>1, Threads DEF GetAck, TypeOK, MsgQInv, ThreadsInv
  <2> QED BY <2>1, <2>2, <2>3, <2>4, <2>5, PrmsStay DEF PrmsInv
<1>5. ASSUME NEW t \in Thread, Answered(t) PROVE PrmsInv'
  <2>1. pc[t] = "answered" /\ UNCHANGED <<ptr, mbx, held>>
    BY <1>5 DEF Answered, links
  <2>2. \A b \in Thread : (pc[b] # "idle" /\ req'[b] = req[b]) \/ pc'[b] = "idle"
                          \/ (pc'[b] = pc[b] /\ req'[b] = req[b])
    BY <1>0, <1>5, <2>1 DEF Answered, TypeOK
  <2>3. \A m \in Msg : heap'[m].cmd = heap[m].cmd
    <3>1. CASE t \in Proc
      <4>1. PICK m \in Msg : m = ptr[t]
        BY <1>0, <2>1, <3>1 DEF TypeOK, MsgQInv, ThreadsInv
      <4>2. heap' = [heap EXCEPT ![m].done = TRUE]
        BY <1>5, <3>1, <4>1 DEF Answered
      <4> QED BY <1>0, <4>2, DoneKeepsCmd
    <3>2. CASE t \notin Proc
      BY <1>5, <3>2 DEF Answered
    <3> QED BY <3>1, <3>2
  <2> QED BY <2>1, <2>2, <2>3, PrmsStay DEF PrmsInv
<1>6. ASSUME NEW p \in Proc, GetMsg(p) PROVE PrmsInv'
  <2>1. pc[p] = "idle" /\ p \in Thread /\ UNCHANGED <<mbx, held>>
    BY <1>6, Threads DEF GetMsg, links
  <2>2. recvQ[p] \in Seq(Msg) /\ recvQ[p] # <<>>
    BY <1>0, <1>6 DEF GetMsg, TypeOK
  <2>3. PICK m \in Msg : m = Head(recvQ[p])
    BY <2>2, QueueTake
  <2>4. \A b \in Thread : (pc'[b] = pc[b] /\ req'[b] = req[b]) \/ req'[b] = heap[m].cmd
    BY <1>0, <1>6, <2>1, <2>3 DEF GetMsg, TypeOK
  <2>5. \A n \in Msg : heap'[n].cmd = heap[n].cmd
    <3>1. heap' = [heap EXCEPT ![m].done = TRUE] \/ heap' = heap
      BY <1>6, <2>3 DEF GetMsg
    <3> QED BY <1>0, <3>1, DoneKeepsCmd
  <2>6. \A q \in Proc : pc[q] = "link" => ptr'[q] = ptr[q]
    BY <1>0, <1>6, <2>1, Threads DEF GetMsg, TypeOK
  <2> QED BY <2>1, <2>4, <2>5, <2>6, PrmsStay DEF PrmsInv
<1>7. ASSUME NEW p \in Proc, Reply(p) PROVE PrmsInv'
  <2>1. pc[p] = "reply" /\ p \in Thread /\ UNCHANGED <<mbx, held>>
    BY <1>7, Threads DEF Reply, links
  <2>2. \A b \in Thread : (pc'[b] = pc[b] /\ req'[b] = req[b]) \/ pc'[b] = "idle"
    BY <1>0, <1>7, <2>1 DEF Reply, TypeOK
  <2>3. \A m \in Msg : heap'[m] = heap[m] \/ heap'[m] = Free
    BY <1>0, <1>7 DEF Reply, TypeOK
  <2>4. ~Free.cmd.prm
    BY DEF Free, NoCommand
  <2>5. \A q \in Proc : pc[q] = "link" => ptr'[q] = ptr[q]
    BY <1>0, <1>7, <2>1, Threads DEF Reply, TypeOK
  <2> QED BY <2>1, <2>2, <2>3, <2>4, <2>5, PrmsStay DEF PrmsInv
<1>8. ASSUME UNCHANGED vars PROVE PrmsInv'
  <2>1. UNCHANGED <<pc, req, ptr, heap, mbx, held>>
    BY <1>8 DEF vars, threads, queues, links
  <2> QED BY <2>1, PrmsStay DEF PrmsInv
<1> QED
  BY <1>1, <1>2, <1>3, <1>4, <1>5, <1>6, <1>7, <1>8, PostPrms, LinkPrms DEF Next, Step, Caller

\* If nobody sends parameters without waiting, then in every reachable state
\* the parameters a link has still to read are there: on the stack of a
\* caller that waits, or in a message of the heap that is still in use for
\* this very command.
THEOREM PrmsKept == ASSUME WaitsWithPrms PROVE Spec => []PrmsIntact
<1>1. Init => PrmsInv
  BY Threads, EmptyQueue DEF Init, PrmsInv, NoEntry, NoCommand, Free
<1>2. MsgQInv /\ PrmsInv /\ [Next]_vars => PrmsInv'
  BY PrmsStep
<1>3. MsgQInv /\ PrmsInv => PrmsIntact
  <2> SUFFICES ASSUME MsgQInv, PrmsInv, NEW l \in Link, NEW e \in Entries(l), e.cmd.prm
               PROVE  IF e.msg = NoMsg THEN e.from # NoThread ELSE heap[e.msg].cmd = e.cmd
    BY DEF PrmsIntact
  <2>1. e \in Range(mbx[l]) \cup {held[l]}
    BY DEF Entries, Range
  <2>2. e.from # NoThread /\ (e.msg # NoMsg => e.from \in Proc /\ ptr[e.from] = e.msg)
    BY <2>1 DEF PrmsInv
  <2>3. pc[e.from] = "link" /\ req[e.from] = e.cmd
    BY <2>1, <2>2 DEF MsgQInv, EntriesInv
  <2> QED BY <2>2, <2>3 DEF MsgQInv, HeapInv
<1> QED
  BY <1>1, <1>2, <1>3, Inductive, PTL DEF Spec

-----------------------------------------------------------------------------
(* Circles of threads that wait.  Whoever waits, waits for a processor's    *)
(* lock, the host's mutex, a MsgQ task or a link; if these can be put in an *)
(* order in which everything is held by threads that wait for what is below *)
(* it only, there is no circle.                                             *)

\* What a thread may send: its requests, and what its create asks.
Sends(t) == Requests[t] \cup
            {GetInfo(l) : l \in {k \in Link : k = t /\ Prev[k] # NoThread
                                              /\ LinkProc[Prev[k]] # LinkProc[k]}}
\* What the MsgQ task of p may have to carry out.
Carried(p) == {r \in Command : \E t \in Caller : /\ r \in Sends(t) /\ Remote(t, r)
                                                 /\ LinkProc[r.to] = p}
\* What a thread may give a link of its own processor and wait for.
Posted(x) == IF x \in Proc THEN {r \in Carried(x) : r.ack /\ r.cmd # "getInfo"}
             ELSE {r \in Sends(x) : r.ack /\ ~Remote(x, r)}

\* Such an order: the lower, the sooner it is given back.
Ordered(rank, lockRank, mutexRank) ==
    /\ rank \in [Link \cup Proc -> Nat] /\ lockRank \in [Proc -> Nat] /\ mutexRank \in Nat
    /\ \A t \in Caller : \A r \in Sends(t) : Remote(t, r) =>
          /\ t \in Link => lockRank[Home(t)] < rank[t]
          /\ r.ack => rank[LinkProc[r.to]] < lockRank[Home(t)]
    /\ \A x \in Thread : \A r \in Posted(x) :
          /\ x \notin App => rank[r.to] < rank[x]
          /\ Home(x) = Host => /\ rank[r.to] < mutexRank
                               /\ x \notin App => mutexRank < rank[x]

\* Where the command of a thread comes from, and who holds the lock and the mutex.
CallerWaits(t) == pc[t] # "idle" =>
                     /\ req[t] \in Sends(t)
                     /\ Remote(t, req[t]) <=> pc[t] \in {"lock", "send", "ack"}
TaskWaits(p) == pc[p] # "idle" =>
                   /\ req[p] \in Carried(p)
                   /\ pc[p] = "reply" \/ req[p].cmd # "getInfo"
MutexWaits(t) == /\ pc[t] = "mutex" => Home(t) = Host /\ req[t].ack
                 /\ mutex = t => /\ Home(t) = Host /\ req[t].ack
                                 /\ pc[t] \in {"post", "link", "answered"}
WaitsInv ==
    /\ \A t \in Caller : CallerWaits(t)
    /\ \A p \in Proc : /\ TaskWaits(p)
                       /\ \A m \in Range(recvQ[p]) : heap[m].cmd \in Carried(p)
                       /\ lock[p] # NoThread => /\ Home(lock[p]) = p
                                                /\ pc[lock[p]] \in {"send", "ack"}
    /\ \A t \in Thread : MutexWaits(t)

LEMMA SendsCommands ==
    ASSUME NEW t \in Caller, NEW r \in Sends(t)
    PROVE  r \in Command /\ r.to \in Link /\ LinkProc[r.to] \in Proc
<1>1. CASE r \in Requests[t]
  BY <1>1, RequestAssumption, ProcAssumption DEF Caller, Command
<1>2. CASE r \notin Requests[t]
  <2>1. PICK l \in Link : r = GetInfo(l) /\ Prev[l] # NoThread
    BY <1>2 DEF Sends
  <2>2. Prev[l] \in Link
    BY <2>1, LinkAssumption
  <2> QED BY <2>1, <2>2, ProcAssumption DEF GetInfo, Command, Cmd
<1> QED
  BY <1>1, <1>2

\* A thread goes on; the command it has in hand stays the one it had, or is
\* another it may send.
LEMMA WaitsStay ==
    ASSUME MsgQInv, WaitsInv, NEW t \in Thread,
           \A u \in Thread \ {t} : pc'[u] = pc[u] /\ req'[u] = req[u],
           (t \in Caller => CallerWaits(t)') /\ (t \in Proc => TaskWaits(t)'),
           \A p \in Proc : \A m \in Range(recvQ'[p]) : heap'[m].cmd \in Carried(p),
           \A p \in Proc : lock'[p] = lock[p] \/ lock'[p] = NoThread \/ (lock'[p] = t /\ Home(t) = p),
           (\E p \in Proc : lock'[p] = t) => pc'[t] \in {"send", "ack"},
           MutexWaits(t)', mutex' \in {mutex, t, NoThread}
    PROVE  WaitsInv'
<1>1. ASSUME NEW u \in Caller PROVE CallerWaits(u)'
  BY Threads DEF WaitsInv, CallerWaits
<1>2. ASSUME NEW p \in Proc PROVE TaskWaits(p)'
  BY Threads DEF WaitsInv, TaskWaits
<1>3. ASSUME NEW p \in Proc, lock'[p] # NoThread
      PROVE  Home(lock'[p]) = p /\ pc'[lock'[p]] \in {"send", "ack"}
  <2>1. CASE lock'[p] = t
    BY <1>3, <2>1 DEF WaitsInv
  <2>2. CASE lock'[p] # t
    <3>1. lock'[p] = lock[p] /\ lock[p] \in Thread
      BY <1>3, <2>2 DEF MsgQInv, OwnInv, TypeOK, Thread
    <3> QED BY <1>3, <2>2, <3>1 DEF WaitsInv
  <2> QED BY <2>1, <2>2
<1>4. ASSUME NEW u \in Thread PROVE MutexWaits(u)'
  BY Threads DEF WaitsInv, MutexWaits
<1> QED
  BY <1>1, <1>2, <1>3, <1>4 DEF WaitsInv

\* A message in a queue is not touched.
LEMMA QueuedStays ==
    ASSUME MsgQInv, WaitsInv, UNCHANGED recvQ,
           \A m \in Msg : heap[m] # Free => heap'[m].cmd = heap[m].cmd \/
                             \A p \in Proc : m \notin Range(recvQ[p]),
           NEW p \in Proc, NEW m \in Range(recvQ'[p])
    PROVE  heap'[m].cmd \in Carried(p)
<1>1. m \in Range(recvQ[p]) /\ recvQ[p] \in Seq(Msg)
  BY DEF MsgQInv, OwnInv, TypeOK
<1>2. m \in Msg
  BY <1>1 DEF Range
<1>3. heap[m] # Free
  BY <1>1, <1>2, OneHand DEF MsgQInv
<1> QED
  BY <1>1, <1>2, <1>3 DEF WaitsInv

LEMMA WaitsStep == ASSUME MsgQInv, WaitsInv, [Next]_vars PROVE WaitsInv'
<1>0. /\ TypeOK /\ Caller \subseteq Thread /\ Proc \subseteq Thread
      /\ pc \in [Thread -> Pc] /\ lock \in [Proc -> App \cup Link \cup {NoThread}]
  BY DEF MsgQInv, OwnInv, TypeOK, Caller, Thread
<1>1. ASSUME NEW t \in Caller, NEW r \in Sends(t), Call(t, r), pc[t] = "idle",
             UNCHANGED <<heap, recvQ, lock, mutex>>
      PROVE  WaitsInv'
  <2>1. /\ pc'[t] = (IF Remote(t, r) THEN "lock" ELSE LocalPc(t, r)) /\ req'[t] = r
        /\ \A u \in Thread \ {t} : pc'[u] = pc[u] /\ req'[u] = req[u]
    BY <1>0, <1>1 DEF Call, TypeOK
  <2>2. CallerWaits(t)' /\ t \notin Proc
    BY <1>1, <2>1, Threads DEF CallerWaits, LocalPc, Remote
  <2>3. MutexWaits(t)' /\ mutex # t
    BY <1>0, <1>1, <2>1 DEF MutexWaits, LocalPc, WaitsInv
  <2>4. \A p \in Proc : lock'[p] # t
    BY <1>0, <1>1, Threads DEF WaitsInv
  <2>5. \A p \in Proc : \A m \in Range(recvQ'[p]) : heap'[m].cmd \in Carried(p)
    BY <1>1 DEF WaitsInv
  <2> QED BY <1>0, <1>1, <2>1, <2>2, <2>3, <2>4, <2>5, WaitsStay
<1>2. ASSUME NEW t \in Caller, NEW r \in Requests[t], Begin(t, r) PROVE WaitsInv'
  BY <1>1, <1>2 DEF Begin, Sends, queues, locks
<1>3. ASSUME NEW t \in Thread, PendLock(t) PROVE WaitsInv'
  <2>1. t \in Caller /\ t \notin Proc
    BY <1>3, Threads DEF PendLock, MsgQInv, ThreadsInv
  <2>2. /\ pc[t] = "lock" /\ pc'[t] = "send" /\ UNCHANGED <<req, heap, recvQ, mutex>>
        /\ \A u \in Thread \ {t} : pc'[u] = pc[u]
    BY <1>0, <1>3 DEF PendLock, queues
  <2>3. \A p \in Proc : lock'[p] = lock[p] \/ (lock'[p] = t /\ Home(t) = p)
    BY <1>0, <1>3 DEF PendLock
  <2>4. CallerWaits(t)' /\ MutexWaits(t)'
    BY <1>0, <2>1, <2>2 DEF WaitsInv, CallerWaits, MutexWaits, Remote
  <2>5. \A p \in Proc : \A m \in Range(recvQ'[p]) : heap'[m].cmd \in Carried(p)
    BY <2>2 DEF WaitsInv
  <2> QED BY <2>1, <2>2, <2>3, <2>4, <2>5, WaitsStay
<1>4. ASSUME NEW t \in Thread, Send(t) PROVE WaitsInv'
  <2>1. PICK m \in Msg :
           /\ heap[m] = Free /\ pc[t] = "send"
           /\ heap' = [heap EXCEPT ![m] = [cmd |-> req[t], reply |-> Home(t), done |-> FALSE]]
           /\ recvQ' = [recvQ EXCEPT ![LinkProc[req[t].to]] = Append(@, m)]
           /\ \/ /\ req[t].ack /\ pc' = [pc EXCEPT ![t] = "ack"]
                 /\ ptr' = [ptr EXCEPT ![t] = m] /\ UNCHANGED <<req, lock>>
              \/ ~req[t].ack /\ ReturnFrom(t) /\ ptr' = ptr
           /\ UNCHANGED <<mutex, ackQ, links>>
    BY <1>4, SendTakes
  <2>2. t \in Caller /\ t \notin Proc
    BY <2>1, Threads DEF MsgQInv, ThreadsInv
  <2>3. req[t] \in Sends(t) /\ Remote(t, req[t])
    BY <2>1, <2>2 DEF WaitsInv, CallerWaits
  <2>4. PICK q \in Proc : q = LinkProc[req[t].to] /\ req[t] \in Carried(q)
    BY <2>2, <2>3, SendsCommands DEF Carried
  <2>5. \A p \in Proc : \A n \in Range(recvQ'[p]) : heap'[n].cmd \in Carried(p)
    <3> SUFFICES ASSUME NEW p \in Proc, NEW n \in Range(recvQ'[p]) PROVE heap'[n].cmd \in Carried(p)
      OBVIOUS
    <3>1. \A o \in Proc : recvQ[o] \in Seq(Msg) /\ Range(recvQ[o]) \subseteq Msg
      BY <1>0 DEF TypeOK, Range
    <3>2. Range(Append(recvQ[q], m)) = Range(recvQ[q]) \cup {m}
      BY <3>1, QueueAppend
    <3>3. n \in Range(recvQ[p]) \/ (n = m /\ p = q)
      BY <1>0, <2>1, <2>4, <3>2 DEF TypeOK
    <3>4. CASE n \in Range(recvQ[p])
      <4>1. n # m
        BY <2>1, <3>4, OneHand DEF MsgQInv
      <4>2. heap'[n] = heap[n]
        BY <1>0, <2>1, <3>1, <3>4, <4>1 DEF TypeOK
      <4> QED BY <3>4, <4>2 DEF WaitsInv
    <3>5. CASE n = m /\ p = q
      BY <1>0, <2>1, <2>4, <3>5 DEF TypeOK
    <3> QED BY <3>3, <3>4, <3>5
  <2>6. /\ \A u \in Thread \ {t} : pc'[u] = pc[u] /\ req'[u] = req[u]
        /\ pc'[t] = "idle" \/ (pc'[t] = "ack" /\ req'[t] = req[t])
        /\ \A p \in Proc : lock'[p] = lock[p] \/ lock'[p] = NoThread
        /\ pc'[t] = "idle" => lock'[Home(t)] = NoThread
    <3>1. Home(t) \in Proc
      BY Threads
    <3>2. CASE pc' = [pc EXCEPT ![t] = "ack"] /\ UNCHANGED <<req, lock>>
      BY <1>0, <3>2
    <3>3. CASE ReturnFrom(t)
      BY <1>0, <3>1, <3>3 DEF ReturnFrom, TypeOK
    <3> QED BY <2>1, <3>2, <3>3
  <2>7. CallerWaits(t)' /\ MutexWaits(t)'
    <3>1. mutex # t
      BY <2>1 DEF WaitsInv, MutexWaits
    <3>2. CallerWaits(t)'
      BY <2>3, <2>6 DEF CallerWaits, Remote
    <3> QED BY <2>1, <2>6, <3>1, <3>2 DEF MutexWaits
  <2>8. (\E p \in Proc : lock'[p] = t) => pc'[t] \in {"send", "ack"}
    <3> SUFFICES ASSUME NEW p \in Proc, lock'[p] = t, pc'[t] = "idle" PROVE FALSE
      BY <2>6
    <3>1. lock[p] = t
      BY <2>6, Threads
    <3>2. Home(t) = p
      BY <3>1, Threads DEF WaitsInv
    <3> QED BY <2>6, <3>2, Threads
  <2> QED BY <2>1, <2>2, <2>5, <2>6, <2>7, <2>8, WaitsStay
<1>5. ASSUME NEW t \in Thread, GetAck(t) PROVE WaitsInv'
  <2>1. /\ pc[t] = "ack" /\ ReturnFrom(t) /\ ackQ[Home(t)] # <<>>
        /\ heap' = [heap EXCEPT ![Head(ackQ[Home(t)])] = Free] /\ UNCHANGED <<recvQ, mutex>>
    BY <1>5 DEF GetAck
  <2>2. t \in Caller /\ t \notin Proc /\ Home(t) \in Proc
    BY <2>1, Threads DEF MsgQInv, ThreadsInv
  <2>3. PICK a \in Msg : a = Head(ackQ[Home(t)]) /\ a \in Range(ackQ[Home(t)])
    BY <1>0, <2>1, <2>2, QueueTake DEF TypeOK
  <2>4. \A p \in Proc : a \notin Range(recvQ[p])
    BY <2>2, <2>3, OneHand DEF MsgQInv
  <2>5. \A p \in Proc : \A m \in Range(recvQ'[p]) : heap'[m].cmd \in Carried(p)
    <3>1. \A m \in Msg \ {a} : heap'[m] = heap[m]
      BY <1>0, <2>1, <2>3 DEF TypeOK
    <3> QED BY <2>1, <2>4, <3>1, QueuedStays
  <2>6. /\ \A u \in Thread \ {t} : pc'[u] = pc[u] /\ req'[u] = req[u]
        /\ pc'[t] = "idle"
        /\ \A p \in Proc : lock'[p] = lock[p] \/ lock'[p] = NoThread
        /\ lock'[Home(t)] = NoThread
    BY <1>0, <2>1, Threads DEF ReturnFrom, TypeOK
  <2>7. CallerWaits(t)' /\ MutexWaits(t)'
    BY <2>1, <2>6 DEF WaitsInv, CallerWaits, MutexWaits
  <2>8. ASSUME NEW p \in Proc, lock'[p] = t PROVE FALSE
    <3>1. lock[p] = t
      BY <2>6, <2>8, Threads
    <3>2. Home(t) = p
      BY <3>1, Threads DEF WaitsInv
    <3> QED BY <2>6, <2>8, <3>2, Threads
  <2> QED BY <2>1, <2>2, <2>5, <2>6, <2>7, <2>8, WaitsStay
<1>6. ASSUME NEW t \in Thread, LockMutex(t) PROVE WaitsInv'
  <2>1. /\ pc[t] = "mutex" /\ pc'[t] = "post" /\ mutex' = t
        /\ UNCHANGED <<req, lock, recvQ, heap>>
        /\ \A u \in Thread \ {t} : pc'[u] = pc[u]
    BY <1>0, <1>6 DEF LockMutex, queues
  <2>2. MutexWaits(t)'
    BY <2>1 DEF WaitsInv, MutexWaits
  <2>3. (t \in Caller => CallerWaits(t)') /\ (t \in Proc => TaskWaits(t)')
    BY <2>1 DEF WaitsInv, CallerWaits, TaskWaits, Remote
  <2>4. ASSUME NEW p \in Proc, lock[p] = t PROVE FALSE
    BY <2>1, <2>4, Threads DEF WaitsInv
  <2>5. \A p \in Proc : \A m \in Range(recvQ'[p]) : heap'[m].cmd \in Carried(p)
    BY <2>1 DEF WaitsInv
  <2> QED BY <2>1, <2>2, <2>3, <2>4, <2>5, WaitsStay
<1>7. ASSUME NEW t \in Thread, Post(t) PROVE WaitsInv'
  <2>1. /\ pc[t] = "post" /\ UNCHANGED <<req, lock, mutex, recvQ, heap>>
        /\ pc'[t] = IF req[t].ack THEN "link" ELSE IF t \in Proc THEN "reply" ELSE "idle"
        /\ \A u \in Thread \ {t} : pc'[u] = pc[u]
    BY <1>0, <1>7 DEF Post, locks, queues
  <2>2. MutexWaits(t)'
    BY <2>1 DEF WaitsInv, MutexWaits
  <2>3. (t \in Caller => CallerWaits(t)') /\ (t \in Proc => TaskWaits(t)')
    BY <2>1, Threads DEF WaitsInv, CallerWaits, TaskWaits, Remote
  <2>4. ASSUME NEW p \in Proc, lock[p] = t PROVE FALSE
    BY <2>1, <2>4, Threads DEF WaitsInv
  <2>5. \A p \in Proc : \A m \in Range(recvQ'[p]) : heap'[m].cmd \in Carried(p)
    BY <2>1 DEF WaitsInv
  <2> QED BY <2>1, <2>2, <2>3, <2>4, <2>5, WaitsStay
<1>8. ASSUME NEW t \in Thread, Answered(t) PROVE WaitsInv'
  <2>1. /\ pc[t] = "answered" /\ UNCHANGED <<lock, recvQ, ptr>>
        /\ mutex' = IF mutex = t THEN NoThread ELSE mutex
        /\ t \in Proc => pc'[t] = "reply" /\ heap' = [heap EXCEPT ![ptr[t]].done = TRUE] /\ req' = req
        /\ t \notin Proc => pc'[t] = "idle" /\ heap' = heap
        /\ \A u \in Thread \ {t} : pc'[u] = pc[u] /\ req'[u] = req[u]
    BY <1>0, <1>8 DEF Answered, TypeOK
  <2>2. MutexWaits(t)'
    BY <2>1, Threads DEF MutexWaits
  <2>3. (t \in Caller => CallerWaits(t)') /\ (t \in Proc => TaskWaits(t)')
    BY <2>1, Threads DEF WaitsInv, CallerWaits, TaskWaits
  <2>4. ASSUME NEW p \in Proc, lock[p] = t PROVE FALSE
    BY <2>1, <2>4, Threads DEF WaitsInv
  <2>5. \A m \in Msg : heap'[m].cmd = heap[m].cmd
    <3>1. CASE t \in Proc
      <4>1. PICK m \in Msg : m = ptr[t]
        BY <1>0, <2>1, <3>1 DEF TypeOK, MsgQInv, ThreadsInv
      <4>2. heap' = [heap EXCEPT ![m].done = TRUE]
        BY <2>1, <3>1, <4>1
      <4> QED BY <1>0, <4>2, DoneKeepsCmd
    <3> QED BY <2>1, <3>1
  <2>6. \A p \in Proc : \A m \in Range(recvQ'[p]) : heap'[m].cmd \in Carried(p)
    BY <2>1, <2>5, QueuedStays
  <2> QED BY <2>1, <2>2, <2>3, <2>4, <2>6, WaitsStay
<1>9. ASSUME NEW p \in Proc, GetMsg(p) PROVE WaitsInv'
  <2>1. recvQ[p] \in Seq(Msg) /\ recvQ[p] # <<>> /\ pc[p] = "idle"
    BY <1>0, <1>9 DEF GetMsg, TypeOK
  <2>2. PICK m \in Msg : m = Head(recvQ[p]) /\ m \in Range(recvQ[p])
    BY <2>1, QueueTake
  <2>3. heap[m].cmd \in Carried(p)
    BY <2>2 DEF WaitsInv
  <2>4. /\ recvQ' = [recvQ EXCEPT ![p] = Tail(recvQ[p])]
        /\ heap' = [heap EXCEPT ![m].done = TRUE] \/ heap' = heap
        /\ req'[p] = heap[m].cmd
        /\ pc'[p] = IF heap[m].cmd.cmd = "getInfo" THEN "reply" ELSE LocalPc(p, heap[m].cmd)
        /\ UNCHANGED <<lock, mutex>>
        /\ \A u \in Thread \ {p} : pc'[u] = pc[u] /\ req'[u] = req[u]
    BY <1>0, <1>9, <2>2 DEF GetMsg, TypeOK, locks
  <2>5. TaskWaits(p)' /\ p \notin Caller
    BY <2>3, <2>4, Threads DEF TaskWaits
  <2>6. MutexWaits(p)'
    <3>1. mutex # p
      BY <1>0, <2>1 DEF WaitsInv, MutexWaits
    <3> QED BY <2>4, <3>1 DEF MutexWaits, LocalPc
  <2>7. ASSUME NEW o \in Proc, lock[o] = p PROVE FALSE
    BY <1>0, <2>1, <2>7, Threads DEF WaitsInv
  <2>8. \A o \in Proc : \A n \in Range(recvQ'[o]) : heap'[n].cmd \in Carried(o)
    <3> SUFFICES ASSUME NEW o \in Proc, NEW n \in Range(recvQ'[o]) PROVE heap'[n].cmd \in Carried(o)
      OBVIOUS
    <3>1. n \in Range(recvQ[o]) /\ n \in Msg
      <4>1. Range(Tail(recvQ[p])) \subseteq Range(recvQ[p])
        BY <2>1, QueueTake
      <4>2. n \in Range(recvQ[o]) /\ recvQ[o] \in Seq(Msg)
        BY <1>0, <2>4, <4>1 DEF TypeOK
      <4> QED BY <4>2 DEF Range
    <3>2. heap'[n].cmd = heap[n].cmd
      BY <1>0, <2>4, <3>1, DoneKeepsCmd
    <3> QED BY <3>1, <3>2 DEF WaitsInv
  <2> QED BY <1>0, <2>4, <2>5, <2>6, <2>7, <2>8, WaitsStay
<1>10. ASSUME NEW p \in Proc, Reply(p) PROVE WaitsInv'
  <2>1. /\ pc[p] = "reply" /\ pc'[p] = "idle" /\ UNCHANGED <<recvQ, lock, mutex>>
        /\ heap' = [heap EXCEPT ![ptr[p]] = Free] \/ heap' = heap
        /\ \A u \in Thread \ {p} : pc'[u] = pc[u] /\ req'[u] = req[u]
    BY <1>0, <1>10 DEF Reply, TypeOK, locks
  <2>2. PICK m \in Msg : m = ptr[p]
    BY <1>0, <2>1 DEF TypeOK, MsgQInv, ThreadsInv
  <2>3. \A o \in Proc : m \notin Range(recvQ[o])
    BY <2>2, OneHand DEF MsgQInv
  <2>4. \A n \in Msg \ {m} : heap'[n] = heap[n]
    BY <1>0, <2>1, <2>2 DEF TypeOK
  <2>5. \A o \in Proc : \A n \in Range(recvQ'[o]) : heap'[n].cmd \in Carried(o)
    BY <2>1, <2>3, <2>4, QueuedStays
  <2>6. TaskWaits(p)' /\ MutexWaits(p)' /\ p \notin Caller
    BY <1>0, <2>1, Threads DEF WaitsInv, TaskWaits, MutexWaits
  <2>7. ASSUME NEW o \in Proc, lock[o] = p PROVE FALSE
    BY <1>0, <2>1, <2>7, Threads DEF WaitsInv
  <2> QED BY <1>0, <2>1, <2>5, <2>6, <2>7, WaitsStay
<1>11. ASSUME NEW l \in Link, Take(l) PROVE WaitsInv'
  <2>1. UNCHANGED <<heap, recvQ, lock, mutex>> /\ pc[l] = "idle" /\ l \in Caller
    BY <1>11 DEF Take, queues, locks, Caller
  <2>2. CASE AsksPrev(l, Head(mbx[l]).cmd.cmd)
    <3>1. Call(l, GetInfo(l)) /\ GetInfo(l) \in Sends(l)
      BY <1>11, <2>2 DEF Take, AsksPrev, Sends
    <3> QED BY <1>1, <2>1, <3>1
  <2>3. CASE ~AsksPrev(l, Head(mbx[l]).cmd.cmd)
    <3>1. UNCHANGED <<pc, req>>
      BY <1>11, <2>3 DEF Take
    <3> QED BY <2>1, <3>1 DEF WaitsInv, CallerWaits, TaskWaits, MutexWaits, Carried, Remote
  <2> QED BY <2>2, <2>3
<1>12. ASSUME NEW l \in Link, Answer(l) PROVE WaitsInv'
  <2>1. UNCHANGED <<heap, recvQ, lock, mutex, req>>
    BY <1>12 DEF Answer, queues, locks
  <2>2. CASE held[l].from = NoThread
    <3>1. UNCHANGED pc
      BY <1>12, <2>2 DEF Answer
    <3> QED BY <2>1, <3>1 DEF WaitsInv, CallerWaits, TaskWaits, MutexWaits, Carried, Remote
  <2>3. CASE held[l].from # NoThread
    <3>1. PICK t \in Thread : t = held[l].from
      BY <1>0, <2>3, Threads DEF TypeOK, Entry
    <3>2. pc'[t] = "answered" /\ \A u \in Thread \ {t} : pc'[u] = pc[u]
      BY <1>0, <1>12, <2>3, <3>1 DEF Answer
    <3>3. pc[t] = "link"
      BY <2>3, <3>1 DEF MsgQInv, EntriesInv
    <3>4. (t \in Caller => CallerWaits(t)') /\ (t \in Proc => TaskWaits(t)')
      BY <2>1, <3>2, <3>3 DEF WaitsInv, CallerWaits, TaskWaits, Remote
    <3>5. MutexWaits(t)'
      BY <2>1, <3>2, <3>3 DEF WaitsInv, MutexWaits
    <3>6. ASSUME NEW p \in Proc, lock[p] = t PROVE FALSE
      BY <3>3, <3>6, Threads DEF WaitsInv
    <3>7. \A p \in Proc : \A m \in Range(recvQ'[p]) : heap'[m].cmd \in Carried(p)
      BY <2>1 DEF WaitsInv
    <3> QED BY <2>1, <3>2, <3>4, <3>5, <3>6, <3>7, WaitsStay
  <2> QED BY <2>2, <2>3
<1>13. ASSUME UNCHANGED vars PROVE WaitsInv'
  BY <1>13 DEF vars, threads, locks, queues, WaitsInv, CallerWaits, TaskWaits, MutexWaits, Carried, Remote
<1> QED
  BY <1>2, <1>3, <1>4, <1>5, <1>6, <1>7, <1>8, <1>9, <1>10, <1>11, <1>12, <1>13
     DEF Next, Step, Caller

\* Where a thread waits, named by its rank.
WaitRank(rank, lockRank, mutexRank, t) ==
    CASE pc[t] = "lock"  -> lockRank[Home(t)]
      [] pc[t] = "mutex" -> mutexRank
      [] pc[t] = "ack"   -> rank[LinkProc[req[t].to]]
      [] pc[t] = "link"  -> rank[req[t].to]
      [] OTHER           -> 0

\* What a thread that waits in the handling of a command can be waiting for.
LEMMA PostedByWho ==
    ASSUME MsgQInv, WaitsInv, NEW t \in Thread, pc[t] \in {"mutex", "link"}, req[t].ack
    PROVE  req[t] \in Posted(t)
<1>1. CASE t \in Caller
  BY <1>1, Threads DEF WaitsInv, CallerWaits, Posted
<1>2. CASE t \in Proc
  BY <1>2 DEF WaitsInv, TaskWaits, Posted
<1> QED
  BY <1>1, <1>2, Threads

\* Who is waited for waits further down, if he waits.
LEMMA WaitsFurtherDown ==
    ASSUME NEW rank, NEW lockRank, NEW mutexRank, Ordered(rank, lockRank, mutexRank),
           MsgQInv, WaitsInv, NEW t \in Thread, NEW u \in Thread,
           WaitsFor(t) = u, WaitsFor(u) # NoThread
    PROVE  WaitRank(rank, lockRank, mutexRank, u) < WaitRank(rank, lockRank, mutexRank, t)
<1> DEFINE R(x) == WaitRank(rank, lockRank, mutexRank, x)
<1>0. /\ TypeOK /\ pc[t] \in {"lock", "mutex", "ack", "link"} /\ pc[u] \in {"lock", "mutex", "ack", "link"}
      /\ u # NoThread
  BY Threads DEF MsgQInv, OwnInv, WaitsFor
<1>1. CASE pc[t] = "lock"
  <2>1. t \in Caller /\ Home(t) \in Proc /\ lock[Home(t)] = u
    BY <1>1, Threads DEF MsgQInv, ThreadsInv, WaitsFor
  <2>2. Home(u) = Home(t) /\ pc[u] = "ack" /\ u \in Caller
    BY <1>0, <2>1 DEF WaitsInv, TypeOK, Caller
  <2>3. req[u] \in Sends(u) /\ Remote(u, req[u]) /\ req[u].ack
    BY <1>0, <2>2 DEF WaitsInv, CallerWaits, MsgQInv, ThreadsInv
  <2>4. rank[LinkProc[req[u].to]] < lockRank[Home(u)]
    BY <2>2, <2>3 DEF Ordered
  <2> QED BY <1>1, <2>2, <2>4 DEF WaitRank
<1>2. CASE pc[t] = "mutex"
  <2>1. mutex = u
    BY <1>2 DEF WaitsFor
  <2>2. Home(u) = Host /\ pc[u] = "link" /\ req[u].ack
    BY <1>0, <2>1 DEF WaitsInv, MutexWaits
  <2>3. rank[req[u].to] < mutexRank
    BY <2>2, PostedByWho DEF Ordered
  <2> QED BY <1>2, <2>2, <2>3 DEF WaitRank
\* A thread below t that handles a command: the MsgQ task or the link.
<1>3. ASSUME u \notin App, NEW n, n = rank[u], R(t) = n PROVE R(u) < R(t)
  <2>1. CASE pc[u] = "lock"
    <3>1. u \in Caller /\ u \in Link
      BY <1>3, <2>1, Threads DEF MsgQInv, ThreadsInv, Caller
    <3>2. req[u] \in Sends(u) /\ Remote(u, req[u])
      BY <2>1, <3>1 DEF WaitsInv, CallerWaits
    <3>3. lockRank[Home(u)] < rank[u]
      BY <3>1, <3>2 DEF Ordered
    <3> QED BY <1>3, <2>1, <3>3 DEF WaitRank
  <2>2. CASE pc[u] = "ack"
    <3>1. u \in Caller /\ u \in Link /\ Home(u) \in Proc
      BY <1>3, <2>2, Threads DEF MsgQInv, ThreadsInv, Caller
    <3>2. req[u] \in Sends(u) /\ Remote(u, req[u]) /\ req[u].ack
      BY <2>2, <3>1 DEF WaitsInv, CallerWaits, MsgQInv, ThreadsInv
    <3>3. lockRank[Home(u)] < rank[u] /\ rank[LinkProc[req[u].to]] < lockRank[Home(u)]
      BY <3>1, <3>2 DEF Ordered
    <3>4. LinkProc[req[u].to] \in Proc
      BY <3>1, <3>2, SendsCommands
    <3>5. lockRank[Home(u)] \in Nat /\ rank[u] \in Nat /\ rank[LinkProc[req[u].to]] \in Nat
      BY <3>1, <3>4 DEF Ordered
    <3> QED BY <1>3, <2>2, <3>3, <3>5 DEF WaitRank
  <2>3. CASE pc[u] = "mutex"
    <3>1. Home(u) = Host /\ req[u].ack
      BY <2>3 DEF WaitsInv, MutexWaits
    <3>2. mutexRank < rank[u]
      BY <1>3, <2>3, <3>1, PostedByWho DEF Ordered
    <3> QED BY <1>3, <2>3, <3>2 DEF WaitRank
  <2>4. CASE pc[u] = "link"
    <3>1. req[u].ack
      BY <2>4 DEF MsgQInv, ThreadsInv
    <3>2. rank[req[u].to] < rank[u]
      BY <1>3, <2>4, <3>1, PostedByWho DEF Ordered
    <3> QED BY <1>3, <2>4, <3>2 DEF WaitRank
  <2> QED BY <1>0, <2>1, <2>2, <2>3, <2>4
<1>4. CASE pc[t] = "ack"
  <2>1. t \in Caller /\ req[t] \in Sends(t)
    BY <1>4, Threads DEF MsgQInv, ThreadsInv, WaitsInv, CallerWaits
  <2>2. u = LinkProc[req[t].to] /\ u \in Proc
    BY <1>0, <1>4, <2>1, SendsCommands DEF WaitsFor
  <2>3. u \notin App
    BY <2>2, ThreadAssumption
  <2> QED BY <1>3, <1>4, <2>2, <2>3 DEF WaitRank
<1>5. CASE pc[t] = "link"
  <2>1. u = req[t].to /\ req[t] \in Command
    BY <1>5 DEF WaitsFor, MsgQInv, ThreadsInv
  <2>2. u \notin App
    BY <2>1, ThreadAssumption DEF Command
  <2> QED BY <1>3, <1>5, <2>1, <2>2 DEF WaitRank
<1> QED
  BY <1>0, <1>1, <1>2, <1>4, <1>5

LEMMA WaitRankNat ==
    ASSUME NEW rank, NEW lockRank, NEW mutexRank, Ordered(rank, lockRank, mutexRank),
           MsgQInv, WaitsInv, NEW t \in Thread
    PROVE  WaitRank(rank, lockRank, mutexRank, t) \in Nat
<1>1. CASE pc[t] = "lock"
  BY <1>1, Threads DEF WaitRank, Ordered
<1>2. CASE pc[t] = "ack"
  <2>1. t \in Caller /\ req[t] \in Sends(t)
    BY <1>2, Threads DEF MsgQInv, ThreadsInv, WaitsInv, CallerWaits
  <2>2. LinkProc[req[t].to] \in Proc
    BY <2>1, SendsCommands
  <2> QED BY <1>2, <2>2 DEF WaitRank, Ordered
<1>3. CASE pc[t] = "link"
  <2>1. req[t].to \in Link
    BY <1>3 DEF MsgQInv, ThreadsInv, Command
  <2> QED BY <1>3, <2>1 DEF WaitRank, Ordered
<1>4. CASE pc[t] \notin {"lock", "ack", "link"}
  BY <1>4 DEF WaitRank, Ordered
<1> QED
  BY <1>1, <1>2, <1>3, <1>4

THEOREM WaitsInvariant == Spec => []WaitsInv
<1>1. Init => WaitsInv
  BY Threads, EmptyQueue DEF Init, WaitsInv, CallerWaits, TaskWaits, MutexWaits, Caller, Thread
<1>2. MsgQInv /\ WaitsInv /\ [Next]_vars => WaitsInv'
  BY WaitsStep
<1> QED
  BY <1>1, <1>2, Inductive, PTL DEF Spec

\* If what threads wait for can be put in an order, no threads wait for each
\* other in a circle, whatever the processors, the threads and the links are.
THEOREM AlwaysNoWaitCycle ==
    ASSUME NEW CONSTANT rank, NEW CONSTANT lockRank, NEW CONSTANT mutexRank,
           Ordered(rank, lockRank, mutexRank)
    PROVE  Spec => []NoWaitCycle
<1>1. MsgQInv /\ WaitsInv => NoWaitCycle
  <2> DEFINE waits == [t \in Thread |-> WaitsFor(t)]
             blocked == {t \in Thread : waits[t] # NoThread}
             R(x) == WaitRank(rank, lockRank, mutexRank, x)
  <2> SUFFICES ASSUME MsgQInv, WaitsInv, NEW S \in SUBSET blocked, S # {},
                      \A t \in S : waits[t] \in S
               PROVE  FALSE
    BY DEF NoWaitCycle
  <2>1. \A t \in S : R(t) \in Nat
    BY WaitRankNat
  <2>2. PICK n \in {R(t) : t \in S} : \A k \in {R(t) : t \in S} : n <= k
    <3> HIDE DEF R
    <3>1. {R(t) : t \in S} \subseteq Nat /\ {R(t) : t \in S} # {}
      BY <2>1
    <3> QED BY <3>1, LeastNatural
  <2>3. PICK t \in S : n = R(t)
    OBVIOUS
  <2>4. PICK u \in S : u = waits[t]
    OBVIOUS
  <2>5. R(u) < R(t)
    <3>1. t \in Thread /\ u \in Thread /\ WaitsFor(t) = u /\ WaitsFor(u) # NoThread
      BY <2>4
    <3> HIDE DEF R, waits, blocked
    <3> QED BY <3>1, WaitsFurtherDown DEF R
  <2>6. n <= R(u)
    BY <2>2
  <2> HIDE DEF R
  <2> QED BY <2>1, <2>3, <2>5, <2>6
<1> QED
  BY <1>1, WaitsInvariant, Inductive, PTL

\* The links that send nothing while they handle a command, or at any time.
Silent == {l \in Link : Requests[l] = {} /\ (Prev[l] = NoThread \/ LinkProc[Prev[l]] = LinkProc[l])}
\* Across processors, and from link to link, a caller waits for silent links
\* only; a link of the host waits for no link of the host.
Layered ==
    /\ \A t \in Caller : \A r \in Requests[t] :
          r.ack /\ Remote(t, r) /\ r.cmd # "getInfo" => r.to \in Silent
    /\ \A l \in Link : \A r \in Requests[l] :
          r.ack /\ ~Remote(l, r) => LinkProc[l] # Host /\ r.to \in Silent

\* The order: silent links, the MsgQ tasks of the others, the host's lock, its
\* other links, its mutex and its MsgQ task, the locks and links of the others.
LayerRank == [x \in Link \cup Proc |->
                IF x \in Proc THEN IF x = Host THEN 5 ELSE 1
                ELSE IF x \in Silent THEN 0 ELSE IF LinkProc[x] = Host THEN 3 ELSE 7]
LayerLock == [p \in Proc |-> IF p = Host THEN 2 ELSE 6]

LEMMA LayersOrder == ASSUME Layered PROVE Ordered(LayerRank, LayerLock, 4)
<1>1. LayerRank \in [Link \cup Proc -> Nat] /\ LayerLock \in [Proc -> Nat]
  BY DEF LayerRank, LayerLock
<1>2. /\ \A p \in Proc : LayerRank[p] = IF p = Host THEN 5 ELSE 1
      /\ \A l \in Link : LayerRank[l] = IF l \in Silent THEN 0 ELSE IF LinkProc[l] = Host THEN 3 ELSE 7
      /\ \A p \in Proc : LayerLock[p] = IF p = Host THEN 2 ELSE 6
  BY ThreadAssumption DEF LayerRank, LayerLock
<1>3. ASSUME NEW l \in Link, NEW r \in Sends(l)
      PROVE  Home(l) = LinkProc[l] /\ (r \in Requests[l] \/ Remote(l, r)) /\ l \notin Silent
  <2>1. Home(l) = LinkProc[l]
    BY ThreadAssumption DEF Home
  <2>2. CASE r \in Requests[l]
    BY <2>1, <2>2 DEF Silent
  <2>3. CASE r \notin Requests[l]
    <3>1. r = GetInfo(l) /\ Prev[l] # NoThread /\ LinkProc[Prev[l]] # LinkProc[l]
      BY <2>3 DEF Sends
    <3> QED BY <2>1, <3>1 DEF GetInfo, Remote, Silent
  <2> QED BY <2>1, <2>2, <2>3
<1>4. ASSUME NEW t \in Caller, NEW r \in Sends(t), Remote(t, r)
      PROVE  /\ t \in Link => LayerLock[Home(t)] < LayerRank[t]
             /\ r.ack => LayerRank[LinkProc[r.to]] < LayerLock[Home(t)]
  <2>1. Home(t) \in Proc /\ LinkProc[r.to] \in Proc /\ LinkProc[r.to] # Home(t)
    BY <1>4, SendsCommands, Threads DEF Remote
  <2>2. t \in Link => Home(t) = LinkProc[t] /\ t \notin Silent
    BY <1>3
  <2> QED BY <1>2, <2>1, <2>2
<1>5. ASSUME NEW p \in Proc, NEW r \in Posted(p)
      PROVE  Home(p) = p /\ r.to \in Link /\ r.to \in Silent
  <2>1. r \in Command /\ r.ack /\ r.cmd # "getInfo"
    BY DEF Posted, Carried
  <2>2. PICK t \in Caller : r \in Sends(t) /\ Remote(t, r)
    BY DEF Posted, Carried
  <2>3. r \in Requests[t]
    BY <2>1, <2>2 DEF Sends, GetInfo
  <2> QED BY <2>1, <2>2, <2>3, ThreadAssumption DEF Layered, Home, Silent
<1>6. ASSUME NEW x \in Caller, NEW r \in Posted(x)
      PROVE  /\ r.to \in Link /\ LinkProc[r.to] = Home(x)
             /\ x \in Link => x \notin Silent /\ Home(x) = LinkProc[x] /\ LinkProc[x] # Host /\ r.to \in Silent
  <2>1. r \in Sends(x) /\ r.ack /\ ~Remote(x, r)
    BY Threads DEF Posted
  <2>2. r.to \in Link /\ LinkProc[r.to] = Home(x)
    BY <2>1, SendsCommands DEF Remote
  <2> QED BY <1>3, <2>1, <2>2 DEF Layered
<1>7. ASSUME NEW x \in Thread, NEW r \in Posted(x)
      PROVE  /\ x \notin App => LayerRank[r.to] < LayerRank[x]
             /\ Home(x) = Host => /\ LayerRank[r.to] < 4
                                  /\ x \notin App => 4 < LayerRank[x]
  <2>1. CASE x \in Proc
    BY <1>2, <1>5, <2>1
  <2>2. CASE x \in Caller
    BY <1>2, <1>6, <2>2 DEF Caller
  <2> QED BY <2>1, <2>2, Threads
<1> QED
  BY <1>1, <1>4, <1>7 DEF Ordered

\* So there is none where callers wait for silent links only, as above.
THEOREM LayersHaveNoCycle == ASSUME Layered PROVE Spec => []NoWaitCycle
BY LayersOrder, AlwaysNoWaitCycle
=============================================================================
