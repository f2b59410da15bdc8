---------------------------- MODULE SystemMsgQ ----------------------------
(* Control commands between processors: System_linkControl, its local part  *)
(* and the MessageQ transport of links_common/system and of its twin for    *)
(* the host in src_linux/links/system.                                      *)
(*                                                                          *)
(* Each processor has one lock and one queue of acknowledgements for all    *)
(* its callers, and one MsgQ task that carries out the commands it gets, a  *)
(* command that wants an acknowledgement by waiting for the link.  A        *)
(* processor stands for its own MsgQ task.  Mailboxes are used through what *)
(* UtilsMbx shows of them: in order, and the right caller gets the answer.  *)
EXTENDS Naturals, Sequences, FiniteSets, Functions, Owning

CONSTANTS Proc,         \* processors, and their MsgQ tasks
          Host,         \* the one that runs Linux
          App,          \* application threads of the host
          Link,
          LinkProc,     \* LinkProc[l]: SYSTEM_GET_PROC_ID
          Prev,         \* Prev[l]: the link its create asks, or NoThread
          UpAtStart,    \* links created before
          Requests,     \* Requests[t]: the commands thread t may send
          Msg,          \* messages of the shared heap
          MaxQueued,    \* bound on the commands nobody waits for
          NoThread, NoMsg

ASSUME ProcAssumption == Host \in Proc /\ LinkProc \in [Link -> Proc]
ASSUME ThreadAssumption == /\ App \cap Link = {} /\ App \cap Proc = {} /\ Link \cap Proc = {}
                           /\ NoThread \notin App \cup Link \cup Proc
ASSUME LinkAssumption == Prev \in [Link -> Link \cup {NoThread}] /\ UpAtStart \subseteq Link
ASSUME MsgAssumption == NoMsg \notin Msg /\ MaxQueued \in Nat

Thread == App \cup Link \cup Proc
Home(t) == IF t \in App THEN Host ELSE IF t \in Proc THEN t ELSE LinkProc[t]

\* prm: the command has parameters; they travel behind the message.
Cmd == {"create", "delete", "control", "event", "getInfo"}
Command == [to : Link, cmd : Cmd, prm : BOOLEAN, ack : BOOLEAN]
ASSUME RequestAssumption == Requests \in [App \cup Link -> SUBSET Command]

NoCommand == [to |-> NoThread, cmd |-> "control", prm |-> FALSE, ack |-> FALSE]
Free == [cmd |-> NoCommand, reply |-> NoThread, done |-> FALSE]
\* A mailbox entry: who waits for the answer, and where the parameters lie.
Entry == [cmd : Command, from : Thread \cup {NoThread}, msg : Msg \cup {NoMsg}]
NoEntry == [cmd |-> NoCommand, from |-> NoThread, msg |-> NoMsg]

VARIABLES pc,       \* where each thread stands
          req,      \* the command it sends or, a MsgQ task, carries out
          ptr,      \* the heap message it sent (pMsgCommon) or carries out
          lock,     \* lock[p]: the holder of gSystem_ipcObj.msgQLock
          mutex,    \* the holder of the host's linkControlMutex
          heap,     \* the contents of each heap message, Free or in use
          recvQ,    \* selfMsgQ of each processor
          ackQ,     \* selfAckMsgQ
          mbx,      \* mailbox of each link
          held,     \* the mailbox entry a link is handling
          up        \* the links that are created

queues == <<heap, recvQ, ackQ>>
links == <<mbx, held, up>>
locks == <<lock, mutex>>
threads == <<pc, req, ptr>>
vars == <<threads, locks, queues, links>>

Pc == {"idle", "lock", "send", "ack",                  \* System_ipcMsgQSendMsg
       "mutex", "post", "link", "answered",            \* System_linkControl_local
       "reply"}                                        \* System_ipcMsgQTaskMain

TypeOK ==
    /\ pc \in [Thread -> Pc]
    /\ req \in [Thread -> Command \cup {NoCommand}]
    /\ ptr \in [Thread -> Msg \cup {NoMsg}]
    /\ lock \in [Proc -> App \cup Link \cup {NoThread}]
    /\ mutex \in Thread \cup {NoThread}
    /\ heap \in [Msg -> [cmd : Command, reply : Proc, done : BOOLEAN] \cup {Free}]
    /\ recvQ \in [Proc -> Seq(Msg)] /\ ackQ \in [Proc -> Seq(Msg)]
    /\ mbx \in [Link -> Seq(Entry)]
    /\ held \in [Link -> Entry \cup {NoEntry}]
    /\ up \subseteq Link

Init == /\ pc = [t \in Thread |-> "idle"]
        /\ req = [t \in Thread |-> NoCommand]
        /\ ptr = [t \in Thread |-> NoMsg]
        /\ lock = [p \in Proc |-> NoThread]
        /\ mutex = NoThread
        /\ heap = [m \in Msg |-> Free]
        /\ recvQ = [p \in Proc |-> <<>>]
        /\ ackQ = [p \in Proc |-> <<>>]
        /\ mbx = [l \in Link |-> <<>>]
        /\ held = [l \in Link |-> NoEntry]
        /\ up = UpAtStart

-----------------------------------------------------------------------------
\* Mutant: the processor of the link is not looked at.
Remote_always(t, r) == TRUE

Remote(t, r) == LinkProc[r.to] # Home(t)
\* On the host a local command that waits takes linkControlMutex.
LocalPc(t, r) == IF Home(t) = Host /\ r.ack THEN "mutex" ELSE "post"

\* System_linkControl, System_sendLinkCmd or System_linkGetInfo begins.
Call(t, r) ==
    /\ pc' = [pc EXCEPT ![t] = IF Remote(t, r) THEN "lock" ELSE LocalPc(t, r)]
    /\ req' = [req EXCEPT ![t] = r]

Entries(l) == {mbx[l][i] : i \in DOMAIN mbx[l]} \cup ({held[l]} \ {NoEntry})
\* The commands nobody waits for that are under way.
Unwatched == {t \in App \cup Link : pc[t] # "idle" /\ ~req[t].ack}
             \cup {m \in Msg : heap[m] # Free /\ ~heap[m].cmd.ack}
             \cup UNION {{l} \X {e \in Entries(l) : ~e.cmd.ack} : l \in Link}

\* A thread sends a command; a link only when it is created, and not inside
\* the handling of another command.  A link is created before it is deleted.
Begin(t, r) ==
    /\ pc[t] = "idle"
    /\ r.cmd \in {"create", "delete"} => (r.cmd = "delete") = (r.to \in up)
    /\ t \in Link => t \in up /\ held[t] = NoEntry
    /\ r.ack \/ Cardinality(Unwatched) < MaxQueued
    /\ Call(t, r)
    /\ UNCHANGED <<ptr, locks, queues, links>>

-----------------------------------------------------------------------------
(* System_ipcMsgQSendMsg.                                                   *)

\* Mutant: the lock is not taken, as if it guarded the allocation alone.
PendLock_none(t) ==
    /\ pc[t] = "lock"
    /\ pc' = [pc EXCEPT ![t] = "send"]
    /\ UNCHANGED <<req, ptr, locks, queues, links>>

PendLock(t) ==
    /\ pc[t] = "lock" /\ lock[Home(t)] = NoThread
    /\ lock' = [lock EXCEPT ![Home(t)] = t]
    /\ pc' = [pc EXCEPT ![t] = "send"]
    /\ UNCHANGED <<req, ptr, mutex, queues, links>>

\* The lock is posted and the call returns.
ReturnFrom(t) ==
    /\ lock' = [lock EXCEPT ![Home(t)] = NoThread]
    /\ pc' = [pc EXCEPT ![t] = "idle"]
    /\ req' = [req EXCEPT ![t] = NoCommand]

\* A free message is taken (which one makes no difference), filled and put in
\* the other's queue.
Send(t) ==
    LET p == LinkProc[req[t].to]
        free == {m \in Msg : heap[m] = Free}
        m == CHOOSE m \in Msg : m \in free IN
    /\ pc[t] = "send" /\ free # {}
    /\ heap' = [heap EXCEPT ![m] = [cmd |-> req[t], reply |-> Home(t), done |-> FALSE]]
    /\ recvQ' = [recvQ EXCEPT ![p] = Append(@, m)]
    /\ IF req[t].ack
       THEN pc' = [pc EXCEPT ![t] = "ack"] /\ ptr' = [ptr EXCEPT ![t] = m]
            /\ UNCHANGED <<req, lock>>
       ELSE ReturnFrom(t) /\ UNCHANGED ptr
    /\ UNCHANGED <<mutex, ackQ, links>>

\* Mutant: the acknowledgement is not freed.
GetAck_leak(t) ==
    /\ pc[t] = "ack" /\ ackQ[Home(t)] # <<>>
    /\ ackQ' = [ackQ EXCEPT ![Home(t)] = Tail(@)]
    /\ ptr' = [ptr EXCEPT ![t] = NoMsg]
    /\ ReturnFrom(t)
    /\ UNCHANGED <<heap, mutex, recvQ, links>>

\* The acknowledgement is read, its status and parameters taken, and freed.
GetAck(t) ==
    LET q == ackQ[Home(t)] IN
    /\ pc[t] = "ack" /\ q # <<>>
    /\ ackQ' = [ackQ EXCEPT ![Home(t)] = Tail(q)]
    /\ heap' = [heap EXCEPT ![Head(q)] = Free]
    /\ ptr' = [ptr EXCEPT ![t] = NoMsg]
    /\ ReturnFrom(t)
    /\ UNCHANGED <<mutex, recvQ, links>>

-----------------------------------------------------------------------------
(* System_linkControl_local, run by the host's threads and by MsgQ tasks.   *)

LockMutex(t) ==
    /\ pc[t] = "mutex" /\ mutex = NoThread
    /\ mutex' = t
    /\ pc' = [pc EXCEPT ![t] = "post"]
    /\ UNCHANGED <<req, ptr, lock, queues, links>>

\* Mutant: a MsgQ task posts every command without waiting for the link.
Post_noWait(t) ==
    LET r == req[t]
        waits == r.ack /\ t \notin Proc
        entry == [cmd |-> r, from |-> IF waits THEN t ELSE NoThread,
                  msg |-> IF r.prm THEN ptr[t] ELSE NoMsg] IN
    /\ pc[t] = "post"
    /\ mbx' = [mbx EXCEPT ![r.to] = Append(@, entry)]
    /\ pc' = [pc EXCEPT ![t] = IF waits THEN "link" ELSE IF t \in Proc THEN "reply" ELSE "idle"]
    /\ UNCHANGED <<req, ptr, locks, queues, held, up>>

\* Mutant: the caller on the same processor does not wait for the link.
Post_returns(t) ==
    LET r == req[t]
        entry == [cmd |-> r, from |-> IF r.ack THEN t ELSE NoThread,
                  msg |-> IF r.prm THEN ptr[t] ELSE NoMsg] IN
    /\ pc[t] = "post"
    /\ mbx' = [mbx EXCEPT ![r.to] = Append(@, entry)]
    /\ pc' = [pc EXCEPT ![t] = IF t \notin Proc THEN "idle" ELSE IF r.ack THEN "link" ELSE "reply"]
    /\ UNCHANGED <<req, ptr, locks, queues, held, up>>

\* Utils_mbxSendMsg or OSA_mbxSendMsg: a MsgQ task gives a pointer to the
\* parameters that lie in the message it carries out.
Post(t) ==
    LET r == req[t]
        entry == [cmd |-> r, from |-> IF r.ack THEN t ELSE NoThread,
                  msg |-> IF r.prm THEN ptr[t] ELSE NoMsg] IN
    /\ pc[t] = "post"
    /\ mbx' = [mbx EXCEPT ![r.to] = Append(@, entry)]
    /\ pc' = [pc EXCEPT ![t] = IF r.ack THEN "link" ELSE IF t \in Proc THEN "reply" ELSE "idle"]
    /\ UNCHANGED <<req, ptr, locks, queues, held, up>>

\* The link has answered: the status is stored, the mutex released.
Answered(t) ==
    /\ pc[t] = "answered"
    /\ mutex' = IF mutex = t THEN NoThread ELSE mutex
    /\ IF t \in Proc
       THEN /\ pc' = [pc EXCEPT ![t] = "reply"]
            /\ heap' = [heap EXCEPT ![ptr[t]].done = TRUE]
            /\ UNCHANGED req
       ELSE /\ pc' = [pc EXCEPT ![t] = "idle"]
            /\ req' = [req EXCEPT ![t] = NoCommand]
            /\ UNCHANGED heap
    /\ UNCHANGED <<ptr, lock, recvQ, ackQ, links>>

-----------------------------------------------------------------------------
(* System_ipcMsgQTaskMain on processor p.                                   *)

\* GET_INFO is answered by the MsgQ task itself.
GetMsg(p) ==
    LET m == Head(recvQ[p])
        r == heap[m].cmd IN
    /\ pc[p] = "idle" /\ recvQ[p] # <<>>
    /\ recvQ' = [recvQ EXCEPT ![p] = Tail(@)]
    /\ ptr' = [ptr EXCEPT ![p] = m]
    /\ req' = [req EXCEPT ![p] = r]
    /\ IF r.cmd = "getInfo"
       THEN /\ heap' = [heap EXCEPT ![m].done = TRUE]
            /\ pc' = [pc EXCEPT ![p] = "reply"]
       ELSE /\ pc' = [pc EXCEPT ![p] = LocalPc(p, r)]
            /\ UNCHANGED heap
    /\ UNCHANGED <<locks, ackQ, links>>

Reply(p) ==
    LET m == ptr[p] IN
    /\ pc[p] = "reply"
    /\ IF req[p].ack
       THEN ackQ' = [ackQ EXCEPT ![heap[m].reply] = Append(@, m)] /\ UNCHANGED heap
       ELSE heap' = [heap EXCEPT ![m] = Free] /\ UNCHANGED ackQ
    /\ ptr' = [ptr EXCEPT ![p] = NoMsg]
    /\ req' = [req EXCEPT ![p] = NoCommand]
    /\ pc' = [pc EXCEPT ![p] = "idle"]
    /\ UNCHANGED <<locks, recvQ, links>>

-----------------------------------------------------------------------------
(* The task of a link.                                                      *)

\* CREATE of a link whose previous link is elsewhere asks for its info.
AsksPrev(l, c) == c = "create" /\ l \notin up /\ Prev[l] # NoThread
                  /\ LinkProc[Prev[l]] # LinkProc[l]
GetInfo(l) == [to |-> Prev[l], cmd |-> "getInfo", prm |-> TRUE, ack |-> TRUE]

Take(l) ==
    LET e == Head(mbx[l]) IN
    /\ pc[l] = "idle" /\ held[l] = NoEntry /\ mbx[l] # <<>>
    /\ held' = [held EXCEPT ![l] = e]
    /\ mbx' = [mbx EXCEPT ![l] = Tail(@)]
    /\ IF AsksPrev(l, e.cmd.cmd) THEN Call(l, GetInfo(l)) ELSE UNCHANGED <<pc, req>>
    /\ UNCHANGED <<ptr, locks, queues, up>>

\* Mutant: DELETE is carried out but not acknowledged.
Answer_deleteNoAck(l) ==
    LET e == held[l]
        c == e.cmd.cmd IN
    /\ pc[l] = "idle" /\ e # NoEntry
    /\ held' = [held EXCEPT ![l] = NoEntry]
    /\ up' = IF c = "create" THEN up \cup {l} ELSE IF c = "delete" THEN up \ {l} ELSE up
    /\ pc' = IF e.from = NoThread \/ c = "delete" THEN pc
             ELSE [pc EXCEPT ![e.from] = "answered"]
    /\ UNCHANGED <<req, ptr, locks, queues, mbx>>

\* Utils_tskAckOrFreeMsg: who waits for the answer gets it.
Answer(l) ==
    LET e == held[l]
        c == e.cmd.cmd IN
    /\ pc[l] = "idle" /\ e # NoEntry
    /\ held' = [held EXCEPT ![l] = NoEntry]
    /\ up' = IF c = "create" THEN up \cup {l} ELSE IF c = "delete" THEN up \ {l} ELSE up
    /\ pc' = IF e.from = NoThread THEN pc ELSE [pc EXCEPT ![e.from] = "answered"]
    /\ UNCHANGED <<req, ptr, locks, queues, mbx>>

-----------------------------------------------------------------------------
Step(t) == PendLock(t) \/ Send(t) \/ GetAck(t)
           \/ LockMutex(t) \/ Post(t) \/ Answered(t)

Next == \/ \E t \in App \cup Link : \E r \in Requests[t] : Begin(t, r)
        \/ \E t \in Thread : Step(t)
        \/ \E p \in Proc : GetMsg(p) \/ Reply(p)
        \/ \E l \in Link : Take(l) \/ Answer(l)

Spec == Init /\ [][Next]_vars

\* The threads that send commands; of the others there is nothing to ask.
Sender == App \cup {l \in Link : Requests[l] # {} \/ Prev[l] # NoThread}

(* Every thread runs, and a sender that pends on a lock gets it in the end  *)
(* although others take it in between: BIOS semaphores wake the longest     *)
(* waiting task; for the host's mutex this is an assumption.                *)
FairSpec ==
    /\ Spec
    /\ \A t \in Thread : WF_vars(Step(t))
    /\ \A p \in Proc : WF_vars(GetMsg(p) \/ Reply(p))
    /\ \A l \in Link : WF_vars(Take(l) \/ Answer(l))
    /\ \A t \in Sender \cup {Host} : SF_vars(PendLock(t) \/ LockMutex(t))

-----------------------------------------------------------------------------
\* Who has message m: the heap, a queue or a MsgQ task.
OwnersByKind(m) ==
    [heap  |-> {n \in {m} : heap[n] = Free},
     recvQ |-> {p \in Proc : m \in Range(recvQ[p])},
     ackQ  |-> {p \in Proc : m \in Range(ackQ[p])},
     task  |-> {p \in Proc : ptr[p] = m}]
Owners(m) == Tagged(OwnersByKind(m))

(* A message is freed exactly when nobody will look for it: while in use it *)
(* is in one queue, and there once, or with one MsgQ task, and a freed one  *)
(* is in none.                                                              *)
OneOwner == /\ TypeOK
            /\ \A m \in Msg : Cardinality(Owners(m)) = 1
            /\ \A p \in Proc : IsInjective(recvQ[p]) /\ IsInjective(ackQ[p])

(* All callers of a processor share one queue of acknowledgements: what     *)
(* lies in it is the answer to the call of the thread that holds the lock,  *)
(* and its command has been carried out.                                    *)
RepliesMatch ==
    \A p \in Proc : ackQ[p] # <<>> =>
        LET t == lock[p] IN
        /\ Len(ackQ[p]) = 1 /\ t # NoThread
        /\ pc[t] = "ack" /\ ptr[t] = Head(ackQ[p]) /\ heap[ptr[t]].done

(* The parameters of a command are still there when its link reads them:    *)
(* the message they lie in has not been freed or used for another command,  *)
(* and a local caller still waits with them on its stack.                   *)
PrmsIntact ==
    \A l \in Link : \A e \in Entries(l) : e.cmd.prm =>
        IF e.msg = NoMsg THEN e.from # NoThread ELSE heap[e.msg].cmd = e.cmd

\* The thread t cannot go on without, or NoThread.
WaitsFor(t) ==
    CASE pc[t] = "lock"  -> lock[Home(t)]
      [] pc[t] = "mutex" -> mutex
      [] pc[t] = "ack"   -> IF ackQ[Home(t)] = <<>> THEN LinkProc[req[t].to] ELSE NoThread
      [] pc[t] = "link"  -> req[t].to
      [] OTHER           -> NoThread
(* No threads wait for each other in a circle, through the locks, the MsgQ  *)
(* tasks and the links they wait for, on however many processors.           *)
NoWaitCycle ==
    LET waits == [t \in Thread |-> WaitsFor(t)]
        blocked == {t \in Thread : waits[t] # NoThread} IN
    \A S \in SUBSET blocked : S # {} => \E t \in S : waits[t] \notin S

\* What has become of the command of t, for ControlCall.
Progress(t) ==
    IF pc[t] = "idle" \/ ~req[t].ack THEN "none"
    ELSE IF pc[t] = "answered" \/ (pc[t] = "ack" /\ heap[ptr[t]].done) THEN "done" ELSE "sent"
Abstract == INSTANCE ControlCall
              WITH Caller <- App \cup Link, call <- [t \in App \cup Link |-> Progress(t)]
(* Every command that wants an acknowledgement is carried out once and the  *)
(* call returns after that.                                                 *)
ImplementsControl == Abstract!Spec

(* A command that was sent is answered, whichever processors the call and   *)
(* the handling of it cross.                                                *)
Returns == \A t \in Sender : pc[t] \in {"ack", "link"} ~> pc[t] = "idle"
=============================================================================
