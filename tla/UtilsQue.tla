----------------------------- MODULE UtilsQue -----------------------------
(* The queue of the BIOS6 side, src_bios6/utils/src/utils_que.c.            *)
(*                                                                          *)
(* A fixed ring of pointers with a get and a put semaphore.  Each test of   *)
(* the ring together with the insertion or the extraction is one critical   *)
(* section (Hwi_disable .. Hwi_restore) and one action here; everything     *)
(* else a call does - posting the other side's semaphore, raising and       *)
(* lowering blockedOnGet / blockedOnPut, pending, reading and clearing      *)
(* forceUnblock - happens with interrupts on, a step at a time, and         *)
(* interleaves with the calls of other tasks and of interrupt handlers.     *)
(*                                                                          *)
(* The get and the put half of the code are mirror images: a "side" says    *)
(* which half a semaphore, a flag or a call belongs to.                     *)
EXTENDS Integers, FiniteSets

CONSTANTS Task,         \* the tasks (and interrupt handlers) that use the queue
          Data,         \* the pointers put in the queue
          NoData,       \* an output argument nothing was written to
          MaxElements,  \* handle->maxElements
          BlockOn,      \* handle->flags: the sides that may block
          Calls,        \* Calls[t]: the calls task t makes
          Controls,     \* the control calls made: a subset of {"unblock", "reset"}
          SemBound      \* no call starts while its post could exceed this count

Side == {"get", "put"}
Other(s) == IF s = "get" THEN "put" ELSE "get"

Timeout == {"none", "timed", "forever"}
Call == [side : Side, data : Data \cup {NoData}, minCount : Nat, timeout : Timeout]

ASSUME CapacityAssumption == MaxElements \in Nat \ {0}
ASSUME FlagAssumption == BlockOn \subseteq Side
ASSUME CallAssumption == /\ Calls \in [Task -> SUBSET Call]
                         /\ \A t \in Task : \A c \in Calls[t] :
                               c.side = "put" => c.data \in Data
ASSUME ControlAssumption == Controls \subseteq {"unblock", "reset"}
ASSUME BoundAssumption == SemBound \in Nat \ {0}
ASSUME NoDataAssumption == NoData \notin Data

VARIABLES queue, curRd, curWr, count,   \* the ring
          sem,                          \* sem["get"] is semRd, sem["put"] semWr
          blockedOn,                    \* blockedOnGet and blockedOnPut
          forceUnblock,                 \* forceUnblockGet and forceUnblockPut
          pc,                           \* where the call of each task stands
          call                          \* its arguments, and the item a get took

ring == <<queue, curRd, curWr, count>>
flags == <<blockedOn, forceUnblock>>
vars == <<ring, sem, flags, pc, call>>

\* A task rests between calls; the last two say how its last call ended.
Rest == {"idle", "done", "failed"}
\* The steps of the blocking half of a call, in the order of the code.
Pc == Rest \cup {"test", "post", "mark", "pend", "wait", "woken", "expired",
                 "check", "clear"}

TypeOK == /\ queue \in [0 .. MaxElements - 1 -> Data \cup {NoData}]
          /\ curRd \in 0 .. MaxElements - 1
          /\ curWr \in 0 .. MaxElements - 1
          /\ count \in 0 .. MaxElements
          /\ sem \in [Side -> Nat]
          /\ blockedOn \in [Side -> BOOLEAN]
          /\ forceUnblock \in [Side -> BOOLEAN]
          /\ pc \in [Task -> Pc]
          /\ call \in [Task -> Call]

-----------------------------------------------------------------------------
(* Utils_queCreate: an empty ring and two semaphores that start at 0.  The  *)
(* argument record of a task that has made no call yet is arbitrary.        *)
Init == /\ queue = [i \in 0 .. MaxElements - 1 |-> NoData]
        /\ curRd = 0 /\ curWr = 0 /\ count = 0
        /\ sem = [s \in Side |-> 0]
        /\ blockedOn = [s \in Side |-> FALSE]
        /\ forceUnblock = [s \in Side |-> FALSE]
        /\ pc = [t \in Task |-> "idle"]
        /\ call = [t \in Task |-> [side |-> "get", data |-> NoData,
                                   minCount |-> 1, timeout |-> "none"]]

\* The tasks in the pend queue of a side's semaphore.
Waiting(s) == {t \in Task : pc[t] = "wait" /\ call[t].side = s}

(* Semaphore_post on the semaphores of the sides S, by a step that leaves   *)
(* the other tasks at pcs: a pending task is released and gets the count,   *)
(* otherwise the count rises.                                               *)
PostSems(S, pcs) ==
    /\ sem' = [s \in Side |-> IF s \in S /\ Waiting(s) = {} THEN sem[s] + 1
                                                            ELSE sem[s]]
    /\ \E w \in [S -> Task] :
          /\ \A s \in S : Waiting(s) # {} => w[s] \in Waiting(s)
          /\ pc' = [t \in Task |->
                      IF \E s \in S : Waiting(s) # {} /\ w[s] = t
                      THEN "woken" ELSE pcs[t]]

Goto(t, l) == pc' = [pc EXCEPT ![t] = l]

\* A task calls Utils_quePut or Utils_queGet.
Begin(t) ==
    /\ pc[t] \in Rest
    /\ \E c \in Calls[t] : /\ sem[Other(c.side)] < SemBound
                           /\ call' = [call EXCEPT ![t] = c]
    /\ Goto(t, "test")
    /\ UNCHANGED <<ring, sem, flags>>

\* minCount as the get uses it: between 1 and maxElements.
MinCount(t) == IF call[t].minCount = 0 THEN 1
               ELSE IF call[t].minCount > MaxElements THEN MaxElements
               ELSE call[t].minCount

Ready(t) == IF call[t].side = "put" THEN count < MaxElements
                                    ELSE count >= MinCount(t)

\* Mutant: the other side is posted only when the ring was empty (or full).
AfterSuccess_edgeOnly(t) ==
    IF count = (IF call[t].side = "put" THEN 0 ELSE MaxElements) THEN "post" ELSE "done"
\* Where a call goes that succeeded: it posts the other side if that blocks.
AfterSuccess(t) == IF Other(call[t].side) \in BlockOn THEN "post" ELSE "done"

\* Mutant: the ring is not tested for room.
PutInsert_unchecked(t) ==
    /\ pc[t] = "test" /\ call[t].side = "put"
    /\ queue' = [queue EXCEPT ![curWr] = call[t].data]
    /\ curWr' = (curWr + 1) % MaxElements
    /\ count' = count + 1
    /\ Goto(t, AfterSuccess(t))
    /\ UNCHANGED <<curRd, sem, flags, call>>
PutInsert(t) ==
    /\ pc[t] = "test" /\ call[t].side = "put" /\ Ready(t)
    /\ queue' = [queue EXCEPT ![curWr] = call[t].data]
    /\ curWr' = (curWr + 1) % MaxElements
    /\ count' = count + 1
    /\ Goto(t, AfterSuccess(t))
    /\ UNCHANGED <<curRd, sem, flags, call>>

\* Mutant: the item is taken from the end the puts write at.
GetExtract_fromWriteEnd(t) ==
    /\ pc[t] = "test" /\ call[t].side = "get" /\ Ready(t)
    /\ call' = [call EXCEPT ![t].data = queue[(curWr + MaxElements - 1) % MaxElements]]
    /\ curWr' = (curWr + MaxElements - 1) % MaxElements
    /\ count' = count - 1
    /\ Goto(t, AfterSuccess(t))
    /\ UNCHANGED <<queue, curRd, sem, flags>>
GetExtract(t) ==
    /\ pc[t] = "test" /\ call[t].side = "get" /\ Ready(t)
    /\ call' = [call EXCEPT ![t].data = queue[curRd]]
    /\ curRd' = (curRd + 1) % MaxElements
    /\ count' = count - 1
    /\ Goto(t, AfterSuccess(t))
    /\ UNCHANGED <<queue, curWr, sem, flags>>

\* No room, or not enough items: fail at once, or go and block.
Miss(t) ==
    /\ pc[t] = "test" /\ ~Ready(t)
    /\ Goto(t, IF call[t].timeout = "none" \/ call[t].side \notin BlockOn
               THEN "failed" ELSE "mark")
    /\ UNCHANGED <<ring, sem, flags, call>>

\* Mutant: a call posts the semaphore of its own side.
Post_ownSide(t) ==
    /\ pc[t] = "post"
    /\ PostSems({call[t].side}, [pc EXCEPT ![t] = "done"])
    /\ UNCHANGED <<ring, flags, call>>
Post(t) ==
    /\ pc[t] = "post"
    /\ PostSems({Other(call[t].side)}, [pc EXCEPT ![t] = "done"])
    /\ UNCHANGED <<ring, flags, call>>

Mark(t) ==
    /\ pc[t] = "mark"
    /\ blockedOn' = [blockedOn EXCEPT ![call[t].side] = TRUE]
    /\ Goto(t, "pend")
    /\ UNCHANGED <<ring, sem, forceUnblock, call>>

Pend(t) ==
    /\ pc[t] = "pend"
    /\ \/ /\ sem[call[t].side] > 0
          /\ sem' = [sem EXCEPT ![call[t].side] = @ - 1]
          /\ Goto(t, "woken")
       \/ /\ sem[call[t].side] = 0
          /\ Goto(t, "wait")
          /\ UNCHANGED sem
    /\ UNCHANGED <<ring, flags, call>>

Expire(t) ==
    /\ pc[t] = "wait" /\ call[t].timeout = "timed"
    /\ Goto(t, "expired")
    /\ UNCHANGED <<ring, sem, flags, call>>

\* Semaphore_pend has returned: TRUE at "woken", FALSE at "expired".
Unmark(t) ==
    /\ pc[t] \in {"woken", "expired"}
    /\ blockedOn' = [blockedOn EXCEPT ![call[t].side] = FALSE]
    /\ Goto(t, IF pc[t] = "woken" THEN "check" ELSE "clear")
    /\ UNCHANGED <<ring, sem, forceUnblock, call>>

CheckForced(t) ==
    /\ pc[t] = "check"
    /\ Goto(t, IF forceUnblock[call[t].side] THEN "clear" ELSE "test")
    /\ UNCHANGED <<ring, sem, flags, call>>

\* Mutant: forceUnblock is left raised.
Clear_forgotten(t) ==
    /\ pc[t] = "clear"
    /\ Goto(t, "failed")
    /\ UNCHANGED <<ring, sem, flags, call>>
Clear(t) ==
    /\ pc[t] = "clear"
    /\ forceUnblock' = [forceUnblock EXCEPT ![call[t].side] = FALSE]
    /\ Goto(t, "failed")
    /\ UNCHANGED <<ring, sem, blockedOn, call>>

\* Mutant: the get half tested, the put half forgotten.
Unblockable_getOnly == {s \in BlockOn \cap {"get"} : sem[s] = 0 /\ blockedOn[s]}
\* Utils_queUnBlock, one critical section for both sides.
Unblockable == {s \in BlockOn : sem[s] = 0 /\ blockedOn[s]}
UnBlock ==
    /\ "unblock" \in Controls
    /\ forceUnblock' = [s \in Side |-> s \in Unblockable \/ forceUnblock[s]]
    /\ PostSems(Unblockable, pc)
    /\ UNCHANGED <<ring, blockedOn, call>>

NobodyBlocked == \A t \in Task : pc[t] \notin {"pend", "wait", "woken", "expired"}

\* Mutant: the write cursor keeps its place.
Reset_keepsCurWr ==
    /\ "reset" \in Controls /\ NobodyBlocked
    /\ count' = 0 /\ curRd' = 0
    /\ blockedOn' = [s \in Side |-> FALSE]
    /\ forceUnblock' = [s \in Side |-> FALSE]
    /\ UNCHANGED <<queue, curWr, sem, pc, call>>
\* Utils_queReset: the ring and the flags, not the semaphores.  Its one caller
\* (decLink_common.c:2509) resets a queue on which nobody blocks.
Reset ==
    /\ "reset" \in Controls /\ NobodyBlocked
    /\ count' = 0 /\ curRd' = 0 /\ curWr' = 0
    /\ blockedOn' = [s \in Side |-> FALSE]
    /\ forceUnblock' = [s \in Side |-> FALSE]
    /\ UNCHANGED <<queue, sem, pc, call>>

\* The rest of a call once it is made.
Step(t) == \/ PutInsert(t) \/ GetExtract(t) \/ Miss(t) \/ Post(t) \/ Mark(t)
           \/ Pend(t) \/ Expire(t) \/ Unmark(t) \/ CheckForced(t) \/ Clear(t)

Next == (\E t \in Task : Begin(t) \/ Step(t)) \/ UnBlock \/ Reset

Spec == Init /\ [][Next]_vars

(* The tasks are scheduled and timeouts expire; nothing says that a task    *)
(* makes another call, nor that the queue is unblocked or reset.            *)
FairSpec == Spec /\ \A t \in Task : WF_vars(Step(t))

-----------------------------------------------------------------------------
\* What a side waits for: items to get, places to put.
Available(s) == IF s = "get" THEN count ELSE MaxElements - count

(* The two cursors and the count of the ring, kept by three assignments in  *)
(* each critical section and by Utils_queReset, say the same thing.         *)
CursorsAgree ==
    curWr = IF curRd + count < MaxElements THEN curRd + count
                                           ELSE curRd + count - MaxElements

(* The tasks that owe a side a look at the ring: calls of that side about   *)
(* to test it, and calls of the other side whose post is still to come.     *)
Responsible(s) ==
    {t \in Task : \/ pc[t] = "post" /\ call[t].side = Other(s)
                  \/ pc[t] \in {"woken", "check", "test"} /\ call[t].side = s}

(* No lost wakeup: while a task pends on a side, every item (every free     *)
(* place) it could have is one that some other task is on its way to take   *)
(* or to announce.  The post of utils_que.c comes after the critical        *)
(* section and the pend after another one, so this is about their order.    *)
NoLostWakeup ==
    \A s \in Side : Waiting(s) # {} =>
                      Available(s) <= Cardinality(Responsible(s))

(* A raised forceUnblock flag has an owner: some call of that side is in    *)
(* its blocking part with a post to wake it, and will lower the flag.  So   *)
(* a flag never outlives the waiters it was raised for and never fails a    *)
(* call that blocks much later.                                             *)
NoStaleForce ==
    \A s \in Side : forceUnblock[s] =>
       \E t \in Task :
          /\ call[t].side = s
          /\ \/ pc[t] \in {"woken", "expired", "check", "clear"}
             \/ pc[t] = "pend" /\ sem[s] > 0

(* Utils_queUnBlock posts a semaphore only for a side that has a waiter:    *)
(* a raised blockedOn flag means a call between its mark and its unmark.    *)
BlockedMeansCaller ==
    \A s \in Side : blockedOn[s] =>
       \E t \in Task : /\ call[t].side = s
                       /\ pc[t] \in {"pend", "wait", "woken", "expired"}

(* "Force unblock of queue. If any entity was waiting on queue get/queue    *)
(* put it will get unblocked" (utils_que.h:186): after Utils_queUnBlock no  *)
(* task is left in a pend queue.                                            *)
UnBlockReleasesAll ==
    [][UnBlock => \A t \in Task : pc[t] = "wait" => pc'[t] # "wait"]_vars

(* A task that pends while its side can be served does not pend for ever    *)
(* over an unchanging ring: it is woken, or another call takes what there   *)
(* was.                                                                     *)
Served == \A s \in Side : []<>(Waiting(s) = {} \/ Available(s) = 0)

-----------------------------------------------------------------------------
(* The queue implements the bounded first-in first-out buffer: the ring     *)
(* read from curRd for count places is the abstract sequence, and a call    *)
(* takes effect when its critical section does.                             *)
Contents == [i \in 1 .. count |-> queue[(curRd + i - 1) % MaxElements]]
PhaseOf(t) == CASE pc[t] = "idle" -> "idle"
                [] pc[t] = "failed" -> "failed"
                [] pc[t] \in {"post", "done"} -> "done"
                [] OTHER -> "called"
ArgOf(t) == [side |-> call[t].side, data |-> call[t].data,
             minCount |-> call[t].minCount]

Fifo == INSTANCE BoundedFifo
          WITH Capacity <- MaxElements,
               fifo <- Contents,
               phase <- [t \in Task |-> PhaseOf(t)],
               arg <- [t \in Task |-> ArgOf(t)]
\* Every behaviour of the ring is one of the abstract buffer.
ImplementsFifo == Fifo!Spec
=============================================================================
