----------------------------- MODULE UtilsMbx -----------------------------
(* The mailboxes of the BIOS6 side, src_bios6/utils/src/utils_mbx.c.        *)
(*                                                                          *)
(* Tasks send messages from one control mailbox (gSystem_objCommon.mbx) to  *)
(* the mailboxes of links.  Messages come from one pool.  A sender that     *)
(* waits for an acknowledgement reserves one of a few ack queues of the     *)
(* control mailbox; the receiver puts the message itself in that queue.     *)
(* The queues are Utils_que queues, used here as the bounded first-in       *)
(* first-out buffers BoundedFifo says they are: a call that may wait for    *)
(* ever is an action that waits until it is enabled.                        *)
EXTENDS Integers, Sequences, FiniteSets, Functions, Owning

CONSTANTS Caller,       \* the tasks and interrupt handlers that send
          Link,         \* the receiving tasks, each with its mailbox
          Msg,          \* the messages of the pool
          NoMsg,        \* the null pointer
          Slot,         \* the ack queues of the control mailbox, 1 .. n
          RecvMax,      \* UTILS_MBX_RECV_QUE_LEN_MAX
          AckMax,       \* UTILS_MBX_ACK_QUE_LEN_MAX
          Requests      \* Requests[c]: what caller c sends

ASSUME SlotAssumption == IsFiniteSet(Slot) /\ Slot = 1 .. Cardinality(Slot) /\ Slot # {}
ASSUME LinkAssumption == Link # {}
ASSUME LengthAssumption == RecvMax \in Nat \ {0} /\ AckMax \in Nat \ {0}
ASSUME NoMsgAssumption == NoMsg \notin Msg

Cmd == {"control", "processed"}
\* via: Utils_mbxSendMsg or Utils_mbxSendCmd; ack: UTILS_MBX_FLAG_WAIT_ACK.
Request == [via : {"msg", "cmd"}, to : Link, cmd : Cmd, ack : BOOLEAN]
ASSUME RequestAssumption == Requests \in [Caller -> SUBSET Request]

VARIABLES pool,         \* gUtils_mbxMsgPoolFreeQue, the order does not matter
          recvQue,      \* recvQue[l]: the messages in the mailbox of link l
          ackQue,       \* ackQue[i]: the acknowledgements in slot i
          inUse,        \* ackQueInUse[i]
          msg,          \* the fields of each message
          at,           \* at[c]: where caller c stands
          req,          \* the request it is sending
          slot,         \* the slot it reserved
          sent,         \* pSentMsg
          rcvd,         \* pRcvMsg
          held,         \* held[l]: the message link l is handling
          taken,        \* taken[l]: the message its Utils_mbxWaitCmd took
          waiting       \* waiting[l]: it is inside Utils_mbxWaitCmd

queues == <<pool, recvQue, ackQue, inUse, msg>>
caller == <<at, req, slot, sent, rcvd>>
link == <<held, taken, waiting>>
mbxVars == <<queues, caller, link>>

At == {"idle", "reserve", "alloc", "put", "wait", "free", "release",
       "allocCmd", "putCmd", "freeCmd"}
MsgRec == [cmd : Cmd, ack : BOOLEAN, slot : Slot \cup {0}]

MbxTypeOK ==
    /\ pool \subseteq Msg
    /\ recvQue \in [Link -> Seq(Msg)]
    /\ ackQue \in [Slot -> Seq(Msg)]
    /\ inUse \in [Slot -> BOOLEAN]
    /\ msg \in [Msg -> MsgRec]
    /\ at \in [Caller -> At]
    /\ req \in [Caller -> Request]
    /\ slot \in [Caller -> Slot]
    /\ sent \in [Caller -> Msg \cup {NoMsg}]
    /\ rcvd \in [Caller -> Msg \cup {NoMsg}]
    /\ held \in [Link -> Msg \cup {NoMsg}]
    /\ taken \in [Link -> Msg \cup {NoMsg}]
    /\ waiting \in [Link -> BOOLEAN]

MbxInit ==
    /\ pool = Msg
    /\ recvQue = [l \in Link |-> <<>>]
    /\ ackQue = [i \in Slot |-> <<>>]
    /\ inUse = [i \in Slot |-> FALSE]
    /\ msg = [m \in Msg |-> [cmd |-> "control", ack |-> FALSE, slot |-> 0]]
    /\ at = [c \in Caller |-> "idle"]
    /\ req = [c \in Caller |-> [via |-> "cmd", to |-> CHOOSE l \in Link : TRUE,
                                cmd |-> "control", ack |-> FALSE]]
    /\ slot = [c \in Caller |-> 1]
    /\ sent = [c \in Caller |-> NoMsg]
    /\ rcvd = [c \in Caller |-> NoMsg]
    /\ held = [l \in Link |-> NoMsg]
    /\ taken = [l \in Link |-> NoMsg]
    /\ waiting = [l \in Link |-> FALSE]

Goes(c, p) == at' = [at EXCEPT ![c] = p]

-----------------------------------------------------------------------------
(* Senders                                                                  *)

MbxBegin(c) ==
    /\ at[c] = "idle"
    /\ \E r \in Requests[c] :
          /\ req' = [req EXCEPT ![c] = r]
          /\ Goes(c, IF r.via = "msg" THEN "reserve" ELSE "allocCmd")
    /\ UNCHANGED <<queues, slot, sent, rcvd, link>>

FreeSlots == {i \in Slot : ~inUse[i]}

\* Mutant: the flags are not looked at, two senders may share a slot.
Reserve_shared(c) ==
    /\ at[c] = "reserve"
    /\ inUse' = [inUse EXCEPT ![1] = TRUE]
    /\ slot' = [slot EXCEPT ![c] = 1]
    /\ Goes(c, "alloc")
    /\ UNCHANGED <<pool, recvQue, ackQue, msg, req, sent, rcvd, link>>
\* The first free slot, reserved with interrupts off, whatever the flags say.
Reserve(c) ==
    /\ at[c] = "reserve" /\ FreeSlots # {}
    /\ LET i == CHOOSE j \in FreeSlots : \A k \in FreeSlots : j <= k
       IN  /\ inUse' = [inUse EXCEPT ![i] = TRUE]
           /\ slot' = [slot EXCEPT ![c] = i]
    /\ Goes(c, "alloc")
    /\ UNCHANGED <<pool, recvQue, ackQue, msg, req, sent, rcvd, link>>

\* Every slot is in use: the call returns -1.
NoSlot(c) ==
    /\ at[c] = "reserve" /\ FreeSlots = {}
    /\ Goes(c, "idle")
    /\ UNCHANGED <<queues, req, slot, sent, rcvd, link>>

\* Take a message of the pool (waiting for one if need be) and fill it in.
Fill(c, m, i) ==
    /\ pool' = pool \ {m}
    /\ sent' = [sent EXCEPT ![c] = m]
    /\ msg' = [msg EXCEPT ![m] = [cmd |-> req[c].cmd, slot |-> i,
                                  ack |-> req[c].via = "msg" /\ req[c].ack]]
Alloc(c) ==
    /\ at[c] = "alloc"
    /\ \E m \in pool : Fill(c, m, slot[c])
    /\ Goes(c, "put")
    /\ UNCHANGED <<recvQue, ackQue, inUse, req, slot, rcvd, link>>

Deliver(c) ==
    /\ Len(recvQue[req[c].to]) < RecvMax
    /\ recvQue' = [recvQue EXCEPT ![req[c].to] = Append(@, sent[c])]
    /\ UNCHANGED <<pool, ackQue, inUse, msg, req, slot, rcvd, link>>

Put(c) == /\ at[c] = "put" /\ Deliver(c)
          /\ Goes(c, IF req[c].ack THEN "wait" ELSE "release")
          /\ sent' = IF req[c].ack THEN sent ELSE [sent EXCEPT ![c] = NoMsg]

\* An acknowledgement, of this message or of another one, is there.
WaitAck(c) ==
    /\ at[c] = "wait" /\ ackQue[slot[c]] # <<>>
    /\ rcvd' = [rcvd EXCEPT ![c] = Head(ackQue[slot[c]])]
    /\ ackQue' = [ackQue EXCEPT ![slot[c]] = Tail(@)]
    /\ Goes(c, "free")
    /\ UNCHANGED <<pool, recvQue, inUse, msg, req, slot, sent, link>>

\* The received message is freed; if it is not the one sent, wait on.
Free(c) ==
    /\ at[c] = "free"
    /\ pool' = pool \cup {rcvd[c]}
    /\ rcvd' = [rcvd EXCEPT ![c] = NoMsg]
    /\ IF rcvd[c] = sent[c]
       THEN Goes(c, "release") /\ sent' = [sent EXCEPT ![c] = NoMsg]
       ELSE Goes(c, "wait") /\ UNCHANGED sent
    /\ UNCHANGED <<recvQue, ackQue, inUse, msg, req, slot, link>>

\* Mutant: a sender that does not wait leaves its slot reserved.
Release_onlyWaiters(c) ==
    /\ at[c] = "release"
    /\ inUse' = [inUse EXCEPT ![slot[c]] = ~req[c].ack]
    /\ Goes(c, "idle")
    /\ UNCHANGED <<pool, recvQue, ackQue, msg, req, slot, sent, rcvd, link>>
Release(c) ==
    /\ at[c] = "release"
    /\ inUse' = [inUse EXCEPT ![slot[c]] = FALSE]
    /\ Goes(c, "idle")
    /\ UNCHANGED <<pool, recvQue, ackQue, msg, req, slot, sent, rcvd, link>>

\* Utils_mbxSendCmd waits for nothing: no message or no room is an error.
AllocCmd(c) ==
    /\ at[c] = "allocCmd"
    /\ \/ \E m \in pool : Fill(c, m, 0) /\ Goes(c, "putCmd")
       \/ pool = {} /\ Goes(c, "idle") /\ UNCHANGED <<pool, sent, msg>>
    /\ UNCHANGED <<recvQue, ackQue, inUse, req, slot, rcvd, link>>

PutCmd(c) ==
    /\ at[c] = "putCmd" /\ Deliver(c)
    /\ sent' = [sent EXCEPT ![c] = NoMsg]
    /\ Goes(c, "idle")

PutCmdFull(c) ==
    /\ at[c] = "putCmd" /\ Len(recvQue[req[c].to]) = RecvMax
    /\ Goes(c, "freeCmd")
    /\ UNCHANGED <<queues, req, slot, sent, rcvd, link>>

\* Mutant: the message that could not be put is not given back.
FreeCmd_forgotten(c) ==
    /\ at[c] = "freeCmd"
    /\ sent' = [sent EXCEPT ![c] = NoMsg]
    /\ Goes(c, "idle")
    /\ UNCHANGED <<queues, req, slot, rcvd, link>>
FreeCmd(c) ==
    /\ at[c] = "freeCmd"
    /\ pool' = pool \cup {sent[c]}
    /\ sent' = [sent EXCEPT ![c] = NoMsg]
    /\ Goes(c, "idle")
    /\ UNCHANGED <<recvQue, ackQue, inUse, msg, req, slot, rcvd, link>>

-----------------------------------------------------------------------------
(* Receivers                                                                *)

\* Utils_mbxRecvMsg in the main loop of the link.
Recv(l) ==
    /\ held[l] = NoMsg /\ recvQue[l] # <<>>
    /\ held' = [held EXCEPT ![l] = Head(recvQue[l])]
    /\ recvQue' = [recvQue EXCEPT ![l] = Tail(@)]
    /\ UNCHANGED <<pool, ackQue, inUse, msg, caller, taken, waiting>>

\* Utils_mbxAckOrFreeMsg; the result it stores in the message is left out.
AckOrFree(m) ==
    IF msg[m].ack
    THEN /\ Len(ackQue[msg[m].slot]) < AckMax
         /\ ackQue' = [ackQue EXCEPT ![msg[m].slot] = Append(@, m)]
         /\ UNCHANGED pool
    ELSE /\ pool' = pool \cup {m}
         /\ UNCHANGED ackQue

\* The link is done with the message.
Answer(l) ==
    /\ held[l] # NoMsg /\ ~waiting[l]
    /\ AckOrFree(held[l])
    /\ held' = [held EXCEPT ![l] = NoMsg]
    /\ UNCHANGED <<recvQue, inUse, msg, caller, taken, waiting>>

\* A handler (a stop) waits in Utils_mbxWaitCmd for a "processed" command.
StartWait(l) ==
    /\ held[l] # NoMsg /\ ~waiting[l] /\ msg[held[l]].ack
    /\ waiting' = [waiting EXCEPT ![l] = TRUE]
    /\ UNCHANGED <<queues, caller, held, taken>>

WaitRecv(l) ==
    /\ waiting[l] /\ taken[l] = NoMsg /\ recvQue[l] # <<>>
    /\ taken' = [taken EXCEPT ![l] = Head(recvQue[l])]
    /\ recvQue' = [recvQue EXCEPT ![l] = Tail(@)]
    /\ UNCHANGED <<pool, ackQue, inUse, msg, caller, held, waiting>>

\* Mutant: a message that is not the awaited one is freed, not acknowledged.
WaitTaken_free(l) ==
    /\ waiting[l] /\ taken[l] # NoMsg
    /\ IF msg[taken[l]].cmd = "processed" THEN AckOrFree(taken[l])
       ELSE pool' = pool \cup {taken[l]} /\ UNCHANGED ackQue
    /\ taken' = [taken EXCEPT ![l] = NoMsg]
    /\ waiting' = [waiting EXCEPT ![l] = msg[taken[l]].cmd # "processed"]
    /\ UNCHANGED <<recvQue, inUse, msg, caller, held>>
\* Any message it takes is acknowledged with 0; the awaited one ends it.
WaitTaken(l) ==
    /\ waiting[l] /\ taken[l] # NoMsg
    /\ AckOrFree(taken[l])
    /\ taken' = [taken EXCEPT ![l] = NoMsg]
    /\ waiting' = [waiting EXCEPT ![l] = msg[taken[l]].cmd # "processed"]
    /\ UNCHANGED <<recvQue, inUse, msg, caller, held>>

-----------------------------------------------------------------------------
Send(c) == \/ Reserve(c) \/ NoSlot(c) \/ Alloc(c) \/ Put(c) \/ WaitAck(c)
           \/ Free(c) \/ Release(c)
           \/ AllocCmd(c) \/ PutCmd(c) \/ PutCmdFull(c) \/ FreeCmd(c)
Receive(l) == Recv(l) \/ Answer(l) \/ StartWait(l) \/ WaitRecv(l) \/ WaitTaken(l)

MbxNext ==
    \/ \E c \in Caller : MbxBegin(c) \/ Send(c)
    \/ \E l \in Link : Receive(l)

MbxSpec == MbxInit /\ [][MbxNext]_mbxVars

(* Every task is scheduled, and a link comes to the end of each handler,    *)
(* also of one that waits for several "processed" commands.                 *)
MbxFairSpec ==
    /\ MbxSpec
    /\ \A c \in Caller : WF_mbxVars(Send(c))
    /\ \A l \in Link : /\ WF_mbxVars(Recv(l) \/ WaitRecv(l) \/ WaitTaken(l))
                       /\ SF_mbxVars(Answer(l))

-----------------------------------------------------------------------------
\* Where a sender has a message in hand that it has not passed on.
Sending == {"put", "putCmd", "freeCmd"}
\* Who has message m: the pool, a queue, a sender, a waiter or a link.
OwnersByKind(m) ==
    [pool    |-> {m} \cap pool,
     recvQue |-> {l \in Link : m \in Range(recvQue[l])},
     ackQue  |-> {i \in Slot : m \in Range(ackQue[i])},
     sent    |-> {c \in Caller : at[c] \in Sending /\ sent[c] = m},
     rcvd    |-> {c \in Caller : rcvd[c] = m},
     held    |-> {l \in Link : held[l] = m},
     taken   |-> {l \in Link : taken[l] = m}]
Owners(m) == Tagged(OwnersByKind(m))

(* A message is never lost and never in two hands: at every instant each    *)
(* one is in the pool, in one queue and there once, or with one task,       *)
(* through every failure path of the two send calls.                        *)
OneOwner == /\ MbxTypeOK
            /\ \A m \in Msg : Cardinality(Owners(m)) = 1
            /\ \A l \in Link : IsInjective(recvQue[l])
            /\ \A i \in Slot : IsInjective(ackQue[i])

\* The callers that hold slot i.
Holders(i) == {c \in Caller : slot[c] = i
                              /\ at[c] \in {"alloc", "put", "wait", "free", "release"}}
(* An acknowledgement that lies in a slot, or is about to be put in one by  *)
(* a link, is the message the one holder of that slot waits for: nobody     *)
(* gets the reply to another's call and the warning of line 268 is never    *)
(* printed.  No slot is shared and none is leaked, waiting or not.          *)
AcksMatch ==
    /\ \A i \in Slot :
          /\ Cardinality(Holders(i)) = IF inUse[i] THEN 1 ELSE 0
          /\ Len(ackQue[i]) <= 1
          /\ ackQue[i] # <<>> => \E c \in Holders(i) : at[c] = "wait" /\ sent[c] = Head(ackQue[i])
    /\ \A l \in Link : \A m \in {held[l], taken[l]} \ {NoMsg} :
          msg[m].ack => \E c \in Holders(msg[m].slot) : sent[c] = m /\ at[c] = "wait"

(* If no link waits inside a handler for ever, every caller that waits for  *)
(* an acknowledgement gets one, also when the link took its message inside  *)
(* the Utils_mbxWaitCmd of another message.                                 *)
Answered == (\A l \in Link : []<>~waiting[l]) => \A c \in Caller : []<>(at[c] # "wait")
=============================================================================
