---------------------------- MODULE UtilsProofs ----------------------------
(* Theorems of UtilsMbx, for every set of senders, links, messages and ack  *)
(* slots, every queue length and every set of requests, and of UtilsQue,    *)
(* for every set of tasks, every ring size and every set of calls.          *)
EXTENDS UtilsQue, UtilsMbx, OwningLemmas

-----------------------------------------------------------------------------
(* The mailbox.                                                             *)

LEMMA SlotNumbers == Slot \subseteq Nat /\ 1 \in Slot
<1>1. Cardinality(Slot) \in Nat
  BY SlotAssumption, FS_CardinalityType
<1> QED
  BY <1>1, SlotAssumption

\* The slot a sender reserves is a free one.
LEMMA ReservesFree ==
    ASSUME NEW c \in Caller, MbxTypeOK, Reserve(c)
    PROVE  \E i \in FreeSlots : /\ inUse' = [inUse EXCEPT ![i] = TRUE]
                                /\ slot' = [slot EXCEPT ![c] = i]
<1>1. FreeSlots \subseteq Nat /\ FreeSlots # {}
  BY SlotNumbers DEF FreeSlots, Reserve
<1>2. \E i \in FreeSlots : \A k \in FreeSlots : i <= k
  BY <1>1, LeastNatural
<1>3. (CHOOSE j \in FreeSlots : \A k \in FreeSlots : j <= k) \in FreeSlots
  BY <1>2
<1> QED
  BY <1>3 DEF Reserve

-----------------------------------------------------------------------------
(* No message is lost or owned twice.  The steps of a sender hand over what *)
(* sent and rcvd name, so the induction needs that at those steps they name *)
(* a message, and that rcvd is empty when an acknowledgement is taken; a    *)
(* link puts an acknowledgement in the slot the message names, so that has  *)
(* to be one, although commands are sent without a slot.                    *)
InHand == \A c \in Caller :
    /\ at[c] \in Sending => sent[c] \in Msg
    /\ at[c] = "free" <=> rcvd[c] \in Msg
    /\ at[c] = "allocCmd" => req[c].via = "cmd"

OwnInv == /\ MbxTypeOK
          /\ InHand
          /\ \A m \in Msg : msg[m].ack => msg[m].slot \in Slot
          /\ \A m \in Msg : Sole(Owners(m))
          /\ \A l \in Link : IsInjective(recvQue[l])
          /\ \A i \in Slot : IsInjective(ackQue[i])

\* The kinds of owners.
Kind == {"pool", "recvQue", "ackQue", "sent", "rcvd", "held", "taken"}

\* Who owns message m, one kind at a time, before and after a step.
LEMMA ByKind ==
    ASSUME NEW m, NEW w
    PROVE  /\ DOMAIN OwnersByKind(m) = Kind
           /\ w \in OwnersByKind(m)["pool"] <=> w = m /\ m \in pool
           /\ w \in OwnersByKind(m)["recvQue"] <=> w \in Link /\ m \in Range(recvQue[w])
           /\ w \in OwnersByKind(m)["ackQue"] <=> w \in Slot /\ m \in Range(ackQue[w])
           /\ w \in OwnersByKind(m)["sent"] <=>
                 w \in Caller /\ at[w] \in Sending /\ sent[w] = m
           /\ w \in OwnersByKind(m)["rcvd"] <=> w \in Caller /\ rcvd[w] = m
           /\ w \in OwnersByKind(m)["held"] <=> w \in Link /\ held[w] = m
           /\ w \in OwnersByKind(m)["taken"] <=> w \in Link /\ taken[w] = m
BY DEF OwnersByKind, Kind

LEMMA ByKindNext ==
    ASSUME NEW m, NEW w
    PROVE  /\ DOMAIN OwnersByKind(m)' = Kind
           /\ w \in OwnersByKind(m)'["pool"] <=> w = m /\ m \in pool'
           /\ w \in OwnersByKind(m)'["recvQue"] <=> w \in Link /\ m \in Range(recvQue'[w])
           /\ w \in OwnersByKind(m)'["ackQue"] <=> w \in Slot /\ m \in Range(ackQue'[w])
           /\ w \in OwnersByKind(m)'["sent"] <=>
                 w \in Caller /\ at'[w] \in Sending /\ sent'[w] = m
           /\ w \in OwnersByKind(m)'["rcvd"] <=> w \in Caller /\ rcvd'[w] = m
           /\ w \in OwnersByKind(m)'["held"] <=> w \in Link /\ held'[w] = m
           /\ w \in OwnersByKind(m)'["taken"] <=> w \in Link /\ taken'[w] = m
BY DEF OwnersByKind, Kind

\* A step by which owner x of kind k passes message m0 on to y of kind l.
Passes(m0, k, x, l, y) ==
    \A m \in Msg : \A j \in Kind : \A w :
       w \in OwnersByKind(m)'[j] <=>
          \/ w \in OwnersByKind(m)[j] /\ ~(m = m0 /\ j = k /\ w = x)
          \/ m = m0 /\ j = l /\ w = y

LEMMA PassesSole ==
    ASSUME OwnInv, NEW m0 \in Msg, NEW k \in Kind, NEW x, NEW l \in Kind, NEW y,
           k # l, x \in OwnersByKind(m0)[k], Passes(m0, k, x, l, y)
    PROVE  \A m \in Msg : Sole(Owners(m)')
<1>1. \A m : DOMAIN OwnersByKind(m) = Kind /\ DOMAIN OwnersByKind(m)' = Kind
  BY ByKind, ByKindNext
<1>2. HandsOver(OwnersByKind(m0), OwnersByKind(m0)', k, x, l, y)
  BY <1>1 DEF Passes, HandsOver
<1>3. \A m \in Msg \ {m0} : Keeps(OwnersByKind(m), OwnersByKind(m)')
  BY <1>1 DEF Passes, Keeps
<1> QED
  BY <1>2, <1>3, HandOver, Keep DEF OwnInv, Owners

\* A step after which everybody has what he had.
LEMMA StaysSole ==
    ASSUME OwnInv, UNCHANGED <<pool, recvQue, ackQue, sent, rcvd, held, taken>>,
           \A c \in Caller : at'[c] \in Sending <=> at[c] \in Sending
    PROVE  \A m \in Msg : Sole(Owners(m)')
<1>1. ASSUME NEW m \in Msg, NEW j \in Kind, NEW w
      PROVE  w \in OwnersByKind(m)'[j] <=> w \in OwnersByKind(m)[j]
  BY ByKind, ByKindNext DEF Kind
<1>2. \A m : DOMAIN OwnersByKind(m) = Kind /\ DOMAIN OwnersByKind(m)' = Kind
  BY ByKind, ByKindNext
<1>3. \A m \in Msg : Keeps(OwnersByKind(m), OwnersByKind(m)')
  BY <1>1, <1>2 DEF Keeps
<1> QED
  BY <1>3, Keep DEF OwnInv, Owners

\* Recv and WaitRecv: the link takes the head of its mailbox.
LEMMA TakesHead ==
    ASSUME OwnInv, NEW l \in Link, recvQue[l] # <<>>
    PROVE  /\ Head(recvQue[l]) \in Msg
           /\ Head(recvQue[l]) \in Range(recvQue[l])
           /\ Tail(recvQue[l]) \in Seq(Msg)
           /\ IsInjective(Tail(recvQue[l]))
           /\ Range(Tail(recvQue[l])) = Range(recvQue[l]) \ {Head(recvQue[l])}
<1>1. recvQue[l] \in Seq(Msg) /\ IsInjective(recvQue[l])
  BY DEF OwnInv, MbxTypeOK
<1> QED
  BY <1>1, QueueTake

LEMMA RecvOwners ==
    ASSUME OwnInv, NEW l \in Link, Recv(l) PROVE \A m \in Msg : Sole(Owners(m)')
<1>1. PICK m0 \in Msg : m0 = Head(recvQue[l])
  BY TakesHead DEF Recv
<1>2. /\ m0 \in Range(recvQue[l])
      /\ Range(Tail(recvQue[l])) = Range(recvQue[l]) \ {m0}
  BY <1>1, TakesHead DEF Recv
<1>3. /\ held[l] = NoMsg /\ held' = [held EXCEPT ![l] = m0]
      /\ recvQue' = [recvQue EXCEPT ![l] = Tail(@)]
      /\ UNCHANGED <<pool, ackQue, at, sent, rcvd, taken>>
  BY <1>1 DEF Recv, caller
<1>4. ASSUME NEW m \in Msg, NEW j \in Kind, NEW w
      PROVE  w \in OwnersByKind(m)'[j] <=>
                \/ w \in OwnersByKind(m)[j] /\ ~(m = m0 /\ j = "recvQue" /\ w = l)
                \/ m = m0 /\ j = "held" /\ w = l
  <2> USE <1>2, <1>3, ByKind, ByKindNext DEF OwnInv, MbxTypeOK
  <2>1. CASE j = "recvQue"
    BY <2>1
  <2>2. CASE j = "held"
    BY <2>2, NoMsgAssumption
  <2>3. CASE j \in Kind \ {"recvQue", "held"}
    BY <2>3 DEF Kind
  <2> QED BY <2>1, <2>2, <2>3
<1>5. Passes(m0, "recvQue", l, "held", l)
  BY <1>4 DEF Passes
<1>6. l \in OwnersByKind(m0)["recvQue"]
  BY <1>2, ByKind
<1> QED
  BY <1>5, <1>6, PassesSole DEF Kind

LEMMA WaitRecvOwners ==
    ASSUME OwnInv, NEW l \in Link, WaitRecv(l) PROVE \A m \in Msg : Sole(Owners(m)')
<1>1. PICK m0 \in Msg : m0 = Head(recvQue[l])
  BY TakesHead DEF WaitRecv
<1>2. /\ m0 \in Range(recvQue[l])
      /\ Range(Tail(recvQue[l])) = Range(recvQue[l]) \ {m0}
  BY <1>1, TakesHead DEF WaitRecv
<1>3. /\ taken[l] = NoMsg /\ taken' = [taken EXCEPT ![l] = m0]
      /\ recvQue' = [recvQue EXCEPT ![l] = Tail(@)]
      /\ UNCHANGED <<pool, ackQue, at, sent, rcvd, held>>
  BY <1>1 DEF WaitRecv, caller
<1>4. ASSUME NEW m \in Msg, NEW j \in Kind, NEW w
      PROVE  w \in OwnersByKind(m)'[j] <=>
                \/ w \in OwnersByKind(m)[j] /\ ~(m = m0 /\ j = "recvQue" /\ w = l)
                \/ m = m0 /\ j = "taken" /\ w = l
  <2> USE <1>2, <1>3, ByKind, ByKindNext DEF OwnInv, MbxTypeOK
  <2>1. CASE j = "recvQue"
    BY <2>1
  <2>2. CASE j = "taken"
    BY <2>2, NoMsgAssumption
  <2>3. CASE j \in Kind \ {"recvQue", "taken"}
    BY <2>3 DEF Kind
  <2> QED BY <2>1, <2>2, <2>3
<1>5. Passes(m0, "recvQue", l, "taken", l)
  BY <1>4 DEF Passes
<1>6. l \in OwnersByKind(m0)["recvQue"]
  BY <1>2, ByKind
<1> QED
  BY <1>5, <1>6, PassesSole DEF Kind

\* Alloc and AllocCmd: a message of the pool goes to the sender.
LEMMA FillOwners ==
    ASSUME OwnInv, NEW c \in Caller, NEW m0 \in pool, NEW i, Fill(c, m0, i),
           at[c] \notin Sending, NEW p \in Sending, Goes(c, p),
           UNCHANGED <<recvQue, ackQue, rcvd, held, taken>>
    PROVE  \A m \in Msg : Sole(Owners(m)')
<1>1. /\ m0 \in Msg /\ pool' = pool \ {m0} /\ sent' = [sent EXCEPT ![c] = m0]
      /\ at' = [at EXCEPT ![c] = p]
  BY DEF Fill, Goes, OwnInv, MbxTypeOK
<1>2. ASSUME NEW m \in Msg, NEW j \in Kind, NEW w
      PROVE  w \in OwnersByKind(m)'[j] <=>
                \/ w \in OwnersByKind(m)[j] /\ ~(m = m0 /\ j = "pool" /\ w = m0)
                \/ m = m0 /\ j = "sent" /\ w = c
  <2> USE <1>1, ByKind, ByKindNext DEF OwnInv, MbxTypeOK
  <2>1. CASE j = "pool"
    BY <2>1
  <2>2. CASE j = "sent"
    BY <2>2
  <2>3. CASE j \in Kind \ {"pool", "sent"}
    BY <2>3 DEF Kind
  <2> QED BY <2>1, <2>2, <2>3
<1>3. Passes(m0, "pool", m0, "sent", c)
  BY <1>2 DEF Passes
<1>4. m0 \in OwnersByKind(m0)["pool"]
  BY ByKind
<1> QED
  BY <1>1, <1>3, <1>4, PassesSole DEF Kind

\* Put and PutCmd: the message goes to the back of the mailbox.
LEMMA DeliverOwners ==
    ASSUME OwnInv, NEW c \in Caller, Deliver(c), at[c] \in Sending,
           NEW p \in At \ Sending, Goes(c, p),
           \A b \in Caller : b # c => sent'[b] = sent[b]
    PROVE  /\ \A m \in Msg : Sole(Owners(m)')
           /\ recvQue' \in [Link -> Seq(Msg)]
           /\ \A l \in Link : IsInjective(recvQue'[l])
<1> DEFINE l0 == req[c].to
<1>1. /\ l0 \in Link /\ recvQue[l0] \in Seq(Msg) /\ sent[c] \in Msg
      /\ IsInjective(recvQue[l0])
  BY DEF OwnInv, InHand, MbxTypeOK, Request
<1>2. PICK m0 \in Msg, l \in Link : m0 = sent[c] /\ l = l0
  BY <1>1
<1>3. /\ recvQue' = [recvQue EXCEPT ![l] = Append(recvQue[l], m0)]
      /\ at' = [at EXCEPT ![c] = p]
      /\ UNCHANGED <<pool, ackQue, rcvd, held, taken>>
  BY <1>2 DEF Deliver, Goes, link
<1>4. c \in OwnersByKind(m0)["sent"]
  BY <1>2, ByKind
<1>5. m0 \notin Range(recvQue[l])
  <2> SUFFICES ASSUME l \in OwnersByKind(m0)["recvQue"] PROVE FALSE
    BY ByKind
  <2>1. Sole(Tagged(OwnersByKind(m0))) /\ DOMAIN OwnersByKind(m0) = Kind
    BY ByKind DEF OwnInv, Owners
  <2>2. "sent" = "recvQue"
    BY <1>4, <2>1, NowhereElse DEF Kind
  <2> QED BY <2>2
<1>6. /\ Append(recvQue[l], m0) \in Seq(Msg)
      /\ Range(Append(recvQue[l], m0)) = Range(recvQue[l]) \cup {m0}
      /\ IsInjective(Append(recvQue[l], m0))
  BY <1>1, <1>2, <1>5, QueueAppend
<1>7. ASSUME NEW m \in Msg, NEW j \in Kind, NEW w
      PROVE  w \in OwnersByKind(m)'[j] <=>
                \/ w \in OwnersByKind(m)[j] /\ ~(m = m0 /\ j = "sent" /\ w = c)
                \/ m = m0 /\ j = "recvQue" /\ w = l
  <2> USE <1>2, <1>3, <1>6, ByKind, ByKindNext DEF OwnInv, MbxTypeOK
  <2>1. CASE j = "recvQue"
    BY <2>1
  <2>2. CASE j = "sent"
    <3>1. \A b \in Caller : b # c => at'[b] = at[b] /\ sent'[b] = sent[b]
      OBVIOUS
    <3>2. at'[c] \notin Sending
      OBVIOUS
    <3>3. /\ w \in OwnersByKind(m)'["sent"] <=> w \in Caller /\ at'[w] \in Sending /\ sent'[w] = m
          /\ w \in OwnersByKind(m)["sent"] <=> w \in Caller /\ at[w] \in Sending /\ sent[w] = m
      OBVIOUS
    <3>4. CASE w = c
      BY <2>2, <3>2, <3>3, <3>4
    <3>5. CASE w # c
      BY <2>2, <3>1, <3>3, <3>5
    <3> QED BY <3>4, <3>5
  <2>3. CASE j \in Kind \ {"recvQue", "sent"}
    BY <2>3 DEF Kind
  <2> QED BY <2>1, <2>2, <2>3
<1>8. Passes(m0, "sent", c, "recvQue", l)
  BY <1>7 DEF Passes
<1>9. \A m \in Msg : Sole(Owners(m)')
  BY <1>4, <1>8, PassesSole DEF Kind
<1> QED
  BY <1>3, <1>6, <1>9 DEF OwnInv, MbxTypeOK
LEMMA WaitAckOwners ==
    ASSUME OwnInv, NEW c \in Caller, WaitAck(c)
    PROVE  /\ \A m \in Msg : Sole(Owners(m)')
           /\ rcvd'[c] \in Msg
           /\ ackQue' \in [Slot -> Seq(Msg)]
           /\ \A i \in Slot : IsInjective(ackQue'[i])
<1>1. /\ slot[c] \in Slot /\ ackQue[slot[c]] \in Seq(Msg) /\ IsInjective(ackQue[slot[c]])
      /\ ackQue[slot[c]] # <<>>
  BY DEF OwnInv, MbxTypeOK, WaitAck
<1>2. PICK m0 \in Msg, i \in Slot : i = slot[c] /\ m0 = Head(ackQue[i])
  BY <1>1, QueueTake
<1>3. /\ m0 \in Range(ackQue[i])
      /\ Tail(ackQue[i]) \in Seq(Msg)
      /\ IsInjective(Tail(ackQue[i]))
      /\ Range(Tail(ackQue[i])) = Range(ackQue[i]) \ {m0}
  BY <1>1, <1>2, QueueTake
<1>4. /\ at[c] = "wait" /\ at' = [at EXCEPT ![c] = "free"]
      /\ rcvd' = [rcvd EXCEPT ![c] = m0]
      /\ ackQue' = [ackQue EXCEPT ![i] = Tail(ackQue[i])]
      /\ UNCHANGED <<pool, recvQue, sent, held, taken>>
  BY <1>2 DEF WaitAck, Goes, link
<1>5. rcvd[c] = NoMsg
  BY <1>4 DEF OwnInv, InHand, MbxTypeOK
<1>a. ASSUME NEW m, NEW w
      PROVE  w \in OwnersByKind(m)'["sent"] <=> w \in OwnersByKind(m)["sent"]
  <2>1. \A b \in Caller : /\ at'[b] \in Sending <=> at[b] \in Sending
                          /\ at[b] \in Sending => sent'[b] = sent[b]
    BY <1>4 DEF Sending, OwnInv, MbxTypeOK
  <2> QED BY <2>1, ByKind, ByKindNext
<1>6. ASSUME NEW m \in Msg, NEW j \in Kind, NEW w
      PROVE  w \in OwnersByKind(m)'[j] <=>
                \/ w \in OwnersByKind(m)[j] /\ ~(m = m0 /\ j = "ackQue" /\ w = i)
                \/ m = m0 /\ j = "rcvd" /\ w = c
  <2> USE <1>3, <1>4, <1>5, ByKind, ByKindNext DEF OwnInv, MbxTypeOK
  <2>1. CASE j = "ackQue"
    BY <2>1
  <2>2. CASE j = "rcvd"
    BY <2>2, NoMsgAssumption
  <2>3. CASE j = "sent"
    BY <2>3, <1>a
  <2>4. CASE j \in Kind \ {"ackQue", "rcvd", "sent"}
    BY <2>4 DEF Kind
  <2> QED BY <2>1, <2>2, <2>3, <2>4
<1>7. Passes(m0, "ackQue", i, "rcvd", c)
  BY <1>6 DEF Passes
<1>8. i \in OwnersByKind(m0)["ackQue"]
  BY <1>3, ByKind
<1>9. \A m \in Msg : Sole(Owners(m)')
  BY <1>7, <1>8, PassesSole DEF Kind
<1> QED
  BY <1>3, <1>4, <1>9 DEF OwnInv, MbxTypeOK

\* The message a waiter received goes back to the pool.
LEMMA FreeOwners ==
    ASSUME OwnInv, NEW c \in Caller, Free(c)
    PROVE  \A m \in Msg : Sole(Owners(m)')
<1>1. PICK m0 \in Msg : m0 = rcvd[c]
  BY DEF OwnInv, InHand, Free
<1>2. /\ at[c] = "free" /\ at'[c] \in {"release", "wait"}
      /\ \A b \in Caller \ {c} : at'[b] = at[b] /\ sent'[b] = sent[b]
      /\ pool' = pool \cup {m0}
      /\ rcvd' = [rcvd EXCEPT ![c] = NoMsg]
      /\ UNCHANGED <<recvQue, ackQue, held, taken>>
  BY <1>1 DEF Free, Goes, OwnInv, MbxTypeOK, link
<1>a. ASSUME NEW m, NEW w
      PROVE  w \in OwnersByKind(m)'["sent"] <=> w \in OwnersByKind(m)["sent"]
  <2>1. \A b \in Caller : /\ at'[b] \in Sending <=> at[b] \in Sending
                          /\ at[b] \in Sending => sent'[b] = sent[b]
    BY <1>2 DEF Sending, OwnInv, MbxTypeOK
  <2> QED BY <2>1, ByKind, ByKindNext
<1>3. ASSUME NEW m \in Msg, NEW j \in Kind, NEW w
      PROVE  w \in OwnersByKind(m)'[j] <=>
                \/ w \in OwnersByKind(m)[j] /\ ~(m = m0 /\ j = "rcvd" /\ w = c)
                \/ m = m0 /\ j = "pool" /\ w = m0
  <2> USE <1>2, ByKind, ByKindNext DEF OwnInv, MbxTypeOK
  <2>1. CASE j = "rcvd"
    BY <1>1, <2>1, NoMsgAssumption
  <2>2. CASE j = "pool"
    BY <2>2
  <2>3. CASE j = "sent"
    BY <2>3, <1>a
  <2>4. CASE j \in Kind \ {"rcvd", "pool", "sent"}
    BY <2>4 DEF Kind
  <2> QED BY <2>1, <2>2, <2>3, <2>4
<1>4. Passes(m0, "rcvd", c, "pool", m0)
  BY <1>3 DEF Passes
<1>5. c \in OwnersByKind(m0)["rcvd"]
  BY <1>1, ByKind
<1> QED
  BY <1>4, <1>5, PassesSole DEF Kind

LEMMA FreeCmdOwners ==
    ASSUME OwnInv, NEW c \in Caller, FreeCmd(c)
    PROVE  \A m \in Msg : Sole(Owners(m)')
<1>1. PICK m0 \in Msg : m0 = sent[c]
  BY DEF OwnInv, InHand, FreeCmd, Sending
<1>2. /\ at[c] = "freeCmd" /\ at' = [at EXCEPT ![c] = "idle"]
      /\ sent' = [sent EXCEPT ![c] = NoMsg]
      /\ pool' = pool \cup {m0}
      /\ UNCHANGED <<recvQue, ackQue, rcvd, held, taken>>
  BY <1>1 DEF FreeCmd, Goes, link
<1>3. ASSUME NEW m \in Msg, NEW j \in Kind, NEW w
      PROVE  w \in OwnersByKind(m)'[j] <=>
                \/ w \in OwnersByKind(m)[j] /\ ~(m = m0 /\ j = "sent" /\ w = c)
                \/ m = m0 /\ j = "pool" /\ w = m0
  <2> USE <1>2, ByKind, ByKindNext DEF OwnInv, MbxTypeOK
  <2>1. CASE j = "sent"
    BY <1>1, <2>1 DEF Sending
  <2>2. CASE j = "pool"
    BY <2>2
  <2>3. CASE j \in Kind \ {"pool", "sent"}
    BY <2>3 DEF Kind
  <2> QED BY <2>1, <2>2, <2>3
<1>4. Passes(m0, "sent", c, "pool", m0)
  BY <1>3 DEF Passes
<1>5. c \in OwnersByKind(m0)["sent"]
  BY <1>1, <1>2, ByKind DEF Sending
<1> QED
  BY <1>4, <1>5, PassesSole DEF Kind

\* A link acknowledges or frees the message m0 it has as owner of kind k.
LEMMA AckOrFreeOwners ==
    ASSUME OwnInv, NEW l \in Link, NEW m0 \in Msg, AckOrFree(m0),
           NEW k \in {"held", "taken"}, l \in OwnersByKind(m0)[k],
           held' = IF k = "held" THEN [held EXCEPT ![l] = NoMsg] ELSE held,
           taken' = IF k = "taken" THEN [taken EXCEPT ![l] = NoMsg] ELSE taken,
           UNCHANGED <<recvQue, at, sent, rcvd>>
    PROVE  /\ \A m \in Msg : Sole(Owners(m)')
           /\ pool' \subseteq Msg
           /\ ackQue' \in [Slot -> Seq(Msg)]
           /\ \A i \in Slot : IsInjective(ackQue'[i])
<1>1. CASE ~msg[m0].ack
  <2>1. pool' = pool \cup {m0} /\ ackQue' = ackQue
    BY <1>1 DEF AckOrFree
  <2>2. ASSUME NEW m \in Msg, NEW j \in Kind, NEW w
        PROVE  w \in OwnersByKind(m)'[j] <=>
                  \/ w \in OwnersByKind(m)[j] /\ ~(m = m0 /\ j = k /\ w = l)
                  \/ m = m0 /\ j = "pool" /\ w = m0
    <3> USE <2>1, ByKind, ByKindNext DEF OwnInv, MbxTypeOK
    <3>1. CASE j = "held"
      BY <3>1, NoMsgAssumption
    <3>2. CASE j = "taken"
      BY <3>2, NoMsgAssumption
    <3>3. CASE j = "pool"
      BY <3>3
    <3>4. CASE j \in Kind \ {"held", "taken", "pool"}
      BY <3>4 DEF Kind
    <3> QED BY <3>1, <3>2, <3>3, <3>4
  <2>3. Passes(m0, k, l, "pool", m0)
    BY <2>2 DEF Passes
  <2>4. \A m \in Msg : Sole(Owners(m)')
    BY <2>3, PassesSole DEF Kind
  <2> QED BY <2>1, <2>4 DEF OwnInv, MbxTypeOK
<1>2. CASE msg[m0].ack
  <2>1. PICK i \in Slot : i = msg[m0].slot
    BY <1>2 DEF OwnInv
  <2>2. ackQue' = [ackQue EXCEPT ![i] = Append(ackQue[i], m0)] /\ pool' = pool
    BY <1>2, <2>1 DEF AckOrFree
  <2>3. ackQue[i] \in Seq(Msg) /\ IsInjective(ackQue[i])
    BY DEF OwnInv, MbxTypeOK
  <2>4. m0 \notin Range(ackQue[i])
    <3> SUFFICES ASSUME i \in OwnersByKind(m0)["ackQue"] PROVE FALSE
      BY ByKind
    <3>1. Sole(Tagged(OwnersByKind(m0))) /\ DOMAIN OwnersByKind(m0) = Kind
      BY ByKind DEF OwnInv, Owners
    <3>2. k = "ackQue"
      BY <3>1, NowhereElse DEF Kind
    <3> QED BY <3>2
  <2>5. /\ Append(ackQue[i], m0) \in Seq(Msg)
        /\ Range(Append(ackQue[i], m0)) = Range(ackQue[i]) \cup {m0}
        /\ IsInjective(Append(ackQue[i], m0))
    BY <2>3, <2>4, QueueAppend
  <2>6. ASSUME NEW m \in Msg, NEW j \in Kind, NEW w
        PROVE  w \in OwnersByKind(m)'[j] <=>
                  \/ w \in OwnersByKind(m)[j] /\ ~(m = m0 /\ j = k /\ w = l)
                  \/ m = m0 /\ j = "ackQue" /\ w = i
    <3> USE <2>2, <2>5, ByKind, ByKindNext DEF OwnInv, MbxTypeOK
    <3>1. CASE j = "held"
      BY <3>1, NoMsgAssumption
    <3>2. CASE j = "taken"
      BY <3>2, NoMsgAssumption
    <3>3. CASE j = "ackQue"
      BY <3>3
    <3>4. CASE j \in Kind \ {"held", "taken", "ackQue"}
      BY <3>4 DEF Kind
    <3> QED BY <3>1, <3>2, <3>3, <3>4
  <2>7. Passes(m0, k, l, "ackQue", i)
    BY <2>6 DEF Passes
  <2>8. \A m \in Msg : Sole(Owners(m)')
    BY <2>7, PassesSole DEF Kind
  <2> QED BY <2>2, <2>5, <2>8 DEF OwnInv, MbxTypeOK
<1> QED
  BY <1>1, <1>2

\* The fields of the messages, and what the senders have in hand.
LEMMA InHandStep ==
    ASSUME OwnInv, [MbxNext]_mbxVars
    PROVE  InHand' /\ \A m \in Msg : msg'[m].ack => msg'[m].slot \in Slot
<1> USE DEF OwnInv, InHand, MbxTypeOK, Goes, Sending
<1>1. ASSUME NEW c \in Caller, MbxBegin(c)
      PROVE  InHand' /\ msg' = msg
  <2>1. PICK r \in Requests[c] :
           /\ req' = [req EXCEPT ![c] = r]
           /\ at' = [at EXCEPT ![c] = IF r.via = "msg" THEN "reserve" ELSE "allocCmd"]
    BY <1>1 DEF MbxBegin
  <2>2. r \in Request /\ r.via \in {"msg", "cmd"}
    BY RequestAssumption DEF Request
  <2> QED BY <1>1, <2>1, <2>2 DEF MbxBegin, queues
<1>2. ASSUME NEW c \in Caller, Alloc(c)
      PROVE  InHand' /\ \A m \in Msg : msg'[m].ack => msg'[m].slot \in Slot
  BY <1>2 DEF Alloc, Fill
<1>3. ASSUME NEW c \in Caller, AllocCmd(c)
      PROVE  InHand' /\ \A m \in Msg : msg'[m].ack => msg'[m].slot \in Slot
  <2>1. CASE pool = {}
    BY <1>3, <2>1 DEF AllocCmd
  <2>2. CASE \E m \in pool : Fill(c, m, 0) /\ Goes(c, "putCmd")
    <3>1. PICK m \in pool : Fill(c, m, 0) /\ Goes(c, "putCmd")
      BY <2>2
    <3>2. req[c].via = "cmd"
      BY <1>3 DEF AllocCmd
    <3> QED BY <1>3, <3>1, <3>2 DEF AllocCmd, Fill
  <2> QED BY <1>3, <2>1, <2>2 DEF AllocCmd
<1>4. ASSUME NEW c \in Caller,
             Reserve(c) \/ NoSlot(c) \/ Put(c) \/ WaitAck(c) \/ Free(c) \/ Release(c)
             \/ PutCmd(c) \/ PutCmdFull(c) \/ FreeCmd(c)
      PROVE  InHand' /\ msg' = msg
  <2>1. CASE Reserve(c)
    BY <2>1 DEF Reserve
  <2>2. CASE NoSlot(c)
    BY <2>2 DEF NoSlot, queues
  <2>3. CASE Put(c)
    BY <2>3 DEF Put, Deliver
  <2>4. CASE WaitAck(c)
    BY <2>4, WaitAckOwners DEF WaitAck
  <2>5. CASE Free(c)
    BY <2>5, NoMsgAssumption DEF Free
  <2>6. CASE Release(c)
    BY <2>6 DEF Release
  <2>7. CASE PutCmd(c)
    BY <2>7 DEF PutCmd, Deliver
  <2>8. CASE PutCmdFull(c)
    BY <2>8 DEF PutCmdFull, queues
  <2>9. CASE FreeCmd(c)
    BY <2>9 DEF FreeCmd
  <2> QED BY <1>4, <2>1, <2>2, <2>3, <2>4, <2>5, <2>6, <2>7, <2>8, <2>9
<1>5. ASSUME NEW l \in Link, Receive(l)
      PROVE  InHand' /\ msg' = msg
  BY <1>5 DEF Receive, Recv, Answer, StartWait, WaitRecv, WaitTaken, caller, queues
<1>6. ASSUME UNCHANGED mbxVars PROVE InHand' /\ msg' = msg
  BY <1>6 DEF mbxVars, queues, caller
<1> QED
  BY <1>1, <1>2, <1>3, <1>4, <1>5, <1>6 DEF MbxNext, Send

LEMMA OwnersStep ==
    ASSUME OwnInv, [MbxNext]_mbxVars
    PROVE  /\ MbxTypeOK'
           /\ \A m \in Msg : Sole(Owners(m)')
           /\ \A l \in Link : IsInjective(recvQue'[l])
           /\ \A i \in Slot : IsInjective(ackQue'[i])
<1> DEFINE Goal == /\ MbxTypeOK'
                   /\ \A m \in Msg : Sole(Owners(m)')
                   /\ \A l \in Link : IsInjective(recvQue'[l])
                   /\ \A i \in Slot : IsInjective(ackQue'[i])
<1>0. MbxTypeOK /\ InHand
  BY DEF OwnInv
<1>a. ASSUME UNCHANGED <<pool, recvQue, ackQue, sent, rcvd, held, taken>>,
             \A c \in Caller : at'[c] \in Sending <=> at[c] \in Sending,
             MbxTypeOK'
      PROVE  Goal
  BY <1>a, StaysSole DEF OwnInv
<1>1. ASSUME NEW c \in Caller, MbxBegin(c) PROVE Goal
  <2>1. PICK r \in Request :
           /\ req' = [req EXCEPT ![c] = r]
           /\ at' = [at EXCEPT ![c] = IF r.via = "msg" THEN "reserve" ELSE "allocCmd"]
    BY <1>1, RequestAssumption DEF MbxBegin, Goes
  <2> QED BY <1>0, <1>1, <1>a, <2>1 DEF MbxBegin, Sending, MbxTypeOK, At, queues, link
<1>2. ASSUME NEW c \in Caller, Reserve(c) PROVE Goal
  <2>1. PICK i \in Slot : /\ inUse' = [inUse EXCEPT ![i] = TRUE]
                          /\ slot' = [slot EXCEPT ![c] = i]
    BY <1>0, <1>2, ReservesFree DEF FreeSlots
  <2>2. /\ at[c] = "reserve" /\ at' = [at EXCEPT ![c] = "alloc"]
        /\ UNCHANGED <<pool, recvQue, ackQue, msg, req, sent, rcvd, held, taken, waiting>>
    BY <1>2 DEF Reserve, Goes, link
  <2>3. MbxTypeOK'
    BY <1>0, <2>1, <2>2 DEF MbxTypeOK, At
  <2>4. \A b \in Caller : at'[b] \in Sending <=> at[b] \in Sending
    BY <1>0, <2>2 DEF MbxTypeOK, Sending
  <2> QED BY <2>2, <2>3, <2>4, <1>a
<1>3. ASSUME NEW c \in Caller, NoSlot(c) PROVE Goal
  BY <1>0, <1>3, <1>a DEF NoSlot, Goes, Sending, MbxTypeOK, At, queues, link
<1>4. ASSUME NEW c \in Caller, NEW m0 \in pool, NEW i \in Slot \cup {0}, Fill(c, m0, i),
             at[c] \notin Sending, NEW p \in Sending, Goes(c, p),
             UNCHANGED <<recvQue, ackQue, inUse, req, slot, rcvd, link>>
      PROVE  Goal
  <2>1. \A m \in Msg : Sole(Owners(m)')
    BY <1>4, FillOwners DEF link
  <2>2. MbxTypeOK'
    <3>1. [cmd |-> req[c].cmd, slot |-> i, ack |-> req[c].via = "msg" /\ req[c].ack] \in MsgRec
      BY <1>0 DEF MbxTypeOK, Request, MsgRec
    <3> QED BY <1>0, <1>4, <3>1 DEF Fill, Goes, Sending, MbxTypeOK, At, link
  <2> QED BY <1>4, <2>1, <2>2 DEF OwnInv
<1>5. ASSUME NEW c \in Caller, Alloc(c) PROVE Goal
  BY <1>0, <1>4, <1>5 DEF Alloc, Sending, MbxTypeOK
<1>6. ASSUME NEW c \in Caller, AllocCmd(c) PROVE Goal
  <2>1. CASE \E m \in pool : Fill(c, m, 0) /\ Goes(c, "putCmd")
    BY <1>4, <1>6, <2>1 DEF AllocCmd, Sending
  <2>2. CASE pool = {}
    BY <1>0, <1>6, <1>a, <2>2 DEF AllocCmd, Goes, Sending, MbxTypeOK, At, link
  <2> QED BY <1>6, <2>1, <2>2 DEF AllocCmd
<1>7. ASSUME NEW c \in Caller, Put(c) PROVE Goal
  <2>1. at[c] \in Sending /\ Deliver(c) /\ \A b \in Caller : b # c => sent'[b] = sent[b]
    BY <1>0, <1>7 DEF Put, Sending, MbxTypeOK
  <2>2. PICK p \in At \ Sending : Goes(c, p)
    BY <1>7 DEF Put, At, Sending
  <2>3. /\ \A m \in Msg : Sole(Owners(m)')
        /\ recvQue' \in [Link -> Seq(Msg)]
        /\ \A l \in Link : IsInjective(recvQue'[l])
    BY <2>1, <2>2, DeliverOwners
  <2> QED BY <1>0, <1>7, <2>2, <2>3 DEF Put, Deliver, Goes, MbxTypeOK, OwnInv, link
<1>8. ASSUME NEW c \in Caller, PutCmd(c) PROVE Goal
  <2>1. at[c] \in Sending /\ Deliver(c) /\ \A b \in Caller : b # c => sent'[b] = sent[b]
    BY <1>0, <1>8 DEF PutCmd, Sending, MbxTypeOK
  <2>2. "idle" \in At \ Sending /\ Goes(c, "idle")
    BY <1>8 DEF PutCmd, At, Sending
  <2>3. /\ \A m \in Msg : Sole(Owners(m)')
        /\ recvQue' \in [Link -> Seq(Msg)]
        /\ \A l \in Link : IsInjective(recvQue'[l])
    BY <2>1, <2>2, DeliverOwners
  <2> QED BY <1>0, <1>8, <2>2, <2>3 DEF PutCmd, Deliver, Goes, MbxTypeOK, OwnInv, link
<1>9. ASSUME NEW c \in Caller, WaitAck(c) PROVE Goal
  BY <1>0, <1>9, WaitAckOwners DEF WaitAck, Goes, MbxTypeOK, At, OwnInv, link
<1>10. ASSUME NEW c \in Caller, Free(c) PROVE Goal
  BY <1>0, <1>10, FreeOwners DEF Free, InHand, Goes, MbxTypeOK, At, OwnInv, link
<1>11. ASSUME NEW c \in Caller, Release(c) PROVE Goal
  BY <1>0, <1>11, <1>a DEF Release, Goes, Sending, MbxTypeOK, At, link
<1>12. ASSUME NEW c \in Caller, PutCmdFull(c) PROVE Goal
  BY <1>0, <1>12, <1>a DEF PutCmdFull, Goes, Sending, MbxTypeOK, At, queues, link
<1>13. ASSUME NEW c \in Caller, FreeCmd(c) PROVE Goal
  BY <1>0, <1>13, FreeCmdOwners DEF FreeCmd, InHand, Sending, Goes, MbxTypeOK, At, OwnInv, link
<1>14. ASSUME NEW l \in Link, Recv(l) PROVE Goal
  BY <1>0, <1>14, RecvOwners, TakesHead DEF Recv, MbxTypeOK, OwnInv, caller
<1>15. ASSUME NEW l \in Link, Answer(l) PROVE Goal
  <2>1. PICK m0 \in Msg : m0 = held[l]
    BY <1>0, <1>15 DEF Answer, MbxTypeOK
  <2>2. l \in OwnersByKind(m0)["held"]
    BY <2>1, ByKind
  <2>3. /\ AckOrFree(m0) /\ held' = [held EXCEPT ![l] = NoMsg]
        /\ UNCHANGED <<recvQue, inUse, msg, at, req, slot, sent, rcvd, taken, waiting>>
    BY <1>15, <2>1 DEF Answer, caller
  <2>4. /\ \A m \in Msg : Sole(Owners(m)')
        /\ pool' \subseteq Msg
        /\ ackQue' \in [Slot -> Seq(Msg)]
        /\ \A i \in Slot : IsInjective(ackQue'[i])
    BY <2>2, <2>3, AckOrFreeOwners
  <2> QED BY <1>0, <2>3, <2>4 DEF MbxTypeOK, OwnInv
<1>16. ASSUME NEW l \in Link, StartWait(l) PROVE Goal
  BY <1>0, <1>16, <1>a DEF StartWait, MbxTypeOK, queues, caller
<1>17. ASSUME NEW l \in Link, WaitRecv(l) PROVE Goal
  BY <1>0, <1>17, WaitRecvOwners, TakesHead DEF WaitRecv, MbxTypeOK, OwnInv, caller
<1>18. ASSUME NEW l \in Link, WaitTaken(l) PROVE Goal
  <2>1. PICK m0 \in Msg : m0 = taken[l]
    BY <1>0, <1>18 DEF WaitTaken, MbxTypeOK
  <2>2. l \in OwnersByKind(m0)["taken"]
    BY <2>1, ByKind
  <2>3. /\ AckOrFree(m0) /\ taken' = [taken EXCEPT ![l] = NoMsg]
        /\ UNCHANGED <<recvQue, inUse, msg, at, req, slot, sent, rcvd, held>>
        /\ waiting' \in [Link -> BOOLEAN]
    BY <1>0, <1>18, <2>1 DEF WaitTaken, caller, MbxTypeOK
  <2>4. /\ \A m \in Msg : Sole(Owners(m)')
        /\ pool' \subseteq Msg
        /\ ackQue' \in [Slot -> Seq(Msg)]
        /\ \A i \in Slot : IsInjective(ackQue'[i])
    BY <2>2, <2>3, AckOrFreeOwners
  <2> QED BY <1>0, <2>3, <2>4 DEF MbxTypeOK, OwnInv
<1>19. ASSUME UNCHANGED mbxVars PROVE Goal
  BY <1>0, <1>19, <1>a DEF mbxVars, queues, caller, link, MbxTypeOK
<1> QED
  BY <1>1, <1>2, <1>3, <1>5, <1>6, <1>7, <1>8, <1>9, <1>10, <1>11, <1>12, <1>13,
     <1>14, <1>15, <1>16, <1>17, <1>18, <1>19 DEF MbxNext, Send, Receive

LEMMA InitOwn == MbxInit => OwnInv
<1> SUFFICES ASSUME MbxInit PROVE OwnInv
  OBVIOUS
<1>1. MbxTypeOK
  BY LinkAssumption, SlotNumbers DEF MbxInit, MbxTypeOK, At, MsgRec, Cmd, Request
<1>2. \A l \in Link : IsInjective(recvQue[l])
  BY EmptyQueue DEF MbxInit
<1>3. \A i \in Slot : IsInjective(ackQue[i])
  BY EmptyQueue DEF MbxInit
<1>4. ASSUME NEW m \in Msg PROVE Sole(Owners(m))
  <2>1. ASSUME NEW j \in Kind, NEW w
        PROVE  w \in OwnersByKind(m)[j] <=> j = "pool" /\ w = m
    BY EmptyQueue, ByKind, NoMsgAssumption DEF MbxInit, Kind, Sending
  <2>2. DOMAIN OwnersByKind(m) = Kind /\ "pool" \in Kind
    BY ByKind DEF Kind
  <2>3. Tagged(OwnersByKind(m)) = {<<"pool", m>>}
    BY <2>1, <2>2 DEF Tagged
  <2> QED BY <2>3 DEF Sole, Owners
<1> QED
  BY <1>1, <1>2, <1>3, <1>4, NoMsgAssumption DEF OwnInv, InHand, MbxInit, Sending

\* In every reachable state the variables have their types and every message
\* one owner: no path through the two send calls, the receiving loop and
\* Utils_mbxWaitCmd loses a message or passes one on twice.
THEOREM AlwaysOneOwner == MbxSpec => []OneOwner
<1>1. MbxInit => OwnInv
  BY InitOwn
<1>2. OwnInv /\ [MbxNext]_mbxVars => OwnInv'
  BY InHandStep, OwnersStep DEF OwnInv
<1>3. OwnInv => OneOwner
  BY SoleMeansOne DEF OwnInv, OneOwner
<1> QED
  BY <1>1, <1>2, <1>3, PTL DEF MbxSpec

-----------------------------------------------------------------------------
(* Acknowledgements reach the sender that waits for them.  A slot in use    *)
(* has one holder; what a sender sent names its slot; and a message that    *)
(* asks for an acknowledgement and has left its sender has a sender that    *)
(* waits for it, and no other message is or will be in that sender's slot.  *)
WithSlot == {"alloc", "put", "wait", "free", "release"}

SlotsHeld ==
    /\ \A c \in Caller : at[c] \in WithSlot => inUse[slot[c]]
    /\ \A b, c \in Caller :
          at[b] \in WithSlot /\ at[c] \in WithSlot /\ slot[b] = slot[c] => b = c
    /\ \A i \in Slot : inUse[i] => \E c \in Caller : at[c] \in WithSlot /\ slot[c] = i

\* What a sender knows of its message between two steps.
Knows(c) ==
    /\ at[c] \in WithSlot \cup {"reserve"} => req[c].via = "msg"
    /\ at[c] = "put" => msg[sent[c]].slot = slot[c] /\ msg[sent[c]].ack = req[c].ack
    /\ at[c] \in {"putCmd", "freeCmd"} => ~msg[sent[c]].ack
    /\ at[c] \in {"wait", "free"} =>
          sent[c] \in Msg /\ msg[sent[c]].ack /\ msg[sent[c]].slot = slot[c]
    /\ at[c] = "free" => rcvd[c] = sent[c]
    /\ at[c] = "wait" => /\ sent[c] \notin pool
                         /\ \A b \in Caller : rcvd[b] # sent[c]
                         /\ \A b \in Caller : at[b] \in Sending => sent[b] # sent[c]

Awaited(m) == \E c \in Caller : at[c] = "wait" /\ sent[c] = m

Promised ==
    /\ \A l \in Link : \A m \in Range(recvQue[l]) : msg[m].ack => Awaited(m)
    /\ \A l \in Link : held[l] # NoMsg /\ msg[held[l]].ack => Awaited(held[l])
    /\ \A l \in Link : taken[l] # NoMsg /\ msg[taken[l]].ack => Awaited(taken[l])

Kept == \A i \in Slot :
    /\ Len(ackQue[i]) <= 1
    /\ \A m \in Range(ackQue[i]) :
          \E c \in Caller : at[c] = "wait" /\ sent[c] = m /\ slot[c] = i

AcksInv == SlotsHeld /\ (\A c \in Caller : Knows(c)) /\ Promised /\ Kept

\* A message in one place is in no other.
LEMMA OneHand ==
    ASSUME OwnInv, NEW m \in Msg
    PROVE  /\ m \in pool =>
                 /\ \A l \in Link : m \notin Range(recvQue[l]) /\ held[l] # m /\ taken[l] # m
                 /\ \A i \in Slot : m \notin Range(ackQue[i])
                 /\ \A c \in Caller : (at[c] \in Sending => sent[c] # m) /\ rcvd[c] # m
           /\ \A c \in Caller : at[c] \in Sending /\ sent[c] = m =>
                 /\ m \notin pool
                 /\ \A b \in Caller : (at[b] \in Sending /\ b # c => sent[b] # m) /\ rcvd[b] # m
           /\ \A i \in Slot : m \in Range(ackQue[i]) =>
                 /\ \A l \in Link : m \notin Range(recvQue[l]) /\ held[l] # m /\ taken[l] # m
                 /\ \A j \in Slot : m \in Range(ackQue[j]) => j = i
<1> DEFINE by == OwnersByKind(m)
<1>1. Sole(Tagged(by)) /\ DOMAIN by = Kind
  BY ByKind DEF OwnInv, Owners
<1>2. \A k, j \in Kind : \A x \in by[k], y \in by[j] : k = j /\ x = y
  BY <1>1, NowhereElse
<1>3. \A w : /\ w \in by["pool"] <=> w = m /\ m \in pool
             /\ w \in by["recvQue"] <=> w \in Link /\ m \in Range(recvQue[w])
             /\ w \in by["ackQue"] <=> w \in Slot /\ m \in Range(ackQue[w])
             /\ w \in by["sent"] <=> w \in Caller /\ at[w] \in Sending /\ sent[w] = m
             /\ w \in by["rcvd"] <=> w \in Caller /\ rcvd[w] = m
             /\ w \in by["held"] <=> w \in Link /\ held[w] = m
             /\ w \in by["taken"] <=> w \in Link /\ taken[w] = m
  BY ByKind
<1> HIDE DEF by
<1>4. \A j \in Kind \ {"pool"} : m \in pool => by[j] = {}
  <2>1. m \in pool => m \in by["pool"] /\ "pool" \in Kind
    BY <1>3 DEF Kind
  <2> QED BY <1>2, <2>1
<1>5. \A c \in by["sent"] : \A j \in Kind : \A y \in by[j] : j = "sent" /\ y = c
  BY <1>2 DEF Kind
<1>6. \A i \in by["ackQue"] : \A j \in Kind : \A y \in by[j] : j = "ackQue" /\ y = i
  BY <1>2 DEF Kind
<1>7. m \in pool =>
         /\ \A l \in Link : m \notin Range(recvQue[l]) /\ held[l] # m /\ taken[l] # m
         /\ \A i \in Slot : m \notin Range(ackQue[i])
         /\ \A c \in Caller : (at[c] \in Sending => sent[c] # m) /\ rcvd[c] # m
  BY <1>3, <1>4 DEF Kind
<1>8. ASSUME NEW c \in Caller, at[c] \in Sending, sent[c] = m
      PROVE  /\ m \notin pool
             /\ \A b \in Caller : (at[b] \in Sending /\ b # c => sent[b] # m) /\ rcvd[b] # m
  <2>1. c \in by["sent"]
    BY <1>3, <1>8
  <2>2. \A j \in Kind : \A y \in by[j] : j = "sent" /\ y = c
    BY <1>5, <2>1
  <2> QED BY <1>3, <2>2 DEF Kind
<1>9. ASSUME NEW i \in Slot, m \in Range(ackQue[i])
      PROVE  /\ \A l \in Link : m \notin Range(recvQue[l]) /\ held[l] # m /\ taken[l] # m
             /\ \A j \in Slot : m \in Range(ackQue[j]) => j = i
  <2>1. i \in by["ackQue"]
    BY <1>3, <1>9
  <2>2. \A j \in Kind : \A y \in by[j] : j = "ackQue" /\ y = i
    BY <1>6, <2>1
  <2> QED BY <1>3, <2>2 DEF Kind
<1> QED
  BY <1>7, <1>8, <1>9

\* Slots are as they were when nobody gets or gives back one.
LEMMA SameSlots ==
    ASSUME SlotsHeld, UNCHANGED <<inUse, slot>>,
           \A c \in Caller : at'[c] \in WithSlot <=> at[c] \in WithSlot
    PROVE  SlotsHeld'
BY DEF SlotsHeld

\* Who sent it goes on waiting while no waiter stops.
LEMMA StillAwaited ==
    ASSUME \A c \in Caller : at[c] = "wait" => at'[c] = "wait" /\ sent'[c] = sent[c], NEW m
    PROVE  Awaited(m) => Awaited(m)'
BY DEF Awaited

\* A step of a sender that leaves the queues and the messages alone.
LEMMA QuietStep ==
    ASSUME OwnInv, AcksInv, NEW c \in Caller, NEW p \in {"idle", "reserve", "alloc", "allocCmd"},
           at[c] \in {"idle", "reserve", "release", "allocCmd"}, Goes(c, p),
           \A b \in Caller \ {c} : req'[b] = req[b] /\ slot'[b] = slot[b],
           p \in {"reserve", "alloc"} => req'[c].via = "msg",
           UNCHANGED <<pool, recvQue, ackQue, msg, sent, rcvd, link>>
    PROVE  (\A b \in Caller : Knows(b)') /\ Promised' /\ Kept'
<1>1. /\ \A b \in Caller \ {c} : at'[b] = at[b]
      /\ at'[c] = p
      /\ \A b \in Caller : at'[b] \in Sending => at[b] \in Sending
      /\ \A b \in Caller : at[b] = "wait" => at'[b] = "wait" /\ b # c
  BY DEF OwnInv, MbxTypeOK, Goes, Sending
<1>2. ASSUME NEW b \in Caller PROVE Knows(b)'
  <2>1. CASE b = c
    BY <1>1, <2>1 DEF Knows, WithSlot
  <2>2. CASE b # c
    <3>1. Knows(b)
      BY DEF AcksInv
    <3> QED BY <1>1, <2>2, <3>1 DEF Knows, Sending
  <2> QED BY <2>1, <2>2
<1>3. Promised'
  <2>1. \A m : Awaited(m) => Awaited(m)'
    BY <1>1, StillAwaited
  <2> QED BY <2>1 DEF AcksInv, Promised, link
<1>4. Kept'
  BY <1>1 DEF AcksInv, Kept
<1> QED
  BY <1>2, <1>3, <1>4

LEMMA ReserveAcks ==
    ASSUME OwnInv, AcksInv, NEW c \in Caller, Reserve(c) PROVE AcksInv'
<1>1. PICK i \in Slot : /\ ~inUse[i]
                        /\ inUse' = [inUse EXCEPT ![i] = TRUE]
                        /\ slot' = [slot EXCEPT ![c] = i]
  BY ReservesFree DEF FreeSlots, OwnInv
<1>2. /\ at[c] = "reserve" /\ Goes(c, "alloc")
      /\ UNCHANGED <<pool, recvQue, ackQue, msg, req, sent, rcvd, link>>
  BY DEF Reserve
<1>3. req[c].via = "msg"
  BY <1>2 DEF AcksInv, Knows
<1>4. /\ \A b \in Caller \ {c} : at'[b] = at[b] /\ slot'[b] = slot[b]
      /\ at'[c] = "alloc" /\ slot'[c] = i
      /\ inUse'[i] /\ \A k \in Slot \ {i} : inUse'[k] = inUse[k]
      /\ slot \in [Caller -> Slot]
  BY <1>1, <1>2 DEF OwnInv, MbxTypeOK, Goes
<1>5. SlotsHeld'
  BY <1>1, <1>2, <1>4 DEF AcksInv, SlotsHeld, WithSlot
<1> QED
  BY <1>2, <1>3, <1>4, <1>5, QuietStep DEF AcksInv

LEMMA ReleaseAcks ==
    ASSUME OwnInv, AcksInv, NEW c \in Caller, Release(c) PROVE AcksInv'
<1>2. /\ at[c] = "release" /\ Goes(c, "idle")
      /\ inUse' = [inUse EXCEPT ![slot[c]] = FALSE]
      /\ UNCHANGED <<pool, recvQue, ackQue, msg, req, slot, sent, rcvd, link>>
  BY DEF Release
<1>4. /\ \A b \in Caller \ {c} : at'[b] = at[b]
      /\ at'[c] = "idle"
      /\ ~inUse'[slot[c]] /\ \A k \in Slot \ {slot[c]} : inUse'[k] = inUse[k]
      /\ slot \in [Caller -> Slot]
  BY <1>2 DEF OwnInv, MbxTypeOK, Goes
<1>5. SlotsHeld'
  BY <1>2, <1>4 DEF AcksInv, SlotsHeld, WithSlot
<1> QED
  BY <1>2, <1>4, <1>5, QuietStep DEF AcksInv

LEMMA BeginAcks ==
    ASSUME OwnInv, AcksInv, NEW c \in Caller, MbxBegin(c) PROVE AcksInv'
<1>1. PICK r \in Request :
         /\ req' = [req EXCEPT ![c] = r]
         /\ Goes(c, IF r.via = "msg" THEN "reserve" ELSE "allocCmd")
  BY RequestAssumption DEF MbxBegin
<1>2. PICK p \in {"reserve", "allocCmd"} : Goes(c, p) /\ (p = "reserve" => r.via = "msg")
  BY <1>1
<1>3. /\ at[c] = "idle" /\ req'[c] = r /\ \A b \in Caller \ {c} : req'[b] = req[b]
      /\ UNCHANGED <<pool, recvQue, ackQue, inUse, msg, slot, sent, rcvd, link>>
  BY <1>1 DEF MbxBegin, OwnInv, MbxTypeOK, queues
<1>4. SlotsHeld'
  <2>1. \A b \in Caller : at'[b] \in WithSlot <=> at[b] \in WithSlot
    BY <1>2, <1>3 DEF Goes, WithSlot, OwnInv, MbxTypeOK
  <2> QED BY <1>3, <2>1, SameSlots DEF AcksInv
<1> QED
  BY <1>2, <1>3, <1>4, QuietStep DEF AcksInv

LEMMA NoneAcks ==
    ASSUME OwnInv, AcksInv, NEW c \in Caller, at[c] \in {"reserve", "allocCmd"}, Goes(c, "idle"),
           UNCHANGED <<queues, req, slot, sent, rcvd, link>>
    PROVE  AcksInv'
<1>1. SlotsHeld'
  <2>1. \A b \in Caller : at'[b] \in WithSlot <=> at[b] \in WithSlot
    BY DEF Goes, WithSlot, OwnInv, MbxTypeOK
  <2> QED BY <2>1, SameSlots DEF AcksInv, queues
<1> QED
  BY <1>1, QuietStep DEF AcksInv, queues

\* Alloc and AllocCmd: the message that is filled in is nobody's business.
LEMMA FillAcks ==
    ASSUME OwnInv, AcksInv, NEW c \in Caller, NEW m0 \in pool, NEW i \in Slot \cup {0},
           Fill(c, m0, i), NEW p, Goes(c, p),
           \/ at[c] = "alloc" /\ p = "put" /\ i = slot[c]
           \/ at[c] = "allocCmd" /\ p = "putCmd",
           UNCHANGED <<recvQue, ackQue, inUse, req, slot, rcvd, link>>
    PROVE  AcksInv'
<1>1. /\ at[c] \in {"alloc", "allocCmd"} /\ at'[c] = p /\ sent'[c] = m0
      /\ \A b \in Caller \ {c} : at'[b] = at[b] /\ sent'[b] = sent[b]
      /\ m0 \in Msg /\ pool' = pool \ {m0}
      /\ \A m \in Msg \ {m0} : msg'[m] = msg[m]
      /\ msg'[m0] = [cmd |-> req[c].cmd, slot |-> i, ack |-> req[c].via = "msg" /\ req[c].ack]
  BY DEF OwnInv, MbxTypeOK, Goes, Fill
<1>2. /\ \A l \in Link : m0 \notin Range(recvQue[l]) /\ held[l] # m0 /\ taken[l] # m0
      /\ \A k \in Slot : m0 \notin Range(ackQue[k])
      /\ \A b \in Caller : (at[b] \in Sending => sent[b] # m0) /\ rcvd[b] # m0
  BY <1>1, OneHand
<1>3. SlotsHeld'
  <2>1. \A b \in Caller : at'[b] \in WithSlot <=> at[b] \in WithSlot
    BY <1>1 DEF WithSlot
  <2> QED BY <2>1, SameSlots DEF AcksInv
<1>4. ASSUME NEW b \in Caller PROVE Knows(b)'
  <2>1. CASE b = c
    <3>1. at[c] = "alloc" => req[c].via = "msg"
      BY DEF AcksInv, Knows, WithSlot
    <3>2. at[c] = "allocCmd" => req[c].via = "cmd"
      BY DEF OwnInv, InHand
    <3>3. /\ at'[c] \in {"put", "putCmd"}
          /\ at'[c] = "put" => at[c] = "alloc" /\ i = slot[c]
          /\ at'[c] = "putCmd" => at[c] = "allocCmd"
          /\ req' = req /\ slot' = slot
      BY <1>1
    <3>4. at'[c] = "put" => /\ msg'[sent'[c]].slot = slot'[c]
                           /\ msg'[sent'[c]].ack = (req[c].via = "msg" /\ req[c].ack)
      BY <1>1, <3>3
    <3>5. at'[c] = "putCmd" => ~msg'[sent'[c]].ack
      <4>1. msg'[sent'[c]].ack = (req[c].via = "msg" /\ req[c].ack)
        BY <1>1
      <4>2. at'[c] = "putCmd" => req[c].via # "msg"
        BY <3>2, <3>3
      <4> QED BY <4>1, <4>2
    <3>6. req[c].ack \in BOOLEAN
      BY DEF OwnInv, MbxTypeOK, Request
    <3> QED BY <2>1, <3>1, <3>3, <3>4, <3>5, <3>6 DEF Knows, WithSlot
  <2>2. CASE b # c
    <3>1. Knows(b) /\ (at[b] \in Sending => sent[b] \in Msg)
      BY DEF AcksInv, OwnInv, InHand
    <3>2. at[b] \in Sending \cup {"wait", "free"} => sent[b] # m0 /\ sent[b] \in Msg
      BY <1>2, <3>1 DEF Knows, Sending
    <3> QED BY <1>1, <2>2, <3>1, <3>2 DEF Knows, Sending, WithSlot
  <2> QED BY <2>1, <2>2
<1>5. Promised'
  <2>1. \A m : Awaited(m) => Awaited(m)'
    BY <1>1, StillAwaited
  <2>2. \A l \in Link : recvQue[l] \in Seq(Msg) /\ Range(recvQue[l]) \subseteq Msg
    BY DEF OwnInv, MbxTypeOK, Range
  <2>3. \A l \in Link : held[l] \in Msg \cup {NoMsg} /\ taken[l] \in Msg \cup {NoMsg}
    BY DEF OwnInv, MbxTypeOK
  <2> QED BY <1>1, <1>2, <2>1, <2>2, <2>3 DEF AcksInv, Promised, link
<1>6. Kept'
  BY <1>1 DEF AcksInv, Kept
<1> QED
  BY <1>3, <1>4, <1>5, <1>6 DEF AcksInv

\* Put and PutCmd: a message that asks for an answer is awaited at once.
LEMMA DeliverAcks ==
    ASSUME OwnInv, AcksInv, NEW c \in Caller, Put(c) \/ PutCmd(c)
    PROVE  AcksInv'
<1>1. /\ sent[c] \in Msg /\ req[c].to \in Link /\ recvQue[req[c].to] \in Seq(Msg)
      /\ at[c] \in {"put", "putCmd"}
  BY DEF OwnInv, InHand, MbxTypeOK, Request, Put, PutCmd, Sending
<1>2. PICK m0 \in Msg, l0 \in Link : m0 = sent[c] /\ l0 = req[c].to
  BY <1>1
<1>3. /\ \A l \in Link \ {l0} : recvQue'[l] = recvQue[l]
      /\ Range(recvQue'[l0]) = Range(recvQue[l0]) \cup {m0}
  <2>1. recvQue' = [recvQue EXCEPT ![l0] = Append(recvQue[l0], m0)]
    BY <1>2 DEF Put, PutCmd, Deliver
  <2>2. Range(Append(recvQue[l0], m0)) = Range(recvQue[l0]) \cup {m0}
    BY <1>1, <1>2, QueueAppend
  <2> QED BY <2>1, <2>2 DEF OwnInv, MbxTypeOK
<1>4. /\ \A b \in Caller \ {c} : at'[b] = at[b] /\ sent'[b] = sent[b]
      /\ \/ at[c] = "put" /\ req[c].ack /\ at'[c] = "wait" /\ sent'[c] = m0
         \/ at[c] = "put" /\ ~req[c].ack /\ at'[c] = "release"
         \/ at[c] = "putCmd" /\ at'[c] = "idle"
      /\ UNCHANGED <<pool, ackQue, inUse, msg, req, slot, rcvd, link>>
  BY <1>2 DEF OwnInv, MbxTypeOK, Put, PutCmd, Deliver, Goes
<1>5. /\ m0 \notin pool
      /\ \A b \in Caller : (at[b] \in Sending /\ b # c => sent[b] # m0) /\ rcvd[b] # m0
  BY <1>1, <1>2, OneHand DEF Sending
<1>6. Knows(c)
  BY DEF AcksInv
<1>7. SlotsHeld'
  <2>1. \A b \in Caller : at'[b] \in WithSlot <=> at[b] \in WithSlot
    BY <1>4 DEF WithSlot
  <2> QED BY <1>4, <2>1, SameSlots DEF AcksInv
<1>8. ASSUME NEW b \in Caller PROVE Knows(b)'
  <2>1. CASE b = c
    <3>1. \A a \in Caller : at'[a] \in Sending => at[a] \in Sending /\ a # c /\ sent'[a] = sent[a]
      BY <1>4 DEF Sending
    <3> QED BY <1>2, <1>4, <1>5, <1>6, <2>1, <3>1 DEF Knows, WithSlot
  <2>2. CASE b # c
    <3>1. Knows(b)
      BY DEF AcksInv
    <3>2. \A a \in Caller : at'[a] \in Sending => at[a] \in Sending /\ sent'[a] = sent[a]
      BY <1>4 DEF Sending
    <3> QED BY <1>4, <2>2, <3>1, <3>2 DEF Knows, WithSlot
  <2> QED BY <2>1, <2>2
<1>9. \A m : Awaited(m) => Awaited(m)'
  BY <1>1, <1>4, StillAwaited
<1>10. msg[m0].ack => Awaited(m0)'
  BY <1>2, <1>4, <1>6 DEF Knows, Awaited
<1>11. Promised'
  <2>1. ASSUME NEW l \in Link, NEW m \in Range(recvQue'[l]), msg'[m].ack PROVE Awaited(m)'
    BY <1>3, <1>4, <1>9, <1>10, <2>1 DEF AcksInv, Promised
  <2> QED BY <1>4, <1>9, <2>1 DEF AcksInv, Promised, link
<1>12. Kept'
  <2>1. \A b \in Caller : at[b] = "wait" => at'[b] = "wait" /\ sent'[b] = sent[b]
    BY <1>1, <1>4
  <2> QED BY <1>4, <2>1 DEF AcksInv, Kept
<1> QED
  BY <1>7, <1>8, <1>11, <1>12 DEF AcksInv

\* A command that does not fit goes back to the pool, and nobody waits for it.
LEMMA PutCmdFullAcks ==
    ASSUME OwnInv, AcksInv, NEW c \in Caller, PutCmdFull(c) PROVE AcksInv'
<1>1. /\ at[c] = "putCmd" /\ at'[c] = "freeCmd" /\ \A b \in Caller \ {c} : at'[b] = at[b]
      /\ UNCHANGED <<queues, req, slot, sent, rcvd, link>>
  BY DEF PutCmdFull, Goes, OwnInv, MbxTypeOK
<1>2. SlotsHeld'
  <2>1. \A b \in Caller : at'[b] \in WithSlot <=> at[b] \in WithSlot
    BY <1>1 DEF WithSlot
  <2> QED BY <1>1, <2>1, SameSlots DEF AcksInv, queues
<1>3. ASSUME NEW b \in Caller PROVE Knows(b)'
  <2>1. Knows(b) /\ \A a \in Caller : at'[a] \in Sending <=> at[a] \in Sending
    BY <1>1 DEF AcksInv, Sending
  <2>2. CASE b = c
    BY <1>1, <2>1, <2>2 DEF Knows, WithSlot, queues
  <2>3. CASE b # c
    BY <1>1, <2>1, <2>3 DEF Knows, WithSlot, queues
  <2> QED BY <2>2, <2>3
<1>4. \A m : Awaited(m) => Awaited(m)'
  BY <1>1, StillAwaited
<1> QED
  BY <1>1, <1>2, <1>3, <1>4, SMTT(30) DEF AcksInv, Promised, Kept, link, queues

LEMMA FreeCmdAcks ==
    ASSUME OwnInv, AcksInv, NEW c \in Caller, FreeCmd(c) PROVE AcksInv'
<1>1. PICK m0 \in Msg : m0 = sent[c]
  BY DEF OwnInv, InHand, FreeCmd, Sending
<1>2. /\ at[c] = "freeCmd" /\ at'[c] = "idle" /\ ~msg[m0].ack
      /\ \A b \in Caller \ {c} : at'[b] = at[b] /\ sent'[b] = sent[b]
      /\ pool' = pool \cup {m0}
      /\ UNCHANGED <<recvQue, ackQue, inUse, msg, req, slot, rcvd, link>>
  BY <1>1 DEF FreeCmd, Goes, OwnInv, MbxTypeOK, AcksInv, Knows
<1>3. SlotsHeld'
  <2>1. \A b \in Caller : at'[b] \in WithSlot <=> at[b] \in WithSlot
    BY <1>2 DEF WithSlot
  <2> QED BY <1>2, <2>1, SameSlots DEF AcksInv
<1>4. ASSUME NEW b \in Caller PROVE Knows(b)'
  <2>1. Knows(b) /\ \A a \in Caller : at'[a] \in Sending => at[a] \in Sending /\ sent'[a] = sent[a]
    BY <1>2 DEF AcksInv, Sending
  <2>2. CASE b = c
    BY <1>2, <2>1, <2>2 DEF Knows, WithSlot
  <2>3. CASE b # c
    BY <1>2, <2>1, <2>3 DEF Knows, WithSlot
  <2> QED BY <2>2, <2>3
<1>5. \A m : Awaited(m) => Awaited(m)'
  BY <1>2, StillAwaited
<1>6. Promised'
  BY <1>2, <1>5 DEF AcksInv, Promised, link
<1>7. Kept'
  <2>1. \A b \in Caller : at[b] = "wait" => at'[b] = "wait" /\ sent'[b] = sent[b]
    BY <1>2
  <2> QED BY <1>2, <2>1 DEF AcksInv, Kept
<1> QED
  BY <1>3, <1>4, <1>6, <1>7 DEF AcksInv

\* The slots and what the senders know, when no sender moves and the pool
\* gets at most a message that asks for no answer.
LEMMA SendersStand ==
    ASSUME AcksInv, UNCHANGED <<inUse, msg, at, req, slot, sent, rcvd>>,
           \A m \in pool' \ pool : ~msg[m].ack
    PROVE  SlotsHeld' /\ (\A c \in Caller : Knows(c)') /\ \A m : Awaited(m)' <=> Awaited(m)
<1>1. SlotsHeld'
  BY SameSlots DEF AcksInv
<1>2. ASSUME NEW c \in Caller PROVE Knows(c)'
  <2>1. Knows(c)
    BY DEF AcksInv
  <2> QED BY <2>1 DEF Knows
<1>3. \A m : Awaited(m)' <=> Awaited(m)
  BY DEF Awaited
<1> QED
  BY <1>1, <1>2, <1>3

\* Recv and WaitRecv: what the link has taken was in its mailbox.
LEMMA RecvAcks ==
    ASSUME OwnInv, AcksInv, NEW l \in Link, Recv(l) \/ WaitRecv(l) PROVE AcksInv'
<1>1. PICK m0 \in Msg : m0 = Head(recvQue[l])
  BY TakesHead DEF Recv, WaitRecv
<1>2. /\ m0 \in Range(recvQue[l])
      /\ Range(Tail(recvQue[l])) = Range(recvQue[l]) \ {m0}
  BY <1>1, TakesHead DEF Recv, WaitRecv
<1>3. /\ \A k \in Link : Range(recvQue'[k]) \subseteq Range(recvQue[k])
      /\ \A k \in Link : held'[k] = held[k] \/ (k = l /\ held'[k] = m0)
      /\ \A k \in Link : taken'[k] = taken[k] \/ (k = l /\ taken'[k] = m0)
      /\ UNCHANGED <<pool, ackQue, inUse, msg, at, req, slot, sent, rcvd>>
  <2>1. recvQue' = [recvQue EXCEPT ![l] = Tail(@)]
    BY DEF Recv, WaitRecv
  <2>2. \A k \in Link : Range(recvQue'[k]) \subseteq Range(recvQue[k])
    BY <1>2, <2>1 DEF OwnInv, MbxTypeOK
  <2>3. \/ held' = [held EXCEPT ![l] = m0] /\ taken' = taken
        \/ taken' = [taken EXCEPT ![l] = m0] /\ held' = held
    BY <1>1 DEF Recv, WaitRecv
  <2>4. held \in [Link -> Msg \cup {NoMsg}] /\ taken \in [Link -> Msg \cup {NoMsg}]
    BY DEF OwnInv, MbxTypeOK
  <2>5. \A k \in Link : /\ held'[k] = held[k] \/ (k = l /\ held'[k] = m0)
                        /\ taken'[k] = taken[k] \/ (k = l /\ taken'[k] = m0)
    BY <2>3, <2>4
  <2>6. UNCHANGED <<pool, ackQue, inUse, msg, at, req, slot, sent, rcvd>>
    BY DEF Recv, WaitRecv, caller
  <2> QED BY <2>2, <2>5, <2>6
<1>4. SlotsHeld' /\ (\A c \in Caller : Knows(c)') /\ \A m : Awaited(m)' <=> Awaited(m)
  BY <1>3, SendersStand
<1>5. msg[m0].ack => Awaited(m0)
  BY <1>2 DEF AcksInv, Promised
<1>6. Promised'
  BY <1>3, <1>4, <1>5 DEF AcksInv, Promised
<1>7. Kept'
  BY <1>3 DEF AcksInv, Kept
<1> QED
  BY <1>4, <1>6, <1>7 DEF AcksInv

\* Answer and WaitTaken: the link acknowledges the message m0 in the slot it
\* names, where its sender waits and nothing lies yet.
LEMMA AckOrFreeAcks ==
    ASSUME OwnInv, AcksInv, NEW l \in Link, NEW m0 \in Msg, AckOrFree(m0),
           held[l] = m0 \/ taken[l] = m0,
           \A k \in Link : held'[k] \in {held[k], NoMsg} /\ taken'[k] \in {taken[k], NoMsg},
           UNCHANGED <<recvQue, inUse, msg, at, req, slot, sent, rcvd>>
    PROVE  AcksInv'
<1>1. pool' = pool \/ (pool' = pool \cup {m0} /\ ~msg[m0].ack)
  BY DEF AckOrFree
<1>2. SlotsHeld' /\ (\A c \in Caller : Knows(c)') /\ \A m : Awaited(m)' <=> Awaited(m)
  BY <1>1, SendersStand
<1>3. Promised'
  BY <1>2 DEF AcksInv, Promised
<1>4. Kept'
  <2>1. CASE ~msg[m0].ack
    <3>1. ackQue' = ackQue
      BY <2>1 DEF AckOrFree
    <3> QED BY <3>1 DEF AcksInv, Kept
  <2>2. CASE msg[m0].ack
    <3>1. PICK i \in Slot : i = msg[m0].slot
      BY <2>2 DEF OwnInv
    <3>2. ackQue' = [ackQue EXCEPT ![i] = Append(ackQue[i], m0)] /\ ackQue[i] \in Seq(Msg)
      BY <2>2, <3>1 DEF AckOrFree, OwnInv, MbxTypeOK
    <3>3. PICK c \in Caller : at[c] = "wait" /\ sent[c] = m0
      BY <2>2, NoMsgAssumption DEF AcksInv, Promised, Awaited
    <3>4. slot[c] = i
      BY <3>1, <3>3 DEF AcksInv, Knows
    <3>5. ackQue[i] = <<>>
      <4> SUFFICES ASSUME ackQue[i] # <<>> PROVE FALSE
        OBVIOUS
      <4>1. PICK m1 \in Range(ackQue[i]) : TRUE
        BY <3>2, QueueTake
      <4>2. PICK b \in Caller : at[b] = "wait" /\ sent[b] = m1 /\ slot[b] = i
        BY DEF AcksInv, Kept
      <4>3. b = c
        BY <3>3, <3>4, <4>2 DEF AcksInv, SlotsHeld, WithSlot
      <4>4. m0 \in Range(ackQue[i])
        BY <3>3, <4>1, <4>2, <4>3
      <4> QED BY <4>4, OneHand
    <3>6. Len(Append(ackQue[i], m0)) = 1 /\ Range(Append(ackQue[i], m0)) = {m0}
      <4>1. /\ Len(Append(ackQue[i], m0)) = Len(ackQue[i]) + 1
            /\ Range(Append(ackQue[i], m0)) = Range(ackQue[i]) \cup {m0}
        BY <3>2, QueueAppend
      <4>2. Len(ackQue[i]) = 0 /\ Range(ackQue[i]) = {}
        BY <3>5, EmptyQueue
      <4> QED BY <4>1, <4>2
    <3>7. /\ Len(ackQue'[i]) = 1 /\ Range(ackQue'[i]) = {m0}
          /\ \A k \in Slot \ {i} : ackQue'[k] = ackQue[k]
      BY <3>2, <3>6 DEF OwnInv, MbxTypeOK
    <3>8. \A m \in Range(ackQue'[i]) :
             \E b \in Caller : at[b] = "wait" /\ sent[b] = m /\ slot[b] = i
      BY <3>3, <3>4, <3>7
    <3>9. ASSUME NEW k \in Slot
          PROVE  /\ Len(ackQue'[k]) <= 1
                 /\ \A m \in Range(ackQue'[k]) :
                      \E b \in Caller : at[b] = "wait" /\ sent[b] = m /\ slot[b] = k
      <4>1. CASE k = i
        <5>1. 1 <= 1
          OBVIOUS
        <5> QED BY <3>7, <3>8, <4>1, <5>1, Zenon
      <4>2. CASE k # i
        BY <3>7, <4>2, SMTT(30) DEF AcksInv, Kept
      <4> QED BY <4>1, <4>2
    <3> QED BY <3>9 DEF Kept
  <2> QED BY <2>1, <2>2
<1> QED
  BY <1>2, <1>3, <1>4 DEF AcksInv

\* The acknowledgement in the slot of a waiter is that of its own message.
LEMMA WaitAckAcks ==
    ASSUME OwnInv, AcksInv, NEW c \in Caller, WaitAck(c) PROVE AcksInv'
<1>1. /\ slot[c] \in Slot /\ ackQue[slot[c]] \in Seq(Msg) /\ ackQue[slot[c]] # <<>>
      /\ at[c] = "wait"
  BY DEF OwnInv, MbxTypeOK, WaitAck
<1>2. PICK m0 \in Msg, i \in Slot : i = slot[c] /\ m0 = Head(ackQue[i])
  BY <1>1, QueueTake
<1>3. m0 \in Range(ackQue[i]) /\ Len(Tail(ackQue[i])) = Len(ackQue[i]) - 1
      /\ Len(ackQue[i]) \in Nat /\ Tail(ackQue[i]) \in Seq(Msg)
  BY <1>1, <1>2, QueueTake, LenProperties
<1>4. sent[c] = m0
  <2>1. PICK b \in Caller : at[b] = "wait" /\ sent[b] = m0 /\ slot[b] = i
    BY <1>3 DEF AcksInv, Kept
  <2>2. b = c
    BY <1>1, <1>2, <2>1 DEF AcksInv, SlotsHeld, WithSlot
  <2> QED BY <2>1, <2>2
<1>5. /\ at'[c] = "free" /\ \A b \in Caller \ {c} : at'[b] = at[b] /\ rcvd'[b] = rcvd[b]
      /\ rcvd'[c] = m0
      /\ \A k \in Slot \ {i} : ackQue'[k] = ackQue[k]
      /\ ackQue'[i] = Tail(ackQue[i])
      /\ UNCHANGED <<pool, recvQue, inUse, msg, req, slot, sent, link>>
  BY <1>1, <1>2 DEF WaitAck, Goes, OwnInv, MbxTypeOK
<1>6. ackQue'[i] = <<>> /\ Len(ackQue'[i]) <= 1
  <2>1. Len(ackQue[i]) <= 1 /\ Len(ackQue[i]) # 0
    BY <1>1, <1>2, EmptySeq DEF AcksInv, Kept
  <2>2. \A n \in Nat : n <= 1 /\ n # 0 => n - 1 = 0
    OBVIOUS
  <2>3. Len(ackQue'[i]) = 0
    BY <1>3, <1>5, <2>1, <2>2
  <2>4. ackQue'[i] \in Seq(Msg)
    BY <1>3, <1>5
  <2> QED BY <2>3, <2>4, EmptySeq
<1>7. \A b \in Caller \ {c} : at[b] = "wait" => sent[b] # m0
  BY <1>1, <1>4 DEF AcksInv, SlotsHeld, Knows, WithSlot
<1>8. SlotsHeld'
  <2>1. \A b \in Caller : at'[b] \in WithSlot <=> at[b] \in WithSlot
    BY <1>1, <1>5 DEF WithSlot
  <2> QED BY <1>5, <2>1, SameSlots DEF AcksInv
<1>9. ASSUME NEW b \in Caller PROVE Knows(b)'
  <2>1. Knows(b) /\ \A a \in Caller : at'[a] \in Sending <=> at[a] \in Sending
    BY <1>1, <1>5 DEF AcksInv, Sending
  <2>2. CASE b = c
    BY <1>1, <1>4, <1>5, <2>1, <2>2 DEF Knows, WithSlot
  <2>3. CASE b # c
    BY <1>5, <1>7, <2>1, <2>3 DEF Knows, WithSlot
  <2> QED BY <2>2, <2>3
<1>10. \A m : m # m0 /\ Awaited(m) => Awaited(m)'
  BY <1>4, <1>5 DEF Awaited
<1>11. \A k \in Link : m0 \notin Range(recvQue[k]) /\ held[k] # m0 /\ taken[k] # m0
  BY <1>3, OneHand
<1>12. Promised'
  BY <1>5, <1>10, <1>11 DEF AcksInv, Promised, link
<1>13. Kept'
  <2>1. \A k \in Slot \ {i} : \A m \in Range(ackQue[k]) :
           \E b \in Caller \ {c} : at[b] = "wait" /\ sent[b] = m /\ slot[b] = k
    <3> SUFFICES ASSUME NEW k \in Slot \ {i}, NEW m \in Range(ackQue[k])
                 PROVE  \E b \in Caller \ {c} : at[b] = "wait" /\ sent[b] = m /\ slot[b] = k
      OBVIOUS
    <3>1. PICK b \in Caller : at[b] = "wait" /\ sent[b] = m /\ slot[b] = k
      BY DEF AcksInv, Kept
    <3> QED BY <1>2, <3>1
  <2>2. \A k \in Slot \ {i} : Len(ackQue[k]) <= 1
    BY DEF AcksInv, Kept
  <2>3. ASSUME NEW k \in Slot
        PROVE  /\ Len(ackQue'[k]) <= 1
               /\ \A m \in Range(ackQue'[k]) :
                     \E b \in Caller : at'[b] = "wait" /\ sent'[b] = m /\ slot'[b] = k
    <3>1. CASE k = i
      <4>1. Len(ackQue'[k]) = 0 /\ Range(ackQue'[k]) = {}
        BY <1>6, <3>1, EmptyQueue, EmptySeq
      <4> QED BY <4>1
    <3>2. CASE k # i
      <4>1. /\ ackQue'[k] = ackQue[k] /\ sent' = sent /\ slot' = slot
            /\ \A b \in Caller \ {c} : at'[b] = at[b]
        BY <1>5, <3>2
      <4>2. Len(ackQue[k]) <= 1
        BY <2>2, <3>2
      <4>3. ASSUME NEW m \in Range(ackQue'[k])
            PROVE  \E b \in Caller : at'[b] = "wait" /\ sent'[b] = m /\ slot'[b] = k
        <5>1. PICK b \in Caller \ {c} : at[b] = "wait" /\ sent[b] = m /\ slot[b] = k
          BY <2>1, <3>2, <4>1
        <5> QED BY <4>1, <5>1
      <4> QED BY <4>1, <4>2, <4>3
    <3> QED BY <3>1, <3>2
  <2> QED BY <2>3 DEF Kept
<1> QED
  BY <1>8, <1>9, <1>12, <1>13 DEF AcksInv

\* What a waiter received is what it sent, so it does not wait on.
LEMMA FreeAcks ==
    ASSUME OwnInv, AcksInv, NEW c \in Caller, Free(c) PROVE AcksInv'
<1>1. Knows(c) /\ at[c] = "free"
  BY DEF AcksInv, Free
<1>2. PICK m0 \in Msg : m0 = rcvd[c] /\ m0 = sent[c]
  BY <1>1 DEF Knows
<1>3. /\ at'[c] = "release" /\ \A b \in Caller \ {c} : at'[b] = at[b] /\ sent'[b] = sent[b]
      /\ \A b \in Caller : rcvd'[b] \in {rcvd[b], NoMsg}
      /\ \A b \in Caller \ {c} : rcvd'[b] = rcvd[b]
      /\ pool' = pool \cup {m0}
      /\ UNCHANGED <<recvQue, ackQue, inUse, msg, req, slot, link>>
  BY <1>2 DEF Free, Goes, OwnInv, MbxTypeOK
<1>4. \A b \in Caller : at[b] = "wait" => b # c /\ sent[b] # m0 /\ sent[b] \in Msg
  BY <1>1, <1>2 DEF AcksInv, Knows
<1>5. SlotsHeld'
  <2>1. \A b \in Caller : at'[b] \in WithSlot <=> at[b] \in WithSlot
    BY <1>1, <1>3 DEF WithSlot
  <2> QED BY <1>3, <2>1, SameSlots DEF AcksInv
<1>6. ASSUME NEW b \in Caller PROVE Knows(b)'
  <2>1. Knows(b) /\ \A a \in Caller : at'[a] \in Sending => at[a] \in Sending /\ sent'[a] = sent[a]
    BY <1>3 DEF AcksInv, Sending
  <2>2. CASE b = c
    BY <1>1, <1>3, <2>1, <2>2 DEF Knows, WithSlot
  <2>3. CASE b # c
    BY <1>3, <1>4, <2>1, <2>3, NoMsgAssumption DEF Knows, WithSlot
  <2> QED BY <2>2, <2>3
<1>7. \A b \in Caller : at[b] = "wait" => at'[b] = "wait" /\ sent'[b] = sent[b]
  BY <1>3, <1>4
<1>8. \A m : Awaited(m) => Awaited(m)'
  BY <1>7, StillAwaited
<1>9. Promised'
  BY <1>3, <1>8 DEF AcksInv, Promised, link
<1>10. Kept'
  BY <1>3, <1>7 DEF AcksInv, Kept
<1> QED
  BY <1>5, <1>6, <1>9, <1>10 DEF AcksInv

LEMMA AcksStep == ASSUME OwnInv, AcksInv, [MbxNext]_mbxVars PROVE AcksInv'
<1>1. ASSUME NEW c \in Caller, MbxBegin(c) PROVE AcksInv'
  BY <1>1, BeginAcks
<1>2. ASSUME NEW c \in Caller, Reserve(c) PROVE AcksInv'
  BY <1>2, ReserveAcks
<1>3. ASSUME NEW c \in Caller, NoSlot(c) PROVE AcksInv'
  BY <1>3, NoneAcks DEF NoSlot
<1>4. ASSUME NEW c \in Caller, Alloc(c) PROVE AcksInv'
  <2>1. PICK m \in pool : Fill(c, m, slot[c])
    BY <1>4 DEF Alloc
  <2>2. slot[c] \in Slot \cup {0} /\ Goes(c, "put") /\ at[c] = "alloc"
        /\ UNCHANGED <<recvQue, ackQue, inUse, req, slot, rcvd, link>>
    BY <1>4 DEF Alloc, OwnInv, MbxTypeOK
  <2> QED BY <2>1, <2>2, FillAcks
<1>5. ASSUME NEW c \in Caller, AllocCmd(c) PROVE AcksInv'
  <2>1. at[c] = "allocCmd" /\ UNCHANGED <<recvQue, ackQue, inUse, req, slot, rcvd, link>>
    BY <1>5 DEF AllocCmd
  <2>2. CASE \E m \in pool : Fill(c, m, 0) /\ Goes(c, "putCmd")
    BY <2>1, <2>2, FillAcks
  <2>3. CASE Goes(c, "idle") /\ UNCHANGED <<pool, sent, msg>>
    BY <2>1, <2>3, NoneAcks DEF queues
  <2> QED BY <1>5, <2>2, <2>3 DEF AllocCmd
<1>6. ASSUME NEW c \in Caller, Put(c) \/ PutCmd(c) PROVE AcksInv'
  BY <1>6, DeliverAcks
<1>7. ASSUME NEW c \in Caller, PutCmdFull(c) PROVE AcksInv'
  BY <1>7, PutCmdFullAcks
<1>8. ASSUME NEW c \in Caller, FreeCmd(c) PROVE AcksInv'
  BY <1>8, FreeCmdAcks
<1>9. ASSUME NEW c \in Caller, WaitAck(c) PROVE AcksInv'
  BY <1>9, WaitAckAcks
<1>10. ASSUME NEW c \in Caller, Free(c) PROVE AcksInv'
  BY <1>10, FreeAcks
<1>11. ASSUME NEW c \in Caller, Release(c) PROVE AcksInv'
  BY <1>11, ReleaseAcks
<1>12. ASSUME NEW l \in Link, Recv(l) \/ WaitRecv(l) PROVE AcksInv'
  BY <1>12, RecvAcks
<1>13. ASSUME NEW l \in Link, Answer(l) \/ WaitTaken(l) PROVE AcksInv'
  <2>1. PICK m0 \in Msg : AckOrFree(m0) /\ (held[l] = m0 \/ taken[l] = m0)
    BY <1>13 DEF Answer, WaitTaken, OwnInv, MbxTypeOK
  <2>2. /\ \A k \in Link : held'[k] \in {held[k], NoMsg} /\ taken'[k] \in {taken[k], NoMsg}
        /\ UNCHANGED <<recvQue, inUse, msg, at, req, slot, sent, rcvd>>
    BY <1>13 DEF Answer, WaitTaken, OwnInv, MbxTypeOK, caller
  <2> QED BY <2>1, <2>2, AckOrFreeAcks
<1>14. ASSUME UNCHANGED <<queues, caller, held, taken>> PROVE AcksInv'
  <2>1. SlotsHeld' /\ (\A c \in Caller : Knows(c)') /\ \A m : Awaited(m)' <=> Awaited(m)
    BY <1>14, SendersStand DEF queues, caller
  <2> QED BY <1>14, <2>1 DEF AcksInv, Promised, Kept, queues, caller
<1>15. ASSUME NEW l \in Link, StartWait(l) PROVE AcksInv'
  BY <1>14, <1>15 DEF StartWait
<1>16. ASSUME UNCHANGED mbxVars PROVE AcksInv'
  BY <1>14, <1>16 DEF mbxVars, link
<1> QED
  BY <1>1, <1>2, <1>3, <1>4, <1>5, <1>6, <1>7, <1>8, <1>9, <1>10, <1>11, <1>12, <1>13,
     <1>15, <1>16 DEF MbxNext, Send, Receive

LEMMA AcksMatchHolds == ASSUME OwnInv, AcksInv PROVE AcksMatch
<1>1. ASSUME NEW i \in Slot
      PROVE  Cardinality(Holders(i)) = IF inUse[i] THEN 1 ELSE 0
  <2>1. CASE inUse[i]
    <3>1. PICK c \in Caller : at[c] \in WithSlot /\ slot[c] = i
      BY <2>1 DEF AcksInv, SlotsHeld
    <3>2. Holders(i) = {c}
      BY <3>1 DEF AcksInv, SlotsHeld, Holders, WithSlot
    <3> QED BY <2>1, <3>2, FS_Singleton
  <2>2. CASE ~inUse[i]
    <3>1. Holders(i) = {}
      BY <2>2 DEF AcksInv, SlotsHeld, Holders, WithSlot
    <3> QED BY <2>2, <3>1, FS_EmptySet
  <2> QED BY <2>1, <2>2
<1>2. ASSUME NEW i \in Slot
      PROVE  /\ Len(ackQue[i]) <= 1
             /\ ackQue[i] # <<>> =>
                  \E c \in Holders(i) : at[c] = "wait" /\ sent[c] = Head(ackQue[i])
  <2>1. ackQue[i] # <<>> => Head(ackQue[i]) \in Range(ackQue[i])
    BY QueueTake DEF OwnInv, MbxTypeOK
  <2> QED BY <2>1 DEF AcksInv, Kept, Holders
<1>3. ASSUME NEW l \in Link, NEW m \in {held[l], taken[l]} \ {NoMsg}, msg[m].ack
      PROVE  \E c \in Holders(msg[m].slot) : sent[c] = m /\ at[c] = "wait"
  <2>1. PICK c \in Caller : at[c] = "wait" /\ sent[c] = m
    BY <1>3 DEF AcksInv, Promised, Awaited
  <2>2. slot[c] = msg[m].slot
    BY <2>1 DEF AcksInv, Knows
  <2> QED BY <2>1, <2>2 DEF Holders
<1> QED
  BY <1>1, <1>2, <1>3 DEF AcksMatch

LEMMA InitAcks == MbxInit => AcksInv
<1> SUFFICES ASSUME MbxInit PROVE AcksInv
  OBVIOUS
<1>1. SlotsHeld
  BY DEF MbxInit, SlotsHeld, WithSlot
<1>2. \A c \in Caller : Knows(c)
  BY DEF MbxInit, Knows, WithSlot
<1>3. Promised
  BY EmptyQueue DEF MbxInit, Promised
<1>4. Kept
  BY EmptyQueue DEF MbxInit, Kept
<1> QED
  BY <1>1, <1>2, <1>3, <1>4 DEF AcksInv

\* In every reachable state an acknowledgement that is in a slot, or that a
\* link is about to put there, is that of the message the one holder of the
\* slot waits for, and a slot is in use exactly when a sender holds it: so
\* the warning of Utils_mbxSendMsg about another's message is never printed.
THEOREM AlwaysAcksMatch == MbxSpec => []AcksMatch
<1>1. MbxInit => OwnInv /\ AcksInv
  BY InitOwn, InitAcks
<1>2. OwnInv /\ AcksInv /\ [MbxNext]_mbxVars => OwnInv' /\ AcksInv'
  BY InHandStep, OwnersStep, AcksStep DEF OwnInv
<1>3. OwnInv /\ AcksInv => AcksMatch
  BY AcksMatchHolds
<1> QED
  BY <1>1, <1>2, <1>3, PTL DEF MbxSpec

-----------------------------------------------------------------------------
(* The queue.                                                               *)

USE CapacityAssumption, FlagAssumption, CallAssumption

\* Posting semaphores keeps the types of the semaphores and of the calls.
LEMMA PostSemsTypes ==
    ASSUME TypeOK, NEW S \in SUBSET Side, NEW pcs \in [Task -> Pc],
           PostSems(S, pcs)
    PROVE  /\ sem' \in [Side -> Nat]
           /\ pc' \in [Task -> Pc]
BY DEF TypeOK, PostSems, Pc

\* The cursors of the ring advance within it.
LEMMA CursorStep ==
    ASSUME NEW i \in 0 .. MaxElements - 1
    PROVE  /\ (i + 1) % MaxElements \in 0 .. MaxElements - 1
           /\ (i + 1) % MaxElements = IF i + 1 < MaxElements THEN i + 1 ELSE 0
OBVIOUS

LEMMA MinCountType ==
    ASSUME TypeOK, NEW t \in Task
    PROVE  MinCount(t) \in 1 .. MaxElements
<1>1. call[t].minCount \in Nat
  BY DEF TypeOK, Call
<1> QED
  BY <1>1 DEF MinCount

\* Every reachable state has the types the handle declares.
THEOREM TypeCorrect == Spec => []TypeOK
<1>1. Init => TypeOK
  BY NoDataAssumption DEF Init, TypeOK, Side, Pc, Rest, Call, Timeout
<1>2. TypeOK /\ [Next]_vars => TypeOK'
  <2> SUFFICES ASSUME TypeOK, [Next]_vars PROVE TypeOK'
    OBVIOUS
  <2> USE DEF TypeOK, Goto
  <2>1. ASSUME NEW t \in Task, Begin(t) PROVE TypeOK'
    <3>1. call' \in [Task -> Call]
      BY <2>1 DEF Begin
    <3> QED BY <2>1, <3>1 DEF Begin, Pc, ring, flags
  <2>2. ASSUME NEW t \in Task, PutInsert(t) PROVE TypeOK'
    <3>1. call[t].data \in Data \cup {NoData}
      BY DEF Call
    <3>2. /\ queue' \in [0 .. MaxElements - 1 -> Data \cup {NoData}]
          /\ curWr' \in 0 .. MaxElements - 1
      BY <2>2, <3>1, CursorStep DEF PutInsert
    <3>3. count' \in 0 .. MaxElements
      BY <2>2 DEF PutInsert, Ready
    <3> QED BY <2>2, <3>2, <3>3 DEF PutInsert, AfterSuccess, Pc, Rest, flags
  <2>3. ASSUME NEW t \in Task, GetExtract(t) PROVE TypeOK'
    <3>1. count' \in 0 .. MaxElements
      BY <2>3, MinCountType DEF GetExtract, Ready
    <3>2. curRd' \in 0 .. MaxElements - 1
      BY <2>3, CursorStep DEF GetExtract
    <3>3. queue[curRd] \in Data \cup {NoData}
      OBVIOUS
    <3>4. [call[t] EXCEPT !.data = queue[curRd]] \in Call
      BY <3>3, ZenonT(30) DEF Call
    <3>5. call' \in [Task -> Call]
      BY <2>3, <3>4 DEF GetExtract
    <3> QED BY <2>3, <3>1, <3>2, <3>5 DEF GetExtract, AfterSuccess, Pc, Rest, flags
  <2>4. ASSUME NEW t \in Task, Miss(t) PROVE TypeOK'
    BY <2>4 DEF Miss, Pc, Rest, ring, flags
  <2>5. ASSUME NEW t \in Task, Post(t) PROVE TypeOK'
    <3>1. call[t].side \in Side /\ Other(call[t].side) \in Side
      BY DEF Call, Other, Side
    <3>2. [pc EXCEPT ![t] = "done"] \in [Task -> Pc]
      BY DEF Pc, Rest
    <3>3. sem' \in [Side -> Nat] /\ pc' \in [Task -> Pc]
      BY <2>5, <3>1, <3>2, PostSemsTypes DEF Post
    <3> QED BY <2>5, <3>3 DEF Post, ring, flags
  <2>6. ASSUME NEW t \in Task, Mark(t) PROVE TypeOK'
    BY <2>6 DEF Mark, Pc, ring
  <2>7. ASSUME NEW t \in Task, Pend(t) PROVE TypeOK'
    <3>1. call[t].side \in Side
      BY DEF Call
    <3>2. sem' \in [Side -> Nat]
      BY <2>7, <3>1 DEF Pend
    <3>3. pc' \in [Task -> Pc]
      BY <2>7 DEF Pend, Pc
    <3> QED BY <2>7, <3>2, <3>3 DEF Pend, ring, flags
  <2>8. ASSUME NEW t \in Task, Expire(t) PROVE TypeOK'
    BY <2>8 DEF Expire, Pc, ring, flags
  <2>9. ASSUME NEW t \in Task, Unmark(t) PROVE TypeOK'
    BY <2>9 DEF Unmark, Pc, ring
  <2>10. ASSUME NEW t \in Task, CheckForced(t) PROVE TypeOK'
    BY <2>10 DEF CheckForced, Pc, ring, flags
  <2>11. ASSUME NEW t \in Task, Clear(t) PROVE TypeOK'
    BY <2>11 DEF Clear, Pc, Rest, ring
  <2>12. ASSUME UnBlock PROVE TypeOK'
    <3>1. Unblockable \in SUBSET Side
      BY DEF Unblockable
    <3>2. sem' \in [Side -> Nat] /\ pc' \in [Task -> Pc]
      BY <2>12, <3>1, PostSemsTypes DEF UnBlock
    <3> QED BY <2>12, <3>2 DEF UnBlock, ring
  <2>13. ASSUME Reset PROVE TypeOK'
    BY <2>13 DEF Reset
  <2>14. CASE UNCHANGED vars
    BY <2>14 DEF vars, ring, flags
  <2> QED
    BY <2>1, <2>2, <2>3, <2>4, <2>5, <2>6, <2>7, <2>8, <2>9, <2>10, <2>11,
       <2>12, <2>13, <2>14 DEF Next, Step
<1> QED
  BY <1>1, <1>2, PTL DEF Spec

\* The cursors and the count agree in every reachable state.
THEOREM CursorsAlwaysAgree == Spec => []CursorsAgree
<1>1. Init => CursorsAgree
  BY DEF Init, CursorsAgree
<1>2. TypeOK /\ CursorsAgree /\ [Next]_vars => CursorsAgree'
  <2> SUFFICES ASSUME TypeOK, CursorsAgree, [Next]_vars PROVE CursorsAgree'
    OBVIOUS
  <2>0. /\ curRd \in 0 .. MaxElements - 1
        /\ curWr \in 0 .. MaxElements - 1
        /\ count \in 0 .. MaxElements
    BY DEF TypeOK
  <2>1. ASSUME NEW t \in Task, PutInsert(t) PROVE CursorsAgree'
    <3>1. curWr' = IF curWr + 1 < MaxElements THEN curWr + 1 ELSE 0
      BY <2>0, <2>1, CursorStep DEF PutInsert
    <3>2. count < MaxElements /\ count' = count + 1 /\ curRd' = curRd
      BY <2>1 DEF PutInsert, Ready
    <3> QED BY <2>0, <3>1, <3>2 DEF CursorsAgree
  <2>2. ASSUME NEW t \in Task, GetExtract(t) PROVE CursorsAgree'
    <3>1. curRd' = IF curRd + 1 < MaxElements THEN curRd + 1 ELSE 0
      BY <2>0, <2>2, CursorStep DEF GetExtract
    <3>2. count >= 1 /\ count' = count - 1 /\ curWr' = curWr
      BY <2>0, <2>2, MinCountType DEF GetExtract, Ready
    <3> QED BY <2>0, <3>1, <3>2 DEF CursorsAgree
  <2>3. ASSUME Reset PROVE CursorsAgree'
    BY <2>3 DEF Reset, CursorsAgree
  <2>4. ASSUME UNCHANGED ring PROVE CursorsAgree'
    BY <2>4 DEF ring, CursorsAgree
  <2> QED
    BY <2>1, <2>2, <2>3, <2>4 DEF Next, Step, vars, Begin, Miss, Post, Mark,
       Pend, Expire, Unmark, CheckForced, Clear, UnBlock
<1> QED
  BY <1>1, <1>2, TypeCorrect, PTL DEF Spec

-----------------------------------------------------------------------------
(* No stale unblock flag.  The flag is raised by Utils_queUnBlock, which    *)
(* looks at blockedOn and not at the tasks, so the induction needs that a   *)
(* raised blockedOn stands for a call in its blocking part.                 *)
FlagInv == BlockedMeansCaller /\ NoStaleForce

\* Posting releases pending tasks and leaves every other task where pcs says.
LEMMA PostSemsEffect ==
    ASSUME TypeOK, NEW S \in SUBSET Side, NEW pcs \in [Task -> Pc],
           PostSems(S, pcs)
    PROVE  /\ \A s \in Side : sem'[s] >= sem[s]
           /\ \A t \in Task : pc'[t] = pcs[t] \/ (pc[t] = "wait" /\ pc'[t] = "woken")
           /\ \A s \in S : Waiting(s) = {} => sem'[s] = sem[s] + 1
           /\ \A s \in S : Waiting(s) # {} =>
                 \E t \in Waiting(s) : pc'[t] = "woken"
<1> USE DEF TypeOK
<1>1. PICK w \in [S -> Task] :
         /\ \A s \in S : Waiting(s) # {} => w[s] \in Waiting(s)
         /\ pc' = [t \in Task |-> IF \E s \in S : Waiting(s) # {} /\ w[s] = t
                                   THEN "woken" ELSE pcs[t]]
  BY DEF PostSems
<1>2. \A t \in Task : pc'[t] = pcs[t] \/ (pc[t] = "wait" /\ pc'[t] = "woken")
  BY <1>1 DEF Waiting
<1>3. \A s \in S : Waiting(s) # {} => \E t \in Waiting(s) : pc'[t] = "woken"
  BY <1>1 DEF Waiting
<1>4. \A s \in Side : sem'[s] >= sem[s]
  BY DEF PostSems
<1>5. \A s \in S : Waiting(s) = {} => sem'[s] = sem[s] + 1
  BY DEF PostSems
<1> QED
  BY <1>2, <1>3, <1>4, <1>5

\* Every raised flag has an owner, in every reachable state.
THEOREM NoStaleFlags == Spec => [](BlockedMeansCaller /\ NoStaleForce)
<1>1. Init => FlagInv
  BY DEF Init, FlagInv, BlockedMeansCaller, NoStaleForce
<1>2. TypeOK /\ FlagInv /\ [Next]_vars => FlagInv'
  <2> SUFFICES ASSUME TypeOK, FlagInv, [Next]_vars PROVE FlagInv'
    OBVIOUS
  <2>0. /\ pc \in [Task -> Pc]
        /\ call \in [Task -> Call]
        /\ sem \in [Side -> Nat]
        /\ blockedOn \in [Side -> BOOLEAN]
        /\ forceUnblock \in [Side -> BOOLEAN]
        /\ \A t \in Task : call[t].side \in Side
    BY DEF TypeOK, Call
  <2> USE DEF FlagInv, BlockedMeansCaller, NoStaleForce, Goto
  <2>1. ASSUME NEW t \in Task, Begin(t) PROVE FlagInv'
    <3>1. /\ pc[t] \in Rest /\ UNCHANGED <<sem, flags>>
          /\ \A u \in Task \ {t} : pc'[u] = pc[u] /\ call'[u] = call[u]
      BY <2>0, <2>1 DEF Begin
    <3> QED BY <2>0, <3>1 DEF Rest, flags
  <2>2. ASSUME NEW t \in Task, PutInsert(t) PROVE FlagInv'
    BY <2>0, <2>2 DEF PutInsert, flags
  <2>3. ASSUME NEW t \in Task, GetExtract(t) PROVE FlagInv'
    <3>1. /\ pc[t] = "test" /\ UNCHANGED <<sem, flags>>
          /\ \A u \in Task \ {t} : pc'[u] = pc[u] /\ call'[u] = call[u]
      BY <2>0, <2>3 DEF GetExtract
    <3> QED BY <2>0, <3>1 DEF flags
  <2>4. ASSUME NEW t \in Task, Miss(t) PROVE FlagInv'
    BY <2>0, <2>4 DEF Miss, flags
  <2>5. ASSUME NEW t \in Task, Post(t) PROVE FlagInv'
    <3> DEFINE npc == [pc EXCEPT ![t] = "done"]
               S == {Other(call[t].side)}
    <3>1. npc \in [Task -> Pc] /\ S \in SUBSET Side
      BY <2>0 DEF Pc, Rest, Other, Side
    <3>2. PostSems(S, npc) /\ \A u \in Task \ {t} : npc[u] = pc[u]
      BY <2>0, <2>5 DEF Post
    <3> HIDE DEF npc, S
    <3>3. /\ \A s \in Side : sem'[s] >= sem[s]
          /\ \A u \in Task : pc'[u] = npc[u] \/ (pc[u] = "wait" /\ pc'[u] = "woken")
          /\ \A s \in S : Waiting(s) = {} => sem'[s] = sem[s] + 1
          /\ \A s \in S : Waiting(s) # {} =>
                \E u \in Waiting(s) : pc'[u] = "woken"
      BY <3>1, <3>2, PostSemsEffect
    <3>4. \A u \in Task \ {t} : pc'[u] = pc[u] \/ (pc[u] = "wait" /\ pc'[u] = "woken")
      BY <3>2, <3>3
    <3>5. \A s \in Side : sem[s] > 0 => sem'[s] > 0
      BY <2>0, <2>5, <3>3 DEF Post, PostSems
    <3>6. pc[t] = "post" /\ UNCHANGED <<flags, call>>
      BY <2>5 DEF Post
    <3> QED BY <2>0, <3>4, <3>5, <3>6 DEF flags
  <2>6. ASSUME NEW t \in Task, Mark(t) PROVE FlagInv'
    BY <2>0, <2>6 DEF Mark
  <2>7. ASSUME NEW t \in Task, Pend(t) PROVE FlagInv'
    <3>1. CASE sem[call[t].side] > 0
      <4>1. /\ pc[t] = "pend" /\ pc'[t] = "woken" /\ UNCHANGED <<flags, call>>
            /\ \A u \in Task \ {t} : pc'[u] = pc[u]
            /\ \A s \in Side \ {call[t].side} : sem'[s] = sem[s]
        BY <2>0, <2>7, <3>1 DEF Pend
      <4> QED BY <2>0, <4>1 DEF flags
    <3>2. CASE sem[call[t].side] = 0
      <4>1. /\ pc[t] = "pend" /\ pc'[t] = "wait" /\ UNCHANGED <<sem, flags, call>>
            /\ \A u \in Task \ {t} : pc'[u] = pc[u]
        BY <2>0, <2>7, <3>2 DEF Pend
      <4> QED BY <2>0, <3>2, <4>1 DEF flags
    <3> QED BY <2>0, <2>7, <3>1, <3>2 DEF Pend
  <2>8. ASSUME NEW t \in Task, Expire(t) PROVE FlagInv'
    BY <2>0, <2>8 DEF Expire, flags
  <2>9. ASSUME NEW t \in Task, Unmark(t) PROVE FlagInv'
    BY <2>0, <2>9 DEF Unmark
  <2>10. ASSUME NEW t \in Task, CheckForced(t) PROVE FlagInv'
    BY <2>0, <2>10 DEF CheckForced, flags
  <2>11. ASSUME NEW t \in Task, Clear(t) PROVE FlagInv'
    <3>1. /\ pc[t] = "clear" /\ pc'[t] = "failed"
          /\ UNCHANGED <<sem, blockedOn, call>>
          /\ \A u \in Task \ {t} : pc'[u] = pc[u]
          /\ ~ forceUnblock'[call[t].side]
          /\ \A s \in Side \ {call[t].side} : forceUnblock'[s] = forceUnblock[s]
      BY <2>0, <2>11, ZenonT(30) DEF Clear
    <3> QED BY <2>0, <3>1
  <2>12. ASSUME UnBlock PROVE FlagInv'
    <3>1. Unblockable \in SUBSET Side /\ PostSems(Unblockable, pc)
      BY <2>12 DEF Unblockable, UnBlock
    <3>2. /\ \A s \in Side : sem'[s] >= sem[s]
          /\ \A u \in Task : pc'[u] = pc[u] \/ (pc[u] = "wait" /\ pc'[u] = "woken")
          /\ \A s \in Unblockable : Waiting(s) = {} => sem'[s] = sem[s] + 1
          /\ \A s \in Unblockable : Waiting(s) # {} =>
                \E u \in Waiting(s) : pc'[u] = "woken"
      BY <2>0, <3>1, PostSemsEffect
    <3>3. /\ UNCHANGED <<blockedOn, call>>
          /\ \A s \in Side : forceUnblock'[s] <=> s \in Unblockable \/ forceUnblock[s]
          /\ \A s \in Side : sem[s] > 0 => sem'[s] > 0
          /\ \A s \in Unblockable : sem[s] = 0 /\ blockedOn[s]
      BY <2>0, <2>12, <3>1 DEF UnBlock, PostSems, Unblockable
    <3>4. BlockedMeansCaller'
      BY <2>0, <3>2, <3>3
    <3>5. NoStaleForce'
      <4> SUFFICES ASSUME NEW s \in Side, forceUnblock'[s]
                   PROVE  \E u \in Task :
                            /\ call'[u].side = s
                            /\ \/ pc'[u] \in {"woken", "expired", "check", "clear"}
                               \/ pc'[u] = "pend" /\ sem'[s] > 0
        OBVIOUS
      <4>1. CASE s \in Unblockable /\ Waiting(s) # {}
        BY <2>0, <4>1, <3>2, <3>3 DEF Waiting
      <4>2. CASE s \in Unblockable /\ Waiting(s) = {}
        <5>1. PICK u \in Task : /\ call[u].side = s
                               /\ pc[u] \in {"pend", "wait", "woken", "expired"}
          BY <3>3, <4>2
        <5>2. pc[u] # "wait" /\ sem'[s] > 0
          BY <2>0, <3>2, <3>3, <4>2, <5>1 DEF Waiting
        <5> QED BY <3>2, <3>3, <5>1, <5>2
      <4>3. CASE s \notin Unblockable
        BY <2>0, <4>3, <3>2, <3>3
      <4> QED BY <4>1, <4>2, <4>3
    <3> QED BY <3>4, <3>5
  <2>13. ASSUME Reset PROVE FlagInv'
    BY <2>0, <2>13 DEF Reset
  <2>14. CASE UNCHANGED vars
    BY <2>14 DEF vars, flags
  <2> QED
    BY <2>1, <2>2, <2>3, <2>4, <2>5, <2>6, <2>7, <2>8, <2>9, <2>10, <2>11,
       <2>12, <2>13, <2>14 DEF Next, Step
<1> QED
  BY <1>1, <1>2, TypeCorrect, PTL DEF Spec, FlagInv
-----------------------------------------------------------------------------
(* The ring implements the bounded first-in first-out buffer.               *)

\* The remainder by which the code wraps an index, without division.
LEMMA Wrap ==
    ASSUME NEW i \in 0 .. 2 * MaxElements - 1
    PROVE  i % MaxElements = IF i < MaxElements THEN i ELSE i - MaxElements
<1>1. CASE i < MaxElements
  BY <1>1
<1>2. CASE i >= MaxElements
  <2>1. i - MaxElements \in 0 .. MaxElements - 1
    BY <1>2
  <2>2. i = MaxElements * 1 + (i - MaxElements)
    BY <1>2
  <2> QED BY <1>2, <2>1, <2>2
<1> QED
  BY <1>1, <1>2

\* What the ring holds, as a sequence: count items, the oldest at curRd.
LEMMA ContentsIsSeq ==
    ASSUME TypeOK
    PROVE  /\ Contents \in Seq(Data \cup {NoData})
           /\ Len(Contents) = count
           /\ \A i \in 1 .. count : Contents[i] = queue[(curRd + i - 1) % MaxElements]
<1>1. \A i \in 1 .. count : (curRd + i - 1) % MaxElements \in 0 .. MaxElements - 1
  BY Wrap DEF TypeOK
<1>2. count \in Nat /\ Contents \in [1 .. count -> Data \cup {NoData}]
  BY <1>1 DEF TypeOK, Contents
<1>3. Contents \in Seq(Data \cup {NoData})
  BY <1>2, SeqDef
<1>4. Len(Contents) = count
  BY <1>2, <1>3, LenProperties
<1> QED
  BY <1>3, <1>4 DEF Contents

\* The critical section of a put appends to the sequence.
LEMMA PutAppends ==
    ASSUME TypeOK, TypeOK', CursorsAgree, NEW t \in Task, PutInsert(t)
    PROVE  Contents' = Append(Contents, call[t].data)
<1> DEFINE D == Data \cup {NoData}
<1>1. call[t].data \in D
  BY DEF TypeOK, Call
<1>2. /\ curRd' = curRd /\ count < MaxElements /\ count' = count + 1
      /\ queue' = [queue EXCEPT ![curWr] = call[t].data]
  BY DEF PutInsert, Ready
<1>3. /\ curRd \in 0 .. MaxElements - 1 /\ curWr \in 0 .. MaxElements - 1
      /\ count \in 0 .. MaxElements
      /\ queue \in [0 .. MaxElements - 1 -> D]
  BY DEF TypeOK
<1>4. /\ Contents' \in Seq(D)
      /\ Len(Contents') = count + 1
      /\ \A i \in 1 .. count + 1 :
            Contents'[i] = queue'[(curRd + i - 1) % MaxElements]
  <2>1. (/\ Contents \in Seq(D)
         /\ Len(Contents) = count
         /\ \A i \in 1 .. count : Contents[i] = queue[(curRd + i - 1) % MaxElements])'
    BY ContentsIsSeq, PTL
  <2> QED BY <1>2, <2>1
<1>5. /\ Append(Contents, call[t].data) \in Seq(D)
      /\ Len(Append(Contents, call[t].data)) = count + 1
      /\ \A i \in 1 .. count :
            Append(Contents, call[t].data)[i] = queue[(curRd + i - 1) % MaxElements]
      /\ Append(Contents, call[t].data)[count + 1] = call[t].data
  <2>1. /\ Contents \in Seq(D)
        /\ Len(Contents) = count
        /\ \A i \in 1 .. count : Contents[i] = queue[(curRd + i - 1) % MaxElements]
    BY ContentsIsSeq
  <2> DEFINE c == Contents  x == call[t].data
  <2>0. c \in Seq(D) /\ x \in D
    BY <1>1, <2>1
  <2>2. /\ Append(c, x) \in Seq(D)
        /\ Len(Append(c, x)) = Len(c) + 1
        /\ \A i \in 1 .. Len(c) : Append(c, x)[i] = c[i]
        /\ Append(c, x)[Len(c) + 1] = x
    <3> HIDE DEF c, x, D
    <3> QED BY <2>0, AppendProperties
  <2>3. \A i \in 1 .. count : Append(c, x)[i] = queue[(curRd + i - 1) % MaxElements]
    BY <2>1, <2>2
  <2> QED BY <2>1, <2>2, <2>3
<1>6. \A i \in 1 .. count :
         /\ (curRd + i - 1) % MaxElements \in 0 .. MaxElements - 1
         /\ (curRd + i - 1) % MaxElements # curWr
  <2> SUFFICES ASSUME NEW i \in 1 .. count
               PROVE  /\ (curRd + i - 1) % MaxElements \in 0 .. MaxElements - 1
                      /\ (curRd + i - 1) % MaxElements # curWr
    OBVIOUS
  <2>1. PICK j \in Int : j = curRd + i - 1
    BY <1>3
  <2>2. j \in 0 .. 2 * MaxElements - 1
    BY <2>1, <1>3
  <2>3. j % MaxElements = IF j < MaxElements THEN j ELSE j - MaxElements
    BY <2>2, Wrap
  <2>4. j % MaxElements \in 0 .. MaxElements - 1 /\ j % MaxElements # curWr
    BY <2>1, <2>2, <2>3, <1>2, <1>3 DEF CursorsAgree
  <2> QED BY <2>1, <2>4
<1>7. (curRd + (count + 1) - 1) % MaxElements = curWr
  <2>1. PICK j \in Int : j = curRd + (count + 1) - 1
    BY <1>3
  <2>2. j = curRd + count /\ j \in 0 .. 2 * MaxElements - 1
    BY <2>1, <1>2, <1>3
  <2>3. j % MaxElements = IF j < MaxElements THEN j ELSE j - MaxElements
    BY <2>2, Wrap
  <2>4. j % MaxElements = curWr
    BY <2>2, <2>3, <1>3 DEF CursorsAgree
  <2> QED BY <2>1, <2>4
<1>8. \A i \in 1 .. count + 1 : Contents'[i] = Append(Contents, call[t].data)[i]
  <2> SUFFICES ASSUME NEW i \in 1 .. count + 1
               PROVE  Contents'[i] = Append(Contents, call[t].data)[i]
    OBVIOUS
  <2>1. CASE i \in 1 .. count
    <3>1. Contents'[i] = queue'[(curRd + i - 1) % MaxElements]
      BY <1>4
    <3> QED BY <2>1, <3>1, <1>2, <1>3, <1>5, <1>6
  <2>2. CASE i = count + 1
    <3>1. Contents'[i] = queue'[curWr]
      BY <1>4, <1>7, <2>2
    <3> QED BY <2>2, <3>1, <1>2, <1>3, <1>5
  <2>3. i \in 1 .. count \/ i = count + 1
    BY <1>3
  <2> QED BY <2>1, <2>2, <2>3
<1> QED
  BY <1>3, <1>4, <1>5, <1>8, SeqEqual

\* The critical section of a get takes the head of the sequence.
LEMMA GetTakesHead ==
    ASSUME TypeOK, TypeOK', NEW t \in Task, GetExtract(t)
    PROVE  /\ Contents # <<>>
           /\ Head(Contents) = queue[curRd]
           /\ Contents' = Tail(Contents)
<1> DEFINE D == Data \cup {NoData}
<1>1. /\ curRd' = (curRd + 1) % MaxElements /\ count' = count - 1
      /\ queue' = queue /\ count >= 1
  BY MinCountType DEF GetExtract, Ready, TypeOK
<1>2. /\ curRd \in 0 .. MaxElements - 1
      /\ count \in 0 .. MaxElements
  BY DEF TypeOK
<1>3. /\ Contents \in Seq(D)
      /\ Len(Contents) = count
      /\ \A i \in 1 .. count : Contents[i] = queue[(curRd + i - 1) % MaxElements]
  BY ContentsIsSeq
<1>4. /\ Contents' \in Seq(D)
      /\ Len(Contents') = count - 1
      /\ \A i \in 1 .. count - 1 :
            Contents'[i] = queue[(curRd' + i - 1) % MaxElements]
  <2>1. (/\ Contents \in Seq(D)
         /\ Len(Contents) = count
         /\ \A i \in 1 .. count : Contents[i] = queue[(curRd + i - 1) % MaxElements])'
    BY ContentsIsSeq, PTL
  <2> QED BY <1>1, <2>1
<1>5. Contents # <<>>
  BY <1>1, <1>2, <1>3, EmptySeq
<1>6. Head(Contents) = queue[curRd]
  <2>1. Head(Contents) = Contents[1]
    OBVIOUS
  <2>2. (curRd + 1 - 1) % MaxElements = curRd
    BY <1>2
  <2> QED BY <2>1, <2>2, <1>1, <1>2, <1>3
<1>7. /\ Tail(Contents) \in Seq(D)
      /\ Len(Tail(Contents)) = count - 1
      /\ \A i \in 1 .. count - 1 : Tail(Contents)[i] = Contents[i + 1]
  BY <1>3, <1>5, HeadTailProperties
<1>8. \A i \in 1 .. count - 1 :
         (curRd' + i - 1) % MaxElements = (curRd + (i + 1) - 1) % MaxElements
  <2> SUFFICES ASSUME NEW i \in 1 .. count - 1
               PROVE  (curRd' + i - 1) % MaxElements = (curRd + (i + 1) - 1) % MaxElements
    OBVIOUS
  <2>1. curRd' = IF curRd + 1 < MaxElements THEN curRd + 1 ELSE 0
    BY <1>1, <1>2, CursorStep
  <2>2. curRd' + i - 1 \in 0 .. 2 * MaxElements - 1 /\ curRd + i \in 0 .. 2 * MaxElements - 1
    BY <2>1, <1>2
  <2> QED BY <2>1, <2>2, <1>2, Wrap
<1>9. \A i \in 1 .. count - 1 : Contents'[i] = Tail(Contents)[i]
  <2> SUFFICES ASSUME NEW i \in 1 .. count - 1
               PROVE  Contents'[i] = Tail(Contents)[i]
    OBVIOUS
  <2>1. Contents'[i] = queue[(curRd + (i + 1) - 1) % MaxElements]
    BY <1>4, <1>8
  <2>2. Tail(Contents)[i] = queue[(curRd + (i + 1) - 1) % MaxElements]
    BY <1>2, <1>3, <1>7
  <2> QED BY <2>1, <2>2
<1> QED
  BY <1>4, <1>5, <1>6, <1>7, <1>9, SeqEqual

\* A step that touches neither the ring nor the calls leaves the sequence and
\* the arguments as they are.
LEMMA SameContents ==
    ASSUME UNCHANGED ring PROVE Contents' = Contents
BY DEF ring, Contents

\* Every behaviour of the ring with its semaphores and flags is a behaviour
\* of the bounded buffer: a call takes effect in its critical section, once,
\* whatever the other tasks post, pend on, unblock or reset meanwhile.
THEOREM Implements == Spec => ImplementsFifo
<1> DEFINE phase == [t \in Task |-> PhaseOf(t)]
           arg == [t \in Task |-> ArgOf(t)]
<1>1. Init => Fifo!Init
  <2> SUFFICES ASSUME Init PROVE Fifo!Init
    OBVIOUS
  <2>1. Contents = <<>>
    BY DEF Init, Contents
  <2>2. phase = [t \in Task |-> "idle"]
    BY DEF Init, PhaseOf
  <2>3. arg \in [Task -> Fifo!Arg]
    BY DEF Init, ArgOf, Fifo!Arg
  <2> QED BY <2>1, <2>2, <2>3 DEF Fifo!Init
<1>2. TypeOK /\ TypeOK' /\ CursorsAgree /\ [Next]_vars => [Fifo!Next]_(Fifo!absVars)
  <2> SUFFICES ASSUME TypeOK, TypeOK', CursorsAgree, [Next]_vars
               PROVE  Fifo!Next \/ UNCHANGED <<Contents, phase, arg>>
    BY DEF Fifo!absVars
  <2>0. /\ pc \in [Task -> Pc] /\ pc' \in [Task -> Pc]
        /\ call \in [Task -> Call] /\ call' \in [Task -> Call]
    BY DEF TypeOK
  <2>a. ASSUME UNCHANGED <<queue, curRd, count, call>>,
               \A t \in Task : PhaseOf(t)' = PhaseOf(t)
        PROVE  UNCHANGED <<Contents, phase, arg>>
    BY <2>a DEF Contents, ArgOf
  <2>b. ASSUME NEW t \in Task, pc[t] \in Pc \ (Rest \cup {"post"}), pc'[t] = "failed",
               \A u \in Task \ {t} : pc'[u] = pc[u],
               UNCHANGED <<ring, call>>
        PROVE  Fifo!Fail(t)
    <3>1. phase' = [phase EXCEPT ![t] = "failed"]
      BY <2>0, <2>b DEF PhaseOf
    <3>2. phase[t] = "called"
      BY <2>0, <2>b DEF PhaseOf, Rest
    <3>3. Contents' = Contents /\ arg' = arg
      BY <2>b, SameContents DEF ArgOf
    <3> QED BY <3>1, <3>2, <3>3 DEF Fifo!Fail
  <2> USE DEF Goto
  <2>1. ASSUME NEW t \in Task, Begin(t) PROVE Fifo!Start(t)
    <3>1. phase[t] # "called" /\ phase' = [phase EXCEPT ![t] = "called"]
      BY <2>0, <2>1 DEF Begin, PhaseOf, Rest
    <3>2. arg' \in [Task -> Fifo!Arg]
      BY <2>0 DEF ArgOf, Fifo!Arg, Call, Side
    <3>3. \A u \in Task \ {t} : arg'[u] = arg[u]
      BY <2>0, <2>1 DEF Begin, ArgOf
    <3>4. Contents' = Contents
      BY <2>1, SameContents DEF Begin
    <3> QED BY <3>1, <3>2, <3>3, <3>4 DEF Fifo!Start, Fifo!Outside
  <2>2. ASSUME NEW t \in Task, PutInsert(t) PROVE Fifo!Append1(t)
    <3>1. phase[t] = "called" /\ phase' = [phase EXCEPT ![t] = "done"]
      BY <2>0, <2>2 DEF PutInsert, AfterSuccess, PhaseOf, Rest
    <3>2. arg[t].side = "put" /\ arg[t].data = call[t].data /\ arg' = arg
      BY <2>2 DEF PutInsert, ArgOf
    <3>3. Len(Contents) < MaxElements
      BY <2>2, ContentsIsSeq DEF PutInsert, Ready
    <3>4. Contents' = Append(Contents, arg[t].data)
      BY <2>2, <3>2, PutAppends
    <3> QED BY <3>1, <3>2, <3>3, <3>4 DEF Fifo!Append1
  <2>3. ASSUME NEW t \in Task, GetExtract(t) PROVE Fifo!Take(t)
    <3>1. phase[t] = "called" /\ phase' = [phase EXCEPT ![t] = "done"]
      BY <2>0, <2>3 DEF GetExtract, AfterSuccess, PhaseOf, Rest
    <3>2. arg[t].side = "get" /\ arg' = [arg EXCEPT ![t].data = queue[curRd]]
      BY <2>0, <2>3, ZenonT(30) DEF GetExtract, ArgOf, Call
    <3>3. /\ Contents # <<>> /\ Head(Contents) = queue[curRd]
          /\ Contents' = Tail(Contents)
      BY <2>3, GetTakesHead
    <3>4. Len(Contents) >= arg[t].minCount \/ Len(Contents) = MaxElements
      <4>1. Len(Contents) = count /\ count \in 0 .. MaxElements
        BY ContentsIsSeq DEF TypeOK
      <4>2. count >= MinCount(t) /\ call[t].minCount \in Nat
        BY <2>0, <2>3 DEF GetExtract, Ready, Call
      <4> QED BY <4>1, <4>2 DEF MinCount, ArgOf
    <3> QED BY <3>1, <3>2, <3>3, <3>4 DEF Fifo!Take
  <2>4. ASSUME NEW t \in Task, Miss(t)
        PROVE  Fifo!Fail(t) \/ UNCHANGED <<Contents, phase, arg>>
    <3>1. CASE pc'[t] = "failed"
      BY <2>0, <2>4, <2>b, <3>1 DEF Miss, Pc, Rest
    <3>2. CASE pc'[t] # "failed"
      BY <2>0, <2>4, <2>a, <3>2 DEF Miss, ring, PhaseOf
    <3> QED BY <3>1, <3>2
  <2>5. ASSUME NEW t \in Task, Post(t) PROVE UNCHANGED <<Contents, phase, arg>>
    <3> DEFINE npc == [pc EXCEPT ![t] = "done"]
               S == {Other(call[t].side)}
    <3>1. npc \in [Task -> Pc] /\ S \in SUBSET Side
      BY <2>0 DEF Pc, Rest, Other, Side
    <3>2. PostSems(S, npc)
      BY <2>5 DEF Post
    <3>3. \A u \in Task : pc'[u] = npc[u] \/ (pc[u] = "wait" /\ pc'[u] = "woken")
      <4> HIDE DEF npc, S
      <4> QED BY <3>1, <3>2, PostSemsEffect
    <3>4. \A u \in Task : PhaseOf(u)' = PhaseOf(u)
      BY <2>0, <2>5, <3>3 DEF Post, PhaseOf
    <3> QED BY <2>5, <2>a, <3>4 DEF Post, ring
  <2>6. ASSUME NEW t \in Task, Mark(t) PROVE UNCHANGED <<Contents, phase, arg>>
    BY <2>0, <2>6, <2>a DEF Mark, ring, PhaseOf
  <2>7. ASSUME NEW t \in Task, Pend(t) PROVE UNCHANGED <<Contents, phase, arg>>
    BY <2>0, <2>7, <2>a DEF Pend, ring, PhaseOf
  <2>8. ASSUME NEW t \in Task, Expire(t) PROVE UNCHANGED <<Contents, phase, arg>>
    BY <2>0, <2>8, <2>a DEF Expire, ring, PhaseOf
  <2>9. ASSUME NEW t \in Task, Unmark(t) PROVE UNCHANGED <<Contents, phase, arg>>
    BY <2>0, <2>9, <2>a DEF Unmark, ring, PhaseOf
  <2>10. ASSUME NEW t \in Task, CheckForced(t) PROVE UNCHANGED <<Contents, phase, arg>>
    BY <2>0, <2>10, <2>a DEF CheckForced, ring, PhaseOf
  <2>11. ASSUME NEW t \in Task, Clear(t) PROVE Fifo!Fail(t)
    BY <2>0, <2>11, <2>b DEF Clear, Pc, Rest
  <2>12. ASSUME UnBlock PROVE UNCHANGED <<Contents, phase, arg>>
    <3>1. Unblockable \in SUBSET Side /\ PostSems(Unblockable, pc)
      BY <2>12 DEF Unblockable, UnBlock
    <3>2. \A u \in Task : pc'[u] = pc[u] \/ (pc[u] = "wait" /\ pc'[u] = "woken")
      BY <2>0, <3>1, PostSemsEffect
    <3>3. \A u \in Task : PhaseOf(u)' = PhaseOf(u)
      BY <3>2 DEF PhaseOf
    <3> QED BY <2>12, <2>a, <3>3 DEF UnBlock, ring
  <2>13. ASSUME Reset PROVE Fifo!Empty
    <3>1. count' = 0 /\ UNCHANGED <<pc, call>>
      BY <2>13 DEF Reset
    <3>2. Contents' = <<>>
      BY <3>1 DEF Contents
    <3>3. phase' = phase /\ arg' = arg
      BY <3>1 DEF PhaseOf, ArgOf
    <3> QED BY <3>2, <3>3 DEF Fifo!Empty
  <2>14. CASE UNCHANGED vars
    BY <2>14, <2>a DEF vars, ring, PhaseOf
  <2> QED
    BY <2>1, <2>2, <2>3, <2>4, <2>5, <2>6, <2>7, <2>8, <2>9, <2>10, <2>11,
       <2>12, <2>13, <2>14 DEF Next, Step, Fifo!Next
<1> QED
  BY <1>1, <1>2, TypeCorrect, CursorsAlwaysAgree, PTL
     DEF Spec, ImplementsFifo, Fifo!Spec

-----------------------------------------------------------------------------
(* No lost wakeup, and all are released.                                    *)

\* The tasks that may pend on a side.
Blockers(s) == {t \in Task : s \in BlockOn /\ \E c \in Calls[t] : c.side = s /\ c.timeout # "none"}
\* Nobody asks for several items at a time, which would swallow the wakeups of
\* others (utils_que.c:342), ...
SingleItems == \A t \in Task : \A c \in Calls[t] : c.side = "get" => c.minCount <= 1
\* ... and a side that may be unblocked has two tasks at most that pend on it.
TwoBlockers == "unblock" \in Controls =>
                  \A s \in Side : \A t, u, v \in Blockers(s) : t = u \/ u = v \/ t = v
OneBlocker == \A s \in Side : \A t, u \in Blockers(s) : t = u

\* A call is one of those the task makes, but for the item it took, and one
\* in its blocking part may block.
InBlock == {"mark", "pend", "wait", "woken", "expired", "check", "clear"}
CallInv ==
    \A t \in Task : pc[t] # "idle" =>
        /\ \E c \in Calls[t] : /\ c.side = call[t].side /\ c.minCount = call[t].minCount
                               /\ c.timeout = call[t].timeout
        /\ pc[t] \in InBlock => t \in Blockers(call[t].side)
SemInv == \A s \in Side : sem[s] > 0 => Waiting(s) = {}
CallsInv == CallInv /\ SemInv

LEMMA Tasks ==
    ASSUME TypeOK, NEW t \in Task
    PROVE  /\ call[t] \in Call /\ call[t].side \in Side /\ pc[t] \in Pc
           /\ Other(call[t].side) \in Side /\ Other(call[t].side) # call[t].side
BY DEF TypeOK, Call, Side, Other

\* A step of a task that keeps the arguments of its call but the item.
LEMMA CallStep ==
    ASSUME TypeOK, CallInv, NEW t \in Task, pc[t] # "idle",
           \A u \in Task : /\ call'[u].side = call[u].side
                           /\ call'[u].minCount = call[u].minCount
                           /\ call'[u].timeout = call[u].timeout,
           \A u \in Task \ {t} : pc'[u] = pc[u] \/ (pc[u] = "wait" /\ pc'[u] = "woken"),
           pc'[t] \in InBlock => pc[t] \in InBlock \/ t \in Blockers(call[t].side)
    PROVE  CallInv'
<1> SUFFICES ASSUME NEW u \in Task, pc'[u] # "idle"
             PROVE  /\ \E c \in Calls[u] : /\ c.side = call'[u].side
                                           /\ c.minCount = call'[u].minCount
                                           /\ c.timeout = call'[u].timeout
                    /\ pc'[u] \in InBlock => u \in Blockers(call'[u].side)
  BY DEF CallInv, Blockers
<1>1. pc[u] # "idle"
  OBVIOUS
<1>2. /\ \E c \in Calls[u] : /\ c.side = call[u].side /\ c.minCount = call[u].minCount
                             /\ c.timeout = call[u].timeout
      /\ pc[u] \in InBlock => u \in Blockers(call[u].side)
  BY <1>1 DEF CallInv
<1>3. pc'[u] \in InBlock => pc[u] \in InBlock \/ u \in Blockers(call[u].side)
  BY DEF InBlock
<1> QED
  BY <1>2, <1>3

LEMMA CallInvStep == ASSUME TypeOK, CallInv, [Next]_vars PROVE CallInv'
<1> USE DEF Goto
<1>0. pc \in [Task -> Pc] /\ call \in [Task -> Call]
  BY DEF TypeOK
<1>1. ASSUME NEW t \in Task, Begin(t) PROVE CallInv'
  <2>1. PICK c \in Calls[t] : call' = [call EXCEPT ![t] = c]
    BY <1>1 DEF Begin
  <2>2. pc' = [pc EXCEPT ![t] = "test"]
    BY <1>1 DEF Begin
  <2> QED BY <1>0, <2>1, <2>2 DEF CallInv, InBlock, Blockers
<1>2. ASSUME NEW t \in Task, PutInsert(t) PROVE CallInv'
  <2>1. pc[t] = "test" /\ UNCHANGED call /\ pc' = [pc EXCEPT ![t] = AfterSuccess(t)]
    BY <1>2 DEF PutInsert
  <2>2. AfterSuccess(t) \notin InBlock
    BY DEF AfterSuccess, InBlock
  <2> QED BY <1>0, <2>1, <2>2, CallStep
<1>3. ASSUME NEW t \in Task, GetExtract(t) PROVE CallInv'
  <2>1. /\ pc[t] = "test" /\ call' = [call EXCEPT ![t].data = queue[curRd]]
        /\ pc' = [pc EXCEPT ![t] = AfterSuccess(t)]
    BY <1>3 DEF GetExtract
  <2>2. AfterSuccess(t) \notin InBlock
    BY DEF AfterSuccess, InBlock
  <2>3. \A u \in Task : /\ call'[u].side = call[u].side
                        /\ call'[u].minCount = call[u].minCount
                        /\ call'[u].timeout = call[u].timeout
    BY <1>0, <2>1 DEF Call
  <2>4. pc[t] # "idle" /\ pc'[t] \notin InBlock
    BY <1>0, <2>1, <2>2
  <2>5. \A u \in Task \ {t} : pc'[u] = pc[u]
    BY <1>0, <2>1
  <2> QED BY <2>3, <2>4, <2>5, CallStep
<1>4. ASSUME NEW t \in Task, Miss(t) PROVE CallInv'
  <2>1. pc[t] = "test" /\ UNCHANGED call /\ \A u \in Task \ {t} : pc'[u] = pc[u]
    BY <1>4, <1>0 DEF Miss
  <2>2. pc'[t] \in InBlock => call[t].timeout # "none" /\ call[t].side \in BlockOn
    BY <1>4, <1>0 DEF Miss, InBlock
  <2>3. \E c \in Calls[t] : c.side = call[t].side /\ c.timeout = call[t].timeout
    BY <2>1 DEF CallInv
  <2>4. pc'[t] \in InBlock => t \in Blockers(call[t].side)
    BY <2>2, <2>3 DEF Blockers
  <2> QED BY <2>1, <2>4, CallStep
<1>5. ASSUME NEW t \in Task, Post(t) PROVE CallInv'
  <2> DEFINE npc == [pc EXCEPT ![t] = "done"]
             S == {Other(call[t].side)}
  <2>1. npc \in [Task -> Pc] /\ S \in SUBSET Side
    BY <1>0, Tasks DEF Pc, Rest
  <2>2. PostSems(S, npc) /\ pc[t] = "post" /\ UNCHANGED call
    BY <1>5 DEF Post
  <2>3. \A u \in Task : pc'[u] = npc[u] \/ (pc[u] = "wait" /\ pc'[u] = "woken")
    <3> HIDE DEF npc, S
    <3> QED BY <2>1, <2>2, PostSemsEffect
  <2>4. pc'[t] = "done" /\ \A u \in Task \ {t} : pc'[u] = pc[u] \/ (pc[u] = "wait" /\ pc'[u] = "woken")
    BY <1>0, <2>2, <2>3
  <2> QED BY <2>2, <2>4, CallStep DEF InBlock
<1>6. ASSUME NEW t \in Task,
             Mark(t) \/ Pend(t) \/ Expire(t) \/ Unmark(t) \/ CheckForced(t) \/ Clear(t)
      PROVE  CallInv'
  <2>1. pc[t] \in InBlock /\ UNCHANGED call /\ \A u \in Task \ {t} : pc'[u] = pc[u]
    BY <1>0, <1>6 DEF Mark, Pend, Expire, Unmark, CheckForced, Clear, InBlock
  <2> QED BY <2>1, CallStep DEF InBlock
<1>7. ASSUME UnBlock PROVE CallInv'
  <2>1. Unblockable \in SUBSET Side /\ PostSems(Unblockable, pc) /\ UNCHANGED call
    BY <1>7 DEF Unblockable, UnBlock
  <2>2. \A u \in Task : pc'[u] = pc[u] \/ (pc[u] = "wait" /\ pc'[u] = "woken")
    BY <1>0, <2>1, PostSemsEffect
  <2> QED BY <2>1, <2>2 DEF CallInv, InBlock, Blockers
<1>8. ASSUME Reset \/ UNCHANGED vars PROVE CallInv'
  BY <1>8 DEF Reset, vars, CallInv, Blockers
<1> QED
  BY <1>1, <1>2, <1>3, <1>4, <1>5, <1>6, <1>7, <1>8 DEF Next, Step

\* Who pends on a side has found no count, and gets the next one.
LEMMA SemInvStep == ASSUME TypeOK, SemInv, [Next]_vars PROVE SemInv'
<1> USE DEF Goto
<1>0. pc \in [Task -> Pc] /\ call \in [Task -> Call] /\ sem \in [Side -> Nat]
  BY DEF TypeOK
<1>a. ASSUME NEW S \in SUBSET Side, NEW pcs \in [Task -> Pc], PostSems(S, pcs),
             \A u \in Task : pcs[u] = "wait" => pc[u] = "wait", UNCHANGED call
      PROVE  SemInv'
  <2> SUFFICES ASSUME NEW s \in Side, sem'[s] > 0, NEW u \in Task, pc'[u] = "wait",
                      call[u].side = s
               PROVE  FALSE
    BY <1>a DEF SemInv, Waiting
  <2>1. pc[u] = "wait"
    BY <1>a, <1>0, PostSemsEffect
  <2>2. u \in Waiting(s)
    BY <2>1 DEF Waiting
  <2>3. sem'[s] = sem[s]
    BY <1>a, <2>2 DEF PostSems
  <2> QED BY <2>2, <2>3 DEF SemInv
<1>b. ASSUME UNCHANGED sem,
             \A u \in Task : pc'[u] = "wait" => pc[u] = "wait" /\ call'[u].side = call[u].side
      PROVE  SemInv'
  BY <1>b DEF SemInv, Waiting
<1>1. ASSUME NEW t \in Task, Begin(t) PROVE SemInv'
  <2>1. UNCHANGED sem /\ pc' = [pc EXCEPT ![t] = "test"] /\ \A u \in Task \ {t} : call'[u] = call[u]
    BY <1>0, <1>1 DEF Begin
  <2> QED BY <1>0, <1>b, <2>1
<1>2. ASSUME NEW t \in Task, PutInsert(t) \/ Miss(t) PROVE SemInv'
  <2>1. UNCHANGED <<sem, call>> /\ pc'[t] # "wait" /\ \A u \in Task \ {t} : pc'[u] = pc[u]
    BY <1>0, <1>2 DEF PutInsert, Miss, AfterSuccess
  <2> QED BY <1>b, <2>1
<1>3. ASSUME NEW t \in Task, GetExtract(t) PROVE SemInv'
  <2>1. /\ UNCHANGED sem /\ pc'[t] # "wait"
        /\ \A u \in Task \ {t} : pc'[u] = pc[u] /\ call'[u] = call[u]
    BY <1>0, <1>3 DEF GetExtract, AfterSuccess
  <2> QED BY <1>b, <2>1
<1>4. ASSUME NEW t \in Task, Post(t) PROVE SemInv'
  <2> DEFINE npc == [pc EXCEPT ![t] = "done"]
             S == {Other(call[t].side)}
  <2>1. npc \in [Task -> Pc] /\ S \in SUBSET Side /\ \A u \in Task : npc[u] = "wait" => pc[u] = "wait"
    BY <1>0, Tasks DEF Pc, Rest
  <2>2. PostSems(S, npc) /\ UNCHANGED call
    BY <1>4 DEF Post
  <2> HIDE DEF npc, S
  <2> QED BY <1>a, <2>1, <2>2
<1>5. ASSUME NEW t \in Task, Pend(t) PROVE SemInv'
  <2>0. call[t].side \in Side
    BY Tasks
  <2>1. CASE sem[call[t].side] > 0
    <3>1. /\ \A s \in Side : sem'[s] > 0 => sem[s] > 0
          /\ \A u \in Task : pc'[u] = "wait" => pc[u] = "wait"
          /\ UNCHANGED call
      BY <1>0, <1>5, <2>0, <2>1 DEF Pend
    <3> QED BY <3>1 DEF SemInv, Waiting
  <2>2. CASE sem[call[t].side] = 0
    <3>1. /\ UNCHANGED <<sem, call>>
          /\ \A u \in Task \ {t} : pc'[u] = pc[u]
      BY <1>0, <1>5, <2>0, <2>2 DEF Pend
    <3> QED BY <2>2, <3>1 DEF SemInv, Waiting
  <2> QED BY <1>5, <2>1, <2>2 DEF Pend
<1>6. ASSUME NEW t \in Task, Mark(t) \/ Expire(t) \/ Unmark(t) \/ CheckForced(t) \/ Clear(t)
      PROVE  SemInv'
  <2>1. UNCHANGED <<sem, call>> /\ pc'[t] # "wait" /\ \A u \in Task \ {t} : pc'[u] = pc[u]
    BY <1>0, <1>6 DEF Mark, Expire, Unmark, CheckForced, Clear
  <2> QED BY <1>b, <2>1
<1>7. ASSUME UnBlock PROVE SemInv'
  <2>1. Unblockable \in SUBSET Side /\ PostSems(Unblockable, pc) /\ UNCHANGED call
    BY <1>7 DEF Unblockable, UnBlock
  <2> QED BY <1>0, <1>a, <2>1
<1>8. ASSUME Reset \/ UNCHANGED vars PROVE SemInv'
  BY <1>8, <1>b DEF Reset, vars
<1> QED
  BY <1>1, <1>2, <1>3, <1>4, <1>5, <1>6, <1>7, <1>8 DEF Next, Step

THEOREM CallsKept == Spec => []CallsInv
<1>1. Init => CallsInv
  BY DEF Init, CallsInv, CallInv, SemInv
<1>2. TypeOK /\ CallsInv /\ [Next]_vars => CallsInv'
  BY CallInvStep, SemInvStep DEF CallsInv
<1> QED
  BY <1>1, <1>2, TypeCorrect, PTL DEF Spec

-----------------------------------------------------------------------------
(* With one task at most to pend on a side.                                 *)

\* The flag of a side is up as long as its task pends, so an unblock finds it.
MarkInv == \A t \in Task : pc[t] \in {"pend", "wait", "woken", "expired"} =>
                              blockedOn[call[t].side]

LEMMA MarkStep == ASSUME OneBlocker, TypeOK, CallInv, MarkInv, [Next]_vars PROVE MarkInv'
<1> USE DEF Goto
<1>0. /\ pc \in [Task -> Pc] /\ call \in [Task -> Call]
      /\ blockedOn \in [Side -> BOOLEAN]
      /\ \A t \in Task : call[t].side \in Side
  BY Tasks DEF TypeOK
<1>a. ASSUME UNCHANGED blockedOn,
             \A u \in Task : pc'[u] \in {"pend", "wait", "woken", "expired"} =>
                /\ pc[u] \in {"pend", "wait", "woken", "expired"}
                /\ call'[u].side = call[u].side
      PROVE  MarkInv'
  BY <1>a DEF MarkInv
<1>1. ASSUME NEW t \in Task, Begin(t) \/ PutInsert(t) \/ GetExtract(t) \/ Miss(t) PROVE MarkInv'
  <2>1. /\ UNCHANGED blockedOn /\ pc'[t] \notin {"pend", "wait", "woken", "expired"}
        /\ \A u \in Task \ {t} : pc'[u] = pc[u] /\ call'[u] = call[u]
    BY <1>0, <1>1 DEF Begin, PutInsert, GetExtract, Miss, AfterSuccess, flags
  <2> QED BY <1>a, <2>1
<1>2. ASSUME NEW t \in Task, Post(t) PROVE MarkInv'
  <2> DEFINE npc == [pc EXCEPT ![t] = "done"]
             S == {Other(call[t].side)}
  <2>1. npc \in [Task -> Pc] /\ S \in SUBSET Side
    BY <1>0, Tasks DEF Pc, Rest
  <2>2. PostSems(S, npc) /\ pc[t] = "post" /\ UNCHANGED <<call, blockedOn>>
    BY <1>2 DEF Post, flags
  <2>3. \A u \in Task : pc'[u] = npc[u] \/ (pc[u] = "wait" /\ pc'[u] = "woken")
    <3> HIDE DEF npc, S
    <3> QED BY <2>1, <2>2, PostSemsEffect
  <2>4. \A u \in Task : pc'[u] \in {"pend", "wait", "woken", "expired"} =>
                           pc[u] \in {"pend", "wait", "woken", "expired"}
    BY <1>0, <2>2, <2>3
  <2> QED BY <1>a, <2>2, <2>4
<1>3. ASSUME NEW t \in Task, Mark(t) PROVE MarkInv'
  <2>1. /\ pc[t] = "mark" /\ pc' = [pc EXCEPT ![t] = "pend"] /\ UNCHANGED call
        /\ blockedOn' = [blockedOn EXCEPT ![call[t].side] = TRUE]
    BY <1>3 DEF Mark
  <2> SUFFICES ASSUME NEW u \in Task, pc'[u] \in {"pend", "wait", "woken", "expired"}
               PROVE  blockedOn'[call'[u].side]
    BY DEF MarkInv
  <2>2. blockedOn'[call[u].side] = IF call[u].side = call[t].side THEN TRUE ELSE blockedOn[call[u].side]
    BY <1>0, <2>1
  <2>3. u # t => pc[u] \in {"pend", "wait", "woken", "expired"}
    BY <1>0, <2>1
  <2>4. u # t => blockedOn[call[u].side]
    BY <2>3 DEF MarkInv
  <2> QED BY <2>1, <2>2, <2>4
<1>4. ASSUME NEW t \in Task, Pend(t) \/ Expire(t) \/ CheckForced(t) \/ Clear(t) PROVE MarkInv'
  <2>1. /\ UNCHANGED <<blockedOn, call>>
        /\ pc'[t] \in {"pend", "wait", "woken", "expired"} =>
              pc[t] \in {"pend", "wait", "woken", "expired"}
        /\ \A u \in Task \ {t} : pc'[u] = pc[u]
    BY <1>0, <1>4 DEF Pend, Expire, CheckForced, Clear, flags
  <2> QED BY <1>a, <2>1
<1>5. ASSUME NEW t \in Task, Unmark(t) PROVE MarkInv'
  <2>1. /\ pc[t] \in InBlock /\ pc'[t] \in {"check", "clear"} /\ UNCHANGED call
        /\ blockedOn' = [blockedOn EXCEPT ![call[t].side] = FALSE]
        /\ \A u \in Task \ {t} : pc'[u] = pc[u]
    BY <1>0, <1>5 DEF Unmark, InBlock
  <2>2. t \in Blockers(call[t].side)
    BY <1>0, <2>1 DEF CallInv, InBlock
  <2> SUFFICES ASSUME NEW u \in Task, pc'[u] \in {"pend", "wait", "woken", "expired"}
               PROVE  blockedOn'[call'[u].side]
    BY DEF MarkInv
  <2>3. u # t /\ pc[u] = pc'[u]
    BY <2>1
  <2>4. u \in Blockers(call[u].side)
    BY <2>3 DEF CallInv, InBlock
  <2>5. call[u].side # call[t].side
    BY <1>0, <2>2, <2>3, <2>4 DEF OneBlocker
  <2>6. blockedOn[call[u].side]
    BY <2>3 DEF MarkInv
  <2>7. blockedOn'[call[u].side] = blockedOn[call[u].side]
    BY <1>0, <2>1, <2>5
  <2> QED BY <2>1, <2>6, <2>7
<1>6. ASSUME UnBlock PROVE MarkInv'
  <2>1. Unblockable \in SUBSET Side /\ PostSems(Unblockable, pc) /\ UNCHANGED <<call, blockedOn>>
    BY <1>6 DEF Unblockable, UnBlock
  <2>2. \A u \in Task : pc'[u] = pc[u] \/ (pc[u] = "wait" /\ pc'[u] = "woken")
    BY <1>0, <2>1, PostSemsEffect
  <2> QED BY <1>a, <2>1, <2>2
<1>7. ASSUME Reset PROVE MarkInv'
  BY <1>7 DEF Reset, NobodyBlocked, MarkInv
<1>8. ASSUME UNCHANGED vars PROVE MarkInv'
  BY <1>8, <1>a DEF vars, flags
<1> QED
  BY <1>1, <1>2, <1>3, <1>4, <1>5, <1>6, <1>7, <1>8 DEF Next, Step

\* Utils_queUnBlock releases whoever pends, as long as a side has one task at
\* most that does (it posts a semaphore once).
THEOREM UnBlockReleases == ASSUME OneBlocker PROVE Spec => UnBlockReleasesAll
<1>1. Init => MarkInv
  BY DEF Init, MarkInv
<1>2. TypeOK /\ CallsInv /\ MarkInv /\ [Next]_vars => MarkInv'
  BY MarkStep DEF CallsInv
<1>3. TypeOK /\ CallsInv /\ MarkInv /\ [Next]_vars
         => [UnBlock => \A t \in Task : pc[t] = "wait" => pc'[t] # "wait"]_vars
  <2> SUFFICES ASSUME TypeOK, CallsInv, MarkInv, UnBlock, NEW t \in Task,
                      pc[t] = "wait", pc'[t] = "wait"
               PROVE  FALSE
    OBVIOUS
  <2> DEFINE s == call[t].side
  <2>1. s \in Side /\ t \in Waiting(s) /\ blockedOn[s]
    BY Tasks DEF Waiting, MarkInv
  <2>2. t \in Blockers(s)
    BY DEF CallsInv, CallInv, InBlock
  <2>3. sem[s] = 0
    <3>1. sem[s] \in Nat
      BY <2>1 DEF TypeOK
    <3>2. ~ (sem[s] > 0)
      BY <2>1 DEF CallsInv, SemInv
    <3> QED BY <3>1, <3>2
  <2>4. s \in Unblockable
    BY <2>1, <2>2, <2>3 DEF Unblockable, Blockers
  <2>5. Unblockable \in SUBSET Side /\ PostSems(Unblockable, pc) /\ pc \in [Task -> Pc]
    BY DEF Unblockable, UnBlock, TypeOK
  <2> HIDE DEF s
  <2>6. PICK u \in Waiting(s) : pc'[u] = "woken"
    BY <2>1, <2>4, <2>5, PostSemsEffect
  <2>7. u \in Blockers(s)
    BY <2>6 DEF CallsInv, CallInv, InBlock, Waiting
  <2>8. u = t
    BY <2>1, <2>2, <2>7 DEF OneBlocker
  <2> QED BY <2>6, <2>8
<1> QED
  BY <1>1, <1>2, <1>3, TypeCorrect, CallsKept, PTL DEF Spec, UnBlockReleasesAll

-----------------------------------------------------------------------------
(* No wakeup is lost.  Every item or place beyond those that some task is   *)
(* on its way to take or to announce must not exist while anybody is about  *)
(* to pend; the count of the semaphore announces some.  An unblock posts    *)
(* once without an item, and the task that sees the flag leaves: as long as *)
(* it may, there is one announcement more.                                  *)
Pending(s) == {t \in Task : call[t].side = s /\ pc[t] \in {"mark", "pend", "wait"}}
Woken(s) == {t \in Task : call[t].side = s /\ pc[t] \in {"woken", "check"}}
Debt(s) == IF forceUnblock[s] /\ (Woken(s) # {} \/ \E t, u \in Pending(s) : t # u) THEN 1 ELSE 0
Wake(s) == Pending(s) # {} =>
              Available(s) + Debt(s) <= Cardinality(Responsible(s)) + sem[s]
WakeInv == /\ \A s \in Side : Wake(s)
           /\ "unblock" \notin Controls => \A s \in Side : ~ forceUnblock[s]

LEMMA OneMore ==
    ASSUME IsFiniteSet(Task), NEW R \in SUBSET Task, NEW t \in Task
    PROVE  /\ Cardinality(R) \in Nat /\ IsFiniteSet(R)
           /\ t \notin R => Cardinality(R \cup {t}) = Cardinality(R) + 1
           /\ t \in R => Cardinality(R \ {t}) = Cardinality(R) - 1 /\ Cardinality(R) >= 1
<1>1. IsFiniteSet(R) /\ Cardinality(R) \in Nat
  BY FS_Subset, FS_CardinalityType
<1>2. t \notin R => Cardinality(R \cup {t}) = Cardinality(R) + 1
  BY <1>1, FS_AddElement
<1>3. ASSUME t \in R PROVE Cardinality(R \ {t}) = Cardinality(R) - 1 /\ Cardinality(R) >= 1
  <2>1. Cardinality(R \ {t}) = Cardinality(R) - 1
    BY <1>1, <1>3, FS_RemoveElement
  <2>2. IsFiniteSet(R \ {t}) /\ Cardinality(R \ {t}) \in Nat
    BY FS_Subset, FS_CardinalityType
  <2> QED BY <1>1, <2>1, <2>2
<1> QED
  BY <1>1, <1>2, <1>3

\* What the invariants say of a side.
LEMMA SideIs ==
    ASSUME IsFiniteSet(Task), TypeOK, NEW s \in Side
    PROVE  /\ Available(s) \in Nat /\ sem[s] \in Nat /\ Debt(s) \in {0, 1}
           /\ Responsible(s) \in SUBSET Task /\ Cardinality(Responsible(s)) \in Nat
           /\ Responsible(s) # {} => Cardinality(Responsible(s)) >= 1
<1>1. Available(s) \in Nat /\ sem[s] \in Nat /\ Debt(s) \in {0, 1}
  BY DEF TypeOK, Available, Debt
<1>2. Responsible(s) \in SUBSET Task
  BY DEF Responsible
<1>3. Cardinality(Responsible(s)) \in Nat
  BY <1>2, FS_Subset, FS_CardinalityType
<1>4. ASSUME NEW t \in Responsible(s) PROVE Cardinality(Responsible(s)) >= 1
  BY <1>2, OneMore
<1> QED
  BY <1>1, <1>2, <1>3, <1>4

\* Two tasks at most are in the blocking part of calls of a side whose flag is up.
LEMMA Two ==
    ASSUME TwoBlockers, CallInv, WakeInv, NEW s \in Side, forceUnblock[s],
           NEW t \in Task, NEW u \in Task, NEW v \in Task,
           \A w \in {t, u, v} : call[w].side = s /\ pc[w] \in InBlock
    PROVE  t = u \/ u = v \/ t = v
<1>1. "unblock" \in Controls
  BY DEF WakeInv
<1>2. ASSUME NEW w \in {t, u, v} PROVE w \in Blockers(s)
  <2>1. w \in Task /\ call[w].side = s /\ pc[w] \in InBlock
    OBVIOUS
  <2> QED BY <2>1 DEF CallInv, InBlock
<1>3. t \in Blockers(s) /\ u \in Blockers(s) /\ v \in Blockers(s)
  BY <1>2
<1> QED
  BY <1>1, <1>3 DEF TwoBlockers

\* A task goes on; nobody begins to pend, and no flag is raised.
LEMMA WakeStays ==
    ASSUME IsFiniteSet(Task), TypeOK, TypeOK', NEW s \in Side, Wake(s),
           Pending(s)' \subseteq Pending(s),
           Woken(s)' \subseteq Woken(s) \/ \E t, u \in Pending(s) : t # u,
           forceUnblock'[s] => forceUnblock[s],
           Available(s)' - Cardinality(Responsible(s)') - sem'[s]
              <= Available(s) - Cardinality(Responsible(s)) - sem[s]
    PROVE  Wake(s)'
<1> SUFFICES ASSUME Pending(s)' # {}
             PROVE  Available(s)' + Debt(s)' <= Cardinality(Responsible(s)') + sem'[s]
  BY DEF Wake
<1>1. Available(s) + Debt(s) <= Cardinality(Responsible(s)) + sem[s]
  BY DEF Wake
<1>2. Debt(s)' = 1 => Debt(s) = 1
  BY DEF Debt
<1>3. /\ Available(s) \in Nat /\ sem[s] \in Nat /\ Debt(s) \in {0, 1}
      /\ Cardinality(Responsible(s)) \in Nat
  BY SideIs
<1>4. (/\ Available(s) \in Nat /\ sem[s] \in Nat /\ Debt(s) \in {0, 1}
       /\ Cardinality(Responsible(s)) \in Nat)'
  BY SideIs, PTL
<1> QED
  BY <1>1, <1>2, <1>3, <1>4

LEMMA BeginWake ==
    ASSUME IsFiniteSet(Task), TypeOK, TypeOK', NEW s \in Side, Wake(s),
           NEW t \in Task, Begin(t)
    PROVE  Wake(s)'
<1>0. pc \in [Task -> Pc] /\ call \in [Task -> Call]
  BY DEF TypeOK
<1>1. /\ pc[t] \in Rest /\ pc' = [pc EXCEPT ![t] = "test"] /\ UNCHANGED <<ring, sem, flags>>
      /\ \A u \in Task \ {t} : call'[u] = call[u]
  BY <1>0 DEF Begin, Goto
<1>2. t \notin Responsible(s)
  BY <1>1 DEF Responsible, Rest
<1>3. Responsible(s)' = Responsible(s) \/ Responsible(s)' = Responsible(s) \cup {t}
  BY <1>0, <1>1, <1>2 DEF Responsible
<1>4. Cardinality(Responsible(s)') >= Cardinality(Responsible(s)) /\ Cardinality(Responsible(s)') \in Nat
  BY <1>2, <1>3, SideIs, OneMore
<1>5. Pending(s)' \subseteq Pending(s) /\ Woken(s)' \subseteq Woken(s)
  BY <1>0, <1>1 DEF Pending, Woken
<1>6. Available(s)' = Available(s) /\ sem'[s] = sem[s] /\ forceUnblock'[s] = forceUnblock[s]
  BY <1>1 DEF Available, ring, flags
<1> HIDE DEF Begin
<1>7. Available(s) \in Nat /\ sem[s] \in Nat /\ Cardinality(Responsible(s)) \in Nat
  BY SideIs
<1> QED
  BY <1>4, <1>5, <1>6, <1>7, WakeStays

\* A call that succeeds: an item more or less, and who tells of it.
LEMMA SuccessWake ==
    ASSUME IsFiniteSet(Task), TypeOK, TypeOK', CallInv, NEW s \in Side, Wake(s),
           NEW t \in Task, PutInsert(t) \/ GetExtract(t)
    PROVE  Wake(s)'
<1>0. pc \in [Task -> Pc] /\ call \in [Task -> Call] /\ count \in Nat /\ count' \in Nat
  BY DEF TypeOK
<1>1. /\ pc[t] = "test" /\ pc' = [pc EXCEPT ![t] = AfterSuccess(t)] /\ UNCHANGED <<sem, flags>>
      /\ \A u \in Task : call'[u].side = call[u].side
  BY <1>0 DEF PutInsert, GetExtract, Goto, Call
<1>2. count' = IF call[t].side = "put" THEN count + 1 ELSE count - 1
  BY <1>0 DEF PutInsert, GetExtract
<1>3. call[t].side \in Side
  BY Tasks
<1>a. Pending(s)' \subseteq Pending(s) /\ Woken(s)' \subseteq Woken(s)
  BY <1>0, <1>1 DEF Pending, Woken, AfterSuccess
<1>b. sem'[s] = sem[s] /\ forceUnblock'[s] = forceUnblock[s]
  BY <1>1 DEF flags
<1>c. /\ Available(s) \in Nat /\ sem[s] \in Nat /\ Responsible(s) \in SUBSET Task
      /\ Cardinality(Responsible(s)) \in Nat
  BY SideIs
<1>4. CASE call[t].side = s
  <2>1. Available(s)' = Available(s) - 1
    BY <1>0, <1>2, <1>3, <1>4 DEF Available, Side, TypeOK
  <2>2. t \in Responsible(s) /\ Responsible(s)' = Responsible(s) \ {t}
    BY <1>0, <1>1, <1>3, <1>4 DEF Responsible, AfterSuccess, Other, Side
  <2>3. Cardinality(Responsible(s)') = Cardinality(Responsible(s)) - 1
    BY <1>c, <2>2, OneMore
  <2> QED BY <1>a, <1>b, <1>c, <2>1, <2>3, WakeStays
<1>5. CASE call[t].side # s /\ s \in BlockOn
  <2>0. call[t].side = Other(s) /\ Other(call[t].side) = s
    BY <1>3, <1>5 DEF Other, Side
  <2>1. Available(s)' = Available(s) + 1
    BY <1>0, <1>2, <1>3, <1>5 DEF Available, Side, TypeOK
  <2>2. t \notin Responsible(s) /\ Responsible(s)' = Responsible(s) \cup {t}
    BY <1>0, <1>1, <1>5, <2>0 DEF Responsible, AfterSuccess
  <2>3. Cardinality(Responsible(s)') = Cardinality(Responsible(s)) + 1
    BY <1>c, <2>2, OneMore
  <2> QED BY <1>a, <1>b, <1>c, <2>1, <2>3, WakeStays
<1>6. CASE s \notin BlockOn
  <2>1. ASSUME NEW u \in Pending(s) PROVE FALSE
    <3>1. u \in Task /\ call[u].side = s /\ pc[u] \in {"mark", "pend", "wait"}
      BY DEF Pending
    <3> QED BY <1>6, <3>1 DEF CallInv, InBlock, Blockers
  <2> QED BY <1>a, <2>1 DEF Wake
<1> QED
  BY <1>4, <1>5, <1>6

LEMMA MissWake ==
    ASSUME IsFiniteSet(Task), SingleItems, TwoBlockers, TypeOK, TypeOK', CallInv, CallInv', WakeInv,
           NoStaleForce, NEW s \in Side, NEW t \in Task, Miss(t)
    PROVE  Wake(s)'
<1>0. pc \in [Task -> Pc] /\ call \in [Task -> Call] /\ count \in 0 .. MaxElements
  BY DEF TypeOK
<1>1. /\ pc[t] = "test" /\ ~ Ready(t) /\ UNCHANGED <<ring, sem, flags, call>>
      /\ \A u \in Task \ {t} : pc'[u] = pc[u]
      /\ pc'[t] \in {"failed", "mark"}
  BY <1>0 DEF Miss, Goto
<1>2. call[t].side \in Side
  BY Tasks
<1>3. Available(s)' = Available(s) /\ sem'[s] = sem[s] /\ forceUnblock'[s] = forceUnblock[s]
  BY <1>1 DEF Available, ring, flags
<1>p. (/\ Debt(s) \in {0, 1} /\ Responsible(s) \in SUBSET Task
       /\ Cardinality(Responsible(s)) \in Nat /\ sem[s] \in Nat
       /\ Responsible(s) # {} => Cardinality(Responsible(s)) >= 1)'
  BY SideIs, PTL
<1>4. CASE call[t].side # s
  <2>1. Responsible(s)' = Responsible(s) /\ Pending(s)' = Pending(s) /\ Woken(s)' = Woken(s)
    BY <1>0, <1>1, <1>4 DEF Responsible, Pending, Woken
  <2> QED BY <1>3, <2>1 DEF WakeInv, Wake, Debt
<1>5. CASE call[t].side = s
  <2>1. Available(s) = 0
    <3>1. PICK c \in Calls[t] : c.side = call[t].side /\ c.minCount = call[t].minCount
      BY <1>1 DEF CallInv
    <3>2. call[t].side = "get" => call[t].minCount <= 1 /\ call[t].minCount \in Nat
      BY <1>0, <3>1 DEF SingleItems, Call
    <3>3. call[t].side = "get" => MinCount(t) = 1
      BY <3>2 DEF MinCount
    <3> QED BY <1>0, <1>1, <1>2, <1>5, <3>3 DEF Ready, Available, Side
  <2> SUFFICES ASSUME forceUnblock[s], Woken(s)' # {} \/ \E u, v \in Pending(s)' : u # v
               PROVE  Cardinality(Responsible(s)') + sem'[s] >= 1
    <3>2. Debt(s)' = 1 => forceUnblock[s] /\ (Woken(s)' # {} \/ \E u, v \in Pending(s)' : u # v)
      BY <1>3 DEF Debt
    <3> QED BY <1>3, <1>p, <2>1, <3>2 DEF Wake
  <2>2. /\ Responsible(s)' \in SUBSET Task /\ Cardinality(Responsible(s)') \in Nat
        /\ sem'[s] \in Nat
        /\ Responsible(s)' # {} => Cardinality(Responsible(s)') >= 1
    BY <1>p
  <2>3. CASE Woken(s)' # {}
    <3>1. Responsible(s)' # {}
      BY <2>3 DEF Woken, Responsible
    <3> QED BY <2>2, <3>1
  <2>4. ASSUME NEW u \in Pending(s)', NEW v \in Pending(s)', u # v
        PROVE  Cardinality(Responsible(s)') + sem'[s] >= 1
    <3>1. PICK x \in Task : /\ call[x].side = s
                           /\ \/ pc[x] \in {"woken", "expired", "check", "clear"}
                              \/ pc[x] = "pend" /\ sem[s] > 0
      BY DEF NoStaleForce
    <3>2. /\ u \in Task /\ call'[u].side = s /\ pc'[u] \in {"mark", "pend", "wait"}
          /\ v \in Task /\ call'[v].side = s /\ pc'[v] \in {"mark", "pend", "wait"}
      BY <2>4 DEF Pending
    <3>3. x # t /\ pc'[x] = pc[x] /\ call'[x].side = s
      BY <1>1, <3>1
    <3>4. u \in Blockers(s) /\ v \in Blockers(s) /\ x \in Blockers(s)
      <4>1. ASSUME NEW w \in {u, v, x} PROVE w \in Blockers(s)
        <5>1. w \in Task /\ call'[w].side = s /\ pc'[w] \in InBlock /\ pc'[w] # "idle"
          BY <3>1, <3>2, <3>3 DEF InBlock
        <5>2. w \in Blockers(s)'
          BY <5>1 DEF CallInv
        <5> QED BY <5>2 DEF Blockers
      <4> QED BY <4>1
    <3>5. x = u \/ x = v
      BY <2>4, <3>4 DEF WakeInv, TwoBlockers
    <3>6. sem[s] > 0
      BY <3>1, <3>2, <3>3, <3>5
    <3> QED BY <1>3, <2>2, <3>6
  <2> QED BY <2>3, <2>4
<1> QED
  BY <1>4, <1>5

\* What a post of the semaphores of some sides does to one side.
LEMMA PostOne ==
    ASSUME TypeOK, NEW S \in SUBSET Side, NEW pcs \in [Task -> Pc], PostSems(S, pcs), NEW s \in Side
    PROVE  /\ s \notin S \/ Waiting(s) = {} =>
                 \A u \in Task : call[u].side = s => pc'[u] = pcs[u]
           /\ s \notin S => sem'[s] = sem[s]
           /\ s \in S /\ Waiting(s) = {} => sem'[s] = sem[s] + 1
           /\ s \in S /\ Waiting(s) # {} =>
                 /\ sem'[s] = sem[s]
                 /\ \E w \in Waiting(s) :
                       /\ pc'[w] = "woken"
                       /\ \A u \in Task \ {w} : call[u].side = s => pc'[u] = pcs[u]
<1>1. sem' = [x \in Side |-> IF x \in S /\ Waiting(x) = {} THEN sem[x] + 1 ELSE sem[x]]
  BY DEF PostSems
<1>2. PICK w \in [S -> Task] :
         /\ \A x \in S : Waiting(x) # {} => w[x] \in Waiting(x)
         /\ pc' = [t \in Task |-> IF \E x \in S : Waiting(x) # {} /\ w[x] = t
                                   THEN "woken" ELSE pcs[t]]
  BY DEF PostSems
<1>3. \A x \in S, u \in Task : Waiting(x) # {} /\ w[x] = u => call[u].side = x
  BY <1>2 DEF Waiting
<1>4. \A u \in Task : pc'[u] = IF \E x \in S : Waiting(x) # {} /\ w[x] = u
                               THEN "woken" ELSE pcs[u]
  BY <1>2
<1>5. ASSUME s \notin S \/ Waiting(s) = {}
      PROVE  \A u \in Task : call[u].side = s => pc'[u] = pcs[u]
  BY <1>3, <1>4, <1>5
<1>6. ASSUME s \in S /\ Waiting(s) # {}
      PROVE  /\ w[s] \in Waiting(s) /\ pc'[w[s]] = "woken"
             /\ \A u \in Task \ {w[s]} : call[u].side = s => pc'[u] = pcs[u]
  <2>1. w[s] \in Waiting(s) /\ w[s] \in Task
    BY <1>2, <1>6 DEF Waiting
  <2>2. pc'[w[s]] = "woken"
    BY <1>4, <1>6, <2>1
  <2> QED BY <1>3, <1>4, <2>1, <2>2
<1> QED
  BY <1>1, <1>5, <1>6

\* A task that is about to pend or pends goes on.
LEMMA WakeOne ==
    ASSUME IsFiniteSet(Task), TypeOK, TypeOK', NEW s \in Side, Wake(s),
           NEW w \in Pending(s), Pending(s)' = Pending(s) \ {w}, w \in Task,
           forceUnblock'[s] => forceUnblock[s],
           Available(s)' - Cardinality(Responsible(s)') - sem'[s]
              <= Available(s) - Cardinality(Responsible(s)) - sem[s]
    PROVE  Wake(s)'
<1>1. CASE \A u \in Pending(s) : u = w
  <2>1. Pending(s)' = {}
    BY <1>1
  <2> QED BY <2>1 DEF Wake
<1>2. CASE \E u \in Pending(s) : u # w
  <2>1. \E t, u \in Pending(s) : t # u
    BY <1>2
  <2>2. Pending(s)' \subseteq Pending(s)
    OBVIOUS
  <2> QED BY <2>1, <2>2, WakeStays
<1> QED
  BY <1>1, <1>2

LEMMA PostWake ==
    ASSUME IsFiniteSet(Task), TypeOK, TypeOK', NEW s \in Side, Wake(s), NEW t \in Task, Post(t)
    PROVE  Wake(s)'
<1> DEFINE npc == [pc EXCEPT ![t] = "done"]
           S == {Other(call[t].side)}
<1>0. pc \in [Task -> Pc] /\ call \in [Task -> Call]
  BY DEF TypeOK
<1>1. npc \in [Task -> Pc] /\ S \in SUBSET Side
  BY <1>0, Tasks DEF Pc, Rest
<1>2. PostSems(S, npc) /\ pc[t] = "post" /\ UNCHANGED <<ring, flags, call>>
  BY DEF Post
<1>3. npc[t] = "done" /\ \A u \in Task \ {t} : npc[u] = pc[u]
  BY <1>0
<1>4. Available(s)' = Available(s) /\ forceUnblock'[s] = forceUnblock[s]
  BY <1>2 DEF Available, ring, flags
<1>5. /\ Available(s) \in Nat /\ sem[s] \in Nat /\ Responsible(s) \in SUBSET Task
      /\ Cardinality(Responsible(s)) \in Nat
  BY SideIs
<1>6. call[t].side \in Side /\ Other(call[t].side) \in Side
  BY Tasks
<1>7. CASE s \notin S
  <2>1. s = call[t].side /\ Other(s) # s
    BY <1>6, <1>7 DEF Side, Other
  <2>2. sem'[s] = sem[s] /\ \A u \in Task : call[u].side = s => pc'[u] = npc[u]
    <3> HIDE DEF npc, S
    <3> QED BY <1>1, <1>2, <1>7, PostOne
  <2>3. \A u \in Task : pc'[u] = npc[u] \/ (pc[u] = "wait" /\ pc'[u] = "woken")
    <3> HIDE DEF npc, S
    <3> QED BY <1>1, <1>2, PostSemsEffect
  <2>4. Pending(s)' = Pending(s) /\ Woken(s)' = Woken(s)
    <3> HIDE DEF npc, S
    <3> QED BY <1>2, <1>3, <2>2 DEF Pending, Woken
  <2>5. \A u \in Task : call[u].side = Other(s) => (pc'[u] = "post" <=> pc[u] = "post")
    <3> HIDE DEF npc, S
    <3> QED BY <1>2, <1>3, <2>1, <2>3
  <2>6. Responsible(s)' = Responsible(s)
    <3>1. \A u \in Task : u \in Responsible(s)' <=>
            (pc'[u] = "post" /\ call[u].side = Other(s)) \/ (pc'[u] \in {"woken", "check", "test"} /\ call[u].side = s)
      BY <1>2 DEF Responsible
    <3>2. \A u \in Task : call[u].side = s =>
             (pc'[u] \in {"woken", "check", "test"} <=> pc[u] \in {"woken", "check", "test"})
      <4> HIDE DEF npc, S
      <4> QED BY <1>2, <1>3, <2>2
    <3>3. \A u \in Task : u \in Responsible(s)' <=> u \in Responsible(s)
      BY <2>5, <3>1, <3>2 DEF Responsible
    <3> QED BY <3>3 DEF Responsible
  <2> QED BY <1>4, <2>2, <2>4, <2>6 DEF Wake, Debt
<1>8. CASE s \in S
  <2>1. call[t].side = Other(s) /\ Other(s) # s
    BY <1>6, <1>8 DEF Side, Other
  <2>2. t \in Responsible(s)
    BY <1>2, <2>1 DEF Responsible
  <2>3. \A u \in Task : call[u].side = Other(s) => pc'[u] = npc[u]
    <3>0. TypeOK
      OBVIOUS
    <3>1. Other(s) \notin S /\ Other(s) \in Side
      BY <1>6, <1>8, <2>1
    <3> HIDE DEF npc, S
    <3> QED BY <1>1, <1>2, <3>1, PostOne
  <2>4. CASE Waiting(s) = {}
    <3>1. sem'[s] = sem[s] + 1 /\ \A u \in Task : call[u].side = s => pc'[u] = npc[u]
      <4> HIDE DEF npc, S
      <4> QED BY <1>1, <1>2, <1>8, <2>4, PostOne
    <3>2. Responsible(s)' = Responsible(s) \ {t} /\ Pending(s)' = Pending(s) /\ Woken(s)' = Woken(s)
      <4> HIDE DEF npc, S
      <4> QED BY <1>2, <1>3, <2>1, <2>3, <3>1 DEF Responsible, Pending, Woken
    <3>3. Cardinality(Responsible(s)') = Cardinality(Responsible(s)) - 1
      BY <1>5, <2>2, <3>2, OneMore
    <3>4. Available(s)' - Cardinality(Responsible(s)') - sem'[s]
            <= Available(s) - Cardinality(Responsible(s)) - sem[s]
      BY <1>4, <1>5, <3>1, <3>3
    <3> HIDE DEF npc, S
    <3> QED BY <1>4, <3>2, <3>4, WakeStays
  <2>5. CASE Waiting(s) # {}
    <3>1. sem'[s] = sem[s]
      <4> HIDE DEF npc, S
      <4> QED BY <1>1, <1>2, <1>8, <2>5, PostOne
    <3>2. PICK w \in Waiting(s) : /\ pc'[w] = "woken"
                                  /\ \A u \in Task \ {w} : call[u].side = s => pc'[u] = npc[u]
      <4> HIDE DEF npc, S
      <4> QED BY <1>1, <1>2, <1>8, <2>5, PostOne
    <3>3. w \in Task /\ pc[w] = "wait" /\ call[w].side = s /\ w # t
      BY <1>2 DEF Waiting
    <3>4. w \in Pending(s) /\ Pending(s)' = Pending(s) \ {w}
      <4> HIDE DEF npc, S
      <4> QED BY <1>2, <1>3, <2>1, <3>2, <3>3 DEF Pending
    <3>5. w \notin Responsible(s) \ {t} /\ Responsible(s)' = (Responsible(s) \ {t}) \cup {w}
      <4> HIDE DEF npc, S
      <4> QED BY <1>2, <1>3, <2>1, <2>3, <3>2, <3>3 DEF Responsible
    <3>6. Cardinality(Responsible(s)') = Cardinality(Responsible(s))
      <4> DEFINE R == Responsible(s) \ {t}
      <4>1. R \in SUBSET Task /\ Cardinality(R) = Cardinality(Responsible(s)) - 1
        BY <1>5, <2>2, OneMore
      <4>2. w \notin R /\ Responsible(s)' = R \cup {w}
        BY <3>5
      <4> HIDE DEF R
      <4>3. Cardinality(R \cup {w}) = Cardinality(R) + 1
        BY <3>3, <4>1, <4>2, OneMore
      <4> QED BY <1>5, <4>1, <4>2, <4>3
    <3> HIDE DEF npc, S
    <3>7. Available(s)' - Cardinality(Responsible(s)') - sem'[s]
            <= Available(s) - Cardinality(Responsible(s)) - sem[s]
      BY <1>4, <1>5, <3>1, <3>6
    <3> QED BY <1>4, <3>3, <3>4, <3>7, WakeOne
  <2> QED BY <2>4, <2>5
<1> QED
  BY <1>7, <1>8

\* A pend that finds a count, the expiry of one, and the steps around them.
LEMMA PendWake ==
    ASSUME IsFiniteSet(Task), TypeOK, TypeOK', NEW s \in Side, Wake(s), NEW t \in Task,
           Mark(t) \/ Pend(t) \/ Expire(t) \/ Unmark(t)
    PROVE  Wake(s)'
<1>0. pc \in [Task -> Pc] /\ call \in [Task -> Call] /\ sem \in [Side -> Nat]
  BY DEF TypeOK
<1>1. /\ UNCHANGED <<ring, forceUnblock, call>>
      /\ \A u \in Task \ {t} : pc'[u] = pc[u]
  BY <1>0 DEF Mark, Pend, Expire, Unmark, Goto, flags
<1>2. Available(s)' = Available(s) /\ forceUnblock'[s] = forceUnblock[s]
  BY <1>1 DEF Available, ring
<1>3. /\ Available(s) \in Nat /\ sem[s] \in Nat /\ Responsible(s) \in SUBSET Task
      /\ Cardinality(Responsible(s)) \in Nat
  BY SideIs
<1>4. CASE call[t].side # s
  <2>1. sem'[s] = sem[s] /\ pc[t] # "post" /\ pc'[t] # "post"
    BY <1>0, <1>4 DEF Mark, Pend, Expire, Unmark, Goto
  <2>2. Responsible(s)' = Responsible(s) /\ Pending(s)' = Pending(s) /\ Woken(s)' = Woken(s)
    BY <1>1, <1>4, <2>1 DEF Responsible, Pending, Woken
  <2> QED BY <1>2, <2>1, <2>2 DEF Wake, Debt
<1>5. CASE call[t].side = s /\ ~ (Pend(t) /\ sem[s] > 0) /\ ~ Expire(t)
  <2>1. sem'[s] = sem[s]
    BY <1>0, <1>5 DEF Mark, Pend, Unmark, Goto
  <2>2. \/ pc[t] \in {"mark", "pend"} /\ pc'[t] \in {"pend", "wait"}
        \/ pc[t] = "woken" /\ pc'[t] = "check"
        \/ pc[t] = "expired" /\ pc'[t] = "clear"
    BY <1>0, <1>5 DEF Mark, Pend, Unmark, Goto
  <2>3. Responsible(s)' = Responsible(s) /\ Pending(s)' = Pending(s) /\ Woken(s)' = Woken(s)
    BY <1>1, <2>2 DEF Responsible, Pending, Woken
  <2> QED BY <1>2, <2>1, <2>3 DEF Wake, Debt
<1>6. CASE call[t].side = s /\ Pend(t) /\ sem[s] > 0
  <2>1. sem'[s] = sem[s] - 1 /\ pc[t] = "pend" /\ pc'[t] = "woken"
    BY <1>0, <1>6 DEF Pend, Goto
  <2>2. t \in Pending(s) /\ Pending(s)' = Pending(s) \ {t}
    BY <1>1, <1>6, <2>1 DEF Pending
  <2>3. t \notin Responsible(s) /\ Responsible(s)' = Responsible(s) \cup {t}
    BY <1>1, <1>6, <2>1 DEF Responsible
  <2>4. Cardinality(Responsible(s)') = Cardinality(Responsible(s)) + 1
    BY <1>3, <2>3, OneMore
  <2>5. Available(s)' - Cardinality(Responsible(s)') - sem'[s]
            <= Available(s) - Cardinality(Responsible(s)) - sem[s]
    BY <1>2, <1>3, <2>1, <2>4
  <2> QED BY <1>2, <2>2, <2>5, WakeOne
<1>7. CASE call[t].side = s /\ Expire(t)
  <2>1. sem'[s] = sem[s] /\ pc[t] = "wait" /\ pc'[t] = "expired"
    BY <1>0, <1>7 DEF Expire, Goto
  <2>2. t \in Pending(s) /\ Pending(s)' = Pending(s) \ {t}
    BY <1>1, <1>7, <2>1 DEF Pending
  <2>3. Responsible(s)' = Responsible(s)
    BY <1>1, <1>7, <2>1 DEF Responsible
  <2>4. Available(s)' - Cardinality(Responsible(s)') - sem'[s]
            <= Available(s) - Cardinality(Responsible(s)) - sem[s]
    BY <1>2, <1>3, <2>1, <2>3
  <2> QED BY <1>2, <2>2, <2>4, WakeOne
<1> QED
  BY <1>4, <1>5, <1>6, <1>7

\* The task that finds the flag up leaves, and with it the announcement too many.
LEMMA CheckWake ==
    ASSUME IsFiniteSet(Task), TwoBlockers, TypeOK, TypeOK', CallInv, WakeInv, NEW s \in Side,
           NEW t \in Task, CheckForced(t) \/ Clear(t)
    PROVE  Wake(s)'
<1>0. pc \in [Task -> Pc] /\ forceUnblock \in [Side -> BOOLEAN]
  BY DEF TypeOK
<1>1. /\ UNCHANGED <<ring, sem, call>>
      /\ \A u \in Task \ {t} : pc'[u] = pc[u]
  BY <1>0 DEF CheckForced, Clear, Goto
<1>2. Available(s)' = Available(s) /\ sem'[s] = sem[s]
  BY <1>1 DEF Available, ring
<1>3. /\ Available(s) \in Nat /\ sem[s] \in Nat /\ Responsible(s) \in SUBSET Task
      /\ Cardinality(Responsible(s)) \in Nat /\ Debt(s) \in {0, 1}
  BY SideIs
<1>4. call[t].side \in Side
  BY Tasks
<1>5. Wake(s)
  BY DEF WakeInv
<1>6. CASE call[t].side # s
  <2>1. pc[t] # "post" /\ pc'[t] # "post" /\ forceUnblock'[s] = forceUnblock[s]
    BY <1>0, <1>6 DEF CheckForced, Clear, Goto, flags
  <2>2. Responsible(s)' = Responsible(s) /\ Pending(s)' = Pending(s) /\ Woken(s)' = Woken(s)
    BY <1>1, <1>6, <2>1 DEF Responsible, Pending, Woken
  <2> QED BY <1>2, <1>5, <2>1, <2>2 DEF Wake, Debt
<1>7. CASE call[t].side = s /\ Clear(t)
  <2>1. pc[t] = "clear" /\ pc'[t] = "failed" /\ ~ forceUnblock'[s]
    BY <1>0, <1>4, <1>7 DEF Clear, Goto
  <2>2. Responsible(s)' = Responsible(s) /\ Pending(s)' = Pending(s)
    BY <1>1, <2>1 DEF Responsible, Pending
  <2>3. Debt(s)' = 0
    BY <2>1 DEF Debt
  <2> QED BY <1>2, <1>3, <1>5, <2>2, <2>3 DEF Wake
<1>8. CASE call[t].side = s /\ CheckForced(t) /\ ~ forceUnblock[s]
  <2>1. pc[t] = "check" /\ pc'[t] = "test" /\ UNCHANGED flags
    BY <1>0, <1>8 DEF CheckForced, Goto
  <2>2. Responsible(s)' = Responsible(s) /\ Pending(s)' = Pending(s) /\ Woken(s)' \subseteq Woken(s)
    BY <1>1, <2>1 DEF Responsible, Pending, Woken
  <2>3. Available(s)' - Cardinality(Responsible(s)') - sem'[s]
            <= Available(s) - Cardinality(Responsible(s)) - sem[s]
    BY <1>2, <1>3, <2>2
  <2>4. forceUnblock'[s] => forceUnblock[s]
    BY <2>1 DEF flags
  <2> QED BY <1>5, <2>2, <2>3, <2>4, WakeStays
<1>9. CASE call[t].side = s /\ CheckForced(t) /\ forceUnblock[s]
  <2>1. pc[t] = "check" /\ pc'[t] = "clear" /\ UNCHANGED flags
    BY <1>0, <1>9 DEF CheckForced, Goto
  <2>2. Pending(s)' = Pending(s) /\ Woken(s)' = Woken(s) \ {t} /\ t \in Woken(s)
    BY <1>1, <1>9, <2>1 DEF Pending, Woken
  <2>3. t \in Responsible(s) /\ Responsible(s)' = Responsible(s) \ {t}
    BY <1>1, <1>9, <2>1 DEF Responsible
  <2>4. Cardinality(Responsible(s)') = Cardinality(Responsible(s)) - 1
    BY <1>3, <2>3, OneMore
  <2>5. Debt(s) = 1
    BY <1>9, <2>2 DEF Debt
  <2>6. ASSUME NEW u \in Pending(s) PROVE Debt(s)' = 0
    <3>1. t \in Task /\ call[t].side = s /\ pc[t] \in InBlock /\ pc[t] = "check"
      BY <1>9, <2>1 DEF InBlock
    <3>2. \A v \in Pending(s) : v \in Task /\ call[v].side = s /\ pc[v] \in InBlock /\ v # t
      BY <3>1 DEF Pending, InBlock
    <3>3. \A v \in Woken(s) : v \in Task /\ call[v].side = s /\ pc[v] \in InBlock /\ v # u
      BY DEF Pending, Woken, InBlock
    <3>4. Woken(s) \ {t} = {}
      BY <1>9, <3>1, <3>2, <3>3, Two
    <3>5. \A v, w \in Pending(s) : v = w
      BY <1>9, <3>1, <3>2, Two
    <3> QED BY <2>2, <3>4, <3>5 DEF Debt
  <2> QED BY <1>2, <1>3, <1>5, <2>2, <2>4, <2>5, <2>6 DEF Wake
<1> QED
  BY <1>6, <1>7, <1>8, <1>9

\* An unblock posts the semaphore of each side whose flag it raises.
LEMMA UnBlockWake ==
    ASSUME IsFiniteSet(Task), TypeOK, TypeOK', NEW s \in Side, Wake(s), UnBlock
    PROVE  Wake(s)'
<1>1. /\ Unblockable \in SUBSET Side /\ PostSems(Unblockable, pc) /\ UNCHANGED <<ring, call>>
      /\ pc \in [Task -> Pc]
      /\ s \notin Unblockable => forceUnblock'[s] = forceUnblock[s]
  BY DEF Unblockable, UnBlock, TypeOK
<1>2. Available(s)' = Available(s)
  BY <1>1 DEF Available, ring
<1>3. /\ Available(s) \in Nat /\ sem[s] \in Nat /\ Responsible(s) \in SUBSET Task
      /\ Cardinality(Responsible(s)) \in Nat /\ Debt(s) \in {0, 1}
  BY SideIs
<1>p. (Debt(s) \in {0, 1} /\ sem[s] \in Nat)'
  BY SideIs, PTL
<1>4. \A u \in Task : pc'[u] = pc[u] \/ (pc[u] = "wait" /\ pc'[u] = "woken")
  BY <1>1, PostSemsEffect
<1>5. CASE s \notin Unblockable
  <2>1. sem'[s] = sem[s] /\ \A u \in Task : call[u].side = s => pc'[u] = pc[u]
    BY <1>1, <1>5, PostOne
  <2>2. Responsible(s)' = Responsible(s) /\ Pending(s)' = Pending(s) /\ Woken(s)' = Woken(s)
    BY <1>1, <1>4, <2>1 DEF Responsible, Pending, Woken
  <2> QED BY <1>1, <1>2, <1>5, <2>1, <2>2 DEF Wake, Debt
<1>6. CASE s \in Unblockable /\ Waiting(s) = {}
  <2>1. sem'[s] = sem[s] + 1 /\ \A u \in Task : call[u].side = s => pc'[u] = pc[u]
    BY <1>1, <1>6, PostOne
  <2>2. Responsible(s)' = Responsible(s) /\ Pending(s)' = Pending(s)
    BY <1>1, <1>4, <2>1 DEF Responsible, Pending
  <2> QED BY <1>2, <1>3, <1>p, <2>1, <2>2 DEF Wake
<1>7. CASE s \in Unblockable /\ Waiting(s) # {}
  <2>1. sem'[s] = sem[s]
    BY <1>1, <1>7, PostOne
  <2>2. PICK w \in Waiting(s) : /\ pc'[w] = "woken"
                                /\ \A u \in Task \ {w} : call[u].side = s => pc'[u] = pc[u]
    BY <1>1, <1>7, PostOne
  <2>3. w \in Task /\ pc[w] = "wait" /\ call[w].side = s
    BY DEF Waiting
  <2>4. w \in Pending(s) /\ Pending(s)' \subseteq Pending(s)
    BY <1>1, <2>2, <2>3 DEF Pending
  <2>5. w \notin Responsible(s) /\ Responsible(s)' = Responsible(s) \cup {w}
    BY <1>1, <1>4, <2>2, <2>3 DEF Responsible
  <2>6. Cardinality(Responsible(s)') = Cardinality(Responsible(s)) + 1
    BY <1>3, <2>3, <2>5, OneMore
  <2> QED BY <1>2, <1>3, <1>p, <2>1, <2>4, <2>6 DEF Wake
<1> QED
  BY <1>5, <1>6, <1>7

LEMMA WakeStep ==
    ASSUME IsFiniteSet(Task), SingleItems, TwoBlockers, "reset" \notin Controls,
           TypeOK, TypeOK', CallInv, CallInv', NoStaleForce, WakeInv, [Next]_vars
    PROVE  WakeInv'
<1>1. ASSUME NEW s \in Side PROVE Wake(s)'
  <2>1. Wake(s)
    BY DEF WakeInv
  <2>2. ASSUME NEW t \in Task, Begin(t) PROVE Wake(s)'
    BY <2>1, <2>2, BeginWake
  <2>3. ASSUME NEW t \in Task, PutInsert(t) \/ GetExtract(t) PROVE Wake(s)'
    BY <2>1, <2>3, SuccessWake
  <2>4. ASSUME NEW t \in Task, Miss(t) PROVE Wake(s)'
    BY <2>4, MissWake
  <2>5. ASSUME NEW t \in Task, Post(t) PROVE Wake(s)'
    BY <2>1, <2>5, PostWake
  <2>6. ASSUME NEW t \in Task, Mark(t) \/ Pend(t) \/ Expire(t) \/ Unmark(t) PROVE Wake(s)'
    BY <2>1, <2>6, PendWake
  <2>7. ASSUME NEW t \in Task, CheckForced(t) \/ Clear(t) PROVE Wake(s)'
    BY <2>7, CheckWake
  <2>8. ASSUME UnBlock PROVE Wake(s)'
    BY <2>1, <2>8, UnBlockWake
  <2>9. ASSUME UNCHANGED vars PROVE Wake(s)'
    BY <2>1, <2>9 DEF vars, ring, flags, Wake, Debt, Pending, Woken, Responsible, Available
  <2>10. ~ Reset
    BY DEF Reset
  <2> QED BY <2>2, <2>3, <2>4, <2>5, <2>6, <2>7, <2>8, <2>9, <2>10 DEF Next, Step
<1>2. ASSUME "unblock" \notin Controls, NEW s \in Side PROVE ~ forceUnblock'[s]
  <2>1. ~ forceUnblock[s]
    BY <1>2 DEF WakeInv
  <2>2. forceUnblock'[s] => forceUnblock[s]
    <3>1. forceUnblock \in [Side -> BOOLEAN]
      BY DEF TypeOK
    <3> QED BY <1>2, <3>1 DEF Next, Step, Begin, PutInsert, GetExtract, Miss, Post, Mark, Pend, Expire,
              Unmark, CheckForced, Clear, UnBlock, Reset, vars, flags
  <2> QED BY <2>1, <2>2
<1> QED
  BY <1>1, <1>2 DEF WakeInv

\* No wakeup is lost, where nobody asks for several items at a time and a side
\* that may be unblocked has two tasks at most that pend on it.
THEOREM AlwaysNoLostWakeup ==
    ASSUME IsFiniteSet(Task), SingleItems, TwoBlockers, "reset" \notin Controls
    PROVE  Spec => []NoLostWakeup
<1>1. Init => WakeInv
  BY DEF Init, WakeInv, Wake, Pending
<1>2. TypeOK /\ TypeOK' /\ CallsInv /\ CallsInv' /\ NoStaleForce /\ WakeInv /\ [Next]_vars => WakeInv'
  BY WakeStep DEF CallsInv
<1>3. TypeOK /\ CallsInv /\ WakeInv => NoLostWakeup
  <2> SUFFICES ASSUME TypeOK, CallsInv, WakeInv, NEW s \in Side, Waiting(s) # {}
               PROVE  Available(s) <= Cardinality(Responsible(s))
    BY DEF NoLostWakeup
  <2>1. /\ Available(s) \in Nat /\ sem[s] \in Nat /\ Cardinality(Responsible(s)) \in Nat
        /\ Debt(s) \in {0, 1}
    BY SideIs
  <2>2. sem[s] = 0
    BY <2>1 DEF CallsInv, SemInv
  <2>3. Pending(s) # {}
    BY DEF Waiting, Pending
  <2> QED BY <2>1, <2>2, <2>3 DEF WakeInv, Wake
<1> QED
  BY <1>1, <1>2, <1>3, TypeCorrect, CallsKept, NoStaleFlags, PTL DEF Spec
=============================================================================
