----------------------------- MODULE MergeLink -----------------------------
(* The merger of frame queues, src_bios6/links_common/merge/mergeLink_tsk.c,*)
(* between several previous links and one next link.                        *)
(*                                                                          *)
(* The link's task moves frames of all input queues to one output queue and *)
(* gives their channels new numbers; the tasks of the next link return them *)
(* by MergeLink_putEmptyFrames, in their own context, which sorts them by   *)
(* input queue in the shared freeFrameList and undoes the renumbering.      *)
(* NEW_DATA messages that lie in a mailbox together are one flag.           *)
EXTENDS Integers, Sequences, FiniteSets, Functions, Owning

CONSTANTS NumInQue,     \* createArgs.numInQue
          NumCh,        \* NumCh[q]: the channels of input queue q, from its link info
          Frame,        \* the frames of the previous links
          Owner,        \* Owner[f]: the input queue whose link owns f
          Chan,         \* Chan[f]: the channel of f in that queue
          Caller,       \* the tasks of the next link that return frames
          None          \* no task

InQue == 0 .. NumInQue - 1

ASSUME NumInQueAssumption == NumInQue \in Nat \ {0} /\ NumCh \in [InQue -> Nat]
ASSUME NoneAssumption == None \notin Caller
ASSUME FrameAssumption == /\ IsFiniteSet(Frame)
                          /\ Owner \in [Frame -> InQue]
                          /\ Chan \in [Frame -> Nat]
                          /\ \A f \in Frame : Chan[f] < NumCh[Owner[f]]

(* The maps that MergeLink_drvCreate fills: merged channel numbers follow   *)
(* each other through the channels of queue 0, then of queue 1, ...         *)
FirstCh[q \in InQue] == IF q = 0 THEN 0 ELSE FirstCh[q - 1] + NumCh[q - 1]
OutCh == 0 .. FirstCh[NumInQue - 1] + NumCh[NumInQue - 1] - 1
inQueChNumMap == [q \in InQue |-> [ch \in 0 .. NumCh[q] - 1 |-> FirstCh[q] + ch]]
outQueChToInQueMap == [n \in OutCh |-> CHOOSE q \in InQue : n - FirstCh[q] \in 0 .. NumCh[q] - 1]
outQueChMap == [n \in OutCh |-> n - FirstCh[outQueChToInQueMap[n]]]

VARIABLES source,       \* source[q]: the frames the previous link q may fill
          inFull,       \* inFull[q]: its full queue
          told,         \* told[q]: it has told the merge link of the last frame
          chan,         \* channelNum of each frame
          inNotice,     \* a NEW_DATA is in the mailbox of the merge link
          mergePc, inQue, newData,      \* its task and the loop's variables
          outQue,       \* outFrameQue, full frames
          notice,       \* a NEW_DATA is in the mailbox of the next link
          getting,      \* the next link received it and will take frames
          held,         \* the frames the next link uses
          lock,         \* the caller that holds the lock
          freeList,     \* freeFrameList[q]
          pc, ret, upQue    \* each call of MergeLink_putEmptyFrames

prev == <<source, inFull, told>>
merge == <<mergePc, inQue, newData>>
next == <<notice, getting, held>>
put == <<lock, freeList, pc, ret, upQue>>
vars == <<prev, chan, inNotice, merge, outQue, next, put>>

TypeOK ==
    /\ source \in [InQue -> SUBSET Frame]
    /\ inFull \in [InQue -> Seq(Frame)]
    /\ told \in [InQue -> BOOLEAN]
    /\ chan \in [Frame -> Nat]
    /\ inNotice \in BOOLEAN
    /\ mergePc \in {"idle", "scan", "notify"}
    /\ inQue \in InQue /\ newData \in BOOLEAN
    /\ outQue \in Seq(Frame)
    /\ notice \in BOOLEAN /\ getting \in BOOLEAN /\ held \in SUBSET Frame
    /\ lock \in Caller \cup {None}
    /\ freeList \in [InQue -> Seq(Frame)]
    /\ pc \in [Caller -> {"idle", "pend", "sort", "up"}]
    /\ ret \in [Caller -> Seq(Frame)]
    /\ upQue \in [Caller -> InQue]

Init ==
    /\ source = [q \in InQue |-> {f \in Frame : Owner[f] = q}]
    /\ inFull = [q \in InQue |-> <<>>]
    /\ told = [q \in InQue |-> TRUE]
    /\ chan = Chan
    /\ inNotice = FALSE
    /\ mergePc = "idle" /\ inQue = 0 /\ newData = FALSE
    /\ outQue = <<>>
    /\ notice = FALSE /\ getting = FALSE /\ held = {}
    /\ lock = None
    /\ freeList = [q \in InQue |-> <<>>]
    /\ pc = [t \in Caller |-> "idle"]
    /\ ret = [t \in Caller |-> <<>>]
    /\ upQue = [t \in Caller |-> 0]

-----------------------------------------------------------------------------
(* The previous links: a frame goes in the full queue, then NEW_DATA.       *)

Give(q) ==
    /\ told[q]
    /\ \E f \in source[q] :
          /\ source' = [source EXCEPT ![q] = @ \ {f}]
          /\ inFull' = [inFull EXCEPT ![q] = Append(@, f)]
    /\ told' = [told EXCEPT ![q] = FALSE]
    /\ UNCHANGED <<chan, inNotice, merge, outQue, next, put>>

Tell(q) ==
    /\ ~told[q]
    /\ told' = [told EXCEPT ![q] = TRUE]
    /\ inNotice' = TRUE
    /\ UNCHANGED <<source, inFull, chan, merge, outQue, next, put>>

-----------------------------------------------------------------------------
(* The task of the merge link: MergeLink_drvProcessFrames.                  *)

MergeWake ==
    /\ mergePc = "idle" /\ inNotice
    /\ inNotice' = FALSE
    /\ mergePc' = "scan" /\ inQue' = 0 /\ newData' = FALSE
    /\ UNCHANGED <<prev, chan, outQue, next, put>>

NextQue == IF inQue < NumInQue - 1
           THEN inQue' = inQue + 1 /\ UNCHANGED mergePc
           ELSE inQue' = 0 /\ mergePc' = IF newData' THEN "notify" ELSE "idle"

\* One turn of the loop over the input queues.
Scan ==
    /\ mergePc = "scan"
    /\ LET s == inFull[inQue] IN
          /\ outQue' = outQue \o s
          /\ chan' = [f \in Frame |-> IF f \in Range(s) THEN inQueChNumMap[inQue][chan[f]]
                                                          ELSE chan[f]]
          /\ newData' = (newData \/ s # <<>>)
    /\ inFull' = [inFull EXCEPT ![inQue] = <<>>]
    /\ NextQue
    /\ UNCHANGED <<source, told, inNotice, next, put>>

MergeNotify ==
    /\ mergePc = "notify"
    /\ notice' = TRUE
    /\ mergePc' = "idle"
    /\ UNCHANGED <<prev, chan, inNotice, inQue, newData, outQue, getting, held, put>>

-----------------------------------------------------------------------------
(* The next link takes frames and returns them.                             *)

Wake ==
    /\ ~getting /\ notice
    /\ notice' = FALSE /\ getting' = TRUE
    /\ UNCHANGED <<prev, chan, inNotice, merge, outQue, held, put>>

GetFull ==
    /\ getting
    /\ held' = held \cup Range(outQue)
    /\ outQue' = <<>>
    /\ getting' = FALSE
    /\ UNCHANGED <<prev, chan, inNotice, merge, notice, put>>

Goto(t, p) == pc' = [pc EXCEPT ![t] = p]
Lists(S) == UNION {{s \in [1 .. n -> S] : IsInjective(s)} : n \in 1 .. Cardinality(S)}

\* A task of the next link calls MergeLink_putEmptyFrames with the list s.
Return(t, s) ==
    /\ pc[t] = "idle"
    /\ ret' = [ret EXCEPT ![t] = s]
    /\ held' = held \ Range(s)
    /\ Goto(t, "pend")
    /\ UNCHANGED <<prev, inNotice, merge, outQue, notice, getting, lock, freeList, upQue>>

StartReturn(t) == \E s \in Lists(held) : Return(t, s) /\ UNCHANGED chan

\* Mutant: the lock is not taken.
Pend_free(t) ==
    /\ pc[t] = "pend"
    /\ lock' = t
    /\ freeList' = [q \in InQue |-> <<>>]
    /\ Goto(t, "sort")
    /\ UNCHANGED <<prev, chan, inNotice, merge, outQue, next, ret, upQue>>
Pend(t) ==
    /\ pc[t] = "pend" /\ lock = None
    /\ lock' = t
    /\ freeList' = [q \in InQue |-> <<>>]
    /\ Goto(t, "sort")
    /\ UNCHANGED <<prev, chan, inNotice, merge, outQue, next, ret, upQue>>

\* One frame goes to the list of its input queue with its own channel.
Sort(t) ==
    /\ pc[t] = "sort"
    /\ LET f == Head(ret[t])
           q == outQueChToInQueMap[chan[f]]
       IN  /\ freeList' = [freeList EXCEPT ![q] = Append(@, f)]
           /\ chan' = [chan EXCEPT ![f] = outQueChMap[@]]
    /\ ret' = [ret EXCEPT ![t] = Tail(@)]
    /\ Goto(t, IF Len(ret[t]) = 1 THEN "up" ELSE "sort")
    /\ UNCHANGED <<prev, inNotice, merge, outQue, next, lock, upQue>>

\* Mutant: the loop goes one input queue too far.
Up_pastEnd(t) ==
    /\ pc[t] = "up"
    /\ source' = [source EXCEPT ![upQue[t]] = @ \cup Range(freeList[upQue[t]])]
    /\ IF upQue[t] <= NumInQue - 1
       THEN upQue' = [upQue EXCEPT ![t] = @ + 1] /\ UNCHANGED <<lock, pc>>
       ELSE upQue' = [upQue EXCEPT ![t] = 0] /\ lock' = None /\ Goto(t, "idle")
    /\ UNCHANGED <<inFull, told, chan, inNotice, merge, outQue, next, freeList, ret>>
\* Each previous link gets its list; the last turn ends the call.
Up(t) ==
    /\ pc[t] = "up"
    /\ source' = [source EXCEPT ![upQue[t]] = @ \cup Range(freeList[upQue[t]])]
    /\ IF upQue[t] < NumInQue - 1
       THEN upQue' = [upQue EXCEPT ![t] = @ + 1] /\ UNCHANGED <<lock, pc>>
       ELSE upQue' = [upQue EXCEPT ![t] = 0] /\ lock' = None /\ Goto(t, "idle")
    /\ UNCHANGED <<inFull, told, chan, inNotice, merge, outQue, next, freeList, ret>>

-----------------------------------------------------------------------------
Merge == MergeWake \/ Scan \/ MergeNotify
PutEmptyFrames(t) == Pend(t) \/ Sort(t) \/ Up(t)

Next == \/ \E q \in InQue : Give(q) \/ Tell(q)
        \/ Merge \/ Wake \/ GetFull
        \/ \E t \in Caller : StartReturn(t) \/ PutEmptyFrames(t)

Spec == Init /\ [][Next]_vars

-----------------------------------------------------------------------------
\* The frames that carry a merged channel number.
Merged == Range(outQue) \cup held \cup UNION {Range(ret[t]) : t \in Caller}
Confused == {f \in Merged : \/ outQueChToInQueMap[chan[f]] # Owner[f]
                            \/ \E g \in Merged : /\ chan[g] = chan[f]
                                                 /\ <<Owner[g], Chan[g]>> # <<Owner[f], Chan[f]>>}
(* A frame has the merged number of its channel exactly while it is behind  *)
(* the merge link: no link ever sees a channel of another one's numbering,  *)
(* and the assertion of line 154 holds.  Two channels are never confused:   *)
(* the merged numbers are distinct and name their input again.              *)
ChannelsMapped ==
    /\ \A f \in Frame : chan[f] = IF f \in Merged THEN inQueChNumMap[Owner[f]][Chan[f]]
                                                  ELSE Chan[f]
    /\ Confused = {}

\* Where frame f is: with its previous link or on the way from there, in the
\* output queue, behind the link, in the list of a task that returns frames,
\* or sorted and not given to its previous link yet.
PlacesByKind(f) ==
    [source |-> {q \in InQue : f \in source[q]},
     inFull |-> {q \in InQue : f \in Range(inFull[q])},
     outQue |-> {f} \cap Range(outQue),
     held   |-> {f} \cap held,
     ret    |-> {t \in Caller : f \in Range(ret[t])},
     free   |-> {q \in InQue : /\ lock # None /\ f \in Range(freeList[q])
                               /\ pc[lock] = "up" => q >= upQue[lock]}]

(* Every frame is always in one place, and a previous link only gets back   *)
(* its own frames, once each, with two tasks of the next link returning     *)
(* frames at the same time.                                                 *)
HomeAgain == /\ \A f \in Frame : Cardinality(Tagged(PlacesByKind(f))) = 1
             /\ \A q \in InQue : IsInjective(inFull[q]) /\ \A f \in source[q] : Owner[f] = q
             /\ \A t \in Caller : IsInjective(ret[t])
             /\ IsInjective(outQue)

(* No frame waits in an input queue that the link will not look at again:   *)
(* it has a notification, or its link is about to send one, or the scan     *)
(* has still to come to that queue.  No frame waits in the output queue     *)
(* with the next link asleep.                                               *)
NoStrandedFrame ==
    /\ \A q \in InQue : inFull[q] # <<>> =>
          inNotice \/ ~told[q] \/ (mergePc = "scan" /\ inQue <= q)
    /\ outQue # <<>> =>
          notice \/ getting \/ mergePc = "notify" \/ (mergePc = "scan" /\ newData)
=============================================================================
