------------------------------ MODULE DupLink ------------------------------
(* The frame duplicator, src_bios6/links_common/dup/dupLink_tsk.c, with the *)
(* link before it and the links behind it.                                  *)
(*                                                                          *)
(* The link's task wraps each incoming frame in one copy per output queue   *)
(* (the pixels are shared) and sets the frame's dupCount.  The tasks of the *)
(* next links take copies and return them by DupLink_putEmptyFrames, which  *)
(* runs in their own context: under a lock it counts down, and the call     *)
(* that comes to 0 gives the frame back to the previous link.               *)
(* The link is created with notifyNextLink set.  NEW_DATA messages that lie *)
(* in a mailbox together have the effect of one and are one flag here.      *)
EXTENDS Integers, Sequences, FiniteSets, Functions

CONSTANTS Frame,        \* the frames of the previous link
          NoFrame,      \* the null pointer
          NumOutQue,    \* createArgs.numOutQue
          MaxCopies     \* DUP_LINK_MAX_FRAMES_PER_OUT_QUE

ASSUME NumOutQueAssumption == NumOutQue \in Nat \ {0}
ASSUME FrameAssumption == IsFiniteSet(Frame) /\ MaxCopies \in Nat \ {0}
ASSUME NoFrameAssumption == NoFrame \notin Frame

OutQue == 0 .. NumOutQue - 1
Copy == OutQue \X (1 .. MaxCopies)
None == NumOutQue       \* nobody holds the lock

VARIABLES source,       \* the frames in the hands of the previous link, full or not
          dupPc, outId, \* the dup link's task, and its loop variable
          inList,       \* inFrameList, the frames not yet wrapped
          outList,      \* outFrameList[q]
          emptyQue, fullQue,    \* outFrameQue[q]; the empty copies as a set
          org,          \* pDupOrgFrame of each copy, NoFrame in an empty one
          dupCount,     \* dupCount of each frame
          lock,         \* the output queue whose task holds the lock
          notice,       \* notice[q]: a NEW_DATA is in the next link's mailbox
          pc,           \* the next link's task
          held,         \* the copies it uses
          ret,          \* the list it is returning
          pos,          \* the loop variable of DupLink_putEmptyFrames
          freeList      \* its freeFrameList

dup == <<dupPc, outId, inList, outList>>
next == <<pc, held, ret, pos, freeList>>
vars == <<source, dup, emptyQue, fullQue, org, dupCount,
          lock, notice, next>>

TypeOK ==
    /\ source \subseteq Frame
    /\ inList \in Seq(Frame)
    /\ dupPc \in {"idle", "wrap", "put", "notify"}
    /\ outId \in OutQue
    /\ outList \in [OutQue -> Seq(Copy)]
    /\ emptyQue \in [OutQue -> SUBSET Copy] /\ fullQue \in [OutQue -> Seq(Copy)]
    /\ org \in [Copy -> Frame \cup {NoFrame}]
    /\ dupCount \in [Frame -> 0 .. NumOutQue]
    /\ lock \in OutQue \cup {None}
    /\ notice \in [OutQue -> BOOLEAN]
    /\ pc \in [OutQue -> {"idle", "get", "pend", "dec", "test", "up", "empty"}]
    /\ held \in [OutQue -> SUBSET Copy]
    /\ ret \in [OutQue -> Seq(Copy)]
    /\ pos \in [OutQue -> Nat]
    /\ freeList \in [OutQue -> SUBSET Frame]

Init ==
    /\ source = Frame
    /\ dupPc = "idle" /\ outId = 0 /\ inList = <<>>
    /\ outList = [q \in OutQue |-> <<>>]
    /\ emptyQue = [q \in OutQue |-> {q} \X (1 .. MaxCopies)]
    /\ fullQue = [q \in OutQue |-> <<>>]
    /\ org = [c \in Copy |-> NoFrame]
    /\ dupCount = [f \in Frame |-> 0]
    /\ lock = None
    /\ notice = [q \in OutQue |-> FALSE]
    /\ pc = [q \in OutQue |-> "idle"]
    /\ held = [q \in OutQue |-> {}]
    /\ ret = [q \in OutQue |-> <<>>]
    /\ pos = [q \in OutQue |-> 1]
    /\ freeList = [q \in OutQue |-> {}]

-----------------------------------------------------------------------------
(* The task of the dup link: DupLink_drvProcessFrames.                      *)

Lists(S) == UNION {{s \in [1 .. n -> S] : IsInjective(s)} : n \in 1 .. Cardinality(S)}

\* A NEW_DATA comes and the previous link has some frames for it.
DupGet ==
    /\ dupPc = "idle"
    /\ \E s \in Lists(source) :
          /\ inList' = s
          /\ source' = source \ Range(s)
    /\ dupPc' = "wrap"
    /\ UNCHANGED <<outId, outList, emptyQue, fullQue, org, dupCount, lock, notice, next>>

\* Empty copies are alike: the lowest numbered stands for the first in line.
First(q) == CHOOSE c \in emptyQue[q] : \A d \in emptyQue[q] : c[2] <= d[2]

\* Mutant: the count is set for one output too few.
DupWrap_oneShort ==
    /\ dupPc = "wrap"
    /\ \A q \in OutQue : emptyQue[q] # {}
    /\ LET f == Head(inList)
           New == {First(q) : q \in OutQue}
       IN  /\ dupCount' = [dupCount EXCEPT ![f] = NumOutQue - 1]
           /\ org' = [c \in Copy |-> IF c \in New THEN f ELSE org[c]]
           /\ outList' = [q \in OutQue |-> Append(outList[q], First(q))]
           /\ emptyQue' = [q \in OutQue |-> emptyQue[q] \ New]
    /\ inList' = Tail(inList)
    /\ dupPc' = IF Len(inList) = 1 THEN "put" ELSE "wrap"
    /\ outId' = 0
    /\ UNCHANGED <<source, fullQue, lock, notice, next>>
\* One turn of the loop over the frames; the code asserts that an empty copy
\* is there for each output.  The frame and the copies are in no other hands.
DupWrap ==
    /\ dupPc = "wrap"
    /\ \A q \in OutQue : emptyQue[q] # {}
    /\ LET f == Head(inList)
           New == {First(q) : q \in OutQue}
       IN  /\ dupCount' = [dupCount EXCEPT ![f] = NumOutQue]
           /\ org' = [c \in Copy |-> IF c \in New THEN f ELSE org[c]]
           /\ outList' = [q \in OutQue |-> Append(outList[q], First(q))]
           /\ emptyQue' = [q \in OutQue |-> emptyQue[q] \ New]
    /\ inList' = Tail(inList)
    /\ dupPc' = IF Len(inList) = 1 THEN "put" ELSE "wrap"
    /\ outId' = 0
    /\ UNCHANGED <<source, fullQue, lock, notice, next>>

\* Utils_bufPutFull puts the frames of the list one by one.
DupPut ==
    /\ dupPc = "put"
    /\ fullQue' = [fullQue EXCEPT ![outId] = Append(@, Head(outList[outId]))]
    /\ outList' = [outList EXCEPT ![outId] = Tail(@)]
    /\ dupPc' = IF Len(outList[outId]) = 1 THEN "notify" ELSE "put"
    /\ UNCHANGED <<source, outId, inList, emptyQue, org,
                   dupCount, lock, notice, next>>

DupNotify ==
    /\ dupPc = "notify"
    /\ notice' = [notice EXCEPT ![outId] = TRUE]
    /\ IF outId = NumOutQue - 1 THEN dupPc' = "idle" /\ UNCHANGED outId
                                ELSE dupPc' = "put" /\ outId' = outId + 1
    /\ UNCHANGED <<source, inList, outList, emptyQue, fullQue,
                   org, dupCount, lock, next>>

-----------------------------------------------------------------------------
(* The task of the link behind output queue q.                              *)

Goto(q, p) == pc' = [pc EXCEPT ![q] = p]

Wake(q) ==
    /\ pc[q] = "idle" /\ notice[q]
    /\ notice' = [notice EXCEPT ![q] = FALSE]
    /\ Goto(q, "get")
    /\ UNCHANGED <<source, dup, emptyQue, fullQue, org,
                   dupCount, lock, held, ret, pos, freeList>>

\* Mutant: one frame is taken for one notification.
GetFull_one(q) ==
    /\ pc[q] = "get"
    /\ IF fullQue[q] = <<>>
       THEN UNCHANGED <<fullQue, held>>
       ELSE /\ held' = [held EXCEPT ![q] = @ \cup {Head(fullQue[q])}]
            /\ fullQue' = [fullQue EXCEPT ![q] = Tail(@)]
    /\ Goto(q, "idle")
    /\ UNCHANGED <<source, dup, emptyQue, org, dupCount, lock,
                   notice, ret, pos, freeList>>
\* DupLink_getFullFrames takes frames until the queue is empty.
GetFull(q) ==
    /\ pc[q] = "get"
    /\ held' = [held EXCEPT ![q] = @ \cup Range(fullQue[q])]
    /\ fullQue' = [fullQue EXCEPT ![q] = <<>>]
    /\ Goto(q, "idle")
    /\ UNCHANGED <<source, dup, emptyQue, org, dupCount, lock,
                   notice, ret, pos, freeList>>

\* Mutant: the copies are put back before their frames are counted down.
StartReturn_emptyFirst(q) ==
    /\ pc[q] = "idle"
    /\ \E s \in Lists(held[q]) :
          /\ ret' = [ret EXCEPT ![q] = s]
          /\ held' = [held EXCEPT ![q] = @ \ Range(s)]
          /\ emptyQue' = [emptyQue EXCEPT ![q] = @ \cup Range(s)]
    /\ Goto(q, "pend")
    /\ UNCHANGED <<source, dup, fullQue, org, dupCount, lock, notice, pos, freeList>>
\* It is done with some copies, whichever: DupLink_putEmptyFrames is called.
\* The list is in one order, its elements are treated alike.
StartReturn(q) ==
    /\ pc[q] = "idle"
    /\ \E s \in Lists(held[q]) :
          /\ \A i \in DOMAIN s : \A j \in 1 .. i - 1 : s[j][2] < s[i][2]
          /\ ret' = [ret EXCEPT ![q] = s]
          /\ held' = [held EXCEPT ![q] = @ \ Range(s)]
    /\ Goto(q, "pend")
    /\ UNCHANGED <<source, dup, emptyQue, fullQue, org,
                   dupCount, lock, notice, pos, freeList>>

\* Mutant: the lock is not taken.
Pend_free(q) ==
    /\ pc[q] = "pend"
    /\ lock' = q
    /\ Goto(q, "dec")
    /\ UNCHANGED <<source, dup, emptyQue, fullQue, org,
                   dupCount, notice, held, ret, pos, freeList>>
Pend(q) ==
    /\ pc[q] = "pend" /\ lock = None
    /\ lock' = q
    /\ Goto(q, "dec")
    /\ UNCHANGED <<source, dup, emptyQue, fullQue, org,
                   dupCount, notice, held, ret, pos, freeList>>

Dec(q) ==
    /\ pc[q] = "dec"
    /\ dupCount' = [dupCount EXCEPT ![org[ret[q][pos[q]]]] = @ - 1]
    /\ Goto(q, "test")
    /\ UNCHANGED <<source, dup, emptyQue, fullQue, org, lock,
                   notice, held, ret, pos, freeList>>

Test(q) ==
    /\ pc[q] = "test"
    /\ LET f == org[ret[q][pos[q]]]
       IN  freeList' = [freeList EXCEPT ![q] = @ \cup IF dupCount[f] = 0 THEN {f} ELSE {}]
    /\ pos' = [pos EXCEPT ![q] = @ + 1]
    /\ Goto(q, IF pos[q] = Len(ret[q]) THEN "up" ELSE "dec")
    /\ UNCHANGED <<source, dup, emptyQue, fullQue, org,
                   dupCount, lock, notice, held, ret>>

\* System_putLinksEmptyFrames, then the lock is released.
Up(q) ==
    /\ pc[q] = "up"
    /\ source' = source \cup freeList[q]
    /\ lock' = None
    /\ pos' = [pos EXCEPT ![q] = 1]
    /\ freeList' = [freeList EXCEPT ![q] = {}]
    /\ Goto(q, "empty")
    /\ UNCHANGED <<dup, emptyQue, fullQue, org, dupCount,
                   notice, held, ret>>

\* Mutant: the copies are not given back.
PutEmpty_forgotten(q) ==
    /\ pc[q] = "empty"
    /\ ret' = [ret EXCEPT ![q] = <<>>]
    /\ Goto(q, "idle")
    /\ UNCHANGED <<source, dup, emptyQue, fullQue, org, dupCount,
                   lock, notice, held, pos, freeList>>
\* Utils_bufPutEmpty, after the lock is released.
PutEmpty(q) ==
    /\ pc[q] = "empty"
    /\ emptyQue' = [emptyQue EXCEPT ![q] = @ \cup Range(ret[q])]
    /\ org' = [c \in Copy |-> IF c \in Range(ret[q]) THEN NoFrame ELSE org[c]]
    /\ ret' = [ret EXCEPT ![q] = <<>>]
    /\ Goto(q, "idle")
    /\ UNCHANGED <<source, dup, fullQue, dupCount, lock,
                   notice, held, pos, freeList>>

-----------------------------------------------------------------------------
Dup == DupWrap \/ DupPut \/ DupNotify
Receive(q) == Wake(q) \/ GetFull(q)
PutEmptyFrames(q) == Pend(q) \/ Dec(q) \/ Test(q) \/ Up(q) \/ PutEmpty(q)

Next == \/ DupGet \/ Dup
        \/ \E q \in OutQue : Receive(q) \/ StartReturn(q) \/ PutEmptyFrames(q)

Spec == Init /\ [][Next]_vars

-----------------------------------------------------------------------------
\* The copies of a list in return whose count is not yet taken off.
Uncounted(q) ==
    CASE pc[q] = "pend" -> Range(ret[q])
      [] pc[q] = "dec" -> Range(SubSeq(ret[q], pos[q], Len(ret[q])))
      [] pc[q] = "test" -> Range(SubSeq(ret[q], pos[q] + 1, Len(ret[q])))
      [] OTHER -> {}
Live(q) == Range(outList[q]) \cup Range(fullQue[q]) \cup held[q] \cup Uncounted(q)

(* The count of a frame is the number of its copies still in use, at every  *)
(* instant, with the next links returning at the same time.  The copy the   *)
(* link needs is always there, as lines 174 and 175 assert: a frame goes    *)
(* back to the previous link before its copies go back to the empty queues, *)
(* so a copy per frame would not do, two do.                                *)
CountsLiveCopies ==
    /\ \A f \in Frame :
          dupCount[f] = Cardinality({c \in Copy : c \in Live(c[1]) /\ org[c] = f})
    /\ dupPc = "wrap" => \A q \in OutQue : emptyQue[q] # {}

(* No frame lies in an output queue with its next link asleep: the link has *)
(* a notification, or is taking frames, or is about to be notified.         *)
NoStrandedFrame ==
    \A q \in OutQue : fullQue[q] # <<>> =>
        notice[q] \/ pc[q] = "get" \/ (dupPc \in {"put", "notify"} /\ outId = q)

Orgs(s) == [i \in DOMAIN s |-> org[s[i]]]
Broadcast == INSTANCE FrameBroadcast WITH
    Output <- OutQue,
    free <- source,
    queue <- [q \in OutQue |-> Orgs(fullQue[q]) \o Orgs(outList[q]) \o inList],
    held <- [q \in OutQue |-> {org[c] : c \in held[q] \cup Uncounted(q)}]
(* The link implements FrameBroadcast: each output gets every frame, in     *)
(* order, and no frame goes back to the previous link, to be filled again,  *)
(* while any output still uses it.                                          *)
ImplementsBroadcast == Broadcast!Spec
=============================================================================
