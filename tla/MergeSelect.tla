---------------------------- MODULE MergeSelect ----------------------------
(* A merge link whose next link is a select link: the frames of several     *)
(* previous links are joined, then spread over several next links, and come *)
(* back the same way, through SelectLink_putEmptyFrames and                 *)
(* MergeLink_putEmptyFrames, in the tasks of the next links and, for        *)
(* channels that are not mapped, in the task of the select link itself.     *)
(* `held' of the merge link are the frames anywhere behind it, and its      *)
(* `notice' and `getting' are the mailbox and the task of the select link.  *)
EXTENDS MergeLink

CONSTANTS SelTask,              \* the task of the select link
          NumOutQue, NextTask,  \* NextTask[q]: the task of the next link q
          Created, Selection, MaxSet

ASSUME TaskAssumption ==
    /\ SelTask \in Caller
    /\ NextTask \in [0 .. NumOutQue - 1 -> Caller \ {SelTask}]
ASSUME BoundAssumption == MaxSet \in Nat

VARIABLES selPc, inList, unmapped, newSelData, outFrameQue, inChInfo,
          prevOutQueChInfo, org, mail, taking, using,
          sets          \* how often the map was changed

Sel == INSTANCE SelectLink WITH newData <- newSelData,
                                InChannel <- OutCh, FrameOf <- Frame

ASSUME SelectAssumption == Sel!SelectParameters

selVars == <<selPc, inList, unmapped, newSelData, outFrameQue, inChInfo,
             prevOutQueChInfo, org, mail, taking, using, sets>>
mergeVars == <<prev, inNotice, merge, outQue, notice, getting, held, put>>
graphVars == <<vars, selVars>>

GraphTypeOK == TypeOK /\ Sel!SelTypeOK /\ sets \in 0 .. MaxSet

GraphInit == Init /\ Sel!SelInit /\ sets = 0

\* The select link's task is not inside a call of the merge link.
Here == pc[SelTask] = "idle"

Wakes == Here /\ Wake /\ Sel!SelectWake /\ UNCHANGED sets

Gets == GetFull /\ Sel!Take(outQue) /\ UNCHANGED sets

Sorts == /\ Here
         /\ Sel!Unselected \/ Sel!Selected
         /\ UNCHANGED <<mergeVars, sets>>

Frees == Sel!FreeUnmapped /\ Return(SelTask, unmapped) /\ UNCHANGED <<chan, sets>>

Tells == Here /\ Sel!SelectNotify /\ UNCHANGED <<mergeVars, sets>>

\* At most MaxSet times.
Sets(q, l, removes) ==
    /\ Here /\ sets < MaxSet
    /\ Sel!SetOutQueChInfo(q, l, removes)
    /\ sets' = sets + 1
    /\ UNCHANGED mergeVars

Takes(q) == (Sel!NextWake(q) \/ Sel!NextGet(q)) /\ UNCHANGED <<mergeVars, sets>>

Returns(q) ==
    /\ \E s \in Lists(using[q]) : Sel!Restore(q, s) /\ Return(NextTask[q], s)
    /\ UNCHANGED sets

MergeSteps == \/ \E q \in InQue : Give(q) \/ Tell(q)
              \/ Merge
              \/ \E t \in Caller : PutEmptyFrames(t)

GraphNext ==
    \/ MergeSteps /\ UNCHANGED selVars
    \/ Wakes \/ Gets \/ Sorts \/ Frees \/ Tells
    \/ \E q \in Sel!QueId, l \in Selection, removes \in BOOLEAN : Sets(q, l, removes)
    \/ \E q \in Sel!OutQue : Takes(q) \/ Returns(q)

GraphSpec == GraphInit /\ [][GraphNext]_graphVars

-----------------------------------------------------------------------------
AtMerge == INSTANCE MergeLink WITH chan <- Sel!OrgChannel

(* To the merge link the select link and everything behind it are a next    *)
(* link like any other: it takes what there is and returns each frame once, *)
(* with the number it got it with, whatever the map was then and has become *)
(* since, and whichever task returns it.                                    *)
ImplementsMerge == AtMerge!Spec

(* Every frame is in one place: with its own previous link and its own      *)
(* channel number, in the merge link with the merged number, or in exactly  *)
(* one place of the select link and its next links, with the merged number  *)
(* kept for it.  A list the application can ask for is the map.             *)
FramesHome ==
    /\ HomeAgain
    /\ \A f \in Frame : Cardinality(Tagged(Sel!SelectPlaces(f))) = IF f \in held THEN 1 ELSE 0
    /\ Sel!OncePerQueue
    /\ AtMerge!ChannelsMapped
    /\ Sel!ReportsMap

(* No frame waits where nobody will look: in an input queue, the merge      *)
(* link's output queue or an output queue of the select link without a      *)
(* notification under way or a task that is about to look.                  *)
NoFrameWaits ==
    /\ NoStrandedFrame
    /\ \A q \in Sel!OutQue : outFrameQue[q] # <<>> =>
          mail[q] \/ taking[q] \/ q \in newSelData
=============================================================================
