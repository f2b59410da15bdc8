----------------------------- MODULE SelectLink ----------------------------
(* The switch of channels, src_bios6/links_common/select/selectLink_tsk.c,  *)
(* between one previous link and several next links.                        *)
(*                                                                          *)
(* The link's task puts each frame in the output queue its channel is       *)
(* mapped to, with another channel number, or gives it back at once; the    *)
(* tasks of the next links return frames by SelectLink_putEmptyFrames, in   *)
(* their own context.  The application changes the map while frames are     *)
(* under way.  The actions say what happens to the link's own variables and *)
(* to those of its next links; a module that composes it with a previous    *)
(* link says what happens there (how it gets frames and gives them back).   *)
(* The picture sizes that travel with a changed map are left out.           *)
EXTENDS Integers, Sequences, FiniteSets, Functions

CONSTANTS NumOutQue,    \* createArgs.numOutQue
          InChannel,    \* the channel numbers of the previous link
          FrameOf,      \* the frames of the previous link
          Created,      \* Created[q]: createArgs.outQueChInfo[q].inChNum
          Selection     \* the lists of channels the application asks for

OutQue == 0 .. NumOutQue - 1
\* What Set..Info takes for outQueId: line 132 lets NumOutQue itself pass.
QueId == 0 .. NumOutQue

(* The assumption on the parameters, stated by the module that composes the *)
(* link with others; selectLink.h:32 wants a channel in one queue.          *)
SelectParameters ==
    /\ NumOutQue \in Nat \ {0} /\ InChannel \subseteq Nat
    /\ Created \in [OutQue -> Seq(InChannel)]
    /\ Selection \subseteq Seq(InChannel)
    /\ \A l \in Selection : IsInjective(l)
    /\ \A q \in OutQue : IsInjective(Created[q])
    /\ \A q, k \in OutQue : q # k => Range(Created[q]) \cap Range(Created[k]) = {}

VARIABLES chan,         \* channelNum of each frame
          selPc, inList, unmapped, newData,     \* the task and its loop
          outFrameQue,  \* outFrameQue[q], full frames
          inChInfo,     \* inChInfo[ch]: queue and number of a channel
          prevOutQueChInfo,     \* the list last set for a queue
          org,          \* selectOrgChannelNum of each frame
          mail,         \* mail[q]: a NEW_DATA is in the mailbox of next link q
          taking,       \* taking[q]: it received it and will take frames
          using         \* using[q]: the frames it uses

loop == <<selPc, inList, unmapped, newData>>
map == <<inChInfo, prevOutQueChInfo>>
users == <<mail, taking, using>>
selVars == <<loop, outFrameQue, map, org, users>>

Position(s, ch) == CHOOSE i \in DOMAIN s : s[i] = ch

\* SELECT_LINK_CH_NOT_MAPPED is larger than every queue.
NotMapped == [queId |-> NumOutQue + 1, outChNum |-> 0]
Mapping == [queId : 0 .. NumOutQue + 1, outChNum : Nat]

SelTypeOK ==
    /\ selPc \in {"idle", "get", "frames", "free", "notify"}
    /\ inList \in Seq(FrameOf) /\ unmapped \in Seq(FrameOf)
    /\ newData \subseteq OutQue
    /\ outFrameQue \in [OutQue -> Seq(FrameOf)]
    /\ inChInfo \in [InChannel -> Mapping]
    /\ prevOutQueChInfo \in [QueId -> Seq(InChannel)]
    /\ org \in [FrameOf -> Nat]
    /\ mail \in [OutQue -> BOOLEAN] /\ taking \in [OutQue -> BOOLEAN]
    /\ using \in [OutQue -> SUBSET FrameOf]

SelInit ==
    /\ selPc = "idle" /\ inList = <<>> /\ unmapped = <<>> /\ newData = {}
    /\ outFrameQue = [q \in OutQue |-> <<>>]
    /\ inChInfo = [ch \in InChannel |->
                      IF \E q \in OutQue : ch \in Range(Created[q])
                      THEN LET q == CHOOSE k \in OutQue : ch \in Range(Created[k])
                           IN  [queId |-> q, outChNum |-> Position(Created[q], ch) - 1]
                      ELSE NotMapped]
    /\ prevOutQueChInfo = [q \in QueId |-> IF q \in OutQue THEN Created[q] ELSE <<>>]
    /\ org = [f \in FrameOf |-> 0]
    /\ mail = [q \in OutQue |-> FALSE] /\ taking = [q \in OutQue |-> FALSE]
    /\ using = [q \in OutQue |-> {}]

-----------------------------------------------------------------------------
(* SELECT_LINK_CMD_SET_OUT_QUE_CH_INFO, and ..INFO2, which removes the      *)
(* queue's previous channels first.  The task serves it between two         *)
(* NEW_DATA commands.                                                       *)

(* The application keeps the rule of selectLink.h:32: no channel is asked   *)
(* for in two queues.                                                       *)
MaySelect(q, l) == \A k \in QueId \ {q} : Range(l) \cap Range(prevOutQueChInfo[k]) = {}

SetOutQueChInfo(q, l, removes) ==
    /\ selPc = "idle" /\ MaySelect(q, l)
    /\ LET removed == IF removes THEN Range(prevOutQueChInfo[q]) ELSE {} IN
       inChInfo' = [ch \in InChannel |->
           IF ch \in Range(l) THEN [queId |-> q, outChNum |-> Position(l, ch) - 1]
           ELSE IF ch \in removed THEN NotMapped
           ELSE inChInfo[ch]]
    /\ prevOutQueChInfo' = [prevOutQueChInfo EXCEPT ![q] = l]
    /\ UNCHANGED <<chan, loop, outFrameQue, org, users>>

-----------------------------------------------------------------------------
(* SelectLink_drvProcessFrames                                              *)

SelectWake ==
    /\ selPc = "idle"
    /\ selPc' = "get"
    /\ UNCHANGED <<inList, unmapped, newData, outFrameQue, map, org, users>>

\* The frames of the previous link.
Take(s) ==
    /\ selPc = "get"
    /\ inList' = s /\ unmapped' = <<>> /\ newData' = {}
    /\ selPc' = IF s = <<>> THEN "idle" ELSE "frames"
    /\ UNCHANGED <<outFrameQue, map, org, users>>

Loop == /\ inList' = Tail(inList)
        /\ selPc' = IF Len(inList) > 1 THEN "frames"
                    ELSE IF unmapped' # <<>> THEN "free" ELSE "notify"

\* One turn of the loop: the frame is sorted out, or put in its queue.
Unselected ==
    /\ selPc = "frames" /\ inChInfo[chan[Head(inList)]].queId \notin OutQue
    /\ unmapped' = Append(unmapped, Head(inList))
    /\ Loop
    /\ UNCHANGED <<chan, newData, outFrameQue, map, org, users>>

Selected ==
    /\ selPc = "frames"
    /\ LET f == Head(inList)
           info == inChInfo[chan[f]]
       IN  /\ info.queId \in OutQue
           /\ org' = [org EXCEPT ![f] = chan[f]]
           /\ chan' = [chan EXCEPT ![f] = info.outChNum]
           /\ outFrameQue' = [outFrameQue EXCEPT ![info.queId] = Append(@, f)]
           /\ newData' = newData \cup {info.queId}
    /\ UNCHANGED unmapped
    /\ Loop
    /\ UNCHANGED <<map, users>>

\* The frames of channels that are not mapped go back together.
FreeUnmapped ==
    /\ selPc = "free"
    /\ unmapped' = <<>>
    /\ selPc' = IF newData = {} THEN "idle" ELSE "notify"
    /\ UNCHANGED <<inList, newData, outFrameQue, map, org, users>>

\* Mutant: only the first of the queues with new data is announced.
SelectNotify_first ==
    /\ selPc = "notify"
    /\ LET q == CHOOSE k \in newData : \A j \in newData : k <= j IN
          mail' = [mail EXCEPT ![q] = TRUE]
    /\ newData' = {} /\ selPc' = "idle"
    /\ UNCHANGED <<chan, inList, unmapped, outFrameQue, map, org, taking, using>>
\* One NEW_DATA a queue, in the order of the queues.
SelectNotify ==
    /\ selPc = "notify"
    /\ LET q == CHOOSE k \in newData : \A j \in newData : k <= j IN
          /\ mail' = [mail EXCEPT ![q] = TRUE]
          /\ newData' = newData \ {q}
          /\ selPc' = IF newData = {q} THEN "idle" ELSE "notify"
    /\ UNCHANGED <<chan, inList, unmapped, outFrameQue, map, org, taking, using>>

-----------------------------------------------------------------------------
(* The next links: each takes the frames of its queue and returns them.     *)

NextWake(q) ==
    /\ ~taking[q] /\ mail[q]
    /\ mail' = [mail EXCEPT ![q] = FALSE]
    /\ taking' = [taking EXCEPT ![q] = TRUE]
    /\ UNCHANGED <<chan, loop, outFrameQue, map, org, using>>

\* SelectLink_getFullFrames
NextGet(q) ==
    /\ taking[q]
    /\ using' = [using EXCEPT ![q] = @ \cup Range(outFrameQue[q])]
    /\ outFrameQue' = [outFrameQue EXCEPT ![q] = <<>>]
    /\ taking' = [taking EXCEPT ![q] = FALSE]
    /\ UNCHANGED <<chan, loop, map, org, mail>>

\* Mutant: the number is looked up in the map, as it is now.
Restore_byMap(q, s) ==
    /\ Range(s) \subseteq using[q]
    /\ chan' = [f \in FrameOf |->
                  IF f \in Range(s) /\ chan[f] < Len(prevOutQueChInfo[q])
                  THEN prevOutQueChInfo[q][chan[f] + 1] ELSE chan[f]]
    /\ using' = [using EXCEPT ![q] = @ \ Range(s)]
    /\ UNCHANGED <<loop, outFrameQue, map, org, mail, taking>>
\* SelectLink_putEmptyFrames up to the call of the previous link.
Restore(q, s) ==
    /\ Range(s) \subseteq using[q]
    /\ chan' = [f \in FrameOf |-> IF f \in Range(s) THEN org[f] ELSE chan[f]]
    /\ using' = [using EXCEPT ![q] = @ \ Range(s)]
    /\ UNCHANGED <<loop, outFrameQue, map, org, mail, taking>>

-----------------------------------------------------------------------------
\* The frames that carry a number of the link's own.
Behind == UNION {Range(outFrameQue[q]) \cup using[q] : q \in OutQue}
\* The number the previous link would see on a frame if it came back now.
OrgChannel == [f \in FrameOf |-> IF f \in Behind THEN org[f] ELSE chan[f]]

\* Where frame f is in the link and with its next links.
SelectPlaces(f) ==
    [inList   |-> {f} \cap Range(inList),
     unmapped |-> {f} \cap Range(unmapped),
     queue    |-> {q \in OutQue : f \in Range(outFrameQue[q])},
     using    |-> {q \in OutQue : f \in using[q]}]
OncePerQueue == /\ IsInjective(inList) /\ IsInjective(unmapped)
                /\ \A q \in OutQue : IsInjective(outFrameQue[q])

(* What Get..Info reports is what the link does with these channels: a      *)
(* channel listed for a queue is mapped to it, at its place in the list.    *)
ReportsMap == \A q \in QueId : \A i \in DOMAIN prevOutQueChInfo[q] :
    inChInfo[prevOutQueChInfo[q][i]] = [queId |-> q, outChNum |-> i - 1]
=============================================================================
