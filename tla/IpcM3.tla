------------------------------- MODULE IpcM3 -------------------------------
(* A pair of links that carries frames from one M3 core to the other:       *)
(* src_bios6/links_common/ipcOutM3/ipcOutM3Link_tsk.c on one core and       *)
(* ipcInM3/ipcInM3Link_tsk.c on the other, with the link before and the     *)
(* link behind.                                                             *)
(*                                                                          *)
(* The out link puts each frame in a list element, from a pool of its own,  *)
(* on the shared list listMPOut; the in link hands the frames to its next   *)
(* link and puts the elements on listMPIn when they are returned.  Each     *)
(* core learns of a list by a notify event, by a clock, or by both.         *)
(*                                                                          *)
(* IpcFrames adds the links that were grown from these, and states the      *)
(* properties and the fairness of all of them.                              *)
EXTENDS Integers, Sequences, FiniteSets, Functions, Owning

CONSTANTS Frame,        \* the frames of the previous link
          Elem,         \* the list elements of the out link
          NoElem,       \* the null pointer
          NoFrame,
          Handle,       \* what stands for a frame behind the in link: itself
          Modes         \* the ways the pair may be created

ASSUME NullAssumption == NoElem \notin Elem /\ NoFrame \notin Frame
ASSUME HandleAssumption == Frame \subseteq Handle /\ IsFiniteSet(Handle) /\ IsFiniteSet(Elem)
(* notifyNext: the out link sends events; notifyPrev: the in link does;     *)
(* outClock, inClock: noNotifyMode of each link.  Each direction has one of *)
(* the two.  The in link always tells its next link.                        *)
Mode == [notifyNext : BOOLEAN, notifyPrev : BOOLEAN, outClock : BOOLEAN, inClock : BOOLEAN]
ASSUME ModesAssumption ==
    Modes \subseteq {m \in Mode : (m.notifyNext \/ m.inClock) /\ (m.notifyPrev \/ m.outClock)}

VARIABLES mode,
          source,       \* the frames in the hands of the previous link
          outPc, list,  \* the out link's task, and the frames it looks at
          outFree,      \* its freeFrameList
          listElemQue,  \* its free elements
          pFrame,       \* pFrame of each element
          outEvent, outRelease, outClk,     \* event, RELEASE_FRAMES, clock
          listMPOut, listMPIn,              \* the shared lists of elements
          inPc, inGot,  \* the in link's task, and whether it found frames
          inEvent, inNewData, inClk,        \* event, NEW_DATA, clock
          orgElem,      \* pOrgListMPElem of each frame
          outFrameQue,  \* the full queue of the in link
          notice,       \* a NEW_DATA is in the mailbox of the next link
          nextPc, held, ret     \* the next link: its frames, those it returns

out == <<outPc, list, outFree, listElemQue, pFrame>>
outWake == <<outEvent, outRelease, outClk>>
in == <<inPc, inGot, orgElem, outFrameQue, notice>>
inWake == <<inEvent, inNewData, inClk>>
next == <<nextPc, held, ret>>
vars == <<mode, source, out, outWake, listMPOut, listMPIn, in, inWake, next>>

\* A clock set by IpcOutM3Link_startPrdObj goes on; one set by a notify event
\* (IpcOutM3Link_reconfigPrdObj, which leaves clkStarted alone) fires once.
Clk == [run : {"stopped", "once", "periodic"}, clkStarted : BOOLEAN]
Stopped == [run |-> "stopped", clkStarted |-> FALSE]
Start(c) == IF c.clkStarted THEN c ELSE [run |-> "periodic", clkStarted |-> TRUE]
Reconfig(c) == [c EXCEPT !.run = "once"]
Fired(c) == IF c.run = "once" THEN [c EXCEPT !.run = "stopped"] ELSE c

DataOK ==
    /\ mode \in Modes
    /\ source \subseteq Frame
    /\ list \in Seq(Frame) /\ outFree \subseteq Frame
    /\ listElemQue \subseteq Elem
    /\ pFrame \in [Elem -> Frame \cup {NoFrame}]
    /\ outEvent \in BOOLEAN /\ outRelease \in BOOLEAN /\ outClk \in Clk
    /\ listMPOut \in Seq(Elem) /\ listMPIn \in Seq(Elem)
    /\ inGot \in BOOLEAN /\ inEvent \in BOOLEAN /\ inNewData \in BOOLEAN /\ inClk \in Clk
    /\ orgElem \in [Handle -> Elem \cup {NoElem}]
    /\ outFrameQue \in Seq(Handle) /\ notice \in BOOLEAN
    /\ held \subseteq Handle /\ ret \in Seq(Handle)

TypeOK ==
    /\ DataOK
    /\ outPc \in {"idle", "send", "putBack", "notify", "start", "release", "up"}
    /\ inPc \in {"idle", "drain"}
    /\ nextPc \in {"idle", "get", "put", "notify"}

Init ==
    /\ mode \in Modes
    /\ source = Frame
    /\ outPc = "idle" /\ list = <<>> /\ outFree = {}
    /\ listElemQue = Elem
    /\ pFrame = [e \in Elem |-> NoFrame]
    /\ outEvent = FALSE /\ outRelease = FALSE /\ outClk = Stopped
    /\ listMPOut = <<>> /\ listMPIn = <<>>
    /\ inPc = "idle" /\ inGot = FALSE
    /\ inEvent = FALSE /\ inNewData = FALSE
    /\ inClk = IF mode.inClock THEN Start(Stopped) ELSE Stopped
    /\ orgElem = [h \in Handle |-> NoElem]
    /\ outFrameQue = <<>> /\ notice = FALSE
    /\ nextPc = "idle" /\ held = {} /\ ret = <<>>

Lists(S) == UNION {{s \in [1 .. n -> S] : IsInjective(s)} : n \in 1 .. Cardinality(S)}

-----------------------------------------------------------------------------
(* The out link's task, on NEW_DATA: IpcOutM3Link_processFrames.            *)

\* NEW_DATA also comes when there is nothing (more) to take.
OutGet ==
    /\ outPc = "idle"
    /\ \E s \in Lists(source) \cup {<<>>} :
          /\ list' = s /\ source' = source \ Range(s)
          /\ outPc' = IF s = <<>> THEN "release" ELSE "send"
    /\ UNCHANGED <<mode, outFree, listElemQue, pFrame, outWake, listMPOut, listMPIn,
                   in, inWake, next>>

SendNext == /\ list' = Tail(list)
            /\ outPc' = IF Len(list) = 1 THEN "putBack" ELSE "send"

\* A frame leaves in an element ...
OutSend ==
    /\ outPc = "send"
    /\ \E e \in listElemQue :
          /\ listElemQue' = listElemQue \ {e}
          /\ pFrame' = [pFrame EXCEPT ![e] = Head(list)]
          /\ listMPOut' = Append(listMPOut, e)
    /\ SendNext
    /\ UNCHANGED <<mode, source, outFree, outWake, listMPIn, in, inWake, next>>

\* ... or is dropped, by the frame rate control or for want of an element.
OutDrop ==
    /\ outPc = "send"
    /\ outFree' = outFree \cup {Head(list)}
    /\ SendNext
    /\ UNCHANGED <<mode, source, listElemQue, pFrame, outWake, listMPOut, listMPIn,
                   in, inWake, next>>

\* Mutant: the dropped frames are not given back.
OutPutBack_forgotten ==
    /\ outPc = "putBack"
    /\ outFree' = {}
    /\ outPc' = IF mode.notifyNext THEN "notify" ELSE "start"
    /\ UNCHANGED <<mode, source, list, listElemQue, pFrame, outWake, listMPOut,
                   listMPIn, in, inWake, next>>
OutPutBack ==
    /\ outPc = "putBack"
    /\ source' = source \cup outFree
    /\ outFree' = {}
    /\ outPc' = IF mode.notifyNext THEN "notify" ELSE "start"
    /\ UNCHANGED <<mode, list, listElemQue, pFrame, outWake, listMPOut, listMPIn,
                   in, inWake, next>>

\* System_ipcSendNotify waits until the previous event is cleared.
OutNotify ==
    /\ outPc = "notify" /\ ~inEvent
    /\ inEvent' = TRUE
    /\ outPc' = "start"
    /\ UNCHANGED <<mode, source, list, outFree, listElemQue, pFrame, outWake,
                   listMPOut, listMPIn, in, inNewData, inClk, next>>

\* The clock of the out link starts with the first frames.
OutStart ==
    /\ outPc = "start"
    /\ outClk' = IF mode.outClock THEN Start(outClk) ELSE outClk
    /\ outPc' = "release"
    /\ UNCHANGED <<mode, source, list, outFree, listElemQue, pFrame, outEvent,
                   outRelease, listMPOut, listMPIn, in, inWake, next>>

(* IpcOutM3Link_releaseFrames, after NEW_DATA and on RELEASE_FRAMES.        *)

OutWake ==
    /\ outPc = "idle" /\ outRelease
    /\ outRelease' = FALSE
    /\ outPc' = "release"
    /\ UNCHANGED <<mode, source, list, outFree, listElemQue, pFrame, outEvent, outClk,
                   listMPOut, listMPIn, in, inWake, next>>

\* Mutant: the handles of the two lists are swapped.
OutRelease_swapped ==
    /\ outPc = "release"
    /\ IF listMPOut = <<>>
       THEN outPc' = "up" /\ UNCHANGED <<listMPOut, outFree, listElemQue>>
       ELSE /\ outFree' = outFree \cup {pFrame[Head(listMPOut)]}
            /\ listElemQue' = listElemQue \cup {Head(listMPOut)}
            /\ listMPOut' = Tail(listMPOut)
            /\ UNCHANGED outPc
    /\ UNCHANGED <<mode, source, list, pFrame, outWake, listMPIn, in, inWake, next>>
OutRelease ==
    /\ outPc = "release"
    /\ IF listMPIn = <<>>
       THEN outPc' = "up" /\ UNCHANGED <<listMPIn, outFree, listElemQue>>
       ELSE /\ outFree' = outFree \cup {pFrame[Head(listMPIn)]}
            /\ listElemQue' = listElemQue \cup {Head(listMPIn)}
            /\ listMPIn' = Tail(listMPIn)
            /\ UNCHANGED outPc
    /\ UNCHANGED <<mode, source, list, pFrame, outWake, listMPOut, in, inWake, next>>

OutUp ==
    /\ outPc = "up"
    /\ source' = source \cup outFree
    /\ outFree' = {}
    /\ outPc' = "idle"
    /\ UNCHANGED <<mode, list, listElemQue, pFrame, outWake, listMPOut, listMPIn,
                   in, inWake, next>>

\* The event interrupts the core (IpcOutM3Link_notifyCb); the clock fires.
OutEvent ==
    /\ outEvent
    /\ outEvent' = FALSE /\ outRelease' = TRUE
    /\ outClk' = Reconfig(outClk)
    /\ UNCHANGED <<mode, source, out, listMPOut, listMPIn, in, inWake, next>>

OutTick ==
    /\ outClk.run # "stopped"
    /\ outRelease' = TRUE /\ outClk' = Fired(outClk)
    /\ UNCHANGED <<mode, source, out, outEvent, listMPOut, listMPIn, in, inWake, next>>

-----------------------------------------------------------------------------
(* The in link's core.                                                      *)

InEvent ==
    /\ inEvent
    /\ inEvent' = FALSE /\ inNewData' = TRUE
    /\ inClk' = Reconfig(inClk)
    /\ UNCHANGED <<mode, source, out, outWake, listMPOut, listMPIn, in, next>>

InTick ==
    /\ inClk.run # "stopped"
    /\ inNewData' = TRUE /\ inClk' = Fired(inClk)
    /\ UNCHANGED <<mode, source, out, outWake, listMPOut, listMPIn, in, inEvent, next>>

InWake ==
    /\ inPc = "idle" /\ inNewData
    /\ inNewData' = FALSE
    /\ inPc' = "drain" /\ inGot' = FALSE
    /\ UNCHANGED <<mode, source, out, outWake, listMPOut, listMPIn, orgElem,
                   outFrameQue, notice, inEvent, inClk, next>>

\* Mutant: a frame keeps the element of its last passage.
InTake_keepsOrg ==
    /\ inPc = "drain" /\ listMPOut # <<>>
    /\ LET e == Head(listMPOut)
           f == pFrame[e]
       IN  /\ orgElem' = IF orgElem[f] = NoElem THEN [orgElem EXCEPT ![f] = e] ELSE orgElem
           /\ outFrameQue' = Append(outFrameQue, f)
    /\ listMPOut' = Tail(listMPOut)
    /\ inGot' = TRUE
    /\ UNCHANGED <<mode, source, out, outWake, listMPIn, inPc, notice, inWake, next>>
\* Mutant: the frame does not remember its element.
InTake_noOrg ==
    /\ inPc = "drain" /\ listMPOut # <<>>
    /\ outFrameQue' = Append(outFrameQue, pFrame[Head(listMPOut)])
    /\ listMPOut' = Tail(listMPOut)
    /\ inGot' = TRUE
    /\ UNCHANGED <<mode, source, out, outWake, listMPIn, inPc, orgElem, notice, inWake, next>>
\* IpcInM3Link_processFrames takes elements until the list is empty.
InTake ==
    /\ inPc = "drain" /\ listMPOut # <<>>
    /\ LET e == Head(listMPOut)
           f == pFrame[e]
       IN  /\ orgElem' = [orgElem EXCEPT ![f] = e]
           /\ outFrameQue' = Append(outFrameQue, f)
    /\ listMPOut' = Tail(listMPOut)
    /\ inGot' = TRUE
    /\ UNCHANGED <<mode, source, out, outWake, listMPIn, inPc, notice, inWake, next>>

\* Mutant: the loop ends before the list is empty.
InDone_early ==
    /\ inPc = "drain" /\ (inGot \/ listMPOut = <<>>)
    /\ notice' = (notice \/ inGot)
    /\ inPc' = "idle" /\ inGot' = FALSE
    /\ UNCHANGED <<mode, source, out, outWake, listMPOut, listMPIn, orgElem,
                   outFrameQue, inWake, next>>
InDone ==
    /\ inPc = "drain" /\ listMPOut = <<>>
    /\ notice' = (notice \/ inGot)
    /\ inPc' = "idle" /\ inGot' = FALSE
    /\ UNCHANGED <<mode, source, out, outWake, listMPOut, listMPIn, orgElem,
                   outFrameQue, inWake, next>>

-----------------------------------------------------------------------------
(* The next link takes frames, and returns some of them in its own context. *)

NextWake ==
    /\ nextPc = "idle" /\ notice
    /\ notice' = FALSE
    /\ nextPc' = "get"
    /\ UNCHANGED <<mode, source, out, outWake, listMPOut, listMPIn, inPc, inGot,
                   orgElem, outFrameQue, inWake, held, ret>>

GetFull ==
    /\ nextPc = "get"
    /\ held' = held \cup Range(outFrameQue)
    /\ outFrameQue' = <<>>
    /\ nextPc' = "idle"
    /\ UNCHANGED <<mode, source, out, outWake, listMPOut, listMPIn, inPc, inGot,
                   orgElem, notice, inWake, ret>>

StartReturn ==
    /\ nextPc = "idle"
    /\ \E s \in Lists(held) : ret' = s /\ held' = held \ Range(s)
    /\ nextPc' = "put"
    /\ UNCHANGED <<mode, source, out, outWake, listMPOut, listMPIn, in, inWake>>

\* IpcInM3Link_putEmptyFrames.
PutEmpty ==
    /\ nextPc = "put"
    /\ listMPIn' = Append(listMPIn, orgElem[Head(ret)])
    /\ ret' = Tail(ret)
    /\ nextPc' = IF Len(ret) > 1 THEN "put" ELSE IF mode.notifyPrev THEN "notify" ELSE "idle"
    /\ UNCHANGED <<mode, source, out, outWake, listMPOut, in, inWake, held>>

InNotify ==
    /\ nextPc = "notify" /\ ~outEvent
    /\ outEvent' = TRUE
    /\ nextPc' = "idle"
    /\ UNCHANGED <<mode, source, out, outRelease, outClk, listMPOut, listMPIn, in,
                   inWake, held, ret>>

-----------------------------------------------------------------------------
OutTask == \/ OutSend \/ OutDrop \/ OutPutBack \/ OutNotify \/ OutStart
           \/ OutWake \/ OutRelease \/ OutUp
InTask == InWake \/ InTake \/ InDone
NextTask == NextWake \/ GetFull \/ PutEmpty \/ InNotify

Next == \/ OutGet \/ OutTask \/ OutEvent \/ OutTick
        \/ InTask \/ InEvent \/ InTick
        \/ NextTask \/ StartReturn

Spec == Init /\ [][Next]_vars

=============================================================================
