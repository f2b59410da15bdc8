----------------------------- MODULE IpcFrames -----------------------------
(* The links that carry frames between any two BIOS cores:                  *)
(* src_bios6/links_common/ipcFramesOut/ipcFramesOutLink_tsk.c and           *)
(* ipcFramesIn/ipcFramesInLink_tsk.c.  They are grown from the links of     *)
(* IpcM3.  What is new:                                                     *)
(*   - the cores do not share the frames' records: the in link has headers  *)
(*     of its own, one for each frame behind it, in freeFrameQue;           *)
(*   - the in link may be stopped;                                          *)
(*   - a "process" pair: the frames go to a link of the other core that     *)
(*     works on them in place, and what comes back goes on to the next      *)
(*     links of the out link, split over its queues by channel.             *)
EXTENDS IpcM3

CONSTANTS Header,           \* freeFrameMem of the in link
          Pairs,            \* the kinds of pairs, and how they are created
          Chan,             \* the channel of each frame
          NumChPerOutQue    \* of the out link, in a process pair

Kind == {"m3", "frames", "process"}
OutQue == DOMAIN NumChPerOutQue
\* The channels of the queues before queue q.
ChBefore[q \in 1 .. Len(NumChPerOutQue) + 1] ==
    IF q = 1 THEN 0 ELSE ChBefore[q - 1] + NumChPerOutQue[q - 1]
QueOf(ch) == CHOOSE q \in OutQue : ChBefore[q] <= ch /\ ch < ChBefore[q + 1]

ASSUME HeaderAssumption == Header \subseteq Handle
ASSUME PairsAssumption == Pairs \subseteq Kind \X Modes
ASSUME ChanAssumption ==
    /\ NumChPerOutQue \in Seq(Nat \ {0})
    /\ Chan \in [Frame -> 0 .. ChBefore[Len(NumChPerOutQue) + 1] - 1]

VARIABLES kind,
          sendMsgToTsk, \* the queues that frames of this list went to
          freeFrameQue, \* the free headers
          state,        \* of the in link, "active" until it is stopped
          stopElem,     \* the element in the hands of IpcFramesInLink_stop
          pListElem,    \* and in those of IpcFramesInLink_putEmptyFrames
          channelNum,   \* in each frame
          outFrameBufQue, fwdNotice,    \* the queues of the out link, NEW_DATA
          fwdHeld                       \* the frames of its next links

inFrames == <<freeFrameQue, state, stopElem, pListElem>>
forward == <<channelNum, outFrameBufQue, fwdNotice, fwdHeld>>
frames == <<kind, sendMsgToTsk, inFrames, forward>>
framesVars == <<vars, frames>>

FramesTypeOK ==
    /\ DataOK
    /\ outPc \in {"idle", "send", "putBack", "notify", "start", "release", "up"}
    /\ inPc \in {"idle", "drain", "stop", "stopNotify"}
    /\ nextPc \in {"idle", "get", "put", "elem", "notify"}
    /\ kind \in Kind /\ sendMsgToTsk \subseteq OutQue
    /\ freeFrameQue \subseteq Header /\ state \in {"active", "inactive"}
    /\ stopElem \in Elem \cup {NoElem} /\ pListElem \in Elem \cup {NoElem}
    /\ channelNum \in [Frame -> Nat]
    /\ outFrameBufQue \in [OutQue -> Seq(Frame)]
    /\ fwdNotice \in [OutQue -> BOOLEAN] /\ fwdHeld \in [OutQue -> SUBSET Frame]

FramesInit ==
    /\ Init
    /\ kind \in Kind /\ <<kind, mode>> \in Pairs
    /\ sendMsgToTsk = {}
    /\ freeFrameQue = Header
    /\ state = "active" /\ stopElem = NoElem /\ pListElem = NoElem
    /\ channelNum = Chan
    /\ outFrameBufQue = [q \in OutQue |-> <<>>]
    /\ fwdNotice = [q \in OutQue |-> FALSE]
    /\ fwdHeld = [q \in OutQue |-> {}]

-----------------------------------------------------------------------------
(* The out link: IpcFramesOutLink_processFrameBufs.                         *)

FrGet == OutGet /\ UNCHANGED frames

FrSend == /\ OutSend
          /\ sendMsgToTsk' = sendMsgToTsk \cup {QueOf(channelNum[Head(list)])}
          /\ UNCHANGED <<kind, inFrames, forward>>

\* Only the frame rate control drops: want of an element fails an assertion.
FrDrop == OutDrop /\ UNCHANGED frames

\* The next core is told if a frame went to it, the process core in any case.
FrPutBack ==
    /\ outPc = "putBack"
    /\ source' = source \cup outFree
    /\ outFree' = {}
    /\ outPc' = IF mode.notifyNext /\ (sendMsgToTsk # {} \/ kind = "process")
                THEN "notify" ELSE "start"
    /\ sendMsgToTsk' = {}
    /\ UNCHANGED <<mode, list, listElemQue, pFrame, outWake, listMPOut, listMPIn,
                   in, inWake, next, kind, inFrames, forward>>

FrNotify == (OutNotify \/ OutStart \/ OutWake) /\ UNCHANGED frames

\* IpcFramesOutLink_releaseFrameBufs; the map forgets the frame.
FrRelease ==
    /\ outPc = "release"
    /\ IF listMPIn = <<>>
       THEN outPc' = "up" /\ UNCHANGED <<listMPIn, outFree, listElemQue, pFrame>>
       ELSE /\ outFree' = outFree \cup {pFrame[Head(listMPIn)]}
            /\ pFrame' = [pFrame EXCEPT ![Head(listMPIn)] = NoFrame]
            /\ listElemQue' = listElemQue \cup {Head(listMPIn)}
            /\ listMPIn' = Tail(listMPIn)
            /\ UNCHANGED outPc
    /\ UNCHANGED <<mode, source, list, outWake, listMPOut, in, inWake, next, frames>>

FrUp == kind = "frames" /\ OutUp /\ UNCHANGED frames

\* In a process pair the frames go on, with the channel numbers of their queue.
\* (The order of the frames in outFree is not kept.)
FrForward ==
    /\ kind = "process" /\ outPc = "up" /\ outFree # {}
    /\ \E f \in outFree :
          LET q == QueOf(channelNum[f])
          IN  /\ channelNum' = [channelNum EXCEPT ![f] = @ - ChBefore[q]]
              /\ outFrameBufQue' = [outFrameBufQue EXCEPT ![q] = Append(@, f)]
              /\ sendMsgToTsk' = sendMsgToTsk \cup {q}
              /\ outFree' = outFree \ {f}
    /\ UNCHANGED <<mode, source, outPc, list, listElemQue, pFrame, outWake, listMPOut,
                   listMPIn, in, inWake, next, kind, inFrames, fwdNotice, fwdHeld>>

FrTell ==
    /\ kind = "process" /\ outPc = "up" /\ outFree = {}
    /\ fwdNotice' = [q \in OutQue |-> fwdNotice[q] \/ q \in sendMsgToTsk]
    /\ sendMsgToTsk' = {}
    /\ outPc' = "idle"
    /\ UNCHANGED <<mode, source, list, outFree, listElemQue, pFrame, outWake, listMPOut,
                   listMPIn, in, inWake, next, kind, inFrames, channelNum,
                   outFrameBufQue, fwdHeld>>

\* A next link of the out link: IpcFramesOutLink_getFullFrames ...
FwdGet(q) ==
    /\ fwdNotice[q]
    /\ fwdNotice' = [fwdNotice EXCEPT ![q] = FALSE]
    /\ fwdHeld' = [fwdHeld EXCEPT ![q] = @ \cup Range(outFrameBufQue[q])]
    /\ outFrameBufQue' = [outFrameBufQue EXCEPT ![q] = <<>>]
    /\ UNCHANGED <<vars, kind, sendMsgToTsk, inFrames, channelNum>>

\* Mutant: the channels of the returned frames stay those of the queue.
FwdPut_keepsChannel(q) ==
    /\ \E f \in fwdHeld[q] :
          /\ fwdHeld' = [fwdHeld EXCEPT ![q] = @ \ {f}]
          /\ source' = source \cup {f}
    /\ UNCHANGED <<mode, out, outWake, listMPOut, listMPIn, in, inWake, next, kind,
                   sendMsgToTsk, inFrames, channelNum, outFrameBufQue, fwdNotice>>
\* ... and IpcFramesOutLink_putEmptyFrames, on to the previous link.
FwdPut(q) ==
    /\ \E f \in fwdHeld[q] :
          /\ fwdHeld' = [fwdHeld EXCEPT ![q] = @ \ {f}]
          /\ channelNum' = [channelNum EXCEPT ![f] = @ + ChBefore[q]]
          /\ source' = source \cup {f}
    /\ UNCHANGED <<mode, out, outWake, listMPOut, listMPIn, in, inWake, next, kind,
                   sendMsgToTsk, inFrames, outFrameBufQue, fwdNotice>>

-----------------------------------------------------------------------------
(* The in link: IpcFramesInLink_processFrameBufs, also after it is stopped. *)

FrTake ==
    /\ inPc = "drain" /\ listMPOut # <<>>
    /\ \E h \in freeFrameQue :
          /\ freeFrameQue' = freeFrameQue \ {h}
          /\ orgElem' = [orgElem EXCEPT ![h] = Head(listMPOut)]
          /\ outFrameQue' = Append(outFrameQue, h)
    /\ listMPOut' = Tail(listMPOut)
    /\ inGot' = TRUE
    /\ UNCHANGED <<mode, source, out, outWake, listMPIn, inPc, notice, inWake, next,
                   kind, sendMsgToTsk, state, stopElem, pListElem, forward>>

FrIn == (InWake \/ InDone) /\ UNCHANGED frames

(* IpcFramesInLink_stop sends back what it has not taken yet.               *)

FrStop ==
    /\ inPc = "idle" /\ state = "active"
    /\ state' = "inactive" /\ inPc' = "stop"
    /\ UNCHANGED <<mode, source, out, outWake, listMPOut, listMPIn, inGot, orgElem,
                   outFrameQue, notice, inWake, next, kind, sendMsgToTsk,
                   freeFrameQue, stopElem, pListElem, forward>>

FrStopTake ==
    /\ inPc = "stop" /\ stopElem = NoElem /\ listMPOut # <<>>
    /\ stopElem' = Head(listMPOut) /\ listMPOut' = Tail(listMPOut)
    /\ UNCHANGED <<mode, source, out, outWake, listMPIn, in, inWake, next, kind,
                   sendMsgToTsk, freeFrameQue, state, pListElem, forward>>

FrStopPut ==
    /\ inPc = "stop" /\ stopElem # NoElem
    /\ listMPIn' = Append(listMPIn, stopElem) /\ stopElem' = NoElem
    /\ inGot' = TRUE
    /\ UNCHANGED <<mode, source, out, outWake, listMPOut, inPc, orgElem, outFrameQue,
                   notice, inWake, next, kind, sendMsgToTsk, freeFrameQue, state,
                   pListElem, forward>>

FrStopped ==
    /\ inPc = "stop" /\ stopElem = NoElem /\ listMPOut = <<>>
    /\ inPc' = IF inGot /\ mode.notifyPrev THEN "stopNotify" ELSE "idle"
    /\ inGot' = FALSE
    /\ UNCHANGED <<mode, source, out, outWake, listMPOut, listMPIn, orgElem,
                   outFrameQue, notice, inWake, next, frames>>

FrStopNotify ==
    /\ inPc = "stopNotify" /\ ~outEvent
    /\ outEvent' = TRUE
    /\ inPc' = "idle"
    /\ UNCHANGED <<mode, source, out, outRelease, outClk, listMPOut, listMPIn, inGot,
                   orgElem, outFrameQue, notice, inWake, next, frames>>

-----------------------------------------------------------------------------
(* Its next link takes and returns headers; a stopped link gives none and   *)
(* lets those that come back fall.                                          *)

FrGetFull ==
    /\ IF state = "active"
       THEN GetFull
       ELSE /\ nextPc = "get" /\ nextPc' = "idle"
            /\ UNCHANGED <<mode, source, out, outWake, listMPOut, listMPIn, in, inWake,
                           held, ret>>
    /\ UNCHANGED frames

FrReturn ==
    /\ IF state = "active"
       THEN StartReturn
       ELSE /\ nextPc = "idle"
            /\ \E s \in Lists(held) : held' = held \ Range(s)
            /\ UNCHANGED <<mode, source, out, outWake, listMPOut, listMPIn, in, inWake,
                           nextPc, ret>>
    /\ UNCHANGED frames

FrReturned(s) == IF s # <<>> THEN "put" ELSE IF mode.notifyPrev THEN "notify" ELSE "idle"

\* Mutant: the element is read from a header that is free already.
FrPutEmpty_readsLate ==
    /\ \/ /\ nextPc = "put"
          /\ freeFrameQue' = freeFrameQue \cup {Head(ret)}
          /\ nextPc' = "elem"
          /\ UNCHANGED <<listMPIn, ret>>
       \/ /\ nextPc = "elem"
          /\ listMPIn' = Append(listMPIn, orgElem[Head(ret)])
          /\ ret' = Tail(ret)
          /\ nextPc' = FrReturned(ret')
          /\ UNCHANGED freeFrameQue
    /\ UNCHANGED <<mode, source, out, outWake, listMPOut, in, inWake, held, kind,
                   sendMsgToTsk, state, stopElem, pListElem, forward>>
\* IpcFramesInLink_putEmptyFrames: the header is free, then the element goes.
\* (Nobody reads where a free header points: the model forgets it.)
FrPutEmpty ==
    /\ \/ /\ nextPc = "put"
          /\ pListElem' = orgElem[Head(ret)]
          /\ orgElem' = [orgElem EXCEPT ![Head(ret)] = NoElem]
          /\ freeFrameQue' = freeFrameQue \cup {Head(ret)}
          /\ ret' = Tail(ret)
          /\ nextPc' = "elem"
          /\ UNCHANGED listMPIn
       \/ /\ nextPc = "elem"
          /\ listMPIn' = Append(listMPIn, pListElem)
          /\ pListElem' = NoElem
          /\ nextPc' = FrReturned(ret)
          /\ UNCHANGED <<freeFrameQue, ret, orgElem>>
    /\ UNCHANGED <<mode, source, out, outWake, listMPOut, inPc, inGot, outFrameQue,
                   notice, inWake, held, kind, sendMsgToTsk, state, stopElem, forward>>

FrNext == (NextWake \/ InNotify) /\ UNCHANGED frames

-----------------------------------------------------------------------------
FrOutTask == \/ FrSend \/ FrDrop \/ FrPutBack \/ FrNotify
             \/ FrRelease \/ FrUp \/ FrForward \/ FrTell
FrInTask == \/ FrIn \/ FrTake \/ FrStopTake \/ FrStopPut \/ FrStopped \/ FrStopNotify
FrNextTask == FrNext \/ FrGetFull \/ FrPutEmpty

\* Either kind of pair takes its own steps; the events are the same.
GetStep == IF kind = "m3" THEN OutGet /\ UNCHANGED frames ELSE FrGet
OutStep == IF kind = "m3" THEN OutTask /\ UNCHANGED frames ELSE FrOutTask
InStep == IF kind = "m3" THEN InTask /\ UNCHANGED frames ELSE FrInTask
NextStep == IF kind = "m3" THEN NextTask /\ UNCHANGED frames ELSE FrNextTask
ReturnStep == IF kind = "m3" THEN StartReturn /\ UNCHANGED frames ELSE FrReturn
StopStep == kind # "m3" /\ FrStop
Event(A) == A /\ UNCHANGED frames

FramesNext ==
    \/ GetStep \/ OutStep \/ InStep \/ NextStep \/ ReturnStep \/ StopStep
    \/ Event(OutEvent) \/ Event(OutTick) \/ Event(InEvent) \/ Event(InTick)
    \/ \E q \in OutQue : FwdGet(q) \/ FwdPut(q)

FramesSpec == FramesInit /\ [][FramesNext]_framesVars

(* Tasks are scheduled, events delivered, clocks fire; the out link handles *)
(* RELEASE_FRAMES between its NEW_DATA messages; a next link handles its    *)
(* notifications between the frames it returns, and returns every frame.    *)
FramesFairSpec ==
    /\ FramesSpec
    /\ WF_framesVars(OutStep) /\ SF_framesVars(OutWake /\ UNCHANGED frames)
    /\ WF_framesVars(Event(OutEvent)) /\ WF_framesVars(Event(OutTick))
    /\ WF_framesVars(Event(InEvent)) /\ WF_framesVars(Event(InTick))
    /\ WF_framesVars(InStep)
    /\ WF_framesVars(NextStep) /\ SF_framesVars(NextWake /\ UNCHANGED frames)
    /\ \A h \in Handle : SF_framesVars(ReturnStep /\ h \in held /\ h \notin held')
    /\ \A q \in OutQue : WF_framesVars(FwdGet(q)) /\ WF_framesVars(FwdPut(q))

-----------------------------------------------------------------------------
\* The handles behind the in link, and those that have an element: all of a
\* pair of M3 links' frames there, and every header that is not free.
Behind == Range(outFrameQue) \cup held \cup Range(ret)
Users == IF kind = "m3" THEN Behind ELSE Header \ freeFrameQue

ElemPlaces(e) ==
    [pool    |-> {e} \cap listElemQue,
     outList |-> {e} \cap Range(listMPOut),
     inList  |-> {e} \cap Range(listMPIn),
     stop    |-> {e} \cap {stopElem},
     put     |-> {e} \cap {pListElem},
     user    |-> {h \in Users : orgElem[h] = e}]
FramePlaces(f) ==
    [source  |-> {f} \cap source,
     list    |-> {f} \cap Range(list),
     outFree |-> {f} \cap outFree,
     elem    |-> {e \in Elem \ listElemQue : pFrame[e] = f},
     queue   |-> {q \in OutQue : f \in Range(outFrameBufQue[q])},
     fwdHeld |-> {q \in OutQue : f \in fwdHeld[q]}]

\* No list or queue has anything in it twice, and no two of the three in
\* which handles lie behind the in link have one in common.
QueuedOnce ==
    /\ IsInjective(list) /\ IsInjective(listMPOut) /\ IsInjective(listMPIn)
    /\ \A q \in OutQue : IsInjective(outFrameBufQue[q])
    /\ IsInjective(outFrameQue) /\ IsInjective(ret)
    /\ held \cap Range(outFrameQue) = {}
    /\ Range(ret) \cap (held \cup Range(outFrameQue)) = {}

(* The assertions of ipcFramesOutLink_tsk.c:669 and ipcFramesInLink_tsk.c:  *)
(* 456: with an element for each frame and a header for each element, both  *)
(* are there when they are needed, also after a stop, since the task of the *)
(* out link frees an element before it can get its frame again, and a       *)
(* header is free before the other core gets its element.                   *)
NeverShort ==
    kind # "m3" => /\ outPc = "send" => listElemQue # {}
                   /\ inPc = "drain" /\ listMPOut # <<>> => freeFrameQue # {}

(* A list element is in one place, and while it is not in the pool it       *)
(* stands for one frame, which is nowhere else, until that is back at the   *)
(* out link; a header is free or behind the in link, never both, with the   *)
(* next link returning headers while the in link takes them; a frame is in  *)
(* one place, and has its own channel number again when the previous link   *)
(* gets it; and there is always a free one of what is needed.  Only the     *)
(* headers that a stopped link lets fall are missed, with their elements.   *)
BuffersKept ==
    /\ \A e \in Elem : Cardinality(Tagged(ElemPlaces(e))) = 1
    /\ \A f \in Frame : /\ Cardinality(Tagged(FramePlaces(f))) = 1
                        /\ f \in source => channelNum[f] = Chan[f]
    /\ QueuedOnce
    /\ IF kind = "m3" THEN \A f \in Behind : pFrame[orgElem[f]] = f
       ELSE /\ freeFrameQue \cap Behind = {}
            /\ state = "active" => freeFrameQue \cup Behind = Header
            /\ \A e \in listElemQue : pFrame[e] = NoFrame
    /\ NeverShort

(* No frame waits on listMPOut without anything on the way that makes the   *)
(* in link look: an event, a command, a clock, or its own loop; the same    *)
(* for the elements that come back on listMPIn, also when the in link is    *)
(* stopped, although an event turns a periodic clock into one that fires    *)
(* once; and for the frames that a process pair passes on.                  *)
NothingStranded ==
    /\ listMPOut # <<>> => \/ inEvent \/ inNewData \/ inClk.run # "stopped"
                           \/ inPc \in {"drain", "stop"}
                           \/ outPc \in {"send", "putBack", "notify"}
    /\ listMPIn # <<>> => \/ outEvent \/ outRelease \/ outClk.run # "stopped"
                          \/ nextPc \in {"put", "elem", "notify"}
                          \/ inPc \in {"stop", "stopNotify"}
                          \/ outPc \notin {"idle", "up"}
    /\ \A q \in OutQue : outFrameBufQue[q] # <<>> =>
          fwdNotice[q] \/ q \in sendMsgToTsk

\* The elements on their way to the next link: those whose frames it has not
\* taken yet, then those the in link has not; and those with an owner behind.
Taken == IF state = "active" THEN [i \in DOMAIN outFrameQue |-> orgElem[outFrameQue[i]]]
         ELSE <<>>
Under == Taken \o listMPOut
Used == Elem \ (listElemQue \cup Range(Under) \cup Range(listMPIn))
AtHome == source \cup Range(list) \cup outFree
          \cup UNION {Range(outFrameBufQue[q]) \cup fwdHeld[q] : q \in OutQue}
Carried == INSTANCE FrameBroadcast WITH
    Output <- {"in"},
    free <- AtHome,
    queue <- [q \in {"in"} |-> [i \in DOMAIN Under |-> pFrame[Under[i]]]],
    held <- [q \in {"in"} |-> {pFrame[e] : e \in Used}]
(* Each kind of pair implements FrameBroadcast with one output: the frames  *)
(* it does not drop reach the other core in order, once, and none goes back *)
(* to the previous link, or on to a next link of the out link, while the    *)
(* other core uses it.                                                      *)
CarriesFrames == Carried!Spec

(* Every frame given to the out link comes back to the previous link,       *)
(* unless the in link is stopped.                                           *)
FramesComeBack == \A f \in Frame : []<>(f \in source \/ state = "inactive")
=============================================================================
