------------------------------ MODULE DecLink ------------------------------
(* The decode link, src_bios6/links_m3video/iva_dec/decLink_common.c and    *)
(* decLink_tsk.c, with the calls of decLink_h264.c it depends on.           *)
(*                                                                          *)
(* The link's task (priority 2) pairs input buffers with free output frames *)
(* in request objects and queues them to process tasks (priority 13), which *)
(* run the codec and queue the finished requests back.  A periodic clock    *)
(* tells the link's task to collect those.  The tasks of the next link      *)
(* (priority 12) return frames in their own context.  A channel is deleted  *)
(* by a marked ("dummy") request that follows its last real one; whoever    *)
(* asked is answered only when that request has come through.               *)
(*                                                                          *)
(* All tasks share one processor: a lower one runs only when every higher   *)
(* one waits, and is interrupted between any two of its steps.  A process   *)
(* task waits in a queue get and while the codec works, nowhere else.       *)
(*                                                                          *)
(* Request objects are alike: reqQue is their number, and the other queues  *)
(* hold what they carry.  (A process task whose get was unblocked looks at  *)
(* the object it had last, decLink_common.c:913, which matters only if that *)
(* is a dummy by then: one that another task has not taken yet, because a   *)
(* channel is being deleted while the link is stopped.  The callers below   *)
(* wait for the one before they ask for the other.)                         *)
EXTENDS Integers, Sequences, FiniteSets, Owning

CONSTANTS NumCh,        \* inQueInfo.numCh
          Tsk, TskOf,   \* the process tasks, and ch2ProcessTskId
          Bit, BitCh,   \* the buffers of the previous link, and their channel
          Frame, ChOf,  \* the frame headers (outFramesPool), and their channel
          OutNum,       \* outNumFrames of an open channel
          CodecKeeps,   \* CodecKeeps[ch]: how many frames the codec keeps between calls
          NumDup,       \* DEC_LINK_MAX_DUP_FRAMES
          NumReq,       \* DEC_LINK_MAX_REQ
          PerCall,      \* numReqObjPerProcess
          Kind,         \* Kind[ch]: codec and scan format, which a batch shares
          Alone,        \* the channels of a resolution that is never batched
          MaxBatch,     \* DEC_LINK_GROUP_SUBM_MAX_SIZE
          Dropping,     \* the channels whose input may be dropped (disabled, I frames only)
          TrickPlay,    \* the channels whose output may be skipped
          Caller,       \* those who send control commands and wait for the answer
          Dynamic,      \* the channels they delete and create
          Faults,       \* what may fail when a channel is created: {"codec", "memory"}
          MbxBound,     \* the data commands of one kind that may be queued
          None

Ch == 0 .. NumCh - 1

ASSUME ChannelAssumption ==
    /\ NumCh \in Nat \ {0} /\ TskOf \in [Ch -> Tsk] /\ IsFiniteSet(Tsk)
    /\ BitCh \in [Bit -> Ch] /\ ChOf \in [Frame -> Ch] /\ IsFiniteSet(Frame)
    /\ OutNum \in [Ch -> Nat \ {0}] /\ PerCall \in [Ch -> {1, 2}]
    /\ \A ch \in Ch : OutNum[ch] <= Cardinality({f \in Frame : ChOf[f] = ch})
    /\ Dropping \subseteq Ch /\ TrickPlay \subseteq Ch /\ Dynamic \subseteq Ch
    /\ Alone \subseteq Ch
ASSUME CodecAssumption == CodecKeeps \in [Ch -> Nat] /\ \A ch \in Ch : CodecKeeps[ch] < OutNum[ch]
\* The code asserts that a request object is left when it deletes a channel.
ASSUME ReqAssumption == /\ IsFiniteSet(Bit) /\ IsFiniteSet(Caller) /\ NumReq \in Nat
                        /\ NumReq >= Cardinality(Bit) + Cardinality(Caller)
\* DEC_LINK_MAX_DUP_FRAMES is DEC_LINK_MAX_OUT_FRAMES (decLink_priv.h:54).
ASSUME BoundAssumption == /\ NumDup \in Nat /\ NumDup >= Cardinality(Frame)
                          /\ MaxBatch \in Nat \ {0} /\ MbxBound \in Nat \ {0}
                          /\ Faults \subseteq {"codec", "memory"}
ASSUME NoneAssumption == /\ None \notin Frame \cup Bit \cup Caller
                         /\ {"NEW_DATA", "GET_PROCESSED_DATA", "LATE_ACK"} \cap Caller = {}

\* A frame in the hands of the next link: the codec's own, or a duplicate of it.
Item == Frame \X BOOLEAN
Org(f) == <<f, FALSE>>
Dup(f) == <<f, TRUE>>
NoItem == <<None, FALSE>>
Frames(ch) == {f \in Frame : ChOf[f] = ch}

Control == [cmd : {"none", "CREATE_CHANNEL", "DELETE_CHANNEL", "STOP", "DELETE"}, ch : Ch]
NoControl == [cmd |-> "none", ch |-> 0]
Cmd == {"NEW_DATA", "GET_PROCESSED_DATA", "LATE_ACK"} \cup Caller
\* A request object without a buffer is the dummy one of DELETE_CHANNEL.
Request == [ch : Ch, in : Bit \cup {None}, out : Item \cup {NoItem}]
Dummy(ch) == [ch |-> ch, in |-> None, out |-> NoItem]

VARIABLES
    prev, prevFull,     \* the previous link: buffers it may fill, its full queue
    full, next,         \* fullQue, and what the next link holds
    inQue,              \* inQue[ch]
    emptyQue, fvidFrmQue, outFrames,   \* per channel
    refs,               \* vdecRefCount
    invalid,            \* the frames with invalidFrame set
    locked, shown,      \* the frames the codec keeps, and those it has put out
    inUse,              \* prevOutFrame while outBufsInUseFlag is set
    reqQue, processQue, doneQue,       \* the number in reqQue, the others' requests
    taskPc, batch,      \* each process task and what it works on
    open, openLocal,    \* algCreateStatus of createArgs, algCreateStatusLocal
    newDataOnFree,      \* newDataProcessOnFrameFree
    startChID,
    linkPc, idx, left, tries, again,   \* the link's task and its loops
    pMsg, pMsgTmp,      \* the control message at hand, the one answered late
    mbx,                \* its mailbox
    freePc,             \* the task of the next link that returns frames
    control, phase      \* what each caller waits for; the life of the link

outer == <<prev, prevFull, full, next>>
frames == <<emptyQue, fvidFrmQue, refs, invalid>>
codec == <<locked, shown, inUse>>
tasks == <<reqQue, processQue, doneQue, taskPc, batch>>
chans == <<open, openLocal, outFrames>>
loop == <<startChID, linkPc, idx, left, tries, again>>
ctl == <<pMsg, pMsgTmp, control, phase>>
vars == <<outer, inQue, frames, codec, tasks, chans, newDataOnFree, loop, ctl, mbx, freePc>>

TypeOK ==
    /\ prev \subseteq Bit /\ prevFull \subseteq Bit
    /\ full \subseteq Item /\ next \subseteq Item
    /\ inQue \in [Ch -> SUBSET Bit]
    /\ emptyQue \in [Ch -> SUBSET Frame] /\ fvidFrmQue \in [Ch -> SUBSET Frame]
    /\ outFrames \in [Ch -> SUBSET Frame]
    /\ refs \in [Frame -> 0 .. 2] /\ invalid \subseteq Frame
    /\ locked \in [Ch -> SUBSET Frame] /\ shown \in [Ch -> SUBSET Frame]
    /\ inUse \in [Ch -> Frame \cup {None}]
    /\ reqQue \in 0 .. NumReq /\ doneQue \subseteq Request
    /\ processQue \in [Tsk -> Seq(Request)] /\ batch \in [Tsk -> Seq(Request)]
    /\ taskPc \in [Tsk -> {"get", "codec", "flush", "end"}]
    /\ open \in [Ch -> BOOLEAN] /\ openLocal \in [Ch -> BOOLEAN]
    /\ newDataOnFree \in BOOLEAN /\ startChID \in Ch
    /\ linkPc \in {"idle", "take", "top", "mark", "try", "retest", "remark",
                   "stop", "join", "gone"}
    /\ idx \in Nat /\ left \in 0 .. NumCh /\ tries \in 0 .. 2 /\ again \in BOOLEAN
    /\ pMsg \in Caller \cup {None} /\ pMsgTmp \in Caller \cup {None}
    /\ mbx \in Seq(Cmd)
    /\ freePc \in {"idle", "send", "clear"}
    /\ control \in [Caller -> Control] /\ phase \in {"run", "stop", "delete"}

-----------------------------------------------------------------------------
(* After DecLink_codecCreate with every channel open: OutNum headers of     *)
(* each pool have frame memory and are empty, all requests are free.        *)
Init ==
    /\ prev = Bit /\ prevFull = {} /\ full = {} /\ next = {}
    /\ inQue = [ch \in Ch |-> {}]
    /\ outFrames \in {o \in [Ch -> SUBSET Frame] : \A ch \in Ch :
                         o[ch] \subseteq Frames(ch) /\ Cardinality(o[ch]) = OutNum[ch]}
    /\ emptyQue = outFrames
    /\ fvidFrmQue = [ch \in Ch |-> Frames(ch) \ outFrames[ch]]
    /\ refs = [f \in Frame |-> 0] /\ invalid = {}
    /\ locked = [ch \in Ch |-> {}] /\ shown = [ch \in Ch |-> {}]
    /\ inUse = [ch \in Ch |-> None]
    /\ reqQue = NumReq /\ doneQue = {}
    /\ processQue = [t \in Tsk |-> <<>>] /\ batch = [t \in Tsk |-> <<>>]
    /\ taskPc = [t \in Tsk |-> "get"]
    /\ open = [ch \in Ch |-> TRUE] /\ openLocal = [ch \in Ch |-> TRUE]
    /\ newDataOnFree = FALSE /\ startChID = 0
    /\ linkPc = "idle" /\ idx = 0 /\ left = NumCh /\ tries = 0 /\ again = FALSE
    /\ pMsg = None /\ pMsgTmp = None /\ mbx = <<>> /\ freePc = "idle"
    /\ control = [c \in Caller |-> NoControl] /\ phase = "run"

-----------------------------------------------------------------------------
(* Priorities.  A process task that can go on runs at once; the tasks of    *)
(* the next link run when none can; the link's task when those rest too.    *)
Ready(t) == taskPc[t] = "get" /\ processQue[t] # <<>>
NextLinkRuns == \A t \in Tsk : ~Ready(t)
\* Mutant: the link's task is not below those of the next link.
LinkRuns_anyTime == linkPc # "gone" /\ NextLinkRuns
LinkRuns == linkPc # "gone" /\ NextLinkRuns /\ freePc = "idle"

(* System_sendLinkCmd.  Commands of one kind that lie next to each other    *)
(* are taken out together (Utils_tskFlushMsg), so one stands for them all.  *)
After(m, c) == IF m # <<>> /\ m[Len(m)] = c THEN m ELSE Append(m, c)
Post(c) == mbx' = After(mbx, c)
Count(c) == Cardinality({i \in DOMAIN mbx : mbx[i] = c})

(* DecLink_codecFreeProcessedFrames on the items S, with the counts R: each *)
(* gives up one reference, and a frame without references is empty again -  *)
(* or, if its channel was deleted, back in the pool of headers.             *)
Gone(S, R) == {f \in Frame : R[f] > 0 /\ R[f] = Cardinality({x \in S : x[1] = f})}
Freed(S, R) == Gone(S, R) \ invalid
FreeFrames(S, R) ==
    /\ refs' = [f \in Frame |-> R[f] - Cardinality({x \in S : x[1] = f})]
    /\ emptyQue' = [ch \in Ch |-> emptyQue[ch] \cup (Freed(S, R) \cap Frames(ch))]
    /\ fvidFrmQue' = [ch \in Ch |->
                        fvidFrmQue[ch] \cup (Gone(S, R) \cap invalid \cap Frames(ch))]
    /\ invalid' = invalid \ Gone(S, R)

(* What a task that frees in one go does next, with m its mailbox so far: a  *)
(* link that found no empty frame is told that there is one.                *)
Tell(m, S, R) ==
    LET told == Freed(S, R) # {} /\ newDataOnFree IN
    /\ mbx' = IF told THEN After(m, "NEW_DATA") ELSE m
    /\ newDataOnFree' = (newDataOnFree /\ ~told)

-----------------------------------------------------------------------------
(* The neighbours.                                                          *)

\* The previous link, which is stopped first, fills a buffer and says so.
Fill(b) ==
    /\ b \in prev /\ phase = "run" /\ Count("NEW_DATA") < MbxBound
    /\ prev' = prev \ {b} /\ prevFull' = prevFull \cup {b}
    /\ Post("NEW_DATA")
    /\ UNCHANGED <<full, next, inQue, frames, codec, tasks, chans, newDataOnFree, loop,
                   ctl, freePc>>

\* DecLink_getFullFrames, called by the next link on NEW_DATA.
GetFullFrames ==
    /\ NextLinkRuns /\ full # {} /\ linkPc # "gone"
    /\ next' = next \cup full /\ full' = {}
    /\ UNCHANGED <<prev, prevFull, inQue, frames, codec, tasks, chans, newDataOnFree,
                   loop, ctl, mbx, freePc>>

(* DecLink_putEmptyFrames: the frames are freed with interrupts off; then   *)
(* the flag is read, the command sent, and the flag cleared, one by one.    *)
PutEmptyFrames(S) ==
    /\ NextLinkRuns /\ freePc = "idle" /\ S # {} /\ S \subseteq next /\ linkPc # "gone"
    /\ next' = next \ S
    /\ FreeFrames(S, refs)
    /\ freePc' = IF Freed(S, refs) # {} THEN "send" ELSE "idle"
    /\ UNCHANGED <<prev, prevFull, full, inQue, codec, tasks, chans, newDataOnFree, loop,
                   ctl, mbx>>
PutEmptySend ==
    /\ NextLinkRuns /\ freePc = "send"
    /\ IF newDataOnFree THEN Post("NEW_DATA") /\ freePc' = "clear"
                        ELSE freePc' = "idle" /\ UNCHANGED mbx
    /\ UNCHANGED <<outer, inQue, frames, codec, tasks, chans, newDataOnFree, loop, ctl>>
PutEmptyClear ==
    /\ NextLinkRuns /\ freePc = "clear"
    /\ newDataOnFree' = FALSE /\ freePc' = "idle"
    /\ UNCHANGED <<outer, inQue, frames, codec, tasks, chans, loop, ctl, mbx>>

\* DecLink_codecPrdCalloutFcn, until DecLink_codecDelete stops the clock.
Tick ==
    /\ linkPc \notin {"join", "gone"}
    /\ Count("GET_PROCESSED_DATA") < MbxBound /\ After(mbx, "GET_PROCESSED_DATA") # mbx
    /\ Post("GET_PROCESSED_DATA")
    /\ UNCHANGED <<outer, inQue, frames, codec, tasks, chans, newDataOnFree, loop, ctl,
                   freePc>>

\* A host task asks and waits.  It opens a channel only while enough headers
\* are not in other hands, and deletes the link when all frames are back.
Ask(c, cmd, ch) ==
    /\ control[c] = NoControl
    /\ \/ /\ cmd = "DELETE_CHANNEL" /\ phase = "run" /\ UNCHANGED phase
          /\ ch \in Dynamic /\ open[ch]
       \/ /\ cmd = "CREATE_CHANNEL" /\ phase = "run" /\ UNCHANGED phase
          /\ ch \in Dynamic /\ ~open[ch]
          /\ OutNum[ch] <= Cardinality({f \in Frames(ch) : refs[f] = 0})
       \/ cmd = "STOP" /\ ch = 0 /\ phase = "run" /\ phase' = "stop"
       \/ /\ cmd = "DELETE" /\ ch = 0 /\ phase = "stop" /\ phase' = "delete"
          /\ \A d \in Caller : control[d] = NoControl
          /\ full = {} /\ next = {} /\ freePc = "idle"
    /\ control' = [control EXCEPT ![c] = [cmd |-> cmd, ch |-> ch]]
    /\ Post(c)
    /\ UNCHANGED <<outer, inQue, frames, codec, tasks, chans, newDataOnFree, loop, pMsg,
                   pMsgTmp, freePc>>

-----------------------------------------------------------------------------
(* The link's task.                                                         *)
Head1(c) == LinkRuns /\ linkPc = "idle" /\ mbx # <<>> /\ Head(mbx) = c
Ask1(c, cmd) == c \in Caller /\ Head1(c) /\ control[c].cmd = cmd
Ack(S) == control' = [c \in Caller |-> IF c \in S THEN NoControl ELSE control[c]]

\* SYSTEM_CMD_NEW_DATA: DecLink_codecProcessData, in steps.
RecvNew ==
    /\ Head1("NEW_DATA")
    /\ mbx' = Tail(mbx) /\ newDataOnFree' = FALSE /\ linkPc' = "take"
    /\ UNCHANGED <<outer, inQue, frames, codec, tasks, chans, startChID, idx, left, tries,
                   again, ctl, freePc>>

\* DecLink_codecQueueBufsToChQue; D are the buffers it drops.
\* Mutant: the buffers of a closed channel are dropped without giving them back.
QueueBufs_keepsClosed(D) ==
    LET closed == {b \in prevFull : ~openLocal[BitCh[b]]} IN
    /\ LinkRuns /\ linkPc = "take"
    /\ D \subseteq prevFull /\ closed \subseteq D
    /\ \A b \in D \ closed : BitCh[b] \in Dropping
    /\ prev' = prev \cup (D \ closed) /\ prevFull' = {}
    /\ inQue' = [ch \in Ch |-> inQue[ch] \cup {b \in prevFull \ D : BitCh[b] = ch}]
    /\ linkPc' = "top" /\ idx' = startChID /\ left' = NumCh /\ tries' = 0 /\ again' = FALSE
    /\ UNCHANGED <<full, next, frames, codec, tasks, chans, newDataOnFree, startChID, ctl,
                   mbx, freePc>>
QueueBufs(D) ==
    LET closed == {b \in prevFull : ~openLocal[BitCh[b]]} IN
    /\ LinkRuns /\ linkPc = "take"
    /\ D \subseteq prevFull /\ closed \subseteq D
    /\ \A b \in D \ closed : BitCh[b] \in Dropping
    /\ prev' = prev \cup D /\ prevFull' = {}
    /\ inQue' = [ch \in Ch |-> inQue[ch] \cup {b \in prevFull \ D : BitCh[b] = ch}]
    /\ linkPc' = "top" /\ idx' = startChID /\ left' = NumCh /\ tries' = 0 /\ again' = FALSE
    /\ UNCHANGED <<full, next, frames, codec, tasks, chans, newDataOnFree, startChID, ctl,
                   mbx, freePc>>

\* DecLink_codecSubmitData for channel idx: note that it has no empty frame ...
Scan == <<outer, inQue, frames, codec, tasks, chans, ctl, mbx, freePc>>
Test(at, mark, on) ==
    /\ LinkRuns /\ linkPc = at
    /\ linkPc' = IF emptyQue[idx] = {} THEN mark ELSE on
    /\ UNCHANGED <<Scan, newDataOnFree, startChID, idx, left, tries, again>>
\* Mutant: a scan forgets to leave word that it stopped for want of a frame.
MarkIt_forgotten(at) ==
    /\ LinkRuns /\ linkPc = at /\ linkPc' = "try"
    /\ UNCHANGED <<Scan, newDataOnFree, startChID, idx, left, tries, again>>
MarkIt(at) ==
    /\ LinkRuns /\ linkPc = at /\ linkPc' = "try" /\ newDataOnFree' = TRUE
    /\ UNCHANGED <<Scan, startChID, idx, left, tries, again>>

\* ... pair a buffer and a frame in a request and queue it to the process task ...
MayTry == LinkRuns /\ linkPc = "try" /\ tries < PerCall[idx] /\ reqQue > 0
Submit(b, f) ==
    LET t == TskOf[idx] IN
    /\ MayTry /\ b \in inQue[idx] /\ f \in emptyQue[idx]
    /\ inQue' = [inQue EXCEPT ![idx] = @ \ {b}]
    /\ emptyQue' = [emptyQue EXCEPT ![idx] = @ \ {f}]
    /\ refs' = [refs EXCEPT ![f] = 1]
    /\ reqQue' = reqQue - 1
    /\ processQue' = [processQue EXCEPT ![t] = Append(@, [ch |-> idx, in |-> b, out |-> Org(f)])]
    /\ tries' = tries + 1 /\ again' = TRUE
    /\ UNCHANGED <<outer, fvidFrmQue, invalid, codec, doneQue, taskPc, batch,
                   chans, newDataOnFree, startChID, linkPc, idx, left, ctl, mbx, freePc>>
\* ... or go on from here the next time ...
Fail ==
    /\ MayTry /\ (inQue[idx] = {} \/ emptyQue[idx] = {})
    /\ startChID' = idx /\ tries' = tries + 1 /\ linkPc' = "retest"
    /\ UNCHANGED <<Scan, newDataOnFree, idx, left, again>>
\* ... and so for every channel, until a scan submits nothing.
NextCh ==
    LET last == left = 1 IN
    /\ LinkRuns /\ linkPc = "try" /\ (tries = PerCall[idx] \/ reqQue = 0)
    /\ tries' = 0
    /\ idx' = IF last THEN startChID ELSE (idx + 1) % NumCh
    /\ left' = IF last THEN NumCh ELSE left - 1
    /\ again' = (again /\ ~last)
    /\ linkPc' = IF last /\ ~again THEN "idle" ELSE "top"
    /\ UNCHANGED <<Scan, newDataOnFree, startChID>>
ProcessData ==
    \/ RecvNew \/ \E D \in SUBSET prevFull : QueueBufs(D)
    \/ Test("top", "mark", "try") \/ MarkIt("mark")
    \/ \E b \in Bit, f \in Frame : Submit(b, f)
    \/ Fail \/ Test("retest", "remark", "try") \/ MarkIt("remark") \/ NextCh

(* DecLink_codecGetProcessedData, m being the mailbox it leaves: buffers go *)
(* back to the previous link, frames to the next one, save those in skip.   *)
GetProcessed(m, skip) ==
    LET out == {r.out : r \in doneQue} \ {NoItem} IN
    /\ skip \subseteq {x \in out : ChOf[x[1]] \in TrickPlay}
    /\ prev' = prev \cup {r.in : r \in doneQue}
    /\ full' = full \cup (out \ skip)
    /\ FreeFrames(skip, refs) /\ Tell(m, skip, refs)
    /\ reqQue' = reqQue + Cardinality(doneQue) /\ doneQue' = {}
    /\ UNCHANGED <<next, inQue, codec, processQue, taskPc, batch, chans, freePc>>
RecvGet(skip) ==
    /\ Head1("GET_PROCESSED_DATA")
    /\ GetProcessed(Tail(mbx), skip)
    /\ UNCHANGED <<prevFull, loop, ctl>>

-----------------------------------------------------------------------------
(* Channels are deleted and created while the others run.                   *)

\* Mutant: the dummy request is not taken from the free ones.
Deleting_uncounted(c, ch, F) ==
    /\ openLocal' = [openLocal EXCEPT ![ch] = FALSE]
    /\ invalid' = invalid \cup F
    /\ prev' = prev \cup inQue[ch] /\ inQue' = [inQue EXCEPT ![ch] = {}]
    /\ processQue' = [processQue EXCEPT ![TskOf[ch]] = Append(@, Dummy(ch))]
    /\ pMsgTmp' = c
    /\ UNCHANGED <<control, reqQue>>
(* DecLink_codecDeleteChannelHandler for channel ch whose frames are F: the *)
(* answer to c is put off until the dummy request has come through.         *)
Deleting(c, ch, F) ==
    /\ openLocal' = [openLocal EXCEPT ![ch] = FALSE]
    /\ invalid' = invalid \cup F
    /\ prev' = prev \cup inQue[ch] /\ inQue' = [inQue EXCEPT ![ch] = {}]
    /\ reqQue' = reqQue - 1
    /\ processQue' = [processQue EXCEPT ![TskOf[ch]] = Append(@, Dummy(ch))]
    /\ pMsgTmp' = c
    /\ UNCHANGED control
Quiet == <<full, next, prevFull, refs, codec, doneQue, taskPc, batch, newDataOnFree,
           loop, pMsg, phase, freePc>>

\* Mutant: the command is answered at once.
RecvDeleteCh_ackNow(c) ==
    LET ch == control[c].ch IN
    /\ Ask1(c, "DELETE_CHANNEL") /\ mbx' = Tail(mbx)
    /\ openLocal' = [openLocal EXCEPT ![ch] = FALSE]
    /\ invalid' = invalid \cup outFrames[ch]
    /\ prev' = prev \cup inQue[ch] /\ inQue' = [inQue EXCEPT ![ch] = {}]
    /\ reqQue' = reqQue - 1
    /\ processQue' = [processQue EXCEPT ![TskOf[ch]] = Append(@, Dummy(ch))]
    /\ Ack({c})
    /\ UNCHANGED <<Quiet, emptyQue, fvidFrmQue, outFrames, open, pMsgTmp>>
RecvDeleteCh(c) ==
    /\ Ask1(c, "DELETE_CHANNEL") /\ mbx' = Tail(mbx)
    /\ Deleting(c, control[c].ch, outFrames[control[c].ch])
    /\ UNCHANGED <<Quiet, emptyQue, fvidFrmQue, outFrames, open>>

(* DecLink_codecCreateChannelHandler.  A fault leaves it with the frames of *)
(* K only: none if the codec has no memory ("codec"), a part of them if the *)
(* frames have none ("memory"); the channel is then deleted again.          *)
RecvCreateCh(c) ==
    LET ch == control[c].ch IN
    /\ Ask1(c, "CREATE_CHANNEL") /\ mbx' = Tail(mbx)
    /\ \/ open[ch] /\ Ack({c})
          /\ UNCHANGED <<prev, inQue, emptyQue, fvidFrmQue, invalid, reqQue, processQue,
                         chans, pMsgTmp>>
       \/ ~open[ch] /\ \E S \in SUBSET fvidFrmQue[ch] :
          /\ Cardinality(S) = OutNum[ch]
          /\ outFrames' = [outFrames EXCEPT ![ch] = S]
          /\ emptyQue' = [emptyQue EXCEPT ![ch] = S]
          /\ fvidFrmQue' = [fvidFrmQue EXCEPT ![ch] = @ \ S]
          /\ open' = [open EXCEPT ![ch] = TRUE]
          /\ openLocal' = [openLocal EXCEPT ![ch] = TRUE]
          /\ Ack({c})
          /\ UNCHANGED <<prev, inQue, invalid, reqQue, processQue, pMsgTmp>>
       \/ ~open[ch] /\ \E S, K \in SUBSET fvidFrmQue[ch] :
          /\ \/ "codec" \in Faults /\ S = {} /\ K = {} /\ UNCHANGED open
             \/ /\ "memory" \in Faults /\ Cardinality(S) = OutNum[ch]
                /\ K \subseteq S /\ K # S
                /\ open' = [open EXCEPT ![ch] = TRUE]
          /\ outFrames' = [outFrames EXCEPT ![ch] = K]
          /\ emptyQue' = [emptyQue EXCEPT ![ch] = K]
          /\ fvidFrmQue' = [fvidFrmQue EXCEPT ![ch] = @ \ S]
          /\ Deleting(c, ch, K)
    /\ UNCHANGED Quiet

\* Mutant: it answers the message at hand and not the delayed one.
RecvLate_wrongMsg ==
    /\ Head1("LATE_ACK") /\ mbx' = Tail(mbx)
    /\ Ack({pMsg}) /\ pMsgTmp' = None
    /\ UNCHANGED <<outer, inQue, frames, codec, tasks, chans, newDataOnFree, loop, pMsg,
                   phase, freePc>>
\* DEC_LINK_CMD_LATE_ACK: the delayed answer.
RecvLate ==
    /\ Head1("LATE_ACK") /\ mbx' = Tail(mbx)
    /\ Ack({pMsgTmp}) /\ pMsgTmp' = None
    /\ UNCHANGED <<outer, inQue, frames, codec, tasks, chans, newDataOnFree, loop, pMsg,
                   phase, freePc>>

\* SYSTEM_CMD_STOP and SYSTEM_CMD_DELETE: DecLink_codecStop
\* (which wakes process tasks that have nothing to do, and go back to wait) ...
RecvStop(c) ==
    /\ Ask1(c, "STOP") \/ Ask1(c, "DELETE")
    /\ mbx' = Tail(mbx) /\ pMsg' = c /\ linkPc' = "stop"
    /\ UNCHANGED <<outer, inQue, frames, codec, tasks, chans, newDataOnFree, startChID, idx,
                   left, tries, again, pMsgTmp, control, phase, freePc>>
\* ... collects requests until all are back (Utils_tskWaitCmd acknowledges any
\* other command and forgets it) ...
Stopping == LinkRuns /\ linkPc = "stop"
StopGet(skip) ==
    /\ Stopping /\ reqQue < NumReq /\ mbx # <<>> /\ Head(mbx) = "GET_PROCESSED_DATA"
    /\ GetProcessed(Tail(mbx), skip)
    /\ UNCHANGED <<prevFull, loop, ctl>>
StopDrop ==
    /\ Stopping /\ reqQue < NumReq /\ mbx # <<>> /\ Head(mbx) # "GET_PROCESSED_DATA"
    /\ mbx' = Tail(mbx) /\ Ack({Head(mbx)})
    /\ UNCHANGED <<outer, inQue, frames, codec, tasks, chans, newDataOnFree, loop, pMsg,
                   pMsgTmp, phase, freePc>>
\* Utils_queUnBlock for each process task: it leaves a get it waits in, and ends,
\* now that the state is SYSTEM_LINK_STATE_STOP.
Unblock == taskPc' = [t \in Tsk |-> IF taskPc[t] = "get" /\ processQue[t] = <<>>
                                   THEN "end" ELSE taskPc[t]]
\* ... and returns what the previous link has queued in between.
Stopped ==
    /\ Stopping /\ reqQue = NumReq
    /\ prev' = prev \cup prevFull /\ prevFull' = {}
    /\ IF control[pMsg].cmd = "DELETE"
       THEN linkPc' = "join" /\ Unblock /\ UNCHANGED <<pMsg, control>>
       ELSE linkPc' = "idle" /\ pMsg' = None /\ Ack({pMsg}) /\ UNCHANGED taskPc
    /\ UNCHANGED <<full, next, inQue, frames, codec, reqQue, processQue, doneQue,
                   batch, chans, newDataOnFree, startChID, idx, left, tries, again,
                   pMsgTmp, phase, mbx, freePc>>
\* DecLink_codecDelete: the process tasks have been unblocked once and must end.
Join ==
    /\ LinkRuns /\ linkPc = "join" /\ \A t \in Tsk : taskPc[t] = "end"
    /\ linkPc' = "gone" /\ Ack({pMsg}) /\ pMsg' = None
    /\ UNCHANGED <<outer, inQue, frames, codec, tasks, chans, newDataOnFree, startChID, idx,
                   left, tries, again, pMsgTmp, phase, mbx, freePc>>

LinkTask ==
    \/ ProcessData
    \/ \E skip \in SUBSET {r.out : r \in doneQue} : RecvGet(skip) \/ StopGet(skip)
    \/ \E c \in Caller : RecvDeleteCh(c) \/ RecvCreateCh(c) \/ RecvStop(c)
    \/ RecvLate \/ StopDrop \/ Stopped \/ Join

-----------------------------------------------------------------------------
(* A process task: DecLink_codecProcessTskFxn.                              *)

\* The first n requests of q go to the codec in one call (DecLink_PrepareBatch).
IsBatch(q, n) ==
    /\ n <= MaxBatch
    /\ \A i \in 2 .. n : /\ q[i].in # None /\ {q[1].ch, q[i].ch} \cap Alone = {}
                         /\ Kind[q[i].ch] = Kind[q[1].ch]
                         /\ \A j \in 1 .. i - 1 : q[j].ch # q[i].ch
BatchLen(q) == CHOOSE n \in 1 .. Len(q) : /\ IsBatch(q, n)
                                          /\ n = Len(q) \/ ~IsBatch(q, n + 1)
Again == IF linkPc = "join" THEN "end" ELSE "get"
Get(t) ==
    LET q == processQue[t]
        dummy == q[1].in = None
        n == IF dummy THEN 1 ELSE BatchLen(q) IN
    /\ Ready(t)
    /\ processQue' = [processQue EXCEPT ![t] = SubSeq(q, n + 1, Len(q))]
    /\ batch' = [batch EXCEPT ![t] = SubSeq(q, 1, n)]
    /\ taskPc' = [taskPc EXCEPT ![t] = IF dummy THEN "flush" ELSE "codec"]
    /\ UNCHANGED <<outer, inQue, frames, codec, reqQue, doneQue, chans, newDataOnFree,
                   loop, ctl, mbx, freePc>>

(* The codec returns.  It decoded each request of the batch into its frame, *)
(* or into the one it still had in use (then the new frame is free at       *)
(* once), lets go of the frames in free, puts out those in show - a frame   *)
(* that it also lets go of itself, another one as a duplicate - and goes on *)
(* filling those in use after the first field of a picture.                 *)
Channels(t) == {batch[t][i].ch : i \in DOMAIN batch[t]}
New(t) == {batch[t][i].out[1] : i \in DOMAIN batch[t]}
Held(t) == (UNION {locked[ch] : ch \in Channels(t)})
           \cup {f \in New(t) : inUse[ChOf[f]] = None}
FirstField(t) == {f \in New(t) : PerCall[ChOf[f]] = 2 /\ inUse[ChOf[f]] = None}
Outcome(t, free, show, use) ==
    /\ use \cap free = {}
    /\ \A ch \in Channels(t) :
        /\ Cardinality((Held(t) \ free) \cap Frames(ch)) <= CodecKeeps[ch]
        /\ Cardinality(show \cap Frames(ch)) <= 1 /\ show \cap shown[ch] = {}
\* Mutant: the reference of a duplicate is not counted.
Counted_never(t, free, show) == refs
Counted(t, free, show) ==
    [f \in Frame |-> refs[f] + IF f \in show \ free THEN 1 ELSE 0]
Decode(t, free, show, use) ==
    LET early == {f \in New(t) : inUse[ChOf[f]] # None}
        gone == {Org(f) : f \in (free \ show) \cup early}
        R == Counted(t, free, show)
        Put(ch) == {f \in show : ChOf[f] = ch}
        Item1(ch) == IF Put(ch) = {} THEN NoItem
                     ELSE CHOOSE x \in Item : x[1] \in Put(ch) /\ x[2] = (x[1] \notin free)
        used(ch) == {f \in use : ChOf[f] = ch} IN
    /\ Outcome(t, free, show, use)
    /\ locked' = [ch \in Ch |-> IF ch \in Channels(t)
                                THEN (Held(t) \ free) \cap Frames(ch) ELSE locked[ch]]
    /\ shown' = [ch \in Ch |-> (shown[ch] \cup Put(ch)) \cap locked'[ch]]
    /\ inUse' = [ch \in Ch |-> IF ch \notin Channels(t) THEN inUse[ch]
                               ELSE IF used(ch) = {} THEN None ELSE CHOOSE f \in used(ch) : TRUE]
    /\ doneQue' = doneQue \cup {[batch[t][i] EXCEPT !.out = Item1(batch[t][i].ch)] : i \in DOMAIN batch[t]}
    /\ batch' = [batch EXCEPT ![t] = <<>>]
    /\ taskPc' = [taskPc EXCEPT ![t] = Again]
    /\ FreeFrames(gone, R) /\ Tell(mbx, gone, R)
    /\ UNCHANGED <<outer, inQue, reqQue, processQue, chans, loop, ctl, freePc>>

(* DecLink_codecFlushNDeleteChannel for a dummy request: the codec lets go  *)
(* of its frames and is deleted, the empty headers leave the channel, and   *)
(* the link's task is told to send the answer.                              *)
Flush(t) ==
    LET ch == batch[t][1].ch
        mine == IF open[ch] THEN locked[ch] ELSE {}
        gone == Gone({Org(f) : f \in mine}, refs) \cup emptyQue[ch] IN
    /\ taskPc[t] = "flush"
    /\ refs' = [f \in Frame |-> refs[f] - IF f \in mine THEN 1 ELSE 0]
    /\ emptyQue' = [emptyQue EXCEPT ![ch] = {}]
    /\ fvidFrmQue' = [fvidFrmQue EXCEPT ![ch] = @ \cup gone]
    /\ invalid' = invalid \ gone
    /\ locked' = [locked EXCEPT ![ch] = {}] /\ shown' = [shown EXCEPT ![ch] = {}]
    /\ inUse' = [inUse EXCEPT ![ch] = None]
    /\ open' = [open EXCEPT ![ch] = FALSE] /\ openLocal' = [openLocal EXCEPT ![ch] = FALSE]
    /\ reqQue' = reqQue + 1 /\ batch' = [batch EXCEPT ![t] = <<>>]
    /\ taskPc' = [taskPc EXCEPT ![t] = Again]
    /\ Post("LATE_ACK")
    /\ UNCHANGED <<outer, inQue, processQue, doneQue, outFrames, newDataOnFree,
                   loop, ctl, freePc>>
ProcessTask(t) == Get(t) \/ Flush(t)
                  \/ /\ taskPc[t] = "codec"
                     /\ \E free, show \in SUBSET Held(t), use \in SUBSET FirstField(t) :
                        Decode(t, free, show, use)

NextLink == \/ GetFullFrames \/ \E S \in SUBSET next : PutEmptyFrames(S)
            \/ PutEmptySend \/ PutEmptyClear
Callers == \E c \in Caller, cmd \in {"CREATE_CHANNEL", "DELETE_CHANNEL", "STOP", "DELETE"},
              ch \in Ch : Ask(c, cmd, ch)

Done == linkPc = "gone" /\ UNCHANGED vars
Next == \/ LinkTask \/ \E t \in Tsk : ProcessTask(t)
        \/ NextLink \/ (\E b \in Bit : Fill(b)) \/ Tick \/ Callers
        \/ Done
Spec == Init /\ [][Next]_vars
-----------------------------------------------------------------------------
(* Safety.                                                                  *)

AtTasks == UNION {{processQue[t][i] : i \in DOMAIN processQue[t]}
                   \cup {batch[t][i] : i \in DOMAIN batch[t]} : t \in Tsk}
Outside == full \cup next \cup ({r.out : r \in doneQue} \ {NoItem})

(* vdecRefCount of a frame counts those who have it: the request on its way *)
(* to the codec or the codec, and every item of it further on.  Only then   *)
(* is a frame empty exactly when nobody reads or writes it any more.  The   *)
(* assertions on the count and on the pool of duplicates never fail         *)
(* (decLink_common.c:831, 2069).                                            *)
RefsHeld ==
    /\ \A f \in Frame :
        LET writer == \/ \E r \in AtTasks : r.out = Org(f)
                      \/ f \in locked[ChOf[f]] IN
        /\ refs[f] = (IF writer THEN 1 ELSE 0) + Cardinality({x \in Outside : x[1] = f})
        /\ refs[f] > 0 => f \notin emptyQue[ChOf[f]] \cup fvidFrmQue[ChOf[f]]
    /\ Cardinality({x \in Outside : x[2]}) <= NumDup

BitPlaces(b) ==
    [prev     |-> {b} \cap prev,
     prevFull |-> {b} \cap prevFull,
     inQue    |-> {ch \in Ch : b \in inQue[ch]},
     tasks    |-> {r \in AtTasks : r.in = b},
     doneQue  |-> {r \in doneQue : r.in = b}]

(* Every request object is in one queue or with one task, so that it is     *)
(* there for a STOP that waits for them all, and every buffer is with the   *)
(* previous link, queued, or in one request.                                *)
RequestsKept ==
    /\ NumReq = reqQue + Cardinality(AtTasks) + Cardinality(doneQue)
    /\ \A b \in Bit : Cardinality(Tagged(BitPlaces(b))) = 1

(* When the link's task goes back to its mailbox with no word of new data,  *)
(* a buffer is left waiting only for want of a frame, and whoever returns   *)
(* one will send word (newDataProcessOnFrameFree, decLink_common.c:1445).   *)
NoStrandedInput ==
    linkPc = "idle" /\ freePc = "idle" /\ phase = "run"
    /\ (\A i \in DOMAIN mbx : mbx[i] # "NEW_DATA") /\ (\A t \in Tsk : taskPc[t] = "get")
    => /\ prevFull = {}
       /\ \A ch \in Ch : inQue[ch] # {} => emptyQue[ch] = {} /\ newDataOnFree

(* Once DELETE_CHANNEL is answered, nothing of the channel is left in the   *)
(* link: no buffer, no request, no frame of the codec; every header is back *)
(* in its pool, but for those the next link still has, which will go there. *)
(* CREATE_CHANNEL relies on it (assertions at decLink_common.c:414, 2507).  *)
ClosedMeansDrained ==
    \A ch \in Ch : ~open[ch] /\ (\A c \in Caller : control[c].ch = ch =>
                                    pMsgTmp # c /\ control[c].cmd # "DELETE_CHANNEL") =>
        /\ inQue[ch] = {} /\ locked[ch] = {} /\ emptyQue[ch] = {}
        /\ \A r \in AtTasks : r.ch # ch
        /\ \A f \in Frames(ch) : IF refs[f] > 0 THEN f \in invalid ELSE f \in fvidFrmQue[ch]

-----------------------------------------------------------------------------
(* Liveness.  All tasks are scheduled; the link's, the lowest, runs because *)
(* those above it rest again and again.  The clock ticks.                   *)
Fairness ==
    /\ WF_vars(LinkTask) /\ WF_vars(\E t \in Tsk : ProcessTask(t)) /\ WF_vars(Tick)
    /\ SF_vars(GetFullFrames) /\ WF_vars(PutEmptySend \/ PutEmptyClear)
    /\ \A f \in Frame : SF_vars(PutEmptyFrames({x \in next : x[1] = f}))
FairSpec == Spec /\ Fairness

(* Every control command is answered: also a DELETE_CHANNEL, whose answer   *)
(* has to wait for the dummy request and its LATE_ACK, and a STOP and a     *)
(* DELETE, which wait for every request and for the process tasks to end.   *)
Answered == \A c \in Caller : []<>(control[c] = NoControl)

(* As long as the link is not stopped, every buffer the previous link fills *)
(* comes back to it, whatever the next link does with the frames.           *)
InputsComeBack == \A b \in Bit : []<>(b \in prev \/ phase # "run")
=============================================================================
