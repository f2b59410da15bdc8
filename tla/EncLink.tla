------------------------------ MODULE EncLink ------------------------------
(* The encode link, src_bios6/links_m3video/iva_enc/encLink_common.c and    *)
(* encLink_tsk.c.                                                           *)
(*                                                                          *)
(* The link's task (priority 2) sorts the frames of the previous link into  *)
(* queues, one a channel, pairs them with bit buffers in request objects    *)
(* and queues those to process tasks (priority 13), which run the codec and *)
(* queue the finished requests back.  A periodic clock tells the link's     *)
(* task to collect those.  When there is no bit buffer, or the queue of a   *)
(* process task is full, a picture is left out: it goes back uncoded.       *)
(* A picture is one frame, or the two fields of one on the channels of      *)
(* Merge (fieldMergeEncodeEnable).                                          *)
(*                                                                          *)
(* All tasks share one processor: the link's task runs when no process task *)
(* can, and is interrupted between any two of its steps.  A process task    *)
(* waits in a queue get and while the codec works, nowhere else.            *)
EXTENDS Integers, Sequences, FiniteSets, SequencesExt

CONSTANTS NumCh,        \* inQueInfo.numCh
          Tsk, TskOf,   \* the process tasks, and ch2ProcessTskId
          Frame, ChOf,  \* the frames of the previous link, and their channel
          Fids,         \* Fids[f]: the fields frame f may hold
          Bit, PoolOf,  \* the bit buffers, and their allocPoolID
          PoolCh,       \* ch2poolMap
          Merge,        \* the channels whose pictures come as two fields
          PerCall,      \* numReqObjPerProcess
          Skipping,     \* the channels whose frames may be skipped or that may be disabled
          Kind,         \* Kind[ch]: codec and scan format, which a batch shares
          BatchMax,     \* BatchMax[ch]: how many channels a batch that begins with ch may have
          Alone,        \* the channels of a resolution that never joins a batch
          NumReq,       \* ENC_LINK_MAX_REQ
          QueMax,       \* ENC_LINK_MAX_OUT_FRAMES / NUM_HDVICP_RESOURCES
          ListMax,      \* FVID2_MAX_FVID_FRAME_PTR, VIDBITSTREAM_MAX_BITSTREAM_BUFS
          Caller,       \* those who send control commands and wait for the answer
          FillMax,      \* the frames the previous link gives at a time
          MbxBound,     \* the data commands of one kind that may be queued
          None

Ch == 0 .. NumCh - 1

ASSUME EncChannelAssumption ==
    /\ NumCh \in Nat \ {0} /\ TskOf \in [Ch -> Tsk] /\ IsFiniteSet(Tsk)
    /\ ChOf \in [Frame -> Ch] /\ Merge \subseteq Ch /\ Skipping \subseteq Ch
    /\ PerCall \in [Ch -> {1, 2}] /\ \A ch \in Merge : PerCall[ch] = 1
    /\ \A f \in Frame : Fids[f] # {} /\ Fids[f] \subseteq {"top", "bottom", "frame"}
    /\ \A f \in Frame : ChOf[f] \in Merge => "frame" \notin Fids[f]
    /\ BatchMax \in [Ch -> Nat \ {0}] /\ Alone \subseteq Ch
\* There are as many request objects as there can be bit buffers (line 453).
ASSUME EncBufferAssumption ==
    /\ IsFiniteSet(Frame) /\ IsFiniteSet(Bit) /\ DOMAIN PoolOf = Bit /\ DOMAIN PoolCh = Ch
    /\ NumReq \in Nat /\ NumReq >= Cardinality(Bit)
    /\ QueMax \in Nat \ {0} /\ ListMax \in Nat /\ ListMax > 1 /\ FillMax \in Nat \ {0}
    /\ MbxBound \in Nat \ {0}
ASSUME EncNoneAssumption == {"NEW_DATA", "GET_PROCESSED_DATA", None} \cap Caller = {}

\* InFrameList.numFrames
Size == [ch \in Ch |-> IF ch \in Merge THEN 2 ELSE 1]
Fid == {"top", "bottom", "frame"}
Other(p) == IF p = "top" THEN "bottom" ELSE "top"
Request == [ch : Ch, in : Seq(Frame), out : Bit]
Cmd == {"NEW_DATA", "GET_PROCESSED_DATA"} \cup Caller

VARIABLES
    prev, prevFull,     \* the previous link: frames it may fill, its full queue
    fid,                \* fid of each frame
    emptyQue, fullQue,  \* the bit buffers: empty ones, requests whose buffers are full
    next,               \* the buffers the next link holds
    nextFid,            \* nextFid of the channels of Merge
    inQue,              \* inQue[ch]
    reqQue, processQue, doneQue,   \* the number in reqQue, the requests in the others
    taskPc, batch,      \* each process task and what it works on
    linkPc, idx, tries, freeList,       \* the link's task and its loops
    pMsg,               \* the control message at hand
    mbx,                \* its mailbox
    control, phase      \* what each caller waits for; the life of the link

outer == <<prev, prevFull, fid>>
bits == <<emptyQue, fullQue, next>>
chans == <<nextFid, inQue>>
tasks == <<processQue, doneQue, taskPc, batch>>
loop == <<linkPc, idx, tries, freeList>>
ctl == <<pMsg, control, phase>>
vars == <<outer, bits, chans, reqQue, tasks, loop, ctl, mbx>>

TypeOK ==
    /\ prev \subseteq Frame /\ prevFull \in Seq(Frame) /\ fid \in [Frame -> Fid]
    /\ emptyQue \subseteq Bit /\ fullQue \in Seq(Request) /\ next \subseteq Bit
    /\ nextFid \in [Merge -> {"top", "bottom"}] /\ inQue \in [Ch -> Seq(Frame)]
    /\ reqQue \in 0 .. NumReq /\ doneQue \in Seq(Request)
    /\ processQue \in [Tsk -> Seq(Request)] /\ batch \in [Tsk -> Seq(Request)]
    /\ \A t \in Tsk : Len(processQue[t]) <= QueMax
    /\ taskPc \in [Tsk -> {"get", "codec", "end"}]
    /\ linkPc \in {"idle", "submit", "stop", "join", "gone"}
    /\ idx \in Ch /\ tries \in 0 .. 1 /\ freeList \subseteq Frame
    /\ pMsg \in Caller \cup {None} /\ mbx \in Seq(Cmd)
    /\ control \in [Caller -> {"none", "STOP", "DELETE"}] /\ phase \in {"run", "stop", "delete"}

-----------------------------------------------------------------------------
(* After EncLink_codecCreate: all bit buffers are empty, all requests free. *)
Init ==
    /\ prev = Frame /\ prevFull = <<>>
    /\ fid = [f \in Frame |-> CHOOSE p \in Fids[f] : TRUE]
    /\ emptyQue = Bit /\ fullQue = <<>> /\ next = {}
    /\ nextFid = [ch \in Merge |-> "top"] /\ inQue = [ch \in Ch |-> <<>>]
    /\ reqQue = NumReq /\ doneQue = <<>>
    /\ processQue = [t \in Tsk |-> <<>>] /\ batch = [t \in Tsk |-> <<>>]
    /\ taskPc = [t \in Tsk |-> "get"]
    /\ linkPc = "idle" /\ idx = 0 /\ tries = 0 /\ freeList = {}
    /\ pMsg = None /\ mbx = <<>>
    /\ control = [c \in Caller |-> "none"] /\ phase = "run"

Ready(t) == taskPc[t] = "get" /\ processQue[t] # <<>>
LowRuns == \A t \in Tsk : ~Ready(t)
LinkAt(p) == LowRuns /\ linkPc = p

Post(c) == mbx' = Append(mbx, c)
MayPost(c) == Cardinality({i \in DOMAIN mbx : mbx[i] = c}) < MbxBound
Ack(S) == control' = [c \in Caller |-> IF c \in S THEN "none" ELSE control[c]]
Head1(c) == mbx # <<>> /\ Head(mbx) = c

-----------------------------------------------------------------------------
(* The neighbours, and the clock.                                           *)

\* The previous link fills some frames and says so, also while this one stops.
Lists == {s \in BoundedSeq(prev, FillMax) : s # <<>> /\ IsInjective(s)}
Fill(s) ==
    /\ phase # "delete" /\ MayPost("NEW_DATA") /\ Post("NEW_DATA")
    /\ prev' = prev \ ToSet(s) /\ prevFull' = prevFull \o s
    /\ \E p \in [ToSet(s) -> Fid] :
          /\ \A f \in ToSet(s) : p[f] \in Fids[f]
          /\ fid' = [f \in Frame |-> IF f \in ToSet(s) THEN p[f] ELSE fid[f]]
    /\ UNCHANGED <<bits, chans, reqQue, tasks, loop, ctl>>

\* EncLink_getFullBufs and EncLink_putEmptyBufs, called by the next link.
GetFullBufs ==
    /\ LowRuns /\ fullQue # <<>> /\ linkPc # "gone"
    /\ next' = next \cup {fullQue[i].out : i \in DOMAIN fullQue} /\ fullQue' = <<>>
    /\ UNCHANGED <<outer, emptyQue, chans, reqQue, tasks, loop, ctl, mbx>>
PutEmptyBufs(S) ==
    /\ LowRuns /\ S # {} /\ S \subseteq next /\ linkPc # "gone"
    /\ next' = next \ S /\ emptyQue' = emptyQue \cup S
    /\ UNCHANGED <<outer, fullQue, chans, reqQue, tasks, loop, ctl, mbx>>

\* EncLink_codecPrdCalloutFcn, until EncLink_codecDelete stops the clock.
Tick ==
    /\ linkPc \notin {"join", "gone"} /\ MayPost("GET_PROCESSED_DATA")
    /\ Post("GET_PROCESSED_DATA")
    /\ UNCHANGED <<outer, bits, chans, reqQue, tasks, loop, ctl>>

\* A host task stops the link, and deletes it when its buffers are back.
Ask(c, cmd) ==
    /\ control[c] = "none"
    /\ \/ cmd = "STOP" /\ phase = "run" /\ phase' = "stop"
       \/ /\ cmd = "DELETE" /\ phase = "stop" /\ phase' = "delete"
          /\ \A d \in Caller : control[d] = "none"
          /\ fullQue = <<>> /\ next = {}
    /\ control' = [control EXCEPT ![c] = cmd] /\ Post(c)
    /\ UNCHANGED <<outer, bits, chans, reqQue, tasks, loop, pMsg>>

-----------------------------------------------------------------------------
(* The link's task.                                                         *)

(* EncLink_codecQueueFramesToChQue, frame by frame: one that is not of the  *)
(* field that is due, or that is skipped, goes back; the other field is due *)
(* after one that was due, skipped or not.                                  *)
Sorted(a, f, skip) ==
    LET ch == ChOf[f]
        due == ch \notin Merge \/ a.due[ch] = fid[f] IN
    [due |-> IF due /\ ch \in Merge THEN [a.due EXCEPT ![ch] = Other(@)] ELSE a.due,
     in |-> IF due /\ f \notin skip THEN [a.in EXCEPT ![ch] = Append(@, f)] ELSE a.in,
     back |-> IF due /\ f \notin skip THEN a.back ELSE a.back \cup {f}]
SortAll(skip) ==
    LET sorted[n \in 0 .. Len(prevFull)] ==
            IF n = 0 THEN [due |-> nextFid, in |-> inQue, back |-> {}]
            ELSE Sorted(sorted[n - 1], prevFull[n], skip)
    IN  sorted[Len(prevFull)]
\* SYSTEM_CMD_NEW_DATA: EncLink_codecProcessData, up to its loop.
QueueFrames ==
    /\ LinkAt("idle") /\ Head1("NEW_DATA") /\ mbx' = Tail(mbx)
    /\ \E skip \in SUBSET {f \in ToSet(prevFull) : ChOf[f] \in Skipping} :
          LET a == SortAll(skip) IN
          nextFid' = a.due /\ inQue' = a.in /\ prev' = prev \cup a.back
    /\ prevFull' = <<>>
    /\ linkPc' = "submit" /\ idx' = 0 /\ tries' = 0
    /\ UNCHANGED <<fid, bits, reqQue, tasks, freeList, ctl>>

(* EncLink_codecSubmitData, one turn of its inner loop an action.  For      *)
(* every channel, up to PerCall times; what is left out goes back after the *)
(* last channel, and all channels are gone over again if the very last      *)
(* thing was a submission.                                                  *)
Trying == LinkAt("submit")
Advance(turns, submitted, out) ==
    LET more == turns < PerCall[idx]
        last == ~more /\ idx = NumCh - 1 IN
    /\ tries' = (IF more THEN turns ELSE 0)
    /\ idx' = (IF more THEN idx ELSE (idx + 1) % NumCh)
    /\ linkPc' = (IF last /\ ~submitted THEN "idle" ELSE "submit")
    /\ freeList' = (IF last THEN {} ELSE freeList \cup out)
    /\ prev' = (IF last THEN prev \cup freeList \cup out ELSE prev)

\* There is no request object: leave the channel.
NoRequest ==
    /\ Trying /\ reqQue = 0
    /\ Advance(PerCall[idx], FALSE, {})
    /\ UNCHANGED <<prevFull, fid, bits, chans, reqQue, tasks, ctl, mbx>>

Enough == Len(inQue[idx]) >= Size[idx]
Picture == SubSeq(inQue[idx], 1, Size[idx])
Rest == SubSeq(inQue[idx], Size[idx] + 1, Len(inQue[idx]))
Room == Len(processQue[TskOf[idx]]) < QueMax
Empty == {b \in emptyQue : PoolOf[b] = PoolCh[idx]}

\* Mutant: the request goes to the process task that has least to do.
Submit_shortest(b) ==
    LET t == CHOOSE u \in Tsk : \A v \in Tsk : Len(processQue[u]) + Len(batch[u])
                                               <= Len(processQue[v]) + Len(batch[v]) IN
    /\ Trying /\ reqQue > 0 /\ Enough /\ Room /\ b \in Empty
    /\ inQue' = [inQue EXCEPT ![idx] = Rest]
    /\ emptyQue' = emptyQue \ {b} /\ reqQue' = reqQue - 1
    /\ processQue' = [processQue EXCEPT ![t] =
                         Append(@, [ch |-> idx, in |-> Picture, out |-> b])]
    /\ Advance(tries + 1, TRUE, {})
    /\ UNCHANGED <<prevFull, fid, fullQue, next, nextFid, doneQue, taskPc, batch, ctl, mbx>>
\* Queue a picture and a buffer to the process task of the channel ...
Submit(b) ==
    LET t == TskOf[idx] IN
    /\ Trying /\ reqQue > 0 /\ Enough /\ Room /\ b \in Empty
    /\ inQue' = [inQue EXCEPT ![idx] = Rest]
    /\ emptyQue' = emptyQue \ {b} /\ reqQue' = reqQue - 1
    /\ processQue' = [processQue EXCEPT ![t] =
                         Append(@, [ch |-> idx, in |-> Picture, out |-> b])]
    /\ Advance(tries + 1, TRUE, {})
    /\ UNCHANGED <<prevFull, fid, fullQue, next, nextFid, doneQue, taskPc, batch, ctl, mbx>>

\* Mutant: the request object of a dropped picture is not put back.
Drop_keepsRequest ==
    /\ Trying /\ reqQue > 0 /\ Enough /\ (~Room \/ Empty = {})
    /\ inQue' = [inQue EXCEPT ![idx] = Rest] /\ reqQue' = reqQue - 1
    /\ Advance(tries + 1, FALSE, ToSet(Picture))
    /\ UNCHANGED <<prevFull, fid, bits, nextFid, tasks, ctl, mbx>>
\* Mutant: one field of the picture is dropped.
Drop_oneField ==
    /\ Trying /\ reqQue > 0 /\ Enough /\ (~Room \/ Empty = {})
    /\ inQue' = [inQue EXCEPT ![idx] = Tail(@)]
    /\ Advance(tries + 1, FALSE, {Head(inQue[idx])})
    /\ UNCHANGED <<prevFull, fid, bits, nextFid, reqQue, tasks, ctl, mbx>>
\* ... or leave it out, for want of a buffer or of room ...
Drop ==
    /\ Trying /\ reqQue > 0 /\ Enough /\ (~Room \/ Empty = {})
    /\ inQue' = [inQue EXCEPT ![idx] = Rest]
    /\ Advance(tries + 1, FALSE, ToSet(Picture))
    /\ UNCHANGED <<prevFull, fid, bits, nextFid, reqQue, tasks, ctl, mbx>>
\* ... or do nothing, there being no whole picture.
Nothing ==
    /\ Trying /\ reqQue > 0 /\ ~Enough
    /\ Advance(tries + 1, FALSE, {})
    /\ UNCHANGED <<prevFull, fid, bits, chans, reqQue, tasks, ctl, mbx>>
SubmitData == NoRequest \/ (\E b \in Bit : Submit(b)) \/ Drop \/ Nothing

(* EncLink_codecGetProcessedData: as many finished requests as the two      *)
(* lists hold, buffers to the full queue and frames back.  The test is made *)
(* before a request is taken, which may bring two frames.                   *)
Frames(q) == FlattenSeq([i \in DOMAIN q |-> q[i].in])
Used(R) == UNION {ToSet(r.in) : r \in R}
Fits(n) == \A k \in 0 .. n - 1 : /\ k < ListMax - 1
                                 /\ Len(Frames(SubSeq(doneQue, 1, k))) < ListMax - 1
GetProcessed ==
    LET n == CHOOSE k \in 0 .. Len(doneQue) : Fits(k) /\ (k = Len(doneQue) \/ ~Fits(k + 1))
        done == SubSeq(doneQue, 1, n) IN
    /\ Head1("GET_PROCESSED_DATA") /\ mbx' = Tail(mbx)
    /\ doneQue' = SubSeq(doneQue, n + 1, Len(doneQue)) /\ reqQue' = reqQue + n
    /\ fullQue' = fullQue \o done /\ prev' = prev \cup Used(ToSet(done))
    /\ UNCHANGED <<prevFull, fid, emptyQue, next, chans, processQue, taskPc, batch, loop, ctl>>
RecvGet == LinkAt("idle") /\ GetProcessed

\* SYSTEM_CMD_STOP and SYSTEM_CMD_DELETE: EncLink_codecStop.  It unblocks the
\* process tasks, which go once around their loop and wait again, ...
RecvStop(c) ==
    /\ LinkAt("idle") /\ Head1(c) /\ mbx' = Tail(mbx)
    /\ pMsg' = c /\ linkPc' = "stop"
    /\ UNCHANGED <<outer, bits, chans, reqQue, tasks, idx, tries, freeList, control, phase>>
\* ... collects requests until all are back (Utils_tskWaitCmd acknowledges any
\* other command and forgets it) ...
Collecting == LinkAt("stop") /\ reqQue < NumReq
\* Mutant: the command is acknowledged, but nothing is collected.
StopGet_forgets ==
    /\ Collecting /\ Head1("GET_PROCESSED_DATA") /\ mbx' = Tail(mbx)
    /\ UNCHANGED <<outer, bits, chans, reqQue, tasks, loop, ctl>>
StopGet == Collecting /\ GetProcessed
StopDrop ==
    /\ Collecting /\ mbx # <<>> /\ ~Head1("GET_PROCESSED_DATA")
    /\ mbx' = Tail(mbx) /\ Ack({Head(mbx)})
    /\ UNCHANGED <<outer, bits, chans, reqQue, tasks, loop, pMsg, phase>>
\* ... and returns what the previous link has queued in between, but not what
\* waits in inQue.  EncLink_codecDelete then wakes the process tasks.
Unblock == taskPc' = [t \in Tsk |-> IF taskPc[t] = "get" THEN "end" ELSE taskPc[t]]
Stopped ==
    /\ LinkAt("stop") /\ reqQue = NumReq
    /\ prev' = prev \cup ToSet(prevFull) /\ prevFull' = <<>>
    /\ IF control[pMsg] = "DELETE"
       THEN linkPc' = "join" /\ Unblock /\ UNCHANGED <<pMsg, control>>
       ELSE linkPc' = "idle" /\ pMsg' = None /\ Ack({pMsg}) /\ UNCHANGED taskPc
    /\ UNCHANGED <<fid, bits, chans, reqQue, processQue, doneQue, batch, idx, tries,
                   freeList, phase, mbx>>
\* The process tasks have been unblocked once and must end.
Join ==
    /\ LinkAt("join") /\ \A t \in Tsk : taskPc[t] = "end"
    /\ linkPc' = "gone" /\ Ack({pMsg}) /\ pMsg' = None
    /\ UNCHANGED <<outer, bits, chans, reqQue, tasks, idx, tries, freeList, phase, mbx>>

LinkTask ==
    \/ QueueFrames \/ SubmitData \/ RecvGet \/ (\E c \in Caller : RecvStop(c))
    \/ StopGet \/ StopDrop \/ Stopped \/ Join

-----------------------------------------------------------------------------
(* A process task: EncLink_codecProcessTskFxn.                              *)

\* The first n requests of q make a batch (EncLink_PrepareBatch).
IsBatch(q, n) ==
    /\ n <= BatchMax[q[1].ch] \/ n = 1
    /\ \A i \in 2 .. n : /\ q[i].ch \notin Alone /\ Kind[q[i].ch] = Kind[q[1].ch]
                         /\ \A j \in 1 .. i - 1 : q[j].ch # q[i].ch
BatchLen(q) == CHOOSE n \in 1 .. Len(q) : /\ IsBatch(q, n)
                                          /\ n = Len(q) \/ ~IsBatch(q, n + 1)
Get(t) ==
    LET q == processQue[t]
        n == BatchLen(q) IN
    /\ Ready(t)
    /\ processQue' = [processQue EXCEPT ![t] = SubSeq(q, n + 1, Len(q))]
    /\ batch' = [batch EXCEPT ![t] = SubSeq(q, 1, n)]
    /\ taskPc' = [taskPc EXCEPT ![t] = "codec"]
    /\ UNCHANGED <<outer, bits, chans, reqQue, doneQue, loop, ctl, mbx>>

\* The codec returns; the requests are done, whatever it says.
Encode(t) ==
    /\ taskPc[t] = "codec"
    /\ doneQue' = doneQue \o batch[t] /\ batch' = [batch EXCEPT ![t] = <<>>]
    /\ taskPc' = [taskPc EXCEPT ![t] = IF linkPc = "join" THEN "end" ELSE "get"]
    /\ UNCHANGED <<outer, bits, chans, reqQue, processQue, loop, ctl, mbx>>

NextLink == GetFullBufs \/ \E S \in SUBSET next : PutEmptyBufs(S)
Done == linkPc = "gone" /\ UNCHANGED vars
Next == \/ LinkTask \/ (\E t \in Tsk : Get(t) \/ Encode(t))
        \/ NextLink \/ (\E s \in Lists : Fill(s)) \/ Tick
        \/ (\E c \in Caller, cmd \in {"STOP", "DELETE"} : Ask(c, cmd))
        \/ Done
Spec == Init /\ [][Next]_vars

-----------------------------------------------------------------------------
(* Safety.                                                                  *)

AtTask(t) == batch[t] \o processQue[t]
Requests == ToSet(doneQue) \cup UNION {ToSet(AtTask(t)) : t \in Tsk}
Places(s, x) == Cardinality({i \in DOMAIN s : s[i] = x})

(* Frames, bit buffers and request objects are conserved: each frame is in  *)
(* one queue, one request or one list, each buffer empty, in one request,   *)
(* full, or with the next link, and each request object free or in use      *)
(* once - through every way out of the submission and through a stop, which *)
(* waits for all request objects to come back (encLink_common.c:1652).      *)
BuffersKept ==
    /\ TypeOK
    /\ \A f \in Frame :
        1 = (IF f \in prev THEN 1 ELSE 0) + (IF f \in freeList THEN 1 ELSE 0)
            + Places(prevFull, f) + Places(inQue[ChOf[f]], f)
            + Cardinality({r \in Requests : f \in ToSet(r.in)})
    /\ \A b \in Bit :
        1 = (IF b \in emptyQue THEN 1 ELSE 0) + (IF b \in next THEN 1 ELSE 0)
            + Cardinality({i \in DOMAIN fullQue : fullQue[i].out = b})
            + Cardinality({r \in Requests : r.out = b})
    /\ NumReq = reqQue + Cardinality(Requests)

(* A request of two fields has a top and a bottom one, in that order, as    *)
(* the codec's caller asserts (encLink_h264.c:311), though fields get lost  *)
(* on their way to the link and pictures are left out - as long as no frame *)
(* of the channel is skipped.                                               *)
FieldsPaired ==
    \A r \in Requests : r.ch \in Merge \ Skipping =>
        fid[r.in[1]] = "top" /\ fid[r.in[2]] = "bottom"

(* On each channel pictures leave the encoder in the order their frames     *)
(* came, each once, however they were batched: through two queues, a task   *)
(* and a list that the link shares among all channels.                      *)
Pictures(q, ch) ==
    FlattenSeq([i \in DOMAIN q |-> IF q[i].ch = ch THEN <<q[i].in>> ELSE <<>>])
Inside == [ch \in Ch |-> FlattenSeq(Pictures(doneQue \o AtTask(TskOf[ch]), ch)) \o inQue[ch]]
Coded == [ch \in Ch |-> Pictures(fullQue, ch)]
Line == INSTANCE PictureLine WITH inside <- Inside, coded <- Coded
ImplementsLine == Line!Spec

-----------------------------------------------------------------------------
(* Liveness.  All tasks are scheduled and the clock ticks.  Nothing is      *)
(* asked of the neighbours.                                                 *)
FairSpec == /\ Spec
            /\ WF_vars(LinkTask) /\ WF_vars(\E t \in Tsk : Get(t) \/ Encode(t))
            /\ WF_vars(Tick)

(* A STOP and a DELETE are answered, though they wait for the codec and for *)
(* the process tasks to end.  While the link runs, no frame stays in its    *)
(* hands for ever, but for one that waits in a channel's queue for the      *)
(* other field or for the next NEW_DATA.                                    *)
Returns ==
    /\ \A c \in Caller : []<>(control[c] = "none")
    /\ \A f \in Frame : []<>(f \in prev \/ f \in ToSet(inQue[ChOf[f]]) \/ phase # "run")
=============================================================================
