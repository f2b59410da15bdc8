--------------------------- MODULE DupLinkProofs ---------------------------
(* Theorems of DupLink, for every number of frames, output queues and       *)
(* copies.                                                                  *)
EXTENDS DupLink, OwningLemmas

-----------------------------------------------------------------------------
(* The inductive invariant.                                                 *)

\* The places in the list in return of q whose copy is still counted; the
\* same copies as in Uncounted(q).
Rest(q) == {i \in DOMAIN ret[q] : \/ pc[q] = "pend"
                                  \/ pc[q] = "dec" /\ i >= pos[q]
                                  \/ pc[q] = "test" /\ i > pos[q]}
InReturn(q) == {ret[q][i] : i \in Rest(q)}
Using(q) == Range(outList[q]) \cup Range(fullQue[q]) \cup held[q] \cup InReturn(q)
CopiesOf(f) == {c \in Copy : c \in Using(c[1]) /\ org[c] = f}

\* Where the task of the link stands, and what is left of its lists there.
LoopInv ==
    /\ dupPc = "wrap" <=> inList # <<>>
    /\ \A q \in OutQue : (dupPc = "put" /\ q >= outId) \/ (dupPc = "notify" /\ q > outId) =>
          outList[q] # <<>>

\* Where the task of a next link stands in DupLink_putEmptyFrames.
ReturnInv ==
    \A q \in OutQue :
       /\ pc[q] \in {"idle", "get"} <=> ret[q] = <<>>
       /\ pc[q] \in {"dec", "test"} => pos[q] <= Len(ret[q])
       /\ pc[q] \notin {"dec", "test", "up"} => pos[q] = 1 /\ freeList[q] = {}
       /\ pos[q] >= 1
       /\ lock = q <=> pc[q] \in {"dec", "test", "up"}

Parted(U, a, b, c, d, e) ==
    /\ U = a \cup b \cup c \cup d \cup e
    /\ a \cap (b \cup c \cup d \cup e) = {} /\ b \cap (c \cup d \cup e) = {}
    /\ c \cap (d \cup e) = {} /\ d \cap e = {}

\* Each copy of an output queue is in one place.
CopiesInv ==
    \A q \in OutQue :
       /\ IsInjective(outList[q]) /\ IsInjective(fullQue[q]) /\ IsInjective(ret[q])
       /\ Parted({q} \X (1 .. MaxCopies), emptyQue[q], Range(outList[q]),
                 Range(fullQue[q]), held[q], Range(ret[q]))

\* A copy that is not empty is of a frame, and an output uses one copy of a
\* frame; it may use one while another is on its way to the empty ones.
OrgInv ==
    \A q \in OutQue :
       /\ \A c \in Range(outList[q]) \cup Range(fullQue[q]) \cup held[q] \cup Range(ret[q]) :
             org[c] \in Frame
       /\ \A c, d \in Using(q) : org[c] = org[d] => c = d
       /\ \A c, d \in Range(ret[q]) : org[c] = org[d] => c = d

\* A frame with the previous link, on its way to it, or not yet wrapped is in
\* that place alone and has no copies; one whose count was just taken down is
\* in none of them.
FramesInv ==
    /\ IsInjective(inList) /\ source \cap Range(inList) = {}
    /\ \A f \in source \cup Range(inList) : dupCount[f] = 0
    /\ \A q \in OutQue :
          /\ \A f \in freeList[q] : f \notin source \cup Range(inList) /\ dupCount[f] = 0
          /\ pc[q] = "test" =>
                org[ret[q][pos[q]]] \notin source \cup Range(inList) \cup freeList[q]

CountInv == \A f \in Frame : dupCount[f] = Cardinality(CopiesOf(f))

DupInv == TypeOK /\ LoopInv /\ ReturnInv /\ CopiesInv /\ OrgInv /\ FramesInv /\ CountInv
-----------------------------------------------------------------------------
LEMMA Queues ==
    /\ IsFiniteSet(OutQue) /\ Cardinality(OutQue) = NumOutQue
    /\ OutQue \subseteq Nat /\ NumOutQue \notin OutQue /\ 0 \in OutQue
    /\ IsFiniteSet(Copy)
    /\ \A q \in OutQue : \A c \in {q} \X (1 .. MaxCopies) : c \in Copy /\ c[1] = q
<1>1. IsFiniteSet(0 .. NumOutQue - 1) /\ Cardinality(0 .. NumOutQue - 1) = NumOutQue
  BY NumOutQueAssumption, FS_Interval
<1>2. IsFiniteSet(1 .. MaxCopies)
  BY FrameAssumption, FS_Interval
<1>3. IsFiniteSet(Copy)
  BY <1>1, <1>2, FS_Product DEF Copy, OutQue
<1>4. OutQue \subseteq Nat /\ NumOutQue \notin OutQue /\ 0 \in OutQue
  BY NumOutQueAssumption DEF OutQue
<1> QED
  BY <1>1, <1>3, <1>4 DEF OutQue, Copy

\* A list of some elements of a set.
LEMMA ListOf ==
    ASSUME NEW S, IsFiniteSet(S), NEW s \in Lists(S)
    PROVE  s \in Seq(S) /\ s # <<>> /\ IsInjective(s) /\ Range(s) \subseteq S
<1>1. Cardinality(S) \in Nat
  BY FS_CardinalityType
<1>2. PICK n \in 1 .. Cardinality(S) : s \in [1 .. n -> S] /\ IsInjective(s)
  BY DEF Lists
<1>3. n \in Nat /\ n >= 1
  BY <1>1
<1>4. s \in Seq(S) /\ Len(s) = n
  BY <1>2, <1>3
<1> QED
  BY <1>2, <1>3, <1>4 DEF Range

\* The counts are right as long as no output takes a copy into use or out of it.
LEMMA SameUse ==
    ASSUME CountInv, dupCount' = dupCount,
           \A q \in OutQue : Using(q)' = Using(q),
           \A c \in Copy : c \in Using(c[1]) => org'[c] = org[c]
    PROVE  CountInv'
<1>1. \A c \in Copy : c[1] \in OutQue
  BY DEF Copy
<1>2. ASSUME NEW f \in Frame PROVE CopiesOf(f)' = CopiesOf(f)
  BY <1>1 DEF CopiesOf
<1> QED
  BY <1>2 DEF CountInv

\* A step of a next link's task that moves no copies.
LEMMA SamePlaces ==
    ASSUME DupInv, \A q \in OutQue : Rest(q)' = Rest(q),
           UNCHANGED <<dupPc, outId, inList, outList, emptyQue, fullQue, held, ret, org, dupCount>>
    PROVE  LoopInv' /\ CopiesInv' /\ OrgInv' /\ CountInv'
<1>1. \A q \in OutQue : Using(q)' = Using(q)
  BY DEF Using, InReturn
<1>2. LoopInv' /\ CopiesInv'
  BY DEF DupInv, LoopInv, CopiesInv
<1>3. OrgInv'
  BY <1>1 DEF DupInv, OrgInv
<1>4. CountInv'
  BY <1>1, SameUse DEF DupInv
<1> QED
  BY <1>2, <1>3, <1>4

-----------------------------------------------------------------------------
(* The steps that count nothing.                                            *)

LEMMA DupGetInv == ASSUME DupInv, DupGet PROVE DupInv'
<1>0. TypeOK /\ FramesInv /\ IsFiniteSet(source) /\ dupPc = "idle"
  BY FrameAssumption, FS_Subset DEF DupInv, TypeOK, DupGet
<1>1. PICK s \in Lists(source) : inList' = s /\ source' = source \ Range(s)
  BY DEF DupGet
<1>2. s \in Seq(source) /\ s # <<>> /\ IsInjective(s) /\ Range(s) \subseteq source
  BY <1>0, <1>1, ListOf
<1>3. s \in Seq(Frame)
  BY <1>0, <1>2, SeqMonotonic DEF TypeOK
<1>4. TypeOK'
  BY <1>0, <1>1, <1>3 DEF DupGet, TypeOK, next
<1>5. LoopInv'
  BY <1>1, <1>2 DEF DupGet, LoopInv
<1>6. ReturnInv' /\ CopiesInv' /\ OrgInv'
  BY DEF DupGet, DupInv, ReturnInv, CopiesInv, OrgInv, Using, InReturn, Rest, next
<1>7. FramesInv'
  BY <1>0, <1>1, <1>2 DEF DupGet, FramesInv, next
<1>8. CountInv'
  BY SameUse DEF DupGet, DupInv, Using, InReturn, Rest, next
<1> QED
  BY <1>4, <1>5, <1>6, <1>7, <1>8 DEF DupInv

LEMMA DupPutInv == ASSUME DupInv, DupPut PROVE DupInv'
<1>0. TypeOK /\ LoopInv /\ CopiesInv /\ dupPc = "put"
  BY DEF DupInv, DupPut
<1>1. PICK q0 \in OutQue : q0 = outId
  BY <1>0 DEF TypeOK
<1>2. outList[q0] \in Seq(Copy) /\ outList[q0] # <<>> /\ fullQue[q0] \in Seq(Copy)
  BY <1>0, <1>1, Queues DEF TypeOK, LoopInv
<1>3. IsInjective(outList[q0]) /\ IsInjective(fullQue[q0])
  BY <1>0 DEF CopiesInv
<1>4. PICK c \in Copy : c = Head(outList[q0]) /\ c \in Range(outList[q0])
  BY <1>2, QueueTake
<1>5. /\ Tail(outList[q0]) \in Seq(Copy) /\ Len(Tail(outList[q0])) = Len(outList[q0]) - 1
      /\ IsInjective(Tail(outList[q0]))
      /\ Range(Tail(outList[q0])) = Range(outList[q0]) \ {c}
  BY <1>2, <1>3, <1>4, QueueTake
<1>6. c \notin Range(fullQue[q0])
  BY <1>0, <1>4 DEF CopiesInv, Parted
<1>7. /\ Append(fullQue[q0], c) \in Seq(Copy) /\ IsInjective(Append(fullQue[q0], c))
      /\ Range(Append(fullQue[q0], c)) = Range(fullQue[q0]) \cup {c}
  BY <1>2, <1>3, <1>6, QueueAppend
<1>8. /\ fullQue' = [fullQue EXCEPT ![q0] = Append(fullQue[q0], c)]
      /\ outList' = [outList EXCEPT ![q0] = Tail(outList[q0])]
  BY <1>1, <1>4 DEF DupPut
<1>9. TypeOK'
  <2>1. outList' \in [OutQue -> Seq(Copy)] /\ fullQue' \in [OutQue -> Seq(Copy)]
    BY <1>0, <1>5, <1>7, <1>8 DEF TypeOK
  <2>2. dupPc' \in {"put", "notify"}
    BY DEF DupPut
  <2> QED BY <1>0, <2>1, <2>2 DEF DupPut, TypeOK, next
<1>10. /\ fullQue'[q0] = Append(fullQue[q0], c) /\ outList'[q0] = Tail(outList[q0])
       /\ \A q \in OutQue \ {q0} : fullQue'[q] = fullQue[q] /\ outList'[q] = outList[q]
  BY <1>0, <1>8 DEF TypeOK
<1>11. LoopInv'
  <2>1. inList' = <<>> /\ inList = <<>> /\ dupPc' # "wrap" /\ outId' = outId
    BY <1>0 DEF LoopInv, DupPut
  <2>2. dupPc' = "put" => Tail(outList[q0]) # <<>>
    <3>1. Len(outList[q0]) # 1 => Len(Tail(outList[q0])) # 0
      BY <1>2, <1>5, LenProperties
    <3>2. Len(<<>>) = 0
      OBVIOUS
    <3> QED BY <1>1, <3>1, <3>2 DEF DupPut
  <2>3. dupPc' \in {"put", "notify"}
    BY DEF DupPut
  <2>4. ASSUME NEW q \in OutQue,
               (dupPc' = "put" /\ q >= outId') \/ (dupPc' = "notify" /\ q > outId')
        PROVE  outList'[q] # <<>>
    <3>1. CASE q = q0
      <4>1. dupPc' = "put"
        BY <1>1, <2>1, <2>4, <3>1, Queues
      <4> QED BY <1>10, <2>2, <3>1, <4>1
    <3>2. CASE q # q0
      BY <1>0, <1>1, <1>10, <2>1, <2>4, <3>2, Queues DEF LoopInv
    <3> QED BY <3>1, <3>2
  <2> QED BY <2>1, <2>4 DEF LoopInv
<1>12. \A q \in OutQue : Range(outList'[q]) \cup Range(fullQue'[q])
                         = Range(outList[q]) \cup Range(fullQue[q])
  BY <1>4, <1>5, <1>7, <1>10
<1>13. UNCHANGED <<emptyQue, held, ret, pos, freeList, pc, lock, org, dupCount, source, inList>>
  BY DEF DupPut, next
<1>14. CopiesInv'
  <2>1. ASSUME NEW q \in OutQue, q # q0 PROVE outList'[q] = outList[q] /\ fullQue'[q] = fullQue[q]
    BY <1>10, <2>1
  <2>2. Parted({q0} \X (1 .. MaxCopies), emptyQue[q0], Range(outList'[q0]),
                 Range(fullQue'[q0]), held[q0], Range(ret[q0]))
    <3>1. Parted({q0} \X (1 .. MaxCopies), emptyQue[q0], Range(outList[q0]),
                 Range(fullQue[q0]), held[q0], Range(ret[q0]))
      BY <1>0 DEF CopiesInv
    <3>2. /\ Range(outList'[q0]) = Range(outList[q0]) \ {c}
          /\ Range(fullQue'[q0]) = Range(fullQue[q0]) \cup {c}
      BY <1>5, <1>7, <1>10
    <3> QED BY <1>4, <3>1, <3>2 DEF Parted
  <2> QED BY <1>0, <1>5, <1>7, <1>10, <1>13, <2>1, <2>2 DEF CopiesInv
<1>15. \A q \in OutQue : Using(q)' = Using(q)
  BY <1>12, <1>13 DEF Using, InReturn, Rest
<1>16. OrgInv'
  BY <1>12, <1>13, <1>15 DEF DupInv, OrgInv
<1>17. ReturnInv' /\ FramesInv'
  BY <1>13 DEF DupInv, ReturnInv, FramesInv
<1>18. CountInv'
  BY <1>13, <1>15, SameUse DEF DupInv
<1> QED
  BY <1>9, <1>11, <1>14, <1>16, <1>17, <1>18 DEF DupInv

LEMMA DupNotifyInv == ASSUME DupInv, DupNotify PROVE DupInv'
<1>0. TypeOK /\ LoopInv /\ dupPc = "notify"
  BY DEF DupInv, DupNotify
<1>1. UNCHANGED <<emptyQue, outList, fullQue, held, ret, pos, freeList, pc, lock, org,
                  dupCount, source, inList>>
  BY DEF DupNotify, next
<1>2. dupPc' = "idle" \/ (dupPc' = "put" /\ outId' = outId + 1 /\ outId # NumOutQue - 1)
  BY DEF DupNotify
<1>3. outId \in OutQue /\ (outId # NumOutQue - 1 => outId + 1 \in OutQue)
  BY <1>0, NumOutQueAssumption DEF TypeOK, OutQue
<1>4. TypeOK'
  BY <1>0, <1>1, <1>3 DEF DupNotify, TypeOK
<1>5. LoopInv'
  <2>1. inList = <<>> /\ dupPc' # "wrap"
    BY <1>0, <1>2 DEF LoopInv
  <2>2. \A q \in OutQue : q >= outId + 1 => outList[q] # <<>>
    BY <1>0, <1>3, Queues DEF LoopInv
  <2> QED BY <1>1, <1>2, <2>1, <2>2 DEF LoopInv
<1>6. ReturnInv' /\ CopiesInv' /\ OrgInv' /\ FramesInv'
  BY <1>1 DEF DupInv, ReturnInv, CopiesInv, OrgInv, Using, InReturn, Rest, FramesInv
<1>7. CountInv'
  BY <1>1, SameUse DEF DupInv, Using, InReturn, Rest
<1> QED
  BY <1>4, <1>5, <1>6, <1>7 DEF DupInv

LEMMA WakeInv == ASSUME DupInv, NEW q \in OutQue, Wake(q) PROVE DupInv'
<1>0. TypeOK /\ pc[q] = "idle"
  BY DEF DupInv, Wake
<1>1. UNCHANGED <<source, dupPc, outId, inList, outList, emptyQue, fullQue, org,
                  dupCount, lock, held, ret, pos, freeList>>
  BY DEF Wake, dup
<1>2. pc'[q] = "get" /\ \A r \in OutQue \ {q} : pc'[r] = pc[r]
  BY <1>0 DEF Wake, Goto, TypeOK
<1>3. TypeOK'
  BY <1>0, <1>1 DEF Wake, Goto, TypeOK
<1>4. \A r \in OutQue : Rest(r)' = Rest(r)
  BY <1>0, <1>1, <1>2 DEF Rest
<1>6. LoopInv' /\ CopiesInv' /\ OrgInv' /\ CountInv'
  BY <1>1, <1>4, SamePlaces
<1>7. ReturnInv' /\ FramesInv'
  BY <1>0, <1>1, <1>2 DEF DupInv, ReturnInv, FramesInv
<1> QED
  BY <1>3, <1>6, <1>7 DEF DupInv

LEMMA GetFullInv == ASSUME DupInv, NEW q \in OutQue, GetFull(q) PROVE DupInv'
<1>0. TypeOK /\ CopiesInv /\ pc[q] = "get"
  BY DEF DupInv, GetFull
<1>1. UNCHANGED <<source, dupPc, outId, inList, outList, emptyQue, org,
                  dupCount, lock, notice, ret, pos, freeList>>
  BY DEF GetFull, dup
<1>2. /\ pc'[q] = "idle" /\ fullQue'[q] = <<>> /\ held'[q] = held[q] \cup Range(fullQue[q])
      /\ \A r \in OutQue \ {q} : pc'[r] = pc[r] /\ fullQue'[r] = fullQue[r] /\ held'[r] = held[r]
  BY <1>0 DEF GetFull, Goto, TypeOK
<1>3. TypeOK'
  <2>1. Range(fullQue[q]) \subseteq Copy
    BY <1>0, RangeOfSeq DEF TypeOK
  <2>2. held' \in [OutQue -> SUBSET Copy] /\ fullQue' \in [OutQue -> Seq(Copy)]
    BY <1>0, <2>1 DEF GetFull, TypeOK
  <2> QED BY <1>0, <1>1, <2>2 DEF GetFull, Goto, TypeOK
<1>4. \A r \in OutQue : Rest(r)' = Rest(r)
  BY <1>0, <1>1, <1>2 DEF Rest
<1>5. Range(<<>>) = {} /\ IsInjective(<<>>)
  BY EmptyQueue
<1>6. \A r \in OutQue : Range(fullQue'[r]) \cup held'[r] = Range(fullQue[r]) \cup held[r]
  BY <1>2, <1>5
<1>7. \A r \in OutQue : Using(r)' = Using(r)
  BY <1>1, <1>4, <1>6 DEF Using, InReturn
<1>8. CopiesInv'
  <2>1. Parted({q} \X (1 .. MaxCopies), emptyQue[q], Range(outList[q]),
                 Range(fullQue'[q]), held'[q], Range(ret[q]))
    <3>1. Parted({q} \X (1 .. MaxCopies), emptyQue[q], Range(outList[q]),
                   Range(fullQue[q]), held[q], Range(ret[q]))
      BY <1>0 DEF CopiesInv
    <3>2. Range(fullQue'[q]) = {} /\ held'[q] = held[q] \cup Range(fullQue[q])
      BY <1>2, <1>5
    <3> QED BY <3>1, <3>2 DEF Parted
  <2> QED BY <1>0, <1>1, <1>2, <1>5, <2>1 DEF CopiesInv
<1>9. OrgInv'
  BY <1>1, <1>6, <1>7 DEF DupInv, OrgInv
<1>10. CountInv' /\ LoopInv'
  BY <1>1, <1>7, SameUse DEF DupInv, LoopInv
<1>11. ReturnInv' /\ FramesInv'
  BY <1>0, <1>1, <1>2 DEF DupInv, ReturnInv, FramesInv
<1> QED
  BY <1>3, <1>8, <1>9, <1>10, <1>11 DEF DupInv

LEMMA StartReturnInv == ASSUME DupInv, NEW q \in OutQue, StartReturn(q) PROVE DupInv'
<1>0. /\ TypeOK /\ CopiesInv /\ ReturnInv /\ pc[q] = "idle" /\ ret[q] = <<>>
      /\ IsFiniteSet(held[q])
  <2>1. IsFiniteSet(held[q])
    BY Queues, FS_Subset DEF DupInv, TypeOK
  <2> QED BY <2>1 DEF DupInv, ReturnInv, StartReturn
<1>1. UNCHANGED <<source, dupPc, outId, inList, outList, emptyQue, fullQue, org,
                  dupCount, lock, notice, pos, freeList>>
  BY DEF StartReturn, dup
<1>2. PICK s \in Lists(held[q]) : /\ ret' = [ret EXCEPT ![q] = s]
                                  /\ held' = [held EXCEPT ![q] = @ \ Range(s)]
  BY DEF StartReturn
<1>3. s \in Seq(held[q]) /\ s # <<>> /\ IsInjective(s) /\ Range(s) \subseteq held[q]
  BY <1>0, <1>2, ListOf
<1>4. s \in Seq(Copy)
  BY <1>0, <1>3, SeqMonotonic DEF TypeOK
<1>5. /\ pc'[q] = "pend" /\ ret'[q] = s /\ held'[q] = held[q] \ Range(s)
      /\ \A r \in OutQue \ {q} : pc'[r] = pc[r] /\ ret'[r] = ret[r] /\ held'[r] = held[r]
  BY <1>0, <1>2 DEF StartReturn, Goto, TypeOK
<1>6. TypeOK'
  <2>1. held' \in [OutQue -> SUBSET Copy] /\ ret' \in [OutQue -> Seq(Copy)]
    BY <1>0, <1>2, <1>4 DEF TypeOK
  <2> QED BY <1>0, <1>1, <2>1 DEF StartReturn, Goto, TypeOK
<1>7. \A r \in OutQue \ {q} : InReturn(r)' = InReturn(r)
  BY <1>1, <1>5 DEF InReturn, Rest
<1>8. InReturn(q) = {} /\ InReturn(q)' = Range(s)
  BY <1>0, <1>5 DEF InReturn, Rest, Range
<1>9. \A r \in OutQue : Using(r)' = Using(r)
  BY <1>1, <1>3, <1>5, <1>7, <1>8 DEF Using
<1>10. Range(ret[q]) = {} /\ Range(ret'[q]) = Range(s)
  BY <1>0, <1>5, EmptyQueue
<1>11. CopiesInv'
  <2>1. Parted({q} \X (1 .. MaxCopies), emptyQue[q], Range(outList[q]),
                 Range(fullQue[q]), held'[q], Range(ret'[q]))
    <3>1. Parted({q} \X (1 .. MaxCopies), emptyQue[q], Range(outList[q]),
                   Range(fullQue[q]), held[q], Range(ret[q]))
      BY <1>0 DEF CopiesInv
    <3> QED BY <1>3, <1>5, <1>10, <3>1 DEF Parted
  <2> QED BY <1>0, <1>1, <1>3, <1>5, <2>1 DEF CopiesInv
<1>12. OrgInv'
  <2>1. ASSUME NEW r \in OutQue
        PROVE  Range(outList'[r]) \cup Range(fullQue'[r]) \cup held'[r] \cup Range(ret'[r])
               = Range(outList[r]) \cup Range(fullQue[r]) \cup held[r] \cup Range(ret[r])
    BY <1>1, <1>3, <1>5, <1>10
  <2>2. Range(ret'[q]) \subseteq Using(q)
    BY <1>3, <1>10 DEF Using
  <2> QED BY <1>1, <1>5, <1>9, <2>1, <2>2 DEF DupInv, OrgInv
<1>13. CountInv' /\ LoopInv'
  BY <1>1, <1>9, SameUse DEF DupInv, LoopInv
<1>14. ReturnInv'
  BY <1>0, <1>1, <1>3, <1>5 DEF ReturnInv
<1>15. FramesInv'
  BY <1>0, <1>1, <1>5 DEF DupInv, FramesInv
<1> QED
  BY <1>6, <1>11, <1>12, <1>13, <1>14, <1>15 DEF DupInv

LEMMA PendInv == ASSUME DupInv, NEW q \in OutQue, Pend(q) PROVE DupInv'
<1>0. TypeOK /\ ReturnInv /\ pc[q] = "pend" /\ pos[q] = 1 /\ lock = None
  BY DEF DupInv, ReturnInv, Pend
<1>1. UNCHANGED <<source, dupPc, outId, inList, outList, emptyQue, fullQue, org,
                  dupCount, notice, held, ret, pos, freeList>>
  BY DEF Pend, dup
<1>2. lock' = q /\ pc'[q] = "dec" /\ \A r \in OutQue \ {q} : pc'[r] = pc[r]
  BY <1>0 DEF Pend, Goto, TypeOK
<1>3. TypeOK'
  BY <1>0, <1>1 DEF Pend, Goto, TypeOK
<1>4. ret[q] \in Seq(Copy) /\ ret[q] # <<>>
  BY <1>0 DEF TypeOK, ReturnInv
<1>5. Len(ret[q]) \in Nat /\ Len(ret[q]) >= 1 /\ DOMAIN ret[q] = 1 .. Len(ret[q])
  BY <1>4, LenProperties, EmptySeq
<1>6. \A r \in OutQue : Rest(r)' = Rest(r)
  BY <1>0, <1>1, <1>2, <1>5 DEF Rest
<1>8. LoopInv' /\ CopiesInv' /\ OrgInv' /\ CountInv'
  BY <1>1, <1>6, SamePlaces
<1>9. ReturnInv'
  <2>1. \A r \in OutQue \ {q} : lock # r /\ lock' # r
    BY <1>0, <1>2, Queues DEF None
  <2> QED BY <1>0, <1>1, <1>2, <1>5, <2>1 DEF ReturnInv
<1>10. FramesInv'
  BY <1>0, <1>1, <1>2 DEF DupInv, FramesInv
<1> QED
  BY <1>3, <1>8, <1>9, <1>10 DEF DupInv

LEMMA UpInv == ASSUME DupInv, NEW q \in OutQue, Up(q) PROVE DupInv'
<1>0. TypeOK /\ ReturnInv /\ FramesInv /\ pc[q] = "up" /\ lock = q
  BY DEF DupInv, ReturnInv, Up
<1>1. UNCHANGED <<dupPc, outId, inList, outList, emptyQue, fullQue, org,
                  dupCount, notice, held, ret>>
  BY DEF Up, dup
<1>2. /\ source' = source \cup freeList[q] /\ lock' = None
      /\ pc'[q] = "empty" /\ pos'[q] = 1 /\ freeList'[q] = {}
      /\ \A r \in OutQue \ {q} : pc'[r] = pc[r] /\ pos'[r] = pos[r] /\ freeList'[r] = freeList[r]
  BY <1>0 DEF Up, Goto, TypeOK
<1>3. TypeOK'
  <2>1. pos' \in [OutQue -> Nat] /\ freeList' \in [OutQue -> SUBSET Frame]
    BY <1>0 DEF Up, TypeOK
  <2> QED BY <1>0, <1>1, <2>1 DEF Up, Goto, TypeOK
<1>4. \A r \in OutQue : Rest(r)' = Rest(r)
  BY <1>0, <1>1, <1>2 DEF Rest
<1>6. LoopInv' /\ CopiesInv' /\ OrgInv' /\ CountInv'
  BY <1>1, <1>4, SamePlaces
<1>7. \A r \in OutQue \ {q} : pc[r] \notin {"dec", "test", "up"} /\ freeList[r] = {}
  BY <1>0 DEF ReturnInv
<1>8. ReturnInv'
  <2>1. \A r \in OutQue : lock' # r
    BY <1>2, Queues DEF None
  <2> QED BY <1>0, <1>1, <1>2, <1>7, <2>1 DEF ReturnInv
<1>9. FramesInv'
  BY <1>0, <1>1, <1>2, <1>7 DEF FramesInv
<1> QED
  BY <1>3, <1>6, <1>8, <1>9 DEF DupInv

\* The copy a list in return is at.
LEMMA AtCopy ==
    ASSUME DupInv, NEW q \in OutQue, pc[q] \in {"dec", "test"}
    PROVE  /\ ret[q] \in Seq(Copy) /\ Len(ret[q]) \in Nat /\ DOMAIN ret[q] = 1 .. Len(ret[q])
           /\ pos[q] \in DOMAIN ret[q] /\ pos[q] \in Nat /\ IsInjective(ret[q])
           /\ ret[q][pos[q]] \in Copy /\ ret[q][pos[q]] \in Range(ret[q])
           /\ ret[q][pos[q]][1] = q /\ org[ret[q][pos[q]]] \in Frame
<1>1. ret[q] \in Seq(Copy) /\ pos[q] \in Nat
  BY DEF DupInv, TypeOK
<1>2. Len(ret[q]) \in Nat /\ DOMAIN ret[q] = 1 .. Len(ret[q])
  BY <1>1, LenProperties
<1>3. pos[q] \in DOMAIN ret[q]
  BY <1>1, <1>2 DEF DupInv, ReturnInv
<1>4. ret[q][pos[q]] \in Range(ret[q])
  BY <1>3 DEF Range
<1>5. IsInjective(ret[q]) /\ Range(ret[q]) \subseteq {q} \X (1 .. MaxCopies)
  BY DEF DupInv, CopiesInv, Parted
<1>6. ret[q][pos[q]] \in Copy /\ ret[q][pos[q]][1] = q
  BY <1>4, <1>5, Queues
<1>7. org[ret[q][pos[q]]] \in Frame
  BY <1>4 DEF DupInv, OrgInv
<1> QED
  BY <1>1, <1>2, <1>3, <1>4, <1>5, <1>6, <1>7

LEMMA TestInv == ASSUME DupInv, NEW q \in OutQue, Test(q) PROVE DupInv'
<1>0. TypeOK /\ ReturnInv /\ FramesInv /\ pc[q] = "test"
  BY DEF DupInv, Test
<1>1. UNCHANGED <<source, dupPc, outId, inList, outList, emptyQue, fullQue, org,
                  dupCount, lock, notice, held, ret>>
  BY DEF Test, dup
<1>2. /\ Len(ret[q]) \in Nat /\ DOMAIN ret[q] = 1 .. Len(ret[q])
      /\ pos[q] \in 1 .. Len(ret[q]) /\ pos[q] \in Nat
  BY <1>0, AtCopy
<1>3. PICK f \in Frame : f = org[ret[q][pos[q]]]
  BY <1>0, AtCopy
<1>4. /\ freeList'[q] = freeList[q] \cup (IF dupCount[f] = 0 THEN {f} ELSE {})
      /\ pos'[q] = pos[q] + 1
      /\ pc'[q] = IF pos[q] = Len(ret[q]) THEN "up" ELSE "dec"
      /\ \A r \in OutQue \ {q} : pc'[r] = pc[r] /\ pos'[r] = pos[r] /\ freeList'[r] = freeList[r]
  BY <1>0, <1>3 DEF Test, Goto, TypeOK
<1>5. TypeOK'
  <2>1. pos' \in [OutQue -> Nat]
    BY <1>0, <1>2 DEF Test, TypeOK
  <2>2. freeList' = [freeList EXCEPT ![q] = @ \cup IF dupCount[f] = 0 THEN {f} ELSE {}]
    BY <1>3 DEF Test
  <2>3. freeList' \in [OutQue -> SUBSET Frame]
    BY <1>0, <2>2 DEF TypeOK
  <2>4. pc' \in [OutQue -> {"idle", "get", "pend", "dec", "test", "up", "empty"}]
    BY <1>0 DEF Test, Goto, TypeOK
  <2> QED BY <1>0, <1>1, <2>1, <2>3, <2>4 DEF TypeOK
<1>6. \A r \in OutQue : Rest(r)' = Rest(r)
  <2>1. Rest(q)' = Rest(q)
    BY <1>0, <1>1, <1>2, <1>4 DEF Rest
  <2> QED BY <1>1, <1>4, <2>1 DEF Rest
<1>7. LoopInv' /\ CopiesInv' /\ OrgInv' /\ CountInv'
  BY <1>1, <1>6, SamePlaces
<1>8. ReturnInv'
  <2>1. pos'[q] >= 1 /\ (pc'[q] \in {"dec", "test"} => pos'[q] <= Len(ret[q]))
    BY <1>2, <1>4
  <2>2. ret[q] # <<>> /\ lock = q
    BY <1>0 DEF ReturnInv
  <2> QED BY <1>0, <1>1, <1>4, <2>1, <2>2 DEF ReturnInv
<1>9. FramesInv'
  <2>1. f \notin source \cup Range(inList)
    BY <1>0, <1>3 DEF FramesInv
  <2>2. pc'[q] # "test" /\ \A x \in freeList'[q] : x \in freeList[q] \/ (x = f /\ dupCount[f] = 0)
    BY <1>4
  <2> QED BY <1>0, <1>1, <1>4, <2>1, <2>2 DEF FramesInv
<1> QED
  BY <1>5, <1>7, <1>8, <1>9 DEF DupInv

LEMMA PutEmptyInv == ASSUME DupInv, NEW q \in OutQue, PutEmpty(q) PROVE DupInv'
<1>0. TypeOK /\ ReturnInv /\ CopiesInv /\ OrgInv /\ FramesInv /\ pc[q] = "empty"
  BY DEF DupInv, PutEmpty
<1>1. UNCHANGED <<source, dupPc, outId, inList, outList, fullQue,
                  dupCount, lock, notice, held, pos, freeList>>
  BY DEF PutEmpty, dup
<1>2. /\ pc'[q] = "idle" /\ ret'[q] = <<>> /\ emptyQue'[q] = emptyQue[q] \cup Range(ret[q])
      /\ \A r \in OutQue \ {q} : pc'[r] = pc[r] /\ ret'[r] = ret[r] /\ emptyQue'[r] = emptyQue[r]
  BY <1>0 DEF PutEmpty, Goto, TypeOK
<1>3. Range(ret[q]) \subseteq {q} \X (1 .. MaxCopies) /\ Range(ret[q]) \subseteq Copy
  BY <1>0, Queues DEF CopiesInv, Parted
<1>4. TypeOK'
  <2>1. emptyQue' \in [OutQue -> SUBSET Copy]
    BY <1>0, <1>3 DEF PutEmpty, TypeOK
  <2>2. org' \in [Copy -> Frame \cup {NoFrame}]
    BY <1>0 DEF PutEmpty, TypeOK
  <2>3. ret' \in [OutQue -> Seq(Copy)]
    BY <1>0 DEF PutEmpty, TypeOK
  <2> QED BY <1>0, <1>1, <2>1, <2>2, <2>3 DEF PutEmpty, Goto, TypeOK
<1>5. Range(<<>>) = {} /\ IsInjective(<<>>)
  BY EmptyQueue
<1>6. \A r \in OutQue : InReturn(r)' = InReturn(r)
  <2>1. InReturn(q) = {} /\ InReturn(q)' = {}
    BY <1>0, <1>2 DEF InReturn, Rest
  <2> QED BY <1>1, <1>2, <2>1 DEF InReturn, Rest
<1>7. \A r \in OutQue : Using(r)' = Using(r)
  BY <1>1, <1>6 DEF Using
<1>8. \A c \in Copy : c \notin Range(ret[q]) => org'[c] = org[c]
  BY DEF PutEmpty
<1>9. \A r \in OutQue : \A c \in Using(r) : c \in Copy /\ c \notin Range(ret[q])
  <2> SUFFICES ASSUME NEW r \in OutQue, NEW c \in Using(r)
               PROVE  c \in Copy /\ c \notin Range(ret[q])
    OBVIOUS
  <2>1. c \in Range(outList[r]) \cup Range(fullQue[r]) \cup held[r] \cup Range(ret[r])
    BY DEF Using, InReturn, Rest, Range
  <2>2. c \in {r} \X (1 .. MaxCopies)
    BY <1>0, <2>1 DEF CopiesInv, Parted
  <2>3. c \in Copy /\ c[1] = r
    BY <2>2, Queues
  <2>4. CASE r = q
    <3>1. c \in Range(outList[q]) \cup Range(fullQue[q]) \cup held[q]
      BY <1>0, <2>4 DEF Using, InReturn, Rest
    <3> QED BY <1>0, <2>3, <3>1 DEF CopiesInv, Parted
  <2>5. CASE r # q
    BY <1>3, <2>3, <2>5, Queues
  <2> QED BY <2>3, <2>4, <2>5
<1>10. LoopInv' /\ ReturnInv'
  BY <1>0, <1>1, <1>2 DEF DupInv, LoopInv, ReturnInv
<1>11. CopiesInv'
  <2>1. Parted({q} \X (1 .. MaxCopies), emptyQue'[q], Range(outList[q]),
                 Range(fullQue[q]), held[q], Range(ret'[q]))
    <3>1. Parted({q} \X (1 .. MaxCopies), emptyQue[q], Range(outList[q]),
                   Range(fullQue[q]), held[q], Range(ret[q]))
      BY <1>0 DEF CopiesInv
    <3>2. Range(ret'[q]) = {} /\ emptyQue'[q] = emptyQue[q] \cup Range(ret[q])
      BY <1>2, <1>5
    <3> QED BY <3>1, <3>2 DEF Parted
  <2> QED BY <1>0, <1>1, <1>2, <1>5, <2>1 DEF CopiesInv
<1>12. OrgInv'
  <2>1. ASSUME NEW r \in OutQue,
               NEW c \in Range(outList'[r]) \cup Range(fullQue'[r]) \cup held'[r] \cup Range(ret'[r])
        PROVE  org'[c] = org[c] /\ org[c] \in Frame
    <3>1. CASE c \in Range(outList[r]) \cup Range(fullQue[r]) \cup held[r]
      <4>1. c \in Using(r)
        BY <3>1 DEF Using
      <4> QED BY <1>0, <1>8, <1>9, <3>1, <4>1 DEF OrgInv
    <3>2. CASE c \in Range(ret'[r])
      <4>1. r # q /\ c \in Range(ret[r])
        BY <1>2, <1>5, <3>2
      <4>2. c \in {r} \X (1 .. MaxCopies)
        BY <1>0, <4>1 DEF CopiesInv, Parted
      <4>3. c \in Copy /\ c[1] = r /\ c \notin Range(ret[q])
        BY <1>3, <4>1, <4>2, Queues
      <4> QED BY <1>0, <1>8, <4>1, <4>3 DEF OrgInv
    <3> QED BY <1>1, <2>1, <3>1, <3>2
  <2>2. \A r \in OutQue : \A c \in Using(r) : org'[c] = org[c]
    BY <1>8, <1>9
  <2>3. \A r \in OutQue : Range(ret'[r]) \subseteq Range(ret[r])
    BY <1>2, <1>5
  <2>4. \A r \in OutQue : \A c, d \in Using(r)' : org'[c] = org'[d] => c = d
    BY <1>0, <1>7, <2>2 DEF OrgInv
  <2>5. \A r \in OutQue : \A c, d \in Range(ret'[r]) : org'[c] = org'[d] => c = d
    BY <1>0, <2>1, <2>3 DEF OrgInv
  <2> QED BY <2>1, <2>4, <2>5 DEF OrgInv
<1>13. CountInv'
  <2>1. \A c \in Copy : c \in Using(c[1]) => org'[c] = org[c]
    BY <1>8, <1>9 DEF Copy
  <2> QED BY <1>1, <1>7, <2>1, SameUse DEF DupInv
<1>14. FramesInv'
  <2>1. ASSUME NEW r \in OutQue, pc'[r] = "test"
        PROVE  /\ pc[r] = "test" /\ ret'[r][pos'[r]] = ret[r][pos[r]]
               /\ org'[ret[r][pos[r]]] = org[ret[r][pos[r]]]
    <3>1. r # q /\ pc[r] = "test" /\ ret'[r][pos'[r]] = ret[r][pos[r]]
      BY <1>1, <1>2, <2>1
    <3>2. ret[r][pos[r]] \in Copy /\ ret[r][pos[r]][1] = r
      BY <3>1, AtCopy
    <3>3. ret[r][pos[r]] \notin Range(ret[q])
      BY <1>3, <3>1, <3>2, Queues
    <3> QED BY <1>8, <3>1, <3>2, <3>3
  <2> QED BY <1>0, <1>1, <2>1 DEF FramesInv
<1> QED
  BY <1>4, <1>10, <1>11, <1>12, <1>13, <1>14 DEF DupInv

-----------------------------------------------------------------------------
(* The steps that count.                                                    *)

LEMMA CopiesFinite == \A f : IsFiniteSet(CopiesOf(f))
BY Queues, FS_Subset DEF CopiesOf

\* The count of the copy the list is at is taken off.
LEMMA DecInv == ASSUME DupInv, NEW q \in OutQue, Dec(q) PROVE DupInv'
<1>0. /\ TypeOK /\ ReturnInv /\ CopiesInv /\ OrgInv /\ FramesInv /\ CountInv /\ LoopInv
      /\ pc[q] = "dec"
  BY DEF DupInv, Dec
<1>1. UNCHANGED <<source, dupPc, outId, inList, outList, emptyQue, fullQue, org,
                  lock, notice, held, ret, pos, freeList>>
  BY DEF Dec, dup
<1>2. /\ pos[q] \in DOMAIN ret[q] /\ IsInjective(ret[q])
      /\ Len(ret[q]) \in Nat /\ DOMAIN ret[q] = 1 .. Len(ret[q]) /\ pos[q] \in Nat
  BY <1>0, AtCopy
<1>3. PICK c0 \in Copy : c0 = ret[q][pos[q]] /\ c0 \in Range(ret[q]) /\ c0[1] = q
  BY <1>0, AtCopy
<1>4. PICK f0 \in Frame : f0 = org[c0]
  BY <1>0, <1>3, AtCopy
<1>5. /\ dupCount' = [dupCount EXCEPT ![f0] = dupCount[f0] - 1]
      /\ pc'[q] = "test" /\ \A r \in OutQue \ {q} : pc'[r] = pc[r]
  BY <1>0, <1>3, <1>4 DEF Dec, Goto, TypeOK
<1>6. c0 \in InReturn(q) /\ InReturn(q)' = InReturn(q) \ {c0}
  <2>1. Rest(q)' = Rest(q) \ {pos[q]} /\ pos[q] \in Rest(q) /\ Rest(q) \subseteq DOMAIN ret[q]
    BY <1>0, <1>1, <1>2, <1>5 DEF Rest
  <2>2. \A i \in DOMAIN ret[q] : ret[q][i] = c0 => i = pos[q]
    BY <1>2, <1>3 DEF IsInjective
  <2> QED BY <1>1, <1>3, <2>1, <2>2 DEF InReturn
<1>7. \A r \in OutQue \ {q} : InReturn(r)' = InReturn(r)
  BY <1>1, <1>5 DEF InReturn, Rest
<1>8. /\ c0 \in Using(q) /\ Using(q)' = Using(q) \ {c0}
      /\ \A r \in OutQue \ {q} : Using(r)' = Using(r)
  <2>1. c0 \notin Range(outList[q]) \cup Range(fullQue[q]) \cup held[q]
    BY <1>0, <1>3 DEF CopiesInv, Parted
  <2> QED BY <1>1, <1>6, <1>7, <2>1 DEF Using
<1>9. CopiesOf(f0)' = CopiesOf(f0) \ {c0} /\ c0 \in CopiesOf(f0)
  BY <1>1, <1>3, <1>4, <1>8 DEF CopiesOf, Copy
<1>10. \A f \in Frame \ {f0} : CopiesOf(f)' = CopiesOf(f)
  BY <1>1, <1>3, <1>4, <1>8 DEF CopiesOf, Copy
<1>11. /\ Cardinality(CopiesOf(f0)') = Cardinality(CopiesOf(f0)) - 1
       /\ Cardinality(CopiesOf(f0)) \in Nat /\ Cardinality(CopiesOf(f0)) # 0
  <2>1. IsFiniteSet(CopiesOf(f0))
    BY CopiesFinite
  <2>2. Cardinality(CopiesOf(f0) \ {c0}) = Cardinality(CopiesOf(f0)) - 1
    BY <1>9, <2>1, FS_RemoveElement
  <2>3. Cardinality(CopiesOf(f0)) \in Nat /\ Cardinality(CopiesOf(f0)) # 0
    BY <1>9, <2>1, FS_CardinalityType, FS_EmptySet
  <2> QED BY <1>9, <2>2, <2>3
<1>12. dupCount[f0] \in Nat /\ dupCount[f0] # 0 /\ dupCount[f0] <= NumOutQue
  BY <1>0, <1>11, NumOutQueAssumption DEF CountInv, TypeOK
<1>13. /\ dupCount'[f0] = dupCount[f0] - 1
       /\ \A f \in Frame \ {f0} : dupCount'[f] = dupCount[f]
  BY <1>0, <1>5 DEF TypeOK
<1>14. CountInv'
  <2>1. ASSUME NEW f \in Frame PROVE dupCount'[f] = Cardinality(CopiesOf(f)')
    <3>1. CASE f = f0
      BY <1>0, <1>11, <1>13, <3>1 DEF CountInv
    <3>2. CASE f # f0
      BY <1>0, <1>10, <1>13, <3>2 DEF CountInv
    <3> QED BY <3>1, <3>2
  <2> QED BY <2>1 DEF CountInv
<1>15. TypeOK'
  <2>1. dupCount[f0] - 1 \in 0 .. NumOutQue
    BY <1>12, NumOutQueAssumption
  <2>2. dupCount' \in [Frame -> 0 .. NumOutQue]
    BY <1>0, <1>5, <2>1 DEF TypeOK
  <2> QED BY <1>0, <1>1, <2>2 DEF Dec, Goto, TypeOK
<1>16. LoopInv' /\ CopiesInv' /\ ReturnInv'
  BY <1>0, <1>1, <1>5 DEF LoopInv, CopiesInv, ReturnInv
<1>17. OrgInv'
  BY <1>0, <1>1, <1>8 DEF OrgInv
<1>18. FramesInv'
  <2>1. f0 \notin source \cup Range(inList) /\ \A r \in OutQue : f0 \notin freeList[r]
    BY <1>0, <1>12 DEF FramesInv
  <2>2. source \subseteq Frame /\ Range(inList) \subseteq Frame
        /\ \A r \in OutQue : freeList[r] \subseteq Frame
    BY <1>0, RangeOfSeq DEF TypeOK
  <2> QED BY <1>0, <1>1, <1>3, <1>4, <1>5, <1>13, <2>1, <2>2, ZenonT(30) DEF FramesInv
<1> QED
  BY <1>14, <1>15, <1>16, <1>17, <1>18 DEF DupInv

\* The copy chosen from the empty ones of a queue is one of them.
LEMMA FirstEmpty ==
    ASSUME DupInv, NEW q \in OutQue, emptyQue[q] # {}
    PROVE  First(q) \in emptyQue[q]
<1> DEFINE places == {c[2] : c \in emptyQue[q]}
<1>1. emptyQue[q] \subseteq {q} \X (1 .. MaxCopies)
  BY DEF DupInv, CopiesInv, Parted
<1>2. places \subseteq Nat /\ places # {}
  BY <1>1
<1>3. PICK i \in places : \A j \in places : i <= j
  <2> HIDE DEF places
  <2> QED BY <1>2, LeastNatural
<1>4. \E c \in emptyQue[q] : \A d \in emptyQue[q] : c[2] <= d[2]
  BY <1>3
<1> QED
  BY <1>4 DEF First

\* A frame is wrapped in one copy of each output queue.
LEMMA DupWrapInv == ASSUME DupInv, DupWrap PROVE DupInv'
<1>0. /\ TypeOK /\ ReturnInv /\ CopiesInv /\ OrgInv /\ FramesInv /\ CountInv /\ LoopInv
      /\ dupPc = "wrap"
  BY DEF DupInv, DupWrap
<1>1. UNCHANGED <<source, fullQue, lock, notice, pc, held, ret, pos, freeList>>
  BY DEF DupWrap, next
<1>2. inList \in Seq(Frame) /\ inList # <<>> /\ IsInjective(inList)
  BY <1>0 DEF TypeOK, LoopInv, FramesInv
<1>3. PICK f0 \in Frame : f0 = Head(inList) /\ f0 \in Range(inList)
  BY <1>2, QueueTake
<1>4. /\ Tail(inList) \in Seq(Frame) /\ Len(Tail(inList)) = Len(inList) - 1
      /\ IsInjective(Tail(inList)) /\ Range(Tail(inList)) = Range(inList) \ {f0}
  BY <1>2, <1>3, QueueTake
<1>5. PICK g : g = [q \in OutQue |-> First(q)]
  OBVIOUS
<1>6. \A q \in OutQue : g[q] = First(q) /\ g[q] \in emptyQue[q] /\ g[q] \in Copy /\ g[q][1] = q
  <2>1. ASSUME NEW q \in OutQue PROVE First(q) \in emptyQue[q]
    BY <2>1, FirstEmpty DEF DupWrap
  <2>2. \A q \in OutQue : emptyQue[q] \subseteq {q} \X (1 .. MaxCopies)
    BY <1>0 DEF CopiesInv, Parted
  <2> QED BY <1>5, <2>1, <2>2, Queues
<1>7. PICK New : New = {g[q] : q \in OutQue}
  OBVIOUS
<1>8. /\ dupCount' = [dupCount EXCEPT ![f0] = NumOutQue]
      /\ org' = [c \in Copy |-> IF c \in New THEN f0 ELSE org[c]]
      /\ outList' = [q \in OutQue |-> Append(outList[q], g[q])]
      /\ emptyQue' = [q \in OutQue |-> emptyQue[q] \ New]
      /\ inList' = Tail(inList) /\ outId' = 0
      /\ dupPc' = IF Len(inList) = 1 THEN "put" ELSE "wrap"
  <2>1. {First(q) : q \in OutQue} = New
    BY <1>6, <1>7
  <2>2. [q \in OutQue |-> Append(outList[q], First(q))]
        = [q \in OutQue |-> Append(outList[q], g[q])]
    BY <1>6
  <2> QED BY <1>3, <2>1, <2>2 DEF DupWrap
<1>9. \A q \in OutQue : /\ emptyQue'[q] = emptyQue[q] \ {g[q]}
                        /\ outList'[q] = Append(outList[q], g[q])
  <2>1. \A q \in OutQue : \A c \in emptyQue[q] : c \in New <=> c = g[q]
    <3>1. \A q \in OutQue : \A c \in emptyQue[q] : c[1] = q
      BY <1>0, Queues DEF CopiesInv, Parted
    <3> QED BY <1>6, <1>7, <3>1
  <2> QED BY <1>8, <2>1
<1>10. \A q \in OutQue : /\ Append(outList[q], g[q]) \in Seq(Copy) /\ Append(outList[q], g[q]) # <<>>
                         /\ IsInjective(outList'[q])
                         /\ Range(outList'[q]) = Range(outList[q]) \cup {g[q]}
  <2> SUFFICES ASSUME NEW q \in OutQue
               PROVE  /\ Append(outList[q], g[q]) \in Seq(Copy) /\ Append(outList[q], g[q]) # <<>>
                      /\ IsInjective(Append(outList[q], g[q]))
                      /\ Range(Append(outList[q], g[q])) = Range(outList[q]) \cup {g[q]}
    BY <1>9
  <2>1. outList[q] \in Seq(Copy) /\ IsInjective(outList[q]) /\ g[q] \in Copy
    BY <1>0, <1>6 DEF TypeOK, CopiesInv
  <2>2. g[q] \notin Range(outList[q])
    BY <1>0, <1>6 DEF CopiesInv, Parted
  <2> QED BY <2>1, <2>2, QueueAppend
<1>11. TypeOK'
  <2>1. outList' \in [OutQue -> Seq(Copy)] /\ emptyQue' \in [OutQue -> SUBSET Copy]
    BY <1>0, <1>8, <1>10 DEF TypeOK
  <2>2. org' \in [Copy -> Frame \cup {NoFrame}]
    BY <1>0, <1>8 DEF TypeOK
  <2>3. dupCount' \in [Frame -> 0 .. NumOutQue]
    BY <1>0, <1>8, NumOutQueAssumption DEF TypeOK
  <2>4. inList' \in Seq(Frame) /\ dupPc' \in {"put", "wrap"} /\ outId' \in OutQue
    BY <1>4, <1>8, Queues
  <2> QED BY <1>0, <1>1, <2>1, <2>2, <2>3, <2>4 DEF TypeOK
<1>12. LoopInv'
  <2>1. Len(inList) \in Nat /\ (Len(inList) = 1 <=> Tail(inList) = <<>>)
    <3>1. \A s \in Seq(Frame) : s = <<>> <=> Len(s) = 0
      BY EmptySeq
    <3> QED BY <1>2, <1>4, <3>1, LenProperties
  <2> QED BY <1>8, <1>9, <1>10, <2>1 DEF LoopInv
<1>13. \A q \in OutQue : Using(q)' = Using(q) \cup {g[q]}
  <2>1. \A q \in OutQue : InReturn(q)' = InReturn(q)
    BY <1>1 DEF InReturn, Rest
  <2>2. ASSUME NEW q \in OutQue PROVE Using(q)' = Using(q) \cup {g[q]}
    <3>1. Range(outList'[q]) = Range(outList[q]) \cup {g[q]}
      BY <1>10
    <3>2. fullQue'[q] = fullQue[q] /\ held'[q] = held[q] /\ InReturn(q)' = InReturn(q)
      BY <1>1, <2>1
    <3> QED BY <3>1, <3>2 DEF Using
  <2> QED BY <2>2
<1>14. \A q \in OutQue : g[q] \notin Using(q)
  <2>1. \A q \in OutQue : InReturn(q) \subseteq Range(ret[q])
    BY DEF InReturn, Rest, Range
  <2> QED BY <1>0, <1>6, <2>1 DEF CopiesInv, Parted, Using
<1>15. \A c \in Copy : c \in Using(c[1]) => c \notin New
  BY <1>6, <1>7, <1>14
<1>16. CopiesOf(f0) = {}
  <2>1. Cardinality(CopiesOf(f0)) = 0
    BY <1>0, <1>3 DEF FramesInv, CountInv
  <2> QED BY <2>1, CopiesFinite, FS_EmptySet
<1>17. CopiesOf(f0)' = New
  <2>1. ASSUME NEW c \in CopiesOf(f0)' PROVE c \in New
    <3>1. c \in Copy /\ c[1] \in OutQue /\ c \in Using(c[1])' /\ org'[c] = f0
      BY <2>1 DEF CopiesOf, Copy
    <3>2. c \in Using(c[1]) \/ c = g[c[1]]
      BY <1>13, <3>1
    <3> QED BY <1>7, <1>8, <1>16, <3>1, <3>2 DEF CopiesOf
  <2>2. ASSUME NEW c \in New PROVE c \in CopiesOf(f0)'
    <3>1. PICK q \in OutQue : c = g[q]
      BY <1>7, <2>2
    <3>2. c \in Copy /\ c[1] = q /\ c \in Using(q)' /\ org'[c] = f0
      BY <1>6, <1>8, <1>13, <2>2, <3>1
    <3> QED BY <3>2 DEF CopiesOf
  <2> QED BY <2>1, <2>2
<1>18. ASSUME NEW f \in Frame, f # f0 PROVE CopiesOf(f)' = CopiesOf(f)
  <2>1. ASSUME NEW c \in Copy
        PROVE  c \in Using(c[1])' /\ org'[c] = f <=> c \in Using(c[1]) /\ org[c] = f
    <3>1. c[1] \in OutQue
      BY DEF Copy
    <3>2. CASE c \in New
      BY <1>8, <1>15, <1>18, <3>2
    <3>3. CASE c \notin New
      BY <1>7, <1>8, <1>13, <3>1, <3>3
    <3> QED BY <3>2, <3>3
  <2> QED BY <2>1 DEF CopiesOf
<1>19. Cardinality(New) = NumOutQue
  <2>1. g \in [OutQue -> New]
    BY <1>5, <1>7
  <2>2. g \in Bijection(OutQue, New)
    BY <1>6, <1>7, <2>1 DEF Bijection, Injection, Surjection, IsInjective
  <2> QED BY <2>2, Queues, FS_Bijection DEF ExistsBijection
<1>20. /\ dupCount'[f0] = NumOutQue
       /\ \A f \in Frame \ {f0} : dupCount'[f] = dupCount[f]
  BY <1>0, <1>8 DEF TypeOK
<1>21. CountInv'
  BY <1>0, <1>17, <1>18, <1>19, <1>20 DEF CountInv
<1>22. ReturnInv'
  BY <1>0, <1>1 DEF ReturnInv
<1>23. CopiesInv'
  <2>1. ASSUME NEW q \in OutQue
        PROVE  Parted({q} \X (1 .. MaxCopies), emptyQue'[q], Range(outList'[q]),
                      Range(fullQue[q]), held[q], Range(ret[q]))
    <3>1. Parted({q} \X (1 .. MaxCopies), emptyQue[q], Range(outList[q]),
                   Range(fullQue[q]), held[q], Range(ret[q]))
      BY <1>0 DEF CopiesInv
    <3>2. /\ emptyQue'[q] = emptyQue[q] \ {g[q]} /\ g[q] \in emptyQue[q]
          /\ Range(outList'[q]) = Range(outList[q]) \cup {g[q]}
      BY <1>6, <1>9, <1>10
    <3> QED BY <3>1, <3>2 DEF Parted
  <2> QED BY <1>0, <1>1, <1>10, <2>1 DEF CopiesInv
<1>24. \A q \in OutQue : \A c \in Range(ret[q]) \cup Using(q) : c \notin New /\ org'[c] = org[c]
  <2> SUFFICES ASSUME NEW q \in OutQue, NEW c \in Range(ret[q]) \cup Using(q)
               PROVE  c \notin New /\ org'[c] = org[c]
    OBVIOUS
  <2>1. c \in Range(outList[q]) \cup Range(fullQue[q]) \cup held[q] \cup Range(ret[q])
    BY DEF Using, InReturn, Rest, Range
  <2>2. c \in {q} \X (1 .. MaxCopies) /\ c \notin emptyQue[q]
    BY <1>0, <2>1 DEF CopiesInv, Parted
  <2>3. c \in Copy /\ c[1] = q
    BY <2>2, Queues
  <2>4. c \notin New
    BY <1>6, <1>7, <2>2, <2>3
  <2> QED BY <1>8, <2>3, <2>4
<1>25. OrgInv'
  <2>1. \A q \in OutQue : org'[g[q]] = f0
    BY <1>6, <1>7, <1>8
  <2>2. ASSUME NEW q \in OutQue,
               NEW c \in Range(outList'[q]) \cup Range(fullQue'[q]) \cup held'[q] \cup Range(ret'[q])
        PROVE  org'[c] \in Frame
    <3>1. c \in Range(outList[q]) \cup Range(fullQue[q]) \cup held[q] \cup Range(ret[q]) \/ c = g[q]
      BY <1>1, <1>10, SMTT(30)
    <3>2. c = g[q] \/ (org'[c] = org[c] /\ org[c] \in Frame)
      BY <1>0, <1>24, <3>1 DEF OrgInv, Using
    <3> QED BY <2>1, <3>2
  <2>3. ASSUME NEW q \in OutQue, NEW c \in Using(q) PROVE org[c] # f0
    <3>1. c \in {q} \X (1 .. MaxCopies)
      BY <1>0 DEF CopiesInv, Parted, Using, InReturn, Rest, Range
    <3>2. c \in Copy /\ c[1] = q
      BY <3>1, Queues
    <3> QED BY <1>16, <3>2 DEF CopiesOf
  <2>4. ASSUME NEW q \in OutQue, NEW c \in Using(q)', NEW d \in Using(q)', org'[c] = org'[d]
        PROVE  c = d
    <3>1. (c \in Using(q) \/ c = g[q]) /\ (d \in Using(q) \/ d = g[q])
      BY <1>13
    <3>2. \A x \in Using(q) : org'[x] = org[x] /\ org[x] # f0
      BY <1>24, <2>3
    <3> QED BY <1>0, <2>1, <2>4, <3>1, <3>2 DEF OrgInv
  <2>5. \A q \in OutQue : \A c, d \in Range(ret'[q]) : org'[c] = org'[d] => c = d
    BY <1>0, <1>1, <1>24 DEF OrgInv
  <2> QED BY <2>2, <2>4, <2>5 DEF OrgInv
<1>26. FramesInv'
  <2>1. source \subseteq Frame /\ Range(inList) \subseteq Frame
        /\ \A q \in OutQue : freeList[q] \subseteq Frame
    BY <1>0, RangeOfSeq DEF TypeOK
  <2>2. IsInjective(inList') /\ source' = source /\ Range(inList') = Range(inList) \ {f0}
    BY <1>1, <1>4, <1>8
  <2>3. f0 \notin source /\ \A q \in OutQue : f0 \notin freeList[q]
    BY <1>0, <1>3 DEF FramesInv
  <2>4. \A q \in OutQue : pc[q] = "test" => org'[ret[q][pos[q]]] = org[ret[q][pos[q]]]
    BY <1>24, AtCopy
  <2> QED BY <1>0, <1>1, <1>20, <2>1, <2>2, <2>3, <2>4 DEF FramesInv
<1> QED
  BY <1>11, <1>12, <1>21, <1>22, <1>23, <1>25, <1>26 DEF DupInv

-----------------------------------------------------------------------------
(* What holds in every reachable state.                                     *)

LEMMA InitDup == Init => DupInv
<1> SUFFICES ASSUME Init PROVE DupInv
  OBVIOUS
<1>1. Range(<<>>) = {} /\ IsInjective(<<>>)
  BY EmptyQueue
<1>2. TypeOK
  BY Queues DEF Init, TypeOK
<1>3. LoopInv
  BY DEF Init, LoopInv
<1>4. ReturnInv
  BY Queues DEF Init, ReturnInv, None
<1>5. CopiesInv
  BY <1>1 DEF Init, CopiesInv, Parted
<1>6. \A q \in OutQue : Using(q) = {}
  BY <1>1 DEF Init, Using, InReturn, Rest
<1>7. OrgInv
  BY <1>1, <1>6 DEF Init, OrgInv
<1>8. FramesInv
  BY <1>1 DEF Init, FramesInv
<1>9. CountInv
  <2>1. \A f \in Frame : CopiesOf(f) = {}
    BY <1>6 DEF CopiesOf, Copy
  <2> QED BY <2>1, FS_EmptySet DEF Init, CountInv
<1> QED
  BY <1>2, <1>3, <1>4, <1>5, <1>7, <1>8, <1>9 DEF DupInv

\* The counts, the places of the copies and those of the frames hold together:
\* none of them could be shown to last without the others.
THEOREM Inductive == Spec => []DupInv
<1>1. Init => DupInv
  BY InitDup
<1>2. DupInv /\ [Next]_vars => DupInv'
  <2>1. ASSUME DupInv, UNCHANGED vars PROVE DupInv'
    <3>1. /\ UNCHANGED <<source, dupPc, outId, inList, outList, emptyQue, fullQue, org>>
          /\ UNCHANGED <<dupCount, lock, notice, pc, held, ret, pos, freeList>>
      BY <2>1 DEF vars, dup, next
    <3>2. \A q \in OutQue : Rest(q)' = Rest(q)
      BY <3>1 DEF Rest
    <3>3. LoopInv' /\ CopiesInv' /\ OrgInv' /\ CountInv'
      BY <2>1, <3>1, <3>2, SamePlaces
    <3>4. TypeOK' /\ ReturnInv' /\ FramesInv'
      BY <2>1, <3>1 DEF DupInv, TypeOK, ReturnInv, FramesInv
    <3> QED BY <3>3, <3>4 DEF DupInv
  <2> QED
    BY <2>1, DupGetInv, DupWrapInv, DupPutInv, DupNotifyInv, WakeInv, GetFullInv,
       StartReturnInv, PendInv, DecInv, TestInv, UpInv, PutEmptyInv
       DEF Next, Dup, Receive, PutEmptyFrames
<1> QED
  BY <1>1, <1>2, PTL DEF Spec

\* In every reachable state the lists, queues and counts have their types: no
\* count goes below 0, and DupLink_putEmptyFrames never reads past its list.
THEOREM TypeCorrect == Spec => []TypeOK
<1>1. DupInv => TypeOK
  BY DEF DupInv
<1> QED
  BY <1>1, Inductive, PTL

\* What is left of a list from one of its places on.
LEMMA FromPlace ==
    ASSUME NEW S, NEW s \in Seq(S), NEW m \in 1 .. Len(s) + 1
    PROVE  Range(SubSeq(s, m, Len(s))) = {s[i] : i \in m .. Len(s)}
<1>1. Len(s) \in Nat /\ m \in Nat /\ m >= 1 /\ m <= Len(s) + 1
  BY LenProperties
<1>2. \A i \in m .. Len(s) : s[i] \in S
  BY <1>1, ElementOfSeq
<1>3. /\ SubSeq(s, m, Len(s)) \in Seq(S)
      /\ Len(SubSeq(s, m, Len(s))) = Len(s) - m + 1
      /\ \A i \in 1 .. Len(s) - m + 1 : SubSeq(s, m, Len(s))[i] = s[m + i - 1]
  BY <1>1, <1>2, SubSeqProperties
<1>4. Range(SubSeq(s, m, Len(s))) = {SubSeq(s, m, Len(s))[i] : i \in 1 .. Len(s) - m + 1}
  BY <1>3, RangeEquality
<1>5. ASSUME NEW i \in 1 .. Len(s) - m + 1 PROVE m + i - 1 \in m .. Len(s)
  BY <1>1
<1>6. ASSUME NEW i \in m .. Len(s)
      PROVE  i - m + 1 \in 1 .. Len(s) - m + 1 /\ m + (i - m + 1) - 1 = i
  BY <1>1
<1>7. ASSUME NEW i \in m .. Len(s) PROVE s[i] \in Range(SubSeq(s, m, Len(s)))
  <2>1. SubSeq(s, m, Len(s))[i - m + 1] = s[i]
    BY <1>3, <1>6
  <2> QED BY <1>4, <1>6, <2>1
<1>8. ASSUME NEW x \in Range(SubSeq(s, m, Len(s))) PROVE \E i \in m .. Len(s) : x = s[i]
  <2>1. PICK i \in 1 .. Len(s) - m + 1 : x = s[m + i - 1]
    BY <1>3, <1>4
  <2> QED BY <1>5, <2>1
<1> QED
  BY <1>7, <1>8

LEMMA UncountedLeft == DupInv => \A q \in OutQue : Uncounted(q) = InReturn(q)
<1> SUFFICES ASSUME DupInv, NEW q \in OutQue PROVE Uncounted(q) = InReturn(q)
  OBVIOUS
<1>1. CASE pc[q] = "pend"
  BY <1>1 DEF Uncounted, InReturn, Rest, Range
<1>2. CASE pc[q] \in {"dec", "test"}
  <2>1. /\ ret[q] \in Seq(Copy) /\ Len(ret[q]) \in Nat /\ DOMAIN ret[q] = 1 .. Len(ret[q])
        /\ pos[q] \in 1 .. Len(ret[q]) /\ pos[q] \in Nat
    BY <1>2, AtCopy
  <2>2. pos[q] \in 1 .. Len(ret[q]) + 1 /\ pos[q] + 1 \in 1 .. Len(ret[q]) + 1
    BY <2>1
  <2>3. CASE pc[q] = "dec"
    <3>1. Rest(q) = pos[q] .. Len(ret[q])
      BY <2>1, <2>3 DEF Rest
    <3>2. Uncounted(q) = Range(SubSeq(ret[q], pos[q], Len(ret[q])))
      BY <2>3 DEF Uncounted
    <3> QED BY <2>1, <2>2, <3>1, <3>2, FromPlace DEF InReturn
  <2>4. CASE pc[q] = "test"
    <3>1. Rest(q) = pos[q] + 1 .. Len(ret[q])
      BY <2>1, <2>4 DEF Rest
    <3>2. Uncounted(q) = Range(SubSeq(ret[q], pos[q] + 1, Len(ret[q])))
      BY <2>4 DEF Uncounted
    <3> QED BY <2>1, <2>2, <3>1, <3>2, FromPlace DEF InReturn
  <2> QED BY <1>2, <2>3, <2>4
<1>3. CASE pc[q] \notin {"pend", "dec", "test"}
  BY <1>3 DEF Uncounted, InReturn, Rest
<1> QED
  BY <1>1, <1>2, <1>3

\* Of the copies of a queue that are not empty an output uses at most one of
\* each frame that is wrapped, and at most one of each frame is on its way back.
LEMMA CopyLeft ==
    ASSUME MaxCopies >= 2 * Cardinality(Frame), DupInv, dupPc = "wrap", NEW q \in OutQue
    PROVE  emptyQue[q] # {}
<1> SUFFICES ASSUME emptyQue[q] = {} PROVE FALSE
  OBVIOUS
<1>1. TypeOK /\ CopiesInv /\ OrgInv /\ CountInv /\ FramesInv /\ IsFiniteSet(Frame)
  BY FrameAssumption DEF DupInv
<1>2. inList \in Seq(Frame) /\ inList # <<>>
  BY DEF DupInv, TypeOK, LoopInv
<1>3. PICK f0 \in Frame : f0 \in Range(inList)
  BY <1>2, QueueTake
<1>4. CopiesOf(f0) = {}
  <2>1. Cardinality(CopiesOf(f0)) = 0
    BY <1>1, <1>3 DEF FramesInv, CountInv
  <2> QED BY <2>1, CopiesFinite, FS_EmptySet
<1>5. \A c \in Using(q) \cup Range(ret[q]) : c \in {q} \X (1 .. MaxCopies) /\ org[c] \in Frame
  <2>1. \A c \in Using(q) \cup Range(ret[q]) :
           c \in Range(outList[q]) \cup Range(fullQue[q]) \cup held[q] \cup Range(ret[q])
    BY DEF Using, InReturn, Rest, Range
  <2> QED BY <1>1, <2>1 DEF CopiesInv, Parted, OrgInv
<1>6. \A c \in Using(q) : org[c] # f0
  BY <1>4, <1>5, Queues DEF CopiesOf
<1>7. IsFiniteSet(Using(q)) /\ Cardinality(Using(q)) <= Cardinality(Frame \ {f0})
  <2>1. [c \in Using(q) |-> org[c]] \in Injection(Using(q), Frame \ {f0})
    BY <1>1, <1>5, <1>6 DEF OrgInv, Injection, IsInjective
  <2> QED BY <1>1, <2>1, FS_Injection, FS_RemoveElement
<1>8. IsFiniteSet(Range(ret[q])) /\ Cardinality(Range(ret[q])) <= Cardinality(Frame)
  <2>1. [c \in Range(ret[q]) |-> org[c]] \in Injection(Range(ret[q]), Frame)
    BY <1>1, <1>5 DEF OrgInv, Injection, IsInjective
  <2> QED BY <1>1, <2>1, FS_Injection
<1>9. Using(q) \cup Range(ret[q]) = {q} \X (1 .. MaxCopies)
  <2>1. Parted({q} \X (1 .. MaxCopies), emptyQue[q], Range(outList[q]),
                 Range(fullQue[q]), held[q], Range(ret[q]))
    BY <1>1 DEF CopiesInv
  <2> QED BY <1>5, <2>1 DEF Parted, Using
<1>10. Cardinality({q} \X (1 .. MaxCopies)) = MaxCopies
  <2>1. /\ IsFiniteSet({q}) /\ Cardinality({q}) = 1
        /\ IsFiniteSet(1 .. MaxCopies) /\ Cardinality(1 .. MaxCopies) = MaxCopies
    <3>1. MaxCopies \in Int /\ 1 \in Int /\ ~(1 > MaxCopies) /\ MaxCopies - 1 + 1 = MaxCopies
      BY FrameAssumption
    <3> QED BY <3>1, FS_Singleton, FS_Interval
  <2>2. Cardinality({q} \X (1 .. MaxCopies)) = Cardinality({q}) * Cardinality(1 .. MaxCopies)
    BY <2>1, FS_Product
  <2> QED BY <2>1, <2>2, FrameAssumption
<1>11. Cardinality(Frame \ {f0}) = Cardinality(Frame) - 1 /\ Cardinality(Frame) \in Nat
  BY <1>1, <1>3, FS_RemoveElement, FS_CardinalityType
<1>12. Cardinality(Using(q) \cup Range(ret[q])) <= Cardinality(Using(q)) + Cardinality(Range(ret[q]))
  <2>1. /\ Cardinality(Using(q)) \in Nat /\ Cardinality(Range(ret[q])) \in Nat
        /\ IsFiniteSet(Using(q) \cap Range(ret[q]))
    BY <1>7, <1>8, FS_CardinalityType, FS_Intersection
  <2>2. Cardinality(Using(q) \cap Range(ret[q])) \in Nat
    BY <2>1, FS_CardinalityType
  <2>3. Cardinality(Using(q) \cup Range(ret[q]))
        = Cardinality(Using(q)) + Cardinality(Range(ret[q]))
          - Cardinality(Using(q) \cap Range(ret[q]))
    BY <1>7, <1>8, FS_Union
  <2> QED BY <2>1, <2>2, <2>3
<1>13. Cardinality(Using(q)) \in Nat /\ Cardinality(Range(ret[q])) \in Nat
  BY <1>7, <1>8, FS_CardinalityType
<1>14. \A u, r, n, m \in Nat : m >= 2 * n /\ u <= n - 1 /\ r <= n => ~(m <= u + r)
  OBVIOUS
<1>15. MaxCopies <= Cardinality(Using(q)) + Cardinality(Range(ret[q]))
  BY <1>9, <1>10, <1>12
<1> QED
  BY <1>7, <1>8, <1>11, <1>13, <1>14, <1>15, FrameAssumption

\* In every reachable state the count of a frame is the number of its copies
\* still in use, however the next links' returns interleave; and with two
\* copies for each frame of the previous link the copy that
\* DupLink_drvProcessFrames asserts is there.
THEOREM AlwaysCountsLiveCopies ==
    ASSUME MaxCopies >= 2 * Cardinality(Frame)
    PROVE  Spec => []CountsLiveCopies
<1>1. DupInv => CountsLiveCopies
  <2> SUFFICES ASSUME DupInv PROVE CountsLiveCopies
    OBVIOUS
  <2>1. \A q \in OutQue : Live(q) = Using(q)
    BY UncountedLeft DEF Live, Using
  <2>2. \A f \in Frame : {c \in Copy : c \in Live(c[1]) /\ org[c] = f} = CopiesOf(f)
    BY <2>1 DEF CopiesOf, Copy
  <2>3. \A f \in Frame :
           dupCount[f] = Cardinality({c \in Copy : c \in Live(c[1]) /\ org[c] = f})
    BY <2>2 DEF DupInv, CountInv
  <2> QED BY <2>3, CopyLeft DEF CountsLiveCopies
<1> QED
  BY <1>1, Inductive, PTL

\* No frame lies in an output queue with its next link asleep: every
\* NEW_DATA of System_sendLinkCmd comes after the frames it is about.
THEOREM AlwaysNoStrandedFrame == Spec => []NoStrandedFrame
<1>1. Init => NoStrandedFrame
  BY DEF Init, NoStrandedFrame
<1>2. DupInv /\ NoStrandedFrame /\ [Next]_vars => NoStrandedFrame'
  <2> SUFFICES ASSUME DupInv, NoStrandedFrame, [Next]_vars PROVE NoStrandedFrame'
    OBVIOUS
  <2>0. TypeOK
    BY DEF DupInv
  <2>1. CASE DupGet \/ DupWrap
    BY <2>1 DEF DupGet, DupWrap, NoStrandedFrame, next
  <2>2. CASE DupPut
    BY <2>0, <2>2 DEF DupPut, NoStrandedFrame, TypeOK, next
  <2>3. CASE DupNotify
    BY <2>0, <2>3 DEF DupNotify, NoStrandedFrame, TypeOK, next
  <2>4. ASSUME NEW q \in OutQue, Receive(q) PROVE NoStrandedFrame'
    BY <2>0, <2>4 DEF Receive, Wake, GetFull, Goto, NoStrandedFrame, TypeOK, dup
  <2>5. ASSUME NEW q \in OutQue, StartReturn(q) \/ PutEmptyFrames(q) PROVE NoStrandedFrame'
    <3>1. UNCHANGED <<dupPc, outId, fullQue, notice>> /\ pc[q] # "get"
      BY <2>5 DEF StartReturn, PutEmptyFrames, Pend, Dec, Test, Up, PutEmpty, dup
    <3>2. \A r \in OutQue \ {q} : pc'[r] = pc[r]
      BY <2>0, <2>5
         DEF StartReturn, PutEmptyFrames, Pend, Dec, Test, Up, PutEmpty, Goto, TypeOK
    <3> QED BY <3>1, <3>2 DEF NoStrandedFrame
  <2>6. CASE UNCHANGED vars
    BY <2>6 DEF NoStrandedFrame, vars, dup, next
  <2> QED
    BY <2>1, <2>2, <2>3, <2>4, <2>5, <2>6 DEF Next, Dup
<1> QED
  BY <1>1, <1>2, Inductive, PTL DEF Spec

-----------------------------------------------------------------------------
(* The refinement of FrameBroadcast.  The line of an output is what lies    *)
(* before it: the frames of its queue, of the list that is being put in it, *)
(* and those that are not yet wrapped.                                      *)
Line(q) == (Mapped(org, fullQue[q]) \o Mapped(org, outList[q])) \o inList
Used(q) == {org[c] : c \in held[q] \cup InReturn(q)}

\* A copy in use is not empty, and not of a list whose frames are counted off.
LEMMA UsedCopies ==
    ASSUME DupInv, NEW q \in OutQue, NEW c \in Using(q)
    PROVE  /\ c \in Copy /\ c[1] = q /\ c \notin emptyQue[q] /\ org[c] \in Frame
           /\ pc[q] = "empty" => c \notin Range(ret[q])
<1>1. c \in Range(outList[q]) \cup Range(fullQue[q]) \cup held[q] \cup Range(ret[q])
  BY DEF Using, InReturn, Rest, Range
<1>2. c \in {q} \X (1 .. MaxCopies) /\ c \notin emptyQue[q] /\ org[c] \in Frame
  BY <1>1 DEF DupInv, CopiesInv, Parted, OrgInv
<1>3. ASSUME pc[q] = "empty" PROVE c \notin Range(ret[q])
  <2>1. c \in Range(outList[q]) \cup Range(fullQue[q]) \cup held[q]
    BY <1>3 DEF Using, InReturn, Rest
  <2> QED BY <2>1 DEF DupInv, CopiesInv, Parted
<1> QED
  BY <1>2, <1>3, Queues

LEMMA LineSeq ==
    ASSUME DupInv, NEW q \in OutQue
    PROVE  /\ Mapped(org, fullQue[q]) \in Seq(Frame) /\ Mapped(org, outList[q]) \in Seq(Frame)
           /\ inList \in Seq(Frame) /\ Line(q) \in Seq(Frame)
           /\ Len(Mapped(org, fullQue[q])) = Len(fullQue[q])
           /\ Range(Mapped(org, fullQue[q])) = {org[c] : c \in Range(fullQue[q])}
           /\ Range(Line(q)) = {org[c] : c \in Range(fullQue[q]) \cup Range(outList[q])}
                               \cup Range(inList)
<1>1. fullQue[q] \in Seq(Copy) /\ outList[q] \in Seq(Copy) /\ inList \in Seq(Frame)
  BY DEF DupInv, TypeOK
<1>2. \A c \in Range(fullQue[q]) \cup Range(outList[q]) : org[c] \in Frame
  BY DEF DupInv, OrgInv
<1>3. PICK a \in Seq(Frame) : a = Mapped(org, fullQue[q])
  BY <1>1, <1>2, MappedSeq
<1>4. PICK b \in Seq(Frame) : b = Mapped(org, outList[q])
  BY <1>1, <1>2, MappedSeq
<1>5. Len(a) = Len(fullQue[q]) /\ Range(a) = {org[c] : c \in Range(fullQue[q])}
  BY <1>1, <1>2, <1>3, MappedSeq
<1>6. Range(b) = {org[c] : c \in Range(outList[q])}
  BY <1>1, <1>2, <1>4, MappedSeq
<1>7. PICK w \in Seq(Frame) : w = a \o b /\ Range(w) = Range(a) \cup Range(b)
  BY ConcatProperties, RangeConcatenation, ZenonT(30)
<1>8. w \o inList \in Seq(Frame) /\ Range(w \o inList) = Range(w) \cup Range(inList)
  BY <1>1, ConcatProperties, RangeConcatenation
<1>9. Line(q) = w \o inList
  BY <1>3, <1>4, <1>7 DEF Line
<1> QED
  BY <1>1, <1>3, <1>4, <1>5, <1>6, <1>7, <1>8, <1>9, ZenonT(30)

\* What a step may show of itself.
Hides == source' = source /\ \A q \in OutQue : Line(q)' = Line(q) /\ Used(q)' = Used(q)
Gives == \E s \in Lists(source) :
            /\ source' = source \ Range(s)
            /\ \A q \in OutQue : Line(q)' = Line(q) \o s /\ Used(q)' = Used(q)
Takes == \E q \in OutQue : \E n \in 1 .. Len(Line(q)) :
            /\ source' = source
            /\ Line(q)' = SubSeq(Line(q), n + 1, Len(Line(q)))
            /\ Used(q)' = Used(q) \cup {Line(q)[i] : i \in 1 .. n}
            /\ \A r \in OutQue \ {q} : Line(r)' = Line(r) /\ Used(r)' = Used(r)
Returns == \E q \in OutQue, f \in Frame :
            /\ f \in Used(q) /\ Used(q)' = Used(q) \ {f}
            /\ source' = source /\ \A r \in OutQue : Line(r)' = Line(r)
            /\ \A r \in OutQue \ {q} : Used(r)' = Used(r)
Reclaims == \E S \in (SUBSET Frame) \ {{}} :
            /\ \A f \in S : f \notin source /\ \A q \in OutQue : f \notin Used(q) \cup Range(Line(q))
            /\ source' = source \cup S
            /\ \A q \in OutQue : Line(q)' = Line(q) /\ Used(q)' = Used(q)

LEMMA DupGetGives == ASSUME DupInv, DupGet PROVE Gives
<1>1. PICK s \in Lists(source) : inList' = s /\ source' = source \ Range(s)
  BY DEF DupGet
<1>2. UNCHANGED <<outList, fullQue, held, ret, pos, pc, org>> /\ inList = <<>>
  BY DEF DupGet, next, DupInv, LoopInv
<1>3. ASSUME NEW q \in OutQue PROVE Line(q)' = Line(q) \o s /\ Used(q)' = Used(q)
  <2>1. PICK a \in Seq(Frame) : a = Mapped(org, fullQue[q]) \o Mapped(org, outList[q])
    BY LineSeq, ConcatProperties
  <2>2. Line(q) = a \o <<>> /\ Line(q)' = a \o s
    BY <1>1, <1>2, <2>1 DEF Line
  <2>3. a \o <<>> = a
    BY ConcatEmptySeq
  <2>4. Used(q)' = Used(q)
    BY <1>2 DEF Used, InReturn, Rest
  <2> QED BY <2>2, <2>3, <2>4
<1> QED
  BY <1>1, <1>3 DEF Gives

LEMMA DupWrapHides == ASSUME DupInv, DupWrap PROVE Hides
<1>1. UNCHANGED <<source, fullQue, held, ret, pos, pc>> /\ TypeOK /\ dupPc = "wrap"
  BY DEF DupWrap, next, DupInv
<1>2. inList \in Seq(Frame) /\ inList # <<>>
  BY <1>1 DEF DupInv, TypeOK, LoopInv
<1>3. PICK f \in Frame : f = Head(inList)
  BY <1>2, QueueTake
<1>4. \A q \in OutQue : First(q) \in emptyQue[q] /\ First(q) \in Copy /\ First(q)[1] = q
  <2>1. ASSUME NEW q \in OutQue PROVE First(q) \in emptyQue[q]
    BY <2>1, FirstEmpty DEF DupWrap
  <2>2. \A q \in OutQue : emptyQue[q] \subseteq {q} \X (1 .. MaxCopies)
    BY DEF DupInv, CopiesInv, Parted
  <2> QED BY <2>1, <2>2, Queues
<1>5. \A q \in OutQue : outList'[q] = Append(outList[q], First(q)) /\ org'[First(q)] = f
  BY <1>3, <1>4 DEF DupWrap
<1>6. ASSUME NEW q \in OutQue, NEW c \in Using(q) PROVE org'[c] = org[c] /\ org[c] \in Frame
  <2>1. c \in Copy /\ c[1] = q /\ c \notin emptyQue[q] /\ org[c] \in Frame
    BY <1>6, UsedCopies
  <2>2. c \notin {First(r) : r \in OutQue}
    BY <1>4, <2>1
  <2> QED BY <2>1, <2>2 DEF DupWrap
<1>7. inList' = Tail(inList)
  BY DEF DupWrap
<1>8. ASSUME NEW q \in OutQue PROVE Line(q)' = Line(q) /\ Used(q)' = Used(q)
  <2>1. fullQue[q] \in Seq(Copy) /\ outList[q] \in Seq(Copy)
    BY <1>1 DEF TypeOK
  <2>2. \A c \in Range(fullQue[q]) \cup Range(outList[q]) : org'[c] = org[c] /\ org[c] \in Frame
    BY <1>6 DEF Using
  <2>3. Mapped(org', fullQue[q]) = Mapped(org, fullQue[q])
    BY <2>2 DEF Mapped, Range
  <2>4. Mapped(org', outList[q]) = Mapped(org, outList[q])
    BY <2>2 DEF Mapped, Range
  <2>5. PICK o1 : o1 = org'
    OBVIOUS
  <2>6. PICK e \in Copy : e = First(q)
    BY <1>4
  <2>7. PICK s \in Seq(Copy) : s = outList[q]
    BY <2>1
  <2>8. Mapped(o1, Append(s, e)) = Append(Mapped(o1, s), o1[e])
    BY MappedAppend
  <2>9. PICK a \in Seq(Frame) : a = Mapped(org, fullQue[q])
    BY LineSeq
  <2>10. PICK b \in Seq(Frame) : b = Mapped(org, outList[q])
    BY LineSeq
  <2>11. Line(q) = (a \o b) \o inList
    BY <2>9, <2>10 DEF Line
  <2>12. Mapped(org', outList'[q]) = Append(b, f)
    BY <1>5, <2>4, <2>5, <2>6, <2>7, <2>8, <2>10
  <2>13. Line(q)' = (a \o Append(b, f)) \o Tail(inList)
    BY <1>1, <1>7, <2>3, <2>9, <2>12 DEF Line
  <2>14. a \o Append(b, f) = Append(a \o b, f)
    <3>1. Append(b, f) = b \o <<f>> /\ Append(a \o b, f) = (a \o b) \o <<f>>
      BY ConcatProperties, AppendIsConcat
    <3>2. <<f>> \in Seq(Frame)
      OBVIOUS
    <3> QED BY <3>1, <3>2, ConcatAssociative
  <2>15. Append(a \o b, f) \o Tail(inList) = (a \o b) \o inList
    <3>1. a \o b \in Seq(Frame)
      BY ConcatProperties
    <3> QED BY <1>2, <1>3, <3>1, PassOn
  <2>16. Used(q)' = Used(q)
    <3>1. InReturn(q)' = InReturn(q)
      BY <1>1 DEF InReturn, Rest
    <3>2. \A c \in held[q] \cup InReturn(q) : org'[c] = org[c]
      BY <1>6 DEF Using
    <3> QED BY <1>1, <3>1, <3>2 DEF Used
  <2> QED BY <2>11, <2>13, <2>14, <2>15, <2>16
<1> QED
  BY <1>1, <1>8 DEF Hides

LEMMA DupPutHides == ASSUME DupInv, DupPut PROVE Hides
<1>1. UNCHANGED <<source, inList, org, held, ret, pos, pc>> /\ TypeOK
  BY DEF DupPut, next, DupInv
<1>2. PICK q0 \in OutQue : q0 = outId
  BY <1>1 DEF TypeOK
<1>3. fullQue[q0] \in Seq(Copy) /\ outList[q0] \in Seq(Copy) /\ outList[q0] # <<>>
  BY <1>1, <1>2, Queues DEF DupPut, DupInv, TypeOK, LoopInv
<1>4. PICK c \in Copy : c = Head(outList[q0]) /\ c \in Range(outList[q0])
  BY <1>3, QueueTake
<1>5. /\ fullQue'[q0] = Append(fullQue[q0], c) /\ outList'[q0] = Tail(outList[q0])
      /\ \A q \in OutQue \ {q0} : fullQue'[q] = fullQue[q] /\ outList'[q] = outList[q]
  BY <1>1, <1>2, <1>4 DEF DupPut, TypeOK
<1>6. \A q \in OutQue : Used(q)' = Used(q)
  BY <1>1 DEF Used, InReturn, Rest
<1>7. Line(q0)' = Line(q0)
  <2>1. PICK a \in Seq(Frame) : a = Mapped(org, fullQue[q0])
    BY LineSeq
  <2>2. PICK b \in Seq(Frame) : b = Mapped(org, outList[q0])
    BY LineSeq
  <2>3. Mapped(org, Append(fullQue[q0], c)) = Append(a, org[c])
    <3>1. PICK s \in Seq(Copy) : s = fullQue[q0]
      BY <1>3
    <3>2. Mapped(org, Append(s, c)) = Append(Mapped(org, s), org[c])
      BY MappedAppend
    <3> QED BY <2>1, <3>1, <3>2
  <2>4. Mapped(org, Tail(outList[q0])) = Tail(b) /\ b # <<>> /\ Head(b) = org[c]
    <3>1. PICK s \in Seq(Copy) : s = outList[q0] /\ s # <<>>
      BY <1>3
    <3>2. /\ Mapped(org, s) # <<>> /\ Head(Mapped(org, s)) = org[Head(s)]
          /\ Mapped(org, Tail(s)) = Tail(Mapped(org, s))
      BY <3>1, MappedTake
    <3> QED BY <1>4, <2>2, <3>1, <3>2
  <2>5. Append(a, Head(b)) \o Tail(b) = a \o b
    BY <2>4, PassOn
  <2>6. Line(q0) = (a \o b) \o inList /\ Line(q0)' = (Append(a, org[c]) \o Tail(b)) \o inList
    BY <1>1, <1>5, <2>1, <2>2, <2>3, <2>4 DEF Line
  <2> QED BY <2>4, <2>5, <2>6
<1>8. \A q \in OutQue \ {q0} : Line(q)' = Line(q)
  BY <1>1, <1>5 DEF Line
<1> QED
  BY <1>1, <1>6, <1>7, <1>8 DEF Hides

LEMMA GetFullTakes == ASSUME DupInv, NEW q \in OutQue, GetFull(q) PROVE Takes \/ Hides
<1>1. /\ UNCHANGED <<source, inList, outList, org, ret, pos>> /\ TypeOK
      /\ pc[q] = "get" /\ fullQue[q] \in Seq(Copy)
  BY DEF GetFull, dup, DupInv, TypeOK
<1>2. /\ pc'[q] = "idle" /\ fullQue'[q] = <<>> /\ held'[q] = held[q] \cup Range(fullQue[q])
      /\ \A r \in OutQue \ {q} : pc'[r] = pc[r] /\ fullQue'[r] = fullQue[r] /\ held'[r] = held[r]
  BY <1>1 DEF GetFull, Goto, TypeOK
<1>3. \A r \in OutQue : InReturn(r)' = InReturn(r)
  <2>1. \A r \in OutQue : Rest(r)' = Rest(r)
    BY <1>1, <1>2 DEF Rest
  <2> QED BY <1>1, <2>1 DEF InReturn
<1>4. \A r \in OutQue \ {q} : Line(r)' = Line(r) /\ Used(r)' = Used(r)
  BY <1>1, <1>2, <1>3 DEF Line, Used
<1>5. PICK a \in Seq(Frame) : a = Mapped(org, fullQue[q]) /\ Len(a) = Len(fullQue[q])
                              /\ Range(a) = {org[c] : c \in Range(fullQue[q])}
  BY LineSeq
<1>6. PICK b \in Seq(Frame) : b = Mapped(org, outList[q])
  BY LineSeq
<1>7. inList \in Seq(Frame)
  BY LineSeq
<1>8. PICK t \in Seq(Frame) : t = b \o inList
  BY <1>7, ConcatProperties
<1>9. Line(q) = a \o t
  BY <1>5, <1>6, <1>7, <1>8, ConcatAssociative, SMTT(30) DEF Line
<1>10. Line(q)' = t
  <2>1. Mapped(org, <<>>) = <<>>
    BY DEF Mapped
  <2>2. <<>> \o b = b
    BY ConcatEmptySeq
  <2> QED BY <1>1, <1>2, <1>6, <1>8, <2>1, <2>2 DEF Line
<1>11. Used(q)' = Used(q) \cup Range(a)
  <2>1. Used(q)' = {org[c] : c \in held[q] \cup Range(fullQue[q]) \cup InReturn(q)}
    BY <1>1, <1>2, <1>3 DEF Used
  <2> QED BY <1>5, <2>1 DEF Used
<1>12. /\ SubSeq(a \o t, Len(a) + 1, Len(a \o t)) = t
       /\ {(a \o t)[i] : i \in 1 .. Len(a)} = Range(a)
  BY TakeFirst
<1>13. CASE a = <<>>
  <2>1. a \o t = t /\ Range(a) = {}
    BY <1>13, ConcatEmptySeq, EmptyQueue
  <2>2. Line(q)' = Line(q) /\ Used(q)' = Used(q)
    BY <1>9, <1>10, <1>11, <2>1
  <2> QED BY <1>1, <1>4, <2>2 DEF Hides
<1>14. CASE a # <<>>
  <2>1. Len(a) \in 1 .. Len(a \o t)
    <3>1. Len(a) \in Nat \ {0} /\ Len(t) \in Nat /\ Len(a \o t) = Len(a) + Len(t)
      BY <1>14, EmptySeq, LenProperties, ConcatProperties
    <3> QED BY <3>1
  <2>2. /\ Line(q)' = SubSeq(Line(q), Len(a) + 1, Len(Line(q)))
        /\ Used(q)' = Used(q) \cup {Line(q)[i] : i \in 1 .. Len(a)}
    BY <1>9, <1>10, <1>11, <1>12
  <2> QED BY <1>1, <1>4, <1>9, <2>1, <2>2 DEF Takes
<1> QED
  BY <1>13, <1>14

LEMMA DecReturns == ASSUME DupInv, NEW q \in OutQue, Dec(q) PROVE Returns
<1>1. /\ UNCHANGED <<source, inList, outList, fullQue, org, held, ret, pos>>
      /\ TypeOK /\ CopiesInv /\ OrgInv /\ pc[q] = "dec"
  BY DEF Dec, dup, DupInv
<1>2. pc'[q] = "test" /\ \A r \in OutQue \ {q} : pc'[r] = pc[r]
  BY <1>1 DEF Dec, Goto, TypeOK
<1>3. /\ pos[q] \in DOMAIN ret[q] /\ IsInjective(ret[q])
      /\ Len(ret[q]) \in Nat /\ DOMAIN ret[q] = 1 .. Len(ret[q]) /\ pos[q] \in Nat
  BY <1>1, AtCopy
<1>4. PICK c0 \in Copy : c0 = ret[q][pos[q]] /\ c0 \in Range(ret[q])
  BY <1>1, AtCopy
<1>5. PICK f \in Frame : f = org[c0]
  BY <1>1, <1>4, AtCopy
<1>6. c0 \in InReturn(q) /\ InReturn(q)' = InReturn(q) \ {c0}
  <2>1. Rest(q)' = Rest(q) \ {pos[q]} /\ pos[q] \in Rest(q) /\ Rest(q) \subseteq DOMAIN ret[q]
    BY <1>1, <1>2, <1>3 DEF Rest
  <2>2. \A i \in DOMAIN ret[q] : ret[q][i] = c0 => i = pos[q]
    BY <1>3, <1>4 DEF IsInjective
  <2> QED BY <1>1, <1>4, <2>1, <2>2 DEF InReturn
<1>7. c0 \notin held[q]
  BY <1>1, <1>4 DEF CopiesInv, Parted
<1>8. \A c \in held[q] \cup InReturn(q) : org[c] = f => c = c0
  BY <1>1, <1>5, <1>6 DEF OrgInv, Using
<1>9. f \in Used(q) /\ Used(q)' = Used(q) \ {f}
  <2>1. held'[q] \cup InReturn(q)' = (held[q] \cup InReturn(q)) \ {c0}
    BY <1>1, <1>6, <1>7
  <2>2. Used(q)' = {org[c] : c \in (held[q] \cup InReturn(q)) \ {c0}}
    BY <1>1, <2>1 DEF Used
  <2> QED BY <1>5, <1>6, <1>8, <2>2 DEF Used
<1>10. \A r \in OutQue \ {q} : Used(r)' = Used(r)
  <2>1. \A r \in OutQue \ {q} : Rest(r)' = Rest(r)
    BY <1>1, <1>2 DEF Rest
  <2> QED BY <1>1, <2>1 DEF Used, InReturn
<1>11. \A r \in OutQue : Line(r)' = Line(r)
  BY <1>1 DEF Line
<1> QED
  BY <1>1, <1>9, <1>10, <1>11 DEF Returns

LEMMA UpReclaims == ASSUME DupInv, NEW q \in OutQue, Up(q) PROVE Reclaims \/ Hides
<1>1. /\ UNCHANGED <<inList, outList, fullQue, org, held, ret>>
      /\ TypeOK /\ FramesInv /\ CountInv /\ pc[q] = "up" /\ freeList[q] \subseteq Frame
  BY DEF Up, dup, DupInv, TypeOK
<1>2. source' = source \cup freeList[q]
  BY DEF Up
<1>3. pc'[q] = "empty" /\ \A r \in OutQue \ {q} : pc'[r] = pc[r] /\ pos'[r] = pos[r]
  BY <1>1 DEF Up, Goto, TypeOK
<1>4. \A r \in OutQue : Line(r)' = Line(r) /\ Used(r)' = Used(r)
  <2>1. \A r \in OutQue : Rest(r)' = Rest(r)
    BY <1>1, <1>3 DEF Rest
  <2> QED BY <1>1, <2>1 DEF Line, Used, InReturn
<1>5. ASSUME NEW f \in freeList[q]
      PROVE  f \notin source /\ \A r \in OutQue : f \notin Used(r) \cup Range(Line(r))
  <2>1. f \in Frame /\ f \notin source \cup Range(inList) /\ dupCount[f] = 0
    BY <1>1 DEF FramesInv
  <2>2. CopiesOf(f) = {}
    <3>1. Cardinality(CopiesOf(f)) = 0
      BY <1>1, <2>1 DEF CountInv
    <3> QED BY <3>1, CopiesFinite, FS_EmptySet
  <2>3. ASSUME NEW r \in OutQue, NEW c \in Using(r) PROVE org[c] # f
    <3>1. c \in Copy /\ c[1] = r
      BY UsedCopies
    <3> QED BY <2>2, <3>1 DEF CopiesOf
  <2>4. ASSUME NEW r \in OutQue PROVE f \notin Used(r) \cup Range(Line(r))
    <3>1. Range(Line(r)) = {org[c] : c \in Range(fullQue[r]) \cup Range(outList[r])} \cup Range(inList)
      BY LineSeq
    <3> QED BY <2>1, <2>3, <3>1 DEF Using, Used
  <2> QED BY <2>1, <2>4
<1>6. CASE freeList[q] = {}
  BY <1>2, <1>4, <1>6 DEF Hides
<1>7. CASE freeList[q] # {}
  BY <1>1, <1>2, <1>4, <1>5, <1>7 DEF Reclaims
<1> QED
  BY <1>6, <1>7

LEMMA RestHides ==
    ASSUME DupInv, NEW q \in OutQue,
           \/ Wake(q) \/ StartReturn(q) \/ Pend(q) \/ Test(q) \/ PutEmpty(q)
    PROVE  Hides
<1>0. TypeOK
  BY DEF DupInv
<1>1. UNCHANGED <<source, inList, outList, fullQue>>
  BY DEF Wake, StartReturn, Pend, Test, PutEmpty, dup
<1>2. \A r \in OutQue \ {q} : pc'[r] = pc[r] /\ pos'[r] = pos[r] /\ ret'[r] = ret[r] /\ held'[r] = held[r]
  BY <1>0 DEF Wake, StartReturn, Pend, Test, PutEmpty, Goto, TypeOK
<1>3. \A r \in OutQue \ {q} : InReturn(r)' = InReturn(r)
  BY <1>2 DEF InReturn, Rest
<1>4. held'[q] \cup InReturn(q)' = held[q] \cup InReturn(q)
  <2>1. CASE Wake(q)
    <3>1. UNCHANGED <<held, ret, pos>> /\ pc[q] = "idle" /\ pc'[q] = "get"
      BY <1>0, <2>1 DEF Wake, Goto, TypeOK
    <3> QED BY <3>1 DEF InReturn, Rest
  <2>2. CASE StartReturn(q)
    <3>1. ret[q] = <<>> /\ pc[q] = "idle" /\ pc'[q] = "pend" /\ IsFiniteSet(held[q])
      <4>1. IsFiniteSet(held[q])
        BY <1>0, Queues, FS_Subset DEF TypeOK
      <4> QED BY <1>0, <2>2, <4>1 DEF StartReturn, Goto, TypeOK, DupInv, ReturnInv
    <3>2. PICK s \in Lists(held[q]) : ret'[q] = s /\ held'[q] = held[q] \ Range(s)
      BY <1>0, <2>2 DEF StartReturn, TypeOK
    <3>3. Range(s) \subseteq held[q]
      BY <3>1, <3>2, ListOf
    <3>4. InReturn(q) = {} /\ InReturn(q)' = Range(s)
      BY <3>1, <3>2 DEF InReturn, Rest, Range
    <3> QED BY <3>2, <3>3, <3>4
  <2>3. CASE Pend(q) \/ Test(q)
    <3>1. UNCHANGED <<held, ret>>
      BY <2>3 DEF Pend, Test
    <3>2. ret[q] \in Seq(Copy) /\ pos[q] \in Nat /\ (pc[q] = "pend" => pos[q] = 1)
      BY <1>0 DEF TypeOK, DupInv, ReturnInv
    <3>3. Len(ret[q]) \in Nat /\ DOMAIN ret[q] = 1 .. Len(ret[q])
      BY <3>2, LenProperties
    <3>4. \/ pc[q] = "pend" /\ pc'[q] = "dec" /\ pos'[q] = pos[q]
          \/ /\ pc[q] = "test" /\ pos'[q] = pos[q] + 1
             /\ pc'[q] = IF pos[q] = Len(ret[q]) THEN "up" ELSE "dec"
      BY <1>0, <2>3 DEF Pend, Test, Goto, TypeOK
    <3>5. Rest(q)' = Rest(q)
      BY <3>1, <3>2, <3>3, <3>4 DEF Rest
    <3> QED BY <3>1, <3>5 DEF InReturn
  <2>4. CASE PutEmpty(q)
    <3>1. UNCHANGED held /\ pc[q] = "empty" /\ pc'[q] = "idle"
      BY <1>0, <2>4 DEF PutEmpty, Goto, TypeOK
    <3> QED BY <3>1 DEF InReturn, Rest
  <2> QED BY <2>1, <2>2, <2>3, <2>4
<1>5. \A r \in OutQue : \A c \in Using(r) : org'[c] = org[c]
  <2>1. CASE PutEmpty(q)
    <3>1. Range(ret[q]) \subseteq {q} \X (1 .. MaxCopies) /\ pc[q] = "empty"
      BY <2>1 DEF PutEmpty, DupInv, CopiesInv, Parted
    <3>2. ASSUME NEW r \in OutQue, NEW c \in Using(r) PROVE c \in Copy /\ c \notin Range(ret[q])
      <4>1. c \in Copy /\ c[1] = r /\ (pc[r] = "empty" => c \notin Range(ret[r]))
        BY UsedCopies
      <4>2. \A d \in Range(ret[q]) : d[1] = q
        BY <3>1, Queues
      <4> QED BY <3>1, <4>1, <4>2
    <3> QED BY <2>1, <3>2 DEF PutEmpty
  <2>2. CASE ~PutEmpty(q)
    BY <2>2 DEF Wake, StartReturn, Pend, Test
  <2> QED BY <2>1, <2>2
<1>6. ASSUME NEW r \in OutQue PROVE Line(r)' = Line(r) /\ Used(r)' = Used(r)
  <2>1. \A c \in Range(fullQue[r]) \cup Range(outList[r]) \cup held[r] \cup InReturn(r) :
           org'[c] = org[c]
    BY <1>5 DEF Using
  <2>2. Mapped(org', fullQue[r]) = Mapped(org, fullQue[r])
    BY <2>1 DEF Mapped, Range
  <2>3. Mapped(org', outList[r]) = Mapped(org, outList[r])
    BY <2>1 DEF Mapped, Range
  <2>4. Line(r)' = Line(r)
    BY <1>1, <2>2, <2>3 DEF Line
  <2>5. held'[r] \cup InReturn(r)' = held[r] \cup InReturn(r)
    BY <1>2, <1>3, <1>4
  <2>6. Used(r)' = {org'[c] : c \in held[r] \cup InReturn(r)}
    BY <2>5 DEF Used
  <2> QED BY <2>1, <2>4, <2>6 DEF Used
<1> QED
  BY <1>1, <1>6 DEF Hides

LEMMA StepShows ==
    ASSUME DupInv, [Next]_vars PROVE Hides \/ Gives \/ Takes \/ Returns \/ Reclaims
<1>1. CASE UNCHANGED vars
  BY <1>1 DEF Hides, Line, Used, InReturn, Rest, vars, dup, next
<1>2. CASE DupNotify
  BY <1>2 DEF DupNotify, Hides, Line, Used, InReturn, Rest, next
<1>3. CASE DupGet \/ DupWrap \/ DupPut
  BY <1>3, DupGetGives, DupWrapHides, DupPutHides
<1>4. CASE \E q \in OutQue : Receive(q) \/ StartReturn(q) \/ PutEmptyFrames(q)
  BY <1>4, RestHides, GetFullTakes, DecReturns, UpReclaims DEF Receive, PutEmptyFrames
<1> QED
  BY <1>1, <1>2, <1>3, <1>4 DEF Next, Dup

\* The link implements FrameBroadcast: each output gets every frame once and
\* in order, and a frame is back with the previous link, to be filled again,
\* only when every output is done with it.
THEOREM Implements == Spec => ImplementsBroadcast
<1> DEFINE queue == [q \in OutQue |-> Orgs(fullQue[q]) \o Orgs(outList[q]) \o inList]
           used == [q \in OutQue |-> {org[c] : c \in held[q] \cup Uncounted(q)}]
<1>1. Init => Broadcast!Init
  <2> SUFFICES ASSUME Init PROVE Broadcast!Init
    OBVIOUS
  <2>1. \A q \in OutQue : Orgs(fullQue[q]) = <<>> /\ Orgs(outList[q]) = <<>>
    BY DEF Init, Orgs
  <2>2. \A q \in OutQue : held[q] \cup Uncounted(q) = {}
    BY DEF Init, Uncounted
  <2>3. <<>> \o <<>> \o <<>> = <<>>
    OBVIOUS
  <2> QED BY <2>1, <2>2, <2>3 DEF Init, Broadcast!Init
<1>2. DupInv => \A q \in OutQue : queue[q] = Line(q) /\ used[q] = Used(q)
  BY UncountedLeft DEF Line, Used, Mapped, Orgs
<1>3. DupInv' => (\A q \in OutQue : queue[q] = Line(q) /\ used[q] = Used(q))'
  BY <1>2, PTL
<1>4. DupInv /\ DupInv' /\ [Next]_vars => [Broadcast!Next]_<<source, queue, used>>
  <2> SUFFICES ASSUME DupInv, DupInv', [Next]_vars
               PROVE  Broadcast!Next \/ (source' = source /\ queue' = queue /\ used' = used)
    OBVIOUS
  <2>1. /\ \A q \in OutQue : queue[q] = Line(q) /\ used[q] = Used(q)
        /\ \A q \in OutQue : queue'[q] = Line(q)' /\ used'[q] = Used(q)'
    BY <1>2, <1>3
  <2>2. /\ DOMAIN queue = OutQue /\ queue = [q \in OutQue |-> queue[q]]
        /\ DOMAIN used = OutQue /\ used = [q \in OutQue |-> used[q]]
    OBVIOUS
  <2>3. /\ DOMAIN queue' = OutQue /\ queue' = [q \in OutQue |-> queue'[q]]
        /\ DOMAIN used' = OutQue /\ used' = [q \in OutQue |-> used'[q]]
    OBVIOUS
  <2>4. (\A q \in OutQue : queue'[q] = queue[q]) => queue' = queue
    <3> HIDE DEF queue
    <3> QED BY <2>2, <2>3
  <2>5. (\A q \in OutQue : used'[q] = used[q]) => used' = used
    <3> HIDE DEF used
    <3> QED BY <2>2, <2>3
  <2>6. CASE Hides
    BY <2>1, <2>4, <2>5, <2>6 DEF Hides
  <2>7. CASE Gives
    <3>1. PICK s \in Lists(source) :
             /\ source' = source \ Range(s)
             /\ \A q \in OutQue : Line(q)' = Line(q) \o s /\ Used(q)' = Used(q)
      BY <2>7 DEF Gives
    <3>2. s \in Broadcast!Lists(source) /\ Broadcast!Range(s) = Range(s)
      <4>1. \A f : IsInjective(f) <=> Broadcast!IsInjective(f)
        BY DEF IsInjective, Broadcast!IsInjective
      <4>2. \A S : Broadcast!Cardinality(S) = Cardinality(S)
        BY DEF Cardinality, Broadcast!Cardinality
      <4>3. s \in Broadcast!Lists(source)
        BY <3>1, <4>1, <4>2 DEF Lists, Broadcast!Lists
      <4> QED BY <4>3 DEF Range, Broadcast!Range
    <3>3. queue' = [q \in OutQue |-> queue[q] \o s]
      <4>1. \A q \in OutQue : queue'[q] = queue[q] \o s
        BY <2>1, <3>1
      <4> HIDE DEF queue
      <4> QED BY <2>3, <4>1
    <3>4. used' = used
      BY <2>1, <2>5, <3>1
    <3>5. Broadcast!Give(s)
      BY <3>1, <3>2, <3>3, <3>4 DEF Broadcast!Give
    <3> QED BY <3>2, <3>5 DEF Broadcast!Next
  <2>8. CASE Takes
    <3>1. PICK q \in OutQue : \E n \in 1 .. Len(Line(q)) :
             /\ source' = source
             /\ Line(q)' = SubSeq(Line(q), n + 1, Len(Line(q)))
             /\ Used(q)' = Used(q) \cup {Line(q)[i] : i \in 1 .. n}
             /\ \A r \in OutQue \ {q} : Line(r)' = Line(r) /\ Used(r)' = Used(r)
      BY <2>8 DEF Takes
    <3>2. PICK n \in 1 .. Len(Line(q)) :
             /\ source' = source
             /\ Line(q)' = SubSeq(Line(q), n + 1, Len(Line(q)))
             /\ Used(q)' = Used(q) \cup {Line(q)[i] : i \in 1 .. n}
             /\ \A r \in OutQue \ {q} : Line(r)' = Line(r) /\ Used(r)' = Used(r)
      BY <3>1
    <3>3. /\ queue'[q] = SubSeq(queue[q], n + 1, Len(queue[q]))
          /\ used'[q] = used[q] \cup {queue[q][i] : i \in 1 .. n}
          /\ \A r \in OutQue \ {q} : queue'[r] = queue[r] /\ used'[r] = used[r]
          /\ n \in 1 .. Len(queue[q])
      <4> HIDE DEF used, queue
      <4>1. queue[q] = Line(q) /\ used[q] = Used(q)
        BY <2>1
      <4>2. queue'[q] = Line(q)' /\ used'[q] = Used(q)'
        BY <2>1
      <4> QED BY <2>1, <3>2, <4>1, <4>2
    <3>4. queue' = [queue EXCEPT ![q] = SubSeq(queue[q], n + 1, Len(queue[q]))]
      <4> HIDE DEF queue
      <4> QED BY <2>2, <2>3, <3>3
    <3>5. used' = [used EXCEPT ![q] = used[q] \cup {queue[q][i] : i \in 1 .. n}]
      <4> HIDE DEF used, queue
      <4> QED BY <2>2, <2>3, <3>3
    <3>6. Broadcast!Take(q, n)
      BY <3>2, <3>4, <3>5 DEF Broadcast!Take
    <3> QED BY <3>3, <3>6 DEF Broadcast!Next
  <2>9. CASE Returns
    <3>1. PICK q \in OutQue, f \in Frame :
             /\ f \in Used(q) /\ Used(q)' = Used(q) \ {f}
             /\ source' = source /\ \A r \in OutQue : Line(r)' = Line(r)
             /\ \A r \in OutQue \ {q} : Used(r)' = Used(r)
      BY <2>9 DEF Returns
    <3>2. queue' = queue
      BY <2>1, <2>4, <3>1
    <3>3. /\ f \in used[q] /\ used'[q] = used[q] \ {f}
          /\ \A r \in OutQue \ {q} : used'[r] = used[r]
      BY <2>1, <3>1
    <3>4. used' = [used EXCEPT ![q] = used[q] \ {f}]
      <4> HIDE DEF used
      <4> QED BY <2>2, <2>3, <3>3
    <3>5. Broadcast!Return(q, f)
      BY <3>1, <3>2, <3>3, <3>4 DEF Broadcast!Return
    <3> QED BY <3>5 DEF Broadcast!Next
  <2>10. CASE Reclaims
    <3>1. PICK S \in (SUBSET Frame) \ {{}} :
             /\ \A f \in S : f \notin source
                             /\ \A q \in OutQue : f \notin Used(q) \cup Range(Line(q))
             /\ source' = source \cup S
             /\ \A q \in OutQue : Line(q)' = Line(q) /\ Used(q)' = Used(q)
      BY <2>10 DEF Reclaims
    <3>2. queue' = queue /\ used' = used
      BY <2>1, <2>4, <2>5, <3>1
    <3>3. \A f \in S : \A q \in OutQue : f \notin used[q] /\ f \notin Range(queue[q])
      BY <2>1, <3>1
    <3>4. \A f \in S : ~Broadcast!InFlight(f)
      BY <3>3 DEF Broadcast!InFlight, Broadcast!Range, Range
    <3>5. Broadcast!Reclaim(S)
      BY <3>1, <3>2, <3>4 DEF Broadcast!Reclaim
    <3> QED BY <3>5 DEF Broadcast!Next
  <2> QED BY <2>6, <2>7, <2>8, <2>9, <2>10, StepShows
<1> QED
  BY <1>1, <1>4, Inductive, PTL DEF Spec, ImplementsBroadcast, Broadcast!Spec, Broadcast!vars

=============================================================================
