------------------------- MODULE MergeSelectProofs -------------------------
(* Theorems of MergeSelect, for every number of queues, channels and tasks, *)
(* every set of frames, every map and every change of it.                   *)
EXTENDS MergeSelect, OwningLemmas

-----------------------------------------------------------------------------
(* The merged numbers.                                                      *)

\* FirstCh is the function its recursion describes.
LEMMA FirstChannels ==
    /\ FirstCh \in [InQue -> Nat]
    /\ \A q \in InQue : FirstCh[q] = IF q = 0 THEN 0 ELSE FirstCh[q - 1] + NumCh[q - 1]
<1> DEFINE Starts(n, f) == \A q \in 0 .. n : f[q] = IF q = 0 THEN 0 ELSE f[q - 1] + NumCh[q - 1]
           Without == {n \in InQue : ~ \E f \in [0 .. n -> Nat] : Starts(n, f)}
<1>1. NumInQue \in Nat \ {0} /\ NumCh \in [InQue -> Nat] /\ InQue = 0 .. NumInQue - 1
  BY NumInQueAssumption DEF InQue
<1>2. Without = {}
  <2> SUFFICES ASSUME Without # {} PROVE FALSE
    OBVIOUS
  <2>1. PICK n \in Without : \A j \in Without : n <= j
    <3>1. Without \subseteq Nat
      BY <1>1
    <3> HIDE DEF Without
    <3> QED BY <3>1, LeastNatural
  <2>2. n \in Nat /\ n \in InQue
    BY <1>1, <2>1
  <2>3. CASE n = 0
    <3>1. [q \in 0 .. 0 |-> 0] \in [0 .. 0 -> Nat] /\ Starts(0, [q \in 0 .. 0 |-> 0])
      OBVIOUS
    <3> QED BY <2>1, <2>3, <3>1
  <2>4. CASE n # 0
    <3>1. n - 1 \in InQue /\ n - 1 \notin Without
      <4> HIDE DEF Without
      <4> QED BY <1>1, <2>1, <2>2, <2>4
    <3>2. PICK f \in [0 .. n - 1 -> Nat] : Starts(n - 1, f)
      BY <3>1
    <3> DEFINE g == [q \in 0 .. n |-> IF q = n THEN f[n - 1] + NumCh[n - 1] ELSE f[q]]
    <3>3. f[n - 1] \in Nat /\ NumCh[n - 1] \in Nat
      BY <1>1, <2>2, <2>4, <3>1
    <3>4. g \in [0 .. n -> Nat]
      BY <2>2, <3>3
    <3>5. Starts(n, g)
      <4> SUFFICES ASSUME NEW q \in 0 .. n
                   PROVE  g[q] = IF q = 0 THEN 0 ELSE g[q - 1] + NumCh[q - 1]
        OBVIOUS
      <4>1. CASE q = n
        BY <2>2, <2>4, <4>1
      <4>2. CASE q # n
        <5>1. q \in 0 .. n - 1 /\ g[q] = f[q]
          BY <2>2, <4>2
        <5>2. q # 0 => g[q - 1] = f[q - 1]
          BY <2>2, <5>1
        <5> QED BY <3>2, <5>1, <5>2
      <4> QED BY <4>1, <4>2
    <3> HIDE DEF g, Starts
    <3> QED BY <2>1, <3>4, <3>5
  <2> QED BY <2>3, <2>4
<1>3. PICK f \in [InQue -> Nat] : Starts(NumInQue - 1, f)
  <2>1. NumInQue - 1 \in InQue
    BY <1>1
  <2> HIDE DEF Starts
  <2> QED BY <1>1, <1>2, <2>1
<1>4. f = [q \in InQue |-> IF q = 0 THEN 0 ELSE f[q - 1] + NumCh[q - 1]]
  BY <1>1, <1>3
<1>5. FirstCh = [q \in InQue |-> IF q = 0 THEN 0 ELSE FirstCh[q - 1] + NumCh[q - 1]]
  BY <1>4 DEF FirstCh
<1>6. ASSUME NEW q \in InQue PROVE FirstCh[q] = IF q = 0 THEN 0 ELSE FirstCh[q - 1] + NumCh[q - 1]
  BY <1>5
<1> DEFINE Differs == {n \in InQue : FirstCh[n] # f[n]}
<1>7. Differs = {}
  <2> SUFFICES ASSUME Differs # {} PROVE FALSE
    OBVIOUS
  <2>1. PICK n \in Differs : \A j \in Differs : n <= j
    <3>1. Differs \subseteq Nat
      BY <1>1
    <3> HIDE DEF Differs
    <3> QED BY <3>1, LeastNatural
  <2>2. n \in Nat /\ n \in InQue /\ (n # 0 => n - 1 \in InQue /\ n - 1 \notin Differs)
    BY <1>1, <2>1
  <2>3. FirstCh[n] = f[n]
    BY <1>1, <1>3, <1>6, <2>2
  <2> QED BY <2>1, <2>3
<1>8. FirstCh = f
  <2>1. FirstCh = [q \in InQue |-> FirstCh[q]]
    BY <1>5
  <2> QED BY <1>7, <2>1
<1> QED
  BY <1>6, <1>8

\* The channels of each queue come after those of the queues before it.
LEMMA ChannelsFollow ==
    \A p, q \in InQue : p < q => FirstCh[p] + NumCh[p] <= FirstCh[q]
<1> DEFINE Wrong == {q \in InQue : \E p \in InQue : p < q /\ ~(FirstCh[p] + NumCh[p] <= FirstCh[q])}
<1>1. NumInQue \in Nat \ {0} /\ NumCh \in [InQue -> Nat] /\ InQue = 0 .. NumInQue - 1
  BY NumInQueAssumption DEF InQue
<1>2. SUFFICES ASSUME Wrong # {} PROVE FALSE
  OBVIOUS
<1>3. PICK q \in Wrong : \A j \in Wrong : q <= j
  <2>1. Wrong \subseteq Nat
    BY <1>1
  <2> HIDE DEF Wrong
  <2> QED BY <1>2, <2>1, LeastNatural
<1>4. PICK p \in InQue : p < q /\ ~(FirstCh[p] + NumCh[p] <= FirstCh[q])
  BY <1>3
<1>5. q - 1 \in InQue /\ q - 1 \notin Wrong /\ q # 0 /\ q \in InQue
  BY <1>1, <1>3, <1>4
<1>6. FirstCh[q] = FirstCh[q - 1] + NumCh[q - 1] /\ FirstCh[q - 1] \in Nat /\ NumCh[q - 1] \in Nat
      /\ FirstCh[p] \in Nat /\ NumCh[p] \in Nat
  BY <1>1, <1>5, FirstChannels
<1>7. p = q - 1 \/ p < q - 1
  BY <1>1, <1>4, <1>5
<1>8. p < q - 1 => FirstCh[p] + NumCh[p] <= FirstCh[q - 1]
  BY <1>5
<1> HIDE DEF Wrong
<1> QED
  BY <1>4, <1>6, <1>7, <1>8

\* A merged number names the input queue and the channel it was made from.
LEMMA ChannelMaps ==
    ASSUME NEW q \in InQue, NEW ch \in 0 .. NumCh[q] - 1
    PROVE  /\ inQueChNumMap[q][ch] \in OutCh
           /\ outQueChToInQueMap[inQueChNumMap[q][ch]] = q
           /\ outQueChMap[inQueChNumMap[q][ch]] = ch
<1>1. NumInQue \in Nat \ {0} /\ NumCh \in [InQue -> Nat] /\ InQue = 0 .. NumInQue - 1
  BY NumInQueAssumption DEF InQue
<1>2. FirstCh \in [InQue -> Nat]
  BY FirstChannels
<1>3. PICK n \in Nat : n = FirstCh[q] + ch /\ n = inQueChNumMap[q][ch]
  BY <1>1, <1>2 DEF inQueChNumMap
<1>4. n \in OutCh
  <2>1. NumInQue - 1 \in InQue /\ (q = NumInQue - 1 \/ q < NumInQue - 1)
    BY <1>1
  <2>2. q < NumInQue - 1 => FirstCh[q] + NumCh[q] <= FirstCh[NumInQue - 1]
    BY <2>1, ChannelsFollow
  <2>3. FirstCh[q] \in Nat /\ NumCh[q] \in Nat
        /\ FirstCh[NumInQue - 1] \in Nat /\ NumCh[NumInQue - 1] \in Nat
    BY <1>1, <1>2, <2>1
  <2> QED BY <1>3, <2>1, <2>2, <2>3 DEF OutCh
<1>5. ASSUME NEW p \in InQue, n - FirstCh[p] \in 0 .. NumCh[p] - 1 PROVE p = q
  <2>1. FirstCh[q] \in Nat /\ NumCh[q] \in Nat /\ FirstCh[p] \in Nat /\ NumCh[p] \in Nat
    BY <1>1, <1>2
  <2>2. /\ p < q => FirstCh[p] + NumCh[p] <= FirstCh[q]
        /\ q < p => FirstCh[q] + NumCh[q] <= FirstCh[p]
    BY ChannelsFollow
  <2>3. ~(p < q) /\ ~(q < p)
    BY <1>3, <1>5, <2>1, <2>2
  <2> QED BY <1>1, <2>3
<1>6. n - FirstCh[q] \in 0 .. NumCh[q] - 1
  BY <1>1, <1>2, <1>3
<1>7. outQueChToInQueMap[n] = q
  BY <1>4, <1>5, <1>6 DEF outQueChToInQueMap
<1>8. outQueChMap[n] = ch
  BY <1>1, <1>2, <1>3, <1>4, <1>7 DEF outQueChMap
<1> QED
  BY <1>3, <1>4, <1>7, <1>8

-----------------------------------------------------------------------------
(* The inductive invariant.  The select link's lists, the queues behind it  *)
(* and what its next links use take the place of the merge link's `held',   *)
(* so that every step, of either link, moves frames between two of nine     *)
(* kinds of places.  The tasks' control says which lists are empty when     *)
(* they are filled again, and the numbers on the frames, with those the     *)
(* select link keeps, are what the sorting of returned frames relies on.    *)

Kind == {"source", "inFull", "outQue", "inList", "unmapped", "queue", "using", "ret", "free"}

At(f) ==
    [source   |-> {q \in InQue : f \in source[q]},
     inFull   |-> {q \in InQue : f \in Range(inFull[q])},
     outQue   |-> {f} \cap Range(outQue),
     inList   |-> {f} \cap Range(inList),
     unmapped |-> {f} \cap Range(unmapped),
     queue    |-> {q \in Sel!OutQue : f \in Range(outFrameQue[q])},
     using    |-> {q \in Sel!OutQue : f \in using[q]},
     ret      |-> {t \in Caller : f \in Range(ret[t])},
     free     |-> {q \in InQue : /\ lock # None /\ f \in Range(freeList[q])
                                 /\ pc[lock] = "up" => q >= upQue[lock]}]

SoleInv == \A f \in Frame : Sole(Tagged(At(f)))

\* What is held for the merge link is in the select link or behind it.
HeldInv == \A f \in Frame :
    f \in held <=> \/ f \in Range(inList) \cup Range(unmapped)
                   \/ \E q \in Sel!OutQue : f \in Range(outFrameQue[q]) \cup using[q]

OnceInv == /\ \A q \in InQue : IsInjective(inFull[q])
           /\ IsInjective(outQue) /\ IsInjective(inList) /\ IsInjective(unmapped)
           /\ \A q \in Sel!OutQue : IsInjective(outFrameQue[q])
           /\ \A t \in Caller : IsInjective(ret[t])

OwnerInv == \A q \in InQue :
    /\ \A f \in source[q] \cup Range(inFull[q]) : Owner[f] = q
    /\ lock # None => \A f \in Range(freeList[q]) : Owner[f] = q

TasksInv ==
    /\ \A t \in Caller : /\ lock = t <=> pc[t] \in {"sort", "up"}
                         /\ ret[t] # <<>> <=> pc[t] \in {"pend", "sort"}
                         /\ pc[t] # "up" => upQue[t] = 0
    /\ getting <=> selPc = "get"
    /\ inList # <<>> <=> selPc = "frames"
    /\ unmapped # <<>> => selPc \in {"frames", "free"}
    /\ selPc = "free" => unmapped # <<>>
    /\ newSelData # {} => selPc \in {"frames", "free", "notify"}
    /\ selPc = "notify" => newSelData # {}

\* The number the merge link would see on each frame.
ChannelsInv == \A f \in Frame :
    Sel!OrgChannel[f] = IF f \in Merged THEN inQueChNumMap[Owner[f]][Chan[f]] ELSE Chan[f]

GraphInv == /\ GraphTypeOK
            /\ SoleInv /\ HeldInv /\ OnceInv /\ OwnerInv
            /\ TasksInv /\ ChannelsInv /\ NoFrameWaits

-----------------------------------------------------------------------------
\* The select link's name for the same operator.
LEMMA SelectRange == \A s : Sel!Range(s) = Range(s)
BY DEF Range, Sel!Range

\* The initial values are of their types.
LEMMA InitTypes == GraphInit => GraphTypeOK
<1> SUFFICES ASSUME GraphInit PROVE GraphTypeOK
  OBVIOUS
<1>1. TypeOK
  <2>1. 0 \in InQue
    BY NumInQueAssumption DEF InQue
  <2>2. /\ source \in [InQue -> SUBSET Frame] /\ chan \in [Frame -> Nat]
        /\ upQue \in [Caller -> InQue] /\ lock \in Caller \cup {None}
    BY <2>1, FrameAssumption DEF GraphInit, Init
  <2>3. inFull \in [InQue -> Seq(Frame)] /\ told \in [InQue -> BOOLEAN]
    BY DEF GraphInit, Init
  <2>4. freeList \in [InQue -> Seq(Frame)] /\ ret \in [Caller -> Seq(Frame)]
    BY DEF GraphInit, Init
  <2>5. pc \in [Caller -> {"idle", "pend", "sort", "up"}]
    BY DEF GraphInit, Init
  <2> QED BY <2>1, <2>2, <2>3, <2>4, <2>5 DEF GraphInit, Init, TypeOK
<1>2. Sel!SelTypeOK
  <2>1. /\ NumOutQue \in Nat \ {0} /\ OutCh \subseteq Nat
        /\ Created \in [Sel!OutQue -> Seq(OutCh)]
    BY SelectAssumption DEF Sel!SelectParameters, Sel!OutQue
  <2>2. ASSUME NEW q \in Sel!OutQue, NEW ch \in Range(Created[q])
        PROVE  Sel!Position(Created[q], ch) \in 1 .. Len(Created[q])
    <3>1. \E i \in DOMAIN Created[q] : Created[q][i] = ch
      BY <2>2 DEF Range
    <3> QED BY <2>1, <3>1 DEF Sel!Position
  <2>3. ASSUME NEW ch \in OutCh PROVE inChInfo[ch] \in Sel!Mapping
    <3>1. CASE \E q \in Sel!OutQue : ch \in Range(Created[q])
      <4> DEFINE q == CHOOSE k \in Sel!OutQue : ch \in Range(Created[k])
      <4>1. q \in Sel!OutQue /\ ch \in Range(Created[q])
        BY <3>1
      <4>2. inChInfo[ch] = [queId |-> q, outChNum |-> Sel!Position(Created[q], ch) - 1]
        BY <3>1, SelectRange DEF GraphInit, Sel!SelInit
      <4> HIDE DEF q
      <4>3. q \in 0 .. NumOutQue + 1 /\ Sel!Position(Created[q], ch) - 1 \in Nat
        BY <2>1, <2>2, <4>1 DEF Sel!OutQue
      <4> QED BY <4>2, <4>3 DEF Sel!Mapping
    <3>2. CASE ~ \E q \in Sel!OutQue : ch \in Range(Created[q])
      <4>1. inChInfo[ch] = Sel!NotMapped
        BY <3>2, SelectRange DEF GraphInit, Sel!SelInit
      <4>2. Sel!NotMapped \in Sel!Mapping
        BY <2>1 DEF Sel!NotMapped, Sel!Mapping
      <4> QED BY <4>1, <4>2
    <3> QED BY <3>1, <3>2
  <2>4. inChInfo \in [OutCh -> Sel!Mapping]
    BY <2>3 DEF GraphInit, Sel!SelInit
  <2>5. prevOutQueChInfo \in [Sel!QueId -> Seq(OutCh)]
    BY <2>1 DEF GraphInit, Sel!SelInit, Sel!QueId, Sel!OutQue
  <2>6. org \in [Frame -> Nat] /\ mail \in [Sel!OutQue -> BOOLEAN]
        /\ taking \in [Sel!OutQue -> BOOLEAN] /\ using \in [Sel!OutQue -> SUBSET Frame]
    BY DEF GraphInit, Sel!SelInit
  <2>7. outFrameQue \in [Sel!OutQue -> Seq(Frame)]
    BY DEF GraphInit, Sel!SelInit
  <2> QED BY <2>4, <2>5, <2>6, <2>7 DEF GraphInit, Sel!SelInit, Sel!SelTypeOK
<1>3. sets \in 0 .. MaxSet
  BY BoundAssumption DEF GraphInit
<1> QED
  BY <1>1, <1>2, <1>3 DEF GraphTypeOK

-----------------------------------------------------------------------------
(* Where a frame is, one kind of place at a time, before and after a step.  *)
LEMMA ByKind ==
    ASSUME NEW f, NEW w
    PROVE  /\ DOMAIN At(f) = Kind
           /\ w \in At(f)["source"] <=> w \in InQue /\ f \in source[w]
           /\ w \in At(f)["inFull"] <=> w \in InQue /\ f \in Range(inFull[w])
           /\ w \in At(f)["outQue"] <=> w = f /\ f \in Range(outQue)
           /\ w \in At(f)["inList"] <=> w = f /\ f \in Range(inList)
           /\ w \in At(f)["unmapped"] <=> w = f /\ f \in Range(unmapped)
           /\ w \in At(f)["queue"] <=> w \in Sel!OutQue /\ f \in Range(outFrameQue[w])
           /\ w \in At(f)["using"] <=> w \in Sel!OutQue /\ f \in using[w]
           /\ w \in At(f)["ret"] <=> w \in Caller /\ f \in Range(ret[w])
           /\ w \in At(f)["free"] <=> /\ w \in InQue /\ lock # None /\ f \in Range(freeList[w])
                                      /\ pc[lock] = "up" => w >= upQue[lock]
BY DEF At, Kind

LEMMA ByKindNext ==
    ASSUME NEW f, NEW w
    PROVE  /\ DOMAIN At(f)' = Kind
           /\ w \in At(f)'["source"] <=> w \in InQue /\ f \in source'[w]
           /\ w \in At(f)'["inFull"] <=> w \in InQue /\ f \in Range(inFull'[w])
           /\ w \in At(f)'["outQue"] <=> w = f /\ f \in Range(outQue')
           /\ w \in At(f)'["inList"] <=> w = f /\ f \in Range(inList')
           /\ w \in At(f)'["unmapped"] <=> w = f /\ f \in Range(unmapped')
           /\ w \in At(f)'["queue"] <=> w \in Sel!OutQue /\ f \in Range(outFrameQue'[w])
           /\ w \in At(f)'["using"] <=> w \in Sel!OutQue /\ f \in using'[w]
           /\ w \in At(f)'["ret"] <=> w \in Caller /\ f \in Range(ret'[w])
           /\ w \in At(f)'["free"] <=> /\ w \in InQue /\ lock' # None /\ f \in Range(freeList'[w])
                                       /\ pc'[lock'] = "up" => w >= upQue'[lock']
BY DEF At, Kind

\* A step that moves the frames of B from kind k to kind l, each frame f from
\* X[f] to Y[f], and no others.
Moves(B, k, X, l, Y) ==
    \A f \in Frame : \A w :
       /\ w \in At(f)'[k] <=> w \in At(f)[k] /\ ~(f \in B /\ w = X[f])
       /\ w \in At(f)'[l] <=> w \in At(f)[l] \/ (f \in B /\ w = Y[f])
OthersStay(k, l) == \A f \in Frame : \A j \in Kind \ {k, l} : \A w :
       w \in At(f)'[j] <=> w \in At(f)[j]
Only(x) == [f \in Frame |-> x]
Itself == [f \in Frame |-> f]

LEMMA MovesSole ==
    ASSUME SoleInv, NEW k \in Kind, NEW l \in Kind, k # l, NEW B, NEW X, NEW Y,
           \A f \in Frame : f \in B => X[f] \in At(f)[k],
           Moves(B, k, X, l, Y), OthersStay(k, l)
    PROVE  SoleInv'
<1>1. ASSUME NEW f \in Frame PROVE Sole(Tagged(At(f))')
  <2>1. DOMAIN At(f) = Kind /\ DOMAIN At(f)' = Kind /\ Sole(Tagged(At(f)))
    BY ByKind, ByKindNext DEF SoleInv
  <2>2. CASE f \notin B
    <3>1. Keeps(At(f), At(f)')
      BY <2>1, <2>2 DEF Moves, OthersStay, Keeps
    <3> QED BY <2>1, <3>1, Keep
  <2>3. CASE f \in B
    <3>1. HandsOver(At(f), At(f)', k, X[f], l, Y[f])
      BY <2>1, <2>3 DEF Moves, OthersStay, HandsOver
    <3> QED BY <2>1, <3>1, HandOver
  <2> QED BY <2>2, <2>3
<1> QED
  BY <1>1 DEF SoleInv

\* A frame is in one place.
LEMMA OnePlace ==
    ASSUME SoleInv, NEW f \in Frame, NEW k \in Kind, NEW x \in At(f)[k],
           NEW l \in Kind, NEW y \in At(f)[l]
    PROVE  k = l /\ x = y
<1>1. DOMAIN At(f) = Kind /\ Sole(Tagged(At(f)))
  BY ByKind DEF SoleInv
<1> QED
  BY <1>1, NowhereElse

\* Initially every frame is with its previous link.
LEMMA InitInv == GraphInit => GraphInv
<1> SUFFICES ASSUME GraphInit PROVE GraphInv
  OBVIOUS
<1>1. GraphTypeOK
  BY InitTypes
<1>2. SoleInv
  <2>1. ASSUME NEW f \in Frame PROVE Tagged(At(f)) = {<<"source", Owner[f]>>}
    <3>1. Owner[f] \in InQue
      BY FrameAssumption
    <3>2. \A q \in InQue : f \in source[q] <=> q = Owner[f]
      BY DEF GraphInit, Init
    <3>3. /\ \A q \in InQue : Range(inFull[q]) = {}
          /\ Range(outQue) = {} /\ Range(inList) = {} /\ Range(unmapped) = {}
          /\ \A q \in Sel!OutQue : Range(outFrameQue[q]) = {} /\ using[q] = {}
          /\ \A t \in Caller : Range(ret[t]) = {}
          /\ lock = None
      BY EmptyQueue DEF GraphInit, Init, Sel!SelInit
    <3>5. ASSUME NEW j \in Kind, NEW w
          PROVE  w \in At(f)[j] <=> j = "source" /\ w = Owner[f]
      <4>1. CASE j = "source"
        BY <3>1, <3>2, <4>1, ByKind
      <4>2. CASE j # "source"
        BY <3>3, <4>2, ByKind DEF Kind
      <4> QED BY <4>1, <4>2
    <3>4. DOMAIN At(f) = Kind /\ "source" \in Kind
      BY ByKind DEF Kind
    <3> QED BY <3>4, <3>5 DEF Tagged
  <2> QED BY <2>1 DEF SoleInv, Sole
<1>3. HeldInv /\ OnceInv
  BY EmptyQueue DEF GraphInit, Init, Sel!SelInit, HeldInv, OnceInv
<1>4. OwnerInv
  BY EmptyQueue DEF GraphInit, Init, OwnerInv
<1>5. TasksInv
  BY NoneAssumption DEF GraphInit, Init, Sel!SelInit, TasksInv
<1>6. ChannelsInv
  <2>1. Merged = {}
    BY EmptyQueue DEF GraphInit, Init, Merged
  <2>2. \A f \in Frame : f \notin Sel!Behind
    BY EmptyQueue, SelectRange DEF GraphInit, Sel!SelInit, Sel!Behind
  <2> QED BY <2>1, <2>2 DEF GraphInit, Init, ChannelsInv, Sel!OrgChannel
<1>7. NoFrameWaits
  BY DEF GraphInit, Init, Sel!SelInit, NoFrameWaits, NoStrandedFrame
<1> QED
  BY <1>1, <1>2, <1>3, <1>4, <1>5, <1>6, <1>7 DEF GraphInv

-----------------------------------------------------------------------------
(* The steps, each with what it does to the parts of the invariant.         *)

\* A step after which every frame is where it was.
LEMMA SamePlaces ==
    ASSUME GraphInv,
           UNCHANGED <<source, inFull, outQue, held, lock, freeList, pc, ret, upQue,
                       inList, unmapped, outFrameQue, using>>
    PROVE  SoleInv' /\ HeldInv' /\ OnceInv' /\ OwnerInv'
<1>1. ASSUME NEW f \in Frame PROVE At(f)' = At(f)
  BY DEF At
<1>2. SoleInv'
  BY <1>1 DEF GraphInv, SoleInv
<1>3. HeldInv' /\ OnceInv' /\ OwnerInv'
  BY DEF GraphInv, HeldInv, OnceInv, OwnerInv
<1> QED
  BY <1>2, <1>3

\* A step after which every frame has the number it had.
LEMMA SameChannels ==
    ASSUME GraphInv, UNCHANGED <<chan, org>>,
           \A f \in Frame : /\ f \in Merged' <=> f \in Merged
                            /\ f \in Sel!Behind' <=> f \in Sel!Behind
    PROVE  ChannelsInv' /\ Sel!OrgChannel' = Sel!OrgChannel
<1>1. Sel!OrgChannel' = Sel!OrgChannel
  BY DEF Sel!OrgChannel
<1> QED
  BY <1>1 DEF GraphInv, ChannelsInv

\* Give: a frame goes from its previous link to the input queue.
LEMMA GiveStep ==
    ASSUME GraphInv, NEW q \in InQue, Give(q), UNCHANGED selVars
    PROVE  GraphInv'
<1>1. PICK f \in Frame : /\ f \in source[q]
                         /\ source' = [source EXCEPT ![q] = @ \ {f}]
                         /\ inFull' = [inFull EXCEPT ![q] = Append(@, f)]
  BY DEF Give, GraphInv, GraphTypeOK, TypeOK
<1>2. /\ told[q] /\ told' = [told EXCEPT ![q] = FALSE]
      /\ UNCHANGED <<chan, inNotice, mergePc, inQue, newData, outQue, notice, getting, held,
                     lock, freeList, pc, ret, upQue>>
      /\ UNCHANGED <<selPc, inList, unmapped, newSelData, outFrameQue, inChInfo,
                     prevOutQueChInfo, org, mail, taking, using, sets>>
  BY DEF Give, merge, next, put, selVars
<1>3. TypeOK /\ Sel!SelTypeOK /\ sets \in 0 .. MaxSet
  BY DEF GraphInv, GraphTypeOK
<1>4. /\ Append(inFull[q], f) \in Seq(Frame)
      /\ Range(Append(inFull[q], f)) = Range(inFull[q]) \cup {f}
      /\ f \notin Range(inFull[q])
      /\ IsInjective(Append(inFull[q], f))
  <2>1. inFull[q] \in Seq(Frame) /\ IsInjective(inFull[q])
    BY <1>3 DEF TypeOK, GraphInv, OnceInv
  <2>2. f \notin Range(inFull[q])
    <3>1. q \in At(f)["source"] /\ (f \in Range(inFull[q]) => q \in At(f)["inFull"])
      BY <1>1, ByKind
    <3> QED BY <3>1, OnePlace DEF GraphInv, Kind
  <2> QED BY <2>1, <2>2, QueueAppend
<1>5. GraphTypeOK'
  <2>1. TypeOK'
    BY <1>1, <1>2, <1>3, <1>4 DEF TypeOK
  <2>2. Sel!SelTypeOK'
    BY <1>2, <1>3 DEF Sel!SelTypeOK
  <2> QED BY <1>2, <1>3, <2>1, <2>2 DEF GraphTypeOK
<1>6. SoleInv'
  <2> DEFINE X == Only(q)
  <2>1. ASSUME NEW g \in Frame, NEW w
        PROVE  /\ w \in At(g)'["source"] <=> w \in At(g)["source"] /\ ~(g \in {f} /\ w = X[g])
               /\ w \in At(g)'["inFull"] <=> w \in At(g)["inFull"] \/ (g \in {f} /\ w = X[g])
    <3>1. w \in InQue => (g \in source'[w] <=> g \in source[w] /\ ~(g = f /\ w = q))
      BY <1>1, <1>3 DEF TypeOK
    <3>2. w \in InQue => (g \in Range(inFull'[w]) <=> g \in Range(inFull[w]) \/ (g = f /\ w = q))
      BY <1>1, <1>3, <1>4 DEF TypeOK
    <3> QED BY <3>1, <3>2, ByKind, ByKindNext DEF Only
  <2>2. Moves({f}, "source", X, "inFull", X)
    BY <2>1 DEF Moves
  <2>3. OthersStay("source", "inFull")
    <3>1. ASSUME NEW g \in Frame, NEW j \in Kind \ {"source", "inFull"}, NEW w
          PROVE  w \in At(g)'[j] <=> w \in At(g)[j]
      BY <1>2, ByKind, ByKindNext DEF Kind
    <3> QED BY <3>1 DEF OthersStay
  <2>4. "source" \in Kind /\ "inFull" \in Kind /\ X[f] \in At(f)["source"]
    BY <1>1, ByKind DEF Kind, Only
  <2> HIDE DEF X
  <2> QED BY <2>2, <2>3, <2>4, MovesSole DEF GraphInv
<1>7. HeldInv'
  BY <1>2 DEF GraphInv, HeldInv
<1>8. OnceInv'
  BY <1>1, <1>2, <1>3, <1>4 DEF GraphInv, OnceInv, TypeOK
<1>9. OwnerInv'
  BY <1>1, <1>2, <1>3, <1>4 DEF GraphInv, OwnerInv, TypeOK
<1>10. TasksInv'
  BY <1>2 DEF GraphInv, TasksInv
<1>11. ChannelsInv'
  BY <1>2, SameChannels DEF Merged, Sel!Behind
<1>12. NoFrameWaits'
  BY <1>1, <1>2, <1>3 DEF GraphInv, NoFrameWaits, NoStrandedFrame, TypeOK
<1> QED
  BY <1>5, <1>6, <1>7, <1>8, <1>9, <1>10, <1>11, <1>12 DEF GraphInv

\* Notifications of a previous link and of the merge link's task.
LEMMA TellStep ==
    ASSUME GraphInv, UNCHANGED selVars,
           (\E q \in InQue : Tell(q)) \/ MergeWake \/ MergeNotify
    PROVE  GraphInv'
<1>1. /\ UNCHANGED <<source, inFull, chan, outQue, getting, held, lock, freeList, pc, ret, upQue>>
      /\ UNCHANGED <<selPc, inList, unmapped, newSelData, outFrameQue, inChInfo,
                     prevOutQueChInfo, org, mail, taking, using, sets>>
  BY DEF Tell, MergeWake, MergeNotify, prev, merge, next, put, selVars
<1>2. TypeOK /\ Sel!SelTypeOK /\ sets \in 0 .. MaxSet
  BY DEF GraphInv, GraphTypeOK
<1>3. GraphTypeOK'
  <2>1. /\ told' \in [InQue -> BOOLEAN] /\ inNotice' \in BOOLEAN /\ notice' \in BOOLEAN
        /\ mergePc' \in {"idle", "scan", "notify"} /\ inQue' \in InQue /\ newData' \in BOOLEAN
    <3>1. 0 \in InQue
      BY NumInQueAssumption DEF InQue
    <3> QED BY <1>2, <3>1 DEF TypeOK, Tell, MergeWake, MergeNotify, prev, merge, next, put
  <2>2. TypeOK'
    BY <1>1, <1>2, <2>1 DEF TypeOK
  <2>3. Sel!SelTypeOK'
    BY <1>1, <1>2 DEF Sel!SelTypeOK
  <2> QED BY <1>1, <1>2, <2>2, <2>3 DEF GraphTypeOK
<1>4. SoleInv' /\ HeldInv' /\ OnceInv' /\ OwnerInv'
  BY <1>1, SamePlaces
<1>5. TasksInv'
  BY <1>1 DEF GraphInv, TasksInv
<1>6. ChannelsInv'
  BY <1>1, SameChannels DEF Merged, Sel!Behind
<1>7. NoFrameWaits'
  <2>1. /\ \A q \in InQue : inFull[q] # <<>> =>
              inNotice' \/ ~told'[q] \/ (mergePc' = "scan" /\ inQue' <= q)
        /\ outQue # <<>> =>
              notice' \/ getting \/ mergePc' = "notify" \/ (mergePc' = "scan" /\ newData')
    <3>1. CASE \E q \in InQue : Tell(q)
      BY <1>2, <3>1 DEF GraphInv, NoFrameWaits, NoStrandedFrame, TypeOK, Tell, merge, next
    <3>2. CASE MergeWake
      BY <1>2, <3>2, NumInQueAssumption
         DEF GraphInv, NoFrameWaits, NoStrandedFrame, TypeOK, MergeWake, next, prev, InQue
    <3>3. CASE MergeNotify
      BY <1>2, <3>3 DEF GraphInv, NoFrameWaits, NoStrandedFrame, TypeOK, MergeNotify, prev
    <3> QED BY <3>1, <3>2, <3>3
  <2> QED BY <1>1, <2>1 DEF GraphInv, NoFrameWaits, NoStrandedFrame
<1> QED
  BY <1>3, <1>4, <1>5, <1>6, <1>7 DEF GraphInv

\* Wakes: the select link's task receives NEW_DATA.
LEMMA WakesStep == ASSUME GraphInv, Wakes PROVE GraphInv'
<1>1. /\ notice /\ ~getting /\ notice' = FALSE /\ getting' = TRUE
      /\ selPc = "idle" /\ selPc' = "get"
      /\ UNCHANGED <<source, inFull, told, chan, inNotice, mergePc, inQue, newData, outQue, held,
                     lock, freeList, pc, ret, upQue>>
      /\ UNCHANGED <<inList, unmapped, newSelData, outFrameQue, inChInfo,
                     prevOutQueChInfo, org, mail, taking, using, sets>>
  BY DEF Wakes, Wake, Sel!SelectWake, prev, merge, put, Sel!map, Sel!users
<1>2. TypeOK /\ Sel!SelTypeOK /\ sets \in 0 .. MaxSet
  BY DEF GraphInv, GraphTypeOK
<1>3. GraphTypeOK'
  BY <1>1, <1>2 DEF GraphTypeOK, TypeOK, Sel!SelTypeOK
<1>4. SoleInv' /\ HeldInv' /\ OnceInv' /\ OwnerInv'
  BY <1>1, SamePlaces
<1>5. TasksInv'
  BY <1>1 DEF GraphInv, TasksInv
<1>6. ChannelsInv'
  BY <1>1, SameChannels DEF Merged, Sel!Behind
<1>7. NoFrameWaits'
  BY <1>1 DEF GraphInv, NoFrameWaits, NoStrandedFrame
<1> QED
  BY <1>3, <1>4, <1>5, <1>6, <1>7 DEF GraphInv

\* Tells: the select link announces the new frames to a next link.
LEMMA TellsStep == ASSUME GraphInv, Tells PROVE GraphInv'
<1>2. TypeOK /\ Sel!SelTypeOK /\ sets \in 0 .. MaxSet
  BY DEF GraphInv, GraphTypeOK
<1>1. PICK q \in Sel!OutQue :
      /\ mail' = [mail EXCEPT ![q] = TRUE] /\ newSelData' = newSelData \ {q}
      /\ selPc = "notify" /\ selPc' = IF newSelData = {q} THEN "idle" ELSE "notify"
      /\ q \in newSelData
  <2> DEFINE q == CHOOSE k \in newSelData : \A j \in newSelData : k <= j
  <2>1. newSelData \subseteq Nat /\ newSelData \subseteq Sel!OutQue /\ newSelData # {}
    BY <1>2 DEF Sel!SelTypeOK, Sel!OutQue, Tells, Sel!SelectNotify, GraphInv, TasksInv
  <2>2. q \in newSelData
    BY <2>1, LeastNatural
  <2>3. /\ mail' = [mail EXCEPT ![q] = TRUE] /\ newSelData' = newSelData \ {q}
        /\ selPc = "notify" /\ selPc' = IF newSelData = {q} THEN "idle" ELSE "notify"
    BY DEF Tells, Sel!SelectNotify
  <2> HIDE DEF q
  <2> QED BY <2>1, <2>2, <2>3
<1>3. /\ UNCHANGED <<source, inFull, told, chan, inNotice, mergePc, inQue, newData, outQue,
                     notice, getting, held, lock, freeList, pc, ret, upQue>>
      /\ UNCHANGED <<inList, unmapped, outFrameQue, inChInfo,
                     prevOutQueChInfo, org, taking, using, sets>>
  BY DEF Tells, Sel!SelectNotify, mergeVars, prev, merge, put, Sel!map
<1>4. GraphTypeOK'
  BY <1>1, <1>2, <1>3 DEF GraphTypeOK, TypeOK, Sel!SelTypeOK
<1>5. SoleInv' /\ HeldInv' /\ OnceInv' /\ OwnerInv'
  BY <1>3, SamePlaces
<1>6. TasksInv'
  BY <1>1, <1>3 DEF GraphInv, TasksInv
<1>7. ChannelsInv'
  BY <1>3, SameChannels DEF Merged, Sel!Behind
<1>8. NoFrameWaits'
  BY <1>1, <1>2, <1>3 DEF GraphInv, NoFrameWaits, NoStrandedFrame, Sel!SelTypeOK
<1> QED
  BY <1>4, <1>5, <1>6, <1>7, <1>8 DEF GraphInv

\* NextWake: a next link's task receives NEW_DATA.
LEMMA NextWakeStep ==
    ASSUME GraphInv, NEW q \in Sel!OutQue, Sel!NextWake(q), UNCHANGED <<mergeVars, sets>>
    PROVE  GraphInv'
<1>1. /\ mail' = [mail EXCEPT ![q] = FALSE] /\ taking' = [taking EXCEPT ![q] = TRUE]
      /\ UNCHANGED <<source, inFull, told, chan, inNotice, mergePc, inQue, newData, outQue,
                     notice, getting, held, lock, freeList, pc, ret, upQue>>
      /\ UNCHANGED <<selPc, inList, unmapped, newSelData, outFrameQue, inChInfo,
                     prevOutQueChInfo, org, using, sets>>
  BY DEF Sel!NextWake, mergeVars, prev, merge, put, Sel!map, Sel!loop
<1>2. TypeOK /\ Sel!SelTypeOK /\ sets \in 0 .. MaxSet
  BY DEF GraphInv, GraphTypeOK
<1>3. GraphTypeOK'
  BY <1>1, <1>2 DEF GraphTypeOK, TypeOK, Sel!SelTypeOK
<1>4. SoleInv' /\ HeldInv' /\ OnceInv' /\ OwnerInv'
  BY <1>1, SamePlaces
<1>5. TasksInv'
  BY <1>1 DEF GraphInv, TasksInv
<1>6. ChannelsInv'
  BY <1>1, SameChannels DEF Merged, Sel!Behind
<1>7. NoFrameWaits'
  BY <1>1, <1>2 DEF GraphInv, NoFrameWaits, NoStrandedFrame, Sel!SelTypeOK
<1> QED
  BY <1>3, <1>4, <1>5, <1>6, <1>7 DEF GraphInv

\* The place of an element in a list.
LEMMA PositionIn ==
    ASSUME NEW S, NEW s \in Seq(S), NEW x \in Range(s)
    PROVE  Sel!Position(s, x) \in 1 .. Len(s) /\ s[Sel!Position(s, x)] = x
<1>1. \E i \in DOMAIN s : s[i] = x
  BY DEF Range
<1>2. DOMAIN s = 1 .. Len(s)
  OBVIOUS
<1> QED
  BY <1>1, <1>2 DEF Sel!Position

\* Sets: the application changes the map.
LEMMA SetsTypes ==
    ASSUME GraphInv, NEW q \in Sel!QueId, NEW l \in Selection, NEW removes \in BOOLEAN,
           Sets(q, l, removes)
    PROVE  GraphTypeOK'
<1>1. /\ sets < MaxSet /\ sets' = sets + 1
      /\ prevOutQueChInfo' = [prevOutQueChInfo EXCEPT ![q] = l]
      /\ UNCHANGED <<source, inFull, told, chan, inNotice, mergePc, inQue, newData, outQue,
                     notice, getting, held, lock, freeList, pc, ret, upQue>>
      /\ UNCHANGED <<selPc, inList, unmapped, newSelData, outFrameQue, org, mail, taking, using>>
  BY DEF Sets, Sel!SetOutQueChInfo, mergeVars, prev, merge, put, Sel!loop, Sel!users
<1>2. TypeOK /\ Sel!SelTypeOK /\ sets \in 0 .. MaxSet
  BY DEF GraphInv, GraphTypeOK
<1>3. l \in Seq(OutCh) /\ q \in 0 .. NumOutQue + 1 /\ q \in Nat /\ NumOutQue \in Nat
  BY SelectAssumption DEF Sel!SelectParameters, Sel!QueId
<1>4. inChInfo' \in [OutCh -> Sel!Mapping]
  <2> DEFINE removed == IF removes THEN Range(prevOutQueChInfo[q]) ELSE {}
             Info(ch) == IF ch \in Range(l) THEN [queId |-> q, outChNum |-> Sel!Position(l, ch) - 1]
                         ELSE IF ch \in removed THEN Sel!NotMapped ELSE inChInfo[ch]
  <2>1. inChInfo' = [ch \in OutCh |-> Info(ch)]
    BY SelectRange DEF Sets, Sel!SetOutQueChInfo
  <2>2. ASSUME NEW ch \in OutCh PROVE Info(ch) \in Sel!Mapping
    <3>1. CASE ch \in Range(l)
      <4>1. Sel!Position(l, ch) - 1 \in Nat
        BY <1>3, <3>1, PositionIn
      <4> QED BY <1>3, <3>1, <4>1 DEF Sel!Mapping
    <3>2. Sel!NotMapped \in Sel!Mapping
      BY <1>3 DEF Sel!NotMapped, Sel!Mapping
    <3>3. inChInfo[ch] \in Sel!Mapping
      BY <1>2 DEF Sel!SelTypeOK
    <3> QED BY <3>1, <3>2, <3>3
  <2> HIDE DEF Info
  <2> QED BY <2>1, <2>2
<1>5. Sel!SelTypeOK'
  <2>1. prevOutQueChInfo' \in [Sel!QueId -> Seq(OutCh)]
    BY <1>1, <1>2, <1>3 DEF Sel!SelTypeOK
  <2> QED BY <1>1, <1>2, <1>4, <2>1 DEF Sel!SelTypeOK
<1>6. TypeOK'
  BY <1>1, <1>2 DEF TypeOK
<1>7. sets' \in 0 .. MaxSet
  BY <1>1, <1>2, BoundAssumption
<1> QED
  BY <1>5, <1>6, <1>7 DEF GraphTypeOK

LEMMA SetsStep ==
    ASSUME GraphInv, NEW q \in Sel!QueId, NEW l \in Selection, NEW removes \in BOOLEAN,
           Sets(q, l, removes)
    PROVE  GraphInv'
<1>1. /\ UNCHANGED <<source, inFull, told, chan, inNotice, mergePc, inQue, newData, outQue,
                     notice, getting, held, lock, freeList, pc, ret, upQue>>
      /\ UNCHANGED <<selPc, inList, unmapped, newSelData, outFrameQue, org, mail, taking, using>>
  BY DEF Sets, Sel!SetOutQueChInfo, mergeVars, prev, merge, put, Sel!loop, Sel!users
<1>2. GraphTypeOK'
  BY SetsTypes
<1>3. SoleInv' /\ HeldInv' /\ OnceInv' /\ OwnerInv'
  BY <1>1, SamePlaces
<1>4. TasksInv'
  BY <1>1 DEF GraphInv, TasksInv
<1>5. ChannelsInv'
  BY <1>1, SameChannels DEF Merged, Sel!Behind
<1>6. NoFrameWaits'
  BY <1>1 DEF GraphInv, NoFrameWaits, NoStrandedFrame
<1> QED
  BY <1>2, <1>3, <1>4, <1>5, <1>6 DEF GraphInv

\* Pend: a task takes the lock and clears the lists of its last holder.
LEMMA PendStep ==
    ASSUME GraphInv, NEW t \in Caller, Pend(t), UNCHANGED selVars
    PROVE  GraphInv'
<1>1. /\ pc[t] = "pend" /\ lock = None /\ lock' = t
      /\ freeList' = [q \in InQue |-> <<>>] /\ pc' = [pc EXCEPT ![t] = "sort"]
      /\ UNCHANGED <<source, inFull, told, chan, inNotice, mergePc, inQue, newData, outQue,
                     notice, getting, held, ret, upQue>>
      /\ UNCHANGED <<selPc, inList, unmapped, newSelData, outFrameQue, inChInfo,
                     prevOutQueChInfo, org, mail, taking, using, sets>>
  BY DEF Pend, Goto, prev, merge, next, selVars
<1>2. TypeOK /\ Sel!SelTypeOK /\ sets \in 0 .. MaxSet
  BY DEF GraphInv, GraphTypeOK
<1>3. GraphTypeOK'
  <2>1. TypeOK'
    BY <1>1, <1>2 DEF TypeOK
  <2>2. Sel!SelTypeOK'
    BY <1>1, <1>2 DEF Sel!SelTypeOK
  <2> QED BY <1>1, <1>2, <2>1, <2>2 DEF GraphTypeOK
<1>4. SoleInv'
  <2>1. ASSUME NEW f \in Frame, NEW j \in Kind, NEW w PROVE w \in At(f)'[j] <=> w \in At(f)[j]
    <3>1. CASE j = "free"
      <4>1. w \notin At(f)["free"]
        BY <1>1, ByKind
      <4>2. w \in InQue => Range(freeList'[w]) = {}
        BY <1>1, EmptyQueue
      <4> QED BY <3>1, <4>1, <4>2, ByKindNext
    <3>2. CASE j # "free"
      BY <1>1, <3>2, ByKind, ByKindNext DEF Kind
    <3> QED BY <3>1, <3>2
  <2>2. \A f \in Frame : Keeps(At(f), At(f)')
    BY <2>1, ByKind, ByKindNext DEF Keeps
  <2> QED BY <2>2, Keep DEF SoleInv, GraphInv
<1>5. HeldInv' /\ OnceInv'
  BY <1>1 DEF GraphInv, HeldInv, OnceInv
<1>6. OwnerInv'
  BY <1>1, EmptyQueue DEF GraphInv, OwnerInv
<1>7. TasksInv'
  BY <1>1, <1>2, NoneAssumption DEF GraphInv, TasksInv, TypeOK
<1>8. ChannelsInv'
  BY <1>1, SameChannels DEF Merged, Sel!Behind
<1>9. NoFrameWaits'
  BY <1>1 DEF GraphInv, NoFrameWaits, NoStrandedFrame
<1> QED
  BY <1>3, <1>4, <1>5, <1>6, <1>7, <1>8, <1>9 DEF GraphInv

\* Where a frame is behind the merge link, or before it.
LEMMA Whereabouts ==
    ASSUME GraphInv, NEW f \in Frame
    PROVE  /\ f \in Merged <=> \/ f \in Range(outQue) \/ f \in held
                               \/ \E t \in Caller : f \in Range(ret[t])
           /\ f \in Sel!Behind <=> \E q \in Sel!OutQue : f \in Range(outFrameQue[q]) \cup using[q]
           /\ f \in Sel!Behind => f \in held
BY SelectRange DEF Merged, Sel!Behind, GraphInv, HeldInv

LEMMA WhereaboutsNext ==
    ASSUME NEW f \in Frame
    PROVE  /\ f \in Merged' <=> \/ f \in Range(outQue') \/ f \in held'
                                \/ \E t \in Caller : f \in Range(ret'[t])
           /\ f \in Sel!Behind' <=> \E q \in Sel!OutQue : f \in Range(outFrameQue'[q]) \cup using'[q]
BY SelectRange DEF Merged, Sel!Behind

\* The number of a frame before it is merged, merged, and in the select link.
LEMMA Numbers ==
    ASSUME GraphInv, NEW f \in Frame
    PROVE  /\ f \notin Merged => chan[f] = Chan[f] /\ f \notin Sel!Behind
           /\ f \in Merged /\ f \notin Sel!Behind => chan[f] = inQueChNumMap[Owner[f]][Chan[f]]
           /\ f \in Sel!Behind => org[f] = inQueChNumMap[Owner[f]][Chan[f]] /\ f \in Merged
           /\ inQueChNumMap[Owner[f]][Chan[f]] \in OutCh
           /\ inQueChNumMap[Owner[f]][Chan[f]] \in Nat
           /\ outQueChToInQueMap[inQueChNumMap[Owner[f]][Chan[f]]] = Owner[f]
           /\ outQueChMap[inQueChNumMap[Owner[f]][Chan[f]]] = Chan[f]
<1>1. Sel!OrgChannel[f] = IF f \in Sel!Behind THEN org[f] ELSE chan[f]
  BY DEF Sel!OrgChannel
<1>2. Owner[f] \in InQue /\ Chan[f] \in 0 .. NumCh[Owner[f]] - 1
  BY FrameAssumption, NumInQueAssumption
<1>3. \A n \in OutCh : n \in Nat
  BY DEF OutCh
<1>4. f \in Sel!Behind => f \in Merged
  BY Whereabouts
<1> QED
  BY <1>1, <1>2, <1>3, <1>4, ChannelMaps DEF GraphInv, ChannelsInv

\* The place of a frame says whether it is merged, held and behind the link.
LEMMA PlaceTells ==
    ASSUME GraphInv, NEW f \in Frame, NEW k \in Kind, NEW x \in At(f)[k]
    PROVE  /\ f \in held <=> k \in {"inList", "unmapped", "queue", "using"}
           /\ f \in Merged <=> k \in {"outQue", "inList", "unmapped", "queue", "using", "ret"}
           /\ f \in Sel!Behind <=> k \in {"queue", "using"}
<1>1. \A l \in Kind : \A y : y \in At(f)[l] => l = k
  BY OnePlace DEF GraphInv
<1>2. /\ \A t \in Caller : f \in Range(ret[t]) => k = "ret"
      /\ f \in Range(outQue) => k = "outQue"
      /\ f \in Range(inList) => k = "inList"
      /\ f \in Range(unmapped) => k = "unmapped"
      /\ \A q \in Sel!OutQue : f \in Range(outFrameQue[q]) => k = "queue"
      /\ \A q \in Sel!OutQue : f \in using[q] => k = "using"
  <2>1. {"ret", "outQue", "inList", "unmapped", "queue", "using"} \subseteq Kind
    BY DEF Kind
  <2>2. /\ \A t \in Caller : f \in Range(ret[t]) => t \in At(f)["ret"]
        /\ f \in Range(outQue) => f \in At(f)["outQue"]
        /\ f \in Range(inList) => f \in At(f)["inList"]
        /\ f \in Range(unmapped) => f \in At(f)["unmapped"]
        /\ \A q \in Sel!OutQue : f \in Range(outFrameQue[q]) => q \in At(f)["queue"]
        /\ \A q \in Sel!OutQue : f \in using[q] => q \in At(f)["using"]
    BY ByKind
  <2> QED BY <1>1, <2>1, <2>2
<1>3. /\ k = "ret" => x \in Caller /\ f \in Range(ret[x])
      /\ k = "outQue" => f \in Range(outQue)
      /\ k = "inList" => f \in Range(inList)
      /\ k = "unmapped" => f \in Range(unmapped)
      /\ k = "queue" => x \in Sel!OutQue /\ f \in Range(outFrameQue[x])
      /\ k = "using" => x \in Sel!OutQue /\ f \in using[x]
  BY ByKind
<1>4. f \in held <=> k \in {"inList", "unmapped", "queue", "using"}
  BY <1>2, <1>3 DEF GraphInv, HeldInv
<1>5. f \in Merged <=> k \in {"outQue", "inList", "unmapped", "queue", "using", "ret"}
  BY <1>2, <1>3, <1>4, Whereabouts
<1>6. f \in Sel!Behind <=> k \in {"queue", "using"}
  BY <1>2, <1>3, Whereabouts
<1> QED
  BY <1>4, <1>5, <1>6

\* Scan: the frames of an input queue are merged.
LEMMA ScanMoves ==
    ASSUME GraphInv, Scan, UNCHANGED selVars
    PROVE  /\ inQue \in InQue /\ inFull[inQue] \in Seq(Frame)
           /\ \A f \in Range(inFull[inQue]) : f \in Frame /\ inQue \in At(f)["inFull"]
           /\ outQue' = outQue \o inFull[inQue] /\ outQue' \in Seq(Frame)
           /\ Range(outQue') = Range(outQue) \cup Range(inFull[inQue])
           /\ IsInjective(outQue')
           /\ inFull' = [inFull EXCEPT ![inQue] = <<>>] /\ inFull' \in [InQue -> Seq(Frame)]
           /\ \A f \in Frame : f \in Range(inFull[inQue]) => f \notin Merged /\ Owner[f] = inQue
<1>1. /\ outQue' = outQue \o inFull[inQue]
      /\ inFull' = [inFull EXCEPT ![inQue] = <<>>]
  BY DEF Scan
<1>2. inQue \in InQue /\ inFull \in [InQue -> Seq(Frame)] /\ outQue \in Seq(Frame)
  BY DEF GraphInv, GraphTypeOK, TypeOK
<1>3. inFull[inQue] \in Seq(Frame) /\ IsInjective(inFull[inQue]) /\ IsInjective(outQue)
  BY <1>2 DEF GraphInv, OnceInv
<1>4. ASSUME NEW f \in Range(inFull[inQue])
      PROVE  f \in Frame /\ inQue \in At(f)["inFull"] /\ f \notin Merged /\ Owner[f] = inQue
  <2>1. f \in Frame
    BY <1>3 DEF Range
  <2>2. inQue \in At(f)["inFull"] /\ "inFull" \in Kind
    BY <1>2, ByKind DEF Kind
  <2>3. f \notin Merged
    BY <2>1, <2>2, PlaceTells
  <2>4. Owner[f] = inQue
    BY <1>2 DEF GraphInv, OwnerInv
  <2> QED BY <2>1, <2>2, <2>3, <2>4
<1>5. Range(outQue) \cap Range(inFull[inQue]) = {}
  BY <1>4 DEF Merged
<1>6. /\ outQue' \in Seq(Frame) /\ IsInjective(outQue')
      /\ Range(outQue') = Range(outQue) \cup Range(inFull[inQue])
  BY <1>1, <1>2, <1>3, <1>5, QueueConcat
<1> QED
  BY <1>1, <1>2, <1>3, <1>4, <1>6

LEMMA ScanStep == ASSUME GraphInv, Scan, UNCHANGED selVars PROVE GraphInv'
<1> DEFINE s == inFull[inQue]
<1>1. /\ UNCHANGED <<source, told, inNotice, notice, getting, held, lock, freeList, pc, ret, upQue>>
      /\ UNCHANGED <<selPc, inList, unmapped, newSelData, outFrameQue, inChInfo,
                     prevOutQueChInfo, org, mail, taking, using, sets>>
  BY DEF Scan, NextQue, next, put, selVars
<1>2. TypeOK /\ Sel!SelTypeOK /\ sets \in 0 .. MaxSet
  BY DEF GraphInv, GraphTypeOK
<1>3. /\ mergePc = "scan"
      /\ newData' = (newData \/ s # <<>>)
      /\ IF inQue < NumInQue - 1 THEN inQue' = inQue + 1 /\ mergePc' = mergePc
         ELSE inQue' = 0 /\ mergePc' = IF newData' THEN "notify" ELSE "idle"
      /\ chan' = [f \in Frame |-> IF f \in Range(s) THEN inQueChNumMap[inQue][chan[f]] ELSE chan[f]]
  BY DEF Scan, NextQue
<1>4. \A f \in Frame : f \in Range(s) => chan'[f] = inQueChNumMap[Owner[f]][Chan[f]]
  BY <1>3, ScanMoves, Numbers
<1>5. GraphTypeOK'
  <2>1. chan' \in [Frame -> Nat]
    BY <1>2, <1>3, <1>4, Numbers DEF TypeOK
  <2>2. inQue' \in InQue /\ newData' \in BOOLEAN /\ mergePc' \in {"idle", "scan", "notify"}
    <3>1. newData' \in BOOLEAN /\ mergePc' \in {"idle", "scan", "notify"}
      BY <1>2, <1>3 DEF TypeOK
    <3>2. inQue' \in InQue
      <4>1. inQue' = 0 \/ (inQue < NumInQue - 1 /\ inQue' = inQue + 1)
        BY <1>3
      <4>2. inQue \in 0 .. NumInQue - 1 /\ NumInQue \in Nat \ {0}
        BY <1>2, NumInQueAssumption DEF TypeOK, InQue
      <4>3. inQue' \in 0 .. NumInQue - 1
        BY <4>1, <4>2
      <4> QED BY <4>3 DEF InQue
    <3> QED BY <3>1, <3>2
  <2>3. TypeOK'
    BY <1>1, <1>2, <2>1, <2>2, ScanMoves DEF TypeOK
  <2>4. Sel!SelTypeOK'
    BY <1>1, <1>2 DEF Sel!SelTypeOK
  <2> QED BY <1>1, <1>2, <2>3, <2>4 DEF GraphTypeOK
<1>6. SoleInv'
  <2> DEFINE X == Only(inQue)
  <2>1. ASSUME NEW g \in Frame, NEW w
        PROVE  /\ w \in At(g)'["inFull"] <=>
                     w \in At(g)["inFull"] /\ ~(g \in Range(s) /\ w = X[g])
               /\ w \in At(g)'["outQue"] <=>
                     w \in At(g)["outQue"] \/ (g \in Range(s) /\ w = Itself[g])
    <3>1. w \in InQue => (g \in Range(inFull'[w]) <=> g \in Range(inFull[w]) /\ ~(g \in Range(s) /\ w = inQue))
      BY <1>2, ScanMoves, EmptyQueue DEF TypeOK
    <3>2. g \in Range(outQue') <=> g \in Range(outQue) \/ g \in Range(s)
      BY ScanMoves
    <3> QED BY <3>1, <3>2, ByKind, ByKindNext DEF Only, Itself
  <2>2. Moves(Range(s), "inFull", X, "outQue", Itself)
    BY <2>1 DEF Moves
  <2>3. OthersStay("inFull", "outQue")
    <3>1. ASSUME NEW g \in Frame, NEW j \in Kind \ {"inFull", "outQue"}, NEW w
          PROVE  w \in At(g)'[j] <=> w \in At(g)[j]
      BY <1>1, ByKind, ByKindNext DEF Kind
    <3> QED BY <3>1 DEF OthersStay
  <2>4. /\ "inFull" \in Kind /\ "outQue" \in Kind
        /\ \A f \in Frame : f \in Range(s) => X[f] \in At(f)["inFull"]
    BY ScanMoves DEF Kind, Only
  <2> HIDE DEF X, s
  <2> QED BY <2>2, <2>3, <2>4, MovesSole DEF GraphInv
<1>7. HeldInv'
  BY <1>1 DEF GraphInv, HeldInv
<1>8. OnceInv'
  BY <1>1, <1>2, ScanMoves, EmptyQueue DEF GraphInv, OnceInv, TypeOK
<1>9. OwnerInv'
  BY <1>1, <1>2, ScanMoves, EmptyQueue, ZenonT(30) DEF GraphInv, OwnerInv, TypeOK
<1>10. TasksInv'
  BY <1>1 DEF GraphInv, TasksInv
<1>11. ChannelsInv'
  <2>1. ASSUME NEW f \in Frame
        PROVE  /\ f \in Merged' <=> f \in Merged \/ f \in Range(s)
               /\ f \in Sel!Behind' <=> f \in Sel!Behind
    BY <1>1, ScanMoves, Whereabouts, WhereaboutsNext
  <2>2. ASSUME NEW f \in Frame
        PROVE  Sel!OrgChannel'[f] = IF f \in Sel!Behind THEN org[f] ELSE chan'[f]
    BY <1>1, <2>1 DEF Sel!OrgChannel
  <2>3. ASSUME NEW f \in Frame
        PROVE  f \in Range(s) => f \notin Sel!Behind
    BY ScanMoves, Numbers
  <2>4. ASSUME NEW f \in Frame
        PROVE  Sel!OrgChannel'[f] =
                  IF f \in Merged' THEN inQueChNumMap[Owner[f]][Chan[f]] ELSE Chan[f]
    BY <1>3, <1>4, <2>1, <2>2, <2>3, Numbers
  <2> QED BY <2>4 DEF ChannelsInv
<1>12. NoFrameWaits'
  <2>1. \A q \in InQue : inFull'[q] # <<>> =>
            inNotice \/ ~told[q] \/ (mergePc' = "scan" /\ inQue' <= q)
    <3> SUFFICES ASSUME NEW q \in InQue, inFull'[q] # <<>>
                 PROVE  inNotice \/ ~told[q] \/ (mergePc' = "scan" /\ inQue' <= q)
      OBVIOUS
    <3>1. q # inQue /\ inFull'[q] = inFull[q]
      BY <1>2, ScanMoves, SMTT(30) DEF TypeOK
    <3>2. inNotice \/ ~told[q] \/ inQue <= q
      BY <3>1 DEF GraphInv, NoFrameWaits, NoStrandedFrame
    <3>3. inQue < q => inQue < NumInQue - 1 /\ inQue + 1 <= q
      BY <1>2, NumInQueAssumption DEF TypeOK, InQue
    <3>4. inQue <= q => inQue < q
      BY <1>2, <3>1, NumInQueAssumption DEF TypeOK, InQue
    <3> QED BY <1>3, <3>2, <3>3, <3>4
  <2>2. outQue' # <<>> => notice \/ getting \/ mergePc' = "notify" \/ (mergePc' = "scan" /\ newData')
    <3>1. outQue' # <<>> => outQue # <<>> \/ s # <<>>
      BY ScanMoves
    <3>2. outQue # <<>> => notice \/ getting \/ newData
      BY <1>3 DEF GraphInv, NoFrameWaits, NoStrandedFrame
    <3>3. newData' => mergePc' = "notify" \/ mergePc' = "scan"
      BY <1>3
    <3> QED BY <1>3, <3>1, <3>2, <3>3
  <2> QED BY <1>1, <2>1, <2>2 DEF GraphInv, NoFrameWaits, NoStrandedFrame
<1> QED
  BY <1>5, <1>6, <1>7, <1>8, <1>9, <1>10, <1>11, <1>12 DEF GraphInv

\* Gets: the select link's task takes what the merge link has put out.
LEMMA GetsStep == ASSUME GraphInv, Gets PROVE GraphInv'
<1>1. /\ held' = held \cup Range(outQue) /\ outQue' = <<>> /\ getting' = FALSE
      /\ selPc = "get" /\ inList' = outQue /\ unmapped' = <<>> /\ newSelData' = {}
      /\ selPc' = IF outQue = <<>> THEN "idle" ELSE "frames"
      /\ UNCHANGED <<source, inFull, told, chan, inNotice, mergePc, inQue, newData, notice,
                     lock, freeList, pc, ret, upQue>>
      /\ UNCHANGED <<outFrameQue, inChInfo, prevOutQueChInfo, org, mail, taking, using, sets>>
  BY DEF Gets, GetFull, Sel!Take, prev, merge, put, Sel!map, Sel!users
<1>2. TypeOK /\ Sel!SelTypeOK /\ sets \in 0 .. MaxSet
  BY DEF GraphInv, GraphTypeOK
<1>3. inList = <<>> /\ unmapped = <<>> /\ newSelData = {}
  BY <1>1 DEF GraphInv, TasksInv
<1>4. outQue \in Seq(Frame) /\ Range(outQue) \subseteq Frame /\ IsInjective(outQue)
  BY <1>2 DEF TypeOK, Range, GraphInv, OnceInv
<1>5. GraphTypeOK'
  <2>1. held' \subseteq Frame
    BY <1>1, <1>2, <1>4 DEF TypeOK
  <2>2. outQue' \in Seq(Frame) /\ getting' \in BOOLEAN
    <3>1. outQue' = <<>> /\ getting' = FALSE /\ <<>> \in Seq(Frame)
      BY <1>1
    <3> QED BY <3>1
  <2>3. TypeOK'
    BY <1>1, <1>2, <2>1, <2>2 DEF TypeOK
  <2>4. Sel!SelTypeOK'
    BY <1>1, <1>2, <1>4 DEF Sel!SelTypeOK
  <2> QED BY <1>1, <1>2, <2>3, <2>4 DEF GraphTypeOK
<1>6. SoleInv'
  <2>1. ASSUME NEW g \in Frame, NEW w
        PROVE  /\ w \in At(g)'["outQue"] <=>
                     w \in At(g)["outQue"] /\ ~(g \in Range(outQue) /\ w = Itself[g])
               /\ w \in At(g)'["inList"] <=>
                     w \in At(g)["inList"] \/ (g \in Range(outQue) /\ w = Itself[g])
    BY <1>1, <1>3, EmptyQueue, ByKind, ByKindNext DEF Itself
  <2>2. Moves(Range(outQue), "outQue", Itself, "inList", Itself)
    BY <2>1 DEF Moves
  <2>3. OthersStay("outQue", "inList")
    <3>1. ASSUME NEW g \in Frame, NEW j \in Kind \ {"outQue", "inList"}, NEW w
          PROVE  w \in At(g)'[j] <=> w \in At(g)[j]
      BY <1>1, <1>3, ByKind, ByKindNext DEF Kind
    <3> QED BY <3>1 DEF OthersStay
  <2>4. /\ "outQue" \in Kind /\ "inList" \in Kind
        /\ \A f \in Frame : f \in Range(outQue) => Itself[f] \in At(f)["outQue"]
    BY ByKind DEF Kind, Itself
  <2> QED BY <2>2, <2>3, <2>4, MovesSole DEF GraphInv
<1>7. HeldInv'
  BY <1>1, <1>3, EmptyQueue DEF GraphInv, HeldInv
<1>8. OnceInv'
  BY <1>1, <1>4, EmptyQueue DEF GraphInv, OnceInv
<1>9. OwnerInv'
  BY <1>1 DEF GraphInv, OwnerInv
<1>10. TasksInv'
  BY <1>1 DEF GraphInv, TasksInv
<1>11. ChannelsInv'
  <2>1. ASSUME NEW f \in Frame
        PROVE  /\ f \in Merged' <=> f \in Merged
               /\ f \in Sel!Behind' <=> f \in Sel!Behind
    BY <1>1, EmptyQueue, Whereabouts, WhereaboutsNext
  <2> QED BY <1>1, <2>1, SameChannels
<1>12. NoFrameWaits'
  BY <1>1, <1>3 DEF GraphInv, NoFrameWaits, NoStrandedFrame
<1> QED
  BY <1>5, <1>6, <1>7, <1>8, <1>9, <1>10, <1>11, <1>12 DEF GraphInv

\* NextGet: a next link takes the frames of its queue.
LEMMA NextGetStep ==
    ASSUME GraphInv, NEW q \in Sel!OutQue, Sel!NextGet(q), UNCHANGED <<mergeVars, sets>>
    PROVE  GraphInv'
<1> DEFINE s == outFrameQue[q]
<1>1. /\ using' = [using EXCEPT ![q] = @ \cup Range(s)]
      /\ outFrameQue' = [outFrameQue EXCEPT ![q] = <<>>]
      /\ taking' = [taking EXCEPT ![q] = FALSE]
      /\ UNCHANGED <<source, inFull, told, chan, inNotice, mergePc, inQue, newData, outQue, notice,
                     getting, held, lock, freeList, pc, ret, upQue>>
      /\ UNCHANGED <<selPc, inList, unmapped, newSelData, inChInfo, prevOutQueChInfo, org, mail,
                     sets>>
  BY SelectRange DEF Sel!NextGet, mergeVars, prev, merge, put, Sel!map, Sel!loop
<1>2. TypeOK /\ Sel!SelTypeOK /\ sets \in 0 .. MaxSet
  BY DEF GraphInv, GraphTypeOK
<1>3. s \in Seq(Frame) /\ Range(s) \subseteq Frame
  <2>1. s \in Seq(Frame)
    BY <1>2 DEF Sel!SelTypeOK
  <2> QED BY <2>1 DEF Range
<1>4. \A p \in Sel!OutQue : /\ using'[p] = IF p = q THEN using[p] \cup Range(s) ELSE using[p]
                            /\ outFrameQue'[p] = IF p = q THEN <<>> ELSE outFrameQue[p]
                            /\ taking'[p] = IF p = q THEN FALSE ELSE taking[p]
  BY <1>1, <1>2 DEF Sel!SelTypeOK
<1>13. ASSUME NEW g, NEW w \in Sel!OutQue
       PROVE  /\ g \in Range(outFrameQue'[w]) <=>
                    g \in Range(outFrameQue[w]) /\ ~(g \in Range(s) /\ w = q)
              /\ g \in using'[w] <=> g \in using[w] \/ (g \in Range(s) /\ w = q)
  <2>1. CASE w = q
    BY <1>4, <2>1, EmptyQueue
  <2>2. CASE w # q
    BY <1>4, <2>2
  <2> QED BY <2>1, <2>2
<1>5. GraphTypeOK'
  <2>1. TypeOK'
    BY <1>1, <1>2 DEF TypeOK
  <2>2. using' \in [Sel!OutQue -> SUBSET Frame] /\ outFrameQue' \in [Sel!OutQue -> Seq(Frame)]
        /\ taking' \in [Sel!OutQue -> BOOLEAN]
    BY <1>1, <1>2, <1>3 DEF Sel!SelTypeOK
  <2>3. Sel!SelTypeOK'
    BY <1>1, <1>2, <2>2 DEF Sel!SelTypeOK
  <2> QED BY <1>1, <1>2, <2>1, <2>3 DEF GraphTypeOK
<1>6. SoleInv'
  <2> DEFINE X == Only(q)
  <2>1. ASSUME NEW g \in Frame, NEW w
        PROVE  /\ w \in At(g)'["queue"] <=> w \in At(g)["queue"] /\ ~(g \in Range(s) /\ w = X[g])
               /\ w \in At(g)'["using"] <=> w \in At(g)["using"] \/ (g \in Range(s) /\ w = X[g])
    BY <1>13, ByKind, ByKindNext DEF Only
  <2>2. Moves(Range(s), "queue", X, "using", X)
    BY <2>1 DEF Moves
  <2>3. OthersStay("queue", "using")
    <3>1. ASSUME NEW g \in Frame, NEW j \in Kind \ {"queue", "using"}, NEW w
          PROVE  w \in At(g)'[j] <=> w \in At(g)[j]
      BY <1>1, ByKind, ByKindNext DEF Kind
    <3> QED BY <3>1 DEF OthersStay
  <2>4. /\ "queue" \in Kind /\ "using" \in Kind
        /\ \A f \in Frame : f \in Range(s) => X[f] \in At(f)["queue"]
    BY ByKind DEF Kind, Only
  <2> HIDE DEF X, s
  <2> QED BY <2>2, <2>3, <2>4, MovesSole DEF GraphInv
<1>7. HeldInv'
  <2>1. ASSUME NEW f \in Frame
        PROVE  (\E p \in Sel!OutQue : f \in Range(outFrameQue'[p]) \cup using'[p])
               <=> \E p \in Sel!OutQue : f \in Range(outFrameQue[p]) \cup using[p]
    BY <1>13
  <2> QED BY <1>1, <2>1 DEF GraphInv, HeldInv
<1>8. OnceInv'
  BY <1>1, <1>4, EmptyQueue DEF GraphInv, OnceInv
<1>9. OwnerInv'
  BY <1>1 DEF GraphInv, OwnerInv
<1>10. TasksInv'
  BY <1>1 DEF GraphInv, TasksInv
<1>11. ChannelsInv'
  <2>1. ASSUME NEW f \in Frame
        PROVE  /\ f \in Merged' <=> f \in Merged
               /\ f \in Sel!Behind' <=> f \in Sel!Behind
    <3>1. (\E p \in Sel!OutQue : f \in Range(outFrameQue'[p]) \cup using'[p])
               <=> \E p \in Sel!OutQue : f \in Range(outFrameQue[p]) \cup using[p]
      BY <1>13
    <3> QED BY <1>1, <3>1, Whereabouts, WhereaboutsNext
  <2> QED BY <1>1, <2>1, SameChannels
<1>12. NoFrameWaits'
  BY <1>1, <1>4 DEF GraphInv, NoFrameWaits, NoStrandedFrame
<1> QED
  BY <1>5, <1>6, <1>7, <1>8, <1>9, <1>10, <1>11, <1>12 DEF GraphInv

\* A list of some elements of a set.
LEMMA ListOf ==
    ASSUME NEW S, IsFiniteSet(S), NEW s \in Lists(S)
    PROVE  s \in Seq(S) /\ s # <<>> /\ IsInjective(s) /\ Range(s) \subseteq S
<1>1. Cardinality(S) \in Nat
  BY FS_CardinalityType
<1>2. PICK n \in 1 .. Cardinality(S) : s \in [1 .. n -> S] /\ IsInjective(s)
  BY DEF Lists
<1>3. n \in Nat /\ n >= 1
  BY <1>1
<1>4. s \in Seq(S) /\ Len(s) = n
  BY <1>2, <1>3
<1> QED
  BY <1>2, <1>3, <1>4 DEF Range

\* What a task that returns frames does to the merge link's variables.
LEMMA ReturnTypes ==
    ASSUME GraphInv, NEW t \in Caller, NEW s \in Seq(Frame), s # <<>>, Return(t, s)
    PROVE  /\ ret[t] = <<>> /\ pc[t] = "idle"
           /\ ret' = [ret EXCEPT ![t] = s] /\ ret' \in [Caller -> Seq(Frame)]
           /\ pc' = [pc EXCEPT ![t] = "pend"]
           /\ held' = held \ Range(s)
           /\ \A u \in Caller : ret'[u] = IF u = t THEN s ELSE ret[u]
           /\ chan' \in [Frame -> Nat] => TypeOK'
           /\ \A u \in Caller : /\ lock' = u <=> pc'[u] \in {"sort", "up"}
                                /\ ret'[u] # <<>> <=> pc'[u] \in {"pend", "sort"}
                                /\ pc'[u] # "up" => upQue'[u] = 0
           /\ lock # None /\ pc[lock] = "up" <=> lock # None /\ pc'[lock] = "up"
           /\ UNCHANGED <<source, inFull, told, inNotice, mergePc, inQue, newData, outQue, notice,
                          getting, lock, freeList, upQue>>
<1>1. /\ pc[t] = "idle" /\ ret' = [ret EXCEPT ![t] = s] /\ held' = held \ Range(s)
      /\ pc' = [pc EXCEPT ![t] = "pend"]
      /\ UNCHANGED <<source, inFull, told, inNotice, mergePc, inQue, newData, outQue, notice,
                     getting, lock, freeList, upQue>>
  BY DEF Return, Goto, prev, merge
<1>2. TypeOK
  BY DEF GraphInv, GraphTypeOK
<1>3. ret[t] = <<>>
  BY <1>1 DEF GraphInv, TasksInv
<1>4. ret' \in [Caller -> Seq(Frame)] /\ pc' \in [Caller -> {"idle", "pend", "sort", "up"}]
  BY <1>1, <1>2 DEF TypeOK
<1>5. \A u \in Caller : /\ ret'[u] = IF u = t THEN s ELSE ret[u]
                        /\ pc'[u] = IF u = t THEN "pend" ELSE pc[u]
  BY <1>1, <1>2 DEF TypeOK
<1>6. chan' \in [Frame -> Nat] => TypeOK'
  BY <1>1, <1>2, <1>4 DEF TypeOK
<1>7. ASSUME NEW u \in Caller
      PROVE  /\ lock' = u <=> pc'[u] \in {"sort", "up"}
             /\ ret'[u] # <<>> <=> pc'[u] \in {"pend", "sort"}
             /\ pc'[u] # "up" => upQue'[u] = 0
  BY <1>1, <1>5 DEF GraphInv, TasksInv
<1>8. lock # None => lock \in Caller /\ lock # t
  BY <1>1, <1>2 DEF GraphInv, TasksInv, TypeOK
<1> QED
  BY <1>1, <1>3, <1>4, <1>5, <1>6, <1>7, <1>8

\* Returns: a next link's task returns frames with the numbers they came with.
LEMMA ReturnsMoves ==
    ASSUME GraphInv, NEW q \in Sel!OutQue, Returns(q)
    PROVE  \E s \in Seq(Frame) :
              /\ s # <<>> /\ IsInjective(s) /\ Range(s) \subseteq using[q]
              /\ s \in Lists(using[q])
              /\ Return(NextTask[q], s) /\ NextTask[q] \in Caller
              /\ chan' = [f \in Frame |-> IF f \in Range(s) THEN org[f] ELSE chan[f]]
              /\ using' = [using EXCEPT ![q] = @ \ Range(s)]
              /\ \A p \in Sel!OutQue : using'[p] = using[p] \ (IF p = q THEN Range(s) ELSE {})
              /\ UNCHANGED <<selPc, inList, unmapped, newSelData, outFrameQue, inChInfo,
                             prevOutQueChInfo, org, mail, taking, sets>>
<1>1. using[q] \subseteq Frame /\ using \in [Sel!OutQue -> SUBSET Frame]
  BY DEF GraphInv, GraphTypeOK, Sel!SelTypeOK
<1>2. IsFiniteSet(using[q])
  BY <1>1, FrameAssumption, FS_Subset
<1>3. PICK s \in Lists(using[q]) : Sel!Restore(q, s) /\ Return(NextTask[q], s) /\ UNCHANGED sets
  BY DEF Returns
<1>4. s \in Seq(using[q]) /\ s # <<>> /\ IsInjective(s) /\ Range(s) \subseteq using[q]
  BY <1>2, ListOf
<1>5. s \in Seq(Frame)
  BY <1>1, <1>4
<1>6. NextTask[q] \in Caller
  BY TaskAssumption DEF Sel!OutQue
<1>7. /\ chan' = [f \in Frame |-> IF f \in Range(s) THEN org[f] ELSE chan[f]]
      /\ using' = [using EXCEPT ![q] = @ \ Range(s)]
      /\ UNCHANGED <<selPc, inList, unmapped, newSelData, outFrameQue, inChInfo,
                     prevOutQueChInfo, org, mail, taking, sets>>
  BY <1>3, SelectRange DEF Sel!Restore, Sel!map, Sel!loop
<1>8. \A p \in Sel!OutQue : using'[p] = using[p] \ (IF p = q THEN Range(s) ELSE {})
  BY <1>1, <1>7
<1> QED
  BY <1>3, <1>4, <1>5, <1>6, <1>7, <1>8

LEMMA ReturnsStep == ASSUME GraphInv, NEW q \in Sel!OutQue, Returns(q) PROVE GraphInv'
<1>1. PICK s \in Seq(Frame) :
              /\ s # <<>> /\ IsInjective(s) /\ Range(s) \subseteq using[q]
              /\ s \in Lists(using[q])
              /\ Return(NextTask[q], s) /\ NextTask[q] \in Caller
              /\ chan' = [f \in Frame |-> IF f \in Range(s) THEN org[f] ELSE chan[f]]
              /\ using' = [using EXCEPT ![q] = @ \ Range(s)]
              /\ \A p \in Sel!OutQue : using'[p] = using[p] \ (IF p = q THEN Range(s) ELSE {})
              /\ UNCHANGED <<selPc, inList, unmapped, newSelData, outFrameQue, inChInfo,
                             prevOutQueChInfo, org, mail, taking, sets>>
  BY ReturnsMoves
<1> DEFINE t == NextTask[q]
<1>2. TypeOK /\ Sel!SelTypeOK /\ sets \in 0 .. MaxSet
  BY DEF GraphInv, GraphTypeOK
<1>3. t \in Caller /\ Return(t, s)
  BY <1>1
<1>4. /\ ret[t] = <<>> /\ held' = held \ Range(s)
      /\ \A u \in Caller : ret'[u] = IF u = t THEN s ELSE ret[u]
      /\ UNCHANGED <<source, inFull, told, inNotice, mergePc, inQue, newData, outQue, notice,
                     getting, lock, freeList, upQue>>
      /\ lock # None /\ pc[lock] = "up" <=> lock # None /\ pc'[lock] = "up"
  BY <1>1, <1>3, ReturnTypes
<1> HIDE DEF t
<1>5. GraphTypeOK'
  <2>1. chan' \in [Frame -> Nat]
    BY <1>1, <1>2 DEF TypeOK, Sel!SelTypeOK
  <2>2. TypeOK'
    BY <1>1, <1>3, <2>1, ReturnTypes
  <2>3. Sel!SelTypeOK'
    BY <1>1, <1>2, <2>1 DEF Sel!SelTypeOK
  <2> QED BY <1>1, <1>2, <2>2, <2>3 DEF GraphTypeOK
<1>6. ASSUME NEW f \in Frame
      PROVE  /\ f \in Range(s) => q \in At(f)["using"] /\ f \in Merged /\ f \in Sel!Behind
             /\ \A p \in Sel!OutQue : f \in using'[p] <=> f \in using[p] /\ ~(f \in Range(s) /\ p = q)
             /\ f \in Range(s) => f \notin Range(inList) \cup Range(unmapped)
             /\ \A p \in Sel!OutQue : f \in Range(s) => f \notin Range(outFrameQue[p]) \cup using'[p]
  <2>1. \A p \in Sel!OutQue : f \in using'[p] <=> f \in using[p] /\ ~(f \in Range(s) /\ p = q)
    BY <1>1
  <2>2. CASE f \in Range(s)
    <3>1. q \in At(f)["using"] /\ "using" \in Kind /\ "inList" \in Kind /\ "unmapped" \in Kind
          /\ "queue" \in Kind
      BY <1>1, <2>2, ByKind DEF Kind
    <3>2. f \in Merged /\ f \in Sel!Behind
      BY <3>1, PlaceTells
    <3>3. f \notin Range(inList) /\ f \notin Range(unmapped)
      BY <3>1, OnePlace, ByKind DEF GraphInv
    <3>4. ASSUME NEW p \in Sel!OutQue
          PROVE  f \notin Range(outFrameQue[p]) /\ (f \in using[p] => p = q)
      <4>1. /\ f \in Range(outFrameQue[p]) => p \in At(f)["queue"]
            /\ f \in using[p] => p \in At(f)["using"]
        BY ByKind
      <4> QED BY <3>1, <4>1, OnePlace DEF GraphInv
    <3> QED BY <2>1, <2>2, <3>1, <3>2, <3>3, <3>4
  <2> QED BY <2>1, <2>2
<1>7. SoleInv'
  <2> DEFINE X == Only(q)
             Y == Only(t)
  <2>1. ASSUME NEW g \in Frame, NEW w
        PROVE  /\ w \in At(g)'["using"] <=> w \in At(g)["using"] /\ ~(g \in Range(s) /\ w = X[g])
               /\ w \in At(g)'["ret"] <=> w \in At(g)["ret"] \/ (g \in Range(s) /\ w = Y[g])
    <3>1. w \in Caller => (g \in Range(ret'[w]) <=> g \in Range(ret[w]) \/ (g \in Range(s) /\ w = t))
      BY <1>4, EmptyQueue
    <3> QED BY <1>3, <1>6, <3>1, ByKind, ByKindNext DEF Only
  <2>2. Moves(Range(s), "using", X, "ret", Y)
    BY <2>1 DEF Moves
  <2>3. OthersStay("using", "ret")
    <3>1. ASSUME NEW g \in Frame, NEW j \in Kind \ {"using", "ret"}, NEW w
          PROVE  w \in At(g)'[j] <=> w \in At(g)[j]
      BY <1>1, <1>4, ByKind, ByKindNext DEF Kind
    <3> QED BY <3>1 DEF OthersStay
  <2>4. /\ "using" \in Kind /\ "ret" \in Kind
        /\ \A f \in Frame : f \in Range(s) => X[f] \in At(f)["using"]
    BY <1>6 DEF Kind, Only
  <2> HIDE DEF X, Y
  <2> QED BY <2>2, <2>3, <2>4, MovesSole DEF GraphInv
<1>8. HeldInv'
  <2>1. ASSUME NEW f \in Frame
        PROVE f \in held' <=> \/ f \in Range(inList) \cup Range(unmapped)
                              \/ \E p \in Sel!OutQue : f \in Range(outFrameQue[p]) \cup using'[p]
    <3>1. CASE f \in Range(s)
      BY <1>4, <1>6, <3>1
    <3>2. CASE f \notin Range(s)
      BY <1>4, <1>6, <3>2 DEF GraphInv, HeldInv
    <3> QED BY <3>1, <3>2
  <2> QED BY <1>1, <2>1 DEF HeldInv
<1>9. OnceInv'
  BY <1>1, <1>4 DEF GraphInv, OnceInv
<1>10. OwnerInv'
  BY <1>4 DEF GraphInv, OwnerInv
<1>11. TasksInv'
  BY <1>1, <1>3, <1>4, ReturnTypes DEF GraphInv, TasksInv
<1>12. ChannelsInv'
  <2>1. ASSUME NEW f \in Frame
        PROVE  /\ f \in Merged' <=> f \in Merged
               /\ f \in Sel!Behind' <=> f \in Sel!Behind /\ f \notin Range(s)
    <3>1. CASE f \in Range(s)
      BY <1>1, <1>3, <1>4, <1>6, <3>1, Whereabouts, WhereaboutsNext
    <3>2. CASE f \notin Range(s)
      BY <1>1, <1>3, <1>4, <1>6, <3>2, EmptyQueue, Whereabouts, WhereaboutsNext
    <3> QED BY <3>1, <3>2
  <2>2. Sel!OrgChannel' = Sel!OrgChannel
    <3>1. ASSUME NEW f \in Frame
          PROVE  (IF f \in Sel!Behind' THEN org'[f] ELSE chan'[f])
                 = IF f \in Sel!Behind THEN org[f] ELSE chan[f]
      BY <1>1, <1>6, <2>1
    <3> QED BY <3>1 DEF Sel!OrgChannel
  <2> QED BY <2>1, <2>2 DEF GraphInv, ChannelsInv
<1>13. NoFrameWaits'
  BY <1>1, <1>4 DEF GraphInv, NoFrameWaits, NoStrandedFrame
<1> QED
  BY <1>5, <1>7, <1>8, <1>9, <1>10, <1>11, <1>12, <1>13 DEF GraphInv
\* Frees: the select link's task returns the frames of channels that are not
\* mapped.
LEMMA FreesStep == ASSUME GraphInv, Frees PROVE GraphInv'
<1> DEFINE s == unmapped
           t == SelTask
<1>1. /\ selPc = "free" /\ unmapped' = <<>> /\ selPc' = IF newSelData = {} THEN "idle" ELSE "notify"
      /\ Return(t, s) /\ t \in Caller
      /\ UNCHANGED <<chan, inList, newSelData, outFrameQue, inChInfo, prevOutQueChInfo, org, mail,
                     taking, using, sets>>
  BY TaskAssumption DEF Frees, Sel!FreeUnmapped, Sel!map, Sel!users
<1>2. TypeOK /\ Sel!SelTypeOK /\ sets \in 0 .. MaxSet
  BY DEF GraphInv, GraphTypeOK
<1>3. s \in Seq(Frame) /\ s # <<>> /\ IsInjective(s) /\ inList = <<>>
  BY <1>1, <1>2 DEF Sel!SelTypeOK, GraphInv, TasksInv, OnceInv
<1> HIDE DEF t
<1>4. /\ ret[t] = <<>> /\ held' = held \ Range(s)
      /\ \A u \in Caller : ret'[u] = IF u = t THEN s ELSE ret[u]
      /\ UNCHANGED <<source, inFull, told, inNotice, mergePc, inQue, newData, outQue, notice,
                     getting, lock, freeList, upQue>>
      /\ lock # None /\ pc[lock] = "up" <=> lock # None /\ pc'[lock] = "up"
  BY <1>1, <1>3, ReturnTypes
<1>5. GraphTypeOK'
  <2>1. TypeOK'
    BY <1>1, <1>2, <1>3, ReturnTypes DEF TypeOK
  <2>2. Sel!SelTypeOK'
    BY <1>1, <1>2, EmptySeq DEF Sel!SelTypeOK
  <2> QED BY <1>1, <1>2, <2>1, <2>2 DEF GraphTypeOK
<1>6. ASSUME NEW f \in Frame, f \in Range(s)
      PROVE  /\ f \in At(f)["unmapped"] /\ f \in Merged /\ f \notin Sel!Behind
             /\ f \notin Range(inList)
             /\ \A p \in Sel!OutQue : f \notin Range(outFrameQue[p]) \cup using[p]
  <2>1. f \in At(f)["unmapped"] /\ "unmapped" \in Kind
    BY <1>6, ByKind DEF Kind
  <2>2. f \in Merged /\ f \notin Sel!Behind
    BY <2>1, PlaceTells
  <2> QED BY <1>3, <2>1, <2>2, EmptyQueue, Whereabouts
<1>7. SoleInv'
  <2> DEFINE Y == Only(t)
  <2>1. ASSUME NEW g \in Frame, NEW w
        PROVE  /\ w \in At(g)'["unmapped"] <=>
                     w \in At(g)["unmapped"] /\ ~(g \in Range(s) /\ w = Itself[g])
               /\ w \in At(g)'["ret"] <=> w \in At(g)["ret"] \/ (g \in Range(s) /\ w = Y[g])
    <3>1. w \in Caller => (g \in Range(ret'[w]) <=> g \in Range(ret[w]) \/ (g \in Range(s) /\ w = t))
      BY <1>4, EmptyQueue
    <3> QED BY <1>1, <3>1, EmptyQueue, ByKind, ByKindNext DEF Only, Itself
  <2>2. Moves(Range(s), "unmapped", Itself, "ret", Y)
    BY <2>1 DEF Moves
  <2>3. OthersStay("unmapped", "ret")
    <3>1. ASSUME NEW g \in Frame, NEW j \in Kind \ {"unmapped", "ret"}, NEW w
          PROVE  w \in At(g)'[j] <=> w \in At(g)[j]
      BY <1>1, <1>4, ByKind, ByKindNext DEF Kind
    <3> QED BY <3>1 DEF OthersStay
  <2>4. /\ "unmapped" \in Kind /\ "ret" \in Kind
        /\ \A f \in Frame : f \in Range(s) => Itself[f] \in At(f)["unmapped"]
    BY <1>6 DEF Kind, Itself
  <2> HIDE DEF Y, s
  <2> QED BY <2>2, <2>3, <2>4, MovesSole DEF GraphInv
<1>8. HeldInv'
  <2>1. ASSUME NEW f \in Frame
        PROVE f \in held' <=> \/ f \in Range(inList) \cup Range(unmapped')
                              \/ \E p \in Sel!OutQue : f \in Range(outFrameQue[p]) \cup using[p]
    <3>1. CASE f \in Range(s)
      BY <1>1, <1>4, <1>6, <3>1, EmptyQueue
    <3>2. CASE f \notin Range(s)
      BY <1>1, <1>4, <3>2, EmptyQueue DEF GraphInv, HeldInv
    <3> QED BY <3>1, <3>2
  <2> QED BY <1>1, <2>1 DEF HeldInv
<1>9. OnceInv'
  BY <1>1, <1>3, <1>4, EmptyQueue DEF GraphInv, OnceInv
<1>10. OwnerInv'
  BY <1>4 DEF GraphInv, OwnerInv
<1>11. TasksInv'
  BY <1>1, <1>3, <1>4, ReturnTypes DEF GraphInv, TasksInv
<1>12. ChannelsInv'
  <2>1. ASSUME NEW f \in Frame
        PROVE  /\ f \in Merged' <=> f \in Merged
               /\ f \in Sel!Behind' <=> f \in Sel!Behind
    <3>1. CASE f \in Range(s)
      BY <1>1, <1>4, <1>6, <3>1, Whereabouts, WhereaboutsNext
    <3>2. CASE f \notin Range(s)
      BY <1>1, <1>4, <3>2, EmptyQueue, Whereabouts, WhereaboutsNext
    <3> QED BY <3>1, <3>2
  <2> QED BY <1>1, <2>1, SameChannels
<1>13. NoFrameWaits'
  BY <1>1, <1>4 DEF GraphInv, NoFrameWaits, NoStrandedFrame
<1> QED
  BY <1>5, <1>7, <1>8, <1>9, <1>10, <1>11, <1>12, <1>13 DEF GraphInv
\* One turn of the select link's loop over its frames.
LEMMA LoopTurn ==
    ASSUME GraphInv, selPc = "frames", Sel!Loop
    PROVE  /\ inList # <<>> /\ Head(inList) \in Frame
           /\ Head(inList) \in At(Head(inList))["inList"]
           /\ inList' \in Seq(Frame) /\ IsInjective(inList')
           /\ Range(inList') = Range(inList) \ {Head(inList)}
           /\ Head(inList) \in Range(inList)
           /\ inList' # <<>> <=> selPc' = "frames"
           /\ selPc' = "free" => unmapped' # <<>>
           /\ selPc' = "notify" => unmapped' = <<>>
           /\ selPc' \in {"frames", "free", "notify"}
<1>1. inList # <<>> /\ inList \in Seq(Frame) /\ IsInjective(inList)
  BY DEF GraphInv, GraphTypeOK, Sel!SelTypeOK, TasksInv, OnceInv
<1>2. /\ inList' = Tail(inList)
      /\ selPc' = IF Len(inList) > 1 THEN "frames" ELSE IF unmapped' # <<>> THEN "free" ELSE "notify"
  BY DEF Sel!Loop
<1>3. /\ Head(inList) \in Frame /\ Head(inList) \in Range(inList) /\ Tail(inList) \in Seq(Frame)
      /\ Len(Tail(inList)) = Len(inList) - 1
      /\ IsInjective(Tail(inList)) /\ Range(Tail(inList)) = Range(inList) \ {Head(inList)}
  BY <1>1, QueueTake
<1>4. Tail(inList) # <<>> <=> Len(inList) > 1
  <2>1. Len(inList) \in Nat /\ (Tail(inList) = <<>> <=> Len(Tail(inList)) = 0)
    BY <1>1, <1>3, LenProperties, EmptySeq
  <2> QED BY <1>3, <2>1
<1>5. Head(inList) \in At(Head(inList))["inList"]
  BY <1>3, ByKind
<1> QED
  BY <1>1, <1>2, <1>3, <1>4, <1>5

\* Unselected: a frame of a channel that is not mapped is sorted out.
LEMMA UnselectedStep ==
    ASSUME GraphInv, Sel!Unselected, UNCHANGED <<mergeVars, sets>>
    PROVE  GraphInv'
<1>1. PICK f \in Frame : f = Head(inList) /\ f \in At(f)["inList"]
  BY LoopTurn DEF Sel!Unselected
<1>2. /\ selPc = "frames" /\ unmapped' = Append(unmapped, f) /\ Sel!Loop
      /\ UNCHANGED <<source, inFull, told, chan, inNotice, mergePc, inQue, newData, outQue, notice,
                     getting, held, lock, freeList, pc, ret, upQue>>
      /\ UNCHANGED <<newSelData, outFrameQue, inChInfo, prevOutQueChInfo, org, mail, taking, using,
                     sets>>
  BY <1>1 DEF Sel!Unselected, mergeVars, prev, merge, put, Sel!map, Sel!users
<1>3. TypeOK /\ Sel!SelTypeOK /\ sets \in 0 .. MaxSet
  BY DEF GraphInv, GraphTypeOK
<1>4. /\ inList' \in Seq(Frame) /\ IsInjective(inList') /\ Range(inList') = Range(inList) \ {f}
      /\ f \in Range(inList)
      /\ inList' # <<>> <=> selPc' = "frames"
      /\ selPc' = "free" => unmapped' # <<>>
      /\ selPc' = "notify" => unmapped' = <<>>
      /\ selPc' \in {"frames", "free", "notify"}
  BY <1>1, <1>2, LoopTurn
<1>5. /\ unmapped' \in Seq(Frame) /\ unmapped' # <<>> /\ IsInjective(unmapped')
      /\ Range(unmapped') = Range(unmapped) \cup {f}
  <2>1. unmapped \in Seq(Frame) /\ IsInjective(unmapped)
    BY <1>3 DEF Sel!SelTypeOK, GraphInv, OnceInv
  <2>2. f \notin Range(unmapped)
    BY <1>1, OnePlace, ByKind DEF GraphInv, Kind
  <2> QED BY <1>2, <2>1, <2>2, QueueAppend
<1>6. GraphTypeOK'
  <2>1. TypeOK'
    BY <1>2, <1>3 DEF TypeOK
  <2>2. Sel!SelTypeOK'
    BY <1>2, <1>3, <1>4, <1>5 DEF Sel!SelTypeOK
  <2> QED BY <1>2, <1>3, <2>1, <2>2 DEF GraphTypeOK
<1>7. SoleInv'
  <2>1. ASSUME NEW g \in Frame, NEW w
        PROVE  /\ w \in At(g)'["inList"] <=> w \in At(g)["inList"] /\ ~(g \in {f} /\ w = Itself[g])
               /\ w \in At(g)'["unmapped"] <=> w \in At(g)["unmapped"] \/ (g \in {f} /\ w = Itself[g])
    BY <1>4, <1>5, ByKind, ByKindNext DEF Itself
  <2>2. Moves({f}, "inList", Itself, "unmapped", Itself)
    BY <2>1 DEF Moves
  <2>3. OthersStay("inList", "unmapped")
    <3>1. ASSUME NEW g \in Frame, NEW j \in Kind \ {"inList", "unmapped"}, NEW w
          PROVE  w \in At(g)'[j] <=> w \in At(g)[j]
      BY <1>2, ByKind, ByKindNext DEF Kind
    <3> QED BY <3>1 DEF OthersStay
  <2>4. "inList" \in Kind /\ "unmapped" \in Kind /\ Itself[f] \in At(f)["inList"]
    BY <1>1 DEF Kind, Itself
  <2> QED BY <2>2, <2>3, <2>4, MovesSole DEF GraphInv
<1>8. HeldInv'
  BY <1>2, <1>4, <1>5 DEF GraphInv, HeldInv
<1>9. OnceInv'
  BY <1>2, <1>4, <1>5 DEF GraphInv, OnceInv
<1>10. OwnerInv'
  BY <1>2 DEF GraphInv, OwnerInv
<1>11. TasksInv'
  BY <1>2, <1>4, <1>5 DEF GraphInv, TasksInv
<1>12. ChannelsInv'
  BY <1>2, SameChannels DEF Merged, Sel!Behind
<1>13. NoFrameWaits'
  BY <1>2 DEF GraphInv, NoFrameWaits, NoStrandedFrame
<1> QED
  BY <1>6, <1>7, <1>8, <1>9, <1>10, <1>11, <1>12, <1>13 DEF GraphInv

\* Selected: a frame of a mapped channel goes to the queue of the channel, with
\* the channel's number there; its own is kept.
LEMMA SelectedMoves ==
    ASSUME GraphInv, Sel!Selected
    PROVE  \E f \in Frame, q \in Sel!OutQue, n \in Nat :
              /\ f = Head(inList) /\ f \in At(f)["inList"] /\ f \in Merged /\ f \notin Sel!Behind
              /\ org' = [org EXCEPT ![f] = chan[f]] /\ chan' = [chan EXCEPT ![f] = n]
              /\ outFrameQue' = [outFrameQue EXCEPT ![q] = Append(@, f)]
              /\ outFrameQue' \in [Sel!OutQue -> Seq(Frame)]
              /\ newSelData' = newSelData \cup {q}
              /\ \A p \in Sel!OutQue :
                    /\ IsInjective(outFrameQue'[p])
                    /\ \A g : g \in Range(outFrameQue'[p]) <=> g \in Range(outFrameQue[p]) \/ (g = f /\ p = q)
                    /\ p # q => outFrameQue'[p] = outFrameQue[p]
<1>1. PICK f \in Frame : f = Head(inList) /\ f \in At(f)["inList"]
  BY LoopTurn DEF Sel!Selected
<1>2. f \in Merged /\ f \notin Sel!Behind
  BY <1>1, PlaceTells DEF Kind
<1>3. chan[f] \in OutCh
  BY <1>2, Numbers
<1>4. inChInfo[chan[f]] \in Sel!Mapping
  BY <1>3 DEF GraphInv, GraphTypeOK, Sel!SelTypeOK
<1>5. PICK q \in Sel!OutQue, n \in Nat :
         q = inChInfo[chan[f]].queId /\ n = inChInfo[chan[f]].outChNum
  BY <1>1, <1>4 DEF Sel!Selected, Sel!Mapping
<1>6. /\ org' = [org EXCEPT ![f] = chan[f]] /\ chan' = [chan EXCEPT ![f] = n]
      /\ outFrameQue' = [outFrameQue EXCEPT ![q] = Append(@, f)]
      /\ newSelData' = newSelData \cup {q}
  BY <1>1, <1>5 DEF Sel!Selected
<1>7. outFrameQue \in [Sel!OutQue -> Seq(Frame)]
  BY DEF GraphInv, GraphTypeOK, Sel!SelTypeOK
<1>8. /\ Append(outFrameQue[q], f) \in Seq(Frame) /\ IsInjective(Append(outFrameQue[q], f))
      /\ Range(Append(outFrameQue[q], f)) = Range(outFrameQue[q]) \cup {f}
  <2>1. IsInjective(outFrameQue[q]) /\ outFrameQue[q] \in Seq(Frame)
    BY <1>7 DEF GraphInv, OnceInv
  <2>2. f \notin Range(outFrameQue[q])
    BY <1>2, Whereabouts
  <2> QED BY <2>1, <2>2, QueueAppend
<1>9. outFrameQue' \in [Sel!OutQue -> Seq(Frame)]
  BY <1>6, <1>7, <1>8
<1>10. ASSUME NEW p \in Sel!OutQue
       PROVE  /\ IsInjective(outFrameQue'[p])
              /\ \A g : g \in Range(outFrameQue'[p]) <=> g \in Range(outFrameQue[p]) \/ (g = f /\ p = q)
              /\ p # q => outFrameQue'[p] = outFrameQue[p]
  <2>1. CASE p = q
    <3>1. outFrameQue'[p] = Append(outFrameQue[q], f)
      BY <1>6, <1>7, <2>1
    <3> QED BY <1>8, <2>1, <3>1
  <2>2. CASE p # q
    <3>1. outFrameQue'[p] = outFrameQue[p]
      BY <1>6, <1>7, <2>2
    <3> QED BY <2>2, <3>1 DEF GraphInv, OnceInv
  <2> QED BY <2>1, <2>2
<1> WITNESS f \in Frame, q \in Sel!OutQue, n \in Nat
<1> QED
  BY <1>1, <1>2, <1>6, <1>9, <1>10
LEMMA SelectedStep ==
    ASSUME GraphInv, Sel!Selected, UNCHANGED <<mergePc, inQue, newData>>,
           UNCHANGED <<source, inFull, told, inNotice, outQue, notice, getting, held, lock, freeList,
                       pc, ret, upQue, sets>>
    PROVE  GraphInv'
<1>1. PICK f \in Frame, q \in Sel!OutQue, n \in Nat :
              /\ f = Head(inList) /\ f \in At(f)["inList"] /\ f \in Merged /\ f \notin Sel!Behind
              /\ org' = [org EXCEPT ![f] = chan[f]] /\ chan' = [chan EXCEPT ![f] = n]
              /\ outFrameQue' = [outFrameQue EXCEPT ![q] = Append(@, f)]
              /\ outFrameQue' \in [Sel!OutQue -> Seq(Frame)]
              /\ newSelData' = newSelData \cup {q}
              /\ \A p \in Sel!OutQue :
                    /\ IsInjective(outFrameQue'[p])
                    /\ \A g : g \in Range(outFrameQue'[p]) <=> g \in Range(outFrameQue[p]) \/ (g = f /\ p = q)
                    /\ p # q => outFrameQue'[p] = outFrameQue[p]
  BY SelectedMoves
<1>2. /\ selPc = "frames" /\ Sel!Loop
      /\ UNCHANGED <<unmapped, inChInfo, prevOutQueChInfo, mail, taking, using>>
  BY DEF Sel!Selected, Sel!map, Sel!users
<1>3. TypeOK /\ Sel!SelTypeOK /\ sets \in 0 .. MaxSet
  BY DEF GraphInv, GraphTypeOK
<1>4. /\ inList' \in Seq(Frame) /\ IsInjective(inList') /\ Range(inList') = Range(inList) \ {f}
      /\ f \in Range(inList)
      /\ inList' # <<>> <=> selPc' = "frames"
      /\ selPc' = "free" => unmapped' # <<>>
      /\ selPc' = "notify" => unmapped' = <<>>
      /\ selPc' \in {"frames", "free", "notify"}
  BY <1>1, <1>2, LoopTurn
<1>5. chan[f] \in Nat
  BY <1>3 DEF TypeOK
<1>6. GraphTypeOK'
  <2>1. chan' \in [Frame -> Nat] /\ org' \in [Frame -> Nat]
    BY <1>1, <1>3, <1>5 DEF TypeOK, Sel!SelTypeOK
  <2>2. TypeOK'
    BY <1>3, <2>1 DEF TypeOK
  <2>3. newSelData' \subseteq Sel!OutQue
    BY <1>1, <1>3 DEF Sel!SelTypeOK
  <2>4. Sel!SelTypeOK'
    BY <1>1, <1>2, <1>3, <1>4, <2>1, <2>3 DEF Sel!SelTypeOK
  <2> QED BY <1>3, <2>2, <2>4 DEF GraphTypeOK
<1>7. SoleInv'
  <2> DEFINE Y == Only(q)
  <2>1. ASSUME NEW g \in Frame, NEW w
        PROVE  /\ w \in At(g)'["inList"] <=> w \in At(g)["inList"] /\ ~(g \in {f} /\ w = Itself[g])
               /\ w \in At(g)'["queue"] <=> w \in At(g)["queue"] \/ (g \in {f} /\ w = Y[g])
    BY <1>1, <1>4, ByKind, ByKindNext DEF Itself, Only
  <2>2. Moves({f}, "inList", Itself, "queue", Y)
    BY <2>1 DEF Moves
  <2>3. OthersStay("inList", "queue")
    <3>1. ASSUME NEW g \in Frame, NEW j \in Kind \ {"inList", "queue"}, NEW w
          PROVE  w \in At(g)'[j] <=> w \in At(g)[j]
      BY <1>2, ByKind, ByKindNext DEF Kind
    <3> QED BY <3>1 DEF OthersStay
  <2>4. "inList" \in Kind /\ "queue" \in Kind /\ Itself[f] \in At(f)["inList"]
    BY <1>1 DEF Kind, Itself
  <2> HIDE DEF Y
  <2> QED BY <2>2, <2>3, <2>4, MovesSole DEF GraphInv
<1>8. HeldInv'
  <2>1. ASSUME NEW g \in Frame
        PROVE g \in held <=> \/ g \in Range(inList') \cup Range(unmapped)
                             \/ \E p \in Sel!OutQue : g \in Range(outFrameQue'[p]) \cup using[p]
    <3>1. CASE g = f
      BY <1>1, <1>4, <3>1 DEF GraphInv, HeldInv
    <3>2. CASE g # f
      BY <1>1, <1>4, <3>2 DEF GraphInv, HeldInv
    <3> QED BY <3>1, <3>2
  <2> QED BY <1>2, <2>1 DEF HeldInv
<1>9. OnceInv'
  BY <1>1, <1>2, <1>4 DEF GraphInv, OnceInv
<1>10. OwnerInv'
  BY DEF GraphInv, OwnerInv
<1>11. TasksInv'
  BY <1>1, <1>2, <1>4 DEF GraphInv, TasksInv
<1>12. ChannelsInv'
  <2>1. ASSUME NEW g \in Frame
        PROVE  /\ g \in Merged' <=> g \in Merged
               /\ g \in Sel!Behind' <=> g \in Sel!Behind \/ g = f
    <3>1. g \in Merged' <=> g \in Merged
      BY Whereabouts, WhereaboutsNext
    <3>2. g \in Sel!Behind' <=> g \in Sel!Behind \/ g = f
      BY <1>1, <1>2, Whereabouts, WhereaboutsNext
    <3> QED BY <3>1, <3>2
  <2>2. Sel!OrgChannel' = Sel!OrgChannel
    <3>1. ASSUME NEW g \in Frame
          PROVE  (IF g \in Sel!Behind' THEN org'[g] ELSE chan'[g])
                 = IF g \in Sel!Behind THEN org[g] ELSE chan[g]
      BY <1>1, <1>3, <2>1 DEF TypeOK, Sel!SelTypeOK
    <3> QED BY <3>1 DEF Sel!OrgChannel
  <2> QED BY <2>1, <2>2 DEF GraphInv, ChannelsInv
<1>13. NoFrameWaits'
  BY <1>1, <1>2 DEF GraphInv, NoFrameWaits, NoStrandedFrame
<1> QED
  BY <1>6, <1>7, <1>8, <1>9, <1>10, <1>11, <1>12, <1>13 DEF GraphInv

\* Sorts: one turn of the loop, either way.
LEMMA SortsStep == ASSUME GraphInv, Sorts PROVE GraphInv'
<1>1. UNCHANGED <<source, inFull, told, inNotice, mergePc, inQue, newData, outQue, notice, getting,
                  held, lock, freeList, pc, ret, upQue, sets>>
  BY DEF Sorts, mergeVars, prev, merge, put
<1>2. CASE Sel!Unselected
  BY <1>2, UnselectedStep DEF Sorts
<1>3. CASE Sel!Selected
  BY <1>1, <1>3, SelectedStep
<1> QED
  BY <1>2, <1>3 DEF Sorts
\* Sort: the task that holds the lock puts a returned frame, with its own
\* channel again, in the list of its own input queue.
LEMMA SortMoves ==
    ASSUME GraphInv, NEW t \in Caller, Sort(t)
    PROVE  \E f \in Frame :
              /\ t \in At(f)["ret"] /\ f \notin Sel!Behind /\ f \notin Merged' /\ f \in Merged
              /\ freeList' = [freeList EXCEPT ![Owner[f]] = Append(@, f)]
              /\ freeList' \in [InQue -> Seq(Frame)]
              /\ \A q \in InQue : \A g :
                    g \in Range(freeList'[q]) <=> g \in Range(freeList[q]) \/ (g = f /\ q = Owner[f])
              /\ chan' = [chan EXCEPT ![f] = Chan[f]] /\ chan' \in [Frame -> Nat]
              /\ ret' \in [Caller -> Seq(Frame)]
              /\ \A u \in Caller :
                    /\ IsInjective(ret'[u])
                    /\ \A g : g \in Range(ret'[u]) <=> g \in Range(ret[u]) /\ ~(g = f /\ u = t)
                    /\ u # t => ret'[u] = ret[u]
              /\ ret'[t] # <<>> <=> Len(ret[t]) # 1
<1>1. pc[t] = "sort" /\ ret[t] \in Seq(Frame) /\ ret[t] # <<>> /\ IsInjective(ret[t])
      /\ ret \in [Caller -> Seq(Frame)] /\ freeList \in [InQue -> Seq(Frame)]
      /\ chan \in [Frame -> Nat]
  BY DEF Sort, GraphInv, GraphTypeOK, TypeOK, TasksInv, OnceInv
<1>2. PICK f \in Frame, s \in Seq(Frame) :
         /\ f = Head(ret[t]) /\ s = Tail(ret[t]) /\ f \in Range(ret[t]) /\ IsInjective(s)
         /\ Range(s) = Range(ret[t]) \ {f} /\ (s # <<>> <=> Len(ret[t]) # 1)
  <2>1. /\ Head(ret[t]) \in Frame /\ Tail(ret[t]) \in Seq(Frame) /\ Head(ret[t]) \in Range(ret[t])
        /\ IsInjective(Tail(ret[t])) /\ Range(Tail(ret[t])) = Range(ret[t]) \ {Head(ret[t])}
        /\ Len(Tail(ret[t])) = Len(ret[t]) - 1
    BY <1>1, QueueTake
  <2>2. Tail(ret[t]) # <<>> <=> Len(ret[t]) # 1
    <3>1. Len(ret[t]) \in Nat /\ (Tail(ret[t]) = <<>> <=> Len(Tail(ret[t])) = 0)
      BY <1>1, <2>1, LenProperties, EmptySeq
    <3> QED BY <2>1, <3>1
  <2> QED BY <2>1, <2>2
<1>3. t \in At(f)["ret"] /\ "ret" \in Kind
  BY <1>2, ByKind DEF Kind
<1>4. f \notin Sel!Behind /\ f \in Merged /\ f \notin held
  BY <1>3, PlaceTells
<1>5. Owner[f] \in InQue /\ Chan[f] \in Nat /\ outQueChToInQueMap[chan[f]] = Owner[f]
      /\ outQueChMap[chan[f]] = Chan[f]
  BY <1>4, Numbers, FrameAssumption
<1>6. /\ freeList' = [freeList EXCEPT ![Owner[f]] = Append(@, f)]
      /\ chan' = [chan EXCEPT ![f] = Chan[f]]
      /\ ret' = [ret EXCEPT ![t] = s]
      /\ UNCHANGED <<outQue, held>>
  BY <1>1, <1>2, <1>5 DEF Sort, next
<1>7. Append(freeList[Owner[f]], f) \in Seq(Frame)
      /\ Range(Append(freeList[Owner[f]], f)) = Range(freeList[Owner[f]]) \cup {f}
  <2>1. freeList[Owner[f]] \in Seq(Frame)
    BY <1>1, <1>5
  <2> QED BY <2>1, QueueAppend
<1>8. /\ freeList' \in [InQue -> Seq(Frame)] /\ chan' \in [Frame -> Nat]
      /\ ret' \in [Caller -> Seq(Frame)]
  BY <1>1, <1>5, <1>6, <1>7
<1>9. ASSUME NEW q \in InQue, NEW g
      PROVE  g \in Range(freeList'[q]) <=> g \in Range(freeList[q]) \/ (g = f /\ q = Owner[f])
  <2>1. CASE q = Owner[f]
    <3>1. freeList'[q] = Append(freeList[Owner[f]], f)
      BY <1>1, <1>6, <2>1
    <3> QED BY <1>7, <2>1, <3>1
  <2>2. CASE q # Owner[f]
    BY <1>1, <1>6, <2>2
  <2> QED BY <2>1, <2>2
<1>10. ASSUME NEW u \in Caller
       PROVE  /\ IsInjective(ret'[u])
              /\ \A g : g \in Range(ret'[u]) <=> g \in Range(ret[u]) /\ ~(g = f /\ u = t)
              /\ u # t => ret'[u] = ret[u]
  <2>1. CASE u = t
    <3>1. ret'[u] = s
      BY <1>1, <1>6, <2>1
    <3> QED BY <1>2, <2>1, <3>1
  <2>2. CASE u # t
    <3>1. ret'[u] = ret[u]
      BY <1>1, <1>6, <2>2
    <3> QED BY <2>2, <3>1 DEF GraphInv, OnceInv
  <2> QED BY <2>1, <2>2
<1>11. ret'[t] # <<>> <=> Len(ret[t]) # 1
  <2>1. ret'[t] = s
    BY <1>1, <1>6
  <2> QED BY <1>2, <2>1
<1>12. f \notin Merged'
  <2>1. \A u \in Caller : f \notin Range(ret'[u])
    <3> SUFFICES ASSUME NEW u \in Caller, f \in Range(ret'[u]) PROVE FALSE
      OBVIOUS
    <3>1. f \in Range(ret[u]) /\ u # t
      BY <1>10
    <3>2. u \in At(f)["ret"]
      BY <3>1, ByKind
    <3> QED BY <1>3, <3>1, <3>2, OnePlace DEF GraphInv
  <2>2. f \notin Range(outQue)
    <3>1. "outQue" \in Kind /\ (f \in Range(outQue) => f \in At(f)["outQue"])
      BY ByKind DEF Kind
    <3> QED BY <1>3, <3>1, OnePlace DEF GraphInv
  <2> QED BY <1>4, <1>6, <2>1, <2>2, WhereaboutsNext
<1> WITNESS f \in Frame
<1> QED
  BY <1>3, <1>4, <1>6, <1>8, <1>9, <1>10, <1>11, <1>12

LEMMA SortStep ==
    ASSUME GraphInv, NEW t \in Caller, Sort(t), UNCHANGED selVars
    PROVE  GraphInv'
<1>1. PICK f \in Frame :
              /\ t \in At(f)["ret"] /\ f \notin Sel!Behind /\ f \notin Merged' /\ f \in Merged
              /\ freeList' = [freeList EXCEPT ![Owner[f]] = Append(@, f)]
              /\ freeList' \in [InQue -> Seq(Frame)]
              /\ \A q \in InQue : \A g :
                    g \in Range(freeList'[q]) <=> g \in Range(freeList[q]) \/ (g = f /\ q = Owner[f])
              /\ chan' = [chan EXCEPT ![f] = Chan[f]] /\ chan' \in [Frame -> Nat]
              /\ ret' \in [Caller -> Seq(Frame)]
              /\ \A u \in Caller :
                    /\ IsInjective(ret'[u])
                    /\ \A g : g \in Range(ret'[u]) <=> g \in Range(ret[u]) /\ ~(g = f /\ u = t)
                    /\ u # t => ret'[u] = ret[u]
              /\ ret'[t] # <<>> <=> Len(ret[t]) # 1
  BY SortMoves
<1>2. TypeOK /\ Sel!SelTypeOK /\ sets \in 0 .. MaxSet
  BY DEF GraphInv, GraphTypeOK
<1>3. /\ pc[t] = "sort" /\ pc' = [pc EXCEPT ![t] = IF Len(ret[t]) = 1 THEN "up" ELSE "sort"]
      /\ UNCHANGED <<source, inFull, told, inNotice, mergePc, inQue, newData, outQue, notice,
                     getting, held, lock, upQue>>
      /\ UNCHANGED <<selPc, inList, unmapped, newSelData, outFrameQue, inChInfo,
                     prevOutQueChInfo, org, mail, taking, using, sets>>
  BY DEF Sort, Goto, prev, merge, next, selVars
<1>4. lock = t /\ lock # None /\ upQue[t] = 0 /\ Owner[f] \in InQue
  BY <1>3, NoneAssumption, FrameAssumption DEF GraphInv, TasksInv
<1>5. \A u \in Caller : pc'[u] = IF u = t THEN (IF Len(ret[t]) = 1 THEN "up" ELSE "sort") ELSE pc[u]
  BY <1>2, <1>3 DEF TypeOK
<1>6. GraphTypeOK'
  <2>1. pc' \in [Caller -> {"idle", "pend", "sort", "up"}]
    BY <1>2, <1>3 DEF TypeOK
  <2>2. TypeOK'
    BY <1>1, <1>2, <1>3, <2>1 DEF TypeOK
  <2>3. Sel!SelTypeOK'
    BY <1>2, <1>3 DEF Sel!SelTypeOK
  <2> QED BY <1>2, <1>3, <2>2, <2>3 DEF GraphTypeOK
<1>7. SoleInv'
  <2> DEFINE X == Only(t)
             Y == Only(Owner[f])
  <2>1. ASSUME NEW g \in Frame, NEW w
        PROVE  /\ w \in At(g)'["ret"] <=> w \in At(g)["ret"] /\ ~(g \in {f} /\ w = X[g])
               /\ w \in At(g)'["free"] <=> w \in At(g)["free"] \/ (g \in {f} /\ w = Y[g])
    <3>1. w \in At(g)'["ret"] <=> w \in At(g)["ret"] /\ ~(g \in {f} /\ w = X[g])
      BY <1>1, ByKind, ByKindNext DEF Only
    <3>2. w \in InQue => w >= upQue'[t]
      BY <1>3, <1>4 DEF InQue
    <3>3. w \in At(g)'["free"] <=> w \in InQue /\ g \in Range(freeList'[w])
      BY <1>3, <1>4, <3>2, ByKindNext
    <3>4. w \in At(g)["free"] <=> w \in InQue /\ g \in Range(freeList[w])
      BY <1>3, <1>4, ByKind
    <3> QED BY <1>1, <1>4, <3>1, <3>3, <3>4 DEF Only
  <2>2. Moves({f}, "ret", X, "free", Y)
    BY <2>1 DEF Moves
  <2>3. OthersStay("ret", "free")
    <3>1. ASSUME NEW g \in Frame, NEW j \in Kind \ {"ret", "free"}, NEW w
          PROVE  w \in At(g)'[j] <=> w \in At(g)[j]
      BY <1>3, ByKind, ByKindNext DEF Kind
    <3> QED BY <3>1 DEF OthersStay
  <2>4. "ret" \in Kind /\ "free" \in Kind /\ X[f] \in At(f)["ret"]
    BY <1>1 DEF Kind, Only
  <2> HIDE DEF X, Y
  <2> QED BY <2>2, <2>3, <2>4, MovesSole DEF GraphInv
<1>8. HeldInv'
  BY <1>3 DEF GraphInv, HeldInv
<1>9. OnceInv'
  BY <1>1, <1>3 DEF GraphInv, OnceInv
<1>10. OwnerInv'
  BY <1>1, <1>3, <1>4 DEF GraphInv, OwnerInv
<1>11. TasksInv'
  <2>1. ASSUME NEW u \in Caller
        PROVE  /\ lock' = u <=> pc'[u] \in {"sort", "up"}
               /\ ret'[u] # <<>> <=> pc'[u] \in {"pend", "sort"}
               /\ pc'[u] # "up" => upQue'[u] = 0
    <3>1. CASE u = t
      BY <1>1, <1>3, <1>4, <1>5, <3>1 DEF GraphInv, TasksInv
    <3>2. CASE u # t
      BY <1>1, <1>3, <1>4, <1>5, <3>2 DEF GraphInv, TasksInv
    <3> QED BY <3>1, <3>2
  <2> QED BY <1>3, <2>1 DEF GraphInv, TasksInv
<1>12. ChannelsInv'
  <2>1. ASSUME NEW g \in Frame
        PROVE  /\ g \in Merged' <=> g \in Merged /\ g # f
               /\ g \in Sel!Behind' <=> g \in Sel!Behind
    BY <1>1, <1>3, Whereabouts, WhereaboutsNext
  <2>2. ASSUME NEW g \in Frame
        PROVE  Sel!OrgChannel'[g] = IF g \in Sel!Behind THEN org[g] ELSE chan'[g]
    BY <1>3, <2>1 DEF Sel!OrgChannel
  <2>3. ASSUME NEW g \in Frame
        PROVE  Sel!OrgChannel[g] = IF g \in Sel!Behind THEN org[g] ELSE chan[g]
    BY DEF Sel!OrgChannel
  <2>4. ASSUME NEW g \in Frame
        PROVE  Sel!OrgChannel'[g] =
                  IF g \in Merged' THEN inQueChNumMap[Owner[g]][Chan[g]] ELSE Chan[g]
    <3>1. CASE g = f
      BY <1>1, <1>2, <2>1, <2>2, <3>1 DEF TypeOK
    <3>2. CASE g # f
      BY <1>1, <1>2, <2>1, <2>2, <2>3, <3>2 DEF GraphInv, ChannelsInv, TypeOK
    <3> QED BY <3>1, <3>2
  <2> QED BY <2>4 DEF ChannelsInv
<1>13. NoFrameWaits'
  BY <1>3 DEF GraphInv, NoFrameWaits, NoStrandedFrame
<1> QED
  BY <1>6, <1>7, <1>8, <1>9, <1>10, <1>11, <1>12, <1>13 DEF GraphInv
\* Up: the task that holds the lock gives one previous link its list.
LEMMA UpStep ==
    ASSUME GraphInv, NEW t \in Caller, Up(t), UNCHANGED selVars
    PROVE  GraphInv'
<1> DEFINE q == upQue[t]
           s == freeList[q]
<1>1. TypeOK /\ Sel!SelTypeOK /\ sets \in 0 .. MaxSet
  BY DEF GraphInv, GraphTypeOK
<1>2. /\ pc[t] = "up" /\ source' = [source EXCEPT ![q] = @ \cup Range(s)]
      /\ UNCHANGED <<inFull, told, chan, inNotice, mergePc, inQue, newData, outQue, notice, getting,
                     held, freeList, ret>>
      /\ UNCHANGED <<selPc, inList, unmapped, newSelData, outFrameQue, inChInfo,
                     prevOutQueChInfo, org, mail, taking, using, sets>>
  BY DEF Up, merge, next, selVars
<1>3. \/ q < NumInQue - 1 /\ upQue' = [upQue EXCEPT ![t] = q + 1] /\ UNCHANGED <<lock, pc>>
      \/ ~(q < NumInQue - 1) /\ upQue' = [upQue EXCEPT ![t] = 0] /\ lock' = None
         /\ pc' = [pc EXCEPT ![t] = "idle"]
  BY DEF Up, Goto
<1>4. q \in InQue /\ s \in Seq(Frame) /\ Range(s) \subseteq Frame
  <2>1. q \in InQue /\ s \in Seq(Frame)
    BY <1>1 DEF TypeOK
  <2> QED BY <2>1 DEF Range
<1>5. lock = t /\ lock # None
  BY <1>2, NoneAssumption DEF GraphInv, TasksInv
<1>6. NumInQue \in Nat \ {0} /\ InQue = 0 .. NumInQue - 1
  BY NumInQueAssumption DEF InQue
<1>7. ASSUME NEW w
      PROVE  /\ ~(q < NumInQue - 1) => (w \in InQue /\ w >= q <=> w = q)
             /\ q < NumInQue - 1 => (w \in InQue /\ w >= q + 1 <=> w \in InQue /\ w >= q /\ w # q)
  BY <1>4, <1>6
<1>8. \A u \in Caller :
         \/ q < NumInQue - 1 /\ upQue'[u] = (IF u = t THEN q + 1 ELSE upQue[u])
            /\ UNCHANGED <<lock, pc>>
         \/ ~(q < NumInQue - 1) /\ upQue'[u] = (IF u = t THEN 0 ELSE upQue[u]) /\ lock' = None
            /\ pc'[u] = IF u = t THEN "idle" ELSE pc[u]
  BY <1>1, <1>3 DEF TypeOK
<1> HIDE DEF q, s
<1>9. GraphTypeOK'
  <2>1. source' \in [InQue -> SUBSET Frame]
    BY <1>1, <1>2, <1>4 DEF TypeOK
  <2>2. upQue' \in [Caller -> InQue]
    <3>1. 0 \in InQue /\ (q < NumInQue - 1 => q + 1 \in InQue)
      BY <1>4, <1>6
    <3>2. upQue \in [Caller -> InQue]
      BY <1>1 DEF TypeOK
    <3> QED BY <1>3, <3>1, <3>2
  <2>3. lock' \in Caller \cup {None} /\ pc' \in [Caller -> {"idle", "pend", "sort", "up"}]
    BY <1>1, <1>3 DEF TypeOK
  <2>4. TypeOK'
    BY <1>1, <1>2, <2>1, <2>2, <2>3 DEF TypeOK
  <2>5. Sel!SelTypeOK'
    BY <1>1, <1>2 DEF Sel!SelTypeOK
  <2> QED BY <1>1, <1>2, <2>4, <2>5 DEF GraphTypeOK
<1>10. ASSUME NEW g \in Frame, NEW w
       PROVE  w \in At(g)["free"] <=> w \in InQue /\ g \in Range(freeList[w]) /\ w >= q
  BY <1>2, <1>5, ByKind DEF q
<1>11. SoleInv'
  <2> DEFINE X == Only(q)
  <2>1. ASSUME NEW g \in Frame, NEW w
        PROVE  /\ w \in At(g)'["free"] <=> w \in At(g)["free"] /\ ~(g \in Range(s) /\ w = X[g])
               /\ w \in At(g)'["source"] <=> w \in At(g)["source"] \/ (g \in Range(s) /\ w = X[g])
    <3>1. w \in InQue => (g \in source'[w] <=> g \in source[w] \/ (g \in Range(s) /\ w = q))
      BY <1>1, <1>2 DEF TypeOK
    <3>2. w \in At(g)'["source"] <=> w \in At(g)["source"] \/ (g \in Range(s) /\ w = X[g])
      BY <1>4, <3>1, ByKind, ByKindNext DEF Only
    <3>3. w \in At(g)'["free"] <=> w \in At(g)["free"] /\ ~(g \in Range(s) /\ w = X[g])
      <4>1. CASE q < NumInQue - 1
        <5>1. lock' = t /\ pc'[t] = "up" /\ upQue'[t] = q + 1
          BY <1>2, <1>5, <1>8, <4>1
        <5>2. w \in At(g)'["free"] <=> w \in InQue /\ g \in Range(freeList[w]) /\ w >= q + 1
          BY <1>2, <1>5, <5>1, ByKindNext
        <5>3. w = q => Range(freeList[w]) = Range(s)
          BY DEF s
        <5> QED BY <1>7, <1>10, <4>1, <5>2, <5>3 DEF Only
      <4>2. CASE ~(q < NumInQue - 1)
        <5>1. lock' = None
          BY <1>3, <4>2
        <5>2. w \notin At(g)'["free"]
          BY <5>1, ByKindNext
        <5>3. w = q => Range(freeList[w]) = Range(s)
          BY DEF s
        <5> QED BY <1>7, <1>10, <4>2, <5>2, <5>3 DEF Only
      <4> QED BY <4>1, <4>2
    <3> QED BY <3>2, <3>3
  <2>2. Moves(Range(s), "free", X, "source", X)
    BY <2>1 DEF Moves
  <2>3. OthersStay("free", "source")
    <3>1. ASSUME NEW g \in Frame, NEW j \in Kind \ {"free", "source"}, NEW w
          PROVE  w \in At(g)'[j] <=> w \in At(g)[j]
      BY <1>2, ByKind, ByKindNext DEF Kind
    <3> QED BY <3>1 DEF OthersStay
  <2>4. /\ "free" \in Kind /\ "source" \in Kind
        /\ \A f \in Frame : f \in Range(s) => X[f] \in At(f)["free"]
    <3>1. q >= q
      BY <1>4, <1>6
    <3> QED BY <1>4, <1>10, <3>1 DEF Kind, Only, s
  <2> HIDE DEF X
  <2> QED BY <2>2, <2>3, <2>4, MovesSole DEF GraphInv
<1>12. HeldInv' /\ OnceInv'
  BY <1>2 DEF GraphInv, HeldInv, OnceInv
<1>13. OwnerInv'
  <2>1. \A f \in Range(s) : Owner[f] = q
    BY <1>4, <1>5 DEF GraphInv, OwnerInv, s
  <2>2. ASSUME NEW p \in InQue
        PROVE  \A f \in source'[p] : f \in source[p] \/ (f \in Range(s) /\ p = q)
    BY <1>1, <1>2 DEF TypeOK
  <2> QED BY <1>2, <1>5, <2>1, <2>2 DEF GraphInv, OwnerInv
<1>14. TasksInv'
  <2>1. ASSUME NEW u \in Caller
        PROVE  /\ lock' = u <=> pc'[u] \in {"sort", "up"}
               /\ ret'[u] # <<>> <=> pc'[u] \in {"pend", "sort"}
               /\ pc'[u] # "up" => upQue'[u] = 0
    <3>1. CASE u = t
      BY <1>2, <1>5, <1>8, <3>1 DEF GraphInv, TasksInv
    <3>2. CASE u # t
      BY <1>2, <1>5, <1>8, <3>2, NoneAssumption DEF GraphInv, TasksInv
    <3> QED BY <3>1, <3>2
  <2> QED BY <1>2, <2>1 DEF GraphInv, TasksInv
<1>15. ChannelsInv'
  BY <1>2, SameChannels DEF Merged, Sel!Behind
<1>16. NoFrameWaits'
  BY <1>2 DEF GraphInv, NoFrameWaits, NoStrandedFrame
<1> QED
  BY <1>9, <1>11, <1>12, <1>13, <1>14, <1>15, <1>16 DEF GraphInv

-----------------------------------------------------------------------------
(* Every step of the graph keeps the invariant.                             *)
THEOREM Inductive == GraphSpec => []GraphInv
<1>1. GraphInv /\ [GraphNext]_graphVars => GraphInv'
  <2> SUFFICES ASSUME GraphInv, [GraphNext]_graphVars PROVE GraphInv'
    OBVIOUS
  <2>1. CASE MergeSteps /\ UNCHANGED selVars
    <3>1. CASE \E q \in InQue : Give(q)
      BY <2>1, <3>1, GiveStep
    <3>2. CASE (\E q \in InQue : Tell(q)) \/ MergeWake \/ MergeNotify
      BY <2>1, <3>2, TellStep
    <3>3. CASE Scan
      BY <2>1, <3>3, ScanStep
    <3>4. CASE \E t \in Caller : PutEmptyFrames(t)
      BY <2>1, <3>4, PendStep, SortStep, UpStep DEF PutEmptyFrames
    <3> QED BY <2>1, <3>1, <3>2, <3>3, <3>4 DEF MergeSteps, Merge
  <2>2. CASE Wakes
    BY <2>2, WakesStep
  <2>3. CASE Gets
    BY <2>3, GetsStep
  <2>4. CASE Sorts
    BY <2>4, SortsStep
  <2>5. CASE Frees
    BY <2>5, FreesStep
  <2>6. CASE Tells
    BY <2>6, TellsStep
  <2>7. CASE \E q \in Sel!QueId, l \in Selection, removes \in BOOLEAN : Sets(q, l, removes)
    BY <2>7, SetsStep
  <2>8. CASE \E q \in Sel!OutQue : Takes(q)
    BY <2>8, NextWakeStep, NextGetStep DEF Takes
  <2>9. CASE \E q \in Sel!OutQue : Returns(q)
    BY <2>9, ReturnsStep
  <2>10. CASE UNCHANGED graphVars
    <3>1. /\ UNCHANGED <<source, inFull, told, chan, inNotice, mergePc, inQue, newData, outQue,
                         notice, getting, held, lock, freeList, pc, ret, upQue>>
          /\ UNCHANGED <<selPc, inList, unmapped, newSelData, outFrameQue, inChInfo,
                         prevOutQueChInfo, org, mail, taking, using, sets>>
      BY <2>10 DEF graphVars, vars, prev, merge, next, put, selVars
    <3>2. GraphTypeOK'
      BY <3>1 DEF GraphInv, GraphTypeOK, TypeOK, Sel!SelTypeOK
    <3>3. SoleInv' /\ HeldInv' /\ OnceInv' /\ OwnerInv'
      BY <3>1, SamePlaces
    <3>4. ChannelsInv'
      BY <3>1, SameChannels DEF Merged, Sel!Behind
    <3>5. TasksInv' /\ NoFrameWaits'
      BY <3>1 DEF GraphInv, TasksInv, NoFrameWaits, NoStrandedFrame
    <3> QED BY <3>2, <3>3, <3>4, <3>5 DEF GraphInv
  <2> QED
    BY <2>1, <2>2, <2>3, <2>4, <2>5, <2>6, <2>7, <2>8, <2>9, <2>10 DEF GraphNext
<1> QED
  BY <1>1, InitInv, PTL DEF GraphSpec

\* All the graph's variables, and those of the two links and of the next links,
\* keep their types.
THEOREM TypeCorrect == GraphSpec => []GraphTypeOK
<1>1. GraphInv => GraphTypeOK
  BY DEF GraphInv
<1> QED
  BY <1>1, Inductive, PTL

\* No frame ever waits in a queue that no task will look at: there is a
\* notification under way, or a task that is about to look.
THEOREM AlwaysNoFrameWaits == GraphSpec => []NoFrameWaits
<1>1. GraphInv => NoFrameWaits
  BY DEF GraphInv
<1> QED
  BY <1>1, Inductive, PTL
-----------------------------------------------------------------------------
(* FramesHome, part by part.                                                *)

\* A frame has a place.
LEMMA SomePlace == ASSUME SoleInv, NEW f \in Frame PROVE \E k \in Kind : \E x : x \in At(f)[k]
<1>1. PICK p \in Tagged(At(f)) : TRUE
  BY DEF SoleInv, Sole
<1>2. PICK k \in DOMAIN At(f) : p \in {k} \X At(f)[k]
  BY <1>1 DEF Tagged
<1>3. k \in Kind /\ p[2] \in At(f)[k]
  BY <1>2, ByKind
<1> QED
  BY <1>3

\* What is in exactly one of the sets of a record is alone in their union.
LEMMA OneOf ==
    ASSUME NEW by, NEW k \in DOMAIN by, NEW x,
           \A j \in DOMAIN by : \A w : w \in by[j] <=> j = k /\ w = x
    PROVE  Cardinality(Tagged(by)) = 1
<1>1. Tagged(by) = {<<k, x>>}
  BY DEF Tagged
<1> QED
  BY <1>1, FS_Singleton

\* To the merge link what the select link and those behind it have is held.
LEMMA OneMergePlace ==
    ASSUME GraphInv, NEW f \in Frame
    PROVE  Cardinality(Tagged(PlacesByKind(f))) = 1
<1> DEFINE MKind == {"source", "inFull", "outQue", "held", "ret", "free"}
           P == PlacesByKind(f)
<1>1. PICK k \in Kind : \E x : x \in At(f)[k]
  BY SomePlace DEF GraphInv
<1>2. PICK x : x \in At(f)[k]
  BY <1>1
<1>3. \A j \in Kind : \A w : w \in At(f)[j] <=> j = k /\ w = x
  BY <1>2, OnePlace DEF GraphInv
<1>4. ASSUME NEW w
      PROVE  /\ DOMAIN P = MKind
             /\ w \in P["source"] <=> w \in At(f)["source"]
             /\ w \in P["inFull"] <=> w \in At(f)["inFull"]
             /\ w \in P["outQue"] <=> w \in At(f)["outQue"]
             /\ w \in P["held"] <=> w = f /\ f \in held
             /\ w \in P["ret"] <=> w \in At(f)["ret"]
             /\ w \in P["free"] <=> w \in At(f)["free"]
  BY DEF PlacesByKind, At
<1>5. f \in held <=> k \in {"inList", "unmapped", "queue", "using"}
  BY <1>2, PlaceTells
<1> HIDE DEF P
<1>6. CASE f \in held
  <2>1. ASSUME NEW j \in MKind, NEW w PROVE w \in P[j] <=> j = "held" /\ w = f
    BY <1>3, <1>4, <1>5, <1>6 DEF Kind
  <2>2. "held" \in DOMAIN P /\ DOMAIN P = MKind
    BY <1>4
  <2> HIDE DEF MKind
  <2> QED BY <2>1, <2>2, OneOf DEF P
<1>7. CASE f \notin held
  <2>1. k \in MKind
    BY <1>5, <1>7 DEF Kind
  <2>2. ASSUME NEW j \in MKind, NEW w PROVE w \in P[j] <=> j = k /\ w = x
    BY <1>3, <1>4, <1>7, <2>1 DEF Kind
  <2>3. k \in DOMAIN P /\ DOMAIN P = MKind
    BY <1>4, <2>1
  <2> HIDE DEF MKind
  <2> QED BY <2>2, <2>3, OneOf DEF P
<1> QED
  BY <1>6, <1>7

\* And that is one place of the select link or behind it.
LEMMA OneSelectPlace ==
    ASSUME GraphInv, NEW f \in Frame
    PROVE  Cardinality(Tagged(Sel!SelectPlaces(f))) = IF f \in held THEN 1 ELSE 0
<1> DEFINE SKind == {"inList", "unmapped", "queue", "using"}
           P == Sel!SelectPlaces(f)
<1>1. PICK k \in Kind : \E x : x \in At(f)[k]
  BY SomePlace DEF GraphInv
<1>2. PICK x : x \in At(f)[k]
  BY <1>1
<1>3. \A j \in Kind : \A w : w \in At(f)[j] <=> j = k /\ w = x
  BY <1>2, OnePlace DEF GraphInv
<1>4. ASSUME NEW w
      PROVE  /\ DOMAIN P = SKind
             /\ w \in P["inList"] <=> w \in At(f)["inList"]
             /\ w \in P["unmapped"] <=> w \in At(f)["unmapped"]
             /\ w \in P["queue"] <=> w \in At(f)["queue"]
             /\ w \in P["using"] <=> w \in At(f)["using"]
  BY SelectRange DEF Sel!SelectPlaces, At
<1>5. f \in held <=> k \in SKind
  BY <1>2, PlaceTells
<1>6. ASSUME NEW j \in SKind, NEW w PROVE w \in P[j] <=> j = k /\ w = x
  <2>1. j \in Kind /\ (w \in P[j] <=> w \in At(f)[j])
    BY <1>4 DEF Kind
  <2> QED BY <1>3, <2>1
<1>7. DOMAIN P = SKind
  BY <1>4
<1> HIDE DEF P
<1>8. CASE f \in held
  <2> HIDE DEF SKind
  <2> QED BY <1>5, <1>6, <1>7, <1>8, OneOf DEF P
<1>9. CASE f \notin held
  <2>1. \A j \in SKind : P[j] = {}
    BY <1>5, <1>6, <1>9
  <2>2. Tagged(P) = {}
    BY <1>7, <2>1 DEF Tagged
  <2> QED BY <1>9, <2>2, FS_EmptySet DEF P
<1> QED
  BY <1>8, <1>9

\* The merge link's maps, under the name of its instance here.
LEMMA SameMaps ==
    /\ AtMerge!InQue = InQue
    /\ AtMerge!FirstCh = FirstCh
    /\ AtMerge!OutCh = OutCh
    /\ AtMerge!inQueChNumMap = inQueChNumMap
    /\ AtMerge!outQueChToInQueMap = outQueChToInQueMap
    /\ AtMerge!outQueChMap = outQueChMap
    /\ \A s : AtMerge!Range(s) = Range(s)
    /\ \A s : AtMerge!IsInjective(s) = IsInjective(s)
    /\ \A S : AtMerge!Cardinality(S) = Cardinality(S)
    /\ AtMerge!Merged = Merged
<1>1. AtMerge!InQue = InQue
  BY DEF InQue, AtMerge!InQue
<1>2. AtMerge!FirstCh = FirstCh
  BY DEF FirstCh, AtMerge!FirstCh, InQue, AtMerge!InQue
<1>3. AtMerge!OutCh = OutCh
  BY <1>2 DEF OutCh, AtMerge!OutCh
<1>4. AtMerge!inQueChNumMap = inQueChNumMap
  BY <1>1, <1>2 DEF inQueChNumMap, AtMerge!inQueChNumMap
<1>5. AtMerge!outQueChToInQueMap = outQueChToInQueMap
  BY <1>1, <1>2, <1>3 DEF outQueChToInQueMap, AtMerge!outQueChToInQueMap
<1>6. AtMerge!outQueChMap = outQueChMap
  BY <1>2, <1>3, <1>5 DEF outQueChMap, AtMerge!outQueChMap
<1>7. \A s : AtMerge!Range(s) = Range(s)
  BY DEF Range, AtMerge!Range
<1>8. \A s : AtMerge!IsInjective(s) = IsInjective(s)
  BY DEF IsInjective, AtMerge!IsInjective
<1>9. \A S : AtMerge!Cardinality(S) = Cardinality(S)
  BY DEF Cardinality, AtMerge!Cardinality
<1>10. AtMerge!Merged = Merged
  BY <1>7 DEF Merged, AtMerge!Merged
<1> QED
  BY <1>1, <1>2, <1>3, <1>4, <1>5, <1>6, <1>7, <1>8, <1>9, <1>10

\* No channel is taken for another one.
LEMMA ChannelsAreMapped == ASSUME GraphInv PROVE AtMerge!ChannelsMapped
<1>1. ASSUME NEW f \in Frame
      PROVE  Sel!OrgChannel[f] = IF f \in Merged THEN inQueChNumMap[Owner[f]][Chan[f]] ELSE Chan[f]
  BY DEF GraphInv, ChannelsInv
<1>2. ASSUME NEW f \in Merged PROVE f \in Frame
  <2>1. /\ outQue \in Seq(Frame) /\ held \subseteq Frame
        /\ \A t \in Caller : ret[t] \in Seq(Frame)
    BY DEF GraphInv, GraphTypeOK, TypeOK
  <2>2. Range(outQue) \subseteq Frame /\ \A t \in Caller : Range(ret[t]) \subseteq Frame
    BY <2>1 DEF Range
  <2> QED BY <2>1, <2>2 DEF Merged
<1>3. ASSUME NEW f \in Merged
      PROVE  /\ outQueChToInQueMap[Sel!OrgChannel[f]] = Owner[f]
             /\ outQueChMap[Sel!OrgChannel[f]] = Chan[f]
  BY <1>1, <1>2, Numbers
<1>4. ASSUME NEW f \in Merged, NEW g \in Merged, Sel!OrgChannel[g] = Sel!OrgChannel[f]
      PROVE  <<Owner[g], Chan[g]>> = <<Owner[f], Chan[f]>>
  BY <1>3, <1>4
<1>5. AtMerge!Confused = {}
  <2>1. AtMerge!Confused =
          {f \in Merged : \/ outQueChToInQueMap[Sel!OrgChannel[f]] # Owner[f]
                          \/ \E g \in Merged : /\ Sel!OrgChannel[g] = Sel!OrgChannel[f]
                                               /\ <<Owner[g], Chan[g]>> # <<Owner[f], Chan[f]>>}
    BY SameMaps DEF AtMerge!Confused
  <2> QED BY <1>3, <1>4, <2>1
<1> QED
  BY <1>1, <1>5, SameMaps DEF AtMerge!ChannelsMapped
-----------------------------------------------------------------------------
(* What Get..Info reports.  A channel is in the list of one queue, once:    *)
(* without that its entry of the map could be that of another queue or of   *)
(* another place in the list.                                               *)
MapInv == /\ \A q \in Sel!QueId : IsInjective(prevOutQueChInfo[q])
          /\ \A q, k \in Sel!QueId : q # k =>
                Range(prevOutQueChInfo[q]) \cap Range(prevOutQueChInfo[k]) = {}
          /\ Sel!ReportsMap

\* In a list that names each channel once every one has its own place.
LEMMA PlaceInList ==
    ASSUME NEW S, NEW s \in Seq(S), IsInjective(s), NEW i \in DOMAIN s
    PROVE  s[i] \in Range(s) /\ Sel!Position(s, s[i]) = i
BY DEF Range, IsInjective, Sel!Position

LEMMA InitMap == GraphInit => MapInv
<1> SUFFICES ASSUME GraphInit PROVE MapInv
  OBVIOUS
<1>1. /\ NumOutQue \in Nat \ {0} /\ OutCh \subseteq Nat
      /\ Created \in [Sel!OutQue -> Seq(OutCh)]
      /\ \A q \in Sel!OutQue : IsInjective(Created[q])
      /\ \A q, k \in Sel!OutQue : q # k => Range(Created[q]) \cap Range(Created[k]) = {}
  <2>1. \A s : Sel!IsInjective(s) = IsInjective(s)
    BY DEF IsInjective, Sel!IsInjective
  <2> QED BY <2>1, SelectRange, SelectAssumption DEF Sel!SelectParameters
<1>2. ASSUME NEW q \in Sel!QueId
      PROVE  prevOutQueChInfo[q] = IF q \in Sel!OutQue THEN Created[q] ELSE <<>>
  BY DEF GraphInit, Sel!SelInit
<1>3. \A q \in Sel!QueId : IsInjective(prevOutQueChInfo[q])
  BY <1>1, <1>2, EmptyQueue
<1>4. \A q, k \in Sel!QueId : q # k =>
         Range(prevOutQueChInfo[q]) \cap Range(prevOutQueChInfo[k]) = {}
  BY <1>1, <1>2, EmptyQueue
<1>5. ASSUME NEW q \in Sel!QueId, NEW i \in DOMAIN prevOutQueChInfo[q]
      PROVE  inChInfo[prevOutQueChInfo[q][i]] = [queId |-> q, outChNum |-> i - 1]
  <2>1. q \in Sel!OutQue /\ prevOutQueChInfo[q] = Created[q]
    BY <1>2, <1>5
  <2>2. Created[q] \in Seq(OutCh) /\ i \in DOMAIN Created[q]
    BY <1>1, <1>5, <2>1
  <2>3. PICK ch \in OutCh : ch = Created[q][i] /\ ch \in Range(Created[q])
                            /\ Sel!Position(Created[q], ch) = i
    <3>1. Created[q][i] \in OutCh /\ IsInjective(Created[q])
      BY <1>1, <2>1, <2>2
    <3> QED BY <2>2, <3>1, PlaceInList
  <2>4. \A k \in Sel!OutQue : ch \in Range(Created[k]) <=> k = q
    BY <1>1, <2>1, <2>3
  <2>5. (CHOOSE k \in Sel!OutQue : ch \in Range(Created[k])) = q
    BY <2>1, <2>4
  <2>6. inChInfo[ch] = [queId |-> q, outChNum |-> Sel!Position(Created[q], ch) - 1]
    BY <2>1, <2>4, <2>5, SelectRange DEF GraphInit, Sel!SelInit
  <2> QED BY <2>1, <2>3, <2>6
<1> QED
  BY <1>3, <1>4, <1>5 DEF MapInv, Sel!ReportsMap

\* Sets: the application keeps a channel in one queue.
LEMMA SetsMap ==
    ASSUME GraphInv, MapInv, NEW q \in Sel!QueId, NEW l \in Selection, NEW removes \in BOOLEAN,
           Sets(q, l, removes)
    PROVE  MapInv'
<1> DEFINE removed == IF removes THEN Range(prevOutQueChInfo[q]) ELSE {}
           prv == prevOutQueChInfo
<1>1. l \in Seq(OutCh) /\ IsInjective(l)
  <2>1. \A s : Sel!IsInjective(s) = IsInjective(s)
    BY DEF IsInjective, Sel!IsInjective
  <2> QED BY <2>1, SelectAssumption DEF Sel!SelectParameters
<1>2. \A k \in Sel!QueId \ {q} : Range(l) \cap Range(prv[k]) = {}
  BY SelectRange DEF Sets, Sel!SetOutQueChInfo, Sel!MaySelect
<1>3. prv \in [Sel!QueId -> Seq(OutCh)]
  BY DEF GraphInv, GraphTypeOK, Sel!SelTypeOK
<1>4. \A k \in Sel!QueId : prv'[k] = IF k = q THEN l ELSE prv[k]
  BY <1>3 DEF Sets, Sel!SetOutQueChInfo
<1>5. inChInfo' = [ch \in OutCh |->
           IF ch \in Range(l) THEN [queId |-> q, outChNum |-> Sel!Position(l, ch) - 1]
           ELSE IF ch \in removed THEN Sel!NotMapped
           ELSE inChInfo[ch]]
  BY SelectRange DEF Sets, Sel!SetOutQueChInfo
<1>6. \A k \in Sel!QueId : IsInjective(prv'[k])
  BY <1>1, <1>4 DEF MapInv
<1>7. \A j, k \in Sel!QueId : j # k => Range(prv'[j]) \cap Range(prv'[k]) = {}
  BY <1>2, <1>4 DEF MapInv
<1>8. ASSUME NEW k \in Sel!QueId, NEW i \in DOMAIN prv'[k]
      PROVE  inChInfo'[prv'[k][i]] = [queId |-> k, outChNum |-> i - 1]
  <2>1. CASE k = q
    <3>1. prv'[k] = l /\ i \in DOMAIN l
      BY <1>4, <1>8, <2>1
    <3>2. l[i] \in Range(l) /\ Sel!Position(l, l[i]) = i /\ l[i] \in OutCh
      BY <1>1, <3>1, PlaceInList
    <3> QED BY <1>5, <2>1, <3>1, <3>2
  <2>2. CASE k # q
    <3>1. prv'[k] = prv[k] /\ i \in DOMAIN prv[k] /\ prv[k] \in Seq(OutCh)
      BY <1>3, <1>4, <1>8, <2>2
    <3>2. PICK ch \in OutCh : ch = prv[k][i] /\ ch \in Range(prv[k])
      BY <3>1 DEF Range
    <3>3. ch \notin Range(l) /\ ch \notin removed
      BY <1>2, <2>2, <3>2 DEF MapInv
    <3>4. inChInfo[ch] = [queId |-> k, outChNum |-> i - 1]
      BY <3>1, <3>2 DEF MapInv, Sel!ReportsMap
    <3> HIDE DEF removed
    <3> QED BY <1>5, <3>1, <3>2, <3>3, <3>4
  <2> QED BY <2>1, <2>2
<1> QED
  BY <1>6, <1>7, <1>8 DEF MapInv, Sel!ReportsMap

\* No other step changes the map.
LEMMA MapStep == ASSUME GraphInv, MapInv, [GraphNext]_graphVars PROVE MapInv'
<1>1. CASE UNCHANGED <<inChInfo, prevOutQueChInfo>>
  BY <1>1 DEF MapInv, Sel!ReportsMap
<1>2. CASE MergeSteps /\ UNCHANGED selVars
  BY <1>1, <1>2 DEF selVars
<1>3. CASE Wakes \/ Gets \/ Frees
  BY <1>1, <1>3 DEF Wakes, Gets, Frees, Sel!SelectWake, Sel!Take, Sel!FreeUnmapped, Sel!map
<1>4. CASE Sorts \/ Tells
  <2>1. CASE Sel!Unselected
    BY <1>1, <2>1 DEF Sel!Unselected, Sel!map
  <2>2. CASE Sel!Selected
    BY <1>1, <2>2 DEF Sel!Selected, Sel!map
  <2>3. CASE Sel!SelectNotify
    BY <1>1, <2>3 DEF Sel!SelectNotify, Sel!map
  <2> QED BY <1>4, <2>1, <2>2, <2>3 DEF Sorts, Tells
<1>5. CASE \E q \in Sel!QueId, l \in Selection, removes \in BOOLEAN : Sets(q, l, removes)
  BY <1>5, SetsMap
<1>6. CASE \E q \in Sel!OutQue : Takes(q) \/ Returns(q)
  BY <1>1, <1>6 DEF Takes, Returns, Sel!NextWake, Sel!NextGet, Sel!Restore, Sel!map
<1>7. CASE UNCHANGED graphVars
  BY <1>1, <1>7 DEF graphVars, selVars
<1> QED
  BY <1>2, <1>3, <1>4, <1>5, <1>6, <1>7 DEF GraphNext

\* Every frame is in one place, with the number that belongs there, and what
\* the select link reports of its map is what it does.
THEOREM AlwaysFramesHome == GraphSpec => []FramesHome
<1>1. GraphSpec => []MapInv
  <2>1. GraphInv /\ MapInv /\ [GraphNext]_graphVars => MapInv'
    BY MapStep
  <2> QED BY <2>1, InitMap, Inductive, PTL DEF GraphSpec
<1>2. ASSUME GraphInv, MapInv PROVE FramesHome
  <2>1. HomeAgain
    BY <1>2, OneMergePlace DEF HomeAgain, GraphInv, OnceInv, OwnerInv
  <2>2. Sel!OncePerQueue
    <3>1. \A s : Sel!IsInjective(s) = IsInjective(s)
      BY DEF IsInjective, Sel!IsInjective
    <3> QED BY <1>2, <3>1 DEF GraphInv, OnceInv, Sel!OncePerQueue
  <2>3. Sel!ReportsMap
    BY <1>2 DEF MapInv
  <2> QED BY <1>2, <2>1, <2>2, <2>3, OneSelectPlace, ChannelsAreMapped DEF FramesHome
<1>3. GraphInv /\ MapInv => FramesHome
  BY <1>2
<1> QED
  BY <1>1, <1>3, Inductive, PTL
-----------------------------------------------------------------------------
(* The two links together are a merge link.  By ChannelsInv the number the  *)
(* merge link would see depends only on whether the frame is merged, so a   *)
(* step that merges no frame and gives none back changes none.              *)

\* A list of distinct elements of a set is one of its lists.
LEMMA ListedIn ==
    ASSUME NEW S, NEW H, IsFiniteSet(H), NEW s \in Seq(S), s # <<>>, IsInjective(s),
           Range(s) \subseteq H
    PROVE  s \in Lists(H)
<1>1. Len(s) \in Nat \ {0} /\ DOMAIN s = 1 .. Len(s) /\ s = [i \in 1 .. Len(s) |-> s[i]]
  BY LenProperties, EmptySeq
<1>2. s \in [1 .. Len(s) -> H]
  BY <1>1 DEF Range
<1>3. s \in Injection(1 .. Len(s), H)
  BY <1>2 DEF Injection
<1>4. Cardinality(1 .. Len(s)) <= Cardinality(H)
  BY <1>3, FS_Injection
<1>5. Cardinality(1 .. Len(s)) = Len(s)
  <2>1. PICK n \in Int : n = Len(s) /\ n >= 1
    BY <1>1
  <2>2. Cardinality(1 .. n) = IF 1 > n THEN 0 ELSE n - 1 + 1
    BY FS_Interval
  <2> QED BY <2>1, <2>2
<1>6. Len(s) \in 1 .. Cardinality(H)
  BY <1>1, <1>4, <1>5, FS_CardinalityType
<1> QED
  BY <1>2, <1>6 DEF Lists

LEMMA SameLists == \A S : AtMerge!Lists(S) = Lists(S)
BY SameMaps DEF Lists, AtMerge!Lists

\* The number the merge link would see, before and after a step.
LEMMA NumberSeen ==
    ASSUME GraphInv, GraphInv'
    PROVE  /\ \A f \in Frame :
                 /\ Sel!OrgChannel[f] =
                       IF f \in Merged THEN inQueChNumMap[Owner[f]][Chan[f]] ELSE Chan[f]
                 /\ Sel!OrgChannel'[f] =
                       IF f \in Merged' THEN inQueChNumMap[Owner[f]][Chan[f]] ELSE Chan[f]
           /\ (\A f \in Frame : f \in Merged' <=> f \in Merged) => UNCHANGED Sel!OrgChannel
<1>1. \A f \in Frame :
         /\ Sel!OrgChannel[f] =
               IF f \in Merged THEN inQueChNumMap[Owner[f]][Chan[f]] ELSE Chan[f]
         /\ Sel!OrgChannel'[f] =
               IF f \in Merged' THEN inQueChNumMap[Owner[f]][Chan[f]] ELSE Chan[f]
  BY DEF GraphInv, ChannelsInv
<1>2. /\ Sel!OrgChannel = [f \in Frame |-> Sel!OrgChannel[f]]
      /\ Sel!OrgChannel' = [f \in Frame |-> Sel!OrgChannel'[f]]
  BY DEF Sel!OrgChannel
<1>3. ASSUME \A f \in Frame : f \in Merged' <=> f \in Merged
      PROVE  \A f \in Frame : Sel!OrgChannel'[f] = Sel!OrgChannel[f]
  BY <1>1, <1>3
<1> QED
  BY <1>1, <1>2, <1>3

\* A step that leaves the merge link and what is held as they are.
LEMMA Stutters ==
    ASSUME GraphInv, GraphInv',
           UNCHANGED <<source, inFull, told, inNotice, mergePc, inQue, newData, outQue, notice,
                       getting, held, lock, freeList, pc, ret, upQue>>
    PROVE  UNCHANGED AtMerge!vars
<1>1. UNCHANGED Sel!OrgChannel
  BY NumberSeen DEF Merged
<1> QED
  BY <1>1 DEF AtMerge!vars, AtMerge!prev, AtMerge!merge, AtMerge!next, AtMerge!put

\* A task returns frames it holds.
LEMMA ReturnMapped ==
    ASSUME GraphInv, GraphInv', NEW t \in Caller, NEW s \in Seq(Frame), s # <<>>, IsInjective(s),
           Range(s) \subseteq held, Return(t, s)
    PROVE  AtMerge!StartReturn(t)
<1>1. held \subseteq Frame /\ IsFiniteSet(held)
  BY FrameAssumption, FS_Subset DEF GraphInv, GraphTypeOK, TypeOK
<1>2. s \in AtMerge!Lists(held)
  BY <1>1, ListedIn, SameLists
<1>3. AtMerge!Return(t, s)
  <2>1. /\ pc[t] = "idle" /\ ret' = [ret EXCEPT ![t] = s] /\ held' = held \ Range(s)
        /\ pc' = [pc EXCEPT ![t] = "pend"]
        /\ UNCHANGED <<source, inFull, told, inNotice, mergePc, inQue, newData, outQue, notice,
                       getting, lock, freeList, upQue>>
    BY DEF Return, Goto, prev, merge
  <2> QED BY <2>1, SameMaps DEF AtMerge!Return, AtMerge!Goto, AtMerge!prev, AtMerge!merge
<1>4. UNCHANGED Sel!OrgChannel
  <2>1. /\ ret[t] = <<>> /\ held' = held \ Range(s)
        /\ \A u \in Caller : ret'[u] = IF u = t THEN s ELSE ret[u]
        /\ outQue' = outQue
    BY ReturnTypes
  <2>2. ASSUME NEW f \in Frame PROVE f \in Merged' <=> f \in Merged
    <3>1. (\E u \in Caller : f \in Range(ret'[u]))
             <=> f \in Range(s) \/ \E u \in Caller : f \in Range(ret[u])
      <4>1. \A u \in Caller : f \in Range(ret'[u]) <=>
                                 f \in Range(ret[u]) \/ (u = t /\ f \in Range(s))
        BY <2>1, EmptyQueue
      <4> QED BY <4>1
    <3> QED BY <2>1, <3>1, Whereabouts, WhereaboutsNext
  <2> QED BY <2>2, NumberSeen
<1> QED
  BY <1>2, <1>3, <1>4 DEF AtMerge!StartReturn

\* The merge link's own steps that change no number.
LEMMA OwnMapped ==
    ASSUME GraphInv, GraphInv', UNCHANGED selVars,
           \/ \E q \in InQue : Give(q) \/ Tell(q)
           \/ MergeWake \/ MergeNotify
           \/ \E t \in Caller : Pend(t) \/ Up(t)
    PROVE  AtMerge!Next
<1>1. UNCHANGED <<outQue, held, ret>>
  BY DEF Give, Tell, MergeWake, MergeNotify, Pend, Up, prev, merge, next, put
<1>2. UNCHANGED Sel!OrgChannel
  BY <1>1, NumberSeen DEF Merged
<1>3. ASSUME NEW q \in InQue, Give(q) PROVE AtMerge!Give(q)
  BY <1>2, <1>3 DEF Give, AtMerge!Give, merge, next, put, AtMerge!merge, AtMerge!next, AtMerge!put
<1>4. ASSUME NEW q \in InQue, Tell(q) PROVE AtMerge!Tell(q)
  BY <1>2, <1>4 DEF Tell, AtMerge!Tell, merge, next, put, AtMerge!merge, AtMerge!next, AtMerge!put
<1>5. ASSUME MergeWake PROVE AtMerge!MergeWake
  BY <1>2, <1>5 DEF MergeWake, AtMerge!MergeWake, prev, next, put, AtMerge!prev, AtMerge!next,
                    AtMerge!put
<1>6. ASSUME MergeNotify PROVE AtMerge!MergeNotify
  BY <1>2, <1>6 DEF MergeNotify, AtMerge!MergeNotify, prev, put, AtMerge!prev, AtMerge!put
<1>7. ASSUME NEW t \in Caller, Pend(t) PROVE AtMerge!Pend(t)
  BY <1>2, <1>7, SameMaps DEF Pend, AtMerge!Pend, Goto, AtMerge!Goto, prev, merge, next,
                              AtMerge!prev, AtMerge!merge, AtMerge!next
<1>8. ASSUME NEW t \in Caller, Up(t) PROVE AtMerge!Up(t)
  BY <1>2, <1>8, SameMaps DEF Up, AtMerge!Up, Goto, AtMerge!Goto, merge, next,
                              AtMerge!merge, AtMerge!next
<1> QED
  BY <1>3, <1>4, <1>5, <1>6, <1>7, <1>8, SameMaps
     DEF AtMerge!Next, AtMerge!Merge, AtMerge!PutEmptyFrames

\* Scan gives the frames of the queue their merged numbers.
LEMMA ScanMapped ==
    ASSUME GraphInv, GraphInv', Scan, UNCHANGED selVars
    PROVE  AtMerge!Scan
<1> DEFINE s == inFull[inQue]
<1>1. ASSUME NEW f \in Frame
      PROVE  /\ f \in Merged' <=> f \in Merged \/ f \in Range(s)
             /\ f \in Range(s) => f \notin Merged /\ Owner[f] = inQue
  <2>1. UNCHANGED <<held, ret>>
    BY DEF Scan, next, put
  <2> QED BY <2>1, ScanMoves, Whereabouts, WhereaboutsNext
<1>2. ASSUME NEW f \in Frame
      PROVE  Sel!OrgChannel'[f] = IF f \in Range(s) THEN inQueChNumMap[inQue][Sel!OrgChannel[f]]
                                                    ELSE Sel!OrgChannel[f]
  BY <1>1, NumberSeen
<1>3. Sel!OrgChannel' = [f \in Frame |-> IF f \in Range(s) THEN inQueChNumMap[inQue][Sel!OrgChannel[f]]
                                                          ELSE Sel!OrgChannel[f]]
  BY <1>2 DEF Sel!OrgChannel
<1>4. Sel!OrgChannel' = [f \in Frame |->
                           IF f \in AtMerge!Range(s) THEN AtMerge!inQueChNumMap[inQue][Sel!OrgChannel[f]]
                                                     ELSE Sel!OrgChannel[f]]
  <2> HIDE DEF s
  <2> QED BY <1>3, SameMaps
<1>5. /\ mergePc = "scan" /\ outQue' = outQue \o s /\ newData' = (newData \/ s # <<>>)
      /\ inFull' = [inFull EXCEPT ![inQue] = <<>>]
      /\ AtMerge!NextQue
      /\ UNCHANGED <<source, told, inNotice, notice, getting, held, lock, freeList, pc, ret, upQue>>
  BY DEF Scan, NextQue, AtMerge!NextQue, next, put
<1> QED
  BY <1>4, <1>5 DEF AtMerge!Scan, AtMerge!next, AtMerge!put

\* Sort gives a frame the number of its own queue again.
LEMMA SortMapped ==
    ASSUME GraphInv, GraphInv', NEW t \in Caller, Sort(t), UNCHANGED selVars
    PROVE  AtMerge!Sort(t)
<1>1. PICK f \in Frame : f = Head(ret[t]) /\ f \in Merged /\ f \notin Sel!Behind /\ chan[f] \in OutCh
  <2>1. pc[t] = "sort" /\ ret[t] \in Seq(Frame) /\ ret[t] # <<>>
    BY DEF Sort, GraphInv, GraphTypeOK, TypeOK, TasksInv
  <2>2. Head(ret[t]) \in Frame /\ Head(ret[t]) \in Range(ret[t])
    BY <2>1, QueueTake
  <2>3. t \in At(Head(ret[t]))["ret"] /\ "ret" \in Kind
    BY <2>2, ByKind DEF Kind
  <2>4. Head(ret[t]) \in Merged /\ Head(ret[t]) \notin Sel!Behind
    BY <2>2, <2>3, PlaceTells
  <2> QED BY <2>2, <2>4, Numbers
<1>2. Sel!OrgChannel[f] = chan[f]
  BY <1>1 DEF Sel!OrgChannel
<1>3. Sel!OrgChannel' = [Sel!OrgChannel EXCEPT ![f] = outQueChMap[@]]
  <2>1. UNCHANGED <<org, outFrameQue, using>>
    BY DEF selVars
  <2>2. \A g \in Frame : g \in Sel!Behind' <=> g \in Sel!Behind
    BY <2>1 DEF Sel!Behind
  <2>3. chan' = [chan EXCEPT ![f] = outQueChMap[@]] /\ chan \in [Frame -> Nat]
    BY <1>1 DEF Sort, GraphInv, GraphTypeOK, TypeOK
  <2> QED BY <1>1, <2>1, <2>2, <2>3 DEF Sel!OrgChannel
<1>4. AtMerge!outQueChToInQueMap[Sel!OrgChannel[f]] = outQueChToInQueMap[chan[f]]
  BY <1>2, SameMaps
<1>5. /\ pc[t] = "sort"
      /\ freeList' = [freeList EXCEPT ![outQueChToInQueMap[chan[f]]] = Append(@, f)]
      /\ ret' = [ret EXCEPT ![t] = Tail(@)]
      /\ pc' = [pc EXCEPT ![t] = IF Len(ret[t]) = 1 THEN "up" ELSE "sort"]
      /\ UNCHANGED <<source, inFull, told, inNotice, mergePc, inQue, newData, outQue, notice,
                     getting, held, lock, upQue>>
  BY <1>1 DEF Sort, Goto, prev, merge, next
<1>6. Sel!OrgChannel' = [Sel!OrgChannel EXCEPT ![f] = AtMerge!outQueChMap[@]]
  BY <1>3, SameMaps
<1> QED
  BY <1>1, <1>4, <1>5, <1>6 DEF AtMerge!Sort, AtMerge!Goto, AtMerge!prev, AtMerge!merge, AtMerge!next
\* Together a merge link and a select link are a merge link whose next link
\* takes what there is and returns each frame once, as it got it.
THEOREM Implements == GraphSpec => ImplementsMerge
<1>1. GraphInit => AtMerge!Init
  <2> SUFFICES ASSUME GraphInit PROVE AtMerge!Init
    OBVIOUS
  <2>1. Sel!OrgChannel = Chan
    <3>1. \A f \in Frame : f \notin Sel!Behind
      BY EmptyQueue, SelectRange DEF GraphInit, Sel!SelInit, Sel!Behind
    <3>2. chan = Chan /\ Chan = [f \in Frame |-> Chan[f]]
      BY FrameAssumption DEF GraphInit, Init
    <3> QED BY <3>1, <3>2 DEF Sel!OrgChannel
  <2> QED BY <2>1, SameMaps DEF GraphInit, Init, AtMerge!Init
<1>2. GraphInv /\ GraphInv' /\ [GraphNext]_graphVars => [AtMerge!Next]_(AtMerge!vars)
  <2> SUFFICES ASSUME GraphInv, GraphInv', [GraphNext]_graphVars
               PROVE  AtMerge!Next \/ UNCHANGED AtMerge!vars
    OBVIOUS
  <2>1. CASE MergeSteps /\ UNCHANGED selVars
    <3>1. CASE \/ \E q \in InQue : Give(q) \/ Tell(q)
               \/ MergeWake \/ MergeNotify
               \/ \E t \in Caller : Pend(t) \/ Up(t)
      BY <2>1, <3>1, OwnMapped
    <3>2. CASE Scan
      BY <2>1, <3>2, ScanMapped DEF AtMerge!Next, AtMerge!Merge
    <3>3. CASE \E t \in Caller : Sort(t)
      BY <2>1, <3>3, SortMapped DEF AtMerge!Next, AtMerge!PutEmptyFrames
    <3> QED BY <2>1, <3>1, <3>2, <3>3 DEF MergeSteps, Merge, PutEmptyFrames
  <2>2. CASE Wakes
    <3>1. UNCHANGED Sel!OrgChannel
      BY <2>2, NumberSeen DEF Wakes, Wake, Merged, put
    <3>2. AtMerge!Wake
      BY <2>2, <3>1 DEF Wakes, Wake, AtMerge!Wake, prev, merge, put, AtMerge!prev, AtMerge!merge,
                        AtMerge!put
    <3> QED BY <3>2 DEF AtMerge!Next
  <2>3. CASE Gets
    <3>1. ASSUME NEW f \in Frame PROVE f \in Merged' <=> f \in Merged
      BY <2>3, EmptyQueue, Whereabouts, WhereaboutsNext DEF Gets, GetFull, put
    <3>2. UNCHANGED Sel!OrgChannel
      BY <3>1, NumberSeen
    <3>3. AtMerge!GetFull
      BY <2>3, <3>2, SameMaps DEF Gets, GetFull, AtMerge!GetFull, prev, merge, put, AtMerge!prev,
                                  AtMerge!merge, AtMerge!put
    <3> QED BY <3>3 DEF AtMerge!Next
  <2>4. CASE \/ Sorts \/ Tells
             \/ \E q \in Sel!QueId, l \in Selection, removes \in BOOLEAN : Sets(q, l, removes)
             \/ \E q \in Sel!OutQue : Takes(q)
    <3>1. UNCHANGED mergeVars
      BY <2>4 DEF Sorts, Tells, Sets, Takes
    <3> QED BY <3>1, Stutters DEF mergeVars, prev, merge, put
  <2>5. CASE Frees
    <3>1. Return(SelTask, unmapped) /\ SelTask \in Caller
      BY <2>5, TaskAssumption DEF Frees
    <3>2. unmapped \in Seq(Frame) /\ unmapped # <<>> /\ IsInjective(unmapped)
      BY <2>5 DEF Frees, Sel!FreeUnmapped, GraphInv, GraphTypeOK, Sel!SelTypeOK, TasksInv, OnceInv
    <3>3. Range(unmapped) \subseteq held
      <4>1. Range(unmapped) \subseteq Frame
        BY <3>2 DEF Range
      <4> QED BY <4>1 DEF GraphInv, HeldInv
    <3>4. AtMerge!StartReturn(SelTask)
      BY <3>1, <3>2, <3>3, ReturnMapped
    <3> QED BY <3>1, <3>4 DEF AtMerge!Next
  <2>6. CASE \E q \in Sel!OutQue : Returns(q)
    <3>1. PICK q \in Sel!OutQue : Returns(q)
      BY <2>6
    <3>2. PICK s \in Seq(Frame) :
             /\ s # <<>> /\ IsInjective(s) /\ Range(s) \subseteq using[q]
             /\ Return(NextTask[q], s) /\ NextTask[q] \in Caller
      BY <3>1, ReturnsMoves
    <3>3. Range(s) \subseteq held
      <4>1. Range(s) \subseteq Frame
        BY <3>2 DEF Range
      <4> QED BY <3>2, <4>1 DEF GraphInv, HeldInv
    <3>4. AtMerge!StartReturn(NextTask[q])
      BY <3>2, <3>3, ReturnMapped
    <3> QED BY <3>2, <3>4 DEF AtMerge!Next
  <2>7. CASE UNCHANGED graphVars
    BY <2>7, Stutters DEF graphVars, vars, prev, merge, next, put
  <2> QED
    BY <2>1, <2>2, <2>3, <2>4, <2>5, <2>6, <2>7 DEF GraphNext
<1> QED
  BY <1>1, <1>2, Inductive, PTL DEF GraphSpec, ImplementsMerge, AtMerge!Spec

=============================================================================
