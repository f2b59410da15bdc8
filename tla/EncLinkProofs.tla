--------------------------- MODULE EncLinkProofs ---------------------------
(* Theorems of EncLink, for every number of channels, process tasks, frames *)
(* and buffers, every assignment of channels to tasks, every rule by which  *)
(* requests are batched, and every bound of the lists and queues.           *)
EXTENDS EncLink, OwningLemmas

-----------------------------------------------------------------------------
(* Induction, over a set of numbers or of sequences.                        *)

\* A set of numbers that has 0 and every successor has all.
LEMMA Induct ==
    ASSUME NEW S \in SUBSET Nat, 0 \in S, \A n \in S : n + 1 \in S
    PROVE  S = Nat
<1> SUFFICES ASSUME Nat \ S # {} PROVE FALSE
  OBVIOUS
<1>1. PICK n \in Nat \ S : \A m \in Nat \ S : n <= m
  BY LeastNatural
<1>2. n - 1 \in Nat /\ n - 1 \notin Nat \ S
  BY <1>1
<1> QED
  BY <1>2

\* A set of sequences that has <<>> and every extension by one has all.
LEMMA SeqInduct ==
    ASSUME NEW S, NEW T \in SUBSET Seq(S), <<>> \in T,
           \A s \in T : \A e \in S : Append(s, e) \in T
    PROVE  T = Seq(S)
<1> DEFINE N == {n \in Nat : \A s \in Seq(S) : Len(s) = n => s \in T}
<1>1. 0 \in N
  <2> SUFFICES ASSUME NEW s \in Seq(S), Len(s) = 0 PROVE s \in T
    OBVIOUS
  <2>1. s = <<>>
    BY EmptySeq
  <2> QED BY <2>1
<1>2. ASSUME NEW n \in N PROVE n + 1 \in N
  <2> SUFFICES ASSUME NEW s \in Seq(S), Len(s) = n + 1 PROVE s \in T
    OBVIOUS
  <2>1. s # <<>>
    BY EmptySeq
  <2>2. PICK r \in Seq(S), e \in S : s = Append(r, e)
    BY <2>1, SequenceEmptyOrAppend
  <2>3. Len(s) = Len(r) + 1 /\ Len(r) \in Nat
    BY <2>2, AppendProperties, LenProperties
  <2>4. Len(r) = n
    BY <2>3
  <2>5. r \in T
    BY <2>4
  <2> QED BY <2>2, <2>5
<1>3. N \in SUBSET Nat
  OBVIOUS
<1> HIDE DEF N
<1>4. N = Nat
  BY <1>1, <1>2, <1>3, Induct
<1>5. ASSUME NEW s \in Seq(S) PROVE s \in T
  BY <1>4, LenProperties DEF N
<1> QED
  BY <1>5

-----------------------------------------------------------------------------
(* FlattenSeq puts the sequences of a sequence one after the other.         *)

Flattens(f, s, n) == f = [i \in 1 .. n |-> IF i = 1 THEN s[i] ELSE f[i - 1] \o s[i]]
Flattened(s) == CHOOSE f : Flattens(f, s, Len(s))

\* The recursive function of FlattenSeq exists,
LEMMA FlattenedExists == ASSUME NEW s PROVE \A n \in Nat : \E f : Flattens(f, s, n)
<1> DEFINE N == {n \in Nat : \E f : Flattens(f, s, n)}
<1>1. 0 \in N
  <2>1. [i \in 1 .. 0 |-> s[i]]
        = [i \in 1 .. 0 |-> IF i = 1 THEN s[i] ELSE [j \in 1 .. 0 |-> s[j]][i - 1] \o s[i]]
    OBVIOUS
  <2>2. Flattens([i \in 1 .. 0 |-> s[i]], s, 0)
    BY <2>1 DEF Flattens
  <2> QED BY <2>2
<1>2. ASSUME NEW n \in N PROVE n + 1 \in N
  <2>1. n \in Nat /\ \E f : Flattens(f, s, n)
    OBVIOUS
  <2>2. PICK f : Flattens(f, s, n)
    BY <2>1
  <2> DEFINE g == [i \in 1 .. n + 1 |-> IF i <= n THEN f[i]
                                        ELSE IF i = 1 THEN s[i] ELSE f[i - 1] \o s[i]]
  <2>3. ASSUME NEW i \in 1 .. n + 1
        PROVE  g[i] = IF i = 1 THEN s[i] ELSE g[i - 1] \o s[i]
    <3>1. CASE i <= n
      <4>1. i \in 1 .. n /\ (i # 1 => i - 1 \in 1 .. n)
        BY <2>1, <3>1
      <4>2. f[i] = IF i = 1 THEN s[i] ELSE f[i - 1] \o s[i]
        BY <2>2, <4>1 DEF Flattens
      <4>3. g[i] = f[i] /\ (i # 1 => g[i - 1] = f[i - 1])
        BY <2>1, <4>1
      <4> QED BY <4>2, <4>3
    <3>2. CASE i = n + 1
      <4>1. i # 1 => i - 1 \in 1 .. n
        BY <2>1, <3>2
      <4>2. i # 1 => g[i - 1] = f[i - 1]
        BY <2>1, <4>1
      <4>3. g[i] = IF i = 1 THEN s[i] ELSE f[i - 1] \o s[i]
        BY <2>1, <3>2
      <4> QED BY <4>2, <4>3
    <3> QED BY <2>1, <3>1, <3>2
  <2>4. Flattens(g, s, n + 1)
    <3> DEFINE h == [i \in 1 .. n + 1 |-> IF i = 1 THEN s[i] ELSE g[i - 1] \o s[i]]
    <3>1. \A i \in 1 .. n + 1 : g[i] = h[i]
      BY <2>3
    <3>2. DOMAIN g = 1 .. n + 1 /\ DOMAIN h = 1 .. n + 1
      OBVIOUS
    <3>3. g = [i \in 1 .. n + 1 |-> g[i]] /\ h = [i \in 1 .. n + 1 |-> h[i]]
      BY <3>2
    <3> HIDE DEF g, h
    <3>4. g = h
      BY <3>1, <3>3
    <3> QED BY <3>4 DEF h, Flattens
  <2> HIDE DEF g
  <2> QED BY <2>1, <2>4
<1>3. N \in SUBSET Nat
  OBVIOUS
<1> HIDE DEF N
<1>4. N = Nat
  BY <1>1, <1>2, <1>3, Induct
<1> QED
  BY <1>4 DEF N

\* ... and its values follow its equation.
LEMMA FlattenedSteps ==
    ASSUME NEW s, Len(s) \in Nat
    PROVE  /\ \A i \in 1 .. Len(s) : Flattened(s)[i] = IF i = 1 THEN s[i] ELSE Flattened(s)[i - 1] \o s[i]
           /\ FlattenSeq(s) = IF Len(s) = 0 THEN s ELSE Flattened(s)[Len(s)]
<1>1. Flattened(s) = [i \in 1 .. Len(s) |-> IF i = 1 THEN s[i] ELSE Flattened(s)[i - 1] \o s[i]]
  <2>1. Flattens(Flattened(s), s, Len(s))
    BY FlattenedExists DEF Flattened
  <2> QED BY <2>1 DEF Flattens
<1>2. FlattenSeq(s) = IF Len(s) = 0 THEN s ELSE Flattened(s)[Len(s)]
  BY DEF FlattenSeq, Flattened, Flattens
<1> QED
  BY <1>1, <1>2

\* A last sequence comes after the others.
LEMMA FlattenAppend ==
    ASSUME NEW S, NEW s \in Seq(Seq(S)), NEW e \in Seq(S), FlattenSeq(s) \in Seq(S)
    PROVE  FlattenSeq(Append(s, e)) = FlattenSeq(s) \o e
<1>1. PICK n \in Nat : n = Len(s)
  BY LenProperties
<1>2. PICK t \in Seq(Seq(S)) : t = Append(s, e)
  BY AppendProperties
<1>3. Len(t) = n + 1 /\ t[n + 1] = e /\ \A i \in 1 .. n : t[i] = s[i]
  BY <1>1, <1>2, AppendProperties
<1>4. PICK F : F = Flattened(s)
  OBVIOUS
<1>5. PICK G : G = Flattened(t)
  OBVIOUS
<1>6. /\ \A i \in 1 .. n : F[i] = IF i = 1 THEN s[i] ELSE F[i - 1] \o s[i]
      /\ FlattenSeq(s) = IF n = 0 THEN s ELSE F[n]
  BY <1>1, <1>4, FlattenedSteps
<1>7. /\ \A i \in 1 .. n + 1 : G[i] = IF i = 1 THEN t[i] ELSE G[i - 1] \o t[i]
      /\ FlattenSeq(t) = G[n + 1]
  <2>1. Len(t) \in Nat /\ Len(t) = n + 1 /\ Len(t) # 0
    BY <1>3
  <2>2. \A i \in 1 .. Len(t) : G[i] = IF i = 1 THEN t[i] ELSE G[i - 1] \o t[i]
    BY <1>5, <2>1, FlattenedSteps
  <2>3. FlattenSeq(t) = G[Len(t)]
    BY <1>5, <2>1, FlattenedSteps
  <2> QED BY <2>1, <2>2, <2>3
<1> DEFINE N == {i \in Nat : i \in 1 .. n => F[i] = G[i]}
<1>8. N = Nat
  <2>1. 0 \in N
    OBVIOUS
  <2>2. ASSUME NEW i \in N PROVE i + 1 \in N
    <3> SUFFICES ASSUME i + 1 \in 1 .. n PROVE F[i + 1] = G[i + 1]
      OBVIOUS
    <3>1. i + 1 \in 1 .. n + 1 /\ s[i + 1] = t[i + 1] /\ i + 1 - 1 = i
      BY <1>3
    <3>2. F[i + 1] = IF i + 1 = 1 THEN s[i + 1] ELSE F[i] \o s[i + 1]
      BY <1>6, <3>1
    <3>3. G[i + 1] = IF i + 1 = 1 THEN t[i + 1] ELSE G[i] \o t[i + 1]
      BY <1>7, <3>1
    <3>4. i + 1 # 1 => F[i] = G[i]
      OBVIOUS
    <3> QED BY <3>1, <3>2, <3>3, <3>4
  <2>3. N \in SUBSET Nat
    OBVIOUS
  <2> HIDE DEF N
  <2> QED BY <2>1, <2>2, <2>3, Induct
<1>9. CASE n = 0
  <2>1. s = <<>>
    BY <1>1, <1>9, EmptySeq
  <2>2. FlattenSeq(s) = <<>>
    BY <1>6, <1>9, <2>1
  <2>3. FlattenSeq(t) = e
    BY <1>3, <1>7, <1>9
  <2> QED BY <1>2, <2>2, <2>3, ConcatEmptySeq
<1>10. CASE n # 0
  <2>1. PICK m \in 1 .. n + 1 : m = n + 1
    OBVIOUS
  <2>2. m # 1 /\ m - 1 = n /\ t[m] = e
    BY <1>3, <1>10, <2>1
  <2>3. G[m] = IF m = 1 THEN t[m] ELSE G[m - 1] \o t[m]
    BY <1>7
  <2>4. G[n + 1] = G[n] \o e
    BY <2>1, <2>2, <2>3
  <2>5. F[n] = G[n]
    <3>1. n \in N
      BY <1>8
    <3> QED BY <1>10, <3>1
  <2> QED BY <1>2, <1>6, <1>7, <1>10, <2>4, <2>5
<1> QED
  BY <1>9, <1>10

\* What FlattenSeq makes of no sequence, of any, and of two lists of them.
LEMMA FlattenEmpty == FlattenSeq(<<>>) = <<>>
<1>1. Len(<<>>) = 0 /\ Len(<<>>) \in Nat
  BY EmptySeq
<1> QED
  BY <1>1 DEF FlattenSeq

LEMMA FlattenType ==
    ASSUME NEW S, NEW s \in Seq(Seq(S))
    PROVE  FlattenSeq(s) \in Seq(S)
<1> DEFINE T == {r \in Seq(Seq(S)) : FlattenSeq(r) \in Seq(S)}
<1>1. <<>> \in T
  BY FlattenEmpty, EmptySeq
<1>2. ASSUME NEW r \in T, NEW e \in Seq(S) PROVE Append(r, e) \in T
  <2>1. r \in Seq(Seq(S)) /\ FlattenSeq(r) \in Seq(S)
    OBVIOUS
  <2>2. FlattenSeq(Append(r, e)) = FlattenSeq(r) \o e /\ Append(r, e) \in Seq(Seq(S))
    BY <2>1, FlattenAppend, AppendProperties
  <2> QED BY <2>1, <2>2, ConcatProperties
<1>3. T \in SUBSET Seq(Seq(S))
  OBVIOUS
<1> HIDE DEF T
<1>4. T = Seq(Seq(S))
  BY <1>1, <1>2, <1>3, SeqInduct
<1> QED
  BY <1>4 DEF T

LEMMA FlattenConcat ==
    ASSUME NEW S, NEW s \in Seq(Seq(S)), NEW t \in Seq(Seq(S))
    PROVE  FlattenSeq(s \o t) = FlattenSeq(s) \o FlattenSeq(t)
<1> DEFINE T == {r \in Seq(Seq(S)) : FlattenSeq(s \o r) = FlattenSeq(s) \o FlattenSeq(r)}
<1>1. <<>> \in T
  <2>1. FlattenSeq(s) \in Seq(S)
    BY FlattenType
  <2>2. s \o <<>> = s /\ FlattenSeq(s) \o <<>> = FlattenSeq(s)
    BY <2>1, ConcatEmptySeq
  <2> QED BY <2>2, FlattenEmpty, EmptySeq
<1>2. ASSUME NEW r \in T, NEW e \in Seq(S) PROVE Append(r, e) \in T
  <2>1. r \in Seq(Seq(S)) /\ FlattenSeq(s \o r) = FlattenSeq(s) \o FlattenSeq(r)
    OBVIOUS
  <2>2. /\ FlattenSeq(s) \in Seq(S) /\ FlattenSeq(r) \in Seq(S) /\ s \o r \in Seq(Seq(S))
        /\ Append(r, e) \in Seq(Seq(S))
    BY <2>1, FlattenType, ConcatProperties, AppendProperties
  <2>3. FlattenSeq(s \o r) \in Seq(S)
    BY <2>2, FlattenType
  <2>4. s \o Append(r, e) = Append(s \o r, e)
    <3>1. Append(r, e) = r \o <<e>> /\ Append(s \o r, e) = (s \o r) \o <<e>> /\ <<e>> \in Seq(Seq(S))
      BY <2>1, <2>2, AppendIsConcat
    <3> QED BY <2>1, <3>1, ConcatAssociative
  <2>5. FlattenSeq(Append(s \o r, e)) = FlattenSeq(s \o r) \o e
    BY <2>2, <2>3, FlattenAppend
  <2>6. FlattenSeq(Append(r, e)) = FlattenSeq(r) \o e
    BY <2>1, <2>2, FlattenAppend
  <2>7. (FlattenSeq(s) \o FlattenSeq(r)) \o e = FlattenSeq(s) \o (FlattenSeq(r) \o e)
    BY <2>2, ConcatAssociative
  <2> QED BY <2>1, <2>2, <2>4, <2>5, <2>6, <2>7
<1>3. T \in SUBSET Seq(Seq(S))
  OBVIOUS
<1> HIDE DEF T
<1>4. T = Seq(Seq(S))
  BY <1>1, <1>2, <1>3, SeqInduct
<1> QED
  BY <1>4 DEF T

\* What is in the result is in one of them.
LEMMA FlattenRange ==
    ASSUME NEW S, NEW s \in Seq(Seq(S))
    PROVE  Range(FlattenSeq(s)) = UNION {Range(e) : e \in Range(s)}
<1> DEFINE T == {r \in Seq(Seq(S)) : Range(FlattenSeq(r)) = UNION {Range(e) : e \in Range(r)}}
<1>1. <<>> \in T
  BY FlattenEmpty, EmptySeq, EmptyQueue
<1>2. ASSUME NEW r \in T, NEW e \in Seq(S) PROVE Append(r, e) \in T
  <2>1. r \in Seq(Seq(S)) /\ Range(FlattenSeq(r)) = UNION {Range(d) : d \in Range(r)}
    OBVIOUS
  <2>2. FlattenSeq(r) \in Seq(S)
    BY <2>1, FlattenType
  <2>3. FlattenSeq(Append(r, e)) = FlattenSeq(r) \o e /\ Append(r, e) \in Seq(Seq(S))
    BY <2>1, <2>2, FlattenAppend, AppendProperties
  <2>4. Range(FlattenSeq(r) \o e) = Range(FlattenSeq(r)) \cup Range(e)
    BY <2>2, RangeConcatenation
  <2>5. Range(Append(r, e)) = Range(r) \cup {e}
    BY <2>1, QueueAppend
  <2> QED BY <2>1, <2>3, <2>4, <2>5
<1>3. T \in SUBSET Seq(Seq(S))
  OBVIOUS
<1> HIDE DEF T
<1>4. T = Seq(Seq(S))
  BY <1>1, <1>2, <1>3, SeqInduct
<1> QED
  BY <1>4 DEF T

\* Sequences of one length z, one or two, put together: the k-th of them is
\* where it has to be, whatever follows.
LEMMA FlattenBlocks ==
    ASSUME NEW S, NEW z \in {1, 2}, NEW P \in Seq(Seq(S)), \A e \in Range(P) : Len(e) = z
    PROVE  /\ Len(FlattenSeq(P)) = z * Len(P)
           /\ \A R \in Seq(S) : \A k \in 1 .. Len(P) :
                 SubSeq(FlattenSeq(P) \o R, (k - 1) * z + 1, k * z) = P[k]
<1> DEFINE B == {e \in Seq(S) : Len(e) = z}
           At(Q, R, k) == SubSeq(FlattenSeq(Q) \o R, (k - 1) * z + 1, k * z)
           T == {Q \in Seq(B) : /\ Len(FlattenSeq(Q)) = z * Len(Q)
                                /\ \A R \in Seq(S) : \A k \in 1 .. Len(Q) : At(Q, R, k) = Q[k]}
<1>0. z \in Nat /\ (z = 1 \/ z = 2)
  OBVIOUS
<1>1. <<>> \in T
  <2>1. Len(<<>>) = 0 /\ <<>> \in Seq(B) /\ FlattenSeq(<<>>) = <<>>
    BY EmptySeq, FlattenEmpty
  <2>2. \A k \in 1 .. Len(<<>>) : FALSE
    BY <2>1
  <2> QED BY <1>0, <2>1, <2>2
<1>2. ASSUME NEW Q \in T, NEW e \in B PROVE Append(Q, e) \in T
  <2>1. /\ Q \in Seq(B) /\ Len(FlattenSeq(Q)) = z * Len(Q) /\ e \in Seq(S) /\ Len(e) = z
        /\ \A R \in Seq(S) : \A k \in 1 .. Len(Q) : At(Q, R, k) = Q[k]
    OBVIOUS
  <2>2. Q \in Seq(Seq(S)) /\ B \subseteq Seq(S)
    BY <2>1, SeqMonotonic
  <2>3. /\ Append(Q, e) \in Seq(B) /\ Len(Append(Q, e)) = Len(Q) + 1 /\ Len(Q) \in Nat
        /\ Append(Q, e)[Len(Q) + 1] = e /\ \A k \in 1 .. Len(Q) : Append(Q, e)[k] = Q[k]
    BY <2>1, AppendProperties, LenProperties
  <2>4. FlattenSeq(Q) \in Seq(S) /\ FlattenSeq(Append(Q, e)) = FlattenSeq(Q) \o e
    BY <2>1, <2>2, FlattenType, FlattenAppend
  <2>5. /\ Len(FlattenSeq(Q) \o e) = z * Len(Q) + z
        /\ z * Len(Q) + z = z * (Len(Q) + 1)
    <3>1. Len(FlattenSeq(Q) \o e) = Len(FlattenSeq(Q)) + Len(e)
      BY <2>1, <2>4, ConcatProperties
    <3> QED BY <1>0, <2>1, <2>3, <3>1
  <2>6. ASSUME NEW R \in Seq(S), NEW k \in 1 .. Len(Q) + 1
        PROVE  At(Append(Q, e), R, k) = Append(Q, e)[k]
    <3>1. (FlattenSeq(Q) \o e) \o R = FlattenSeq(Q) \o (e \o R) /\ e \o R \in Seq(S)
      <4>1. PICK f \in Seq(S) : f = FlattenSeq(Q)
        BY <2>4
      <4>2. PICK d \in Seq(S) : d = e
        BY <2>1
      <4>3. (f \o d) \o R = f \o (d \o R)
        <5> HIDE DEF T, B, At
        <5> QED BY ConcatAssociative
      <4>4. d \o R \in Seq(S)
        BY ConcatProperties
      <4> QED BY <4>1, <4>2, <4>3, <4>4
    <3>2. At(Append(Q, e), R, k) = At(Q, e \o R, k)
      BY <2>4, <3>1
    <3>3. CASE k <= Len(Q)
      <4>1. k \in 1 .. Len(Q)
        BY <2>3, <3>3
      <4>2. At(Q, e \o R, k) = Q[k]
        BY <2>1, <3>1, <4>1
      <4> QED BY <2>3, <3>2, <4>1, <4>2
    <3>4. CASE k = Len(Q) + 1
      <4> DEFINE f == FlattenSeq(Q)
                 n == z * Len(Q)
      <4>1. n \in Nat /\ Len(f) = n /\ f \in Seq(S) /\ Len(e \o R) = z + Len(R) /\ Len(R) \in Nat
        BY <1>0, <2>1, <2>3, <2>4, ConcatProperties, LenProperties
      <4>2. (k - 1) * z + 1 = n + 1 /\ k * z = n + z
        BY <1>0, <2>3, <3>4
      <4>3. At(Q, e \o R, k) = SubSeq(f \o (e \o R), n + 1, n + z)
        BY <4>2
      <4> HIDE DEF n, f, At
      <4>4. SubSeq(f \o (e \o R), n + 1, n + z) = SubSeq(e \o R, 1, z)
        <5>1. n + 1 \in Len(f) + 1 .. Len(f) + Len(e \o R) /\ n + z \in Len(f) + 1 .. Len(f) + Len(e \o R)
          BY <1>0, <4>1
        <5>2. SubSeq(f \o (e \o R), n + 1, n + z) = SubSeq(e \o R, n + 1 - Len(f), n + z - Len(f))
          BY <3>1, <4>1, <5>1, SubSeqOfConcat2
        <5>3. n + 1 - Len(f) = 1 /\ n + z - Len(f) = z
          BY <1>0, <4>1
        <5> QED BY <5>2, <5>3
      <4>5. SubSeq(e \o R, 1, z) = SubSeq(e, 1, z)
        <5>1. 1 \in 1 .. Len(e) /\ z \in 1 .. Len(e)
          BY <1>0, <2>1
        <5> QED BY <2>1, <5>1, SubSeqOfConcat1
      <4>6. SubSeq(e, 1, z) = e
        BY <2>1, SubSeqFull
      <4> QED BY <2>3, <3>2, <3>4, <4>3, <4>4, <4>5, <4>6
    <3>5. k <= Len(Q) \/ k = Len(Q) + 1
      BY <2>3
    <3> HIDE DEF At
    <3> QED BY <3>3, <3>4, <3>5
  <2> HIDE DEF At
  <2>7. \A R \in Seq(S) : \A k \in 1 .. Len(Append(Q, e)) : At(Append(Q, e), R, k) = Append(Q, e)[k]
    BY <2>3, <2>6
  <2>8. Len(FlattenSeq(Append(Q, e))) = z * Len(Append(Q, e))
    BY <2>3, <2>4, <2>5
  <2> QED BY <2>3, <2>7, <2>8
<1>3. T \in SUBSET Seq(B)
  OBVIOUS
<1>4. P \in Seq(B)
  <2>1. P \in Seq(Range(P)) /\ Range(P) \subseteq B
    BY SeqOfRange, RangeOfSeq
  <2> HIDE DEF B
  <2> QED BY <2>1, SeqMonotonic
<1> HIDE DEF T
<1>5. T = Seq(B)
  BY <1>1, <1>2, <1>3, SeqInduct
<1>6. P \in T
  BY <1>4, <1>5
<1> QED
  BY <1>6 DEF T

-----------------------------------------------------------------------------
(* The pictures of a channel among the requests of a queue.                 *)

\* The list that Pictures flattens.
LEMMA PictureSeq ==
    ASSUME NEW q \in Seq(Request), NEW ch
    PROVE  LET p == [i \in DOMAIN q |-> IF q[i].ch = ch THEN <<q[i].in>> ELSE <<>>] IN
           /\ p \in Seq(Seq(Seq(Frame))) /\ Len(p) = Len(q) /\ DOMAIN p = 1 .. Len(q)
           /\ DOMAIN q = 1 .. Len(q) /\ Len(q) \in Nat
<1> DEFINE p == [i \in DOMAIN q |-> IF q[i].ch = ch THEN <<q[i].in>> ELSE <<>>]
<1>1. Len(q) \in Nat /\ DOMAIN q = 1 .. Len(q) /\ \A i \in 1 .. Len(q) : q[i] \in Request
  BY LenProperties, ElementOfSeq
<1>2. ASSUME NEW i \in 1 .. Len(q) PROVE p[i] \in Seq(Seq(Frame))
  <2>1. q[i].in \in Seq(Frame)
    BY <1>1 DEF Request
  <2>2. p[i] = IF q[i].ch = ch THEN <<q[i].in>> ELSE <<>>
    BY <1>1
  <2> QED BY <2>1, <2>2
<1>3. p \in [1 .. Len(q) -> Seq(Seq(Frame))]
  BY <1>1, <1>2
<1>4. p \in Seq(Seq(Seq(Frame)))
  BY <1>1, <1>3, SeqDef
<1>5. DOMAIN p = 1 .. Len(q)
  BY <1>1
<1> HIDE DEF p
<1>6. Len(p) = Len(q)
  BY <1>1, <1>4, <1>5, LenProperties
<1> QED
  BY <1>1, <1>4, <1>5, <1>6 DEF p

\* The pictures of a channel are sequences of frames ...
LEMMA PicturesType ==
    ASSUME NEW q \in Seq(Request), NEW ch
    PROVE  Pictures(q, ch) \in Seq(Seq(Frame))
BY PictureSeq, FlattenType DEF Pictures

\* ... those of two queues follow each other ...
LEMMA PicturesConcat ==
    ASSUME NEW p \in Seq(Request), NEW q \in Seq(Request), NEW ch
    PROVE  Pictures(p \o q, ch) = Pictures(p, ch) \o Pictures(q, ch)
<1> DEFINE Pieces(s) == [i \in DOMAIN s |-> IF s[i].ch = ch THEN <<s[i].in>> ELSE <<>>]
<1>1. /\ p \o q \in Seq(Request) /\ Len(p \o q) = Len(p) + Len(q)
      /\ \A i \in 1 .. Len(p) + Len(q) : (p \o q)[i] = IF i <= Len(p) THEN p[i] ELSE q[i - Len(p)]
  BY ConcatProperties
<1>2. PICK r \in Seq(Request) : r = p \o q
  BY <1>1
<1>3. /\ Pieces(p) \in Seq(Seq(Seq(Frame))) /\ Len(Pieces(p)) = Len(p) /\ DOMAIN p = 1 .. Len(p)
      /\ Pieces(q) \in Seq(Seq(Seq(Frame))) /\ Len(Pieces(q)) = Len(q) /\ DOMAIN q = 1 .. Len(q)
      /\ Pieces(r) \in Seq(Seq(Seq(Frame))) /\ Len(Pieces(r)) = Len(r) /\ DOMAIN r = 1 .. Len(r)
      /\ Len(p) \in Nat /\ Len(q) \in Nat
  BY PictureSeq
<1>4. ASSUME NEW i \in 1 .. Len(p) + Len(q)
      PROVE  Pieces(r)[i] = IF i <= Len(p) THEN Pieces(p)[i] ELSE Pieces(q)[i - Len(p)]
  <2>1. i \in DOMAIN r
    BY <1>1, <1>2, <1>3
  <2>2. CASE i <= Len(p)
    <3>1. i \in DOMAIN p /\ r[i] = p[i]
      BY <1>1, <1>2, <1>3, <2>2
    <3> QED BY <2>1, <2>2, <3>1
  <2>3. CASE ~(i <= Len(p))
    <3>1. i - Len(p) \in DOMAIN q /\ r[i] = q[i - Len(p)]
      BY <1>1, <1>2, <1>3, <2>3
    <3> QED BY <2>1, <2>3, <3>1
  <2> QED BY <2>2, <2>3
<1>5. Pictures(p, ch) = FlattenSeq(Pieces(p)) /\ Pictures(q, ch) = FlattenSeq(Pieces(q))
      /\ Pictures(p \o q, ch) = FlattenSeq(Pieces(r))
  BY <1>2 DEF Pictures
<1> HIDE DEF Pieces
<1>6. /\ Pieces(p) \o Pieces(q) \in Seq(Seq(Seq(Frame)))
      /\ Len(Pieces(p) \o Pieces(q)) = Len(p) + Len(q)
      /\ \A i \in 1 .. Len(p) + Len(q) : (Pieces(p) \o Pieces(q))[i]
            = IF i <= Len(p) THEN Pieces(p)[i] ELSE Pieces(q)[i - Len(p)]
  <2>1. PICK a \in Seq(Seq(Seq(Frame))), b \in Seq(Seq(Seq(Frame))) : a = Pieces(p) /\ b = Pieces(q)
    BY <1>3
  <2>2. /\ a \o b \in Seq(Seq(Seq(Frame))) /\ Len(a \o b) = Len(a) + Len(b)
        /\ \A i \in 1 .. Len(a) + Len(b) : (a \o b)[i] = IF i <= Len(a) THEN a[i] ELSE b[i - Len(a)]
    BY ConcatProperties
  <2>3. Len(a) = Len(p) /\ Len(b) = Len(q)
    BY <1>3, <2>1
  <2> QED BY <2>1, <2>2, <2>3
<1>7. Pieces(r) = Pieces(p) \o Pieces(q)
  <2>1. PICK a \in Seq(Seq(Seq(Frame))), b \in Seq(Seq(Seq(Frame))) :
           a = Pieces(r) /\ b = Pieces(p) \o Pieces(q)
    BY <1>3, <1>6
  <2>2. Len(a) = Len(b) /\ Len(a) = Len(p) + Len(q)
    BY <1>1, <1>2, <1>3, <1>6, <2>1
  <2>3. \A i \in 1 .. Len(a) : a[i] = b[i]
    BY <1>4, <1>6, <2>1, <2>2
  <2>4. a = b
    BY <2>2, <2>3, SeqEqual
  <2> QED BY <2>1, <2>4
<1>8. FlattenSeq(Pieces(p) \o Pieces(q)) = FlattenSeq(Pieces(p)) \o FlattenSeq(Pieces(q))
  <2>1. PICK a \in Seq(Seq(Seq(Frame))), b \in Seq(Seq(Seq(Frame))) : a = Pieces(p) /\ b = Pieces(q)
    BY <1>3
  <2>2. FlattenSeq(a \o b) = FlattenSeq(a) \o FlattenSeq(b)
    BY FlattenConcat
  <2> QED BY <2>1, <2>2
<1> QED
  BY <1>5, <1>7, <1>8

\* ... they are what requests of the channel hold ...
LEMMA PicturesRange ==
    ASSUME NEW q \in Seq(Request), NEW ch
    PROVE  Range(Pictures(q, ch)) = {r.in : r \in {x \in Range(q) : x.ch = ch}}
<1> DEFINE p == [i \in DOMAIN q |-> IF q[i].ch = ch THEN <<q[i].in>> ELSE <<>>]
<1>1. /\ p \in Seq(Seq(Seq(Frame))) /\ DOMAIN p = DOMAIN q
      /\ Range(Pictures(q, ch)) = UNION {Range(e) : e \in Range(p)}
  BY PictureSeq, FlattenRange DEF Pictures
<1>2. ASSUME NEW x PROVE Range(<<x>>) = {x}
  BY DEF Range
<1>3. Range(<<>>) = {}
  BY EmptyQueue
<1>4. \A i \in DOMAIN q : Range(p[i]) = IF q[i].ch = ch THEN {q[i].in} ELSE {}
  BY <1>2, <1>3
<1>5. Range(p) = {p[i] : i \in DOMAIN q} /\ Range(q) = {q[i] : i \in DOMAIN q}
  BY <1>1 DEF Range
<1> HIDE DEF p
<1>6. ASSUME NEW x \in Range(Pictures(q, ch)) PROVE \E r \in Range(q) : r.ch = ch /\ x = r.in
  <2>1. PICK e \in Range(p) : x \in Range(e)
    BY <1>1
  <2>2. PICK i \in DOMAIN q : e = p[i]
    BY <1>5
  <2> QED BY <1>4, <1>5, <2>1, <2>2
<1>7. ASSUME NEW r \in Range(q), r.ch = ch PROVE r.in \in Range(Pictures(q, ch))
  <2>1. PICK i \in DOMAIN q : r = q[i]
    BY <1>5
  <2>2. r.in \in Range(p[i]) /\ p[i] \in Range(p)
    BY <1>4, <1>5, <1>7, <2>1
  <2> QED BY <1>1, <2>2
<1> QED
  BY <1>6, <1>7

\* ... and there are none where there is no such request.
LEMMA PicturesNone ==
    ASSUME NEW q \in Seq(Request), NEW ch, \A r \in Range(q) : r.ch # ch
    PROVE  Pictures(q, ch) = <<>>
<1>1. Range(Pictures(q, ch)) = {}
  BY PicturesRange
<1>2. Pictures(q, ch) \in Seq(Seq(Frame))
  BY PicturesType
<1>3. \A i \in 1 .. Len(Pictures(q, ch)) : Pictures(q, ch)[i] \in Range(Pictures(q, ch))
  BY <1>2, RangeEquality
<1> QED
  BY <1>1, <1>2, <1>3, EmptySeq, LenProperties

LEMMA PicturesEmpty == ASSUME NEW ch PROVE Pictures(<<>>, ch) = <<>>
BY PicturesNone, EmptySeq, EmptyQueue

-----------------------------------------------------------------------------
(* The inductive invariant.                                                 *)

(* A process task has a batch while the codec works, and what it has is of  *)
(* its channels.  No request is in two queues, or in one twice; each has    *)
(* the frames of one picture, and a request object.                         *)
ReqInv ==
    /\ \A t \in Tsk : /\ taskPc[t] # "codec" => batch[t] = <<>>
                      /\ IsInjective(AtTask(t))
                      /\ \A r \in Range(AtTask(t)) : TskOf[r.ch] = t /\ r \notin Range(doneQue)
    /\ IsInjective(doneQue) /\ IsInjective(fullQue)
    /\ \A r \in Requests : Len(r.in) = Size[r.ch]
    /\ \A r \in Range(fullQue) : Len(r.in) = Size[r.ch]
    /\ IsFiniteSet(Requests) /\ NumReq = reqQue + Cardinality(Requests)

\* A frame is in one place, and in a queue of the link in that of its channel.
Coding(f) == \E r \in Requests : f \in Range(r.in)
FrameKept(f) ==
    LET waits == f \in Range(inQue[ChOf[f]]) IN
    /\ f \in prev \/ f \in freeList \/ f \in Range(prevFull) \/ waits \/ Coding(f)
    /\ f \in prev => f \notin freeList /\ f \notin Range(prevFull) /\ ~waits /\ ~Coding(f)
    /\ f \in freeList => f \notin Range(prevFull) /\ ~waits /\ ~Coding(f)
    /\ f \in Range(prevFull) => ~waits /\ ~Coding(f)
    /\ waits => ~Coding(f)
    /\ \A r, s \in Requests : f \in Range(r.in) /\ f \in Range(s.in) => r = s
FrameInv ==
    /\ IsInjective(prevFull)
    /\ \A c \in Ch : IsInjective(inQue[c]) /\ \A f \in Range(inQue[c]) : ChOf[f] = c
    /\ \A f \in Frame : FrameKept(f)

\* So is a bit buffer.
Filling(b) == \E r \in Requests : r.out = b
IsFull(b) == \E r \in Range(fullQue) : r.out = b
BitKept(b) ==
    /\ b \in emptyQue \/ b \in next \/ IsFull(b) \/ Filling(b)
    /\ b \in emptyQue => b \notin next /\ ~IsFull(b) /\ ~Filling(b)
    /\ b \in next => ~IsFull(b) /\ ~Filling(b)
    /\ IsFull(b) => ~Filling(b)
    /\ \A r, s \in Requests : r.out = b /\ s.out = b => r = s
    /\ \A r, s \in Range(fullQue) : r.out = b /\ s.out = b => r = s
BitInv == \A b \in Bit : BitKept(b)

\* On a channel of fields none of which is skipped, tops and bottoms alternate.
Turn(n) == IF n % 2 = 1 THEN "top" ELSE "bottom"
Alternate(q, due) == /\ \A i \in 1 .. Len(q) : fid[q[i]] = Turn(i)
                     /\ due = Turn(Len(q) + 1)
FieldInv ==
    /\ \A c \in Merge \ Skipping : Alternate(inQue[c], nextFid[c])
    /\ FieldsPaired

EncInv == TypeOK /\ ReqInv /\ FrameInv /\ BitInv /\ FieldInv

-----------------------------------------------------------------------------
(* Queues, cut and put together.                                            *)

\* The community modules have two names for it.
LEMMA ToSetIsRange == ASSUME NEW s PROVE ToSet(s) = Range(s)
BY DEF ToSet, Range

\* The two parts of a queue are queues, and make it up.
LEMMA CutQueue ==
    ASSUME NEW S, NEW q \in Seq(S), NEW n \in 0 .. Len(q)
    PROVE  /\ SubSeq(q, 1, n) \in Seq(S) /\ SubSeq(q, n + 1, Len(q)) \in Seq(S)
           /\ SubSeq(q, 1, n) \o SubSeq(q, n + 1, Len(q)) = q
           /\ Len(SubSeq(q, 1, n)) = n /\ Len(SubSeq(q, n + 1, Len(q))) = Len(q) - n
           /\ \A i \in 1 .. n : SubSeq(q, 1, n)[i] = q[i]
           /\ \A i \in 1 .. Len(q) - n : SubSeq(q, n + 1, Len(q))[i] = q[n + i]
<1>1. Len(q) \in Nat /\ \A i \in 1 .. Len(q) : q[i] \in S
  BY LenProperties, ElementOfSeq
<1>2. /\ SubSeq(q, 1, n) \in Seq(S)
      /\ Len(SubSeq(q, 1, n)) = n
      /\ \A i \in 1 .. n : SubSeq(q, 1, n)[i] = q[i]
  <2>1. /\ SubSeq(q, 1, n) \in Seq(S)
        /\ Len(SubSeq(q, 1, n)) = IF 1 <= n THEN n - 1 + 1 ELSE 0
        /\ \A i \in 1 .. n - 1 + 1 : SubSeq(q, 1, n)[i] = q[1 + i - 1]
    BY <1>1, SubSeqProperties
  <2> QED BY <1>1, <2>1
<1>3. /\ SubSeq(q, n + 1, Len(q)) \in Seq(S)
      /\ Len(SubSeq(q, n + 1, Len(q))) = Len(q) - n
      /\ \A i \in 1 .. Len(q) - n : SubSeq(q, n + 1, Len(q))[i] = q[n + i]
  <2>1. PICK m \in 1 .. Len(q) + 1 : m = n + 1
    BY <1>1
  <2>2. /\ SubSeq(q, m, Len(q)) \in Seq(S)
        /\ Len(SubSeq(q, m, Len(q))) = IF m <= Len(q) THEN Len(q) - m + 1 ELSE 0
        /\ \A i \in 1 .. Len(q) - m + 1 : SubSeq(q, m, Len(q))[i] = q[m + i - 1]
    BY <1>1, SubSeqProperties
  <2>3. \A i \in 1 .. Len(q) - n : i \in 1 .. Len(q) - m + 1 /\ m + i - 1 = n + i
    BY <1>1, <2>1
  <2>4. Len(SubSeq(q, m, Len(q))) = Len(q) - n
    BY <1>1, <2>1, <2>2
  <2> QED BY <2>1, <2>2, <2>3, <2>4
<1>4. SubSeq(q, 1, n) \o SubSeq(q, n + 1, Len(q)) = q
  <2>1. 1 \in 1 .. Len(q) + 1 /\ n \in 1 - 1 .. Len(q) /\ Len(q) \in n .. Len(q)
    BY <1>1
  <2>2. SubSeq(q, 1, n) \o SubSeq(q, n + 1, Len(q)) = SubSeq(q, 1, Len(q))
    BY <2>1, ConcatAdjacentSubSeq
  <2> QED BY <2>2, SubSeqFull
<1> QED
  BY <1>2, <1>3, <1>4

\* Two queues without repetitions between them have none in either.
LEMMA ConcatInjective ==
    ASSUME NEW S, NEW p \in Seq(S), NEW q \in Seq(S), IsInjective(p \o q)
    PROVE  /\ IsInjective(p) /\ IsInjective(q) /\ Range(p) \cap Range(q) = {}
           /\ Range(p \o q) = Range(p) \cup Range(q)
<1>1. /\ p \o q \in Seq(S) /\ Len(p \o q) = Len(p) + Len(q)
      /\ \A i \in 1 .. Len(p) + Len(q) : (p \o q)[i] = IF i <= Len(p) THEN p[i] ELSE q[i - Len(p)]
  BY ConcatProperties
<1>2. /\ Len(p) \in Nat /\ Len(q) \in Nat /\ DOMAIN p = 1 .. Len(p) /\ DOMAIN q = 1 .. Len(q)
      /\ DOMAIN (p \o q) = 1 .. Len(p) + Len(q)
  BY <1>1, LenProperties
<1>3. PICK r \in Seq(S) : r = p \o q
  BY <1>1
<1>4. \A i, j \in 1 .. Len(p) + Len(q) : r[i] = r[j] => i = j
  BY <1>2, <1>3 DEF IsInjective
<1>5. ASSUME NEW i \in 1 .. Len(p) PROVE i \in 1 .. Len(p) + Len(q) /\ r[i] = p[i]
  BY <1>1, <1>2, <1>3
<1>6. ASSUME NEW i \in 1 .. Len(q)
      PROVE  Len(p) + i \in 1 .. Len(p) + Len(q) /\ r[Len(p) + i] = q[i]
  <2>1. PICK k \in 1 .. Len(p) + Len(q) : k = Len(p) + i
    BY <1>2
  <2>2. ~(k <= Len(p)) /\ k - Len(p) = i
    BY <1>2, <2>1
  <2>3. r[k] = q[i]
    BY <1>1, <1>3, <2>2
  <2> QED BY <2>1, <2>3
<1>7. IsInjective(p)
  BY <1>2, <1>4, <1>5 DEF IsInjective
<1>8. IsInjective(q)
  <2> SUFFICES ASSUME NEW i \in 1 .. Len(q), NEW j \in 1 .. Len(q), q[i] = q[j] PROVE i = j
    BY <1>2 DEF IsInjective
  <2>1. Len(p) + i = Len(p) + j
    BY <1>4, <1>6
  <2> QED BY <1>2, <2>1
<1>9. ASSUME NEW x \in Range(p), x \in Range(q) PROVE FALSE
  <2>1. PICK i \in 1 .. Len(p) : x = p[i]
    BY <1>2 DEF Range
  <2>2. PICK j \in 1 .. Len(q) : x = q[j]
    BY <1>2, <1>9 DEF Range
  <2>3. i = Len(p) + j
    BY <1>4, <1>5, <1>6, <2>1, <2>2
  <2> QED BY <1>2, <2>3
<1> QED
  BY <1>7, <1>8, <1>9, QueueConcat

\* A queue cut in two.
LEMMA CutInjective ==
    ASSUME NEW S, NEW q \in Seq(S), NEW n \in 0 .. Len(q), IsInjective(q)
    PROVE  /\ IsInjective(SubSeq(q, 1, n)) /\ IsInjective(SubSeq(q, n + 1, Len(q)))
           /\ Range(SubSeq(q, 1, n)) \cap Range(SubSeq(q, n + 1, Len(q))) = {}
           /\ Range(q) = Range(SubSeq(q, 1, n)) \cup Range(SubSeq(q, n + 1, Len(q)))
<1>1. PICK p \in Seq(S), r \in Seq(S) :
         p = SubSeq(q, 1, n) /\ r = SubSeq(q, n + 1, Len(q)) /\ p \o r = q
  <2>1. /\ SubSeq(q, 1, n) \in Seq(S) /\ SubSeq(q, n + 1, Len(q)) \in Seq(S)
        /\ SubSeq(q, 1, n) \o SubSeq(q, n + 1, Len(q)) = q
    BY CutQueue
  <2> QED BY <2>1
<1>2. /\ IsInjective(p) /\ IsInjective(r) /\ Range(p) \cap Range(r) = {}
      /\ Range(p \o r) = Range(p) \cup Range(r)
  <2>1. IsInjective(p \o r)
    BY <1>1
  <2> QED BY <2>1, ConcatInjective
<1> QED
  BY <1>1, <1>2

\* The set of a queue without repetitions has as many members as the queue.
LEMMA InjectiveCount ==
    ASSUME NEW S, NEW q \in Seq(S), IsInjective(q)
    PROVE  IsFiniteSet(Range(q)) /\ Cardinality(Range(q)) = Len(q)
<1> DEFINE T == {s \in Seq(S) : IsInjective(s) =>
                                IsFiniteSet(Range(s)) /\ Cardinality(Range(s)) = Len(s)}
<1>1. <<>> \in T
  BY EmptySeq, EmptyQueue, FS_EmptySet
<1>2. ASSUME NEW s \in T, NEW e \in S PROVE Append(s, e) \in T
  <2>1. /\ s \in Seq(S) /\ Append(s, e) \in Seq(S) /\ Append(s, e) = s \o <<e>> /\ <<e>> \in Seq(S)
        /\ Len(Append(s, e)) = Len(s) + 1 /\ Range(Append(s, e)) = Range(s) \cup {e}
    BY QueueAppend, AppendIsConcat
  <2> SUFFICES ASSUME IsInjective(Append(s, e))
               PROVE  IsFiniteSet(Range(Append(s, e))) /\ Cardinality(Range(Append(s, e))) = Len(s) + 1
    BY <2>1
  <2>2. Range(<<e>>) = {e}
    BY DEF Range
  <2>3. IsInjective(s) /\ e \notin Range(s)
    <3>1. PICK r \in Seq(S), o \in Seq(S) : r = s /\ o = <<e>>
      BY <2>1
    <3>2. IsInjective(r \o o)
      BY <2>1, <3>1
    <3> HIDE DEF T
    <3>3. IsInjective(r) /\ Range(r) \cap Range(o) = {}
      BY <3>2, ConcatInjective
    <3> QED BY <2>2, <3>1, <3>3
  <2>4. IsFiniteSet(Range(s)) /\ Cardinality(Range(s)) = Len(s)
    BY <2>3
  <2>5. IsFiniteSet(Range(s) \cup {e}) /\ Cardinality(Range(s) \cup {e}) = Cardinality(Range(s)) + 1
    BY <2>3, <2>4, FS_AddElement
  <2> QED BY <2>1, <2>4, <2>5
<1>3. T \in SUBSET Seq(S)
  OBVIOUS
<1> HIDE DEF T
<1>4. T = Seq(S)
  BY <1>1, <1>2, <1>3, SeqInduct
<1> QED
  BY <1>4 DEF T

\* The queue of one item.
LEMMA SingletonRange == ASSUME NEW e PROVE Range(<<e>>) = {e} /\ IsInjective(<<e>>)
BY DEF Range, IsInjective

-----------------------------------------------------------------------------
(* What sorting the frames of the previous link makes of them.              *)

Start == [due |-> nextFid, in |-> inQue, back |-> {}]
Sorts(s, skip, n) ==
    s = [i \in 0 .. n |-> IF i = 0 THEN Start ELSE Sorted(s[i - 1], prevFull[i], skip)]
Sorting(skip) == CHOOSE s : Sorts(s, skip, Len(prevFull))

\* The recursive function of SortAll exists,
LEMMA SortingExists == ASSUME NEW skip PROVE \A n \in Nat : \E s : Sorts(s, skip, n)
<1> DEFINE N == {n \in Nat : \E s : Sorts(s, skip, n)}
<1>1. 0 \in N
  <2> DEFINE g == [i \in 0 .. 0 |-> Start]
             h == [i \in 0 .. 0 |-> IF i = 0 THEN Start ELSE Sorted(g[i - 1], prevFull[i], skip)]
  <2>1. \A i \in 0 .. 0 : g[i] = h[i]
    OBVIOUS
  <2>2. g = [i \in 0 .. 0 |-> g[i]] /\ h = [i \in 0 .. 0 |-> h[i]]
    OBVIOUS
  <2> HIDE DEF g, h
  <2>3. g = h
    BY <2>1, <2>2
  <2>4. Sorts(g, skip, 0)
    BY <2>3 DEF h, Sorts
  <2> QED BY <2>4
<1>2. ASSUME NEW n \in N PROVE n + 1 \in N
  <2>1. n \in Nat /\ \E s : Sorts(s, skip, n)
    OBVIOUS
  <2>2. PICK s : Sorts(s, skip, n)
    BY <2>1
  <2> DEFINE g == [i \in 0 .. n + 1 |-> IF i <= n THEN s[i] ELSE Sorted(s[i - 1], prevFull[i], skip)]
  <2>3. ASSUME NEW i \in 0 .. n + 1
        PROVE  g[i] = IF i = 0 THEN Start ELSE Sorted(g[i - 1], prevFull[i], skip)
    <3>1. CASE i <= n
      <4>1. i \in 0 .. n /\ (i # 0 => i - 1 \in 0 .. n)
        BY <2>1, <3>1
      <4>2. s[i] = IF i = 0 THEN Start ELSE Sorted(s[i - 1], prevFull[i], skip)
        BY <2>2, <4>1 DEF Sorts
      <4>3. g[i] = s[i] /\ (i # 0 => g[i - 1] = s[i - 1])
        BY <2>1, <4>1
      <4> QED BY <4>2, <4>3
    <3>2. CASE i = n + 1
      <4>1. i # 0 /\ i - 1 \in 0 .. n /\ ~(i <= n)
        BY <2>1, <3>2
      <4>2. g[i - 1] = s[i - 1]
        BY <2>1, <4>1
      <4>3. g[i] = Sorted(s[i - 1], prevFull[i], skip)
        BY <2>1, <4>1
      <4> QED BY <4>1, <4>2, <4>3
    <3> QED BY <2>1, <3>1, <3>2
  <2>4. Sorts(g, skip, n + 1)
    <3> DEFINE h == [i \in 0 .. n + 1 |-> IF i = 0 THEN Start ELSE Sorted(g[i - 1], prevFull[i], skip)]
    <3>1. \A i \in 0 .. n + 1 : g[i] = h[i]
      BY <2>3
    <3>2. DOMAIN g = 0 .. n + 1 /\ DOMAIN h = 0 .. n + 1
      OBVIOUS
    <3>3. g = [i \in 0 .. n + 1 |-> g[i]] /\ h = [i \in 0 .. n + 1 |-> h[i]]
      BY <3>2
    <3> HIDE DEF g, h
    <3>4. g = h
      BY <3>1, <3>3
    <3> QED BY <3>4 DEF h, Sorts
  <2> HIDE DEF g
  <2> QED BY <2>1, <2>4
<1>3. N \in SUBSET Nat
  OBVIOUS
<1> HIDE DEF N
<1>4. N = Nat
  BY <1>1, <1>2, <1>3, Induct
<1> QED
  BY <1>4 DEF N

\* ... and its values follow its equation.
LEMMA SortingSteps ==
    ASSUME NEW skip, Len(prevFull) \in Nat
    PROVE  /\ Sorting(skip)[0] = Start
           /\ \A i \in 1 .. Len(prevFull) :
                 Sorting(skip)[i] = Sorted(Sorting(skip)[i - 1], prevFull[i], skip)
           /\ SortAll(skip) = Sorting(skip)[Len(prevFull)]
<1>1. Sorts(Sorting(skip), skip, Len(prevFull))
  BY SortingExists DEF Sorting
<1>2. SortAll(skip) = Sorting(skip)[Len(prevFull)]
  BY DEF SortAll, Sorting, Sorts, Start
<1>3. \A i \in 0 .. Len(prevFull) :
         Sorting(skip)[i] = IF i = 0 THEN Start ELSE Sorted(Sorting(skip)[i - 1], prevFull[i], skip)
  BY <1>1 DEF Sorts
<1>4. 0 \in 0 .. Len(prevFull) /\ \A i \in 1 .. Len(prevFull) : i \in 0 .. Len(prevFull) /\ i # 0
  OBVIOUS
<1> QED
  BY <1>2, <1>3, <1>4

\* The first n frames are sorted into a.
Before(n) == {prevFull[i] : i \in 1 .. n}
SortedTo(a, skip, n) ==
    /\ a.due \in [Merge -> {"top", "bottom"}] /\ a.in \in [Ch -> Seq(Frame)]
    /\ a.back \subseteq Before(n)
    /\ \A c \in Ch :
          /\ IsInjective(a.in[c])
          /\ \A f \in Frame : f \in Range(a.in[c]) <=>
                \/ f \in Range(inQue[c])
                \/ ChOf[f] = c /\ f \in Before(n) /\ f \notin a.back
          /\ Len(a.in[c]) >= Len(inQue[c])
          /\ \A i \in 1 .. Len(inQue[c]) : a.in[c][i] = inQue[c][i]
          /\ \A i \in Len(inQue[c]) + 1 .. Len(a.in[c]) : a.in[c][i] \in Before(n)
    /\ \A c \in Merge \ Skipping : Alternate(a.in[c], a.due[c])

\* Fields take turns.
LEMMA Turns == ASSUME NEW n \in Nat PROVE Turn(n) \in {"top", "bottom"} /\ Turn(n + 1) = Other(Turn(n))
<1>1. n % 2 = 1 => (n + 1) % 2 # 1
  OBVIOUS
<1>2. n % 2 # 1 => (n + 1) % 2 = 1
  OBVIOUS
<1> QED
  BY <1>1, <1>2 DEF Turn, Other

\* One more frame is sorted.
LEMMA SortStep ==
    ASSUME EncInv, NEW n \in 1 .. Len(prevFull), NEW a,
           NEW skip, skip \subseteq {f \in ToSet(prevFull) : ChOf[f] \in Skipping},
           SortedTo(a, skip, n - 1)
    PROVE  SortedTo(Sorted(a, prevFull[n], skip), skip, n)
<1> DEFINE f == prevFull[n]
           ch == ChOf[f]
           due == ch \notin Merge \/ a.due[ch] = fid[f]
           in == due /\ f \notin skip
           b == Sorted(a, f, skip)
<1>1. /\ prevFull \in Seq(Frame) /\ Len(prevFull) \in Nat /\ DOMAIN prevFull = 1 .. Len(prevFull)
      /\ inQue \in [Ch -> Seq(Frame)] /\ fid \in [Frame -> Fid] /\ f \in Frame /\ ch \in Ch
      /\ Merge \subseteq Ch /\ IsInjective(prevFull) /\ f \in Range(prevFull)
      /\ f \notin Range(inQue[ch])
  <2>1. /\ prevFull \in Seq(Frame) /\ Len(prevFull) \in Nat /\ DOMAIN prevFull = 1 .. Len(prevFull)
        /\ inQue \in [Ch -> Seq(Frame)] /\ fid \in [Frame -> Fid] /\ f \in Frame
    BY LenProperties, ElementOfSeq DEF EncInv, TypeOK
  <2>2. ch \in Ch /\ Merge \subseteq Ch
    BY <2>1, EncChannelAssumption
  <2>3. IsInjective(prevFull) /\ f \in Range(prevFull)
    BY <2>1 DEF EncInv, FrameInv, Range
  <2>4. f \notin Range(inQue[ch])
    BY <2>1, <2>3 DEF EncInv, FrameInv, FrameKept
  <2> QED BY <2>1, <2>2, <2>3, <2>4
<1>2. /\ b.due = IF due /\ ch \in Merge THEN [a.due EXCEPT ![ch] = Other(@)] ELSE a.due
      /\ b.in = IF in THEN [a.in EXCEPT ![ch] = Append(@, f)] ELSE a.in
      /\ b.back = IF in THEN a.back ELSE a.back \cup {f}
  BY DEF Sorted
<1>3. Before(n) = Before(n - 1) \cup {f} /\ f \notin Before(n - 1)
  <2>1. \A i \in 1 .. n : i \in 1 .. n - 1 \/ i = n
    OBVIOUS
  <2>2. \A i \in 1 .. n - 1 : i \in 1 .. n /\ i \in DOMAIN prevFull /\ i # n
    BY <1>1
  <2>3. f \notin Before(n - 1)
    BY <1>1, <2>2 DEF Before, IsInjective
  <2> QED BY <2>1, <2>2, <2>3 DEF Before
<1>4. /\ a.due \in [Merge -> {"top", "bottom"}] /\ a.in \in [Ch -> Seq(Frame)]
      /\ a.back \subseteq Before(n - 1) /\ f \notin a.back
      /\ f \notin Range(a.in[ch])
  BY <1>1, <1>3 DEF SortedTo
<1> HIDE DEF b, in, due, f, ch
<1>5. b.due \in [Merge -> {"top", "bottom"}] /\ b.in \in [Ch -> Seq(Frame)] /\ b.back \subseteq Before(n)
  <2>1. b.due \in [Merge -> {"top", "bottom"}]
    BY <1>2, <1>4 DEF Other
  <2>2. b.in \in [Ch -> Seq(Frame)]
    <3>1. Append(a.in[ch], f) \in Seq(Frame)
      BY <1>1, <1>4, AppendProperties
    <3> QED BY <1>2, <1>4, <3>1
  <2> QED BY <1>2, <1>3, <1>4, <2>1, <2>2
<1>6. ASSUME NEW c \in Ch
      PROVE  /\ b.in[c] = IF in /\ c = ch THEN Append(a.in[c], f) ELSE a.in[c]
             /\ a.in[c] \in Seq(Frame) /\ inQue[c] \in Seq(Frame)
             /\ Len(a.in[c]) \in Nat /\ Len(inQue[c]) \in Nat
             /\ Len(Append(a.in[c], f)) = Len(a.in[c]) + 1
             /\ Append(a.in[c], f)[Len(a.in[c]) + 1] = f
             /\ \A i \in 1 .. Len(a.in[c]) : Append(a.in[c], f)[i] = a.in[c][i]
             /\ Range(Append(a.in[c], f)) = Range(a.in[c]) \cup {f}
  <2>1. b.in[c] = IF in /\ c = ch THEN Append(a.in[c], f) ELSE a.in[c]
    BY <1>2, <1>4
  <2>2. a.in[c] \in Seq(Frame) /\ inQue[c] \in Seq(Frame)
    BY <1>1, <1>4
  <2>3. PICK q \in Seq(Frame) : q = a.in[c]
    BY <2>2
  <2>4. /\ Len(q) \in Nat /\ Len(inQue[c]) \in Nat
        /\ Len(Append(q, f)) = Len(q) + 1
        /\ Append(q, f)[Len(q) + 1] = f
        /\ \A i \in 1 .. Len(q) : Append(q, f)[i] = q[i]
        /\ Range(Append(q, f)) = Range(q) \cup {f}
    BY <1>1, <2>2, AppendProperties, LenProperties, QueueAppend
  <2> QED BY <2>1, <2>2, <2>3, <2>4
<1>7. ASSUME NEW c \in Ch PROVE IsInjective(b.in[c])
  <2>1. IsInjective(a.in[c])
    BY DEF SortedTo
  <2>2. IsInjective(Append(a.in[ch], f))
    BY <1>1, <1>4, QueueAppend DEF SortedTo
  <2> QED BY <1>6, <2>1, <2>2
<1>8. ASSUME NEW c \in Ch, NEW g \in Frame
      PROVE  g \in Range(b.in[c]) <=> \/ g \in Range(inQue[c])
                                      \/ ChOf[g] = c /\ g \in Before(n) /\ g \notin b.back
  <2>1. g \in Range(a.in[c]) <=> \/ g \in Range(inQue[c])
                                 \/ ChOf[g] = c /\ g \in Before(n - 1) /\ g \notin a.back
    BY DEF SortedTo
  <2>2. CASE g # f
    <3>1. g \in Range(b.in[c]) <=> g \in Range(a.in[c])
      BY <1>6, <2>2
    <3> QED BY <1>2, <1>3, <2>1, <2>2, <3>1
  <2>3. CASE g = f
    <3>1. g \in Range(b.in[c]) <=> (in /\ c = ch) \/ g \in Range(a.in[c])
      BY <1>6, <2>3
    <3>2. g \notin Before(n - 1) /\ g \in Before(n) /\ (g \in b.back <=> ~in)
      BY <1>2, <1>3, <1>4, <2>3
    <3>3. ChOf[g] = ch
      BY <2>3 DEF ch
    <3> QED BY <2>1, <3>1, <3>2, <3>3
  <2> QED BY <2>2, <2>3
<1>9. ASSUME NEW c \in Ch
      PROVE  /\ Len(b.in[c]) >= Len(inQue[c])
             /\ \A i \in 1 .. Len(inQue[c]) : b.in[c][i] = inQue[c][i]
             /\ \A i \in Len(inQue[c]) + 1 .. Len(b.in[c]) : b.in[c][i] \in Before(n)
  <2>1. /\ Len(a.in[c]) >= Len(inQue[c])
        /\ \A i \in 1 .. Len(inQue[c]) : a.in[c][i] = inQue[c][i]
        /\ \A i \in Len(inQue[c]) + 1 .. Len(a.in[c]) : a.in[c][i] \in Before(n)
    BY <1>3 DEF SortedTo
  <2>2. CASE ~(in /\ c = ch)
    BY <1>6, <2>1, <2>2
  <2>3. CASE in /\ c = ch
    <3>1. PICK q \in Seq(Frame) : q = b.in[c] /\ q = Append(a.in[c], f)
      BY <1>5, <1>6, <2>3
    <3>2. Len(q) = Len(a.in[c]) + 1 /\ \A i \in 1 .. Len(a.in[c]) : q[i] = a.in[c][i]
      BY <1>6, <3>1
    <3>3. q[Len(a.in[c]) + 1] = f
      BY <1>6, <3>1
    <3>4. Len(q) >= Len(inQue[c])
      BY <1>6, <2>1, <3>2
    <3>5. ASSUME NEW i \in 1 .. Len(inQue[c]) PROVE q[i] = inQue[c][i]
      <4>1. i \in 1 .. Len(a.in[c])
        BY <1>6, <2>1
      <4> QED BY <2>1, <3>2, <4>1
    <3>6. ASSUME NEW i \in Len(inQue[c]) + 1 .. Len(q) PROVE q[i] \in Before(n)
      <4>1. CASE i = Len(a.in[c]) + 1
        BY <1>3, <3>3, <4>1
      <4>2. CASE i # Len(a.in[c]) + 1
        <5>1. i \in 1 .. Len(a.in[c]) /\ i \in Len(inQue[c]) + 1 .. Len(a.in[c])
          BY <1>6, <3>2, <4>2
        <5> QED BY <2>1, <3>2, <5>1
      <4> QED BY <4>1, <4>2
    <3> QED BY <3>1, <3>4, <3>5, <3>6
  <2> QED BY <2>2, <2>3
<1>10. ASSUME NEW c \in Merge \ Skipping PROVE Alternate(b.in[c], b.due[c])
  <2>1. c \in Ch /\ Alternate(a.in[c], a.due[c])
    BY <1>1 DEF SortedTo
  <2>2. CASE ~(due /\ c = ch)
    <3>1. b.in[c] = a.in[c] /\ b.due[c] = a.due[c]
      BY <1>2, <1>4, <1>6, <2>1, <2>2 DEF in
    <3> QED BY <2>1, <3>1
  <2>3. CASE due /\ c = ch
    <3>1. f \notin skip
      BY <2>3 DEF ch
    <3>2. in /\ ch \in Merge /\ a.due[ch] = fid[f]
      BY <2>3, <3>1 DEF in, due
    <3>3. b.due[c] = Other(a.due[c]) /\ b.in[c] = Append(a.in[c], f)
      BY <1>2, <1>4, <1>6, <2>1, <2>3, <3>2
    <3>4. PICK m \in Nat : m = Len(a.in[c])
      BY <1>6, <2>1
    <3>5. a.due[c] = Turn(m + 1) /\ \A i \in 1 .. m : fid[a.in[c][i]] = Turn(i)
      BY <2>1, <3>4 DEF Alternate
    <3>6. Turn(m + 1 + 1) = Other(Turn(m + 1))
      BY Turns
    <3>7. PICK q : q = b.in[c]
      OBVIOUS
    <3>8. Len(q) = m + 1 /\ q[m + 1] = f /\ \A i \in 1 .. m : q[i] = a.in[c][i]
      BY <1>6, <2>1, <3>3, <3>4, <3>7
    <3>9. ASSUME NEW i \in 1 .. m + 1 PROVE fid[q[i]] = Turn(i)
      <4>1. CASE i = m + 1
        BY <2>3, <3>2, <3>5, <3>8, <4>1
      <4>2. CASE i # m + 1
        <5>1. i \in 1 .. m
          BY <4>2
        <5> QED BY <3>5, <3>8, <5>1
      <4> QED BY <4>1, <4>2
    <3> QED BY <3>3, <3>5, <3>6, <3>7, <3>8, <3>9 DEF Alternate
  <2> QED BY <2>2, <2>3
<1>11. b = Sorted(a, prevFull[n], skip)
  BY DEF b, f
<1> QED
  BY <1>5, <1>7, <1>8, <1>9, <1>10, <1>11 DEF SortedTo

\* So all are.
LEMMA SortedAll ==
    ASSUME EncInv, NEW skip, skip \subseteq {f \in ToSet(prevFull) : ChOf[f] \in Skipping}
    PROVE  /\ SortedTo(SortAll(skip), skip, Len(prevFull))
           /\ Before(Len(prevFull)) = Range(prevFull)
<1>1. /\ Len(prevFull) \in Nat /\ DOMAIN prevFull = 1 .. Len(prevFull)
      /\ nextFid \in [Merge -> {"top", "bottom"}] /\ inQue \in [Ch -> Seq(Frame)]
      /\ \A c \in Ch : IsInjective(inQue[c])
      /\ \A c \in Merge \ Skipping : Alternate(inQue[c], nextFid[c])
  BY LenProperties DEF EncInv, TypeOK, FrameInv, FieldInv
<1>2. Before(Len(prevFull)) = Range(prevFull)
  BY <1>1 DEF Before, Range
<1> DEFINE S == Sorting(skip)
           N == {n \in Nat : n <= Len(prevFull) => SortedTo(S[n], skip, n)}
<1>3. /\ S[0] = Start
      /\ \A i \in 1 .. Len(prevFull) : S[i] = Sorted(S[i - 1], prevFull[i], skip)
      /\ SortAll(skip) = S[Len(prevFull)]
  BY <1>1, SortingSteps
<1> HIDE DEF S
<1>4. 0 \in N
  <2>1. Before(0) = {}
    BY DEF Before
  <2>2. Start.due = nextFid /\ Start.in = inQue /\ Start.back = {}
    BY DEF Start
  <2>3. \A c \in Ch : Len(inQue[c]) \in Nat
    BY <1>1, LenProperties
  <2>4. SortedTo(Start, skip, 0)
    BY <1>1, <2>1, <2>2, <2>3 DEF SortedTo
  <2> QED BY <1>3, <2>4
<1>5. ASSUME NEW n \in N PROVE n + 1 \in N
  <2> SUFFICES ASSUME n + 1 <= Len(prevFull) PROVE SortedTo(S[n + 1], skip, n + 1)
    OBVIOUS
  <2>1. PICK m \in 1 .. Len(prevFull) : m = n + 1
    BY <1>1
  <2>2. m - 1 = n /\ n <= Len(prevFull)
    BY <1>1, <2>1
  <2>3. SortedTo(S[m - 1], skip, m - 1)
    BY <2>2
  <2>4. SortedTo(Sorted(S[m - 1], prevFull[m], skip), skip, m)
    BY <2>3, SortStep
  <2> QED BY <1>3, <2>1, <2>4
<1>6. N \in SUBSET Nat
  OBVIOUS
<1> HIDE DEF N
<1>7. N = Nat
  BY <1>4, <1>5, <1>6, Induct
<1>8. SortedTo(S[Len(prevFull)], skip, Len(prevFull))
  <2>1. Len(prevFull) \in N
    BY <1>1, <1>7
  <2> QED BY <1>1, <2>1 DEF N
<1> QED
  BY <1>2, <1>3, <1>8

-----------------------------------------------------------------------------
(* What the actions do to the queues.                                       *)

\* The queues of an unprimed state.
LEMMA Queues ==
    ASSUME TypeOK
    PROVE  /\ prevFull \in Seq(Frame) /\ fullQue \in Seq(Request) /\ doneQue \in Seq(Request)
           /\ \A t \in Tsk : /\ processQue[t] \in Seq(Request) /\ batch[t] \in Seq(Request)
                             /\ AtTask(t) \in Seq(Request)
                             /\ Range(AtTask(t)) = Range(batch[t]) \cup Range(processQue[t])
           /\ \A c \in Ch : inQue[c] \in Seq(Frame) /\ Len(inQue[c]) \in Nat
           /\ Requests \subseteq Request /\ Range(fullQue) \subseteq Request
           /\ \A r \in Request : Range(r.in) \subseteq Frame
           /\ \A r \in Requests : \/ r \in Range(doneQue)
                                  \/ \E t \in Tsk : r \in Range(AtTask(t))
<1>1. /\ prevFull \in Seq(Frame) /\ fullQue \in Seq(Request) /\ doneQue \in Seq(Request)
      /\ \A t \in Tsk : processQue[t] \in Seq(Request) /\ batch[t] \in Seq(Request)
      /\ \A c \in Ch : inQue[c] \in Seq(Frame)
  BY DEF TypeOK
<1>2. ASSUME NEW t \in Tsk
      PROVE  /\ AtTask(t) \in Seq(Request)
             /\ Range(AtTask(t)) = Range(batch[t]) \cup Range(processQue[t])
  BY <1>1, QueueConcat DEF AtTask
<1>3. ASSUME NEW r \in Request PROVE Range(r.in) \subseteq Frame
  <2>1. r.in \in Seq(Frame)
    BY DEF Request
  <2> QED BY <2>1, RangeOfSeq
<1>4. Range(doneQue) \subseteq Request /\ Range(fullQue) \subseteq Request
  BY <1>1, RangeOfSeq
<1>5. \A t \in Tsk : Range(AtTask(t)) \subseteq Request
  BY <1>2, RangeOfSeq
<1>6. Requests = Range(doneQue) \cup UNION {Range(AtTask(t)) : t \in Tsk}
  BY ToSetIsRange DEF Requests
<1>7. \A c \in Ch : Len(inQue[c]) \in Nat
  BY <1>1, LenProperties
<1>8. /\ Requests \subseteq Request
      /\ \A r \in Requests : r \in Range(doneQue) \/ \E t \in Tsk : r \in Range(AtTask(t))
  <2>1. ASSUME NEW r \in Requests
        PROVE  r \in Range(doneQue) \/ \E t \in Tsk : r \in Range(AtTask(t))
    BY <1>6
  <2>2. ASSUME NEW r \in Requests PROVE r \in Request
    BY <1>4, <1>5, <2>1
  <2> QED BY <2>1, <2>2
<1>9. \A t \in Tsk : /\ processQue[t] \in Seq(Request) /\ batch[t] \in Seq(Request)
                     /\ AtTask(t) \in Seq(Request)
                     /\ Range(AtTask(t)) = Range(batch[t]) \cup Range(processQue[t])
  BY <1>1, <1>2
<1> QED
  BY <1>1, <1>3, <1>4, <1>7, <1>8, <1>9

\* The requests in use, before and after a step.
LEMMA RequestsAre ==
    /\ Requests = Range(doneQue) \cup UNION {Range(AtTask(t)) : t \in Tsk}
    /\ Requests' = Range(doneQue') \cup UNION {Range(AtTask(t)') : t \in Tsk}
BY ToSetIsRange DEF Requests

\* Nothing happens to requests.
LEMMA RequestsStay ==
    ASSUME UNCHANGED <<processQue, doneQue, batch>>
    PROVE  Requests' = Requests /\ \A t : AtTask(t)' = AtTask(t)
BY DEF Requests, AtTask

\* What the end of a turn does.
LEMMA AdvanceKeeps ==
    ASSUME TypeOK, Trying, NEW turns \in 0 .. 2,
           NEW submitted \in BOOLEAN, NEW out \in SUBSET Frame, Advance(turns, submitted, out)
    PROVE  /\ tries' \in 0 .. 1 /\ idx' \in Ch /\ linkPc' \in {"idle", "submit"}
           /\ prev' \subseteq Frame /\ freeList' \subseteq Frame
           /\ \/ prev' = prev /\ freeList' = freeList \cup out
              \/ prev' = prev \cup freeList \cup out /\ freeList' = {}
<1>1. PerCall[idx] \in {1, 2} /\ idx \in 0 .. NumCh - 1 /\ NumCh \in Nat \ {0}
  BY EncChannelAssumption DEF TypeOK, Ch
<1>2. idx' \in Ch
  <2>1. (idx + 1) % NumCh \in 0 .. NumCh - 1
    BY <1>1
  <2> QED BY <1>1, <2>1 DEF Advance, Ch
<1>3. tries' \in 0 .. 1
  BY <1>1 DEF Advance
<1> QED
  BY <1>2, <1>3 DEF Advance, TypeOK

-----------------------------------------------------------------------------
(* The parts of the invariant, when what they are about does not change.    *)

\* A step that leaves alone what a part of the invariant is about.
LEMMA ReqStays ==
    ASSUME ReqInv, UNCHANGED <<taskPc, batch, processQue, doneQue, fullQue, reqQue>>
    PROVE  ReqInv'
<1>1. Requests' = Requests /\ \A t : AtTask(t)' = AtTask(t)
  BY RequestsStay
<1> QED
  BY <1>1 DEF ReqInv

LEMMA FrameStays ==
    ASSUME FrameInv, Requests' = Requests, UNCHANGED <<prev, freeList, prevFull, inQue>>
    PROVE  FrameInv'
BY DEF FrameInv, FrameKept, Coding

LEMMA BitStays ==
    ASSUME BitInv, Requests' = Requests, UNCHANGED <<emptyQue, next, fullQue>>
    PROVE  BitInv'
BY DEF BitInv, BitKept, Filling, IsFull

LEMMA FieldStays ==
    ASSUME FieldInv, Requests' \subseteq Requests, UNCHANGED <<fid, nextFid, inQue>>
    PROVE  FieldInv'
BY DEF FieldInv, FieldsPaired, Alternate

\* The invariant holds at first; one lemma for each step that keeps it.
LEMMA EncInit == Init => EncInv
<1> SUFFICES ASSUME Init PROVE EncInv
  OBVIOUS
<1>1. /\ Range(<<>>) = {} /\ IsInjective(<<>>) /\ ToSet(<<>>) = {}
      /\ <<>> \in Seq(Frame) /\ <<>> \in Seq(Request) /\ <<>> \in Seq(Cmd) /\ Len(<<>>) = 0
  BY EmptyQueue, EmptySeq, ToSetIsRange
<1>2. /\ NumCh \in Nat \ {0} /\ NumReq \in Nat /\ QueMax \in Nat /\ Merge \subseteq Ch
      /\ ChOf \in [Frame -> Ch]
  BY EncChannelAssumption, EncBufferAssumption
<1>3. TypeOK
  <2>1. \A f \in Frame : (CHOOSE p \in Fids[f] : TRUE) \in Fid
    BY EncChannelAssumption DEF Fid
  <2>2. 0 \in Ch
    BY <1>2 DEF Ch
  <2> QED BY <1>1, <1>2, <2>1, <2>2 DEF Init, TypeOK
<1>4. \A t \in Tsk : AtTask(t) = <<>>
  BY ConcatEmptySeq, <1>1 DEF AtTask, Init
<1>5. Requests = {}
  BY <1>1, <1>4, RequestsAre DEF Init
<1>6. ReqInv
  BY <1>1, <1>2, <1>4, <1>5, FS_EmptySet DEF ReqInv, Init
<1>7. FrameInv
  <2>1. \A c \in Ch : inQue[c] = <<>>
    BY DEF Init
  <2>2. \A f \in Frame : ~Coding(f) /\ Range(inQue[ChOf[f]]) = {}
    BY <1>1, <1>2, <1>5, <2>1 DEF Coding
  <2> QED BY <1>1, <1>5, <2>1, <2>2 DEF FrameInv, FrameKept, Init
<1>8. BitInv
  BY <1>1, <1>5 DEF BitInv, BitKept, Filling, IsFull, Init
<1>9. FieldInv
  <2>1. Turn(1) = "top"
    BY DEF Turn
  <2>2. \A c \in Merge : inQue[c] = <<>> /\ nextFid[c] = "top"
    BY <1>2 DEF Init
  <2>3. \A c \in Merge : Alternate(inQue[c], nextFid[c])
    BY <1>1, <2>1, <2>2 DEF Alternate
  <2> QED BY <1>5, <2>3 DEF FieldInv, FieldsPaired
<1> QED
  BY <1>3, <1>6, <1>7, <1>8, <1>9 DEF EncInv

-----------------------------------------------------------------------------
(* Each action keeps the invariant.                                         *)

\* Nothing moves between the queues.
LEMMA StillStep ==
    ASSUME EncInv, UNCHANGED <<outer, bits, chans, reqQue, tasks, freeList>>, TypeOK'
    PROVE  EncInv'
<1>1. Requests' = Requests
  BY RequestsStay DEF tasks
<1>2. ReqInv' /\ FrameInv' /\ BitInv' /\ FieldInv'
  BY <1>1, ReqStays, FrameStays, BitStays, FieldStays DEF EncInv, outer, bits, chans, tasks
<1> QED
  BY <1>2 DEF EncInv

LEMMA RecvStopStep == ASSUME EncInv, NEW c \in Caller, RecvStop(c) PROVE EncInv'
<1>1. TypeOK'
  <2>1. mbx \in Seq(Cmd) /\ mbx # <<>>
    BY DEF EncInv, TypeOK, RecvStop, Head1
  <2>2. mbx' \in Seq(Cmd)
    BY <2>1, QueueTake DEF RecvStop
  <2> QED BY <2>2 DEF EncInv, TypeOK, RecvStop, outer, bits, chans, tasks
<1> QED
  BY <1>1, StillStep DEF RecvStop

LEMMA StopDropStep == ASSUME EncInv, StopDrop PROVE EncInv'
<1>1. TypeOK'
  <2>1. mbx \in Seq(Cmd) /\ mbx # <<>>
    BY DEF EncInv, TypeOK, StopDrop
  <2>2. mbx' \in Seq(Cmd)
    BY <2>1, QueueTake DEF StopDrop
  <2>3. control' \in [Caller -> {"none", "STOP", "DELETE"}]
    BY DEF EncInv, TypeOK, StopDrop, Ack
  <2> QED BY <2>2, <2>3 DEF EncInv, TypeOK, StopDrop, outer, bits, chans, tasks, loop
<1> QED
  BY <1>1, StillStep DEF StopDrop, loop

LEMMA JoinStep == ASSUME EncInv, Join PROVE EncInv'
<1>1. TypeOK'
  <2>1. control' \in [Caller -> {"none", "STOP", "DELETE"}]
    BY DEF EncInv, TypeOK, Join, Ack
  <2> QED BY <2>1 DEF EncInv, TypeOK, Join, outer, bits, chans, tasks
<1> QED
  BY <1>1, StillStep DEF Join

LEMMA TickStep == ASSUME EncInv, Tick PROVE EncInv'
<1>1. TypeOK'
  <2>1. mbx \in Seq(Cmd) /\ "GET_PROCESSED_DATA" \in Cmd
    BY DEF EncInv, TypeOK, Cmd
  <2>2. mbx' \in Seq(Cmd)
    BY <2>1, AppendProperties DEF Tick, Post
  <2> QED BY <2>2 DEF EncInv, TypeOK, Tick, outer, bits, chans, tasks, loop, ctl
<1> QED
  BY <1>1, StillStep DEF Tick, loop

LEMMA AskStep ==
    ASSUME EncInv, NEW c \in Caller, NEW cmd \in {"STOP", "DELETE"}, Ask(c, cmd) PROVE EncInv'
<1>1. TypeOK'
  <2>1. mbx \in Seq(Cmd) /\ c \in Cmd
    BY DEF EncInv, TypeOK, Cmd
  <2>2. mbx' \in Seq(Cmd)
    BY <2>1, AppendProperties DEF Ask, Post
  <2>3. control' \in [Caller -> {"none", "STOP", "DELETE"}] /\ phase' \in {"run", "stop", "delete"}
    BY DEF EncInv, TypeOK, Ask
  <2> QED BY <2>2, <2>3 DEF EncInv, TypeOK, Ask, outer, bits, chans, tasks, loop
<1> QED
  BY <1>1, StillStep DEF Ask, loop

\* A turn without a picture, which may return what was left out before.
LEMMA ReturnsFree ==
    ASSUME EncInv, Requests' = Requests, UNCHANGED <<prevFull, inQue>>,
           \/ prev' = prev /\ freeList' = freeList
           \/ prev' = prev \cup freeList /\ freeList' = {}
    PROVE  FrameInv'
<1>1. ASSUME NEW f \in Frame PROVE FrameKept(f)'
  <2>1. FrameKept(f)
    BY DEF EncInv, FrameInv
  <2>2. Coding(f)' <=> Coding(f)
    BY DEF Coding
  <2>3. \A r, s \in Requests' : f \in Range(r.in) /\ f \in Range(s.in) => r = s
    BY <2>1 DEF FrameKept
  <2> QED BY <2>1, <2>2, <2>3 DEF FrameKept
<1> QED
  BY <1>1 DEF EncInv, FrameInv

\* A turn of the submission that takes no picture.
LEMMA IdleTurn ==
    ASSUME EncInv, Trying, NEW turns \in 0 .. 2, Advance(turns, FALSE, {}),
           UNCHANGED <<prevFull, fid, bits, chans, reqQue, tasks, ctl, mbx>>
    PROVE  EncInv'
<1>1. TypeOK
  BY DEF EncInv
<1>2. /\ tries' \in 0 .. 1 /\ idx' \in Ch /\ linkPc' \in {"idle", "submit"}
      /\ prev' \subseteq Frame /\ freeList' \subseteq Frame
      /\ \/ prev' = prev /\ freeList' = freeList \cup {}
         \/ prev' = prev \cup freeList \cup {} /\ freeList' = {}
  BY <1>1, AdvanceKeeps
<1>3. TypeOK'
  BY <1>1, <1>2 DEF TypeOK, bits, chans, tasks, ctl
<1>4. Requests' = Requests
  BY RequestsStay DEF tasks
<1>5. FrameInv'
  BY <1>2, <1>4, ReturnsFree DEF chans
<1>6. ReqInv' /\ BitInv' /\ FieldInv'
  BY <1>4, ReqStays, BitStays, FieldStays DEF EncInv, bits, chans, tasks
<1> QED
  BY <1>3, <1>5, <1>6 DEF EncInv

LEMMA NoRequestStep == ASSUME EncInv, NoRequest PROVE EncInv'
<1>1. PerCall[idx] \in 0 .. 2
  BY EncChannelAssumption DEF EncInv, TypeOK
<1> QED
  BY <1>1, IdleTurn DEF NoRequest

LEMMA NothingStep == ASSUME EncInv, Nothing PROVE EncInv'
<1>1. tries + 1 \in 0 .. 2
  BY DEF EncInv, TypeOK
<1> QED
  BY <1>1, IdleTurn DEF Nothing

\* The picture a turn takes, and what is left of its channel's queue.
LEMMA PictureCut ==
    ASSUME EncInv, Enough
    PROVE  /\ idx \in Ch /\ Size[idx] \in {1, 2} /\ inQue[idx] \in Seq(Frame)
           /\ Picture \in Seq(Frame) /\ Rest \in Seq(Frame) /\ Picture \o Rest = inQue[idx]
           /\ Len(Picture) = Size[idx] /\ Len(Rest) = Len(inQue[idx]) - Size[idx]
           /\ \A i \in 1 .. Size[idx] : Picture[i] = inQue[idx][i]
           /\ \A i \in 1 .. Len(inQue[idx]) - Size[idx] : Rest[i] = inQue[idx][Size[idx] + i]
           /\ IsInjective(Rest) /\ Range(Picture) \cap Range(Rest) = {}
           /\ Range(inQue[idx]) = Range(Picture) \cup Range(Rest)
           /\ Range(Picture) \subseteq Frame /\ \A f \in Range(Picture) : ChOf[f] = idx
<1>1. /\ idx \in Ch /\ Size[idx] \in {1, 2} /\ inQue[idx] \in Seq(Frame)
      /\ Len(inQue[idx]) \in Nat /\ IsInjective(inQue[idx])
      /\ \A f \in Range(inQue[idx]) : ChOf[f] = idx
  BY Queues DEF EncInv, TypeOK, FrameInv, Size
<1>2. PICK z \in 0 .. Len(inQue[idx]) : z = Size[idx]
  BY <1>1 DEF Enough
<1>3. Picture = SubSeq(inQue[idx], 1, z) /\ Rest = SubSeq(inQue[idx], z + 1, Len(inQue[idx]))
  BY <1>2 DEF Picture, Rest
<1>4. PICK q \in Seq(Frame) : q = inQue[idx]
  BY <1>1
<1>5. /\ SubSeq(q, 1, z) \in Seq(Frame) /\ SubSeq(q, z + 1, Len(q)) \in Seq(Frame)
      /\ SubSeq(q, 1, z) \o SubSeq(q, z + 1, Len(q)) = q
      /\ Len(SubSeq(q, 1, z)) = z /\ Len(SubSeq(q, z + 1, Len(q))) = Len(q) - z
      /\ \A i \in 1 .. z : SubSeq(q, 1, z)[i] = q[i]
      /\ \A i \in 1 .. Len(q) - z : SubSeq(q, z + 1, Len(q))[i] = q[z + i]
  BY <1>4, CutQueue
<1>6. /\ IsInjective(SubSeq(q, z + 1, Len(q)))
      /\ Range(SubSeq(q, 1, z)) \cap Range(SubSeq(q, z + 1, Len(q))) = {}
      /\ Range(q) = Range(SubSeq(q, 1, z)) \cup Range(SubSeq(q, z + 1, Len(q)))
  BY <1>1, <1>4, CutInjective
<1>7. Range(q) \subseteq Frame
  BY RangeOfSeq
<1> QED
  BY <1>1, <1>2, <1>3, <1>4, <1>5, <1>6, <1>7

\* The other queues of the channels stay.
LEMMA InQueCut ==
    ASSUME EncInv, Enough, inQue' = [inQue EXCEPT ![idx] = Rest]
    PROVE  /\ inQue' \in [Ch -> Seq(Frame)]
           /\ \A c \in Ch : inQue'[c] = IF c = idx THEN Rest ELSE inQue[c]
           /\ \A c \in Ch : IsInjective(inQue'[c]) /\ \A f \in Range(inQue'[c]) : ChOf[f] = c
           /\ \A f \in Frame : f \in Range(inQue'[ChOf[f]]) <=>
                                  f \in Range(inQue[ChOf[f]]) /\ f \notin Range(Picture)
<1>1. inQue \in [Ch -> Seq(Frame)] /\ \A f \in Frame : ChOf[f] \in Ch
  BY EncChannelAssumption DEF EncInv, TypeOK
<1>2. /\ idx \in Ch /\ Rest \in Seq(Frame) /\ IsInjective(Rest)
      /\ Range(Picture) \cap Range(Rest) = {} /\ Range(inQue[idx]) = Range(Picture) \cup Range(Rest)
      /\ \A f \in Range(Picture) : ChOf[f] = idx
  BY PictureCut
<1>3. /\ inQue' \in [Ch -> Seq(Frame)]
      /\ \A c \in Ch : inQue'[c] = IF c = idx THEN Rest ELSE inQue[c]
  BY <1>1, <1>2
<1>4. ASSUME NEW c \in Ch
      PROVE  IsInjective(inQue'[c]) /\ \A f \in Range(inQue'[c]) : ChOf[f] = c
  BY <1>2, <1>3 DEF EncInv, FrameInv
<1>5. ASSUME NEW f \in Frame
      PROVE  f \in Range(inQue'[ChOf[f]]) <=> f \in Range(inQue[ChOf[f]]) /\ f \notin Range(Picture)
  <2>1. ChOf[f] \in Ch /\ inQue'[ChOf[f]] = IF ChOf[f] = idx THEN Rest ELSE inQue[ChOf[f]]
    BY <1>1, <1>3
  <2>2. CASE ChOf[f] = idx
    BY <1>2, <2>1, <2>2
  <2>3. CASE ChOf[f] # idx
    BY <1>2, <2>1, <2>3
  <2> QED BY <2>2, <2>3
<1> QED
  BY <1>3, <1>4, <1>5

\* Two fields less, the others still take turns.
LEMMA AlternateCut ==
    ASSUME EncInv, Enough, inQue' = [inQue EXCEPT ![idx] = Rest], UNCHANGED <<fid, nextFid>>
    PROVE  /\ \A c \in Merge \ Skipping : Alternate(inQue[c], nextFid[c])'
           /\ idx \in Merge \ Skipping => fid[Picture[1]] = "top" /\ fid[Picture[2]] = "bottom"
<1>1. \A c \in Merge \ Skipping : c \in Ch /\ Alternate(inQue[c], nextFid[c])
  BY EncChannelAssumption DEF EncInv, FieldInv
<1>2. /\ \A c \in Ch : inQue'[c] = IF c = idx THEN Rest ELSE inQue[c]
      /\ idx \in Ch
  BY InQueCut, PictureCut
<1>3. ASSUME idx \in Merge \ Skipping
      PROVE  /\ Alternate(Rest, nextFid[idx])
             /\ fid[Picture[1]] = "top" /\ fid[Picture[2]] = "bottom"
  <2>1. Size[idx] = 2
    BY <1>2, <1>3 DEF Size
  <2>2. PICK n \in Nat : n = Len(inQue[idx])
    BY <1>2, Queues DEF EncInv
  <2>3. n >= 2
    BY <2>1, <2>2 DEF Enough
  <2>4. /\ Len(Rest) = n - 2 /\ \A i \in 1 .. n - 2 : Rest[i] = inQue[idx][2 + i]
        /\ Picture[1] = inQue[idx][1] /\ Picture[2] = inQue[idx][2]
    BY <2>1, <2>2, PictureCut
  <2>5. (\A i \in 1 .. n : fid[inQue[idx][i]] = Turn(i)) /\ nextFid[idx] = Turn(n + 1)
    BY <1>1, <1>3, <2>2 DEF Alternate
  <2>6. \A i \in Nat : Turn(i + 2) = Turn(i)
    <3>1. \A i \in Nat : (i + 2) % 2 = i % 2
      OBVIOUS
    <3> QED BY <3>1 DEF Turn
  <2>7. ASSUME NEW i \in 1 .. n - 2 PROVE fid[Rest[i]] = Turn(i)
    <3>1. 2 + i \in 1 .. n /\ 2 + i = i + 2
      BY <2>3
    <3>2. fid[Rest[i]] = Turn(i + 2)
      BY <2>4, <2>5, <3>1
    <3> QED BY <2>6, <3>2
  <2>8. nextFid[idx] = Turn(n - 2 + 1)
    <3>1. n - 1 \in Nat /\ n - 1 + 2 = n + 1 /\ n - 2 + 1 = n - 1
      BY <2>3
    <3> QED BY <2>5, <2>6, <3>1
  <2>9. fid[Picture[1]] = "top" /\ fid[Picture[2]] = "bottom"
    <3>1. 1 \in 1 .. n /\ 2 \in 1 .. n
      BY <2>3
    <3>2. Turn(1) = "top" /\ Turn(2) = "bottom"
      BY DEF Turn
    <3> QED BY <2>4, <2>5, <3>1, <3>2
  <2> QED BY <2>4, <2>7, <2>8, <2>9 DEF Alternate
<1>4. ASSUME NEW c \in Merge \ Skipping PROVE Alternate(inQue[c], nextFid[c])'
  <2>1. CASE c = idx
    BY <1>2, <1>3, <2>1 DEF Alternate
  <2>2. CASE c # idx
    BY <1>1, <1>2, <2>2 DEF Alternate
  <2> QED BY <2>1, <2>2
<1> QED
  BY <1>3, <1>4

\* A picture is left out: its frames are free, or back at once.
LEMMA DropStep == ASSUME EncInv, Drop PROVE EncInv'
<1>1. /\ TypeOK /\ Trying /\ Enough /\ inQue' = [inQue EXCEPT ![idx] = Rest]
      /\ Advance(tries + 1, FALSE, Range(Picture)) /\ tries + 1 \in 0 .. 2
      /\ UNCHANGED <<prevFull, fid, bits, nextFid, reqQue, tasks, ctl, mbx>>
  <2>1. TypeOK /\ tries \in 0 .. 1
    BY DEF EncInv, TypeOK
  <2>2. ToSet(Picture) = Range(Picture)
    BY ToSetIsRange
  <2>3. Advance(tries + 1, FALSE, ToSet(Picture)) <=> Advance(tries + 1, FALSE, Range(Picture))
    BY <2>2
  <2>4. tries + 1 \in 0 .. 2
    BY <2>1
  <2>5. Advance(tries + 1, FALSE, Range(Picture))
    <3>1. Advance(tries + 1, FALSE, ToSet(Picture))
      BY DEF Drop
    <3> QED BY <2>3, <3>1
  <2>6. /\ Trying /\ Enough /\ inQue' = [inQue EXCEPT ![idx] = Rest]
        /\ UNCHANGED <<prevFull, fid, bits, nextFid, reqQue, tasks, ctl, mbx>>
    BY DEF Drop
  <2> QED BY <2>1, <2>4, <2>5, <2>6
<1>2. /\ inQue' \in [Ch -> Seq(Frame)]
      /\ \A c \in Ch : IsInjective(inQue'[c]) /\ \A f \in Range(inQue'[c]) : ChOf[f] = c
      /\ \A f \in Frame : f \in Range(inQue'[ChOf[f]]) <=>
                             f \in Range(inQue[ChOf[f]]) /\ f \notin Range(Picture)
  BY <1>1, InQueCut
<1>3. /\ Range(Picture) \subseteq Frame
      /\ \A f \in Range(Picture) : f \in Range(inQue[ChOf[f]])
  BY <1>1, PictureCut
<1>4. /\ tries' \in 0 .. 1 /\ idx' \in Ch /\ linkPc' \in {"idle", "submit"}
      /\ prev' \subseteq Frame /\ freeList' \subseteq Frame
      /\ \/ prev' = prev /\ freeList' = freeList \cup Range(Picture)
         \/ prev' = prev \cup freeList \cup Range(Picture) /\ freeList' = {}
  BY <1>1, <1>3, AdvanceKeeps
<1>5. TypeOK'
  BY <1>1, <1>2, <1>4 DEF TypeOK, bits, tasks, ctl
<1>6. Requests' = Requests
  BY <1>1, RequestsStay DEF tasks
<1>7. FrameInv'
  <2>1. ASSUME NEW f \in Frame PROVE FrameKept(f)'
    <3>1. FrameKept(f)
      BY DEF EncInv, FrameInv
    <3>2. (Coding(f)' <=> Coding(f)) /\ prevFull' = prevFull
      BY <1>1, <1>6 DEF Coding
    <3>3. \A r, s \in Requests' : f \in Range(r.in) /\ f \in Range(s.in) => r = s
      BY <1>6, <3>1 DEF FrameKept
    <3>4. f \in Range(inQue'[ChOf[f]]) <=> f \in Range(inQue[ChOf[f]]) /\ f \notin Range(Picture)
      BY <1>2
    <3>5. f \in Range(Picture) => f \in Range(inQue[ChOf[f]])
      BY <1>3
    <3>6. CASE prev' = prev /\ freeList' = freeList \cup Range(Picture)
      BY <3>1, <3>2, <3>3, <3>4, <3>5, <3>6 DEF FrameKept
    <3>7. CASE prev' = prev \cup freeList \cup Range(Picture) /\ freeList' = {}
      BY <3>1, <3>2, <3>3, <3>4, <3>5, <3>7 DEF FrameKept
    <3> QED BY <1>4, <3>6, <3>7
  <2> QED BY <1>1, <1>2, <2>1 DEF EncInv, FrameInv
<1>8. FieldInv'
  <2>1. \A c \in Merge \ Skipping : Alternate(inQue[c], nextFid[c])'
    BY <1>1, AlternateCut
  <2> QED BY <1>1, <1>6, <2>1 DEF EncInv, FieldInv, FieldsPaired
<1>9. ReqInv' /\ BitInv'
  BY <1>1, <1>6, ReqStays, BitStays DEF EncInv, bits, tasks
<1> QED
  BY <1>5, <1>7, <1>8, <1>9 DEF EncInv

\* The frames that are filled were with the previous link.
LEMMA FillStep == ASSUME EncInv, NEW s \in Lists, Fill(s) PROVE EncInv'
<1>1. s \in Seq(prev) /\ IsInjective(s)
  <2>1. PICK m \in 0 .. FillMax : s \in [1 .. m -> prev]
    BY DEF Lists, BoundedSeq, SeqOf
  <2>2. m \in Nat
    BY EncBufferAssumption
  <2> QED BY <2>1, <2>2, SeqDef DEF Lists
<1>2. prev \subseteq Frame /\ s \in Seq(Frame) /\ Range(s) \subseteq prev /\ prevFull \in Seq(Frame)
  <2>1. prev \subseteq Frame /\ prevFull \in Seq(Frame)
    BY DEF EncInv, TypeOK
  <2> QED BY <1>1, <2>1, SeqMonotonic, RangeOfSeq
<1>3. /\ prev' = prev \ Range(s) /\ prevFull' = prevFull \o s
      /\ UNCHANGED <<bits, chans, reqQue, tasks, loop, ctl>>
  BY ToSetIsRange DEF Fill
<1>4. fid' \in [Frame -> Fid] /\ \A f \in Frame : f \notin prev => fid'[f] = fid[f]
  <2>1. PICK p \in [Range(s) -> Fid] :
           fid' = [f \in Frame |-> IF f \in Range(s) THEN p[f] ELSE fid[f]]
    BY ToSetIsRange DEF Fill
  <2> QED BY <1>2, <2>1 DEF EncInv, TypeOK
<1>5. /\ prevFull' \in Seq(Frame) /\ Range(prevFull') = Range(prevFull) \cup Range(s)
      /\ (IsInjective(prevFull) /\ Range(prevFull) \cap Range(s) = {} => IsInjective(prevFull'))
  BY <1>1, <1>2, <1>3, QueueConcat
<1>6. TypeOK'
  <2>1. mbx' \in Seq(Cmd)
    <3>1. mbx \in Seq(Cmd) /\ "NEW_DATA" \in Cmd
      BY DEF EncInv, TypeOK, Cmd
    <3> QED BY <3>1, AppendProperties DEF Fill, Post
  <2>2. prev' \subseteq Frame
    BY <1>2, <1>3
  <2> QED BY <1>3, <1>4, <1>5, <2>1, <2>2 DEF EncInv, TypeOK, bits, chans, tasks, loop, ctl
<1>7. Requests' = Requests
  BY <1>3, RequestsStay DEF tasks
<1>8. FrameInv'
  <2>1. ASSUME NEW f \in Frame PROVE FrameKept(f)'
    <3>1. FrameKept(f)
      BY DEF EncInv, FrameInv
    <3>2. (Coding(f)' <=> Coding(f)) /\ inQue' = inQue /\ freeList' = freeList
      BY <1>3, <1>7 DEF Coding, chans, loop
    <3>3. \A r, q \in Requests' : f \in Range(r.in) /\ f \in Range(q.in) => r = q
      BY <1>7, <3>1 DEF FrameKept
    <3>4. /\ f \in prev' <=> f \in prev /\ f \notin Range(s)
          /\ f \in Range(prevFull') <=> f \in Range(prevFull) \/ f \in Range(s)
          /\ f \in Range(s) => f \in prev
      BY <1>2, <1>3, <1>5
    <3> QED BY <3>1, <3>2, <3>3, <3>4 DEF FrameKept
  <2>2. IsInjective(prevFull')
    <3>1. \A f \in Range(s) : f \in Frame /\ f \in prev
      BY <1>2
    <3>2. \A f \in Range(s) : f \notin Range(prevFull)
      BY <3>1 DEF EncInv, FrameInv, FrameKept
    <3> QED BY <1>5, <3>2 DEF EncInv, FrameInv
  <2> QED BY <1>3, <2>1, <2>2 DEF EncInv, FrameInv, chans
<1>9. FieldInv'
  <2>1. ASSUME NEW c \in Merge \ Skipping PROVE Alternate(inQue[c], nextFid[c])'
    <3>1. c \in Ch /\ Alternate(inQue[c], nextFid[c])
      BY EncChannelAssumption DEF EncInv, FieldInv
    <3>2. inQue[c] \in Seq(Frame) /\ \A f \in Range(inQue[c]) : ChOf[f] = c
      BY <3>1, Queues DEF EncInv, FrameInv
    <3>3. ASSUME NEW i \in 1 .. Len(inQue[c]) PROVE fid'[inQue[c][i]] = fid[inQue[c][i]]
      <4>1. inQue[c][i] \in Frame /\ inQue[c][i] \in Range(inQue[c])
        BY <3>2, RangeEquality, ElementOfSeq
      <4>2. inQue[c][i] \notin prev
        BY <3>2, <4>1 DEF EncInv, FrameInv, FrameKept
      <4> QED BY <1>4, <4>1, <4>2
    <3> QED BY <1>3, <3>1, <3>3 DEF Alternate, chans
  <2>2. ASSUME NEW r \in Requests, r.ch \in Merge \ Skipping
        PROVE  fid'[r.in[1]] = "top" /\ fid'[r.in[2]] = "bottom"
    <3>1. r \in Request /\ Range(r.in) \subseteq Frame /\ Len(r.in) = Size[r.ch]
      BY Queues DEF EncInv, ReqInv
    <3>2. Size[r.ch] = 2 /\ r.in \in Seq(Frame)
      BY <2>2, <3>1, EncChannelAssumption DEF Size, Request
    <3>3. r.in[1] \in Range(r.in) /\ r.in[2] \in Range(r.in)
      BY <3>1, <3>2, RangeEquality
    <3>4. \A f \in Range(r.in) : f \notin prev
      BY <3>1 DEF EncInv, FrameInv, FrameKept, Coding
    <3> QED BY <1>4, <2>2, <3>1, <3>3, <3>4 DEF EncInv, FieldInv, FieldsPaired
  <2> QED BY <1>7, <2>1, <2>2 DEF FieldInv, FieldsPaired
<1>10. ReqInv' /\ BitInv'
  BY <1>3, <1>7, ReqStays, BitStays DEF EncInv, bits, tasks
<1> QED
  BY <1>6, <1>8, <1>9, <1>10 DEF EncInv

\* What is appended to the second part is appended to the whole.
LEMMA ConcatAppend ==
    ASSUME NEW S, NEW p \in Seq(S), NEW q \in Seq(S), NEW e \in S
    PROVE  p \o Append(q, e) = Append(p \o q, e)
<1>1. Append(q, e) = q \o <<e>> /\ <<e>> \in Seq(S)
  BY AppendIsConcat
<1>2. p \o q \in Seq(S)
  BY ConcatProperties
<1>3. Append(p \o q, e) = (p \o q) \o <<e>>
  BY <1>2, AppendIsConcat
<1>4. (p \o q) \o <<e>> = p \o (q \o <<e>>)
  BY <1>1, ConcatAssociative
<1> QED
  BY <1>1, <1>3, <1>4

\* The request a submission makes is a new one, at the task of its channel.
LEMMA NewRequest ==
    ASSUME EncInv, NEW b \in Bit, Submit(b)
    PROVE  \E r \in Request :
              /\ r.ch = idx /\ r.in = Picture /\ r.out = b /\ TskOf[idx] \in Tsk
              /\ r \notin Requests /\ r \notin Range(doneQue)
              /\ \A t \in Tsk : r \notin Range(AtTask(t))
              /\ processQue' = [processQue EXCEPT ![TskOf[idx]] = Append(@, r)]
              /\ \A t \in Tsk : AtTask(t)' = IF t = TskOf[idx] THEN Append(AtTask(t), r) ELSE AtTask(t)
              /\ Requests' = Requests \cup {r}
<1>1. /\ Enough /\ b \in emptyQue /\ UNCHANGED <<doneQue, batch>>
      /\ processQue' = [processQue EXCEPT ![TskOf[idx]] =
                           Append(@, [ch |-> idx, in |-> Picture, out |-> b])]
  BY DEF Submit, Empty
<1>2. idx \in Ch /\ Picture \in Seq(Frame) /\ TskOf[idx] \in Tsk
  BY <1>1, PictureCut, EncChannelAssumption
<1>3. PICK r \in Request : r = [ch |-> idx, in |-> Picture, out |-> b]
  BY <1>2 DEF Request
<1>4. r.ch = idx /\ r.in = Picture /\ r.out = b
  BY <1>3
<1>5. r \notin Requests
  BY <1>1, <1>4 DEF EncInv, BitInv, BitKept, Filling
<1>6. r \notin Range(doneQue) /\ \A t \in Tsk : r \notin Range(AtTask(t))
  BY <1>5, RequestsAre
<1>7. processQue' = [processQue EXCEPT ![TskOf[idx]] = Append(@, r)]
  BY <1>1, <1>3
<1>8. ASSUME NEW t \in Tsk
      PROVE  AtTask(t)' = IF t = TskOf[idx] THEN Append(AtTask(t), r) ELSE AtTask(t)
  <2>1. processQue \in [Tsk -> Seq(Request)] /\ processQue[t] \in Seq(Request) /\ batch[t] \in Seq(Request)
    BY DEF EncInv, TypeOK
  <2>2. batch[t] \o Append(processQue[t], r) = Append(batch[t] \o processQue[t], r)
    <3>1. PICK p \in Seq(Request), q \in Seq(Request) : p = batch[t] /\ q = processQue[t]
      BY <2>1
    <3>2. p \o Append(q, r) = Append(p \o q, r)
      BY ConcatAppend
    <3> QED BY <3>1, <3>2
  <2>3. processQue'[t] = IF t = TskOf[idx] THEN Append(processQue[t], r) ELSE processQue[t]
    BY <1>7, <2>1
  <2>4. AtTask(t) = batch[t] \o processQue[t] /\ AtTask(t)' = batch'[t] \o processQue'[t] /\ batch' = batch
    BY <1>1 DEF AtTask
  <2> HIDE DEF AtTask
  <2>5. CASE t = TskOf[idx]
    BY <2>2, <2>3, <2>4, <2>5
  <2>6. CASE t # TskOf[idx]
    BY <2>3, <2>4, <2>6
  <2> QED BY <2>5, <2>6
<1>9. Requests' = Requests \cup {r}
  <2>1. ASSUME NEW t \in Tsk
        PROVE  Range(AtTask(t)') = IF t = TskOf[idx] THEN Range(AtTask(t)) \cup {r} ELSE Range(AtTask(t))
    <3>1. AtTask(t) \in Seq(Request)
      BY Queues DEF EncInv
    <3>2. Range(Append(AtTask(t), r)) = Range(AtTask(t)) \cup {r}
      BY <3>1, QueueAppend
    <3> QED BY <1>8, <3>2
  <2>2. UNION {Range(AtTask(t)') : t \in Tsk} = {r} \cup UNION {Range(AtTask(t)) : t \in Tsk}
    BY <1>2, <2>1
  <2> QED BY <1>1, <2>2, RequestsAre
<1> QED
  BY <1>2, <1>4, <1>5, <1>6, <1>7, <1>8, <1>9

\* A picture and a buffer become a request.
LEMMA SubmitStep == ASSUME EncInv, NEW b \in Bit, Submit(b) PROVE EncInv'
<1>1. PICK r \in Request :
         /\ r.ch = idx /\ r.in = Picture /\ r.out = b /\ TskOf[idx] \in Tsk
         /\ r \notin Requests /\ r \notin Range(doneQue)
         /\ \A t \in Tsk : r \notin Range(AtTask(t))
         /\ processQue' = [processQue EXCEPT ![TskOf[idx]] = Append(@, r)]
         /\ \A t \in Tsk : AtTask(t)' = IF t = TskOf[idx] THEN Append(AtTask(t), r) ELSE AtTask(t)
         /\ Requests' = Requests \cup {r}
  BY NewRequest
<1>2. /\ TypeOK /\ Trying /\ Enough /\ Room /\ reqQue > 0 /\ b \in emptyQue
      /\ inQue' = [inQue EXCEPT ![idx] = Rest]
      /\ emptyQue' = emptyQue \ {b} /\ reqQue' = reqQue - 1
      /\ UNCHANGED <<prevFull, fid, fullQue, next, nextFid, doneQue, taskPc, batch, ctl, mbx>>
  BY DEF EncInv, Submit, Empty
<1>3. /\ inQue' \in [Ch -> Seq(Frame)]
      /\ \A c \in Ch : IsInjective(inQue'[c]) /\ \A f \in Range(inQue'[c]) : ChOf[f] = c
      /\ \A f \in Frame : f \in Range(inQue'[ChOf[f]]) <=>
                             f \in Range(inQue[ChOf[f]]) /\ f \notin Range(Picture)
  BY <1>2, InQueCut
<1>4. /\ Range(Picture) \subseteq Frame /\ Len(Picture) = Size[idx]
      /\ \A f \in Range(Picture) : f \in Range(inQue[ChOf[f]])
  BY <1>2, PictureCut
<1>5. /\ tries' \in 0 .. 1 /\ idx' \in Ch /\ linkPc' \in {"idle", "submit"}
      /\ prev' \subseteq Frame /\ freeList' \subseteq Frame
      /\ \/ prev' = prev /\ freeList' = freeList
         \/ prev' = prev \cup freeList /\ freeList' = {}
  <2>1. Advance(tries + 1, TRUE, {})
    BY DEF Submit
  <2>2. tries + 1 \in 0 .. 2
    BY <1>2 DEF TypeOK
  <2>3. /\ tries' \in 0 .. 1 /\ idx' \in Ch /\ linkPc' \in {"idle", "submit"}
        /\ prev' \subseteq Frame /\ freeList' \subseteq Frame
        /\ \/ prev' = prev /\ freeList' = freeList \cup {}
           \/ prev' = prev \cup freeList \cup {} /\ freeList' = {}
    BY <1>2, <2>1, <2>2, AdvanceKeeps
  <2> QED BY <2>3
<1>6. TypeOK'
  <2>1. processQue' \in [Tsk -> Seq(Request)] /\ \A t \in Tsk : Len(processQue'[t]) <= QueMax
    <3>1. processQue \in [Tsk -> Seq(Request)] /\ \A t \in Tsk : Len(processQue[t]) <= QueMax
      BY <1>2 DEF TypeOK
    <3>2. /\ Append(processQue[TskOf[idx]], r) \in Seq(Request)
          /\ Len(Append(processQue[TskOf[idx]], r)) = Len(processQue[TskOf[idx]]) + 1
      BY <1>1, <3>1, AppendProperties
    <3>3. Len(processQue[TskOf[idx]]) \in Nat /\ QueMax \in Nat
      BY <1>1, <3>1, LenProperties, EncBufferAssumption
    <3>4. Len(Append(processQue[TskOf[idx]], r)) <= QueMax
      BY <1>2, <3>2, <3>3 DEF Room
    <3>5. \A t \in Tsk : processQue'[t] = IF t = TskOf[idx] THEN Append(processQue[t], r) ELSE processQue[t]
      BY <1>1, <3>1
    <3>6. processQue' \in [Tsk -> Seq(Request)]
      BY <1>1, <3>1, <3>2
    <3> QED BY <3>1, <3>4, <3>5, <3>6
  <2>2. reqQue' \in 0 .. NumReq
    BY <1>2, EncBufferAssumption DEF TypeOK
  <2> QED BY <1>2, <1>3, <1>5, <2>1, <2>2 DEF TypeOK, ctl
<1>7. FrameInv'
  <2>1. ASSUME NEW f \in Frame PROVE FrameKept(f)'
    <3>1. FrameKept(f)
      BY DEF EncInv, FrameInv
    <3>2. (Coding(f)' <=> Coding(f) \/ f \in Range(Picture)) /\ prevFull' = prevFull
      BY <1>1, <1>2 DEF Coding
    <3>3. f \in Range(inQue'[ChOf[f]]) <=> f \in Range(inQue[ChOf[f]]) /\ f \notin Range(Picture)
      BY <1>3
    <3>4. f \in Range(Picture) => f \in Range(inQue[ChOf[f]]) /\ ~Coding(f)
      BY <1>4, <3>1 DEF FrameKept
    <3>5. \A p, q \in Requests' : f \in Range(p.in) /\ f \in Range(q.in) => p = q
      <4>1. \A p, q \in Requests : f \in Range(p.in) /\ f \in Range(q.in) => p = q
        BY <3>1 DEF FrameKept
      <4>2. f \in Range(r.in) => \A p \in Requests : f \notin Range(p.in)
        BY <1>1, <3>4 DEF Coding
      <4> QED BY <1>1, <4>1, <4>2
    <3>6. CASE prev' = prev /\ freeList' = freeList
      BY <3>1, <3>2, <3>3, <3>4, <3>5, <3>6 DEF FrameKept
    <3>7. CASE prev' = prev \cup freeList /\ freeList' = {}
      BY <3>1, <3>2, <3>3, <3>4, <3>5, <3>7 DEF FrameKept
    <3> QED BY <1>5, <3>6, <3>7
  <2> QED BY <1>2, <1>3, <2>1 DEF EncInv, FrameInv
<1>8. FieldInv'
  <2>1. /\ \A c \in Merge \ Skipping : Alternate(inQue[c], nextFid[c])'
        /\ idx \in Merge \ Skipping => fid[Picture[1]] = "top" /\ fid[Picture[2]] = "bottom"
    BY <1>2, AlternateCut
  <2>2. ASSUME NEW q \in Requests', q.ch \in Merge \ Skipping
        PROVE  fid'[q.in[1]] = "top" /\ fid'[q.in[2]] = "bottom"
    <3>1. CASE q \in Requests
      BY <1>2, <2>2, <3>1 DEF EncInv, FieldInv, FieldsPaired
    <3>2. CASE q = r
      BY <1>1, <1>2, <2>1, <2>2, <3>2
    <3> QED BY <1>1, <3>1, <3>2
  <2> QED BY <2>1, <2>2 DEF FieldInv, FieldsPaired
<1>9. ReqInv'
  <2>1. ASSUME NEW t \in Tsk
        PROVE  /\ taskPc'[t] # "codec" => batch'[t] = <<>>
               /\ IsInjective(AtTask(t)')
               /\ \A q \in Range(AtTask(t)') : TskOf[q.ch] = t /\ q \notin Range(doneQue')
    <3>1. /\ taskPc[t] # "codec" => batch[t] = <<>>
          /\ IsInjective(AtTask(t)) /\ AtTask(t) \in Seq(Request)
          /\ \A q \in Range(AtTask(t)) : TskOf[q.ch] = t /\ q \notin Range(doneQue)
      BY Queues DEF EncInv, ReqInv
    <3>2. /\ IsInjective(Append(AtTask(t), r))
          /\ Range(Append(AtTask(t), r)) = Range(AtTask(t)) \cup {r}
      BY <1>1, <3>1, QueueAppend
    <3>3. CASE t = TskOf[idx]
      BY <1>1, <1>2, <3>1, <3>2, <3>3
    <3>4. CASE t # TskOf[idx]
      BY <1>1, <1>2, <3>1, <3>4
    <3> QED BY <3>3, <3>4
  <2>2. /\ \A q \in Requests' : Len(q.in) = Size[q.ch]
        /\ \A q \in Range(fullQue') : Len(q.in) = Size[q.ch]
    BY <1>1, <1>2, <1>4 DEF EncInv, ReqInv
  <2>3. IsFiniteSet(Requests') /\ NumReq = reqQue' + Cardinality(Requests')
    <3>1. IsFiniteSet(Requests) /\ NumReq = reqQue + Cardinality(Requests)
      BY DEF EncInv, ReqInv
    <3>2. IsFiniteSet(Requests \cup {r}) /\ Cardinality(Requests \cup {r}) = Cardinality(Requests) + 1
      BY <1>1, <3>1, FS_AddElement
    <3>3. reqQue \in Nat /\ Cardinality(Requests) \in Nat
      BY <1>2, <3>1, FS_CardinalityType, EncBufferAssumption DEF TypeOK
    <3> QED BY <1>1, <1>2, <3>1, <3>2, <3>3
  <2>4. IsInjective(doneQue') /\ IsInjective(fullQue')
    BY <1>2 DEF EncInv, ReqInv
  <2> QED BY <2>1, <2>2, <2>3, <2>4 DEF ReqInv
<1>10. BitInv'
  <2> SUFFICES ASSUME NEW x \in Bit PROVE BitKept(x)'
    BY DEF BitInv
  <2>1. BitKept(x)
    BY DEF EncInv, BitInv
  <2>2. (Filling(x)' <=> Filling(x) \/ x = b) /\ (IsFull(x)' <=> IsFull(x)) /\ next' = next
    BY <1>1, <1>2 DEF Filling, IsFull
  <2>3. \A p, q \in Requests' : p.out = x /\ q.out = x => p = q
    BY <1>1, <1>2, <2>1 DEF BitKept, Filling
  <2>4. \A p, q \in Range(fullQue') : p.out = x /\ q.out = x => p = q
    BY <1>2, <2>1 DEF BitKept
  <2> QED BY <1>2, <2>1, <2>2, <2>3, <2>4 DEF BitKept
<1> QED
  BY <1>6, <1>7, <1>8, <1>9, <1>10 DEF EncInv

\* Frames are sorted into the queues, or go back.
LEMMA QueueFramesStep == ASSUME EncInv, QueueFrames PROVE EncInv'
<1>1. PICK skip \in SUBSET {f \in ToSet(prevFull) : ChOf[f] \in Skipping} :
         /\ nextFid' = SortAll(skip).due /\ inQue' = SortAll(skip).in
         /\ prev' = prev \cup SortAll(skip).back
  BY DEF QueueFrames
<1>2. PICK a : a = SortAll(skip)
  OBVIOUS
<1>3. /\ TypeOK /\ mbx # <<>> /\ mbx' = Tail(mbx) /\ prevFull' = <<>>
      /\ linkPc' = "submit" /\ idx' = 0 /\ tries' = 0
      /\ UNCHANGED <<fid, bits, reqQue, tasks, freeList, ctl>>
  BY DEF EncInv, QueueFrames, Head1
<1>4. SortedTo(a, skip, Len(prevFull)) /\ Before(Len(prevFull)) = Range(prevFull)
  BY <1>2, SortedAll
<1>5. nextFid' = a.due /\ inQue' = a.in /\ prev' = prev \cup a.back
  BY <1>1, <1>2
<1>6. /\ a.due \in [Merge -> {"top", "bottom"}] /\ a.in \in [Ch -> Seq(Frame)]
      /\ a.back \subseteq Range(prevFull)
      /\ \A c \in Ch :
            /\ IsInjective(a.in[c])
            /\ \A f \in Frame : f \in Range(a.in[c]) <=>
                  \/ f \in Range(inQue[c])
                  \/ ChOf[f] = c /\ f \in Range(prevFull) /\ f \notin a.back
      /\ \A c \in Merge \ Skipping : Alternate(a.in[c], a.due[c])
  BY <1>4 DEF SortedTo
<1>7. /\ Range(prevFull) \subseteq Frame
      /\ \A c \in Ch : Range(a.in[c]) \subseteq Frame
      /\ \A f \in Frame : ChOf[f] \in Ch
  BY <1>3, <1>6, Queues, RangeOfSeq, EncChannelAssumption
<1>8. TypeOK'
  <2>1. mbx' \in Seq(Cmd)
    BY <1>3, QueueTake DEF TypeOK
  <2>2. prev' \subseteq Frame
    BY <1>3, <1>5, <1>6, <1>7 DEF TypeOK
  <2>3. prevFull' \in Seq(Frame) /\ idx' \in Ch
    BY <1>3, EmptySeq, EncChannelAssumption DEF Ch
  <2> QED BY <1>3, <1>5, <1>6, <2>1, <2>2, <2>3 DEF TypeOK, bits, tasks, ctl
<1>9. Requests' = Requests
  BY <1>3, RequestsStay DEF tasks
<1>10. FrameInv'
  <2>1. ASSUME NEW f \in Frame PROVE FrameKept(f)'
    <3>1. FrameKept(f)
      BY DEF EncInv, FrameInv
    <3>2. (Coding(f)' <=> Coding(f)) /\ freeList' = freeList
      BY <1>3, <1>9 DEF Coding
    <3>3. \A r, s \in Requests' : f \in Range(r.in) /\ f \in Range(s.in) => r = s
      BY <1>9, <3>1 DEF FrameKept
    <3>4. f \in Range(inQue'[ChOf[f]]) <=>
             f \in Range(inQue[ChOf[f]]) \/ (f \in Range(prevFull) /\ f \notin a.back)
      BY <1>5, <1>6, <1>7
    <3>5. f \notin Range(prevFull') /\ (f \in a.back => f \in Range(prevFull))
      BY <1>3, <1>6, EmptyQueue
    <3>6. f \in prev' <=> f \in prev \/ f \in a.back
      BY <1>5
    <3> QED BY <3>1, <3>2, <3>3, <3>4, <3>5, <3>6 DEF FrameKept
  <2>2. ASSUME NEW c \in Ch
        PROVE  IsInjective(inQue'[c]) /\ \A f \in Range(inQue'[c]) : ChOf[f] = c
    <3>1. \A f \in Range(inQue[c]) : ChOf[f] = c
      BY DEF EncInv, FrameInv
    <3> QED BY <1>5, <1>6, <1>7, <3>1
  <2>3. IsInjective(prevFull')
    BY <1>3, EmptyQueue
  <2> QED BY <2>1, <2>2, <2>3 DEF FrameInv
<1>11. FieldInv'
  <2>1. \A c \in Merge \ Skipping : Alternate(inQue[c], nextFid[c])'
    BY <1>3, <1>5, <1>6 DEF Alternate
  <2> QED BY <1>3, <1>9, <2>1 DEF EncInv, FieldInv, FieldsPaired
<1>12. ReqInv' /\ BitInv'
  BY <1>3, <1>9, ReqStays, BitStays DEF EncInv, bits, tasks
<1> QED
  BY <1>8, <1>10, <1>11, <1>12 DEF EncInv

-----------------------------------------------------------------------------
(* The process tasks.                                                       *)

\* A batch is the first few of the queue.
LEMMA BatchCuts ==
    ASSUME NEW q \in Seq(Request), q # <<>>
    PROVE  BatchLen(q) \in 1 .. Len(q)
<1>1. Len(q) \in Nat \ {0}
  BY EmptySeq, LenProperties
<1>2. IsBatch(q, 1)
  BY DEF IsBatch
<1>3. \E n \in 1 .. Len(q) : IsBatch(q, n) /\ (n = Len(q) \/ ~IsBatch(q, n + 1))
  <2>1. CASE \A n \in 1 .. Len(q) : IsBatch(q, n)
    BY <1>1, <2>1
  <2>2. CASE \E n \in 1 .. Len(q) : ~IsBatch(q, n)
    <3> DEFINE T == {n \in Nat : n \in 1 .. Len(q) /\ ~IsBatch(q, n)}
    <3>1. T \subseteq Nat /\ T # {}
      BY <1>1, <2>2
    <3>2. PICK m \in T : \A j \in T : m <= j
      BY <3>1, LeastNatural
    <3>3. m \in 1 .. Len(q) /\ ~IsBatch(q, m) /\ m # 1
      BY <1>2, <3>2
    <3>4. PICK n \in 1 .. Len(q) : n + 1 = m /\ n # Len(q)
      <4>1. m - 1 \in 1 .. Len(q) /\ m - 1 + 1 = m /\ m - 1 # Len(q)
        BY <1>1, <3>3
      <4> QED BY <4>1
    <3>5. IsBatch(q, n)
      <4>1. n \in Nat /\ ~(m <= n)
        BY <1>1, <3>3, <3>4
      <4> QED BY <3>2, <4>1
    <3> QED BY <3>3, <3>4, <3>5
  <2> QED BY <2>1, <2>2
<1> QED
  BY <1>3 DEF BatchLen

\* What a process task takes from its queue stays with it, in the same order.
LEMMA GetKeeps ==
    ASSUME EncInv, NEW t \in Tsk, Get(t)
    PROVE  /\ batch' \in [Tsk -> Seq(Request)] /\ processQue' \in [Tsk -> Seq(Request)]
           /\ \A u \in Tsk : Len(processQue'[u]) <= QueMax
           /\ \A u \in Tsk : AtTask(u)' = AtTask(u)
<1>1. /\ processQue \in [Tsk -> Seq(Request)] /\ batch \in [Tsk -> Seq(Request)]
      /\ \A u \in Tsk : Len(processQue[u]) <= QueMax
      /\ batch[t] = <<>> /\ processQue[t] # <<>>
  BY DEF EncInv, TypeOK, ReqInv, Get, Ready
<1>2. PICK q \in Seq(Request) : q = processQue[t]
  BY <1>1
<1>3. Len(q) \in Nat /\ QueMax \in Nat /\ Len(q) <= QueMax
  BY <1>1, <1>2, LenProperties, EncBufferAssumption
<1>4. PICK n \in 0 .. Len(q) : n = BatchLen(q)
  BY <1>1, <1>2, <1>3, BatchCuts
<1>5. /\ processQue' = [processQue EXCEPT ![t] = SubSeq(q, n + 1, Len(q))]
      /\ batch' = [batch EXCEPT ![t] = SubSeq(q, 1, n)]
  BY <1>2, <1>4 DEF Get
<1>6. PICK p \in Seq(Request), r \in Seq(Request) :
         p = SubSeq(q, 1, n) /\ r = SubSeq(q, n + 1, Len(q)) /\ p \o r = q /\ Len(r) = Len(q) - n
  <2>1. /\ SubSeq(q, 1, n) \in Seq(Request) /\ SubSeq(q, n + 1, Len(q)) \in Seq(Request)
        /\ SubSeq(q, 1, n) \o SubSeq(q, n + 1, Len(q)) = q
        /\ Len(SubSeq(q, n + 1, Len(q))) = Len(q) - n
    BY CutQueue
  <2> QED BY <2>1
<1>7. /\ processQue' \in [Tsk -> Seq(Request)] /\ batch' \in [Tsk -> Seq(Request)]
      /\ \A u \in Tsk : processQue'[u] = IF u = t THEN r ELSE processQue[u]
      /\ \A u \in Tsk : batch'[u] = IF u = t THEN p ELSE batch[u]
  BY <1>1, <1>5, <1>6
<1>8. \A u \in Tsk : Len(processQue'[u]) <= QueMax
  <2>1. Len(r) <= QueMax
    BY <1>3, <1>6
  <2> QED BY <1>1, <1>7, <2>1
<1>9. ASSUME NEW u \in Tsk PROVE AtTask(u)' = AtTask(u)
  <2>1. AtTask(u) = batch[u] \o processQue[u] /\ AtTask(u)' = batch'[u] \o processQue'[u]
    BY DEF AtTask
  <2>2. CASE u = t
    <3>1. AtTask(u)' = p \o r
      BY <1>7, <2>1, <2>2
    <3>2. AtTask(u) = <<>> \o q
      BY <1>1, <1>2, <2>1, <2>2
    <3>3. <<>> \o q = q
      BY ConcatEmptySeq
    <3> QED BY <1>6, <3>1, <3>2, <3>3
  <2>3. CASE u # t
    BY <1>7, <2>1, <2>3
  <2> QED BY <2>2, <2>3
<1> QED
  BY <1>7, <1>8, <1>9

\* A process task takes a batch.
LEMMA GetStep == ASSUME EncInv, NEW t \in Tsk, Get(t) PROVE EncInv'
<1>1. /\ batch' \in [Tsk -> Seq(Request)] /\ processQue' \in [Tsk -> Seq(Request)]
      /\ \A u \in Tsk : Len(processQue'[u]) <= QueMax
      /\ \A u \in Tsk : AtTask(u)' = AtTask(u)
  BY GetKeeps
<1>2. /\ TypeOK /\ taskPc' = [taskPc EXCEPT ![t] = "codec"]
      /\ UNCHANGED <<outer, bits, chans, reqQue, doneQue, loop, ctl, mbx>>
      /\ \A u \in Tsk : u # t => batch'[u] = batch[u]
  BY DEF EncInv, TypeOK, Get
<1>3. TypeOK'
  BY <1>1, <1>2 DEF TypeOK, outer, bits, chans, loop, ctl
<1>4. Requests' = Requests
  <2>1. {Range(AtTask(u)') : u \in Tsk} = {Range(AtTask(u)) : u \in Tsk}
    BY <1>1
  <2> QED BY <1>2, <2>1, RequestsAre
<1>5. ReqInv'
  <2>1. ASSUME NEW u \in Tsk
        PROVE  /\ taskPc'[u] # "codec" => batch'[u] = <<>>
               /\ IsInjective(AtTask(u)')
               /\ \A r \in Range(AtTask(u)') : TskOf[r.ch] = u /\ r \notin Range(doneQue')
    <3>1. /\ taskPc[u] # "codec" => batch[u] = <<>>
          /\ IsInjective(AtTask(u))
          /\ \A r \in Range(AtTask(u)) : TskOf[r.ch] = u /\ r \notin Range(doneQue)
      BY DEF EncInv, ReqInv
    <3>2. taskPc'[u] = IF u = t THEN "codec" ELSE taskPc[u]
      BY <1>2 DEF TypeOK
    <3> QED BY <1>1, <1>2, <3>1, <3>2
  <2> QED BY <1>2, <1>4, <2>1 DEF EncInv, ReqInv, bits
<1>6. FrameInv' /\ BitInv' /\ FieldInv'
  BY <1>2, <1>4, FrameStays, BitStays, FieldStays DEF EncInv, outer, bits, chans, loop
<1> QED
  BY <1>3, <1>5, <1>6 DEF EncInv

\* What was in a batch is done next.
LEMMA EncodeKeeps ==
    ASSUME EncInv, NEW t \in Tsk, Encode(t)
    PROVE  /\ doneQue' = doneQue \o batch[t] /\ AtTask(t) = batch[t] \o processQue[t]
           /\ AtTask(t)' = processQue[t]
           /\ \A u \in Tsk : u # t => AtTask(u)' = AtTask(u)
           /\ doneQue' \in Seq(Request) /\ IsInjective(doneQue')
           /\ Range(doneQue') = Range(doneQue) \cup Range(batch[t])
           /\ IsInjective(processQue[t]) /\ Range(processQue[t]) \cap Range(batch[t]) = {}
           /\ Range(AtTask(t)) = Range(batch[t]) \cup Range(processQue[t])
           /\ Requests' = Requests
<1>1. /\ batch \in [Tsk -> Seq(Request)] /\ processQue[t] \in Seq(Request) /\ batch[t] \in Seq(Request)
      /\ doneQue \in Seq(Request) /\ IsInjective(doneQue) /\ IsInjective(AtTask(t))
      /\ \A r \in Range(AtTask(t)) : TskOf[r.ch] = t /\ r \notin Range(doneQue)
      /\ Range(AtTask(t)) = Range(batch[t]) \cup Range(processQue[t])
  BY Queues DEF EncInv, TypeOK, ReqInv
<1>2. /\ doneQue' = doneQue \o batch[t] /\ batch' = [batch EXCEPT ![t] = <<>>]
      /\ processQue' = processQue
  BY DEF Encode
<1>3. AtTask(t) = batch[t] \o processQue[t]
  BY DEF AtTask
<1>4. \A u \in Tsk : AtTask(u)' = IF u = t THEN processQue[u] ELSE AtTask(u)
  <2> SUFFICES ASSUME NEW u \in Tsk PROVE AtTask(u)' = IF u = t THEN processQue[u] ELSE AtTask(u)
    OBVIOUS
  <2>1. AtTask(u) = batch[u] \o processQue[u] /\ AtTask(u)' = batch'[u] \o processQue[u]
    BY <1>2 DEF AtTask
  <2>2. batch'[u] = IF u = t THEN <<>> ELSE batch[u]
    BY <1>1, <1>2
  <2>3. <<>> \o processQue[t] = processQue[t]
    BY <1>1, ConcatEmptySeq
  <2> QED BY <2>1, <2>2, <2>3
<1>5. IsInjective(batch[t]) /\ IsInjective(processQue[t]) /\ Range(batch[t]) \cap Range(processQue[t]) = {}
  <2>1. PICK p \in Seq(Request), q \in Seq(Request) : p = batch[t] /\ q = processQue[t]
    BY <1>1
  <2>2. IsInjective(p \o q)
    BY <1>1, <1>3, <2>1
  <2>3. IsInjective(p) /\ IsInjective(q) /\ Range(p) \cap Range(q) = {}
    BY <2>2, ConcatInjective
  <2> QED BY <2>1, <2>3
<1>6. /\ doneQue' \in Seq(Request) /\ IsInjective(doneQue')
      /\ Range(doneQue') = Range(doneQue) \cup Range(batch[t])
  <2>1. PICK p \in Seq(Request), q \in Seq(Request) : p = doneQue /\ q = batch[t]
    BY <1>1
  <2>2. IsInjective(p) /\ IsInjective(q) /\ Range(p) \cap Range(q) = {}
    BY <1>1, <1>5, <2>1
  <2>3. p \o q \in Seq(Request) /\ Range(p \o q) = Range(p) \cup Range(q) /\ IsInjective(p \o q)
    BY <2>2, QueueConcat
  <2> QED BY <1>2, <2>1, <2>3
<1>7. Requests' = Requests
  <2>1. \A u \in Tsk : Range(AtTask(u)') = IF u = t THEN Range(processQue[u]) ELSE Range(AtTask(u))
    BY <1>4
  <2>2. Range(batch[t]) \cup UNION {Range(AtTask(u)') : u \in Tsk} = UNION {Range(AtTask(u)) : u \in Tsk}
    BY <1>1, <2>1
  <2> QED BY <1>6, <2>2, RequestsAre
<1> QED
  BY <1>1, <1>2, <1>3, <1>4, <1>5, <1>6, <1>7

\* Requests that were coded are done.
LEMMA EncodeStep == ASSUME EncInv, NEW t \in Tsk, Encode(t) PROVE EncInv'
<1>1. /\ AtTask(t)' = processQue[t]
      /\ \A u \in Tsk : u # t => AtTask(u)' = AtTask(u)
      /\ doneQue' \in Seq(Request) /\ IsInjective(doneQue')
      /\ Range(doneQue') = Range(doneQue) \cup Range(batch[t])
      /\ IsInjective(processQue[t]) /\ Range(processQue[t]) \cap Range(batch[t]) = {}
      /\ Range(AtTask(t)) = Range(batch[t]) \cup Range(processQue[t])
      /\ Requests' = Requests
  BY EncodeKeeps
<1>2. /\ TypeOK /\ batch' = [batch EXCEPT ![t] = <<>>]
      /\ taskPc' = [taskPc EXCEPT ![t] = IF linkPc = "join" THEN "end" ELSE "get"]
      /\ UNCHANGED <<outer, bits, chans, reqQue, processQue, loop, ctl, mbx>>
  BY DEF EncInv, Encode
<1>3. TypeOK'
  <2>1. batch' \in [Tsk -> Seq(Request)]
    BY <1>2, EmptySeq DEF TypeOK
  <2>2. taskPc' \in [Tsk -> {"get", "codec", "end"}]
    BY <1>2 DEF TypeOK
  <2> QED BY <1>1, <1>2, <2>1, <2>2 DEF TypeOK, outer, bits, chans, loop, ctl
<1>4. ReqInv'
  <2>1. ASSUME NEW u \in Tsk
        PROVE  /\ taskPc'[u] # "codec" => batch'[u] = <<>>
               /\ IsInjective(AtTask(u)')
               /\ \A r \in Range(AtTask(u)') : TskOf[r.ch] = u /\ r \notin Range(doneQue')
    <3>1. /\ \A v \in Tsk : \A r \in Range(AtTask(v)) : TskOf[r.ch] = v /\ r \notin Range(doneQue)
          /\ taskPc[u] # "codec" => batch[u] = <<>>
          /\ IsInjective(AtTask(u))
      BY DEF EncInv, ReqInv
    <3>2. /\ batch'[u] = IF u = t THEN <<>> ELSE batch[u]
          /\ taskPc'[u] = IF u = t THEN IF linkPc = "join" THEN "end" ELSE "get" ELSE taskPc[u]
      BY <1>2 DEF TypeOK
    <3>3. CASE u = t
      BY <1>1, <3>1, <3>2, <3>3
    <3>4. CASE u # t
      BY <1>1, <3>1, <3>2, <3>4
    <3> QED BY <3>3, <3>4
  <2> QED BY <1>1, <1>2, <2>1 DEF EncInv, ReqInv, bits
<1>5. FrameInv' /\ BitInv' /\ FieldInv'
  BY <1>1, <1>2, FrameStays, BitStays, FieldStays DEF EncInv, outer, bits, chans, loop
<1> QED
  BY <1>3, <1>4, <1>5 DEF EncInv

-----------------------------------------------------------------------------
(* Requests come back, and buffers go to the next link.                     *)

\* What is collected is the first few of the requests that are done.
LEMMA Collected ==
    ASSUME EncInv, GetProcessed
    PROVE  \E done \in Seq(Request), rest \in Seq(Request) :
              /\ doneQue = done \o rest /\ doneQue' = rest
              /\ IsInjective(done) /\ IsInjective(rest) /\ Range(done) \cap Range(rest) = {}
              /\ Range(doneQue) = Range(done) \cup Range(rest)
              /\ reqQue' = reqQue + Len(done) /\ fullQue' = fullQue \o done
              /\ prev' = prev \cup Used(Range(done))
              /\ Requests' = Requests \ Range(done) /\ Range(done) \subseteq Requests
              /\ Cardinality(Range(done)) = Len(done) /\ IsFiniteSet(Range(done))
<1>1. doneQue \in Seq(Request) /\ Len(doneQue) \in Nat /\ IsInjective(doneQue)
  BY LenProperties DEF EncInv, TypeOK, ReqInv
<1>2. PICK q \in Seq(Request) : q = doneQue
  BY <1>1
<1>3. \E n \in 0 .. Len(doneQue) : Fits(n) /\ (n = Len(doneQue) \/ ~Fits(n + 1))
  <2>1. Fits(0)
    BY DEF Fits
  <2>2. CASE \A n \in 0 .. Len(doneQue) : Fits(n)
    BY <1>1, <2>2
  <2>3. CASE \E n \in 0 .. Len(doneQue) : ~Fits(n)
    <3> DEFINE T == {n \in Nat : n \in 0 .. Len(doneQue) /\ ~Fits(n)}
    <3>1. T \subseteq Nat /\ T # {}
      BY <1>1, <2>3
    <3>2. PICK m \in T : \A j \in T : m <= j
      BY <3>1, LeastNatural
    <3>3. m \in 0 .. Len(doneQue) /\ ~Fits(m) /\ m # 0
      BY <2>1, <3>2
    <3>4. PICK n \in 0 .. Len(doneQue) : n + 1 = m /\ n # Len(doneQue)
      <4>1. m - 1 \in 0 .. Len(doneQue) /\ m - 1 + 1 = m /\ m - 1 # Len(doneQue)
        BY <1>1, <3>3
      <4> QED BY <4>1
    <3>5. Fits(n)
      <4>1. n \in Nat /\ ~(m <= n)
        BY <1>1, <3>3, <3>4
      <4> QED BY <3>2, <4>1
    <3> QED BY <3>3, <3>4, <3>5
  <2> QED BY <2>2, <2>3
<1>4. PICK n \in 0 .. Len(doneQue) :
         /\ doneQue' = SubSeq(doneQue, n + 1, Len(doneQue)) /\ reqQue' = reqQue + n
         /\ fullQue' = fullQue \o SubSeq(doneQue, 1, n)
         /\ prev' = prev \cup Used(ToSet(SubSeq(doneQue, 1, n)))
         /\ UNCHANGED <<processQue, batch>>
  <2> DEFINE k == CHOOSE n \in 0 .. Len(doneQue) : Fits(n) /\ (n = Len(doneQue) \/ ~Fits(n + 1))
  <2>1. k \in 0 .. Len(doneQue)
    BY <1>3
  <2>2. /\ doneQue' = SubSeq(doneQue, k + 1, Len(doneQue)) /\ reqQue' = reqQue + k
        /\ fullQue' = fullQue \o SubSeq(doneQue, 1, k)
        /\ prev' = prev \cup Used(ToSet(SubSeq(doneQue, 1, k)))
        /\ UNCHANGED <<processQue, batch>>
    BY DEF GetProcessed
  <2> HIDE DEF k
  <2> QED BY <2>1, <2>2
<1>5. PICK done \in Seq(Request), rest \in Seq(Request) :
         /\ done = SubSeq(q, 1, n) /\ rest = SubSeq(q, n + 1, Len(q)) /\ done \o rest = q
         /\ Len(done) = n /\ IsInjective(done) /\ IsInjective(rest)
         /\ Range(done) \cap Range(rest) = {} /\ Range(q) = Range(done) \cup Range(rest)
  <2>1. n \in 0 .. Len(q) /\ IsInjective(q)
    BY <1>1, <1>2
  <2>2. /\ SubSeq(q, 1, n) \in Seq(Request) /\ SubSeq(q, n + 1, Len(q)) \in Seq(Request)
        /\ SubSeq(q, 1, n) \o SubSeq(q, n + 1, Len(q)) = q
        /\ Len(SubSeq(q, 1, n)) = n
    BY <2>1, CutQueue
  <2>3. /\ IsInjective(SubSeq(q, 1, n)) /\ IsInjective(SubSeq(q, n + 1, Len(q)))
        /\ Range(SubSeq(q, 1, n)) \cap Range(SubSeq(q, n + 1, Len(q))) = {}
        /\ Range(q) = Range(SubSeq(q, 1, n)) \cup Range(SubSeq(q, n + 1, Len(q)))
    BY <2>1, CutInjective
  <2> QED BY <2>2, <2>3
<1>6. /\ doneQue' = rest /\ reqQue' = reqQue + Len(done) /\ fullQue' = fullQue \o done
      /\ prev' = prev \cup Used(Range(done)) /\ UNCHANGED <<processQue, batch>>
  BY <1>2, <1>4, <1>5, ToSetIsRange
<1>7. Cardinality(Range(done)) = Len(done) /\ IsFiniteSet(Range(done))
  BY <1>5, InjectiveCount
<1>8. Requests' = Requests \ Range(done) /\ Range(done) \subseteq Requests
  <2>1. \A t \in Tsk : AtTask(t)' = AtTask(t) /\ Range(AtTask(t)) \cap Range(doneQue) = {}
    BY <1>6 DEF AtTask, EncInv, ReqInv
  <2>2. UNION {Range(AtTask(t)') : t \in Tsk} = UNION {Range(AtTask(t)) : t \in Tsk}
    BY <2>1
  <2>3. Range(doneQue) \cap UNION {Range(AtTask(t)) : t \in Tsk} = {}
    BY <2>1
  <2> QED BY <1>2, <1>5, <1>6, <2>2, <2>3, RequestsAre
<1> QED
  BY <1>2, <1>5, <1>6, <1>7, <1>8

\* Requests come back: their frames to prev, their buffers to fullQue.
LEMMA GetProcessedStep == ASSUME EncInv, GetProcessed PROVE EncInv'
<1>1. PICK done \in Seq(Request), rest \in Seq(Request) :
         /\ doneQue = done \o rest /\ doneQue' = rest
         /\ IsInjective(done) /\ IsInjective(rest) /\ Range(done) \cap Range(rest) = {}
         /\ Range(doneQue) = Range(done) \cup Range(rest)
         /\ reqQue' = reqQue + Len(done) /\ fullQue' = fullQue \o done
         /\ prev' = prev \cup Used(Range(done))
         /\ Requests' = Requests \ Range(done) /\ Range(done) \subseteq Requests
         /\ Cardinality(Range(done)) = Len(done) /\ IsFiniteSet(Range(done))
  BY Collected
<1>2. /\ TypeOK /\ mbx # <<>> /\ mbx' = Tail(mbx)
      /\ UNCHANGED <<prevFull, fid, emptyQue, next, chans, processQue, taskPc, batch, loop, ctl>>
      /\ fullQue \in Seq(Request)
  BY DEF EncInv, TypeOK, GetProcessed, Head1
<1>3. /\ IsFiniteSet(Requests') /\ NumReq = reqQue' + Cardinality(Requests')
      /\ reqQue' \in 0 .. NumReq
  <2>1. IsFiniteSet(Requests) /\ NumReq = reqQue + Cardinality(Requests)
    BY DEF EncInv, ReqInv
  <2>2. Requests \cap Range(done) = Range(done)
    BY <1>1
  <2>3. /\ IsFiniteSet(Requests \ Range(done))
        /\ Cardinality(Requests \ Range(done)) = Cardinality(Requests) - Cardinality(Requests \cap Range(done))
    BY <2>1, FS_Difference
  <2>4. /\ reqQue \in Nat /\ NumReq \in Nat /\ Cardinality(Requests) \in Nat
        /\ Cardinality(Requests \ Range(done)) \in Nat /\ Len(done) \in Nat
    BY <1>2, <2>1, <2>3, FS_CardinalityType, EncBufferAssumption, LenProperties DEF TypeOK
  <2>5. Cardinality(Requests \ Range(done)) = Cardinality(Requests) - Len(done)
    BY <1>1, <2>2, <2>3
  <2>6. /\ NumReq = (reqQue + Len(done)) + Cardinality(Requests \ Range(done))
        /\ reqQue + Len(done) \in 0 .. NumReq
    BY <2>1, <2>4, <2>5
  <2> QED BY <1>1, <2>3, <2>6
<1>4. /\ fullQue' \in Seq(Request) /\ IsInjective(fullQue')
      /\ Range(fullQue') = Range(fullQue) \cup Range(done)
  <2>1. PICK p \in Seq(Request) : p = fullQue
    BY <1>2
  <2>2. IsInjective(p) /\ Range(p) \cap Range(done) = {}
    <3>1. IsInjective(fullQue)
      BY DEF EncInv, ReqInv
    <3>2. ASSUME NEW r \in Range(fullQue), r \in Range(done) PROVE FALSE
      <4>1. r \in Requests /\ r.out \in Bit
        BY <1>1, <3>2, Queues DEF EncInv, Request
      <4> QED BY <4>1 DEF EncInv, BitInv, BitKept, IsFull, Filling
    <3> QED BY <2>1, <3>1, <3>2
  <2>3. p \o done \in Seq(Request) /\ Range(p \o done) = Range(p) \cup Range(done) /\ IsInjective(p \o done)
    BY <1>1, <2>2, QueueConcat
  <2> QED BY <1>1, <2>1, <2>3
<1>5. TypeOK'
  <2>1. mbx' \in Seq(Cmd)
    BY <1>2, QueueTake DEF TypeOK
  <2>2. prev' \subseteq Frame
    <3>1. \A r \in Range(done) : Range(r.in) \subseteq Frame
      BY <1>1, Queues DEF EncInv
    <3>2. Used(Range(done)) \subseteq Frame
      BY <3>1, ToSetIsRange DEF Used
    <3> QED BY <1>1, <1>2, <3>2 DEF TypeOK
  <2> QED BY <1>1, <1>2, <1>3, <1>4, <2>1, <2>2 DEF TypeOK, chans, loop, ctl
<1>6. ReqInv'
  <2>1. ASSUME NEW t \in Tsk
        PROVE  /\ taskPc'[t] # "codec" => batch'[t] = <<>>
               /\ IsInjective(AtTask(t)')
               /\ \A r \in Range(AtTask(t)') : TskOf[r.ch] = t /\ r \notin Range(doneQue')
    <3>1. AtTask(t)' = AtTask(t)
      BY <1>2 DEF AtTask
    <3> QED BY <1>1, <1>2, <3>1 DEF EncInv, ReqInv
  <2>2. /\ \A r \in Requests' : Len(r.in) = Size[r.ch]
        /\ \A r \in Range(fullQue') : Len(r.in) = Size[r.ch]
    BY <1>1, <1>4 DEF EncInv, ReqInv
  <2> QED BY <1>1, <1>3, <1>4, <2>1, <2>2 DEF ReqInv
<1>7. FrameInv'
  <2>1. ASSUME NEW f \in Frame PROVE FrameKept(f)'
    <3>1. FrameKept(f)
      BY DEF EncInv, FrameInv
    <3>2. f \in Used(Range(done)) <=> \E r \in Range(done) : f \in Range(r.in)
      BY ToSetIsRange DEF Used
    <3>3. Coding(f)' <=> Coding(f) /\ f \notin Used(Range(done))
      BY <1>1, <3>1, <3>2 DEF Coding, FrameKept
    <3>4. f \in Used(Range(done)) => Coding(f)
      BY <1>1, <3>2 DEF Coding
    <3>5. \A r, s \in Requests' : f \in Range(r.in) /\ f \in Range(s.in) => r = s
      BY <1>1, <3>1 DEF FrameKept
    <3>6. /\ f \in prev' <=> f \in prev \/ f \in Used(Range(done))
          /\ prevFull' = prevFull /\ inQue' = inQue /\ freeList' = freeList
      BY <1>1, <1>2 DEF chans, loop
    <3> QED BY <3>1, <3>3, <3>4, <3>5, <3>6 DEF FrameKept
  <2> QED BY <1>2, <2>1 DEF EncInv, FrameInv, chans
<1>8. BitInv'
  <2> SUFFICES ASSUME NEW b \in Bit PROVE BitKept(b)'
    BY DEF BitInv
  <2>1. BitKept(b)
    BY DEF EncInv, BitInv
  <2> DEFINE comes == \E r \in Range(done) : r.out = b
  <2>2. (Filling(b)' <=> Filling(b) /\ ~comes) /\ (comes => Filling(b))
    BY <1>1, <2>1 DEF BitKept, Filling
  <2>3. IsFull(b)' <=> IsFull(b) \/ comes
    BY <1>4 DEF IsFull
  <2>4. \A r, s \in Requests' : r.out = b /\ s.out = b => r = s
    BY <1>1, <2>1 DEF BitKept
  <2>5. \A r, s \in Range(fullQue') : r.out = b /\ s.out = b => r = s
    <3>1. ASSUME NEW r \in Range(fullQue), NEW s \in Range(done), r.out = b, s.out = b PROVE FALSE
      BY <1>1, <2>1, <3>1 DEF BitKept, IsFull, Filling
    <3>2. \A r, s \in Range(done) : r.out = b /\ s.out = b => r = s
      BY <1>1, <2>1 DEF BitKept
    <3>3. \A r, s \in Range(fullQue) : r.out = b /\ s.out = b => r = s
      BY <2>1 DEF BitKept
    <3> QED BY <1>4, <3>1, <3>2, <3>3
  <2> HIDE DEF comes
  <2> QED BY <1>2, <2>1, <2>2, <2>3, <2>4, <2>5 DEF BitKept
<1>9. FieldInv'
  <2>1. Requests' \subseteq Requests
    BY <1>1
  <2> QED BY <1>2, <2>1, FieldStays DEF EncInv, chans
<1> QED
  BY <1>5, <1>6, <1>7, <1>8, <1>9 DEF EncInv

\* The end of a stop.
LEMMA StoppedStep == ASSUME EncInv, Stopped PROVE EncInv'
<1>1. /\ TypeOK /\ prev' = prev \cup Range(prevFull) /\ prevFull' = <<>>
      /\ UNCHANGED <<fid, bits, chans, reqQue, processQue, doneQue, batch, idx, tries,
                     freeList, phase, mbx>>
  BY ToSetIsRange DEF EncInv, Stopped
<1>2. /\ taskPc' \in [Tsk -> {"get", "codec", "end"}]
      /\ \A t \in Tsk : taskPc'[t] = "codec" <=> taskPc[t] = "codec"
      /\ linkPc' \in {"join", "idle"} /\ pMsg' \in Caller \cup {None}
      /\ control' \in [Caller -> {"none", "STOP", "DELETE"}]
  <2>1. CASE control[pMsg] = "DELETE"
    <3>1. linkPc' = "join" /\ Unblock /\ pMsg' = pMsg /\ control' = control
      BY <2>1 DEF Stopped
    <3> QED BY <1>1, <3>1 DEF Unblock, TypeOK
  <2>2. CASE control[pMsg] # "DELETE"
    <3>1. linkPc' = "idle" /\ pMsg' = None /\ Ack({pMsg}) /\ taskPc' = taskPc
      BY <2>2 DEF Stopped
    <3> QED BY <1>1, <3>1 DEF Ack, TypeOK
  <2> QED BY <2>1, <2>2
<1>3. prevFull \in Seq(Frame) /\ Range(prevFull) \subseteq Frame
  BY <1>1, RangeOfSeq DEF TypeOK
<1>4. TypeOK'
  <2>1. prev' \subseteq Frame /\ prevFull' \in Seq(Frame)
    BY <1>1, <1>3, EmptySeq DEF TypeOK
  <2> QED BY <1>1, <1>2, <2>1 DEF TypeOK, bits, chans
<1>5. Requests' = Requests /\ \A t : AtTask(t)' = AtTask(t)
  BY <1>1, RequestsStay
<1>6. ReqInv'
  BY <1>1, <1>2, <1>5 DEF EncInv, ReqInv, bits
<1>7. FrameInv'
  <2>1. ASSUME NEW f \in Frame PROVE FrameKept(f)'
    <3>1. FrameKept(f)
      BY DEF EncInv, FrameInv
    <3>2. (Coding(f)' <=> Coding(f)) /\ inQue' = inQue /\ freeList' = freeList
      BY <1>1, <1>5 DEF Coding, chans
    <3>3. \A r, q \in Requests' : f \in Range(r.in) /\ f \in Range(q.in) => r = q
      BY <1>5, <3>1 DEF FrameKept
    <3>4. (f \in prev' <=> f \in prev \/ f \in Range(prevFull)) /\ f \notin Range(prevFull')
      BY <1>1, EmptyQueue
    <3> QED BY <3>1, <3>2, <3>3, <3>4 DEF FrameKept
  <2> QED BY <1>1, <2>1, EmptyQueue DEF EncInv, FrameInv, chans
<1>8. BitInv' /\ FieldInv'
  BY <1>1, <1>5, BitStays, FieldStays DEF EncInv, bits, chans
<1> QED
  BY <1>4, <1>6, <1>7, <1>8 DEF EncInv

\* Buffers move on to the next link,
LEMMA GetFullBufsStep == ASSUME EncInv, GetFullBufs PROVE EncInv'
<1>1. /\ TypeOK /\ fullQue' = <<>> /\ fullQue \in Seq(Request)
      /\ next' = next \cup {fullQue[i].out : i \in DOMAIN fullQue}
      /\ UNCHANGED <<outer, emptyQue, chans, reqQue, tasks, loop, ctl, mbx>>
  BY DEF EncInv, TypeOK, GetFullBufs
<1>2. {fullQue[i].out : i \in DOMAIN fullQue} = {r.out : r \in Range(fullQue)}
  BY DEF Range
<1>3. next' = next \cup {r.out : r \in Range(fullQue)}
  BY <1>1, <1>2
<1>4. Requests' = Requests /\ \A t : AtTask(t)' = AtTask(t)
  BY <1>1, RequestsStay DEF tasks
<1>5. TypeOK'
  <2>1. \A r \in Range(fullQue) : r.out \in Bit
    BY Queues DEF EncInv, Request
  <2>2. next' \subseteq Bit /\ fullQue' \in Seq(Request)
    BY <1>1, <1>3, <2>1, EmptySeq DEF TypeOK
  <2> QED BY <1>1, <2>2 DEF TypeOK, outer, chans, tasks, loop, ctl
<1>6. ReqInv'
  <2>1. Range(fullQue') = {} /\ IsInjective(fullQue')
    BY <1>1, EmptyQueue
  <2> QED BY <1>1, <1>4, <2>1 DEF EncInv, ReqInv, tasks
<1>7. BitInv'
  <2> SUFFICES ASSUME NEW b \in Bit PROVE BitKept(b)'
    BY DEF BitInv
  <2>1. BitKept(b)
    BY DEF EncInv, BitInv
  <2>2. (b \in next' <=> b \in next \/ IsFull(b)) /\ ~IsFull(b)' /\ Range(fullQue') = {}
    BY <1>1, <1>3, EmptyQueue DEF IsFull
  <2> QED BY <1>1, <1>4, <2>1, <2>2 DEF BitKept, Filling
<1>8. FrameInv' /\ FieldInv'
  BY <1>1, <1>4, FrameStays, FieldStays DEF EncInv, outer, chans, loop
<1> QED
  BY <1>5, <1>6, <1>7, <1>8 DEF EncInv

\* ... and come back empty.
LEMMA PutEmptyBufsStep == ASSUME EncInv, NEW S \in SUBSET next, PutEmptyBufs(S) PROVE EncInv'
<1>1. /\ TypeOK /\ next' = next \ S /\ emptyQue' = emptyQue \cup S /\ S \subseteq next
      /\ UNCHANGED <<outer, fullQue, chans, reqQue, tasks, loop, ctl, mbx>>
  BY DEF EncInv, PutEmptyBufs
<1>2. Requests' = Requests
  BY <1>1, RequestsStay DEF tasks
<1>3. TypeOK'
  <2>1. next' \subseteq Bit /\ emptyQue' \subseteq Bit
    BY <1>1 DEF TypeOK
  <2> QED BY <1>1, <2>1 DEF TypeOK, outer, chans, tasks, loop, ctl
<1>4. BitInv'
  <2> SUFFICES ASSUME NEW b \in Bit PROVE BitKept(b)'
    BY DEF BitInv
  <2>1. BitKept(b)
    BY DEF EncInv, BitInv
  <2>2. /\ (IsFull(b)' <=> IsFull(b)) /\ (Filling(b)' <=> Filling(b)) /\ fullQue' = fullQue
        /\ b \in next' <=> b \in next /\ b \notin S
        /\ b \in emptyQue' <=> b \in emptyQue \/ b \in S
    BY <1>1, <1>2 DEF IsFull, Filling
  <2> QED BY <1>1, <1>2, <2>1, <2>2 DEF BitKept
<1>5. ReqInv' /\ FrameInv' /\ FieldInv'
  BY <1>1, <1>2, ReqStays, FrameStays, FieldStays DEF EncInv, outer, chans, loop, tasks
<1> QED
  BY <1>3, <1>4, <1>5 DEF EncInv

\* No step breaks the invariant.
LEMMA EncNext == EncInv /\ [Next]_vars => EncInv'
<1> SUFFICES ASSUME EncInv, [Next]_vars PROVE EncInv'
  OBVIOUS
<1>1. CASE QueueFrames
  BY <1>1, QueueFramesStep
<1>2. CASE SubmitData
  BY <1>2, NoRequestStep, SubmitStep, DropStep, NothingStep DEF SubmitData
<1>3. CASE RecvGet
  BY <1>3, GetProcessedStep DEF RecvGet
<1>4. CASE \E c \in Caller : RecvStop(c)
  BY <1>4, RecvStopStep
<1>5. CASE StopGet
  BY <1>5, GetProcessedStep DEF StopGet
<1>6. CASE StopDrop
  BY <1>6, StopDropStep
<1>7. CASE Stopped
  BY <1>7, StoppedStep
<1>8. CASE Join
  BY <1>8, JoinStep
<1>9. CASE \E t \in Tsk : Get(t) \/ Encode(t)
  BY <1>9, GetStep, EncodeStep
<1>10. CASE NextLink
  BY <1>10, GetFullBufsStep, PutEmptyBufsStep DEF NextLink
<1>11. CASE \E s \in Lists : Fill(s)
  BY <1>11, FillStep
<1>12. CASE Tick
  BY <1>12, TickStep
<1>13. CASE \E c \in Caller, cmd \in {"STOP", "DELETE"} : Ask(c, cmd)
  BY <1>13, AskStep
<1>14. CASE UNCHANGED vars
  <2>1. UNCHANGED <<outer, bits, chans, reqQue, tasks, freeList, loop, ctl, mbx>>
    BY <1>14 DEF vars, loop
  <2>2. TypeOK'
    BY <2>1 DEF EncInv, TypeOK, outer, bits, chans, tasks, loop, ctl
  <2> QED BY <2>1, <2>2, StillStep
<1> QED
  BY <1>1, <1>2, <1>3, <1>4, <1>5, <1>6, <1>7, <1>8, <1>9, <1>10, <1>11, <1>12, <1>13, <1>14
     DEF Next, LinkTask, Done

(* The invariant holds in every reachable state: whatever the code does     *)
(* next, in the link's task, a process task or at a neighbour, keeps it.    *)
THEOREM EncInvariant == Spec => []EncInv
BY EncInit, EncNext, PTL DEF Spec

(* The queues hold frames and requests, no process queue more of them than  *)
(* it was made for (encLink_common.c:1186), and the free request objects    *)
(* are never more than there are.                                           *)
THEOREM TypeCorrect == Spec => []TypeOK
<1>1. EncInv => TypeOK
  BY DEF EncInv
<1> QED
  BY <1>1, EncInvariant, PTL

-----------------------------------------------------------------------------
(* What the invariant says of the properties of the run.                    *)

\* A set whose members are all the same has one at most.
LEMMA AtMostOne ==
    ASSUME NEW S, \A x, y \in S : x = y
    PROVE  Cardinality(S) = IF S = {} THEN 0 ELSE 1
<1>1. CASE S = {}
  BY <1>1, FS_EmptySet
<1>2. CASE S # {}
  <2>1. PICK x : S = {x}
    BY <1>2
  <2> QED BY <1>2, <2>1, FS_Singleton
<1> QED
  BY <1>1, <1>2

\* In a queue without repetitions an item has one place at most.
LEMMA PlacesOnce ==
    ASSUME NEW s, IsInjective(s), NEW x
    PROVE  Places(s, x) = IF x \in Range(s) THEN 1 ELSE 0
<1> DEFINE P == {i \in DOMAIN s : s[i] = x}
<1>1. \A i, j \in P : i = j
  BY DEF IsInjective
<1>2. Cardinality(P) = IF P = {} THEN 0 ELSE 1
  BY <1>1, AtMostOne
<1>3. P = {} <=> x \notin Range(s)
  BY DEF Range
<1> QED
  BY <1>2, <1>3 DEF Places

\* A frame is in one place ...
LEMMA FrameOnce ==
    ASSUME EncInv, NEW f \in Frame
    PROVE  1 = (IF f \in prev THEN 1 ELSE 0) + (IF f \in freeList THEN 1 ELSE 0)
               + Places(prevFull, f) + Places(inQue[ChOf[f]], f)
               + Cardinality({r \in Requests : f \in ToSet(r.in)})
<1> DEFINE R == {r \in Requests : f \in ToSet(r.in)}
           waits == f \in Range(inQue[ChOf[f]])
<1>1. FrameKept(f) /\ ChOf[f] \in Ch /\ IsInjective(prevFull) /\ IsInjective(inQue[ChOf[f]])
  BY EncChannelAssumption DEF EncInv, FrameInv
<1>2. /\ Places(prevFull, f) = IF f \in Range(prevFull) THEN 1 ELSE 0
      /\ Places(inQue[ChOf[f]], f) = IF waits THEN 1 ELSE 0
  BY <1>1, PlacesOnce
<1>3. Cardinality(R) = IF Coding(f) THEN 1 ELSE 0
  <2>1. (R = {} <=> ~Coding(f)) /\ \A r, s \in R : r = s
    BY <1>1, ToSetIsRange DEF Coding, FrameKept
  <2>2. Cardinality(R) = IF R = {} THEN 0 ELSE 1
    BY <2>1, AtMostOne
  <2> QED BY <2>1, <2>2
<1> HIDE DEF R
<1>4. \/ f \in prev \/ f \in freeList \/ f \in Range(prevFull) \/ waits \/ Coding(f)
  BY <1>1 DEF FrameKept
<1>5. /\ f \in prev => f \notin freeList /\ f \notin Range(prevFull) /\ ~waits /\ ~Coding(f)
      /\ f \in freeList => f \notin Range(prevFull) /\ ~waits /\ ~Coding(f)
      /\ f \in Range(prevFull) => ~waits /\ ~Coding(f)
      /\ waits => ~Coding(f)
  BY <1>1 DEF FrameKept
<1> HIDE DEF waits
<1>6. 1 = (IF f \in prev THEN 1 ELSE 0) + (IF f \in freeList THEN 1 ELSE 0)
          + (IF f \in Range(prevFull) THEN 1 ELSE 0) + (IF waits THEN 1 ELSE 0)
          + (IF Coding(f) THEN 1 ELSE 0)
  BY <1>4, <1>5
<1> QED
  BY <1>2, <1>3, <1>6 DEF R

\* ... and so is a bit buffer.
LEMMA BufferOnce ==
    ASSUME EncInv, NEW b \in Bit
    PROVE  1 = (IF b \in emptyQue THEN 1 ELSE 0) + (IF b \in next THEN 1 ELSE 0)
               + Cardinality({i \in DOMAIN fullQue : fullQue[i].out = b})
               + Cardinality({r \in Requests : r.out = b})
<1> DEFINE R == {r \in Requests : r.out = b}
           F == {i \in DOMAIN fullQue : fullQue[i].out = b}
<1>1. BitKept(b) /\ IsInjective(fullQue)
  BY DEF EncInv, BitInv, ReqInv
<1>2. Cardinality(R) = IF Filling(b) THEN 1 ELSE 0
  <2>1. (R = {} <=> ~Filling(b)) /\ \A r, s \in R : r = s
    BY <1>1 DEF Filling, BitKept
  <2>2. Cardinality(R) = IF R = {} THEN 0 ELSE 1
    BY <2>1, AtMostOne
  <2> QED BY <2>1, <2>2
<1>3. Cardinality(F) = IF IsFull(b) THEN 1 ELSE 0
  <2>1. (F = {} <=> ~IsFull(b))
    BY DEF IsFull, Range
  <2>2. ASSUME NEW i \in F, NEW j \in F PROVE i = j
    <3>1. fullQue[i] \in Range(fullQue) /\ fullQue[j] \in Range(fullQue)
      BY DEF Range
    <3>2. fullQue[i] = fullQue[j]
      BY <1>1, <3>1 DEF BitKept
    <3> QED BY <1>1, <3>2 DEF IsInjective
  <2>3. Cardinality(F) = IF F = {} THEN 0 ELSE 1
    BY <2>2, AtMostOne
  <2> QED BY <2>1, <2>3
<1> HIDE DEF R, F
<1>4. \/ b \in emptyQue \/ b \in next \/ IsFull(b) \/ Filling(b)
  BY <1>1 DEF BitKept
<1>5. /\ b \in emptyQue => b \notin next /\ ~IsFull(b) /\ ~Filling(b)
      /\ b \in next => ~IsFull(b) /\ ~Filling(b)
      /\ IsFull(b) => ~Filling(b)
  BY <1>1 DEF BitKept
<1>6. 1 = (IF b \in emptyQue THEN 1 ELSE 0) + (IF b \in next THEN 1 ELSE 0)
          + (IF IsFull(b) THEN 1 ELSE 0) + (IF Filling(b) THEN 1 ELSE 0)
  BY <1>4, <1>5
<1> QED
  BY <1>2, <1>3, <1>6 DEF R, F

(* Every frame, bit buffer and request object is in one place in every      *)
(* reachable state, through every way out of the submission, every batch    *)
(* and a stop.                                                              *)
THEOREM AlwaysBuffersKept == Spec => []BuffersKept
<1>1. EncInv => BuffersKept
  BY FrameOnce, BufferOnce DEF EncInv, ReqInv, BuffersKept
<1> QED
  BY <1>1, EncInvariant, PTL

(* The two fields of a picture are a top and a bottom one, where no frame   *)
(* of the channel is skipped, whatever fields the previous link loses.      *)
THEOREM AlwaysFieldsPaired == Spec => []FieldsPaired
<1>1. EncInv => FieldsPaired
  BY DEF EncInv, FieldInv
<1> QED
  BY <1>1, EncInvariant, PTL

-----------------------------------------------------------------------------
(* The link is a line of pictures.                                          *)

\* The pictures of a channel with the codec, and their frames.
Held(ch) == Pictures(doneQue \o AtTask(TskOf[ch]), ch)
Flat(ch) == FlattenSeq(Held(ch))

\* The first part of two.
LEMMA FirstPart ==
    ASSUME NEW S, NEW s \in Seq(S), NEW t \in Seq(S)
    PROVE  SubSeq(s \o t, 1, Len(s)) = s
<1>1. /\ s \o t \in Seq(S) /\ Len(s \o t) = Len(s) + Len(t)
      /\ \A i \in 1 .. Len(s) + Len(t) : (s \o t)[i] = IF i <= Len(s) THEN s[i] ELSE t[i - Len(s)]
  BY ConcatProperties
<1>2. Len(s) \in Nat /\ Len(t) \in Nat
  BY LenProperties
<1>3. PICK w \in Seq(S) : w = s \o t
  BY <1>1
<1>4. Len(s) \in 0 .. Len(w)
  BY <1>1, <1>2, <1>3
<1>5. /\ SubSeq(w, 1, Len(s)) \in Seq(S) /\ Len(SubSeq(w, 1, Len(s))) = Len(s)
      /\ \A i \in 1 .. Len(s) : SubSeq(w, 1, Len(s))[i] = w[i]
  BY <1>4, CutQueue
<1>6. \A i \in 1 .. Len(s) : w[i] = s[i]
  BY <1>1, <1>2, <1>3
<1>7. SubSeq(w, 1, Len(s)) = s
  BY <1>5, <1>6, SeqEqual
<1> QED
  BY <1>3, <1>7

\* The picture of a single request.
LEMMA PicturesOne ==
    ASSUME NEW r \in Request, NEW ch
    PROVE  Pictures(<<r>>, ch) = IF r.ch = ch THEN <<r.in>> ELSE <<>>
<1>1. <<r>> \in Seq(Request) /\ Len(<<r>>) = 1 /\ DOMAIN <<r>> = {1}
  OBVIOUS
<1>2. CASE r.ch = ch
  <2> DEFINE p == [i \in DOMAIN <<r>> |-> IF <<r>>[i].ch = ch THEN <<<<r>>[i].in>> ELSE <<>>]
  <2>1. r.in \in Seq(Frame) /\ <<r.in>> \in Seq(Seq(Frame)) /\ <<>> \in Seq(Seq(Seq(Frame)))
    BY EmptySeq DEF Request
  <2>2. p = <<<<r.in>>>>
    BY <1>1, <1>2
  <2>3. p = Append(<<>>, <<r.in>>)
    BY <2>2
  <2>4. FlattenSeq(<<>>) = <<>> /\ <<>> \in Seq(Seq(Frame))
    BY FlattenEmpty, EmptySeq
  <2>5. PICK o \in Seq(Seq(Seq(Frame))) : o = <<>>
    BY <2>1
  <2>6. FlattenSeq(Append(o, <<r.in>>)) = FlattenSeq(o) \o <<r.in>>
    BY <2>1, <2>4, <2>5, FlattenAppend
  <2>7. <<>> \o <<r.in>> = <<r.in>>
    BY <2>1, ConcatEmptySeq
  <2> HIDE DEF p
  <2>8. FlattenSeq(p) = <<r.in>>
    BY <2>3, <2>4, <2>5, <2>6, <2>7
  <2> QED BY <1>2, <2>8 DEF Pictures, p
<1>3. CASE r.ch # ch
  <2>1. Range(<<r>>) = {r}
    BY SingletonRange
  <2>2. Pictures(<<r>>, ch) = <<>>
    BY <1>1, <1>3, <2>1, PicturesNone
  <2> QED BY <1>3, <2>2
<1> QED
  BY <1>2, <1>3

\* What a channel has inside: pictures, then single frames.
LEMMA InsideIs ==
    ASSUME TypeOK, NEW ch \in Ch
    PROVE  /\ doneQue \in Seq(Request) /\ AtTask(TskOf[ch]) \in Seq(Request) /\ TskOf[ch] \in Tsk
           /\ doneQue \o AtTask(TskOf[ch]) \in Seq(Request)
           /\ Held(ch) \in Seq(Seq(Frame)) /\ Flat(ch) \in Seq(Frame)
           /\ inQue[ch] \in Seq(Frame) /\ Inside[ch] \in Seq(Frame)
           /\ Inside[ch] = Flat(ch) \o inQue[ch]
           /\ Held(ch) = Pictures(doneQue, ch) \o Pictures(AtTask(TskOf[ch]), ch)
<1>1. /\ doneQue \in Seq(Request) /\ TskOf[ch] \in Tsk /\ AtTask(TskOf[ch]) \in Seq(Request)
      /\ inQue[ch] \in Seq(Frame)
  BY Queues, EncChannelAssumption
<1>2. PICK p \in Seq(Request), q \in Seq(Request) : p = doneQue /\ q = AtTask(TskOf[ch])
  BY <1>1
<1>3. p \o q \in Seq(Request)
  BY QueueConcat
<1>4. Pictures(p \o q, ch) \in Seq(Seq(Frame)) /\ Pictures(p \o q, ch) = Pictures(p, ch) \o Pictures(q, ch)
  BY <1>3, PicturesType, PicturesConcat
<1>5. Held(ch) \in Seq(Seq(Frame)) /\ Flat(ch) \in Seq(Frame)
  BY <1>2, <1>4, FlattenType DEF Held, Flat
<1>6. Inside[ch] = Flat(ch) \o inQue[ch]
  BY DEF Inside, Flat, Held
<1>7. Flat(ch) \o inQue[ch] \in Seq(Frame)
  BY <1>1, <1>5, ConcatProperties
<1> QED
  BY <1>1, <1>2, <1>3, <1>4, <1>5, <1>6, <1>7 DEF Held

\* Those pictures are of requests, and as long as they should be.
LEMMA HeldAre ==
    ASSUME EncInv, NEW ch \in Ch
    PROVE  /\ \A e \in Range(Held(ch)) : Len(e) = Size[ch] /\ \E r \in Requests : r.ch = ch /\ r.in = e
           /\ \A f \in Range(Inside[ch]) :
                 f \in Range(inQue[ch]) \/ \E r \in Requests : f \in Range(r.in)
<1>1. PICK q \in Seq(Request) : q = doneQue \o AtTask(TskOf[ch])
  BY InsideIs DEF EncInv
<1>2. Range(q) \subseteq Requests
  <2>1. PICK s \in Seq(Request), t \in Seq(Request) : s = doneQue /\ t = AtTask(TskOf[ch])
    BY InsideIs DEF EncInv
  <2>2. Range(s \o t) = Range(s) \cup Range(t)
    BY QueueConcat
  <2>3. TskOf[ch] \in Tsk
    BY EncChannelAssumption
  <2> QED BY <1>1, <2>1, <2>2, <2>3, RequestsAre
<1>3. Range(Pictures(q, ch)) = {r.in : r \in {x \in Range(q) : x.ch = ch}}
  BY PicturesRange
<1>4. ASSUME NEW e \in Range(Held(ch))
      PROVE  Len(e) = Size[ch] /\ \E r \in Requests : r.ch = ch /\ r.in = e
  <2>1. PICK r \in Requests : r.ch = ch /\ r.in = e
    BY <1>1, <1>2, <1>3, <1>4 DEF Held
  <2> QED BY <2>1 DEF EncInv, ReqInv
<1>5. ASSUME NEW f \in Range(Inside[ch])
      PROVE  f \in Range(inQue[ch]) \/ \E r \in Requests : f \in Range(r.in)
  <2>1. PICK h \in Seq(Seq(Frame)), i \in Seq(Frame) :
           h = Held(ch) /\ i = inQue[ch] /\ Inside[ch] = FlattenSeq(h) \o i
    BY InsideIs DEF EncInv, Flat
  <2>2. FlattenSeq(h) \in Seq(Frame)
    BY FlattenType
  <2>3. Range(FlattenSeq(h) \o i) = Range(FlattenSeq(h)) \cup Range(i)
    BY <2>2, QueueConcat
  <2>4. Range(FlattenSeq(h)) = UNION {Range(e) : e \in Range(h)}
    BY FlattenRange
  <2> QED BY <1>4, <1>5, <2>1, <2>3, <2>4
<1> QED
  BY <1>4, <1>5

\* Frames and requests that stay, or only pass on, change nothing here.
LEMMA LineStays ==
    ASSUME \A ch \in Ch : Held(ch)' = Held(ch) /\ inQue'[ch] = inQue[ch], fullQue' = fullQue
    PROVE  UNCHANGED <<Inside, Coded>>
BY DEF Inside, Coded, Held
LEMMA QueuesStay ==
    ASSUME doneQue' = doneQue, \A t \in Tsk : AtTask(t)' = AtTask(t)
    PROVE  \A ch \in Ch : Held(ch)' = Held(ch)
BY EncChannelAssumption DEF Held

\* At first the line is empty.
LEMMA InsideInit == Init => Line!Init
<1> SUFFICES ASSUME Init PROVE Line!Init
  OBVIOUS
<1>1. /\ doneQue = <<>> /\ fullQue = <<>> /\ \A ch \in Ch : inQue[ch] = <<>>
      /\ \A t \in Tsk : AtTask(t) = <<>> \o <<>>
  BY DEF Init, AtTask
<1>2. <<>> \o <<>> = <<>>
  BY EmptySeq, ConcatEmptySeq
<1>3. ASSUME NEW ch \in Ch PROVE Inside[ch] = <<>> /\ Coded[ch] = <<>>
  <2>1. TskOf[ch] \in Tsk
    BY EncChannelAssumption
  <2>2. doneQue \o AtTask(TskOf[ch]) = <<>>
    BY <1>1, <1>2, <2>1
  <2>3. Pictures(doneQue \o AtTask(TskOf[ch]), ch) = <<>> /\ Pictures(fullQue, ch) = <<>>
    BY <1>1, <2>2, PicturesEmpty
  <2>4. FlattenSeq(Pictures(doneQue \o AtTask(TskOf[ch]), ch)) \o inQue[ch] = <<>>
    BY <1>1, <1>2, <2>3, FlattenEmpty
  <2> QED BY <2>3, <2>4 DEF Inside, Coded
<1> QED
  BY <1>3 DEF Line!Init, Inside, Coded

\* The frames that are sorted enter.
LEMMA QueueFramesEnters == ASSUME EncInv, QueueFrames PROVE Line!Enter
<1>1. PICK skip \in SUBSET {f \in ToSet(prevFull) : ChOf[f] \in Skipping} :
         inQue' = SortAll(skip).in
  BY DEF QueueFrames
<1>2. PICK a : a = SortAll(skip)
  OBVIOUS
<1>3. TypeOK /\ UNCHANGED <<processQue, batch, doneQue, fullQue>>
  BY DEF EncInv, QueueFrames, bits, tasks
<1>4. SortedTo(a, skip, Len(prevFull)) /\ Before(Len(prevFull)) = Range(prevFull)
  BY <1>2, SortedAll
<1>5. \A ch \in Ch : Held(ch)' = Held(ch)
  BY <1>3, RequestsStay, QueuesStay
<1>6. ASSUME NEW ch \in Ch
      PROVE  /\ Len(Inside'[ch]) >= Len(Inside[ch])
             /\ SubSeq(Inside'[ch], 1, Len(Inside[ch])) = Inside[ch]
             /\ \A i \in Len(Inside[ch]) + 1 .. Len(Inside'[ch]) : Inside'[ch][i] \in Range(prevFull)
  <2>1. PICK s \in Seq(Frame), q \in Seq(Frame), p \in Seq(Frame) :
           s = Flat(ch) /\ q = inQue[ch] /\ p = inQue'[ch]
    <3>1. inQue'[ch] \in Seq(Frame)
      BY <1>1, <1>2, <1>4 DEF SortedTo
    <3> QED BY <1>3, <3>1, InsideIs
  <2>2. Inside[ch] = s \o q /\ Inside'[ch] = s \o p
    BY <1>3, <1>5, <2>1, InsideIs DEF Inside, Flat, Held
  <2>3. /\ Len(p) >= Len(q) /\ \A i \in 1 .. Len(q) : p[i] = q[i]
        /\ \A i \in Len(q) + 1 .. Len(p) : p[i] \in Range(prevFull)
    BY <1>1, <1>2, <1>4, <2>1 DEF SortedTo
  <2>4. Len(s) \in Nat /\ Len(q) \in Nat /\ Len(p) \in Nat
    BY LenProperties
  <2>5. PICK u \in Seq(Frame), w \in Seq(Frame) :
           /\ u = s \o q /\ Len(u) = Len(s) + Len(q)
           /\ \A i \in 1 .. Len(s) + Len(q) : u[i] = IF i <= Len(s) THEN s[i] ELSE q[i - Len(s)]
           /\ w = s \o p /\ Len(w) = Len(s) + Len(p)
           /\ \A i \in 1 .. Len(s) + Len(p) : w[i] = IF i <= Len(s) THEN s[i] ELSE p[i - Len(s)]
    <3>1. /\ s \o q \in Seq(Frame) /\ Len(s \o q) = Len(s) + Len(q)
          /\ \A i \in 1 .. Len(s) + Len(q) :
                (s \o q)[i] = IF i <= Len(s) THEN s[i] ELSE q[i - Len(s)]
      BY ConcatProperties
    <3>2. /\ s \o p \in Seq(Frame) /\ Len(s \o p) = Len(s) + Len(p)
          /\ \A i \in 1 .. Len(s) + Len(p) :
                (s \o p)[i] = IF i <= Len(s) THEN s[i] ELSE p[i - Len(s)]
      BY ConcatProperties
    <3> QED BY <3>1, <3>2
  <2>6. Len(w) >= Len(u)
    BY <2>3, <2>4, <2>5
  <2>7. SubSeq(w, 1, Len(u)) = u
    <3>1. Len(u) \in 0 .. Len(w)
      BY <2>3, <2>4, <2>5
    <3>2. /\ SubSeq(w, 1, Len(u)) \in Seq(Frame) /\ Len(SubSeq(w, 1, Len(u))) = Len(u)
          /\ \A i \in 1 .. Len(u) : SubSeq(w, 1, Len(u))[i] = w[i]
      BY <3>1, CutQueue
    <3>3. ASSUME NEW i \in 1 .. Len(u) PROVE w[i] = u[i]
      <4>1. i \in 1 .. Len(s) + Len(q) /\ i \in 1 .. Len(s) + Len(p)
        BY <2>3, <2>4, <2>5
      <4>2. CASE i <= Len(s)
        BY <2>5, <4>1, <4>2
      <4>3. CASE ~(i <= Len(s))
        <5>1. i - Len(s) \in 1 .. Len(q)
          BY <2>4, <4>1, <4>3
        <5>2. u[i] = q[i - Len(s)] /\ w[i] = p[i - Len(s)]
          BY <2>5, <4>1, <4>3
        <5> QED BY <2>3, <5>1, <5>2
      <4> QED BY <4>2, <4>3
    <3> QED BY <3>2, <3>3, SeqEqual
  <2>8. ASSUME NEW i \in Len(u) + 1 .. Len(w) PROVE w[i] \in Range(prevFull)
    <3>1. i \in 1 .. Len(s) + Len(p) /\ ~(i <= Len(s)) /\ i - Len(s) \in Len(q) + 1 .. Len(p)
      BY <2>4, <2>5
    <3>2. w[i] = p[i - Len(s)]
      BY <2>5, <3>1
    <3> QED BY <2>3, <3>1, <3>2
  <2> QED BY <2>2, <2>5, <2>6, <2>7, <2>8
<1>7. ASSUME NEW f \in Range(prevFull) PROVE f \in Frame /\ ~Line!Has(f)
  <2>1. f \in Frame
    BY <1>3, Queues, RangeOfSeq
  <2>2. FrameKept(f) /\ f \notin Range(inQue[ChOf[f]]) /\ ~Coding(f)
    BY <2>1 DEF EncInv, FrameInv, FrameKept
  <2>3. ASSUME NEW ch \in Ch, NEW i \in DOMAIN Inside[ch], Inside[ch][i] = f PROVE FALSE
    <3>1. f \in Range(Inside[ch])
      BY <2>3 DEF Range
    <3>2. f \in Range(inQue[ch]) \/ Coding(f)
      BY <3>1, HeldAre DEF Coding
    <3>3. f \in Range(inQue[ch]) => ChOf[f] = ch
      BY DEF EncInv, FrameInv
    <3> QED BY <2>2, <3>2, <3>3
  <2> QED BY <2>1, <2>3 DEF Line!Has
<1>8. Coded' = Coded
  BY <1>3 DEF Coded
<1> QED
  BY <1>6, <1>7, <1>8 DEF Line!Enter

\* A picture that is submitted stays where it is in the line.
LEMMA SubmitStays == ASSUME EncInv, NEW b \in Bit, Submit(b) PROVE UNCHANGED <<Inside, Coded>>
<1>1. PICK r \in Request :
         /\ r.ch = idx /\ r.in = Picture
         /\ \A t \in Tsk : AtTask(t)' = IF t = TskOf[idx] THEN Append(AtTask(t), r) ELSE AtTask(t)
  BY NewRequest
<1>2. /\ TypeOK /\ Enough /\ inQue' = [inQue EXCEPT ![idx] = Rest] /\ doneQue' = doneQue
      /\ fullQue' = fullQue
  BY DEF EncInv, Submit
<1>3. /\ idx \in Ch /\ Picture \in Seq(Frame) /\ Rest \in Seq(Frame) /\ Picture \o Rest = inQue[idx]
      /\ \A c \in Ch : inQue'[c] = IF c = idx THEN Rest ELSE inQue[c]
  BY <1>2, PictureCut, InQueCut
<1>4. ASSUME NEW ch \in Ch
      PROVE  Held(ch)' = IF ch = idx THEN Held(ch) \o <<Picture>> ELSE Held(ch)
  <2>1. PICK d \in Seq(Request), q \in Seq(Request) : d = doneQue /\ q = AtTask(TskOf[ch])
    BY <1>2, InsideIs
  <2>2. TskOf[ch] \in Tsk
    BY EncChannelAssumption
  <2>3. CASE TskOf[ch] # TskOf[idx]
    BY <1>1, <1>2, <2>2, <2>3 DEF Held
  <2>4. CASE TskOf[ch] = TskOf[idx]
    <3>1. Held(ch) = Pictures(d \o q, ch)
      BY <2>1 DEF Held
    <3>2. Held(ch)' = Pictures(d \o Append(q, r), ch)
      BY <1>1, <1>2, <2>1, <2>2, <2>4 DEF Held
    <3>3. d \o Append(q, r) = Append(d \o q, r)
      BY ConcatAppend
    <3>4. PICK w \in Seq(Request) : w = d \o q
      BY QueueConcat
    <3>5. Append(w, r) = w \o <<r>> /\ <<r>> \in Seq(Request)
      BY AppendIsConcat
    <3>6. Pictures(w \o <<r>>, ch) = Pictures(w, ch) \o Pictures(<<r>>, ch)
      BY <3>5, PicturesConcat
    <3>7. Pictures(<<r>>, ch) = IF ch = idx THEN <<Picture>> ELSE <<>>
      BY <1>1, PicturesOne
    <3>8. Pictures(w, ch) \in Seq(Seq(Frame)) /\ Pictures(w, ch) \o <<>> = Pictures(w, ch)
      BY PicturesType, ConcatEmptySeq
    <3> QED BY <3>1, <3>2, <3>3, <3>4, <3>5, <3>6, <3>7, <3>8
  <2> QED BY <2>3, <2>4
<1>5. ASSUME NEW ch \in Ch PROVE Inside'[ch] = Inside[ch]
  <2>1. PICK h \in Seq(Seq(Frame)), q \in Seq(Frame) :
           h = Held(ch) /\ q = inQue[ch] /\ Inside[ch] = FlattenSeq(h) \o q
    BY <1>2, InsideIs DEF Flat
  <2>2. Inside'[ch] = FlattenSeq(Held(ch)') \o inQue'[ch]
    BY DEF Inside, Held
  <2>3. CASE ch # idx
    BY <1>3, <1>4, <2>1, <2>2, <2>3
  <2>4. CASE ch = idx
    <3>1. PICK p \in Seq(Frame), o \in Seq(Frame) : p = Picture /\ o = Rest /\ p \o o = q
      BY <1>3, <2>1, <2>4
    <3>2. Append(h, p) = h \o <<p>>
      BY AppendIsConcat
    <3>3. PICK l \in Seq(Frame) : l = FlattenSeq(h)
      BY FlattenType
    <3>4. FlattenSeq(Append(h, p)) = l \o p
      BY <3>3, FlattenAppend
    <3>5. (l \o p) \o o = l \o (p \o o)
      BY ConcatAssociative
    <3> QED BY <1>3, <1>4, <2>1, <2>2, <2>4, <3>1, <3>2, <3>3, <3>4, <3>5
  <2> QED BY <2>3, <2>4
<1>6. Inside' = Inside
  BY <1>5 DEF Inside
<1> QED
  BY <1>2, <1>6 DEF Coded

\* A picture that is left out comes right after those with the codec.
LEMMA DropDrops ==
    ASSUME EncInv, Drop
    PROVE  \E ch \in Ch : \E i \in DOMAIN Inside[ch] : Line!Drop(ch, i)
<1>1. /\ TypeOK /\ Enough /\ inQue' = [inQue EXCEPT ![idx] = Rest]
      /\ UNCHANGED <<processQue, batch, doneQue, fullQue>>
  BY DEF EncInv, Drop, bits, tasks
<1>2. /\ idx \in Ch /\ Picture \in Seq(Frame) /\ Rest \in Seq(Frame) /\ Picture \o Rest = inQue[idx]
      /\ Size[idx] \in {1, 2} /\ Len(Picture) = Size[idx]
      /\ \A c \in Ch : inQue'[c] = IF c = idx THEN Rest ELSE inQue[c]
  BY <1>1, PictureCut, InQueCut
<1>3. \A ch \in Ch : Held(ch)' = Held(ch)
  BY <1>1, RequestsStay, QueuesStay
<1>4. PICK s \in Seq(Frame), p \in Seq(Frame), r \in Seq(Frame) :
         /\ s = Flat(idx) /\ p = Picture /\ r = Rest /\ Inside[idx] = s \o (p \o r)
  <2>1. Flat(idx) \in Seq(Frame) /\ Inside[idx] = Flat(idx) \o inQue[idx]
    BY <1>1, <1>2, InsideIs
  <2>2. Inside[idx] = Flat(idx) \o (Picture \o Rest)
    BY <1>2, <2>1
  <2> QED BY <1>2, <2>1, <2>2
<1>5. Inside'[idx] = s \o r
  BY <1>2, <1>3, <1>4 DEF Inside, Flat, Held
<1>6. \A ch \in Ch : ch # idx => Inside'[ch] = Inside[ch]
  BY <1>2, <1>3 DEF Inside, Held
<1>7. PICK w \in Seq(Frame), v \in Seq(Frame), u \in Seq(Frame) :
         /\ v = p \o r /\ w = s \o v /\ u = s \o p /\ u \o r = w
         /\ Len(v) = Len(p) + Len(r) /\ Len(w) = Len(s) + Len(v) /\ Len(u) = Len(s) + Len(p)
  <2>1. /\ p \o r \in Seq(Frame) /\ Len(p \o r) = Len(p) + Len(r)
        /\ s \o p \in Seq(Frame) /\ Len(s \o p) = Len(s) + Len(p)
    BY ConcatProperties
  <2>2. s \o (p \o r) \in Seq(Frame) /\ Len(s \o (p \o r)) = Len(s) + Len(p \o r)
    BY <2>1, ConcatProperties
  <2>3. (s \o p) \o r = s \o (p \o r)
    BY ConcatAssociative
  <2> QED BY <2>1, <2>2, <2>3
<1>8. PICK z \in {1, 2} : z = Size[idx] /\ z = Len(p)
  BY <1>2, <1>4
<1>9. Len(s) \in Nat /\ Len(r) \in Nat
  BY LenProperties
<1>10. PICK i \in 1 .. Len(w) : i = Len(s) + 1 /\ i - 1 = Len(s) /\ i + z = Len(u) + 1 /\ i + z - 1 <= Len(w)
  <2>1. /\ Len(s) + 1 \in 1 .. Len(w) /\ Len(s) + 1 - 1 = Len(s)
        /\ Len(s) + 1 + z = Len(u) + 1 /\ Len(s) + 1 + z - 1 <= Len(w)
    BY <1>7, <1>8, <1>9
  <2> QED BY <2>1
<1>11. SubSeq(w, 1, i - 1) = s
  BY <1>7, <1>10, FirstPart
<1>12. SubSeq(w, i + z, Len(w)) = r
  <2>1. SubSeq(u \o r, Len(u) + 1, Len(u \o r)) = r
    BY TakeFirst
  <2> QED BY <1>7, <1>10, <2>1
<1>13. Inside[idx] = w /\ i \in DOMAIN Inside[idx]
  <2>1. DOMAIN w = 1 .. Len(w)
    BY LenProperties
  <2> QED BY <1>4, <1>7, <2>1
<1>14. Inside' = [Inside EXCEPT ![idx] = SubSeq(w, 1, i - 1) \o SubSeq(w, i + z, Len(w))]
  <2>1. Inside = [ch \in Ch |-> Inside[ch]] /\ Inside' = [ch \in Ch |-> Inside'[ch]]
    BY DEF Inside
  <2> QED BY <1>2, <1>5, <1>6, <1>11, <1>12, <2>1
<1>15. Coded' = Coded
  BY <1>1 DEF Coded
<1>16. Line!Drop(idx, i)
  BY <1>8, <1>10, <1>13, <1>14, <1>15 DEF Line!Drop
<1> QED
  BY <1>2, <1>13, <1>16

\* A batch that is coded stays where it is in the line.
LEMMA EncodeStays == ASSUME EncInv, NEW t \in Tsk, Encode(t) PROVE UNCHANGED <<Inside, Coded>>
<1>1. /\ doneQue' = doneQue \o batch[t] /\ AtTask(t) = batch[t] \o processQue[t]
      /\ AtTask(t)' = processQue[t]
      /\ \A u \in Tsk : u # t => AtTask(u)' = AtTask(u)
      /\ Range(AtTask(t)) = Range(batch[t]) \cup Range(processQue[t])
  BY EncodeKeeps
<1>2. /\ TypeOK /\ UNCHANGED <<chans, fullQue>>
      /\ \A r \in Range(AtTask(t)) : TskOf[r.ch] = t
  BY DEF EncInv, ReqInv, Encode, bits
<1>3. PICK d \in Seq(Request), p \in Seq(Request), q \in Seq(Request) :
         d = doneQue /\ p = batch[t] /\ q = processQue[t]
  BY <1>2 DEF TypeOK
<1>4. ASSUME NEW ch \in Ch PROVE Held(ch)' = Held(ch)
  <2>1. TskOf[ch] \in Tsk
    BY EncChannelAssumption
  <2>2. CASE TskOf[ch] = t
    <3>1. Held(ch) = Pictures(d \o (p \o q), ch) /\ Held(ch)' = Pictures((d \o p) \o q, ch)
      BY <1>1, <1>3, <2>2 DEF Held
    <3>2. (d \o p) \o q = d \o (p \o q)
      BY ConcatAssociative
    <3> QED BY <3>1, <3>2
  <2>3. CASE TskOf[ch] # t
    <3>1. PICK s \in Seq(Request) : s = AtTask(TskOf[ch])
      BY <1>2, <2>1, Queues
    <3>2. Held(ch) = Pictures(d \o s, ch) /\ Held(ch)' = Pictures((d \o p) \o s, ch)
      BY <1>1, <1>3, <2>1, <2>3, <3>1 DEF Held
    <3>3. \A r \in Range(p) : r.ch # ch
      BY <1>1, <1>2, <1>3, <2>3
    <3>4. Pictures(p, ch) = <<>>
      BY <3>3, PicturesNone
    <3>5. Pictures(d \o s, ch) = Pictures(d, ch) \o Pictures(s, ch)
      BY PicturesConcat
    <3>6. Pictures(d \o p, ch) = Pictures(d, ch) \o Pictures(p, ch)
      BY PicturesConcat
    <3>7. Pictures((d \o p) \o s, ch) = Pictures(d \o p, ch) \o Pictures(s, ch)
      <4>1. PICK v \in Seq(Request) : v = d \o p
        BY ConcatProperties
      <4>2. Pictures(v \o s, ch) = Pictures(v, ch) \o Pictures(s, ch)
        BY PicturesConcat
      <4> QED BY <4>1, <4>2
    <3>8. Pictures(d, ch) \o <<>> = Pictures(d, ch)
      BY PicturesType, ConcatEmptySeq
    <3> QED BY <3>2, <3>4, <3>5, <3>6, <3>7, <3>8
  <2> QED BY <2>2, <2>3
<1> QED
  BY <1>2, <1>4, LineStays DEF chans

\* Frames in three parts.
LEMMA FramesRegroup == \A a, b, c \in Seq(Frame) : (a \o b) \o c = a \o (b \o c)
BY ConcatAssociative

\* What is collected leaves the line, channel by channel.
LEMMA CollectedCodes == ASSUME EncInv, GetProcessed PROVE Line!Code
<1>1. PICK done \in Seq(Request), rest \in Seq(Request) :
         /\ doneQue = done \o rest /\ doneQue' = rest /\ fullQue' = fullQue \o done
  BY Collected
<1>2. TypeOK /\ UNCHANGED <<chans, processQue, batch>> /\ fullQue \in Seq(Request)
  BY DEF EncInv, TypeOK, GetProcessed
<1>3. ASSUME NEW ch \in Ch
      PROVE  LET n == Len(Coded'[ch]) - Len(Coded[ch])
                 z == Size[ch] IN
             /\ n \in Nat /\ n >= 0 /\ n * z <= Len(Inside[ch])
             /\ Coded'[ch] = Coded[ch] \o [k \in 1 .. n |-> SubSeq(Inside[ch], (k - 1) * z + 1, k * z)]
             /\ Inside'[ch] = SubSeq(Inside[ch], n * z + 1, Len(Inside[ch]))
  <2>1. PICK q \in Seq(Request), i \in Seq(Frame) :
           q = AtTask(TskOf[ch]) /\ i = inQue[ch] /\ inQue'[ch] = i /\ AtTask(TskOf[ch])' = q
    BY <1>2, InsideIs DEF AtTask, chans
  <2>2. PICK d \in Seq(Seq(Frame)), e \in Seq(Seq(Frame)) :
           /\ d = Pictures(done, ch) /\ e = Pictures(rest \o q, ch)
           /\ Pictures(done \o (rest \o q), ch) = d \o e
    <3>1. PICK w \in Seq(Request) : w = rest \o q
      BY ConcatProperties
    <3>2. Pictures(done \o w, ch) = Pictures(done, ch) \o Pictures(w, ch)
      BY PicturesConcat
    <3>3. Pictures(done, ch) \in Seq(Seq(Frame)) /\ Pictures(w, ch) \in Seq(Seq(Frame))
      BY PicturesType
    <3> QED BY <3>1, <3>2, <3>3
  <2>3. Held(ch) = d \o e /\ Held(ch)' = e
    <3>1. (done \o rest) \o q = done \o (rest \o q)
      BY ConcatAssociative
    <3> QED BY <1>1, <2>1, <2>2, <3>1 DEF Held
  <2>4. PICK a \in Seq(Frame), b \in Seq(Frame), R \in Seq(Frame) :
           /\ a = FlattenSeq(d) /\ b = FlattenSeq(e) /\ R = b \o i
           /\ Inside[ch] = a \o R /\ Inside'[ch] = R
    <3>1. FlattenSeq(d) \in Seq(Frame) /\ FlattenSeq(e) \in Seq(Frame)
      BY FlattenType
    <3>2. FlattenSeq(d \o e) = FlattenSeq(d) \o FlattenSeq(e)
      BY FlattenConcat
    <3>3. PICK a \in Seq(Frame), b \in Seq(Frame) : a = FlattenSeq(d) /\ b = FlattenSeq(e)
      BY <3>1
    <3>4. (a \o b) \o i = a \o (b \o i) /\ b \o i \in Seq(Frame)
      <4>1. (a \o b) \o i = a \o (b \o i)
        BY FramesRegroup
      <4>2. b \o i \in Seq(Frame)
        BY ConcatProperties
      <4> QED BY <4>1, <4>2
    <3>5. Inside[ch] = (a \o b) \o i
      BY <1>2, <2>1, <2>3, <3>2, <3>3, InsideIs DEF Flat
    <3>6. Inside'[ch] = b \o i
      BY <2>1, <2>3, <3>3 DEF Inside, Held
    <3> QED BY <3>3, <3>4, <3>5, <3>6
  <2>5. PICK z \in {1, 2} : z = Size[ch]
    BY DEF Size
  <2>6. \A x \in Range(d) : Len(x) = z
    <3>1. Range(d \o e) = Range(d) \cup Range(e)
      BY QueueConcat
    <3> QED BY <2>3, <2>5, <3>1, HeldAre
  <2>7. /\ Len(a) = z * Len(d)
        /\ \A k \in 1 .. Len(d) : SubSeq(a \o R, (k - 1) * z + 1, k * z) = d[k]
    BY <2>4, <2>6, FlattenBlocks
  <2>8. PICK n \in Nat : n = Len(d) /\ z * n = n * z /\ Len(a) = n * z
    <3>1. Len(d) \in Nat
      BY LenProperties
    <3>2. z * Len(d) = Len(d) * z
      BY <2>5, <3>1
    <3> QED BY <2>7, <3>1, <3>2
  <2>9. PICK c \in Seq(Seq(Frame)) : c = Coded[ch] /\ Coded'[ch] = c \o d /\ Len(c \o d) - Len(c) = n
    <3>1. PICK p \in Seq(Request) : p = fullQue
      BY <1>2
    <3>2. Pictures(p \o done, ch) = Pictures(p, ch) \o d
      BY <2>2, PicturesConcat
    <3>3. PICK c \in Seq(Seq(Frame)) : c = Pictures(p, ch)
      BY PicturesType
    <3>4. Len(c \o d) = Len(c) + Len(d) /\ Len(c) \in Nat
      BY ConcatProperties, LenProperties
    <3>5. Len(c \o d) - Len(c) = n
      BY <2>8, <3>4
    <3>6. Coded[ch] = c /\ Coded'[ch] = c \o d
      BY <1>1, <3>1, <3>2, <3>3 DEF Coded
    <3> QED BY <3>5, <3>6
  <2>10. n * z <= Len(a \o R) /\ SubSeq(a \o R, n * z + 1, Len(a \o R)) = R
    <3>1. Len(a \o R) = Len(a) + Len(R) /\ Len(a) \in Nat /\ Len(R) \in Nat
      BY ConcatProperties, LenProperties
    <3>2. SubSeq(a \o R, Len(a) + 1, Len(a \o R)) = R
      BY TakeFirst
    <3>3. Len(a) <= Len(a \o R)
      BY <3>1
    <3> QED BY <2>8, <3>2, <3>3
  <2>11. d = [k \in 1 .. n |-> SubSeq(a \o R, (k - 1) * z + 1, k * z)]
    <3>1. d = [k \in 1 .. Len(d) |-> d[k]]
      BY LenProperties
    <3> QED BY <2>7, <2>8, <3>1
  <2>12. n >= 0
    BY <2>8
  <2> QED BY <2>4, <2>5, <2>9, <2>10, <2>11, <2>12
<1>4. /\ Inside = [ch \in Ch |-> Inside[ch]] /\ Inside' = [ch \in Ch |-> Inside'[ch]]
      /\ Coded = [ch \in Ch |-> Coded[ch]] /\ Coded' = [ch \in Ch |-> Coded'[ch]]
  BY DEF Inside, Coded
<1> DEFINE n == [ch \in Ch |-> Len(Coded'[ch]) - Len(Coded[ch])]
<1>5. \A ch \in Ch : n[ch] >= 0 /\ n[ch] * Size[ch] <= Len(Inside[ch])
  BY <1>3
<1>6. Coded' = [ch \in Ch |-> Coded[ch] \o [k \in 1 .. n[ch] |-> Line!Picture(ch, k)]]
  <2>1. ASSUME NEW ch \in Ch
        PROVE  Coded'[ch] = Coded[ch] \o [k \in 1 .. n[ch] |-> Line!Picture(ch, k)]
    BY <1>3 DEF Line!Picture
  <2> QED BY <1>4, <2>1
<1>7. Inside' = [ch \in Ch |-> SubSeq(Inside[ch], n[ch] * Size[ch] + 1, Len(Inside[ch]))]
  <2>1. ASSUME NEW ch \in Ch
        PROVE  Inside'[ch] = SubSeq(Inside[ch], n[ch] * Size[ch] + 1, Len(Inside[ch]))
    BY <1>3
  <2> QED BY <1>4, <2>1
<1> QED
  BY <1>5, <1>6, <1>7 DEF Line!Code

\* The next link takes all there is.
LEMMA GetFullBufsTakes == ASSUME EncInv, GetFullBufs PROVE Line!Take
<1>1. fullQue' = <<>> /\ UNCHANGED <<chans, doneQue, processQue, batch>>
  BY DEF GetFullBufs, tasks
<1>2. \A ch \in Ch : Held(ch)' = Held(ch)
  BY <1>1, RequestsStay, QueuesStay
<1>3. Inside' = Inside
  BY <1>1, <1>2 DEF Inside, Held, chans
<1>4. Coded' = [ch \in Ch |-> <<>>]
  <2>1. \A ch \in Ch : Pictures(<<>>, ch) = <<>>
    BY PicturesEmpty
  <2> QED BY <1>1, <2>1 DEF Coded
<1> QED
  BY <1>3, <1>4 DEF Line!Take

\* A step that touches none of the queues of the line.
LEMMA StillLine ==
    ASSUME UNCHANGED <<doneQue, processQue, batch, inQue, fullQue>>
    PROVE  UNCHANGED <<Inside, Coded>>
BY RequestsStay, QueuesStay, LineStays

\* Every step is one of the line, or none.
LEMMA LineStep == EncInv /\ [Next]_vars => [Line!Next]_<<Inside, Coded>>
<1> SUFFICES ASSUME EncInv, [Next]_vars PROVE Line!Next \/ UNCHANGED <<Inside, Coded>>
  OBVIOUS
<1>1. CASE QueueFrames
  BY <1>1, QueueFramesEnters DEF Line!Next
<1>2. CASE SubmitData
  <2>1. CASE NoRequest
    BY <2>1, StillLine DEF NoRequest, bits, chans, tasks
  <2>2. CASE \E b \in Bit : Submit(b)
    BY <2>2, SubmitStays
  <2>3. CASE Drop
    BY <2>3, DropDrops DEF Line!Next
  <2>4. CASE Nothing
    BY <2>4, StillLine DEF Nothing, bits, chans, tasks
  <2> QED BY <1>2, <2>1, <2>2, <2>3, <2>4 DEF SubmitData
<1>3. CASE RecvGet \/ StopGet
  BY <1>3, CollectedCodes DEF RecvGet, StopGet, Line!Next
<1>4. CASE \E c \in Caller : RecvStop(c)
  BY <1>4, StillLine DEF RecvStop, bits, chans, tasks
<1>5. CASE StopDrop
  BY <1>5, StillLine DEF StopDrop, bits, chans, tasks
<1>6. CASE Stopped
  BY <1>6, StillLine DEF Stopped, bits, chans
<1>7. CASE Join
  BY <1>7, StillLine DEF Join, bits, chans, tasks
<1>8. CASE \E t \in Tsk : Get(t) \/ Encode(t)
  <2>1. ASSUME NEW t \in Tsk, Get(t) PROVE UNCHANGED <<Inside, Coded>>
    <3>1. UNCHANGED <<doneQue, chans, fullQue>> /\ \A u \in Tsk : AtTask(u)' = AtTask(u)
      BY <2>1, GetKeeps DEF Get, bits
    <3>2. \A ch \in Ch : Held(ch)' = Held(ch) /\ inQue'[ch] = inQue[ch]
      BY <3>1, QueuesStay DEF chans
    <3> QED BY <3>1, <3>2, LineStays
  <2> QED BY <1>8, <2>1, EncodeStays
<1>9. CASE NextLink
  <2>1. ASSUME NEW S \in SUBSET next, PutEmptyBufs(S) PROVE UNCHANGED <<Inside, Coded>>
    BY <2>1, StillLine DEF PutEmptyBufs, chans, tasks
  <2> QED BY <1>9, <2>1, GetFullBufsTakes DEF NextLink, Line!Next
<1>10. CASE \E s \in Lists : Fill(s)
  BY <1>10, StillLine DEF Fill, bits, chans, tasks
<1>11. CASE Tick
  BY <1>11, StillLine DEF Tick, bits, chans, tasks
<1>12. CASE \E c \in Caller, cmd \in {"STOP", "DELETE"} : Ask(c, cmd)
  BY <1>12, StillLine DEF Ask, bits, chans, tasks
<1>13. CASE UNCHANGED vars
  BY <1>13, StillLine DEF vars, bits, chans, tasks
<1> QED
  BY <1>1, <1>2, <1>3, <1>4, <1>5, <1>6, <1>7, <1>8, <1>9, <1>10, <1>11, <1>12, <1>13
     DEF Next, LinkTask, Done

(* On each channel pictures leave in the order their frames came, each once *)
(* and whole: the link with all its queues implements PictureLine.          *)
THEOREM Implements == Spec => ImplementsLine
<1>1. Init => Line!Init
  BY InsideInit
<1>2. EncInv /\ [Next]_vars => [Line!Next]_<<Inside, Coded>>
  BY LineStep
<1> QED
  BY <1>1, <1>2, EncInvariant, PTL DEF Spec, ImplementsLine, Line!Spec
=============================================================================
