--------------------------- MODULE OwningLemmas ---------------------------
(* What appending to a queue and taking its head do to the set of the       *)
(* items in it, and that neither puts an item in it twice; and what it      *)
(* takes to hand a thing over from its one owner to another; and queues of  *)
(* what a function makes of another's items.  The proofs about messages and *)
(* frames that move from queue to queue rest on these.                      *)
EXTENDS Owning, SequenceTheorems, FiniteSetTheorems, TLAPS

\* An empty queue holds nothing.
LEMMA EmptyQueue == Range(<<>>) = {} /\ IsInjective(<<>>)
BY DEF Range, IsInjective

\* The item at the back joins those in the queue.
LEMMA QueueAppend ==
    ASSUME NEW S, NEW q \in Seq(S), NEW e \in S
    PROVE  /\ Append(q, e) \in Seq(S)
           /\ Len(Append(q, e)) = Len(q) + 1
           /\ Append(q, e) # <<>>
           /\ Head(Append(q, e)) = IF q = <<>> THEN e ELSE Head(q)
           /\ Range(Append(q, e)) = Range(q) \cup {e}
           /\ IsInjective(q) /\ e \notin Range(q) => IsInjective(Append(q, e))
<1>1. /\ Append(q, e) \in Seq(S)
      /\ Len(Append(q, e)) = Len(q) + 1
      /\ Append(q, e) # <<>>
      /\ \A i \in 1 .. Len(q) : Append(q, e)[i] = q[i]
      /\ Append(q, e)[Len(q) + 1] = e
  BY AppendProperties
<1>2. Len(q) \in Nat /\ DOMAIN q = 1 .. Len(q) /\ DOMAIN Append(q, e) = 1 .. Len(q) + 1
  BY <1>1, LenProperties
<1>3. Range(Append(q, e)) = Range(q) \cup {e}
  <2>1. ASSUME NEW x \in Range(Append(q, e)) PROVE x \in Range(q) \cup {e}
    <3>1. PICK i \in 1 .. Len(q) + 1 : x = Append(q, e)[i]
      BY <1>2, <2>1 DEF Range
    <3>2. i \in 1 .. Len(q) \/ i = Len(q) + 1
      BY <1>2
    <3> QED BY <1>1, <1>2, <3>1, <3>2 DEF Range
  <2>2. ASSUME NEW x \in Range(q) PROVE x \in Range(Append(q, e))
    <3>1. PICK i \in 1 .. Len(q) : x = q[i]
      BY <1>2, <2>2 DEF Range
    <3>2. i \in 1 .. Len(q) + 1
      BY <1>2
    <3> QED BY <1>1, <1>2, <3>1, <3>2 DEF Range
  <2>3. e \in Range(Append(q, e))
    <3>1. Len(q) + 1 \in 1 .. Len(q) + 1
      BY <1>2
    <3> QED BY <1>1, <1>2, <3>1 DEF Range
  <2> QED BY <2>1, <2>2, <2>3
<1>4. ASSUME IsInjective(q), e \notin Range(q) PROVE IsInjective(Append(q, e))
  <2> SUFFICES ASSUME NEW i \in 1 .. Len(q) + 1, NEW j \in 1 .. Len(q) + 1,
                      Append(q, e)[i] = Append(q, e)[j]
               PROVE  i = j
    BY <1>2 DEF IsInjective
  <2>1. \A k \in 1 .. Len(q) + 1 : k \in 1 .. Len(q) \/ k = Len(q) + 1
    BY <1>2
  <2>2. \A k \in 1 .. Len(q) : q[k] \in Range(q)
    BY <1>2 DEF Range
  <2> QED BY <1>1, <1>2, <1>4, <2>1, <2>2 DEF IsInjective
<1> QED
  BY <1>1, <1>3, <1>4, HeadTailAppend

\* The item at the front leaves the others in the queue.
LEMMA QueueTake ==
    ASSUME NEW S, NEW q \in Seq(S), q # <<>>
    PROVE  /\ Head(q) \in S
           /\ Head(q) \in Range(q)
           /\ Tail(q) \in Seq(S)
           /\ Len(Tail(q)) = Len(q) - 1
           /\ Range(Tail(q)) \subseteq Range(q)
           /\ Range(q) = Range(Tail(q)) \cup {Head(q)}
           /\ IsInjective(q) => /\ IsInjective(Tail(q))
                                /\ Range(Tail(q)) = Range(q) \ {Head(q)}
<1>1. /\ Head(q) \in S /\ Tail(q) \in Seq(S)
      /\ Len(Tail(q)) = Len(q) - 1
      /\ \A i \in 1 .. Len(q) - 1 : Tail(q)[i] = q[i + 1]
  BY HeadTailProperties
<1>2. Len(q) \in Nat \ {0} /\ DOMAIN q = 1 .. Len(q) /\ DOMAIN Tail(q) = 1 .. Len(q) - 1
  BY <1>1, LenProperties, EmptySeq
<1>3. Head(q) = q[1]
  OBVIOUS
<1>4. Head(q) \in Range(q)
  BY <1>2, <1>3 DEF Range
<1>5. ASSUME NEW x \in Range(Tail(q))
      PROVE  \E i \in 2 .. Len(q) : x = q[i]
  <2>1. PICK i \in 1 .. Len(q) - 1 : x = Tail(q)[i]
    BY <1>2 DEF Range
  <2>2. i + 1 \in 2 .. Len(q) /\ x = q[i + 1]
    BY <1>1, <1>2, <2>1
  <2> QED BY <2>2
<1>6. ASSUME NEW i \in 2 .. Len(q) PROVE q[i] \in Range(Tail(q))
  <2>1. i - 1 \in 1 .. Len(q) - 1 /\ (i - 1) + 1 = i
    BY <1>2
  <2>2. Tail(q)[i - 1] = q[i]
    BY <1>1, <2>1
  <2> QED BY <1>2, <2>1, <2>2 DEF Range
<1>7. Range(q) = Range(Tail(q)) \cup {Head(q)}
  <2>1. ASSUME NEW x \in Range(q) PROVE x \in Range(Tail(q)) \cup {Head(q)}
    <3>1. PICK i \in 1 .. Len(q) : x = q[i]
      BY <1>2 DEF Range
    <3>2. i = 1 \/ i \in 2 .. Len(q)
      BY <1>2
    <3> QED BY <1>3, <1>6, <3>1, <3>2
  <2>2. \A i \in 2 .. Len(q) : q[i] \in Range(q)
    BY <1>2 DEF Range
  <2> QED BY <1>4, <1>5, <2>1, <2>2
<1>8. ASSUME IsInjective(q)
      PROVE  IsInjective(Tail(q)) /\ Range(Tail(q)) = Range(q) \ {Head(q)}
  <2>1. Head(q) \notin Range(Tail(q))
    <3> SUFFICES ASSUME Head(q) \in Range(Tail(q)) PROVE FALSE
      OBVIOUS
    <3>1. PICK i \in 2 .. Len(q) : q[1] = q[i]
      BY <1>3, <1>5
    <3>2. i \in DOMAIN q /\ 1 \in DOMAIN q /\ i # 1
      BY <1>2
    <3> QED BY <1>8, <3>1, <3>2 DEF IsInjective
  <2>2. IsInjective(Tail(q))
    <3> SUFFICES ASSUME NEW i \in 1 .. Len(q) - 1, NEW j \in 1 .. Len(q) - 1,
                        Tail(q)[i] = Tail(q)[j]
                 PROVE  i = j
      BY <1>2 DEF IsInjective
    <3>1. q[i + 1] = q[j + 1] /\ i + 1 \in DOMAIN q /\ j + 1 \in DOMAIN q
      BY <1>1, <1>2
    <3>2. i + 1 = j + 1
      BY <1>8, <3>1 DEF IsInjective
    <3> QED BY <3>2
  <2> QED BY <1>7, <2>1, <2>2
<1> QED
  BY <1>1, <1>4, <1>7, <1>8
\* One queue behind another.
LEMMA QueueConcat ==
    ASSUME NEW S, NEW p \in Seq(S), NEW q \in Seq(S)
    PROVE  /\ p \o q \in Seq(S)
           /\ Range(p \o q) = Range(p) \cup Range(q)
           /\ IsInjective(p) /\ IsInjective(q) /\ Range(p) \cap Range(q) = {} =>
                 IsInjective(p \o q)
<1>1. /\ p \o q \in Seq(S) /\ Len(p \o q) = Len(p) + Len(q)
      /\ \A i \in 1 .. Len(p) + Len(q) :
            (p \o q)[i] = IF i <= Len(p) THEN p[i] ELSE q[i - Len(p)]
  BY ConcatProperties
<1>2. Len(p) \in Nat /\ Len(q) \in Nat /\ DOMAIN p = 1 .. Len(p) /\ DOMAIN q = 1 .. Len(q)
      /\ DOMAIN (p \o q) = 1 .. Len(p) + Len(q)
  BY <1>1, LenProperties
<1>3. ASSUME NEW i \in 1 .. Len(p) + Len(q)
      PROVE  \/ i \in 1 .. Len(p) /\ (p \o q)[i] = p[i]
             \/ i - Len(p) \in 1 .. Len(q) /\ (p \o q)[i] = q[i - Len(p)]
  BY <1>1, <1>2
<1>4. Range(p \o q) \subseteq Range(p) \cup Range(q)
  BY <1>2, <1>3 DEF Range
<1>5. Range(p) \subseteq Range(p \o q)
  <2>1. \A i \in 1 .. Len(p) : i \in 1 .. Len(p) + Len(q) /\ (p \o q)[i] = p[i]
    BY <1>1, <1>2
  <2> QED BY <1>2, <2>1 DEF Range
<1>6. Range(q) \subseteq Range(p \o q)
  <2>1. \A i \in 1 .. Len(q) : /\ i + Len(p) \in 1 .. Len(p) + Len(q)
                               /\ (p \o q)[i + Len(p)] = q[i]
    BY <1>1, <1>2
  <2> QED BY <1>2, <2>1 DEF Range
<1>7. ASSUME IsInjective(p), IsInjective(q), Range(p) \cap Range(q) = {}
      PROVE  IsInjective(p \o q)
  <2> SUFFICES ASSUME NEW i \in 1 .. Len(p) + Len(q), NEW j \in 1 .. Len(p) + Len(q),
                      (p \o q)[i] = (p \o q)[j]
               PROVE  i = j
    BY <1>2 DEF IsInjective
  <2>1. /\ \A k \in 1 .. Len(p) : p[k] \in Range(p)
        /\ \A k \in 1 .. Len(q) : q[k] \in Range(q)
    BY <1>2 DEF Range
  <2>2. CASE i \in 1 .. Len(p) /\ j \in 1 .. Len(p)
    BY <1>1, <1>2, <1>7, <2>2 DEF IsInjective
  <2>3. CASE i - Len(p) \in 1 .. Len(q) /\ j - Len(p) \in 1 .. Len(q)
    <3>1. i - Len(p) = j - Len(p)
      BY <1>1, <1>2, <1>7, <2>3, SMTT(30) DEF IsInjective
    <3> QED BY <1>2, <3>1
  <2> QED BY <1>2, <1>3, <1>7, <2>1, <2>2, <2>3
<1> QED
  BY <1>1, <1>4, <1>5, <1>6, <1>7

-----------------------------------------------------------------------------
\* A set of natural numbers that is not empty has a least one, so that a
\* CHOOSE of the first free place is a free place.
LEMMA LeastNatural ==
    ASSUME NEW T, T \subseteq Nat, T # {}
    PROVE  \E i \in T : \A j \in T : i <= j
<1>1. PICK i \in T : \A j \in T : ~(<<j, i>> \in OpToRel(<, Nat))
  BY NatLessThanWellFounded, WFMin
<1>2. \A j \in T : ~(j < i)
  BY <1>1 DEF OpToRel
<1> QED
  BY <1>2

-----------------------------------------------------------------------------
\* A sole owner is one owner.
LEMMA SoleMeansOne == ASSUME NEW S, Sole(S) PROVE Cardinality(S) = 1
BY FS_Singleton DEF Sole

\* An owner of which all others are the same is the only one.
LEMMA OnlyOwner ==
    ASSUME NEW by, NEW k \in DOMAIN by, NEW x \in by[k],
           \A l \in DOMAIN by : \A y \in by[l] : l = k /\ y = x
    PROVE  Cardinality(Tagged(by)) = 1
<1>1. Tagged(by) = {<<k, x>>}
  <2>1. ASSUME NEW p \in Tagged(by) PROVE p = <<k, x>>
    <3>1. PICK l \in DOMAIN by : p \in {l} \X by[l]
      BY DEF Tagged
    <3> QED BY <3>1
  <2>2. <<k, x>> \in Tagged(by)
    BY DEF Tagged
  <2> QED BY <2>1, <2>2
<1> QED
  BY <1>1, SoleMeansOne DEF Sole

\* What has one owner has no second one.
LEMMA NowhereElse ==
    ASSUME NEW by, Sole(Tagged(by)),
           NEW k \in DOMAIN by, NEW x \in by[k],
           NEW l \in DOMAIN by, NEW y \in by[l]
    PROVE  k = l /\ x = y
<1>1. <<k, x>> \in Tagged(by) /\ <<l, y>> \in Tagged(by)
  BY DEF Tagged
<1>2. <<k, x>> = <<l, y>>
  BY <1>1 DEF Sole
<1> QED
  BY <1>2

\* Owner x of kind k gives the thing to y of another kind l, and no other
\* owner of it changes.
HandsOver(by, after, k, x, l, y) ==
    /\ k \in DOMAIN by /\ l \in DOMAIN by /\ k # l
    /\ x \in by[k]
    /\ DOMAIN after = DOMAIN by
    /\ \A j \in DOMAIN by : \A w :
          w \in after[j] <=> \/ w \in by[j] /\ ~(j = k /\ w = x)
                             \/ j = l /\ w = y

\* The owners stay as they are.
Keeps(by, after) ==
    /\ DOMAIN after = DOMAIN by
    /\ \A j \in DOMAIN by : \A w : w \in after[j] <=> w \in by[j]

\* Handed over by its sole owner, or kept, a thing has a sole owner.
LEMMA HandOver ==
    ASSUME NEW by, NEW after, NEW k, NEW x, NEW l, NEW y,
           Sole(Tagged(by)), HandsOver(by, after, k, x, l, y)
    PROVE  Sole(Tagged(after))
<1>1. \A j \in DOMAIN by : \A z \in by[j] : j = k /\ z = x
  BY NowhereElse DEF HandsOver
<1>2. \A j \in DOMAIN by : \A w : w \in after[j] <=> j = l /\ w = y
  BY <1>1 DEF HandsOver
<1>3. Tagged(after) = {<<l, y>>}
  <2>1. ASSUME NEW p \in Tagged(after) PROVE p = <<l, y>>
    <3>1. PICK j \in DOMAIN by : p \in {j} \X after[j]
      BY DEF Tagged, HandsOver
    <3> QED BY <1>2, <3>1
  <2>2. <<l, y>> \in Tagged(after)
    BY <1>2 DEF Tagged, HandsOver
  <2> QED BY <2>1, <2>2
<1> QED
  BY <1>3 DEF Sole

LEMMA Keep ==
    ASSUME NEW by, NEW after, Sole(Tagged(by)), Keeps(by, after)
    PROVE  Sole(Tagged(after))
<1>1. \A j \in DOMAIN by : after[j] = by[j]
  BY DEF Keeps
<1>2. Tagged(after) = Tagged(by)
  BY <1>1 DEF Tagged, Keeps
<1> QED
  BY <1>2

-----------------------------------------------------------------------------
(* What a function makes of each item of a queue.                           *)
Mapped(o, s) == [i \in DOMAIN s |-> o[s[i]]]

LEMMA MappedSeq ==
    ASSUME NEW S, NEW T, NEW s \in Seq(S), NEW o, \A c \in Range(s) : o[c] \in T
    PROVE  /\ Mapped(o, s) \in Seq(T) /\ Len(Mapped(o, s)) = Len(s)
           /\ DOMAIN Mapped(o, s) = 1 .. Len(s)
           /\ \A i \in 1 .. Len(s) : Mapped(o, s)[i] = o[s[i]]
           /\ Range(Mapped(o, s)) = {o[c] : c \in Range(s)}
<1>1. Len(s) \in Nat /\ DOMAIN s = 1 .. Len(s)
  BY LenProperties
<1>2. Mapped(o, s) = [i \in 1 .. Len(s) |-> o[s[i]]]
  BY <1>1 DEF Mapped
<1>3. \A i \in 1 .. Len(s) : o[s[i]] \in T
  BY <1>1 DEF Range
<1>4. Mapped(o, s) \in [1 .. Len(s) -> T]
  BY <1>2, <1>3
<1>5. Mapped(o, s) \in Seq(T) /\ Len(Mapped(o, s)) = Len(s)
  BY <1>1, <1>4
<1>6. Range(Mapped(o, s)) = {o[c] : c \in Range(s)}
  BY <1>1, <1>2 DEF Range
<1> QED
  BY <1>2, <1>5, <1>6

\* One more item, one more value at the end.
LEMMA MappedAppend ==
    ASSUME NEW S, NEW s \in Seq(S), NEW e \in S, NEW o
    PROVE  Mapped(o, Append(s, e)) = Append(Mapped(o, s), o[e])
<1>1. /\ Append(s, e) \in Seq(S) /\ Len(Append(s, e)) = Len(s) + 1
      /\ \A i \in 1 .. Len(s) : Append(s, e)[i] = s[i]
      /\ Append(s, e)[Len(s) + 1] = e
  BY AppendProperties
<1>2. PICK a \in Seq(S) : a = Append(s, e)
  BY <1>1
<1>3. PICK T : T = {o[c] : c \in Range(s)} \cup {o[e]}
  OBVIOUS
<1>4. PICK b \in Seq(T) : /\ b = Mapped(o, s) /\ Len(b) = Len(s)
                          /\ \A i \in 1 .. Len(s) : b[i] = o[s[i]]
  <2>1. \A c \in Range(s) : o[c] \in T
    BY <1>3
  <2>2. /\ Mapped(o, s) \in Seq(T) /\ Len(Mapped(o, s)) = Len(s)
        /\ \A i \in 1 .. Len(s) : Mapped(o, s)[i] = o[s[i]]
    BY <2>1, MappedSeq
  <2> QED BY <2>2
<1>5. PICK c \in Seq(T) : /\ c = Mapped(o, a) /\ Len(c) = Len(a)
                          /\ \A i \in 1 .. Len(a) : c[i] = o[a[i]]
  <2>1. Range(a) = Range(s) \cup {e}
    BY <1>2, QueueAppend
  <2>2. \A x \in Range(a) : o[x] \in T
    BY <1>3, <2>1
  <2>3. /\ Mapped(o, a) \in Seq(T) /\ Len(Mapped(o, a)) = Len(a)
        /\ \A i \in 1 .. Len(a) : Mapped(o, a)[i] = o[a[i]]
    BY <2>2, MappedSeq
  <2> QED BY <2>3
<1>6. /\ Append(b, o[e]) \in Seq(T) /\ Len(Append(b, o[e])) = Len(s) + 1
      /\ \A i \in 1 .. Len(s) : Append(b, o[e])[i] = b[i]
      /\ Append(b, o[e])[Len(s) + 1] = o[e]
  BY <1>3, <1>4, AppendProperties
<1>7. \A i \in 1 .. Len(s) + 1 : i \in 1 .. Len(s) \/ i = Len(s) + 1
  BY LenProperties
<1>8. \A i \in 1 .. Len(s) + 1 : c[i] = Append(b, o[e])[i]
  BY <1>1, <1>2, <1>4, <1>5, <1>6, <1>7
<1>9. c = Append(b, o[e])
  BY <1>1, <1>2, <1>5, <1>6, <1>8, SeqEqual
<1> QED
  BY <1>2, <1>4, <1>5, <1>9

\* Without the first item, without the first value.
LEMMA MappedTake ==
    ASSUME NEW S, NEW s \in Seq(S), s # <<>>, NEW o
    PROVE  /\ Mapped(o, s) # <<>> /\ Head(Mapped(o, s)) = o[Head(s)]
           /\ Mapped(o, Tail(s)) = Tail(Mapped(o, s))
<1>1. /\ Tail(s) \in Seq(S) /\ Len(Tail(s)) = Len(s) - 1
      /\ \A i \in 1 .. Len(s) - 1 : Tail(s)[i] = s[i + 1]
  BY HeadTailProperties
<1>2. Len(s) \in Nat \ {0} /\ Head(s) = s[1] /\ 1 \in 1 .. Len(s)
  BY EmptySeq
<1>3. PICK a \in Seq(S) : a = Tail(s)
  BY <1>1
<1>4. PICK T : T = {o[c] : c \in Range(s)}
  OBVIOUS
<1>5. PICK b \in Seq(T) : /\ b = Mapped(o, s) /\ Len(b) = Len(s)
                          /\ \A i \in 1 .. Len(s) : b[i] = o[s[i]]
  <2>1. \A x \in Range(s) : o[x] \in T
    BY <1>4
  <2>2. /\ Mapped(o, s) \in Seq(T) /\ Len(Mapped(o, s)) = Len(s)
        /\ \A i \in 1 .. Len(s) : Mapped(o, s)[i] = o[s[i]]
    BY <2>1, MappedSeq
  <2> QED BY <2>2
<1>6. PICK c \in Seq(T) : /\ c = Mapped(o, a) /\ Len(c) = Len(a)
                          /\ \A i \in 1 .. Len(a) : c[i] = o[a[i]]
  <2>1. Range(a) \subseteq Range(s)
    BY <1>3, QueueTake
  <2>2. \A x \in Range(a) : o[x] \in T
    BY <1>4, <2>1
  <2>3. /\ Mapped(o, a) \in Seq(T) /\ Len(Mapped(o, a)) = Len(a)
        /\ \A i \in 1 .. Len(a) : Mapped(o, a)[i] = o[a[i]]
    BY <2>2, MappedSeq
  <2> QED BY <2>3
<1>7. b # <<>> /\ Head(b) = o[Head(s)]
  <2>1. b # <<>>
    BY <1>2, <1>5, EmptySeq
  <2> QED BY <1>2, <1>5, <2>1
<1>8. /\ Tail(b) \in Seq(T) /\ Len(Tail(b)) = Len(s) - 1
      /\ \A i \in 1 .. Len(s) - 1 : Tail(b)[i] = b[i + 1]
  BY <1>5, <1>7, HeadTailProperties
<1>9. \A i \in 1 .. Len(s) - 1 : i + 1 \in 1 .. Len(s)
  BY <1>2
<1>10. ASSUME NEW i \in 1 .. Len(s) - 1 PROVE c[i] = Tail(b)[i]
  <2>1. c[i] = o[s[i + 1]]
    BY <1>1, <1>3, <1>6
  <2>2. Tail(b)[i] = o[s[i + 1]]
    BY <1>5, <1>8, <1>9
  <2> QED BY <2>1, <2>2
<1>11. c = Tail(b)
  BY <1>1, <1>3, <1>6, <1>8, <1>10, SeqEqual
<1> QED
  BY <1>3, <1>5, <1>6, <1>7, <1>11

\* Only the values of the items count.
LEMMA MappedSame ==
    ASSUME NEW s, NEW o, NEW p, \A c \in Range(s) : o[c] = p[c]
    PROVE  Mapped(o, s) = Mapped(p, s)
<1>1. \A i \in DOMAIN s : s[i] \in Range(s)
  BY DEF Range
<1> QED
  BY <1>1 DEF Mapped

\* One queue after the other, the values too.
LEMMA MappedConcat ==
    ASSUME NEW S, NEW s \in Seq(S), NEW t \in Seq(S), NEW o
    PROVE  Mapped(o, s \o t) = Mapped(o, s) \o Mapped(o, t)
<1>1. /\ s \o t \in Seq(S) /\ Len(s \o t) = Len(s) + Len(t)
      /\ \A i \in 1 .. Len(s) + Len(t) :
            (s \o t)[i] = IF i <= Len(s) THEN s[i] ELSE t[i - Len(s)]
  BY ConcatProperties
<1>2. PICK u \in Seq(S) : u = s \o t
  BY <1>1
<1>3. PICK T : T = {o[c] : c \in Range(u)}
  OBVIOUS
<1>4. Range(u) = Range(s) \cup Range(t)
  BY <1>2, QueueConcat
<1>5. PICK a \in Seq(T) : /\ a = Mapped(o, s) /\ Len(a) = Len(s)
                          /\ \A i \in 1 .. Len(s) : a[i] = o[s[i]]
  <2>1. \A c \in Range(s) : o[c] \in T
    BY <1>3, <1>4
  <2>2. /\ Mapped(o, s) \in Seq(T) /\ Len(Mapped(o, s)) = Len(s)
        /\ \A i \in 1 .. Len(s) : Mapped(o, s)[i] = o[s[i]]
    BY <2>1, MappedSeq
  <2> QED BY <2>2
<1>6. PICK b \in Seq(T) : /\ b = Mapped(o, t) /\ Len(b) = Len(t)
                          /\ \A i \in 1 .. Len(t) : b[i] = o[t[i]]
  <2>1. \A c \in Range(t) : o[c] \in T
    BY <1>3, <1>4
  <2>2. /\ Mapped(o, t) \in Seq(T) /\ Len(Mapped(o, t)) = Len(t)
        /\ \A i \in 1 .. Len(t) : Mapped(o, t)[i] = o[t[i]]
    BY <2>1, MappedSeq
  <2> QED BY <2>2
<1>7. PICK d \in Seq(T) : /\ d = Mapped(o, u) /\ Len(d) = Len(u)
                          /\ \A i \in 1 .. Len(u) : d[i] = o[u[i]]
  <2>1. \A c \in Range(u) : o[c] \in T
    BY <1>3
  <2>2. /\ Mapped(o, u) \in Seq(T) /\ Len(Mapped(o, u)) = Len(u)
        /\ \A i \in 1 .. Len(u) : Mapped(o, u)[i] = o[u[i]]
    BY <2>1, MappedSeq
  <2> QED BY <2>2
<1>8. /\ a \o b \in Seq(T) /\ Len(a \o b) = Len(a) + Len(b)
      /\ \A i \in 1 .. Len(a) + Len(b) :
            (a \o b)[i] = IF i <= Len(a) THEN a[i] ELSE b[i - Len(a)]
  BY ConcatProperties
<1>9. Len(s) \in Nat /\ Len(t) \in Nat
  BY LenProperties
<1>10. ASSUME NEW i \in 1 .. Len(s) + Len(t) PROVE d[i] = (a \o b)[i]
  <2>1. /\ u[i] = IF i <= Len(s) THEN s[i] ELSE t[i - Len(s)]
        /\ (a \o b)[i] = IF i <= Len(s) THEN a[i] ELSE b[i - Len(s)]
        /\ d[i] = o[u[i]]
    BY <1>1, <1>2, <1>5, <1>6, <1>7, <1>8
  <2>2. CASE i <= Len(s)
    <3>1. i \in 1 .. Len(s)
      BY <1>9, <2>2
    <3>2. u[i] = s[i] /\ (a \o b)[i] = a[i] /\ a[i] = o[s[i]]
      BY <1>5, <2>1, <2>2, <3>1
    <3> QED BY <2>1, <3>2
  <2>3. CASE ~(i <= Len(s))
    <3>1. i - Len(s) \in 1 .. Len(t)
      BY <1>9, <2>3
    <3>2. /\ u[i] = t[i - Len(s)] /\ (a \o b)[i] = b[i - Len(s)]
          /\ b[i - Len(s)] = o[t[i - Len(s)]]
      BY <1>6, <2>1, <2>3, <3>1
    <3> QED BY <2>1, <3>2
  <2> QED BY <2>2, <2>3
<1>11. d = a \o b
  BY <1>1, <1>2, <1>5, <1>6, <1>7, <1>8, <1>10, SeqEqual
<1> QED
  BY <1>2, <1>5, <1>6, <1>7, <1>11

\* The item at the front of the second list goes to the back of the first.
LEMMA PassOn ==
    ASSUME NEW S, NEW s \in Seq(S), NEW t \in Seq(S), t # <<>>
    PROVE  Append(s, Head(t)) \o Tail(t) = s \o t
<1>1. /\ Head(t) \in S /\ Tail(t) \in Seq(S) /\ Len(Tail(t)) = Len(t) - 1
      /\ \A i \in 1 .. Len(t) - 1 : Tail(t)[i] = t[i + 1]
  BY HeadTailProperties
<1>2. Len(t) \in Nat \ {0} /\ Len(s) \in Nat /\ Head(t) = t[1]
  BY EmptySeq, LenProperties
<1>3. /\ Append(s, Head(t)) \in Seq(S) /\ Len(Append(s, Head(t))) = Len(s) + 1
      /\ \A i \in 1 .. Len(s) : Append(s, Head(t))[i] = s[i]
      /\ Append(s, Head(t))[Len(s) + 1] = t[1]
  BY <1>1, <1>2, AppendProperties
<1>4. /\ s \o t \in Seq(S) /\ Len(s \o t) = Len(s) + Len(t)
      /\ \A i \in 1 .. Len(s) + Len(t) :
            (s \o t)[i] = IF i <= Len(s) THEN s[i] ELSE t[i - Len(s)]
  BY ConcatProperties
<1>5. PICK a \in Seq(S) : a = Append(s, Head(t))
  BY <1>3
<1>6. PICK b \in Seq(S) : b = Tail(t)
  BY <1>1
<1>7. /\ a \o b \in Seq(S) /\ Len(a \o b) = Len(a) + Len(b)
      /\ \A i \in 1 .. Len(a) + Len(b) : (a \o b)[i] = IF i <= Len(a) THEN a[i] ELSE b[i - Len(a)]
  BY ConcatProperties
<1>8. Len(a) = Len(s) + 1 /\ Len(b) = Len(t) - 1 /\ Len(a) + Len(b) = Len(s) + Len(t)
  BY <1>1, <1>2, <1>3, <1>5, <1>6
<1>9. ASSUME NEW i \in 1 .. Len(s) + Len(t) PROVE (a \o b)[i] = (s \o t)[i]
  <2>1. CASE i <= Len(s)
    BY <1>2, <1>3, <1>4, <1>5, <1>7, <1>8, <2>1
  <2>2. CASE i = Len(s) + 1
    <3>1. ~(i <= Len(s)) /\ i <= Len(a) /\ i - Len(s) = 1
      BY <1>2, <1>8, <2>2
    <3> QED BY <1>3, <1>4, <1>5, <1>7, <1>8, <2>2, <3>1
  <2>3. CASE i > Len(s) + 1
    <3>1. /\ ~(i <= Len(s)) /\ ~(i <= Len(a)) /\ i - Len(a) \in 1 .. Len(t) - 1
          /\ i - Len(a) + 1 = i - Len(s)
      BY <1>2, <1>8, <2>3
    <3>2. b[i - Len(a)] = t[i - Len(a) + 1]
      BY <1>1, <1>6, <3>1
    <3> QED BY <1>4, <1>7, <1>8, <3>1, <3>2
  <2>4. i <= Len(s) \/ i = Len(s) + 1 \/ i > Len(s) + 1
    BY <1>2
  <2> QED BY <2>1, <2>2, <2>3, <2>4
<1> QED
  BY <1>4, <1>5, <1>6, <1>7, <1>8, <1>9, SeqEqual

\* What is left of two lists when the first is taken whole.
LEMMA TakeFirst ==
    ASSUME NEW S, NEW s \in Seq(S), NEW t \in Seq(S)
    PROVE  /\ SubSeq(s \o t, Len(s) + 1, Len(s \o t)) = t
           /\ {(s \o t)[i] : i \in 1 .. Len(s)} = Range(s)
<1>1. /\ s \o t \in Seq(S) /\ Len(s \o t) = Len(s) + Len(t)
      /\ \A i \in 1 .. Len(s) + Len(t) :
            (s \o t)[i] = IF i <= Len(s) THEN s[i] ELSE t[i - Len(s)]
  BY ConcatProperties
<1>2. Len(s) \in Nat /\ Len(t) \in Nat
  BY LenProperties
<1>3. PICK u \in Seq(S) : u = s \o t
  BY <1>1
<1>4. /\ Len(s) + 1 \in Int /\ Len(u) \in Int /\ Len(u) - (Len(s) + 1) + 1 = Len(t)
      /\ Len(t) = IF Len(s) + 1 <= Len(u) THEN Len(u) - (Len(s) + 1) + 1 ELSE 0
      /\ \A i \in Len(s) + 1 .. Len(u) : i \in 1 .. Len(u)
  BY <1>1, <1>2, <1>3
<1>5. \A i \in Len(s) + 1 .. Len(u) : u[i] \in S
  BY <1>4, ElementOfSeq
<1>6. /\ SubSeq(u, Len(s) + 1, Len(u)) \in Seq(S)
      /\ Len(SubSeq(u, Len(s) + 1, Len(u))) = Len(t)
      /\ \A i \in 1 .. Len(t) : SubSeq(u, Len(s) + 1, Len(u))[i] = u[Len(s) + 1 + i - 1]
  BY <1>4, <1>5, SubSeqProperties
<1>7. ASSUME NEW i \in 1 .. Len(t) PROVE SubSeq(u, Len(s) + 1, Len(u))[i] = t[i]
  <2>1. /\ Len(s) + 1 + i - 1 = Len(s) + i /\ Len(s) + i \in 1 .. Len(s) + Len(t)
        /\ ~(Len(s) + i <= Len(s)) /\ Len(s) + i - Len(s) = i
    BY <1>2
  <2> QED BY <1>1, <1>3, <1>6, <2>1
<1>8. SubSeq(u, Len(s) + 1, Len(u)) = t
  BY <1>6, <1>7, SeqEqual
<1>9. \A i \in 1 .. Len(s) : u[i] = s[i]
  BY <1>1, <1>2, <1>3
<1>10. Range(s) = {s[i] : i \in 1 .. Len(s)}
  BY RangeEquality
<1>11. {u[i] : i \in 1 .. Len(s)} = Range(s)
  BY <1>9, <1>10
<1> QED
  BY <1>3, <1>8, <1>11
=============================================================================
