--------------------------- MODULE SequenceFacts ---------------------------
(***************************************************************************)
(* What the helpers on sequences return that the models use: the removal   *)
(* and the insertion of an element, the concatenation of several           *)
(* sequences; how many numbers an interval holds.  Induction is by the     *)
(* least counterexample.                                                   *)
(***************************************************************************)
EXTENDS Integers, Sequences, SequencesExt, TLAPS, WellFoundedInduction, SequenceTheorems,
        FiniteSetTheorems

LEMMA LessThan == OpToRel(<, Nat) = {p \in Nat \X Nat : p[1] < p[2]}
BY Zenon DEF OpToRel

\* A set of natural numbers has a least one ...
LEMMA Least ==
    ASSUME NEW T \in SUBSET Nat, T # {}
    PROVE  \E n \in T : \A m \in T : n <= m
<1>1. PICK n \in T : \A m \in T : ~(<<m, n>> \in OpToRel(<, Nat))
  BY NatLessThanWellFounded, WFMin, Zenon
<1>2. \A m \in T : ~(<<m, n>> \in {p \in Nat \X Nat : p[1] < p[2]})
  BY <1>1, LessThan, Zenon
<1>3. \A m \in T : ~(m < n)
  <2> TAKE m \in T
  <2>1. n \in Nat /\ m \in Nat
    OBVIOUS
  <2>2. m < n => <<m, n>> \in {p \in Nat \X Nat : p[1] < p[2]}
    BY <2>1
  <2> QED
    BY <1>2, <2>2, Zenon
<1> QED
  BY <1>3

\* ... and one with a bound a greatest.
LEMMA Greatest ==
    ASSUME NEW n \in Nat, NEW T \in SUBSET (1..n), T # {}
    PROVE  \E i \in T : \A j \in T : j <= i
<1> DEFINE D == {n - i : i \in T}
<1>0. \A i \in T : n - i \in Nat /\ n - i \in D
  OBVIOUS
<1>1. D \in SUBSET Nat /\ D # {}
  BY <1>0
<1>2. PICK d \in D : \A m \in D : d <= m
  BY <1>1, Least
<1>3. PICK i \in T : d = n - i
  BY <1>2
<1>4. \A j \in T : n - j \in D
  OBVIOUS
<1>5. \A j \in T : j <= i
  BY <1>2, <1>3, <1>4
<1> QED
  BY <1>5

LEMMA RemoveAtFacts ==
    ASSUME NEW S, NEW s \in Seq(S), NEW i \in 1..Len(s)
    PROVE  /\ RemoveAt(s, i) \in Seq(S) /\ Len(RemoveAt(s, i)) = Len(s) - 1
           /\ \A j \in 1..(Len(s) - 1) : RemoveAt(s, i)[j] = IF j < i THEN s[j] ELSE s[j + 1]
<1> DEFINE a == SubSeq(s, 1, i - 1)
           b == SubSeq(s, i + 1, Len(s))
<1>1. a \in Seq(S) /\ Len(a) = i - 1 /\ \A j \in 1..(i - 1) : a[j] = s[j]
  OBVIOUS
<1>2. b \in Seq(S) /\ Len(b) = Len(s) - i /\ \A j \in 1..(Len(s) - i) : b[j] = s[j + i]
  OBVIOUS
<1>3. RemoveAt(s, i) = a \o b
  BY DEF RemoveAt
<1> HIDE DEF a, b
<1>4. a \o b \in Seq(S) /\ Len(a \o b) = Len(s) - 1
  <2>1. a \o b \in Seq(S) /\ Len(a \o b) = Len(a) + Len(b)
    BY <1>1, <1>2, ConcatProperties, Zenon
  <2>2. Len(s) \in Nat
    OBVIOUS
  <2> QED
    BY <1>1, <1>2, <2>1, <2>2
<1>5. \A j \in 1..(Len(s) - 1) : (a \o b)[j] = IF j < i THEN s[j] ELSE s[j + 1]
  <2> TAKE j \in 1..(Len(s) - 1)
  <2>1. CASE j < i
    BY <1>1, <1>2, <2>1
  <2>2. CASE ~(j < i)
    <3>1. (a \o b)[j] = b[j - (i - 1)]
      BY <1>1, <1>2, <2>2
    <3>2. b[j - (i - 1)] = s[(j - (i - 1)) + i]
      BY <1>2, <2>2
    <3> QED
      BY <2>2, <3>1, <3>2
  <2> QED
    BY <2>1, <2>2
<1> QED
  BY <1>3, <1>4, <1>5

LEMMA RemoveFirstAt ==
    ASSUME NEW S, NEW s \in Seq(S), NEW e, \E i \in 1..Len(s) : s[i] = e
    PROVE  \E i \in 1..Len(s) : s[i] = e /\ RemoveFirst(s, e) = RemoveAt(s, i)
<1> DEFINE I == {i \in 1..Len(s) : s[i] = e}
<1>1. I \in SUBSET Nat /\ I # {}
  OBVIOUS
<1>2. PICK n \in I : \A m \in I : n <= m
  BY <1>1, Least
<1>3. Min(I) \in I
  BY <1>2 DEF Min
<1>4. RemoveFirst(s, e) = RemoveAt(s, Min(I))
  BY <1>1 DEF RemoveFirst, SelectInSeq
<1> QED
  BY <1>3, <1>4

\* Taking an element off a list without duplicates takes it off the set.
LEMMA RemoveFirstFacts ==
    ASSUME NEW S, NEW s \in Seq(S), NEW e, IsInjective(s)
    PROVE  /\ RemoveFirst(s, e) \in Seq(S) /\ IsInjective(RemoveFirst(s, e))
           /\ ToSet(RemoveFirst(s, e)) = ToSet(s) \ {e}
<1>1. CASE ~\E i \in 1..Len(s) : s[i] = e
  BY <1>1 DEF RemoveFirst, ToSet
<1>2. CASE \E i \in 1..Len(s) : s[i] = e
  <2>1. PICK i \in 1..Len(s) : s[i] = e /\ RemoveFirst(s, e) = RemoveAt(s, i)
    BY <1>2, RemoveFirstAt
  <2> DEFINE r == RemoveAt(s, i)
  <2>2. /\ r \in Seq(S) /\ Len(r) = Len(s) - 1 /\ DOMAIN r = 1..(Len(s) - 1)
        /\ \A j \in 1..(Len(s) - 1) : r[j] = IF j < i THEN s[j] ELSE s[j + 1]
    BY RemoveAtFacts
  <2> HIDE DEF r
  <2>3. IsInjective(r)
    <3> SUFFICES ASSUME NEW j \in DOMAIN r, NEW k \in DOMAIN r, r[j] = r[k] PROVE j = k
      BY DEF IsInjective
    <3>1. /\ j \in 1..(Len(s) - 1) /\ j \in DOMAIN s /\ j + 1 \in DOMAIN s
          /\ k \in 1..(Len(s) - 1) /\ k \in DOMAIN s /\ k + 1 \in DOMAIN s
      BY <2>2
    <3>2. \A m, n \in DOMAIN s : s[m] = s[n] => m = n
      BY DEF IsInjective
    <3>3. CASE j < i /\ k < i
      BY <2>2, <3>1, <3>2, <3>3
    <3>4. CASE j < i /\ ~(k < i)
      BY <2>2, <3>1, <3>2, <3>4
    <3>5. CASE ~(j < i) /\ k < i
      BY <2>2, <3>1, <3>2, <3>5
    <3>6. CASE ~(j < i) /\ ~(k < i)
      BY <2>2, <3>1, <3>2, <3>6
    <3> QED
      BY <3>3, <3>4, <3>5, <3>6
  <2>4. \A x \in ToSet(r) : x \in ToSet(s) \ {e}
    <3> TAKE x \in ToSet(r)
    <3>1. PICK j \in 1..(Len(s) - 1) : x = r[j]
      BY <2>2 DEF ToSet
    <3>2. PICK k \in DOMAIN s : k # i /\ x = s[k]
      <4>1. CASE j < i
        BY <2>2, <3>1, <4>1
      <4>2. CASE ~(j < i)
        BY <2>2, <3>1, <4>2
      <4> QED
        BY <4>1, <4>2
    <3>3. i \in DOMAIN s /\ \A m, n \in DOMAIN s : s[m] = s[n] => m = n
      BY DEF IsInjective
    <3> QED
      BY <2>1, <3>2, <3>3 DEF ToSet
  <2>5. ASSUME NEW x \in ToSet(s) \ {e} PROVE x \in ToSet(r)
    <3>1. PICK k \in 1..Len(s) : s[k] = x
      BY DEF ToSet
    <3>2. k # i
      BY <2>1, <3>1
    <3>3. CASE k < i
      BY <2>2, <3>1, <3>3 DEF ToSet
    <3>4. CASE k > i
      <4>1. k - 1 \in DOMAIN r /\ r[k - 1] = s[k]
        BY <2>2, <3>4
      <4> QED
        BY <3>1, <4>1 DEF ToSet
    <3> QED
      BY <3>2, <3>3, <3>4
  <2>6. RemoveFirst(s, e) = r
    BY <2>1 DEF r
  <2> QED
    BY <2>2, <2>3, <2>4, <2>5, <2>6
<1> QED
  BY <1>1, <1>2

LEMMA AppendFacts ==
    ASSUME NEW S, NEW s \in Seq(S), NEW e \in S
    PROVE  /\ Append(s, e) \in Seq(S) /\ ToSet(Append(s, e)) = ToSet(s) \cup {e}
           /\ IsInjective(s) /\ e \notin ToSet(s) => IsInjective(Append(s, e))
<1>1. /\ Append(s, e) \in Seq(S) /\ DOMAIN Append(s, e) = 1..(Len(s) + 1)
      /\ \A i \in 1..Len(s) : Append(s, e)[i] = s[i]
      /\ Append(s, e)[Len(s) + 1] = e /\ DOMAIN s = 1..Len(s)
  OBVIOUS
<1>2. ToSet(Append(s, e)) = ToSet(s) \cup {e}
  BY <1>1 DEF ToSet
<1>3. ASSUME IsInjective(s), e \notin ToSet(s) PROVE IsInjective(Append(s, e))
  BY <1>1, <1>3 DEF IsInjective, ToSet
<1> QED
  BY <1>1, <1>2, <1>3

\* The rest of a list without duplicates is the list without its head.
LEMMA TailFacts ==
    ASSUME NEW S, NEW s \in Seq(S), s # <<>>
    PROVE  /\ Head(s) \in S /\ Tail(s) \in Seq(S) /\ Head(s) \in ToSet(s)
           /\ ToSet(s) = {Head(s)} \cup ToSet(Tail(s))
           /\ IsInjective(s) => IsInjective(Tail(s)) /\ Head(s) \notin ToSet(Tail(s))
<1>1. /\ Tail(s) \in Seq(S) /\ Len(s) \in Nat \ {0} /\ DOMAIN s = 1..Len(s)
      /\ DOMAIN Tail(s) = 1..(Len(s) - 1)
      /\ \A i \in 1..(Len(s) - 1) : Tail(s)[i] = s[i + 1]
      /\ Head(s) = s[1] /\ Head(s) \in S
  OBVIOUS
<1>2. Head(s) \in ToSet(s) /\ ToSet(Tail(s)) \subseteq ToSet(s)
  BY <1>1 DEF ToSet
<1>3. ASSUME NEW x \in ToSet(s) PROVE x = Head(s) \/ x \in ToSet(Tail(s))
  <2>1. PICK k \in 1..Len(s) : s[k] = x
    BY <1>1 DEF ToSet
  <2>2. k = 1 \/ (k - 1 \in DOMAIN Tail(s) /\ Tail(s)[k - 1] = s[k])
    BY <1>1
  <2> QED
    BY <1>1, <2>1, <2>2 DEF ToSet
<1>4. ASSUME IsInjective(s) PROVE IsInjective(Tail(s)) /\ Head(s) \notin ToSet(Tail(s))
  BY <1>1, <1>4 DEF IsInjective, ToSet
<1> QED
  BY <1>1, <1>2, <1>3, <1>4
-----------------------------------------------------------------------------
\* A function as FlattenSeq() defines it, for the first n sequences.
Flattens(S, ss, n) ==
    \E f \in [1..n -> Seq(S)] :
        f = [i \in 1..n |-> IF i = 1 THEN ss[i] ELSE f[i - 1] \o ss[i]]

\* The recursive function of FlattenSeq() is what its definition says, and the
\* sequences it concatenates are over S.
LEMMA FlattenDefined ==
    ASSUME NEW S, NEW ss \in Seq(Seq(S)), NEW k \in 0..Len(ss)
    PROVE  Flattens(S, ss, k)
<1> DEFINE P(n) == Flattens(S, ss, n)
           Bad == {n \in 0..Len(ss) : ~P(n)}
<1>1. SUFFICES ASSUME Bad # {} PROVE FALSE
  OBVIOUS
<1>2. PICK n \in Bad : \A m \in Bad : n <= m
  <2>1. Bad \in SUBSET Nat
    OBVIOUS
  <2> QED
    BY <1>1, <2>1, Least, Zenon
<1>3. n # 0
  <2>1. P(0)
    <3> DEFINE f == [i \in 1..0 |-> ss[1]]
    <3>1. f \in [1..0 -> Seq(S)]
      OBVIOUS
    <3>2. f = [i \in 1..0 |-> IF i = 1 THEN ss[i] ELSE f[i - 1] \o ss[i]]
      OBVIOUS
    <3> QED
      BY <3>1, <3>2 DEF Flattens
  <2> QED
    BY <2>1
<1>4. n \in 1..Len(ss) /\ n - 1 \in 0..Len(ss) /\ ~P(n)
  BY <1>3
<1>5. P(n - 1)
  <2>1. n - 1 \notin Bad
    BY <1>2, <1>4
  <2> QED
    BY <1>4, <2>1
<1>6. PICK g \in [1..(n - 1) -> Seq(S)] :
        g = [i \in 1..(n - 1) |-> IF i = 1 THEN ss[i] ELSE g[i - 1] \o ss[i]]
  BY <1>5 DEF Flattens
<1> DEFINE f == [i \in 1..n |-> IF i < n THEN g[i]
                                ELSE IF i = 1 THEN ss[i] ELSE g[i - 1] \o ss[i]]
<1>7. f \in [1..n -> Seq(S)]
  <2> SUFFICES ASSUME NEW i \in 1..n PROVE f[i] \in Seq(S)
    OBVIOUS
  <2>1. CASE i < n
    BY <2>1, <1>4, <1>6
  <2>2. CASE i = n /\ i = 1
    BY <2>2, <1>4
  <2>3. CASE i = n /\ i # 1
    <3>1. g[i - 1] \in Seq(S) /\ ss[i] \in Seq(S)
      BY <2>3, <1>4, <1>6
    <3> QED
      BY <2>3, <3>1
  <2> QED
    BY <2>1, <2>2, <2>3, <1>4
<1>8. \A i \in 1..n : f[i] = IF i = 1 THEN ss[i] ELSE f[i - 1] \o ss[i]
  <2> TAKE i \in 1..n
  <2>1. CASE i < n
    <3>1. i \in 1..(n - 1) /\ f[i] = g[i]
      BY <2>1, <1>4
    <3>2. g[i] = IF i = 1 THEN ss[i] ELSE g[i - 1] \o ss[i]
      BY <1>6, <3>1
    <3>3. i # 1 => f[i - 1] = g[i - 1]
      BY <2>1, <1>4
    <3> QED
      BY <3>1, <3>2, <3>3
  <2>2. CASE i = n
    <3>1. i # 1 => f[i - 1] = g[i - 1]
      BY <2>2, <1>4
    <3> QED
      BY <2>2, <3>1
  <2> QED
    BY <2>1, <2>2, <1>4
<1>9. f = [i \in 1..n |-> IF i = 1 THEN ss[i] ELSE f[i - 1] \o ss[i]]
  BY <1>7, <1>8
<1> QED
  BY <1>4, <1>7, <1>9 DEF Flattens

LEMMA FlattenType ==
    ASSUME NEW S, NEW ss \in Seq(Seq(S))
    PROVE  FlattenSeq(ss) \in Seq(S)
<1>1. CASE Len(ss) = 0
  <2>1. ss = <<>>
    BY <1>1
  <2>2. FlattenSeq(ss) = ss
    BY <1>1 DEF FlattenSeq
  <2>3. <<>> \in Seq(S)
    OBVIOUS
  <2> QED
    BY <2>1, <2>2, <2>3, Zenon
<1>2. CASE Len(ss) # 0
  <2> DEFINE Def(f) == f = [i \in 1..Len(ss) |-> IF i = 1 THEN ss[i] ELSE f[i - 1] \o ss[i]]
             F == CHOOSE f : Def(f)
  <2>1. PICK g \in [1..Len(ss) -> Seq(S)] : Def(g)
    <3>1. Len(ss) \in 0..Len(ss)
      OBVIOUS
    <3>2. Flattens(S, ss, Len(ss))
      BY <3>1, FlattenDefined
    <3> QED
      BY <3>2 DEF Flattens
  <2>2. Def(F)
    BY <2>1
  <2>3. FlattenSeq(ss) = F[Len(ss)]
    BY <1>2 DEF FlattenSeq
  <2> HIDE DEF F
  <2>4. \A i \in 1..Len(ss) : F[i] \in Seq(S)
    <3> DEFINE Bad == {i \in 1..Len(ss) : F[i] \notin Seq(S)}
    <3>1. SUFFICES ASSUME Bad # {} PROVE FALSE
      OBVIOUS
    <3>2. PICK n \in Bad : \A m \in Bad : n <= m
      <4>1. Bad \in SUBSET Nat
        OBVIOUS
      <4> QED
        BY <3>1, <4>1, Least, Zenon
    <3>3. n # 1 => n - 1 \in 1..Len(ss) /\ n - 1 \notin Bad
      BY <3>2
    <3>4. F[n] = IF n = 1 THEN ss[n] ELSE F[n - 1] \o ss[n]
      BY <2>2
    <3>5. ss[n] \in Seq(S)
      OBVIOUS
    <3>6. n # 1 => F[n - 1] \o ss[n] \in Seq(S)
      BY <3>3, <3>5
    <3> QED
      BY <3>4, <3>5, <3>6
  <2> QED
    BY <1>2, <2>3, <2>4
<1> QED
  BY <1>1, <1>2
-----------------------------------------------------------------------------
LEMMA InsertAtFacts ==
    ASSUME NEW S, NEW s \in Seq(S), NEW e \in S, NEW k \in 1..(Len(s) + 1)
    PROVE  /\ InsertAt(s, k, e) \in Seq(S) /\ Len(InsertAt(s, k, e)) = Len(s) + 1
           /\ \A j \in 1..(Len(s) + 1) :
                InsertAt(s, k, e)[j] = IF j < k THEN s[j] ELSE IF j = k THEN e ELSE s[j - 1]
           /\ ToSet(InsertAt(s, k, e)) = ToSet(s) \cup {e}
<1> DEFINE a == SubSeq(s, 1, k - 1)
           m == <<e>>
           b == SubSeq(s, k, Len(s))
           r == InsertAt(s, k, e)
<1>1. a \in Seq(S) /\ Len(a) = k - 1 /\ \A j \in 1..(k - 1) : a[j] = s[j]
  OBVIOUS
<1>2. b \in Seq(S) /\ Len(b) = Len(s) - k + 1 /\ \A j \in 1..(Len(s) - k + 1) : b[j] = s[j + k - 1]
  OBVIOUS
<1>3. m \in Seq(S) /\ Len(m) = 1 /\ m[1] = e
  OBVIOUS
<1>4. r = (a \o m) \o b
  BY DEF InsertAt
<1> DEFINE am == a \o m
<1> HIDE DEF a, m, b, r
<1>5. am \in Seq(S) /\ Len(am) = k /\ \A j \in 1..k : am[j] = IF j < k THEN s[j] ELSE e
  <2>1. /\ am \in Seq(S) /\ Len(am) = Len(a) + Len(m)
        /\ \A j \in 1..(Len(a) + Len(m)) : am[j] = IF j <= Len(a) THEN a[j] ELSE m[j - Len(a)]
    BY <1>1, <1>3, ConcatProperties, Zenon
  <2>2. \A j \in 1..k : am[j] = IF j <= Len(a) THEN a[j] ELSE m[j - Len(a)]
    BY <1>1, <1>3, <2>1
  <2> HIDE DEF am
  <2>3. \A j \in 1..k : IF j < k THEN am[j] = s[j] ELSE am[j] = m[1]
    BY <1>1, <2>2
  <2> QED
    BY <1>1, <1>3, <2>1, <2>3
<1>6. r = am \o b
  BY <1>4
<1> HIDE DEF am
<1>7. r \in Seq(S) /\ Len(r) = Len(s) + 1
  <2>1. r \in Seq(S) /\ Len(r) = Len(am) + Len(b)
    BY <1>2, <1>5, <1>6, ConcatProperties, Zenon
  <2> QED
    BY <1>2, <1>5, <2>1
<1>8. \A j \in 1..(Len(s) + 1) : r[j] = IF j < k THEN s[j] ELSE IF j = k THEN e ELSE s[j - 1]
  <2> TAKE j \in 1..(Len(s) + 1)
  <2>1. CASE j <= k
    <3>1. r[j] = am[j]
      BY <1>2, <1>5, <1>6, <2>1
    <3> QED
      BY <1>5, <2>1, <3>1
  <2>2. CASE j > k
    <3>1. r[j] = b[j - k] /\ j - k \in 1..(Len(s) - k + 1)
      BY <1>2, <1>5, <1>6, <2>2
    <3>2. b[j - k] = s[(j - k) + k - 1] /\ (j - k) + k - 1 = j - 1
      BY <1>2, <2>2, <3>1
    <3> QED
      BY <2>2, <3>1, <3>2
  <2> QED
    BY <2>1, <2>2
<1>9. ToSet(r) = ToSet(s) \cup {e}
  <2>1. DOMAIN r = 1..(Len(s) + 1) /\ DOMAIN s = 1..Len(s)
    BY <1>7
  <2>2. ToSet(r) \subseteq ToSet(s) \cup {e}
    <3> SUFFICES ASSUME NEW j \in 1..(Len(s) + 1) PROVE r[j] \in ToSet(s) \cup {e}
      BY <2>1 DEF ToSet
    <3>1. CASE j < k
      BY <1>8, <2>1, <3>1 DEF ToSet
    <3>2. CASE j = k
      BY <1>8, <3>2
    <3>3. CASE j > k
      <4>1. r[j] = s[j - 1] /\ j - 1 \in DOMAIN s
        BY <1>8, <2>1, <3>3
      <4> QED
        BY <4>1 DEF ToSet
    <3> QED
      BY <3>1, <3>2, <3>3
  <2>3. e \in ToSet(r)
    <3>1. r[k] = e /\ k \in DOMAIN r
      BY <1>8, <2>1
    <3> QED
      BY <3>1 DEF ToSet
  <2>4. ASSUME NEW i \in 1..Len(s) PROVE s[i] \in ToSet(r)
    <3>1. CASE i < k
      <4>1. r[i] = s[i] /\ i \in DOMAIN r
        BY <1>8, <2>1, <3>1
      <4> QED
        BY <4>1 DEF ToSet
    <3>2. CASE i >= k
      <4>1. r[i + 1] = s[i] /\ i + 1 \in DOMAIN r
        BY <1>8, <2>1, <3>2
      <4> QED
        BY <4>1 DEF ToSet
    <3> QED
      BY <3>1, <3>2
  <2>5. ToSet(s) \subseteq ToSet(r)
    BY <2>1, <2>4 DEF ToSet
  <2> QED
    BY <2>2, <2>3, <2>5
<1> QED
  BY <1>7, <1>8, <1>9 DEF r

\* The positions of s whose element is in X.
At(s, X) == {j \in DOMAIN s : s[j] \in X}

\* An insertion moves the others and adds one position.
LEMMA InsertAtCount ==
    ASSUME NEW S, NEW s \in Seq(S), NEW e \in S, NEW k \in 1..(Len(s) + 1), NEW X
    PROVE  /\ IsFiniteSet(At(s, X)) /\ IsFiniteSet(At(InsertAt(s, k, e), X))
           /\ Cardinality(At(s, X)) \in Nat
           /\ Cardinality(At(InsertAt(s, k, e), X)) =
                Cardinality(At(s, X)) + (IF e \in X THEN 1 ELSE 0)
<1> DEFINE r == InsertAt(s, k, e)
           shift == [j \in At(s, X) |-> IF j < k THEN j ELSE j + 1]
           T == At(r, X) \ {k}
<1>1. /\ r \in Seq(S) /\ Len(r) = Len(s) + 1 /\ DOMAIN r = 1..(Len(s) + 1) /\ DOMAIN s = 1..Len(s)
      /\ \A j \in 1..(Len(s) + 1) : r[j] = IF j < k THEN s[j] ELSE IF j = k THEN e ELSE s[j - 1]
  BY InsertAtFacts
<1> HIDE DEF r
<1>2. At(s, X) \in SUBSET (1..Len(s)) /\ At(r, X) \in SUBSET (1..(Len(s) + 1))
  BY <1>1 DEF At
<1>3. IsFiniteSet(1..Len(s)) /\ IsFiniteSet(1..(Len(s) + 1))
  BY FS_Interval
<1>4. IsFiniteSet(At(s, X)) /\ IsFiniteSet(At(r, X))
  BY <1>2, <1>3, FS_Subset
<1>5. Cardinality(At(s, X)) \in Nat /\ Cardinality(At(r, X)) \in Nat
  BY <1>4, FS_CardinalityType
<1>6. shift \in Bijection(At(s, X), T)
  <2>1. \A j \in At(s, X) : shift[j] \in T
    <3> TAKE j \in At(s, X)
    <3>1. j \in 1..Len(s) /\ s[j] \in X
      BY <1>1 DEF At
    <3>2. CASE j < k
      <4>1. shift[j] = j /\ r[j] = s[j] /\ j \in DOMAIN r
        BY <1>1, <3>1, <3>2
      <4> QED
        BY <3>1, <3>2, <4>1 DEF At
    <3>3. CASE j >= k
      <4>1. shift[j] = j + 1 /\ r[j + 1] = s[j] /\ j + 1 \in DOMAIN r /\ j + 1 # k
        BY <1>1, <3>1, <3>3
      <4> QED
        BY <3>1, <3>3, <4>1 DEF At
    <3> QED
      BY <3>1, <3>2, <3>3
  <2>2. \A i, j \in At(s, X) : shift[i] = shift[j] => i = j
    BY <1>2
  <2>3. \A t \in T : \E j \in At(s, X) : shift[j] = t
    <3> TAKE t \in T
    <3>1. t \in 1..(Len(s) + 1) /\ r[t] \in X /\ t # k
      BY <1>1 DEF At
    <3>2. CASE t < k
      <4>1. t \in At(s, X) /\ shift[t] = t
        BY <1>1, <3>1, <3>2 DEF At
      <4> QED
        BY <4>1
    <3>3. CASE t > k
      <4>1. t - 1 \in At(s, X) /\ shift[t - 1] = t
        BY <1>1, <3>1, <3>3 DEF At
      <4> QED
        BY <4>1
    <3> QED
      BY <3>1, <3>2, <3>3
  <2>4. shift \in [At(s, X) -> T]
    BY <2>1
  <2> HIDE DEF shift, T
  <2> QED
    BY <2>2, <2>3, <2>4 DEF Bijection, Injection, Surjection, IsInjective
<1>7. Cardinality(T) = Cardinality(At(s, X))
  BY <1>4, <1>6, FS_Bijection DEF ExistsBijection
<1>8. Cardinality(T) = IF k \in At(r, X) THEN Cardinality(At(r, X)) - 1 ELSE Cardinality(At(r, X))
  BY <1>4, FS_RemoveElement
<1>9. k \in At(r, X) <=> e \in X
  BY <1>1 DEF At
<1> HIDE DEF T
<1> QED
  BY <1>4, <1>5, <1>7, <1>8, <1>9 DEF r

\* A set of positions that has with each the earlier ones, from m on.
LEMMA InitialSegment ==
    ASSUME NEW n \in Nat, NEW m \in Nat, NEW T \in SUBSET ((m + 1)..n),
           \A j \in T : \A i \in (m + 1)..j : i \in T
    PROVE  /\ Cardinality(T) \in Nat /\ m + Cardinality(T) <= IF m <= n THEN n ELSE m
           /\ T = (m + 1)..(m + Cardinality(T))
<1>1. CASE T = {}
  BY <1>1, FS_EmptySet
<1>2. CASE T # {}
  <2>1. T \in SUBSET (1..n)
    OBVIOUS
  <2>2. PICK i \in T : \A j \in T : j <= i
    BY <1>2, <2>1, Greatest
  <2>3. i \in (m + 1)..n
    OBVIOUS
  <2>4. T = (m + 1)..i
    <3>1. \A j \in T : j \in (m + 1)..i
      BY <2>2, <2>3
    <3>2. \A j \in (m + 1)..i : j \in T
      BY <2>2
    <3> QED
      BY <3>1, <3>2
  <2>5. Cardinality((m + 1)..i) = i - m
    BY <2>3, FS_Interval
  <2> QED
    BY <2>3, <2>4, <2>5
<1> QED
  BY <1>1, <1>2

\* A function given by its first value and by the step from each value to the
\* next exists.
Steps(S, z, step, n) ==
    \E f \in [0..n -> S] : f[0] = z /\ \A i \in 1..n : f[i] = step[<<f[i - 1], i>>]
LEMMA StepsExist ==
    ASSUME NEW S, NEW z \in S, NEW n \in Nat, NEW step \in [S \X (1..n) -> S]
    PROVE  Steps(S, z, step, n)
<1> DEFINE Bad == {k \in 0..n : ~Steps(S, z, step, k)}
<1>1. SUFFICES ASSUME Bad # {} PROVE FALSE
  OBVIOUS
<1>2. PICK k \in Bad : \A m \in Bad : k <= m
  <2>1. Bad \in SUBSET Nat
    OBVIOUS
  <2> QED
    BY <1>1, <2>1, Least, Zenon
<1>3. k # 0
  <2> DEFINE f == [i \in 0..0 |-> z]
  <2>1. f \in [0..0 -> S] /\ f[0] = z /\ \A i \in 1..0 : f[i] = step[<<f[i - 1], i>>]
    OBVIOUS
  <2>2. Steps(S, z, step, 0)
    BY <2>1 DEF Steps
  <2> QED
    BY <2>2
<1>4. k \in 1..n /\ k - 1 \in 0..n /\ ~Steps(S, z, step, k)
  BY <1>3
<1>5. Steps(S, z, step, k - 1)
  <2>1. k - 1 \notin Bad
    BY <1>2, <1>4
  <2> QED
    BY <1>4, <2>1
<1>6. PICK g \in [0..(k - 1) -> S] : g[0] = z /\ \A i \in 1..(k - 1) : g[i] = step[<<g[i - 1], i>>]
  BY <1>5 DEF Steps
<1> DEFINE f == [i \in 0..k |-> IF i < k THEN g[i] ELSE step[<<g[k - 1], k>>]]
<1>7. step[<<g[k - 1], k>>] \in S
  <2>1. g[k - 1] \in S
    BY <1>4, <1>6
  <2> QED
    BY <1>4, <2>1
<1>8. f \in [0..k -> S] /\ f[0] = z
  BY <1>4, <1>6, <1>7
<1>9. \A i \in 1..k : f[i] = step[<<f[i - 1], i>>]
  <2> TAKE i \in 1..k
  <2>1. CASE i < k
    <3>1. f[i] = g[i] /\ f[i - 1] = g[i - 1] /\ i \in 1..(k - 1)
      BY <1>4, <2>1
    <3> QED
      BY <1>6, <3>1
  <2>2. CASE i = k
    BY <1>4, <2>2
  <2> QED
    BY <1>4, <2>1, <2>2
<1> HIDE DEF f
<1> QED
  BY <1>4, <1>8, <1>9 DEF Steps

\* Induction, for a set of numbers.
LEMMA UpTo ==
    ASSUME NEW n \in Nat, NEW P, 0 \in P, \A i \in 1..n : i - 1 \in P => i \in P
    PROVE  \A i \in 0..n : i \in P
<1> DEFINE Bad == {k \in 0..n : k \notin P}
<1>1. SUFFICES ASSUME Bad # {} PROVE FALSE
  OBVIOUS
<1>2. PICK k \in Bad : \A m \in Bad : k <= m
  <2>1. Bad \in SUBSET Nat
    OBVIOUS
  <2> QED
    BY <1>1, <2>1, Least, Zenon
<1>3. k # 0
  OBVIOUS
<1>4. k \in 1..n /\ k - 1 \in 0..n /\ k - 1 \notin Bad
  BY <1>2, <1>3
<1> QED
  BY <1>4

LEMMA ConcatFacts ==
    ASSUME NEW S, NEW a \in Seq(S), NEW b \in Seq(S)
    PROVE  a \o b \in Seq(S) /\ ToSet(a \o b) = ToSet(a) \cup ToSet(b)
<1>2. /\ a \o b \in Seq(S) /\ DOMAIN (a \o b) = 1..(Len(a) + Len(b)) /\ Len(a) \in Nat /\ Len(b) \in Nat
      /\ DOMAIN a = 1..Len(a) /\ DOMAIN b = 1..Len(b)
      /\ \A k \in 1..Len(a) : (a \o b)[k] = a[k]
      /\ \A k \in 1..Len(b) : (a \o b)[k + Len(a)] = b[k]
      /\ \A k \in 1..(Len(a) + Len(b)) : k <= Len(a) \/ k - Len(a) \in 1..Len(b)
  OBVIOUS
<1>3. \A k \in 1..(Len(a) + Len(b)) : k > Len(a) => (a \o b)[k] = b[k - Len(a)]
  OBVIOUS
<1>4. ToSet(a \o b) \subseteq ToSet(a) \cup ToSet(b)
  BY <1>2, <1>3 DEF ToSet
<1>5. ToSet(a) \cup ToSet(b) \subseteq ToSet(a \o b)
  <2>1. \A k \in 1..Len(b) : k + Len(a) \in 1..(Len(a) + Len(b))
    BY <1>2
  <2>2. ASSUME NEW x \in ToSet(a) PROVE x \in ToSet(a \o b)
    <3>1. PICK k \in 1..Len(a) : x = a[k]
      BY <1>2 DEF ToSet
    <3>2. k \in 1..(Len(a) + Len(b)) /\ x = (a \o b)[k]
      BY <1>2, <3>1
    <3> QED
      BY <1>2, <3>2 DEF ToSet
  <2>3. ASSUME NEW x \in ToSet(b) PROVE x \in ToSet(a \o b)
    <3>1. PICK k \in 1..Len(b) : x = b[k]
      BY <1>2 DEF ToSet
    <3>2. k + Len(a) \in 1..(Len(a) + Len(b)) /\ x = (a \o b)[k + Len(a)]
      BY <1>2, <2>1, <3>1
    <3> QED
      BY <1>2, <3>2 DEF ToSet
  <2> QED
    BY <2>2, <2>3
<1> QED
  BY <1>2, <1>4, <1>5

\* FlattenSeq() has the elements of all the sequences.
LEMMA FlattenElements ==
    ASSUME NEW S, NEW ss \in Seq(Seq(S)), NEW e
    PROVE  e \in ToSet(FlattenSeq(ss)) <=> \E i \in 1..Len(ss) : e \in ToSet(ss[i])
<1>1. CASE Len(ss) = 0
  <2>1. ss = <<>>
    BY <1>1
  <2>2. FlattenSeq(ss) = ss
    BY <1>1 DEF FlattenSeq
  <2>3. ToSet(<<>>) = {}
    BY DEF ToSet
  <2> QED
    BY <1>1, <2>1, <2>2, <2>3
<1>2. CASE Len(ss) # 0
  <2> DEFINE n == Len(ss)
             Def(f) == f = [i \in 1..Len(ss) |-> IF i = 1 THEN ss[i] ELSE f[i - 1] \o ss[i]]
             F == CHOOSE f : Def(f)
             In(i) == \E j \in 1..i : e \in ToSet(ss[j])
             P == {k \in 0..(n - 1) : F[k + 1] \in Seq(S) /\ (e \in ToSet(F[k + 1]) <=> In(k + 1))}
  <2>1. PICK g \in [1..Len(ss) -> Seq(S)] : Def(g)
    <3>1. Len(ss) \in 0..Len(ss)
      OBVIOUS
    <3>2. Flattens(S, ss, Len(ss))
      BY <3>1, FlattenDefined
    <3> QED
      BY <3>2 DEF Flattens
  <2>2. Def(F)
    BY <2>1
  <2>3. FlattenSeq(ss) = F[Len(ss)]
    BY <1>2 DEF FlattenSeq
  <2>4. \A i \in 1..n : F[i] = IF i = 1 THEN ss[i] ELSE F[i - 1] \o ss[i]
    BY <2>2
  <2>5. n \in Nat \ {0} /\ \A i \in 1..n : ss[i] \in Seq(S)
    BY <1>2
  <2> HIDE DEF F, n
  <2>6. 0 \in P
    <3>1. F[1] = ss[1] /\ ss[1] \in Seq(S)
      BY <2>4, <2>5
    <3> QED
      BY <3>1, <2>5
  <2>7. ASSUME NEW i \in 1..(n - 1), i - 1 \in P PROVE i \in P
    <3>0. i + 1 \in 1..n /\ i + 1 # 1 /\ (i + 1) - 1 = i /\ (i - 1) + 1 = i
      BY <2>5
    <3>1. F[i + 1] = F[i] \o ss[i + 1] /\ F[i] \in Seq(S) /\ ss[i + 1] \in Seq(S)
      <4>1. F[i + 1] = IF i + 1 = 1 THEN ss[i + 1] ELSE F[(i + 1) - 1] \o ss[i + 1]
        BY <2>4, <3>0, Zenon
      <4>2. F[(i - 1) + 1] \in Seq(S)
        BY <2>7, Zenon
      <4> QED
        BY <2>5, <3>0, <4>1, <4>2, Zenon
    <3>2. ToSet(F[i + 1]) = ToSet(F[i]) \cup ToSet(ss[i + 1]) /\ F[i + 1] \in Seq(S)
      <4> DEFINE a == F[i]
                 b == ss[i + 1]
      <4>1. a \in Seq(S) /\ b \in Seq(S)
        BY <3>1
      <4> HIDE DEF a, b
      <4>2. a \o b \in Seq(S) /\ ToSet(a \o b) = ToSet(a) \cup ToSet(b)
        BY <4>1, ConcatFacts
      <4> QED
        BY <3>1, <4>2 DEF a, b
    <3>3. In(i + 1) <=> In(i) \/ e \in ToSet(ss[i + 1])
      BY <2>5
    <3> QED
      BY <2>5, <2>7, <3>2, <3>3
  <2>8. n - 1 \in P
    <3>1. n - 1 \in Nat
      BY <2>5
    <3>2. n - 1 \in 0..(n - 1)
      BY <3>1
    <3> HIDE DEF P
    <3>3. \A i \in 0..(n - 1) : i \in P
      BY <2>6, <2>7, <3>1, UpTo, Zenon
    <3> QED
      BY <3>2, <3>3, Zenon
  <2> QED
    BY <2>3, <2>5, <2>8 DEF n
<1> QED
  BY <1>1, <1>2
-----------------------------------------------------------------------------
\* A function on X is defined by recursion when what it is at an element only
\* depends on what it is at elements of a higher rank, and ranks are bounded.
Recursive(X, T, z, m, rk, B) ==
    /\ z \in T /\ m \in Nat /\ rk \in [X -> 0..m] /\ B \in [[X -> T] \X X -> T]
    /\ \A f, g \in [X -> T] : \A n \in X :
         (\A c \in X : rk[n] < rk[c] => f[c] = g[c]) => B[<<f, n>>] = B[<<g, n>>]

LEMMA RecursionExists ==
    ASSUME NEW X, NEW T, NEW z, NEW m, NEW rk, NEW B, Recursive(X, T, z, m, rk, B)
    PROVE  \E f \in [X -> T] : \A n \in X : f[n] = B[<<f, n>>]
<1>0. /\ z \in T /\ m \in Nat /\ rk \in [X -> 0..m] /\ B \in [[X -> T] \X X -> T]
      /\ \A f, g \in [X -> T] : \A n \in X :
           (\A c \in X : rk[n] < rk[c] => f[c] = g[c]) => B[<<f, n>>] = B[<<g, n>>]
  BY Zenon DEF Recursive
<1> USE <1>0
<1> DEFINE S == [X -> T]
           step == [p \in S \X (1..(m + 2)) |-> [n \in X |-> B[<<p[1], n>>]]]
           z0 == [n \in X |-> z]
<1>1. z0 \in S /\ m + 2 \in Nat
  OBVIOUS
<1>2. step \in [S \X (1..(m + 2)) -> S]
  <2>1. \A f \in S : [n \in X |-> B[<<f, n>>]] \in S
    OBVIOUS
  <2> QED
    BY <2>1
<1>3. PICK g \in [0..(m + 2) -> S] :
        g[0] = z0 /\ \A i \in 1..(m + 2) : g[i] = step[<<g[i - 1], i>>]
  <2> HIDE DEF step, S, z0
  <2>1. Steps(S, z0, step, m + 2)
    BY <1>1, <1>2, StepsExist
  <2> QED
    BY <2>1 DEF Steps
<1>4. \A i \in 1..(m + 2) : \A n \in X : g[i][n] = B[<<g[i - 1], n>>]
  <2> TAKE i \in 1..(m + 2)
  <2>1. i - 1 \in 0..(m + 2) /\ g[i - 1] \in S
    BY <1>3
  <2>2. g[i] = [n \in X |-> B[<<g[i - 1], n>>]]
    BY <1>3, <2>1
  <2> QED
    BY <2>2
<1> HIDE DEF step, z0
<1> DEFINE P == {k \in 0..(m + 1) : \A n \in X : m < rk[n] + k => g[k][n] = g[k + 1][n]}
<1>5. 0 \in P
  OBVIOUS
<1>6. ASSUME NEW k \in 1..(m + 1), k - 1 \in P PROVE k \in P
  <2> SUFFICES ASSUME NEW n \in X, m < rk[n] + k PROVE g[k][n] = g[k + 1][n]
    OBVIOUS
  <2>1. g[k][n] = B[<<g[k - 1], n>>] /\ g[k + 1][n] = B[<<g[k], n>>]
    <3>1. k \in 1..(m + 2) /\ k + 1 \in 1..(m + 2) /\ (k + 1) - 1 = k
      OBVIOUS
    <3>2. g[k + 1][n] = B[<<g[(k + 1) - 1], n>>]
      BY <1>4, <3>1, Zenon
    <3> QED
      BY <1>4, <3>1, <3>2, Zenon
  <2>2. \A c \in X : rk[n] < rk[c] => g[k - 1][c] = g[k][c]
    BY <1>6
  <2>3. g[k - 1] \in S /\ g[k] \in S
    BY <1>3
  <2> QED
    BY <2>1, <2>2, <2>3, Zenon
<1>7. m + 1 \in P
  <2>1. m + 1 \in Nat
    OBVIOUS
  <2> HIDE DEF P
  <2>2. \A i \in 0..(m + 1) : i \in P
    BY <1>5, <1>6, <2>1, UpTo, Zenon
  <2> QED
    BY <2>1, <2>2
<1>8. g[m + 1] \in S /\ \A n \in X : g[m + 1][n] = g[m + 2][n]
  BY <1>3, <1>7
<1>9. \A n \in X : g[m + 2][n] = B[<<g[m + 1], n>>]
  <2>1. m + 2 \in 1..(m + 2) /\ (m + 2) - 1 = m + 1
    OBVIOUS
  <2>2. \A n \in X : g[m + 2][n] = B[<<g[(m + 2) - 1], n>>]
    BY <1>4, <2>1, Zenon
  <2> QED
    BY <2>1, <2>2, Zenon
<1> QED
  BY <1>8, <1>9
=============================================================================
