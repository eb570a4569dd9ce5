--------------------------- MODULE SequenceLemmas ---------------------------
(***************************************************************************)
(* Facts about the sequence operators of the models.                       *)
(***************************************************************************)
EXTENDS Integers, Sequences, SequencesExt, FiniteSetTheorems,
        WellFoundedInduction, Queues, TLAPS

\* Removing the i-th entry of a queue shifts the entries behind it.
LEMMA RemoveAtIsShift ==
    ASSUME NEW S, NEW q \in Seq(S), NEW i \in DOMAIN q
    PROVE  /\ RemoveAt(q, i) \in Seq(S)
           /\ Len(RemoveAt(q, i)) = Len(q) - 1
           /\ \A k \in 1 .. Len(q) - 1 :
                RemoveAt(q, i)[k] = IF k < i THEN q[k] ELSE q[k + 1]
<1> DEFINE l == SubSeq(q, 1, i - 1)
           r == SubSeq(q, i + 1, Len(q))
<1>1. i \in 1 .. Len(q) /\ Len(q) \in Nat
  OBVIOUS
<1>2. /\ l \in Seq(S) /\ Len(l) = i - 1
      /\ \A k \in 1 .. i - 1 : l[k] = q[k]
  BY <1>1
<1>3. /\ r \in Seq(S) /\ Len(r) = Len(q) - i
      /\ \A k \in 1 .. Len(q) - i : r[k] = q[i + k]
  BY <1>1
<1>4. RemoveAt(q, i) = l \o r
  BY DEF RemoveAt
<1> HIDE DEF l, r
<1>5. l \o r \in Seq(S) /\ Len(l \o r) = Len(q) - 1
  BY <1>1, <1>2, <1>3
<1>6. ASSUME NEW k \in 1 .. Len(q) - 1
      PROVE  (l \o r)[k] = IF k < i THEN q[k] ELSE q[k + 1]
  <2>1. CASE k < i
    BY <1>1, <1>2, <1>3, <2>1
  <2>2. CASE ~ (k < i)
    <3>1. (l \o r)[k] = r[k - (i - 1)]
      BY <1>1, <1>2, <1>3, <2>2
    <3>2. k - (i - 1) \in 1 .. Len(q) - i /\ i + (k - (i - 1)) = k + 1
      BY <1>1, <2>2
    <3> QED BY <1>1, <1>3, <2>2, <3>1, <3>2
  <2> QED BY <2>1, <2>2
<1> QED BY <1>4, <1>5, <1>6

\* Removing an entry of a queue without duplicates removes it from its members.
LEMMA RemovingAnEntry ==
    ASSUME NEW S, NEW q \in Seq(S), NEW i \in DOMAIN q, IsInjective(q)
    PROVE  /\ RemoveAt(q, i) \in Seq(S)
           /\ ToSet(RemoveAt(q, i)) = ToSet(q) \ {q[i]}
           /\ IsInjective(RemoveAt(q, i))
<1> DEFINE w == RemoveAt(q, i)
<1>1. /\ w \in Seq(S) /\ Len(w) = Len(q) - 1
      /\ \A k \in 1 .. Len(q) - 1 : w[k] = IF k < i THEN q[k] ELSE q[k + 1]
  BY RemoveAtIsShift
<1> HIDE DEF w
<1>2. DOMAIN w = 1 .. Len(q) - 1 /\ DOMAIN q = 1 .. Len(q) /\ Len(q) \in Nat
  BY <1>1
<1>3. ASSUME NEW k \in DOMAIN w
      PROVE  w[k] \in ToSet(q) \ {q[i]}
  <2>1. CASE k < i
    BY <1>1, <1>2, <2>1 DEF ToSet, IsInjective
  <2>2. CASE ~ (k < i)
    BY <1>1, <1>2, <2>2 DEF ToSet, IsInjective
  <2> QED BY <2>1, <2>2
<1>4. ASSUME NEW x \in ToSet(q) \ {q[i]}
      PROVE  x \in ToSet(w)
  <2>1. PICK k \in DOMAIN q : q[k] = x
    BY DEF ToSet
  <2>2. CASE k < i
    <3>1. k \in DOMAIN w /\ w[k] = x
      BY <1>1, <1>2, <2>1, <2>2
    <3> QED BY <3>1 DEF ToSet
  <2>3. CASE k > i
    <3>1. k - 1 \in DOMAIN w /\ w[k - 1] = x
      BY <1>1, <1>2, <2>1, <2>3
    <3> QED BY <3>1 DEF ToSet
  <2>4. k # i
    BY <2>1
  <2> QED BY <1>2, <2>2, <2>3, <2>4
<1>5. ToSet(w) = ToSet(q) \ {q[i]}
  BY <1>3, <1>4 DEF ToSet
<1>6. IsInjective(w)
  <2> SUFFICES ASSUME NEW a \in DOMAIN w, NEW b \in DOMAIN w, w[a] = w[b]
               PROVE  a = b
    BY DEF IsInjective
  <2> DEFINE src(k) == IF k < i THEN k ELSE k + 1
  <2>1. /\ src(a) \in DOMAIN q /\ q[src(a)] = w[a]
        /\ src(b) \in DOMAIN q /\ q[src(b)] = w[b]
    BY <1>1, <1>2
  <2>2. src(a) = src(b)
    BY <2>1 DEF IsInjective
  <2> QED BY <1>2, <2>2
<1> QED BY <1>1, <1>5, <1>6 DEF w

\* Append adds one entry at the tail.
LEMMA AppendAdds ==
    ASSUME NEW S, NEW q \in Seq(S), NEW s \in S
    PROVE  /\ Append(q, s) \in Seq(S)
           /\ ToSet(Append(q, s)) = ToSet(q) \cup {s}
           /\ IsInjective(q) /\ s \notin ToSet(q) => IsInjective(Append(q, s))
<1>1. /\ Append(q, s) \in Seq(S) /\ Len(Append(q, s)) = Len(q) + 1
      /\ \A k \in 1 .. Len(q) : Append(q, s)[k] = q[k]
      /\ Append(q, s)[Len(q) + 1] = s
      /\ Len(q) \in Nat
  OBVIOUS
<1>2. DOMAIN Append(q, s) = 1 .. Len(q) + 1 /\ DOMAIN q = 1 .. Len(q)
  BY <1>1
<1>3. ToSet(Append(q, s)) = ToSet(q) \cup {s}
  <2>1. ASSUME NEW x \in ToSet(Append(q, s))
        PROVE  x \in ToSet(q) \cup {s}
    BY <1>1, <1>2 DEF ToSet
  <2>2. ASSUME NEW x \in ToSet(q)
        PROVE  x \in ToSet(Append(q, s))
    <3>1. PICK k \in DOMAIN q : q[k] = x
      BY DEF ToSet
    <3>2. k \in DOMAIN Append(q, s) /\ Append(q, s)[k] = x
      BY <1>1, <1>2, <3>1
    <3> QED BY <3>2 DEF ToSet
  <2>3. s \in ToSet(Append(q, s))
    <3>1. Len(q) + 1 \in DOMAIN Append(q, s)
      BY <1>1, <1>2
    <3> QED BY <1>1, <3>1 DEF ToSet
  <2> QED BY <2>1, <2>2, <2>3
<1>4. ASSUME IsInjective(q), s \notin ToSet(q)
      PROVE  IsInjective(Append(q, s))
  BY <1>1, <1>2, <1>4 DEF ToSet, IsInjective
<1> QED BY <1>1, <1>3, <1>4

\* Popping the head of a queue leaves the other entries.
LEMMA TailPops ==
    ASSUME NEW S, NEW q \in Seq(S), q # <<>>, IsInjective(q)
    PROVE  /\ Head(q) \in S
           /\ Tail(q) \in Seq(S)
           /\ Head(q) \in ToSet(q)
           /\ ToSet(Tail(q)) = ToSet(q) \ {Head(q)}
           /\ IsInjective(Tail(q))
<1>1. /\ Head(q) = q[1] /\ Tail(q) \in Seq(S) /\ Len(Tail(q)) = Len(q) - 1
      /\ \A k \in 1 .. Len(q) - 1 : Tail(q)[k] = q[k + 1]
      /\ Len(q) \in Nat \ {0}
  OBVIOUS
<1>2. DOMAIN Tail(q) = 1 .. Len(q) - 1 /\ DOMAIN q = 1 .. Len(q)
  BY <1>1
<1>3. 1 \in DOMAIN q /\ q[1] \in S
  BY <1>1, <1>2
<1>4. ASSUME NEW x \in ToSet(Tail(q))
      PROVE  x \in ToSet(q) \ {Head(q)}
  BY <1>1, <1>2, <1>3 DEF ToSet, IsInjective
<1>5. ASSUME NEW x \in ToSet(q) \ {Head(q)}
      PROVE  x \in ToSet(Tail(q))
  <2>1. PICK k \in DOMAIN q : q[k] = x
    BY DEF ToSet
  <2>2. k - 1 \in DOMAIN Tail(q) /\ Tail(q)[k - 1] = x
    BY <1>1, <1>2, <2>1
  <2> QED BY <2>2 DEF ToSet
<1>6. IsInjective(Tail(q))
  BY <1>1, <1>2 DEF IsInjective
<1> QED BY <1>1, <1>3, <1>4, <1>5, <1>6 DEF ToSet

\* Inserting an entry at the i-th place shifts those from there on.
LEMMA InsertAtIsShift ==
    ASSUME NEW S, NEW q \in Seq(S), NEW e \in S, NEW i \in 1 .. Len(q) + 1
    PROVE  /\ InsertAt(q, i, e) \in Seq(S)
           /\ Len(InsertAt(q, i, e)) = Len(q) + 1
           /\ \A k \in 1 .. Len(q) + 1 :
                InsertAt(q, i, e)[k] = IF k < i THEN q[k]
                                       ELSE IF k = i THEN e ELSE q[k - 1]
<1> DEFINE l == SubSeq(q, 1, i - 1)
           m == l \o <<e>>
           r == SubSeq(q, i, Len(q))
<1>1. i \in 1 .. Len(q) + 1 /\ Len(q) \in Nat
  OBVIOUS
<1>2. /\ l \in Seq(S) /\ Len(l) = i - 1
      /\ \A k \in 1 .. i - 1 : l[k] = q[k]
  BY <1>1
<1>3. /\ r \in Seq(S) /\ Len(r) = Len(q) - i + 1
      /\ \A k \in 1 .. Len(q) - i + 1 : r[k] = q[i + k - 1]
  BY <1>1
<1> HIDE DEF l, r
<1>4. /\ m \in Seq(S) /\ Len(m) = i
      /\ \A k \in 1 .. i - 1 : m[k] = q[k]
      /\ m[i] = e
  BY <1>1, <1>2
<1>5. InsertAt(q, i, e) = m \o r
  BY DEF InsertAt, l, r
<1> HIDE DEF m
<1>6. m \o r \in Seq(S) /\ Len(m \o r) = Len(q) + 1
  BY <1>1, <1>3, <1>4
<1>7. ASSUME NEW k \in 1 .. Len(q) + 1
      PROVE  (m \o r)[k] = IF k < i THEN q[k] ELSE IF k = i THEN e ELSE q[k - 1]
  <2>1. CASE k <= i
    BY <1>1, <1>3, <1>4, <2>1
  <2>2. CASE ~ (k <= i)
    <3>1. (m \o r)[k] = r[k - i]
      BY <1>1, <1>3, <1>4, <2>2
    <3>2. k - i \in 1 .. Len(q) - i + 1 /\ i + (k - i) - 1 = k - 1
      BY <1>1, <2>2
    <3> QED BY <1>1, <1>3, <2>2, <3>1, <3>2
  <2> QED BY <2>1, <2>2
<1> QED BY <1>5, <1>6, <1>7

\* A sequence without its last entry.
LEMMA FrontIsShorter ==
    ASSUME NEW S, NEW q \in Seq(S), q # <<>>
    PROVE  Front(q) \in Seq(S) /\ Len(Front(q)) = Len(q) - 1
<1>1. Len(q) \in Nat /\ Len(q) # 0
  OBVIOUS
<1>2. PICK i \in 1 .. Len(q) : i = Len(q)
  BY <1>1
<1>3. SubSeq(q, 1, i - 1) \in Seq(S) /\ Len(SubSeq(q, 1, i - 1)) = i - 1
  BY <1>1
<1> QED BY <1>2, <1>3 DEF Front

\* Every set of natural numbers that is not empty has a least one.
LEMMA LeastNumber ==
    ASSUME NEW T \in SUBSET Nat, T # {}
    PROVE  \E m \in T : \A n \in T : m <= n
<1> DEFINE R == {ss \in Nat \X Nat : ss[1] < ss[2]}
<1>1. IsWellFoundedOn(R, Nat)
  BY NatLessThanWellFounded DEF OpToRel
<1>2. PICK m \in T : \A n \in T : <<n, m>> \notin R
  <2> HIDE DEF R
  <2> QED BY <1>1, WFMin, Zenon
<1>3. \A n \in T : ~ (n < m)
  BY <1>2
<1> QED BY <1>3

\* What Removing computes: the recursion has a solution.
LEMMA RemovingStepByStep ==
    ASSUME NEW S, NEW q \in Seq(S), NEW gone
    PROVE  \E left :
             /\ DOMAIN left = 0 .. Len(q)
             /\ left[0] = <<>>
             /\ \A i \in 1 .. Len(q) :
                  left[i] = IF q[i] \in gone THEN left[i - 1]
                            ELSE Append(left[i - 1], q[i])
             /\ Removing(q, gone) = left[Len(q)]
<1> DEFINE Step(f, i) == IF i = 0 THEN <<>>
                         ELSE IF q[i] \in gone THEN f[i - 1]
                         ELSE Append(f[i - 1], q[i])
           Solved(n) == \E f : f = [i \in 0 .. n |-> Step(f, i)]
           unsolved == {n \in 0 .. Len(q) : ~ Solved(n)}
<1>0. Len(q) \in Nat
  OBVIOUS
<1>1. unsolved = {}
  <2> SUFFICES ASSUME unsolved # {} PROVE FALSE
    OBVIOUS
  <2>1. unsolved \in SUBSET Nat
    BY <1>0
  <2> HIDE DEF unsolved
  <2>2. PICK n \in unsolved : \A m \in unsolved : n <= m
    BY <2>1, LeastNumber
  <2> USE DEF unsolved
  <2>3. n \in 0 .. Len(q) /\ ~ Solved(n)
    BY <2>2
  <2>4. CASE n = 0
    <3> DEFINE f == [i \in 0 .. 0 |-> <<>>]
    <3>1. f = [i \in 0 .. 0 |-> Step(f, i)]
      OBVIOUS
    <3> HIDE DEF f
    <3>2. Solved(0)
      BY <3>1
    <3> QED BY <2>3, <2>4, <3>2
  <2>5. CASE n # 0
    <3>1. n - 1 \in 0 .. Len(q) /\ ~ (n <= n - 1)
      BY <1>0, <2>3, <2>5
    <3>2. Solved(n - 1)
      BY <2>2, <3>1
    <3>3. PICK g : g = [i \in 0 .. n - 1 |-> Step(g, i)]
      BY <3>2
    <3> DEFINE f == [i \in 0 .. n |-> IF i = n THEN Step(g, n) ELSE g[i]]
    <3>4. ASSUME NEW i \in 0 .. n
          PROVE  f[i] = Step(f, i)
      <4>1. CASE i = n
        BY <1>0, <2>3, <2>5, <4>1
      <4>2. CASE i # n /\ i # 0
        <5>1. i \in 0 .. n - 1 /\ i - 1 \in 0 .. n /\ i - 1 # n
          BY <1>0, <2>3, <4>2
        <5>2. f[i] = g[i] /\ f[i - 1] = g[i - 1]
          BY <4>2, <5>1
        <5> QED BY <3>3, <5>1, <5>2
      <4>3. CASE i # n /\ i = 0
        <5>1. 0 \in 0 .. n - 1
          BY <1>0, <2>3, <2>5
        <5>2. g[0] = <<>>
          BY <3>3, <5>1
        <5> QED BY <4>3, <5>2
      <4> QED BY <4>1, <4>2, <4>3
    <3>5. f = [i \in 0 .. n |-> Step(f, i)]
      BY <3>4
    <3> HIDE DEF f
    <3>6. Solved(n)
      BY <3>5
    <3> QED BY <2>3, <3>6
  <2> QED BY <2>4, <2>5
<1>2. Solved(Len(q))
  <2> HIDE DEF Solved
  <2> QED BY <1>0, <1>1
<1> DEFINE left == CHOOSE f : f = [i \in 0 .. Len(q) |-> Step(f, i)]
<1>3. left = [i \in 0 .. Len(q) |-> Step(left, i)]
  BY <1>2
<1>4. Removing(q, gone) = left[Len(q)]
  BY DEF Removing
<1> HIDE DEF left
<1>5. DOMAIN left = 0 .. Len(q) /\ \A i \in 0 .. Len(q) : left[i] = Step(left, i)
  BY <1>3
<1>6. left[0] = <<>>
  BY <1>0, <1>5
<1>7. \A i \in 1 .. Len(q) : i \in 0 .. Len(q) /\ i # 0
  BY <1>0
<1> QED BY <1>4, <1>5, <1>6, <1>7

\* Removing leaves the entries that are not to go, and no new one.
LEMMA RemovingDrops ==
    ASSUME NEW S, NEW q \in Seq(S), NEW gone
    PROVE  /\ Removing(q, gone) \in Seq(S)
           /\ ToSet(Removing(q, gone)) = ToSet(q) \ gone
           /\ IsInjective(q) => IsInjective(Removing(q, gone))
<1>0. Len(q) \in Nat /\ DOMAIN q = 1 .. Len(q) /\ \A i \in 1 .. Len(q) : q[i] \in S
  OBVIOUS
<1>1. PICK left :
        /\ left[0] = <<>>
        /\ \A i \in 1 .. Len(q) :
             left[i] = IF q[i] \in gone THEN left[i - 1]
                       ELSE Append(left[i - 1], q[i])
        /\ Removing(q, gone) = left[Len(q)]
  BY RemovingStepByStep
<1> DEFINE Upto(n) == {q[i] : i \in 1 .. n}
           Right(n) == /\ left[n] \in Seq(S)
                       /\ ToSet(left[n]) = Upto(n) \ gone
                       /\ IsInjective(q) => IsInjective(left[n])
           wrong == {n \in 0 .. Len(q) : ~ Right(n)}
<1>2. Right(0)
  <2>1. ToSet(<<>>) = {} /\ IsInjective(<<>>) /\ <<>> \in Seq(S)
    BY DEF ToSet, IsInjective
  <2>2. Upto(0) = {}
    OBVIOUS
  <2> QED BY <1>1, <2>1, <2>2
<1>3. ASSUME NEW n \in 1 .. Len(q), Right(n - 1)
      PROVE  Right(n)
  <2>1. Upto(n) = Upto(n - 1) \cup {q[n]}
    <3>1. 1 .. n = (1 .. n - 1) \cup {n}
      BY <1>0
    <3> QED BY <3>1
  <2>2. CASE q[n] \in gone
    <3>1. left[n] = left[n - 1]
      BY <1>1, <2>2
    <3>2. Upto(n) \ gone = Upto(n - 1) \ gone
      <4> HIDE DEF Upto
      <4> QED BY <2>1, <2>2
    <3> HIDE DEF Upto
    <3> QED BY <1>3, <3>1, <3>2
  <2>3. CASE q[n] \notin gone
    <3>1. left[n] = Append(left[n - 1], q[n])
      BY <1>1, <2>3
    <3>2. q[n] \in S
      BY <1>0
    <3>3. IsInjective(q) => q[n] \notin Upto(n - 1)
      BY <1>0 DEF IsInjective
    <3> HIDE DEF Upto
    <3>4. left[n - 1] \in Seq(S) /\ ToSet(left[n - 1]) = Upto(n - 1) \ gone
      BY <1>3
    <3>5. /\ Append(left[n - 1], q[n]) \in Seq(S)
          /\ ToSet(Append(left[n - 1], q[n])) = ToSet(left[n - 1]) \cup {q[n]}
          /\ IsInjective(left[n - 1]) /\ q[n] \notin ToSet(left[n - 1])
               => IsInjective(Append(left[n - 1], q[n]))
      BY <3>2, <3>4, AppendAdds
    <3>6. Upto(n) \ gone = (Upto(n - 1) \ gone) \cup {q[n]}
      BY <2>1, <2>3
    <3> QED BY <1>3, <3>1, <3>3, <3>4, <3>5, <3>6
  <2> QED BY <2>2, <2>3
<1>4. wrong = {}
  <2> SUFFICES ASSUME wrong # {} PROVE FALSE
    OBVIOUS
  <2>1. wrong \in SUBSET Nat
    BY <1>0
  <2>2. PICK n \in wrong : \A m \in wrong : n <= m
    <3> HIDE DEF wrong
    <3> QED BY <2>1, LeastNumber
  <2>3. n \in 0 .. Len(q) /\ ~ Right(n)
    BY <2>2
  <2> HIDE DEF Right
  <2>4. n \in 1 .. Len(q)
    BY <1>0, <1>2, <2>3
  <2>5. n - 1 \in 0 .. Len(q) /\ ~ (n <= n - 1)
    BY <1>0, <2>4
  <2>6. Right(n - 1)
    BY <2>2, <2>5
  <2> QED BY <1>3, <2>3, <2>4, <2>6
<1>5. Right(Len(q))
  <2> HIDE DEF Right
  <2> QED BY <1>0, <1>4
<1>6. Upto(Len(q)) = ToSet(q)
  BY <1>0 DEF ToSet
<1> QED BY <1>1, <1>5, <1>6

-----------------------------------------------------------------------------
(* Counting entries *)

\* Where in a sequence the members of a set stand.
Places(q, X) == {k \in DOMAIN q : q[k] \in X}

\* They are finitely many.
LEMMA PlacesAreFinite ==
    ASSUME NEW S, NEW q \in Seq(S), NEW X
    PROVE  IsFiniteSet(Places(q, X)) /\ Cardinality(Places(q, X)) \in Nat
<1>1. DOMAIN q = 1 .. Len(q) /\ Len(q) \in Nat
  OBVIOUS
<1>2. IsFiniteSet(1 .. Len(q))
  BY <1>1, FS_Interval
<1>3. Places(q, X) \in SUBSET (1 .. Len(q))
  BY <1>1 DEF Places
<1>4. IsFiniteSet(Places(q, X))
  BY <1>2, <1>3, FS_Subset
<1> QED BY <1>4, FS_CardinalityType

\* A sequence with one place closed up has the members of a set where they were,
\* but for the one that went.  Read from w to q it is what an insertion does.
LEMMA ShiftCounts ==
    ASSUME NEW S, NEW q \in Seq(S), NEW i \in DOMAIN q,
           NEW w \in Seq(S), Len(w) = Len(q) - 1,
           \A k \in 1 .. Len(q) - 1 : w[k] = IF k < i THEN q[k] ELSE q[k + 1],
           NEW X
    PROVE  Cardinality(Places(q, X)) =
             Cardinality(Places(w, X)) + (IF q[i] \in X THEN 1 ELSE 0)
<1> DEFINE A == Places(w, X)
           B == Places(q, X) \ {i}
           f == [k \in A |-> IF k < i THEN k ELSE k + 1]
<1>1. /\ Len(q) \in Nat /\ i \in 1 .. Len(q) /\ DOMAIN q = 1 .. Len(q)
      /\ DOMAIN w = 1 .. Len(q) - 1
  OBVIOUS
<1>2. \A k : k \in A <=> k \in 1 .. Len(q) - 1 /\ w[k] \in X
  BY <1>1 DEF Places
<1>3. \A k : k \in B <=> k \in 1 .. Len(q) /\ q[k] \in X /\ k # i
  BY <1>1 DEF Places
<1>4. IsFiniteSet(A) /\ Cardinality(A) \in Nat
  BY PlacesAreFinite
<1>5. IsFiniteSet(Places(q, X)) /\ Cardinality(Places(q, X)) \in Nat
  BY PlacesAreFinite
<1>6. i \in Places(q, X) <=> q[i] \in X
  BY DEF Places
<1> HIDE DEF A, B
<1>7. \A k \in A : f[k] \in B
  <2> SUFFICES ASSUME NEW k \in A PROVE f[k] \in B
    OBVIOUS
  <2>1. k \in 1 .. Len(q) - 1 /\ w[k] \in X
    BY <1>2
  <2>2. CASE k < i
    BY <1>1, <1>3, <2>1, <2>2
  <2>3. CASE ~ (k < i)
    <3>1. q[k + 1] \in X /\ k + 1 \in 1 .. Len(q) /\ k + 1 # i
      BY <1>1, <2>1, <2>3
    <3> QED BY <1>3, <2>3, <3>1
  <2> QED BY <2>2, <2>3
<1>8. \A k, l \in A : f[k] = f[l] => k = l
  <2>1. \A k \in A : k \in Int
    BY <1>1, <1>2
  <2> QED BY <1>1, <2>1
<1>9. \A l \in B : \E k \in A : f[k] = l
  <2> SUFFICES ASSUME NEW l \in B PROVE \E k \in A : f[k] = l
    OBVIOUS
  <2>1. l \in 1 .. Len(q) /\ q[l] \in X /\ l # i
    BY <1>3
  <2>2. CASE l < i
    <3>1. l \in A
      BY <1>1, <1>2, <2>1, <2>2
    <3> QED BY <2>2, <3>1
  <2>3. CASE l > i
    <3>1. l - 1 \in 1 .. Len(q) - 1 /\ ~ (l - 1 < i) /\ (l - 1) + 1 = l
      BY <1>1, <2>1, <2>3
    <3>2. l - 1 \in A
      BY <1>2, <2>1, <3>1
    <3> QED BY <3>1, <3>2
  <2> QED BY <1>1, <2>1, <2>2, <2>3
<1>10. f \in Bijection(A, B)
  <2>1. f \in [A -> B]
    BY <1>7
  <2> HIDE DEF f
  <2>2. f \in Injection(A, B)
    BY <1>8, <2>1 DEF Injection, IsInjective
  <2>3. f \in Surjection(A, B)
    BY <1>9, <2>1 DEF Surjection
  <2> QED BY <2>2, <2>3 DEF Bijection
<1>11. Cardinality(B) = Cardinality(A)
  BY <1>4, <1>10, FS_Bijection DEF ExistsBijection
<1>12. Cardinality(B) = IF i \in Places(q, X) THEN Cardinality(Places(q, X)) - 1
                        ELSE Cardinality(Places(q, X))
  BY <1>5, FS_RemoveElement DEF B
<1> QED BY <1>4, <1>5, <1>6, <1>11, <1>12 DEF A

\* The four ways in which the queues and arrays change by one entry.
LEMMA AppendCounts ==
    ASSUME NEW S, NEW q \in Seq(S), NEW s \in S, NEW X
    PROVE  Cardinality(Places(Append(q, s), X)) =
             Cardinality(Places(q, X)) + (IF s \in X THEN 1 ELSE 0)
<1> DEFINE w == Append(q, s)
           i == Len(q) + 1
<1>1. /\ w \in Seq(S) /\ Len(w) = Len(q) + 1 /\ Len(q) \in Nat
      /\ \A k \in 1 .. Len(q) : w[k] = q[k]
      /\ w[i] = s
  OBVIOUS
<1>2. i \in DOMAIN w /\ Len(q) = Len(w) - 1
  BY <1>1
<1>3. \A k \in 1 .. Len(w) - 1 : q[k] = IF k < i THEN w[k] ELSE w[k + 1]
  BY <1>1
<1> HIDE DEF w, i
<1>4. Cardinality(Places(w, X)) =
        Cardinality(Places(q, X)) + (IF w[i] \in X THEN 1 ELSE 0)
  BY <1>1, <1>2, <1>3, ShiftCounts, SMTT(30)
<1> QED BY <1>1, <1>4 DEF w

LEMMA TailCounts ==
    ASSUME NEW S, NEW q \in Seq(S), q # <<>>, NEW X
    PROVE  Cardinality(Places(q, X)) =
             Cardinality(Places(Tail(q), X)) + (IF Head(q) \in X THEN 1 ELSE 0)
<1> DEFINE w == Tail(q)
<1>1. /\ w \in Seq(S) /\ Len(w) = Len(q) - 1 /\ Len(q) \in Nat \ {0}
      /\ \A k \in 1 .. Len(q) - 1 : w[k] = q[k + 1]
      /\ Head(q) = q[1]
  OBVIOUS
<1>2. 1 \in DOMAIN q
  BY <1>1
<1>3. \A k \in 1 .. Len(q) - 1 : w[k] = IF k < 1 THEN q[k] ELSE q[k + 1]
  BY <1>1
<1> HIDE DEF w
<1>4. Cardinality(Places(q, X)) =
        Cardinality(Places(w, X)) + (IF q[1] \in X THEN 1 ELSE 0)
  BY <1>1, <1>2, <1>3, ShiftCounts, SMTT(30)
<1> QED BY <1>1, <1>4 DEF w

LEMMA RemoveAtCounts ==
    ASSUME NEW S, NEW q \in Seq(S), NEW i \in DOMAIN q, NEW X
    PROVE  Cardinality(Places(q, X)) =
             Cardinality(Places(RemoveAt(q, i), X)) + (IF q[i] \in X THEN 1 ELSE 0)
<1>1. /\ RemoveAt(q, i) \in Seq(S)
      /\ Len(RemoveAt(q, i)) = Len(q) - 1
      /\ \A k \in 1 .. Len(q) - 1 :
           RemoveAt(q, i)[k] = IF k < i THEN q[k] ELSE q[k + 1]
  BY RemoveAtIsShift
<1> QED BY <1>1, ShiftCounts, SMTT(30)

LEMMA InsertAtCounts ==
    ASSUME NEW S, NEW q \in Seq(S), NEW e \in S, NEW i \in 1 .. Len(q) + 1, NEW X
    PROVE  Cardinality(Places(InsertAt(q, i, e), X)) =
             Cardinality(Places(q, X)) + (IF e \in X THEN 1 ELSE 0)
<1> DEFINE w == InsertAt(q, i, e)
<1>1. /\ w \in Seq(S) /\ Len(w) = Len(q) + 1
      /\ \A k \in 1 .. Len(q) + 1 :
           w[k] = IF k < i THEN q[k] ELSE IF k = i THEN e ELSE q[k - 1]
  BY InsertAtIsShift
<1> HIDE DEF w
<1>2. Len(q) \in Nat /\ i \in 1 .. Len(q) + 1
  OBVIOUS
<1>3. i \in DOMAIN w /\ w[i] = e /\ Len(q) = Len(w) - 1
  BY <1>1, <1>2
<1>4. \A k \in 1 .. Len(w) - 1 : q[k] = IF k < i THEN w[k] ELSE w[k + 1]
  <2> SUFFICES ASSUME NEW k \in 1 .. Len(w) - 1
               PROVE  q[k] = IF k < i THEN w[k] ELSE w[k + 1]
    OBVIOUS
  <2>1. k \in 1 .. Len(q) + 1 /\ k + 1 \in 1 .. Len(q) + 1 /\ (k + 1) - 1 = k
    BY <1>1, <1>2
  <2>2. k < i => w[k] = q[k]
    BY <1>1, <2>1
  <2>3. ~ (k < i) => w[k + 1] = q[k]
    BY <1>1, <1>2, <2>1
  <2> QED BY <2>2, <2>3
<1>5. Cardinality(Places(w, X)) =
        Cardinality(Places(q, X)) + (IF w[i] \in X THEN 1 ELSE 0)
  <2> w \in Seq(S)
    BY <1>1
  <2> QED BY <1>3, <1>4, ShiftCounts, SMTT(30)
<1> QED BY <1>3, <1>5 DEF w

-----------------------------------------------------------------------------
(* Queues made of others *)

\* A function on the first numbers is a sequence.
LEMMA FunctionsAreSequences ==
    ASSUME NEW S, NEW n \in Nat, NEW f \in [1 .. n -> S]
    PROVE  f \in Seq(S)
<1>1. f = [i \in 1 .. n |-> f[i]] /\ \A i \in 1 .. n : f[i] \in S
  OBVIOUS
<1>2. [i \in 1 .. n |-> f[i]] \in Seq(S)
  BY <1>1
<1> QED BY <1>1, <1>2

\* Two queues without a common entry make one.
LEMMA AppendQueues ==
    ASSUME NEW S, NEW q \in Seq(S), NEW r \in Seq(S),
           IsInjective(q), IsInjective(r), ToSet(q) \cap ToSet(r) = {}
    PROVE  /\ q \o r \in Seq(S) /\ IsInjective(q \o r)
           /\ ToSet(q \o r) = ToSet(q) \cup ToSet(r)
<1> DEFINE w == q \o r
<1>1. /\ w \in Seq(S) /\ Len(w) = Len(q) + Len(r)
      /\ Len(q) \in Nat /\ Len(r) \in Nat
      /\ DOMAIN q = 1 .. Len(q) /\ DOMAIN r = 1 .. Len(r)
      /\ DOMAIN w = 1 .. Len(q) + Len(r)
      /\ \A i \in 1 .. Len(q) : w[i] = q[i]
      /\ \A i \in 1 .. Len(r) : w[Len(q) + i] = r[i]
  OBVIOUS
<1> HIDE DEF w
<1>2. \A i \in DOMAIN w : i \in DOMAIN q \/ \E k \in DOMAIN r : i = Len(q) + k
  <2> SUFFICES ASSUME NEW i \in DOMAIN w, i \notin DOMAIN q
               PROVE  \E k \in DOMAIN r : i = Len(q) + k
    OBVIOUS
  <2>1. i - Len(q) \in DOMAIN r /\ i = Len(q) + (i - Len(q))
    BY <1>1
  <2> QED BY <2>1
<1>3. \A i \in DOMAIN q : \A k \in DOMAIN r : q[i] # r[k]
  BY DEF ToSet
<1>4. IsInjective(w)
  <2> SUFFICES ASSUME NEW i \in DOMAIN w, NEW k \in DOMAIN w, w[i] = w[k]
               PROVE  i = k
    BY DEF IsInjective
  <2>1. CASE i \in DOMAIN q /\ k \in DOMAIN q
    BY <1>1, <2>1 DEF IsInjective
  <2>2. CASE i \in DOMAIN q /\ k \notin DOMAIN q
    BY <1>1, <1>2, <1>3, <2>2
  <2>3. CASE i \notin DOMAIN q /\ k \in DOMAIN q
    BY <1>1, <1>2, <1>3, <2>3
  <2>4. CASE i \notin DOMAIN q /\ k \notin DOMAIN q
    BY <1>1, <1>2, <2>4 DEF IsInjective
  <2> QED BY <2>1, <2>2, <2>3, <2>4
<1>5. ToSet(w) = ToSet(q) \cup ToSet(r)
  <2>1. \A i \in DOMAIN w : w[i] \in ToSet(q) \cup ToSet(r)
    BY <1>1, <1>2 DEF ToSet
  <2>2. \A i \in DOMAIN q : i \in DOMAIN w /\ w[i] = q[i]
    BY <1>1
  <2>3. \A k \in DOMAIN r : Len(q) + k \in DOMAIN w /\ w[Len(q) + k] = r[k]
    BY <1>1
  <2>4. ToSet(w) \subseteq ToSet(q) \cup ToSet(r)
    BY <2>1 DEF ToSet
  <2>5. ToSet(q) \subseteq ToSet(w)
    BY <2>2 DEF ToSet
  <2>6. ToSet(r) \subseteq ToSet(w)
    BY <2>3 DEF ToSet
  <2> QED BY <2>4, <2>5, <2>6
<1> QED BY <1>1, <1>4, <1>5 DEF w

\* A queue that old entries have left and that new ones have joined.
LEMMA QueueRenewed ==
    ASSUME NEW S, NEW q \in Seq(S), NEW r \in Seq(S), NEW old,
           IsInjective(q), IsInjective(r), ToSet(q) \cap ToSet(r) = {}
    PROVE  /\ Removing(q, old) \o r \in Seq(S)
           /\ IsInjective(Removing(q, old) \o r)
           /\ ToSet(Removing(q, old) \o r) = (ToSet(q) \ old) \cup ToSet(r)
<1> DEFINE left == Removing(q, old)
<1>1. /\ left \in Seq(S) /\ IsInjective(left)
      /\ ToSet(left) = ToSet(q) \ old
  BY RemovingDrops
<1> HIDE DEF left
<1>2. ToSet(left) \cap ToSet(r) = {}
  BY <1>1
<1>3. /\ left \o r \in Seq(S) /\ IsInjective(left \o r)
      /\ ToSet(left \o r) = ToSet(left) \cup ToSet(r)
  BY <1>1, <1>2, AppendQueues
<1> QED BY <1>1, <1>3 DEF left

-----------------------------------------------------------------------------
(* The ends of a queue *)

\* What is put in front of a queue is added to its entries.
LEMMA PrependedMembers ==
    ASSUME NEW S, NEW q \in Seq(S), NEW e \in S
    PROVE  <<e>> \o q \in Seq(S) /\ ToSet(<<e>> \o q) = ToSet(q) \cup {e}
<1> DEFINE w == <<e>> \o q
<1>1. /\ w \in Seq(S) /\ Len(w) = Len(q) + 1 /\ w[1] = e
      /\ \A k \in 2 .. Len(q) + 1 : w[k] = q[k - 1]
      /\ Len(q) \in Nat
  OBVIOUS
<1> HIDE DEF w
<1>2. DOMAIN w = 1 .. Len(q) + 1 /\ DOMAIN q = 1 .. Len(q)
  BY <1>1
<1>3. ASSUME NEW x \in ToSet(w)
      PROVE  x \in ToSet(q) \cup {e}
  <2>1. PICK k \in DOMAIN w : w[k] = x
    BY DEF ToSet
  <2>2. k = 1 \/ (k - 1 \in DOMAIN q /\ w[k] = q[k - 1])
    BY <1>1, <1>2
  <2> QED BY <1>1, <2>1, <2>2 DEF ToSet
<1>4. ASSUME NEW x \in ToSet(q)
      PROVE  x \in ToSet(w)
  <2>1. PICK k \in DOMAIN q : q[k] = x
    BY DEF ToSet
  <2>2. k + 1 \in DOMAIN w /\ w[k + 1] = x
    BY <1>1, <1>2, <2>1
  <2> QED BY <2>2 DEF ToSet
<1>5. e \in ToSet(w)
  <2>1. 1 \in DOMAIN w
    BY <1>1, <1>2
  <2> QED BY <1>1, <2>1 DEF ToSet
<1> QED BY <1>1, <1>3, <1>4, <1>5 DEF w

\* A new entry goes in front of the others, the last one stays the last.
LEMMA PrependAdds ==
    ASSUME NEW S, NEW q \in Seq(S), IsInjective(q), NEW op \in S, op \notin ToSet(q)
    PROVE  /\ <<op>> \o q \in Seq(S)
           /\ ToSet(<<op>> \o q) = ToSet(q) \cup {op}
           /\ IsInjective(<<op>> \o q)
           /\ Last(<<op>> \o q) = IF q = <<>> THEN op ELSE Last(q)
<1> DEFINE w == <<op>> \o q
<1>1. /\ w \in Seq(S) /\ Len(w) = Len(q) + 1 /\ w[1] = op
      /\ \A k \in 2 .. Len(q) + 1 : w[k] = q[k - 1]
      /\ Len(q) \in Nat
  OBVIOUS
<1> HIDE DEF w
<1>2. DOMAIN w = 1 .. Len(q) + 1 /\ DOMAIN q = 1 .. Len(q)
  BY <1>1
<1>3. \A k \in DOMAIN w : k = 1 \/ (k - 1 \in DOMAIN q /\ w[k] = q[k - 1])
  BY <1>1, <1>2
<1>4. ToSet(w) = ToSet(q) \cup {op}
  BY PrependedMembers DEF w
<1>5. IsInjective(w)
  <2> SUFFICES ASSUME NEW a \in DOMAIN w, NEW b \in DOMAIN w, w[a] = w[b]
               PROVE  a = b
    BY DEF IsInjective
  <2>1. a = 1 <=> b = 1
    BY <1>1, <1>3 DEF ToSet
  <2>2. a # 1 /\ b # 1 => a - 1 = b - 1
    BY <1>3 DEF IsInjective
  <2> QED BY <1>2, <2>1, <2>2
<1>6. Last(w) = IF q = <<>> THEN op ELSE Last(q)
  <2>1. CASE q = <<>>
    BY <1>1, <2>1 DEF Last
  <2>2. CASE q # <<>>
    <3>1. Len(q) + 1 \in 2 .. Len(q) + 1
      BY <1>1, <2>2
    <3> QED BY <1>1, <2>2, <3>1 DEF Last
  <2> QED BY <2>1, <2>2
<1> QED BY <1>1, <1>4, <1>5, <1>6 DEF w

\* The last entry of a queue is one of its entries.
LEMMA LastIsMember ==
    ASSUME NEW S, NEW q \in Seq(S), q # <<>>
    PROVE  Last(q) \in ToSet(q) /\ Last(q) \in S
<1>1. Len(q) \in DOMAIN q /\ Last(q) = q[Len(q)] /\ q[Len(q)] \in S
  BY DEF Last
<1> QED BY <1>1 DEF ToSet

\* Front leaves all entries but the last one.
LEMMA FrontPops ==
    ASSUME NEW S, NEW q \in Seq(S), q # <<>>, IsInjective(q)
    PROVE  /\ Front(q) \in Seq(S)
           /\ ToSet(Front(q)) = ToSet(q) \ {Last(q)}
           /\ IsInjective(Front(q))
<1> DEFINE w == Front(q)
           n == Len(q)
<1>1. /\ n \in Nat \ {0} /\ DOMAIN q = 1 .. n /\ Last(q) = q[n]
      /\ w \in Seq(S) /\ DOMAIN w = 1 .. n - 1
      /\ \A k \in 1 .. n - 1 : w[k] = q[k]
  BY DEF Front, Last
<1> HIDE DEF w, n
<1>2. ASSUME NEW x \in ToSet(w)
      PROVE  x \in ToSet(q) \ {Last(q)}
  <2>1. PICK k \in 1 .. n - 1 : w[k] = x
    BY <1>1 DEF ToSet
  <2>2. k \in 1 .. n /\ n \in 1 .. n /\ k # n /\ q[k] = x
    BY <1>1, <2>1
  <2> QED BY <1>1, <2>2 DEF ToSet, IsInjective
<1>3. ASSUME NEW x \in ToSet(q) \ {Last(q)}
      PROVE  x \in ToSet(w)
  <2>1. PICK k \in 1 .. n : q[k] = x
    BY <1>1 DEF ToSet
  <2>2. k \in 1 .. n - 1 /\ w[k] = x
    BY <1>1, <2>1
  <2> QED BY <1>1, <2>2 DEF ToSet
<1>4. IsInjective(w)
  <2> SUFFICES ASSUME NEW a \in DOMAIN w, NEW b \in DOMAIN w, w[a] = w[b]
               PROVE  a = b
    BY DEF IsInjective
  <2>1. a \in DOMAIN q /\ b \in DOMAIN q /\ q[a] = q[b]
    BY <1>1
  <2> QED BY <2>1 DEF IsInjective
<1> QED BY <1>1, <1>2, <1>3, <1>4 DEF w

\* A sequence of some things is one of more things.
LEMMA SequencesOfMore ==
    ASSUME NEW S, NEW T, S \subseteq T, NEW q \in Seq(S)
    PROVE  q \in Seq(T)
<1>1. Len(q) \in Nat /\ q \in [1 .. Len(q) -> T]
  OBVIOUS
<1> QED BY <1>1, FunctionsAreSequences

\* Whatever is appended, a sequence stays one.
LEMMA AppendIsASequence ==
    ASSUME NEW S, NEW q \in Seq(S), NEW e
    PROVE  /\ \E T : Append(q, e) \in Seq(T)
           /\ DOMAIN q = 1 .. Len(q) /\ Len(q) \in Nat
           /\ DOMAIN Append(q, e) = 1 .. Len(q) + 1
           /\ \A i \in 1 .. Len(q) : Append(q, e)[i] = q[i]
           /\ Append(q, e)[Len(q) + 1] = e
<1> DEFINE T == S \cup {e}
<1>1. q \in Seq(T) /\ e \in T
  BY SequencesOfMore
<1> HIDE DEF T
<1>2. Append(q, e) \in Seq(T)
  BY <1>1
<1>3. /\ DOMAIN q = 1 .. Len(q) /\ Len(q) \in Nat
      /\ DOMAIN Append(q, e) = 1 .. Len(q) + 1
      /\ \A i \in 1 .. Len(q) : Append(q, e)[i] = q[i]
      /\ Append(q, e)[Len(q) + 1] = e
  BY <1>1
<1> QED BY <1>2, <1>3

=============================================================================
