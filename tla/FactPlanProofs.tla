--------------------------- MODULE FactPlanProofs ---------------------------
(***************************************************************************)
(* What holds of a 4.0 generation whatever the source units and the answers *)
(* of the model are: the sources of a plan's facts through merging, sorting *)
(* and repairing, the record of the calls, and the plan at each of them.    *)
(* The folds and sequences these rest on come first.                        *)
(***************************************************************************)
EXTENDS FactPlan, TLC, FiniteSetTheorems, SequenceTheorems, NaturalsInduction, WellFoundedInduction, TLAPS

-----------------------------------------------------------------------------
(* Folds *)


\* A set of numbers that is not empty has a least one.
LEMMA LeastOf ==
  ASSUME NEW N \in SUBSET Nat, N # {}
  PROVE  \E n \in N : \A m \in N : n <= m
<1>1. IsWellFoundedOn(OpToRel(<, Nat), Nat)
  BY NatLessThanWellFounded
<1>2. PICK n \in N : \A m \in N : ~ (<<m, n>> \in OpToRel(<, Nat))
  <2> HIDE DEF IsWellFoundedOn, OpToRel
  <2> QED BY <1>1, WFMin
<1>3. \A m \in N : ~ (m < n)
  BY <1>2 DEF OpToRel
<1> QED BY <1>3

\* Induction, on a set of numbers.
LEMMA Numbers ==
  ASSUME NEW N \in SUBSET Nat, 0 \in N, \A n \in N : n + 1 \in N
  PROVE  N = Nat
<1>1. SUFFICES ASSUME Nat \ N # {} PROVE FALSE
  OBVIOUS
<1>2. PICK n \in Nat \ N : \A m \in Nat \ N : n <= m
  BY <1>1, LeastOf
<1>3. n - 1 \in Nat /\ n - 1 \in N
  BY <1>2
<1> QED BY <1>2, <1>3

\* One element less.
LEMMA OneLess ==
  ASSUME NEW T, IsFiniteSet(T), NEW x \in T
  PROVE  Cardinality(T \ {x}) = Cardinality(T) - 1
BY FS_RemoveElement

\* A choice of an element from each part of S, and what is built of S with it: the function
\* that a fold stands for, and a set of parts that grows by the element chosen.
Chooses(last, S) == last \in [(SUBSET S) \ {{}} -> S] /\ \A T \in SUBSET S : T # {} => last[T] \in T
Folded(g, S, last, base, step) ==
  \A T \in SUBSET S : g[T] = IF T = {} THEN base ELSE step[<<last[T], g[T \ {last[T]}]>>]
Grows(Good, S, last) ==
  {} \in Good /\ \A T \in SUBSET S : T # {} /\ T \ {last[T]} \in Good => T \in Good

\* A set of parts that grows has all of them.
LEMMA Parts ==
  ASSUME NEW S, IsFiniteSet(S), NEW last, Chooses(last, S), NEW Good \in SUBSET (SUBSET S), Grows(Good, S, last)
  PROVE  Good = SUBSET S
<1> DEFINE N == {n \in Nat : \A T \in SUBSET S : Cardinality(T) = n => T \in Good}
<1>1. \A T \in SUBSET S : IsFiniteSet(T) /\ Cardinality(T) \in Nat
  BY FS_Subset, FS_CardinalityType
<1>2. 0 \in N
  BY <1>1, FS_EmptySet DEF Grows
<1>3. ASSUME NEW n \in N PROVE n + 1 \in N
  <2>1. SUFFICES ASSUME NEW T \in SUBSET S, Cardinality(T) = n + 1 PROVE T \in Good
    OBVIOUS
  <2>2. T # {} /\ n \in Nat
    <3>1. n \in Nat /\ n + 1 # 0
      OBVIOUS
    <3> HIDE DEF N
    <3> QED BY <2>1, <3>1, FS_EmptySet
  <2>3. last[T] \in T /\ IsFiniteSet(T)
    BY <1>1, <2>2 DEF Chooses
  <2>4. Cardinality(T \ {last[T]}) = n
    <3>1. Cardinality(T \ {last[T]}) = Cardinality(T) - 1
      BY <2>3, OneLess
    <3> QED BY <2>1, <2>2, <3>1
  <2>5. T \ {last[T]} \in Good
    BY <2>2, <2>4
  <2> QED BY <2>2, <2>5 DEF Grows
<1>4. N = Nat
  <2> HIDE DEF N
  <2>1. N \in SUBSET Nat
    BY DEF N
  <2> QED BY <1>2, <1>3, <2>1, Numbers
<1> QED BY <1>1, <1>4

\* The recursive function that a fold stands for exists.
LEMMA FoldExists ==
  ASSUME NEW S, IsFiniteSet(S), NEW last, Chooses(last, S), NEW A, NEW base \in A, NEW step \in [S \X A -> A]
  PROVE  \E g \in [SUBSET S -> A] : Folded(g, S, last, base, step)
<1> DEFINE Value(g, T) == IF T = {} THEN base ELSE step[<<last[T], g[T \ {last[T]}]>>]
           Table(n) == \E g \in [SUBSET S -> A] : \A T \in SUBSET S : Cardinality(T) <= n => g[T] = Value(g, T)
           N == {n \in Nat : Table(n)}
<1>1. \A T \in SUBSET S : IsFiniteSet(T) /\ Cardinality(T) \in Nat /\ (Cardinality(T) = 0 <=> T = {})
  BY FS_Subset, FS_CardinalityType, FS_EmptySet
<1>2. 0 \in N
  <2> DEFINE g == [T \in SUBSET S |-> base]
  <2>1. g \in [SUBSET S -> A] /\ \A T \in SUBSET S : Cardinality(T) <= 0 => g[T] = Value(g, T)
    BY <1>1
  <2> QED BY <2>1
<1>3. ASSUME NEW n \in N PROVE n + 1 \in N
  <2>1. PICK g \in [SUBSET S -> A] : \A T \in SUBSET S : Cardinality(T) <= n => g[T] = Value(g, T)
    OBVIOUS
  <2> DEFINE h == [T \in SUBSET S |-> Value(g, T)]
  <2>2. h \in [SUBSET S -> A]
    BY DEF Chooses
  <2>3. ASSUME NEW T \in SUBSET S, Cardinality(T) <= n + 1 PROVE h[T] = Value(h, T)
    <3>1. CASE T = {}
      BY <3>1
    <3>2. CASE T # {}
      <4>1. last[T] \in T /\ IsFiniteSet(T) /\ n \in Nat
        BY <1>1, <3>2 DEF Chooses
      <4>2. Cardinality(T \ {last[T]}) = Cardinality(T) - 1
        <5> HIDE DEF N, Table, Value, h
        <5> QED BY <4>1, OneLess
      <4>3. T \ {last[T]} \in SUBSET S /\ Cardinality(T \ {last[T]}) <= n
        BY <1>1, <2>3, <4>1, <4>2
      <4>4. h[T \ {last[T]}] = g[T \ {last[T]}]
        BY <2>1, <4>3
      <4> QED BY <3>2, <4>4
    <3> QED BY <3>1, <3>2
  <2>4. Table(n + 1)
    <3> HIDE DEF h, Value
    <3> QED BY <2>2, <2>3
  <2>5. n + 1 \in Nat
    OBVIOUS
  <2> HIDE DEF Table
  <2> QED BY <2>4, <2>5
<1>4. N = Nat
  <2> HIDE DEF N
  <2>1. N \in SUBSET Nat
    BY DEF N
  <2> QED BY <1>2, <1>3, <2>1, Numbers
<1>5. Cardinality(S) \in N /\ \A T \in SUBSET S : Cardinality(T) <= Cardinality(S)
  BY <1>1, <1>4, FS_Subset
<1>6. PICK g \in [SUBSET S -> A] : \A T \in SUBSET S : g[T] = Value(g, T)
  BY <1>5
<1> QED BY <1>6 DEF Folded

\* The indices of a sequence, the last one first.
LEMMA LastIndex ==
  ASSUME NEW n \in Nat, NEW T \in SUBSET (1..n), T # {}
  PROVE  Max(T) \in T /\ \A i \in T : i <= Max(T)
<1> DEFINE N == {n - i : i \in T}
<1>1. N \in SUBSET Nat /\ N # {}
  <2>1. \A i \in T : n - i \in Nat
    OBVIOUS
  <2> QED BY <2>1
<1>2. PICK d \in N : \A m \in N : d <= m
  <2> HIDE DEF N
  <2> QED BY <1>1, LeastOf
<1>3. PICK i \in T : d = n - i
  OBVIOUS
<1>4. \A j \in T : j <= i
  <2>1. ASSUME NEW j \in T PROVE j <= i
    <3>1. d <= n - j
      BY <1>2
    <3> QED BY <1>3, <3>1
  <2> QED BY <2>1
<1> QED BY <1>3, <1>4 DEF Max


\* FoldLeft takes the last index of those left.
LastIn(n) == [T \in (SUBSET (1..n)) \ {{}} |-> Max(T)]

LEMMA LastOfEach ==
  ASSUME NEW n \in Nat
  PROVE  /\ IsFiniteSet(1..n) /\ Chooses(LastIn(n), 1..n)
         /\ \A T \in SUBSET (1..n) : T # {} => LastIn(n)[T] = Max(T) /\ Max(T) \in T /\ \A i \in T : i <= Max(T)
<1>1. \A T \in SUBSET (1..n) : T # {} => LastIn(n)[T] = Max(T) /\ Max(T) \in T /\ \A i \in T : i <= Max(T)
  BY LastIndex DEF LastIn
<1>2. LastIn(n) \in [(SUBSET (1..n)) \ {{}} -> 1..n]
  BY LastIndex DEF LastIn
<1>3. Chooses(LastIn(n), 1..n)
  <2> HIDE DEF LastIn
  <2> QED BY <1>1, <1>2 DEF Chooses
<1>4. IsFiniteSet(1..n)
  BY FS_Interval
<1> QED BY <1>1, <1>3, <1>4

LEMMA FoldOfSequence ==
  ASSUME NEW n \in Nat, NEW A, NEW base \in A, NEW step \in [(1..n) \X A -> A]
  PROVE  \E g \in [SUBSET (1..n) -> A] : Folded(g, 1..n, LastIn(n), base, step)
BY LastOfEach, FoldExists

LEMMA Indices ==
  ASSUME NEW n \in Nat, NEW Good \in SUBSET (SUBSET (1..n)), Grows(Good, 1..n, LastIn(n))
  PROVE  Good = SUBSET (1..n)
BY LastOfEach, Parts

LEMMA LastOfInterval ==
  ASSUME NEW n \in Nat
  PROVE  Max(1..n + 1) = n + 1 /\ (1..n + 1) \ {n + 1} = 1..n /\ 1..n + 1 # {}
<1> DEFINE J == 1..n + 1
           m == Max(J)
<1>1. J \in SUBSET (1..n + 1) /\ n + 1 \in Nat /\ n + 1 \in J
  OBVIOUS
<1>2. m \in J /\ \A i \in J : i <= m
  <2> HIDE DEF J
  <2> QED BY <1>1, LastIndex
<1>3. m \in 1..n + 1 /\ n + 1 <= m
  BY <1>1, <1>2
<1> HIDE DEF m
<1>4. m = n + 1
  BY <1>3
<1>5. (1..n + 1) \ {n + 1} = 1..n
  OBVIOUS
<1> QED BY <1>1, <1>4, <1>5 DEF m

\* One sequence behind another.
IsJoint(u, s, t) ==
  /\ Len(u) = Len(s) + Len(t)
  /\ \A i \in 1..Len(s) : u[i] = s[i]
  /\ \A i \in 1..Len(t) : u[Len(s) + i] = t[i]

LEMMA Joined ==
  ASSUME NEW S, NEW s \in Seq(S), NEW t \in Seq(S)
  PROVE  s \o t \in Seq(S) /\ IsJoint(s \o t, s, t)
<1>1. s \o t \in Seq(S) /\ Len(s \o t) = Len(s) + Len(t)
      /\ \A i \in 1 .. Len(s) + Len(t) : (s \o t)[i] = IF i <= Len(s) THEN s[i] ELSE t[i - Len(s)]
  BY ConcatProperties
<1>2. ASSUME NEW i \in 1..Len(s) PROVE (s \o t)[i] = s[i]
  BY <1>1
<1>3. ASSUME NEW i \in 1..Len(t) PROVE (s \o t)[Len(s) + i] = t[i]
  <2>1. Len(s) + i \in 1..Len(s) + Len(t) /\ ~(Len(s) + i <= Len(s)) /\ (Len(s) + i) - Len(s) = i
    OBVIOUS
  <2> QED BY <1>1, <2>1
<1> QED BY <1>1, <1>2, <1>3 DEF IsJoint

\* InsertAt, behind the first k elements.
LEMMA InsertedAt ==
  ASSUME NEW S, NEW s \in Seq(S), NEW e \in S, NEW k \in 0..Len(s)
  PROVE  LET t == InsertAt(s, 1 + k, e)
         IN /\ t \in Seq(S) /\ Len(t) = Len(s) + 1
            /\ \A i \in 1..Len(s) + 1 : t[i] = IF i <= k THEN s[i] ELSE IF i = k + 1 THEN e ELSE s[i - 1]
<1> DEFINE n == Len(s)
           a == SubSeq(s, 1, k)
           b == SubSeq(s, k + 1, n)
           c == <<e>>
           t == (a \o c) \o b
<1>1. n \in Nat /\ k \in Nat /\ k <= n
  OBVIOUS
<1>2. a \in Seq(S) /\ Len(a) = k /\ \A i \in 1..k : a[i] = s[i]
  OBVIOUS
<1>3. b \in Seq(S) /\ Len(b) = n - k /\ \A i \in 1..n - k : b[i] = s[k + i]
  OBVIOUS
<1>4. c \in Seq(S) /\ Len(c) = 1 /\ c[1] = e
  OBVIOUS
<1>5. InsertAt(s, 1 + k, e) = t
  <2>1. (1 + k) - 1 = k /\ 1 + k = k + 1
    OBVIOUS
  <2> QED BY <2>1 DEF InsertAt
<1> HIDE DEF a, b, c, n
<1>6. /\ a \o c \in Seq(S) /\ Len(a \o c) = k + 1
      /\ \A i \in 1..k : (a \o c)[i] = s[i]
      /\ (a \o c)[k + 1] = e
  <2>1. a \o c \in Seq(S) /\ IsJoint(a \o c, a, c)
    BY <1>2, <1>4, Joined
  <2> QED BY <1>1, <1>2, <1>4, <2>1 DEF IsJoint
<1>7. /\ t \in Seq(S) /\ Len(t) = n + 1
      /\ \A i \in 1..k + 1 : t[i] = (a \o c)[i]
      /\ \A i \in 1..n - k : t[(k + 1) + i] = b[i]
  <2> DEFINE d == a \o c
  <2> HIDE DEF d
  <2>1. d \in Seq(S) /\ Len(d) = k + 1
    BY <1>6 DEF d
  <2>2. d \o b \in Seq(S) /\ IsJoint(d \o b, d, b)
    BY <1>3, <2>1, Joined
  <2>3. (k + 1) + (n - k) = n + 1
    BY <1>1
  <2>4. t = d \o b
    BY DEF d
  <2> HIDE DEF t
  <2> QED BY <1>3, <2>1, <2>2, <2>3, <2>4 DEF d, IsJoint
<1> HIDE DEF t
<1>8. ASSUME NEW i \in 1..n + 1
      PROVE  t[i] = IF i <= k THEN s[i] ELSE IF i = k + 1 THEN e ELSE s[i - 1]
  <2>1. CASE i <= k
    BY <1>1, <1>6, <1>7, <2>1, SMTT(30)
  <2>2. CASE i = k + 1
    BY <1>1, <1>6, <1>7, <2>2
  <2>3. CASE i > k + 1
    <3> DEFINE j == i - (k + 1)
    <3>1. j \in 1..n - k /\ (k + 1) + j = i /\ k + j = i - 1
      BY <1>1, <2>3
    <3> HIDE DEF j
    <3>2. t[(k + 1) + j] = b[j] /\ b[j] = s[k + j]
      BY <1>3, <1>7, <3>1
    <3>3. ~(i <= k) /\ i # k + 1
      BY <1>1, <2>3
    <3> QED BY <3>1, <3>2, <3>3
  <2> QED BY <1>1, <2>1, <2>2, <2>3
<1> QED BY <1>5, <1>7, <1>8 DEF n

-----------------------------------------------------------------------------
(* Groups of sources *)

Group == [category : Nat, sources : (SUBSET Source) \ {{}}]

LEMMA SomeSource ==
  ASSUME NEW groups
  PROVE  \A x : x \in Pairs(groups) <=> \E i \in 1..Len(groups) : x \in groups[i].sources
BY DEF Pairs

\* Appending a group to a list adds its sources.
LEMMA AppendedOnce ==
  ASSUME NEW t \in Seq(Group), NEW g \in Group
  PROVE  Append(t, g) \in Seq(Group) /\ Pairs(Append(t, g)) = Pairs(t) \cup g.sources
<1>1. Append(t, g) \in Seq(Group) /\ Len(Append(t, g)) = Len(t) + 1
      /\ \A i \in 1..Len(t) + 1 : Append(t, g)[i] = IF i = Len(t) + 1 THEN g ELSE t[i]
  OBVIOUS
<1>2. \A x : x \in Pairs(Append(t, g)) <=> x \in Pairs(t) \/ x \in g.sources
  <2>1. Len(t) \in Nat
    OBVIOUS
  <2>2. ASSUME NEW x, x \in Pairs(Append(t, g)) PROVE x \in Pairs(t) \/ x \in g.sources
    <3>1. PICK i \in 1..Len(t) + 1 : x \in Append(t, g)[i].sources
      BY <1>1, <2>2, SomeSource
    <3>2. CASE i = Len(t) + 1
      BY <1>1, <3>1, <3>2
    <3>3. CASE i # Len(t) + 1
      BY <1>1, <2>1, <3>1, <3>3, SomeSource
    <3> QED BY <3>2, <3>3
  <2>3. ASSUME NEW x, x \in Pairs(t) PROVE x \in Pairs(Append(t, g))
    <3>1. PICK i \in 1..Len(t) : x \in t[i].sources
      BY <2>3, SomeSource
    <3>2. i \in 1..Len(t) + 1 /\ Append(t, g)[i] = t[i]
      BY <1>1, <2>1
    <3>3. x \in Append(t, g)[i].sources
      BY <3>1, <3>2
        <3> QED BY <1>1, <3>2, <3>3, SomeSource
  <2>4. ASSUME NEW x, x \in g.sources PROVE x \in Pairs(Append(t, g))
    <3>1. Len(t) + 1 \in 1..Len(t) + 1
      BY <2>1
    <3> QED BY <1>1, <2>4, <3>1, SomeSource
  <2> QED BY <2>2, <2>3, <2>4
<1>3. Pairs(Append(t, g)) = Pairs(t) \cup g.sources
  BY <1>2
<1> QED BY <1>1, <1>3

LEMMA MergedOnce ==
  ASSUME NEW t \in Seq(Group), NEW g \in Group
  PROVE  MergedGroups(t, g) \in Seq(Group) /\ Pairs(MergedGroups(t, g)) = Pairs(t) \cup g.sources
<1> DEFINE I == {i \in 1..Len(t) : t[i].category = g.category /\ QuotesOf(t[i].sources) \cap QuotesOf(g.sources) # {}}
           at == IF I # {} THEN Min(I) ELSE 0
           merged == [t EXCEPT ![at].sources = t[at].sources \cup g.sources]
<1>1. MergedGroups(t, g) = IF at = 0 THEN Append(t, g) ELSE merged
  BY DEF MergedGroups, SelectInSeq
<1>2. at = 0 \/ at \in 1..Len(t)
  <2>1. CASE I # {}
    <3>1. I \in SUBSET Nat /\ I \subseteq 1..Len(t)
      OBVIOUS
    <3>2. \E x \in I : \A y \in I : x <= y
      <4> HIDE DEF I
      <4> QED BY <2>1, <3>1, LeastOf
    <3>3. Min(I) \in I
      <4> HIDE DEF I
      <4> QED BY <3>2 DEF Min
    <3> HIDE DEF I
    <3> QED BY <2>1, <3>1, <3>3
  <2>2. CASE I = {}
    BY <2>2
  <2> QED BY <2>1, <2>2
<1> HIDE DEF at
<1>3. CASE at = 0
  <2> QED BY <1>1, <1>3, AppendedOnce
<1>4. CASE at # 0
  <2>1. at \in 1..Len(t) /\ t[at] \in Group
    BY <1>2, <1>4
  <2>2. [t[at] EXCEPT !.sources = t[at].sources \cup g.sources] \in Group
    BY <2>1 DEF Group
  <2>3. merged \in Seq(Group) /\ Len(merged) = Len(t)
        /\ \A i \in 1..Len(t) : merged[i].sources = IF i = at THEN t[at].sources \cup g.sources ELSE t[i].sources
    BY <2>1, <2>2 DEF Group
  <2> HIDE DEF merged
  <2>4. Pairs(merged) = Pairs(t) \cup g.sources
    BY <2>1, <2>3, SomeSource
  <2> QED BY <1>1, <1>4, <2>3, <2>4
<1> QED BY <1>3, <1>4

LEMMA PlacedOnce ==
  ASSUME NEW t \in Seq(Group), NEW g \in Group
  PROVE  Placed(t, g) \in Seq(Group) /\ Pairs(Placed(t, g)) = Pairs(t) \cup g.sources
<1> DEFINE later == {i \in 1..Len(t) : ~FactBefore(g, t[i])}
           k == Cardinality(later)
           n == Len(t)
           placed == InsertAt(t, 1 + k, g)
<1>1. k \in 0..n /\ n \in Nat
  <2>1. n \in Nat
    OBVIOUS
  <2>2. IsFiniteSet(1..n) /\ Cardinality(1..n) = n
    <3> HIDE DEF n
    <3> QED BY <2>1, FS_Interval
  <2>3. later \in SUBSET (1..n)
    OBVIOUS
  <2> HIDE DEF later, n
  <2>4. IsFiniteSet(later) /\ k <= n
    BY <2>2, <2>3, FS_Subset
  <2>5. k \in Nat
    BY <2>4, FS_CardinalityType
  <2> QED BY <2>1, <2>4, <2>5
<1>2. Placed(t, g) = placed
  BY DEF Placed
<1> HIDE DEF k
<1>4. placed \in Seq(Group) /\ Len(placed) = n + 1
      /\ \A i \in 1..n + 1 : placed[i] = IF i <= k THEN t[i] ELSE IF i = k + 1 THEN g ELSE t[i - 1]
  BY <1>1, InsertedAt
<1> HIDE DEF placed, n
<1>5. ASSUME NEW x, x \in Pairs(placed) PROVE x \in Pairs(t) \cup g.sources
  <2>1. PICK i \in 1..n + 1 : x \in placed[i].sources
    BY <1>4, <1>5, SomeSource
  <2>2. CASE i <= k
    BY <1>1, <1>4, <2>1, <2>2, SomeSource DEF n
  <2>3. CASE i = k + 1
    BY <1>1, <1>4, <2>1, <2>3
  <2>4. CASE i > k + 1
    <3>1. placed[i] = t[i - 1] /\ i - 1 \in 1..n
      BY <1>1, <1>4, <2>4
    <3> QED BY <2>1, <3>1, SomeSource DEF n
  <2> QED BY <1>1, <2>2, <2>3, <2>4
<1>6. ASSUME NEW x, x \in Pairs(t) PROVE x \in Pairs(placed)
  <2>1. PICK i \in 1..n : x \in t[i].sources
    BY <1>6, SomeSource DEF n
  <2>2. CASE i <= k
    <3>1. i \in 1..n + 1 /\ placed[i] = t[i]
      BY <1>1, <1>4, <2>2
    <3> QED BY <1>4, <2>1, <3>1, SomeSource
  <2>3. CASE i > k
    <3>1. i + 1 \in 1..n + 1 /\ placed[i + 1] = t[i]
      BY <1>1, <1>4, <2>3
    <3> QED BY <1>4, <2>1, <3>1, SomeSource
  <2> QED BY <1>1, <2>2, <2>3
<1>7. ASSUME NEW x, x \in g.sources PROVE x \in Pairs(placed)
  <2>1. k + 1 \in 1..n + 1 /\ placed[k + 1] = g
    BY <1>1, <1>4
  <2> QED BY <1>4, <1>7, <2>1, SomeSource
<1> QED BY <1>2, <1>4, <1>5, <1>6, <1>7

\* A fold whose every step adds the sources of one element.
Gathers(iter, n, base, gain) ==
  /\ iter[{}] = base
  /\ \A T \in SUBSET (1..n) :
       T # {} /\ iter[T \ {Max(T)}] \in Seq(Group)
         => /\ iter[T] \in Seq(Group)
            /\ Pairs(iter[T]) = Pairs(iter[T \ {Max(T)}]) \cup gain[Max(T)]

LEMMA Gathered ==
  ASSUME NEW n \in Nat, NEW base \in Seq(Group), NEW gain, NEW iter, Gathers(iter, n, base, gain)
  PROVE  iter[1..n] \in Seq(Group) /\ Pairs(iter[1..n]) = Pairs(base) \cup UNION {gain[i] : i \in 1..n}
<1> DEFINE Good == {T \in SUBSET (1..n) : /\ iter[T] \in Seq(Group)
                                          /\ Pairs(iter[T]) = Pairs(base) \cup UNION {gain[i] : i \in T}}
<1>1. {} \in Good
  BY DEF Gathers
<1>2. ASSUME NEW T \in SUBSET (1..n), T # {}, T \ {Max(T)} \in Good PROVE T \in Good
  <2>1. Max(T) \in T
    BY <1>2, LastOfEach
  <2>2. iter[T] \in Seq(Group) /\ Pairs(iter[T]) = Pairs(iter[T \ {Max(T)}]) \cup gain[Max(T)]
    BY <1>2 DEF Gathers
  <2>3. UNION {gain[i] : i \in T} = (UNION {gain[i] : i \in T \ {Max(T)}}) \cup gain[Max(T)]
    BY <2>1
  <2> QED BY <1>2, <2>2, <2>3
<1>3. Good = SUBSET (1..n)
  <2> HIDE DEF Good
  <2>1. Good \in SUBSET (SUBSET (1..n))
    BY DEF Good
  <2>2. Grows(Good, 1..n, LastIn(n))
    BY <1>1, <1>2, LastOfEach DEF Grows
  <2> QED BY <2>1, <2>2, Indices
<1> QED BY <1>3

\* The groups that are merged keep all sources, ...
LEMMA MergedAll ==
  ASSUME NEW groups \in Seq(Group)
  PROVE  FoldLeft(MergedGroups, <<>>, groups) \in Seq(Group)
         /\ Pairs(FoldLeft(MergedGroups, <<>>, groups)) = Pairs(groups)
<1> DEFINE n == Len(groups)
           I == 1..n
           A == Seq(Group)
           gain == [i \in I |-> groups[i].sources]
           step == [p \in I \X A |-> MergedGroups(p[2], groups[p[1]])]
           Value(g, T) == IF T = {} THEN <<>> ELSE MergedGroups(g[T \ {Max(T)}], groups[Max(T)])
           iter == CHOOSE h : h = [T \in SUBSET I |-> Value(h, T)]
<1>1. n \in Nat /\ DOMAIN groups = I /\ \A i \in I : groups[i] \in Group
  OBVIOUS
<1>2. \A i \in I, t \in A : MergedGroups(t, groups[i]) \in A /\ Pairs(MergedGroups(t, groups[i])) = Pairs(t) \cup gain[i]
  BY <1>1, MergedOnce
<1>3. \A T \in SUBSET I : T # {} => LastIn(n)[T] = Max(T) /\ Max(T) \in T
  BY <1>1, LastOfEach
<1>4. \E g : g = [T \in SUBSET I |-> Value(g, T)]
  <2>1. step \in [I \X A -> A] /\ <<>> \in A
    <3>1. \A p \in I \X A : MergedGroups(p[2], groups[p[1]]) \in A
      <4>1. TAKE p \in I \X A
      <4>2. p[1] \in I /\ p[2] \in A
        OBVIOUS
      <4> HIDE DEF I, A
      <4> QED BY <4>2, <1>2
    <3>2. <<>> \in A
      OBVIOUS
    <3> HIDE DEF I, A
    <3> QED BY <3>1, <3>2
  <2>2. \A i \in I, t \in A : step[<<i, t>>] = MergedGroups(t, groups[i])
    OBVIOUS
  <2> HIDE DEF step, A, n
  <2>3. PICK g \in [SUBSET I -> A] : Folded(g, I, LastIn(n), <<>>, step)
    BY <1>1, <2>1, FoldOfSequence
  <2>4. \A T \in SUBSET I : g[T] = Value(g, T)
    BY <1>3, <2>2, <2>3 DEF Folded
  <2>5. g = [T \in SUBSET I |-> Value(g, T)]
    <3> HIDE DEF Value
    <3> QED BY <2>3, <2>4
  <2> QED BY <2>5
<1>5. FoldLeft(MergedGroups, <<>>, groups) = iter[I]
  BY <1>1 DEF FoldLeft, MapThenFoldSet
<1>6. iter = [T \in SUBSET I |-> Value(iter, T)]
  <2> HIDE DEF Value
  <2> QED BY <1>4
<1> HIDE DEF iter, gain
<1>7. Gathers(iter, n, <<>>, gain)
  <2>1. iter[{}] = <<>>
    BY <1>6
  <2>2. ASSUME NEW T \in SUBSET I, T # {}, iter[T \ {Max(T)}] \in Seq(Group)
        PROVE  iter[T] \in Seq(Group) /\ Pairs(iter[T]) = Pairs(iter[T \ {Max(T)}]) \cup gain[Max(T)]
    <3>1. Max(T) \in I
      BY <1>3, <2>2
    <3>2. iter[T] = MergedGroups(iter[T \ {Max(T)}], groups[Max(T)])
      BY <1>6, <2>2
    <3> HIDE DEF I
    <3> QED BY <1>2, <2>2, <3>1, <3>2
  <2> QED BY <2>1, <2>2 DEF Gathers
<1>8. iter[I] \in Seq(Group) /\ Pairs(iter[I]) = Pairs(<<>>) \cup UNION {gain[i] : i \in I}
  <2>1. <<>> \in Seq(Group)
    OBVIOUS
  <2> HIDE DEF n
  <2> QED BY <1>1, <1>7, <2>1, Gathered
<1>9. Pairs(<<>>) = {} /\ UNION {gain[i] : i \in I} = Pairs(groups)
  BY SomeSource DEF gain
<1> HIDE DEF n
<1> QED BY <1>5, <1>8, <1>9

\* ... and so do those that are sorted.
LEMMA PlacedAll ==
  ASSUME NEW groups \in Seq(Group)
  PROVE  FoldLeft(Placed, <<>>, groups) \in Seq(Group)
         /\ Pairs(FoldLeft(Placed, <<>>, groups)) = Pairs(groups)
<1> DEFINE n == Len(groups)
           I == 1..n
           A == Seq(Group)
           gain == [i \in I |-> groups[i].sources]
           step == [p \in I \X A |-> Placed(p[2], groups[p[1]])]
           Value(g, T) == IF T = {} THEN <<>> ELSE Placed(g[T \ {Max(T)}], groups[Max(T)])
           iter == CHOOSE h : h = [T \in SUBSET I |-> Value(h, T)]
<1>1. n \in Nat /\ DOMAIN groups = I /\ \A i \in I : groups[i] \in Group
  OBVIOUS
<1>2. \A i \in I, t \in A : Placed(t, groups[i]) \in A /\ Pairs(Placed(t, groups[i])) = Pairs(t) \cup gain[i]
  BY <1>1, PlacedOnce
<1>3. \A T \in SUBSET I : T # {} => LastIn(n)[T] = Max(T) /\ Max(T) \in T
  BY <1>1, LastOfEach
<1>4. \E g : g = [T \in SUBSET I |-> Value(g, T)]
  <2>1. step \in [I \X A -> A] /\ <<>> \in A
    <3>1. \A p \in I \X A : Placed(p[2], groups[p[1]]) \in A
      <4>1. TAKE p \in I \X A
      <4>2. p[1] \in I /\ p[2] \in A
        OBVIOUS
      <4> HIDE DEF I, A
      <4> QED BY <4>2, <1>2
    <3>2. <<>> \in A
      OBVIOUS
    <3> HIDE DEF I, A
    <3> QED BY <3>1, <3>2
  <2>2. \A i \in I, t \in A : step[<<i, t>>] = Placed(t, groups[i])
    OBVIOUS
  <2> HIDE DEF step, A, n
  <2>3. PICK g \in [SUBSET I -> A] : Folded(g, I, LastIn(n), <<>>, step)
    BY <1>1, <2>1, FoldOfSequence
  <2>4. \A T \in SUBSET I : g[T] = Value(g, T)
    BY <1>3, <2>2, <2>3 DEF Folded
  <2>5. g = [T \in SUBSET I |-> Value(g, T)]
    <3> HIDE DEF Value
    <3> QED BY <2>3, <2>4
  <2> QED BY <2>5
<1>5. FoldLeft(Placed, <<>>, groups) = iter[I]
  BY <1>1 DEF FoldLeft, MapThenFoldSet
<1>6. iter = [T \in SUBSET I |-> Value(iter, T)]
  <2> HIDE DEF Value
  <2> QED BY <1>4
<1> HIDE DEF iter, gain
<1>7. Gathers(iter, n, <<>>, gain)
  <2>1. iter[{}] = <<>>
    BY <1>6
  <2>2. ASSUME NEW T \in SUBSET I, T # {}, iter[T \ {Max(T)}] \in Seq(Group)
        PROVE  iter[T] \in Seq(Group) /\ Pairs(iter[T]) = Pairs(iter[T \ {Max(T)}]) \cup gain[Max(T)]
    <3>1. Max(T) \in I
      BY <1>3, <2>2
    <3>2. iter[T] = Placed(iter[T \ {Max(T)}], groups[Max(T)])
      BY <1>6, <2>2
    <3> HIDE DEF I
    <3> QED BY <1>2, <2>2, <3>1, <3>2
  <2> QED BY <2>1, <2>2 DEF Gathers
<1>8. iter[I] \in Seq(Group) /\ Pairs(iter[I]) = Pairs(<<>>) \cup UNION {gain[i] : i \in I}
  <2>1. <<>> \in Seq(Group)
    OBVIOUS
  <2> HIDE DEF n
  <2> QED BY <1>1, <1>7, <2>1, Gathered
<1>9. Pairs(<<>>) = {} /\ UNION {gain[i] : i \in I} = Pairs(groups)
  BY SomeSource DEF gain
<1> HIDE DEF n
<1> QED BY <1>5, <1>8, <1>9

\* Taking a group into a list adds its sources, and an empty one adds none.
LEMMA WithOldOnce ==
  ASSUME NEW t \in Seq(Group), NEW g \in Candidate
  PROVE  WithOld(t, g) \in Seq(Group) /\ Pairs(WithOld(t, g)) = Pairs(t) \cup g.sources
<1>1. CASE g.sources = {}
  BY <1>1 DEF WithOld
<1>2. CASE g.sources # {}
  <2>1. g \in Group
    BY <1>2 DEF Group, Candidate
  <2> QED BY <1>2, <2>1, AppendedOnce DEF WithOld
<1> QED BY <1>1, <1>2

Replacement == [category : Nat, sources : (SUBSET Source) \ {{}}, into : Nat]
Gain(c) == IF c.into = 0 THEN c.sources ELSE {}

LEMMA WithNewOnce ==
  ASSUME NEW t \in Seq(Group), NEW c \in Replacement
  PROVE  WithNew(t, c) \in Seq(Group) /\ Pairs(WithNew(t, c)) = Pairs(t) \cup Gain(c)
<1>1. CASE c.into # 0
  BY <1>1 DEF WithNew, Gain
<1>2. CASE c.into = 0
  <2> DEFINE g == [category |-> c.category, sources |-> c.sources]
  <2>1. g \in Group /\ g.sources = c.sources
    BY DEF Group, Replacement
  <2>2. WithNew(t, c) = Append(t, g)
    BY <1>2 DEF WithNew
  <2> HIDE DEF g
  <2> QED BY <1>2, <2>1, <2>2, AppendedOnce DEF Gain
<1> QED BY <1>1, <1>2

\* The old facts that have sources left ...
LEMMA WithOldAll ==
  ASSUME NEW groups \in Seq(Candidate)
  PROVE  FoldLeft(WithOld, <<>>, groups) \in Seq(Group)
         /\ Pairs(FoldLeft(WithOld, <<>>, groups)) = Pairs(groups)
<1> DEFINE n == Len(groups)
           I == 1..n
           A == Seq(Group)
           gain == [i \in I |-> groups[i].sources]
           step == [p \in I \X A |-> WithOld(p[2], groups[p[1]])]
           Value(g, T) == IF T = {} THEN <<>> ELSE WithOld(g[T \ {Max(T)}], groups[Max(T)])
           iter == CHOOSE h : h = [T \in SUBSET I |-> Value(h, T)]
<1>1. n \in Nat /\ DOMAIN groups = I /\ \A i \in I : groups[i] \in Candidate
  OBVIOUS
<1>2. \A i \in I, t \in A : WithOld(t, groups[i]) \in A /\ Pairs(WithOld(t, groups[i])) = Pairs(t) \cup gain[i]
  BY <1>1, WithOldOnce
<1>3. \A T \in SUBSET I : T # {} => LastIn(n)[T] = Max(T) /\ Max(T) \in T
  BY <1>1, LastOfEach
<1>4. \E g : g = [T \in SUBSET I |-> Value(g, T)]
  <2>1. step \in [I \X A -> A] /\ <<>> \in A
    BY <1>2
  <2>2. \A i \in I, t \in A : step[<<i, t>>] = WithOld(t, groups[i])
    OBVIOUS
  <2> HIDE DEF step, A, n
  <2>3. PICK g \in [SUBSET I -> A] : Folded(g, I, LastIn(n), <<>>, step)
    BY <1>1, <2>1, FoldOfSequence
  <2>4. \A T \in SUBSET I : g[T] = Value(g, T)
    BY <1>3, <2>2, <2>3 DEF Folded
  <2>5. g = [T \in SUBSET I |-> Value(g, T)]
    <3> HIDE DEF Value
    <3> QED BY <2>3, <2>4
  <2> QED BY <2>5
<1>5. FoldLeft(WithOld, <<>>, groups) = iter[I]
  BY <1>1 DEF FoldLeft, MapThenFoldSet
<1>6. iter = [T \in SUBSET I |-> Value(iter, T)]
  <2> HIDE DEF Value
  <2> QED BY <1>4
<1> HIDE DEF iter, gain
<1>7. Gathers(iter, n, <<>>, gain)
  <2>1. iter[{}] = <<>>
    BY <1>6
  <2>2. ASSUME NEW T \in SUBSET I, T # {}, iter[T \ {Max(T)}] \in Seq(Group)
        PROVE  iter[T] \in Seq(Group) /\ Pairs(iter[T]) = Pairs(iter[T \ {Max(T)}]) \cup gain[Max(T)]
    <3>1. Max(T) \in I
      BY <1>3, <2>2
    <3>2. iter[T] = WithOld(iter[T \ {Max(T)}], groups[Max(T)])
      BY <1>6, <2>2
    <3> HIDE DEF I
    <3> QED BY <1>2, <2>2, <3>1, <3>2
  <2> QED BY <2>1, <2>2 DEF Gathers
<1>8. iter[I] \in Seq(Group) /\ Pairs(iter[I]) = Pairs(<<>>) \cup UNION {gain[i] : i \in I}
  <2>1. <<>> \in Seq(Group)
    OBVIOUS
  <2> HIDE DEF n
  <2> QED BY <1>1, <1>7, <2>1, Gathered
<1>9. Pairs(<<>>) = {} /\ UNION {gain[i] : i \in I} = Pairs(groups)
  BY SomeSource DEF gain
<1> HIDE DEF n
<1> QED BY <1>5, <1>8, <1>9

\* ... and the candidates that are merged into none.
LEMMA WithNewAll ==
  ASSUME NEW candidates \in Seq(Replacement), NEW base \in Seq(Group)
  PROVE  FoldLeft(WithNew, base, candidates) \in Seq(Group)
         /\ Pairs(FoldLeft(WithNew, base, candidates)) = Pairs(base) \cup UNION {Gain(candidates[i]) : i \in 1..Len(candidates)}
<1> DEFINE n == Len(candidates)
           I == 1..n
           A == Seq(Group)
           gain == [i \in I |-> Gain(candidates[i])]
           step == [p \in I \X A |-> WithNew(p[2], candidates[p[1]])]
           Value(g, T) == IF T = {} THEN base ELSE WithNew(g[T \ {Max(T)}], candidates[Max(T)])
           iter == CHOOSE h : h = [T \in SUBSET I |-> Value(h, T)]
<1>1. n \in Nat /\ DOMAIN candidates = I /\ \A i \in I : candidates[i] \in Replacement
  OBVIOUS
<1>2. \A i \in I, t \in A : WithNew(t, candidates[i]) \in A /\ Pairs(WithNew(t, candidates[i])) = Pairs(t) \cup gain[i]
  BY <1>1, WithNewOnce
<1>3. \A T \in SUBSET I : T # {} => LastIn(n)[T] = Max(T) /\ Max(T) \in T
  BY <1>1, LastOfEach
<1>4. \E g : g = [T \in SUBSET I |-> Value(g, T)]
  <2>1. step \in [I \X A -> A] /\ base \in A
    BY <1>2
  <2>2. \A i \in I, t \in A : step[<<i, t>>] = WithNew(t, candidates[i])
    OBVIOUS
  <2> HIDE DEF step, A, n
  <2>3. PICK g \in [SUBSET I -> A] : Folded(g, I, LastIn(n), base, step)
    BY <1>1, <2>1, FoldOfSequence
  <2>4. \A T \in SUBSET I : g[T] = Value(g, T)
    BY <1>3, <2>2, <2>3 DEF Folded
  <2>5. g = [T \in SUBSET I |-> Value(g, T)]
    <3> HIDE DEF Value
    <3> QED BY <2>3, <2>4
  <2> QED BY <2>5
<1>5. FoldLeft(WithNew, base, candidates) = iter[I]
  BY <1>1 DEF FoldLeft, MapThenFoldSet
<1>6. iter = [T \in SUBSET I |-> Value(iter, T)]
  <2> HIDE DEF Value
  <2> QED BY <1>4
<1> HIDE DEF iter, gain
<1>7. Gathers(iter, n, base, gain)
  <2>1. iter[{}] = base
    BY <1>6
  <2>2. ASSUME NEW T \in SUBSET I, T # {}, iter[T \ {Max(T)}] \in Seq(Group)
        PROVE  iter[T] \in Seq(Group) /\ Pairs(iter[T]) = Pairs(iter[T \ {Max(T)}]) \cup gain[Max(T)]
    <3>1. Max(T) \in I
      BY <1>3, <2>2
    <3>2. iter[T] = WithNew(iter[T \ {Max(T)}], candidates[Max(T)])
      BY <1>6, <2>2
    <3> HIDE DEF I
    <3> QED BY <1>2, <2>2, <3>1, <3>2
  <2> QED BY <2>1, <2>2 DEF Gathers
<1>8. iter[I] \in Seq(Group) /\ Pairs(iter[I]) = Pairs(base) \cup UNION {gain[i] : i \in I}
  <2>1. base \in Seq(Group)
    OBVIOUS
  <2> HIDE DEF n
  <2> QED BY <1>1, <1>7, <2>1, Gathered
<1>9. UNION {gain[i] : i \in I} = UNION {Gain(candidates[i]) : i \in I}
  BY DEF gain
<1> HIDE DEF n
<1> QED BY <1>5, <1>8, <1>9 DEF n

\* The facts made of groups: each has sources, which together are those of the groups.
FactsFormed(facts) ==
  /\ Len(facts) \in Nat
  /\ \A i \in 1..Len(facts) :
       /\ facts[i].category \in Nat
       /\ facts[i].sources \in (SUBSET Source) \ {{}}
       /\ facts[i].priority = Priority(facts[i].sources)

LEMMA FactsKeep ==
  ASSUME NEW groups \in Seq(Group)
  PROVE  FactsFormed(Facts(groups)) /\ Pairs(Facts(groups)) = Pairs(groups)
<1> DEFINE merged == FoldLeft(MergedGroups, <<>>, groups)
           sorted == FoldLeft(Placed, <<>>, merged)
           n == Len(sorted)
           facts == [i \in 1..n |-> [category |-> sorted[i].category, priority |-> Priority(sorted[i].sources),
                                     sources |-> sorted[i].sources]]
<1>1. merged \in Seq(Group) /\ Pairs(merged) = Pairs(groups)
  BY MergedAll
<1> HIDE DEF merged
<1>2. sorted \in Seq(Group) /\ Pairs(sorted) = Pairs(groups)
  BY <1>1, PlacedAll
<1>3. Facts(groups) = facts
  BY DEF Facts, merged
<1> HIDE DEF sorted
<1>4. n \in Nat /\ \A i \in 1..n : sorted[i] \in Group
  BY <1>2
<1> HIDE DEF n
<1>5. Len(facts) = n /\ \A i \in 1..n : /\ facts[i].category = sorted[i].category /\ facts[i].sources = sorted[i].sources
                                        /\ facts[i].priority = Priority(sorted[i].sources)
  BY <1>4
<1> HIDE DEF facts
<1>6. FactsFormed(facts)
  BY <1>4, <1>5 DEF FactsFormed, Group
<1>7. Pairs(facts) = Pairs(sorted)
  <2>1. \A x : x \in Pairs(facts) <=> \E i \in 1..n : x \in facts[i].sources
    BY <1>5, SomeSource
  <2>2. \A x : x \in Pairs(sorted) <=> \E i \in 1..n : x \in sorted[i].sources
    BY SomeSource DEF n
  <2>3. \A x : x \in Pairs(facts) <=> x \in Pairs(sorted)
    BY <1>5, <2>1, <2>2
  <2> QED BY <2>3
<1> QED BY <1>2, <1>3, <1>6, <1>7

\* The sources after a repair: those of the old facts outside the failed units, and those of
\* the candidates.
LEMMA RepairedKeep ==
  ASSUME NEW facts, FactsFormed(facts), NEW findings, NEW out, out.candidates \in Seq(Replacement),
         \A k \in 1..Len(out.candidates) : out.candidates[k].into \in (1..Len(facts)) \cup {0}
  PROVE  /\ RepairedGroups(facts, findings, out) \in Seq(Group)
         /\ Pairs(RepairedGroups(facts, findings, out)) =
              {x \in Pairs(facts) : x[1] \notin FailedUnits(findings)} \cup Pairs(out.candidates)
<1> DEFINE failed == FailedUnits(findings)
           n == Len(facts)
           m == Len(out.candidates)
           Into(i) == {k \in 1..m : out.candidates[k].into = i}
           old == [i \in 1..n |->
                     [category |-> IF Into(i) = {} THEN facts[i].category ELSE out.candidates[Max(Into(i))].category,
                      sources |-> Retained(facts[i].sources, failed) \cup UNION {out.candidates[k].sources : k \in Into(i)}]]
           kept == FoldLeft(WithOld, <<>>, old)
<1>1. n \in Nat /\ m \in Nat /\ \A k \in 1..m : out.candidates[k] \in Replacement
  BY DEF FactsFormed
<1>2. RepairedGroups(facts, findings, out) = FoldLeft(WithNew, kept, out.candidates)
  BY DEF RepairedGroups
<1> HIDE DEF n, m, failed
<1>3. ASSUME NEW i \in 1..n
      PROVE  /\ old[i] \in Candidate
             /\ \A x : x \in old[i].sources <=> \/ x \in facts[i].sources /\ x[1] \notin failed
                                                \/ \E k \in 1..m : out.candidates[k].into = i /\ x \in out.candidates[k].sources
  <2>1. facts[i].category \in Nat /\ facts[i].sources \in SUBSET Source
    BY DEF FactsFormed, n
  <2>2. Into(i) # {} => Max(Into(i)) \in Into(i)
    <3>1. Into(i) \in SUBSET (1..m)
      OBVIOUS
    <3> HIDE DEF Into
    <3> QED BY <1>1, <3>1, LastIndex
  <2>3. \A k \in Into(i) : out.candidates[k].category \in Nat /\ out.candidates[k].sources \in SUBSET Source
    BY <1>1 DEF Replacement
  <2> DEFINE category == IF Into(i) = {} THEN facts[i].category ELSE out.candidates[Max(Into(i))].category
             sources == Retained(facts[i].sources, failed) \cup UNION {out.candidates[k].sources : k \in Into(i)}
  <2>4. category \in Nat
    <3> HIDE DEF Into
    <3> QED BY <2>1, <2>2, <2>3
  <2>5. sources \in SUBSET Source
    <3> HIDE DEF Into
    <3> QED BY <2>1, <2>3 DEF Retained
  <2>6. \A x : x \in sources <=> \/ x \in facts[i].sources /\ x[1] \notin failed
                                 \/ \E k \in 1..m : out.candidates[k].into = i /\ x \in out.candidates[k].sources
    BY DEF Retained
  <2>7. old[i] = [category |-> category, sources |-> sources]
    OBVIOUS
  <2> HIDE DEF category, sources, old
  <2> QED BY <2>4, <2>5, <2>6, <2>7 DEF Candidate
<1>4. old \in Seq(Candidate) /\ Len(old) = n
  <2>1. DOMAIN old = 1..n /\ old = [i \in 1..n |-> old[i]]
    OBVIOUS
  <2> HIDE DEF old
  <2> QED BY <1>1, <1>3, <2>1
<1> HIDE DEF old
<1>5. kept \in Seq(Group) /\ Pairs(kept) = Pairs(old)
  BY <1>4, WithOldAll
<1> HIDE DEF kept
<1>6. /\ FoldLeft(WithNew, kept, out.candidates) \in Seq(Group)
      /\ Pairs(FoldLeft(WithNew, kept, out.candidates)) = Pairs(kept) \cup UNION {Gain(out.candidates[k]) : k \in 1..m}
  BY <1>5, WithNewAll DEF m
<1>7. \A x : x \in Pairs(old) <=> \/ x \in Pairs(facts) /\ x[1] \notin failed
                                  \/ \E k \in 1..m : out.candidates[k].into # 0 /\ x \in out.candidates[k].sources
  <2>1. \A x : x \in Pairs(old) <=> \E i \in 1..n : x \in old[i].sources
    BY <1>4, SomeSource
  <2>2. \A x : x \in Pairs(facts) <=> \E i \in 1..n : x \in facts[i].sources
    BY SomeSource DEF n
  <2>3. \A k \in 1..m : out.candidates[k].into # 0 <=> out.candidates[k].into \in 1..n
    BY <1>1 DEF m, n
  <2> QED BY <1>3, <2>1, <2>2, <2>3
<1>8. \A x : x \in UNION {Gain(out.candidates[k]) : k \in 1..m}
               <=> \E k \in 1..m : out.candidates[k].into = 0 /\ x \in out.candidates[k].sources
  BY DEF Gain
<1>9. \A x : x \in Pairs(out.candidates) <=> \E k \in 1..m : x \in out.candidates[k].sources
  BY SomeSource DEF m
<1>10. \A x : x \in Pairs(FoldLeft(WithNew, kept, out.candidates))
                <=> x \in {y \in Pairs(facts) : y[1] \notin failed} \cup Pairs(out.candidates)
  BY <1>5, <1>6, <1>7, <1>8, <1>9
<1> QED BY <1>2, <1>6, <1>10 DEF failed

-----------------------------------------------------------------------------
(* Criteria, one behind another *)

\* The first k sequences are in u, one behind another: u has what they have, and takes no
\* element twice unless two of their places hold the same.
Places(ss, k) == {p \in (1..k) \X Nat : p[2] \in 1..Len(ss[p[1]])}
At(ss, p) == ss[p[1]][p[2]]
Apart(ss, k) == \A p, q \in Places(ss, k) : At(ss, p) = At(ss, q) => p = q
IsFlat(u, ss, k) ==
  /\ \A i \in 1..Len(u) : \E p \in Places(ss, k) : u[i] = At(ss, p)
  /\ \A p \in Places(ss, k) : \E i \in 1..Len(u) : u[i] = At(ss, p)
  /\ IsInjective(u) => Apart(ss, k)

LEMMA FlatOnce ==
  ASSUME NEW S, NEW ss, NEW k \in Nat, NEW u \in Seq(S), NEW t \in Seq(S), t = ss[k + 1], IsFlat(u, ss, k)
  PROVE  u \o t \in Seq(S) /\ IsFlat(u \o t, ss, k + 1)
<1> DEFINE v == u \o t
<1>1. v \in Seq(S) /\ IsJoint(v, u, t)
  BY Joined
<1> HIDE DEF v
<1>2. Len(u) \in Nat /\ Len(t) \in Nat /\ Len(v) = Len(u) + Len(t) /\ DOMAIN v = 1..Len(v) /\ DOMAIN u = 1..Len(u)
  BY <1>1 DEF IsJoint
<1>3. /\ \A i \in 1..Len(u) : i \in 1..Len(v) /\ v[i] = u[i]
      /\ \A i \in 1..Len(t) : Len(u) + i \in 1..Len(v) /\ v[Len(u) + i] = t[i]
  BY <1>1, <1>2 DEF IsJoint
<1>4. \A p : p \in Places(ss, k + 1) <=> p \in Places(ss, k) \/ \E j \in 1..Len(t) : p = <<k + 1, j>>
  BY <1>2 DEF Places
<1>5. \A j \in 1..Len(t) : At(ss, <<k + 1, j>>) = t[j]
  BY DEF At
<1>6. ASSUME NEW i \in 1..Len(v) PROVE \E p \in Places(ss, k + 1) : v[i] = At(ss, p)
  <2>1. CASE i <= Len(u)
    <3>1. i \in 1..Len(u)
      BY <1>2, <2>1
    <3> QED BY <1>3, <1>4, <3>1 DEF IsFlat
  <2>2. CASE i > Len(u)
    <3>1. i - Len(u) \in 1..Len(t) /\ Len(u) + (i - Len(u)) = i
      BY <1>2, <2>2
    <3> QED BY <1>3, <1>4, <1>5, <3>1
  <2> QED BY <1>2, <2>1, <2>2
<1>7. ASSUME NEW p \in Places(ss, k + 1) PROVE \E i \in 1..Len(v) : v[i] = At(ss, p)
  <2>1. CASE p \in Places(ss, k)
    BY <1>3, <2>1 DEF IsFlat
  <2>2. CASE p \notin Places(ss, k)
    <3>1. PICK j \in 1..Len(t) : p = <<k + 1, j>>
      BY <1>4, <2>2
    <3> QED BY <1>3, <1>5, <3>1
  <2> QED BY <2>1, <2>2
<1>8. ASSUME IsInjective(v) PROVE Apart(ss, k + 1)
  <2>1. \A i, j \in 1..Len(v) : v[i] = v[j] => i = j
    BY <1>2, <1>8 DEF IsInjective
  <2>2. IsInjective(u)
    BY <1>2, <1>3, <2>1 DEF IsInjective
  <2>3. Apart(ss, k)
    BY <2>2 DEF IsFlat
  <2>4. ASSUME NEW p \in Places(ss, k), NEW j \in 1..Len(t) PROVE At(ss, p) # t[j]
    <3>1. PICK i \in 1..Len(u) : u[i] = At(ss, p)
      BY DEF IsFlat
    <3>2. i # Len(u) + j
      BY <1>2
    <3> QED BY <1>3, <2>1, <3>1, <3>2
  <2>5. ASSUME NEW i \in 1..Len(t), NEW j \in 1..Len(t), t[i] = t[j] PROVE i = j
    <3>1. Len(u) + i = Len(u) + j
      BY <1>3, <2>1, <2>5, SMTT(30)
    <3> QED BY <1>2, <3>1
  <2>6. ASSUME NEW p \in Places(ss, k + 1), NEW q \in Places(ss, k + 1), At(ss, p) = At(ss, q) PROVE p = q
    <3>1. CASE p \in Places(ss, k) /\ q \in Places(ss, k)
      BY <2>3, <2>6, <3>1 DEF Apart
    <3>2. CASE p \notin Places(ss, k) /\ q \in Places(ss, k)
      BY <1>4, <1>5, <2>4, <2>6, <3>2
    <3>3. CASE p \in Places(ss, k) /\ q \notin Places(ss, k)
      BY <1>4, <1>5, <2>4, <2>6, <3>3
    <3>4. CASE p \notin Places(ss, k) /\ q \notin Places(ss, k)
      <4>1. PICK i \in 1..Len(t) : p = <<k + 1, i>>
        BY <1>4, <3>4
      <4>2. PICK j \in 1..Len(t) : q = <<k + 1, j>>
        BY <1>4, <3>4
      <4> QED BY <1>5, <2>5, <2>6, <4>1, <4>2
    <3> QED BY <3>1, <3>2, <3>3, <3>4
  <2> QED BY <2>6 DEF Apart
<1>9. IsFlat(v, ss, k + 1)
  BY <1>6, <1>7, <1>8 DEF IsFlat
<1> QED BY <1>1, <1>9 DEF v

LEMMA Flattened ==
  ASSUME NEW S, NEW ss \in Seq(Seq(S)), ss # <<>>
  PROVE  FlattenSeq(ss) \in Seq(S) /\ IsFlat(FlattenSeq(ss), ss, Len(ss))
<1> DEFINE n == Len(ss)
           A == Seq(S)
           step == [p \in (1..n) \X A |-> p[2] \o ss[p[1]]]
           Value(h, i) == IF i = 1 THEN ss[i] ELSE h[i - 1] \o ss[i]
           flatten == CHOOSE h : h = [i \in 1..n |-> Value(h, i)]
<1>1. n \in Nat /\ n # 0 /\ \A i \in 1..n : ss[i] \in A
  OBVIOUS
<1>2. FlattenSeq(ss) = flatten[n]
  BY <1>1 DEF FlattenSeq
<1>3. \E h : h = [i \in 1..n |-> Value(h, i)]
  <2>1. step \in [(1..n) \X A -> A] /\ <<>> \in A
    <3>1. \A i \in 1..n, t \in A : t \o ss[i] \in A
      BY <1>1, Joined
    <3> QED BY <3>1
  <2>2. \A i \in 1..n, t \in A : step[<<i, t>>] = t \o ss[i]
    OBVIOUS
  <2> HIDE DEF step, A, n
  <2>3. PICK g \in [SUBSET (1..n) -> A] : Folded(g, 1..n, LastIn(n), <<>>, step)
    BY <1>1, <2>1, FoldOfSequence
  <2> DEFINE h == [i \in 1..n |-> g[1..i]]
  <2>4. ASSUME NEW i \in 1..n PROVE h[i] = Value(h, i)
    <3> DEFINE T == 1..i
    <3>1. T \in SUBSET (1..n) /\ T # {} /\ i \in Nat
      <4> HIDE DEF h
      <4>1. i \in Nat /\ 1 <= i /\ i <= n
        BY <1>1
      <4>2. 1 \in T
        BY <4>1
      <4>3. \A j \in T : j \in 1..n
        BY <1>1, <4>1
      <4> HIDE DEF T
      <4> QED BY <4>1, <4>2, <4>3
    <3>2. Max(T) = i
      <4>1. Max(T) \in T /\ \A j \in T : j <= Max(T)
        BY <1>1, <3>1, LastOfEach
      <4> QED BY <3>1, <4>1
    <3>3. T \ {i} = 1..i - 1
      BY <3>1
    <3>4. g[T] = step[<<i, g[T \ {i}]>>]
      <4> HIDE DEF T
      <4>1. LastIn(n)[T] = i
        BY <1>1, <3>1, <3>2, LastOfEach
      <4> QED BY <2>3, <3>1, <4>1 DEF Folded
    <3>5. 1..i - 1 \in SUBSET (1..n)
      BY <1>1
    <3>6. g[T] = g[1..i - 1] \o ss[i]
      BY <2>2, <2>3, <3>3, <3>4, <3>5
    <3>7. CASE i = 1
      <4>1. 1..i - 1 = {}
        BY <3>7
      <4>2. g[{}] = <<>>
        BY <2>3 DEF Folded
      <4>3. ss[i] \in Seq(S)
        BY <1>1 DEF A
      <4>4. <<>> \o ss[i] = ss[i]
        BY <4>3
      <4> QED BY <3>6, <3>7, <4>1, <4>2, <4>4
    <3>8. CASE i # 1
      <4>1. i - 1 \in 1..n
        BY <1>1, <3>8
      <4>2. h[i - 1] = g[1..i - 1]
        BY <4>1
      <4> QED BY <3>6, <3>8, <4>2
    <3> QED BY <3>7, <3>8
  <2>5. h = [i \in 1..n |-> Value(h, i)]
    <3>1. h = [i \in 1..n |-> h[i]]
      OBVIOUS
    <3> HIDE DEF Value, h
    <3> QED BY <2>4, <3>1
  <2> HIDE DEF h
  <2> QED BY <2>5
<1>4. flatten = [i \in 1..n |-> Value(flatten, i)]
  <2> HIDE DEF Value
  <2> QED BY <1>3
<1> HIDE DEF flatten, n
<1> DEFINE N == {i \in Nat : i + 1 \in 1..n => flatten[i + 1] \in A /\ IsFlat(flatten[i + 1], ss, i + 1)}
<1>5. 0 \in N
  <2>1. flatten[1] = ss[1] /\ ss[1] \in A
    BY <1>1, <1>4
  <2> DEFINE u == ss[1]
  <2>2. u \in A /\ DOMAIN u = 1..Len(u) /\ Len(u) \in Nat
    BY <2>1
  <2>3. \A p : p \in Places(ss, 1) <=> \E j \in 1..Len(u) : p = <<1, j>>
    BY <2>2 DEF Places
  <2>4. \A j : At(ss, <<1, j>>) = u[j]
    BY DEF At
  <2> HIDE DEF u
  <2>5. IsFlat(u, ss, 1)
    <3>1. ASSUME IsInjective(u) PROVE Apart(ss, 1)
      <4>1. ASSUME NEW p \in Places(ss, 1), NEW q \in Places(ss, 1), At(ss, p) = At(ss, q) PROVE p = q
        <5>1. PICK i \in 1..Len(u) : p = <<1, i>>
          BY <2>3
        <5>2. PICK j \in 1..Len(u) : q = <<1, j>>
          BY <2>3
        <5>3. u[i] = u[j]
          BY <2>4, <4>1, <5>1, <5>2
        <5>4. i = j
          BY <2>2, <3>1, <5>3 DEF IsInjective
        <5> QED BY <5>1, <5>2, <5>4
      <4> QED BY <4>1 DEF Apart
    <3> QED BY <2>3, <2>4, <3>1 DEF IsFlat
  <2>6. 0 + 1 = 1 /\ flatten[1] = u
    BY <2>1 DEF u
  <2> QED BY <2>2, <2>5, <2>6
<1>6. ASSUME NEW i \in N PROVE i + 1 \in N
  <2>1. SUFFICES ASSUME (i + 1) + 1 \in 1..n
                 PROVE  flatten[(i + 1) + 1] \in A /\ IsFlat(flatten[(i + 1) + 1], ss, (i + 1) + 1)
    OBVIOUS
  <2> DEFINE k == i + 1
  <2>2. k \in Nat /\ k \in 1..n /\ k + 1 # 1 /\ (k + 1) - 1 = k
    BY <1>1, <2>1
  <2>3. flatten[k] \in A /\ IsFlat(flatten[k], ss, k)
    BY <2>2
  <2>4. flatten[k + 1] = flatten[k] \o ss[k + 1] /\ ss[k + 1] \in A
    BY <1>1, <1>4, <2>1, <2>2
  <2> HIDE DEF k
  <2>5. flatten[k + 1] \in A /\ IsFlat(flatten[k + 1], ss, k + 1)
    BY <2>2, <2>3, <2>4, FlatOnce
  <2> QED BY <2>5 DEF k
<1>7. N = Nat
  <2> HIDE DEF N
  <2>1. N \in SUBSET Nat
    BY DEF N
  <2> QED BY <1>5, <1>6, <2>1, Numbers
<1>8. flatten[n] \in A /\ IsFlat(flatten[n], ss, n)
  <2>1. n - 1 \in N /\ (n - 1) + 1 = n /\ n \in 1..n
    <3> HIDE DEF N
    <3> QED BY <1>1, <1>7
  <2> QED BY <2>1
<1> QED BY <1>2, <1>8 DEF n

\* Criteria that GroupingFault lets through hold every fact at one place.
HoldOnce(facts, criteria) ==
  /\ criteria # <<>>
  /\ UNION {Range(c) : c \in Range(criteria)} = 1..Len(facts)
  /\ \A i \in 1..Len(facts) :
       Cardinality({at \in (1..Len(criteria)) \X (1..Len(facts)) :
                      at[2] <= Len(criteria[at[1]]) /\ criteria[at[1]][at[2]] = i}) = 1

LEMMA GroupingTaken ==
  ASSUME NEW facts, Len(facts) \in Nat, NEW criteria \in Seq(Seq(Nat)), GroupingFault(facts, criteria) = "none"
  PROVE  HoldOnce(facts, criteria)
<1> DEFINE n == Len(facts)
           m == Len(criteria)
           grouped == FlattenSeq(criteria)
<1>1. GroupingFormed(criteria) /\ IsInjective(grouped) /\ Range(grouped) = 1..n
  BY DEF GroupingFault
<1>2. criteria # <<>> /\ \A c \in Range(criteria) : IsInjective(c)
  BY <1>1 DEF GroupingFormed
<1>3. grouped \in Seq(Nat) /\ IsFlat(grouped, criteria, m)
  BY <1>2, Flattened
<1> HIDE DEF grouped, n
<1>4. DOMAIN grouped = 1..Len(grouped) /\ \A x : x \in 1..n <=> \E i \in 1..Len(grouped) : x = grouped[i]
  <2>1. DOMAIN grouped = 1..Len(grouped)
    BY <1>3
  <2> QED BY <1>1, <2>1 DEF Range
<1>5. Apart(criteria, m) /\ \A x : x \in 1..n <=> \E p \in Places(criteria, m) : x = At(criteria, p)
  BY <1>1, <1>3, <1>4 DEF IsFlat
<1>6. m \in Nat /\ DOMAIN criteria = 1..m /\ \A k \in 1..m : criteria[k] \in Seq(Nat) /\ criteria[k] \in Range(criteria)
  BY DEF Range
<1>7. \A x : x \in UNION {Range(c) : c \in Range(criteria)} <=> x \in 1..n
  <2>1. Range(criteria) = {criteria[k] : k \in 1..m}
    BY <1>6 DEF Range
  <2>2. \A x : x \in UNION {Range(c) : c \in Range(criteria)} <=> \E k \in 1..m : x \in Range(criteria[k])
    BY <2>1
  <2>3. ASSUME NEW x
        PROVE  (\E k \in 1..m : x \in Range(criteria[k])) <=> \E p \in Places(criteria, m) : x = At(criteria, p)
    <3>1. ASSUME NEW p \in Places(criteria, m), x = At(criteria, p) PROVE \E k \in 1..m : x \in Range(criteria[k])
      <4>1. p[1] \in 1..m /\ p[2] \in 1..Len(criteria[p[1]]) /\ x = criteria[p[1]][p[2]]
        BY <3>1 DEF Places, At
      <4>2. DOMAIN criteria[p[1]] = 1..Len(criteria[p[1]])
        BY <1>6, <4>1
      <4> QED BY <4>1, <4>2 DEF Range
    <3>2. ASSUME NEW k \in 1..m, x \in Range(criteria[k]) PROVE \E p \in Places(criteria, m) : x = At(criteria, p)
      <4>1. DOMAIN criteria[k] = 1..Len(criteria[k]) /\ Len(criteria[k]) \in Nat
        BY <1>6
      <4>2. PICK j \in 1..Len(criteria[k]) : x = criteria[k][j]
        BY <3>2, <4>1 DEF Range
      <4>3. <<k, j>> \in Places(criteria, m) /\ x = At(criteria, <<k, j>>)
        BY <4>1, <4>2 DEF Places, At
      <4> QED BY <4>3
    <3> QED BY <3>1, <3>2
  <2> QED BY <1>5, <2>2, <2>3
<1>8. ASSUME NEW k \in 1..m PROVE Len(criteria[k]) \in Nat /\ Len(criteria[k]) <= n
  <2> DEFINE c == criteria[k]
             l == Len(c)
  <2>1. c \in Seq(Nat) /\ c \in Range(criteria) /\ IsInjective(c)
    BY <1>2, <1>6
  <2>2. l \in Nat /\ DOMAIN c = 1..l
    BY <2>1
  <2>3. \A j \in 1..l : c[j] \in 1..n
    <3>1. \A j \in 1..l : <<k, j>> \in Places(criteria, m) /\ c[j] = At(criteria, <<k, j>>)
      BY <2>2 DEF Places, At
    <3> QED BY <1>5, <3>1
  <2> HIDE DEF c
  <2>4. c = [j \in 1..l |-> c[j]]
    BY <2>1, <2>2
  <2>5. c \in [1..l -> 1..n]
    BY <2>3, <2>4
  <2> HIDE DEF l
  <2>6. c \in Injection(1..l, 1..n)
    BY <2>1, <2>5 DEF Injection
  <2>7. n \in Nat
    BY DEF n
  <2>8. IsFiniteSet(1..n) /\ Cardinality(1..n) = n /\ Cardinality(1..l) = l
    <3>1. IsFiniteSet(1..n) /\ Cardinality(1..n) = n
      <4>1. IsFiniteSet(1..n)
        BY <2>7, FS_Interval
      <4>2. Cardinality(1..n) = IF 1 > n THEN 0 ELSE n - 1 + 1
        BY <2>7, FS_Interval
      <4> QED BY <2>7, <4>1, <4>2
    <3>2. Cardinality(1..l) = l
      BY <2>2, FS_Interval
    <3> QED BY <3>1, <3>2
  <2>9. Cardinality(1..l) <= Cardinality(1..n)
    BY <2>6, <2>8, FS_Injection
  <2> QED BY <2>2, <2>8, <2>9 DEF c, l
<1>9. ASSUME NEW i \in 1..n
      PROVE  Cardinality({at \in (1..m) \X (1..n) : at[2] <= Len(criteria[at[1]]) /\ criteria[at[1]][at[2]] = i}) = 1
  <2> DEFINE places == {at \in (1..m) \X (1..n) : at[2] <= Len(criteria[at[1]]) /\ criteria[at[1]][at[2]] = i}
  <2>1. PICK p \in Places(criteria, m) : i = At(criteria, p)
    BY <1>5
  <2>2. p \in places
    <3>1. p = <<p[1], p[2]>> /\ p[1] \in 1..m /\ p[2] \in 1..Len(criteria[p[1]]) /\ criteria[p[1]][p[2]] = i
      BY <2>1 DEF Places, At
    <3>2. p[2] \in 1..n /\ p[2] <= Len(criteria[p[1]])
      <4>1. n \in Nat
        BY DEF n
      <4> QED BY <1>8, <3>1, <4>1
    <3> QED BY <3>1, <3>2
  <2>3. ASSUME NEW q \in places PROVE q = p
    <3>1. q = <<q[1], q[2]>> /\ q[1] \in 1..m /\ q[2] \in 1..n /\ q[2] <= Len(criteria[q[1]]) /\ criteria[q[1]][q[2]] = i
      OBVIOUS
    <3>2. n \in Nat
      BY DEF n
    <3>3. q[2] \in 1..Len(criteria[q[1]])
      BY <1>8, <3>1, <3>2
    <3>4. q \in Places(criteria, m) /\ At(criteria, q) = i
      BY <3>1, <3>2, <3>3 DEF Places, At
    <3> QED BY <1>5, <2>1, <3>4 DEF Apart
  <2>4. places = {p}
    <3> HIDE DEF places
    <3> QED BY <2>2, <2>3
  <2> HIDE DEF places
  <2>5. Cardinality(places) = 1
    BY <2>4, FS_Singleton
  <2> QED BY <2>5 DEF places
<1> QED BY <1>2, <1>7, <1>9 DEF n, HoldOnce

-----------------------------------------------------------------------------
(* Sequences of sequences, put one behind another *)

\* The first i sequences, one behind another.
Flats(g, ss) == g[0] = <<>> /\ \A i \in 1..Len(ss) : g[i] = g[i - 1] \o ss[i]

\* The sequence of all is reached by putting one behind another.
LEMMA FlatIs ==
  ASSUME NEW S, NEW ss \in Seq(Seq(S))
  PROVE  \E g \in [0..Len(ss) -> Seq(S)] : Flats(g, ss) /\ FlattenSeq(ss) = g[Len(ss)]
<1> DEFINE n == Len(ss)
           A == Seq(S)
           step == [p \in (1..n) \X A |-> p[2] \o ss[p[1]]]
           Value(h, i) == IF i = 1 THEN ss[i] ELSE h[i - 1] \o ss[i]
           flatten == CHOOSE h : h = [i \in 1..n |-> Value(h, i)]
<1>1. n \in Nat /\ \A i \in 1..n : ss[i] \in A
  OBVIOUS
<1>2. step \in [(1..n) \X A -> A] /\ <<>> \in A
  <2>1. \A i \in 1..n, t \in A : t \o ss[i] \in A
    BY <1>1, Joined
  <2> QED BY <2>1
<1>3. \A i \in 1..n, t \in A : step[<<i, t>>] = t \o ss[i]
  OBVIOUS
<1>4. PICK g \in [SUBSET (1..n) -> A] : Folded(g, 1..n, LastIn(n), <<>>, step)
  <2> HIDE DEF step, A, n
  <2> QED BY <1>1, <1>2, FoldOfSequence
<1> DEFINE f == [i \in 0..n |-> g[1..i]]
<1>5. f \in [0..n -> A]
  <2>1. \A i \in 0..n : 1..i \in SUBSET (1..n)
    BY <1>1
  <2> HIDE DEF A, n
  <2> QED BY <2>1
<1>6. f[0] = <<>>
  <2>1. 1..0 = {} /\ 0 \in 0..n
    BY <1>1
  <2>2. g[{}] = <<>>
    BY <1>4 DEF Folded
  <2> QED BY <2>1, <2>2
<1>7. ASSUME NEW i \in 1..n PROVE f[i] = f[i - 1] \o ss[i]
  <2> DEFINE T == 1..i
  <2>1. i \in Nat /\ i <= n /\ i - 1 \in Nat /\ i \in 0..n /\ i - 1 \in 0..n
    BY <1>1
  <2>2. Max(T) = i /\ T \ {i} = 1..i - 1 /\ T # {}
    <3> DEFINE k == i - 1
    <3>1. k \in Nat /\ k + 1 = i
      BY <2>1
    <3> HIDE DEF k
    <3>2. i \in T /\ T \in SUBSET (1..i) /\ T # {}
      <4>1. i \in 1..i
        BY <1>1
      <4> QED BY <4>1
    <3>3. Max(T) \in T /\ \A j \in T : j <= Max(T)
      <4> HIDE DEF T
      <4> QED BY <2>1, <3>2, LastIndex
    <3>4. Max(T) = i
      <4> DEFINE m == Max(T)
      <4>1. m \in 1..i /\ i <= m
        BY <3>2, <3>3
      <4> HIDE DEF m
      <4>2. m = i
        BY <2>1, <4>1
      <4> QED BY <4>2 DEF m
    <3>5. T \ {i} = 1..i - 1
      BY <2>1
    <3> QED BY <3>2, <3>4, <3>5
  <2>3. T \in SUBSET (1..n) /\ 1..i - 1 \in SUBSET (1..n)
    BY <1>1, <2>1
  <2>4. LastIn(n)[T] = i
    BY <1>1, <2>2, <2>3, LastOfEach
  <2>5. g[T] = step[<<i, g[1..i - 1]>>]
    <3> HIDE DEF T, step
    <3> QED BY <1>4, <2>2, <2>3, <2>4 DEF Folded
  <2>6. g[1..i - 1] \in A
    BY <2>3
  <2>7. g[T] = g[1..i - 1] \o ss[i]
    BY <1>3, <2>5, <2>6
  <2> QED BY <2>1, <2>7
<1> HIDE DEF f
<1>8. Flats(f, ss)
  BY <1>6, <1>7 DEF Flats
<1>9. CASE n = 0
  <2>1. ss = <<>>
    BY <1>9
  <2>2. FlattenSeq(ss) = <<>>
    BY <1>9, <2>1 DEF FlattenSeq
  <2> QED BY <1>5, <1>6, <1>8, <1>9, <2>2
<1>10. CASE n # 0
  <2>1. FlattenSeq(ss) = flatten[n]
    BY <1>10 DEF FlattenSeq
  <2> DEFINE h == [i \in 1..n |-> f[i]]
  <2>2. \A i \in 1..n : h[i] = Value(h, i)
    <3> SUFFICES ASSUME NEW i \in 1..n PROVE h[i] = Value(h, i)
      OBVIOUS
    <3>1. CASE i = 1
      <4>1. i - 1 = 0
        BY <3>1
      <4>2. f[i] = <<>> \o ss[i] /\ ss[i] \in Seq(S)
        BY <1>1, <1>6, <1>7, <4>1
      <4>3. <<>> \o ss[i] = ss[i]
        BY <4>2
      <4> QED BY <3>1, <4>2, <4>3
    <3>2. CASE i # 1
      <4>1. i - 1 \in 1..n
        BY <1>1, <3>2
      <4> QED BY <1>7, <3>2, <4>1
    <3> QED BY <3>1, <3>2
  <2>3. h = [i \in 1..n |-> Value(h, i)]
    <3>1. h = [i \in 1..n |-> h[i]]
      OBVIOUS
    <3> HIDE DEF Value, h
    <3> QED BY <2>2, <3>1
  <2>4. flatten = [i \in 1..n |-> Value(flatten, i)]
    <3>1. \E k : k = [i \in 1..n |-> Value(k, i)]
      <4> HIDE DEF h, Value
      <4> QED BY <2>3
    <3> HIDE DEF Value
    <3> QED BY <3>1
  <2> HIDE DEF flatten, n
  <2> DEFINE N == {i \in Nat : i + 1 \in 1..n => flatten[i + 1] = f[i + 1]}
  <2>5. 0 \in N
    <3> SUFFICES ASSUME 1 \in 1..n PROVE flatten[1] = f[1]
      OBVIOUS
    <3>1. flatten[1] = ss[1]
      BY <2>4
    <3>2. h[1] = ss[1]
      BY <2>2
    <3> QED BY <3>1, <3>2
  <2>6. ASSUME NEW i \in N PROVE i + 1 \in N
    <3> SUFFICES ASSUME (i + 1) + 1 \in 1..n PROVE flatten[(i + 1) + 1] = f[(i + 1) + 1]
      OBVIOUS
    <3> DEFINE k == i + 1
    <3>1. k \in 1..n /\ (k + 1) - 1 = k /\ k + 1 # 1 /\ k + 1 \in 1..n
      BY <1>1
    <3>2. flatten[k] = f[k]
      BY <3>1
    <3> HIDE DEF k
    <3>3. flatten[k + 1] = flatten[k] \o ss[k + 1]
      BY <2>4, <3>1
    <3>4. f[k + 1] = f[k] \o ss[k + 1]
      BY <1>7, <3>1
    <3> QED BY <3>2, <3>3, <3>4 DEF k
  <2>7. N = Nat
    <3>1. N \in SUBSET Nat
      OBVIOUS
    <3> HIDE DEF N
    <3> QED BY <2>5, <2>6, <3>1, Numbers
  <2>8. flatten[n] = f[n]
    <3>1. n - 1 \in N /\ (n - 1) + 1 = n /\ n \in 1..n
      <4> HIDE DEF N
      <4> QED BY <1>1, <1>10, <2>7
    <3> QED BY <3>1
  <2> QED BY <1>5, <1>8, <2>1, <2>8 DEF n
<1> QED BY <1>9, <1>10

Follows(w, s, t) == w = s \o t
IsNone(s) == s = <<>>
Alike(ss, tt, n) == \A i \in 1..n : ss[i] = tt[i]

\* The same sequences, one behind another, are the same.
LEMMA FlatSame ==
  ASSUME NEW ss, NEW tt, NEW n \in Nat, Len(ss) \in Nat, Len(tt) \in Nat, n <= Len(ss), n <= Len(tt),
         NEW g, Flats(g, ss), NEW h, Flats(h, tt), Alike(ss, tt, n)
  PROVE  g[n] = h[n]
<1> DEFINE N == {i \in Nat : i <= n => g[i] = h[i]}
<1>1. 0 \in N
  BY DEF Flats
<1>2. ASSUME NEW i \in N PROVE i + 1 \in N
  <2> SUFFICES ASSUME i + 1 <= n PROVE g[i + 1] = h[i + 1]
    OBVIOUS
  <2>1. i \in Nat /\ g[i] = h[i]
    OBVIOUS
  <2>2. i + 1 \in 1..n /\ i + 1 \in 1..Len(ss) /\ i + 1 \in 1..Len(tt) /\ (i + 1) - 1 = i
    BY <2>1
  <2> DEFINE k == i + 1
  <2> HIDE DEF k, N
  <2>3. g[k] = g[k - 1] \o ss[k] /\ h[k] = h[k - 1] \o tt[k] /\ ss[k] = tt[k] /\ k - 1 = i
    BY <2>2 DEF Flats, Alike, k
  <2> QED BY <2>1, <2>3 DEF k
<1>3. N = Nat
  <2>1. N \in SUBSET Nat
    OBVIOUS
  <2> HIDE DEF N
  <2> QED BY <1>1, <1>2, <2>1, Numbers
<1>4. n \in N
  BY <1>3
<1> QED BY <1>4

\* What is flattened of two is flattened of each.
LEMMA FlatBehind ==
  ASSUME NEW S, NEW a \in Seq(Seq(S)), NEW b \in Seq(Seq(S))
  PROVE  FlattenSeq(a) \in Seq(S) /\ FlattenSeq(b) \in Seq(S) /\ FlattenSeq(a \o b) = FlattenSeq(a) \o FlattenSeq(b)
<1> DEFINE A == Seq(S)
           c == a \o b
           n == Len(a)
           m == Len(b)
<1>1. c \in Seq(A) /\ IsJoint(c, a, b) /\ n \in Nat /\ m \in Nat
  <2>1. a \in Seq(A) /\ b \in Seq(A)
    OBVIOUS
  <2> HIDE DEF A
  <2>2. Len(a) \in Nat /\ Len(b) \in Nat
    BY <2>1
  <2> QED BY <2>1, <2>2, Joined
<1>2. PICK f \in [0..n -> Seq(S)] : Flats(f, a) /\ FlattenSeq(a) = f[n]
  BY FlatIs
<1>3. PICK g \in [0..m -> Seq(S)] : Flats(g, b) /\ FlattenSeq(b) = g[m]
  BY FlatIs
<1>7. \A i \in 1..m : b[i] \in Seq(S)
  OBVIOUS
<1> HIDE DEF c
<1>4. PICK h \in [0..Len(c) -> Seq(S)] : Flats(h, c) /\ FlattenSeq(c) = h[Len(c)]
  BY <1>1, FlatIs
<1>20. n = Len(a) /\ m = Len(b)
  OBVIOUS
<1> HIDE DEF n, m
<1>5. Len(c) = n + m /\ (\A i \in 1..n : c[i] = a[i]) /\ (\A i \in 1..m : c[n + i] = b[i])
  BY <1>1, <1>20 DEF IsJoint
<1>6. f[n] \in Seq(S) /\ g[m] \in Seq(S) /\ \A i \in 0..m : g[i] \in Seq(S)
  BY <1>1, <1>2, <1>3
<1>8. f[n] = h[n]
  <2>1. Len(c) \in Nat /\ n <= Len(c) /\ n <= Len(a) /\ Len(a) \in Nat /\ n \in Nat
    BY <1>1, <1>5, <1>20
  <2>2. Alike(a, c, n)
    BY <1>5 DEF Alike
  <2> QED BY <1>2, <1>4, <2>1, <2>2, FlatSame, SMTT(30)
<1> DEFINE N == {i \in Nat : i <= m => Follows(h[n + i], f[n], g[i])}
<1>9. 0 \in N
  <2>1. g[0] = <<>> /\ n + 0 = n
    BY <1>1, <1>3, <1>20 DEF Flats
  <2>2. f[n] \o <<>> = f[n]
    BY <1>6
  <2>3. Follows(h[n + 0], f[n], g[0])
    BY <1>8, <2>1, <2>2 DEF Follows
  <2> QED BY <2>3
<1>10. ASSUME NEW i \in N PROVE i + 1 \in N
  <2> SUFFICES ASSUME i + 1 <= m PROVE Follows(h[n + (i + 1)], f[n], g[i + 1])
    OBVIOUS
  <2>1. i \in Nat /\ i <= m /\ h[n + i] = f[n] \o g[i]
    <3>1. i \in Nat /\ (i <= m => Follows(h[n + i], f[n], g[i]))
      OBVIOUS
    <3> HIDE DEF N
    <3> QED BY <1>1, <3>1 DEF Follows
  <2> DEFINE k == i + 1
  <2> HIDE DEF N
  <2>2. k \in 1..m /\ k - 1 = i /\ n + k \in 1..Len(c) /\ (n + k) - 1 = n + i /\ i \in 0..m
    <3> DEFINE l == Len(c)
    <3>1. n \in Nat /\ m \in Nat /\ i \in Nat /\ k = i + 1 /\ k <= m /\ l = n + m
      BY <1>1, <1>5, <2>1
    <3> HIDE DEF k, l
    <3>2. k \in 1..m /\ k - 1 = i /\ n + k \in 1..l /\ (n + k) - 1 = n + i /\ i \in 0..m
      BY <3>1
    <3> QED BY <3>2 DEF l
  <2> HIDE DEF k
  <2>3. g[k] = g[i] \o b[k]
    BY <1>3, <1>20, <2>2 DEF Flats
  <2>4. h[n + k] = h[n + i] \o c[n + k] /\ c[n + k] = b[k]
    BY <1>4, <1>5, <2>2 DEF Flats
  <2>5. g[i] \in Seq(S) /\ b[k] \in Seq(S) /\ f[n] \in Seq(S)
    BY <1>6, <1>7, <2>2
  <2>6. (f[n] \o g[i]) \o b[k] = f[n] \o (g[i] \o b[k])
    <3> DEFINE x == f[n]
               y == g[i]
               z == b[k]
    <3>1. x \in Seq(S) /\ y \in Seq(S) /\ z \in Seq(S)
      BY <2>5
    <3> HIDE DEF x, y, z
    <3>2. (x \o y) \o z = x \o (y \o z)
      BY <3>1, ConcatAssociative, SMTT(30)
    <3> QED BY <3>2 DEF x, y, z
  <2>7. h[n + k] = f[n] \o g[k]
    BY <2>1, <2>3, <2>4, <2>6
  <2> QED BY <2>7 DEF k, Follows
<1>11. N = Nat
  <2>1. N \in SUBSET Nat
    OBVIOUS
  <2> HIDE DEF N
  <2> QED BY <1>9, <1>10, <2>1, Numbers
<1>12. h[n + m] = f[n] \o g[m]
  <2>1. m \in N
    BY <1>1, <1>11
  <2> QED BY <1>1, <2>1 DEF Follows
<1> QED BY <1>2, <1>3, <1>4, <1>5, <1>6, <1>12 DEF c

\* A sequence by itself.
LEMMA FlatOne ==
  ASSUME NEW S, NEW s \in Seq(S)
  PROVE  FlattenSeq(<<s>>) = s
<1> DEFINE ss == <<s>>
<1>1. ss \in Seq(Seq(S)) /\ Len(ss) = 1 /\ ss[1] = s
  OBVIOUS
<1> HIDE DEF ss
<1>2. PICK g \in [0..Len(ss) -> Seq(S)] : Flats(g, ss) /\ FlattenSeq(ss) = g[Len(ss)]
  BY <1>1, FlatIs
<1>3. g[1] = g[0] \o ss[1] /\ g[0] = <<>>
  <2>1. 1 \in 1..Len(ss) /\ 1 - 1 = 0
    BY <1>1
  <2> QED BY <1>2, <2>1 DEF Flats
<1>4. g[1] = s
  BY <1>1, <1>3
<1> QED BY <1>1, <1>2, <1>4 DEF ss

\* One sequence more.
LEMMA FlatMore ==
  ASSUME NEW S, NEW a \in Seq(Seq(S)), NEW s \in Seq(S)
  PROVE  FlattenSeq(Append(a, s)) = FlattenSeq(a) \o s
<1> DEFINE A == Seq(S)
<1>1. Append(a, s) = a \o <<s>>
  <2>1. a \in Seq(A) /\ s \in A
    OBVIOUS
  <2> HIDE DEF A
  <2> QED BY <2>1, AppendIsConcat
<1>2. <<s>> \in Seq(Seq(S))
  <2>1. s \in A
    OBVIOUS
  <2> HIDE DEF A
  <2>2. <<s>> \in Seq(A)
    BY <2>1
  <2> QED BY <2>2 DEF A
<1>3. FlattenSeq(a \o <<s>>) = FlattenSeq(a) \o FlattenSeq(<<s>>)
  BY <1>2, FlatBehind
<1> QED BY <1>1, <1>3, FlatOne

\* A sequence whose elements stand by themselves.
LEMMA FlatOfOnes ==
  ASSUME NEW S, NEW t \in Seq(S)
  PROVE  LET ones == [i \in 1..Len(t) |-> <<t[i]>>]
         IN ones \in Seq(Seq(S)) /\ FlattenSeq(ones) = t
<1> DEFINE n == Len(t)
           ones == [i \in 1..n |-> <<t[i]>>]
<1>1. n \in Nat /\ \A i \in 1..n : t[i] \in S
  OBVIOUS
<1>2. ones \in Seq(Seq(S)) /\ Len(ones) = n /\ \A i \in 1..n : ones[i] = <<t[i]>>
  <2> HIDE DEF n
  <2>1. \A i \in 1..n : <<t[i]>> \in Seq(S)
    BY <1>1
  <2> QED BY <1>1, <2>1
<1> HIDE DEF ones
<1>3. PICK g \in [0..Len(ones) -> Seq(S)] : Flats(g, ones) /\ FlattenSeq(ones) = g[Len(ones)]
  BY <1>2, FlatIs
<1>4. g[0] = <<>> /\ \A i \in 1..n : g[i] = g[i - 1] \o <<t[i]>>
  BY <1>2, <1>3 DEF Flats
<1> DEFINE N == {i \in Nat : i <= n => Len(g[i]) = i /\ g[i] \in Seq(S) /\ \A j \in 1..i : g[i][j] = t[j]}
<1>5. 0 \in N
  <2> DEFINE u == g[0]
  <2>1. u = <<>>
    BY <1>4
  <2> HIDE DEF u
  <2>2. Len(u) = 0 /\ u \in Seq(S) /\ \A j \in 1..0 : u[j] = t[j]
    BY <2>1
  <2> QED BY <2>2 DEF u
<1>6. ASSUME NEW i \in N PROVE i + 1 \in N
  <2> SUFFICES ASSUME i + 1 <= n
               PROVE Len(g[i + 1]) = i + 1 /\ g[i + 1] \in Seq(S) /\ \A j \in 1..i + 1 : g[i + 1][j] = t[j]
    OBVIOUS
  <2> DEFINE k == i + 1
             u == g[i]
  <2>1. i \in Nat /\ i <= n /\ Len(u) = i /\ u \in Seq(S) /\ \A j \in 1..i : u[j] = t[j]
    <3>1. i \in Nat /\ (i <= n => Len(g[i]) = i /\ g[i] \in Seq(S) /\ \A j \in 1..i : g[i][j] = t[j])
      OBVIOUS
    <3> HIDE DEF N, n
    <3> QED BY <1>1, <3>1
  <2>2. k \in 1..n /\ k - 1 = i
    BY <1>1, <2>1
  <2>3. g[k] = u \o <<t[k]>>
    BY <1>4, <2>2
  <2>4. t[k] \in S
    BY <1>1, <2>2
  <2> DEFINE e == t[k]
  <2> HIDE DEF u, N, n
  <2>5. g[k] = u \o <<e>> /\ e \in S
    BY <2>3, <2>4
  <2> HIDE DEF e
  <2>6. u \o <<e>> = Append(u, e)
    BY <2>1, <2>5, AppendIsConcat
  <2>7. Len(Append(u, e)) = i + 1 /\ Append(u, e) \in Seq(S) /\ Append(u, e)[i + 1] = e /\ \A j \in 1..i : Append(u, e)[j] = u[j]
    BY <2>1, <2>5
  <2>8. \A j \in 1..i + 1 : j \in 1..i \/ j = i + 1
    BY <2>1
  <2>9. g[i + 1] = Append(u, e) /\ e = t[i + 1]
    BY <2>5, <2>6 DEF e
  <2> DEFINE v == g[i + 1]
  <2>10. v = Append(u, e)
    BY <2>9
  <2> HIDE DEF v
  <2>11. Len(v) = i + 1 /\ v \in Seq(S) /\ v[i + 1] = t[i + 1] /\ \A j \in 1..i : v[j] = t[j]
    BY <2>1, <2>7, <2>9, <2>10
  <2>12. \A j \in 1..i + 1 : v[j] = t[j]
    BY <2>8, <2>11
  <2> QED BY <2>11, <2>12 DEF v
<1>7. N = Nat
  <2>1. N \in SUBSET Nat
    OBVIOUS
  <2> HIDE DEF N
  <2> QED BY <1>5, <1>6, <2>1, Numbers
<1>8. Len(g[n]) = n /\ g[n] \in Seq(S) /\ \A j \in 1..n : g[n][j] = t[j]
  <2>1. n \in N
    BY <1>1, <1>7
  <2> QED BY <1>1, <2>1
<1> DEFINE w == g[n]
<1>9. w = t
  <2>1. w \in Seq(S) /\ Len(w) = Len(t) /\ \A j \in 1..Len(t) : w[j] = t[j]
    BY <1>8
  <2> HIDE DEF w
  <2> QED BY <2>1, SeqEqual
<1> QED BY <1>2, <1>3, <1>9 DEF ones

\* Sequences that are all empty.
LEMMA FlatOfNone ==
  ASSUME NEW S, NEW ss \in Seq(Seq(S)), \A i \in 1..Len(ss) : ss[i] = <<>>
  PROVE  FlattenSeq(ss) = <<>>
<1> DEFINE n == Len(ss)
<1>1. n \in Nat
  OBVIOUS
<1>2. PICK g \in [0..n -> Seq(S)] : Flats(g, ss) /\ FlattenSeq(ss) = g[n]
  BY FlatIs
<1> DEFINE N == {i \in Nat : i <= n => IsNone(g[i])}
<1>3. 0 \in N
  <2>1. IsNone(g[0])
    BY <1>2 DEF Flats, IsNone
  <2> QED BY <2>1
<1>4. ASSUME NEW i \in N PROVE i + 1 \in N
  <2> SUFFICES ASSUME i + 1 <= n PROVE IsNone(g[i + 1])
    OBVIOUS
  <2>1. i \in Nat /\ (i <= n => IsNone(g[i]))
    OBVIOUS
  <2> HIDE DEF N
  <2> DEFINE k == i + 1
  <2>2. k \in 1..n /\ k - 1 = i /\ g[i] = <<>>
    BY <1>1, <2>1 DEF IsNone
  <2> HIDE DEF k
  <2>3. g[k] = g[k - 1] \o ss[k] /\ ss[k] = <<>>
    BY <1>2, <2>2 DEF Flats
  <2>4. <<>> \o <<>> = <<>>
    OBVIOUS
  <2> QED BY <2>2, <2>3, <2>4 DEF k, IsNone
<1>5. N = Nat
  <2>1. N \in SUBSET Nat
    OBVIOUS
  <2> HIDE DEF N
  <2> QED BY <1>3, <1>4, <2>1, Numbers
<1>6. n \in N
  BY <1>1, <1>5
<1> QED BY <1>1, <1>2, <1>6 DEF IsNone

-----------------------------------------------------------------------------
(* The calls of a 4.0 plan *)

\* The roles that a generation asks, in order (build_v4_plan_content).
RolesOf(run) ==
  IF run.coverage.findings = <<>> THEN <<"fact_extraction", "coverage_review", "criterion_grouping">>
  ELSE <<"fact_extraction", "coverage_review", "local_repair", "criterion_grouping">>

CallType ==
  [role : {"fact_extraction", "coverage_review", "local_repair", "criterion_grouping"},
   result : {"succeeded", "failed"}, retries : {0, 1}]

\* A generation has an error and calls, whatever else.
Shaped(s) == {"error", "calls"} \subseteq DOMAIN s

\* The calls are those of the first roles, and the last one is to blame for an error.
CallsFit(s, run) ==
  LET n == Len(s.calls)
  IN /\ s.calls \in Seq(CallType) /\ n <= Len(RolesOf(run))
     /\ \A i \in 1..n :
          /\ s.calls[i].role = RolesOf(run)[i]
          /\ s.calls[i].result = "failed" <=> i = n /\ s.error \notin {"none", "OUTDATED"}

Fits(s, run) == Shaped(s) /\ CallsFit(s, run)

\* A call that went well and is followed by another one.
Goes(s, run) == Shaped(s) /\ CallsFit(s, run) /\ s.error = "none"

\* A function on an initial segment is a sequence.
LEMMA SequenceIs ==
  ASSUME NEW S, NEW n \in Nat, NEW f \in [1..n -> S]
  PROVE  f \in Seq(S) /\ Len(f) = n
OBVIOUS

\* What replacing a part of a generation leaves alone.
LEMMA ExceptCalls ==
  ASSUME NEW s, Shaped(s), NEW calls
  PROVE  LET t == [s EXCEPT !.calls = calls] IN Shaped(t) /\ t.calls = calls /\ t.error = s.error
BY DEF Shaped

LEMMA ExceptError ==
  ASSUME NEW s, Shaped(s), NEW error
  PROVE  LET t == [s EXCEPT !.error = error] IN Shaped(t) /\ t.calls = s.calls /\ t.error = error
BY DEF Shaped

\* The record of a call whose outcome is known.
Noted(s, role, code, retries) ==
  [Recorded(s, role, IF code = "none" THEN "succeeded" ELSE "failed", retries) EXCEPT !.error = code]

\* The record stays in order when the next role is asked.
LEMMA RecordedFits ==
  ASSUME NEW s, NEW run, Goes(s, run), Len(s.calls) < Len(RolesOf(run)),
         NEW code, code # "OUTDATED", NEW retries \in {0, 1},
         NEW role \in {"fact_extraction", "coverage_review", "local_repair", "criterion_grouping"},
         role = RolesOf(run)[Len(s.calls) + 1]
  PROVE  Shaped(Noted(s, role, code, retries)) /\ CallsFit(Noted(s, role, code, retries), run)
<1> DEFINE call == [role |-> role, result |-> IF code = "none" THEN "succeeded" ELSE "failed", retries |-> retries]
           calls == Append(s.calls, call)
           n == Len(s.calls)
           t == Noted(s, role, code, retries)
<1>1. Shaped(t) /\ t.calls = calls /\ t.error = code
  <2> DEFINE u == [s EXCEPT !.calls = calls]
  <2>1. Shaped(u) /\ u.calls = calls
    <3> HIDE DEF call, calls
    <3> QED BY ExceptCalls DEF Goes
  <2>2. Recorded(s, role, call.result, retries) = u
    BY DEF Recorded
  <2>3. t = [u EXCEPT !.error = code]
    <3> HIDE DEF u
    <3> QED BY <2>2 DEF Noted
  <2> HIDE DEF u, call, calls
  <2> QED BY <2>1, <2>3, ExceptError
<1>2. s.calls \in Seq(CallType) /\ call \in CallType /\ n \in Nat
  BY DEF Goes, CallsFit, CallType
<1>3. /\ calls \in Seq(CallType) /\ Len(calls) = n + 1 /\ calls[n + 1] = call
      /\ \A i \in 1..n : calls[i] = s.calls[i]
  <2> HIDE DEF call
  <2> QED BY <1>2
<1>4. \A i \in 1..n : s.calls[i].role = RolesOf(run)[i] /\ s.calls[i].result # "failed"
  BY DEF Goes, CallsFit
<1>5. Len(RolesOf(run)) \in Nat
  BY DEF RolesOf
<1>6. call.role = role /\ (call.result = "failed" <=> code # "none")
  OBVIOUS
<1>7. ASSUME NEW i \in 1..n + 1
      PROVE  /\ calls[i].role = RolesOf(run)[i]
             /\ calls[i].result = "failed" <=> i = n + 1 /\ code \notin {"none", "OUTDATED"}
  <2> HIDE DEF call, calls
  <2>1. CASE i = n + 1
    BY <1>3, <1>6, <2>1
  <2>2. CASE i \in 1..n
    BY <1>2, <1>3, <1>4, <2>2
  <2> QED BY <1>2, <2>1, <2>2
<1>8. CallsFit(t, run)
  <2> HIDE DEF call, calls, t
  <2> QED BY <1>1, <1>2, <1>3, <1>5, <1>7 DEF CallsFit
<1> QED BY <1>1, <1>8

\* A fault found in an answer is laid to its call.
LEMMA CheckedFits ==
  ASSUME NEW s, NEW run, Goes(s, run), NEW fault, fault # "OUTDATED"
  PROVE  LET t == Checked(s, fault)
         IN Shaped(t) /\ CallsFit(t, run) /\ Len(t.calls) = Len(s.calls) /\ t.error = fault
<1>1. CASE fault = "none"
  BY <1>1 DEF Checked, Goes
<1>2. CASE fault # "none"
  <2> DEFINE n == Len(s.calls)
             calls == [i \in DOMAIN s.calls |-> IF i = n THEN [s.calls[i] EXCEPT !.result = "failed"] ELSE s.calls[i]]
             t == Checked(s, fault)
  <2>1. Shaped(t) /\ t.calls = calls /\ t.error = fault
    BY <1>2 DEF Checked, Goes, Shaped
  <2>2. s.calls \in Seq(CallType) /\ n \in Nat /\ DOMAIN s.calls = 1..n /\ \A i \in 1..n : s.calls[i] \in CallType
    BY DEF Goes, CallsFit
  <2>3. \A i \in 1..n : s.calls[i].role = RolesOf(run)[i] /\ s.calls[i].result # "failed"
    BY DEF Goes, CallsFit
  <2>4. \A i \in 1..n : calls[i] \in CallType
    BY <2>2 DEF CallType
  <2>5. calls \in Seq(CallType) /\ Len(calls) = n
    <3>1. calls \in [1..n -> CallType]
      BY <2>2, <2>4
    <3> HIDE DEF calls
    <3> QED BY <2>2, <3>1, SequenceIs
  <2>6. ASSUME NEW i \in 1..n
        PROVE  /\ calls[i].role = RolesOf(run)[i]
               /\ calls[i].result = "failed" <=> i = n
    BY <2>2, <2>3 DEF CallType
  <2>7. CallsFit(t, run)
    <3>1. n <= Len(RolesOf(run))
      BY DEF Goes, CallsFit
    <3> HIDE DEF calls, t
    <3> QED BY <1>2, <2>1, <2>5, <2>6, <3>1 DEF CallsFit
  <2> QED BY <2>1, <2>5, <2>7
<1> QED BY <1>1, <1>2

\* One request: refused, failed or answered, it leaves one record or none.
LEMMA InvokedFits ==
  ASSUME NEW s, NEW run, Goes(s, run), Len(s.calls) < Len(RolesOf(run)), NEW out,
         NEW role \in {"fact_extraction", "coverage_review", "local_repair", "criterion_grouping"},
         role = RolesOf(run)[Len(s.calls) + 1]
  PROVE  LET t == Invoked(s, role, out) IN Shaped(t) /\ CallsFit(t, run)
<1> DEFINE retried == Retryable(ErrorOf(out.first))
           error == ErrorOf(IF retried THEN out.second ELSE out.first)
           code == IF error = "none" /\ ~out.valid THEN "INVALID_MODEL_OUTPUT" ELSE error
           t == Noted(s, role, code, IF retried THEN 1 ELSE 0)
<1>1. CASE out.large
  BY <1>1, CheckedFits DEF Invoked
<1>2. CASE ~out.large
  <2>1. \A reply : ErrorOf(reply) # "OUTDATED"
    BY DEF ErrorOf
  <2>2. code # "OUTDATED"
    BY <2>1
  <2>3. (IF retried THEN 1 ELSE 0) \in {0, 1}
    OBVIOUS
  <2>4. Shaped(t) /\ CallsFit(t, run)
    <3> HIDE DEF code, retried
    <3> QED BY <2>2, <2>3, RecordedFits
  <2>5. Invoked(s, role, out) = t
    BY <1>2 DEF Invoked, Noted
  <2> HIDE DEF t
  <2> QED BY <2>4, <2>5
<1> QED BY <1>1, <1>2

\* The first fault of two is one of them, ...
LEMMA LeastOfTwo ==
  ASSUME NEW I \in SUBSET {1, 2}, I # {}
  PROVE  Min(I) \in I
<1>1. \E x \in I : \A y \in I : x <= y
  <2>1. CASE 1 \in I
    BY <2>1
  <2>2. CASE 1 \notin I
    <3>1. 2 \in I /\ \A y \in I : y = 2
      BY <2>2
    <3> QED BY <3>1
  <2> QED BY <2>1, <2>2
<1> QED BY <1>1 DEF Min

LEMMA FirstFaultIsOne ==
  ASSUME NEW f, NEW g
  PROVE  FirstFault(<<f, g>>) \in {f, g, "none"}
<1> DEFINE I == {i \in 1..Len(<<f, g>>) : <<f, g>>[i] # "none"}
<1>1. I \in SUBSET {1, 2}
  OBVIOUS
<1>2. FirstFault(<<f, g>>) = LET at == IF I # {} THEN Min(I) ELSE 0 IN IF at = 0 THEN "none" ELSE <<f, g>>[at]
  BY DEF FirstFault, SelectInSeq
<1>3. I # {} => Min(I) \in {1, 2}
  <2> HIDE DEF I
  <2> QED BY <1>1, LeastOfTwo
<1> HIDE DEF I
<1> QED BY <1>2, <1>3

\* ... and none that the service finds in an answer reads as a changed job.
LEMMA FaultsNamed ==
  ASSUME NEW facts, NEW reviews, NEW findings, NEW out, NEW criteria
  PROVE  /\ ExtractionFault(out) # "OUTDATED"
         /\ CoverageFault(facts, findings) # "OUTDATED"
         /\ RepairFault(facts, reviews, findings, out) # "OUTDATED"
         /\ GroupingFault(facts, criteria) # "OUTDATED"
<1>1. \A fs : CountFault(fs) # "OUTDATED"
  BY DEF CountFault
<1>2. \A fs, rs : ReviewFault(fs, rs) # "OUTDATED"
  BY DEF ReviewFault
<1>3. \A fs, rs : FirstFault(<<ReviewFault(fs, rs), CountFault(fs)>>) # "OUTDATED"
  BY <1>1, <1>2, FirstFaultIsOne
<1>4. \A fs, rs : FirstFault(<<CountFault(fs), ReviewFault(fs, rs)>>) # "OUTDATED"
  BY <1>1, <1>2, FirstFaultIsOne
<1>5. ExtractionFault(out) # "OUTDATED"
  BY <1>3 DEF ExtractionFault
<1>6. RepairFault(facts, reviews, findings, out) # "OUTDATED"
  BY <1>4 DEF RepairFault
<1> QED BY <1>5, <1>6 DEF CoverageFault, GroupingFault

\* A change of the job blames no call.
LEMMA CurrentFits ==
  ASSUME NEW s, NEW run, Goes(s, run), NEW changed
  PROVE  LET t == Current(s, changed) IN Shaped(t) /\ CallsFit(t, run)
<1>1. CASE ~changed
  BY <1>1 DEF Current, Goes
<1>2. CASE changed
  BY <1>2, ExceptError DEF Current, CallsFit, Goes
<1> QED BY <1>1, <1>2

\* What a call makes of the plan leaves the record alone.
LEMMA ContentFits ==
  ASSUME NEW s, NEW run, Goes(s, run), NEW facts, NEW reviews, NEW signals, NEW criteria
  PROVE  /\ Goes([s EXCEPT !.facts = facts, !.reviews = reviews, !.signals = signals], run)
         /\ Goes([s EXCEPT !.criteria = criteria], run)
<1> DEFINE t == [s EXCEPT !.facts = facts, !.reviews = reviews, !.signals = signals]
           u == [s EXCEPT !.criteria = criteria]
<1>1. Shaped(t) /\ t.calls = s.calls /\ t.error = s.error
  BY DEF Goes, Shaped
<1>2. Shaped(u) /\ u.calls = s.calls /\ u.error = s.error
  BY DEF Goes, Shaped
<1>3. \A v : Shaped(v) /\ v.calls = s.calls /\ v.error = s.error => Goes(v, run)
  BY DEF Goes, CallsFit
<1> QED BY <1>1, <1>2, <1>3

\* The answer to a call and the check of it, in a generation that has gone well so far.
LEMMA AskedAndChecked ==
  ASSUME NEW s, NEW run, Goes(s, run), Len(s.calls) < Len(RolesOf(run)), NEW out, NEW fault, fault # "OUTDATED",
         NEW role \in {"fact_extraction", "coverage_review", "local_repair", "criterion_grouping"},
         role = RolesOf(run)[Len(s.calls) + 1]
  PROVE  LET asked == Invoked(s, role, out)
             checked == IF asked.error = "none" THEN Checked(asked, fault) ELSE asked
         IN /\ Shaped(checked) /\ CallsFit(checked, run)
            /\ checked.error = "none" => Goes(checked, run)
<1> DEFINE asked == Invoked(s, role, out)
<1>1. Shaped(asked) /\ CallsFit(asked, run)
  BY InvokedFits
<1>2. CASE asked.error # "none"
  BY <1>1, <1>2
<1>3. CASE asked.error = "none"
  <2>1. Goes(asked, run)
    BY <1>1, <1>3 DEF Goes
  <2>2. Shaped(Checked(asked, fault)) /\ CallsFit(Checked(asked, fault), run)
    <3> HIDE DEF asked
    <3> QED BY <2>1, CheckedFits
  <2> QED BY <1>3, <2>2 DEF Goes
<1> QED BY <1>2, <1>3

\* The four steps of build_v4_plan_content.
LEMMA ExtractedFits ==
  ASSUME NEW s, NEW run, Goes(s, run), Len(s.calls) = 0
  PROVE  Fits(Extracted(s, run), run)
<1> DEFINE asked == Invoked(s, "fact_extraction", run.extraction)
           checked == IF asked.error = "none" THEN Checked(asked, ExtractionFault(run.extraction)) ELSE asked
<1>1. Len(s.calls) < Len(RolesOf(run)) /\ "fact_extraction" = RolesOf(run)[Len(s.calls) + 1]
  BY DEF RolesOf
<1>2. Fits(checked, run) /\ (checked.error = "none" => Goes(checked, run))
  BY <1>1, AskedAndChecked, FaultsNamed DEF Fits
<1>3. CASE checked.error # "none"
  BY <1>2, <1>3 DEF Extracted
<1>4. CASE checked.error = "none"
  <2> DEFINE content == [checked EXCEPT !.facts = Facts(run.extraction.candidates), !.reviews = run.extraction.reviews,
                                        !.signals = Codes(run.extraction.reviews)]
  <2>1. Extracted(s, run) = Current(content, run.changed = 1)
    BY <1>4 DEF Extracted
  <2> HIDE DEF checked
  <2>2. Goes(content, run)
    BY <1>2, <1>4, ContentFits
  <2> HIDE DEF content
  <2> QED BY <2>1, <2>2, CurrentFits DEF Fits
<1> QED BY <1>3, <1>4

LEMMA ReviewedFits ==
  ASSUME NEW s, NEW run, Goes(s, run), Len(s.calls) = 1
  PROVE  Fits(Reviewed(s, run), run)
<1> DEFINE asked == Invoked(s, "coverage_review", run.coverage)
           checked == IF asked.error = "none" THEN Checked(asked, CoverageFault(s.facts, run.coverage.findings)) ELSE asked
<1>1. Len(s.calls) < Len(RolesOf(run)) /\ "coverage_review" = RolesOf(run)[Len(s.calls) + 1]
  BY DEF RolesOf
<1>2. Fits(checked, run) /\ (checked.error = "none" => Goes(checked, run))
  BY <1>1, AskedAndChecked, FaultsNamed DEF Fits
<1>3. CASE ~(checked.error = "none" /\ run.coverage.findings = <<>>)
  BY <1>2, <1>3 DEF Reviewed
<1>4. CASE checked.error = "none" /\ run.coverage.findings = <<>>
  <2>1. Reviewed(s, run) = Current(checked, run.changed = 2)
    BY <1>4 DEF Reviewed
  <2> HIDE DEF checked
  <2> QED BY <1>2, <1>4, <2>1, CurrentFits DEF Fits
<1> QED BY <1>3, <1>4

LEMMA RepairedFits ==
  ASSUME NEW s, NEW run, Goes(s, run), run.coverage.findings # <<>>, Len(s.calls) = 2
  PROVE  Fits(Repaired4(s, run), run)
<1> DEFINE findings == run.coverage.findings
           asked == Invoked(s, "local_repair", run.repair)
           checked == IF asked.error = "none"
                      THEN Checked(asked, RepairFault(s.facts, s.reviews, findings, run.repair)) ELSE asked
<1>1. Len(s.calls) < Len(RolesOf(run)) /\ "local_repair" = RolesOf(run)[Len(s.calls) + 1]
  BY DEF RolesOf
<1>2. Fits(checked, run) /\ (checked.error = "none" => Goes(checked, run))
  BY <1>1, AskedAndChecked, FaultsNamed DEF Fits
<1>3. CASE checked.error # "none"
  BY <1>2, <1>3 DEF Repaired4
<1>4. CASE checked.error = "none"
  <2> DEFINE content == [checked EXCEPT !.facts = Facts(RepairedGroups(s.facts, findings, run.repair)),
                                        !.reviews = RepairedReviews(checked.reviews, run.repair),
                                        !.signals = Resigned(checked.signals, run.repair)]
  <2>1. Repaired4(s, run) = Current(content, run.changed = 2)
    BY <1>4 DEF Repaired4
  <2> HIDE DEF checked
  <2>2. Goes(content, run)
    BY <1>2, <1>4, ContentFits
  <2> HIDE DEF content
  <2> QED BY <2>1, <2>2, CurrentFits DEF Fits
<1> QED BY <1>3, <1>4

LEMMA GroupedFits ==
  ASSUME NEW s, NEW run, NEW criteria, Goes(s, run),
         Len(s.calls) = IF run.coverage.findings = <<>> THEN 2 ELSE 3
  PROVE  Fits(Grouped(s, run, criteria), run)
<1> DEFINE asked == Invoked(s, "criterion_grouping", run.grouping)
           checked == IF asked.error = "none" THEN Checked(asked, GroupingFault(s.facts, criteria)) ELSE asked
<1>1. Len(s.calls) < Len(RolesOf(run)) /\ "criterion_grouping" = RolesOf(run)[Len(s.calls) + 1]
  BY DEF RolesOf
<1>2. Fits(checked, run) /\ (checked.error = "none" => Goes(checked, run))
  BY <1>1, AskedAndChecked, FaultsNamed DEF Fits
<1>3. CASE checked.error # "none"
  BY <1>2, <1>3 DEF Grouped
<1>4. CASE checked.error = "none"
  <2> DEFINE content == [checked EXCEPT !.criteria = criteria]
         current == Current(content, run.changed = 3)
         large == IF OutputTooLarge(s.facts, criteria) THEN "OUTPUT_TOO_LARGE" ELSE "none"
  <2>1. Grouped(s, run, criteria) = IF current.error = "none" THEN Checked(current, large) ELSE current
    BY <1>4 DEF Grouped
  <2> HIDE DEF checked
  <2>2. Goes(content, run)
    BY <1>2, <1>4, ContentFits
  <2> HIDE DEF content
  <2>3. Shaped(current) /\ CallsFit(current, run)
    BY <2>2, CurrentFits
  <2>4. large # "OUTDATED"
    OBVIOUS
  <2> HIDE DEF current, large
  <2>5. current.error = "none" => Shaped(Checked(current, large)) /\ CallsFit(Checked(current, large), run)
    BY <2>3, <2>4, CheckedFits DEF Goes
  <2> QED BY <2>1, <2>3, <2>5 DEF Fits
<1> QED BY <1>3, <1>4

\* The last role asked tells how many calls there were.
LEMMA LastRole ==
  ASSUME NEW s, NEW run, Fits(s, run)
  PROVE  /\ Asked(s) = "none" => Len(s.calls) = 0
         /\ Asked(s) = "fact_extraction" => Len(s.calls) = 1
         /\ Asked(s) = "coverage_review" => Len(s.calls) = 2
         /\ Asked(s) = "local_repair" => run.coverage.findings # <<>> /\ Len(s.calls) = 3
         /\ Asked(s) = "criterion_grouping" => Len(s.calls) = Len(RolesOf(run))
<1> DEFINE n == Len(s.calls)
<1>1. s.calls \in Seq(CallType) /\ n \in Nat /\ n <= Len(RolesOf(run)) /\ (s.calls = <<>> <=> n = 0)
  BY DEF Fits, CallsFit
<1>2. CASE n = 0
  BY <1>1, <1>2 DEF Asked
<1>3. CASE n # 0
  <2>1. n \in 1..n
    BY <1>1, <1>3
  <2>2. Asked(s) = RolesOf(run)[n]
    BY <1>1, <1>3, <2>1 DEF Asked, Last, Fits, CallsFit
  <2>3. CASE run.coverage.findings = <<>>
    <3>1. RolesOf(run) = <<"fact_extraction", "coverage_review", "criterion_grouping">>
      BY <2>3 DEF RolesOf
    <3>2. n = 1 \/ n = 2 \/ n = 3
      <4>1. Len(RolesOf(run)) = 3
        BY <3>1
      <4> HIDE DEF n
      <4> QED BY <1>1, <1>3, <4>1
    <3>3. CASE n = 1
      BY <2>2, <3>1, <3>3
    <3>4. CASE n = 2
      BY <2>2, <3>1, <3>4
    <3>5. CASE n = 3
      BY <2>2, <3>1, <3>5
    <3> QED BY <3>2, <3>3, <3>4, <3>5
  <2>4. CASE run.coverage.findings # <<>>
    <3>1. RolesOf(run) = <<"fact_extraction", "coverage_review", "local_repair", "criterion_grouping">>
      BY <2>4 DEF RolesOf
    <3>2. n = 1 \/ n = 2 \/ n = 3 \/ n = 4
      <4>1. Len(RolesOf(run)) = 4
        BY <3>1
      <4> HIDE DEF n
      <4> QED BY <1>1, <1>3, <4>1
    <3>3. CASE n = 1
      BY <2>2, <3>1, <3>3
    <3>4. CASE n = 2
      BY <2>2, <3>1, <3>4
    <3>5. CASE n = 3
      BY <2>2, <2>4, <3>1, <3>5
    <3>6. CASE n = 4
      BY <2>2, <3>1, <3>6
    <3> QED BY <3>2, <3>3, <3>4, <3>5, <3>6
  <2> QED BY <2>3, <2>4
<1> QED BY <1>2, <1>3

\* What a record that fits says to a reader of it.
LEMMA FitsIsRecorded ==
  ASSUME NEW s, NEW run, Fits(s, run)
  PROVE  CallsRecorded(s, run)
<1> DEFINE n == Len(s.calls)
           full == RolesOf(run)
           roles == [i \in 1..n |-> s.calls[i].role]
           Roles == {"fact_extraction", "coverage_review", "local_repair", "criterion_grouping"}
           Failures == {i \in 1..n : s.calls[i].result = "failed"}
<1>1. s.calls \in Seq(CallType) /\ n \in Nat /\ n <= Len(full) /\ (s.calls = <<>> <=> n = 0)
  BY DEF Fits, CallsFit
<1>2. \A i \in 1..n : roles[i] = full[i]
  BY DEF Fits, CallsFit
<1>3. full \in Seq(Roles) /\ Len(full) \in Nat
  <2>1. CASE run.coverage.findings = <<>>
    <3>1. full = <<"fact_extraction", "coverage_review", "criterion_grouping">>
      BY <2>1 DEF RolesOf
    <3> HIDE DEF full
    <3> QED BY <3>1
  <2>2. CASE run.coverage.findings # <<>>
    <3>1. full = <<"fact_extraction", "coverage_review", "local_repair", "criterion_grouping">>
      BY <2>2 DEF RolesOf
    <3> HIDE DEF full
    <3> QED BY <3>1
  <2> QED BY <2>1, <2>2
<1>4. roles \in Seq(Roles) /\ Len(roles) = n
  <2>1. roles \in [1..n -> Roles]
    <3>1. \A i \in 1..n : full[i] \in Roles
      BY <1>1, <1>3
    <3> HIDE DEF full
    <3> QED BY <1>2, <3>1
  <2> HIDE DEF roles, n
  <2> QED BY <1>1, <2>1, SequenceIs
<1>5. IsPrefix(roles, full)
  <2> HIDE DEF roles, full, n
  <2>1. SubSeq(roles, 1, n) = SubSeq(full, 1, n)
    BY <1>1, <1>2, <1>3, <1>4
  <2> QED BY <1>1, <1>4, <2>1 DEF IsPrefix
<1>6. Made(s) => roles = full
  <2>1. SUFFICES ASSUME Made(s) PROVE roles = full
    OBVIOUS
  <2>2. n = Len(full)
    BY <2>1, LastRole DEF Made
  <2> HIDE DEF roles, full, n
  <2> QED BY <1>2, <1>3, <1>4, <2>2
<1>7. Failures = IF s.error \in {"none", "OUTDATED"} \/ s.calls = <<>> THEN {} ELSE {n}
  <2>1. \A i \in 1..n : s.calls[i].result = "failed" <=> i = n /\ s.error \notin {"none", "OUTDATED"}
    BY DEF Fits, CallsFit
  <2> HIDE DEF n
  <2> QED BY <1>1, <2>1
<1> QED BY <1>5, <1>6, <1>7 DEF CallsRecorded, RolesOf

-----------------------------------------------------------------------------
(* What an answer says of the units *)

\* A unit has facts when one of them quotes it.
LEMMA UnitHasFacts ==
  ASSUME NEW facts, NEW u
  PROVE  FactsIn(facts, u) # {} <=> \E x \in Pairs(facts) : x[1] = u
BY SomeSource DEF FactsIn, UnitsOf

\* The candidates of an answer quote the units it reviews, and those that it says have some.
LEMMA CitedUnits ==
  ASSUME NEW out, Cites(out)
  PROVE  /\ \A x \in Pairs(out.candidates) : Found(x) /\ x[1] \in DOMAIN out.reviews
         /\ \A u \in DOMAIN out.reviews : out.reviews[u].candidates # {} <=> \E x \in Pairs(out.candidates) : x[1] = u
<1> DEFINE n == Len(out.candidates)
           c == out.candidates
<1>1. /\ \A i \in 1..n : \A x \in c[i].sources : Found(x)
      /\ \A i \in 1..n : \A u : u \in UnitsOf(c[i].sources) <=> u \in DOMAIN out.reviews /\ i \in out.reviews[u].candidates
      /\ \A u \in DOMAIN out.reviews : \A i \in out.reviews[u].candidates : i \in 1..n
  BY DEF Cites
<1>2. \A x : x \in Pairs(c) <=> \E i \in 1..n : x \in c[i].sources
  BY SomeSource
<1>3. \A sources : \A u : u \in UnitsOf(sources) <=> \E x \in sources : x[1] = u
  BY DEF UnitsOf
<1> HIDE DEF n, c
<1>4. ASSUME NEW x \in Pairs(c) PROVE Found(x) /\ x[1] \in DOMAIN out.reviews
  <2>1. PICK i \in 1..n : x \in c[i].sources
    BY <1>2
  <2>2. x[1] \in UnitsOf(c[i].sources)
    BY <1>3, <2>1
  <2> QED BY <1>1, <2>1, <2>2
<1>5. ASSUME NEW u \in DOMAIN out.reviews
      PROVE  out.reviews[u].candidates # {} <=> \E x \in Pairs(c) : x[1] = u
  <2>1. ASSUME NEW i \in out.reviews[u].candidates PROVE \E x \in Pairs(c) : x[1] = u
    <3>1. i \in 1..n /\ u \in UnitsOf(c[i].sources)
      BY <1>1
    <3> QED BY <1>2, <1>3, <3>1
  <2>2. ASSUME NEW x \in Pairs(c), x[1] = u PROVE out.reviews[u].candidates # {}
    <3>1. PICK i \in 1..n : x \in c[i].sources
      BY <1>2
    <3>2. u \in UnitsOf(c[i].sources)
      BY <1>3, <2>2, <3>1
    <3> QED BY <1>1, <3>1, <3>2
  <2> QED BY <2>1, <2>2
<1> QED BY <1>4, <1>5 DEF c

\* The plan so far says of each unit either its facts or why it has none, quotes nothing
\* else than the units, and carries the signals of what it says.
Whole(facts, reviews, signals) ==
  /\ FactsFormed(facts) /\ CountFault(facts) = "none"
  /\ \A x \in Pairs(facts) : Found(x)
  /\ DOMAIN reviews = UnitIds
  /\ \A u \in UnitIds : ReviewFormed(reviews[u]) /\ (reviews[u].reason <=> FactsIn(facts, u) = {})
  /\ DOMAIN signals = UnitIds /\ \A u \in UnitIds : signals[u] = reviews[u].codes

\* Two checks find nothing.
LEMMA NoFaultOfTwo ==
  ASSUME NEW f, NEW g
  PROVE  FirstFault(<<f, g>>) = "none" <=> f = "none" /\ g = "none"
<1> DEFINE faults == <<f, g>>
           I == {i \in 1..Len(faults) : faults[i] # "none"}
<1>1. I \in SUBSET {1, 2} /\ (1 \in I <=> f # "none") /\ (2 \in I <=> g # "none")
  OBVIOUS
<1>2. FirstFault(faults) = LET at == IF I # {} THEN Min(I) ELSE 0 IN IF at = 0 THEN "none" ELSE faults[at]
  BY DEF FirstFault, SelectInSeq
<1>3. I # {} => Min(I) \in I
  <2> HIDE DEF I
  <2> QED BY <1>1, LeastOfTwo
<1>4. \A i \in I : i # 0 /\ faults[i] # "none"
  OBVIOUS
<1>5. I = {} <=> f = "none" /\ g = "none"
  <2> HIDE DEF I
  <2> QED BY <1>1
<1> HIDE DEF I, faults
<1>6. FirstFault(faults) = "none" <=> I = {}
  BY <1>2, <1>3, <1>4
<1> QED BY <1>5, <1>6 DEF faults

\* What the extraction answers, once its checks found nothing.
LEMMA ExtractedWhole ==
  ASSUME NEW run, IsRun(run), LET out == run.extraction IN OutputFormed(out) /\ DOMAIN out.reviews = UnitIds /\ Cites(out)
  PROVE  LET out == run.extraction
             facts == Facts(out.candidates)
         IN /\ ReviewFault(facts, out.reviews) = "none"
            /\ CountFault(facts) = "none" => Whole(facts, out.reviews, Codes(out.reviews))
<1> DEFINE out == run.extraction
           facts == Facts(out.candidates)
<1>1. out.candidates \in Seq(Group)
  <2>1. out.candidates \in Seq(Candidate) /\ \A i \in 1..Len(out.candidates) : out.candidates[i].sources # {}
    BY DEF IsRun, OutputFormed
  <2> DEFINE c == out.candidates
  <2>2. \A i \in 1..Len(c) : c[i] \in Group
    <3>1. \A i \in 1..Len(c) : c[i] \in Candidate
      BY <2>1
    <3> QED BY <2>1, <3>1 DEF Candidate, Group
  <2>3. c \in Seq(Candidate)
    BY <2>1
  <2> HIDE DEF c
  <2>4. c \in Seq(Group)
    BY <2>2, <2>3
  <2> QED BY <2>4 DEF c
<1>2. FactsFormed(facts) /\ Pairs(facts) = Pairs(out.candidates)
  BY <1>1, FactsKeep
<1>3. \A u \in UnitIds : ReviewFormed(out.reviews[u])
  BY DEF OutputFormed
<1>4. /\ \A x \in Pairs(out.candidates) : Found(x)
      /\ \A u \in UnitIds : out.reviews[u].candidates # {} <=> \E x \in Pairs(out.candidates) : x[1] = u
  BY CitedUnits
<1> HIDE DEF facts
<1>5. \A u \in UnitIds : out.reviews[u].reason <=> FactsIn(facts, u) = {}
  BY <1>2, <1>3, <1>4, UnitHasFacts DEF ReviewFormed
<1>6. ReviewFault(facts, out.reviews) = "none"
  BY <1>5 DEF ReviewFault
<1>8. DOMAIN Codes(out.reviews) = UnitIds /\ \A u \in UnitIds : Codes(out.reviews)[u] = out.reviews[u].codes
  BY DEF Codes
<1>9. CountFault(facts) = "none" => Whole(facts, out.reviews, Codes(out.reviews))
  BY <1>2, <1>3, <1>4, <1>5, <1>8 DEF Whole
<1> QED BY <1>6, <1>9 DEF facts

\* What the repair leaves of a plan, once its checks found nothing: the failed units are
\* said anew, and the others as before.
RepairScoped(facts, findings, out) ==
  /\ OutputFormed(out) /\ Cites(out) /\ DOMAIN out.reviews = FailedUnits(findings)
  /\ \A k \in 1..Len(out.candidates) :
       /\ out.candidates[k].into \in Related(facts, findings) \cup {0}
       /\ UnitsOf(out.candidates[k].sources) \subseteq FailedUnits(findings)

\* The facts that a repair may replace are facts of the plan.
LEMMA RelatedFacts ==
  ASSUME NEW facts, NEW findings, \A f \in Range(findings) : f.facts \subseteq 1..Len(facts)
  PROVE  Related(facts, findings) \subseteq 1..Len(facts)
<1> DEFINE told == UNION {f.facts : f \in Range(findings)}
           hit == {i \in 1..Len(facts) : UnitsOf(facts[i].sources) \cap FailedUnits(findings) # {}}
<1>1. told \subseteq 1..Len(facts)
  <2> DEFINE found == Range(findings)
  <2> HIDE DEF found
  <2>1. \A f \in found : f.facts \subseteq 1..Len(facts)
    BY DEF found
  <2>2. UNION {f.facts : f \in found} \subseteq 1..Len(facts)
    BY <2>1
  <2> QED BY <2>2 DEF found
<1>2. hit \subseteq 1..Len(facts)
  OBVIOUS
<1>3. Related(facts, findings) = told \cup hit
  BY DEF Related
<1> HIDE DEF told, hit
<1> QED BY <1>1, <1>2, <1>3

LEMMA RepairedWhole ==
  ASSUME NEW run, IsRun(run), NEW facts, NEW reviews, NEW signals, Whole(facts, reviews, signals),
         CoverageFault(facts, run.coverage.findings) = "none",
         RepairScoped(facts, run.coverage.findings, run.repair)
  PROVE  LET out == run.repair
             repaired == Facts(RepairedGroups(facts, run.coverage.findings, out))
             kept == RepairedReviews(reviews, out)
         IN /\ ReviewFault(repaired, kept) = "none"
            /\ CountFault(repaired) = "none" => Whole(repaired, kept, Resigned(signals, out))
            /\ Pairs(repaired) = {x \in Pairs(facts) : x[1] \notin FailedUnits(run.coverage.findings)}
                                 \cup Pairs(out.candidates)
<1> DEFINE out == run.repair
           c == out.candidates
           n == Len(c)
           findings == run.coverage.findings
           failed == FailedUnits(findings)
           groups == RepairedGroups(facts, findings, out)
           repaired == Facts(groups)
           kept == RepairedReviews(reviews, out)
           resigned == Resigned(signals, out)
<1>1. c \in Seq(Replacement)
  <2> DEFINE Repair == [category : Nat, sources : SUBSET Source, into : Nat]
  <2>1. c \in Seq(Repair) /\ \A i \in 1..Len(c) : c[i].sources # {}
    BY DEF IsRun, RepairScoped, OutputFormed
  <2> HIDE DEF c
  <2>2. \A i \in 1..Len(c) : c[i] \in Repair
    <3> HIDE DEF Repair
    <3> QED BY <2>1
  <2>3. \A i \in 1..Len(c) : c[i] \in Replacement
    BY <2>1, <2>2 DEF Replacement
  <2> HIDE DEF Repair
  <2> QED BY <2>1, <2>3
<1>2. CoverageFormed(findings) /\ \A f \in Range(findings) : f.units \subseteq UnitIds /\ f.facts \subseteq 1..Len(facts)
  BY DEF CoverageFault
<1>3. failed \subseteq UnitIds
  BY <1>2 DEF FailedUnits
<1>4. Related(facts, findings) \subseteq 1..Len(facts)
  BY <1>2, RelatedFacts
<1>5. FactsFormed(facts)
  BY DEF Whole
<1>6. /\ groups \in Seq(Group)
      /\ Pairs(groups) = {x \in Pairs(facts) : x[1] \notin failed} \cup Pairs(c)
  <2>1. \A k \in 1..n : c[k].into \in (1..Len(facts)) \cup {0}
    BY <1>4 DEF RepairScoped
  <2> QED BY <1>1, <1>5, <2>1, RepairedKeep
<1> HIDE DEF groups
<1>7. FactsFormed(repaired) /\ Pairs(repaired) = {x \in Pairs(facts) : x[1] \notin failed} \cup Pairs(c)
  BY <1>6, FactsKeep
<1> HIDE DEF repaired
<1>8. /\ \A x \in Pairs(c) : Found(x) /\ x[1] \in failed
      /\ \A u \in failed : out.reviews[u].candidates # {} <=> \E x \in Pairs(c) : x[1] = u
  BY CitedUnits DEF RepairScoped
<1>9. \A u \in UnitIds : kept[u] = IF u \in failed THEN out.reviews[u] ELSE reviews[u]
  BY DEF RepairedReviews, RepairScoped
<1>10. DOMAIN kept = UnitIds
  BY DEF RepairedReviews
<1>11. \A u \in failed : ReviewFormed(out.reviews[u])
  BY DEF RepairScoped, OutputFormed
<1>12. DOMAIN resigned = UnitIds /\ \A u \in UnitIds : resigned[u] = IF u \in failed THEN out.reviews[u].codes ELSE signals[u]
  <2>1. DOMAIN signals = UnitIds /\ DOMAIN out.reviews = failed
    BY DEF Whole, RepairScoped
  <2>2. UnitIds \cup failed = UnitIds
    BY <1>3
  <2> QED BY <2>1, <2>2 DEF Resigned
<1> HIDE DEF failed, kept, resigned, c
<1>13. ASSUME NEW u \in UnitIds PROVE ReviewFormed(kept[u]) /\ (kept[u].reason <=> FactsIn(repaired, u) = {})
  <2>1. FactsIn(repaired, u) # {} <=> \E x \in Pairs(repaired) : x[1] = u
    BY UnitHasFacts
  <2>2. CASE u \in failed
    <3>1. (\E x \in Pairs(repaired) : x[1] = u) <=> \E x \in Pairs(c) : x[1] = u
      BY <1>7, <2>2
    <3>2. kept[u] = out.reviews[u] /\ ReviewFormed(kept[u])
      BY <1>9, <1>11, <2>2
    <3>3. kept[u].reason <=> kept[u].candidates = {}
      BY <3>2 DEF ReviewFormed
    <3> QED BY <1>8, <2>1, <2>2, <3>1, <3>2, <3>3
  <2>3. CASE u \notin failed
    <3>1. (\E x \in Pairs(repaired) : x[1] = u) <=> \E x \in Pairs(facts) : x[1] = u
      BY <1>7, <1>8, <2>3
    <3>2. FactsIn(facts, u) # {} <=> \E x \in Pairs(facts) : x[1] = u
      BY UnitHasFacts
    <3>3. kept[u] = reviews[u] /\ ReviewFormed(reviews[u]) /\ (reviews[u].reason <=> FactsIn(facts, u) = {})
      BY <1>9, <2>3 DEF Whole
    <3> QED BY <2>1, <3>1, <3>2, <3>3
  <2> QED BY <2>2, <2>3
<1>14. ReviewFault(repaired, kept) = "none"
  BY <1>13 DEF ReviewFault
<1>15. \A x \in Pairs(repaired) : Found(x)
  BY <1>7, <1>8 DEF Whole
<1>16. \A u \in UnitIds : resigned[u] = kept[u].codes
  BY <1>9, <1>12 DEF Whole
<1>17. CountFault(repaired) = "none" => Whole(repaired, kept, resigned)
  BY <1>7, <1>10, <1>12, <1>13, <1>15, <1>16 DEF Whole
<1> QED BY <1>7, <1>14, <1>17 DEF repaired, groups, kept, resigned, failed, c

-----------------------------------------------------------------------------
(* What is made of the plan at each call *)

Complete(s) == {"error", "calls", "facts", "reviews", "signals", "criteria"} \subseteq DOMAIN s
SameContent(t, s) ==
  t.facts = s.facts /\ t.reviews = s.reviews /\ t.signals = s.signals /\ t.criteria = s.criteria

LEMMA CallsReplaced ==
  ASSUME NEW s, Complete(s), NEW calls
  PROVE  LET t == [s EXCEPT !.calls = calls]
         IN Complete(t) /\ SameContent(t, s) /\ t.calls = calls /\ t.error = s.error
BY DEF Complete, SameContent

LEMMA ErrorReplaced ==
  ASSUME NEW s, Complete(s), NEW error
  PROVE  LET t == [s EXCEPT !.error = error]
         IN Complete(t) /\ SameContent(t, s) /\ t.calls = s.calls /\ t.error = error
BY DEF Complete, SameContent

\* A check that finds nothing changes nothing, and one that does leaves its fault.
LEMMA CheckedContent ==
  ASSUME NEW s, Complete(s), NEW fault
  PROVE  /\ Complete(Checked(s, fault))
         /\ fault = "none" => Checked(s, fault) = s
         /\ fault # "none" => Checked(s, fault).error = fault
BY DEF Checked, Complete

\* The record of a call that was made names its role last.
LEMMA NotedContent ==
  ASSUME NEW s, Complete(s), s.calls \in Seq(CallType), NEW code, NEW retries \in {0, 1},
         NEW role \in {"fact_extraction", "coverage_review", "local_repair", "criterion_grouping"}
  PROVE  LET t == Noted(s, role, code, retries)
         IN Complete(t) /\ SameContent(t, s) /\ t.error = code /\ Asked(t) = role
<1> DEFINE call == [role |-> role, result |-> IF code = "none" THEN "succeeded" ELSE "failed", retries |-> retries]
           calls == Append(s.calls, call)
           u == [s EXCEPT !.calls = calls]
           t == Noted(s, role, code, retries)
<1>1. call \in CallType /\ call.role = role
  BY DEF CallType
<1>2. Recorded(s, role, call.result, retries) = u
  BY DEF Recorded
<1>3. t = [u EXCEPT !.error = code]
  <2> HIDE DEF u
  <2> QED BY <1>2 DEF Noted
<1> HIDE DEF call, t
<1>4. calls # <<>> /\ Last(calls) = call
  <2>1. Len(s.calls) \in Nat /\ Len(calls) = Len(s.calls) + 1 /\ calls[Len(s.calls) + 1] = call
    BY <1>1
  <2> HIDE DEF calls
  <2>2. calls # <<>>
    BY <2>1
  <2> QED BY <2>1, <2>2 DEF Last
<1> HIDE DEF calls
<1>5. Complete(u) /\ SameContent(u, s) /\ u.calls = calls
  BY CallsReplaced
<1> HIDE DEF u
<1>6. Complete(t) /\ SameContent(t, u) /\ t.calls = calls /\ t.error = code
  BY <1>3, <1>5, ErrorReplaced
<1>7. Asked(t) = role
  BY <1>1, <1>4, <1>6 DEF Asked
<1> QED BY <1>5, <1>6, <1>7 DEF SameContent, t

\* A call and the check of its answer: when neither finds a fault the plan is as before.
LEMMA AskedContent ==
  ASSUME NEW s, Complete(s), s.calls \in Seq(CallType), s.error = "none", NEW out, NEW fault, fault # "REVIEW_LOST",
         NEW role \in {"fact_extraction", "coverage_review", "local_repair", "criterion_grouping"}
  PROVE  LET asked == Invoked(s, role, out)
             checked == IF asked.error = "none" THEN Checked(asked, fault) ELSE asked
         IN /\ Complete(checked) /\ checked.error # "REVIEW_LOST"
            /\ checked.error = "none" => fault = "none" /\ SameContent(checked, s) /\ Asked(checked) = role
<1> DEFINE retried == Retryable(ErrorOf(out.first))
           error == ErrorOf(IF retried THEN out.second ELSE out.first)
           code == IF error = "none" /\ ~out.valid THEN "INVALID_MODEL_OUTPUT" ELSE error
           asked == Invoked(s, role, out)
           checked == IF asked.error = "none" THEN Checked(asked, fault) ELSE asked
<1>1. Complete(asked) /\ asked.error # "REVIEW_LOST"
      /\ (asked.error = "none" => SameContent(asked, s) /\ Asked(asked) = role)
  <2>1. CASE out.large
    <3>1. asked = Checked(s, "INPUT_TOO_LARGE")
      BY <2>1 DEF Invoked
    <3> HIDE DEF asked
    <3> QED BY <3>1, CheckedContent
  <2>2. CASE ~out.large
    <3>1. \A reply : ErrorOf(reply) # "REVIEW_LOST"
      BY DEF ErrorOf
    <3>2. code # "REVIEW_LOST"
      BY <3>1
    <3>3. (IF retried THEN 1 ELSE 0) \in {0, 1}
      OBVIOUS
    <3>4. asked = Noted(s, role, code, IF retried THEN 1 ELSE 0)
      BY <2>2 DEF Invoked, Noted
    <3> HIDE DEF asked, code, retried
    <3> QED BY <3>2, <3>3, <3>4, NotedContent
  <2> QED BY <2>1, <2>2
<1> HIDE DEF asked
<1>2. CASE asked.error # "none"
  BY <1>1, <1>2 DEF asked
<1>3. CASE asked.error = "none"
  <2>1. checked = Checked(asked, fault)
    BY <1>3
  <2>2. /\ Complete(Checked(asked, fault))
        /\ fault = "none" => Checked(asked, fault) = asked
        /\ fault # "none" => Checked(asked, fault).error = fault
    BY <1>1, CheckedContent
  <2> HIDE DEF checked
  <2>3. /\ Complete(checked) /\ checked.error # "REVIEW_LOST"
        /\ checked.error = "none" => fault = "none" /\ SameContent(checked, s) /\ Asked(checked) = role
    BY <1>1, <1>3, <2>1, <2>2
  <2> QED BY <2>3 DEF checked, asked
<1> QED BY <1>2, <1>3

LEMMA CurrentContent ==
  ASSUME NEW s, Complete(s), s.error = "none", NEW changed
  PROVE  LET t == Current(s, changed)
         IN Complete(t) /\ t.error # "REVIEW_LOST" /\ (t.error = "none" => t = s)
<1>1. CASE changed
  <2> DEFINE t == [s EXCEPT !.error = "OUTDATED"]
  <2>1. Complete(t) /\ t.error = "OUTDATED"
    BY ErrorReplaced
  <2>2. Current(s, changed) = t
    BY <1>1 DEF Current
  <2> HIDE DEF t
  <2> QED BY <2>1, <2>2
<1>2. CASE ~changed
  BY <1>2 DEF Current
<1> QED BY <1>1, <1>2

WithContent(s, facts, reviews, signals) == [s EXCEPT !.facts = facts, !.reviews = reviews, !.signals = signals]
WithCriteria(s, criteria) == [s EXCEPT !.criteria = criteria]

LEMMA NewContent ==
  ASSUME NEW s, Complete(s), NEW facts, NEW reviews, NEW signals
  PROVE  LET t == WithContent(s, facts, reviews, signals)
         IN /\ Complete(t) /\ t.error = s.error /\ Asked(t) = Asked(s)
            /\ t.facts = facts /\ t.reviews = reviews /\ t.signals = signals
<1> DEFINE t == WithContent(s, facts, reviews, signals)
<1>1. /\ Complete(t) /\ t.error = s.error /\ t.calls = s.calls
      /\ t.facts = facts /\ t.reviews = reviews /\ t.signals = signals
  BY DEF Complete, WithContent
<1> HIDE DEF t
<1>2. Asked(t) = Asked(s)
  BY <1>1 DEF Asked
<1> QED BY <1>1, <1>2 DEF t

LEMMA NewCriteria ==
  ASSUME NEW s, Complete(s), NEW criteria
  PROVE  LET t == WithCriteria(s, criteria)
         IN /\ Complete(t) /\ t.error = s.error /\ Asked(t) = Asked(s) /\ t.criteria = criteria
            /\ t.facts = s.facts /\ t.reviews = s.reviews /\ t.signals = s.signals
<1> DEFINE t == WithCriteria(s, criteria)
<1>1. /\ Complete(t) /\ t.error = s.error /\ t.calls = s.calls /\ t.criteria = criteria
      /\ t.facts = s.facts /\ t.reviews = s.reviews /\ t.signals = s.signals
  BY DEF Complete, WithCriteria
<1> HIDE DEF t
<1>2. Asked(t) = Asked(s)
  BY <1>1 DEF Asked
<1> QED BY <1>1, <1>2 DEF t

\* What a repair makes of the facts extracted.
Replaced(facts, run) ==
  Pairs(facts) = {x \in Pairs(Facts(run.extraction.candidates)) : x[1] \notin FailedUnits(run.coverage.findings)}
                 \cup Pairs(run.repair.candidates)

\* The plan at each call: whole from the extraction on, as extracted until the repair, that
\* has found every finding within the plan, and grouped at the end.
Stage(s, run) ==
  /\ Asked(s) # "none" => Whole(s.facts, s.reviews, s.signals)
  /\ Asked(s) \in {"fact_extraction", "coverage_review"} => s.facts = Facts(run.extraction.candidates)
  /\ Asked(s) = "coverage_review" => CoverageFault(s.facts, run.coverage.findings) = "none"
  /\ Asked(s) \in {"local_repair", "criterion_grouping"} /\ run.coverage.findings # <<>> => Replaced(s.facts, run)
  /\ Asked(s) = "criterion_grouping" => s.criteria \in Seq(Seq(Nat)) /\ GroupingFault(s.facts, s.criteria) = "none"

Sound(s, run) == Complete(s) /\ s.error # "REVIEW_LOST" /\ (s.error = "none" => Stage(s, run))

\* The fault that ends an extraction or a repair is never a unit that was lost.
LEMMA NothingLost ==
  ASSUME NEW run, IsRun(run)
  PROVE  /\ ExtractionFault(run.extraction) # "REVIEW_LOST"
         /\ ExtractionFault(run.extraction) = "none"
              => LET out == run.extraction IN Whole(Facts(out.candidates), out.reviews, Codes(out.reviews))
<1> DEFINE out == run.extraction
           facts == Facts(out.candidates)
           faulty == ReviewFault(facts, out.reviews)
           count == CountFault(facts)
<1>1. SUFFICES ASSUME OutputFormed(out), DOMAIN out.reviews = UnitIds, Cites(out)
               PROVE  /\ FirstFault(<<faulty, count>>) # "REVIEW_LOST"
                      /\ FirstFault(<<faulty, count>>) = "none" => Whole(facts, out.reviews, Codes(out.reviews))
  BY DEF ExtractionFault
<1>2. faulty = "none" /\ (count = "none" => Whole(facts, out.reviews, Codes(out.reviews)))
  BY <1>1, ExtractedWhole
<1>3. count # "REVIEW_LOST"
  BY DEF CountFault
<1> HIDE DEF out, facts, faulty, count
<1>4. FirstFault(<<faulty, count>>) \in {faulty, count, "none"} /\ (FirstFault(<<faulty, count>>) = "none" <=> faulty = "none" /\ count = "none")
  BY FirstFaultIsOne, NoFaultOfTwo
<1> QED BY <1>2, <1>3, <1>4

LEMMA NothingLostInRepair ==
  ASSUME NEW run, IsRun(run), NEW facts, NEW reviews, NEW signals, Whole(facts, reviews, signals),
         CoverageFault(facts, run.coverage.findings) = "none"
  PROVE  LET findings == run.coverage.findings
             out == run.repair
             fault == RepairFault(facts, reviews, findings, out)
             repaired == Facts(RepairedGroups(facts, findings, out))
         IN /\ fault # "REVIEW_LOST"
            /\ fault = "none" => /\ Whole(repaired, RepairedReviews(reviews, out), Resigned(signals, out))
                                 /\ Pairs(repaired) = {x \in Pairs(facts) : x[1] \notin FailedUnits(findings)}
                                                      \cup Pairs(out.candidates)
<1> DEFINE findings == run.coverage.findings
           out == run.repair
           fault == RepairFault(facts, reviews, findings, out)
           repaired == Facts(RepairedGroups(facts, findings, out))
           kept == RepairedReviews(reviews, out)
           count == CountFault(repaired)
           faulty == ReviewFault(repaired, kept)
           anew == {x \in Pairs(facts) : x[1] \notin FailedUnits(findings)} \cup Pairs(out.candidates)
<1>1. CASE ~RepairScoped(facts, findings, out)
  <2>1. \/ ~OutputFormed(out) \/ ~Cites(out) \/ DOMAIN out.reviews # FailedUnits(findings)
        \/ \E k \in 1..Len(out.candidates) : \/ out.candidates[k].into \notin Related(facts, findings) \cup {0}
                                             \/ ~(UnitsOf(out.candidates[k].sources) \subseteq FailedUnits(findings))
    BY <1>1 DEF RepairScoped
  <2>2. \A k \in 1..Len(out.candidates) : out.candidates[k] \in Range(out.candidates)
    <3>1. DOMAIN out.candidates = 1..Len(out.candidates)
      BY DEF IsRun
    <3> QED BY <3>1 DEF Range
  <2>3. fault \in {"INVALID_MODEL_OUTPUT", "REPAIR_UNRESOLVED", "REPAIR_SCOPE_INVALID", "REPAIR_INVALID"}
    BY <2>1, <2>2 DEF RepairFault
  <2> HIDE DEF fault
  <2>4. fault # "REVIEW_LOST" /\ fault # "none"
    BY <2>3
  <2> QED BY <2>4 DEF fault
<1>2. CASE RepairScoped(facts, findings, out)
  <2>1. /\ faulty = "none"
        /\ count = "none" => Whole(repaired, kept, Resigned(signals, out))
        /\ Pairs(repaired) = anew
    BY <1>2, RepairedWhole
  <2>2. fault \in {"REPAIR_UNRESOLVED", "INVALID_MODEL_OUTPUT", "REPAIR_SCOPE_INVALID", "REPAIR_INVALID", FirstFault(<<count, faulty>>)}
    BY DEF RepairFault
  <2>3. count # "REVIEW_LOST"
    BY DEF CountFault
  <2> HIDE DEF findings, out, fault, repaired, kept, count, faulty, anew
  <2>4. FirstFault(<<count, faulty>>) \in {count, faulty, "none"} /\ (FirstFault(<<count, faulty>>) = "none" <=> count = "none" /\ faulty = "none")
    BY FirstFaultIsOne, NoFaultOfTwo
  <2>5. /\ fault # "REVIEW_LOST"
        /\ fault = "none" => Whole(repaired, kept, Resigned(signals, out)) /\ Pairs(repaired) = anew
    BY <2>1, <2>2, <2>3, <2>4
  <2> QED BY <2>5 DEF findings, out, fault, repaired, kept, anew
<1> QED BY <1>1, <1>2

\* build_v4_plan_content's four steps keep the plan sound.
LEMMA ExtractedSound ==
  ASSUME NEW s, NEW run, IsRun(run), Sound(s, run), s.error = "none", s.calls \in Seq(CallType)
  PROVE  Sound(Extracted(s, run), run)
<1> DEFINE fault == ExtractionFault(run.extraction)
           asked == Invoked(s, "fact_extraction", run.extraction)
           checked == IF asked.error = "none" THEN Checked(asked, fault) ELSE asked
           facts == Facts(run.extraction.candidates)
           reviews == run.extraction.reviews
           content == WithContent(checked, facts, reviews, Codes(reviews))
<1>1. fault # "REVIEW_LOST" /\ (fault = "none" => Whole(facts, reviews, Codes(reviews)))
  BY NothingLost
<1>2. /\ Complete(checked) /\ checked.error # "REVIEW_LOST"
      /\ checked.error = "none" => fault = "none" /\ Asked(checked) = "fact_extraction"
  <2> HIDE DEF fault
  <2> QED BY <1>1, AskedContent DEF Sound
<1>3. Extracted(s, run) = IF checked.error # "none" THEN checked ELSE Current(content, run.changed = 1)
  BY DEF Extracted, WithContent
<1> HIDE DEF fault, checked
<1>4. CASE checked.error # "none"
  BY <1>2, <1>3, <1>4 DEF Sound
<1>5. CASE checked.error = "none"
  <2>1. /\ Complete(content) /\ content.error = "none" /\ Asked(content) = "fact_extraction"
        /\ content.facts = facts /\ content.reviews = reviews /\ content.signals = Codes(reviews)
    <3> HIDE DEF facts, reviews
    <3> QED BY <1>2, <1>5, NewContent
  <2> HIDE DEF content
  <2>2. Stage(content, run)
    BY <1>1, <1>2, <1>5, <2>1 DEF Stage
  <2> DEFINE t == Current(content, run.changed = 1)
  <2>3. Complete(t) /\ t.error # "REVIEW_LOST" /\ (t.error = "none" => t = content)
    BY <2>1, CurrentContent
  <2>4. Sound(t, run)
    <3> HIDE DEF t
    <3> QED BY <2>2, <2>3 DEF Sound
  <2> QED BY <1>3, <1>5, <2>4
<1> QED BY <1>4, <1>5

LEMMA ReviewedSound ==
  ASSUME NEW s, NEW run, Sound(s, run), s.error = "none", s.calls \in Seq(CallType), Asked(s) = "fact_extraction"
  PROVE  Sound(Reviewed(s, run), run)
<1> DEFINE fault == CoverageFault(s.facts, run.coverage.findings)
           asked == Invoked(s, "coverage_review", run.coverage)
           checked == IF asked.error = "none" THEN Checked(asked, fault) ELSE asked
<1>1. fault # "REVIEW_LOST"
  BY DEF CoverageFault
<1>2. /\ Complete(checked) /\ checked.error # "REVIEW_LOST"
      /\ checked.error = "none" => fault = "none" /\ SameContent(checked, s) /\ Asked(checked) = "coverage_review"
  <2> HIDE DEF fault
  <2> QED BY <1>1, AskedContent DEF Sound
<1>3. Reviewed(s, run) = IF checked.error = "none" /\ run.coverage.findings = <<>>
                         THEN Current(checked, run.changed = 2) ELSE checked
  BY DEF Reviewed
<1> HIDE DEF checked
<1>4. checked.error = "none" => Stage(checked, run)
  <2>1. Whole(s.facts, s.reviews, s.signals) /\ s.facts = Facts(run.extraction.candidates)
    BY DEF Sound, Stage
  <2> QED BY <1>2, <2>1 DEF Stage, SameContent
<1>5. Sound(checked, run)
  BY <1>2, <1>4 DEF Sound
<1>6. checked.error = "none" => Sound(Current(checked, run.changed = 2), run)
  <2> DEFINE t == Current(checked, run.changed = 2)
  <2>1. checked.error = "none" => Complete(t) /\ t.error # "REVIEW_LOST" /\ (t.error = "none" => t = checked)
    BY <1>2, CurrentContent
  <2> HIDE DEF t
  <2>2. checked.error = "none" => Sound(t, run)
    BY <1>4, <2>1 DEF Sound
  <2> QED BY <2>2 DEF t
<1> QED BY <1>3, <1>5, <1>6

LEMMA RepairedSound ==
  ASSUME NEW s, NEW run, IsRun(run), Sound(s, run), s.error = "none", s.calls \in Seq(CallType),
         Asked(s) = "coverage_review"
  PROVE  Sound(Repaired4(s, run), run)
<1> DEFINE findings == run.coverage.findings
           out == run.repair
           fault == RepairFault(s.facts, s.reviews, findings, out)
           asked == Invoked(s, "local_repair", out)
           checked == IF asked.error = "none" THEN Checked(asked, fault) ELSE asked
           facts == Facts(RepairedGroups(s.facts, findings, out))
           reviews == RepairedReviews(s.reviews, out)
           signals == Resigned(s.signals, out)
           content == WithContent(checked, facts, reviews, signals)
<1>1. /\ Whole(s.facts, s.reviews, s.signals) /\ s.facts = Facts(run.extraction.candidates)
      /\ CoverageFault(s.facts, findings) = "none"
  BY DEF Sound, Stage
<1>2. fault # "REVIEW_LOST" /\ (fault = "none" => Whole(facts, reviews, signals) /\ Replaced(facts, run))
  BY <1>1, NothingLostInRepair DEF Replaced
<1>3. /\ Complete(checked) /\ checked.error # "REVIEW_LOST"
      /\ checked.error = "none" => fault = "none" /\ SameContent(checked, s) /\ Asked(checked) = "local_repair"
  <2> HIDE DEF fault
  <2> QED BY <1>2, AskedContent DEF Sound
<1>4. checked.error = "none" => Repaired4(s, run) = Current(content, run.changed = 2)
  <2>1. checked.error = "none" => RepairedReviews(checked.reviews, out) = reviews /\ Resigned(checked.signals, out) = signals
    <3> HIDE DEF checked
    <3> QED BY <1>3 DEF SameContent
  <2>2. Repaired4(s, run) =
          IF checked.error # "none" THEN checked
          ELSE Current(WithContent(checked, facts, RepairedReviews(checked.reviews, out), Resigned(checked.signals, out)),
                       run.changed = 2)
    BY DEF Repaired4, WithContent
  <2> HIDE DEF checked, facts, reviews, signals
  <2> QED BY <2>1, <2>2
<1>5. checked.error # "none" => Repaired4(s, run) = checked
  BY DEF Repaired4
<1> HIDE DEF fault, checked
<1>6. CASE checked.error # "none"
  BY <1>3, <1>5, <1>6 DEF Sound
<1>7. CASE checked.error = "none"
  <2>1. /\ Complete(content) /\ content.error = "none" /\ Asked(content) = "local_repair"
        /\ content.facts = facts /\ content.reviews = reviews /\ content.signals = signals
    <3> HIDE DEF facts, reviews, signals
    <3> QED BY <1>3, <1>7, NewContent
  <2> HIDE DEF content
  <2>2. Stage(content, run)
    BY <1>2, <1>3, <1>7, <2>1 DEF Stage
  <2> DEFINE t == Current(content, run.changed = 2)
  <2>3. Complete(t) /\ t.error # "REVIEW_LOST" /\ (t.error = "none" => t = content)
    BY <2>1, CurrentContent
  <2>4. Sound(t, run)
    <3> HIDE DEF t
    <3> QED BY <2>2, <2>3 DEF Sound
  <2> QED BY <1>4, <1>7, <2>4
<1> QED BY <1>6, <1>7

LEMMA GroupedSound ==
  ASSUME NEW s, NEW run, Sound(s, run), s.error = "none", s.calls \in Seq(CallType),
         Asked(s) = IF run.coverage.findings = <<>> THEN "coverage_review" ELSE "local_repair",
         NEW criteria \in Seq(Seq(Nat))
  PROVE  Sound(Grouped(s, run, criteria), run)
<1> DEFINE fault == GroupingFault(s.facts, criteria)
           asked == Invoked(s, "criterion_grouping", run.grouping)
           checked == IF asked.error = "none" THEN Checked(asked, fault) ELSE asked
           content == WithCriteria(checked, criteria)
           large == IF OutputTooLarge(s.facts, criteria) THEN "OUTPUT_TOO_LARGE" ELSE "none"
           current == Current(content, run.changed = 3)
<1>1. fault # "REVIEW_LOST"
  BY DEF GroupingFault
<1>2. /\ Complete(checked) /\ checked.error # "REVIEW_LOST"
      /\ checked.error = "none" => fault = "none" /\ SameContent(checked, s) /\ Asked(checked) = "criterion_grouping"
  <2> HIDE DEF fault
  <2> QED BY <1>1, AskedContent DEF Sound
<1>3. Grouped(s, run, criteria) =
        IF checked.error # "none" THEN checked ELSE IF current.error = "none" THEN Checked(current, large) ELSE current
  BY DEF Grouped, WithCriteria
<1> HIDE DEF checked
<1>4. CASE checked.error # "none"
  BY <1>2, <1>3, <1>4 DEF Sound
<1>5. CASE checked.error = "none"
  <2>1. /\ Complete(content) /\ content.error = "none" /\ Asked(content) = "criterion_grouping"
        /\ content.criteria = criteria
        /\ content.facts = s.facts /\ content.reviews = s.reviews /\ content.signals = s.signals
    BY <1>2, <1>5, NewCriteria DEF SameContent
  <2> HIDE DEF content
  <2>2. /\ Whole(s.facts, s.reviews, s.signals)
        /\ run.coverage.findings # <<>> => Replaced(s.facts, run)
    BY DEF Sound, Stage
  <2>3. Stage(content, run)
    BY <1>2, <1>5, <2>1, <2>2 DEF Stage
  <2>4. Complete(current) /\ current.error # "REVIEW_LOST" /\ (current.error = "none" => current = content)
    BY <2>1, CurrentContent
  <2>5. large # "REVIEW_LOST"
    OBVIOUS
  <2> HIDE DEF current, large
  <2>6. Sound(current, run)
    BY <2>3, <2>4 DEF Sound
  <2>7. current.error = "none" => Sound(Checked(current, large), run)
    BY <2>3, <2>4, <2>5, CheckedContent DEF Sound
  <2> QED BY <1>3, <1>5, <2>6, <2>7
<1> QED BY <1>4, <1>5

-----------------------------------------------------------------------------
(* What a sound plan says to its readers *)

LEMMA SoundUsable ==
  ASSUME NEW s, NEW run, Sound(s, run)
  PROVE  FactPlanUsable(s)
<1>1. SUFFICES ASSUME Made(s) PROVE GraphAccepted(s) /\ ScreeningTakesFacts(s)
  BY DEF FactPlanUsable
<1>2. /\ Whole(s.facts, s.reviews, s.signals)
      /\ s.criteria \in Seq(Seq(Nat)) /\ GroupingFault(s.facts, s.criteria) = "none"
  BY <1>1 DEF Made, Sound, Stage
<1>3. FactsFormed(s.facts) /\ Len(s.facts) \in Nat
  BY <1>2 DEF Whole, FactsFormed
<1>4. /\ s.criteria # <<>>
      /\ UNION {Range(c) : c \in Range(s.criteria)} = 1..Len(s.facts)
      /\ \A i \in 1..Len(s.facts) : Assigned(s, i) = 1
  <2> DEFINE facts == s.facts
             criteria == s.criteria
  <2>1. \A i \in 1..Len(facts) :
          Assigned(s, i) = Cardinality({at \in (1..Len(criteria)) \X (1..Len(facts)) :
                                          at[2] <= Len(criteria[at[1]]) /\ criteria[at[1]][at[2]] = i})
    BY DEF Assigned
  <2>2. Len(facts) \in Nat /\ criteria \in Seq(Seq(Nat)) /\ GroupingFault(facts, criteria) = "none"
    BY <1>2, <1>3
  <2> HIDE DEF facts, criteria
  <2>3. HoldOnce(facts, criteria)
    BY <2>2, GroupingTaken
  <2>4. \A i \in 1..Len(facts) : Assigned(s, i) = 1
    BY <2>1, <2>3 DEF HoldOnce
  <2> QED BY <2>3, <2>4 DEF facts, criteria, HoldOnce
<1>5. \A u \in UnitIds : ReviewAccepted(s, u)
  BY <1>2 DEF Whole, ReviewAccepted
<1>6. GraphAccepted(s)
  <2>1. s.facts # <<>>
    BY <1>2 DEF Whole, CountFault
  <2> QED BY <1>2, <1>4, <1>5, <2>1 DEF GraphAccepted, Whole
<1>7. \A i \in 1..Len(s.facts) : /\ s.facts[i].sources # {} /\ s.facts[i].priority = Priority(s.facts[i].sources)
                                 /\ \A x \in s.facts[i].sources : Found(x)
  <2>1. \A i \in 1..Len(s.facts) : \A x \in s.facts[i].sources : x \in Pairs(s.facts)
    BY SomeSource
  <2> QED BY <1>2, <1>3, <2>1 DEF Whole, FactsFormed
<1> QED BY <1>4, <1>6, <1>7 DEF ScreeningTakesFacts

LEMMA SoundRepair ==
  ASSUME NEW s, NEW run, IsRun(run), Sound(s, run)
  PROVE  RepairLocal(s, run)
<1>1. SUFFICES ASSUME Made(s), run.coverage.findings # <<>>
               PROVE  Pairs(s.facts) = {x \in Pairs(Facts(run.extraction.candidates)) : x[1] \notin FailedUnits(run.coverage.findings)}
                                       \cup (UNION {c.sources : c \in Range(run.repair.candidates)})
  BY DEF RepairLocal
<1>2. Replaced(s.facts, run)
  BY <1>1 DEF Made, Sound, Stage
<1> DEFINE c == run.repair.candidates
<1>3. DOMAIN c = 1..Len(c)
  BY DEF IsRun
<1> HIDE DEF c
<1>4. UNION {d.sources : d \in Range(c)} = Pairs(c)
  BY <1>3 DEF Range, Pairs
<1> QED BY <1>2, <1>4 DEF Replaced, c

LEMMA SoundWarnings ==
  ASSUME NEW s, NEW run, Sound(s, run)
  PROVE  WarningsTrue(s)
<1> DEFINE facts == s.facts
           n == Len(facts)
           used == {u \in UnitIds : FactsIn(facts, u) # {}}
           mixed == {i \in 1..n : Cardinality({Units[u].field : u \in UnitsOf(facts[i].sources)}) > 1}
           against == {u \in used : AgainstField(u)}
           True(w) == /\ w.units \subseteq UnitIds /\ w.facts \subseteq 1..n
                      /\ w.code = "ambiguous_requirement" => w.facts # {}
                      /\ w.code = "non_evaluation_content" => w.facts = {}
           SizeCodes == IF n <= FewFacts THEN {"limited_basis"} ELSE IF n > ManyFacts THEN {"overly_broad_jd"} ELSE {}
           size == {Warning(code, used, 1..n) : code \in SizeCodes}
           said == UNION {{Warning(code, {u}, FactsIn(facts, u)) : code \in s.signals[u]} : u \in DOMAIN s.signals}
           clash == IF mixed \cup against = {} THEN {}
                    ELSE {Warning("conflicting_requirements",
                                  against \cup UNION {UnitsOf(facts[i].sources) : i \in mixed},
                                  mixed \cup UNION {FactsIn(facts, u) : u \in against})}
<1>1. SUFFICES ASSUME Made(s) PROVE \A w \in PlanWarnings(s) : True(w)
  BY DEF WarningsTrue
<1>2. Whole(facts, s.reviews, s.signals)
  BY <1>1 DEF Made, Sound, Stage
<1>3. PlanWarnings(s) = size \cup said \cup clash
  BY DEF PlanWarnings
<1> HIDE DEF facts, n
<1>4. \A u : FactsIn(facts, u) \subseteq 1..n
  BY DEF FactsIn, n
<1>5. \A i \in 1..n : UnitsOf(facts[i].sources) \subseteq UnitIds
  <2>1. \A i \in 1..n : \A x \in facts[i].sources : x \in Pairs(facts)
    BY SomeSource DEF n
  <2> QED BY <1>2, <2>1 DEF Whole, Found, UnitsOf
<1>6. ASSUME NEW w \in size PROVE True(w)
  <2>1. PICK code \in SizeCodes : w = Warning(code, used, 1..n)
    OBVIOUS
  <2>2. code \in {"limited_basis", "overly_broad_jd"}
    OBVIOUS
  <2> HIDE DEF used, SizeCodes
  <2>3. w.code = code /\ w.units = used /\ w.facts = 1..n
    BY <2>1 DEF Warning
  <2> QED BY <2>2, <2>3 DEF used
<1>7. ASSUME NEW w \in said PROVE True(w)
  <2>1. PICK u \in DOMAIN s.signals : \E code \in s.signals[u] : w = Warning(code, {u}, FactsIn(facts, u))
    OBVIOUS
  <2>2. PICK code \in s.signals[u] : w = Warning(code, {u}, FactsIn(facts, u))
    BY <2>1
  <2>3. w.code = code /\ w.units = {u} /\ w.facts = FactsIn(facts, u)
    BY <2>2 DEF Warning
  <2>4. u \in UnitIds /\ code \in s.reviews[u].codes /\ ReviewFormed(s.reviews[u])
        /\ (s.reviews[u].reason <=> FactsIn(facts, u) = {})
    BY <1>2 DEF Whole
  <2> HIDE DEF said
  <2>5. /\ code = "ambiguous_requirement" => FactsIn(facts, u) # {}
        /\ code = "non_evaluation_content" => FactsIn(facts, u) = {}
    BY <2>4 DEF ReviewFormed
  <2> QED BY <1>4, <2>3, <2>4, <2>5
<1>8. ASSUME NEW w \in clash PROVE True(w)
  <2> DEFINE units == against \cup UNION {UnitsOf(facts[i].sources) : i \in mixed}
             told == mixed \cup UNION {FactsIn(facts, u) : u \in against}
  <2>1. w = Warning("conflicting_requirements", units, told)
    OBVIOUS
  <2>2. units \subseteq UnitIds
    <3>1. UNION {UnitsOf(facts[i].sources) : i \in mixed} \subseteq UnitIds
      BY <1>5
    <3> QED BY <3>1
  <2>3. told \subseteq 1..n
    <3>1. UNION {FactsIn(facts, u) : u \in against} \subseteq 1..n
      BY <1>4
    <3> QED BY <3>1
  <2> HIDE DEF units, told
  <2>4. w.code = "conflicting_requirements" /\ w.units = units /\ w.facts = told
    BY <2>1 DEF Warning
  <2> QED BY <2>2, <2>3, <2>4
<1> QED BY <1>3, <1>6, <1>7, <1>8

\* The facts that are grouped are not more than the limit.
LEMMA SoundBounded ==
  ASSUME NEW s, NEW run, Sound(s, run), s.error = "none", Asked(s) # "none"
  PROVE  Len(s.facts) \in 0..MaxFacts
<1>1. Len(s.facts) \in Nat /\ CountFault(s.facts) = "none"
  BY DEF Sound, Stage, Whole, FactsFormed
<1>2. ~(Len(s.facts) > MaxFacts)
  BY <1>1 DEF CountFault
<1> QED BY <1>1, <1>2, PlanAssumption
=============================================================================
