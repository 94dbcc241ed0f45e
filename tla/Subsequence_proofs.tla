-------------------------- MODULE Subsequence_proofs --------------------------
(***************************************************************************)
(* What filtering and slicing an array by places leaves of it.             *)
(***************************************************************************)
EXTENDS Subsequence, TLAPS, FiniteSetTheorems, SequenceTheorems

\* A set of numbers that is not empty has a least one.
LEMMA LeastNatural ==
  ASSUME NEW S \in SUBSET Nat, S # {}
  PROVE  \E x \in S : \A y \in S : x <= y
<1> DEFINE T == {0 .. n : n \in S}
<1>1. T # {} /\ T \subseteq FiniteSubsetsOf(Nat)
  <2>1. \A n \in S : 0 .. n \in SUBSET Nat /\ IsFiniteSet(0 .. n)
    BY FS_Interval
  <2> QED
    BY <2>1 DEF FiniteSubsetsOf
<1>2. PICK x \in T : \A y \in T : <<y, x>> \notin StrictSubsetOrdering(Nat)
  <2> HIDE DEF T
  <2> QED
    BY <1>1, FS_StrictSubsetOrderingWellFounded, WFMin
<1>3. PICK m \in S : x = 0 .. m
  OBVIOUS
<1>4. ASSUME NEW k \in S, k < m PROVE FALSE
  <2>1. 0 .. k \subseteq 0 .. m /\ 0 .. k # 0 .. m /\ 0 .. k \subseteq Nat /\ 0 .. m \subseteq Nat
    BY <1>4
  <2>2. <<0 .. k, 0 .. m>> \in StrictSubsetOrdering(Nat) /\ 0 .. k \in T
    BY <2>1 DEF StrictSubsetOrdering
  <2> QED
    BY <1>2, <1>3, <2>2
<1> QED
  BY <1>4

\* A set of n numbers has a k-th one for every k from 1 to n, whose rank is k.
LEMMA NthElement ==
  ASSUME NEW n \in Nat, NEW I \in SUBSET (1 .. n)
  PROVE  /\ Cardinality(I) \in 0 .. n
         /\ \A k \in 1 .. Cardinality(I) :
              Nth(I, k) \in I /\ Cardinality({j \in I : j <= Nth(I, k)}) = k
<1> DEFINE upTo(i) == {j \in I : j <= i}
           N == Cardinality(I)
           rank == [i \in I |-> Cardinality(upTo(i))]
<1>1. IsFiniteSet(I) /\ N \in 0 .. n
  <2>1. IsFiniteSet(1 .. n) /\ Cardinality(1 .. n) = n
    BY FS_Interval
  <2>2. IsFiniteSet(I) /\ Cardinality(I) <= n
    BY <2>1, FS_Subset
  <2>3. Cardinality(I) \in Nat
    BY <2>2, FS_CardinalityType
  <2> QED
    BY <2>2, <2>3
<1>2. \A i \in I : IsFiniteSet(upTo(i)) /\ Cardinality(upTo(i)) \in 1 .. N
  <2> SUFFICES ASSUME NEW i \in I
               PROVE  IsFiniteSet(upTo(i)) /\ Cardinality(upTo(i)) \in 1 .. N
    OBVIOUS
  <2>1. IsFiniteSet(upTo(i)) /\ Cardinality(upTo(i)) <= N /\ i \in upTo(i)
    BY <1>1, FS_Subset
  <2>2. Cardinality(upTo(i)) \in Nat /\ Cardinality(upTo(i)) # 0
    BY <2>1, FS_CardinalityType, FS_EmptySet
  <2> QED
    BY <1>1, <2>1, <2>2
<1>3. \A i, j \in I : i < j => Cardinality(upTo(i)) # Cardinality(upTo(j))
  <2> SUFFICES ASSUME NEW i \in I, NEW j \in I, i < j
               PROVE  Cardinality(upTo(i)) # Cardinality(upTo(j))
    OBVIOUS
  <2>1. i \in Int /\ j \in Int /\ \A k \in I : k \in Int
    OBVIOUS
  <2>3. j <= j /\ ~(j <= i) /\ \A k \in I : k <= i => k <= j
    BY <2>1
  <2>2. upTo(i) \subseteq upTo(j) /\ j \in upTo(j) /\ j \notin upTo(i)
    BY <2>3
  <2> QED
    BY <1>2, <2>2, FS_Subset
<1> HIDE DEF upTo, N
<1>4. rank \in Injection(I, 1 .. N)
  <2>1. rank \in [I -> 1 .. N]
    BY <1>2
  <2>2. ASSUME NEW i \in I, NEW j \in I, rank[i] = rank[j]
        PROVE  i = j
    <3>1. ~(i < j) /\ ~(j < i)
      BY <1>3, <2>2
    <3> QED
      BY <3>1
  <2> QED
    BY <2>1, <2>2 DEF Injection, IsInjective
<1>5. rank \in Surjection(I, 1 .. N)
  <2>1. N = Cardinality(I) /\ IsFiniteSet(1 .. N) /\ Cardinality(1 .. N) = N
    BY <1>1, FS_Interval DEF N
  <2> QED
    BY <1>4, <2>1, FS_Injection
<1>6. \A k \in 1 .. N : \E i \in I : Cardinality(upTo(i)) = k
  BY <1>5 DEF Surjection
<1> QED
  BY <1>1, <1>6 DEF Nth, N, upTo

\* The rank of a place in a set is one of the numbers from 1 to its size, and
\* greater places have greater ranks.
LEMMA RankOrder ==
  ASSUME NEW n \in Nat, NEW I \in SUBSET (1 .. n), NEW i \in I, NEW l \in I
  PROVE  /\ Cardinality({j \in I : j <= i}) \in 1 .. Cardinality(I)
         /\ i < l => Cardinality({j \in I : j <= i}) < Cardinality({j \in I : j <= l})
<1> DEFINE A == {j \in I : j <= i}
           B == {j \in I : j <= l}
<1>0. i \in Int /\ l \in Int /\ \A j \in I : j \in Int
  OBVIOUS
<1>1. IsFiniteSet(I) /\ Cardinality(I) \in Nat
  <2>1. IsFiniteSet(1 .. n)
    BY FS_Interval
  <2> QED
    BY <2>1, FS_Subset, FS_CardinalityType
<1>2. IsFiniteSet(A) /\ IsFiniteSet(B) /\ Cardinality(A) \in Nat /\ Cardinality(B) \in Nat
  BY <1>1, FS_Subset, FS_CardinalityType
<1>3. i \in A /\ A \subseteq I
  BY <1>0
<1>4. Cardinality(A) \in 1 .. Cardinality(I)
  <2>1. Cardinality(A) <= Cardinality(I)
    BY <1>1, <1>3, FS_Subset
  <2>2. Cardinality(A) # 0
    BY <1>2, <1>3, FS_EmptySet
  <2> HIDE DEF A
  <2> QED
    BY <1>1, <1>2, <2>1, <2>2
<1>5. ASSUME i < l PROVE Cardinality(A) < Cardinality(B)
  <2>0. l <= l /\ ~(l <= i) /\ \A j \in I : j <= i => j <= l
    BY <1>0, <1>5
  <2>1. A \subseteq B /\ l \in B /\ l \notin A
    BY <2>0
  <2>2. Cardinality(A) <= Cardinality(B) /\ Cardinality(A) # Cardinality(B)
    BY <1>2, <2>1, FS_Subset
  <2> HIDE DEF A, B
  <2> QED
    BY <1>2, <2>2
<1> QED
  BY <1>4, <1>5

\* The k-th place grows with k, and every place is the k-th for some k.
LEMMA NthOrder ==
  ASSUME NEW n \in Nat, NEW I \in SUBSET (1 .. n)
  PROVE  /\ \A k, m \in 1 .. Cardinality(I) : k < m => Nth(I, k) < Nth(I, m)
         /\ \A i \in I : \E k \in 1 .. Cardinality(I) : Nth(I, k) = i
<1>0. \A i \in I : i \in Int
  OBVIOUS
<1>1. ASSUME NEW k \in 1 .. Cardinality(I), NEW m \in 1 .. Cardinality(I), k < m
      PROVE  Nth(I, k) < Nth(I, m)
  <2>1. /\ Nth(I, k) \in I /\ Cardinality({j \in I : j <= Nth(I, k)}) = k
        /\ Nth(I, m) \in I /\ Cardinality({j \in I : j <= Nth(I, m)}) = m
    BY NthElement
  <2>2. ~(Nth(I, m) < Nth(I, k)) /\ Nth(I, m) # Nth(I, k)
    <3>1. Cardinality(I) \in Nat
      BY NthElement
    <3>2. k \in Nat /\ m \in Nat /\ ~(m < k) /\ m # k
      BY <1>1, <3>1
    <3> QED
      BY <2>1, <3>2, RankOrder
  <2>3. Nth(I, k) \in Int /\ Nth(I, m) \in Int
    BY <1>0, <2>1
  <2> QED
    BY <2>2, <2>3
<1>2. ASSUME NEW i \in I
      PROVE  \E k \in 1 .. Cardinality(I) : Nth(I, k) = i
  <2> DEFINE k == Cardinality({j \in I : j <= i})
  <2>1. k \in 1 .. Cardinality(I)
    BY RankOrder
  <2>2. Nth(I, k) \in I /\ Cardinality({j \in I : j <= Nth(I, k)}) = k
    <3> HIDE DEF k
    <3> QED
      BY <2>1, NthElement
  <2>3. k \in Nat /\ ~(k < k)
    <3>1. Cardinality(I) \in Nat
      BY NthElement
    <3> HIDE DEF k
    <3> QED
      BY <2>1, <3>1
  <2>4. ~(Nth(I, k) < i) /\ ~(i < Nth(I, k))
    BY <2>2, <2>3, RankOrder
  <2>5. Nth(I, k) \in Int /\ i \in Int
    BY <1>0, <2>2
  <2>6. Nth(I, k) = i
    <3> HIDE DEF k
    <3> QED
      BY <2>4, <2>5
  <2> QED
    BY <2>1, <2>6
<1> QED
  BY <1>1, <1>2

\* What is picked of a sequence is a sequence of its elements, none of the
\* places is left out, and their order is kept.
LEMMA PickedElements ==
  ASSUME NEW S, NEW s \in Seq(S), NEW I \in SUBSET DOMAIN s
  PROVE  /\ Picked(s, I) \in Seq(S) /\ Len(Picked(s, I)) = Cardinality(I)
         /\ DOMAIN Picked(s, I) = 1 .. Cardinality(I)
         /\ Cardinality(I) \in 0 .. Len(s) /\ Len(s) \in Nat
         /\ \A k \in 1 .. Cardinality(I) :
              /\ Nth(I, k) \in I /\ Nth(I, k) \in Int
              /\ Picked(s, I)[k] = s[Nth(I, k)]
         /\ \A i \in I : \E k \in 1 .. Cardinality(I) : Nth(I, k) = i
         /\ \A k, m \in 1 .. Cardinality(I) : k < m => Nth(I, k) < Nth(I, m)
<1> DEFINE N == Cardinality(I)
<1>1. Len(s) \in Nat /\ DOMAIN s = 1 .. Len(s) /\ \A i \in DOMAIN s : s[i] \in S
  BY LenProperties, ElementOfSeq
<1>2. I \in SUBSET (1 .. Len(s))
  BY <1>1
<1>3. /\ N \in 0 .. Len(s)
      /\ \A k \in 1 .. N : Nth(I, k) \in I
  BY <1>1, <1>2, NthElement
<1>4. /\ \A i \in I : \E k \in 1 .. N : Nth(I, k) = i
      /\ \A k, m \in 1 .. N : k < m => Nth(I, k) < Nth(I, m)
  BY <1>1, <1>2, NthOrder
<1>5. Picked(s, I) = [k \in 1 .. N |-> s[Nth(I, k)]]
  BY DEF Picked
<1> HIDE DEF N
<1>6. N \in Nat
  BY <1>1, <1>3
<1>7. Picked(s, I) \in [1 .. N -> S]
  BY <1>1, <1>3, <1>5
<1>8. Picked(s, I) \in Seq(S) /\ Len(Picked(s, I)) = N /\ DOMAIN Picked(s, I) = 1 .. N
  <2>1. Picked(s, I) \in Seq(S)
    BY <1>6, <1>7, SeqDef
  <2> QED
    BY <1>6, <1>7, <2>1
<1>9. \A k \in 1 .. N : Picked(s, I)[k] = s[Nth(I, k)] /\ Nth(I, k) \in Int
  BY <1>1, <1>2, <1>3, <1>5
<1> QED
  BY <1>1, <1>3, <1>4, <1>8, <1>9 DEF N

\* A slice leaves no more places than it is told to.
LEMMA LastPlacesBound ==
  ASSUME NEW n \in Nat, NEW I \in SUBSET (1 .. n), NEW max \in Nat
  PROVE  /\ LastPlaces(I, max) \subseteq I
         /\ Cardinality(LastPlaces(I, max)) <= max
<1> DEFINE L == LastPlaces(I, max)
<1>1. L \subseteq I /\ \A i \in L : Cardinality({j \in I : j >= i}) <= max
  BY DEF LastPlaces
<1>2. CASE L = {}
  <2>1. Cardinality(L) = 0
    BY <1>2, FS_EmptySet
  <2> HIDE DEF L
  <2> QED
    BY <1>1, <2>1 DEF L
<1>3. CASE L # {}
  <2> HIDE DEF L
  <2>1. L \in SUBSET Nat
    BY <1>1
  <2>2. PICK least \in L : \A i \in L : least <= i
    BY <1>3, <2>1, LeastNatural
  <2> DEFINE above == {j \in I : j >= least}
  <2>3. L \subseteq above
    BY <1>1, <2>1, <2>2
  <2>4. IsFiniteSet(I)
    <3>1. IsFiniteSet(1 .. n)
      BY FS_Interval
    <3> QED
      BY <3>1, FS_Subset
  <2>5. IsFiniteSet(above) /\ Cardinality(above) \in Nat /\ Cardinality(above) <= max
    BY <1>1, <2>4, FS_Subset, FS_CardinalityType
  <2>6. Cardinality(L) <= Cardinality(above) /\ IsFiniteSet(L)
    <3> HIDE DEF above
    <3> QED
      BY <2>3, <2>5, FS_Subset
  <2>7. Cardinality(L) \in Nat
    BY <2>6, FS_CardinalityType
  <2> HIDE DEF above
  <2>8. Cardinality(L) <= max
    BY <2>5, <2>6, <2>7
  <2> QED
    BY <1>1, <2>8 DEF L
<1> QED
  BY <1>2, <1>3
\* Places that grow along with numbers up to m are no more, from one of them on,
\* than the numbers from its number on.
LEMMA GrowingPlaces ==
  ASSUME NEW n \in Nat, NEW I \in SUBSET (1 .. n), NEW m \in Nat,
         NEW f \in [I -> 1 .. m], \A j, k \in I : j < k => f[j] < f[k],
         NEW i \in I
  PROVE  Cardinality({j \in I : j >= i}) <= m - f[i] + 1
<1> DEFINE A == {j \in I : j >= i}
           B == f[i] .. m
           g == [j \in A |-> f[j]]
<1>0. /\ \A j \in I : j \in Int /\ f[j] \in 1 .. m
      /\ f[i] \in 1 .. m
  OBVIOUS
<1>1. IsFiniteSet(B) /\ Cardinality(B) = m - f[i] + 1
  <2>1. f[i] \in Int /\ m \in Int /\ f[i] <= m
    BY <1>0
  <2> QED
    BY <2>1, FS_Interval
<1>2. g \in Injection(A, B)
  <2>1. \A j \in A : f[j] \in B
    <3> SUFFICES ASSUME NEW j \in A PROVE f[j] \in f[i] .. m
      OBVIOUS
    <3>1. j = i \/ i < j
      BY <1>0
    <3>2. f[i] <= f[j]
      BY <1>0, <3>1
    <3> QED
      BY <1>0, <3>2
  <2>2. g \in [A -> B]
    <3> HIDE DEF A, B
    <3> QED
      BY <2>1
  <2>3. ASSUME NEW j \in A, NEW k \in A, g[j] = g[k] PROVE j = k
    <3>1. f[j] = f[k] /\ j \in I /\ k \in I
      BY <2>3
    <3>2. ~(j < k) /\ ~(k < j)
      BY <1>0, <3>1
    <3> QED
      BY <1>0, <3>1, <3>2
  <2> HIDE DEF A, B, g
  <2> QED
    BY <2>2, <2>3 DEF Injection, IsInjective
<1>3. Cardinality(A) <= Cardinality(B)
  <2> HIDE DEF A, B, g
  <2> QED
    BY <1>1, <1>2, FS_Injection
<1> QED
  BY <1>1, <1>3

=============================================================================
