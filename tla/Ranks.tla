-------------------------------- MODULE Ranks --------------------------------
(* Finite sets of natural numbers: each element is known by the number of     *)
(* those below it.  What the proofs use in place of an induction over data.   *)
EXTENDS Integers, FiniteSetTheorems, TLAPS

(* How many elements of S are below n. *)
RankIn(S, n) == Cardinality({m \in S : m < n})

(* A rank is below the cardinality of the set. *)
LEMMA RankType ==
  ASSUME NEW S \in SUBSET Nat, IsFiniteSet(S), NEW n \in S
  PROVE  RankIn(S, n) \in 0 .. Cardinality(S) - 1
  <1> DEFINE T == {m \in S : m < n}
  <1>1. T \in SUBSET S /\ n \notin T
    OBVIOUS
  <1>2. IsFiniteSet(T) /\ Cardinality(T) <= Cardinality(S)
        /\ (Cardinality(S) = Cardinality(T) => S = T)
    BY <1>1, FS_Subset
  <1>3. Cardinality(T) \in Nat /\ Cardinality(S) \in Nat
    BY <1>2, FS_CardinalityType
  <1>4. RankIn(S, n) = Cardinality(T)
    BY DEF RankIn
  <1>5. S # T
    BY <1>1
  <1> HIDE DEF T
  <1> QED
    BY <1>2, <1>3, <1>4, <1>5

(* A larger element has a larger rank. *)
LEMMA RankIncreases ==
  ASSUME NEW S \in SUBSET Nat, IsFiniteSet(S), NEW m \in S, NEW n \in S, m < n
  PROVE  RankIn(S, m) < RankIn(S, n)
  <1> DEFINE T == {l \in S : l < m}
             U == {l \in S : l < n}
  <1>1. T \in SUBSET U /\ m \in U /\ m \notin T /\ U \in SUBSET S
    <2>1. m \in Nat /\ n \in Nat /\ \A l \in S : l \in Nat
      OBVIOUS
    <2>2. \A l \in S : l < m => l < n
      BY <2>1
    <2>3. T \in SUBSET U
      BY <2>2
    <2>4. m \in U /\ m \notin T /\ U \in SUBSET S
      BY <2>1
    <2> QED
      BY <2>3, <2>4
  <1>2. IsFiniteSet(U)
    BY <1>1, FS_Subset
  <1>3. IsFiniteSet(T) /\ Cardinality(T) <= Cardinality(U)
        /\ (Cardinality(U) = Cardinality(T) => U = T)
    BY <1>1, <1>2, FS_Subset
  <1>4. Cardinality(T) \in Nat /\ Cardinality(U) \in Nat
    BY <1>2, <1>3, FS_CardinalityType
  <1>5. RankIn(S, m) = Cardinality(T) /\ RankIn(S, n) = Cardinality(U) /\ U # T
    BY <1>1 DEF RankIn
  <1> HIDE DEF T, U
  <1> QED
    BY <1>3, <1>4, <1>5

(* Every rank below the cardinality is taken, and by one element only. *)
LEMMA RankOnto ==
  ASSUME NEW S \in SUBSET Nat, IsFiniteSet(S), NEW i \in 0 .. Cardinality(S) - 1
  PROVE  \E n \in S : RankIn(S, n) = i
  <1> DEFINE k == Cardinality(S)
             f == [n \in S |-> RankIn(S, n)]
  <1>1. k \in Nat
    BY FS_CardinalityType
  <1>2. k # 0
    BY <1>1
  <1>3. IsFiniteSet(0 .. k - 1) /\ Cardinality(0 .. k - 1) = k
    <2> HIDE DEF k
    <2>1. 0 \in Int /\ k - 1 \in Int /\ ~ (0 > k - 1) /\ (k - 1) - 0 + 1 = k
      BY <1>1, <1>2
    <2> QED
      BY <2>1, FS_Interval
  <1>4. f \in [S -> 0 .. k - 1]
    BY RankType
  <1>5. \A m, n \in S : f[m] = f[n] => m = n
    <2> SUFFICES ASSUME NEW m \in S, NEW n \in S, RankIn(S, m) = RankIn(S, n), m # n
                 PROVE  FALSE
      OBVIOUS
    <2>1. m \in Nat /\ n \in Nat /\ RankIn(S, m) \in Int
      BY RankType
    <2>2. CASE m < n
      BY <2>1, <2>2, RankIncreases
    <2>3. CASE n < m
      BY <2>1, <2>3, RankIncreases
    <2> QED
      BY <2>1, <2>2, <2>3
  <1>6. f \in Injection(S, 0 .. k - 1)
    <2> HIDE DEF f, k
    <2> QED
      BY <1>4, <1>5 DEF Injection, IsInjective
  <1>7. f \in Surjection(S, 0 .. k - 1)
    <2>1. Cardinality(S) = Cardinality(0 .. k - 1)
      BY <1>3
    <2> HIDE DEF f, k
    <2> QED
      BY <1>3, <1>6, <2>1, FS_Injection
  <1>8. \E n \in S : f[n] = i
    <2>1. i \in 0 .. k - 1
      OBVIOUS
    <2> HIDE DEF f, k
    <2> QED
      BY <1>7, <2>1 DEF Surjection
  <1> QED
    BY <1>8

(* A set of naturals that is not empty has a least element... *)
LEMMA LeastExists ==
  ASSUME NEW S \in SUBSET Nat, S # {}
  PROVE  \E n \in S : \A m \in S : n <= m
  <1>1. PICK x \in S : TRUE
    OBVIOUS
  <1> DEFINE T == {y \in S : y <= x}
  <1>2. IsFiniteSet(T) /\ T \in SUBSET Nat /\ T # {}
    <2>1. T \in SUBSET Nat /\ x \in Nat /\ \A y \in T : y <= x
      OBVIOUS
    <2>2. IsFiniteSet(T)
      BY <2>1, FS_BoundedSetOfNaturals
    <2> QED
      BY <2>1, <2>2
  <1>3. Cardinality(T) \in Nat \ {0}
    <2> HIDE DEF T
    <2> QED
      BY <1>2, FS_CardinalityType, FS_EmptySet
  <1>4. PICK n \in T : RankIn(T, n) = 0
    <2> HIDE DEF T
    <2>1. 0 \in 0 .. Cardinality(T) - 1
      BY <1>3
    <2> QED
      BY <1>2, <2>1, RankOnto
  <1>5. \A m \in T : n <= m
    <2> SUFFICES ASSUME NEW m \in T, m < n PROVE FALSE
      OBVIOUS
    <2>1. RankIn(T, m) < RankIn(T, n) /\ RankIn(T, m) \in 0 .. Cardinality(T) - 1
      <3> HIDE DEF T
      <3> QED
        BY <1>2, RankIncreases, RankType
    <2> QED
      BY <1>4, <2>1
  <1> QED
    BY <1>4, <1>5

(* ... and a finite one has a greatest. *)
LEMMA GreatestExists ==
  ASSUME NEW S \in SUBSET Nat, IsFiniteSet(S), S # {}
  PROVE  \E n \in S : \A m \in S : m <= n
  <1>1. Cardinality(S) \in Nat \ {0}
    BY FS_CardinalityType, FS_EmptySet
  <1>2. Cardinality(S) - 1 \in 0 .. Cardinality(S) - 1
    BY <1>1
  <1>3. PICK n \in S : RankIn(S, n) = Cardinality(S) - 1
    BY <1>2, RankOnto
  <1>4. \A m \in S : m <= n
    <2> SUFFICES ASSUME NEW m \in S, n < m PROVE FALSE
      OBVIOUS
    <2>1. RankIn(S, n) < RankIn(S, m) /\ RankIn(S, m) \in 0 .. Cardinality(S) - 1
      BY RankIncreases, RankType
    <2> QED
      BY <1>1, <1>3, <2>1
  <1> QED
    BY <1>3, <1>4

==============================================================================
