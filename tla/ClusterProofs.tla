---------------------------- MODULE ClusterProofs ----------------------------
(* What the six strategies of Assigner promise for every list of nodes, and     *)
(* what Cluster keeps for every set of nodes and tasks and every hash.  The     *)
(* first part has the facts about the sorted list, the hash ring, the slots,    *)
(* the ranges and the weights that the theorems about Cluster rest on.          *)
EXTENDS Cluster, Ranks

-----------------------------------------------------------------------------
(* A list as reloadNodes makes it. *)
IsList(list, S) ==
  /\ list \in [1 .. Cardinality(S) -> S]
  /\ Cardinality(S) \in Nat \ {0} /\ Len(list) = Cardinality(S)
  /\ \A n \in S : \E i \in 1 .. Cardinality(S) : list[i] = n
  /\ \A i, j \in 1 .. Cardinality(S) : i < j => list[i] < list[j]
  /\ Members(list) = S

(* Sorted lists each node once, in increasing order. *)
LEMMA SortedList ==
  ASSUME NEW S \in SUBSET Node, S # {}
  PROVE  IsList(Sorted(S), S)
  <1> DEFINE k == Cardinality(S)
             list == Sorted(S)
  <1>1. S \in SUBSET Nat /\ IsFiniteSet(S)
    BY AssignerAssumption, FS_Subset
  <1>2. k \in Nat \ {0}
    BY <1>1, FS_CardinalityType, FS_EmptySet
  <1>3. \A i \in 1 .. k : \E n \in S : Cardinality({m \in S : m < n}) = i - 1
    <2> SUFFICES ASSUME NEW i \in 1 .. k
                 PROVE  \E n \in S : Cardinality({m \in S : m < n}) = i - 1
      OBVIOUS
    <2>1. i - 1 \in 0 .. Cardinality(S) - 1
      BY <1>2
    <2> QED
      BY <1>1, <2>1, RankOnto DEF RankIn
  <1>4. DOMAIN list = 1 .. k
    BY DEF Sorted
  <1>5. \A i \in 1 .. k : list[i] \in S /\ RankIn(S, list[i]) = i - 1
    BY <1>3 DEF Sorted, RankIn
  <1>6. list \in [1 .. k -> S]
    BY <1>4, <1>5 DEF Sorted
  <1>7. Len(list) = k
    <2>1. list \in Seq(S)
      BY <1>2, <1>6
    <2> QED
      BY <1>2, <1>4, <2>1
  <1>8. \A n \in S : \E i \in 1 .. k : list[i] = n
    <2> SUFFICES ASSUME NEW n \in S PROVE \E i \in 1 .. k : list[i] = n
      OBVIOUS
    <2>1. RankIn(S, n) + 1 \in 1 .. k
      BY <1>1, <1>2, RankType
    <2> DEFINE i == RankIn(S, n) + 1
    <2>2. list[i] \in S /\ RankIn(S, list[i]) = RankIn(S, n)
      <3>1. list[i] \in S /\ RankIn(S, list[i]) = i - 1
        BY <1>5, <2>1
      <3>2. RankIn(S, n) \in Int
        BY <1>1, RankType
      <3> QED
        BY <3>1, <3>2
    <2>3. list[i] = n
      <3> DEFINE m == list[i]
      <3>1. m \in Nat /\ n \in Nat /\ RankIn(S, n) \in Int
        <4>1. RankIn(S, n) \in Int
          BY <1>1, RankType
        <4> QED
          BY <1>1, <2>2, <4>1
      <3>2. ~ (m < n) /\ ~ (n < m)
        <4> HIDE DEF m, i, list
        <4> QED
          BY <1>1, <2>2, <3>1, RankIncreases DEF m
      <3> QED
        BY <3>1, <3>2
    <2> QED
      BY <2>1, <2>3
  <1>9. \A i, j \in 1 .. k : i < j => list[i] < list[j]
    <2> SUFFICES ASSUME NEW i \in 1 .. k, NEW j \in 1 .. k, i < j, ~ (list[i] < list[j])
                 PROVE  FALSE
      OBVIOUS
    <2>1. /\ list[i] \in S /\ list[j] \in S
          /\ RankIn(S, list[i]) = i - 1 /\ RankIn(S, list[j]) = j - 1
      BY <1>5
    <2>2. list[i] \in Nat /\ list[j] \in Nat
      BY <1>1, <2>1
    <2>3. CASE list[j] < list[i]
      <3>1. RankIn(S, list[j]) < RankIn(S, list[i])
        <4> HIDE DEF list
        <4> QED
          BY <1>1, <2>1, <2>3, RankIncreases
      <3> QED
        BY <2>1, <3>1
    <2>4. CASE list[j] = list[i]
      BY <2>1, <2>4
    <2> QED
      BY <2>2, <2>3, <2>4
  <1>10. Members(list) = S
    BY <1>4, <1>5, <1>8 DEF Members
  <1> QED
    BY <1>2, <1>6, <1>7, <1>8, <1>9, <1>10 DEF IsList

-----------------------------------------------------------------------------
(* hash-sharding and round-robin: an index modulo the length of the list. *)

(* The remainder of a division is below the divisor. *)
LEMMA Remainder ==
  ASSUME NEW a \in Nat, NEW k \in Nat \ {0}
  PROVE  a % k \in 0 .. k - 1 /\ (a % k) + 1 \in 1 .. k
  OBVIOUS

(* The node of a hash is on the list. *)
LEMMA HashShardingListed ==
  ASSUME NEW S \in SUBSET Node, S # {}, NEW t \in Task
  PROVE  HashShardingOwner(Sorted(S), t) \in S
  <1> DEFINE list == Sorted(S)
  <1>1. IsList(list, S)
    BY SortedList
  <1>2. Hash[t] \in Nat
    BY AssignerAssumption
  <1> HIDE DEF list
  <1>3. (Hash[t] % Len(list)) + 1 \in 1 .. Cardinality(S)
    BY <1>1, <1>2, Remainder DEF IsList
  <1>4. HashShardingOwner(list, t) \in S
    BY <1>1, <1>3 DEF IsList, HashShardingOwner
  <1> QED
    BY <1>4 DEF list

(* So is the node whose turn it is. *)
LEMMA RoundRobinListed ==
  ASSUME NEW S \in SUBSET Node, S # {}, NEW t \in Task, NEW T \in SUBSET Task
  PROVE  RoundRobinOwner(Sorted(S), t, T) \in S
  <1> DEFINE list == Sorted(S)
             c == Cardinality({s \in T : s < t})
  <1>1. IsList(list, S)
    BY SortedList
  <1>2. c \in Nat
    <2>1. {s \in T : s < t} \in SUBSET Task
      OBVIOUS
    <2>2. IsFiniteSet(Task)
      BY AssignerAssumption
    <2>3. IsFiniteSet({s \in T : s < t})
      BY <2>1, <2>2, FS_Subset
    <2> QED
      BY <2>3, FS_CardinalityType
  <1>3. RoundRobinOwner(list, t, T) = list[(c % Len(list)) + 1]
    BY DEF RoundRobinOwner
  <1> HIDE DEF list, c
  <1>4. (c % Len(list)) + 1 \in 1 .. Cardinality(S)
    BY <1>1, <1>2, Remainder DEF IsList
  <1>5. RoundRobinOwner(list, t, T) \in S
    BY <1>1, <1>3, <1>4 DEF IsList
  <1> QED
    BY <1>5 DEF list

-----------------------------------------------------------------------------
(* range: a task belongs to the least node not below it, else to the last. *)
IsRangeOwner(S, t, n) ==
  /\ n \in S
  /\ \A m \in S : m < n => m < t
  /\ t <= n \/ \A m \in S : m <= n

(* The scan of the ranges finds that node. *)
LEMMA RangeOwnerIs ==
  ASSUME NEW S \in SUBSET Node, S # {}, NEW t \in Task
  PROVE  IsRangeOwner(S, t, RangeOwner(Sorted(S), t))
  <1> DEFINE list == Sorted(S)
             k == Cardinality(S)
             L == {i \in 1 .. k : i = k \/ t <= list[i]}
             Q == {i \in 1 .. k : InRange(list, i, t)}
  <1>1. IsList(list, S) /\ k \in Nat \ {0} /\ Len(list) = k
    BY SortedList DEF IsList
  <1>2. t \in Nat /\ \A i \in 1 .. k : list[i] \in Nat /\ list[i] \in S
    <2>1. t \in Nat /\ S \subseteq Nat
      BY AssignerAssumption
    <2> HIDE DEF list
    <2> QED
      BY <1>1, <2>1 DEF IsList
  <1> HIDE DEF list, k
  <1>3. Q # {}
    <2>1. L \in SUBSET Nat /\ k \in L
      BY <1>1
    <2>2. PICK i \in L : \A j \in L : i <= j
      <3> HIDE DEF L
      <3> QED
        BY <2>1, LeastExists
    <2>3. i \in 1 .. k /\ (i = k \/ t <= list[i])
      BY <2>2
    <2>4. i = 1 \/ t > list[i - 1]
      <3> SUFFICES ASSUME i # 1 PROVE t > list[i - 1]
        OBVIOUS
      <3>1. i - 1 \in 1 .. k /\ ~ (i <= i - 1)
        BY <1>1, <2>3
      <3>2. ~ (t <= list[i - 1])
        BY <2>2, <3>1
      <3> QED
        BY <1>2, <3>1, <3>2
    <2>5. InRange(list, i, t)
      BY <1>1, <2>3, <2>4 DEF InRange
    <2> QED
      BY <2>3, <2>5
  <1>4. \E i \in 1 .. k : InRange(list, i, t) /\ \A j \in 1 .. i - 1 : ~ InRange(list, j, t)
    <2>1. Q \in SUBSET Nat
      BY <1>1
    <2>2. PICK i \in Q : \A j \in Q : i <= j
      <3> HIDE DEF Q
      <3> QED
        BY <1>3, <2>1, LeastExists
    <2>3. i \in 1 .. k /\ InRange(list, i, t)
      BY <2>2
    <2>4. \A j \in 1 .. i - 1 : ~ InRange(list, j, t)
      <3> SUFFICES ASSUME NEW j \in 1 .. i - 1, InRange(list, j, t) PROVE FALSE
        OBVIOUS
      <3>1. j \in 1 .. k /\ ~ (i <= j)
        BY <1>1, <2>3
      <3> QED
        BY <2>2, <3>1
    <2> QED
      BY <2>3, <2>4
  <1>5. PICK i \in 1 .. k : InRange(list, i, t) /\ RangeOwner(list, t) = list[i]
    <2>1. RangeOwner(list, t) = NodeAt(list,
            CHOOSE i \in 1 .. k :
              InRange(list, i, t) /\ \A j \in 1 .. i - 1 : ~ InRange(list, j, t))
      BY <1>1, <1>4 DEF RangeOwner, FirstIndex
    <2> DEFINE c == CHOOSE i \in 1 .. k :
                      InRange(list, i, t) /\ \A j \in 1 .. i - 1 : ~ InRange(list, j, t)
    <2>2. c \in 1 .. k /\ InRange(list, c, t)
      BY <1>4
    <2> HIDE DEF c
    <2>3. c # 0
      BY <2>2
    <2> QED
      BY <2>1, <2>2, <2>3 DEF NodeAt, c
  <1>6. list[i] \in S
    BY <1>2
  <1>7. ASSUME NEW m \in S, m < list[i] PROVE m < t
    <2>1. PICK j \in 1 .. k : list[j] = m
      BY <1>1 DEF IsList, k
    <2>2. j < i
      <3>1. j = i \/ i < j \/ j < i
        OBVIOUS
      <3>2. i < j => list[i] < list[j]
        BY <1>1 DEF IsList, k
      <3> QED
        BY <1>2, <1>7, <2>1, <3>1, <3>2
    <2>3. i - 1 \in 1 .. k /\ (j = i - 1 \/ j < i - 1)
      BY <1>1, <2>2
    <2>4. t > list[i - 1]
      BY <1>5, <2>2 DEF InRange
    <2>5. j < i - 1 => list[j] < list[i - 1]
      BY <1>1, <2>3 DEF IsList, k
    <2> QED
      BY <1>2, <2>1, <2>3, <2>4, <2>5
  <1>8. ASSUME ~ (t <= list[i]), NEW m \in S PROVE m <= list[i]
    <2>1. i = k
      BY <1>1, <1>5, <1>8 DEF InRange
    <2>2. PICK j \in 1 .. k : list[j] = m
      BY <1>1 DEF IsList, k
    <2>3. j = k \/ j < k
      BY <1>1
    <2>4. j < k => list[j] < list[k]
      BY <1>1 DEF IsList, k
    <2> QED
      BY <1>2, <2>1, <2>2, <2>3, <2>4
  <1>9. IsRangeOwner(S, t, list[i])
    BY <1>6, <1>7, <1>8 DEF IsRangeOwner
  <1> QED
    BY <1>5, <1>9 DEF list

(* And there is only one such node. *)
LEMMA RangeOwnerUnique ==
  ASSUME NEW S \in SUBSET Node, NEW t \in Task, NEW m, NEW n,
         IsRangeOwner(S, t, m), IsRangeOwner(S, t, n)
  PROVE  m = n
  <1>1. m \in Nat /\ n \in Nat /\ t \in Nat
    BY AssignerAssumption DEF IsRangeOwner
  <1>2. ~ (m < n)
    BY <1>1 DEF IsRangeOwner
  <1>3. ~ (n < m)
    BY <1>1 DEF IsRangeOwner
  <1> QED
    BY <1>1, <1>2, <1>3

(* A node that stays on a shorter list keeps its tasks. *)
LEMMA RangeStable ==
  ASSUME NEW A \in SUBSET Node, NEW B \in SUBSET A, NEW n \in B, NEW t \in Task,
         RangeOwner(Sorted(A), t) = n
  PROVE  RangeOwner(Sorted(B), t) = n
  <1>1. IsRangeOwner(A, t, n)
    BY RangeOwnerIs
  <1>2. IsRangeOwner(B, t, n)
    BY <1>1 DEF IsRangeOwner
  <1>3. IsRangeOwner(B, t, RangeOwner(Sorted(B), t))
    BY RangeOwnerIs
  <1> QED
    BY <1>2, <1>3, RangeOwnerUnique

-----------------------------------------------------------------------------
(* consistent: the ring of the virtual nodes. *)
Ring(S) == UNION {Points[n] : n \in S}

(* The point that a hash h belongs to. *)
IsPoint(S, h, p) ==
  /\ p \in Ring(S)
  /\ \/ p >= h /\ \A q \in Ring(S) : q >= h => p <= q
     \/ \A q \in Ring(S) : q < h /\ p <= q

(* The owner of a hash: the last of the nodes with that point. *)
IsRingOwner(S, h, n) ==
  \E p \in Points[n] :
    /\ n \in S /\ IsPoint(S, h, p)
    /\ \A m \in S : p \in Points[m] => m <= n

(* The library finds that node. *)
LEMMA RingOwnerIs ==
  ASSUME NEW S \in SUBSET Node, S # {}, NEW list, Members(list) = S, NEW h \in Nat
  PROVE  IsRingOwner(S, h, RingGet(list, h))
  <1> DEFINE ring == Ring(S)
             after == {p \in ring : p >= h}
             from == IF after = {} THEN ring ELSE after
             point == CHOOSE p \in from : \A q \in from : p <= q
             H == {n \in S : point \in Points[n]}
  <1>1. \A n \in S : Points[n] \in SUBSET Nat /\ Points[n] # {}
    BY AssignerAssumption
  <1>2. ring \in SUBSET Nat /\ ring # {}
    BY <1>1 DEF Ring
  <1>3. from \in SUBSET Nat /\ from # {}
    BY <1>2
  <1>4. point \in from /\ \A q \in from : point <= q
    <2>1. \E p \in from : \A q \in from : p <= q
      <3> HIDE DEF from
      <3> QED
        BY <1>3, LeastExists
    <2> HIDE DEF from
    <2> QED
      BY <2>1
  <1>5. IsPoint(S, h, point)
    <2>1. CASE after = {}
      <3>1. from = ring
        BY <2>1
      <3>2. \A q \in ring : q < h
        <4>1. \A q \in ring : ~ (q >= h) /\ q \in Nat
          BY <1>2, <2>1
        <4> QED
          BY <4>1
      <3> HIDE DEF from, point
      <3> QED
        BY <1>4, <3>1, <3>2 DEF IsPoint
    <2>2. CASE after # {}
      <3>1. from = after
        BY <2>2
      <3> HIDE DEF from, point
      <3> QED
        BY <1>4, <3>1 DEF IsPoint
    <2> QED
      BY <2>1, <2>2
  <1>6. H # {} /\ H \in SUBSET Nat /\ IsFiniteSet(H)
    <2>1. point \in ring
      BY <1>5 DEF IsPoint
    <2> HIDE DEF point
    <2>2. H # {}
      BY <2>1 DEF Ring
    <2>3. H \in SUBSET Node
      OBVIOUS
    <2> QED
      BY <2>2, <2>3, AssignerAssumption, FS_Subset
  <1>7. \E n \in S : point \in Points[n] /\ \A m \in S : point \in Points[m] => m <= n
    <2>1. PICK n \in H : \A m \in H : m <= n
      <3> HIDE DEF H
      <3> QED
        BY <1>6, GreatestExists
    <2> HIDE DEF point
    <2> QED
      BY <2>1
  <1>8. RingGet(list, h)
          = CHOOSE n \in S : point \in Points[n] /\ \A m \in S : point \in Points[m] => m <= n
    BY DEF RingGet, Ring
  <1> HIDE DEF point
  <1> DEFINE o == RingGet(list, h)
  <1>9. o \in S /\ point \in Points[o] /\ \A m \in S : point \in Points[m] => m <= o
    BY <1>7, <1>8
  <1> HIDE DEF o
  <1>10. IsRingOwner(S, h, o)
    BY <1>5, <1>9 DEF IsRingOwner
  <1> QED
    BY <1>10 DEF o

(* And there is only one such node. *)
LEMMA RingOwnerUnique ==
  ASSUME NEW S \in SUBSET Node, NEW h \in Nat, NEW m, NEW n,
         IsRingOwner(S, h, m), IsRingOwner(S, h, n)
  PROVE  m = n
  <1>1. PICK p \in Points[m] : m \in S /\ IsPoint(S, h, p)
                               /\ \A l \in S : p \in Points[l] => l <= m
    BY DEF IsRingOwner
  <1>2. PICK q \in Points[n] : n \in S /\ IsPoint(S, h, q)
                               /\ \A l \in S : q \in Points[l] => l <= n
    BY DEF IsRingOwner
  <1>3. p \in Nat /\ q \in Nat /\ m \in Nat /\ n \in Nat
    BY <1>1, <1>2, AssignerAssumption
  <1>4. p = q
    BY <1>1, <1>2, <1>3 DEF IsPoint
  <1> QED
    BY <1>1, <1>2, <1>3, <1>4

(* A node that stays on a smaller ring keeps its tasks. *)
LEMMA ConsistentStable ==
  ASSUME NEW A \in SUBSET Node, NEW B \in SUBSET A, NEW n \in B, NEW t \in Task,
         ConsistentOwner(Sorted(A), t) = n
  PROVE  ConsistentOwner(Sorted(B), t) = n
  <1> DEFINE h == Hash[t]
  <1>1. h \in Nat
    BY AssignerAssumption
  <1>2. Members(Sorted(A)) = A /\ Members(Sorted(B)) = B
    BY SortedList DEF IsList
  <1>3. IsRingOwner(A, h, n)
    BY <1>1, <1>2, RingOwnerIs DEF ConsistentOwner
  <1>4. IsRingOwner(B, h, n)
    <2>1. PICK p \in Points[n] : n \in A /\ IsPoint(A, h, p)
                                 /\ \A l \in A : p \in Points[l] => l <= n
      BY <1>3 DEF IsRingOwner
    <2>2. p \in Ring(B) /\ Ring(B) \subseteq Ring(A)
      BY DEF Ring
    <2>3. IsPoint(B, h, p)
      BY <2>1, <2>2 DEF IsPoint
    <2> QED
      BY <2>1, <2>3 DEF IsRingOwner
  <1>5. IsRingOwner(B, h, ConsistentOwner(Sorted(B), t))
    BY <1>1, <1>2, RingOwnerIs DEF ConsistentOwner
  <1> HIDE DEF h
  <1> QED
    BY <1>1, <1>4, <1>5, RingOwnerUnique

-----------------------------------------------------------------------------
(* weighted: the sums of the weights. *)

(* Sums of naturals from the left exist.  (Induction over the length: a      *)
(* shortest list without them would be one longer than a list that has them.) *)
LEMMA PrefixSums ==
  ASSUME NEW k \in Nat, NEW w \in [1 .. k -> Nat]
  PROVE  \E f \in [0 .. k -> Nat] :
           f[0] = 0 /\ \A i \in 1 .. k : f[i] = f[i - 1] + w[i]
  <1> DEFINE Sums(n) == \E f \in [0 .. n -> Nat] :
                          f[0] = 0 /\ \A i \in 1 .. n : f[i] = f[i - 1] + w[i]
             B == {n \in 0 .. k : ~ Sums(n)}
  <1>1. Sums(0)
    <2> DEFINE f == [i \in 0 .. 0 |-> 0]
    <2>1. f \in [0 .. 0 -> Nat] /\ f[0] = 0 /\ \A i \in 1 .. 0 : f[i] = f[i - 1] + w[i]
      OBVIOUS
    <2> QED
      BY <2>1
  <1>2. ASSUME NEW n \in 1 .. k, Sums(n - 1) PROVE Sums(n)
    <2>1. PICK f \in [0 .. n - 1 -> Nat] :
            f[0] = 0 /\ \A i \in 1 .. n - 1 : f[i] = f[i - 1] + w[i]
      BY <1>2
    <2> DEFINE g == [i \in 0 .. n |-> IF i = n THEN f[n - 1] + w[n] ELSE f[i]]
    <2>2. g \in [0 .. n -> Nat]
      <3>1. f[n - 1] + w[n] \in Nat
        BY <2>1
      <3>2. \A i \in 0 .. n : i # n => f[i] \in Nat
        BY <2>1
      <3> QED
        BY <3>1, <3>2
    <2>3. g[0] = 0
      BY <2>1
    <2>4. \A i \in 1 .. n : g[i] = g[i - 1] + w[i]
      <3> SUFFICES ASSUME NEW i \in 1 .. n PROVE g[i] = g[i - 1] + w[i]
        OBVIOUS
      <3>1. i - 1 \in 0 .. n /\ i - 1 # n /\ i \in 0 .. n
        OBVIOUS
      <3>2. g[i - 1] = f[i - 1]
        BY <3>1
      <3>3. CASE i = n
        BY <3>1, <3>2, <3>3
      <3>4. CASE i # n
        <4>1. i \in 1 .. n - 1 /\ g[i] = f[i]
          BY <3>1, <3>4
        <4> QED
          BY <2>1, <3>2, <4>1
      <3> QED
        BY <3>3, <3>4
    <2> HIDE DEF g
    <2> QED
      BY <2>2, <2>3, <2>4
  <1> HIDE DEF Sums
  <1>3. B = {}
    <2> SUFFICES ASSUME B # {} PROVE FALSE
      OBVIOUS
    <2>1. B \in SUBSET Nat
      OBVIOUS
    <2>2. PICK n \in B : \A m \in B : n <= m
      <3> HIDE DEF B
      <3> QED
        BY <2>1, LeastExists
    <2>3. n \in 1 .. k /\ ~ Sums(n)
      BY <1>1, <2>2
    <2>4. n - 1 \in 0 .. k /\ ~ (n <= n - 1)
      BY <2>3
    <2>5. Sums(n - 1)
      BY <2>2, <2>4
    <2> QED
      BY <1>2, <2>3, <2>5
  <1>4. Sums(k)
    BY <1>3
  <1> QED
    BY <1>4 DEF Sums

(* WeightUpTo is defined by such sums, so the total weight is a natural. *)
LEMMA WeightSums ==
  ASSUME NEW S \in SUBSET Node, S # {}
  PROVE  /\ WeightUpTo(Sorted(S)) \in [0 .. Cardinality(S) -> Nat]
         /\ TotalWeight(Sorted(S)) = WeightUpTo(Sorted(S))[Cardinality(S)]
  <1> DEFINE list == Sorted(S)
             k == Cardinality(S)
             w == [i \in 1 .. k |-> Weight[list[i]]]
             R(f) == f = [i \in 0 .. k |-> IF i = 0 THEN 0 ELSE f[i - 1] + Weight[list[i]]]
  <1>1. IsList(list, S) /\ k \in Nat \ {0} /\ Len(list) = k
    BY SortedList DEF IsList
  <1>2. w \in [1 .. k -> Nat]
    <2>1. \A i \in 1 .. k : list[i] \in Node
      BY <1>1 DEF IsList
    <2> HIDE DEF list, k
    <2> QED
      BY <2>1, AssignerAssumption
  <1>3. WeightUpTo(list) = CHOOSE f : R(f)
    BY <1>1 DEF WeightUpTo
  <1>4. \E f : R(f)
    <2>1. PICK f \in [0 .. k -> Nat] : f[0] = 0 /\ \A i \in 1 .. k : f[i] = f[i - 1] + w[i]
      <3> HIDE DEF w, list, k
      <3> QED
        BY <1>1, <1>2, PrefixSums
    <2> HIDE DEF list, k
    <2>2. \A i \in 0 .. k : f[i] = IF i = 0 THEN 0 ELSE f[i - 1] + Weight[list[i]]
      BY <1>1, <2>1
    <2>3. R(f)
      BY <2>1, <2>2
    <2> QED
      BY <2>3
  <1> DEFINE sum == WeightUpTo(list)
  <1>5. R(sum)
    <2> HIDE DEF R
    <2> QED
      BY <1>3, <1>4
  <1>6. TotalWeight(list) = sum[k]
    BY <1>1 DEF TotalWeight
  <1> HIDE DEF list, k, sum
  <1>7. /\ DOMAIN sum = 0 .. k /\ sum[0] = 0
        /\ \A i \in 1 .. k : sum[i] = sum[i - 1] + w[i]
        /\ sum = [i \in 0 .. k |-> sum[i]]
    <2>1. sum = [i \in 0 .. k |-> IF i = 0 THEN 0 ELSE sum[i - 1] + Weight[list[i]]]
      BY <1>5
    <2>2. DOMAIN sum = 0 .. k
      BY <2>1
    <2>3. \A i \in 0 .. k : sum[i] = IF i = 0 THEN 0 ELSE sum[i - 1] + Weight[list[i]]
      BY <2>1
    <2>4. \A i \in 1 .. k : i \in 0 .. k /\ i # 0
      BY <1>1
    <2>5. \A i \in 1 .. k : sum[i] = sum[i - 1] + w[i]
      BY <2>3, <2>4
    <2>6. sum[0] = 0
      BY <1>1, <2>3
    <2>7. sum = [i \in 0 .. k |-> sum[i]]
      BY <2>1
    <2> QED
      BY <2>2, <2>5, <2>6, <2>7
  <1>8. \A i \in 0 .. k : sum[i] \in Nat
    <2> DEFINE B == {i \in 0 .. k : sum[i] \notin Nat}
    <2> SUFFICES ASSUME B # {} PROVE FALSE
      OBVIOUS
    <2>1. B \in SUBSET Nat
      OBVIOUS
    <2>2. PICK n \in B : \A m \in B : n <= m
      <3> HIDE DEF B
      <3> QED
        BY <2>1, LeastExists
    <2>3. n \in 1 .. k /\ sum[n] \notin Nat
      BY <1>7, <2>2
    <2>4. n - 1 \in 0 .. k /\ ~ (n <= n - 1)
      BY <1>1, <2>3
    <2>5. sum[n - 1] \in Nat
      BY <2>2, <2>4
    <2>6. w[n] \in Nat
      BY <1>2, <2>3
    <2> HIDE DEF w, B
    <2> QED
      BY <1>7, <2>3, <2>5, <2>6
  <1>9. sum \in [0 .. k -> Nat]
    BY <1>7, <1>8
  <1> QED
    BY <1>6, <1>9 DEF list, k, sum

(* The node in whose share the hash falls is on the list: the last share ends *)
(* at the total weight, unless that is 0.                                     *)
LEMMA WeightedListed ==
  ASSUME NEW S \in SUBSET Node, S # {}, NEW t \in Task, TotalWeight(Sorted(S)) # 0
  PROVE  WeightedOwner(Sorted(S), t) \in S
  <1> DEFINE list == Sorted(S)
             k == Cardinality(S)
             sum == WeightUpTo(list)
             total == TotalWeight(list)
             x == Hash[t] % total
             Q == {i \in 1 .. k : x - sum[i] < 0}
  <1>1. IsList(list, S) /\ k \in Nat \ {0} /\ Len(list) = k
    BY SortedList DEF IsList
  <1>2. sum \in [0 .. k -> Nat] /\ total = sum[k] /\ total # 0
    BY WeightSums
  <1>3. WeightedOwner(list, t) = NodeAt(list,
          IF \E i \in 1 .. k : x - sum[i] < 0
          THEN CHOOSE i \in 1 .. k :
                 x - sum[i] < 0 /\ \A j \in 1 .. i - 1 : ~ (x - sum[j] < 0)
          ELSE 0)
    BY <1>1 DEF WeightedOwner, FirstIndex
  <1> HIDE DEF list, k, sum, total
  <1>4. x \in 0 .. total - 1
    <2>1. Hash[t] \in Nat /\ total \in Nat \ {0}
      BY <1>1, <1>2, AssignerAssumption
    <2> QED
      BY <2>1, Remainder
  <1> HIDE DEF x
  <1>5. Q # {} /\ Q \in SUBSET Nat
    <2>1. k \in 1 .. k /\ total \in Nat
      BY <1>1, <1>2
    <2>2. x - sum[k] < 0
      BY <1>2, <1>4, <2>1
    <2> QED
      BY <1>1, <2>1, <2>2
  <1>6. PICK i \in Q : \A j \in Q : i <= j
    <2> HIDE DEF Q
    <2> QED
      BY <1>5, LeastExists
  <1>7. \A j \in 1 .. i - 1 : ~ (x - sum[j] < 0)
    <2> SUFFICES ASSUME NEW j \in 1 .. i - 1, x - sum[j] < 0 PROVE FALSE
      OBVIOUS
    <2>1. j \in Q /\ ~ (i <= j)
      BY <1>1, <1>6
    <2> QED
      BY <1>6, <2>1
  <1> DEFINE c == CHOOSE l \in 1 .. k :
                    x - sum[l] < 0 /\ \A j \in 1 .. l - 1 : ~ (x - sum[j] < 0)
  <1>8. c \in 1 .. k
    BY <1>6, <1>7
  <1>9. WeightedOwner(list, t) = NodeAt(list, c)
    BY <1>3, <1>6
  <1> HIDE DEF c
  <1>10. c # 0
    BY <1>8
  <1>11. WeightedOwner(list, t) \in S
    BY <1>1, <1>8, <1>9, <1>10 DEF NodeAt, IsList, k
  <1> QED
    BY <1>11 DEF list

-----------------------------------------------------------------------------
(* hash-slot: each node has an interval of slots. *)

(* Where the slots of the i-th of k nodes begin: every node before it has the *)
(* quotient, and the first ones, as many as the remainder, one more.          *)
SlotStart(k, i) ==
  (i - 1) * (SlotCount \div k) + (IF i - 1 <= SlotCount % k THEN i - 1 ELSE SlotCount % k)

(* Division with remainder. *)
LEMMA Division ==
  ASSUME NEW a \in Nat, NEW k \in Nat \ {0}
  PROVE  a \div k \in Nat /\ a % k \in 0 .. k - 1 /\ a = k * (a \div k) + (a % k)
  OBVIOUS

(* The intervals follow on each other, from 0 to the number of slots. *)
LEMMA SlotIntervals ==
  ASSUME NEW list, NEW k \in Nat \ {0}, Len(list) = k
  PROVE  /\ SlotStart(k, 1) = 0
         /\ \A i \in 1 .. k : SlotStart(k, i) \in Nat /\ SlotsNum(list, i) \in Nat
         /\ \A i \in 1 .. k : SlotStart(k, i + 1) = SlotStart(k, i) + SlotsNum(list, i)
         /\ \A i, j \in 1 .. k : i < j => SlotStart(k, i + 1) <= SlotStart(k, j)
         /\ SlotStart(k, k + 1) = SlotCount
         /\ \A i \in 1 .. k : SlotStart(k, i + 1) <= SlotCount
  <1> DEFINE q == SlotCount \div k
             r == SlotCount % k
  <1>1. q \in Nat /\ r \in 0 .. k - 1 /\ SlotCount = k * q + r /\ SlotCount \in Nat
    BY AssignerAssumption, Division
  <1>2. \A i : SlotStart(k, i) = (i - 1) * q + (IF i - 1 <= r THEN i - 1 ELSE r)
    BY DEF SlotStart
  <1>3. \A i : SlotsNum(list, i) = q + (IF i <= r THEN 1 ELSE 0)
    BY DEF SlotsNum
  <1> HIDE DEF q, r
  <1>4. SlotStart(k, 1) = 0
    BY <1>1, <1>2
  <1>5. \A i \in 1 .. k + 1 : (i - 1) * q \in Nat /\ SlotStart(k, i) \in Nat
    <2> SUFFICES ASSUME NEW i \in 1 .. k + 1
                 PROVE  (i - 1) * q \in Nat /\ SlotStart(k, i) \in Nat
      OBVIOUS
    <2>1. i - 1 \in Nat
      OBVIOUS
    <2>2. (i - 1) * q \in Nat
      BY <1>1, <2>1
    <2> QED
      BY <1>1, <1>2, <2>1, <2>2
  <1>6. \A i \in 1 .. k : SlotsNum(list, i) \in Nat
    BY <1>1, <1>3
  <1>7. \A i \in 1 .. k : SlotStart(k, i + 1) = SlotStart(k, i) + SlotsNum(list, i)
    <2> SUFFICES ASSUME NEW i \in 1 .. k
                 PROVE  SlotStart(k, i + 1) = SlotStart(k, i) + SlotsNum(list, i)
      OBVIOUS
    <2>1. (i + 1) - 1 = i /\ i * q = (i - 1) * q + q /\ (i - 1) * q \in Nat
      BY <1>1, <1>5
    <2>2. SlotStart(k, i + 1) = i * q + (IF i <= r THEN i ELSE r)
      BY <1>2, <2>1
    <2> QED
      BY <1>1, <1>2, <1>3, <2>1, <2>2
  <1>8. \A i, j \in 1 .. k + 1 : i <= j => SlotStart(k, i) <= SlotStart(k, j)
    <2> SUFFICES ASSUME NEW i \in 1 .. k + 1, NEW j \in 1 .. k + 1, i <= j
                 PROVE  SlotStart(k, i) <= SlotStart(k, j)
      OBVIOUS
    <2>1. (j - 1) * q = (i - 1) * q + (j - i) * q /\ (j - i) * q >= 0
      <3>1. j - i \in Nat
        OBVIOUS
      <3>2. (j - i) * q \in Nat
        BY <1>1, <3>1
      <3>3. (j - 1) * q = (i - 1) * q + (j - i) * q
        BY <1>1
      <3> QED
        BY <3>2, <3>3
    <2>2. (i - 1) * q \in Nat /\ (j - 1) * q \in Nat
      BY <1>5
    <2>3. (IF i - 1 <= r THEN i - 1 ELSE r) <= (IF j - 1 <= r THEN j - 1 ELSE r)
      BY <1>1
    <2> DEFINE a == (i - 1) * q
               b == (j - 1) * q
               c == (j - i) * q
               d == IF i - 1 <= r THEN i - 1 ELSE r
               e == IF j - 1 <= r THEN j - 1 ELSE r
    <2>4. SlotStart(k, i) = a + d /\ SlotStart(k, j) = b + e
      BY <1>2
    <2>5. a \in Int /\ b \in Int /\ c \in Int /\ d \in Int /\ e \in Int
      BY <1>1
    <2>6. b = a + c /\ c >= 0 /\ d <= e
      BY <2>1, <2>3
    <2> HIDE DEF a, b, c, d, e
    <2> QED
      BY <2>4, <2>5, <2>6
  <1>9. SlotStart(k, k + 1) = SlotCount
    <2>1. (k + 1) - 1 = k /\ ~ (k <= r)
      BY <1>1
    <2>2. SlotStart(k, k + 1) = k * q + r
      BY <1>2, <2>1
    <2> QED
      BY <1>1, <2>2
  <1>10. \A i, j \in 1 .. k : i < j => SlotStart(k, i + 1) <= SlotStart(k, j)
    BY <1>8
  <1>11. \A i \in 1 .. k : SlotStart(k, i + 1) <= SlotCount
    BY <1>8, <1>9
  <1> QED
    BY <1>4, <1>5, <1>6, <1>7, <1>9, <1>10, <1>11

(* UpdateNodes adds up slotIndex to these starts. *)
LEMMA SlotIndexIs ==
  ASSUME NEW list, NEW k \in Nat \ {0}, Len(list) = k
  PROVE  SlotIndex(list) = [i \in 1 .. k |-> SlotStart(k, i)]
  <1> DEFINE R(f) == f = [i \in 1 .. k |->
                            IF i = 1 THEN 0 ELSE f[i - 1] + SlotsNum(list, i - 1)]
             g == [i \in 1 .. k |-> SlotStart(k, i)]
             index == SlotIndex(list)
  <1>1. SlotIndex(list) = CHOOSE f : R(f)
    BY DEF SlotIndex
  <1>2. \A i \in 1 .. k :
          SlotStart(k, i)
            = IF i = 1 THEN 0 ELSE SlotStart(k, i - 1) + SlotsNum(list, i - 1)
    <2> SUFFICES ASSUME NEW i \in 1 .. k
                 PROVE  SlotStart(k, i)
                         = IF i = 1 THEN 0 ELSE SlotStart(k, i - 1) + SlotsNum(list, i - 1)
      OBVIOUS
    <2>1. CASE i = 1
      BY <2>1, SlotIntervals
    <2>2. CASE i # 1
      <3>1. i - 1 \in 1 .. k /\ (i - 1) + 1 = i
        BY <2>2
      <3>2. SlotStart(k, (i - 1) + 1) = SlotStart(k, i - 1) + SlotsNum(list, i - 1)
        BY <3>1, SlotIntervals
      <3> QED
        BY <2>2, <3>1, <3>2
    <2> QED
      BY <2>1, <2>2
  <1>3. R(g)
    <2>1. \A i \in 1 .. k : i # 1 => i - 1 \in 1 .. k
      OBVIOUS
    <2>2. \A i \in 1 .. k : i # 1 => g[i - 1] = SlotStart(k, i - 1)
      BY <2>1
    <2> QED
      BY <1>2, <2>2
  <1>4. R(index)
    <2> HIDE DEF R
    <2> QED
      BY <1>1, <1>3
  <1> HIDE DEF index
  <1>5. /\ DOMAIN index = 1 .. k /\ index = [i \in 1 .. k |-> index[i]]
        /\ \A i \in 1 .. k :
             index[i] = IF i = 1 THEN 0 ELSE index[i - 1] + SlotsNum(list, i - 1)
    BY <1>4
  <1>6. \A i \in 1 .. k : index[i] = SlotStart(k, i)
    <2> DEFINE B == {i \in 1 .. k : index[i] # SlotStart(k, i)}
    <2> SUFFICES ASSUME B # {} PROVE FALSE
      OBVIOUS
    <2>1. B \in SUBSET Nat
      OBVIOUS
    <2>2. PICK n \in B : \A m \in B : n <= m
      <3> HIDE DEF B
      <3> QED
        BY <2>1, LeastExists
    <2>3. n \in 1 .. k /\ index[n] # SlotStart(k, n)
      BY <2>2
    <2>4. n # 1
      BY <1>2, <1>5, <2>3
    <2>5. n - 1 \in 1 .. k /\ ~ (n <= n - 1)
      BY <2>3, <2>4
    <2>6. index[n - 1] = SlotStart(k, n - 1)
      BY <2>2, <2>5
    <2>7. index[n] = index[n - 1] + SlotsNum(list, n - 1)
      BY <1>5, <2>3, <2>4
    <2>8. SlotStart(k, n) = SlotStart(k, n - 1) + SlotsNum(list, n - 1)
      BY <1>2, <2>3, <2>4
    <2> QED
      BY <2>3, <2>6, <2>7, <2>8
  <1> QED
    BY <1>5, <1>6 DEF index

(* A slot belongs to the node in whose interval it lies, and to no other. *)
LEMMA SlotOwner ==
  ASSUME NEW S \in SUBSET Node, S # {}, NEW x \in 0 .. SlotCount - 1
  PROVE  \E i \in 1 .. Cardinality(S) :
           /\ Slots(Sorted(S))[x] = Sorted(S)[i]
           /\ \A j \in 1 .. Cardinality(S) :
                j = i <=> /\ SlotStart(Cardinality(S), j) <= x
                          /\ x < SlotStart(Cardinality(S), j + 1)
  <1> DEFINE list == Sorted(S)
             k == Cardinality(S)
             index == SlotIndex(list)
             Has(i) == SlotStart(k, i) <= x /\ x < SlotStart(k, i + 1)
             G == {i \in 1 .. k : x < SlotStart(k, i + 1)}
  <1>1. k \in Nat \ {0} /\ Len(list) = k
    BY SortedList DEF IsList
  <1>2. x \in Nat /\ x < SlotCount /\ SlotCount \in Nat
    BY AssignerAssumption
  <1>3. \A i \in 1 .. k : /\ index[i] = SlotStart(k, i)
                          /\ index[i] + SlotsNum(list, i) = SlotStart(k, i + 1)
    <2> HIDE DEF list, k
    <2>1. index = [i \in 1 .. k |-> SlotStart(k, i)]
      BY <1>1, SlotIndexIs
    <2>2. \A i \in 1 .. k : SlotStart(k, i + 1) = SlotStart(k, i) + SlotsNum(list, i)
      BY <1>1, SlotIntervals
    <2> HIDE DEF index
    <2> QED
      BY <2>1, <2>2
  <1>4. Slots(list)[x] = NodeAt(list,
          IF \E i \in 1 .. k : index[i] <= x /\ x < index[i] + SlotsNum(list, i)
          THEN CHOOSE i \in 1 .. k :
                 /\ index[i] <= x /\ x < index[i] + SlotsNum(list, i)
                 /\ \A j \in 1 .. i - 1 :
                      ~ (index[j] <= x /\ x < index[j] + SlotsNum(list, j))
          ELSE 0)
    BY <1>1 DEF Slots, FirstIndex
  <1> HIDE DEF list, k, index
  <1>5. /\ SlotStart(k, 1) = 0 /\ SlotStart(k, k + 1) = SlotCount
        /\ \A i \in 1 .. k : SlotStart(k, i) \in Nat /\ SlotStart(k, i + 1) \in Nat
        /\ \A i, j \in 1 .. k : i < j => SlotStart(k, i + 1) <= SlotStart(k, j)
    <2>1. \A i \in 1 .. k : SlotStart(k, i) \in Nat /\ SlotsNum(list, i) \in Nat
                            /\ SlotStart(k, i + 1) = SlotStart(k, i) + SlotsNum(list, i)
      BY <1>1, SlotIntervals
    <2>2. \A i \in 1 .. k : SlotStart(k, i + 1) \in Nat
      BY <2>1
    <2> QED
      BY <1>1, <2>1, <2>2, SlotIntervals
  <1>6. PICK i \in 1 .. k : Has(i)
    <2>1. G \in SUBSET Nat /\ k \in G
      BY <1>1, <1>2, <1>5
    <2>2. PICK i \in G : \A j \in G : i <= j
      <3> HIDE DEF G
      <3> QED
        BY <2>1, LeastExists
    <2>3. i \in 1 .. k /\ x < SlotStart(k, i + 1)
      BY <2>2
    <2>4. SlotStart(k, i) <= x
      <3>1. CASE i = 1
        BY <1>2, <1>5, <3>1
      <3>2. CASE i # 1
        <4>1. i - 1 \in 1 .. k /\ ~ (i <= i - 1) /\ (i - 1) + 1 = i
          BY <1>1, <2>3, <3>2
        <4>2. ~ (x < SlotStart(k, i))
          BY <2>2, <4>1
        <4>3. SlotStart(k, i) \in Nat
          BY <1>5, <2>3
        <4> QED
          BY <1>2, <4>2, <4>3
      <3> QED
        BY <3>1, <3>2
    <2> QED
      BY <2>3, <2>4
  <1>7. \A j \in 1 .. k : Has(j) => j = i
    <2> SUFFICES ASSUME NEW j \in 1 .. k, Has(j), j # i PROVE FALSE
      OBVIOUS
    <2>1. /\ SlotStart(k, i) \in Nat /\ SlotStart(k, i + 1) \in Nat
          /\ SlotStart(k, j) \in Nat /\ SlotStart(k, j + 1) \in Nat
      BY <1>5
    <2>2. i < j \/ j < i
      OBVIOUS
    <2>3. SlotStart(k, i + 1) <= SlotStart(k, j) \/ SlotStart(k, j + 1) <= SlotStart(k, i)
      BY <1>5, <2>2
    <2> QED
      BY <1>2, <1>6, <2>1, <2>3
  <1>8. \A j \in 1 .. k :
          Has(j) <=> index[j] <= x /\ x < index[j] + SlotsNum(list, j)
    BY <1>3
  <1> HIDE DEF Has
  <1> DEFINE c == CHOOSE l \in 1 .. k :
                    /\ index[l] <= x /\ x < index[l] + SlotsNum(list, l)
                    /\ \A j \in 1 .. l - 1 :
                         ~ (index[j] <= x /\ x < index[j] + SlotsNum(list, j))
  <1>9. \A j \in 1 .. i - 1 : j \in 1 .. k /\ j # i
    BY <1>1
  <1>10. c \in 1 .. k /\ Has(c)
    <2>1. /\ index[i] <= x /\ x < index[i] + SlotsNum(list, i)
          /\ \A j \in 1 .. i - 1 : ~ (index[j] <= x /\ x < index[j] + SlotsNum(list, j))
      BY <1>6, <1>7, <1>8, <1>9
    <2>2. /\ c \in 1 .. k
          /\ index[c] <= x /\ x < index[c] + SlotsNum(list, c)
      BY <2>1
    <2> QED
      BY <1>8, <2>2
  <1>11. Slots(list)[x] = NodeAt(list, c)
    BY <1>4, <1>6, <1>8
  <1> HIDE DEF c
  <1>12. c = i /\ c # 0
    BY <1>7, <1>10
  <1>13. Slots(list)[x] = list[i]
    BY <1>11, <1>12 DEF NodeAt
  <1> QED
    BY <1>6, <1>7, <1>13 DEF list, k, Has

(* So the owner of a slot is on the list. *)
LEMMA HashSlotListed ==
  ASSUME NEW S \in SUBSET Node, S # {}, NEW t \in Task
  PROVE  HashSlotOwner(Sorted(S), t) \in S
  <1>1. Hash[t] % SlotCount \in 0 .. SlotCount - 1
    BY AssignerAssumption, Remainder
  <1>2. PICK i \in 1 .. Cardinality(S) :
          Slots(Sorted(S))[Hash[t] % SlotCount] = Sorted(S)[i]
    BY <1>1, SlotOwner
  <1>3. Sorted(S)[i] \in S
    BY SortedList DEF IsList
  <1> QED
    BY <1>2, <1>3 DEF HashSlotOwner

(* A node has as many slots as UpdateNodes has counted out for it. *)
LEMMA SlotsOf ==
  ASSUME NEW S \in SUBSET Node, S # {}, NEW i \in 1 .. Cardinality(S)
  PROVE  Cardinality({x \in 0 .. SlotCount - 1 : Slots(Sorted(S))[x] = Sorted(S)[i]})
           = SlotsNum(Sorted(S), i)
  <1> DEFINE list == Sorted(S)
             k == Cardinality(S)
             slots == Slots(list)
             X == {x \in 0 .. SlotCount - 1 : slots[x] = list[i]}
             a == SlotStart(k, i)
             b == SlotStart(k, i + 1)
             n == SlotsNum(list, i)
  <1>1. IsList(list, S) /\ k \in Nat \ {0} /\ Len(list) = k
    BY SortedList DEF IsList
  <1>2. a \in Nat /\ n \in Nat /\ b = a + n /\ b <= SlotCount /\ SlotCount \in Nat
    <2> HIDE DEF list, k
    <2> QED
      BY <1>1, SlotIntervals, AssignerAssumption DEF k
  <1>3. \A j \in 1 .. k : list[j] = list[i] => j = i
    <2> SUFFICES ASSUME NEW j \in 1 .. k, list[j] = list[i], j # i PROVE FALSE
      OBVIOUS
    <2>1. (i < j => list[i] < list[j]) /\ (j < i => list[j] < list[i]) /\ list[i] \in S
      BY <1>1 DEF IsList
    <2> HIDE DEF list
    <2>2. list[i] \in Nat
      BY <2>1, AssignerAssumption
    <2>3. i < j \/ j < i
      OBVIOUS
    <2> QED
      BY <2>1, <2>2, <2>3
  <1>4. \A x \in 0 .. SlotCount - 1 : slots[x] = list[i] <=> a <= x /\ x < b
    <2> SUFFICES ASSUME NEW x \in 0 .. SlotCount - 1
                 PROVE  slots[x] = list[i] <=> a <= x /\ x < b
      OBVIOUS
    <2>1. PICK j \in 1 .. k :
            /\ slots[x] = list[j]
            /\ \A l \in 1 .. k : l = j <=> SlotStart(k, l) <= x /\ x < SlotStart(k, l + 1)
      BY SlotOwner
    <2>2. i = j <=> a <= x /\ x < b
      BY <2>1
    <2> HIDE DEF list, slots, a, b
    <2> QED
      BY <1>3, <2>1, <2>2
  <1>5. X = a .. b - 1
    <2> HIDE DEF list, slots, a, b, n
    <2> QED
      BY <1>2, <1>4
  <1>6. Cardinality(a .. b - 1) = n
    <2> HIDE DEF a, b, n
    <2>1. a \in Int /\ b - 1 \in Int
      BY <1>2
    <2>2. Cardinality(a .. b - 1) = IF a > b - 1 THEN 0 ELSE (b - 1) - a + 1
      BY <2>1, FS_Interval
    <2> QED
      BY <1>2, <2>2
  <1> QED
    BY <1>5, <1>6

(* The slots of a list are spread as evenly as possible, and each has an owner. *)
LEMMA SlotsSpread ==
  ASSUME NEW S \in SUBSET Node, S # {}
  PROVE  LET slots == Slots(Sorted(S))
             count(m) == Cardinality({x \in DOMAIN slots : slots[x] = m})
         IN  count(Nobody) = 0 /\ \A l, m \in S : count(l) <= count(m) + 1
  <1> DEFINE list == Sorted(S)
             slots == Slots(list)
             count(m) == Cardinality({x \in DOMAIN slots : slots[x] = m})
             k == Cardinality(S)
  <1>1. IsList(list, S) /\ k \in Nat \ {0} /\ Len(list) = k
    BY SortedList DEF IsList
  <1>2. DOMAIN slots = 0 .. SlotCount - 1
    BY DEF Slots
  <1>3. count(Nobody) = 0
    <2>1. \A x \in 0 .. SlotCount - 1 : slots[x] \in S
      <3> SUFFICES ASSUME NEW x \in 0 .. SlotCount - 1 PROVE slots[x] \in S
        OBVIOUS
      <3>1. PICK i \in 1 .. k : slots[x] = list[i]
        BY SlotOwner
      <3> QED
        BY <1>1, <3>1 DEF IsList
    <2>2. Nobody \notin S
      BY AssignerAssumption
    <2> HIDE DEF slots
    <2>3. {x \in DOMAIN slots : slots[x] = Nobody} = {}
      BY <1>2, <2>1, <2>2
    <2> QED
      BY <2>3, FS_EmptySet
  <1>4. ASSUME NEW m \in S
        PROVE  \E i \in 1 .. k : count(m) = SlotsNum(list, i)
    <2>1. PICK i \in 1 .. k : list[i] = m
      BY <1>1 DEF IsList
    <2>2. Cardinality({x \in 0 .. SlotCount - 1 : slots[x] = list[i]}) = SlotsNum(list, i)
      BY SlotsOf
    <2> HIDE DEF slots, list
    <2> QED
      BY <1>2, <2>1, <2>2
  <1>5. SlotCount \div k \in Nat
    BY <1>1, AssignerAssumption, Division
  <1>6. \A i \in 1 .. k : SlotsNum(list, i) \in {SlotCount \div k, (SlotCount \div k) + 1}
    <2> HIDE DEF list, k
    <2> QED
      BY <1>1, <1>5 DEF SlotsNum
  <1>7. ASSUME NEW l \in S, NEW m \in S PROVE count(l) <= count(m) + 1
    <2>1. PICK i \in 1 .. k : count(l) = SlotsNum(list, i)
      BY <1>4
    <2>2. PICK j \in 1 .. k : count(m) = SlotsNum(list, j)
      BY <1>4
    <2> HIDE DEF count, list, k
    <2> QED
      BY <1>5, <1>6, <2>1, <2>2
  <1> QED
    BY <1>3, <1>7

-----------------------------------------------------------------------------
(* Whatever the strategy, a task that is offered to a list that is not empty  *)
(* gets an owner from that list, unless the assigner panics: ShouldRun grants *)
(* it on one of the listed nodes, and a list of one node gets everything.     *)
THEOREM OwnerListed ==
  ASSUME NEW s \in Strategy, NEW S \in SUBSET Node, S # {},
         NEW T \in SUBSET Task, NEW t \in T, ~ Panics(s, Sorted(S), T)
  PROVE  Owner(s, Sorted(S), t, T) \in S
  <1>1. t \in Task
    OBVIOUS
  <1>2. CASE s = "hash-sharding"
    BY <1>1, <1>2, HashShardingListed DEF Owner
  <1>3. CASE s = "consistent"
    <2>1. Hash[t] \in Nat /\ Members(Sorted(S)) = S
      BY <1>1, AssignerAssumption, SortedList DEF IsList
    <2>2. IsRingOwner(S, Hash[t], RingGet(Sorted(S), Hash[t]))
      BY <2>1, RingOwnerIs
    <2>3. RingGet(Sorted(S), Hash[t]) \in S
      BY <2>2 DEF IsRingOwner
    <2> QED
      BY <1>3, <2>3 DEF Owner, ConsistentOwner
  <1>4. CASE s = "hash-slot"
    BY <1>1, <1>4, HashSlotListed DEF Owner
  <1>5. CASE s = "range"
    <2>1. IsRangeOwner(S, t, RangeOwner(Sorted(S), t))
      BY <1>1, RangeOwnerIs
    <2>2. RangeOwner(Sorted(S), t) \in S
      BY <2>1 DEF IsRangeOwner
    <2> QED
      BY <1>5, <2>2 DEF Owner
  <1>6. CASE s = "weighted"
    <2>1. TotalWeight(Sorted(S)) # 0
      BY <1>6 DEF Panics
    <2> QED
      BY <1>1, <1>6, <2>1, WeightedListed DEF Owner
  <1>7. CASE s = "round-robin"
    BY <1>1, <1>7, RoundRobinListed DEF Owner
  <1> QED
    BY <1>2, <1>3, <1>4, <1>5, <1>6, <1>7 DEF Strategy

-----------------------------------------------------------------------------
(* Cluster. *)

(* A strategy other than round robin does not look at the other tasks that   *)
(* are offered: UpdateNodes alone fixes what ShouldRun answers.              *)
LEMMA OwnerIgnoresOffered ==
  ASSUME NEW s \in Strategy \ {"round-robin"}, NEW list, NEW t, NEW S
  PROVE  Owner(s, list, t, S) = Owner(s, list, t, {})
  BY DEF Owner, Strategy

(* Every assigned task is one that the node's assigner gives to the node. *)
OwnedByList ==
  strategy # "round-robin" =>
    \A n \in Node : \A t \in assigned[n] :
      Owner(strategy, Sorted(assignerNodes[n]), t, {}) = n

IInv == TypeOK /\ OwnedByList

(* The initial state: nothing is assigned. *)
LEMMA InitIInv == Init => IInv
  BY ClusterAssumption DEF Init, List!Init, IInv, TypeOK, OwnedByList

(* What a dying process leaves behind satisfies the invariant. *)
LEMMA ForgetIInv ==
  ASSUME IInv, NEW n \in Node, Forget(n), strategy' = strategy,
         up' \subseteq Node, working' \subseteq Node, live' = live, ops' \in 0 .. MaxOps
  PROVE  IInv'
  <1>1. TypeOK'
    BY DEF IInv, TypeOK, Forget
  <1>2. /\ assigned' = [assigned EXCEPT ![n] = {}]
        /\ assignerNodes' = [assignerNodes EXCEPT ![n] = {}]
    BY DEF Forget
  <1>3. OwnedByList'
    BY <1>2 DEF IInv, TypeOK, OwnedByList
  <1> QED
    BY <1>1, <1>3 DEF IInv

(* A step that leaves the assigners and the assigned tasks alone keeps the   *)
(* second conjunct.                                                          *)
LEMMA OwnedUnchanged ==
  ASSUME IInv, UNCHANGED <<strategy, assignerNodes, assigned>>
  PROVE  OwnedByList'
  BY DEF IInv, OwnedByList

(* Every step keeps the invariant; a rebalance is the step that could not.   *)
LEMMA NextIInv == IInv /\ [Next]_vars => IInv'
  <1> SUFFICES ASSUME IInv, [Next]_vars PROVE IInv'
    OBVIOUS
  <1>1. ASSUME NEW n \in Node, Start(n) PROVE IInv'
    <2>1. TypeOK'
      BY <1>1, ClusterAssumption DEF IInv, TypeOK, Start, List!Boot, Spend
    <2>2. OwnedByList'
      BY <1>1, OwnedUnchanged DEF Start
    <2> QED
      BY <2>1, <2>2 DEF IInv
  <1>2. ASSUME NEW n \in Node, Join(n) PROVE IInv'
    <2>1. TypeOK'
      BY <1>2, ClusterAssumption DEF IInv, TypeOK, Join, List!Join, Spend
    <2>2. OwnedByList'
      BY <1>2, OwnedUnchanged DEF Join
    <2> QED
      BY <2>1, <2>2 DEF IInv
  <1>3. ASSUME NEW n \in Node, Die(n) PROVE IInv'
    BY <1>3, ForgetIInv, ClusterAssumption DEF IInv, TypeOK, Die, List!Die, Spend
  <1>4. ASSUME NEW S \in SUBSET Node, Drop(S) PROVE IInv'
    <2>1. TypeOK'
      BY <1>4, ClusterAssumption DEF IInv, TypeOK, Drop, List!Drop, Spend
    <2>2. OwnedByList'
      BY <1>4, OwnedUnchanged DEF Drop
    <2> QED
      BY <2>1, <2>2 DEF IInv
  <1>5. ASSUME NEW t \in Task, ChangeTask(t) PROVE IInv'
    <2>1. TypeOK'
      BY <1>5, ClusterAssumption DEF IInv, TypeOK, ChangeTask, Spend
    <2>2. OwnedByList'
      BY <1>5, OwnedUnchanged DEF ChangeTask
    <2> QED
      BY <2>1, <2>2 DEF IInv
  <1>6. ASSUME NEW n \in Node, reloadNodes(n) PROVE IInv'
    <2>1. TypeOK'
      BY <1>6 DEF IInv, TypeOK, reloadNodes
    <2>2. OwnedByList'
      BY <1>6, OwnedUnchanged DEF reloadNodes
    <2> QED
      BY <2>1, <2>2 DEF IInv
  <1>7. ASSUME NEW n \in Node, reloadTasks(n) PROVE IInv'
    <2>1. TypeOK'
      BY <1>7 DEF IInv, TypeOK, reloadTasks
    <2>2. OwnedByList'
      BY <1>7, OwnedUnchanged DEF reloadTasks
    <2> QED
      BY <2>1, <2>2 DEF IInv
  <1>8. ASSUME NEW n \in Node, doRebalanced(n) PROVE IInv'
    <2>1. CASE nodes[n] = {}
      <3>1. TypeOK'
        BY <1>8, <2>1 DEF IInv, TypeOK, doRebalanced
      <3>2. OwnedByList'
        BY <1>8, <2>1, OwnedUnchanged DEF doRebalanced
      <3> QED
        BY <3>1, <3>2 DEF IInv
    <2>2. CASE nodes[n] # {}
      <3> DEFINE mine == {t \in offered[n] :
                            ShouldRun(strategy, Sorted(nodes[n]), t, offered[n], n)}
      <3>1. /\ assignerNodes' = [assignerNodes EXCEPT ![n] = nodes[n]]
            /\ assigned' = [assigned EXCEPT ![n] = mine]
            /\ strategy' = strategy
        BY <1>8, <2>2 DEF doRebalanced
      <3>2. TypeOK'
        BY <1>8, <3>1 DEF IInv, TypeOK, doRebalanced
      <3>3. ASSUME strategy # "round-robin", NEW t \in mine
            PROVE  Owner(strategy, Sorted(nodes[n]), t, {}) = n
        <4>1. Owner(strategy, Sorted(nodes[n]), t, offered[n]) = n
          BY DEF ShouldRun
        <4>2. strategy \in Strategy \ {"round-robin"}
          BY <3>3 DEF IInv, TypeOK
        <4> QED
          BY <4>1, <4>2, OwnerIgnoresOffered
      <3>4. OwnedByList'
        <4> HIDE DEF mine
        <4> QED
          BY <3>1, <3>3 DEF IInv, TypeOK, OwnedByList
      <3> QED
        BY <3>2, <3>4 DEF IInv
    <2> QED
      BY <2>1, <2>2
  <1>9. ASSUME NEW n \in Node, doRebalancedPanics(n) PROVE IInv'
    BY <1>9, ForgetIInv DEF IInv, TypeOK, doRebalancedPanics, List!Die
  <1>10. CASE UNCHANGED vars
    BY <1>10 DEF vars, IInv, TypeOK, OwnedByList
  <1> QED
    BY <1>1, <1>2, <1>3, <1>4, <1>5, <1>6, <1>7, <1>8, <1>9, <1>10
    DEF Next, Change, Work

(* Under every strategy but round robin, two nodes whose assigners hold the  *)
(* same list never both schedule a task, whatever tasks each of them knows:  *)
(* doRebalanced leaves in assignedTasks only what ShouldRun grants.          *)
THEOREM SameListNeverTwice == Spec => []SameListDisjoint
  <1>1. IInv => SameListDisjoint
    <2> SUFFICES ASSUME IInv, strategy # "round-robin",
                        NEW m \in up, NEW n \in up, m # n,
                        assignerNodes[m] = assignerNodes[n],
                        NEW t \in assigned[m], t \in assigned[n]
                 PROVE  FALSE
      BY DEF SameListDisjoint
    <2> QED
      BY DEF IInv, TypeOK, OwnedByList
  <1> QED
    BY <1>1, InitIInv, NextIInv, PTL DEF Spec

(* The cluster's variables keep their types: a dying or panicking node leaves *)
(* an empty map behind, and no view ever holds a node or a task from nowhere. *)
THEOREM ClusterTypeCorrect == Spec => []TypeOK
  <1>1. IInv => TypeOK
    BY DEF IInv
  <1> QED
    BY <1>1, InitIInv, NextIInv, PTL DEF Spec

-----------------------------------------------------------------------------
(* When a node has nothing to do: every change of its lists since the last    *)
(* rebalance has left a signal.  A node that has just been started is the     *)
(* exception, and it is not on the list that it has loaded.                   *)
AssignedExactly ==
  \A n \in up :
    n \in nodes[n] /\ ~ signal[n] =>
      /\ ~ Panics(strategy, Sorted(nodes[n]), offered[n])
      /\ assigned[n] = {t \in offered[n] :
                          ShouldRun(strategy, Sorted(nodes[n]), t, offered[n], n)}

(* The initial state: the lists of nodes are empty. *)
LEMMA InitExactly == Init => AssignedExactly
  BY DEF Init, List!Init, AssignedExactly

(* What is said of a node that a step leaves alone stays true. *)
LEMMA ExactlyUnchanged ==
  ASSUME IInv, AssignedExactly, strategy' = strategy, NEW m \in Node, m \in up,
         nodes'[m] = nodes[m], offered'[m] = offered[m], signal'[m] = signal[m],
         assigned'[m] = assigned[m], m \in nodes'[m], ~ signal'[m]
  PROVE  /\ ~ Panics(strategy', Sorted(nodes'[m]), offered'[m])
         /\ assigned'[m] = {t \in offered'[m] :
                              ShouldRun(strategy', Sorted(nodes'[m]), t, offered'[m], m)}
  <1>1. /\ ~ Panics(strategy, Sorted(nodes[m]), offered[m])
        /\ assigned[m] = {t \in offered[m] :
                            ShouldRun(strategy, Sorted(nodes[m]), t, offered[m], m)}
    BY DEF AssignedExactly
  <1> QED
    BY <1>1

(* Every step keeps it: a reload of either list leaves a signal, and only a   *)
(* rebalance takes it.                                                        *)
LEMMA NextExactly == IInv /\ AssignedExactly /\ [Next]_vars => AssignedExactly'
  <1> SUFFICES ASSUME IInv, AssignedExactly, [Next]_vars,
                      NEW m \in up', m \in nodes'[m], ~ signal'[m]
               PROVE  /\ ~ Panics(strategy', Sorted(nodes'[m]), offered'[m])
                      /\ assigned'[m] = {t \in offered'[m] :
                           ShouldRun(strategy', Sorted(nodes'[m]), t, offered'[m], m)}
    BY DEF AssignedExactly
  <1> DEFINE Goal == /\ ~ Panics(strategy', Sorted(nodes'[m]), offered'[m])
                     /\ assigned'[m] = {t \in offered'[m] :
                          ShouldRun(strategy', Sorted(nodes'[m]), t, offered'[m], m)}
             Alone == /\ strategy' = strategy /\ m \in up
                      /\ nodes'[m] = nodes[m] /\ offered'[m] = offered[m]
                      /\ signal'[m] = signal[m] /\ assigned'[m] = assigned[m]
  <1>1. TypeOK /\ TypeOK' /\ m \in Node
    BY NextIInv DEF IInv, TypeOK
  <1>2. Alone => Goal
    BY <1>1, ExactlyUnchanged
  <1> HIDE DEF Goal
  <1>3. ASSUME NEW n \in Node, Start(n) PROVE Goal
    <2>1. CASE m = n
      <3>1. nodes'[m] = working /\ m \notin working
        BY <1>1, <1>3, <2>1 DEF Start, TypeOK
      <3> QED
        BY <3>1
    <2>2. CASE m # n
      BY <1>1, <1>2, <1>3, <2>2 DEF Start, List!Boot, TypeOK
    <2> QED
      BY <2>1, <2>2
  <1>4. ASSUME NEW n \in Node, Join(n) PROVE Goal
    BY <1>2, <1>4 DEF Join, List!Join
  <1>5. ASSUME NEW n \in Node, Forget(n), strategy' = strategy, up' = up \ {n} PROVE Goal
    <2>1. m # n /\ m \in up
      BY <1>5
    <2>2. Alone
      BY <1>1, <1>5, <2>1 DEF Forget, TypeOK
    <2> QED
      BY <1>2, <2>2
  <1>6. ASSUME NEW n \in Node, Die(n) PROVE Goal
    BY <1>5, <1>6 DEF Die, List!Die
  <1>7. ASSUME NEW S \in SUBSET Node, Drop(S) PROVE Goal
    BY <1>2, <1>7 DEF Drop, List!Drop
  <1>8. ASSUME NEW t \in Task, ChangeTask(t) PROVE Goal
    BY <1>2, <1>8 DEF ChangeTask
  <1>9. ASSUME NEW n \in Node, reloadNodes(n) PROVE Goal
    <2>1. m # n
      BY <1>1, <1>9 DEF reloadNodes, TypeOK
    <2> QED
      BY <1>1, <1>2, <1>9, <2>1 DEF reloadNodes, TypeOK
  <1>10. ASSUME NEW n \in Node, reloadTasks(n) PROVE Goal
    <2>1. m # n
      BY <1>1, <1>10 DEF reloadTasks, TypeOK
    <2> QED
      BY <1>1, <1>2, <1>10, <2>1 DEF reloadTasks, TypeOK
  <1>11. ASSUME NEW n \in Node, doRebalanced(n) PROVE Goal
    <2>1. CASE m = n
      <3>1. nodes' = nodes /\ offered' = offered /\ strategy' = strategy
        BY <1>11 DEF doRebalanced
      <3>2. nodes[n] # {}
        BY <2>1, <3>1
      <3>3. ~ Panics(strategy, Sorted(nodes[n]), offered[n])
        BY <1>11, <3>2 DEF doRebalanced
      <3>4. assigned'[n] = {t \in offered[n] :
                              ShouldRun(strategy, Sorted(nodes[n]), t, offered[n], n)}
        BY <1>1, <1>11, <3>2 DEF doRebalanced, TypeOK
      <3> QED
        BY <2>1, <3>1, <3>3, <3>4 DEF Goal
    <2>2. CASE m # n
      BY <1>1, <1>2, <1>11, <2>2 DEF doRebalanced, TypeOK
    <2> QED
      BY <2>1, <2>2
  <1>12. ASSUME NEW n \in Node, doRebalancedPanics(n) PROVE Goal
    BY <1>5, <1>12 DEF doRebalancedPanics, List!Die
  <1>13. ASSUME UNCHANGED vars PROVE Goal
    <2>1. /\ strategy' = strategy /\ up' = up /\ nodes' = nodes /\ offered' = offered
          /\ signal' = signal /\ assigned' = assigned
      BY <1>13 DEF vars
    <2>2. Alone
      BY <2>1
    <2> QED
      BY <1>2, <2>2
  <1> HIDE DEF Alone
  <1>14. Goal
    BY <1>3, <1>4, <1>6, <1>7, <1>8, <1>9, <1>10, <1>11, <1>12, <1>13
    DEF Next, Change, Work
  <1> QED
    BY <1>14 DEF Goal

(* The lists, the signals and the assigned tasks agree in every state. *)
LEMMA AlwaysExactly == Spec => [](IInv /\ AssignedExactly)
  BY InitIInv, NextIInv, InitExactly, NextExactly, PTL DEF Spec

(* For any cluster, tasks, hashes, weights and virtual nodes, and whichever   *)
(* of the six strategies: once every node has the current lists and has       *)
(* answered its last signal, doRebalanced has scheduled each live task on     *)
(* exactly one node.                                                          *)
THEOREM TasksOwnedOnce == Spec => []OwnedOnce
  <1>1. IInv /\ AssignedExactly => OwnedOnce
    <2> SUFFICES ASSUME IInv, AssignedExactly, Settled
                 PROVE  /\ \A t \in live : Cardinality(Runs(t)) = 1
                        /\ \A n \in up : assigned[n] \subseteq live
      BY DEF OwnedOnce
    <2>1. /\ up = working /\ up # {} /\ up \in SUBSET Node /\ live \in SUBSET Task
          /\ strategy \in Strategy
          /\ \A n \in up : nodes[n] = up /\ offered[n] = live /\ ~ signal[n]
      BY DEF Settled, IInv, TypeOK
    <2>2. \A n \in up :
            /\ ~ Panics(strategy, Sorted(up), live)
            /\ assigned[n] = {t \in live : Owner(strategy, Sorted(up), t, live) = n}
      BY <2>1 DEF AssignedExactly, ShouldRun
    <2>3. ASSUME NEW t \in live PROVE Cardinality(Runs(t)) = 1
      <3> DEFINE o == Owner(strategy, Sorted(up), t, live)
      <3>1. ~ Panics(strategy, Sorted(up), live)
        BY <2>1, <2>2
      <3>2. o \in up
        BY <2>1, <3>1, OwnerListed
      <3>3. \A n \in up : t \in assigned[n] <=> o = n
        BY <2>2
      <3> HIDE DEF o
      <3>4. Runs(t) = {o}
        BY <3>2, <3>3 DEF Runs
      <3> QED
        BY <3>4, FS_Singleton
    <2> QED
      BY <2>2, <2>3
  <1> QED
    BY <1>1, AlwaysExactly, PTL

(* For any number of slots and nodes, the table that UpdateNodes builds gives *)
(* every slot an owner, and no node has two slots more than another.          *)
THEOREM SlotsAlwaysEven == Spec => []SlotsEven
  <1>1. IInv => SlotsEven
    <2> SUFFICES ASSUME IInv, NEW n \in up, assignerNodes[n] # {}
                 PROVE  LET slots == Slots(Sorted(assignerNodes[n]))
                            count(m) == Cardinality({k \in DOMAIN slots : slots[k] = m})
                        IN  /\ count(Nobody) = 0
                            /\ \A l, m \in assignerNodes[n] : count(l) <= count(m) + 1
      BY DEF SlotsEven
    <2>1. assignerNodes[n] \in SUBSET Node
      BY DEF IInv, TypeOK
    <2> QED
      BY <2>1, SlotsSpread
  <1> QED
    BY <1>1, InitIInv, NextIInv, PTL DEF Spec

(* Under the consistent and the range strategy, a rebalance on a list from    *)
(* which only other nodes have gone takes no task away from the node, unless  *)
(* the task itself is gone: the virtual nodes and the ranges that are left    *)
(* still lead to it.                                                          *)
THEOREM SurvivorsAlwaysKeepTasks == Spec => SurvivorsKeepTasks
  <1> DEFINE Keeps == \A n \in Node :
               /\ strategy \in {"consistent", "range"}
               /\ n \in up /\ n \in up'
               /\ n \in assignerNodes'[n]
               /\ assignerNodes'[n] \subseteq assignerNodes[n]
               => assigned[n] \cap offered'[n] \subseteq assigned'[n]
  <1>1. IInv /\ [Next]_vars => [Keeps]_vars
    <2> SUFFICES ASSUME IInv, [Next]_vars, NEW m \in Node,
                        strategy \in {"consistent", "range"}, m \in up, m \in up',
                        m \in assignerNodes'[m], assignerNodes'[m] \subseteq assignerNodes[m],
                        NEW t \in assigned[m], t \in offered'[m]
                 PROVE  t \in assigned'[m]
      OBVIOUS
    <2>1. TypeOK
      BY DEF IInv
    <2>2. CASE assigned'[m] = assigned[m]
      BY <2>2
    <2>3. ASSUME NEW n \in Node, doRebalanced(n) PROVE t \in assigned'[m]
      <3>1. CASE m # n \/ nodes[n] = {}
        BY <2>1, <2>2, <2>3, <3>1 DEF doRebalanced, TypeOK
      <3>2. CASE m = n /\ nodes[n] # {}
        <4>1. /\ assignerNodes'[m] = nodes[m] /\ offered' = offered
              /\ assigned'[m] = {u \in offered[m] :
                   ShouldRun(strategy, Sorted(nodes[m]), u, offered[m], m)}
          BY <2>1, <2>3, <3>2 DEF doRebalanced, TypeOK
        <4> DEFINE A == assignerNodes[m]
                   B == nodes[m]
        <4>2. A \in SUBSET Node /\ B \in SUBSET A /\ m \in B /\ t \in Task
          BY <2>1, <4>1 DEF TypeOK
        <4>3. Owner(strategy, Sorted(A), t, {}) = m
          BY DEF IInv, OwnedByList
        <4>4. Owner(strategy, Sorted(B), t, {}) = m
          <5> HIDE DEF A, B
          <5>1. CASE strategy = "consistent"
            BY <4>2, <4>3, <5>1, ConsistentStable DEF Owner
          <5>2. CASE strategy = "range"
            BY <4>2, <4>3, <5>2, RangeStable DEF Owner
          <5> QED
            BY <5>1, <5>2
        <4>5. Owner(strategy, Sorted(B), t, offered[m]) = m
          BY <4>4, OwnerIgnoresOffered DEF Strategy
        <4> QED
          BY <4>1, <4>5 DEF ShouldRun
      <3> QED
        BY <3>1, <3>2
    <2>4. ASSUME NEW n \in Node, Forget(n), up' = up \ {n} PROVE t \in assigned'[m]
      <3>1. m # n
        BY <2>4
      <3> QED
        BY <2>1, <2>2, <2>4, <3>1 DEF Forget, TypeOK
    <2>5. ASSUME NEW n \in Node, Die(n) \/ doRebalancedPanics(n) PROVE t \in assigned'[m]
      BY <2>4, <2>5 DEF Die, doRebalancedPanics, List!Die
    <2>6. CASE assigned' = assigned
      BY <2>2, <2>6
    <2> QED
      BY <2>3, <2>5, <2>6 DEF Next, Change, Work, vars, Start, Join, Drop, ChangeTask,
         reloadNodes, reloadTasks
  <1> QED
    BY <1>1, InitIInv, NextIInv, PTL DEF Spec, SurvivorsKeepTasks

=============================================================================
