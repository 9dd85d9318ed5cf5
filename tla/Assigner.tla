------------------------------ MODULE Assigner ------------------------------
(***************************************************************************)
(* The six assignment strategies (assigner.go): which node of a list runs   *)
(* a task.  Task names and node ids are strings in the code; only their     *)
(* order and their hashes matter, so they are numbers here, compared with   *)
(* < as the code compares strings.                                          *)
(*                                                                         *)
(* nodes is always a sequence of ids in increasing order, without           *)
(* repetition: reloadNodes sorts the list before the assigner sees it.       *)
(***************************************************************************)
EXTENDS Integers, Sequences, FiniteSets

CONSTANTS
  Node,       \* node ids
  Task,       \* task names
  Nobody,     \* the id of no node: the empty string
  Hash,       \* Hash[t]: crc32.ChecksumIEEE of a task's name
  Weight,     \* Weight[n]: the weight node n registers with
  Points,     \* Points[n]: the places of n's virtual nodes on the hash ring
  SlotCount   \* virtualHashSlot

ASSUME AssignerAssumption ==
  /\ IsFiniteSet(Node) /\ Node \subseteq Nat
  /\ IsFiniteSet(Task) /\ Task \subseteq Nat
  /\ Nobody \notin Node
  /\ Hash \in [Task -> Nat]
  /\ Weight \in [Node -> Nat]
  /\ Points \in [Node -> SUBSET Nat]
  /\ \A n \in Node : Points[n] # {}
  /\ SlotCount \in Nat \ {0}

Strategy == {"hash-sharding", "consistent", "hash-slot", "range", "weighted", "round-robin"}

Members(nodes) == {nodes[i] : i \in DOMAIN nodes}

(* The list that reloadNodes hands to an assigner for a set of nodes. *)
Sorted(S) ==
  [i \in 1 .. Cardinality(S) |-> CHOOSE n \in S : Cardinality({m \in S : m < n}) = i - 1]

(* The first index of 1 .. k for which P holds, or 0. *)
FirstIndex(k, P(_)) ==
  IF \E i \in 1 .. k : P(i)
  THEN CHOOSE i \in 1 .. k : P(i) /\ \A j \in 1 .. i - 1 : ~ P(j)
  ELSE 0
NodeAt(nodes, i) == IF i = 0 THEN Nobody ELSE nodes[i]

-----------------------------------------------------------------------------
HashShardingOwner(nodes, t) == nodes[(Hash[t] % Len(nodes)) + 1]

(* consistenthash.Map, an external library: a key belongs to the first point *)
(* of the ring at or after its hash, else to the very first point.  Two nodes *)
(* with a virtual node at one place: the one added last takes it.            *)
RingGet(nodes, h) ==
  LET ring == UNION {Points[n] : n \in Members(nodes)}
      after == {p \in ring : p >= h}
      from == IF after = {} THEN ring ELSE after
      point == CHOOSE p \in from : \A q \in from : p <= q
  IN  CHOOSE n \in Members(nodes) :
        point \in Points[n] /\ \A m \in Members(nodes) : point \in Points[m] => m <= n

(* Mutant of ConsistentOwner: the hash is taken modulo the list. *)
ConsistentOwnerModulo(nodes, t) == nodes[(Hash[t] % Len(nodes)) + 1]

ConsistentOwner(nodes, t) == RingGet(nodes, Hash[t])

(* Mutant of SlotsNum: the extra slots are not handed out. *)
SlotsNumWithoutExtra(nodes, i) == SlotCount \div Len(nodes)

(* How many slots the i-th node gets, the first slotCount % len one more... *)
SlotsNum(nodes, i) ==
  (SlotCount \div Len(nodes)) + (IF i <= SlotCount % Len(nodes) THEN 1 ELSE 0)

(* ... and slotIndex before them. *)
SlotIndex(nodes) ==
  LET index[i \in 1 .. Len(nodes)] ==
        IF i = 1 THEN 0 ELSE index[i - 1] + SlotsNum(nodes, i - 1)
  IN  index

(* The table UpdateNodes builds: the owner of each slot. *)
Slots(nodes) ==
  LET index == SlotIndex(nodes) IN
    [k \in 0 .. SlotCount - 1 |->
       NodeAt(nodes, FirstIndex(Len(nodes),
         LAMBDA i : index[i] <= k /\ k < index[i] + SlotsNum(nodes, i)))]

HashSlotOwner(nodes, t) == Slots(nodes)[Hash[t] % SlotCount]

(* Mutant of InRange: the upper end is exclusive. *)
InRangeExclusive(nodes, i, t) ==
  /\ i = 1 \/ t > nodes[i - 1]
  /\ i = Len(nodes) \/ t < nodes[i]

(* The first range has no lower end, the last one no upper end. *)
InRange(nodes, i, t) ==
  /\ i = 1 \/ t > nodes[i - 1]
  /\ i = Len(nodes) \/ t <= nodes[i]

RangeOwner(nodes, t) ==
  NodeAt(nodes, FirstIndex(Len(nodes), LAMBDA i : InRange(nodes, i, t)))

(* WeightUpTo(nodes)[i]: the weight of the first i nodes. *)
WeightUpTo(nodes) ==
  LET sum[i \in 0 .. Len(nodes)] == IF i = 0 THEN 0 ELSE sum[i - 1] + Weight[nodes[i]]
  IN  sum
TotalWeight(nodes) == WeightUpTo(nodes)[Len(nodes)]

(* The division by totalWeight panics when it is 0, see Panics. *)
WeightedOwner(nodes, t) ==
  LET weight == Hash[t] % TotalWeight(nodes)
  IN  NodeAt(nodes, FirstIndex(Len(nodes), LAMBDA i : weight - WeightUpTo(nodes)[i] < 0))

(* UpdateNodes resets index, and each task that is offered moves it by one:  *)
(* what a task gets depends on the tasks offered before it in this rebalance. *)
RoundRobinOwner(nodes, t, offered) ==
  nodes[(Cardinality({s \in offered : s < t}) % Len(nodes)) + 1]

-----------------------------------------------------------------------------
(* The owner of t when a rebalance offers the tasks of offered, in order of  *)
(* name, to an assigner that UpdateNodes has given a list that is not empty. *)
Owner(strategy, nodes, t, offered) ==
  IF strategy = "hash-sharding" THEN HashShardingOwner(nodes, t)
  ELSE IF strategy = "consistent" THEN ConsistentOwner(nodes, t)
  ELSE IF strategy = "hash-slot"  THEN HashSlotOwner(nodes, t)
  ELSE IF strategy = "range"      THEN RangeOwner(nodes, t)
  ELSE IF strategy = "weighted"   THEN WeightedOwner(nodes, t)
  ELSE RoundRobinOwner(nodes, t, offered)

ShouldRun(strategy, nodes, t, offered, n) == Owner(strategy, nodes, t, offered) = n

Panics(strategy, nodes, offered) ==
  strategy = "weighted" /\ offered # {} /\ TotalWeight(nodes) = 0

=============================================================================
