----------------------------- MODULE Membership -----------------------------
(***************************************************************************)
(* What the rest of dcron relies on when it reads GetWorkingNodes: who may  *)
(* enter the list of working nodes, and when.  NodeLife shows that the four *)
(* registries keep to it, and Cluster rebalances under nothing else.         *)
(***************************************************************************)
CONSTANT Node

VARIABLES
  up,       \* the nodes whose goroutines run, from asyncWork to the cancel
  working   \* the nodes that GetWorkingNodes returns

Init == up \in SUBSET Node /\ working \in SUBSET up

Boot(n) ==
  /\ n \notin up
  /\ up' = up \cup {n}
  /\ UNCHANGED working

(* Only a node that runs enters the list, and each enters by its own step. *)
Join(n) ==
  /\ n \in up \ working
  /\ working' = working \cup {n}
  /\ UNCHANGED up

(* Nodes leave the list, by their own doing or because they are not heard of. *)
Drop(S) ==
  /\ S \subseteq working /\ S # {}
  /\ working' = working \ S
  /\ UNCHANGED up

(* A node shuts down or crashes; the list may keep it for some time. *)
Die(n) ==
  /\ n \in up
  /\ up' = up \ {n}
  /\ UNCHANGED working

Next ==
  \/ \E n \in Node : Boot(n) \/ Join(n) \/ Die(n)
  \/ \E S \in SUBSET Node : Drop(S)

Spec == Init /\ [][Next]_<<up, working>>

=============================================================================
