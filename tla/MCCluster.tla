------------------------------ MODULE MCCluster ------------------------------
(* Small instances of Cluster for TLC.  The task names lie below every node  *)
(* id, on one, and above all; the hashes wrap around lists, slots and ring.   *)
EXTENDS Cluster

MCHash == [t \in Task |-> CASE t = 1 -> 5 [] t = 4 -> 2 [] t = 7 -> 9]
MCWeight == [n \in Node |-> CASE n = 2 -> 0 [] n = 4 -> 1 [] n = 6 -> 2]
MCPoints == [n \in Node |-> CASE n = 2 -> {1, 6} [] n = 4 -> {3, 6} [] n = 6 -> {4}]
=============================================================================
