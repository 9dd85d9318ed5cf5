----------------------------- MODULE MCTaskWatch -----------------------------
(* A small instance of TaskWatch for TLC.  The channel is full after one event *)
(* where WatchTaskEvent returns before it sends, and holds the stored tasks    *)
(* where it does not.                                                          *)
EXTENDS TaskWatch

MCChanSize ==
  [b \in Backends |-> IF b \in {"etcd", "redis"} THEN 1 ELSE Cardinality(Task)]
=============================================================================
