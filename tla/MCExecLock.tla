----------------------------- MODULE MCExecLock -----------------------------
(* Small instances of ExecLock for TLC: a second is 2 units, the key lives 5 *)
(* units instead of 5 seconds, and the clocks of the nodes differ.           *)
EXTENDS ExecLock

MCOffset == [n \in Node |-> IF n = "n1" THEN 0 ELSE 2]
MCZone == [n \in Node |-> 8]
(* No node is shut down, except with Redis... *)
MCStop == [b \in Backends |-> IF b = "redis" THEN Node ELSE {}]
(* ...or any may be. *)
MCStopAll == [b \in Backends |-> Node]
=============================================================================
