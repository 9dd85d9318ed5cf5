----------------------------- MODULE MCNodeLife -----------------------------
(* Small instances of NodeLife for TLC.  The three requests of a Redis update *)
(* already interleave in many ways, so its bounds are the smallest.           *)
EXTENDS NodeLife

MCStarts == [b \in Backends |-> IF b = "redis" THEN 1 ELSE 2]
MCTroubles == [b \in Backends |-> IF b = "redis" THEN 1 ELSE 2]
MCNone == [b \in Backends |-> 0]
=============================================================================
