------------------------------ MODULE ExecOnce ------------------------------
(***************************************************************************)
(* What CanRunTask promises: for each instant at which the schedule of a    *)
(* task fires there is one bit that only the first call sets (README.md,    *)
(* "Distributed Lock Mechanism").  A call whose answer is lost may have set  *)
(* it.  Nothing resets a bit but the application, which gives up the promise *)
(* for that instant.                                                         *)
(***************************************************************************)
CONSTANTS Node, Instant

VARIABLES
  answer,  \* answer[i][n]: what n's call for instant i came to
  wiped    \* the instants whose bits the application has reset

Taken(i) == \E n \in Node : answer[i][n] \in {"granted", "lost"}

Init ==
  /\ answer = [i \in Instant |-> [n \in Node |-> "none"]]
  /\ wiped = {}

Reply(i, n, what) ==
  /\ answer[i][n] = "none"
  /\ answer' = [answer EXCEPT ![i][n] = what]
  /\ UNCHANGED wiped

(* The bit is set; if the answer is lost nobody executes. *)
Take(i, n) ==
  /\ ~ Taken(i) \/ i \in wiped
  /\ Reply(i, n, "granted") \/ Reply(i, n, "lost")

Refuse(i, n) == Taken(i) /\ Reply(i, n, "refused")

Fail(i, n) == Reply(i, n, "failed")

Reset(I) ==
  /\ \A i \in I : Taken(i)
  /\ wiped' = wiped \cup I
  /\ UNCHANGED answer

Next ==
  \/ \E i \in Instant, n \in Node : Take(i, n) \/ Refuse(i, n) \/ Fail(i, n)
  \/ \E I \in SUBSET Instant : Reset(I)

Spec == Init /\ [][Next]_<<answer, wiped>>

=============================================================================
