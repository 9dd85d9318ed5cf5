----------------------------- MODULE MCDcronNode -----------------------------
(* Small instances of DcronNode for TLC. *)
EXTENDS DcronNode, TLC

MetaOf(format, oneShot, mark, clean, payload) ==
  [CronFormat |-> format, OneShot |-> oneShot, ExecutedAndMarkDeleted |-> mark,
   ExecutedAndCleanup |-> clean, Payload |-> payload]

(* A periodic task and the same on another schedule. *)
MCPlain == {MetaOf("f1", FALSE, FALSE, FALSE, None), MetaOf("f2", FALSE, FALSE, FALSE, None)}
(* A periodic task, and one on another schedule that cleans itself up. *)
MCMixed == {MetaOf("f1", FALSE, FALSE, FALSE, None), MetaOf("f2", FALSE, FALSE, TRUE, "p")}
(* A one-shot task, and one whose format the parser refuses. *)
MCOneShot == {MetaOf("f1", TRUE, FALSE, FALSE, None), MetaOf("bad", FALSE, FALSE, FALSE, "p")}

MCAlone == {"none", "alone"}

MCSymmetry == Permutations(Goroutine)
(* The node owns every task as soon as it is on the list of nodes. *)
MCOwns == [v \in View |-> [S \in SUBSET Task |-> IF v = "alone" THEN S ELSE {}]]
=============================================================================
