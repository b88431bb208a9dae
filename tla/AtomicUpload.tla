----------------------------- MODULE AtomicUpload -----------------------------
(***************************************************************************)
(* What TransferManager.putObjectAsParts() promises of one call: the       *)
(* object appears whole or not at all, and the promise resolves only when  *)
(* it is there.                                                            *)
(***************************************************************************)
VARIABLES object, outcome

Init == object = "absent" /\ outcome = "pending"

Commit ==
  /\ object = "absent" /\ outcome = "pending"
  /\ object' = "whole"
  /\ UNCHANGED outcome

Resolve ==
  /\ object = "whole" /\ outcome = "pending"
  /\ outcome' = "resolved"
  /\ UNCHANGED object

(* A call that fails may have had its effect all the same. *)
Fail ==
  /\ outcome = "pending"
  /\ outcome' = "rejected"
  /\ object' \in {object, "whole"}

Next == Commit \/ Resolve \/ Fail

Spec == Init /\ [][Next]_<<object, outcome>>
=============================================================================
