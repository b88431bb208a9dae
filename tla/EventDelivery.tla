---------------------------- MODULE EventDelivery ----------------------------
(***************************************************************************)
(* What a DataStreamsWebSocket promises its application, whatever becomes  *)
(* of its connections: the events of the channel come one after the other, *)
(* each only after sendAck() for the one before; one whose acknowledgement *)
(* was dropped may come again, one that was acknowledged may not.          *)
(***************************************************************************)
EXTENDS Naturals

CONSTANT Events

VARIABLE progress  (* what became of each event in the application *)

Init == progress = [n \in Events |-> "none"]

(* The 'message' listener is called, perhaps once more. *)
Give(n) ==
  /\ progress[n] # "acked"
  /\ n - 1 \in Events => progress[n - 1] = "acked"
  /\ progress' = [progress EXCEPT ![n] = "given"]

(* The application calls sendAck(), which sends the acknowledgement or drops it. *)
Acknowledge(n) ==
  /\ progress[n] = "given"
  /\ \E fate \in {"acked", "ackDropped"} : progress' = [progress EXCEPT ![n] = fate]

Next == \E n \in Events : Give(n) \/ Acknowledge(n)

Spec == Init /\ [][Next]_progress
=============================================================================
