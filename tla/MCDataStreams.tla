---------------------------- MODULE MCDataStreams ----------------------------
(* Instances of DataStreams for TLC. *)
EXTENDS DataStreams

CONSTANTS h1, h2

OneHost  == {h1}
TwoHosts == {h1, h2}
=============================================================================
