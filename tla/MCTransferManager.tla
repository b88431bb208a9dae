--------------------------- MODULE MCTransferManager ---------------------------
(* Instances of TransferManager for TLC. *)
EXTENDS TransferManager
=============================================================================
