----------------------------- MODULE MCPopupAuth -----------------------------
(* Instances of PopupAuth for TLC: the sets are model values given in the cfg. *)
EXTENDS PopupAuth
=============================================================================
