------------------------- MODULE MCThreadSuspension -------------------------
(* Instances of ThreadSuspension for TLC. *)
EXTENDS ThreadSuspensionInv
=============================================================================
