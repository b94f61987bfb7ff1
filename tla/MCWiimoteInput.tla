--------------------------- MODULE MCWiimoteInput ---------------------------
(* Instances of WiimoteInput for TLC. *)
EXTENDS WiimoteInput
=============================================================================
