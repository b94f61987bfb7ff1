------------------------ MODULE MCWiimoteExtensions ------------------------
(* Instances of WiimoteExtensions for TLC. *)
EXTENDS WiimoteExtensions
=============================================================================
