---------------------------- MODULE MCEventStream ----------------------------
(* Instances of EventStream for TLC. *)
EXTENDS EventStream, TLC

Symmetry == Permutations(Channels) \cup Permutations(Clients)
=============================================================================
