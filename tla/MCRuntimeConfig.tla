--------------------------- MODULE MCRuntimeConfig ---------------------------
(* Instances of RuntimeConfig for TLC. *)
EXTENDS RuntimeConfig
=============================================================================
