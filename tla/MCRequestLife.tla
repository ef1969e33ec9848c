---------------------------- MODULE MCRequestLife ----------------------------
(* Instances of RequestLife for TLC. *)
EXTENDS RequestLife
=============================================================================
