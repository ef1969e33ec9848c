---------------------------- MODULE MCTornadoLoop ----------------------------
(* Instances of TornadoLoop for TLC. *)
EXTENDS TornadoLoop
=============================================================================
