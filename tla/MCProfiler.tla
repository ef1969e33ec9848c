----------------------------- MODULE MCProfiler -----------------------------
(* Instances of Profiler for TLC. *)
EXTENDS Profiler
=============================================================================
