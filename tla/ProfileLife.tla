----------------------------- MODULE ProfileLife ----------------------------
(***************************************************************************)
(* What the agent promises about thread profiles: one runs at a time, it   *)
(* finishes once, and a finished one is reported once or dropped, for good.*)
(*                                                                         *)
(* Profiler implements this specification.                                 *)
(***************************************************************************)

CONSTANT Profiles       (* the profiles the server may ask for             *)

VARIABLE life           (* what became of each of them                     *)

Stages == {"none", "running", "finished", "reported", "dropped"}

LifeInit == life = [n \in Profiles |-> "none"]

(* A command of the server starts a profile where none is running. *)
Begin(n) ==
    /\ life[n] = "none"
    /\ \A k \in Profiles : life[k] # "running"
    /\ life' = [life EXCEPT ![n] = "running"]

(* Its time is over. *)
Finish(n) ==
    /\ life[n] = "running"
    /\ life' = [life EXCEPT ![n] = "finished"]

(* A report takes one finished profile and leaves no other behind. *)
Report(n) ==
    /\ life[n] = "finished"
    /\ life' = [k \in Profiles |-> IF k = n THEN "reported"
                                   ELSE IF life[k] = "finished" THEN "dropped"
                                   ELSE life[k]]

(* A command to stop, or a report that fails. *)
DropAll(stages) ==
    life' = [k \in Profiles |-> IF life[k] \in stages THEN "dropped" ELSE life[k]]

LifeNext ==
    \/ \E n \in Profiles : Begin(n) \/ Finish(n) \/ Report(n)
    \/ DropAll({"finished"})
    \/ DropAll({"running", "finished"})

LifeSpec == LifeInit /\ [][LifeNext]_life
=============================================================================
