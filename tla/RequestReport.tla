---------------------------- MODULE RequestReport ----------------------------
(***************************************************************************)
(* What the agent promises about a request of the application, whichever   *)
(* web server and framework run it: the request is taken up or let pass,   *)
(* and one that was taken up is reported once, or dropped, and that is the *)
(* end of it.                                                              *)
(*                                                                         *)
(* RequestLife implements it, however a WSGI server ends its responses,    *)
(* and TornadoLoop, whatever the callbacks of an IOLoop do.                *)
(***************************************************************************)
CONSTANT Requests

VARIABLE life       (* of each request: "idle", "open", "reported" or "dropped" *)

Move(r, from, to) == life[r] \in from /\ life' = [life EXCEPT ![r] = to]

LifeInit == life = [r \in Requests |-> "idle"]

(* Tracker.__enter__: timed from now on. *)
Open(r) == Move(r, {"idle"}, "open")

(* Tracker.__exit__ hands a node to the dispatcher. *)
Report(r) == Move(r, {"open"}, "reported")

(* Not traced at all, its URI not captured, or never finished. *)
Drop(r) == Move(r, {"idle", "open"}, "dropped")

LifeNext == \E r \in Requests : Open(r) \/ Report(r) \/ Drop(r)

LifeSpec == LifeInit /\ [][LifeNext]_life
=============================================================================
