----------------------------- MODULE AppSession -----------------------------
(***************************************************************************)
(* What the agent promises about the server session of an application,     *)
(* without its threads: an application has no session or one, a session    *)
(* is only ever opened where there is none, and a session that was given   *)
(* up never comes back: every new one is a later registration.             *)
(*                                                                         *)
(* AgentSession implements this specification (Application._active_session *)
(* of battlefield/application.py, written by the connect thread and by the *)
(* harvest thread).                                                        *)
(***************************************************************************)
EXTENDS Naturals

CONSTANT Apps       (* the applications of the process                     *)

NoSession == 0

VARIABLES
    session,        (* the session in use, or NoSession                    *)
    epoch           (* how many sessions the application has had           *)

absVars == <<session, epoch>>

AbsInit ==
    /\ session = [a \in Apps |-> NoSession]
    /\ epoch   = [a \in Apps |-> 0]

(* A registration answered by the server goes into use. *)
Publish(a) ==
    /\ session[a] = NoSession
    /\ epoch'   = [epoch EXCEPT ![a] = @ + 1]
    /\ session' = [session EXCEPT ![a] = epoch[a] + 1]

(* The server, or a row of failed uploads, ends the session in use. *)
Drop(a) ==
    /\ session[a] # NoSession
    /\ session' = [session EXCEPT ![a] = NoSession]
    /\ UNCHANGED epoch

AbsNext == \E a \in Apps : Publish(a) \/ Drop(a)

AbsSpec == AbsInit /\ [][AbsNext]_absVars
=============================================================================
