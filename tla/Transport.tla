----------------------------- MODULE Transport -----------------------------
(***************************************************************************)
(* What the replies of the data collector make of a session: transmitter   *)
(* maps each to a result or an exception, create_connection registers the  *)
(* application in two exchanges, Application.harvest uploads part by part  *)
(* and reacts, and the controller has a lost session opened again.         *)
(*                                                                         *)
(* The collector is external. It may restart and forget the session,       *)
(* change the configuration, move to another host, withdraw and restore    *)
(* the license, and be in trouble at any time. The threads of the agent    *)
(* take turns here; how they interleave is in AgentSession, and what       *)
(* becomes of the data in HarvestData.                                     *)
(***************************************************************************)
EXTENDS Naturals

CONSTANTS
    MaxRetry,     (* MAX_RETRY_UPLOAD_FAILED_TIMES                          *)
    MaxChanges,   (* bound: changes on the side of the collector            *)
    OldHost,      (* the reply of a host the collector has left             *)
    NewCodes      (* the collector uses error codes transmitter does not know *)

Troubles == {"lost", "garbled", "400", "502", "503", "other"}

ASSUME RetryAssumption   == MaxRetry \in Nat
ASSUME ChangesAssumption == MaxChanges \in Nat
ASSUME OldHostAssumption == OldHost \in Troubles
ASSUME CodesAssumption   == NewCodes \in BOOLEAN

VARIABLES
    phase,      (* where the agent is: connecting, idle, or the part it uploads *)
    session,    (* Application._active_session                              *)
    redirect,   (* create_connection knows the host the collector is at     *)
    retry,      (* Application.retry_upload_times                           *)
    license,    (* collector: the license is valid                          *)
    changes,    (* collector: how often it changed                          *)
    mistaken    (* history: the agent took for received what was not        *)

collector == <<license, changes>>
vars == <<phase, session, redirect, retry, collector, mistaken>>

(* The exchanges of one harvest; get_agent_commands is the last but one.   *)
Following == [metrics |-> "errors", errors |-> "externals", externals |-> "actions",
              actions |-> "sql", sql |-> "commands", commands |-> "profile",
              profile |-> "idle"]
Parts == DOMAIN Following

(* granted: the collector gave it its key; known: the collector has not    *)
(* forgotten it; current: its configuration is the present one; here: its  *)
(* host is where the collector is; enabled: not switched off by the server.*)
Sessions  == [granted : BOOLEAN, known : BOOLEAN, current : BOOLEAN, here : BOOLEAN,
              enabled : BOOLEAN]
NoSession == [none |-> TRUE]

Init ==
    /\ phase = "connect" /\ session = NoSession /\ redirect = FALSE /\ retry = 0
    /\ license = TRUE /\ changes = 0 /\ mistaken = FALSE

-----------------------------------------------------------------------------
(* The collector.                                                          *)

Change ==
    /\ changes < MaxChanges /\ changes' = changes + 1
    /\ UNCHANGED <<phase, retry, mistaken>>

Forgets ==
    /\ Change /\ session # NoSession
    /\ session' = [session EXCEPT !.known = FALSE]
    /\ UNCHANGED <<redirect, license>>

Reconfigures ==
    /\ Change /\ session # NoSession
    /\ session' = [session EXCEPT !.current = FALSE]
    /\ UNCHANGED <<redirect, license>>

Moves ==
    /\ Change
    /\ session' = IF session = NoSession THEN session ELSE [session EXCEPT !.here = FALSE]
    /\ redirect' = FALSE
    /\ UNCHANGED license

Licenses ==
    /\ Change
    /\ license' = ~license
    /\ UNCHANGED <<session, redirect>>

(* What it says to a request that reached it.                              *)
Says(refusal) == IF license THEN refusal ELSE "460"

AnswerTo(s) ==
    Says(IF ~s.known \/ ~s.granted THEN "461" ELSE IF ~s.current THEN "470" ELSE "success")

(* Codes for a request it could not take: the format, its own error, and   *)
(* one that transmitter has never heard of.                                *)
Complaints == {"462", "-1"} \cup (IF NewCodes THEN {"499"} ELSE {})

(* All an upload over s may come back with. The reply to what it has taken *)
(* may be lost.                                                            *)
Replies(s) == IF s.here THEN {AnswerTo(s)} \cup Troubles \cup Complaints ELSE {OldHost}

(* The collector has got what was uploaded.                                *)
Took(s, reply) == s.here /\ reply = AnswerTo(s) /\ reply = "success"

-----------------------------------------------------------------------------
(* transmitter: 400, 503, any other status and a body that is no JSON      *)
(* raise DiscardDataForRequest; no answer and 502 RetryDataForRequest      *)
(* (ServerIsUnavailable is one); the error codes what they say. An error   *)
(* code that is none of these falls through to `return []`.                *)

(* Mutant of Verdict: the branch of 462 is gone.                             *)
MutFormatUnknown(reply) ==
    CASE reply \in {"success", "462"}                                  -> "ok"
      [] reply \in {"garbled", "400", "503", "other"}         -> "discard"
      [] reply \in {"lost", "502", "-1"}                               -> "retry"
      [] reply = "460" -> "license"
      [] reply = "461" -> "token"
      [] reply = "470" -> "config"
      [] reply = "499" -> "ok"

Verdict(reply) ==
    CASE reply = "success"                                           -> "ok"
      [] reply \in {"garbled", "400", "503", "other", "462"}    -> "discard"
      [] reply \in {"lost", "502", "-1"}                               -> "retry"
      [] reply = "460" -> "license"
      [] reply = "461" -> "token"
      [] reply = "470" -> "config"
      [] reply = "499" -> "ok"

-----------------------------------------------------------------------------
(* create_connection, run by the connect thread until it succeeds. Every   *)
(* exception is wrapped into RetryDataForRequest, the one for an invalid   *)
(* license too: connect_to_headquarters waits and begins again.            *)

ConnectReplies == {Says("success")} \cup Troubles \cup Complaints

connectFrame == <<collector, mistaken>>

(* getRedirectHost. The host of an unknown code is the empty list.         *)
GetRedirect(reply) ==
    /\ phase = "connect" /\ reply \in ConnectReplies
    /\ retry' = 0
    /\ phase' = IF Verdict(reply) = "ok" THEN "init" ELSE "connect"
    /\ redirect' = (reply = "success")
    /\ UNCHANGED <<session, connectFrame>>

(* initAgentApp at that host. merge_settings makes of an empty answer the  *)
(* local settings, with their "do-not-get-session-key".                    *)
InitAgentApp(reply) ==
    /\ phase = "init"
    /\ reply \in IF redirect THEN ConnectReplies ELSE {OldHost}
    /\ IF Verdict(reply) = "ok"
         THEN /\ phase' = "idle"
              /\ \E on \in BOOLEAN :
                    session' = [granted |-> reply = "success", known |-> TRUE, current |-> TRUE,
                                here |-> redirect, enabled |-> on]
         ELSE phase' = "connect" /\ UNCHANGED session
    /\ UNCHANGED <<redirect, retry, connectFrame>>

-----------------------------------------------------------------------------
(* Application.harvest.                                                    *)

harvestFrame == <<redirect, collector>>

BeginHarvest ==
    /\ phase = "idle" /\ phase' = "metrics"
    /\ UNCHANGED <<session, retry, mistaken, harvestFrame>>

(* send_error_trace and the others return at once when there is nothing to *)
(* send, and harvest leaves out what the configuration has switched off.   *)
NothingToSend ==
    /\ phase \in Parts \ {"metrics", "commands"}
    /\ phase' = Following[phase]
    /\ UNCHANGED <<session, retry, mistaken, harvestFrame>>

(* An application the server has switched off sends its metrics only.      *)
Exchanged(reply) ==
    /\ Verdict(reply) = "ok"
    /\ phase' = IF session.enabled THEN Following[phase] ELSE "idle"
    /\ UNCHANGED <<session, retry>>

(* OutOfDateConfigException, InvalidDataTokenException or                  *)
(* InvalidLicenseException: the controller has the application activated.  *)
Refused(reply) ==
    /\ Verdict(reply) \in {"config", "token", "license"}
    /\ session' = NoSession /\ phase' = "connect"
    /\ UNCHANGED retry

(* Mutant of Unattended: the failure is not counted.                       *)
MutUncounted(reply) ==
    /\ Verdict(reply) = "retry" /\ retry < MaxRetry
    /\ phase' = "idle"
    /\ UNCHANGED <<session, retry>>

(* RetryDataForRequest with retries left ...                               *)
Unattended(reply) ==
    /\ Verdict(reply) = "retry" /\ retry < MaxRetry
    /\ retry' = retry + 1 /\ phase' = "idle"
    /\ UNCHANGED session

(* ... and without.                                                        *)
Exhausted(reply) ==
    /\ Verdict(reply) = "retry" /\ retry >= MaxRetry
    /\ session' = NoSession /\ phase' = "connect"
    /\ UNCHANGED retry

(* DiscardDataForRequest is an exception as any other to harvest: the      *)
(* session stays.                                                          *)
Discarded(reply) ==
    /\ Verdict(reply) = "discard"
    /\ phase' = "idle"
    /\ UNCHANGED <<session, retry>>

Upload(reply) ==
    /\ phase \in Parts /\ reply \in Replies(session)
    /\ \/ Exchanged(reply) \/ Refused(reply) \/ Unattended(reply) \/ Exhausted(reply)
       \/ Discarded(reply)
    /\ mistaken' = (mistaken \/ (Verdict(reply) = "ok" /\ ~Took(session, reply)))
    /\ UNCHANGED harvestFrame

-----------------------------------------------------------------------------
AllReplies == {"success", "460", "461", "470"} \cup Troubles \cup Complaints

Agent ==
    \/ \E reply \in AllReplies : GetRedirect(reply) \/ InitAgentApp(reply) \/ Upload(reply)
    \/ BeginHarvest
    \/ NothingToSend

Next == Agent \/ Forgets \/ Reconfigures \/ Moves \/ Licenses

Spec == Init /\ [][Next]_vars

(* A collector that is not in trouble for ever: an upload, or an attempt   *)
(* to register, that comes again and again is answered properly at last.   *)
FairSpec ==
    /\ Spec
    /\ WF_vars(Agent)
    /\ SF_vars(Upload(AnswerTo(session)))
    /\ SF_vars(GetRedirect("success"))
    /\ SF_vars(InitAgentApp("success"))

-----------------------------------------------------------------------------
(* Properties.                                                             *)

TypeOK ==
    /\ phase \in {"connect", "init", "idle"} \cup Parts
    /\ session \in Sessions \cup {NoSession}
    /\ redirect \in BOOLEAN /\ license \in BOOLEAN /\ mistaken \in BOOLEAN
    /\ retry \in 0 .. MaxRetry /\ changes \in 0 .. MaxChanges

(* There is a session when something is uploaded, and none when one is     *)
(* being opened; one that was opened beside an older host never passes for *)
(* one at the present host.                                                *)
SessionWhenNeeded ==
    /\ session = NoSession <=> phase \in {"connect", "init"}
    /\ session # NoSession /\ session.here => redirect

(* No reply passes for what it is not (transportation/__init__.py:155-183):*)
(* every session was granted by the collector, and what counts as uploaded *)
(* the collector has taken.                                                *)
NothingMistaken ==
    /\ session # NoSession => session.granted
    /\ ~mistaken

(* So it is with the codes transmitter knows.                              *)
Honest == ~NewCodes => NothingMistaken

(* The inductive invariant.                                                *)
IInv == TypeOK /\ SessionWhenNeeded /\ Honest

InSync == session # NoSession
          /\ session.granted /\ session.known /\ session.current /\ session.here

(* Whatever the collector forgot, changed or moved (application.py:269-295;*)
(* dispatcher.py:161-170), with a valid license the agent is brought in    *)
(* step with it again and again: no reply leaves it for ever with a        *)
(* session that is no good.                                                *)
Settles == (<>[]license) => []<>InSync
=============================================================================
