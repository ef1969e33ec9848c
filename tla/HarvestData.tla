---------------------------- MODULE HarvestData -----------------------------
(***************************************************************************)
(* What becomes of the data of finished requests in one application: the   *)
(* zone a request thread fills (Application.record_tracker), the packager  *)
(* it is merged into, the snapshot the harvest thread takes of it and      *)
(* uploads part by part, and the rollback after a failed upload            *)
(* (Application.harvest with logistics/workshop/packager.py).              *)
(*                                                                         *)
(* A request is a member of Trackers and stands for everything it          *)
(* recorded; a packet of the packager is the set of requests merged into   *)
(* it. Every request has an error, a slow trace, a slow statement and an   *)
(* action of its own. How the numbers in a packet are merged and how many  *)
(* traces a packet takes are not modelled here.                            *)
(*                                                                         *)
(* The session comes and goes as AppSession says; AgentSession models the  *)
(* threads behind that.                                                    *)
(***************************************************************************)
EXTENDS Naturals, FiniteSets

CONSTANTS
    Trackers,       (* finished requests                                   *)
    Configs,        (* configurations the server may answer with           *)
    MaxSessions,    (* bound: sessions the server opens                    *)
    MaxRetry        (* MAX_RETRY_UPLOAD_FAILED_TIMES                       *)

(* enabled, error_collector.enabled, action_tracer.enabled,                *)
(* action_tracer.slow_sql and a list of quantiles that is not empty.       *)
Switches == {"enabled", "errors", "traces", "sql", "quantile"}

ASSUME ConfigsAssumption  == Configs \subseteq SUBSET Switches
ASSUME SessionsAssumption == MaxSessions \in Nat \ {0}
ASSUME RetryAssumption    == MaxRetry \in Nat

VARIABLES
    config,     (* the server's answer to each registration                *)
    session,    (* Application._active_session: 0 or the how-manieth       *)
    epoch,      (* sessions so far                                         *)
    settings,   (* the session whose config the packager has, or 0         *)
    resetting,  (* the connect thread is between _active_session = ... and *)
                (* reset_packets, and holds _packets_lock                  *)
    tpc,        (* how far record_tracker is with each request             *)
    zone,       (* the settings its data zone was created with             *)
    packets,    (* Packager: the requests in each kind of packet           *)
    hpc,        (* what the harvest uploads next                           *)
    stat,       (* the snapshot it uploads from                            *)
    retry,      (* Application.retry_upload_times                          *)
    sent,       (* history: requests the server has got, by kind of report *)
    twice,      (* history: requests it has got twice or more              *)
    broken      (* history: requests whose merge raised an exception       *)

sessionVars == <<config, session, epoch, settings, resetting>>
recordVars  == <<tpc, zone>>
harvestVars == <<hpc, stat, retry>>
historyVars == <<sent, twice, broken>>
vars == <<sessionVars, recordVars, packets, harvestVars, historyVars>>

(* Time, action, apdex and general packets travel together: "metrics".     *)
Kinds   == {"metrics", "errors", "traces", "sql", "quantile"}
Reports == {"metrics", "count", "errors", "traces", "sql"}

NoSession == 0
Nothing   == [k \in Kinds |-> {}]

On(s, switch) == s # NoSession /\ switch \in config[s]

Init ==
    /\ config \in [1 .. MaxSessions -> Configs]
    /\ session = NoSession /\ epoch = 0 /\ settings = NoSession /\ resetting = FALSE
    /\ tpc  = [t \in Trackers |-> "running"]
    /\ zone = [t \in Trackers |-> NoSession]
    /\ packets = Nothing
    /\ hpc = "idle" /\ stat = Nothing /\ retry = 0
    /\ sent  = [k \in Reports |-> {}]
    /\ twice = [k \in Reports |-> {}]
    /\ broken = {}

-----------------------------------------------------------------------------
(* The connect thread: connect_to_headquarters, from a session created.    *)

PublishSession ==
    /\ session = NoSession /\ ~resetting /\ epoch < MaxSessions
    /\ epoch' = epoch + 1 /\ session' = epoch + 1
    /\ retry' = 0
    /\ resetting' = TRUE
    /\ UNCHANGED <<config, settings, recordVars, packets, hpc, stat, historyVars>>

(* Packager.reset_packets: the new config, and every packet but the        *)
(* quantiles empty.                                                        *)
ResetPackets ==
    /\ resetting
    /\ resetting' = FALSE
    /\ settings' = session
    /\ packets' = [Nothing EXCEPT !["quantile"] = packets["quantile"]]
    /\ UNCHANGED <<config, session, epoch, recordVars, harvestVars, historyVars>>

-----------------------------------------------------------------------------
(* A request thread: Dispatcher.record_tracker, Application.record_tracker.*)

RequestGoto(t, from, to) == tpc[t] = from /\ tpc' = [tpc EXCEPT ![t] = to]

requestFrame == <<sessionVars, harvestVars, sent, twice>>

(* Dispatcher.record_tracker: without a session, or switched off by the    *)
(* server, the request is not recorded.                                    *)
CheckEnabled(t) ==
    /\ RequestGoto(t, "running", IF On(session, "enabled") THEN "enabled" ELSE "dropped")
    /\ UNCHANGED <<requestFrame, zone, packets, broken>>

(* Application.record_tracker asks again: the session may have gone since, *)
(* and before the first reset_packets there are no settings.               *)
DropTracker(t) ==
    /\ session = NoSession \/ settings = NoSession
    /\ RequestGoto(t, "enabled", "dropped")
    /\ UNCHANGED <<requestFrame, zone, packets, broken>>

(* stat = self._packager.create_data_zone(); stat.record_tracker(tracker)  *)
FillZone(t) ==
    /\ session # NoSession /\ settings # NoSession
    /\ RequestGoto(t, "enabled", "zoned")
    /\ zone' = [zone EXCEPT ![t] = settings]
    /\ UNCHANGED <<requestFrame, packets, broken>>

(* Mutant of InZone: the record methods do not look at the switches.       *)
MutZoneTakesAll(t, k) == k # "quantile" \/ On(zone[t], k)

(* What record_tracker of the packager put into the zone.                  *)
InZone(t, k) == k = "metrics" \/ On(zone[t], k)

(* merge_metric_packets, but for the quantile: that goes by the settings   *)
(* of the packager, and raises when the zone has none.                     *)
MergeZone(t) ==
    /\ ~resetting
    /\ RequestGoto(t, "zoned", "merged")
    /\ packets' = [k \in Kinds |->
                     IF InZone(t, k) /\ (k = "quantile" => On(settings, k))
                       THEN packets[k] \cup {t} ELSE packets[k]]
    /\ broken' = IF On(settings, "quantile") /\ ~InZone(t, "quantile")
                   THEN broken \cup {t} ELSE broken
    /\ UNCHANGED <<requestFrame, zone>>

-----------------------------------------------------------------------------
(* The harvest thread: Application.harvest.                                *)

(* Mutant of TakeSnapshot: packets_snapshot does not empty the packager.   *)
MutSnapshotKeeps ==
    /\ hpc = "idle" /\ session # NoSession /\ ~resetting
    /\ hpc' = "metrics"
    /\ stat' = packets
    /\ UNCHANGED <<sessionVars, recordVars, packets, retry, historyVars>>

(* with self._packets_lock: stat = self._packager.packets_snapshot()       *)
TakeSnapshot ==
    /\ hpc = "idle" /\ session # NoSession /\ ~resetting
    /\ hpc' = "metrics"
    /\ stat' = packets
    /\ packets' = Nothing
    /\ UNCHANGED <<sessionVars, recordVars, retry, historyVars>>

(* action_metrics looks every action up in the quantiles: a request merged *)
(* without one makes it raise.                                             *)
QuantileMissing == On(session, "quantile") /\ ~(stat["metrics"] \subseteq stat["quantile"])

Switch(k) == IF k = "metrics" THEN "enabled" ELSE k

(* Mutant of Uploading: traces go out whatever the session has on.         *)
MutTracesAlways(k) ==
    IF k = "count" THEN hpc = "metrics"
                   ELSE hpc = k /\ (On(session, Switch(k)) \/ k = "traces")

(* The upload at hpc has a report of kind k: get_performance_metric and    *)
(* the traces. The errors are counted even when all is switched off.       *)
Uploading(k) ==
    IF k = "count" THEN hpc = "metrics" ELSE hpc = k /\ On(session, Switch(k))

Payload(k) ==
    {t \in IF k = "count" THEN stat["errors"] ELSE stat[k] : Uploading(k)}

(* Mutant of Built: reading a packet does not empty it.                    *)
MutBuiltKeeps == stat

(* The snapshot once that payload is built: packets empty themselves when  *)
(* they are read, but for traces and for the errors that are only counted. *)
Built ==
    [k \in Kinds |-> IF Uploading(k) /\ k # "traces" THEN {} ELSE stat[k]]

(* There is a request to the server at all: the metrics and the question   *)
(* for commands always go out, the traces when there are some.             *)
Exchange == hpc \in {"metrics", "commands"} \/ \E k \in Reports : Payload(k) # {}

(* The server has got what the upload at hpc reports.                      *)
Deliver ==
    /\ sent'  = [k \in Reports |-> sent[k] \cup Payload(k)]
    /\ twice' = [k \in Reports |-> twice[k] \cup (sent[k] \cap Payload(k))]

(* A failed request: the server may have got it all the same.              *)
DeliverOrNot == Deliver \/ UNCHANGED <<sent, twice>>

(* The rest of the snapshot goes with the harvest.                         *)
EndHarvest == hpc' = "idle" /\ stat' = Nothing

uploadFrame == <<config, epoch, settings, resetting, recordVars, broken>>

Following == [metrics |-> "errors", errors |-> "traces", traces |-> "sql", sql |-> "commands"]

CanBuild == hpc = "metrics" => ~(On(session, "enabled") /\ QuantileMissing)

(* The upload at hpc, or nothing to upload; what follows the last one has  *)
(* an empty snapshot.                                                      *)
UploadOk ==
    /\ hpc \in DOMAIN Following /\ CanBuild
    /\ hpc = "metrics" => On(session, "enabled")
    /\ Deliver
    /\ hpc' = Following[hpc]
    /\ stat' = IF hpc = "sql" THEN Nothing ELSE Built
    /\ UNCHANGED <<uploadFrame, session, packets, retry>>

(* The server has the application switched off: only the heartbeat, and    *)
(* the snapshot is dropped.                                                *)
HeartbeatOk ==
    /\ hpc = "metrics" /\ ~On(session, "enabled")
    /\ Deliver
    /\ UNCHANGED <<uploadFrame, session, packets, retry>>
    /\ EndHarvest

CommandsOk ==
    /\ hpc = "commands"
    /\ UNCHANGED <<uploadFrame, session, packets, retry, sent, twice>>
    /\ EndHarvest

(* The payload of the metrics cannot be built: an exception as any other.  *)
BuildRaises ==
    /\ hpc = "metrics" /\ ~CanBuild
    /\ UNCHANGED <<uploadFrame, session, packets, retry, sent, twice>>
    /\ EndHarvest

UploadError ==
    /\ hpc # "idle" /\ Exchange /\ CanBuild
    /\ DeliverOrNot
    /\ UNCHANGED <<uploadFrame, session, packets, retry>>
    /\ EndHarvest

RetriesLeft == retry < MaxRetry

(* Mutant of UploadRetry: retry_upload_times is not counted up.            *)
MutRetryUncounted ==
    /\ hpc # "idle" /\ Exchange /\ CanBuild
    /\ RetriesLeft
    /\ DeliverOrNot
    /\ packets' = [k \in Kinds |->
                     IF k \in {"metrics", "errors"} THEN packets[k] \cup Built[k] ELSE packets[k]]
    /\ UNCHANGED <<uploadFrame, session, retry>>
    /\ EndHarvest

(* RetryDataForRequest with retries left: rollback of what the snapshot    *)
(* still has, metrics and errors only.                                     *)
UploadRetry ==
    /\ hpc # "idle" /\ Exchange /\ CanBuild
    /\ RetriesLeft
    /\ retry' = retry + 1
    /\ DeliverOrNot
    /\ packets' = [k \in Kinds |->
                     IF k \in {"metrics", "errors"} THEN packets[k] \cup Built[k] ELSE packets[k]]
    /\ UNCHANGED <<uploadFrame, session>>
    /\ EndHarvest

RetryExhausted ==
    /\ hpc # "idle" /\ Exchange /\ CanBuild
    /\ ~RetriesLeft /\ epoch < MaxSessions
    /\ session' = NoSession
    /\ DeliverOrNot
    /\ UNCHANGED <<uploadFrame, packets, retry>>
    /\ EndHarvest

(* The server refuses the session; it has not looked at the data.          *)
SessionRevoked ==
    /\ hpc # "idle" /\ Exchange /\ CanBuild
    /\ epoch < MaxSessions
    /\ session' = NoSession
    /\ UNCHANGED <<uploadFrame, packets, retry, sent, twice>>
    /\ EndHarvest

-----------------------------------------------------------------------------
Harvest ==
    \/ TakeSnapshot
    \/ UploadOk
    \/ HeartbeatOk
    \/ CommandsOk
    \/ BuildRaises
    \/ UploadError
    \/ UploadRetry
    \/ RetryExhausted
    \/ SessionRevoked

Request(t) == CheckEnabled(t) \/ DropTracker(t) \/ FillZone(t) \/ MergeZone(t)

Next ==
    \/ PublishSession
    \/ ResetPackets
    \/ Harvest
    \/ \E t \in Trackers : Request(t)

Spec == Init /\ [][Next]_vars

(* The threads are scheduled and a lost session is replaced.               *)
FairSpec ==
    /\ Spec
    /\ WF_vars(PublishSession) /\ WF_vars(ResetPackets) /\ WF_vars(Harvest)
    /\ \A t \in Trackers : WF_vars(Request(t))

-----------------------------------------------------------------------------
TypeOK ==
    /\ config \in [1 .. MaxSessions -> Configs]
    /\ session \in 0 .. MaxSessions /\ epoch \in 0 .. MaxSessions
    /\ settings \in 0 .. MaxSessions /\ resetting \in BOOLEAN
    /\ tpc  \in [Trackers -> {"running", "enabled", "dropped", "zoned", "merged"}]
    /\ zone \in [Trackers -> 0 .. MaxSessions]
    /\ packets \in [Kinds -> SUBSET Trackers] /\ stat \in [Kinds -> SUBSET Trackers]
    /\ hpc \in {"idle", "commands"} \cup DOMAIN Following
    /\ retry \in 0 .. MaxRetry
    /\ sent \in [Reports -> SUBSET Trackers] /\ twice \in [Reports -> SUBSET Trackers]
    /\ broken \subseteq Trackers

(* No request is reported to the server twice in metrics or traces,        *)
(* whichever uploads fail, also when the server got what the agent takes   *)
(* for failed: payloads take the data out of the snapshot, the snapshot    *)
(* out of the packager, and rollback finds only what was never built.      *)
ReportedAtMostOnce == \A k \in Reports \ {"count"} : twice[k] = {}

(* The metrics of a request are never in two places: with the packager, in *)
(* the snapshot of the harvest or with the server. And only what a request *)
(* merged is in any of them.                                               *)
MetricsInOnePlace ==
    /\ packets["metrics"] \cap (stat["metrics"] \cup sent["metrics"]) = {}
    /\ stat["metrics"] \cap sent["metrics"] = {}
    /\ \A t \in packets["metrics"] \cup stat["metrics"] \cup sent["metrics"] : tpc[t] = "merged"

(* What a session has switched off is not uploaded over it, and no error   *)
(* or trace of a request is uploaded that was recorded while the settings  *)
(* had it switched off, although settings change between record and upload.*)
SwitchesRespected ==
    [][\A k \in Reports \ {"count"} : \A t \in sent'[k] \ sent[k] :
          /\ On(session, Switch(k))
          /\ k # "metrics" => On(zone[t], k)]_vars

(* What HarvestData implements. Metrics are lost when no place has them.   *)
Held(t) == t \in packets["metrics"] \cup stat["metrics"]

LedgerOf(t) ==
    IF tpc[t] # "merged" THEN IF tpc[t] = "dropped" THEN "dropped" ELSE "none"
    ELSE IF t \in sent["metrics"] THEN IF t \in twice["metrics"] THEN "repeated" ELSE "reported"
    ELSE IF Held(t) THEN "recorded" ELSE "lost"

Ledger == INSTANCE ReportLedger WITH ledger <- [t \in Trackers |-> LedgerOf(t)]

(* Metrics are recorded once, reported or lost once, and never come back.  *)
ImplementsLedger == Ledger!LedgerSpec

(* Recorded metrics do not stay for ever: the server gets them, or they    *)
(* are dropped with a session. Rollback cannot keep them going round.      *)
MetricsLeave ==
    \A t \in Trackers : tpc[t] = "merged" ~> ~Held(t)

-----------------------------------------------------------------------------
(* The inductive invariant behind the safety properties above.             *)

Traced == {"errors", "traces", "sql"}

(* Only merged requests are anywhere, and with the parts their zone took.  *)
OnlyMerged ==
    /\ \A k \in Kinds : \A t \in packets[k] \cup stat[k] :
          tpc[t] = "merged" /\ (k \in Traced => On(zone[t], k))
    /\ \A k \in Reports : \A t \in sent[k] : tpc[t] = "merged"

(* The packager has nothing that is in the snapshot or with the server.    *)
PackagerApart ==
    \A k \in Traced \cup {"metrics"} : packets[k] \cap (stat[k] \cup sent[k]) = {}

(* The snapshot has nothing the server has, but for traces that have just  *)
(* been uploaded: reading them does not empty them.                        *)
SnapshotApart ==
    \A k \in Traced \cup {"metrics"} :
        (k = "traces" => hpc \notin {"sql", "commands"}) => stat[k] \cap sent[k] = {}

SnapshotInHarvest == hpc = "idle" => stat = Nothing

IInv ==
    /\ TypeOK
    /\ OnlyMerged
    /\ PackagerApart
    /\ SnapshotApart
    /\ SnapshotInHarvest
    /\ ReportedAtMostOnce

-----------------------------------------------------------------------------
(* What the source says of itself, and the code does not do.               *)

(* "rollback the performance data when upload the data failed"             *)
(* (packager.py:286): after a rollback the packager has the metrics of the *)
(* harvest again.                                                          *)
RollbackRestoresMetrics ==
    [][UploadRetry => stat["metrics"] \subseteq packets'["metrics"] \cup sent'["metrics"]]_vars

(* "... except the traced error count": an error is not counted again.     *)
ErrorsCountedOnce == twice["count"] = {}

(* "Unexpected error occurred when record tracker data, that's maybe the   *)
(* agent code issue" (application.py:329): no merge raises.                *)
MergeNeverRaises == broken = {}
=============================================================================
