------------------------- MODULE HarvestDataProofs -------------------------
(***************************************************************************)
(* What TLAPS proves of HarvestData, for any set of requests, any set of   *)
(* configurations and any bounds: the inductive invariant IInv, the safety *)
(* properties that follow from it, and that ReportLedger is implemented.   *)
(*                                                                         *)
(* IInv adds to "nothing is reported twice" where a second report could    *)
(* come from: rollback puts what the snapshot has left back into the       *)
(* packager, so the packager must be apart from snapshot and server, and   *)
(* the snapshot from the server (PackagerApart, SnapshotApart).            *)
(***************************************************************************)
EXTENDS HarvestData, TLAPS

USE ConfigsAssumption, SessionsAssumption, RetryAssumption
USE DEF sessionVars, recordVars, harvestVars, historyVars, requestFrame, uploadFrame,
        NoSession, Nothing, Kinds, Reports, Traced, On, Switch, RequestGoto, RetriesLeft

(* Building a payload only takes out of the snapshot, and takes out all    *)
(* that it reports, but for traces (the getters of Packager).              *)
LEMMA BuiltFromSnapshot ==
    ASSUME TypeOK
    PROVE  /\ Built \in [Kinds -> SUBSET Trackers]
           /\ \A k \in Kinds : Built[k] \subseteq stat[k]
           /\ \A k \in {"metrics", "errors", "sql"} : Payload(k) # {} => Built[k] = {}
BY DEF TypeOK, Built, Payload

(* One upload, whether the server got it or not, reports nothing the       *)
(* server has already: the snapshot is apart from the server.              *)
LEMMA DeliverOnce ==
    ASSUME IInv, DeliverOrNot, UNCHANGED <<tpc, zone>>
    PROVE  /\ sent' \in [Reports -> SUBSET Trackers] /\ twice' \in [Reports -> SUBSET Trackers]
           /\ \A k \in Reports : sent[k] \subseteq sent'[k]
                                /\ sent'[k] \subseteq sent[k] \cup Payload(k)
           /\ \A k \in Reports : \A t \in sent'[k] : tpc[t] = "merged"
           /\ ReportedAtMostOnce'
<1> USE DEF IInv, TypeOK
<1>1. \A k \in Reports : Payload(k) \subseteq Trackers /\ \A t \in Payload(k) : tpc[t] = "merged"
  BY DEF OnlyMerged, Payload
<1>2. \A k \in Reports \ {"count"} : Payload(k) \cap sent[k] = {}
  BY DEF SnapshotApart, Payload, Uploading
<1>3. CASE Deliver
  BY <1>1, <1>2, <1>3 DEF Deliver, OnlyMerged, ReportedAtMostOnce
<1>4. CASE UNCHANGED <<sent, twice>>
  BY <1>4 DEF OnlyMerged, ReportedAtMostOnce
<1>5. QED
  BY <1>3, <1>4 DEF DeliverOrNot

(* The end of a harvest keeps the invariant if all it gives back to the    *)
(* packager is what the snapshot still has of metrics and errors, which    *)
(* is what Packager.rollback does.                                         *)
LEMMA EndKeepsIInv ==
    ASSUME IInv, DeliverOrNot, EndHarvest, UNCHANGED uploadFrame,
           session' \in 0 .. MaxSessions, retry' \in 0 .. MaxRetry,
           \A k \in Kinds :
               \/ packets'[k] \subseteq packets[k]
               \/ k \in {"metrics", "errors"} /\ packets'[k] \subseteq packets[k] \cup Built[k],
           packets' \in [Kinds -> SUBSET Trackers]
    PROVE  IInv'
<1> USE DEF IInv
<1>1. TypeOK'
  BY DeliverOnce DEF TypeOK, EndHarvest
<1>2. OnlyMerged'
  BY DeliverOnce, BuiltFromSnapshot DEF OnlyMerged, EndHarvest, TypeOK
<1>3. PackagerApart'
  <2> SUFFICES ASSUME NEW k \in Traced \cup {"metrics"}
               PROVE  packets'[k] \cap sent'[k] = {}
    BY DEF PackagerApart, EndHarvest
  <2>1. packets[k] \cap (stat[k] \cup sent[k]) = {}
    BY DEF PackagerApart
  <2>2. Payload(k) \subseteq stat[k] /\ sent'[k] \subseteq sent[k] \cup Payload(k)
    BY DeliverOnce DEF Payload
  <2>3. CASE packets'[k] \subseteq packets[k]
    BY <2>1, <2>2, <2>3
  <2>4. CASE k \in {"metrics", "errors"} /\ packets'[k] \subseteq packets[k] \cup Built[k]
    <3>1. Built[k] \cap Payload(k) = {} /\ Built[k] \subseteq stat[k]
      BY <2>4, BuiltFromSnapshot
    <3>2. stat[k] \cap sent[k] = {}
      BY <2>4 DEF SnapshotApart
    <3>3. QED
      BY <2>1, <2>2, <2>4, <3>1, <3>2
  <2>5. QED
    BY <2>3, <2>4
<1>4. SnapshotApart' /\ SnapshotInHarvest'
  BY DEF SnapshotApart, SnapshotInHarvest, EndHarvest
<1>5. QED
  BY <1>1, <1>2, <1>3, <1>4, DeliverOnce

(* Every step of Application.harvest keeps the invariant.                  *)
LEMMA HarvestKeepsIInv ==
    ASSUME IInv, Harvest
    PROVE  IInv'
<1> USE DEF IInv
<1>1. CASE TakeSnapshot
  BY <1>1 DEF TakeSnapshot, TypeOK, OnlyMerged, PackagerApart, SnapshotApart, SnapshotInHarvest,
              ReportedAtMostOnce, Following
<1>2. CASE UploadOk
  <2>1. DeliverOrNot /\ UNCHANGED <<tpc, zone>>
    BY <1>2 DEF UploadOk, DeliverOrNot
  <2>2. stat' \in [Kinds -> SUBSET Trackers] /\ \A k \in Kinds : stat'[k] \subseteq Built[k]
    BY <1>2, BuiltFromSnapshot DEF UploadOk, TypeOK
  <2>3. hpc \in DOMAIN Following /\ hpc' = Following[hpc]
    BY <1>2 DEF UploadOk
  <2>4. TypeOK'
    BY <1>2, <2>1, <2>2, <2>3, DeliverOnce DEF UploadOk, TypeOK, Following
  <2>5. OnlyMerged'
    BY <1>2, <2>1, <2>2, DeliverOnce, BuiltFromSnapshot DEF UploadOk, OnlyMerged, TypeOK
  <2>6. PackagerApart'
    BY <1>2, <2>1, <2>2, DeliverOnce, BuiltFromSnapshot DEF UploadOk, PackagerApart, Payload
  <2>7. SnapshotApart'
    <3> SUFFICES ASSUME NEW k \in Traced \cup {"metrics"},
                        k = "traces" => hpc' \notin {"sql", "commands"}
                 PROVE  stat'[k] \cap sent'[k] = {}
      BY DEF SnapshotApart
    <3>1. k = "traces" => hpc \in {"metrics", "errors"}
      BY <2>3 DEF Following
    <3>2. stat[k] \cap sent[k] = {}
      BY <3>1 DEF SnapshotApart
    <3>3. CASE k = "traces"
      BY <3>1, <3>2, <3>3, <2>1, <2>2, DeliverOnce, BuiltFromSnapshot DEF Payload, Uploading
    <3>4. CASE k # "traces"
      BY <3>2, <3>4, <2>1, <2>2, DeliverOnce, BuiltFromSnapshot
    <3>5. QED
      BY <3>3, <3>4
  <2>8. SnapshotInHarvest'
    <3>1. hpc' \in {"errors", "traces", "sql", "commands"}
      BY <2>3 DEF Following
    <3>2. QED
      BY <3>1 DEF SnapshotInHarvest
  <2>9. QED
    BY <2>1, <2>4, <2>5, <2>6, <2>7, <2>8, DeliverOnce
<1>3. CASE HeartbeatOk
  BY <1>3, EndKeepsIInv DEF HeartbeatOk, DeliverOrNot, TypeOK
<1>4. CASE CommandsOk \/ BuildRaises
  BY <1>4, EndKeepsIInv DEF CommandsOk, BuildRaises, DeliverOrNot, TypeOK
<1>5. CASE UploadError
  BY <1>5, EndKeepsIInv DEF UploadError, TypeOK
<1>6. CASE UploadRetry
  <2>1. packets' \in [Kinds -> SUBSET Trackers]
    BY <1>6, BuiltFromSnapshot DEF UploadRetry, TypeOK
  <2>2. \A k \in Kinds :
            \/ packets'[k] \subseteq packets[k]
            \/ k \in {"metrics", "errors"} /\ packets'[k] \subseteq packets[k] \cup Built[k]
    BY <1>6 DEF UploadRetry
  <2>3. retry' \in 0 .. MaxRetry
    BY <1>6 DEF UploadRetry, TypeOK
  <2>4. QED
    BY <1>6, <2>1, <2>2, <2>3, EndKeepsIInv DEF UploadRetry, TypeOK
<1>7. CASE RetryExhausted
  BY <1>7, EndKeepsIInv DEF RetryExhausted, TypeOK
<1>8. CASE SessionRevoked
  BY <1>8, EndKeepsIInv DEF SessionRevoked, DeliverOrNot, TypeOK
<1>9. QED
  BY <1>1, <1>2, <1>3, <1>4, <1>5, <1>6, <1>7, <1>8 DEF Harvest

(* So does every step of record_tracker.                                   *)
LEMMA RequestKeepsIInv ==
    ASSUME IInv, NEW t \in Trackers, Request(t)
    PROVE  IInv'
<1> USE DEF IInv
<1>1. CASE CheckEnabled(t)
  BY <1>1 DEF CheckEnabled, TypeOK, OnlyMerged, PackagerApart, SnapshotApart, SnapshotInHarvest,
              ReportedAtMostOnce
<1>2. CASE DropTracker(t)
  BY <1>2 DEF DropTracker, TypeOK, OnlyMerged, PackagerApart, SnapshotApart, SnapshotInHarvest,
              ReportedAtMostOnce
<1>3. CASE FillZone(t)
  BY <1>3 DEF FillZone, TypeOK, OnlyMerged, PackagerApart, SnapshotApart, SnapshotInHarvest,
              ReportedAtMostOnce
<1>4. CASE MergeZone(t)
  BY <1>4 DEF MergeZone, InZone, TypeOK, OnlyMerged, PackagerApart, SnapshotApart,
              SnapshotInHarvest, ReportedAtMostOnce
<1>5. QED
  BY <1>1, <1>2, <1>3, <1>4 DEF Request

(* A new Application satisfies the invariant.                              *)
LEMMA InitIInv == Init => IInv
<1> SUFFICES ASSUME Init PROVE IInv
  OBVIOUS
<1>1. TypeOK
  <2>1. packets \in [Kinds -> SUBSET Trackers] /\ stat \in [Kinds -> SUBSET Trackers]
    BY DEF Init
  <2>2. sent \in [Reports -> SUBSET Trackers] /\ twice \in [Reports -> SUBSET Trackers]
    BY DEF Init
  <2>3. /\ session \in 0 .. MaxSessions /\ epoch \in 0 .. MaxSessions
        /\ settings \in 0 .. MaxSessions /\ retry \in 0 .. MaxRetry
        /\ zone \in [Trackers -> 0 .. MaxSessions]
    BY DEF Init
  <2>4. QED
    BY <2>1, <2>2, <2>3 DEF Init, TypeOK
<1>2. OnlyMerged /\ PackagerApart /\ SnapshotApart /\ SnapshotInHarvest /\ ReportedAtMostOnce
  BY DEF Init, OnlyMerged, PackagerApart, SnapshotApart, SnapshotInHarvest, ReportedAtMostOnce
<1>3. QED
  BY <1>1, <1>2 DEF IInv

(* The invariant is inductive.                                             *)
LEMMA NextKeepsIInv == IInv /\ [Next]_vars => IInv'
<1> SUFFICES ASSUME IInv, [Next]_vars PROVE IInv'
  OBVIOUS
<1> USE DEF IInv
<1>1. CASE PublishSession
  BY <1>1 DEF PublishSession, TypeOK, OnlyMerged, PackagerApart, SnapshotApart,
              SnapshotInHarvest, ReportedAtMostOnce
<1>2. CASE ResetPackets
  BY <1>2 DEF ResetPackets, TypeOK, OnlyMerged, PackagerApart, SnapshotApart, SnapshotInHarvest,
              ReportedAtMostOnce
<1>3. CASE Harvest
  BY <1>3, HarvestKeepsIInv
<1>4. ASSUME NEW t \in Trackers, Request(t) PROVE IInv'
  BY <1>4, RequestKeepsIInv
<1>5. CASE UNCHANGED vars
  BY <1>5 DEF vars, TypeOK, OnlyMerged, PackagerApart, SnapshotApart, SnapshotInHarvest,
              ReportedAtMostOnce
<1>6. QED
  BY <1>1, <1>2, <1>3, <1>4, <1>5 DEF Next

(* The inductive invariant holds in every reachable state.                 *)
THEOREM Invariance == Spec => []IInv
BY InitIInv, NextKeepsIInv, PTL DEF Spec

(* Type correctness.                                                       *)
THEOREM TypeCorrect == Spec => []TypeOK
<1>1. IInv => TypeOK
  BY DEF IInv
<1>2. QED
  BY <1>1, Invariance, PTL

(* No metric, error or trace is uploaded twice, whichever uploads fail     *)
(* (Application.harvest with Packager.rollback).                           *)
THEOREM AtMostOnce == Spec => []ReportedAtMostOnce
<1>1. IInv => ReportedAtMostOnce
  BY DEF IInv
<1>2. QED
  BY <1>1, Invariance, PTL

(* The metrics of a request are with the packager, in the snapshot or with *)
(* the server, and never in two of these places.                           *)
THEOREM OnePlace == Spec => []MetricsInOnePlace
<1>1. IInv => MetricsInOnePlace
  BY DEF IInv, OnlyMerged, PackagerApart, SnapshotApart, MetricsInOnePlace
<1>2. QED
  BY <1>1, Invariance, PTL

(* The server gets nothing but the payload of the upload under way.        *)
LEMMA SentByUpload ==
    ASSUME TypeOK, Next, NEW k \in Reports, NEW t \in sent'[k] \ sent[k]
    PROVE  t \in Payload(k)
<1>1. CASE Harvest
  BY <1>1 DEF Harvest, TakeSnapshot, UploadOk, HeartbeatOk, CommandsOk, BuildRaises, UploadError,
              UploadRetry, RetryExhausted, SessionRevoked, DeliverOrNot, Deliver
<1>2. CASE ~Harvest
  BY <1>2 DEF Next, PublishSession, ResetPackets, Request, CheckEnabled, DropTracker, FillZone,
              MergeZone
<1>3. QED
  BY <1>1, <1>2

(* What the server switched off is not uploaded, and no error or trace of  *)
(* a request that was recorded while it was switched off.                  *)
THEOREM SwitchesHold == Spec => SwitchesRespected
<1>1. ASSUME IInv, [Next]_vars
      PROVE  [\A k \in Reports \ {"count"} : \A t \in sent'[k] \ sent[k] :
                 /\ On(session, Switch(k))
                 /\ k # "metrics" => On(zone[t], k)]_vars
  <2> SUFFICES ASSUME Next, NEW k \in Reports \ {"count"}, NEW t \in sent'[k] \ sent[k]
               PROVE  On(session, Switch(k)) /\ (k # "metrics" => On(zone[t], k))
    BY <1>1
  <2>1. t \in Payload(k)
    BY <1>1, SentByUpload DEF IInv
  <2>2. QED
    BY <1>1, <2>1 DEF Payload, Uploading, IInv, OnlyMerged
<1>2. QED
  BY <1>1, Invariance, PTL DEF Spec, SwitchesRespected

(* Every step is a step of ReportLedger, or leaves the ledger alone: a     *)
(* merge records, a harvest reports the metrics of its snapshot or loses   *)
(* what it does not roll back, reset_packets loses what it empties.        *)
LEMMA LedgerMoves ==
    ASSUME IInv, IInv', [Next]_vars
    PROVE  [Ledger!LedgerNext]_([t \in Trackers |-> LedgerOf(t)])
<1> DEFINE ledger == [t \in Trackers |-> LedgerOf(t)]
<1> USE DEF IInv, TypeOK
<1> SUFFICES ASSUME Next PROVE Ledger!LedgerNext \/ ledger' = ledger
  BY DEF vars, LedgerOf, Held
<1>1. CASE PublishSession
  BY <1>1 DEF PublishSession, LedgerOf, Held
<1>2. CASE ResetPackets
  <2> DEFINE T == packets["metrics"]
  <2>1. \A t \in T : ledger[t] = "recorded" /\ t \in Trackers
    BY DEF LedgerOf, Held, OnlyMerged, PackagerApart
  <2>2. ledger' = [t \in Trackers |-> IF t \in T THEN "lost" ELSE ledger[t]]
    BY <1>2, <2>1 DEF ResetPackets, LedgerOf, Held, PackagerApart, OnlyMerged
  <2>3. T \in SUBSET Trackers
    OBVIOUS
  <2>4. QED
    BY <2>1, <2>2, <2>3 DEF Ledger!LedgerNext, Ledger!Settle
<1>3. ASSUME NEW t \in Trackers, Request(t)
      PROVE  Ledger!LedgerNext \/ ledger' = ledger
  <2>1. CASE CheckEnabled(t) \/ DropTracker(t) \/ FillZone(t)
    <3>1. UNCHANGED <<packets, stat, sent, twice>> /\ ledger[t] = "none"
      BY <2>1 DEF CheckEnabled, DropTracker, FillZone, LedgerOf
    <3>2. tpc'[t] \in {"enabled", "zoned", "dropped"} /\ tpc' = [tpc EXCEPT ![t] = tpc'[t]]
      BY <2>1 DEF CheckEnabled, DropTracker, FillZone
    <3>3. \A u \in Trackers :
             LedgerOf(u)' = IF u = t /\ tpc'[t] = "dropped" THEN "dropped" ELSE LedgerOf(u)
      BY <3>1, <3>2 DEF LedgerOf, Held
    <3>4. ledger' = ledger \/ ledger' = [ledger EXCEPT ![t] = "dropped"]
      BY <3>3
    <3>5. QED
      BY <3>1, <3>4 DEF Ledger!LedgerNext, Ledger!Record
  <2>2. CASE MergeZone(t)
    <3>1. ledger[t] = "none"
      BY <2>2 DEF MergeZone, LedgerOf
    <3>2. packets'["metrics"] = packets["metrics"] \cup {t} /\ UNCHANGED <<stat, sent, twice>>
      BY <2>2 DEF MergeZone, InZone
    <3>3. t \notin sent["metrics"] /\ tpc' = [tpc EXCEPT ![t] = "merged"]
      BY <2>2 DEF MergeZone, OnlyMerged
    <3>4. \A u \in Trackers : LedgerOf(u)' = IF u = t THEN "recorded" ELSE LedgerOf(u)
      BY <3>2, <3>3 DEF LedgerOf, Held
    <3>5. ledger' = [ledger EXCEPT ![t] = "recorded"]
      BY <3>4
    <3>6. QED
      BY <3>1, <3>5 DEF Ledger!LedgerNext, Ledger!Record
  <2>3. QED
    BY <1>3, <2>1, <2>2 DEF Request
<1>4. CASE TakeSnapshot
  BY <1>4 DEF TakeSnapshot, LedgerOf, Held, SnapshotInHarvest
<1>5. CASE Harvest /\ ~TakeSnapshot
  <2> DEFINE H == packets["metrics"] \cup stat["metrics"]
             P == Payload("metrics")
  <2>1. UNCHANGED tpc
    BY <1>5 DEF Harvest, UploadOk, HeartbeatOk, CommandsOk, BuildRaises, UploadError, UploadRetry,
                RetryExhausted, SessionRevoked
  <2>2. sent'["metrics"] \in {sent["metrics"], sent["metrics"] \cup P}
    BY <1>5 DEF Harvest, UploadOk, HeartbeatOk, CommandsOk, BuildRaises, UploadError, UploadRetry,
                RetryExhausted, SessionRevoked, DeliverOrNot, Deliver
  <2>3. packets["metrics"] \subseteq H' /\ H' \subseteq H
    BY <1>5, BuiltFromSnapshot
       DEF Harvest, UploadOk, HeartbeatOk, CommandsOk, BuildRaises, UploadError, UploadRetry,
           RetryExhausted, SessionRevoked, EndHarvest
  <2>4. twice["metrics"] = {} /\ twice'["metrics"] = {}
    BY DEF ReportedAtMostOnce
  <2>5. \A t \in H : /\ t \in Trackers /\ tpc[t] = "merged"
                      /\ t \notin sent["metrics"] /\ LedgerOf(t) = "recorded"
    BY DEF LedgerOf, Held, OnlyMerged, PackagerApart, SnapshotApart
  <2>6. CASE sent'["metrics"] = sent["metrics"]
    <3>1. ledger' = [t \in Trackers |-> IF t \in H \ H' THEN "lost" ELSE ledger[t]]
      BY <2>1, <2>3, <2>4, <2>5, <2>6 DEF LedgerOf, Held
    <3>2. QED
      BY <2>5, <3>1 DEF Ledger!LedgerNext, Ledger!Settle
  <2>7. CASE sent'["metrics"] = sent["metrics"] \cup P /\ P # {}
    <3>1. P = stat["metrics"] /\ Built["metrics"] = {}
      BY <2>7, BuiltFromSnapshot DEF Payload
    <3>2. H' \cap P = {}
      BY <2>7, <3>1 DEF PackagerApart, SnapshotApart
    <3>3. P \subseteq H /\ H' = H \ P
      BY <2>3, <3>1, <3>2
    <3>4. \A t \in Trackers : LedgerOf(t)' = IF t \in P THEN "reported" ELSE LedgerOf(t)
      BY <2>1, <2>4, <2>5, <2>7, <3>1, <3>3 DEF LedgerOf, Held
    <3>5. ledger' = [t \in Trackers |-> IF t \in P THEN "reported" ELSE ledger[t]]
      BY <3>4
    <3>6. P \in SUBSET Trackers
      BY <2>5, <3>3
    <3>7. \A t \in P : ledger[t] = "recorded"
      BY <2>5, <3>3
    <3>8. QED
      BY <3>5, <3>6, <3>7 DEF Ledger!LedgerNext, Ledger!Settle
  <2>8. QED
    BY <2>2, <2>6, <2>7
<1>6. QED
  BY <1>1, <1>2, <1>3, <1>4, <1>5 DEF Next

(* HarvestData implements ReportLedger.                                    *)
THEOREM LedgerRefinement == Spec => ImplementsLedger
<1>1. Init => Ledger!LedgerInit
  BY DEF Init, Ledger!LedgerInit, LedgerOf
<1>2. QED
  BY <1>1, LedgerMoves, Invariance, PTL DEF Spec, ImplementsLedger, Ledger!LedgerSpec
=============================================================================
