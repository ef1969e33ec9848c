----------------------------- MODULE Statistics ------------------------------
(***************************************************************************)
(* The numbers and the limits on the way from finished requests to the     *)
(* server: the zone of a request, its merge into the packager, the         *)
(* snapshot, the uploads and the rollback (logistics/workshop/packager.py),*)
(* with the values of Metrics in the packets of Packets.                   *)
(*                                                                         *)
(* HarvestData models the same path for the question where the data of a   *)
(* request is, with sets in the place of packets, and with the settings    *)
(* and threads that come in between. Here everything is switched on and a  *)
(* request is merged in one step; the quantiles are Quantile's. What a     *)
(* request has of its tree, its times and traces, Metrics makes of it.     *)
(*                                                                         *)
(* A dictionary is a function; what Packager keeps under __time_packets,   *)
(* __general_packets and so on is a field of the record packager.          *)
(***************************************************************************)
EXTENDS TrackerNode, Packets, FiniteSets, SequencesExt

CONSTANTS
    Finished,       (* the requests there may be                           *)
    ApdexT,         (* apdex_t                                             *)
    NodeLimit,      (* action_tracer_nodes                                 *)
    TopN,           (* action_tracer.top_n                                 *)
    SlowSqlCount,   (* slow_sql_count                                      *)
    MaxErrors,      (* Packager.__max_error_count                          *)
    MaxRequests     (* bound: requests that finish                         *)

IsList(s) == s \in Seq({s[i] : i \in DOMAIN s})

ASSUME FinishedAssumption ==
    \A r \in Finished :
        /\ IsList(r.times) /\ IsList(r.traces)
        /\ IsList(r.errors) /\ IsList(r.externals) /\ IsList(r.sqls)
        /\ r.web \in BOOLEAN /\ r.status \in Nat /\ r.duration \in Nat /\ r.exclusive \in Nat
        /\ \A i \in DOMAIN r.times : r.times[i].duration \in Nat /\ r.times[i].exclusive \in Nat
        /\ \A i \in DOMAIN r.sqls : r.sqls[i].duration \in Nat
        /\ Len(r.traces) <= 1

ASSUME LimitsAssumption ==
    \A n \in {ApdexT, NodeLimit, TopN, SlowSqlCount, MaxErrors, MaxRequests} : n \in Nat

VARIABLES
    packager,   (* Application._packager                                   *)
    stat,       (* the snapshot of the harvest                             *)
    hpc,        (* what the harvest uploads next                           *)
    recorded,   (* history: the requests merged, in this order             *)
    from, upto  (* history: the snapshot has those after from, up to upto  *)

statVars == <<packager, stat, hpc, recorded, from, upto>>

Parts == {"times", "generals", "actions", "apdex", "errors", "externals", "slow", "sqls"}

EmptyDict == [key \in {} |-> key]
Empty == [part \in Parts |-> EmptyDict]

Get(dict, key, default) == IF key \in DOMAIN dict THEN dict[key] ELSE default
Put(dict, key, value) ==
    [k \in DOMAIN dict \cup {key} |-> IF k = key THEN value ELSE dict[k]]
Size(dict) == Cardinality(DOMAIN dict)

StatInit ==
    /\ packager = Empty /\ stat = Empty /\ hpc = "idle"
    /\ recorded = << >> /\ from = 0 /\ upto = 0

-----------------------------------------------------------------------------
(* The zone of a request: Packager.record_tracker.                         *)

(* The general metrics of all actions go into one packet.                  *)
Part(metric) == IF metric.name[1] = "GENERAL" THEN "generals" ELSE "times"
Key(metric) ==
    IF Part(metric) = "generals" THEN <<metric.name, "">> ELSE <<metric.name, metric.scope>>

RecordTime(dict, metric) ==
    Put(dict, Key(metric),
        MergeTime(Get(dict, Key(metric), NoTime), metric.duration, metric.exclusive))

RecordTimes(metrics, part) ==
    LET dict[i \in 0 .. Len(metrics)] ==
          IF i = 0 THEN EmptyDict
          ELSE IF Part(metrics[i]) = part THEN RecordTime(dict[i - 1], metrics[i]) ELSE dict[i - 1]
    IN  dict[Len(metrics)]

(* There is one such metric of a request at most; and one slow trace.      *)
RecordApdex(metrics) ==
    IF metrics = << >> THEN EmptyDict
    ELSE Put(EmptyDict, metrics[1].name, MergeApdex(NoApdex, metrics[1]))

RecordSlowAction(traces) ==
    IF traces = << >> THEN EmptyDict ELSE Put(EmptyDict, traces[1].path, <<traces[1]>>)

(* "item" is the count inside the error that is uploaded on its own.       *)
NoError == [count |-> 0, item |-> 0]

RecordError(dict, key) ==
    LET old == Get(dict, key, NoError)
    IN  IF Size(dict) > MaxErrors THEN dict
        ELSE Put(dict, key, [count |-> old.count + 1, item |-> old.item + 1])

RecordErrors(keys) ==
    LET dict[i \in 0 .. Len(keys)] ==
          IF i = 0 THEN EmptyDict ELSE RecordError(dict[i - 1], keys[i])
    IN  dict[Len(keys)]

RecordSql(dict, path, s) ==
    LET key == <<path, s.sql>>
    IN  IF Size(dict) > SlowSqlCount THEN dict
        ELSE Put(dict, key, MergeSql(Get(dict, key, NoSql), s.duration))

RecordSlowSql(path, sqls) ==
    LET dict[i \in 0 .. Len(sqls)] ==
          IF i = 0 THEN EmptyDict ELSE RecordSql(dict[i - 1], path, sqls[i])
    IN  dict[Len(sqls)]

(* No metric of an action is a general one.                                *)
RecordTracker(r) ==
    [times     |-> RecordTimes(r.times, "times"),
     generals  |-> RecordTimes(r.times, "generals"),
     actions   |-> RecordTimes(ActionMetrics(r), "times"),
     apdex     |-> RecordApdex(ApdexMetrics(r, ApdexT)),
     errors    |-> RecordErrors(TracedErrors(r)),
     externals |-> RecordErrors(TracedExternalErrors(r)),
     slow      |-> RecordSlowAction(r.traces),
     sqls      |-> RecordSlowSql(r.path, r.sqls)]

-----------------------------------------------------------------------------
(* Packager.merge_metric_packets.                                          *)

MergeDict(mine, theirs, Merge(_, _)) ==
    [key \in DOMAIN mine \cup DOMAIN theirs |->
        IF key \notin DOMAIN theirs THEN mine[key]
        ELSE IF key \notin DOMAIN mine THEN theirs[key]
        ELSE Merge(mine[key], theirs[key])]

(* The count beside the item stays what it was.                            *)
MergeError(mine, theirs) == [mine EXCEPT !.item = @ + theirs.count]

(* A plausible bug: the limit is not looked at.                            *)
MutMergeTraces(mine, theirs) == mine \o theirs

(* The zone of a request has one slow trace at most.                       *)
MergeTraces(mine, theirs) == IF Len(mine) > TopN THEN mine ELSE mine \o theirs

(* A statement, new or not, is passed over when there are too many.        *)
MergeSlowSql(dict, theirs, key) ==
    IF Size(dict) > SlowSqlCount THEN dict
    ELSE Put(dict, key, IF key \in DOMAIN dict THEN MergeSqls(dict[key], theirs[key])
                                              ELSE theirs[key])

MergeSlowSqls(mine, theirs, order) ==
    LET dict[i \in 0 .. Len(order)] ==
          IF i = 0 THEN mine ELSE MergeSlowSql(dict[i - 1], theirs, order[i])
    IN  dict[Len(order)]

MergeMetricPackets(mine, zone, order) ==
    [times     |-> MergeDict(mine.times, zone.times, MergeTimes),
     generals  |-> MergeDict(mine.generals, zone.generals, MergeTimes),
     actions   |-> MergeDict(mine.actions, zone.actions, MergeTimes),
     apdex     |-> MergeDict(mine.apdex, zone.apdex, MergeApdex),
     errors    |-> MergeDict(mine.errors, zone.errors, MergeError),
     externals |-> MergeDict(mine.externals, zone.externals, MergeError),
     slow      |-> MergeDict(mine.slow, zone.slow, MergeTraces),
     sqls      |-> MergeSlowSqls(mine.sqls, zone.sqls, order)]

(* Application.record_tracker. A dictionary may be iterated in any order.  *)
Record(r) ==
    /\ Len(recorded) < MaxRequests
    /\ LET zone == RecordTracker(r)
       IN  \E order \in SetToSeqs(DOMAIN zone.sqls) :
              packager' = MergeMetricPackets(packager, zone, order)
    /\ recorded' = Append(recorded, r)
    /\ UNCHANGED <<stat, hpc, from, upto>>

-----------------------------------------------------------------------------
(* Application.harvest.                                                    *)

(* Also when nothing was recorded since the last one.                      *)
TakeSnapshot ==
    /\ hpc = "idle" /\ hpc' = "metrics"
    /\ stat' = packager /\ packager' = Empty
    /\ from' = upto /\ upto' = Len(recorded)
    /\ UNCHANGED recorded

Metered == {"times", "generals", "actions", "apdex"}

(* What is emptied as the upload at hpc is built.                          *)
Emptied ==
    CASE hpc = "metrics"   -> Metered
      [] hpc = "errors"    -> {"errors"}
      [] hpc = "externals" -> {"externals"}
      [] hpc = "traces"    -> {}
      [] hpc = "sqls"      -> {"sqls"}

Built == [part \in Parts |-> IF part \in Emptied THEN EmptyDict ELSE stat[part]]

Following ==
    [metrics |-> "errors", errors |-> "externals", externals |-> "traces", traces |-> "sqls"]

Upload ==
    /\ hpc \in DOMAIN Following
    /\ hpc' = Following[hpc] /\ stat' = Built
    /\ UNCHANGED <<packager, recorded, from, upto>>

(* The last upload; reset_metric_packets.                                  *)
EndHarvest ==
    /\ hpc = "sqls"
    /\ hpc' = "idle" /\ stat' = Empty
    /\ UNCHANGED <<packager, recorded, from, upto>>

(* An upload fails and what is left of the snapshot is dropped.            *)
UploadFails ==
    /\ hpc # "idle"
    /\ hpc' = "idle" /\ stat' = Empty
    /\ UNCHANGED <<packager, recorded, from, upto>>

(* A plausible bug: both counts of an error go back.                       *)
MutRollbackError(mine, theirs) ==
    [count |-> mine.count + theirs.count, item |-> mine.item + theirs.item + theirs.count]

(* Rollback adds to the count beside the item only.                        *)
RollbackError(mine, theirs) == [mine EXCEPT !.count = @ + theirs.count]

(* Packager.rollback. No trace and no statement goes back.                 *)
Rollback(mine, left) ==
    [times     |-> MergeDict(mine.times, left.times, MergeTimes),
     generals  |-> MergeDict(mine.generals, left.generals, MergeTimes),
     actions   |-> MergeDict(mine.actions, left.actions, MergeTimes),
     apdex     |-> MergeDict(mine.apdex, left.apdex, MergeApdex),
     errors    |-> MergeDict(mine.errors, left.errors, RollbackError),
     externals |-> MergeDict(mine.externals, left.externals, RollbackError),
     slow      |-> mine.slow,
     sqls      |-> mine.sqls]

(* An upload fails with retries left.                                      *)
UploadRetry ==
    /\ hpc # "idle"
    /\ packager' = Rollback(packager, Built)
    /\ hpc' = "idle" /\ stat' = Empty
    /\ UNCHANGED <<recorded, from, upto>>

StatNext ==
    \/ \E r \in Finished : Record(r)
    \/ TakeSnapshot
    \/ Upload
    \/ EndHarvest
    \/ UploadFails
    \/ UploadRetry

StatSpec == StatInit /\ [][StatNext]_statVars

-----------------------------------------------------------------------------
(* What should hold.                                                       *)

Held  == SubSeq(recorded, upto + 1, Len(recorded))
Taken == SubSeq(recorded, from + 1, upto)

Sum(numbers) ==
    LET sum[i \in Nat] == IF i \in DOMAIN numbers THEN sum[i - 1] + numbers[i] ELSE 0
    IN  sum[Len(numbers)]

SumOver(set, number) ==
    LET sum[s \in SUBSET set] ==
          IF s = {} THEN 0 ELSE LET x == CHOOSE x \in s : TRUE IN number[x] + sum[s \ {x}]
    IN  sum[set]

(* What the tree of a request should be made into: a trace within its      *)
(* limit; and time metrics of which those of components are in the scope   *)
(* of the action, and their own times add up to its duration.              *)
TracesLimited ==
    \A r \in Finished : \A i \in DOMAIN r.traces : Len(r.traces[i].nodes) <= NodeLimit + 1

TreesAddUp ==
    \A r \in Finished :
        /\ \A i \in DOMAIN r.times : Part(r.times[i]) = "times" => r.times[i].scope = r.path
        /\ Sum([i \in 1 .. Len(r.times) |->
                  IF Part(r.times[i]) = "times" THEN r.times[i].exclusive ELSE 0]) = r.duration

(* The metrics of requests are lists of them, one for each request. What   *)
(* one metric adds to a packet, and those with the key together.           *)
Numbers(m) ==
    [count |-> 1, total |-> m.duration, exclusive |-> m.exclusive,
     squares |-> m.duration * m.duration]

Amount(metrics, key, field) ==
    Sum([i \in 1 .. Len(metrics) |->
            IF Key(metrics[i]) = key THEN Numbers(metrics[i])[field] ELSE 0])

Amounts(lists, key, field) == Sum([j \in 1 .. Len(lists) |-> Amount(lists[j], key, field)])

MetricsIn(lists) == UNION {{lists[j][i] : i \in DOMAIN lists[j]} : j \in DOMAIN lists}

(* A packet is what the metrics make together, however they were grouped.  *)
(* The minimum is only right when no time is zero.                         *)
Exact(packet, lists, key) ==
    LET times == {m.duration : m \in {m \in MetricsIn(lists) : Key(m) = key}}
    IN  /\ \A field \in {"count", "total", "exclusive", "squares"} :
              packet[field] = Amounts(lists, key, field)
        /\ packet.max \in times /\ \A t \in times : t <= packet.max
        /\ packet.min \in times /\ (0 \notin times => \A t \in times : packet.min <= t)

AllExact(dict, lists, part) ==
    /\ DOMAIN dict = {Key(m) : m \in {m \in MetricsIn(lists) : Part(m) = part}}
    /\ \A key \in DOMAIN dict : Exact(dict[key], lists, key)

TimesOf(requests)   == [j \in 1 .. Len(requests) |-> requests[j].times]
ActionsOf(requests) == [j \in 1 .. Len(requests) |-> ActionMetrics(requests[j])]

(* The packets have every number of the requests they stand for exactly,   *)
(* whatever the order of the requests: in the packager those since the     *)
(* last snapshot, and those before it in the snapshot until it is sent.    *)
StandsFor(packets, requests) ==
    /\ AllExact(packets.times, TimesOf(requests), "times")
    /\ AllExact(packets.generals, TimesOf(requests), "generals")
    /\ AllExact(packets.actions, ActionsOf(requests), "times")

PacketsExact ==
    /\ StandsFor(packager, Held)
    /\ hpc = "metrics" => StandsFor(stat, Taken)

(* Of the requests of an action: the own times of all components add up to *)
(* their durations; every web request is in the apdex once, those with an  *)
(* error or a bad answer as frustrating; the statistics of the action have *)
(* them all but for the bad answers.                                       *)
SharesOf(packets, requests) ==
    \A path \in {requests[j].path : j \in DOMAIN requests} :
        LET mine   == {j \in DOMAIN requests : requests[j].path = path}
            parts  == {key \in DOMAIN packets.times : key[2] = path}
            apdex  == Get(packets.apdex, path, NoApdex)
            action == Get(packets.actions, <<<<"root", path>>, "">>, NoTime)
            web    == {j \in mine : requests[j].web}
            bad    == {j \in web : requests[j].errors # << >> \/ requests[j].status > 401}
            good   == {j \in web : requests[j].status <= 400}
        IN  /\ SumOver(parts, [key \in parts |-> packets.times[key].exclusive])
                 = Sum([j \in 1 .. Len(requests) |->
                           IF j \in mine THEN requests[j].duration ELSE 0])
            /\ apdex.satisfying + apdex.tolerating + apdex.frustrating = Cardinality(web)
            /\ apdex.frustrating >= Cardinality(bad)
            /\ action.count = Cardinality(good)

SharesAddUp ==
    /\ SharesOf(packager, Held)
    /\ hpc = "metrics" => SharesOf(stat, Taken)

ErrorsOf(requests)   == [j \in 1 .. Len(requests) |-> TracedErrors(requests[j])]
ExternalsOf(requests) == [j \in 1 .. Len(requests) |-> TracedExternalErrors(requests[j])]

(* How often a key is in lists of keys.                                    *)
Occurs(keys, key) == Cardinality({i \in DOMAIN keys : keys[i] = key})
Occurrences(lists, key) == Sum([j \in 1 .. Len(lists) |-> Occurs(lists[j], key)])

(* Whatever is rolled back, no error is counted more often by the agent    *)
(* than it occurred, in either count.                                      *)
AtMost(mine, other, lists) ==
    \A key \in DOMAIN mine \cup DOMAIN other :
        LET m == Get(mine, key, NoError)
            o == Get(other, key, NoError)
        IN  /\ m.count + o.count <= Occurrences(lists, key)
            /\ m.item + o.item <= Occurrences(lists, key)

ErrorsNotInvented ==
    /\ AtMost(packager.errors, stat.errors, ErrorsOf(recorded))
    /\ AtMost(packager.externals, stat.externals, ExternalsOf(recorded))

(* The limits on what is kept, each exceeded by one at most: traces of an  *)
(* action, nodes of a trace, statements. The execution kept of a statement *)
(* is the slowest.                                                         *)
Limited(packets) ==
    /\ \A path \in DOMAIN packets.slow :
          /\ Len(packets.slow[path]) <= TopN + 1
          /\ \A i \in DOMAIN packets.slow[path] :
                Len(packets.slow[path][i].nodes) <= NodeLimit + 1
    /\ Size(packets.sqls) <= SlowSqlCount + 1
    /\ \A key \in DOMAIN packets.sqls : packets.sqls[key].node = packets.sqls[key].max

WithinLimits == Limited(packager) /\ Limited(stat)

-----------------------------------------------------------------------------
(* What the source says of itself, and the code does not do.               *)

(* "update of the minimum call time is dependent on initial value"         *)
(* (packets.py:30): the minimum is the least time merged, also when that   *)
(* is zero.                                                                *)
MinimumKept ==
    \A m \in MetricsIn(ActionsOf(Held)) : packager.actions[Key(m)].min <= m.duration

(* "Error trace is reached maximum limitation." (packager.py:162): there   *)
(* are no more kinds of errors than that, and one.                         *)
ErrorsLimited == Size(packager.errors) <= MaxErrors + 1

(* "stat the error trace metric for performance" (packager.py:517): until  *)
(* they are uploaded, errors are counted as often as they occurred.        *)
ErrorsCounted ==
    \A key \in DOMAIN packager.errors :
        packager.errors[key].count >= Occurrences(ErrorsOf(Held), key)
=============================================================================
