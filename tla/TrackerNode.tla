----------------------------- MODULE TrackerNode -----------------------------
(***************************************************************************)
(* What of a finished request does not depend on its tree: its part in the *)
(* action and apdex statistics and its errors                              *)
(* (logistics/warehouse/tracker_node.py). Metrics has what does.           *)
(***************************************************************************)
EXTENDS Integers, Sequences

TimeMetric(name, scope, duration, exclusive) ==
    [name |-> name, scope |-> scope, duration |-> duration, exclusive |-> exclusive]

(* TrackerNode.action_metrics: an abnormal answer is not counted.          *)
ActionMetrics(r) ==
    IF r.web /\ r.status <= 400
      THEN << TimeMetric(<<"root", r.path>>, "", r.duration, r.exclusive) >> ELSE << >>

(* TrackerNode.apdex_metrics, with the apdex_t of the action.              *)
Grade(r, t) ==
    IF (r.status >= 400 /\ r.status # 401) \/ r.errors # << >> THEN "frustrating"
    ELSE IF r.duration <= t THEN "satisfying"
    ELSE IF r.duration <= 4 * t THEN "tolerating" ELSE "frustrating"

ApdexMetrics(r, t) ==
    IF ~r.web THEN << >>
    ELSE << [name |-> r.path,
             satisfying  |-> IF Grade(r, t) = "satisfying"  THEN 1 ELSE 0,
             tolerating  |-> IF Grade(r, t) = "tolerating"  THEN 1 ELSE 0,
             frustrating |-> IF Grade(r, t) = "frustrating" THEN 1 ELSE 0] >>

(* TrackerNode.traced_error: each kind of error once. An error has the     *)
(* status the request had when it was recorded: 500 before the answer.     *)
TracedErrors(r) ==
    LET keys[i \in 0 .. Len(r.errors)] ==
          IF i = 0 THEN << >>
          ELSE LET before == keys[i - 1]
                   key    == <<r.path, r.errors[i].status, r.errors[i].name>>
               IN  IF \E j \in DOMAIN before : before[j] = key THEN before
                   ELSE Append(before, key)
    IN  keys[Len(r.errors)]

(* TrackerNode.traced_external_error: every one of them.                   *)
TracedExternalErrors(r) ==
    [i \in 1 .. Len(r.externals) |-> <<r.externals[i], r.status>>]
=============================================================================
