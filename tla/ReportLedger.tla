---------------------------- MODULE ReportLedger ----------------------------
(***************************************************************************)
(* What the agent promises about the metrics of a finished request: they   *)
(* are recorded or dropped, and what was recorded is reported to the       *)
(* server once, or lost for good. Nothing is reported twice, and nothing   *)
(* that was reported or lost comes back.                                   *)
(*                                                                         *)
(* HarvestData implements this specification.                              *)
(***************************************************************************)

CONSTANT Trackers       (* the finished requests                           *)

VARIABLE ledger         (* what became of the metrics of each one          *)

Entries == {"none", "recorded", "dropped", "reported", "lost"}

LedgerInit == ledger = [t \in Trackers |-> "none"]

(* Requests that finish are recorded, or dropped: no session, a switch.    *)
Record(t) ==
    /\ ledger[t] = "none"
    /\ \E e \in {"recorded", "dropped"} : ledger' = [ledger EXCEPT ![t] = e]

(* What one upload, or one reset, does to some of the recorded ones.       *)
Settle(T, e) ==
    /\ \A t \in T : ledger[t] = "recorded"
    /\ ledger' = [t \in Trackers |-> IF t \in T THEN e ELSE ledger[t]]

LedgerNext ==
    \/ \E t \in Trackers : Record(t)
    \/ \E T \in SUBSET Trackers, e \in {"reported", "lost"} : Settle(T, e)

LedgerSpec == LedgerInit /\ [][LedgerNext]_ledger
=============================================================================
