---------------------------- MODULE MCHarvestData ---------------------------
(* Instances of HarvestData for TLC. *)
EXTENDS HarvestData

(* Everything on, quantiles off, switched off by the server, and on        *)
(* without traces: two answers differ in every switch a payload or a merge *)
(* depends on.                                                             *)
AllOn      == {"enabled", "errors", "traces", "sql", "quantile"}
NoQuantile == AllOn \ {"quantile"}
Disabled   == {"errors", "traces", "sql", "quantile"}
Untraced   == {"enabled", "quantile"}

MCConfigs == {AllOn, NoQuantile, Disabled, Untraced}
=============================================================================
