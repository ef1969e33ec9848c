----------------------------- MODULE MCBrowserRum -----------------------------
(* Instances of BrowserRum for TLC. *)
EXTENDS BrowserRum
===============================================================================
