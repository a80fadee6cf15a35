---- MODULE MCBrowserRecovery ----
(* Instances of BrowserRecovery small enough for TLC. *)
EXTENDS BrowserRecovery

CONSTANTS c1, c2, k1, k2, v1, v2
====
