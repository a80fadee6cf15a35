---- MODULE MCBrowserCapability ----
(* Instances of BrowserCapability small enough for TLC. *)
EXTENDS BrowserCapability

CONSTANTS b1, b2
====
