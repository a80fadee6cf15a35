---- MODULE MCNativeFailover ----
(* Instances of NativeFailover small enough for TLC. *)
EXTENDS NativeFailover

CONSTANTS m1, m2

PoolOfTwo == <<m1, m2>>

RankedReported == {[ranked |-> TRUE, reported |-> TRUE]}
RankedOrOrdered == RankedReported \cup {[ranked |-> FALSE, reported |-> FALSE]}
====
