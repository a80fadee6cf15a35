---- MODULE MCPooledTask ----
(* Instances of PooledTask small enough for TLC. *)
EXTENDS PooledTask

CONSTANTS m1, m2, m3, t1, t2

PoolOfTwo == <<m1, m2>>
PoolOfThree == <<m1, m2, m3>>
====
