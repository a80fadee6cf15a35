---------------------------- MODULE MCRoleTasks ----------------------------
(* Instances of RoleTasks for TLC. *)
EXTENDS RoleTasks

CONSTANTS b1, b2
TwoModels == <<b1, b2>>

\* Sessions and calls are told apart by nothing but their names.
Swap == Permutations(Sessions) \cup Permutations(Calls)
=============================================================================
