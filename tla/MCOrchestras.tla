---- MODULE MCOrchestras ----
(* Instances of Orchestras small enough for TLC. *)
EXTENDS Orchestras, TLC

CONSTANTS b1, b2

\* The coordinator on either model; the worker on one of them, or on any.
OneOrAuto ==
    {[coordinator |-> b1, worker |-> {b1}], [coordinator |-> b1, worker |-> AutoPool],
     [coordinator |-> b2, worker |-> {b1}], [coordinator |-> b2, worker |-> AutoPool]}

\* OpenCode offers both models, or has lost the second.
BothOrFirst == {{b1, b2}, {b1}}

Swap == Permutations(Calls)
====
