---------------------------- MODULE LogicalTasks ----------------------------
(***************************************************************************)
(* What the durable recovery of Browser work promises, without files,      *)
(* locks or processes: a logical task is executed by one caller at a time, *)
(* a criterion is completed at most once, and an execution whose caller    *)
(* was lost before it reported leaves the task UNKNOWN for ever.           *)
(***************************************************************************)
CONSTANTS
    TaskIds,   \* logical task identities
    Criteria,  \* the success criteria of a task's contract
    Callers,   \* the calls that may execute a task
    Nobody,    \* no caller
    Lost       \* a caller that will never report

VARIABLES
    known,     \* the tasks that exist
    pending,   \* the criteria of each task not completed yet
    executor   \* who may be executing a task

lvars == <<known, pending, executor>>

LInit ==
    /\ known = {}
    /\ pending = [k \in TaskIds |-> Criteria]
    /\ executor = [k \in TaskIds |-> Nobody]

Create(k) ==
    /\ k \notin known
    /\ known' = known \cup {k}
    /\ UNCHANGED <<pending, executor>>

\* An execution starts on a task nobody executes and that has work left.
Begin(k, c) ==
    /\ k \in known /\ executor[k] = Nobody /\ pending[k] # {}
    /\ executor' = [executor EXCEPT ![k] = c]
    /\ UNCHANGED <<known, pending>>

\* It reports which of the pending criteria it has completed.
Report(k, done) ==
    /\ executor[k] \in Callers /\ done \subseteq pending[k]
    /\ pending' = [pending EXCEPT ![k] = @ \ done]
    /\ executor' = [executor EXCEPT ![k] = Nobody]
    /\ UNCHANGED known

Lose(c) ==
    /\ executor' = [k \in TaskIds |-> IF executor[k] = c THEN Lost ELSE executor[k]]
    /\ UNCHANGED <<known, pending>>

LNext ==
    \/ \E k \in TaskIds :
          \/ Create(k)
          \/ \E c \in Callers : Begin(k, c)
          \/ \E done \in SUBSET Criteria : Report(k, done)
    \/ \E c \in Callers : Lose(c)

LSpec == LInit /\ [][LNext]_lvars
=============================================================================
