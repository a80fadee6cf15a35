-------------------------- MODULE BrowserRecovery --------------------------
(***************************************************************************)
(* Durable recovery of Browser work: the store of                          *)
(* nla-browser-recovery.mjs and the part of runRoleTask that drives it.    *)
(* The store is four things in a directory: a witness file, the            *)
(* subdirectory, the authentication key and the signed index of records.   *)
(* They are read and written under a lock directory that every process of  *)
(* the machine respects.  A caller is one Browser call of runRoleTask in a *)
(* process of its own; it may die between any two file operations, and a   *)
(* write may fail.  A file is written to a temporary name and renamed, so  *)
(* it is there as a whole or not at all, but the sync of the directory     *)
(* after the rename may still report a failure of what has been done.      *)
(*                                                                         *)
(* The contract of a task is represented by its criteria, the token of an  *)
(* execution claim by the caller that was given it.  When that caller dies *)
(* or is refused its token, nobody can present the token again: the claim  *)
(* reads Lost.                                                             *)
(***************************************************************************)
EXTENDS FiniteSets

CONSTANTS Callers, TaskIds, Criteria, Nobody, Lost, NoTask

ASSUME CallerAssumption == {Nobody, Lost} \cap Callers = {} /\ Nobody # Lost
ASSUME TaskIdAssumption == NoTask \notin TaskIds

VARIABLES
    at,       \* what each caller is doing
    stage,    \* where it is in a transaction
    task,     \* the logical task it works on, or NoTask
    work,     \* the criteria it executes
    staged,   \* the store its transaction will write
    ok,       \* the transaction will return rather than throw
    lock,     \* the holder of the lock directory
    witness, directory, key,  \* the files
    index     \* the records of the index; NoRecord for an absent one

callerVars == <<at, stage, task, work, staged, ok>>
vars == <<callerVars, lock, witness, directory, key, index>>

----------------------------------------------------------------------------
NoRecord == [pending |-> {}, claim |-> Nobody, exists |-> FALSE]
Records == [pending : SUBSET Criteria, claim : Callers \cup {Nobody, Lost},
            exists : BOOLEAN]
NewRecord == [pending |-> Criteria, claim |-> Nobody, exists |-> TRUE]
Empty == [k \in TaskIds |-> NoRecord]

Transactions == {"begin", "claim", "finalize"}
Activities == Transactions \cup {"idle", "allocating", "running"}
Stages == {"out", "witness", "mkdir", "key", "index", "unlock"}

\* Nobody may execute the task of c as long as c is in one of these.
Executing(c) == at[c] \in {"allocating", "running", "finalize"}

\* Mutant: an abandoned lock is taken over.
LockStealable == lock \in {Nobody, Lost}

\* mkdir of the lock directory succeeds.
LockFree == lock = Nobody

\* The store as the transaction finds it: absent, readable, or neither.
Absent == ~directory /\ ~witness
Readable == directory /\ witness /\ key /\ index # Empty

\* What a transaction writes first: a store has its key from its creation on.
FirstWrite == IF key THEN "index" ELSE "witness"

\* The token of c is gone.
LoseClaims(store, c) ==
    [k \in TaskIds |-> IF store[k].claim = c THEN [store[k] EXCEPT !.claim = Lost]
                       ELSE store[k]]

\* The criteria the holder of a new claim executes: those pending as of the claim.
Outstanding(c) == staged[c][task[c]].pending

\* beginBrowserRecovery: a new record, or an existing one that is not claimed.
\* A result is the task and the store; there is none if the operation throws.
Begun(c) ==
    IF task[c] = NoTask
    THEN {<<k, [index EXCEPT ![k] = NewRecord]>> : k \in {j \in TaskIds : ~index[j].exists}}
    ELSE {<<k, index>> : k \in {j \in {task[c]} : index[j].exists /\ index[j].claim = Nobody}}

\* Mutants of the claim: it is taken over from a caller that died; it is handed out
\* by a transaction that only reads; a completed task can be claimed.
ClaimedByHeir(c) ==
    LET r == index[task[c]]
    IN  IF r.exists /\ r.claim \in {Nobody, Lost} /\ r.pending # {}
        THEN {<<task[c], [index EXCEPT ![task[c]].claim = c]>>} ELSE {}
ClaimedUnrecorded(c) ==
    LET r == index[task[c]]
    IN  IF r.exists /\ r.claim = Nobody /\ r.pending # {}
        THEN {<<task[c], index>>} ELSE {}
ClaimedThoughComplete(c) ==
    LET r == index[task[c]]
    IN  IF r.exists /\ r.claim = Nobody
        THEN {<<task[c], [index EXCEPT ![task[c]].claim = c]>>} ELSE {}

\* claimBrowserRecoveryTask: nobody's, and something left to do.
ClaimedBy(c) ==
    LET r == index[task[c]]
    IN  IF r.exists /\ r.claim = Nobody /\ r.pending # {}
        THEN {<<task[c], [index EXCEPT ![task[c]].claim = c]>>} ELSE {}

\* createBrowserRecovery: the outcome of the executed criteria and the end of
\* the claim in one document; a check of a completed criterion is refused.
Finalized(c) ==
    LET r == index[task[c]]
    IN  IF r.exists /\ r.claim = c /\ work[c] \subseteq r.pending
        THEN {<<task[c], [index EXCEPT ![task[c]] =
                            [r EXCEPT !.pending = r.pending \ passed, !.claim = Nobody]]>> :
              passed \in SUBSET work[c]}
        ELSE {}

Results(c) == CASE at[c] = "begin" -> Begun(c)
                [] at[c] = "claim" -> ClaimedBy(c)
                [] at[c] = "finalize" -> Finalized(c)

\* Only a new task may start the store.
Required(c) == ~(at[c] = "begin" /\ task[c] = NoTask)

----------------------------------------------------------------------------
\* The call returns; whatever claim it had, its token is gone, also for the copy
\* of the store that somebody else is about to write.
Abandon(c) ==
    /\ at' = [at EXCEPT ![c] = "idle"]
    /\ task' = [task EXCEPT ![c] = NoTask]
    /\ work' = [work EXCEPT ![c] = {}]
    /\ staged' = [d \in Callers |-> IF d = c THEN Empty ELSE LoseClaims(staged[d], c)]
    /\ index' = LoseClaims(index, c)

(* transaction().                                                          *)

Throw(c) ==
    /\ stage' = [stage EXCEPT ![c] = "unlock"]
    /\ ok' = [ok EXCEPT ![c] = FALSE]
    /\ UNCHANGED <<at, task, work, staged>>

\* The lock is free: the store is read and the new one computed.
Enter(c) ==
    /\ at[c] \in Transactions /\ stage[c] = "out"
    /\ LockFree /\ lock' = c
    /\ LET trusted == Readable \/ (Absent /\ ~Required(c))
       IN  \/ /\ trusted
              /\ \E r \in Results(c) :
                    /\ task' = [task EXCEPT ![c] = r[1]]
                    /\ staged' = [staged EXCEPT ![c] = r[2]]
              /\ stage' = [stage EXCEPT ![c] = FirstWrite]
              /\ UNCHANGED <<at, work, ok>>
           \/ (~trusted \/ Results(c) = {}) /\ Throw(c)
    /\ UNCHANGED <<witness, directory, key, index>>

\* No lock within three seconds, for instance because its holder died.
LockTimeout(c) ==
    /\ at[c] \in Transactions /\ stage[c] = "out" /\ lock # Nobody
    /\ Abandon(c)
    /\ UNCHANGED <<stage, ok, lock, witness, directory, key>>

Write(c, from, to) ==
    /\ stage[c] = from
    /\ stage' = [stage EXCEPT ![c] = to]
    /\ UNCHANGED <<at, task, work, staged, ok, lock>>

WriteWitness(c) ==
    /\ Write(c, "witness", "mkdir") /\ witness' = TRUE
    /\ UNCHANGED <<directory, key, index>>

MakeDirectory(c) ==
    /\ Write(c, "mkdir", "key") /\ directory' = TRUE
    /\ UNCHANGED <<witness, key, index>>

WriteKey(c) ==
    /\ Write(c, "key", "index") /\ key' = TRUE
    /\ UNCHANGED <<witness, directory, index>>

WriteIndex(c) ==
    /\ Write(c, "index", "unlock") /\ index' = staged[c]
    /\ UNCHANGED <<witness, directory, key>>

\* A write reports failure, before the rename or after it.
WriteFails(c) ==
    /\ stage[c] \in {"witness", "mkdir", "key", "index"}
    /\ Throw(c)
    /\ witness' \in {witness, witness \/ stage[c] = "witness"}
    /\ key' \in {key, key \/ stage[c] = "key"}
    /\ index' \in {index, IF stage[c] = "index" THEN staged[c] ELSE index}
    /\ UNCHANGED <<directory, lock>>

----------------------------------------------------------------------------
(* runRoleTask.                                                            *)

\* A new task, or one to be resumed by its identity.
Call(c) ==
    /\ at[c] = "idle"
    /\ \E k \in TaskIds \cup {NoTask} : task' = [task EXCEPT ![c] = k]
    /\ at' = [at EXCEPT ![c] = "begin"]
    /\ UNCHANGED <<stage, work, staged, ok, lock, witness, directory, key, index>>

\* The lock is released and the transaction returns, or throws.
Leave(c) ==
    /\ stage[c] = "unlock"
    /\ lock' = Nobody
    /\ stage' = [stage EXCEPT ![c] = "out"]
    /\ ok' = [ok EXCEPT ![c] = TRUE]
    /\ CASE ~ok[c] \/ at[c] = "finalize" -> Abandon(c)
         [] ok[c] /\ at[c] = "begin" ->
              /\ at' = [at EXCEPT ![c] = "claim"]
              /\ staged' = [staged EXCEPT ![c] = Empty]
              /\ UNCHANGED <<task, work, index>>
         [] ok[c] /\ at[c] = "claim" ->
              /\ at' = [at EXCEPT ![c] = "allocating"]
              /\ work' = [work EXCEPT ![c] = Outstanding(c)]
              /\ staged' = [staged EXCEPT ![c] = Empty]
              /\ UNCHANGED <<task, index>>
    /\ UNCHANGED <<witness, directory, key>>

\* The browser is allocated, or it is not and the claim stays.
Allocate(c) ==
    /\ at[c] = "allocating"
    /\ \/ at' = [at EXCEPT ![c] = "running"] /\ UNCHANGED <<task, work, staged, index>>
       \/ Abandon(c)
    /\ UNCHANGED <<stage, ok, lock, witness, directory, key>>

\* The child has ended, well or badly, and the capability has its evidence, or
\* it could not produce any.
Run(c) ==
    /\ at[c] = "running"
    /\ \/ at' = [at EXCEPT ![c] = "finalize"] /\ UNCHANGED <<task, work, staged, index>>
       \/ Abandon(c)
    /\ UNCHANGED <<stage, ok, lock, witness, directory, key>>

\* The process dies, with the lock if it has it, and its successor knows nothing.
Crash(c) ==
    /\ at[c] # "idle"
    /\ Abandon(c)
    /\ stage' = [stage EXCEPT ![c] = "out"]
    /\ ok' = [ok EXCEPT ![c] = TRUE]
    /\ lock' = IF lock = c THEN Lost ELSE lock
    /\ UNCHANGED <<witness, directory, key>>

----------------------------------------------------------------------------
Init ==
    /\ at = [c \in Callers |-> "idle"]
    /\ stage = [c \in Callers |-> "out"]
    /\ task = [c \in Callers |-> NoTask]
    /\ work = [c \in Callers |-> {}]
    /\ staged = [c \in Callers |-> Empty]
    /\ ok = [c \in Callers |-> TRUE]
    /\ lock = Nobody
    /\ witness = FALSE /\ directory = FALSE /\ key = FALSE
    /\ index = Empty

Transact(c) ==
    \/ Enter(c) \/ LockTimeout(c)
    \/ WriteWitness(c) \/ MakeDirectory(c) \/ WriteKey(c) \/ WriteIndex(c)
    \/ WriteFails(c) \/ Leave(c)

Next == \E c \in Callers :
    Call(c) \/ Transact(c) \/ Allocate(c) \/ Run(c) \/ Crash(c)

Spec == Init /\ [][Next]_vars

\* A transaction is a synchronous function; nothing is assumed of the browser.
FairSpec == Spec /\ \A c \in Callers : WF_vars(Transact(c))

----------------------------------------------------------------------------
(* Properties.                                                             *)

\* Every variable has its type, and a call that is past its begin transaction has
\* a record.
TypeOK ==
    /\ at \in [Callers -> Activities]
    /\ stage \in [Callers -> Stages]
    /\ task \in [Callers -> TaskIds \cup {NoTask}]
    /\ work \in [Callers -> SUBSET Criteria]
    /\ staged \in [Callers -> [TaskIds -> Records]]
    /\ ok \in [Callers -> BOOLEAN]
    /\ lock \in Callers \cup {Nobody, Lost}
    /\ {witness, directory, key} \subseteq BOOLEAN
    /\ index \in [TaskIds -> Records]
    /\ \A c \in Callers :
          at[c] \notin {"idle", "begin"} => task[c] \in TaskIds /\ index[task[c]].exists

\* Two callers never execute one logical task, whatever they read before they
\* claimed it.
ExecutedByOne ==
    \A c, d \in Callers :
        c # d /\ Executing(c) /\ Executing(d) => task[c] # task[d]

\* A criterion is executed only while the store still has it pending: what one
\* caller completed is never run again by another that listed it earlier.
NoReplay ==
    \A c \in Callers :
        at[c] \in {"allocating", "running"} => work[c] \subseteq index[task[c]].pending

\* An index is never found without its witness and its key, so that deleting the
\* directory cannot pass for a fresh start.
IndexIsWitnessed == index # Empty => witness /\ directory /\ key

Inv == TypeOK /\ ExecutedByOne /\ NoReplay /\ IndexIsWitnessed

\* "process death never makes replay safe": a task whose executor died or lost
\* its token is never executed, completed or released again.
LostStaysUnknown ==
    [][\A k \in TaskIds : index[k].claim = Lost => index'[k] = index[k]]_vars

\* No crash and no failing write loses a record or reopens a completed criterion;
\* in particular a store whose creation was cut short is not taken for none.
StoreOnlyGrows ==
    [][\A k \in TaskIds :
          index[k].exists =>
             index'[k].exists /\ index'[k].pending \subseteq index[k].pending]_vars

\* What was lost stays unknown, what was kept stays known.
StoreKeeps == LostStaysUnknown /\ StoreOnlyGrows

\* "abandoned locks fail closed": once a process has died with the lock nothing
\* is written any more.
AbandonedLockFreezes ==
    [][lock = Lost =>
          /\ UNCHANGED <<lock, witness, directory, key>>
          /\ \A k \in TaskIds : index'[k].pending = index[k].pending
                             /\ index'[k].exists = index[k].exists]_vars

\* No transaction waits for ever, not even for a lock nobody will release.
TransactionsEnd ==
    \A c \in Callers :
        at[c] \in Transactions ~> at[c] \notin Transactions

\* A lock whose holder died is neither stolen nor waited for without end.
AbandonedLockSafe == AbandonedLockFreezes /\ TransactionsEnd

\* The store implements the logical tasks.
Tasks == INSTANCE LogicalTasks WITH
    known <- {k \in TaskIds : index[k].exists},
    pending <- [k \in TaskIds |-> IF index[k].exists THEN index[k].pending ELSE Criteria],
    executor <- [k \in TaskIds |-> index[k].claim]
ImplementsLogicalTasks == Tasks!LSpec
=============================================================================
