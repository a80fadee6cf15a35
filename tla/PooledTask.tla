----------------------------- MODULE PooledTask -----------------------------
(***************************************************************************)
(* runPooledTask of next-level-agent.js: a task of a role is given to the  *)
(* models of the role's pool, one attempt at a time in ONE child session,  *)
(* until a model answers, until nothing more may be tried, or until the    *)
(* caller cancels.  Any number of tasks run at once in the one event loop; *)
(* they meet in the health table, where an attempt holds the claim on its  *)
(* binding.  An action is the code from one await to the next.             *)
(*                                                                         *)
(* The caller's AbortSignal and the answers of the OpenCode server are the *)
(* environment.  A rejected prompt that does not say it timed out is taken *)
(* to mean that the server's agent loop has ended (the code acts on the    *)
(* same belief); a time-out says nothing about the loop.                   *)
(***************************************************************************)
EXTENDS ModelHealth, Sequences, Functions

CONSTANTS
    Tasks,         \* slots for runPooledTask calls; a slot is used repeatedly
    BrowserTasks,  \* the slots whose calls carry a browserSession
    Pool,          \* pool.models
    Ranked,        \* FALSE: selection mode fallback; TRUE: select or auto
    Coordinator    \* the primary session's binding, or NoBinding

ASSUME TaskAssumption == BrowserTasks \subseteq Tasks
ASSUME PoolAssumption == Pool \in Seq(Bindings) /\ IsInjective(Pool)
ASSUME RankedAssumption == Ranked \in BOOLEAN
ASSUME CoordinatorAssumption == Coordinator \in Bindings \cup {NoBinding}

VARIABLES
    pc,        \* where each task waits
    attempts,  \* the bindings to try, in order
    index,     \* the attempt under way
    reserve,   \* the coordinator binding if it may be used, or NoBinding
    aborted,   \* context.abort.aborted
    error,     \* the error the catch clause is handling while it stops the child
    outcome,   \* how the last call of the slot ended
    effect,    \* a side effect of the browser child: begun, or recorded as an event
    tried,     \* the bindings a prompt was sent to; attempted is their number
    running    \* the server may still be running the child's agent loop

control == <<attempts, index, reserve, tried>>
taskVars == <<pc, attempts, index, reserve, aborted, error, outcome, effect,
              tried, running>>
vars == <<healthVars, taskVars>>

----------------------------------------------------------------------------
AwaitingModel == {"prompting", "compacting", "continuing"}
HoldingPcs == {"preparing", "stopping"} \cup AwaitingModel
Pcs == HoldingPcs \cup {"idle", "creating", "rollback"}

Effects == {"none", "begun", "recorded"}

Outcomes == {"none", "succeeded", "failed", "unavailable", "preparation_failed",
             "stop_unconfirmed", "browser_unverified", "cleanup_unconfirmed",
             "creation_failed", "abandoned"}

\* What the catch clause learns of a failure: its class, the delay it asks for
\* and whether its text says that a request timed out.
Errors == [category : Categories, retryAfter : Nat, timeout : BOOLEAN]
NoError == [category |-> "unknown", retryAfter |-> 0, timeout |-> FALSE]
Incomplete == [category |-> "incomplete", retryAfter |-> 0, timeout |-> FALSE]
\* Mutant: a cancellation is classified by its text, as a time-out.
CancelledAsTransient == [category |-> "transient", retryAfter |-> 0, timeout |-> FALSE]
Cancelled == [category |-> "non_provider", retryAfter |-> 0, timeout |-> FALSE]

\* The errors a server call can be rejected with.  "The operation was aborted
\* due to timeout" is both a cancellation by its class and a time-out.
Rejections ==
    [category : {"transient"}, retryAfter : RetryAfters, timeout : BOOLEAN]
      \cup [category : {"non_provider"}, retryAfter : {0}, timeout : BOOLEAN]
      \cup [category : {"defective", "configuration", "unknown"},
            retryAfter : {0}, timeout : {FALSE}]

Holding(t) == pc[t] \in HoldingPcs
Current(t) == attempts[t][index[t]]     \* modelName, while Holding(t)

Increasing(s) == \A i, j \in DOMAIN s : i < j => s[i] < s[j]

\* The candidates of the pool: every eligible one in pool order, or those the
\* ranking of nla-model-selection.mjs keeps, in the order of its scores.
Selections(h) ==
    LET eligible == {b \in Range(Pool) : Eligible(h, b)}
        orders == {s \in UNION {[1..n -> eligible] : n \in 0..Len(Pool)} :
                     IsInjective(s)}
        place == [b \in Range(Pool) |-> CHOOSE i \in DOMAIN Pool : Pool[i] = b]
    IN  IF Ranked THEN orders
        ELSE {s \in orders :
                /\ Range(s) = eligible
                /\ Increasing([i \in DOMAIN s |-> place[s[i]]])}

\* The coordinator is a reserve when the inventory, the registry and the health
\* table allow it.
Reserves(h) ==
    {NoBinding} \cup
        (IF Coordinator # NoBinding /\ Eligible(h, Coordinator)
         THEN {Coordinator} ELSE {})

\* Mutant: the coordinator is appended although the pool has it.
WithReserveTwice(s, r) == IF r = NoBinding THEN s ELSE Append(s, r)
WithReserve(s, r) ==
    IF r = NoBinding \/ r \in Range(s) THEN s ELSE Append(s, r)

----------------------------------------------------------------------------
(* The loop over the attempts.                                             *)

Persist(h, b) == saved' \in PersistOutcomes(saved, h, b)

\* The call ends: nothing is left of it but its outcome.
Settle(t, result) ==
    /\ pc' = [pc EXCEPT ![t] = "idle"]
    /\ outcome' = [outcome EXCEPT ![t] = result]
    /\ error' = [error EXCEPT ![t] = NoError]
    /\ attempts' = [attempts EXCEPT ![t] = <<>>]
    /\ index' = [index EXCEPT ![t] = 0]
    /\ reserve' = [reserve EXCEPT ![t] = NoBinding]
    /\ tried' = [tried EXCEPT ![t] = {}]

\* After the loop; a child no prompt was sent to is rolled back first.
EndLoop(t, dispatched, result) ==
    IF dispatched
    THEN Settle(t, result)
    ELSE /\ pc' = [pc EXCEPT ![t] = "rollback"]
         /\ outcome' = [outcome EXCEPT ![t] = result]
         /\ error' = [error EXCEPT ![t] = NoError]
         /\ UNCHANGED control

\* The first binding from place i on that can be claimed starts an attempt;
\* h is the health table the loop finds.
NextAttempt(t, h, i, result) ==
    LET Free(j) == Eligible(h, attempts[t][j])
    IN  \/ \E j \in i..Len(attempts[t]) :
              /\ Free(j) /\ \A k \in i..j-1 : ~Free(k)
              /\ health' = Claimed(h, attempts[t][j])
              /\ pc' = [pc EXCEPT ![t] = "preparing"]
              /\ index' = [index EXCEPT ![t] = j]
              /\ error' = [error EXCEPT ![t] = NoError]
              /\ UNCHANGED <<attempts, reserve, tried, outcome>>
        \/ /\ \A j \in i..Len(attempts[t]) : ~Free(j)
           /\ health' = h
           /\ EndLoop(t, tried[t] # {}, result)

\* Places the loop may go on from after the attempt at index[t] failed: the
\* next one, or the coordinator's after an answer nobody could classify.
NextPlaces(t, category) ==
    CASE category \in HealthCategories \cup {"incomplete"} -> {index[t] + 1}
      [] category = "unknown" /\ Current(t) \in tried[t] ->
            {i \in index[t]+1..Len(attempts[t]) : attempts[t][i] = reserve[t]}
      [] OTHER -> {}

\* Mutant: the catch clause goes on wherever there is something left to try.
CatchRetrying(t, e, stopConfirmed) ==
    LET b == Current(t)
        seen == IF aborted[t] THEN Cancelled ELSE e
        h == Failed(health, b, seen.category, seen.retryAfter)
        places == NextPlaces(t, seen.category)
    IN  /\ Persist(h, b)
        /\ IF places = {}
           THEN health' = h /\ EndLoop(t, tried[t] # {}, "failed")
           ELSE \E i \in places : NextAttempt(t, h, i, "failed")

\* The catch clause from the point where the child is known to be stopped, or
\* known not to be.
Catch(t, e, stopConfirmed) ==
    LET b == Current(t)
        seen == IF aborted[t] THEN Cancelled ELSE e
        h == Failed(health, b, seen.category, seen.retryAfter)
        places == NextPlaces(t, seen.category)
        failed == IF tried[t] = {} THEN "preparation_failed" ELSE "failed"
        Break(result) == health' = h /\ EndLoop(t, tried[t] # {}, result)
    IN  /\ Persist(h, b)
        /\ CASE ~stopConfirmed -> Break("stop_unconfirmed")
             [] stopConfirmed /\ effect[t] = "recorded" -> Break("browser_unverified")
             [] stopConfirmed /\ effect[t] # "recorded" /\ places = {} -> Break(failed)
             [] OTHER -> \E i \in places : NextAttempt(t, h, i, failed)

\* Mutant: only an incomplete answer leaves a child to be stopped.
AttemptFailsUnstopped(t, e) ==
    IF e.category = "incomplete" /\ ~aborted[t]
    THEN /\ pc' = [pc EXCEPT ![t] = "stopping"]
         /\ error' = [error EXCEPT ![t] = e]
         /\ UNCHANGED <<healthVars, control, outcome>>
    ELSE Catch(t, e, TRUE)

\* A failure after the prompt was sent: an answer that stayed incomplete or a
\* request that timed out leaves the child to be stopped first.
AttemptFails(t, e) ==
    IF (e.category = "incomplete" \/ e.timeout) /\ ~aborted[t]
    THEN /\ pc' = [pc EXCEPT ![t] = "stopping"]
         /\ error' = [error EXCEPT ![t] = e]
         /\ UNCHANGED <<healthVars, control, outcome>>
    ELSE Catch(t, e, TRUE)

\* A usable answer, unless the caller has cancelled in the meantime.
AttemptSucceeds(t) ==
    IF aborted[t] THEN Catch(t, Cancelled, TRUE)
    ELSE /\ health' = Succeeded(health, Current(t))
         /\ Persist(health', Current(t))
         /\ Settle(t, "succeeded")

----------------------------------------------------------------------------
(* The steps of a task.                                                    *)

\* The call selects its attempts, none but the reserve when it is coordinatorOnly,
\* and asks the server for a child session; with nothing to try it fails at once
\* and the slot stays idle.
Start(t) ==
    /\ pc[t] = "idle"
    /\ \E s \in Selections(health) \cup {<<>>}, r \in Reserves(health) :
          /\ WithReserve(s, r) # <<>>
          /\ attempts' = [attempts EXCEPT ![t] = WithReserve(s, r)]
          /\ reserve' = [reserve EXCEPT ![t] = r]
    /\ pc' = [pc EXCEPT ![t] = "creating"]
    /\ index' = [index EXCEPT ![t] = 0]
    /\ aborted' = [aborted EXCEPT ![t] = FALSE]
    /\ outcome' = [outcome EXCEPT ![t] = "none"]
    /\ effect' = [effect EXCEPT ![t] = "none"]
    /\ tried' = [tried EXCEPT ![t] = {}]
    /\ running' = [running EXCEPT ![t] = FALSE]
    /\ UNCHANGED <<healthVars, error>>

Create(t) ==
    /\ pc[t] = "creating"
    /\ IF aborted[t]
       THEN Settle(t, "abandoned") /\ UNCHANGED health
       ELSE NextAttempt(t, health, 1, "unavailable")
    /\ UNCHANGED <<saved, aborted, effect, running>>

CreateFails(t) ==
    /\ pc[t] = "creating"
    /\ Settle(t, "creation_failed")
    /\ UNCHANGED <<healthVars, aborted, effect, running>>

\* The tool list and the prompt are ready: the prompt is sent.
Dispatch(t) ==
    /\ pc[t] = "preparing"
    /\ IF aborted[t]
       THEN Catch(t, Cancelled, TRUE) /\ UNCHANGED running
       ELSE /\ pc' = [pc EXCEPT ![t] = "prompting"]
            /\ tried' = [tried EXCEPT ![t] = @ \cup {Current(t)}]
            /\ running' = [running EXCEPT ![t] = TRUE]
            /\ UNCHANGED <<healthVars, attempts, index, reserve, outcome, error>>
    /\ UNCHANGED <<aborted, effect>>

PrepareFails(t) ==
    /\ pc[t] = "preparing"
    /\ \E e \in Rejections : Catch(t, e, TRUE)
    /\ UNCHANGED <<aborted, effect, running>>

\* The browser child clicks, fills, uploads or the like, in any attempt whose agent
\* loop runs.  What the backend does is recorded only when it has answered, or
\* failed to, which may be after the attempt that began it has ended.
BeginEffect(t) ==
    /\ t \in BrowserTasks
    /\ pc[t] # "idle" /\ running[t] /\ effect[t] = "none"
    /\ effect' = [effect EXCEPT ![t] = "begun"]
    /\ UNCHANGED <<healthVars, control, pc, aborted, error, outcome, running>>

RecordEffect(t) ==
    /\ pc[t] # "idle" /\ effect[t] = "begun"
    /\ effect' = [effect EXCEPT ![t] = "recorded"]
    /\ UNCHANGED <<healthVars, control, pc, aborted, error, outcome, running>>

\* The server answers a prompt after the tools of its loop have ended.
ToolsEnded(t) == effect[t] # "begun"

Answer(t) ==
    /\ pc[t] \in {"prompting", "continuing"} /\ ToolsEnded(t)
    /\ running' = [running EXCEPT ![t] = FALSE]
    /\ AttemptSucceeds(t)
    /\ UNCHANGED <<aborted, effect>>

Reject(t) ==
    /\ pc[t] = "prompting"
    /\ \E e \in Rejections :
          /\ running' = [running EXCEPT ![t] = e.timeout]
          /\ AttemptFails(t, e)
    /\ UNCHANGED <<aborted, effect>>

\* An answer cut short.  It is repaired in the same attempt, after compacting
\* the child unless it was merely empty; never in a browser task.
AnswerIncomplete(t) ==
    /\ pc[t] = "prompting" /\ ToolsEnded(t)
    /\ IF t \in BrowserTasks \/ aborted[t]
       THEN /\ running' = [running EXCEPT ![t] = FALSE]
            /\ AttemptFails(t, Incomplete)
       ELSE /\ \E next \in {"compacting", "continuing"} :
                  pc' = [pc EXCEPT ![t] = next]
            /\ UNCHANGED <<healthVars, control, error, outcome, running>>
    /\ UNCHANGED <<aborted, effect>>

Compacted(t) ==
    /\ pc[t] = "compacting"
    /\ IF aborted[t]
       THEN Catch(t, Cancelled, TRUE)
       ELSE /\ pc' = [pc EXCEPT ![t] = "continuing"]
            /\ UNCHANGED <<healthVars, control, error, outcome>>
    /\ UNCHANGED <<aborted, effect, running>>

\* Compaction or continuation fails: whatever the reason, the result stays
\* incomplete; the continuation may still be running if it was not answered.
RecoveryFails(t) ==
    /\ pc[t] \in {"compacting", "continuing"}
    /\ running' \in {running, [running EXCEPT ![t] = FALSE]}
    /\ AttemptFails(t, Incomplete)
    /\ UNCHANGED <<aborted, effect>>

\* The continuation's answer is complete but reports a model error.
ContinuationError(t) ==
    /\ pc[t] = "continuing"
    /\ running' = [running EXCEPT ![t] = FALSE]
    /\ \E e \in Rejections : AttemptFails(t, e)
    /\ UNCHANGED <<aborted, effect>>

\* Mutant: the continuation of an incomplete answer does not race cancellation.
CancelPromptOnly(t) ==
    /\ pc[t] = "prompting" /\ aborted[t]
    /\ Catch(t, Cancelled, TRUE)
    /\ UNCHANGED <<aborted, effect, running>>

\* The cancellation promise wins the race with the server; the abort request
\* it sends to the child is not awaited.
Cancel(t) ==
    /\ pc[t] \in AwaitingModel /\ aborted[t]
    /\ Catch(t, Cancelled, TRUE)
    /\ UNCHANGED <<aborted, effect, running>>

StopConfirmed(t) ==
    /\ pc[t] = "stopping"
    /\ running' = [running EXCEPT ![t] = FALSE]
    /\ Catch(t, error[t], TRUE)
    /\ UNCHANGED <<aborted, effect>>

\* No answer in five seconds, or an answer that says no.
StopUnconfirmed(t) ==
    /\ pc[t] = "stopping"
    /\ Catch(t, error[t], FALSE)
    /\ UNCHANGED <<aborted, effect, running>>

RollBack(t) ==
    /\ pc[t] = "rollback"
    /\ \/ Settle(t, outcome[t])
       \/ Settle(t, "cleanup_unconfirmed")
    /\ UNCHANGED <<healthVars, aborted, effect, running>>

Abort(t) ==
    /\ pc[t] # "idle" /\ ~aborted[t]
    /\ aborted' = [aborted EXCEPT ![t] = TRUE]
    /\ UNCHANGED <<healthVars, control, pc, error, outcome, effect, running>>

\* The process, and with it every child's agent loop, ends and starts again.
Restart ==
    /\ Hydrate
    /\ pc' = [t \in Tasks |-> "idle"]
    /\ aborted' = [t \in Tasks |-> FALSE]
    /\ error' = [t \in Tasks |-> NoError]
    /\ outcome' = [t \in Tasks |-> "none"]
    /\ effect' = [t \in Tasks |-> "none"]
    /\ tried' = [t \in Tasks |-> {}]
    /\ running' = [t \in Tasks |-> FALSE]
    /\ attempts' = [t \in Tasks |-> <<>>]
    /\ index' = [t \in Tasks |-> 0]
    /\ reserve' = [t \in Tasks |-> NoBinding]

----------------------------------------------------------------------------
Init ==
    /\ HealthInit
    /\ pc = [t \in Tasks |-> "idle"]
    /\ attempts = [t \in Tasks |-> <<>>]
    /\ index = [t \in Tasks |-> 0]
    /\ reserve = [t \in Tasks |-> NoBinding]
    /\ aborted = [t \in Tasks |-> FALSE]
    /\ error = [t \in Tasks |-> NoError]
    /\ outcome = [t \in Tasks |-> "none"]
    /\ effect = [t \in Tasks |-> "none"]
    /\ tried = [t \in Tasks |-> {}]
    /\ running = [t \in Tasks |-> FALSE]

\* The steps that only need the plugin or a call with a deadline to end.
OwnStep(t) ==
    \/ Create(t) \/ CreateFails(t)
    \/ Dispatch(t) \/ PrepareFails(t)
    \/ Cancel(t) \/ StopConfirmed(t) \/ StopUnconfirmed(t)
    \/ RollBack(t)

\* The steps that wait for the model.
ModelStep(t) ==
    \/ Answer(t) \/ Reject(t) \/ AnswerIncomplete(t) \/ BeginEffect(t) \/ RecordEffect(t)
    \/ Compacted(t) \/ RecoveryFails(t) \/ ContinuationError(t)

TaskStep(t) == Start(t) \/ Abort(t) \/ OwnStep(t) \/ ModelStep(t)

TableStep == (Tick \/ \E b \in Bindings : Reset(b)) /\ UNCHANGED taskVars

Next == (\E t \in Tasks : TaskStep(t)) \/ TableStep \/ Restart

Spec == Init /\ [][Next]_vars

\* The event loop runs every continuation; creation, tool listing and the
\* requests that stop a child are local calls of the server, which answers
\* them; nothing is assumed of a model.
FairSpec == Spec /\ \A t \in Tasks : WF_vars(OwnStep(t))

----------------------------------------------------------------------------
(* Properties.                                                             *)

\* Every variable has its type.
TypeOK ==
    /\ HealthTypeOK
    /\ pc \in [Tasks -> Pcs]
    /\ attempts \in [Tasks -> Seq(Bindings)]
    /\ index \in [Tasks -> Nat]
    /\ \A t \in Tasks : Holding(t) => index[t] \in DOMAIN attempts[t]
    /\ reserve \in [Tasks -> Bindings \cup {NoBinding}]
    /\ aborted \in [Tasks -> BOOLEAN]
    /\ error \in [Tasks -> Errors]
    /\ outcome \in [Tasks -> Outcomes]
    /\ effect \in [Tasks -> Effects]
    /\ tried \in [Tasks -> SUBSET Bindings]
    /\ running \in [Tasks -> BOOLEAN]

\* "Binding claims are exclusive even for healthy calls" (README): whatever
\* interleaving of attempts, failures and cancellations, no two tasks have an
\* attempt under way on one binding.
ClaimExclusive ==
    \A t, u \in Tasks :
        t # u /\ Holding(t) /\ Holding(u) => Current(t) # Current(u)

\* The state invariant: every value has its type, and ClaimExclusive.
Inv == TypeOK /\ ClaimExclusive

\* A binding is in flight exactly while some task has an attempt on it: no path
\* through the catch and finally clauses leaks a claim, which would put the
\* binding out of use until the process restarts, or gives one up early.
ClaimsAccounted ==
    \A b \in Bindings :
        InFlight(health, b) <=> \E t \in Tasks : Holding(t) /\ Current(t) = b

\* A prompt of a further attempt goes to the child only when the agent loop of
\* the attempt before it is known to have ended, so that two loops never work in
\* one session.
OneLoopPerChild ==
    [][\A t \in Tasks :
          pc[t] = "preparing" /\ pc'[t] = "prompting" => ~running[t]]_vars

\* Once a click, an upload or the like is recorded, the browser task is not given to
\* a further model, which might repeat it, also when it was recorded after the
\* attempt that made it (next-level-agent.js:751-755).  One that is begun
\* and not yet recorded does not keep the task from the next model (nla-browser.mjs:291-305).
RecordedEffectIsFinal ==
    [][\A t \in Tasks :
          effect[t] = "recorded" /\ Holding(t) /\ pc'[t] \in HoldingPcs
            => index'[t] = index[t]]_vars

\* One task never sends its prompt to the same binding in two attempts, the
\* escalation to the coordinator's binding included.
NoBindingTwice ==
    [][\A t \in Tasks :
          pc[t] = "preparing" /\ pc'[t] = "prompting"
            => Current(t) \notin tried[t]]_vars

\* A caller's cancellation is not evidence against a model: the attempt it ends
\* leaves the binding as available as it was.
CancellationIsNeutral ==
    [][\A t \in Tasks :
          aborted[t] /\ Holding(t) /\ pc'[t] \notin HoldingPcs
            => health'[Current(t)].state = "available"]_vars

\* Quarantine ends by the operator's reset of that binding and by nothing else:
\* no late success, release or restart lifts it.
QuarantineSticks ==
    [][\A b \in Bindings :
          health[b].state = "quarantined" /\ health'[b].state # "quarantined"
            => Reset(b)]_vars

\* A cooldown runs down by the clock only; a failure, a release or a restart
\* never shortens the wait a provider asked for.
CooldownNotCut ==
    [][\A b \in Bindings :
          health[b].state = "cooling" /\ ~Reset(b)
            => health'[b].left >= health[b].left - 1]_vars

\* While the writes of the database succeed, its rows are what the table would
\* be after a crash at this point: blocked bindings and nothing else.
SavedMirrorsHealth ==
    \A b \in Bindings :
        saved[b] = IF InFlight(health, b) THEN Available ELSE health[b]

\* What is known of a binding lasts as long as it says, in the table and, should the
\* process restart at this point, in the rows.
EvidenceLasts == QuarantineSticks /\ CooldownNotCut /\ []SavedMirrorsHealth

\* A cancelled call returns, whatever the models do.
CancelledTaskEnds == \A t \in Tasks : aborted[t] ~> pc[t] = "idle"
============================================================================
