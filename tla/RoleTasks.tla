------------------------------ MODULE RoleTasks ------------------------------
(***************************************************************************)
(* Role tasks, the tool nla_task of next-level-agent.js: runRoleTask checks *)
(* the arguments of a call and gives it to the Browser, to the utility     *)
(* runtime (runUtilityModel of nla-utility-runtime.mjs) or to the pooled   *)
(* runner.  Around them it keeps what the calls of a session share: the    *)
(* argument errors of a row, which may be repaired once by a Supervisor;   *)
(* the number of its children, which defers the compaction of the session; *)
(* the logical Browser tasks under way; and the last results of children,  *)
(* which a Reviewer's verdict may score once.                              *)
(*                                                                         *)
(* The pooled runner and the Browser capability have modules of their own  *)
(* (PooledTask, BrowserCapability): here a pooled task makes a child or    *)
(* fails to, and its child answers or does not.  The bindings are those of *)
(* one utility pool, whose health has an endpoint of its own.              *)
(***************************************************************************)
EXTENDS ModelHealth, Sequences, SequencesExt

CONSTANTS
    Sessions,       \* the sessions that call nla_task
    NoSession,      \* none of them
    Calls,          \* the calls that may be under way at once
    Faults,         \* a role and the reason its arguments are refused
    Repairable,     \* the refusals with reason review_target_role_mismatch
    NoFault,        \* no refusal
    RepairAfter,    \* the refusals in a row after which a repair is tried
    BrowserTasks,   \* the logical Browser tasks of a session
    UtilityModels,  \* pool.models of the utility pool
    ResultsKept,    \* how many results of children are kept
    MaxStarted,     \* bound on the calls made
    MaxChildren     \* bound on the children created

ASSUME FaultAssumption == Repairable \subseteq Faults /\ NoFault \notin Faults
ASSUME UtilityAssumption == UtilityModels \in Seq(Bindings) /\ IsInjective(UtilityModels)
ASSUME ResultAssumption == {RepairAfter, ResultsKept, MaxStarted, MaxChildren} \subseteq Nat \ {0}

VARIABLES
    started,           \* how many calls have been made
    task,              \* the call's session, role, and the child it reviews
    at,                \* where the call waits
    asked,             \* the place of the utility model being asked, or 0
    child,             \* the child of the call, or NoChild
    aborted,           \* the caller has cancelled the call
    taskArgumentFailures,
    repairs,           \* the repairs tried in the row of refusals of a session
    parents,           \* children in the order they were created: session and role
    activeChildren,
    activeBrowserTasks,
    finished,          \* the children that have answered, in that order
    completedResults,  \* the keys of that map, oldest first
    scores             \* the verdicts recorded for the model of a child

callVars == <<started, task, at, asked, child, aborted>>
rowVars == <<taskArgumentFailures, repairs>>
childVars == <<parents, activeChildren>>
resultVars == <<finished, completedResults, scores>>
vars == <<healthVars, callVars, rowVars, childVars, activeBrowserTasks, resultVars>>

----------------------------------------------------------------------------
NoChild == 0
Children == 1..Len(parents)
AgentRoles == {"implementer", "reviewer"}
Roles == AgentRoles \cup {"supervisor", "browser", "utility"}
NoRow == [fault |-> NoFault, count |-> 0, recoveryTried |-> FALSE]
NoTask == [session |-> NoSession, role |-> "none", target |-> NoChild]

\* A call waits for the browser to begin or to finish, for its child session, for
\* the child's answer, or for a utility model.
Places == {"idle", "beginning", "finishing", "creating", "running", "asking"}

Goto(c, place) == at' = [at EXCEPT ![c] = place]

\* The call returns a result or throws; its arguments and its signal are gone.
End(c) ==
    /\ Goto(c, "idle")
    /\ task' = [task EXCEPT ![c] = NoTask]
    /\ aborted' = [aborted EXCEPT ![c] = FALSE]

\* The coordinator makes a call.
Made(c) ==
    /\ at[c] = "idle" /\ started < MaxStarted
    /\ started' = started + 1

----------------------------------------------------------------------------
(* Arguments                                                               *)

Row(s, f) == IF taskArgumentFailures[s].fault = f THEN taskArgumentFailures[s]
             ELSE [NoRow EXCEPT !.fault = f]

\* The row after one more refusal; its count is read only against RepairAfter.
Refused(s, f) ==
    [fault |-> f, count |-> Min({Row(s, f).count + 1, RepairAfter}),
     recoveryTried |-> Row(s, f).recoveryTried]

\* The repairs of the row this refusal continues or begins.
RepairsOf(s, f) == IF taskArgumentFailures[s].fault = f THEN repairs[s] ELSE 0

NeedsRepair(row) ==
    row.count >= RepairAfter /\ ~row.recoveryTried /\ row.fault \in Repairable

\* rejectTaskArguments: the call fails ...
Reject(s, c, f) ==
    /\ Made(c)
    /\ ~NeedsRepair(Refused(s, f))
    /\ taskArgumentFailures' = [taskArgumentFailures EXCEPT ![s] = Refused(s, f)]
    /\ repairs' = [repairs EXCEPT ![s] = RepairsOf(s, f)]
    /\ UNCHANGED <<healthVars, task, at, asked, child, aborted, childVars,
                   activeBrowserTasks, resultVars>>

\* ... or a Supervisor is asked once whether the field may be left out.  The model
\* of the coordinator may be refused by the pool's policy, which fails the repair.
Repair(s, c, f) ==
    /\ Made(c)
    /\ NeedsRepair(Refused(s, f))
    /\ taskArgumentFailures' =
          [taskArgumentFailures EXCEPT ![s] = [Refused(s, f) EXCEPT !.recoveryTried = TRUE]]
    /\ \/ /\ task' = [task EXCEPT ![c] = [session |-> s, role |-> "supervisor",
                                          target |-> NoChild]]
          /\ Goto(c, "creating")
          /\ repairs' = [repairs EXCEPT ![s] = RepairsOf(s, f) + 1]
       \/ /\ repairs' = [repairs EXCEPT ![s] = RepairsOf(s, f)]
          /\ UNCHANGED <<task, at>>
    /\ UNCHANGED <<healthVars, asked, child, aborted, childVars, activeBrowserTasks,
                   resultVars>>

\* Arguments that are accepted end the row.
ClearRow(s) ==
    /\ taskArgumentFailures' = [taskArgumentFailures EXCEPT ![s] = NoRow]
    /\ repairs' = [repairs EXCEPT ![s] = 0]

\* Arguments that are accepted, of a call that ends at once: the Browser is not
\* configured or its task is under way, no utility model is available.
EndsAtOnce(s, c) ==
    /\ Made(c)
    /\ ClearRow(s)
    /\ UNCHANGED <<healthVars, task, at, asked, child, aborted, childVars,
                   activeBrowserTasks, resultVars>>

\* Accepted arguments of a call that goes on: a task of an agent role or for the
\* Browser.  The id of a review's target may be that of any session.
Accept(s, c, role, target) ==
    /\ Made(c)
    /\ ClearRow(s)
    /\ task' = [task EXCEPT ![c] = [session |-> s, role |-> role, target |-> target]]
    /\ UNCHANGED <<healthVars, asked, child, aborted, childVars, resultVars>>

StartAgent(s, c) ==
    /\ \/ Accept(s, c, "implementer", NoChild)
       \/ \E target \in Children \cup {NoChild} : Accept(s, c, "reviewer", target)
    /\ Goto(c, "creating")
    /\ UNCHANGED activeBrowserTasks

\* The logical task must not be under way already; then it is until the call ends.
StartBrowser(s, c, k) ==
    /\ \A d \in Calls : <<s, k, d>> \notin activeBrowserTasks
    /\ Accept(s, c, "browser", NoChild)
    /\ Goto(c, "beginning")
    /\ activeBrowserTasks' = activeBrowserTasks \cup {<<s, k, c>>}

Cancel(c) ==
    /\ at[c] # "idle" /\ ~aborted[c]
    /\ aborted' = [aborted EXCEPT ![c] = TRUE]
    /\ UNCHANGED <<healthVars, started, task, at, asked, child, rowVars, childVars,
                   activeBrowserTasks, resultVars>>

----------------------------------------------------------------------------
(* Pooled tasks and their children                                         *)

\* session.create has answered: the child counts for its parent.
ChildCreated(c) ==
    /\ at[c] = "creating" /\ Len(parents) < MaxChildren
    /\ parents' = Append(parents, [session |-> task[c].session, role |-> task[c].role])
    /\ child' = [child EXCEPT ![c] = Len(parents')]
    /\ activeChildren' = [activeChildren EXCEPT ![task[c].session] = @ + 1]
    /\ Goto(c, "running")
    /\ UNCHANGED <<healthVars, started, task, asked, aborted, rowVars,
                   activeBrowserTasks, resultVars>>

\* Mutant: a task without a child is subtracted as well.
UncountedAlways(c) ==
    activeChildren' = [activeChildren EXCEPT ![task[c].session] = Max({0, @ - 1})]

\* The finally clause of pooledTaskWithTracking.
Uncounted(c) ==
    IF child[c] = NoChild THEN UNCHANGED activeChildren
    ELSE activeChildren' = [activeChildren EXCEPT ![task[c].session] = Max({0, @ - 1})]

\* What the caller of a pooled task that has failed does: a Browser task is reported
\* as such, a repair or a task throws.
AfterFailure(c) ==
    IF task[c].role = "browser"
    THEN Goto(c, "finishing") /\ UNCHANGED <<task, aborted>>
    ELSE End(c)

\* Preparation, a model without answer after the last fallback, or cancellation.
PooledFails(c) ==
    /\ at[c] \in {"creating", "running"}
    /\ Uncounted(c)
    /\ AfterFailure(c)
    /\ child' = [child EXCEPT ![c] = NoChild]
    /\ UNCHANGED <<healthVars, started, asked, rowVars, parents, activeBrowserTasks, resultVars>>

\* A verdict counts for an Implementer of the same session whose result is kept.
Reviewable(t) ==
    /\ t.role = "reviewer"
    /\ t.target \in Range(completedResults)
    /\ parents[t.target] = [session |-> t.session, role |-> "implementer"]

\* Mutant: a result makes room for itself by what came last.
RememberedDroppingLast(results, k) ==
    Append(IF Len(results) < ResultsKept THEN results ELSE Front(results), k)

\* rememberCompletedResult: the oldest results are given up.
Remembered(results, k) ==
    LET all == Append(results, k)
    IN  IF Len(all) <= ResultsKept THEN all ELSE Tail(all)

\* The Supervisor's decision to omit the field: the corrected task is accepted.
Corrected(c) ==
    /\ ClearRow(task[c].session)
    /\ task' = [task EXCEPT ![c].role = "implementer"]
    /\ Goto(c, "creating")
    /\ UNCHANGED <<aborted>>

\* What the caller of a pooled task does with its answer.
AfterAnswer(c) ==
    CASE task[c].role = "browser" ->
            Goto(c, "finishing") /\ UNCHANGED <<task, aborted, rowVars>>
      [] task[c].role = "supervisor" ->
            Corrected(c) \/ (End(c) /\ UNCHANGED rowVars)
      [] OTHER -> End(c) /\ UNCHANGED rowVars

\* Mutant: a target that has been scored stays.
ScoredKeeping(results, t) == results
\* The target of a verdict that is recorded has been consumed.
Scored(results, t) ==
    RemoveAt(results, CHOOSE i \in DOMAIN results : results[i] = t.target)

\* A child answers: a Reviewer's verdict is recorded, unless it is malformed or names
\* no such target, and the child's own result is remembered.
Answers(c) ==
    /\ at[c] = "running" /\ ~aborted[c]
    /\ \/ /\ Reviewable(task[c])
          /\ scores' = [scores EXCEPT ![task[c].target] = @ + 1]
          /\ completedResults' = Remembered(Scored(completedResults, task[c]), child[c])
       \/ /\ completedResults' = Remembered(completedResults, child[c])
          /\ UNCHANGED scores
    /\ finished' = Append(finished, child[c])
    /\ Uncounted(c)
    /\ AfterAnswer(c)
    /\ child' = [child EXCEPT ![c] = NoChild]
    /\ UNCHANGED <<healthVars, started, asked, parents, activeBrowserTasks>>

----------------------------------------------------------------------------
(* The Browser around its pooled task                                      *)

\* begin has a session for the task, ...
BrowserBegins(c) ==
    /\ at[c] = "beginning"
    /\ Goto(c, "creating")
    /\ UNCHANGED <<healthVars, started, task, asked, child, aborted, rowVars, childVars,
                   activeBrowserTasks, resultVars>>

\* ... or none; finish and the record of its result may succeed or fail.  Whatever
\* happens the call is answered, if only by BLOCKED, and the task is not under way.
BrowserEnds(c) ==
    /\ at[c] \in {"beginning", "finishing"}
    /\ End(c)
    /\ activeBrowserTasks' = {key \in activeBrowserTasks : key[3] # c}
    /\ UNCHANGED <<healthVars, started, asked, child, rowVars, childVars, resultVars>>

----------------------------------------------------------------------------
(* The utility runtime                                                     *)

\* The loop of runUtilityModel from the i-th model on, given the table: the first
\* model that can be claimed is asked, after the last one the call fails.
TryFrom(c, i, h) ==
    LET open == {j \in i..Len(UtilityModels) : Eligible(h, UtilityModels[j])}
    IN  IF open = {}
        THEN /\ health' = h
             /\ asked' = [asked EXCEPT ![c] = 0]
             /\ End(c)
        ELSE /\ health' = Claimed(h, UtilityModels[Min(open)])
             /\ asked' = [asked EXCEPT ![c] = Min(open)]
             /\ Goto(c, "asking")
             /\ UNCHANGED <<task, aborted>>

\* A call of a role with a utility pool, one of whose models is available.
StartUtility(s, c) ==
    LET open == {j \in DOMAIN UtilityModels : Eligible(health, UtilityModels[j])}
    IN  /\ Made(c) /\ open # {}
        /\ ClearRow(s)
        /\ task' = [task EXCEPT ![c] = [session |-> s, role |-> "utility",
                                        target |-> NoChild]]
        /\ health' = Claimed(health, UtilityModels[Min(open)])
        /\ asked' = [asked EXCEPT ![c] = Min(open)]
        /\ Goto(c, "asking")
        /\ UNCHANGED <<saved, child, aborted, childVars, activeBrowserTasks,
                       resultVars>>

Asked(c) == UtilityModels[asked[c]]

utilityUnchanged == <<saved, started, child, rowVars, childVars, activeBrowserTasks,
                      resultVars>>

UtilityAnswers(c) ==
    /\ at[c] = "asking" /\ ~aborted[c]
    /\ health' = Succeeded(health, Asked(c))
    /\ asked' = [asked EXCEPT ![c] = 0]
    /\ End(c)
    /\ UNCHANGED utilityUnchanged

\* Failed leaves nothing in flight, so the finally clause's release finds nothing.
AfterUtilityFailure(c, category, retryAfter) ==
    LET h == Failed(health, Asked(c), category, retryAfter)
    IN  IF category \in HealthCategories THEN TryFrom(c, asked[c] + 1, h)
        ELSE /\ health' = h
             /\ asked' = [asked EXCEPT ![c] = 0]
             /\ End(c)

\* The provider refuses the request, answers what cannot be used, or does not
\* answer for request_timeout_ms.
UtilityFails(c) ==
    /\ at[c] = "asking" /\ ~aborted[c]
    /\ \E category \in HealthCategories \cup {"unknown"},
          retryAfter \in RetryAfters : AfterUtilityFailure(c, category, retryAfter)
    /\ UNCHANGED utilityUnchanged

\* Mutant: what ends a cancelled request is taken for a time-out.
UtilityInterruptedAsFailure(c) ==
    /\ at[c] = "asking" /\ aborted[c]
    /\ AfterUtilityFailure(c, "transient", 0)
    /\ UNCHANGED utilityUnchanged

\* Whatever ends the request of a cancelled call, it says nothing of the model.
UtilityInterrupted(c) ==
    /\ at[c] = "asking" /\ aborted[c]
    /\ AfterUtilityFailure(c, "non_provider", 0)
    /\ UNCHANGED utilityUnchanged

----------------------------------------------------------------------------
(* Whether performCompaction goes on or is deferred, and the steps of the  *)
(* health table                                                            *)

MayCompact(s) ==
    activeChildren[s] = 0 /\ \A key \in activeBrowserTasks : key[1] # s

TableStep ==
    /\ Tick \/ \E b \in Bindings : Reset(b)
    /\ UNCHANGED <<callVars, rowVars, childVars, activeBrowserTasks, resultVars>>

----------------------------------------------------------------------------
Init ==
    /\ HealthInit
    /\ started = 0
    /\ task = [c \in Calls |-> NoTask]
    /\ at = [c \in Calls |-> "idle"]
    /\ asked = [c \in Calls |-> 0]
    /\ child = [c \in Calls |-> NoChild]
    /\ aborted = [c \in Calls |-> FALSE]
    /\ taskArgumentFailures = [s \in Sessions |-> NoRow]
    /\ repairs = [s \in Sessions |-> 0]
    /\ parents = <<>>
    /\ activeChildren = [s \in Sessions |-> 0]
    /\ activeBrowserTasks = {}
    /\ finished = <<>>
    /\ completedResults = <<>>
    /\ scores = [k \in 1..MaxChildren |-> 0]

CallStep(c) ==
    \/ Cancel(c) \/ ChildCreated(c) \/ PooledFails(c) \/ Answers(c)
    \/ BrowserBegins(c) \/ BrowserEnds(c)
    \/ UtilityAnswers(c) \/ UtilityFails(c) \/ UtilityInterrupted(c)
    \/ \E s \in Sessions :
          \/ StartAgent(s, c) \/ StartUtility(s, c) \/ EndsAtOnce(s, c)
          \/ \E k \in BrowserTasks : StartBrowser(s, c, k)
          \/ \E f \in Faults : Reject(s, c, f) \/ Repair(s, c, f)

Next ==
    \/ \E c \in Calls : CallStep(c)
    \/ TableStep

Spec == Init /\ [][Next]_vars

----------------------------------------------------------------------------
TypeOK ==
    /\ HealthTypeOK
    /\ started \in 0..MaxStarted
    /\ task \in [Calls -> [session : Sessions \cup {NoSession}, role : Roles \cup {"none"},
                           target : Children \cup {NoChild}]]
    /\ at \in [Calls -> Places]
    /\ asked \in [Calls -> 0..Len(UtilityModels)]
    /\ child \in [Calls -> Children \cup {NoChild}]
    /\ aborted \in [Calls -> BOOLEAN]
    /\ taskArgumentFailures \in
          [Sessions -> [fault : Faults \cup {NoFault}, count : 0..RepairAfter,
                        recoveryTried : BOOLEAN]]
    /\ repairs \in [Sessions -> Nat]
    /\ parents \in Seq([session : Sessions, role : Roles])
    /\ activeChildren \in [Sessions -> Nat]
    /\ activeBrowserTasks \subseteq Sessions \X BrowserTasks \X Calls
    /\ {Range(completedResults), Range(finished)} \subseteq SUBSET Children
    /\ scores \in [1..MaxChildren -> Nat]

\* A utility binding is claimed exactly while one call asks it: no verdict, time-out
\* or cancellation leaves a claim behind, and no claim is ended by another call.
ClaimsHeld ==
    \A b \in Bindings :
        LET askers == {c \in Calls : at[c] = "asking" /\ Asked(c) = b}
        IN  Cardinality(askers) = (IF InFlight(health, b) THEN 1 ELSE 0)

\* The last results are there to be reviewed: one that is gone was scored, or as many
\* others were finished after it as are kept.
RecentResultsKept ==
    \A i \in DOMAIN finished :
        i > Len(finished) - ResultsKept =>
            \/ finished[i] \in Range(completedResults)
            \/ scores[finished[i]] > 0

\* "A successfully attributed target is consumed, so it cannot be scored repeatedly
\* or supplied by an arbitrary session" (docs/NLA_MODEL_ROUTING_ARCHITECTURE.md),
\* whatever Reviewers answer at once.
ScoredOnce ==
    [][\A k \in Children :
          scores'[k] # scores[k] =>
              /\ scores[k] = 0 /\ k \in Range(finished)
              /\ parents[k].role = "implementer"
              /\ \E c \in Calls : at[c] = "running" /\ at'[c] = "idle"
                     /\ parents[child[c]] = [session |-> parents[k].session,
                                             role |-> "reviewer"]]_vars

\* performCompaction never goes on for a session that has a child running or a
\* Browser task under way, however the calls around it begin, fail or end.
CompactsAlone ==
    \A s \in Sessions : MayCompact(s) =>
        \A c \in Calls : task[c].session = s =>
            at[c] \notin {"beginning", "running", "finishing"}

\* The repair "runs once per consecutive error sequence"
\* (docs/PROJECT_STATUS_AND_USAGE.md), with calls of the session in parallel.
RepairedOnce == \A s \in Sessions : repairs[s] <= 1

Inv == TypeOK /\ ClaimsHeld /\ RecentResultsKept /\ RepairedOnce

\* A cancelled call has no result (README: cancellation "cannot be returned as
\* success") and "does not poison health" (docs/PROJECT_STATUS_AND_USAGE.md): its
\* child's answer is not kept for review, its binding is free for the next call.
CancelledIsNeutral ==
    [][\A c \in Calls :
          aborted[c] =>
              /\ child[c] \in Range(finished') => child[c] \in Range(finished)
              /\ at[c] = "asking" /\ at'[c] = "idle" =>
                    health'[Asked(c)] = Available]_vars
=============================================================================
