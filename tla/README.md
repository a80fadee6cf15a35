# Formal verification of next-level-agent

next-level-agent (NLA) is a set of OpenCode plugins.  It runs a primary agent
session and gives parts of the work to role sessions, each on a model out of
the pool of its role.  Nearly all of its difficulty is in one JavaScript event
loop that talks to servers and models which answer late, wrongly, twice or not
at all, and in a few durable records that must survive the process.

This directory holds TLA+ modules of that logic, TLC configurations that check
them on small instances, and TLAPS proofs for every instance.  Paths below are
relative to the repository root (`src/` in `PROJECT.json`), `P` is
`.opencode/plugins/next-level-agent.js`.

`PROJECT.json` is the index: components, runs, the source lines every
definition stands for (`map`), mutations of the definitions that each property
must notice (`mutants`), disagreements between code and documentation
(`findings`), the hazards of the code and the theorems.

- [1. Inventory](#1-inventory)
- [2. Modules](#2-modules)
- [3. Runs](#3-runs)
- [4. Fairness](#4-fairness-and-what-is-assumed-of-the-environment)
- [5. Proofs](#5-proofs)
- [6. Where code and documentation disagree](#6-where-code-and-documentation-disagree)
- [7. What is not modelled](#7-what-is-not-modelled-and-why)
- [8. Plan](#8-plan)

## 1. Inventory

The core of the program, in the order of its importance.

**Model health table** (`nla-model-health.mjs`, `nla-system-database.mjs:776-833`).
State: one entry per binding `provider/model` and endpoint: cooling until a
time, quarantined, or claimed by a call ("probe-in-flight"); the SQLite table
`model_health` with the blocked entries.  Operations: `claim`, `release`,
`success`, `failure`, `state`, `candidates`, the operator's reset, hydration at
start.  Everyone who calls a model shares it: task runner, native failover,
utility runtime.  Hard: concurrent tasks, late answers, restarts, rows that may
not be written.  Correct when a binding in flight is given to nobody else, no
claim outlives its call, blocks are lifted only by time or by the operator.

**Pooled task runner** (`runPooledTask`, P:458-801; `nla-child-recovery.mjs`).
State: the list of attempts and the place in it, the child session, the
coordinator reserve, the caller's abort signal.  One call tries models in one
child session until one gives a usable answer; an answer cut short is repaired
in the same attempt by compacting and continuing the child; a child that may
still run is stopped before another model gets it; a child that got no prompt
is rolled back.  Interacts with the health table, the OpenCode server (create,
prompt, summarize, abort, delete), and for Browser tasks with the Browser
capability.  Hard: cancellation at every await, requests that time out but go
on, side effects, classes of errors.  Correct when claims are exclusive and
accounted for, a child has one agent loop, no binding is tried twice, side
effects are not repeated, cancellation ends the call and blames nobody.

**Native failover** (`failover`, `finishTrackedSession`, P:259-400, the `event`
hook from P:1712).  State: per child session that OpenCode started itself its
model, whether that is known, the attempted models, the claim, the phase of a
switch and the events kept during it.  Driven by session events.  Hard: events
arrive late, during the abort, during the dispatch.  Correct when the switch
ends, no claim leaks, one loop runs, no binding is repeated.

**Browser recovery store** (`nla-browser-recovery.mjs`, `runRoleTask`).  State: a
witness, a directory, an authentication key and an index of logical tasks with
the criteria done, the pending ones and a claim token.  Operations: begin,
claim, finalise, list, validate, release.  Several processes share it under a
lock directory.  Hard: a crash between any two file operations, a failing
write, an abandoned lock, stale reads.  Correct when completed or uncertain work
is never replayed and nothing is lost or silently started anew.

**Compaction and restore** (`nla_state`, `nla_compact`, `performCompaction`,
`restoreCompactedSession`, `blockRestore` P:1005-1021, P:1434-1620, the hooks
P:1845-1950; `nla-compaction.mjs`, `nla-compaction-queue.mjs`).  State: the
durable ledger of a session, a per-session record of flags, the checkpoint and
the promise of the restore, and the durable restore block.  Interacts with
supervisor and compactor models, with OpenCode's own compaction and with the
tool hooks.  Hard: four asynchronous parties that lead to one restore; a
request of uncertain fate; a failure at every await.  Correct when the last
ledger is what is kept and restored, before any further tool runs, or the
session is blocked for good.

**Role task dispatch** (`nla_task`, `runRoleTask`, P:800-968, P:250-258).  State:
per session the last row of refused arguments, the number of its children and
its Browser tasks under way; the last 128 results of children
(`completedResults`); the queue of assignments that OpenCode's own children are
matched with (`pendingTasks`).  A call is refused, repaired once by a
Supervisor, or given to the Browser, the utility runtime or the pooled runner.
Hard: several calls of one message run in parallel, each awaits several times,
and what they share is read before and written after.  Correct when every exit
takes back what its entry has put down, a row is repaired once, and a result is
scored once, by a Reviewer of the session it belongs to.

**Utility runtime** (`nla-utility-runtime.mjs`).  Direct HTTP calls to models that
need no session, tried in the order of their pool; claims in the same health
table, on endpoint keys of its own; its verdicts are not written to the
database.  Hard: answer, time-out and cancellation race for one request.
Correct when the claim ends with the request and cancellation blames nobody.

**Browser capability** (`nla-browser.mjs`, `nla-browser-playwright.mjs`,
`nla-browser-mcp.mjs`).  State: the table of sessions, the children bound to
them, reserved places, calls that are beginning, the disposal.  Operations:
begin, bind, execute, finish, reap, dispose.  Interacts with the network broker,
the Playwright backend, the caller's abort signal and the recovery store.  Hard:
cancellation during the start, the reaper against a resumed session, disposal
against creation, sessions poisoned by an operation of unknown outcome, cleanup
that fails.  Correct when the limit holds and can be used, nothing is left
running, a session has one driver and is resumed only if it is sound, and
everybody's wait ends.

**Orchestras and the control plane** (`nla_orchestra`, `nla_models_reload`,
`nla_model_policy`, `nla_system`, `nla_models_registry`, P:1104-1395;
`nla-model-pools.mjs`).  State: named configurations, the active name and the
settings in the database; the pool file; the snapshot of the active one in
memory, which every new task reads.  Hard: several tools await the inventory of
models between what they read and what they write.  Correct when what is in memory
is what the database says, `go` holds what was checked, and a change of one role
leaves the others alone; section 6 says where that fails.

**Model registry** (`nla-system-database.mjs`).  State: facts, status and scores of
every binding.  Writers: the pools at start, the inventory, the operator's
imports and switches, the runtime's measurements.  Correct when no automatic
writer takes back what an operator or a measurement has put there.

**Brainstorm server** (`skills/brainstorming/scripts`).  A local web server for the
screens of a brainstorming, that ends when idle or when its owner is gone; the
next one takes its port and key from two files, so that open tabs come back by
themselves.  State: the files, sockets, timers of screens, tabs.  Hard: servers
that start at once or overlap, ports taken by others, tabs that connect while the server shuts
down, bursts of writes.  Correct when open tabs come back, see what is written,
and no server that has shut down stays.

**Network broker** (`network-broker/main.go`).  A privileged daemon that gives a
browser run a network namespace, a filtering proxy, a cgroup and a process.
State: sessions and their resources.  Hard: creation and destruction in many
steps each of which may fail; concurrent requests; leftovers of an earlier
process.  Correct when no session is reported clean with a resource left.

**System database** (`nla-system-database.mjs`).  SQLite transactions: health
rows, ledgers and restore blocks, orchestras, settings, registry and evaluations
(all modelled with their users), usage per message, migrations, user databases.

**Around the core.**  Model selection and evaluations (scores); prompt optimizer,
task assessor and capability cache; memory, notebook and git reconciliation
(ledger text); the Mem0 client; telemetry, shell policy, request time-outs and
inventory (pure functions); the superpowers plugin and session hooks; scripts
and installers; skills and documentation (prose).

How the parts meet: the primary session calls `nla_task`; `runRoleTask` asks the
recovery store and the Browser capability when the task is Browser work, then
`runPooledTask`; that claims bindings in the health table and drives a child
session on the OpenCode server.  Utility tasks go to the utility runtime instead.
OpenCode's own children come in through the event hook and meet the others in
the health table.  Compaction concerns the primary session alone; it is put off
while the session has children.  The pools every task chooses from are those of
the active orchestra, with the facts and scores of the registry.

## 2. Modules

Each module says in its header what it abstracts.  An action is the code
between two awaits of its handler, everything it calls included.

| Module | Models | State in the code | Actions |
| --- | --- | --- | --- |
| `ModelHealth` | the health table and its rows | `health`: `entries`; `saved`: table `model_health` | `Tick` (time), `Reset` (operator), `Hydrate` (restart); `Claimed`, `Released`, `Succeeded`, `Failed`, `Persisted` are the table operations |
| `PooledTask` | `runPooledTask`, any number of calls at once | `pc`: the await it is at; `attempts`, `index`, `reserve`, `tried`: the loop's locals; `aborted`: the signal; `effect`: a side effect of a Browser child, begun or recorded as an event; `running`: the child's loop on the server | `Start`, `Create`, `Dispatch`, `Answer`, `Reject`, `AnswerIncomplete`, `BeginEffect`, `RecordEffect`, `Compacted`, `RecoveryFails`, `Cancel`, `StopConfirmed`, `StopUnconfirmed`, `RollBack`, ...; `Catch` is the catch and finally clauses, `NextAttempt` the head of the loop |
| `MCPooledTask` | instances for TLC | pools of two and three | |
| `PooledTask_proofs` | proofs (section 5) | | |
| `NativeFailover` | `failover` and the session events | the fields of the tracked state by their names; `events`, `loop`, `sentTo`: the server | `Attach`, `LoopErrs`, `LoopEnds`, `Deliver`, `AbortConfirmed`, `AbortUnconfirmed`, `Accept`, `DispatchSettles` |
| `MCNativeFailover` | instances for TLC | a pool, the modes | |
| `NativeFailover_proofs` | proofs (section 5) | | |
| `LogicalTasks` | what the recovery store promises, without files, locks or processes | | `Create`, `Begin`, `Report`, `Lose` |
| `BrowserRecovery` | the store, and the calls of `runRoleTask` on it | `witness`, `directory`, `key`, `index`, `lock`: the files; `at`, `stage`, `task`, `work`, `staged`: where each caller is | `Enter`, `WriteWitness`, `MakeDirectory`, `WriteKey`, `WriteIndex`, `WriteFails`, `Leave`, `LockTimeout`, `Allocate`, `Run`, `Crash` |
| `MCBrowserRecovery` | instances for TLC | | |
| `BrowserRecovery_proofs` | proofs (section 5) | | |
| `Compaction` | one primary session, its compactions and restores | the fields of `compactionState` by their names; `ledger`, `block`: the rows; `stage`, `base`: where `performCompaction` waits and what it has read; `phase`, `request`, `event`, `context`: OpenCode | `Record`, `CallEnds`, `Idle`, `Audited`, `Submit`, `Acknowledged`, `EnqueueFails`, `StartNative`, `NativeEnds`, `Deliver`, `AutoContinue`, `RestoreSucceeds`, `PacketRejected`, `Restart`, ... |
| `Compaction_proofs` | proofs (section 5) | | |
| `RoleTasks` | `nla_task`: refusals and repair, dispatch, the count of children, Browser tasks under way, results kept for review; `runUtilityModel` | `at`, `task`, `child`, `aborted`: each call and where it waits; `taskArgumentFailures`, `activeChildren`, `activeBrowserTasks`, `completedResults` by their names; `finished`, `scores`, `repairs`: history | `Reject`, `Repair`, `EndsAtOnce`, `StartAgent`, `StartBrowser`, `StartUtility`, `ChildCreated`, `PooledFails`, `Answers`, `BrowserBegins`, `BrowserEnds`, `UtilityAnswers`, `UtilityFails`, `UtilityInterrupted`, `Cancel` |
| `MCRoleTasks` | instances for TLC | a utility pool, the symmetry `Swap` | |
| `RoleTasks_proofs` | proofs (section 5) | | |
| `BrowserCapability` | the sessions of one process and the part of `runRoleTask` that drives them | `pc`, `job`, `use`, `outcome`: each call; `session`: the table; `conn`, `net`: backend and network session; `pendingSessions`, `begins`, `disposal` | `Begin`, `Enter`, `ReapNext`, `Resume`, `Create`, `Created`, `Launched`, `Connect`, `Started`, `Failed`, `Bind`, `ChildOperation`, `ChildAnswer`, `ChildClose`, `Abort`, `ChildDone`, `FinalAnswer`, `Report`, `CloseBackend`, `DestroyNetwork`, `Expire`, `Dispose`, ... |
| `MCBrowserCapability` | instances for TLC | | |
| `BrowserCapability_proofs` | proofs (section 5) | | |
| `ModelRegistry` | the tables of facts, switches and scores, and their writers | `registry`, `evaluations`, `providersOff`, `migrated`: the tables | `SetModelStatus`, `ImportFacts`, `ImportScores`, `RecordEvaluation`, ...; `SeedFacts`, `FillFacts`, `Register` are from a table to a table |
| `Orchestras` | the tools of the control plane | `orchestras`, `activeName`, `settings`: the tables; `poolFile`; `snapshot`, `policy`, `inventory`: memory; `call`: what each call read before its await | `Create`, `Update`, `PoolSet`, `Activate`, `Reload`, `InventoryAnswers`, `InventoryFails`, `CommitUpdate`, `CommitActivate`, `CommitReload`, `SetPreferences`, `RegistryTool`, `TaskMeasured`, `EditPoolFile`, `Stop`, `Start` |
| `MCOrchestras` | instances for TLC | configurations, inventories, the symmetry `Swap` | |
| `Orchestras_proofs` | proofs (section 5) | | |
| `BrainstormServer` | servers of one project and the tabs of `helper.js` | `portFile`, `tokenFile`; `lapse`: history; `server`: each process; `tab`: each tab | `Start` and `ReadKey` (the reads of the files), `Listen`, `AddressInUse`, `WritePort` and `WriteToken` (the writes), `IdlePasses`, `OwnerExits`, `Shutdown`, `Exit`, `Killed`, `WriteScreen`, `Debounce`, `OpenTab`, `Dial`, `Upgrade`, `Disconnect`, `Tombstone`, `Reload`, `Click`, ... |
| `BrainstormServer_proofs` | proofs (section 5) | | |

`PooledTask`, `NativeFailover` and `RoleTasks` extend `ModelHealth`: its table is
a variable of theirs and its operations are parts of their steps, as in the code, where
the manager is an object both call synchronously.  A failure of the native path
also reaches bindings it has no claim on (finding 1), so the exclusiveness that
is proved of `PooledTask` is a statement about task calls among themselves.
`Orchestras` extends `ModelRegistry`: the tools of the one write the tables of
the other in the same transaction or next to it.  `BrowserRecovery` implements
`LogicalTasks`.

Main abstractions, each named where it is made:

- Time is relative: a cooldown is what is left of it, so a cooldown of nothing
  *is* an available entry.  `Tick` may happen at any time.
- Errors are their class, the delay they ask for and whether their text says
  "timed out".  The classes come from `classifyProviderError`.
- A ranking is any: the modes `select` and `auto` may keep any duplicate-free
  choice of eligible models in any order, which covers every set of scores.
- What happens after a usable answer (evaluation of the reviewer, stored
  results) leaves claims and control of `PooledTask` alone; it is in `RoleTasks`,
  where in turn a pooled task is a child that is created, answers or fails.
- In `RoleTasks` a role and the reason its arguments are refused are one value;
  whether the session may be compacted is a predicate, `MayCompact`.
- In `BrowserCapability` a session is named after the call that created it, a
  call is one attempt of one child with one mandatory criterion, the results
  other than PASS are one, a refused owner or grant is a denial that may always
  happen, and the reaper takes expired sessions in any order.
- In `ModelRegistry` the price stands for all facts, each binding has a provider
  of its own, and input that is refused before anything changes is left out.  In
  `Orchestras` one worker role stands for all, and one process has the database
  to itself.
- In `PooledTask` what a Browser child does to a page is one side effect: begun by
  the call of the backend, recorded by the event that follows its answer; between
  the two anything else may happen.
- In `BrainstormServer` random ports and keys are new; a start has its project
  directory (`--project-dir`) and no key of its own in the environment.  Nothing
  serializes starts: each reads the port, reads the key, binds, writes the port and
  writes the key in steps of its own.  A file that is being written may be read as
  empty, and a write may fail before or after it has emptied the file, or its
  process be killed in it.  Screens are not deleted, and their writes pause long
  enough for the timer.
- In `BrowserCapability` a resumed session whose caller has cancelled already is
  marked in use while it is closed; the code closes it before it marks it
  (`nla-browser.mjs:209-210`).  That a call may resume a session which is being
  closed is in the module for the sessions the reaper closes.
- In `BrowserRecovery` the removal of the lock at the end of a transaction does not
  fail; a process that is killed there leaves it.
- A ledger is its version; a contract is its set of criteria; a token is the
  caller it was given to.
- A definition commented "Mutant" is a plausible bug in the definition below
  it; nothing uses it.  `PROJECT.json` says which property must catch it.

## 3. Runs

Every property has a mutant that violates it under the configuration of its
run, so none holds by the shape of the model alone.

| Run | Instance | Shows |
| --- | --- | --- |
| `pooled_fallback` | two tasks, one of them Browser work; a pool of two and a coordinator outside it; Retry-After 0 or 2 | claims are exclusive (`Inv`) and accounted for (`ClaimsAccounted`); one loop per child; a task stays with its model once a side effect is recorded, early or late (`RecordedEffectIsFinal`); cancellation blames nobody; a quarantine sticks, a cooldown is not cut and the saved rows say the same (`EvidenceLasts`), also across restarts |
| `pooled_ranked` | one task, any ranking of three, the coordinator in the pool, health writes may fail, fair | no binding twice, and a cancelled call returns though no model answers |
| `native_failover` | two sessions, a pool of two; ranked with reported models, or in the order of the pool with unreported ones; fair | no claim leaks and kept events are reconciled (`Inv`), a claim lasts while its loop runs, one loop, no binding repeated, every switch ends |
| `native_exclusive` | three sessions | *violated*: finding 1 |
| `browser_store` | two callers, two tasks, two criteria, fair | one executor, no replay and torn creation noticed (`Inv`), lost work stays unknown and the store only grows (`StoreKeeps`), an abandoned lock freezes everything and delays nobody (`AbandonedLockSafe`), `LogicalTasks` is implemented |
| `compaction_boundary` | one session, three snapshots, batches of up to two calls, the user waits, fair | the last ledger is kept, restored once and before any tool runs (`Inv`), it is the one that is loaded, one request, a block is final, compaction settles |
| `compaction_stale` | the same, the user goes on | *violated*: finding 2 |
| `role_tasks` | four calls of two sessions, two at a time; three children; two results kept; a utility pool of two; one Browser task; two kinds of refusal, one repairable | no claim left over, the last results reviewable, one repair in a row (`Inv`); no compaction beside children; a result scored once and by its own session; cancellation blames nobody |
| `browser_capability` | two calls, room for one session, with and without a broker, fair | one driver (`Inv`); the limit holds and no place is lost (`LimitKept`); nothing left running, at the end of a session or of the plugin (`CleanedUp`); only sound sessions are resumed; no PASS after a cancellation; calls, kept sessions and the disposal end (`EverythingEnds`) |
| `control_plane` | two calls, two bindings, `go` and another orchestra, four changes | name and policy in memory are those of the database (`Inv`), the configuration strays by an overtaken activation only (`StraysOnlyIfOvertaken`), `go` holds what was checked, what was learned is kept |
| `control_plane_pool_set` | the same | *violated*: finding 3 |
| `brainstorm_server` | two servers, one tab, one of them shows a screen, writes of the files may fail, fair | the files name the open tab unless a write failed or two starts found a file empty (`Inv`), tabs come back, servers that shut down end, written screens are shown |

**Bounds, and why they are enough.**

- *Tasks and pools.*  Two tasks meet in every way two holders of a claim can;
  a binding has one claim, so a third task adds no kind of conflict, and the
  claim theorems hold for every number.  A pool of two and a reserve has every
  transition of the loop (next, skip, escalate, exhaust); three models in any
  order add the reserve inside the pool, before and after the current place.
- *Time.*  `Cooldown` 1 and Retry-After 0 or 2 lie on both sides of the
  configured cooldown; more ticks only repeat `Tick`.
- *Native events.*  `MaxUndelivered` 1: a running loop reports an error only
  when nothing is waiting; with the idle event of its end up to two events
  wait, which is what puts error and idle into one dispatch.
- *Native modes.*  `mode` is chosen once for a behaviour.  Ranked pools whose
  models are reported and ordered pools whose models are not are the ends of the
  range; ranked and unreported is where a binding may be repeated (section 6,
  observation 8).
- *Symmetry.*  `Swap` permutes sessions and calls in `role_tasks`, and calls in
  `control_plane`; no definition distinguishes them, and the runs check no
  liveness.
- *Brainstorm servers.*  Two starts have every interleaving of reads, draws and
  writes, and a start that comes after both is one that comes after either; the
  invariant is proved for any number.  Screens concern one server and its tabs, so
  one of the two shows them (`Showing`), and one screen is new first and then
  written over, while its timer runs or after.
- *Recovery store.*  The lock admits one caller at a time, so conflicts are
  pairwise; two tasks show that one's transaction leaves the other's alone; two
  criteria are needed for a partial completion.  Calls and crashes repeat
  without bound.
- *Compaction.*  `MaxVersions` 3 gives the ledger of an earlier compaction, the
  one being compacted and a newer one; `MaxCalls` 2 tells the last call of a
  batch from the others.  Compactions and restarts repeat without bound.

Deadlock is checked except where everything may rightly be over: in the runs of
the control plane and of role tasks the bound on changes or calls is used up,
in `browser_capability` the plugin has been disposed of, in the runs of
`BrainstormServer` every server has ended and the tabs are closed.

## 4. Fairness, and what is assumed of the environment

Fairness is weak, and only for steps the code or the server must take:

- `PooledTask`: `OwnStep`, per task: what needs the event loop, a call to the
  local server that answers, or a timer (stopping a child has five seconds).
  No model is assumed to answer; `CancelledTaskEnds` holds because the code
  races every wait for a model against cancellation.
- `NativeFailover`: an event is delivered, an abort is confirmed or times out, a
  dispatch settles.  No agent loop is assumed to end.
- `BrowserRecovery`: a transaction is a synchronous function that goes on to its
  end.  Nothing is assumed of the browser or of its caller.
- `Compaction`: `Progress`, a disjunction: something a begun compaction is waiting
  for happens.  The waits for supervisor and compactor end because the
  provider transport of OpenCode times out; the abort signal
  `performCompaction` hands down is never fired by its own code, so without
  that time-out a compaction could wait for ever.

- `BrowserCapability`: requests to the broker and to the backend and calls of
  models have time-outs, the reaper is a timer.  Nobody has to call, to cancel or
  to dispose.
- `BrainstormServer`: a started process goes on until it is up, timers fire, the
  retry of a tab's connection and its reload run.  That the timer of a screen fires
  means that a burst of its writes ends: each write sets the timer anew
  (`server.cjs:593`), and a screen that is written for ever is never announced.  No
  server has to become idle and no
  user has to do anything.
- `RoleTasks`, `Orchestras`: none; they have safety properties only.

Assumed of OpenCode and the machine, and named in the module headers:

- a prompt rejected for another reason than a time-out has no loop left on the
  server (the code acts on the same belief); after a time-out it may have;
- a prompt is answered after the tools of its loop have ended: an answer leaves no
  click under way, a rejection or a time-out may;
- events of a session arrive in the order they were published, those of a loop
  before the reply that confirms its abort;
- calls of a tool batch all start before one ends; native compaction runs
  between two steps of the session's loop; `session.compacted` is delivered
  before the loop takes another step; the user does not abort a turn in the
  middle of a compaction;
- `UserWaits`: in `compaction_boundary` nobody writes to the session while it is
  compacted; `compaction_stale` drops this;
- a rename replaces a file as a whole; the sync after it may still fail; a lock
  directory outlives the process that made it;
- a restart of the process ends its children's agent loops;
- a browser whose network session was destroyed has ended; without a broker it
  ends with its MCP process;
- the operating system closes the sockets of a process that ends and gives a port
  to one listener.

## 5. Proofs

Every safety property that a run checks is proved in the `_proofs` module beside
its component: for every set of tasks, calls, sessions, bindings, criteria and
tabs, every pool, limit and delay.  Nothing is assumed finite.  The constants that bound a
run (`MaxVersions`, `MaxCalls`, `MaxStarted`, `MaxUndelivered`, ...) stand for any
number.

| Module | Theorem | Statement |
| --- | --- | --- |
| `PooledTask_proofs` | `ClaimsAreExclusive`, `ClaimsAreAccounted` | `[]Inv`, `[]ClaimsAccounted` |
| | `CallsAreSound` | `[]Sound`: the child, the list of attempts and the place in it |
| | `OneLoopInAChild`, `EachBindingOnce`, `RecordedEffectsOnce` | `OneLoopPerChild`, `NoBindingTwice`, `RecordedEffectIsFinal` |
| | `EvidenceLastsInMemory` | within one process blocks last and a cancellation blames nobody, whether rows can be written or not |
| | `RowsMirrorTable`, `EvidenceIsKept`, `CancellationBlamesNobody` | `[]SavedMirrorsHealth`, `EvidenceLasts`, `CancellationIsNeutral`, restarts included, if `DatabaseMayFail = FALSE` |
| `NativeFailover_proofs` | `NoClaimIsLeaked` | `[]Inv` |
| | `ContinuationFollowsEnd`, `ClaimOutlivesIdle`, `NeverRunTwice` | `OneLoopPerSession`, `ClaimKeptWhileRunning`, `NeverRetried` |
| `BrowserRecovery_proofs` | `RecoveryIsSafe`, `StoreIsKept` | `[]Inv`, `StoreKeeps` |
| | `AbandonedLockIsKept` | `AbandonedLockFreezes`, the safety half of `AbandonedLockSafe` |
| | `StoreImplementsTasks` | `ImplementsLogicalTasks`: the refinement of `LogicalTasks` |
| `Compaction_proofs` | `TypeCorrect`, `BlockedForGood` | `[]TypeOK`, `BlockIsFinal` |
| | `CompactionIsSafe`, `LatestIsLoaded`, `OneRequest` | `[]Inv`, `LoadsLatest`, `NoSecondRequest`, if `UserWaits` |
| `BrowserCapability_proofs` | `OneCallDrives`, `LimitIsKept`, `NothingIsLeft` | `[]Inv`, `[]LimitKept`, `[]CleanedUp` |
| | `ResumedSessionIsSound`, `CancellationIsInTime` | `ResumedIsSound`, `CancelledInTime` |
| `RoleTasks_proofs` | `CallsAreAccounted`, `CompactionIsAlone` | `[]Inv`, `[]CompactsAlone` |
| | `VerdictsCountOnce`, `CancellationSaysNothing` | `ScoredOnce`, `CancelledIsNeutral` |
| `Orchestras_proofs` | `NameAndPolicyAreCurrent`, `OnlyOvertakenActivationStrays` | `[]Inv`, `StraysOnlyIfOvertaken` |
| | `SavedGoWasChecked`, `KnowledgeIsKept` | `GoIsChecked`, `LearnedIsKept` |
| `BrainstormServer_proofs` | `OpenTabsAreNamed` | `[]Inv`: with the exceptions of `lapse`, the files name the open tabs |
| | `FilesAreRepeated` | `FilesStay`: with the same exceptions, what a file says is only repeated |

Each is a theorem `Spec => ...` about the specification the run checks without its
fairness.  Where there is a theorem `Inductive == Spec => []IInv`, `IInv` is the
inductive invariant of the module and the others follow from it.

**Assumptions.**  Those of the modules, named where the constants are declared, which
TLC evaluates in the runs: a value that stands for "none" (`NoBinding`, `None`,
`NoRow`, `NoConfig`, `NoTask`, ...) is none of the values it is compared with,
delays and limits are natural numbers, pools are sequences of bindings, `go` is a
name.  Two assumptions that theorems make say something about the world:

- `UserWaits`, three theorems of `Compaction`: nobody writes to the session
  while it is compacted.  Without it `CompactionIsSafe` is false; `compaction_stale`
  shows why (section 6, finding 2).  `BlockedForGood` does without.
- `DatabaseMayFail = FALSE`, three theorems of `PooledTask`: the health rows can be
  written.  Without it they are false, and rightly so: what could not be
  saved is forgotten by a restart, and a reset that could not be saved is undone
  by one.  `EvidenceLastsInMemory` says what is left in that case.

**The arguments.**

*Claims* (`PooledTask`).  `ClaimExclusive` alone is not inductive: the head of the
loop looks at the table, not at the other tasks, so one must know that the table
tells the truth.  `IInv == TypeOK /\ ClaimExclusive /\ ClaimsAccounted` says so.
The idea is the intermediate state inside a step: when an attempt of `t` ends, the
table in hand has the claims of the *other* tasks and no more (`HeldByOthers`),
whatever class the error had (`FailedEndsClaim`); from such a table the loop ends
or claims a binding that is in flight for nobody.  That a restart empties every
claim needs the type of the rows: a claim is never saved.

*One call* (`PooledTask`).  `TaskOK` says that a child is not running before its
next prompt, that the bindings of a call differ, and that those it has prompted lie
before its place in the list.  `Catch` is analysed once (`CatchIs`): it goes on only when
the child is known to be stopped, has no recorded side effect and was not cancelled, and
then further down the list.  `TaskStepBehaves` goes through the actions with that;
every action property is read off `Behaves`.  For the rows, `Mirrors` is shown of the
intermediate table first and then of the claim laid over it.

*Switches* (`NativeFailover`).  The three action properties need an account of the
switch: a session that is not tracked has done nothing; between the confirmed abort
and the acceptance of the continuation the child has no loop and no event of it is
left; no idle event of the loop a claim is held for is waiting; what the child was
run on is in `attemptedModels` or lies earlier in the pool (`Fresh`).

*The recovery store* (`BrowserRecovery`).  Everything rests on the lock: between
its entry and its exit a transaction's copy differs from the index in one record
and in the way its operation allows (`StagedOK`, `Changes`).  So every write of the
index is a step of one logical task: `begin` is `Create`, `claim` is `Begin`,
`finalize` is `Report`, the crash of an executor is `Lose`, and all other steps,
the writes of the witness, directory and key and every failure among them, are
stutters.

*Compaction.*  Four parties lead to one restore, so the invariant says which of
them may be waiting for which: a batch has ended or the session is idle while
`performCompaction` works (`StageOK`), what it has left to the server waits for the
server, for the event or for the packet (`RunningOK`), and a compaction that is
known to be ours has its request behind it (`ServerOK`).

*Browser sessions* (`BrowserCapability`).  The place of a call tells of the session it
uses (`CallOK`), the way of a session tells of its browser (`SessionOK`), a session
has one user, and the sessions of the table and the places reserved are together
within the limit (`PlacesOK`).  That the table is finite is part of the invariant.

*Role tasks.*  What the calls of a session share is what the calls under way make of
it: the counter is the number of calls with a child, a Browser task is under way as
long as its call.  That no result is given up too early needs the order of the
list: the `j`-th of the `n` kept was finished no later than the `j`-th of the last
`n` that finished (`InOrder`), which scoring and eviction preserve; so the first, the
one that is given up, is older than `n - 1` others.

*Orchestras.*  A call that is about to commit carries a configuration this process
has checked, an update never names `go`, and the active name has a stored
configuration; the writers of the registry are operators from a table to a table,
and each keeps what it finds (`Keeps`).  That memory strays by an overtaken
activation only is one case per commit: every one that stores a configuration
under the active name puts the same into memory, and an activation that was not
overtaken puts there what is stored.

*Brainstorm server.*  Any number of starts read, bind and write at once.  As long as
the port file is empty at most one start that may write has drawn a port, and as
long as the key file is empty at most one has drawn a key (`OneDraw`): a second one
that finds nothing while another is under way is what `lapse` records.  Once a
file says something every start that may write has what it says (`ServerOK`), those
that read it while it was being written included, for they have lapsed.  So a write
only repeats, and a tab's port and key stay the files'.  Without the exceptions the
statement is false (section 6, observation 6).

**Only model-checked.**  Liveness, which is out of this prover's reach:
`CancelledTaskEnds`, `SwitchEnds`, `CompactionSettles`, `EverythingEnds`,
`TabComesBack`, `ClosingExits`, `WrittenIsShown`, and the second half of
`AbandonedLockSafe` (`TransactionsEnd`).

## 6. Where code and documentation disagree

Each of the first three is a run that TLC ends with a counterexample; the
quotations are in `PROJECT.json`.

1. `native_exclusive`: `failover` reports a failure for a binding its session
   holds no claim on, which ends the claim another session has; the README says
   claims are exclusive.
2. `compaction_stale`: during a compaction from idle nothing keeps the session
   from recording a newer ledger; the older checkpoint is saved over it or
   preferred to it; the comment in the hook says the latest is loaded.
3. `control_plane_pool_set`: two `pool_set` of different roles of the active
   orchestra in flight together: the second to be written takes the other role
   back to what it was; the README says every other role is preserved.

What follows was seen while modelling; the steps are in the modules, but no run
is kept for it.  Of 4 to 6 the properties of the passing runs state how far the
promise holds, and where it ends.

4. `activate` reads an orchestra and awaits the inventory; another call stores a new
   configuration under that name meanwhile; the commit makes the name active and puts
   what it had read into memory (P:1386-1390).  The configuration in memory differs
   from that of the database until the next change or start;
   `docs/NLA_MODEL_ROUTING_ARCHITECTURE.md:314-315` says that activation "updates the
   current process" and that "new tasks use the active orchestra".
   `StraysOnlyIfOvertaken` says that this is the only way.
5. A click counts only when the backend has answered it (`nla-browser.mjs:291-305`).
   A prompt that fails while one is under way, by a time-out or otherwise, finds no
   event at P:751, and the task goes to the next model, which may repeat it;
   `docs/BROWSER.md:207-209` says that an interaction that *may* have caused a side
   effect blocks that.  `RecordedEffectIsFinal` is about what has been recorded.
6. Two starts that find no files both draw a port, neither is a fallback, and the
   second overwrites what names the open tab of the first; the comment at
   `server.cjs:668-671` says the files are recorded only when that cannot happen.
   `lapse` in `OpenTabsAreServed` is this case and that of a failed write.
7. In the same way as in 1 a transient error of a second native session turns a
   quarantine into a cooldown (P:268); the README (640-642) asks for an explicit
   reset.
8. When OpenCode did not report a native child's model, the configured binding is
   excluded only from the switch that leaves it; the second switch in ranked
   mode may go back to it (P:276-278).  Hence `NeverRetried` speaks of children
   whose model was reported.
9. A failure of the tool inventory is classified by its text and may cool or
   quarantine a binding no request was sent to (P:734); the README (718-720) says
   preparation failures do not.
10. Cancellation while the child is created throws past the rollback, and the child
    stays (P:554); the comment at P:779-780 says otherwise.
11. The repair of refused arguments has no time limit of its own (P:841);
    `docs/PROJECT_STATUS_AND_USAGE.md:729` says thirty seconds.
12. A report of usage that is greater in one counter replaces the row even when it
    is smaller in the others (`usageIsMoreComplete`); the README (527) calls that a
    more complete update.
13. A brainstorm tab that is accepted while its server shuts down keeps the process
    alive (`server.cjs:626-631`); `ClosingExits` and `TabComesBack` make that
    exception.
14. The comment at `nla-system-database.mjs:967` says that configured prices win
    over runtime metadata; a price that was discovered before it was configured
    stays, because the pools fill only rows without facts (943-965).

## 7. What is not modelled, and why

- *Partly*: of role dispatch the queue that matches the children OpenCode creates
  with their assignments: nothing in the event ties the two together, so which
  gets which is OpenCode's order, and nothing says what it should be.  Of native
  failover the repeated use of one child.  Of the recovery store the read-only
  operations and the release by the operator.  Of the database the usage ledger,
  operator databases and migrations of the schema.
- *Network broker*: a separate daemon in Go; the Browser capability has its
  answers, with failures.  What it does inside is system calls whose effects
  would be assumptions.
- *Several OpenCode processes on one system database*: each keeps the snapshot it
  loaded; no code makes the others notice.  (Several processes on one recovery
  store are modelled.)
- *Left out*: scores, prompts, caches around a prompt, ledger text and git
  reconciliation, stateless HTTP tools, pure configuration functions, one-shot
  scripts, prose.  They have no protocol of their own; what the modelled parts
  need of them (any ranking, any classification) is in the models.
- *Small windows nobody promises anything about*: a brainstorm screen that is shown
  between the load of a page and its connection is not announced to that tab, and
  a choice within the tenth of a second before a new screen is noticed is erased
  with the old ones (`server.cjs:590-611`); a crash between the file of a user
  database and its catalog row leaves a file whose next creation fails
  (`nla-system-database.mjs:1046-1056`); a utility model quarantined in memory is
  well again after a restart (`nla-utility-runtime.mjs:153`).

## 8. Plan

1. `BindingLease`, the abstract lease every caller of a model should see, and
   `PooledTask` and `RoleTasks` shown to implement it (`NativeFailover` does not,
   finding 1).
2. `ClaimsExclusive` of `NativeFailover` under the condition that excludes finding 1,
   as a theorem that says exactly how far the exclusiveness goes.
3. `BrowserCapability` in place of `Allocate` and `Run` of `BrowserRecovery`.
4. The usage ledger.
