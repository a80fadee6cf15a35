---------------------------- MODULE ModelHealth ----------------------------
(***************************************************************************)
(* The process-wide model health table of the plugin, class                *)
(* ModelHealthManager of nla-model-health.mjs, and the copy of it that     *)
(* nla-system-database.mjs keeps in SQLite.  Every component that calls a  *)
(* model shares the table: the pooled task runner, native failover and the *)
(* utility runtime.  This module has its state, the table operations as    *)
(* operators on a table, and the three steps nobody but the table takes:   *)
(* time, the operator's reset and a restart of the process.                *)
(*                                                                         *)
(* A binding is "provider/model" on one endpoint.  Time is relative: the   *)
(* field left is until - now in units of Tick, so a cooldown whose end has *)
(* come IS an available entry, which is what state() answers for it.  A    *)
(* claim is only ever laid over an eligible entry; restoring the previous  *)
(* entry on release therefore always makes the binding available again.   *)
(***************************************************************************)
EXTENDS Integers, FiniteSets

CONSTANTS
    Bindings,        \* the model bindings that occur in any pool
    NoBinding,       \* none of them
    Cooldown,        \* modelCooldownMs(pool), in ticks
    RetryAfters,     \* the Retry-After delays a provider may ask for, in ticks
    DatabaseMayFail  \* TRUE: a write of the health row may fail (it is logged)

ASSUME BindingAssumption == NoBinding \notin Bindings
ASSUME CooldownAssumption == Cooldown \in Nat /\ RetryAfters \subseteq Nat
ASSUME DatabaseAssumption == DatabaseMayFail \in BOOLEAN

VARIABLES
    health,  \* ModelHealthManager.entries
    saved    \* the rows of the table model_health

healthVars == <<health, saved>>

----------------------------------------------------------------------------
HealthCategories == {"transient", "defective", "configuration"}
Categories == HealthCategories \cup {"incomplete", "non_provider", "unknown"}

Available == [state |-> "available", left |-> 0]
Quarantined == [state |-> "quarantined", left |-> 0]
Probe == [state |-> "probe", left |-> 0]
Entries == {Available, Quarantined, Probe}
             \cup [state : {"cooling"}, left : Nat \ {0}]
Rows == Entries \ {Probe}
CoolingFor(n) == IF n = 0 THEN Available ELSE [state |-> "cooling", left |-> n]

Larger(m, n) == IF m >= n THEN m ELSE n

\* Mutant: only evidence blocks a binding, a claim does not.
EligibleUnlessBlocked(h, b) == h[b].state \notin {"cooling", "quarantined"}
Eligible(h, b) == h[b].state = "available"
InFlight(h, b) == h[b].state = "probe"

Claimed(h, b) == [h EXCEPT ![b] = Probe]
Released(h, b) == IF InFlight(h, b) THEN [h EXCEPT ![b] = Available] ELSE h
Succeeded(h, b) == [h EXCEPT ![b] = Available]

\* Mutant: a failure that is no evidence leaves the entry, claim and all.
FailedKeepingClaim(h, b, category, retryAfter) ==
    CASE category = "transient" ->
             [h EXCEPT ![b] = CoolingFor(Larger(Cooldown, retryAfter))]
      [] category \in {"defective", "configuration"} ->
             [h EXCEPT ![b] = Quarantined]
      [] OTHER -> h

\* failure(): only evidence about the provider changes the entry, and then it
\* replaces whatever the entry is; any other failure gives the claim back.
Failed(h, b, category, retryAfter) ==
    CASE category = "transient" ->
             [h EXCEPT ![b] = CoolingFor(Larger(Cooldown, retryAfter))]
      [] category \in {"defective", "configuration"} ->
             [h EXCEPT ![b] = Quarantined]
      [] OTHER -> Released(h, b)

\* saveSystemHealth: a row for what blocks the binding, none for the rest; a
\* claim is refused by the row's check, which persistModelHealth only logs.
Persisted(rows, h, b) ==
    IF InFlight(h, b) THEN rows ELSE [rows EXCEPT ![b] = h[b]]

\* The rows after persistModelHealth, whose error path leaves them alone.
PersistOutcomes(rows, h, b) ==
    {Persisted(rows, h, b)} \cup (IF DatabaseMayFail THEN {rows} ELSE {})

\* A shorter wait, for an entry or a row.
Later(h) ==
    [b \in Bindings |-> IF h[b].state = "cooling"
                        THEN CoolingFor(h[b].left - 1) ELSE h[b]]

----------------------------------------------------------------------------
HealthInit ==
    /\ health = [b \in Bindings |-> Available]
    /\ saved = health

\* Time passes for the table and for its rows, which hold absolute times.
Tick ==
    /\ \E b \in Bindings : "cooling" \in {health[b].state, saved[b].state}
    /\ health' = Later(health)
    /\ saved' = Later(saved)

\* The tool nla_model_health_reset on an exact binding, refused in flight.
Reset(b) ==
    /\ ~InFlight(health, b)
    /\ health' = [health EXCEPT ![b] = Available]
    /\ saved' \in PersistOutcomes(saved, health', b)

\* Mutant: all cooling rows are deleted first, not only the expired ones.
HydrateQuarantines ==
    /\ saved' = [b \in Bindings |-> IF saved[b].state = "cooling" THEN Available
                                    ELSE saved[b]]
    /\ health' = saved'

\* hydrate(loadSystemHealth(...)) in a new process: every claim is gone.
Hydrate ==
    /\ health' = saved
    /\ UNCHANGED saved

HealthTypeOK ==
    /\ health \in [Bindings -> Entries]
    /\ saved \in [Bindings -> Rows]
============================================================================
