---- MODULE Orchestras ----
(***************************************************************************)
(* The control plane of one OpenCode process: the named orchestras, the    *)
(* active name and the policy settings in the system database; the         *)
(* snapshot that new tasks read in memory; and the primary NLA's tools     *)
(* that change both (nla_orchestra, nla_models_reload, nla_model_policy,   *)
(* nla_system setting_set, nla_models_registry).                           *)
(*                                                                         *)
(* JavaScript runs one handler at a time, but update and pool_set of the   *)
(* active orchestra, activate and reload await the provider inventory      *)
(* between what they read and what they write.  The primary may issue      *)
(* several tools in one message: the calls in Calls interleave at those    *)
(* awaits.  The process may end at any await and start again.              *)
(*                                                                         *)
(* A configuration is the coordinator's model and one worker's pool: a     *)
(* set of models ("explicit", select mode) or AutoPool.                    *)
(***************************************************************************)
EXTENDS ModelRegistry

CONSTANTS
    Calls,       \* tool calls that may be in flight together
    Names,       \* names of orchestras
    Go,          \* the name of the original one
    Configs,     \* the configurations operators write, validated
    AutoPool,    \* models: auto
    NoConfig,    \* no such orchestra
    Policies,    \* selection policies
    NoPolicy,    \* no setting
    Offers,      \* the inventories OpenCode may answer with
    NoInventory, \* availableBindings() after a failed request
    MaxChanges   \* bound on the tool calls and restarts of a behaviour

Parts == {"coordinator", "worker"}

ASSUME OrchestrasAssumption ==
    /\ Go \in Names
    /\ NoConfig \notin Configs
    /\ \A c \in Configs : /\ DOMAIN c = Parts
                          /\ c.coordinator \in Bindings
                          /\ c.worker = AutoPool \/ c.worker \subseteq Bindings
    /\ Offers \subseteq SUBSET Bindings
    /\ MaxChanges \in Nat

VARIABLES
    orchestras,     \* the table: name -> configuration
    activeName,     \* orchestra_state
    settings,       \* for each name, the worker's preferences and policy-only override
    poolFile,       \* the original pool file, edited by the operator
    snapshot,       \* activeOrchestra: the name and configuration in memory
    policy,         \* the policy of the worker's pool in memory
    inventory,      \* the inventory last fetched
    call,           \* the tool calls waiting for the inventory
    up,             \* whether the process runs
    checked,        \* configurations this process has found ready (history)
    changes         \* calls and restarts so far

controlVars ==
    <<orchestras, activeName, settings, poolFile, snapshot, policy, inventory, call, up,
      checked, changes>>
vars == <<registryVars, controlVars>>

NoCall == [op |-> "none", stage |-> "none", name |-> Go, part |-> "worker", config |-> NoConfig]

Ops == {"update", "pool_set", "activate", "reload"}

CallRecords ==
    [op : Ops, stage : {"inventory", "commit"}, name : Names, part : Parts, config : Configs]

Scopes == [saved : Policies \cup {NoPolicy}, only : Policies \cup {NoPolicy}]

TypeOK ==
    /\ RegistryTypeOK
    /\ orchestras \in [Names -> Configs \cup {NoConfig}]
    /\ activeName \in Names
    /\ settings \in [Names -> Scopes]
    /\ poolFile \in Configs
    /\ snapshot \in [name : Names, config : Configs \cup {NoConfig}]
    /\ policy \in Policies \cup {NoPolicy}
    /\ inventory \in Offers \cup {NoInventory}
    /\ call \in [Calls -> CallRecords \cup {NoCall}]
    /\ up \in BOOLEAN
    /\ checked \subseteq Configs
    /\ changes \in 0..MaxChanges

-----------------------------------------------------------------------------
(* What the tools compute.                                                 *)

\* configuredSelectionPreferences: a policy-only setting goes before the saved one.
Preferred(scope) == IF scope.only # NoPolicy THEN scope.only ELSE scope.saved

\* The bindings a configuration lists: an auto pool lists none.
Listed(config) ==
    {config.coordinator} \cup (IF config.worker = AutoPool THEN {} ELSE config.worker)

\* The models synchronizeRuntimeModelFacts takes from the inventory.
Wanted(config, offer) == IF config.worker = AutoPool THEN offer ELSE offer \cap Listed(config)

\* materializeAutoPool, or routableModelPool of poolWithSystemFacts.
Candidates(rows, config) ==
    IF config.worker = AutoPool
    THEN {b \in Bindings : RowEnabled(rows, b) /\ ProviderEnabled(b)}
    ELSE {b \in config.worker : rows[b] = NoRow \/ RowEnabled(rows, b)}

\* The checks of ensureOrchestraReady, after the inventory has been synchronized.
IsReady(rows, offer, config) ==
    /\ config.coordinator \in offer
    /\ RowEnabled(rows, config.coordinator)
    /\ Candidates(rows, config) \cap offer # {}

\* applyOrchestraSnapshot
ApplySnapshot(name, config) ==
    /\ snapshot' = [name |-> name, config |-> config]
    /\ policy' = Preferred(settings[name])

KeepSnapshot == UNCHANGED <<snapshot, policy>>

Finish(c) == call' = [call EXCEPT ![c] = NoCall]

\* A new call or restart: counted, and only while the process runs.
Change == up /\ changes < MaxChanges /\ changes' = changes + 1

Idle(c) == call[c] = NoCall

Await(c, op, name, part, config) ==
    call' = [call EXCEPT ![c] = [op |-> op, stage |-> "inventory", name |-> name,
                                 part |-> part, config |-> config]]

-----------------------------------------------------------------------------

\* A new installation, before the plugin is loaded for the first time.
Init ==
    /\ RegistryInit
    /\ poolFile \in Configs
    /\ orchestras = [n \in Names |-> NoConfig]
    /\ activeName = Go
    /\ settings = [n \in Names |-> [saved |-> NoPolicy, only |-> NoPolicy]]
    /\ snapshot = [name |-> Go, config |-> NoConfig]
    /\ policy = NoPolicy
    /\ inventory = NoInventory
    /\ call = [c \in Calls |-> NoCall]
    /\ up = FALSE
    /\ checked = {}
    /\ changes = 0

\* updateOrchestra and saveOrchestra, then the first-run facts of the listed models.
Store(name, config) ==
    /\ orchestras' = [orchestras EXCEPT ![name] = config]
    /\ WriteFacts(SeedFacts(registry, Listed(config)))

\* nla_orchestra create: no await, so one step.
Create(c, name, config) ==
    /\ Change /\ Idle(c)
    /\ orchestras[name] = NoConfig
    /\ Store(name, config)
    /\ UNCHANGED <<activeName, settings, poolFile, snapshot, policy, inventory, call, up, checked>>

\* nla_orchestra update and pool_set, up to the await of the inventory: only an
\* update of the orchestra in memory waits for it, another is stored at once.
BeginUpdate(c, op, name, part, config) ==
    /\ Change /\ Idle(c)
    /\ name # Go
    /\ orchestras[name] # NoConfig
    /\ IF name = snapshot.name
       THEN /\ Await(c, op, name, part, config)
            /\ UNCHANGED <<registryVars, orchestras>>
       ELSE /\ Store(name, config)
            /\ UNCHANGED call
    /\ UNCHANGED <<activeName, settings, poolFile, snapshot, policy, inventory, up, checked>>

Update(c, name, config) == BeginUpdate(c, "update", name, "worker", config)

\* pool_set replaces one pool of the configuration it reads now.
PoolSet(c, name, part, config) ==
    /\ orchestras[name] # NoConfig
    /\ [orchestras[name] EXCEPT ![part] = config[part]] \in Configs
    /\ BeginUpdate(c, "pool_set", name, part, [orchestras[name] EXCEPT ![part] = config[part]])

\* A bug: the name is stored before the inventory has answered.
ActivateEarly(c, name) ==
    /\ Change /\ Idle(c)
    /\ orchestras[name] # NoConfig
    /\ Await(c, "activate", name, "worker", orchestras[name])
    /\ activeName' = name
    /\ UNCHANGED <<registryVars, orchestras, settings, poolFile, snapshot, policy, inventory, up,
                   checked>>

\* nla_orchestra activate reads the stored configuration before the await.
Activate(c, name) ==
    /\ Change /\ Idle(c)
    /\ orchestras[name] # NoConfig
    /\ Await(c, "activate", name, "worker", orchestras[name])
    /\ UNCHANGED <<registryVars, orchestras, activeName, settings, poolFile, snapshot, policy,
                   inventory, up, checked>>

\* nla_models_reload takes the pool file for go, the stored configuration otherwise.
Reload(c) ==
    /\ Change /\ Idle(c)
    /\ Await(c, "reload", activeName, "worker",
             IF activeName = Go THEN poolFile ELSE orchestras[activeName])
    /\ UNCHANGED <<registryVars, orchestras, activeName, settings, poolFile, snapshot, policy,
                   inventory, up, checked>>

\* ensureOrchestraReady, the inventory having answered: the models it offers are
\* registered, then the configuration is checked.
InventoryAnswers(c, offer) ==
    /\ call[c].stage = "inventory"
    /\ inventory' = offer
    /\ registry' = FillFacts(registry, Wanted(call[c].config, offer))
    /\ IF IsReady(registry', offer, call[c].config)
       THEN /\ call' = [call EXCEPT ![c].stage = "commit"]
            /\ checked' = checked \cup {call[c].config}
       ELSE Finish(c) /\ UNCHANGED checked
    /\ UNCHANGED <<evaluations, providersOff, migrated, orchestras, activeName, settings, poolFile, snapshot,
                   policy, up, changes>>

\* The request fails or takes more than five seconds: the call ends in an error.
InventoryFails(c) ==
    /\ call[c].stage = "inventory"
    /\ inventory' = NoInventory
    /\ Finish(c)
    /\ UNCHANGED <<registryVars, orchestras, activeName, settings, poolFile, snapshot, policy,
                   up, checked, changes>>

\* A bug: what has been stored is not applied to the orchestra in memory.
CommitUpdateUnapplied(c) ==
    /\ call[c].op \in {"update", "pool_set"} /\ call[c].stage = "commit"
    /\ Store(call[c].name, call[c].config)
    /\ KeepSnapshot
    /\ Finish(c)
    /\ UNCHANGED <<activeName, settings, poolFile, inventory, up, checked, changes>>

\* The rest of update and pool_set.  Whether the orchestra is the one in memory is
\* asked again; what is applied is what the database holds as active.
CommitUpdate(c) ==
    /\ call[c].op \in {"update", "pool_set"} /\ call[c].stage = "commit"
    /\ Store(call[c].name, call[c].config)
    /\ IF call[c].name = snapshot.name
       THEN ApplySnapshot(activeName, orchestras'[activeName])
       ELSE KeepSnapshot
    /\ Finish(c)
    /\ UNCHANGED <<activeName, settings, poolFile, inventory, up, checked, changes>>

\* The rest of activate: what is applied is what was read before the await.
CommitActivate(c) ==
    /\ call[c].op = "activate" /\ call[c].stage = "commit"
    /\ activeName' = call[c].name
    /\ ApplySnapshot(call[c].name, call[c].config)
    /\ Finish(c)
    /\ UNCHANGED <<registryVars, orchestras, settings, poolFile, inventory, up, checked, changes>>

\* A bug: the pool file is read again after the check.
CommitReloadReread(c) ==
    /\ call[c].op = "reload" /\ call[c].stage = "commit"
    /\ orchestras' = IF call[c].name = Go THEN [orchestras EXCEPT ![Go] = poolFile]
                     ELSE orchestras
    /\ WriteFacts(SeedFacts(registry, Listed(orchestras'[activeName])))
    /\ ApplySnapshot(activeName, orchestras'[activeName])
    /\ Finish(c)
    /\ UNCHANGED <<activeName, settings, poolFile, inventory, up, checked, changes>>

\* The rest of reload: what is applied is what the database holds as active now.
CommitReload(c) ==
    /\ call[c].op = "reload" /\ call[c].stage = "commit"
    /\ orchestras' = IF call[c].name = Go THEN [orchestras EXCEPT ![Go] = call[c].config]
                     ELSE orchestras
    /\ WriteFacts(SeedFacts(registry, Listed(orchestras'[activeName])))
    /\ ApplySnapshot(activeName, orchestras'[activeName])
    /\ Finish(c)
    /\ UNCHANGED <<activeName, settings, poolFile, inventory, up, checked, changes>>

\* A setting of the worker of the orchestra in memory is saved, then applied.
SaveSetting(scope) ==
    /\ Change
    /\ settings' = [settings EXCEPT ![snapshot.name] = scope]
    /\ policy' = Preferred(scope)
    /\ UNCHANGED <<registryVars, orchestras, activeName, poolFile, snapshot, inventory, call, up,
                   checked>>

\* nla_model_policy: saveSelectionPreferences removes a policy-only override.
SetPreferences(p) == SaveSetting([saved |-> p, only |-> NoPolicy])

\* nla_system setting_set of routing.selection_policy.
SetPolicyOnly(p) == SaveSetting([settings[snapshot.name] EXCEPT !.only = p])

\* nla_system setting_set of routing.selection_preferences leaves that override.
SetPreferencesOnly(p) == SaveSetting([settings[snapshot.name] EXCEPT !.saved = p])

\* nla_models_registry: status_set, provider_status_set and import.
RegistryTool ==
    /\ Change
    /\ \E b \in Bindings :
          \/ \E status \in Statuses : SetModelStatus(b, status) \/ SetProviderStatus(b, status)
          \/ \E price \in {"none", "imported"}, status \in {"unset", "disabled"} :
                ImportFacts(b, price, status)
          \/ \E overwrite \in BOOLEAN : ImportScores(b, overwrite)
    /\ UNCHANGED <<orchestras, activeName, settings, poolFile, snapshot, policy, inventory, call,
                   up, checked>>

\* A task that used the model ends, or its reviewer scores it.
TaskMeasured(b) ==
    /\ Change
    /\ RecordEvaluation(b)
    /\ UNCHANGED <<orchestras, activeName, settings, poolFile, snapshot, policy, inventory, call,
                   up, checked>>

\* The operator edits the pool file.
EditPoolFile(config) ==
    /\ changes < MaxChanges /\ changes' = changes + 1
    /\ poolFile' = config
    /\ UNCHANGED <<registryVars, orchestras, activeName, settings, snapshot, policy, inventory,
                   call, up, checked>>

\* The process ends, at an await or between calls: what it holds in memory is lost.
Stop ==
    /\ Change
    /\ up' = FALSE
    /\ call' = [c \in Calls |-> NoCall]
    /\ inventory' = NoInventory
    /\ checked' = {}
    /\ UNCHANGED <<registryVars, orchestras, activeName, settings, poolFile, snapshot, policy>>

\* NextLevelAgentPlugin: the database is opened, go is created from the pool file if
\* there is no orchestra yet, the active one is loaded and its models registered.
Start ==
    /\ ~up
    /\ up' = TRUE
    /\ orchestras' = IF orchestras[activeName] = NoConfig
                     THEN [orchestras EXCEPT ![Go] = poolFile]
                     ELSE orchestras
    /\ OpenDatabase(Listed(orchestras'[activeName]))
    /\ ApplySnapshot(activeName, orchestras'[activeName])
    /\ UNCHANGED <<activeName, settings, poolFile, inventory, call, checked, changes>>

Next ==
    \/ \E c \in Calls :
          \/ \E n \in Names, cfg \in Configs : Create(c, n, cfg) \/ Update(c, n, cfg)
          \/ \E n \in Names, part \in Parts, cfg \in Configs : PoolSet(c, n, part, cfg)
          \/ \E n \in Names : Activate(c, n)
          \/ Reload(c)
          \/ \E offer \in Offers : InventoryAnswers(c, offer)
          \/ InventoryFails(c)
          \/ CommitUpdate(c)
          \/ CommitActivate(c)
          \/ CommitReload(c)
    \/ \E p \in Policies : SetPreferences(p) \/ SetPolicyOnly(p) \/ SetPreferencesOnly(p)
    \/ RegistryTool
    \/ \E b \in Bindings : TaskMeasured(b)
    \/ \E cfg \in Configs : EditPoolFile(cfg)
    \/ Stop
    \/ Start

Spec == Init /\ [][Next]_vars

-----------------------------------------------------------------------------
(* Properties.                                                             *)

\* While the process runs, the orchestra it has in memory bears the name the
\* database holds as active, and its policy is the one the saved settings of that
\* name give: a switch or a setting that is refused, or that another call
\* overtakes at an await, leaves name and policy together
\* (next-level-agent.js:203-210).
NameAndPolicyFollow ==
    up => /\ snapshot.name = activeName
          /\ policy = Preferred(settings[activeName])

Inv == TypeOK /\ NameAndPolicyFollow

\* New tasks use another configuration than the one stored for the active name.
Strayed == up /\ snapshot.config # orchestras[activeName]

\* Another call has replaced what an activation read before its await.
Overtaken(c) == orchestras[call[c].name] # call[c].config

\* The configuration in memory leaves the stored one in one way only, by an
\* activation that was overtaken; no update, pool_set, reload, setting or start
\* does that, and whatever next changes either of the two brings them together
\* (next-level-agent.js:1110-1124, 1378-1390).
StraysOnlyIfOvertaken ==
    [][Strayed' =>
          \/ /\ Strayed
             /\ UNCHANGED <<snapshot, activeName>>
             /\ orchestras'[activeName] = orchestras[activeName]
          \/ \E c \in Calls : CommitActivate(c) /\ Overtaken(c)]_vars

\* What is saved as go after its first start is a configuration whose models have
\* been checked against the inventory, although the pool file may be edited
\* while the inventory is awaited (README.md:358-362).
GoIsChecked ==
    [][orchestras[Go] # NoConfig /\ orchestras'[Go] # orchestras[Go]
          => orchestras'[Go] \in checked]_vars

\* Nothing but an operator's registry tool takes back what is known of a model:
\* starts, reloads, saved orchestras, the inventory and measurements keep its
\* status and any price it has, and put no seed in the place of scores
\* (README.md:481-492).
LearnedIsKept ==
    [][~RegistryTool => \A b \in Bindings :
          /\ registry[b] # NoRow =>
                /\ registry'[b] # NoRow
                /\ registry'[b].status = registry[b].status
                /\ registry[b].price \in {"none", registry'[b].price}
          /\ evaluations[b] # "none" => evaluations'[b] \in {"measured", evaluations[b]}]_vars

\* README.md:215 says that pool_set changes one role's pool while preserving every
\* other role.  It does not: two of them in flight on the active orchestra, one for
\* each role, both read it before either writes.
PoolSetPreservesOthers ==
    [][\A c \in Calls :
          CommitUpdate(c) /\ call[c].op = "pool_set" =>
             \A part \in Parts \ {call[c].part} :
                orchestras'[call[c].name][part] = orchestras[call[c].name][part]]_vars

====
