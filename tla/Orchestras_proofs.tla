--------------------------- MODULE Orchestras_proofs ---------------------------
(***************************************************************************)
(* The control plane, for any number of names, models, configurations and  *)
(* concurrent tool calls.  Three facts about the calls and the database    *)
(* make the properties inductive: a call that is about to commit carries a *)
(* configuration this process has checked, an update never names go, and   *)
(* the active name always has a stored configuration once the process has  *)
(* run.  The registry's writers are treated first, as operators on tables. *)
(***************************************************************************)
EXTENDS Orchestras, TLAPS

Tables == [Bindings -> Rows \cup {NoRow}]

\* What a writer other than the operator's keeps of the table it is given.
Keeps(old, new) ==
    \A b \in Bindings : old[b] # NoRow =>
        /\ new[b] # NoRow
        /\ new[b].status = old[b].status
        /\ old[b].price \in {"none", new[b].price}

\* A call that waits, or is about to commit, was checked by the guards it passed.
CallsAreGuarded ==
    \A c \in Calls :
        /\ call[c].op \in {"update", "pool_set"} => call[c].name # Go
        /\ call[c].op = "activate" => orchestras[call[c].name] # NoConfig
        /\ call[c].stage = "commit" => call[c].config \in checked

\* The active name is one of a stored orchestra, but before the first start.
ActiveExists == activeName # Go \/ up => orchestras[activeName] # NoConfig

\* The scores are written only by a process, and a process has written the seeds.
SeededFirst ==
    /\ up => migrated
    /\ ~migrated => \A b \in Bindings : evaluations[b] = "none"

IInv == Inv /\ CallsAreGuarded /\ ActiveExists /\ SeededFirst

-----------------------------------------------------------------------------
(* The writers of the registry.                                            *)

\* The row a pool or a score registers is a row.
LEMMA FirstRows ==
    /\ EmptyRow \in Rows
    /\ \A p \in Prices : [EmptyRow EXCEPT !.price = p] \in Rows
BY DEF EmptyRow, Rows, Prices, Statuses

\* Seeding gives a table in which everything known before is kept: it writes to
\* missing and to unclaimed rows only.
LEMMA SeedKeeps ==
    ASSUME NEW rows \in Tables, NEW listed
    PROVE  SeedFacts(rows, listed) \in Tables /\ Keeps(rows, SeedFacts(rows, listed))
<1> DEFINE fact(b) == [EmptyRow EXCEPT !.price = IF b \in Priced THEN "configured" ELSE "none"]
           new == SeedFacts(rows, listed)
<1>1. \A b \in Bindings : fact(b) \in Rows /\ fact(b).status = EmptyRow.status
  BY FirstRows DEF Prices, EmptyRow
<1>2. \A b \in Bindings :
         new[b] = IF b \in listed /\ (rows[b] = NoRow \/ rows[b] = EmptyRow)
                  THEN fact(b) ELSE rows[b]
  BY DEF SeedFacts, IsUnclaimed
<1>3. new \in Tables
  BY <1>1 DEF SeedFacts, Tables
<1>4. ASSUME NEW b \in Bindings, rows[b] # NoRow
      PROVE  /\ new[b] # NoRow
             /\ new[b].status = rows[b].status
             /\ rows[b].price \in {"none", new[b].price}
  <2>1. CASE new[b] = rows[b]
    BY <2>1, <1>4
  <2>2. CASE rows[b] = EmptyRow /\ new[b] = fact(b)
    BY <2>2, <1>1, RegistryAssumption DEF EmptyRow
  <2> QED
    BY <1>2, <1>4, <2>1, <2>2
<1> HIDE DEF new
<1> QED
  BY <1>3, <1>4 DEF Keeps, new

\* The inventory adds rows and prices, and changes neither status nor price.
LEMMA FillKeeps ==
    ASSUME NEW rows \in Tables, NEW found
    PROVE  FillFacts(rows, found) \in Tables /\ Keeps(rows, FillFacts(rows, found))
<1> DEFINE new == FillFacts(rows, found)
<1>1. ASSUME NEW b \in Bindings
      PROVE  /\ new[b] \in Rows \cup {NoRow}
             /\ rows[b] # NoRow => /\ new[b] # NoRow
                                   /\ new[b].status = rows[b].status
                                   /\ rows[b].price \in {"none", new[b].price}
  <2>1. rows[b] \in Rows \cup {NoRow}
    BY DEF Tables
  <2>2. CASE b \notin found \/ (rows[b] # NoRow /\ rows[b].price # "none")
    <3>1. new[b] = rows[b]
      BY <2>2 DEF FillFacts
    <3> QED
      BY <2>1, <3>1
  <2>3. CASE b \in found /\ rows[b] = NoRow
    <3>1. new[b] = [EmptyRow EXCEPT !.price = "discovered"]
      BY <2>3 DEF FillFacts
    <3> QED
      BY <2>3, <3>1, FirstRows DEF Prices
  <2>4. CASE b \in found /\ rows[b] # NoRow /\ rows[b].price = "none"
    <3>1. new[b] = [rows[b] EXCEPT !.price = "discovered"]
      BY <2>4 DEF FillFacts
    <3>2. new[b] \in Rows /\ new[b].status = rows[b].status
      BY <2>1, <2>4, <3>1 DEF Rows, Prices
    <3> QED
      BY <2>4, <3>2, RegistryAssumption
  <2> QED
    BY <2>2, <2>3, <2>4
<1>2. new = [b \in Bindings |-> new[b]]
  BY DEF FillFacts
<1> HIDE DEF new
<1>3. new \in Tables /\ Keeps(rows, new)
  BY <1>1, <1>2 DEF Tables, Keeps
<1> QED
  BY <1>3 DEF new

\* Registering adds rows.
LEMMA RegisterKeeps ==
    ASSUME NEW rows \in Tables, NEW bindings
    PROVE  Register(rows, bindings) \in Tables /\ Keeps(rows, Register(rows, bindings))
BY FirstRows DEF Register, Tables, Keeps

\* What two writers keep in turn is kept.
LEMMA KeepsTransitive ==
    ASSUME NEW r1, NEW r2, NEW r3, Keeps(r1, r2), Keeps(r2, r3)
    PROVE  Keeps(r1, r3)
BY DEF Keeps

\* Opening the database keeps every row, whether or not the seeds are written.
LEMMA OpenKeeps ==
    ASSUME NEW listed, registry \in Tables, OpenDatabase(listed)
    PROVE  registry' \in Tables /\ Keeps(registry, registry')
<1> DEFINE first == IF migrated THEN registry ELSE Register(registry, Seeded)
<1>1. first \in Tables /\ Keeps(registry, first)
  <2>1. Keeps(registry, registry)
    BY DEF Keeps
  <2> QED
    BY <2>1, RegisterKeeps
<1>2. registry' = SeedFacts(first, listed)
  BY DEF OpenDatabase
<1> HIDE DEF first
<1> QED
  BY <1>1, <1>2, SeedKeeps, KeepsTransitive

-----------------------------------------------------------------------------
(* The steps.                                                              *)

\* What a step leaves to show of the registry: its type, and who may write scores.
RegistryOK == RegistryTypeOK /\ SeededFirst

\* The initial states satisfy the invariant.
LEMMA InitStep == Init => IInv
<1> SUFFICES ASSUME Init PROVE IInv
  OBVIOUS
<1>1. TypeOK
  <2>1. RegistryTypeOK
    BY DEF Init, RegistryInit, RegistryTypeOK, ScoreSources
  <2>2. settings \in [Names -> Scopes]
    BY DEF Init, Scopes
  <2>3. snapshot \in [name : Names, config : Configs \cup {NoConfig}]
    BY OrchestrasAssumption DEF Init
  <2>4. changes \in 0..MaxChanges
    BY OrchestrasAssumption DEF Init
  <2> QED
    BY <2>1, <2>2, <2>3, <2>4, OrchestrasAssumption DEF Init, TypeOK
<1>2. NameAndPolicyFollow /\ SeededFirst
  BY DEF Init, NameAndPolicyFollow, SeededFirst, RegistryInit
<1>3. CallsAreGuarded
  BY DEF Init, CallsAreGuarded, NoCall
<1>4. ActiveExists
  BY DEF Init, ActiveExists
<1> QED
  BY <1>1, <1>2, <1>3, <1>4 DEF IInv, Inv

\* The writers of the plugin leave a table of rows and write no score without it.
LEMMA WritersStep ==
    ASSUME IInv, up' = up
    PROVE  /\ \A listed : WriteFacts(SeedFacts(registry, listed)) => RegistryOK'
           /\ UNCHANGED registryVars => RegistryOK'
           /\ \A b \in Bindings : up /\ RecordEvaluation(b) => RegistryOK'
<1> USE DEF IInv, Inv, TypeOK, RegistryTypeOK, SeededFirst, RegistryOK
<1>1. registry \in Tables
  BY DEF Tables
<1>2. ASSUME NEW listed, WriteFacts(SeedFacts(registry, listed)) PROVE RegistryOK'
  <2>1. registry' \in Tables
    BY <1>1, <1>2, SeedKeeps DEF WriteFacts
  <2> QED
    BY <1>2, <2>1 DEF WriteFacts, Tables
<1>3. ASSUME UNCHANGED registryVars PROVE RegistryOK'
  BY <1>3 DEF registryVars
<1>4. ASSUME NEW b \in Bindings, up, RecordEvaluation(b) PROVE RegistryOK'
  <2>1. registry' \in Tables
    BY <1>1, <1>4, RegisterKeeps DEF RecordEvaluation
  <2> QED
    BY <1>4, <2>1 DEF RecordEvaluation, Tables, ScoreSources
<1> QED
  BY <1>2, <1>3, <1>4

\* The operator's tool leaves a well-formed registry.
LEMMA RegistryToolStep ==
    ASSUME IInv, RegistryTool
    PROVE  IInv'
<1> USE DEF IInv, Inv, TypeOK
<1>1. up /\ migrated /\ registry \in Tables
  BY DEF RegistryTool, Change, SeededFirst, RegistryTypeOK, Tables
<1>2. RegistryTypeOK' /\ migrated' = migrated
  <2>1. ASSUME NEW b \in Bindings, NEW status \in Statuses, SetModelStatus(b, status)
        PROVE  RegistryTypeOK' /\ migrated' = migrated
    <3>1. [registry[b] EXCEPT !.status = status] \in Rows
      BY <2>1 DEF SetModelStatus, RegistryTypeOK, Rows
    <3> QED
      BY <2>1, <3>1 DEF SetModelStatus, WriteFacts, RegistryTypeOK
  <2>2. ASSUME NEW b \in Bindings, NEW status \in Statuses, SetProviderStatus(b, status)
        PROVE  RegistryTypeOK' /\ migrated' = migrated
    BY <2>2 DEF SetProviderStatus, RegistryTypeOK
  <2>3. ASSUME NEW b \in Bindings, NEW price \in {"none", "imported"},
               NEW status \in {"unset", "disabled"}, ImportFacts(b, price, status)
        PROVE  RegistryTypeOK' /\ migrated' = migrated
    <3>1. ImportedRow(registry[b], price, status) \in Rows
      BY DEF ImportedRow, RegistryTypeOK, Rows, Prices, Statuses
    <3> QED
      BY <2>3, <3>1 DEF ImportFacts, WriteFacts, RegistryTypeOK
  <2>4. ASSUME NEW b \in Bindings, NEW overwrite \in BOOLEAN, ImportScores(b, overwrite)
        PROVE  RegistryTypeOK' /\ migrated' = migrated
    <3> DEFINE rows == Register(registry, {b})
    <3>1. rows \in Tables /\ rows[b] \in Rows
      BY <1>1, RegisterKeeps, FirstRows DEF Register, Tables
    <3>2. [rows EXCEPT ![b].imported = TRUE] \in Tables
      <4>1. [rows[b] EXCEPT !.imported = TRUE] \in Rows
        BY <3>1 DEF Rows
      <4> HIDE DEF rows
      <4> QED
        BY <3>1, <4>1 DEF Tables
    <3> QED
      BY <2>4, <3>2 DEF ImportScores, RegistryTypeOK, Tables, ScoreSources
  <2> QED
    BY <2>1, <2>2, <2>3, <2>4 DEF RegistryTool
<1>3. UNCHANGED <<orchestras, activeName, settings, poolFile, snapshot, policy, inventory,
                  call, up, checked>>
      /\ changes' \in 0..MaxChanges
  BY OrchestrasAssumption DEF RegistryTool, Change
<1>4. TypeOK'
  BY <1>2, <1>3
<1> QED
  BY <1>1, <1>2, <1>3, <1>4
     DEF NameAndPolicyFollow, CallsAreGuarded, ActiveExists, SeededFirst

\* One more change stays within the bound.
LEMMA CountStep == TypeOK /\ changes < MaxChanges => changes + 1 \in 0..MaxChanges
BY OrchestrasAssumption DEF TypeOK

\* A new call waits for the inventory: it is one of the records of a call.
LEMMA AwaitStep ==
    ASSUME IInv, NEW c \in Calls, NEW op \in Ops, NEW name \in Names, NEW part \in Parts,
           NEW config \in Configs, Await(c, op, name, part, config),
           op \in {"update", "pool_set"} => name # Go,
           op = "activate" => orchestras[name] # NoConfig,
           UNCHANGED <<orchestras, checked>>
    PROVE  call' \in [Calls -> CallRecords \cup {NoCall}] /\ CallsAreGuarded'
<1> DEFINE new == [op |-> op, stage |-> "inventory", name |-> name, part |-> part,
                   config |-> config]
<1>1. new \in CallRecords
  BY DEF CallRecords
<1>2. call' = [call EXCEPT ![c] = new]
  BY DEF Await
<1>3. call \in [Calls -> CallRecords \cup {NoCall}]
  BY DEF IInv, Inv, TypeOK
<1>4. call' \in [Calls -> CallRecords \cup {NoCall}]
  BY <1>1, <1>2, <1>3
<1>5. CallsAreGuarded'
  BY <1>2, <1>3 DEF IInv, CallsAreGuarded
<1> QED
  BY <1>4, <1>5

\* A finished call leaves the record of none.
LEMMA FinishStep ==
    ASSUME IInv, NEW c \in Calls, Finish(c), checked \subseteq checked',
           \A n \in Names : orchestras[n] # NoConfig => orchestras'[n] # NoConfig
    PROVE  call' \in [Calls -> CallRecords \cup {NoCall}] /\ CallsAreGuarded'
<1>1. call \in [Calls -> CallRecords \cup {NoCall}]
  BY DEF IInv, Inv, TypeOK
<1>2. call' = [call EXCEPT ![c] = NoCall]
  BY DEF Finish
<1>3. \A d \in Calls : call[d].name \in Names
  BY <1>1, OrchestrasAssumption DEF CallRecords, NoCall
<1>4. CallsAreGuarded'
  BY <1>1, <1>2, <1>3 DEF IInv, CallsAreGuarded, NoCall
<1> QED
  BY <1>1, <1>2, <1>4

\* Storing a configuration keeps the types and the names that have one.
LEMMA StoreStep ==
    ASSUME IInv, NEW name \in Names, NEW config \in Configs, Store(name, config), up' = up
    PROVE  /\ RegistryOK'
           /\ orchestras' \in [Names -> Configs \cup {NoConfig}]
           /\ orchestras'[name] = config
           /\ \A n \in Names : orchestras[n] # NoConfig => orchestras'[n] # NoConfig
<1>1. RegistryOK'
  BY WritersStep DEF Store
<1>2. orchestras \in [Names -> Configs \cup {NoConfig}]
  BY DEF IInv, Inv, TypeOK
<1> QED
  BY <1>1, <1>2, OrchestrasAssumption DEF Store

\* The policy of a name's settings is a policy or none.
LEMMA PreferredType ==
    ASSUME NEW scope \in Scopes
    PROVE  Preferred(scope) \in Policies \cup {NoPolicy}
BY DEF Preferred, Scopes

\* create stores a configuration under a name that had none.
LEMMA CreateStep ==
    ASSUME IInv, NEW c \in Calls, NEW name \in Names, NEW config \in Configs,
           Create(c, name, config)
    PROVE  IInv'
<1> USE DEF IInv, Inv
<1>1. /\ Store(name, config) /\ up /\ changes < MaxChanges /\ changes' = changes + 1
      /\ UNCHANGED <<activeName, settings, poolFile, snapshot, policy, inventory, call, up,
                     checked>>
  BY DEF Create, Change
<1>2. TypeOK'
  BY <1>1, StoreStep, CountStep DEF TypeOK, RegistryOK
<1>3. \A d \in Calls : call[d].name \in Names
  BY OrchestrasAssumption DEF TypeOK, CallRecords, NoCall
<1> QED
  BY <1>1, <1>2, <1>3, StoreStep
     DEF NameAndPolicyFollow, CallsAreGuarded, ActiveExists, RegistryOK, TypeOK

\* update and pool_set store at once, or wait for the inventory with what they read.
LEMMA BeginUpdateStep ==
    ASSUME IInv, NEW c \in Calls, NEW op \in {"update", "pool_set"}, NEW name \in Names,
           NEW part \in Parts, NEW config \in Configs, BeginUpdate(c, op, name, part, config)
    PROVE  IInv'
<1> USE DEF IInv, Inv
<1>1. /\ up /\ changes < MaxChanges /\ changes' = changes + 1 /\ name # Go
      /\ UNCHANGED <<activeName, settings, poolFile, snapshot, policy, inventory, up, checked>>
  BY DEF BeginUpdate, Change
<1>2. CASE name = snapshot.name
  <2>1. Await(c, op, name, part, config) /\ UNCHANGED <<registryVars, orchestras>>
    BY <1>2 DEF BeginUpdate
  <2>2. call' \in [Calls -> CallRecords \cup {NoCall}] /\ CallsAreGuarded'
    BY <1>1, <2>1, AwaitStep DEF Ops
  <2>3. RegistryOK'
    BY <1>1, <2>1, WritersStep
  <2>4. TypeOK'
    BY <1>1, <2>1, <2>2, <2>3, CountStep DEF TypeOK, RegistryOK
  <2> QED
    BY <1>1, <2>1, <2>2, <2>3, <2>4 DEF NameAndPolicyFollow, ActiveExists, RegistryOK
<1>3. CASE name # snapshot.name
  <2>1. Store(name, config) /\ UNCHANGED call
    BY <1>3 DEF BeginUpdate
  <2>2. TypeOK'
    BY <1>1, <2>1, StoreStep, CountStep DEF TypeOK, RegistryOK
  <2>3. \A d \in Calls : call[d].name \in Names
    BY OrchestrasAssumption DEF TypeOK, CallRecords, NoCall
  <2> QED
    BY <1>1, <2>1, <2>2, <2>3, StoreStep
       DEF NameAndPolicyFollow, CallsAreGuarded, ActiveExists, RegistryOK, TypeOK
<1> QED
  BY <1>2, <1>3

\* activate waits with the configuration stored under its name.
LEMMA ActivateStep ==
    ASSUME IInv, NEW c \in Calls, NEW name \in Names, Activate(c, name)
    PROVE  IInv'
<1> USE DEF IInv, Inv
<1>1. /\ up /\ changes < MaxChanges /\ changes' = changes + 1
      /\ orchestras[name] # NoConfig
      /\ Await(c, "activate", name, "worker", orchestras[name])
      /\ UNCHANGED <<registryVars, orchestras, activeName, settings, poolFile, snapshot, policy,
                     inventory, up, checked>>
  BY DEF Activate, Change
<1>2. orchestras[name] \in Configs
  BY <1>1 DEF TypeOK
<1>3. call' \in [Calls -> CallRecords \cup {NoCall}] /\ CallsAreGuarded'
  BY <1>1, <1>2, AwaitStep DEF Ops, Parts
<1>4. RegistryOK'
  BY <1>1, WritersStep
<1>5. TypeOK'
  BY <1>1, <1>3, <1>4, CountStep DEF TypeOK, RegistryOK
<1> QED
  BY <1>1, <1>3, <1>4, <1>5 DEF NameAndPolicyFollow, ActiveExists, RegistryOK

\* reload waits with the pool file or the active configuration, which exists.
LEMMA ReloadStep ==
    ASSUME IInv, NEW c \in Calls, Reload(c)
    PROVE  IInv'
<1> USE DEF IInv, Inv
<1> DEFINE config == IF activeName = Go THEN poolFile ELSE orchestras[activeName]
<1>1. /\ up /\ changes < MaxChanges /\ changes' = changes + 1
      /\ Await(c, "reload", activeName, "worker", config)
      /\ UNCHANGED <<registryVars, orchestras, activeName, settings, poolFile, snapshot, policy,
                     inventory, up, checked>>
  BY DEF Reload, Change
<1>2. config \in Configs /\ activeName \in Names
  BY <1>1 DEF TypeOK, ActiveExists
<1> HIDE DEF config
<1>3. call' \in [Calls -> CallRecords \cup {NoCall}] /\ CallsAreGuarded'
  BY <1>1, <1>2, AwaitStep DEF Ops, Parts
<1>4. RegistryOK'
  BY <1>1, WritersStep
<1>5. TypeOK'
  BY <1>1, <1>3, <1>4, CountStep DEF TypeOK, RegistryOK
<1> QED
  BY <1>1, <1>3, <1>4, <1>5 DEF NameAndPolicyFollow, ActiveExists, RegistryOK

\* An answer of the inventory fills the registry, and lets a call commit only with
\* the configuration it has just checked.
LEMMA InventoryAnswersStep ==
    ASSUME IInv, NEW c \in Calls, NEW offer \in Offers, InventoryAnswers(c, offer)
    PROVE  IInv'
<1> USE DEF IInv, Inv
<1>1. /\ call[c].stage = "inventory" /\ inventory' = offer
      /\ registry' = FillFacts(registry, Wanted(call[c].config, offer))
      /\ UNCHANGED <<evaluations, providersOff, migrated, orchestras, activeName, settings,
                     poolFile, snapshot, policy, up, changes>>
  BY DEF InventoryAnswers
<1>2. RegistryOK'
  <2>1. registry \in Tables
    BY DEF TypeOK, RegistryTypeOK, Tables
  <2>2. registry' \in Tables
    BY <1>1, <2>1, FillKeeps
  <2> QED
    BY <1>1, <2>2 DEF RegistryOK, TypeOK, RegistryTypeOK, SeededFirst, Tables
<1>3. call[c] \in CallRecords
  BY <1>1 DEF TypeOK, NoCall
<1>4. call' \in [Calls -> CallRecords \cup {NoCall}] /\ CallsAreGuarded' /\ checked' \subseteq Configs
  <2>1. CASE /\ call' = [call EXCEPT ![c].stage = "commit"]
             /\ checked' = checked \cup {call[c].config}
    <3>1. call' = [call EXCEPT ![c] = [call[c] EXCEPT !.stage = "commit"]]
      BY <2>1
    <3>2. [call[c] EXCEPT !.stage = "commit"] \in CallRecords
      BY <1>3 DEF CallRecords
    <3>3. call[c].config \in Configs
      BY <1>3 DEF CallRecords
    <3>4. CallsAreGuarded'
      BY <1>1, <1>3, <2>1, <3>1 DEF CallsAreGuarded, CallRecords, TypeOK
    <3> QED
      BY <2>1, <3>1, <3>2, <3>3, <3>4 DEF TypeOK
  <2>2. CASE Finish(c) /\ UNCHANGED checked
    BY <1>1, <2>2, FinishStep DEF TypeOK
  <2> QED
    BY <2>1, <2>2 DEF InventoryAnswers
<1>5. TypeOK'
  BY <1>1, <1>2, <1>4 DEF TypeOK, RegistryOK
<1> QED
  BY <1>1, <1>2, <1>4, <1>5 DEF NameAndPolicyFollow, ActiveExists, RegistryOK

\* A request that fails ends its call and changes nothing else.
LEMMA InventoryFailsStep ==
    ASSUME IInv, NEW c \in Calls, InventoryFails(c)
    PROVE  IInv'
<1> USE DEF IInv, Inv
<1>1. /\ Finish(c) /\ inventory' = NoInventory
      /\ UNCHANGED <<registryVars, orchestras, activeName, settings, poolFile, snapshot, policy,
                     up, checked, changes>>
  BY DEF InventoryFails
<1>2. RegistryOK' /\ call' \in [Calls -> CallRecords \cup {NoCall}] /\ CallsAreGuarded'
  BY <1>1, WritersStep, FinishStep
<1>3. TypeOK'
  BY <1>1, <1>2 DEF TypeOK, RegistryOK
<1> QED
  BY <1>1, <1>2, <1>3 DEF NameAndPolicyFollow, ActiveExists, RegistryOK

\* What is applied to memory bears the active name and the policy of its settings.
LEMMA ApplyStep ==
    ASSUME TypeOK, NEW name \in Names, NEW config \in Configs \cup {NoConfig},
           ApplySnapshot(name, config), settings' = settings, activeName' = name
    PROVE  /\ snapshot' \in [name : Names, config : Configs \cup {NoConfig}]
           /\ policy' \in Policies \cup {NoPolicy}
           /\ NameAndPolicyFollow'
<1>1. settings[name] \in Scopes
  BY DEF TypeOK
<1> QED
  BY <1>1, PreferredType DEF ApplySnapshot, NameAndPolicyFollow, Preferred

\* The end of update and pool_set stores what was checked, never as go.
LEMMA CommitUpdateStep ==
    ASSUME IInv, NEW c \in Calls, CommitUpdate(c)
    PROVE  IInv'
<1> USE DEF IInv, Inv
<1> DEFINE name == call[c].name
           config == call[c].config
<1>1. /\ call[c].op \in {"update", "pool_set"} /\ call[c].stage = "commit"
      /\ Store(name, config) /\ Finish(c)
      /\ UNCHANGED <<activeName, settings, poolFile, inventory, up, checked, changes>>
  BY DEF CommitUpdate
<1>2. name \in Names /\ config \in Configs
  BY <1>1 DEF TypeOK, NoCall, CallRecords
<1> HIDE DEF name, config
<1>3. /\ RegistryOK' /\ orchestras' \in [Names -> Configs \cup {NoConfig}]
      /\ \A n \in Names : orchestras[n] # NoConfig => orchestras'[n] # NoConfig
  BY <1>1, <1>2, StoreStep
<1>4. call' \in [Calls -> CallRecords \cup {NoCall}] /\ CallsAreGuarded'
  BY <1>1, <1>3, FinishStep
<1>5. /\ snapshot' \in [name : Names, config : Configs \cup {NoConfig}]
      /\ policy' \in Policies \cup {NoPolicy}
      /\ NameAndPolicyFollow'
  <2>1. CASE ApplySnapshot(activeName, orchestras'[activeName])
    <3>1. activeName \in Names /\ orchestras'[activeName] \in Configs \cup {NoConfig}
      BY <1>3 DEF TypeOK
    <3> QED
      BY <1>1, <2>1, <3>1, ApplyStep
  <2>2. CASE KeepSnapshot
    BY <1>1, <2>2 DEF KeepSnapshot, TypeOK, NameAndPolicyFollow
  <2> QED
    BY <2>1, <2>2 DEF CommitUpdate
<1>6. TypeOK'
  BY <1>1, <1>3, <1>4, <1>5 DEF TypeOK, RegistryOK
<1> QED
  BY <1>1, <1>3, <1>4, <1>5, <1>6 DEF ActiveExists, RegistryOK, TypeOK

\* The end of activate names an orchestra that has a configuration.
LEMMA CommitActivateStep ==
    ASSUME IInv, NEW c \in Calls, CommitActivate(c)
    PROVE  IInv'
<1> USE DEF IInv, Inv
<1> DEFINE name == call[c].name
           config == call[c].config
<1>1. /\ call[c].op = "activate" /\ call[c].stage = "commit"
      /\ activeName' = name /\ ApplySnapshot(name, config) /\ Finish(c)
      /\ UNCHANGED <<registryVars, orchestras, settings, poolFile, inventory, up, checked,
                     changes>>
  BY DEF CommitActivate
<1>2. name \in Names /\ config \in Configs /\ orchestras[name] # NoConfig
  BY <1>1 DEF TypeOK, NoCall, CallRecords, CallsAreGuarded
<1> HIDE DEF name, config
<1>3. RegistryOK' /\ call' \in [Calls -> CallRecords \cup {NoCall}] /\ CallsAreGuarded'
  BY <1>1, WritersStep, FinishStep
<1>4. /\ snapshot' \in [name : Names, config : Configs \cup {NoConfig}]
      /\ policy' \in Policies \cup {NoPolicy}
      /\ NameAndPolicyFollow'
  BY <1>1, <1>2, ApplyStep
<1>5. TypeOK'
  BY <1>1, <1>2, <1>3, <1>4 DEF TypeOK, RegistryOK
<1> QED
  BY <1>1, <1>2, <1>3, <1>4, <1>5 DEF ActiveExists, RegistryOK

\* The end of reload stores go as it was checked, and applies what is active now.
LEMMA CommitReloadStep ==
    ASSUME IInv, NEW c \in Calls, CommitReload(c)
    PROVE  IInv'
<1> USE DEF IInv, Inv
<1> DEFINE config == call[c].config
<1>1. /\ call[c].op = "reload" /\ call[c].stage = "commit"
      /\ orchestras' = IF call[c].name = Go THEN [orchestras EXCEPT ![Go] = config]
                       ELSE orchestras
      /\ WriteFacts(SeedFacts(registry, Listed(orchestras'[activeName])))
      /\ ApplySnapshot(activeName, orchestras'[activeName]) /\ Finish(c)
      /\ UNCHANGED <<activeName, settings, poolFile, inventory, up, checked, changes>>
  BY DEF CommitReload
<1>2. config \in Configs
  BY <1>1 DEF TypeOK, NoCall, CallRecords
<1> HIDE DEF config
<1>3. /\ orchestras' \in [Names -> Configs \cup {NoConfig}]
      /\ \A n \in Names : orchestras[n] # NoConfig => orchestras'[n] # NoConfig
  BY <1>1, <1>2, OrchestrasAssumption DEF TypeOK
<1>4. RegistryOK' /\ call' \in [Calls -> CallRecords \cup {NoCall}] /\ CallsAreGuarded'
  BY <1>1, <1>3, WritersStep, FinishStep
<1>5. /\ snapshot' \in [name : Names, config : Configs \cup {NoConfig}]
      /\ policy' \in Policies \cup {NoPolicy}
      /\ NameAndPolicyFollow'
  <2>1. activeName \in Names /\ orchestras'[activeName] \in Configs \cup {NoConfig}
    BY <1>3 DEF TypeOK
  <2> QED
    BY <1>1, <2>1, ApplyStep
<1>6. TypeOK'
  BY <1>1, <1>3, <1>4, <1>5 DEF TypeOK, RegistryOK
<1> QED
  BY <1>1, <1>3, <1>4, <1>5, <1>6 DEF ActiveExists, RegistryOK, TypeOK

\* A setting is saved for the name in memory, which is the active one.
LEMMA SaveSettingStep ==
    ASSUME IInv, NEW scope \in Scopes, SaveSetting(scope)
    PROVE  IInv'
<1> USE DEF IInv, Inv
<1>1. /\ up /\ changes < MaxChanges /\ changes' = changes + 1
      /\ settings' = [settings EXCEPT ![snapshot.name] = scope]
      /\ policy' = Preferred(scope)
      /\ UNCHANGED <<registryVars, orchestras, activeName, poolFile, snapshot, inventory, call,
                     up, checked>>
  BY DEF SaveSetting, Change
<1>2. RegistryOK'
  BY <1>1, WritersStep
<1>3. settings' \in [Names -> Scopes] /\ policy' \in Policies \cup {NoPolicy}
  BY <1>1, PreferredType DEF TypeOK
<1>4. TypeOK'
  BY <1>1, <1>2, <1>3, CountStep DEF TypeOK, RegistryOK
<1>5. NameAndPolicyFollow'
  BY <1>1 DEF NameAndPolicyFollow, TypeOK
<1> QED
  BY <1>1, <1>2, <1>4, <1>5 DEF CallsAreGuarded, ActiveExists, RegistryOK

\* A start loads the active orchestra; only go can be without a configuration.
LEMMA StartStep ==
    ASSUME IInv, Start
    PROVE  IInv'
<1> USE DEF IInv, Inv
<1>1. /\ up' = TRUE
      /\ orchestras' = IF orchestras[activeName] = NoConfig
                       THEN [orchestras EXCEPT ![Go] = poolFile] ELSE orchestras
      /\ OpenDatabase(Listed(orchestras'[activeName]))
      /\ ApplySnapshot(activeName, orchestras'[activeName])
      /\ UNCHANGED <<activeName, settings, poolFile, inventory, call, checked, changes>>
  BY DEF Start
<1>2. /\ orchestras' \in [Names -> Configs \cup {NoConfig}]
      /\ orchestras'[activeName] # NoConfig
      /\ \A n \in Names : orchestras[n] # NoConfig => orchestras'[n] # NoConfig
  BY <1>1, OrchestrasAssumption DEF TypeOK, ActiveExists
<1>3. RegistryOK'
  <2>1. registry \in Tables
    BY DEF TypeOK, RegistryTypeOK, Tables
  <2>2. registry' \in Tables
    BY <1>1, <2>1, OpenKeeps
  <2>3. evaluations' \in [Bindings -> ScoreSources] /\ migrated' = TRUE
    BY <1>1 DEF OpenDatabase, TypeOK, RegistryTypeOK, ScoreSources
  <2> QED
    BY <1>1, <2>2, <2>3
       DEF OpenDatabase, RegistryOK, TypeOK, RegistryTypeOK, SeededFirst, Tables
<1>4. /\ snapshot' \in [name : Names, config : Configs \cup {NoConfig}]
      /\ policy' \in Policies \cup {NoPolicy}
      /\ NameAndPolicyFollow'
  <2>1. activeName \in Names /\ orchestras'[activeName] \in Configs \cup {NoConfig}
    BY <1>2 DEF TypeOK
  <2> QED
    BY <1>1, <2>1, ApplyStep
<1>5. TypeOK'
  BY <1>1, <1>2, <1>3, <1>4 DEF TypeOK, RegistryOK
<1>6. \A d \in Calls : call[d].name \in Names
  BY OrchestrasAssumption DEF TypeOK, CallRecords, NoCall
<1> QED
  BY <1>1, <1>2, <1>3, <1>4, <1>5, <1>6 DEF ActiveExists, CallsAreGuarded, RegistryOK

\* Measurements, edits of the pool file and the end of the process keep what is
\* said of memory and of calls: memory is not changed, and calls only end.
LEMMA OtherSteps ==
    ASSUME IInv, \/ \E b \in Bindings : TaskMeasured(b)
                 \/ \E config \in Configs : EditPoolFile(config)
                 \/ Stop
    PROVE  IInv'
<1> USE DEF IInv, Inv
<1>1. ASSUME NEW b \in Bindings, TaskMeasured(b) PROVE IInv'
  <2>1. /\ up /\ changes < MaxChanges /\ changes' = changes + 1 /\ RecordEvaluation(b)
        /\ UNCHANGED <<orchestras, activeName, settings, poolFile, snapshot, policy, inventory,
                       call, up, checked>>
    BY <1>1 DEF TaskMeasured, Change
  <2>2. RegistryOK'
    BY <2>1, WritersStep
  <2>3. TypeOK'
    BY <2>1, <2>2, CountStep DEF TypeOK, RegistryOK
  <2> QED
    BY <2>1, <2>2, <2>3 DEF NameAndPolicyFollow, CallsAreGuarded, ActiveExists, RegistryOK
<1>2. ASSUME NEW config \in Configs, EditPoolFile(config) PROVE IInv'
  <2>1. /\ changes < MaxChanges /\ changes' = changes + 1 /\ poolFile' = config
        /\ UNCHANGED <<registryVars, orchestras, activeName, settings, snapshot, policy,
                       inventory, call, up, checked>>
    BY <1>2 DEF EditPoolFile
  <2>2. RegistryOK'
    BY <2>1, WritersStep
  <2>3. TypeOK'
    BY <2>1, <2>2, CountStep DEF TypeOK, RegistryOK
  <2> QED
    BY <2>1, <2>2, <2>3 DEF NameAndPolicyFollow, CallsAreGuarded, ActiveExists, RegistryOK
<1>3. ASSUME Stop PROVE IInv'
  <2>1. /\ changes < MaxChanges /\ changes' = changes + 1 /\ up' = FALSE
        /\ call' = [c \in Calls |-> NoCall] /\ inventory' = NoInventory /\ checked' = {}
        /\ UNCHANGED <<registryVars, orchestras, activeName, settings, poolFile, snapshot,
                       policy>>
    BY <1>3 DEF Stop, Change
  <2>2. RegistryTypeOK' /\ SeededFirst'
    BY <2>1 DEF TypeOK, RegistryTypeOK, SeededFirst, registryVars
  <2>3. TypeOK'
    BY <2>1, <2>2, CountStep DEF TypeOK
  <2>4. CallsAreGuarded'
    BY <2>1 DEF CallsAreGuarded, NoCall
  <2> QED
    BY <2>1, <2>2, <2>3, <2>4 DEF NameAndPolicyFollow, ActiveExists
<1> QED
  BY <1>1, <1>2, <1>3

-----------------------------------------------------------------------------
(* The theorems.                                                           *)

\* Every step of the control plane keeps the invariant.
LEMMA NextStep == IInv /\ [Next]_vars => IInv'
<1> SUFFICES ASSUME IInv, [Next]_vars PROVE IInv'
  OBVIOUS
<1>1. ASSUME NEW c \in Calls, NEW n \in Names, NEW cfg \in Configs,
             Create(c, n, cfg) \/ Update(c, n, cfg)
      PROVE  IInv'
  BY <1>1, CreateStep, BeginUpdateStep DEF Update, Parts
<1>2. ASSUME NEW c \in Calls, NEW n \in Names, NEW part \in Parts, NEW cfg \in Configs,
             PoolSet(c, n, part, cfg)
      PROVE  IInv'
  BY <1>2, BeginUpdateStep DEF PoolSet
<1>3. ASSUME NEW c \in Calls,
             \/ \E n \in Names : Activate(c, n)
             \/ Reload(c)
             \/ \E offer \in Offers : InventoryAnswers(c, offer)
             \/ InventoryFails(c)
             \/ CommitUpdate(c)
             \/ CommitActivate(c)
             \/ CommitReload(c)
      PROVE  IInv'
  BY <1>3, ActivateStep, ReloadStep, InventoryAnswersStep, InventoryFailsStep,
     CommitUpdateStep, CommitActivateStep, CommitReloadStep
<1>4. ASSUME NEW p \in Policies, SetPreferences(p) \/ SetPolicyOnly(p) \/ SetPreferencesOnly(p)
      PROVE  IInv'
  <2>1. settings[snapshot.name] \in Scopes
    BY DEF IInv, Inv, TypeOK
  <2>2. \E scope \in Scopes : SaveSetting(scope)
    BY <1>4, <2>1 DEF SetPreferences, SetPolicyOnly, SetPreferencesOnly, Scopes
  <2> QED
    BY <2>2, SaveSettingStep
<1>5. CASE UNCHANGED vars
  <2>1. IInv
    OBVIOUS
  <2> QED
    BY <1>5, <2>1 DEF IInv, Inv, TypeOK, RegistryTypeOK, NameAndPolicyFollow,
         CallsAreGuarded, ActiveExists, SeededFirst, vars, registryVars, controlVars
<1> QED
  BY <1>1, <1>2, <1>3, <1>4, <1>5, RegistryToolStep, StartStep, OtherSteps DEF Next

\* The types are kept, and while the process runs the orchestra it has in memory
\* bears the name the database holds as active, with the policy the settings of
\* that name give, whatever calls overtake each other at the inventory
\* (next-level-agent.js:203-210).  Of its configuration see the next theorem.
THEOREM NameAndPolicyAreCurrent == Spec => []Inv
<1>1. Spec => []IInv
  BY InitStep, NextStep, PTL DEF Spec
<1>2. IInv => Inv
  BY DEF IInv
<1> QED
  BY <1>1, <1>2, PTL

\* Neither memory nor what is stored for the active name is changed.
MemoryKept ==
    /\ UNCHANGED <<snapshot, activeName>>
    /\ orchestras'[activeName] = orchestras[activeName]

\* A step that keeps both keeps them apart or together.
LEMMA KeptStep ==
    ASSUME MemoryKept, UNCHANGED up, Strayed'
    PROVE  Strayed /\ MemoryKept
BY DEF MemoryKept, Strayed

\* What the database holds as active is applied: the two are together.
LEMMA AppliedStep ==
    ASSUME UNCHANGED activeName, ApplySnapshot(activeName, orchestras'[activeName])
    PROVE  ~Strayed'
BY DEF ApplySnapshot, Strayed

\* A call that stores an orchestra other than the active one leaves both alone.
LEMMA BeginKeeps ==
    ASSUME IInv, NEW c \in Calls, NEW n \in Names, NEW cfg \in Configs,
           NEW op, NEW part, Create(c, n, cfg) \/ BeginUpdate(c, op, n, part, cfg)
    PROVE  MemoryKept /\ UNCHANGED up
<1>1. up /\ UNCHANGED <<snapshot, activeName, up>>
  BY DEF Create, BeginUpdate, Change
<1>2. activeName \in Names /\ orchestras \in [Names -> Configs \cup {NoConfig}]
      /\ snapshot.name = activeName /\ orchestras[activeName] # NoConfig
  BY <1>1 DEF IInv, Inv, TypeOK, NameAndPolicyFollow, ActiveExists
<1>3. CASE UNCHANGED orchestras
  BY <1>1, <1>3 DEF MemoryKept
<1>4. CASE orchestras' = [orchestras EXCEPT ![n] = cfg] /\ n # activeName
  BY <1>1, <1>2, <1>4 DEF MemoryKept
<1> QED
  BY <1>1, <1>2, <1>3, <1>4 DEF Create, BeginUpdate, Store

\* The end of update and pool_set applies what it has stored for the active name.
LEMMA CommitUpdateTogether ==
    ASSUME IInv, NEW c \in Calls, CommitUpdate(c), Strayed'
    PROVE  Strayed /\ MemoryKept
<1>1. UNCHANGED <<activeName, up>> /\ up
  BY DEF CommitUpdate, Strayed
<1>2. CASE call[c].name = snapshot.name
  <2>1. ApplySnapshot(activeName, orchestras'[activeName])
    BY <1>2 DEF CommitUpdate
  <2> QED
    BY <1>1, <2>1, AppliedStep
<1>3. CASE call[c].name # snapshot.name
  <2>1. orchestras' = [orchestras EXCEPT ![call[c].name] = call[c].config]
        /\ UNCHANGED snapshot
    BY <1>3 DEF CommitUpdate, Store, KeepSnapshot
  <2>2. activeName \in Names /\ snapshot.name = activeName
        /\ orchestras \in [Names -> Configs \cup {NoConfig}]
    BY <1>1 DEF IInv, Inv, TypeOK, NameAndPolicyFollow
  <2>3. MemoryKept
    BY <1>1, <1>3, <2>1, <2>2 DEF MemoryKept
  <2> QED
    BY <1>1, <2>3, KeptStep
<1> QED
  BY <1>2, <1>3

\* An activation separates the two only if it was overtaken.
LEMMA CommitActivateStrays ==
    ASSUME IInv, NEW c \in Calls, CommitActivate(c), Strayed'
    PROVE  Overtaken(c)
BY DEF CommitActivate, ApplySnapshot, Strayed, Overtaken

\* Of all steps only the end of an overtaken activation separates memory and
\* database, and what is apart is together after whatever changes it.
LEMMA StraysStep ==
    ASSUME IInv, [Next]_vars, Strayed'
    PROVE  \/ Strayed /\ MemoryKept
           \/ \E c \in Calls : CommitActivate(c) /\ Overtaken(c)
<1> DEFINE Goal == Strayed /\ MemoryKept
<1>1. ASSUME NEW c \in Calls, NEW n \in Names, NEW cfg \in Configs,
             Create(c, n, cfg) \/ Update(c, n, cfg)
      PROVE  Goal
  BY <1>1, BeginKeeps, KeptStep DEF Update
<1>2. ASSUME NEW c \in Calls, NEW n \in Names, NEW part \in Parts, NEW cfg \in Configs,
             PoolSet(c, n, part, cfg)
      PROVE  Goal
  BY <1>2, BeginKeeps, KeptStep DEF PoolSet
<1>3. ASSUME UNCHANGED <<snapshot, activeName, orchestras, up>> PROVE Goal
  BY <1>3, KeptStep DEF MemoryKept
<1>4. ASSUME NEW c \in Calls, CommitReload(c) PROVE Goal
  BY <1>4, AppliedStep DEF CommitReload
<1>5. ASSUME Start PROVE Goal
  BY <1>5, AppliedStep DEF Start
<1>6. ASSUME Stop PROVE Goal
  BY <1>6 DEF Stop, Strayed
<1>7. ASSUME NEW c \in Calls, CommitActivate(c) PROVE Overtaken(c)
  BY <1>7, CommitActivateStrays
<1>8. ASSUME NEW c \in Calls, CommitUpdate(c) PROVE Goal
  BY <1>8, CommitUpdateTogether
<1>9. ASSUME \/ \E c \in Calls :
                   \/ \E n \in Names : Activate(c, n)
                   \/ Reload(c)
                   \/ \E offer \in Offers : InventoryAnswers(c, offer)
                   \/ InventoryFails(c)
             \/ \E p \in Policies : SetPreferences(p) \/ SetPolicyOnly(p) \/ SetPreferencesOnly(p)
             \/ RegistryTool
             \/ \E b \in Bindings : TaskMeasured(b)
             \/ \E cfg \in Configs : EditPoolFile(cfg)
             \/ UNCHANGED vars
      PROVE  Goal
  <2>1. UNCHANGED <<snapshot, activeName, orchestras, up>>
    BY <1>9 DEF Activate, Reload, InventoryAnswers, InventoryFails, SetPreferences, SetPolicyOnly,
         SetPreferencesOnly, SaveSetting, RegistryTool, TaskMeasured, EditPoolFile, vars,
         controlVars
  <2> QED
    BY <1>3, <2>1
<1> HIDE DEF Goal
<1>10. Goal \/ \E c \in Calls : CommitActivate(c) /\ Overtaken(c)
  BY <1>1, <1>2, <1>4, <1>5, <1>6, <1>7, <1>8, <1>9 DEF Next
<1> QED
  BY <1>10 DEF Goal

\* The configuration in memory leaves the stored one by an overtaken activation
\* only, and whatever next changes either of the two brings them together.
THEOREM OnlyOvertakenActivationStrays == Spec => StraysOnlyIfOvertaken
<1> DEFINE Allowed ==
       Strayed' =>
          \/ /\ Strayed
             /\ UNCHANGED <<snapshot, activeName>>
             /\ orchestras'[activeName] = orchestras[activeName]
          \/ \E c \in Calls : CommitActivate(c) /\ Overtaken(c)
<1>1. Spec => []IInv
  BY InitStep, NextStep, PTL DEF Spec
<1>2. IInv /\ [Next]_vars => [Allowed]_vars
  BY StraysStep DEF MemoryKept
<1> QED
  BY <1>1, <1>2, PTL DEF Spec, StraysOnlyIfOvertaken

\* What replaces the stored go is a configuration this process has checked against
\* the inventory: an update is refused for go, a reload stores what it checked and
\* not what the pool file has become.
LEMMA GoStep ==
    ASSUME IInv, [Next]_vars, orchestras[Go] # NoConfig, orchestras'[Go] # orchestras[Go]
    PROVE  orchestras'[Go] \in checked
<1> USE DEF IInv, Inv
<1>1. orchestras \in [Names -> Configs \cup {NoConfig}] /\ Go \in Names
  BY OrchestrasAssumption DEF TypeOK
<1>2. orchestras' # orchestras
  OBVIOUS
<1>3. ASSUME NEW c \in Calls, NEW n \in Names, NEW cfg \in Configs, Create(c, n, cfg)
      PROVE  FALSE
  BY <1>1, <1>3 DEF Create, Store
<1>4. ASSUME NEW c \in Calls, NEW op, NEW n \in Names, NEW part, NEW cfg,
             BeginUpdate(c, op, n, part, cfg)
      PROVE  FALSE
  BY <1>1, <1>4 DEF BeginUpdate, Store
<1>5. ASSUME NEW c \in Calls, CommitUpdate(c) PROVE FALSE
  BY <1>1, <1>5 DEF CommitUpdate, Store, CallsAreGuarded
<1>6. ASSUME NEW c \in Calls, CommitReload(c) PROVE orchestras'[Go] \in checked
  BY <1>1, <1>6 DEF CommitReload, CallsAreGuarded
<1>7. ASSUME Start PROVE FALSE
  BY <1>1, <1>7 DEF Start, ActiveExists
<1>8. ASSUME NEW c \in Calls, NEW n \in Names, NEW cfg \in Configs,
             Update(c, n, cfg) \/ \E part \in Parts : PoolSet(c, n, part, cfg)
      PROVE  FALSE
  BY <1>4, <1>8 DEF Update, PoolSet
<1>9. ASSUME UNCHANGED orchestras PROVE FALSE
  BY <1>2, <1>9
<1> QED
  BY <1>3, <1>5, <1>6, <1>7, <1>8, <1>9
     DEF Next, vars, controlVars, Activate, Reload, InventoryAnswers, InventoryFails,
         CommitActivate, SetPreferences, SetPolicyOnly, SetPreferencesOnly, SaveSetting,
         RegistryTool, TaskMeasured, EditPoolFile, Stop

\* What is saved as go after its first start has been checked.
THEOREM SavedGoWasChecked == Spec => GoIsChecked
<1>1. Spec => []IInv
  BY InitStep, NextStep, PTL DEF Spec
<1>2. IInv /\ [Next]_vars =>
        [orchestras[Go] # NoConfig /\ orchestras'[Go] # orchestras[Go]
           => orchestras'[Go] \in checked]_vars
  BY GoStep
<1> QED
  BY <1>1, <1>2, PTL DEF Spec, GoIsChecked

\* A step other than the operator's tool keeps every row, and scores are only
\* replaced by measurements: the seeds are written before there is any score.
LEMMA LearnedStep ==
    ASSUME IInv, Next, ~RegistryTool
    PROVE  /\ Keeps(registry, registry')
           /\ \A b \in Bindings :
                evaluations[b] # "none" => evaluations'[b] \in {"measured", evaluations[b]}
<1> USE DEF IInv, Inv
<1> DEFINE Goal == /\ Keeps(registry, registry')
                   /\ \A b \in Bindings :
                        evaluations[b] # "none" => evaluations'[b] \in {"measured", evaluations[b]}
<1>1. registry \in Tables /\ Keeps(registry, registry)
  BY DEF TypeOK, RegistryTypeOK, Tables, Keeps
<1>2. ASSUME NEW listed, WriteFacts(SeedFacts(registry, listed)) PROVE Goal
  BY <1>1, <1>2, SeedKeeps DEF WriteFacts
<1>3. ASSUME UNCHANGED registryVars PROVE Goal
  BY <1>1, <1>3 DEF registryVars
<1>4. ASSUME NEW c \in Calls, NEW offer, InventoryAnswers(c, offer) PROVE Goal
  BY <1>1, <1>4, FillKeeps DEF InventoryAnswers
<1>5. ASSUME NEW b \in Bindings, TaskMeasured(b) PROVE Goal
  <2>1. RecordEvaluation(b)
    BY <1>5 DEF TaskMeasured
  <2>2. Keeps(registry, registry')
    BY <1>1, <2>1, RegisterKeeps DEF RecordEvaluation
  <2> QED
    BY <2>1, <2>2 DEF RecordEvaluation, TypeOK, RegistryTypeOK
<1>6. ASSUME Start PROVE Goal
  <2>1. OpenDatabase(Listed(orchestras'[activeName]))
    BY <1>6 DEF Start
  <2>2. Keeps(registry, registry')
    BY <1>1, <2>1, OpenKeeps
  <2> QED
    BY <2>1, <2>2 DEF OpenDatabase, SeededFirst
<1>7. ASSUME NEW c \in Calls, NEW n \in Names, NEW cfg \in Configs,
             Create(c, n, cfg) \/ Update(c, n, cfg) \/ \E part \in Parts : PoolSet(c, n, part, cfg)
      PROVE  Goal
  <2>1. (\E listed : WriteFacts(SeedFacts(registry, listed))) \/ UNCHANGED registryVars
    BY <1>7 DEF Create, Update, PoolSet, BeginUpdate, Store
  <2> QED
    BY <2>1, <1>2, <1>3
<1>8. ASSUME NEW c \in Calls, CommitUpdate(c) \/ CommitReload(c) PROVE Goal
  BY <1>2, <1>8 DEF CommitUpdate, CommitReload, Store
<1>9. ASSUME NEW c \in Calls,
             \/ \E n \in Names : Activate(c, n)
             \/ Reload(c) \/ InventoryFails(c) \/ CommitActivate(c)
      PROVE  Goal
  BY <1>3, <1>9 DEF Activate, Reload, InventoryFails, CommitActivate
<1>10. ASSUME \/ \E p \in Policies : SetPreferences(p) \/ SetPolicyOnly(p) \/ SetPreferencesOnly(p)
              \/ \E cfg \in Configs : EditPoolFile(cfg)
              \/ Stop
       PROVE  Goal
  BY <1>3, <1>10 DEF SetPreferences, SetPolicyOnly, SetPreferencesOnly, SaveSetting, EditPoolFile,
                     Stop
<1> HIDE DEF Goal
<1>11. Goal
  BY <1>4, <1>5, <1>6, <1>7, <1>8, <1>9, <1>10 DEF Next
<1> QED
  BY <1>11 DEF Goal

\* Nothing but an operator's registry tool takes back what is known of a model.
THEOREM KnowledgeIsKept == Spec => LearnedIsKept
<1> DEFINE Kept ==
       ~RegistryTool => \A b \in Bindings :
          /\ registry[b] # NoRow =>
                /\ registry'[b] # NoRow
                /\ registry'[b].status = registry[b].status
                /\ registry[b].price \in {"none", registry'[b].price}
          /\ evaluations[b] # "none" => evaluations'[b] \in {"measured", evaluations[b]}
<1>1. Spec => []IInv
  BY InitStep, NextStep, PTL DEF Spec
<1>2. IInv /\ [Next]_vars => [Kept]_vars
  BY LearnedStep DEF Keeps
<1> QED
  BY <1>1, <1>2, PTL DEF Spec, LearnedIsKept

===============================================================================
