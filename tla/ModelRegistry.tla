---- MODULE ModelRegistry ----
(***************************************************************************)
(* The facts, switches and scores that the system database keeps of every  *)
(* model binding (nla-system-database.mjs), and the writers that share     *)
(* them: the pool file and the saved orchestras seed a row, the inventory  *)
(* of OpenCode discovers models and fills missing facts, the operator      *)
(* imports facts and scores and turns models and providers off, and the    *)
(* runtime measures.  A fact is abstracted to where it comes from.         *)
(*                                                                         *)
(* Every writer is one SQLite transaction, so each is an operator from a   *)
(* table to a table or one action.  The module is extended by the one that *)
(* calls the writers (Orchestras).                                         *)
(***************************************************************************)
EXTENDS Naturals, FiniteSets

CONSTANTS
    Bindings,   \* exact provider/model names; each has a provider of its own
    Priced,     \* the bindings whose pools carry a price in model_facts
    Seeded,     \* the bindings the first-run evaluations have scores of
    NoRow       \* what stands for a row that does not exist

VARIABLES
    registry,     \* model_registry: a row of facts for each registered binding
    evaluations,  \* model_evaluations: where the scores of a binding come from
    providersOff, \* provider_registry: the bindings whose provider is turned off
    migrated      \* data_migrations: the first-run scores have been written

registryVars == <<registry, evaluations, providersOff, migrated>>

Statuses == {"enabled", "disabled"}

\* Where the price of a row comes from, "none" when facts_json has no price.
Prices == {"none", "configured", "discovered", "imported"}

\* "unset" stands for facts_json without a status, which reads as enabled.
Rows == [price : Prices, status : Statuses \cup {"unset"}, imported : BOOLEAN]

ASSUME RegistryAssumption ==
    /\ Priced \subseteq Bindings /\ Seeded \subseteq Bindings
    /\ NoRow \notin Rows

ScoreSources == {"none", "seed", "measured", "imported"}

RegistryTypeOK ==
    /\ registry \in [Bindings -> Rows \cup {NoRow}]
    /\ evaluations \in [Bindings -> ScoreSources]
    /\ providersOff \subseteq Bindings
    /\ migrated \in BOOLEAN

EmptyRow == [price |-> "none", status |-> "unset", imported |-> FALSE]

\* WHERE facts_json = '{}' AND source <> 'operator-import'
IsUnclaimed(row) == row = EmptyRow

\* listModelRegistry: a row's own status and that of its provider.
RowEnabled(rows, b) == rows[b] # NoRow /\ rows[b].status # "disabled"
ProviderEnabled(b) == b \notin providersOff

-----------------------------------------------------------------------------
(* The tables after each writer.                                           *)

\* A bug: the facts of the pools replace what the database knows.
SeedFactsAlways(rows, listed) ==
    [b \in Bindings |->
        IF b \in listed
        THEN [EmptyRow EXCEPT !.price = IF b \in Priced THEN "configured" ELSE "none"]
        ELSE rows[b]]

\* synchronizeConfiguredModelRegistry: first-run facts of the listed bindings.
SeedFacts(rows, listed) ==
    [b \in Bindings |->
        IF b \in listed /\ (rows[b] = NoRow \/ IsUnclaimed(rows[b]))
        THEN [EmptyRow EXCEPT !.price = IF b \in Priced THEN "configured" ELSE "none"]
        ELSE rows[b]]

\* synchronizeRuntimeModelFacts: rows for new models, missing facts for others.
FillFacts(rows, found) ==
    [b \in Bindings |->
        CASE b \notin found -> rows[b]
          [] b \in found /\ rows[b] = NoRow -> [EmptyRow EXCEPT !.price = "discovered"]
          [] b \in found /\ rows[b] # NoRow /\ rows[b].price = "none" ->
                [rows[b] EXCEPT !.price = "discovered"]
          [] OTHER -> rows[b]]

\* importModelRegistry: the facts are replaced, a status the import leaves out stays.
ImportedRow(row, price, status) ==
    [price |-> price, imported |-> TRUE,
     status |-> IF status = "unset" /\ row # NoRow THEN row.status ELSE status]

\* recordSystemEvaluation and registerBindings: a row without facts.
Register(rows, bindings) ==
    [b \in Bindings |-> IF b \in bindings /\ rows[b] = NoRow THEN EmptyRow ELSE rows[b]]

-----------------------------------------------------------------------------

\* A new installation: the database has not been created.
RegistryInit ==
    /\ registry = [b \in Bindings |-> NoRow]
    /\ evaluations = [b \in Bindings |-> "none"]
    /\ providersOff = {}
    /\ migrated = FALSE

WriteFacts(rows) == registry' = rows /\ UNCHANGED <<evaluations, providersOff, migrated>>

\* initializeSystemDatabase writes the scores of the seed file once; the facts of
\* the orchestra that is started with follow.
OpenDatabase(listed) ==
    /\ registry' = SeedFacts(IF migrated THEN registry ELSE Register(registry, Seeded), listed)
    /\ evaluations' = IF migrated THEN evaluations
                      ELSE [b \in Bindings |-> IF b \in Seeded THEN "seed" ELSE "none"]
    /\ migrated' = TRUE
    /\ UNCHANGED providersOff

\* setModelStatus
SetModelStatus(b, status) ==
    /\ registry[b] # NoRow
    /\ WriteFacts([registry EXCEPT ![b].status = status])

\* setProviderStatus: a provider is registered once one of its models is.
SetProviderStatus(b, status) ==
    /\ registry[b] # NoRow
    /\ providersOff' = IF status = "disabled" THEN providersOff \cup {b} ELSE providersOff \ {b}
    /\ UNCHANGED <<registry, evaluations, migrated>>

\* importModelRegistry with facts: with a price or none, a status or none.
ImportFacts(b, price, status) ==
    WriteFacts([registry EXCEPT ![b] = ImportedRow(registry[b], price, status)])

\* importModelRegistry with scores only: those present stay, unless told otherwise.
ImportScores(b, overwrite) ==
    /\ registry' = [Register(registry, {b}) EXCEPT ![b].imported = TRUE]
    /\ evaluations' = [evaluations EXCEPT ![b] =
                        IF @ = "none" \/ overwrite THEN "imported" ELSE @]
    /\ UNCHANGED <<providersOff, migrated>>

\* recordSystemEvaluation: the scores of a finished attempt or of a review.
RecordEvaluation(b) ==
    /\ evaluations' = [evaluations EXCEPT ![b] = "measured"]
    /\ registry' = Register(registry, {b})
    /\ UNCHANGED <<providersOff, migrated>>

====
