--------------------------- MODULE RoleTasks_proofs ---------------------------
(***************************************************************************)
(* Role tasks, for any number of calls, sessions, models and children.     *)
(* The bookkeeping the calls of a session share is proved to be what the   *)
(* calls under way make of it, in four parts that hold together: a utility *)
(* binding is in flight exactly when one call asks it; the counter of a    *)
(* session is the number of its calls that have a child; a Browser task is *)
(* under way as long as its call is; and what is kept for review is in the *)
(* order in which it was finished, which is why a result is never given up *)
(* too early.                                                              *)
(***************************************************************************)
EXTENDS RoleTasks, FiniteSetTheorems, SequenceTheorems, WellFoundedInduction, TLAPS

HealthMaps == [Bindings -> Entries]
RowMaps == [Bindings -> Rows]

\* A utility binding is in flight exactly when a call asks it, and one call only.
UtilityOK ==
    /\ HealthTypeOK
    /\ asked \in [Calls -> 0..Len(UtilityModels)]
    /\ \A c \in Calls : at[c] = "asking" <=> asked[c] # 0
    /\ \A c, d \in Calls : asked[c] # 0 /\ asked[c] = asked[d] => c = d
    /\ \A b \in Bindings :
          InFlight(health, b) <=> \E c \in Calls : asked[c] # 0 /\ Asked(c) = b

\* A repair that was tried is remembered as long as its row lasts.
RowsOK ==
    /\ taskArgumentFailures \in
          [Sessions -> [fault : Faults \cup {NoFault}, count : 0..RepairAfter,
                        recoveryTried : BOOLEAN]]
    /\ repairs \in [Sessions -> 0..1]
    /\ \A s \in Sessions : repairs[s] = 1 => taskArgumentFailures[s].recoveryTried

\* The calls of session s that have a child.
WithChild(s) == {c \in Calls : child[c] # NoChild /\ task[c].session = s}

CountsOK ==
    /\ activeChildren \in [Sessions -> Nat]
    /\ \A s \in Sessions :
          IsFiniteSet(WithChild(s)) /\ activeChildren[s] = Cardinality(WithChild(s))

\* What a call's place says of the call; its child is its own and has not answered.
CallOK(c) ==
    /\ at[c] = "idle" => task[c] = NoTask
    /\ at[c] # "idle" => task[c].session \in Sessions /\ task[c].role \in Roles
    /\ at[c] \in {"beginning", "finishing"} => task[c].role = "browser"
    /\ task[c].role = "browser" =>
          \E k \in BrowserTasks : <<task[c].session, k, c>> \in activeBrowserTasks
    /\ at[c] = "running" <=> child[c] # NoChild
    /\ child[c] # NoChild =>
          /\ parents[child[c]] = [session |-> task[c].session, role |-> task[c].role]
          /\ child[c] \notin Range(finished)

CallsType ==
    /\ started \in 0..MaxStarted
    /\ task \in [Calls -> [session : Sessions \cup {NoSession}, role : Roles \cup {"none"},
                           target : Children \cup {NoChild}]]
    /\ at \in [Calls -> Places]
    /\ child \in [Calls -> Children \cup {NoChild}]
    /\ aborted \in [Calls -> BOOLEAN]
    /\ activeBrowserTasks \subseteq Sessions \X BrowserTasks \X Calls
    /\ parents \in Seq([session : Sessions, role : Roles]) /\ Len(parents) <= MaxChildren

CallsOK ==
    /\ CallsType
    /\ \A c, d \in Calls : child[c] # NoChild /\ child[c] = child[d] => c = d
    /\ \A c \in Calls : CallOK(c)

\* The j-th of n results kept was finished no later than as if all after it were kept;
\* m have been finished.
Order(results, n, done, m) ==
    \A j \in 1..n : \E i \in 1..m : done[i] = results[j] /\ i <= m - n + j
InOrder(results, done) == Order(results, Len(results), done, Len(done))

\* The first n values of f, and that they are different ones.
Values(f, n) == {f[i] : i \in 1..n}
Distinct(f, n) == \A i, j \in 1..n : f[i] = f[j] => i = j

\* The p-th of the n values of old is left out of new; k comes after them in new.
LeavesOut(new, old, n, p) ==
    \A j \in 1..(n - 1) :
        (j < p => new[j] = old[j]) /\ (j >= p => new[j] = old[j + 1])
AddsLast(new, old, n, k) == (\A j \in 1..n : new[j] = old[j]) /\ new[n + 1] = k

\* Every child answers once, and what is no longer kept was scored or is old.
ResultsOK ==
    /\ finished \in Seq(Nat) /\ Range(finished) \subseteq Children /\ IsInjective(finished)
    /\ completedResults \in Seq(Nat) /\ IsInjective(completedResults)
    /\ Len(completedResults) <= ResultsKept
    /\ InOrder(completedResults, finished)
    /\ scores \in [1..MaxChildren -> Nat]
    /\ \A k \in 1..MaxChildren :
          scores[k] > 0 => k \in Range(finished) /\ k \notin Range(completedResults)
    /\ RecentResultsKept

IInv == UtilityOK /\ RowsOK /\ CountsOK /\ CallsOK /\ ResultsOK

-----------------------------------------------------------------------------
(* The operators.                                                          *)

\* A set of numbers that is not empty has a least one.
LEMMA MinExists ==
    ASSUME NEW S \in SUBSET Nat, S # {}
    PROVE  Min(S) \in S /\ \A x \in S : Min(S) <= x
<1> DEFINE R == OpToRel(<, Nat)
<1>1. IsWellFoundedOn(R, Nat)
  BY NatLessThanWellFounded
<1> HIDE DEF R
<1>2. PICK m \in S : \A y \in S : <<y, m>> \notin R
  BY <1>1, WFMin
<1>3. \A y \in S : ~(y < m)
  BY <1>2 DEF R, OpToRel
<1>4. m \in S /\ \A y \in S : m <= y
  BY <1>3
<1> QED
  BY <1>4 DEF Min

\* The lesser and the greater of two numbers.
LEMMA MinMaxOfTwo ==
    ASSUME NEW m \in Int, NEW n \in Int
    PROVE  /\ Min({m, n}) = IF m <= n THEN m ELSE n
           /\ Max({m, n}) = IF m >= n THEN m ELSE n
<1>1. \E x \in {m, n} : \A y \in {m, n} : x =< y
  OBVIOUS
<1>2. \E x \in {m, n} : \A y \in {m, n} : x >= y
  OBVIOUS
<1> QED
  BY <1>1, <1>2 DEF Min, Max

\* A failure leaves a well-formed table; the binding is in flight no longer, and is
\* available if the failure says nothing of the model.
LEMMA FailedEndsClaim ==
    ASSUME NEW h \in HealthMaps, NEW b \in Bindings,
           NEW category \in Categories, NEW retryAfter \in Nat
    PROVE  /\ Failed(h, b, category, retryAfter) \in HealthMaps
           /\ ~InFlight(Failed(h, b, category, retryAfter), b)
           /\ category = "non_provider" /\ InFlight(h, b) =>
                Failed(h, b, category, retryAfter)[b] = Available
           /\ \A c \in Bindings \ {b} :
                Failed(h, b, category, retryAfter)[c] = h[c]
<1> DEFINE new == Failed(h, b, category, retryAfter)
<1>1. CASE category = "transient"
  <2> DEFINE n == Larger(Cooldown, retryAfter)
  <2>1. n \in Nat
    BY CooldownAssumption DEF Larger
  <2>2. new = [h EXCEPT ![b] = CoolingFor(n)]
    BY <1>1 DEF Failed
  <2>3. CoolingFor(n) \in Entries /\ CoolingFor(n).state # "probe"
    BY <2>1 DEF CoolingFor, Entries, Available, Quarantined, Probe
  <2> QED
    BY <1>1, <2>2, <2>3 DEF HealthMaps, InFlight
<1>2. CASE category \in {"defective", "configuration"}
  <2>1. new = [h EXCEPT ![b] = Quarantined]
    BY <1>2 DEF Failed
  <2>2. Quarantined \in Entries /\ Quarantined.state # "probe"
    BY DEF Quarantined, Entries
  <2> QED
    BY <1>2, <2>1, <2>2 DEF HealthMaps, InFlight
<1>3. CASE category \notin {"transient", "defective", "configuration"}
  <2>1. new = Released(h, b)
    BY <1>3 DEF Failed
  <2>2. Available \in Entries /\ Available.state # "probe"
    BY DEF Available, Entries
  <2> QED
    BY <2>1, <2>2 DEF HealthMaps, InFlight, Released
<1> QED
  BY <1>1, <1>2, <1>3

-----------------------------------------------------------------------------
(* The utility bindings.                                                   *)

\* The claims of the table h are those of the calls other than c.
HeldByOthers(h, c) ==
    \A b \in Bindings :
        InFlight(h, b) <=> \E d \in Calls \ {c} : asked[d] # 0 /\ Asked(d) = b

\* The models of the pool are bindings, each there once.
LEMMA ModelsOK ==
    /\ \A j \in 1..Len(UtilityModels) : UtilityModels[j] \in Bindings
    /\ \A i, j \in 1..Len(UtilityModels) : UtilityModels[i] = UtilityModels[j] => i = j
    /\ Len(UtilityModels) \in Nat
BY UtilityAssumption DEF IsInjective

\* A step that changes neither the table nor who asks.
LEMMA UtilitySame ==
    ASSUME UtilityOK, UNCHANGED <<health, saved, asked>>,
           \A c \in Calls : at'[c] = "asking" <=> at[c] = "asking"
    PROVE  UtilityOK'
BY DEF UtilityOK, HealthTypeOK, Asked, InFlight

\* A call that has no claim in h goes on without one, or claims a model that is free.
LEMMA AskStep ==
    ASSUME UtilityOK, NEW c \in Calls, NEW h \in HealthMaps, HeldByOthers(h, c),
           saved' = saved,
           \A d \in Calls \ {c} : at'[d] = "asking" <=> at[d] = "asking",
           \/ health' = h /\ asked' = [asked EXCEPT ![c] = 0] /\ at'[c] # "asking"
           \/ \E j \in 1..Len(UtilityModels) :
                 /\ Eligible(h, UtilityModels[j])
                 /\ health' = Claimed(h, UtilityModels[j])
                 /\ asked' = [asked EXCEPT ![c] = j]
                 /\ at'[c] = "asking"
    PROVE  UtilityOK'
<1>1. CASE health' = h /\ asked' = [asked EXCEPT ![c] = 0] /\ at'[c] # "asking"
  <2>1. HealthTypeOK'
    BY <1>1 DEF UtilityOK, HealthTypeOK, HealthMaps
  <2>2. /\ asked' \in [Calls -> 0..Len(UtilityModels)] /\ asked'[c] = 0
        /\ \A d \in Calls \ {c} : asked'[d] = asked[d]
    BY <1>1, ModelsOK DEF UtilityOK
  <2>3. \A b \in Bindings :
          InFlight(health, b)' <=> \E d \in Calls : asked'[d] # 0 /\ Asked(d)' = b
    BY <1>1, <2>2 DEF HeldByOthers, Asked, InFlight
  <2> QED
    BY <1>1, <2>1, <2>2, <2>3 DEF UtilityOK
<1>2. ASSUME NEW j \in 1..Len(UtilityModels), Eligible(h, UtilityModels[j]),
             health' = Claimed(h, UtilityModels[j]),
             asked' = [asked EXCEPT ![c] = j], at'[c] = "asking"
      PROVE  UtilityOK'
  <2> DEFINE m == UtilityModels[j]
  <2>1. m \in Bindings /\ j # 0
    BY <1>2, ModelsOK
  <2>2. /\ asked' \in [Calls -> 0..Len(UtilityModels)] /\ asked'[c] = j
        /\ \A d \in Calls \ {c} : asked'[d] = asked[d]
    BY <1>2, ModelsOK DEF UtilityOK
  <2>3. /\ health' \in HealthMaps /\ InFlight(health, m)' /\ ~InFlight(h, m)
        /\ \A b \in Bindings \ {m} : health'[b] = h[b]
    BY <1>2, <2>1 DEF Claimed, HealthMaps, Entries, Probe, InFlight, Eligible
  <2>4. HealthTypeOK'
    BY <2>3 DEF UtilityOK, HealthTypeOK, HealthMaps
  <2>5. \A d \in Calls \ {c} : asked[d] # 0 => Asked(d) # m /\ asked[d] # j
    BY <2>1, <2>3 DEF HeldByOthers, Asked
  <2>6. \A d, e \in Calls : asked'[d] # 0 /\ asked'[d] = asked'[e] => d = e
    BY <2>1, <2>2, <2>5 DEF UtilityOK
  <2>7. ASSUME NEW b \in Bindings
        PROVE  InFlight(health, b)' <=> \E d \in Calls : asked'[d] # 0 /\ Asked(d)' = b
    <3>1. CASE b = m
      BY <2>1, <2>2, <2>3, <3>1 DEF Asked
    <3>2. CASE b # m
      <4>1. InFlight(health, b)' <=> InFlight(h, b)
        BY <2>3, <3>2 DEF InFlight
      <4> QED
        BY <2>2, <3>2, <4>1 DEF HeldByOthers, Asked
    <3> QED
      BY <3>1, <3>2
  <2> QED
    BY <1>2, <2>1, <2>2, <2>4, <2>6, <2>7 DEF UtilityOK
<1> QED
  BY <1>1, <1>2

\* When the claim of c ends, the claims left are those of the others.
LEMMA OthersKeepClaims ==
    ASSUME UtilityOK, NEW c \in Calls, asked[c] # 0, NEW h \in HealthMaps,
           ~InFlight(h, Asked(c)), \A b \in Bindings \ {Asked(c)} : h[b] = health[b]
    PROVE  HeldByOthers(h, c)
<1>1. \A d \in Calls \ {c} : asked[d] # 0 => Asked(d) # Asked(c)
  BY ModelsOK DEF UtilityOK, Asked
<1> QED
  BY <1>1 DEF UtilityOK, HeldByOthers, InFlight

\* A call that asks has claimed the model it asks.
LEMMA AskedIsClaimed ==
    ASSUME UtilityOK, NEW c \in Calls, at[c] = "asking"
    PROVE  /\ asked[c] \in 1..Len(UtilityModels) /\ Asked(c) \in Bindings
           /\ InFlight(health, Asked(c)) /\ health \in HealthMaps
<1>1. asked[c] \in 1..Len(UtilityModels)
  BY ModelsOK DEF UtilityOK
<1> QED
  BY <1>1, ModelsOK DEF UtilityOK, Asked, HealthTypeOK, HealthMaps

-----------------------------------------------------------------------------
(* The rows of refusals.                                                   *)

\* The row of the new refusal is well-formed, and remembers a repair of its own.
LEMMA RefusedOK ==
    ASSUME RowsOK, NEW s \in Sessions, NEW f \in Faults
    PROVE  /\ Refused(s, f) \in [fault : Faults \cup {NoFault}, count : 0..RepairAfter,
                                 recoveryTried : BOOLEAN]
           /\ RepairsOf(s, f) \in 0..1
           /\ RepairsOf(s, f) = 1 => Refused(s, f).recoveryTried
<1>1. RepairAfter \in Nat \ {0}
  BY ResultAssumption
<1>2. /\ Row(s, f) \in [fault : Faults \cup {NoFault}, count : 0..RepairAfter,
                        recoveryTried : BOOLEAN]
      /\ RepairsOf(s, f) \in 0..1
      /\ RepairsOf(s, f) = 1 => Row(s, f).recoveryTried
  <2>1. CASE taskArgumentFailures[s].fault = f
    BY <2>1 DEF RowsOK, Row, RepairsOf
  <2>2. CASE taskArgumentFailures[s].fault # f
    <3>1. Row(s, f) = [fault |-> f, count |-> 0, recoveryTried |-> FALSE]
      BY <2>2 DEF Row, NoRow
    <3>2. RepairsOf(s, f) = 0
      BY <2>2 DEF RepairsOf
    <3> QED
      BY <1>1, <3>1, <3>2
  <2> QED
    BY <2>1, <2>2
<1>3. Min({Row(s, f).count + 1, RepairAfter}) \in 0..RepairAfter
  <2>1. Row(s, f).count + 1 \in Int /\ Row(s, f).count + 1 >= 0
    BY <1>1, <1>2
  <2> QED
    BY <1>1, <2>1, MinMaxOfTwo
<1> QED
  BY <1>2, <1>3 DEF Refused

\* A refusal, with or without a repair, and the end of a row.
LEMMA RefusalStep ==
    ASSUME RowsOK, NEW s \in Sessions, NEW f \in Faults, NEW c \in Calls,
           Reject(s, c, f) \/ Repair(s, c, f)
    PROVE  RowsOK'
<1>1. CASE Reject(s, c, f)
  BY <1>1, RefusedOK DEF Reject, RowsOK
<1>2. CASE Repair(s, c, f)
  <2>1. ~Refused(s, f).recoveryTried
    BY <1>2 DEF Repair, NeedsRepair
  <2>2. RepairsOf(s, f) = 0
    BY <2>1, RefusedOK
  <2>3. /\ taskArgumentFailures' =
             [taskArgumentFailures EXCEPT ![s] = [Refused(s, f) EXCEPT !.recoveryTried = TRUE]]
        /\ \/ repairs' = [repairs EXCEPT ![s] = 1]
           \/ repairs' = [repairs EXCEPT ![s] = 0]
    BY <1>2, <2>2 DEF Repair
  <2>4. /\ [Refused(s, f) EXCEPT !.recoveryTried = TRUE] \in
              [fault : Faults \cup {NoFault}, count : 0..RepairAfter, recoveryTried : BOOLEAN]
        /\ [Refused(s, f) EXCEPT !.recoveryTried = TRUE].recoveryTried
    BY RefusedOK
  <2> HIDE DEF Refused
  <2> QED
    BY <2>3, <2>4 DEF RowsOK
<1> QED
  BY <1>1, <1>2

\* A step that has to do with no arguments.
LEMMA RowsSame ==
    ASSUME RowsOK, UNCHANGED rowVars
    PROVE  RowsOK'
BY DEF rowVars, RowsOK

\* Arguments that are accepted end the row of their session.
LEMMA ClearStep ==
    ASSUME RowsOK, NEW s \in Sessions, ClearRow(s)
    PROVE  RowsOK'
<1>1. NoRow \in [fault : Faults \cup {NoFault}, count : 0..RepairAfter,
                 recoveryTried : BOOLEAN]
  BY ResultAssumption DEF NoRow
<1> QED
  BY <1>1 DEF ClearRow, RowsOK

-----------------------------------------------------------------------------
(* The number of children.                                                 *)

\* A step that gives no call a child and takes none from it.
LEMMA CountsSame ==
    ASSUME CountsOK, UNCHANGED <<child, activeChildren>>,
           \A c \in Calls : child[c] # NoChild => task'[c].session = task[c].session
    PROVE  CountsOK'
<1>1. \A s : WithChild(s)' = WithChild(s)
  BY DEF WithChild
<1> QED
  BY <1>1 DEF CountsOK

\* A child is created for a call that had none.
LEMMA CountsAdded ==
    ASSUME CountsOK, NEW c \in Calls, child[c] = NoChild, task[c].session \in Sessions,
           child \in [Calls -> Nat], NEW k \in Nat, k # NoChild,
           child' = [child EXCEPT ![c] = k], task' = task,
           activeChildren' = [activeChildren EXCEPT ![task[c].session] =
                                                    activeChildren[task[c].session] + 1]
    PROVE  CountsOK'
<1>1. ASSUME NEW s \in Sessions
      PROVE  IsFiniteSet(WithChild(s)') /\ activeChildren'[s] = Cardinality(WithChild(s)')
  <2>1. CASE s = task[c].session
    <3>1. WithChild(s)' = WithChild(s) \cup {c} /\ c \notin WithChild(s)
      BY <2>1 DEF WithChild
    <3> QED
      BY <2>1, <3>1, FS_AddElement DEF CountsOK
  <2>2. CASE s # task[c].session
    <3>1. WithChild(s)' = WithChild(s)
      BY <2>2 DEF WithChild
    <3> QED
      BY <2>2, <3>1 DEF CountsOK
  <2> QED
    BY <2>1, <2>2
<1> QED
  BY <1>1 DEF CountsOK

\* A pooled task is over: what its call had is subtracted, once.
LEMMA CountsRemoved ==
    ASSUME CountsOK, NEW c \in Calls, child \in [Calls -> Nat],
           child[c] # NoChild => task[c].session \in Sessions,
           Uncounted(c), child' = [child EXCEPT ![c] = NoChild],
           \A d \in Calls \ {c} : task'[d] = task[d]
    PROVE  CountsOK'
<1>1. ASSUME NEW s \in Sessions
      PROVE  WithChild(s)' = WithChild(s) \ {c}
  BY DEF WithChild
<1>2. CASE child[c] = NoChild
  <2>1. \A s \in Sessions : WithChild(s)' = WithChild(s)
    BY <1>1, <1>2 DEF WithChild
  <2> QED
    BY <1>2, <2>1 DEF CountsOK, Uncounted
<1>3. CASE child[c] # NoChild
  <2>0. PICK own \in Sessions : own = task[c].session
    BY <1>3
  <2>1. /\ c \in WithChild(own)
        /\ \A s \in Sessions \ {own} : c \notin WithChild(s)
    BY <1>3, <2>0 DEF WithChild
  <2>2. /\ IsFiniteSet(WithChild(own)')
        /\ Cardinality(WithChild(own)') = Cardinality(WithChild(own)) - 1
        /\ Cardinality(WithChild(own)') \in Nat
    BY <1>1, <2>1, FS_RemoveElement, FS_CardinalityType DEF CountsOK
  <2>3. Max({0, activeChildren[own] - 1}) = Cardinality(WithChild(own)')
    BY <2>1, <2>2, MinMaxOfTwo, SMTT(30) DEF CountsOK
  <2>4. activeChildren' = [activeChildren EXCEPT ![own] = Cardinality(WithChild(own)')]
    BY <1>3, <2>0, <2>3 DEF Uncounted
  <2>5. ASSUME NEW s \in Sessions, s # own
        PROVE  WithChild(s)' = WithChild(s)
    BY <1>1, <2>1, <2>5
  <2> QED
    BY <2>1, <2>2, <2>4, <2>5 DEF CountsOK
<1> QED
  BY <1>2, <1>3

-----------------------------------------------------------------------------
(* The results kept for review.                                            *)

\* A step that finishes nothing.
LEMMA ResultsSame ==
    ASSUME ResultsOK, UNCHANGED resultVars, parents \in Seq([session : Sessions, role : Roles]),
           Len(parents') \in Nat, Len(parents') >= Len(parents)
    PROVE  ResultsOK'
<1>1. Children \subseteq Children'
  BY DEF Children
<1> QED
  BY <1>1 DEF ResultsOK, resultVars, RecentResultsKept, InOrder

\* One of n different values is left out: the others keep their order, and those before
\* it have become no older for what is kept.
LEMMA LeftOut ==
    ASSUME NEW n \in Nat, NEW m \in Nat, NEW p \in 1..n, NEW old, NEW new, NEW done,
           LeavesOut(new, old, n, p), Distinct(old, n), Order(old, n, done, m)
    PROVE  /\ Distinct(new, n - 1) /\ Order(new, n - 1, done, m)
           /\ Values(new, n - 1) = Values(old, n) \ {old[p]}
<1>1. ASSUME NEW j \in 1..(n - 1)
      PROVE  \E i \in 1..n \ {p} : new[j] = old[i] /\ i >= j /\ i <= j + 1
                                   /\ (j < p => i = j) /\ (j >= p => i = j + 1)
  <2>1. CASE j < p
    <3>1. j \in 1..n \ {p} /\ new[j] = old[j]
      BY <2>1 DEF LeavesOut
    <3> QED
      BY <2>1, <3>1
  <2>2. CASE j >= p
    <3>1. j + 1 \in 1..n \ {p} /\ new[j] = old[j + 1]
      BY <2>2 DEF LeavesOut
    <3> QED
      BY <2>2, <3>1
  <2> QED
    BY <2>1, <2>2
<1>2. ASSUME NEW i \in 1..n \ {p} PROVE \E j \in 1..(n - 1) : new[j] = old[i]
  <2>1. CASE i < p
    <3>1. i \in 1..(n - 1) /\ new[i] = old[i]
      BY <2>1 DEF LeavesOut
    <3> QED
      BY <3>1
  <2>2. CASE i > p
    <3>1. (i - 1) \in 1..(n - 1) /\ new[i - 1] = old[(i - 1) + 1]
      BY <2>2 DEF LeavesOut
    <3> QED
      BY <3>1
  <2> QED
    BY <2>1, <2>2
<1>3. ASSUME NEW i \in 1..(n - 1), NEW j \in 1..(n - 1), new[i] = new[j] PROVE i = j
  <2>1. PICK a \in 1..n : new[i] = old[a] /\ (i < p => a = i) /\ (i >= p => a = i + 1)
    BY <1>1
  <2>2. PICK b \in 1..n : new[j] = old[b] /\ (j < p => b = j) /\ (j >= p => b = j + 1)
    BY <1>1
  <2>3. a = b
    BY <1>3, <2>1, <2>2 DEF Distinct
  <2> QED
    BY <2>1, <2>2, <2>3
<1>4. Values(new, n - 1) = Values(old, n) \ {old[p]}
  <2>1. \A i \in 1..n : old[i] = old[p] <=> i = p
    BY DEF Distinct
  <2>2. \A j \in 1..(n - 1) : \E i \in 1..n \ {p} : new[j] = old[i]
    BY <1>1
  <2>3. ASSUME NEW x \in Values(new, n - 1) PROVE x \in Values(old, n) \ {old[p]}
    <3>1. PICK j \in 1..(n - 1) : x = new[j]
      BY DEF Values
    <3>2. PICK i \in 1..n \ {p} : x = old[i]
      BY <2>2, <3>1
    <3> QED
      BY <2>1, <3>2 DEF Values
  <2>4. ASSUME NEW x \in Values(old, n) \ {old[p]} PROVE x \in Values(new, n - 1)
    <3>1. PICK i \in 1..n : x = old[i]
      BY DEF Values
    <3>2. PICK j \in 1..(n - 1) : x = new[j]
      BY <1>2, <2>4, <3>1
    <3> QED
      BY <3>2 DEF Values
  <2> QED
    BY <2>3, <2>4
<1>5. ASSUME NEW j \in 1..(n - 1)
      PROVE  \E i \in 1..m : done[i] = new[j] /\ i <= m - (n - 1) + j
  <2>1. PICK a \in 1..n : new[j] = old[a] /\ a <= j + 1
    BY <1>1
  <2>2. PICK i \in 1..m : done[i] = old[a] /\ i <= m - n + a
    BY DEF Order
  <2> QED
    BY <2>1, <2>2
<1> QED
  BY <1>3, <1>4, <1>5 DEF Distinct, Order

\* A new value comes last, in what is kept and in what was finished.
LEMMA CameLast ==
    ASSUME NEW n \in Nat, NEW m \in Nat, NEW old, NEW all, NEW done, NEW later, NEW k,
           AddsLast(all, old, n, k), AddsLast(later, done, m, k),
           k \notin Values(done, m), Distinct(old, n), Order(old, n, done, m)
    PROVE  /\ Distinct(all, n + 1) /\ Order(all, n + 1, later, m + 1)
           /\ Values(all, n + 1) = Values(old, n) \cup {k}
<1>1. \A j \in 1..(n + 1) : j \in 1..n \/ j = n + 1
  OBVIOUS
<1>2. n + 1 \in 1..(n + 1) /\ \A j \in 1..n : j \in 1..(n + 1)
  OBVIOUS
<1> USE DEF AddsLast
<1>3. \A j \in 1..n : old[j] # k
  BY DEF Order, Values
<1>4. \A i, j \in 1..(n + 1) : all[i] = all[j] => i = j
  BY <1>1, <1>3 DEF Distinct
<1>5. Values(all, n + 1) = Values(old, n) \cup {k}
  BY <1>1, <1>2 DEF Values
<1>6. ASSUME NEW j \in 1..(n + 1)
      PROVE  \E i \in 1..(m + 1) : later[i] = all[j] /\ i <= (m + 1) - (n + 1) + j
  <2>1. CASE j = n + 1
    <3>1. m + 1 \in 1..(m + 1) /\ later[m + 1] = all[j] /\ m + 1 <= (m + 1) - (n + 1) + j
      BY <2>1
    <3> QED
      BY <3>1
  <2>2. CASE j \in 1..n
    <3>1. PICK i \in 1..m : done[i] = old[j] /\ i <= m - n + j
      BY <2>2 DEF Order
    <3>2. i \in 1..(m + 1) /\ later[i] = all[j]
      BY <2>2, <3>1
    <3> QED
      BY <3>1, <3>2
  <2> QED
    BY <1>1, <2>1, <2>2
<1> QED
  BY <1>4, <1>5, <1>6 DEF Distinct, Order

\* What the two lemmas need of a sequence, and what their conclusions say of one.
LEMMA SeqParts ==
    ASSUME NEW S, NEW s \in Seq(S)
    PROVE  /\ Len(s) \in Nat /\ DOMAIN s = 1..Len(s)
           /\ Range(s) = Values(s, Len(s))
           /\ IsInjective(s) <=> Distinct(s, Len(s))
<1>1. Len(s) \in Nat /\ DOMAIN s = 1..Len(s)
  OBVIOUS
<1> QED
  BY <1>1 DEF Range, IsInjective, Values, Distinct

\* A verdict takes its target out of the results and leaves the others in order.
LEMMA ScoredEffect ==
    ASSUME NEW results \in Seq(Nat), IsInjective(results), NEW t,
           t.target \in Range(results), NEW done \in Seq(Nat), InOrder(results, done)
    PROVE  /\ Scored(results, t) \in Seq(Nat) /\ IsInjective(Scored(results, t))
           /\ Len(Scored(results, t)) = Len(results) - 1
           /\ Range(Scored(results, t)) = Range(results) \ {t.target}
           /\ InOrder(Scored(results, t), done)
<1>1. PICK n \in Nat : n = Len(results)
  OBVIOUS
<1>2. PICK p \in 1..n : /\ p = CHOOSE i \in DOMAIN results : results[i] = t.target
                        /\ results[p] = t.target
  <2>1. \E i \in DOMAIN results : results[i] = t.target
    BY DEF Range
  <2> QED
    BY <1>1, <2>1
<1>3. PICK new : new = Scored(results, t)
  OBVIOUS
<1>4. PICK left : left = SubSeq(results, 1, p - 1)
  OBVIOUS
<1>5. PICK right : right = SubSeq(results, p + 1, n)
  OBVIOUS
<1>6. /\ left \in Seq(Nat) /\ Len(left) = p - 1
      /\ \A j \in 1..(p - 1) : left[j] = results[j]
  BY <1>1, <1>4
<1>7. /\ right \in Seq(Nat) /\ Len(right) = n - p
      /\ \A j \in 1..(n - p) : right[j] = results[p + j]
  BY <1>1, <1>5
<1>8. new = left \o right
  BY <1>1, <1>2, <1>3, <1>4, <1>5 DEF Scored, RemoveAt
<1>9. /\ new \in Seq(Nat) /\ Len(new) = Len(left) + Len(right)
      /\ \A j \in 1..(Len(left) + Len(right)) :
           new[j] = IF j <= Len(left) THEN left[j] ELSE right[j - Len(left)]
  <2>1. left \in Seq(Nat) /\ right \in Seq(Nat)
    BY <1>6, <1>7
  <2> QED
    BY <1>8, <2>1, ConcatProperties
<1>10. ASSUME NEW j \in 1..(n - 1)
       PROVE  (j < p => new[j] = results[j]) /\ (j >= p => new[j] = results[j + 1])
  <2>0. j \in 1..(Len(left) + Len(right)) /\ Len(left) = p - 1
    BY <1>6, <1>7
  <2>1. CASE j < p
    <3>1. j \in 1..(p - 1) /\ j <= p - 1
      BY <2>1
    <3>2. new[j] = left[j]
      BY <1>9, <2>0, <3>1
    <3> QED
      BY <1>6, <2>1, <3>1, <3>2
  <2>2. CASE j >= p
    <3>1. j - (p - 1) \in 1..(n - p) /\ ~(j <= p - 1) /\ p + (j - (p - 1)) = j + 1
      BY <2>2
    <3>2. new[j] = right[j - (p - 1)]
      BY <1>9, <2>0, <3>1
    <3> QED
      BY <1>7, <2>2, <3>1, <3>2
  <2> QED
    BY <2>1, <2>2
<1>11. PICK m \in Nat : m = Len(done)
  OBVIOUS
<1>12. Distinct(results, n) /\ Order(results, n, done, m)
  BY <1>1, <1>11, SeqParts DEF InOrder
<1>13. /\ Distinct(new, n - 1) /\ Order(new, n - 1, done, m)
       /\ Values(new, n - 1) = Values(results, n) \ {results[p]}
  <2>1. LeavesOut(new, results, n, p)
    BY <1>10 DEF LeavesOut
  <2> QED
    BY <1>12, <2>1, LeftOut
<1>14. Len(new) = n - 1
  BY <1>6, <1>7, <1>9
<1>15. IsInjective(new) /\ InOrder(new, done) /\ Range(new) = Range(results) \ {results[p]}
  BY <1>1, <1>9, <1>11, <1>13, <1>14, SeqParts DEF InOrder
<1> QED
  BY <1>1, <1>2, <1>3, <1>9, <1>14, <1>15

\* A new result is kept, and what gives way to it was finished long before.
LEMMA RememberedEffect ==
    ASSUME NEW results \in Seq(Nat), IsInjective(results), Len(results) <= ResultsKept,
           NEW done \in Seq(Nat), InOrder(results, done), NEW k \in Nat, k \notin Range(done)
    PROVE  /\ Remembered(results, k) \in Seq(Nat) /\ IsInjective(Remembered(results, k))
           /\ Len(Remembered(results, k)) <= ResultsKept
           /\ InOrder(Remembered(results, k), Append(done, k))
           /\ k \in Range(Remembered(results, k))
           /\ Range(Remembered(results, k)) \subseteq Range(results) \cup {k}
           /\ \A x \in Range(results) :
                \/ x \in Range(Remembered(results, k))
                \/ \E i \in 1..Len(done) : done[i] = x /\ i <= Len(done) + 1 - ResultsKept
<1>1. PICK n \in Nat : n = Len(results)
  OBVIOUS
<1>2. PICK m \in Nat : m = Len(done)
  OBVIOUS
<1>3. PICK all : all = Append(results, k)
  OBVIOUS
<1>4. PICK later : later = Append(done, k)
  OBVIOUS
<1>5. /\ all \in Seq(Nat) /\ Len(all) = n + 1
      /\ \A j \in 1..n : all[j] = results[j]
      /\ all[n + 1] = k
  BY <1>1, <1>3
<1>6. /\ later \in Seq(Nat) /\ Len(later) = m + 1
      /\ \A j \in 1..m : later[j] = done[j]
      /\ later[m + 1] = k
  BY <1>2, <1>4
<1>7. /\ Distinct(results, n) /\ Order(results, n, done, m)
      /\ Range(results) = Values(results, n) /\ Range(done) = Values(done, m)
  BY <1>1, <1>2, SeqParts DEF InOrder
<1>8. AddsLast(all, results, n, k) /\ AddsLast(later, done, m, k)
  BY <1>5, <1>6 DEF AddsLast
<1>9. /\ Distinct(all, n + 1) /\ Order(all, n + 1, later, m + 1)
      /\ Values(all, n + 1) = Range(results) \cup {k}
  BY <1>7, <1>8, CameLast, SMTT(30)
<1>10. ResultsKept \in Nat \ {0} /\ n <= ResultsKept
  BY <1>1, ResultAssumption
<1>11. CASE n + 1 <= ResultsKept
  <2>1. Remembered(results, k) = all
    BY <1>3, <1>5, <1>11 DEF Remembered
  <2>2. IsInjective(all) /\ InOrder(all, later) /\ Range(all) = Range(results) \cup {k}
    BY <1>5, <1>6, <1>9, SeqParts DEF InOrder
  <2> QED
    BY <1>4, <1>5, <1>11, <2>1, <2>2
<1>12. CASE n = ResultsKept
  <2>1. PICK new : new = Tail(all)
    OBVIOUS
  <2>2. Remembered(results, k) = new
    BY <1>3, <1>5, <1>10, <1>12, <2>1 DEF Remembered
  <2>3. new \in Seq(Nat) /\ Len(new) = n /\ \A j \in 1..n : new[j] = all[j + 1]
    BY <1>5, <2>1
  <2>4. PICK n1 \in Nat : n1 = n + 1 /\ n1 - 1 = n /\ 1 \in 1..n1
    OBVIOUS
  <2>5. PICK m1 \in Nat : m1 = m + 1
    OBVIOUS
  <2>6. /\ Distinct(new, n) /\ Order(new, n, later, m1)
        /\ Values(new, n) = Values(all, n1) \ {all[1]}
    <3>1. LeavesOut(new, all, n1, 1)
      BY <2>3, <2>4 DEF LeavesOut
    <3>2. Distinct(all, n1) /\ Order(all, n1, later, m1)
      BY <1>9, <2>4, <2>5
    <3>3. /\ Distinct(new, n1 - 1) /\ Order(new, n1 - 1, later, m1)
          /\ Values(new, n1 - 1) = Values(all, n1) \ {all[1]}
      BY <2>4, <3>1, <3>2, LeftOut
    <3> QED
      BY <2>4, <3>3
  <2>7. /\ IsInjective(new) /\ InOrder(new, later)
        /\ Range(new) = (Range(results) \cup {k}) \ {all[1]}
    BY <1>6, <1>9, <2>3, <2>4, <2>5, <2>6, SeqParts DEF InOrder
  <2>8. all[1] = results[1] /\ 1 \in 1..n
    BY <1>5, <1>10, <1>12
  <2>9. \E i \in 1..m : done[i] = results[1] /\ i <= m - n + 1
    BY <1>7, <2>8 DEF Order
  <2>10. k # results[1] /\ m - n + 1 = m + 1 - ResultsKept
    BY <1>7, <1>10, <1>12, <2>9 DEF Values
  <2>11. \A x \in Range(results) : x \in Range(new) \/ x = results[1]
    BY <2>7, <2>8
  <2>12. k \in Range(new) /\ Range(new) \subseteq Range(results) \cup {k}
    BY <2>7, <2>8, <2>10
  <2>13. Len(new) <= ResultsKept
    BY <1>10, <1>12, <2>3
  <2> HIDE <1>12
  <2> QED
    BY <1>2, <1>4, <2>2, <2>3, <2>7, <2>9, <2>10, <2>11, <2>12, <2>13
<1> QED
  BY <1>10, <1>11, <1>12

\* A child answers; kept are the results without the target of its verdict.
LEMMA AnswerKept ==
    ASSUME ResultsOK, CallsType, NEW k \in Children, k \notin Range(finished),
           finished' = Append(finished, k), parents' = parents,
           NEW kept \in Seq(Nat), IsInjective(kept), Len(kept) <= ResultsKept,
           InOrder(kept, finished), completedResults' = Remembered(kept, k),
           scores' \in [1..MaxChildren -> Nat],
           \A x \in 1..MaxChildren :
              scores'[x] > 0 => x \in Range(finished) /\ x \notin Range(kept),
           \A i \in DOMAIN finished :
              i > Len(finished) - ResultsKept =>
                 finished[i] \in Range(kept) \/ scores'[finished[i]] > 0
    PROVE  ResultsOK'
<1>1. /\ finished \in Seq(Nat) /\ IsInjective(finished) /\ ResultsKept \in Nat /\ k \in Nat
      /\ Range(finished) \subseteq Children
  BY ResultAssumption DEF ResultsOK, Children
<1>2. PICK n \in Nat : n = Len(finished) /\ DOMAIN finished = 1..n
  BY <1>1
<1>3. PICK later : later = Append(finished, k)
  OBVIOUS
<1>4. /\ later \in Seq(Nat) /\ Len(later) = n + 1 /\ DOMAIN later = 1..(n + 1)
      /\ \A i \in 1..n : later[i] = finished[i]
      /\ later[n + 1] = k
  BY <1>1, <1>2, <1>3
<1>5. Distinct(finished, n) /\ Range(finished) = Values(finished, n)
  BY <1>1, <1>2, SeqParts
<1>6. AddsLast(later, finished, n, k)
  BY <1>4 DEF AddsLast
<1>7. \A i \in 1..(n + 1) : i \in 1..n \/ i = n + 1
  OBVIOUS
<1>8. Range(later) = Range(finished) \cup {k} /\ IsInjective(later)
  <2>1. Order(finished, n, finished, n)
    BY DEF Order
  <2>2. Distinct(later, n + 1) /\ Values(later, n + 1) = Values(finished, n) \cup {k}
    BY <1>4, <1>5, <1>6, <2>1, CameLast
  <2> QED
    BY <1>4, <1>5, <2>2, SeqParts
<1>9. Range(finished) \subseteq Range(later) /\ Range(later) \subseteq Children
  BY <1>1, <1>8
<1>10. PICK new : new = Remembered(kept, k)
  OBVIOUS
<1>11. /\ new \in Seq(Nat) /\ IsInjective(new) /\ Len(new) <= ResultsKept
       /\ InOrder(new, later) /\ k \in Range(new) /\ Range(new) \subseteq Range(kept) \cup {k}
       /\ \A x \in Range(kept) :
             x \in Range(new) \/ \E i \in 1..n : finished[i] = x /\ i <= n + 1 - ResultsKept
  BY <1>1, <1>2, <1>3, <1>10, RememberedEffect
<1>12. ASSUME NEW i \in 1..(n + 1), i > n + 1 - ResultsKept
       PROVE  later[i] \in Range(new) \/ scores'[later[i]] > 0
  <2>1. CASE i = n + 1
    BY <1>4, <1>11, <2>1
  <2>2. CASE i \in 1..n
    <3>1. later[i] = finished[i] /\ i > n - ResultsKept
      BY <1>1, <1>4, <1>12, <2>2
    <3>2. finished[i] \in Range(kept) \/ scores'[finished[i]] > 0
      BY <1>2, <2>2, <3>1
    <3>3. ~ \E j \in 1..n : finished[j] = finished[i] /\ j <= n + 1 - ResultsKept
      BY <1>1, <1>5, <1>12, <2>2 DEF Distinct
    <3> QED
      BY <1>11, <3>1, <3>2, <3>3
  <2> QED
    BY <1>7, <2>1, <2>2
<1>13. \A x \in 1..MaxChildren :
          scores'[x] > 0 => x \in Range(later) /\ x \notin Range(new)
  BY <1>9, <1>11
<1>14. finished' = later /\ completedResults' = new /\ Children' = Children
  BY <1>3, <1>10 DEF Children
<1>15. RecentResultsKept'
  <2>1. /\ DOMAIN finished' = 1..(n + 1) /\ Len(finished') = n + 1
        /\ completedResults' = new /\ finished' = later
    BY <1>4, <1>14
  <2> SUFFICES ASSUME NEW i \in DOMAIN finished', i > Len(finished') - ResultsKept
               PROVE  finished'[i] \in Range(completedResults') \/ scores'[finished'[i]] > 0
    BY Zenon DEF RecentResultsKept
  <2>2. i \in 1..(n + 1) /\ i > n + 1 - ResultsKept
    BY <1>1, <2>1
  <2> QED
    BY <1>12, <2>1, <2>2
<1> QED
  BY <1>4, <1>8, <1>9, <1>11, <1>13, <1>14, <1>15 DEF ResultsOK

\* A child answers, with a verdict that is recorded or without one.
LEMMA AnswerStep ==
    ASSUME ResultsOK, CallsType, NEW k \in Children, k \notin Range(finished),
           finished' = Append(finished, k), parents' = parents,
           \/ /\ completedResults' = Remembered(completedResults, k)
              /\ UNCHANGED scores
           \/ \E t : /\ t.target \in Range(completedResults)
                     /\ scores' = [scores EXCEPT ![t.target] = scores[t.target] + 1]
                     /\ completedResults' = Remembered(Scored(completedResults, t), k)
    PROVE  ResultsOK'
<1>1. CASE /\ completedResults' = Remembered(completedResults, k)
           /\ UNCHANGED scores
  BY <1>1, AnswerKept DEF ResultsOK, RecentResultsKept
<1>2. ASSUME NEW t, t.target \in Range(completedResults),
             scores' = [scores EXCEPT ![t.target] = scores[t.target] + 1],
             completedResults' = Remembered(Scored(completedResults, t), k)
      PROVE  ResultsOK'
  <2> DEFINE kept == Scored(completedResults, t)
             x == t.target
  <2>1. /\ kept \in Seq(Nat) /\ IsInjective(kept) /\ Len(kept) = Len(completedResults) - 1
        /\ Range(kept) = Range(completedResults) \ {x} /\ InOrder(kept, finished)
    BY <1>2, ScoredEffect DEF ResultsOK
  <2>2. x \in Range(finished) /\ x \in 1..MaxChildren
    <3>1. x \in Range(finished)
      <4>1. /\ Range(completedResults) = Values(completedResults, Len(completedResults))
            /\ Range(finished) = Values(finished, Len(finished))
        BY SeqParts DEF ResultsOK
      <4>2. PICK j \in 1..Len(completedResults) : x = completedResults[j]
        BY <1>2, <4>1 DEF Values
      <4>3. \E i \in 1..Len(finished) : finished[i] = completedResults[j]
        BY DEF ResultsOK, InOrder, Order
      <4> QED
        BY <4>1, <4>2, <4>3 DEF Values
    <3> QED
      BY <3>1, ResultAssumption DEF ResultsOK, Children, CallsType
  <2> HIDE DEF kept
  <2>3. /\ scores' \in [1..MaxChildren -> Nat] /\ scores'[x] > 0
        /\ \A y \in 1..MaxChildren \ {x} : scores'[y] = scores[y]
    BY <1>2, <2>2 DEF ResultsOK
  <2>4. \A y \in 1..MaxChildren :
           scores'[y] > 0 => y \in Range(finished) /\ y \notin Range(kept)
    BY <2>1, <2>2, <2>3 DEF ResultsOK
  <2>5. ASSUME NEW i \in DOMAIN finished, i > Len(finished) - ResultsKept
        PROVE  finished[i] \in Range(kept) \/ scores'[finished[i]] > 0
    <3>0. finished[i] \in Range(finished)
      BY DEF Range
    <3>1. finished[i] \in 1..MaxChildren
      BY <3>0, ResultAssumption DEF ResultsOK, Children, CallsType
    <3>2. finished[i] \in Range(completedResults) \/ scores[finished[i]] > 0
      BY <2>5 DEF ResultsOK, RecentResultsKept
    <3> QED
      BY <2>1, <2>3, <3>1, <3>2
  <2>6. Len(kept) <= ResultsKept /\ completedResults' = Remembered(kept, k)
    BY <1>2, <2>1, ResultAssumption DEF ResultsOK, kept
  <2> QED
    BY <2>1, <2>3, <2>4, <2>5, <2>6, AnswerKept
<1> QED
  BY <1>1, <1>2

-----------------------------------------------------------------------------
(* The calls.                                                              *)

\* The calls other than c are where they were, with the child they had.
OthersSame(c) ==
    \A d \in Calls \ {c} : at'[d] = at[d] /\ task'[d] = task[d] /\ child'[d] = child[d]

\* What a step of call c must leave alone for the other calls to be in order.
LEMMA CallsStep ==
    ASSUME CallsOK, NEW c \in Calls, CallsType', CallOK(c)', OthersSame(c),
           child'[c] \in {child[c], NoChild} \/ child'[c] \notin Children,
           \A k \in Children : parents'[k] = parents[k],
           \A key \in activeBrowserTasks : key[3] # c => key \in activeBrowserTasks',
           Range(finished') \subseteq Range(finished) \cup {child[c]}
    PROVE  CallsOK'
<1>1. \A d \in Calls : child[d] # NoChild => child[d] \in Children
  BY DEF CallsOK, CallsType
<1>2. ASSUME NEW d \in Calls \ {c} PROVE CallOK(d)'
  <2>1. /\ CallOK(d) /\ at'[d] = at[d] /\ task'[d] = task[d] /\ child'[d] = child[d]
    BY DEF CallsOK, OthersSame
  <2>2. child[d] # NoChild =>
          child[d] \in Children /\ child[d] # child[c] /\ child[d] \notin Range(finished)
    BY <1>1, <2>1 DEF CallsOK, CallOK
  <2>3. ASSUME NEW k \in BrowserTasks, <<task[d].session, k, d>> \in activeBrowserTasks
        PROVE  <<task[d].session, k, d>> \in activeBrowserTasks'
    BY <2>3
  <2> QED
    BY <2>1, <2>2, <2>3 DEF CallOK
<1>3. ASSUME NEW d \in Calls, NEW e \in Calls, child'[d] # NoChild, child'[d] = child'[e]
      PROVE  d = e
  <2>1. \A x, y \in Calls : child[x] # NoChild /\ child[x] = child[y] => x = y
    BY DEF CallsOK
  <2>2. \A x \in Calls \ {c} : child'[x] = child[x]
    BY DEF OthersSame
  <2> QED
    BY <1>1, <1>3, <2>1, <2>2
<1>4. CallsType' /\ \A d \in Calls : CallOK(d)'
  BY <1>2
<1> QED
  BY <1>3, <1>4 DEF CallsOK

\* A call that is not running has no child.
LEMMA NotRunning ==
    ASSUME CallsOK, NEW c \in Calls
    PROVE  /\ at[c] # "running" <=> child[c] = NoChild
           /\ child \in [Calls -> Nat] /\ at \in [Calls -> Places]
           /\ child[c] # NoChild => /\ child[c] \in Children /\ child[c] \notin Range(finished)
                                    /\ task[c].session \in Sessions
<1>1. CallOK(c) /\ CallsType
  BY DEF CallsOK
<1>2. child \in [Calls -> Nat] /\ (child[c] # NoChild => child[c] \in Children)
  BY <1>1 DEF CallsType, Children, NoChild
<1> QED
  BY <1>1, <1>2 DEF CallOK, CallsType

\* A call is over: it has no task and no child.
LEMMA EndStep ==
    ASSUME CallsOK, NEW c \in Calls, End(c), child' = [child EXCEPT ![c] = NoChild],
           UNCHANGED <<started, parents>>, activeBrowserTasks' \subseteq activeBrowserTasks,
           \A key \in activeBrowserTasks : key[3] # c => key \in activeBrowserTasks',
           Range(finished') \subseteq Range(finished) \cup {child[c]}
    PROVE  CallsOK' /\ OthersSame(c) /\ at'[c] = "idle" /\ task'[c] = NoTask
<1>1. CallsType
  BY DEF CallsOK
<1>2. /\ task' = [task EXCEPT ![c] = NoTask] /\ at' = [at EXCEPT ![c] = "idle"]
      /\ aborted' = [aborted EXCEPT ![c] = FALSE]
  BY DEF End, Goto
<1>3. Children' = Children /\ NoTask \in [session : Sessions \cup {NoSession},
                                role : Roles \cup {"none"}, target : Children \cup {NoChild}]
  BY DEF Children, NoTask
<1>4. CallsType'
  BY <1>1, <1>2, <1>3 DEF CallsType, Places
<1>5. OthersSame(c) /\ at'[c] = "idle" /\ task'[c] = NoTask /\ child'[c] = NoChild
  BY <1>1, <1>2 DEF CallsType, OthersSame
<1>6. CallOK(c)'
  BY <1>5 DEF CallOK, NoTask
<1> QED
  BY <1>4, <1>5, <1>6, CallsStep

\* Call c goes on in another place without a child, with task t.
GoesOn(c, place, t) ==
    /\ place \in Places \ {"idle", "running"} /\ at' = [at EXCEPT ![c] = place]
    /\ t \in [session : Sessions, role : Roles, target : Children \cup {NoChild}]
    /\ task' = [task EXCEPT ![c] = t]
    /\ place \in {"beginning", "finishing"} => t.role = "browser"
    /\ t.role = "browser" =>
          \E k \in BrowserTasks : <<t.session, k, c>> \in activeBrowserTasks'
    /\ child' = [child EXCEPT ![c] = NoChild]
    /\ started' \in 0..MaxStarted /\ parents' = parents /\ aborted' = aborted
    /\ activeBrowserTasks' \subseteq Sessions \X BrowserTasks \X Calls
    /\ activeBrowserTasks \subseteq activeBrowserTasks'
    /\ Range(finished') \subseteq Range(finished) \cup {child[c]}

\* Then it is in order, and so are the others.
LEMMA GoesOnStep ==
    ASSUME CallsOK, NEW c \in Calls, NEW place, NEW t, GoesOn(c, place, t)
    PROVE  CallsOK' /\ OthersSame(c) /\ at'[c] = place /\ task'[c] = t
<1> USE DEF GoesOn
<1>1. CallsType
  BY DEF CallsOK
<1>2. Children' = Children
  BY DEF Children
<1>3. CallsType'
  BY <1>1, <1>2 DEF CallsType
<1>4. OthersSame(c) /\ at'[c] = place /\ task'[c] = t /\ child'[c] = NoChild
  BY <1>1 DEF CallsType, OthersSame
<1>5. CallOK(c)'
  BY <1>4 DEF CallOK
<1>6. /\ parents' = parents /\ Range(finished') \subseteq Range(finished) \cup {child[c]}
      /\ activeBrowserTasks \subseteq activeBrowserTasks'
  OBVIOUS
<1> HIDE DEF GoesOn
<1> QED
  BY <1>3, <1>4, <1>5, <1>6, CallsStep

-----------------------------------------------------------------------------
(* The steps of a pooled task.                                             *)

\* The task of a call that is not idle.
LEMMA TaskOf ==
    ASSUME CallsOK, NEW c \in Calls, at[c] # "idle"
    PROVE  /\ task[c] \in [session : Sessions, role : Roles, target : Children \cup {NoChild}]
           /\ task[c].session \in Sessions
           /\ task[c].role = "browser" =>
                 \E k \in BrowserTasks : <<task[c].session, k, c>> \in activeBrowserTasks
           /\ task' = task => task' = [task EXCEPT ![c] = task[c]]
           /\ activeBrowserTasks \subseteq Sessions \X BrowserTasks \X Calls
           /\ started \in 0..MaxStarted
<1>1. CallOK(c) /\ CallsType
  BY DEF CallsOK
<1> QED
  BY <1>1 DEF CallOK, CallsType

\* Cancellation is only noted.
LEMMA CancelStep == ASSUME IInv, NEW c \in Calls, Cancel(c) PROVE IInv'
<1> USE DEF Cancel
<1>1. UtilityOK'
  BY UtilitySame DEF IInv, healthVars
<1>2. RowsOK'
  BY RowsSame DEF IInv
<1>3. CountsOK'
  BY CountsSame DEF IInv, childVars
<1>4. CallsOK'
  <2>1. CallsType /\ CallOK(c) /\ Children' = Children
    BY DEF IInv, CallsOK, childVars, Children
  <2>2. CallsType'
    BY <2>1 DEF CallsType, childVars
  <2>3. CallOK(c)'
    BY <2>1 DEF CallOK, childVars, resultVars
  <2>4. /\ OthersSame(c) /\ child'[c] = child[c] /\ parents' = parents
        /\ activeBrowserTasks' = activeBrowserTasks /\ finished' = finished
    BY DEF OthersSame, childVars, resultVars
  <2> QED
    BY <2>2, <2>3, <2>4, CallsStep DEF IInv
<1>5. ResultsOK'
  BY ResultsSame DEF IInv, CallsOK, CallsType, childVars
<1> QED
  BY <1>1, <1>2, <1>3, <1>4, <1>5 DEF IInv

\* The new child is counted, and is nobody else's.
LEMMA ChildCreatedStep == ASSUME IInv, NEW c \in Calls, ChildCreated(c) PROVE IInv'
<1>1. /\ CallsType /\ CallOK(c) /\ at[c] = "creating" /\ child[c] = NoChild
      /\ task[c].session \in Sessions /\ task[c].role \in Roles
  BY DEF ChildCreated, IInv, CallsOK, CallOK
<1>2. PICK n \in Nat : n = Len(parents)
  BY <1>1 DEF CallsType
<1>3. PICK new \in [session : Sessions, role : Roles] :
         new = [session |-> task[c].session, role |-> task[c].role]
  BY <1>1
<1>4. /\ parents' \in Seq([session : Sessions, role : Roles]) /\ Len(parents') = n + 1
      /\ \A k \in 1..n : parents'[k] = parents[k]
      /\ parents'[n + 1] = new
  <2>1. parents' = Append(parents, new) /\ parents \in Seq([session : Sessions, role : Roles])
    BY <1>1, <1>3 DEF ChildCreated, CallsType
  <2> QED
    BY <1>2, <2>1
<1>5. /\ child' = [child EXCEPT ![c] = n + 1] /\ at' = [at EXCEPT ![c] = "running"]
      /\ task' = task /\ n + 1 <= MaxChildren
      /\ UNCHANGED <<activeBrowserTasks, finished, aborted, started>>
  BY <1>2, <1>4, ResultAssumption DEF ChildCreated, Goto, resultVars
<1>6. /\ Children = 1..n /\ Children' = 1..(n + 1) /\ Children \subseteq Children'
      /\ n + 1 \in Children' /\ n + 1 \notin Children /\ n + 1 # NoChild
  BY <1>2, <1>4 DEF Children, NoChild
<1>7. Range(finished) \subseteq Children
  BY DEF IInv, ResultsOK
<1>8. UtilityOK'
  <2>1. \A d \in Calls : at'[d] = "asking" <=> at[d] = "asking"
    BY <1>1, <1>5 DEF CallsType
  <2> QED
    BY <2>1, UtilitySame DEF IInv, ChildCreated, healthVars
<1>9. RowsOK'
  BY RowsSame DEF IInv, ChildCreated
<1>10. CountsOK'
  <2>1. child \in [Calls -> Nat] /\ n + 1 \in Nat /\ n + 1 # NoChild
    BY <1>6, NotRunning DEF IInv
  <2> QED
    BY <1>1, <1>5, <2>1, CountsAdded DEF IInv, ChildCreated
<1>11. CallsOK'
  <2>1. CallsType'
    <3>1. at' \in [Calls -> Places] /\ child' \in [Calls -> Children' \cup {NoChild}]
      BY <1>1, <1>5, <1>6 DEF CallsType, Places
    <3>2. task' \in [Calls -> [session : Sessions \cup {NoSession}, role : Roles \cup {"none"},
                               target : Children' \cup {NoChild}]]
      BY <1>1, <1>5, <1>6 DEF CallsType
    <3> QED
      BY <1>1, <1>4, <1>5, <3>1, <3>2 DEF CallsType
  <2>2. OthersSame(c) /\ child'[c] = n + 1 /\ at'[c] = "running"
    BY <1>1, <1>5 DEF CallsType, OthersSame
  <2>3. CallOK(c)'
    BY <1>1, <1>3, <1>4, <1>5, <1>6, <1>7, <2>2 DEF CallOK
  <2>4. \A k \in Children : parents'[k] = parents[k]
    BY <1>4, <1>6
  <2> QED
    BY <1>5, <1>6, <2>1, <2>2, <2>3, <2>4, CallsStep DEF IInv
<1>12. ResultsOK'
  BY <1>1, <1>2, <1>4, ResultsSame DEF IInv, ChildCreated, CallsType
<1> QED
  BY <1>8, <1>9, <1>10, <1>11, <1>12 DEF IInv

\* What a pooled task had is over: its call goes on as a call of the Browser, or ends.
LEMMA FailureCalls ==
    ASSUME CallsOK, NEW c \in Calls, at[c] \in {"creating", "running"}, AfterFailure(c),
           child' = [child EXCEPT ![c] = NoChild],
           UNCHANGED <<started, parents, activeBrowserTasks>>,
           Range(finished') \subseteq Range(finished) \cup {child[c]}
    PROVE  CallsOK' /\ OthersSame(c) /\ at'[c] # "asking"
<1>1. CASE task[c].role = "browser"
  <2>1. /\ at' = [at EXCEPT ![c] = "finishing"] /\ task' = task /\ aborted' = aborted
        /\ at[c] # "idle"
    BY <1>1 DEF AfterFailure, Goto
  <2>2. "finishing" \in Places \ {"idle", "running"}
    BY DEF Places
  <2>3. task' = [task EXCEPT ![c] = task[c]]
    BY <2>1, TaskOf
  <2>4. GoesOn(c, "finishing", task[c])
    BY <1>1, <2>1, <2>2, <2>3, TaskOf DEF GoesOn
  <2>5. CallsOK' /\ OthersSame(c) /\ at'[c] = "finishing"
    BY <2>4, GoesOnStep
  <2> QED
    BY <2>5
<1>2. CASE task[c].role # "browser"
  BY <1>2, EndStep DEF AfterFailure
<1> QED
  BY <1>1, <1>2

\* A pooled task fails before it has a child or with one.
LEMMA PooledFailsStep == ASSUME IInv, NEW c \in Calls, PooledFails(c) PROVE IInv'
<1>1. /\ at[c] \in {"creating", "running"} /\ Uncounted(c) /\ AfterFailure(c)
      /\ child' = [child EXCEPT ![c] = NoChild]
      /\ UNCHANGED <<started, parents, activeBrowserTasks, finished, health, saved, asked>>
      /\ UNCHANGED rowVars /\ UNCHANGED resultVars
  BY DEF PooledFails, healthVars, resultVars
<1>2. CallsOK' /\ OthersSame(c) /\ at'[c] # "asking"
  BY <1>1, FailureCalls DEF IInv
<1>3. UtilityOK'
  BY <1>1, <1>2, UtilitySame DEF IInv, OthersSame
<1>4. RowsOK'
  BY <1>1, RowsSame DEF IInv
<1>5. CountsOK'
  BY <1>1, <1>2, NotRunning, CountsRemoved DEF IInv, OthersSame
<1>6. ResultsOK'
  BY <1>1, ResultsSame DEF IInv, CallsOK, CallsType
<1> QED
  BY <1>2, <1>3, <1>4, <1>5, <1>6 DEF IInv

\* A Supervisor's decision sends its call on as an Implementer's.
LEMMA CorrectedCalls ==
    ASSUME CallsOK, NEW c \in Calls, at[c] = "running", Corrected(c),
           child' = [child EXCEPT ![c] = NoChild],
           UNCHANGED <<started, parents, activeBrowserTasks>>,
           Range(finished') \subseteq Range(finished) \cup {child[c]}
    PROVE  CallsOK' /\ OthersSame(c) /\ at'[c] # "asking"
<1>1. PICK t \in [session : Sessions, role : Roles, target : Children \cup {NoChild}] :
         t = [task[c] EXCEPT !.role = "implementer"]
  BY TaskOf DEF Roles, AgentRoles
<1>2. t.role = "implementer"
  BY <1>1, TaskOf
<1>3. /\ at' = [at EXCEPT ![c] = "creating"] /\ aborted' = aborted
      /\ task' = [task EXCEPT ![c] = t]
  BY <1>1 DEF Corrected, Goto
<1>4. "creating" \in Places \ {"idle", "running"}
  BY DEF Places
<1>5. started \in 0..MaxStarted /\ activeBrowserTasks \subseteq Sessions \X BrowserTasks \X Calls
  BY TaskOf
<1>6. GoesOn(c, "creating", t)
  BY <1>2, <1>3, <1>4, <1>5 DEF GoesOn
<1>7. CallsOK' /\ OthersSame(c) /\ at'[c] = "creating"
  BY <1>6, GoesOnStep
<1> QED
  BY <1>7

\* A child answers: the call ends or goes on, and the result is kept.
LEMMA AnswersStep == ASSUME IInv, NEW c \in Calls, Answers(c) PROVE IInv'
<1>1. /\ at[c] = "running" /\ Uncounted(c) /\ AfterAnswer(c)
      /\ finished' = Append(finished, child[c])
      /\ child' = [child EXCEPT ![c] = NoChild]
      /\ UNCHANGED <<started, parents, activeBrowserTasks, health, saved, asked>>
      /\ \/ /\ Reviewable(task[c])
            /\ scores' = [scores EXCEPT ![task[c].target] = scores[task[c].target] + 1]
            /\ completedResults' = Remembered(Scored(completedResults, task[c]), child[c])
         \/ /\ completedResults' = Remembered(completedResults, child[c])
            /\ UNCHANGED scores
  BY DEF Answers, healthVars
<1>2. /\ child[c] \in Children /\ child[c] \notin Range(finished) /\ child[c] \in Nat
      /\ task[c].session \in Sessions /\ CallsType
  BY <1>1, NotRunning DEF IInv, CallsOK, Children
<1>3. ResultsOK'
  <2>1. Reviewable(task[c]) => task[c].target \in Range(completedResults)
    BY DEF Reviewable
  <2> HIDE DEF Reviewable
  <2> QED
    BY <1>1, <1>2, <2>1, AnswerStep DEF IInv
<1>4. Range(finished') \subseteq Range(finished) \cup {child[c]}
  <2>1. PICK k \in Nat : k = child[c]
    BY <1>2
  <2>2. finished \in Seq(Nat) /\ finished' = Append(finished, k)
    BY <1>1, <2>1 DEF IInv, ResultsOK
  <2>3. \A i \in DOMAIN finished' : finished'[i] = k \/ (i \in DOMAIN finished /\ finished'[i] = finished[i])
    BY <2>2
  <2> QED
    BY <2>1, <2>3 DEF Range
<1>5. CallsOK' /\ OthersSame(c) /\ at'[c] # "asking" /\ RowsOK'
  <2>1. CASE task[c].role = "browser"
    <3>1. AfterFailure(c) /\ UNCHANGED rowVars
      BY <1>1, <2>1 DEF AfterAnswer, AfterFailure
    <3> QED
      BY <1>1, <1>4, <3>1, FailureCalls, RowsSame DEF IInv
  <2>2. CASE task[c].role # "browser" /\ End(c) /\ UNCHANGED rowVars
    <3>1. AfterFailure(c)
      BY <2>2 DEF AfterFailure
    <3> QED
      BY <1>1, <1>4, <2>2, <3>1, FailureCalls, RowsSame DEF IInv
  <2>3. CASE task[c].role = "supervisor" /\ Corrected(c)
    <3>1. PICK s \in Sessions : s = task[c].session
      BY <1>2
    <3>2. ClearRow(s)
      BY <2>3, <3>1 DEF Corrected
    <3> QED
      BY <1>1, <1>4, <2>3, <3>2, CorrectedCalls, ClearStep DEF IInv
  <2> QED
    BY <1>1, <2>1, <2>2, <2>3 DEF AfterAnswer
<1>6. UtilityOK'
  BY <1>1, <1>5, UtilitySame DEF IInv, OthersSame
<1>7. CountsOK'
  BY <1>1, <1>2, <1>5, NotRunning, CountsRemoved DEF IInv, OthersSame
<1> QED
  BY <1>3, <1>5, <1>6, <1>7 DEF IInv

-----------------------------------------------------------------------------
(* The steps of a Browser task.                                            *)

\* A call without a child has none after a step that leaves children alone.
LEMMA StillNone ==
    ASSUME CallsOK, NEW c \in Calls, at[c] # "running", child' = child
    PROVE  child' = [child EXCEPT ![c] = NoChild]
BY NotRunning

\* The Browser has a session for the task.
LEMMA BrowserBeginsStep == ASSUME IInv, NEW c \in Calls, BrowserBegins(c) PROVE IInv'
<1>1. /\ at[c] = "beginning" /\ at' = [at EXCEPT ![c] = "creating"] /\ task' = task
      /\ UNCHANGED <<started, parents, activeBrowserTasks, activeChildren, child, finished,
                     aborted, health, saved, asked>>
      /\ UNCHANGED rowVars /\ UNCHANGED resultVars
  BY DEF BrowserBegins, Goto, healthVars, resultVars, childVars
<1>2. "creating" \in Places \ {"idle", "running"}
  BY DEF Places
<1>3. task' = [task EXCEPT ![c] = task[c]] /\ child' = [child EXCEPT ![c] = NoChild]
  BY <1>1, TaskOf, StillNone DEF IInv
<1>4. CallsOK' /\ OthersSame(c) /\ at'[c] = "creating"
  <2>1. PICK t \in [session : Sessions, role : Roles, target : Children \cup {NoChild}] :
           t = task[c]
    BY <1>1, TaskOf DEF IInv
  <2>2. GoesOn(c, "creating", t)
    BY <1>1, <1>2, <1>3, <2>1, TaskOf DEF GoesOn, IInv
  <2> QED
    BY <2>2, GoesOnStep DEF IInv
<1>5. UtilityOK'
  BY <1>1, <1>4, UtilitySame DEF IInv, OthersSame
<1>6. RowsOK'
  BY <1>1, RowsSame DEF IInv
<1>7. CountsOK'
  BY <1>1, CountsSame DEF IInv
<1>8. ResultsOK'
  BY <1>1, ResultsSame DEF IInv, CallsOK, CallsType
<1> QED
  BY <1>4, <1>5, <1>6, <1>7, <1>8 DEF IInv

\* The Browser is done with the task.
LEMMA BrowserEndsStep == ASSUME IInv, NEW c \in Calls, BrowserEnds(c) PROVE IInv'
<1>1. /\ at[c] \in {"beginning", "finishing"} /\ End(c)
      /\ activeBrowserTasks' = {key \in activeBrowserTasks : key[3] # c}
      /\ UNCHANGED <<started, parents, activeChildren, child, finished, health, saved, asked>>
      /\ UNCHANGED rowVars /\ UNCHANGED resultVars
  BY DEF BrowserEnds, healthVars, resultVars, childVars
<1>2. child' = [child EXCEPT ![c] = NoChild] /\ child[c] = NoChild
  BY <1>1, StillNone, NotRunning DEF IInv
<1>3. CallsOK' /\ OthersSame(c) /\ at'[c] = "idle"
  BY <1>1, <1>2, EndStep DEF IInv
<1>4. UtilityOK'
  BY <1>1, <1>3, UtilitySame DEF IInv, OthersSame
<1>5. RowsOK'
  BY <1>1, RowsSame DEF IInv
<1>6. CountsOK'
  BY <1>1, <1>2, <1>3, CountsSame DEF IInv, OthersSame
<1>7. ResultsOK'
  BY <1>1, ResultsSame DEF IInv, CallsOK, CallsType
<1> QED
  BY <1>3, <1>4, <1>5, <1>6, <1>7 DEF IInv

-----------------------------------------------------------------------------
(* The steps of a utility call.                                            *)

\* The utility call ends without a result, or asks the next model it can claim.
LEMMA TryFromStep ==
    ASSUME UtilityOK, CallsOK, NEW c \in Calls, at[c] = "asking",
           NEW h \in HealthMaps, HeldByOthers(h, c), NEW i \in Nat \ {0}, saved' = saved,
           UNCHANGED <<started, child, parents, activeBrowserTasks, finished>>,
           \/ TryFrom(c, i, h)
           \/ health' = h /\ asked' = [asked EXCEPT ![c] = 0] /\ End(c)
    PROVE  UtilityOK' /\ CallsOK' /\ OthersSame(c)
<1>0. at \in [Calls -> Places]
  BY NotRunning
<1>1. CASE health' = h /\ asked' = [asked EXCEPT ![c] = 0] /\ End(c)
  <2>1. CallsOK' /\ OthersSame(c) /\ at'[c] = "idle"
    BY <1>1, StillNone, EndStep
  <2> QED
    BY <1>1, <2>1, AskStep DEF OthersSame
<1>2. CASE TryFrom(c, i, h) /\ ~(health' = h /\ asked' = [asked EXCEPT ![c] = 0] /\ End(c))
  <2> DEFINE open == {j \in i..Len(UtilityModels) : Eligible(h, UtilityModels[j])}
  <2>1. /\ open # {} /\ health' = Claimed(h, UtilityModels[Min(open)])
        /\ asked' = [asked EXCEPT ![c] = Min(open)]
        /\ at' = [at EXCEPT ![c] = "asking"] /\ task' = task /\ aborted' = aborted
    BY <1>2 DEF TryFrom, Goto
  <2>2. open \in SUBSET Nat
    BY ModelsOK
  <2>3. Min(open) \in open
    BY <2>1, <2>2, MinExists
  <2>4. PICK j \in 1..Len(UtilityModels) : j = Min(open) /\ Eligible(h, UtilityModels[j])
    <3>1. Min(open) \in i..Len(UtilityModels) /\ Eligible(h, UtilityModels[Min(open)])
      BY <2>3
    <3> HIDE DEF open
    <3> QED
      BY <3>1, ModelsOK
  <2> HIDE DEF open
  <2>5. at' = at /\ OthersSame(c)
    BY <1>0, <2>1 DEF OthersSame
  <2>6. UtilityOK'
    BY <2>1, <2>4, <2>5, AskStep
  <2>7. CallsOK'
    <3>1. CallsType /\ CallOK(c) /\ Children' = Children
      BY DEF CallsOK, Children
    <3>2. CallsType' /\ CallOK(c)'
      BY <2>1, <2>5, <3>1 DEF CallsType, CallOK
    <3> QED
      BY <2>5, <3>1, <3>2, CallsStep
  <2> QED
    BY <2>5, <2>6, <2>7
<1> QED
  BY <1>1, <1>2

\* A utility call leaves rows, counters and results alone.
LEMMA UtilityFrame ==
    ASSUME IInv, NEW c \in Calls, at[c] = "asking", utilityUnchanged' = utilityUnchanged,
           UtilityOK' /\ CallsOK' /\ OthersSame(c)
    PROVE  IInv'
<1>1. /\ UNCHANGED <<child, activeChildren, parents>>
      /\ UNCHANGED rowVars /\ UNCHANGED resultVars
  BY DEF utilityUnchanged, childVars
<1>2. child[c] = NoChild
  BY NotRunning DEF IInv
<1>3. RowsOK' /\ CountsOK'
  BY <1>1, <1>2, RowsSame, CountsSame DEF IInv, OthersSame
<1>4. ResultsOK'
  BY <1>1, ResultsSame DEF IInv, CallsOK, CallsType
<1> QED
  BY <1>3, <1>4 DEF IInv

\* What a utility call may not touch, variable by variable.
LEMMA UtilityParts ==
    ASSUME utilityUnchanged' = utilityUnchanged
    PROVE  UNCHANGED <<saved, started, child, parents, activeBrowserTasks, finished>>
BY DEF utilityUnchanged, childVars, resultVars

\* The answer of a utility model ends its claim.
LEMMA UtilityAnswersStep == ASSUME IInv, NEW c \in Calls, UtilityAnswers(c) PROVE IInv'
<1>1. /\ at[c] = "asking" /\ health' = Succeeded(health, Asked(c))
      /\ asked' = [asked EXCEPT ![c] = 0] /\ End(c) /\ utilityUnchanged' = utilityUnchanged
  BY DEF UtilityAnswers
<1>2. /\ Asked(c) \in Bindings /\ asked[c] # 0 /\ health \in HealthMaps
  BY <1>1, AskedIsClaimed DEF IInv
<1>3. PICK h \in HealthMaps : h = Succeeded(health, Asked(c))
  BY <1>2 DEF Succeeded, HealthMaps, Entries
<1>4. ~InFlight(h, Asked(c)) /\ \A b \in Bindings \ {Asked(c)} : h[b] = health[b]
  BY <1>2, <1>3 DEF Succeeded, InFlight, Available, HealthMaps
<1>5. HeldByOthers(h, c)
  BY <1>2, <1>4, OthersKeepClaims DEF IInv
<1>6. UtilityOK' /\ CallsOK' /\ OthersSame(c)
  <2>1. 1 \in Nat \ {0} /\ health' = h
    BY <1>1, <1>3
  <2>2. UNCHANGED <<saved, started, child, parents, activeBrowserTasks, finished>>
    BY <1>1, UtilityParts
  <2> QED
    BY <1>1, <1>5, <2>1, <2>2, TryFromStep DEF IInv
<1> QED
  BY <1>1, <1>6, UtilityFrame

\* So does its failure, whatever it says of the model, and the call may ask another.
LEMMA UtilityFailureStep ==
    ASSUME IInv, NEW c \in Calls, at[c] = "asking", utilityUnchanged' = utilityUnchanged,
           NEW category \in Categories, NEW retryAfter \in Nat,
           AfterUtilityFailure(c, category, retryAfter)
    PROVE  IInv'
<1>1. /\ Asked(c) \in Bindings /\ asked[c] \in Nat \ {0} /\ health \in HealthMaps
  BY AskedIsClaimed, ModelsOK DEF IInv
<1>2. PICK h \in HealthMaps : h = Failed(health, Asked(c), category, retryAfter)
  BY <1>1, FailedEndsClaim
<1>3. ~InFlight(h, Asked(c)) /\ \A b \in Bindings \ {Asked(c)} : h[b] = health[b]
  BY <1>1, <1>2, FailedEndsClaim
<1>4. HeldByOthers(h, c)
  BY <1>1, <1>3, OthersKeepClaims DEF IInv
<1>5. PICK i \in Nat \ {0} : i = asked[c] + 1
  BY <1>1
<1>6. \/ TryFrom(c, i, h)
      \/ health' = h /\ asked' = [asked EXCEPT ![c] = 0] /\ End(c)
  BY <1>2, <1>5 DEF AfterUtilityFailure
<1>7. UtilityOK' /\ CallsOK' /\ OthersSame(c)
  BY <1>4, <1>6, UtilityParts, TryFromStep DEF IInv
<1> QED
  BY <1>7, UtilityFrame

\* A utility request fails, or is interrupted.
LEMMA UtilityEndsStep ==
    ASSUME IInv, NEW c \in Calls, UtilityFails(c) \/ UtilityInterrupted(c)
    PROVE  IInv'
<1>1. 0 \in Nat /\ RetryAfters \subseteq Nat /\ "non_provider" \in Categories
      /\ HealthCategories \cup {"unknown"} \subseteq Categories
  BY CooldownAssumption DEF Categories
<1>2. CASE UtilityFails(c)
  BY <1>1, <1>2, UtilityFailureStep DEF UtilityFails
<1>3. CASE UtilityInterrupted(c)
  BY <1>1, <1>3, UtilityFailureStep DEF UtilityInterrupted
<1> QED
  BY <1>2, <1>3

-----------------------------------------------------------------------------
(* The beginnings of calls, and the health table.                          *)

\* Call c of session s begins and goes on in a place of its own.
Begins(c, s, place, role, target) ==
    /\ Made(c) /\ ClearRow(s)
    /\ place \in Places \ {"idle", "running", "finishing"}
    /\ at' = [at EXCEPT ![c] = place]
    /\ role \in Roles /\ target \in Children \cup {NoChild}
    /\ task' = [task EXCEPT ![c] = [session |-> s, role |-> role, target |-> target]]
    /\ place = "beginning" => role = "browser"
    /\ role = "browser" => \E k \in BrowserTasks : <<s, k, c>> \in activeBrowserTasks'
    /\ activeBrowserTasks' \subseteq Sessions \X BrowserTasks \X Calls
    /\ activeBrowserTasks \subseteq activeBrowserTasks'
    /\ UNCHANGED <<child, aborted, childVars, resultVars>>

\* Then every part of the invariant but the utility bindings is in order.
LEMMA BeginStep ==
    ASSUME IInv, NEW c \in Calls, NEW s \in Sessions, NEW place, NEW role, NEW target,
           Begins(c, s, place, role, target)
    PROVE  /\ RowsOK' /\ CountsOK' /\ CallsOK' /\ ResultsOK'
           /\ OthersSame(c) /\ at'[c] = place
<1> USE DEF Begins
<1>1. /\ at[c] = "idle" /\ started' \in 0..MaxStarted
      /\ UNCHANGED <<parents, activeChildren, finished>>
  BY ResultAssumption DEF Made, childVars, resultVars, IInv, CallsOK, CallsType
<1>2. PICK t \in [session : Sessions, role : Roles, target : Children \cup {NoChild}] :
         t = [session |-> s, role |-> role, target |-> target]
  OBVIOUS
<1>3. child' = [child EXCEPT ![c] = NoChild] /\ child[c] = NoChild
  BY <1>1, StillNone, NotRunning DEF IInv
<1>4. /\ task' = [task EXCEPT ![c] = t] /\ t.session = s /\ t.role = role
      /\ place \in Places \ {"idle", "running"} /\ place # "finishing"
      /\ Range(finished') \subseteq Range(finished) \cup {child[c]}
      /\ UNCHANGED <<parents, aborted>> /\ CallsOK
  BY <1>1, <1>2 DEF IInv
<1>5. CallsOK' /\ OthersSame(c) /\ at'[c] = place
  <2>1. GoesOn(c, place, t)
    BY <1>1, <1>3, <1>4 DEF GoesOn
  <2> QED
    BY <1>4, <2>1, GoesOnStep
<1>6. RowsOK' /\ CountsOK'
  BY <1>1, <1>3, <1>5, ClearStep, CountsSame DEF IInv, OthersSame
<1>7. ResultsOK'
  BY <1>1, ResultsSame DEF IInv, CallsOK, CallsType
<1> QED
  BY <1>5, <1>6, <1>7

\* A call begins that is not of the utility runtime.
LEMMA StartStep ==
    ASSUME IInv, NEW c \in Calls, NEW s \in Sessions,
           StartAgent(s, c) \/ \E k \in BrowserTasks : StartBrowser(s, c, k)
    PROVE  IInv'
<1>0. /\ "creating" \in Places \ {"idle", "running", "finishing"}
      /\ "beginning" \in Places \ {"idle", "running", "finishing"}
      /\ {"implementer", "reviewer", "browser"} \subseteq Roles
      /\ NoChild \in Children \cup {NoChild}
      /\ activeBrowserTasks \subseteq Sessions \X BrowserTasks \X Calls
  BY DEF Places, Roles, AgentRoles, IInv, CallsOK, CallsType
<1>1. CASE StartAgent(s, c)
  <2>1. PICK role \in {"implementer", "reviewer"}, target \in Children \cup {NoChild} :
           Accept(s, c, role, target)
    BY <1>0, <1>1 DEF StartAgent
  <2>2. /\ Made(c) /\ ClearRow(s) /\ at' = [at EXCEPT ![c] = "creating"]
        /\ task' = [task EXCEPT ![c] = [session |-> s, role |-> role, target |-> target]]
        /\ UNCHANGED <<activeBrowserTasks, child, aborted, childVars, resultVars>>
        /\ UNCHANGED <<health, saved, asked>> /\ role \in Roles /\ role # "browser"
    BY <1>0, <1>1, <2>1 DEF StartAgent, Accept, Goto, healthVars
  <2>3. /\ RowsOK' /\ CountsOK' /\ CallsOK' /\ ResultsOK'
        /\ OthersSame(c) /\ at'[c] = "creating" /\ at[c] = "idle"
    <3>1. Begins(c, s, "creating", role, target)
      BY <1>0, <2>2 DEF Begins
    <3> QED
      BY <2>2, <3>1, BeginStep DEF Made
  <2>4. UtilityOK'
    BY <2>2, <2>3, UtilitySame DEF IInv, OthersSame
  <2> QED
    BY <2>3, <2>4 DEF IInv
<1>2. ASSUME NEW k \in BrowserTasks, StartBrowser(s, c, k) PROVE IInv'
  <2>1. /\ Made(c) /\ ClearRow(s) /\ at' = [at EXCEPT ![c] = "beginning"]
        /\ task' = [task EXCEPT ![c] = [session |-> s, role |-> "browser", target |-> NoChild]]
        /\ activeBrowserTasks' = activeBrowserTasks \cup {<<s, k, c>>}
        /\ UNCHANGED <<child, aborted, childVars, resultVars>>
        /\ UNCHANGED <<health, saved, asked>>
    BY <1>2 DEF StartBrowser, Accept, Goto, healthVars
  <2>2. /\ RowsOK' /\ CountsOK' /\ CallsOK' /\ ResultsOK'
        /\ OthersSame(c) /\ at'[c] = "beginning" /\ at[c] = "idle"
    <3>1. <<s, k, c>> \in activeBrowserTasks' /\ <<s, k, c>> \in Sessions \X BrowserTasks \X Calls
      BY <2>1
    <3>2. Begins(c, s, "beginning", "browser", NoChild)
      BY <1>0, <2>1, <3>1 DEF Begins
    <3> QED
      BY <2>1, <3>2, BeginStep DEF Made
  <2>3. UtilityOK'
    BY <2>1, <2>2, UtilitySame DEF IInv, OthersSame
  <2> QED
    BY <2>2, <2>3 DEF IInv
<1> QED
  BY <1>1, <1>2

\* A utility call begins with the first model it can claim.
LEMMA StartUtilityStep ==
    ASSUME IInv, NEW c \in Calls, NEW s \in Sessions, StartUtility(s, c)
    PROVE  IInv'
<1> DEFINE open == {j \in DOMAIN UtilityModels : Eligible(health, UtilityModels[j])}
<1>1. /\ Made(c) /\ ClearRow(s) /\ open # {} /\ at' = [at EXCEPT ![c] = "asking"]
      /\ task' = [task EXCEPT ![c] = [session |-> s, role |-> "utility", target |-> NoChild]]
      /\ health' = Claimed(health, UtilityModels[Min(open)])
      /\ asked' = [asked EXCEPT ![c] = Min(open)]
      /\ UNCHANGED <<activeBrowserTasks, child, aborted, childVars, resultVars>>
      /\ saved' = saved
  BY DEF StartUtility, Goto
<1>2. DOMAIN UtilityModels = 1..Len(UtilityModels) /\ Len(UtilityModels) \in Nat
  BY UtilityAssumption
<1>3. open \in SUBSET Nat
  BY <1>2
<1>4. Min(open) \in open
  BY <1>1, <1>3, MinExists
<1>5. PICK j \in 1..Len(UtilityModels) : j = Min(open) /\ Eligible(health, UtilityModels[j])
  BY <1>2, <1>4
<1> HIDE DEF open
<1>6. /\ "asking" \in Places \ {"idle", "running", "finishing"}
      /\ "utility" \in Roles /\ NoChild \in Children \cup {NoChild}
      /\ activeBrowserTasks \subseteq Sessions \X BrowserTasks \X Calls
  BY DEF Places, Roles, IInv, CallsOK, CallsType
<1>7. /\ RowsOK' /\ CountsOK' /\ CallsOK' /\ ResultsOK'
      /\ OthersSame(c) /\ at'[c] = "asking"
  <2>1. Begins(c, s, "asking", "utility", NoChild)
    BY <1>1, <1>6 DEF Begins
  <2> QED
    BY <2>1, BeginStep
<1>8. HeldByOthers(health, c) /\ health \in HealthMaps
  <2>1. asked[c] = 0
    BY <1>1 DEF IInv, UtilityOK, Made
  <2> QED
    BY <2>1 DEF IInv, UtilityOK, HeldByOthers, HealthTypeOK, HealthMaps
<1>9. UtilityOK'
  BY <1>1, <1>5, <1>7, <1>8, AskStep DEF IInv, OthersSame
<1> QED
  BY <1>7, <1>9 DEF IInv

\* A call ends as soon as it is made: it is refused, or there is nothing to do it with.
LEMMA EndsAtOnceStep ==
    ASSUME IInv, NEW c \in Calls, NEW s \in Sessions,
           \/ EndsAtOnce(s, c)
           \/ \E f \in Faults : Reject(s, c, f)
           \/ \E f \in Faults : Repair(s, c, f) /\ UNCHANGED <<task, at>>
    PROVE  IInv'
<1>1. /\ started' \in 0..MaxStarted
      /\ UNCHANGED <<health, saved, task, at, asked, child, aborted, activeBrowserTasks,
                     parents, activeChildren, finished>>
      /\ UNCHANGED resultVars
  <2>1. started \in 0..MaxStarted
    BY DEF IInv, CallsOK, CallsType
  <2>2. Made(c) => started' \in 0..MaxStarted
    BY <2>1, ResultAssumption DEF Made
  <2> QED
    BY <2>2 DEF EndsAtOnce, Reject, Repair, healthVars, childVars, resultVars
<1>2. RowsOK'
  BY RefusalStep, ClearStep DEF EndsAtOnce, IInv
<1>3. UtilityOK' /\ CountsOK'
  BY <1>1, UtilitySame, CountsSame DEF IInv
<1>4. CallsOK'
  <2>1. CallsType /\ CallOK(c) /\ Children' = Children
    BY <1>1 DEF IInv, CallsOK, Children
  <2>2. CallsType' /\ CallOK(c)'
    BY <1>1, <2>1 DEF CallsType, CallOK
  <2>3. OthersSame(c)
    BY <1>1 DEF OthersSame
  <2> QED
    BY <1>1, <2>2, <2>3, CallsStep DEF IInv
<1>5. ResultsOK'
  BY <1>1, ResultsSame DEF IInv, CallsOK, CallsType
<1> QED
  BY <1>2, <1>3, <1>4, <1>5 DEF IInv

\* A Supervisor is asked about a refusal.
LEMMA RepairStep ==
    ASSUME IInv, NEW c \in Calls, NEW s \in Sessions, NEW f \in Faults, Repair(s, c, f),
           ~UNCHANGED <<task, at>>
    PROVE  IInv'
<1>1. /\ Made(c) /\ at' = [at EXCEPT ![c] = "creating"]
      /\ task' = [task EXCEPT ![c] = [session |-> s, role |-> "supervisor",
                                      target |-> NoChild]]
      /\ UNCHANGED <<health, saved, asked, child, aborted, activeBrowserTasks,
                     parents, activeChildren, finished>>
      /\ UNCHANGED resultVars
  BY DEF Repair, Goto, healthVars, childVars, resultVars
<1>2. /\ at[c] = "idle" /\ started' \in 0..MaxStarted
      /\ activeBrowserTasks \subseteq Sessions \X BrowserTasks \X Calls
  BY <1>1, ResultAssumption DEF Made, IInv, CallsOK, CallsType
<1>3. PICK t \in [session : Sessions, role : Roles, target : Children \cup {NoChild}] :
         t = [session |-> s, role |-> "supervisor", target |-> NoChild]
  BY DEF Roles
<1>4. "creating" \in Places \ {"idle", "running"} /\ t.role # "browser"
  BY <1>3 DEF Places
<1>5. child' = [child EXCEPT ![c] = NoChild] /\ child[c] = NoChild
  BY <1>1, <1>2, StillNone, NotRunning DEF IInv
<1>6. CallsOK' /\ OthersSame(c) /\ at'[c] = "creating"
  <2>1. GoesOn(c, "creating", t)
    BY <1>1, <1>2, <1>3, <1>4, <1>5 DEF GoesOn
  <2> QED
    BY <2>1, GoesOnStep DEF IInv
<1>7. RowsOK'
  BY RefusalStep DEF IInv
<1>8. UtilityOK' /\ CountsOK'
  BY <1>1, <1>2, <1>5, <1>6, UtilitySame, CountsSame DEF IInv, OthersSame
<1>9. ResultsOK'
  BY <1>1, ResultsSame DEF IInv, CallsOK, CallsType
<1> QED
  BY <1>6, <1>7, <1>8, <1>9 DEF IInv

\* Time passes, or a binding without a claim is reset: no claim begins or ends.
LEMMA TableStepKeeps == ASSUME IInv, TableStep PROVE IInv'
<1>1. /\ UNCHANGED <<started, task, at, asked, child, aborted, activeBrowserTasks,
                     parents, activeChildren, finished>>
      /\ UNCHANGED rowVars /\ UNCHANGED resultVars
  BY DEF TableStep, callVars, childVars, resultVars
<1>2. health \in [Bindings -> Entries] /\ saved \in [Bindings -> Rows]
  BY DEF IInv, UtilityOK, HealthTypeOK
<1>3. /\ HealthTypeOK'
      /\ \A b \in Bindings : InFlight(health, b)' <=> InFlight(health, b)
  <2>1. CASE Tick
    <3>1. ASSUME NEW e \in Entries, e.state = "cooling"
          PROVE  CoolingFor(e.left - 1) \in Rows /\ CoolingFor(e.left - 1).state # "probe"
      <4>1. e.left \in Nat \ {0}
        BY <3>1 DEF Entries, Available, Quarantined, Probe
      <4> QED
        BY <4>1 DEF CoolingFor, Rows, Entries, Available, Quarantined, Probe
    <3>2. Rows \subseteq Entries
      BY DEF Rows
    <3> HIDE DEF CoolingFor, Rows, Entries
    <3>3. health' = Later(health) /\ saved' = Later(saved)
      BY <2>1 DEF Tick
    <3>4. health' \in [Bindings -> Entries] /\ saved' \in [Bindings -> Rows]
      BY <1>2, <3>1, <3>2, <3>3 DEF Later
    <3>5. \A b \in Bindings : InFlight(health, b)' <=> InFlight(health, b)
      BY <1>2, <3>1, <3>3 DEF Later, InFlight
    <3> QED
      BY <3>4, <3>5 DEF HealthTypeOK
  <2>2. ASSUME NEW b \in Bindings, Reset(b)
        PROVE  /\ HealthTypeOK'
               /\ \A d \in Bindings : InFlight(health, d)' <=> InFlight(health, d)
    <3>1. ~InFlight(health, b) /\ health' = [health EXCEPT ![b] = Available]
      BY <2>2 DEF Reset
    <3>2. Available \in Rows /\ Available \in Entries /\ Available.state # "probe"
      BY DEF Rows, Entries, Available, Probe
    <3>3. health'[b] = Available
      BY <1>2, <3>1
    <3>4. saved' \in {saved, [saved EXCEPT ![b] = Available]}
      BY <2>2, <3>3 DEF Reset, PersistOutcomes, Persisted
    <3> QED
      BY <1>2, <3>1, <3>2, <3>4 DEF HealthTypeOK, InFlight
  <2> QED
    BY <2>1, <2>2 DEF TableStep
<1>4. UtilityOK'
  BY <1>1, <1>3 DEF IInv, UtilityOK, Asked
<1>5. RowsOK' /\ CountsOK'
  BY <1>1, RowsSame, CountsSame DEF IInv
<1>6. CallsOK'
  BY <1>1 DEF IInv, CallsOK, CallsType, CallOK, Children
<1>7. ResultsOK'
  BY <1>1, ResultsSame DEF IInv, CallsOK, CallsType
<1> QED
  BY <1>4, <1>5, <1>6, <1>7 DEF IInv

-----------------------------------------------------------------------------
(* The theorems.                                                           *)

\* No step of the program breaks the invariant.
LEMMA NextStep == ASSUME IInv, [Next]_vars PROVE IInv'
<1>1. ASSUME NEW c \in Calls, CallStep(c) PROVE IInv'
  <2>1. CASE \/ Cancel(c) \/ ChildCreated(c) \/ PooledFails(c) \/ Answers(c)
             \/ BrowserBegins(c) \/ BrowserEnds(c)
             \/ UtilityAnswers(c) \/ UtilityFails(c) \/ UtilityInterrupted(c)
    BY <2>1, CancelStep, ChildCreatedStep, PooledFailsStep, AnswersStep, BrowserBeginsStep,
       BrowserEndsStep, UtilityAnswersStep, UtilityEndsStep
  <2>2. ASSUME NEW s \in Sessions,
               \/ StartAgent(s, c) \/ StartUtility(s, c) \/ EndsAtOnce(s, c)
               \/ \E k \in BrowserTasks : StartBrowser(s, c, k)
               \/ \E f \in Faults : Reject(s, c, f) \/ Repair(s, c, f)
        PROVE  IInv'
    BY <2>2, StartStep, StartUtilityStep, EndsAtOnceStep, RepairStep
  <2> QED
    BY <1>1, <2>1, <2>2 DEF CallStep
<1>2. CASE UNCHANGED vars
  <2>1. /\ UNCHANGED <<health, saved, started, task, at, asked, child, aborted,
                       activeBrowserTasks, parents, activeChildren, finished>>
        /\ UNCHANGED rowVars /\ UNCHANGED resultVars
    BY <1>2 DEF vars, healthVars, callVars, childVars, resultVars
  <2>2. UtilityOK' /\ CountsOK'
    BY <2>1, UtilitySame, CountsSame DEF IInv
  <2>3. RowsOK'
    BY <2>1 DEF IInv, RowsOK, rowVars
  <2>4. CallsOK'
    BY <2>1 DEF IInv, CallsOK, CallsType, CallOK, Children
  <2>5. ResultsOK'
    BY <2>1, ResultsSame DEF IInv, CallsOK, CallsType
  <2> QED
    BY <2>2, <2>3, <2>4, <2>5 DEF IInv
<1> QED
  BY <1>1, <1>2, TableStepKeeps DEF Next

\* The invariant holds when the plugin has started.
LEMMA InitStep == ASSUME Init PROVE IInv
<1> USE DEF Init
<1>1. UtilityOK
  <2>1. Available \in Entries /\ Available \in Rows /\ Available.state # "probe"
    BY DEF Entries, Rows, Available, Probe
  <2>2. HealthTypeOK /\ \A b \in Bindings : ~InFlight(health, b)
    BY <2>1 DEF HealthInit, HealthTypeOK, InFlight
  <2> QED
    BY <2>2, ModelsOK DEF UtilityOK
<1>2. RowsOK
  BY ResultAssumption DEF RowsOK, NoRow
<1>3. CountsOK
  <2>1. \A s \in Sessions : WithChild(s) = {}
    BY DEF WithChild
  <2> QED
    BY <2>1, FS_EmptySet DEF CountsOK
<1>4. parents \in Seq([session : Sessions, role : Roles]) /\ Len(parents) = 0
  OBVIOUS
<1>5. CallsOK
  <2>1. CallsType
    BY <1>4, ResultAssumption DEF CallsType, Children, NoTask, Places
  <2>2. \A c \in Calls : CallOK(c)
    BY DEF CallOK, NoTask
  <2> QED
    BY <2>1, <2>2 DEF CallsOK
<1>6. ResultsOK
  <2>1. /\ finished \in Seq(Nat) /\ completedResults \in Seq(Nat) /\ DOMAIN finished = {}
        /\ DOMAIN completedResults = {} /\ Len(finished) = 0 /\ Len(completedResults) = 0
    OBVIOUS
  <2>2. Range(finished) = {} /\ IsInjective(finished) /\ IsInjective(completedResults)
    BY <2>1 DEF Range, IsInjective
  <2>3. InOrder(completedResults, finished) /\ RecentResultsKept
    BY <2>1 DEF InOrder, Order, RecentResultsKept
  <2>4. scores \in [1..MaxChildren -> Nat] /\ \A k \in 1..MaxChildren : ~(scores[k] > 0)
    OBVIOUS
  <2> QED
    BY <2>1, <2>2, <2>3, <2>4, ResultAssumption DEF ResultsOK
<1> QED
  BY <1>1, <1>2, <1>3, <1>5, <1>6 DEF IInv

\* The invariant that carries the theorems about role tasks: whatever calls are made,
\* refused, repaired, cancelled or answered, in any order.
THEOREM Inductive == Spec => []IInv
BY InitStep, NextStep, PTL DEF Spec

\* Every result kept is one that was finished.
LEMMA KeptWereFinished ==
    ASSUME ResultsOK
    PROVE  Range(completedResults) \subseteq Range(finished)
<1>1. /\ Range(completedResults) = Values(completedResults, Len(completedResults))
      /\ Range(finished) = Values(finished, Len(finished))
  BY SeqParts DEF ResultsOK
<1>2. \A j \in 1..Len(completedResults) :
        \E i \in 1..Len(finished) : finished[i] = completedResults[j]
  BY DEF ResultsOK, InOrder, Order
<1> QED
  BY <1>1, <1>2 DEF Values

\* A utility binding is claimed exactly while one call asks it (the claims of
\* runUtilityModel), a result that is no longer kept for review was scored or is older
\* than as many others as are kept (rememberCompletedResult), and arguments are repaired
\* once in a row of refusals (rejectTaskArguments): whatever calls run in parallel.
THEOREM CallsAreAccounted == Spec => []Inv
<1>1. ASSUME IInv PROVE Inv
  <2>1. ClaimsHeld
    <3> SUFFICES ASSUME NEW b \in Bindings
                 PROVE  Cardinality({c \in Calls : at[c] = "asking" /\ Asked(c) = b})
                          = (IF InFlight(health, b) THEN 1 ELSE 0)
      BY DEF ClaimsHeld
    <3> DEFINE askers == {c \in Calls : at[c] = "asking" /\ Asked(c) = b}
    <3>1. InFlight(health, b) <=> askers # {}
      BY <1>1 DEF IInv, UtilityOK
    <3>2. \A c, d \in askers : c = d
      <4>1. ASSUME NEW c \in askers, NEW d \in askers PROVE asked[c] = asked[d] /\ asked[c] # 0
        BY <1>1, ModelsOK DEF IInv, UtilityOK, Asked
      <4> QED
        BY <1>1, <4>1 DEF IInv, UtilityOK
    <3>3. CASE askers = {}
      BY <3>1, <3>3, FS_EmptySet
    <3>4. ASSUME NEW c \in askers PROVE Cardinality(askers) = 1 /\ InFlight(health, b)
      <4>1. askers = {c}
        BY <3>2
      <4> QED
        BY <3>1, <4>1, FS_Singleton
    <3> QED
      BY <3>1, <3>3, <3>4
  <2>2. TypeOK
    <3>1. Range(completedResults) \subseteq Children
      BY <1>1, KeptWereFinished DEF IInv, ResultsOK
    <3>2. /\ HealthTypeOK /\ asked \in [Calls -> 0..Len(UtilityModels)]
          /\ activeChildren \in [Sessions -> Nat] /\ CallsType
          /\ scores \in [1..MaxChildren -> Nat] /\ Range(finished) \subseteq Children
      BY <1>1 DEF IInv, UtilityOK, CountsOK, CallsOK, ResultsOK
    <3>3. repairs \in [Sessions -> Nat]
      BY <1>1 DEF IInv, RowsOK
    <3>4. taskArgumentFailures \in
             [Sessions -> [fault : Faults \cup {NoFault}, count : 0..RepairAfter,
                           recoveryTried : BOOLEAN]]
      BY <1>1 DEF IInv, RowsOK
    <3> QED
      BY <3>1, <3>2, <3>3, <3>4 DEF TypeOK, CallsType
  <2>3. RepairedOnce
    BY <1>1 DEF RepairedOnce, IInv, RowsOK
  <2>4. RecentResultsKept
    BY <1>1 DEF IInv, ResultsOK
  <2> QED
    BY <2>1, <2>2, <2>3, <2>4 DEF Inv
<1> QED
  BY <1>1, Inductive, PTL

\* performCompaction never goes on for a session that has a child running or a Browser
\* task under way, however its calls begin, fail, are cancelled or end.
THEOREM CompactionIsAlone == Spec => []CompactsAlone
<1>1. ASSUME IInv, NEW s \in Sessions, MayCompact(s), NEW c \in Calls, task[c].session = s
      PROVE  at[c] \notin {"beginning", "running", "finishing"}
  <2>1. CallOK(c)
    BY <1>1 DEF IInv, CallsOK
  <2>2. ASSUME at[c] \in {"beginning", "finishing"} PROVE FALSE
    <3>1. PICK k \in BrowserTasks : <<s, k, c>> \in activeBrowserTasks
      BY <1>1, <2>1, <2>2 DEF CallOK
    <3> QED
      BY <1>1, <3>1 DEF MayCompact
  <2>3. ASSUME at[c] = "running" PROVE FALSE
    <3>1. c \in WithChild(s)
      BY <1>1, <2>1, <2>3 DEF CallOK, WithChild
    <3>2. IsFiniteSet(WithChild(s)) /\ Cardinality(WithChild(s)) = 0
      BY <1>1 DEF IInv, CountsOK, MayCompact
    <3> QED
      BY <3>1, <3>2, FS_EmptySet
  <2> QED
    BY <2>2, <2>3
<1>2. IInv => CompactsAlone
  BY <1>1 DEF CompactsAlone
<1> QED
  BY <1>2, Inductive, PTL

\* A step of the program either leaves the results alone or is a child's answer.
LEMMA OnlyAnswers ==
    ASSUME [Next]_vars
    PROVE  \/ UNCHANGED <<finished, completedResults, scores>>
           \/ \E c \in Calls : Answers(c)
<1>1. ASSUME NEW c \in Calls, CallStep(c)
      PROVE  UNCHANGED resultVars \/ Answers(c)
  <2>1. CASE Cancel(c) \/ ChildCreated(c) \/ PooledFails(c) \/ BrowserBegins(c) \/ BrowserEnds(c)
    BY <2>1 DEF Cancel, ChildCreated, PooledFails, BrowserBegins, BrowserEnds
  <2>2. CASE UtilityAnswers(c) \/ UtilityFails(c) \/ UtilityInterrupted(c)
    BY <2>2 DEF UtilityAnswers, UtilityFails, UtilityInterrupted, utilityUnchanged
  <2>3. ASSUME NEW s \in Sessions,
               \/ StartAgent(s, c) \/ StartUtility(s, c) \/ EndsAtOnce(s, c)
               \/ \E k \in BrowserTasks : StartBrowser(s, c, k)
               \/ \E f \in Faults : Reject(s, c, f) \/ Repair(s, c, f)
        PROVE  UNCHANGED resultVars
    BY <2>3 DEF StartAgent, Accept, StartUtility, EndsAtOnce, StartBrowser, Reject, Repair
  <2> QED
    BY <1>1, <2>1, <2>2, <2>3 DEF CallStep
<1>2. CASE TableStep
  BY <1>2 DEF TableStep, resultVars
<1> QED
  BY <1>1, <1>2 DEF Next, vars, resultVars

\* A call whose place is changed by a step of another call has not moved.
LEMMA OneMoves ==
    ASSUME at \in [Calls -> Places], NEW d \in Calls, CallStep(d), NEW c \in Calls, c # d
    PROVE  at'[c] = at[c]
<1>1. \A place \in Places : Goto(d, place) => at'[c] = at[c]
  BY DEF Goto
<1>2. Places = {"idle", "beginning", "finishing", "creating", "running", "asking"}
  BY DEF Places
<1>3. End(d) => at'[c] = at[c]
  BY <1>1, <1>2 DEF End
<1>4. \A i, h : TryFrom(d, i, h) => at'[c] = at[c]
  BY <1>1, <1>2, <1>3 DEF TryFrom
<1> HIDE DEF Goto, End, TryFrom
<1>5. CASE Cancel(d) \/ ChildCreated(d) \/ PooledFails(d) \/ BrowserBegins(d) \/ BrowserEnds(d)
  BY <1>1, <1>2, <1>3, <1>5 DEF Cancel, ChildCreated, PooledFails, AfterFailure, BrowserBegins,
                                BrowserEnds
<1>6. CASE Answers(d)
  BY <1>1, <1>2, <1>3, <1>6 DEF Answers, AfterAnswer, Corrected
<1>7. CASE UtilityAnswers(d) \/ UtilityFails(d) \/ UtilityInterrupted(d)
  BY <1>3, <1>4, <1>7 DEF UtilityAnswers, UtilityFails, UtilityInterrupted, AfterUtilityFailure
<1>8. ASSUME NEW s \in Sessions,
             \/ StartAgent(s, d) \/ StartUtility(s, d) \/ EndsAtOnce(s, d)
             \/ \E k \in BrowserTasks : StartBrowser(s, d, k)
             \/ \E f \in Faults : Reject(s, d, f) \/ Repair(s, d, f)
      PROVE  at'[c] = at[c]
  BY <1>1, <1>2, <1>8 DEF StartAgent, StartUtility, EndsAtOnce, StartBrowser, Reject, Repair
<1> QED
  BY <1>5, <1>6, <1>7, <1>8 DEF CallStep

\* A cancelled call moves only by a failure or by an interruption of its own.
LEMMA CancelledMoves ==
    ASSUME NEW c \in Calls, CallStep(c), at[c] = "asking", aborted[c],
           at \in [Calls -> Places], at'[c] = "idle"
    PROVE  UtilityInterrupted(c)
<1>1. ~Cancel(c) /\ ~ChildCreated(c) /\ ~PooledFails(c) /\ ~Answers(c)
      /\ ~BrowserBegins(c) /\ ~BrowserEnds(c) /\ ~UtilityAnswers(c) /\ ~UtilityFails(c)
  BY DEF Cancel, ChildCreated, PooledFails, Answers, BrowserBegins, BrowserEnds,
         UtilityAnswers, UtilityFails
<1>2. ASSUME NEW s \in Sessions
      PROVE  /\ ~StartAgent(s, c) /\ ~StartUtility(s, c) /\ ~EndsAtOnce(s, c)
             /\ \A k \in BrowserTasks : ~StartBrowser(s, c, k)
             /\ \A f \in Faults : ~Reject(s, c, f) /\ ~Repair(s, c, f)
  BY DEF StartAgent, Accept, StartUtility, EndsAtOnce, StartBrowser, Reject, Repair, Made
<1> QED
  BY <1>1, <1>2 DEF CallStep

\* The verdict of a Reviewer is recorded once for a target that an Implementer of the
\* Reviewer's own session finished, whatever Reviewers answer at once.
THEOREM VerdictsCountOnce == Spec => ScoredOnce
<1> DEFINE Recorded(k) ==
              /\ scores[k] = 0 /\ k \in Range(finished)
              /\ parents[k].role = "implementer"
              /\ \E c \in Calls : at[c] = "running" /\ at'[c] = "idle"
                     /\ parents[child[c]] = [session |-> parents[k].session,
                                             role |-> "reviewer"]
<1>1. ASSUME IInv, [Next]_vars, NEW k \in Children, scores'[k] # scores[k]
      PROVE  Recorded(k)
  <2>1. PICK c \in Calls : Answers(c)
    BY <1>1, OnlyAnswers
  <2>2. /\ Reviewable(task[c]) /\ at[c] = "running" /\ AfterAnswer(c)
        /\ scores' = [scores EXCEPT ![task[c].target] = scores[task[c].target] + 1]
    BY <1>1, <2>1 DEF Answers
  <2>3. scores \in [1..MaxChildren -> Nat] /\ CallOK(c) /\ at \in [Calls -> Places]
    BY <1>1 DEF IInv, ResultsOK, CallsOK, CallsType
  <2>4. k = task[c].target
    BY <1>1, <2>2, <2>3
  <2>5. /\ k \in Range(completedResults) /\ task[c].role = "reviewer"
        /\ parents[k] = [session |-> task[c].session, role |-> "implementer"]
    BY <2>2, <2>4 DEF Reviewable
  <2>6. k \in Range(finished) /\ scores[k] = 0
    <3>1. k \in 1..MaxChildren
      BY <1>1, ResultAssumption DEF IInv, CallsOK, CallsType, Children
    <3>2. k \in Range(finished) /\ ~(scores[k] > 0)
      BY <1>1, <2>5, <3>1, KeptWereFinished DEF IInv, ResultsOK
    <3> QED
      BY <2>3, <3>1, <3>2
  <2>7. at'[c] = "idle"
    BY <2>2, <2>3, <2>5 DEF AfterAnswer, End, Goto
  <2>8. parents[child[c]] = [session |-> task[c].session, role |-> "reviewer"]
    BY <2>2, <2>3, <2>5 DEF CallOK
  <2> QED
    BY <2>2, <2>5, <2>6, <2>7, <2>8
<1>2. IInv /\ [Next]_vars =>
         [\A k \in Children : scores'[k] # scores[k] => Recorded(k)]_vars
  BY <1>1
<1> QED
  BY <1>2, Inductive, PTL DEF Spec, ScoredOnce

\* A cancelled call has no result that is kept for review, and the end of its request
\* leaves the model available (the abort signal in runUtilityModel and in pooledTask).
THEOREM CancellationSaysNothing == Spec => CancelledIsNeutral
<1> DEFINE Neutral(c) ==
              /\ child[c] \in Range(finished') => child[c] \in Range(finished)
              /\ at[c] = "asking" /\ at'[c] = "idle" =>
                    health'[Asked(c)] = Available
<1>1. ASSUME IInv, [Next]_vars, NEW c \in Calls, aborted[c]
      PROVE  Neutral(c)
  <2>1. ASSUME child[c] \in Range(finished'), child[c] \notin Range(finished) PROVE FALSE
    <3>1. PICK d \in Calls : Answers(d)
      BY <1>1, <2>1, OnlyAnswers
    <3>2. /\ finished' = Append(finished, child[d]) /\ d # c /\ child[d] # NoChild
          /\ at[d] = "running"
      BY <1>1, <3>1, NotRunning DEF Answers, IInv
    <3>3. child[d] # child[c]
      BY <1>1, <3>2 DEF IInv, CallsOK
    <3>4. PICK k \in Nat : k = child[d]
      BY <1>1, NotRunning DEF IInv
    <3>5. finished \in Seq(Nat) /\ finished' = Append(finished, k)
      BY <1>1, <3>2, <3>4 DEF IInv, ResultsOK
    <3>6. \A i \in DOMAIN finished' :
             finished'[i] = k \/ (i \in DOMAIN finished /\ finished'[i] = finished[i])
      BY <3>5
    <3> QED
      BY <2>1, <3>3, <3>4, <3>6 DEF Range
  <2>2. ASSUME at[c] = "asking", at'[c] = "idle" PROVE health'[Asked(c)] = Available
    <3>1. at \in [Calls -> Places]
      BY <1>1, NotRunning DEF IInv
    <3>2. at' # at
      BY <2>2
    <3>3. PICK d \in Calls : CallStep(d)
      BY <1>1, <3>2 DEF Next, TableStep, callVars, vars
    <3>4. d = c
      BY <2>2, <3>1, <3>3, OneMoves
    <3>5. UtilityInterrupted(c)
      BY <1>1, <2>2, <3>1, <3>3, <3>4, CancelledMoves
    <3>6. health' = Failed(health, Asked(c), "non_provider", 0)
      BY <3>5 DEF UtilityInterrupted, AfterUtilityFailure, HealthCategories
    <3>7. "non_provider" \in Categories /\ 0 \in Nat
      BY DEF Categories
    <3> QED
      BY <1>1, <2>2, <3>6, <3>7, AskedIsClaimed, FailedEndsClaim DEF IInv
  <2> QED
    BY <2>1, <2>2
<1>2. IInv /\ [Next]_vars => [\A c \in Calls : aborted[c] => Neutral(c)]_vars
  BY <1>1
<1> QED
  BY <1>2, Inductive, PTL DEF Spec, CancelledIsNeutral

===============================================================================
