-------------------------- MODULE PooledTask_proofs --------------------------
(***************************************************************************)
(* The pooled task runner, for any number of tasks, bindings and ticks.    *)
(*                                                                         *)
(* First the claims.  The inductive invariant IInv is the type invariant   *)
(* together with the two halves of the claim discipline: a binding is in   *)
(* flight exactly when a task has an attempt on it, and no two tasks have  *)
(* one on the same binding.  The first half is what makes the second       *)
(* inductive: a claim is only given for a binding that is not in flight,   *)
(* hence nobody's.                                                         *)
(*                                                                         *)
(* Then what a single call does with its child and its list of attempts    *)
(* (TaskOK), from which the action properties follow, and last the rows of *)
(* the database, which mirror the table while they can be written.         *)
(***************************************************************************)
EXTENDS PooledTask, TLAPS

Assumptions == /\ NoBinding \notin Bindings
               /\ Cooldown \in Nat /\ RetryAfters \subseteq Nat
               /\ Pool \in Seq(Bindings)
               /\ Coordinator \in Bindings \cup {NoBinding}
               /\ BrowserTasks \subseteq Tasks

HealthMaps == [Bindings -> Entries]
RowMaps == [Bindings -> Rows]

\* The claims of the table h are those of the tasks other than t.
HeldByOthers(h, t) ==
    \A b \in Bindings :
        InFlight(h, b) <=> \E u \in Tasks \ {t} : Holding(u) /\ Current(u) = b

IInv == TypeOK /\ ClaimExclusive /\ ClaimsAccounted

\* The constants are what the specification assumes of them.
LEMMA ConstantsOK == Assumptions
BY BindingAssumption, CooldownAssumption, PoolAssumption,
   CoordinatorAssumption, TaskAssumption DEF Assumptions

\* A failed attempt leaves a well-formed table in which its binding is no longer
\* in flight and every other entry is unchanged.
LEMMA FailedEndsClaim ==
    ASSUME NEW h \in HealthMaps, NEW b \in Bindings,
           NEW category \in Categories, NEW retryAfter \in Nat
    PROVE  /\ Failed(h, b, category, retryAfter) \in HealthMaps
           /\ ~InFlight(Failed(h, b, category, retryAfter), b)
           /\ \A c \in Bindings \ {b} :
                Failed(h, b, category, retryAfter)[c] = h[c]
<1> DEFINE new == Failed(h, b, category, retryAfter)
<1>0. Cooldown \in Nat
  BY ConstantsOK DEF Assumptions
<1>1. CASE category = "transient"
  <2> DEFINE n == Larger(Cooldown, retryAfter)
  <2>1. n \in Nat
    BY <1>0 DEF Larger
  <2>2. new = [h EXCEPT ![b] = CoolingFor(n)]
    BY <1>1 DEF Failed
  <2>3. CoolingFor(n) \in Entries /\ CoolingFor(n).state # "probe"
    BY <2>1 DEF CoolingFor, Entries, Available, Quarantined, Probe
  <2> QED
    BY <2>2, <2>3 DEF HealthMaps, InFlight
<1>2. CASE category \in {"defective", "configuration"}
  <2>1. new = [h EXCEPT ![b] = Quarantined]
    BY <1>2 DEF Failed
  <2>2. Quarantined \in Entries /\ Quarantined.state # "probe"
    BY DEF Quarantined, Entries
  <2> QED
    BY <2>1, <2>2 DEF HealthMaps, InFlight
<1>3. CASE category \notin {"transient", "defective", "configuration"}
  <2>1. new = Released(h, b)
    BY <1>3 DEF Failed
  <2>2. Available \in Entries /\ Available.state # "probe"
    BY DEF Available, Entries
  <2> QED
    BY <2>1, <2>2 DEF HealthMaps, InFlight, Released
<1> QED
  BY <1>1, <1>2, <1>3

\* Saving a well-formed table leaves well-formed rows.
LEMMA PersistType ==
    ASSUME NEW rows \in RowMaps, NEW h \in HealthMaps, NEW b \in Bindings,
           NEW new \in PersistOutcomes(rows, h, b)
    PROVE  new \in RowMaps
<1>1. InFlight(h, b) \/ h[b] \in Rows
  BY DEF InFlight, HealthMaps, Rows, Probe
<1> QED
  BY <1>1 DEF PersistOutcomes, Persisted, RowMaps

\* Once the attempt of t is over, the claims left are those of the others.
LEMMA OthersKeepClaims ==
    ASSUME IInv, NEW t \in Tasks, Holding(t),
           NEW h \in HealthMaps, ~InFlight(h, Current(t)),
           \A c \in Bindings \ {Current(t)} : h[c] = health[c]
    PROVE  HeldByOthers(h, t)
<1> SUFFICES ASSUME NEW b \in Bindings
             PROVE  InFlight(h, b) <=>
                      \E u \in Tasks \ {t} : Holding(u) /\ Current(u) = b
  BY DEF HeldByOthers
<1>1. CASE b = Current(t)
  BY <1>1 DEF IInv, ClaimExclusive
<1>2. CASE b # Current(t)
  <2>1. InFlight(h, b) <=> InFlight(health, b)
    BY <1>2 DEF InFlight
  <2>2. InFlight(health, b) <=> \E u \in Tasks : Holding(u) /\ Current(u) = b
    BY DEF IInv, ClaimsAccounted
  <2> QED
    BY <2>1, <2>2, <1>2
<1> QED
  BY <1>1, <1>2

\* The variables the loop changes, apart from the health table, have their types.
LoopTypeOK ==
    /\ pc \in [Tasks -> Pcs]
    /\ attempts \in [Tasks -> Seq(Bindings)]
    /\ index \in [Tasks -> Nat]
    /\ \A t \in Tasks : Holding(t) => index[t] \in DOMAIN attempts[t]
    /\ reserve \in [Tasks -> Bindings \cup {NoBinding}]
    /\ error \in [Tasks -> Errors]
    /\ outcome \in [Tasks -> Outcomes]
    /\ tried \in [Tasks -> SUBSET Bindings]

\* A task that ends or goes to the rollback holds nothing.
LEMMA EndLoopStep ==
    ASSUME IInv, NEW t \in Tasks, NEW h \in HealthMaps, HeldByOthers(h, t),
           NEW dispatched \in BOOLEAN, NEW result \in Outcomes,
           health' = h, EndLoop(t, dispatched, result) \/ Settle(t, result)
    PROVE  LoopTypeOK' /\ ClaimExclusive' /\ ClaimsAccounted' /\ health' \in HealthMaps
<1> DEFINE Ended == /\ pc' = [pc EXCEPT ![t] = "idle"]
                    /\ attempts' = [attempts EXCEPT ![t] = <<>>]
                    /\ index' = [index EXCEPT ![t] = 0]
                    /\ reserve' = [reserve EXCEPT ![t] = NoBinding]
                    /\ tried' = [tried EXCEPT ![t] = {}]
           Waits == /\ pc' = [pc EXCEPT ![t] = "rollback"]
                    /\ UNCHANGED <<attempts, index, reserve, tried>>
<1>1. LoopTypeOK' /\ ~Holding(t)'
         /\ \A u \in Tasks \ {t} : Holding(u)' = Holding(u) /\ Current(u)' = Current(u)
  <2>1. /\ Ended \/ Waits
        /\ outcome' = [outcome EXCEPT ![t] = result]
        /\ error' = [error EXCEPT ![t] = NoError]
    BY DEF EndLoop, Settle, control
  <2>2. NoError \in Errors
    BY DEF NoError, Errors, Categories, HealthCategories
  <2>3. outcome' \in [Tasks -> Outcomes] /\ error' \in [Tasks -> Errors]
    BY <2>1, <2>2 DEF IInv, TypeOK
  <2>4. CASE Ended
    <3>1. /\ pc' \in [Tasks -> Pcs] /\ index' \in [Tasks -> Nat]
          /\ attempts' \in [Tasks -> Seq(Bindings)]
          /\ reserve' \in [Tasks -> Bindings \cup {NoBinding}]
          /\ tried' \in [Tasks -> SUBSET Bindings]
      BY <2>4 DEF IInv, TypeOK, Pcs
    <3>2. /\ ~Holding(t)'
          /\ \A u \in Tasks \ {t} :
               /\ Holding(u)' = Holding(u) /\ Current(u)' = Current(u)
               /\ index'[u] = index[u] /\ attempts'[u] = attempts[u]
      BY <2>4 DEF IInv, TypeOK, Holding, HoldingPcs, AwaitingModel, Current
    <3> QED
      BY <2>3, <3>1, <3>2 DEF IInv, TypeOK, LoopTypeOK
  <2>5. CASE Waits
    <3>1. pc' \in [Tasks -> Pcs]
      BY <2>5 DEF IInv, TypeOK, Pcs
    <3>2. /\ ~Holding(t)'
          /\ \A u \in Tasks \ {t} :
               Holding(u)' = Holding(u) /\ Current(u)' = Current(u)
      BY <2>5 DEF IInv, TypeOK, Holding, HoldingPcs, AwaitingModel, Current
    <3> QED
      BY <2>3, <2>5, <3>1, <3>2 DEF IInv, TypeOK, LoopTypeOK
  <2> QED
    BY <2>1, <2>4, <2>5
<1>2. ClaimExclusive'
  BY <1>1 DEF IInv, ClaimExclusive
<1>3. ClaimsAccounted'
  BY <1>1 DEF ClaimsAccounted, HeldByOthers, InFlight
<1> QED
  BY <1>1, <1>2, <1>3

\* The next attempt, or the end of the loop, keeps the claim discipline.
LEMMA NextAttemptStep ==
    ASSUME IInv, NEW t \in Tasks, NEW h \in HealthMaps, HeldByOthers(h, t),
           NEW i \in Nat \ {0}, NEW result \in Outcomes,
           NextAttempt(t, h, i, result)
    PROVE  LoopTypeOK' /\ ClaimExclusive' /\ ClaimsAccounted' /\ health' \in HealthMaps
<1>1. ASSUME NEW j \in i..Len(attempts[t]),
             Eligible(h, attempts[t][j]),
             health' = Claimed(h, attempts[t][j]),
             pc' = [pc EXCEPT ![t] = "preparing"],
             index' = [index EXCEPT ![t] = j],
             error' = [error EXCEPT ![t] = NoError],
             UNCHANGED <<attempts, reserve, tried, outcome>>
      PROVE  LoopTypeOK' /\ ClaimExclusive' /\ ClaimsAccounted' /\ health' \in HealthMaps
  <2> DEFINE b == attempts[t][j]
  <2>1. attempts[t] \in Seq(Bindings) /\ j \in DOMAIN attempts[t] /\ j \in Nat
    BY <1>1 DEF IInv, TypeOK
  <2>2. b \in Bindings
    BY <2>1
  <2>3. NoError \in Errors
    BY DEF NoError, Errors, Categories, HealthCategories
  <2>4. /\ \A u \in Tasks \ {t} : Holding(u)' = Holding(u) /\ Current(u)' = Current(u)
        /\ Holding(t)' /\ Current(t)' = b
    BY <1>1 DEF IInv, TypeOK, Holding, HoldingPcs, Current
  <2>5. LoopTypeOK'
    BY <1>1, <2>1, <2>3, <2>4 DEF IInv, TypeOK, LoopTypeOK, Pcs, HoldingPcs, Holding
  <2>6. health' \in HealthMaps
    <3>1. Probe \in Entries
      BY DEF Probe, Entries
    <3> QED
      BY <1>1, <2>2, <3>1 DEF Claimed, HealthMaps
  <2>7. \A u \in Tasks \ {t} : Holding(u) => Current(u) # b
    BY <1>1, <2>2 DEF HeldByOthers, Eligible, InFlight
  <2>8. ClaimExclusive'
    BY <2>4, <2>7 DEF IInv, ClaimExclusive
  <2>9. \A c \in Bindings : InFlight(health', c) <=> c = b \/ InFlight(h, c)
    BY <1>1, <2>2 DEF Claimed, HealthMaps, InFlight, Probe
  <2>10. ClaimsAccounted'
    BY <2>4, <2>9 DEF ClaimsAccounted, HeldByOthers, InFlight
  <2> QED
    BY <2>5, <2>6, <2>8, <2>10
<1>2. ASSUME health' = h, EndLoop(t, tried[t] # {}, result)
      PROVE  LoopTypeOK' /\ ClaimExclusive' /\ ClaimsAccounted' /\ health' \in HealthMaps
  BY <1>2, EndLoopStep
<1> QED
  BY <1>1, <1>2 DEF NextAttempt

\* Every path through the catch clause keeps the claim discipline.
LEMMA CatchStep ==
    ASSUME IInv, NEW t \in Tasks, Holding(t), NEW e \in Errors,
           NEW stopConfirmed \in BOOLEAN, Catch(t, e, stopConfirmed)
    PROVE  /\ LoopTypeOK' /\ ClaimExclusive' /\ ClaimsAccounted'
           /\ health' \in HealthMaps /\ saved' \in RowMaps
<1> DEFINE b == Current(t)
           seen == IF aborted[t] THEN Cancelled ELSE e
           h == Failed(health, b, seen.category, seen.retryAfter)
           places == NextPlaces(t, seen.category)
           failed == IF tried[t] = {} THEN "preparation_failed" ELSE "failed"
<1>1. b \in Bindings
  BY DEF IInv, TypeOK, Current
<1>2. seen.category \in Categories /\ seen.retryAfter \in Nat
  BY DEF Errors, Cancelled, Categories
<1>3. health \in HealthMaps /\ saved \in RowMaps
  BY DEF IInv, TypeOK, HealthTypeOK, HealthMaps, RowMaps
<1>4. /\ h \in HealthMaps /\ ~InFlight(h, b)
      /\ \A c \in Bindings \ {b} : h[c] = health[c]
  BY <1>1, <1>2, <1>3, FailedEndsClaim
<1>5. HeldByOthers(h, t)
  BY <1>4, OthersKeepClaims
<1>6. saved' \in RowMaps
  <2>1. saved' \in PersistOutcomes(saved, h, b)
    BY DEF Catch, Persist
  <2> QED
    BY <2>1, <1>1, <1>3, <1>4, PersistType
<1>7. places \subseteq Nat \ {0}
  <2>1. index[t] \in Nat
    BY DEF IInv, TypeOK
  <2> QED
    BY <2>1 DEF NextPlaces
<1>8. \/ \E result \in Outcomes :
           health' = h /\ EndLoop(t, tried[t] # {}, result)
      \/ \E i \in places : NextAttempt(t, h, i, failed)
  <2>1. failed \in Outcomes /\ "stop_unconfirmed" \in Outcomes
        /\ "browser_unverified" \in Outcomes
    BY DEF Outcomes
  <2>2. CASE ~stopConfirmed
    BY <2>1, <2>2 DEF Catch
  <2>3. CASE stopConfirmed /\ effect[t] = "recorded"
    BY <2>1, <2>3 DEF Catch
  <2>4. CASE stopConfirmed /\ effect[t] # "recorded" /\ places = {}
    BY <2>1, <2>4 DEF Catch
  <2>5. CASE ~(~stopConfirmed) /\ ~(stopConfirmed /\ effect[t] = "recorded")
             /\ ~(stopConfirmed /\ effect[t] # "recorded" /\ places = {})
    BY <2>5 DEF Catch
  <2> QED
    BY <2>2, <2>3, <2>4, <2>5
<1>9. failed \in Outcomes
  BY DEF Outcomes
<1>10. LoopTypeOK' /\ ClaimExclusive' /\ ClaimsAccounted' /\ health' \in HealthMaps
  <2>1. CASE \E result \in Outcomes :
               health' = h /\ EndLoop(t, tried[t] # {}, result)
    BY <2>1, <1>4, <1>5, EndLoopStep
  <2>2. CASE \E i \in places : NextAttempt(t, h, i, failed)
    BY <2>2, <1>4, <1>5, <1>7, <1>9, NextAttemptStep
  <2> QED
    BY <2>1, <2>2, <1>8
<1> QED
  BY <1>6, <1>10

\* A step that leaves the claims alone.
LEMMA SameClaims ==
    ASSUME IInv, UNCHANGED <<health, attempts, index>>,
           \A t \in Tasks : Holding(t)' = Holding(t)
    PROVE  ClaimExclusive' /\ ClaimsAccounted'
BY DEF IInv, ClaimExclusive, ClaimsAccounted, Current, InFlight

\* A task that waits for a model and is not stopped moves between waiting places.
LEMMA HoldingStep ==
    ASSUME IInv, NEW t \in Tasks, Holding(t), NEW next \in HoldingPcs,
           pc' = [pc EXCEPT ![t] = next],
           error' \in [Tasks -> Errors], tried' \in [Tasks -> SUBSET Bindings],
           UNCHANGED <<healthVars, attempts, index, reserve, outcome>>
    PROVE  /\ LoopTypeOK' /\ ClaimExclusive' /\ ClaimsAccounted'
           /\ health' \in HealthMaps /\ saved' \in RowMaps
<1>1. pc' \in [Tasks -> Pcs] /\ \A u \in Tasks : Holding(u)' = Holding(u)
  BY DEF IInv, TypeOK, Pcs, Holding
<1>2. LoopTypeOK'
  BY <1>1 DEF IInv, TypeOK, LoopTypeOK
<1> QED
  BY <1>1, <1>2, SameClaims DEF IInv, TypeOK, HealthTypeOK, HealthMaps, RowMaps, healthVars

\* An attempt that fails after its prompt was sent.
LEMMA AttemptFailsStep ==
    ASSUME IInv, NEW t \in Tasks, Holding(t), NEW e \in Errors, AttemptFails(t, e)
    PROVE  /\ LoopTypeOK' /\ ClaimExclusive' /\ ClaimsAccounted'
           /\ health' \in HealthMaps /\ saved' \in RowMaps
<1>1. CASE (e.category = "incomplete" \/ e.timeout) /\ ~aborted[t]
  <2>1. /\ pc' = [pc EXCEPT ![t] = "stopping"]
        /\ error' = [error EXCEPT ![t] = e]
        /\ UNCHANGED <<healthVars, control, outcome>>
    BY <1>1 DEF AttemptFails
  <2>2. /\ error' \in [Tasks -> Errors] /\ tried' \in [Tasks -> SUBSET Bindings]
        /\ "stopping" \in HoldingPcs
        /\ UNCHANGED <<healthVars, attempts, index, reserve, outcome>>
    BY <2>1 DEF IInv, TypeOK, HoldingPcs, control
  <2> QED
    BY <2>1, <2>2, HoldingStep
<1>2. CASE ~((e.category = "incomplete" \/ e.timeout) /\ ~aborted[t])
  BY <1>2, CatchStep DEF AttemptFails
<1> QED
  BY <1>1, <1>2

\* An attempt that succeeds, unless it was cancelled.
LEMMA AttemptSucceedsStep ==
    ASSUME IInv, NEW t \in Tasks, Holding(t), AttemptSucceeds(t)
    PROVE  /\ LoopTypeOK' /\ ClaimExclusive' /\ ClaimsAccounted'
           /\ health' \in HealthMaps /\ saved' \in RowMaps
<1>1. CASE aborted[t]
  <2>1. Cancelled \in Errors
    BY DEF Cancelled, Errors, Categories
  <2> QED
    BY <1>1, <2>1, CatchStep DEF AttemptSucceeds
<1>2. CASE ~aborted[t]
  <2> DEFINE b == Current(t)
  <2>1. b \in Bindings
    BY DEF IInv, TypeOK, Current
  <2>2. health \in HealthMaps /\ saved \in RowMaps
    BY DEF IInv, TypeOK, HealthTypeOK, HealthMaps, RowMaps
  <2>3. /\ health' = Succeeded(health, b) /\ Settle(t, "succeeded")
        /\ saved' \in PersistOutcomes(saved, health', b)
    BY <1>2 DEF AttemptSucceeds, Persist
  <2>4. /\ health' \in HealthMaps /\ ~InFlight(health', b)
        /\ \A c \in Bindings \ {b} : health'[c] = health[c]
    <3>1. Available \in Entries /\ Available.state # "probe"
      BY DEF Available, Entries
    <3> QED
      BY <2>1, <2>2, <2>3, <3>1 DEF Succeeded, HealthMaps, InFlight
  <2>5. HeldByOthers(health', t)
    BY <2>4, OthersKeepClaims
  <2>6. "succeeded" \in Outcomes
    BY DEF Outcomes
  <2>7. LoopTypeOK' /\ ClaimExclusive' /\ ClaimsAccounted'
    BY <2>3, <2>4, <2>5, <2>6, EndLoopStep
  <2>8. saved' \in RowMaps
    BY <2>1, <2>2, <2>3, <2>4, PersistType
  <2> QED
    BY <2>4, <2>7, <2>8
<1> QED
  BY <1>1, <1>2

\* The whole type invariant from the part the loop changes.
LEMMA WholeType ==
    ASSUME LoopTypeOK', health' \in HealthMaps, saved' \in RowMaps,
           aborted' \in [Tasks -> BOOLEAN], effect' \in [Tasks -> Effects],
           running' \in [Tasks -> BOOLEAN]
    PROVE  TypeOK'
BY DEF LoopTypeOK, TypeOK, HealthTypeOK, HealthMaps, RowMaps

\* What the server may answer is an error the catch clause can handle.
LEMMA ErrorTypes ==
    /\ Rejections \subseteq Errors
    /\ NoError \in Errors /\ Incomplete \in Errors /\ Cancelled \in Errors
<1>1. RetryAfters \subseteq Nat /\ {0} \subseteq Nat
  BY ConstantsOK DEF Assumptions
<1>2. {"transient", "non_provider", "defective", "configuration", "unknown",
       "incomplete"} \subseteq Categories
  BY DEF Categories, HealthCategories
<1>3. Rejections \subseteq Errors
  BY <1>1, <1>2 DEF Rejections, Errors
<1>4. NoError \in Errors /\ Incomplete \in Errors /\ Cancelled \in Errors
  BY <1>2 DEF Errors, NoError, Incomplete, Cancelled
<1> QED
  BY <1>3, <1>4

\* The attempts of a call are bindings.
LEMMA AttemptsType ==
    ASSUME NEW h, NEW s \in Selections(h) \cup {<<>>}, NEW r \in Reserves(h)
    PROVE  WithReserve(s, r) \in Seq(Bindings) /\ r \in Bindings \cup {NoBinding}
<1> DEFINE eligible == {b \in Range(Pool) : Eligible(h, b)}
<1>1. eligible \subseteq Bindings
  BY ConstantsOK DEF Assumptions, Range
<1>2. r \in Bindings \cup {NoBinding}
  BY ConstantsOK DEF Assumptions, Reserves
<1>3. s \in Seq(Bindings)
  <2>1. CASE s = <<>>
    BY <2>1
  <2>2. CASE s \in Selections(h)
    <3>1. PICK n \in 0..Len(Pool) : s \in [1..n -> eligible]
      BY <2>2 DEF Selections
    <3>2. n \in Nat /\ s \in [1..n -> Bindings]
      <4>1. Len(Pool) \in Nat
        BY ConstantsOK DEF Assumptions
      <4> QED
        BY <1>1, <3>1, <4>1
    <3> QED
      BY <3>2
  <2> QED
    BY <2>1, <2>2
<1> QED
  BY <1>2, <1>3 DEF WithReserve

\* A step of a task keeps the invariant.
LEMMA TaskStepInv ==
    ASSUME IInv, NEW t \in Tasks, TaskStep(t)
    PROVE  IInv'
<1>1. CASE Start(t)
  <2>1. PICK s \in Selections(health) \cup {<<>>}, r \in Reserves(health) :
          /\ attempts' = [attempts EXCEPT ![t] = WithReserve(s, r)]
          /\ reserve' = [reserve EXCEPT ![t] = r]
    BY <1>1 DEF Start
  <2>2. /\ pc[t] = "idle" /\ pc' = [pc EXCEPT ![t] = "creating"]
        /\ index' = [index EXCEPT ![t] = 0]
        /\ aborted' = [aborted EXCEPT ![t] = FALSE]
        /\ outcome' = [outcome EXCEPT ![t] = "none"]
        /\ effect' = [effect EXCEPT ![t] = "none"]
        /\ tried' = [tried EXCEPT ![t] = {}]
        /\ running' = [running EXCEPT ![t] = FALSE]
        /\ UNCHANGED <<health, saved, error>>
    BY <1>1 DEF Start, healthVars
  <2>3. WithReserve(s, r) \in Seq(Bindings) /\ r \in Bindings \cup {NoBinding}
    BY AttemptsType
  <2>4. /\ attempts' \in [Tasks -> Seq(Bindings)]
        /\ reserve' \in [Tasks -> Bindings \cup {NoBinding}]
    BY <2>1, <2>3 DEF IInv, TypeOK
  <2>5. /\ pc' \in [Tasks -> Pcs] /\ index' \in [Tasks -> Nat]
        /\ aborted' \in [Tasks -> BOOLEAN] /\ outcome' \in [Tasks -> Outcomes]
        /\ effect' \in [Tasks -> Effects] /\ tried' \in [Tasks -> SUBSET Bindings]
        /\ running' \in [Tasks -> BOOLEAN]
    BY <2>2 DEF IInv, TypeOK, Pcs, Outcomes, Effects
  <2>6. /\ ~Holding(t) /\ ~Holding(t)'
        /\ \A u \in Tasks \ {t} :
             /\ Holding(u)' = Holding(u) /\ Current(u)' = Current(u)
             /\ index'[u] = index[u] /\ attempts'[u] = attempts[u]
    BY <2>1, <2>2 DEF IInv, TypeOK, Holding, HoldingPcs, AwaitingModel, Current
  <2>7. TypeOK'
    BY <2>2, <2>4, <2>5, <2>6 DEF IInv, TypeOK, HealthTypeOK
  <2>8. ClaimExclusive'
    BY <2>6 DEF IInv, ClaimExclusive
  <2>9. ClaimsAccounted'
    BY <2>2, <2>6 DEF IInv, ClaimsAccounted, InFlight
  <2> QED
    BY <2>7, <2>8, <2>9 DEF IInv
<1>2. CASE Create(t)
  <2>1. /\ pc[t] = "creating" /\ UNCHANGED <<saved, aborted, effect, running>>
        /\ \/ Settle(t, "abandoned") /\ UNCHANGED health
           \/ NextAttempt(t, health, 1, "unavailable")
    BY <1>2 DEF Create
  <2>2. ~Holding(t) /\ HeldByOthers(health, t) /\ health \in HealthMaps
    BY <2>1 DEF Holding, HoldingPcs, AwaitingModel, HeldByOthers, IInv,
       ClaimsAccounted, TypeOK, HealthTypeOK, HealthMaps, RowMaps
  <2>3. "abandoned" \in Outcomes /\ "unavailable" \in Outcomes
    BY DEF Outcomes
  <2>4. LoopTypeOK' /\ ClaimExclusive' /\ ClaimsAccounted' /\ health' \in HealthMaps
    <3>1. CASE Settle(t, "abandoned") /\ UNCHANGED health
      <4>1. health' = health /\ TRUE \in BOOLEAN
        BY <3>1
      <4> QED
        BY <2>2, <2>3, <3>1, <4>1, EndLoopStep
    <3>2. CASE NextAttempt(t, health, 1, "unavailable")
      <4>1. 1 \in Nat \ {0}
        OBVIOUS
      <4> QED
        BY <2>2, <2>3, <3>2, <4>1, NextAttemptStep
    <3> QED
      BY <2>1, <3>1, <3>2
  <2> QED
    BY <2>1, <2>4, WholeType DEF IInv, TypeOK, HealthTypeOK, HealthMaps, RowMaps
<1>3. CASE CreateFails(t) \/ RollBack(t)
  <2>1. PICK result \in Outcomes :
          /\ pc[t] \in {"creating", "rollback"} /\ Settle(t, result)
          /\ UNCHANGED <<health, saved, aborted, effect, running>>
    BY <1>3 DEF CreateFails, RollBack, Outcomes, IInv, TypeOK, healthVars
  <2>2. ~Holding(t) /\ HeldByOthers(health, t) /\ health \in HealthMaps
    BY <2>1 DEF Holding, HoldingPcs, AwaitingModel, HeldByOthers, IInv,
       ClaimsAccounted, TypeOK, HealthTypeOK, HealthMaps, RowMaps
  <2>3. LoopTypeOK' /\ ClaimExclusive' /\ ClaimsAccounted' /\ health' \in HealthMaps
    BY <2>1, <2>2, EndLoopStep
  <2> QED
    BY <2>1, <2>3, WholeType DEF IInv, TypeOK, HealthTypeOK, HealthMaps, RowMaps
<1>4. ASSUME Holding(t),
             LoopTypeOK' /\ ClaimExclusive' /\ ClaimsAccounted',
             health' \in HealthMaps /\ saved' \in RowMaps,
             UNCHANGED <<aborted, effect>>,
             running' \in [Tasks -> BOOLEAN]
      PROVE  IInv'
  BY <1>4, WholeType DEF IInv, TypeOK
<1>5. CASE Dispatch(t)
  <2>1. Holding(t) /\ UNCHANGED <<aborted, effect>>
    BY <1>5 DEF Dispatch, Holding, HoldingPcs
  <2>2. CASE aborted[t]
    BY <1>5, <2>1, <2>2, <1>4, CatchStep, ErrorTypes DEF Dispatch, IInv, TypeOK
  <2>3. CASE ~aborted[t]
    <3>1. /\ pc' = [pc EXCEPT ![t] = "prompting"]
          /\ tried' = [tried EXCEPT ![t] = @ \cup {Current(t)}]
          /\ running' = [running EXCEPT ![t] = TRUE]
          /\ UNCHANGED <<healthVars, attempts, index, reserve, outcome, error>>
      BY <1>5, <2>3 DEF Dispatch
    <3>2. Current(t) \in Bindings
      BY <2>1 DEF IInv, TypeOK, Current
    <3>3. /\ tried' \in [Tasks -> SUBSET Bindings] /\ error' \in [Tasks -> Errors]
          /\ running' \in [Tasks -> BOOLEAN] /\ "prompting" \in HoldingPcs
      BY <3>1, <3>2 DEF IInv, TypeOK, HoldingPcs, AwaitingModel
    <3> QED
      BY <2>1, <3>1, <3>3, <1>4, HoldingStep
  <2> QED
    BY <2>2, <2>3
<1>6. CASE PrepareFails(t)
  BY <1>6, <1>4, CatchStep, ErrorTypes
     DEF PrepareFails, Holding, HoldingPcs, IInv, TypeOK
<1>7. CASE Cancel(t) \/ StopUnconfirmed(t)
  BY <1>7, <1>4, CatchStep, ErrorTypes
     DEF Cancel, StopUnconfirmed, Holding, HoldingPcs, IInv, TypeOK
<1>8. CASE StopConfirmed(t)
  BY <1>8, <1>4, CatchStep DEF StopConfirmed, Holding, HoldingPcs, IInv, TypeOK
<1>9. CASE Answer(t)
  BY <1>9, <1>4, AttemptSucceedsStep
     DEF Answer, Holding, HoldingPcs, AwaitingModel, IInv, TypeOK
<1>10. CASE Reject(t) \/ ContinuationError(t)
  <2>1. PICK e \in Rejections :
          /\ Holding(t) /\ AttemptFails(t, e) /\ UNCHANGED <<aborted, effect>>
          /\ running' = [running EXCEPT ![t] = e.timeout]
             \/ running' = [running EXCEPT ![t] = FALSE]
    BY <1>10 DEF Reject, ContinuationError, Holding, HoldingPcs, AwaitingModel
  <2>2. e \in Errors /\ e.timeout \in BOOLEAN
    BY ErrorTypes DEF Errors
  <2>3. running' \in [Tasks -> BOOLEAN]
    BY <2>1, <2>2 DEF IInv, TypeOK
  <2> QED
    BY <2>1, <2>2, <2>3, <1>4, AttemptFailsStep
<1>11. CASE AnswerIncomplete(t)
  <2>1. Holding(t) /\ UNCHANGED <<aborted, effect>>
    BY <1>11 DEF AnswerIncomplete, Holding, HoldingPcs, AwaitingModel
  <2>2. CASE t \in BrowserTasks \/ aborted[t]
    BY <1>11, <2>1, <2>2, <1>4, AttemptFailsStep, ErrorTypes
       DEF AnswerIncomplete, IInv, TypeOK
  <2>3. CASE ~(t \in BrowserTasks \/ aborted[t])
    <3>1. PICK next \in {"compacting", "continuing"} :
            /\ pc' = [pc EXCEPT ![t] = next]
            /\ UNCHANGED <<healthVars, control, error, outcome, running>>
      BY <1>11, <2>3 DEF AnswerIncomplete
    <3>2. /\ next \in HoldingPcs
          /\ UNCHANGED <<attempts, index, reserve, tried>>
      BY <3>1 DEF HoldingPcs, AwaitingModel, control
    <3> QED
      BY <2>1, <3>1, <3>2, <1>4, HoldingStep DEF IInv, TypeOK
  <2> QED
    BY <2>2, <2>3
<1>12. CASE Compacted(t)
  <2>1. Holding(t) /\ UNCHANGED <<aborted, effect, running>>
    BY <1>12 DEF Compacted, Holding, HoldingPcs, AwaitingModel
  <2>2. CASE aborted[t]
    BY <1>12, <2>1, <2>2, <1>4, CatchStep, ErrorTypes DEF Compacted, IInv, TypeOK
  <2>3. CASE ~aborted[t]
    <3>1. /\ pc' = [pc EXCEPT ![t] = "continuing"] /\ "continuing" \in HoldingPcs
          /\ UNCHANGED <<healthVars, attempts, index, reserve, tried, error, outcome>>
      BY <1>12, <2>3 DEF Compacted, control, HoldingPcs, AwaitingModel
    <3> QED
      BY <2>1, <3>1, <1>4, HoldingStep DEF IInv, TypeOK
  <2> QED
    BY <2>2, <2>3
<1>13. CASE RecoveryFails(t)
  BY <1>13, <1>4, AttemptFailsStep, ErrorTypes
     DEF RecoveryFails, Holding, HoldingPcs, AwaitingModel, IInv, TypeOK
<1>14. CASE BeginEffect(t) \/ RecordEffect(t) \/ Abort(t)
  <2>1. /\ UNCHANGED <<health, saved, attempts, index, reserve, tried, pc, error,
                       outcome, running>>
        /\ aborted' \in [Tasks -> BOOLEAN] /\ effect' \in [Tasks -> Effects]
    BY <1>14 DEF BeginEffect, RecordEffect, Abort, healthVars, control, IInv, TypeOK, Effects
  <2>2. \A u \in Tasks : Holding(u)' = Holding(u)
    BY <2>1 DEF Holding
  <2>3. ClaimExclusive' /\ ClaimsAccounted'
    BY <2>1, <2>2, SameClaims
  <2> QED
    BY <2>1, <2>2, <2>3 DEF IInv, TypeOK, HealthTypeOK
<1> QED
  BY <1>1, <1>2, <1>3, <1>5, <1>6, <1>7, <1>8, <1>9, <1>10, <1>11, <1>12, <1>13,
     <1>14 DEF TaskStep, OwnStep, ModelStep

\* Time and the operator's reset leave every claim alone.
LEMMA TableStepInv ==
    ASSUME IInv, TableStep
    PROVE  IInv'
<1>1. UNCHANGED <<pc, attempts, index, reserve, aborted, error, outcome, effect,
                  tried, running>>
  BY DEF TableStep, taskVars
<1>2. /\ health' \in HealthMaps /\ saved' \in RowMaps
      /\ \A b \in Bindings : InFlight(health', b) <=> InFlight(health, b)
  <2>1. health \in HealthMaps /\ saved \in RowMaps
    BY DEF IInv, TypeOK, HealthTypeOK, HealthMaps, RowMaps
  <2>2. CASE Tick
    <3>1. ASSUME NEW g \in HealthMaps
          PROVE  /\ Later(g) \in HealthMaps
                 /\ \A b \in Bindings : InFlight(Later(g), b) <=> InFlight(g, b)
      <4>1. ASSUME NEW b \in Bindings, g[b].state = "cooling"
            PROVE  /\ CoolingFor(g[b].left - 1) \in Entries
                   /\ CoolingFor(g[b].left - 1).state # "probe"
        <5>1. g[b].left \in Nat \ {0}
          BY <4>1 DEF HealthMaps, Entries, Available, Quarantined, Probe
        <5> QED
          BY <5>1 DEF Entries, CoolingFor, Available
      <4> QED
        BY <4>1 DEF Later, HealthMaps, Entries, InFlight
    <3>2. Later(saved) \in RowMaps
      <4>1. /\ saved \in HealthMaps /\ \A b \in Bindings : ~InFlight(saved, b)
        BY <2>1 DEF RowMaps, HealthMaps, Rows, Entries, InFlight, Available,
           Quarantined, Probe
      <4>2. Later(saved) \in HealthMaps /\ \A b \in Bindings : ~InFlight(Later(saved), b)
        BY <3>1, <4>1
      <4> QED
        BY <4>2 DEF RowMaps, HealthMaps, Rows, InFlight, Probe
    <3> QED
      BY <2>1, <2>2, <3>1, <3>2 DEF Tick
  <2>3. CASE \E b \in Bindings : Reset(b)
    <3>1. PICK b \in Bindings : Reset(b)
      BY <2>3
    <3>2. Available \in Entries /\ Available.state # "probe"
      BY DEF Available, Entries
    <3>3. /\ health' \in HealthMaps
          /\ \A c \in Bindings : InFlight(health', c) <=> InFlight(health, c)
      BY <2>1, <3>1, <3>2 DEF Reset, HealthMaps, InFlight
    <3> QED
      BY <2>1, <3>1, <3>3, PersistType DEF Reset
  <2> QED
    BY <2>2, <2>3 DEF TableStep
<1> QED
  BY <1>1, <1>2 DEF IInv, TypeOK, HealthTypeOK, HealthMaps, RowMaps, ClaimExclusive,
     ClaimsAccounted, Holding, Current, InFlight

\* The invariant holds in the initial states: nothing is claimed, nothing is held.
LEMMA InitInv == Init => IInv
<1> SUFFICES ASSUME Init PROVE IInv
  OBVIOUS
<1>1. Available \in Entries /\ Available.state # "probe"
  BY DEF Available, Entries
<1>2. \A t \in Tasks : ~Holding(t)
  BY DEF Init, Holding, HoldingPcs, AwaitingModel
<1>3. TypeOK
  <2>1. NoError \in Errors
    BY ErrorTypes
  <2>2. Available \in Rows
    BY DEF Rows, Entries, Available, Probe
  <2> QED
    BY <1>1, <1>2, <2>1, <2>2 DEF Init, HealthInit, TypeOK, HealthTypeOK, Pcs, Outcomes,
                                    Effects
<1>4. ClaimExclusive /\ ClaimsAccounted
  BY <1>1, <1>2 DEF ClaimExclusive, ClaimsAccounted, InFlight, Init, HealthInit
<1> QED
  BY <1>3, <1>4 DEF IInv

\* No row of the database is a claim, so none comes back after a restart.
LEMMA RestartInv ==
    ASSUME IInv, Restart
    PROVE  IInv'
<1>1. \A t \in Tasks : ~Holding(t)'
  BY DEF Restart, Holding, HoldingPcs, AwaitingModel
<1>2. /\ pc' \in [Tasks -> Pcs] /\ attempts' \in [Tasks -> Seq(Bindings)]
      /\ index' \in [Tasks -> Nat] /\ reserve' \in [Tasks -> Bindings \cup {NoBinding}]
      /\ aborted' \in [Tasks -> BOOLEAN] /\ error' \in [Tasks -> Errors]
      /\ outcome' \in [Tasks -> Outcomes] /\ effect' \in [Tasks -> Effects]
      /\ tried' \in [Tasks -> SUBSET Bindings] /\ running' \in [Tasks -> BOOLEAN]
  BY ErrorTypes DEF Restart, Pcs, Outcomes, Effects
<1>3. TypeOK'
  <2>1. health' \in [Bindings -> Entries] /\ saved' \in [Bindings -> Rows]
    BY DEF Restart, Hydrate, IInv, TypeOK, HealthTypeOK, Rows
  <2> QED
    BY <1>1, <1>2, <2>1 DEF TypeOK, HealthTypeOK
<1>4. \A b \in Bindings : ~InFlight(health', b)
  <2>1. health' = saved /\ \A b \in Bindings : saved[b] \in Rows
    BY DEF Restart, Hydrate, IInv, TypeOK, HealthTypeOK
  <2>2. \A r \in Rows : r.state # "probe"
    BY DEF Rows, Entries, Available, Quarantined, Probe
  <2> QED
    BY <2>1, <2>2 DEF InFlight
<1>5. ClaimExclusive' /\ ClaimsAccounted'
  BY <1>1, <1>4 DEF ClaimExclusive, ClaimsAccounted, InFlight
<1> QED
  BY <1>3, <1>5 DEF IInv

----------------------------------------------------------------------------
\* Every step, of a task, of the table or of the process, keeps the invariant.
LEMMA NextInv == IInv /\ [Next]_vars => IInv'
<1> SUFFICES ASSUME IInv, [Next]_vars PROVE IInv'
  OBVIOUS
<1>1. CASE \E t \in Tasks : TaskStep(t)
  BY <1>1, TaskStepInv
<1>2. CASE TableStep
  BY <1>2, TableStepInv
<1>3. CASE Restart
  BY <1>3, RestartInv
<1>4. CASE UNCHANGED vars
  BY <1>4 DEF vars, healthVars, taskVars, IInv, TypeOK, HealthTypeOK, ClaimExclusive,
     ClaimsAccounted, Holding, Current, InFlight
<1> QED
  BY <1>1, <1>2, <1>3, <1>4 DEF Next

\* The inductive invariant holds throughout, for every number of tasks, bindings
\* and ticks, with and without failing database writes.
THEOREM Inductive == Spec => []IInv
BY InitInv, NextInv, PTL DEF Spec

\* No two tasks ever have an attempt under way on the same binding, and the state of
\* runPooledTask and of the shared health table keeps its type.
THEOREM ClaimsAreExclusive == Spec => []Inv
<1>1. IInv => Inv
  BY DEF IInv, Inv
<1> QED
  BY <1>1, Inductive, PTL

\* No path of the runner leaks a claim or gives one up while its attempt goes on.
THEOREM ClaimsAreAccounted == Spec => []ClaimsAccounted
<1>1. IInv => ClaimsAccounted
  BY DEF IInv
<1> QED
  BY <1>1, Inductive, PTL
----------------------------------------------------------------------------
(* What a single call does, apart from its claims.                         *)

\* A child is running only after a prompt, the attempts are different bindings, and
\* those a prompt was sent to lie before the place the loop has come to.
TaskOK(t) ==
    /\ pc[t] \in {"creating", "preparing"} => ~running[t]
    /\ IsInjective(attempts[t])
    /\ \A b \in tried[t] : \E i \in DOMAIN attempts[t] :
          /\ attempts[t][i] = b /\ i <= index[t]
          /\ pc[t] = "preparing" => i < index[t]
    /\ pc[t] = "creating" => tried[t] = {} /\ index[t] = 0

TasksOK == \A t \in Tasks : TaskOK(t)

LoopSame(u) == /\ pc'[u] = pc[u] /\ attempts'[u] = attempts[u]
               /\ index'[u] = index[u] /\ tried'[u] = tried[u]
OthersLoop(t) == \A u \in Tasks \ {t} : LoopSame(u)
OthersRun(t) == \A u \in Tasks \ {t} : running'[u] = running[u]

\* The call goes on with a binding further down, from the table h.
Advances(t, h) ==
    /\ \E j \in DOMAIN attempts[t] :
          /\ j > index[t] /\ index'[t] = j
          /\ Eligible(h, attempts[t][j]) /\ health' = Claimed(h, attempts[t][j])
    /\ pc'[t] = "preparing" /\ attempts'[t] = attempts[t] /\ tried'[t] = tried[t]

\* The call is over, or about to roll its child back.
Ends(t, h) ==
    /\ health' = h
    /\ pc'[t] \in {"idle", "rollback"} /\ tried'[t] = {}
    /\ attempts'[t] \in {<<>>, attempts[t]}

\* The table once the attempt of t is over: its claim is gone and nothing else.
AfterAttempt(t, h) ==
    /\ h \in HealthMaps /\ ~InFlight(h, Current(t))
    /\ \A c \in Bindings \ {Current(t)} : h[c] = health[c]

\* What the catch clause comes to.
Caught(t, stopConfirmed) ==
    /\ OthersLoop(t)
    /\ \E h \in HealthMaps :
          /\ AfterAttempt(t, h)
          /\ saved' \in PersistOutcomes(saved, h, Current(t))
          /\ \/ Ends(t, h) /\ (aborted[t] => h[Current(t)].state = "available")
             \/ Advances(t, h) /\ stopConfirmed /\ effect[t] # "recorded" /\ ~aborted[t]

\* What a step of t may do to the table and to the rows.
Worked(t) ==
    \/ UNCHANGED healthVars
    \/ /\ UNCHANGED saved
       /\ \E b \in Bindings : Eligible(health, b) /\ health' = Claimed(health, b)
    \/ /\ Holding(t)
       /\ \E h \in HealthMaps :
             /\ AfterAttempt(t, h)
             /\ saved' \in PersistOutcomes(saved, h, Current(t))
             /\ \/ health' = h
                \/ \E b \in Bindings : Eligible(h, b) /\ health' = Claimed(h, b)

\* What is to be shown of a step of t.
Behaves(t) ==
    /\ OthersLoop(t) /\ OthersRun(t) /\ TaskOK(t)'
    /\ effect[t] = "recorded" /\ Holding(t) /\ pc'[t] \in HoldingPcs => index'[t] = index[t]
    /\ aborted[t] /\ Holding(t) /\ pc'[t] \notin HoldingPcs
         => health'[Current(t)].state = "available"
    /\ Worked(t)

\* A call that ends is quiet about the others.
LEMMA EndLoopIs ==
    ASSUME IInv, NEW t \in Tasks, NEW result, NEW h, health' = h,
           EndLoop(t, tried[t] # {}, result) \/ Settle(t, result)
    PROVE  OthersLoop(t) /\ Ends(t, h)
<1>1. CASE Settle(t, result)
  BY <1>1 DEF Settle, IInv, TypeOK, OthersLoop, LoopSame, Ends
<1>2. CASE tried[t] = {} /\ EndLoop(t, tried[t] # {}, result)
  BY <1>2 DEF EndLoop, control, IInv, TypeOK, OthersLoop, LoopSame, Ends
<1> QED
  BY <1>1, <1>2 DEF EndLoop

\* The head of the loop goes on further down or ends the call.
LEMMA NextAttemptIs ==
    ASSUME IInv, NEW t \in Tasks, NEW h, NEW i \in Nat \ {0}, i > index[t], NEW result,
           NextAttempt(t, h, i, result)
    PROVE  OthersLoop(t) /\ (Ends(t, h) \/ Advances(t, h))
<1>1. ASSUME NEW j \in i..Len(attempts[t]), Eligible(h, attempts[t][j]),
             health' = Claimed(h, attempts[t][j]),
             pc' = [pc EXCEPT ![t] = "preparing"], index' = [index EXCEPT ![t] = j],
             UNCHANGED <<attempts, reserve, tried, outcome>>
      PROVE  OthersLoop(t) /\ Advances(t, h)
  <2>1. j \in DOMAIN attempts[t] /\ j > index[t]
    BY <1>1 DEF IInv, TypeOK
  <2> QED
    BY <1>1, <2>1 DEF IInv, TypeOK, OthersLoop, LoopSame, Advances
<1> QED
  BY <1>1, EndLoopIs DEF NextAttempt

\* The places the loop may go on from lie ahead, and a cancelled call has none.
LEMMA PlacesAhead ==
    ASSUME IInv, NEW t \in Tasks, NEW category
    PROVE  /\ NextPlaces(t, category) \subseteq Nat \ {0}
           /\ \A i \in NextPlaces(t, category) : i > index[t]
           /\ category = "non_provider" => NextPlaces(t, category) = {}
<1>1. index[t] \in Nat
  BY DEF IInv, TypeOK
<1>2. CASE category \in HealthCategories \cup {"incomplete"}
  BY <1>1, <1>2 DEF NextPlaces, HealthCategories
<1>3. CASE category = "unknown"
  BY <1>1, <1>3 DEF NextPlaces, HealthCategories
<1>4. CASE category \notin HealthCategories \cup {"incomplete", "unknown"}
  BY <1>1, <1>4 DEF NextPlaces, HealthCategories
<1> QED
  BY <1>2, <1>3, <1>4

\* The catch clause: a failure ends the claim; only when the child is known to be stopped,
\* has done nothing and was not cancelled is there a next attempt, and a cancellation
\* leaves the binding available.
LEMMA CatchIs ==
    ASSUME IInv, NEW t \in Tasks, Holding(t), NEW e \in Errors,
           NEW stopConfirmed \in BOOLEAN, Catch(t, e, stopConfirmed)
    PROVE  Caught(t, stopConfirmed)
<1> DEFINE b == Current(t)
           seen == IF aborted[t] THEN Cancelled ELSE e
           h == Failed(health, b, seen.category, seen.retryAfter)
           places == NextPlaces(t, seen.category)
           failed == IF tried[t] = {} THEN "preparation_failed" ELSE "failed"
<1>1. b \in Bindings
  BY DEF IInv, TypeOK, Current
<1>2. seen.category \in Categories /\ seen.retryAfter \in Nat
  BY DEF Errors, Cancelled, Categories
<1>3. health \in HealthMaps
  BY DEF IInv, TypeOK, HealthTypeOK, HealthMaps
<1>4. h \in HealthMaps /\ AfterAttempt(t, h)
  BY <1>1, <1>2, <1>3, FailedEndsClaim DEF AfterAttempt
<1>5. saved' \in PersistOutcomes(saved, h, b)
  BY DEF Catch, Persist
<1>6. aborted[t] => h[b].state = "available" /\ places = {}
  <2> SUFFICES ASSUME aborted[t] PROVE h[b].state = "available" /\ places = {}
    OBVIOUS
  <2>1. seen.category = "non_provider"
    BY DEF Cancelled
  <2>2. InFlight(health, b)
    BY <1>1 DEF IInv, ClaimsAccounted
  <2>3. h = [health EXCEPT ![b] = Available]
    BY <2>1, <2>2 DEF Failed, Released
  <2>4. h[b].state = "available"
    <3>1. [health EXCEPT ![b] = Available][b] = Available
      BY <1>1, <1>3 DEF HealthMaps
    <3>2. h[b] = Available
      BY <2>3, <3>1, Zenon
    <3>3. Available.state = "available"
      BY DEF Available
    <3> QED
      BY <3>2, <3>3, Zenon
  <2>5. places = {}
    BY <2>1, PlacesAhead
  <2> QED
    BY <2>4, <2>5
<1>7. \/ \E result : health' = h /\ EndLoop(t, tried[t] # {}, result)
      \/ /\ stopConfirmed /\ effect[t] # "recorded" /\ places # {}
         /\ \E i \in places : NextAttempt(t, h, i, failed)
  <2>1. CASE ~stopConfirmed
    BY <2>1 DEF Catch
  <2>2. CASE stopConfirmed /\ effect[t] = "recorded"
    BY <2>2 DEF Catch
  <2>3. CASE stopConfirmed /\ effect[t] # "recorded" /\ places = {}
    BY <2>3 DEF Catch
  <2>4. CASE stopConfirmed /\ effect[t] # "recorded" /\ places # {}
    BY <2>4 DEF Catch
  <2> QED
    BY <2>1, <2>2, <2>3, <2>4
<1> HIDE DEF h
<1>8. CASE \E result : health' = h /\ EndLoop(t, tried[t] # {}, result)
  BY <1>4, <1>5, <1>6, <1>8, EndLoopIs DEF Caught
<1>9. CASE /\ stopConfirmed /\ effect[t] # "recorded" /\ places # {}
           /\ \E i \in places : NextAttempt(t, h, i, failed)
  <2>1. ~aborted[t]
    BY <1>6, <1>9
  <2>2. OthersLoop(t) /\ (Ends(t, h) \/ Advances(t, h))
    BY <1>9, PlacesAhead, NextAttemptIs
  <2> QED
    BY <1>4, <1>5, <1>9, <2>1, <2>2 DEF Caught
<1> QED
  BY <1>7, <1>8, <1>9

\* A call that ends, and one that goes on with a child that is not running, are well.
LEMMA EndsOK ==
    ASSUME NEW t \in Tasks, TaskOK(t), NEW h, Ends(t, h) PROVE TaskOK(t)'
BY DEF TaskOK, Ends, IsInjective

LEMMA AdvancesOK ==
    ASSUME IInv, NEW t \in Tasks, TaskOK(t), NEW h, Advances(t, h), ~running'[t]
    PROVE  TaskOK(t)'
<1>1. index[t] \in Nat /\ attempts[t] \in Seq(Bindings)
  BY DEF IInv, TypeOK
<1>2. PICK j \in DOMAIN attempts[t] : j > index[t] /\ index'[t] = j
  BY DEF Advances
<1>3. \A b \in tried[t] : \E i \in DOMAIN attempts[t] : attempts[t][i] = b /\ i < j
  BY <1>1, <1>2 DEF TaskOK
<1>4. \A b \in tried[t] : \E i \in DOMAIN attempts[t] :
         attempts[t][i] = b /\ i <= j /\ i < j
  BY <1>1, <1>2, <1>3
<1>5. /\ index'[t] = j /\ pc'[t] = "preparing" /\ attempts'[t] = attempts[t]
      /\ tried'[t] = tried[t] /\ ~running'[t] /\ IsInjective(attempts[t])
  BY <1>2 DEF Advances, TaskOK
<1> QED
  BY <1>4, <1>5 DEF TaskOK

\* So a catch clause behaves, if the child it goes on with is not running.
LEMMA CaughtBehaves ==
    ASSUME IInv, NEW t \in Tasks, TaskOK(t), Holding(t), NEW stopConfirmed \in BOOLEAN,
           Caught(t, stopConfirmed), OthersRun(t),
           stopConfirmed /\ ~aborted[t] => ~running'[t]
    PROVE  Behaves(t)
<1>1. PICK h \in HealthMaps :
          /\ AfterAttempt(t, h)
          /\ saved' \in PersistOutcomes(saved, h, Current(t))
          /\ \/ Ends(t, h) /\ (aborted[t] => h[Current(t)].state = "available")
             \/ Advances(t, h) /\ stopConfirmed /\ effect[t] # "recorded" /\ ~aborted[t]
  BY DEF Caught
<1>2. CASE Ends(t, h) /\ (aborted[t] => h[Current(t)].state = "available")
  <2>1. TaskOK(t)'
    BY <1>2, EndsOK
  <2>2. pc'[t] \notin HoldingPcs /\ health' = h
    BY <1>2 DEF Ends, HoldingPcs, AwaitingModel
  <2> QED
    BY <1>1, <1>2, <2>1, <2>2 DEF Behaves, Caught, Worked
<1>3. CASE Advances(t, h) /\ stopConfirmed /\ effect[t] # "recorded" /\ ~aborted[t]
  <2>1. TaskOK(t)'
    BY <1>3, AdvancesOK
  <2>2. \E b \in Bindings : Eligible(h, b) /\ health' = Claimed(h, b)
    BY <1>3 DEF Advances, IInv, TypeOK
  <2> QED
    BY <1>1, <1>3, <2>1, <2>2 DEF Behaves, Caught, Worked
<1> QED
  BY <1>1, <1>2, <1>3

\* A call that waits at another place of the same attempt behaves.
LEMMA WaitBehaves ==
    ASSUME IInv, NEW t \in Tasks, TaskOK(t), Holding(t),
           NEW next \in HoldingPcs \ {"preparing"}, pc' = [pc EXCEPT ![t] = next],
           UNCHANGED <<healthVars, control>>, OthersRun(t)
    PROVE  Behaves(t)
<1>1. OthersLoop(t) /\ pc'[t] = next
  BY DEF OthersLoop, LoopSame, control, IInv, TypeOK
<1>2. TaskOK(t)'
  BY <1>1 DEF TaskOK, control, HoldingPcs, AwaitingModel
<1> QED
  BY <1>1, <1>2 DEF Behaves, Worked, control

\* A failure after the prompt behaves: what may still be running is stopped first.
LEMMA AttemptFailsBehaves ==
    ASSUME IInv, NEW t \in Tasks, TaskOK(t), Holding(t), NEW e \in Errors,
           AttemptFails(t, e), OthersRun(t),
           ~(e.category = "incomplete" \/ e.timeout) => ~running'[t]
    PROVE  Behaves(t)
<1>1. CASE (e.category = "incomplete" \/ e.timeout) /\ ~aborted[t]
  BY <1>1, WaitBehaves DEF AttemptFails, HoldingPcs
<1>2. CASE ~((e.category = "incomplete" \/ e.timeout) /\ ~aborted[t])
  <2>1. Caught(t, TRUE)
    BY <1>2, CatchIs DEF AttemptFails
  <2> QED
    BY <1>2, <2>1, CaughtBehaves
<1> QED
  BY <1>1, <1>2

\* The bindings of a call are different ones: the pool's are, and the coordinator is
\* added only when the pool does not have it.
LEMMA AttemptsDiffer ==
    ASSUME NEW h, NEW s \in Selections(h) \cup {<<>>}, NEW r \in Reserves(h)
    PROVE  IsInjective(WithReserve(s, r))
<1>1. s \in Seq(Bindings)
  <2> DEFINE eligible == {b \in Range(Pool) : Eligible(h, b)}
  <2>1. eligible \subseteq Bindings /\ Len(Pool) \in Nat
    BY ConstantsOK DEF Assumptions, Range
  <2>2. CASE s \in Selections(h)
    <3>1. PICK n \in 0..Len(Pool) : s \in [1..n -> eligible]
      BY <2>2 DEF Selections
    <3>2. n \in Nat /\ s \in [1..n -> Bindings]
      BY <2>1, <3>1
    <3> QED
      BY <3>2
  <2>3. CASE s = <<>>
    BY <2>3
  <2> QED
    BY <2>2, <2>3
<1>2. IsInjective(s)
  BY DEF Selections, IsInjective
<1>3. ASSUME r \notin Range(s) PROVE IsInjective(Append(s, r))
  <2>1. /\ DOMAIN s = 1..Len(s) /\ Len(s) \in Nat
        /\ DOMAIN Append(s, r) = 1..Len(s) + 1
        /\ Append(s, r)[Len(s) + 1] = r
        /\ \A i \in 1..Len(s) : Append(s, r)[i] = s[i] /\ s[i] # r
    BY <1>1, <1>3 DEF Range
  <2>2. \A i, j \in 1..Len(s) : s[i] = s[j] => i = j
    BY <1>2, <2>1 DEF IsInjective
  <2> QED
    BY <2>1, <2>2 DEF IsInjective
<1> QED
  BY <1>2, <1>3 DEF WithReserve

\* Every step of a call behaves.
LEMMA TaskStepBehaves ==
    ASSUME IInv, NEW t \in Tasks, TaskOK(t), TaskStep(t)
    PROVE  Behaves(t)
<1> USE DEF Holding, HoldingPcs, AwaitingModel
<1>0. /\ pc \in [Tasks -> Pcs] /\ attempts \in [Tasks -> Seq(Bindings)]
      /\ index \in [Tasks -> Nat] /\ tried \in [Tasks -> SUBSET Bindings]
      /\ running \in [Tasks -> BOOLEAN] /\ error \in [Tasks -> Errors]
  BY DEF IInv, TypeOK
<1>1. CASE Start(t)
  <2>1. PICK s \in Selections(health) \cup {<<>>}, r \in Reserves(health) :
          attempts' = [attempts EXCEPT ![t] = WithReserve(s, r)]
    BY <1>1 DEF Start
  <2>2. IsInjective(WithReserve(s, r))
    BY AttemptsDiffer
  <2>3. /\ ~Holding(t) /\ pc' = [pc EXCEPT ![t] = "creating"]
        /\ index' = [index EXCEPT ![t] = 0] /\ tried' = [tried EXCEPT ![t] = {}]
        /\ running' = [running EXCEPT ![t] = FALSE] /\ UNCHANGED healthVars
    BY <1>1 DEF Start
  <2>4. OthersLoop(t) /\ OthersRun(t)
    BY <1>0, <2>1, <2>3 DEF OthersLoop, LoopSame, OthersRun
  <2>5. TaskOK(t)'
    <3>1. IsInjective(attempts'[t])
      BY <1>0, <2>1, <2>2
    <3> QED
      BY <1>0, <2>3, <3>1 DEF TaskOK
  <2> QED
    BY <2>3, <2>4, <2>5 DEF Behaves, Worked
<1>2. CASE Abort(t) \/ BeginEffect(t) \/ RecordEffect(t)
  <2>1. UNCHANGED <<healthVars, pc, attempts, index, tried, running>>
    BY <1>2 DEF Abort, BeginEffect, RecordEffect, control
  <2>2. TaskOK(t)' /\ OthersLoop(t) /\ OthersRun(t)
    BY <2>1 DEF TaskOK, OthersLoop, LoopSame, OthersRun
  <2> QED
    BY <2>1, <2>2 DEF Behaves, Worked
<1>3. CASE Create(t)
  <2>1. /\ pc[t] = "creating" /\ UNCHANGED <<saved, running>>
        /\ \/ Settle(t, "abandoned") /\ UNCHANGED health
           \/ NextAttempt(t, health, 1, "unavailable")
    BY <1>3 DEF Create
  <2>2. /\ ~Holding(t) /\ OthersRun(t) /\ index[t] = 0 /\ ~running'[t] /\ 1 \in Nat \ {0}
    BY <2>1 DEF OthersRun, TaskOK
  <2>3. OthersLoop(t) /\ (Ends(t, health) \/ Advances(t, health))
    BY <2>1, <2>2, EndLoopIs, NextAttemptIs
  <2>4. TaskOK(t)'
    BY <2>2, <2>3, EndsOK, AdvancesOK
  <2>5. Worked(t)
    BY <2>1, <2>3 DEF Worked, Ends, Advances, healthVars, IInv, TypeOK
  <2> QED
    BY <2>2, <2>3, <2>4, <2>5 DEF Behaves
<1>4. CASE CreateFails(t) \/ RollBack(t)
  <2>1. PICK result : /\ pc[t] \in {"creating", "rollback"} /\ Settle(t, result)
                      /\ UNCHANGED <<healthVars, running>>
    BY <1>4 DEF CreateFails, RollBack
  <2>2. ~Holding(t) /\ OthersRun(t) /\ health' = health
    BY <2>1 DEF OthersRun, healthVars
  <2>3. OthersLoop(t) /\ Ends(t, health)
    BY <2>1, <2>2, EndLoopIs
  <2>4. TaskOK(t)'
    BY <2>3, EndsOK
  <2> QED
    BY <2>1, <2>2, <2>3, <2>4 DEF Behaves, Worked
<1>5. CASE Dispatch(t)
  <2>1. Holding(t) /\ pc[t] = "preparing"
    BY <1>5 DEF Dispatch
  <2>2. CASE aborted[t]
    <3>1. Caught(t, TRUE) /\ OthersRun(t)
      BY <1>5, <2>1, <2>2, CatchIs, ErrorTypes DEF Dispatch, OthersRun
    <3> QED
      BY <2>1, <2>2, <3>1, CaughtBehaves
  <2>3. CASE ~aborted[t]
    <3>1. /\ pc' = [pc EXCEPT ![t] = "prompting"]
          /\ tried' = [tried EXCEPT ![t] = tried[t] \cup {Current(t)}]
          /\ running' = [running EXCEPT ![t] = TRUE]
          /\ UNCHANGED <<healthVars, attempts, index>>
      BY <1>5, <2>3 DEF Dispatch
    <3>2. OthersLoop(t) /\ OthersRun(t) /\ pc'[t] = "prompting"
          /\ tried'[t] = tried[t] \cup {Current(t)}
      BY <1>0, <3>1 DEF OthersLoop, LoopSame, OthersRun
    <3>3. index[t] \in DOMAIN attempts[t] /\ index[t] \in Nat
      BY <2>1 DEF IInv, TypeOK
    <3>4. \A b \in tried'[t] : \E i \in DOMAIN attempts[t] :
             attempts[t][i] = b /\ i <= index[t]
      BY <3>2, <3>3 DEF TaskOK, Current
    <3>5. TaskOK(t)'
      BY <3>1, <3>2, <3>4 DEF TaskOK
    <3> QED
      BY <3>1, <3>2, <3>5 DEF Behaves, Worked
  <2> QED
    BY <2>2, <2>3
<1>6. CASE PrepareFails(t)
  <2>1. /\ Holding(t) /\ Caught(t, TRUE) /\ OthersRun(t) /\ ~running'[t]
    BY <1>6, CatchIs, ErrorTypes DEF PrepareFails, OthersRun, TaskOK
  <2> QED
    BY <2>1, CaughtBehaves
<1>7. CASE Cancel(t)
  <2>1. Holding(t) /\ Caught(t, TRUE) /\ OthersRun(t) /\ aborted[t]
    BY <1>7, CatchIs, ErrorTypes DEF Cancel, OthersRun
  <2> QED
    BY <2>1, CaughtBehaves
<1>8. CASE StopUnconfirmed(t)
  <2>1. Holding(t) /\ Caught(t, FALSE) /\ OthersRun(t)
    BY <1>0, <1>8, CatchIs DEF StopUnconfirmed, OthersRun
  <2> QED
    BY <2>1, CaughtBehaves
<1>9. CASE StopConfirmed(t)
  <2>1. Holding(t) /\ Caught(t, TRUE) /\ OthersRun(t) /\ ~running'[t]
    BY <1>0, <1>9, CatchIs DEF StopConfirmed, OthersRun
  <2> QED
    BY <2>1, CaughtBehaves
<1>10. CASE Answer(t)
  <2>1. Holding(t) /\ OthersRun(t) /\ ~running'[t] /\ AttemptSucceeds(t)
    BY <1>0, <1>10 DEF Answer, OthersRun
  <2>2. CASE aborted[t]
    <3>1. Caught(t, TRUE)
      BY <2>1, <2>2, CatchIs, ErrorTypes DEF AttemptSucceeds
    <3> QED
      BY <2>1, <3>1, CaughtBehaves
  <2>3. CASE ~aborted[t]
    <3>1. /\ health' = Succeeded(health, Current(t)) /\ Settle(t, "succeeded")
          /\ saved' \in PersistOutcomes(saved, health', Current(t))
      BY <2>1, <2>3 DEF AttemptSucceeds, Persist
    <3>2. OthersLoop(t) /\ Ends(t, health')
      BY <3>1, EndLoopIs
    <3>3. AfterAttempt(t, health')
      <4>1. health \in HealthMaps /\ Current(t) \in Bindings
        BY <2>1 DEF IInv, TypeOK, HealthTypeOK, HealthMaps, Current
      <4>2. Available \in Entries /\ Available.state # "probe"
        BY DEF Available, Entries
      <4> QED
        BY <3>1, <4>1, <4>2 DEF Succeeded, AfterAttempt, HealthMaps, InFlight
    <3>4. Worked(t)
      BY <2>1, <3>1, <3>3 DEF Worked, AfterAttempt
    <3> QED
      BY <2>1, <2>3, <3>2, <3>4, EndsOK DEF Behaves, Ends
  <2> QED
    BY <2>2, <2>3
<1>11. CASE Reject(t) \/ ContinuationError(t)
  <2>1. PICK e \in Rejections :
          /\ Holding(t) /\ AttemptFails(t, e)
          /\ running' = [running EXCEPT ![t] = e.timeout]
             \/ running' = [running EXCEPT ![t] = FALSE]
    BY <1>11 DEF Reject, ContinuationError
  <2>2. e \in Errors /\ OthersRun(t) /\ (~e.timeout => ~running'[t])
    BY <1>0, <2>1, ErrorTypes DEF OthersRun
  <2> QED
    BY <2>1, <2>2, AttemptFailsBehaves
<1>12. CASE AnswerIncomplete(t)
  <2>1. Holding(t)
    BY <1>12 DEF AnswerIncomplete
  <2>2. CASE t \in BrowserTasks \/ aborted[t]
    <3>1. AttemptFails(t, Incomplete) /\ OthersRun(t) /\ ~running'[t]
      BY <1>0, <1>12, <2>2 DEF AnswerIncomplete, OthersRun
    <3> QED
      BY <2>1, <3>1, AttemptFailsBehaves, ErrorTypes
  <2>3. CASE ~(t \in BrowserTasks \/ aborted[t])
    <3>1. PICK next \in {"compacting", "continuing"} :
            /\ pc' = [pc EXCEPT ![t] = next]
            /\ UNCHANGED <<healthVars, control, running>>
      BY <1>12, <2>3 DEF AnswerIncomplete
    <3>2. next \in HoldingPcs \ {"preparing"} /\ OthersRun(t)
      BY <3>1 DEF OthersRun
    <3> QED
      BY <2>1, <3>1, <3>2, WaitBehaves
  <2> QED
    BY <2>2, <2>3
<1>13. CASE Compacted(t)
  <2>1. Holding(t) /\ OthersRun(t)
    BY <1>13 DEF Compacted, OthersRun
  <2>2. CASE aborted[t]
    <3>1. Caught(t, TRUE)
      BY <1>13, <2>1, <2>2, CatchIs, ErrorTypes DEF Compacted
    <3> QED
      BY <2>1, <2>2, <3>1, CaughtBehaves
  <2>3. CASE ~aborted[t]
    <3>1. /\ pc' = [pc EXCEPT ![t] = "continuing"]
          /\ "continuing" \in HoldingPcs \ {"preparing"}
          /\ UNCHANGED <<healthVars, control>>
      BY <1>13, <2>3 DEF Compacted
    <3> QED
      BY <2>1, <3>1, WaitBehaves
  <2> QED
    BY <2>2, <2>3
<1>14. CASE RecoveryFails(t)
  <2>1. Holding(t) /\ AttemptFails(t, Incomplete) /\ OthersRun(t)
    BY <1>0, <1>14 DEF RecoveryFails, OthersRun
  <2>2. Incomplete.category = "incomplete"
    BY DEF Incomplete
  <2> QED
    BY <2>1, <2>2, AttemptFailsBehaves, ErrorTypes
<1> QED
  BY <1>1, <1>2, <1>3, <1>4, <1>5, <1>6, <1>7, <1>8, <1>9, <1>10, <1>11, <1>12,
     <1>13, <1>14 DEF TaskStep, OwnStep, ModelStep

\* All that is said of the calls and of the table holds throughout.
Sound == IInv /\ TasksOK

\* A step of the table, and a restart, leave every call well.
LEMMA TasksNext == Sound /\ [Next]_vars => TasksOK'
<1> SUFFICES ASSUME Sound, [Next]_vars, NEW t \in Tasks PROVE TaskOK(t)'
  BY DEF TasksOK
<1>1. ASSUME NEW u \in Tasks, TaskStep(u) PROVE TaskOK(t)'
  <2>1. Behaves(u)
    BY <1>1, TaskStepBehaves DEF Sound, TasksOK
  <2>2. CASE t # u
    BY <2>1, <2>2 DEF Behaves, OthersLoop, OthersRun, LoopSame, Sound, TasksOK, TaskOK
  <2> QED
    BY <2>1, <2>2 DEF Behaves
<1>2. CASE TableStep \/ UNCHANGED vars
  BY <1>2 DEF TableStep, vars, taskVars, Sound, TasksOK, TaskOK
<1>3. CASE Restart
  BY <1>3 DEF Restart, TaskOK, IsInjective
<1> QED
  BY <1>1, <1>2, <1>3 DEF Next

\* The calls are sound: a child is running only after a prompt, and the bindings of
\* a call are different ones, tried in their order.
THEOREM CallsAreSound == Spec => []Sound
<1>1. Init => TasksOK
  BY DEF Init, TasksOK, TaskOK, IsInjective
<1>2. IInv /\ TasksOK /\ [Next]_vars => TasksOK'
  BY TasksNext DEF Sound
<1>3. Spec => []IInv
  BY Inductive
<1>4. Sound <=> IInv /\ TasksOK
  BY DEF Sound
<1> QED
  BY <1>1, <1>2, <1>3, <1>4, PTL DEF Spec

\* A prompt of a further attempt goes to a child whose agent loop has ended.
THEOREM OneLoopInAChild == Spec => OneLoopPerChild
<1>1. Sound => \A t \in Tasks :
         pc[t] = "preparing" /\ pc'[t] = "prompting" => ~running[t]
  BY DEF Sound, TasksOK, TaskOK
<1> QED
  BY <1>1, CallsAreSound, PTL DEF OneLoopPerChild

\* No call sends its prompt to one binding in two attempts, whatever the ranking and
\* also when the coordinator's binding is the reserve.
THEOREM EachBindingOnce == Spec => NoBindingTwice
<1>1. ASSUME Sound, NEW t \in Tasks, pc[t] = "preparing"
      PROVE  Current(t) \notin tried[t]
  <2>1. index[t] \in DOMAIN attempts[t] /\ index[t] \in Nat /\ attempts[t] \in Seq(Bindings)
    BY <1>1 DEF Sound, IInv, TypeOK, Holding, HoldingPcs
  <2>2. SUFFICES ASSUME Current(t) \in tried[t] PROVE FALSE
    OBVIOUS
  <2>3. PICK i \in DOMAIN attempts[t] : attempts[t][i] = Current(t) /\ i < index[t]
    BY <1>1, <2>2 DEF Sound, TasksOK, TaskOK
  <2>4. i = index[t]
    BY <1>1, <2>1, <2>3 DEF Sound, TasksOK, TaskOK, IsInjective, Current
  <2> QED
    BY <2>1, <2>3, <2>4
<1>2. Sound => \A t \in Tasks :
         pc[t] = "preparing" /\ pc'[t] = "prompting" => Current(t) \notin tried[t]
  BY <1>1
<1> QED
  BY <1>2, CallsAreSound, PTL DEF NoBindingTwice

\* A browser task whose side effect is recorded is not given to another model.
THEOREM RecordedEffectsOnce == Spec => RecordedEffectIsFinal
<1>1. ASSUME Sound, [Next]_vars, NEW t \in Tasks,
             effect[t] = "recorded", Holding(t), pc'[t] \in HoldingPcs
      PROVE  index'[t] = index[t]
  <2>1. ASSUME NEW u \in Tasks, TaskStep(u) PROVE index'[t] = index[t]
    <3>1. Behaves(u)
      BY <1>1, <2>1, TaskStepBehaves DEF Sound, TasksOK
    <3> QED
      BY <1>1, <3>1 DEF Behaves, OthersLoop, LoopSame
  <2>2. CASE TableStep \/ UNCHANGED vars
    BY <2>2 DEF TableStep, vars, taskVars
  <2>3. CASE Restart
    BY <1>1, <2>3 DEF Restart, HoldingPcs, AwaitingModel
  <2> QED
    BY <1>1, <2>1, <2>2, <2>3 DEF Next
<1>2. Sound /\ [Next]_vars => \A t \in Tasks :
         effect[t] = "recorded" /\ Holding(t) /\ pc'[t] \in HoldingPcs => index'[t] = index[t]
  BY <1>1
<1> QED
  BY <1>2, CallsAreSound, PTL DEF RecordedEffectIsFinal, Spec

----------------------------------------------------------------------------
(* The evidence about the bindings.  In the process it lasts whatever      *)
(* becomes of the writes of the database; across a restart it lasts while  *)
(* they succeed, because the rows then mirror the table.                   *)

\* What is known of every binding is kept: a block stays what it is.
BlocksStay ==
    \A b \in Bindings :
        health[b].state \in {"quarantined", "cooling"} => health'[b] = health[b]

\* What a step makes of the evidence: only a reset lifts a quarantine, only the clock
\* shortens a cooldown, and a cancelled attempt leaves its binding available.
EvidenceKept ==
    /\ \A b \in Bindings :
          health[b].state = "quarantined" /\ health'[b].state # "quarantined" => Reset(b)
    /\ \A b \in Bindings :
          health[b].state = "cooling" /\ ~Reset(b) => health'[b].left >= health[b].left - 1
    /\ \A t \in Tasks :
          aborted[t] /\ Holding(t) /\ pc'[t] \notin HoldingPcs
            => health'[Current(t)].state = "available"

\* As long as the process runs, and its database writes succeed or fail.
EvidenceInMemory == [][~Restart => EvidenceKept]_vars

\* The types of the table, and that a cooldown is at least what is left of it later.
LEMMA TableTypes ==
    ASSUME Sound
    PROVE  /\ health \in HealthMaps /\ saved \in RowMaps
           /\ \A b \in Bindings : health[b].state = "cooling" =>
                 health[b].left \in Nat \ {0} /\ health[b].left >= health[b].left - 1
<1>1. health \in HealthMaps /\ saved \in RowMaps
  BY DEF Sound, IInv, TypeOK, HealthTypeOK, HealthMaps, RowMaps
<1>2. \A r \in Entries : r.state = "cooling" => r.left \in Nat \ {0}
  BY DEF Entries, Available, Quarantined, Probe
<1>3. \A b \in Bindings : health[b].state = "cooling" => health[b].left \in Nat \ {0}
  BY <1>1, <1>2 DEF HealthMaps
<1> QED
  BY <1>1, <1>3

\* The attempt that ends has a claim, so no block changes; nor does one when the next
\* attempt is given its claim.
LEMMA WorkKeepsBlocks ==
    ASSUME IInv, NEW t \in Tasks, Worked(t)
    PROVE  BlocksStay
<1>1. ASSUME NEW h \in HealthMaps, NEW b \in Bindings, Eligible(h, b)
      PROVE  \A c \in Bindings :
                h[c].state \in {"quarantined", "cooling"} => Claimed(h, b)[c] = h[c]
  BY <1>1 DEF Eligible, Claimed, HealthMaps
<1>2. CASE UNCHANGED healthVars
  BY <1>2 DEF healthVars, BlocksStay
<1>3. CASE \E b \in Bindings : Eligible(health, b) /\ health' = Claimed(health, b)
  <2>1. health \in HealthMaps
    BY DEF IInv, TypeOK, HealthTypeOK, HealthMaps
  <2> QED
    BY <1>1, <1>3, <2>1 DEF BlocksStay
<1>4. ASSUME Holding(t), NEW h \in HealthMaps, AfterAttempt(t, h),
             \/ health' = h
             \/ \E b \in Bindings : Eligible(h, b) /\ health' = Claimed(h, b)
      PROVE  BlocksStay
  <2>1. Current(t) \in Bindings
    BY <1>4 DEF IInv, TypeOK, Current
  <2>2. health[Current(t)].state = "probe"
    BY <1>4, <2>1 DEF IInv, ClaimsAccounted, InFlight
  <2>3. \A c \in Bindings :
           health[c].state \in {"quarantined", "cooling"} => h[c] = health[c]
    BY <1>4, <2>2 DEF AfterAttempt
  <2> QED
    BY <1>1, <1>4, <2>3 DEF BlocksStay
<1> QED
  BY <1>2, <1>3, <1>4 DEF Worked

\* The clock shortens every cooldown by one tick, in the table and in the rows.
LEMMA TickShortens ==
    ASSUME Sound, Tick
    PROVE  /\ \A b \in Bindings :
                 /\ InFlight(health', b) <=> InFlight(health, b)
                 /\ health[b].state = "cooling" => health'[b].left = health[b].left - 1
                 /\ health[b].state # "cooling" => health'[b] = health[b]
           /\ \A b \in Bindings : saved[b] = health[b] => saved'[b] = health'[b]
           /\ \A b \in Bindings : saved[b] = Available => saved'[b] = Available
<1>1. ASSUME NEW n \in Nat \ {0}
      PROVE  /\ CoolingFor(n - 1).left = n - 1
             /\ CoolingFor(n - 1).state \in {"cooling", "available"}
  BY DEF CoolingFor, Available
<1>2. \A b \in Bindings :
         health'[b] = IF health[b].state = "cooling" THEN CoolingFor(health[b].left - 1)
                      ELSE health[b]
  BY DEF Tick, Later
<1>3. \A b \in Bindings :
         saved'[b] = IF saved[b].state = "cooling" THEN CoolingFor(saved[b].left - 1)
                     ELSE saved[b]
  BY DEF Tick, Later
<1>4. Available.state # "cooling"
  BY DEF Available
<1>5. \A b \in Bindings :
         /\ InFlight(health', b) <=> InFlight(health, b)
         /\ health[b].state = "cooling" => health'[b].left = health[b].left - 1
         /\ health[b].state # "cooling" => health'[b] = health[b]
  BY <1>1, <1>2, TableTypes DEF InFlight
<1> QED
  BY <1>2, <1>3, <1>4, <1>5

\* The operator's reset concerns one binding.
LEMMA ResetIsLocal ==
    ASSUME Sound, NEW b \in Bindings, Reset(b)
    PROVE  /\ health'[b] = Available /\ \A c \in Bindings \ {b} : health'[c] = health[c]
           /\ saved' \in PersistOutcomes(saved, health', b)
BY TableTypes DEF Reset, HealthMaps

\* Every step of a running process keeps the evidence.
LEMMA StepKeepsEvidence ==
    ASSUME Sound, [Next]_vars, ~Restart
    PROVE  EvidenceKept
<1>1. ASSUME NEW u \in Tasks, TaskStep(u) PROVE EvidenceKept
  <2>1. Behaves(u)
    BY <1>1, TaskStepBehaves DEF Sound, TasksOK
  <2>2. BlocksStay
    BY <2>1, WorkKeepsBlocks DEF Behaves, Sound
  <2>3. ASSUME NEW t \in Tasks, aborted[t], Holding(t), pc'[t] \notin HoldingPcs
        PROVE  health'[Current(t)].state = "available"
    BY <2>1, <2>3 DEF Behaves, OthersLoop, LoopSame, Holding
  <2> QED
    BY <2>2, <2>3, TableTypes DEF EvidenceKept, BlocksStay
<1>2. CASE UNCHANGED vars
  <2>1. UNCHANGED <<health, saved, pc>>
    BY <1>2 DEF vars, healthVars, taskVars
  <2> QED
    BY <2>1, TableTypes DEF EvidenceKept, Holding
<1>3. CASE TableStep
  <2>1. UNCHANGED pc
    BY <1>3 DEF TableStep, taskVars
  <2>2. CASE Tick
    BY <2>1, <2>2, TickShortens, TableTypes DEF EvidenceKept, Holding
  <2>3. ASSUME NEW b \in Bindings, Reset(b) PROVE EvidenceKept
    BY <2>1, <2>3, ResetIsLocal, TableTypes DEF EvidenceKept, Holding
  <2> QED
    BY <1>3, <2>2, <2>3 DEF TableStep
<1> QED
  BY <1>1, <1>2, <1>3 DEF Next

\* Within one process what is known of a binding lasts and a cancellation blames nobody,
\* also when no row can be written (persistModelHealth only logs the failure).
THEOREM EvidenceLastsInMemory == Spec => EvidenceInMemory
<1>1. Sound /\ [Next]_vars => (~Restart => EvidenceKept)
  BY StepKeepsEvidence
<1> QED
  BY <1>1, CallsAreSound, PTL DEF Spec, EvidenceInMemory

\* The rows are what the table h would be after a crash.
Mirrors(rows, h) ==
    \A b \in Bindings : rows[b] = IF InFlight(h, b) THEN Available ELSE h[b]

\* A claim is laid over an available entry, for which there is no row.
LEMMA ClaimMirrors ==
    ASSUME NEW rows, NEW h \in HealthMaps, Mirrors(rows, h),
           NEW b \in Bindings, Eligible(h, b)
    PROVE  Mirrors(rows, Claimed(h, b))
<1>1. h[b] = Available
  BY DEF Eligible, HealthMaps, Entries, Available, Quarantined, Probe
<1>2. /\ Claimed(h, b)[b] = Probe /\ Probe.state = "probe"
      /\ \A c \in Bindings \ {b} : Claimed(h, b)[c] = h[c]
  BY DEF Claimed, HealthMaps, Probe
<1>3. Available.state = "available"
  BY DEF Available
<1>4. rows[b] = Available
  BY <1>1, <1>3 DEF Mirrors, InFlight
<1> QED
  BY <1>1, <1>2, <1>3, <1>4 DEF Mirrors, InFlight

\* The end of an attempt is written as it is known.
LEMMA AttemptMirrors ==
    ASSUME DatabaseMayFail = FALSE, IInv, Mirrors(saved, health),
           NEW t \in Tasks, Holding(t), NEW h \in HealthMaps, AfterAttempt(t, h),
           saved' \in PersistOutcomes(saved, h, Current(t))
    PROVE  Mirrors(saved', h)
<1>1. Current(t) \in Bindings /\ saved \in RowMaps
  BY DEF IInv, TypeOK, HealthTypeOK, RowMaps, Current
<1>2. saved' = [saved EXCEPT ![Current(t)] = h[Current(t)]]
  BY DEF PersistOutcomes, Persisted, AfterAttempt
<1> QED
  BY <1>1, <1>2 DEF Mirrors, AfterAttempt, InFlight, RowMaps

\* So a step of a call keeps rows and table together.
LEMMA WorkMirrors ==
    ASSUME DatabaseMayFail = FALSE, IInv, Mirrors(saved, health), NEW t \in Tasks, Worked(t)
    PROVE  Mirrors(saved', health')
<1>1. health \in HealthMaps
  BY DEF IInv, TypeOK, HealthTypeOK, HealthMaps
<1>2. CASE UNCHANGED healthVars
  BY <1>2 DEF healthVars
<1>3. CASE /\ UNCHANGED saved
           /\ \E b \in Bindings : Eligible(health, b) /\ health' = Claimed(health, b)
  BY <1>1, <1>3, ClaimMirrors
<1>4. ASSUME Holding(t), NEW h \in HealthMaps, AfterAttempt(t, h),
             saved' \in PersistOutcomes(saved, h, Current(t)),
             \/ health' = h
             \/ \E b \in Bindings : Eligible(h, b) /\ health' = Claimed(h, b)
      PROVE  Mirrors(saved', health')
  BY <1>4, AttemptMirrors, ClaimMirrors
<1> QED
  BY <1>2, <1>3, <1>4 DEF Worked

\* Every step keeps rows and table together, and across a restart, too, the evidence.
LEMMA StepMirrors ==
    ASSUME DatabaseMayFail = FALSE, Sound, Mirrors(saved, health), [Next]_vars
    PROVE  Mirrors(saved', health') /\ EvidenceKept
<1>1. CASE Restart
  <2>1. health' = saved /\ saved' = saved
    BY <1>1 DEF Restart, Hydrate
  <2>2. \A b \in Bindings : saved[b].state # "probe"
    BY TableTypes DEF RowMaps, Rows, Entries, Available, Quarantined, Probe
  <2>3. Mirrors(saved', health')
    BY <2>1, <2>2 DEF Mirrors, InFlight
  <2>4. \A b \in Bindings :
           health[b].state \in {"quarantined", "cooling"} => health'[b] = health[b]
    BY <2>1 DEF Mirrors, InFlight
  <2>5. ASSUME NEW t \in Tasks, Holding(t) PROVE health'[Current(t)].state = "available"
    <3>1. Current(t) \in Bindings /\ InFlight(health, Current(t))
      BY <2>5 DEF Sound, IInv, TypeOK, ClaimsAccounted, Current
    <3> QED
      BY <2>1, <3>1 DEF Mirrors, Available
  <2> QED
    BY <2>3, <2>4, <2>5, TableTypes DEF EvidenceKept
<1>2. ASSUME NEW u \in Tasks, TaskStep(u) PROVE Mirrors(saved', health')
  BY <1>2, TaskStepBehaves, WorkMirrors DEF Behaves, Sound, TasksOK
<1>3. ASSUME UNCHANGED vars PROVE Mirrors(saved', health')
  BY <1>3 DEF vars, healthVars
<1>4. ASSUME Tick PROVE Mirrors(saved', health')
  BY <1>4, TickShortens DEF Mirrors, InFlight
<1>5. ASSUME NEW b \in Bindings, Reset(b) PROVE Mirrors(saved', health')
  <2>1. /\ health'[b] = Available /\ \A c \in Bindings \ {b} : health'[c] = health[c]
        /\ saved' \in PersistOutcomes(saved, health', b)
    BY <1>5, ResetIsLocal
  <2>2. Available.state = "available"
    BY DEF Available
  <2>3. saved' = [saved EXCEPT ![b] = Available]
    BY <2>1, <2>2 DEF PersistOutcomes, Persisted, InFlight
  <2> QED
    BY <2>1, <2>2, <2>3, TableTypes DEF Mirrors, InFlight, RowMaps
<1> QED
  BY <1>1, <1>2, <1>3, <1>4, <1>5, StepKeepsEvidence DEF Next, TableStep

\* While the writes of the database succeed, its rows are at every moment what the table
\* would be after a crash.
THEOREM RowsMirrorTable ==
    ASSUME DatabaseMayFail = FALSE
    PROVE  Spec => []SavedMirrorsHealth
<1>1. SavedMirrorsHealth <=> Mirrors(saved, health)
  BY DEF SavedMirrorsHealth, Mirrors
<1>2. Init => SavedMirrorsHealth
  <2>1. Available.state # "probe"
    BY DEF Available
  <2> QED
    BY <2>1 DEF Init, HealthInit, SavedMirrorsHealth, InFlight
<1>3. Sound /\ SavedMirrorsHealth /\ [Next]_vars => SavedMirrorsHealth'
  <2>1. SavedMirrorsHealth' <=> Mirrors(saved', health')
    BY DEF SavedMirrorsHealth, Mirrors, InFlight
  <2> QED
    BY <1>1, <2>1, StepMirrors
<1> QED
  BY <1>2, <1>3, CallsAreSound, PTL DEF Spec

\* What is known of a binding lasts: only a reset lifts a quarantine, only the clock
\* shortens a cooldown, and a crash forgets neither.
THEOREM EvidenceIsKept ==
    ASSUME DatabaseMayFail = FALSE
    PROVE  Spec => EvidenceLasts
<1>1. Sound /\ SavedMirrorsHealth /\ [Next]_vars => EvidenceKept
  BY StepMirrors DEF SavedMirrorsHealth, Mirrors
<1>2. EvidenceKept =>
         /\ \A b \in Bindings :
               health[b].state = "quarantined" /\ health'[b].state # "quarantined" => Reset(b)
         /\ \A b \in Bindings :
               health[b].state = "cooling" /\ ~Reset(b)
                 => health'[b].left >= health[b].left - 1
  BY DEF EvidenceKept
<1>3. Spec => QuarantineSticks
  BY <1>1, <1>2, CallsAreSound, RowsMirrorTable, PTL DEF Spec, QuarantineSticks
<1>4. Spec => CooldownNotCut
  BY <1>1, <1>2, CallsAreSound, RowsMirrorTable, PTL DEF Spec, CooldownNotCut
<1> QED
  BY <1>3, <1>4, RowsMirrorTable, PTL DEF EvidenceLasts

\* A cancelled attempt leaves its binding available, also when the process restarts in it.
THEOREM CancellationBlamesNobody ==
    ASSUME DatabaseMayFail = FALSE
    PROVE  Spec => CancellationIsNeutral
<1>1. Sound /\ SavedMirrorsHealth /\ [Next]_vars =>
         \A t \in Tasks : aborted[t] /\ Holding(t) /\ pc'[t] \notin HoldingPcs
                            => health'[Current(t)].state = "available"
  BY StepMirrors DEF SavedMirrorsHealth, Mirrors, EvidenceKept
<1> QED
  BY <1>1, CallsAreSound, RowsMirrorTable, PTL DEF Spec, CancellationIsNeutral
==============================================================================
