------------------------- MODULE NativeFailover_proofs -------------------------
(***************************************************************************)
(* Failover of native children, for any number of sessions, any pool and   *)
(* any order of events.  What the three action properties need is an       *)
(* account of the switch: a session that is not tracked has done nothing   *)
(* yet; between the confirmed abort and the acceptance of the continuation *)
(* the child has no loop and no event of it is left; the loop that runs on *)
(* the plugin's claim has not been idle; and the model a switch goes to is *)
(* one the child has not been run on.                                      *)
(***************************************************************************)
EXTENDS NativeFailover, TLAPS

\* A child that is not tracked has not run, and the plugin holds nothing for it.
UntrackedIsIdle(s) ==
    model[s] = NoBinding =>
        /\ phase[s] = "steady" /\ ~healthClaim[s]
        /\ loop[s] = NoBinding /\ events[s] = <<>> /\ sentTo[s] = {}

\* The claim moves to the session when the abort is confirmed.
ClaimFollowsSwitch(s) ==
    /\ phase[s] = "abort" => ~healthClaim[s] /\ nextModel[s] \in Bindings
    /\ phase[s] = "dispatch" => healthClaim[s]

\* Until its continuation is accepted the child is silent.
SilentUntilAccepted(s) ==
    phase[s] = "dispatch" /\ nextModel[s] # NoBinding =>
        /\ loop[s] = NoBinding /\ events[s] = <<>>
        /\ pendingFailure[s] = NoFailure /\ ~pendingIdle[s]

\* The loop a claim is held for is not reported idle before it ends.
NotYetIdle(s) ==
    healthClaim[s] /\ loop[s] # NoBinding =>
        ~pendingIdle[s] /\ \A i \in DOMAIN events[s] : events[s][i] # Idle

\* The child of session s has not been run on b, and will not be again: in
\* fallback mode b comes later in the pool than all it has been run on.
Fresh(s, b) ==
    /\ b \notin sentTo[s]
    /\ ~mode.ranked => \A c \in sentTo[s] : Place(c) < Place(b)

\* What a child has been run on is accounted for, by the attempts or by the pool.
SentIsAttempted(s) ==
    mode.reported /\ model[s] # NoBinding =>
        /\ exactModel[s] /\ model[s] \in attemptedModels[s] \cap Range(NativePool)
        /\ sentTo[s] \subseteq attemptedModels[s] \cap Range(NativePool)
        /\ \A c \in sentTo[s] : ~mode.ranked => Place(c) <= Place(model[s])
        /\ phase[s] = "abort" =>
              nextModel[s] \in Range(NativePool) /\ Fresh(s, nextModel[s])
        /\ phase[s] = "dispatch" /\ nextModel[s] # NoBinding => Fresh(s, model[s])

SessionOK(s) ==
    /\ UntrackedIsIdle(s) /\ ClaimFollowsSwitch(s) /\ SilentUntilAccepted(s)
    /\ NotYetIdle(s) /\ SentIsAttempted(s)

IInv == Inv /\ \A s \in Sessions : SessionOK(s)

HealthMaps == [Bindings -> Entries]
RowMaps == [Bindings -> Rows]

-----------------------------------------------------------------------------
(* The operators of the health table and of the choice of a model.         *)

\* A failed attempt leaves a well-formed table in which its binding is no longer
\* in flight and every other entry is unchanged.
LEMMA FailedEndsClaim ==
    ASSUME NEW h \in HealthMaps, NEW b \in Bindings,
           NEW category, NEW retryAfter \in Nat
    PROVE  /\ Failed(h, b, category, retryAfter) \in HealthMaps
           /\ ~InFlight(Failed(h, b, category, retryAfter), b)
           /\ \A c \in Bindings \ {b} :
                Failed(h, b, category, retryAfter)[c] = h[c]
<1> DEFINE new == Failed(h, b, category, retryAfter)
<1>1. PICK entry \in Entries : new = [h EXCEPT ![b] = entry] /\ entry.state # "probe"
  <2>1. CASE category = "transient"
    <3> DEFINE n == Larger(Cooldown, retryAfter)
    <3>1. n \in Nat
      BY CooldownAssumption DEF Larger
    <3>2. new = [h EXCEPT ![b] = CoolingFor(n)]
      BY <2>1 DEF Failed
    <3>3. CoolingFor(n) \in Entries /\ CoolingFor(n).state # "probe"
      BY <3>1 DEF CoolingFor, Entries, Available, Quarantined, Probe
    <3> HIDE DEF n
    <3> QED
      BY <3>2, <3>3
  <2>2. CASE category \in {"defective", "configuration"}
    <3>1. new = [h EXCEPT ![b] = Quarantined]
      BY <2>2 DEF Failed
    <3>2. Quarantined \in Entries /\ Quarantined.state # "probe"
      BY DEF Quarantined, Entries
    <3> QED
      BY <3>1, <3>2
  <2>3. CASE category \notin {"transient", "defective", "configuration"}
    <3>1. new = IF InFlight(h, b) THEN [h EXCEPT ![b] = Available] ELSE [h EXCEPT ![b] = h[b]]
      BY <2>3 DEF Failed, Released, HealthMaps
    <3> QED
      BY <3>1 DEF Available, Entries, HealthMaps, InFlight
  <2> QED
    BY <2>1, <2>2, <2>3
<1> HIDE DEF new
<1>2. new \in HealthMaps /\ ~InFlight(new, b) /\ \A c \in Bindings \ {b} : new[c] = h[c]
  BY <1>1 DEF HealthMaps, InFlight
<1> QED
  BY <1>2 DEF new

\* Saving a well-formed table leaves well-formed rows.
LEMMA PersistType ==
    ASSUME NEW rows \in RowMaps, NEW h \in HealthMaps, NEW b \in Bindings,
           NEW new \in PersistOutcomes(rows, h, b)
    PROVE  new \in RowMaps
<1>1. InFlight(h, b) \/ h[b] \in Rows
  BY DEF InFlight, HealthMaps, Rows, Probe
<1> QED
  BY <1>1 DEF PersistOutcomes, Persisted, RowMaps

\* The pool lists bindings, at places.
LEMMA PoolPlaces ==
    /\ NativePool[1] \in Bindings /\ NativePool[1] \in Range(NativePool)
    /\ Range(NativePool) \subseteq Bindings
    /\ \A b \in Range(NativePool) : Place(b) \in Nat
<1>1. NativePool \in Seq(Bindings) /\ NativePool # <<>>
  BY NativePoolAssumption
<1>2. Range(NativePool) = {NativePool[i] : i \in DOMAIN NativePool}
  BY DEF Range
<1>3. 1 \in DOMAIN NativePool /\ DOMAIN NativePool \subseteq Nat
  BY <1>1
<1>4. ASSUME NEW b \in Range(NativePool) PROVE Place(b) \in DOMAIN NativePool
  <2>1. \E i \in DOMAIN NativePool : NativePool[i] = b
    BY <1>2
  <2> QED
    BY <2>1 DEF Place
<1> QED
  BY <1>1, <1>2, <1>3, <1>4

\* A binding a session may go on to is one of the pool, and either not yet tried
\* or later in the pool than the model that failed.
LEMMA NextIsLater ==
    ASSUME NEW h, NEW b, NEW attempted, NEW c \in NextModels(h, b, attempted)
    PROVE  /\ c \in Range(NativePool) /\ Eligible(h, c)
           /\ IF mode.ranked THEN c \notin attempted ELSE Place(c) > Place(b)
BY DEF NextModels, Remaining

\* The kinds of events are distinct.
LEMMA EventKinds ==
    /\ Idle \notin Failures /\ NoFailure \notin Failures
    /\ \A e \in Failures : e.retryAfter \in Nat
<1>1. \A e \in Failures : e.category \in {"transient", "defective", "non_provider"}
  BY DEF Failures
<1>2. \A e \in Failures : e.retryAfter \in Nat
  <2>1. \A r \in RetryAfters \cup {0} : r \in Nat
    BY CooldownAssumption
  <2>2. \A e \in Failures : e.retryAfter \in RetryAfters \cup {0}
    BY DEF Failures
  <2> QED
    BY <2>1, <2>2
<1>3. Idle.category = "idle" /\ NoFailure.category = "none"
  BY DEF Idle, NoFailure
<1> QED
  BY <1>1, <1>2, <1>3

-----------------------------------------------------------------------------
(* A step of one session leaves the others as they are.                    *)

Untouched(t) ==
    /\ model'[t] = model[t] /\ exactModel'[t] = exactModel[t]
    /\ attemptedModels'[t] = attemptedModels[t] /\ healthClaim'[t] = healthClaim[t]
    /\ phase'[t] = phase[t] /\ nextModel'[t] = nextModel[t]
    /\ pendingFailure'[t] = pendingFailure[t] /\ pendingIdle'[t] = pendingIdle[t]
    /\ events'[t] = events[t] /\ loop'[t] = loop[t] /\ sentTo'[t] = sentTo[t]

\* What the table still has in flight is held by another session, or by s again.
ClaimsMove(s) ==
    \A b \in Bindings : InFlight(health, b)' =>
        (InFlight(health, b) /\ b \notin Claims(s)) \/ b \in Claims(s)'

Reconciled(s) == phase[s] # "dispatch" => pendingFailure[s] = NoFailure /\ ~pendingIdle[s]

\* A session no variable of which changes keeps its part of the invariant.
LEMMA UntouchedStep ==
    ASSUME NEW t \in Sessions, SessionOK(t), Untouched(t), mode' = mode
    PROVE  SessionOK(t)' /\ Claims(t)' = Claims(t)
<1>1. UntrackedIsIdle(t)' /\ ClaimFollowsSwitch(t)' /\ SilentUntilAccepted(t)'
  BY DEF SessionOK, Untouched, UntrackedIsIdle, ClaimFollowsSwitch, SilentUntilAccepted
<1>2. NotYetIdle(t)'
  BY DEF SessionOK, Untouched, NotYetIdle
<1>3. SentIsAttempted(t)'
  <2>1. \A b : Fresh(t, b)' = Fresh(t, b)
    BY DEF Untouched, Fresh
  <2> QED
    BY <2>1 DEF SessionOK, Untouched, SentIsAttempted
<1> QED
  BY <1>1, <1>2, <1>3 DEF SessionOK, Untouched, Claims

\* A step of session s that accounts for the claim of s keeps the invariant.
LEMMA SessionStepOK ==
    ASSUME IInv, NEW s \in Sessions, mode' = mode, TypeOK',
           \A t \in Sessions \ {s} : Untouched(t),
           SessionOK(s)', Reconciled(s)', ClaimsMove(s)
    PROVE  IInv'
<1>1. \A t \in Sessions \ {s} : SessionOK(t)' /\ Claims(t)' = Claims(t)
  BY UntouchedStep DEF IInv
<1>2. PendingReconciled'
  BY DEF IInv, Inv, PendingReconciled, Reconciled, Untouched
<1>3. NoClaimLeak'
  <2> SUFFICES ASSUME NEW b \in Bindings, InFlight(health, b)'
               PROVE  \E t \in Sessions : b \in Claims(t)'
    BY DEF NoClaimLeak
  <2>1. CASE b \in Claims(s)'
    BY <2>1
  <2>2. CASE InFlight(health, b) /\ b \notin Claims(s)
    <3>1. PICK t \in Sessions : b \in Claims(t)
      BY <2>2 DEF IInv, Inv, NoClaimLeak
    <3> QED
      BY <1>1, <2>2, <3>1
  <2> QED
    BY <2>1, <2>2 DEF ClaimsMove
<1> QED
  BY <1>1, <1>2, <1>3 DEF IInv, Inv

\* A session that keeps or gets a claim while the table stays as it is.
LEMMA ClaimsStay ==
    ASSUME NEW s \in Sessions, health' = health, Claims(s) \subseteq Claims(s)'
    PROVE  ClaimsMove(s)
BY DEF ClaimsMove, InFlight

-----------------------------------------------------------------------------
(* The steps of the server.                                                *)

\* An attached child runs on a model of the pool, which is exact if it is reported.
LEMMA AttachStep ==
    ASSUME IInv, NEW s \in Sessions, Attach(s)
    PROVE  IInv'
<1> USE DEF IInv, Inv
<1>1. PICK b \in Range(NativePool) :
          /\ model' = [model EXCEPT ![s] = IF mode.reported THEN b ELSE NativePool[1]]
          /\ loop' = [loop EXCEPT ![s] = b]
          /\ sentTo' = [sentTo EXCEPT ![s] = {b}]
          /\ attemptedModels' =
                [attemptedModels EXCEPT ![s] = IF mode.reported THEN {b} ELSE {}]
  BY DEF Attach
<1>2. /\ model[s] = NoBinding /\ exactModel' = [exactModel EXCEPT ![s] = mode.reported]
      /\ UNCHANGED <<mode, healthVars, healthClaim, switchVars, events>>
  BY DEF Attach
<1>3. mode.reported \in BOOLEAN
  BY NativeModeAssumption DEF TypeOK
<1>4. TypeOK'
  <2>1. HealthTypeOK'
    BY <1>2 DEF TypeOK, HealthTypeOK, healthVars
  <2> QED
    BY <1>1, <1>2, <1>3, <2>1, PoolPlaces DEF TypeOK, healthVars, switchVars
<1>5. \A t \in Sessions \ {s} : Untouched(t)
  BY <1>1, <1>2 DEF TypeOK, Untouched, healthVars, switchVars
<1>6. /\ model'[s] \in Range(NativePool) /\ model'[s] # NoBinding
      /\ mode.reported => model'[s] = b /\ exactModel'[s] /\ attemptedModels'[s] = {b}
      /\ loop'[s] = b /\ sentTo'[s] = {b} /\ phase'[s] = "steady" /\ ~healthClaim'[s]
      /\ phase[s] = "steady" /\ ~healthClaim[s]
      /\ pendingFailure'[s] = pendingFailure[s] /\ pendingIdle'[s] = pendingIdle[s]
  BY <1>1, <1>2, PoolPlaces, BindingAssumption
     DEF TypeOK, SessionOK, UntrackedIsIdle, switchVars
<1>7. SessionOK(s)'
  <2>1. SentIsAttempted(s)'
    BY <1>2, <1>6, PoolPlaces DEF SentIsAttempted
  <2> QED
    BY <1>6, <2>1
       DEF SessionOK, UntrackedIsIdle, ClaimFollowsSwitch, SilentUntilAccepted, NotYetIdle
<1>8. Reconciled(s)' /\ ClaimsMove(s)
  BY <1>2, <1>6, ClaimsStay DEF Reconciled, PendingReconciled, Claims, healthVars
<1> QED
  BY <1>2, <1>4, <1>5, <1>7, <1>8, SessionStepOK

\* A loop that ends leaves its idle event: the session has no loop any more.
LEMMA LoopEndsStep ==
    ASSUME IInv, NEW s \in Sessions, LoopEnds(s)
    PROVE  IInv'
<1> USE DEF IInv, Inv
<1>1. /\ loop[s] # NoBinding
      /\ loop' = [loop EXCEPT ![s] = NoBinding]
      /\ events' = [events EXCEPT ![s] = Append(events[s], Idle)]
      /\ UNCHANGED <<mode, healthVars, stateVars, switchVars, sentTo>>
  BY DEF LoopEnds
<1> USE DEF healthVars, stateVars, switchVars
<1>2. TypeOK'
  <2>1. HealthTypeOK'
    BY <1>1 DEF TypeOK, HealthTypeOK
  <2>2. Append(events[s], Idle) \in Seq(Failures \cup {Idle})
    BY DEF TypeOK
  <2> QED
    BY <1>1, <2>1, <2>2 DEF TypeOK
<1>3. \A t \in Sessions \ {s} : Untouched(t)
  BY <1>1 DEF TypeOK, Untouched
<1>4. loop'[s] = NoBinding
  BY <1>1 DEF TypeOK
<1>5. SessionOK(s)'
  <2>1. \A b : Fresh(s, b)' = Fresh(s, b)
    BY <1>1 DEF Fresh
  <2>2. SentIsAttempted(s)'
    BY <1>1, <2>1 DEF SessionOK, SentIsAttempted
  <2>3. UntrackedIsIdle(s)' /\ SilentUntilAccepted(s)'
    BY <1>1 DEF SessionOK, UntrackedIsIdle, SilentUntilAccepted
  <2> QED
    BY <1>1, <1>4, <2>2, <2>3 DEF SessionOK, ClaimFollowsSwitch, NotYetIdle
<1>6. Reconciled(s)' /\ ClaimsMove(s)
  BY <1>1, ClaimsStay DEF Reconciled, PendingReconciled, Claims
<1> QED
  BY <1>1, <1>2, <1>3, <1>5, <1>6, SessionStepOK

\* An error is an event that is not idle.
LEMMA LoopErrsStep ==
    ASSUME IInv, NEW s \in Sessions, LoopErrs(s)
    PROVE  IInv'
<1> USE DEF IInv, Inv
<1>1. PICK e \in Failures : events' = [events EXCEPT ![s] = Append(events[s], e)]
  BY DEF LoopErrs
<1>2. /\ loop[s] # NoBinding
      /\ UNCHANGED <<mode, healthVars, stateVars, switchVars, loop, sentTo>>
  BY DEF LoopErrs
<1> USE DEF healthVars, stateVars, switchVars
<1>3. events[s] \in Seq(Failures \cup {Idle}) /\ events'[s] = Append(events[s], e)
  BY <1>1 DEF TypeOK
<1>4. TypeOK'
  <2>1. HealthTypeOK'
    BY <1>2 DEF TypeOK, HealthTypeOK
  <2>2. Append(events[s], e) \in Seq(Failures \cup {Idle})
    BY <1>3
  <2> QED
    BY <1>1, <1>2, <2>1, <2>2 DEF TypeOK
<1>5. \A t \in Sessions \ {s} : Untouched(t)
  BY <1>1, <1>2 DEF TypeOK, Untouched
<1>6. SessionOK(s)'
  <2>1. \A b : Fresh(s, b)' = Fresh(s, b)
    BY <1>2 DEF Fresh
  <2>2. SentIsAttempted(s)'
    BY <1>2, <2>1 DEF SessionOK, SentIsAttempted
  <2>3. UntrackedIsIdle(s)' /\ SilentUntilAccepted(s)'
    BY <1>2 DEF SessionOK, UntrackedIsIdle, SilentUntilAccepted
  <2>4. NotYetIdle(s)'
    <3>1. \A i \in DOMAIN events'[s] :
             events'[s][i] = e \/ (i \in DOMAIN events[s] /\ events'[s][i] = events[s][i])
      BY <1>3
    <3> QED
      BY <1>2, <3>1, EventKinds DEF SessionOK, NotYetIdle
  <2> QED
    BY <1>2, <2>2, <2>3, <2>4 DEF SessionOK, ClaimFollowsSwitch
<1>7. Reconciled(s)' /\ ClaimsMove(s)
  BY <1>2, ClaimsStay DEF Reconciled, PendingReconciled, Claims
<1> QED
  BY <1>2, <1>4, <1>5, <1>6, <1>7, SessionStepOK

\* An accepted continuation starts a loop of a silent child on a fresh model.
LEMMA AcceptStep ==
    ASSUME IInv, NEW s \in Sessions, Accept(s)
    PROVE  IInv'
<1> USE DEF IInv, Inv
<1>1. /\ phase[s] = "dispatch" /\ nextModel[s] # NoBinding
      /\ nextModel' = [nextModel EXCEPT ![s] = NoBinding]
      /\ loop' = [loop EXCEPT ![s] = model[s]]
      /\ sentTo' = [sentTo EXCEPT ![s] = sentTo[s] \cup {model[s]}]
      /\ UNCHANGED <<mode, healthVars, stateVars, phase, pendingFailure, pendingIdle, events>>
  BY DEF Accept
<1> USE DEF healthVars, stateVars
<1>2. model[s] \in Bindings
  BY <1>1 DEF TypeOK, SessionOK, UntrackedIsIdle
<1>3. TypeOK'
  <2>1. HealthTypeOK'
    BY <1>1 DEF TypeOK, HealthTypeOK
  <2> QED
    BY <1>1, <1>2, <2>1 DEF TypeOK
<1>4. \A t \in Sessions \ {s} : Untouched(t)
  BY <1>1 DEF TypeOK, Untouched
<1>5. /\ nextModel'[s] = NoBinding /\ sentTo'[s] = sentTo[s] \cup {model[s]}
      /\ events'[s] = <<>> /\ ~pendingIdle'[s]
  BY <1>1 DEF TypeOK, SessionOK, SilentUntilAccepted
<1>6. SessionOK(s)'
  <2>1. SentIsAttempted(s)'
    BY <1>1, <1>2, <1>5, PoolPlaces DEF SessionOK, SentIsAttempted
  <2>2. UntrackedIsIdle(s)'
    BY <1>1, <1>2, BindingAssumption DEF UntrackedIsIdle
  <2> QED
    BY <1>1, <1>5, <2>1, <2>2
       DEF SessionOK, ClaimFollowsSwitch, SilentUntilAccepted, NotYetIdle
<1>7. Reconciled(s)' /\ ClaimsMove(s)
  BY <1>1, ClaimsStay DEF Reconciled, PendingReconciled, Claims
<1> QED
  BY <1>1, <1>3, <1>4, <1>6, <1>7, SessionStepOK

-----------------------------------------------------------------------------
(* The steps of the plugin.                                                *)

\* What a session is known to have been given when its model fails.
AttemptedAfter(s) ==
    IF exactModel[s] THEN attemptedModels[s] \cup {model[s]} ELSE attemptedModels[s]

\* failover() ends the claim of the session and either stays, with no claim, or
\* goes on to a claimed model of the pool that is new to it.
LEMMA FailoverEffect ==
    ASSUME IInv, NEW s \in Sessions, NEW e \in Failures,
           model[s] \in Bindings, phase[s] # "abort", Failover(s, e)
    PROVE  /\ HealthTypeOK'
           /\ attemptedModels' = [attemptedModels EXCEPT ![s] = AttemptedAfter(s)]
           /\ healthClaim' = [healthClaim EXCEPT ![s] = FALSE]
           /\ Forget(s) /\ UNCHANGED <<model, exactModel>>
           /\ \/ /\ phase' = [phase EXCEPT ![s] = "steady"]
                 /\ nextModel' = [nextModel EXCEPT ![s] = NoBinding]
                 /\ \A b \in Bindings : InFlight(health, b)' =>
                       InFlight(health, b) /\ b # model[s]
              \/ \E c \in Range(NativePool) :
                 /\ phase' = [phase EXCEPT ![s] = "abort"]
                 /\ nextModel' = [nextModel EXCEPT ![s] = c]
                 /\ IF mode.ranked THEN c \notin AttemptedAfter(s) \cup {model[s]}
                    ELSE Place(c) > Place(model[s])
                 /\ \A b \in Bindings : InFlight(health, b)' =>
                       (InFlight(health, b) /\ b # model[s]) \/ b = c
<1> DEFINE h == Failed(health, model[s], e.category, e.retryAfter)
           choices == IF e.category \in HealthCategories
                      THEN NextModels(h, model[s], AttemptedAfter(s) \cup {model[s]}) ELSE {}
<1>1. health \in HealthMaps /\ saved \in RowMaps
  BY DEF IInv, Inv, TypeOK, HealthTypeOK, HealthMaps, RowMaps
<1>2. /\ h \in HealthMaps /\ ~InFlight(h, model[s])
      /\ \A c \in Bindings \ {model[s]} : h[c] = health[c]
  BY <1>1, EventKinds, FailedEndsClaim
<1>3. /\ saved' \in PersistOutcomes(saved, h, model[s])
      /\ attemptedModels' = [attemptedModels EXCEPT ![s] = AttemptedAfter(s)]
      /\ healthClaim' = [healthClaim EXCEPT ![s] = FALSE]
      /\ Forget(s) /\ UNCHANGED <<model, exactModel>>
  BY DEF Failover, AttemptedAfter
<1>4. \/ /\ choices = {} /\ health' = h
         /\ phase' = [phase EXCEPT ![s] = "steady"]
         /\ nextModel' = [nextModel EXCEPT ![s] = NoBinding]
      \/ \E c \in choices :
         /\ health' = Claimed(h, c)
         /\ phase' = [phase EXCEPT ![s] = "abort"]
         /\ nextModel' = [nextModel EXCEPT ![s] = c]
  BY DEF Failover, AttemptedAfter
<1>5. saved' \in RowMaps
  BY <1>1, <1>2, <1>3, PersistType
<1>6. choices \subseteq NextModels(h, model[s], AttemptedAfter(s) \cup {model[s]})
  OBVIOUS
<1> HIDE DEF h, choices
<1>7. CASE /\ health' = h
           /\ phase' = [phase EXCEPT ![s] = "steady"]
           /\ nextModel' = [nextModel EXCEPT ![s] = NoBinding]
  <2>1. \A b \in Bindings : InFlight(health, b)' => InFlight(health, b) /\ b # model[s]
    BY <1>2, <1>7 DEF InFlight
  <2> QED
    BY <1>2, <1>3, <1>5, <1>7, <2>1 DEF HealthTypeOK, HealthMaps, RowMaps
<1>8. ASSUME NEW c \in choices,
             health' = Claimed(h, c),
             phase' = [phase EXCEPT ![s] = "abort"],
             nextModel' = [nextModel EXCEPT ![s] = c]
      PROVE  /\ HealthTypeOK'
             /\ c \in Range(NativePool)
             /\ IF mode.ranked THEN c \notin AttemptedAfter(s) \cup {model[s]}
                ELSE Place(c) > Place(model[s])
             /\ \A b \in Bindings : InFlight(health, b)' =>
                   (InFlight(health, b) /\ b # model[s]) \/ b = c
  <2>1. /\ c \in Range(NativePool)
        /\ IF mode.ranked THEN c \notin AttemptedAfter(s) \cup {model[s]}
           ELSE Place(c) > Place(model[s])
    BY <1>6, NextIsLater
  <2>2. c \in Bindings /\ Probe \in Entries
    BY <2>1, PoolPlaces DEF Probe, Entries
  <2>3. health' \in HealthMaps
    BY <1>2, <1>8, <2>2 DEF Claimed, HealthMaps
  <2>4. \A b \in Bindings : InFlight(health, b)' =>
           (InFlight(health, b) /\ b # model[s]) \/ b = c
    BY <1>2, <1>8, <2>2 DEF InFlight, Claimed, HealthMaps
  <2> QED
    BY <1>5, <2>1, <2>3, <2>4 DEF HealthTypeOK, HealthMaps, RowMaps
<1> QED
  BY <1>3, <1>4, <1>7, <1>8

\* Whatever way failover() is reached, by an event or at the end of a dispatch,
\* it keeps the invariant.
LEMMA FailoverStep ==
    ASSUME IInv, NEW s \in Sessions, NEW e \in Failures, phase[s] # "abort",
           model[s] # NoBinding, Failover(s, e), UNCHANGED <<mode, loop, sentTo>>,
           \E rest \in Seq(Failures \cup {Idle}) : events' = [events EXCEPT ![s] = rest]
    PROVE  IInv'
<1> USE DEF IInv, Inv
<1>1. model[s] \in Bindings
  BY DEF TypeOK
<1>2. PICK rest \in Seq(Failures \cup {Idle}) : events' = [events EXCEPT ![s] = rest]
  OBVIOUS
<1>3. /\ HealthTypeOK'
      /\ attemptedModels' = [attemptedModels EXCEPT ![s] = AttemptedAfter(s)]
      /\ healthClaim' = [healthClaim EXCEPT ![s] = FALSE]
      /\ pendingFailure' = [pendingFailure EXCEPT ![s] = NoFailure]
      /\ pendingIdle' = [pendingIdle EXCEPT ![s] = FALSE]
      /\ UNCHANGED <<model, exactModel>>
  BY <1>1, FailoverEffect DEF Forget
<1>4. PICK next \in Bindings \cup {NoBinding}, p \in {"steady", "abort"} :
        /\ phase' = [phase EXCEPT ![s] = p]
        /\ nextModel' = [nextModel EXCEPT ![s] = next]
        /\ p = "abort" =>
             /\ next \in Range(NativePool)
             /\ IF mode.ranked THEN next \notin AttemptedAfter(s) \cup {model[s]}
                ELSE Place(next) > Place(model[s])
        /\ \A b \in Bindings : InFlight(health, b)' =>
             (InFlight(health, b) /\ b # model[s]) \/ (p = "abort" /\ b = next)
  <2>1. CASE /\ phase' = [phase EXCEPT ![s] = "steady"]
             /\ nextModel' = [nextModel EXCEPT ![s] = NoBinding]
             /\ \A b \in Bindings : InFlight(health, b)' => InFlight(health, b) /\ b # model[s]
    BY <2>1
  <2>2. CASE \E c \in Range(NativePool) :
             /\ phase' = [phase EXCEPT ![s] = "abort"]
             /\ nextModel' = [nextModel EXCEPT ![s] = c]
             /\ IF mode.ranked THEN c \notin AttemptedAfter(s) \cup {model[s]}
                ELSE Place(c) > Place(model[s])
             /\ \A b \in Bindings : InFlight(health, b)' =>
                   (InFlight(health, b) /\ b # model[s]) \/ b = c
    BY <2>2, PoolPlaces
  <2> QED
    BY <1>1, <2>1, <2>2, FailoverEffect
<1>5. AttemptedAfter(s) \subseteq Bindings
  BY <1>1 DEF AttemptedAfter, TypeOK
<1>6. TypeOK'
  BY <1>2, <1>3, <1>4, <1>5 DEF TypeOK
<1>7. \A t \in Sessions \ {s} : Untouched(t)
  BY <1>2, <1>3, <1>4 DEF TypeOK, Untouched
<1>8. /\ phase'[s] = p /\ nextModel'[s] = next /\ ~healthClaim'[s]
      /\ attemptedModels'[s] = AttemptedAfter(s)
      /\ pendingFailure'[s] = NoFailure /\ ~pendingIdle'[s]
  BY <1>3, <1>4 DEF TypeOK
<1>9. SentIsAttempted(s)'
  <2>1. SUFFICES ASSUME mode.reported
                 PROVE  SentIsAttempted(s)'
    BY <1>3 DEF SentIsAttempted
  <2>2. /\ exactModel[s] /\ model[s] \in attemptedModels[s] \cap Range(NativePool)
        /\ sentTo[s] \subseteq attemptedModels[s] \cap Range(NativePool)
        /\ \A c \in sentTo[s] : ~mode.ranked => Place(c) <= Place(model[s])
    BY <2>1 DEF SessionOK, SentIsAttempted
  <2>3. AttemptedAfter(s) = attemptedModels[s]
    BY <2>2 DEF AttemptedAfter
  <2>4. p = "abort" => Fresh(s, next)
    <3> SUFFICES ASSUME p = "abort" PROVE Fresh(s, next)
      OBVIOUS
    <3>1. CASE mode.ranked
      BY <1>4, <2>2, <2>3, <3>1 DEF Fresh
    <3>2. CASE ~mode.ranked
      <4>1. Place(next) \in Nat /\ Place(model[s]) \in Nat
            /\ \A c \in sentTo[s] : Place(c) \in Nat /\ Place(c) <= Place(model[s])
        BY <1>4, <2>2, <3>2, PoolPlaces
      <4>2. \A c \in sentTo[s] : Place(c) < Place(next)
        BY <1>4, <3>2, <4>1
      <4> QED
        BY <4>1, <4>2 DEF Fresh
    <3> QED
      BY <3>1, <3>2
  <2>5. Fresh(s, next)' = Fresh(s, next)
    BY DEF Fresh
  <2> QED
    BY <1>3, <1>4, <1>8, <2>2, <2>3, <2>4, <2>5 DEF SentIsAttempted
<1>10. SessionOK(s)'
  BY <1>1, <1>3, <1>4, <1>8, <1>9, PoolPlaces, BindingAssumption
     DEF SessionOK, UntrackedIsIdle, ClaimFollowsSwitch, SilentUntilAccepted, NotYetIdle
<1>11. Reconciled(s)' /\ ClaimsMove(s)
  <2>1. Claims(s) \subseteq {model[s]}
    BY DEF Claims
  <2>2. p = "abort" => Claims(s)' = {next}
    BY <1>8 DEF Claims
  <2> QED
    BY <1>4, <1>8, <2>1, <2>2 DEF Reconciled, ClaimsMove
<1> QED
  BY <1>6, <1>7, <1>10, <1>11, SessionStepOK

\* finishTrackedSession() gives the claim back with the success of its model.
LEMMA FinishStep ==
    ASSUME IInv, NEW s \in Sessions, phase[s] # "abort", model[s] # NoBinding,
           phase[s] = "dispatch" => pendingFailure[s] = NoFailure,
           Finish(s), UNCHANGED <<mode, loop, sentTo>>,
           \E rest \in Seq(Failures \cup {Idle}) : events' = [events EXCEPT ![s] = rest]
    PROVE  IInv'
<1> USE DEF IInv, Inv
<1>1. model[s] \in Bindings
  BY DEF TypeOK
<1>2. PICK rest \in Seq(Failures \cup {Idle}) : events' = [events EXCEPT ![s] = rest]
  OBVIOUS
<1>3. /\ healthClaim' = [healthClaim EXCEPT ![s] = FALSE]
      /\ phase' = [phase EXCEPT ![s] = "steady"]
      /\ nextModel' = [nextModel EXCEPT ![s] = NoBinding]
      /\ pendingIdle' = [pendingIdle EXCEPT ![s] = FALSE]
      /\ UNCHANGED <<model, exactModel, attemptedModels, pendingFailure>>
  BY DEF Finish
<1>4. /\ HealthTypeOK'
      /\ \A b \in Bindings : InFlight(health, b)' => InFlight(health, b) /\ b \notin Claims(s)
  <2>1. health \in HealthMaps /\ saved \in RowMaps
    BY DEF TypeOK, HealthTypeOK, HealthMaps, RowMaps
  <2>2. CASE healthClaim[s]
    <3>1. health' = [health EXCEPT ![model[s]] = Available]
          /\ saved' \in PersistOutcomes(saved, health', model[s])
      BY <2>2 DEF Finish, Succeeded
    <3>2. Available \in Entries /\ Available.state # "probe"
      BY DEF Available, Entries
    <3>3. health' \in HealthMaps
      BY <2>1, <3>1, <3>2 DEF HealthMaps
    <3>4. saved' \in RowMaps
      BY <1>1, <2>1, <3>1, <3>3, PersistType
    <3>5. Claims(s) = {model[s]}
      BY <2>2 DEF Claims
    <3> QED
      BY <1>1, <2>1, <3>1, <3>2, <3>3, <3>4, <3>5 DEF HealthTypeOK, HealthMaps, RowMaps, InFlight
  <2>3. CASE ~healthClaim[s]
    <3>1. UNCHANGED healthVars /\ Claims(s) = {}
      BY <2>3 DEF Finish, Claims
    <3> QED
      BY <3>1 DEF TypeOK, HealthTypeOK, InFlight, healthVars
  <2> QED
    BY <2>2, <2>3
<1>5. TypeOK'
  BY <1>2, <1>3, <1>4 DEF TypeOK
<1>6. \A t \in Sessions \ {s} : Untouched(t)
  BY <1>2, <1>3 DEF TypeOK, Untouched
<1>7. /\ phase'[s] = "steady" /\ nextModel'[s] = NoBinding /\ ~healthClaim'[s]
      /\ pendingFailure'[s] = NoFailure /\ ~pendingIdle'[s]
  BY <1>3 DEF TypeOK, PendingReconciled
<1>8. SessionOK(s)'
  <2>1. SentIsAttempted(s)'
    BY <1>3, <1>7 DEF SessionOK, SentIsAttempted
  <2> QED
    BY <1>1, <1>3, <1>7, <2>1, BindingAssumption
       DEF SessionOK, UntrackedIsIdle, ClaimFollowsSwitch, SilentUntilAccepted, NotYetIdle
<1>9. Reconciled(s)' /\ ClaimsMove(s)
  BY <1>4, <1>7 DEF Reconciled, ClaimsMove
<1> QED
  BY <1>5, <1>6, <1>8, <1>9, SessionStepOK

\* An event that is delivered comes from a child that is tracked.
LEMMA DeliverStep ==
    ASSUME IInv, NEW s \in Sessions, Deliver(s)
    PROVE  IInv'
<1> USE DEF IInv, Inv
<1> DEFINE e == Head(events[s])
           rest == Tail(events[s])
<1>1. /\ events[s] # <<>> /\ events' = [events EXCEPT ![s] = rest]
      /\ UNCHANGED <<mode, loop, sentTo>>
  BY DEF Deliver
<1>2. /\ events[s] \in Seq(Failures \cup {Idle}) /\ e \in Failures \cup {Idle}
      /\ rest \in Seq(Failures \cup {Idle})
      /\ DOMAIN rest \subseteq Nat
      /\ \A i \in DOMAIN rest : rest[i] = events[s][i + 1] /\ i + 1 \in DOMAIN events[s]
      /\ 1 \in DOMAIN events[s] /\ e = events[s][1]
  <2>1. events[s] \in Seq(Failures \cup {Idle})
    BY DEF TypeOK
  <2> QED
    BY <1>1, <2>1
<1> HIDE DEF e, rest
<1>3. model[s] # NoBinding
  BY <1>1 DEF SessionOK, UntrackedIsIdle
<1>4. CASE phase[s] = "steady" /\ e = Idle
  <2>1. Finish(s)
    BY <1>4 DEF Deliver, e
  <2> QED
    BY <1>1, <1>2, <1>3, <1>4, <2>1, FinishStep
<1>5. CASE phase[s] = "steady" /\ e # Idle
  <2>1. Failover(s, e) /\ e \in Failures
    BY <1>2, <1>5 DEF Deliver, e
  <2> QED
    BY <1>1, <1>2, <1>3, <1>5, <2>1, FailoverStep
<1> USE DEF healthVars, stateVars, switchVars
<1>6. CASE phase[s] = "abort"
  <2>1. UNCHANGED <<healthVars, stateVars, switchVars>>
    BY <1>6 DEF Deliver
  <2>2. TypeOK'
    BY <1>1, <1>2, <2>1 DEF TypeOK, HealthTypeOK
  <2>3. \A t \in Sessions \ {s} : Untouched(t)
    BY <1>1, <2>1 DEF TypeOK, Untouched
  <2>4. SessionOK(s)'
    <3>1. \A b : Fresh(s, b)' = Fresh(s, b)
      BY <1>1 DEF Fresh
    <3>2. SentIsAttempted(s)'
      BY <1>1, <2>1, <3>1 DEF SessionOK, SentIsAttempted
    <3> QED
      BY <1>1, <1>3, <1>6, <2>1, <3>2
         DEF SessionOK, UntrackedIsIdle, ClaimFollowsSwitch, SilentUntilAccepted, NotYetIdle
  <2>5. Reconciled(s)' /\ ClaimsMove(s)
    BY <1>6, <2>1, ClaimsStay DEF Reconciled, PendingReconciled, Claims
  <2> QED
    BY <1>1, <2>2, <2>3, <2>4, <2>5, SessionStepOK
<1>7. CASE phase[s] = "dispatch"
  <2>1. Defer(s, e)
    BY <1>7 DEF Deliver, e
  <2>2. /\ UNCHANGED <<healthVars, stateVars, phase, nextModel>>
        /\ IF e = Idle
           THEN pendingIdle' = [pendingIdle EXCEPT ![s] = TRUE] /\ UNCHANGED pendingFailure
           ELSE /\ pendingFailure' = [pendingFailure EXCEPT ![s] =
                     IF pendingFailure[s] = NoFailure THEN e ELSE pendingFailure[s]]
                /\ UNCHANGED pendingIdle
    BY <2>1 DEF Defer
  <2>3. TypeOK'
    BY <1>1, <1>2, <2>2 DEF TypeOK, HealthTypeOK
  <2>4. \A t \in Sessions \ {s} : Untouched(t)
    BY <1>1, <2>2 DEF TypeOK, Untouched
  <2>5. nextModel[s] = NoBinding
    BY <1>1, <1>7 DEF SessionOK, SilentUntilAccepted
  <2>6. SessionOK(s)'
    <3>1. \A b : Fresh(s, b)' = Fresh(s, b)
      BY <1>1 DEF Fresh
    <3>2. SentIsAttempted(s)'
      BY <1>1, <2>2, <3>1 DEF SessionOK, SentIsAttempted
    <3>3. NotYetIdle(s)'
      <4> SUFFICES ASSUME healthClaim[s], loop[s] # NoBinding
                   PROVE  ~pendingIdle'[s] /\ \A i \in DOMAIN events'[s] : events'[s][i] # Idle
        BY <1>1, <2>2 DEF NotYetIdle
      <4>1. ~pendingIdle[s] /\ \A i \in DOMAIN events[s] : events[s][i] # Idle
        BY DEF SessionOK, NotYetIdle
      <4>2. e # Idle /\ events'[s] = rest
        BY <1>1, <1>2, <4>1 DEF TypeOK
      <4> QED
        BY <1>2, <2>2, <4>1, <4>2
    <3> QED
      BY <1>1, <1>3, <1>7, <2>2, <2>5, <3>2, <3>3
         DEF SessionOK, UntrackedIsIdle, ClaimFollowsSwitch, SilentUntilAccepted
  <2>7. Reconciled(s)' /\ ClaimsMove(s)
    BY <1>7, <2>2, ClaimsStay DEF Reconciled, Claims
  <2> QED
    BY <1>1, <2>3, <2>4, <2>6, <2>7, SessionStepOK
<1> QED
  BY <1>4, <1>5, <1>6, <1>7 DEF TypeOK

\* A confirmed abort: the child is silent, and the session takes the fresh model
\* and with it the claim.
LEMMA AbortConfirmedStep ==
    ASSUME IInv, NEW s \in Sessions, AbortConfirmed(s)
    PROVE  IInv'
<1> USE DEF IInv, Inv
<1>1. /\ phase[s] = "abort" /\ loop[s] = NoBinding /\ events[s] = <<>>
      /\ model' = [model EXCEPT ![s] = nextModel[s]]
      /\ exactModel' = [exactModel EXCEPT ![s] = TRUE]
      /\ attemptedModels' = [attemptedModels EXCEPT ![s] = attemptedModels[s] \cup {nextModel[s]}]
      /\ healthClaim' = [healthClaim EXCEPT ![s] = TRUE]
      /\ phase' = [phase EXCEPT ![s] = "dispatch"]
      /\ UNCHANGED <<healthVars, nextModel, pendingFailure, pendingIdle, serverVars>>
  BY DEF AbortConfirmed
<1> USE DEF healthVars, serverVars
<1>2. nextModel[s] \in Bindings /\ model[s] # NoBinding
  BY <1>1 DEF SessionOK, ClaimFollowsSwitch, UntrackedIsIdle
<1>3. TypeOK'
  BY <1>1, <1>2 DEF TypeOK, HealthTypeOK
<1>4. \A t \in Sessions \ {s} : Untouched(t)
  BY <1>1 DEF TypeOK, Untouched
<1>5. /\ model'[s] = nextModel[s] /\ exactModel'[s] /\ healthClaim'[s]
      /\ attemptedModels'[s] = attemptedModels[s] \cup {nextModel[s]}
      /\ phase'[s] = "dispatch" /\ pendingFailure'[s] = NoFailure /\ ~pendingIdle'[s]
  BY <1>1 DEF TypeOK, PendingReconciled
<1>6. SentIsAttempted(s)'
  <2> SUFFICES ASSUME mode.reported PROVE SentIsAttempted(s)'
    BY <1>1 DEF SentIsAttempted
  <2>1. /\ nextModel[s] \in Range(NativePool) /\ Fresh(s, nextModel[s])
        /\ sentTo[s] \subseteq attemptedModels[s] \cap Range(NativePool)
    BY <1>1, <1>2 DEF SessionOK, SentIsAttempted
  <2>2. Fresh(s, nextModel[s])' /\ Fresh(s, model[s])'
    BY <1>1, <1>5, <2>1 DEF Fresh
  <2>3. \A c \in sentTo[s] : ~mode.ranked => Place(c) <= Place(nextModel[s])
    BY <2>1, PoolPlaces DEF Fresh
  <2> QED
    BY <1>1, <1>5, <2>1, <2>2, <2>3 DEF SentIsAttempted
<1>7. SessionOK(s)'
  BY <1>1, <1>2, <1>5, <1>6, BindingAssumption
     DEF SessionOK, UntrackedIsIdle, ClaimFollowsSwitch, SilentUntilAccepted, NotYetIdle
<1>8. Reconciled(s)' /\ ClaimsMove(s)
  <2>1. ~healthClaim[s] /\ nextModel'[s] = nextModel[s]
    BY <1>1 DEF SessionOK, ClaimFollowsSwitch
  <2>2. Claims(s) = {nextModel[s]} /\ Claims(s)' = {nextModel[s]}
    BY <1>1, <1>5, <2>1 DEF Claims
  <2> QED
    BY <1>1, <1>5, <2>2, ClaimsStay DEF Reconciled
<1> QED
  BY <1>1, <1>3, <1>4, <1>7, <1>8, SessionStepOK

\* An abort that is not confirmed gives the claim on the new model back.
LEMMA AbortUnconfirmedStep ==
    ASSUME IInv, NEW s \in Sessions, AbortUnconfirmed(s)
    PROVE  IInv'
<1> USE DEF IInv, Inv
<1>1. /\ phase[s] = "abort" /\ health' = Released(health, nextModel[s])
      /\ phase' = [phase EXCEPT ![s] = "steady"]
      /\ nextModel' = [nextModel EXCEPT ![s] = NoBinding]
      /\ UNCHANGED <<saved, stateVars, pendingFailure, pendingIdle, serverVars>>
  BY DEF AbortUnconfirmed
<1> USE DEF stateVars, serverVars
<1>2. nextModel[s] \in Bindings /\ model[s] # NoBinding /\ ~healthClaim[s]
  BY <1>1 DEF SessionOK, ClaimFollowsSwitch, UntrackedIsIdle
<1>3. /\ HealthTypeOK'
      /\ \A b \in Bindings : InFlight(health, b)' => InFlight(health, b) /\ b # nextModel[s]
  BY <1>1, <1>2 DEF TypeOK, HealthTypeOK, Released, InFlight, Available, Entries
<1>4. TypeOK'
  BY <1>1, <1>3 DEF TypeOK
<1>5. \A t \in Sessions \ {s} : Untouched(t)
  BY <1>1 DEF TypeOK, Untouched
<1>6. phase'[s] = "steady" /\ pendingFailure'[s] = NoFailure /\ ~pendingIdle'[s]
  BY <1>1 DEF TypeOK, PendingReconciled
<1>7. SessionOK(s)'
  <2>1. SentIsAttempted(s)'
    BY <1>1, <1>6 DEF SessionOK, SentIsAttempted
  <2> QED
    BY <1>1, <1>2, <1>6, <2>1
       DEF SessionOK, UntrackedIsIdle, ClaimFollowsSwitch, SilentUntilAccepted, NotYetIdle
<1>8. Reconciled(s)' /\ ClaimsMove(s)
  BY <1>1, <1>3, <1>6 DEF Reconciled, ClaimsMove, Claims
<1> QED
  BY <1>1, <1>4, <1>5, <1>7, <1>8, SessionStepOK

\* A dispatch that settles handles what came in the meantime, the failure first.
LEMMA DispatchSettlesStep ==
    ASSUME IInv, NEW s \in Sessions, DispatchSettles(s)
    PROVE  IInv'
<1> USE DEF IInv, Inv
<1>1. PICK e \in Failures \cup {NoFailure} :
        LET failure == IF pendingFailure[s] # NoFailure THEN pendingFailure[s] ELSE e
        IN  CASE failure # NoFailure -> Failover(s, failure)
              [] failure = NoFailure /\ pendingIdle[s] -> Finish(s)
              [] OTHER -> Resume(s)
  BY DEF DispatchSettles
<1> DEFINE failure == IF pendingFailure[s] # NoFailure THEN pendingFailure[s] ELSE e
<1>2. phase[s] = "dispatch" /\ UNCHANGED serverVars
  BY DEF DispatchSettles
<1>3. /\ model[s] # NoBinding /\ healthClaim[s]
      /\ \E rest \in Seq(Failures \cup {Idle}) : events' = [events EXCEPT ![s] = rest]
  BY <1>2 DEF SessionOK, UntrackedIsIdle, ClaimFollowsSwitch, serverVars, TypeOK
<1>4. CASE failure # NoFailure
  <2>1. failure \in Failures /\ Failover(s, failure)
    BY <1>1, <1>4 DEF TypeOK
  <2> HIDE DEF failure
  <2> QED
    BY <1>2, <1>3, <2>1, FailoverStep DEF serverVars
<1>5. CASE failure = NoFailure /\ pendingIdle[s]
  <2>1. Finish(s) /\ pendingFailure[s] = NoFailure
    BY <1>1, <1>5
  <2> QED
    BY <1>2, <1>3, <2>1, FinishStep DEF serverVars
<1>6. CASE failure = NoFailure /\ ~pendingIdle[s]
  <2>1. /\ phase' = [phase EXCEPT ![s] = "steady"] /\ pendingFailure[s] = NoFailure
        /\ UNCHANGED <<healthVars, stateVars, nextModel, pendingFailure, pendingIdle, serverVars>>
    BY <1>1, <1>2, <1>6 DEF Resume
  <2> USE DEF healthVars, stateVars, serverVars
  <2>2. TypeOK'
    BY <2>1 DEF TypeOK, HealthTypeOK
  <2>3. \A t \in Sessions \ {s} : Untouched(t)
    BY <2>1 DEF TypeOK, Untouched
  <2>4. phase'[s] = "steady"
    BY <2>1 DEF TypeOK
  <2>5. SessionOK(s)'
    <3>1. SentIsAttempted(s)'
      BY <2>1, <2>4 DEF SessionOK, SentIsAttempted
    <3> QED
      BY <1>3, <2>1, <2>4, <3>1
         DEF SessionOK, UntrackedIsIdle, ClaimFollowsSwitch, SilentUntilAccepted, NotYetIdle
  <2>6. Reconciled(s)' /\ ClaimsMove(s)
    BY <1>2, <1>6, <2>1, <2>4, ClaimsStay DEF Reconciled, Claims
  <2> QED
    BY <2>1, <2>2, <2>3, <2>5, <2>6, SessionStepOK
<1> QED
  BY <1>4, <1>5, <1>6

-----------------------------------------------------------------------------
(* The theorems.                                                           *)

\* Time and resets end no claim and make none.
LEMMA TableStepOK ==
    ASSUME IInv, TableStep
    PROVE  IInv'
<1> USE DEF IInv, Inv
<1>1. UNCHANGED nativeVars
  BY DEF TableStep
<1>2. /\ HealthTypeOK'
      /\ \A b \in Bindings : InFlight(health, b)' => InFlight(health, b)
  <2>1. CASE Tick
    <3>1. ASSUME NEW n \in Nat \ {0}
          PROVE  CoolingFor(n - 1) \in Rows /\ CoolingFor(n - 1).state # "probe"
      BY DEF CoolingFor, Available, Rows, Entries, Probe
    <3>2. ASSUME NEW f \in HealthMaps, NEW b \in Bindings
          PROVE  /\ Later(f)[b] \in Entries
                 /\ f[b] \in Rows => Later(f)[b] \in Rows
                 /\ Later(f)[b].state = "probe" => f[b].state = "probe"
      <4>1. CASE f[b].state = "cooling"
        <5>1. f[b].left \in Nat \ {0}
          BY <4>1 DEF HealthMaps, Entries, Available, Quarantined, Probe
        <5>2. Later(f)[b] = CoolingFor(f[b].left - 1)
          BY <4>1 DEF Later
        <5> QED
          BY <3>1, <5>1, <5>2 DEF Rows
      <4>2. CASE f[b].state # "cooling"
        <5>1. Later(f)[b] = f[b]
          BY <4>2 DEF Later
        <5> QED
          BY <5>1 DEF HealthMaps
      <4> QED
        BY <4>1, <4>2
    <3>3. health \in HealthMaps /\ saved \in HealthMaps /\ \A b \in Bindings : saved[b] \in Rows
      BY DEF TypeOK, HealthTypeOK, HealthMaps, Rows
    <3>4. health' = Later(health) /\ saved' = Later(saved)
      BY <2>1 DEF Tick
    <3>5. \A f : Later(f) = [b \in Bindings |-> Later(f)[b]]
      BY DEF Later
    <3> QED
      BY <3>2, <3>3, <3>4, <3>5 DEF HealthTypeOK, InFlight
  <2>2. ASSUME NEW b \in Bindings, Reset(b)
        PROVE  HealthTypeOK' /\ \A c \in Bindings : InFlight(health, c)' => InFlight(health, c)
    <3>1. health \in HealthMaps /\ saved \in RowMaps
      BY DEF TypeOK, HealthTypeOK, HealthMaps, RowMaps
    <3>2. Available \in Entries /\ Available.state # "probe"
      BY DEF Available, Entries
    <3>3. health' \in HealthMaps
      BY <2>2, <3>1, <3>2 DEF Reset, HealthMaps
    <3>4. saved' \in RowMaps
      BY <2>2, <3>1, <3>3, PersistType DEF Reset
    <3> QED
      BY <2>2, <3>1, <3>2, <3>3, <3>4 DEF Reset, HealthTypeOK, HealthMaps, RowMaps, InFlight
  <2> QED
    BY <2>1, <2>2 DEF TableStep
<1> USE DEF nativeVars, stateVars, switchVars, serverVars
<1>3. TypeOK' /\ PendingReconciled'
  BY <1>1, <1>2 DEF TypeOK, PendingReconciled
<1>4. \A s \in Sessions : SessionOK(s)' /\ Claims(s)' = Claims(s)
  BY <1>1, UntouchedStep DEF Untouched
<1>5. NoClaimLeak'
  BY <1>2, <1>4 DEF NoClaimLeak
<1> QED
  BY <1>3, <1>4, <1>5

\* The initial states satisfy the invariant: nothing is tracked.
LEMMA InitStep == Init => IInv
<1> SUFFICES ASSUME Init PROVE IInv
  OBVIOUS
<1>1. HealthTypeOK /\ \A b \in Bindings : ~InFlight(health, b)
  BY DEF Init, HealthInit, HealthTypeOK, InFlight, Available, Entries, Rows, Probe
<1>2. TypeOK /\ PendingReconciled
  BY <1>1 DEF Init, NativeInit, TypeOK, PendingReconciled
<1>3. \A s \in Sessions : SessionOK(s)
  BY DEF Init, NativeInit, SessionOK, UntrackedIsIdle, ClaimFollowsSwitch, SilentUntilAccepted,
         NotYetIdle, SentIsAttempted
<1> QED
  BY <1>1, <1>2, <1>3 DEF IInv, Inv, NoClaimLeak

\* Every step keeps the invariant.
LEMMA NextStep == IInv /\ [Next]_vars => IInv'
<1> SUFFICES ASSUME IInv, [Next]_vars PROVE IInv'
  OBVIOUS
<1>1. ASSUME NEW s \in Sessions, SessionStep(s) PROVE IInv'
  BY <1>1, AttachStep, LoopEndsStep, LoopErrsStep, AcceptStep, DeliverStep,
     AbortConfirmedStep, AbortUnconfirmedStep, DispatchSettlesStep
     DEF SessionStep, PluginStep
<1>2. CASE UNCHANGED vars
  <2> USE DEF vars, healthVars, nativeVars, stateVars, switchVars, serverVars
  <2>1. TypeOK' /\ PendingReconciled'
    BY <1>2 DEF IInv, Inv, TypeOK, HealthTypeOK, PendingReconciled
  <2>2. \A s \in Sessions : SessionOK(s)' /\ Claims(s)' = Claims(s)
    BY <1>2, UntouchedStep DEF Untouched, IInv
  <2>3. NoClaimLeak'
    BY <1>2, <2>2 DEF IInv, Inv, NoClaimLeak, InFlight
  <2> QED
    BY <2>1, <2>2, <2>3 DEF IInv, Inv
<1> QED
  BY <1>1, <1>2, TableStepOK DEF Next

\* The invariant the properties below rest on.
THEOREM Inductive == Spec => []IInv
BY InitStep, NextStep, PTL DEF Spec

\* A binding stays in flight only on account of a session that still has the claim
\* to give back, and no event kept during a dispatch outlives it.
THEOREM NoClaimIsLeaked == Spec => []Inv
<1>1. IInv => Inv
  BY DEF IInv
<1> QED
  BY <1>1, Inductive, PTL

\* The loop of a child changes by ending, or starts where there was none.
LEMMA LoopStep ==
    ASSUME IInv, [Next]_vars, NEW s \in Sessions, loop'[s] # loop[s]
    PROVE  NoBinding \in {loop[s], loop'[s]}
<1>1. loop \in [Sessions -> Bindings \cup {NoBinding}]
  BY DEF IInv, Inv, TypeOK
<1>2. ASSUME NEW t \in Sessions, Attach(t) PROVE NoBinding \in {loop[s], loop'[s]}
  BY <1>1, <1>2 DEF Attach, IInv, SessionOK, UntrackedIsIdle
<1>3. ASSUME NEW t \in Sessions, LoopEnds(t) PROVE NoBinding \in {loop[s], loop'[s]}
  BY <1>1, <1>3 DEF LoopEnds
<1>4. ASSUME NEW t \in Sessions, Accept(t) PROVE NoBinding \in {loop[s], loop'[s]}
  BY <1>1, <1>4 DEF Accept, IInv, SessionOK, SilentUntilAccepted
<1>5. ASSUME UNCHANGED loop PROVE FALSE
  BY <1>5
<1>6. ASSUME NEW t \in Sessions, LoopErrs(t) \/ PluginStep(t) PROVE UNCHANGED loop
  BY <1>6 DEF LoopErrs, PluginStep, Deliver, AbortConfirmed, AbortUnconfirmed,
              DispatchSettles, serverVars
<1>7. TableStep \/ UNCHANGED vars => UNCHANGED loop
  BY DEF TableStep, vars, nativeVars, serverVars
<1> QED
  BY <1>2, <1>3, <1>4, <1>5, <1>6, <1>7 DEF Next, SessionStep

\* A continuation is only sent to a child whose agent loop has ended.
THEOREM ContinuationFollowsEnd == Spec => OneLoopPerSession
<1>1. IInv /\ [Next]_vars =>
        [\A s \in Sessions : loop'[s] # loop[s] => NoBinding \in {loop[s], loop'[s]}]_vars
  BY LoopStep
<1> QED
  BY <1>1, Inductive, PTL DEF Spec, OneLoopPerSession

\* A claim is given up under a running loop for an error only: an idle event of that
\* loop has not been published, and one of the loop before was dropped or awaited.
LEMMA ClaimStep ==
    ASSUME IInv, [Next]_vars, NEW s \in Sessions,
           healthClaim[s], ~healthClaim'[s], loop[s] # NoBinding
    PROVE  \/ pendingFailure[s] # NoFailure
           \/ events[s] # <<>> /\ Head(events[s]) # Idle
<1> DEFINE Goal == \/ pendingFailure[s] # NoFailure
                   \/ events[s] # <<>> /\ Head(events[s]) # Idle
<1>1. /\ healthClaim \in [Sessions -> BOOLEAN] /\ events[s] \in Seq(Failures \cup {Idle})
      /\ phase[s] \in {"steady", "abort", "dispatch"}
  BY DEF IInv, Inv, TypeOK
<1>2. /\ ~pendingIdle[s] /\ \A i \in DOMAIN events[s] : events[s][i] # Idle
      /\ phase[s] # "abort"
  BY DEF IInv, SessionOK, NotYetIdle, ClaimFollowsSwitch
<1>3. ASSUME Deliver(s) PROVE Goal
  <2>1. events[s] # <<>>
    BY <1>3 DEF Deliver
  <2>2. Head(events[s]) # Idle
    BY <1>1, <1>2, <2>1
  <2> QED
    BY <2>1, <2>2
<1>4. ASSUME DispatchSettles(s) PROVE Goal
  <2>1. phase[s] = "dispatch"
    BY <1>4 DEF DispatchSettles
  <2>2. nextModel[s] = NoBinding
    BY <2>1 DEF IInv, SessionOK, SilentUntilAccepted
  <2>3. pendingFailure[s] # NoFailure \/ Resume(s)
    BY <1>2, <1>4, <2>2 DEF DispatchSettles
  <2>4. ~Resume(s)
    BY DEF Resume, stateVars
  <2> QED
    BY <2>3, <2>4
<1>5. ASSUME NEW t \in Sessions, Deliver(t) \/ DispatchSettles(t), t # s PROVE FALSE
  <2>1. \/ \E e : Failover(t, e) \/ Defer(t, e)
        \/ Finish(t) \/ Resume(t) \/ UNCHANGED stateVars
    BY <1>5 DEF Deliver, DispatchSettles, IInv, Inv, TypeOK
  <2>2. healthClaim' = healthClaim \/ healthClaim' = [healthClaim EXCEPT ![t] = FALSE]
    BY <2>1 DEF Finish, Failover, Defer, Resume, stateVars
  <2> QED
    BY <1>1, <1>5, <2>2
<1>6. ASSUME NEW t \in Sessions, AbortConfirmed(t) PROVE FALSE
  BY <1>1, <1>6 DEF AbortConfirmed
<1>7. ASSUME NEW t \in Sessions,
             Attach(t) \/ LoopEnds(t) \/ LoopErrs(t) \/ Accept(t) \/ AbortUnconfirmed(t)
      PROVE  FALSE
  BY <1>7 DEF Attach, LoopEnds, LoopErrs, Accept, AbortUnconfirmed, stateVars
<1>8. TableStep \/ UNCHANGED vars => FALSE
  BY DEF TableStep, vars, nativeVars, stateVars
<1> HIDE DEF Goal
<1>9. Goal
  BY <1>3, <1>4, <1>5, <1>6, <1>7, <1>8 DEF Next, SessionStep, PluginStep
<1> QED
  BY <1>9 DEF Goal

\* The claim on the model a child is running on is kept until an error of the child.
THEOREM ClaimOutlivesIdle == Spec => ClaimKeptWhileRunning
<1>1. IInv /\ [Next]_vars =>
        [\A s \in Sessions :
           healthClaim[s] /\ ~healthClaim'[s] /\ loop[s] # NoBinding
             => \/ pendingFailure[s] # NoFailure
                \/ events[s] # <<>> /\ Head(events[s]) # Idle]_vars
  BY ClaimStep
<1> QED
  BY <1>1, Inductive, PTL DEF Spec, ClaimKeptWhileRunning

\* A loop starts on a model the child has not been run on.
LEMMA StartStep ==
    ASSUME IInv, [Next]_vars, NEW s \in Sessions,
           mode.reported, loop[s] = NoBinding, loop'[s] # NoBinding
    PROVE  loop'[s] \notin sentTo[s]
<1>1. /\ loop \in [Sessions -> Bindings \cup {NoBinding}]
      /\ model \in [Sessions -> Bindings \cup {NoBinding}]
  BY DEF IInv, Inv, TypeOK
<1>2. ASSUME NEW t \in Sessions, Attach(t) PROVE loop'[s] \notin sentTo[s]
  BY <1>1, <1>2 DEF Attach, IInv, SessionOK, UntrackedIsIdle
<1>3. ASSUME NEW t \in Sessions, Accept(t) PROVE loop'[s] \notin sentTo[s]
  <2>1. t = s /\ loop'[s] = model[s] /\ model[s] # NoBinding
    BY <1>1, <1>3 DEF Accept
  <2>2. Fresh(s, model[s])
    BY <1>3, <2>1 DEF Accept, IInv, SessionOK, SentIsAttempted
  <2> QED
    BY <2>1, <2>2 DEF Fresh
<1>4. ASSUME NEW t \in Sessions, LoopEnds(t) PROVE FALSE
  BY <1>1, <1>4 DEF LoopEnds
<1>5. ASSUME UNCHANGED loop PROVE FALSE
  BY <1>5
<1>6. ASSUME NEW t \in Sessions, LoopErrs(t) \/ PluginStep(t) PROVE UNCHANGED loop
  BY <1>6 DEF LoopErrs, PluginStep, Deliver, AbortConfirmed, AbortUnconfirmed,
              DispatchSettles, serverVars
<1>7. TableStep \/ UNCHANGED vars => UNCHANGED loop
  BY DEF TableStep, vars, nativeVars, serverVars
<1> QED
  BY <1>2, <1>3, <1>4, <1>5, <1>6, <1>7 DEF Next, SessionStep

\* Failover never retries a binding that has already been dispatched, when the one
\* the child started on is known.
THEOREM NeverRunTwice == Spec => NeverRetried
<1>1. IInv /\ [Next]_vars =>
        [\A s \in Sessions :
           mode.reported /\ loop[s] = NoBinding /\ loop'[s] # NoBinding
             => loop'[s] \notin sentTo[s]]_vars
  BY StartStep
<1> QED
  BY <1>1, Inductive, PTL DEF Spec, NeverRetried

===============================================================================
