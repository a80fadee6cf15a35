--------------------------- MODULE NativeFailover ---------------------------
(***************************************************************************)
(* Failover of native child sessions (next-level-agent.js: failover,       *)
(* finishTrackedSession and the session events of the plugin's event       *)
(* hook).  OpenCode itself starts such a child on a model the plugin has   *)
(* not chosen and may not be told of; the plugin sees its error and idle   *)
(* events, stops a failed child and continues it on another model of the   *)
(* role's pool, whose binding it claims in the shared health table.        *)
(*                                                                         *)
(* Events reach the plugin one at a time in the order they were published, *)
(* some time later.  An error may be published by an agent loop that goes  *)
(* on; the end of a loop is always followed by its idle event.  A request  *)
(* to abort is confirmed when the loop has ended, and the reply is read    *)
(* after the events of the loop it stopped.                                *)
(***************************************************************************)
EXTENDS ModelHealth, Sequences, Functions

CONSTANTS
    Sessions,      \* native child sessions
    NativePool,    \* the models of their role's pool
    Modes,         \* how the pool may be used: see the variable mode
    MaxUndelivered \* bound: events waiting when a running loop reports an error

ASSUME NativePoolAssumption ==
    NativePool \in Seq(Bindings) /\ NativePool # <<>> /\ IsInjective(NativePool)
ASSUME NativeModeAssumption == Modes \subseteq [ranked : BOOLEAN, reported : BOOLEAN]
ASSUME UndeliveredAssumption == MaxUndelivered \in Nat

VARIABLES
    mode,           \* never changes: ranked is FALSE in selection mode fallback, TRUE
                    \* in select and auto; reported is TRUE if session.created
                    \* names the model of the child
    model,          \* state.model; NoBinding: the session is not tracked yet
    exactModel,     \* the model is known, not assumed
    attemptedModels,
    healthClaim,    \* the plugin has claimed the model for this session
    phase,          \* "steady", or switchPhase: "abort" or "dispatch"
    nextModel,      \* the claimed binding a switch goes to
    pendingFailure, \* an error seen during dispatch, or NoFailure
    pendingIdle,
    events,         \* published events of the session not yet delivered
    loop,           \* the binding the server's agent loop runs on, or NoBinding
    sentTo          \* the bindings the server has run the child on

switchVars == <<phase, nextModel, pendingFailure, pendingIdle>>
stateVars == <<model, exactModel, attemptedModels, healthClaim>>
serverVars == <<mode, events, loop, sentTo>>
nativeVars == <<stateVars, switchVars, serverVars>>
vars == <<healthVars, nativeVars>>

----------------------------------------------------------------------------
NoFailure == [category |-> "none", retryAfter |-> 0]

\* An error, by what failover makes of it: a configuration error is treated as a
\* defective one, an unknown one as one that says nothing about the provider.
Failures ==
    [category : {"transient"}, retryAfter : RetryAfters]
      \cup [category : {"defective", "non_provider"}, retryAfter : {0}]
Idle == [category |-> "idle", retryAfter |-> 0]

Place(b) == CHOOSE i \in DOMAIN NativePool : NativePool[i] = b

\* Mutant: a binding may be used again once it is eligible again.
RemainingEligible(h, b, attempted) ==
    {c \in Range(NativePool) : Eligible(h, c) /\ c # b}

\* The bindings a session with model b may go on to: in fallback mode what
\* follows b in the pool, else what the session has not been given yet.
Remaining(h, b, attempted) ==
    {c \in Range(NativePool) :
        /\ Eligible(h, c)
        /\ IF mode.ranked THEN c \notin attempted ELSE Place(c) > Place(b)}

\* The one it takes: the first of the pool, or the best by any ranking.
NextModels(h, b, attempted) ==
    LET remaining == Remaining(h, b, attempted)
    IN  IF mode.ranked THEN remaining
        ELSE {c \in remaining : \A d \in remaining : Place(c) <= Place(d)}

\* What was kept during an earlier dispatch is dealt with.
Forget(s) ==
    /\ pendingFailure' = [pendingFailure EXCEPT ![s] = NoFailure]
    /\ pendingIdle' = [pendingIdle EXCEPT ![s] = FALSE]

\* failover() on an error that is not deferred.
Failover(s, e) ==
    LET b == model[s]
        h == Failed(health, b, e.category, e.retryAfter)
        attempted == IF exactModel[s] THEN attemptedModels[s] \cup {b}
                     ELSE attemptedModels[s]
        choices == IF e.category \in HealthCategories
                   THEN NextModels(h, b, attempted \cup {b}) ELSE {}
    IN  /\ saved' \in PersistOutcomes(saved, h, b)
        /\ attemptedModels' = [attemptedModels EXCEPT ![s] = attempted]
        /\ healthClaim' = [healthClaim EXCEPT ![s] = FALSE]
        /\ Forget(s)
        /\ IF choices = {}
           THEN /\ health' = h
                /\ phase' = [phase EXCEPT ![s] = "steady"]
                /\ nextModel' = [nextModel EXCEPT ![s] = NoBinding]
           ELSE \E c \in choices :
                /\ health' = Claimed(h, c)
                /\ phase' = [phase EXCEPT ![s] = "abort"]
                /\ nextModel' = [nextModel EXCEPT ![s] = c]
        /\ UNCHANGED <<model, exactModel>>

\* finishTrackedSession() outside a switch.
Finish(s) ==
    /\ IF healthClaim[s]
       THEN /\ health' = Succeeded(health, model[s])
            /\ saved' \in PersistOutcomes(saved, health', model[s])
       ELSE UNCHANGED healthVars
    /\ healthClaim' = [healthClaim EXCEPT ![s] = FALSE]
    /\ phase' = [phase EXCEPT ![s] = "steady"]
    /\ nextModel' = [nextModel EXCEPT ![s] = NoBinding]
    /\ pendingIdle' = [pendingIdle EXCEPT ![s] = FALSE]
    /\ UNCHANGED <<model, exactModel, attemptedModels, pendingFailure>>

----------------------------------------------------------------------------
(* The server.                                                             *)

\* OpenCode creates the child on some model; session.created attaches the pool
\* of its role and, without a report, assumes the first model of the pool.
Attach(s) ==
    /\ model[s] = NoBinding
    /\ \E b \in Range(NativePool) :
          /\ model' = [model EXCEPT ![s] = IF mode.reported THEN b ELSE NativePool[1]]
          /\ loop' = [loop EXCEPT ![s] = b]
          /\ sentTo' = [sentTo EXCEPT ![s] = {b}]
          /\ attemptedModels' =
                [attemptedModels EXCEPT ![s] = IF mode.reported THEN {b} ELSE {}]
    /\ exactModel' = [exactModel EXCEPT ![s] = mode.reported]
    /\ UNCHANGED <<mode, healthVars, healthClaim, switchVars, events>>

\* The agent loop ends, completed or stopped.
LoopEnds(s) ==
    /\ loop[s] # NoBinding
    /\ loop' = [loop EXCEPT ![s] = NoBinding]
    /\ events' = [events EXCEPT ![s] = Append(@, Idle)]
    /\ UNCHANGED <<mode, healthVars, stateVars, switchVars, sentTo>>

\* It reports an error, and need not end at once.
LoopErrs(s) ==
    /\ loop[s] # NoBinding
    /\ Len(events[s]) < MaxUndelivered
    /\ \E e \in Failures : events' = [events EXCEPT ![s] = Append(@, e)]
    /\ UNCHANGED <<mode, healthVars, stateVars, switchVars, loop, sentTo>>

\* The continuation prompt is accepted: the child runs on the new model.
Accept(s) ==
    /\ phase[s] = "dispatch" /\ nextModel[s] # NoBinding
    /\ nextModel' = [nextModel EXCEPT ![s] = NoBinding]
    /\ loop' = [loop EXCEPT ![s] = model[s]]
    /\ sentTo' = [sentTo EXCEPT ![s] = @ \cup {model[s]}]
    /\ UNCHANGED <<mode, healthVars, stateVars, phase, pendingFailure, pendingIdle, events>>

----------------------------------------------------------------------------
(* The plugin.                                                             *)

\* An event during a dispatch may come from the new loop: it is kept.
Defer(s, e) ==
    /\ IF e = Idle
       THEN /\ pendingIdle' = [pendingIdle EXCEPT ![s] = TRUE]
            /\ UNCHANGED pendingFailure
       ELSE /\ pendingFailure' =
                  [pendingFailure EXCEPT ![s] = IF @ = NoFailure THEN e ELSE @]
            /\ UNCHANGED pendingIdle
    /\ UNCHANGED <<healthVars, stateVars, phase, nextModel>>

\* An event is delivered.  One that comes during the abort belongs to the loop
\* that is being stopped.
Deliver(s) ==
    /\ events[s] # <<>>
    /\ events' = [events EXCEPT ![s] = Tail(@)]
    /\ LET e == Head(events[s]) IN
       CASE phase[s] = "steady" /\ e = Idle -> Finish(s)
         [] phase[s] = "steady" /\ e # Idle -> Failover(s, e)
         [] phase[s] = "abort" -> UNCHANGED <<healthVars, stateVars, switchVars>>
         [] phase[s] = "dispatch" -> Defer(s, e)
    /\ UNCHANGED <<mode, loop, sentTo>>

\* stopChildSession() succeeds: the session takes the new model.
AbortConfirmed(s) ==
    /\ phase[s] = "abort" /\ loop[s] = NoBinding /\ events[s] = <<>>
    /\ model' = [model EXCEPT ![s] = nextModel[s]]
    /\ exactModel' = [exactModel EXCEPT ![s] = TRUE]
    /\ attemptedModels' = [attemptedModels EXCEPT ![s] = @ \cup {nextModel[s]}]
    /\ healthClaim' = [healthClaim EXCEPT ![s] = TRUE]
    /\ phase' = [phase EXCEPT ![s] = "dispatch"]
    /\ UNCHANGED <<healthVars, nextModel, pendingFailure, pendingIdle, serverVars>>

\* Mutants: the claim on the new model is forgotten; the switch goes on although
\* the child may not have stopped.
AbortUnconfirmedLeaking(s) ==
    /\ phase[s] = "abort"
    /\ phase' = [phase EXCEPT ![s] = "steady"]
    /\ nextModel' = [nextModel EXCEPT ![s] = NoBinding]
    /\ UNCHANGED <<healthVars, stateVars, pendingFailure, pendingIdle, serverVars>>
AbortUnconfirmedIgnored(s) ==
    /\ phase[s] = "abort"
    /\ model' = [model EXCEPT ![s] = nextModel[s]]
    /\ exactModel' = [exactModel EXCEPT ![s] = TRUE]
    /\ attemptedModels' = [attemptedModels EXCEPT ![s] = @ \cup {nextModel[s]}]
    /\ healthClaim' = [healthClaim EXCEPT ![s] = TRUE]
    /\ phase' = [phase EXCEPT ![s] = "dispatch"]
    /\ UNCHANGED <<healthVars, nextModel, pendingFailure, pendingIdle, serverVars>>

\* It fails or times out: the new model is given up without a call.
AbortUnconfirmed(s) ==
    /\ phase[s] = "abort"
    /\ health' = Released(health, nextModel[s])
    /\ phase' = [phase EXCEPT ![s] = "steady"]
    /\ nextModel' = [nextModel EXCEPT ![s] = NoBinding]
    /\ UNCHANGED <<saved, stateVars, pendingFailure, pendingIdle, serverVars>>

\* Mutants: switchPhase is not cleared; the acceptance of the prompt is taken for
\* the recovery of the model.
ResumeSwitching(s) == UNCHANGED <<healthVars, stateVars, switchVars>>
ResumeRecovered(s) == Finish(s)

\* The switch is over and nothing came in the meantime.
Resume(s) ==
    /\ phase' = [phase EXCEPT ![s] = "steady"]
    /\ UNCHANGED <<healthVars, stateVars, nextModel, pendingFailure, pendingIdle>>

\* promptAsync() returns, or is rejected and was not accepted; events that came
\* in the meantime are handled now.
DispatchSettles(s) ==
    /\ phase[s] = "dispatch"
    /\ \E e \in Failures \cup {NoFailure} :
          /\ e = NoFailure <=> nextModel[s] = NoBinding
          /\ LET failure == IF pendingFailure[s] # NoFailure
                            THEN pendingFailure[s] ELSE e
             IN  CASE failure # NoFailure -> Failover(s, failure)
                   [] failure = NoFailure /\ pendingIdle[s] -> Finish(s)
                   [] OTHER -> Resume(s)
    /\ UNCHANGED serverVars

----------------------------------------------------------------------------
NativeInit ==
    /\ model = [s \in Sessions |-> NoBinding]
    /\ exactModel = [s \in Sessions |-> FALSE]
    /\ attemptedModels = [s \in Sessions |-> {}]
    /\ healthClaim = [s \in Sessions |-> FALSE]
    /\ phase = [s \in Sessions |-> "steady"]
    /\ nextModel = [s \in Sessions |-> NoBinding]
    /\ pendingFailure = [s \in Sessions |-> NoFailure]
    /\ pendingIdle = [s \in Sessions |-> FALSE]
    /\ events = [s \in Sessions |-> <<>>]
    /\ loop = [s \in Sessions |-> NoBinding]
    /\ sentTo = [s \in Sessions |-> {}]

Init == mode \in Modes /\ HealthInit /\ NativeInit

PluginStep(s) == Deliver(s) \/ AbortConfirmed(s) \/ AbortUnconfirmed(s)
                 \/ DispatchSettles(s)
SessionStep(s) == Attach(s) \/ LoopEnds(s) \/ LoopErrs(s) \/ Accept(s)
                  \/ PluginStep(s)
TableStep == (Tick \/ \E b \in Bindings : Reset(b)) /\ UNCHANGED nativeVars

Next == (\E s \in Sessions : SessionStep(s)) \/ TableStep

Spec == Init /\ [][Next]_vars

\* Events are delivered, a timer bounds the abort, and the server answers the
\* request that starts a continuation; nothing is assumed of an agent loop.
FairSpec ==
    /\ Spec
    /\ \A s \in Sessions :
          /\ WF_vars(Deliver(s))
          /\ WF_vars(AbortConfirmed(s) \/ AbortUnconfirmed(s))
          /\ WF_vars(DispatchSettles(s))

----------------------------------------------------------------------------
(* Properties.                                                             *)

\* Every variable has its type.
TypeOK ==
    /\ HealthTypeOK
    /\ mode \in Modes
    /\ model \in [Sessions -> Bindings \cup {NoBinding}]
    /\ exactModel \in [Sessions -> BOOLEAN]
    /\ attemptedModels \in [Sessions -> SUBSET Bindings]
    /\ healthClaim \in [Sessions -> BOOLEAN]
    /\ phase \in [Sessions -> {"steady", "abort", "dispatch"}]
    /\ nextModel \in [Sessions -> Bindings \cup {NoBinding}]
    /\ pendingFailure \in [Sessions -> Failures \cup {NoFailure}]
    /\ pendingIdle \in [Sessions -> BOOLEAN]
    /\ events \in [Sessions -> Seq(Failures \cup {Idle})]
    /\ loop \in [Sessions -> Bindings \cup {NoBinding}]
    /\ sentTo \in [Sessions -> SUBSET Bindings]

\* The claim a session has or is about to have.
Claims(s) ==
    CASE phase[s] = "abort" -> {nextModel[s]}
      [] healthClaim[s] -> {model[s]}
      [] OTHER -> {}

\* A binding stays in flight only on account of a session that still has the
\* claim to give back: no order of replies and events leaks one.
NoClaimLeak ==
    \A b \in Bindings : InFlight(health, b) => \E s \in Sessions : b \in Claims(s)

\* A continuation is only sent to a child whose agent loop has ended.
OneLoopPerSession ==
    [][\A s \in Sessions : loop'[s] # loop[s] => NoBinding \in {loop[s], loop'[s]}]_vars

\* "retains the claim until idle or error" (README): the claim on the model a
\* child is running on is given up for an error of the child, never for an idle
\* event, which can only be one of the loop before it.
ClaimKeptWhileRunning ==
    [][\A s \in Sessions :
          healthClaim[s] /\ ~healthClaim'[s] /\ loop[s] # NoBinding
            => \/ pendingFailure[s] # NoFailure
               \/ events[s] # <<>> /\ Head(events[s]) # Idle]_vars

\* Events kept during a dispatch are handled when it settles: none is left over
\* to be mistaken for an event of a later continuation.
PendingReconciled ==
    \A s \in Sessions :
        phase[s] # "dispatch" => pendingFailure[s] = NoFailure /\ ~pendingIdle[s]

Inv == TypeOK /\ NoClaimLeak /\ PendingReconciled

\* Failover "never retries a binding that has already been dispatched even if
\* its cooldown expires" (docs/NLA_MODEL_ROUTING_ARCHITECTURE.md), when the binding
\* the child started on is known.
NeverRetried ==
    [][\A s \in Sessions :
          mode.reported /\ loop[s] = NoBinding /\ loop'[s] # NoBinding
            => loop'[s] \notin sentTo[s]]_vars

\* "Binding claims are exclusive even for healthy calls" (README): no two
\* sessions are given the same binding at once.
ClaimsExclusive ==
    \A s, t \in Sessions : s # t => Claims(s) \cap Claims(t) = {}

\* Every switch comes to an end, and with it the deferral of events.
SwitchEnds == \A s \in Sessions : phase[s] # "steady" ~> phase[s] = "steady"
=============================================================================
