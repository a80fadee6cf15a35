----------------------------- MODULE Compaction -----------------------------
(***************************************************************************)
(* Controlled compaction of the primary NLA session, next-level-agent.js:  *)
(* the session records its ledger with nla_state; under context pressure,  *)
(* at the boundary of a tool batch or when the session is idle,            *)
(* performCompaction has the ledger audited, saves a checkpoint and asks   *)
(* OpenCode to summarize the conversation; when that is done,              *)
(* restoreCompactedSession puts the ledger back into it.  A restore that   *)
(* fails, or a request of uncertain fate, writes a row to restore_blocks,  *)
(* and from then on the session executes nothing.                          *)
(*                                                                         *)
(* A ledger is its version: the number of snapshots recorded before it.    *)
(* The compactor may reword a checkpoint but not change what matters of    *)
(* it, so a checkpoint has the version of the ledger it was made from.     *)
(* Every flag "blocked" in memory goes with a row in restore_blocks, every *)
(* guard reads both, and nothing removes the row; the row stands for both. *)
(*                                                                         *)
(* OpenCode is the environment.  It starts all the calls of a batch before *)
(* one of them ends, it compacts between two steps of the session's loop,  *)
(* and session.compacted is delivered before the loop takes another step.  *)
(***************************************************************************)
EXTENDS Naturals

CONSTANTS
    MaxVersions,  \* bound on the snapshots recorded
    MaxCalls,     \* bound on the tool calls of a batch
    UserWaits     \* TRUE: nobody writes to the session while it is compacted

ASSUME BoundsAssumption == {MaxVersions, MaxCalls} \subseteq Nat \ {0}
ASSUME UserAssumption == UserWaits \in BOOLEAN

VARIABLES
    phase,       \* what the session's loop does
    calls,       \* the tool calls of the batch that have not ended
    auto,        \* the loop goes on by itself after this native compaction
    request,     \* the request to summarize: none, sent, queued by the server
    ours,        \* the native compaction under way answers that request
    event,       \* session.compacted has not been delivered yet
    context,     \* the conversation: its ledger is intact, summarized away or restored
    packets,     \* restore packets put into it since it was summarized
    known,       \* this process has seen a message of the session
    ledger,      \* the row in session_ledgers; None if there is none
    recorded,    \* the last snapshot the session has recorded
    block,       \* there is a row in restore_blocks
    pressure,    \* the level of the last token count taken
    awaitingAfterUsage, requested, running, awaitingEvent, midTurn,
    checkpoint,  \* fields of the session's entry in compactionState
    restorePromise,
    stage,       \* where performCompaction waits
    base         \* the ledger it has read

server == <<phase, calls, auto, request, ours, event, context, packets>>
database == <<ledger, recorded, block>>
entry == <<pressure, awaitingAfterUsage, requested, running, awaitingEvent,
           midTurn, checkpoint, restorePromise>>
vars == <<server, known, database, entry, stage, base>>

----------------------------------------------------------------------------
None == 0
Versions == 0..MaxVersions
Phases == {"idle", "turn", "calling", "native", "resuming"}
Stages == {"none", "auditing", "inspecting", "acknowledging", "summarizing"}
Levels == {"normal", "soft", "hard"}

\* Mutant: the hook awaits the summary, which the same loop has to make.
HookAwaitsSummary == midTurn /\ running
\* The tool hook does not return before its compaction is under way.
HookWaits == midTurn /\ stage # "none"

\* Mutant: a checkpoint is taken from the one before.
LedgerToCompactCached == IF checkpoint # None THEN checkpoint ELSE ledger
\* What performCompaction works from.
LedgerToCompact == ledger

\* What the conversation is given before and after it is summarized.
Restorable == IF checkpoint # None THEN checkpoint ELSE ledger

\* A native compaction NLA did not prepare starts from the ledger.
ForgetLast ==
    /\ restorePromise' = IF running THEN restorePromise ELSE "none"
    /\ checkpoint' = IF running THEN checkpoint ELSE None

\* Mutant: the checkpoint is loaded whoever made it.
LoadedCheckpoint == Restorable
Loaded == IF running THEN Restorable ELSE ledger

----------------------------------------------------------------------------
(* performCompaction.                                                      *)

Refused == running \/ block

\* Deferred for active children, for want of a ledger, or refused because what
\* is saved cannot be validated.
BeginCompaction(mid) ==
    \/ UNCHANGED <<database, entry, stage, base>>
    \/ /\ ledger # None
       /\ block' = TRUE
       /\ UNCHANGED <<ledger, recorded, entry, stage, base>>
    \/ /\ ledger # None
       /\ running' = TRUE
       /\ restorePromise' = "none"
       /\ midTurn' = mid
       /\ requested' = FALSE
       /\ stage' = "auditing"
       /\ base' = LedgerToCompact
       /\ UNCHANGED <<database, pressure, awaitingAfterUsage, awaitingEvent, checkpoint>>

\* Its catch clause, on the fields it resets.
Stop ==
    /\ stage' = "none" /\ base' = None
    /\ running' = FALSE /\ awaitingEvent' = FALSE
    /\ UNCHANGED <<pressure, awaitingAfterUsage, requested, midTurn, checkpoint,
                   restorePromise>>

\* Supervisor and compactor have answered: the checkpoint is saved.
Audited ==
    /\ stage = "auditing"
    /\ ledger' = base
    /\ checkpoint' = base
    /\ awaitingEvent' = TRUE
    /\ stage' = IF midTurn THEN "inspecting" ELSE "summarizing"
    /\ request' = IF midTurn THEN request ELSE "sent"
    /\ UNCHANGED <<phase, calls, auto, ours, event, context, packets, known, recorded,
                   block, pressure, awaitingAfterUsage, requested, running, midTurn,
                   restorePromise, base>>

\* The supervisor blocks or fails, or browser evidence was added meanwhile.
AuditFails ==
    /\ stage = "auditing"
    /\ Stop
    /\ UNCHANGED <<server, known, database>>

\* enqueueNativeCompaction: the messages have been read, the request is sent.
Submit ==
    /\ stage = "inspecting"
    /\ request' = "sent"
    /\ stage' = "acknowledging"
    /\ UNCHANGED <<phase, calls, auto, ours, event, context, packets, known, database,
                   entry, base>>

Acknowledged ==
    /\ stage = "acknowledging" /\ request = "queued"
    /\ stage' = "none" /\ base' = None
    /\ UNCHANGED <<server, known, database, entry>>

\* Mutant: an acknowledgement that does not come is taken for a failed compaction.
EnqueueFailsOpen ==
    /\ stage \in {"inspecting", "acknowledging"}
    /\ Stop
    /\ UNCHANGED <<server, known, database>>

\* The messages cannot be read, or no acknowledgement comes in time; what becomes
\* of a request already sent is unknown.
EnqueueFails ==
    /\ stage \in {"inspecting", "acknowledging"}
    /\ block' = TRUE
    /\ Stop
    /\ UNCHANGED <<server, known, ledger, recorded>>

\* The request is answered with an error: the idle caller gives up, onError blocks
\* while the result is awaited.
RequestRejected ==
    IF stage = "summarizing"
    THEN Stop /\ UNCHANGED database
    ELSE /\ block' = (block \/ awaitingEvent)
         /\ UNCHANGED <<ledger, recorded, entry, stage, base>>

----------------------------------------------------------------------------
(* restoreCompactedSession.                                                *)

Over == running' = FALSE /\ awaitingEvent' = FALSE

RestoreFails ==
    /\ restorePromise' = "failed"
    /\ block' = TRUE
    /\ Over
    /\ UNCHANGED <<recorded, requested>>

\* Unless a restore is under way or done: the ledger is validated and saved, and
\* the packet is on its way.
BeginRestore ==
    IF restorePromise # "none"
    THEN UNCHANGED <<database, requested, running, awaitingEvent, restorePromise>>
    ELSE \/ RestoreFails /\ UNCHANGED ledger
         \/ /\ Restorable # None
            /\ ledger' = Restorable
            /\ restorePromise' = "pending"
            /\ UNCHANGED <<recorded, block, requested, running, awaitingEvent>>

\* Mutant: a restore that succeeds lifts the block.
RestoreSucceedsUnblocking ==
    /\ restorePromise = "pending"
    /\ restorePromise' = "ok"
    /\ block' = FALSE
    /\ Over
    /\ requested' = FALSE /\ awaitingAfterUsage' = TRUE
    /\ context' = "restored" /\ packets' = packets + 1
    /\ UNCHANGED <<phase, calls, auto, request, ours, event, known, ledger, recorded,
                   pressure, midTurn, checkpoint, stage, base>>

RestoreSucceeds ==
    /\ restorePromise = "pending"
    /\ restorePromise' = "ok"
    /\ Over
    /\ requested' = FALSE /\ awaitingAfterUsage' = TRUE
    /\ context' = "restored" /\ packets' = packets + 1
    /\ UNCHANGED <<phase, calls, auto, request, ours, event, known, database, pressure,
                   midTurn, checkpoint, stage, base>>

PacketRejected ==
    /\ restorePromise = "pending"
    /\ RestoreFails
    /\ UNCHANGED <<server, known, ledger, pressure, awaitingAfterUsage, midTurn, checkpoint,
                   stage, base>>

\* The event session.compacted.
Deliver ==
    /\ event /\ event' = FALSE
    /\ awaitingAfterUsage' = TRUE
    /\ BeginRestore
    /\ UNCHANGED <<phase, calls, auto, request, ours, context, packets, known, pressure,
                   midTurn, checkpoint, stage, base>>

\* The hook that decides whether the loop goes on after a compaction.
AutoContinue ==
    /\ phase = "resuming" /\ restorePromise = "none"
    /\ BeginRestore
    /\ UNCHANGED <<server, known, pressure, awaitingAfterUsage, midTurn, checkpoint, stage,
                   base>>

Continue ==
    /\ phase = "resuming" /\ restorePromise \in {"ok", "failed"}
    /\ phase' = IF restorePromise = "ok" THEN "turn" ELSE "idle"
    /\ UNCHANGED <<calls, auto, request, ours, event, context, packets, known, database,
                   entry, stage, base>>

----------------------------------------------------------------------------
(* The session.                                                            *)

Quiet == ~running /\ stage = "none" /\ ~event /\ restorePromise # "pending"

\* chat.message, refused when blocked.  The first message this process sees is
\* preceded by the packet of what is saved, or the session is blocked.
Message ==
    /\ phase = "idle" /\ ~block
    /\ UserWaits => Quiet
    /\ known' = TRUE
    /\ \/ /\ known \/ ledger = None
          /\ phase' = "turn"
          /\ UNCHANGED <<database, context>>
       \/ /\ ~known /\ ledger # None
          /\ phase' = "turn" /\ context' = "restored"
          /\ UNCHANGED database
       \/ /\ ~known
          /\ block' = TRUE
          /\ UNCHANGED <<phase, context, ledger, recorded>>
    /\ UNCHANGED <<calls, auto, request, ours, event, packets, entry, stage, base>>

\* message.updated with a token count, which does not count while a compaction
\* is under way.
Usage ==
    /\ phase \in {"turn", "calling"} /\ ~running /\ ~awaitingEvent
    /\ \E level \in Levels :
          /\ pressure' = level
          /\ requested' = (requested \/ level = "hard")
    /\ awaitingAfterUsage' = FALSE
    /\ UNCHANGED <<server, known, database, running, awaitingEvent, midTurn, checkpoint,
                   restorePromise, stage, base>>

\* The model's next step: a batch of tool calls, none of them if blocked.
Batch ==
    /\ phase = "turn" /\ request # "queued" /\ ~event /\ ~block
    /\ phase' = "calling"
    /\ calls' \in 1..MaxCalls
    /\ UNCHANGED <<auto, request, ours, event, context, packets, known, database, entry,
                   stage, base>>

\* A snapshot, by nla_state or nla_compact; the former asks for compaction only
\* under pressure known since the last one.
Record ==
    /\ phase = "calling" /\ calls > 0 /\ ~block
    /\ recorded < MaxVersions
    /\ recorded' = recorded + 1
    /\ ledger' = recorded'
    /\ \/ requested' = TRUE
       \/ requested' = (requested \/ (pressure # "normal" /\ ~running /\ ~awaitingAfterUsage))
    /\ UNCHANGED <<server, known, block, pressure, awaitingAfterUsage, running,
                   awaitingEvent, midTurn, checkpoint, restorePromise, stage, base>>

\* tool.execute.after; the last call of the batch compacts.
CallEnds ==
    /\ phase = "calling" /\ calls > 0
    /\ calls' = calls - 1
    /\ IF calls' = 0 /\ requested /\ ~Refused
       THEN BeginCompaction(TRUE)
       ELSE UNCHANGED <<database, entry, stage, base>>
    /\ UNCHANGED <<phase, auto, request, ours, event, context, packets, known>>

BatchEnds ==
    /\ phase = "calling" /\ calls = 0 /\ ~HookWaits
    /\ phase' = "turn"
    /\ UNCHANGED <<calls, auto, request, ours, event, context, packets, known, database,
                   entry, stage, base>>

\* session.idle, which compacts what no boundary has.
Idle ==
    /\ phase = "turn" /\ request # "queued" /\ ~event
    /\ phase' = "idle"
    /\ IF requested /\ ~Refused
       THEN BeginCompaction(FALSE)
       ELSE UNCHANGED <<database, entry, stage, base>>
    /\ UNCHANGED <<calls, auto, request, ours, event, context, packets, known>>

----------------------------------------------------------------------------
(* The server's side of a compaction.                                      *)

Queue ==
    /\ request = "sent"
    /\ request' = "queued"
    /\ UNCHANGED <<phase, calls, auto, ours, event, context, packets, known, database,
                   entry, stage, base>>

\* The summary is asked for once the hook has given its context.
StartNative(byRequest) ==
    /\ phase' = "native"
    /\ ours' = byRequest
    /\ auto' = (byRequest => midTurn)
    /\ ForgetLast
    /\ UNCHANGED <<calls, event, context, packets, known, database, pressure,
                   awaitingAfterUsage, requested, running, awaitingEvent, midTurn,
                   stage, base>>

NativeStarts ==
    /\ phase \in {"idle", "turn"} /\ request = "queued" /\ ~HookWaits
    /\ ~event /\ ~block
    /\ request' = "none"
    /\ StartNative(TRUE)

\* OpenCode compacts because its own limit is reached.
NativeOverflow ==
    /\ phase = "turn" /\ request # "queued" /\ ~event /\ ~block
    /\ StartNative(FALSE)
    /\ UNCHANGED request

\* The request is refused, by the server or because its hook finds the block, or
\* its connection breaks while the compaction it asked for goes on.
RequestFails ==
    /\ request # "none" \/ ours
    /\ request' = "none" /\ ours' = FALSE
    /\ RequestRejected
    /\ UNCHANGED <<phase, calls, auto, event, context, packets, known>>

NativeEnds ==
    /\ phase = "native"
    /\ event' = TRUE
    /\ context' = IF recorded = None THEN context ELSE "summarized"
    /\ packets' = 0
    /\ phase' = IF auto THEN "resuming" ELSE "idle"
    /\ ours' = FALSE
    /\ stage' = IF stage = "summarizing" /\ ours THEN "none" ELSE stage
    /\ base' = IF stage = "summarizing" /\ ours THEN None ELSE base
    /\ UNCHANGED <<calls, auto, request, known, database, entry>>

NativeFails ==
    /\ phase = "native"
    /\ phase' = "idle"
    /\ ours' = FALSE
    /\ IF ours THEN RequestRejected ELSE UNCHANGED <<database, entry, stage, base>>
    /\ UNCHANGED <<calls, auto, request, event, context, packets, known>>

\* The process ends; the conversation and the database survive.
Restart ==
    /\ phase' = "idle" /\ calls' = 0 /\ auto' = FALSE
    /\ request' = "none" /\ ours' = FALSE /\ event' = FALSE
    /\ known' = FALSE
    /\ pressure' = "normal" /\ awaitingAfterUsage' = FALSE
    /\ requested' = FALSE /\ running' = FALSE /\ awaitingEvent' = FALSE
    /\ midTurn' = FALSE /\ checkpoint' = None /\ restorePromise' = "none"
    /\ stage' = "none" /\ base' = None
    /\ UNCHANGED <<database, context, packets>>

----------------------------------------------------------------------------
Init ==
    /\ phase = "idle" /\ calls = 0 /\ auto = FALSE
    /\ request = "none" /\ ours = FALSE /\ event = FALSE
    /\ context = "intact" /\ packets = 0 /\ known = FALSE
    /\ ledger = None /\ recorded = None /\ block = FALSE
    /\ pressure = "normal" /\ awaitingAfterUsage = FALSE
    /\ requested = FALSE /\ running = FALSE /\ awaitingEvent = FALSE
    /\ midTurn = FALSE /\ checkpoint = None /\ restorePromise = "none"
    /\ stage = "none" /\ base = None

\* What a compaction that has begun still needs.
Progress ==
    \/ Audited \/ AuditFails \/ Submit \/ Acknowledged \/ EnqueueFails
    \/ Queue \/ NativeStarts \/ NativeEnds \/ NativeFails
    \/ Deliver \/ AutoContinue \/ Continue \/ RestoreSucceeds \/ PacketRejected
    \/ BatchEnds

Next ==
    \/ Progress
    \/ Message \/ Usage \/ Batch \/ Record \/ CallEnds \/ Idle
    \/ NativeOverflow \/ RequestFails
    \/ Restart

Spec == Init /\ [][Next]_vars

\* The supervisor's and the compactor's models answer or OpenCode's transport
\* times out, the server works on what it has queued, and the event loop delivers.
FairSpec == Spec /\ WF_vars(Progress)

----------------------------------------------------------------------------
(* Properties.                                                             *)

\* Every variable has its type; at most one tool batch is open, and what
\* performCompaction works from is something the session has recorded.
TypeOK ==
    /\ phase \in Phases /\ calls \in 0..MaxCalls /\ auto \in BOOLEAN
    /\ request \in {"none", "sent", "queued"} /\ ours \in BOOLEAN
    /\ context \in {"intact", "summarized", "restored"} /\ packets \in Nat
    /\ {event, known, block} \subseteq BOOLEAN
    /\ recorded \in Versions /\ {ledger, checkpoint, base} \subseteq 0..recorded
    /\ pressure \in Levels
    /\ {awaitingAfterUsage, requested, running, awaitingEvent, midTurn} \subseteq BOOLEAN
    /\ restorePromise \in {"none", "pending", "ok", "failed"}
    /\ stage \in Stages
    /\ calls > 0 => phase = "calling"
    /\ base = None <=> stage = "none"

\* No checkpoint and no restore ever puts an older ledger in the place of the last
\* snapshot the session recorded.
LedgerKept == ledger = recorded

\* "Restoration completes before native continuation; failed restoration blocks
\* execution" (README): no tool runs in a conversation that was summarized and has
\* not been given its ledger back, by whatever compaction and across a restart.
WorksRestored == phase = "calling" => context # "summarized"

\* "the later compacted event does not inject a second restore" (project status):
\* a summary is followed by one packet at most, although hook and event ask for it.
OnePacket == packets <= 1

Inv == TypeOK /\ LedgerKept /\ WorksRestored /\ OnePacket

\* "Native compaction must load the latest ledger" (comment in the compacting hook),
\* and not the checkpoint of the compaction before.
LoadsLatest ==
    [][phase # "native" /\ phase' = "native" => Loaded = recorded]_vars

\* "Do not submit a second request after an uncertain acknowledgement" (comment in
\* enqueueNativeCompaction): not in the same compaction nor in a later one.
NoSecondRequest ==
    [][stage' # stage /\ stage' \in {"acknowledging", "summarizing"}
          => request = "none" /\ ~ours]_vars

\* A session that was blocked stays so, whichever late answer or event comes in;
\* it starts no tool, records nothing and begins no compaction.
BlockIsFinal ==
    [][block => /\ block' /\ calls' <= calls /\ recorded' = recorded
                /\ (stage = "none" => stage' = "none")]_vars

\* A compaction that has begun is over some time or the session blocked: running,
\* which keeps every later one from starting, is not left set.
CompactionSettles == running ~> (~running \/ block)
=============================================================================
