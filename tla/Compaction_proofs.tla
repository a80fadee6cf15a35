-------------------------- MODULE Compaction_proofs --------------------------
(***************************************************************************)
(* Controlled compaction, for any number of snapshots and of tool calls.   *)
(* The proofs of what is restored assume UserWaits: without it the last     *)
(* snapshot may be recorded while an older one is being compacted, which a  *)
(* run of Compaction.tla shows.                                            *)
(***************************************************************************)
EXTENDS Compaction, TLAPS

\* The server compacts for one request at a time, and tells of it before it goes on.
ServerOK ==
    /\ phase = "native" => ~event /\ restorePromise = "none"
    /\ ours => phase = "native" /\ request = "none"
    /\ event => phase \in {"idle", "turn", "resuming"}
    /\ event /\ phase = "turn" => restorePromise = "ok"
    /\ restorePromise = "pending" => phase \in {"idle", "resuming"}
    /\ ~known => /\ phase = "idle" /\ stage = "none" /\ request = "none"
                 /\ ~running /\ ~event /\ restorePromise = "none"

\* Between its steps performCompaction keeps the session where it found it: in the
\* hook of a batch all of whose calls have ended, or idle.
StageOK ==
    stage # "none" =>
       /\ running /\ restorePromise = "none" /\ ~event
       /\ midTurn => stage # "summarizing" /\ phase = "calling" /\ calls = 0
       /\ ~midTurn => stage \in {"auditing", "summarizing"} /\ phase \in {"idle", "native"}
       /\ stage \in {"auditing", "inspecting"} => request = "none"
       /\ stage = "auditing" => phase # "native" /\ base = recorded
       /\ phase = "native" => ours

\* A compaction that performCompaction has left to the server waits for the server, for
\* the event, or for the packet.
RunningOK ==
    /\ request # "none" => running \/ block
    /\ running => restorePromise \in {"none", "pending"}
    /\ running /\ stage # "auditing" => awaitingEvent /\ checkpoint = recorded
    /\ running /\ stage = "none" /\ ~block =>
          \/ /\ phase \in {"calling", "turn"} /\ calls = 0 /\ request = "queued"
             /\ restorePromise = "none" /\ ~event
          \/ phase = "native" /\ ours
          \/ /\ phase \in {"idle", "resuming"} /\ request = "none"
             /\ event \/ restorePromise = "pending"

\* What a restore will put into the conversation is the last snapshot, once.
RestoreOK ==
    /\ (event \/ phase \in {"native", "resuming"}) /\ restorePromise = "none" =>
          checkpoint \in {None, recorded}
    /\ (event \/ phase = "resuming") /\ restorePromise = "none" => packets = 0
    /\ restorePromise = "pending" => packets = 0
    /\ restorePromise = "failed" => block

\* A conversation that was summarized is restored before anything is done in it.
ContextOK ==
    /\ context = "summarized" => recorded # None
    /\ restorePromise = "ok" => context # "summarized"
    /\ phase \in {"turn", "native"} /\ ~block => context # "summarized"
    /\ context = "summarized" /\ ~block => ~known \/ event \/ restorePromise = "pending"

\* What the steps of a compaction keep, besides the types.
Sound ==
    /\ LedgerKept /\ WorksRestored /\ OnePacket
    /\ ServerOK /\ StageOK /\ RunningOK /\ RestoreOK /\ ContextOK

-----------------------------------------------------------------------------
(* Types.                                                                  *)

\* The type invariant, variable by variable.
Flags ==
    /\ auto \in BOOLEAN /\ ours \in BOOLEAN /\ event \in BOOLEAN /\ known \in BOOLEAN
    /\ block \in BOOLEAN /\ awaitingAfterUsage \in BOOLEAN /\ requested \in BOOLEAN
    /\ running \in BOOLEAN /\ awaitingEvent \in BOOLEAN /\ midTurn \in BOOLEAN

Counts ==
    /\ calls \in Nat /\ calls <= MaxCalls /\ packets \in Nat
    /\ recorded \in Nat /\ recorded <= MaxVersions
    /\ ledger \in Nat /\ ledger <= recorded
    /\ checkpoint \in Nat /\ checkpoint <= recorded
    /\ base \in Nat /\ base <= recorded
    /\ calls > 0 => phase = "calling"
    /\ base = None <=> stage = "none"

Names ==
    /\ phase \in Phases /\ stage \in Stages /\ pressure \in Levels
    /\ request \in {"none", "sent", "queued"}
    /\ context \in {"intact", "summarized", "restored"}
    /\ restorePromise \in {"none", "pending", "ok", "failed"}

\* They say the same.
LEMMA TypesOK == TypeOK <=> Flags /\ Counts /\ Names
<1>1. MaxVersions \in Nat /\ MaxCalls \in Nat
  BY BoundsAssumption
<1>2. ASSUME TypeOK PROVE Flags /\ Names
  BY <1>2 DEF TypeOK, Flags, Names
<1>3. ASSUME TypeOK PROVE Counts
  BY <1>1, <1>3 DEF TypeOK, Counts, Versions
<1>4. ASSUME Flags, Counts, Names PROVE TypeOK
  BY <1>1, <1>4 DEF TypeOK, Flags, Counts, Names, Versions
<1> QED
  BY <1>2, <1>3, <1>4

\* Flags are flags after every step.
LEMMA FlagsStep == ASSUME Flags, [Next]_vars PROVE Flags'
<1> USE BoundsAssumption DEF Flags, server, database, entry
<1>1. CASE Audited \/ AuditFails \/ Submit \/ Acknowledged \/ EnqueueFails
  BY <1>1, ZenonT(40) DEF Audited, AuditFails, Submit, Acknowledged, EnqueueFails, Stop
<1>2. CASE Deliver \/ AutoContinue \/ Continue \/ RestoreSucceeds \/ PacketRejected
  BY <1>2, ZenonT(40) DEF Deliver, AutoContinue, Continue, RestoreSucceeds, PacketRejected,
     BeginRestore, RestoreFails, Over, Restorable
<1>3. CASE Message \/ Usage \/ Batch \/ Record \/ BatchEnds
  BY <1>3, ZenonT(40) DEF Message, Usage, Batch, Record, BatchEnds
<1>4. CASE CallEnds \/ Idle
  BY <1>4, ZenonT(40) DEF CallEnds, Idle, BeginCompaction, LedgerToCompact
<1>5. CASE Queue \/ NativeStarts \/ NativeOverflow \/ NativeEnds
  BY <1>5, ZenonT(40) DEF Queue, NativeStarts, NativeOverflow, NativeEnds, StartNative,
     ForgetLast
<1>6. CASE RequestFails \/ NativeFails
  BY <1>6, ZenonT(40) DEF RequestFails, NativeFails, RequestRejected, Stop
<1>7. CASE Restart
  BY <1>7, Zenon DEF Restart
<1>8. CASE UNCHANGED vars
  BY <1>8 DEF vars
<1> QED
  BY <1>1, <1>2, <1>3, <1>4, <1>5, <1>6, <1>7, <1>8 DEF Next, Progress

\* Numbers are in their range after every step.
LEMMA CountsStep == ASSUME Counts, Flags, Names, [Next]_vars PROVE Counts'
<1> USE BoundsAssumption DEF Counts, server, database, entry, None
<1>1. CASE Audited \/ AuditFails \/ Submit \/ Acknowledged \/ EnqueueFails
  BY <1>1 DEF Audited, AuditFails, Submit, Acknowledged, EnqueueFails, Stop
<1>2. CASE Deliver \/ AutoContinue \/ Continue \/ RestoreSucceeds \/ PacketRejected
  BY <1>2 DEF Deliver, AutoContinue, Continue, RestoreSucceeds, PacketRejected,
     BeginRestore, RestoreFails, Over, Restorable
<1>3. CASE Message \/ Usage \/ Batch \/ Record \/ BatchEnds
  BY <1>3 DEF Message, Usage, Batch, Record, BatchEnds
<1>4. CASE CallEnds \/ Idle
  BY <1>4 DEF CallEnds, Idle, BeginCompaction, LedgerToCompact
<1>5. CASE Queue \/ NativeStarts \/ NativeOverflow \/ NativeEnds
  BY <1>5 DEF Queue, NativeStarts, NativeOverflow, NativeEnds, StartNative, ForgetLast
<1>6. CASE RequestFails \/ NativeFails
  BY <1>6 DEF RequestFails, NativeFails, RequestRejected, Stop
<1>7. CASE Restart
  BY <1>7 DEF Restart
<1>8. CASE UNCHANGED vars
  BY <1>8 DEF vars
<1> QED
  BY <1>1, <1>2, <1>3, <1>4, <1>5, <1>6, <1>7, <1>8 DEF Next, Progress

\* Names are names after every step.
LEMMA NamesStep == ASSUME Names, [Next]_vars PROVE Names'
<1> USE BoundsAssumption DEF Names, server, database, entry, Phases, Stages, Levels
<1>1. CASE Audited \/ AuditFails \/ Submit \/ Acknowledged \/ EnqueueFails
  BY <1>1 DEF Audited, AuditFails, Submit, Acknowledged, EnqueueFails, Stop
<1>2. CASE Deliver \/ AutoContinue \/ Continue \/ RestoreSucceeds \/ PacketRejected
  BY <1>2 DEF Deliver, AutoContinue, Continue, RestoreSucceeds, PacketRejected,
     BeginRestore, RestoreFails, Over, Restorable
<1>3. CASE Message \/ Usage \/ Batch \/ Record \/ BatchEnds
  BY <1>3 DEF Message, Usage, Batch, Record, BatchEnds
<1>4. CASE CallEnds \/ Idle
  BY <1>4 DEF CallEnds, Idle, BeginCompaction, LedgerToCompact
<1>5. CASE Queue \/ NativeStarts \/ NativeOverflow \/ NativeEnds
  BY <1>5 DEF Queue, NativeStarts, NativeOverflow, NativeEnds, StartNative, ForgetLast
<1>6. CASE RequestFails \/ NativeFails
  BY <1>6 DEF RequestFails, NativeFails, RequestRejected, Stop
<1>7. CASE Restart
  BY <1>7 DEF Restart
<1>8. CASE UNCHANGED vars
  BY <1>8 DEF vars
<1> QED
  BY <1>1, <1>2, <1>3, <1>4, <1>5, <1>6, <1>7, <1>8 DEF Next, Progress

-----------------------------------------------------------------------------
(* The compaction, if nobody writes to the session meanwhile.              *)

\* Every step keeps it.
LEMMA SoundStep ==
    ASSUME UserWaits, Flags, Counts, Names, Sound, [Next]_vars
    PROVE  Sound'
<1> USE DEF Sound, LedgerKept, WorksRestored, OnePacket, ServerOK, StageOK, RunningOK,
            RestoreOK, ContextOK, Flags, Counts, Names, server, database, entry, None
<1>1. CASE Audited
  BY <1>1 DEF Audited
<1>2. CASE AuditFails
  BY <1>2 DEF AuditFails, Stop
<1>3. CASE Submit
  BY <1>3 DEF Submit
<1>4. CASE Acknowledged
  BY <1>4 DEF Acknowledged
<1>5. CASE EnqueueFails
  BY <1>5 DEF EnqueueFails, Stop
<1>6. CASE Deliver
  BY <1>6 DEF Deliver, BeginRestore, RestoreFails, Over, Restorable
<1>7. CASE AutoContinue
  BY <1>7 DEF AutoContinue, BeginRestore, RestoreFails, Over, Restorable
<1>8. CASE Continue
  BY <1>8 DEF Continue
<1>9. CASE RestoreSucceeds
  BY <1>9 DEF RestoreSucceeds, Over
<1>10. CASE PacketRejected
  BY <1>10 DEF PacketRejected, RestoreFails, Over
<1>11. CASE Message
  BY <1>11 DEF Message, Quiet
<1>12. CASE Usage
  BY <1>12 DEF Usage
<1>13. CASE Batch
  BY <1>13 DEF Batch
<1>14. CASE Record
  BY <1>14 DEF Record
<1>15. CASE CallEnds
  BY <1>15 DEF CallEnds, BeginCompaction, LedgerToCompact, Refused
<1>16. CASE BatchEnds
  BY <1>16 DEF BatchEnds, HookWaits
<1>17. CASE Idle
  BY <1>17 DEF Idle, BeginCompaction, LedgerToCompact, Refused
<1>18. CASE Queue
  BY <1>18 DEF Queue
<1>19. CASE NativeStarts
  BY <1>19 DEF NativeStarts, StartNative, ForgetLast, HookWaits
<1>20. CASE NativeOverflow
  BY <1>20 DEF NativeOverflow, StartNative, ForgetLast
<1>21. CASE NativeEnds
  BY <1>21 DEF NativeEnds
<1>22. CASE RequestFails
  <2>1. CASE stage = "summarizing"
    BY <1>22, <2>1 DEF RequestFails, RequestRejected, Stop
  <2>2. CASE stage # "summarizing"
    BY <1>22, <2>2 DEF RequestFails, RequestRejected
  <2> QED
    BY <2>1, <2>2
<1>23. CASE NativeFails
  <2>1. CASE ours /\ stage = "summarizing"
    BY <1>23, <2>1 DEF NativeFails, RequestRejected, Stop
  <2>2. CASE ours /\ stage # "summarizing"
    BY <1>23, <2>2 DEF NativeFails, RequestRejected
  <2>3. CASE ~ours
    BY <1>23, <2>3 DEF NativeFails
  <2> QED
    BY <2>1, <2>2, <2>3
<1>24. CASE Restart
  BY <1>24 DEF Restart
<1>25. CASE UNCHANGED vars
  BY <1>25 DEF vars
<1> HIDE DEF Sound
<1> QED
  BY <1>1, <1>2, <1>3, <1>4, <1>5, <1>6, <1>7, <1>8, <1>9, <1>10, <1>11, <1>12, <1>13,
     <1>14, <1>15, <1>16, <1>17, <1>18, <1>19, <1>20, <1>21, <1>22, <1>23, <1>24,
     <1>25 DEF Next, Progress

-----------------------------------------------------------------------------
(* The theorems.                                                           *)

\* What holds whoever writes to the session, and what carries the theorems about it.
Types == Flags /\ Counts /\ Names
IInv == Types /\ Sound

\* The types hold at first.
LEMMA InitTypes == Init => Types
<1> SUFFICES ASSUME Init PROVE Types
  OBVIOUS
<1>1. Flags
  BY Zenon DEF Init, Flags
<1>2. Counts /\ Names
  BY BoundsAssumption DEF Init, Counts, Names, None, Phases, Stages, Levels
<1> QED
  BY <1>1, <1>2 DEF Types

\* They hold, whoever writes to the session.
LEMMA AlwaysTypes == Spec => []Types
<1>1. Types /\ [Next]_vars => Types'
  BY FlagsStep, CountsStep, NamesStep DEF Types
<1> QED
  BY <1>1, InitTypes, PTL DEF Spec

\* What is saved and what is restored is something the session has recorded, and no
\* compaction waits without a ledger to work from, whoever writes to the session.
THEOREM TypeCorrect == Spec => []TypeOK
BY AlwaysTypes, TypesOK, PTL DEF Types

\* A row in restore_blocks is for good (blocked in compactionState and its guards): the
\* session starts no tool, records nothing and begins no compaction, whichever late
\* answer, event or message comes in and across restarts.
THEOREM BlockedForGood == Spec => BlockIsFinal
<1>1. ASSUME Types, [Next]_vars, block PROVE block'
  <2> USE <1>1 DEF Types, Flags, server, database, entry
  <2>1. CASE Audited \/ AuditFails \/ Submit \/ Acknowledged \/ EnqueueFails
    BY Zenon, <2>1 DEF Audited, AuditFails, Submit, Acknowledged, EnqueueFails, Stop
  <2>2. CASE Deliver \/ AutoContinue \/ Continue \/ RestoreSucceeds \/ PacketRejected
    BY Zenon, <2>2 DEF Deliver, AutoContinue, Continue, RestoreSucceeds, PacketRejected,
                BeginRestore, RestoreFails
  <2>3. CASE Message \/ Usage \/ Batch \/ Record \/ BatchEnds
    BY Zenon, <2>3 DEF Message, Usage, Batch, Record, BatchEnds
  <2>4. CASE CallEnds \/ Idle
    BY Zenon, <2>4 DEF CallEnds, Idle, Refused
  <2>5. CASE Queue \/ NativeStarts \/ NativeOverflow \/ NativeEnds
    BY Zenon, <2>5 DEF Queue, NativeStarts, NativeOverflow, StartNative, NativeEnds
  <2>6. CASE RequestFails \/ NativeFails
    BY Zenon, <2>6 DEF RequestFails, NativeFails, RequestRejected, Stop
  <2>7. CASE Restart
    BY Zenon, <2>7 DEF Restart
  <2>8. CASE UNCHANGED vars
    BY Zenon, <2>8 DEF vars
  <2> QED
    BY Zenon, <2>1, <2>2, <2>3, <2>4, <2>5, <2>6, <2>7, <2>8 DEF Next, Progress
<1>2. ASSUME Types, [Next]_vars, block
      PROVE  calls' <= calls /\ recorded' = recorded /\ (stage = "none" => stage' = "none")
  <2>0. calls \in Nat
    BY <1>2 DEF Types, Counts
  <2> USE <1>2, <2>0 DEF server, database, entry
  <2>1. ~Batch /\ ~Record /\ ~NativeStarts /\ ~NativeOverflow /\ ~Message
    BY Zenon DEF Batch, Record, NativeStarts, NativeOverflow, Message
  <2>2. CASE Audited
    BY <2>2 DEF Audited
  <2>3. CASE AuditFails
    BY <2>3 DEF AuditFails, Stop
  <2>4. CASE Submit
    BY <2>4 DEF Submit
  <2>5. CASE Acknowledged
    BY <2>5 DEF Acknowledged
  <2>6. CASE EnqueueFails
    BY <2>6 DEF EnqueueFails, Stop
  <2>7. CASE Deliver
    <3>1. BeginRestore => recorded' = recorded
      BY DEF BeginRestore, RestoreFails
    <3> QED
      BY <2>7, <3>1 DEF Deliver
  <2>8. CASE AutoContinue
    <3>1. BeginRestore => recorded' = recorded
      BY DEF BeginRestore, RestoreFails
    <3> QED
      BY <2>8, <3>1 DEF AutoContinue
  <2>9. CASE Continue
    BY <2>9 DEF Continue
  <2>10. CASE RestoreSucceeds
    BY <2>10 DEF RestoreSucceeds
  <2>11. CASE PacketRejected
    BY <2>11 DEF PacketRejected, RestoreFails
  <2>12. CASE Usage
    BY <2>12 DEF Usage
  <2>13. CASE CallEnds
    BY <2>13 DEF CallEnds, Refused
  <2>14. CASE BatchEnds
    BY <2>14 DEF BatchEnds
  <2>15. CASE Idle
    BY <2>15 DEF Idle, Refused
  <2>16. CASE Queue
    BY <2>16 DEF Queue
  <2>17. CASE NativeEnds
    BY <2>17 DEF NativeEnds
  <2>18. CASE RequestFails
    <3>1. RequestRejected => recorded' = recorded /\ stage' \in {stage, "none"}
      BY DEF RequestRejected, Stop
    <3> QED
      BY <2>18, <3>1 DEF RequestFails
  <2>19. CASE NativeFails
    <3>1. RequestRejected => recorded' = recorded /\ stage' \in {stage, "none"}
      BY DEF RequestRejected, Stop
    <3>2. RequestRejected \/ (recorded' = recorded /\ stage' = stage)
      BY <2>19 DEF NativeFails
    <3>3. calls' = calls /\ calls <= calls
      BY <2>19 DEF NativeFails
    <3>4. recorded' = recorded /\ stage' \in {stage, "none"}
      BY <3>1, <3>2
    <3> QED
      BY <3>3, <3>4
  <2>20. CASE Restart
    BY <2>20 DEF Restart
  <2>21. CASE UNCHANGED vars
    BY <2>21 DEF vars
  <2> QED
    BY <2>1, <2>2, <2>3, <2>4, <2>5, <2>6, <2>7, <2>8, <2>9, <2>10, <2>11, <2>12, <2>13, <2>14, <2>15, <2>16, <2>17, <2>18, <2>19, <2>20, <2>21
       DEF Next, Progress
<1>3. Types /\ [Next]_vars =>
         [block => /\ block' /\ calls' <= calls /\ recorded' = recorded
                   /\ (stage = "none" => stage' = "none")]_vars
  BY <1>1, <1>2
<1> QED
  BY <1>3, AlwaysTypes, PTL DEF Spec, BlockIsFinal

\* The invariant that carries the other theorems.
THEOREM Inductive == ASSUME UserWaits PROVE Spec => []IInv
<1>1. Init => IInv
  BY InitTypes DEF Init, IInv, Sound, LedgerKept, WorksRestored, OnePacket, ServerOK,
     StageOK, RunningOK, RestoreOK, ContextOK, None
<1>2. IInv /\ [Next]_vars => IInv'
  BY FlagsStep, CountsStep, NamesStep, SoundStep DEF IInv, Types
<1> QED
  BY <1>1, <1>2, PTL DEF Spec

\* Whatever fails or comes late, the ledger is the last snapshot the session recorded
\* (performCompaction, restoreCompactedSession), no tool runs in a conversation that was
\* summarized and not restored, and no summary is followed by two packets.
THEOREM CompactionIsSafe == ASSUME UserWaits PROVE Spec => []Inv
<1>1. IInv => Inv
  BY TypesOK DEF IInv, Types, Sound, Inv
<1> QED
  BY <1>1, Inductive, PTL

\* The compacting hook loads the latest ledger: the checkpoint of the compaction that is
\* running, never that of one before.
THEOREM LatestIsLoaded == ASSUME UserWaits PROVE Spec => LoadsLatest
<1>1. ASSUME IInv, [Next]_vars, phase # "native", phase' = "native"
      PROVE  Loaded = recorded
  <2>1. NativeStarts \/ NativeOverflow
    BY <1>1 DEF Next, Progress, vars, server, Audited, AuditFails, Submit, Acknowledged,
       EnqueueFails, Queue, NativeEnds, NativeFails, Deliver, AutoContinue, Continue,
       RestoreSucceeds, PacketRejected, BatchEnds, Message, Usage, Batch, Record, CallEnds,
       Idle, RequestFails, Restart
  <2>2. CASE NativeStarts
    BY <1>1, <2>2 DEF NativeStarts, IInv, Types, Counts, Sound, LedgerKept, StageOK,
       RunningOK, Loaded, Restorable, None
  <2>3. CASE NativeOverflow
    BY <1>1, <2>3 DEF NativeOverflow, IInv, Types, Counts, Sound, LedgerKept, StageOK,
       RunningOK, Loaded, Restorable, None
  <2> QED
    BY <2>1, <2>2, <2>3
<1>2. IInv /\ [Next]_vars => [phase # "native" /\ phase' = "native" => Loaded = recorded]_vars
  BY <1>1
<1> QED
  BY <1>2, Inductive, PTL DEF Spec, LoadsLatest

\* A request to summarize is sent only when none is under way or of unknown fate
\* (enqueueNativeCompaction): the one before was answered, or the session is blocked.
THEOREM OneRequest == ASSUME UserWaits PROVE Spec => NoSecondRequest
<1>1. ASSUME IInv, [Next]_vars, stage' # stage, stage' \in {"acknowledging", "summarizing"}
      PROVE  request = "none" /\ ~ours
  <2>1. Submit \/ Audited
    BY <1>1 DEF Next, Progress, vars, Acknowledged, AuditFails, Stop,
       EnqueueFails, Queue, NativeStarts, NativeOverflow, StartNative, NativeEnds, NativeFails,
       RequestFails, RequestRejected, Deliver, AutoContinue, Continue, RestoreSucceeds,
       PacketRejected, BatchEnds, Message, Usage, Batch, Record, CallEnds, Idle,
       BeginCompaction, Restart
  <2>2. stage \in {"auditing", "inspecting"}
    BY <2>1 DEF Submit, Audited
  <2> QED
    BY <1>1, <2>2 DEF IInv, Sound, StageOK, ServerOK
<1>2. IInv /\ [Next]_vars =>
         [stage' # stage /\ stage' \in {"acknowledging", "summarizing"}
             => request = "none" /\ ~ours]_vars
  BY <1>1
<1> QED
  BY <1>2, Inductive, PTL DEF Spec, NoSecondRequest

===============================================================================
