------------------------- MODULE BrowserCapability -------------------------
(***************************************************************************)
(* The browser sessions of one process: BrowserCapability of               *)
(* nla-browser.mjs over the MCP client and the Playwright backend, and the *)
(* part of runRoleTask that drives a session.                              *)
(*                                                                         *)
(* A call is one delegated Browser task.  It may create a session, which   *)
(* is then named after it, or resume one that an earlier call kept.  Its   *)
(* child works on the session with tool calls; then the call runs the      *)
(* success criterion once more, reports, and closes or keeps the session.  *)
(* Meanwhile the caller may cancel, the reaper closes kept sessions that   *)
(* have expired, and the plugin may be disposed of.  One action is the     *)
(* code between two awaits.                                                *)
(***************************************************************************)
EXTENDS Naturals, FiniteSets

CONSTANTS Calls, None, MaxSessions

ASSUME CapacityAssumption == MaxSessions \in Nat \ {0}
ASSUME NoneAssumption == None \notin Calls

VARIABLES
    pc,         \* where each call is
    job,        \* the session it shall resume, its error, whether its criterion passed
    use,        \* the session it drives
    aborted,    \* its caller has cancelled
    outcome,    \* what it returned
    waits,      \* the session whose cleanup its reap() awaits
    session,    \* the table of sessions, with what it knows of each
    conn, net,  \* the backend of a session, and its network session at the broker
    failed,     \* a cleanup that failed was reported; the network is then "lost"
    brokered,   \* the configuration names a broker
    pendingSessions, begins, disposal

callVars == <<pc, job, use, aborted, outcome, waits>>
sessionVars == <<session, conn, net, failed>>
capVars == <<brokered, pendingSessions, begins, disposal>>
vars == <<callVars, sessionVars, capVars>>

Provisioning == {"creating", "launching", "undoing"}
Beginning == Provisioning \cup {"queued", "reaping", "starting", "failing"}
Driving == {"running", "checking", "closing"}
Jobs == [target : Calls \cup {None}, err : BOOLEAN, passed : BOOLEAN]
NoJob == [target |-> None, err |-> FALSE, passed |-> FALSE]

\* st is the way of a session through the table: absent, open, then its cleanup
\* awaiting the backend and the network, then gone.
Sessions == [st : {"absent", "open", "backend", "network", "gone"}, busy : BOOLEAN,
             child : Calls \cup {None}, listens : Calls \cup {None}, cancelled : BOOLEAN,
             poisoned : BOOLEAN, preflight : BOOLEAN, executing : BOOLEAN, expired : BOOLEAN]
NoSession == [st |-> "absent", busy |-> FALSE, child |-> None, listens |-> None,
              cancelled |-> FALSE, poisoned |-> FALSE, preflight |-> FALSE,
              executing |-> FALSE, expired |-> FALSE]

InTable(s) == session[s].st \in {"open", "backend", "network"}
Table == {s \in Calls : InTable(s)}
Gone(s) == session[s].st = "gone"
IdleExpired(s) == InTable(s) /\ ~session[s].busy /\ session[s].expired
Disposing == disposal # "no"

TypeOK ==
    /\ pc \in [Calls -> Beginning \cup Driving \cup {"idle", "done"}]
    /\ job \in [Calls -> Jobs]
    /\ use \in [Calls -> Calls \cup {None}]
    /\ aborted \in [Calls -> BOOLEAN]
    /\ outcome \in [Calls -> {"none", "denied", "PASS", "other"}]
    /\ waits \in [Calls -> Calls \cup {None}]
    /\ session \in [Calls -> Sessions]
    /\ conn \in [Calls -> {"none", "connecting", "up"}]
    /\ net \in [Calls -> {"none", "up", "lost"}]
    /\ failed \in [Calls -> BOOLEAN] /\ brokered \in BOOLEAN
    /\ pendingSessions \in 0..MaxSessions
    /\ begins \subseteq Calls
    /\ disposal \in {"no", "begins", "closing", "done"}

All(x) == [c \in Calls |-> x]

Init ==
    /\ pc = All("idle") /\ job = All(NoJob) /\ use = All(None)
    /\ aborted = All(FALSE) /\ outcome = All("none") /\ waits = All(None)
    /\ session = All(NoSession) /\ conn = All("none") /\ net = All("none")
    /\ failed = All(FALSE)
    /\ brokered \in BOOLEAN /\ pendingSessions = 0 /\ begins = {} /\ disposal = "no"

----------------------------------------------------------------------------
(* Closing a session.  closeOwned starts the cleanup once; whoever asks    *)
(* again awaits the same promise.  The child and the abort listener are    *)
(* detached at once, the entry of the table goes last.                     *)

CloseOwned(table, S) ==
    [s \in Calls |-> IF s \in S /\ table[s].st = "open"
                     THEN [table[s] EXCEPT !.st = "backend", !.child = None, !.listens = None]
                     ELSE table[s]]

\* The table after the next step of the cleanup of s.
Cleaned(s, where) ==
    [session EXCEPT ![s] = IF where = "gone" THEN [NoSession EXCEPT !.st = "gone"]
                           ELSE [session[s] EXCEPT !.st = where]]

\* Mutant: the network session of a backend that could not be closed is kept.
NetworkIfClosed(s, ok) == IF net[s] = "up" /\ ok THEN "network" ELSE "gone"

\* After the backend, however its close() ended, the network session.
AfterBackend(s, ok) == IF net[s] = "up" THEN "network" ELSE "gone"

\* backend.close(): the client is closed for good and its process killed, which
\* start() may not have had yet.  It may also fail or take more than five seconds.
CloseBackend(s) ==
    /\ session[s].st = "backend"
    /\ \E ok \in BOOLEAN :
          /\ conn' = [conn EXCEPT ![s] = IF ok /\ @ = "up" THEN "none" ELSE @]
          /\ failed' = [failed EXCEPT ![s] = @ \/ ~ok]
          /\ session' = Cleaned(s, AfterBackend(s, ok))
    /\ UNCHANGED <<callVars, net, capVars>>

\* The broker destroys the network session and whatever runs in it, or fails to.
DestroyNetwork(s) ==
    /\ session[s].st = "network"
    /\ session' = Cleaned(s, "gone")
    /\ \/ /\ net' = [net EXCEPT ![s] = "none"]
          /\ conn' = [conn EXCEPT ![s] = "none"]
          /\ UNCHANGED failed
       \/ /\ net' = [net EXCEPT ![s] = "lost"]
          /\ failed' = [failed EXCEPT ![s] = TRUE]
          /\ UNCHANGED conn
    /\ UNCHANGED <<callVars, capVars>>

\* The time-to-live of a session passes; only that of an unused one matters.
Expire(s) ==
    /\ session[s].st = "open" /\ ~session[s].busy
    /\ session' = [session EXCEPT ![s].expired = TRUE]
    /\ UNCHANGED <<callVars, conn, net, failed, capVars>>

\* A tick of the reaper; a tick that awaits a cleanup does not keep the next back.
ReaperTick(s) ==
    /\ session[s].st = "open" /\ IdleExpired(s)
    /\ session' = CloseOwned(session, {s})
    /\ UNCHANGED <<callVars, conn, net, failed, capVars>>

----------------------------------------------------------------------------
(* begin and beginSession.                                                 *)

GoTo(c, where) == pc' = [pc EXCEPT ![c] = where]

\* The set dispose waits for, without c.
Settled(c) == begins \ {c}

\* The call is over.
Return(c, result) ==
    /\ GoTo(c, "done")
    /\ outcome' = [outcome EXCEPT ![c] = result]
    /\ job' = [job EXCEPT ![c] = NoJob]
    /\ use' = [use EXCEPT ![c] = None]
    /\ aborted' = [aborted EXCEPT ![c] = FALSE]

\* beginSession throws; begin takes the call out of the set dispose waits for.
Refuse(c) == Return(c, "denied") /\ begins' = Settled(c)

\* The driver asks for a session of its own, or for the kept one of t.
Begin(c, t) ==
    /\ pc[c] = "idle" /\ ~Disposing
    /\ job' = [job EXCEPT ![c].target = t]
    /\ begins' = begins \cup {c}
    /\ GoTo(c, "queued")
    /\ UNCHANGED <<use, aborted, outcome, waits, sessionVars, brokered, pendingSessions,
                   disposal>>

Enter(c) ==
    /\ pc[c] = "queued"
    /\ IF Disposing \/ aborted[c] THEN Refuse(c)
       ELSE GoTo(c, "reaping") /\ UNCHANGED <<job, use, aborted, outcome, begins>>
    /\ UNCHANGED <<waits, sessionVars, brokered, pendingSessions, disposal>>

\* reap() closes the expired sessions one after the other.
ReapNext(c, s) ==
    /\ pc[c] = "reaping" /\ waits[c] = None /\ IdleExpired(s)
    /\ waits' = [waits EXCEPT ![c] = s]
    /\ session' = CloseOwned(session, {s})
    /\ UNCHANGED <<pc, job, use, aborted, outcome, conn, net, failed, capVars>>

ReapedOne(c) ==
    /\ pc[c] = "reaping" /\ waits[c] # None /\ Gone(waits[c])
    /\ waits' = [waits EXCEPT ![c] = None]
    /\ job' = [job EXCEPT ![c].err = @ \/ failed[waits[c]]]
    /\ UNCHANGED <<pc, use, aborted, outcome, sessionVars, capVars>>

\* Mutants: a session in use is resumed; its place is taken when the broker answers.
ResumableInUse(t) == InTable(t)
RoomWithoutReserved == Cardinality(Table) < MaxSessions

\* Its owner and what it grants must also be those of the call.
Resumable(t) == InTable(t) /\ ~session[t].busy

\* A session that is being closed still takes a place.
Room == Cardinality(Table) + pendingSessions < MaxSessions

\* Mutant: a resumed session does not listen to its new caller.
ListensOnlyNew(c, s) == IF s = c THEN c ELSE None

\* Whose signal a session obeys.
ListensTo(c, s) == c

\* The common end of beginSession: c has the session s.
Take(c, s) ==
    /\ session' = [session EXCEPT ![s].busy = TRUE, ![s].listens = ListensTo(c, s),
                                  ![s].preflight = FALSE, ![s].expired = FALSE]
    /\ begins' = Settled(c)
    /\ GoTo(c, "running")

\* Mutant: only a cleanup that somebody else has started is awaited.
NotClosed(s) == [session EXCEPT ![s].busy = TRUE]

\* The session of a call that gives up: closed, if it is not being closed yet.
GivenUp(s) == CloseOwned([session EXCEPT ![s].busy = TRUE], {s})

\* Or c closes it again: the plugin was disposed of, the caller has cancelled, the
\* backend did not start or the preflight record could not be written.
GiveUp(c, s) ==
    /\ session' = GivenUp(s)
    /\ GoTo(c, "failing")
    /\ UNCHANGED begins

\* The session of c enters the table; a local backend is spawned at once.
Allocate(c) ==
    /\ session' = [session EXCEPT ![c] = [NoSession EXCEPT !.st = "open", !.busy = TRUE,
                                                           !.listens = ListensTo(c, c)]]
    /\ use' = [use EXCEPT ![c] = c]
    /\ conn' = [conn EXCEPT ![c] = IF brokered THEN "connecting" ELSE "up"]
    /\ GoTo(c, "starting")

\* What follows reap(), up to the next await.
Resume(c, t) ==
    /\ ~Disposing /\ ~job[c].err /\ job[c].target = t /\ Resumable(t)
    /\ use' = [use EXCEPT ![c] = t]
    /\ \/ ~aborted[c] /\ ~session[t].cancelled /\ Take(c, t)
       \/ GiveUp(c, t)
    /\ UNCHANGED <<job, aborted, outcome, pendingSessions, conn>>

Create(c) ==
    /\ ~Disposing /\ ~job[c].err /\ job[c].target = None /\ Room /\ ~aborted[c]
    /\ IF brokered
       THEN /\ GoTo(c, "creating")
            /\ pendingSessions' = pendingSessions + 1
            /\ UNCHANGED <<session, use, conn>>
       ELSE Allocate(c) /\ UNCHANGED pendingSessions
    /\ UNCHANGED <<job, aborted, outcome, begins>>

Denied(c) ==
    /\ Disposing \/ job[c].err \/ job[c].target # None \/ ~Room \/ aborted[c]
    /\ Refuse(c)
    /\ UNCHANGED <<session, conn, pendingSessions>>

Provision(c) ==
    /\ pc[c] = "reaping" /\ waits[c] = None /\ ~\E s \in Calls : IdleExpired(s)
    /\ (\E t \in Calls : Resume(c, t)) \/ Create(c) \/ Denied(c)
    /\ UNCHANGED <<waits, net, failed, brokered, disposal>>

\* A reserved place is given back.
FreedPlace == pendingSessions - 1

\* The answer to create; without one the network session may be there all the same.
Created(c) ==
    /\ pc[c] = "creating"
    /\ \/ /\ net' = [net EXCEPT ![c] = "up"]
          /\ GoTo(c, IF Disposing \/ aborted[c] THEN "undoing" ELSE "launching")
          /\ UNCHANGED <<failed, pendingSessions, job, use, aborted, outcome, begins>>
       \/ /\ \E n \in {"none", "lost"} : net' = [net EXCEPT ![c] = n]
          /\ failed' = [failed EXCEPT ![c] = TRUE]
          /\ pendingSessions' = FreedPlace
          /\ Refuse(c)
    /\ UNCHANGED <<waits, session, conn, brokered, disposal>>

\* The answer to launch: the place is handed over to the table without an await.
Launched(c) ==
    /\ pc[c] = "launching"
    /\ \/ /\ ~Disposing /\ ~aborted[c]
          /\ Allocate(c)
          /\ pendingSessions' = pendingSessions - 1
       \/ /\ GoTo(c, "undoing")
          /\ UNCHANGED <<use, session, conn, pendingSessions>>
    /\ UNCHANGED <<job, aborted, outcome, waits, net, failed, brokered, begins, disposal>>

\* A network session that could not be used is destroyed.
Undone(c) ==
    /\ pc[c] = "undoing"
    /\ \/ net' = [net EXCEPT ![c] = "none"] /\ UNCHANGED failed
       \/ /\ net' = [net EXCEPT ![c] = "lost"]
          /\ failed' = [failed EXCEPT ![c] = TRUE]
    /\ pendingSessions' = FreedPlace
    /\ Refuse(c)
    /\ UNCHANGED <<waits, session, conn, brokered, disposal>>

\* The socket of a launched browser connects, even after the client was closed.
Connect(c) ==
    /\ pc[c] = "starting" /\ conn[c] = "connecting" /\ net[c] = "up"
    /\ conn' = [conn EXCEPT ![c] = "up"]
    /\ UNCHANGED <<callVars, session, net, failed, capVars>>

\* start() returns or throws.
Started(c) ==
    /\ pc[c] = "starting"
    /\ \/ /\ conn[c] = "up" /\ session[c].st = "open" /\ ~Disposing /\ ~aborted[c]
          /\ Take(c, c)
       \/ GiveUp(c, c)
    /\ UNCHANGED <<job, use, aborted, outcome, waits, conn, net, failed, brokered,
                   pendingSessions, disposal>>

\* beginSession throws when the cleanup is over.
Failed(c) ==
    /\ pc[c] = "failing" /\ Gone(use[c])
    /\ Refuse(c)
    /\ UNCHANGED <<waits, sessionVars, brokered, pendingSessions, disposal>>

----------------------------------------------------------------------------
(* The child at work, and what may happen to the session meanwhile.        *)

\* The delegated task has created its child.  (Only one attempt; a child that is
\* bound when the cleanup has already begun has nothing to work on.)
Bind(c) ==
    /\ pc[c] = "running" /\ session[use[c]].child = None /\ session[use[c]].st = "open"
    /\ session' = [session EXCEPT ![use[c]].child = c]
    /\ UNCHANGED <<callVars, conn, net, failed, capVars>>

Owned(c, s) == InTable(s) /\ session[s].busy /\ session[s].child = c

\* The child may have an operation carried out.
MayExecute(c) == pc[c] = "running" /\ Owned(c, use[c]) /\ ~session[use[c]].executing

\* The preflight of the child; a failure fails the whole call.
ChildPreflight(c) ==
    /\ MayExecute(c)
    /\ \/ /\ conn[use[c]] = "up"
          /\ session' = [session EXCEPT ![use[c]].preflight = TRUE]
          /\ UNCHANGED job
       \/ job' = [job EXCEPT ![c].err = TRUE] /\ UNCHANGED session
    /\ UNCHANGED <<pc, use, aborted, outcome, waits, conn, net, failed, capVars>>

\* A tool call of the child goes to the backend.
ChildOperation(c) ==
    /\ MayExecute(c) /\ session[use[c]].preflight
    /\ session' = [session EXCEPT ![use[c]].executing = TRUE]
    /\ UNCHANGED <<callVars, conn, net, failed, capVars>>

\* The sessions when an operation for c has been answered, and whether it passed.  An
\* answer that comes when the child no longer owns the session does not count; one
\* that does not come leaves the page unknown.
Answered(c) ==
    LET s == use[c]
        after == [session EXCEPT ![s].executing = FALSE]
    IN  {<<[after EXCEPT ![s].poisoned = @ \/ Owned(c, s)], FALSE>>}
            \cup {<<after, p>> : p \in {q \in BOOLEAN : conn[s] = "up" /\ Owned(c, s)}}

ChildAnswer(c) ==
    /\ pc[c] = "running" /\ session[use[c]].executing
    /\ \E a \in Answered(c) : session' = a[1]
    /\ UNCHANGED <<callVars, conn, net, failed, capVars>>

\* The child asks for the session to be closed.
ChildClose(c) ==
    /\ MayExecute(c)
    /\ session' = CloseOwned(session, {use[c]})
    /\ UNCHANGED <<callVars, conn, net, failed, capVars>>

\* The caller cancels: the sessions that listen to it are closed, also one that is
\* still starting.
Abort(c) ==
    LET S == {s \in Calls : session[s].listens = c}
    IN  /\ pc[c] \notin {"idle", "done"} /\ ~aborted[c]
        /\ aborted' = [aborted EXCEPT ![c] = TRUE]
        /\ session' = CloseOwned([s \in Calls |-> [session[s] EXCEPT !.cancelled = @ \/ s \in S]], S)
    /\ UNCHANGED <<pc, job, use, outcome, waits, conn, net, failed, capVars>>

----------------------------------------------------------------------------
(* finish, and what runRoleTask does around it.                            *)

\* Mutant: a poisoned session is kept.
KeepsUnchecked(sessions, s, err) == ~err /\ InTable(s)

\* Whether a session may outlive the call, if the task asks for it.
Keeps(sessions, s, err) == ~err /\ ~sessions[s].poisoned /\ InTable(s)

\* A kept session is free for another call, or for the reaper.
Released(record) == [record EXCEPT !.child = None, !.listens = None, !.busy = FALSE]

\* FAIL, BLOCKED and NOT_RUN are one.
Result(passed) == IF passed THEN "PASS" ELSE "other"

\* A session that is kept waits for its next call, any other is closed.
Conclude(c, sessions, err, passed) ==
    LET s == use[c]
    IN  \/ /\ Keeps(sessions, s, err)
           /\ session' = [sessions EXCEPT ![s] = Released(@)]
           /\ Return(c, Result(passed))
        \/ /\ session' = CloseOwned(sessions, {s})
           /\ job' = [job EXCEPT ![c] = [NoJob EXCEPT !.passed = passed /\ ~err]]
           /\ GoTo(c, "closing")
           /\ UNCHANGED <<use, aborted, outcome>>

\* Why the call is BLOCKED without running its criterion once more.
Spoilt(c, s) ==
    \/ session[s].executing \/ session[s].cancelled \/ session[s].poisoned
    \/ job[c].err \/ ~InTable(s) \/ (session[s].preflight /\ ~Owned(c, s))

\* The delegated task returns, or throws while an operation may be in flight.  What
\* counts is the check made now; a call without preflight made none.
ChildDone(c) ==
    LET s == use[c]
    IN  /\ pc[c] = "running"
        /\ \E err \in {TRUE, Spoilt(c, s)} :
              IF ~err /\ session[s].preflight
              THEN /\ session' = [session EXCEPT ![s].executing = TRUE]
                   /\ GoTo(c, "checking")
                   /\ UNCHANGED <<job, use, aborted, outcome>>
              ELSE Conclude(c, session, err, FALSE)
    /\ UNCHANGED <<waits, conn, net, failed, capVars>>

FinalAnswer(c) ==
    /\ pc[c] = "checking"
    /\ \E a \in Answered(c) : Conclude(c, a[1], FALSE, a[2])
    /\ UNCHANGED <<waits, conn, net, failed, capVars>>

\* A cleanup that failed, like evidence that cannot be stored, rules out PASS.
Report(c) ==
    /\ pc[c] = "closing" /\ Gone(use[c])
    /\ \E p \in {FALSE, job[c].passed /\ ~failed[use[c]]} : Return(c, Result(p))
    /\ UNCHANGED <<waits, sessionVars, capVars>>

----------------------------------------------------------------------------
(* dispose: no call may begin, those that began settle, then all is closed. *)

BeginsSettled == begins = {}

Dispose ==
    /\ ~Disposing
    /\ disposal' = "begins"
    /\ UNCHANGED <<callVars, sessionVars, brokered, pendingSessions, begins>>

DisposeSessions ==
    /\ disposal = "begins" /\ BeginsSettled
    /\ disposal' = "closing"
    /\ session' = CloseOwned(session, Table)
    /\ UNCHANGED <<callVars, conn, net, failed, brokered, pendingSessions, begins>>

Disposed ==
    /\ disposal = "closing" /\ Table = {}
    /\ disposal' = "done"
    /\ UNCHANGED <<callVars, sessionVars, brokered, pendingSessions, begins>>

----------------------------------------------------------------------------
CallStep(c) ==
    \/ Enter(c) \/ ReapedOne(c) \/ Provision(c) \/ Created(c) \/ Launched(c) \/ Undone(c)
    \/ Started(c) \/ Failed(c) \/ ChildDone(c) \/ FinalAnswer(c)
    \/ Report(c)

ChildStep(c) == Bind(c) \/ ChildPreflight(c) \/ ChildOperation(c) \/ ChildClose(c)

SessionStep(s) == CloseBackend(s) \/ DestroyNetwork(s) \/ ReaperTick(s)

Next ==
    \/ \E c \in Calls :
          \/ \E t \in (Calls \ {c}) \cup {None} : Begin(c, t)
          \/ CallStep(c) \/ ChildStep(c) \/ ChildAnswer(c) \/ Connect(c) \/ Abort(c)
          \/ SessionStep(c) \/ Expire(c)
          \/ \E s \in Calls : ReapNext(c, s)
    \/ Dispose \/ DisposeSessions \/ Disposed

Spec == Init /\ [][Next]_vars

\* Every await ends: a request to the broker, to the backend and every model call has
\* a time-out, the reaper is a timer.  Nobody has to call, to cancel or to dispose.
Fairness ==
    /\ \A c \in Calls :
          /\ WF_vars(CallStep(c)) /\ WF_vars(ChildAnswer(c))
          /\ WF_vars(\E s \in Calls : ReapNext(c, s))
          /\ WF_vars(SessionStep(c)) /\ WF_vars(Expire(c))
    /\ WF_vars(DisposeSessions) /\ WF_vars(Disposed)

FairSpec == Spec /\ Fairness

----------------------------------------------------------------------------
\* No more browsers run than max_sessions allows, counting those being provisioned
\* and those being closed; one whose cleanup failed has been reported instead.
BrowsersWithinLimit ==
    Cardinality({s \in Calls : net[s] = "up" \/ (conn[s] = "up" /\ ~failed[s])}) <= MaxSessions

\* The places reserved are those of the calls that wait for the broker: none is lost
\* to a call that was refused, and none is free while its network is being destroyed.
ReservedInUse == pendingSessions = Cardinality({c \in Calls : pc[c] \in Provisioning})

\* Whatever begins, fails, is closed or resumed, max_sessions is kept and can be used.
LimitKept == BrowsersWithinLimit /\ ReservedInUse

\* A session that is not in the table, or never came to be in it, leaves no browser
\* behind: whatever step of provisioning, start or cleanup failed, was cancelled or
\* was overtaken, its network session has been destroyed and its backend closed,
\* unless just that failed and was reported.
NothingLeftRunning ==
    \A s \in Calls :
        session[s].st \in {"absent", "gone"} /\ pc[s] \notin Provisioning =>
            net[s] # "up" /\ (conn[s] = "up" => failed[s])

\* Two calls never drive one session.
OneDriver ==
    \A c, d \in Calls :
        pc[c] \in Driving /\ pc[d] \in Driving /\ use[c] = use[d] => c = d

Inv == TypeOK /\ OneDriver

\* Once the plugin has been disposed of, nothing begins and nothing runs.
DisposeLeavesNothing ==
    disposal = "done" =>
        /\ Table = {} /\ begins = {}
        /\ \A s \in Calls : net[s] # "up" /\ (conn[s] = "up" => failed[s])

\* Whoever is late, nothing is left running.
CleanedUp == NothingLeftRunning /\ DisposeLeavesNothing

\* A session is driven by a later call only if no operation in it had an unknown
\* outcome and no caller has cancelled it, whenever in the earlier call that was.
ResumedIsSound ==
    [][\A c \in Calls :
          pc[c] = "reaping" /\ pc'[c] = "running" =>
              ~session[use'[c]].poisoned /\ ~session[use'[c]].cancelled]_vars

\* A caller that cancels before the delegated task ends gets no PASS: the criterion is
\* not even run once more.
CancelledInTime ==
    [][\A c \in Calls :
          pc[c] = "running" /\ aborted[c] /\ pc'[c] # "running" =>
              pc'[c] # "checking" /\ outcome'[c] # "PASS" /\ ~job'[c].passed]_vars

\* Every call returns.
CallsReturn == \A c \in Calls : pc[c] = "queued" ~> pc[c] = "done"

\* A session that was kept is resumed or leaves the table.
KeptIsReleased ==
    \A s \in Calls :
        (InTable(s) /\ \A c \in Calls : use[c] # s)
            ~> (~InTable(s) \/ \E c \in Calls : use[c] = s)

\* dispose returns.
DisposeReturns == Disposing ~> disposal = "done"

\* Nobody waits for ever: not the caller, not the next user of a kept session, and
\* not who disposes of the plugin.
EverythingEnds == CallsReturn /\ KeptIsReleased /\ DisposeReturns

============================================================================
