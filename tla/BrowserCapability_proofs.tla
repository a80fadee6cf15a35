----------------------- MODULE BrowserCapability_proofs -----------------------
(***************************************************************************)
(* Browser sessions, for any number of calls and any limit.  The invariant *)
(* says what the place of a call tells of its session and what the way of  *)
(* a session tells of its browser, that a session has one user, and that   *)
(* the sessions of the table and the places reserved for those that are    *)
(* being provisioned are together within the limit.                        *)
(***************************************************************************)
EXTENDS BrowserCapability, FiniteSetTheorems, TLAPS

\* Every variable has its type; the number of places is the matter of PlacesOK.
Types ==
    /\ pc \in [Calls -> Beginning \cup Driving \cup {"idle", "done"}]
    /\ job \in [Calls -> Jobs]
    /\ use \in [Calls -> Calls \cup {None}]
    /\ aborted \in [Calls -> BOOLEAN]
    /\ outcome \in [Calls -> {"none", "denied", "PASS", "other"}]
    /\ waits \in [Calls -> Calls \cup {None}]
    /\ session \in [Calls -> Sessions]
    /\ conn \in [Calls -> {"none", "connecting", "up"}]
    /\ net \in [Calls -> {"none", "up", "lost"}]
    /\ failed \in [Calls -> BOOLEAN]
    /\ brokered \in BOOLEAN
    /\ begins \subseteq Calls
    /\ disposal \in {"no", "begins", "closing", "done"}

\* The places of a call that has a session.
Users == {"starting", "failing"} \cup Driving

\* What the place of a call says: whether dispose waits for it, and of its session,
\* which is in use as long as it is in the table and obeys the caller while it is open.
CallOK(c) ==
    /\ c \in begins <=> pc[c] \in Beginning
    /\ use[c] # None <=> pc[c] \in Users
    /\ pc[c] \in Users =>
          /\ session[use[c]].st # "absent"
          /\ InTable(use[c]) => session[use[c]].busy
    /\ pc[c] = "starting" => use[c] = c
    /\ pc[c] # "done" => outcome[c] = "none"
    /\ pc[c] = "running" /\ session[use[c]].st = "open" =>
          session[use[c]].listens = c /\ ~aborted[c]

\* What the way of a session says of its browser, its child and its page.
SessionOK(s) ==
    /\ pc[s] \in {"idle", "queued", "reaping"} \cup Provisioning => session[s].st = "absent"
    /\ session[s].st = "absent" =>
          conn[s] = "none" /\ (net[s] = "up" => pc[s] \in {"launching", "undoing"})
    /\ session[s].st = "gone" => net[s] # "up" /\ (conn[s] = "up" => failed[s])
    /\ session[s].st \in {"backend", "network"} => session[s].child = None
    /\ InTable(s) /\ ~session[s].busy => ~session[s].poisoned

OneUser ==
    \A c, d \in Calls : pc[c] \in Users /\ pc[d] \in Users /\ use[c] = use[d] => c = d

DisposeOK ==
    /\ disposal \in {"closing", "done"} => begins = {} /\ \A s \in Calls : session[s].st # "open"
    /\ disposal = "done" => Table = {}

\* The calls that have reserved a place.
Reserved == {c \in Calls : pc[c] \in Provisioning}

PlacesOK ==
    /\ IsFiniteSet(Table) /\ IsFiniteSet(Reserved)
    /\ pendingSessions = Cardinality(Reserved)
    /\ Cardinality(Table) + pendingSessions <= MaxSessions

CallsOK == \A c \in Calls : CallOK(c)
SessionsOK == \A s \in Calls : SessionOK(s)

IInv == Types /\ CallsOK /\ SessionsOK /\ OneUser /\ DisposeOK /\ PlacesOK

-----------------------------------------------------------------------------
(* Types.                                                                  *)

\* Closing sessions leaves well-formed sessions; one that was open awaits its backend,
\* without child and listener, and nothing else is changed.
LEMMA CloseOwnedKeeps ==
    ASSUME NEW table \in [Calls -> Sessions], NEW S \in SUBSET Calls
    PROVE  /\ CloseOwned(table, S) \in [Calls -> Sessions]
           /\ \A s \in Calls :
                 LET new == CloseOwned(table, S)[s]
                 IN  IF s \in S /\ table[s].st = "open"
                     THEN /\ new.st = "backend" /\ new.child = None /\ new.listens = None
                          /\ new.busy = table[s].busy /\ new.poisoned = table[s].poisoned
                          /\ new.cancelled = table[s].cancelled
                     ELSE new = table[s]
BY ZenonT(40) DEF CloseOwned, Sessions

\* The cleanup of a session leaves well-formed sessions.
LEMMA CleanedKeeps ==
    ASSUME Types, NEW s \in Calls, NEW where \in {"network", "gone"}
    PROVE  /\ Cleaned(s, where) \in [Calls -> Sessions]
           /\ \A t \in Calls \ {s} : Cleaned(s, where)[t] = session[t]
           /\ Cleaned(s, where)[s].st = where
           /\ where = "network" =>
                /\ Cleaned(s, where)[s].busy = session[s].busy
                /\ Cleaned(s, where)[s].child = session[s].child
                /\ Cleaned(s, where)[s].poisoned = session[s].poisoned
<1>1. session \in [Calls -> Sessions]
  BY DEF Types
<1>2. CASE where = "network"
  <2> DEFINE r == [session[s] EXCEPT !.st = "network"]
  <2>1. Cleaned(s, where) = [session EXCEPT ![s] = r]
    BY <1>2 DEF Cleaned
  <2>2. /\ r \in Sessions /\ r.st = "network" /\ r.busy = session[s].busy
        /\ r.child = session[s].child /\ r.poisoned = session[s].poisoned
    BY <1>1 DEF Sessions
  <2> HIDE DEF r
  <2>3. /\ [session EXCEPT ![s] = r] \in [Calls -> Sessions]
        /\ \A t \in Calls \ {s} : [session EXCEPT ![s] = r][t] = session[t]
        /\ [session EXCEPT ![s] = r][s] = r
    BY <1>1, <2>2
  <2> QED
    BY <1>2, <2>1, <2>2, <2>3
<1>3. CASE where = "gone"
  <2> DEFINE r == [NoSession EXCEPT !.st = "gone"]
  <2>1. Cleaned(s, where) = [session EXCEPT ![s] = r]
    BY <1>3 DEF Cleaned
  <2>2. r \in Sessions /\ r.st = "gone"
    BY DEF Sessions, NoSession
  <2> HIDE DEF r
  <2>3. /\ [session EXCEPT ![s] = r] \in [Calls -> Sessions]
        /\ \A t \in Calls \ {s} : [session EXCEPT ![s] = r][t] = session[t]
        /\ [session EXCEPT ![s] = r][s] = r
    BY <1>1, <2>2
  <2> QED
    BY <1>3, <2>1, <2>2, <2>3
<1> QED
  BY <1>2, <1>3

\* Answers leave well-formed sessions: only the page and what runs in it are changed, and
\* the page becomes unknown only to a child that owns the session.
LEMMA AnsweredKeeps ==
    ASSUME Types, NEW c \in Calls, use[c] \in Calls, NEW a \in Answered(c)
    PROVE  /\ a[1] \in [Calls -> Sessions] /\ a[2] \in BOOLEAN
           /\ \A t \in Calls \ {use[c]} : a[1][t] = session[t]
           /\ \A t \in Calls :
                 /\ a[1][t].st = session[t].st /\ a[1][t].busy = session[t].busy
                 /\ a[1][t].child = session[t].child /\ a[1][t].listens = session[t].listens
                 /\ a[1][t].cancelled = session[t].cancelled
           /\ a[1][use[c]].poisoned => session[use[c]].poisoned \/ Owned(c, use[c])
<1> DEFINE s == use[c]
           after == [session EXCEPT ![s].executing = FALSE]
           unknown == [after EXCEPT ![s].poisoned = @ \/ Owned(c, s)]
           Same(f) == /\ \A t \in Calls \ {s} : f[t] = session[t]
                      /\ \A t \in Calls :
                            /\ f[t].st = session[t].st /\ f[t].busy = session[t].busy
                            /\ f[t].child = session[t].child
                            /\ f[t].listens = session[t].listens
                            /\ f[t].cancelled = session[t].cancelled
<1>1. session \in [Calls -> Sessions] /\ s \in Calls
  BY DEF Types
<1>2. /\ after \in [Calls -> Sessions] /\ Same(after)
      /\ after[s].poisoned = session[s].poisoned
  BY <1>1, ZenonT(40) DEF Sessions
<1>3. Owned(c, s) \in BOOLEAN
  BY DEF Owned, InTable
<1>4. (after[s].poisoned \/ Owned(c, s)) \in BOOLEAN
  OBVIOUS
<1>5. /\ unknown \in [Calls -> Sessions] /\ Same(unknown)
      /\ unknown[s].poisoned = (after[s].poisoned \/ Owned(c, s))
  <2>1. PICK q \in BOOLEAN : q = (after[s].poisoned \/ Owned(c, s))
    BY <1>4, Zenon
  <2> HIDE DEF after
  <2>2. unknown = [after EXCEPT ![s].poisoned = q]
    BY <2>1, Zenon
  <2> HIDE DEF unknown
  <2>3. /\ unknown \in [Calls -> Sessions] /\ unknown[s].poisoned = q
        /\ \A t \in Calls \ {s} : unknown[t] = after[t]
        /\ unknown[s].st = after[s].st /\ unknown[s].busy = after[s].busy
        /\ unknown[s].child = after[s].child /\ unknown[s].listens = after[s].listens
        /\ unknown[s].cancelled = after[s].cancelled
    BY <1>1, <1>2, <2>2 DEF Sessions
  <2>4. Same(unknown)
    BY <1>1, <1>2, <2>3
  <2> QED
    BY <2>1, <2>3, <2>4, Zenon
<1>6. a = <<unknown, FALSE>> \/ \E p \in BOOLEAN : a = <<after, p>>
  BY DEF Answered
<1> HIDE DEF after, unknown
<1>7. CASE a = <<unknown, FALSE>>
  BY <1>1, <1>2, <1>5, <1>7
<1>8. CASE \E p \in BOOLEAN : a = <<after, p>>
  BY <1>1, <1>2, <1>8
<1> QED
  BY <1>6, <1>7, <1>8

-----------------------------------------------------------------------------
(* Steps in which no call moves: the sessions go their way.                *)

\* What a session may do without its user noticing.
Quietly(s) ==
    /\ session[s].st = "absent" <=> session'[s].st = "absent"
    /\ InTable(s)' => InTable(s) /\ (session[s].busy => session'[s].busy)
    /\ session'[s].st = "open" =>
          session[s].st = "open" /\ session'[s].listens = session[s].listens

SessionsMove ==
    /\ UNCHANGED <<pc, use, aborted, outcome, pendingSessions, begins, disposal>>
    /\ \A s \in Calls : Quietly(s)

\* No more sessions are in the table and the same places are reserved.
NoMorePlaces ==
    /\ UNCHANGED pendingSessions
    /\ \A s \in Calls : InTable(s)' => InTable(s)
    /\ \A c \in Calls : pc'[c] \in Provisioning <=> pc[c] \in Provisioning

\* Then the limit is kept.
LEMMA PlacesKept ==
    ASSUME PlacesOK, NoMorePlaces PROVE PlacesOK'
<1>1. Table' \subseteq Table /\ Reserved' = Reserved
  BY DEF NoMorePlaces, Table, Reserved
<1>2. IsFiniteSet(Table') /\ Cardinality(Table') <= Cardinality(Table)
  BY <1>1, FS_Subset DEF PlacesOK
<1>3. Cardinality(Table') \in Nat /\ Cardinality(Table) \in Nat /\ Cardinality(Reserved) \in Nat
  BY <1>2, FS_CardinalityType DEF PlacesOK
<1>4. IsFiniteSet(Reserved') /\ pendingSessions' = pendingSessions
      /\ Cardinality(Reserved') = Cardinality(Reserved)
  BY <1>1 DEF PlacesOK, NoMorePlaces
<1>5. Cardinality(Table') + pendingSessions' <= MaxSessions
  BY <1>2, <1>3, <1>4, CapacityAssumption DEF PlacesOK
<1> QED
  BY <1>2, <1>4, <1>5 DEF PlacesOK

\* A disposed plugin stays without sessions that are open.
LEMMA DisposeKept ==
    ASSUME DisposeOK, UNCHANGED disposal, begins' \subseteq begins,
           \A s \in Calls : session'[s].st = "open" => session[s].st = "open",
           \A s \in Calls : InTable(s)' => InTable(s)
    PROVE  DisposeOK'
BY DEF DisposeOK, Table

\* Sessions that go their way quietly keep the invariant, if they keep SessionOK.
LEMMA SessionsMoveKeeps ==
    ASSUME IInv, Types', SessionsMove, SessionsOK' PROVE IInv'
<1>1. CallsOK'
  <2> SUFFICES ASSUME NEW c \in Calls PROVE CallOK(c)'
    BY DEF CallsOK
  <2>1. CallOK(c) /\ (pc[c] \in Users => use[c] \in Calls)
    BY NoneAssumption DEF IInv, CallsOK, CallOK, Types
  <2>2. CASE pc[c] \in Users
    <3>1. Quietly(use[c])
      BY <2>1, <2>2 DEF SessionsMove
    <3> QED
      BY <2>1, <2>2, <3>1 DEF SessionsMove, Quietly, CallOK
  <2>3. CASE pc[c] \notin Users
    BY <2>1, <2>3 DEF SessionsMove, CallOK, Users, Driving
  <2> QED
    BY <2>2, <2>3
<1>2. OneUser'
  BY DEF IInv, OneUser, SessionsMove
<1>3. NoMorePlaces
  BY DEF SessionsMove, Quietly, NoMorePlaces
<1>4. PlacesOK'
  BY <1>3, PlacesKept DEF IInv
<1>5. DisposeOK'
  BY DisposeKept DEF IInv, SessionsMove, Quietly
<1> QED
  BY <1>1, <1>2, <1>4, <1>5 DEF IInv

\* The types of all but the session table, in a step that changes nothing else.
LEMMA TypesKept ==
    ASSUME Types, UNCHANGED <<callVars, conn, net, failed, capVars>>,
           session' \in [Calls -> Sessions]
    PROVE  Types'
<1>1. aborted' \in [Calls -> BOOLEAN] /\ failed' \in [Calls -> BOOLEAN] /\ brokered' \in BOOLEAN
  BY Zenon DEF Types, callVars, capVars
<1> QED
  BY <1>1 DEF Types, callVars, capVars

\* What SessionOK says of s is about these values only.
SessionSame(s) ==
    /\ pc'[s] = pc[s] /\ session'[s] = session[s] /\ conn'[s] = conn[s]
    /\ net'[s] = net[s] /\ failed'[s] = failed[s]

\* A session whose values stay the same keeps what is said of it.
LEMMA SessionFrame ==
    ASSUME NEW s \in Calls, SessionOK(s), SessionSame(s) PROVE SessionOK(s)'
BY DEF SessionOK, SessionSame, InTable

\* Closing sessions is quiet, and keeps what is said of sessions.
LEMMA CloseOwnedQuiet ==
    ASSUME IInv, NEW S \in SUBSET Calls, session' = CloseOwned(session, S),
           UNCHANGED <<pc, conn, net, failed>>
    PROVE  /\ session' \in [Calls -> Sessions]
           /\ \A s \in Calls : Quietly(s)
           /\ SessionsOK'
<1>1. /\ session' \in [Calls -> Sessions]
      /\ \A s \in Calls :
            IF s \in S /\ session[s].st = "open"
            THEN /\ session'[s].st = "backend" /\ session'[s].child = None
                 /\ session'[s].busy = session[s].busy /\ session'[s].poisoned = session[s].poisoned
            ELSE session'[s] = session[s]
  BY CloseOwnedKeeps DEF IInv, Types
<1>2. ASSUME NEW s \in Calls PROVE Quietly(s) /\ SessionOK(s)'
  <2>1. SessionOK(s)
    BY DEF IInv, SessionsOK
  <2>2. CASE s \in S /\ session[s].st = "open"
    BY <1>1, <2>1, <2>2 DEF Quietly, InTable, SessionOK
  <2>3. CASE ~(s \in S /\ session[s].st = "open")
    <3>1. session'[s] = session[s]
      BY <1>1, <2>3
    <3>2. SessionSame(s)
      BY <3>1 DEF SessionSame
    <3> QED
      BY <2>1, <3>1, <3>2, SessionFrame DEF Quietly, InTable
  <2> QED
    BY <2>2, <2>3
<1> QED
  BY <1>1, <1>2 DEF SessionsOK

\* The cleanup of a session whose backend has been asked to close goes on.
LEMMA CleanedQuiet ==
    ASSUME IInv, NEW s \in Calls, NEW where \in {"network", "gone"},
           session[s].st \in {"backend", "network"}, session' = Cleaned(s, where),
           UNCHANGED pc, \A t \in Calls \ {s} : SessionSame(t),
           where = "gone" => net'[s] # "up" /\ (conn'[s] = "up" => failed'[s])
    PROVE  /\ session' \in [Calls -> Sessions]
           /\ \A t \in Calls : Quietly(t)
           /\ SessionsOK'
<1>1. /\ session' \in [Calls -> Sessions]
      /\ session'[s].st = where
      /\ where = "network" =>
            /\ session'[s].busy = session[s].busy /\ session'[s].child = session[s].child
            /\ session'[s].poisoned = session[s].poisoned
  BY CleanedKeeps DEF IInv
<1>2. ASSUME NEW t \in Calls PROVE Quietly(t) /\ SessionOK(t)'
  <2>1. SessionOK(t)
    BY DEF IInv, SessionsOK
  <2>2. CASE t = s
    BY <1>1, <2>1, <2>2 DEF Quietly, InTable, SessionOK
  <2>3. CASE t # s
    <3>1. SessionSame(t)
      BY <2>3
    <3> QED
      BY <2>1, <3>1, SessionFrame DEF SessionSame, Quietly, InTable
  <2> QED
    BY <2>2, <2>3
<1> QED
  BY <1>1, <1>2 DEF SessionsOK

\* closeOwned, by the reaper.
LEMMA ReaperTickStep ==
    ASSUME IInv, NEW s \in Calls, ReaperTick(s) PROVE IInv'
<1>1. /\ session' \in [Calls -> Sessions] /\ \A t \in Calls : Quietly(t)
      /\ SessionsOK'
  BY CloseOwnedQuiet DEF ReaperTick, callVars
<1>2. Types'
  BY <1>1, TypesKept DEF IInv, ReaperTick
<1> QED
  BY <1>1, <1>2, SessionsMoveKeeps DEF ReaperTick, SessionsMove, callVars, capVars

\* The child asks for its session to be closed.
LEMMA ChildCloseStep ==
    ASSUME IInv, NEW c \in Calls, ChildClose(c) PROVE IInv'
<1>1. {use[c]} \in SUBSET Calls
  BY NoneAssumption DEF ChildClose, MayExecute, IInv, CallsOK, CallOK, Users, Driving, Types
<1>2. /\ session' \in [Calls -> Sessions] /\ \A t \in Calls : Quietly(t)
      /\ SessionsOK'
  BY <1>1, CloseOwnedQuiet DEF ChildClose, callVars
<1>3. Types'
  BY <1>2, TypesKept DEF IInv, ChildClose
<1> QED
  BY <1>2, <1>3, SessionsMoveKeeps DEF ChildClose, SessionsMove, callVars, capVars

\* reap() closes an expired session.
LEMMA ReapNextStep ==
    ASSUME IInv, NEW c \in Calls, NEW s \in Calls, ReapNext(c, s) PROVE IInv'
<1>1. /\ session' \in [Calls -> Sessions] /\ \A t \in Calls : Quietly(t)
      /\ SessionsOK'
  BY CloseOwnedQuiet DEF ReapNext
<1>2. Types'
  <2>1. aborted' \in [Calls -> BOOLEAN] /\ failed' \in [Calls -> BOOLEAN] /\ brokered' \in BOOLEAN
    BY Zenon DEF IInv, Types, ReapNext, capVars
  <2> QED
    BY <1>1, <2>1 DEF IInv, Types, ReapNext, capVars
<1> QED
  BY <1>1, <1>2, SessionsMoveKeeps DEF ReapNext, SessionsMove, capVars

\* The backend is closed, or cannot be.
LEMMA CloseBackendStep ==
    ASSUME IInv, NEW s \in Calls, CloseBackend(s) PROVE IInv'
<1>1. PICK ok \in BOOLEAN :
        /\ conn' = [conn EXCEPT ![s] = IF ok /\ @ = "up" THEN "none" ELSE @]
        /\ failed' = [failed EXCEPT ![s] = @ \/ ~ok]
        /\ session' = Cleaned(s, AfterBackend(s, ok))
  BY DEF CloseBackend
<1>2. /\ session[s].st = "backend" /\ UNCHANGED <<callVars, net, capVars>>
      /\ Types /\ conn \in [Calls -> {"none", "connecting", "up"}]
      /\ failed \in [Calls -> BOOLEAN]
  BY DEF CloseBackend, IInv, Types
<1>3. /\ conn' \in [Calls -> {"none", "connecting", "up"}]
      /\ \A t \in Calls \ {s} : conn'[t] = conn[t]
      /\ ok => conn'[s] # "up"
  BY <1>1, <1>2
<1>4. /\ failed' \in [Calls -> BOOLEAN]
      /\ \A t \in Calls \ {s} : failed'[t] = failed[t]
      /\ ~ok => failed'[s]
  BY <1>1, <1>2
<1>5. /\ AfterBackend(s, ok) \in {"network", "gone"}
      /\ AfterBackend(s, ok) = "gone" => net'[s] # "up"
  BY <1>2 DEF AfterBackend
<1>6. \A t \in Calls \ {s} : SessionSame(t)
  <2>1. \A t \in Calls \ {s} : session'[t] = session[t]
    BY <1>1, <1>2, <1>5, CleanedKeeps
  <2> QED
    BY <1>2, <1>3, <1>4, <2>1 DEF SessionSame, callVars
<1>7. UNCHANGED pc /\ session[s].st \in {"backend", "network"}
  BY <1>2 DEF callVars
<1>8. AfterBackend(s, ok) = "gone" => net'[s] # "up" /\ (conn'[s] = "up" => failed'[s])
  BY <1>3, <1>4, <1>5
<1>9. /\ session' \in [Calls -> Sessions] /\ \A t \in Calls : Quietly(t)
      /\ SessionsOK'
  BY <1>1, <1>5, <1>6, <1>7, <1>8, CleanedQuiet
<1>10. Types'
  <2>1. aborted' \in [Calls -> BOOLEAN] /\ brokered' \in BOOLEAN
    BY <1>2, Zenon DEF Types, callVars, capVars
  <2> QED
    BY <1>2, <1>3, <1>4, <1>9, <2>1 DEF Types, callVars, capVars
<1> QED
  BY <1>2, <1>9, <1>10, SessionsMoveKeeps DEF SessionsMove, callVars, capVars

\* The network session is destroyed, or cannot be.
LEMMA DestroyNetworkStep ==
    ASSUME IInv, NEW s \in Calls, DestroyNetwork(s) PROVE IInv'
<1>1. /\ session[s].st = "network" /\ session' = Cleaned(s, "gone")
      /\ UNCHANGED <<callVars, capVars>> /\ Types
  BY DEF DestroyNetwork, IInv
<1>2. /\ net' \in [Calls -> {"none", "up", "lost"}]
      /\ conn' \in [Calls -> {"none", "connecting", "up"}]
      /\ failed' \in [Calls -> BOOLEAN]
      /\ net'[s] # "up" /\ (conn'[s] = "up" => failed'[s])
      /\ \A t \in Calls \ {s} : net'[t] = net[t] /\ conn'[t] = conn[t] /\ failed'[t] = failed[t]
  <2>1. CASE /\ net' = [net EXCEPT ![s] = "none"] /\ conn' = [conn EXCEPT ![s] = "none"]
             /\ UNCHANGED failed
    BY <1>1, <2>1 DEF Types
  <2>2. CASE /\ net' = [net EXCEPT ![s] = "lost"] /\ failed' = [failed EXCEPT ![s] = TRUE]
             /\ UNCHANGED conn
    BY <1>1, <2>2 DEF Types
  <2> QED
    BY <2>1, <2>2 DEF DestroyNetwork
<1>3. \A t \in Calls \ {s} : SessionSame(t)
  <2>1. \A t \in Calls \ {s} : session'[t] = session[t]
    BY <1>1, CleanedKeeps
  <2> QED
    BY <1>1, <1>2, <2>1 DEF SessionSame, callVars
<1>4. UNCHANGED pc /\ session[s].st \in {"backend", "network"}
  BY <1>1 DEF callVars
<1>5. /\ session' \in [Calls -> Sessions] /\ \A t \in Calls : Quietly(t)
      /\ SessionsOK'
  BY <1>1, <1>2, <1>3, <1>4, CleanedQuiet
<1>6. Types'
  <2>1. aborted' \in [Calls -> BOOLEAN] /\ brokered' \in BOOLEAN
    BY <1>1, Zenon DEF Types, callVars, capVars
  <2> QED
    BY <1>1, <1>2, <1>5, <2>1 DEF Types, callVars, capVars
<1> QED
  BY <1>1, <1>5, <1>6, SessionsMoveKeeps DEF SessionsMove, callVars, capVars

\* What the user of a session may change in its record.
Touches(s, r) ==
    /\ r \in Sessions
    /\ r.st = session[s].st /\ r.busy = session[s].busy /\ r.listens = session[s].listens
    /\ r.child # session[s].child => r.st = "open"
    /\ r.poisoned => session[s].poisoned \/ session[s].busy

\* Such a change is quiet, and keeps what is said of sessions.
LEMMA TouchQuiet ==
    ASSUME IInv, NEW s \in Calls, NEW r, Touches(s, r), session' = [session EXCEPT ![s] = r],
           UNCHANGED <<pc, conn, net, failed>>
    PROVE  /\ session' \in [Calls -> Sessions]
           /\ \A t \in Calls : Quietly(t)
           /\ SessionsOK'
<1>1. /\ session' \in [Calls -> Sessions] /\ session'[s] = r
      /\ \A t \in Calls \ {s} : session'[t] = session[t]
  BY DEF IInv, Types, Touches
<1>2. ASSUME NEW t \in Calls PROVE Quietly(t) /\ SessionOK(t)'
  <2>1. SessionOK(t)
    BY DEF IInv, SessionsOK
  <2>2. CASE t = s
    BY <1>1, <2>1, <2>2 DEF Quietly, InTable, SessionOK, Touches
  <2>3. CASE t # s
    <3>1. SessionSame(t)
      BY <1>1, <2>3 DEF SessionSame
    <3> QED
      BY <2>1, <3>1, SessionFrame DEF SessionSame, Quietly, InTable
  <2> QED
    BY <2>2, <2>3
<1> QED
  BY <1>1, <1>2 DEF SessionsOK

\* A session that nobody uses expires.
LEMMA ExpireStep ==
    ASSUME IInv, NEW s \in Calls, Expire(s) PROVE IInv'
<1> DEFINE r == [session[s] EXCEPT !.expired = TRUE]
<1>1. Touches(s, r) /\ session' = [session EXCEPT ![s] = r]
  BY ZenonT(40) DEF Expire, Touches, IInv, Types, Sessions
<1> HIDE DEF r
<1>2. /\ session' \in [Calls -> Sessions] /\ \A t \in Calls : Quietly(t)
      /\ SessionsOK'
  BY <1>1, TouchQuiet DEF Expire, callVars
<1>3. Types'
  BY <1>2, TypesKept DEF IInv, Expire
<1> QED
  BY <1>2, <1>3, SessionsMoveKeeps DEF Expire, SessionsMove, callVars, capVars

\* A call that runs has a session.
LEMMA RunningHasSession ==
    ASSUME IInv, NEW c \in Calls, pc[c] \in Users
    PROVE  /\ use[c] \in Calls /\ session[use[c]] \in Sessions
           /\ session[use[c]].st # "absent"
           /\ InTable(use[c]) => session[use[c]].busy
BY NoneAssumption DEF IInv, Types, CallsOK, CallOK

\* The delegated task creates its child.
LEMMA BindStep ==
    ASSUME IInv, NEW c \in Calls, Bind(c) PROVE IInv'
<1> DEFINE s == use[c]
           r == [session[s] EXCEPT !.child = c]
<1>1. s \in Calls /\ session[s] \in Sessions /\ session[s].st = "open"
  BY RunningHasSession DEF Bind, Users, Driving
<1>2. Touches(s, r) /\ session' = [session EXCEPT ![s] = r]
  BY <1>1 DEF Bind, Touches, Sessions
<1> HIDE DEF r
<1>3. /\ session' \in [Calls -> Sessions] /\ \A t \in Calls : Quietly(t)
      /\ SessionsOK'
  BY <1>1, <1>2, TouchQuiet DEF Bind, callVars
<1>4. Types'
  BY <1>3, TypesKept DEF IInv, Bind
<1> QED
  BY <1>3, <1>4, SessionsMoveKeeps DEF Bind, SessionsMove, callVars, capVars

\* A tool call of the child goes to the backend.
LEMMA ChildOperationStep ==
    ASSUME IInv, NEW c \in Calls, ChildOperation(c) PROVE IInv'
<1> DEFINE s == use[c]
           r == [session[s] EXCEPT !.executing = TRUE]
<1>1. s \in Calls /\ session[s] \in Sessions
  BY RunningHasSession DEF ChildOperation, MayExecute, Users, Driving
<1>2. Touches(s, r) /\ session' = [session EXCEPT ![s] = r]
  BY <1>1 DEF ChildOperation, Touches, Sessions
<1> HIDE DEF r
<1>3. /\ session' \in [Calls -> Sessions] /\ \A t \in Calls : Quietly(t)
      /\ SessionsOK'
  BY <1>1, <1>2, TouchQuiet DEF ChildOperation, callVars
<1>4. Types'
  BY <1>3, TypesKept DEF IInv, ChildOperation
<1> QED
  BY <1>3, <1>4, SessionsMoveKeeps DEF ChildOperation, SessionsMove, callVars, capVars

\* The preflight of the child, which may fail the call.
LEMMA ChildPreflightStep ==
    ASSUME IInv, NEW c \in Calls, ChildPreflight(c) PROVE IInv'
<1> DEFINE s == use[c]
           r == [session[s] EXCEPT !.preflight = TRUE]
<1>1. s \in Calls /\ session[s] \in Sessions
  BY RunningHasSession DEF ChildPreflight, MayExecute, Users, Driving
<1>2. UNCHANGED <<pc, use, aborted, outcome, waits, conn, net, failed, capVars>>
  BY DEF ChildPreflight
<1>3. CASE session' = [session EXCEPT ![s].preflight = TRUE] /\ UNCHANGED job
  <2>1. Touches(s, r) /\ session' = [session EXCEPT ![s] = r]
    BY <1>1, <1>3 DEF Touches, Sessions
  <2> HIDE DEF r
  <2>2. /\ session' \in [Calls -> Sessions] /\ \A t \in Calls : Quietly(t)
        /\ SessionsOK'
    BY <1>1, <1>2, <2>1, TouchQuiet
  <2>3. Types'
    BY <1>2, <1>3, <2>2, TypesKept DEF IInv, callVars
  <2> QED
    BY <1>2, <2>2, <2>3, SessionsMoveKeeps DEF SessionsMove, capVars
<1>4. CASE job' = [job EXCEPT ![c].err = TRUE] /\ UNCHANGED session
  <2>1. \A t \in Calls : Quietly(t) /\ SessionSame(t)
    BY <1>2, <1>4 DEF Quietly, InTable, SessionSame
  <2>2. SessionsOK'
    BY <2>1, SessionFrame DEF IInv, SessionsOK
  <2>3. Types'
    <3>1. aborted' \in [Calls -> BOOLEAN] /\ failed' \in [Calls -> BOOLEAN] /\ brokered' \in BOOLEAN
      BY <1>2, Zenon DEF IInv, Types, capVars
    <3>2. job' \in [Calls -> Jobs]
      <4>1. job \in [Calls -> Jobs] /\ job[c] \in Jobs
        BY DEF IInv, Types
      <4>2. [job[c] EXCEPT !.err = TRUE] \in Jobs
        BY <4>1 DEF Jobs
      <4> QED
        BY <1>4, <4>1, <4>2
    <3> QED
      BY <1>2, <1>4, <3>1, <3>2 DEF IInv, Types, capVars
  <2> QED
    BY <1>2, <2>1, <2>2, <2>3, SessionsMoveKeeps DEF SessionsMove, capVars
<1> QED
  BY <1>3, <1>4 DEF ChildPreflight

\* An operation of the child is answered.
LEMMA ChildAnswerStep ==
    ASSUME IInv, NEW c \in Calls, ChildAnswer(c) PROVE IInv'
<1> DEFINE s == use[c]
<1>1. s \in Calls /\ session[s] \in Sessions
  BY RunningHasSession DEF ChildAnswer, Users, Driving
<1>2. PICK a \in Answered(c) : session' = a[1]
  BY DEF ChildAnswer
<1>3. /\ a[1] \in [Calls -> Sessions]
      /\ \A t \in Calls \ {s} : a[1][t] = session[t]
      /\ a[1][s].st = session[s].st /\ a[1][s].busy = session[s].busy
      /\ a[1][s].child = session[s].child /\ a[1][s].listens = session[s].listens
      /\ a[1][s].poisoned => session[s].poisoned \/ Owned(c, s)
  BY <1>1, AnsweredKeeps DEF IInv
<1>4. Touches(s, a[1][s])
  BY <1>1, <1>3 DEF Touches, Owned
<1>5. session' = [session EXCEPT ![s] = a[1][s]]
  BY <1>1, <1>2, <1>3 DEF IInv, Types
<1>6. /\ session' \in [Calls -> Sessions] /\ \A t \in Calls : Quietly(t)
      /\ SessionsOK'
  BY <1>1, <1>4, <1>5, TouchQuiet DEF ChildAnswer, callVars
<1>7. Types'
  BY <1>6, TypesKept DEF IInv, ChildAnswer
<1> QED
  BY <1>6, <1>7, SessionsMoveKeeps DEF ChildAnswer, SessionsMove, callVars, capVars

\* The socket of a launched browser connects: its session is in the table.
LEMMA ConnectStep ==
    ASSUME IInv, NEW c \in Calls, Connect(c) PROVE IInv'
<1>1. /\ conn' = [conn EXCEPT ![c] = "up"] /\ conn' \in [Calls -> {"none", "connecting", "up"}]
      /\ UNCHANGED <<callVars, session, net, failed, capVars>>
  BY DEF Connect, IInv, Types
<1>2. session[c].st \notin {"absent", "gone"}
  BY RunningHasSession DEF Connect, IInv, CallsOK, CallOK, Users, SessionsOK, SessionOK
<1>3. ASSUME NEW t \in Calls PROVE Quietly(t) /\ SessionOK(t)'
  <2>1. SessionOK(t)
    BY DEF IInv, SessionsOK
  <2>2. CASE t = c
    BY <1>1, <1>2, <2>1, <2>2 DEF Quietly, InTable, SessionOK, callVars
  <2>3. CASE t # c
    <3>1. SessionSame(t)
      BY <1>1, <2>3 DEF SessionSame, callVars, IInv, Types
    <3> QED
      BY <2>1, <3>1, SessionFrame DEF SessionSame, Quietly, InTable
  <2> QED
    BY <2>2, <2>3
<1>4. Types'
  <2>1. aborted' \in [Calls -> BOOLEAN] /\ failed' \in [Calls -> BOOLEAN] /\ brokered' \in BOOLEAN
    BY <1>1, Zenon DEF IInv, Types, callVars, capVars
  <2> QED
    BY <1>1, <2>1 DEF IInv, Types, callVars, capVars
<1>5. SessionsOK'
  BY <1>3 DEF SessionsOK
<1> QED
  BY <1>1, <1>3, <1>4, <1>5, SessionsMoveKeeps DEF SessionsMove, callVars, capVars

-----------------------------------------------------------------------------
(* Steps in which a call moves.                                            *)

SameCall(d) ==
    /\ pc'[d] = pc[d] /\ use'[d] = use[d] /\ outcome'[d] = outcome[d] /\ aborted'[d] = aborted[d]
    /\ d \in begins' <=> d \in begins

\* No other call uses the session t.
Exclusive(c, t) == \A d \in Calls \ {c} : pc[d] \in Users => use[d] # t

\* Call c moves; a session that does not go its way quietly is nobody else's.
Moves(c) ==
    /\ \A d \in Calls \ {c} : SameCall(d)
    /\ \A t \in Calls : Quietly(t) \/ Exclusive(c, t)
    /\ \A t \in Calls : SessionSame(t) \/ SessionOK(t)'
    /\ CallOK(c)'
    /\ pc'[c] \in Users => Exclusive(c, use'[c])

\* Then what is said of calls and sessions is kept.
LEMMA MovesKeep ==
    ASSUME IInv, NEW c \in Calls, Moves(c) PROVE CallsOK' /\ SessionsOK' /\ OneUser'
<1>1. ASSUME NEW d \in Calls PROVE CallOK(d)'
  <2>1. CASE d = c
    BY <2>1 DEF Moves
  <2>2. CASE d # c
    <3>1. CallOK(d) /\ SameCall(d) /\ (pc[d] \in Users => use[d] \in Calls)
      BY <2>2, NoneAssumption DEF IInv, CallsOK, CallOK, Types, Moves
    <3>2. CASE pc[d] \in Users
      <4>1. Quietly(use[d])
        BY <2>2, <3>1, <3>2 DEF Moves, Exclusive
      <4> QED
        BY <3>1, <3>2, <4>1 DEF SameCall, Quietly, CallOK
    <3>3. CASE pc[d] \notin Users
      BY <3>1, <3>3 DEF SameCall, CallOK, Users, Driving
    <3> QED
      BY <3>2, <3>3
  <2> QED
    BY <2>1, <2>2
<1>2. ASSUME NEW t \in Calls PROVE SessionOK(t)'
  BY SessionFrame DEF Moves, IInv, SessionsOK
<1>3. OneUser'
  BY DEF IInv, OneUser, Moves, SameCall, Exclusive
<1> QED
  BY <1>1, <1>2, <1>3 DEF CallsOK, SessionsOK

\* A session is its user's alone; one that is not there yet, or is kept, is nobody's.
LEMMA SessionsAreExclusive ==
    ASSUME IInv, NEW c \in Calls
    PROVE  /\ pc[c] \in Users => Exclusive(c, use[c])
           /\ \A t \in Calls :
                 session[t].st = "absent" \/ (InTable(t) /\ ~session[t].busy) => Exclusive(c, t)
BY DEF IInv, OneUser, CallsOK, CallOK, Exclusive

\* What holds of a step of c that leaves the sessions as they are.
OnlyCall(c) ==
    /\ UNCHANGED session
    /\ \A d \in Calls \ {c} : SameCall(d)
    /\ \A t \in Calls \ {c} : SessionSame(t)
    /\ CallOK(c)' /\ SessionOK(c)' /\ pc'[c] \notin Users

\* Such a step is one of those that keep the invariant.
LEMMA OnlyCallMoves ==
    ASSUME NEW c \in Calls, OnlyCall(c) PROVE Moves(c)
BY DEF OnlyCall, Moves, Quietly, InTable

\* Nothing is said of the sessions of a plugin that is not being disposed of.
LEMMA NotDisposing ==
    ASSUME ~Disposing, UNCHANGED disposal PROVE DisposeOK'
BY DEF Disposing, DisposeOK

\* The call is over: its variables have their types, those of other calls are the same.
LEMMA ReturnMoves ==
    ASSUME Types, NEW c \in Calls, NEW r \in {"none", "denied", "PASS", "other"}, Return(c, r)
    PROVE  /\ pc' \in [Calls -> Beginning \cup Driving \cup {"idle", "done"}]
           /\ job' \in [Calls -> Jobs] /\ use' \in [Calls -> Calls \cup {None}]
           /\ aborted' \in [Calls -> BOOLEAN]
           /\ outcome' \in [Calls -> {"none", "denied", "PASS", "other"}]
           /\ pc'[c] = "done" /\ use'[c] = None
           /\ \A d \in Calls \ {c} : /\ pc'[d] = pc[d] /\ use'[d] = use[d]
                                    /\ outcome'[d] = outcome[d] /\ aborted'[d] = aborted[d]
BY DEF Types, Return, GoTo, Jobs, NoJob

\* A refused call is over, and dispose does not wait for it any more.
LEMMA RefuseMoves ==
    ASSUME Types, NEW c \in Calls, Refuse(c),
           UNCHANGED <<waits, brokered, disposal>>, session' \in [Calls -> Sessions],
           conn' \in [Calls -> {"none", "connecting", "up"}],
           net' \in [Calls -> {"none", "up", "lost"}], failed' \in [Calls -> BOOLEAN]
    PROVE  /\ Types'
           /\ pc'[c] = "done" /\ CallOK(c)' /\ \A d \in Calls \ {c} : SameCall(d)
           /\ begins' \subseteq begins
<1>1. Return(c, "denied") /\ begins' = begins \ {c}
  BY DEF Refuse, Settled
<1>2. brokered' \in BOOLEAN
  BY Zenon DEF Types
<1>3. Types'
  BY <1>1, <1>2, ReturnMoves DEF Types
<1>4. pc'[c] = "done" /\ use'[c] = None /\ \A d \in Calls \ {c} : SameCall(d)
  BY <1>1, ReturnMoves DEF SameCall
<1>5. CallOK(c)'
  BY <1>1, <1>4 DEF CallOK, Users, Driving, Beginning, Provisioning
<1> QED
  BY <1>1, <1>3, <1>4, <1>5

\* A call begins.
LEMMA BeginStep ==
    ASSUME IInv, NEW c \in Calls, NEW t \in (Calls \ {c}) \cup {None}, Begin(c, t) PROVE IInv'
<1>1. /\ pc[c] = "idle" /\ pc' = [pc EXCEPT ![c] = "queued"] /\ begins' = begins \cup {c}
      /\ UNCHANGED <<use, aborted, outcome, waits, sessionVars, brokered, pendingSessions, disposal>>
      /\ ~Disposing /\ Types
  BY DEF Begin, GoTo, IInv
<1>2. Types'
  <2>1. aborted' \in [Calls -> BOOLEAN] /\ failed' \in [Calls -> BOOLEAN] /\ brokered' \in BOOLEAN
    BY <1>1, Zenon DEF Types, sessionVars
  <2>2. job' \in [Calls -> Jobs]
    BY DEF Begin, IInv, Types, Jobs
  <2> QED
    BY <1>1, <2>1, <2>2 DEF Types, sessionVars, Beginning
<1>3. CallOK(c) /\ SessionOK(c)
  BY DEF IInv, CallsOK, SessionsOK
<1>4. pc'[c] = "queued" /\ \A d \in Calls \ {c} : pc'[d] = pc[d]
  BY <1>1 DEF Types
<1>5. CallOK(c)' /\ SessionOK(c)' /\ pc'[c] \notin Users
  BY <1>1, <1>3, <1>4
     DEF CallOK, SessionOK, InTable, sessionVars, Users, Driving, Beginning, Provisioning
<1>6. OnlyCall(c)
  BY <1>1, <1>4, <1>5 DEF OnlyCall, SameCall, SessionSame, sessionVars
<1>7. CallsOK' /\ SessionsOK' /\ OneUser'
  BY <1>6, OnlyCallMoves, MovesKeep
<1>8. DisposeOK'
  BY <1>1, NotDisposing
<1>9. NoMorePlaces
  BY <1>1, <1>4 DEF NoMorePlaces, InTable, sessionVars, Provisioning
<1> QED
  BY <1>2, <1>7, <1>8, <1>9, PlacesKept DEF IInv

\* A refused call that has no place reserved.
LEMMA RefusedStep ==
    ASSUME IInv, NEW c \in Calls, pc[c] \in {"queued", "reaping", "failing"}, Refuse(c),
           UNCHANGED <<waits, sessionVars, brokered, pendingSessions, disposal>>
    PROVE  IInv'
<1>1. failed' \in [Calls -> BOOLEAN]
  BY Zenon DEF IInv, Types, sessionVars
<1>2. /\ Types' /\ pc'[c] = "done" /\ CallOK(c)' /\ \A d \in Calls \ {c} : SameCall(d)
      /\ begins' \subseteq begins
  BY <1>1, RefuseMoves DEF IInv, Types, sessionVars
<1>3. SessionOK(c)' /\ pc'[c] \notin Users
  <2>1. SessionOK(c)
    BY DEF IInv, SessionsOK
  <2> QED
    BY <1>2, <2>1 DEF SessionOK, InTable, sessionVars, Users, Driving, Provisioning
<1>4. OnlyCall(c)
  BY <1>2, <1>3 DEF OnlyCall, SameCall, SessionSame, sessionVars
<1>5. CallsOK' /\ SessionsOK' /\ OneUser'
  BY <1>4, OnlyCallMoves, MovesKeep
<1>6. DisposeOK'
  BY <1>2, DisposeKept DEF IInv, sessionVars, InTable
<1>7. NoMorePlaces
  BY <1>2 DEF NoMorePlaces, InTable, sessionVars, Provisioning, SameCall
<1> QED
  BY <1>2, <1>5, <1>6, <1>7, PlacesKept DEF IInv

\* A call goes on to reap(), or finds itself cancelled or the plugin disposed of.
LEMMA EnterStep ==
    ASSUME IInv, NEW c \in Calls, Enter(c) PROVE IInv'
<1>1. pc[c] = "queued" /\ UNCHANGED <<waits, sessionVars, brokered, pendingSessions, disposal>>
  BY DEF Enter
<1>2. CASE Refuse(c)
  BY <1>1, <1>2, RefusedStep
<1>3. CASE GoTo(c, "reaping") /\ UNCHANGED <<job, use, aborted, outcome, begins>>
  <2>1. Types'
    <3>1. aborted' \in [Calls -> BOOLEAN] /\ failed' \in [Calls -> BOOLEAN] /\ brokered' \in BOOLEAN
      BY <1>1, <1>3, Zenon DEF IInv, Types, sessionVars
    <3> QED
      BY <1>1, <1>3, <3>1 DEF IInv, Types, sessionVars, GoTo, Beginning
  <2>2. CallOK(c) /\ SessionOK(c)
    BY DEF IInv, CallsOK, SessionsOK
  <2>3. pc'[c] = "reaping" /\ \A d \in Calls \ {c} : pc'[d] = pc[d]
    BY <1>3 DEF GoTo, IInv, Types
  <2>4. CallOK(c)' /\ SessionOK(c)' /\ pc'[c] \notin Users
    BY <1>1, <1>3, <2>2, <2>3
       DEF CallOK, SessionOK, InTable, sessionVars, Users, Driving, Beginning, Provisioning
  <2>5. OnlyCall(c)
    BY <1>1, <1>3, <2>3, <2>4 DEF OnlyCall, SameCall, SessionSame, sessionVars
  <2>6. CallsOK' /\ SessionsOK' /\ OneUser'
    BY <2>5, OnlyCallMoves, MovesKeep
  <2>7. DisposeOK'
    BY <1>1, <1>3, DisposeKept DEF IInv, sessionVars, InTable
  <2>8. NoMorePlaces
    BY <1>1, <2>3 DEF NoMorePlaces, InTable, sessionVars, Provisioning
  <2> QED
    BY <2>1, <2>6, <2>7, <2>8, PlacesKept DEF IInv
<1> QED
  BY <1>2, <1>3 DEF Enter

\* A cleanup that reap() awaited is over.
LEMMA ReapedOneStep ==
    ASSUME IInv, NEW c \in Calls, ReapedOne(c) PROVE IInv'
<1>1. /\ UNCHANGED <<pc, use, aborted, outcome, sessionVars, capVars>>
      /\ waits[c] \in Calls
      /\ waits' = [waits EXCEPT ![c] = None]
      /\ job' = [job EXCEPT ![c].err = @ \/ failed[waits[c]]]
  BY DEF ReapedOne, IInv, Types
<1>2. \A t \in Calls : Quietly(t) /\ SessionSame(t)
  BY <1>1 DEF Quietly, InTable, SessionSame, sessionVars
<1>3. SessionsOK'
  BY <1>2, SessionFrame DEF IInv, SessionsOK
<1>4. Types'
  <2>1. aborted' \in [Calls -> BOOLEAN] /\ failed' \in [Calls -> BOOLEAN] /\ brokered' \in BOOLEAN
    BY <1>1, Zenon DEF IInv, Types, capVars, sessionVars
  <2>2. job' \in [Calls -> Jobs]
    <3>1. PICK q \in BOOLEAN : q = (job[c].err \/ failed[waits[c]])
      BY Zenon
    <3>2. job' = [job EXCEPT ![c].err = q]
      BY <1>1, <3>1, Zenon
    <3> QED
      BY <3>2 DEF IInv, Types, Jobs
  <2> QED
    BY <1>1, <2>1, <2>2 DEF IInv, Types, capVars, sessionVars
<1> QED
  BY <1>1, <1>2, <1>3, <1>4, SessionsMoveKeeps DEF SessionsMove, capVars

\* beginSession throws when the session it gave up is closed.
LEMMA FailedStep ==
    ASSUME IInv, NEW c \in Calls, Failed(c) PROVE IInv'
BY RefusedStep DEF Failed

\* A call that has closed its session reports.
LEMMA ReportStep ==
    ASSUME IInv, NEW c \in Calls, Report(c) PROVE IInv'
<1>1. pc[c] = "closing" /\ UNCHANGED <<waits, sessionVars, capVars>>
  BY DEF Report
<1>2. PICK p : Return(c, Result(p))
  BY DEF Report
<1>3. Result(p) \in {"none", "denied", "PASS", "other"}
  BY DEF Result
<1>4. /\ pc' \in [Calls -> Beginning \cup Driving \cup {"idle", "done"}]
      /\ job' \in [Calls -> Jobs] /\ use' \in [Calls -> Calls \cup {None}]
      /\ aborted' \in [Calls -> BOOLEAN]
      /\ outcome' \in [Calls -> {"none", "denied", "PASS", "other"}]
      /\ pc'[c] = "done" /\ use'[c] = None
      /\ \A d \in Calls \ {c} : /\ pc'[d] = pc[d] /\ use'[d] = use[d]
                               /\ outcome'[d] = outcome[d] /\ aborted'[d] = aborted[d]
  BY <1>2, <1>3, ReturnMoves DEF IInv
<1>5. Types'
  <2>1. failed' \in [Calls -> BOOLEAN] /\ brokered' \in BOOLEAN
    BY <1>1, Zenon DEF IInv, Types, sessionVars, capVars
  <2> QED
    BY <1>1, <1>4, <2>1 DEF IInv, Types, sessionVars, capVars
<1>6. CallOK(c) /\ SessionOK(c)
  BY DEF IInv, CallsOK, SessionsOK
<1>7. CallOK(c)' /\ SessionOK(c)' /\ pc'[c] \notin Users
  BY <1>1, <1>4, <1>6 DEF CallOK, SessionOK, InTable, sessionVars, capVars, Users, Driving,
                          Beginning, Provisioning
<1>8. OnlyCall(c)
  BY <1>1, <1>4, <1>7 DEF OnlyCall, SameCall, SessionSame, sessionVars, capVars
<1>9. CallsOK' /\ SessionsOK' /\ OneUser'
  BY <1>8, OnlyCallMoves, MovesKeep
<1>10. DisposeOK'
  BY <1>1, DisposeKept DEF IInv, sessionVars, capVars, InTable
<1>11. NoMorePlaces
  BY <1>1, <1>4 DEF NoMorePlaces, InTable, sessionVars, capVars, Provisioning
<1> QED
  BY <1>5, <1>9, <1>10, <1>11, PlacesKept DEF IInv

-----------------------------------------------------------------------------
(* Places are reserved, given back and handed over to the table.           *)

\* The table is the same but for s, which is added if it was not there.
Adds(s) == Table' = Table \cup {s}
Reserves(c) == Reserved' = Reserved \cup {c} /\ c \notin Reserved
GivesBack(c) == Reserved' = Reserved \ {c} /\ c \in Reserved

\* Within the limit a place can be reserved.
LEMMA PlaceReserved ==
    ASSUME PlacesOK, NEW c, Room, Reserves(c), Table' = Table,
           pendingSessions' = pendingSessions + 1
    PROVE  PlacesOK'
<1>1. Cardinality(Table) \in Nat /\ Cardinality(Reserved) \in Nat
  BY FS_CardinalityType DEF PlacesOK
<1>2. IsFiniteSet(Reserved') /\ Cardinality(Reserved') = Cardinality(Reserved) + 1
  BY FS_AddElement DEF PlacesOK, Reserves
<1> QED
  BY <1>1, <1>2, CapacityAssumption DEF PlacesOK, Room

\* A place is given back.
LEMMA PlaceGivenBack ==
    ASSUME PlacesOK, NEW c, GivesBack(c), Table' = Table, pendingSessions' = pendingSessions - 1
    PROVE  PlacesOK'
<1>1. Cardinality(Table) \in Nat /\ Cardinality(Reserved) \in Nat
  BY FS_CardinalityType DEF PlacesOK
<1>2. IsFiniteSet(Reserved') /\ Cardinality(Reserved') = Cardinality(Reserved) - 1
  BY FS_RemoveElement DEF PlacesOK, GivesBack
<1> QED
  BY <1>1, <1>2, CapacityAssumption DEF PlacesOK

\* The table has at most one session more.
LEMMA TableGrows ==
    ASSUME IsFiniteSet(Table), NEW c, Adds(c)
    PROVE  /\ IsFiniteSet(Table') /\ Cardinality(Table') <= Cardinality(Table) + 1
           /\ Cardinality(Table') \in Nat
<1>1. Cardinality(Table) \in Nat
  BY FS_CardinalityType
<1>2. /\ IsFiniteSet(Table')
      /\ Cardinality(Table') = Cardinality(Table) \/ Cardinality(Table') = Cardinality(Table) + 1
  BY FS_AddElement DEF Adds
<1> QED
  BY <1>1, <1>2

\* A place is handed over to the table.
LEMMA PlaceHandedOver ==
    ASSUME PlacesOK, NEW c, GivesBack(c), Adds(c), pendingSessions' = pendingSessions - 1
    PROVE  PlacesOK'
<1>1. Cardinality(Table) \in Nat /\ Cardinality(Reserved) \in Nat
  BY FS_CardinalityType DEF PlacesOK
<1>2. IsFiniteSet(Reserved') /\ Cardinality(Reserved') = Cardinality(Reserved) - 1
  BY FS_RemoveElement DEF PlacesOK, GivesBack
<1>3. /\ IsFiniteSet(Table') /\ Cardinality(Table') <= Cardinality(Table) + 1
      /\ Cardinality(Table') \in Nat
  BY TableGrows DEF PlacesOK
<1> QED
  BY <1>1, <1>2, <1>3, CapacityAssumption DEF PlacesOK

\* Within the limit a session can be added without a reservation.
LEMMA PlaceTaken ==
    ASSUME PlacesOK, NEW c, Room, Reserved' = Reserved, Adds(c), UNCHANGED pendingSessions
    PROVE  PlacesOK'
<1>1. Cardinality(Table) \in Nat /\ Cardinality(Reserved) \in Nat
  BY FS_CardinalityType DEF PlacesOK
<1>2. /\ IsFiniteSet(Table') /\ Cardinality(Table') <= Cardinality(Table) + 1
      /\ Cardinality(Table') \in Nat
  BY TableGrows DEF PlacesOK
<1> QED
  BY <1>1, <1>2, CapacityAssumption DEF PlacesOK, Room

\* The reservations when one call goes elsewhere.
LEMMA ReservedMoves ==
    ASSUME Types, NEW c \in Calls, \A d \in Calls \ {c} : pc'[d] = pc[d]
    PROVE  /\ pc[c] \notin Provisioning /\ pc'[c] \in Provisioning => Reserves(c)
           /\ pc[c] \in Provisioning /\ pc'[c] \notin Provisioning => GivesBack(c)
           /\ pc[c] \in Provisioning <=> pc'[c] \in Provisioning => Reserved' = Reserved
BY DEF Reserved, Reserves, GivesBack

\* A call asks the broker for a network session.
LEMMA CreateBrokeredStep ==
    ASSUME IInv, NEW c \in Calls, pc[c] = "reaping", ~Disposing, Room, GoTo(c, "creating"),
           pendingSessions' = pendingSessions + 1, UNCHANGED <<session, use, conn>>,
           UNCHANGED <<job, aborted, outcome, begins>>,
           UNCHANGED <<waits, net, failed, brokered, disposal>>
    PROVE  IInv'
<1>1. Types'
  <2>1. aborted' \in [Calls -> BOOLEAN] /\ failed' \in [Calls -> BOOLEAN] /\ brokered' \in BOOLEAN
    BY Zenon DEF IInv, Types
  <2> QED
    BY <2>1 DEF IInv, Types, GoTo, Beginning, Provisioning
<1>2. CallOK(c) /\ SessionOK(c)
  BY DEF IInv, CallsOK, SessionsOK
<1>3. pc'[c] = "creating" /\ \A d \in Calls \ {c} : pc'[d] = pc[d]
  BY DEF GoTo, IInv, Types
<1>4. CallOK(c)' /\ SessionOK(c)' /\ pc'[c] \notin Users
  BY <1>2, <1>3 DEF CallOK, SessionOK, InTable, Users, Driving, Beginning, Provisioning
<1>5. OnlyCall(c)
  BY <1>3, <1>4 DEF OnlyCall, SameCall, SessionSame
<1>6. CallsOK' /\ SessionsOK' /\ OneUser'
  BY <1>5, OnlyCallMoves, MovesKeep
<1>7. DisposeOK'
  BY NotDisposing
<1>8. Reserves(c) /\ Table' = Table
  BY <1>3, ReservedMoves DEF IInv, Table, InTable, Provisioning
<1>9. PlacesOK'
  BY <1>8, PlaceReserved DEF IInv
<1> QED
  BY <1>1, <1>6, <1>7, <1>9 DEF IInv

\* The call c enters the table with a session of its own.
LEMMA AllocateMoves ==
    ASSUME IInv, NEW c \in Calls, pc[c] \in {"reaping", "launching"}, Allocate(c),
           UNCHANGED <<job, aborted, outcome, waits, net, failed, brokered, begins, disposal>>
    PROVE  /\ Types' /\ Moves(c) /\ Adds(c)
           /\ pc'[c] = "starting" /\ \A d \in Calls \ {c} : pc'[d] = pc[d]
<1> DEFINE new == [NoSession EXCEPT !.st = "open", !.busy = TRUE, !.listens = ListensTo(c, c)]
<1>1. new \in Sessions /\ new.st = "open" /\ new.busy
  BY DEF NoSession, Sessions, ListensTo
<1>2. session' = [session EXCEPT ![c] = new] /\ GoTo(c, "starting")
      /\ use' = [use EXCEPT ![c] = c]
      /\ conn' = [conn EXCEPT ![c] = IF brokered THEN "connecting" ELSE "up"]
  BY DEF Allocate
<1> HIDE DEF new
<1>3. /\ session' \in [Calls -> Sessions] /\ session'[c] = new
      /\ \A t \in Calls \ {c} : session'[t] = session[t]
      /\ pc' \in [Calls -> Beginning \cup Driving \cup {"idle", "done"}]
      /\ pc'[c] = "starting" /\ use'[c] = c
      /\ \A d \in Calls \ {c} : pc'[d] = pc[d] /\ use'[d] = use[d]
      /\ use' \in [Calls -> Calls \cup {None}]
  BY <1>1, <1>2 DEF IInv, Types, GoTo, Beginning
<1>4. /\ conn' \in [Calls -> {"none", "connecting", "up"}]
      /\ \A t \in Calls \ {c} : conn'[t] = conn[t]
  <2>1. PICK v \in {"connecting", "up"} : v = IF brokered THEN "connecting" ELSE "up"
    OBVIOUS
  <2>2. conn' = [conn EXCEPT ![c] = v]
    BY <1>2, <2>1, Zenon
  <2> QED
    BY <2>2 DEF IInv, Types
<1>5. Types'
  <2>1. aborted' \in [Calls -> BOOLEAN] /\ failed' \in [Calls -> BOOLEAN] /\ brokered' \in BOOLEAN
    BY Zenon DEF IInv, Types
  <2> QED
    BY <1>3, <1>4, <2>1 DEF IInv, Types
<1>6. CallOK(c) /\ SessionOK(c)
  BY DEF IInv, CallsOK, SessionsOK
<1>7. session[c].st = "absent"
  BY <1>6 DEF SessionOK, Provisioning
<1>8. CallOK(c)' /\ SessionOK(c)'
  BY <1>1, <1>3, <1>6, NoneAssumption
     DEF CallOK, SessionOK, InTable, Users, Driving, Beginning, Provisioning
<1>9. Exclusive(c, c)
  BY <1>7, SessionsAreExclusive
<1>10. Moves(c)
  <2>1. \A d \in Calls \ {c} : SameCall(d) /\ Quietly(d) /\ SessionSame(d)
    BY <1>3, <1>4 DEF SameCall, Quietly, SessionSame, InTable
  <2> QED
    BY <1>3, <1>8, <1>9, <2>1 DEF Moves
<1>11. Adds(c)
  BY <1>1, <1>3 DEF Adds, Table, InTable
<1> QED
  BY <1>3, <1>5, <1>10, <1>11

\* A call creates a local browser.
LEMMA CreateLocalStep ==
    ASSUME IInv, NEW c \in Calls, pc[c] = "reaping", ~Disposing, Room, Allocate(c),
           UNCHANGED pendingSessions,
           UNCHANGED <<job, aborted, outcome, begins>>,
           UNCHANGED <<waits, net, failed, brokered, disposal>>
    PROVE  IInv'
<1>1. /\ Types' /\ Moves(c) /\ Adds(c)
      /\ pc'[c] = "starting" /\ \A d \in Calls \ {c} : pc'[d] = pc[d]
  BY AllocateMoves
<1>2. CallsOK' /\ SessionsOK' /\ OneUser'
  BY <1>1, MovesKeep
<1>3. Reserved' = Reserved
  BY <1>1, ReservedMoves DEF IInv, Provisioning
<1>4. PlacesOK'
  BY <1>1, <1>3, PlaceTaken DEF IInv
<1>5. DisposeOK'
  BY NotDisposing
<1> QED
  BY <1>1, <1>2, <1>4, <1>5 DEF IInv

\* The browser at the broker is launched, or is too late.
LEMMA LaunchedStep ==
    ASSUME IInv, NEW c \in Calls, Launched(c) PROVE IInv'
<1>1. /\ pc[c] = "launching"
      /\ UNCHANGED <<job, aborted, outcome, waits, net, failed, brokered, begins, disposal>>
  BY DEF Launched
<1>2. CASE ~Disposing /\ Allocate(c) /\ pendingSessions' = pendingSessions - 1
  <2>1. /\ Types' /\ Moves(c) /\ Adds(c)
        /\ pc'[c] = "starting" /\ \A d \in Calls \ {c} : pc'[d] = pc[d]
    BY <1>1, <1>2, AllocateMoves
  <2>2. CallsOK' /\ SessionsOK' /\ OneUser'
    BY <2>1, MovesKeep
  <2>3. GivesBack(c)
    BY <1>1, <2>1, ReservedMoves DEF IInv, Provisioning
  <2>4. PlacesOK'
    BY <1>2, <2>1, <2>3, PlaceHandedOver DEF IInv
  <2>5. DisposeOK'
    BY <1>1, <1>2, NotDisposing
  <2> QED
    BY <2>1, <2>2, <2>4, <2>5 DEF IInv
<1>3. CASE GoTo(c, "undoing") /\ UNCHANGED <<use, session, conn, pendingSessions>>
  <2>1. Types'
    <3>1. aborted' \in [Calls -> BOOLEAN] /\ failed' \in [Calls -> BOOLEAN] /\ brokered' \in BOOLEAN
      BY <1>1, Zenon DEF IInv, Types
    <3> QED
      BY <1>1, <1>3, <3>1 DEF IInv, Types, GoTo, Beginning, Provisioning
  <2>2. CallOK(c) /\ SessionOK(c)
    BY DEF IInv, CallsOK, SessionsOK
  <2>3. pc'[c] = "undoing" /\ \A d \in Calls \ {c} : pc'[d] = pc[d]
    BY <1>3 DEF GoTo, IInv, Types
  <2>4. CallOK(c)' /\ SessionOK(c)' /\ pc'[c] \notin Users
    BY <1>1, <1>3, <2>2, <2>3
       DEF CallOK, SessionOK, InTable, Users, Driving, Beginning, Provisioning
  <2>5. OnlyCall(c)
    BY <1>1, <1>3, <2>3, <2>4 DEF OnlyCall, SameCall, SessionSame
  <2>6. CallsOK' /\ SessionsOK' /\ OneUser'
    BY <2>5, OnlyCallMoves, MovesKeep
  <2>7. DisposeOK'
    BY <1>1, <1>3, DisposeKept DEF IInv, InTable
  <2>8. NoMorePlaces
    BY <1>1, <1>3, <2>3 DEF NoMorePlaces, InTable, Provisioning
  <2> QED
    BY <2>1, <2>6, <2>7, <2>8, PlacesKept DEF IInv
<1> QED
  BY <1>2, <1>3 DEF Launched

\* A call that is refused while it has a place reserved gives it back.
LEMMA RefusedWithPlace ==
    ASSUME IInv, NEW c \in Calls, pc[c] \in Provisioning, Refuse(c),
           pendingSessions' = FreedPlace, UNCHANGED <<waits, session, conn, brokered, disposal>>,
           NEW n \in {"none", "lost"}, net' = [net EXCEPT ![c] = n],
           failed' = failed \/ failed' = [failed EXCEPT ![c] = TRUE]
    PROVE  IInv'
<1>1. failed' \in [Calls -> BOOLEAN] /\ \A t \in Calls \ {c} : failed'[t] = failed[t]
  BY DEF IInv, Types
<1>2. /\ net' \in [Calls -> {"none", "up", "lost"}] /\ net'[c] # "up"
      /\ \A t \in Calls \ {c} : net'[t] = net[t]
  BY DEF IInv, Types
<1>3. /\ Types' /\ pc'[c] = "done" /\ CallOK(c)' /\ \A d \in Calls \ {c} : SameCall(d)
      /\ begins' \subseteq begins
  BY <1>1, <1>2, RefuseMoves DEF IInv, Types
<1>4. SessionOK(c)' /\ pc'[c] \notin Users
  <2>1. SessionOK(c)
    BY DEF IInv, SessionsOK
  <2> QED
    BY <1>2, <1>3, <2>1 DEF SessionOK, InTable, Users, Driving, Provisioning
<1>5. OnlyCall(c)
  BY <1>1, <1>2, <1>3, <1>4 DEF OnlyCall, SameCall, SessionSame
<1>6. CallsOK' /\ SessionsOK' /\ OneUser'
  BY <1>5, OnlyCallMoves, MovesKeep
<1>7. DisposeOK'
  BY <1>3, DisposeKept DEF IInv, InTable
<1>8. GivesBack(c) /\ Table' = Table
  BY <1>3, ReservedMoves DEF IInv, Table, InTable, Provisioning, SameCall
<1>9. PlacesOK'
  BY <1>8, PlaceGivenBack DEF IInv, FreedPlace
<1> QED
  BY <1>3, <1>6, <1>7, <1>9 DEF IInv

\* An unused network session is destroyed, or cannot be.
LEMMA UndoneStep ==
    ASSUME IInv, NEW c \in Calls, Undone(c) PROVE IInv'
<1>1. pc[c] \in Provisioning
  BY DEF Undone, Provisioning
<1>2. PICK n \in {"none", "lost"} :
        /\ net' = [net EXCEPT ![c] = n]
        /\ failed' = failed \/ failed' = [failed EXCEPT ![c] = TRUE]
  BY DEF Undone
<1> QED
  BY <1>1, <1>2, RefusedWithPlace DEF Undone

\* The broker answers to create.
LEMMA CreatedStep ==
    ASSUME IInv, NEW c \in Calls, Created(c) PROVE IInv'
<1>1. pc[c] = "creating" /\ UNCHANGED <<waits, session, conn, brokered, disposal>>
  BY DEF Created
<1>2. CASE /\ net' = [net EXCEPT ![c] = "up"]
           /\ GoTo(c, IF Disposing \/ aborted[c] THEN "undoing" ELSE "launching")
           /\ UNCHANGED <<failed, pendingSessions, job, use, aborted, outcome, begins>>
  <2>1. PICK p \in {"undoing", "launching"} : GoTo(c, p)
    BY <1>2
  <2>2. Types'
    <3>1. aborted' \in [Calls -> BOOLEAN] /\ failed' \in [Calls -> BOOLEAN] /\ brokered' \in BOOLEAN
      BY <1>1, <1>2, Zenon DEF IInv, Types
    <3> QED
      BY <1>1, <1>2, <2>1, <3>1 DEF IInv, Types, GoTo, Beginning, Provisioning
  <2>3. CallOK(c) /\ SessionOK(c)
    BY DEF IInv, CallsOK, SessionsOK
  <2>4. /\ pc'[c] = p /\ \A d \in Calls \ {c} : pc'[d] = pc[d] /\ net'[d] = net[d]
    BY <1>2, <2>1 DEF GoTo, IInv, Types
  <2>5. CallOK(c)' /\ SessionOK(c)' /\ pc'[c] \notin Users
    BY <1>1, <1>2, <2>3, <2>4
       DEF CallOK, SessionOK, InTable, Users, Driving, Beginning, Provisioning
  <2>6. OnlyCall(c)
    BY <1>1, <1>2, <2>4, <2>5 DEF OnlyCall, SameCall, SessionSame
  <2>7. CallsOK' /\ SessionsOK' /\ OneUser'
    BY <2>6, OnlyCallMoves, MovesKeep
  <2>8. DisposeOK'
    BY <1>1, <1>2, DisposeKept DEF IInv, InTable
  <2>9. NoMorePlaces
    BY <1>1, <1>2, <2>4 DEF NoMorePlaces, InTable, Provisioning
  <2> QED
    BY <2>2, <2>7, <2>8, <2>9, PlacesKept DEF IInv
<1>3. CASE /\ \E n \in {"none", "lost"} : net' = [net EXCEPT ![c] = n]
           /\ failed' = [failed EXCEPT ![c] = TRUE]
           /\ pendingSessions' = FreedPlace
           /\ Refuse(c)
  <2>1. PICK n \in {"none", "lost"} : net' = [net EXCEPT ![c] = n]
    BY <1>3
  <2>2. pc[c] \in Provisioning
    BY <1>1 DEF Provisioning
  <2> QED
    BY <1>1, <1>3, <2>1, <2>2, RefusedWithPlace
<1> QED
  BY <1>2, <1>3 DEF Created

-----------------------------------------------------------------------------
(* A call has a session: it takes it, gives it up, concludes.              *)

\* The session s is the next for the call c: nobody else uses it, it has not been
\* closed for good, and nothing but its record is changed with it.
Turns(c, s) ==
    /\ Exclusive(c, s) /\ session[s].st # "absent"
    /\ pc[c] \in {"reaping", "starting"} /\ (pc[c] = "starting" => s = c)
    /\ use' \in [Calls -> Calls \cup {None}] /\ use'[c] = s
    /\ \A d \in Calls \ {c} : use'[d] = use[d]
    /\ UNCHANGED <<job, aborted, outcome, waits, conn, net, failed, brokered, pendingSessions,
                   disposal>>

\* The call c takes the session: it runs.
LEMMA TakeStep ==
    ASSUME IInv, NEW c \in Calls, NEW s \in Calls, Turns(c, s), InTable(s), ~aborted[c],
           Take(c, s)
    PROVE  IInv' /\ pc'[c] = "running"
<1> DEFINE r == [session[s] EXCEPT !.busy = TRUE, !.listens = ListensTo(c, s),
                                   !.preflight = FALSE, !.expired = FALSE]
<1>1. /\ session' = [session EXCEPT ![s] = r]
      /\ begins' = begins \ {c} /\ pc' = [pc EXCEPT ![c] = "running"]
  BY DEF Take, Settled, GoTo, IInv, Types, Sessions
<1>2. /\ r \in Sessions /\ r.st = session[s].st /\ r.busy /\ r.listens = c
      /\ r.child = session[s].child /\ r.poisoned = session[s].poisoned
  <2>1. session[s] \in Sessions
    BY DEF IInv, Types
  <2> QED
    BY <2>1 DEF Sessions, ListensTo
<1> HIDE DEF r
<1>3. /\ session' \in [Calls -> Sessions] /\ session'[s] = r
      /\ \A t \in Calls \ {s} : session'[t] = session[t]
      /\ pc' \in [Calls -> Beginning \cup Driving \cup {"idle", "done"}]
      /\ pc'[c] = "running" /\ \A d \in Calls \ {c} : pc'[d] = pc[d]
  BY <1>1, <1>2 DEF IInv, Types, Driving
<1>4. Types'
  <2>1. aborted' \in [Calls -> BOOLEAN] /\ failed' \in [Calls -> BOOLEAN] /\ brokered' \in BOOLEAN
    BY Zenon DEF Turns, IInv, Types
  <2> QED
    BY <1>1, <1>3, <2>1 DEF Turns, IInv, Types
<1>5. CallOK(c) /\ SessionOK(c) /\ SessionOK(s)
  BY DEF IInv, CallsOK, SessionsOK
<1>6. CallOK(c)'
  BY <1>1, <1>2, <1>3, <1>5, NoneAssumption
     DEF Turns, CallOK, InTable, Users, Driving, Beginning, Provisioning
<1>7. SessionOK(s)'
  BY <1>2, <1>3, <1>5 DEF Turns, SessionOK, InTable, Provisioning
<1>8. SessionOK(c)'
  <2>1. CASE c = s
    BY <1>7, <2>1
  <2>2. CASE c # s
    BY <1>3, <1>5, <2>2 DEF Turns, SessionOK, InTable, Provisioning
  <2> QED
    BY <2>1, <2>2
<1>9. Moves(c)
  <2>1. \A d \in Calls \ {c} : SameCall(d)
    BY <1>1, <1>3 DEF Turns, SameCall
  <2>2. \A t \in Calls \ {s} : Quietly(t)
    BY <1>3 DEF Quietly, InTable
  <2>3. \A t \in Calls \ {s, c} : SessionSame(t)
    BY <1>3 DEF Turns, SessionSame
  <2> QED
    BY <1>6, <1>7, <1>8, <2>1, <2>2, <2>3 DEF Moves, Turns
<1>10. CallsOK' /\ SessionsOK' /\ OneUser'
  BY <1>9, MovesKeep
<1>11. \A t \in Calls : session'[t].st = session[t].st
  BY <1>2, <1>3
<1>12. DisposeOK'
  BY <1>1, <1>11, DisposeKept DEF Turns, IInv, InTable
<1>13. NoMorePlaces
  BY <1>3, <1>11 DEF Turns, NoMorePlaces, InTable, Provisioning
<1> QED
  BY <1>3, <1>4, <1>10, <1>12, <1>13, PlacesKept DEF IInv

\* The call c gives the session up: it is closed, if it is not closed yet.
LEMMA GiveUpStep ==
    ASSUME IInv, NEW c \in Calls, NEW s \in Calls, Turns(c, s), GiveUp(c, s)
    PROVE  IInv' /\ pc'[c] = "failing"
<1> DEFINE r == [session[s] EXCEPT !.busy = TRUE]
           f == [session EXCEPT ![s].busy = TRUE]
<1>1. /\ session' = CloseOwned(f, {s}) /\ begins' = begins /\ pc' = [pc EXCEPT ![c] = "failing"]
  BY DEF GiveUp, GivenUp, GoTo
<1>2. f = [session EXCEPT ![s] = r]
  BY DEF IInv, Types, Sessions
<1>3. /\ r \in Sessions /\ r.st = session[s].st /\ r.busy
      /\ r.child = session[s].child /\ r.poisoned = session[s].poisoned
  <2>1. session[s] \in Sessions
    BY DEF IInv, Types
  <2> QED
    BY <2>1 DEF Sessions
<1> HIDE DEF r
<1>4. f \in [Calls -> Sessions] /\ f[s] = r /\ \A t \in Calls \ {s} : f[t] = session[t]
  BY <1>2, <1>3, ZenonT(40) DEF IInv, Types
<1> HIDE DEF f
<1>5. /\ session' \in [Calls -> Sessions]
      /\ \A t \in Calls \ {s} : session'[t] = session[t]
      /\ session'[s].busy /\ session'[s].poisoned = session[s].poisoned
      /\ IF session[s].st = "open"
         THEN session'[s].st = "backend" /\ session'[s].child = None
         ELSE session'[s].st = session[s].st /\ session'[s].child = session[s].child
  BY <1>1, <1>3, <1>4, CloseOwnedKeeps
<1>6. /\ pc' \in [Calls -> Beginning \cup Driving \cup {"idle", "done"}]
      /\ pc'[c] = "failing" /\ \A d \in Calls \ {c} : pc'[d] = pc[d]
  BY <1>1 DEF IInv, Types, Beginning
<1>7. Types'
  <2>1. aborted' \in [Calls -> BOOLEAN] /\ failed' \in [Calls -> BOOLEAN] /\ brokered' \in BOOLEAN
    BY Zenon DEF Turns, IInv, Types
  <2> QED
    BY <1>1, <1>5, <1>6, <2>1 DEF Turns, IInv, Types
<1>8. CallOK(c) /\ SessionOK(c) /\ SessionOK(s)
  BY DEF IInv, CallsOK, SessionsOK
<1>9. CallOK(c)'
  BY <1>1, <1>5, <1>6, <1>8, NoneAssumption
     DEF Turns, CallOK, InTable, Users, Driving, Beginning, Provisioning
<1>10. SessionOK(s)'
  BY <1>5, <1>6, <1>8 DEF Turns, SessionOK, InTable, Provisioning
<1>11. SessionOK(c)'
  <2>1. CASE c = s
    BY <1>10, <2>1
  <2>2. CASE c # s
    BY <1>5, <1>6, <1>8, <2>2 DEF Turns, SessionOK, InTable, Provisioning
  <2> QED
    BY <2>1, <2>2
<1>12. Moves(c)
  <2>1. \A d \in Calls \ {c} : SameCall(d)
    BY <1>1, <1>6 DEF Turns, SameCall
  <2>2. \A t \in Calls \ {s} : Quietly(t)
    BY <1>5 DEF Quietly, InTable
  <2>3. \A t \in Calls \ {s, c} : SessionSame(t)
    BY <1>5, <1>6 DEF Turns, SessionSame
  <2> QED
    BY <1>9, <1>10, <1>11, <2>1, <2>2, <2>3 DEF Moves, Turns
<1>13. CallsOK' /\ SessionsOK' /\ OneUser'
  BY <1>12, MovesKeep
<1>14. \A t \in Calls : /\ session'[t].st = "open" => session[t].st = "open"
                        /\ InTable(t)' => InTable(t)
  BY <1>5 DEF InTable
<1>15. DisposeOK'
  BY <1>1, <1>14, DisposeKept DEF Turns, IInv
<1>16. NoMorePlaces
  BY <1>6, <1>14 DEF Turns, NoMorePlaces, Provisioning
<1> QED
  BY <1>6, <1>7, <1>13, <1>15, <1>16, PlacesKept DEF IInv

\* beginSession resumes a kept session, creates one, or throws.
LEMMA ProvisionStep ==
    ASSUME IInv, NEW c \in Calls, Provision(c) PROVE IInv'
<1>1. pc[c] = "reaping" /\ UNCHANGED <<waits, net, failed, brokered, disposal>>
  BY DEF Provision
<1>2. CASE \E t \in Calls : Resume(c, t)
  <2>1. PICK t \in Calls : Resume(c, t)
    BY <1>2
  <2>2. InTable(t) /\ ~session[t].busy
    BY <2>1 DEF Resume, Resumable
  <2>3. Turns(c, t)
    <3>1. Exclusive(c, t)
      BY <2>2, SessionsAreExclusive
    <3> QED
      BY <1>1, <2>1, <2>2, <3>1 DEF Turns, Resume, InTable, IInv, Types
  <2>4. CASE ~aborted[c] /\ Take(c, t)
    BY <2>2, <2>3, <2>4, TakeStep
  <2>5. CASE GiveUp(c, t)
    BY <2>3, <2>5, GiveUpStep
  <2> QED
    BY <2>1, <2>4, <2>5 DEF Resume
<1>3. CASE Create(c)
  <2>1. ~Disposing /\ Room /\ UNCHANGED <<job, aborted, outcome, begins>>
    BY <1>3 DEF Create
  <2>2. CASE brokered
    <3>1. /\ GoTo(c, "creating") /\ pendingSessions' = pendingSessions + 1
          /\ UNCHANGED <<session, use, conn>>
      BY <1>3, <2>2 DEF Create
    <3> QED
      BY <1>1, <2>1, <3>1, CreateBrokeredStep
  <2>3. CASE ~brokered
    <3>1. Allocate(c) /\ UNCHANGED pendingSessions
      BY <1>3, <2>3 DEF Create
    <3> QED
      BY <1>1, <2>1, <3>1, CreateLocalStep
  <2> QED
    BY <2>2, <2>3
<1>4. CASE Denied(c)
  <2>1. Refuse(c) /\ UNCHANGED <<session, conn, pendingSessions>>
    BY <1>4 DEF Denied
  <2>2. UNCHANGED <<waits, sessionVars, brokered, pendingSessions, disposal>>
    BY <1>1, <2>1 DEF sessionVars
  <2> QED
    BY <1>1, <2>1, <2>2, RefusedStep
<1> QED
  BY <1>2, <1>3, <1>4 DEF Provision

\* start() returns or throws.
LEMMA StartedStep ==
    ASSUME IInv, NEW c \in Calls, Started(c) PROVE IInv'
<1>1. /\ pc[c] = "starting"
      /\ UNCHANGED <<job, use, aborted, outcome, waits, conn, net, failed, brokered,
                     pendingSessions, disposal>>
  BY DEF Started
<1>2. use[c] = c /\ session[c].st # "absent" /\ Exclusive(c, c)
  BY <1>1, SessionsAreExclusive, RunningHasSession DEF IInv, CallsOK, CallOK, Users
<1>3. Turns(c, c)
  BY <1>1, <1>2 DEF Turns, IInv, Types
<1>4. CASE session[c].st = "open" /\ ~aborted[c] /\ Take(c, c)
  BY <1>3, <1>4, TakeStep DEF InTable
<1>5. CASE GiveUp(c, c)
  BY <1>3, <1>5, GiveUpStep
<1> QED
  BY <1>4, <1>5 DEF Started

\* What c has made of the sessions while it drives its own: the page may have become
\* unknown.
Worked(c, f) ==
    /\ pc[c] \in {"running", "checking"}
    /\ f \in [Calls -> Sessions] /\ \A t \in Calls \ {use[c]} : f[t] = session[t]
    /\ f[use[c]].st = session[use[c]].st /\ f[use[c]].busy = session[use[c]].busy
    /\ f[use[c]].child = session[use[c]].child /\ f[use[c]].listens = session[use[c]].listens
    /\ f[use[c]].poisoned => session[use[c]].poisoned \/ session[use[c]].busy

\* The frame of the steps at the end of a call.
EndFrame == UNCHANGED <<waits, conn, net, failed, capVars>>

\* Call c keeps its session for another call.
LEMMA KeepStep ==
    ASSUME IInv, NEW c \in Calls, NEW f, Worked(c, f), EndFrame,
           ~f[use[c]].poisoned, InTable(use[c]), session' = [f EXCEPT ![use[c]] = Released(@)],
           NEW passed, Return(c, Result(passed))
    PROVE  IInv' /\ pc'[c] = "done"
<1>0. PICK s \in Calls : s = use[c]
  BY RunningHasSession DEF Worked, Users, Driving
<1> DEFINE r == Released(f[s])
<1>1. session[s].st # "absent" /\ Exclusive(c, s) /\ ~f[s].poisoned /\ InTable(s)
  BY <1>0, RunningHasSession, SessionsAreExclusive DEF Worked, Users, Driving
<1>2. r \in Sessions /\ r.st = session[s].st /\ r.child = None /\ ~r.poisoned
  <2>1. f[s] \in Sessions
    BY <1>1 DEF Worked
  <2> QED
    BY <1>0, <1>1, <2>1 DEF Worked, Released, Sessions
<1>3. session' = [f EXCEPT ![s] = r]
  BY <1>0, <1>1 DEF Worked
<1> HIDE DEF r
<1>4. /\ session' \in [Calls -> Sessions] /\ session'[s] = r
      /\ \A t \in Calls \ {s} : session'[t] = session[t]
  BY <1>0, <1>1, <1>2, <1>3 DEF Worked
<1>5. Result(passed) \in {"none", "denied", "PASS", "other"}
  BY DEF Result
<1>6. /\ pc' \in [Calls -> Beginning \cup Driving \cup {"idle", "done"}]
      /\ job' \in [Calls -> Jobs] /\ use' \in [Calls -> Calls \cup {None}]
      /\ aborted' \in [Calls -> BOOLEAN]
      /\ outcome' \in [Calls -> {"none", "denied", "PASS", "other"}]
      /\ pc'[c] = "done" /\ use'[c] = None
      /\ \A d \in Calls \ {c} : /\ pc'[d] = pc[d] /\ use'[d] = use[d]
                               /\ outcome'[d] = outcome[d] /\ aborted'[d] = aborted[d]
  BY <1>5, ReturnMoves DEF IInv
<1>7. Types'
  <2>1. failed' \in [Calls -> BOOLEAN] /\ brokered' \in BOOLEAN
    BY Zenon DEF EndFrame, IInv, Types, capVars
  <2> QED
    BY <1>4, <1>6, <2>1 DEF EndFrame, IInv, Types, capVars
<1>8. CallOK(c) /\ SessionOK(c) /\ SessionOK(s)
  BY <1>1 DEF IInv, CallsOK, SessionsOK
<1>9. CallOK(c)'
  BY <1>6, <1>8 DEF Worked, EndFrame, capVars, CallOK, Users, Driving, Beginning, Provisioning
<1>10. SessionOK(s)'
  BY <1>1, <1>2, <1>4, <1>6, <1>8 DEF SessionOK, InTable, Provisioning
<1>11. SessionOK(c)'
  <2>1. CASE c = s
    BY <1>10, <2>1
  <2>2. CASE c # s
    BY <1>4, <1>6, <1>8, <2>2 DEF Worked, EndFrame, SessionOK, InTable, Provisioning
  <2> QED
    BY <2>1, <2>2
<1>12. Moves(c)
  <2>1. \A d \in Calls \ {c} : SameCall(d)
    BY <1>6 DEF EndFrame, capVars, SameCall
  <2>2. \A t \in Calls \ {s} : Quietly(t)
    BY <1>4 DEF Quietly, InTable
  <2>3. \A t \in Calls \ {s, c} : SessionSame(t)
    BY <1>4, <1>6 DEF EndFrame, SessionSame
  <2>4. pc'[c] \notin Users
    BY <1>6 DEF Users, Driving
  <2> QED
    BY <1>1, <1>9, <1>10, <1>11, <2>1, <2>2, <2>3, <2>4 DEF Moves
<1>13. CallsOK' /\ SessionsOK' /\ OneUser'
  BY <1>12, MovesKeep
<1>14. \A t \in Calls : session'[t].st = session[t].st
  BY <1>2, <1>4
<1>15. DisposeOK'
  BY <1>14, DisposeKept DEF EndFrame, capVars, IInv, InTable
<1>16. NoMorePlaces
  BY <1>6, <1>14 DEF Worked, EndFrame, capVars, NoMorePlaces, InTable, Provisioning
<1> QED
  BY <1>6, <1>7, <1>13, <1>15, <1>16, PlacesKept DEF IInv

\* Call c goes on with its session, which it may have closed.
LEMMA GoOnStep ==
    ASSUME IInv, NEW c \in Calls, NEW f, Worked(c, f), EndFrame,
           session' = CloseOwned(f, {use[c]}) \/ session' = f,
           NEW where \in {"checking", "closing"}, GoTo(c, where),
           job' \in [Calls -> Jobs], UNCHANGED <<use, aborted, outcome>>
    PROVE  IInv' /\ pc'[c] = where
<1> DEFINE s == use[c]
<1>1. /\ s \in Calls /\ session[s].st # "absent" /\ Exclusive(c, s)
      /\ InTable(s) => session[s].busy
  BY RunningHasSession, SessionsAreExclusive DEF Worked, Users, Driving
<1>2. /\ session' \in [Calls -> Sessions]
      /\ \A t \in Calls \ {s} : session'[t] = session[t]
      /\ session'[s].busy = session[s].busy
      /\ session'[s].poisoned => session[s].poisoned \/ session[s].busy
      /\ \/ session'[s].st = "backend" /\ session[s].st = "open" /\ session'[s].child = None
         \/ session'[s].st = session[s].st /\ session'[s].child = session[s].child
  <2>1. CASE session' = f
    BY <2>1 DEF Worked
  <2>2. CASE session' = CloseOwned(f, {s})
    <3>1. f \in [Calls -> Sessions] /\ {s} \in SUBSET Calls
      BY <1>1 DEF Worked
    <3>2. /\ session' \in [Calls -> Sessions]
          /\ \A t \in Calls \ {s} : session'[t] = f[t]
          /\ IF f[s].st = "open"
             THEN /\ session'[s].st = "backend" /\ session'[s].child = None
                  /\ session'[s].busy = f[s].busy /\ session'[s].poisoned = f[s].poisoned
             ELSE session'[s] = f[s]
      BY <1>1, <2>2, <3>1, CloseOwnedKeeps
    <3> QED
      BY <3>2 DEF Worked
  <2> QED
    BY <2>1, <2>2
<1>3. /\ pc' \in [Calls -> Beginning \cup Driving \cup {"idle", "done"}]
      /\ pc'[c] = where /\ \A d \in Calls \ {c} : pc'[d] = pc[d]
  BY DEF IInv, Types, GoTo, Driving
<1>4. Types'
  <2>1. failed' \in [Calls -> BOOLEAN] /\ brokered' \in BOOLEAN /\ aborted' \in [Calls -> BOOLEAN]
    BY Zenon DEF EndFrame, IInv, Types, capVars
  <2> QED
    BY <1>2, <1>3, <2>1 DEF EndFrame, IInv, Types, capVars
<1>5. CallOK(c) /\ SessionOK(c) /\ SessionOK(s)
  BY <1>1 DEF IInv, CallsOK, SessionsOK
<1>6. CallOK(c)'
  BY <1>1, <1>2, <1>3, <1>5
     DEF Worked, EndFrame, capVars, CallOK, InTable, Users, Driving, Beginning, Provisioning
<1>7. SessionOK(s)'
  BY <1>1, <1>2, <1>3, <1>5 DEF Worked, EndFrame, SessionOK, InTable, Provisioning
<1>8. SessionOK(c)'
  <2>1. CASE c = s
    BY <1>7, <2>1
  <2>2. CASE c # s
    BY <1>2, <1>3, <1>5, <2>2 DEF Worked, EndFrame, SessionOK, InTable, Provisioning
  <2> QED
    BY <2>1, <2>2
<1>9. Moves(c)
  <2>1. \A d \in Calls \ {c} : SameCall(d)
    BY <1>3 DEF EndFrame, capVars, SameCall
  <2>2. \A t \in Calls \ {s} : Quietly(t)
    BY <1>2 DEF Quietly, InTable
  <2>3. \A t \in Calls \ {s, c} : SessionSame(t)
    BY <1>2, <1>3 DEF EndFrame, SessionSame
  <2> QED
    BY <1>1, <1>6, <1>7, <1>8, <2>1, <2>2, <2>3 DEF Moves
<1>10. CallsOK' /\ SessionsOK' /\ OneUser'
  BY <1>9, MovesKeep
<1>11. \A t \in Calls : /\ session'[t].st = "open" => session[t].st = "open"
                        /\ InTable(t)' => InTable(t)
  BY <1>2 DEF InTable
<1>12. DisposeOK'
  BY <1>11, DisposeKept DEF EndFrame, capVars, IInv
<1>13. NoMorePlaces
  BY <1>3, <1>11 DEF Worked, EndFrame, capVars, NoMorePlaces, Provisioning
<1> QED
  BY <1>3, <1>4, <1>10, <1>12, <1>13, PlacesKept DEF IInv

\* finish: the session is kept or closed.
LEMMA ConcludeStep ==
    ASSUME IInv, NEW c \in Calls, NEW f, Worked(c, f), EndFrame,
           NEW err \in BOOLEAN, NEW passed \in BOOLEAN, Conclude(c, f, err, passed)
    PROVE  IInv' /\ pc'[c] \in {"done", "closing"}
<1>1. CASE /\ Keeps(f, use[c], err)
           /\ session' = [f EXCEPT ![use[c]] = Released(@)]
           /\ Return(c, Result(passed))
  BY <1>1, KeepStep DEF Keeps
<1>2. CASE /\ session' = CloseOwned(f, {use[c]})
           /\ job' = [job EXCEPT ![c] = [NoJob EXCEPT !.passed = passed /\ ~err]]
           /\ GoTo(c, "closing")
           /\ UNCHANGED <<use, aborted, outcome>>
  <2>1. job' \in [Calls -> Jobs]
    <3>1. PICK q \in BOOLEAN : q = (passed /\ ~err)
      BY Zenon
    <3>2. job' = [job EXCEPT ![c] = [NoJob EXCEPT !.passed = q]]
      BY <1>2, <3>1, Zenon
    <3>3. [NoJob EXCEPT !.passed = q] \in Jobs
      BY DEF NoJob, Jobs
    <3> QED
      BY <3>2, <3>3 DEF IInv, Types
  <2> QED
    BY <1>2, <2>1, GoOnStep
<1> QED
  BY <1>1, <1>2 DEF Conclude

\* The delegated task ends.
LEMMA ChildDoneStep ==
    ASSUME IInv, NEW c \in Calls, ChildDone(c) PROVE IInv'
<1> DEFINE s == use[c]
<1>1. pc[c] = "running" /\ EndFrame
  BY DEF ChildDone, EndFrame
<1>2. s \in Calls /\ session \in [Calls -> Sessions]
  BY <1>1, RunningHasSession DEF Users, Driving, IInv, Types
<1>3. Worked(c, session)
  BY <1>1, <1>2 DEF Worked
<1>4. Spoilt(c, s) \in BOOLEAN
  BY DEF Spoilt
<1>5. PICK err \in BOOLEAN :
        IF ~err /\ session[s].preflight
        THEN /\ session' = [session EXCEPT ![s].executing = TRUE]
             /\ GoTo(c, "checking")
             /\ UNCHANGED <<job, use, aborted, outcome>>
        ELSE Conclude(c, session, err, FALSE)
  BY <1>4, Zenon DEF ChildDone
<1>6. CASE Conclude(c, session, err, FALSE)
  BY <1>1, <1>3, <1>6, ConcludeStep
<1>7. CASE /\ session' = [session EXCEPT ![s].executing = TRUE]
           /\ GoTo(c, "checking") /\ UNCHANGED <<job, use, aborted, outcome>>
  <2> DEFINE f == [session EXCEPT ![s].executing = TRUE]
  <2>1. Worked(c, f) /\ session' = f
    BY <1>1, <1>2, <1>7, ZenonT(40) DEF Worked, Sessions
  <2> HIDE DEF f
  <2>2. job' \in [Calls -> Jobs]
    BY <1>7 DEF IInv, Types
  <2> QED
    BY <1>1, <1>7, <2>1, <2>2, GoOnStep
<1> QED
  BY <1>5, <1>6, <1>7

\* The success criterion is answered.
LEMMA FinalAnswerStep ==
    ASSUME IInv, NEW c \in Calls, FinalAnswer(c) PROVE IInv'
<1> DEFINE s == use[c]
<1>1. pc[c] = "checking" /\ EndFrame
  BY DEF FinalAnswer, EndFrame
<1>2. s \in Calls
  BY <1>1, RunningHasSession DEF Users, Driving
<1>3. PICK a \in Answered(c) : Conclude(c, a[1], FALSE, a[2])
  BY DEF FinalAnswer
<1>4. /\ a[1] \in [Calls -> Sessions] /\ a[2] \in BOOLEAN
      /\ \A t \in Calls \ {s} : a[1][t] = session[t]
      /\ a[1][s].st = session[s].st /\ a[1][s].busy = session[s].busy
      /\ a[1][s].child = session[s].child /\ a[1][s].listens = session[s].listens
      /\ a[1][s].poisoned => session[s].poisoned \/ Owned(c, s)
  BY <1>2, AnsweredKeeps DEF IInv
<1>5. Worked(c, a[1])
  BY <1>1, <1>4 DEF Worked, Owned
<1> QED
  BY <1>1, <1>3, <1>4, <1>5, ConcludeStep

-----------------------------------------------------------------------------
(* Cancellation and disposal.                                              *)

\* The caller cancels: no open session obeys it any more.
LEMMA AbortStep ==
    ASSUME IInv, NEW c \in Calls, Abort(c) PROVE IInv'
<1> DEFINE S == {s \in Calls : session[s].listens = c}
           f == [s \in Calls |-> [session[s] EXCEPT !.cancelled = @ \/ s \in S]]
<1>1. /\ pc[c] # "idle" /\ aborted' = [aborted EXCEPT ![c] = TRUE]
      /\ session' = CloseOwned(f, S)
      /\ UNCHANGED <<pc, job, use, outcome, waits, conn, net, failed, capVars>>
  BY DEF Abort
<1>2. S \in SUBSET Calls /\ \A s \in Calls : session[s].listens = c => s \in S
  OBVIOUS
<1>3. /\ f \in [Calls -> Sessions]
      /\ \A s \in Calls :
            /\ f[s].st = session[s].st /\ f[s].busy = session[s].busy
            /\ f[s].child = session[s].child /\ f[s].listens = session[s].listens
            /\ f[s].poisoned = session[s].poisoned
  <2>1. ASSUME NEW s \in Calls
        PROVE  /\ f[s] \in Sessions
               /\ f[s].st = session[s].st /\ f[s].busy = session[s].busy
               /\ f[s].child = session[s].child /\ f[s].listens = session[s].listens
               /\ f[s].poisoned = session[s].poisoned
    <3>1. session[s] \in Sessions
      BY DEF IInv, Types
    <3>2. PICK q \in BOOLEAN : q = (session[s].cancelled \/ s \in S)
      BY Zenon
    <3>3. f[s] = [session[s] EXCEPT !.cancelled = q]
      BY <3>2, Zenon
    <3> QED
      BY <3>1, <3>3 DEF Sessions
  <2> QED
    BY <2>1
<1> HIDE DEF S, f
<1>4. /\ session' \in [Calls -> Sessions]
      /\ \A s \in Calls :
            /\ session'[s].busy = session[s].busy /\ session'[s].poisoned = session[s].poisoned
            /\ IF s \in S /\ session[s].st = "open"
               THEN session'[s].st = "backend" /\ session'[s].child = None
               ELSE /\ session'[s].st = session[s].st /\ session'[s].child = session[s].child
                    /\ session'[s].listens = session[s].listens
  <2>1. /\ session' \in [Calls -> Sessions]
        /\ \A s \in Calls :
              IF s \in S /\ f[s].st = "open"
              THEN /\ session'[s].st = "backend" /\ session'[s].child = None
                   /\ session'[s].busy = f[s].busy /\ session'[s].poisoned = f[s].poisoned
              ELSE session'[s] = f[s]
    BY <1>1, <1>2, <1>3, CloseOwnedKeeps
  <2> QED
    BY <1>3, <2>1
<1>5. Types'
  <2>1. failed' \in [Calls -> BOOLEAN] /\ brokered' \in BOOLEAN
    BY <1>1, Zenon DEF IInv, Types, capVars
  <2> QED
    BY <1>1, <1>4, <2>1 DEF IInv, Types, capVars
<1>6. \A s \in Calls : Quietly(s)
  BY <1>4 DEF Quietly, InTable
<1>7. ASSUME NEW s \in Calls PROVE SessionOK(s)'
  <2>1. SessionOK(s)
    BY DEF IInv, SessionsOK
  <2> QED
    BY <1>1, <1>4, <2>1 DEF SessionOK, InTable
<1>8. CallOK(c)'
  <2>1. CallOK(c)
    BY DEF IInv, CallsOK
  <2>2. CASE pc[c] \in Users
    <3>1. use[c] \in Calls
      BY <2>2, RunningHasSession
    <3>2. Quietly(use[c])
      BY <1>6, <3>1
    <3>3. ~(pc[c] = "running" /\ session'[use[c]].st = "open")
      BY <1>2, <1>4, <2>1, <3>1 DEF CallOK
    <3> QED
      BY <1>1, <2>1, <2>2, <3>1, <3>2, <3>3 DEF CallOK, Quietly, capVars
  <2>3. CASE pc[c] \notin Users
    BY <1>1, <2>1, <2>3 DEF CallOK, capVars, Users, Driving
  <2> QED
    BY <2>2, <2>3
<1>9. Moves(c)
  <2>1. \A d \in Calls \ {c} : SameCall(d)
    BY <1>1 DEF SameCall, capVars, IInv, Types
  <2>2. pc'[c] \in Users => Exclusive(c, use'[c])
    BY <1>1, SessionsAreExclusive
  <2> QED
    BY <1>6, <1>7, <1>8, <2>1, <2>2 DEF Moves
<1>10. CallsOK' /\ SessionsOK' /\ OneUser'
  BY <1>9, MovesKeep
<1>11. DisposeOK'
  BY <1>1, <1>6, DisposeKept DEF Quietly, capVars, IInv
<1>12. NoMorePlaces
  BY <1>1, <1>6 DEF Quietly, capVars, NoMorePlaces
<1> QED
  BY <1>5, <1>10, <1>11, <1>12, PlacesKept DEF IInv

\* Types and the rest, when only disposal goes on.
LEMMA DisposalMoves ==
    ASSUME IInv, UNCHANGED <<callVars, sessionVars, brokered, pendingSessions, begins>>,
           disposal' \in {"no", "begins", "closing", "done"}, DisposeOK'
    PROVE  IInv'
<1>1. Types'
  <2>1. /\ aborted' \in [Calls -> BOOLEAN] /\ failed' \in [Calls -> BOOLEAN]
        /\ brokered' \in BOOLEAN
    BY Zenon DEF IInv, Types, callVars, sessionVars
  <2> QED
    BY <2>1 DEF IInv, Types, callVars, sessionVars
<1>2. CallsOK' /\ SessionsOK' /\ OneUser' /\ PlacesOK'
  BY DEF IInv, CallsOK, CallOK, SessionsOK, SessionOK, InTable, OneUser, PlacesOK, Table,
         Reserved, callVars, sessionVars
<1> QED
  BY <1>1, <1>2 DEF IInv

\* dispose: no call may begin any more.
LEMMA DisposeStep ==
    ASSUME IInv, Dispose PROVE IInv'
<1>1. DisposeOK'
  BY DEF Dispose, DisposeOK
<1> QED
  BY <1>1, DisposalMoves DEF Dispose

\* dispose: all sessions are closed, once the calls that began have settled.
LEMMA DisposeSessionsStep ==
    ASSUME IInv, DisposeSessions PROVE IInv'
<1>1. /\ begins = {} /\ disposal' = "closing" /\ session' = CloseOwned(session, Table)
      /\ UNCHANGED <<callVars, conn, net, failed, brokered, pendingSessions, begins>>
  BY DEF DisposeSessions, BeginsSettled
<1>2. Table \in SUBSET Calls
  BY DEF Table
<1>3. /\ session' \in [Calls -> Sessions] /\ \A s \in Calls : Quietly(s)
      /\ SessionsOK'
  BY <1>1, <1>2, CloseOwnedQuiet DEF callVars
<1>4. \A s \in Calls : session'[s].st # "open"
  <2>1. \A s \in Calls : IF s \in Table /\ session[s].st = "open"
                        THEN session'[s].st = "backend" ELSE session'[s] = session[s]
    BY <1>1, <1>2, CloseOwnedKeeps DEF IInv, Types
  <2> QED
    BY <2>1 DEF Table, InTable
<1>5. Types'
  <2>1. /\ aborted' \in [Calls -> BOOLEAN] /\ failed' \in [Calls -> BOOLEAN]
        /\ brokered' \in BOOLEAN
    BY <1>1, Zenon DEF IInv, Types, callVars
  <2> QED
    BY <1>1, <1>3, <2>1 DEF IInv, Types, callVars
<1>6. DisposeOK'
  BY <1>1, <1>4 DEF DisposeOK
<1>7. CallsOK' /\ OneUser'
  <2>1. ASSUME NEW c \in Calls PROVE CallOK(c)'
    <3>1. CallOK(c)
      BY DEF IInv, CallsOK
    <3>2. CASE pc[c] \in Users
      <4>1. Quietly(use[c])
        BY <1>3, <3>2, RunningHasSession
      <4> QED
        BY <1>1, <3>1, <3>2, <4>1 DEF CallOK, Quietly, callVars
    <3>3. CASE pc[c] \notin Users
      BY <1>1, <3>1, <3>3 DEF CallOK, callVars, Users, Driving
    <3> QED
      BY <3>2, <3>3
  <2>2. OneUser'
    BY <1>1 DEF IInv, OneUser, callVars
  <2> QED
    BY <2>1, <2>2 DEF CallsOK
<1>8. NoMorePlaces
  BY <1>1, <1>3 DEF NoMorePlaces, Quietly, callVars
<1> QED
  BY <1>3, <1>5, <1>6, <1>7, <1>8, PlacesKept DEF IInv

\* dispose returns when the table is empty.
LEMMA DisposedStep ==
    ASSUME IInv, Disposed PROVE IInv'
<1>1. DisposeOK'
  BY DEF Disposed, DisposeOK, IInv, sessionVars, Table, InTable
<1> QED
  BY <1>1, DisposalMoves DEF Disposed

\* A step that changes nothing.
LEMMA StutterStep ==
    ASSUME IInv, UNCHANGED vars PROVE IInv'
<1>1. DisposeOK'
  BY DEF DisposeOK, IInv, vars, sessionVars, capVars, Table, InTable
<1> QED
  BY <1>1, DisposalMoves DEF vars, capVars, IInv, Types

-----------------------------------------------------------------------------
(* The invariant and what follows from it.                                 *)

\* Every step keeps the invariant.
LEMMA NextStep ==
    ASSUME IInv, [Next]_vars PROVE IInv'
<1>1. ASSUME NEW c \in Calls, CallStep(c) PROVE IInv'
  BY <1>1, EnterStep, ReapedOneStep, ProvisionStep, CreatedStep, LaunchedStep, UndoneStep,
     StartedStep, FailedStep, ChildDoneStep, FinalAnswerStep, ReportStep DEF CallStep
<1>2. ASSUME NEW c \in Calls, ChildStep(c) \/ ChildAnswer(c) \/ Connect(c) \/ Abort(c) PROVE IInv'
  BY <1>2, BindStep, ChildPreflightStep, ChildOperationStep, ChildCloseStep, ChildAnswerStep,
     ConnectStep, AbortStep DEF ChildStep
<1>3. ASSUME NEW s \in Calls, SessionStep(s) \/ Expire(s) PROVE IInv'
  BY <1>3, CloseBackendStep, DestroyNetworkStep, ReaperTickStep, ExpireStep DEF SessionStep
<1>4. ASSUME NEW c \in Calls, NEW s \in Calls, ReapNext(c, s) PROVE IInv'
  BY <1>4, ReapNextStep
<1>5. ASSUME NEW c \in Calls, NEW t \in (Calls \ {c}) \cup {None}, Begin(c, t) PROVE IInv'
  BY <1>5, BeginStep
<1>6. ASSUME Dispose \/ DisposeSessions \/ Disposed PROVE IInv'
  BY <1>6, DisposeStep, DisposeSessionsStep, DisposedStep
<1> QED
  BY <1>1, <1>2, <1>3, <1>4, <1>5, <1>6, StutterStep DEF Next

\* It holds at the start.
LEMMA InitStep ==
    ASSUME Init PROVE IInv
<1>1. \A c \in Calls : /\ pc[c] = "idle" /\ use[c] = None /\ outcome[c] = "none"
                       /\ session[c].st = "absent" /\ session[c].child = None
                       /\ conn[c] = "none" /\ net[c] = "none"
  BY DEF Init, All, NoSession
<1>2. Types
  <2>1. aborted \in [Calls -> BOOLEAN] /\ failed \in [Calls -> BOOLEAN] /\ brokered \in BOOLEAN
    BY DEF Init, All
  <2>2. job \in [Calls -> Jobs] /\ session \in [Calls -> Sessions]
    BY DEF Init, All, NoJob, Jobs, NoSession, Sessions
  <2> QED
    BY <2>1, <2>2 DEF Init, All, Types
<1>3. CallsOK /\ SessionsOK /\ OneUser /\ DisposeOK
  BY <1>1 DEF Init, CallsOK, CallOK, SessionsOK, SessionOK, InTable, OneUser, DisposeOK, Users,
              Driving, Beginning, Provisioning
<1>4. PlacesOK
  <2>1. Table = {} /\ Reserved = {}
    BY <1>1 DEF Table, InTable, Reserved, Provisioning
  <2> QED
    BY <2>1, FS_EmptySet, CapacityAssumption DEF PlacesOK, Init
<1> QED
  BY <1>2, <1>3, <1>4 DEF IInv

\* The invariant holds in every reachable state.
THEOREM Inductive == Spec => []IInv
BY InitStep, NextStep, PTL DEF Spec

\* No session is ever driven by two calls, whatever is cancelled, closed or resumed at
\* whatever moment (use of a session, nla-browser.mjs).
THEOREM OneCallDrives == Spec => []Inv
<1>1. IInv => Inv
  <2> SUFFICES ASSUME IInv PROVE Inv
    OBVIOUS
  <2>1. pendingSessions \in 0..MaxSessions
    <3>1. Cardinality(Table) \in Nat /\ Cardinality(Reserved) \in Nat
      BY FS_CardinalityType DEF IInv, PlacesOK
    <3> QED
      BY <3>1, CapacityAssumption DEF IInv, PlacesOK
  <2>2. TypeOK
    BY <2>1, Zenon DEF IInv, Types, TypeOK
  <2>3. OneDriver
    BY DEF IInv, OneUser, OneDriver, Users
  <2> QED
    BY <2>2, <2>3 DEF Inv
<1> QED
  BY <1>1, Inductive, PTL

\* However many calls there are, no more browsers run than max_sessions allows, and every
\* place reserved is the place of a call that is being provisioned.
THEOREM LimitIsKept == Spec => []LimitKept
<1>1. IInv => LimitKept
  <2> SUFFICES ASSUME IInv PROVE LimitKept
    OBVIOUS
  <2> DEFINE B == {s \in Calls : net[s] = "up" \/ (conn[s] = "up" /\ ~failed[s])}
  <2>1. B \subseteq Table \cup Reserved
    <3> SUFFICES ASSUME NEW s \in B PROVE s \in Table \cup Reserved
      OBVIOUS
    <3>1. SessionOK(s) /\ s \in Calls /\ session[s].st \in {"absent", "open", "backend", "network", "gone"}
      BY DEF IInv, SessionsOK, Types, Sessions
    <3> QED
      BY <3>1 DEF SessionOK, Table, Reserved, InTable, Provisioning
  <2>2. /\ IsFiniteSet(Table) /\ IsFiniteSet(Reserved) /\ pendingSessions = Cardinality(Reserved)
        /\ Cardinality(Table) + pendingSessions <= MaxSessions
    BY DEF IInv, PlacesOK
  <2>3. /\ IsFiniteSet(Table \cup Reserved) /\ IsFiniteSet(Table \cap Reserved)
        /\ Cardinality(Table \cup Reserved) =
              Cardinality(Table) + Cardinality(Reserved) - Cardinality(Table \cap Reserved)
    BY <2>2, FS_Union, FS_Intersection
  <2>4. IsFiniteSet(B) /\ Cardinality(B) <= Cardinality(Table \cup Reserved)
    BY <2>1, <2>3, FS_Subset
  <2>5. /\ Cardinality(B) \in Nat /\ Cardinality(Table) \in Nat /\ Cardinality(Reserved) \in Nat
        /\ Cardinality(Table \cap Reserved) \in Nat
    BY <2>2, <2>3, <2>4, FS_CardinalityType
  <2>6. Cardinality(B) <= MaxSessions
    <3> HIDE DEF B
    <3> QED
      BY <2>2, <2>3, <2>4, <2>5, CapacityAssumption
  <2>7. BrowsersWithinLimit
    BY <2>6 DEF BrowsersWithinLimit
  <2> QED
    BY <2>2, <2>7 DEF LimitKept, ReservedInUse, Reserved
<1> QED
  BY <1>1, Inductive, PTL

\* Whatever failed, was cancelled or was overtaken, a session that is not in the table
\* leaves no browser behind that was not reported, and nothing is left after dispose.
THEOREM NothingIsLeft == Spec => []CleanedUp
<1>1. IInv => CleanedUp
  <2> SUFFICES ASSUME IInv PROVE CleanedUp
    OBVIOUS
  <2>1. NothingLeftRunning
    BY DEF IInv, SessionsOK, SessionOK, NothingLeftRunning, Provisioning
  <2>2. ASSUME disposal = "done", NEW s \in Calls
        PROVE  net[s] # "up" /\ (conn[s] = "up" => failed[s])
    <3>1. /\ SessionOK(s) /\ CallOK(s) /\ begins = {} /\ ~InTable(s)
          /\ session[s].st \in {"absent", "open", "backend", "network", "gone"}
      BY <2>2 DEF IInv, SessionsOK, CallsOK, DisposeOK, Table, Types, Sessions
    <3> QED
      BY <3>1 DEF SessionOK, CallOK, InTable, Beginning, Provisioning
  <2>3. DisposeLeavesNothing
    BY <2>2 DEF DisposeLeavesNothing, IInv, DisposeOK
  <2> QED
    BY <2>1, <2>3 DEF CleanedUp
<1> QED
  BY <1>1, Inductive, PTL

-----------------------------------------------------------------------------
(* Action properties.                                                      *)

\* A step of one call moves no other call.
LEMMA CallStepFrame ==
    ASSUME Types, NEW d \in Calls, CallStep(d), NEW c \in Calls, c # d PROVE pc'[c] = pc[c]
<1>1. ASSUME NEW r, Return(d, r) PROVE pc'[c] = pc[c]
  BY <1>1 DEF Return, GoTo, Types
<1>2. ASSUME NEW w, GoTo(d, w) PROVE pc'[c] = pc[c]
  BY <1>2 DEF GoTo, Types
<1>3. ASSUME Refuse(d) PROVE pc'[c] = pc[c]
  BY <1>1, <1>3 DEF Refuse
<1>4. ASSUME NEW s, Take(d, s) \/ GiveUp(d, s) PROVE pc'[c] = pc[c]
  BY <1>2, <1>4 DEF Take, GiveUp
<1>5. ASSUME NEW f, NEW e, NEW p, Conclude(d, f, e, p) PROVE pc'[c] = pc[c]
  BY <1>1, <1>2, <1>5 DEF Conclude
<1>6. ASSUME Provision(d) PROVE pc'[c] = pc[c]
  BY <1>2, <1>3, <1>4, <1>6 DEF Provision, Resume, Create, Denied, Allocate
<1>7. ASSUME ChildDone(d) \/ FinalAnswer(d) PROVE pc'[c] = pc[c]
  BY <1>2, <1>5, <1>7 DEF ChildDone, FinalAnswer
<1>8. ASSUME Enter(d) \/ Created(d) \/ Launched(d) \/ Undone(d) \/ Failed(d) PROVE pc'[c] = pc[c]
  BY <1>2, <1>3, <1>8 DEF Enter, Created, Launched, Undone, Failed, Allocate
<1>9. ASSUME ReapedOne(d) \/ Started(d) \/ Report(d) PROVE pc'[c] = pc[c]
  BY <1>1, <1>4, <1>9 DEF ReapedOne, Started, Report
<1> QED
  BY <1>6, <1>7, <1>8, <1>9 DEF CallStep

\* A call that is under way moves by its own steps only.
LEMMA MovesByItself ==
    ASSUME Types, [Next]_vars, NEW c \in Calls, pc[c] # "idle", pc'[c] # pc[c] PROVE CallStep(c)
<1>1. ASSUME NEW d \in Calls, ChildStep(d) \/ ChildAnswer(d) \/ Connect(d) \/ Abort(d)
      PROVE  UNCHANGED pc
  BY <1>1 DEF ChildStep, Bind, ChildPreflight, ChildOperation, ChildClose, ChildAnswer, Connect,
              Abort, callVars
<1>2. ASSUME NEW s \in Calls, SessionStep(s) \/ Expire(s) PROVE UNCHANGED pc
  BY <1>2 DEF SessionStep, CloseBackend, DestroyNetwork, ReaperTick, Expire, callVars
<1>3. ASSUME NEW d \in Calls, NEW s \in Calls, ReapNext(d, s) PROVE UNCHANGED pc
  BY <1>3 DEF ReapNext
<1>4. ASSUME NEW d \in Calls, NEW t, Begin(d, t) PROVE pc'[c] = pc[c]
  BY <1>4 DEF Begin, GoTo, Types
<1>5. ASSUME Dispose \/ DisposeSessions \/ Disposed \/ UNCHANGED vars PROVE UNCHANGED pc
  BY <1>5 DEF Dispose, DisposeSessions, Disposed, vars, callVars
<1> QED
  BY <1>1, <1>2, <1>3, <1>4, <1>5, CallStepFrame DEF Next

\* A kept session that is resumed has no operation of unknown outcome, and no caller has
\* cancelled it.
THEOREM ResumedSessionIsSound == Spec => ResumedIsSound
<1>1. ASSUME IInv, [Next]_vars, NEW c \in Calls, pc[c] = "reaping", pc'[c] = "running"
      PROVE  ~session[use'[c]].poisoned /\ ~session[use'[c]].cancelled
  <2>1. CallStep(c)
    BY <1>1, MovesByItself DEF IInv
  <2>2. Provision(c) \/ ReapedOne(c)
    BY <1>1, <2>1 DEF CallStep, Enter, Created, Launched, Undone, Started, Failed, ChildDone,
                      FinalAnswer, Report
  <2>3. (\E t \in Calls : Resume(c, t)) \/ Create(c) \/ Denied(c)
    BY <1>1, <2>2 DEF Provision, ReapedOne
  <2>4. ASSUME NEW where, GoTo(c, where) PROVE where = "running"
    BY <1>1, <2>4 DEF GoTo, IInv, Types
  <2>5. ~Create(c) /\ ~Denied(c)
    BY <2>4 DEF Create, Denied, Allocate, Refuse, Return
  <2>6. PICK t \in Calls : Resume(c, t)
    BY <2>3, <2>5
  <2>7. ~GiveUp(c, t)
    BY <2>4 DEF GiveUp
  <2>8. ~session[t].cancelled /\ InTable(t) /\ ~session[t].busy
    BY <2>6, <2>7 DEF Resume, Resumable
  <2>9. use'[c] = t
    BY <1>1, <2>6 DEF Resume, IInv, Types
  <2>10. ~session[t].poisoned
    BY <1>1, <2>8 DEF IInv, SessionsOK, SessionOK
  <2> QED
    BY <2>8, <2>9, <2>10
<1>2. IInv /\ [Next]_vars =>
        (\A c \in Calls : pc[c] = "reaping" /\ pc'[c] = "running" =>
              ~session[use'[c]].poisoned /\ ~session[use'[c]].cancelled)
  BY <1>1
<1> QED
  BY <1>2, Inductive, PTL DEF Spec, ResumedIsSound

\* A call that is cancelled before its delegated task ends gets no PASS, and its criterion
\* is not run once more, even if its session was being closed when it was cancelled.
THEOREM CancellationIsInTime == Spec => CancelledInTime
<1>1. ASSUME IInv, [Next]_vars, NEW c \in Calls, pc[c] = "running", aborted[c],
             pc'[c] # "running"
      PROVE  pc'[c] # "checking" /\ outcome'[c] # "PASS" /\ ~job'[c].passed
  <2>1. CallStep(c)
    BY <1>1, MovesByItself DEF IInv
  <2>2. ChildDone(c)
    BY <1>1, <2>1 DEF CallStep, Enter, Created, Launched, Undone, Started, Failed, FinalAnswer,
                      Report, Provision, ReapedOne
  <2>3. CallOK(c) /\ use[c] \in Calls /\ SessionOK(use[c])
    BY <1>1, RunningHasSession DEF Users, Driving, IInv, CallsOK, SessionsOK
  <2>4. session[use[c]].preflight => Spoilt(c, use[c])
    BY <1>1, <2>3, NoneAssumption DEF CallOK, SessionOK, Spoilt, InTable, Owned
  <2>5. PICK err : Conclude(c, session, err, FALSE)
    BY <2>2, <2>4 DEF ChildDone
  <2>6. CASE Return(c, Result(FALSE))
    <3>1. outcome'[c] = "other" /\ job'[c] = NoJob /\ pc'[c] = "done"
      BY <1>1, <2>6 DEF Return, Result, GoTo, IInv, Types
    <3> QED
      BY <3>1 DEF NoJob
  <2>7. CASE /\ job' = [job EXCEPT ![c] = [NoJob EXCEPT !.passed = FALSE /\ ~err]]
             /\ GoTo(c, "closing") /\ UNCHANGED outcome
    <3>1. (FALSE /\ ~err) = FALSE
      OBVIOUS
    <3>2. job' = [job EXCEPT ![c] = [NoJob EXCEPT !.passed = FALSE]]
      BY <2>7, <3>1, Zenon
    <3>3. job'[c].passed = FALSE
      BY <1>1, <3>2 DEF NoJob, IInv, Types
    <3>4. pc'[c] = "closing" /\ outcome'[c] = "none"
      BY <1>1, <2>3, <2>7 DEF GoTo, CallOK, IInv, Types
    <3> QED
      BY <3>3, <3>4
  <2> QED
    BY <2>5, <2>6, <2>7 DEF Conclude
<1>2. IInv /\ [Next]_vars =>
        (\A c \in Calls : pc[c] = "running" /\ aborted[c] /\ pc'[c] # "running" =>
              pc'[c] # "checking" /\ outcome'[c] # "PASS" /\ ~job'[c].passed)
  BY <1>1
<1> QED
  BY <1>2, Inductive, PTL DEF Spec, CancelledInTime
============================================================================
