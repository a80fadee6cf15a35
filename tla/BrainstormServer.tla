---- MODULE BrainstormServer ----
(***************************************************************************)
(* The visual companion of the brainstorming skill: the servers that are   *)
(* started one after another for a project (server.cjs), the port and key  *)
(* files they share, and the browser tabs that load a page from one of     *)
(* them and come back to the next (helper.js).                             *)
(*                                                                         *)
(* Every start has a session directory of its own; the files .last-port    *)
(* and .last-token belong to the project.  Nothing keeps two starts apart: *)
(* two sessions of a project may start at once, and between the reads and  *)
(* the writes of one process those of another may fall.  A write empties   *)
(* the file before it fills it.                                            *)
(*                                                                         *)
(* A random port or key is one nobody has: it is named after the server    *)
(* that drew it and the draw.  The key of a tab is that of its cookie.     *)
(* Idle time and the fifteen seconds of a tab's outage pass at any time.   *)
(* Of a screen it matters whether it is the newest; it is not deleted, and *)
(* its writes pause, so that its timer fires.  A launched browser is       *)
(* a tab that is opened.  What is only written for the agent to read       *)
(* (server-info, server-stopped, events) is left out.                      *)
(***************************************************************************)
EXTENDS Naturals, FiniteSets

CONSTANTS
    Servers,   \* starts of the server
    Tabs,      \* browser tabs
    Files,     \* names of screens
    Showing,   \* servers whose agent writes screens (a bound)
    WritesMayFail,  \* a write of the project's files may fail, or its process be killed in it
    None       \* no server, no value in a file

VARIABLES
    portFile,  \* .last-port
    tokenFile, \* .last-token
    lapse,     \* a write of them has failed, or a start found one of them empty while
               \* another start that may write was under way (history)
    foreign,   \* some other program listens on the port in .last-port
    server,    \* each server process
    tab        \* each tab

files == <<portFile, tokenFile, lapse>>
vars == <<files, foreign, server, tab>>

Draws == Servers \X {"first", "fallback"}

ASSUME NoneAssumption == None \notin Draws

ASSUME WritesAssumption == WritesMayFail \in BOOLEAN

ServerRecords ==
    [stage : {"off", "reading", "bind", "bound", "named", "up", "closing", "exited"},
     port : Draws \cup {None}, token : Draws \cup {None},
     fallback : BOOLEAN,                       \* triedFallback
     expiry : {"no", "idle", "owner"},         \* idle too long, or the owner is dead
     known : SUBSET Files,                     \* knownFiles
     timers : SUBSET Files,                    \* debounceTimers
     late : BOOLEAN]                           \* has accepted a socket while closing (history)

TabRecords ==
    [open : BOOLEAN, home : BOOLEAN,           \* loaded from a server with its preferred port
     port : Draws \cup {None}, key : Draws \cup {None},
     conn : Servers \cup {None},               \* where its WebSocket is open
     dial : Servers \cup {None},               \* where it has asked for one
     newest : BOOLEAN,                         \* it shows the newest screen of its port
     queue : BOOLEAN,                          \* choices in eventQueue
     tombstone : BOOLEAN, reload : BOOLEAN]

TypeOK ==
    /\ portFile \in Draws \cup {None}
    /\ tokenFile \in Draws \cup {None}
    /\ lapse \in BOOLEAN
    /\ foreign \in BOOLEAN
    /\ server \in [Servers -> ServerRecords]
    /\ tab \in [Tabs -> TabRecords]

-----------------------------------------------------------------------------

NewServer ==
    [stage |-> "off", port |-> None, token |-> None, fallback |-> FALSE, expiry |-> "no",
     known |-> {}, timers |-> {}, late |-> FALSE]

ClosedTab ==
    [open |-> FALSE, home |-> FALSE, port |-> None, key |-> None, conn |-> None, dial |-> None,
     newest |-> FALSE, queue |-> FALSE, tombstone |-> FALSE, reload |-> FALSE]

Up(s) == server[s].stage = "up"

Running(s) == server[s].stage \notin {"off", "exited"}

Starting(s) == server[s].stage \in {"reading", "bind", "bound", "named"}

Listening(s) == server[s].stage \in {"bound", "named", "up"}

\* A start that may still write the files of the project.
MayWrite(s) == Starting(s) /\ ~server[s].fallback

\* A port is free when nobody listens on it.
Free(p) ==
    /\ foreign => portFile # p
    /\ \A s \in Servers : Listening(s) => server[s].port # p

\* Who answers on the port of a tab, and whether it accepts the tab's key.
Answers(s, t) == Up(s) /\ server[s].port = tab[t].port
Authorized(s, t) == server[s].token = tab[t].key

\* touchActivity
Touched(s) == [server EXCEPT ![s].expiry = IF @ = "idle" THEN "no" ELSE @]

\* The tab that loads the URL of a server, key and all.
LoadedTab(s) ==
    [ClosedTab EXCEPT !.open = TRUE, !.home = ~server[s].fallback, !.newest = TRUE,
                      !.port = server[s].port, !.key = server[s].token]

\* The sockets of a process that ends are closed by the system.
Cut(s) == [t \in Tabs |-> [tab[t] EXCEPT !.conn = IF @ = s THEN None ELSE @,
                                         !.dial = IF @ = s THEN None ELSE @]]

\* shutdown destroys the upgraded sockets, not one that is being upgraded.
Destroyed(s) == [t \in Tabs |-> [tab[t] EXCEPT !.conn = IF @ = s THEN None ELSE @]]

\* What a process holds in memory is lost with it.
Ended(s) == [server EXCEPT ![s] = [NewServer EXCEPT !.stage = "exited"]]

Init ==
    /\ portFile = None /\ tokenFile = None /\ lapse = FALSE
    /\ foreign = FALSE
    /\ server = [s \in Servers |-> NewServer]
    /\ tab = [t \in Tabs |-> ClosedTab]

-----------------------------------------------------------------------------
(* The server's life.                                                      *)

\* What a start reads: a file that another process is writing may be empty.
Read(file, writing) == {file} \cup (IF writing THEN {None} ELSE {})

\* What a write leaves: it may fail before or after it has emptied the file.
Written(file, value) == {value} \cup (IF WritesMayFail THEN {file, None} ELSE {})

\* Whether v, read by s, is nothing while another start may have found nothing too.
BothEmpty(s, v) == v = None /\ \E u \in Servers \ {s} : MayWrite(u)

\* A bug: the key of the last server is not read back.
InitialTokenFresh(s, k) == <<s, "first">>

InitialToken(s, k) == IF k # None THEN k ELSE <<s, "first">>

\* start-server.sh, then preferredPort: the port is read, or drawn.
Start(s) ==
    /\ server[s].stage = "off"
    /\ \E p \in Read(portFile, \E u \in Servers : server[u].stage = "bound" /\ MayWrite(u)) :
          /\ server' = [server EXCEPT ![s] =
                          [NewServer EXCEPT !.stage = "reading",
                                            !.port = IF p # None THEN p ELSE <<s, "first">>]]
          /\ lapse' = (lapse \/ BothEmpty(s, p))
    /\ UNCHANGED <<portFile, tokenFile, foreign, tab>>

\* initialToken: the key is read, or drawn.
ReadKey(s) ==
    /\ server[s].stage = "reading"
    /\ \E k \in Read(tokenFile, \E u \in Servers : server[u].stage = "named") :
          /\ server' = [server EXCEPT ![s].stage = "bind", ![s].token = InitialToken(s, k)]
          /\ lapse' = (lapse \/ BothEmpty(s, k))
    /\ UNCHANGED <<portFile, tokenFile, foreign, tab>>

\* A page loaded from an earlier server does not show what this one will.
Listen(s) ==
    /\ server[s].stage = "bind" /\ Free(server[s].port)
    /\ server' = [server EXCEPT ![s].stage = "bound"]
    /\ tab' = [t \in Tabs |-> [tab[t] EXCEPT !.newest = @ /\ tab[t].port # server[s].port]]
    /\ UNCHANGED <<files, foreign>>

\* EADDRINUSE: another port, once, and another key if the key came from the file.
AddressInUse(s) ==
    /\ server[s].stage = "bind" /\ ~Free(server[s].port)
    /\ server' = [server EXCEPT ![s] =
                    IF server[s].fallback THEN [NewServer EXCEPT !.stage = "exited"]
                    ELSE [server[s] EXCEPT !.fallback = TRUE, !.port = <<s, "fallback">>,
                            !.token = IF @ = <<s, "first">> THEN @ ELSE <<s, "fallback">>]]
    /\ UNCHANGED <<files, foreign, tab>>

\* A bug: what a fallback has bound is recorded too.
WritePortAlways(s) ==
    /\ server[s].stage = "bound"
    /\ server' = [server EXCEPT ![s].stage = "named"]
    /\ portFile' \in Written(portFile, server[s].port)
    /\ lapse' = (lapse \/ portFile' # server[s].port)
    /\ UNCHANGED <<tokenFile, foreign, tab>>

\* onListen: the port is recorded for the project, unless it is a fallback, which
\* records nothing and is up.
WritePort(s) ==
    /\ server[s].stage = "bound"
    /\ IF server[s].fallback
       THEN /\ server' = [server EXCEPT ![s].stage = "up"]
            /\ UNCHANGED <<portFile, lapse>>
       ELSE /\ server' = [server EXCEPT ![s].stage = "named"]
            /\ portFile' \in Written(portFile, server[s].port)
            /\ lapse' = (lapse \/ portFile' # server[s].port)
    /\ UNCHANGED <<tokenFile, foreign, tab>>

\* onListen: then the key.
WriteToken(s) ==
    /\ server[s].stage = "named"
    /\ server' = [server EXCEPT ![s].stage = "up"]
    /\ tokenFile' \in Written(tokenFile, server[s].token)
    /\ lapse' = (lapse \/ tokenFile' # server[s].token)
    /\ UNCHANGED <<portFile, foreign, tab>>

\* A bug: the tabs' sockets are left open.
ShutdownLeavesSockets(s) ==
    /\ Up(s) /\ server[s].expiry # "no"
    /\ server' = [server EXCEPT ![s].stage = "closing"]
    /\ UNCHANGED <<files, foreign, tab>>

\* The lifecycle check finds the owner dead or the server idle: shutdown.
Shutdown(s) ==
    /\ Up(s) /\ server[s].expiry # "no"
    /\ server' = [server EXCEPT ![s].stage = "closing"]
    /\ tab' = Destroyed(s)
    /\ UNCHANGED <<files, foreign>>

\* The callback of server.close: the last connection is gone.
Exit(s) ==
    /\ server[s].stage = "closing"
    /\ \A t \in Tabs : tab[t].conn # s /\ tab[t].dial # s
    /\ server' = Ended(s)
    /\ UNCHANGED <<files, foreign, tab>>

\* stop-server.sh sends SIGTERM, which has no handler, or something else kills it.
Killed(s) ==
    /\ Running(s)
    /\ server' = Ended(s)
    /\ tab' = Cut(s)
    /\ UNCHANGED <<files, foreign>>

\* The owner ends, if it was alive at startup and is watched; nothing looks earlier.
OwnerExits(s) ==
    /\ Up(s)
    /\ server' = [server EXCEPT ![s].expiry = "owner"]
    /\ UNCHANGED <<files, foreign, tab>>

\* IDLE_TIMEOUT_MS pass without activity.
IdlePasses(s) ==
    /\ Up(s) /\ server[s].expiry = "no"
    /\ server' = [server EXCEPT ![s].expiry = "idle"]
    /\ UNCHANGED <<files, foreign, tab>>

\* Another program takes the port of the project while no server has it, or leaves.
ForeignProgram ==
    /\ portFile # None
    /\ \A s \in Servers : Listening(s) => server[s].port # portFile
    /\ foreign' = ~foreign
    /\ UNCHANGED <<files, server, tab>>

-----------------------------------------------------------------------------
(* Screens.                                                                *)

\* The agent writes a screen; fs.watch sets the timer of its name anew.
WriteScreen(s, f) ==
    /\ Up(s) /\ s \in Showing
    /\ server' = [server EXCEPT ![s].timers = @ \cup {f}]
    /\ tab' = [t \in Tabs |-> [tab[t] EXCEPT !.newest = @ /\ tab[t].port # server[s].port]]
    /\ UNCHANGED <<files, foreign>>

\* broadcast
Told(s) == [t \in Tabs |-> [tab[t] EXCEPT !.reload = @ \/ tab[t].conn = s]]

\* The timer of f fires: its name is known from now on.
Fired(s, f) ==
    /\ server[s].stage \in {"up", "closing"} /\ f \in server[s].timers
    /\ server' = [Touched(s) EXCEPT ![s].timers = @ \ {f}, ![s].known = @ \cup {f}]
    /\ UNCHANGED <<files, foreign>>

\* A bug: the tabs hear of new screens only.
DebounceNewOnly(s, f) ==
    Fired(s, f) /\ tab' = IF f \in server[s].known THEN tab ELSE Told(s)

\* The timer of a written screen fires: all connected tabs are told to reload.
Debounce(s, f) == Fired(s, f) /\ tab' = Told(s)

-----------------------------------------------------------------------------
(* Tabs.                                                                   *)

\* The user, or the launched browser, opens the URL: handleRequest, then the page.
OpenTab(t, s) ==
    /\ ~tab[t].open /\ Up(s)
    /\ tab' = [tab EXCEPT ![t] = LoadedTab(s)]
    /\ server' = Touched(s)
    /\ UNCHANGED <<files, foreign>>

CloseTab(t) ==
    /\ tab[t].open
    /\ tab' = [tab EXCEPT ![t] = ClosedTab]
    /\ UNCHANGED <<files, foreign, server>>

\* connect() reaches the server on the tab's port.
Dial(t, s) ==
    /\ tab[t].open /\ ~tab[t].reload
    /\ tab[t].conn = None /\ tab[t].dial = None
    /\ Answers(s, t)
    /\ tab' = [tab EXCEPT ![t].dial = s]
    /\ UNCHANGED <<files, foreign, server>>

\* handleUpgrade, then onopen: the queued choices are sent; a tab that showed the
\* tombstone reloads.  With another key the socket is destroyed.
Upgrade(t, s) ==
    /\ tab[t].dial = s
    /\ IF Authorized(s, t)
       THEN /\ tab' = [tab EXCEPT ![t] = [tab[t] EXCEPT !.dial = None, !.conn = s, !.queue = FALSE,
                                             !.tombstone = FALSE, !.reload = tab[t].tombstone]]
            /\ server' = [IF tab[t].queue THEN Touched(s) ELSE server
                          EXCEPT ![s].late = ~Up(s)]
       ELSE /\ tab' = [tab EXCEPT ![t].dial = None]
            /\ UNCHANGED server
    /\ UNCHANGED <<files, foreign>>

\* The network drops the connection.
Disconnect(t) ==
    /\ tab[t].conn # None
    /\ tab' = [tab EXCEPT ![t].conn = None]
    /\ UNCHANGED <<files, foreign, server>>

\* TOMBSTONE_AFTER_MS without a connection.
Tombstone(t) ==
    /\ tab[t].open /\ tab[t].conn = None /\ tab[t].dial = None /\ ~tab[t].tombstone
    /\ tab' = [tab EXCEPT ![t].tombstone = TRUE]
    /\ UNCHANGED <<files, foreign, server>>

\* The page loads again; the browser shows an error when nobody answers.
Reload(t) ==
    /\ tab[t].reload
    /\ \/ \E s \in Servers :
             /\ Answers(s, t) /\ Authorized(s, t)
             /\ tab' = [tab EXCEPT ![t] = [LoadedTab(s) EXCEPT !.home = tab[t].home]]
             /\ server' = Touched(s)
       \/ /\ \A s \in Servers : ~(Answers(s, t) /\ Authorized(s, t))
          /\ tab' = [tab EXCEPT ![t] = ClosedTab]
          /\ UNCHANGED server
    /\ UNCHANGED <<files, foreign>>

\* The user makes a choice on the screen the tab shows.
Click(t) ==
    /\ tab[t].open /\ ~tab[t].tombstone
    /\ IF tab[t].conn = None
       THEN /\ tab' = [tab EXCEPT ![t].queue = TRUE]
            /\ UNCHANGED server
       ELSE /\ server' = Touched(tab[t].conn)
            /\ UNCHANGED tab
    /\ UNCHANGED <<files, foreign>>

-----------------------------------------------------------------------------

Next ==
    \/ \E s \in Servers :
          \/ Start(s) \/ ReadKey(s) \/ Listen(s) \/ AddressInUse(s)
          \/ WritePort(s) \/ WriteToken(s)
          \/ Shutdown(s) \/ Exit(s) \/ Killed(s)
          \/ OwnerExits(s) \/ IdlePasses(s)
          \/ \E f \in Files : WriteScreen(s, f) \/ Debounce(s, f)
    \/ ForeignProgram
    \/ \E t \in Tabs :
          \/ \E s \in Servers : OpenTab(t, s) \/ Dial(t, s) \/ Upgrade(t, s)
          \/ CloseTab(t) \/ Disconnect(t) \/ Tombstone(t) \/ Reload(t) \/ Click(t)

\* Timers fire, a started process goes on, a tab's retry timer and its reload run.
\* Each write of a screen sets its timer anew: bursts of writes come to an end.
Fairness ==
    /\ \A s \in Servers :
          /\ WF_vars(ReadKey(s) \/ Listen(s) \/ AddressInUse(s) \/ WritePort(s) \/ WriteToken(s))
          /\ WF_vars(Shutdown(s)) /\ WF_vars(Exit(s))
          /\ \A f \in Files : WF_vars(Debounce(s, f))
    /\ \A t \in Tabs :
          /\ WF_vars(Reload(t))
          /\ \A s \in Servers : WF_vars(Dial(t, s)) /\ WF_vars(Upgrade(t, s))

Spec == Init /\ [][Next]_vars /\ Fairness

-----------------------------------------------------------------------------
(* Properties.                                                             *)

\* While a tab is open that was loaded from a server with its preferred port, the
\* files of the project hold that tab's port and key, whatever other servers were
\* started, fell back or ended since, so that the next start serves this tab; or a
\* write of the files has failed, or a start found nothing in one of them while
\* another that may write was under way (server.cjs:668-679).
OpenTabsAreServed ==
    \A t \in Tabs : tab[t].home => (portFile = tab[t].port /\ tokenFile = tab[t].key) \/ lapse

\* The state invariant: every value has its type, and OpenTabsAreServed.
Inv == TypeOK /\ OpenTabsAreServed

\* A tab comes back by itself: while a server answers on its port, the tab gets a
\* connection and nothing it has queued is left, unless the tab is closed, the
\* server ends, or a server that was closing has accepted the tab and holds it
\* (server.cjs:115-122, visual-companion.md:109).  That the server has another key
\* than the tab is no excuse as long as the project's files are intact.
TabComesBack ==
    \A t \in Tabs :
        (tab[t].open /\ \E s \in Servers : Answers(s, t) /\ (Authorized(s, t) \/ ~lapse)) ~>
            \/ ~tab[t].open \/ \A s \in Servers : ~Answers(s, t)
            \/ tab[t].conn # None /\ (~tab[t].queue \/ server[tab[t].conn].late)

\* A server that shuts down leaves no process behind, whatever tabs are connected
\* to it, unless one of them was being connected at that moment and has been
\* accepted since (server.cjs:626-631).  There are as many shutdowns as starts, so
\* each ends if time and again none is under way.
ClosingExits ==
    []<>(\A s \in Servers : server[s].stage = "closing" => server[s].late)

\* A tab that is connected when a written screen's timer has yet to fire shows the
\* newest screen in the end, be the screen new or written over, or it has lost its
\* connection (server.cjs:590-612).
WrittenIsShown ==
    \A t \in Tabs :
        (tab[t].conn # None /\ server[tab[t].conn].timers # {}) ~>
            (tab[t].newest \/ tab[t].conn = None)

====
