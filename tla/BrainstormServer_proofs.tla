----------------------- MODULE BrainstormServer_proofs -----------------------
(***************************************************************************)
(* The visual companion, for any number of starts, tabs and screens, in    *)
(* any interleaving of the reads and writes of the project's files: a tab  *)
(* that was loaded from a server with its preferred port finds its port    *)
(* and its key in the files, unless a write has failed or two starts found *)
(* one of the files empty.  The reason: as long as a file is empty, one    *)
(* start at most has drawn what it will write there, and once it is        *)
(* written every later start has read it, and writes it again.             *)
(***************************************************************************)
EXTENDS BrainstormServer, TLAPS

\* A start that may write and has its key.
Keyed(s) == MayWrite(s) /\ server[s].stage # "reading"

\* Whose port the port file holds, and whose key the other file.
HasNamed(s) == server[s].stage = "named" \/ (Up(s) /\ ~server[s].fallback)
HasWritten(s) == Up(s) /\ ~server[s].fallback

\* A start has a port, and then a key; only one that has not fallen back writes.  As
\* long as nothing has gone wrong, one that may write has what the files say, if
\* they say something, and one that has written them finds in them what it wrote.
ServerOK(s) ==
    /\ Starting(s) \/ Up(s) => server[s].port \in Draws
    /\ (Starting(s) /\ server[s].stage # "reading") \/ Up(s) => server[s].token \in Draws
    /\ server[s].stage = "named" => ~server[s].fallback
    /\ ~lapse =>
          /\ MayWrite(s) /\ portFile # None => server[s].port = portFile
          /\ Keyed(s) /\ tokenFile # None => server[s].token = tokenFile
          /\ HasNamed(s) => server[s].port = portFile
          /\ HasWritten(s) => server[s].token = tokenFile

\* A tab at home has what the files say, and they say something.
TabOK(t) ==
    tab[t].home /\ ~lapse =>
        /\ portFile \in Draws /\ tokenFile \in Draws
        /\ portFile = tab[t].port /\ tokenFile = tab[t].key

\* As long as a file is empty, one start at most has something to write into it.
OneDraw ==
    ~lapse => \A s, u \in Servers :
        /\ portFile = None /\ MayWrite(s) /\ MayWrite(u) => s = u
        /\ tokenFile = None /\ Keyed(s) /\ Keyed(u) => s = u

ServersOK == \A s \in Servers : ServerOK(s)
TabsOK == \A t \in Tabs : TabOK(t)

IInv == TypeOK /\ ServersOK /\ TabsOK /\ OneDraw

\* A file that says something is not changed, unless a write fails or two starts have
\* found one of the files empty.
FilesStay == [][~lapse' => /\ portFile # None => UNCHANGED portFile
                           /\ tokenFile # None => UNCHANGED tokenFile]_vars

-----------------------------------------------------------------------------
(* Frames: what a step may change without touching what is said.           *)

Described == {"reading", "bind", "bound", "named", "up"}

\* A server that does not start anew and says the same of itself keeps ServerOK.
Goes(s) ==
    /\ server'[s].stage \in Described =>
          /\ server'[s].port = server[s].port /\ server'[s].token = server[s].token
          /\ server'[s].fallback = server[s].fallback
          /\ server'[s].stage = server[s].stage

\* Servers that go on keep what is said of them, each and all together.
LEMMA GoesKeeps ==
    ASSUME ServersOK, OneDraw, UNCHANGED files, \A s \in Servers : Goes(s)
    PROVE  ServersOK' /\ OneDraw'
<1>1. UNCHANGED <<portFile, tokenFile, lapse>>
  BY DEF files
<1>2. ASSUME NEW s \in Servers PROVE ServerOK(s)'
  BY <1>1 DEF ServersOK, ServerOK, Starting, Up, MayWrite, Keyed, HasNamed, HasWritten, Goes,
              Described
<1>3. OneDraw'
  BY <1>1 DEF OneDraw, Starting, MayWrite, Keyed, Goes, Described
<1> QED
  BY <1>2, <1>3 DEF ServersOK

\* A tab that keeps its port, its key and its home keeps TabOK.
Stays(t) == tab'[t].home => /\ tab[t].home
                            /\ tab'[t].port = tab[t].port /\ tab'[t].key = tab[t].key

\* Tabs that stay keep what is said of them.
LEMMA StaysKeeps ==
    ASSUME TabsOK, UNCHANGED files, \A t \in Tabs : Stays(t)
    PROVE  TabsOK'
BY DEF TabsOK, TabOK, Stays, files

\* A step in which all servers go on and all tabs stay.
Quiet == /\ UNCHANGED files
         /\ \A s \in Servers : Goes(s)
         /\ \A t \in Tabs : Stays(t)

\* A quiet step keeps the invariant.
LEMMA QuietKeeps ==
    ASSUME IInv, TypeOK', Quiet PROVE IInv'
BY GoesKeeps, StaysKeeps DEF IInv, Quiet

\* A tab's activity only takes back that the server was idle.
LEMMA TouchedGoes ==
    ASSUME TypeOK, NEW s \in Servers, server' = Touched(s)
    PROVE  server' \in [Servers -> ServerRecords] /\ \A u \in Servers : Goes(u)
BY DEF TypeOK, Touched, ServerRecords, Goes

\* Nothing is said of servers and tabs that are as they were.
LEMMA SameGoes ==
    /\ UNCHANGED server => \A s \in Servers : Goes(s)
    /\ UNCHANGED tab => \A t \in Tabs : Stays(t)
BY DEF Goes, Stays

\* The program that may take the port is Boolean as long as it is not changed.
LEMMA ForeignKept ==
    ASSUME TypeOK, UNCHANGED foreign PROVE foreign' \in BOOLEAN
BY Zenon DEF TypeOK

-----------------------------------------------------------------------------
(* The server's life.                                                      *)

\* What a step of the start of s does: s goes on to another record.
StartsOn(s) ==
    /\ server' \in [Servers -> ServerRecords]
    /\ \A u \in Servers \ {s} : server'[u] = server[u]

\* What is said of the other starts rests on files that do not change.
LEMMA OthersKept ==
    ASSUME IInv, NEW s \in Servers, StartsOn(s), UNCHANGED <<portFile, tokenFile>>,
           ~lapse' => ~lapse, NEW u \in Servers \ {s}
    PROVE  ServerOK(u)'
BY DEF IInv, ServersOK, ServerOK, StartsOn, Starting, Up, MayWrite, Keyed, HasNamed, HasWritten

\* Tabs are not touched.
LEMMA TabsKept ==
    ASSUME IInv, UNCHANGED <<portFile, tokenFile>>, ~lapse' => ~lapse, \A t \in Tabs : Stays(t)
    PROVE  TabsOK'
BY DEF IInv, TabsOK, TabOK, Stays

\* A start reads the port, or draws one, alone.
LEMMA StartStep ==
    ASSUME IInv, NEW s \in Servers, Start(s) PROVE IInv'
<1>1. PICK p \in Read(portFile, \E u \in Servers : server[u].stage = "bound" /\ MayWrite(u)) :
         /\ server' = [server EXCEPT ![s] =
                         [NewServer EXCEPT !.stage = "reading",
                                           !.port = IF p # None THEN p ELSE <<s, "first">>]]
         /\ lapse' = (lapse \/ BothEmpty(s, p))
  BY DEF Start
<1>2. UNCHANGED <<portFile, tokenFile, foreign, tab>> /\ server[s].stage = "off"
  BY DEF Start
<1>0. p \in {portFile, None} /\ (p # portFile => p = None /\ \E u \in Servers \ {s} : MayWrite(u))
  BY <1>1, <1>2 DEF Read
<1> DEFINE q == IF p # None THEN p ELSE <<s, "first">>
           r == [NewServer EXCEPT !.stage = "reading", !.port = q]
<1>3. q \in Draws /\ (p # None => p = portFile /\ q = portFile)
  BY <1>0 DEF IInv, TypeOK, Draws
<1> HIDE DEF q
<1>4. /\ r \in ServerRecords /\ r.stage = "reading" /\ r.port = q /\ ~r.fallback
  BY <1>3 DEF NewServer, ServerRecords
<1>5. server' = [server EXCEPT ![s] = r]
  BY <1>1 DEF q
<1> HIDE DEF r
<1>6. StartsOn(s) /\ server'[s] = r
  BY <1>4, <1>5 DEF StartsOn, IInv, TypeOK
<1>7. lapse' \in BOOLEAN /\ (~lapse' => ~lapse /\ ~BothEmpty(s, p))
  BY <1>1, Zenon DEF IInv, TypeOK
<1>8. TypeOK'
  BY <1>2, <1>6, <1>7, ForeignKept DEF IInv, TypeOK, StartsOn
<1>9. ASSUME ~lapse', p = None, NEW u \in Servers \ {s} PROVE ~MayWrite(u)
  BY <1>7, <1>9 DEF BothEmpty
<1>10. ASSUME ~lapse', portFile = None, NEW u \in Servers \ {s} PROVE ~MayWrite(u)
  BY <1>0, <1>9, <1>10
<1>11. ServerOK(s)'
  <2>1. ASSUME ~lapse', portFile # None PROVE q = portFile
    <3>1. CASE p # None
      BY <1>3, <3>1
    <3>2. CASE p = None
      BY <1>0, <1>9, <2>1, <3>2
    <3> QED
      BY <3>1, <3>2
  <2> QED
    BY <1>2, <1>3, <1>4, <1>6, <2>1
       DEF ServerOK, Starting, Up, MayWrite, Keyed, HasNamed, HasWritten
<1>12. ServersOK'
  BY <1>2, <1>6, <1>7, <1>11, OthersKept DEF ServersOK
<1>13. OneDraw'
  <2>1. ASSUME ~lapse', NEW u \in Servers, NEW v \in Servers, portFile' = None,
               MayWrite(u)', MayWrite(v)'
        PROVE  u = v
    BY <1>2, <1>6, <1>10, <2>1 DEF StartsOn, MayWrite, Starting
  <2>2. ASSUME ~lapse', NEW u \in Servers, NEW v \in Servers, tokenFile' = None,
               Keyed(u)', Keyed(v)'
        PROVE  u = v
    BY <1>2, <1>4, <1>6, <1>7, <2>2 DEF StartsOn, Keyed, MayWrite, Starting, IInv, OneDraw
  <2> QED
    BY <2>1, <2>2 DEF OneDraw
<1>14. TabsOK'
  BY <1>2, <1>7, SameGoes, TabsKept
<1> QED
  BY <1>8, <1>12, <1>13, <1>14 DEF IInv

\* Then it reads the key, or draws one, alone.
LEMMA ReadKeyStep ==
    ASSUME IInv, NEW s \in Servers, ReadKey(s) PROVE IInv'
<1>1. PICK k \in Read(tokenFile, \E u \in Servers : server[u].stage = "named") :
         /\ server' = [server EXCEPT ![s].stage = "bind", ![s].token = InitialToken(s, k)]
         /\ lapse' = (lapse \/ BothEmpty(s, k))
  BY DEF ReadKey
<1>2. UNCHANGED <<portFile, tokenFile, foreign, tab>> /\ server[s].stage = "reading"
  BY DEF ReadKey
<1>3. k \in {tokenFile, None} /\ (k # tokenFile => k = None /\ \E u \in Servers \ {s} : MayWrite(u))
  BY <1>1, <1>2 DEF Read, MayWrite, Starting, IInv, ServersOK, ServerOK
<1> DEFINE q == InitialToken(s, k)
<1>4. q \in Draws /\ (k # None => k = tokenFile /\ q = tokenFile)
  BY <1>3 DEF IInv, TypeOK, Draws, InitialToken
<1> HIDE DEF q
<1>5. /\ server' \in [Servers -> ServerRecords]
      /\ server'[s].stage = "bind" /\ server'[s].port = server[s].port
      /\ server'[s].token = q /\ server'[s].fallback = server[s].fallback
      /\ \A u \in Servers \ {s} : server'[u] = server[u]
  <2> DEFINE r == [server[s] EXCEPT !.stage = "bind", !.token = q]
  <2>1. server[s] \in ServerRecords /\ server \in [Servers -> ServerRecords]
    BY DEF IInv, TypeOK
  <2>2. server' = [server EXCEPT ![s] = r]
    BY <1>1, <2>1 DEF q
  <2>3. /\ r \in ServerRecords /\ r.stage = "bind" /\ r.port = server[s].port
        /\ r.token = q /\ r.fallback = server[s].fallback
    BY <1>4, <2>1 DEF ServerRecords
  <2> HIDE DEF r
  <2> QED
    BY <2>1, <2>2, <2>3
<1>6. StartsOn(s)
  BY <1>5 DEF StartsOn
<1>7. lapse' \in BOOLEAN /\ (~lapse' => ~lapse /\ ~BothEmpty(s, k))
  BY <1>1, Zenon DEF IInv, TypeOK
<1>8. TypeOK'
  BY <1>2, <1>5, <1>7, ForeignKept DEF IInv, TypeOK
<1>9. ASSUME ~lapse', k = None, NEW u \in Servers \ {s} PROVE ~MayWrite(u)
  BY <1>7, <1>9 DEF BothEmpty
<1>10. ASSUME ~lapse', tokenFile = None, NEW u \in Servers \ {s} PROVE ~MayWrite(u)
  BY <1>3, <1>9, <1>10
<1>11. ServerOK(s)'
  <2>1. ASSUME ~lapse', tokenFile # None PROVE q = tokenFile
    <3>1. CASE k # None
      BY <1>4, <3>1
    <3>2. CASE k = None
      BY <1>3, <1>9, <2>1, <3>2
    <3> QED
      BY <3>1, <3>2
  <2>2. ServerOK(s)
    BY DEF IInv, ServersOK
  <2> QED
    BY <1>2, <1>4, <1>5, <1>7, <2>1, <2>2
       DEF ServerOK, Starting, Up, MayWrite, Keyed, HasNamed, HasWritten
<1>12. ServersOK'
  BY <1>2, <1>6, <1>7, <1>11, OthersKept DEF ServersOK
<1>13. OneDraw'
  <2>1. ASSUME ~lapse', NEW u \in Servers, NEW v \in Servers, portFile' = None,
               MayWrite(u)', MayWrite(v)'
        PROVE  u = v
    BY <1>2, <1>5, <1>7, <2>1 DEF MayWrite, Starting, IInv, OneDraw
  <2>2. ASSUME ~lapse', NEW u \in Servers, NEW v \in Servers, tokenFile' = None,
               Keyed(u)', Keyed(v)'
        PROVE  u = v
    BY <1>2, <1>5, <1>10, <2>2 DEF Keyed, MayWrite, Starting
  <2> QED
    BY <2>1, <2>2 DEF OneDraw
<1>14. TabsOK'
  BY <1>2, <1>7, SameGoes, TabsKept
<1> QED
  BY <1>8, <1>12, <1>13, <1>14 DEF IInv

\* A page that gets old is still at home.
LEMMA OldPagesStay ==
    ASSUME TypeOK, NEW s \in Servers,
           tab' = [t \in Tabs |-> [tab[t] EXCEPT !.newest = @ /\ tab[t].port # server[s].port]]
    PROVE  tab' \in [Tabs -> TabRecords] /\ \A t \in Tabs : Stays(t)
<1>1. ASSUME NEW t \in Tabs PROVE tab'[t] \in TabRecords /\ Stays(t)
  <2>1. PICK q \in BOOLEAN : q = (tab[t].newest /\ tab[t].port # server[s].port)
    BY Zenon
  <2>2. tab'[t] = [tab[t] EXCEPT !.newest = q]
    BY <2>1, Zenon
  <2>3. tab[t] \in TabRecords
    BY DEF TypeOK
  <2>4. /\ tab'[t] \in TabRecords /\ tab'[t].home = tab[t].home
        /\ tab'[t].port = tab[t].port /\ tab'[t].key = tab[t].key
    BY <2>2, <2>3, ZenonT(40) DEF TabRecords
  <2> QED
    BY <2>4, Zenon DEF Stays
<1> QED
  BY <1>1

\* The port is bound.
LEMMA ListenStep ==
    ASSUME IInv, NEW s \in Servers, Listen(s) PROVE IInv'
<1>1. /\ server[s].stage = "bind" /\ server' = [server EXCEPT ![s].stage = "bound"]
      /\ UNCHANGED <<files, foreign>>
      /\ tab' = [t \in Tabs |-> [tab[t] EXCEPT !.newest = @ /\ tab[t].port # server[s].port]]
  BY DEF Listen
<1>2. tab' \in [Tabs -> TabRecords] /\ \A t \in Tabs : Stays(t)
  BY <1>1, OldPagesStay DEF IInv
<1>3. /\ server' \in [Servers -> ServerRecords]
      /\ server'[s].stage = "bound" /\ server'[s].port = server[s].port
      /\ server'[s].token = server[s].token /\ server'[s].fallback = server[s].fallback
      /\ \A u \in Servers \ {s} : server'[u] = server[u]
  BY <1>1, ZenonT(40) DEF IInv, TypeOK, ServerRecords
<1>4. TypeOK'
  BY <1>1, <1>2, <1>3, ForeignKept DEF IInv, TypeOK, files
<1>5. UNCHANGED <<portFile, tokenFile, lapse>>
  BY <1>1 DEF files
<1>6. ServerOK(s)'
  <2>1. ServerOK(s)
    BY DEF IInv, ServersOK
  <2> QED
    BY <1>1, <1>3, <1>5, <2>1
       DEF ServerOK, Starting, Up, MayWrite, Keyed, HasNamed, HasWritten
<1>7. ServersOK'
  BY <1>3, <1>5, <1>6, OthersKept DEF ServersOK, StartsOn
<1>8. OneDraw'
  BY <1>1, <1>3, <1>5 DEF IInv, OneDraw, Keyed, MayWrite, Starting
<1>9. TabsOK'
  BY <1>1, <1>2, StaysKeeps DEF IInv
<1> QED
  BY <1>4, <1>7, <1>8, <1>9 DEF IInv

\* The port is taken: another one is tried, once, and nothing will be written.
LEMMA AddressInUseStep ==
    ASSUME IInv, NEW s \in Servers, AddressInUse(s) PROVE IInv'
<1>1. /\ server[s].stage = "bind" /\ UNCHANGED <<files, foreign, tab>>
  BY DEF AddressInUse
<1>2. PICK r \in ServerRecords :
        /\ server' = [server EXCEPT ![s] = r]
        /\ \/ r.stage = "exited"
           \/ r.stage = "bind" /\ r.fallback /\ r.port \in Draws /\ r.token \in Draws
  <2>1. CASE server[s].fallback
    <3>1. server' = [server EXCEPT ![s] = [NewServer EXCEPT !.stage = "exited"]]
      BY <2>1 DEF AddressInUse
    <3>2. [NewServer EXCEPT !.stage = "exited"] \in ServerRecords
      BY DEF NewServer, ServerRecords
    <3> QED
      BY <3>1, <3>2 DEF NewServer
  <2>2. CASE ~server[s].fallback
    <3> DEFINE k == IF server[s].token = <<s, "first">> THEN server[s].token ELSE <<s, "fallback">>
               r == [server[s] EXCEPT !.fallback = TRUE, !.port = <<s, "fallback">>, !.token = k]
    <3>1. server' = [server EXCEPT ![s] = r]
      BY <2>2 DEF AddressInUse
    <3>2. k \in Draws
      BY DEF Draws
    <3> HIDE DEF k
    <3>3. /\ r \in ServerRecords /\ r.stage = "bind" /\ r.fallback
          /\ r.port \in Draws /\ r.token \in Draws
      <4>1. server[s] \in ServerRecords /\ <<s, "fallback">> \in Draws
        BY DEF IInv, TypeOK, Draws
      <4> QED
        BY <1>1, <3>2, <4>1 DEF ServerRecords
    <3> QED
      BY <3>1, <3>3
  <2> QED
    BY <2>1, <2>2
<1>3. /\ server' \in [Servers -> ServerRecords] /\ server'[s] = r
      /\ \A u \in Servers \ {s} : server'[u] = server[u]
  BY <1>2 DEF IInv, TypeOK
<1>4. TypeOK'
  BY <1>1, <1>3, ForeignKept DEF IInv, TypeOK, files
<1>5. UNCHANGED <<portFile, tokenFile, lapse>>
  BY <1>1 DEF files
<1>6. ServerOK(s)'
  BY <1>2, <1>3 DEF ServerOK, Starting, Up, MayWrite, Keyed, HasNamed, HasWritten
<1>7. ServersOK'
  BY <1>3, <1>5, <1>6, OthersKept DEF ServersOK, StartsOn
<1>8. OneDraw'
  BY <1>2, <1>3, <1>5 DEF IInv, OneDraw, Keyed, MayWrite, Starting
<1>9. TabsOK'
  BY <1>1, SameGoes, StaysKeeps DEF IInv
<1> QED
  BY <1>4, <1>7, <1>8, <1>9 DEF IInv

\* The port is written: what the file says already, or what it says from now on.
LEMMA WritePortStep ==
    ASSUME IInv, NEW s \in Servers, WritePort(s)
    PROVE  /\ IInv'
           /\ ~lapse' /\ portFile # None => UNCHANGED portFile
<1>1. /\ server[s].stage = "bound" /\ UNCHANGED <<tokenFile, foreign, tab>>
      /\ ServerOK(s)
  BY DEF WritePort, IInv, ServersOK
<1>2. PICK stage \in {"named", "up"} :
        /\ server' = [server EXCEPT ![s].stage = stage]
        /\ stage = "up" <=> server[s].fallback
  BY DEF WritePort
<1>3. /\ server' \in [Servers -> ServerRecords]
      /\ server'[s].stage = stage /\ server'[s].port = server[s].port
      /\ server'[s].token = server[s].token /\ server'[s].fallback = server[s].fallback
      /\ \A u \in Servers \ {s} : server'[u] = server[u]
  <2>1. \A x \in ServerRecords : [x EXCEPT !.stage = stage] \in ServerRecords
    BY DEF ServerRecords
  <2>2. server \in [Servers -> ServerRecords] /\ server[s] \in ServerRecords
    BY DEF IInv, TypeOK
  <2>3. server' = [server EXCEPT ![s] = [server[s] EXCEPT !.stage = stage]]
    BY <1>2
  <2>4. /\ server' \in [Servers -> ServerRecords]
        /\ server'[s] = [server[s] EXCEPT !.stage = stage]
    BY <2>1, <2>2, <2>3
  <2> QED
    BY <2>2, <2>3, <2>4 DEF ServerRecords
<1>4. ~lapse' => ~lapse
  BY DEF WritePort
<1>5. CASE server[s].fallback
  <2>1. UNCHANGED <<portFile, lapse>>
    BY <1>5 DEF WritePort
  <2>2. TypeOK'
    BY <1>1, <1>3, <2>1, ForeignKept DEF IInv, TypeOK
  <2>3. ServerOK(s)'
    BY <1>1, <1>2, <1>3, <1>5, <2>1
       DEF ServerOK, Starting, Up, MayWrite, Keyed, HasNamed, HasWritten
  <2>4. ServersOK'
    BY <1>1, <1>3, <2>1, <2>3, OthersKept DEF ServersOK, StartsOn
  <2>5. OneDraw'
    BY <1>1, <1>2, <1>3, <1>5, <2>1 DEF IInv, OneDraw, Keyed, MayWrite, Starting
  <2>6. TabsOK'
    BY <1>1, <2>1, SameGoes, TabsKept
  <2> QED
    BY <2>1, <2>2, <2>4, <2>5, <2>6 DEF IInv
<1>6. CASE ~server[s].fallback
  <2>1. /\ portFile' \in Written(portFile, server[s].port)
        /\ lapse' = (lapse \/ portFile' # server[s].port)
    BY <1>6 DEF WritePort
  <2>2. server[s].port \in Draws /\ MayWrite(s) /\ Keyed(s) /\ stage = "named"
    BY <1>1, <1>2, <1>6 DEF ServerOK, Starting, MayWrite, Keyed
  <2>3. ASSUME ~lapse' PROVE portFile' = server[s].port /\ portFile' # None
    BY <2>1, <2>2, <2>3, NoneAssumption
  <2>4. ASSUME ~lapse', portFile # None PROVE UNCHANGED portFile
    BY <1>1, <1>4, <2>2, <2>3, <2>4 DEF ServerOK
  <2>5. TypeOK'
    <3>1. portFile' \in Draws \cup {None}
      BY <2>1, <2>2 DEF Written, IInv, TypeOK
    <3>2. lapse' \in BOOLEAN
      BY <2>1, Zenon DEF IInv, TypeOK
    <3> QED
      BY <1>1, <1>3, <3>1, <3>2, ForeignKept DEF IInv, TypeOK
  <2>6. ServerOK(s)'
    BY <1>1, <1>3, <1>4, <1>6, <2>2, <2>3
       DEF ServerOK, Starting, Up, MayWrite, Keyed, HasNamed, HasWritten
  <2>7. ASSUME NEW u \in Servers \ {s} PROVE ServerOK(u)'
    <3>1. ServerOK(u)
      BY DEF IInv, ServersOK
    <3>2. ASSUME ~lapse', portFile = None PROVE ~MayWrite(u) /\ ~HasNamed(u)
      BY <1>4, <2>2, <2>7, <3>1, <3>2, NoneAssumption
         DEF IInv, OneDraw, ServerOK, HasNamed, MayWrite, Starting
    <3> QED
      BY <1>1, <1>3, <1>4, <2>4, <2>7, <3>1, <3>2
         DEF ServerOK, Starting, Up, MayWrite, Keyed, HasNamed, HasWritten
  <2>8. OneDraw'
    BY <1>1, <1>3, <1>4, <2>2, <2>3 DEF IInv, OneDraw, Keyed, MayWrite, Starting
  <2>9. TabsOK'
    BY <1>1, <1>4, <2>4, NoneAssumption DEF IInv, TabsOK, TabOK
  <2> QED
    BY <2>4, <2>5, <2>6, <2>7, <2>8, <2>9 DEF IInv, ServersOK
<1> QED
  BY <1>5, <1>6

\* The key is written, in the same way, and the server is up.
LEMMA WriteTokenStep ==
    ASSUME IInv, NEW s \in Servers, WriteToken(s)
    PROVE  /\ IInv'
           /\ ~lapse' /\ tokenFile # None => UNCHANGED tokenFile
<1>1. /\ server[s].stage = "named" /\ UNCHANGED <<portFile, foreign, tab>>
      /\ ServerOK(s)
      /\ server' = [server EXCEPT ![s].stage = "up"]
      /\ tokenFile' \in Written(tokenFile, server[s].token)
      /\ lapse' = (lapse \/ tokenFile' # server[s].token)
  BY DEF WriteToken, IInv, ServersOK
<1>2. server[s].token \in Draws /\ MayWrite(s) /\ Keyed(s) /\ HasNamed(s) /\ ~server[s].fallback
  BY <1>1 DEF ServerOK, Starting, MayWrite, Keyed, HasNamed
<1>3. /\ server' \in [Servers -> ServerRecords]
      /\ server'[s].stage = "up" /\ server'[s].port = server[s].port
      /\ server'[s].token = server[s].token /\ server'[s].fallback = server[s].fallback
      /\ \A u \in Servers \ {s} : server'[u] = server[u]
  BY <1>1 DEF IInv, TypeOK, ServerRecords
<1>4. ASSUME ~lapse' PROVE ~lapse /\ tokenFile' = server[s].token /\ tokenFile' # None
  BY <1>1, <1>2, <1>4, NoneAssumption
<1>5. ASSUME ~lapse', tokenFile # None PROVE UNCHANGED tokenFile
  BY <1>1, <1>2, <1>4, <1>5 DEF ServerOK
<1>6. TypeOK'
  <2>1. tokenFile' \in Draws \cup {None}
    BY <1>1, <1>2 DEF Written, IInv, TypeOK
  <2>2. lapse' \in BOOLEAN
    BY <1>1, Zenon DEF IInv, TypeOK
  <2> QED
    BY <1>1, <1>3, <2>1, <2>2, ForeignKept DEF IInv, TypeOK
<1>7. ServerOK(s)'
  BY <1>1, <1>2, <1>3, <1>4
     DEF ServerOK, Starting, Up, MayWrite, Keyed, HasNamed, HasWritten
<1>8. ASSUME NEW u \in Servers \ {s} PROVE ServerOK(u)'
  <2>1. ServerOK(u)
    BY DEF IInv, ServersOK
  <2>2. ASSUME ~lapse', tokenFile = None PROVE ~Keyed(u) /\ ~HasWritten(u)
    BY <1>2, <1>4, <1>8, <2>1, <2>2, NoneAssumption DEF IInv, OneDraw, ServerOK, HasWritten
  <2> QED
    BY <1>1, <1>3, <1>4, <1>5, <1>8, <2>1, <2>2
       DEF ServerOK, Starting, Up, MayWrite, Keyed, HasNamed, HasWritten
<1>9. OneDraw'
  BY <1>1, <1>3, <1>4 DEF IInv, OneDraw, Keyed, MayWrite, Starting
<1>10. TabsOK'
  BY <1>1, <1>4, <1>5, NoneAssumption DEF IInv, TabsOK, TabOK
<1> QED
  BY <1>5, <1>6, <1>7, <1>8, <1>9, <1>10 DEF IInv, ServersOK

\* What a server may become by a step that says nothing about its port and key.
Becomes(s, r) ==
    /\ r \in ServerRecords
    /\ r.stage \notin {"closing", "exited"} =>
          /\ r.stage = server[s].stage /\ r.port = server[s].port /\ r.token = server[s].token
          /\ r.fallback = server[s].fallback

\* A server that becomes such a record goes on, and the others do.
LEMMA ServerBecomes ==
    ASSUME TypeOK, NEW s \in Servers, NEW r, Becomes(s, r), server' = [server EXCEPT ![s] = r]
    PROVE  server' \in [Servers -> ServerRecords] /\ \A u \in Servers : Goes(u)
<1>1. server' \in [Servers -> ServerRecords] /\ server'[s] = r
      /\ \A u \in Servers \ {s} : server'[u] = server[u]
  BY DEF TypeOK, Becomes
<1> QED
  BY <1>1 DEF Becomes, Goes, Described

\* What a tab may become.
TabBecomes(t, r) ==
    r \in TabRecords /\ (r.home => tab[t].home /\ r.port = tab[t].port /\ r.key = tab[t].key)

\* Tabs that all become such records stay.
LEMMA TabsBecome ==
    ASSUME NEW f, tab' = f, f \in [Tabs -> TabRecords], \A t \in Tabs : TabBecomes(t, f[t])
    PROVE  tab' \in [Tabs -> TabRecords] /\ \A t \in Tabs : Stays(t)
BY DEF TabBecomes, Stays

\* The same when one tab changes.
LEMMA TabBecomesOne ==
    ASSUME TypeOK, NEW t \in Tabs, NEW r, TabBecomes(t, r), tab' = [tab EXCEPT ![t] = r]
    PROVE  tab' \in [Tabs -> TabRecords] /\ \A u \in Tabs : Stays(u)
BY DEF TypeOK, TabBecomes, Stays

\* Sockets that are cut or destroyed leave the tabs where they are.
LEMMA SocketsClose ==
    ASSUME TypeOK, NEW s \in Servers, tab' = Cut(s) \/ tab' = Destroyed(s)
    PROVE  tab' \in [Tabs -> TabRecords] /\ \A t \in Tabs : Stays(t)
<1>1. CASE tab' = Cut(s)
  <2>1. ASSUME NEW t \in Tabs PROVE Cut(s)[t] \in TabRecords /\ TabBecomes(t, Cut(s)[t])
    BY ZenonT(40) DEF Cut, TypeOK, TabRecords, TabBecomes
  <2>2. Cut(s) \in [Tabs -> TabRecords]
    BY <2>1 DEF Cut
  <2> QED
    BY <1>1, <2>1, <2>2, TabsBecome
<1>2. CASE tab' = Destroyed(s)
  <2>1. ASSUME NEW t \in Tabs PROVE Destroyed(s)[t] \in TabRecords /\ TabBecomes(t, Destroyed(s)[t])
    BY DEF Destroyed, TypeOK, TabRecords, TabBecomes
  <2>2. Destroyed(s) \in [Tabs -> TabRecords]
    BY <2>1 DEF Destroyed
  <2> QED
    BY <1>2, <2>1, <2>2, TabsBecome
<1> QED
  BY <1>1, <1>2

\* The server shuts down.
LEMMA ShutdownStep ==
    ASSUME IInv, NEW s \in Servers, Shutdown(s) PROVE IInv'
<1> DEFINE r == [server[s] EXCEPT !.stage = "closing"]
<1>1. Becomes(s, r) /\ server' = [server EXCEPT ![s] = r]
  BY DEF Shutdown, Becomes, IInv, TypeOK, ServerRecords
<1> HIDE DEF r
<1>2. server' \in [Servers -> ServerRecords] /\ \A u \in Servers : Goes(u)
  BY <1>1, ServerBecomes DEF IInv
<1>3. tab' \in [Tabs -> TabRecords] /\ \A t \in Tabs : Stays(t)
  BY SocketsClose DEF Shutdown, IInv
<1>4. TypeOK'
  BY <1>2, <1>3, ForeignKept DEF Shutdown, IInv, TypeOK, files
<1> QED
  BY <1>2, <1>3, <1>4, QuietKeeps DEF Shutdown, Quiet

\* A process ends, by itself or killed.
LEMMA EndStep ==
    ASSUME IInv, NEW s \in Servers, Exit(s) \/ Killed(s) PROVE IInv'
<1> DEFINE r == [NewServer EXCEPT !.stage = "exited"]
<1>1. Becomes(s, r) /\ server' = [server EXCEPT ![s] = r]
  BY DEF Exit, Killed, Ended, Becomes, NewServer, ServerRecords
<1> HIDE DEF r
<1>2. server' \in [Servers -> ServerRecords] /\ \A u \in Servers : Goes(u)
  BY <1>1, ServerBecomes DEF IInv
<1>3. tab' \in [Tabs -> TabRecords] /\ \A t \in Tabs : Stays(t)
  BY SocketsClose, SameGoes DEF Exit, Killed, IInv, TypeOK
<1>4. UNCHANGED <<files, foreign>>
  BY DEF Exit, Killed
<1>5. TypeOK'
  BY <1>2, <1>3, <1>4, ForeignKept DEF IInv, TypeOK, files
<1> QED
  BY <1>2, <1>3, <1>4, <1>5, QuietKeeps DEF Quiet

\* The server is found without owner, or idle.
LEMMA ExpiryStep ==
    ASSUME IInv, NEW s \in Servers, OwnerExits(s) \/ IdlePasses(s) PROVE IInv'
<1>1. UNCHANGED <<files, foreign, tab>>
  BY DEF OwnerExits, IdlePasses
<1>2. PICK e \in {"owner", "idle"} : server' = [server EXCEPT ![s].expiry = e]
  BY DEF OwnerExits, IdlePasses
<1> DEFINE r == [server[s] EXCEPT !.expiry = e]
<1>3. Becomes(s, r) /\ server' = [server EXCEPT ![s] = r]
  BY <1>2 DEF Becomes, IInv, TypeOK, ServerRecords
<1> HIDE DEF r
<1>4. server' \in [Servers -> ServerRecords] /\ \A u \in Servers : Goes(u)
  BY <1>3, ServerBecomes DEF IInv
<1>5. TypeOK'
  BY <1>1, <1>4, ForeignKept DEF IInv, TypeOK, files
<1> QED
  BY <1>1, <1>4, <1>5, SameGoes, QuietKeeps DEF Quiet

\* Another program comes or goes.
LEMMA ForeignStep ==
    ASSUME IInv, ForeignProgram PROVE IInv'
<1>1. TypeOK'
  BY DEF ForeignProgram, IInv, TypeOK, files
<1> QED
  BY <1>1, SameGoes, QuietKeeps DEF ForeignProgram, Quiet

-----------------------------------------------------------------------------
(* Screens and tabs.                                                       *)

\* A screen is written.
LEMMA WriteScreenStep ==
    ASSUME IInv, NEW s \in Servers, NEW f \in Files, WriteScreen(s, f) PROVE IInv'
<1> DEFINE r == [server[s] EXCEPT !.timers = @ \cup {f}]
<1>1. Becomes(s, r) /\ server' = [server EXCEPT ![s] = r]
  BY DEF WriteScreen, Becomes, IInv, TypeOK, ServerRecords
<1> HIDE DEF r
<1>2. server' \in [Servers -> ServerRecords] /\ \A u \in Servers : Goes(u)
  BY <1>1, ServerBecomes DEF IInv
<1>3. tab' \in [Tabs -> TabRecords] /\ \A t \in Tabs : Stays(t)
  BY OldPagesStay DEF WriteScreen, IInv
<1>4. TypeOK'
  BY <1>2, <1>3, ForeignKept DEF WriteScreen, IInv, TypeOK, files
<1> QED
  BY <1>2, <1>3, <1>4, QuietKeeps DEF WriteScreen, Quiet

\* A written screen's timer fires and the tabs are told.
LEMMA DebounceStep ==
    ASSUME IInv, NEW s \in Servers, NEW f \in Files, Debounce(s, f) PROVE IInv'
<1> DEFINE h == Touched(s)
           r == [h[s] EXCEPT !.timers = @ \ {f}, !.known = @ \cup {f}]
<1>1. h \in [Servers -> ServerRecords] /\ h[s].stage = server[s].stage
      /\ h[s].port = server[s].port /\ h[s].token = server[s].token
      /\ h[s].fallback = server[s].fallback /\ \A u \in Servers \ {s} : h[u] = server[u]
  BY DEF Touched, IInv, TypeOK, ServerRecords
<1>2. server' = [h EXCEPT ![s].timers = @ \ {f}, ![s].known = @ \cup {f}]
  BY DEF Debounce, Fired
<1> HIDE DEF h
<1>3. server' = [h EXCEPT ![s] = r]
  BY <1>1, <1>2 DEF ServerRecords
<1>4. /\ r \in ServerRecords /\ r.stage = h[s].stage /\ r.port = h[s].port
      /\ r.token = h[s].token /\ r.fallback = h[s].fallback
  BY <1>1, ZenonT(40) DEF ServerRecords
<1> HIDE DEF r
<1>5. server' \in [Servers -> ServerRecords] /\ \A u \in Servers : Goes(u)
  BY <1>1, <1>3, <1>4 DEF Goes
<1>6. tab' \in [Tabs -> TabRecords] /\ \A t \in Tabs : Stays(t)
  <2>1. ASSUME NEW t \in Tabs PROVE tab'[t] \in TabRecords /\ Stays(t)
    <3>1. PICK q \in BOOLEAN : q = (tab[t].reload \/ tab[t].conn = s)
      BY Zenon
    <3>2. tab'[t] = [tab[t] EXCEPT !.reload = (tab[t].reload \/ tab[t].conn = s)]
      BY DEF Debounce, Told
    <3>3. tab'[t] = [tab[t] EXCEPT !.reload = q]
      BY <3>1, <3>2, Zenon
    <3> QED
      BY <3>3 DEF IInv, TypeOK, TabRecords, Stays
  <2>2. tab' = [t \in Tabs |-> tab'[t]]
    BY DEF Debounce, Told
  <2> QED
    BY <2>1, <2>2
<1>7. UNCHANGED <<files, foreign>>
  BY DEF Debounce, Fired
<1>8. TypeOK'
  BY <1>5, <1>6, <1>7, ForeignKept DEF IInv, TypeOK, files
<1> QED
  BY <1>5, <1>6, <1>7, <1>8, QuietKeeps DEF Quiet

\* The page of a server, with the values a tab takes from it.
LEMMA LoadedTabIs ==
    ASSUME TypeOK, NEW s \in Servers
    PROVE  /\ LoadedTab(s) \in TabRecords
           /\ LoadedTab(s).port = server[s].port /\ LoadedTab(s).key = server[s].token
           /\ LoadedTab(s).home => ~server[s].fallback
<1>1. server[s] \in ServerRecords
  BY DEF TypeOK
<1>2. PICK q \in BOOLEAN : q = ~server[s].fallback
  BY Zenon
<1>3. LoadedTab(s) = [ClosedTab EXCEPT !.open = TRUE, !.home = q, !.newest = TRUE,
                                       !.port = server[s].port, !.key = server[s].token]
  BY <1>2, Zenon DEF LoadedTab
<1>4. LoadedTab(s) \in TabRecords /\ LoadedTab(s).home = q
      /\ LoadedTab(s).port = server[s].port /\ LoadedTab(s).key = server[s].token
  BY <1>1, <1>3 DEF ClosedTab, TabRecords, ServerRecords
<1> QED
  BY <1>2, <1>4, Zenon

\* A tab is opened; if its server has its preferred port, the files name it.
LEMMA OpenTabStep ==
    ASSUME IInv, NEW t \in Tabs, NEW s \in Servers, OpenTab(t, s) PROVE IInv'
<1>1. /\ Up(s) /\ tab' = [tab EXCEPT ![t] = LoadedTab(s)] /\ server' = Touched(s)
      /\ UNCHANGED <<files, foreign>>
  BY DEF OpenTab
<1>2. /\ LoadedTab(s) \in TabRecords
      /\ LoadedTab(s).port = server[s].port /\ LoadedTab(s).key = server[s].token
      /\ LoadedTab(s).home => ~server[s].fallback
  BY LoadedTabIs DEF IInv
<1>3. server' \in [Servers -> ServerRecords] /\ \A u \in Servers : Goes(u)
  BY <1>1, TouchedGoes DEF IInv
<1>4. /\ tab' \in [Tabs -> TabRecords] /\ tab'[t] = LoadedTab(s)
      /\ \A u \in Tabs \ {t} : tab'[u] = tab[u]
  BY <1>1, <1>2 DEF IInv, TypeOK
<1>5. TypeOK'
  BY <1>1, <1>3, <1>4, ForeignKept DEF IInv, TypeOK, files
<1>6. ServersOK' /\ OneDraw'
  BY <1>1, <1>3, GoesKeeps DEF IInv
<1>7. TabsOK'
  <2>1. ServerOK(s)
    BY DEF IInv, ServersOK
  <2>2. TabOK(t)'
    <3>1. UNCHANGED <<portFile, tokenFile, lapse>>
      BY <1>1 DEF files
    <3> QED
      BY <1>1, <1>2, <1>4, <2>1, <3>1 DEF TabOK, ServerOK, Up, HasNamed, HasWritten
  <2>3. \A u \in Tabs \ {t} : TabOK(u)'
    BY <1>1, <1>4 DEF IInv, TabsOK, TabOK, files
  <2> QED
    BY <2>2, <2>3 DEF TabsOK
<1> QED
  BY <1>5, <1>6, <1>7 DEF IInv

\* A step of one tab that changes its record and, at most, the activity of a server.
LEMMA TabStep ==
    ASSUME IInv, NEW t \in Tabs, NEW r, TabBecomes(t, r), tab' = [tab EXCEPT ![t] = r],
           server' \in [Servers -> ServerRecords], \A s \in Servers : Goes(s),
           UNCHANGED <<files, foreign>>
    PROVE  IInv'
<1>1. tab' \in [Tabs -> TabRecords] /\ \A u \in Tabs : Stays(u)
  BY TabBecomesOne DEF IInv
<1>2. TypeOK'
  BY <1>1, ForeignKept DEF IInv, TypeOK, files
<1> QED
  BY <1>1, <1>2, QuietKeeps DEF Quiet

\* Servers that are not changed.
LEMMA ServersSame ==
    ASSUME TypeOK, UNCHANGED server
    PROVE  server' \in [Servers -> ServerRecords] /\ \A s \in Servers : Goes(s)
BY SameGoes DEF TypeOK

\* A closed tab is not at home.
LEMMA ClosedIs ==
    ASSUME NEW t \in Tabs PROVE TabBecomes(t, ClosedTab)
BY DEF TabBecomes, ClosedTab, TabRecords

\* A tab is closed.
LEMMA CloseTabStep ==
    ASSUME IInv, NEW t \in Tabs, CloseTab(t) PROVE IInv'
BY TabStep, ClosedIs, ServersSame DEF CloseTab, IInv

\* A tab asks for a connection, or loses it, or shows that it has none.
LEMMA TabSocketStep ==
    ASSUME IInv, NEW t \in Tabs,
           (\E s \in Servers : Dial(t, s)) \/ Disconnect(t) \/ Tombstone(t)
    PROVE  IInv'
<1>1. UNCHANGED <<files, foreign, server>> /\ tab[t] \in TabRecords
  BY DEF Dial, Disconnect, Tombstone, IInv, TypeOK
<1>2. CASE \E s \in Servers : Dial(t, s)
  <2>1. PICK s \in Servers : tab' = [tab EXCEPT ![t].dial = s]
    BY <1>2 DEF Dial
  <2> DEFINE r == [tab[t] EXCEPT !.dial = s]
  <2>2. TabBecomes(t, r) /\ tab' = [tab EXCEPT ![t] = r]
    BY <1>1, <2>1 DEF TabBecomes, TabRecords
  <2> QED
    BY <1>1, <2>2, TabStep, ServersSame DEF IInv
<1>3. CASE Disconnect(t)
  <2> DEFINE r == [tab[t] EXCEPT !.conn = None]
  <2>1. TabBecomes(t, r) /\ tab' = [tab EXCEPT ![t] = r]
    BY <1>1, <1>3 DEF Disconnect, TabBecomes, TabRecords
  <2> QED
    BY <1>1, <2>1, TabStep, ServersSame DEF IInv
<1>4. CASE Tombstone(t)
  <2> DEFINE r == [tab[t] EXCEPT !.tombstone = TRUE]
  <2>1. TabBecomes(t, r) /\ tab' = [tab EXCEPT ![t] = r]
    BY <1>1, <1>4 DEF Tombstone, TabBecomes, TabRecords
  <2> QED
    BY <1>1, <2>1, TabStep, ServersSame DEF IInv
<1> QED
  BY <1>2, <1>3, <1>4

\* The server accepts a tab, or sends it away.
LEMMA UpgradeStep ==
    ASSUME IInv, NEW t \in Tabs, NEW s \in Servers, Upgrade(t, s) PROVE IInv'
<1>1. UNCHANGED <<files, foreign>> /\ tab[t] \in TabRecords
  BY DEF Upgrade, IInv, TypeOK
<1>2. CASE Authorized(s, t)
  <2> DEFINE r == [tab[t] EXCEPT !.dial = None, !.conn = s, !.queue = FALSE,
                                 !.tombstone = FALSE, !.reload = tab[t].tombstone]
             h == IF tab[t].queue THEN Touched(s) ELSE server
  <2>1. TabBecomes(t, r) /\ tab' = [tab EXCEPT ![t] = r]
    BY <1>1, <1>2 DEF Upgrade, TabBecomes, TabRecords
  <2>2. h \in [Servers -> ServerRecords] /\ h[s].stage = server[s].stage
        /\ h[s].port = server[s].port /\ h[s].token = server[s].token
        /\ h[s].fallback = server[s].fallback /\ \A u \in Servers \ {s} : h[u] = server[u]
    <3>1. CASE tab[t].queue
      BY <3>1 DEF Touched, IInv, TypeOK, ServerRecords
    <3>2. CASE ~tab[t].queue
      BY <3>2 DEF IInv, TypeOK
    <3> QED
      BY <3>1, <3>2
  <2>3. server' = [h EXCEPT ![s].late = ~Up(s)]
    BY <1>2 DEF Upgrade
  <2> HIDE DEF h, r
  <2>4. PICK q \in BOOLEAN : q = ~Up(s)
    BY Zenon
  <2>5. server' = [h EXCEPT ![s].late = q]
    BY <2>3, <2>4, Zenon
  <2>6. server' \in [Servers -> ServerRecords] /\ \A u \in Servers : Goes(u)
    BY <2>2, <2>5 DEF ServerRecords, Goes
  <2> QED
    BY <1>1, <2>1, <2>6, TabStep
<1>3. CASE ~Authorized(s, t)
  <2> DEFINE r == [tab[t] EXCEPT !.dial = None]
  <2>1. TabBecomes(t, r) /\ tab' = [tab EXCEPT ![t] = r] /\ UNCHANGED server
    BY <1>1, <1>3 DEF Upgrade, TabBecomes, TabRecords
  <2> QED
    BY <1>1, <2>1, TabStep, ServersSame DEF IInv
<1> QED
  BY <1>2, <1>3

\* A page loads again: from a server with the same port and key, or not at all.
LEMMA ReloadStep ==
    ASSUME IInv, NEW t \in Tabs, Reload(t) PROVE IInv'
<1>1. UNCHANGED <<files, foreign>> /\ tab[t] \in TabRecords
  BY DEF Reload, IInv, TypeOK
<1>2. CASE \E s \in Servers :
             /\ Answers(s, t) /\ Authorized(s, t)
             /\ tab' = [tab EXCEPT ![t] = [LoadedTab(s) EXCEPT !.home = tab[t].home]]
             /\ server' = Touched(s)
  <2>1. PICK s \in Servers :
             /\ Answers(s, t) /\ Authorized(s, t)
             /\ tab' = [tab EXCEPT ![t] = [LoadedTab(s) EXCEPT !.home = tab[t].home]]
             /\ server' = Touched(s)
    BY <1>2
  <2> DEFINE r == [LoadedTab(s) EXCEPT !.home = tab[t].home]
  <2>2. /\ LoadedTab(s) \in TabRecords
        /\ LoadedTab(s).port = tab[t].port /\ LoadedTab(s).key = tab[t].key
    BY <2>1, LoadedTabIs DEF IInv, Answers, Authorized
  <2>3. TabBecomes(t, r) /\ tab' = [tab EXCEPT ![t] = r]
    BY <1>1, <2>1, <2>2 DEF TabBecomes, TabRecords
  <2> HIDE DEF r
  <2>4. server' \in [Servers -> ServerRecords] /\ \A u \in Servers : Goes(u)
    BY <2>1, TouchedGoes DEF IInv
  <2> QED
    BY <1>1, <2>3, <2>4, TabStep
<1>3. CASE tab' = [tab EXCEPT ![t] = ClosedTab] /\ UNCHANGED server
  BY <1>1, <1>3, TabStep, ClosedIs, ServersSame DEF IInv
<1> QED
  BY <1>2, <1>3 DEF Reload

\* The user makes a choice.
LEMMA ClickStep ==
    ASSUME IInv, NEW t \in Tabs, Click(t) PROVE IInv'
<1>1. UNCHANGED <<files, foreign>> /\ tab[t] \in TabRecords
  BY DEF Click, IInv, TypeOK
<1>2. CASE tab[t].conn = None
  <2> DEFINE r == [tab[t] EXCEPT !.queue = TRUE]
  <2>1. TabBecomes(t, r) /\ tab' = [tab EXCEPT ![t] = r] /\ UNCHANGED server
    BY <1>1, <1>2 DEF Click, TabBecomes, TabRecords
  <2> QED
    BY <1>1, <2>1, TabStep, ServersSame DEF IInv
<1>3. CASE tab[t].conn # None
  <2>1. tab[t].conn \in Servers /\ server' = Touched(tab[t].conn) /\ UNCHANGED tab
    BY <1>1, <1>3 DEF Click, TabRecords
  <2>2. server' \in [Servers -> ServerRecords] /\ \A u \in Servers : Goes(u)
    BY <2>1, TouchedGoes DEF IInv
  <2>3. TypeOK'
    BY <1>1, <2>1, <2>2, ForeignKept DEF IInv, TypeOK, files
  <2> QED
    BY <1>1, <2>1, <2>2, <2>3, SameGoes, QuietKeeps DEF Quiet
<1> QED
  BY <1>2, <1>3

-----------------------------------------------------------------------------
(* The invariant and what follows from it.                                 *)

\* Every step keeps the invariant.
LEMMA NextStep ==
    ASSUME IInv, [Next]_vars PROVE IInv'
<1>1. ASSUME NEW s \in Servers,
             \/ Start(s) \/ ReadKey(s) \/ Listen(s) \/ AddressInUse(s) \/ WritePort(s)
             \/ WriteToken(s) \/ Shutdown(s) \/ Exit(s) \/ Killed(s) \/ OwnerExits(s) \/ IdlePasses(s)
      PROVE  IInv'
  BY <1>1, StartStep, ReadKeyStep, ListenStep, AddressInUseStep, WritePortStep, WriteTokenStep,
     ShutdownStep, EndStep, ExpiryStep
<1>2. ASSUME NEW s \in Servers, NEW f \in Files, WriteScreen(s, f) \/ Debounce(s, f) PROVE IInv'
  BY <1>2, WriteScreenStep, DebounceStep
<1>3. ASSUME NEW t \in Tabs, NEW s \in Servers, OpenTab(t, s) \/ Dial(t, s) \/ Upgrade(t, s)
      PROVE  IInv'
  BY <1>3, OpenTabStep, TabSocketStep, UpgradeStep
<1>4. ASSUME NEW t \in Tabs, CloseTab(t) \/ Disconnect(t) \/ Tombstone(t) \/ Reload(t) \/ Click(t)
      PROVE  IInv'
  BY <1>4, CloseTabStep, TabSocketStep, ReloadStep, ClickStep
<1>5. CASE UNCHANGED vars
  <2>1. TypeOK'
    BY <1>5, ForeignKept DEF vars, IInv, TypeOK, files
  <2> QED
    BY <1>5, <2>1, SameGoes, QuietKeeps DEF vars, Quiet
<1> QED
  BY <1>1, <1>2, <1>3, <1>4, <1>5, ForeignStep DEF Next

\* It holds at the start.
LEMMA InitStep ==
    ASSUME Init PROVE IInv
<1>1. TypeOK
  BY DEF Init, TypeOK, NewServer, ServerRecords, ClosedTab, TabRecords
<1>2. ServersOK /\ TabsOK /\ OneDraw
  BY DEF Init, ServersOK, ServerOK, TabsOK, TabOK, OneDraw, Starting, Up, MayWrite, Keyed,
            HasNamed, HasWritten, NewServer, ClosedTab
<1> QED
  BY <1>1, <1>2 DEF IInv

\* The invariant holds in every reachable state.
THEOREM Inductive == Spec => []IInv
BY InitStep, NextStep, PTL DEF Spec

\* However the starts of a project interleave, fall back and end, an open tab that was
\* loaded from a server with its preferred port finds its port and key in the project's
\* files, unless a write of them failed or two starts found one of them empty.
THEOREM OpenTabsAreNamed == Spec => []Inv
<1>1. IInv => Inv
  BY DEF IInv, TabsOK, TabOK, Inv, OpenTabsAreServed
<1> QED
  BY <1>1, Inductive, PTL

\* What a file of the project says is only repeated, by any number of starts at once,
\* unless a write failed or two starts found one of the files empty.
THEOREM FilesAreRepeated == Spec => FilesStay
<1> DEFINE Stay == ~lapse' => /\ portFile # None => UNCHANGED portFile
                              /\ tokenFile # None => UNCHANGED tokenFile
<1>1. ASSUME IInv, Next \/ UNCHANGED vars PROVE Stay
  <2>1. ASSUME NEW s \in Servers,
               \/ Start(s) \/ ReadKey(s) \/ Listen(s) \/ AddressInUse(s) \/ Shutdown(s)
               \/ Exit(s) \/ Killed(s) \/ OwnerExits(s) \/ IdlePasses(s)
        PROVE  UNCHANGED <<portFile, tokenFile>>
    BY <2>1 DEF Start, ReadKey, Listen, AddressInUse, Shutdown, Exit, Killed, OwnerExits,
                IdlePasses, files
  <2>2. ASSUME NEW s \in Servers, NEW f \in Files, WriteScreen(s, f) \/ Debounce(s, f)
        PROVE  UNCHANGED <<portFile, tokenFile>>
    BY <2>2 DEF WriteScreen, Debounce, Fired, files
  <2>3. ASSUME NEW t \in Tabs, NEW s \in Servers, OpenTab(t, s) \/ Dial(t, s) \/ Upgrade(t, s)
        PROVE  UNCHANGED <<portFile, tokenFile>>
    BY <2>3 DEF OpenTab, Dial, Upgrade, files
  <2>4. ASSUME NEW t \in Tabs,
               CloseTab(t) \/ Disconnect(t) \/ Tombstone(t) \/ Reload(t) \/ Click(t)
        PROVE  UNCHANGED <<portFile, tokenFile>>
    BY <2>4 DEF CloseTab, Disconnect, Tombstone, Reload, Click, files
  <2>5. ASSUME ForeignProgram \/ UNCHANGED vars PROVE UNCHANGED <<portFile, tokenFile>>
    BY <2>5 DEF ForeignProgram, vars, files
  <2>6. ASSUME NEW s \in Servers, WritePort(s) PROVE Stay
    BY <1>1, <2>6, WritePortStep DEF WritePort
  <2>7. ASSUME NEW s \in Servers, WriteToken(s) PROVE Stay
    BY <1>1, <2>7, WriteTokenStep DEF WriteToken
  <2> QED
    BY <1>1, <2>1, <2>2, <2>3, <2>4, <2>5, <2>6, <2>7 DEF Next
<1>2. IInv /\ [Next]_vars => Stay
  BY <1>1
<1> QED
  BY <1>2, Inductive, PTL DEF Spec, FilesStay
============================================================================
