------------------------ MODULE BrowserRecovery_proofs ------------------------
(***************************************************************************)
(* The durable recovery of Browser work, for any number of callers, tasks  *)
(* and criteria, with crashes and failing writes anywhere.  Everything     *)
(* rests on what the lock directory gives: between its entry and its exit  *)
(* a transaction's copy of the store differs from the index in one record, *)
(* and in the way its operation allows.  From that follow who may execute  *)
(* a task, that nothing is lost or reopened, and that every write of the   *)
(* index is a step of the abstract specification.                          *)
(***************************************************************************)
EXTENDS BrowserRecovery, TLAPS

Stores == [TaskIds -> Records]

\* A transaction that has computed its store and not yet written it.
Writing(c) == stage[c] \in {"witness", "mkdir", "key", "index"}

\* The lock directory exists exactly as long as a live caller is between the entry
\* and the exit of a transaction, or has died there.
LockHeld(c) ==
    /\ stage[c] # "out" <=> lock = c
    /\ stage[c] # "out" => at[c] \in Transactions

\* How the operation of c may change the record of its task.
Changes(c, old, new) ==
    /\ at[c] = "begin" => (old = NoRecord /\ new = NewRecord) \/ (old.exists /\ new = old)
    /\ at[c] = "claim" =>
          /\ old.exists /\ old.claim = Nobody /\ old.pending # {}
          /\ new.exists /\ new.claim = c /\ new.pending = old.pending
    /\ at[c] = "finalize" =>
          /\ old.exists /\ old.claim = c
          /\ new.exists /\ new.claim = Nobody /\ new.pending \subseteq old.pending

\* What c is about to write, or has written.
StagedOK(c) ==
    /\ Writing(c) =>
          /\ task[c] \in TaskIds
          /\ \A k \in TaskIds \ {task[c]} : staged[c][k] = index[k]
          /\ Changes(c, index[task[c]], staged[c][task[c]])
    /\ stage[c] = "unlock" /\ ok[c] =>
          /\ task[c] \in TaskIds /\ index = staged[c] /\ index[task[c]].exists
          /\ at[c] = "claim" => index[task[c]].claim = c

\* The claim of a caller that executes is its own until it has given it back.
ClaimOK(c) ==
    Executing(c) =>
        \/ index[task[c]].claim = c
        \/ at[c] = "finalize" /\ stage[c] = "unlock" /\ index[task[c]].claim = Nobody

\* The files are created in the order witness, directory, key, index.
FilesOK(c) ==
    /\ stage[c] \in {"mkdir", "key", "index"} => witness
    /\ stage[c] \in {"key", "index"} => directory
    /\ stage[c] = "index" => key

CallerOK(c) == LockHeld(c) /\ StagedOK(c) /\ ClaimOK(c) /\ FilesOK(c)

\* A record that does not exist is nobody's, and the key has its witness.
StoreOK ==
    /\ \A k \in TaskIds : ~index[k].exists => index[k] = NoRecord
    /\ key => witness /\ directory
    /\ IndexIsWitnessed

IInv == TypeOK /\ NoReplay /\ StoreOK /\ \A c \in Callers : CallerOK(c)

-----------------------------------------------------------------------------
(* The operators on stores.                                                *)

\* Losing the claims of c changes nothing but claims of c, which read Lost.
LEMMA LoseEffect ==
    ASSUME NEW store \in Stores, NEW c \in Callers
    PROVE  /\ LoseClaims(store, c) \in Stores
           /\ \A k \in TaskIds :
                /\ LoseClaims(store, c)[k].exists = store[k].exists
                /\ LoseClaims(store, c)[k].pending = store[k].pending
                /\ LoseClaims(store, c)[k].claim =
                      IF store[k].claim = c THEN Lost ELSE store[k].claim
                /\ store[k].claim # c => LoseClaims(store, c)[k] = store[k]
<1> DEFINE new == LoseClaims(store, c)
<1>1. ASSUME NEW k \in TaskIds
      PROVE  /\ new[k] \in Records
             /\ new[k].exists = store[k].exists /\ new[k].pending = store[k].pending
             /\ new[k].claim = IF store[k].claim = c THEN Lost ELSE store[k].claim
             /\ store[k].claim # c => new[k] = store[k]
  <2>1. store[k] \in Records
    BY DEF Stores
  <2>2. new[k] = IF store[k].claim = c THEN [store[k] EXCEPT !.claim = Lost] ELSE store[k]
    BY DEF LoseClaims
  <2> QED
    BY <2>1, <2>2 DEF Records
<1>2. new = [k \in TaskIds |-> new[k]]
  BY DEF LoseClaims
<1> HIDE DEF new
<1>3. new \in Stores
  BY <1>1, <1>2 DEF Stores
<1> QED
  BY <1>1, <1>3 DEF new

\* The records that stand for none and for a new task.
LEMMA SpecialRecords ==
    /\ NoRecord \in Records /\ ~NoRecord.exists /\ NoRecord.claim = Nobody
    /\ NewRecord \in Records /\ NewRecord.exists /\ NewRecord.claim = Nobody
    /\ NewRecord.pending = Criteria
    /\ Empty \in Stores /\ \A k \in TaskIds : Empty[k] = NoRecord
BY DEF NoRecord, NewRecord, Records, Empty, Stores

\* A record has its three parts and no more.
LEMMA RecordParts ==
    ASSUME NEW r \in Records
    PROVE  /\ r.exists \in BOOLEAN /\ r.pending \subseteq Criteria
           /\ r.claim \in Callers \cup {Nobody, Lost}
           /\ r = [pending |-> r.pending, claim |-> r.claim, exists |-> r.exists]
BY DEF Records

\* What each operation computes differs from the index in the record of its task
\* only, and there in the way Changes says.
LEMMA ResultsChange ==
    ASSUME IInv, NEW c \in Callers, at[c] \in Transactions, NEW r \in Results(c)
    PROVE  /\ r[1] \in TaskIds /\ r[2] \in Stores
           /\ task[c] # NoTask => r[1] = task[c]
           /\ \A k \in TaskIds \ {r[1]} : r[2][k] = index[k]
           /\ Changes(c, index[r[1]], r[2][r[1]])
<1> DEFINE Goal(k, store) ==
              /\ k \in TaskIds /\ store \in Stores
              /\ task[c] # NoTask => k = task[c]
              /\ \A j \in TaskIds \ {k} : store[j] = index[j]
              /\ Changes(c, index[k], store[k])
<1>1. index \in Stores /\ task[c] \in TaskIds \cup {NoTask}
  BY DEF IInv, TypeOK, Stores
<1>2. at[c] # "begin" => task[c] \in TaskIds /\ task[c] # NoTask /\ index[task[c]].exists
  BY TaskIdAssumption DEF IInv, TypeOK, Transactions
<1>3. CASE at[c] = "begin" /\ task[c] = NoTask
  <2>1. PICK k \in TaskIds :
          ~index[k].exists /\ r = <<k, [index EXCEPT ![k] = NewRecord]>>
    BY <1>3 DEF Results, Begun
  <2>2. index[k] = NoRecord
    BY <2>1 DEF IInv, StoreOK
  <2>3. Goal(k, [index EXCEPT ![k] = NewRecord])
    BY <1>1, <1>3, <2>2, SpecialRecords DEF Stores, Changes
  <2> QED
    BY <2>1, <2>3
<1>4. CASE at[c] = "begin" /\ task[c] # NoTask
  <2>1. /\ task[c] \in TaskIds /\ index[task[c]].exists /\ r = <<task[c], index>>
    BY <1>1, <1>4 DEF Results, Begun
  <2>2. Goal(task[c], index)
    BY <1>1, <1>4, <2>1 DEF Changes
  <2> QED
    BY <2>1, <2>2
<1>5. CASE at[c] = "claim"
  <2> DEFINE old == index[task[c]]
             new == [index EXCEPT ![task[c]].claim = c]
  <2>1. old.exists /\ old.claim = Nobody /\ old.pending # {} /\ r = <<task[c], new>>
    BY <1>5 DEF Results, ClaimedBy
  <2>2. old \in Records /\ new = [index EXCEPT ![task[c]] = [old EXCEPT !.claim = c]]
    BY <1>1, <1>2, <1>5 DEF Stores
  <2>3. /\ [old EXCEPT !.claim = c] \in Records
        /\ [old EXCEPT !.claim = c].exists = old.exists
        /\ [old EXCEPT !.claim = c].pending = old.pending
        /\ [old EXCEPT !.claim = c].claim = c
    BY <2>2 DEF Records
  <2>4. Goal(task[c], new)
    BY <1>1, <1>2, <1>5, <2>1, <2>2, <2>3 DEF Stores, Changes
  <2> QED
    BY <2>1, <2>4
<1>6. CASE at[c] = "finalize"
  <2> DEFINE old == index[task[c]]
  <2> DEFINE done(passed) ==
               [index EXCEPT ![task[c]] =
                  [old EXCEPT !.pending = old.pending \ passed, !.claim = Nobody]]
  <2>0. r \in {<<task[c], done(passed)>> : passed \in SUBSET work[c]}
    <3>1. r \in Finalized(c)
      BY <1>6 DEF Results
    <3> QED
      BY <3>1 DEF Finalized
  <2>1. PICK passed \in SUBSET work[c] : r = <<task[c], done(passed)>>
    <3> HIDE DEF done
    <3> QED
      BY <2>0
  <2>2. old.exists /\ old.claim = c /\ old \in Records
    BY <1>1, <1>2, <1>6 DEF Results, Finalized, Stores
  <2> DEFINE rec == [old EXCEPT !.pending = old.pending \ passed, !.claim = Nobody]
  <2>3. /\ rec \in Records /\ rec.exists /\ rec.claim = Nobody
        /\ rec.pending \subseteq old.pending
    BY <2>2 DEF Records
  <2>4. r = <<task[c], [index EXCEPT ![task[c]] = rec]>>
    BY <2>1
  <2> HIDE DEF rec
  <2>5. Goal(task[c], [index EXCEPT ![task[c]] = rec])
    BY <1>1, <1>2, <1>6, <2>2, <2>3 DEF Stores, Changes
  <2> QED
    BY <2>4, <2>5
<1> QED
  BY <1>3, <1>4, <1>5, <1>6 DEF Transactions

-----------------------------------------------------------------------------
(* The steps.                                                              *)

Files == <<witness, directory, key>>

\* The variables of d that a step of another caller leaves alone.
Untouched(d) ==
    /\ at'[d] = at[d] /\ stage'[d] = stage[d] /\ task'[d] = task[d]
    /\ work'[d] = work[d] /\ ok'[d] = ok[d]

\* At most one caller is inside a transaction.
LEMMA OneInside ==
    ASSUME IInv, NEW c \in Callers, NEW d \in Callers, stage[c] # "out", stage[d] # "out"
    PROVE  c = d
BY DEF IInv, CallerOK, LockHeld

\* The end of a call of c, by a return, a throw or a crash: nothing is written, and
\* the claims of c are lost to everybody.
LEMMA AbandonStep ==
    ASSUME IInv, NEW c \in Callers, Abandon(c),
           stage' = [stage EXCEPT ![c] = "out"],
           ok' \in [Callers -> BOOLEAN], \A d \in Callers \ {c} : ok'[d] = ok[d],
           IF lock = c THEN lock' \in {Nobody, Lost} ELSE lock' = lock,
           UNCHANGED Files
    PROVE  IInv'
<1> USE DEF Files
<1>1. /\ at' = [at EXCEPT ![c] = "idle"] /\ task' = [task EXCEPT ![c] = NoTask]
      /\ work' = [work EXCEPT ![c] = {}]
      /\ staged' = [d \in Callers |-> IF d = c THEN Empty ELSE LoseClaims(staged[d], c)]
      /\ index' = LoseClaims(index, c)
  BY DEF Abandon
<1>2. index \in Stores /\ \A d \in Callers : staged[d] \in Stores
  BY DEF IInv, TypeOK, Stores
<1>3. index' \in Stores /\ staged' \in [Callers -> Stores]
  BY <1>1, <1>2, LoseEffect, SpecialRecords
<1>4. \A d \in Callers \ {c} : Untouched(d) /\ staged'[d] = LoseClaims(staged[d], c)
  BY <1>1 DEF IInv, TypeOK, Untouched
<1>5. at'[c] = "idle" /\ stage'[c] = "out"
  BY <1>1 DEF IInv, TypeOK
<1>6. ASSUME NEW k \in TaskIds
      PROVE  /\ index'[k].exists = index[k].exists /\ index'[k].pending = index[k].pending
             /\ index'[k].claim = IF index[k].claim = c THEN Lost ELSE index[k].claim
             /\ index[k].claim # c => index'[k] = index[k]
  BY <1>1, <1>2, LoseEffect
<1>7. TypeOK'
  <2>1. \A d \in Callers : at'[d] \notin {"idle", "begin"} =>
           task'[d] \in TaskIds /\ index'[task'[d]].exists
    BY <1>4, <1>5, <1>6 DEF IInv, TypeOK, Untouched
  <2> QED
    BY <1>1, <1>3, <2>1 DEF IInv, TypeOK, Stores, Activities, Stages
<1>8. NoReplay'
  <2> SUFFICES ASSUME NEW d \in Callers, at'[d] \in {"allocating", "running"}
               PROVE  work'[d] \subseteq index'[task'[d]].pending
    BY DEF NoReplay
  <2>1. d # c /\ Untouched(d) /\ task[d] \in TaskIds
    BY <1>4, <1>5 DEF Untouched, IInv, TypeOK
  <2> QED
    BY <1>6, <2>1 DEF Untouched, IInv, NoReplay
<1>9. StoreOK'
  <2>1. \A k \in TaskIds : ~index'[k].exists => index'[k] = NoRecord
    BY <1>6, CallerAssumption, SpecialRecords DEF IInv, StoreOK
  <2>2. index = Empty => index' = Empty
    <3> SUFFICES ASSUME index = Empty PROVE index' = Empty
      OBVIOUS
    <3>1. \A k \in TaskIds : index'[k] = NoRecord
      BY <1>6, CallerAssumption, SpecialRecords
    <3> QED
      BY <1>3, <3>1 DEF Stores, Empty
  <2> QED
    BY <2>1, <2>2 DEF IInv, StoreOK, IndexIsWitnessed
<1>10. ASSUME NEW d \in Callers PROVE CallerOK(d)'
  <2>1. CASE d = c
    <3>1. lock' # c
      BY CallerAssumption
    <3> QED
      BY <1>5, <2>1, <3>1 DEF CallerOK, LockHeld, StagedOK, ClaimOK, FilesOK, Writing, Executing
  <2>2. CASE d # c
    <3>1. Untouched(d) /\ staged'[d] = LoseClaims(staged[d], c) /\ CallerOK(d)
      BY <1>4, <2>2 DEF IInv
    <3>2. LockHeld(d)' /\ FilesOK(d)'
      BY <2>2, <3>1, CallerAssumption DEF CallerOK, LockHeld, FilesOK, Untouched
    <3>3. ClaimOK(d)'
      <4>1. Executing(d) => task[d] \in TaskIds
        BY DEF IInv, TypeOK, Executing
      <4> QED
        BY <1>6, <2>2, <3>1, <4>1, CallerAssumption
           DEF CallerOK, ClaimOK, Untouched, Executing
    <3>4. ASSUME Writing(d)
          PROVE  /\ \A k \in TaskIds \ {task[d]} : staged'[d][k] = index'[k]
                 /\ Changes(d, index[task[d]], staged[d][task[d]])'
      <4>1. task[d] \in TaskIds /\ \A k \in TaskIds \ {task[d]} : staged[d][k] = index[k]
        BY <3>1, <3>4 DEF CallerOK, StagedOK
      <4>2. \A k \in TaskIds \ {task[d]} : staged'[d][k] = index'[k]
        BY <1>1, <3>1, <4>1, SMTT(30) DEF LoseClaims
      <4> DEFINE old == index[task[d]]
                 new == staged[d][task[d]]
      <4>3. /\ new.claim # c => staged'[d][task[d]] = new
            /\ staged'[d][task[d]].exists = new.exists
            /\ staged'[d][task[d]].pending = new.pending
            /\ staged'[d][task[d]].claim = IF new.claim = c THEN Lost ELSE new.claim
        BY <1>2, <3>1, <4>1, LoseEffect
      <4>4. old = new => staged'[d][task[d]] = index'[task[d]]
        BY <1>1, <3>1, <4>1, SMTT(30) DEF LoseClaims
      <4>5. Changes(d, old, new) /\ at'[d] = at[d] /\ task'[d] = task[d]
        BY <3>1, <3>4 DEF CallerOK, StagedOK, Untouched
      <4>6. Changes(d, index[task[d]], staged[d][task[d]])'
        BY <1>6, <2>2, <4>1, <4>3, <4>4, <4>5, CallerAssumption, SpecialRecords DEF Changes
      <4> QED
        BY <4>2, <4>6
    <3>5. ASSUME stage[d] = "unlock", ok[d]
          PROVE  /\ index' = staged'[d] /\ index'[task[d]].exists
                 /\ at[d] = "claim" => index'[task[d]].claim = d
      BY <1>1, <1>6, <2>2, <3>1, <3>5 DEF CallerOK, StagedOK
    <3>6. StagedOK(d)'
      BY <3>1, <3>4, <3>5 DEF CallerOK, StagedOK, Untouched, Writing
    <3> QED
      BY <3>2, <3>3, <3>6 DEF CallerOK
  <2> QED
    BY <2>1, <2>2
<1> QED
  BY <1>7, <1>8, <1>9, <1>10 DEF IInv

\* A step of c that leaves the index alone does not concern the others.
LEMMA OthersOK ==
    ASSUME IInv, NEW c \in Callers, NEW d \in Callers \ {c}, Untouched(d),
           staged'[d] = staged[d], index' = index,
           lock' = lock \/ {lock, lock'} \subseteq {c, Nobody},
           witness => witness', directory => directory', key => key'
    PROVE  CallerOK(d)'
<1>1. LockHeld(d)'
  BY CallerAssumption DEF IInv, CallerOK, LockHeld, Untouched
<1>2. StagedOK(d)'
  BY DEF IInv, CallerOK, StagedOK, Untouched, Writing, Changes
<1>3. ClaimOK(d)'
  BY DEF IInv, CallerOK, ClaimOK, Untouched, Executing
<1>4. FilesOK(d)'
  BY DEF IInv, CallerOK, FilesOK, Untouched
<1> QED
  BY <1>1, <1>2, <1>3, <1>4 DEF CallerOK

\* A write of a file other than the index, or one that fails before the index is
\* replaced: the transaction goes on, or goes to its exit to throw.
LEMMA FileStep ==
    ASSUME IInv, NEW c \in Callers, Writing(c),
           NEW to \in {"mkdir", "key", "index", "unlock"},
           stage' = [stage EXCEPT ![c] = to],
           ok' = IF to = "unlock" THEN [ok EXCEPT ![c] = FALSE] ELSE ok,
           UNCHANGED <<at, task, work, staged, lock, index>>,
           {witness', directory', key'} \subseteq BOOLEAN,
           witness => witness', directory => directory', key => key',
           FilesOK(c)', key' => witness' /\ directory'
    PROVE  IInv'
<1>1. /\ stage'[c] = to /\ to # "out"
      /\ to = "unlock" => ~ok'[c]
  BY DEF IInv, TypeOK
<1>2. \A d \in Callers \ {c} : Untouched(d)
  BY DEF IInv, TypeOK, Untouched
<1>3. TypeOK'
  BY DEF IInv, TypeOK, Stages
<1>4. NoReplay' /\ StoreOK'
  BY DEF IInv, NoReplay, StoreOK, IndexIsWitnessed
<1>5. CallerOK(c)'
  <2>1. CallerOK(c)
    BY DEF IInv
  <2>2. LockHeld(c)'
    BY <1>1, <2>1 DEF CallerOK, LockHeld, Writing
  <2>3. StagedOK(c)'
    BY <1>1, <2>1 DEF CallerOK, StagedOK, Writing, Changes
  <2>4. ClaimOK(c)'
    BY <1>1, <2>1 DEF CallerOK, ClaimOK, Writing, Executing
  <2> QED
    BY <2>2, <2>3, <2>4 DEF CallerOK
<1> QED
  BY <1>2, <1>3, <1>4, <1>5, OthersOK DEF IInv

\* What a write of the index does, in the terms of the invariant: other tasks and
\* tasks another caller executes keep their record.
LEMMA IndexEffect ==
    ASSUME IInv, NEW c \in Callers, stage[c] = "index"
    PROVE  /\ task[c] \in TaskIds
           /\ \A k \in TaskIds \ {task[c]} : staged[c][k] = index[k]
           /\ Changes(c, index[task[c]], staged[c][task[c]])
           /\ at[c] \in Transactions
           /\ \A k \in TaskIds :
                /\ index[k].exists => staged[c][k].exists
                /\ index[k].exists => staged[c][k].pending \subseteq index[k].pending
                /\ index[k].claim \notin {c, Nobody} => staged[c][k] = index[k]
<1>1. /\ task[c] \in TaskIds
      /\ \A k \in TaskIds \ {task[c]} : staged[c][k] = index[k]
      /\ Changes(c, index[task[c]], staged[c][task[c]])
      /\ at[c] \in Transactions
  BY DEF IInv, CallerOK, StagedOK, LockHeld, Writing
<1>2. ASSUME NEW k \in TaskIds
      PROVE  /\ index[k].exists => staged[c][k].exists
             /\ index[k].exists => staged[c][k].pending \subseteq index[k].pending
             /\ index[k].claim \notin {c, Nobody} => staged[c][k] = index[k]
  <2>1. CASE k # task[c]
    BY <1>1, <2>1
  <2>2. CASE k = task[c]
    BY <1>1, <2>2, SpecialRecords DEF Changes, Transactions
  <2> QED
    BY <2>1, <2>2
<1> QED
  BY <1>1, <1>2

\* The index is replaced by the store c has computed.
LEMMA IndexStep ==
    ASSUME IInv, NEW c \in Callers, stage[c] = "index",
           index' = staged[c], stage' = [stage EXCEPT ![c] = "unlock"],
           ok' = ok \/ ok' = [ok EXCEPT ![c] = FALSE],
           UNCHANGED <<at, task, work, staged, lock, witness, directory, key>>
    PROVE  IInv'
<1>1. stage'[c] = "unlock" /\ \A d \in Callers \ {c} : Untouched(d) /\ stage[d] = "out"
  BY OneInside DEF IInv, TypeOK, Untouched
<1>2. /\ index' \in Stores
      /\ \A k \in TaskIds : index[k].exists => index'[k].exists
      /\ \A k \in TaskIds : index[k].claim \notin {c, Nobody} => index'[k] = index[k]
  BY IndexEffect DEF IInv, TypeOK, Stores
<1>3. TypeOK'
  <2>1. ok' \in [Callers -> BOOLEAN] /\ stage' \in [Callers -> Stages]
    BY DEF IInv, TypeOK, Stages
  <2> QED
    BY <1>2, <2>1 DEF IInv, TypeOK, Stores
<1>4. ASSUME NEW d \in Callers \ {c}, Executing(d)
      PROVE  index'[task[d]] = index[task[d]] /\ index[task[d]].claim = d
  <2>1. index[task[d]].claim = d /\ task[d] \in TaskIds
    BY <1>1, <1>4 DEF IInv, CallerOK, ClaimOK, TypeOK, Executing
  <2> QED
    BY <1>2, <2>1, CallerAssumption
<1>5. NoReplay'
  <2> SUFFICES ASSUME NEW d \in Callers, at[d] \in {"allocating", "running"}
               PROVE  work[d] \subseteq index'[task[d]].pending
    BY DEF NoReplay
  <2>1. d # c
    BY IndexEffect DEF Transactions
  <2> QED
    BY <1>4, <2>1 DEF Executing, IInv, NoReplay
<1>6. StoreOK'
  <2>1. witness /\ key
    BY DEF IInv, CallerOK, FilesOK
  <2>2. \A k \in TaskIds : ~index'[k].exists => index'[k] = NoRecord
    BY IndexEffect, SpecialRecords DEF IInv, StoreOK, Changes, Transactions
  <2> QED
    BY <2>1, <2>2 DEF IInv, StoreOK, IndexIsWitnessed
<1>7. CallerOK(c)'
  <2>1. LockHeld(c)' /\ FilesOK(c)'
    BY <1>1, CallerAssumption DEF IInv, CallerOK, LockHeld, FilesOK
  <2>2. StagedOK(c)' /\ ClaimOK(c)'
    BY <1>1, IndexEffect, SpecialRecords
       DEF StagedOK, ClaimOK, Writing, Changes, Executing, Transactions
  <2> QED
    BY <2>1, <2>2 DEF CallerOK
<1>8. ASSUME NEW d \in Callers \ {c} PROVE CallerOK(d)'
  <2>1. LockHeld(d)' /\ FilesOK(d)'
    BY <1>1 DEF IInv, CallerOK, LockHeld, FilesOK, Untouched
  <2>2. StagedOK(d)'
    BY <1>1 DEF StagedOK, Untouched, Writing
  <2>3. ClaimOK(d)'
    BY <1>1, <1>4 DEF ClaimOK, Untouched, Executing
  <2> QED
    BY <2>1, <2>2, <2>3 DEF CallerOK
<1> QED
  BY <1>3, <1>5, <1>6, <1>7, <1>8 DEF IInv

\* The lock is taken and the store computed from the index as it is, or the
\* transaction throws.
LEMMA EnterStep ==
    ASSUME IInv, NEW c \in Callers, Enter(c)
    PROVE  IInv'
<1>1. /\ at[c] \in Transactions /\ stage[c] = "out" /\ lock = Nobody /\ lock' = c
      /\ UNCHANGED <<at, work, witness, directory, key, index>>
  BY DEF Enter, LockFree, Throw
<1>2. CASE \E r \in Results(c) :
             /\ task' = [task EXCEPT ![c] = r[1]]
             /\ staged' = [staged EXCEPT ![c] = r[2]]
             /\ stage' = [stage EXCEPT ![c] = FirstWrite]
             /\ UNCHANGED ok
  <2>1. PICK r \in Results(c) :
             /\ task' = [task EXCEPT ![c] = r[1]]
             /\ staged' = [staged EXCEPT ![c] = r[2]]
             /\ stage' = [stage EXCEPT ![c] = FirstWrite]
             /\ UNCHANGED ok
    BY <1>2
  <2>2. /\ r[1] \in TaskIds /\ r[2] \in Stores
        /\ task[c] # NoTask => r[1] = task[c]
        /\ \A k \in TaskIds \ {r[1]} : r[2][k] = index[k]
        /\ Changes(c, index[r[1]], r[2][r[1]])
    BY <1>1, ResultsChange
  <2>3. FirstWrite \in {"index", "witness"} /\ (FirstWrite = "index" => key)
    BY DEF FirstWrite
  <2>4. task'[c] = r[1] /\ staged'[c] = r[2] /\ stage'[c] = FirstWrite
    BY <2>1 DEF IInv, TypeOK
  <2>5. at[c] # "begin" => task'[c] = task[c]
    BY <1>1, <2>2, <2>4, TaskIdAssumption DEF IInv, TypeOK, Transactions
  <2>6. TypeOK'
    <3>1. /\ task' \in [Callers -> TaskIds \cup {NoTask}]
          /\ stage' \in [Callers -> Stages]
          /\ staged' \in [Callers -> [TaskIds -> Records]]
      BY <2>1, <2>2, <2>3 DEF IInv, TypeOK, Stages, Stores
    <3>2. \A d \in Callers : at[d] \notin {"idle", "begin"} => task'[d] = task[d]
      BY <2>1, <2>5 DEF IInv, TypeOK
    <3> QED
      BY <1>1, <2>1, <3>1, <3>2 DEF IInv, TypeOK
  <2>7. NoReplay' /\ StoreOK'
    <3>1. \A d \in Callers : at[d] \in {"allocating", "running"} => task'[d] = task[d]
      BY <1>1, <2>1 DEF IInv, TypeOK, Transactions
    <3> QED
      BY <1>1, <3>1 DEF IInv, NoReplay, StoreOK, IndexIsWitnessed
  <2>8. CallerOK(c)'
    <3>1. LockHeld(c)'
      BY <1>1, <2>3, <2>4 DEF LockHeld
    <3>2. StagedOK(c)'
      BY <1>1, <2>2, <2>3, <2>4 DEF StagedOK, Changes
    <3>3. ClaimOK(c)'
      BY <1>1, <2>5 DEF IInv, CallerOK, ClaimOK, Executing, Transactions
    <3>4. FilesOK(c)'
      BY <1>1, <2>3, <2>4 DEF IInv, StoreOK, FilesOK
    <3> QED
      BY <3>1, <3>2, <3>3, <3>4 DEF CallerOK
  <2>9. \A d \in Callers \ {c} : Untouched(d) /\ staged'[d] = staged[d]
    BY <1>1, <2>1 DEF IInv, TypeOK, Untouched
  <2> QED
    BY <1>1, <2>6, <2>7, <2>8, <2>9, OthersOK DEF IInv
<1>3. CASE Throw(c)
  <2>1. /\ stage' = [stage EXCEPT ![c] = "unlock"] /\ ok' = [ok EXCEPT ![c] = FALSE]
        /\ UNCHANGED <<task, staged>>
    BY <1>3 DEF Throw
  <2>2. TypeOK' /\ stage'[c] = "unlock" /\ ~ok'[c]
    BY <1>1, <2>1 DEF IInv, TypeOK, Stages
  <2>3. NoReplay' /\ StoreOK'
    BY <1>1, <2>1 DEF IInv, NoReplay, StoreOK, IndexIsWitnessed
  <2>4. CallerOK(c)'
    BY <1>1, <2>1, <2>2
       DEF IInv, CallerOK, LockHeld, StagedOK, ClaimOK, FilesOK, Writing, Executing, Transactions
  <2>5. \A d \in Callers \ {c} : Untouched(d) /\ staged'[d] = staged[d]
    BY <1>1, <2>1 DEF IInv, TypeOK, Untouched
  <2> QED
    BY <1>1, <2>2, <2>3, <2>4, <2>5, OthersOK DEF IInv
<1> QED
  BY <1>2, <1>3 DEF Enter

\* The lock is released: the operation that returns has its record in the index.
LEMMA LeaveStep ==
    ASSUME IInv, NEW c \in Callers, Leave(c)
    PROVE  IInv'
<1>1. /\ stage[c] = "unlock" /\ lock' = Nobody /\ stage' = [stage EXCEPT ![c] = "out"]
      /\ ok' = [ok EXCEPT ![c] = TRUE] /\ UNCHANGED <<witness, directory, key>>
  BY DEF Leave
<1>2. /\ lock = c /\ at[c] \in Transactions /\ ok[c] \in BOOLEAN
      /\ ok' \in [Callers -> BOOLEAN] /\ \A d \in Callers \ {c} : ok'[d] = ok[d]
  BY <1>1 DEF IInv, TypeOK, CallerOK, LockHeld
<1>3. CASE Abandon(c)
  BY <1>1, <1>2, <1>3, AbandonStep DEF Files
<1>4. ASSUME ok[c], at[c] \in {"begin", "claim"},
             NEW a \in {"claim", "allocating"}, a = "allocating" <=> at[c] = "claim",
             at' = [at EXCEPT ![c] = a],
             work' = IF a = "allocating" THEN [work EXCEPT ![c] = Outstanding(c)] ELSE work,
             staged' = [staged EXCEPT ![c] = Empty],
             UNCHANGED <<task, index>>
      PROVE  IInv'
  <2>1. /\ task[c] \in TaskIds /\ index = staged[c] /\ index[task[c]].exists
        /\ at[c] = "claim" => index[task[c]].claim = c
    BY <1>1, <1>4 DEF IInv, CallerOK, StagedOK
  <2>2. /\ at'[c] = a /\ stage'[c] = "out"
        /\ Outstanding(c) = index[task[c]].pending /\ Outstanding(c) \subseteq Criteria
    BY <1>1, <1>4, <2>1, RecordParts DEF IInv, TypeOK, Outstanding
  <2>3. \A d \in Callers \ {c} : Untouched(d) /\ staged'[d] = staged[d]
    BY <1>1, <1>2, <1>4 DEF IInv, TypeOK, Untouched
  <2>4. TypeOK'
    <3>1. staged' \in [Callers -> [TaskIds -> Records]] /\ work' \in [Callers -> SUBSET Criteria]
      BY <1>4, <2>2, SpecialRecords DEF IInv, TypeOK, Stores
    <3>2. at' \in [Callers -> Activities] /\ stage' \in [Callers -> Stages]
      BY <1>1, <1>4 DEF IInv, TypeOK, Activities, Transactions, Stages
    <3>3. \A d \in Callers : at'[d] \notin {"idle", "begin"} =>
             task[d] \in TaskIds /\ index[task[d]].exists
      BY <2>1, <2>3 DEF IInv, TypeOK, Untouched
    <3> QED
      BY <1>1, <1>2, <1>4, <3>1, <3>2, <3>3 DEF IInv, TypeOK
  <2>5. NoReplay'
    <3>1. a = "allocating" => work'[c] = index[task[c]].pending
      BY <1>4, <2>2 DEF IInv, TypeOK
    <3> QED
      BY <1>4, <2>2, <2>3, <3>1 DEF IInv, NoReplay, Untouched
  <2>6. StoreOK'
    BY <1>1, <1>4 DEF IInv, StoreOK, IndexIsWitnessed
  <2>7. CallerOK(c)'
    BY <1>1, <1>4, <2>1, <2>2, CallerAssumption
       DEF CallerOK, LockHeld, StagedOK, ClaimOK, FilesOK, Writing, Executing
  <2> QED
    BY <1>1, <1>2, <1>4, <2>3, <2>4, <2>5, <2>6, <2>7, OthersOK DEF IInv
<1>5. CASE /\ ok[c] /\ at[c] = "begin" /\ at' = [at EXCEPT ![c] = "claim"]
           /\ staged' = [staged EXCEPT ![c] = Empty]
           /\ UNCHANGED <<task, work, index>>
  <2>1. at[c] \in {"begin", "claim"} /\ ("claim" = "allocating" <=> at[c] = "claim")
    BY <1>5
  <2>2. work' = IF "claim" = "allocating" THEN [work EXCEPT ![c] = Outstanding(c)] ELSE work
    BY <1>5
  <2> QED
    BY <1>4, <1>5, <2>1, <2>2
<1>6. CASE /\ ok[c] /\ at[c] = "claim" /\ at' = [at EXCEPT ![c] = "allocating"]
           /\ work' = [work EXCEPT ![c] = Outstanding(c)]
           /\ staged' = [staged EXCEPT ![c] = Empty]
           /\ UNCHANGED <<task, index>>
  <2>1. at[c] \in {"begin", "claim"} /\ ("allocating" = "allocating" <=> at[c] = "claim")
    BY <1>6
  <2>2. work' = IF "allocating" = "allocating" THEN [work EXCEPT ![c] = Outstanding(c)] ELSE work
    BY <1>6
  <2> QED
    BY <1>4, <1>6, <2>1, <2>2
<1> QED
  BY <1>2, <1>3, <1>5, <1>6 DEF Leave, Transactions

\* A step of runRoleTask between the transactions changes where c is, no more.
LEMMA MoveStep ==
    ASSUME IInv, NEW c \in Callers, NEW a \in Activities, stage[c] = "out",
           at' = [at EXCEPT ![c] = a], task' \in [Callers -> TaskIds \cup {NoTask}],
           \A d \in Callers \ {c} : task'[d] = task[d],
           \/ a = "begin"
           \/ task' = task /\ <<at[c], a>> \in {<<"allocating", "running">>, <<"running", "finalize">>},
           UNCHANGED <<stage, work, staged, ok, lock, witness, directory, key, index>>
    PROVE  IInv'
<1>1. at'[c] = a /\ \A d \in Callers \ {c} : Untouched(d)
  BY DEF IInv, TypeOK, Untouched
<1>2. TypeOK' /\ NoReplay' /\ StoreOK'
  BY <1>1 DEF IInv, TypeOK, NoReplay, StoreOK, IndexIsWitnessed, Untouched
<1>3. CallerOK(c)'
  BY <1>1 DEF IInv, CallerOK, LockHeld, StagedOK, ClaimOK, FilesOK, Writing, Executing
<1> QED
  BY <1>1, <1>2, <1>3, OthersOK DEF IInv

\* The steps of a transaction other than its entry and its exit.
LEMMA WriteStep ==
    ASSUME IInv, NEW c \in Callers,
           \/ WriteWitness(c) \/ MakeDirectory(c) \/ WriteKey(c) \/ WriteIndex(c)
           \/ WriteFails(c)
    PROVE  IInv'
<1>1. {witness, directory, key} \subseteq BOOLEAN /\ FilesOK(c) /\ (key => witness /\ directory)
      /\ IndexIsWitnessed /\ stage'[c] \in Stages
  BY DEF IInv, TypeOK, CallerOK, StoreOK, WriteWitness, MakeDirectory, WriteKey, WriteIndex,
         WriteFails, Write, Throw, Stages
<1>2. CASE WriteWitness(c)
  <2>1. FilesOK(c)'
    BY <1>1, <1>2 DEF WriteWitness, Write, FilesOK, IInv, TypeOK
  <2>3. /\ stage[c] = "witness" /\ stage' = [stage EXCEPT ![c] = "mkdir"]
        /\ UNCHANGED <<at, task, work, staged, ok, lock, index>>
        /\ witness' = TRUE /\ UNCHANGED <<directory, key>>
    BY <1>2 DEF WriteWitness, Write
  <2>4. /\ {witness', directory', key'} \subseteq BOOLEAN /\ (key' => witness' /\ directory')
        /\ (witness => witness') /\ (directory => directory') /\ (key => key')
    BY <1>1, <2>3
  <2> QED
    BY <2>1, <2>3, <2>4, FileStep DEF Writing
<1>3. CASE MakeDirectory(c)
  <2>1. FilesOK(c)'
    BY <1>1, <1>3 DEF MakeDirectory, Write, FilesOK, IInv, TypeOK
  <2>3. /\ stage[c] = "mkdir" /\ stage' = [stage EXCEPT ![c] = "key"]
        /\ UNCHANGED <<at, task, work, staged, ok, lock, index>>
        /\ directory' = TRUE /\ UNCHANGED <<witness, key>>
    BY <1>3 DEF MakeDirectory, Write
  <2>4. /\ {witness', directory', key'} \subseteq BOOLEAN /\ (key' => witness' /\ directory')
        /\ (witness => witness') /\ (directory => directory') /\ (key => key')
    BY <1>1, <2>3
  <2> QED
    BY <2>1, <2>3, <2>4, FileStep DEF Writing
<1>4. CASE WriteKey(c)
  <2>1. FilesOK(c)'
    BY <1>1, <1>4 DEF WriteKey, Write, FilesOK, IInv, TypeOK
  <2>2. witness /\ directory
    BY <1>1, <1>4 DEF WriteKey, Write, FilesOK
  <2>3. /\ stage[c] = "key" /\ stage' = [stage EXCEPT ![c] = "index"]
        /\ UNCHANGED <<at, task, work, staged, ok, lock, index>>
        /\ key' = TRUE /\ UNCHANGED <<witness, directory>>
    BY <1>4 DEF WriteKey, Write
  <2>4. /\ {witness', directory', key'} \subseteq BOOLEAN /\ (key' => witness' /\ directory')
        /\ (witness => witness') /\ (directory => directory') /\ (key => key')
    BY <1>1, <2>3, <2>2
  <2> QED
    BY <2>1, <2>3, <2>4, FileStep DEF Writing
<1>5. CASE WriteIndex(c)
  BY <1>5, IndexStep DEF WriteIndex, Write
<1>6. CASE WriteFails(c)
  <2>1. /\ stage[c] \in {"witness", "mkdir", "key", "index"}
        /\ stage' = [stage EXCEPT ![c] = "unlock"] /\ ok' = [ok EXCEPT ![c] = FALSE]
        /\ witness' \in {witness, witness \/ stage[c] = "witness"}
        /\ key' \in {key, key \/ stage[c] = "key"}
        /\ index' \in {index, IF stage[c] = "index" THEN staged[c] ELSE index}
        /\ UNCHANGED <<at, task, work, staged, lock, directory>>
    BY <1>6 DEF WriteFails, Throw
  <2>2. CASE index' = index
    <3>1. /\ {witness', directory', key'} \subseteq BOOLEAN
          /\ (witness => witness') /\ (key => key') /\ (key' => witness' /\ directory')
      BY <1>1, <2>1 DEF FilesOK
    <3>2. FilesOK(c)'
      BY <2>1 DEF FilesOK, IInv, TypeOK
    <3> QED
      BY <2>1, <2>2, <3>1, <3>2, FileStep DEF Writing
  <2>3. CASE stage[c] = "index" /\ index' = staged[c]
    <3>1. witness' = witness /\ key' = key
      BY <1>1, <2>1, <2>3
    <3> QED
      BY <2>1, <2>3, <3>1, IndexStep
  <2> QED
    BY <2>1, <2>2, <2>3
<1> QED
  BY <1>2, <1>3, <1>4, <1>5, <1>6

\* Every step of every caller keeps the invariant.
LEMMA NextStep == IInv /\ [Next]_vars => IInv'
<1> SUFFICES ASSUME IInv, [Next]_vars PROVE IInv'
  OBVIOUS
<1>1. ASSUME NEW c \in Callers, at[c] \notin Transactions
      PROVE  stage[c] = "out" /\ lock # c
  BY <1>1 DEF IInv, CallerOK, LockHeld
<1>2. ASSUME NEW c \in Callers, Call(c) PROVE IInv'
  <2>1. /\ at' = [at EXCEPT ![c] = "begin"] /\ task' \in [Callers -> TaskIds \cup {NoTask}]
        /\ \A d \in Callers \ {c} : task'[d] = task[d]
        /\ UNCHANGED <<stage, work, staged, ok, lock, witness, directory, key, index>>
    BY <1>2 DEF Call, IInv, TypeOK
  <2>2. stage[c] = "out"
    BY <1>1, <1>2 DEF Call, Transactions
  <2> QED
    BY <2>1, <2>2, MoveStep DEF Activities, Transactions
<1>3. ASSUME NEW c \in Callers, LockTimeout(c) PROVE IInv'
  <2>1. stage[c] = "out" /\ lock # c
    BY <1>3 DEF LockTimeout, IInv, CallerOK, LockHeld
  <2>2. stage' = [stage EXCEPT ![c] = "out"]
    BY <1>3, <2>1 DEF LockTimeout, IInv, TypeOK
  <2> QED
    BY <1>3, <2>1, <2>2, AbandonStep DEF LockTimeout, IInv, TypeOK, Files
<1>4. ASSUME NEW c \in Callers, Allocate(c) \/ Run(c) PROVE IInv'
  <2>1. /\ stage[c] = "out" /\ lock # c
        /\ UNCHANGED <<stage, ok, lock, witness, directory, key>>
    BY <1>1, <1>4 DEF Allocate, Run, Transactions
  <2>2. CASE Abandon(c)
    <3>1. stage' = [stage EXCEPT ![c] = "out"]
      BY <2>1 DEF IInv, TypeOK
    <3> QED
      BY <2>1, <2>2, <3>1, AbandonStep DEF IInv, TypeOK, Files
  <2>3. CASE ~Abandon(c)
    BY <1>4, <2>1, <2>3, MoveStep DEF Allocate, Run, Activities, Transactions, IInv, TypeOK
  <2> QED
    BY <2>2, <2>3
<1>5. ASSUME NEW c \in Callers, Crash(c) PROVE IInv'
  <2>1. /\ ok' \in [Callers -> BOOLEAN] /\ \A d \in Callers \ {c} : ok'[d] = ok[d]
    BY <1>5 DEF Crash, IInv, TypeOK
  <2> QED
    BY <1>5, <2>1, AbandonStep DEF Crash, Files
<1>6. CASE UNCHANGED vars
  BY <1>6 DEF vars, callerVars, IInv, TypeOK, NoReplay, StoreOK, IndexIsWitnessed, CallerOK,
       LockHeld, StagedOK, ClaimOK, FilesOK, Writing, Changes, Executing
<1> QED
  BY <1>2, <1>3, <1>4, <1>5, <1>6, EnterStep, LeaveStep, WriteStep DEF Next, Transact

\* The initial states satisfy the invariant.
LEMMA InitStep == Init => IInv
<1> SUFFICES ASSUME Init PROVE IInv
  OBVIOUS
<1>1. TypeOK
  BY SpecialRecords DEF Init, TypeOK, Activities, Stages, Stores
<1>2. NoReplay /\ StoreOK
  BY SpecialRecords DEF Init, NoReplay, StoreOK, IndexIsWitnessed
<1>3. \A c \in Callers : CallerOK(c)
  BY CallerAssumption
     DEF Init, CallerOK, LockHeld, StagedOK, ClaimOK, FilesOK, Writing, Executing
<1> QED
  BY <1>1, <1>2, <1>3 DEF IInv

-----------------------------------------------------------------------------
(* The theorems.                                                           *)

\* The invariant the theorems below rest on.
THEOREM Inductive == Spec => []IInv
BY InitStep, NextStep, PTL DEF Spec

\* Two callers never execute one logical task, what one completed is not run again
\* by another, and no index is found without its witness and its key.
THEOREM RecoveryIsSafe == Spec => []Inv
<1>1. IInv => Inv
  <2> SUFFICES ASSUME IInv PROVE Inv
    OBVIOUS
  <2>1. ExecutedByOne
    <3> SUFFICES ASSUME NEW c \in Callers, NEW d \in Callers, c # d,
                        Executing(c), Executing(d), task[c] = task[d]
                 PROVE  FALSE
      BY DEF ExecutedByOne
    <3>1. ClaimOK(c) /\ ClaimOK(d)
      BY DEF IInv, CallerOK
    <3>2. stage[c] = "unlock" /\ stage[d] = "unlock"
      BY <3>1, CallerAssumption DEF ClaimOK
    <3> QED
      BY <3>2, OneInside
  <2> QED
    BY <2>1 DEF IInv, Inv, StoreOK
<1> QED
  BY <1>1, Inductive, PTL

\* A step leaves the index alone, loses the claims of one caller, or is the write of
\* the caller that has the lock.
LEMMA IndexChanges ==
    ASSUME IInv, [Next]_vars
    PROVE  \/ index' = index
           \/ \E c \in Callers : index' = LoseClaims(index, c)
           \/ \E c \in Callers : lock = c /\ stage[c] = "index" /\ index' = staged[c]
<1>1. ASSUME NEW c \in Callers, stage[c] = "index" PROVE lock = c
  BY <1>1 DEF IInv, CallerOK, LockHeld
<1>2. ASSUME NEW c \in Callers, Abandon(c) PROVE index' = LoseClaims(index, c)
  BY <1>2 DEF Abandon
<1>3. ASSUME NEW c \in Callers, Call(c) \/ Transact(c)
      PROVE  index' = index \/ Abandon(c) \/ (stage[c] = "index" /\ index' = staged[c])
  <2>1. CASE Leave(c)
    <3>1. stage[c] # "out"
      BY <2>1 DEF Leave
    <3>2. at[c] \in Transactions /\ ok[c] \in BOOLEAN
      BY <3>1 DEF IInv, CallerOK, LockHeld, TypeOK
    <3>3. CASE ~ok[c] \/ at[c] = "finalize"
      BY <2>1, <3>3 DEF Leave
    <3>4. CASE ok[c] /\ at[c] = "begin"
      BY <2>1, <3>4 DEF Leave
    <3>5. CASE ok[c] /\ at[c] = "claim"
      BY <2>1, <3>5 DEF Leave
    <3> QED
      BY <3>2, <3>3, <3>4, <3>5 DEF Transactions
  <2>2. CASE Enter(c) \/ LockTimeout(c) \/ Call(c)
    BY <2>2 DEF Enter, LockTimeout, Call
  <2>3. CASE WriteWitness(c) \/ MakeDirectory(c) \/ WriteKey(c)
    BY <2>3 DEF WriteWitness, MakeDirectory, WriteKey
  <2>4. CASE WriteIndex(c) \/ WriteFails(c)
    BY <2>4 DEF WriteIndex, WriteFails, Write
  <2> QED
    BY <1>3, <2>1, <2>2, <2>3, <2>4 DEF Transact
<1>4. ASSUME NEW c \in Callers, Allocate(c) \/ Run(c) \/ Crash(c)
      PROVE  index' = index \/ Abandon(c)
  BY <1>4 DEF Allocate, Run, Crash
<1>5. CASE UNCHANGED vars
  BY <1>5 DEF vars
<1> QED
  BY <1>1, <1>2, <1>3, <1>4, <1>5 DEF Next

\* What a step may do to one record.
LEMMA RecordChanges ==
    ASSUME IInv, [Next]_vars, NEW k \in TaskIds
    PROVE  /\ index[k].claim = Lost => index'[k] = index[k]
           /\ index[k].exists =>
                index'[k].exists /\ index'[k].pending \subseteq index[k].pending
<1>1. index \in Stores
  BY DEF IInv, TypeOK, Stores
<1>2. CASE index' = index
  BY <1>2
<1>3. ASSUME NEW c \in Callers, index' = LoseClaims(index, c)
      PROVE  /\ index[k].claim = Lost => index'[k] = index[k]
             /\ index[k].exists =>
                  index'[k].exists /\ index'[k].pending \subseteq index[k].pending
  BY <1>1, <1>3, LoseEffect, CallerAssumption
<1>4. ASSUME NEW c \in Callers, stage[c] = "index", index' = staged[c]
      PROVE  /\ index[k].claim = Lost => index'[k] = index[k]
             /\ index[k].exists =>
                  index'[k].exists /\ index'[k].pending \subseteq index[k].pending
  BY <1>4, IndexEffect, CallerAssumption
<1> QED
  BY <1>2, <1>3, <1>4, IndexChanges

\* What was lost stays unknown, what was kept stays known: no crash and no failing
\* write reopens a task or a completed criterion.
THEOREM StoreIsKept == Spec => StoreKeeps
<1>1. IInv /\ [Next]_vars =>
        [\A k \in TaskIds : index[k].claim = Lost => index'[k] = index[k]]_vars
  BY RecordChanges
<1>2. IInv /\ [Next]_vars =>
        [\A k \in TaskIds : index[k].exists =>
            index'[k].exists /\ index'[k].pending \subseteq index[k].pending]_vars
  BY RecordChanges
<1> QED
  BY <1>1, <1>2, Inductive, PTL DEF Spec, StoreKeeps, LostStaysUnknown, StoreOnlyGrows

\* "abandoned locks fail closed": once a process has died with the lock nothing is
\* written any more, and the lock is nobody's to take.
THEOREM AbandonedLockIsKept == Spec => AbandonedLockFreezes
<1>1. ASSUME IInv, [Next]_vars, lock = Lost
      PROVE  /\ UNCHANGED <<lock, witness, directory, key>>
             /\ \A k \in TaskIds : index'[k].pending = index[k].pending
                                /\ index'[k].exists = index[k].exists
  <2>1. \A c \in Callers : stage[c] = "out" /\ lock # c
    BY <1>1, CallerAssumption DEF IInv, CallerOK, LockHeld
  <2>2. UNCHANGED <<lock, witness, directory, key>>
    BY <1>1, <2>1, CallerAssumption
       DEF Next, Transact, Call, Enter, LockFree, LockTimeout, WriteWitness, MakeDirectory,
           WriteKey, WriteIndex, WriteFails, Write, Leave, Allocate, Run, Crash, vars
  <2>3. \A k \in TaskIds : index'[k].pending = index[k].pending
                        /\ index'[k].exists = index[k].exists
    <3>1. index \in Stores
      BY <1>1 DEF IInv, TypeOK, Stores
    <3>2. index' = index \/ \E c \in Callers : index' = LoseClaims(index, c)
      BY <1>1, <2>1, IndexChanges
    <3> QED
      BY <3>1, <3>2, LoseEffect
  <2> QED
    BY <2>2, <2>3
<1>2. IInv /\ [Next]_vars =>
        [lock = Lost =>
          /\ UNCHANGED <<lock, witness, directory, key>>
          /\ \A k \in TaskIds : index'[k].pending = index[k].pending
                             /\ index'[k].exists = index[k].exists]_vars
  BY <1>1
<1> QED
  BY <1>2, Inductive, PTL DEF Spec, AbandonedLockFreezes

-----------------------------------------------------------------------------
(* The store implements the logical tasks.                                 *)

\* The abstract state: which tasks exist, what is left of them, who executes them.
Known == {k \in TaskIds : index[k].exists}
Left == [k \in TaskIds |-> IF index[k].exists THEN index[k].pending ELSE Criteria]
Executor == [k \in TaskIds |-> index[k].claim]

\* The write of an index is the creation, the start or the report of one task, or
\* nothing at all.
LEMMA WriteImplements ==
    ASSUME IInv, NEW c \in Callers, stage[c] = "index", index' = staged[c]
    PROVE  Tasks!LNext \/ UNCHANGED Tasks!lvars
<1>0. PICK k \in TaskIds : k = task[c]
  BY IndexEffect
<1> DEFINE old == index[k]
           new == staged[c][k]
<1>1. /\ \A j \in TaskIds \ {k} : index'[j] = index[j]
      /\ Changes(c, old, new) /\ index'[k] = new /\ at[c] \in Transactions
  BY <1>0, IndexEffect
<1>2. index \in Stores /\ index' \in Stores /\ old \in Records /\ new \in Records
  BY <1>1 DEF IInv, TypeOK, Stores
<1>3. k \notin Known <=> ~old.exists
  BY <1>1 DEF Known
<1> HIDE DEF old, new
<1>4. CASE at[c] = "begin" /\ old = NoRecord /\ new = NewRecord
  <2>1. k \notin Known /\ Known' = Known \cup {k}
    BY <1>1, <1>3, <1>4, SpecialRecords DEF Known, old
  <2>2. Left' = Left /\ Executor' = Executor
    BY <1>1, <1>4, SpecialRecords DEF Left, Executor, old
  <2>3. Tasks!Create(k)
    BY <2>1, <2>2 DEF Tasks!Create, Known, Left, Executor
  <2> QED
    BY <2>3 DEF Tasks!LNext
<1>5. CASE at[c] = "begin" /\ new = old
  <2>1. index' = index
    BY <1>1, <1>2, <1>5 DEF Stores, old
  <2> QED
    BY <2>1 DEF Tasks!lvars
<1>6. CASE at[c] = "claim"
  <2>1. /\ old.exists /\ old.claim = Nobody /\ old.pending # {}
        /\ new.exists /\ new.claim = c /\ new.pending = old.pending
    BY <1>1, <1>6 DEF Changes
  <2>2. Known' = Known /\ Left' = Left /\ Executor' = [Executor EXCEPT ![k] = c]
    BY <1>1, <2>1 DEF Known, Left, Executor, old
  <2>3. k \in Known /\ Executor[k] = Nobody /\ Left[k] # {}
    BY <1>1, <1>3, <2>1 DEF Left, Executor, old
  <2>4. Tasks!Begin(k, c)
    BY <2>2, <2>3 DEF Tasks!Begin, Known, Left, Executor
  <2> QED
    BY <1>1, <2>4 DEF Tasks!LNext
<1>7. CASE at[c] = "finalize"
  <2> DEFINE done == old.pending \ new.pending
  <2>1. /\ old.exists /\ old.claim = c
        /\ new.exists /\ new.claim = Nobody /\ new.pending \subseteq old.pending
    BY <1>1, <1>7 DEF Changes
  <2>2. done \subseteq old.pending /\ done \in SUBSET Criteria
        /\ new.pending = old.pending \ done
    BY <1>2, <2>1, RecordParts
  <2> HIDE DEF done
  <2>3. /\ Known' = Known /\ Left' = [Left EXCEPT ![k] = old.pending \ done]
        /\ Executor' = [Executor EXCEPT ![k] = Nobody]
    BY <1>1, <2>1, <2>2 DEF Known, Left, Executor, old
  <2>4. Executor[k] = c /\ Left[k] = old.pending
    BY <1>1, <2>1 DEF Left, Executor, old
  <2>5. PICK passed \in SUBSET Criteria : passed = done
    BY <2>2
  <2>6. Tasks!Report(k, passed)
    BY <2>2, <2>3, <2>4, <2>5 DEF Tasks!Report, Known, Left, Executor
  <2> QED
    BY <2>6 DEF Tasks!LNext
<1> QED
  BY <1>1, <1>4, <1>5, <1>6, <1>7 DEF Changes, Transactions

\* A step of the store is a step of the logical tasks, or changes none of them.
LEMMA StepImplements ==
    ASSUME IInv, [Next]_vars
    PROVE  [Tasks!LNext]_(Tasks!lvars)
<1>1. CASE index' = index
  BY <1>1 DEF Tasks!lvars
<1>2. ASSUME NEW c \in Callers, index' = LoseClaims(index, c)
      PROVE  Tasks!LNext
  <2>1. index \in Stores
    BY DEF IInv, TypeOK, Stores
  <2>2. /\ Known' = Known /\ Left' = Left
        /\ Executor' = [k \in TaskIds |-> IF Executor[k] = c THEN Lost ELSE Executor[k]]
    BY <1>2, <2>1, LoseEffect DEF Known, Left, Executor
  <2>3. Tasks!Lose(c)
    BY <2>2 DEF Tasks!Lose, Known, Left, Executor
  <2> QED
    BY <2>3 DEF Tasks!LNext
<1>3. ASSUME NEW c \in Callers, stage[c] = "index", index' = staged[c]
      PROVE  Tasks!LNext \/ UNCHANGED Tasks!lvars
  BY <1>3, WriteImplements
<1> QED
  BY <1>1, <1>2, <1>3, IndexChanges

\* The initial store is that of no task at all.
LEMMA InitImplements == Init => Tasks!LInit
<1> SUFFICES ASSUME Init PROVE Tasks!LInit
  OBVIOUS
<1>1. Known = {} /\ Left = [k \in TaskIds |-> Criteria] /\ Executor = [k \in TaskIds |-> Nobody]
  BY SpecialRecords DEF Init, Known, Left, Executor
<1> QED
  BY <1>1 DEF Tasks!LInit, Known, Left, Executor

\* Files, lock, crashes and failing writes taken together, the store behaves like the
\* logical tasks: one executor at a time, a criterion completed once, a lost executor
\* never replaced.
THEOREM StoreImplementsTasks == Spec => ImplementsLogicalTasks
<1>1. IInv /\ [Next]_vars => [Tasks!LNext]_(Tasks!lvars)
  BY StepImplements
<1> QED
  BY <1>1, InitImplements, Inductive, PTL DEF Spec, ImplementsLogicalTasks, Tasks!LSpec

===============================================================================
