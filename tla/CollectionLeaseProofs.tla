------------------------- MODULE CollectionLeaseProofs -------------------------
(***************************************************************************)
(* Proofs about CollectionLease for any number of Dagster runs, ticks and  *)
(* rows: type correctness, the fence, and the ledger it implements.        *)
(***************************************************************************)
EXTENDS CollectionLease, TLAPS

\* The initial state is well typed.
LEMMA TypeInit == Init => TypeOK
  BY BoundsAssumption DEF Init, TypeOK, EnvTypeOK, DbTypeOK, SessionTypeOK, ScanTypeOK,
     HistTypeOK, Row, Time, Terminal, DagsterState

\* Every action keeps the types; a commit relies on a new row having a known status.
LEMMA TypeStep == TypeOK /\ NewRows /\ [Next]_vars => TypeOK'
<1> USE BoundsAssumption DEF Row, Time, Terminal, DagsterState
<1>1. ASSUME TypeOK, NewRows, [Next]_vars PROVE TypeOK'
  <2> USE <1>1 DEF TypeOK, vars, dbVars, sessionVars, scanVars, histVars
  <2>1. CASE Tick
    <3>1. EnvTypeOK'
      BY <2>1 DEF Tick, EnvTypeOK
    <3>2. SessionTypeOK' /\ ScanTypeOK'
      BY <2>1 DEF Tick, SessionTypeOK, ScanTypeOK
    <3>3. QED
      BY <2>1, <3>1, <3>2 DEF Tick, DbTypeOK, HistTypeOK
  <2>2. CASE ServerRestart
    <3>1. ScanTypeOK'
      BY <2>2 DEF ServerRestart, ScanTypeOK
    <3>2. QED
      BY <2>2, <3>1 DEF ServerRestart, EnvTypeOK, DbTypeOK, SessionTypeOK, HistTypeOK
  <2>3. ASSUME NEW w \in Worker, DagsterEnds(w) PROVE TypeOK'
    <3>1. EnvTypeOK'
      BY <2>3 DEF DagsterEnds, EnvTypeOK
    <3>2. QED
      BY <2>3, <3>1 DEF DagsterEnds, DbTypeOK, SessionTypeOK, ScanTypeOK, HistTypeOK
  <2>4. ASSUME NEW w \in Worker, WorkerStep(w) PROVE TypeOK'
    <3>1. EnvTypeOK' /\ ScanTypeOK'
      BY <2>4 DEF WorkerStep, OpenSession, RefuseSession, CloseSession, Crash, NextOp, InsertRun,
         BulkWrite, Flush, FenceRejects, SetStatus, BeginNested, ReleaseNested, RollbackNested,
         Commit, Rollback, EnvTypeOK, ScanTypeOK
    <3>2. DbTypeOK' /\ HistTypeOK'
      <4>1. CASE Commit(w)
        <5>1. run[w] \in Row
          BY <4>1 DEF Commit, SessionTypeOK
        <5>2. status' \in [Row -> {"absent", "running"} \cup Terminal]
          <6>1. mem[w] \in {"running", "unknown"} \cup Terminal
            BY DEF SessionTypeOK
          <6>2. w \in isNew => mem[w] # "unknown"
            BY <1>1 DEF NewRows
          <6> QED
            BY <4>1, <5>1, <6>1, <6>2 DEF Commit, DbTypeOK
        <5>3. owner' \in [Row -> Worker \cup {NoWorker}]
          BY <4>1, <5>1 DEF Commit, DbTypeOK
        <5>4. heartbeat' \in [Row -> Time]
          <6>1. beat[w] \in Time /\ now \in Time
            BY DEF SessionTypeOK, EnvTypeOK
          <6> QED
            BY <4>1, <5>1, <6>1 DEF Commit, DbTypeOK
        <5>5. HistTypeOK'
          BY <4>1, <5>1 DEF Commit, HistTypeOK
        <5>6. QED
          BY <4>1, <5>2, <5>3, <5>4, <5>5 DEF Commit, DbTypeOK
      <4>2. CASE InsertRun(w)
        BY <4>2 DEF InsertRun, DbTypeOK, HistTypeOK
      <4>3. CASE ~Commit(w) /\ ~InsertRun(w)
        <5>1. UNCHANGED <<dbVars, histVars>>
          BY <2>4, <4>3 DEF WorkerStep, OpenSession, RefuseSession, CloseSession, Crash, NextOp,
             BulkWrite, Flush, FenceRejects, SetStatus, BeginNested, ReleaseNested,
             RollbackNested, Rollback
        <5>2. QED
          BY <5>1 DEF DbTypeOK, HistTypeOK
      <4>4. QED
        BY <4>1, <4>2, <4>3
    <3>3. SessionTypeOK'
      <4> USE DEF SessionTypeOK
      <4>1. CASE OpenSession(w) \/ RefuseSession(w) \/ CloseSession(w) \/ Crash(w) \/ NextOp(w)
        BY <4>1 DEF OpenSession, RefuseSession, CloseSession, Crash, NextOp, ResetSession, EnvTypeOK
      <4>2. CASE InsertRun(w)
        BY <4>2 DEF InsertRun, EnvTypeOK, DbTypeOK
      <4>3. CASE BulkWrite(w) \/ Flush(w) \/ FenceRejects(w) \/ SetStatus(w) \/ BeginNested(w)
        BY <4>3 DEF BulkWrite, Flush, FenceRejects, SetStatus, BeginNested, Stronger, Level,
                    EnvTypeOK
      <4>4. CASE ReleaseNested(w) \/ RollbackNested(w)
        BY <4>4 DEF ReleaseNested, RollbackNested, AfterCommit, AfterRollback, EnvTypeOK
      <4>5. CASE Commit(w) \/ Rollback(w)
        BY <4>5 DEF Commit, Rollback, AfterCommit, AfterRollback
      <4>6. QED
        BY <2>4, <4>1, <4>2, <4>3, <4>4, <4>5 DEF WorkerStep
    <3>4. QED
      BY <3>1, <3>2, <3>3
  <2>5. ASSUME NEW s \in Scanner, ScanStep(s) PROVE TypeOK'
    <3>1. EnvTypeOK' /\ SessionTypeOK'
      BY <2>5 DEF ScanStep, ScanStart, OutOfBudget, ReadPage, MetadataFails, ScanAborts, Judge,
         Update, EnvTypeOK, SessionTypeOK
    <3>2. DbTypeOK' /\ HistTypeOK'
      <4>1. ASSUME NEW r \in Row, Update(s, r) PROVE DbTypeOK' /\ HistTypeOK'
        BY <4>1 DEF Update, DbTypeOK, HistTypeOK
      <4>2. CASE ~\E r \in Row : Update(s, r)
        <5>1. UNCHANGED <<dbVars, histVars>>
          BY <2>5, <4>2 DEF ScanStep, ScanStart, OutOfBudget, ReadPage, MetadataFails, ScanAborts,
             Judge
        <5>2. QED
          BY <5>1 DEF DbTypeOK, HistTypeOK
      <4>3. QED
        BY <4>1, <4>2
    <3>3. ScanTypeOK'
      <4> USE DEF ScanTypeOK
      <4> DEFINE LocalsOK == /\ spc' \in [Scanner -> {"idle", "read", "row", "update"}]
                             /\ cursor' \in [Scanner -> 0..MaxRows]
                             /\ page' \in [Scanner -> SUBSET Row]
                             /\ seen' \in [Scanner -> [Row -> Time]]
                             /\ verdict' \in [Scanner -> {"none", "finished", "missing"}]
      <4>0. EndTick(s) => LocalsOK
        <5> SUFFICES ASSUME EndTick(s) PROVE LocalsOK
          OBVIOUS
        <5>1. [r \in Row |-> 0] \in [Row -> Time]
          OBVIOUS
        <5>2. seen' \in [Scanner -> [Row -> Time]]
          BY <5>1 DEF EndTick
        <5>3. QED
          BY <5>2 DEF EndTick
      <4>1. CASE OutOfBudget(s) \/ MetadataFails(s) \/ ScanAborts(s)
        <5>1. LocalsOK
          BY <4>0, <4>1 DEF OutOfBudget, MetadataFails, ScanAborts
        <5>2. position' \in 0..MaxRows
          BY <4>1 DEF OutOfBudget, MetadataFails, ScanAborts
        <5>3. faults' \in 0..MaxFaults
          BY <4>1 DEF OutOfBudget, MetadataFails, ScanAborts
        <5>4. QED
          BY <5>1, <5>2, <5>3
      <4>7. CASE ScanStart(s)
        BY <4>7 DEF ScanStart
      <4>2. CASE ReadPage(s)
        <5>1. FirstPage(Waiting(s)) \in SUBSET Row
          BY DEF FirstPage, Waiting
        <5>2. [r \in Row |-> IF r \in FirstPage(Waiting(s)) THEN heartbeat[r] ELSE 0]
                  \in [Row -> Time]
          BY DEF DbTypeOK
        <5>3. CASE Waiting(s) = {}
          <6>1. EndTick(s) /\ position' = 0 /\ faults' = faults
            BY <4>2, <5>3 DEF ReadPage
          <6>2. position' \in 0..MaxRows /\ faults' \in 0..MaxFaults
            BY <6>1
          <6>3. LocalsOK
            BY <4>0, <6>1
          <6>4. QED
            BY <6>2, <6>3
        <5>4. CASE Waiting(s) # {}
          <6>1. page' \in [Scanner -> SUBSET Row]
            BY <4>2, <5>1, <5>4 DEF ReadPage
          <6>2. seen' \in [Scanner -> [Row -> Time]]
            BY <4>2, <5>2, <5>4 DEF ReadPage
          <6>3. spc' \in [Scanner -> {"idle", "read", "row", "update"}]
            BY <4>2, <5>4 DEF ReadPage
          <6>4. QED
            BY <4>2, <5>4, <6>1, <6>2, <6>3 DEF ReadPage
        <5>5. QED
          BY <5>3, <5>4
      <4>3. ASSUME NEW r \in Row, RowDone(s, r) PROVE LocalsOK /\ position' \in 0..MaxRows
        <5>1. [seen[s] EXCEPT ![r] = 0] \in [Row -> Time]
          OBVIOUS
        <5>2. seen' \in [Scanner -> [Row -> Time]]
          BY <4>3, <5>1 DEF RowDone
        <5>3. page[s] \ {r} \in SUBSET Row
          OBVIOUS
        <5>4. page' \in [Scanner -> SUBSET Row]
          BY <4>3, <5>3 DEF RowDone
        <5>5. spc' \in [Scanner -> {"idle", "read", "row", "update"}]
          BY <4>3 DEF RowDone
        <5>9. position' \in 0..MaxRows
          BY <4>3 DEF RowDone
        <5>6. cursor' \in [Scanner -> 0..MaxRows]
          BY <4>3 DEF RowDone
        <5>7. verdict' \in [Scanner -> {"none", "finished", "missing"}]
          BY <4>3 DEF RowDone
        <5>8. QED
          BY <5>2, <5>4, <5>5, <5>6, <5>7, <5>9
      <4>4. ASSUME NEW r \in Row, Judge(s, r) PROVE ScanTypeOK'
        BY <4>3, <4>4 DEF Judge
      <4>5. ASSUME NEW r \in Row, Update(s, r) PROVE ScanTypeOK'
        BY <4>3, <4>5 DEF Update
      <4>6. QED
        BY <2>5, <4>1, <4>2, <4>4, <4>5, <4>7 DEF ScanStep
    <3>4. QED
      BY <3>1, <3>2, <3>3
  <2>6. CASE UNCHANGED vars
    BY <2>6 DEF EnvTypeOK, DbTypeOK, SessionTypeOK, ScanTypeOK, HistTypeOK
  <2>7. QED
    BY <1>1, <2>1, <2>2, <2>3, <2>4, <2>5, <2>6 DEF Next
<1> QED
  BY <1>1

\* The fence's invariant holds initially.
LEMMA LeaseInit == Init => LeaseInv
  BY DEF Init, LeaseInv, UnusedIds, ReclaimedAreFailed, OneRunEach, NewRows, CommittedRows,
     FencedRows, LockedRows, InSavepoint, ClosedByOwner

\* Steps of the clock, of Dagster and of a scan that writes no row keep it: they change
\* neither rows nor sessions.
LEMMA LeaseStutter ==
  ASSUME LeaseInv, UNCHANGED <<dbVars, sessionVars, reclaimed>>
  PROVE  LeaseInv'
  BY DEF LeaseInv, UnusedIds, ReclaimedAreFailed, OneRunEach, NewRows, CommittedRows,
     FencedRows, LockedRows, InSavepoint, ClosedByOwner, dbVars, sessionVars

\* Beginning and ending sessions.
LEMMA LeaseSession ==
  ASSUME TypeOK, LeaseInv, NEW w \in Worker,
         OpenSession(w) \/ RefuseSession(w) \/ CloseSession(w) \/ Crash(w) \/ NextOp(w)
  PROVE  LeaseInv'
<1> USE DEF LeaseInv, TypeOK, SessionTypeOK, dbVars, histVars
<1>1. CASE OpenSession(w) \/ CloseSession(w) \/ Crash(w)
  <2> USE <1>1 DEF OpenSession, CloseSession, Crash, ResetSession
  <2>1. UnusedIds' /\ ReclaimedAreFailed'
    BY DEF UnusedIds, ReclaimedAreFailed
  <2>2. OneRunEach'
    BY DEF OneRunEach
  <2>3. NewRows'
    BY DEF NewRows
  <2>4. CommittedRows'
    BY DEF CommittedRows
  <2>5. FencedRows' /\ LockedRows'
    BY DEF FencedRows, LockedRows
  <2>6. InSavepoint' /\ ClosedByOwner'
    BY DEF InSavepoint, ClosedByOwner
  <2>7. QED
    BY <2>1, <2>2, <2>3, <2>4, <2>5, <2>6
<1>2. CASE RefuseSession(w) \/ NextOp(w)
  <2> USE <1>2 DEF RefuseSession, NextOp
  <2>1. OneRunEach'
    BY DEF OneRunEach
  <2>2. QED
    BY <2>1 DEF UnusedIds, ReclaimedAreFailed, NewRows, CommittedRows, FencedRows, LockedRows,
       InSavepoint, ClosedByOwner
<1>3. QED
  BY <1>1, <1>2

\* Inserting a row: its id is new to every session.
LEMMA LeaseInsert ==
  ASSUME TypeOK, LeaseInv, NEW w \in Worker, InsertRun(w)
  PROVE  LeaseInv'
<1> USE BoundsAssumption DEF LeaseInv, TypeOK, SessionTypeOK, DbTypeOK, HistTypeOK, InsertRun,
        histVars, Row
<1>1. nextId \in Row /\ status[nextId] = "absent"
  BY DEF UnusedIds
<1>2. UnusedIds' /\ ReclaimedAreFailed'
  BY DEF UnusedIds, ReclaimedAreFailed
<1>3. OneRunEach'
  BY DEF OneRunEach
<1>4. NewRows'
  BY <1>1 DEF NewRows
<1>5. CommittedRows'
  BY DEF CommittedRows
<1>6. FencedRows'
  BY DEF FencedRows
<1>7. LockedRows'
  BY DEF LockedRows
<1>8. InSavepoint'
  BY DEF InSavepoint
<1>9. ClosedByOwner'
  BY DEF ClosedByOwner
<1>10. QED
  BY <1>2, <1>3, <1>4, <1>5, <1>6, <1>7, <1>8, <1>9

\* Steps inside a transaction that write no row of the ledger.
LEMMA LeaseTransaction ==
  ASSUME TypeOK, LeaseInv, NEW w \in Worker,
         BulkWrite(w) \/ Flush(w) \/ FenceRejects(w) \/ SetStatus(w) \/ BeginNested(w)
  PROVE  LeaseInv'
<1> USE DEF LeaseInv, TypeOK, SessionTypeOK, dbVars, histVars, BulkWrite, Flush, FenceRejects,
        SetStatus, BeginNested, FenceReads, FencePasses, StillOwner, Stronger, Level
<1>1. UnusedIds' /\ ReclaimedAreFailed'
  BY DEF UnusedIds, ReclaimedAreFailed
<1>2. OneRunEach'
  BY DEF OneRunEach
<1>3. NewRows'
  BY DEF NewRows, FencedRows, Terminal
<1>4. CommittedRows'
  BY DEF CommittedRows
<1>5. FencedRows'
  BY DEF FencedRows
<1>6. LockedRows'
  BY DEF LockedRows, FencedRows
<1>7. InSavepoint'
  BY DEF InSavepoint, ClosedByOwner, Terminal
<1>8. ClosedByOwner'
  BY DEF ClosedByOwner
<1>9. QED
  BY <1>1, <1>2, <1>3, <1>4, <1>5, <1>6, <1>7, <1>8

\* The end of a savepoint.
LEMMA LeaseNested ==
  ASSUME TypeOK, LeaseInv, NEW w \in Worker, ReleaseNested(w) \/ RollbackNested(w)
  PROVE  LeaseInv'
<1> USE DEF LeaseInv, TypeOK, SessionTypeOK, dbVars, histVars, ReleaseNested, RollbackNested,
        FenceReads, FencePasses, StillOwner, AfterCommit, AfterRollback, Terminal
<1>1. UnusedIds' /\ ReclaimedAreFailed'
  BY DEF UnusedIds, ReclaimedAreFailed
<1>2. OneRunEach'
  BY DEF OneRunEach
<1>3. NewRows'
  BY DEF NewRows
<1>4. CommittedRows'
  BY DEF CommittedRows, InSavepoint
<1>5. FencedRows'
  BY DEF FencedRows
<1>6. LockedRows'
  BY DEF LockedRows, FencedRows, InSavepoint
<1>7. InSavepoint'
  BY DEF InSavepoint
<1>8. ClosedByOwner'
  BY DEF ClosedByOwner, InSavepoint
<1>9. QED
  BY <1>1, <1>2, <1>3, <1>4, <1>5, <1>6, <1>7, <1>8

\* What a commit finds in its row: nothing yet, a running row, or one it closed before.
LEMMA CommitRow ==
  ASSUME TypeOK, LeaseInv, NEW w \in Worker, Commit(w)
  PROVE  /\ run[w] \in Row
         /\ run[w] \notin reclaimed
         /\ w \in isNew => status[run[w]] = "absent" /\ mem[w] \in {"running"} \cup Terminal
         /\ w \notin isNew /\ w \in tracked => status[run[w]] = "running"
         /\ w \notin tracked => /\ status[run[w]] \in Terminal
                               /\ mem[w] \in {"unknown", status[run[w]]}
<1> USE BoundsAssumption DEF LeaseInv, TypeOK, SessionTypeOK, Row, Commit
<1>1. run[w] \in Row
  OBVIOUS
<1>2. w \in isNew => status[run[w]] = "absent" /\ mem[w] \in {"running"} \cup Terminal
  BY DEF NewRows
<1>3. w \notin isNew /\ w \in tracked => status[run[w]] = "running"
  BY DEF FencePasses, FenceReads, StillOwner, FencedRows, LockedRows
<1>4. w \notin tracked => /\ status[run[w]] \in Terminal
                         /\ mem[w] \in {"unknown", status[run[w]]}
                         /\ run[w] \notin reclaimed
  BY DEF ClosedByOwner
<1>5. run[w] \notin reclaimed
  BY <1>2, <1>3, <1>4 DEF ReclaimedAreFailed
<1>6. QED
  BY <1>1, <1>2, <1>3, <1>4, <1>5

\* Committing and rolling back.
LEMMA LeaseCommit ==
  ASSUME TypeOK, LeaseInv, NEW w \in Worker, Commit(w)
  PROVE  LeaseInv'
<1> USE DEF LeaseInv, TypeOK, SessionTypeOK, Commit, AfterCommit
<1> DEFINE r == run[w]
<1>1. /\ r \in Row /\ r \notin reclaimed /\ r < nextId
      /\ \A v \in Worker \ {w} : run[v] # r
  BY CommitRow DEF OneRunEach
<1>2. /\ \A q \in Row \ {r} : status'[q] = status[q] /\ owner'[q] = owner[q]
      /\ status'[r] = IF w \in isNew \/ mem[w] \in Terminal THEN mem[w] ELSE status[r]
      /\ owner'[r] = IF w \in isNew THEN w ELSE owner[r]
  BY <1>1 DEF DbTypeOK
<1>3. UnusedIds' /\ ReclaimedAreFailed'
  BY <1>1, <1>2 DEF UnusedIds, ReclaimedAreFailed, HistTypeOK, DbTypeOK, Row
<1>4. OneRunEach'
  BY DEF OneRunEach
<1>5. \A v \in Worker : run[v] # 0 => run[v] \in Row
  BY BoundsAssumption DEF Row
<1>6. NewRows'
  BY <1>1, <1>2, <1>5 DEF NewRows
<1>7. CommittedRows'
  <2>1. status'[r] # "absent"
    BY <1>2, CommitRow DEF Terminal, CommittedRows
  <2>2. owner'[r] = w
    BY <1>2 DEF CommittedRows
  <2>3. QED
    BY <1>1, <1>2, <1>5, <2>1, <2>2 DEF CommittedRows
<1>8. FencedRows' /\ LockedRows'
  BY <1>1, <1>2, <1>5 DEF FencedRows, LockedRows
<1>9. InSavepoint'
  BY DEF InSavepoint, Terminal
<1>10. ClosedByOwner'
  <2>1. w \notin tracked' => status'[r] \in Terminal /\ mem[w] \in {"unknown", status'[r]}
    BY <1>2, CommitRow DEF Terminal
  <2>2. QED
    BY <1>1, <1>2, <1>5, <2>1 DEF ClosedByOwner
<1>11. QED
  BY <1>3, <1>4, <1>6, <1>7, <1>8, <1>9, <1>10

\* A rollback forgets a row it had inserted and expires what it knew of a committed one.
LEMMA LeaseRollback ==
  ASSUME TypeOK, LeaseInv, NEW w \in Worker, Rollback(w)
  PROVE  LeaseInv'
<1> USE DEF LeaseInv, TypeOK, SessionTypeOK, dbVars, histVars, Rollback, AfterRollback
<1>1. UnusedIds' /\ ReclaimedAreFailed'
  BY DEF UnusedIds, ReclaimedAreFailed
<1>2. OneRunEach'
  BY DEF OneRunEach
<1>3. NewRows'
  BY DEF NewRows
<1>4. CommittedRows'
  BY DEF CommittedRows
<1>5. FencedRows' /\ LockedRows'
  BY DEF FencedRows, LockedRows
<1>6. InSavepoint' /\ ClosedByOwner'
  BY DEF InSavepoint, ClosedByOwner
<1>7. QED
  BY <1>1, <1>2, <1>3, <1>4, <1>5, <1>6

\* The recovery UPDATE closes only rows that no transaction has locked.
LEMMA LeaseUpdate ==
  ASSUME TypeOK, LeaseInv, NEW s \in Scanner, NEW r \in Row, Update(s, r)
  PROVE  LeaseInv'
<1> USE DEF LeaseInv, TypeOK, Update, sessionVars
<1>1. CASE ~Reclaims(s, r)
  BY <1>1, LeaseStutter DEF dbVars
<1>2. CASE Reclaims(s, r)
  <2>1. /\ status[r] = "running" /\ status' = [status EXCEPT ![r] = "failed"]
        /\ reclaimed' = reclaimed \cup {r}
    BY <1>2 DEF Reclaims
  <2>2. \A w \in Worker : run[w] # 0 => run[w] \in Row
    BY BoundsAssumption DEF SessionTypeOK, Row
  <2>3. \A w \in Worker : run[w] = r => w \in tracked /\ w \notin fenced /\ w \notin isNew
    BY <2>1 DEF ClosedByOwner, FencedRows, NewRows, Row, Terminal
  <2>4. UnusedIds' /\ ReclaimedAreFailed'
    BY <2>1 DEF UnusedIds, ReclaimedAreFailed, DbTypeOK, HistTypeOK
  <2>5. OneRunEach'
    BY DEF OneRunEach
  <2>6. NewRows'
    BY <2>1, <2>2, <2>3 DEF NewRows, DbTypeOK
  <2>7. CommittedRows'
    BY <2>1, <2>2 DEF CommittedRows, DbTypeOK
  <2>8. FencedRows' /\ LockedRows'
    BY <2>1, <2>2 DEF FencedRows, LockedRows, DbTypeOK
  <2>9. InSavepoint' /\ ClosedByOwner'
    BY <2>1, <2>2, <2>3 DEF InSavepoint, ClosedByOwner, DbTypeOK
  <2>10. QED
    BY <2>4, <2>5, <2>6, <2>7, <2>8, <2>9
<1>3. QED
  BY <1>1, <1>2

\* Every step keeps the invariant of the fence.
LEMMA LeaseStep == TypeOK /\ LeaseInv /\ [Next]_vars => LeaseInv'
<1> SUFFICES ASSUME TypeOK, LeaseInv, [Next]_vars PROVE LeaseInv'
  OBVIOUS
<1>1. CASE Tick \/ ServerRestart \/ (\E w \in Worker : DagsterEnds(w)) \/ UNCHANGED vars
  BY <1>1, LeaseStutter DEF Tick, ServerRestart, DagsterEnds, vars, histVars
<1>2. ASSUME NEW w \in Worker, WorkerStep(w) PROVE LeaseInv'
  BY <1>2, LeaseSession, LeaseInsert, LeaseTransaction, LeaseNested, LeaseCommit, LeaseRollback
     DEF WorkerStep
<1>3. ASSUME NEW s \in Scanner, ScanStep(s) PROVE LeaseInv'
  <2>1. CASE \E r \in Row : Update(s, r)
    BY <2>1, LeaseUpdate
  <2>2. CASE ~ \E r \in Row : Update(s, r)
    BY <1>3, <2>2, LeaseStutter DEF ScanStep, ScanStart, OutOfBudget, ReadPage, MetadataFails,
       ScanAborts, Judge, histVars
  <2>3. QED
    BY <2>1, <2>2
<1>4. QED
  BY <1>1, <1>2, <1>3 DEF Next

\* The inductive invariant of the lease protocol.
THEOREM LeaseInductive == Spec => [](TypeOK /\ LeaseInv)
<1>1. TypeOK /\ LeaseInv /\ [Next]_vars => TypeOK' /\ LeaseInv'
  BY TypeStep, LeaseStep DEF LeaseInv
<1>2. QED
  BY TypeInit, LeaseInit, <1>1, PTL DEF Spec

\* Every variable keeps its type, whatever the number of workers, rows and ticks.
THEOREM TypeCorrect == Spec => []TypeOK
  BY LeaseInductive, PTL

\* A session that counts its row as fenced really holds it.
THEOREM FenceCorrect == Spec => []FenceIsHeld
<1>1. TypeOK /\ LeaseInv => FenceIsHeld
  BY DEF LeaseInv, FenceIsHeld, FencedRows, LockedRows, NewRows, CommittedRows, StillOwner
<1>2. QED
  BY LeaseInductive, <1>1, PTL

--------------------------------------------------------------------------------
(* The fenced sessions implement the ledger.                               *)

\* A commit is a Work step of the ledger.
LEMMA CommitIsWork ==
  ASSUME TypeOK, LeaseInv, NEW w \in Worker, Commit(w)
  PROVE  Ledger!Work(run[w])
<1> USE DEF Terminal
<1> DEFINE r == run[w]
           t == IF w \in isNew \/ mem[w] \in Terminal THEN mem[w] ELSE status[r]
           n == IF dirty[w] = "none" THEN 0 ELSE 1
<1>1. /\ r \in Row /\ r \notin reclaimed
      /\ t \in {"running"} \cup Terminal
      /\ status[r] \in Terminal => t = status[r]
  BY CommitRow
<1>2. status' = [status EXCEPT ![r] = t] /\ reclaimed' = reclaimed
  BY DEF Commit
<1>3. ledgerState[r] = status[r] /\ ledgerState[r] # "reclaimed"
  BY <1>1 DEF ledgerState, TypeOK, DbTypeOK
<1>4. ledgerState' = [ledgerState EXCEPT ![r] = t]
  BY <1>1, <1>2 DEF ledgerState, TypeOK, DbTypeOK
<1>5. published' = [published EXCEPT ![r] = published[r] + n] /\ n \in {0, 1}
  <2>0. published \in [Row -> Nat]
    BY DEF TypeOK, HistTypeOK
  <2>1. CASE dirty[w] = "none"
    <3>1. published' = [published EXCEPT ![r] = published[r]]
      BY <2>1 DEF Commit
    <3>2. n = 0 /\ published[r] + 0 = published[r]
      BY <1>1, <2>0, <2>1
    <3>3. QED
      BY <3>1, <3>2
  <2>2. CASE dirty[w] # "none"
    <3>1. published' = [published EXCEPT ![r] = published[r] + 1]
      BY <2>2 DEF Commit
    <3>2. QED
      BY <1>1, <2>0, <2>2, <3>1
  <2>3. QED
    BY <2>1, <2>2
<1>6. QED
  BY <1>1, <1>3, <1>4, <1>5 DEF Ledger!Work, Ledger!Finished

\* A reclaim is a Reclaim step of the ledger.
LEMMA UpdateIsReclaim ==
  ASSUME TypeOK, LeaseInv, NEW s \in Scanner, NEW r \in Row, Update(s, r)
  PROVE  Ledger!Reclaim(r) \/ UNCHANGED Ledger!ledgerVars
<1>1. CASE Reclaims(s, r)
  <2>1. /\ status[r] = "running" /\ status' = [status EXCEPT ![r] = "failed"]
        /\ reclaimed' = reclaimed \cup {r} /\ published' = published
    BY <1>1 DEF Update, Reclaims
  <2>2. r \notin reclaimed
    BY <2>1 DEF LeaseInv, ReclaimedAreFailed
  <2>3. QED
    BY <2>1, <2>2 DEF Ledger!Reclaim, ledgerState, TypeOK, DbTypeOK, HistTypeOK
<1>2. CASE ~Reclaims(s, r)
  BY <1>2 DEF Update, ledgerState, Ledger!ledgerVars
<1>3. QED
  BY <1>1, <1>2

\* Whatever workers, zombies, crashes and overlapping ticks do, the ledger's readers see runs
\* that are closed once, and nothing of a reclaimed run ever changes.
THEOREM LedgerImplemented == Spec => ImplementsLedger
<1>1. Init => Ledger!LedgerInit
  BY DEF Init, Ledger!LedgerInit, ledgerState
<1>2. TypeOK /\ LeaseInv /\ [Next]_vars => [Ledger!LedgerNext]_(Ledger!ledgerVars)
  <2> SUFFICES ASSUME TypeOK, LeaseInv, [Next]_vars
               PROVE  Ledger!LedgerNext \/ UNCHANGED Ledger!ledgerVars
    OBVIOUS
  <2>1. ASSUME UNCHANGED <<status, reclaimed, published>>
        PROVE  UNCHANGED Ledger!ledgerVars
    BY <2>1 DEF ledgerState, Ledger!ledgerVars
  <2>2. CASE Tick \/ ServerRestart \/ (\E w \in Worker : DagsterEnds(w)) \/ UNCHANGED vars
    BY <2>1, <2>2 DEF Tick, ServerRestart, DagsterEnds, vars, histVars, dbVars
  <2>3. ASSUME NEW w \in Worker, WorkerStep(w)
        PROVE  Ledger!LedgerNext \/ UNCHANGED Ledger!ledgerVars
    <3>1. CASE Commit(w)
      BY <3>1, CommitIsWork, CommitRow DEF Ledger!LedgerNext
    <3>2. CASE ~Commit(w)
      BY <2>1, <2>3, <3>2 DEF WorkerStep, OpenSession, RefuseSession, CloseSession, Crash, NextOp,
         InsertRun, BulkWrite, Flush, FenceRejects, SetStatus, BeginNested, ReleaseNested,
         RollbackNested, Rollback, histVars, dbVars
    <3>3. QED
      BY <3>1, <3>2
  <2>4. ASSUME NEW s \in Scanner, ScanStep(s)
        PROVE  Ledger!LedgerNext \/ UNCHANGED Ledger!ledgerVars
    <3>1. CASE \E r \in Row : Update(s, r)
      BY <3>1, UpdateIsReclaim DEF Ledger!LedgerNext
    <3>2. CASE ~ \E r \in Row : Update(s, r)
      BY <2>1, <2>4, <3>2 DEF ScanStep, ScanStart, OutOfBudget, ReadPage, MetadataFails,
         ScanAborts, Judge, histVars, dbVars
    <3>3. QED
      BY <3>1, <3>2
  <2>5. QED
    BY <2>2, <2>3, <2>4 DEF Next
<1>3. QED
  BY <1>1, <1>2, LeaseInductive, PTL DEF Spec, ImplementsLedger, Ledger!LedgerSpec

--------------------------------------------------------------------------------
(* Recovery has evidence for what it closes.                               *)

\* No tick has anything in hand initially.
LEMMA ScanInit == Init => ScanInv
  BY DEF Init, ScanInv, PagedRows, JudgedRows

\* No step undoes a row's existence or its owner.
LEMMA RowsStay ==
  ASSUME TypeOK, LeaseInv, [Next]_vars, NEW r \in Row, status[r] # "absent"
  PROVE  status'[r] # "absent" /\ owner'[r] = owner[r]
<1>1. CASE \E w \in Worker : Commit(w)
  <2> PICK w \in Worker : Commit(w)
    BY <1>1
  <2>1. CASE run[w] = r
    BY <2>1, CommitRow DEF Commit, Terminal, TypeOK, DbTypeOK
  <2>2. CASE run[w] # r
    BY <2>2, CommitRow DEF Commit, TypeOK, DbTypeOK
  <2>3. QED
    BY <2>1, <2>2
<1>2. CASE \E s \in Scanner, q \in Row : Update(s, q)
  BY <1>2 DEF Update, TypeOK, DbTypeOK
<1>3. CASE /\ ~ \E w \in Worker : Commit(w)
           /\ ~ \E s \in Scanner, q \in Row : Update(s, q)
  <2>1. ASSUME NEW w \in Worker, WorkerStep(w) PROVE UNCHANGED <<status, owner>>
    BY <1>3, <2>1 DEF WorkerStep, OpenSession, RefuseSession, CloseSession, Crash, NextOp,
       InsertRun, BulkWrite, Flush, FenceRejects, SetStatus, BeginNested, ReleaseNested,
       RollbackNested, Rollback, dbVars
  <2>2. ASSUME NEW s \in Scanner, ScanStep(s) PROVE UNCHANGED <<status, owner>>
    BY <1>3, <2>2 DEF ScanStep, ScanStart, OutOfBudget, ReadPage, MetadataFails, ScanAborts,
       Judge, dbVars
  <2>3. CASE Tick \/ ServerRestart \/ (\E w \in Worker : DagsterEnds(w)) \/ UNCHANGED vars
    BY <2>3 DEF Tick, ServerRestart, DagsterEnds, vars, dbVars
  <2>4. QED
    BY <2>1, <2>2, <2>3 DEF Next
<1>4. QED
  BY <1>1, <1>2, <1>3

\* Pages hold existing, owned rows, and a verdict stays backed by its evidence: heartbeats
\* of the page and the end of a Dagster run do not go away, and time only advances.
LEMMA ScanStepInv ==
  ASSUME TypeOK, LeaseInv, ScanInv, [Next]_vars
  PROVE  ScanInv'
<1> USE DEF ScanInv
<1>0. /\ \A w \in Worker : dagster[w] \in {"finished", "purged"} =>
                             dagster'[w] \in {"finished", "purged"}
      /\ \A w \in Worker : Missing(w) => Missing(w)'
      /\ now' \in Int /\ now' >= now
  <2>1. CASE Tick
    BY <2>1 DEF Tick, TypeOK, EnvTypeOK, Time, Missing
  <2>2. CASE \E w \in Worker : DagsterEnds(w)
    BY <2>2 DEF DagsterEnds, TypeOK, EnvTypeOK, Time, Missing
  <2>3. CASE UNCHANGED <<now, dagster>>
    BY <2>3 DEF TypeOK, EnvTypeOK, Time, Missing
  <2>4. QED
    BY <2>1, <2>2, <2>3 DEF Next, ServerRestart, WorkerStep, OpenSession, RefuseSession,
       CloseSession, Crash, NextOp, InsertRun, BulkWrite, Flush, FenceRejects, SetStatus,
       BeginNested, ReleaseNested, RollbackNested, Commit, Rollback, ScanStep, ScanStart,
       OutOfBudget, ReadPage, MetadataFails, ScanAborts, Judge, Update, vars
<1>1. ASSUME NEW s \in Scanner, UNCHANGED <<spc[s], page[s], seen[s], verdict[s]>>
      PROVE  /\ \A r \in page'[s] : status'[r] # "absent" /\ owner'[r] \in Worker
             /\ \A r \in Row : spc'[s] = "update" /\ IsHead(s, r)' =>
                  \/ verdict'[s] = "finished" /\ dagster'[owner'[r]] \in {"finished", "purged"}
                  \/ verdict'[s] = "missing" /\ Missing(owner[r])' /\ Expired(s, r)'
  <2>1. page[s] \subseteq Row
    BY DEF TypeOK, ScanTypeOK
  <2>2. \A r \in page[s] : status'[r] # "absent" /\ owner'[r] = owner[r] /\ owner[r] \in Worker
    BY <2>1, RowsStay DEF PagedRows
  <2>3. ASSUME NEW r \in Row, spc'[s] = "update", IsHead(s, r)'
        PROVE \/ verdict'[s] = "finished" /\ dagster'[owner'[r]] \in {"finished", "purged"}
              \/ verdict'[s] = "missing" /\ Missing(owner[r])' /\ Expired(s, r)'
    <3>1. spc[s] = "update" /\ IsHead(s, r)
      BY <1>1, <2>3 DEF IsHead
    <3>2. owner'[r] = owner[r] /\ owner[r] \in Worker
      BY <2>2, <3>1 DEF IsHead
    <3>3. CASE verdict[s] = "finished" /\ dagster[owner[r]] \in {"finished", "purged"}
      BY <1>0, <1>1, <3>2, <3>3
    <3>4. CASE verdict[s] = "missing" /\ Missing(owner[r]) /\ Expired(s, r)
      <4>1. Missing(owner[r])'
        BY <1>0, <3>2, <3>4 DEF Missing
      <4>2. Expired(s, r)'
        <5>1. seen[s][r] \in Int /\ now \in Int /\ Grace \in Int /\ seen'[s] = seen[s]
          BY <1>1, BoundsAssumption DEF TypeOK, EnvTypeOK, ScanTypeOK, Time
        <5>2. QED
          BY <1>0, <3>4, <5>1 DEF Expired
      <4>3. QED
        BY <1>1, <3>4, <4>1, <4>2
    <3>5. QED
      BY <3>1, <3>3, <3>4 DEF JudgedRows
  <2>4. QED
    BY <1>1, <2>2, <2>3
<1> DEFINE Backed(s) ==
      /\ \A r \in page'[s] : status'[r] # "absent" /\ owner'[r] \in Worker
      /\ \A r \in Row : spc'[s] = "update" /\ IsHead(s, r)' =>
           \/ verdict'[s] = "finished" /\ dagster'[owner'[r]] \in {"finished", "purged"}
           \/ verdict'[s] = "missing" /\ Missing(owner[r])' /\ Expired(s, r)'
<1>2. SUFFICES ASSUME NEW s \in Scanner PROVE Backed(s)
  BY DEF PagedRows, JudgedRows
<1>3. page[s] \subseteq Row
  BY DEF TypeOK, ScanTypeOK
<1>4. CASE ServerRestart
  BY <1>4 DEF ServerRestart, IsHead
<1>5. ASSUME NEW t \in Scanner, ScanStep(t) PROVE Backed(s)
  <2>1. CASE t # s
    <3>1. UNCHANGED <<spc[s], page[s], seen[s], verdict[s]>>
      <4>1. ASSUME EndTick(t) PROVE UNCHANGED <<spc[s], page[s], seen[s], verdict[s]>>
        BY <2>1, <4>1 DEF EndTick, TypeOK, ScanTypeOK
      <4>2. ASSUME NEW r \in Row, RowDone(t, r)
            PROVE  UNCHANGED <<spc[s], page[s], seen[s], verdict[s]>>
        BY <2>1, <4>2 DEF RowDone, TypeOK, ScanTypeOK
      <4>3. CASE ScanStart(t) \/ OutOfBudget(t) \/ MetadataFails(t) \/ ScanAborts(t)
        BY <2>1, <4>1, <4>3 DEF ScanStart, OutOfBudget, MetadataFails, ScanAborts, TypeOK,
           ScanTypeOK
      <4>4. CASE ReadPage(t)
        BY <2>1, <4>1, <4>4 DEF ReadPage, TypeOK, ScanTypeOK
      <4>5. ASSUME NEW r \in Row, Judge(t, r) \/ Update(t, r)
            PROVE  UNCHANGED <<spc[s], page[s], seen[s], verdict[s]>>
        BY <2>1, <4>2, <4>5 DEF Judge, Update, TypeOK, ScanTypeOK
      <4>6. QED
        BY <1>5, <4>3, <4>4, <4>5 DEF ScanStep
    <3>2. QED
      BY <1>1, <3>1
  <2>2. CASE t = s
    <3>1. ASSUME EndTick(s) PROVE Backed(s)
      BY <3>1 DEF EndTick, TypeOK, ScanTypeOK
    <3>2. ASSUME NEW r \in Row, RowDone(s, r) PROVE Backed(s)
      <4>1. page'[s] \subseteq page[s] /\ spc'[s] # "update"
        BY <3>2 DEF RowDone, TypeOK, ScanTypeOK
      <4>2. \A q \in page[s] : status'[q] # "absent" /\ owner'[q] \in Worker
        BY <1>3, RowsStay DEF PagedRows
      <4>3. QED
        BY <4>1, <4>2
    <3>3. CASE OutOfBudget(s) \/ MetadataFails(s) \/ ScanAborts(s)
      BY <3>1, <3>3 DEF OutOfBudget, MetadataFails, ScanAborts
    <3>4. CASE ScanStart(s)
      <4>1. spc'[s] = "read" /\ page' = page /\ status' = status /\ owner' = owner
        BY <3>4 DEF ScanStart, TypeOK, ScanTypeOK, dbVars
      <4>2. QED
        BY <4>1 DEF PagedRows
    <3>5. CASE ReadPage(s)
      <4>1. CASE Waiting(s) = {}
        BY <3>1, <3>5, <4>1 DEF ReadPage
      <4>2. CASE Waiting(s) # {}
        <5>1. page'[s] = FirstPage(Waiting(s)) /\ spc'[s] = "row"
          BY <3>5, <4>2 DEF ReadPage, TypeOK, ScanTypeOK
        <5>2. \A r \in FirstPage(Waiting(s)) : r \in Row /\ status[r] = "running"
                                               /\ owner[r] \in Worker
          BY DEF FirstPage, Waiting, TypeOK, DbTypeOK
        <5>3. status' = status /\ owner' = owner
          BY <3>5 DEF ReadPage, dbVars
        <5>4. QED
          BY <5>1, <5>2, <5>3
      <4>3. QED
        BY <4>1, <4>2
    <3>6. ASSUME NEW r \in Row, Judge(s, r) PROVE Backed(s)
      <4>1. CASE RowDone(s, r)
        BY <3>2, <4>1
      <4>2. CASE ~RowDone(s, r)
        <5>1. /\ IsHead(s, r)
              /\ page' = page /\ seen' = seen /\ now' = now /\ dagster' = dagster
              /\ status' = status /\ owner' = owner
              /\ verdict'[s] = IF Missing(owner[r]) /\ Expired(s, r) THEN "missing" ELSE "finished"
              /\ (Missing(owner[r]) /\ Expired(s, r)) \/ dagster[owner[r]] = "finished"
          BY <3>6, <4>2 DEF Judge, TypeOK, ScanTypeOK, dbVars
        <5>2. \A q \in Row : IsHead(s, q)' => q = r
          BY <5>1 DEF IsHead, Row
        <5>3. Missing(owner[r])' = Missing(owner[r]) /\ Expired(s, r)' = Expired(s, r)
          BY <5>1 DEF Missing, Expired
        <5>4. QED
          BY <5>1, <5>2, <5>3 DEF PagedRows
      <4>3. QED
        BY <4>1, <4>2
    <3>7. ASSUME NEW r \in Row, Update(s, r) PROVE Backed(s)
      BY <3>2, <3>7 DEF Update
    <3>8. QED
      BY <1>5, <2>2, <3>3, <3>4, <3>5, <3>6, <3>7 DEF ScanStep
  <2>3. QED
    BY <2>1, <2>2
<1>6. CASE UNCHANGED scanVars
  <2>1. UNCHANGED <<spc[s], page[s], seen[s], verdict[s]>>
    BY <1>6 DEF scanVars
  <2>2. QED
    BY <1>1, <2>1
<1>7. QED
  BY <1>4, <1>5, <1>6 DEF Next, Tick, DagsterEnds, WorkerStep, OpenSession, RefuseSession,
     CloseSession, Crash, NextOp, InsertRun, BulkWrite, Flush, FenceRejects, SetStatus,
     BeginNested, ReleaseNested, RollbackNested, Commit, Rollback, vars

\* Only the conditional UPDATE of a tick reclaims a row.
LEMMA ReclaimedByUpdate ==
  ASSUME [Next]_vars, NEW r \in Row, r \in reclaimed', r \notin reclaimed
  PROVE  \E s \in Scanner : Update(s, r) /\ Reclaims(s, r)
<1>1. \E s \in Scanner, q \in Row : Update(s, q)
  BY DEF Next, Tick, ServerRestart, DagsterEnds, WorkerStep, OpenSession, RefuseSession,
     CloseSession, Crash, NextOp, InsertRun, BulkWrite, Flush, FenceRejects, SetStatus,
     BeginNested, ReleaseNested, RollbackNested, Commit, Rollback, ScanStep, ScanStart,
     OutOfBudget, ReadPage, MetadataFails, ScanAborts, Judge, vars, histVars
<1>2. PICK s \in Scanner, q \in Row : Update(s, q)
  BY <1>1
<1>3. q = r /\ Reclaims(s, r)
  BY <1>2 DEF Update
<1>4. QED
  BY <1>2, <1>3

\* Recovery never closes a run without evidence: an end recorded by Dagster, or a missing
\* record and a heartbeat that is still older than the grace period when the row is written.
THEOREM ReclaimCorrect == Spec => ReclaimJustified
<1> DEFINE Justified ==
      \A r \in Row : r \in reclaimed' \ reclaimed =>
          \/ dagster[owner[r]] \in {"finished", "purged"}
          \/ dagster[owner[r]] = "lost" /\ heartbeat[r] <= now - Grace
<1>1. TypeOK /\ LeaseInv /\ ScanInv /\ [Next]_vars => ScanInv'
  BY ScanStepInv
<1>2. TypeOK /\ LeaseInv /\ ScanInv /\ [Next]_vars => [Justified]_vars
  <2> SUFFICES ASSUME TypeOK, LeaseInv, ScanInv, [Next]_vars,
                      NEW r \in Row, r \in reclaimed', r \notin reclaimed
               PROVE  \/ dagster[owner[r]] \in {"finished", "purged"}
                      \/ dagster[owner[r]] = "lost" /\ heartbeat[r] <= now - Grace
    OBVIOUS
  <2>1. PICK s \in Scanner : Update(s, r) /\ Reclaims(s, r)
    BY ReclaimedByUpdate
  <2>4. spc[s] = "update" /\ IsHead(s, r)
    BY <2>1 DEF Update
  <2>5. CASE verdict[s] = "finished" /\ dagster[owner[r]] \in {"finished", "purged"}
    BY <2>5
  <2>6. CASE verdict[s] = "missing" /\ Missing(owner[r]) /\ Expired(s, r)
    BY <2>1, <2>6 DEF Reclaims, Missing, Expired
  <2>7. QED
    BY <2>4, <2>5, <2>6 DEF ScanInv, JudgedRows
<1>3. QED
  BY ScanInit, <1>1, <1>2, LeaseInductive, PTL DEF Spec, ReclaimJustified
--------------------------------------------------------------------------------
(* The grace period and the sessions it protects.                          *)

\* A session's committed row has a heartbeat at least as young as the session; a fence
\* writes the one its commit will store.  Neither is in the future.
BeatsFresh ==
    \A w \in Worker :
        /\ started[w] <= now /\ beat[w] <= now
        /\ w \in fenced => started[w] <= beat[w]
        /\ run[w] # 0 /\ w \notin isNew => started[w] <= heartbeat[run[w]]

\* No session is open initially.
LEMMA BeatsInit == Init => BeatsFresh
  BY DEF Init, BeatsFresh

\* Every step of a worker keeps its heartbeat as young as its session.
LEMMA BeatsWorker ==
  ASSUME TypeOK, LeaseInv, BeatsFresh, NEW w \in Worker, WorkerStep(w)
  PROVE  BeatsFresh'
<1> USE BoundsAssumption DEF BeatsFresh, TypeOK, EnvTypeOK, DbTypeOK, SessionTypeOK, Time, dbVars
<1>1. CASE OpenSession(w) \/ RefuseSession(w) \/ CloseSession(w) \/ Crash(w) \/ NextOp(w)
  BY <1>1 DEF OpenSession, RefuseSession, CloseSession, Crash, NextOp, ResetSession
<1>2. CASE InsertRun(w)
  BY <1>2 DEF InsertRun
<1>3. CASE BulkWrite(w) \/ Flush(w) \/ FenceRejects(w) \/ SetStatus(w) \/ BeginNested(w)
  BY <1>3 DEF BulkWrite, Flush, FenceRejects, SetStatus, BeginNested
<1>4. CASE ReleaseNested(w) \/ RollbackNested(w)
  BY <1>4 DEF ReleaseNested, RollbackNested, AfterCommit, AfterRollback, LeaseInv, InSavepoint
<1>5. CASE Commit(w)
  <2>1. run[w] \in Row /\ \A v \in Worker \ {w} : run[v] # run[w]
    BY <1>5, CommitRow DEF Commit, LeaseInv, OneRunEach
  <2>2. \A v \in Worker \ {w} : run[v] # 0 => heartbeat'[run[v]] = heartbeat[run[v]]
    BY <1>5, <2>1 DEF Commit, Row
  <2>3. started[w] <= heartbeat'[run[w]]
    <3>1. w \in isNew => w \in fenced
      BY DEF LeaseInv, NewRows
    <3>2. heartbeat'[run[w]] = IF FenceReads(w) THEN now
                               ELSE IF w \in fenced THEN beat[w] ELSE heartbeat[run[w]]
      BY <1>5, <2>1 DEF Commit
    <3>3. QED
      BY <1>5, <3>1, <3>2 DEF Commit
  <2>4. /\ UNCHANGED <<now, started, run>>
        /\ fenced' = fenced \ {w} /\ isNew' = isNew \ {w}
        /\ \A v \in Worker : beat'[v] = IF v = w THEN 0 ELSE beat[v]
    BY <1>5 DEF Commit, AfterCommit
  <2>5. QED
    BY <2>2, <2>3, <2>4
<1>6. CASE Rollback(w)
  BY <1>6 DEF Rollback, AfterRollback
<1>7. QED
  BY <1>1, <1>2, <1>3, <1>4, <1>5, <1>6 DEF WorkerStep

\* So does every other step: time only advances, and a scan writes no heartbeat.
LEMMA BeatsStep ==
  ASSUME TypeOK, LeaseInv, BeatsFresh, [Next]_vars
  PROVE  BeatsFresh'
<1>1. ASSUME UNCHANGED <<heartbeat, sessionVars>>, now' = now \/ now' = now + 1
      PROVE  BeatsFresh'
  BY <1>1, BoundsAssumption DEF BeatsFresh, TypeOK, EnvTypeOK, SessionTypeOK, Time, sessionVars
<1>2. CASE Tick \/ ServerRestart \/ (\E w \in Worker : DagsterEnds(w)) \/ UNCHANGED vars
  BY <1>1, <1>2 DEF Tick, ServerRestart, DagsterEnds, vars, dbVars
<1>3. CASE \E s \in Scanner : ScanStep(s)
  BY <1>1, <1>3 DEF ScanStep, ScanStart, OutOfBudget, ReadPage, MetadataFails, ScanAborts,
     Judge, Update, dbVars
<1>4. QED
  BY <1>2, <1>3, BeatsWorker DEF Next

\* A run whose record was lost while it executes is never taken away from a session that is
\* within its own timeout: the verdict needs a heartbeat that has not moved since the page
\* was read, it is no older than the session, and the grace period is longer.
THEOREM LiveSessionsKept == Spec => LiveSessionKept
<1> DEFINE Kept ==
      \A r \in Row : r \in reclaimed' \ reclaimed /\ dagster[owner[r]] = "lost" =>
          ~ \E w \in Worker : pc[w] = "open" /\ run[w] = r /\ now - started[w] <= Runtime
<1>1. TypeOK /\ LeaseInv /\ ScanInv /\ BeatsFresh /\ [Next]_vars => ScanInv' /\ BeatsFresh'
  BY ScanStepInv, BeatsStep
<1>2. TypeOK /\ LeaseInv /\ ScanInv /\ BeatsFresh /\ [Next]_vars => [Kept]_vars
  <2> SUFFICES ASSUME TypeOK, LeaseInv, ScanInv, BeatsFresh, [Next]_vars,
                      NEW r \in Row, r \in reclaimed', r \notin reclaimed,
                      dagster[owner[r]] = "lost",
                      NEW w \in Worker, run[w] = r
               PROVE  now - started[w] > Runtime
    BY BoundsAssumption DEF TypeOK, EnvTypeOK, SessionTypeOK, Time
  <2>1. PICK s \in Scanner : Update(s, r) /\ Reclaims(s, r)
    BY ReclaimedByUpdate
  <2>2. heartbeat[r] <= now - Grace
    BY <2>1 DEF Update, Reclaims, Expired, ScanInv, JudgedRows
  <2>3. lock[w] = "none" /\ r # 0
    BY <2>1 DEF Update, Row
  <2>4. started[w] <= heartbeat[r]
    BY <2>3 DEF BeatsFresh, LeaseInv, NewRows
  <2>5. QED
    BY <2>2, <2>4, BoundsAssumption, GraceAssumption
       DEF TypeOK, EnvTypeOK, DbTypeOK, SessionTypeOK, Time
<1>3. QED
  BY ScanInit, BeatsInit, <1>1, <1>2, LeaseInductive, PTL DEF Spec, LiveSessionKept
================================================================================
