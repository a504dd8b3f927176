------------------------- MODULE FuelCollectionProofs -------------------------
(***************************************************************************)
(* Proofs about FuelCollection, for any set of processes and any bounds:   *)
(* the read model follows last_success_at, no completed collection is lost *)
(* while its checkpoint is valid, no step sets the source back, openings   *)
(* of the browser are a reservation apart, a failure is not published over *)
(* a newer success.                                                        *)
(***************************************************************************)
EXTENDS FuelCollection, TLAPS

USE FuelBounds, FuelProcs

--------------------------------------------------------------------------------
(* Operators on the source row.                                            *)

\* _get_or_create_state yields a row and does not change last_success_at.
LEMMA CreatedRow ==
    ASSUME DbTypeOK, NullRow
    PROVE  /\ Created \in State
           /\ Created.success = row.success
           /\ Exists(Created)
  BY DEF DbTypeOK, NullRow, Created, Exists, State, NoRow, Time, Stamp

\* _get_or_create_state yields a row of the right type.
LEMMA CreatedType ==
    ASSUME DbTypeOK
    PROVE  Created \in State /\ Exists(Created)
  BY DEF DbTypeOK, Created, Exists, State, NoRow, Time, Stamp

\* The ORM object has the row's type.
LEMMA LoadedType ==
    ASSUME DbTypeOK, CacheTypeOK, NEW p \in Proc
    PROVE  Loaded(p) \in State
  BY CreatedType DEF CacheTypeOK, Loaded

\* A flush of a well-typed object leaves a well-typed row.
LEMMA FlushedType ==
    ASSUME DbTypeOK, CacheTypeOK, NEW p \in Proc, NEW new \in State
    PROVE  Flushed(p, new) \in State
  <1>1. Loaded(p) \in State /\ Created \in State
    BY LoadedType, CreatedType
  <1> QED
    BY <1>1 DEF Flushed, Column, State

\* _mark_fuel_success and _mark_fuel_failure keep the object's type.
LEMMA MarkedType ==
    ASSUME DbTypeOK, CacheTypeOK, NEW p \in Proc, NEW stamp \in Time
    PROVE  MarkedSuccess(p, stamp) \in State /\ MarkedFailure(p) \in State
  <1>1. Loaded(p) \in State /\ now \in Time
    BY LoadedType DEF DbTypeOK, Stamp, Time
  <1>2. \A t \in Time : Reserved(t) \in 0..(MaxTime + Interval)
    BY DEF Reserved, Time
  <1>3. MarkedSuccess(p, stamp) \in State
    BY <1>1, <1>2 DEF MarkedSuccess, State
  <1>4. FailureDue(p) \in 0..(MaxTime + Interval)
    BY <1>1, <1>2 DEF FailureDue, State, Time
  <1>5. MarkedFailure(p) \in State
    BY <1>1, <1>4 DEF MarkedFailure, State
  <1> QED
    BY <1>3, <1>5

--------------------------------------------------------------------------------
(* Type correctness.                                                       *)

\* The initial state has the types.
LEMMA TypeInit == Init => TypeOK
  BY DEF Init, TypeOK, DbTypeOK, FileTypeOK, LocalTypeOK, CacheTypeOK, HistTypeOK, NoRow,
         State, Time, Stamp, Steps

\* The end of a run keeps the types of its local variables.
LEMMA ReturnType ==
    ASSUME LocalTypeOK, CacheTypeOK, NEW p \in Proc, Return(p)
    PROVE  LocalTypeOK' /\ CacheTypeOK'
  <1>1. NoRow \in State
    BY DEF NoRow, State, Time
  <1>2. CacheTypeOK'
    BY <1>1 DEF CacheTypeOK, Return
  <1>3. before' \in [Proc -> State] /\ after' \in [Proc -> State]
    BY <1>1 DEF LocalTypeOK, Return, ForgetLocals
  <1>4. LocalTypeOK'
    BY <1>3 DEF LocalTypeOK, Return, ForgetLocals, Goto, Time, Steps
  <1> QED
    BY <1>2, <1>4

\* A rollback expires the ORM object; the retry and the error paths keep the types.
LEMMA StoreErrorType ==
    ASSUME LocalTypeOK, CacheTypeOK, NEW p \in Proc, AfterStoreError(p),
           UNCHANGED <<startedAt, storageOnly, pending, result, before, after>>
    PROVE  LocalTypeOK' /\ CacheTypeOK'
  <1>1. NoRow \in State
    BY DEF NoRow, State, Time
  <1>2. CacheTypeOK'
    BY <1>1 DEF CacheTypeOK, AfterStoreError
  <1>3. LocalTypeOK'
    BY DEF LocalTypeOK, AfterStoreError, Goto, Steps
  <1> QED
    BY <1>2, <1>3

\* A completed collection is recorded with its type.
LEMMA CompletesType ==
    ASSUME TypeOK, CompletesFile
    PROVE  ckpt' \in Time /\ completed' \subseteq Collection
  <1>1. now \in Stamp /\ now \in Time /\ begun + Life \in 0..(MaxTime + Life)
    BY DEF TypeOK, DbTypeOK, FileTypeOK, Stamp, Time
  <1>2. [at |-> now, until |-> begun + Life] \in Collection
    BY <1>1 DEF Collection
  <1> QED
    BY <1>1, <1>2 DEF CompletesFile, TypeOK, HistTypeOK

\* What is handed out is what the file holds.
LEMMA ResumableType ==
    ASSUME TypeOK
    PROVE  Resumable \in Time /\ Resumable \in {0, ckpt}
  BY DEF TypeOK, FileTypeOK, Resumable, Time

\* Every step keeps the types.
LEMMA TypeStep == TypeOK /\ [Next]_vars => TypeOK'
  <1> SUFFICES ASSUME TypeOK, [Next]_vars
               PROVE  TypeOK'
    OBVIOUS
  <1> USE DEF TypeOK
  <1>0. CASE UNCHANGED vars
    BY <1>0 DEF vars, dbVars, fileVars, locals, hist, DbTypeOK, FileTypeOK, LocalTypeOK,
                CacheTypeOK, HistTypeOK
  <1>1. CASE Tick
    BY <1>1 DEF Tick, dbVars, fileVars, locals, hist, DbTypeOK, FileTypeOK, LocalTypeOK,
                CacheTypeOK, HistTypeOK, Stamp
  <1>2. CASE OutsideStarts
    BY <1>2 DEF OutsideStarts, OpensFile, Fault, dbVars, locals, hist, DbTypeOK, FileTypeOK,
                LocalTypeOK, CacheTypeOK, HistTypeOK, Stamp, Time
  <1>3. CASE OutsideEnds
    <2>1. Stamp \subseteq Time /\ now \in Stamp
      BY DEF Stamp, Time, DbTypeOK
    <2>2. FileTypeOK' /\ HistTypeOK'
      <3>1. CASE UNCHANGED <<ckpt, completed>>
        BY <1>3, <3>1 DEF OutsideEnds, FileTypeOK, HistTypeOK
      <3>2. CASE CompletesFile
        BY <1>3, <2>1, <3>2, CompletesType DEF OutsideEnds, FileTypeOK, HistTypeOK
      <3> QED
        BY <1>3, <3>1, <3>2 DEF OutsideEnds
    <2> QED
      BY <1>3, <2>2 DEF OutsideEnds, dbVars, locals, DbTypeOK, LocalTypeOK, CacheTypeOK
  <1>4. ASSUME NEW p \in Proc, Peek(p)
        PROVE  TypeOK'
    <2>1. DbTypeOK' /\ FileTypeOK' /\ CacheTypeOK'
      BY <1>4 DEF Peek, fileVars, DbTypeOK, FileTypeOK, CacheTypeOK
    <2>2. HistTypeOK'
      BY <1>4 DEF Peek, Fault, hist, HistTypeOK
    <2>3. pending' \in [Proc -> Time] /\ storageOnly' \subseteq Proc
      BY <1>4, ResumableType DEF Peek, FileTypeOK, LocalTypeOK
    <2>4. startedAt' \in [Proc -> Time]
      BY <1>4 DEF Peek, DbTypeOK, LocalTypeOK, Stamp, Time
    <2>5. LocalTypeOK'
      BY <1>4, <2>3, <2>4 DEF Peek, Goto, LocalTypeOK, Steps
    <2> QED
      BY <2>1, <2>2, <2>5
  <1>5. ASSUME NEW p \in Proc, Skip(p)
        PROVE  TypeOK'
    <2>1. LocalTypeOK' /\ CacheTypeOK'
      BY <1>5, ReturnType DEF Skip
    <2> QED
      BY <1>5, <2>1 DEF Skip, fileVars, hist, DbTypeOK, FileTypeOK, HistTypeOK
  <1>6. ASSUME NEW p \in Proc, Claim(p)
        PROVE  TypeOK'
    <2>1. now \in Time /\ Reserved(now) \in 0..(MaxTime + Interval)
      BY DEF DbTypeOK, Stamp, Time, Reserved
    <2>2. row' \in State
      BY <1>6, <2>1, CreatedType DEF Claim, State
    <2> QED
      BY <1>6, <2>2 DEF Claim, Goto, fileVars, hist, DbTypeOK, FileTypeOK, LocalTypeOK,
                        CacheTypeOK, HistTypeOK, Steps
  <1>7. ASSUME NEW p \in Proc, ClaimStorage(p)
        PROVE  TypeOK'
    <2>1. startedAt[p] \in Time /\ Reserved(startedAt[p]) \in 0..(MaxTime + Interval)
      BY DEF LocalTypeOK, Time, Reserved
    <2>2. row' \in State
      BY <1>7, <2>1, CreatedType DEF ClaimStorage, State
    <2> QED
      BY <1>7, <2>2 DEF ClaimStorage, Goto, fileVars, hist, DbTypeOK, FileTypeOK, LocalTypeOK,
                        CacheTypeOK, HistTypeOK, Steps
  <1>8. ASSUME NEW p \in Proc, CollectOnce(p)
        PROVE  TypeOK'
    <2>1. after[p].started \in Time
      BY DEF LocalTypeOK, State
    <2>2. FileTypeOK'
      BY <1>8 DEF CollectOnce, OpensFile, fileVars, DbTypeOK, FileTypeOK, Stamp, Time
    <2> QED
      BY <1>8, <2>1, <2>2 DEF CollectOnce, Goto, dbVars, DbTypeOK, FileTypeOK, LocalTypeOK,
                              CacheTypeOK, HistTypeOK, Steps
  <1>9. ASSUME NEW p \in Proc, CollectBusy(p)
        PROVE  TypeOK'
    BY <1>9 DEF CollectBusy, Goto, dbVars, fileVars, locals, hist, DbTypeOK, FileTypeOK,
                LocalTypeOK, CacheTypeOK, HistTypeOK, Steps
  <1>10. ASSUME NEW p \in Proc, Complete(p)
         PROVE  TypeOK'
    <2>1. ckpt' \in Time /\ completed' \subseteq Collection
      BY <1>10, CompletesType DEF Complete
    <2> QED
      BY <1>10, <2>1 DEF Complete, Goto, dbVars, locals, DbTypeOK, FileTypeOK, LocalTypeOK,
                         CacheTypeOK, HistTypeOK, Steps
  <1>11. ASSUME NEW p \in Proc, Deliver(p)
         PROVE  TypeOK'
    BY <1>11 DEF Deliver, Goto, dbVars, hist, DbTypeOK, FileTypeOK, LocalTypeOK, CacheTypeOK,
                 HistTypeOK, Steps
  <1>12. ASSUME NEW p \in Proc, FetchFails(p)
         PROVE  TypeOK'
    BY <1>12 DEF FetchFails, Fault, Goto, dbVars, locals, hist, DbTypeOK, FileTypeOK,
                 LocalTypeOK, CacheTypeOK, HistTypeOK, Steps
  <1>13. ASSUME NEW p \in Proc, Restore(p)
         PROVE  TypeOK'
    <2>1. NoRow \in State
      BY DEF NoRow, State, Time
    <2>2. row' \in State
      BY <1>13 DEF Restore, DbTypeOK, LocalTypeOK
    <2>3. CacheTypeOK'
      BY <1>13, <2>1 DEF Restore, CacheTypeOK
    <2>4. before' \in [Proc -> State] /\ after' \in [Proc -> State]
      BY <1>13, <2>1 DEF Restore, ForgetLocals, LocalTypeOK
    <2>5. LocalTypeOK'
      BY <1>13, <2>4 DEF Restore, ForgetLocals, Goto, LocalTypeOK, Time, Steps
    <2> QED
      BY <1>13, <2>2, <2>3, <2>5 DEF Restore, fileVars, hist, DbTypeOK, FileTypeOK, HistTypeOK
  <1>14. ASSUME NEW p \in Proc, StoreSuperseded(p)
         PROVE  TypeOK'
    <2>1. LocalTypeOK' /\ CacheTypeOK'
      <3>1. CASE result[p] # 0
        BY <1>14, <3>1 DEF StoreSuperseded, Goto, locals, LocalTypeOK, CacheTypeOK, Steps
      <3>2. CASE result[p] = 0
        BY <1>14, <3>2, ReturnType DEF StoreSuperseded
      <3> QED
        BY <3>1, <3>2
    <2> QED
      BY <1>14, <2>1 DEF StoreSuperseded, dbVars, fileVars, hist, DbTypeOK, FileTypeOK,
                         HistTypeOK
  <1>15. ASSUME NEW p \in Proc, StoreWrites(p), dbLock' = dbLock, now' = now
         PROVE  DbTypeOK' /\ commitAt' \in Time
    <2>1. result[p] \in Time
      BY DEF LocalTypeOK
    <2>2. row' \in State
      BY <1>15, <2>1, MarkedType, FlushedType DEF StoreWrites
    <2> QED
      BY <1>15, <2>1, <2>2 DEF StoreWrites, Wins, DbTypeOK, Time, Stamp
  <1>16. ASSUME NEW p \in Proc, StoreSnapshot(p)
         PROVE  TypeOK'
    <2>1. DbTypeOK' /\ commitAt' \in Time
      BY <1>15, <1>16 DEF StoreSnapshot
    <2>2. CacheTypeOK'
      BY <1>16, <2>1 DEF StoreSnapshot, CacheTypeOK, DbTypeOK
    <2> QED
      BY <1>16, <2>1, <2>2 DEF StoreSnapshot, Goto, fileVars, locals, FileTypeOK, LocalTypeOK,
                               HistTypeOK, Steps
  <1>17. ASSUME NEW p \in Proc, StoreFails(p)
         PROVE  TypeOK'
    <2>1. LocalTypeOK' /\ CacheTypeOK'
      BY <1>17, StoreErrorType DEF StoreFails
    <2> QED
      BY <1>17, <2>1 DEF StoreFails, Fault, dbVars, fileVars, hist, DbTypeOK, FileTypeOK,
                         HistTypeOK
  <1>18. ASSUME NEW p \in Proc, StoreAnswerLost(p)
         PROVE  TypeOK'
    <2>1. LocalTypeOK' /\ CacheTypeOK'
      BY <1>18, StoreErrorType DEF StoreAnswerLost
    <2>2. DbTypeOK' /\ commitAt' \in Time
      BY <1>15, <1>18 DEF StoreAnswerLost
    <2> QED
      BY <1>18, <2>1, <2>2 DEF StoreAnswerLost, Fault, fileVars, FileTypeOK, HistTypeOK
  <1>19. ASSUME NEW p \in Proc, StoreUnclaimed(p)
         PROVE  TypeOK'
    <2>1. NoRow \in State
      BY DEF NoRow, State, Time
    <2> QED
      BY <1>19, <2>1 DEF StoreUnclaimed, Goto, dbVars, fileVars, locals, hist, DbTypeOK,
                         FileTypeOK, LocalTypeOK, CacheTypeOK, HistTypeOK, Steps
  <1>20. ASSUME NEW p \in Proc, RecordFailure(p)
         PROVE  TypeOK'
    <2>1. LocalTypeOK' /\ CacheTypeOK'
      BY <1>20, ReturnType DEF RecordFailure
    <2>2. row' \in State
      <3>1. 0 \in Time
        BY DEF Time
      <3> QED
        BY <1>20, <3>1, MarkedType, FlushedType DEF RecordFailure
    <2> QED
      BY <1>20, <2>1, <2>2 DEF RecordFailure, fileVars, hist, DbTypeOK, FileTypeOK, HistTypeOK
  <1>21. ASSUME NEW p \in Proc, Acknowledge(p)
         PROVE  TypeOK'
    <2>1. LocalTypeOK' /\ CacheTypeOK'
      BY <1>21, ReturnType DEF Acknowledge
    <2> QED
      BY <1>21, <2>1 DEF Acknowledge, Fault, dbVars, hist, DbTypeOK, FileTypeOK, HistTypeOK,
                         Time
  <1>22. ASSUME NEW p \in Proc, Interrupt(p)
         PROVE  TypeOK'
    <2>1. NoRow \in State
      BY DEF NoRow, State, Time
    <2> QED
      BY <1>22, <2>1 DEF Interrupt, Fault, Goto, dbVars, locals, hist, DbTypeOK, FileTypeOK,
                         LocalTypeOK, CacheTypeOK, HistTypeOK, Steps
  <1>23. ASSUME NEW p \in Proc, Abort(p)
         PROVE  TypeOK'
    <2>1. LocalTypeOK' /\ CacheTypeOK'
      BY <1>23, ReturnType DEF Abort
    <2>2. now \in Time /\ row \in State
      BY DEF DbTypeOK, Stamp, Time
    <2>3. [Created EXCEPT !.error = "failed", !.updated = now] \in State
      BY <2>2, CreatedType DEF State
    <2>4. row' \in State
      BY <1>23, <2>2, <2>3 DEF Abort
    <2> QED
      BY <1>23, <2>1, <2>4 DEF Abort, fileVars, hist, DbTypeOK, FileTypeOK, HistTypeOK
  <1>24. ASSUME NEW p \in Proc, Crash(p)
         PROVE  TypeOK'
    <2>1. LocalTypeOK' /\ CacheTypeOK'
      BY <1>24, ReturnType DEF Crash
    <2> QED
      BY <1>24, <2>1 DEF Crash, Fault, hist, DbTypeOK, FileTypeOK, HistTypeOK
  <1> QED
    BY <1>0, <1>1, <1>2, <1>3, <1>4, <1>5, <1>6, <1>7, <1>8, <1>9, <1>10, <1>11, <1>12,
       <1>13, <1>14, <1>16, <1>17, <1>18, <1>19, <1>20, <1>21, <1>22, <1>23, <1>24 DEF Next

--------------------------------------------------------------------------------
(* The inductive invariant.                                                *)

\* The invariant holds initially.
LEMMA FuelInit == Init => FuelInv
  BY DEF Init, FuelInv, ReadModelAgrees, NoSnapshotLost, NullRow, ClaimKeepsSuccess,
         CacheIsOld, BrowserHoldsFile, AckIsDurable, FileKnown, NoRow, Exists

\* The rows a step may leave behind in the database, the caches and the claims.
LEMMA RowPart ==
    ASSUME TypeOK, TypeOK', FuelInv, NullRow',
           row'.success >= row.success,
           stations' = row'.success, latest' = row'.success,
           \A q \in Proc : cache'[q] \in {cache[q], NoRow, row'},
           \A q \in Proc : \/ before'[q] = before[q] /\ after'[q] = after[q]
                           \/ before'[q] = NoRow /\ after'[q] = NoRow
                           \/ before'[q] = row /\ after'[q].success = row.success
    PROVE  ReadModelAgrees' /\ NullRow' /\ ClaimKeepsSuccess' /\ CacheIsOld'
  <1>1. row.success \in Nat /\ row'.success \in Nat
    BY DEF TypeOK, DbTypeOK, State, Time
  <1>2. CacheIsOld'
    <2> SUFFICES ASSUME NEW q \in Proc PROVE cache'[q].success <= row'.success
      BY DEF CacheIsOld
    <2>1. cache[q].success \in Nat /\ cache[q].success <= row.success
      BY DEF TypeOK, CacheTypeOK, State, Time, FuelInv, CacheIsOld
    <2>2. NoRow.success = 0
      BY DEF NoRow
    <2> QED
      BY <1>1, <2>1, <2>2
  <1>3. ClaimKeepsSuccess'
    BY DEF FuelInv, ClaimKeepsSuccess, NullRow, NoRow, Exists
  <1> QED
    BY <1>2, <1>3 DEF ReadModelAgrees

\* The stamps of a completed collection are numbers.
LEMMA CollectionType ==
    ASSUME TypeOK, NEW c \in completed
    PROVE  c.at \in Nat /\ c.at # 0 /\ c.until \in Nat
  BY DEF TypeOK, HistTypeOK, Collection, Stamp

\* Steps that leave the checkpoint as it is.
LEMMA FilePart ==
    ASSUME TypeOK, TypeOK', FuelInv,
           row'.success >= row.success,
           UNCHANGED <<ckpt, begun, completed>>, now' \in {now, now + 1},
           fileLock' \in {fileLock, NoProc},
           \A q \in Proc : pc'[q] \in {"fetch", "cleanup"} =>
                            pc'[q] = pc[q] /\ fileLock' = fileLock,
           \A q \in Proc : pc'[q] = "ack" => \/ result'[q] <= row'.success
                                             \/ pc[q] = "ack" /\ result'[q] = result[q]
    PROVE  NoSnapshotLost' /\ BrowserHoldsFile' /\ AckIsDurable' /\ FileKnown'
  <1>1. row.success \in Nat /\ row'.success \in Nat /\ now \in Nat
    BY DEF TypeOK, DbTypeOK, State, Time, Stamp
  <1>2. \A q \in Proc : result[q] \in Nat
    BY DEF TypeOK, LocalTypeOK, Time
  <1>3. NoSnapshotLost'
    <2> SUFFICES ASSUME NEW c \in completed, now' < c.until
                 PROVE  c.at <= row'.success \/ c.at = ckpt
      BY DEF NoSnapshotLost
    <2>1. c.at \in Nat /\ c.until \in Nat
      BY CollectionType
    <2>2. c.at <= row.success \/ c.at = ckpt
      BY <1>1, <2>1 DEF FuelInv, NoSnapshotLost
    <2> QED
      BY <1>1, <2>1, <2>2
  <1>4. BrowserHoldsFile'
    BY DEF FuelInv, BrowserHoldsFile
  <1>5. AckIsDurable'
    BY <1>1, <1>2 DEF FuelInv, AckIsDurable
  <1>6. FileKnown'
    BY DEF FuelInv, FileKnown
  <1> QED
    BY <1>3, <1>4, <1>5, <1>6

\* Whoever opens the file takes only an expired snapshot's place.
LEMMA OpensPart ==
    ASSUME TypeOK, FuelInv, NEW writer, OpensFile(writer), UNCHANGED <<now, row, completed>>
    PROVE  NoSnapshotLost' /\ FileKnown'
  <1>1. ASSUME NEW c \in completed, now < c.until
        PROVE  c.at <= row.success
    <2>1. c.at \in Nat /\ c.at # 0 /\ c.until \in Nat
      BY CollectionType
    <2>2. CASE c.at = ckpt
      <3>1. Resumable = ckpt
        BY <1>1, <2>2 DEF FuelInv, FileKnown, Resumable, Valid
      <3> QED
        BY <2>1, <2>2, <3>1 DEF OpensFile
    <2> QED
      BY <1>1, <2>2 DEF FuelInv, NoSnapshotLost
  <1>2. NoSnapshotLost'
    BY <1>1 DEF NoSnapshotLost
  <1>3. FileKnown'
    BY CollectionType DEF FileKnown, OpensFile
  <1> QED
    BY <1>2, <1>3

\* A collection that is completed overwrites no other.
LEMMA CompletesPart ==
    ASSUME TypeOK, FuelInv, ckpt = 0, CompletesFile, UNCHANGED <<now, row, begun>>
    PROVE  NoSnapshotLost' /\ FileKnown'
  <1> DEFINE new == [at |-> now, until |-> begun + Life]
  <1>1. NoSnapshotLost'
    <2> SUFFICES ASSUME NEW c \in completed', now < c.until
                 PROVE  c.at <= row.success \/ c.at = ckpt'
      BY DEF NoSnapshotLost
    <2>1. CASE c = new
      BY <2>1 DEF CompletesFile
    <2>2. CASE c \in completed
      <3>1. c.at # 0
        BY <2>2, CollectionType
      <3> QED
        BY <2>2, <3>1 DEF FuelInv, NoSnapshotLost
    <2> QED
      BY <2>1, <2>2 DEF CompletesFile
  <1>2. FileKnown'
    BY DEF FileKnown, CompletesFile
  <1> QED
    BY <1>1, <1>2

\* A store writes a success newer than the row's, also from a stale ORM object.
LEMMA StoreRow ==
    ASSUME TypeOK, FuelInv, NEW p \in Proc, StoreWrites(p)
    PROVE  /\ row'.success = result[p] /\ row.success < result[p]
           /\ stations' = result[p] /\ latest' = result[p]
           /\ Exists(row')
  <1>1. Created.success = row.success /\ Exists(Created) /\ Created \in State
    BY CreatedRow DEF TypeOK, FuelInv
  <1>2. row.success \in Nat /\ result[p] \in Nat /\ result[p] # 0
    BY DEF TypeOK, DbTypeOK, LocalTypeOK, State, Time, StoreWrites
  <1>3. row.success < result[p]
    BY <1>2 DEF StoreWrites, Superseded, Candidate
  <1>4. Loaded(p) \in State /\ Loaded(p).success <= row.success
    BY <1>1, <1>2, LoadedType DEF TypeOK, FuelInv, CacheIsOld, Loaded
  <1>5. Loaded(p).success # result[p]
    BY <1>2, <1>3, <1>4 DEF State, Time
  <1>6. MarkedSuccess(p, result[p]).success = result[p]
    BY <1>4 DEF MarkedSuccess, State
  <1>7. row'.success = result[p]
    BY <1>5, <1>6 DEF StoreWrites, Flushed, Column
  <1>8. MarkedSuccess(p, result[p]).updated = now /\ now # 0
    BY <1>4 DEF MarkedSuccess, State, TypeOK, DbTypeOK, Stamp
  <1>9. Exists(row')
    BY <1>1, <1>8 DEF StoreWrites, Flushed, Column, Exists
  <1>10. latest' = result[p]
    BY <1>2, <1>3 DEF StoreWrites, Wins, FuelInv, ReadModelAgrees
  <1> QED
    BY <1>3, <1>7, <1>9, <1>10 DEF StoreWrites

\* A recorded failure keeps last_success_at, also from a stale ORM object.
LEMMA FailureRow ==
    ASSUME TypeOK, FuelInv, NEW p \in Proc, row' = Flushed(p, MarkedFailure(p))
    PROVE  row'.success = row.success /\ Exists(row')
  <1>1. Created.success = row.success /\ Exists(Created) /\ Created \in State
    BY CreatedRow DEF TypeOK, FuelInv
  <1>2. Loaded(p) \in State
    BY LoadedType DEF TypeOK
  <1>3. MarkedFailure(p).success = Loaded(p).success
    BY <1>2 DEF MarkedFailure, State
  <1>4. MarkedFailure(p).updated = now /\ now # 0
    BY <1>2 DEF MarkedFailure, State, TypeOK, DbTypeOK, Stamp
  <1> QED
    BY <1>1, <1>3, <1>4 DEF Flushed, Column, Exists

\* Steps that do not touch the source row or the read model.
LEMMA RowUntouched ==
    ASSUME TypeOK, TypeOK', FuelInv, UNCHANGED <<row, latest, stations>>,
           \A q \in Proc : cache'[q] \in {cache[q], NoRow},
           \A q \in Proc : \/ before'[q] = before[q] /\ after'[q] = after[q]
                           \/ before'[q] = NoRow /\ after'[q] = NoRow
    PROVE  /\ ReadModelAgrees' /\ NullRow' /\ ClaimKeepsSuccess' /\ CacheIsOld'
           /\ row'.success >= row.success
  <1>1. row'.success >= row.success
    BY DEF TypeOK, DbTypeOK, State, Time
  <1>2. NullRow'
    BY DEF FuelInv, NullRow, Exists
  <1>3. stations' = row'.success /\ latest' = row'.success
    BY DEF FuelInv, ReadModelAgrees
  <1> QED
    BY <1>1, <1>2, <1>3, RowPart

\* The end of a run: its claim and its cache are forgotten.
LEMMA ReturnRows ==
    ASSUME TypeOK, NEW p \in Proc, Return(p)
    PROVE  /\ \A q \in Proc : cache'[q] \in {cache[q], NoRow}
           /\ \A q \in Proc : \/ before'[q] = before[q] /\ after'[q] = after[q]
                              \/ before'[q] = NoRow /\ after'[q] = NoRow
           /\ \A q \in Proc : pc'[q] = IF q = p THEN "idle" ELSE pc[q]
           /\ \A q \in Proc : q # p => result'[q] = result[q]
  BY DEF Return, ForgetLocals, Goto, TypeOK, LocalTypeOK, CacheTypeOK

\* Every step keeps the invariant, and the source never goes back to an older success.
LEMMA FuelStep ==
    ASSUME TypeOK, TypeOK', FuelInv, [Next]_vars
    PROVE  FuelInv' /\ row'.success >= row.success
  <1> DEFINE Rows == /\ ReadModelAgrees' /\ NullRow' /\ ClaimKeepsSuccess' /\ CacheIsOld'
                     /\ row'.success >= row.success
             Files == NoSnapshotLost' /\ BrowserHoldsFile' /\ AckIsDurable' /\ FileKnown'
  <1> SUFFICES Rows /\ Files
    BY DEF FuelInv
  <1>a. pc \in [Proc -> Steps] /\ result \in [Proc -> Nat] /\ row.success \in Nat
    BY DEF TypeOK, LocalTypeOK, DbTypeOK, State, Time
  <1>b. NoProc \notin Proc /\ Outside \notin Proc /\ NoProc # Outside
    OBVIOUS
  <1>0. CASE UNCHANGED vars
    <2>1. Rows
      BY <1>0, RowUntouched DEF vars, dbVars, locals
    <2> QED
      BY <1>0, <2>1, FilePart DEF vars, fileVars, hist, locals
  <1>1. CASE Tick
    <2>1. Rows
      BY <1>1, RowUntouched DEF Tick, dbVars, locals
    <2> QED
      BY <1>1, <2>1, FilePart DEF Tick, fileVars, hist, locals
  <1>2. CASE OutsideStarts
    <2>1. Rows
      BY <1>2, RowUntouched DEF OutsideStarts, dbVars, locals
    <2>2. NoSnapshotLost' /\ FileKnown'
      BY <1>2, OpensPart DEF OutsideStarts, dbVars, hist
    <2>3. BrowserHoldsFile' /\ AckIsDurable'
      BY <1>2, <1>b DEF OutsideStarts, OpensFile, dbVars, locals, FuelInv, BrowserHoldsFile,
                        AckIsDurable
    <2> QED
      BY <2>1, <2>2, <2>3
  <1>3. CASE OutsideEnds
    <2>1. Rows
      BY <1>3, RowUntouched DEF OutsideEnds, dbVars, locals
    <2>2. BrowserHoldsFile' /\ AckIsDurable'
      BY <1>3, <1>b DEF OutsideEnds, CompletesFile, dbVars, locals, FuelInv, BrowserHoldsFile,
                        AckIsDurable
    <2>3. NoSnapshotLost' /\ FileKnown'
      <3>1. CASE UNCHANGED <<ckpt, completed>>
        BY <1>3, <3>1 DEF OutsideEnds, dbVars, FuelInv, NoSnapshotLost, FileKnown
      <3>2. CASE CompletesFile
        <4>1. ckpt = 0
          BY <1>3 DEF OutsideEnds, FuelInv, BrowserHoldsFile
        <4> QED
          BY <1>3, <3>2, <4>1, CompletesPart DEF OutsideEnds, dbVars
      <3> QED
        BY <1>3, <3>1, <3>2 DEF OutsideEnds
    <2> QED
      BY <2>1, <2>2, <2>3
  <1>4. ASSUME NEW p \in Proc, Peek(p)
        PROVE  Rows /\ Files
    <2>1. Rows
      BY <1>4, RowUntouched DEF Peek
    <2> QED
      BY <1>4, <1>a, <2>1, FilePart DEF Peek, Goto, fileVars, hist
  <1>5. ASSUME NEW p \in Proc, Skip(p)
        PROVE  Rows /\ Files
    <2>1. Rows
      BY <1>5, ReturnRows, RowUntouched DEF Skip
    <2> QED
      BY <1>5, <2>1, ReturnRows, FilePart DEF Skip, fileVars, hist
  <1>6. ASSUME NEW p \in Proc, Claim(p)
        PROVE  Rows /\ Files
    <2>1. Created \in State /\ Created.success = row.success /\ now # 0
      BY CreatedRow DEF TypeOK, FuelInv, DbTypeOK, Stamp
    <2>2. row'.success = row.success /\ Exists(row')
      BY <1>6, <2>1 DEF Claim, State, Exists
    <2>3. \A q \in Proc : cache'[q] \in {cache[q], NoRow, row'}
      BY <1>6 DEF Claim, TypeOK, CacheTypeOK
    <2>4. \A q \in Proc : \/ before'[q] = before[q] /\ after'[q] = after[q]
                          \/ before'[q] = row /\ after'[q] = row'
      BY <1>6 DEF Claim, TypeOK, LocalTypeOK
    <2>5. NullRow' /\ row'.success >= row.success
      BY <1>a, <2>2 DEF NullRow
    <2>6. stations' = row'.success /\ latest' = row'.success
      BY <1>6, <2>2 DEF Claim, FuelInv, ReadModelAgrees
    <2>7. Rows
      BY <2>2, <2>3, <2>4, <2>5, <2>6, RowPart
    <2> QED
      BY <1>6, <1>a, <2>7, FilePart DEF Claim, Goto, fileVars, hist
  <1>7. ASSUME NEW p \in Proc, ClaimStorage(p)
        PROVE  Rows /\ Files
    <2>1. Created \in State /\ Created.success = row.success /\ Exists(Created)
      BY CreatedRow DEF TypeOK, FuelInv
    <2>2. row'.success = row.success /\ Exists(row')
      BY <1>7, <2>1 DEF ClaimStorage, State, Exists
    <2>3. \A q \in Proc : cache'[q] \in {cache[q], NoRow, row'}
      BY <1>7 DEF ClaimStorage, TypeOK, CacheTypeOK
    <2>5. NullRow' /\ row'.success >= row.success
      BY <1>a, <2>2 DEF NullRow
    <2>6. stations' = row'.success /\ latest' = row'.success
      BY <1>7, <2>2 DEF ClaimStorage, FuelInv, ReadModelAgrees
    <2>7. Rows
      BY <1>7, <2>2, <2>3, <2>5, <2>6, RowPart DEF ClaimStorage
    <2> QED
      BY <1>7, <1>a, <2>7, FilePart DEF ClaimStorage, Goto, fileVars, hist
  <1>8. ASSUME NEW p \in Proc, CollectOnce(p)
        PROVE  Rows /\ Files
    <2>1. Rows
      BY <1>8, RowUntouched DEF CollectOnce, dbVars
    <2>2. NoSnapshotLost' /\ FileKnown'
      <3>1. CASE UNCHANGED fileVars
        BY <1>8, <3>1 DEF CollectOnce, dbVars, fileVars, FuelInv, NoSnapshotLost, FileKnown
      <3>2. CASE OpensFile(p)
        BY <1>8, <3>2, OpensPart DEF CollectOnce, dbVars
      <3> QED
        BY <1>8, <3>1, <3>2 DEF CollectOnce
    <2>3. AckIsDurable'
      BY <1>8, <1>a DEF CollectOnce, Goto, dbVars, FuelInv, AckIsDurable
    <2>4. BrowserHoldsFile'
      BY <1>8, <1>a, <1>b DEF CollectOnce, OpensFile, Goto, fileVars, FuelInv, BrowserHoldsFile
    <2> QED
      BY <2>1, <2>2, <2>3, <2>4
  <1>9. ASSUME NEW p \in Proc, CollectBusy(p)
        PROVE  Rows /\ Files
    <2>1. Rows
      BY <1>9, RowUntouched DEF CollectBusy, dbVars, locals
    <2> QED
      BY <1>9, <1>a, <2>1, FilePart DEF CollectBusy, Goto, fileVars, hist, locals
  <1>10. ASSUME NEW p \in Proc, Complete(p)
         PROVE  Rows /\ Files
    <2>1. Rows
      BY <1>10, RowUntouched DEF Complete, dbVars, locals
    <2>2. fileLock = p /\ ckpt = 0
      BY <1>10 DEF Complete, FuelInv, BrowserHoldsFile
    <2>3. BrowserHoldsFile'
      BY <1>10, <1>a, <1>b, <2>2 DEF Complete, Goto, FuelInv, BrowserHoldsFile
    <2>4. AckIsDurable'
      BY <1>10, <1>a DEF Complete, Goto, dbVars, locals, FuelInv, AckIsDurable
    <2>5. NoSnapshotLost' /\ FileKnown'
      BY <1>10, <2>2, CompletesPart DEF Complete, dbVars
    <2> QED
      BY <2>1, <2>3, <2>4, <2>5
  <1>11. ASSUME NEW p \in Proc, Deliver(p)
         PROVE  Rows /\ Files
    <2>1. Rows
      BY <1>11, RowUntouched DEF Deliver, dbVars
    <2>2. \A q \in Proc : pc'[q] \in {"fetch", "cleanup"} => q # p /\ pc'[q] = pc[q]
      BY <1>11, <1>a DEF Deliver, Goto
    <2>3. \A q \in Proc : pc'[q] \notin {"fetch", "cleanup"}
      BY <1>11, <2>2 DEF Deliver, FuelInv, BrowserHoldsFile
    <2>4. \A q \in Proc : pc'[q] = "ack" => pc[q] = "ack" /\ result'[q] = result[q]
      BY <1>11, <1>a DEF Deliver, Goto
    <2> QED
      BY <1>11, <2>1, <2>3, <2>4, FilePart DEF Deliver, hist
  <1>12. ASSUME NEW p \in Proc, FetchFails(p)
         PROVE  Rows /\ Files
    <2>1. Rows
      BY <1>12, RowUntouched DEF FetchFails, dbVars, locals
    <2>2. \A q \in Proc : pc'[q] \in {"fetch", "cleanup"} => q # p /\ pc'[q] = pc[q]
      BY <1>12, <1>a DEF FetchFails, Goto
    <2>3. \A q \in Proc : pc'[q] \notin {"fetch", "cleanup"}
      BY <1>12, <2>2 DEF FetchFails, FuelInv, BrowserHoldsFile
    <2>4. \A q \in Proc : pc'[q] = "ack" => pc[q] = "ack" /\ result'[q] = result[q]
      BY <1>12, <1>a DEF FetchFails, Goto, locals
    <2> QED
      BY <1>12, <2>1, <2>3, <2>4, FilePart DEF FetchFails, hist
  <1>13. ASSUME NEW p \in Proc, Restore(p)
         PROVE  Rows /\ Files
    <2>1. /\ \A q \in Proc : \/ before'[q] = before[q] /\ after'[q] = after[q]
                             \/ before'[q] = NoRow /\ after'[q] = NoRow
          /\ \A q \in Proc : q # p => result'[q] = result[q]
      BY <1>13 DEF Restore, ForgetLocals, TypeOK, LocalTypeOK
    <2>2. \A q \in Proc : cache'[q] \in {cache[q], NoRow, row'}
      BY <1>13 DEF Restore, TypeOK, CacheTypeOK
    <2>3. \A q \in Proc : pc'[q] = IF q = p THEN "idle" ELSE pc[q]
      BY <1>13, <1>a DEF Restore, Goto
    <2>4. row'.success = row.success /\ NullRow'
      BY <1>13 DEF Restore, FuelInv, ClaimKeepsSuccess, NullRow, Exists
    <2>5. row'.success >= row.success
      BY <1>a, <2>4
    <2>6. stations' = row'.success /\ latest' = row'.success
      BY <1>13, <2>4 DEF Restore, FuelInv, ReadModelAgrees
    <2>7. Rows
      BY <2>1, <2>2, <2>4, <2>5, <2>6, RowPart
    <2> QED
      BY <1>13, <2>1, <2>3, <2>7, FilePart DEF Restore, fileVars, hist
  <1>14. ASSUME NEW p \in Proc, StoreSuperseded(p)
         PROVE  Rows /\ Files
    <2>1. CASE result[p] # 0
      <3>1. Rows
        BY <1>14, <2>1, RowUntouched DEF StoreSuperseded, dbVars, locals
      <3>2. result[p] <= row.success
        BY <1>14, <1>a, <2>1 DEF StoreSuperseded, Superseded, Candidate
      <3>3. \A q \in Proc : pc'[q] = IF q = p THEN "ack" ELSE pc[q]
        BY <1>14, <1>a, <2>1 DEF StoreSuperseded, Goto
      <3>4. row' = row /\ result' = result
        BY <1>14, <2>1 DEF StoreSuperseded, dbVars, locals
      <3> QED
        BY <1>14, <3>1, <3>2, <3>3, <3>4, FilePart DEF StoreSuperseded, fileVars, hist
    <2>2. CASE result[p] = 0
      <3>1. Return(p)
        BY <1>14, <2>2 DEF StoreSuperseded
      <3>2. Rows
        BY <1>14, <3>1, ReturnRows, RowUntouched DEF StoreSuperseded, dbVars
      <3> QED
        BY <1>14, <3>1, <3>2, ReturnRows, FilePart DEF StoreSuperseded, fileVars, hist
    <2> QED
      BY <2>1, <2>2
  <1>15. ASSUME NEW p \in Proc, StoreSnapshot(p)
         PROVE  Rows /\ Files
    <2>1. /\ row'.success = result[p] /\ row.success < result[p]
          /\ stations' = result[p] /\ latest' = result[p] /\ Exists(row')
      BY <1>15, StoreRow DEF StoreSnapshot
    <2>2. NullRow' /\ row'.success >= row.success
      BY <1>a, <2>1 DEF NullRow
    <2>3. \A q \in Proc : cache'[q] \in {cache[q], NoRow, row'}
      BY <1>15 DEF StoreSnapshot, TypeOK, CacheTypeOK
    <2>4. Rows
      BY <1>15, <2>1, <2>2, <2>3, RowPart DEF StoreSnapshot, locals
    <2>5. \A q \in Proc : pc'[q] = IF q = p THEN "ack" ELSE pc[q]
      BY <1>15, <1>a DEF StoreSnapshot, Goto
    <2>6. result' = result /\ result[p] <= row'.success
      BY <1>15, <1>a, <2>1 DEF StoreSnapshot, locals
    <2> QED
      BY <1>15, <2>4, <2>5, <2>6, FilePart DEF StoreSnapshot, fileVars
  <1>16. ASSUME NEW p \in Proc, AfterStoreError(p)
         PROVE  /\ \A q \in Proc : cache'[q] \in {cache[q], NoRow}
                /\ \A q \in Proc : pc'[q] \in {pc[q], "storeError", "abort"}
    BY <1>16, <1>a DEF AfterStoreError, Goto, TypeOK, CacheTypeOK
  <1>17. ASSUME NEW p \in Proc, StoreFails(p)
         PROVE  Rows /\ Files
    <2>1. Rows
      BY <1>16, <1>17, RowUntouched DEF StoreFails, dbVars
    <2> QED
      BY <1>16, <1>17, <2>1, FilePart DEF StoreFails, fileVars, hist
  <1>18. ASSUME NEW p \in Proc, StoreAnswerLost(p)
         PROVE  Rows /\ Files
    <2>1. /\ row'.success = result[p] /\ row.success < result[p]
          /\ stations' = result[p] /\ latest' = result[p] /\ Exists(row')
      BY <1>18, StoreRow DEF StoreAnswerLost
    <2>2. NullRow' /\ row'.success >= row.success
      BY <1>a, <2>1 DEF NullRow
    <2>3. /\ \A q \in Proc : cache'[q] \in {cache[q], NoRow, row'}
          /\ \A q \in Proc : pc'[q] \in {pc[q], "storeError", "abort"}
      BY <1>16, <1>18 DEF StoreAnswerLost
    <2>4. Rows
      BY <1>18, <2>1, <2>2, <2>3, RowPart DEF StoreAnswerLost
    <2> QED
      BY <1>18, <2>3, <2>4, FilePart DEF StoreAnswerLost, fileVars
  <1>19. ASSUME NEW p \in Proc, StoreUnclaimed(p)
         PROVE  Rows /\ Files
    <2>1. \A q \in Proc : cache'[q] \in {cache[q], NoRow}
      BY <1>19 DEF StoreUnclaimed, TypeOK, CacheTypeOK
    <2>2. Rows
      BY <1>19, <2>1, RowUntouched DEF StoreUnclaimed, dbVars, locals
    <2> QED
      BY <1>19, <1>a, <2>2, FilePart DEF StoreUnclaimed, Goto, fileVars, hist, locals
  <1>20. ASSUME NEW p \in Proc, RecordFailure(p)
         PROVE  Rows /\ Files
    <2>1. row'.success = row.success /\ Exists(row')
      BY <1>20, FailureRow DEF RecordFailure
    <2>2. NullRow' /\ row'.success >= row.success
      BY <1>a, <2>1 DEF NullRow
    <2>3. stations' = row'.success /\ latest' = row'.success
      BY <1>20, <2>1 DEF RecordFailure, FuelInv, ReadModelAgrees
    <2>4. Rows
      BY <1>20, <2>1, <2>2, <2>3, ReturnRows, RowPart DEF RecordFailure
    <2> QED
      BY <1>20, <2>4, ReturnRows, FilePart DEF RecordFailure, fileVars, hist
  <1>21. ASSUME NEW p \in Proc, Acknowledge(p)
         PROVE  Rows /\ Files
    <2>1. Return(p) /\ row' = row
      BY <1>21 DEF Acknowledge, dbVars
    <2>2. Rows
      BY <1>21, <2>1, ReturnRows, RowUntouched DEF Acknowledge, dbVars
    <2>3. result[p] <= row.success
      BY <1>21 DEF Acknowledge, FuelInv, AckIsDurable
    <2>4. NoSnapshotLost' /\ FileKnown'
      BY <1>21, <2>1, <2>3, CollectionType
         DEF Acknowledge, dbVars, hist, FuelInv, NoSnapshotLost, FileKnown
    <2>5. AckIsDurable'
      BY <2>1, ReturnRows DEF FuelInv, AckIsDurable
    <2>6. BrowserHoldsFile'
      BY <1>21, <2>1, ReturnRows DEF Acknowledge, FuelInv, BrowserHoldsFile
    <2> QED
      BY <2>2, <2>4, <2>5, <2>6
  <1>22. ASSUME NEW p \in Proc, Interrupt(p)
         PROVE  Rows /\ Files
    <2>1. \A q \in Proc : cache'[q] \in {cache[q], NoRow}
      BY <1>22 DEF Interrupt, TypeOK, CacheTypeOK
    <2>2. Rows
      BY <1>22, <2>1, RowUntouched DEF Interrupt, dbVars, locals
    <2>3. \A q \in Proc : pc'[q] = IF q = p THEN "abort" ELSE pc[q]
      BY <1>22, <1>a DEF Interrupt, Goto
    <2>4. \A q \in Proc : pc'[q] \in {"fetch", "cleanup"} => fileLock = q /\ q # p
      BY <2>3 DEF FuelInv, BrowserHoldsFile
    <2> QED
      BY <1>22, <2>2, <2>3, <2>4, FilePart DEF Interrupt, hist, locals
  <1>23. ASSUME NEW p \in Proc, Abort(p)
         PROVE  Rows /\ Files
    <2>1. Created \in State /\ Created.success = row.success /\ now # 0
      BY CreatedRow DEF TypeOK, FuelInv, DbTypeOK, Stamp
    <2>2. row'.success = row.success /\ NullRow'
      BY <1>23, <2>1 DEF Abort, State, Exists, FuelInv, NullRow
    <2>3. row'.success >= row.success
      BY <1>a, <2>2
    <2>4. stations' = row'.success /\ latest' = row'.success
      BY <1>23, <2>2 DEF Abort, FuelInv, ReadModelAgrees
    <2>5. Rows
      BY <1>23, <2>2, <2>3, <2>4, ReturnRows, RowPart DEF Abort
    <2> QED
      BY <1>23, <2>5, ReturnRows, FilePart DEF Abort, fileVars, hist
  <1>24. ASSUME NEW p \in Proc, Crash(p)
         PROVE  Rows /\ Files
    <2>1. Rows
      BY <1>24, ReturnRows, RowUntouched DEF Crash
    <2>2. \A q \in Proc : pc'[q] \in {"fetch", "cleanup"} => fileLock = q /\ q # p
      BY <1>24, ReturnRows DEF Crash, FuelInv, BrowserHoldsFile
    <2> QED
      BY <1>24, <2>1, <2>2, ReturnRows, FilePart DEF Crash, hist
  <1> QED
    BY <1>0, <1>1, <1>2, <1>3, <1>4, <1>5, <1>6, <1>7, <1>8, <1>9, <1>10, <1>11, <1>12,
       <1>13, <1>14, <1>15, <1>17, <1>18, <1>19, <1>20, <1>21, <1>22, <1>23, <1>24 DEF Next

--------------------------------------------------------------------------------
(* Theorems.                                                               *)

\* The types and the invariant hold in every reachable state of the collection.
THEOREM FuelInductive == Spec => [](TypeOK /\ FuelInv)
  <1>1. Init => TypeOK /\ FuelInv
    BY TypeInit, FuelInit
  <1>2. TypeOK /\ FuelInv /\ [Next]_vars => TypeOK' /\ FuelInv'
    BY TypeStep, FuelStep
  <1> QED
    BY <1>1, <1>2, PTL DEF Spec

\* The state of the collection is well typed; in particular a store is attempted at most
\* FUEL_STORE_ATTEMPTS times.
THEOREM FuelTypeCorrect == Spec => []TypeOK
  BY FuelInductive, PTL

\* last_success_at, the latest prices and the stations always speak of the same snapshot.
THEOREM ReadModelCorrect == Spec => []ReadModelAgrees
  <1>1. FuelInv => ReadModelAgrees
    BY DEF FuelInv
  <1> QED
    BY <1>1, FuelInductive, PTL

\* No completed browser collection is lost as long as its checkpoint is valid: until then it is
\* stored, overtaken or still in the file (acknowledge_fuel_snapshot).
THEOREM SnapshotsKept == Spec => []NoSnapshotLost
  <1>1. FuelInv => NoSnapshotLost
    BY DEF FuelInv
  <1> QED
    BY <1>1, FuelInductive, PTL

\* No step of any run sets the source, its prices or its stations back.
THEOREM NeverBack == Spec => NoRegression
  <1>1. ASSUME TypeOK, TypeOK', FuelInv, FuelInv', [Next]_vars
        PROVE  [row'.success >= row.success /\ stations' >= stations]_vars
    BY <1>1, FuelStep DEF FuelInv, ReadModelAgrees
  <1> QED
    BY <1>1, FuelInductive, PTL DEF Spec, NoRegression

--------------------------------------------------------------------------------
(* One opening of the browser per reservation.                             *)

\* A claim that was not used yet: it may be, or be taken back.
Pending(p) == pc[p] \in {"collect", "restore"}

\* A run that may still flush the object its claim has loaded.
Writing(p) == pc[p] \in {"collect", "fetch", "cleanup", "store", "storeError"}

\* A row that was claimed carries a reservation at least as late as its claim's.
RowSound(s) == /\ s.started # 0 => s.due >= Reserved(s.started)
               /\ ~Exists(s) => s.started = 0

Apart(a, b) == a >= Reserved(b) \/ b >= Reserved(a)

\* The row is claimed no earlier than any claim that was used or may still be.
RowIsLatest ==
    /\ \A p \in Proc : Pending(p) => after[p].started # 0 /\ after[p].started <= row.started
    /\ \A u \in used : u # 0 /\ u <= row.started

\* What a claim would put back covers every claim made before it.
BeforeCovers ==
    \A p \in Proc : Pending(p) =>
        /\ RowSound(before[p])
        /\ \A q \in Proc \ {p} : Pending(q) =>
               after[q].started <= before[p].started \/ after[q].started > after[p].started
        /\ \A u \in used : u <= before[p].started \/ u > after[p].started

\* Pending claims are a reservation apart from each other and from the used ones.
ClaimsApart ==
    \A p \in Proc : Pending(p) =>
        /\ \A q \in Proc \ {p} : Pending(q) => Apart(after[p].started, after[q].started)
        /\ \A u \in used : Apart(after[p].started, u)

\* A store or a failure with the object loaded by the claim does not write the reservation,
\* however stale that object is.
CacheReserved ==
    \A p \in Proc : Writing(p) /\ Exists(cache[p]) =>
        /\ cache[p].due # 0
        /\ p \notin storageOnly => cache[p].due = Reserved(cache[p].started)

BudgetInv == RowSound(row) /\ RowIsLatest /\ BeforeCovers /\ ClaimsApart /\ CacheReserved

\* Reservations are positive and grow with their claims.
LEMMA ReservedGrows ==
    /\ \A a \in Nat : Reserved(a) \in Nat /\ Reserved(a) > a
    /\ \A a, b \in Nat : a <= b => Reserved(a) <= Reserved(b)
  BY DEF Reserved

\* The claims' times are numbers.
LEMMA ClaimTimes ==
    ASSUME TypeOK
    PROVE  /\ now \in Nat /\ now # 0 /\ row.started \in Nat /\ row.due \in Nat
           /\ \A p \in Proc : /\ before[p].started \in Nat /\ after[p].started \in Nat
                              /\ cache[p].started \in Nat /\ cache[p].due \in Nat
           /\ \A u \in used : u \in Nat
  BY DEF TypeOK, DbTypeOK, LocalTypeOK, CacheTypeOK, HistTypeOK, State, Time, Stamp

\* _get_or_create_state keeps the claim and the reservation.
LEMMA CreatedSound ==
    ASSUME TypeOK, RowSound(row)
    PROVE  RowSound(Created) /\ Created.started = row.started /\ Created \in State
  <1>1. Created \in State /\ Exists(Created)
    BY CreatedType DEF TypeOK
  <1>2. CASE Exists(row)
    BY <1>1, <1>2 DEF Created
  <1>3. CASE ~Exists(row)
    BY <1>1, <1>3 DEF Created, NoRow, RowSound
  <1> QED
    BY <1>2, <1>3

\* A success keeps the claim, and a reservation that covers it.
LEMMA SuccessSound ==
    ASSUME TypeOK, FuelInv, BudgetInv, NEW p \in Proc, StoreWrites(p)
    PROVE  RowSound(row') /\ row'.started = row.started
  <1> DEFINE new == MarkedSuccess(p, result[p])
  <1>1. /\ RowSound(Created) /\ Created.started = row.started /\ Created \in State
        /\ Loaded(p) \in State /\ Exists(row')
    BY CreatedSound, LoadedType, StoreRow DEF TypeOK, BudgetInv
  <1>2. /\ new.started = Loaded(p).started
        /\ new.due = IF p \in storageOnly THEN Loaded(p).due ELSE Reserved(Loaded(p).started)
    BY <1>1 DEF MarkedSuccess, State
  <1>3. /\ row'.started = Created.started
        /\ row'.due = Column(new.due, Loaded(p).due, Created.due)
    BY <1>2 DEF StoreWrites, Flushed, Column
  <1>4. CASE Exists(cache[p])
    <2>1. Loaded(p) = cache[p] /\ Writing(p)
      BY <1>4 DEF Loaded, StoreWrites, Writing
    <2>2. new.due = Loaded(p).due
      BY <1>2, <1>4, <2>1 DEF BudgetInv, CacheReserved
    <2> QED
      BY <1>1, <1>3, <2>2 DEF Column, RowSound
  <1>5. CASE ~Exists(cache[p])
    <2>1. Loaded(p) = Created
      BY <1>5 DEF Loaded
    <2>2. row'.due \in {Created.due, Reserved(Created.started)}
      BY <1>2, <1>3, <2>1 DEF Column
    <2>3. Reserved(Created.started) >= Reserved(Created.started)
      BY <1>1, ClaimTimes, ReservedGrows
    <2> QED
      BY <1>1, <1>3, <2>2, <2>3 DEF RowSound
  <1> QED
    BY <1>4, <1>5

\* So does a recorded failure.
LEMMA FailureSound ==
    ASSUME TypeOK, FuelInv, BudgetInv, NEW p \in Proc, Writing(p),
           row' = Flushed(p, MarkedFailure(p))
    PROVE  RowSound(row') /\ row'.started = row.started
  <1> DEFINE new == MarkedFailure(p)
  <1>1. /\ RowSound(Created) /\ Created.started = row.started /\ Created \in State
        /\ Loaded(p) \in State /\ Exists(row')
    BY CreatedSound, LoadedType, FailureRow DEF TypeOK, BudgetInv
  <1>2. new.started = Loaded(p).started /\ new.due = FailureDue(p)
    BY <1>1 DEF MarkedFailure, State
  <1>3. /\ row'.started = Created.started
        /\ row'.due = Column(new.due, Loaded(p).due, Created.due)
    BY <1>2 DEF Flushed, Column
  <1>4. CASE Exists(cache[p])
    <2>1. Loaded(p) = cache[p]
      BY <1>4 DEF Loaded
    <2>2. new.due = Loaded(p).due
      BY <1>2, <1>4, <2>1 DEF BudgetInv, CacheReserved, FailureDue
    <2> QED
      BY <1>1, <1>3, <2>2 DEF Column, RowSound
  <1>5. CASE ~Exists(cache[p])
    <2>1. Loaded(p) = Created /\ Created.started \in Nat
      BY <1>1, <1>5, ClaimTimes DEF Loaded
    <2>2. Created.started # 0 => Created.due # 0
      BY <1>1, <2>1, ReservedGrows DEF RowSound
    <2>3. Created.started # 0 => row'.due \in {Created.due, Reserved(Created.started)}
      BY <1>2, <1>3, <2>1, <2>2 DEF Column, FailureDue
    <2>4. Reserved(Created.started) >= Reserved(Created.started)
      BY <2>1, ReservedGrows
    <2> QED
      BY <1>1, <1>3, <2>3, <2>4 DEF RowSound
  <1> QED
    BY <1>4, <1>5

\* Steps that neither make, use nor take back a claim.
LEMMA BudgetQuiet ==
    ASSUME BudgetInv, RowSound(row'), row'.started = row.started, used' = used,
           \A q \in Proc : Pending(q)' =>
               Pending(q) /\ before'[q] = before[q] /\ after'[q] = after[q],
           \A q \in Proc : Writing(q)' /\ Exists(cache'[q]) =>
               /\ Writing(q) /\ cache'[q] = cache[q]
               /\ q \in storageOnly' <=> q \in storageOnly
    PROVE  BudgetInv'
  <1>1. RowIsLatest'
    BY DEF BudgetInv, RowIsLatest
  <1>2. BeforeCovers'
    BY DEF BudgetInv, BeforeCovers, RowSound, Exists, Reserved
  <1>3. ClaimsApart'
    BY DEF BudgetInv, ClaimsApart, Apart, Reserved
  <1>4. CacheReserved'
    BY DEF BudgetInv, CacheReserved, Reserved, Exists
  <1>5. RowSound(row)'
    BY DEF RowSound, Exists, Reserved
  <1> QED
    BY <1>1, <1>2, <1>3, <1>4, <1>5 DEF BudgetInv

\* A due source was claimed a reservation ago.
LEMMA DueApart ==
    ASSUME TypeOK, RowSound(row), FuelIsDue, NEW c \in Nat, c # 0, c <= row.started
    PROVE  now >= Reserved(c) /\ now > c
  <1>1. now \in Nat /\ row.started \in Nat /\ row.due \in Nat /\ row.started # 0
    BY ClaimTimes
  <1>2. Reserved(c) > c /\ Reserved(c) <= Reserved(row.started) /\ Reserved(c) \in Nat
        /\ Reserved(row.started) \in Nat
    BY <1>1, ReservedGrows
  <1>3. row.due >= Reserved(row.started)
    BY <1>1 DEF RowSound
  <1>4. now >= row.due
    BY <1>1, <1>2, <1>3 DEF FuelIsDue, FuelDueAt
  <1> QED
    BY <1>1, <1>2, <1>3, <1>4

\* A claim is a reservation later than every claim before it.
LEMMA BudgetClaim ==
    ASSUME TypeOK, BudgetInv, NEW r \in Proc, Claim(r)
    PROVE  BudgetInv'
  <1>1. /\ row'.started = now /\ row'.due = Reserved(now) /\ row'.updated = now
        /\ used' = used /\ storageOnly' = storageOnly /\ r \notin storageOnly
    BY CreatedSound DEF Claim, BudgetInv, State, hist
  <1>2. /\ before'[r] = row /\ after'[r] = row' /\ cache'[r] = row' /\ pc'[r] = "collect"
        /\ \A q \in Proc \ {r} : /\ before'[q] = before[q] /\ after'[q] = after[q]
                                 /\ cache'[q] = cache[q] /\ pc'[q] = pc[q]
    BY DEF Claim, Goto, TypeOK, LocalTypeOK, CacheTypeOK
  <1>3. /\ now \in Nat /\ now # 0 /\ row.started \in Nat
        /\ Reserved(now) \in Nat /\ Reserved(now) > now
        /\ \A q \in Proc : after[q].started \in Nat /\ before[q].started \in Nat
        /\ \A u \in used : u \in Nat
    BY ClaimTimes, ReservedGrows
  <1>4. \A q \in Proc : Pending(q) =>
            now >= Reserved(after[q].started) /\ now > after[q].started
    BY <1>3, DueApart DEF Claim, BudgetInv, RowIsLatest
  <1>5. \A u \in used : now >= Reserved(u) /\ now > u
    BY <1>3, DueApart DEF Claim, BudgetInv, RowIsLatest
  <1>6. \A q \in Proc \ {r} : Pending(q)' <=> Pending(q)
    BY <1>2 DEF Pending
  <1>7. RowSound(row)'
    BY <1>1, <1>3 DEF RowSound, Exists, Reserved
  <1>8. RowIsLatest'
    BY <1>1, <1>2, <1>3, <1>4, <1>5, <1>6 DEF BudgetInv, RowIsLatest
  <1>9. BeforeCovers'
    <2> SUFFICES ASSUME NEW p \in Proc, Pending(p)'
                 PROVE  /\ RowSound(before'[p])
                        /\ \A q \in Proc \ {p} : Pending(q)' =>
                               \/ after'[q].started <= before'[p].started
                               \/ after'[q].started > after'[p].started
                        /\ \A u \in used : u <= before'[p].started \/ u > after'[p].started
      BY <1>1 DEF BeforeCovers, RowSound, Exists, Reserved
    <2>1. CASE p = r
      BY <1>2, <1>6, <2>1 DEF BudgetInv, RowIsLatest
    <2>2. CASE p # r
      BY <1>1, <1>2, <1>4, <1>6, <2>2 DEF BudgetInv, BeforeCovers
    <2> QED
      BY <2>1, <2>2
  <1>10. ClaimsApart'
    <2> SUFFICES ASSUME NEW p \in Proc, Pending(p)'
                 PROVE  /\ \A q \in Proc \ {p} : Pending(q)' =>
                               Apart(after'[p].started, after'[q].started)
                        /\ \A u \in used : Apart(after'[p].started, u)
      BY <1>1 DEF ClaimsApart, Apart, Reserved
    <2>1. CASE p = r
      BY <1>1, <1>2, <1>4, <1>5, <1>6, <2>1 DEF Apart
    <2>2. CASE p # r
      BY <1>1, <1>2, <1>4, <1>6, <2>2 DEF BudgetInv, ClaimsApart, Apart
    <2> QED
      BY <2>1, <2>2
  <1>11. CacheReserved'
    BY <1>1, <1>2, <1>3 DEF BudgetInv, CacheReserved, Writing, Reserved, Exists
  <1> QED
    BY <1>7, <1>8, <1>9, <1>10, <1>11 DEF BudgetInv

\* A storage-only claim keeps an existing reservation, and makes one where nothing was claimed.
LEMMA BudgetStorage ==
    ASSUME TypeOK, BudgetInv, NEW r \in Proc, ClaimStorage(r)
    PROVE  BudgetInv'
  <1>1. /\ RowSound(Created) /\ Created.started = row.started /\ Created \in State
        /\ Exists(Created)
    BY CreatedSound, CreatedType DEF TypeOK, BudgetInv
  <1>2. /\ used' = used /\ storageOnly' = storageOnly /\ before' = before /\ after' = after
        /\ r \in storageOnly /\ cache'[r] = row' /\ pc'[r] = "store"
        /\ \A q \in Proc \ {r} : cache'[q] = cache[q] /\ pc'[q] = pc[q]
    BY DEF ClaimStorage, Goto, TypeOK, LocalTypeOK, CacheTypeOK, hist
  <1>3. /\ row.started \in Nat /\ startedAt[r] \in Nat
        /\ \A q \in Proc : after[q].started \in Nat /\ before[q].started \in Nat
        /\ \A u \in used : u \in Nat
    BY ClaimTimes DEF TypeOK, LocalTypeOK, Time
  <1>4. Reserved(startedAt[r]) \in Nat /\ Reserved(startedAt[r]) > 0
    BY <1>3, ReservedGrows
  <1>5. \A q \in Proc : Pending(q)' => q # r /\ Pending(q)
    BY <1>2 DEF Pending
  <1>6. RowSound(row') /\ row'.due # 0
    <2>1. CASE Created.started # 0
      <3>1. row' = Created
        BY <2>1 DEF ClaimStorage
      <3>2. Created.due # 0
        BY <1>1, <1>3, <2>1, ReservedGrows DEF RowSound
      <3> QED
        BY <1>1, <3>1, <3>2
    <2>2. CASE Created.started = 0
      <3>1. row' = [Created EXCEPT !.started = startedAt[r], !.due = Reserved(startedAt[r])]
        BY <2>2 DEF ClaimStorage
      <3>2. /\ row'.started = startedAt[r] /\ row'.due = Reserved(startedAt[r])
            /\ row'.updated = Created.updated
        BY <1>1, <3>1 DEF State
      <3> QED
        BY <1>1, <1>3, <1>4, <3>2 DEF RowSound, Exists
    <2> QED
      BY <2>1, <2>2
  <1>7. RowIsLatest'
    <2>1. CASE row.started # 0
      <3>1. row'.started = row.started
        BY <1>1, <2>1 DEF ClaimStorage
      <3> QED
        BY <1>2, <1>5, <3>1 DEF BudgetInv, RowIsLatest
    <2>2. CASE row.started = 0
      BY <1>2, <1>3, <1>5, <2>2 DEF BudgetInv, RowIsLatest
    <2> QED
      BY <2>1, <2>2
  <1>8. BeforeCovers'
    BY <1>2, <1>5 DEF BudgetInv, BeforeCovers, RowSound, Exists, Reserved
  <1>9. ClaimsApart'
    BY <1>2, <1>5 DEF BudgetInv, ClaimsApart, Apart, Reserved
  <1>10. CacheReserved'
    BY <1>2, <1>6 DEF BudgetInv, CacheReserved, Writing, Reserved, Exists
  <1>11. RowSound(row)'
    BY <1>6 DEF RowSound, Exists, Reserved
  <1> QED
    BY <1>7, <1>8, <1>9, <1>10, <1>11 DEF BudgetInv

\* A claim that is taken back leaves a row that covers all the others.
LEMMA BudgetRestore ==
    ASSUME TypeOK, BudgetInv, NEW r \in Proc, Restore(r)
    PROVE  BudgetInv'
  <1>1. /\ used' = used /\ storageOnly' = storageOnly \ {r} /\ pc[r] = "restore"
        /\ pc'[r] = "idle"
        /\ \A q \in Proc \ {r} : /\ pc'[q] = pc[q] /\ cache'[q] \in {cache[q], NoRow}
                                 /\ before'[q] = before[q] /\ after'[q] = after[q]
        /\ row' = IF row = after[r] THEN before[r] ELSE row
    BY DEF Restore, ForgetLocals, Goto, TypeOK, LocalTypeOK, CacheTypeOK, hist
  <1>2. \A q \in Proc : Pending(q)' => q # r /\ Pending(q)
    BY <1>1 DEF Pending
  <1>3. Pending(r)
    BY <1>1 DEF Pending
  <1>4. /\ row.started \in Nat
        /\ \A q \in Proc : after[q].started \in Nat /\ before[q].started \in Nat
        /\ \A u \in used : u \in Nat
    BY ClaimTimes
  <1>5. RowSound(row')
    BY <1>1, <1>3 DEF BudgetInv, BeforeCovers
  <1>6. RowIsLatest'
    <2>1. CASE row = after[r]
      <3>1. row'.started = before[r].started /\ row.started = after[r].started
        BY <1>1, <2>1
      <3>2. \A q \in Proc \ {r} : Pending(q) =>
                after[q].started # 0 /\ after[q].started <= before[r].started
        BY <1>3, <1>4, <3>1 DEF BudgetInv, RowIsLatest, BeforeCovers
      <3>3. \A u \in used : u # 0 /\ u <= before[r].started
        BY <1>3, <1>4, <3>1 DEF BudgetInv, RowIsLatest, BeforeCovers
      <3> QED
        BY <1>1, <1>2, <3>1, <3>2, <3>3 DEF RowIsLatest
    <2>2. CASE row # after[r]
      BY <1>1, <1>2, <2>2 DEF BudgetInv, RowIsLatest
    <2> QED
      BY <2>1, <2>2
  <1>7. BeforeCovers'
    BY <1>1, <1>2 DEF BudgetInv, BeforeCovers, RowSound, Exists, Reserved
  <1>8. ClaimsApart'
    BY <1>1, <1>2 DEF BudgetInv, ClaimsApart, Apart, Reserved
  <1>9. CacheReserved'
    <2>1. ~Exists(NoRow)
      BY DEF Exists, NoRow
    <2>2. \A q \in Proc : Writing(q)' => q # r /\ Writing(q)
      BY <1>1 DEF Writing
    <2> QED
      BY <1>1, <2>1, <2>2 DEF BudgetInv, CacheReserved, Exists, Reserved
  <1>10. RowSound(row)'
    BY <1>5 DEF RowSound, Exists, Reserved
  <1> QED
    BY <1>6, <1>7, <1>8, <1>9, <1>10 DEF BudgetInv

\* A claim that is used stays a reservation apart from the others.
LEMMA BudgetOpen ==
    ASSUME TypeOK, BudgetInv, NEW r \in Proc, CollectOnce(r)
    PROVE  BudgetInv'
  <1>1. /\ row' = row /\ before' = before /\ after' = after /\ cache' = cache
        /\ storageOnly' = storageOnly /\ pc[r] = "collect" /\ pc'[r] \in {"store", "fetch"}
        /\ used' \in {used, used \cup {after[r].started}}
        /\ \A q \in Proc \ {r} : pc'[q] = pc[q]
    BY DEF CollectOnce, Goto, TypeOK, LocalTypeOK, dbVars
  <1>2. \A q \in Proc : Pending(q)' => q # r /\ Pending(q)
    BY <1>1 DEF Pending
  <1>3. Pending(r)
    BY <1>1 DEF Pending
  <1>4. RowIsLatest'
    BY <1>1, <1>2, <1>3 DEF BudgetInv, RowIsLatest
  <1>5. BeforeCovers'
    BY <1>1, <1>2, <1>3 DEF BudgetInv, BeforeCovers, RowSound, Exists, Reserved
  <1>6. ClaimsApart'
    BY <1>1, <1>2, <1>3 DEF BudgetInv, ClaimsApart, Apart, Reserved
  <1>7. CacheReserved'
    BY <1>1 DEF BudgetInv, CacheReserved, Writing, Exists, Reserved
  <1>8. RowSound(row)'
    BY <1>1 DEF BudgetInv, RowSound, Exists, Reserved
  <1> QED
    BY <1>4, <1>5, <1>6, <1>7, <1>8 DEF BudgetInv

\* The end of a run makes no claim and leaves no object to flush.
LEMMA BudgetReturn ==
    ASSUME TypeOK, BudgetInv, NEW p \in Proc, Return(p), used' = used,
           RowSound(row'), row'.started = row.started
    PROVE  BudgetInv'
  <1>1. /\ pc'[p] = "idle"
        /\ \A q \in Proc \ {p} : /\ pc'[q] = pc[q] /\ cache'[q] = cache[q]
                                 /\ before'[q] = before[q] /\ after'[q] = after[q]
                                 /\ q \in storageOnly' <=> q \in storageOnly
    BY DEF Return, ForgetLocals, Goto, TypeOK, LocalTypeOK, CacheTypeOK
  <1> QED
    BY <1>1, BudgetQuiet DEF Pending, Writing

\* Every step keeps the claims a reservation apart.
LEMMA BudgetStep ==
    ASSUME TypeOK, FuelInv, BudgetInv, [Next]_vars
    PROVE  BudgetInv'
  <1> DEFINE Kept == RowSound(row') /\ row'.started = row.started
             Same == UNCHANGED <<row, used, before, after, storageOnly>>
  <1>a. ~Exists(NoRow) /\ pc \in [Proc -> Steps] /\ cache \in [Proc -> State]
    BY DEF Exists, NoRow, TypeOK, LocalTypeOK, CacheTypeOK
  <1>b. RowSound(row)
    BY DEF BudgetInv
  <1>0. CASE Tick \/ OutsideStarts \/ OutsideEnds \/ UNCHANGED vars
    <2>1. Same /\ UNCHANGED <<pc, cache>>
      BY <1>0 DEF Tick, OutsideStarts, OutsideEnds, dbVars, locals, hist, vars
    <2> QED
      BY <1>b, <2>1, BudgetQuiet DEF Pending, Writing
  <1>1. ASSUME NEW p \in Proc, Peek(p) PROVE BudgetInv'
    <2>1. /\ UNCHANGED <<row, used, before, after, cache>> /\ pc'[p] = "claim"
          /\ \A q \in Proc \ {p} : pc'[q] = pc[q] /\ (q \in storageOnly' <=> q \in storageOnly)
      BY <1>1, <1>a DEF Peek, Goto, hist
    <2> QED
      BY <1>b, <2>1, BudgetQuiet DEF Pending, Writing
  <1>2. ASSUME NEW p \in Proc, Skip(p) \/ Acknowledge(p) \/ Crash(p) PROVE BudgetInv'
    <2>1. Return(p) /\ UNCHANGED <<row, used>>
      BY <1>2 DEF Skip, Acknowledge, Crash, dbVars, hist
    <2> QED
      BY <1>b, <2>1, BudgetReturn
  <1>3. ASSUME NEW p \in Proc, CollectBusy(p) \/ Complete(p) \/ Deliver(p) \/ FetchFails(p)
        PROVE  BudgetInv'
    <2>1. /\ Same /\ cache' = cache
          /\ Pending(p)' => Pending(p)
          /\ Writing(p)' => Writing(p)
          /\ \A q \in Proc \ {p} : pc'[q] = pc[q]
      BY <1>3, <1>a DEF CollectBusy, Complete, Deliver, FetchFails, Goto, Pending, Writing,
                        dbVars, locals, hist
    <2> QED
      BY <1>b, <2>1, BudgetQuiet DEF Pending, Writing
  <1>4. ASSUME NEW p \in Proc, StoreSuperseded(p) PROVE BudgetInv'
    <2>1. CASE result[p] # 0
      <3>1. /\ Same /\ pc'[p] = "ack"
            /\ \A q \in Proc \ {p} : pc'[q] = pc[q] /\ cache'[q] = cache[q]
        BY <1>4, <1>a, <2>1 DEF StoreSuperseded, Goto, dbVars, locals, hist
      <3> QED
        BY <1>b, <3>1, BudgetQuiet DEF Pending, Writing
    <2>2. CASE result[p] = 0
      BY <1>4, <1>b, <2>2, BudgetReturn DEF StoreSuperseded, dbVars, hist
    <2> QED
      BY <2>1, <2>2
  <1>5. ASSUME NEW p \in Proc, StoreSnapshot(p) PROVE BudgetInv'
    <2>1. Kept
      BY <1>5, SuccessSound DEF StoreSnapshot
    <2>2. /\ UNCHANGED <<used, before, after, storageOnly>> /\ pc'[p] = "ack"
          /\ \A q \in Proc \ {p} : pc'[q] = pc[q] /\ cache'[q] = cache[q]
      BY <1>5, <1>a DEF StoreSnapshot, Goto, locals
    <2> QED
      BY <2>1, <2>2, BudgetQuiet DEF Pending, Writing
  <1>6. ASSUME NEW p \in Proc, AfterStoreError(p), UNCHANGED <<used, before, after, storageOnly>>,
               Kept
        PROVE  BudgetInv'
    <2>1. /\ Pending(p)' => Pending(p)
          /\ cache'[p] = NoRow
          /\ \A q \in Proc \ {p} : pc'[q] = pc[q] /\ cache'[q] = cache[q]
      BY <1>6, <1>a DEF AfterStoreError, Goto, Pending
    <2> QED
      BY <1>6, <1>a, <2>1, BudgetQuiet DEF Pending, Writing
  <1>7. ASSUME NEW p \in Proc, StoreFails(p) PROVE BudgetInv'
    BY <1>6, <1>7, <1>b DEF StoreFails, dbVars, hist
  <1>8. ASSUME NEW p \in Proc, StoreAnswerLost(p) PROVE BudgetInv'
    BY <1>6, <1>8, SuccessSound DEF StoreAnswerLost
  <1>9. ASSUME NEW p \in Proc, StoreUnclaimed(p) \/ Interrupt(p) PROVE BudgetInv'
    <2>1. /\ Same /\ cache'[p] = NoRow /\ pc'[p] \in {"storeError", "abort"}
          /\ \A q \in Proc \ {p} : pc'[q] = pc[q] /\ cache'[q] = cache[q]
      BY <1>9, <1>a DEF StoreUnclaimed, Interrupt, Goto, dbVars, locals, hist
    <2> QED
      BY <1>a, <1>b, <2>1, BudgetQuiet DEF Pending, Writing
  <1>10. ASSUME NEW p \in Proc, RecordFailure(p) PROVE BudgetInv'
    <2>1. Kept
      BY <1>10, FailureSound DEF RecordFailure, Writing
    <2> QED
      BY <1>10, <2>1, BudgetReturn DEF RecordFailure, hist
  <1>11. ASSUME NEW p \in Proc, Abort(p) PROVE BudgetInv'
    <2>1. Kept
      <3>1. RowSound(Created) /\ Created.started = row.started /\ Created \in State /\ now # 0
        BY <1>b, CreatedSound, ClaimTimes
      <3>2. RowSound([Created EXCEPT !.error = "failed", !.updated = now])
        BY <3>1 DEF RowSound, Exists, State
      <3> QED
        BY <1>11, <1>b, <3>1, <3>2 DEF Abort, State
    <2> QED
      BY <1>11, <2>1, BudgetReturn DEF Abort, hist
  <1> QED
    BY <1>0, <1>1, <1>2, <1>3, <1>4, <1>5, <1>7, <1>8, <1>9, <1>10, <1>11,
       BudgetClaim, BudgetStorage, BudgetRestore, BudgetOpen DEF Next

\* Two openings of the browser belong to claims that are a reservation apart, whatever stale
\* objects are flushed and claims taken back in between (the reservation of collect,
\* restore_unused_fuel_claim).
THEOREM BrowserBudget == Spec => BudgetKept
  <1>1. Init => BudgetInv
    BY DEF Init, BudgetInv, RowSound, RowIsLatest, BeforeCovers, ClaimsApart, CacheReserved,
           Pending, Writing, NoRow
  <1>2. Spec => []BudgetInv
    BY <1>1, BudgetStep, FuelInductive, PTL DEF Spec
  <1>3. ASSUME BudgetInv, NEW p \in Proc, pc[p] = "collect"
        PROVE  \A u \in used : after[p].started >= Reserved(u) \/ u >= Reserved(after[p].started)
    BY <1>3 DEF BudgetInv, ClaimsApart, Apart, Pending
  <1> DEFINE Opens(p) == pc[p] = "collect" /\ pc'[p] = "fetch" =>
                 \A u \in used : after[p].started >= Reserved(u) \/ u >= Reserved(after[p].started)
  <1>4. BudgetInv /\ [Next]_vars => [\A p \in Proc : Opens(p)]_vars
    BY <1>3
  <1>5. Spec => [][\A p \in Proc : Opens(p)]_vars
    BY <1>2, <1>4, PTL DEF Spec
  <1> QED
    BY <1>5 DEF BudgetKept

--------------------------------------------------------------------------------
(* Which failures are published.                                           *)

Active(p) == pc[p] # "idle"

\* Somebody completed a collection at x,
Known(x) == x = 0 \/ \E c \in completed : c.at = x

\* whose checkpoint was not valid any more at t.
Expired(x, t) == \E c \in completed : c.at = x /\ c.until <= t

\* What the file hands out and is not stored yet was completed at t or later.
Fresh(t) == Resumable > row.success => Resumable >= t

\* A snapshot that is not stored yet was completed at t or later, or was expired at t.
Newer(x, t) == x > row.success => x >= t \/ Expired(x, t)

\* So is whatever run q has at hand.
HoldsNew(q, t) ==
    /\ Newer(result[q], t)
    /\ pc[q] = "claim" => Newer(pending[q], t)
    /\ pc[q] = "cleanup" => Newer(ckpt, t)

\* The row shows run p that a snapshot was committed after it started, or the snapshot was
\* too old for p.
Shows(s, p) ==
    \/ s.success >= startedAt[p]
    \/ p \in storageOnly /\ s.updated > startedAt[p]
    \/ Expired(s.success, startedAt[p])

\* Stamps lie in the past.
TimesPast ==
    /\ row.updated <= now /\ commitAt <= now
    /\ \A p \in Proc : /\ cache[p].updated <= now
                       /\ before[p].updated <= now /\ after[p].updated <= now
                       /\ startedAt[p] <= now
                       /\ Active(p) => startedAt[p] # 0

\* What runs hold was completed by somebody, and a run holds nothing before its claim.
ResultsReal ==
    /\ Known(ckpt)
    /\ \A p \in Proc : /\ Known(result[p]) /\ Known(pending[p])
                       /\ pc[p] \in {"idle", "claim"} => result[p] = 0
                       /\ pc[p] = "idle" => pending[p] = 0

\* Between its look at the checkpoint and its claim a run holds the lock: nobody else starts.
ClaimAlone ==
    \A r \in Proc : pc[r] = "claim" =>
        dbLock = r /\ \A p \in Proc : Active(p) => startedAt[p] <= startedAt[r]

\* A run that found no checkpoint started before whatever is not stored yet was completed, or
\* after it had expired.
UnstoredIsNew ==
    \A p \in Proc : Active(p) /\ p \notin storageOnly =>
        Fresh(startedAt[p]) /\ \A q \in Proc : HoldsNew(q, startedAt[p])

\* So did a run that started before a claim that may be put back, for the runs that loaded the
\* row while that claim stood,
ClaimIsNew ==
    \A r, p \in Proc : Pending(r) /\ Active(p) /\ startedAt[p] < after[r].updated =>
        /\ Fresh(startedAt[p])
        /\ \A q \in Proc : \/ pc[q] = "claim"
                           \/ /\ cache[q].updated > before[r].updated
                              /\ cache[q].updated > startedAt[p]
                          => HoldsNew(q, startedAt[p])

\* and one that started before an object was loaded that is ahead of a row put back.
CacheIsNew ==
    \A q, p \in Proc :
        Active(p) /\ cache[q].updated > row.updated /\ startedAt[p] < cache[q].updated
            => Fresh(startedAt[p]) /\ HoldsNew(q, startedAt[p])

\* The row shows every run a commit since its start, and a claim taken back does not hide it.
CommitShows ==
    \A p \in Proc : Active(p) /\ commitAt > startedAt[p] =>
        /\ Shows(row, p)
        /\ \A r \in Proc : Pending(r) /\ after[r].success = row.success => Shows(before[r], p)

ClaimsOld == \A r \in Proc : Pending(r) => after[r].success <= row.success

FailureInv ==
    /\ TimesPast /\ ResultsReal /\ ClaimAlone /\ UnstoredIsNew /\ ClaimIsNew /\ CacheIsNew
    /\ CommitShows /\ ClaimsOld

\* The stamps are numbers.
LEMMA StampTypes ==
    ASSUME TypeOK
    PROVE  /\ now \in Nat /\ now # 0 /\ commitAt \in Nat /\ ckpt \in Nat
           /\ row.updated \in Nat /\ row.success \in Nat
           /\ \A p \in Proc : /\ cache[p].updated \in Nat
                              /\ after[p].updated \in Nat /\ after[p].success \in Nat
                              /\ before[p].updated \in Nat /\ before[p].success \in Nat
                              /\ startedAt[p] \in Nat /\ result[p] \in Nat /\ pending[p] \in Nat
  BY DEF TypeOK, DbTypeOK, FileTypeOK, LocalTypeOK, CacheTypeOK, HistTypeOK, State, Time, Stamp

\* And so are the next ones.
LEMMA NextStamps ==
    ASSUME TypeOK'
    PROVE  now' \in Nat /\ row'.updated \in Nat /\ row'.success \in Nat
  BY DEF TypeOK, DbTypeOK, State, Time, Stamp

\* What a step that starts no run and makes no claim does to the runs.
RunsGoOn ==
    /\ \A q \in Proc : Active(q)' => /\ Active(q) /\ startedAt'[q] = startedAt[q]
                                     /\ q \in storageOnly' <=> q \in storageOnly
    /\ \A q \in Proc : Pending(q)' => /\ Pending(q)
                                      /\ before'[q] = before[q] /\ after'[q] = after[q]
    /\ \A q \in Proc : /\ startedAt'[q] \in {startedAt[q], 0}
                       /\ before'[q] \in {before[q], NoRow} /\ after'[q] \in {after[q], NoRow}
    /\ \A q \in Proc : /\ pending'[q] \in {pending[q], 0}
                       /\ result'[q] \in {result[q], 0, ckpt, pending[q]}
    /\ \A q \in Proc : cache'[q] \in {cache[q], NoRow, row'}
    /\ \A q \in Proc : pc'[q] = "claim" => pc[q] = "claim" /\ dbLock' = dbLock

\* A run loads the row with its claim, and gets hold of what the file hands out or of what it
\* completed itself.
HoldsGoOn ==
    /\ \A q \in Proc : cache'[q] \in {cache[q], NoRow} \/ pc[q] = "claim" \/ pc'[q] = "ack"
    /\ \A q \in Proc : \/ result'[q] \in {result[q], 0, Resumable}
                       \/ pc[q] = "claim" /\ result'[q] = pending[q]
                       \/ pc[q] = "cleanup" /\ result'[q] = ckpt
    /\ \A q \in Proc : /\ pc'[q] = "claim" => result'[q] = result[q] /\ pending'[q] = pending[q]
                       /\ pc'[q] = "idle" =>
                              \/ result'[q] = 0 /\ pending'[q] = 0
                              \/ pc[q] = "idle" /\ result'[q] = result[q] /\ pending'[q] = pending[q]
                       /\ pc'[q] = "cleanup" => \/ ckpt' \in {0, now}
                                                \/ pc[q] = "cleanup" /\ ckpt' = ckpt

\* What a step may do to the checkpoint.
CheckpointGoesOn ==
    /\ completed \subseteq completed'
    /\ \/ ckpt' \in {ckpt, 0}
       \/ ckpt' = now /\ \E c \in completed' : c.at = now
    /\ Resumable' \in {Resumable, 0, now}

\* Such a step keeps the parts that do not speak of a commit.
LEMMA RunsKept ==
    ASSUME TypeOK, TypeOK', FailureInv, RunsGoOn, HoldsGoOn, CheckpointGoesOn, now' >= now,
           row'.updated <= now', commitAt' <= now'
    PROVE  TimesPast' /\ ResultsReal' /\ ClaimAlone'
  <1>1. /\ now \in Nat /\ now' \in Nat
        /\ \A q \in Proc : /\ cache[q].updated \in Nat /\ before[q].updated \in Nat
                           /\ after[q].updated \in Nat /\ startedAt[q] \in Nat
    BY StampTypes, NextStamps
  <1>2. NoRow.updated = 0
    BY DEF NoRow
  <1>3. TimesPast'
    <2> SUFFICES ASSUME NEW q \in Proc
                 PROVE  /\ cache'[q].updated <= now'
                        /\ before'[q].updated <= now' /\ after'[q].updated <= now'
                        /\ startedAt'[q] <= now'
                        /\ Active(q)' => startedAt'[q] # 0
      BY DEF TimesPast
    <2>1. /\ cache[q].updated <= now /\ before[q].updated <= now
          /\ after[q].updated <= now /\ startedAt[q] <= now
      BY DEF FailureInv, TimesPast
    <2>2. cache'[q].updated <= now'
      BY <1>1, <1>2, <2>1 DEF RunsGoOn
    <2>3. before'[q].updated <= now' /\ after'[q].updated <= now' /\ startedAt'[q] <= now'
      BY <1>1, <1>2, <2>1 DEF RunsGoOn
    <2>4. Active(q)' => startedAt'[q] # 0
      BY DEF RunsGoOn, FailureInv, TimesPast
    <2> QED
      BY <2>2, <2>3, <2>4
  <1>4. ResultsReal'
    <2>1. \A x : Known(x) => x = 0 \/ \E c \in completed' : c.at = x
      BY DEF Known, CheckpointGoesOn
    <2>2. Known(ckpt)'
      BY <2>1 DEF Known, CheckpointGoesOn, FailureInv, ResultsReal
    <2>3. \A q \in Proc : Known(result[q])' /\ Known(pending[q])'
      BY <2>1 DEF Known, RunsGoOn, FailureInv, ResultsReal
    <2>4. \A q \in Proc : /\ pc'[q] \in {"idle", "claim"} => result'[q] = 0
                          /\ pc'[q] = "idle" => pending'[q] = 0
      BY DEF RunsGoOn, HoldsGoOn, FailureInv, ResultsReal
    <2> QED
      BY <2>2, <2>3, <2>4 DEF ResultsReal
  <1>5. ClaimAlone'
    <2> SUFFICES ASSUME NEW r \in Proc, pc'[r] = "claim"
                 PROVE  /\ dbLock' = r
                        /\ \A p \in Proc : Active(p)' => startedAt'[p] <= startedAt'[r]
      BY DEF ClaimAlone
    <2>1. pc[r] = "claim" /\ dbLock' = dbLock /\ Active(r)'
      BY DEF RunsGoOn, Active
    <2> QED
      BY <2>1 DEF RunsGoOn, FailureInv, ClaimAlone
  <1> QED
    BY <1>3, <1>4, <1>5

\* What was completed after t, or had expired by then, stays so.
LEMMA NewerKept ==
    ASSUME TypeOK, TypeOK', CheckpointGoesOn, row'.success >= row.success,
           NEW x \in Nat, NEW t, Newer(x, t)
    PROVE  x > row'.success => x >= t \/ \E c \in completed' : c.at = x /\ c.until <= t
  <1>1. row.success \in Nat /\ row'.success \in Nat
    BY DEF TypeOK, DbTypeOK, State, Time
  <1> QED
    BY <1>1 DEF Newer, Expired, CheckpointGoesOn

\* The file hands out nothing older than before,
LEMMA FreshKept ==
    ASSUME TypeOK, TypeOK', CheckpointGoesOn, row'.success >= row.success,
           NEW t \in Nat, t <= now, Fresh(t)
    PROVE  Resumable' > row'.success => Resumable' >= t
  <1>1. row.success \in Nat /\ row'.success \in Nat /\ now \in Nat /\ Resumable \in Nat
    BY ResumableType DEF TypeOK, DbTypeOK, FileTypeOK, State, Time, Stamp
  <1> QED
    BY <1>1 DEF Fresh, CheckpointGoesOn

\* so no run gets hold of anything older.
LEMMA HoldsNext ==
    ASSUME TypeOK, TypeOK', HoldsGoOn, RunsGoOn, CheckpointGoesOn,
           row'.success >= row.success,
           NEW t \in Nat, t <= now, Fresh(t), NEW q \in Proc, HoldsNew(q, t)
    PROVE  /\ result'[q] > row'.success => \/ result'[q] >= t
                                          \/ \E c \in completed' : c.at = result'[q] /\ c.until <= t
           /\ pc'[q] = "claim" => (pending'[q] > row'.success =>
                  pending'[q] >= t \/ \E c \in completed' : c.at = pending'[q] /\ c.until <= t)
           /\ pc'[q] = "cleanup" => (ckpt' > row'.success =>
                  ckpt' >= t \/ \E c \in completed' : c.at = ckpt' /\ c.until <= t)
  <1> DEFINE Now(x) == x > row'.success => x >= t \/ \E c \in completed' : c.at = x /\ c.until <= t
  <1>1. /\ row.success \in Nat /\ row'.success \in Nat /\ now \in Nat /\ Resumable \in Nat
        /\ ckpt \in Nat /\ result[q] \in Nat /\ pending[q] \in Nat
    BY ResumableType, StampTypes DEF TypeOK, DbTypeOK, FileTypeOK, State, Time, Stamp
  <1>2. Now(0) /\ Now(now)
    BY <1>1
  <1>3. Now(Resumable)
    BY <1>1 DEF Fresh
  <1>4. Now(result[q])
    BY <1>1, NewerKept DEF HoldsNew
  <1>5. pc[q] = "claim" => Now(pending[q])
    BY <1>1, NewerKept DEF HoldsNew
  <1>6. pc[q] = "cleanup" => Now(ckpt)
    BY <1>1, NewerKept DEF HoldsNew
  <1>7. Now(result'[q])
    BY <1>2, <1>3, <1>4, <1>5, <1>6 DEF HoldsGoOn
  <1>8. pc'[q] = "claim" => Now(pending'[q])
    BY <1>5 DEF HoldsGoOn, RunsGoOn
  <1>9. pc'[q] = "cleanup" => Now(ckpt')
    BY <1>2, <1>6 DEF HoldsGoOn
  <1> QED
    BY <1>7, <1>8, <1>9

\* A step that makes no claim keeps what the file and the runs hold new for the runs that
\* started before.
LEMMA NewKept ==
    ASSUME TypeOK, TypeOK', FailureInv, RunsGoOn, HoldsGoOn, CheckpointGoesOn,
           row'.success >= row.success, row'.updated >= row.updated,
           \A q \in Proc : cache'[q] \in {cache[q], NoRow} \/ pc[q] = "claim"
                            \/ (pc'[q] = "ack" /\ result'[q] = row'.success)
    PROVE  UnstoredIsNew' /\ ClaimIsNew' /\ CacheIsNew'
  <1>1. /\ now \in Nat /\ row.updated \in Nat /\ row'.updated \in Nat
        /\ \A q \in Proc : /\ cache[q].updated \in Nat /\ startedAt[q] \in Nat
                           /\ startedAt[q] <= now /\ before[q].updated \in Nat
    BY StampTypes, NextStamps DEF FailureInv, TimesPast
  <1>2. ASSUME NEW p \in Proc, Active(p), Fresh(startedAt[p])
        PROVE  /\ Fresh(startedAt[p])' \/ startedAt'[p] # startedAt[p]
               /\ \A q \in Proc : HoldsNew(q, startedAt[p]) =>
                      HoldsNew(q, startedAt[p])' \/ startedAt'[p] # startedAt[p]
    <2>1. Resumable' > row'.success => Resumable' >= startedAt[p]
      BY <1>1, <1>2, FreshKept
    <2>2. ASSUME NEW q \in Proc, HoldsNew(q, startedAt[p]), startedAt'[p] = startedAt[p]
          PROVE  HoldsNew(q, startedAt[p])'
      <3> DEFINE t == startedAt[p]
      <3>1. t \in Nat /\ t <= now /\ Fresh(t) /\ HoldsNew(q, t)
        BY <1>1, <1>2, <2>2
      <3> HIDE DEF t
      <3>2. /\ result'[q] > row'.success => \/ result'[q] >= t
                                           \/ \E c \in completed' : c.at = result'[q] /\ c.until <= t
            /\ pc'[q] = "claim" => (pending'[q] > row'.success =>
                   pending'[q] >= t \/ \E c \in completed' : c.at = pending'[q] /\ c.until <= t)
            /\ pc'[q] = "cleanup" => (ckpt' > row'.success =>
                   ckpt' >= t \/ \E c \in completed' : c.at = ckpt' /\ c.until <= t)
        BY <3>1, HoldsNext
      <3> QED
        BY <2>2, <3>2 DEF t, HoldsNew, Newer, Expired
    <2> QED
      BY <2>1, <2>2 DEF Fresh
  <1>3. UnstoredIsNew'
    BY <1>2 DEF RunsGoOn, FailureInv, UnstoredIsNew
  <1>4. ASSUME NEW q \in Proc, pc'[q] = "ack", result'[q] = row'.success, NEW p \in Proc
        PROVE  HoldsNew(q, startedAt[p])'
    <2>1. row'.success \in Nat /\ ~(result'[q] > row'.success)
      BY <1>4, NextStamps
    <2>2. pc'[q] # "claim" /\ pc'[q] # "cleanup"
      BY <1>4
    <2> QED
      BY <2>1, <2>2 DEF HoldsNew, Newer
  <1>5. ClaimIsNew'
    <2> SUFFICES ASSUME NEW r \in Proc, NEW p \in Proc, Pending(r)', Active(p)',
                        startedAt'[p] < after'[r].updated
                 PROVE  /\ Fresh(startedAt[p])'
                        /\ \A q \in Proc : \/ pc'[q] = "claim"
                                           \/ /\ cache'[q].updated > before'[r].updated
                                              /\ cache'[q].updated > startedAt'[p]
                                          => HoldsNew(q, startedAt[p])'
      BY DEF ClaimIsNew
    <2>1. /\ Active(p) /\ startedAt'[p] = startedAt[p] /\ Pending(r)
          /\ before'[r] = before[r] /\ after'[r] = after[r]
      BY DEF RunsGoOn
    <2>2. /\ Fresh(startedAt[p])
          /\ \A q \in Proc : \/ pc[q] = "claim"
                             \/ /\ cache[q].updated > before[r].updated
                                /\ cache[q].updated > startedAt[p]
                            => HoldsNew(q, startedAt[p])
      BY <2>1 DEF FailureInv, ClaimIsNew
    <2>3. ASSUME NEW q \in Proc, \/ pc'[q] = "claim"
                                 \/ /\ cache'[q].updated > before'[r].updated
                                    /\ cache'[q].updated > startedAt'[p]
          PROVE  HoldsNew(q, startedAt[p])'
      <3>1. CASE pc[q] = "claim"
        BY <1>2, <2>1, <2>2, <3>1
      <3>2. CASE pc'[q] = "ack" /\ result'[q] = row'.success
        BY <1>4, <3>2
      <3>3. CASE pc[q] # "claim" /\ cache'[q] \in {cache[q], NoRow}
        <4>1. pc'[q] # "claim" /\ cache'[q] # NoRow
          BY <1>1, <2>1, <2>3, <3>3 DEF RunsGoOn, NoRow
        <4> QED
          BY <1>2, <2>1, <2>2, <2>3, <3>3, <4>1
      <3> QED
        BY <3>1, <3>2, <3>3
    <2> QED
      BY <1>2, <2>1, <2>2, <2>3
  <1>6. CacheIsNew'
    <2> SUFFICES ASSUME NEW q \in Proc, NEW p \in Proc, Active(p)',
                        cache'[q].updated > row'.updated, startedAt'[p] < cache'[q].updated
                 PROVE  Fresh(startedAt[p])' /\ HoldsNew(q, startedAt[p])'
      BY DEF CacheIsNew
    <2>1. Active(p) /\ startedAt'[p] = startedAt[p]
      BY DEF RunsGoOn
    <2>2. cache'[q] # NoRow /\ cache'[q] # row'
      BY <1>1 DEF NoRow
    <2>3. cache'[q] = cache[q]
      BY <2>2 DEF RunsGoOn
    <2>4. cache[q].updated > row.updated
      BY <1>1, <2>3
    <2>5. Fresh(startedAt[p]) /\ HoldsNew(q, startedAt[p])
      BY <2>1, <2>3, <2>4 DEF FailureInv, CacheIsNew
    <2> QED
      BY <1>2, <2>1, <2>5
  <1> QED
    BY <1>3, <1>5, <1>6

\* A step that commits nothing, starts no run and makes no claim keeps all of it.
LEMMA FailureQuiet ==
    ASSUME TypeOK, TypeOK', FailureInv, RunsGoOn, HoldsGoOn, CheckpointGoesOn, now' >= now,
           \A q \in Proc : cache'[q] \in {cache[q], NoRow} \/ pc[q] = "claim",
           row'.updated <= now', commitAt' = commitAt,
           row'.success = row.success, row'.updated >= row.updated
    PROVE  FailureInv'
  <1>1. /\ now \in Nat /\ now' \in Nat /\ commitAt \in Nat
        /\ row.updated \in Nat /\ row'.updated \in Nat /\ row.success \in Nat
        /\ \A q \in Proc : startedAt[q] \in Nat /\ before[q].updated \in Nat
    BY StampTypes, NextStamps
  <1>3. commitAt' <= now' /\ row'.success >= row.success
    BY <1>1 DEF FailureInv, TimesPast
  <1>4. TimesPast' /\ ResultsReal' /\ ClaimAlone'
    BY <1>3, RunsKept
  <1>5. UnstoredIsNew' /\ ClaimIsNew' /\ CacheIsNew'
    BY <1>3, NewKept
  <1>8. CommitShows'
    <2> SUFFICES ASSUME NEW p \in Proc, Active(p)', commitAt' > startedAt'[p]
                 PROVE  /\ Shows(row, p)'
                        /\ \A r \in Proc : Pending(r)' /\ after'[r].success = row'.success
                               => Shows(before[r], p)'
      BY DEF CommitShows
    <2>1. /\ Active(p) /\ startedAt'[p] = startedAt[p]
          /\ p \in storageOnly' <=> p \in storageOnly
      BY DEF RunsGoOn
    <2>2. /\ Shows(row, p)
          /\ \A r \in Proc : Pending(r) /\ after[r].success = row.success => Shows(before[r], p)
      BY <2>1 DEF FailureInv, CommitShows
    <2>3. completed \subseteq completed'
      BY DEF CheckpointGoesOn
    <2>4. Shows(row, p)'
      BY <1>1, <2>1, <2>2, <2>3 DEF Shows, Expired
    <2>5. ASSUME NEW r \in Proc, Pending(r)', after'[r].success = row'.success
          PROVE  Shows(before[r], p)'
      BY <2>1, <2>2, <2>3, <2>5 DEF RunsGoOn, Shows, Expired
    <2> QED
      BY <2>4, <2>5
  <1>9. ClaimsOld'
    BY DEF RunsGoOn, FailureInv, ClaimsOld
  <1> QED
    BY <1>4, <1>5, <1>8, <1>9 DEF FailureInv

\* A flush stamps the row, or the object it flushes was loaded at this very moment.
LEMMA FlushStamps ==
    ASSUME TypeOK, FailureInv, NEW p \in Proc, NEW new, new.updated = now,
           row' = Flushed(p, new)
    PROVE  /\ row'.updated >= row.updated /\ row'.updated <= now
           /\ row'.updated = now \/ (row'.updated = row.updated /\ cache[p].updated = now)
  <1>1. now \in Nat /\ row.updated \in Nat /\ row.updated <= now
    BY StampTypes DEF FailureInv, TimesPast
  <1>2. row'.updated = Column(now, Loaded(p).updated, Created.updated)
    BY DEF Flushed
  <1>3. /\ Exists(row) => Created.updated = row.updated
        /\ ~Exists(row) => Created.updated = now
    BY DEF Created, NoRow
  <1>4. CASE Exists(cache[p])
    BY <1>1, <1>2, <1>3, <1>4 DEF Column, Loaded
  <1>5. CASE ~Exists(cache[p])
    BY <1>1, <1>2, <1>3, <1>5 DEF Column, Loaded
  <1> QED
    BY <1>4, <1>5

\* A commit shows every run that started before it: its stamp is the moment of the commit, or
\* what is stored was completed after that run started.
LEMMA FailureStore ==
    ASSUME TypeOK, TypeOK', FuelInv, FailureInv, NEW q \in Proc, StoreWrites(q),
           RunsGoOn, HoldsGoOn, UNCHANGED <<now, fileVars, completed>>,
           \A p \in Proc : cache'[p] \in {cache[p], NoRow}
                            \/ (p = q /\ pc'[q] = "ack" /\ result'[q] = result[q])
    PROVE  FailureInv'
  <1>1. /\ now \in Nat /\ commitAt \in Nat
        /\ row.updated \in Nat /\ row.success \in Nat
        /\ \A p \in Proc : /\ startedAt[p] \in Nat /\ result[p] \in Nat
                           /\ after[p].success \in Nat
    BY StampTypes
  <1>2. row'.success = result[q] /\ row.success < result[q]
    BY StoreRow
  <1>3. CheckpointGoesOn
    BY DEF CheckpointGoesOn, fileVars, Resumable, Valid
  <1>4. MarkedSuccess(q, result[q]).updated = now
    <2>1. Loaded(q) \in State
      BY LoadedType DEF TypeOK
    <2> QED
      BY <2>1 DEF MarkedSuccess, State
  <1>5. /\ row'.updated <= now
        /\ row'.updated = now \/ (row'.updated = row.updated /\ cache[q].updated = now)
    BY <1>4, FlushStamps DEF StoreWrites
  <1>6. commitAt' = now
    BY DEF StoreWrites
  <1>7. TimesPast' /\ ResultsReal' /\ ClaimAlone'
    <2>1. now' >= now /\ row'.updated <= now' /\ commitAt' <= now'
      BY <1>1, <1>5, <1>6
    <2> QED
      BY <1>3, <2>1, RunsKept
  <1>9. UnstoredIsNew' /\ ClaimIsNew' /\ CacheIsNew'
    <2>1. row'.success >= row.success /\ row'.updated >= row.updated
      BY <1>1, <1>2, <1>5 DEF FailureInv, TimesPast
    <2> QED
      BY <1>2, <1>3, <2>1, NewKept
  <1>10. \A r \in Proc : Pending(r)' =>
             after'[r].success <= row'.success /\ after'[r].success # row'.success
    BY <1>1, <1>2 DEF RunsGoOn, FailureInv, ClaimsOld
  <1>11. CommitShows'
    <2> SUFFICES ASSUME NEW p \in Proc, Active(p)', now > startedAt'[p]
                 PROVE  Shows(row, p)'
      BY <1>6, <1>10 DEF CommitShows
    <2>1. /\ Active(p) /\ startedAt'[p] = startedAt[p]
          /\ p \in storageOnly' <=> p \in storageOnly
      BY DEF RunsGoOn
    <2>2. HoldsNew(q, startedAt[p]) =>
              row'.success >= startedAt[p] \/ Expired(row'.success, startedAt[p])
      BY <1>1, <1>2 DEF HoldsNew, Newer
    <2>3. Expired(row'.success, startedAt[p]) => Expired(row.success, startedAt[p])'
      BY <2>1 DEF Expired
    <2>4. CASE p \notin storageOnly
      BY <2>1, <2>2, <2>3, <2>4 DEF FailureInv, UnstoredIsNew, Shows
    <2>5. CASE row'.updated > startedAt[p] /\ p \in storageOnly
      BY <2>1, <2>5 DEF Shows
    <2>6. CASE ~(row'.updated > startedAt[p])
      <3>1. row'.updated = row.updated /\ cache[q].updated = now /\ row.updated < now
        BY <1>1, <1>5, <2>1, <2>6
      <3>2. HoldsNew(q, startedAt[p])
        BY <1>1, <2>1, <3>1 DEF FailureInv, CacheIsNew
      <3> QED
        BY <2>1, <2>2, <2>3, <3>2 DEF Shows
    <2> QED
      BY <2>4, <2>5, <2>6
  <1>12. ClaimsOld'
    BY <1>10 DEF ClaimsOld
  <1> QED
    BY <1>7, <1>9, <1>11, <1>12 DEF FailureInv

\* A run that starts sees no commit after its start, and either a checkpoint or none.
LEMMA FailurePeek ==
    ASSUME TypeOK, FuelInv, FailureInv, NEW r \in Proc, Peek(r)
    PROVE  FailureInv'
  <1>1. /\ now \in Nat /\ now # 0 /\ commitAt \in Nat /\ ckpt \in Nat /\ row.updated \in Nat
        /\ row.success \in Nat
        /\ \A q \in Proc : /\ cache[q].updated \in Nat /\ after[q].updated \in Nat
                           /\ startedAt[q] \in Nat
    BY StampTypes
  <1>2. /\ UNCHANGED <<now, row, ckpt, begun, result, before, after, cache, completed, commitAt>>
        /\ dbLock = NoProc /\ dbLock' = r
        /\ pc[r] = "idle" /\ pc'[r] = "claim" /\ startedAt'[r] = now
        /\ pending'[r] \in {pending[r], Resumable}
        /\ r \notin storageOnly' => Resumable = 0
        /\ \A q \in Proc \ {r} : /\ pc'[q] = pc[q] /\ startedAt'[q] = startedAt[q]
                                 /\ pending'[q] = pending[q]
                                 /\ q \in storageOnly' <=> q \in storageOnly
    BY DEF Peek, Goto, TypeOK, LocalTypeOK, fileVars, hist
  <1>3. \A q \in Proc : Pending(q)' => Pending(q) /\ q # r
    BY <1>2 DEF Pending
  <1>4. \A q \in Proc \ {r} : Active(q)' <=> Active(q)
    BY <1>2 DEF Active
  <1>5. TimesPast'
    BY <1>1, <1>2, <1>4 DEF FailureInv, TimesPast
  <1>6. Resumable' = Resumable /\ Resumable \in {0, ckpt}
    BY <1>2 DEF Resumable, Valid
  <1>7. result[r] = 0 /\ pending'[r] \in {0, Resumable}
    BY <1>2 DEF FailureInv, ResultsReal
  <1>8. ResultsReal'
    <2>1. Known(ckpt)' /\ \A q \in Proc : Known(result[q])'
      BY <1>2 DEF FailureInv, ResultsReal, Known
    <2>2. \A q \in Proc : Known(pending[q])'
      BY <1>2, <1>6, <1>7 DEF FailureInv, ResultsReal, Known
    <2> QED
      BY <1>2, <2>1, <2>2 DEF FailureInv, ResultsReal
  <1>9. ClaimAlone'
    <2> SUFFICES ASSUME NEW q \in Proc, pc'[q] = "claim"
                 PROVE  /\ dbLock' = q
                        /\ \A p \in Proc : Active(p)' => startedAt'[p] <= startedAt'[q]
      BY DEF ClaimAlone
    <2>1. q = r
      BY <1>2, FuelProcs DEF FailureInv, ClaimAlone
    <2> QED
      BY <1>1, <1>2, <2>1 DEF FailureInv, TimesPast
  <1>10. ASSUME NEW p \in Proc \ {r}, Fresh(startedAt[p]),
                NEW q \in Proc, q = r \/ HoldsNew(q, startedAt[p])
         PROVE  HoldsNew(q, startedAt[p])'
    <2>1. CASE q = r
      BY <1>1, <1>2, <1>7, <1>10, <2>1 DEF HoldsNew, Newer, Fresh
    <2>2. CASE q # r
      BY <1>2, <1>10, <2>2 DEF HoldsNew, Newer, Expired
    <2> QED
      BY <2>1, <2>2
  <1>11. UnstoredIsNew'
    <2>1. ASSUME NEW p \in Proc \ {r}, Active(p)', p \notin storageOnly'
          PROVE  Fresh(startedAt[p])' /\ \A q \in Proc : HoldsNew(q, startedAt[p])'
      <3>1. Fresh(startedAt[p]) /\ \A q \in Proc : HoldsNew(q, startedAt[p])
        BY <1>2, <1>4, <2>1 DEF FailureInv, UnstoredIsNew
      <3> QED
        BY <1>2, <1>6, <1>10, <3>1 DEF Fresh
    <2>2. ASSUME r \notin storageOnly'
          PROVE  Fresh(startedAt[r])' /\ \A q \in Proc : HoldsNew(q, startedAt[r])'
      <3>1. Resumable' = 0
        BY <1>2, <1>6, <2>2
      <3>2. ASSUME NEW q \in Proc PROVE Newer(result[q], startedAt[r])'
        <4>1. result[q] = 0 \/ \E c \in completed : c.at = result[q]
          BY DEF FailureInv, ResultsReal, Known
        <4>2. ASSUME NEW c \in completed, c.at = result[q], c.at # 0, c.at > row.success
              PROVE  c.until <= now
          <5>1. /\ completed \subseteq Collection /\ begun \in Nat /\ Life \in Nat
                /\ c.until \in Nat /\ c.at \in Nat
            BY FuelBounds DEF TypeOK, FileTypeOK, HistTypeOK, Collection, Time, Stamp
          <5>2. now < c.until => c.at = ckpt
            BY <1>1, <4>2, <5>1 DEF FuelInv, NoSnapshotLost
          <5>3. c.at = ckpt => c.until = begun + Life
            BY DEF FuelInv, FileKnown
          <5>4. ckpt # 0 => ~(now < begun + Life)
            BY <1>6, <3>1 DEF Resumable, Valid
          <5> QED
            BY <1>1, <4>2, <5>1, <5>2, <5>3, <5>4
        <4> QED
          BY <1>1, <1>2, <4>1, <4>2 DEF Newer, Expired
      <3>3. \A q \in Proc : pc'[q] # "cleanup" /\ (pc'[q] = "claim" => q = r)
        BY <1>2, FuelProcs DEF Peek, FuelInv, BrowserHoldsFile, FailureInv, ClaimAlone
      <3>4. Newer(pending[r], startedAt[r])'
        BY <1>1, <1>2, <1>6, <1>7, <3>1 DEF Newer
      <3> QED
        BY <1>1, <1>2, <3>1, <3>2, <3>3, <3>4 DEF Fresh, HoldsNew
    <2> QED
      BY <2>1, <2>2 DEF UnstoredIsNew
  <1>12. ClaimIsNew'
    <2> SUFFICES ASSUME NEW k \in Proc, NEW p \in Proc, Pending(k)', Active(p)',
                        startedAt'[p] < after'[k].updated
                 PROVE  /\ Fresh(startedAt[p])'
                        /\ \A q \in Proc : \/ pc'[q] = "claim"
                                           \/ /\ cache'[q].updated > before'[k].updated
                                              /\ cache'[q].updated > startedAt'[p]
                                          => HoldsNew(q, startedAt[p])'
      BY DEF ClaimIsNew
    <2>1. p # r
      BY <1>1, <1>2 DEF FailureInv, TimesPast
    <2>2. /\ Fresh(startedAt[p])
          /\ \A q \in Proc : \/ pc[q] = "claim"
                             \/ /\ cache[q].updated > before[k].updated
                                /\ cache[q].updated > startedAt[p]
                            => HoldsNew(q, startedAt[p])
      BY <1>2, <1>3, <1>4, <2>1 DEF FailureInv, ClaimIsNew
    <2> QED
      BY <1>2, <1>6, <1>10, <2>1, <2>2 DEF Fresh
  <1>13. CacheIsNew'
    <2> SUFFICES ASSUME NEW q \in Proc, NEW p \in Proc, Active(p)',
                        cache'[q].updated > row'.updated, startedAt'[p] < cache'[q].updated
                 PROVE  Fresh(startedAt[p])' /\ HoldsNew(q, startedAt[p])'
      BY DEF CacheIsNew
    <2>1. p # r
      BY <1>1, <1>2 DEF FailureInv, TimesPast
    <2>2. Fresh(startedAt[p]) /\ HoldsNew(q, startedAt[p])
      BY <1>2, <1>4, <2>1 DEF FailureInv, CacheIsNew
    <2> QED
      BY <1>2, <1>6, <1>10, <2>1, <2>2 DEF Fresh
  <1>14. CommitShows'
    <2> SUFFICES ASSUME NEW p \in Proc, Active(p)', commitAt' > startedAt'[p]
                 PROVE  /\ Shows(row, p)'
                        /\ \A q \in Proc : Pending(q)' /\ after'[q].success = row'.success
                               => Shows(before[q], p)'
      BY DEF CommitShows
    <2>1. p # r
      BY <1>1, <1>2 DEF FailureInv, TimesPast
    <2> QED
      BY <1>2, <1>3, <1>4, <2>1 DEF FailureInv, CommitShows, Shows, Expired
  <1>15. ClaimsOld'
    BY <1>2, <1>3 DEF FailureInv, ClaimsOld
  <1> QED
    BY <1>5, <1>8, <1>9, <1>11, <1>12, <1>13, <1>14, <1>15 DEF FailureInv

\* A claim stamps the row; the runs that started before it started before its run did.
LEMMA FailureClaim ==
    ASSUME TypeOK, FuelInv, FailureInv, NEW r \in Proc, Claim(r)
    PROVE  FailureInv'
  <1>1. /\ now \in Nat /\ commitAt \in Nat /\ ckpt \in Nat /\ row.updated \in Nat
        /\ row.success \in Nat
        /\ \A q \in Proc : /\ cache[q].updated \in Nat /\ after[q].updated \in Nat
                           /\ startedAt[q] \in Nat
    BY StampTypes
  <1>2. /\ UNCHANGED <<now, ckpt, begun, startedAt, storageOnly, pending, result, completed, commitAt>>
        /\ row'.success = row.success /\ row'.updated = now
        /\ pc[r] = "claim" /\ pc'[r] = "collect" /\ r \notin storageOnly
        /\ before'[r] = row /\ after'[r] = row' /\ cache'[r] = row'
        /\ \A q \in Proc \ {r} : /\ pc'[q] = pc[q] /\ cache'[q] = cache[q]
                                 /\ before'[q] = before[q] /\ after'[q] = after[q]
    <2>1. Created \in State /\ Created.success = row.success
      BY CreatedRow DEF TypeOK, FuelInv
    <2> QED
      BY <2>1 DEF Claim, Goto, TypeOK, LocalTypeOK, CacheTypeOK, State, fileVars, hist
  <1>3. \A q \in Proc \ {r} : Pending(q)' <=> Pending(q)
    BY <1>2 DEF Pending
  <1>4. \A q \in Proc : Active(q)' <=> Active(q)
    BY <1>2 DEF Active
  <1>5. TimesPast'
    BY <1>1, <1>2, <1>4 DEF FailureInv, TimesPast
  <1>6. ResultsReal'
    BY <1>2 DEF FailureInv, ResultsReal, Known
  <1>7. ClaimAlone'
    <2>1. \A q \in Proc : pc'[q] # "claim"
      BY <1>2 DEF FailureInv, ClaimAlone
    <2> QED
      BY <2>1 DEF ClaimAlone
  <1>8. Resumable' = Resumable /\ \A t : Fresh(t) => (Resumable' > row'.success => Resumable' >= t)
    BY <1>2 DEF Resumable, Valid, Fresh
  <1>13. ASSUME NEW p \in Proc, NEW q \in Proc, HoldsNew(q, startedAt[p])
         PROVE  HoldsNew(q, startedAt[p])'
    BY <1>2, <1>13 DEF HoldsNew, Newer, Expired
  <1>14. UnstoredIsNew'
    BY <1>2, <1>4, <1>8, <1>13 DEF FailureInv, UnstoredIsNew, Fresh
  <1>9. ClaimIsNew'
    <2> SUFFICES ASSUME NEW k \in Proc, NEW p \in Proc, Pending(k)', Active(p)',
                        startedAt'[p] < after'[k].updated
                 PROVE  /\ Fresh(startedAt[p])'
                        /\ \A q \in Proc : \/ pc'[q] = "claim"
                                           \/ /\ cache'[q].updated > before'[k].updated
                                              /\ cache'[q].updated > startedAt'[p]
                                          => HoldsNew(q, startedAt[p])'
      BY DEF ClaimIsNew
    <2>0. Active(p) /\ startedAt'[p] = startedAt[p]
      BY <1>2, <1>4
    <2>1. CASE k = r
      <3>1. /\ startedAt[p] <= startedAt[r] /\ Active(r)
            /\ startedAt[p] \in Nat /\ startedAt[r] \in Nat
        BY <1>1, <1>2, <2>0 DEF FailureInv, ClaimAlone, Active
      <3>2. Fresh(startedAt[r]) /\ \A q \in Proc : HoldsNew(q, startedAt[r])
        BY <1>2, <3>1 DEF FailureInv, UnstoredIsNew
      <3>3. Fresh(startedAt[p])
        BY <1>1, <3>1, <3>2, ResumableType DEF Fresh
      <3>4. ASSUME NEW q \in Proc, \/ pc'[q] = "claim"
                                   \/ /\ cache'[q].updated > before'[k].updated
                                      /\ cache'[q].updated > startedAt'[p]
            PROVE  HoldsNew(q, startedAt[p])'
        <4>1. CASE q = r
          <5>1. result[r] = 0
            BY <1>2 DEF FailureInv, ResultsReal
          <5> QED
            BY <1>1, <1>2, <4>1, <5>1 DEF HoldsNew, Newer
        <4>2. CASE q # r
          <5>1. cache[q].updated > row.updated /\ cache[q].updated > startedAt[p]
            BY <1>2, <2>0, <2>1, <3>4, <4>2, FuelProcs DEF FailureInv, ClaimAlone
          <5>2. HoldsNew(q, startedAt[p])
            BY <1>1, <2>0, <5>1 DEF FailureInv, CacheIsNew
          <5> QED
            BY <1>13, <5>2
        <4> QED
          BY <4>1, <4>2
      <3> QED
        BY <1>8, <2>0, <3>3, <3>4 DEF Fresh
    <2>2. CASE k # r
      <3>1. /\ Fresh(startedAt[p])
            /\ \A q \in Proc : \/ pc[q] = "claim"
                               \/ /\ cache[q].updated > before[k].updated
                                  /\ cache[q].updated > startedAt[p]
                              => HoldsNew(q, startedAt[p])
        BY <1>2, <1>3, <2>0, <2>2 DEF FailureInv, ClaimIsNew
      <3>2. pc[r] = "claim" /\ \A q \in Proc \ {r} : pc'[q] = pc[q] /\ cache'[q] = cache[q]
        BY <1>2
      <3> QED
        BY <1>2, <1>8, <1>13, <2>0, <2>2, <3>1, <3>2 DEF Fresh
    <2> QED
      BY <2>1, <2>2
  <1>10. CacheIsNew'
    <2> SUFFICES ASSUME NEW q \in Proc, NEW p \in Proc, Active(p)',
                        cache'[q].updated > row'.updated
                 PROVE  FALSE
      BY DEF CacheIsNew
    <2>1. cache'[q].updated <= now /\ cache'[q].updated \in Nat
      BY <1>1, <1>2 DEF FailureInv, TimesPast
    <2> QED
      BY <1>1, <1>2, <2>1
  <1>11. CommitShows'
    <2> SUFFICES ASSUME NEW p \in Proc, Active(p)', commitAt' > startedAt'[p]
                 PROVE  /\ Shows(row, p)'
                        /\ \A q \in Proc : Pending(q)' /\ after'[q].success = row'.success
                               => Shows(before[q], p)'
      BY DEF CommitShows
    <2>1. /\ Shows(row, p)
          /\ \A q \in Proc : Pending(q) /\ after[q].success = row.success => Shows(before[q], p)
      BY <1>2, <1>4 DEF FailureInv, CommitShows
    <2>2. Shows(row, p)'
      BY <1>1, <1>2, <2>1 DEF Shows, Expired, FailureInv, TimesPast
    <2>3. ASSUME NEW q \in Proc, Pending(q)', after'[q].success = row'.success
          PROVE  Shows(before[q], p)'
      BY <1>2, <1>3, <2>1, <2>3 DEF Shows, Expired
    <2> QED
      BY <2>2, <2>3
  <1>12. ClaimsOld'
    BY <1>1, <1>2, <1>3 DEF FailureInv, ClaimsOld
  <1> QED
    BY <1>5, <1>6, <1>7, <1>9, <1>10, <1>11, <1>12, <1>14 DEF FailureInv

\* A claim taken back hides no commit, and objects that are now ahead of the row were loaded
\* while it stood.
LEMMA FailureRestore ==
    ASSUME TypeOK, TypeOK', FuelInv, FailureInv, NEW r \in Proc, Restore(r)
    PROVE  FailureInv'
  <1>1. /\ now \in Nat /\ commitAt \in Nat /\ ckpt \in Nat /\ row.updated \in Nat
        /\ row.success \in Nat /\ row'.updated \in Nat
        /\ \A q \in Proc : /\ cache[q].updated \in Nat /\ after[q].updated \in Nat
                           /\ before[q].updated \in Nat /\ startedAt[q] \in Nat
    BY StampTypes, NextStamps
  <1>2. /\ UNCHANGED <<now, dbLock, ckpt, begun, completed, commitAt>>
        /\ dbLock = NoProc
        /\ pc[r] = "restore" /\ pc'[r] = "idle"
        /\ row' = IF row = after[r] THEN before[r] ELSE row
        /\ startedAt'[r] = 0 /\ pending'[r] = 0 /\ result'[r] = 0 /\ after'[r] = NoRow
        /\ \A q \in Proc \ {r} : /\ pc'[q] = pc[q] /\ startedAt'[q] = startedAt[q]
                                 /\ before'[q] = before[q] /\ after'[q] = after[q]
                                 /\ pending'[q] = pending[q] /\ result'[q] = result[q]
                                 /\ q \in storageOnly' <=> q \in storageOnly
        /\ \A q \in Proc : cache'[q] \in {cache[q], NoRow}
    BY DEF Restore, ForgetLocals, Goto, TypeOK, LocalTypeOK, CacheTypeOK, fileVars, hist
  <1>3. \A q \in Proc : Active(q)' => q # r /\ Active(q)
    BY <1>2 DEF Active
  <1>4. \A q \in Proc : Pending(q)' => q # r /\ Pending(q)
    BY <1>2 DEF Pending
  <1>5. Pending(r)
    BY <1>2 DEF Pending
  <1>6. row'.success = row.success
    BY <1>2 DEF FuelInv, ClaimKeepsSuccess
  <1>7. NoRow.updated = 0
    BY DEF NoRow
  <1>8. TimesPast'
    BY <1>1, <1>2, <1>3, <1>7 DEF Restore, ForgetLocals, TypeOK, LocalTypeOK, FailureInv, TimesPast
  <1>9. ResultsReal'
    BY <1>2 DEF FailureInv, ResultsReal, Known
  <1>10. ClaimAlone'
    <2> SUFFICES ASSUME NEW q \in Proc, pc'[q] = "claim"
                 PROVE  /\ dbLock' = q
                        /\ \A p \in Proc : Active(p)' => startedAt'[p] <= startedAt'[q]
      BY DEF ClaimAlone
    <2>1. q # r /\ pc[q] = "claim"
      BY <1>2
    <2> QED
      BY <1>2, <1>3, <2>1 DEF FailureInv, ClaimAlone
  <1>11. Resumable' = Resumable
    BY <1>2 DEF Resumable, Valid
  <1>12. ASSUME NEW p \in Proc \ {r}, NEW q \in Proc, q = r \/ HoldsNew(q, startedAt[p])
         PROVE  HoldsNew(q, startedAt[p])'
    <2>1. CASE q = r
      BY <1>1, <1>2, <1>6, <2>1 DEF HoldsNew, Newer
    <2>2. CASE q # r
      BY <1>2, <1>6, <1>12, <2>2 DEF HoldsNew, Newer, Expired
    <2> QED
      BY <2>1, <2>2
  <1>13. UnstoredIsNew'
    BY <1>2, <1>3, <1>6, <1>11, <1>12 DEF FailureInv, UnstoredIsNew, Fresh
  <1>16. ClaimIsNew'
    <2> SUFFICES ASSUME NEW k \in Proc, NEW p \in Proc, Pending(k)', Active(p)',
                        startedAt'[p] < after'[k].updated
                 PROVE  /\ Fresh(startedAt[p])'
                        /\ \A q \in Proc : \/ pc'[q] = "claim"
                                           \/ /\ cache'[q].updated > before'[k].updated
                                              /\ cache'[q].updated > startedAt'[p]
                                          => HoldsNew(q, startedAt[p])'
      BY DEF ClaimIsNew
    <2>1. /\ p # r /\ Active(p) /\ startedAt'[p] = startedAt[p]
          /\ k # r /\ Pending(k) /\ before'[k] = before[k] /\ after'[k] = after[k]
      BY <1>2, <1>3, <1>4
    <2>2. /\ Fresh(startedAt[p])
          /\ \A q \in Proc : \/ pc[q] = "claim"
                             \/ /\ cache[q].updated > before[k].updated
                                /\ cache[q].updated > startedAt[p]
                            => HoldsNew(q, startedAt[p])
      BY <2>1 DEF FailureInv, ClaimIsNew
    <2>3. \A q \in Proc : /\ pc'[q] = "claim" => pc[q] = "claim"
                          /\ cache'[q].updated > startedAt[p] => cache'[q] = cache[q]
      BY <1>1, <1>2, <1>7
    <2> QED
      BY <1>6, <1>11, <1>12, <2>1, <2>2, <2>3 DEF Fresh
  <1>17. CacheIsNew'
    <2> SUFFICES ASSUME NEW q \in Proc, NEW p \in Proc, Active(p)',
                        cache'[q].updated > row'.updated, startedAt'[p] < cache'[q].updated
                 PROVE  Fresh(startedAt[p])' /\ HoldsNew(q, startedAt[p])'
      BY DEF CacheIsNew
    <2>1. p # r /\ Active(p) /\ startedAt'[p] = startedAt[p]
      BY <1>2, <1>3
    <2>2. cache'[q] = cache[q]
      BY <1>1, <1>2, <1>7
    <2>3. Fresh(startedAt[p]) /\ HoldsNew(q, startedAt[p])
      <3>1. CASE cache[q].updated > row.updated
        BY <2>1, <2>2, <3>1 DEF FailureInv, CacheIsNew
      <3>2. CASE ~(cache[q].updated > row.updated)
        <4>1. row = after[r] /\ row' = before[r]
          BY <1>1, <1>2, <2>2, <3>2
        <4>2. startedAt[p] < after[r].updated
          BY <1>1, <2>1, <2>2, <3>2, <4>1
        <4> QED
          BY <1>5, <2>1, <2>2, <4>1, <4>2 DEF FailureInv, ClaimIsNew
      <3> QED
        BY <3>1, <3>2
    <2> QED
      BY <1>6, <1>11, <1>12, <2>1, <2>3 DEF Fresh
  <1>14. CommitShows'
    <2> SUFFICES ASSUME NEW p \in Proc, Active(p)', commitAt' > startedAt'[p]
                 PROVE  /\ Shows(row, p)'
                        /\ \A q \in Proc : Pending(q)' /\ after'[q].success = row'.success
                               => Shows(before[q], p)'
      BY DEF CommitShows
    <2>1. /\ p # r /\ Active(p) /\ startedAt'[p] = startedAt[p]
          /\ p \in storageOnly' <=> p \in storageOnly
      BY <1>2, <1>3
    <2>2. /\ Shows(row, p)
          /\ \A q \in Proc : Pending(q) /\ after[q].success = row.success => Shows(before[q], p)
      BY <1>2, <2>1 DEF FailureInv, CommitShows
    <2>3. Shows(row, p)'
      <3>1. CASE row = after[r]
        BY <1>2, <1>5, <2>1, <2>2, <3>1 DEF Shows, Expired
      <3>2. CASE row # after[r]
        BY <1>2, <2>1, <2>2, <3>2 DEF Shows, Expired
      <3> QED
        BY <3>1, <3>2
    <2>4. ASSUME NEW q \in Proc, Pending(q)', after'[q].success = row'.success
          PROVE  Shows(before[q], p)'
      BY <1>2, <1>4, <1>6, <2>1, <2>2, <2>4 DEF Shows, Expired
    <2> QED
      BY <2>3, <2>4
  <1>15. ClaimsOld'
    BY <1>2, <1>4, <1>6 DEF FailureInv, ClaimsOld
  <1> QED
    BY <1>8, <1>9, <1>10, <1>13, <1>14, <1>15, <1>16, <1>17 DEF FailureInv

\* A run that ends leaves the others going on.
LEMMA ReturnGoesOn ==
    ASSUME TypeOK, NEW p \in Proc, Return(p), dbLock' = dbLock \/ dbLock = p, FailureInv
    PROVE  /\ RunsGoOn
           /\ ckpt' \in {ckpt, 0} => HoldsGoOn
           /\ \A q \in Proc : cache'[q] \in {cache[q], NoRow}
  <1>1. /\ pc'[p] = "idle" /\ startedAt'[p] = 0 /\ pending'[p] = 0 /\ result'[p] = 0
        /\ before'[p] = NoRow /\ after'[p] = NoRow /\ cache'[p] = NoRow
        /\ \A q \in Proc \ {p} : /\ pc'[q] = pc[q] /\ startedAt'[q] = startedAt[q]
                                 /\ pending'[q] = pending[q] /\ result'[q] = result[q]
                                 /\ before'[q] = before[q] /\ after'[q] = after[q]
                                 /\ cache'[q] = cache[q]
                                 /\ q \in storageOnly' <=> q \in storageOnly
    BY DEF Return, ForgetLocals, Goto, TypeOK, LocalTypeOK, CacheTypeOK
  <1>2. \A q \in Proc : pc'[q] = "claim" => pc[q] = "claim" /\ dbLock' = dbLock
    BY <1>1 DEF FailureInv, ClaimAlone
  <1> QED
    BY <1>1, <1>2 DEF RunsGoOn, HoldsGoOn, Active, Pending

\* Every step keeps the invariant.
LEMMA FailureStep ==
    ASSUME TypeOK, TypeOK', FuelInv, FailureInv, [Next]_vars
    PROVE  FailureInv'
  <1> DEFINE Same == UNCHANGED <<startedAt, storageOnly, pending, before, after>>
             Still == UNCHANGED <<now, row, commitAt>>
  <1>a. /\ pc \in [Proc -> Steps] /\ cache \in [Proc -> State] /\ result \in [Proc -> Time]
        /\ now \in Nat /\ row.updated \in Nat /\ row.updated <= now
        /\ begun \in Nat /\ Life \in Nat
    BY StampTypes, FuelBounds DEF TypeOK, FileTypeOK, LocalTypeOK, CacheTypeOK, Time, FailureInv,
                                   TimesPast
  <1>b. ASSUME RunsGoOn, HoldsGoOn, CheckpointGoesOn, Still,
               \A q \in Proc : cache'[q] \in {cache[q], NoRow}
        PROVE  FailureInv'
    BY <1>a, <1>b, FailureQuiet
  <1>c. UNCHANGED <<now, ckpt, begun, completed>> => CheckpointGoesOn
    BY DEF CheckpointGoesOn, Resumable, Valid
  <1>d. ASSUME OpensFile(Outside) \/ \E p \in Proc : OpensFile(p), UNCHANGED completed
        PROVE  CheckpointGoesOn /\ ckpt' = 0
    <2>1. Resumable' = 0 /\ ckpt' = 0
      BY <1>d DEF OpensFile, Resumable
    <2> QED
      BY <1>d, <2>1 DEF CheckpointGoesOn
  <1>e. CompletesFile => CheckpointGoesOn /\ ckpt' = now
    <2> SUFFICES ASSUME CompletesFile PROVE CheckpointGoesOn /\ ckpt' = now
      OBVIOUS
    <2>1. /\ ckpt' = now /\ completed \subseteq completed'
          /\ [at |-> now, until |-> begun + Life] \in completed'
      BY DEF CompletesFile
    <2>2. \E c \in completed' : c.at = now
      BY <2>1
    <2>3. Resumable' \in {0, now}
      BY <2>1 DEF Resumable
    <2> QED
      BY <2>1, <2>2, <2>3 DEF CheckpointGoesOn
  <1>0. CASE Tick \/ OutsideStarts \/ OutsideEnds \/ UNCHANGED vars
    <2>1. /\ Same /\ UNCHANGED <<row, dbLock, pc, cache, result, commitAt>>
          /\ now' \in {now, now + 1}
      BY <1>0 DEF Tick, OutsideStarts, OutsideEnds, dbVars, locals, hist, vars
    <2>2. CheckpointGoesOn /\ ckpt' \in {ckpt, 0, now}
      <3>1. CASE Tick
        <4>1. ~(now < begun + Life) => ~(now + 1 < begun + Life)
          BY <1>a
        <4> QED
          BY <3>1, <4>1 DEF Tick, fileVars, hist, CheckpointGoesOn, Resumable, Valid
      <3>2. CASE OutsideStarts
        BY <1>d, <3>2 DEF OutsideStarts, hist
      <3>3. CASE OutsideEnds
        <4>1. CASE UNCHANGED <<ckpt, completed>>
          BY <1>c, <3>3, <4>1 DEF OutsideEnds
        <4>2. CASE CompletesFile
          BY <1>e, <4>2
        <4> QED
          BY <3>3, <4>1, <4>2 DEF OutsideEnds
      <3>4. CASE UNCHANGED vars
        BY <1>c, <3>4 DEF vars, fileVars, hist
      <3> QED
        BY <1>0, <3>1, <3>2, <3>3, <3>4
    <2>3. ~Tick => now' = now
      BY <1>0 DEF OutsideStarts, OutsideEnds, vars
    <2>4. Tick => ckpt' = ckpt
      BY DEF Tick, fileVars
    <2>5. RunsGoOn /\ HoldsGoOn
      BY <2>1, <2>2, <2>3, <2>4 DEF RunsGoOn, HoldsGoOn, Active, Pending
    <2> QED
      BY <1>a, <2>1, <2>2, <2>5, FailureQuiet
  <1>1. ASSUME NEW p \in Proc, Skip(p) \/ Acknowledge(p) \/ Crash(p) PROVE FailureInv'
    <2>1. Return(p) /\ Still /\ (dbLock' = dbLock \/ dbLock = p)
      BY <1>1 DEF Skip, Acknowledge, Crash, dbVars, hist, FailureInv, ClaimAlone
    <2>2. CheckpointGoesOn /\ ckpt' \in {ckpt, 0}
      <3>1. CASE UNCHANGED <<ckpt, begun>>
        BY <1>1, <1>c, <3>1 DEF Skip, Acknowledge, Crash, fileVars, hist
      <3>2. CASE ckpt' = 0 /\ UNCHANGED completed
        BY <3>2 DEF CheckpointGoesOn, Resumable
      <3> QED
        BY <1>1, <3>1, <3>2 DEF Skip, Acknowledge, Crash, fileVars, hist
    <2> QED
      BY <1>b, <2>1, <2>2, ReturnGoesOn
  <1>2. ASSUME NEW p \in Proc, ClaimStorage(p) PROVE FailureInv'
    <2>1. /\ Same /\ UNCHANGED <<now, commitAt, ckpt, begun, completed>>
          /\ pc[p] = "claim" /\ pc'[p] = "store" /\ dbLock = p
          /\ result'[p] = pending[p] /\ cache'[p] = row'
          /\ \A q \in Proc \ {p} : /\ pc'[q] = pc[q] /\ pc[q] # "claim"
                                   /\ result'[q] = result[q] /\ cache'[q] = cache[q]
      BY <1>2, <1>a DEF ClaimStorage, Goto, fileVars, hist, FailureInv, ClaimAlone
    <2>2. RunsGoOn /\ HoldsGoOn
      BY <2>1 DEF RunsGoOn, HoldsGoOn, Active, Pending
    <2>3. row'.success = row.success /\ row'.updated >= row.updated /\ row'.updated <= now
      <3>1. Created \in State /\ Created.success = row.success
        BY CreatedRow DEF TypeOK, FuelInv
      <3>2. Created.updated >= row.updated /\ Created.updated <= now
        BY <1>a DEF Created, NoRow, Exists
      <3>3. row'.success = Created.success /\ row'.updated = Created.updated
        BY <1>2, <3>1 DEF ClaimStorage, State
      <3> QED
        BY <3>1, <3>2, <3>3
    <2> QED
      BY <1>a, <1>c, <2>1, <2>2, <2>3, FailureQuiet
  <1>3. ASSUME NEW p \in Proc,
               CollectOnce(p) \/ CollectBusy(p) \/ Complete(p) \/ Deliver(p) \/ FetchFails(p)
        PROVE  FailureInv'
    <2>1. /\ Same /\ Still /\ UNCHANGED <<dbLock, cache>>
          /\ pc[p] # "idle" /\ pc'[p] # "claim" /\ (Pending(p)' => Pending(p))
          /\ \/ result'[p] \in {result[p], Resumable}
             \/ pc[p] = "cleanup" /\ result'[p] = ckpt
          /\ result'[p] \in {result[p], ckpt} /\ pc'[p] # "idle"
          /\ \A q \in Proc \ {p} : pc'[q] = pc[q] /\ result'[q] = result[q]
      BY <1>3, <1>a DEF CollectOnce, CollectBusy, Complete, Deliver, FetchFails, Goto, Pending,
                        Resumable, dbVars, locals, hist
    <2>2. /\ CheckpointGoesOn /\ ckpt' \in {ckpt, 0, now}
          /\ pc'[p] = "cleanup" => ckpt' = now
      <3>1. CASE CollectOnce(p) /\ Resumable # 0
        BY <1>c, <1>a, <2>1, <3>1 DEF CollectOnce, Goto, fileVars
      <3>2. CASE CollectOnce(p) /\ Resumable = 0
        BY <1>d, <1>a, <3>2 DEF CollectOnce, Goto
      <3>3. CASE Complete(p)
        BY <1>e, <3>3 DEF Complete
      <3>4. CASE CollectBusy(p) \/ Deliver(p) \/ FetchFails(p)
        BY <1>c, <1>a, <3>4 DEF CollectBusy, Deliver, FetchFails, Goto, fileVars, hist
      <3> QED
        BY <1>3, <3>1, <3>2, <3>3, <3>4
    <2>3. RunsGoOn /\ HoldsGoOn
      BY <2>1, <2>2 DEF RunsGoOn, HoldsGoOn, Active, Pending
    <2> QED
      BY <1>b, <2>1, <2>2, <2>3
  <1>4. ASSUME NEW p \in Proc, StoreSuperseded(p) PROVE FailureInv'
    <2>1. Still /\ CheckpointGoesOn /\ dbLock' = dbLock /\ ckpt' = ckpt
      BY <1>4, <1>c DEF StoreSuperseded, dbVars, fileVars, hist
    <2>2. CASE result[p] # 0
      <3>1. /\ Same /\ UNCHANGED <<cache, result>> /\ pc[p] # "idle" /\ pc'[p] = "ack"
            /\ \A q \in Proc \ {p} : pc'[q] = pc[q]
        BY <1>4, <1>a, <2>2 DEF StoreSuperseded, Goto, locals
      <3>2. RunsGoOn /\ HoldsGoOn
        BY <2>1, <3>1 DEF RunsGoOn, HoldsGoOn, Active, Pending
      <3> QED
        BY <1>b, <2>1, <3>1, <3>2
    <2>3. CASE result[p] = 0
      BY <1>4, <1>b, <2>1, <2>3, ReturnGoesOn DEF StoreSuperseded
    <2> QED
      BY <2>2, <2>3
  <1>5. ASSUME NEW p \in Proc, Same, UNCHANGED <<dbLock, result, ckpt>>,
               pc[p] # "idle", ~Pending(p)', pc'[p] \notin {"claim", "idle", "cleanup"},
               cache'[p] = NoRow \/ (cache'[p] = row' /\ pc'[p] = "ack"),
               \A q \in Proc \ {p} : pc'[q] = pc[q] /\ cache'[q] = cache[q]
        PROVE  RunsGoOn /\ HoldsGoOn
    BY <1>5 DEF RunsGoOn, HoldsGoOn, Active, Pending
  <1>6. ASSUME NEW p \in Proc, StoreSnapshot(p) PROVE FailureInv'
    <2>1. /\ Same /\ UNCHANGED <<dbLock, result, ckpt>> /\ pc[p] = "store" /\ pc'[p] = "ack"
          /\ cache'[p] = row' /\ \A q \in Proc \ {p} : pc'[q] = pc[q] /\ cache'[q] = cache[q]
      BY <1>6, <1>a DEF StoreSnapshot, StoreWrites, Goto, locals, fileVars
    <2>2. RunsGoOn /\ HoldsGoOn
      BY <1>5, <2>1 DEF Pending
    <2> QED
      BY <1>6, <2>1, <2>2, FailureStore DEF StoreSnapshot, fileVars
  <1>7. ASSUME NEW p \in Proc, pc[p] = "store", AfterStoreError(p), dbLock' = dbLock, Same,
               UNCHANGED <<result, ckpt>>
        PROVE  RunsGoOn /\ HoldsGoOn /\ \A q \in Proc : cache'[q] \in {cache[q], NoRow}
    <2>1. /\ pc'[p] \in {"store", "storeError", "abort"} /\ cache'[p] = NoRow
          /\ \A q \in Proc \ {p} : pc'[q] = pc[q] /\ cache'[q] = cache[q]
      BY <1>7, <1>a DEF AfterStoreError, Goto
    <2> QED
      BY <1>5, <1>7, <2>1 DEF Pending
  <1>8. ASSUME NEW p \in Proc, StoreFails(p) PROVE FailureInv'
    <2>1. RunsGoOn /\ HoldsGoOn /\ \A q \in Proc : cache'[q] \in {cache[q], NoRow}
      BY <1>7, <1>8 DEF StoreFails, dbVars, fileVars
    <2> QED
      BY <1>8, <1>b, <1>c, <2>1 DEF StoreFails, dbVars, fileVars, hist
  <1>9. ASSUME NEW p \in Proc, StoreAnswerLost(p) PROVE FailureInv'
    <2>1. RunsGoOn /\ HoldsGoOn /\ \A q \in Proc : cache'[q] \in {cache[q], NoRow}
      BY <1>7, <1>9 DEF StoreAnswerLost, StoreWrites, fileVars
    <2> QED
      BY <1>9, <2>1, FailureStore DEF StoreAnswerLost, fileVars
  <1>10. ASSUME NEW p \in Proc, StoreUnclaimed(p) \/ Interrupt(p) PROVE FailureInv'
    <2>1. /\ Same /\ Still /\ UNCHANGED <<dbLock, result, ckpt, begun, completed>>
          /\ pc[p] # "idle" /\ pc'[p] \in {"storeError", "abort"} /\ cache'[p] = NoRow
          /\ \A q \in Proc \ {p} : pc'[q] = pc[q] /\ cache'[q] = cache[q]
      BY <1>10, <1>a DEF StoreUnclaimed, Interrupt, Goto, dbVars, fileVars, locals, hist
    <2>2. RunsGoOn /\ HoldsGoOn
      BY <1>5, <2>1 DEF Pending
    <2> QED
      BY <1>b, <1>c, <2>1, <2>2
  <1>11. ASSUME NEW p \in Proc, RecordFailure(p) PROVE FailureInv'
    <2>1. /\ Return(p) /\ UNCHANGED <<now, dbLock, ckpt, begun, completed, commitAt>>
          /\ row' = Flushed(p, MarkedFailure(p))
      BY <1>11 DEF RecordFailure, fileVars, hist
    <2>2. MarkedFailure(p).updated = now
      BY LoadedType DEF TypeOK, MarkedFailure, State
    <2>3. row'.success = row.success /\ row'.updated >= row.updated /\ row'.updated <= now
      BY <2>1, <2>2, FailureRow, FlushStamps
    <2> QED
      BY <1>a, <1>c, <2>1, <2>3, ReturnGoesOn, FailureQuiet
  <1>12. ASSUME NEW p \in Proc, Abort(p) PROVE FailureInv'
    <2>1. Return(p) /\ UNCHANGED <<now, dbLock, ckpt, begun, completed, commitAt>>
      BY <1>12 DEF Abort, fileVars, hist
    <2>2. Created \in State /\ Created.success = row.success
      BY CreatedRow DEF TypeOK, FuelInv
    <2>3. row'.success = row.success /\ row'.updated >= row.updated /\ row'.updated <= now
      BY <1>12, <1>a, <2>2 DEF Abort, State
    <2> QED
      BY <1>a, <1>c, <2>1, <2>3, ReturnGoesOn, FailureQuiet
  <1> QED
    BY <1>0, <1>1, <1>2, <1>3, <1>4, <1>6, <1>8, <1>9, <1>10, <1>11, <1>12,
       FailurePeek, FailureClaim, FailureRestore DEF Next

\* A commit leaves a success.
CommitCounts == commitAt # 0 => row.success # 0

\* No step forgets it.
LEMMA CommitStep ==
    ASSUME TypeOK, TypeOK', FuelInv, CommitCounts, [Next]_vars
    PROVE  CommitCounts'
  <1>1. row.success \in Nat /\ row'.success \in Nat /\ row'.success >= row.success
    BY FuelStep DEF TypeOK, DbTypeOK, State, Time
  <1>2. CASE commitAt' = commitAt
    BY <1>1, <1>2 DEF CommitCounts
  <1>3. ASSUME NEW p \in Proc, StoreWrites(p) PROVE CommitCounts'
    BY <1>3, StoreRow DEF CommitCounts, StoreWrites
  <1> QED
    BY <1>2, <1>3
       DEF Next, Tick, OutsideStarts, OutsideEnds, Peek, Skip, Claim, ClaimStorage, CollectOnce,
           CollectBusy, Complete, Deliver, FetchFails, Restore, StoreSuperseded, StoreSnapshot,
           StoreFails, StoreAnswerLost, StoreUnclaimed, RecordFailure, Acknowledge, Interrupt,
           Abort, Crash, hist, vars

\* A run that is not superseded and finds no error either has newer data or missed no commit,
\* except that of a snapshot that was too old to be offered to it.
LEMMA NotSuperseded ==
    ASSUME TypeOK, FailureInv, CommitCounts, NEW p \in Proc, Active(p), row.error = "none",
           ~Superseded(p)
    PROVE  \/ commitAt <= startedAt[p]
           \/ Candidate(p) > row.success
           \/ StoredLate(startedAt[p])
  <1>1. /\ commitAt \in Nat /\ row.success \in Nat /\ row.updated \in Nat
        /\ startedAt[p] \in Nat /\ result[p] \in Nat /\ pending[p] \in Nat
    BY StampTypes
  <1>2. Candidate(p) \in Nat /\ startedAt[p] # 0
    BY <1>1 DEF Candidate, FailureInv, TimesPast
  <1> SUFFICES ASSUME commitAt > startedAt[p], ~StoredLate(startedAt[p])
               PROVE  Candidate(p) > row.success
    BY <1>1
  <1>3. row.success # 0 /\ Shows(row, p)
    BY <1>1, <1>2 DEF CommitCounts, FailureInv, CommitShows
  <1>5. ~Expired(row.success, startedAt[p])
    BY DEF Expired, StoredLate
  <1>4. Candidate(p) # 0
    BY <1>1, <1>2, <1>3, <1>5 DEF Superseded, Shows
  <1> QED
    BY <1>1, <1>2, <1>3, <1>4 DEF Superseded

\* A run that ends in a failure does not mark the source failed when another run has committed
\* a snapshot since it started, unless it had newer data to offer or that snapshot's checkpoint
\* was not valid any more when the run started, although the row's stamp is written from stale
\* objects and set back by claims that are taken back (fuel_checkpoint_was_superseded).
THEOREM FailuresTrue == Spec => NoFalseFailure
  <1> DEFINE Inv == TypeOK /\ FuelInv /\ FailureInv /\ CommitCounts
             True(p) == PublishesFailure(p) =>
                            \/ commitAt <= startedAt[p]
                            \/ Candidate(p) > row.success
                            \/ StoredLate(startedAt[p])
  <1>1. Init => FailureInv /\ CommitCounts
    BY DEF Init, FailureInv, TimesPast, ResultsReal, ClaimAlone, UnstoredIsNew, ClaimIsNew,
           CacheIsNew, CommitShows, ClaimsOld, CommitCounts, Active, Pending, NoRow, Known
  <1>2. ASSUME Inv, TypeOK', [Next]_vars PROVE FailureInv' /\ CommitCounts'
    BY <1>2, FailureStep, CommitStep
  <1>3. Spec => []Inv
    BY <1>1, <1>2, FuelInductive, PTL DEF Spec
  <1>4. ASSUME Inv, [Next]_vars, NEW p \in Proc, PublishesFailure(p)
        PROVE  \/ commitAt <= startedAt[p]
               \/ Candidate(p) > row.success
               \/ StoredLate(startedAt[p])
    <2> USE <1>4 DEF PublishesFailure
    <2>0. /\ pc \in [Proc -> Steps] /\ Active(p) /\ row.error = "none" /\ row' # row
          /\ pc[p] \in {"store", "storeError", "abort"} /\ pc'[p] # pc[p]
      BY DEF TypeOK, LocalTypeOK, Active
    <2>1. CASE RecordFailure(p) \/ Abort(p)
      <3>1. ~Superseded(p)
        BY <2>0, <2>1 DEF RecordFailure, Abort
      <3> QED
        BY <2>0, <3>1, NotSuperseded
    <2>2. CASE StoreWrites(p)
      <3>1. Created.error = "none"
        BY <2>0 DEF Created, NoRow
      <3>2. MarkedSuccess(p, result[p]).error = "none"
        BY LoadedType DEF TypeOK, MarkedSuccess, State
      <3>3. row'.error = "none"
        BY <2>2, <3>1, <3>2 DEF StoreWrites, Flushed, Column
      <3> QED
        BY <3>3
    <2>3. ASSUME NEW q \in Proc, q # p
          PROVE  ~( \/ Claim(q) \/ ClaimStorage(q) \/ Restore(q) \/ StoreSnapshot(q)
                    \/ StoreAnswerLost(q) \/ RecordFailure(q) \/ Abort(q))
      BY <2>0, <2>3 DEF Claim, ClaimStorage, Restore, StoreSnapshot, StoreAnswerLost,
                        AfterStoreError, RecordFailure, Abort, Return, Goto
    <2>4. ~(Claim(p) \/ ClaimStorage(p) \/ Restore(p))
      BY <2>0 DEF Claim, ClaimStorage, Restore
    <2>5. \E q \in Proc : \/ Claim(q) \/ ClaimStorage(q) \/ Restore(q) \/ StoreSnapshot(q)
                          \/ StoreAnswerLost(q) \/ RecordFailure(q) \/ Abort(q)
      BY <2>0 DEF Next, Tick, OutsideStarts, OutsideEnds, Peek, Skip, CollectOnce,
                  CollectBusy, Complete, Deliver, FetchFails, StoreSuperseded,
                  StoreFails, StoreUnclaimed, Acknowledge, Interrupt, Crash, dbVars, vars
    <2> QED
      BY <2>1, <2>2, <2>3, <2>4, <2>5 DEF StoreSnapshot, StoreAnswerLost
  <1>5. Inv /\ [Next]_vars => [\A p \in Proc : True(p)]_vars
    BY <1>4
  <1>6. Spec => [][\A p \in Proc : True(p)]_vars
    BY <1>3, <1>5, PTL DEF Spec
  <1> QED
    BY <1>6 DEF NoFalseFailure

=============================================================================
