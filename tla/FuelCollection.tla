---------------------------- MODULE FuelCollection ----------------------------
(***************************************************************************)
(* The OpiNet fuel collection of services/transport_collection.py          *)
(* (TransportCollectionService.collect with scope "fuel" or "all").        *)
(*                                                                         *)
(* Several processes (the API's scheduler, Dagster runs, manual runs) may  *)
(* collect at once.  A run claims the source row in a short transaction    *)
(* under an advisory lock, drives the browser collector with no lock held, *)
(* and stores the snapshot in a second transaction under the lock.  The    *)
(* collector (package opinet, not in the repository) keeps its progress in *)
(* a checkpoint file with a lock of its own; a completed checkpoint that   *)
(* was not acknowledged is handed to the next run, until it is Life old,   *)
(* counted from the start of its collection: then a new collection takes   *)
(* its place.                                                              *)
(*                                                                         *)
(* Sessions are made with expire_on_commit=False: the ORM object loaded by *)
(* the claim keeps its attribute values until a rollback expires them, and *)
(* a flush writes only the attributes that differ from the values loaded.  *)
(***************************************************************************)
EXTENDS Integers

CONSTANTS
    Proc,       \* processes that run the collection
    MaxTime,    \* bound: the clock
    MaxFaults,  \* bound: errors, cancellations and crashes
    Interval,   \* provider.next_fuel_interval()
    Slack,      \* FUEL_NEXT_DUE_START_SLACK
    Life,       \* the collector's checkpoint_max_age
    Unusable,   \* times at which the provider has no regions, no stations or no price to give
    InProcess,  \* settings.scheduler_mode = "in_process"
    Outside,    \* a writer of the checkpoint file that has no claim in this database
    NoProc

ASSUME FuelBounds ==
    /\ MaxTime \in Nat \ {0} /\ MaxFaults \in Nat
    /\ Interval \in Nat /\ Slack \in Nat /\ Slack < Interval
    /\ Life \in Nat \ {0} /\ Unusable \subseteq Nat
    /\ InProcess \in BOOLEAN

ASSUME FuelProcs == NoProc \notin Proc /\ Outside \notin Proc /\ NoProc # Outside

VARIABLES
    now,
    row,        \* the OPINET_SOURCE row of transport_collection_states
    latest,     \* newest collected_at in fuel_latest_prices (0: empty)
    stations,   \* collected_at of the snapshot the fuel_stations columns come from
    dbLock,     \* holder of the fuel advisory lock between two steps of a transaction
    \* ---- the checkpoint file
    ckpt,       \* collected_at of the completed, unacknowledged snapshot (0: none)
    begun,      \* when the collection in the file began (0: an empty file)
    fileLock,   \* holder of the sidecar lock
    \* ---- a run's local variables
    pc,
    startedAt,
    storageOnly,  \* runs with fuel_storage_only
    pending,    \* pending_fuel (0: None)
    result,     \* fuel_result: a snapshot's collected_at, 0 for an exception or None
    before, after,  \* fuel_claim_before and fuel_claim_after
    cache,      \* attribute values of the run's ORM object (NoRow: not loaded or expired)
    attempt,
    faults,
    \* ---- history
    completed,  \* every completed browser collection
    used,       \* claim times of the runs that opened the browser
    commitAt    \* when a snapshot was last committed

dbVars   == <<row, latest, stations, dbLock>>
fileVars == <<ckpt, begun, fileLock>>
locals   == <<startedAt, storageOnly, pending, result, before, after, attempt>>
hist     == <<completed, used, commitAt>>
vars == <<now, dbVars, fileVars, pc, locals, cache, faults, hist>>

Time == 0..MaxTime
Stamp == 1..MaxTime
State == [started : Time, success : Time, due : 0..(MaxTime + Interval),
          error : {"none", "failed"}, updated : Time]

\* A completed collection: its collected_at, and until when its checkpoint is valid.
Collection == [at : Stamp, until : 0..(MaxTime + Life)]

\* updated_at is never NULL in a row, so 0 stands for "no row"; 0 elsewhere is NULL.
NoRow == [started |-> 0, success |-> 0, due |-> 0, error |-> "none", updated |-> 0]
Exists(s) == s.updated # 0

Steps == {"idle", "claim", "collect", "fetch", "cleanup", "restore", "store", "storeError",
          "ack", "abort"}

DbTypeOK ==
    /\ now \in Stamp
    /\ row \in State
    /\ latest \in Time /\ stations \in Time
    /\ dbLock \in Proc \cup {NoProc}

FileTypeOK ==
    /\ ckpt \in Time /\ begun \in Time
    /\ fileLock \in Proc \cup {NoProc, Outside}

LocalTypeOK ==
    /\ pc \in [Proc -> Steps]
    /\ startedAt \in [Proc -> Time]
    /\ storageOnly \subseteq Proc
    /\ pending \in [Proc -> Time]
    /\ result \in [Proc -> Time]
    /\ before \in [Proc -> State]
    /\ after \in [Proc -> State]
    /\ attempt \in [Proc -> 1..2]

CacheTypeOK == cache \in [Proc -> State]

HistTypeOK ==
    /\ faults \in 0..MaxFaults
    /\ completed \subseteq Collection
    /\ used \subseteq Time
    /\ commitAt \in Time

\* The database, the checkpoint file, the runs and the history have their types; a store
\* is attempted at most FUEL_STORE_ATTEMPTS times.
TypeOK == DbTypeOK /\ FileTypeOK /\ LocalTypeOK /\ CacheTypeOK /\ HistTypeOK

Init ==
    /\ now = 1
    /\ row = NoRow
    /\ latest = 0 /\ stations = 0
    /\ dbLock = NoProc
    /\ ckpt = 0 /\ begun = 0 /\ fileLock = NoProc
    /\ pc = [p \in Proc |-> "idle"]
    /\ startedAt = [p \in Proc |-> 0]
    /\ storageOnly = {}
    /\ pending = [p \in Proc |-> 0]
    /\ result = [p \in Proc |-> 0]
    /\ before = [p \in Proc |-> NoRow]
    /\ after = [p \in Proc |-> NoRow]
    /\ cache = [p \in Proc |-> NoRow]
    /\ attempt = [p \in Proc |-> 1]
    /\ faults = 0
    /\ completed = {} /\ used = {} /\ commitAt = 0

Fault == faults < MaxFaults /\ faults' = faults + 1
Goto(p, step) == pc' = [pc EXCEPT ![p] = step]

\* A run's coroutine is over: its local variables and its session go.
ForgetLocals(p) ==
    /\ startedAt' = [startedAt EXCEPT ![p] = 0]
    /\ storageOnly' = storageOnly \ {p}
    /\ pending' = [pending EXCEPT ![p] = 0]
    /\ result' = [result EXCEPT ![p] = 0]
    /\ before' = [before EXCEPT ![p] = NoRow]
    /\ after' = [after EXCEPT ![p] = NoRow]
    /\ attempt' = [attempt EXCEPT ![p] = 1]

Return(p) ==
    /\ Goto(p, "idle")
    /\ ForgetLocals(p)
    /\ cache' = [cache EXCEPT ![p] = NoRow]

Tick ==
    /\ now < MaxTime
    /\ now' = now + 1
    /\ UNCHANGED <<dbVars, fileVars, pc, locals, cache, faults, hist>>

--------------------------------------------------------------------------------
(* The source row.                                                         *)

\* _get_or_create_state
Created == IF Exists(row) THEN row ELSE [NoRow EXCEPT !.updated = now]

\* The ORM object: the cached one when the session still has it, a fresh load otherwise.
Loaded(p) == IF Exists(cache[p]) THEN cache[p] ELSE Created

\* A flush writes the attributes that differ from the values loaded, and no others.
Column(new, loaded, stored) == IF new = loaded THEN stored ELSE new

Flushed(p, new) ==
    LET old == Loaded(p)
    IN [started |-> Column(new.started, old.started, Created.started),
        success |-> Column(new.success, old.success, Created.success),
        due     |-> Column(new.due, old.due, Created.due),
        error   |-> Column(new.error, old.error, Created.error),
        updated |-> Column(new.updated, old.updated, Created.updated)]

Reserved(start) == start + Interval - Slack

\* _effective_fuel_due_at and _fuel_is_due
FuelDueAt ==
    IF InProcess /\ row.started # 0 /\ row.due = Reserved(row.started)
    THEN row.due + Slack ELSE row.due

FuelIsDue == row.due = 0 \/ now >= FuelDueAt

\* _mark_fuel_success on the loaded object
MarkedSuccess(p, stamp) ==
    LET s == Loaded(p)
    IN [s EXCEPT !.success = stamp, !.error = "none", !.updated = now,
                 !.due = IF p \in storageOnly THEN @ ELSE Reserved(s.started)]

\* _mark_fuel_failure: a reservation is never extended past the start it was made for.
FailureDue(p) ==
    LET s == Loaded(p)
    IN IF p \notin storageOnly /\ s.started # 0 THEN Reserved(s.started)
       ELSE IF s.due # 0 THEN s.due
       ELSE (IF s.started # 0 THEN s.started ELSE now) + Interval

MarkedFailure(p) ==
    [Loaded(p) EXCEPT !.error = "failed", !.updated = now, !.due = FailureDue(p)]

\* The candidate of fuel_checkpoint_was_superseded: the result, else the pending snapshot.
Candidate(p) == IF result[p] # 0 THEN result[p] ELSE pending[p]

\* Mutant: only the exact snapshot counts as stored already.
SupersededOnlyByItself(p) == row.success # 0 /\ row.success = Candidate(p)

\* Mutant: a run without a candidate is never superseded.
SupersededNeedsCandidate(p) ==
    /\ row.success # 0
    /\ Candidate(p) # 0 /\ row.success >= Candidate(p)

\* fuel_checkpoint_was_superseded, read from the columns and not from the ORM object
Superseded(p) ==
    /\ row.success # 0
    /\ IF Candidate(p) # 0 THEN row.success >= Candidate(p)
       ELSE /\ row.error = "none"
            /\ \/ row.success >= startedAt[p]
               \/ p \in storageOnly /\ row.updated > startedAt[p]

--------------------------------------------------------------------------------
(* The checkpoint file.                                                    *)

\* Mutant: what is in the file is resumed at any age.
ValidForever == TRUE

\* What is in the file, finished or not, is resumed within its validity.
Valid == now < begun + Life

\* The completed snapshot the file still hands out (0: none).
Resumable == IF Valid THEN ckpt ELSE 0

\* A writer goes on with an unfinished collection, or begins a new one: an expired
\* checkpoint, completed or not, is gone.
OpensFile(writer) ==
    /\ fileLock = NoProc /\ Resumable = 0
    /\ fileLock' = writer
    /\ ckpt' = 0
    /\ begun' = IF begun # 0 /\ Valid THEN begun ELSE now

\* The last region is saved and the checkpoint completed, of whatever use the snapshot is.
CompletesFile ==
    /\ \A c \in completed : c.at # now
    /\ ckpt' = now
    /\ completed' = completed \cup {[at |-> now, until |-> begun + Life]}

\* _collect_fuel takes a snapshot that has regions, stations and a positive price.
Usable(stamp) == stamp \notin Unusable

--------------------------------------------------------------------------------
(* The claim.                                                              *)

\* collect: the advisory lock, the new run row and the look at the checkpoint, which is
\* busy, empty or expired, completed or (an I/O fault) unreadable.
Peek(p) ==
    /\ pc[p] = "idle"
    /\ dbLock = NoProc
    /\ fileLock = NoProc
    /\ \/ pending' = [pending EXCEPT ![p] = Resumable] /\ UNCHANGED faults
          /\ storageOnly' = IF Resumable # 0 THEN storageOnly \cup {p} ELSE storageOnly
       \/ UNCHANGED pending /\ Fault
          /\ storageOnly' = storageOnly \cup {p}
    /\ dbLock' = p
    /\ startedAt' = [startedAt EXCEPT ![p] = now]
    /\ Goto(p, "claim")
    /\ UNCHANGED <<now, row, latest, stations, fileVars, result, before, after, attempt,
                   cache, hist>>

\* Not due: the run is committed as skipped.
Skip(p) ==
    /\ pc[p] = "claim"
    /\ p \notin storageOnly /\ ~FuelIsDue
    /\ dbLock' = NoProc
    /\ Return(p)
    /\ UNCHANGED <<now, row, latest, stations, fileVars, faults, hist>>

\* Mutant: the claim of a new collection does not move the reservation.
ClaimWithoutReservation(p) ==
    /\ pc[p] = "claim"
    /\ p \notin storageOnly /\ FuelIsDue
    /\ row' = [Created EXCEPT !.started = now, !.updated = now]
    /\ before' = [before EXCEPT ![p] = row]
    /\ after' = [after EXCEPT ![p] = row']
    /\ cache' = [cache EXCEPT ![p] = row']
    /\ dbLock' = NoProc
    /\ Goto(p, "collect")
    /\ UNCHANGED <<now, latest, stations, fileVars, startedAt, storageOnly, pending, result,
                   attempt, faults, hist>>

\* The reservation is committed before the provider is called.
Claim(p) ==
    /\ pc[p] = "claim"
    /\ p \notin storageOnly /\ FuelIsDue
    /\ row' = [Created EXCEPT !.started = now, !.updated = now, !.due = Reserved(now)]
    /\ before' = [before EXCEPT ![p] = row]
    /\ after' = [after EXCEPT ![p] = row']
    /\ cache' = [cache EXCEPT ![p] = row']
    /\ dbLock' = NoProc
    /\ Goto(p, "collect")
    /\ UNCHANGED <<now, latest, stations, fileVars, startedAt, storageOnly, pending, result,
                   attempt, faults, hist>>

\* A completed checkpoint, or its error, needs no provider call: an existing reservation is kept.
ClaimStorage(p) ==
    /\ pc[p] = "claim"
    /\ p \in storageOnly
    /\ row' = IF Created.started # 0 THEN Created
              ELSE [Created EXCEPT !.started = startedAt[p], !.due = Reserved(startedAt[p])]
    /\ cache' = [cache EXCEPT ![p] = row']
    /\ result' = [result EXCEPT ![p] = pending[p]]
    /\ dbLock' = NoProc
    /\ Goto(p, "store")
    /\ UNCHANGED <<now, latest, stations, fileVars, startedAt, storageOnly, pending, before,
                   after, attempt, faults, hist>>

--------------------------------------------------------------------------------
(* The provider: collect_once of the browser collector.                    *)

\* The sidecar lock is free: a completed checkpoint is returned as it is while it is valid,
\* otherwise the browser is opened.
CollectOnce(p) ==
    /\ pc[p] = "collect"
    /\ fileLock = NoProc
    /\ IF Resumable # 0
       THEN /\ result' = [result EXCEPT ![p] = ckpt]
            /\ Goto(p, "store")
            /\ UNCHANGED <<fileVars, used>>
       ELSE /\ OpensFile(p)
            /\ used' = used \cup {after[p].started}
            /\ Goto(p, "fetch")
            /\ UNCHANGED result
    /\ UNCHANGED <<now, dbVars, startedAt, storageOnly, pending, before, after, attempt,
                   cache, faults, completed, commitAt>>

\* OpinetCheckpointBusyError
CollectBusy(p) ==
    /\ pc[p] = "collect"
    /\ fileLock # NoProc
    /\ Goto(p, "restore")
    /\ UNCHANGED <<now, dbVars, fileVars, locals, cache, faults, hist>>

\* The browser has read the last region; it took a while.
Complete(p) ==
    /\ pc[p] = "fetch"
    /\ now > after[p].started
    /\ CompletesFile
    /\ Goto(p, "cleanup")
    /\ UNCHANGED <<now, dbVars, begun, fileLock, locals, cache, faults, used, commitAt>>

\* Mutant: the checkpoint is acknowledged as soon as the snapshot is delivered.
DeliverAndAcknowledge(p) ==
    /\ pc[p] = "cleanup"
    /\ fileLock' = NoProc
    /\ result' = [result EXCEPT ![p] = ckpt]
    /\ ckpt' = 0 /\ begun' = 0
    /\ Goto(p, "store")
    /\ UNCHANGED <<now, dbVars, startedAt, storageOnly, pending, before, after, attempt,
                   cache, faults, hist>>

\* The browser is closed, the sidecar lock released and the snapshot returned.
Deliver(p) ==
    /\ pc[p] = "cleanup"
    /\ fileLock' = NoProc
    /\ result' = [result EXCEPT ![p] = ckpt]
    /\ Goto(p, "store")
    /\ UNCHANGED <<now, dbVars, ckpt, begun, startedAt, storageOnly, pending, before, after, attempt,
                   cache, faults, hist>>

\* An exception or FUEL_FETCH_TIMEOUT_SECONDS, before the checkpoint is complete or after.
FetchFails(p) ==
    /\ pc[p] \in {"fetch", "cleanup"}
    /\ Fault
    /\ fileLock' = NoProc
    /\ Goto(p, "store")
    /\ UNCHANGED <<now, dbVars, ckpt, begun, locals, cache, hist>>

\* Another writer collects into the same checkpoint file.
OutsideStarts ==
    /\ Fault
    /\ OpensFile(Outside)
    /\ UNCHANGED <<now, dbVars, pc, locals, cache, hist>>

OutsideEnds ==
    /\ fileLock = Outside
    /\ fileLock' = NoProc
    /\ \/ UNCHANGED <<ckpt, completed>>
       \/ CompletesFile
    /\ UNCHANGED <<now, dbVars, begun, pc, locals, cache, faults, used, commitAt>>

--------------------------------------------------------------------------------
(* restore_unused_fuel_claim.                                              *)

\* Mutant: the claim is taken back without looking at the row.
RestoreBlindly(p) ==
    /\ pc[p] = "restore"
    /\ dbLock = NoProc
    /\ row' = before[p]
    /\ Return(p)
    /\ UNCHANGED <<now, latest, stations, dbLock, fileVars, faults, hist>>

\* The row is put back, or deleted, only if it is still this run's claim.  The identity-map
\* entry of a deleted row matches no later row.
Restore(p) ==
    /\ pc[p] = "restore"
    /\ dbLock = NoProc
    /\ row' = IF row = after[p] THEN before[p] ELSE row
    /\ Goto(p, "idle")
    /\ ForgetLocals(p)
    /\ cache' = IF Exists(row') THEN [cache EXCEPT ![p] = NoRow] ELSE [q \in Proc |-> NoRow]
    /\ UNCHANGED <<now, latest, stations, dbLock, fileVars, faults, hist>>

--------------------------------------------------------------------------------
(* The store transaction.                                                  *)

\* Mutant: a run that finds its snapshot stored already just returns.
StoreSupersededReturns(p) ==
    /\ pc[p] \in {"store", "storeError"}
    /\ dbLock = NoProc
    /\ Superseded(p)
    /\ Return(p)
    /\ UNCHANGED <<now, dbVars, fileVars, faults, hist>>

\* Already stored, or overtaken by newer data: nothing is written, the checkpoint may go.
StoreSuperseded(p) ==
    /\ pc[p] \in {"store", "storeError"}
    /\ dbLock = NoProc
    /\ Superseded(p)
    /\ IF result[p] # 0
       THEN Goto(p, "ack") /\ UNCHANGED <<locals, cache>>
       ELSE Return(p)
    /\ UNCHANGED <<now, dbVars, fileVars, faults, hist>>

Wins(stamp, held) == IF stamp >= held THEN stamp ELSE held

\* _collect_fuel, _store_fuel_snapshot and _mark_fuel_success in one transaction.
StoreWrites(p) ==
    /\ pc[p] = "store"
    /\ dbLock = NoProc
    /\ ~Superseded(p)
    /\ result[p] # 0 /\ Usable(result[p])
    /\ Loaded(p).started # 0
    /\ row' = Flushed(p, MarkedSuccess(p, result[p]))
    /\ stations' = result[p]
    /\ latest' = Wins(result[p], latest)
    /\ commitAt' = now

StoreSnapshot(p) ==
    /\ StoreWrites(p)
    /\ Goto(p, "ack")
    /\ cache' = [cache EXCEPT ![p] = row']
    /\ UNCHANGED <<now, dbLock, fileVars, locals, faults, completed, used>>

\* An exception: rollback, then the one retry after a transient error, or the error path.
AfterStoreError(p) ==
    /\ cache' = [cache EXCEPT ![p] = NoRow]
    /\ \/ /\ attempt[p] = 1
          /\ attempt' = [attempt EXCEPT ![p] = 2]
          /\ UNCHANGED pc
       \/ /\ \E step \in {"storeError", "abort"} : Goto(p, step)
          /\ UNCHANGED attempt

\* The transaction fails, or its lock is not granted in time.
StoreFails(p) ==
    /\ pc[p] = "store"
    /\ Fault
    /\ AfterStoreError(p)
    /\ UNCHANGED <<now, dbVars, fileVars, startedAt, storageOnly, pending, result, before,
                   after, hist>>

\* The commit is durable, but the connection is lost before the answer arrives.
StoreAnswerLost(p) ==
    /\ StoreWrites(p)
    /\ Fault
    /\ AfterStoreError(p)
    /\ UNCHANGED <<now, dbLock, fileVars, startedAt, storageOnly, pending, result, before,
                   after, completed, used>>

\* _mark_fuel_success refuses a row without a claimed start.
StoreUnclaimed(p) ==
    /\ pc[p] = "store"
    /\ dbLock = NoProc
    /\ ~Superseded(p)
    /\ result[p] # 0 /\ Usable(result[p])
    /\ Loaded(p).started = 0
    /\ Goto(p, "storeError")
    /\ cache' = [cache EXCEPT ![p] = NoRow]
    /\ UNCHANGED <<now, dbVars, fileVars, locals, faults, hist>>

\* The fetch failed or its snapshot is refused (_collect_fuel), or the store failed: the
\* failure is recorded, and a refused checkpoint is not acknowledged.
RecordFailure(p) ==
    /\ \/ pc[p] = "store" /\ (result[p] = 0 \/ ~Usable(result[p]))
       \/ pc[p] = "storeError"
    /\ dbLock = NoProc
    /\ ~Superseded(p)
    /\ row' = Flushed(p, MarkedFailure(p))
    /\ Return(p)
    /\ UNCHANGED <<now, latest, stations, dbLock, fileVars, faults, hist>>

\* acknowledge_fuel_snapshot forgets this snapshot, no other; its failure is only logged.
Acknowledge(p) ==
    /\ pc[p] = "ack"
    /\ \/ /\ IF ckpt = result[p] THEN ckpt' = 0 /\ begun' = 0 ELSE UNCHANGED <<ckpt, begun>>
          /\ UNCHANGED faults
       \/ Fault /\ UNCHANGED <<ckpt, begun>>
    /\ Return(p)
    /\ UNCHANGED <<now, dbVars, fileLock, hist>>

--------------------------------------------------------------------------------
(* Cancellation, failure outside the loop, and crashes.                    *)

\* CancelledError or an unexpected exception while the source is not persisted yet.
Interrupt(p) ==
    /\ pc[p] \in {"collect", "fetch", "cleanup", "store", "storeError"}
    /\ Fault
    /\ fileLock' = IF fileLock = p THEN NoProc ELSE fileLock
    /\ cache' = [cache EXCEPT ![p] = NoRow]
    /\ Goto(p, "abort")
    /\ UNCHANGED <<now, dbVars, ckpt, begun, locals, hist>>

\* The outer handler: the run is closed first, then the source failure is published unless
\* a success has overtaken this run.
Abort(p) ==
    /\ pc[p] = "abort"
    /\ dbLock = NoProc
    /\ row' = IF Superseded(p) THEN row
              ELSE [Created EXCEPT !.error = "failed", !.updated = now]
    /\ Return(p)
    /\ UNCHANGED <<now, latest, stations, dbLock, fileVars, faults, hist>>

\* The process dies, or a handler's own transaction fails: nothing more is written.
Crash(p) ==
    /\ pc[p] # "idle"
    /\ Fault
    /\ dbLock' = IF dbLock = p THEN NoProc ELSE dbLock
    /\ fileLock' = IF fileLock = p THEN NoProc ELSE fileLock
    /\ Return(p)
    /\ UNCHANGED <<now, row, latest, stations, ckpt, begun, hist>>

--------------------------------------------------------------------------------
Run(p) ==
    \/ Skip(p) \/ Claim(p) \/ ClaimStorage(p)
    \/ CollectOnce(p) \/ CollectBusy(p) \/ Complete(p) \/ Deliver(p)
    \/ Restore(p) \/ StoreSuperseded(p) \/ StoreSnapshot(p) \/ StoreUnclaimed(p)
    \/ RecordFailure(p) \/ Acknowledge(p) \/ Abort(p)

Next ==
    \/ Tick \/ OutsideStarts \/ OutsideEnds
    \/ \E p \in Proc :
        \/ Peek(p) \/ Skip(p) \/ Claim(p) \/ ClaimStorage(p)
        \/ CollectOnce(p) \/ CollectBusy(p) \/ Complete(p) \/ Deliver(p) \/ FetchFails(p)
        \/ Restore(p) \/ StoreSuperseded(p) \/ StoreSnapshot(p) \/ StoreFails(p)
        \/ StoreAnswerLost(p) \/ StoreUnclaimed(p) \/ RecordFailure(p) \/ Acknowledge(p)
        \/ Interrupt(p) \/ Abort(p) \/ Crash(p)

Spec == Init /\ [][Next]_vars

\* A run that has begun keeps going (its waits have timeouts, and a lock's holder moves on),
\* and the schedulers keep starting runs.
Fairness == /\ \A p \in Proc : WF_vars(Run(p))
            /\ WF_vars(\E p \in Proc : Peek(p))

FairSpec == Spec /\ Fairness

--------------------------------------------------------------------------------
(* The inductive invariant behind the store.                               *)

\* No row, no success.
NullRow == ~Exists(row) => row.success = 0

\* A claim does not touch last_success_at, so taking it back does not either.
ClaimKeepsSuccess ==
    \A p \in Proc : /\ before[p].success = after[p].success
                    /\ ~Exists(before[p]) => before[p].success = 0

\* A cached object may be stale, but never ahead of the row.
CacheIsOld == \A p \in Proc : cache[p].success <= row.success

\* The browser runs under the sidecar lock and on a checkpoint that is not completed.
BrowserHoldsFile ==
    /\ \A p \in Proc : /\ pc[p] \in {"fetch", "cleanup"} => fileLock = p
                       /\ pc[p] = "fetch" => ckpt = 0
    /\ fileLock = Outside => ckpt = 0

\* A completed checkpoint is valid as long as the collection it came from.
FileKnown == \A c \in completed : c.at = ckpt => c.until = begun + Life

\* What is about to be acknowledged is durable.
AckIsDurable == \A p \in Proc : pc[p] = "ack" => result[p] <= row.success

--------------------------------------------------------------------------------
(* Properties.                                                             *)

\* last_success_at, fuel_latest_prices and fuel_stations always speak of the same snapshot,
\* although stations are upserted without comparing stamps and claims delete and restore
\* the row: only fuel_checkpoint_was_superseded keeps a late store out.
ReadModelAgrees == stations = row.success /\ latest = row.success

\* As long as its checkpoint is valid, every browser collection that was completed is stored,
\* overtaken by a newer one, or still in the checkpoint: acknowledge_fuel_snapshot never
\* comes before the durable commit, and no writer takes the file over before its time.  A
\* snapshot that was not stored until then is lost to a new collection.
NoSnapshotLost ==
    \A c \in completed : now < c.until => c.at <= row.success \/ c.at = ckpt

FuelInv ==
    /\ ReadModelAgrees /\ NoSnapshotLost
    /\ NullRow /\ ClaimKeepsSuccess /\ CacheIsOld /\ BrowserHoldsFile /\ AckIsDurable
    /\ FileKnown

\* No step, a late store and restore_unused_fuel_claim included, sets the source back to an
\* older success.
NoRegression == [][row'.success >= row.success /\ stations' >= stations]_vars

\* p turns a source without an error into a failed one.
PublishesFailure(p) ==
    /\ pc[p] \in {"store", "storeError", "abort"} /\ pc'[p] # pc[p]
    /\ row.error = "none" /\ row'.error = "failed"

\* The stored snapshot came from a checkpoint that was not valid any more at that time.
StoredLate(time) == \E c \in completed : c.at = row.success /\ c.until <= time

\* A run whose fetch, store or cancellation fails does not mark the source failed when
\* another run has committed a snapshot since it started, unless the failed run had newer
\* data to offer, or that snapshot's checkpoint had already expired when the run started.
NoFalseFailure ==
    [][\A p \in Proc : PublishesFailure(p) =>
            \/ commitAt <= startedAt[p]
            \/ Candidate(p) > row.success
            \/ StoredLate(startedAt[p])]_vars

\* Two openings of the browser belong to claims that are a reservation apart, whatever runs
\* were cancelled, crashed, failed or had their claim restored in between.
BudgetKept ==
    [][\A p \in Proc : pc[p] = "collect" /\ pc'[p] = "fetch" =>
            \A u \in used : after[p].started >= Reserved(u) \/ u >= Reserved(after[p].started)]_vars

\* The store's success clears last_error in the same transaction.
SuccessClearsError == [][commitAt' # commitAt => row'.error = "none"]_vars

\* A snapshot that _collect_fuel refuses is replayed by every run while it is valid.
Replayed == ~Usable(ckpt) /\ now < begun + Life

\* An expired checkpoint waits for the next collection that is due.
WaitsForDue == now >= begun + Life /\ ~FuelIsDue

\* Once the faults stop, a completed checkpoint is stored and acknowledged.  One that is
\* refused, or was not stored in time, does not hold the source up for ever: when its
\* validity is over, the next due collection takes its place.
CheckpointDrains == ckpt # 0 ~> (ckpt = 0 \/ Replayed \/ WaitsForDue)

=============================================================================
