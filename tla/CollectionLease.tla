---------------------------- MODULE CollectionLease ----------------------------
(***************************************************************************)
(* Ownership fencing of collection runs (backend/app/dagster/recovery.py   *)
(* and _run_with_session of definitions.py).                               *)
(*                                                                         *)
(* A worker is the op process of one Dagster run.  It opens an owned       *)
(* database session, inserts a row in collection_runs, publishes data and  *)
(* closes the row.  The recovery sensor pages through the rows that are    *)
(* still "running" and takes back the ones whose Dagster run has ended.    *)
(* A worker that outlives its Dagster run may do so at any point, so every *)
(* flush and commit of an owned session re-reads its row FOR UPDATE.       *)
(*                                                                         *)
(* PostgreSQL runs at READ COMMITTED: status, owner and heartbeat are the  *)
(* committed rows; what a transaction has written is in the worker's       *)
(* session variables until Commit.                                         *)
(***************************************************************************)
EXTENDS Integers, FiniteSets

CONSTANTS
    Worker,     \* Dagster runs, each with the op process that executes it
    Scanner,    \* recovery ticks that may overlap (a tick cut off by its budget leaves its thread)
    MaxRows,    \* bound: ids the collection_runs sequence hands out
    MaxTime,    \* bound: hours the clock advances
    MaxPub,     \* bound: data commits under one run
    MaxFaults,  \* bound: metadata outages, aborted ticks and code-server restarts
    PageSize,   \* PAGE_SIZE
    Grace,      \* MISSING_RUN_GRACE
    Runtime,    \* the session's asyncio.timeout (MAX_RUNTIME_SECONDS - 60)
    NoWorker

ASSUME BoundsAssumption ==
    /\ MaxRows \in Nat /\ MaxTime \in Nat /\ MaxPub \in Nat /\ MaxFaults \in Nat
    /\ PageSize \in Nat \ {0}
    /\ Grace \in Nat /\ Runtime \in Nat

ASSUME GraceAssumption == Runtime < Grace

ASSUME WorkerAssumption == NoWorker \notin Worker

VARIABLES
    now,        \* hours
    dagster,    \* dagster[w]: what the Dagster instance stores about the run
    \* ---- committed rows of collection_runs
    status, owner, heartbeat,
    nextId,     \* the id sequence; an id is spent even if its transaction rolls back
    \* ---- the worker's process, session and open transaction
    pc,         \* "idle": between sessions, "open": in a session, "gone": no process
    started,    \* when the session was opened
    revoked,    \* workers with OwnerLease.revoked, shared by the sessions of one op
    run,        \* the session's CollectionRun (0: none)
    tracked,    \* workers whose row is in session.info["collector_runs"]
    fenced,     \* workers whose row is in session.info["collector_fenced"]
    isNew,      \* workers whose row is in session.info["collector_new_ids"]
    mem,        \* the ORM object's status ("unknown": expired by a rollback)
    lock,       \* the row lock: taken in the transaction ("outer") or in its savepoint ("inner")
    savepoint,  \* workers with an open savepoint
    beat,       \* heartbeat_at written by the open transaction
    dirty,      \* data written by the open transaction, "inner" if only in the savepoint
    \* ---- the recovery sensor
    position,   \* ScanPosition
    spc, cursor, page, seen, verdict,
    faults,
    \* ---- history
    published,  \* data commits under each run
    reclaimed   \* rows that recovery has taken back

dbVars      == <<status, owner, heartbeat, nextId>>
sessionVars == <<pc, started, revoked, run, tracked, fenced, isNew, mem, lock,
                 savepoint, beat, dirty>>
scanVars    == <<position, spc, cursor, page, seen, verdict, faults>>
histVars    == <<published, reclaimed>>
vars == <<now, dagster, dbVars, sessionVars, scanVars, histVars>>

Row == 1..MaxRows
Time == 0..MaxTime
Terminal == {"success", "failed"}

\* "purged" and "lost" both read as None from get_run_by_id: the record of a run
\* that had finished, or of one that may still be executing.
DagsterState == {"running", "finished", "purged", "lost"}
Missing(w) == dagster[w] \in {"purged", "lost"}

EnvTypeOK ==
    /\ now \in Time
    /\ dagster \in [Worker -> DagsterState]

DbTypeOK ==
    /\ status \in [Row -> {"absent", "running"} \cup Terminal]
    /\ owner \in [Row -> Worker \cup {NoWorker}]
    /\ heartbeat \in [Row -> Time]
    /\ nextId \in 1..(MaxRows + 1)

SessionTypeOK ==
    /\ pc \in [Worker -> {"idle", "open", "gone"}]
    /\ started \in [Worker -> Time]
    /\ revoked \subseteq Worker
    /\ run \in [Worker -> 0..MaxRows]
    /\ tracked \subseteq Worker
    /\ fenced \subseteq Worker
    /\ isNew \subseteq Worker
    /\ mem \in [Worker -> {"running", "unknown"} \cup Terminal]
    /\ lock \in [Worker -> {"none", "inner", "outer"}]
    /\ savepoint \subseteq Worker
    /\ beat \in [Worker -> Time]
    /\ dirty \in [Worker -> {"none", "inner", "outer"}]

ScanTypeOK ==
    /\ position \in 0..MaxRows
    /\ spc \in [Scanner -> {"idle", "read", "row", "update"}]
    /\ cursor \in [Scanner -> 0..MaxRows]
    /\ page \in [Scanner -> SUBSET Row]
    /\ seen \in [Scanner -> [Row -> Time]]
    /\ verdict \in [Scanner -> {"none", "finished", "missing"}]
    /\ faults \in 0..MaxFaults

HistTypeOK ==
    /\ published \in [Row -> Nat]
    /\ reclaimed \in SUBSET Row

\* Types of the clock, the rows, the sessions, the scans and the history.
TypeOK == EnvTypeOK /\ DbTypeOK /\ SessionTypeOK /\ ScanTypeOK /\ HistTypeOK

Init ==
    /\ now = 0
    /\ dagster = [w \in Worker |-> "running"]
    /\ status = [r \in Row |-> "absent"]
    /\ owner = [r \in Row |-> NoWorker]
    /\ heartbeat = [r \in Row |-> 0]
    /\ nextId = 1
    /\ pc = [w \in Worker |-> "idle"]
    /\ started = [w \in Worker |-> 0]
    /\ revoked = {}
    /\ run = [w \in Worker |-> 0]
    /\ tracked = {}
    /\ fenced = {}
    /\ isNew = {}
    /\ mem = [w \in Worker |-> "unknown"]
    /\ lock = [w \in Worker |-> "none"]
    /\ savepoint = {}
    /\ beat = [w \in Worker |-> 0]
    /\ dirty = [w \in Worker |-> "none"]
    /\ position = 0
    /\ spc = [s \in Scanner |-> "idle"]
    /\ cursor = [s \in Scanner |-> 0]
    /\ page = [s \in Scanner |-> {}]
    /\ seen = [s \in Scanner |-> [r \in Row |-> 0]]
    /\ verdict = [s \in Scanner |-> "none"]
    /\ faults = 0
    /\ published = [r \in Row |-> 0]
    /\ reclaimed = {}

--------------------------------------------------------------------------------
(* The environment: time and the Dagster instance.                         *)

\* A session may outlive its asyncio.timeout: an event loop can be stuck.
Tick ==
    /\ now < MaxTime
    /\ now' = now + 1
    /\ UNCHANGED <<dagster, dbVars, sessionVars, scanVars, histVars>>

\* The run ends for Dagster: completed, failed, or failed by run monitoring while the
\* process is still alive; records are deleted before or after that.
DagsterEnds(w) ==
    /\ \/ /\ dagster[w] = "running"
          /\ \E d \in {"finished", "lost"} : dagster' = [dagster EXCEPT ![w] = d]
       \/ /\ dagster[w] = "finished"
          /\ dagster' = [dagster EXCEPT ![w] = "purged"]
    /\ UNCHANGED <<now, dbVars, sessionVars, scanVars, histVars>>

--------------------------------------------------------------------------------
(* The worker.                                                             *)

\* Another transaction holds the row lock of r.
LockedByOther(w, r) == \E v \in Worker \ {w} : run[v] = r /\ lock[v] # "none"

\* _fence: the row is re-read FOR UPDATE unless this transaction has done so already.
FenceReads(w) == w \in tracked /\ w \notin fenced

StillOwner(w) == status[run[w]] = "running" /\ owner[run[w]] = w

\* Mutant: only the in-process flag is looked at, the row is not re-read.
FenceTrustsFlag(w) == w \notin revoked

FencePasses(w) ==
    /\ w \notin revoked
    /\ FenceReads(w) => ~LockedByOther(w, run[w]) /\ StillOwner(w)

Stronger(level, held) == IF held = "outer" THEN "outer" ELSE level
Level(w) == IF w \in savepoint THEN "inner" ELSE "outer"

\* The session's own variables after its transaction is over, or its process.
ResetSession(w) ==
    /\ run' = [run EXCEPT ![w] = 0]
    /\ tracked' = tracked \ {w}
    /\ fenced' = fenced \ {w}
    /\ isNew' = isNew \ {w}
    /\ mem' = [mem EXCEPT ![w] = "unknown"]
    /\ lock' = [lock EXCEPT ![w] = "none"]
    /\ savepoint' = savepoint \ {w}
    /\ beat' = [beat EXCEPT ![w] = 0]
    /\ dirty' = [dirty EXCEPT ![w] = "none"]

\* _run_with_session: ensure_collection_owner_active, then a new session.
OpenSession(w) ==
    /\ pc[w] = "idle"
    /\ w \notin revoked /\ dagster[w] = "running"
    /\ pc' = [pc EXCEPT ![w] = "open"]
    /\ started' = [started EXCEPT ![w] = now]
    /\ ResetSession(w)
    /\ UNCHANGED <<now, dagster, dbVars, revoked, scanVars, histVars>>

\* ensure_collection_owner_active refuses: the lease is revoked, or is revoked now.
RefuseSession(w) ==
    /\ pc[w] = "idle"
    /\ w \in revoked \/ dagster[w] # "running"
    /\ revoked' = revoked \cup {w}
    /\ pc' = [pc EXCEPT ![w] = "gone"]
    /\ UNCHANGED <<now, dagster, dbVars, started, run, tracked, fenced, isNew, mem, lock,
                   savepoint, beat, dirty, scanVars, histVars>>

\* session.add(run) and flush: _before_flush stamps the owner, the INSERT takes an id,
\* _capture_runs tracks the row and counts it as fenced.
InsertRun(w) ==
    /\ pc[w] = "open" /\ run[w] = 0 /\ w \notin savepoint
    /\ w \notin revoked
    /\ nextId <= MaxRows
    /\ run' = [run EXCEPT ![w] = nextId]
    /\ nextId' = nextId + 1
    /\ tracked' = tracked \cup {w}
    /\ fenced' = fenced \cup {w}
    /\ isNew' = isNew \cup {w}
    /\ mem' = [mem EXCEPT ![w] = "running"]
    /\ lock' = [lock EXCEPT ![w] = "outer"]
    /\ beat' = [beat EXCEPT ![w] = now]
    /\ UNCHANGED <<now, dagster, status, owner, heartbeat, pc, started, revoked, savepoint,
                   dirty, scanVars, histVars>>

\* A bulk statement of the collector: it goes round the ORM flush and its fence.
BulkWrite(w) ==
    /\ pc[w] = "open" /\ run[w] # 0
    /\ published[run[w]] < MaxPub
    /\ dirty' = [dirty EXCEPT ![w] = Stronger(Level(w), @)]
    /\ UNCHANGED <<now, dagster, dbVars, pc, started, revoked, run, tracked, fenced, isNew,
                   mem, lock, savepoint, beat, scanVars, histVars>>

\* An ORM flush inside the transaction: _before_flush runs the fence.
Flush(w) ==
    /\ pc[w] = "open"
    /\ FenceReads(w) /\ FencePasses(w)
    /\ fenced' = fenced \cup {w}
    /\ lock' = [lock EXCEPT ![w] = Stronger(Level(w), @)]
    /\ beat' = [beat EXCEPT ![w] = now]
    /\ UNCHANGED <<now, dagster, dbVars, pc, started, revoked, run, tracked, isNew, mem,
                   savepoint, dirty, scanVars, histVars>>

\* The fence of a flush or a commit finds the row closed or owned by someone else.
FenceRejects(w) ==
    /\ pc[w] = "open"
    /\ w \notin revoked /\ FenceReads(w)
    /\ ~LockedByOther(w, run[w]) /\ ~StillOwner(w)
    /\ revoked' = revoked \cup {w}
    /\ UNCHANGED <<now, dagster, dbVars, pc, started, run, tracked, fenced, isNew, mem, lock,
                   savepoint, beat, dirty, scanVars, histVars>>

\* The service closes the run: an assignment to the ORM object, written by the next commit.
SetStatus(w) ==
    /\ pc[w] = "open" /\ run[w] # 0 /\ w \in tracked /\ w \notin savepoint
    /\ mem[w] \in {"running", "unknown"}
    /\ \E s \in Terminal : mem' = [mem EXCEPT ![w] = s]
    /\ UNCHANGED <<now, dagster, dbVars, pc, started, revoked, run, tracked, fenced, isNew,
                   lock, savepoint, beat, dirty, scanVars, histVars>>

\* begin_nested.  The services commit the new row first (_collect_unlocked commits early
\* in an owned session) and never open a savepoint once the run's status is set.
BeginNested(w) ==
    /\ pc[w] = "open" /\ w \notin savepoint
    /\ run[w] # 0 /\ w \notin isNew /\ mem[w] = "running"
    /\ savepoint' = savepoint \cup {w}
    /\ UNCHANGED <<now, dagster, dbVars, pc, started, revoked, run, tracked, fenced, isNew,
                   mem, lock, beat, dirty, scanVars, histVars>>

\* _after_commit: runs whose ORM status is terminal leave the fence.
AfterCommit(w) ==
    /\ tracked' = IF mem[w] \in Terminal THEN tracked \ {w} ELSE tracked
    /\ fenced' = fenced \ {w}
    /\ isNew' = isNew \ {w}

\* RELEASE SAVEPOINT: before_commit and after_commit fire for it too; locks and writes of
\* the savepoint pass to the transaction.
ReleaseNested(w) ==
    /\ pc[w] = "open" /\ w \in savepoint
    /\ FencePasses(w)
    /\ savepoint' = savepoint \ {w}
    /\ lock' = [lock EXCEPT ![w] = IF @ # "none" \/ FenceReads(w) THEN "outer" ELSE "none"]
    /\ beat' = [beat EXCEPT ![w] = IF FenceReads(w) THEN now ELSE @]
    /\ dirty' = [dirty EXCEPT ![w] = IF @ = "none" THEN "none" ELSE "outer"]
    /\ AfterCommit(w)
    /\ UNCHANGED <<now, dagster, dbVars, pc, started, revoked, run, mem, scanVars, histVars>>

\* Mutant: a rollback to a savepoint leaves the row counted as fenced.
AfterRollbackKeepsFence(w) ==
    /\ tracked' = IF w \in isNew THEN tracked \ {w} ELSE tracked
    /\ isNew' = isNew \ {w}
    /\ UNCHANGED fenced

\* _after_rollback: forget the rows this transaction inserted and every fence.
AfterRollback(w) ==
    /\ tracked' = IF w \in isNew THEN tracked \ {w} ELSE tracked
    /\ fenced' = fenced \ {w}
    /\ isNew' = isNew \ {w}

\* ROLLBACK TO SAVEPOINT gives back the locks taken since; after_rollback fires for it too.
RollbackNested(w) ==
    /\ pc[w] = "open" /\ w \in savepoint
    /\ savepoint' = savepoint \ {w}
    /\ lock' = [lock EXCEPT ![w] = IF @ = "inner" THEN "none" ELSE @]
    /\ dirty' = [dirty EXCEPT ![w] = IF @ = "inner" THEN "none" ELSE @]
    /\ AfterRollback(w)
    /\ UNCHANGED <<now, dagster, dbVars, pc, started, revoked, run, mem, beat, scanVars,
                   histVars>>

\* session.commit: before_commit fences, the flush writes the row, after_commit cleans up.
Commit(w) ==
    /\ pc[w] = "open" /\ w \notin savepoint
    /\ FencePasses(w)
    /\ run[w] # 0
    /\ LET r == run[w]
       IN /\ status' = [status EXCEPT ![r] = IF w \in isNew \/ mem[w] \in Terminal
                                              THEN mem[w] ELSE @]
          /\ owner' = [owner EXCEPT ![r] = IF w \in isNew THEN w ELSE @]
          /\ heartbeat' = [heartbeat EXCEPT ![r] = IF FenceReads(w) THEN now
                                                   ELSE IF w \in fenced THEN beat[w] ELSE @]
          /\ published' = [published EXCEPT ![r] = IF dirty[w] = "none" THEN @ ELSE @ + 1]
    /\ lock' = [lock EXCEPT ![w] = "none"]
    /\ dirty' = [dirty EXCEPT ![w] = "none"]
    /\ beat' = [beat EXCEPT ![w] = 0]
    /\ AfterCommit(w)
    /\ UNCHANGED <<now, dagster, nextId, pc, started, revoked, run, mem, savepoint,
                   scanVars, reclaimed>>

\* session.rollback: a statement failed, a lock or statement timeout, a lost lease, or the
\* cancellation of the session.  Persistent objects expire, an uncommitted row vanishes.
Rollback(w) ==
    /\ pc[w] = "open"
    /\ lock' = [lock EXCEPT ![w] = "none"]
    /\ savepoint' = savepoint \ {w}
    /\ dirty' = [dirty EXCEPT ![w] = "none"]
    /\ run' = [run EXCEPT ![w] = IF w \in isNew THEN 0 ELSE @]
    /\ mem' = [mem EXCEPT ![w] = "unknown"]
    /\ beat' = [beat EXCEPT ![w] = 0]
    /\ AfterRollback(w)
    /\ UNCHANGED <<now, dagster, dbVars, pc, started, revoked, scanVars, histVars>>

\* The session ends with nothing uncommitted; the op keeps its lease and may open another.
CloseSession(w) ==
    /\ pc[w] = "open"
    /\ lock[w] = "none" /\ w \notin savepoint /\ dirty[w] = "none"
    /\ pc' = [pc EXCEPT ![w] = "idle"]
    /\ started' = [started EXCEPT ![w] = 0]
    /\ ResetSession(w)
    /\ UNCHANGED <<now, dagster, dbVars, revoked, scanVars, histVars>>

\* The process dies; PostgreSQL rolls its transaction back.
Crash(w) ==
    /\ pc[w] # "gone"
    /\ pc' = [pc EXCEPT ![w] = "gone"]
    /\ started' = [started EXCEPT ![w] = 0]
    /\ ResetSession(w)
    /\ UNCHANGED <<now, dagster, dbVars, revoked, scanVars, histVars>>

\* The next op of the same Dagster run: a new process, hence a new lease.
NextOp(w) ==
    /\ pc[w] = "gone"
    /\ pc' = [pc EXCEPT ![w] = "idle"]
    /\ revoked' = revoked \ {w}
    /\ UNCHANGED <<now, dagster, dbVars, started, run, tracked, fenced, isNew, mem, lock,
                   savepoint, beat, dirty, scanVars, histVars>>

--------------------------------------------------------------------------------
(* The recovery sensor: reconcile_collection_runs.                         *)

\* The tick is over and its local variables with it.
EndTick(s) ==
    /\ spc' = [spc EXCEPT ![s] = "idle"]
    /\ cursor' = [cursor EXCEPT ![s] = 0]
    /\ page' = [page EXCEPT ![s] = {}]
    /\ seen' = [seen EXCEPT ![s] = [r \in Row |-> 0]]
    /\ verdict' = [verdict EXCEPT ![s] = "none"]

ScanStart(s) ==
    /\ spc[s] = "idle"
    /\ spc' = [spc EXCEPT ![s] = "read"]
    /\ cursor' = [cursor EXCEPT ![s] = position]
    /\ UNCHANGED <<now, dagster, dbVars, sessionVars, position, page, seen, verdict, faults,
                   histVars>>

\* Mutant: the scan starts over after every tick that runs out of budget.
OutOfBudgetForgets(s) ==
    /\ spc[s] \in {"read", "row"}
    /\ position' = 0
    /\ EndTick(s)
    /\ UNCHANGED <<now, dagster, dbVars, sessionVars, faults, histVars>>

\* Not enough budget left for a step: keep the last finished row id.
OutOfBudget(s) ==
    /\ spc[s] \in {"read", "row"}
    /\ position' = cursor[s]
    /\ EndTick(s)
    /\ UNCHANGED <<now, dagster, dbVars, sessionVars, faults, histVars>>

\* The running rows after the cursor, in id order.
Waiting(s) == {r \in Row : r > cursor[s] /\ status[r] = "running" /\ owner[r] # NoWorker}
FirstPage(S) == {r \in S : Cardinality({q \in S : q <= r}) <= PageSize}

ReadPage(s) ==
    /\ spc[s] = "read"
    /\ IF Waiting(s) = {}
       THEN position' = 0 /\ EndTick(s)
       ELSE /\ page' = [page EXCEPT ![s] = FirstPage(Waiting(s))]
            /\ seen' = [seen EXCEPT ![s] = [r \in Row |-> IF r \in FirstPage(Waiting(s))
                                                         THEN heartbeat[r] ELSE 0]]
            /\ spc' = [spc EXCEPT ![s] = "row"]
            /\ UNCHANGED <<position, cursor, verdict>>
    /\ UNCHANGED <<now, dagster, dbVars, sessionVars, faults, histVars>>

IsHead(s, r) == r \in page[s] /\ \A q \in page[s] : r <= q

\* Row r is done; after the page's last row the position is saved and the next page read.
RowDone(s, r) ==
    /\ cursor' = [cursor EXCEPT ![s] = r]
    /\ page' = [page EXCEPT ![s] = @ \ {r}]
    /\ seen' = [seen EXCEPT ![s][r] = 0]
    /\ verdict' = [verdict EXCEPT ![s] = "none"]
    /\ IF page[s] = {r}
       THEN position' = r /\ spc' = [spc EXCEPT ![s] = "read"]
       ELSE spc' = [spc EXCEPT ![s] = "row"] /\ UNCHANGED position

\* Mutant: a missing record counts as a dead run at once.
ExpiredAtOnce(s, r) == seen[s][r] <= now

\* The heartbeat the page was read with is older than the grace period.
Expired(s, r) == seen[s][r] <= now - Grace

\* get_run_by_id and the decision on row r.
Judge(s, r) ==
    /\ spc[s] = "row" /\ IsHead(s, r)
    /\ LET w == owner[r]
           missingExpired == Missing(w) /\ Expired(s, r)
       IN IF missingExpired \/ dagster[w] = "finished"
          THEN /\ spc' = [spc EXCEPT ![s] = "update"]
               /\ verdict' = [verdict EXCEPT ![s] =
                                 IF missingExpired THEN "missing" ELSE "finished"]
               /\ UNCHANGED <<cursor, page, seen, position>>
          ELSE RowDone(s, r)
    /\ UNCHANGED <<now, dagster, dbVars, sessionVars, faults, histVars>>

\* Mutant: the UPDATE does not compare the heartbeat again.
ReclaimsAnyBeat(s, r) == status[r] = "running"

\* The conditional UPDATE waits for the row lock, then re-evaluates its WHERE clause.
Reclaims(s, r) ==
    /\ status[r] = "running"
    /\ verdict[s] = "missing" => heartbeat[r] = seen[s][r]

Update(s, r) ==
    /\ spc[s] = "update" /\ IsHead(s, r)
    /\ \A w \in Worker : run[w] = r => lock[w] = "none"
    /\ IF Reclaims(s, r)
       THEN /\ status' = [status EXCEPT ![r] = "failed"]
            /\ reclaimed' = reclaimed \cup {r}
       ELSE UNCHANGED <<status, reclaimed>>
    /\ RowDone(s, r)
    /\ UNCHANGED <<now, dagster, owner, heartbeat, nextId, sessionVars, faults, published>>

\* The metadata call fails: the tick stops before this row.
MetadataFails(s) ==
    /\ faults < MaxFaults
    /\ spc[s] = "row"
    /\ position' = cursor[s]
    /\ EndTick(s)
    /\ faults' = faults + 1
    /\ UNCHANGED <<now, dagster, dbVars, sessionVars, histVars>>

\* A database error, a lock timeout or the deadline cuts the tick off: nothing is saved.
ScanAborts(s) ==
    /\ faults < MaxFaults
    /\ spc[s] # "idle"
    /\ EndTick(s)
    /\ faults' = faults + 1
    /\ UNCHANGED <<now, dagster, dbVars, sessionVars, position, histVars>>

\* The code server restarts: every tick ends and ScanPosition starts from 0.
ServerRestart ==
    /\ faults < MaxFaults
    /\ position' = 0
    /\ spc' = [s \in Scanner |-> "idle"]
    /\ cursor' = [s \in Scanner |-> 0]
    /\ page' = [s \in Scanner |-> {}]
    /\ seen' = [s \in Scanner |-> [r \in Row |-> 0]]
    /\ verdict' = [s \in Scanner |-> "none"]
    /\ faults' = faults + 1
    /\ UNCHANGED <<now, dagster, dbVars, sessionVars, histVars>>

--------------------------------------------------------------------------------
WorkerStep(w) ==
    \/ OpenSession(w) \/ RefuseSession(w) \/ CloseSession(w) \/ Crash(w) \/ NextOp(w)
    \/ InsertRun(w) \/ BulkWrite(w) \/ Flush(w) \/ FenceRejects(w) \/ SetStatus(w)
    \/ BeginNested(w) \/ ReleaseNested(w) \/ RollbackNested(w)
    \/ Commit(w) \/ Rollback(w)

ScanStep(s) ==
    \/ ScanStart(s) \/ OutOfBudget(s) \/ ReadPage(s) \/ MetadataFails(s) \/ ScanAborts(s)
    \/ \E r \in Row : Judge(s, r) \/ Update(s, r)

Next ==
    \/ Tick
    \/ ServerRestart
    \/ \E w \in Worker : DagsterEnds(w) \/ WorkerStep(w)
    \/ \E s \in Scanner : ScanStep(s)

Spec == Init /\ [][Next]_vars

\* Sensors are evaluated again and again, a tick's steps are sometimes within budget, and a
\* transaction does not stay open for ever (statement timeout, asyncio.timeout, process death).
Fairness ==
    /\ \A s \in Scanner :
          /\ WF_vars(ScanStart(s))
          /\ SF_vars(ReadPage(s))
          /\ SF_vars(\E r \in Row : Judge(s, r))
          /\ SF_vars(\E r \in Row : Update(s, r))
    /\ \A w \in Worker : WF_vars(Rollback(w) \/ Crash(w))

FairSpec == Spec /\ Fairness

--------------------------------------------------------------------------------
(* The inductive invariant behind the fence.                               *)

\* Ids not handed out yet have no row; a reclaimed row was closed as failed.
UnusedIds == \A r \in Row : r >= nextId => status[r] = "absent"
ReclaimedAreFailed == \A r \in reclaimed : status[r] = "failed"

\* Only an open session has a run, and no two sessions have the same one.
OneRunEach ==
    \A w \in Worker : run[w] # 0 =>
        /\ run[w] < nextId /\ pc[w] = "open"
        /\ \A v \in Worker \ {w} : run[v] # run[w]

\* An uncommitted row is fenced by its own insertion.
NewRows ==
    \A w \in Worker : w \in isNew =>
        /\ run[w] # 0 /\ w \in fenced /\ w \in tracked /\ lock[w] = "outer"
        /\ status[run[w]] = "absent" /\ mem[w] # "unknown"

CommittedRows ==
    \A w \in Worker : run[w] # 0 /\ w \notin isNew =>
        owner[run[w]] = w /\ status[run[w]] # "absent"

FencedRows ==
    \A w \in Worker : (w \in tracked => run[w] # 0) /\ (w \in fenced => w \in tracked /\ lock[w] # "none")

\* Nobody closes a row that is locked.
LockedRows ==
    \A w \in Worker : lock[w] # "none" =>
        /\ run[w] # 0
        /\ w \notin isNew => status[run[w]] = "running"
        /\ lock[w] = "inner" => w \in savepoint

InSavepoint ==
    \A w \in Worker : w \in savepoint =>
        run[w] # 0 /\ mem[w] = "running" /\ w \in tracked /\ w \notin isNew

\* A session stops fencing its row only after it has closed the row itself.
ClosedByOwner ==
    \A w \in Worker : run[w] # 0 /\ w \notin tracked =>
        /\ status[run[w]] \in Terminal /\ run[w] \notin reclaimed
        /\ mem[w] \in {"unknown", status[run[w]]}

LeaseInv ==
    /\ UnusedIds /\ ReclaimedAreFailed /\ OneRunEach /\ NewRows /\ CommittedRows
    /\ FencedRows /\ LockedRows /\ InSavepoint /\ ClosedByOwner

\* What a tick has in hand: rows that exist and have an owner, and for the row it is about
\* to update, the evidence its verdict was based on.
PagedRows ==
    \A s \in Scanner : \A r \in page[s] : status[r] # "absent" /\ owner[r] \in Worker

JudgedRows ==
    \A s \in Scanner : \A r \in Row : spc[s] = "update" /\ IsHead(s, r) =>
        \/ verdict[s] = "finished" /\ dagster[owner[r]] \in {"finished", "purged"}
        \/ verdict[s] = "missing" /\ Missing(owner[r]) /\ Expired(s, r)

ScanInv == PagedRows /\ JudgedRows

--------------------------------------------------------------------------------
(* Properties.                                                             *)

\* What a worker believes about its fence is true in the database: a row counted as fenced
\* is one this transaction has inserted, or holds locked and running under its own name,
\* so that no recovery can close it before the transaction ends (_fence, _after_rollback
\* and the savepoint events together).
FenceIsHeld ==
    \A w \in Worker : pc[w] = "open" /\ w \in fenced =>
        \/ w \in isNew /\ status[run[w]] = "absent"
        \/ lock[w] # "none" /\ StillOwner(w)

\* Recovery closes a run only if Dagster had ended it, or if its record is missing and the
\* row has had no heartbeat for the whole grace period at the moment of the UPDATE.
ReclaimJustified ==
    [][\A r \in Row : r \in reclaimed' \ reclaimed =>
          \/ dagster[owner[r]] \in {"finished", "purged"}
          \/ dagster[owner[r]] = "lost" /\ heartbeat[r] <= now - Grace]_vars

\* The grace period outlives every session that honours its timeout: a run whose record was
\* lost while it executes is never taken away from a session that is within its own timeout.
LiveSessionKept ==
    [][\A r \in Row : r \in reclaimed' \ reclaimed /\ dagster[owner[r]] = "lost" =>
          ~ \E w \in Worker :
                pc[w] = "open" /\ run[w] = r /\ now - started[w] <= Runtime]_vars

\* A row left running by a Dagster run that has finished is closed in the end, whatever
\* live rows come before it and wherever budgets and restarts cut the scans.
EventuallyClosed ==
    \A r \in Row :
        (status[r] = "running" /\ dagster[owner[r]] = "finished")
            ~> (status[r] # "running" \/ dagster[owner[r]] = "purged")

\* The ledger as its readers see it.
ledgerState == [r \in Row |-> IF r \in reclaimed THEN "reclaimed" ELSE status[r]]

Ledger == INSTANCE CollectionLedger WITH state <- ledgerState

\* The fenced sessions and the sensor implement the ledger's promise: one life per run, and
\* nothing of a reclaimed run changes again.
ImplementsLedger == Ledger!LedgerSpec
================================================================================
