# Formal model of the kor-travel-transport backend

This directory holds TLA+ modules that model the parts of the backend where processes,
transactions, caches and failures interleave, the TLC configurations that model-check small
instances of them, and TLAPS proofs of the main safety properties for every size of the
instance. `PROJECT.json` lists the runs, their mutants, the lines every definition stands for,
the hazards and the theorems.

## 1. The system

The backend collects Korean transport data (airport parking, highway traffic and incidents, fuel
prices, rail, ferry, bus, flights) from public providers into PostgreSQL and serves it through
FastAPI. Collections are started by Dagster schedules and sensors, by an in-process scheduler, or
by hand. Several processes work on the same tables; the database's row locks, advisory locks and
conditional statements are the only coordination between them.

| Component | State | Operations | Hard behaviour | What makes it correct |
|---|---|---|---|---|
| Ownership fence and recovery (`dagster/recovery.py`, `definitions.py`) | `collection_runs`: status, owner, heartbeat; per session: tracked, fenced and new rows; `ScanPosition` | open session, insert run, flush, commit, savepoint, rollback; scan pages, judge, reclaim | a worker outliving its Dagster run, savepoints that give locks back, lost records, ticks cut by a budget, restarts | a reclaimed run never changes again; recovery only on evidence; every dead run closed |
| Fuel collection (`services/transport_collection.py`) | source row (started, success, due, error), latest prices, stations; the provider's checkpoint file | peek, claim, collect, restore claim, store with one retry, record failure, acknowledge | several processes, lost commit answers, cancellation, crash at any point, cached ORM objects | no snapshot lost while its checkpoint is valid, none overwritten by an older one, no false failure, provider budget kept, no checkpoint that blocks the source for ever |
| Fuel statistics (`services/fuel_statistics.py`) | public pointer, points per generation, daily rows, viewport cache | prepare, switch, discard, prune, aggregate | late publishers, prices that change during preparation, pruning under readers | the pointer stands on a complete generation and never goes back |
| Parking history cache (`services/parking_history_cache.py`, history route of `main.py`) | snapshot, fingerprint, prepared answers, delivery slots | poll, load, recheck, publish; acquire, render, send, cancel | awaits between read and use, lagging statistics counters, threads that cannot be cancelled | answers match their snapshot, usable means recently checked, slots bound memory |
| Airport parking and quota (`services/collection.py`) | quota row of KAC, runs, advisory lock | acquire lock, read ledger, skip, call parking and fees, retain deadline, record outcome | overlapping runs after a lost lock connection, ledger read before long waits, exceptions between calls and record | a deadline is neither extended nor cleared by an older run, is respected, and is recorded when met |
| Parking current (`_collect_map_parking`, `parking_exports.py`, `reference_exports.py`) | head per source, current rows, snapshots | validate, promote, replace rows, mark failure | sizes read before the network, late values, older runs finishing last | current rows are the head's members; heads only move forward |
| Highway (`transport_collection.py`, `traffic_current.py`) | state row per source, observations, five-minute buckets, current traffic, incidents | claim, fetch with a second look, store per source, record error | runs that outlive their reservation, one source failing after the other was stored | what is derived agrees with what was stored; newer answers win |
| Rest areas (`rest_area_collection.py`, `service_exports.py`) | reference rows with the time they were last seen, state row | start, fetch, store; page | no lock between runs, pages in transactions of their own | a pass has every lasting row once; no empty answer |
| Reference lists (`rail_maritime_collection.py`, `bus_collection.py`, `reference_exports.py`) | rail, port and bus rows, their heads | begin, fetch, store, promote | workers that outlive their run, loaded objects, two lists in one transaction | heads only move forward, bus heads together |
| Snapshot exports (`export_current.py`, `export_references.py`, `export_price_history.py`) | frozen snapshots with expiry; cursors at the clients | reuse, freeze, clean up, page, refuse | insert races, promotions and clean-ups between pages, epochs | a pass shows one content; a cursor lives as long as promised |
| Place locations (`place_locations.py`, `kakao_place_locations.py`, collectors, manual edits) | position of a row with its source, receipts | reserve, search, store; upsert; open and save the form | late answers against edits and renames, budgets counted from rows | manual edits stay; positions belong to names; budgets hold |
| Station mapping (`rail_station_mapping.py`, `kric_collection.py`) | registry with revision, links | batch, preview, save, apply | two administrators and a batch | no lost edit, no station with two codes |
| Timetables (`kric_collection.py`, ferry and bus routes of `main.py`) | stored timetables, per-worker caches, limits | request, call, collect | several processes with their own limits, refusals, batches that die | newer rows win; providers are not called too soon |
| Response caches (`flight_status.py`, `holidays.py`, `highway_map_routes.py`, statistics route, `analytics_cache.py`) | entries with expiry or watermark, locks, counters | look up, call, store, time out | slow answers out of order, lock objects that come and go, late commits | answers are as fresh as they say, one calculation per key |
| VadaHub files (`vadahub_collection.py`) | publication per dataset, archived files | skip, download, reuse, publish | files that fail after the download | a refresh brings a new file |
| Archive (`parking_statistics_archive.py`) | permanent ten-minute buckets | build, verify, put off | late rows behind the cutoff | nothing archived wrongly or lost |
| Backups (`backup_restore.py`) | files in a directory, the database | dump, upload, make room, rename, prune, restore | death between two file operations | the limit holds; the state before a restore is kept |
| Address refresh, fees and parsers, frontend | see `PROJECT.json` | | | |

Components call each other through the database: the fuel collection runs in an owned session of
the fence; after its store it publishes the fuel statistics in a savepoint of the same session
(which is why the fence has to survive savepoints); the parking collector writes the table that
the history cache polls, and the heads that the export routes page through.

## 2. Modules

| Module | Models |
|---|---|
| `CollectionLedger` | abstract specification: the life of a run as the readers of the ledger may rely on it |
| `CollectionLease` | owned sessions, PostgreSQL row locks and savepoints, Dagster records, recovery ticks |
| `MCCollectionLease` | the start state of the liveness run |
| `CollectionLeaseProofs` | proofs about `CollectionLease`, including that it implements `CollectionLedger` |
| `FuelCollection`, `MCFuelCollection`, `FuelCollectionProofs` | the fuel collection, its symmetry set, its proofs |
| `FuelStatistics`, `MCFuelStatistics`, `FuelStatisticsProofs` | the publication of statistics, its symmetry set, its proofs |
| `ParkingHistoryCache`, `ParkingHistoryCacheProofs` | the refresh task and the history route, its proofs |
| `AirportQuota`, `AirportQuotaProofs` | the airport collector's run and its quota ledger, its proofs |
| `ParkingCurrent`, `MCParkingCurrent`, `ParkingCurrentProofs` | what an airport run stores with the map tables; its payloads and symmetry set; its proofs |
| `HighwayCollection` | highway runs, their two stores and the export of active incidents |
| `RestArea` | rest-area runs and the live exports that page by row id |
| `ReferenceCollection`, `MCReferenceCollection` | rail, port and bus lists with their heads; the rail job alone |
| `SnapshotExport` | frozen exports of traffic and reference sets |
| `PriceHistory` | the paged price history of one station |
| `PlaceLocation` | everyone who writes a position, and the search budgets |
| `RailMapping` | station codes, registry, administrators' pages |
| `KricTimetable` | the 48-hour timetable batch |
| `Timetables` | stored bus and ferry timetables (constant `Kind`) |
| `VadaHub` | the weekly ferry reference files |
| `OnDemandCache` | flight and holiday caches (constant `Kind`) |
| `RoadTraffic` | the selected-road traffic cache of one worker |
| `StatisticsCache` | the traffic statistics cache |
| `AnalyticsCache` | the parking analytics cache against the collector |
| `ParkingArchive` | the permanent parking statistics |
| `BackupRestore` | backups and restore |
| `MCServices` | sixteen modules in twenty instances, one at a time (see `services` below) |
| `ServiceProofs` | proofs about all sixteen modules of the services, each for any constants within its named bounds |
| `MCServicesProofs` | the same theorems stated of the behaviours of `MCServices` |

### CollectionLease

`status`, `owner`, `heartbeat` are the committed columns; everything else a worker has written is
in its session variables until `Commit`. `tracked`, `fenced` and `isNew` are the three entries of
`session.info`; `mem` is the status attribute of the ORM object, `lock` says whether the row lock
was taken in the transaction or in its savepoint. `InsertRun`, `Flush`, `Commit`, `Rollback`,
`BeginNested`, `ReleaseNested` and `RollbackNested` contain the SQLAlchemy events that the code
registers (`_before_flush`, `_capture_runs`, `_before_commit`, `_after_commit`,
`_after_rollback`), which also fire for savepoints. `BulkWrite` is a statement that bypasses the
flush. The sensor is `ScanStart`, `ReadPage`, `Judge` (metadata call and decision) and `Update`
(the conditional UPDATE, which waits for the row lock), with `OutOfBudget`, `MetadataFails`,
`ScanAborts` and `ServerRestart` for the ways a tick ends early. Scanners may overlap, because a
tick that was cut off leaves its thread behind. A `lost` record is one that disappeared while
the run may be executing; `purged` is one deleted after the run had ended.

### FuelCollection

`row` is the source's row; times are clock values and 0 is NULL. The ORM object a run has
loaded is `cache`; `Flushed` writes only attributes that differ from the loaded values, which
is how SQLAlchemy behaves, and `expire_on_commit=False` is why the object survives the long browser
collection. `Peek`/`Claim`/`ClaimStorage`/`Skip` are the claim transaction, `CollectOnce` to
`FetchFails` the provider (the `opinet` package is not in the repository and is modelled from how
it is called), `Restore` is `restore_unused_fuel_claim`, `Store...` and `RecordFailure` the store
loop with its single retry, `Acknowledge` and `Abort` the rest of the run. `StoreAnswerLost` is a
commit that is durable although the client sees an error. `Outside` is a second writer of the
checkpoint file that has no claim here (the package's own command line, another host).

`ckpt` is the completed snapshot in the file and `begun` the time its collection started. The file is
`Valid` for `Life` after that (12 hours by default, `docs/reports/2026-10-24-opinet-resume-review.md`): until
then an unfinished collection is gone on with and a completed one handed out again; afterwards a writer
begins a new collection over it. A snapshot that is not stored in that time is lost by design, so
`NoSnapshotLost` speaks of snapshots whose checkpoint is valid. `Unusable` are the snapshots without
regions, stations or a positive price. `_collect_fuel` refuses them before anything is written or
acknowledged (`RecordFailure`), so each run replays and refuses the same snapshot (`Replayed`) until it
expires; `CheckpointDrains` says that this ends there, in the next collection that is due.

### FuelStatistics

Generations are the stamps of stored snapshots, which only grow (`FuelCollection!NoRegression`).
What a publisher writes appears at its commit; `built` remembers which snapshot the prices it read
really came from. `Fail` is the rolled back savepoint, or the end of the process. Viewport readers
read the pointer and the points in two statements, as the code does.

### ParkingHistoryCache

`source` counts the committed changes of the table: inserts that raise the largest id, and all
others (updates, deletes, rows committed below the largest id); `counters` is what
`pg_stat_user_tables` reports of them. `past` records what a fingerprint would have shown at each
time. A request's steps are separated at its awaits; the choice between snapshot and database also
stands for a request that goes back further than the snapshot. The two statements of a
fingerprint are one step, and so are the fingerprint and the check time stamped right after it:
the gap is the closing of a session, far below the 30 seconds of `MAX_UNCHECKED_SECONDS`.

### AirportQuota

`quota` and `latest` are committed rows; `pc` follows `_collect_unlocked` from one await to the
next. `Acquire`/`LoseLease`/`Leave` are the advisory lock on its own connection; `Check` reads the
ledger once, `Skip` is `_store_rate_limit_skip`, `Begin` the insert of the run (committed at once
for Dagster runs and with the map tables, `Early`, and then the adopted deadline with it). `FetchKac`,
`FetchIncheon`, `FetchFee` and `FetchIncheonFee` are the calls, reduced to whether a quota error was
met; `failq` and `errq` are the local list `failures` of `_collect_map_parking` and the run's
`errors`, which it joins in `Store`. `Finish`, `Fail` and `Crash` are the three ways a run ends.
`overlap`, `told` and `hits` are history variables for the properties. One flag stands for the two
Incheon settings; the refresh windows of the fees and the final status of the run are left out;
the session is one transaction from the store to the end, so its statements become visible at
`Finish`.

### ParkingCurrent

One run id order for all runs, as in the sequence of `collection_runs`. `Fetch` is one attempt at one
source; `res` keeps the accepted set (`members`) and the last answer whose rows can go to the history
although it was refused (`lots`). `Store` takes the locks of the heads, `Finish` is the commit with
everything `store_parking_current`, `promote_reference`, `_store_observations` and
`mark_reference_failure` wrote, `Fail` the rollback and the marks of the except branch. `Promotable`
holds the two checks that repeat, under the lock, what was compared with a stale size before. All
lots of an answer carry one observation time.

### The services

The sixteen modules below `ParkingCurrent` share no table, lock or cache entry with one another as
far as their properties go. What one of them needs of another is a free choice in it: the answer
of a provider, an administrator's edit, `Promote` in `SnapshotExport` for any collector,
`RestArea!Publish` for the publication that `FuelStatistics` models.

- **Transactions.** A transaction whose statements can be told apart by others is several actions
  (`SnapshotExport`: snapshot, cached row or insert, read, commit under REPEATABLE READ;
  `ReferenceCollection` and `HighwayCollection`: begin, network, store); one that takes its locks
  first and then only writes is one action. Failures roll back and run the except branch.
- **Objects a session keeps.** `expire_on_commit=False` keeps loaded rows as they were. `RestArea!stale`
  and `ReferenceCollection!copy` are such objects; what is assigned equal to the loaded value is not written.
- **Overlap.** Where no lock excludes it, two workers interleave freely. `ReferenceCollection` and
  `PlaceLocation` (constant `Overlap`) have workers that outlive a run of the Dagster run group; session
  advisory locks can be lost with their connection (`LockLost`, `LeaseLost`).
- **Caches of a process.** `RoadTraffic`, `StatisticsCache`, `OnDemandCache` and each worker of
  `Timetables` are one process; their steps are split at every await.
- **Ferry timetables.** The collector reads the stored rows once (`seen`, `start`), stamps an answer when it
  arrives (`CollectorCall`, `stamped`) and upserts it without looking at the row (`CollectorStore`). A request
  may store in between, so `RowForward` has an exception, `Overwritten`: what was stored while the collection
  ran may give way to an older answer of the same collection, but not to one from before its start. Three
  network failures in a row end the collection, any other error ends it at once.
- **What a page shows.** `RailMapping!Open` keeps the revision, which is of the whole manual list, and the links
  the page shows (`Visible`): those of codes in the catalogue to stations that are known. A save replaces the
  whole list.
- **Restore.** The database is replaced when `pg_restore` commits (`Restore`); the upload is removed in a step of
  its own (`Remove`), and the process may die in between.
- **Denied keys.** Kakao's 401 and 403 end a run and do not stand in the way of the next search; its budget of a
  month is not counted, but a run may find it spent at any time (`Deferred`).
- **Data.** An answer is a set of keys with small values; a revision, generation or digest is the value
  it is computed from, so two are equal exactly if their sources are. A backup is a size and the
  database version it holds. Distances, prices and payloads do not occur.

## 3. Runs

| Run | Shows | Bounds |
|---|---|---|
| `lease_fence` | `FenceIsHeld`, `ReclaimJustified`, `LiveSessionKept`, refinement of the ledger | 1 worker that may open many sessions, 2 rows, pages of 1, Runtime 1 < Grace 2, clock 0..2, 1 fault. Rows are never shared by two sessions, so a second worker adds no new interaction; the proofs cover any number |
| `lease_recovery` | `EventuallyClosed` | 2 workers, 2 rows, pages of 1, 1 fault; starts from a reachable later state |
| `fuel_store` | five properties of the store | 2 processes, clock to 5, 2 faults, Interval 3, Slack 1, Life 3: two full reservations fit, and a checkpoint can expire before it is stored. The snapshot completed at 2 is refused by the store |
| `fuel_resume` | `CheckpointDrains` | 2 processes, clock to 5, 1 fault, Interval 2, Slack 1, Life 2, in-process scheduler: the refused snapshot is replayed, expires, and is replaced while the clock still runs |
| `fuel_stale_error` | the finding below | as `fuel_store`, 3 faults |
| `fuel_statistics` | five properties of the publication | 5 stamps on 3 days, window of 1 day, 2 batches, 2 publishers, 1 reader |
| `history_cache` | three invariants and convergence | 2 requests, 1 slot, 1 prepared answer, 2 keys, 1 insert, 1 other change, clock 0..2 |
| `airport_quota` | three properties of the ledger | 2 processes, one of them owned by Dagster, both settings chosen freely, backoff 2, 4 runs, clock to 4: a deadline can be set, met by an overlapping older run, expire and be set again |
| `airport_quota_lost` | the second finding below | as `airport_quota` |
| `parking_current` | three properties of heads and rows | 2 processes, both sources, KAC lists 5 lots or 1 other (under a quarter), values up to one poll late, 3 runs, clock to 2: an old run can store, fail or be refused after a newer one |
| `services` | fourteen properties of the services, see below | two interchangeable workers; per instance in `MCServices` |
| `rail_stale_head` | the third finding below | rail job, 2 workers, 2 stations, 3 runs, clock to 2 |

Each property has a mutant: a variation of one mapped definition that a plausible mistake in the
code would make, under which the same run fails. The types of the lease, the fuel collection and the airport
collector are proved for every instance (section 4), so their runs do not repeat them.

Deadlock checking is off where the bounds let the system stop (no ids, time or faults left). Time,
inserts, faults and publications are capped by named constants.

### services

The variable `service` picks one of twenty instances and never changes; the other instances'
variables hold `Unused`. The state space is therefore the sum and not the product of the instances', about 1.8 million
states in all, and a property says for each service what has to hold there. Since the services share no state,
no behaviour of two of them together is left out by this. Workers, clients and administrators are
the same two model values in every instance, and no module orders or chooses among them, so the
symmetry is sound.

| Property | Says | Where |
|---|---|---|
| `ExportPassExact` | a client that pages to the end has one committed content, or the rows of its first page's window | traffic and bus exports, price history |
| `CursorsUsable` | a snapshot is not gone before its life is over; a 304 never confirms a page whose cursor is refused | the same |
| `RestAreasWhole` | a pass has every row that stayed in the set, none twice; an answer 200 is not empty | rest areas |
| `HighwayDerivedExact` | buckets agree with observations, current traffic is one whole answer, active incidents are the last answer's | highway |
| `HeadsForward` | a late writer does not put traffic, port and bus heads or timetables back, except for a ferry timetable stored while the collector runs, and then only to an answer of that collection | highway, references, timetables |
| `BusHeadsTogether` | both bus heads are of one run | references |
| `ManualKept` | manual positions and the manual links that a page shows are replaced only by an administrator who saw them | places, mapping |
| `RowsMatchSource` | positions belong to the current name; links follow the registry, one code per station; day codes follow the full holiday list; failing stations do not block the others | places, mapping, rail timetables |
| `BudgetsKept` | searches, calls and disk space stay within their limits at every step | places, road traffic, backups |
| `ProvidersSpared` | pauses, intervals and backoffs are kept, batches lie 48 hours apart, a weekly refresh downloads | road traffic, timetables, VadaHub |
| `CachesFresh` | a cached answer is complete, or as fresh as it says | analytics, flights, holidays, road traffic |
| `SingleFlight` | one calculation per key, no lock object left behind | statistics |
| `ArchiveExact` | archived buckets are whole, "no new rows" hides no gap, after a restore the backup made before it is there, also if the process dies then | archive, backups |

Bounds: the clock of an instance runs past its longest life (snapshot TTL, cache life, backoff,
48 hours) with room for a late answer after it; there are two or three runs, so that one can overtake
another; collections have two members, so that one can be missing, moved or replaced; pages have one row.
`StatisticsCache` has three requests and three lock objects (two waiters on a key that is dropped and made again) and
`KricTimetable` four station days of which two fail, under a limit of three.

`places` runs one worker through all four jobs and an administrator; `place overlap` runs two workers
through the VWorld job, where `LocationMatchesName` is not claimed (a search may outlive a rename of its row
by another worker's collection).

### Fairness

- `lease_recovery`: Dagster evaluates the sensor again and again (weak fairness of `ScanStart`);
  a tick's steps are sometimes within budget (strong fairness of reading a page, judging and
  updating: a tick may always be cut, but not for ever at the same step); transactions do not stay
  open for ever (statement timeout, `asyncio.timeout`, process death).
- `fuel_resume`: a run that has begun goes on, since its waits have timeouts; the schedulers keep
  starting runs.
- `history_cache`: `run()` loops for ever; PostgreSQL reports its counters in the end.

- `services` checks safety only; nothing there is said to happen eventually.

### Findings

`fuel_stale_error`: `_mark_fuel_success` clears `last_error` on an ORM object that was loaded by the
claim. With `expire_on_commit=False` and no `populate_existing` the assignment is no change if the
object was loaded without an error, so a failure recorded meanwhile by another run (for instance a
cancelled one) stays in the row next to the new success, and the fresh prices are reported as
stale until the next run. The comment behind the commit says that the success state has been
settled atomically with the data.

`airport_quota_lost`: with the map tables, a quota error of the KAC parking call stays in the local
list `failures` until the end of `_collect_map_parking`. If the store in between raises, the except branch
records the outcome without it: the row gets `next_due_at = None` and the next run calls KAC at
once, although `docs/airport-quota-deadline.md` has every run that met the quota fix the deadline, with
the flag on or off. `QuotaRecorded` is what does hold: a run that got past its store always leaves
the deadline.

`rail_stale_head`: `collect_rail_reference` loads the nationwide head before it downloads the station
file. Locking the row again (`with_for_update`, in the collector and in `promote_reference`) returns the object
that is already in the session, with its old values, because there is no `populate_existing`. Both guards,
size and `attempt_order`, therefore compare with the head from before the download, and a worker
that outlived its run replaces the set of a newer run, which `promote_reference` says cannot happen.
The port and bus jobs read the head early too, but roll their session back before they wait, which
expires it; `HeadsForward` holds for them. The Dagster run group admits one such job at a time, so a
worker has to outlive its run for this to happen.

## 4. Proofs

The proofs of a module hold for arbitrary constants that satisfy its named assumptions: `BoundsAssumption`,
`GraceAssumption` and `WorkerAssumption` of the lease, `FuelBounds` and `FuelProcs`, `StatisticsBounds`
and `StatisticsProcs`, `QuotaAssumption`, `ParkingAssumption`, `CacheBounds`. They say that limits are
numbers, that the names of nobody are no processes, that sets of lots are finite, and what the
settings guarantee (`Runtime < Grace`, `Slack < Interval`).

- `CollectionLeaseProofs`. `FenceIsHeld` is not inductive: it has to be known that new rows are
  locked and uncommitted (`NewRows`), that a locked row stays running (`LockedRows`), that inner
  locks exist only in a savepoint, that a savepoint is opened only over a committed running row
  (`InSavepoint`), and that a session stops fencing only a row it closed itself (`ClosedByOwner`).
  The conjunction `LeaseInv` is inductive (`LeaseInductive`); `FenceCorrect` follows, and so does the
  refinement `LedgerImplemented`, in which a commit is a `Work` step, an UPDATE of the sensor a
  `Reclaim` step and everything else stutters. `ReclaimCorrect` adds `ScanInv`: the verdict of a tick
  still holds when it updates. `LiveSessionsKept` adds `BeatsFresh`, that the heartbeat of a session's
  row is no older than the session; only there is `GraceAssumption` needed.
- `FuelCollectionProofs`. `FuelInv` adds to the two invariants of interest that a claim does not touch
  the success (so restoring it does not either), that cached objects are never ahead of the row,
  that the browser runs under the file lock on a checkpoint that is not completed, that a completed
  checkpoint is valid as long as the collection it came from (`FileKnown`), and that what is about to be
  acknowledged is durable. `NeverBack` is the action property from the same invariant.
  `BrowserBudget` needs its own invariant `BudgetInv`: the reservation that a claim made stays in the row
  until its browser has run, or the claim is given back before (`ClaimsApart`, `CacheReserved`,
  `BeforeCovers`). `FailuresTrue` needs `FailureInv`: whoever has not stored yet and claims last is newer
  than the row (`UnstoredIsNew`, `ClaimIsNew`), and a run that comes too late finds its claim gone (`ClaimsOld`).
- `FuelStatisticsProofs`. `StatisticsInv`: a busy publisher holds the lock of its generation, the
  holder of the source lock alone moves the pointer, what it publishes was read from its own
  snapshot (the stamp read before the source lock and the success read after it agree and stamps
  only grow). `HistoryComplete` adds that no publication is above the pointer.
- `AirportQuotaProofs`. `QuotaInv` joins to the types and `QuotaRecorded`: `KacUnblocked` (a blocked run
  is never before a KAC parking call), `RefusalCarried` (a run that was refused has the error in one
  of its two lists until it ends, which is what makes `Finish` and `Fail` record it), and `LockHeld`
  (until some collection outlives its lock only the holder collects, so no deadline can come into
  force after it read the ledger), from which `Respected` follows. `Recorded` also needs that a
  remembered refusal stays remembered, which is where the fence of `_record_quota_outcome` is used
  (`StillRemembered`, `HitRemembered`). `Forward` holds without the lock.
- `ParkingCurrentProofs`. `ParkingInv`: one run at a time is between its store and its commit
  (`OneStored`), the heads are as it verified them (`StoreHeld`), and an accepted answer has a time and
  its members as lots (`AnswersTimed`). `HeadsForward` then compares the sizes of finite sets of lots.
- `ParkingHistoryCacheProofs`. `CacheInv` has three groups: prepared answers have one place each and
  belong to the snapshot they were rendered from; the requests in a slot are finitely many and counted
  (`SlotsInv`); and a chain that follows a row into an answer (`FreshInv`): what the fingerprint shows only
  grows (`PastGrows`), a draft has everything seen before its load began (`DraftCovers`), and the
  snapshot everything shown when it was validated (`SnapshotCovers`).

`ServiceProofs` instantiates the modules of the services with constants of its own and has the bounds as
hypotheses of each theorem (`StatisticsBounds`, `ReferenceBounds`, and so on). Most of them say that limits and
times are numbers, that the names of nobody are no processes, and that sets are finite. The rest says what
the code's settings guarantee:

- a life, a page, a limit or a day is longer than nothing: the lives of cache entries (`OnDemandBounds`,
  `RoadBounds`), the day of the road calls (`RoadBounds`), the retention (`BackupBounds`), the tolerated
  errors (`TimesBounds`), page size and life (`ExportBounds`, `PriceBounds`), page size and number of runs
  (`RestBounds`), the length of a bucket (`ArchiveBounds`);
- `KricBounds`: fewer station days fail persistently than end a batch, and a day without a holiday has one
  of the three codes;
- `ExportBounds`: an export can list rows; `HighwayBounds`: an answer lists known keys, with ages for traffic;
  `PlaceBounds`: a place's search has a target; `ReferenceBounds` and `PlaceBounds`: the jobs are the code's.

One inductive invariant per service, which its type theorem (`RoadTypes`, `RestTypes`, ...) extends where
types of other variables are at stake:

- statistics cache (`StatInv`): a lock object is in the table exactly as long as it has users, which
  are counted, and its owner is one of them.
- reference lists (`RefInv`), timetables (`TtInv`; an answer is stamped after the start of its collection), VadaHub (`VhInv`): what a worker holds is of its own run and
  not of the future.
- analytics (`AnaInv`): a calculation has read everything committed up to its generation.
- flights, holidays, roads (`OdInv`, `RdInv`): an entry was the provider's when its call began; the counter
  is the number of calls of its day, and the pause is set before the lock is given back.
- backups (`BkInv`): sizes are counted in bytes as a set, so that a limit on a sum is one on a cardinality
  (`Bytes`); the new file is the newest and fits.
- places (`PlInv`, and `PlNames` for `PositionNamed`): every call has a receipt, whoever answers late;
  a search under way has the name its row still has as long as there is one run at a time
  (`OneRun`, `SearchedName`). With overlapping runs it does not hold, which is the hazard listed.
- mapping (`RmInv`): an open page shows the visible part of what its revision names, and the revision
  names the catalogue and the stations too, so a page that may save shows what is visible now.
- rail timetables (`KrInv`): failures in a row are of broken timetables the batch is through with, so
  they stay below the limit.
- highway (`HwInv`): the run that the head names is no run under way; active rows are of the last success.
- road traffic, the types (`RdCache`): a key is in the ordered cache once, so `Put` never makes it longer than
  its limit. `TakenOut` is what is true of a sequence without one of its elements.
- rest areas (`RaInv`): ids are the order in which a pass reads (`RaIds`), so a pass has only rows up to its
  cursor, each once (`RaRead`), and what it still owes lies behind the cursor (`RaOwed`); a success leaves a
  row as new as itself (`RaNewest`), so an answer 200 is not empty. That ids are never used up (`RaShape`)
  holds because a run that would insert over another's row is rolled back (`RaGivenOut`).
- archive (`ArInv`): whoever holds the lock has the observation before its next bucket, and the records it adds
  are the rows of their buckets (`ArRun`); what a record of the past lacks came in after all it has (`Behind`),
  which is why a run that finds nothing new may say so (`NoGap`). `ArShape` adds the types of the records.
- exports (`ExInv`): heads and rows make, in every transaction's view, only sets that were committed
  (`ExContents`); a pass has a frozen set's rows up to its cursor, on a snapshot that outlives the pass's
  first page by the whole life (`ExPass`); a clean-up takes only what has expired (`ExLife`). `ExShape` adds
  that a request that is over holds no view, row or lock, whichever way it ended (`ExClosed`).
- price history (`PriceInv`): a cursor of the present revision continues the list of the rows stored now
  (`PassPart`), and a tag names the revision and the epoch of the page it stands for (`KeptPage`). The list itself
  is defined by a row's place in it; different rows have different places (`PlacesApart`) and
  there are as many places as rows, so each place is taken and the list has every row once.

`MCServicesProofs` states the results of the behaviours of `MCServices`, where a property speaks of
several services. The service of a behaviour never changes (`ServiceStays`); so a behaviour is one of a
service's module, which is an instance of `ServiceProofs` with the constants of the run, or the service never
runs (`StatisticsRun` and its nineteen siblings), and where it does not run there is nothing to show. The
settings of the run are within the bounds (`PagedBounds`, `CacheBounds`, ...). Two instances, `S` and `T`,
cover the services that the run has in two settings. All fourteen properties of the run are theorems,
`TypesOK` among them (`TypesHold`).

Every safety property that a passing run checks is a theorem. Only model-checked are the liveness
properties `EventuallyClosed`, `CheckpointDrains` and `CacheConverges`, which are out of the prover's reach.
What the model leaves out (Section 5) and how its values and bounds stand for the program's is not proved
either; that is the reading of the code that `PROJECT.json` maps line by line.

## 5. Not modelled

- Pure functions and conversions: parsers, fee arithmetic, statistics and metrics, the choice among
  search candidates, response schemas and formats.
- Read-only routes, the in-process schedulers, stall alerts and schedule definitions of Dagster, the paged
  history route, the refresh windows and rules of airport fees, ferry terminals and ship types.
- The address refresh: its batches and retries are in a package outside the repository.
- The SQLite dialect used in tests. Clocks are one global clock; skew between hosts is not modelled.
- Frontend, deployment, migrations.

- The statistics cache with `transport_statistics_cache_seconds = 0`, where it is bypassed.
- Room for an upload is made by deleting several files in one step of the model; a death in between leaves
  more files, all of them older than the backup made before the restore.
- A highway answer is stamped when it arrives, not when its rows were observed.
- Kakao's budget of a month and the change of its key.

Known limits of the code that no property claims away are listed as hazards with a note: a
place search that outlives a rename, three persistently failing station days that end every KRIC batch, and a
manual link of a code that the catalogue lacks at the moment. No page shows such a link; the KRIC batches keep
it, as `docs/architecture/kric-timetable.md` says, but the next save of an administrator replaces the list without
it. The ferry collector that sets a row back to an older answer of its own run (above) is such a limit too.

## 6. Plan

Done: the fence and recovery, the fuel collection and its statistics, the airport collector, the
caches, the collectors of highway, rest-area, rail, port and bus data, exports, place searches, mapping,
timetables, archive and backups, each with its runs; and the proofs of every safety property of these runs.
What is left, in this order:

1. The composition of fuel collection and statistics: after a lost commit answer the statistics of a
   snapshot that was stored are not published. Each half is modelled alone.
2. The liveness of the KRIC batch under persistently failing station days, and of a search that outlives a
   rename of its row: the two hazards without a property.
3. The paged route of the parking history, the refresh windows of the airport fees and the stall alerts of
   the Dagster sensor.
