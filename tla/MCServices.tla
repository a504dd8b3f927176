------------------------------ MODULE MCServices ------------------------------
(***************************************************************************)
(* The services that share no state with one another, checked by one run:  *)
(* a behaviour picks a service and is a behaviour of that service's module.*)
(* Variables that several modules declare are one variable here; those the *)
(* chosen service has not got stay at Unused.  A component with two        *)
(* settings worth checking is instantiated twice.                          *)
(***************************************************************************)
EXTENDS Integers, FiniteSets, Sequences, TLC

CONSTANTS
    w1, w2,  \* workers, requests, clients or administrators: interchangeable in every module
    Services \* the services checked

Worker == {w1, w2}

\* No worker is called like a value that stands for nobody.
ASSUME WorkerAssumption == Worker \cap {"nobody", "none", "collector"} = {}

Symmetry == Permutations(Worker)
Unused == "unused"

\* The instances' data.
ExportRows == [traffic |-> << <<"t", 1>>, <<"t", 2>> >>, bus |-> << <<"e", 1>>, <<"i", 1>> >>]
\* Two sections with different ages, an old correction of one, and an empty list; incidents by state.
KrexAnswers == [krex_traffic |-> {[k1 |-> 0, k2 |-> 0], [k1 |-> 2], <<>>},
                krex_incident |-> {<<>>, [k1 |-> 0], [k1 |-> 1, k2 |-> 0]}]
PlaceKind == [bus1 |-> "bus", port1 |-> "port"]
PlaceTarget == [bus1 |-> "n1", port1 |-> "n1"]
OnDemandTtl == [flight |-> 1, holiday |-> 2]
RoadKeys == {"catalog", "road1", "road2"}
RoadTtl == [catalog |-> 3, road1 |-> 1, road2 |-> 1]
CalendarMonth == <<1, 2>>
CalendarBase == <<"7", "8">>
\* c1 and s1 match by name; c2 and s2 by number only.
CodeName == [c1 |-> "n1", c2 |-> "n2"]
PlaceName == [s1 |-> "n1", s2 |-> "m"]
CodeNumber == [c1 |-> "j", c2 |-> "k"]
PlaceNumber == [s1 |-> "k", s2 |-> "k"]

VARIABLE service
\* Declared by more than one module.
VARIABLES
    now, rows, pc, pending, cursor, got, started, result, runs, items, known, reading, state,
    head, active, run, seen, job, holder, lost, left, answer, lock, cache, key, attempts, made,
    row
\* Declared by one module each.
VARIABLES
    heads, snapshots, promotions, edits, published, kind, view, victims, attempt,
    success, error, nextId, collected, stale, status, after, due,
    nextRun, claims, baseline, history, statistics, current, incidents, claimed, loaded,
    flag, latest, lease, copy, base,
    name, loc, receipts, list, paid, counted, found, form,
    held, want,
    snaps, gen,
    changes, since, reply, served,
    blocked, day, saved, calls, failed,
    entry, users, owner, mine,
    records, inserting, checked, next, upto, prev, added,
    db, files, flow, staged, pre, uploaded,
    mem, last, limited, at, date, used, errors, start, stamped, called, refused,
    stored, calendar, todo, fails, outcome,
    archive, began, file,
    link, auto, manual, batch, shown, offered, pages

exportsVars == <<heads, snapshots, promotions, edits, published, kind, view, victims, attempt>>
restVars == <<success, error, nextId, collected, stale, status, after, due>>
highwayVars == <<nextRun, claims, baseline, history, statistics, current, incidents, claimed,
                 loaded>>
referenceVars == <<flag, latest, lease, copy, base>>
placeVars == <<name, loc, receipts, list, paid, counted, found, form>>
pricesVars == <<held, want>>
analyticsVars == <<snaps, gen>>
onDemandVars == <<changes, since, reply, served>>
roadsVars == <<blocked, day, saved, calls, failed>>
statisticsVars == <<entry, users, owner, mine>>
archiveVars == <<records, inserting, checked, next, upto, prev, added>>
backupsVars == <<db, files, flow, staged, pre, uploaded>>
timetableVars == <<mem, last, limited, at, date, used, errors, start, stamped, called, refused>>
railTimesVars == <<stored, calendar, todo, fails, outcome>>
hubVars == <<archive, began, file>>
mappingVars == <<link, auto, manual, batch, shown, offered, pages>>
vars ==
    <<service, now, rows, pc, pending, cursor, got, started, result, runs, items, known, reading, state,
      head, active, run, seen, job, holder, lost, left, answer, lock, cache, key, attempts,
      made, row,
      exportsVars, restVars, highwayVars, referenceVars, placeVars, pricesVars, analyticsVars,
      onDemandVars, roadsVars, statisticsVars, archiveVars, backupsVars, timetableVars,
      railTimesVars, hubVars, mappingVars>>

NoExports ==
    /\ heads = Unused /\ snapshots = Unused /\ promotions = Unused /\ edits = Unused
    /\ published = Unused /\ kind = Unused /\ view = Unused /\ victims = Unused
    /\ attempt = Unused
NoRest ==
    /\ success = Unused /\ error = Unused /\ nextId = Unused /\ collected = Unused
    /\ stale = Unused /\ status = Unused /\ after = Unused /\ due = Unused
NoHighway ==
    /\ nextRun = Unused /\ claims = Unused /\ baseline = Unused /\ history = Unused
    /\ statistics = Unused /\ current = Unused /\ incidents = Unused /\ claimed = Unused
    /\ loaded = Unused
NoReference ==
    /\ flag = Unused /\ latest = Unused /\ lease = Unused /\ copy = Unused /\ base = Unused
NoPlace ==
    /\ name = Unused /\ loc = Unused /\ receipts = Unused /\ list = Unused /\ paid = Unused
    /\ counted = Unused /\ found = Unused /\ form = Unused
NoPrices ==
    /\ held = Unused /\ want = Unused
NoAnalytics ==
    /\ snaps = Unused /\ gen = Unused
NoOnDemand ==
    /\ changes = Unused /\ since = Unused /\ reply = Unused /\ served = Unused
NoRoads ==
    /\ blocked = Unused /\ day = Unused /\ saved = Unused /\ calls = Unused /\ failed = Unused
NoStatistics ==
    /\ entry = Unused /\ users = Unused /\ owner = Unused /\ mine = Unused
NoArchive ==
    /\ records = Unused /\ inserting = Unused /\ checked = Unused /\ next = Unused
    /\ upto = Unused /\ prev = Unused /\ added = Unused
NoBackups ==
    /\ db = Unused /\ files = Unused /\ flow = Unused /\ staged = Unused /\ pre = Unused
    /\ uploaded = Unused
NoTimetable ==
    /\ mem = Unused /\ last = Unused /\ limited = Unused /\ at = Unused /\ date = Unused
    /\ used = Unused /\ errors = Unused /\ start = Unused /\ stamped = Unused
    /\ called = Unused /\ refused = Unused
NoRailTimes ==
    /\ stored = Unused /\ calendar = Unused /\ todo = Unused /\ fails = Unused
    /\ outcome = Unused
NoHub ==
    /\ archive = Unused /\ began = Unused /\ file = Unused
NoMapping ==
    /\ link = Unused /\ auto = Unused /\ manual = Unused /\ batch = Unused /\ shown = Unused
    /\ offered = Unused /\ pages = Unused

TrafficExport == INSTANCE SnapshotExport WITH
    Reader <- Worker, Kind <- {"traffic"}, RowsOf <- ExportRows, Limit <- 1, TTL <- 2,
    MaxTime <- 4, MaxPromotions <- 2, MaxEdits <- 0
BusExport == INSTANCE SnapshotExport WITH
    Reader <- Worker, Kind <- {"bus"}, RowsOf <- ExportRows, Limit <- 1, TTL <- 2, MaxTime <- 3,
    MaxPromotions <- 2, MaxEdits <- 1
Rest == INSTANCE RestArea WITH
    Proc <- Worker, Client <- {"c1"}, Area <- {"a1", "a2"}, Limit <- 1, Window <- 1,
    StaleAfter <- 1, MaxTime <- 2, MaxRuns <- 3
Highway == INSTANCE HighwayCollection WITH
    Proc <- Worker, Key <- {"k1", "k2"}, Answers <- KrexAnswers, DropFactor <- 1, Interval <- 1,
    Reservation <- 1, Recent <- 1, MaxAge <- 2, MaxTime <- 3, MaxRuns <- 3, MaxClaims <- 3
Reference == INSTANCE ReferenceCollection WITH
    Proc <- Worker, Id <- {"i1", "i2"}, Job <- {"port", "bus"}, DropFactor <- 1,
    DueAfter <- [j \in {"port", "bus"} |-> 1], MaxTime <- 2, MaxRuns <- 2
Places == INSTANCE PlaceLocation WITH
    Proc <- {"p1"}, Place <- {"bus1", "port1"}, KindOf <- PlaceKind, Name <- {"n1", "n2"},
    Target <- PlaceTarget, Job <- {"tago", "komsa", "vworld", "kakao"}, Overlap <- FALSE,
    MaxCalls <- 1, Keep <- 2, MaxTime <- 1, MaxReceipts <- 1
PlacesOverlap == INSTANCE PlaceLocation WITH
    Proc <- Worker, Place <- {"bus1", "port1"}, KindOf <- PlaceKind, Name <- {"n1", "n2"},
    Target <- PlaceTarget, Job <- {"vworld"}, Overlap <- TRUE, MaxCalls <- 1, Keep <- 2,
    MaxTime <- 1, MaxReceipts <- 2
Prices == INSTANCE PriceHistory WITH
    Ttl <- 2, Window <- 3, StaleAfter <- 2, Limit <- 1, MaxRows <- 3, MaxUpdates <- 3,
    MaxTime <- 4
Analytics == INSTANCE AnalyticsCache WITH
    Proc <- Worker, Airport <- {"ICN", "GMP"}, MaxAge <- 3, MaxTime <- 4
Flights == INSTANCE OnDemandCache WITH
    Proc <- Worker, Key <- {"GMP"}, Kind <- [k \in {"GMP"} |-> "flight"], Ttl <- OnDemandTtl,
    Backoff <- 2, MaxTime <- 3
Holidays == INSTANCE OnDemandCache WITH
    Proc <- Worker, Key <- {"2026-01"}, Kind <- [k \in {"2026-01"} |-> "holiday"],
    Ttl <- OnDemandTtl, Backoff <- 2, MaxTime <- 3
Roads == INSTANCE RoadTraffic WITH
    Proc <- Worker, Key <- RoadKeys, Ttl <- RoadTtl, Block <- 2, DayLength <- 3, DayMax <- 2,
    MaxEntries <- 2, MaxTime <- 3
Statistics == INSTANCE StatisticsCache WITH
    Proc <- {"q1", "q2", "q3"}, Key <- {"k1", "k2", "k3"}, Ttl <- 1, Slots <- 2, MaxLocks <- 3,
    MaxTime <- 1
Archive == INSTANCE ParkingArchive WITH
    BucketLength <- 1, Retention <- 1, WindowLength <- 2, MaxBuckets <- 1, MaxRows <- 3,
    MaxTime <- 4
Backups == INSTANCE BackupRestore WITH
    Limit <- 4, MaxSize <- 3, Retention <- 2, MaxFiles <- 5, MaxDb <- 2
BusTimes == INSTANCE Timetables WITH
    Kind <- "bus", Proc <- Worker, Worker <- {"w1", "w2"}, Date <- {0}, StorageDays <- 2,
    CacheTtl <- 1, MinInterval <- 1, Backoff <- 2, MaxCalls <- 0, MaxErrors <- 1,
    DayLength <- 2, MaxTime <- 3
FerryTimes == INSTANCE Timetables WITH
    Kind <- "ferry", Proc <- Worker, Worker <- {"w1"}, Date <- {0, 1}, StorageDays <- 2,
    CacheTtl <- 1, MinInterval <- 1, Backoff <- 2, MaxCalls <- 2, MaxErrors <- 2,
    DayLength <- 2, MaxTime <- 3
RailTimes == INSTANCE KricTimetable WITH
    Proc <- Worker, Snapshot <- 1..4, Broken <- {1, 2}, Day <- {1, 2}, MonthOf <- CalendarMonth,
    Base <- CalendarBase, Holiday <- {1, 2}, Every <- 2, MaxCalls <- 3, MaxRun <- 2,
    MaxFails <- 3, MaxTime <- 4
Hub == INSTANCE VadaHub WITH
    Proc <- Worker, Dataset <- {"d1"}, Archived <- {"d1"}, Week <- 2, MaxTime <- 6
Mapping == INSTANCE RailMapping WITH
    Admin <- Worker, Code <- {"c1", "c2"}, Place <- {"s1", "s2"}, CodeName <- CodeName,
    PlaceName <- PlaceName, CodeNumber <- CodeNumber, PlaceNumber <- PlaceNumber, Alias <- {}

WithoutExports ==
    /\ runs = Unused /\ items = Unused /\ known = Unused /\ reading = Unused /\ state = Unused
    /\ head = Unused /\ active = Unused /\ run = Unused /\ seen = Unused /\ job = Unused
    /\ holder = Unused /\ lost = Unused /\ left = Unused /\ answer = Unused /\ lock = Unused
    /\ cache = Unused /\ key = Unused /\ attempts = Unused /\ made = Unused /\ row = Unused
    /\ NoRest /\ NoHighway /\ NoReference /\ NoPlace /\ NoPrices /\ NoAnalytics /\ NoOnDemand
    /\ NoRoads /\ NoStatistics /\ NoArchive /\ NoBackups /\ NoTimetable /\ NoRailTimes /\ NoHub
    /\ NoMapping
otherThanExports ==
    <<service, runs, items, known, reading, state, head, active, run, seen, job, holder, lost, left,
      answer, lock, cache, key, attempts, made, row, restVars, highwayVars, referenceVars,
      placeVars, pricesVars, analyticsVars, onDemandVars, roadsVars, statisticsVars,
      archiveVars, backupsVars, timetableVars, railTimesVars, hubVars, mappingVars>>
WithoutRest ==
    /\ pending = Unused /\ cursor = Unused /\ started = Unused /\ result = Unused
    /\ state = Unused /\ head = Unused /\ active = Unused /\ run = Unused /\ seen = Unused
    /\ job = Unused /\ holder = Unused /\ lost = Unused /\ left = Unused /\ answer = Unused
    /\ lock = Unused /\ cache = Unused /\ key = Unused /\ attempts = Unused /\ made = Unused
    /\ row = Unused /\ NoExports /\ NoHighway /\ NoReference /\ NoPlace /\ NoPrices
    /\ NoAnalytics /\ NoOnDemand /\ NoRoads /\ NoStatistics /\ NoArchive /\ NoBackups
    /\ NoTimetable /\ NoRailTimes /\ NoHub /\ NoMapping
otherThanRest ==
    <<service, pending, cursor, started, result, state, head, active, run, seen, job, holder, lost, left,
      answer, lock, cache, key, attempts, made, row, exportsVars, highwayVars, referenceVars,
      placeVars, pricesVars, analyticsVars, onDemandVars, roadsVars, statisticsVars,
      archiveVars, backupsVars, timetableVars, railTimesVars, hubVars, mappingVars>>
WithoutHighway ==
    /\ rows = Unused /\ pending = Unused /\ cursor = Unused /\ got = Unused /\ started = Unused
    /\ runs = Unused /\ items = Unused /\ known = Unused /\ reading = Unused /\ job = Unused
    /\ holder = Unused /\ lost = Unused /\ left = Unused /\ answer = Unused /\ lock = Unused
    /\ cache = Unused /\ key = Unused /\ attempts = Unused /\ made = Unused /\ row = Unused
    /\ NoExports /\ NoRest /\ NoReference /\ NoPlace /\ NoPrices /\ NoAnalytics /\ NoOnDemand
    /\ NoRoads /\ NoStatistics /\ NoArchive /\ NoBackups /\ NoTimetable /\ NoRailTimes /\ NoHub
    /\ NoMapping
otherThanHighway ==
    <<service, rows, pending, cursor, got, started, runs, items, known, reading, job, holder, lost, left,
      answer, lock, cache, key, attempts, made, row, exportsVars, restVars, referenceVars,
      placeVars, pricesVars, analyticsVars, onDemandVars, roadsVars, statisticsVars,
      archiveVars, backupsVars, timetableVars, railTimesVars, hubVars, mappingVars>>
WithoutReference ==
    /\ pending = Unused /\ cursor = Unused /\ got = Unused /\ started = Unused
    /\ result = Unused /\ known = Unused /\ reading = Unused /\ state = Unused
    /\ active = Unused /\ seen = Unused /\ holder = Unused /\ lost = Unused /\ left = Unused
    /\ answer = Unused /\ lock = Unused /\ cache = Unused /\ key = Unused /\ attempts = Unused
    /\ made = Unused /\ row = Unused /\ NoExports /\ NoRest /\ NoHighway /\ NoPlace /\ NoPrices
    /\ NoAnalytics /\ NoOnDemand /\ NoRoads /\ NoStatistics /\ NoArchive /\ NoBackups
    /\ NoTimetable /\ NoRailTimes /\ NoHub /\ NoMapping
otherThanReference ==
    <<service, pending, cursor, got, started, result, known, reading, state, active, seen, holder, lost,
      left, answer, lock, cache, key, attempts, made, row, exportsVars, restVars, highwayVars,
      placeVars, pricesVars, analyticsVars, onDemandVars, roadsVars, statisticsVars,
      archiveVars, backupsVars, timetableVars, railTimesVars, hubVars, mappingVars>>
WithoutPlace ==
    /\ rows = Unused /\ pending = Unused /\ cursor = Unused /\ got = Unused /\ started = Unused
    /\ result = Unused /\ runs = Unused /\ items = Unused /\ known = Unused /\ reading = Unused
    /\ state = Unused /\ head = Unused /\ active = Unused /\ run = Unused /\ seen = Unused
    /\ answer = Unused /\ lock = Unused /\ cache = Unused /\ key = Unused /\ attempts = Unused
    /\ made = Unused /\ row = Unused /\ NoExports /\ NoRest /\ NoHighway /\ NoReference
    /\ NoPrices /\ NoAnalytics /\ NoOnDemand /\ NoRoads /\ NoStatistics /\ NoArchive
    /\ NoBackups /\ NoTimetable /\ NoRailTimes /\ NoHub /\ NoMapping
otherThanPlace ==
    <<service, rows, pending, cursor, got, started, result, runs, items, known, reading, state, head,
      active, run, seen, answer, lock, cache, key, attempts, made, row, exportsVars, restVars,
      highwayVars, referenceVars, pricesVars, analyticsVars, onDemandVars, roadsVars,
      statisticsVars, archiveVars, backupsVars, timetableVars, railTimesVars, hubVars,
      mappingVars>>
WithoutPrices ==
    /\ pc = Unused /\ pending = Unused /\ started = Unused /\ result = Unused /\ runs = Unused
    /\ items = Unused /\ known = Unused /\ reading = Unused /\ head = Unused /\ active = Unused
    /\ run = Unused /\ seen = Unused /\ job = Unused /\ holder = Unused /\ lost = Unused
    /\ left = Unused /\ lock = Unused /\ cache = Unused /\ key = Unused /\ attempts = Unused
    /\ made = Unused /\ row = Unused /\ NoExports /\ NoRest /\ NoHighway /\ NoReference
    /\ NoPlace /\ NoAnalytics /\ NoOnDemand /\ NoRoads /\ NoStatistics /\ NoArchive /\ NoBackups
    /\ NoTimetable /\ NoRailTimes /\ NoHub /\ NoMapping
otherThanPrices ==
    <<service, pc, pending, started, result, runs, items, known, reading, head, active, run, seen, job,
      holder, lost, left, lock, cache, key, attempts, made, row, exportsVars, restVars,
      highwayVars, referenceVars, placeVars, analyticsVars, onDemandVars, roadsVars,
      statisticsVars, archiveVars, backupsVars, timetableVars, railTimesVars, hubVars,
      mappingVars>>
WithoutAnalytics ==
    /\ rows = Unused /\ cursor = Unused /\ got = Unused /\ started = Unused /\ result = Unused
    /\ runs = Unused /\ items = Unused /\ known = Unused /\ reading = Unused /\ state = Unused
    /\ head = Unused /\ run = Unused /\ job = Unused /\ holder = Unused /\ answer = Unused
    /\ key = Unused /\ attempts = Unused /\ made = Unused /\ row = Unused /\ NoExports /\ NoRest
    /\ NoHighway /\ NoReference /\ NoPlace /\ NoPrices /\ NoOnDemand /\ NoRoads /\ NoStatistics
    /\ NoArchive /\ NoBackups /\ NoTimetable /\ NoRailTimes /\ NoHub /\ NoMapping
otherThanAnalytics ==
    <<service, rows, cursor, got, started, result, runs, items, known, reading, state, head, run, job,
      holder, answer, key, attempts, made, row, exportsVars, restVars, highwayVars,
      referenceVars, placeVars, pricesVars, onDemandVars, roadsVars, statisticsVars,
      archiveVars, backupsVars, timetableVars, railTimesVars, hubVars, mappingVars>>
WithoutOnDemand ==
    /\ rows = Unused /\ pending = Unused /\ cursor = Unused /\ got = Unused /\ started = Unused
    /\ result = Unused /\ runs = Unused /\ items = Unused /\ known = Unused /\ reading = Unused
    /\ state = Unused /\ head = Unused /\ active = Unused /\ run = Unused /\ seen = Unused
    /\ job = Unused /\ holder = Unused /\ lost = Unused /\ left = Unused /\ answer = Unused
    /\ lock = Unused /\ attempts = Unused /\ made = Unused /\ row = Unused /\ NoExports
    /\ NoRest /\ NoHighway /\ NoReference /\ NoPlace /\ NoPrices /\ NoAnalytics /\ NoRoads
    /\ NoStatistics /\ NoArchive /\ NoBackups /\ NoTimetable /\ NoRailTimes /\ NoHub
    /\ NoMapping
otherThanOnDemand ==
    <<service, rows, pending, cursor, got, started, result, runs, items, known, reading, state, head,
      active, run, seen, job, holder, lost, left, answer, lock, attempts, made, row,
      exportsVars, restVars, highwayVars, referenceVars, placeVars, pricesVars, analyticsVars,
      roadsVars, statisticsVars, archiveVars, backupsVars, timetableVars, railTimesVars,
      hubVars, mappingVars>>
WithoutRoads ==
    /\ rows = Unused /\ pending = Unused /\ cursor = Unused /\ got = Unused /\ started = Unused
    /\ result = Unused /\ runs = Unused /\ items = Unused /\ known = Unused /\ reading = Unused
    /\ state = Unused /\ head = Unused /\ active = Unused /\ run = Unused /\ seen = Unused
    /\ job = Unused /\ holder = Unused /\ lost = Unused /\ left = Unused /\ made = Unused
    /\ row = Unused /\ NoExports /\ NoRest /\ NoHighway /\ NoReference /\ NoPlace /\ NoPrices
    /\ NoAnalytics /\ NoOnDemand /\ NoStatistics /\ NoArchive /\ NoBackups /\ NoTimetable
    /\ NoRailTimes /\ NoHub /\ NoMapping
otherThanRoads ==
    <<service, rows, pending, cursor, got, started, result, runs, items, known, reading, state, head,
      active, run, seen, job, holder, lost, left, made, row, exportsVars, restVars, highwayVars,
      referenceVars, placeVars, pricesVars, analyticsVars, onDemandVars, statisticsVars,
      archiveVars, backupsVars, timetableVars, railTimesVars, hubVars, mappingVars>>
WithoutStatistics ==
    /\ rows = Unused /\ pending = Unused /\ cursor = Unused /\ got = Unused /\ started = Unused
    /\ result = Unused /\ runs = Unused /\ items = Unused /\ known = Unused /\ reading = Unused
    /\ state = Unused /\ head = Unused /\ active = Unused /\ run = Unused /\ seen = Unused
    /\ job = Unused /\ holder = Unused /\ lost = Unused /\ left = Unused /\ answer = Unused
    /\ lock = Unused /\ attempts = Unused /\ row = Unused /\ NoExports /\ NoRest /\ NoHighway
    /\ NoReference /\ NoPlace /\ NoPrices /\ NoAnalytics /\ NoOnDemand /\ NoRoads /\ NoArchive
    /\ NoBackups /\ NoTimetable /\ NoRailTimes /\ NoHub /\ NoMapping
otherThanStatistics ==
    <<service, rows, pending, cursor, got, started, result, runs, items, known, reading, state, head,
      active, run, seen, job, holder, lost, left, answer, lock, attempts, row, exportsVars,
      restVars, highwayVars, referenceVars, placeVars, pricesVars, analyticsVars, onDemandVars,
      roadsVars, archiveVars, backupsVars, timetableVars, railTimesVars, hubVars, mappingVars>>
WithoutArchive ==
    /\ pc = Unused /\ pending = Unused /\ cursor = Unused /\ got = Unused /\ started = Unused
    /\ runs = Unused /\ items = Unused /\ known = Unused /\ reading = Unused /\ state = Unused
    /\ head = Unused /\ active = Unused /\ run = Unused /\ seen = Unused /\ job = Unused
    /\ holder = Unused /\ lost = Unused /\ left = Unused /\ answer = Unused /\ cache = Unused
    /\ key = Unused /\ attempts = Unused /\ made = Unused /\ row = Unused /\ NoExports /\ NoRest
    /\ NoHighway /\ NoReference /\ NoPlace /\ NoPrices /\ NoAnalytics /\ NoOnDemand /\ NoRoads
    /\ NoStatistics /\ NoBackups /\ NoTimetable /\ NoRailTimes /\ NoHub /\ NoMapping
otherThanArchive ==
    <<service, pc, pending, cursor, got, started, runs, items, known, reading, state, head, active, run,
      seen, job, holder, lost, left, answer, cache, key, attempts, made, row, exportsVars,
      restVars, highwayVars, referenceVars, placeVars, pricesVars, analyticsVars, onDemandVars,
      roadsVars, statisticsVars, backupsVars, timetableVars, railTimesVars, hubVars, mappingVars>>
WithoutBackups ==
    /\ now = Unused /\ rows = Unused /\ pending = Unused /\ cursor = Unused /\ got = Unused
    /\ started = Unused /\ result = Unused /\ runs = Unused /\ items = Unused /\ known = Unused
    /\ reading = Unused /\ state = Unused /\ head = Unused /\ active = Unused /\ run = Unused
    /\ seen = Unused /\ job = Unused /\ holder = Unused /\ lost = Unused /\ left = Unused
    /\ answer = Unused /\ lock = Unused /\ cache = Unused /\ key = Unused /\ attempts = Unused
    /\ row = Unused /\ NoExports /\ NoRest /\ NoHighway /\ NoReference /\ NoPlace /\ NoPrices
    /\ NoAnalytics /\ NoOnDemand /\ NoRoads /\ NoStatistics /\ NoArchive /\ NoTimetable
    /\ NoRailTimes /\ NoHub /\ NoMapping
otherThanBackups ==
    <<service, now, rows, pending, cursor, got, started, result, runs, items, known, reading, state,
      head, active, run, seen, job, holder, lost, left, answer, lock, cache, key, attempts, row,
      exportsVars, restVars, highwayVars, referenceVars, placeVars, pricesVars, analyticsVars,
      onDemandVars, roadsVars, statisticsVars, archiveVars, timetableVars, railTimesVars,
      hubVars, mappingVars>>
WithoutTimetable ==
    /\ rows = Unused /\ pending = Unused /\ cursor = Unused /\ got = Unused /\ started = Unused
    /\ result = Unused /\ runs = Unused /\ items = Unused /\ known = Unused /\ reading = Unused
    /\ state = Unused /\ head = Unused /\ active = Unused /\ run = Unused /\ job = Unused
    /\ holder = Unused /\ lost = Unused /\ answer = Unused /\ cache = Unused /\ key = Unused
    /\ attempts = Unused /\ made = Unused /\ NoExports /\ NoRest /\ NoHighway /\ NoReference
    /\ NoPlace /\ NoPrices /\ NoAnalytics /\ NoOnDemand /\ NoRoads /\ NoStatistics /\ NoArchive
    /\ NoBackups /\ NoRailTimes /\ NoHub /\ NoMapping
otherThanTimetable ==
    <<service, rows, pending, cursor, got, started, result, runs, items, known, reading, state, head,
      active, run, job, holder, lost, answer, cache, key, attempts, made, exportsVars, restVars,
      highwayVars, referenceVars, placeVars, pricesVars, analyticsVars, onDemandVars, roadsVars,
      statisticsVars, archiveVars, backupsVars, railTimesVars, hubVars, mappingVars>>
WithoutRailTimes ==
    /\ rows = Unused /\ pending = Unused /\ cursor = Unused /\ got = Unused /\ result = Unused
    /\ runs = Unused /\ items = Unused /\ known = Unused /\ reading = Unused /\ state = Unused
    /\ head = Unused /\ active = Unused /\ run = Unused /\ seen = Unused /\ job = Unused
    /\ lost = Unused /\ left = Unused /\ answer = Unused /\ lock = Unused /\ cache = Unused
    /\ key = Unused /\ made = Unused /\ row = Unused /\ NoExports /\ NoRest /\ NoHighway
    /\ NoReference /\ NoPlace /\ NoPrices /\ NoAnalytics /\ NoOnDemand /\ NoRoads
    /\ NoStatistics /\ NoArchive /\ NoBackups /\ NoTimetable /\ NoHub /\ NoMapping
otherThanRailTimes ==
    <<service, rows, pending, cursor, got, result, runs, items, known, reading, state, head, active, run,
      seen, job, lost, left, answer, lock, cache, key, made, row, exportsVars, restVars,
      highwayVars, referenceVars, placeVars, pricesVars, analyticsVars, onDemandVars, roadsVars,
      statisticsVars, archiveVars, backupsVars, timetableVars, hubVars, mappingVars>>
WithoutHub ==
    /\ rows = Unused /\ pending = Unused /\ cursor = Unused /\ got = Unused /\ started = Unused
    /\ result = Unused /\ runs = Unused /\ items = Unused /\ known = Unused /\ reading = Unused
    /\ state = Unused /\ head = Unused /\ active = Unused /\ run = Unused /\ seen = Unused
    /\ job = Unused /\ lost = Unused /\ answer = Unused /\ lock = Unused /\ cache = Unused
    /\ key = Unused /\ attempts = Unused /\ made = Unused /\ NoExports /\ NoRest /\ NoHighway
    /\ NoReference /\ NoPlace /\ NoPrices /\ NoAnalytics /\ NoOnDemand /\ NoRoads
    /\ NoStatistics /\ NoArchive /\ NoBackups /\ NoTimetable /\ NoRailTimes /\ NoMapping
otherThanHub ==
    <<service, rows, pending, cursor, got, started, result, runs, items, known, reading, state, head,
      active, run, seen, job, lost, answer, lock, cache, key, attempts, made, exportsVars,
      restVars, highwayVars, referenceVars, placeVars, pricesVars, analyticsVars, onDemandVars,
      roadsVars, statisticsVars, archiveVars, backupsVars, timetableVars, railTimesVars,
      mappingVars>>
WithoutMapping ==
    /\ now = Unused /\ rows = Unused /\ pc = Unused /\ pending = Unused /\ cursor = Unused
    /\ got = Unused /\ started = Unused /\ result = Unused /\ runs = Unused /\ items = Unused
    /\ state = Unused /\ head = Unused /\ run = Unused /\ seen = Unused /\ job = Unused
    /\ holder = Unused /\ lost = Unused /\ left = Unused /\ answer = Unused /\ lock = Unused
    /\ cache = Unused /\ key = Unused /\ attempts = Unused /\ made = Unused /\ row = Unused
    /\ NoExports /\ NoRest /\ NoHighway /\ NoReference /\ NoPlace /\ NoPrices /\ NoAnalytics
    /\ NoOnDemand /\ NoRoads /\ NoStatistics /\ NoArchive /\ NoBackups /\ NoTimetable
    /\ NoRailTimes /\ NoHub
otherThanMapping ==
    <<service, now, rows, pc, pending, cursor, got, started, result, runs, items, state, head, run, seen,
      job, holder, lost, left, answer, lock, cache, key, attempts, made, row, exportsVars,
      restVars, highwayVars, referenceVars, placeVars, pricesVars, analyticsVars, onDemandVars,
      roadsVars, statisticsVars, archiveVars, backupsVars, timetableVars, railTimesVars, hubVars>>

Init ==
    /\ service \in Services
    /\ \/ service = "traffic export" /\ TrafficExport!Init /\ WithoutExports
       \/ service = "bus export" /\ BusExport!Init /\ WithoutExports
       \/ service = "rest areas" /\ Rest!Init /\ WithoutRest
       \/ service = "highway" /\ Highway!Init /\ WithoutHighway
       \/ service = "references" /\ Reference!Init /\ WithoutReference
       \/ service = "places" /\ Places!Init /\ WithoutPlace
       \/ service = "place overlap" /\ PlacesOverlap!Init /\ WithoutPlace
       \/ service = "prices" /\ Prices!Init /\ WithoutPrices
       \/ service = "analytics" /\ Analytics!Init /\ WithoutAnalytics
       \/ service = "flights" /\ Flights!Init /\ WithoutOnDemand
       \/ service = "holidays" /\ Holidays!Init /\ WithoutOnDemand
       \/ service = "road traffic" /\ Roads!Init /\ WithoutRoads
       \/ service = "statistics" /\ Statistics!Init /\ WithoutStatistics
       \/ service = "archive" /\ Archive!Init /\ WithoutArchive
       \/ service = "backups" /\ Backups!Init /\ WithoutBackups
       \/ service = "bus timetables" /\ BusTimes!Init /\ WithoutTimetable
       \/ service = "ferry timetables" /\ FerryTimes!Init /\ WithoutTimetable
       \/ service = "rail timetables" /\ RailTimes!Init /\ WithoutRailTimes
       \/ service = "ferry reference" /\ Hub!Init /\ WithoutHub
       \/ service = "rail mapping" /\ Mapping!Init /\ WithoutMapping

Next ==
    \/ service = "traffic export" /\ TrafficExport!Next /\ UNCHANGED otherThanExports
    \/ service = "bus export" /\ BusExport!Next /\ UNCHANGED otherThanExports
    \/ service = "rest areas" /\ Rest!Next /\ UNCHANGED otherThanRest
    \/ service = "highway" /\ Highway!Next /\ UNCHANGED otherThanHighway
    \/ service = "references" /\ Reference!Next /\ UNCHANGED otherThanReference
    \/ service = "places" /\ Places!Next /\ UNCHANGED otherThanPlace
    \/ service = "place overlap" /\ PlacesOverlap!Next /\ UNCHANGED otherThanPlace
    \/ service = "prices" /\ Prices!Next /\ UNCHANGED otherThanPrices
    \/ service = "analytics" /\ Analytics!Next /\ UNCHANGED otherThanAnalytics
    \/ service = "flights" /\ Flights!Next /\ UNCHANGED otherThanOnDemand
    \/ service = "holidays" /\ Holidays!Next /\ UNCHANGED otherThanOnDemand
    \/ service = "road traffic" /\ Roads!Next /\ UNCHANGED otherThanRoads
    \/ service = "statistics" /\ Statistics!Next /\ UNCHANGED otherThanStatistics
    \/ service = "archive" /\ Archive!Next /\ UNCHANGED otherThanArchive
    \/ service = "backups" /\ Backups!Next /\ UNCHANGED otherThanBackups
    \/ service = "bus timetables" /\ BusTimes!Next /\ UNCHANGED otherThanTimetable
    \/ service = "ferry timetables" /\ FerryTimes!Next /\ UNCHANGED otherThanTimetable
    \/ service = "rail timetables" /\ RailTimes!Next /\ UNCHANGED otherThanRailTimes
    \/ service = "ferry reference" /\ Hub!Next /\ UNCHANGED otherThanHub
    \/ service = "rail mapping" /\ Mapping!Next /\ UNCHANGED otherThanMapping

Spec == Init /\ [][Next]_vars

--------------------------------------------------------------------------------
\* Types of the running service's variables.
TypesOK ==
    /\ service = "traffic export" => TrafficExport!TypeOK
    /\ service = "bus export" => BusExport!TypeOK
    /\ service = "rest areas" => Rest!TypeOK
    /\ service = "highway" => Highway!TypeOK
    /\ service = "references" => Reference!TypeOK
    /\ service = "places" => Places!TypeOK
    /\ service = "place overlap" => PlacesOverlap!TypeOK
    /\ service = "prices" => Prices!TypeOK
    /\ service = "analytics" => Analytics!TypeOK
    /\ service = "flights" => Flights!TypeOK
    /\ service = "holidays" => Holidays!TypeOK
    /\ service = "road traffic" => Roads!TypeOK
    /\ service = "statistics" => Statistics!TypeOK
    /\ service = "archive" => Archive!TypeOK
    /\ service = "backups" => Backups!TypeOK
    /\ service = "bus timetables" => BusTimes!TypeOK
    /\ service = "ferry timetables" => FerryTimes!TypeOK
    /\ service = "rail timetables" => RailTimes!TypeOK
    /\ service = "ferry reference" => Hub!TypeOK
    /\ service = "rail mapping" => Mapping!TypeOK

\* A client that pages to the end of a snapshot export or of a price history has received exactly
\* one state of it: one committed content (read_page), the rows of the window its first page saw
\* (read_price_history_page), however collections, edits and clean-ups fall between its pages.
ExportPassExact ==
    [][/\ service = "traffic export" => TrafficExport!PassIsOneSet
       /\ service = "bus export" => BusExport!PassIsOneSet
       /\ service = "prices" => Prices!PassExact']_vars

\* A client that pages through the rest areas while runs store new answers (_store_references)
\* gets every row that stayed in the set, none twice, and an answer 200 never says that there is
\* nothing: the consumer reads an empty list as the deletion of every row (_require_current).
RestAreasWhole ==
    service = "rest areas" => Rest!PassComplete /\ Rest!ServedNotEmpty

\* What a client holds can be used: a snapshot is not gone before its TTL (snapshot_expires_at,
\* expire_snapshots), and a 304 never confirms a page whose cursor would be refused (_response).
CursorsUsable ==
    [][/\ service = "traffic export" => TrafficExport!NotGoneEarly
       /\ service = "bus export" => BusExport!NotGoneEarly
       /\ service = "prices" => Prices!NotModifiedUsable]_vars

\* What is derived from the highway answers is exact whatever overlaps, fails or dies: the active
\* incidents exported are those of the last committed answer (export_active_highway_incidents),
\* each five-minute bucket agrees with its observations (_refresh_recent_traffic_statistics), and
\* the current traffic is one whole answer (update_traffic_current).
HighwayDerivedExact ==
    service = "highway" =>
        /\ Highway!ActiveSetExact
        /\ Highway!StatisticsMatch
        /\ Highway!TrafficHeadWhole

\* A late writer never puts newer data back: the current traffic (update_traffic_current), the port
\* and bus heads (promote_reference), the stored timetables (save_bus_timetable, the ferry
\* requests).  The ferry collector alone may set a timetable back, to an answer of its running
\* collection.
HeadsForward ==
    [][/\ service = "highway" => Highway!TrafficForward
       /\ service = "references" => Reference!HeadForward
       /\ service = "bus timetables" => BusTimes!RowForward
       /\ service = "ferry timetables" => FerryTimes!RowForward]_vars

\* The heads of express and intercity terminals are of one run, whatever fails in between (_store).
BusHeadsTogether == service = "references" => Reference!BusHeadsTogether

\* What an administrator entered is replaced only by an administrator who saw it: positions while
\* searches and collectors run (save_manual_place_location), station mappings while two pages are
\* open (save_rail_station_mappings).
ManualKept ==
    [][/\ service = "places" => Places!ManualKept
       /\ service = "place overlap" => PlacesOverlap!ManualKept
       /\ service = "rail mapping" => Mapping!NoLostEdit]_vars

\* What is stored agrees with what it was made from: a position with the name of its row while runs
\* of the reference group do not overlap (_upsert_terminal, _upsert_port), station links with the
\* registry, no station with two codes (effective_station_mappings, _sync_codes), the calendar of
\* days with the full list of holidays (_sync_calendar), and, behind failing stations, the KRIC
\* timetables with a batch that had the time (collect).
RowsMatchSource ==
    /\ service = "places" => Places!LocationMatchesName
    /\ service = "rail mapping" => Mapping!LinksExclusive
    /\ service = "rail timetables" => RailTimes!CalendarTrue /\ RailTimes!OthersRefreshed

\* The budgets hold on every day and at every step: VWorld, KOMSA and Kakao searches, highway calls,
\* the disk space of the backups.
BudgetsKept ==
    /\ service = "places" => Places!BudgetKept
    /\ service = "place overlap" => PlacesOverlap!BudgetKept
    /\ service = "road traffic" => Roads!BudgetKept
    /\ service = "backups" => Backups!LimitKept

\* A provider is not called again too soon: not in the pause after a failure (cached), not within a
\* worker's interval or backoff (transport_port_timetable, transport_bus_timetable), not within 48
\* hours of a KRIC batch, and a weekly refresh is a download of its own run (_fetch).
ProvidersSpared ==
    [][/\ service = "road traffic" => Roads!PauseKept
       /\ service = "bus timetables" => BusTimes!WorkerSpares
       /\ service = "ferry timetables" => FerryTimes!WorkerSpares
       /\ service = "rail timetables" => RailTimes!BatchesApart
       /\ service = "ferry reference" => Hub!RefreshIsNew]_vars

\* What a cache answers is as fresh as it says: parking analytics hold every committed snapshot
\* (load_cached_analytics), flights and holidays are younger than their life when the visit began
\* (get_status, _get_month), and a road answer older than its life says so (cached).
CachesFresh ==
    /\ service = "analytics" => Analytics!CacheComplete
    /\ service = "flights" => Flights!ServedRecent
    /\ service = "holidays" => Holidays!ServedRecent
    /\ service = "road traffic" => Roads!StaleSaid

\* One request at a time calculates a statistics key, and no lock object outlives its users
\* (cached_transport_statistics).
SingleFlight == service = "statistics" => Statistics!OneCalculation /\ Statistics!LocksCollected

\* What is kept for good is whole: an archived bucket holds all its rows and the right predecessor,
\* "no new rows" hides no gap (archive_parking_statistics), and a restore that replaced the database
\* leaves the backup made before it (save_uploaded_backup).
ArchiveExact ==
    [][/\ service = "archive" => Archive!RecordsExact /\ Archive!NoSilentGap
       /\ service = "backups" => Backups!PreRestoreKept]_vars
================================================================================
