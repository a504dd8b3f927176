---------------------------- MODULE MCServicesProofs ----------------------------
(***************************************************************************)
(* What ServiceProofs proves of each service, stated of the behaviours of  *)
(* MCServices: the service a behaviour picked stays, its steps are those   *)
(* of its module, and every property that concerns another service holds.  *)
(***************************************************************************)
EXTENDS MCServices, FiniteSetTheorems, TLAPS

Running(s) == service = s

\* The service a behaviour picked is never changed.
LEMMA ServiceStays == ASSUME NEW s PROVE [Next]_vars => (Running(s) <=> Running(s)')
  BY DEF Running, Next, vars, otherThanExports, otherThanStatistics, otherThanRest,
     otherThanHighway, otherThanReference, otherThanPlace, otherThanPrices, otherThanAnalytics,
     otherThanOnDemand, otherThanRoads, otherThanArchive, otherThanBackups, otherThanTimetable,
     otherThanRailTimes, otherThanHub, otherThanMapping

\* Two values make a finite set.
LEMMA PairFinite == \A a, b : IsFiniteSet({a, b})
<1> TAKE a, b
<1>1. IsFiniteSet({a} \cup {b})
  BY FS_Singleton, FS_AddElement
<1>2. QED
  BY <1>1, {a} \cup {b} = {a, b}

\* The services with the constants of MCServices.
S == INSTANCE ServiceProofs WITH
    StatRequest <- {"q1", "q2", "q3"}, StatKey <- {"k1", "k2", "k3"}, StatTtl <- 1,
    StatSlots <- 2, StatLocks <- 3, StatTime <- 1,
    RefWorker <- Worker, RefId <- {"i1", "i2"}, RefJob <- {"port", "bus"}, RefDropFactor <- 1,
    RefDueAfter <- [j \in {"port", "bus"} |-> 1], RefTime <- 2, RefRuns <- 2,
    AnaProc <- Worker, AnaAirport <- {"ICN", "GMP"}, AnaAge <- 3, AnaTime <- 4,
    OdProc <- Worker, OdKey <- {"GMP"}, OdKind <- [k \in {"GMP"} |-> "flight"],
    OdTtl <- OnDemandTtl, OdBackoff <- 2, OdTime <- 3,
    RdProc <- Worker, RdKey <- RoadKeys, RdTtl <- RoadTtl, RdBlock <- 2, RdDay <- 3, RdMax <- 2,
    RdEntries <- 2, RdTime <- 3,
    BkLimit <- 4, BkSize <- 3, BkRetention <- 2, BkFiles <- 5, BkDb <- 2,
    PlKindOf <- PlaceKind, PlName <- {"n1", "n2"}, PlTarget <- PlaceTarget, PlMax <- 1,
    PlKeep <- 2, PlTime <- 1, PlPlace <- {"bus1", "port1"},
    PlProc <- {"p1"}, PlJob <- {"tago", "komsa", "vworld", "kakao"}, PlOverlap <- FALSE,
    PlReceipts <- 1,
    RmAdmin <- Worker, RmCode <- {"c1", "c2"}, RmPlace <- {"s1", "s2"}, RmCodeName <- CodeName,
    RmPlaceName <- PlaceName, RmCodeNumber <- CodeNumber, RmPlaceNumber <- PlaceNumber,
    RmAlias <- {},
    TtStorageDays <- 2, TtCacheTtl <- 1, TtMinInterval <- 1, TtBackoff <- 2, TtDayLength <- 2,
    TtTime <- 3,
    TtKind <- "bus", TtProc <- Worker, TtWorker <- {"w1", "w2"}, TtDate <- {0}, TtCalls <- 0,
    TtErrors <- 1,
    VhProc <- Worker, VhDataset <- {"d1"}, VhArchived <- {"d1"}, VhWeek <- 2, VhTime <- 6,
    KrProc <- Worker, KrSnapshot <- 1..4, KrBroken <- {1, 2}, KrDay <- {1, 2},
    KrMonthOf <- CalendarMonth, KrBase <- CalendarBase, KrHoliday <- {1, 2}, KrEvery <- 2,
    KrCalls <- 3, KrRun <- 2, KrFails <- 3, KrTime <- 4,
    HwProc <- Worker, HwKey <- {"k1", "k2"}, HwAnswers <- KrexAnswers, HwDropFactor <- 1,
    HwInterval <- 1, HwReservation <- 1, HwRecent <- 1, HwMaxAge <- 2, HwTime <- 3, HwRuns <- 3,
    HwClaims <- 3,
    RaProc <- Worker, RaClient <- {"c1"}, RaArea <- {"a1", "a2"}, RaLimit <- 1, RaWindow <- 1,
    RaStale <- 1, RaTime <- 2, RaRuns <- 3,
    ArLength <- 1, ArRetention <- 1, ArWindow <- 2, ArBuckets <- 1, ArRows <- 3, ArTime <- 4,
    ExReader <- Worker, ExKind <- {"traffic"}, ExRowsOf <- ExportRows, ExLimit <- 1, ExTtl <- 2,
    ExTime <- 4, ExPromotions <- 2, ExEdits <- 0,
    PrTtl <- 2, PrWindow <- 3, PrStale <- 2, PrLimit <- 1, PrRows <- 3, PrUpdates <- 3, PrTime <- 4

\* The finite sets of ServiceProofs are those of this module.
LEMMA SameFinite == \A set : S!IsFiniteSet(set) = IsFiniteSet(set)
  BY DEF S!IsFiniteSet, IsFiniteSet

\* A behaviour that runs the statistics cache is one of its module.
LEMMA StatisticsRun == Spec => S!Statistics!Spec \/ [](~ Running("statistics"))
<1>1. Init /\ Running("statistics") => S!Statistics!Init
  BY DEF Running, Init, Statistics!Init, S!Statistics!Init, Statistics!Nobody, S!Statistics!Nobody,
     Statistics!None, S!Statistics!None
<1>2. Statistics!Next => S!Statistics!Next
  BY DEF Statistics!Next, S!Statistics!Next, Statistics!Tick, S!Statistics!Tick, Statistics!Miss,
     S!Statistics!Miss, Statistics!Acquire, S!Statistics!Acquire, Statistics!Answered,
     S!Statistics!Answered, Statistics!Refused, S!Statistics!Refused, Statistics!Calculate,
     S!Statistics!Calculate, Statistics!Store, S!Statistics!Store, Statistics!Fail,
     S!Statistics!Fail, Statistics!Leave, S!Statistics!Leave, Statistics!Live, S!Statistics!Live,
     Statistics!Looked, S!Statistics!Looked, Statistics!Dropped, S!Statistics!Dropped,
     Statistics!Calculating, S!Statistics!Calculating, Statistics!Nobody, S!Statistics!Nobody,
     Statistics!None, S!Statistics!None, Statistics!Cardinality, S!Statistics!Cardinality
<1>3. Running("statistics") /\ [Next]_vars => [S!Statistics!Next]_(S!Statistics!vars)
  BY <1>2 DEF Running, Next, vars, otherThanStatistics, Statistics!vars, statisticsVars,
     S!Statistics!vars
<1>4. [Next]_vars => (Running("statistics") <=> Running("statistics")')
  BY ServiceStays
<1>5. QED
  BY <1>1, <1>3, <1>4, PTL DEF Spec, S!Statistics!Spec

\* A behaviour that runs the reference lists is one of its module.
LEMMA ReferencesRun == Spec => S!Reference!Spec \/ [](~ Running("references"))
<1>1. Init /\ Running("references") => S!Reference!Init
  BY DEF Running, Init, Reference!Init, S!Reference!Init, Reference!Nobody, S!Reference!Nobody,
     Reference!None, S!Reference!None, Reference!Scope, S!Reference!Scope, Reference!NoHead,
     S!Reference!NoHead
<1>2. Reference!Next => S!Reference!Next
  BY DEF Reference!Next, S!Reference!Next, Reference!Tick, S!Reference!Tick, Reference!EnableMap,
     S!Reference!EnableMap, Reference!Begin, S!Reference!Begin, Reference!Fetch, S!Reference!Fetch,
     Reference!FetchFails, S!Reference!FetchFails, Reference!Store, S!Reference!Store,
     Reference!StoreFails, S!Reference!StoreFails, Reference!Crash, S!Reference!Crash,
     Reference!LeaseLost, S!Reference!LeaseLost, Reference!Fail, S!Reference!Fail, Reference!Reset,
     S!Reference!Reset, Reference!Released, S!Reference!Released, Reference!Due, S!Reference!Due,
     Reference!BaseCount, S!Reference!BaseCount, Reference!Dropped, S!Reference!Dropped,
     Reference!Accepted, S!Reference!Accepted, Reference!MarkedFailure, S!Reference!MarkedFailure,
     Reference!LoadedHead, S!Reference!LoadedHead, Reference!DropsBelowHead,
     S!Reference!DropsBelowHead, Reference!Overtaken, S!Reference!Overtaken, Reference!Promoted,
     S!Reference!Promoted, Reference!ScopesOf, S!Reference!ScopesOf, Reference!Cardinality,
     S!Reference!Cardinality, Reference!Nobody, S!Reference!Nobody, Reference!None,
     S!Reference!None, Reference!Scope, S!Reference!Scope, Reference!NoHead, S!Reference!NoHead,
     Reference!dbVars, S!Reference!dbVars, Reference!procVars, S!Reference!procVars
<1>3. Running("references") /\ [Next]_vars => [S!Reference!Next]_(S!Reference!vars)
  BY <1>2 DEF Running, Next, vars, otherThanReference, referenceVars, Reference!vars,
     Reference!dbVars, Reference!procVars, S!Reference!vars, S!Reference!dbVars,
     S!Reference!procVars
<1>4. [Next]_vars => (Running("references") <=> Running("references")')
  BY ServiceStays
<1>5. QED
  BY <1>1, <1>3, <1>4, PTL DEF Spec, S!Reference!Spec

\* A behaviour that runs the analytics is one of its module.
LEMMA AnalyticsRuns == Spec => S!Analytics!Spec \/ [](~ Running("analytics"))
<1>1. Init /\ Running("analytics") => S!Analytics!Init
  BY DEF Running, Init, Analytics!Init, S!Analytics!Init, Analytics!Nobody, S!Analytics!Nobody,
     Analytics!Idle, S!Analytics!Idle, Analytics!Empty, S!Analytics!Empty
<1>2. Analytics!Next => S!Analytics!Next
  BY DEF Analytics!Next, S!Analytics!Next, Analytics!CollectBegin, S!Analytics!CollectBegin,
     Analytics!CollectInsert, S!Analytics!CollectInsert, Analytics!CollectEnd,
     S!Analytics!CollectEnd, Analytics!LockLost, S!Analytics!LockLost, Analytics!Free,
     S!Analytics!Free, Analytics!RefreshBegin, S!Analytics!RefreshBegin, Analytics!RefreshRead,
     S!Analytics!RefreshRead, Analytics!RefreshEnd, S!Analytics!RefreshEnd, Analytics!Nobody,
     S!Analytics!Nobody, Analytics!Idle, S!Analytics!Idle, Analytics!Empty, S!Analytics!Empty,
     Analytics!refreshVars, S!Analytics!refreshVars
<1>3. Running("analytics") /\ [Next]_vars => [S!Analytics!Next]_(S!Analytics!vars)
  BY <1>2 DEF Running, Next, vars, otherThanAnalytics, analyticsVars, Analytics!vars,
     Analytics!refreshVars, S!Analytics!vars, S!Analytics!refreshVars
<1>4. [Next]_vars => (Running("analytics") <=> Running("analytics")')
  BY ServiceStays
<1>5. QED
  BY <1>1, <1>3, <1>4, PTL DEF Spec, S!Analytics!Spec

\* A behaviour that runs the flight cache is one of its module.
LEMMA FlightsRun == Spec => S!OnDemand!Spec \/ [](~ Running("flights"))
<1>1. Init /\ Running("flights") => S!OnDemand!Init
  BY DEF Running, Init, Flights!Init, S!OnDemand!Init, Flights!None, S!OnDemand!None,
     Flights!NoEntry, S!OnDemand!NoEntry, Flights!NoReply, S!OnDemand!NoReply
<1>2. Flights!Next => S!OnDemand!Next
  BY DEF Flights!Next, S!OnDemand!Next, Flights!Tick, S!OnDemand!Tick, Flights!Change,
     S!OnDemand!Change, Flights!Answered, S!OnDemand!Answered, Flights!Live, S!OnDemand!Live,
     Flights!Request, S!OnDemand!Request, Flights!Upstream, S!OnDemand!Upstream,
     Flights!ProviderAnswers, S!OnDemand!ProviderAnswers, Flights!Life, S!OnDemand!Life,
     Flights!Expiry, S!OnDemand!Expiry, Flights!Return, S!OnDemand!Return, Flights!None,
     S!OnDemand!None, Flights!NoEntry, S!OnDemand!NoEntry, Flights!NoReply, S!OnDemand!NoReply,
     Flights!procVars, S!OnDemand!procVars
<1>3. Running("flights") /\ [Next]_vars => [S!OnDemand!Next]_(S!OnDemand!vars)
  BY <1>2 DEF Running, Next, vars, otherThanOnDemand, onDemandVars, Flights!vars, Flights!procVars,
     S!OnDemand!vars, S!OnDemand!procVars
<1>4. [Next]_vars => (Running("flights") <=> Running("flights")')
  BY ServiceStays
<1>5. QED
  BY <1>1, <1>3, <1>4, PTL DEF Spec, S!OnDemand!Spec

\* A behaviour that runs the road traffic map is one of its module.
LEMMA RoadsRun == Spec => S!Roads!Spec \/ [](~ Running("road traffic"))
<1>1. Init /\ Running("road traffic") => S!Roads!Init
  BY DEF Running, Init, Roads!Init, S!Roads!Init, Roads!Nobody, S!Roads!Nobody, Roads!None,
     S!Roads!None, Roads!Days, S!Roads!Days, Roads!NoAnswer, S!Roads!NoAnswer
<1>2. Roads!Next => S!Roads!Next
  BY DEF Roads!Next, S!Roads!Next, Roads!Today, S!Roads!Today, Roads!Tick, S!Roads!Tick,
     Roads!Entries, S!Roads!Entries, Roads!Young, S!Roads!Young, Roads!Place, S!Roads!Place,
     Roads!Without, S!Roads!Without, Roads!MovedToEnd, S!Roads!MovedToEnd, Roads!Put, S!Roads!Put,
     Roads!Given, S!Roads!Given, Roads!Failing, S!Roads!Failing, Roads!Fallback, S!Roads!Fallback,
     Roads!Leave, S!Roads!Leave, Roads!Request, S!Roads!Request, Roads!Attempts, S!Roads!Attempts,
     Roads!Refused, S!Roads!Refused, Roads!Locked, S!Roads!Locked, Roads!LockedHit,
     S!Roads!LockedHit, Roads!LockedRefused, S!Roads!LockedRefused, Roads!CountedOnStart,
     S!Roads!CountedOnStart, Roads!FetchBegin, S!Roads!FetchBegin, Roads!FetchOk, S!Roads!FetchOk,
     Roads!FetchFails, S!Roads!FetchFails, Roads!TimeoutBlock, S!Roads!TimeoutBlock, Roads!Timeout,
     S!Roads!Timeout, Roads!Range, S!Roads!Range, Roads!Nobody, S!Roads!Nobody, Roads!None,
     S!Roads!None, Roads!Days, S!Roads!Days, Roads!NoAnswer, S!Roads!NoAnswer, Roads!worker,
     S!Roads!worker
<1>3. Running("road traffic") /\ [Next]_vars => [S!Roads!Next]_(S!Roads!vars)
  BY <1>2 DEF Running, Next, vars, otherThanRoads, roadsVars, Roads!vars, Roads!worker,
     S!Roads!vars, S!Roads!worker
<1>4. [Next]_vars => (Running("road traffic") <=> Running("road traffic")')
  BY ServiceStays
<1>5. QED
  BY <1>1, <1>3, <1>4, PTL DEF Spec, S!Roads!Spec

\* A behaviour that runs the backups is one of its module.
LEMMA BackupsRun == Spec => S!Backups!Spec \/ [](~ Running("backups"))
<1>1. Init /\ Running("backups") => S!Backups!Init
  BY DEF Running, Init, Backups!Init, S!Backups!Init
<1>2. Backups!Next => S!Backups!Next
  BY DEF Backups!Next, S!Backups!Next, Backups!WriteDb, S!Backups!WriteDb, Backups!Size,
     S!Backups!Size, Backups!Cuts, S!Backups!Cuts, Backups!Fits, S!Backups!Fits, Backups!Kept,
     S!Backups!Kept, Backups!Protected, S!Backups!Protected, Backups!Begin, S!Backups!Begin,
     Backups!Dump, S!Backups!Dump, Backups!Upload, S!Backups!Upload, Backups!MakeRoom,
     S!Backups!MakeRoom, Backups!Publish, S!Backups!Publish, Backups!Retained, S!Backups!Retained,
     Backups!Prune, S!Backups!Prune, Backups!Done, S!Backups!Done, Backups!Restore,
     S!Backups!Restore, Backups!Remove, S!Backups!Remove, Backups!Fail, S!Backups!Fail, Backups!Crash, S!Backups!Crash, Backups!File,
     S!Backups!File, Backups!Min, S!Backups!Min, Backups!Cardinality, S!Backups!Cardinality
<1>3. Running("backups") /\ [Next]_vars => [S!Backups!Next]_(S!Backups!vars)
  BY <1>2 DEF Running, Next, vars, otherThanBackups, backupsVars, Backups!vars, S!Backups!vars
<1>4. [Next]_vars => (Running("backups") <=> Running("backups")')
  BY ServiceStays
<1>5. QED
  BY <1>1, <1>3, <1>4, PTL DEF Spec, S!Backups!Spec

\* A behaviour that runs the place searches, one run at a time, is one of its module.
LEMMA PlacesRun == Spec => S!Places!Spec \/ [](~ Running("places"))
<1>1. Init /\ Running("places") => S!Places!Init
  BY DEF Running, Init, Places!Init, S!Places!Init, Places!Nobody, S!Places!Nobody, Places!Nothing,
     S!Places!Nothing, Places!Searches, S!Places!Searches, Places!NoLoc, S!Places!NoLoc
<1>2. Places!Next => S!Places!Next
  BY DEF Places!Next, S!Places!Next, Places!Tick, S!Places!Tick, Places!Today, S!Places!Today,
     Places!Busy, S!Places!Busy, Places!OfKind, S!Places!OfKind, Places!Begin, S!Places!Begin,
     Places!End, S!Places!End, Places!LockLost, S!Places!LockLost, Places!Answered,
     S!Places!Answered, Places!Searchable, S!Places!Searchable, Places!QueryName,
     S!Places!QueryName, Places!Affordable, S!Places!Affordable, Places!Wanted, S!Places!Wanted,
     Places!Skip, S!Places!Skip, Places!Reserve, S!Places!Reserve, Places!Deferred,
     S!Places!Deferred, Places!MyReceipt, S!Places!MyReceipt, Places!Marked, S!Places!Marked,
     Places!Stored, S!Places!Stored, Places!Answer, S!Places!Answer, Places!CallFails,
     S!Places!CallFails, Places!LoopDone, S!Places!LoopDone, Places!TerminalLoc,
     S!Places!TerminalLoc, Places!PortLoc, S!Places!PortLoc, Places!Upsert, S!Places!Upsert,
     Places!Abort, S!Places!Abort, Places!Open, S!Places!Open, Places!Unchanged, S!Places!Unchanged,
     Places!Save, S!Places!Save, Places!Located, S!Places!Located, Places!Cardinality,
     S!Places!Cardinality, Places!Nobody, S!Places!Nobody, Places!Nothing, S!Places!Nothing,
     Places!Searches, S!Places!Searches, Places!NoLoc, S!Places!NoLoc, Places!rowVars,
     S!Places!rowVars, Places!procVars, S!Places!procVars
<1>3. Running("places") /\ [Next]_vars => [S!Places!Next]_(S!Places!vars)
  BY <1>2 DEF Running, Next, vars, otherThanPlace, placeVars, Places!vars, Places!rowVars,
     Places!procVars, S!Places!vars, S!Places!rowVars, S!Places!procVars
<1>4. [Next]_vars => (Running("places") <=> Running("places")')
  BY ServiceStays
<1>5. QED
  BY <1>1, <1>3, <1>4, PTL DEF Spec, S!Places!Spec

\* A behaviour that runs the station mappings is one of its module.
LEMMA MappingRuns == Spec => S!Mapping!Spec \/ [](~ Running("rail mapping"))
<1>1. Init /\ Running("rail mapping") => S!Mapping!Init
  BY DEF Running, Init, Mapping!Init, S!Mapping!Init, Mapping!None, S!Mapping!None, Mapping!Empty,
     S!Mapping!Empty, Mapping!NoRevision, S!Mapping!NoRevision
<1>2. Mapping!Next => S!Mapping!Next
  BY DEF Mapping!Next, S!Mapping!Next, Mapping!Exact, S!Mapping!Exact, Mapping!AmbiguousAlias,
     S!Mapping!AmbiguousAlias, Mapping!ByNumber, S!Mapping!ByNumber, Mapping!Automatic,
     S!Mapping!Automatic, Mapping!Effective, S!Mapping!Effective, Mapping!LoadedAuto,
     S!Mapping!LoadedAuto, Mapping!Revision, S!Mapping!Revision, Mapping!SyncRead,
     S!Mapping!SyncRead, Mapping!SyncCommit, S!Mapping!SyncCommit, Mapping!SyncFails,
     S!Mapping!SyncFails, Mapping!UpsertStation, S!Mapping!UpsertStation, Mapping!Open,
     S!Mapping!Open, Mapping!Visible, S!Mapping!Visible, Mapping!Leave, S!Mapping!Leave, Mapping!ValidManual, S!Mapping!ValidManual,
     Mapping!Links, S!Mapping!Links, Mapping!IsInjective, S!Mapping!IsInjective, Mapping!Save,
     S!Mapping!Save, Mapping!CanApply, S!Mapping!CanApply, Mapping!Apply, S!Mapping!Apply,
     Mapping!Cardinality, S!Mapping!Cardinality, Mapping!None, S!Mapping!None, Mapping!Empty,
     S!Mapping!Empty, Mapping!NoRevision, S!Mapping!NoRevision
<1>3. Running("rail mapping") /\ [Next]_vars => [S!Mapping!Next]_(S!Mapping!vars)
  BY <1>2 DEF Running, Next, vars, otherThanMapping, mappingVars, Mapping!vars, S!Mapping!vars
<1>4. [Next]_vars => (Running("rail mapping") <=> Running("rail mapping")')
  BY ServiceStays
<1>5. QED
  BY <1>1, <1>3, <1>4, PTL DEF Spec, S!Mapping!Spec

\* A behaviour that runs the bus timetables is one of its module.
LEMMA BusTimesRun == Spec => S!Times!Spec \/ [](~ Running("bus timetables"))
<1>1. Init /\ Running("bus timetables") => S!Times!Init
  BY DEF Running, Init, BusTimes!Init, S!Times!Init, BusTimes!None, S!Times!None, BusTimes!Nobody,
     S!Times!Nobody, BusTimes!NoDates, S!Times!NoDates
<1>2. BusTimes!Next => S!Times!Next
  BY DEF BusTimes!Next, S!Times!Next, BusTimes!Tick, S!Times!Tick, BusTimes!InRange,
     S!Times!InRange, BusTimes!Today, S!Times!Today, BusTimes!Stale, S!Times!Stale, BusTimes!Cached,
     S!Times!Cached, BusTimes!Limited, S!Times!Limited, BusTimes!Answers, S!Times!Answers,
     BusTimes!Request, S!Times!Request, BusTimes!Leave, S!Times!Leave, BusTimes!TooSoon,
     S!Times!TooSoon, BusTimes!Refused, S!Times!Refused, BusTimes!Call, S!Times!Call,
     BusTimes!BusRow, S!Times!BusRow, BusTimes!CallOk, S!Times!CallOk, BusTimes!CallFails,
     S!Times!CallFails, BusTimes!CollectorBegin, S!Times!CollectorBegin, BusTimes!Reused,
     S!Times!Reused, BusTimes!CollectorSkip, S!Times!CollectorSkip, BusTimes!CollectorCall,
     S!Times!CollectorCall, BusTimes!CollectorStore, S!Times!CollectorStore,
     BusTimes!Turn, S!Times!Turn, BusTimes!CollectorEnd, S!Times!CollectorEnd, BusTimes!Cardinality,
     S!Times!Cardinality, BusTimes!None, S!Times!None, BusTimes!Nobody, S!Times!Nobody,
     BusTimes!NoDates, S!Times!NoDates, BusTimes!workerVars, S!Times!workerVars, BusTimes!procVars,
     S!Times!procVars, BusTimes!collectorVars, S!Times!collectorVars
<1>3. Running("bus timetables") /\ [Next]_vars => [S!Times!Next]_(S!Times!vars)
  BY <1>2 DEF Running, Next, vars, otherThanTimetable, timetableVars, BusTimes!vars,
     BusTimes!workerVars, BusTimes!procVars, BusTimes!collectorVars, S!Times!vars,
     S!Times!workerVars, S!Times!procVars, S!Times!collectorVars
<1>4. [Next]_vars => (Running("bus timetables") <=> Running("bus timetables")')
  BY ServiceStays
<1>5. QED
  BY <1>1, <1>3, <1>4, PTL DEF Spec, S!Times!Spec

\* A behaviour that runs the rail timetables is one of its module.
LEMMA RailTimesRun == Spec => S!Kric!Spec \/ [](~ Running("rail timetables"))
<1>1. Init /\ Running("rail timetables") => S!Kric!Init
  BY DEF Running, Init, RailTimes!Init, S!Kric!Init, RailTimes!None, S!Kric!None, RailTimes!Nobody,
     S!Kric!Nobody, RailTimes!NoOutcome, S!Kric!NoOutcome
<1>2. RailTimes!Next => S!Kric!Next
  BY DEF RailTimes!Next, S!Kric!Next, RailTimes!Tick, S!Kric!Tick, RailTimes!Idle, S!Kric!Idle,
     RailTimes!Lock, S!Kric!Lock, RailTimes!Due, S!Kric!Due, RailTimes!Begin, S!Kric!Begin,
     RailTimes!NotDue, S!Kric!NotDue, RailTimes!Code, S!Kric!Code, RailTimes!Usable, S!Kric!Usable,
     RailTimes!Calendar, S!Kric!Calendar, RailTimes!Candidates, S!Kric!Candidates, RailTimes!Before,
     S!Kric!Before, RailTimes!Chosen, S!Kric!Chosen, RailTimes!Codes, S!Kric!Codes,
     RailTimes!OutOfTime, S!Kric!OutOfTime, RailTimes!IsNext, S!Kric!IsNext, RailTimes!CallOk,
     S!Kric!CallOk, RailTimes!Stops, S!Kric!Stops, RailTimes!CallFails, S!Kric!CallFails,
     RailTimes!Finish, S!Kric!Finish, RailTimes!Abort, S!Kric!Abort, RailTimes!Cardinality,
     S!Kric!Cardinality, RailTimes!None, S!Kric!None, RailTimes!Nobody, S!Kric!Nobody,
     RailTimes!NoOutcome, S!Kric!NoOutcome, RailTimes!procVars, S!Kric!procVars
<1>3. Running("rail timetables") /\ [Next]_vars => [S!Kric!Next]_(S!Kric!vars)
  BY <1>2 DEF Running, Next, vars, otherThanRailTimes, railTimesVars, RailTimes!vars,
     RailTimes!procVars, S!Kric!vars, S!Kric!procVars
<1>4. [Next]_vars => (Running("rail timetables") <=> Running("rail timetables")')
  BY ServiceStays
<1>5. QED
  BY <1>1, <1>3, <1>4, PTL DEF Spec, S!Kric!Spec

\* A behaviour that runs the ferry reference files is one of its module.
LEMMA HubRuns == Spec => S!Hub!Spec \/ [](~ Running("ferry reference"))
<1>1. Init /\ Running("ferry reference") => S!Hub!Init
  BY DEF Running, Init, Hub!Init, S!Hub!Init, Hub!None, S!Hub!None, Hub!Nobody, S!Hub!Nobody,
     Hub!NoRow, S!Hub!NoRow
<1>2. Hub!Next => S!Hub!Next
  BY DEF Hub!Next, S!Hub!Next, Hub!Tick, S!Hub!Tick, Hub!Begin, S!Hub!Begin, Hub!Published,
     S!Hub!Published, Hub!Skip, S!Hub!Skip, Hub!Recent, S!Hub!Recent, Hub!Reuses, S!Hub!Reuses,
     Hub!Attempt, S!Hub!Attempt, Hub!Candidate, S!Hub!Candidate, Hub!Download, S!Hub!Download,
     Hub!Publish, S!Hub!Publish, Hub!Fails, S!Hub!Fails, Hub!End, S!Hub!End, Hub!Max, S!Hub!Max,
     Hub!None, S!Hub!None, Hub!Nobody, S!Hub!Nobody, Hub!NoRow, S!Hub!NoRow, Hub!procVars,
     S!Hub!procVars
<1>3. Running("ferry reference") /\ [Next]_vars => [S!Hub!Next]_(S!Hub!vars)
  BY <1>2 DEF Running, Next, vars, otherThanHub, hubVars, Hub!vars, Hub!procVars, S!Hub!vars,
     S!Hub!procVars
<1>4. [Next]_vars => (Running("ferry reference") <=> Running("ferry reference")')
  BY ServiceStays
<1>5. QED
  BY <1>1, <1>3, <1>4, PTL DEF Spec, S!Hub!Spec

\* Each action of the highway collection is that of the instance proved about.
LEMMA HighwayActions ==
  ASSUME NEW p, NEW s
  PROVE  /\ Highway!Tick <=> S!Highway!Tick
         /\ Highway!Claim(p) <=> S!Highway!Claim(p)
         /\ Highway!Fetch(p) <=> S!Highway!Fetch(p)
         /\ Highway!StoreTraffic(p) <=> S!Highway!StoreTraffic(p)
         /\ Highway!StoreIncidents(p) <=> S!Highway!StoreIncidents(p)
         /\ Highway!StoreError(p, s) <=> S!Highway!StoreError(p, s)
         /\ Highway!StoreFails(p, s) <=> S!Highway!StoreFails(p, s)
         /\ Highway!Finish(p) <=> S!Highway!Finish(p)
         /\ Highway!Cancel(p) <=> S!Highway!Cancel(p)
         /\ Highway!Crash(p) <=> S!Highway!Crash(p)
<1>1. Highway!Tick <=> S!Highway!Tick
  BY DEF Highway!Tick, S!Highway!Tick, Highway!dbVars, S!Highway!dbVars, Highway!procVars,
     S!Highway!procVars, Highway!None, S!Highway!None, Highway!Source, S!Highway!Source,
     Highway!Traffic, S!Highway!Traffic, Highway!Incident, S!Highway!Incident
<1>2. Highway!Claim(p) <=> S!Highway!Claim(p)
  BY DEF Highway!Claim, S!Highway!Claim, Highway!Due, S!Highway!Due, Highway!Cardinality,
     S!Highway!Cardinality, Highway!None, S!Highway!None, Highway!Source, S!Highway!Source,
     Highway!Traffic, S!Highway!Traffic, Highway!Incident, S!Highway!Incident
<1>3. Highway!Fetch(p) <=> S!Highway!Fetch(p)
  BY DEF Highway!Fetch, S!Highway!Fetch, Highway!Outcomes, S!Highway!Outcomes, Highway!Answered,
     S!Highway!Answered, Highway!Suspicious, S!Highway!Suspicious, Highway!Confirmed,
     S!Highway!Confirmed, Highway!Size, S!Highway!Size, Highway!Cardinality, S!Highway!Cardinality,
     Highway!NoAnswer, S!Highway!NoAnswer, Highway!dbVars, S!Highway!dbVars, Highway!None,
     S!Highway!None, Highway!Source, S!Highway!Source, Highway!Traffic, S!Highway!Traffic,
     Highway!Incident, S!Highway!Incident
<1>4. Highway!StoreTraffic(p) <=> S!Highway!StoreTraffic(p)
  BY DEF Highway!StoreTraffic, S!Highway!StoreTraffic, Highway!Turn, S!Highway!Turn, Highway!Leave,
     S!Highway!Leave, Highway!NoAnswer, S!Highway!NoAnswer, Highway!MarkedSuccess,
     S!Highway!MarkedSuccess, Highway!Size, S!Highway!Size, Highway!Cardinality,
     S!Highway!Cardinality, Highway!NewHistory, S!Highway!NewHistory, Highway!Time, S!Highway!Time,
     Highway!Points, S!Highway!Points, Highway!Observed, S!Highway!Observed, Highway!Rebuilt,
     S!Highway!Rebuilt, Highway!Overtaken, S!Highway!Overtaken, Highway!NewCurrent,
     S!Highway!NewCurrent, Highway!None, S!Highway!None, Highway!Source, S!Highway!Source,
     Highway!Traffic, S!Highway!Traffic, Highway!Incident, S!Highway!Incident
<1>5. Highway!StoreIncidents(p) <=> S!Highway!StoreIncidents(p)
  BY DEF Highway!StoreIncidents, S!Highway!StoreIncidents, Highway!Turn, S!Highway!Turn,
     Highway!Leave, S!Highway!Leave, Highway!NoAnswer, S!Highway!NoAnswer, Highway!MarkedSuccess,
     S!Highway!MarkedSuccess, Highway!Size, S!Highway!Size, Highway!Cardinality,
     S!Highway!Cardinality, Highway!Recorded, S!Highway!Recorded, Highway!None, S!Highway!None,
     Highway!Source, S!Highway!Source, Highway!Traffic, S!Highway!Traffic, Highway!Incident,
     S!Highway!Incident
<1>6. Highway!StoreError(p, s) <=> S!Highway!StoreError(p, s)
  BY DEF Highway!StoreError, S!Highway!StoreError, Highway!Turn, S!Highway!Turn, Highway!Leave,
     S!Highway!Leave, Highway!NoAnswer, S!Highway!NoAnswer, Highway!MarkFailure,
     S!Highway!MarkFailure, Highway!None, S!Highway!None, Highway!Source, S!Highway!Source,
     Highway!Traffic, S!Highway!Traffic, Highway!Incident, S!Highway!Incident
<1>7. Highway!StoreFails(p, s) <=> S!Highway!StoreFails(p, s)
  BY DEF Highway!StoreFails, S!Highway!StoreFails, Highway!Turn, S!Highway!Turn, Highway!Leave,
     S!Highway!Leave, Highway!NoAnswer, S!Highway!NoAnswer, Highway!MarkFailure,
     S!Highway!MarkFailure, Highway!None, S!Highway!None, Highway!Source, S!Highway!Source,
     Highway!Traffic, S!Highway!Traffic, Highway!Incident, S!Highway!Incident
<1>8. Highway!Finish(p) <=> S!Highway!Finish(p)
  BY DEF Highway!Finish, S!Highway!Finish, Highway!Reset, S!Highway!Reset, Highway!NoAnswer,
     S!Highway!NoAnswer, Highway!dbVars, S!Highway!dbVars, Highway!None, S!Highway!None,
     Highway!Source, S!Highway!Source, Highway!Traffic, S!Highway!Traffic, Highway!Incident,
     S!Highway!Incident
<1>9. Highway!Cancel(p) <=> S!Highway!Cancel(p)
  BY DEF Highway!Cancel, S!Highway!Cancel, Highway!Reset, S!Highway!Reset, Highway!NoAnswer,
     S!Highway!NoAnswer, Highway!None, S!Highway!None, Highway!Source, S!Highway!Source,
     Highway!Traffic, S!Highway!Traffic, Highway!Incident, S!Highway!Incident
<1>10. Highway!Crash(p) <=> S!Highway!Crash(p)
  BY DEF Highway!Crash, S!Highway!Crash, Highway!Reset, S!Highway!Reset, Highway!NoAnswer,
     S!Highway!NoAnswer, Highway!dbVars, S!Highway!dbVars, Highway!None, S!Highway!None,
     Highway!Source, S!Highway!Source, Highway!Traffic, S!Highway!Traffic, Highway!Incident,
     S!Highway!Incident
<1>11. QED
  BY <1>1, <1>2, <1>3, <1>4, <1>5, <1>6, <1>7, <1>8, <1>9, <1>10

\* A behaviour that runs the highway collection is one of its module.
LEMMA HighwayRuns == Spec => S!Highway!Spec \/ [](~ Running("highway"))
<1>1. Init /\ Running("highway") => S!Highway!Init
  BY DEF Running, Init, Highway!Init, S!Highway!Init, Highway!Traffic, S!Highway!Traffic,
     Highway!Incident, S!Highway!Incident, Highway!Source, S!Highway!Source, Highway!None,
     S!Highway!None, Highway!Time, S!Highway!Time, Highway!NoAnswer, S!Highway!NoAnswer,
     Highway!NoRow, S!Highway!NoRow
<1>2. Highway!Next => S!Highway!Next
  BY HighwayActions DEF Highway!Next, S!Highway!Next, Highway!Step, S!Highway!Step, Highway!Source,
     S!Highway!Source, Highway!Traffic, S!Highway!Traffic, Highway!Incident, S!Highway!Incident
<1>3. Running("highway") /\ [Next]_vars => [S!Highway!Next]_(S!Highway!vars)
  BY <1>2 DEF Running, Next, vars, otherThanHighway, highwayVars, Highway!vars, Highway!dbVars,
     Highway!procVars, S!Highway!vars, S!Highway!dbVars, S!Highway!procVars
<1>4. [Next]_vars => (Running("highway") <=> Running("highway")')
  BY ServiceStays
<1>5. QED
  BY <1>1, <1>3, <1>4, PTL DEF Spec, S!Highway!Spec

\* A behaviour that runs the rest areas is one of its module.
LEMMA RestRuns == Spec => S!Rest!Spec \/ [](~ Running("rest areas"))
<1>1. Init /\ Running("rest areas") => S!Rest!Init
  BY DEF Running, Init, Rest!None, S!Rest!None, Rest!NoRow, S!Rest!NoRow, Rest!Init, S!Rest!Init
<1>2. Rest!Next => S!Rest!Next
  BY DEF Rest!dbVars, S!Rest!dbVars, Rest!procVars, S!Rest!procVars, Rest!clientVars,
     S!Rest!clientVars, Rest!None, S!Rest!None, Rest!Tick, S!Rest!Tick, Rest!CurrentSet,
     S!Rest!CurrentSet, Rest!StillDue, S!Rest!StillDue, Rest!Served, S!Rest!Served, Rest!Start,
     S!Rest!Start, Rest!Fetch, S!Rest!Fetch, Rest!Fail, S!Rest!Fail, Rest!FetchFails,
     S!Rest!FetchFails, Rest!Conflict, S!Rest!Conflict, Rest!Unstorable, S!Rest!Unstorable,
     Rest!StoreFails, S!Rest!StoreFails, Rest!Upsert, S!Rest!Upsert, Rest!Store, S!Rest!Store,
     Rest!Publish, S!Rest!Publish, Rest!Begin, S!Rest!Begin, Rest!Rest, S!Rest!Rest, Rest!IsPage,
     S!Rest!IsPage, Rest!Pages, S!Rest!Pages, Rest!Page, S!Rest!Page, Rest!Refused, S!Rest!Refused,
     Rest!Next, S!Rest!Next, Rest!Cardinality, S!Rest!Cardinality
<1>3. Running("rest areas") /\ [Next]_vars => [S!Rest!Next]_(S!Rest!vars)
  BY <1>2 DEF Running, Next, vars, otherThanRest, restVars, Rest!dbVars, Rest!procVars,
     Rest!clientVars, Rest!vars, S!Rest!dbVars, S!Rest!procVars, S!Rest!clientVars, S!Rest!vars
<1>4. [Next]_vars => (Running("rest areas") <=> Running("rest areas")')
  BY ServiceStays
<1>5. QED
  BY <1>1, <1>3, <1>4, PTL DEF Spec, S!Rest!Spec

\* A behaviour that runs the archive is one of its module.
LEMMA ArchiveRuns == Spec => S!Archive!Spec \/ [](~ Running("archive"))
<1>1. Init /\ Running("archive") => S!Archive!Init
  BY DEF Running, Init, Archive!Nobody, S!Archive!Nobody, Archive!Init, S!Archive!Init
<1>2. Archive!Next => S!Archive!Next
  BY DEF Archive!runVars, S!Archive!runVars, Archive!Nobody, S!Archive!Nobody, Archive!BucketOf,
     S!Archive!BucketOf, Archive!Tick, S!Archive!Tick, Archive!Insert, S!Archive!Insert,
     Archive!Commit, S!Archive!Commit, Archive!RowsOf, S!Archive!RowsOf, Archive!RecordOf,
     S!Archive!RecordOf, Archive!Preferred, S!Archive!Preferred, Archive!Last, S!Archive!Last,
     Archive!PreviousAt, S!Archive!PreviousAt, Archive!Built, S!Archive!Built, Archive!Covered,
     S!Archive!Covered, Archive!Cutoff, S!Archive!Cutoff, Archive!CompleteBefore,
     S!Archive!CompleteBefore, Archive!Start, S!Archive!Start, Archive!Advanced, S!Archive!Advanced,
     Archive!Verified, S!Archive!Verified, Archive!Deferred, S!Archive!Deferred, Archive!Bucket,
     S!Archive!Bucket, Archive!Reset, S!Archive!Reset, Archive!Conflict, S!Archive!Conflict,
     Archive!Finish, S!Archive!Finish, Archive!Abort, S!Archive!Abort, Archive!Next, S!Archive!Next,
     Archive!Cardinality, S!Archive!Cardinality, Archive!Max, S!Archive!Max, Archive!Min,
     S!Archive!Min
<1>3. Running("archive") /\ [Next]_vars => [S!Archive!Next]_(S!Archive!vars)
  BY <1>2 DEF Running, Next, vars, otherThanArchive, archiveVars, Archive!runVars, Archive!vars,
     S!Archive!runVars, S!Archive!vars
<1>4. [Next]_vars => (Running("archive") <=> Running("archive")')
  BY ServiceStays
<1>5. QED
  BY <1>1, <1>3, <1>4, PTL DEF Spec, S!Archive!Spec

\* A behaviour that runs the export of the traffic is one of its module.
LEMMA TrafficExportRuns == Spec => S!Export!Spec \/ [](~ Running("traffic export"))
<1>1. Init /\ Running("traffic export") => S!Export!Init
  BY DEF Running, Init, TrafficExport!Row, S!Export!Row, TrafficExport!AllRows, S!Export!AllRows,
     TrafficExport!ScopesOf, S!Export!ScopesOf, TrafficExport!Scope, S!Export!Scope,
     TrafficExport!NoHead, S!Export!NoHead, TrafficExport!NoCursor, S!Export!NoCursor,
     TrafficExport!NoView, S!Export!NoView, TrafficExport!Nothing, S!Export!Nothing,
     TrafficExport!Init, S!Export!Init
<1>2. TrafficExport!Next => S!Export!Next
  BY DEF TrafficExport!dbVars, S!Export!dbVars, TrafficExport!txVars, S!Export!txVars,
     TrafficExport!clientVars, S!Export!clientVars, TrafficExport!Row, S!Export!Row,
     TrafficExport!AllRows, S!Export!AllRows, TrafficExport!ScopesOf, S!Export!ScopesOf,
     TrafficExport!InScope, S!Export!InScope, TrafficExport!NoHead, S!Export!NoHead,
     TrafficExport!NoCursor, S!Export!NoCursor,
     TrafficExport!NoView, S!Export!NoView, TrafficExport!Nothing, S!Export!Nothing,
     TrafficExport!Tick, S!Export!Tick, TrafficExport!Epoch, S!Export!Epoch,
     TrafficExport!ExpiresAt, S!Export!ExpiresAt, TrafficExport!ValidHeads, S!Export!ValidHeads,
     TrafficExport!Payload, S!Export!Payload, TrafficExport!Stamped, S!Export!Stamped,
     TrafficExport!Generation, S!Export!Generation, TrafficExport!Promote, S!Export!Promote,
     TrafficExport!ManualEdit, S!Export!ManualEdit, TrafficExport!Snapshot, S!Export!Snapshot,
     TrafficExport!Close, S!Export!Close, TrafficExport!Abandon, S!Export!Abandon,
     TrafficExport!FirstPage, S!Export!FirstPage, TrafficExport!NextPage, S!Export!NextPage,
     TrafficExport!Cached, S!Export!Cached, TrafficExport!Expired, S!Export!Expired,
     TrafficExport!Oldest, S!Export!Oldest, TrafficExport!New, S!Export!New, TrafficExport!SameKey,
     S!Export!SameKey, TrafficExport!Reuse, S!Export!Reuse, TrafficExport!Blocked, S!Export!Blocked,
     TrafficExport!Races, S!Export!Races, TrafficExport!Freeze, S!Export!Freeze, TrafficExport!Race,
     S!Export!Race, TrafficExport!LockTimeout, S!Export!LockTimeout, TrafficExport!FreezeFails,
     S!Export!FreezeFails, TrafficExport!LastOn, S!Export!LastOn, TrafficExport!Page, S!Export!Page,
     TrafficExport!Received, S!Export!Received, TrafficExport!Answer, S!Export!Answer,
     TrafficExport!AnswerFirst, S!Export!AnswerFirst, TrafficExport!Usable, S!Export!Usable,
     TrafficExport!AnswerNext, S!Export!AnswerNext, TrafficExport!Gone, S!Export!Gone,
     TrafficExport!Request, S!Export!Request, TrafficExport!Next, S!Export!Next
<1>3. Running("traffic export") /\ [Next]_vars => [S!Export!Next]_(S!Export!vars)
  BY <1>2 DEF Running, Next, vars, otherThanExports, exportsVars, TrafficExport!dbVars,
     TrafficExport!txVars, TrafficExport!clientVars, TrafficExport!vars, S!Export!dbVars,
     S!Export!txVars, S!Export!clientVars, S!Export!vars
<1>4. [Next]_vars => (Running("traffic export") <=> Running("traffic export")')
  BY ServiceStays
<1>5. QED
  BY <1>1, <1>3, <1>4, PTL DEF Spec, S!Export!Spec

\* A behaviour that runs the price history is one of its module.
LEMMA PricesRun == Spec => S!Prices!Spec \/ [](~ Running("prices"))
<1>1. Init /\ Running("prices") => S!Prices!Init
  BY DEF Running, Init, Prices!None, S!Prices!None, Prices!Init, S!Prices!Init
<1>2. Prices!Next => S!Prices!Next
  BY DEF Prices!None, S!Prices!None, Prices!Tick, S!Prices!Tick, Prices!Collect, S!Prices!Collect,
     Prices!Newer, S!Prices!Newer, Prices!PlaceIn, S!Prices!PlaceIn, Prices!Listed, S!Prices!Listed,
     Prices!InWindow, S!Prices!InWindow, Prices!After, S!Prices!After, Prices!Cursor,
     S!Prices!Cursor, Prices!Paged, S!Prices!Paged, Prices!SourceStatus, S!Prices!SourceStatus,
     Prices!Tag, S!Prices!Tag, Prices!Accepted, S!Prices!Accepted, Prices!FirstPage,
     S!Prices!FirstPage, Prices!NextPage, S!Prices!NextPage, Prices!Next, S!Prices!Next,
     Prices!Cardinality, S!Prices!Cardinality
<1>3. Running("prices") /\ [Next]_vars => [S!Prices!Next]_(S!Prices!vars)
  BY <1>2 DEF Running, Next, vars, otherThanPrices, pricesVars, Prices!vars, S!Prices!vars
<1>4. [Next]_vars => (Running("prices") <=> Running("prices")')
  BY ServiceStays
<1>5. QED
  BY <1>1, <1>3, <1>4, PTL DEF Spec, S!Prices!Spec

\* The settings of the statistics cache are within the bounds of its theorems.
LEMMA StatisticsSettings == S!StatisticsBounds
<1>1. IsFiniteSet({"q1", "q2", "q3"})
  BY PairFinite, FS_AddElement, {"q1", "q2"} \cup {"q3"} = {"q1", "q2", "q3"}
<1>2. QED
  BY <1>1, SameFinite DEF S!StatisticsBounds, S!Statistics!Nobody

\* The highway answers of MCServices list some of its keys, with ages for traffic.
LEMMA KrexBounds == S!HighwayBounds
<1>1. S!IsFiniteSet({"k1", "k2"})
  BY PairFinite, SameFinite
<1>2. DOMAIN <<>> = {} /\ <<>> = [k \in DOMAIN <<>> |-> <<>>[k]]
  OBVIOUS
<1>3. ASSUME NEW m, m \in {<<>>, [k1 |-> 0], [k1 |-> 2], [k1 |-> 0, k2 |-> 0], [k1 |-> 1, k2 |-> 0]}
      PROVE  /\ DOMAIN m \subseteq {"k1", "k2"} /\ m = [k \in DOMAIN m |-> m[k]]
             /\ \A k \in DOMAIN m : m[k] \in Nat
  <2>1. CASE m = <<>>
    BY <1>2, <2>1
  <2>2. CASE m = [k1 |-> 0]
    BY <2>2
  <2>3. CASE m = [k1 |-> 2]
    BY <2>3
  <2>4. CASE m = [k1 |-> 0, k2 |-> 0]
    BY <2>4
  <2>5. CASE m = [k1 |-> 1, k2 |-> 0]
    BY <2>5
  <2>6. QED
    BY <1>3, <2>1, <2>2, <2>3, <2>4, <2>5
<1>4. QED
  BY <1>1, <1>3 DEF S!HighwayBounds, S!Highway!Source, S!Highway!Traffic, S!Highway!Incident,
     KrexAnswers

\* The timetable, KRIC and VadaHub settings of MCServices are within the bounds of the theorems.
LEMMA TimetableBounds == S!TimesBounds /\ S!KricBounds /\ S!HubBounds
<1>1. S!TimesBounds
  BY WorkerAssumption DEF S!TimesBounds, S!Times!Nobody
<1>2. S!HubBounds
  BY WorkerAssumption DEF S!HubBounds, S!Hub!Nobody
<1>3. S!KricBounds
  <2>1. IsFiniteSet({1, 2}) /\ Cardinality({1, 2}) = 2
    <3>1. IsFiniteSet({1}) /\ Cardinality({1}) = 1
      BY FS_Singleton
    <3>2. IsFiniteSet({1} \cup {2}) /\ Cardinality({1} \cup {2}) = Cardinality({1}) + 1
      BY <3>1, FS_AddElement
    <3>3. {1} \cup {2} = {1, 2}
      OBVIOUS
    <3>4. QED
      BY <3>1, <3>2, <3>3
  <2>2. S!IsFiniteSet({1, 2}) /\ S!Cardinality({1, 2}) = 2
    BY <2>1, SameFinite DEF S!Cardinality, Cardinality
  <2>3. \A d \in {1, 2} : CalendarBase[d] \in {"7", "8", "9"}
    BY DEF CalendarBase
  <2>4. QED
    BY <2>2, <2>3, WorkerAssumption DEF S!KricBounds, S!Kric!Nobody
<1>4. QED
  BY <1>1, <1>2, <1>3

\* The settings of the caches, the place searches and the backups are within the bounds of their
\* theorems.
LEMMA CacheBounds ==
  /\ S!ReferenceBounds /\ S!AnalyticsBounds /\ S!OnDemandBounds /\ S!RoadBounds
  /\ S!BackupBounds /\ S!PlaceBounds /\ S!MappingBounds
<1>1. S!ReferenceBounds /\ S!BackupBounds
  BY DEF S!ReferenceBounds, S!BackupBounds
<1>2. S!AnalyticsBounds
  BY WorkerAssumption DEF S!AnalyticsBounds, S!Analytics!Nobody
<1>3. S!OnDemandBounds
  BY DEF S!OnDemandBounds, OnDemandTtl
<1>4. S!RoadBounds
  BY DEF S!RoadBounds, RoadTtl, RoadKeys
<1>5. S!PlaceBounds
  BY DEF S!PlaceBounds, S!Places!Nobody, PlaceTarget
<1>6. S!MappingBounds
  BY DEF S!MappingBounds, S!Mapping!None
<1>7. QED
  BY <1>1, <1>2, <1>3, <1>4, <1>5, <1>6

\* The settings of MCServices are within the bounds of the theorems.
LEMMA PagedBounds == S!RestBounds /\ S!ArchiveBounds /\ S!ExportBounds /\ S!PriceBounds
<1>1. S!RestBounds
  <2>1. IsFiniteSet({"a1", "a2"})
    BY PairFinite
  <2>2. QED
    BY <2>1, SameFinite DEF S!RestBounds
<1>2. S!ArchiveBounds /\ S!PriceBounds
  BY DEF S!ArchiveBounds, S!PriceBounds
<1>3. S!ExportBounds
  <2> DEFINE entries == << <<"t", 1>>, <<"t", 2>> >>
  <2>1. ExportRows["traffic"] = entries
    BY DEF ExportRows
  <2>2. S!Export!Row("traffic") = {entries[n] : n \in DOMAIN entries}
    BY <2>1 DEF S!Export!Row
  <2>3. entries # <<>> /\ entries \in Seq({entries[n] : n \in DOMAIN entries})
    OBVIOUS
  <2> HIDE DEF entries
  <2>4. QED
    BY <2>1, <2>2, <2>3 DEF S!ExportBounds
<1>4. QED
  BY <1>1, <1>2, <1>3

\* One request at a time calculates a statistics key, and no lock object outlives its users.
THEOREM FlightSingle == Spec => []SingleFlight
<1>1. (Running("statistics") => S!Statistics!OneCalculation /\ S!Statistics!LocksCollected) => SingleFlight
  BY DEF Running, SingleFlight, S!Statistics!OneCalculation, Statistics!OneCalculation,
     S!Statistics!Calculating, Statistics!Calculating, S!Statistics!LocksCollected,
     Statistics!LocksCollected
<1>2. QED
  BY <1>1, StatisticsRun, StatisticsSettings, S!OneFlight, PTL

\* The heads of express and intercity terminals are of one run.
THEOREM BusHeadsOne == Spec => []BusHeadsTogether
<1>1. (Running("references") => S!Reference!BusHeadsTogether) => BusHeadsTogether
  BY DEF Running, BusHeadsTogether, S!Reference!BusHeadsTogether, Reference!BusHeadsTogether
<1>2. QED
  BY <1>1, ReferencesRun, CacheBounds, S!BusHeads, PTL

\* What is derived from the highway answers is exact whatever overlaps, fails or dies.
THEOREM HighwayDerived == Spec => []HighwayDerivedExact
<1>1. (Running("highway") => /\ S!Highway!ActiveSetExact /\ S!Highway!StatisticsMatch
                             /\ S!Highway!TrafficHeadWhole)
        => HighwayDerivedExact
  BY DEF Running, HighwayDerivedExact, S!Highway!ActiveSetExact, Highway!ActiveSetExact,
     S!Highway!Served, Highway!Served, S!Highway!Exported, Highway!Exported, S!Highway!Incident,
     Highway!Incident, S!Highway!None, Highway!None, S!Highway!StatisticsMatch,
     Highway!StatisticsMatch, S!Highway!Time, Highway!Time, S!Highway!TrafficHeadWhole,
     Highway!TrafficHeadWhole, S!Highway!Cardinality, Highway!Cardinality
<1>2. QED
  BY <1>1, HighwayRuns, KrexBounds, S!HighwayExact, PTL

\* A client that pages through the rest areas gets every row that stayed in the set, none twice, and
\* an answer 200 never says that there is nothing.
THEOREM RestWhole == Spec => []RestAreasWhole
<1>1. (Running("rest areas") => S!Rest!ServedNotEmpty /\ S!Rest!PassComplete) => RestAreasWhole
  BY DEF Running, RestAreasWhole, S!Rest!ServedNotEmpty, Rest!ServedNotEmpty,
     S!Rest!PassComplete, Rest!PassComplete, S!Rest!Served, Rest!Served, S!Rest!CurrentSet,
     Rest!CurrentSet, S!Rest!None, Rest!None
<1>2. QED
  BY <1>1, RestRuns, PagedBounds, S!PassesWhole, PTL

\* Positions, station links, the calendar and the KRIC timetables agree with what they were made from.
THEOREM RowsMatch == Spec => []RowsMatchSource
<1>1. S!Places!LocationMatchesName => Places!LocationMatchesName
  BY DEF S!Places!LocationMatchesName, Places!LocationMatchesName
<1>2. S!Mapping!LinksExclusive => Mapping!LinksExclusive
  BY DEF S!Mapping!LinksExclusive, Mapping!LinksExclusive, S!Mapping!None, Mapping!None
<1>3. S!Kric!CalendarTrue /\ S!Kric!OthersRefreshed => RailTimes!CalendarTrue /\ RailTimes!OthersRefreshed
  BY DEF S!Kric!CalendarTrue, RailTimes!CalendarTrue, S!Kric!OthersRefreshed,
     RailTimes!OthersRefreshed, S!Kric!Code, RailTimes!Code
<1>4. /\ Running("places") => S!Places!LocationMatchesName
      /\ Running("rail mapping") => S!Mapping!LinksExclusive
      /\ Running("rail timetables") => S!Kric!CalendarTrue /\ S!Kric!OthersRefreshed
      => RowsMatchSource
  BY <1>1, <1>2, <1>3 DEF Running, RowsMatchSource
<1>5. QED
  BY <1>4, PlacesRun, MappingRuns, RailTimesRun, TimetableBounds, CacheBounds, S!PositionNamed,
     S!MappingExclusive, S!CalendarWhole, S!RefreshedAll, PTL

\* The types of the exports, of the lists that are collected and of the caches.
ListsTyped ==
  /\ Running("traffic export") => TrafficExport!TypeOK
  /\ Running("rest areas") => Rest!TypeOK
  /\ Running("highway") => Highway!TypeOK
  /\ Running("references") => Reference!TypeOK
  /\ Running("places") => Places!TypeOK
  /\ Running("prices") => Prices!TypeOK
  /\ Running("analytics") => Analytics!TypeOK
  /\ Running("flights") => Flights!TypeOK

\* The exports, the collected lists and the caches keep their types.
LEMMA TypesOfLists == Spec => []ListsTyped
<1>1. S!Export!TypeOK => TrafficExport!TypeOK
  BY DEF S!Export!Row, TrafficExport!Row, S!Export!AllRows, TrafficExport!AllRows,
     S!Export!ScopesOf, TrafficExport!ScopesOf, S!Export!Scope, TrafficExport!Scope,
     S!Export!InScope, TrafficExport!InScope, S!Export!NoView, TrafficExport!NoView,
     S!Export!Nothing, TrafficExport!Nothing, S!Export!TypeOK, TrafficExport!TypeOK
<1>2. S!Rest!TypeOK => Rest!TypeOK
  BY DEF S!Rest!None, Rest!None, S!Rest!TypeOK, Rest!TypeOK, S!Rest!Cardinality, Rest!Cardinality
<1>3. S!Highway!TypeOK => Highway!TypeOK
  BY DEF S!Highway!Traffic, Highway!Traffic, S!Highway!Incident, Highway!Incident, S!Highway!Source,
     Highway!Source, S!Highway!None, Highway!None, S!Highway!Time, Highway!Time, S!Highway!TypeOK,
     Highway!TypeOK, S!Highway!Cardinality, Highway!Cardinality
<1>4. S!Reference!TypeOK => Reference!TypeOK
  BY DEF S!Reference!None, Reference!None, S!Reference!Nobody, Reference!Nobody, S!Reference!Scope,
     Reference!Scope, S!Reference!Head, Reference!Head, S!Reference!NoHead, Reference!NoHead,
     S!Reference!TypeOK, Reference!TypeOK
<1>5. S!Places!TypeOK => Places!TypeOK
  BY DEF S!Places!Receipt, Places!Receipt, S!Places!TypeOK, Places!TypeOK
<1>6. S!Prices!TypeOK => Prices!TypeOK
  BY DEF S!Prices!None, Prices!None, S!Prices!Row, Prices!Row, S!Prices!State, Prices!State,
     S!Prices!TypeOK, Prices!TypeOK
<1>7. S!Analytics!TypeOK => Analytics!TypeOK
  BY DEF S!Analytics!Nobody, Analytics!Nobody, S!Analytics!Snapshot, Analytics!Snapshot,
     S!Analytics!TypeOK, Analytics!TypeOK
<1>8. S!OnDemand!TypeOK => Flights!TypeOK
  BY DEF S!OnDemand!None, Flights!None, S!OnDemand!TypeOK, Flights!TypeOK
<1>9. QED
  BY <1>1, <1>2, <1>3, <1>4, <1>5, <1>6, <1>7, <1>8, TrafficExportRuns, PagedBounds, S!ExportTypes,
     RestRuns, S!RestTypes, HighwayRuns, KrexBounds, S!HighwayExact, ReferencesRun, CacheBounds,
     S!BusHeads, PlacesRun, S!SearchBudget, PricesRun, S!PriceTypes, AnalyticsRuns,
     S!AnalyticsWhole, FlightsRun, S!ServedData, PTL DEF ListsTyped

\* The types of the maps, the archives and the timetables.
StoresTyped ==
  /\ Running("road traffic") => Roads!TypeOK
  /\ Running("statistics") => Statistics!TypeOK
  /\ Running("archive") => Archive!TypeOK
  /\ Running("backups") => Backups!TypeOK
  /\ Running("bus timetables") => BusTimes!TypeOK
  /\ Running("rail timetables") => RailTimes!TypeOK
  /\ Running("ferry reference") => Hub!TypeOK
  /\ Running("rail mapping") => Mapping!TypeOK

\* The maps, the archives and the timetables keep their types.
LEMMA TypesOfStores == Spec => []StoresTyped
<1>1. S!Roads!TypeOK => Roads!TypeOK
  BY DEF S!Roads!Nobody, Roads!Nobody, S!Roads!TypeOK, Roads!TypeOK
<1>2. S!Statistics!TypeOK => Statistics!TypeOK
  BY DEF S!Statistics!TypeOK, Statistics!TypeOK, S!Statistics!Cardinality, Statistics!Cardinality
<1>3. S!Archive!TypeOK => Archive!TypeOK
  BY DEF S!Archive!Nobody, Archive!Nobody, S!Archive!Row, Archive!Row, S!Archive!BucketOf,
     Archive!BucketOf, S!Archive!Buckets, Archive!Buckets, S!Archive!TypeOK, Archive!TypeOK
<1>4. S!Backups!TypeOK => Backups!TypeOK
  BY DEF S!Backups!File, Backups!File, S!Backups!TypeOK, Backups!TypeOK
<1>5. S!Times!TypeOK => BusTimes!TypeOK
  BY DEF S!Times!None, BusTimes!None, S!Times!Nobody, BusTimes!Nobody, S!Times!TypeOK,
     BusTimes!TypeOK
<1>6. S!Kric!TypeOK => RailTimes!TypeOK
  BY DEF S!Kric!None, RailTimes!None, S!Kric!Nobody, RailTimes!Nobody, S!Kric!TypeOK,
     RailTimes!TypeOK
<1>7. S!Hub!TypeOK => Hub!TypeOK
  BY DEF S!Hub!None, Hub!None, S!Hub!Nobody, Hub!Nobody, S!Hub!TypeOK, Hub!TypeOK
<1>8. S!Mapping!TypeOK => Mapping!TypeOK
  BY DEF S!Mapping!None, Mapping!None, S!Mapping!Links, Mapping!Links, S!Mapping!TypeOK,
     Mapping!TypeOK
<1>9. QED
  BY <1>1, <1>2, <1>3, <1>4, <1>5, <1>6, <1>7, <1>8, RoadsRun, CacheBounds, S!RoadTypes,
     StatisticsRun, StatisticsSettings, S!OneFlight, ArchiveRuns, PagedBounds, S!ArchiveTypes,
     BackupsRun, S!BackupLimit, BusTimesRun, TimetableBounds, S!TimetableTypes, RailTimesRun,
     S!BatchTypes, HubRuns, S!HubTypes, MappingRuns, S!MappingExclusive, PTL DEF StoresTyped

\* The second setting of a module that has two: holidays, overlapping searches, ferries.
T == INSTANCE ServiceProofs WITH
    StatRequest <- {"q1", "q2", "q3"}, StatKey <- {"k1", "k2", "k3"}, StatTtl <- 1,
    StatSlots <- 2, StatLocks <- 3, StatTime <- 1,
    RefWorker <- Worker, RefId <- {"i1", "i2"}, RefJob <- {"port", "bus"}, RefDropFactor <- 1,
    RefDueAfter <- [j \in {"port", "bus"} |-> 1], RefTime <- 2, RefRuns <- 2,
    AnaProc <- Worker, AnaAirport <- {"ICN", "GMP"}, AnaAge <- 3, AnaTime <- 4,
    OdProc <- Worker, OdKey <- {"2026-01"}, OdKind <- [k \in {"2026-01"} |-> "holiday"],
    OdTtl <- OnDemandTtl, OdBackoff <- 2, OdTime <- 3,
    RdProc <- Worker, RdKey <- RoadKeys, RdTtl <- RoadTtl, RdBlock <- 2, RdDay <- 3, RdMax <- 2,
    RdEntries <- 2, RdTime <- 3,
    BkLimit <- 4, BkSize <- 3, BkRetention <- 2, BkFiles <- 5, BkDb <- 2,
    PlKindOf <- PlaceKind, PlName <- {"n1", "n2"}, PlTarget <- PlaceTarget, PlMax <- 1,
    PlKeep <- 2, PlTime <- 1, PlPlace <- {"bus1", "port1"},
    PlProc <- Worker, PlJob <- {"vworld"}, PlOverlap <- TRUE, PlReceipts <- 2,
    RmAdmin <- Worker, RmCode <- {"c1", "c2"}, RmPlace <- {"s1", "s2"}, RmCodeName <- CodeName,
    RmPlaceName <- PlaceName, RmCodeNumber <- CodeNumber, RmPlaceNumber <- PlaceNumber,
    RmAlias <- {},
    TtStorageDays <- 2, TtCacheTtl <- 1, TtMinInterval <- 1, TtBackoff <- 2, TtDayLength <- 2,
    TtTime <- 3,
    TtKind <- "ferry", TtProc <- Worker, TtWorker <- {"w1"}, TtDate <- {0, 1}, TtCalls <- 2,
    TtErrors <- 2,
    VhProc <- Worker, VhDataset <- {"d1"}, VhArchived <- {"d1"}, VhWeek <- 2, VhTime <- 6,
    KrProc <- Worker, KrSnapshot <- 1..4, KrBroken <- {1, 2}, KrDay <- {1, 2},
    KrMonthOf <- CalendarMonth, KrBase <- CalendarBase, KrHoliday <- {1, 2}, KrEvery <- 2,
    KrCalls <- 3, KrRun <- 2, KrFails <- 3, KrTime <- 4,
    HwProc <- Worker, HwKey <- {"k1", "k2"}, HwAnswers <- KrexAnswers, HwDropFactor <- 1,
    HwInterval <- 1, HwReservation <- 1, HwRecent <- 1, HwMaxAge <- 2, HwTime <- 3, HwRuns <- 3,
    HwClaims <- 3,
    RaProc <- Worker, RaClient <- {"c1"}, RaArea <- {"a1", "a2"}, RaLimit <- 1, RaWindow <- 1,
    RaStale <- 1, RaTime <- 2, RaRuns <- 3,
    ArLength <- 1, ArRetention <- 1, ArWindow <- 2, ArBuckets <- 1, ArRows <- 3, ArTime <- 4,
    ExReader <- Worker, ExKind <- {"bus"}, ExRowsOf <- ExportRows, ExLimit <- 1, ExTtl <- 2,
    ExTime <- 3, ExPromotions <- 2, ExEdits <- 1,
    PrTtl <- 2, PrWindow <- 3, PrStale <- 2, PrLimit <- 1, PrRows <- 3, PrUpdates <- 3, PrTime <- 4

\* The ferry timetable settings of MCServices are within the bounds of the theorems.
LEMMA FerryBounds == T!TimesBounds
  BY WorkerAssumption DEF T!TimesBounds, T!Times!Nobody

\* The settings of the second instances are within the bounds of the theorems.
LEMMA OverlapBounds == T!PlaceBounds /\ T!OnDemandBounds
<1>1. T!PlaceBounds
  BY WorkerAssumption DEF T!PlaceBounds, T!Places!Nobody, PlaceTarget
<1>2. T!OnDemandBounds
  BY DEF T!OnDemandBounds, OnDemandTtl
<1>3. QED
  BY <1>1, <1>2

\* The export of the terminals lists rows too.
LEMMA TerminalBounds == T!ExportBounds
<1> DEFINE entries == << <<"e", 1>>, <<"i", 1>> >>
<1>1. ExportRows["bus"] = entries
  BY DEF ExportRows
<1>2. T!Export!Row("bus") = {entries[n] : n \in DOMAIN entries}
  BY <1>1 DEF T!Export!Row
<1>3. entries # <<>> /\ entries \in Seq({entries[n] : n \in DOMAIN entries})
  OBVIOUS
<1> HIDE DEF entries
<1>4. QED
  BY <1>1, <1>2, <1>3 DEF T!ExportBounds

\* A behaviour that runs the holiday cache is one of its module.
LEMMA HolidaysRun == Spec => T!OnDemand!Spec \/ [](~ Running("holidays"))
<1>1. Init /\ Running("holidays") => T!OnDemand!Init
  BY DEF Running, Init, Holidays!Init, T!OnDemand!Init, Holidays!None, T!OnDemand!None,
     Holidays!NoEntry, T!OnDemand!NoEntry, Holidays!NoReply, T!OnDemand!NoReply
<1>2. Holidays!Next => T!OnDemand!Next
  BY DEF Holidays!Next, T!OnDemand!Next, Holidays!Tick, T!OnDemand!Tick, Holidays!Change,
     T!OnDemand!Change, Holidays!Answered, T!OnDemand!Answered, Holidays!Live, T!OnDemand!Live,
     Holidays!Request, T!OnDemand!Request, Holidays!Upstream, T!OnDemand!Upstream,
     Holidays!ProviderAnswers, T!OnDemand!ProviderAnswers, Holidays!Life, T!OnDemand!Life,
     Holidays!Expiry, T!OnDemand!Expiry, Holidays!Return, T!OnDemand!Return, Holidays!None,
     T!OnDemand!None, Holidays!NoEntry, T!OnDemand!NoEntry, Holidays!NoReply, T!OnDemand!NoReply,
     Holidays!procVars, T!OnDemand!procVars
<1>3. Running("holidays") /\ [Next]_vars => [T!OnDemand!Next]_(T!OnDemand!vars)
  BY <1>2 DEF Running, Next, vars, otherThanOnDemand, onDemandVars, Holidays!vars,
     Holidays!procVars, T!OnDemand!vars, T!OnDemand!procVars
<1>4. [Next]_vars => (Running("holidays") <=> Running("holidays")')
  BY ServiceStays
<1>5. QED
  BY <1>1, <1>3, <1>4, PTL DEF Spec, T!OnDemand!Spec

\* A behaviour whose place searches overlap is one of its module.
LEMMA OverlapRun == Spec => T!Places!Spec \/ [](~ Running("place overlap"))
<1>1. Init /\ Running("place overlap") => T!Places!Init
  BY DEF Running, Init, PlacesOverlap!Init, T!Places!Init, PlacesOverlap!Nobody, T!Places!Nobody,
     PlacesOverlap!Nothing, T!Places!Nothing, PlacesOverlap!Searches, T!Places!Searches,
     PlacesOverlap!NoLoc, T!Places!NoLoc
<1>2. PlacesOverlap!Next => T!Places!Next
  BY DEF PlacesOverlap!Next, T!Places!Next, PlacesOverlap!Tick, T!Places!Tick, PlacesOverlap!Today,
     T!Places!Today, PlacesOverlap!Busy, T!Places!Busy, PlacesOverlap!OfKind, T!Places!OfKind,
     PlacesOverlap!Begin, T!Places!Begin, PlacesOverlap!End, T!Places!End, PlacesOverlap!LockLost,
     T!Places!LockLost, PlacesOverlap!Answered, T!Places!Answered, PlacesOverlap!Searchable,
     T!Places!Searchable, PlacesOverlap!QueryName, T!Places!QueryName, PlacesOverlap!Affordable,
     T!Places!Affordable, PlacesOverlap!Wanted, T!Places!Wanted, PlacesOverlap!Skip, T!Places!Skip,
     PlacesOverlap!Reserve, T!Places!Reserve, PlacesOverlap!Deferred, T!Places!Deferred,
     PlacesOverlap!MyReceipt, T!Places!MyReceipt, PlacesOverlap!Marked, T!Places!Marked,
     PlacesOverlap!Stored, T!Places!Stored, PlacesOverlap!Answer, T!Places!Answer,
     PlacesOverlap!CallFails, T!Places!CallFails, PlacesOverlap!LoopDone, T!Places!LoopDone,
     PlacesOverlap!TerminalLoc, T!Places!TerminalLoc, PlacesOverlap!PortLoc, T!Places!PortLoc,
     PlacesOverlap!Upsert, T!Places!Upsert, PlacesOverlap!Abort, T!Places!Abort, PlacesOverlap!Open,
     T!Places!Open, PlacesOverlap!Unchanged, T!Places!Unchanged, PlacesOverlap!Save, T!Places!Save,
     PlacesOverlap!Located, T!Places!Located, PlacesOverlap!Cardinality, T!Places!Cardinality,
     PlacesOverlap!Nobody, T!Places!Nobody, PlacesOverlap!Nothing, T!Places!Nothing,
     PlacesOverlap!Searches, T!Places!Searches, PlacesOverlap!NoLoc, T!Places!NoLoc,
     PlacesOverlap!rowVars, T!Places!rowVars, PlacesOverlap!procVars, T!Places!procVars
<1>3. Running("place overlap") /\ [Next]_vars => [T!Places!Next]_(T!Places!vars)
  BY <1>2 DEF Running, Next, vars, otherThanPlace, placeVars, PlacesOverlap!vars,
     PlacesOverlap!rowVars, PlacesOverlap!procVars, T!Places!vars, T!Places!rowVars,
     T!Places!procVars
<1>4. [Next]_vars => (Running("place overlap") <=> Running("place overlap")')
  BY ServiceStays
<1>5. QED
  BY <1>1, <1>3, <1>4, PTL DEF Spec, T!Places!Spec

\* A behaviour that runs the ferry timetables is one of its module.
LEMMA FerryTimesRun == Spec => T!Times!Spec \/ [](~ Running("ferry timetables"))
<1>1. Init /\ Running("ferry timetables") => T!Times!Init
  BY DEF Running, Init, FerryTimes!Init, T!Times!Init, FerryTimes!None, T!Times!None,
     FerryTimes!Nobody, T!Times!Nobody, FerryTimes!NoDates, T!Times!NoDates
<1>2. FerryTimes!Next => T!Times!Next
  BY DEF FerryTimes!Next, T!Times!Next, FerryTimes!Tick, T!Times!Tick, FerryTimes!InRange,
     T!Times!InRange, FerryTimes!Today, T!Times!Today, FerryTimes!Stale, T!Times!Stale,
     FerryTimes!Cached, T!Times!Cached, FerryTimes!Limited, T!Times!Limited, FerryTimes!Answers,
     T!Times!Answers, FerryTimes!Request, T!Times!Request, FerryTimes!Leave, T!Times!Leave,
     FerryTimes!TooSoon, T!Times!TooSoon, FerryTimes!Refused, T!Times!Refused, FerryTimes!Call,
     T!Times!Call, FerryTimes!BusRow, T!Times!BusRow, FerryTimes!CallOk, T!Times!CallOk,
     FerryTimes!CallFails, T!Times!CallFails, FerryTimes!CollectorBegin, T!Times!CollectorBegin,
     FerryTimes!Reused, T!Times!Reused, FerryTimes!CollectorSkip, T!Times!CollectorSkip,
     FerryTimes!CollectorCall, T!Times!CollectorCall, FerryTimes!CollectorStore, T!Times!CollectorStore,
     FerryTimes!Turn, T!Times!Turn, FerryTimes!CollectorEnd, T!Times!CollectorEnd,
     FerryTimes!Cardinality, T!Times!Cardinality, FerryTimes!None, T!Times!None, FerryTimes!Nobody,
     T!Times!Nobody, FerryTimes!NoDates, T!Times!NoDates, FerryTimes!workerVars, T!Times!workerVars,
     FerryTimes!procVars, T!Times!procVars, FerryTimes!collectorVars, T!Times!collectorVars
<1>3. Running("ferry timetables") /\ [Next]_vars => [T!Times!Next]_(T!Times!vars)
  BY <1>2 DEF Running, Next, vars, otherThanTimetable, timetableVars, FerryTimes!vars,
     FerryTimes!workerVars, FerryTimes!procVars, FerryTimes!collectorVars, T!Times!vars,
     T!Times!workerVars, T!Times!procVars, T!Times!collectorVars
<1>4. [Next]_vars => (Running("ferry timetables") <=> Running("ferry timetables")')
  BY ServiceStays
<1>5. QED
  BY <1>1, <1>3, <1>4, PTL DEF Spec, T!Times!Spec

\* A behaviour that runs the export of the terminals is one of its module.
LEMMA BusExportRuns == Spec => T!Export!Spec \/ [](~ Running("bus export"))
<1>1. Init /\ Running("bus export") => T!Export!Init
  BY DEF Running, Init, BusExport!Row, T!Export!Row, BusExport!AllRows, T!Export!AllRows,
     BusExport!ScopesOf, T!Export!ScopesOf, BusExport!Scope, T!Export!Scope, BusExport!NoHead,
     T!Export!NoHead, BusExport!NoCursor, T!Export!NoCursor, BusExport!NoView, T!Export!NoView,
     BusExport!Nothing, T!Export!Nothing, BusExport!Init, T!Export!Init
<1>2. BusExport!Next => T!Export!Next
  BY DEF BusExport!NoHead, T!Export!NoHead, BusExport!dbVars, T!Export!dbVars, BusExport!txVars,
     T!Export!txVars, BusExport!clientVars, T!Export!clientVars, BusExport!Row, T!Export!Row, BusExport!AllRows, T!Export!AllRows,
     BusExport!ScopesOf, T!Export!ScopesOf, BusExport!InScope, T!Export!InScope, BusExport!NoCursor,
     T!Export!NoCursor, BusExport!NoView, T!Export!NoView, BusExport!Nothing, T!Export!Nothing,
     BusExport!Tick, T!Export!Tick, BusExport!Epoch, T!Export!Epoch, BusExport!ExpiresAt,
     T!Export!ExpiresAt, BusExport!ValidHeads, T!Export!ValidHeads, BusExport!Payload,
     T!Export!Payload, BusExport!Stamped, T!Export!Stamped, BusExport!Generation,
     T!Export!Generation, BusExport!Promote, T!Export!Promote, BusExport!ManualEdit,
     T!Export!ManualEdit, BusExport!Snapshot, T!Export!Snapshot, BusExport!Close, T!Export!Close,
     BusExport!Abandon, T!Export!Abandon, BusExport!FirstPage, T!Export!FirstPage,
     BusExport!NextPage, T!Export!NextPage, BusExport!Cached, T!Export!Cached, BusExport!Expired,
     T!Export!Expired, BusExport!Oldest, T!Export!Oldest, BusExport!New, T!Export!New,
     BusExport!SameKey, T!Export!SameKey, BusExport!Reuse, T!Export!Reuse, BusExport!Blocked,
     T!Export!Blocked, BusExport!Races, T!Export!Races, BusExport!Freeze, T!Export!Freeze,
     BusExport!Race, T!Export!Race, BusExport!LockTimeout, T!Export!LockTimeout,
     BusExport!FreezeFails, T!Export!FreezeFails, BusExport!LastOn, T!Export!LastOn, BusExport!Page,
     T!Export!Page, BusExport!Received, T!Export!Received, BusExport!Answer, T!Export!Answer,
     BusExport!AnswerFirst, T!Export!AnswerFirst, BusExport!Usable, T!Export!Usable,
     BusExport!AnswerNext, T!Export!AnswerNext, BusExport!Gone, T!Export!Gone, BusExport!Request,
     T!Export!Request, BusExport!Next, T!Export!Next
<1>3. Running("bus export") /\ [Next]_vars => [T!Export!Next]_(T!Export!vars)
  BY <1>2 DEF Running, Next, vars, otherThanExports, exportsVars, BusExport!dbVars,
     BusExport!txVars, BusExport!clientVars, BusExport!vars, T!Export!dbVars, T!Export!txVars,
     T!Export!clientVars, T!Export!vars
<1>4. [Next]_vars => (Running("bus export") <=> Running("bus export")')
  BY ServiceStays
<1>5. QED
  BY <1>1, <1>3, <1>4, PTL DEF Spec, T!Export!Spec

\* What a cache answers is as fresh as it says: the analytics hold every committed snapshot, flights
\* and holidays are younger than their life, an old road answer says that it is old.
THEOREM CachesTrue == Spec => []CachesFresh
<1>1. /\ S!Analytics!CacheComplete => Analytics!CacheComplete
      /\ S!OnDemand!ServedRecent => Flights!ServedRecent
      /\ T!OnDemand!ServedRecent => Holidays!ServedRecent
      /\ S!Roads!StaleSaid => Roads!StaleSaid
  BY DEF S!Analytics!CacheComplete, Analytics!CacheComplete, S!Analytics!Usable, Analytics!Usable,
     S!OnDemand!ServedRecent, Flights!ServedRecent, T!OnDemand!ServedRecent, Holidays!ServedRecent,
     S!Roads!StaleSaid, Roads!StaleSaid
<1>2. /\ Running("analytics") => S!Analytics!CacheComplete
      /\ Running("flights") => S!OnDemand!ServedRecent
      /\ Running("holidays") => T!OnDemand!ServedRecent
      /\ Running("road traffic") => S!Roads!StaleSaid
      => CachesFresh
  BY <1>1 DEF Running, CachesFresh
<1>3. QED
  BY <1>2, AnalyticsRuns, FlightsRun, HolidaysRun, RoadsRun, CacheBounds, OverlapBounds,
     S!AnalyticsWhole, S!ServedData, T!ServedData, S!RoadBudget, PTL

\* The budgets hold: VWorld, KOMSA and Kakao searches, highway calls, the disk space of backups.
THEOREM BudgetsHold == Spec => []BudgetsKept
<1>1. /\ S!Places!BudgetKept => Places!BudgetKept
      /\ T!Places!BudgetKept => PlacesOverlap!BudgetKept
  BY DEF S!Places!BudgetKept, Places!BudgetKept, S!Places!Today, Places!Today, S!Places!Cardinality,
     Places!Cardinality, T!Places!BudgetKept, PlacesOverlap!BudgetKept, T!Places!Today,
     PlacesOverlap!Today, T!Places!Cardinality, PlacesOverlap!Cardinality
<1>2. S!Roads!BudgetKept => Roads!BudgetKept
  BY DEF S!Roads!BudgetKept, Roads!BudgetKept, S!Roads!Days, Roads!Days
<1>3. S!Backups!LimitKept => Backups!LimitKept
  BY DEF S!Backups!LimitKept, Backups!LimitKept, S!Backups!Size, Backups!Size,
     S!Backups!Cardinality, Backups!Cardinality
<1>4. /\ Running("places") => S!Places!BudgetKept
      /\ Running("place overlap") => T!Places!BudgetKept
      /\ Running("road traffic") => S!Roads!BudgetKept
      /\ Running("backups") => S!Backups!LimitKept
      => BudgetsKept
  BY <1>1, <1>2, <1>3 DEF Running, BudgetsKept
<1>5. QED
  BY <1>4, PlacesRun, OverlapRun, RoadsRun, BackupsRun, CacheBounds, OverlapBounds, S!SearchBudget,
     T!SearchBudget, S!RoadBudget, S!BackupLimit, PTL

\* What an administrator entered is replaced only by an administrator who saw it.
THEOREM ManualHeld == Spec => ManualKept
<1>1. /\ S!Places!ManualKept => Places!ManualKept
      /\ T!Places!ManualKept => PlacesOverlap!ManualKept
      /\ S!Mapping!NoLostEdit => Mapping!NoLostEdit
  BY DEF S!Places!ManualKept, Places!ManualKept, T!Places!ManualKept, PlacesOverlap!ManualKept,
     S!Mapping!NoLostEdit, Mapping!NoLostEdit, S!Mapping!Visible, Mapping!Visible,
     S!Mapping!None, Mapping!None
<1>2. /\ Running("places") => S!Places!ManualKept
      /\ Running("place overlap") => T!Places!ManualKept
      /\ Running("rail mapping") => S!Mapping!NoLostEdit
      => /\ service = "places" => Places!ManualKept
         /\ service = "place overlap" => PlacesOverlap!ManualKept
         /\ service = "rail mapping" => Mapping!NoLostEdit
  BY <1>1 DEF Running
<1>3. UNCHANGED S!Places!vars => S!Places!ManualKept
  BY DEF S!Places!ManualKept, S!Places!vars, S!Places!rowVars
<1>4. UNCHANGED T!Places!vars => T!Places!ManualKept
  BY DEF T!Places!ManualKept, T!Places!vars, T!Places!rowVars
<1>5. UNCHANGED S!Mapping!vars => S!Mapping!NoLostEdit
  BY DEF S!Mapping!NoLostEdit, S!Mapping!vars
<1>6. QED
  BY <1>2, <1>3, <1>4, <1>5, PlacesRun, OverlapRun, MappingRuns, CacheBounds, OverlapBounds,
     S!ManualPosition, T!ManualPosition, S!ManualShown, PTL DEF Spec, ManualKept

\* A late writer never puts newer data back.
THEOREM HeadsNeverBack == Spec => HeadsForward
<1>1. /\ S!Highway!TrafficForward => Highway!TrafficForward
      /\ S!Reference!HeadForward => Reference!HeadForward
      /\ S!Times!RowForward => BusTimes!RowForward
      /\ T!Times!RowForward => FerryTimes!RowForward
  BY DEF S!Highway!TrafficForward, Highway!TrafficForward, S!Reference!HeadForward,
     Reference!HeadForward, S!Reference!Scope, Reference!Scope, S!Times!RowForward,
     BusTimes!RowForward, T!Times!RowForward, FerryTimes!RowForward, S!Times!None, BusTimes!None,
     T!Times!None, FerryTimes!None, S!Times!InRange, BusTimes!InRange, T!Times!InRange,
     FerryTimes!InRange, S!Times!Today, BusTimes!Today, T!Times!Today, FerryTimes!Today,
     S!Times!Overwritten, BusTimes!Overwritten, T!Times!Overwritten, FerryTimes!Overwritten
<1>2. /\ Running("highway") => S!Highway!TrafficForward
      /\ Running("references") => S!Reference!HeadForward
      /\ Running("bus timetables") => S!Times!RowForward
      /\ Running("ferry timetables") => T!Times!RowForward
      => /\ service = "highway" => Highway!TrafficForward
         /\ service = "references" => Reference!HeadForward
         /\ service = "bus timetables" => BusTimes!RowForward
         /\ service = "ferry timetables" => FerryTimes!RowForward
  BY <1>1 DEF Running
<1>3. S!Highway!TypeOK /\ UNCHANGED S!Highway!vars => S!Highway!TrafficForward
  BY DEF S!Highway!TrafficForward, S!Highway!vars, S!Highway!dbVars, S!Highway!TypeOK,
     S!Highway!None, S!Highway!Time
<1>4. S!Reference!TypeOK /\ UNCHANGED S!Reference!vars => S!Reference!HeadForward
  BY DEF S!Reference!HeadForward, S!Reference!vars, S!Reference!dbVars, S!Reference!TypeOK,
     S!Reference!Head, S!Reference!NoHead
<1>5. S!Times!TypeOK /\ UNCHANGED S!Times!vars => S!Times!RowForward
  BY DEF S!Times!RowForward, S!Times!vars, S!Times!TypeOK, S!Times!None
<1>6. T!Times!TypeOK /\ UNCHANGED T!Times!vars => T!Times!RowForward
  BY DEF T!Times!RowForward, T!Times!vars, T!Times!TypeOK, T!Times!None
<1>7. QED
  BY <1>2, <1>3, <1>4, <1>5, <1>6, HighwayRuns, ReferencesRun, BusTimesRun, FerryTimesRun,
     KrexBounds, CacheBounds, TimetableBounds, FerryBounds, S!TrafficNotBack, S!HighwayExact,
     S!HeadsNotBack, S!BusHeads, S!TimetablesForward, S!TimetableTypes, T!TimetablesForward,
     T!TimetableTypes, PTL DEF Spec, HeadsForward

\* A provider is not called again too soon.
THEOREM ProvidersHeld == Spec => ProvidersSpared
<1>1. /\ S!Roads!PauseKept => Roads!PauseKept
      /\ S!Times!WorkerSpares => BusTimes!WorkerSpares
      /\ T!Times!WorkerSpares => FerryTimes!WorkerSpares
      /\ S!Kric!BatchesApart => RailTimes!BatchesApart
      /\ S!Hub!RefreshIsNew => Hub!RefreshIsNew
  BY DEF S!Roads!PauseKept, Roads!PauseKept, S!Times!WorkerSpares, BusTimes!WorkerSpares,
     T!Times!WorkerSpares, FerryTimes!WorkerSpares, S!Times!None, BusTimes!None, T!Times!None,
     FerryTimes!None, S!Times!Nobody, BusTimes!Nobody, T!Times!Nobody, FerryTimes!Nobody,
     S!Kric!BatchesApart, RailTimes!BatchesApart, S!Hub!RefreshIsNew, Hub!RefreshIsNew,
     S!Hub!Published, Hub!Published, S!Hub!None, Hub!None
<1>2. /\ Running("road traffic") => S!Roads!PauseKept
      /\ Running("bus timetables") => S!Times!WorkerSpares
      /\ Running("ferry timetables") => T!Times!WorkerSpares
      /\ Running("rail timetables") => S!Kric!BatchesApart
      /\ Running("ferry reference") => S!Hub!RefreshIsNew
      => /\ service = "road traffic" => Roads!PauseKept
         /\ service = "bus timetables" => BusTimes!WorkerSpares
         /\ service = "ferry timetables" => FerryTimes!WorkerSpares
         /\ service = "rail timetables" => RailTimes!BatchesApart
         /\ service = "ferry reference" => Hub!RefreshIsNew
  BY <1>1 DEF Running
<1>3. UNCHANGED S!Roads!vars => S!Roads!PauseKept
  BY DEF S!Roads!PauseKept, S!Roads!vars, S!Roads!worker
<1>4. UNCHANGED S!Times!vars => S!Times!WorkerSpares
  BY DEF S!Times!WorkerSpares, S!Times!vars, S!Times!workerVars
<1>5. UNCHANGED T!Times!vars => T!Times!WorkerSpares
  BY DEF T!Times!WorkerSpares, T!Times!vars, T!Times!workerVars
<1>6. UNCHANGED S!Kric!vars => S!Kric!BatchesApart
  BY DEF S!Kric!BatchesApart, S!Kric!vars
<1>7. UNCHANGED S!Hub!vars => S!Hub!RefreshIsNew
  BY DEF S!Hub!RefreshIsNew, S!Hub!vars
<1>8. QED
  BY <1>2, <1>3, <1>4, <1>5, <1>6, <1>7, RoadsRun, BusTimesRun, FerryTimesRun, RailTimesRun,
     HubRuns, CacheBounds, TimetableBounds, FerryBounds, S!RoadPause, S!WorkersSpare,
     T!WorkersSpare, S!BatchesSpaced, S!RefreshesNew, PTL DEF Spec, ProvidersSpared

\* What is kept for good is whole.
THEOREM KeptWhole == Spec => ArchiveExact
<1>1. /\ S!Archive!RecordsExact => Archive!RecordsExact
      /\ S!Archive!NoSilentGap => Archive!NoSilentGap
  BY DEF S!Archive!RecordsExact, Archive!RecordsExact, S!Archive!NoSilentGap, Archive!NoSilentGap,
     S!Archive!RowsOf, Archive!RowsOf, S!Archive!PreviousAt, Archive!PreviousAt, S!Archive!Last,
     Archive!Last, S!Archive!Preferred, Archive!Preferred, S!Archive!BucketOf, Archive!BucketOf,
     S!Archive!CompleteBefore, Archive!CompleteBefore, S!Archive!Cutoff, Archive!Cutoff
<1>2. S!Backups!PreRestoreKept => Backups!PreRestoreKept
  BY DEF S!Backups!PreRestoreKept, Backups!PreRestoreKept
<1>3. /\ Running("archive") => S!Archive!RecordsExact /\ S!Archive!NoSilentGap
      /\ Running("backups") => S!Backups!PreRestoreKept
      => /\ service = "archive" => Archive!RecordsExact /\ Archive!NoSilentGap
         /\ service = "backups" => Backups!PreRestoreKept
  BY <1>1, <1>2 DEF Running
<1>4. [Next]_vars /\ Running("archive") /\ UNCHANGED S!Archive!vars => UNCHANGED vars
  BY DEF Running, Next, vars, otherThanArchive, archiveVars, S!Archive!vars, S!Archive!runVars
<1>5. [Next]_vars /\ Running("backups") /\ UNCHANGED S!Backups!vars => UNCHANGED vars
  BY DEF Running, Next, vars, otherThanBackups, backupsVars, S!Backups!vars
<1>6. QED
  BY <1>3, <1>4, <1>5, ArchiveRuns, BackupsRun, PagedBounds, CacheBounds, S!ArchivedExactly,
     S!NoGap, S!PreRestore, PTL DEF Spec, ArchiveExact

\* A client that pages to the end has received exactly one state of an export or of a price history.
THEOREM PassesExact == Spec => ExportPassExact
<1>1. /\ S!Export!PassIsOneSet => TrafficExport!PassIsOneSet
      /\ T!Export!PassIsOneSet => BusExport!PassIsOneSet
  BY DEF S!Export!PassIsOneSet, TrafficExport!PassIsOneSet, T!Export!PassIsOneSet,
     BusExport!PassIsOneSet, S!Export!Received, TrafficExport!Received, T!Export!Received,
     BusExport!Received, S!Export!Page, TrafficExport!Page, T!Export!Page, BusExport!Page,
     S!Export!LastOn, TrafficExport!LastOn, T!Export!LastOn, BusExport!LastOn
<1>2. S!Prices!PassExact' => Prices!PassExact'
  BY DEF S!Prices!PassExact, Prices!PassExact, S!Prices!Listed, Prices!Listed, S!Prices!PlaceIn,
     Prices!PlaceIn, S!Prices!Newer, Prices!Newer, S!Prices!Cardinality, Prices!Cardinality
<1>3. /\ Running("traffic export") => S!Export!PassIsOneSet
      /\ Running("bus export") => T!Export!PassIsOneSet
      /\ Running("prices") => S!Prices!PassExact'
      => /\ service = "traffic export" => TrafficExport!PassIsOneSet
         /\ service = "bus export" => BusExport!PassIsOneSet
         /\ service = "prices" => Prices!PassExact'
  BY <1>1, <1>2 DEF Running
<1>4. [Next]_vars /\ Running("traffic export") /\ UNCHANGED S!Export!vars => UNCHANGED vars
  BY DEF Running, Next, vars, otherThanExports, exportsVars, S!Export!vars, S!Export!dbVars,
     S!Export!txVars, S!Export!clientVars
<1>5. [Next]_vars /\ Running("bus export") /\ UNCHANGED T!Export!vars => UNCHANGED vars
  BY DEF Running, Next, vars, otherThanExports, exportsVars, T!Export!vars, T!Export!dbVars,
     T!Export!txVars, T!Export!clientVars
<1>6. QED
  BY <1>3, <1>4, <1>5, TrafficExportRuns, BusExportRuns, PricesRun, PagedBounds, TerminalBounds,
     S!ExportOneSet, T!ExportOneSet, S!PassWhole, PTL DEF Spec, ExportPassExact

\* What a client holds can be used.
THEOREM CursorsHold == Spec => CursorsUsable
<1>1. /\ S!Export!NotGoneEarly => TrafficExport!NotGoneEarly
      /\ T!Export!NotGoneEarly => BusExport!NotGoneEarly
      /\ S!Prices!NotModifiedUsable => Prices!NotModifiedUsable
  BY DEF S!Export!NotGoneEarly, TrafficExport!NotGoneEarly, T!Export!NotGoneEarly,
     BusExport!NotGoneEarly, S!Prices!NotModifiedUsable, Prices!NotModifiedUsable,
     S!Prices!Accepted, Prices!Accepted
<1>2. /\ Running("traffic export") => S!Export!NotGoneEarly
      /\ Running("bus export") => T!Export!NotGoneEarly
      /\ Running("prices") => S!Prices!NotModifiedUsable
      => /\ service = "traffic export" => TrafficExport!NotGoneEarly
         /\ service = "bus export" => BusExport!NotGoneEarly
         /\ service = "prices" => Prices!NotModifiedUsable
  BY <1>1 DEF Running
<1>3. [Next]_vars /\ Running("traffic export") /\ UNCHANGED S!Export!vars => UNCHANGED vars
  BY DEF Running, Next, vars, otherThanExports, exportsVars, S!Export!vars, S!Export!dbVars,
     S!Export!txVars, S!Export!clientVars
<1>4. [Next]_vars /\ Running("bus export") /\ UNCHANGED T!Export!vars => UNCHANGED vars
  BY DEF Running, Next, vars, otherThanExports, exportsVars, T!Export!vars, T!Export!dbVars,
     T!Export!txVars, T!Export!clientVars
<1>5. [Next]_vars /\ Running("prices") /\ UNCHANGED S!Prices!vars => UNCHANGED vars
  BY DEF Running, Next, vars, otherThanPrices, pricesVars, S!Prices!vars
<1>6. QED
  BY <1>2, <1>3, <1>4, <1>5, TrafficExportRuns, BusExportRuns, PricesRun, PagedBounds,
     TerminalBounds, S!SnapshotsLive, T!SnapshotsLive, S!NotModifiedHolds, PTL DEF Spec, CursorsUsable

\* The types of the second instances.
SecondsTyped ==
  /\ Running("bus export") => BusExport!TypeOK
  /\ Running("place overlap") => PlacesOverlap!TypeOK
  /\ Running("holidays") => Holidays!TypeOK
  /\ Running("ferry timetables") => FerryTimes!TypeOK

\* The second instances keep their types.
LEMMA TypesOfSeconds == Spec => []SecondsTyped
<1>1. T!Export!TypeOK => BusExport!TypeOK
  BY DEF T!Export!Row, BusExport!Row, T!Export!AllRows, BusExport!AllRows, T!Export!ScopesOf,
     BusExport!ScopesOf, T!Export!Scope, BusExport!Scope, T!Export!InScope, BusExport!InScope,
     T!Export!NoView, BusExport!NoView, T!Export!Nothing, BusExport!Nothing, T!Export!TypeOK,
     BusExport!TypeOK
<1>2. T!Places!TypeOK => PlacesOverlap!TypeOK
  BY DEF T!Places!Receipt, PlacesOverlap!Receipt, T!Places!TypeOK, PlacesOverlap!TypeOK
<1>3. T!OnDemand!TypeOK => Holidays!TypeOK
  BY DEF T!OnDemand!None, Holidays!None, T!OnDemand!TypeOK, Holidays!TypeOK
<1>4. T!Times!TypeOK => FerryTimes!TypeOK
  BY DEF T!Times!None, FerryTimes!None, T!Times!Nobody, FerryTimes!Nobody, T!Times!TypeOK,
     FerryTimes!TypeOK
<1>5. QED
  BY <1>1, <1>2, <1>3, <1>4, BusExportRuns, TerminalBounds, T!ExportTypes, OverlapRun,
     OverlapBounds, T!SearchBudget, HolidaysRun, T!ServedData, FerryTimesRun, FerryBounds,
     T!TimetableTypes, PTL DEF SecondsTyped

\* Whatever service a behaviour picked, its variables keep their types.
THEOREM TypesHold == Spec => []TypesOK
<1>1. ListsTyped /\ StoresTyped /\ SecondsTyped => TypesOK
  BY DEF ListsTyped, StoresTyped, SecondsTyped, Running, TypesOK
<1>2. QED
  BY <1>1, TypesOfLists, TypesOfStores, TypesOfSeconds, PTL

================================================================================
