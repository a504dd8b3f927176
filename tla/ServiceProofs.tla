------------------------------ MODULE ServiceProofs ------------------------------
(***************************************************************************)
(* Proofs about the services that MCServices runs one at a time, each for  *)
(* any number of requests, keys, rows and calls.  A service is an instance *)
(* of its module; as in MCServices a variable that several modules declare *)
(* is one variable here.  The bounds of a service are the hypothesis of    *)
(* its theorem.                                                            *)
(***************************************************************************)
EXTENDS Integers, Sequences, FiniteSets, FiniteSetTheorems, WellFoundedInduction, TLAPS

CONSTANTS
    \* ---- cached_transport_statistics
    StatRequest, StatKey, StatTtl, StatSlots, StatLocks, StatTime,
    \* ---- the reference lists and their heads
    RefWorker, RefId, RefJob, RefDropFactor, RefDueAfter, RefTime, RefRuns,
    \* ---- the precomputed parking analytics
    AnaProc, AnaAirport, AnaAge, AnaTime,
    \* ---- the flight and holiday caches
    OdProc, OdKey, OdKind, OdTtl, OdBackoff, OdTime,
    \* ---- the selected-road traffic map
    RdProc, RdKey, RdTtl, RdBlock, RdDay, RdMax, RdEntries, RdTime,
    \* ---- backup and restore
    BkLimit, BkSize, BkRetention, BkFiles, BkDb,
    \* ---- the positions of bus terminals and ferry ports
    PlProc, PlPlace, PlKindOf, PlName, PlTarget, PlJob, PlOverlap, PlMax, PlKeep, PlTime, PlReceipts,
    \* ---- the station mappings
    RmAdmin, RmCode, RmPlace, RmCodeName, RmPlaceName, RmCodeNumber, RmPlaceNumber, RmAlias,
    \* ---- the stored timetables
    TtKind, TtProc, TtWorker, TtDate, TtStorageDays, TtCacheTtl, TtMinInterval, TtBackoff, TtCalls,
    TtErrors, TtDayLength, TtTime,
    \* ---- the ferry reference files
    VhProc, VhDataset, VhArchived, VhWeek, VhTime,
    \* ---- the rail timetables
    KrProc, KrSnapshot, KrBroken, KrDay, KrMonthOf, KrBase, KrHoliday, KrEvery, KrCalls, KrRun,
    KrFails, KrTime,
    \* ---- highway traffic and incidents
    HwProc, HwKey, HwAnswers, HwDropFactor, HwInterval, HwReservation, HwRecent, HwMaxAge, HwTime,
    HwRuns, HwClaims,
    \* ---- the prices of the rest areas
    RaProc, RaClient, RaArea, RaLimit, RaWindow, RaStale, RaTime, RaRuns,
    \* ---- the statistics archive
    ArLength, ArRetention, ArWindow, ArBuckets, ArRows, ArTime,
    \* ---- the frozen exports
    ExReader, ExKind, ExRowsOf, ExLimit, ExTtl, ExTime, ExPromotions, ExEdits,
    \* ---- the paged price history
    PrTtl, PrWindow, PrStale, PrLimit, PrRows, PrUpdates, PrTime

VARIABLES
    \* ---- of several services
    now, cache, pc, key, rows, runs, items, head, job, run, made,
    lock, lost, active, pending, left, seen, attempts, answer,
    \* ---- of one
    entry, users, owner, mine,
    flag, latest, lease, copy, base,
    snaps, gen,
    changes, since, reply, served,
    blocked, day, saved, calls, failed,
    db, files, flow, staged, pre, uploaded,
    name, loc, receipts, holder, list, paid, counted, found, form,
    link, known, auto, manual, reading, batch, shown, offered, pages,
    row, mem, last, limited, at, date, used, errors, start, stamped, called, refused,
    archive, began, file,
    stored, calendar, started, fails, todo, outcome,
    nextRun, claims, state, baseline, history, statistics, current, incidents, claimed, result,
    loaded,
    success, error, nextId, collected, stale, status, after, got, due,
    records, inserting, checked, next, upto, prev, added,
    heads, snapshots, promotions, edits, published, kind, view, victims, attempt, cursor,
    held, want

--------------------------------------------------------------------------------
(* The statistics cache.                                                   *)

Statistics == INSTANCE StatisticsCache WITH
    Proc <- StatRequest, Key <- StatKey, Ttl <- StatTtl, Slots <- StatSlots,
    MaxLocks <- StatLocks, MaxTime <- StatTime

StatisticsBounds ==
    /\ IsFiniteSet(StatRequest) /\ Statistics!Nobody \notin StatRequest
    /\ StatLocks \in Nat /\ StatTime \in Nat

\* The requests that use a lock object.
UsersOf(i) == {p \in StatRequest : mine[p] = i}

StatTypes ==
    /\ now \in 0..StatTime /\ made \in 0..StatLocks
    /\ entry \in [StatKey -> 0..StatLocks]
    /\ users \in [1..StatLocks -> Nat]
    /\ owner \in [1..StatLocks -> StatRequest \cup {Statistics!Nobody}]
    /\ pc \in [StatRequest -> {"idle", "waiting", "locked", "calculate"}]
    /\ key \in [StatRequest -> StatKey \cup {Statistics!None}]
    /\ mine \in [StatRequest -> 0..StatLocks]

\* A request uses the lock object of its key, which is in the table; objects in the table
\* belong to one key and were made; the lock's holder is the request that thinks so.
LockTable ==
    /\ \A p \in StatRequest :
          IF pc[p] = "idle" THEN mine[p] = 0
          ELSE key[p] \in StatKey /\ mine[p] # 0 /\ entry[key[p]] = mine[p]
    /\ \A p \in StatRequest : pc[p] \in {"locked", "calculate"} => owner[mine[p]] = p
    /\ \A k \in StatKey : entry[k] <= made
    /\ \A k, l \in StatKey : entry[k] = entry[l] /\ entry[k] # 0 => k = l

\* The counter of a lock object counts its users.
UsersCounted == \A i \in 1..StatLocks : users[i] = Cardinality(UsersOf(i))

StatInv == StatTypes /\ LockTable /\ UsersCounted /\ Statistics!LocksCollected

\* The counter's library is the one of this module.
LEMMA SameCardinality == \A S : Statistics!Cardinality(S) = Cardinality(S)
  BY DEF Statistics!Cardinality, Cardinality

\* Every set of users is finite.
LEMMA UsersFinite ==
  ASSUME StatisticsBounds, NEW i
  PROVE  IsFiniteSet(UsersOf(i)) /\ Cardinality(UsersOf(i)) \in Nat
<1>1. UsersOf(i) \in SUBSET StatRequest
  BY DEF UsersOf
<1>2. QED
  BY <1>1, FS_Subset, FS_CardinalityType DEF StatisticsBounds

\* Nobody asks and no lock object exists initially.
LEMMA StatInit == StatisticsBounds /\ Statistics!Init => StatInv
<1> SUFFICES ASSUME StatisticsBounds, Statistics!Init PROVE StatInv
  OBVIOUS
<1> USE DEF StatisticsBounds, Statistics!Init
<1>1. StatTypes /\ LockTable
  BY DEF StatTypes, LockTable
<1>2. \A i \in 1..StatLocks : UsersOf(i) = {}
  BY DEF UsersOf
<1>3. UsersCounted
  BY <1>2, FS_EmptySet DEF UsersCounted
<1>4. Statistics!LocksCollected
  BY DEF Statistics!LocksCollected
<1>5. QED
  BY <1>1, <1>3, <1>4 DEF StatInv

\* A request that leaves: the object stays in the table exactly when others use it.
LEMMA StatLeave ==
  ASSUME StatisticsBounds, StatInv, NEW p \in StatRequest, pc[p] # "idle", Statistics!Leave(p)
  PROVE  StatInv'
<1> USE DEF StatisticsBounds, StatInv
<1>0. PICK i \in 1..StatLocks, k \in StatKey : i = mine[p] /\ k = key[p] /\ entry[k] = i
  BY DEF StatTypes, LockTable
<1>1. i \in 1..StatLocks /\ k \in StatKey /\ entry[k] = i
  BY <1>0
<1>2. /\ mine' = [mine EXCEPT ![p] = 0]
      /\ users' = [users EXCEPT ![i] = users[i] - 1]
      /\ pc' = [pc EXCEPT ![p] = "idle"]
      /\ key' = [key EXCEPT ![p] = Statistics!None]
      /\ UNCHANGED <<now, made>>
      /\ owner' = IF owner[i] = p THEN [owner EXCEPT ![i] = Statistics!Nobody] ELSE owner
      /\ entry' = IF users[i] = 1 THEN [entry EXCEPT ![k] = 0] ELSE entry
  BY <1>0 DEF Statistics!Leave, Statistics!Dropped
<1>3. /\ UsersOf(i)' = UsersOf(i) \ {p} /\ p \in UsersOf(i)
      /\ \A j \in 1..StatLocks : j # i => UsersOf(j)' = UsersOf(j)
  <2>1. \A q \in StatRequest : mine'[q] = IF q = p THEN 0 ELSE mine[q]
    BY <1>2 DEF StatTypes
  <2>2. p \in UsersOf(i) /\ \A j : UsersOf(j)' = {q \in StatRequest : mine'[q] = j}
    BY <1>0 DEF UsersOf
  <2>3. \A j \in 1..StatLocks : \A q : q \in UsersOf(j)' <=> q \in UsersOf(j) /\ q # p
    BY <2>1, <2>2 DEF UsersOf
  <2>4. \A j \in 1..StatLocks \ {i} : p \notin UsersOf(j)
    BY <1>0 DEF UsersOf
  <2>5. UsersOf(i)' = UsersOf(i) \ {p}
    BY <1>1, <2>3
  <2>6. \A j \in 1..StatLocks : j # i => UsersOf(j)' = UsersOf(j)
    BY <2>3, <2>4
  <2>7. QED
    BY <2>2, <2>5, <2>6
<1>4. /\ users[i] = Cardinality(UsersOf(i)) /\ users[i] \in Nat \ {0}
      /\ Cardinality(UsersOf(i)') = users[i] - 1
      /\ users[i] = 1 => UsersOf(i) = {p}
  <2>1. /\ Cardinality(UsersOf(i) \ {p}) = Cardinality(UsersOf(i)) - 1
        /\ IsFiniteSet(UsersOf(i) \ {p})
    BY <1>3, UsersFinite, FS_RemoveElement
  <2>2. Cardinality(UsersOf(i) \ {p}) \in Nat
    BY <2>1, FS_CardinalityType
  <2>3. users[i] = Cardinality(UsersOf(i)) /\ users[i] \in Nat
    BY <1>1 DEF UsersCounted, StatTypes
  <2>4. users[i] = 1 => UsersOf(i) \ {p} = {}
    BY <2>1, <2>3, FS_EmptySet
  <2>5. QED
    BY <1>3, <2>1, <2>2, <2>3, <2>4
<1>5. StatTypes'
  BY <1>1, <1>2, <1>4 DEF StatTypes
<1>6. UsersCounted'
  <2>1. \A j \in 1..StatLocks : users'[j] = IF j = i THEN users[i] - 1 ELSE users[j]
    BY <1>1, <1>2 DEF StatTypes
  <2>2. ASSUME NEW j \in 1..StatLocks PROVE users'[j] = Cardinality(UsersOf(j)')
    <3>1. CASE j = i
      BY <1>4, <2>1, <3>1
    <3>2. CASE j # i
      BY <1>3, <2>1, <3>2 DEF UsersCounted
    <3>3. QED
      BY <3>1, <3>2
  <2>3. QED
    BY <2>2 DEF UsersCounted, UsersOf
<1>7. \A q \in StatRequest \ {p} : pc[q] # "idle" => entry'[key[q]] = entry[key[q]]
  <2>1. \A q \in StatRequest \ {p} : pc[q] # "idle" /\ users[i] = 1 => mine[q] # i
    BY <1>4 DEF UsersOf
  <2>2. QED
    BY <1>1, <1>2, <2>1 DEF LockTable, StatTypes
<1>8. LockTable'
  <2>1. \A q \in StatRequest : IF pc'[q] = "idle" THEN mine'[q] = 0
                               ELSE /\ key'[q] \in StatKey /\ mine'[q] # 0
                                    /\ entry'[key'[q]] = mine'[q]
    BY <1>2, <1>7 DEF LockTable, StatTypes
  <2>2. \A q \in StatRequest : pc'[q] \in {"locked", "calculate"} => owner'[mine'[q]] = q
    BY <1>1, <1>2 DEF LockTable, StatTypes
  <2>3. \A l \in StatKey : entry'[l] \in {0, entry[l]}
    BY <1>1, <1>2 DEF StatTypes
  <2>4. QED
    BY <1>2, <2>1, <2>2, <2>3 DEF LockTable, StatTypes
<1>9. Statistics!LocksCollected'
  <2>1. \A j \in 1..StatLocks \ {i} : users'[j] = users[j]
    BY <1>1, <1>2 DEF StatTypes
  <2>2. \A l \in StatKey, j \in 1..StatLocks \ {i} : entry'[l] = j <=> entry[l] = j
    BY <1>1, <1>2 DEF StatTypes
  <2>3. (\E l \in StatKey : entry'[l] = i) <=> users[i] # 1
    BY <1>1, <1>2 DEF StatTypes, LockTable
  <2>4. users'[i] = users[i] - 1 /\ users[i] \in Nat \ {0}
    BY <1>1, <1>2, <1>4 DEF StatTypes
  <2>5. QED
    BY <1>1, <2>1, <2>2, <2>3, <2>4 DEF Statistics!LocksCollected
<1>10. QED
  BY <1>5, <1>6, <1>8, <1>9

\* A request that joins or makes the lock object of its key.
LEMMA StatMiss ==
  ASSUME StatisticsBounds, StatInv, NEW p \in StatRequest, NEW k \in StatKey,
         Statistics!Miss(p, k)
  PROVE  StatInv'
<1> USE DEF StatisticsBounds, StatInv
<1>0. PICK i : i = IF entry[k] = 0 THEN made + 1 ELSE entry[k]
  OBVIOUS
<1>1. /\ pc[p] = "idle" /\ (entry[k] = 0 => made < StatLocks)
      /\ mine' = [mine EXCEPT ![p] = i]
      /\ users' = [users EXCEPT ![i] = users[i] + 1]
      /\ pc' = [pc EXCEPT ![p] = "waiting"]
      /\ key' = [key EXCEPT ![p] = k]
      /\ entry' = [entry EXCEPT ![k] = i]
      /\ made' = IF entry[k] = 0 THEN made + 1 ELSE made
      /\ UNCHANGED <<now, owner>>
  BY <1>0 DEF Statistics!Miss
<1>2. /\ i \in 1..StatLocks /\ i <= made' /\ made' \in 0..StatLocks /\ made <= made'
      /\ mine[p] = 0
  BY <1>0, <1>1 DEF StatTypes, LockTable
<1>3. /\ \A l \in StatKey \ {k} : entry[l] # i
      /\ entry[k] = 0 => \A l \in StatKey : entry[l] # i
  BY <1>0, <1>1 DEF StatTypes, LockTable
<1>4. /\ UsersOf(i)' = UsersOf(i) \cup {p} /\ p \notin UsersOf(i)
      /\ \A j \in 1..StatLocks : j # i => UsersOf(j)' = UsersOf(j)
  <2>1. \A q \in StatRequest : mine'[q] = IF q = p THEN i ELSE mine[q]
    BY <1>1 DEF StatTypes
  <2>2. p \notin UsersOf(i) /\ \A j : UsersOf(j)' = {q \in StatRequest : mine'[q] = j}
    BY <1>2 DEF UsersOf
  <2>3. \A q : q \in UsersOf(i)' <=> q \in UsersOf(i) \/ q = p
    BY <2>1, <2>2 DEF UsersOf
  <2>4. \A j \in 1..StatLocks \ {i} : \A q : q \in UsersOf(j)' <=> q \in UsersOf(j)
    BY <1>2, <2>1, <2>2 DEF UsersOf
  <2>5. QED
    BY <2>2, <2>3, <2>4 DEF UsersOf
<1>5. users[i] = Cardinality(UsersOf(i)) /\ Cardinality(UsersOf(i)') = users[i] + 1
  <2>1. IsFiniteSet(UsersOf(i))
    BY UsersFinite
  <2>2. Cardinality(UsersOf(i) \cup {p}) = Cardinality(UsersOf(i)) + 1
    BY <1>4, <2>1, FS_AddElement
  <2>3. QED
    BY <1>2, <1>4, <2>2 DEF UsersCounted
<1>6. StatTypes'
  BY <1>1, <1>2 DEF StatTypes
<1>7. UsersCounted'
  <2>1. \A j \in 1..StatLocks : users'[j] = IF j = i THEN users[i] + 1 ELSE users[j]
    BY <1>1, <1>2 DEF StatTypes
  <2>2. ASSUME NEW j \in 1..StatLocks PROVE users'[j] = Cardinality(UsersOf(j)')
    <3>1. CASE j = i
      BY <1>5, <2>1, <3>1
    <3>2. CASE j # i
      BY <1>4, <2>1, <3>2 DEF UsersCounted
    <3>3. QED
      BY <3>1, <3>2
  <2>3. QED
    BY <2>2 DEF UsersCounted, UsersOf
<1>8. entry[k] # 0 => i = entry[k]
  BY <1>0
<1>9. LockTable'
  <2>1. \A q \in StatRequest \ {p} : pc[q] # "idle" => entry'[key[q]] = entry[key[q]]
    BY <1>1, <1>8 DEF LockTable, StatTypes
  <2>2. \A q \in StatRequest : IF pc'[q] = "idle" THEN mine'[q] = 0
                               ELSE /\ key'[q] \in StatKey /\ mine'[q] # 0
                                    /\ entry'[key'[q]] = mine'[q]
    BY <1>1, <1>2, <2>1 DEF LockTable, StatTypes
  <2>3. \A q \in StatRequest : pc'[q] \in {"locked", "calculate"} => owner'[mine'[q]] = q
    BY <1>1 DEF LockTable, StatTypes
  <2>4. \A l \in StatKey : entry'[l] = IF l = k THEN i ELSE entry[l]
    BY <1>1 DEF StatTypes
  <2>5. \A l \in StatKey : entry'[l] <= made'
    <3>1. \A l \in StatKey : entry[l] \in Nat /\ entry[l] <= made
      BY DEF LockTable, StatTypes
    <3>2. made \in Nat /\ made' \in Nat
      BY <1>2 DEF StatTypes
    <3>3. QED
      BY <1>2, <2>4, <3>1, <3>2
  <2>6. \A l, m \in StatKey : entry'[l] = entry'[m] /\ entry'[l] # 0 => l = m
    BY <1>3, <2>4 DEF LockTable
  <2>7. QED
    BY <2>2, <2>3, <2>5, <2>6 DEF LockTable
<1>10. Statistics!LocksCollected'
  <2>1. \A l \in StatKey : entry'[l] = IF l = k THEN i ELSE entry[l]
    BY <1>1 DEF StatTypes
  <2>2. \A j \in 1..StatLocks : users'[j] = IF j = i THEN users[i] + 1 ELSE users[j]
    BY <1>1 DEF StatTypes
  <2>3. users[i] \in Nat
    BY <1>2 DEF StatTypes
  <2>4. ASSUME NEW j \in 1..StatLocks
        PROVE  users'[j] > 0 <=> \E l \in StatKey : entry'[l] = j
    <3>1. CASE j = i
      BY <2>1, <2>2, <2>3, <3>1
    <3>2. CASE j # i
      <4>1. users'[j] = users[j] /\ (users[j] > 0 <=> \E l \in StatKey : entry[l] = j)
        BY <2>2, <3>2 DEF Statistics!LocksCollected
      <4>2. (\E l \in StatKey : entry[l] = j) <=> \E l \in StatKey : entry'[l] = j
        BY <1>8, <2>1, <2>4, <3>2
      <4>3. QED
        BY <4>1, <4>2
    <3>3. QED
      BY <3>1, <3>2
  <2>5. QED
    BY <2>4 DEF Statistics!LocksCollected
<1>11. QED
  BY <1>6, <1>7, <1>9, <1>10

\* Every step keeps the invariant.
LEMMA StatStep ==
  ASSUME StatisticsBounds, StatInv, [Statistics!Next]_(Statistics!vars)
  PROVE  StatInv'
<1>1. CASE Statistics!Tick \/ UNCHANGED Statistics!vars
  <2>1. UNCHANGED <<entry, users, owner, made, pc, key, mine>>
    BY <1>1 DEF Statistics!Tick, Statistics!vars
  <2>2. now' \in 0..StatTime
    BY <1>1 DEF Statistics!Tick, Statistics!vars, StatInv, StatTypes, StatisticsBounds
  <2>3. StatTypes'
    BY <2>1, <2>2 DEF StatInv, StatTypes
  <2>4. LockTable' /\ UsersCounted' /\ Statistics!LocksCollected'
    BY <2>1 DEF StatInv, LockTable, UsersCounted, UsersOf, Statistics!LocksCollected
  <2>5. QED
    BY <2>3, <2>4 DEF StatInv
<1>2. ASSUME NEW p \in StatRequest, Statistics!Acquire(p) \/ Statistics!Calculate(p)
      PROVE  StatInv'
  <2> USE DEF StatisticsBounds, StatInv
  <2>1. /\ UNCHANGED <<now, entry, users, made, key, mine>>
        /\ pc[p] # "idle"
        /\ \E x \in {"locked", "calculate"} : pc' = [pc EXCEPT ![p] = x]
        /\ \/ /\ owner[mine[p]] = Statistics!Nobody
              /\ owner' = [owner EXCEPT ![mine[p]] = p]
           \/ pc[p] = "locked" /\ owner' = owner
    BY <1>2 DEF Statistics!Acquire, Statistics!Calculate
  <2>2. StatTypes'
    <3>1. mine[p] \in 1..StatLocks
      BY <2>1 DEF LockTable, StatTypes
    <3>2. pc' \in [StatRequest -> {"idle", "waiting", "locked", "calculate"}]
      BY <2>1 DEF StatTypes
    <3>3. owner' \in [1..StatLocks -> StatRequest \cup {Statistics!Nobody}]
      BY <2>1, <3>1 DEF StatTypes
    <3>4. QED
      BY <2>1, <3>2, <3>3 DEF StatTypes
  <2>3. LockTable'
    <3>1. \A q \in StatRequest : IF pc'[q] = "idle" THEN mine[q] = 0
                                 ELSE key[q] \in StatKey /\ mine[q] # 0 /\ entry[key[q]] = mine[q]
      BY <2>1 DEF LockTable, StatTypes
    <3>2. \A q \in StatRequest : pc'[q] \in {"locked", "calculate"} => owner'[mine[q]] = q
      BY <2>1 DEF LockTable, StatTypes
    <3>3. QED
      BY <2>1, <3>1, <3>2 DEF LockTable
  <2>4. UsersCounted' /\ Statistics!LocksCollected'
    BY <2>1 DEF UsersCounted, UsersOf, Statistics!LocksCollected
  <2>5. QED
    BY <2>2, <2>3, <2>4
<1>3. ASSUME NEW p \in StatRequest,
             \/ Statistics!Answered(p) \/ Statistics!Refused(p)
             \/ Statistics!Store(p) \/ Statistics!Fail(p)
      PROVE  StatInv'
  BY <1>3, StatLeave DEF Statistics!Answered, Statistics!Refused, Statistics!Store, Statistics!Fail
<1>4. QED
  BY <1>1, <1>2, <1>3, StatMiss DEF Statistics!Next

\* A key is calculated by one request at a time and no lock object outlives its users,
\* although objects come and go with their users and waiters give up.
THEOREM OneFlight ==
  ASSUME StatisticsBounds
  PROVE  Statistics!Spec
           => [](Statistics!TypeOK /\ Statistics!OneCalculation /\ Statistics!LocksCollected)
<1>1. StatInv
        => Statistics!TypeOK /\ Statistics!OneCalculation /\ Statistics!LocksCollected
  <2> SUFFICES ASSUME StatInv
               PROVE  /\ Statistics!TypeOK /\ Statistics!OneCalculation
                      /\ Statistics!LocksCollected
    OBVIOUS
  <2>1. \A i \in 1..StatLocks : users[i] \in 0..Cardinality(StatRequest)
    <3>1. \A i : UsersOf(i) \in SUBSET StatRequest
      BY DEF UsersOf
    <3>2. \A i : Cardinality(UsersOf(i)) <= Cardinality(StatRequest)
      BY <3>1, FS_Subset DEF StatisticsBounds
    <3>3. Cardinality(StatRequest) \in Nat
      BY FS_CardinalityType DEF StatisticsBounds
    <3>4. QED
      BY <3>2, <3>3 DEF StatInv, UsersCounted, StatTypes
  <2>2. Statistics!TypeOK
    BY <2>1, SameCardinality DEF Statistics!TypeOK, StatInv, StatTypes
  <2>3. Statistics!OneCalculation
    BY DEF Statistics!OneCalculation, Statistics!Calculating, StatInv, LockTable
  <2>4. QED
    BY <2>2, <2>3 DEF StatInv
<1>2. StatInv /\ [Statistics!Next]_(Statistics!vars) => StatInv'
  BY StatStep
<1>3. Statistics!Init => StatInv
  BY StatInit
<1>4. QED
  BY <1>1, <1>2, <1>3, PTL DEF Statistics!Spec

--------------------------------------------------------------------------------
(* The reference lists and their heads.                                    *)

Reference == INSTANCE ReferenceCollection WITH
    Proc <- RefWorker, Id <- RefId, Job <- RefJob, DropFactor <- RefDropFactor,
    DueAfter <- RefDueAfter, MaxTime <- RefTime, MaxRuns <- RefRuns

ReferenceBounds ==
    RefTime \in Nat /\ RefRuns \in Nat /\ RefJob \subseteq {"rail", "port", "bus"}

\* A run has its number and its job, and only the railway session holds a head it loaded before.
RunsKnown ==
    \A p \in RefWorker :
        /\ pc[p] # "idle" => run[p] # 0 /\ job[p] \in RefJob
        /\ copy[p] # Reference!NoHead => job[p] = "rail"

RefInv == Reference!TypeOK /\ RunsKnown /\ Reference!BusHeadsTogether

\* Heads are records of four fields, NoHead included.
LEMMA HeadFields ==
  ASSUME ReferenceBounds, NEW h \in Reference!Head \cup {Reference!NoHead}
  PROVE  /\ h.order \in 0..RefRuns /\ h.at \in 0..RefTime /\ h.members \subseteq RefId
         /\ h # Reference!NoHead => h \in Reference!Head
<1>1. Reference!NoHead.order = 0 /\ Reference!NoHead.at = 0 /\ Reference!NoHead.members = {}
  BY DEF Reference!NoHead
<1>2. CASE h = Reference!NoHead
  BY <1>1, <1>2 DEF ReferenceBounds
<1>3. CASE h \in Reference!Head
  BY <1>3 DEF Reference!Head, ReferenceBounds
<1>4. h \in Reference!Head \/ h = Reference!NoHead
  OBVIOUS
<1>5. QED
  BY <1>2, <1>3, <1>4

\* A failure is marked in the heads of the run's scopes and changes no set and no order.
LEMMA MarkingKeeps ==
  ASSUME ReferenceBounds, Reference!TypeOK, NEW j, NEW r
  PROVE  /\ Reference!MarkedFailure(j, r)
              \in [Reference!Scope -> Reference!Head \cup {Reference!NoHead}]
         /\ \A s \in Reference!Scope :
               Reference!MarkedFailure(j, r)[s].order = head[s].order
<1>1. ASSUME NEW s \in Reference!Scope
      PROVE  /\ Reference!MarkedFailure(j, r)[s] \in Reference!Head \cup {Reference!NoHead}
             /\ Reference!MarkedFailure(j, r)[s].order = head[s].order
  <2>1. head[s] \in Reference!Head \cup {Reference!NoHead}
    BY DEF Reference!TypeOK
  <2>2. CASE Reference!MarkedFailure(j, r)[s] = head[s]
    BY <2>1, <2>2
  <2>3. CASE /\ head[s] # Reference!NoHead
             /\ Reference!MarkedFailure(j, r)[s] = [head[s] EXCEPT !.error = TRUE]
    BY <2>1, <2>3 DEF Reference!Head
  <2>4. QED
    BY <2>2, <2>3 DEF Reference!MarkedFailure
<1>2. QED
  BY <1>1 DEF Reference!MarkedFailure

\* The types, the runs and the two bus heads hold initially.
LEMMA RefInit == ReferenceBounds /\ Reference!Init => RefInv
<1> SUFFICES ASSUME ReferenceBounds, Reference!Init PROVE RefInv
  OBVIOUS
<1> USE DEF ReferenceBounds, Reference!Init
<1>1. [s \in Reference!Scope |-> {}] \in [Reference!Scope -> SUBSET RefId]
  OBVIOUS
<1>2. latest \in [RefJob -> Reference!None..RefTime]
  BY DEF Reference!None
<1>3. Reference!TypeOK
  <2>0. now \in 0..RefTime /\ runs \in 0..RefRuns
    OBVIOUS
  <2>4. flag \in BOOLEAN
    OBVIOUS
  <2>1. /\ head \in [Reference!Scope -> Reference!Head \cup {Reference!NoHead}]
        /\ rows \in [Reference!Scope -> SUBSET RefId]
        /\ lease \in RefWorker \cup {Reference!Nobody}
    BY <1>1
  <2>2. /\ pc \in [RefWorker -> {"idle", "fetch", "store"}]
        /\ job \in [RefWorker -> RefJob \cup {"none"}]
        /\ run \in [RefWorker -> 0..RefRuns]
        /\ copy \in [RefWorker -> Reference!Head \cup {Reference!NoHead}]
        /\ items \in [RefWorker -> [Reference!Scope -> SUBSET RefId]]
    BY <1>1
  <2>3. QED
    BY <1>2, <2>0, <2>1, <2>2, <2>4 DEF Reference!TypeOK
<1>4. RunsKnown /\ Reference!BusHeadsTogether
  BY DEF RunsKnown, Reference!BusHeadsTogether, Reference!Scope
<1>5. QED
  BY <1>3, <1>4 DEF RefInv

\* A worker that forgets its session keeps the types and the runs.
LEMMA ResetKeeps ==
  ASSUME ReferenceBounds, RefInv, NEW p \in RefWorker, Reference!Reset(p)
  PROVE  /\ pc' \in [RefWorker -> {"idle", "fetch", "store"}]
         /\ job' \in [RefWorker -> RefJob \cup {"none"}]
         /\ run' \in [RefWorker -> 0..RefRuns]
         /\ copy' \in [RefWorker -> Reference!Head \cup {Reference!NoHead}]
         /\ items' \in [RefWorker -> [Reference!Scope -> SUBSET RefId]]
         /\ RunsKnown'
<1> USE DEF ReferenceBounds, RefInv, Reference!Reset, Reference!TypeOK
<1>1. [s \in Reference!Scope |-> {}] \in [Reference!Scope -> SUBSET RefId]
  OBVIOUS
<1>2. QED
  BY <1>1 DEF RunsKnown

\* A run that fails or dies leaves the heads' sets and orders alone.
LEMMA EndKeeps ==
  ASSUME ReferenceBounds, RefInv, NEW p \in RefWorker, Reference!Reset(p),
         lease' = Reference!Released(p), UNCHANGED <<now, flag, runs, rows, latest>>,
         head' = head \/ head' = Reference!MarkedFailure(job[p], run[p])
  PROVE  RefInv' /\ \A s \in Reference!Scope : head'[s].order = head[s].order
<1>1. /\ head' \in [Reference!Scope -> Reference!Head \cup {Reference!NoHead}]
      /\ \A s \in Reference!Scope : head'[s].order = head[s].order
  BY MarkingKeeps DEF RefInv, Reference!TypeOK
<1>2. lease' \in RefWorker \cup {Reference!Nobody}
  BY DEF RefInv, Reference!TypeOK, Reference!Released
<1>3. QED
  BY <1>1, <1>2, ResetKeeps
  DEF RefInv, Reference!TypeOK, Reference!BusHeadsTogether, Reference!Scope

\* What a run stores: every head of its scopes is of this run, which no later one has overtaken.
LEMMA StoreKeeps ==
  ASSUME ReferenceBounds, RefInv, NEW p \in RefWorker, Reference!Store(p)
  PROVE  RefInv' /\ Reference!HeadForward
<1> USE DEF RefInv
<1>1. /\ pc[p] = "store" /\ job[p] \in RefJob /\ run[p] \in 1..RefRuns /\ now \in 0..RefTime
      /\ items[p] \in [Reference!Scope -> SUBSET RefId]
  BY DEF Reference!Store, Reference!TypeOK, RunsKnown, ReferenceBounds
<1> DEFINE new(s) == [order |-> run[p], members |-> items[p][s], at |-> now, error |-> FALSE]
<1>2. \A s \in Reference!Scope : new(s) \in Reference!Head /\ new(s).order = run[p]
  BY <1>1 DEF Reference!Head
<1> HIDE DEF new
<1>3. /\ head' = [s \in Reference!Scope |->
             IF flag /\ s \in Reference!ScopesOf(job[p]) THEN new(s) ELSE head[s]]
      /\ rows' = [s \in Reference!Scope |-> rows[s] \union items[p][s]]
      /\ latest' = [latest EXCEPT ![job[p]] = now]
      /\ lease' = Reference!Released(p) /\ Reference!Reset(p)
      /\ UNCHANGED <<now, flag, runs>>
      /\ ~ Reference!Overtaken(p)
  BY DEF Reference!Store, Reference!Promoted, new
<1>4. /\ head' \in [Reference!Scope -> Reference!Head \cup {Reference!NoHead}]
      /\ \A s \in Reference!Scope : head'[s] = IF flag /\ s \in Reference!ScopesOf(job[p])
                                              THEN new(s) ELSE head[s]
  BY <1>2, <1>3 DEF Reference!TypeOK
<1>5. Reference!BusHeadsTogether'
  <2>1. {"express", "intercity"} \subseteq Reference!Scope
    BY DEF Reference!Scope
  <2>2. "express" \in Reference!ScopesOf(job[p]) <=> "intercity" \in Reference!ScopesOf(job[p])
    BY <1>1 DEF Reference!ScopesOf, ReferenceBounds
  <2>3. QED
    BY <1>2, <1>4, <2>1, <2>2 DEF Reference!BusHeadsTogether
<1>6. Reference!TypeOK'
  <2>1. lease' \in RefWorker \cup {Reference!Nobody}
    BY <1>3 DEF Reference!TypeOK, Reference!Released
  <2>2. rows' \in [Reference!Scope -> SUBSET RefId]
    BY <1>1, <1>3 DEF Reference!TypeOK
  <2>3. latest' \in [RefJob -> Reference!None..RefTime]
    <3>1. now \in Reference!None..RefTime
      BY <1>1 DEF Reference!None, ReferenceBounds
    <3>2. QED
      BY <1>1, <1>3, <3>1 DEF Reference!TypeOK
  <2>4. QED
    BY <1>3, <1>4, <2>1, <2>2, <2>3, ResetKeeps DEF Reference!TypeOK
<1>7. Reference!HeadForward
  <2> SUFFICES ASSUME NEW s \in Reference!Scope \ {"rail"} PROVE head'[s].order >= head[s].order
    BY DEF Reference!HeadForward
  <2>1. head[s].order \in Nat
    BY HeadFields DEF Reference!TypeOK, ReferenceBounds
  <2>2. CASE ~ (flag /\ s \in Reference!ScopesOf(job[p]))
    BY <1>4, <2>1, <2>2
  <2>3. CASE flag /\ s \in Reference!ScopesOf(job[p])
    <3>1. copy[p] = Reference!NoHead
      BY <1>1, <2>3 DEF RunsKnown, Reference!ScopesOf
    <3>2. ~ (head[s].order > run[p])
      BY <1>3, <2>3, <3>1 DEF Reference!Overtaken, Reference!LoadedHead
    <3>3. QED
      BY <1>1, <1>2, <1>4, <2>1, <2>3, <3>2
  <2>4. QED
    BY <2>2, <2>3
<1>8. QED
  BY <1>3, <1>5, <1>6, <1>7, ResetKeeps

\* Every step keeps the invariant and puts no port or bus head back.
LEMMA RefStep ==
  ASSUME ReferenceBounds, RefInv, [Reference!Next]_(Reference!vars)
  PROVE  RefInv' /\ Reference!HeadForward
<1>1. ASSUME RefInv', \A s \in Reference!Scope : head'[s].order = head[s].order
      PROVE  RefInv' /\ Reference!HeadForward
  <2>1. \A s \in Reference!Scope : head[s].order \in Nat
    BY HeadFields DEF RefInv, Reference!TypeOK, ReferenceBounds
  <2>2. QED
    BY <1>1, <2>1 DEF Reference!HeadForward
<1>2. CASE UNCHANGED Reference!vars \/ Reference!Tick \/ Reference!EnableMap
  <2>1. /\ UNCHANGED <<runs, head, rows, latest, lease, pc, job, run, copy, items>>
        /\ flag' = flag \/ flag' = TRUE
        /\ now' = now \/ (now < RefTime /\ now' = now + 1)
    BY <1>2 DEF Reference!vars, Reference!dbVars, Reference!procVars, Reference!Tick,
       Reference!EnableMap
  <2>2. now' \in 0..RefTime
    BY <2>1 DEF RefInv, Reference!TypeOK, ReferenceBounds
  <2>3. flag' \in BOOLEAN
    BY <2>1 DEF RefInv, Reference!TypeOK
  <2>4. RefInv'
    BY <2>1, <2>2, <2>3 DEF RefInv, RunsKnown, Reference!TypeOK, Reference!BusHeadsTogether
  <2>5. QED
    BY <1>1, <2>1, <2>4
<1>3. ASSUME NEW p \in RefWorker, NEW j \in RefJob, Reference!Begin(p, j)
      PROVE  RefInv' /\ Reference!HeadForward
  <2> USE DEF ReferenceBounds, RefInv, Reference!TypeOK
  <2>1. /\ pc' = [pc EXCEPT ![p] = "fetch"] /\ job' = [job EXCEPT ![p] = j]
        /\ run' = [run EXCEPT ![p] = runs + 1]
        /\ copy' = [copy EXCEPT ![p] = IF j = "rail" THEN head["rail"] ELSE Reference!NoHead]
        /\ runs' = runs + 1 /\ runs < RefRuns
        /\ lease' \in {p, lease}
        /\ UNCHANGED <<now, flag, head, rows, latest, items>>
    BY <1>3 DEF Reference!Begin
  <2>2. runs + 1 \in 1..RefRuns
    BY <2>1
  <2>3. head["rail"] \in Reference!Head \cup {Reference!NoHead}
    BY DEF Reference!Scope
  <2>4. copy' \in [RefWorker -> Reference!Head \cup {Reference!NoHead}]
    BY <2>1, <2>3
  <2>5. Reference!TypeOK'
    BY <2>1, <2>2, <2>4
  <2>6. RunsKnown'
    BY <2>1, <2>2, <2>3 DEF RunsKnown
  <2>7. QED
    BY <1>1, <2>1, <2>5, <2>6 DEF Reference!BusHeadsTogether
<1>4. ASSUME NEW p \in RefWorker, Reference!Fetch(p)
      PROVE  RefInv' /\ Reference!HeadForward
  <2> USE DEF ReferenceBounds, RefInv, Reference!TypeOK
  <2>1. /\ pc[p] = "fetch" /\ pc' = [pc EXCEPT ![p] = "store"]
        /\ UNCHANGED <<now, flag, runs, head, rows, latest, lease, job, run, copy>>
    BY <1>4 DEF Reference!Fetch, Reference!dbVars
  <2>2. items' \in [RefWorker -> [Reference!Scope -> SUBSET RefId]]
    <3>1. PICK fetched \in [Reference!Scope -> SUBSET RefId] : items' = [items EXCEPT ![p] = fetched]
      <4>1. PICK listed \in [Reference!ScopesOf(job[p]) -> SUBSET RefId] :
               items' = [items EXCEPT ![p] =
                  [s \in Reference!Scope |-> IF s \in Reference!ScopesOf(job[p])
                                             THEN listed[s] ELSE {}]]
        BY <1>4 DEF Reference!Fetch
      <4>2. [s \in Reference!Scope |-> IF s \in Reference!ScopesOf(job[p])
                                       THEN listed[s] ELSE {}]
              \in [Reference!Scope -> SUBSET RefId]
        OBVIOUS
      <4>3. QED
        BY <4>1, <4>2
    <3>2. QED
      BY <3>1
  <2>3. QED
    BY <1>1, <2>1, <2>2 DEF RunsKnown, Reference!BusHeadsTogether
<1>5. ASSUME NEW p \in RefWorker,
             \/ Reference!FetchFails(p) \/ Reference!StoreFails(p) \/ Reference!Crash(p)
      PROVE  RefInv' /\ Reference!HeadForward
  BY <1>1, <1>5, EndKeeps
  DEF Reference!FetchFails, Reference!StoreFails, Reference!Crash, Reference!Fail
<1>6. ASSUME NEW p \in RefWorker, Reference!LeaseLost(p)
      PROVE  RefInv' /\ Reference!HeadForward
  <2>1. /\ UNCHANGED <<now, flag, runs, head, rows, latest, pc, job, run, copy, items>>
        /\ lease' = Reference!Nobody
    BY <1>6 DEF Reference!LeaseLost, Reference!procVars
  <2>2. RefInv'
    BY <2>1 DEF RefInv, RunsKnown, Reference!TypeOK, Reference!BusHeadsTogether
  <2>3. QED
    BY <1>1, <2>1, <2>2
<1>7. QED
  BY <1>2, <1>3, <1>4, <1>5, <1>6, StoreKeeps DEF Reference!Next

\* The heads of express and intercity terminals are of one run at every step, whatever fails, dies
\* or loses its lock.
THEOREM BusHeads ==
  ASSUME ReferenceBounds
  PROVE  Reference!Spec => [](Reference!TypeOK /\ Reference!BusHeadsTogether)
<1>1. Reference!Init => RefInv
  BY RefInit
<1>2. RefInv /\ [Reference!Next]_(Reference!vars) => RefInv'
  BY RefStep
<1>3. RefInv => Reference!TypeOK /\ Reference!BusHeadsTogether
  BY DEF RefInv
<1>4. QED
  BY <1>1, <1>2, <1>3, PTL DEF Reference!Spec

\* A late worker puts no port and no bus head back to an older run, because the guard reads the
\* head after the network wait.
THEOREM HeadsNotBack ==
  ASSUME ReferenceBounds
  PROVE  Reference!Spec => [][Reference!HeadForward]_(Reference!vars)
<1>1. Reference!Init => RefInv
  BY RefInit
<1>2. RefInv /\ [Reference!Next]_(Reference!vars)
        => RefInv' /\ [Reference!HeadForward]_(Reference!vars)
  BY RefStep
<1>3. QED
  BY <1>1, <1>2, PTL DEF Reference!Spec

--------------------------------------------------------------------------------
(* The precomputed parking analytics.                                      *)

Analytics == INSTANCE AnalyticsCache WITH
    Proc <- AnaProc, Airport <- AnaAirport, MaxAge <- AnaAge, MaxTime <- AnaTime

AnalyticsBounds ==
    /\ Analytics!Nobody \notin AnaProc /\ "collector" \notin AnaProc
    /\ AnaTime \in Nat

AnaTypes ==
    /\ now \in 0..AnaTime
    /\ lock \in AnaProc \cup {Analytics!Nobody, "collector"}
    /\ active \in BOOLEAN
    /\ snaps \subseteq Analytics!Snapshot /\ pending \subseteq Analytics!Snapshot
    /\ pc \in [AnaProc -> {Analytics!Idle, "read"}]
    /\ gen \in [AnaProc -> 0..AnaTime]
    /\ left \in [AnaProc -> SUBSET AnaAirport]
    /\ seen \in [AnaProc -> [AnaAirport -> SUBSET Analytics!Snapshot]]
    /\ cache \in [AnaAirport -> [gen: 0..AnaTime, rows: SUBSET Analytics!Snapshot]]

\* No clock reading is ahead of the clock.
Stamped ==
    /\ \A s \in snaps \cup pending : s.at <= now
    /\ \A p \in AnaProc : gen[p] <= now
    /\ \A a \in AnaAirport : cache[a].gen <= now

\* Until its connection breaks, a run of the collector or one refresh has the lock, and rows wait
\* for a commit only while a collector runs.
Exclusive ==
    lost \/ /\ active => lock = "collector"
            /\ ~ active => pending = {}
            /\ \A p \in AnaProc : pc[p] = "read" => lock = p

\* What a refresh has read is all there is.
ReadAll ==
    lost \/ \A p \in AnaProc : pc[p] = "read" =>
                \A a \in AnaAirport \ left[p] : \A s \in snaps : s.airport = a => s \in seen[p][a]

\* A row of the cache was computed from every snapshot up to its watermark, and what a collector
\* has not committed yet lies after it.
UpToWatermark ==
    lost \/ \A a \in AnaAirport :
                /\ \A s \in snaps : s.airport = a /\ s.at <= cache[a].gen => s \in cache[a].rows
                /\ \A s \in pending : s.at > cache[a].gen

AnaInv == AnaTypes /\ Stamped /\ Exclusive /\ ReadAll /\ UpToWatermark

\* Nothing is collected, read or cached initially.
LEMMA AnaInit == AnalyticsBounds /\ Analytics!Init => AnaInv
<1> SUFFICES ASSUME AnalyticsBounds, Analytics!Init PROVE AnaInv
  OBVIOUS
<1> USE DEF AnalyticsBounds, Analytics!Init
<1>1. active \in BOOLEAN /\ ~ active /\ pending = {} /\ snaps = {}
  OBVIOUS
<1>2. AnaTypes
  <2>1. cache \in [AnaAirport -> [gen: 0..AnaTime, rows: SUBSET Analytics!Snapshot]]
    BY DEF Analytics!Empty
  <2>2. seen \in [AnaProc -> [AnaAirport -> SUBSET Analytics!Snapshot]]
    OBVIOUS
  <2>3. QED
    BY <1>1, <2>1, <2>2 DEF AnaTypes
<1>3. Stamped
  BY DEF Stamped, Analytics!Empty
<1>4. Exclusive /\ ReadAll /\ UpToWatermark
  BY <1>1 DEF Exclusive, ReadAll, UpToWatermark, Analytics!Idle
<1>5. QED
  BY <1>2, <1>3, <1>4 DEF AnaInv

\* A run of the collector: what it commits is stamped after every watermark.
LEMMA AnaCollect ==
  ASSUME AnalyticsBounds, AnaInv,
         \/ Analytics!CollectBegin \/ Analytics!CollectEnd \/ Analytics!LockLost
         \/ \E a \in AnaAirport : Analytics!CollectInsert(a)
  PROVE  AnaInv'
<1> USE DEF AnalyticsBounds, AnaInv
<1>1. CASE Analytics!CollectBegin
  <2>1. /\ lock = Analytics!Nobody /\ lock' = "collector" /\ active' = TRUE
        /\ UNCHANGED <<now, snaps, lost, pending, pc, gen, left, seen, cache>>
    BY <1>1 DEF Analytics!CollectBegin, Analytics!refreshVars
  <2>2. active' \in BOOLEAN
    BY <2>1
  <2>3. AnaTypes'
    BY <2>1, <2>2 DEF AnaTypes
  <2>4. Exclusive'
    BY <2>1 DEF Exclusive
  <2>5. QED
    BY <2>1, <2>3, <2>4 DEF Stamped, ReadAll, UpToWatermark
<1>2. CASE \E a \in AnaAirport : Analytics!CollectInsert(a)
  <2>1. PICK a \in AnaAirport :
           /\ active /\ now < AnaTime /\ now' = now + 1
           /\ pending' = pending \cup {[airport |-> a, at |-> now + 1]}
           /\ UNCHANGED <<snaps, lock, lost, active, pc, gen, left, seen, cache>>
    BY <1>2 DEF Analytics!CollectInsert, Analytics!refreshVars
  <2>2. now' \in 0..AnaTime /\ now \in Nat /\ now + 1 \in 1..AnaTime
    BY <2>1 DEF AnaTypes
  <2>3. pending' \subseteq Analytics!Snapshot
    BY <2>1, <2>2 DEF AnaTypes, Analytics!Snapshot
  <2>4. AnaTypes'
    BY <2>1, <2>2, <2>3 DEF AnaTypes
  <2>5. \A b \in AnaAirport : cache[b].gen \in Nat /\ cache[b].gen <= now
    BY DEF AnaTypes, Stamped
  <2>6. \A s \in pending' : s \in pending \/ s.at = now + 1
    BY <2>1
  <2>7. \A s \in snaps \cup pending : s.at \in Nat
    BY DEF AnaTypes, Analytics!Snapshot
  <2>8. Stamped'
    <3>1. \A s \in snaps' \cup pending' : s.at <= now'
      BY <2>1, <2>2, <2>6, <2>7 DEF Stamped
    <3>2. \A p \in AnaProc : gen[p] \in Nat
      BY DEF AnaTypes
    <3>3. QED
      BY <2>1, <2>2, <2>5, <3>1, <3>2 DEF Stamped
  <2>9. UpToWatermark'
    BY <2>1, <2>2, <2>5, <2>6 DEF UpToWatermark
  <2>10. QED
    BY <2>1, <2>4, <2>8, <2>9 DEF Exclusive, ReadAll
<1>3. CASE Analytics!CollectEnd
  <2>1. /\ active /\ snaps' \in {snaps, snaps \cup pending} /\ active' = FALSE /\ pending' = {}
        /\ lock' = IF lock = "collector" THEN Analytics!Nobody ELSE lock
        /\ UNCHANGED <<now, lost, pc, gen, left, seen, cache>>
    BY <1>3 DEF Analytics!CollectEnd, Analytics!refreshVars
  <2>2. active' \in BOOLEAN
    BY <2>1
  <2>3. AnaTypes'
    BY <2>1, <2>2 DEF AnaTypes
  <2>4. Stamped'
    BY <2>1 DEF Stamped
  <2>5. lost \/ \A p \in AnaProc : pc[p] # "read"
    BY <2>1 DEF Exclusive
  <2>6. Exclusive' /\ ReadAll'
    BY <2>1, <2>5 DEF Exclusive, ReadAll
  <2>7. UpToWatermark'
    <3>1. \A s \in snaps \cup pending, b \in AnaAirport : s.at \in Nat /\ cache[b].gen \in Nat
      BY DEF AnaTypes, Analytics!Snapshot
    <3>2. QED
      BY <2>1, <3>1 DEF UpToWatermark
  <2>8. QED
    BY <2>3, <2>4, <2>6, <2>7
<1>4. CASE Analytics!LockLost
  <2>1. /\ lock' = Analytics!Nobody /\ lost'
        /\ UNCHANGED <<now, snaps, active, pending, pc, gen, left, seen, cache>>
    BY <1>4 DEF Analytics!LockLost, Analytics!refreshVars
  <2>2. QED
    BY <2>1 DEF AnaTypes, Stamped, Exclusive, ReadAll, UpToWatermark
<1>5. QED
  BY <1>1, <1>2, <1>3, <1>4

\* A refresh: it reads while no collector runs, so its watermark covers all it read.
LEMMA AnaRefresh ==
  ASSUME AnalyticsBounds, AnaInv, NEW p \in AnaProc,
         \/ Analytics!RefreshBegin(p) \/ Analytics!RefreshEnd(p)
         \/ \E a \in AnaAirport : Analytics!RefreshRead(p, a)
  PROVE  AnaInv'
<1> USE DEF AnalyticsBounds, AnaInv
<1>1. CASE Analytics!RefreshBegin(p)
  <2>1. /\ lock = Analytics!Nobody /\ lock' = p /\ now < AnaTime /\ now' = now + 1
        /\ gen' = [gen EXCEPT ![p] = now + 1]
        /\ left' = [left EXCEPT ![p] = AnaAirport]
        /\ seen' = [seen EXCEPT ![p] = [a \in AnaAirport |-> {}]]
        /\ pc' = [pc EXCEPT ![p] = "read"]
        /\ UNCHANGED <<snaps, lost, active, pending, cache>>
    BY <1>1 DEF Analytics!RefreshBegin, Analytics!Free
  <2>2. now' \in 0..AnaTime /\ now \in Nat
    BY <2>1 DEF AnaTypes
  <2>3. AnaTypes'
    <3>1. gen' \in [AnaProc -> 0..AnaTime]
      BY <2>1, <2>2 DEF AnaTypes
    <3>2. /\ seen' \in [AnaProc -> [AnaAirport -> SUBSET Analytics!Snapshot]]
          /\ left' \in [AnaProc -> SUBSET AnaAirport]
          /\ pc' \in [AnaProc -> {Analytics!Idle, "read"}]
      BY <2>1 DEF AnaTypes
    <3>3. QED
      BY <2>1, <2>2, <3>1, <3>2 DEF AnaTypes
  <2>4. Stamped'
    <3>1. /\ \A s \in snaps \cup pending : s.at \in Nat
          /\ \A b \in AnaAirport : cache[b].gen \in Nat
          /\ \A q \in AnaProc : gen[q] \in Nat /\ gen'[q] \in {gen[q], now + 1}
      BY <2>1 DEF AnaTypes, Analytics!Snapshot
    <3>2. QED
      BY <2>1, <2>2, <3>1 DEF Stamped
  <2>5. Exclusive' /\ ReadAll'
    <3>1. lost \/ (~ active /\ \A q \in AnaProc : pc[q] # "read")
      BY <2>1 DEF Exclusive, Analytics!Nobody
    <3>2. \A q \in AnaProc : /\ pc'[q] = IF q = p THEN "read" ELSE pc[q]
                             /\ left'[q] = IF q = p THEN AnaAirport ELSE left[q]
      BY <2>1 DEF AnaTypes
    <3>3. QED
      BY <2>1, <3>1, <3>2 DEF Exclusive, ReadAll
  <2>6. QED
    BY <2>1, <2>3, <2>4, <2>5 DEF UpToWatermark
<1>2. CASE \E a \in AnaAirport : Analytics!RefreshRead(p, a)
  <2>1. PICK a \in AnaAirport :
           /\ pc[p] = "read"
           /\ seen' = [seen EXCEPT ![p][a] = {s \in snaps : s.airport = a}]
           /\ left' = [left EXCEPT ![p] = left[p] \ {a}]
           /\ UNCHANGED <<now, snaps, lock, lost, active, pending, pc, gen, cache>>
    BY <1>2 DEF Analytics!RefreshRead
  <2>2. \A q \in AnaProc, b \in AnaAirport :
           /\ seen'[q][b] = IF q = p /\ b = a THEN {s \in snaps : s.airport = a} ELSE seen[q][b]
           /\ left'[q] = IF q = p THEN left[p] \ {a} ELSE left[q]
    BY <2>1 DEF AnaTypes
  <2>3. AnaTypes'
    <3>1. {s \in snaps : s.airport = a} \in SUBSET Analytics!Snapshot
      BY DEF AnaTypes
    <3>2. seen' \in [AnaProc -> [AnaAirport -> SUBSET Analytics!Snapshot]]
      BY <2>1, <3>1 DEF AnaTypes
    <3>3. left' \in [AnaProc -> SUBSET AnaAirport]
      BY <2>1 DEF AnaTypes
    <3>4. QED
      BY <2>1, <3>2, <3>3 DEF AnaTypes
  <2>4. ReadAll'
    <3>1. ASSUME ~ lost, NEW q \in AnaProc, pc[q] = "read", NEW b \in AnaAirport,
                 b \notin left'[q], NEW s \in snaps, s.airport = b
          PROVE  s \in seen'[q][b]
      <4>1. CASE q = p /\ b = a
        <5>1. seen'[q][b] = {z \in snaps : z.airport = a}
          BY <2>2, <4>1
        <5>2. QED
          BY <3>1, <4>1, <5>1
      <4>2. CASE ~ (q = p /\ b = a)
        <5>1. seen'[q][b] = seen[q][b] /\ b \notin left[q]
          BY <2>2, <3>1, <4>2
        <5>2. QED
          BY <3>1, <5>1 DEF ReadAll
      <4>3. QED
        BY <4>1, <4>2
    <3>2. QED
      BY <2>1, <3>1 DEF ReadAll
  <2>5. QED
    BY <2>1, <2>3, <2>4 DEF Stamped, Exclusive, UpToWatermark
<1>3. CASE Analytics!RefreshEnd(p)
  <2>1. /\ pc[p] = "read"
        /\ \/ left[p] = {} /\ cache' = [a \in AnaAirport |-> [gen |-> gen[p], rows |-> seen[p][a]]]
           \/ cache' = cache
        /\ pc' = [pc EXCEPT ![p] = Analytics!Idle]
        /\ gen' = [gen EXCEPT ![p] = 0]
        /\ left' = [left EXCEPT ![p] = {}]
        /\ seen' = [seen EXCEPT ![p] = [a \in AnaAirport |-> {}]]
        /\ lock' = IF lock = p THEN Analytics!Nobody ELSE lock
        /\ UNCHANGED <<now, snaps, lost, active, pending>>
    BY <1>3 DEF Analytics!RefreshEnd
  <2>2. gen[p] \in 0..AnaTime /\ seen[p] \in [AnaAirport -> SUBSET Analytics!Snapshot]
    BY DEF AnaTypes
  <2>3. AnaTypes'
    <3>1. cache' \in [AnaAirport -> [gen: 0..AnaTime, rows: SUBSET Analytics!Snapshot]]
      BY <2>1, <2>2 DEF AnaTypes
    <3>2. /\ seen' \in [AnaProc -> [AnaAirport -> SUBSET Analytics!Snapshot]]
          /\ left' \in [AnaProc -> SUBSET AnaAirport]
          /\ pc' \in [AnaProc -> {Analytics!Idle, "read"}]
      BY <2>1 DEF AnaTypes
    <3>3. gen' \in [AnaProc -> 0..AnaTime]
      BY <2>1 DEF AnaTypes
    <3>4. QED
      BY <2>1, <3>1, <3>2, <3>3 DEF AnaTypes
  <2>4. \A a \in AnaAirport :
           \/ cache'[a] = cache[a]
           \/ cache'[a].gen = gen[p] /\ cache'[a].rows = seen[p][a] /\ left[p] = {}
    BY <2>1
  <2>5. Stamped'
    <3>1. now \in Nat /\ \A q \in AnaProc : gen'[q] \in {gen[q], 0}
      BY <2>1 DEF AnaTypes
    <3>2. QED
      BY <2>1, <2>4, <3>1 DEF Stamped
  <2>6. Exclusive' /\ ReadAll'
    BY <2>1 DEF Exclusive, ReadAll, AnaTypes, Analytics!Idle
  <2>7. UpToWatermark'
    <3>1. lost \/ pending = {}
      BY <2>1 DEF Exclusive
    <3>2. ASSUME ~ lost, NEW a \in AnaAirport, NEW s \in snaps, s.airport = a,
                 s.at <= cache'[a].gen
          PROVE  s \in cache'[a].rows
      <4>1. CASE cache'[a] = cache[a]
        BY <3>2, <4>1 DEF UpToWatermark
      <4>2. CASE cache'[a].rows = seen[p][a] /\ left[p] = {}
        BY <2>1, <3>2, <4>2 DEF ReadAll
      <4>3. QED
        BY <2>4, <4>1, <4>2
    <3>3. QED
      BY <2>1, <3>1, <3>2 DEF UpToWatermark
  <2>8. QED
    BY <2>3, <2>5, <2>6, <2>7
<1>4. QED
  BY <1>1, <1>2, <1>3

\* What the analytics cache answers with was computed from every committed snapshot of the
\* airport, commits that come after the watermark included, while the collector's lock holds.
THEOREM AnalyticsWhole ==
  ASSUME AnalyticsBounds
  PROVE  Analytics!Spec => [](Analytics!TypeOK /\ Analytics!CacheComplete)
<1>1. Analytics!Init => AnaInv
  BY AnaInit
<1>2. AnaInv /\ [Analytics!Next]_(Analytics!vars) => AnaInv'
  <2> SUFFICES ASSUME AnaInv, [Analytics!Next]_(Analytics!vars) PROVE AnaInv'
    OBVIOUS
  <2>1. CASE UNCHANGED Analytics!vars
    BY <2>1 DEF AnaInv, AnaTypes, Stamped, Exclusive, ReadAll, UpToWatermark, Analytics!vars,
       Analytics!refreshVars
  <2>2. CASE Analytics!Next
    BY <2>2, AnaCollect, AnaRefresh DEF Analytics!Next
  <2>3. QED
    BY <2>1, <2>2
<1>3. AnaInv => Analytics!TypeOK /\ Analytics!CacheComplete
  <2> SUFFICES ASSUME AnaInv PROVE Analytics!TypeOK /\ Analytics!CacheComplete
    OBVIOUS
  <2>1. Analytics!TypeOK
    BY DEF AnaInv, AnaTypes, Analytics!TypeOK
  <2>2. \A s \in snaps, a \in AnaAirport : s.at \in Nat /\ cache[a].gen \in Nat
    BY DEF AnaInv, AnaTypes, Analytics!Snapshot
  <2>3. QED
    BY <2>1, <2>2 DEF AnaInv, UpToWatermark, Analytics!CacheComplete, Analytics!Usable
<1>4. QED
  BY <1>1, <1>2, <1>3, PTL DEF Analytics!Spec

--------------------------------------------------------------------------------
(* The flight and holiday caches.                                          *)

OnDemand == INSTANCE OnDemandCache WITH
    Proc <- OdProc, Key <- OdKey, Kind <- OdKind, Ttl <- OdTtl, Backoff <- OdBackoff,
    MaxTime <- OdTime

OnDemandBounds ==
    /\ OdTime \in Nat /\ OdBackoff \in Nat
    /\ OdKind \in [OdKey -> {"flight", "holiday"}]
    /\ OdTtl \in [{"flight", "holiday"} -> Nat \ {0}]

OdStatus == {OnDemand!None, "success", "upstream_error", "rate_limited"}
OdLife(k) == OdTtl[OdKind[k]]

OdTypes ==
    /\ now \in 0..OdTime
    /\ changes \in [OdKey -> Seq(0..OdTime)]
    /\ pc \in [OdProc -> {"idle", "fetch", "answered"}]
    /\ key \in [OdProc -> OdKey \cup {OnDemand!None}]
    /\ \A p \in OdProc : pc[p] # "idle" => key[p] \in OdKey
    /\ since \in [OdProc -> Nat] /\ \A p \in OdProc : since[p] <= now
    /\ reply \in [OdProc -> [status: OdStatus, ver: Nat]]
    /\ cache \in [OdKey -> [status: OdStatus, ver: Nat, exp: Nat]]

\* Version v of a key's data was the provider's at time t or later.
Since(k, v, t) ==
    /\ v <= Len(changes[k]) /\ t <= now
    /\ v < Len(changes[k]) => changes[k][v + 1] >= t

\* A reply is of the time of its request or later, an entry of its life before it expires, and so
\* is what was served.
Recent ==
    /\ \A p \in OdProc : pc[p] = "answered" /\ reply[p].status = "success"
                            => Since(key[p], reply[p].ver, since[p])
    /\ \A k \in OdKey : cache[k].status = "success"
                            => Since(k, cache[k].ver, cache[k].exp - OdLife(k))
    /\ served.status = "success" =>
          /\ served.key \in OdKey /\ served.ver \in Nat /\ served.start \in Nat
          /\ Since(served.key, served.ver, served.start - OdLife(served.key) + 1)

OdInv == OdTypes /\ Recent

\* The life of a key's data is a positive number.
LEMMA LifeNumber ==
  ASSUME OnDemandBounds, NEW k \in OdKey
  PROVE  OdLife(k) \in Nat /\ OdLife(k) >= 1
  BY DEF OnDemandBounds, OdLife

\* Nothing is cached or served initially.
LEMMA OdInit == OnDemandBounds /\ OnDemand!Init => OdInv
<1> SUFFICES ASSUME OnDemandBounds, OnDemand!Init PROVE OdInv
  OBVIOUS
<1> USE DEF OnDemandBounds, OnDemand!Init
<1>1. << >> \in Seq(0..OdTime)
  OBVIOUS
<1>2. OdTypes
  <2>1. changes \in [OdKey -> Seq(0..OdTime)]
    BY <1>1
  <2>2. /\ reply \in [OdProc -> [status: OdStatus, ver: Nat]]
        /\ cache \in [OdKey -> [status: OdStatus, ver: Nat, exp: Nat]]
    BY DEF OnDemand!NoReply, OnDemand!NoEntry, OdStatus
  <2>3. QED
    BY <2>1, <2>2 DEF OdTypes
<1>3. Recent
  BY DEF Recent, OnDemand!NoEntry, OnDemand!None
<1>4. QED
  BY <1>2, <1>3 DEF OdInv

\* The provider's data changes: what was recent stays so.
LEMMA OdChange ==
  ASSUME OnDemandBounds, OdInv, NEW k \in OdKey, OnDemand!Change(k)
  PROVE  OdInv'
<1> USE DEF OnDemandBounds, OdInv
<1>1. /\ changes' = [changes EXCEPT ![k] = Append(changes[k], now)]
      /\ UNCHANGED <<now, cache, pc, key, since, reply, served>>
  BY DEF OnDemand!Change, OnDemand!procVars
<1>2. now \in 0..OdTime /\ now \in Nat /\ changes[k] \in Seq(0..OdTime)
  BY DEF OdTypes
<1>3. /\ Append(changes[k], now) \in Seq(0..OdTime)
      /\ Len(Append(changes[k], now)) = Len(changes[k]) + 1 /\ Len(changes[k]) \in Nat
      /\ \A i \in 1..Len(changes[k]) : Append(changes[k], now)[i] = changes[k][i]
      /\ Append(changes[k], now)[Len(changes[k]) + 1] = now
  BY <1>2
<1>4. \A j \in OdKey : changes'[j] = IF j = k THEN Append(changes[k], now) ELSE changes[j]
  BY <1>1 DEF OdTypes
<1>5. OdTypes'
  <2>1. changes' \in [OdKey -> Seq(0..OdTime)]
    BY <1>1, <1>3 DEF OdTypes
  <2>2. QED
    BY <1>1, <2>1 DEF OdTypes
<1>6. ASSUME NEW j \in OdKey, NEW v \in Nat, NEW t \in Int, Since(j, v, t)
      PROVE  Since(j, v, t)'
  <2>1. CASE j # k
    BY <1>1, <1>4, <1>6, <2>1 DEF Since
  <2>2. CASE j = k
    <3>1. v <= Len(changes[k]) /\ t <= now /\ (v < Len(changes[k]) => changes[k][v + 1] >= t)
      BY <1>6, <2>2 DEF Since
    <3>2. CASE v = Len(changes[k])
      BY <1>1, <1>2, <1>3, <1>4, <2>2, <3>1, <3>2 DEF Since
    <3>3. CASE v < Len(changes[k])
      <4>1. v + 1 \in 1..Len(changes[k])
        BY <1>3, <3>3
      <4>2. Append(changes[k], now)[v + 1] >= t
        BY <1>3, <3>1, <3>3, <4>1
      <4>3. QED
        BY <1>1, <1>2, <1>3, <1>4, <2>2, <3>1, <4>2 DEF Since
    <3>4. QED
      BY <1>3, <3>1, <3>2, <3>3
  <2>3. QED
    BY <2>1, <2>2
<1>7. Recent'
  <2>1. ASSUME NEW p \in OdProc, pc'[p] = "answered", reply'[p].status = "success"
        PROVE  Since(key[p], reply[p].ver, since[p])'
    <3>1. Since(key[p], reply[p].ver, since[p]) /\ key[p] \in OdKey
      BY <1>1, <2>1 DEF Recent, OdTypes
    <3>2. reply[p].ver \in Nat /\ since[p] \in Int
      BY DEF OdTypes
    <3>3. QED
      BY <1>1, <1>6, <3>1, <3>2
  <2>2. ASSUME NEW j \in OdKey, cache'[j].status = "success"
        PROVE  Since(j, cache[j].ver, cache[j].exp - OdLife(j))'
    <3>1. cache[j].ver \in Nat /\ cache[j].exp - OdLife(j) \in Int
      BY LifeNumber DEF OdTypes
    <3>2. QED
      BY <1>1, <1>6, <2>2, <3>1 DEF Recent, OdLife
  <2>3. ASSUME served'.status = "success"
        PROVE  /\ served'.key \in OdKey /\ served'.ver \in Nat /\ served'.start \in Nat
               /\ Since(served.key, served.ver, served.start - OdLife(served.key) + 1)'
    <3>1. /\ served.key \in OdKey /\ served.ver \in Nat /\ served.start \in Nat
          /\ Since(served.key, served.ver, served.start - OdLife(served.key) + 1)
      BY <1>1, <2>3 DEF Recent
    <3>2. served.start - OdLife(served.key) + 1 \in Int
      BY <3>1, LifeNumber
    <3>3. QED
      BY <1>1, <1>6, <3>1, <3>2 DEF OdLife
  <2>4. QED
    BY <2>1, <2>2, <2>3 DEF Recent
<1>8. QED
  BY <1>5, <1>7

\* What was so at a time or later was so at an earlier time or later.
LEMMA SinceEarlier ==
  ASSUME OnDemandBounds, OdInv, NEW k \in OdKey, NEW v \in Nat, NEW t \in Int, NEW u \in Int,
         Since(k, v, t), u <= t
  PROVE  Since(k, v, u)
<1>1. now \in Nat /\ changes[k] \in Seq(Nat) /\ Len(changes[k]) \in Nat
  BY DEF OdInv, OdTypes, OnDemandBounds
<1>2. v < Len(changes[k]) => changes[k][v + 1] \in Nat
  BY <1>1
<1>3. QED
  BY <1>1, <1>2 DEF Since

\* A request: an entry that lives answers it, or its clock is kept.
LEMMA OdRequest ==
  ASSUME OnDemandBounds, OdInv, NEW p \in OdProc, NEW k \in OdKey, OnDemand!Request(p, k)
  PROVE  OdInv'
<1> USE DEF OnDemandBounds, OdInv
<1>1. /\ pc[p] = "idle" /\ UNCHANGED <<now, changes, cache, reply>>
      /\ \/ /\ OnDemand!Live(k) /\ UNCHANGED <<pc, key, since>>
            /\ served' = OnDemand!Answered(k, cache[k].status, cache[k].ver, now)
         \/ /\ pc' = [pc EXCEPT ![p] = "fetch"] /\ key' = [key EXCEPT ![p] = k]
            /\ since' = [since EXCEPT ![p] = now] /\ served' = served
  BY DEF OnDemand!Request, OnDemand!procVars
<1>2. now \in Nat /\ cache[k].ver \in Nat /\ cache[k].exp \in Nat
  BY DEF OdTypes
<1>3. CASE served' = served
  <2>1. \A q \in OdProc : pc'[q] = "answered" => /\ pc[q] = "answered" /\ q # p
                                                /\ key'[q] = key[q] /\ since'[q] = since[q]
    BY <1>1, <1>3 DEF OdTypes
  <2>2. CASE UNCHANGED <<pc, key, since>>
    BY <1>1, <1>3, <2>2 DEF OdTypes, Recent, Since
  <2>3. CASE /\ pc' = [pc EXCEPT ![p] = "fetch"] /\ key' = [key EXCEPT ![p] = k]
             /\ since' = [since EXCEPT ![p] = now]
    <3>1. OdTypes'
      <4>1. since' \in [OdProc -> Nat] /\ \A q \in OdProc : since'[q] <= now
        BY <1>2, <2>3 DEF OdTypes
      <4>2. /\ key' \in [OdProc -> OdKey \cup {OnDemand!None}]
            /\ \A q \in OdProc : pc'[q] # "idle" => key'[q] \in OdKey
        BY <2>3 DEF OdTypes
      <4>3. pc' \in [OdProc -> {"idle", "fetch", "answered"}]
        BY <2>3 DEF OdTypes
      <4>4. QED
        BY <1>1, <4>1, <4>2, <4>3 DEF OdTypes
    <3>2. Recent'
      BY <1>1, <1>3, <2>1 DEF Recent, Since, OdLife
    <3>3. QED
      BY <3>1, <3>2
  <2>4. QED
    BY <1>1, <2>2, <2>3
<1>4. CASE /\ OnDemand!Live(k) /\ UNCHANGED <<pc, key, since>>
           /\ served' = OnDemand!Answered(k, cache[k].status, cache[k].ver, now)
  <2>1. /\ served'.key = k /\ served'.status = cache[k].status /\ served'.ver = cache[k].ver
        /\ served'.start = now
    BY <1>4 DEF OnDemand!Answered
  <2>2. ASSUME served'.status = "success"
        PROVE  Since(k, cache[k].ver, now - OdLife(k) + 1)
    <3>1. Since(k, cache[k].ver, cache[k].exp - OdLife(k))
      BY <2>1, <2>2 DEF Recent
    <3>2. /\ cache[k].exp - OdLife(k) \in Int /\ now - OdLife(k) + 1 \in Int
          /\ now - OdLife(k) + 1 <= cache[k].exp - OdLife(k)
      BY <1>2, <1>4, LifeNumber DEF OnDemand!Live
    <3>3. QED
      BY <1>2, <3>1, <3>2, SinceEarlier
  <2>3. served'.status = "success"
          => Since(served.key, served.ver, served.start - OdLife(served.key) + 1)'
    BY <1>1, <2>1, <2>2 DEF Since, OdLife
  <2>4. Recent'
    BY <1>1, <1>2, <1>4, <2>1, <2>3 DEF Recent, Since, OdLife
  <2>5. QED
    BY <1>1, <1>4, <2>4 DEF OdTypes
<1>5. QED
  BY <1>1, <1>3, <1>4

\* The provider answers a request with the data of this moment.
LEMMA OdAnswers ==
  ASSUME OnDemandBounds, OdInv, NEW p \in OdProc, OnDemand!ProviderAnswers(p)
  PROVE  OdInv'
<1> USE DEF OnDemandBounds, OdInv
<1>1. PICK r \in OnDemand!Upstream(key[p]) :
         /\ pc[p] = "fetch" /\ reply' = [reply EXCEPT ![p] = r]
         /\ pc' = [pc EXCEPT ![p] = "answered"]
         /\ UNCHANGED <<now, changes, cache, key, since, served>>
  BY DEF OnDemand!ProviderAnswers
<1>2. key[p] \in OdKey /\ changes[key[p]] \in Seq(0..OdTime)
  BY <1>1 DEF OdTypes
<1>3. /\ r \in [status: OdStatus, ver: Nat]
      /\ r.status = "success" => r.ver = Len(changes[key[p]])
  BY <1>1, <1>2 DEF OnDemand!Upstream, OdStatus
<1>4. OdTypes'
  <2>1. reply' \in [OdProc -> [status: OdStatus, ver: Nat]]
    BY <1>1, <1>3 DEF OdTypes
  <2>2. pc' \in [OdProc -> {"idle", "fetch", "answered"}]
    BY <1>1 DEF OdTypes
  <2>3. \A q \in OdProc : pc'[q] # "idle" => key[q] \in OdKey
    BY <1>1, <1>2 DEF OdTypes
  <2>4. QED
    BY <1>1, <2>1, <2>2, <2>3 DEF OdTypes
<1>5. ASSUME NEW q \in OdProc, pc'[q] = "answered", reply'[q].status = "success"
      PROVE  Since(key[q], reply'[q].ver, since[q])
  <2>1. CASE q # p
    BY <1>1, <1>5, <2>1 DEF OdTypes, Recent
  <2>2. CASE q = p
    <3>1. reply'[p] = r
      BY <1>1 DEF OdTypes
    <3>2. Len(changes[key[p]]) \in Nat /\ since[p] <= now
      BY <1>2 DEF OdTypes
    <3>3. QED
      BY <1>3, <1>5, <2>2, <3>1, <3>2 DEF Since
  <2>3. QED
    BY <2>1, <2>2
<1>6. Recent'
  BY <1>1, <1>5 DEF Recent, Since, OdLife
<1>7. QED
  BY <1>4, <1>6

\* An answer comes back: its entry expires a life after its request.
LEMMA OdReturn ==
  ASSUME OnDemandBounds, OdInv, NEW p \in OdProc, OnDemand!Return(p)
  PROVE  OdInv'
<1> USE DEF OnDemandBounds, OdInv
<1>0. PICK k \in OdKey, r \in [status: OdStatus, ver: Nat], t \in Nat :
         k = key[p] /\ r = reply[p] /\ t = since[p]
  BY DEF OnDemand!Return, OdTypes
<1>1. PICK x \in Nat : x = OnDemand!Life(k, r.status) /\ (r.status = "success" => x = OdLife(k))
  <2>1. OdTtl[OdKind[k]] \in Nat
    OBVIOUS
  <2>2. OnDemand!Life(k, r.status) \in {OdBackoff, 0, OdTtl[OdKind[k]]}
    BY DEF OnDemand!Life
  <2>3. r.status = "success" => OnDemand!Life(k, r.status) = OdTtl[OdKind[k]]
    BY DEF OnDemand!Life
  <2>4. QED
    BY <2>1, <2>2, <2>3 DEF OdLife
<1>2. /\ pc[p] = "answered" /\ UNCHANGED <<now, changes>>
      /\ \/ cache' = cache
         \/ cache' = [cache EXCEPT ![k] = [status |-> r.status, ver |-> r.ver, exp |-> t + x]]
      /\ served' = OnDemand!Answered(k, r.status, r.ver, t)
      /\ pc' = [pc EXCEPT ![p] = "idle"] /\ key' = [key EXCEPT ![p] = OnDemand!None]
      /\ since' = [since EXCEPT ![p] = 0]
      /\ reply' = [reply EXCEPT ![p] = OnDemand!NoReply]
  BY <1>0, <1>1 DEF OnDemand!Return, OnDemand!Expiry
<1>3. now \in Nat /\ t <= now
  BY <1>0 DEF OdTypes
<1>4. r.status = "success" => Since(k, r.ver, t)
  BY <1>0, <1>2 DEF Recent
<1>5. OdTypes'
  <2>1. cache' \in [OdKey -> [status: OdStatus, ver: Nat, exp: Nat]]
    <3>1. [status |-> r.status, ver |-> r.ver, exp |-> t + x]
            \in [status: OdStatus, ver: Nat, exp: Nat]
      OBVIOUS
    <3>2. QED
      BY <1>2, <3>1 DEF OdTypes
  <2>2. reply' \in [OdProc -> [status: OdStatus, ver: Nat]]
    BY <1>2 DEF OdTypes, OnDemand!NoReply, OdStatus
  <2>3. since' \in [OdProc -> Nat] /\ \A q \in OdProc : since'[q] <= now
    BY <1>2, <1>3 DEF OdTypes
  <2>4. /\ pc' \in [OdProc -> {"idle", "fetch", "answered"}]
        /\ key' \in [OdProc -> OdKey \cup {OnDemand!None}]
        /\ \A q \in OdProc : pc'[q] # "idle" => key'[q] \in OdKey
    BY <1>2 DEF OdTypes
  <2>5. QED
    BY <1>2, <2>1, <2>2, <2>3, <2>4 DEF OdTypes
<1>6. ASSUME NEW q \in OdProc, pc'[q] = "answered", reply'[q].status = "success"
      PROVE  Since(key'[q], reply'[q].ver, since'[q])
  <2>1. q # p /\ pc[q] = "answered" /\ key'[q] = key[q] /\ reply'[q] = reply[q]
        /\ since'[q] = since[q]
    BY <1>2, <1>6 DEF OdTypes
  <2>2. QED
    BY <1>6, <2>1 DEF Recent
<1>7. ASSUME NEW j \in OdKey, cache'[j].status = "success"
      PROVE  Since(j, cache'[j].ver, cache'[j].exp - OdLife(j))
  <2>1. CASE cache'[j] = cache[j]
    BY <1>7, <2>1 DEF Recent
  <2>2. CASE j = k /\ cache'[j] = [status |-> r.status, ver |-> r.ver, exp |-> t + x]
    <3>1. cache'[j].exp - OdLife(j) = t /\ cache'[j].ver = r.ver /\ r.status = "success"
      BY <1>1, <1>7, <2>2, LifeNumber
    <3>2. QED
      BY <1>4, <2>2, <3>1
  <2>3. QED
    BY <1>2, <2>1, <2>2 DEF OdTypes
<1>8. /\ served'.key = k /\ served'.status = r.status /\ served'.ver = r.ver /\ served'.start = t
      /\ r.status = "success" => Since(k, r.ver, t - OdLife(k) + 1)
  <2>1. t - OdLife(k) + 1 \in Int /\ t - OdLife(k) + 1 <= t
    BY LifeNumber
  <2>2. QED
    BY <1>2, <1>4, <2>1, SinceEarlier DEF OnDemand!Answered
<1>9. Recent'
  BY <1>2, <1>6, <1>7, <1>8 DEF Recent, Since, OdLife
<1>10. QED
  BY <1>5, <1>9

\* A visitor of the flight or holiday pages is shown data that was the provider's less than a
\* cache's life before the visit began, or later.
THEOREM ServedData ==
  ASSUME OnDemandBounds
  PROVE  OnDemand!Spec => [](OnDemand!TypeOK /\ OnDemand!ServedRecent)
<1>1. OnDemand!Init => OdInv
  BY OdInit
<1>2. OdInv /\ [OnDemand!Next]_(OnDemand!vars) => OdInv'
  <2> SUFFICES ASSUME OdInv, [OnDemand!Next]_(OnDemand!vars) PROVE OdInv'
    OBVIOUS
  <2>1. CASE UNCHANGED OnDemand!vars
    BY <2>1 DEF OdInv, OdTypes, Recent, Since, OdLife, OnDemand!vars, OnDemand!procVars
  <2>2. CASE OnDemand!Tick
    <3>1. /\ now' = now + 1 /\ now' \in 0..OdTime /\ now \in Nat
          /\ UNCHANGED <<changes, cache, pc, key, since, reply, served>>
      BY <2>2 DEF OnDemand!Tick, OnDemand!procVars, OdInv, OdTypes, OnDemandBounds
    <3>2. OdTypes'
      BY <3>1 DEF OdInv, OdTypes
    <3>3. \A k \in OdKey, v \in Nat, t \in Int : Since(k, v, t) => Since(k, v, t)'
      BY <3>1 DEF Since
    <3>4. /\ \A p \in OdProc : reply[p].ver \in Nat /\ since[p] \in Int
          /\ \A p \in OdProc : pc[p] = "answered" => key[p] \in OdKey
          /\ \A k \in OdKey : cache[k].ver \in Nat /\ cache[k].exp - OdLife(k) \in Int
          /\ \A k \in OdKey : served.start \in Nat => served.start - OdLife(k) + 1 \in Int
      BY LifeNumber DEF OdInv, OdTypes
    <3>5. Recent'
      <4>1. ASSUME NEW p \in OdProc, pc[p] = "answered", reply[p].status = "success"
            PROVE  Since(key[p], reply[p].ver, since[p])'
        BY <3>1, <3>3, <3>4, <4>1 DEF OdInv, Recent
      <4>2. ASSUME NEW k \in OdKey, cache[k].status = "success"
            PROVE  Since(k, cache[k].ver, cache[k].exp - OdLife(k))'
        BY <3>1, <3>3, <3>4, <4>2 DEF OdInv, Recent, OdLife
      <4>3. ASSUME served.status = "success"
            PROVE  Since(served.key, served.ver, served.start - OdLife(served.key) + 1)'
        BY <3>1, <3>3, <3>4, <4>3 DEF OdInv, Recent, OdLife
      <4>4. QED
        BY <3>1, <4>1, <4>2, <4>3 DEF OdInv, Recent
    <3>6. QED
      BY <3>2, <3>5 DEF OdInv
  <2>3. QED
    BY <2>1, <2>2, OdChange, OdRequest, OdAnswers, OdReturn DEF OnDemand!Next
<1>3. OdInv => OnDemand!TypeOK /\ OnDemand!ServedRecent
  <2> SUFFICES ASSUME OdInv PROVE OnDemand!TypeOK /\ OnDemand!ServedRecent
    OBVIOUS
  <2>1. OnDemand!TypeOK
    BY DEF OdInv, OdTypes, OnDemand!TypeOK, OdStatus
  <2>2. ASSUME served.status = "success", served.ver < Len(changes[served.key])
        PROVE  changes[served.key][served.ver + 1] > served.start - OdLife(served.key)
    <3>1. PICK k \in OdKey, v \in Nat, t \in Nat :
             /\ k = served.key /\ v = served.ver /\ t = served.start
             /\ Since(k, v, t - OdLife(k) + 1)
      BY <2>2 DEF OdInv, Recent
    <3>2. changes[k] \in Seq(Nat)
      BY DEF OdInv, OdTypes, OnDemandBounds
    <3>3. changes[k][v + 1] \in Nat /\ changes[k][v + 1] >= t - OdLife(k) + 1
      BY <2>2, <3>1, <3>2 DEF Since
    <3>4. QED
      BY <3>1, <3>3, LifeNumber
  <2>3. QED
    BY <2>1, <2>2 DEF OnDemand!ServedRecent, OdLife
<1>4. QED
  BY <1>1, <1>2, <1>3, PTL DEF OnDemand!Spec

--------------------------------------------------------------------------------
(* The selected-road traffic map.                                          *)

Roads == INSTANCE RoadTraffic WITH
    Proc <- RdProc, Key <- RdKey, Ttl <- RdTtl, Block <- RdBlock, DayLength <- RdDay,
    DayMax <- RdMax, MaxEntries <- RdEntries, MaxTime <- RdTime

RoadBounds ==
    /\ RdTime \in Nat /\ RdDay \in Nat \ {0} /\ RdMax \in Nat /\ RdBlock \in Nat
    /\ RdEntries \in Nat
    /\ RdTtl \in [RdKey -> Nat \ {0}]

RdTypes ==
    /\ now \in 0..RdTime
    /\ attempts \in 0..RdMax /\ day \in Int
    /\ pc \in [RdProc -> {"idle", "waiting", "fetch"}]
    /\ key \in [RdProc -> RdKey \cup {Roads!None}]
    /\ \A p \in RdProc : pc[p] # "idle" => key[p] \in RdKey
    /\ calls \in [Roads!Days -> Nat]
    /\ blocked \in Int /\ failed \in Int

\* The counter of the day is the number of its calls, and no call is on a later day.
Budgeted ==
    /\ day <= Roads!Today
    /\ calls[Roads!Today] = Roads!Attempts
    /\ \A d \in Roads!Days : d > Roads!Today => calls[d] = 0

Paused == blocked >= failed + RdBlock

RdInv == RdTypes /\ Budgeted /\ Paused /\ Roads!BudgetKept /\ Roads!StaleSaid

\* Days are numbered from zero and do not run backwards.
LEMMA DayNumber ==
  ASSUME NEW L \in Nat \ {0}, NEW a \in Nat
  PROVE  a \div L \in Nat /\ L * (a \div L) <= a /\ a < L * (a \div L) + L
  BY Z3

\* A later moment is on the same day or a later one.
LEMMA DaysForward ==
  ASSUME NEW L \in Nat \ {0}, NEW a \in Nat, NEW b \in Nat, a <= b
  PROVE  a \div L <= b \div L
<1>1. PICK p \in Nat, q \in Nat : p = a \div L /\ q = b \div L /\ L * p <= a /\ b < L * q + L
  BY DayNumber
<1>2. SUFFICES ASSUME q < p PROVE FALSE
  BY <1>1
<1>3. PICK d \in Nat : p = q + 1 + d
  <2>1. p - q - 1 \in Nat
    BY <1>2
  <2>2. QED
    BY <2>1
<1>4. L * p = L * q + L + L * d
  BY <1>3
<1>5. L * d >= 0 /\ L * q \in Int /\ L * p \in Int /\ L * d \in Int
  OBVIOUS
<1>6. QED
  BY <1>1, <1>4, <1>5

\* Today is one of the days counted.
LEMMA TodayCounted ==
  ASSUME RoadBounds, NEW t \in 0..RdTime
  PROVE  t \div RdDay \in Roads!Days /\ t \div RdDay \in Nat
<1>1. t \in Nat /\ RdTime \in Nat /\ t <= RdTime /\ RdDay \in Nat \ {0}
  BY DEF RoadBounds
<1>2. t \div RdDay \in Nat /\ RdTime \div RdDay \in Nat /\ t \div RdDay <= RdTime \div RdDay
  BY <1>1, DayNumber, DaysForward
<1>3. QED
  BY <1>2 DEF Roads!Days

\* No call was made and no answer given initially.
LEMMA RdInit == RoadBounds /\ Roads!Init => RdInv
<1> SUFFICES ASSUME RoadBounds, Roads!Init PROVE RdInv
  OBVIOUS
<1> USE DEF Roads!Init
<1>1. RdTypes
  BY DEF RdTypes, RoadBounds
<1>2. Roads!Today \in Roads!Days /\ Roads!Today \in Nat
  BY <1>1, TodayCounted DEF RdTypes, Roads!Today
<1>3. Roads!Attempts = 0
  BY <1>2 DEF Roads!Attempts
<1>4. Budgeted /\ Paused
  BY <1>2, <1>3 DEF Budgeted, Paused, RoadBounds
<1>5. Roads!BudgetKept /\ Roads!StaleSaid
  BY DEF Roads!BudgetKept, Roads!StaleSaid, Roads!NoAnswer, RoadBounds
<1>6. QED
  BY <1>1, <1>4, <1>5 DEF RdInv

\* What a request is given says that it is stale, or it is younger than its key's life.
GivenFresh(x) == ~ x.stale => x.age < RdTtl[x.key]

\* A saved entry is given as stale, and so is nothing.
LEMMA FallbackStale == \A es : GivenFresh(Roads!Fallback(es))
  BY DEF GivenFresh, Roads!Fallback, Roads!Given, Roads!Failing, Roads!NoAnswer

\* An entry that is young answers as fresh.
LEMMA YoungFresh ==
  ASSUME NEW k, NEW e \in Roads!Young(k)
  PROVE  GivenFresh(Roads!Given(e, FALSE))
  BY DEF GivenFresh, Roads!Young, Roads!Entries, Roads!Given

\* A request that leaves is idle.
LEMMA RdLeave ==
  ASSUME RdTypes, NEW p \in RdProc, Roads!Leave(p)
  PROVE  /\ pc' \in [RdProc -> {"idle", "waiting", "fetch"}]
         /\ key' \in [RdProc -> RdKey \cup {Roads!None}]
         /\ \A q \in RdProc : pc'[q] # "idle" => key'[q] \in RdKey
  BY DEF RdTypes, Roads!Leave

\* Steps that call nobody and set no clock keep the budget; they may answer, or start a pause.
LEMMA RdQuiet ==
  ASSUME RoadBounds, RdInv, UNCHANGED <<now, calls>>,
         pc' \in [RdProc -> {"idle", "waiting", "fetch"}],
         key' \in [RdProc -> RdKey \cup {Roads!None}],
         \A q \in RdProc : pc'[q] # "idle" => key'[q] \in RdKey,
         \/ UNCHANGED <<day, attempts>>
         \/ day' = Roads!Today /\ attempts' = Roads!Attempts,
         \/ UNCHANGED <<blocked, failed>>
         \/ blocked' = now + RdBlock /\ failed' = now,
         answer' = answer \/ GivenFresh(answer')
  PROVE  RdInv' /\ Roads!PauseKept
<1> USE DEF RdInv
<1>1. Roads!Today \in Nat /\ Roads!Today' = Roads!Today /\ now \in Int
  BY TodayCounted DEF Roads!Today, RdTypes
<1>2. Roads!Attempts \in 0..RdMax
  BY DEF Roads!Attempts, RdTypes, RoadBounds
<1>3. RdTypes'
  BY <1>1, <1>2 DEF RdTypes, RoadBounds
<1>4. Roads!Attempts' = Roads!Attempts
  BY <1>1 DEF Roads!Attempts
<1>5. Budgeted'
  BY <1>1, <1>4 DEF Budgeted, Roads!Days
<1>6. Paused'
  BY <1>1 DEF Paused, RoadBounds
<1>7. Roads!BudgetKept'
  BY DEF Roads!BudgetKept, Roads!Days
<1>8. Roads!StaleSaid'
  BY DEF Roads!StaleSaid, GivenFresh
<1>9. QED
  BY <1>3, <1>5, <1>6, <1>7, <1>8 DEF Roads!PauseKept

\* A call is counted when it starts, on a day with calls left and not in a pause.
LEMMA RdCall ==
  ASSUME RoadBounds, RdInv, NEW p \in RdProc, Roads!FetchBegin(p)
  PROVE  RdInv' /\ Roads!PauseKept
<1> USE DEF RdInv
<1>1. PICK d \in Roads!Days, n \in 0..RdMax :
         /\ d = Roads!Today /\ n = Roads!Attempts /\ d \in Nat
  <2>1. Roads!Today \in Roads!Days /\ Roads!Today \in Nat
    BY TodayCounted DEF Roads!Today, RdTypes
  <2>2. Roads!Attempts \in 0..RdMax
    BY DEF Roads!Attempts, RdTypes, RoadBounds
  <2>3. QED
    BY <2>1, <2>2
<1>2. /\ pc[p] = "waiting" /\ ~ (now < blocked) /\ ~ (n >= RdMax)
      /\ day' = d /\ attempts' = n + 1
      /\ calls' = [calls EXCEPT ![d] = calls[d] + 1]
      /\ pc' = [pc EXCEPT ![p] = "fetch"]
      /\ UNCHANGED <<now, blocked, key, failed, answer>>
  BY <1>1 DEF Roads!FetchBegin, Roads!Locked, Roads!Refused, Roads!CountedOnStart
<1>3. calls[d] = n /\ calls \in [Roads!Days -> Nat] /\ RdMax \in Nat
  BY <1>1 DEF Budgeted, RdTypes, RoadBounds
<1>4. \A e \in Roads!Days : calls'[e] = IF e = d THEN n + 1 ELSE calls[e]
  BY <1>2, <1>3
<1>5. RdTypes'
  <2>1. n + 1 \in 0..RdMax /\ d \in Int
    BY <1>1, <1>2, <1>3
  <2>2. pc' \in [RdProc -> {"idle", "waiting", "fetch"}]
        /\ \A q \in RdProc : pc'[q] # "idle" => key[q] \in RdKey
    BY <1>2 DEF RdTypes
  <2>3. calls' \in [Roads!Days -> Nat]
    BY <1>2, <1>3
  <2>4. QED
    BY <1>2, <2>1, <2>2, <2>3 DEF RdTypes, Roads!Days
<1>6. Roads!Today' = d /\ Roads!Attempts' = n + 1
  <2>1. Roads!Today' = d
    BY <1>1, <1>2 DEF Roads!Today
  <2>2. QED
    BY <1>2, <2>1 DEF Roads!Attempts
<1>7. Budgeted'
  BY <1>1, <1>2, <1>4, <1>6 DEF Budgeted, Roads!Days
<1>8. Roads!BudgetKept'
  BY <1>1, <1>2, <1>3, <1>4 DEF Roads!BudgetKept, Roads!Days
<1>9. Paused' /\ Roads!StaleSaid' /\ Roads!PauseKept
  BY <1>2 DEF Paused, Roads!StaleSaid, Roads!PauseKept, RdTypes, RoadBounds
<1>10. QED
  BY <1>5, <1>7, <1>8, <1>9

\* The clock: a new day begins with no call.
LEMMA RdTick ==
  ASSUME RoadBounds, RdInv, Roads!Tick
  PROVE  RdInv' /\ Roads!PauseKept
<1> USE DEF RdInv
<1>1. /\ now' = now + 1 /\ now' \in 0..RdTime /\ now \in Nat /\ now' \in Nat /\ now <= now'
      /\ UNCHANGED <<day, attempts, pc, key, calls, blocked, failed, answer>>
  BY DEF Roads!Tick, Roads!worker, RdTypes, RoadBounds
<1>2. PICK d \in Roads!Days, e \in Roads!Days :
         /\ d = now \div RdDay /\ e = now' \div RdDay /\ d <= e /\ d \in Nat /\ e \in Nat
  BY <1>1, TodayCounted, DaysForward DEF RdTypes, RoadBounds
<1>3. Roads!Today = d /\ Roads!Today' = e
  BY <1>2 DEF Roads!Today
<1>4. /\ day <= d /\ day \in Int /\ calls[d] = (IF day = d THEN attempts ELSE 0)
      /\ \A c \in Roads!Days : c > d => calls[c] = 0
  BY <1>3 DEF Budgeted, Roads!Attempts, RdTypes
<1>5. Roads!Attempts' = IF day = e THEN attempts ELSE 0
  BY <1>1, <1>3 DEF Roads!Attempts
<1>6. calls[e] = IF day = e THEN attempts ELSE 0
  BY <1>2, <1>4
<1>7. Budgeted'
  <2>1. Roads!Days \subseteq Int
    BY DEF Roads!Days
  <2>2. \A c \in Roads!Days : c > e => calls[c] = 0
    BY <1>2, <1>4, <2>1
  <2>3. day <= e
    BY <1>2, <1>4
  <2>4. QED
    BY <1>1, <1>3, <1>5, <1>6, <2>2, <2>3 DEF Budgeted, Roads!Days
<1>8. RdTypes'
  BY <1>1 DEF RdTypes, Roads!Days
<1>9. QED
  BY <1>1, <1>7, <1>8
  DEF Paused, Roads!BudgetKept, Roads!Days, Roads!StaleSaid, Roads!PauseKept

\* Every step keeps the invariant, and no call starts in a pause.
LEMMA RdStep ==
  ASSUME RoadBounds, RdInv, [Roads!Next]_(Roads!vars)
  PROVE  RdInv' /\ [Roads!PauseKept]_(Roads!vars)
<1>0. RdTypes
  BY DEF RdInv
<1>1. CASE UNCHANGED Roads!vars
  <2>1. RdInv'
    BY <1>1 DEF RdInv, RdTypes, Budgeted, Paused, Roads!BudgetKept, Roads!StaleSaid, Roads!vars,
       Roads!worker, Roads!Today, Roads!Attempts, Roads!Days
  <2>2. QED
    BY <1>1, <2>1
<1>2. ASSUME NEW p \in RdProc, NEW k \in RdKey, Roads!Request(p, k)
      PROVE  RdInv' /\ Roads!PauseKept
  <2>1. /\ \/ UNCHANGED <<pc, key>> /\ \E e \in Roads!Young(k) : answer' = Roads!Given(e, FALSE)
           \/ /\ pc' = [pc EXCEPT ![p] = "waiting"] /\ key' = [key EXCEPT ![p] = k]
              /\ answer' = answer
        /\ UNCHANGED <<now, day, attempts, calls, blocked, failed>>
    BY <1>2 DEF Roads!Request
  <2>2. answer' = answer \/ GivenFresh(answer')
    BY <2>1, YoungFresh
  <2>3. /\ pc' \in [RdProc -> {"idle", "waiting", "fetch"}]
        /\ key' \in [RdProc -> RdKey \cup {Roads!None}]
        /\ \A q \in RdProc : pc'[q] # "idle" => key'[q] \in RdKey
    BY <1>0, <2>1 DEF RdTypes
  <2>4. QED
    BY <2>1, <2>2, <2>3, RdQuiet
<1>3. ASSUME NEW p \in RdProc, Roads!LockedHit(p) \/ Roads!LockedRefused(p)
      PROVE  RdInv' /\ Roads!PauseKept
  <2>1. /\ Roads!Leave(p) /\ UNCHANGED <<now, calls, blocked, failed>>
        /\ UNCHANGED <<day, attempts>> \/ (day' = Roads!Today /\ attempts' = Roads!Attempts)
        /\ \/ \E e \in Roads!Young(key[p]) : answer' = Roads!Given(e, FALSE)
           \/ answer' = Roads!Fallback(Roads!Entries(key[p]))
    BY <1>3 DEF Roads!LockedHit, Roads!LockedRefused
  <2>2. GivenFresh(answer')
    BY <2>1, YoungFresh, FallbackStale
  <2>3. QED
    BY <1>0, <2>1, <2>2, RdLeave, RdQuiet
<1>4. ASSUME NEW p \in RdProc, Roads!FetchOk(p) \/ Roads!FetchFails(p) \/ Roads!Timeout(p)
      PROVE  RdInv' /\ Roads!PauseKept
  <2>1. /\ pc[p] # "idle" /\ Roads!Leave(p) /\ UNCHANGED <<now, calls, day, attempts>>
        /\ \/ UNCHANGED <<blocked, failed>>
           \/ blocked' = now + RdBlock /\ failed' = now
        /\ \/ answer' = Roads!Given([key |-> key[p], at |-> now], FALSE)
           \/ answer' = Roads!Fallback(saved[p])
    BY <1>4 DEF Roads!FetchOk, Roads!FetchFails, Roads!Timeout, Roads!TimeoutBlock
  <2>2. GivenFresh(Roads!Given([key |-> key[p], at |-> now], FALSE))
    <3>1. RdTtl[key[p]] \in Nat \ {0} /\ now \in Int
      BY <1>0, <2>1 DEF RdTypes, RoadBounds
    <3>2. QED
      BY <3>1 DEF GivenFresh, Roads!Given
  <2>3. GivenFresh(answer')
    BY <2>1, <2>2, FallbackStale
  <2>4. QED
    BY <1>0, <2>1, <2>3, RdLeave, RdQuiet
<1>5. QED
  BY <1>1, <1>2, <1>3, <1>4, RdCall, RdTick DEF Roads!Next

\* The highway provider is called at most so often a day, and an answer that does not say it is
\* stale is younger than its key's life, whatever queues, fails or times out.
THEOREM RoadBudget ==
  ASSUME RoadBounds
  PROVE  Roads!Spec => [](Roads!BudgetKept /\ Roads!StaleSaid)
<1>1. Roads!Init => RdInv
  BY RdInit
<1>2. RdInv /\ [Roads!Next]_(Roads!vars) => RdInv'
  BY RdStep
<1>3. RdInv => Roads!BudgetKept /\ Roads!StaleSaid
  BY DEF RdInv
<1>4. QED
  BY <1>1, <1>2, <1>3, PTL DEF Roads!Spec

\* No request of the worker calls the provider in the pause after a failure or a timeout.
THEOREM RoadPause ==
  ASSUME RoadBounds
  PROVE  Roads!Spec => [][Roads!PauseKept]_(Roads!vars)
<1>1. Roads!Init => RdInv
  BY RdInit
<1>2. RdInv /\ [Roads!Next]_(Roads!vars) => RdInv' /\ [Roads!PauseKept]_(Roads!vars)
  BY RdStep
<1>3. QED
  BY <1>1, <1>2, PTL DEF Roads!Spec

\* Entries of the cache, each key once.
RdEntry == [key : RdKey, at : Int]
KeysOnce(s) == \A i, j \in 1..Len(s) : s[i].key = s[j].key => i = j

RdCache ==
    /\ lock \in RdProc \cup {Roads!Nobody}
    /\ cache \in Seq(RdEntry) /\ KeysOnce(cache) /\ Len(cache) <= RdEntries

\* Taking an element out of a sequence.
LEMMA TakenOut ==
  ASSUME NEW T, NEW s \in Seq(T), NEW i \in 1..Len(s)
  PROVE  LET t == SubSeq(s, 1, i - 1) \o SubSeq(s, i + 1, Len(s))
         IN  /\ t \in Seq(T) /\ Len(t) = Len(s) - 1
             /\ \A j \in 1..Len(t) : t[j] = IF j < i THEN s[j] ELSE s[j + 1]
<1> DEFINE a == SubSeq(s, 1, i - 1)
           b == SubSeq(s, i + 1, Len(s))
<1>1. Len(s) \in Nat /\ i \in Nat /\ 1 <= i /\ i <= Len(s)
  OBVIOUS
<1>2. a \in Seq(T) /\ Len(a) = i - 1 /\ \A j \in 1..(i - 1) : a[j] = s[j]
  BY <1>1
<1>3. b \in Seq(T) /\ Len(b) = Len(s) - i /\ \A j \in 1..(Len(s) - i) : b[j] = s[i + j]
  BY <1>1
<1> HIDE DEF a, b
<1>4. a \o b \in Seq(T) /\ Len(a \o b) = Len(s) - 1
  <2>1. a \in Seq(T) /\ b \in Seq(T)
    BY <1>2, <1>3
  <2>2. a \o b \in Seq(T)
    BY <2>1
  <2>3. Len(a \o b) = Len(a) + Len(b)
    BY <2>1
  <2>4. QED
    BY <1>1, <1>2, <1>3, <2>2, <2>3
<1>5. ASSUME NEW j \in 1..(Len(s) - 1)
      PROVE  (a \o b)[j] = IF j < i THEN s[j] ELSE s[j + 1]
  <2>1. CASE j < i
    BY <1>1, <1>2, <1>3, <2>1
  <2>2. CASE ~ (j < i)
    <3>1. j - (i - 1) \in 1..(Len(s) - i) /\ i + (j - (i - 1)) = j + 1
      BY <1>1, <2>2
    <3>2. (a \o b)[j] = b[j - (i - 1)]
      BY <1>1, <1>2, <1>3, <2>2
    <3>3. QED
      BY <1>3, <2>2, <3>1, <3>2
  <2>3. QED
    BY <2>1, <2>2
<1>6. QED
  BY <1>4, <1>5 DEF a, b

\* The cache without a key: one entry less when the key was there.
LEMMA WithoutKey ==
  ASSUME RdCache, NEW k \in RdKey
  PROVE  /\ Roads!Without(k) \in Seq(RdEntry) /\ KeysOnce(Roads!Without(k))
         /\ \A j \in 1..Len(Roads!Without(k)) : Roads!Without(k)[j].key # k
         /\ Len(Roads!Without(k)) = IF Roads!Entries(k) = {} THEN Len(cache) ELSE Len(cache) - 1
<1>1. Roads!Entries(k) = {} <=> \A j \in 1..Len(cache) : cache[j].key # k
  BY DEF Roads!Entries, Roads!Range, RdCache
<1>2. CASE Roads!Entries(k) = {}
  BY <1>1, <1>2 DEF Roads!Without, RdCache
<1>3. CASE Roads!Entries(k) # {}
  <2> DEFINE i == Roads!Place(k)
             t == SubSeq(cache, 1, i - 1) \o SubSeq(cache, i + 1, Len(cache))
  <2>1. i \in 1..Len(cache) /\ cache[i].key = k
    BY <1>1, <1>3 DEF Roads!Place
  <2>2. Roads!Without(k) = t
    BY <1>3 DEF Roads!Without
  <2> HIDE DEF i
  <2>3. /\ t \in Seq(RdEntry) /\ Len(t) = Len(cache) - 1
        /\ \A j \in 1..Len(t) : t[j] = IF j < i THEN cache[j] ELSE cache[j + 1]
    BY <2>1, TakenOut DEF RdCache
  <2> HIDE DEF t
  <2>4. \A j, l \in 1..Len(cache) : cache[j].key = cache[l].key => j = l
    BY DEF RdCache, KeysOnce
  <2>5. Len(cache) \in Nat /\ Len(t) \in Nat
    BY <2>3 DEF RdCache
  <2>6. KeysOnce(t)
    BY <2>1, <2>3, <2>4, <2>5 DEF KeysOnce
  <2>7. \A j \in 1..Len(t) : t[j].key # k
    BY <2>1, <2>3, <2>4, <2>5
  <2>8. QED
    BY <1>3, <2>2, <2>3, <2>6, <2>7
<1>4. QED
  BY <1>2, <1>3

\* An entry that is used, or stored, is the last one; its key is there once.
LEMMA MovedLast ==
  ASSUME RdCache, NEW e \in RdEntry
  PROVE  /\ Roads!MovedToEnd(e) \in Seq(RdEntry) /\ KeysOnce(Roads!MovedToEnd(e))
         /\ Len(Roads!MovedToEnd(e)) <= Len(cache) + 1
         /\ Roads!Entries(e.key) # {} => Len(Roads!MovedToEnd(e)) = Len(cache)
<1> DEFINE w == Roads!Without(e.key)
<1>1. /\ w \in Seq(RdEntry) /\ KeysOnce(w) /\ \A j \in 1..Len(w) : w[j].key # e.key
      /\ Len(w) = IF Roads!Entries(e.key) = {} THEN Len(cache) ELSE Len(cache) - 1
  BY WithoutKey DEF RdEntry
<1>2. Roads!MovedToEnd(e) = Append(w, e)
  BY DEF Roads!MovedToEnd
<1> HIDE DEF w
<1>3. /\ Append(w, e) \in Seq(RdEntry) /\ Len(Append(w, e)) = Len(w) + 1
      /\ \A j \in 1..Len(w) : Append(w, e)[j] = w[j]
      /\ Append(w, e)[Len(w) + 1] = e
  BY <1>1
<1>4. KeysOnce(Append(w, e))
  BY <1>1, <1>3 DEF KeysOnce
<1>5. Len(cache) \in Nat
  BY DEF RdCache
<1>6. QED
  BY <1>1, <1>2, <1>3, <1>4, <1>5

\* Storing an answer drops the entry used least recently when there are too many.
LEMMA PutFits ==
  ASSUME RoadBounds, RdCache, NEW e \in RdEntry
  PROVE  Roads!Put(e) \in Seq(RdEntry) /\ KeysOnce(Roads!Put(e)) /\ Len(Roads!Put(e)) <= RdEntries
<1> DEFINE s == Roads!MovedToEnd(e)
<1>1. s \in Seq(RdEntry) /\ KeysOnce(s) /\ Len(s) <= Len(cache) + 1
  BY MovedLast
<1>2. Roads!Put(e) = IF Len(s) > RdEntries THEN Tail(s) ELSE s
  BY DEF Roads!Put
<1> HIDE DEF s
<1>3. Len(s) \in Nat /\ RdEntries \in Nat /\ Len(s) <= RdEntries + 1
  BY <1>1 DEF RdCache, RoadBounds
<1>4. CASE Len(s) > RdEntries
  <2> DEFINE t == Tail(s)
  <2>1. /\ t \in Seq(RdEntry) /\ Len(t) = Len(s) - 1
        /\ \A j \in 1..(Len(s) - 1) : t[j] = s[j + 1]
    BY <1>1, <1>3, <1>4
  <2> HIDE DEF t
  <2>2. KeysOnce(t)
    BY <1>1, <1>3, <2>1 DEF KeysOnce
  <2>3. QED
    BY <1>2, <1>3, <1>4, <2>1, <2>2 DEF t
<1>5. QED
  BY <1>1, <1>2, <1>3, <1>4

\* Every step keeps the cache within its size, each key once.
LEMMA RdCacheStep ==
  ASSUME RoadBounds, RdInv, RdCache, [Roads!Next]_(Roads!vars)
  PROVE  RdCache'
<1>1. ASSUME NEW k, NEW e \in Roads!Young(k), cache' = Roads!MovedToEnd(e), UNCHANGED lock
      PROVE  RdCache'
  <2>1. e \in Roads!Entries(k) /\ e \in RdEntry /\ e.key = k
    BY DEF Roads!Young, Roads!Entries, Roads!Range, RdCache
  <2>2. Roads!Entries(e.key) # {}
    BY <2>1
  <2>3. QED
    BY <1>1, <2>1, <2>2, MovedLast DEF RdCache
<1>2. ASSUME NEW p \in RdProc, Roads!FetchOk(p)
      PROVE  RdCache'
  <2>1. [key |-> key[p], at |-> now] \in RdEntry
    BY <1>2 DEF Roads!FetchOk, RdEntry, RdInv, RdTypes
  <2>2. cache' = Roads!Put([key |-> key[p], at |-> now]) /\ lock' = Roads!Nobody
    BY <1>2 DEF Roads!FetchOk
  <2>3. QED
    BY <2>1, <2>2, PutFits DEF RdCache
<1>3. ASSUME UNCHANGED cache, lock' \in RdProc \cup {Roads!Nobody}
      PROVE  RdCache'
  BY <1>3 DEF RdCache, KeysOnce
<1>4. ASSUME NEW p \in RdProc, NEW k, Roads!Request(p, k)
      PROVE  RdCache'
  BY <1>1, <1>3, <1>4 DEF Roads!Request, RdCache
<1>5. ASSUME NEW p \in RdProc, Roads!LockedHit(p)
      PROVE  RdCache'
  BY <1>1, <1>5 DEF Roads!LockedHit
<1>6. ASSUME NEW p \in RdProc,
             \/ Roads!LockedRefused(p) \/ Roads!FetchBegin(p) \/ Roads!FetchFails(p)
             \/ Roads!Timeout(p)
      PROVE  RdCache'
  BY <1>3, <1>6 DEF Roads!LockedRefused, Roads!FetchBegin, Roads!FetchFails, Roads!Timeout, RdCache
<1>7. CASE Roads!Tick \/ UNCHANGED Roads!vars
  BY <1>3, <1>7 DEF Roads!Tick, Roads!vars, Roads!worker, RdCache
<1>8. QED
  BY <1>2, <1>4, <1>5, <1>6, <1>7 DEF Roads!Next

\* The cache of the worker holds a key once and no more entries than allowed; types.
THEOREM RoadTypes == ASSUME RoadBounds PROVE Roads!Spec => []Roads!TypeOK
<1>1. Roads!Init => RdInv /\ RdCache
  <2> SUFFICES ASSUME Roads!Init PROVE RdCache
    BY RdInit
  <2>1. cache = <<>> /\ lock = Roads!Nobody
    BY DEF Roads!Init
  <2>2. QED
    BY <2>1 DEF RdCache, KeysOnce, RoadBounds
<1>2. RdInv /\ RdCache /\ [Roads!Next]_(Roads!vars) => (RdInv /\ RdCache)'
  BY RdStep, RdCacheStep
<1>3. RdInv /\ RdCache => Roads!TypeOK
  BY DEF RdInv, RdTypes, RdCache, KeysOnce, Roads!TypeOK
<1>4. QED
  BY <1>1, <1>2, <1>3, PTL DEF Roads!Spec

--------------------------------------------------------------------------------
(* Backup and restore.                                                     *)

Backups == INSTANCE BackupRestore WITH
    Limit <- BkLimit, MaxSize <- BkSize, Retention <- BkRetention, MaxFiles <- BkFiles,
    MaxDb <- BkDb

BackupBounds ==
    /\ BkLimit \in Nat /\ BkSize \in Nat /\ BkFiles \in Nat /\ BkDb \in Nat
    /\ BkRetention \in Nat \ {0}

Bytes(set) == UNION {{f} \X (1..f.size) : f \in set}

\* A set of backups.
FileSet(set) == set \subseteq Backups!File /\ IsFiniteSet(set)

\* The new file is the newest one, and has room by the time it is renamed.
NewFile ==
    /\ \A f \in files : f.id <= made
    /\ pc \in {"room", "publish", "prune"} => \E f : staged = {f} /\ f.id = made
    /\ pc \in {"room", "publish"} => \A f \in files : f.id < made
    /\ pc = "prune" => staged \subseteq files
    /\ pc \in {"dump"} => made < BkFiles
    /\ pc = "publish" => Backups!Size(files) + Backups!Size(staged) <= BkLimit

\* From the upload on, the backup made before it is there; the upload itself is another file.
BeforeUpload ==
    /\ pc \in {"upload", "restore", "remove"} => pre # {}
    /\ pc \in {"idle", "dump"} \/ flow = "create" => pre = {}
    /\ pc \in {"restore", "remove"} => uploaded = {made}
    /\ pre # {} => \E f \in files :
          /\ f.id \in pre
          /\ pc \in {"room", "publish", "prune", "restore", "remove"} => f.id < made

BkInv ==
    /\ Backups!TypeOK /\ FileSet(files) /\ FileSet(staged)
    /\ NewFile /\ BeforeUpload /\ Backups!LimitKept

\* The size of a set of backups is the number of its bytes.
LEMMA SizeBytes == \A set : Backups!Size(set) = Cardinality(Bytes(set))
<1>1. \A T : Backups!Cardinality(T) = Cardinality(T)
  BY DEF Backups!Cardinality, Cardinality
<1>2. QED
  BY <1>1 DEF Backups!Size, Bytes

\* Backups have finitely many bytes.
LEMMA BytesFinite ==
  ASSUME BackupBounds, NEW set, FileSet(set)
  PROVE  IsFiniteSet(Bytes(set)) /\ Cardinality(Bytes(set)) \in Nat
<1>1. IsFiniteSet(1..BkSize)
  BY FS_Interval DEF BackupBounds
<1>2. IsFiniteSet(set \X (1..BkSize))
  BY <1>1, FS_Product DEF FileSet
<1>3. Bytes(set) \in SUBSET (set \X (1..BkSize))
  <2>1. \A f \in set : f.size \in 1..BkSize
    BY DEF FileSet, Backups!File
  <2>2. \A f \in set : {f} \X (1..f.size) \subseteq set \X (1..BkSize)
    BY <2>1 DEF BackupBounds
  <2>3. QED
    BY <2>2 DEF Bytes
<1>4. QED
  BY <1>2, <1>3, FS_Subset, FS_CardinalityType

\* Fewer backups are not larger.
LEMMA SizeOfPart ==
  ASSUME BackupBounds, NEW set, FileSet(set), NEW part \in SUBSET set
  PROVE  /\ FileSet(part) /\ Backups!Size(part) <= Backups!Size(set)
         /\ Backups!Size(part) \in Nat /\ Backups!Size(set) \in Nat
<1>1. FileSet(part)
  BY FS_Subset DEF FileSet
<1>2. Bytes(part) \in SUBSET Bytes(set)
  BY DEF Bytes
<1>3. Cardinality(Bytes(part)) <= Cardinality(Bytes(set))
  BY <1>2, BytesFinite, FS_Subset
<1>4. QED
  BY <1>1, <1>3, BytesFinite, SizeBytes

\* Backups together are not larger than the sum of both.
LEMMA SizeOfUnion ==
  ASSUME BackupBounds, NEW set, FileSet(set), NEW more, FileSet(more)
  PROVE  /\ FileSet(set \cup more)
         /\ Backups!Size(set \cup more) <= Backups!Size(set) + Backups!Size(more)
<1>1. FileSet(set \cup more)
  BY FS_Union DEF FileSet
<1>2. Bytes(set \cup more) = Bytes(set) \cup Bytes(more)
  BY DEF Bytes
<1>3. /\ IsFiniteSet(Bytes(set)) /\ Cardinality(Bytes(set)) \in Nat
      /\ IsFiniteSet(Bytes(more)) /\ Cardinality(Bytes(more)) \in Nat
  BY BytesFinite
<1>4. Cardinality(Bytes(set) \cap Bytes(more)) \in Nat
  <2>1. IsFiniteSet(Bytes(set) \cap Bytes(more))
    BY <1>3, FS_Intersection
  <2>2. QED
    BY <2>1, FS_CardinalityType
<1>5. Cardinality(Bytes(set) \cup Bytes(more))
        = Cardinality(Bytes(set)) + Cardinality(Bytes(more))
            - Cardinality(Bytes(set) \cap Bytes(more))
  BY <1>3, FS_Union
<1>6. Cardinality(Bytes(set \cup more)) <= Cardinality(Bytes(set)) + Cardinality(Bytes(more))
  <2>1. \A a, b, c \in Nat : a + b - c <= a + b
    OBVIOUS
  <2>2. QED
    BY <1>2, <1>3, <1>4, <1>5, <2>1
<1>7. QED
  BY <1>1, <1>6, SizeBytes

\* A set of natural numbers has a least one.
LEMMA LeastOf ==
  ASSUME NEW ns \in SUBSET Nat, ns # {}
  PROVE  Backups!Min(ns) \in ns
<1>1. PICK n \in ns : \A m \in ns : ~ (<<m, n>> \in OpToRel(<, Nat))
  BY NatLessThanWellFounded, WFMin
<1>2. \A m \in ns : <<m, n>> \in OpToRel(<, Nat) <=> m < n
  BY DEF OpToRel
<1>3. \A m \in ns : n <= m
  <2>1. \A m \in ns : ~ (m < n)
    BY <1>1, <1>2, Zenon
  <2>2. QED
    BY <2>1
<1>4. QED
  BY <1>3 DEF Backups!Min

\* What is kept leaves the room asked for, and protected files stay.
LEMMA KeptFits ==
  ASSUME BackupBounds, BkInv, NEW n \in Nat, NEW safe, Backups!Fits(n, safe)
  PROVE  /\ Backups!Kept(n, safe) \in SUBSET files
         /\ Backups!Size(Backups!Kept(n, safe)) + n <= BkLimit
         /\ \A f \in files : f.id \in safe => f \in Backups!Kept(n, safe)
<1> DEFINE cuts == Backups!Cuts(n, safe)
<1>1. cuts # {} /\ cuts \subseteq 0..BkFiles
  BY DEF Backups!Fits, Backups!Cuts
<1>2. cuts \in SUBSET Nat
  BY <1>1 DEF BackupBounds
<1>3. Backups!Min(cuts) \in cuts
  <2> HIDE DEF cuts
  <2>1. QED
    BY <1>1, <1>2, LeastOf
<1>4. Backups!Size(Backups!Kept(n, safe)) + n <= BkLimit
  BY <1>3 DEF Backups!Cuts, Backups!Kept
<1>5. QED
  BY <1>4 DEF Backups!Kept

\* No backup exists initially.
LEMMA BkInit == BackupBounds /\ Backups!Init => BkInv
<1> SUFFICES ASSUME BackupBounds, Backups!Init PROVE BkInv
  OBVIOUS
<1> USE DEF BackupBounds, Backups!Init
<1>1. Backups!TypeOK
  BY DEF Backups!TypeOK
<1>2. FileSet({})
  BY FS_EmptySet DEF FileSet
<1>3. Backups!Size({}) = 0
  BY SizeBytes, FS_EmptySet DEF Bytes
<1>4. NewFile /\ BeforeUpload
  BY DEF NewFile, BeforeUpload
<1>5. Backups!LimitKept
  BY <1>3 DEF Backups!LimitKept
<1>6. QED
  BY <1>1, <1>2, <1>4, <1>5 DEF BkInv

\* The steps that end a run take nothing but files away.
LEMMA BkDone ==
  ASSUME BackupBounds, BkInv, Backups!Done, db' \in 0..BkDb, made' = made, files' \in SUBSET files
  PROVE  BkInv'
<1> USE DEF BackupBounds, BkInv, Backups!Done
<1>1. FileSet(files') /\ Backups!Size(files') <= Backups!Size(files)
      /\ Backups!Size(files') \in Nat /\ Backups!Size(files) \in Nat
  BY SizeOfPart
<1>2. Backups!LimitKept'
  BY <1>1 DEF Backups!LimitKept
<1>3. FileSet(staged')
  BY FS_EmptySet DEF FileSet
<1>4. Backups!TypeOK'
  BY DEF Backups!TypeOK
<1>5. NewFile' /\ BeforeUpload'
  BY DEF NewFile, BeforeUpload
<1>6. FileSet(files)' /\ FileSet(staged)'
  BY <1>1, <1>3 DEF FileSet
<1>7. QED
  BY <1>2, <1>4, <1>5, <1>6

\* Making room takes old files away; what it protects stays.
LEMMA BkRoom ==
  ASSUME BackupBounds, BkInv, Backups!Begin \/ Backups!MakeRoom
  PROVE  BkInv'
<1> USE DEF BackupBounds, BkInv
<1>1. CASE Backups!Begin
  <2> USE <1>1 DEF Backups!Begin
  <2>1. files' \in SUBSET files
    BY KeptFits
  <2>2. FileSet(files') /\ Backups!Size(files') <= Backups!Size(files)
        /\ Backups!Size(files') \in Nat /\ Backups!Size(files) \in Nat
    BY <2>1, SizeOfPart
  <2>3. Backups!LimitKept'
    BY <2>2 DEF Backups!LimitKept
  <2>4. Backups!TypeOK'
    BY <2>1 DEF Backups!TypeOK
  <2>5. NewFile'
    BY <2>1 DEF NewFile, Backups!TypeOK
  <2>6. BeforeUpload'
    BY DEF BeforeUpload
  <2>7. FileSet(files)' /\ FileSet(staged)'
    BY <2>2 DEF FileSet
  <2>8. QED
    BY <2>3, <2>4, <2>5, <2>6, <2>7
<1>2. CASE Backups!MakeRoom
  <2> USE <1>2 DEF Backups!MakeRoom
  <2>1. Backups!Size(staged) \in Nat
    BY SizeOfPart
  <2>2. /\ files' \in SUBSET files
        /\ Backups!Size(files') + Backups!Size(staged) <= BkLimit
        /\ \A f \in files : f.id \in pre => f \in files'
    BY <2>1, KeptFits DEF Backups!Protected
  <2>3. FileSet(files') /\ Backups!Size(files') <= Backups!Size(files)
        /\ Backups!Size(files') \in Nat /\ Backups!Size(files) \in Nat
    BY <2>2, SizeOfPart
  <2>4. Backups!LimitKept'
    BY <2>3 DEF Backups!LimitKept
  <2>5. Backups!TypeOK'
    BY <2>2 DEF Backups!TypeOK
  <2>6. (Backups!Size(files) + Backups!Size(staged) <= BkLimit)'
    BY <2>2 DEF Backups!Size
  <2>7. NewFile'
    BY <2>2, <2>6 DEF NewFile
  <2>8. BeforeUpload'
    BY <2>2 DEF BeforeUpload
  <2>9. FileSet(files)' /\ FileSet(staged)'
    BY <2>3 DEF FileSet
  <2>10. QED
    BY <2>4, <2>5, <2>7, <2>8, <2>9
<1>3. QED
  BY <1>1, <1>2

\* A dump or an upload is staged under the next id.
LEMMA BkStage ==
  ASSUME BackupBounds, BkInv, Backups!Dump \/ Backups!Upload
  PROVE  BkInv'
<1> USE DEF BackupBounds, BkInv
<1>1. /\ made' = made + 1 /\ made \in Nat /\ made < BkFiles
      /\ pc \in {"dump", "upload"} /\ pc' = "room"
      /\ UNCHANGED <<db, files, flow, pre, uploaded>>
  BY DEF Backups!Dump, Backups!Upload, NewFile, Backups!TypeOK
<1>2. PICK size \in 1..BkSize, version \in 0..BkDb :
         staged' = {[id |-> made + 1, size |-> size, db |-> version]}
  BY DEF Backups!Dump, Backups!Upload, Backups!TypeOK
<1>3. staged' \subseteq Backups!File
  BY <1>1, <1>2 DEF Backups!File
<1>4. FileSet(staged')
  BY <1>2, <1>3, FS_Singleton DEF FileSet
<1>5. Backups!TypeOK'
  BY <1>1, <1>3 DEF Backups!TypeOK
<1>6. \A f \in files : f.id <= made /\ f.id \in Nat
  BY DEF NewFile, FileSet, Backups!File
<1>7. NewFile'
  <2>1. \E f : staged' = {f} /\ f.id = made'
    <3> DEFINE f == [id |-> made + 1, size |-> size, db |-> version]
    <3>1. staged' = {f} /\ f.id = made'
      BY <1>1, <1>2
    <3>2. QED
      BY <3>1, Zenon
  <2>2. QED
    BY <1>1, <1>6, <2>1 DEF NewFile
<1>8. BeforeUpload'
  BY <1>1, <1>6 DEF BeforeUpload
<1>9. Backups!LimitKept'
  BY <1>1 DEF Backups!LimitKept, Backups!Size
<1>10. FileSet(files)' /\ FileSet(staged)'
  BY <1>1, <1>4 DEF FileSet
<1>11. QED
  BY <1>5, <1>7, <1>8, <1>9, <1>10

\* The rename uses the room made for it.
LEMMA BkPublish == ASSUME BackupBounds, BkInv, Backups!Publish PROVE BkInv'
<1> USE DEF BackupBounds, BkInv, Backups!Publish
<1>1. /\ FileSet(files') /\ Backups!Size(files') <= Backups!Size(files) + Backups!Size(staged)
      /\ Backups!Size(files') \in Nat
      /\ Backups!Size(files) \in Nat /\ Backups!Size(staged) \in Nat
  BY SizeOfUnion, SizeOfPart
<1>2. Backups!Size(files') <= BkLimit
  BY <1>1 DEF NewFile
<1>3. Backups!LimitKept'
  BY <1>2 DEF Backups!LimitKept
<1>4. Backups!TypeOK'
  BY DEF Backups!TypeOK
<1>5. NewFile'
  <2>1. PICK f : staged = {f} /\ f.id = made
    BY DEF NewFile
  <2>2. made \in Nat
    BY DEF Backups!TypeOK
  <2>3. QED
    BY <2>1, <2>2 DEF NewFile
<1>6. BeforeUpload'
  BY DEF BeforeUpload
<1>7. FileSet(files)' /\ FileSet(staged)'
  BY <1>1 DEF FileSet
<1>8. QED
  BY <1>3, <1>4, <1>5, <1>6, <1>7

\* Retention keeps the newest backup.
LEMMA BkPrune == ASSUME BackupBounds, BkInv, Backups!Prune PROVE BkInv'
<1> USE DEF BackupBounds, BkInv
<1>1. PICK f : staged = {f} /\ f.id = made
  BY DEF Backups!Prune, NewFile
<1>2. /\ made \in Nat /\ f \in files /\ staged \subseteq files
      /\ \A g \in files : g.id \in Nat /\ g.id <= made
      /\ f \in Backups!File
  BY <1>1 DEF NewFile, Backups!Prune, Backups!TypeOK, FileSet, Backups!File
<1>3. f \in Backups!Retained
  <2>1. {g \in files : g.id > f.id} = {}
    BY <1>1, <1>2
  <2>2. Backups!Cardinality({}) = 0
    BY FS_EmptySet DEF Backups!Cardinality, Cardinality
  <2>3. QED
    BY <1>2, <2>1, <2>2 DEF Backups!Retained
<1>4. files' \in SUBSET files /\ f \in files'
  BY <1>2, <1>3 DEF Backups!Prune, Backups!Retained
<1>5. FileSet(files') /\ Backups!Size(files') <= Backups!Size(files)
      /\ Backups!Size(files') \in Nat /\ Backups!Size(files) \in Nat
  BY <1>4, SizeOfPart
<1>6. Backups!LimitKept'
  BY <1>5 DEF Backups!LimitKept
<1>7. {g.id : g \in staged} = {made}
  BY <1>1
<1>8. made \in 1..BkFiles
  BY <1>1, <1>2 DEF Backups!File
<1>9. Backups!TypeOK'
  BY <1>4, <1>7, <1>8 DEF Backups!TypeOK, Backups!Prune
<1>10. NewFile'
  BY <1>4 DEF NewFile, Backups!Prune
<1>11. BeforeUpload'
  BY <1>1, <1>4, <1>7 DEF BeforeUpload, Backups!Prune
<1>12. FileSet(files)' /\ FileSet(staged)'
  <2>1. staged' = {}
    BY DEF Backups!Prune
  <2>2. QED
    BY <1>5, <2>1, FS_EmptySet DEF FileSet
<1>13. QED
  BY <1>6, <1>9, <1>10, <1>11, <1>12

\* Every step of a backup or a restore keeps the invariant.
LEMMA BkStep == BackupBounds /\ BkInv /\ [Backups!Next]_(Backups!vars) => BkInv'
<1> SUFFICES ASSUME BackupBounds, BkInv, [Backups!Next]_(Backups!vars) PROVE BkInv'
  OBVIOUS
<1>1. CASE Backups!Begin \/ Backups!MakeRoom
  BY <1>1, BkRoom
<1>2. CASE Backups!Dump \/ Backups!Upload
  BY <1>2, BkStage
<1>3. CASE Backups!Publish
  BY <1>3, BkPublish
<1>4. CASE Backups!Prune
  BY <1>4, BkPrune
<1>5. CASE Backups!Restore
  <2>1. db' \in 0..BkDb
    BY <1>5 DEF Backups!Restore, BkInv, Backups!TypeOK, Backups!File
  <2>2. pc = "restore" /\ pc' = "remove" /\ UNCHANGED <<files, made, flow, staged, pre, uploaded>>
    BY <1>5 DEF Backups!Restore
  <2>3. QED
    BY <2>1, <2>2 DEF BkInv, FileSet, NewFile, BeforeUpload, Backups!TypeOK, Backups!LimitKept,
       Backups!Size
<1>6. CASE Backups!Remove \/ Backups!Fail \/ Backups!Crash
  <2>1. db' \in 0..BkDb /\ files' \in SUBSET files /\ made' = made /\ Backups!Done
    BY <1>6 DEF Backups!Remove, Backups!Fail, Backups!Crash, BkInv, Backups!TypeOK
  <2>2. QED
    BY <2>1, BkDone
<1>7. CASE Backups!WriteDb \/ UNCHANGED Backups!vars
  <2>1. UNCHANGED <<files, made, pc, flow, staged, pre, uploaded>>
    BY <1>7 DEF Backups!WriteDb, Backups!vars
  <2>2. db' \in 0..BkDb
    BY <1>7 DEF Backups!WriteDb, Backups!vars, BkInv, Backups!TypeOK, BackupBounds
  <2>3. QED
    BY <2>1, <2>2 DEF BkInv, FileSet, NewFile, BeforeUpload, Backups!TypeOK, Backups!LimitKept,
       Backups!Size
<1>8. QED
  BY <1>1, <1>2, <1>3, <1>4, <1>5, <1>6, <1>7 DEF Backups!Next

\* The backups never exceed the storage limit, at no step and after no crash.
THEOREM BackupLimit ==
  ASSUME BackupBounds PROVE Backups!Spec => [](Backups!TypeOK /\ Backups!LimitKept)
<1>1. Backups!Init => BkInv
  BY BkInit
<1>2. BkInv /\ [Backups!Next]_(Backups!vars) => BkInv'
  BY BkStep
<1>3. BkInv => Backups!TypeOK /\ Backups!LimitKept
  BY DEF BkInv
<1>4. QED
  BY <1>1, <1>2, <1>3, PTL DEF Backups!Spec

\* A restore replaces the database only while the backup made before it is there.
THEOREM PreRestore ==
  ASSUME BackupBounds PROVE Backups!Spec => [][Backups!PreRestoreKept]_(Backups!vars)
<1>1. Backups!Init => BkInv
  BY BkInit
<1>2. BkInv /\ [Backups!Next]_(Backups!vars) => BkInv'
  BY BkStep
<1>3. BkInv /\ [Backups!Next]_(Backups!vars) => [Backups!PreRestoreKept]_(Backups!vars)
  <2> SUFFICES ASSUME BkInv, Backups!Next, pc' = "remove"
               PROVE  pre # {} /\ \E f \in files' : f.id \in pre
    BY DEF Backups!PreRestoreKept
  <2>1. pc \in {"restore", "remove"} /\ files' = files
    BY DEF Backups!Next, Backups!WriteDb, Backups!Begin, Backups!Dump, Backups!Upload,
       Backups!MakeRoom, Backups!Publish, Backups!Prune, Backups!Restore, Backups!Remove,
       Backups!Fail, Backups!Crash, Backups!Done
  <2>2. QED
    BY <2>1 DEF BkInv, BeforeUpload
<1>4. QED
  BY <1>1, <1>2, <1>3, PTL DEF Backups!Spec

--------------------------------------------------------------------------------
(* The positions of bus terminals and ferry ports.                         *)

Places == INSTANCE PlaceLocation WITH
    Proc <- PlProc, Place <- PlPlace, KindOf <- PlKindOf, Name <- PlName, Target <- PlTarget,
    Job <- PlJob, Overlap <- PlOverlap, MaxCalls <- PlMax, Keep <- PlKeep, MaxTime <- PlTime,
    MaxReceipts <- PlReceipts

PlaceBounds ==
    /\ PlTarget \in [PlPlace -> PlName] /\ PlJob \subseteq {"tago", "komsa", "vworld", "kakao"}
    /\ PlMax \in Nat /\ PlTime \in Nat /\ PlReceipts \in Nat
    /\ Places!Nobody \notin PlProc

\* A position, and what the administrator has on the screen.
Position == [src: {"none", "manual", "komsa", "vworld", "kakao"}, for: PlName \cup {Places!Nothing}]
Screen == [place: PlPlace, name: PlName, loc: Position]
\* The names a collector fetched.
Lists == {Places!Nothing} \cup [Places!OfKind("tago") -> PlName]
                          \cup [Places!OfKind("komsa") -> PlName]

PlTypes ==
    /\ Places!TypeOK /\ IsFiniteSet(receipts)
    /\ loc \in [PlPlace -> Position] /\ form \subseteq Screen
    /\ holder \in [Places!Searches -> PlProc \cup {Places!Nobody}]
    /\ job \in [PlProc -> {"none", "tago", "komsa", "vworld", "kakao"}]
    /\ list \in [PlProc -> Lists]
    /\ paid \in [PlProc -> Nat] /\ counted \in [PlProc -> Nat]

\* What a run does at each of its steps.
RunJobs ==
    \A p \in PlProc :
        /\ pc[p] \in {"loop", "call"} => job[p] \in {"komsa", "vworld", "kakao"}
        /\ pc[p] = "upsert" => job[p] \in {"tago", "komsa"}
        /\ pc[p] # "idle" /\ job[p] = "tago" => list[p] \in [Places!OfKind("tago") -> PlName]
        /\ pc[p] # "idle" /\ job[p] = "komsa" => list[p] \in [Places!OfKind("komsa") -> PlName]

\* A call in flight has its receipt.
CallsPaid == \A p \in PlProc : pc[p] = "call" => \E r \in receipts : r.id = paid[p]

\* The searches of a provider in the last day.
Spent(prov) == Cardinality(Places!Today(prov))

\* Only the owner of the Kakao lock searches, and its own count covers every receipt.
KakaoCounted ==
    \/ lost
    \/ \A p \in PlProc : pc[p] # "idle" /\ job[p] = "kakao" =>
           holder["kakao"] = p /\ Spent("kakao") <= counted[p] /\ counted[p] <= PlMax

WithinBudget ==
    \A prov \in {"vworld", "kakao", "komsa"} : (prov = "kakao" /\ lost) \/ Spent(prov) <= PlMax

PlBudget == KakaoCounted /\ WithinBudget
PlInv == PlTypes /\ RunJobs /\ CallsPaid /\ PlBudget

\* The library of the places is the one of this module.
LEMMA PlaceCardinality == \A set : Places!Cardinality(set) = Cardinality(set)
  BY DEF Places!Cardinality, Cardinality

\* The receipts of a day are counted.
LEMMA SpentNumber ==
  ASSUME PlTypes, NEW prov
  PROVE  IsFiniteSet(Places!Today(prov)) /\ Spent(prov) \in Nat
<1>1. Places!Today(prov) \in SUBSET receipts
  BY DEF Places!Today
<1>2. QED
  BY <1>1, FS_Subset, FS_CardinalityType DEF PlTypes, Spent

\* A step that pays for no search.
SpendsNothing ==
    \A prov \in {"vworld", "kakao", "komsa"} : Spent(prov)' \in Nat /\ Spent(prov)' <= Spent(prov)

\* A step after which every receipt of the last day was one before pays for none.
LEMMA NotSpending ==
  ASSUME PlInv,
         \A prov \in {"vworld", "kakao", "komsa"} : Places!Today(prov)' \subseteq Places!Today(prov)
  PROVE  SpendsNothing
<1> SUFFICES ASSUME NEW prov \in {"vworld", "kakao", "komsa"}
             PROVE  Spent(prov)' \in Nat /\ Spent(prov)' <= Spent(prov)
  BY DEF SpendsNothing
<1>1. IsFiniteSet(Places!Today(prov)) /\ Places!Today(prov)' \in SUBSET Places!Today(prov)
  BY SpentNumber DEF PlInv
<1>2. /\ Cardinality(Places!Today(prov)') <= Cardinality(Places!Today(prov))
      /\ Cardinality(Places!Today(prov)') \in Nat
  BY <1>1, FS_Subset, FS_CardinalityType
<1>3. QED
  BY <1>2 DEF Spent

\* A receipt that is marked stays one receipt, of its provider and day.
LEMMA Marking ==
  ASSUME PlaceBounds, PlInv, NEW p \in PlProc, pc[p] = "call", now' = now,
         NEW s \in {"success", "failed", "limited", "denied"}, receipts' = Places!Marked(p, s)
  PROVE  /\ receipts' \subseteq Places!Receipt /\ IsFiniteSet(receipts')
         /\ Places!MyReceipt(p) \in receipts /\ Places!MyReceipt(p) \in Places!Receipt
         /\ \A q \in PlProc : pc[q] = "call" => \E r \in receipts' : r.id = paid[q]
         /\ SpendsNothing
<1> USE DEF PlInv
<1>1. PICK r : r = Places!MyReceipt(p)
  OBVIOUS
<1>2. r \in receipts /\ r.id = paid[p]
  BY <1>1 DEF CallsPaid, Places!MyReceipt
<1>3. r \in Places!Receipt
  BY <1>2 DEF PlTypes, Places!TypeOK
<1>4. PICK m : m = [r EXCEPT !.status = s]
  OBVIOUS
<1>5. m \in Places!Receipt /\ m.id = r.id /\ m.prov = r.prov /\ m.at = r.at
  BY <1>3, <1>4 DEF Places!Receipt
<1>6. receipts' = (receipts \ {r}) \cup {m}
  BY <1>1, <1>4 DEF Places!Marked
<1>7. receipts' \subseteq Places!Receipt
  BY <1>5, <1>6 DEF PlTypes, Places!TypeOK
<1>8. IsFiniteSet(receipts')
  <2>1. IsFiniteSet(receipts) /\ (receipts \ {r}) \in SUBSET receipts
    BY DEF PlTypes
  <2>2. IsFiniteSet(receipts \ {r})
    BY <2>1, FS_Subset
  <2>3. QED
    BY <1>6, <2>2, FS_AddElement
<1>9. \A q \in PlProc : pc[q] = "call" => \E e \in receipts' : e.id = paid[q]
  <2> SUFFICES ASSUME NEW q \in PlProc, pc[q] = "call" PROVE \E e \in receipts' : e.id = paid[q]
    OBVIOUS
  <2>1. PICK e \in receipts : e.id = paid[q]
    BY DEF CallsPaid
  <2>2. QED
    BY <1>5, <1>6, <2>1
<1>10. ASSUME NEW prov \in {"vworld", "kakao", "komsa"} 
         PROVE  Spent(prov)' \in Nat /\ Spent(prov)' <= Spent(prov)
  <2> DEFINE T == Places!Today(prov)
  <2>1. Places!Today(prov)' = {e \in receipts' : e.prov = prov /\ e.at >= now - 1}
    BY DEF Places!Today
  <2>2. IsFiniteSet(T) /\ Cardinality(T) \in Nat /\ Spent(prov) = Cardinality(T)
    BY SpentNumber DEF Spent
  <2>3. Spent(prov)' = Cardinality(Places!Today(prov)')
    BY DEF Spent
  <2>4. CASE r \in T
    <3>1. Places!Today(prov)' = (T \ {r}) \cup {m}
      BY <1>5, <1>6, <2>1, <2>4 DEF Places!Today
    <3>2. IsFiniteSet(T \ {r}) /\ Cardinality(T \ {r}) = Cardinality(T) - 1
      BY <2>2, <2>4, FS_RemoveElement
    <3>3. /\ Cardinality((T \ {r}) \cup {m}) = Cardinality(T \ {r})
             \/ Cardinality((T \ {r}) \cup {m}) = Cardinality(T \ {r}) + 1
      BY <3>2, FS_AddElement
    <3>4. Cardinality(T \ {r}) \in Nat
      BY <3>2, FS_CardinalityType
    <3>5. QED
      BY <2>2, <2>3, <3>1, <3>2, <3>3, <3>4
  <2>5. CASE r \notin T
    <3>1. Places!Today(prov)' = T
      BY <1>2, <1>5, <1>6, <2>1, <2>5 DEF Places!Today
    <3>2. QED
      BY <2>2, <2>3, <3>1
  <2>6. QED
    BY <2>4, <2>5
<1>11. QED
  BY <1>1, <1>2, <1>3, <1>7, <1>8, <1>9, <1>10 DEF SpendsNothing

\* A run that stays or ends, without a new receipt, stays within the budget.
LEMMA PlKeeps ==
  ASSUME PlaceBounds, PlInv, SpendsNothing,
         lost => lost',
         \A p \in PlProc : pc'[p] # "idle" /\ job'[p] = "kakao" =>
             /\ pc[p] # "idle" /\ job[p] = "kakao" /\ counted'[p] = counted[p]
             /\ holder["kakao"] = p => holder'["kakao"] = p \/ lost'
  PROVE  PlBudget'
<1> USE DEF PlaceBounds, PlInv, PlBudget
<1>1. \A prov \in {"vworld", "kakao", "komsa"} :
          Spent(prov) \in Nat /\ Spent(prov)' \in Nat /\ Spent(prov)' <= Spent(prov)
  BY SpentNumber DEF SpendsNothing
<1>2. counted \in [PlProc -> Nat] /\ PlMax \in Nat
  BY DEF PlTypes
<1>3. WithinBudget'
  BY <1>1, <1>2 DEF WithinBudget
<1>4. KakaoCounted'
  <2> SUFFICES ASSUME ~ lost', NEW p \in PlProc, pc'[p] # "idle", job'[p] = "kakao"
               PROVE  holder'["kakao"] = p /\ Spent("kakao")' <= counted'[p] /\ counted'[p] <= PlMax
    BY DEF KakaoCounted
  <2>1. ~ lost
    OBVIOUS
  <2>2. holder["kakao"] = p /\ Spent("kakao") <= counted[p] /\ counted[p] <= PlMax
    BY <2>1 DEF KakaoCounted
  <2>3. holder'["kakao"] = p /\ counted'[p] = counted[p]
    BY <2>2
  <2>4. QED
    BY <1>1, <1>2, <2>2, <2>3
<1>5. QED
  BY <1>3, <1>4

\* Neither runs nor receipts exist initially.
LEMMA PlInit == PlaceBounds /\ Places!Init => PlInv
<1> SUFFICES ASSUME PlaceBounds, Places!Init PROVE PlInv
  OBVIOUS
<1> USE DEF PlaceBounds, Places!Init
<1>1. loc \in [PlPlace -> Position]
  BY DEF Places!NoLoc, Position
<1>2. Places!TypeOK
  BY DEF Places!TypeOK, Places!NoLoc
<1>3. PlTypes
  <2>1. IsFiniteSet(receipts)
    BY FS_EmptySet
  <2>2. list \in [PlProc -> Lists]
    BY DEF Lists
  <2>3. QED
    BY <1>1, <1>2, <2>1, <2>2 DEF PlTypes, Screen
<1>4. RunJobs /\ CallsPaid /\ KakaoCounted
  BY DEF RunJobs, CallsPaid, KakaoCounted
<1>5. WithinBudget
  <2>1. \A prov : Spent(prov) = 0
    BY FS_EmptySet DEF Spent, Places!Today
  <2>2. QED
    BY <2>1 DEF WithinBudget
<1>6. QED
  BY <1>3, <1>4, <1>5 DEF PlInv, PlBudget

\* The end of a run, whatever it leaves in the rows.
LEMMA PlEnds ==
  ASSUME PlaceBounds, PlInv, NEW p \in PlProc, Places!End(p), UNCHANGED <<now, lost, form>>,
         name' \in [PlPlace -> PlName], loc' \in [PlPlace -> Position],
         receipts' \subseteq Places!Receipt, IsFiniteSet(receipts'), SpendsNothing,
         \A q \in PlProc : pc[q] = "call" => \E r \in receipts' : r.id = paid[q]
  PROVE  PlInv'
<1> USE DEF PlaceBounds, PlInv, Places!End
<1>1. /\ pc \in [PlProc -> {"idle", "loop", "call", "upsert"}]
      /\ job \in [PlProc -> {"none", "tago", "komsa", "vworld", "kakao"}]
      /\ list \in [PlProc -> Lists]
      /\ paid \in [PlProc -> Nat] /\ counted \in [PlProc -> Nat]
      /\ holder \in [Places!Searches -> PlProc \cup {Places!Nobody}]
  BY DEF PlTypes, Places!TypeOK
<1>2. \A q \in PlProc :
        IF q = p THEN pc'[q] = "idle" /\ job'[q] = "none"
        ELSE /\ pc'[q] = pc[q] /\ job'[q] = job[q] /\ list'[q] = list[q]
             /\ paid'[q] = paid[q] /\ counted'[q] = counted[q]
  BY <1>1
<1>3. PlTypes'
  <2>1. \A a \in PlPlace : loc'[a].src \in {"none", "manual", "komsa", "vworld", "kakao"}
    BY DEF Position
  <2>2. /\ pc' \in [PlProc -> {"idle", "loop", "call", "upsert"}]
        /\ left' \in [PlProc -> SUBSET PlPlace]
        /\ found' \in [PlProc -> [PlPlace -> {"deferred", "none", "found"}]]
        /\ now' \in 0..PlTime
    BY DEF PlTypes, Places!TypeOK
  <2>3. Places!TypeOK'
    BY <2>1, <2>2 DEF Places!TypeOK, Places!Receipt
  <2>4. list' \in [PlProc -> Lists] /\ job' \in [PlProc -> {"none", "tago", "komsa", "vworld", "kakao"}]
    BY <1>1 DEF Lists
  <2>5. paid' \in [PlProc -> Nat] /\ counted' \in [PlProc -> Nat]
    BY <1>1
  <2>6. holder' \in [Places!Searches -> PlProc \cup {Places!Nobody}]
    BY <1>1
  <2>7. form' \subseteq Screen
    BY DEF PlTypes
  <2>8. (IsFiniteSet(receipts) /\ loc \in [PlPlace -> Position])'
    OBVIOUS
  <2>9. QED
    BY <2>3, <2>4, <2>5, <2>6, <2>7, <2>8 DEF PlTypes, Lists, Screen, Position
<1>4. RunJobs'
  BY <1>2 DEF RunJobs, Places!OfKind
<1>5. CallsPaid'
  BY <1>2 DEF CallsPaid
<1>6. PlBudget'
  <2>1. "kakao" \in Places!Searches
    BY DEF Places!Searches
  <2>2. \A q \in PlProc : q # p /\ holder["kakao"] = q => holder'["kakao"] = q
    BY <2>1
  <2>3. QED
    BY <1>2, <2>2, PlKeeps
<1>7. QED
  BY <1>3, <1>4, <1>5, <1>6

\* A step of a run that goes on without paying for a search.
LEMMA PlGoesOn ==
  ASSUME PlaceBounds, PlInv, NEW p \in PlProc, NEW s \in {"loop", "upsert"},
         pc' = [pc EXCEPT ![p] = s], pc[p] \in {"loop", "call"}, s = "upsert" => job[p] = "komsa",
         UNCHANGED <<now, name, holder, lost, job, list, counted, form>>,
         left' \in [PlProc -> SUBSET PlPlace], loc' \in [PlPlace -> Position],
         found' \in [PlProc -> [PlPlace -> {"deferred", "none", "found"}]],
         paid' \in [PlProc -> Nat], \A q \in PlProc \ {p} : paid'[q] = paid[q],
         receipts' \subseteq Places!Receipt, IsFiniteSet(receipts'), SpendsNothing,
         \A q \in PlProc : pc[q] = "call" => \E r \in receipts' : r.id = paid[q]
  PROVE  PlInv'
<1> USE DEF PlaceBounds, PlInv
<1>1. pc \in [PlProc -> {"idle", "loop", "call", "upsert"}]
  BY DEF PlTypes, Places!TypeOK
<1>2. \A q \in PlProc : pc'[q] = IF q = p THEN s ELSE pc[q]
  BY <1>1
<1>3. PlTypes'
  <2>1. \A a \in PlPlace : loc'[a].src \in {"none", "manual", "komsa", "vworld", "kakao"}
    BY DEF Position
  <2>2. pc' \in [PlProc -> {"idle", "loop", "call", "upsert"}] /\ now' \in 0..PlTime
        /\ name' \in [PlPlace -> PlName]
    BY <1>1 DEF PlTypes, Places!TypeOK
  <2>3. Places!TypeOK'
    BY <2>1, <2>2 DEF Places!TypeOK, Places!Receipt
  <2>4. QED
    BY <2>3 DEF PlTypes, Lists, Screen, Position, Places!OfKind
<1>4. RunJobs'
  <2>1. job' = job /\ list' = list /\ pc[p] # "idle"
    OBVIOUS
  <2>2. \A q \in PlProc : pc'[q] = "loop" => job[q] \in {"komsa", "vworld", "kakao"}
    BY <1>2 DEF RunJobs
  <2>3. \A q \in PlProc : pc'[q] = "call" => job[q] \in {"komsa", "vworld", "kakao"}
    BY <1>2 DEF RunJobs
  <2>4. \A q \in PlProc : pc'[q] = "upsert" => job[q] \in {"tago", "komsa"}
    BY <1>2 DEF RunJobs
  <2>5. \A q \in PlProc : pc'[q] # "idle" => pc[q] # "idle"
    BY <1>2, <2>1
  <2>6. QED
    BY <2>1, <2>2, <2>3, <2>4, <2>5 DEF RunJobs, Places!OfKind
<1>5. CallsPaid'
  BY <1>2 DEF CallsPaid
<1>6. PlBudget'
  BY <1>2, PlKeeps
<1>7. QED
  BY <1>3, <1>4, <1>5, <1>6

\* A step that leaves the runs and their receipts alone.
LEMMA PlOutside ==
  ASSUME PlaceBounds, PlInv, PlTypes', UNCHANGED <<receipts, pc, job, list, paid, counted>>,
         now' \in {now, now + 1}, UNCHANGED <<holder, lost>> \/ lost'
  PROVE  PlInv'
<1> USE DEF PlInv
<1>1. RunJobs'
  BY DEF RunJobs, Places!OfKind
<1>2. CallsPaid'
  BY DEF CallsPaid
<1>3. SpendsNothing
  <2>1. now \in Nat /\ \A r \in receipts : r.at \in Nat
    BY DEF PlTypes, Places!TypeOK, Places!Receipt
  <2>2. \A prov : Places!Today(prov)' \subseteq Places!Today(prov)
    BY <2>1 DEF Places!Today
  <2>3. QED
    BY <2>2, NotSpending
<1>4. PlBudget'
  <2>1. lost => lost'
    OBVIOUS
  <2>2. QED
    BY <1>3, <2>1, PlKeeps
<1>5. QED
  BY <1>1, <1>2, <1>4

\* The facts about rows and receipts that a step which leaves them alone keeps.
LEMMA RowsKept ==
  ASSUME PlInv, UNCHANGED <<now, receipts>>
  PROVE  /\ receipts' \subseteq Places!Receipt /\ IsFiniteSet(receipts') /\ SpendsNothing
         /\ \A q \in PlProc : pc[q] = "call" => \E r \in receipts' : r.id = paid[q]
         /\ loc \in [PlPlace -> Position] /\ name \in [PlPlace -> PlName]
<1>1. \A prov : Places!Today(prov)' \subseteq Places!Today(prov)
  BY DEF Places!Today
<1>2. SpendsNothing
  BY <1>1, NotSpending
<1>3. QED
  BY <1>2 DEF PlInv, PlTypes, CallsPaid, Places!TypeOK

\* A Kakao run takes the lock and counts the receipts of its day; others do not touch either.
LEMMA PlBegin ==
  ASSUME PlaceBounds, PlInv, NEW p \in PlProc, NEW j \in PlJob, Places!Begin(p, j)
  PROVE  PlInv'
<1> USE DEF PlaceBounds, PlInv
<1>1. /\ pc \in [PlProc -> {"idle", "loop", "call", "upsert"}]
      /\ job \in [PlProc -> {"none", "tago", "komsa", "vworld", "kakao"}]
      /\ list \in [PlProc -> Lists]
      /\ left \in [PlProc -> SUBSET PlPlace]
      /\ counted \in [PlProc -> Nat]
      /\ holder \in [Places!Searches -> PlProc \cup {Places!Nobody}]
  BY DEF PlTypes, Places!TypeOK
<1>2. PICK l \in IF j \in Places!Searches THEN {Places!Nothing} ELSE [Places!OfKind(j) -> PlName] :
        /\ list' = [list EXCEPT ![p] = l]
        /\ left' = [left EXCEPT ![p] = CASE j \in Places!Searches -> PlPlace
                                         [] j = "komsa" -> {a \in Places!OfKind(j) : l[a] = PlTarget[a]}
                                         [] OTHER -> {}]
  BY DEF Places!Begin
<1>3. /\ pc[p] = "idle" /\ job' = [job EXCEPT ![p] = j]
      /\ pc' = [pc EXCEPT ![p] = IF j = "tago" THEN "upsert" ELSE "loop"]
      /\ j \in Places!Searches => holder[j] = Places!Nobody
      /\ holder' = IF j \in Places!Searches THEN [holder EXCEPT ![j] = p] ELSE holder
      /\ UNCHANGED <<now, name, loc, receipts, lost, paid, found, form>>
  BY DEF Places!Begin, Places!rowVars
<1>4. counted' = [counted EXCEPT ![p] = IF j = "kakao" THEN Spent("kakao") ELSE 0]
  BY PlaceCardinality DEF Places!Begin, Spent
<1>5. j \in {"tago", "komsa", "vworld", "kakao"} /\ Places!Searches = {"vworld", "kakao"}
  BY DEF Places!Searches
<1>6. \A q \in PlProc :
        IF q = p
        THEN pc'[q] = (IF j = "tago" THEN "upsert" ELSE "loop") /\ job'[q] = j /\ list'[q] = l
        ELSE /\ pc'[q] = pc[q] /\ job'[q] = job[q] /\ list'[q] = list[q]
             /\ counted'[q] = counted[q]
  BY <1>1, <1>2, <1>3, <1>4
<1>7. l \in Lists
  BY <1>2, <1>5 DEF Lists
<1>8. PlTypes'
  <2>1. left' \in [PlProc -> SUBSET PlPlace]
    <3>1. Places!OfKind(j) \subseteq PlPlace
      BY DEF Places!OfKind
    <3>2. (CASE j \in Places!Searches -> PlPlace
             [] j = "komsa" -> {a \in Places!OfKind(j) : l[a] = PlTarget[a]}
             [] OTHER -> {}) \in SUBSET PlPlace
      BY <1>5, <3>1
    <3>3. QED
      BY <1>1, <1>2, <3>2
  <2>2. pc' \in [PlProc -> {"idle", "loop", "call", "upsert"}]
    BY <1>1, <1>3
  <2>3. Places!TypeOK'
    BY <1>3, <2>1, <2>2 DEF Places!TypeOK, PlTypes, Places!Receipt
  <2>4. list' \in [PlProc -> Lists]
    BY <1>1, <1>2, <1>7
  <2>5. job' \in [PlProc -> {"none", "tago", "komsa", "vworld", "kakao"}]
    BY <1>1, <1>3, <1>5
  <2>6. counted' \in [PlProc -> Nat]
    BY <1>1, <1>4, SpentNumber
  <2>7. holder' \in [Places!Searches -> PlProc \cup {Places!Nobody}]
    BY <1>1, <1>3
  <2>8. QED
    BY <1>3, <2>3, <2>4, <2>5, <2>6, <2>7 DEF PlTypes, Lists, Screen, Position, Places!OfKind,
       Places!Searches
<1>9. RunJobs'
  <2> SUFFICES ASSUME NEW q \in PlProc
               PROVE  /\ pc'[q] \in {"loop", "call"} => job'[q] \in {"komsa", "vworld", "kakao"}
                      /\ pc'[q] = "upsert" => job'[q] \in {"tago", "komsa"}
                      /\ pc'[q] # "idle" /\ job'[q] = "tago" =>
                             list'[q] \in [Places!OfKind("tago") -> PlName]
                      /\ pc'[q] # "idle" /\ job'[q] = "komsa" =>
                             list'[q] \in [Places!OfKind("komsa") -> PlName]
    BY DEF RunJobs, Places!OfKind
  <2>1. CASE q = p
    BY <1>2, <1>5, <1>6, <2>1
  <2>2. CASE q # p
    BY <1>6, <2>2 DEF RunJobs
  <2>3. QED
    BY <2>1, <2>2
<1>10. CallsPaid'
  BY <1>3, <1>6 DEF CallsPaid
<1>11. SpendsNothing
  BY <1>3, RowsKept
<1>12. CASE j # "kakao"
  <2>1. holder'["kakao"] = holder["kakao"]
    BY <1>1, <1>3, <1>5, <1>12
  <2>2. PlBudget'
    BY <1>3, <1>6, <1>11, <1>12, <2>1, PlKeeps
  <2>3. QED
    BY <1>8, <1>9, <1>10, <2>2
<1>13. CASE j = "kakao"
  <2>1. holder["kakao"] = Places!Nobody /\ holder'["kakao"] = p
    BY <1>1, <1>3, <1>5, <1>13
  <2>2. /\ Spent("kakao") \in Nat /\ Spent("kakao")' \in Nat /\ Spent("kakao")' <= Spent("kakao")
        /\ \A prov \in {"vworld", "kakao", "komsa"} :
               Spent(prov) \in Nat /\ Spent(prov)' \in Nat /\ Spent(prov)' <= Spent(prov)
    BY <1>11, SpentNumber DEF SpendsNothing
  <2>3. WithinBudget'
    BY <1>3, <2>2 DEF WithinBudget, PlBudget
  <2>4. counted'[p] = Spent("kakao")
    BY <1>1, <1>4, <1>13
  <2>5. lost \/ \A q \in PlProc \ {p} : ~ (pc[q] # "idle" /\ job[q] = "kakao")
    BY <2>1 DEF PlBudget, KakaoCounted
  <2>6. lost \/ Spent("kakao") <= PlMax
    BY DEF PlBudget, WithinBudget
  <2>7. KakaoCounted'
    <3> SUFFICES ASSUME ~ lost', NEW q \in PlProc, pc'[q] # "idle", job'[q] = "kakao"
                 PROVE  holder'["kakao"] = q /\ Spent("kakao")' <= counted'[q] /\ counted'[q] <= PlMax
      BY DEF KakaoCounted
    <3>1. ~ lost
      BY <1>3
    <3>2. q = p
      BY <1>6, <2>5, <3>1
    <3>3. Spent("kakao") <= PlMax
      BY <2>6, <3>1
    <3>4. QED
      BY <2>1, <2>2, <2>4, <3>2, <3>3
  <2>8. QED
    BY <1>8, <1>9, <1>10, <2>3, <2>7 DEF PlBudget
<1>14. QED
  BY <1>12, <1>13

\* A search is paid for: one more receipt, within what the worker may afford.
LEMMA PlReserve ==
  ASSUME PlaceBounds, PlInv, NEW p \in PlProc, NEW a \in PlPlace, Places!Reserve(p, a)
  PROVE  PlInv'
<1> USE DEF PlaceBounds, PlInv
<1>1. /\ pc \in [PlProc -> {"idle", "loop", "call", "upsert"}]
      /\ left \in [PlProc -> SUBSET PlPlace] /\ name \in [PlPlace -> PlName]
      /\ paid \in [PlProc -> Nat] /\ counted \in [PlProc -> Nat]
      /\ now \in 0..PlTime /\ receipts \subseteq Places!Receipt /\ IsFiniteSet(receipts)
  BY DEF PlTypes, Places!TypeOK
<1>2. Cardinality(receipts) \in Nat /\ Places!Cardinality(receipts) = Cardinality(receipts)
  BY <1>1, FS_CardinalityType, PlaceCardinality
<1>3. /\ pc[p] = "loop" /\ Cardinality(receipts) < PlReceipts
      /\ job[p] \in {"komsa", "vworld", "kakao"}
  BY <1>2 DEF Places!Reserve, RunJobs
<1>4. PICK r : r = [id |-> Cardinality(receipts) + 1, prov |-> job[p], place |-> a,
                    name |-> Places!QueryName(p, a), at |-> now, status |-> "pending"]
  OBVIOUS
<1>5. r \in Places!Receipt
  BY <1>1, <1>2, <1>3, <1>4 DEF Places!QueryName, Places!Receipt
<1>6. /\ receipts' = receipts \cup {r}
      /\ left' = [left EXCEPT ![p] = left[p] \ {a}]
      /\ paid' = [paid EXCEPT ![p] = Cardinality(receipts) + 1]
      /\ counted' = [counted EXCEPT ![p] = IF job[p] = "komsa" THEN 0 ELSE counted[p] + 1]
      /\ pc' = [pc EXCEPT ![p] = "call"]
      /\ UNCHANGED <<now, name, loc, holder, lost, job, list, found, form>>
  BY <1>2, <1>4 DEF Places!Reserve
<1>7. \A q \in PlProc :
        IF q = p THEN /\ pc'[q] = "call" /\ paid'[q] = Cardinality(receipts) + 1
                      /\ counted'[q] = IF job[q] = "komsa" THEN 0 ELSE counted[q] + 1
        ELSE pc'[q] = pc[q] /\ paid'[q] = paid[q] /\ counted'[q] = counted[q]
  BY <1>1, <1>6
<1>8. PlTypes'
  <2>1. receipts' \subseteq Places!Receipt
    BY <1>1, <1>5, <1>6
  <2>2. IsFiniteSet(receipts')
    BY <1>1, <1>6, FS_AddElement
  <2>3. pc' \in [PlProc -> {"idle", "loop", "call", "upsert"}] /\ left' \in [PlProc -> SUBSET PlPlace]
    BY <1>1, <1>6
  <2>4. paid' \in [PlProc -> Nat] /\ counted' \in [PlProc -> Nat]
    BY <1>1, <1>2, <1>6
  <2>5. Places!TypeOK'
    BY <1>6, <2>1, <2>3 DEF Places!TypeOK, PlTypes, Places!Receipt
  <2>6. QED
    BY <1>6, <2>2, <2>4, <2>5 DEF PlTypes, Lists, Screen, Position, Places!OfKind
<1>9. RunJobs'
  BY <1>3, <1>6, <1>7 DEF RunJobs, Places!OfKind
<1>10. CallsPaid'
  <2> SUFFICES ASSUME NEW q \in PlProc, pc'[q] = "call" PROVE \E e \in receipts' : e.id = paid'[q]
    BY DEF CallsPaid
  <2>1. CASE q = p
    <3>1. r.id = paid'[q] /\ r \in receipts'
      BY <1>4, <1>6, <1>7, <2>1
    <3>2. QED
      BY <3>1
  <2>2. CASE q # p
    BY <1>6, <1>7, <2>2 DEF CallsPaid
  <2>3. QED
    BY <2>1, <2>2
<1>11. ASSUME NEW prov \in {"vworld", "kakao", "komsa"}
       PROVE  /\ Spent(prov) \in Nat /\ Spent(prov)' \in Nat /\ Spent(prov)' <= Spent(prov) + 1
              /\ prov # job[p] => Spent(prov)' = Spent(prov)
  <2> DEFINE T == Places!Today(prov)
  <2>1. Places!Today(prov)' = {e \in receipts' : e.prov = prov /\ e.at >= now - 1}
    BY <1>6 DEF Places!Today
  <2>2. IsFiniteSet(T) /\ Cardinality(T) \in Nat /\ Spent(prov) = Cardinality(T)
    BY SpentNumber DEF Spent
  <2>3. Spent(prov)' = Cardinality(Places!Today(prov)')
    BY DEF Spent
  <2>4. r.prov = job[p] /\ r.at = now
    BY <1>4
  <2>5. CASE prov = job[p]
    <3>1. Places!Today(prov)' = T \cup {r}
      BY <1>1, <1>6, <2>1, <2>4, <2>5 DEF Places!Today
    <3>2. Cardinality(T \cup {r}) = Cardinality(T) \/ Cardinality(T \cup {r}) = Cardinality(T) + 1
      BY <2>2, FS_AddElement
    <3>3. QED
      BY <2>2, <2>3, <2>5, <3>1, <3>2
  <2>6. CASE prov # job[p]
    <3>1. Places!Today(prov)' = T
      BY <1>6, <2>1, <2>4, <2>6 DEF Places!Today
    <3>2. QED
      BY <2>2, <2>3, <2>6, <3>1
  <2>7. QED
    BY <2>5, <2>6
<1>12. CASE job[p] = "kakao"
  <2>1. counted[p] < PlMax
    BY <1>12 DEF Places!Reserve, Places!Affordable
  <2>2. counted[p] \in Nat /\ counted'[p] = counted[p] + 1
    BY <1>1, <1>7, <1>12
  <2>3. lost \/ (holder["kakao"] = p /\ Spent("kakao") <= counted[p])
    BY <1>3, <1>12 DEF PlBudget, KakaoCounted
  <2>4. lost \/ Spent("kakao")' <= counted'[p]
    BY <1>11, <2>2, <2>3
  <2>5. KakaoCounted'
    <3> SUFFICES ASSUME ~ lost', NEW q \in PlProc, pc'[q] # "idle", job'[q] = "kakao"
                 PROVE  holder'["kakao"] = q /\ Spent("kakao")' <= counted'[q] /\ counted'[q] <= PlMax
      BY DEF KakaoCounted
    <3>1. ~ lost /\ holder' = holder
      BY <1>6
    <3>2. q = p
      <4>1. CASE q # p
        <5>1. holder["kakao"] = q
          BY <1>6, <1>7, <3>1, <4>1 DEF PlBudget, KakaoCounted
        <5>2. QED
          BY <2>3, <3>1, <4>1, <5>1
      <4>2. QED
        BY <4>1
    <3>3. QED
      BY <2>1, <2>2, <2>3, <2>4, <3>1, <3>2
  <2>6. WithinBudget'
    <3>1. \A prov \in {"vworld", "komsa"} : Spent(prov)' = Spent(prov)
      BY <1>11, <1>12
    <3>2. lost \/ Spent("kakao")' <= PlMax
      BY <1>11, <2>1, <2>2, <2>4
    <3>3. QED
      BY <1>6, <3>1, <3>2 DEF PlBudget, WithinBudget
  <2>7. QED
    BY <1>8, <1>9, <1>10, <2>5, <2>6 DEF PlBudget
<1>13. CASE job[p] # "kakao"
  <2>1. Spent(job[p]) < PlMax
    BY <1>3, <1>13, PlaceCardinality DEF Places!Reserve, Places!Affordable, Spent
  <2>2. \A prov \in {"vworld", "kakao", "komsa"} :
          prov # job[p] => Spent(prov)' = Spent(prov)
    BY <1>11
  <2>3. Spent(job[p])' <= PlMax
    <3>1. CASE job[p] = "vworld"
      <4>1. Spent("vworld")' <= PlMax
        BY <1>11, <2>1, <3>1
      <4>2. QED
        BY <1>6, <3>1, <4>1
    <3>2. CASE job[p] = "komsa"
      <4>1. Spent("komsa")' <= PlMax
        BY <1>11, <2>1, <3>2
      <4>2. QED
        BY <1>6, <3>2, <4>1
    <3>3. QED
      BY <1>3, <1>13, <3>1, <3>2
  <2>4. WithinBudget'
    BY <1>6, <2>2, <2>3 DEF PlBudget, WithinBudget
  <2>5. KakaoCounted'
    <3> SUFFICES ASSUME ~ lost', NEW q \in PlProc, pc'[q] # "idle", job'[q] = "kakao"
                 PROVE  holder'["kakao"] = q /\ Spent("kakao")' <= counted'[q] /\ counted'[q] <= PlMax
      BY DEF KakaoCounted
    <3>1. ~ lost /\ holder' = holder /\ q # p /\ Spent("kakao")' = Spent("kakao")
      BY <1>6, <1>13, <2>2
    <3>2. QED
      BY <1>6, <1>7, <3>1 DEF PlBudget, KakaoCounted
  <2>6. QED
    BY <1>8, <1>9, <1>10, <2>4, <2>5 DEF PlBudget
<1>14. QED
  BY <1>12, <1>13

\* A place that is passed over, deferred or the last one.
LEMMA PlLoop ==
  ASSUME PlaceBounds, PlInv, NEW p \in PlProc,
         \/ \E a \in PlPlace : Places!Skip(p, a) \/ Places!Deferred(p, a)
         \/ Places!LoopDone(p)
  PROVE  PlInv'
<1> USE DEF PlaceBounds, PlInv
<1>1. /\ pc \in [PlProc -> {"idle", "loop", "call", "upsert"}]
      /\ left \in [PlProc -> SUBSET PlPlace]
      /\ found \in [PlProc -> [PlPlace -> {"deferred", "none", "found"}]]
      /\ paid \in [PlProc -> Nat]
  BY DEF PlTypes, Places!TypeOK
<1>2. UNCHANGED <<now, name, loc, receipts, lost, form>> /\ pc[p] = "loop"
  BY DEF Places!Skip, Places!Deferred, Places!LoopDone, Places!rowVars
<1>3. /\ receipts' \subseteq Places!Receipt /\ IsFiniteSet(receipts') /\ SpendsNothing
      /\ \A q \in PlProc : pc[q] = "call" => \E r \in receipts' : r.id = paid[q]
      /\ loc' \in [PlPlace -> Position] /\ name' \in [PlPlace -> PlName]
  BY <1>2, RowsKept
<1>4. CASE Places!End(p)
  BY <1>2, <1>3, <1>4, PlEnds
<1>5. CASE ~ Places!End(p)
  <2>1. PICK s \in {"loop", "upsert"} :
          /\ pc' = [pc EXCEPT ![p] = s] /\ (s = "upsert" => job[p] = "komsa")
          /\ UNCHANGED <<holder, job, list, paid, counted>>
    <3>1. CASE \E a \in PlPlace : Places!Skip(p, a)
      <4>1. pc' = pc
        BY <3>1 DEF Places!Skip
      <4>2. pc' = [pc EXCEPT ![p] = "loop"]
        BY <1>1, <1>2, <4>1
      <4>3. QED
        BY <3>1, <4>2 DEF Places!Skip
    <3>2. CASE \E a \in PlPlace : Places!Deferred(p, a)
      <4>1. pc' = pc
        BY <1>5, <3>2 DEF Places!Deferred
      <4>2. pc' = [pc EXCEPT ![p] = "loop"]
        BY <1>1, <1>2, <4>1
      <4>3. QED
        BY <1>5, <3>2, <4>2 DEF Places!Deferred
    <3>3. CASE Places!LoopDone(p)
      BY <1>5, <3>3 DEF Places!LoopDone
    <3>4. QED
      BY <3>1, <3>2, <3>3
  <2>2. left' \in [PlProc -> SUBSET PlPlace]
    BY <1>1, <1>5 DEF Places!Skip, Places!Deferred, Places!LoopDone
  <2>3. found' \in [PlProc -> [PlPlace -> {"deferred", "none", "found"}]]
    <3>1. CASE \E a \in PlPlace : Places!Skip(p, a)
      <4>1. PICK a \in PlPlace, f \in {"deferred", "none", "found"} : found' = [found EXCEPT ![p][a] = f]
        BY <3>1 DEF Places!Skip
      <4>2. QED
        BY <1>1, <4>1
    <3>2. CASE found' = found
      BY <1>1, <3>2
    <3>3. QED
      BY <1>5, <3>1, <3>2 DEF Places!Deferred, Places!LoopDone
  <2>4. QED
    BY <1>1, <1>2, <1>3, <2>1, <2>2, <2>3, PlGoesOn
<1>6. QED
  BY <1>4, <1>5

\* A call that returns or fails marks its receipt.
LEMMA PlCall ==
  ASSUME PlaceBounds, PlInv, NEW p \in PlProc, Places!Answer(p) \/ Places!CallFails(p)
  PROVE  PlInv'
<1> USE DEF PlaceBounds, PlInv
<1>1. /\ pc \in [PlProc -> {"idle", "loop", "call", "upsert"}]
      /\ left \in [PlProc -> SUBSET PlPlace]
      /\ found \in [PlProc -> [PlPlace -> {"deferred", "none", "found"}]]
      /\ paid \in [PlProc -> Nat]
      /\ loc \in [PlPlace -> Position] /\ name \in [PlPlace -> PlName]
  BY DEF PlTypes, Places!TypeOK
<1>2. UNCHANGED <<now, name, lost, form>> /\ pc[p] = "call"
  BY DEF Places!Answer, Places!CallFails
<1>3. PICK s \in {"success", "failed", "limited", "denied"} : receipts' = Places!Marked(p, s)
  BY DEF Places!Answer, Places!CallFails
<1>4. /\ receipts' \subseteq Places!Receipt /\ IsFiniteSet(receipts')
      /\ Places!MyReceipt(p) \in Places!Receipt
      /\ \A q \in PlProc : pc[q] = "call" => \E r \in receipts' : r.id = paid[q]
      /\ SpendsNothing
  BY <1>2, <1>3, Marking
<1>5. loc' \in [PlPlace -> Position]
  <2>1. PICK r \in Places!Receipt : r = Places!MyReceipt(p)
    BY <1>4
  <2>2. Places!Located(job[p], r.name) \in Position \/ job[p] = "komsa"
    <3>1. job[p] \in {"komsa", "vworld", "kakao"} /\ r.name \in PlName
      BY <1>2, <2>1 DEF RunJobs, Places!Receipt
    <3>2. QED
      BY <3>1 DEF Places!Located, Position
  <2>3. r.place \in PlPlace
    BY <2>1 DEF Places!Receipt
  <2>4. CASE loc' = loc
    BY <1>1, <2>4
  <2>5. CASE job[p] # "komsa" /\ loc' = [loc EXCEPT ![r.place] = Places!Stored(p, r.place)]
    <3>1. Places!Stored(p, r.place) \in Position
      BY <1>1, <2>1, <2>2, <2>3, <2>5 DEF Places!Stored
    <3>2. QED
      BY <1>1, <2>3, <2>5, <3>1
  <2>6. QED
    BY <2>1, <2>4, <2>5 DEF Places!Answer, Places!CallFails
<1>6. CASE Places!End(p)
  BY <1>1, <1>2, <1>4, <1>5, <1>6, PlEnds
<1>7. CASE ~ Places!End(p)
  <2>1. /\ pc' = [pc EXCEPT ![p] = "loop"] /\ paid' = [paid EXCEPT ![p] = 0]
        /\ UNCHANGED <<holder, job, left, list, counted>>
    BY <1>7 DEF Places!Answer, Places!CallFails
  <2>2. found' \in [PlProc -> [PlPlace -> {"deferred", "none", "found"}]]
    <3>1. CASE Places!Answer(p)
      <4>1. PICK f \in {"none", "found"}, a \in {Places!MyReceipt(p).place} :
              found' = [found EXCEPT ![p][a] = IF job[p] = "komsa" THEN f ELSE found[p][a]]
        BY <3>1 DEF Places!Answer
      <4>2. a \in PlPlace
        BY <1>4, <4>1 DEF Places!Receipt
      <4>3. QED
        BY <1>1, <4>1, <4>2
    <3>2. CASE found' = found
      BY <1>1, <3>2
    <3>3. QED
      BY <1>7, <3>1, <3>2 DEF Places!CallFails
  <2>3. paid' \in [PlProc -> Nat] /\ \A q \in PlProc \ {p} : paid'[q] = paid[q]
    BY <1>1, <2>1
  <2>4. left' \in [PlProc -> SUBSET PlPlace]
    BY <1>1, <2>1
  <2>5. QED
    BY <1>2, <1>4, <1>5, <2>1, <2>2, <2>3, <2>4, PlGoesOn
<1>8. QED
  BY <1>6, <1>7

\* A collector stores the names it fetched.
LEMMA PlUpsert == ASSUME PlaceBounds, PlInv, NEW p \in PlProc, Places!Upsert(p) PROVE PlInv'
<1> USE DEF PlaceBounds, PlInv, Places!Upsert
<1>1. loc \in [PlPlace -> Position] /\ name \in [PlPlace -> PlName]
  BY DEF PlTypes, Places!TypeOK
<1>2. /\ job[p] \in {"tago", "komsa"}
      /\ \A a \in Places!OfKind(job[p]) : list[p][a] \in PlName
  BY DEF RunJobs
<1>3. name' \in [PlPlace -> PlName]
  BY <1>1, <1>2
<1>4. loc' \in [PlPlace -> Position]
  <2>1. ASSUME NEW a \in PlPlace, NEW n \in PlName
        PROVE  Places!TerminalLoc(a, n) \in Position /\ Places!PortLoc(p, a, n) \in Position
    BY <1>1 DEF Places!TerminalLoc, Places!PortLoc, Places!NoLoc, Places!Located, Position
  <2>2. QED
    BY <1>1, <1>2, <2>1
<1>5. /\ receipts' \subseteq Places!Receipt /\ IsFiniteSet(receipts') /\ SpendsNothing
      /\ \A q \in PlProc : pc[q] = "call" => \E r \in receipts' : r.id = paid[q]
  BY RowsKept
<1>6. QED
  BY <1>3, <1>4, <1>5, PlEnds

\* A run that fails or whose worker dies.
LEMMA PlAbort == ASSUME PlaceBounds, PlInv, NEW p \in PlProc, Places!Abort(p) PROVE PlInv'
<1>1. UNCHANGED <<now, name, loc, receipts, lost, form>> /\ Places!End(p)
  BY DEF Places!Abort, Places!rowVars
<1>2. QED
  BY <1>1, RowsKept, PlEnds

\* Time, the administrator and the database connections.
LEMMA PlOthers ==
  ASSUME PlaceBounds, PlInv,
         \/ Places!Tick \/ Places!Open \/ Places!Save \/ UNCHANGED Places!vars
         \/ \E p \in PlProc : Places!LockLost(p)
  PROVE  PlInv'
<1> USE DEF PlaceBounds, PlInv
<1>1. /\ UNCHANGED <<name, receipts, pc, job, left, list, paid, counted, found>>
      /\ now' \in {now, now + 1} /\ now' \in 0..PlTime
  BY DEF Places!Tick, Places!Open, Places!Save, Places!LockLost, Places!vars, Places!rowVars,
     Places!procVars, PlTypes, Places!TypeOK
<1>2. UNCHANGED <<holder, lost>> \/ lost'
  BY DEF Places!Tick, Places!Open, Places!Save, Places!LockLost, Places!vars, Places!rowVars,
     Places!procVars
<1>3. loc' \in [PlPlace -> Position] /\ form' \subseteq Screen
  <2>1. loc \in [PlPlace -> Position] /\ name \in [PlPlace -> PlName] /\ form \subseteq Screen
    BY DEF PlTypes, Places!TypeOK
  <2>2. CASE Places!Open
    <3>1. PICK a \in PlPlace : form' = {[place |-> a, name |-> name[a], loc |-> loc[a]]}
      BY <2>2 DEF Places!Open
    <3>2. [place |-> a, name |-> name[a], loc |-> loc[a]] \in Screen
      BY <2>1 DEF Screen
    <3>3. QED
      BY <2>1, <2>2, <3>1, <3>2 DEF Places!Open, Places!rowVars
  <2>3. CASE Places!Save
    <3>1. PICK f \in Screen :
            loc' = IF Places!Unchanged(f) THEN [loc EXCEPT ![f.place] = Places!Located("manual", f.name)]
                   ELSE loc
      BY <2>1, <2>3 DEF Places!Save
    <3>2. f.place \in PlPlace /\ Places!Located("manual", f.name) \in Position
      BY <3>1 DEF Screen, Places!Located, Position
    <3>3. QED
      BY <2>1, <2>3, <3>1, <3>2 DEF Places!Save
  <2>4. CASE UNCHANGED <<loc, form>>
    BY <2>1, <2>4
  <2>5. QED
    BY <2>2, <2>3, <2>4 DEF Places!Tick, Places!LockLost, Places!vars, Places!rowVars
<1>4. PlTypes'
  <2>1. Places!TypeOK'
    <3>1. \A a \in PlPlace : loc'[a].src \in {"none", "manual", "komsa", "vworld", "kakao"}
      BY <1>3 DEF Position
    <3>2. QED
      BY <1>1, <3>1 DEF PlTypes, Places!TypeOK, Places!Receipt
  <2>2. holder' \in [Places!Searches -> PlProc \cup {Places!Nobody}]
    BY DEF Places!Tick, Places!Open, Places!Save, Places!LockLost, Places!vars, Places!rowVars,
       Places!procVars, PlTypes
  <2>3. QED
    BY <1>1, <1>3, <2>1, <2>2 DEF PlTypes, Lists, Screen, Position, Places!OfKind,
       Places!Searches
<1>5. QED
  BY <1>1, <1>2, <1>4, PlOutside

\* Every step of the searches, the collectors and the administrator keeps the invariant.
LEMMA PlStep == PlaceBounds /\ PlInv /\ [Places!Next]_(Places!vars) => PlInv'
<1> SUFFICES ASSUME PlaceBounds, PlInv, [Places!Next]_(Places!vars) PROVE PlInv'
  OBVIOUS
<1>1. ASSUME NEW p \in PlProc, NEW j \in PlJob, Places!Begin(p, j) PROVE PlInv'
  BY <1>1, PlBegin
<1>2. ASSUME NEW p \in PlProc, NEW a \in PlPlace, Places!Reserve(p, a) PROVE PlInv'
  BY <1>2, PlReserve
<1>3. ASSUME NEW p \in PlProc,
             \/ \E a \in PlPlace : Places!Skip(p, a) \/ Places!Deferred(p, a)
             \/ Places!LoopDone(p)
      PROVE  PlInv'
  BY <1>3, PlLoop
<1>4. ASSUME NEW p \in PlProc, Places!Answer(p) \/ Places!CallFails(p) PROVE PlInv'
  BY <1>4, PlCall
<1>5. ASSUME NEW p \in PlProc, Places!Upsert(p) \/ Places!Abort(p) PROVE PlInv'
  BY <1>5, PlUpsert, PlAbort
<1>6. CASE \/ Places!Tick \/ Places!Open \/ Places!Save \/ UNCHANGED Places!vars
           \/ \E p \in PlProc : Places!LockLost(p)
  BY <1>6, PlOthers
<1>7. QED
  BY <1>1, <1>2, <1>3, <1>4, <1>5, <1>6 DEF Places!Next

\* The searches of any day stay within the budget, whoever else runs (Kakao while its lock holds).
THEOREM SearchBudget ==
  ASSUME PlaceBounds PROVE Places!Spec => [](Places!TypeOK /\ Places!BudgetKept)
<1>1. Places!Init => PlInv
  BY PlInit
<1>2. PlInv /\ [Places!Next]_(Places!vars) => PlInv'
  BY PlStep
<1>3. PlInv => Places!TypeOK /\ Places!BudgetKept
  BY PlaceCardinality DEF PlInv, PlTypes, PlBudget, WithinBudget, Spent, Places!BudgetKept
<1>4. QED
  BY <1>1, <1>2, <1>3, PTL DEF Places!Spec

\* A position an administrator entered gives way to nobody but a new official name.
THEOREM ManualPosition ==
  ASSUME PlaceBounds PROVE Places!Spec => [][Places!ManualKept]_(Places!vars)
<1>1. Places!Init => PlInv
  BY PlInit
<1>2. PlInv /\ [Places!Next]_(Places!vars) => PlInv'
  BY PlStep
<1>3. PlInv /\ [Places!Next]_(Places!vars) => [Places!ManualKept]_(Places!vars)
  <2> SUFFICES ASSUME PlInv, Places!Next, NEW a \in PlPlace,
                      loc[a].src = "manual", loc'[a].src # "manual"
               PROVE  name'[a] # name[a]
    BY DEF Places!ManualKept
  <2>1. loc \in [PlPlace -> Position] /\ name \in [PlPlace -> PlName]
    BY DEF PlInv, PlTypes, Places!TypeOK
  <2>2. ASSUME NEW p \in PlProc, Places!Answer(p) PROVE FALSE
    <3>1. PICK b : b = Places!MyReceipt(p).place
      OBVIOUS
    <3>2. loc' = [loc EXCEPT ![b] = Places!Stored(p, b)] \/ loc' = loc
      BY <2>2, <3>1 DEF Places!Answer
    <3>3. b = a => Places!Stored(p, b) = loc[a]
      BY DEF Places!Stored
    <3>4. QED
      BY <2>1, <3>2, <3>3
  <2>3. ASSUME NEW p \in PlProc, Places!Upsert(p) PROVE name'[a] # name[a]
    <3>1. a \in Places!OfKind(job[p]) /\ name'[a] = list[p][a]
      BY <2>1, <2>3 DEF Places!Upsert
    <3>2. loc'[a] = IF job[p] = "tago" THEN Places!TerminalLoc(a, list[p][a])
                    ELSE Places!PortLoc(p, a, list[p][a])
      BY <2>3, <3>1 DEF Places!Upsert
    <3>3. list[p][a] # name[a]
      <4>1. \A n : n = name[a] => Places!TerminalLoc(a, n) = loc[a] /\ Places!PortLoc(p, a, n) = loc[a]
        BY DEF Places!TerminalLoc, Places!PortLoc
      <4>2. QED
        BY <3>2, <4>1
    <3>4. QED
      BY <3>1, <3>3
  <2>4. ASSUME Places!Save PROVE FALSE
    <3>1. PICK f \in form :
            loc' = IF Places!Unchanged(f) THEN [loc EXCEPT ![f.place] = Places!Located("manual", f.name)]
                   ELSE loc
      BY <2>4 DEF Places!Save
    <3>2. QED
      BY <2>1, <3>1 DEF Places!Located
  <2>5. CASE UNCHANGED loc
    BY <2>5
  <2>6. QED
    BY <2>2, <2>3, <2>4, <2>5 DEF Places!Next, Places!Tick, Places!Open, Places!Begin,
       Places!Skip, Places!Reserve, Places!Deferred, Places!CallFails, Places!LoopDone,
       Places!Abort, Places!LockLost, Places!rowVars
<1>4. QED
  BY <1>1, <1>2, <1>3, PTL DEF Places!Spec

\* Receipts are numbered in turn.
Numbered ==
    /\ \A q, r \in receipts : q.id = r.id => q = r
    /\ \A r \in receipts : r.id <= Cardinality(receipts)

\* Without overlap one run is busy, and what it searches for is the name its place still has.
OneRun == \A p, q \in PlProc : pc[p] # "idle" /\ pc[q] # "idle" => p = q
SearchedName ==
    \A p \in PlProc : pc[p] = "call" /\ job[p] \in Places!Searches =>
        \A r \in receipts : r.id = paid[p] => r.name = name[r.place]

PlNames ==
    Numbered /\ (~ PlOverlap => OneRun /\ SearchedName) /\ Places!LocationMatchesName

\* The receipt of a call is one of the receipts.
LEMMA OwnReceipt ==
  ASSUME PlInv, NEW p \in PlProc, pc[p] = "call"
  PROVE  Places!MyReceipt(p) \in receipts /\ Places!MyReceipt(p).id = paid[p]
  BY DEF PlInv, CallsPaid, Places!MyReceipt

\* A new receipt gets the next number, a finished one keeps its own.
LEMMA NumberedStep ==
  ASSUME PlaceBounds, PlInv, Numbered, [Places!Next]_(Places!vars)
  PROVE  Numbered'
<1>1. IsFiniteSet(receipts) /\ receipts \subseteq Places!Receipt /\ Cardinality(receipts) \in Nat
  BY FS_CardinalityType DEF PlInv, PlTypes, Places!TypeOK
<1>2. ASSUME NEW p \in PlProc, NEW a \in PlPlace, Places!Reserve(p, a) PROVE Numbered'
  <2>1. PICK n : /\ n.id = Cardinality(receipts) + 1 /\ receipts' = receipts \cup {n}
    <3>1. PICK n : n = [id |-> Places!Cardinality(receipts) + 1, prov |-> job[p], place |-> a,
                        name |-> Places!QueryName(p, a), at |-> now, status |-> "pending"]
      OBVIOUS
    <3>2. receipts' = receipts \cup {n}
      BY <1>2, <3>1 DEF Places!Reserve
    <3>3. n.id = Cardinality(receipts) + 1
      BY <3>1, PlaceCardinality
    <3>4. QED
      BY <3>2, <3>3
  <2>2. \A r \in receipts : r.id \in Nat /\ r.id <= Cardinality(receipts)
    BY <1>1 DEF Numbered, Places!Receipt
  <2>3. n \notin receipts
    BY <1>1, <2>1, <2>2
  <2>4. Cardinality(receipts') = Cardinality(receipts) + 1
    BY <1>1, <2>1, <2>3, FS_AddElement
  <2>5. QED
    BY <1>1, <2>1, <2>2, <2>4 DEF Numbered
<1>3. ASSUME NEW p \in PlProc, Places!Answer(p) \/ Places!CallFails(p) PROVE Numbered'
  <2>1. PICK m : m = Places!MyReceipt(p)
    OBVIOUS
  <2>2. m \in receipts
    BY <1>3, <2>1, OwnReceipt DEF Places!Answer, Places!CallFails
  <2>3. PICK s : receipts' = Places!Marked(p, s)
    BY <1>3 DEF Places!Answer, Places!CallFails
  <2>4. PICK n : n = [m EXCEPT !.status = s] /\ receipts' = (receipts \ {m}) \cup {n}
    BY <2>1, <2>3 DEF Places!Marked
  <2>5. n.id = m.id
    BY <1>1, <2>2, <2>4 DEF Places!Receipt
  <2>6. n \notin receipts \ {m}
    BY <2>2, <2>5 DEF Numbered
  <2>7. IsFiniteSet(receipts \ {m}) /\ Cardinality(receipts \ {m}) = Cardinality(receipts) - 1
    BY <1>1, <2>2, FS_RemoveElement
  <2>8. Cardinality(receipts') = Cardinality(receipts)
    <3>1. PICK rest : rest = receipts \ {m}
      OBVIOUS
    <3>2. Cardinality(rest \cup {n}) = Cardinality(rest) + 1
      BY <2>6, <2>7, <3>1, FS_AddElement
    <3>3. QED
      BY <1>1, <2>4, <2>7, <3>1, <3>2
  <2>9. \A r \in receipts' : \E q \in receipts : q.id = r.id /\ (r = q \/ (r = n /\ q = m))
    BY <2>2, <2>4, <2>5
  <2>10. m \notin receipts' \/ n = m
    BY <2>4
  <2>11. QED
    BY <2>8, <2>9, <2>10, <2>2 DEF Numbered
<1>4. CASE UNCHANGED receipts
  BY <1>4 DEF Numbered
<1>5. QED
  BY <1>2, <1>3, <1>4 DEF Places!Next, Places!vars, Places!rowVars, Places!Tick, Places!Open,
     Places!Save, Places!Begin, Places!Skip, Places!Deferred, Places!LoopDone, Places!Upsert,
     Places!Abort, Places!LockLost

\* Without overlap a step is of the one busy run, of a run that begins when none is, or of none.
LEMMA OneActs ==
  ASSUME PlaceBounds, PlInv, ~ PlOverlap, OneRun, Places!Next
  PROVE  \/ \E p \in PlProc, j \in PlJob : Places!Begin(p, j) /\ \A q \in PlProc : pc[q] = "idle"
         \/ \E p \in PlProc :
               /\ pc[p] # "idle" /\ \A q \in PlProc \ {p} : pc[q] = "idle" /\ pc'[q] = "idle"
               /\ \/ \E a \in PlPlace : Places!Reserve(p, a)
                  \/ Places!Answer(p) \/ Places!Upsert(p)
                  \/ pc'[p] # "call" /\ UNCHANGED <<name, loc>>
         \/ Places!Tick \/ Places!Open \/ Places!Save
<1>1. pc \in [PlProc -> {"idle", "loop", "call", "upsert"}]
  BY DEF PlInv, PlTypes, Places!TypeOK
<1>2. ASSUME NEW p \in PlProc, NEW j \in PlJob, Places!Begin(p, j)
      PROVE  \A q \in PlProc : pc[q] = "idle"
  BY <1>2 DEF Places!Begin, Places!Busy
<1>3. ASSUME NEW p \in PlProc, pc[p] # "idle"
      PROVE  \A q \in PlProc \ {p} : pc[q] = "idle"
  BY <1>3 DEF OneRun
<1>4. ASSUME NEW p \in PlProc, NEW a \in PlPlace, Places!Skip(p, a)
      PROVE  pc[p] # "idle" /\ pc' = pc /\ pc'[p] # "call" /\ UNCHANGED <<name, loc>>
  BY <1>4 DEF Places!Skip, Places!rowVars
<1>5. ASSUME NEW p \in PlProc, NEW a \in PlPlace, Places!Reserve(p, a)
      PROVE  pc[p] # "idle" /\ pc' = [pc EXCEPT ![p] = "call"]
  BY <1>5 DEF Places!Reserve
<1>6. ASSUME NEW p \in PlProc, NEW a \in PlPlace, Places!Deferred(p, a)
      PROVE  /\ pc[p] # "idle" /\ (pc' = pc \/ pc' = [pc EXCEPT ![p] = "idle"])
             /\ pc'[p] # "call" /\ UNCHANGED <<name, loc>>
  BY <1>1, <1>6 DEF Places!Deferred, Places!End, Places!rowVars
<1>7. ASSUME NEW p \in PlProc, Places!Answer(p)
      PROVE  pc[p] # "idle" /\ pc' = [pc EXCEPT ![p] = "loop"]
  BY <1>7 DEF Places!Answer
<1>8. ASSUME NEW p \in PlProc, Places!CallFails(p)
      PROVE  /\ pc[p] # "idle" /\ (pc' = [pc EXCEPT ![p] = "loop"] \/ pc' = [pc EXCEPT ![p] = "idle"])
             /\ UNCHANGED <<name, loc>>
  BY <1>8 DEF Places!CallFails, Places!End
<1>9. ASSUME NEW p \in PlProc, Places!LoopDone(p)
      PROVE  /\ pc[p] # "idle" /\ (pc' = [pc EXCEPT ![p] = "upsert"] \/ pc' = [pc EXCEPT ![p] = "idle"])
             /\ UNCHANGED <<name, loc>>
  BY <1>9 DEF Places!LoopDone, Places!End, Places!rowVars
<1>10. ASSUME NEW p \in PlProc, Places!Upsert(p)
       PROVE  pc[p] # "idle" /\ pc' = [pc EXCEPT ![p] = "idle"]
  BY <1>10 DEF Places!Upsert, Places!End
<1>11. ASSUME NEW p \in PlProc, Places!Abort(p)
       PROVE  pc[p] # "idle" /\ pc' = [pc EXCEPT ![p] = "idle"] /\ UNCHANGED <<name, loc>>
  BY <1>11 DEF Places!Abort, Places!End, Places!rowVars
<1>12. ASSUME NEW p \in PlProc, Places!LockLost(p) PROVE FALSE
  BY <1>12 DEF Places!LockLost
<1>13. CASE Places!Tick \/ Places!Open \/ Places!Save
  BY <1>13
<1>14. ASSUME NEW p \in PlProc, NEW s \in {"idle", "loop", "upsert", "call"}, pc[p] # "idle",
              pc' = pc \/ pc' = [pc EXCEPT ![p] = s]
       PROVE  \A q \in PlProc \ {p} : pc[q] = "idle" /\ pc'[q] = "idle"
  BY <1>1, <1>3, <1>14
<1>15. CASE \E p \in PlProc :
               \/ \E a \in PlPlace : Places!Skip(p, a) \/ Places!Reserve(p, a) \/ Places!Deferred(p, a)
               \/ Places!Answer(p) \/ Places!CallFails(p) \/ Places!LoopDone(p) \/ Places!Upsert(p)
               \/ Places!Abort(p)
  <2>1. PICK p \in PlProc :
               \/ \E a \in PlPlace : Places!Skip(p, a) \/ Places!Reserve(p, a) \/ Places!Deferred(p, a)
               \/ Places!Answer(p) \/ Places!CallFails(p) \/ Places!LoopDone(p) \/ Places!Upsert(p)
               \/ Places!Abort(p)
    BY <1>15
  <2>2. /\ pc[p] # "idle"
        /\ \E s \in {"idle", "loop", "upsert", "call"} : pc' = pc \/ pc' = [pc EXCEPT ![p] = s]
    BY <2>1, <1>4, <1>5, <1>6, <1>7, <1>8, <1>9, <1>10, <1>11
  <2>3. \/ \E a \in PlPlace : Places!Reserve(p, a)
        \/ Places!Answer(p) \/ Places!Upsert(p)
        \/ pc'[p] # "call" /\ UNCHANGED <<name, loc>>
    BY <1>1, <2>1, <1>4, <1>6, <1>8, <1>9, <1>11
  <2>4. QED
    BY <1>14, <2>2, <2>3
<1>16. QED
  BY <1>2, <1>12, <1>13, <1>15 DEF Places!Next

\* A position is stored under the name its place has at that moment.
LEMMA NamesStep ==
  ASSUME PlaceBounds, PlInv, PlNames, ~ PlOverlap, Places!Next
  PROVE  OneRun' /\ SearchedName' /\ Places!LocationMatchesName'
<1>1. /\ pc \in [PlProc -> {"idle", "loop", "call", "upsert"}]
      /\ job \in [PlProc -> {"none", "tago", "komsa", "vworld", "kakao"}]
      /\ paid \in [PlProc -> Nat] /\ receipts \subseteq Places!Receipt
      /\ loc \in [PlPlace -> Position] /\ name \in [PlPlace -> PlName]
  BY DEF PlInv, PlTypes, Places!TypeOK
<1>2. OneRun /\ SearchedName /\ \A a \in PlPlace : loc[a].src # "none" => loc[a].for = name[a]
  BY DEF PlNames, Places!LocationMatchesName
<1> DEFINE Right == \A a \in PlPlace : loc'[a].src # "none" => loc'[a].for = name'[a]
<1>3. Right => Places!LocationMatchesName'
  BY DEF Places!LocationMatchesName
<1>4. UNCHANGED <<name, loc>> => Right
  BY <1>2
<1>5. ASSUME NEW p \in PlProc, NEW j \in PlJob, Places!Begin(p, j), \A q \in PlProc : pc[q] = "idle"
      PROVE  OneRun' /\ SearchedName' /\ Right
  <2>1. \A q \in PlProc : pc'[q] # "call" /\ (q # p => pc'[q] = "idle")
    BY <1>1, <1>5 DEF Places!Begin
  <2>2. UNCHANGED <<name, loc>>
    BY <1>5 DEF Places!Begin, Places!rowVars
  <2>3. QED
    BY <1>4, <2>1, <2>2 DEF OneRun, SearchedName
<1>6. ASSUME NEW p \in PlProc, pc[p] # "idle",
             \A q \in PlProc \ {p} : pc[q] = "idle" /\ pc'[q] = "idle"
      PROVE  OneRun' /\ (pc'[p] # "call" => SearchedName')
  BY <1>6 DEF OneRun, SearchedName
<1>7. ASSUME NEW p \in PlProc, pc[p] # "idle", NEW a \in PlPlace, Places!Reserve(p, a),
             \A q \in PlProc \ {p} : pc[q] = "idle" /\ pc'[q] = "idle"
      PROVE  SearchedName' /\ Right
  <2>1. UNCHANGED <<name, loc, job>> /\ paid'[p] = Cardinality(receipts) + 1
    BY <1>1, <1>7, PlaceCardinality DEF Places!Reserve
  <2>2. PICK n : /\ n.place = a /\ n.name = Places!QueryName(p, a) /\ receipts' = receipts \cup {n}
    <3>1. PICK n : n = [id |-> Places!Cardinality(receipts) + 1, prov |-> job[p], place |-> a,
                        name |-> Places!QueryName(p, a), at |-> now, status |-> "pending"]
      OBVIOUS
    <3>2. receipts' = receipts \cup {n}
      BY <1>7, <3>1 DEF Places!Reserve
    <3>3. n.place = a /\ n.name = Places!QueryName(p, a)
      BY <3>1
    <3>4. QED
      BY <3>2, <3>3
  <2>3. \A r \in receipts : r.id # paid'[p]
    <3>1. Cardinality(receipts) \in Nat
      BY FS_CardinalityType DEF PlInv, PlTypes
    <3>2. \A r \in receipts : r.id \in Nat /\ r.id <= Cardinality(receipts)
      BY <1>1 DEF PlNames, Numbered, Places!Receipt
    <3>3. QED
      BY <2>1, <3>1, <3>2
  <2>4. job[p] \in Places!Searches => n.name = name[a]
    BY <2>2 DEF Places!QueryName, Places!Searches
  <2>5. SearchedName'
    BY <1>7, <2>1, <2>2, <2>3, <2>4 DEF SearchedName
  <2>6. QED
    BY <1>4, <2>1, <2>5
<1>8. ASSUME NEW p \in PlProc, Places!Answer(p) PROVE pc'[p] # "call" /\ Right
  <2>1. PICK m : m = Places!MyReceipt(p)
    OBVIOUS
  <2>2. m \in receipts /\ m.id = paid[p] /\ m.place \in PlPlace
    BY <1>1, <1>8, <2>1, OwnReceipt DEF Places!Answer, Places!Receipt
  <2>3. name' = name /\ pc' = [pc EXCEPT ![p] = "loop"] /\ pc[p] = "call"
    BY <1>8 DEF Places!Answer
  <2>4. loc' = loc \/ (job[p] # "komsa" /\ loc' = [loc EXCEPT ![m.place] = Places!Stored(p, m.place)])
    BY <1>8, <2>1 DEF Places!Answer
  <2>5. CASE job[p] # "komsa" /\ loc' = [loc EXCEPT ![m.place] = Places!Stored(p, m.place)]
    <3>1. job[p] \in Places!Searches
      BY <2>3, <2>5 DEF PlInv, RunJobs, Places!Searches
    <3>2. m.name = name[m.place]
      BY <1>2, <2>2, <2>3, <3>1 DEF SearchedName
    <3>3. Places!Stored(p, m.place).src # "none" => Places!Stored(p, m.place).for = name[m.place]
      BY <1>2, <2>1, <2>2, <3>2 DEF Places!Stored, Places!Located
    <3>4. QED
      BY <1>1, <1>2, <2>2, <2>3, <2>5, <3>3
  <2>6. QED
    BY <1>1, <1>4, <2>3, <2>4, <2>5
<1>9. ASSUME NEW p \in PlProc, Places!Upsert(p) PROVE pc'[p] # "call" /\ Right
  <2>1. pc' = [pc EXCEPT ![p] = "idle"]
    BY <1>9 DEF Places!Upsert, Places!End
  <2>2. SUFFICES ASSUME NEW a \in PlPlace, loc'[a].src # "none" PROVE loc'[a].for = name'[a]
    BY <1>1, <2>1
  <2>3. CASE a \notin Places!OfKind(job[p])
    BY <1>2, <1>9, <2>2, <2>3 DEF Places!Upsert
  <2>4. CASE a \in Places!OfKind(job[p])
    <3>1. name'[a] = list[p][a]
      BY <1>9, <2>4 DEF Places!Upsert
    <3>2. PICK n : n = list[p][a]
      OBVIOUS
    <3>3. loc'[a] = IF job[p] = "tago" THEN Places!TerminalLoc(a, n) ELSE Places!PortLoc(p, a, n)
      BY <1>9, <2>4, <3>2 DEF Places!Upsert
    <3>4. Places!TerminalLoc(a, n).src # "none" => Places!TerminalLoc(a, n).for = n
      BY <1>2 DEF Places!TerminalLoc, Places!NoLoc
    <3>5. Places!PortLoc(p, a, n).src # "none" => Places!PortLoc(p, a, n).for = n
      BY <1>2 DEF Places!PortLoc, Places!NoLoc, Places!Located
    <3>6. QED
      BY <2>2, <3>1, <3>2, <3>3, <3>4, <3>5
  <2>5. QED
    BY <2>3, <2>4
<1>10. CASE Places!Tick \/ Places!Open \/ Places!Save
  <2>1. UNCHANGED <<name, receipts, pc, job, paid>>
    BY <1>10 DEF Places!Tick, Places!Open, Places!Save, Places!rowVars, Places!procVars
  <2>2. OneRun' /\ SearchedName'
    BY <1>2, <2>1 DEF OneRun, SearchedName
  <2>3. Right
    <3>1. CASE Places!Save
      <4>1. PICK f \in form :
              loc' = IF Places!Unchanged(f) THEN [loc EXCEPT ![f.place] = Places!Located("manual", f.name)]
                     ELSE loc
        BY <3>1 DEF Places!Save
      <4>2. Places!Unchanged(f) => name[f.place] = f.name
        BY DEF Places!Unchanged
      <4>3. QED
        BY <1>1, <1>2, <2>1, <4>1, <4>2 DEF Places!Located
    <3>2. CASE UNCHANGED loc
      BY <1>4, <2>1, <3>2
    <3>3. QED
      BY <1>10, <3>1, <3>2 DEF Places!Tick, Places!Open, Places!rowVars
  <2>4. QED
    BY <1>3, <2>2, <2>3
<1>11. QED
  BY <1>2, <1>3, <1>4, <1>5, <1>6, <1>7, <1>8, <1>9, <1>10, OneActs

\* While runs do not overlap, the position a row shows was determined for the name it shows.
THEOREM PositionNamed ==
  ASSUME PlaceBounds PROVE Places!Spec => []Places!LocationMatchesName
<1>1. Places!Init => PlInv /\ PlNames
  <2> SUFFICES ASSUME Places!Init PROVE PlNames
    BY PlInit
  <2>1. Numbered
    BY DEF Places!Init, Numbered
  <2>2. OneRun /\ SearchedName
    BY DEF Places!Init, OneRun, SearchedName
  <2>3. Places!LocationMatchesName
    BY DEF Places!Init, Places!LocationMatchesName, Places!NoLoc
  <2>4. QED
    BY <2>1, <2>2, <2>3 DEF PlNames
<1>2. PlInv /\ PlNames /\ [Places!Next]_(Places!vars) => PlInv' /\ PlNames'
  <2> SUFFICES ASSUME PlInv, PlNames, [Places!Next]_(Places!vars) PROVE PlNames'
    BY PlStep
  <2>1. Numbered'
    BY NumberedStep DEF PlNames
  <2>2. CASE PlOverlap
    BY <2>1, <2>2 DEF PlNames, Places!LocationMatchesName
  <2>3. CASE ~ PlOverlap /\ Places!Next
    BY <2>1, <2>3, NamesStep DEF PlNames
  <2>4. CASE UNCHANGED Places!vars
    BY <2>1, <2>4 DEF PlNames, OneRun, SearchedName, Places!LocationMatchesName, Places!vars,
       Places!rowVars, Places!procVars
  <2>5. QED
    BY <2>2, <2>3, <2>4
<1>3. PlNames => Places!LocationMatchesName
  BY DEF PlNames
<1>4. QED
  BY <1>1, <1>2, <1>3, PTL DEF Places!Spec

--------------------------------------------------------------------------------
(* The links between station codes and rail stations.                      *)

Mapping == INSTANCE RailMapping WITH
    Admin <- RmAdmin, Code <- RmCode, Place <- RmPlace, CodeName <- RmCodeName,
    PlaceName <- RmPlaceName, CodeNumber <- RmCodeNumber, PlaceNumber <- RmPlaceNumber,
    Alias <- RmAlias

MappingBounds == Mapping!None \notin RmPlace

\* A list of links gives no station to two codes.
OneToOne(m) == \A c, d \in RmCode : m[c] # Mapping!None /\ m[c] = m[d] => c = d

Revisions == (SUBSET RmCode) \X Mapping!Links \X Mapping!Links \X (SUBSET RmPlace)

\* What a page shows of the list that a revision names.
ShownOf(rev) == Mapping!Visible(rev[1], rev[4], rev[3])

\* A page that is open shows the visible part of the manual list that its revision names.
PagesShown ==
    /\ shown \in [RmAdmin -> {Mapping!NoRevision} \cup (Revisions \X Mapping!Links)]
    /\ \A a \in pages :
          shown[a] \in Revisions \X Mapping!Links /\ shown[a][2] = ShownOf(shown[a][1])

RmInv ==
    /\ Mapping!TypeOK /\ OneToOne(auto) /\ OneToOne(manual) /\ PagesShown
    /\ Mapping!LinksExclusive

\* The automatic links are links, and no two codes share one: a station is found under a name or a
\* number that no other code has.
LEMMA AutomaticOneToOne ==
  ASSUME NEW codes \in SUBSET RmCode, NEW places \in SUBSET RmPlace
  PROVE  /\ Mapping!Automatic(codes, places) \in Mapping!Links
         /\ OneToOne(Mapping!Automatic(codes, places))
<1> DEFINE matches(c) == Mapping!Exact(codes, places, c) \cup Mapping!ByNumber(codes, places, c)
           auto2 == Mapping!Automatic(codes, places)
<1>1. auto2 = [c \in RmCode |->
                 IF c \in codes /\ matches(c) # {} THEN CHOOSE q \in matches(c) : TRUE ELSE Mapping!None]
  BY DEF Mapping!Automatic
<1>2. \A c : matches(c) \subseteq places
  BY DEF Mapping!Exact, Mapping!ByNumber
<1>3. ASSUME NEW c \in RmCode, auto2[c] # Mapping!None
      PROVE  c \in codes /\ auto2[c] \in matches(c)
  <2> HIDE DEF matches
  <2>1. c \in codes /\ matches(c) # {}
    BY <1>1, <1>3
  <2>2. auto2[c] = CHOOSE q \in matches(c) : TRUE
    BY <1>1, <2>1
  <2>3. QED
    BY <2>1, <2>2
<1>4. auto2 \in Mapping!Links
  <2>1. \A c \in RmCode : auto2[c] \in RmPlace \cup {Mapping!None}
    BY <1>2, <1>3
  <2>2. auto2 = [c \in RmCode |-> auto2[c]]
    BY <1>1
  <2>3. QED
    BY <2>1, <2>2 DEF Mapping!Links
<1>5. ASSUME NEW c \in RmCode, NEW d \in RmCode, auto2[c] # Mapping!None, auto2[c] = auto2[d], c # d
      PROVE  FALSE
  <2>1. PICK q : q = auto2[c]
    OBVIOUS
  <2>2. c \in codes /\ d \in codes /\ q \in matches(c) /\ q \in matches(d)
    BY <1>3, <1>5, <2>1
  <2>3. CASE q \in Mapping!Exact(codes, places, c)
    <3>1. q \notin Mapping!ByNumber(codes, places, d)
      BY <2>2, <2>3 DEF Mapping!ByNumber
    <3>2. q \notin Mapping!Exact(codes, places, d)
      BY <1>5, <2>2, <2>3 DEF Mapping!Exact
    <3>3. QED
      BY <2>2, <3>1, <3>2
  <2>4. CASE q \in Mapping!ByNumber(codes, places, c)
    <3>1. q \notin Mapping!Exact(codes, places, d)
      BY <2>2, <2>4 DEF Mapping!ByNumber
    <3>2. q \notin Mapping!ByNumber(codes, places, d)
      BY <1>5, <2>2, <2>4 DEF Mapping!ByNumber
    <3>3. QED
      BY <2>2, <3>1, <3>2
  <2>5. QED
    BY <2>2, <2>3, <2>4
<1>6. OneToOne(auto2)
  BY <1>5 DEF OneToOne
<1>7. QED
  BY <1>4, <1>6

\* The manual links reserve their stations: together with automatic ones, no two codes share one.
LEMMA EffectiveOneToOne ==
  ASSUME MappingBounds, NEW codes \in SUBSET RmCode, NEW places \in SUBSET RmPlace,
         NEW a \in Mapping!Links, OneToOne(a), NEW m \in Mapping!Links, OneToOne(m)
  PROVE  /\ Mapping!Effective(codes, places, a, m) \in Mapping!Links
         /\ OneToOne(Mapping!Effective(codes, places, a, m))
         /\ \A c \in RmCode :
                Mapping!Effective(codes, places, a, m)[c] \in {Mapping!None, a[c], m[c]}
<1> DEFINE fixed == {c \in codes : m[c] \in places}
           reserved == {m[c] : c \in fixed}
           e == Mapping!Effective(codes, places, a, m)
<1>1. e = [c \in RmCode |-> CASE c \in fixed -> m[c]
                              [] c \in codes \ fixed /\ a[c] \notin reserved -> a[c]
                              [] OTHER -> Mapping!None]
  BY DEF Mapping!Effective
<1>2. \A c \in RmCode :
        \/ c \in fixed /\ e[c] = m[c]
        \/ c \notin fixed /\ a[c] \notin reserved /\ e[c] = a[c]
        \/ e[c] = Mapping!None
  <2> HIDE DEF fixed, reserved, e
  <2>1. QED
    BY <1>1
<1>3. \A c \in RmCode : e[c] \in {Mapping!None, a[c], m[c]}
  BY <1>2
<1>4. e \in Mapping!Links
  <2>1. \A c \in RmCode : e[c] \in RmPlace \cup {Mapping!None}
    BY <1>3 DEF Mapping!Links
  <2>2. e = [c \in RmCode |-> e[c]]
    BY <1>1
  <2>3. QED
    BY <2>1, <2>2 DEF Mapping!Links
<1>5. OneToOne(e)
  <2> SUFFICES ASSUME NEW c \in RmCode, NEW d \in RmCode, e[c] # Mapping!None, e[c] = e[d]
               PROVE  c = d
    BY DEF OneToOne
  <2>1. CASE c \in fixed /\ d \in fixed
    BY <1>2, <2>1 DEF OneToOne
  <2>2. CASE c \notin fixed /\ d \notin fixed
    BY <1>2, <2>2 DEF OneToOne
  <2>3. CASE c \in fixed /\ d \notin fixed
    <3>1. e[c] \in reserved /\ e[d] \notin reserved
      BY <1>2, <2>3
    <3>2. QED
      BY <3>1
  <2>4. CASE c \notin fixed /\ d \in fixed
    <3>1. e[d] \in reserved /\ e[c] \notin reserved
      BY <1>2, <2>4
    <3>2. QED
      BY <3>1
  <2>5. QED
    BY <2>1, <2>2, <2>3, <2>4
<1>6. QED
  BY <1>3, <1>4, <1>5

\* There are no codes and no pages initially.
LEMMA RmInit == MappingBounds /\ Mapping!Init => RmInv
<1> SUFFICES ASSUME MappingBounds, Mapping!Init PROVE RmInv
  OBVIOUS
<1> USE DEF Mapping!Init, Mapping!Empty
<1>1. Mapping!TypeOK
  BY DEF Mapping!TypeOK, Mapping!Links
<1>2. OneToOne(auto) /\ OneToOne(manual)
  BY DEF OneToOne
<1>3. PagesShown
  BY DEF PagesShown
<1>4. Mapping!LinksExclusive
  BY DEF Mapping!LinksExclusive
<1>5. QED
  BY <1>1, <1>2, <1>3, <1>4 DEF RmInv

\* The automatic part as it is read.
LEMMA LoadedLinks ==
  ASSUME RmInv
  PROVE  Mapping!LoadedAuto \in Mapping!Links /\ OneToOne(Mapping!LoadedAuto)
<1>1. active \in SUBSET RmCode /\ known \in SUBSET RmPlace /\ auto \in Mapping!Links /\ OneToOne(auto)
  BY DEF RmInv, Mapping!TypeOK
<1>2. /\ Mapping!Automatic(active, known) \in Mapping!Links
      /\ OneToOne(Mapping!Automatic(active, known))
  BY <1>1, AutomaticOneToOne
<1>3. Mapping!LoadedAuto = Mapping!Automatic(active, known) \/ Mapping!LoadedAuto = auto
  BY DEF Mapping!LoadedAuto
<1>4. QED
  BY <1>1, <1>2, <1>3

\* The links after a step that sets them from a list of codes, stations and both parts.
LEMMA LinksSet ==
  ASSUME MappingBounds, NEW codes \in SUBSET RmCode, NEW places \in SUBSET RmPlace,
         NEW a \in Mapping!Links, OneToOne(a), NEW m \in Mapping!Links, OneToOne(m),
         auto' = a, manual' = m, link' = Mapping!Effective(codes, places, a, m)
  PROVE  /\ auto' \in Mapping!Links /\ manual' \in Mapping!Links /\ link' \in Mapping!Links
         /\ OneToOne(auto)' /\ OneToOne(manual)' /\ Mapping!LinksExclusive'
<1>1. /\ link' \in Mapping!Links /\ OneToOne(link')
      /\ \A c \in RmCode : link'[c] \in {Mapping!None, a[c], m[c]}
  BY EffectiveOneToOne
<1>2. QED
  BY <1>1 DEF OneToOne, Mapping!LinksExclusive

\* Closing a page.
LEMMA PageClosed ==
  ASSUME RmInv, NEW a \in RmAdmin, pages' = pages \ {a},
         shown' = [shown EXCEPT ![a] = Mapping!NoRevision],
         offered' = [offered EXCEPT ![a] = Mapping!Empty]
  PROVE  pages' \subseteq RmAdmin /\ offered' \in [RmAdmin -> Mapping!Links] /\ PagesShown'
<1>1. /\ shown \in [RmAdmin -> {Mapping!NoRevision} \cup (Revisions \X Mapping!Links)]
      /\ \A b \in pages :
            shown[b] \in Revisions \X Mapping!Links /\ shown[b][2] = ShownOf(shown[b][1])
      /\ pages \subseteq RmAdmin
  BY DEF RmInv, PagesShown, Mapping!TypeOK
<1>2. shown' \in [RmAdmin -> {Mapping!NoRevision} \cup (Revisions \X Mapping!Links)]
  BY <1>1
<1>3. \A b \in pages' : shown'[b] = shown[b]
  BY <1>1
<1>4. \A b \in pages' :
        shown'[b] \in Revisions \X Mapping!Links /\ shown'[b][2] = ShownOf(shown'[b][1])
  BY <1>1, <1>3
<1>5. PagesShown'
  BY <1>2, <1>4 DEF PagesShown, ShownOf, Mapping!Visible, Revisions, Mapping!Links
<1>6. offered' \in [RmAdmin -> Mapping!Links]
  BY DEF RmInv, Mapping!TypeOK, Mapping!Empty, Mapping!Links
<1>7. QED
  BY <1>1, <1>5, <1>6

\* Every step of the batch, the collection and the pages keeps the invariant.
LEMMA RmStep == MappingBounds /\ RmInv /\ [Mapping!Next]_(Mapping!vars) => RmInv'
<1> SUFFICES ASSUME MappingBounds, RmInv, [Mapping!Next]_(Mapping!vars) PROVE RmInv'
  OBVIOUS
<1>1. /\ active \in SUBSET RmCode /\ known \in SUBSET RmPlace /\ reading \in SUBSET RmPlace
      /\ auto \in Mapping!Links /\ manual \in Mapping!Links /\ link \in Mapping!Links
      /\ OneToOne(auto) /\ OneToOne(manual)
  BY DEF RmInv, Mapping!TypeOK
<1>2. ASSUME UNCHANGED <<auto, manual, link>>
      PROVE  OneToOne(auto)' /\ OneToOne(manual)' /\ Mapping!LinksExclusive'
  BY <1>2 DEF RmInv, OneToOne, Mapping!LinksExclusive
<1>3. ASSUME UNCHANGED <<shown, offered, pages>> PROVE PagesShown'
  BY <1>3 DEF RmInv, PagesShown, ShownOf, Mapping!Visible, Revisions, Mapping!Links
<1>4. CASE \/ Mapping!SyncRead \/ Mapping!SyncFails \/ Mapping!UpsertStation
           \/ UNCHANGED Mapping!vars
  <2>1. UNCHANGED <<active, auto, manual, link, shown, offered, pages>>
    BY <1>4 DEF Mapping!SyncRead, Mapping!SyncFails, Mapping!UpsertStation, Mapping!vars
  <2>2. known' \subseteq RmPlace /\ reading' \subseteq known'
    BY <1>4 DEF Mapping!SyncRead, Mapping!SyncFails, Mapping!UpsertStation, Mapping!vars, RmInv,
       Mapping!TypeOK
  <2>3. batch' \in BOOLEAN
    <3>1. batch \in BOOLEAN
      BY DEF RmInv, Mapping!TypeOK
    <3>2. batch' = batch \/ batch' = TRUE \/ batch' = FALSE
      BY <1>4 DEF Mapping!SyncRead, Mapping!SyncFails, Mapping!UpsertStation, Mapping!vars
    <3>3. QED
      BY <3>1, <3>2, Zenon
  <2>4. Mapping!TypeOK'
    BY <2>1, <2>2, <2>3 DEF Mapping!TypeOK, RmInv, Mapping!Links
  <2>5. QED
    BY <1>2, <1>3, <2>1, <2>4 DEF RmInv
<1>5. CASE Mapping!SyncCommit
  <2>1. PICK codes \in SUBSET RmCode :
          /\ active' = codes /\ auto' = Mapping!Automatic(codes, reading) /\ manual' = manual
          /\ link' = Mapping!Effective(codes, reading, Mapping!Automatic(codes, reading), manual)
    BY <1>5 DEF Mapping!SyncCommit
  <2>2. /\ Mapping!Automatic(codes, reading) \in Mapping!Links
        /\ OneToOne(Mapping!Automatic(codes, reading))
    BY <1>1, AutomaticOneToOne
  <2>3. /\ auto' \in Mapping!Links /\ manual' \in Mapping!Links /\ link' \in Mapping!Links
        /\ OneToOne(auto)' /\ OneToOne(manual)' /\ Mapping!LinksExclusive'
    BY <1>1, <2>1, <2>2, LinksSet
  <2>4. UNCHANGED <<known, shown, offered, pages>> /\ reading' = {}
    BY <1>5 DEF Mapping!SyncCommit
  <2>5. batch' \in BOOLEAN
    BY <1>5 DEF Mapping!SyncCommit
  <2>6. Mapping!TypeOK'
    BY <2>1, <2>3, <2>4, <2>5 DEF Mapping!TypeOK, RmInv, Mapping!Links
  <2>7. QED
    BY <1>3, <2>3, <2>4, <2>6 DEF RmInv
<1>6. CASE \E a \in RmAdmin : Mapping!Open(a)
  <2>1. PICK a \in RmAdmin : Mapping!Open(a)
    BY <1>6
  <2>2. UNCHANGED <<active, link, known, auto, manual, reading, batch>>
    BY <2>1 DEF Mapping!Open
  <2>3. PICK read \in {Mapping!LoadedAuto, auto} :
          shown' = [shown EXCEPT ![a] =
              <<Mapping!Revision(read), Mapping!Visible(active, known, manual)>>]
    BY <2>1 DEF Mapping!Open
  <2>4. read \in Mapping!Links
    BY <1>1, <2>3, LoadedLinks
  <2>5. Mapping!Revision(read) = <<active, read, manual, known>>
    BY DEF Mapping!Revision
  <2>6. /\ <<Mapping!Revision(read), Mapping!Visible(active, known, manual)>>
                \in Revisions \X Mapping!Links
        /\ Mapping!Visible(active, known, manual) = ShownOf(Mapping!Revision(read))
    <3>1. Mapping!Visible(active, known, manual) \in Mapping!Links
      BY <1>1 DEF Mapping!Visible, Mapping!Links
    <3>2. QED
      BY <1>1, <2>4, <2>5, <3>1 DEF Revisions, ShownOf
  <2>7. PagesShown'
    <3>1. /\ shown \in [RmAdmin -> {Mapping!NoRevision} \cup (Revisions \X Mapping!Links)]
          /\ \A b \in pages :
                shown[b] \in Revisions \X Mapping!Links /\ shown[b][2] = ShownOf(shown[b][1])
      BY DEF RmInv, PagesShown
    <3>2. pages' = pages \cup {a} /\ pages \subseteq RmAdmin
      BY <2>1 DEF Mapping!Open, RmInv, Mapping!TypeOK
    <3>3. shown' \in [RmAdmin -> {Mapping!NoRevision} \cup (Revisions \X Mapping!Links)]
      BY <2>3, <2>6, <3>1
    <3>4. /\ shown'[a] = <<Mapping!Revision(read), Mapping!Visible(active, known, manual)>>
          /\ \A b \in pages \ {a} : shown'[b] = shown[b]
      BY <2>3, <3>1, <3>2
    <3>5. shown'[a][2] = ShownOf(shown'[a][1])
      BY <2>6, <3>4
    <3>6. \A b \in pages' :
            shown'[b] \in Revisions \X Mapping!Links /\ shown'[b][2] = ShownOf(shown'[b][1])
      BY <2>6, <3>1, <3>2, <3>4, <3>5
    <3>7. QED
      BY <3>3, <3>6 DEF PagesShown, ShownOf, Mapping!Visible, Revisions, Mapping!Links
  <2>8. Mapping!Automatic(active, known) \in Mapping!Links
    BY <1>1, AutomaticOneToOne
  <2>9. offered' \in [RmAdmin -> Mapping!Links] /\ pages' \subseteq RmAdmin
    BY <2>1, <2>8 DEF Mapping!Open, RmInv, Mapping!TypeOK
  <2>10. Mapping!TypeOK'
    BY <2>2, <2>9 DEF Mapping!TypeOK, RmInv, Mapping!Links
  <2>11. QED
    BY <1>2, <2>2, <2>7, <2>10 DEF RmInv
<1>7. CASE \E a \in RmAdmin : Mapping!Leave(a) \/ Mapping!Save(a) \/ Mapping!Apply(a)
  <2>1. PICK a \in RmAdmin : Mapping!Leave(a) \/ Mapping!Save(a) \/ Mapping!Apply(a)
    BY <1>7
  <2>2. /\ pages' = pages \ {a} /\ shown' = [shown EXCEPT ![a] = Mapping!NoRevision]
        /\ offered' = [offered EXCEPT ![a] = Mapping!Empty]
        /\ UNCHANGED <<active, known, reading, batch>>
    BY <2>1 DEF Mapping!Leave, Mapping!Save, Mapping!Apply
  <2>3. pages' \subseteq RmAdmin /\ offered' \in [RmAdmin -> Mapping!Links] /\ PagesShown'
    BY <2>2, PageClosed
  <2>4. /\ auto' \in Mapping!Links /\ manual' \in Mapping!Links /\ link' \in Mapping!Links
        /\ OneToOne(auto)' /\ OneToOne(manual)' /\ Mapping!LinksExclusive'
    <3>1. CASE Mapping!Leave(a)
      <4>1. UNCHANGED <<auto, manual, link>>
        BY <3>1 DEF Mapping!Leave
      <4>2. QED
        BY <1>1, <1>2, <4>1
    <3>2. CASE Mapping!Save(a)
      <4>1. PICK m \in Mapping!ValidManual :
              manual' = m /\ link' = Mapping!Effective(active, known, Mapping!LoadedAuto, m)
        BY <3>2 DEF Mapping!Save
      <4>2. m \in Mapping!Links /\ OneToOne(m)
        BY <4>1 DEF Mapping!ValidManual, Mapping!IsInjective, OneToOne
      <4>3. auto' = Mapping!LoadedAuto
        BY <3>2 DEF Mapping!Save
      <4>4. QED
        BY <1>1, <4>1, <4>2, <4>3, LoadedLinks, LinksSet
    <3>3. CASE Mapping!Apply(a)
      <4>1. /\ auto' = Mapping!Automatic(active, known) /\ manual' = manual
            /\ link' = Mapping!Effective(active, known, Mapping!Automatic(active, known), manual)
        BY <3>3 DEF Mapping!Apply
      <4>2. /\ Mapping!Automatic(active, known) \in Mapping!Links
            /\ OneToOne(Mapping!Automatic(active, known))
        BY <1>1, AutomaticOneToOne
      <4>3. QED
        BY <1>1, <4>1, <4>2, LinksSet
    <3>4. QED
      BY <2>1, <3>1, <3>2, <3>3
  <2>5. Mapping!TypeOK'
    BY <2>2, <2>3, <2>4 DEF Mapping!TypeOK, RmInv, Mapping!Links
  <2>6. QED
    BY <2>3, <2>4, <2>5 DEF RmInv
<1>8. QED
  BY <1>4, <1>5, <1>6, <1>7 DEF Mapping!Next

\* No station has two codes, and every link is one of the registry's.
THEOREM MappingExclusive ==
  ASSUME MappingBounds PROVE Mapping!Spec => [](Mapping!TypeOK /\ Mapping!LinksExclusive)
<1>1. Mapping!Init => RmInv
  BY RmInit
<1>2. RmInv /\ [Mapping!Next]_(Mapping!vars) => RmInv'
  BY RmStep
<1>3. RmInv => Mapping!TypeOK /\ Mapping!LinksExclusive
  BY DEF RmInv
<1>4. QED
  BY <1>1, <1>2, <1>3, PTL DEF Mapping!Spec

\* A manual link that a page would show is changed or dropped only from a page that showed it, although
\* a save replaces the whole list (get_rail_station_mappings, save_rail_station_mappings).
THEOREM ManualShown ==
  ASSUME MappingBounds PROVE Mapping!Spec => [][Mapping!NoLostEdit]_(Mapping!vars)
<1>1. Mapping!Init => RmInv
  BY RmInit
<1>2. RmInv /\ [Mapping!Next]_(Mapping!vars) => RmInv'
  BY RmStep
<1>3. RmInv /\ [Mapping!Next]_(Mapping!vars) => [Mapping!NoLostEdit]_(Mapping!vars)
  <2> SUFFICES ASSUME RmInv, Mapping!Next, NEW c \in RmCode,
                      Mapping!Visible(active, known, manual)[c] # Mapping!None,
                      manual'[c] # manual[c]
               PROVE  \E a \in pages \ pages' : shown[a][2][c] = manual[c]
    BY DEF Mapping!NoLostEdit
  <2>1. PICK a \in RmAdmin : Mapping!Save(a)
    <3>1. manual' # manual
      OBVIOUS
    <3>2. QED
      BY <3>1 DEF Mapping!Next, Mapping!SyncRead, Mapping!SyncCommit, Mapping!SyncFails,
         Mapping!UpsertStation, Mapping!Open, Mapping!Leave, Mapping!Apply
  <2>2. a \in pages \ pages' /\ shown[a][1] = <<active, Mapping!LoadedAuto, manual, known>>
    BY <2>1 DEF Mapping!Save, Mapping!Revision
  <2>3. shown[a][2] = Mapping!Visible(active, known, manual)
    BY <2>2 DEF RmInv, PagesShown, ShownOf
  <2>4. shown[a][2][c] = manual[c]
    BY <2>3 DEF Mapping!Visible
  <2>5. QED
    BY <2>2, <2>4
<1>4. QED
  BY <1>1, <1>2, <1>3, PTL DEF Mapping!Spec

--------------------------------------------------------------------------------
(* Stored timetables.                                                      *)

Times == INSTANCE Timetables WITH
    Kind <- TtKind, Proc <- TtProc, Worker <- TtWorker, Date <- TtDate,
    StorageDays <- TtStorageDays, CacheTtl <- TtCacheTtl, MinInterval <- TtMinInterval,
    Backoff <- TtBackoff, MaxCalls <- TtCalls, MaxErrors <- TtErrors, DayLength <- TtDayLength,
    MaxTime <- TtTime

TimesBounds ==
    /\ TtTime \in Nat /\ TtCalls \in Nat /\ TtBackoff \in Nat /\ TtErrors \in Nat \ {0}
    /\ TtMinInterval \in Nat
    /\ Times!Nobody \notin TtProc

Since0 == {Times!None} \cup 0..TtTime

TtTypes ==
    /\ Times!TypeOK
    /\ at \in [TtProc -> TtWorker \cup {Times!Nobody}]
    /\ date \in [TtProc -> TtDate \cup {Times!None}]
    /\ last \in [TtWorker -> Since0] /\ limited \in [TtWorker -> Int]
    /\ called \in [TtWorker -> Since0] /\ refused \in [TtWorker -> Since0]
    /\ seen \in [TtDate -> Since0]

\* Nothing stored or called is of the future; the intervals of a worker count from its own calls and
\* refusals; a request beyond the first checks has its worker and its date; a collection that has
\* dates left has not had its errors.  What a running collection has read is from before its start,
\* the answer it has not stored from after it.
TtTimes ==
    /\ \A d \in TtDate : row[d] <= now
    /\ \A w \in TtWorker :
          /\ called[w] = last[w]
          /\ refused[w] # Times!None => limited[w] = refused[w] + TtBackoff
    /\ \A p \in TtProc : pc[p] # "idle" => at[p] \in TtWorker /\ date[p] \in TtDate
    /\ left # {} => used >= 0 /\ errors < TtErrors
    /\ used # -1 => TtKind = "ferry" /\ start \in 0..now /\ \A d \in TtDate : seen[d] <= start
    /\ stamped # Times!None => left # {} /\ stamped \in start..now

TtInv == TtTypes /\ TtTimes

\* Nothing is stored and nobody has called initially.
LEMMA TtInit == TimesBounds /\ Times!Init => TtInv
<1> SUFFICES ASSUME TimesBounds, Times!Init PROVE TtInv
  OBVIOUS
<1> USE DEF TimesBounds, Times!Init, Times!None
<1>1. Times!TypeOK
  BY DEF Times!TypeOK, Times!NoDates
<1>2. TtTypes
  BY <1>1 DEF TtTypes, Since0
<1>3. TtTimes
  BY DEF TtTimes, Times!NoDates
<1>4. QED
  BY <1>2, <1>3 DEF TtInv

\* The steps of a request.
LEMMA TtRequests ==
  ASSUME TimesBounds, TtInv, NEW p \in TtProc,
         \/ \E w \in TtWorker, d \in TtDate : Times!Request(p, w, d)
         \/ Times!Refused(p) \/ Times!Call(p) \/ Times!CallFails(p)
         \/ \E t \in 0..TtTime : Times!CallOk(p, t)
  PROVE  TtInv'
<1> USE DEF TimesBounds, TtInv
<1>1. /\ now \in 0..TtTime /\ row \in [TtDate -> Since0]
      /\ pc \in [TtProc -> {"idle", "waiting", "call"}]
      /\ lock \in [TtWorker -> TtProc \cup {Times!Nobody}]
      /\ at \in [TtProc -> TtWorker \cup {Times!Nobody}]
      /\ date \in [TtProc -> TtDate \cup {Times!None}]
      /\ last \in [TtWorker -> Since0] /\ limited \in [TtWorker -> Int]
      /\ called \in [TtWorker -> Since0] /\ refused \in [TtWorker -> Since0]
      /\ seen \in [TtDate -> Since0]
  BY DEF TtTypes, Times!TypeOK, Since0
<1>2. UNCHANGED <<now, left, used, errors, seen, start, stamped>>
  BY DEF Times!Request, Times!Refused, Times!Call, Times!CallFails, Times!CallOk,
     Times!collectorVars
<1>3. ASSUME NEW w \in TtWorker, NEW d \in TtDate, Times!Request(p, w, d) PROVE TtInv'
  <2>1. /\ pc' = [pc EXCEPT ![p] = "waiting"] /\ at' = [at EXCEPT ![p] = w]
        /\ date' = [date EXCEPT ![p] = d]
        /\ UNCHANGED <<row, lock, last, limited, called, refused>>
    BY <1>3 DEF Times!Request, Times!workerVars
  <2>2. Times!TypeOK'
    BY <1>1, <1>2, <2>1 DEF Times!TypeOK, TtTypes
  <2>3. TtTypes'
    BY <1>1, <1>2, <2>1, <2>2 DEF TtTypes, Since0
  <2>4. TtTimes'
    BY <1>1, <1>2, <2>1 DEF TtTimes
  <2>5. QED
    BY <2>3, <2>4
<1>4. ASSUME Times!Leave(p), \A d \in TtDate : row'[d] \in Since0 /\ row'[d] <= now,
             row' \in [TtDate -> Since0],
             lock' \in [TtWorker -> TtProc \cup {Times!Nobody}],
             UNCHANGED <<last, called>>,
             \/ UNCHANGED <<limited, refused>>
             \/ \E w \in TtWorker : /\ limited' = [limited EXCEPT ![w] = now + TtBackoff]
                                    /\ refused' = [refused EXCEPT ![w] = now]
      PROVE  TtInv'
  <2>1. pc' \in [TtProc -> {"idle", "waiting", "call"}]
    BY <1>1, <1>4 DEF Times!Leave
  <2>2. Times!TypeOK'
    BY <1>2, <1>4, <2>1 DEF Times!TypeOK, TtTypes, Since0
  <2>3. /\ at' \in [TtProc -> TtWorker \cup {Times!Nobody}]
        /\ date' \in [TtProc -> TtDate \cup {Times!None}]
    BY <1>1, <1>4 DEF Times!Leave
  <2>4. limited' \in [TtWorker -> Int] /\ refused' \in [TtWorker -> Since0]
    BY <1>1, <1>4 DEF Since0
  <2>5. TtTypes'
    BY <1>1, <1>2, <1>4, <2>2, <2>3, <2>4 DEF TtTypes, Since0
  <2>6. \A w \in TtWorker : refused'[w] # Times!None => limited'[w] = refused'[w] + TtBackoff
    <3>1. CASE UNCHANGED <<limited, refused>>
      BY <3>1 DEF TtTimes
    <3>2. CASE \E w \in TtWorker : /\ limited' = [limited EXCEPT ![w] = now + TtBackoff]
                                   /\ refused' = [refused EXCEPT ![w] = now]
      BY <1>1, <3>2 DEF TtTimes
    <3>3. QED
      BY <1>4, <3>1, <3>2
  <2>7. \A q \in TtProc : pc'[q] # "idle" => at'[q] \in TtWorker /\ date'[q] \in TtDate
    BY <1>1, <1>4 DEF Times!Leave, TtTimes
  <2>8. TtTimes'
    BY <1>2, <1>4, <2>6, <2>7 DEF TtTimes
  <2>9. QED
    BY <2>5, <2>8
<1>5. CASE Times!Refused(p)
  <2>1. Times!Leave(p) /\ UNCHANGED <<row, lock, last, limited, called, refused>>
    BY <1>5 DEF Times!Refused, Times!workerVars
  <2>2. QED
    BY <1>1, <1>4, <2>1 DEF TtTimes
<1>6. CASE Times!Call(p)
  <2>1. pc[p] = "waiting" /\ at[p] \in TtWorker
    BY <1>6 DEF Times!Call, TtTimes
  <2>2. /\ lock' = [lock EXCEPT ![at[p]] = p] /\ last' = [last EXCEPT ![at[p]] = now]
        /\ called' = [called EXCEPT ![at[p]] = now] /\ pc' = [pc EXCEPT ![p] = "call"]
        /\ UNCHANGED <<row, limited, at, date, refused>>
    BY <1>6 DEF Times!Call
  <2>3. Times!TypeOK'
    BY <1>1, <1>2, <2>1, <2>2 DEF Times!TypeOK, TtTypes
  <2>4. TtTypes'
    BY <1>1, <1>2, <2>1, <2>2, <2>3 DEF TtTypes, Since0
  <2>5. TtTimes'
    BY <1>1, <1>2, <2>1, <2>2 DEF TtTimes
  <2>6. QED
    BY <2>4, <2>5
<1>7. CASE Times!CallFails(p)
  <2>1. at[p] \in TtWorker
    BY <1>7 DEF Times!CallFails, TtTimes
  <2>2. /\ Times!Leave(p) /\ lock' = [lock EXCEPT ![at[p]] = Times!Nobody]
        /\ UNCHANGED <<row, last, called>>
    BY <1>7 DEF Times!CallFails
  <2>3. \/ UNCHANGED <<limited, refused>>
        \/ \E w \in TtWorker : /\ limited' = [limited EXCEPT ![w] = now + TtBackoff]
                               /\ refused' = [refused EXCEPT ![w] = now]
    BY <1>7, <2>1 DEF Times!CallFails
  <2>4. QED
    BY <1>1, <1>4, <2>1, <2>2, <2>3 DEF TtTimes
<1>8. ASSUME NEW t \in 0..TtTime, Times!CallOk(p, t) PROVE TtInv'
  <2>1. at[p] \in TtWorker /\ date[p] \in TtDate
    BY <1>8 DEF Times!CallOk, TtTimes
  <2>2. /\ Times!Leave(p) /\ lock' = [lock EXCEPT ![at[p]] = Times!Nobody]
        /\ UNCHANGED <<last, limited, called, refused>>
    BY <1>8 DEF Times!CallOk
  <2>3. t <= now /\ t \in Since0
    BY <1>1, <1>8, <2>1 DEF Times!CallOk, Since0, Times!None
  <2>4. PICK n \in {t, row[date[p]]} : row' = row \/ row' = [row EXCEPT ![date[p]] = n]
    BY <1>8 DEF Times!CallOk, Times!BusRow
  <2>5. n \in Since0 /\ n <= now
    BY <1>1, <2>1, <2>3, <2>4 DEF TtTimes
  <2>6. row' \in [TtDate -> Since0] /\ \A d \in TtDate : row'[d] <= now
    BY <1>1, <2>1, <2>4, <2>5 DEF TtTimes
  <2>7. QED
    BY <1>1, <1>4, <2>1, <2>2, <2>6
<1>9. QED
  BY <1>3, <1>5, <1>6, <1>7, <1>8

\* The steps of the collector and of time.
LEMMA TtCollector ==
  ASSUME TimesBounds, TtInv,
         \/ Times!Tick \/ Times!CollectorBegin \/ Times!CollectorEnd \/ UNCHANGED Times!vars
         \/ \E d \in TtDate : Times!CollectorSkip(d) \/ Times!CollectorCall(d) \/ Times!CollectorStore(d)
  PROVE  TtInv'
<1> USE DEF TimesBounds, TtInv
<1>1. /\ now \in 0..TtTime /\ row \in [TtDate -> Since0] /\ used \in -1..TtCalls
      /\ left \subseteq TtDate /\ errors \in 0..TtErrors
      /\ start \in Since0 /\ stamped \in Since0 /\ seen \in [TtDate -> Since0]
      /\ \A d \in TtDate : row[d] <= now
      /\ left # {} => used >= 0 /\ errors < TtErrors
      /\ used # -1 => TtKind = "ferry" /\ start \in 0..now /\ \A d \in TtDate : seen[d] <= start
      /\ stamped # Times!None => left # {} /\ stamped \in start..now
  BY DEF TtTypes, TtTimes, Times!TypeOK, Since0
<1>2. UNCHANGED <<lock, last, limited, pc, at, date, called, refused>>
  BY DEF Times!Tick, Times!CollectorBegin, Times!CollectorEnd, Times!CollectorSkip,
     Times!CollectorCall, Times!CollectorStore, Times!vars, Times!workerVars, Times!procVars
\* What a step of the collector has to show.
<1> DEFINE Kept == /\ row' \in [TtDate -> Since0] /\ \A d \in TtDate : row'[d] <= now
                   /\ left' \subseteq TtDate /\ used' \in -1..TtCalls /\ errors' \in 0..TtErrors
                   /\ start' \in Since0 /\ stamped' \in Since0 /\ seen' \in [TtDate -> Since0]
                   /\ left' # {} => used' >= 0 /\ errors' < TtErrors
                   /\ used' # -1 => TtKind = "ferry" /\ start' \in 0..now /\ \A d \in TtDate : seen'[d] <= start'
                   /\ stamped' # Times!None => left' # {} /\ stamped' \in start'..now
                   /\ now' \in {now, now + 1} /\ now' \in 0..TtTime
<1>3. ASSUME Kept PROVE TtInv'
  <2>1. Times!TypeOK'
    BY <1>2, <1>3 DEF Times!TypeOK, TtTypes, Since0
  <2>2. TtTypes'
    BY <1>2, <1>3, <2>1 DEF TtTypes, Since0
  <2>3. \A d \in TtDate : row'[d] <= now'
    BY <1>1, <1>3 DEF Since0, Times!None
  <2>4. /\ used' # -1 => TtKind = "ferry" /\ start' \in 0..now' /\ \A d \in TtDate : seen'[d] <= start'
        /\ stamped' # Times!None => left' # {} /\ stamped' \in start'..now'
    BY <1>1, <1>3 DEF Since0, Times!None
  <2>5. TtTimes'
    BY <1>2, <1>3, <2>3, <2>4 DEF TtTimes
  <2>6. QED
    BY <2>2, <2>5
<1>4. CASE Times!Tick \/ UNCHANGED Times!vars
  BY <1>1, <1>3, <1>4 DEF Times!Tick, Times!vars, Times!collectorVars
<1>5. CASE Times!CollectorBegin
  <2>1. /\ row' = [d \in TtDate |-> IF Times!InRange(d) THEN row[d] ELSE Times!None]
        /\ seen' = row' /\ start' = now /\ used' = 0 /\ errors' = 0 /\ used = -1
        /\ TtKind = "ferry"
        /\ left' \subseteq TtDate /\ UNCHANGED <<now, stamped>>
    BY <1>5 DEF Times!CollectorBegin
  <2>2. row' \in [TtDate -> Since0] /\ \A d \in TtDate : row'[d] <= now
    BY <1>1, <2>1 DEF Since0, Times!None
  <2>3. stamped' = Times!None
    BY <1>1, <2>1
  <2>4. seen' \in [TtDate -> Since0] /\ \A d \in TtDate : seen'[d] <= start'
    BY <2>1, <2>2
  <2>5. /\ start' \in 0..now /\ start' \in Since0 /\ stamped' \in Since0
        /\ now' \in {now, now + 1} /\ now' \in 0..TtTime
    BY <1>1, <2>1 DEF Since0
  <2>6. used' \in -1..TtCalls /\ errors' \in 0..TtErrors /\ used' >= 0 /\ errors' < TtErrors
    BY <2>1
  <2>7. Kept
    BY <2>1, <2>2, <2>3, <2>4, <2>5, <2>6
  <2>8. QED
    BY <1>3, <2>7
<1>6. CASE Times!CollectorEnd
  <2>1. /\ left = {} /\ used' = -1 /\ errors' = 0 /\ seen' = [d \in TtDate |-> Times!None]
        /\ start' = Times!None /\ UNCHANGED <<now, row, left, stamped>>
    BY <1>6 DEF Times!CollectorEnd, Times!NoDates
  <2>2. Kept
    BY <1>1, <2>1 DEF Since0
  <2>3. QED
    BY <1>3, <2>2
<1>7. ASSUME NEW d \in TtDate, Times!CollectorSkip(d) PROVE TtInv'
  <2>1. stamped = Times!None /\ d \in left /\ left' = left \ {d}
        /\ UNCHANGED <<now, row, seen, used, errors, start, stamped>>
    BY <1>7 DEF Times!CollectorSkip, Times!Turn
  <2>2. Kept
    BY <1>1, <2>1
  <2>3. QED
    BY <1>3, <2>2
<1>8. ASSUME NEW d \in TtDate, Times!CollectorCall(d) PROVE TtInv'
  <2>1. /\ stamped = Times!None /\ d \in left /\ used < TtCalls /\ used' = used + 1
        /\ UNCHANGED <<now, row, seen, start>>
    BY <1>8 DEF Times!CollectorCall, Times!Turn
  <2>2. \/ stamped' = now /\ errors' = 0 /\ left' = left
        \/ /\ errors' = errors + 1 /\ stamped' = stamped
           /\ left' = IF errors + 1 >= TtErrors THEN {} ELSE left \ {d}
        \/ left' = {} /\ errors' = errors /\ stamped' = stamped
    BY <1>8 DEF Times!CollectorCall, Times!NoDates
  <2>3. used >= 0 /\ errors < TtErrors /\ start \in 0..now /\ used # -1
    BY <1>1, <2>1
  <2>4. /\ left' \subseteq TtDate /\ errors' \in 0..TtErrors /\ stamped' \in Since0
        /\ left' # {} => errors' < TtErrors
        /\ stamped' # Times!None => left' # {} /\ stamped' \in start..now
    BY <1>1, <2>1, <2>2, <2>3 DEF Since0
  <2>5. Kept
    BY <1>1, <2>1, <2>3, <2>4
  <2>6. QED
    BY <1>3, <2>5
<1>9. ASSUME NEW d \in TtDate, Times!CollectorStore(d) PROVE TtInv'
  <2>1. /\ stamped # Times!None /\ stamped' = Times!None
        /\ left' = left \ {d} \/ left' = {}
        /\ row' = row \/ row' = [row EXCEPT ![d] = stamped]
        /\ UNCHANGED <<now, seen, used, errors, start>>
    BY <1>9 DEF Times!CollectorStore, Times!NoDates
  <2>2. stamped \in Since0 /\ stamped <= now
    BY <1>1, <2>1 DEF Since0
  <2>3. row' \in [TtDate -> Since0] /\ \A e \in TtDate : row'[e] <= now
    BY <1>1, <2>1, <2>2
  <2>4. Kept
    BY <1>1, <2>1, <2>3 DEF Since0
  <2>5. QED
    BY <1>3, <2>4
<1>10. QED
  BY <1>4, <1>5, <1>6, <1>7, <1>8, <1>9

\* Every step keeps the invariant.
LEMMA TtStep == TimesBounds /\ TtInv /\ [Times!Next]_(Times!vars) => TtInv'
<1> SUFFICES ASSUME TimesBounds, TtInv, [Times!Next]_(Times!vars) PROVE TtInv'
  OBVIOUS
<1>1. ASSUME NEW p \in TtProc,
             \/ \E w \in TtWorker, d \in TtDate : Times!Request(p, w, d)
             \/ Times!Refused(p) \/ Times!Call(p) \/ Times!CallFails(p)
             \/ \E t \in 0..TtTime : Times!CallOk(p, t)
      PROVE  TtInv'
  BY <1>1, TtRequests
<1>2. CASE \/ Times!Tick \/ Times!CollectorBegin \/ Times!CollectorEnd \/ UNCHANGED Times!vars
           \/ \E d \in TtDate : \/ Times!CollectorSkip(d) \/ Times!CollectorCall(d)
                               \/ Times!CollectorStore(d)
  BY <1>2, TtCollector
<1>3. QED
  BY <1>1, <1>2 DEF Times!Next

\* A stored timetable is only replaced by one fetched later, whoever commits last; only the ferry
\* collector stores over one that appeared while it ran, and not further back than its start.
THEOREM TimetablesForward ==
  ASSUME TimesBounds PROVE Times!Spec => [][Times!RowForward]_(Times!vars)
<1>1. Times!Init => TtInv
  BY TtInit
<1>2. TtInv /\ [Times!Next]_(Times!vars) => TtInv'
  BY TtStep
<1>3. TtInv /\ [Times!Next]_(Times!vars) => [Times!RowForward]_(Times!vars)
  <2> SUFFICES ASSUME TtInv, Times!Next, NEW d \in TtDate, row[d] # Times!None
               PROVE  \/ row'[d] >= row[d] \/ (row'[d] = Times!None /\ ~ Times!InRange(d))
                      \/ Times!Overwritten(d)
    BY DEF Times!RowForward
  <2>1. row \in [TtDate -> Since0] /\ row[d] \in Int /\ row[d] <= now /\ now \in Int
    BY DEF TtInv, TtTypes, TtTimes, Times!TypeOK, Since0, Times!None
  <2>2. CASE UNCHANGED row
    BY <2>1, <2>2
  <2>3. CASE Times!CollectorBegin
    BY <2>1, <2>3 DEF Times!CollectorBegin
  <2>4. ASSUME NEW e \in TtDate, Times!CollectorStore(e)
        PROVE  row'[d] >= row[d] \/ Times!Overwritten(d)
    <3>1. CASE e # d \/ UNCHANGED row
      BY <2>1, <2>4, <3>1 DEF Times!CollectorStore
    <3>2. CASE row' = [row EXCEPT ![d] = stamped]
      <4>1. /\ left # {} /\ used # -1 /\ start \in Int /\ seen[d] \in Int /\ stamped \in Int
            /\ stamped >= start /\ seen[d] <= start
        BY <2>4 DEF Times!CollectorStore, TtInv, TtTypes, TtTimes, Times!TypeOK, Since0, Times!None
      <4>2. row'[d] = stamped
        BY <2>1, <3>2
      <4>3. TtKind = "ferry"
        BY <4>1 DEF TtInv, TtTimes
      <4>4. CASE row[d] = seen[d]
        BY <2>1, <4>1, <4>2, <4>4
      <4>5. CASE row[d] # seen[d]
        BY <4>1, <4>2, <4>3, <4>5 DEF Times!Overwritten
      <4>6. QED
        BY <4>4, <4>5
    <3>3. QED
      BY <2>4, <3>1, <3>2 DEF Times!CollectorStore
  <2>5. ASSUME NEW p \in TtProc, NEW t \in 0..TtTime, Times!CallOk(p, t) PROVE row'[d] >= row[d]
    <3>1. CASE date[p] # d
      BY <2>1, <2>5, <3>1 DEF Times!CallOk
    <3>2. CASE date[p] = d /\ TtKind = "ferry"
      BY <2>1, <2>5, <3>2 DEF Times!CallOk
    <3>3. CASE date[p] = d /\ TtKind # "ferry"
      <4>1. row' = [row EXCEPT ![d] = Times!BusRow(d, t)]
        BY <2>5, <3>3 DEF Times!CallOk
      <4>2. Times!BusRow(d, t) >= row[d]
        BY <2>1 DEF Times!BusRow
      <4>3. QED
        BY <2>1, <4>1, <4>2
    <3>4. QED
      BY <3>1, <3>2, <3>3
  <2>6. QED
    BY <2>2, <2>3, <2>4, <2>5 DEF Times!Next, Times!Tick, Times!CollectorEnd,
       Times!CollectorSkip, Times!CollectorCall, Times!Request, Times!Refused, Times!Call,
       Times!CallFails
<1>4. QED
  BY <1>1, <1>2, <1>3, PTL DEF Times!Spec

\* Types of rows, requests and the collector.
THEOREM TimetableTypes == ASSUME TimesBounds PROVE Times!Spec => []Times!TypeOK
<1>1. Times!Init => TtInv
  BY TtInit
<1>2. TtInv /\ [Times!Next]_(Times!vars) => TtInv'
  BY TtStep
<1>3. TtInv => Times!TypeOK
  BY DEF TtInv, TtTypes
<1>4. QED
  BY <1>1, <1>2, <1>3, PTL DEF Times!Spec

\* A worker keeps its interval and the backoff of a refusal.
THEOREM WorkersSpare ==
  ASSUME TimesBounds PROVE Times!Spec => [][Times!WorkerSpares]_(Times!vars)
<1>1. Times!Init => TtInv
  BY TtInit
<1>2. TtInv /\ [Times!Next]_(Times!vars) => TtInv'
  BY TtStep
<1>3. TtInv /\ [Times!Next]_(Times!vars) => [Times!WorkerSpares]_(Times!vars)
  <2> SUFFICES ASSUME TimesBounds, TtInv, Times!Next, NEW w \in TtWorker,
                      lock'[w] # lock[w], lock'[w] # Times!Nobody
               PROVE  /\ called[w] = Times!None \/ now >= called[w] + TtMinInterval
                      /\ refused[w] = Times!None \/ now >= refused[w] + TtBackoff
    BY DEF Times!WorkerSpares
  <2>1. PICK p \in TtProc : Times!Call(p)
    <3>1. lock \in [TtWorker -> TtProc \cup {Times!Nobody}]
      BY DEF TtInv, TtTypes, Times!TypeOK
    <3>2. ~ UNCHANGED lock
      OBVIOUS
    <3>3. ASSUME NEW q \in TtProc, lock' = [lock EXCEPT ![at[q]] = Times!Nobody] PROVE FALSE
      BY <3>1, <3>3
    <3>4. QED
      BY <3>2, <3>3 DEF Times!Next, Times!Tick, Times!CollectorBegin, Times!CollectorEnd,
         Times!CollectorSkip, Times!CollectorCall, Times!CollectorStore, Times!Request,
         Times!Refused, Times!CallFails, Times!CallOk, Times!workerVars
  <2>2. w = at[p]
    BY <2>1 DEF Times!Call, TtInv, TtTypes, Times!TypeOK
  <2>3. /\ called[w] = last[w] /\ last[w] \in Since0 /\ now \in Nat
        /\ refused[w] \in Since0
        /\ refused[w] # Times!None => limited[w] = refused[w] + TtBackoff
    BY DEF TtInv, TtTypes, TtTimes, Times!TypeOK
  <2>4. ~ Times!TooSoon(w) /\ ~ Times!Limited(w)
    BY <2>1, <2>2 DEF Times!Call
  <2>5. called[w] = Times!None \/ now >= called[w] + TtMinInterval
    BY <2>3, <2>4 DEF Times!TooSoon, Since0, TimesBounds
  <2>6. refused[w] = Times!None \/ now >= refused[w] + TtBackoff
    <3>1. refused[w] # Times!None => refused[w] + TtBackoff # Times!None
      BY <2>3 DEF Since0, Times!None, TimesBounds
    <3>2. QED
      BY <2>3, <2>4, <3>1 DEF Times!Limited, Since0, TimesBounds
  <2>7. QED
    BY <2>5, <2>6
<1>4. QED
  BY <1>1, <1>2, <1>3, PTL DEF Times!Spec

--------------------------------------------------------------------------------
(* The weekly reference files of the ferry portal.                         *)

Hub == INSTANCE VadaHub WITH
    Proc <- VhProc, Dataset <- VhDataset, Archived <- VhArchived, Week <- VhWeek,
    MaxTime <- VhTime

HubBounds ==
    /\ VhTime \in Nat /\ VhWeek \in Nat
    /\ VhDataset \cap {"idle", "loop"} = {} /\ Hub!Nobody \notin VhProc

VhSince == {Hub!None} \cup 0..VhTime
VhRow == [content : VhSince, attempt : VhSince, err : BOOLEAN]

VhTypes ==
    /\ Hub!TypeOK
    /\ row \in [VhDataset -> VhRow] /\ archive \in [VhDataset -> SUBSET (0..VhTime)]
    /\ began \in [VhProc -> 0..VhTime] /\ file \in [VhProc -> {"archive", "source", "download"}]

\* One run at a time, the holder of the file lock, works.  It reads the archive only for a dataset
\* that is not published without error, and what it calls a download was made since it began.
VhRuns ==
    /\ \A p \in VhProc : pc[p] # "idle" => holder = p
    /\ \A p \in VhProc : pc[p] \in VhDataset =>
          /\ began[p] <= now
          /\ file[p] = "archive" =>
                /\ ~ Hub!Published(pc[p])
                /\ \E t \in archive[pc[p]] : began[p] - t < VhWeek
          /\ file[p] = "download" => \E t \in archive[pc[p]] : t >= began[p]

VhInv == VhTypes /\ VhRuns

\* Of some times of an archive there is a latest one.
LEMMA LatestOf ==
  ASSUME NEW set \in SUBSET (0..VhTime), HubBounds, set # {}
  PROVE  Hub!Max(set) \in set /\ \A t \in set : Hub!Max(set) >= t
<1> DEFINE Left == {n \in Nat : \E t \in set : n = VhTime - t}
<1>1. PICK least \in Left : \A n \in Left : ~ (<<n, least>> \in OpToRel(<, Nat))
  <2>1. PICK t \in set : TRUE
    OBVIOUS
  <2>2. VhTime - t \in Left
    BY <2>1 DEF HubBounds
  <2>3. QED
    BY <2>2, NatLessThanWellFounded, WFMin
<1>2. PICK top \in set : least = VhTime - top
  BY <1>1
<1>3. \A t \in set : top >= t
  <2> SUFFICES ASSUME NEW t \in set PROVE top >= t
    OBVIOUS
  <2>1. VhTime - t \in Left
    BY DEF HubBounds
  <2>2. ~ (VhTime - t < least)
    BY <1>1, <2>1 DEF OpToRel
  <2>3. least \in Nat /\ top \in 0..VhTime /\ t \in 0..VhTime /\ VhTime \in Nat
    BY DEF HubBounds
  <2>4. least = VhTime - top
    BY <1>2
  <2>5. QED
    BY <2>2, <2>3, <2>4
<1>4. QED
  BY <1>2, <1>3 DEF Hub!Max

\* Nothing is published and nobody works initially.
LEMMA VhInit == HubBounds /\ Hub!Init => VhInv
<1> SUFFICES ASSUME HubBounds, Hub!Init PROVE VhInv
  OBVIOUS
<1> USE DEF HubBounds, Hub!Init
<1>1. VhTypes
  BY DEF VhTypes, Hub!TypeOK, VhRow, VhSince, Hub!None, Hub!NoRow
<1>2. VhRuns
  BY DEF VhRuns
<1>3. QED
  BY <1>1, <1>2 DEF VhInv

\* A run publishes a file of the archive; of a download, one that was made since it began.
LEMMA PublishedFile ==
  ASSUME HubBounds, VhInv, NEW p \in VhProc, NEW d \in VhDataset, pc[p] = d,
         NEW t \in Hub!Candidate(p, d)
  PROVE  /\ t \in 0..VhTime
         /\ Hub!Published(d) => t >= began[p]
<1> USE DEF HubBounds, VhInv
<1>1. archive[d] \in SUBSET (0..VhTime) /\ began[p] \in 0..VhTime
  BY DEF VhTypes
<1>2. CASE file[p] = "archive"
  <2> DEFINE recent == {u \in archive[d] : began[p] - u < VhWeek}
  <2>1. ~ Hub!Published(d) /\ recent # {}
    BY <1>2 DEF VhRuns
  <2>2. t = Hub!Max(recent)
    BY <1>2 DEF Hub!Candidate
  <2>3. Hub!Max(recent) \in recent
    BY <1>1, <2>1, LatestOf
  <2>4. QED
    BY <1>1, <2>1, <2>2, <2>3
<1>3. CASE file[p] = "download"
  <2>1. PICK u \in archive[d] : u >= began[p]
    BY <1>3 DEF VhRuns
  <2>2. t = Hub!Max(archive[d])
    BY <1>3 DEF Hub!Candidate
  <2>3. t \in archive[d] /\ t >= u
    BY <1>1, <2>1, <2>2, LatestOf
  <2>4. QED
    BY <1>1, <2>1, <2>3
<1>4. CASE file[p] = "source"
  BY <1>4 DEF Hub!Candidate
<1>5. QED
  BY <1>2, <1>3, <1>4 DEF VhTypes

\* Every step keeps the invariant.
LEMMA VhStep == HubBounds /\ VhInv /\ [Hub!Next]_(Hub!vars) => VhInv'
<1> SUFFICES ASSUME HubBounds, VhInv, [Hub!Next]_(Hub!vars) PROVE VhInv'
  OBVIOUS
<1> USE DEF HubBounds, VhInv
<1>0. /\ now \in 0..VhTime /\ holder \in VhProc \cup {Hub!Nobody}
      /\ pc \in [VhProc -> {"idle", "loop"} \cup VhDataset]
      /\ row \in [VhDataset -> VhRow] /\ archive \in [VhDataset -> SUBSET (0..VhTime)]
      /\ began \in [VhProc -> 0..VhTime]
      /\ file \in [VhProc -> {"archive", "source", "download"}]
  BY DEF VhTypes, Hub!TypeOK
<1>1. CASE Hub!Tick \/ UNCHANGED Hub!vars
  <2>1. now' \in 0..VhTime /\ now' >= now /\ UNCHANGED <<row, archive, holder, pc, began, file>>
    BY <1>0, <1>1 DEF Hub!Tick, Hub!vars, Hub!procVars
  <2>2. VhTypes'
    BY <1>0, <2>1 DEF VhTypes, Hub!TypeOK, VhRow, VhSince
  <2>3. VhRuns'
    BY <1>0, <2>1 DEF VhRuns, Hub!Published
  <2>4. QED
    BY <2>2, <2>3
<1>2. ASSUME NEW p \in VhProc, Hub!Begin(p) PROVE VhInv'
  <2>1. /\ pc' = [pc EXCEPT ![p] = "loop"] /\ holder' = p /\ holder = Hub!Nobody
        /\ UNCHANGED <<now, row, archive, began, file>>
    BY <1>2 DEF Hub!Begin
  <2>2. VhTypes'
    BY <1>0, <2>1 DEF VhTypes, Hub!TypeOK, VhRow, VhSince
  <2>3. VhRuns'
    BY <1>0, <2>1 DEF VhRuns
  <2>4. QED
    BY <2>2, <2>3
<1>3. ASSUME NEW p \in VhProc, Hub!End(p) PROVE VhInv'
  <2>1. /\ pc' = [pc EXCEPT ![p] = "idle"] /\ began' = [began EXCEPT ![p] = 0]
        /\ file' = [file EXCEPT ![p] = "source"] /\ holder' = Hub!Nobody /\ holder = p
        /\ UNCHANGED <<now, row, archive>>
    BY <1>3 DEF Hub!End, VhRuns
  <2>2. VhTypes'
    BY <1>0, <2>1 DEF VhTypes, Hub!TypeOK, VhRow, VhSince
  <2>3. VhRuns'
    BY <1>0, <2>1 DEF VhRuns
  <2>4. QED
    BY <2>2, <2>3
<1>4. ASSUME NEW p \in VhProc, NEW d \in VhDataset, Hub!Skip(p, d) PROVE VhInv'
  <2>1. UNCHANGED <<now, row, archive, holder, pc, began, file>>
    BY <1>4 DEF Hub!Skip
  <2>2. VhTypes'
    BY <1>0, <2>1 DEF VhTypes, Hub!TypeOK, VhRow, VhSince
  <2>3. VhRuns'
    BY <1>0, <2>1 DEF VhRuns, Hub!Published
  <2>4. QED
    BY <2>2, <2>3
<1>5. ASSUME NEW p \in VhProc, NEW d \in VhDataset, Hub!Attempt(p, d) PROVE VhInv'
  <2>1. /\ pc' = [pc EXCEPT ![p] = d] /\ began' = [began EXCEPT ![p] = now] /\ holder = p
        /\ UNCHANGED <<now, row, archive, holder>>
        /\ \A q \in VhProc \ {p} : pc[q] = "idle"
    BY <1>0, <1>5 DEF Hub!Attempt, VhRuns
  <2>2. /\ file' \in [VhProc -> {"archive", "source", "download"}]
        /\ file'[p] # "download"
        /\ file'[p] = "archive" => ~ Hub!Published(d) /\ \E t \in archive[d] : now - t < VhWeek
    <3>1. CASE Hub!Reuses(d) /\ Hub!Recent(d) # {}
      BY <1>0, <1>5, <3>1 DEF Hub!Attempt, Hub!Reuses, Hub!Recent
    <3>2. CASE ~ (Hub!Reuses(d) /\ Hub!Recent(d) # {})
      BY <1>0, <1>5, <3>2 DEF Hub!Attempt
    <3>3. QED
      BY <3>1, <3>2
  <2>3. VhTypes'
    BY <1>0, <2>1, <2>2 DEF VhTypes, Hub!TypeOK, VhRow, VhSince
  <2>4. VhRuns'
    <3>1. \A q \in VhProc : pc'[q] # "idle" => holder' = q
      BY <1>0, <2>1
    <3>2. \A q \in VhProc : pc'[q] \in VhDataset => q = p
      BY <1>0, <2>1
    <3>3. pc'[p] = d /\ began'[p] = now /\ (Hub!Published(d)' <=> Hub!Published(d))
      BY <1>0, <2>1 DEF Hub!Published
    <3>4. QED
      BY <1>0, <2>1, <2>2, <3>1, <3>2, <3>3 DEF VhRuns, Hub!Published
  <2>5. QED
    BY <2>3, <2>4
<1>6. ASSUME NEW p \in VhProc, NEW d \in VhDataset, Hub!Download(p, d) PROVE VhInv'
  <2>1. /\ archive' = [archive EXCEPT ![d] = archive[d] \cup {now}]
        /\ file' = [file EXCEPT ![p] = "download"] /\ pc[p] = d
        /\ UNCHANGED <<now, row, holder, pc, began>>
        /\ \A q \in VhProc \ {p} : pc[q] = "idle"
    BY <1>0, <1>6 DEF Hub!Download, VhRuns
  <2>2. VhTypes'
    BY <1>0, <2>1 DEF VhTypes, Hub!TypeOK, VhRow, VhSince
  <2>3. VhRuns'
    <3>1. \A q \in VhProc : pc'[q] # "idle" => holder' = q
      BY <2>1 DEF VhRuns
    <3>2. \A q \in VhProc : pc'[q] \in VhDataset => q = p
      BY <2>1
    <3>3. began[p] <= now /\ now \in archive'[d] /\ file'[p] = "download"
      BY <1>0, <2>1 DEF VhRuns
    <3>4. QED
      BY <2>1, <3>1, <3>2, <3>3 DEF VhRuns
  <2>4. QED
    BY <2>2, <2>3
<1>7. ASSUME NEW p \in VhProc, NEW d \in VhDataset, Hub!Publish(p, d) \/ Hub!Fails(p, d)
      PROVE  VhInv'
  <2>1. /\ file' = [file EXCEPT ![p] = "source"] /\ pc' = [pc EXCEPT ![p] = "loop"] /\ pc[p] = d
        /\ UNCHANGED <<now, archive, holder, began>>
        /\ \A q \in VhProc \ {p} : pc[q] = "idle"
    BY <1>0, <1>7 DEF Hub!Publish, Hub!Fails, VhRuns
  <2>2. row' \in [VhDataset -> VhRow]
    <3>1. CASE Hub!Publish(p, d)
      <4>1. PICK t \in Hub!Candidate(p, d) :
               row' = [row EXCEPT ![d] = [content |-> t, attempt |-> began[p], err |-> FALSE]]
        BY <3>1 DEF Hub!Publish
      <4>2. t \in 0..VhTime
        BY <2>1, <4>1, PublishedFile
      <4>3. [content |-> t, attempt |-> began[p], err |-> FALSE] \in VhRow
        BY <1>0, <4>2 DEF VhRow, VhSince
      <4>4. QED
        BY <1>0, <4>1, <4>3
    <3>2. CASE Hub!Fails(p, d)
      BY <1>0, <3>2 DEF Hub!Fails, VhRow, VhSince
    <3>3. QED
      BY <1>7, <3>1, <3>2
  <2>3. VhTypes'
    BY <1>0, <2>1, <2>2 DEF VhTypes, Hub!TypeOK, VhRow, VhSince
  <2>4. VhRuns'
    <3>1. \A q \in VhProc : pc'[q] # "idle" => holder' = q
      BY <1>0, <2>1 DEF VhRuns
    <3>2. \A q \in VhProc : pc'[q] \notin VhDataset
      BY <1>0, <2>1
    <3>3. QED
      BY <3>1, <3>2 DEF VhRuns
  <2>5. QED
    BY <2>3, <2>4
<1>8. QED
  BY <1>1, <1>2, <1>3, <1>4, <1>5, <1>6, <1>7 DEF Hub!Next

\* The weekly refresh of a good publication brings a file downloaded in that very run: the archive
\* that survives a failed publication is never read for it.
THEOREM RefreshesNew ==
  ASSUME HubBounds PROVE Hub!Spec => [][Hub!RefreshIsNew]_(Hub!vars)
<1>1. Hub!Init => VhInv
  BY VhInit
<1>2. VhInv /\ [Hub!Next]_(Hub!vars) => VhInv'
  BY VhStep
<1>3. VhInv /\ [Hub!Next]_(Hub!vars) => [Hub!RefreshIsNew]_(Hub!vars)
  <2> SUFFICES ASSUME HubBounds, VhInv, Hub!Next, NEW d \in VhDataset,
                      row'[d] # row[d], ~ row'[d].err, Hub!Published(d)
               PROVE  row'[d].content >= row'[d].attempt
    BY DEF Hub!RefreshIsNew
  <2>0. row \in [VhDataset -> VhRow]
    BY DEF VhInv, VhTypes
  <2>1. ASSUME NEW p \in VhProc, NEW e \in VhDataset, Hub!Fails(p, e) PROVE FALSE
    <3>1. row' = [row EXCEPT ![e] = [row[e] EXCEPT !.attempt = began[p], !.err = TRUE]]
      BY <2>1 DEF Hub!Fails
    <3>2. e = d /\ row'[d].err = TRUE
      BY <2>0, <3>1 DEF VhRow
    <3>3. QED
      BY <3>2
  <2>2. ASSUME NEW p \in VhProc, NEW e \in VhDataset, Hub!Publish(p, e)
        PROVE  row'[d].content >= row'[d].attempt
    <3>1. PICK t \in Hub!Candidate(p, e) :
             row' = [row EXCEPT ![e] = [content |-> t, attempt |-> began[p], err |-> FALSE]]
      BY <2>2 DEF Hub!Publish
    <3>2. e = d
      BY <2>0, <3>1
    <3>3. t >= began[p]
      BY <2>2, <3>2, PublishedFile DEF Hub!Publish
    <3>4. QED
      BY <2>0, <3>1, <3>2, <3>3
  <2>3. QED
    BY <2>1, <2>2 DEF Hub!Next, Hub!Tick, Hub!Begin, Hub!End, Hub!Skip, Hub!Attempt, Hub!Download
<1>4. QED
  BY <1>1, <1>2, <1>3, PTL DEF Hub!Spec

\* Types of the stored files and of the runs.
THEOREM HubTypes == ASSUME HubBounds PROVE Hub!Spec => []Hub!TypeOK
<1>1. VhInv => Hub!TypeOK
  BY DEF VhInv, VhTypes
<1>2. QED
  BY <1>1, VhInit, VhStep, PTL DEF Hub!Spec

--------------------------------------------------------------------------------
(* The timetables of the rail stations.                                    *)

Kric == INSTANCE KricTimetable WITH
    Proc <- KrProc, Snapshot <- KrSnapshot, Broken <- KrBroken, Day <- KrDay,
    MonthOf <- KrMonthOf, Base <- KrBase, Holiday <- KrHoliday, Every <- KrEvery,
    MaxCalls <- KrCalls, MaxRun <- KrRun, MaxFails <- KrFails, MaxTime <- KrTime

\* Fewer timetables fail at the provider than failures end a batch: OthersRefreshed is about those.
KricBounds ==
    /\ KrTime \in Nat /\ KrFails \in Nat /\ Kric!Nobody \notin KrProc
    /\ IsFiniteSet(KrBroken) /\ Cardinality(KrBroken) < KrFails
    /\ \A d \in KrDay : KrBase[d] \in {"7", "8", "9"}

KrTypes ==
    /\ now \in 0..KrTime /\ stored \in [KrSnapshot -> {Kric!None} \cup 0..KrTime]
    /\ holder \in KrProc \cup {Kric!Nobody}
    /\ pc \in [KrProc -> {"idle", "locked", "codes", "calls"}]
    /\ started \in [KrProc -> 0..KrTime] /\ fails \in [KrProc -> Nat]
    /\ todo \in [KrProc -> SUBSET KrSnapshot]
    /\ outcome \in [how : {"none", "running", "through", "late"},
                    chosen : SUBSET KrSnapshot, from : 0..KrTime]

BrokenLeft(p) == KrBroken \cap todo[p]

\* One batch at a time, the holder of the lock, runs.  What it chose and is not broken was stored
\* since it began or is still to do; its failures in a row are of broken timetables it is through
\* with, so they never reach the limit.
KrBatch ==
    /\ \A p \in KrProc :
          /\ started[p] <= now
          /\ pc[p] # "idle" => holder = p
          /\ pc[p] # "calls" => fails[p] = 0
    /\ \A p \in KrProc : pc[p] = "calls" =>
          /\ outcome.how = "running" /\ outcome.from = started[p]
          /\ \A s \in outcome.chosen \ KrBroken : s \in todo[p] \/ stored[s] >= started[p]
          /\ fails[p] + Cardinality(BrokenLeft(p)) <= Cardinality(KrBroken)

KrInv == KrTypes /\ KrBatch /\ Kric!OthersRefreshed

\* What is left of the broken timetables is finite and no more than all of them; one less after one.
LEMMA BrokenCount ==
  ASSUME KricBounds, NEW set \in SUBSET KrBroken
  PROVE  /\ Cardinality(set) \in Nat /\ Cardinality(KrBroken) \in Nat
         /\ Cardinality(set) <= Cardinality(KrBroken)
         /\ \A s \in set : Cardinality(set \ {s}) = Cardinality(set) - 1
<1>1. IsFiniteSet(KrBroken) /\ IsFiniteSet(set)
  BY FS_Subset DEF KricBounds
<1>2. QED
  BY <1>1, FS_Subset, FS_CardinalityType, FS_RemoveElement

\* Nobody works and nothing is stored initially.
LEMMA KrInit == KricBounds /\ Kric!Init => KrInv
<1> SUFFICES ASSUME KricBounds, Kric!Init PROVE KrInv
  OBVIOUS
<1> USE DEF KricBounds, Kric!Init
<1>1. KrTypes
  BY DEF KrTypes, Kric!NoOutcome, Kric!None
<1>2. KrBatch
  BY DEF KrBatch
<1>3. Kric!OthersRefreshed
  BY DEF Kric!OthersRefreshed, Kric!NoOutcome
<1>4. QED
  BY <1>1, <1>2, <1>3 DEF KrInv

\* A batch that ends, however it ends.
LEMMA KrEnds ==
  ASSUME KricBounds, KrInv, NEW p \in KrProc,
         Kric!NotDue(p) \/ Kric!Finish(p) \/ Kric!Abort(p)
  PROVE  KrInv'
<1> USE DEF KricBounds, KrInv
<1>0. /\ now \in 0..KrTime /\ stored \in [KrSnapshot -> {Kric!None} \cup 0..KrTime]
      /\ pc \in [KrProc -> {"idle", "locked", "codes", "calls"}]
      /\ started \in [KrProc -> 0..KrTime] /\ fails \in [KrProc -> Nat]
      /\ todo \in [KrProc -> SUBSET KrSnapshot]
  BY DEF KrTypes
<1>1. /\ pc[p] # "idle" /\ holder = p /\ holder' = Kric!Nobody
      /\ pc' = [pc EXCEPT ![p] = "idle"] /\ started' = [started EXCEPT ![p] = 0]
      /\ todo' = [todo EXCEPT ![p] = {}] /\ fails' = [fails EXCEPT ![p] = 0]
      /\ UNCHANGED <<now, stored>>
  BY DEF Kric!NotDue, Kric!Finish, Kric!Abort, Kric!Idle, KrBatch
<1>2. \A q \in KrProc \ {p} : pc[q] = "idle"
  BY <1>1 DEF KrBatch
<1>3. /\ outcome' \in [how : {"none", "running", "through", "late"},
                       chosen : SUBSET KrSnapshot, from : 0..KrTime]
      /\ outcome'.how # "through" \/ UNCHANGED outcome
         \/ /\ pc[p] = "calls" /\ todo[p] = {}
            /\ outcome'.chosen = outcome.chosen /\ outcome'.from = outcome.from
  <2>0. outcome \in [how : {"none", "running", "through", "late"},
                     chosen : SUBSET KrSnapshot, from : 0..KrTime]
    BY DEF KrTypes
  <2>1. CASE Kric!NotDue(p)
    BY <2>0, <2>1 DEF Kric!NotDue
  <2>2. CASE Kric!Finish(p)
    BY <2>0, <2>2 DEF Kric!Finish
  <2>3. CASE Kric!Abort(p)
    BY <2>3 DEF Kric!Abort, Kric!NoOutcome
  <2>4. QED
    BY <2>1, <2>2, <2>3
<1>4. KrTypes'
  BY <1>0, <1>1, <1>3 DEF KrTypes
<1>5. KrBatch'
  BY <1>0, <1>1, <1>2 DEF KrBatch
<1>6. Kric!OthersRefreshed'
  BY <1>1, <1>3 DEF Kric!OthersRefreshed, KrBatch
<1>7. QED
  BY <1>4, <1>5, <1>6

\* The steps of a batch up to its first call, and of time.
LEMMA KrStarts ==
  ASSUME KricBounds, KrInv,
         \/ Kric!Tick \/ UNCHANGED Kric!vars
         \/ \E p \in KrProc : Kric!Lock(p) \/ Kric!Begin(p)
  PROVE  KrInv'
<1> USE DEF KricBounds, KrInv
<1>0. /\ now \in 0..KrTime /\ stored \in [KrSnapshot -> {Kric!None} \cup 0..KrTime]
      /\ pc \in [KrProc -> {"idle", "locked", "codes", "calls"}]
      /\ started \in [KrProc -> 0..KrTime]
  BY DEF KrTypes
<1>1. /\ UNCHANGED <<stored, todo, fails, outcome>>
      /\ now' \in 0..KrTime /\ now' >= now
  BY <1>0 DEF Kric!Tick, Kric!Lock, Kric!Begin, Kric!vars, Kric!procVars
<1>2. CASE UNCHANGED <<pc, started, holder>>
  <2>1. KrTypes'
    BY <1>0, <1>1, <1>2 DEF KrTypes
  <2>2. KrBatch'
    BY <1>0, <1>1, <1>2 DEF KrBatch, BrokenLeft
  <2>3. Kric!OthersRefreshed'
    BY <1>1 DEF Kric!OthersRefreshed
  <2>4. QED
    BY <2>1, <2>2, <2>3
<1>3. ASSUME NEW p \in KrProc, Kric!Lock(p) \/ Kric!Begin(p) PROVE KrInv'
  <2>1. /\ pc[p] # "calls" /\ holder' = p /\ holder \in {p, Kric!Nobody}
        /\ \/ pc' = [pc EXCEPT ![p] = "locked"] /\ UNCHANGED started
           \/ pc' = [pc EXCEPT ![p] = "codes"] /\ started' = [started EXCEPT ![p] = now]
        /\ UNCHANGED now
    BY <1>3 DEF Kric!Lock, Kric!Begin, KrBatch
  <2>2. \A q \in KrProc \ {p} : pc[q] = "idle"
    BY <2>1 DEF KrBatch
  <2>3. KrTypes'
    BY <1>0, <1>1, <2>1 DEF KrTypes
  <2>4. KrBatch'
    BY <1>0, <1>1, <2>1, <2>2 DEF KrBatch
  <2>5. Kric!OthersRefreshed'
    BY <1>1 DEF Kric!OthersRefreshed
  <2>6. QED
    BY <2>3, <2>4, <2>5
<1>4. QED
  BY <1>2, <1>3 DEF Kric!Tick, Kric!vars, Kric!procVars

\* The calls are planned.
LEMMA KrPlanned == ASSUME KricBounds, KrInv, NEW p \in KrProc, Kric!Codes(p) PROVE KrInv'
<1> USE DEF KricBounds, KrInv
<1>0. /\ now \in 0..KrTime /\ stored \in [KrSnapshot -> {Kric!None} \cup 0..KrTime]
      /\ pc \in [KrProc -> {"idle", "locked", "codes", "calls"}]
      /\ started \in [KrProc -> 0..KrTime] /\ fails \in [KrProc -> Nat]
      /\ todo \in [KrProc -> SUBSET KrSnapshot]
  BY DEF KrTypes
<1>1. /\ pc[p] = "codes" /\ holder = p /\ fails[p] = 0
      /\ pc' = [pc EXCEPT ![p] = "calls"] /\ todo' = [todo EXCEPT ![p] = Kric!Chosen]
      /\ outcome' = [how |-> "running", chosen |-> Kric!Chosen, from |-> started[p]]
      /\ UNCHANGED <<now, holder, stored, started, fails>>
  BY DEF Kric!Codes, KrBatch
<1>2. \A q \in KrProc \ {p} : pc[q] = "idle"
  BY <1>1 DEF KrBatch
<1>3. Kric!Chosen \in SUBSET KrSnapshot
  BY DEF Kric!Chosen, Kric!Candidates
<1>4. KrTypes'
  BY <1>0, <1>1, <1>3 DEF KrTypes
<1>5. KrBatch'
  <2>1. \A q \in KrProc : /\ started'[q] <= now'
                          /\ pc'[q] # "idle" => holder' = q
                          /\ pc'[q] # "calls" => fails'[q] = 0
    BY <1>0, <1>1 DEF KrBatch
  <2>2. \A q \in KrProc : pc'[q] = "calls" => q = p
    BY <1>0, <1>1, <1>2
  <2>3. todo'[p] = Kric!Chosen /\ BrokenLeft(p)' = KrBroken \cap Kric!Chosen
    BY <1>0, <1>1 DEF BrokenLeft
  <2>4. fails'[p] + Cardinality(BrokenLeft(p)') <= Cardinality(KrBroken)
    <3>1. KrBroken \cap Kric!Chosen \in SUBSET KrBroken
      OBVIOUS
    <3>2. QED
      BY <1>1, <2>3, <3>1, BrokenCount
  <2>5. QED
    BY <1>1, <2>1, <2>2, <2>3, <2>4 DEF KrBatch
<1>6. Kric!OthersRefreshed'
  BY <1>1 DEF Kric!OthersRefreshed
<1>7. QED
  BY <1>4, <1>5, <1>6

\* A timetable is stored, or its call fails: one that is not broken is through only when it is stored,
\* and the failures in a row stay below the limit.
LEMMA KrCall ==
  ASSUME KricBounds, KrInv, NEW p \in KrProc, Kric!CallOk(p) \/ Kric!CallFails(p)
  PROVE  KrInv'
<1> USE DEF KricBounds, KrInv
<1>0. /\ now \in 0..KrTime /\ stored \in [KrSnapshot -> {Kric!None} \cup 0..KrTime]
      /\ pc \in [KrProc -> {"idle", "locked", "codes", "calls"}]
      /\ started \in [KrProc -> 0..KrTime] /\ fails \in [KrProc -> Nat]
      /\ todo \in [KrProc -> SUBSET KrSnapshot]
      /\ started[p] <= now
  BY DEF KrTypes, KrBatch
<1>1. /\ pc[p] = "calls" /\ outcome.how = "running"
      /\ UNCHANGED <<now, holder, pc, started, outcome>>
      /\ \A q \in KrProc \ {p} : pc[q] = "idle"
  BY DEF Kric!CallOk, Kric!CallFails, KrBatch
<1>2. /\ BrokenLeft(p) \in SUBSET KrBroken /\ Cardinality(KrBroken) \in Nat
      /\ Cardinality(BrokenLeft(p)) \in Nat
      /\ \A s \in BrokenLeft(p) :
            /\ Cardinality(BrokenLeft(p) \ {s}) = Cardinality(BrokenLeft(p)) - 1
            /\ Cardinality(BrokenLeft(p) \ {s}) \in Nat
  <2>1. BrokenLeft(p) \in SUBSET KrBroken /\ \A s : BrokenLeft(p) \ {s} \in SUBSET KrBroken
    BY DEF BrokenLeft
  <2>2. QED
    BY <2>1, BrokenCount
<1>3. /\ todo' \in [KrProc -> SUBSET KrSnapshot] /\ fails' \in [KrProc -> Nat]
      /\ stored' \in [KrSnapshot -> {Kric!None} \cup 0..KrTime]
      /\ \A q \in KrProc \ {p} : fails'[q] = fails[q]
      /\ \A s \in outcome.chosen \ KrBroken : s \in todo'[p] \/ stored'[s] >= started[p]
      /\ fails'[p] + Cardinality(BrokenLeft(p)') <= Cardinality(KrBroken)
  <2>0. \A s \in outcome.chosen \ KrBroken :
           s \in KrSnapshot /\ (s \in todo[p] \/ stored[s] >= started[p])
    BY <1>1 DEF KrBatch, KrTypes
  <2>1. CASE Kric!CallOk(p)
    <3>1. PICK s \in KrSnapshot : /\ s \in todo[p] /\ stored' = [stored EXCEPT ![s] = now]
                                  /\ todo' = [todo EXCEPT ![p] = todo[p] \ {s}]
                                  /\ fails' = [fails EXCEPT ![p] = 0]
      BY <2>1 DEF Kric!CallOk, Kric!IsNext
    <3>2. BrokenLeft(p)' \in SUBSET KrBroken
      BY DEF BrokenLeft
    <3>3. Cardinality(BrokenLeft(p)') \in Nat /\ Cardinality(BrokenLeft(p)') <= Cardinality(KrBroken)
      BY <3>2, BrokenCount
    <3>4. QED
      BY <1>0, <1>2, <2>0, <3>1, <3>3
  <2>2. CASE Kric!CallFails(p)
    <3>1. PICK s \in KrBroken :
             /\ s \in todo[p] /\ fails' = [fails EXCEPT ![p] = fails[p] + 1]
             /\ todo' = [todo EXCEPT ![p] =
                           IF Kric!Stops(fails[p] + 1) THEN {} ELSE todo[p] \ {s}]
             /\ UNCHANGED stored
      BY <2>2 DEF Kric!CallFails, Kric!IsNext
    <3>2. s \in BrokenLeft(p) /\ Cardinality(BrokenLeft(p)) >= 1
      <4>1. s \in BrokenLeft(p)
        BY <3>1 DEF BrokenLeft
      <4>2. Cardinality(BrokenLeft(p)) - 1 \in Nat
        BY <1>2, <4>1
      <4>3. QED
        BY <1>2, <4>1, <4>2
    <3>3. fails[p] + Cardinality(BrokenLeft(p)) <= Cardinality(KrBroken)
      BY <1>1 DEF KrBatch
    <3>4. ~ Kric!Stops(fails[p] + 1)
      BY <1>0, <1>2, <3>2, <3>3 DEF Kric!Stops
    <3>5. todo' = [todo EXCEPT ![p] = todo[p] \ {s}]
      BY <3>1, <3>4
    <3>6. BrokenLeft(p)' = BrokenLeft(p) \ {s}
      BY <1>0, <3>5 DEF BrokenLeft
    <3>7. fails'[p] + Cardinality(BrokenLeft(p)') <= Cardinality(KrBroken)
      BY <1>0, <1>2, <3>1, <3>2, <3>3, <3>6
    <3>8. QED
      BY <1>0, <2>0, <3>1, <3>5, <3>7
  <2>3. QED
    BY <2>1, <2>2
<1>4. KrTypes'
  BY <1>1, <1>3 DEF KrTypes
<1>5. KrBatch'
  BY <1>1, <1>3 DEF KrBatch
<1>6. Kric!OthersRefreshed'
  BY <1>1 DEF Kric!OthersRefreshed
<1>7. QED
  BY <1>4, <1>5, <1>6

\* Every step keeps the invariant of the batches.
LEMMA KrStep == ASSUME KricBounds PROVE KrInv /\ [Kric!Next]_(Kric!vars) => KrInv'
<1> SUFFICES ASSUME KrInv, [Kric!Next]_(Kric!vars) PROVE KrInv'
  OBVIOUS
<1>1. ASSUME NEW p \in KrProc, Kric!NotDue(p) \/ Kric!Finish(p) \/ Kric!Abort(p) PROVE KrInv'
  BY <1>1, KrEnds
<1>2. CASE \/ Kric!Tick \/ UNCHANGED Kric!vars
           \/ \E p \in KrProc : Kric!Lock(p) \/ Kric!Begin(p)
  BY <1>2, KrStarts
<1>3. ASSUME NEW p \in KrProc, Kric!Codes(p) PROVE KrInv'
  BY <1>3, KrPlanned
<1>4. ASSUME NEW p \in KrProc, Kric!CallOk(p) \/ Kric!CallFails(p) PROVE KrInv'
  BY <1>4, KrCall
<1>5. QED
  BY <1>1, <1>2, <1>3, <1>4 DEF Kric!Next

\* With fewer failing stations than the limit, a batch that had the time refreshed every other
\* timetable it had chosen, however the calls of the failing ones fall among the others.
THEOREM RefreshedAll ==
  ASSUME KricBounds PROVE Kric!Spec => []Kric!OthersRefreshed
<1>1. Kric!Init => KrInv
  BY KrInit
<1>2. KrInv /\ [Kric!Next]_(Kric!vars) => KrInv'
  BY KrStep
<1>3. KrInv => Kric!OthersRefreshed
  BY DEF KrInv
<1>4. QED
  BY <1>1, <1>2, <1>3, PTL DEF Kric!Spec

\* The stored code of a day is the one of the full list of holidays: a month that could not be read
\* leaves the calendar as it is.
THEOREM CalendarWhole == Kric!Spec => []Kric!CalendarTrue
<1>1. Kric!Init => Kric!CalendarTrue
  BY DEF Kric!Init, Kric!CalendarTrue
<1>2. Kric!CalendarTrue /\ [Kric!Next]_(Kric!vars) => Kric!CalendarTrue'
  <2> SUFFICES ASSUME Kric!CalendarTrue, [Kric!Next]_(Kric!vars) PROVE Kric!CalendarTrue'
    OBVIOUS
  <2>1. ASSUME NEW p \in KrProc, Kric!Codes(p) PROVE Kric!CalendarTrue'
    <3>1. PICK ok \in SUBSET {KrMonthOf[d] : d \in KrDay} : calendar' = Kric!Calendar(ok)
      BY <2>1 DEF Kric!Codes
    <3>2. CASE Kric!Usable(ok)
      <4>1. \A d \in KrDay : calendar'[d] = Kric!Code(d, {h \in KrHoliday : KrMonthOf[h] \in ok})
        BY <3>1, <3>2 DEF Kric!Calendar
      <4>2. \A d \in KrDay : KrMonthOf[d] \in ok
        BY <3>2 DEF Kric!Usable
      <4>3. QED
        BY <4>1, <4>2 DEF Kric!CalendarTrue, Kric!Code
    <3>3. CASE ~ Kric!Usable(ok)
      BY <3>1, <3>3 DEF Kric!Calendar, Kric!CalendarTrue, Kric!Code
    <3>4. QED
      BY <3>2, <3>3
  <2>2. CASE UNCHANGED calendar
    BY <2>2 DEF Kric!CalendarTrue, Kric!Code
  <2>3. QED
    BY <2>1, <2>2 DEF Kric!Next, Kric!Tick, Kric!Lock, Kric!Begin, Kric!NotDue, Kric!CallOk,
       Kric!CallFails, Kric!Finish, Kric!Abort, Kric!vars
<1>3. QED
  BY <1>1, <1>2, PTL DEF Kric!Spec

\* Two batches begin at least 48 hours apart: the attempt is recorded before the first call.
THEOREM BatchesSpaced == Kric!Spec => [][Kric!BatchesApart]_(Kric!vars)
<1>1. [Kric!Next]_(Kric!vars) => [Kric!BatchesApart]_(Kric!vars)
  BY DEF Kric!Next, Kric!Tick, Kric!Lock, Kric!Begin, Kric!Due, Kric!NotDue, Kric!Codes,
     Kric!CallOk, Kric!CallFails, Kric!Finish, Kric!Abort, Kric!BatchesApart
<1>2. QED
  BY <1>1, PTL DEF Kric!Spec

\* Types of attempts, stored timetables and batches: an attempt is never later than the clock, and
\* the calendar holds codes only.
THEOREM BatchTypes == ASSUME KricBounds PROVE Kric!Spec => []Kric!TypeOK
<1> DEFINE Kept == attempts \subseteq 0..KrTime /\ calendar \in [KrDay -> {"none", "7", "8", "9"}]
<1>1. Kric!Init => KrInv /\ Kept
  BY KrInit DEF Kric!Init
<1>2. KrInv /\ Kept /\ [Kric!Next]_(Kric!vars) => Kept'
  <2> SUFFICES ASSUME KrInv, Kept, [Kric!Next]_(Kric!vars) PROVE Kept'
    OBVIOUS
  <2>1. ASSUME NEW p \in KrProc, Kric!Begin(p) PROVE Kept'
    BY <2>1 DEF Kric!Begin, KrInv, KrTypes
  <2>2. ASSUME NEW p \in KrProc, Kric!Codes(p) PROVE Kept'
    <3>1. attempts' = attempts /\ \E ok \in SUBSET {KrMonthOf[d] : d \in KrDay} : calendar' = Kric!Calendar(ok)
      BY <2>2 DEF Kric!Codes
    <3>2. \A ok : Kric!Calendar(ok) \in [KrDay -> {"none", "7", "8", "9"}]
      BY DEF Kric!Calendar, Kric!Code, KricBounds
    <3>3. QED
      BY <3>1, <3>2
  <2>3. CASE UNCHANGED <<attempts, calendar>>
    BY <2>3
  <2>4. QED
    BY <2>1, <2>2, <2>3 DEF Kric!Next, Kric!Tick, Kric!Lock, Kric!NotDue, Kric!CallOk,
       Kric!CallFails, Kric!Finish, Kric!Abort, Kric!vars
<1>3. KrInv /\ Kept => Kric!TypeOK
  BY DEF KrInv, KrTypes, Kric!TypeOK
<1>4. QED
  BY <1>1, <1>2, <1>3, KrStep, PTL DEF Kric!Spec

--------------------------------------------------------------------------------
(* Highway traffic and incidents.                                          *)

Highway == INSTANCE HighwayCollection WITH
    Proc <- HwProc, Key <- HwKey, Answers <- HwAnswers, DropFactor <- HwDropFactor,
    Interval <- HwInterval, Reservation <- HwReservation, Recent <- HwRecent,
    MaxAge <- HwMaxAge, MaxTime <- HwTime, MaxRuns <- HwRuns, MaxClaims <- HwClaims

\* An answer lists some of the keys, once each; an observation is not of the future.
HighwayBounds ==
    /\ HwTime \in Nat /\ HwRuns \in Nat /\ HwInterval \in Nat /\ HwReservation \in Nat
    /\ IsFiniteSet(HwKey)
    /\ \A s \in Highway!Source : \A m \in HwAnswers[s] :
          DOMAIN m \subseteq HwKey /\ m = [k \in DOMAIN m |-> m[k]]
    /\ \A m \in HwAnswers[Highway!Traffic] : \A k \in DOMAIN m : m[k] \in Nat

HwKeys == Cardinality(HwKey)
HwState == [started : 0..HwTime, success : -1..HwTime, due : Int, error : BOOLEAN]
HwSeen == [base : -1..HwKeys, started : 0..HwTime, error : BOOLEAN]

HwTables ==
    /\ now \in 0..HwTime /\ nextRun \in 1..(HwRuns + 1)
    /\ state \in [Highway!Source -> HwState]
    /\ baseline \in [Highway!Source -> -1..HwKeys]
    /\ history \in [HwKey -> [0..HwTime -> 0..HwRuns]]
    /\ head \in [order : 0..HwRuns, count : 0..HwKeys]
    /\ current \in [HwKey -> [order : 0..HwRuns, at : -1..HwTime]]
HwProcs ==
    /\ pc \in [HwProc -> {"idle", "fetch", "store"}] /\ run \in [HwProc -> 0..HwRuns]
    /\ claimed \in [HwProc -> SUBSET Highway!Source]
    /\ seen \in [HwProc -> [Highway!Source -> HwSeen]]
    /\ loaded \in [HwProc -> BOOLEAN]
\* What a run got from KREX is one of its answers.
HwResults ==
    /\ result = [p \in HwProc |-> result[p]]
    /\ \A p \in HwProc : result[p] = [s \in Highway!Source |-> result[p][s]]
    /\ \A p \in HwProc, s \in Highway!Source :
          result[p][s].ok => result[p][s].items \in HwAnswers[s]

HwTypes == HwTables /\ HwProcs /\ HwResults

\* A run that has not stored its traffic is not the one the head names; the keys of the head's run
\* are the current set and no key is of a later run.
HwOrders ==
    /\ head.order < nextRun
    /\ \A k \in HwKey : current[k].order <= head.order
    /\ \A p \in HwProc : run[p] < nextRun
    /\ \A p \in HwProc : pc[p] # "idle" => run[p] > 0
    /\ \A p \in HwProc : pc[p] # "idle" /\ Highway!Traffic \in claimed[p] => run[p] # head.order
    /\ \A p, q \in HwProc : p # q /\ pc[p] # "idle" /\ pc[q] # "idle" => run[p] # run[q]
    /\ Highway!TrafficHeadWhole

\* The rows of the last success are the incidents of the last committed answer; the others are older.
HwActive ==
    /\ active = [k \in DOMAIN active |-> active[k]] /\ DOMAIN active \subseteq HwKey
    /\ state[Highway!Incident].success <= now
    /\ \A k \in HwKey :
          /\ incidents[k].collected \in -1..HwTime
          /\ incidents[k].collected <= state[Highway!Incident].success
    /\ state[Highway!Incident].success # Highway!None =>
          \A k \in HwKey :
             /\ incidents[k].collected = state[Highway!Incident].success <=> k \in DOMAIN active
             /\ k \in DOMAIN active => incidents[k].state = active[k]

HwInv == HwTypes /\ HwOrders /\ HwActive /\ Highway!StatisticsMatch

\* The model's library is the one of this module.
LEMMA HwCardinality == \A set : Highway!Cardinality(set) = Cardinality(set)
  BY DEF Highway!Cardinality, Cardinality

\* An answer has no more items than there are keys.
LEMMA AnswerSize ==
  ASSUME HighwayBounds, NEW s \in Highway!Source, NEW a, a.items \in HwAnswers[s]
  PROVE  Highway!Size(a) = Cardinality(DOMAIN a.items) /\ Highway!Size(a) \in 0..HwKeys
<1>1. DOMAIN a.items \subseteq HwKey /\ IsFiniteSet(HwKey)
  BY DEF HighwayBounds
<1>2. Highway!Size(a) = Cardinality(DOMAIN a.items)
  BY HwCardinality DEF Highway!Size
<1>3. QED
  BY <1>1, <1>2, FS_Subset, FS_CardinalityType DEF HwKeys

\* There is a number of keys.
LEMMA KeyCount == HighwayBounds => HwKeys \in Nat
  BY FS_CardinalityType DEF HighwayBounds, HwKeys

\* Both requests of a run give answers of the source, or none.
LEMMA OutcomeOf ==
  ASSUME NEW s \in Highway!Source, NEW before, NEW a \in Highway!Outcomes(s, before), a.ok
  PROVE  a.items \in HwAnswers[s]
<1>1. PICK first \in Highway!Answered(s), second \in Highway!Answered(s) :
         a = [IF Highway!Suspicious(first, before) THEN Highway!Confirmed(first, second, before)
              ELSE first EXCEPT !.complete = FALSE]
  BY DEF Highway!Outcomes
<1>2. PICK b \in Highway!Answered(s) : a = [b EXCEPT !.complete = FALSE]
  <2>1. Highway!NoAnswer \in Highway!Answered(s)
    BY DEF Highway!Answered
  <2>2. QED
    BY <1>1, <2>1 DEF Highway!Confirmed
<1>3. CASE b = Highway!NoAnswer
  BY <1>2, <1>3 DEF Highway!NoAnswer
<1>4. ASSUME NEW m \in HwAnswers[s], NEW c \in BOOLEAN, b = [ok |-> TRUE, items |-> m, complete |-> c]
      PROVE  a.items = m
  BY <1>2, <1>4
<1>5. QED
  BY <1>2, <1>3, <1>4 DEF Highway!Answered

\* Nothing is stored and nobody runs initially.
LEMMA HwInit == HighwayBounds /\ Highway!Init => HwInv
<1> SUFFICES ASSUME HighwayBounds, Highway!Init PROVE HwInv
  OBVIOUS
<1> USE DEF HighwayBounds, Highway!Init
<1>0. HwKeys \in Nat
  BY KeyCount
<1>1. HwTables
  <2>1. PICK later \in {{}, {Highway!Traffic}, {Highway!Incident}} :
           state = [s \in Highway!Source |-> [started |-> 0, success |-> Highway!None, error |-> FALSE,
                       due |-> IF s \in later THEN HwTime + 1 ELSE 0]]
    OBVIOUS
  <2>2. state \in [Highway!Source -> HwState]
    BY <2>1 DEF HwState, Highway!None
  <2>3. QED
    BY <1>0, <2>2 DEF HwTables, Highway!None, Highway!Time
<1>2. HwProcs
  BY <1>0 DEF HwProcs, HwSeen, Highway!None
<1>3. HwResults
  BY DEF HwResults, Highway!NoAnswer
<1>4. HwOrders
  <2>1. {k \in HwKey : head.order > 0 /\ current[k].order = head.order} = {}
    OBVIOUS
  <2>2. Highway!TrafficHeadWhole
    BY <2>1, FS_EmptySet, HwCardinality DEF Highway!TrafficHeadWhole
  <2>3. QED
    BY <2>2 DEF HwOrders
<1>5. HwActive
  BY DEF HwActive, Highway!NoRow, Highway!None, Highway!Source, Highway!Incident
<1>6. Highway!StatisticsMatch
  BY DEF Highway!StatisticsMatch
<1>7. QED
  BY <1>1, <1>2, <1>3, <1>4, <1>5, <1>6 DEF HwInv, HwTypes

\* The rows a run may write have their types.
LEMMA HwRows ==
  ASSUME HighwayBounds, HwTypes, NEW s \in Highway!Source, NEW p \in HwProc
  PROVE  /\ Highway!MarkedSuccess(p, s) \in HwState /\ Highway!MarkedSuccess(p, s).success = now
         /\ [state[s] EXCEPT !.error = TRUE, !.due = now + HwInterval] \in HwState
         /\ [state[s] EXCEPT !.error = TRUE] \in HwState
         /\ [state[s] EXCEPT !.started = now, !.due = now + HwReservation] \in HwState
<1>1. now \in 0..HwTime /\ state[s] \in HwState /\ seen[p][s] \in HwSeen
  BY DEF HwTypes, HwTables, HwProcs
<1>2. HwInterval \in Nat /\ HwReservation \in Nat
  BY DEF HighwayBounds
<1>3. (IF loaded[p] THEN seen[p][s].started ELSE state[s].started) + HwInterval \in Int
  BY <1>1, <1>2 DEF HwState, HwSeen
<1>4. (state[s].error /\ loaded[p] /\ ~ seen[p][s].error) \in BOOLEAN
  OBVIOUS
<1>5. Highway!MarkedSuccess(p, s) \in HwState /\ Highway!MarkedSuccess(p, s).success = now
  BY <1>1, <1>3, <1>4 DEF Highway!MarkedSuccess, HwState
<1>6. now + HwInterval \in Int /\ now + HwReservation \in Int
  BY <1>1, <1>2
<1>7. \A r \in HwState : \A t \in 0..HwTime : \A n \in Int :
        /\ [r EXCEPT !.started = t] \in HwState
        /\ [r EXCEPT !.due = n] \in HwState
        /\ [r EXCEPT !.error = TRUE] \in HwState
  BY DEF HwState
<1>8. \A r \in HwState : \A t \in 0..HwTime : \A n \in Int :
        /\ [r EXCEPT !.started = t, !.due = n] \in HwState
        /\ [r EXCEPT !.error = TRUE, !.due = n] \in HwState
  BY <1>7
<1>9. QED
  BY <1>1, <1>5, <1>6, <1>7, <1>8

\* A step of the processes keeps the types of their variables.
LEMMA HwProcsStep ==
  HighwayBounds /\ HwTypes /\ [Highway!Next]_(Highway!vars) => HwProcs'
<1> SUFFICES ASSUME HighwayBounds, HwTypes, [Highway!Next]_(Highway!vars) PROVE HwProcs'
  OBVIOUS
<1>0. /\ pc \in [HwProc -> {"idle", "fetch", "store"}] /\ run \in [HwProc -> 0..HwRuns]
      /\ claimed \in [HwProc -> SUBSET Highway!Source]
      /\ seen \in [HwProc -> [Highway!Source -> HwSeen]]
      /\ loaded \in [HwProc -> BOOLEAN] /\ HwRuns \in Nat /\ HwKeys \in Nat
  BY KeyCount DEF HwTypes, HwProcs, HighwayBounds
<1>1. CASE UNCHANGED <<pc, run, claimed, seen, loaded>>
  BY <1>0, <1>1 DEF HwProcs
<1>2. ASSUME NEW p \in HwProc, Highway!Claim(p) PROVE HwProcs'
  <2>1. /\ now \in 0..HwTime /\ nextRun \in 0..HwRuns
        /\ Highway!Due \in SUBSET Highway!Source
    <3>1. nextRun <= HwRuns
      BY <1>2 DEF Highway!Claim
    <3>2. now \in 0..HwTime /\ nextRun \in 1..(HwRuns + 1)
      BY DEF HwTypes, HwTables
    <3>3. Highway!Due \in SUBSET Highway!Source
      BY DEF Highway!Due
    <3>4. QED
      BY <1>0, <3>1, <3>2, <3>3
  <2>2. [s \in Highway!Source |-> [base |-> baseline[s], started |-> now, error |-> state[s].error]]
          \in [Highway!Source -> HwSeen]
    BY <2>1 DEF HwTypes, HwTables, HwSeen, HwState
  <2>3. QED
    BY <1>0, <1>2, <2>1, <2>2 DEF Highway!Claim, HwProcs
<1>3. ASSUME NEW p \in HwProc, Highway!Fetch(p) PROVE HwProcs'
  BY <1>0, <1>3 DEF Highway!Fetch, HwProcs
<1>4. ASSUME NEW p \in HwProc, NEW s \in Highway!Source, Highway!Leave(p, s),
             loaded' \in [HwProc -> BOOLEAN]
      PROVE  HwProcs'
  BY <1>0, <1>4 DEF Highway!Leave, HwProcs
<1>5. ASSUME NEW p \in HwProc, Highway!Reset(p) PROVE HwProcs'
  <2>1. [s \in Highway!Source |-> [base |-> Highway!None, started |-> 0, error |-> FALSE]]
          \in [Highway!Source -> HwSeen]
    BY <1>0 DEF HwSeen, Highway!None, HighwayBounds
  <2>2. seen' \in [HwProc -> [Highway!Source -> HwSeen]]
    <3>1. seen' = [seen EXCEPT ![p] = [s \in Highway!Source |->
                      [base |-> Highway!None, started |-> 0, error |-> FALSE]]]
      BY <1>5 DEF Highway!Reset
    <3>2. QED
      BY <1>0, <2>1, <3>1
  <2>3. /\ pc' \in [HwProc -> {"idle", "fetch", "store"}] /\ run' \in [HwProc -> 0..HwRuns]
        /\ claimed' \in [HwProc -> SUBSET Highway!Source]
    BY <1>0, <1>5 DEF Highway!Reset
  <2>4. loaded' \in [HwProc -> BOOLEAN]
    BY <1>0, <1>5 DEF Highway!Reset
  <2>5. QED
    BY <2>2, <2>3, <2>4 DEF HwProcs
<1>6. ASSUME NEW p \in HwProc,
             \/ Highway!StoreTraffic(p) \/ Highway!StoreIncidents(p)
             \/ \E s \in Highway!Source : Highway!StoreError(p, s) \/ Highway!StoreFails(p, s)
      PROVE  HwProcs'
  <2>1. loaded' \in [HwProc -> BOOLEAN]
    BY <1>0, <1>6 DEF Highway!StoreTraffic, Highway!StoreIncidents, Highway!StoreError,
       Highway!StoreFails
  <2>2. \E s \in Highway!Source : Highway!Leave(p, s)
    BY <1>6 DEF Highway!StoreTraffic, Highway!StoreIncidents, Highway!StoreError,
       Highway!StoreFails, Highway!Source
  <2>3. QED
    BY <1>4, <2>1, <2>2
<1>7. QED
  BY <1>1, <1>2, <1>3, <1>5, <1>6 DEF Highway!Next, Highway!Step, Highway!Tick, Highway!Finish,
     Highway!Cancel, Highway!Crash, Highway!vars, Highway!procVars

\* What a run keeps of KREX stays one of its answers.
LEMMA HwResultsStep ==
  HighwayBounds /\ HwTypes /\ [Highway!Next]_(Highway!vars) => HwResults'
<1> SUFFICES ASSUME HighwayBounds, HwTypes, [Highway!Next]_(Highway!vars) PROVE HwResults'
  OBVIOUS
<1> USE DEF HwTypes
<1>1. CASE UNCHANGED result
  BY <1>1 DEF HwResults
<1>2. ASSUME NEW p \in HwProc, Highway!Fetch(p) PROVE HwResults'
  <2>1. PICK t \in Highway!Outcomes(Highway!Traffic, seen[p][Highway!Traffic].base),
             i \in Highway!Outcomes(Highway!Incident, seen[p][Highway!Incident].base) :
           result' = [result EXCEPT ![p] = [s \in Highway!Source |->
                         IF s \notin claimed[p] THEN Highway!NoAnswer
                         ELSE IF s = Highway!Traffic THEN t ELSE i]]
    BY <1>2 DEF Highway!Fetch
  <2>2. /\ t.ok => t.items \in HwAnswers[Highway!Traffic]
        /\ i.ok => i.items \in HwAnswers[Highway!Incident]
    BY OutcomeOf DEF Highway!Source
  <2>3. \A s \in Highway!Source : result'[p][s].ok => result'[p][s].items \in HwAnswers[s]
    BY <2>1, <2>2 DEF HwResults, Highway!Source, Highway!NoAnswer
  <2>4. QED
    BY <2>1, <2>3 DEF HwResults
<1>3. ASSUME NEW p \in HwProc, NEW s \in Highway!Source,
             result' = [result EXCEPT ![p][s] = Highway!NoAnswer]
      PROVE  HwResults'
  BY <1>3 DEF HwResults, Highway!NoAnswer
<1>4. ASSUME NEW p \in HwProc,
             result' = [result EXCEPT ![p] = [s \in Highway!Source |-> Highway!NoAnswer]]
      PROVE  HwResults'
  BY <1>4 DEF HwResults, Highway!NoAnswer
<1>5. QED
  BY <1>1, <1>2, <1>3, <1>4 DEF Highway!Next, Highway!Step, Highway!Tick, Highway!Claim,
     Highway!StoreTraffic, Highway!StoreIncidents, Highway!StoreError, Highway!StoreFails,
     Highway!Leave, Highway!Finish, Highway!Cancel, Highway!Crash, Highway!Reset, Highway!Source,
     Highway!vars, Highway!procVars

\* What the store of an answer writes.
LEMMA HwPoint ==
  ASSUME HighwayBounds, HwTypes, NEW p \in HwProc, result[p][Highway!Traffic].ok
  PROVE  LET a == result[p][Highway!Traffic]
         IN  /\ a.items \in HwAnswers[Highway!Traffic] /\ DOMAIN a.items \subseteq HwKey
             /\ Highway!Size(a) = Cardinality(DOMAIN a.items) /\ Highway!Size(a) \in 0..HwKeys
             /\ \A k \in DOMAIN a.items : Highway!Observed(a, k) \in 0..now
<1> DEFINE a == result[p][Highway!Traffic]
<1>1. Highway!Traffic \in Highway!Source /\ now \in 0..HwTime
  BY DEF Highway!Source, HwTypes, HwTables
<1>2. a.items \in HwAnswers[Highway!Traffic]
  BY <1>1 DEF HwTypes, HwResults
<1>3. DOMAIN a.items \subseteq HwKey /\ \A k \in DOMAIN a.items : a.items[k] \in Nat
  BY <1>1, <1>2 DEF HighwayBounds
<1>4. \A k \in DOMAIN a.items : Highway!Observed(a, k) \in 0..now
  BY <1>1, <1>3 DEF Highway!Observed, HighwayBounds
<1>5. QED
  BY <1>1, <1>2, <1>3, <1>4, AnswerSize

\* A step keeps the types of the tables.
LEMMA HwTablesStep ==
  HighwayBounds /\ HwTypes /\ [Highway!Next]_(Highway!vars) => HwTables'
<1> SUFFICES ASSUME HighwayBounds, HwTypes, [Highway!Next]_(Highway!vars) PROVE HwTables'
  OBVIOUS
<1>0. /\ now \in 0..HwTime /\ nextRun \in 1..(HwRuns + 1)
      /\ state \in [Highway!Source -> HwState]
      /\ baseline \in [Highway!Source -> -1..HwKeys]
      /\ history \in [HwKey -> [0..HwTime -> 0..HwRuns]]
      /\ head \in [order : 0..HwRuns, count : 0..HwKeys]
      /\ current \in [HwKey -> [order : 0..HwRuns, at : -1..HwTime]]
      /\ run \in [HwProc -> 0..HwRuns] /\ HwRuns \in Nat /\ HwTime \in Nat /\ HwKeys \in Nat
  BY KeyCount DEF HwTypes, HwTables, HwProcs, HighwayBounds
<1>1. CASE Highway!Tick
  BY <1>0, <1>1 DEF Highway!Tick, Highway!dbVars, HwTables
<1>2. CASE UNCHANGED <<now, Highway!dbVars>>
  BY <1>0, <1>2 DEF Highway!dbVars, HwTables
<1>3. ASSUME NEW p \in HwProc, Highway!Claim(p) PROVE HwTables'
  <2>1. /\ nextRun' \in 1..(HwRuns + 1)
        /\ UNCHANGED <<now, baseline, history, head, current>>
    <3>1. nextRun <= HwRuns /\ nextRun' = nextRun + 1
      BY <1>3 DEF Highway!Claim
    <3>2. UNCHANGED <<now, baseline, history, head, current>>
      BY <1>3 DEF Highway!Claim
    <3>3. QED
      BY <1>0, <3>1, <3>2
  <2>2. state' \in [Highway!Source -> HwState]
    <3>1. \A s \in Highway!Source :
             [state[s] EXCEPT !.started = now, !.due = now + HwReservation] \in HwState
      BY HwRows
    <3>2. QED
      BY <1>0, <1>3, <3>1 DEF Highway!Claim
  <2>3. QED
    BY <1>0, <2>1, <2>2 DEF HwTables
<1>4. ASSUME NEW p \in HwProc, Highway!StoreTraffic(p) PROVE HwTables'
  <2> DEFINE a == result[p][Highway!Traffic]
  <2>0. a.ok /\ Highway!Traffic \in Highway!Source /\ UNCHANGED <<now, nextRun>>
    BY <1>4 DEF Highway!StoreTraffic, Highway!Source
  <2>1. /\ DOMAIN a.items \subseteq HwKey /\ Highway!Size(a) \in 0..HwKeys
        /\ \A k \in DOMAIN a.items : Highway!Observed(a, k) \in 0..now
    BY <2>0, HwPoint
  <2>2. state' \in [Highway!Source -> HwState] /\ baseline' \in [Highway!Source -> -1..HwKeys]
    <3>1. Highway!MarkedSuccess(p, Highway!Traffic) \in HwState
      BY <2>0, HwRows
    <3>2. QED
      BY <1>0, <1>4, <2>0, <2>1, <3>1 DEF Highway!StoreTraffic
  <2>3. history' \in [HwKey -> [0..HwTime -> 0..HwRuns]]
    <3>1. history' = Highway!NewHistory(p, a)
      BY <1>4 DEF Highway!StoreTraffic
    <3>2. QED
      BY <1>0, <3>1 DEF Highway!NewHistory, Highway!Time
  <2>4. CASE Highway!Overtaken(p)
    <3>1. UNCHANGED <<head, current>>
      BY <1>4, <2>4 DEF Highway!StoreTraffic
    <3>2. QED
      BY <1>0, <2>0, <2>2, <2>3, <3>1 DEF HwTables
  <2>5. CASE ~ Highway!Overtaken(p)
    <3>1. head' = [order |-> run[p], count |-> Highway!Size(a)] /\ current' = Highway!NewCurrent(p, a)
      BY <1>4, <2>5 DEF Highway!StoreTraffic
    <3>2. head' \in [order : 0..HwRuns, count : 0..HwKeys]
      BY <1>0, <2>1, <3>1
    <3>3. \A k \in DOMAIN a.items : Highway!Observed(a, k) \in -1..HwTime
      BY <1>0, <2>1
    <3>4. current' \in [HwKey -> [order : 0..HwRuns, at : -1..HwTime]]
      BY <1>0, <3>1, <3>3 DEF Highway!NewCurrent
    <3>5. QED
      BY <1>0, <2>0, <2>2, <2>3, <3>2, <3>4 DEF HwTables
  <2>6. QED
    BY <2>4, <2>5
<1>5. ASSUME NEW p \in HwProc, Highway!StoreIncidents(p) PROVE HwTables'
  <2> DEFINE a == result[p][Highway!Incident]
  <2>0. a.ok /\ Highway!Incident \in Highway!Source
    BY <1>5 DEF Highway!StoreIncidents, Highway!Source
  <2>1. Highway!Size(a) \in 0..HwKeys
    BY <2>0, AnswerSize DEF HwTypes, HwResults
  <2>2. Highway!MarkedSuccess(p, Highway!Incident) \in HwState
    BY <2>0, HwRows
  <2>3. QED
    BY <1>0, <1>5, <2>0, <2>1, <2>2 DEF Highway!StoreIncidents, HwTables
<1>6. ASSUME NEW p \in HwProc, NEW s \in Highway!Source,
             Highway!StoreError(p, s) \/ Highway!StoreFails(p, s)
      PROVE  HwTables'
  <2>1. [state[s] EXCEPT !.error = TRUE, !.due = now + HwInterval] \in HwState
    BY HwRows
  <2>2. /\ state' = [state EXCEPT ![s] = [state[s] EXCEPT !.error = TRUE, !.due = now + HwInterval]]
        /\ UNCHANGED <<now, nextRun, baseline, history, head, current>>
    BY <1>6 DEF Highway!StoreError, Highway!StoreFails, Highway!MarkFailure
  <2>3. QED
    BY <1>0, <2>1, <2>2 DEF HwTables
<1>7. ASSUME NEW p \in HwProc, Highway!Cancel(p) PROVE HwTables'
  <2>1. \A s \in Highway!Source : [state[s] EXCEPT !.error = TRUE] \in HwState
    BY HwRows
  <2>2. QED
    BY <1>0, <1>7, <2>1 DEF Highway!Cancel, HwTables
<1>8. QED
  BY <1>1, <1>2, <1>3, <1>4, <1>5, <1>6, <1>7 DEF Highway!Next, Highway!Step, Highway!Fetch,
     Highway!Finish, Highway!Crash, Highway!vars

\* The stores of traffic: the whole answer of a run becomes the head, or nothing does.
LEMMA HwTrafficStored ==
  ASSUME HighwayBounds, HwTypes, HwOrders, NEW p \in HwProc, Highway!StoreTraffic(p)
  PROVE  /\ head'.order < nextRun
         /\ head'.order >= head.order /\ head'.order \in {head.order, run[p]}
         /\ \A k \in HwKey : current'[k].order <= head'.order /\ current'[k].at >= current[k].at
         /\ Highway!TrafficHeadWhole'
<1> DEFINE a == result[p][Highway!Traffic]
<1>0. /\ head \in [order : 0..HwRuns, count : 0..HwKeys]
      /\ current \in [HwKey -> [order : 0..HwRuns, at : -1..HwTime]]
      /\ run \in [HwProc -> 0..HwRuns] /\ now \in 0..HwTime
      /\ nextRun \in 1..(HwRuns + 1) /\ HwRuns \in Nat
  BY DEF HwTypes, HwTables, HwProcs, HighwayBounds
<1>1. /\ a.ok /\ pc[p] # "idle" /\ Highway!Traffic \in claimed[p]
      /\ run[p] # head.order /\ run[p] > 0 /\ run[p] < nextRun
  BY DEF Highway!StoreTraffic, Highway!Turn, HwOrders
<1>2. /\ DOMAIN a.items \subseteq HwKey /\ Highway!Size(a) = Highway!Cardinality(DOMAIN a.items)
      /\ \A k \in DOMAIN a.items : Highway!Observed(a, k) \in 0..now
  BY <1>1, HwPoint, HwCardinality
<1>3. CASE Highway!Overtaken(p)
  <2>1. UNCHANGED <<head, current>>
    BY <1>3 DEF Highway!StoreTraffic
  <2>2. QED
    BY <1>0, <2>1 DEF HwOrders, Highway!TrafficHeadWhole
<1>4. CASE ~ Highway!Overtaken(p)
  <2>1. head' = [order |-> run[p], count |-> Highway!Size(a)] /\ current' = Highway!NewCurrent(p, a)
    BY <1>4 DEF Highway!StoreTraffic
  <2>2. run[p] > head.order
    BY <1>0, <1>1, <1>4 DEF Highway!Overtaken
  <2>3. \A k \in HwKey : IF k \in DOMAIN a.items
                         THEN /\ current'[k].order = run[p]
                              /\ current'[k].at >= current[k].at
                         ELSE current'[k] = current[k]
    <3> TAKE k \in HwKey
    <3>1. CASE k \in DOMAIN a.items
      <4>1. current'[k] = [order |-> run[p],
                           at |-> IF Highway!Observed(a, k) >= current[k].at
                                  THEN Highway!Observed(a, k) ELSE current[k].at]
        BY <2>1, <3>1 DEF Highway!NewCurrent
      <4>2. Highway!Observed(a, k) \in Int /\ current[k].at \in Int
        BY <1>0, <1>2, <3>1
      <4>3. QED
        BY <3>1, <4>1, <4>2
    <3>2. CASE k \notin DOMAIN a.items
      BY <2>1, <3>2 DEF Highway!NewCurrent
    <3>3. QED
      BY <3>1, <3>2
  <2>4. \A k \in HwKey : current[k].order <= head.order /\ current[k].order \in Int /\ current[k].at \in Int
    BY <1>0 DEF HwOrders
  <2>5. head'.order = run[p] /\ head'.count = Highway!Cardinality(DOMAIN a.items)
    BY <1>2, <2>1
  <2>6. {k \in HwKey : head'.order > 0 /\ current'[k].order = head'.order} = DOMAIN a.items
    BY <1>0, <1>1, <1>2, <2>2, <2>3, <2>4, <2>5
  <2>7. Highway!TrafficHeadWhole'
    BY <2>5, <2>6 DEF Highway!TrafficHeadWhole
  <2>8. QED
    BY <1>0, <1>1, <2>2, <2>3, <2>4, <2>5, <2>7
<1>5. QED
  BY <1>3, <1>4

\* A step keeps the order of the runs.
LEMMA HwOrdersStep ==
  HighwayBounds /\ HwTypes /\ HwOrders /\ [Highway!Next]_(Highway!vars) => HwOrders'
<1> SUFFICES ASSUME HighwayBounds, HwTypes, HwOrders, [Highway!Next]_(Highway!vars) PROVE HwOrders'
  OBVIOUS
<1>0. /\ head.order \in 0..HwRuns /\ nextRun \in 1..(HwRuns + 1) /\ HwRuns \in Nat
      /\ pc \in [HwProc -> {"idle", "fetch", "store"}] /\ run \in [HwProc -> 0..HwRuns]
      /\ claimed \in [HwProc -> SUBSET Highway!Source]
  BY DEF HwTypes, HwTables, HwProcs, HighwayBounds
<1>1. ASSUME UNCHANGED <<nextRun, run>>, NEW p \in HwProc,
             /\ \A q \in HwProc : pc'[q] # "idle" => pc[q] # "idle" /\ claimed'[q] \subseteq claimed[q]
             /\ UNCHANGED <<head, current>> \/ (Highway!StoreTraffic(p) /\ Highway!Traffic \notin claimed'[p])
      PROVE  HwOrders'
  <2>1. CASE UNCHANGED <<head, current>>
    BY <1>1, <2>1 DEF HwOrders, Highway!TrafficHeadWhole
  <2>2. CASE Highway!StoreTraffic(p) /\ Highway!Traffic \notin claimed'[p]
    <3>1. /\ head'.order < nextRun /\ head'.order \in {head.order, run[p]}
          /\ \A k \in HwKey : current'[k].order <= head'.order
          /\ Highway!TrafficHeadWhole'
      BY <2>2, HwTrafficStored
    <3>2. pc[p] # "idle"
      BY <2>2 DEF Highway!StoreTraffic, Highway!Turn
    <3>3. \A q \in HwProc : pc'[q] # "idle" /\ Highway!Traffic \in claimed'[q] => run[q] # head'.order
      BY <1>1, <2>2, <3>1, <3>2 DEF HwOrders
    <3>4. QED
      BY <1>1, <3>1, <3>3 DEF HwOrders
  <2>3. QED
    BY <1>1, <2>1, <2>2
<1>2. ASSUME NEW p \in HwProc, Highway!Claim(p) PROVE HwOrders'
  <2>1. /\ run' = [run EXCEPT ![p] = nextRun] /\ nextRun' = nextRun + 1
        /\ pc' = [pc EXCEPT ![p] = "fetch"] /\ claimed' = [claimed EXCEPT ![p] = Highway!Due]
        /\ UNCHANGED <<head, current>>
    BY <1>2 DEF Highway!Claim
  <2>2. \A q \in HwProc \ {p} : pc'[q] = pc[q] /\ run'[q] = run[q] /\ claimed'[q] = claimed[q]
    BY <1>0, <2>1
  <2>3. pc'[p] # "idle" /\ run'[p] = nextRun
    BY <1>0, <2>1
  <2>4. Highway!TrafficHeadWhole'
    BY <2>1 DEF HwOrders, Highway!TrafficHeadWhole
  <2>5. \A q \in HwProc : run[q] < nextRun /\ run[q] \in Int
    BY <1>0 DEF HwOrders
  <2>6. head.order < nextRun /\ \A k \in HwKey : current[k].order <= head.order
    BY DEF HwOrders
  <2>7. /\ \A q \in HwProc : run'[q] < nextRun'
        /\ \A q \in HwProc : pc'[q] # "idle" => run'[q] > 0
        /\ \A q \in HwProc : pc'[q] # "idle" /\ Highway!Traffic \in claimed'[q] => run'[q] # head.order
    BY <1>0, <2>1, <2>2, <2>3, <2>5, <2>6 DEF HwOrders
  <2>8. \A q, r \in HwProc : q # r /\ pc'[q] # "idle" /\ pc'[r] # "idle" => run'[q] # run'[r]
    BY <1>0, <2>2, <2>3, <2>5 DEF HwOrders
  <2>9. QED
    BY <1>0, <2>1, <2>4, <2>6, <2>7, <2>8 DEF HwOrders
<1>3. ASSUME NEW p \in HwProc, Highway!Reset(p), UNCHANGED <<nextRun, head, current>> PROVE HwOrders'
  <2>1. /\ run' = [run EXCEPT ![p] = 0] /\ pc' = [pc EXCEPT ![p] = "idle"]
        /\ claimed' = [claimed EXCEPT ![p] = {}]
    BY <1>3 DEF Highway!Reset
  <2>2. \A q \in HwProc \ {p} : pc'[q] = pc[q] /\ run'[q] = run[q] /\ claimed'[q] = claimed[q]
    BY <1>0, <2>1
  <2>3. pc'[p] = "idle" /\ run'[p] = 0
    BY <1>0, <2>1
  <2>4. QED
    BY <1>0, <1>3, <2>2, <2>3 DEF HwOrders, Highway!TrafficHeadWhole
<1>4. CASE Highway!Tick \/ UNCHANGED Highway!vars
  BY <1>4 DEF Highway!Tick, Highway!vars, Highway!dbVars, Highway!procVars, HwOrders,
     Highway!TrafficHeadWhole
<1>5. ASSUME NEW p \in HwProc, Highway!Fetch(p) PROVE HwOrders'
  <2>1. /\ UNCHANGED <<nextRun, run, head, current, claimed>> /\ pc[p] = "fetch"
        /\ pc' = [pc EXCEPT ![p] = "store"]
    BY <1>5 DEF Highway!Fetch, Highway!dbVars
  <2>2. QED
    BY <1>0, <1>1, <2>1
<1>6. ASSUME NEW p \in HwProc, Highway!StoreTraffic(p) PROVE HwOrders'
  <2>1. /\ UNCHANGED <<nextRun, run, pc>>
        /\ claimed' = [claimed EXCEPT ![p] = claimed[p] \ {Highway!Traffic}]
    BY <1>6 DEF Highway!StoreTraffic, Highway!Leave
  <2>2. QED
    BY <1>0, <1>1, <1>6, <2>1
<1>7. ASSUME NEW p \in HwProc, NEW s \in Highway!Source,
             \/ s = Highway!Incident /\ Highway!StoreIncidents(p)
             \/ Highway!StoreError(p, s) \/ Highway!StoreFails(p, s)
      PROVE  HwOrders'
  <2>1. /\ UNCHANGED <<nextRun, run, pc, head, current>>
        /\ claimed' = [claimed EXCEPT ![p] = claimed[p] \ {s}]
    BY <1>7 DEF Highway!StoreIncidents, Highway!StoreError, Highway!StoreFails, Highway!Leave
  <2>2. QED
    BY <1>0, <1>1, <2>1
<1>8. QED
  BY <1>2, <1>3, <1>4, <1>5, <1>6, <1>7 DEF Highway!Next, Highway!Step, Highway!Finish,
     Highway!Cancel, Highway!Crash, Highway!dbVars, Highway!Source

\* A step keeps the rows of the last success and the last answer the same incidents.
LEMMA HwActiveStep ==
  HighwayBounds /\ HwTypes /\ HwActive /\ [Highway!Next]_(Highway!vars) => HwActive'
<1> SUFFICES ASSUME HighwayBounds, HwTypes, HwActive, [Highway!Next]_(Highway!vars) PROVE HwActive'
  OBVIOUS
<1> DEFINE in == Highway!Incident
<1>0. /\ in \in Highway!Source /\ state \in [Highway!Source -> HwState] /\ now \in 0..HwTime
      /\ HwTime \in Nat /\ state[in].success \in -1..HwTime
  BY DEF HwTypes, HwTables, HighwayBounds, Highway!Source, HwState
<1>1. ASSUME UNCHANGED <<incidents, active>>, state'[in].success = state[in].success, now' >= now,
             now' \in Int
      PROVE  HwActive'
  BY <1>0, <1>1 DEF HwActive
<1>2. ASSUME NEW p \in HwProc, Highway!StoreIncidents(p) PROVE HwActive'
  <2> DEFINE a == result[p][in]
  <2>1. /\ a.ok /\ now > state[in].success /\ UNCHANGED now
        /\ state' = [state EXCEPT ![in] = Highway!MarkedSuccess(p, in)]
        /\ incidents' = [k \in HwKey |-> IF k \in DOMAIN a.items THEN Highway!Recorded(a, k)
                                         ELSE incidents[k]]
        /\ active' = a.items
    BY <1>2 DEF Highway!StoreIncidents
  <2>2. state'[in].success = now
    BY <1>0, <2>1, HwRows
  <2>3. a.items \in HwAnswers[in]
    BY <1>0, <2>1 DEF HwTypes, HwResults
  <2>4. DOMAIN a.items \subseteq HwKey /\ a.items = [k \in DOMAIN a.items |-> a.items[k]]
    BY <1>0, <2>3 DEF HighwayBounds
  <2>5. \A k \in HwKey : IF k \in DOMAIN a.items
                         THEN incidents'[k].collected = now /\ incidents'[k].state = a.items[k]
                         ELSE incidents'[k] = incidents[k]
    BY <2>1 DEF Highway!Recorded
  <2>6. \A k \in HwKey : incidents[k].collected < now /\ incidents[k].collected \in -1..HwTime
    BY <1>0, <2>1 DEF HwActive
  <2>7. active' = [k \in DOMAIN active' |-> active'[k]] /\ DOMAIN active' \subseteq HwKey
    BY <2>1, <2>4
  <2>8. \A k \in HwKey : /\ incidents'[k].collected \in -1..HwTime /\ incidents'[k].collected <= now
                         /\ incidents'[k].collected = now <=> k \in DOMAIN active'
                         /\ k \in DOMAIN active' => incidents'[k].state = active'[k]
    BY <1>0, <2>1, <2>5, <2>6
  <2>9. QED
    BY <1>0, <2>1, <2>2, <2>7, <2>8 DEF HwActive
<1>3. ASSUME NEW p \in HwProc, Highway!Claim(p) PROVE HwActive'
  <2>1. \A s \in Highway!Source :
           [state[s] EXCEPT !.started = now, !.due = now + HwReservation].success = state[s].success
    BY <1>0 DEF HwState
  <2>2. state'[in].success = state[in].success /\ UNCHANGED <<now, incidents, active>>
    BY <1>0, <1>3, <2>1 DEF Highway!Claim
  <2>3. QED
    BY <1>0, <1>1, <2>2
<1>4. ASSUME NEW p \in HwProc, Highway!StoreTraffic(p) PROVE HwActive'
  <2>1. state'[in] = state[in] /\ UNCHANGED <<now, incidents, active>>
    BY <1>0, <1>4 DEF Highway!StoreTraffic, Highway!Traffic, Highway!Incident
  <2>2. QED
    BY <1>0, <1>1, <2>1
<1>5. ASSUME NEW p \in HwProc, NEW s \in Highway!Source,
             Highway!StoreError(p, s) \/ Highway!StoreFails(p, s)
      PROVE  HwActive'
  <2>1. /\ state' = [state EXCEPT ![s] = [state[s] EXCEPT !.error = TRUE, !.due = now + HwInterval]]
        /\ UNCHANGED <<now, incidents, active>>
    BY <1>5 DEF Highway!StoreError, Highway!StoreFails, Highway!MarkFailure
  <2>2. [state[s] EXCEPT !.error = TRUE, !.due = now + HwInterval].success = state[s].success
    BY <1>0 DEF HwState
  <2>3. state'[in].success = state[in].success
    BY <1>0, <2>1, <2>2
  <2>4. QED
    BY <1>0, <1>1, <2>1, <2>3
<1>6. ASSUME NEW p \in HwProc, Highway!Cancel(p) PROVE HwActive'
  <2>1. [state[in] EXCEPT !.error = TRUE].success = state[in].success
    BY <1>0 DEF HwState
  <2>2. state'[in].success = state[in].success /\ UNCHANGED <<now, incidents, active>>
    BY <1>0, <1>6, <2>1 DEF Highway!Cancel
  <2>3. QED
    BY <1>0, <1>1, <2>2
<1>7. CASE Highway!Tick \/ UNCHANGED <<now, Highway!dbVars>>
  <2>1. UNCHANGED <<state, incidents, active>> /\ now' \in {now, now + 1}
    BY <1>7 DEF Highway!Tick, Highway!dbVars
  <2>2. QED
    BY <1>0, <1>1, <2>1
<1>8. QED
  BY <1>2, <1>3, <1>4, <1>5, <1>6, <1>7 DEF Highway!Next, Highway!Step, Highway!Fetch,
     Highway!Finish, Highway!Crash, Highway!vars

\* A step keeps the statistics what their buckets hold: what a store changes it rebuilds.
LEMMA HwStatisticsStep ==
  Highway!StatisticsMatch /\ [Highway!Next]_(Highway!vars) => Highway!StatisticsMatch'
<1> SUFFICES ASSUME Highway!StatisticsMatch, [Highway!Next]_(Highway!vars)
             PROVE  Highway!StatisticsMatch'
  OBVIOUS
<1>1. CASE UNCHANGED <<history, statistics>>
  BY <1>1 DEF Highway!StatisticsMatch
<1>2. ASSUME NEW p \in HwProc, Highway!StoreTraffic(p) PROVE Highway!StatisticsMatch'
  <2> DEFINE a == result[p][Highway!Traffic]
  <2>1. /\ history' = Highway!NewHistory(p, a)
        /\ statistics' = [t \in Highway!Time |-> IF t \in Highway!Rebuilt(a)
                             THEN [k \in HwKey |-> history'[k][t]] ELSE statistics[t]]
    BY <1>2 DEF Highway!StoreTraffic
  <2> SUFFICES ASSUME NEW t \in Highway!Time, NEW k \in HwKey
               PROVE  statistics'[t][k] = history'[k][t]
    BY DEF Highway!StatisticsMatch, Highway!Time
  <2>2. CASE t \in Highway!Rebuilt(a)
    BY <2>1, <2>2
  <2>3. CASE t \notin Highway!Rebuilt(a)
    <3>1. <<k, t>> \notin Highway!Points(a)
      BY <2>3 DEF Highway!Rebuilt
    <3>2. history'[k][t] = history[k][t]
      BY <2>1, <3>1 DEF Highway!NewHistory
    <3>3. QED
      BY <2>1, <2>3, <3>2 DEF Highway!StatisticsMatch
  <2>4. QED
    BY <2>2, <2>3
<1>3. QED
  BY <1>1, <1>2 DEF Highway!Next, Highway!Step, Highway!Tick, Highway!Claim, Highway!Fetch,
     Highway!StoreIncidents, Highway!StoreError, Highway!StoreFails, Highway!Finish,
     Highway!Cancel, Highway!Crash, Highway!vars, Highway!dbVars

\* Every step keeps the invariant.
LEMMA HwStep == HighwayBounds /\ HwInv /\ [Highway!Next]_(Highway!vars) => HwInv'
  BY HwTablesStep, HwProcsStep, HwResultsStep, HwOrdersStep, HwActiveStep, HwStatisticsStep
     DEF HwInv, HwTypes

\* What highway readers are served is derived exactly from what the collection committed: the
\* active incidents, the rebuilt statistics, and the current traffic set, however runs overlap.
THEOREM HighwayExact ==
  ASSUME HighwayBounds
  PROVE  Highway!Spec => [](/\ Highway!TypeOK /\ Highway!ActiveSetExact
                            /\ Highway!StatisticsMatch /\ Highway!TrafficHeadWhole)
<1>1. Highway!Init => HwInv
  BY HwInit
<1>2. HwInv /\ [Highway!Next]_(Highway!vars) => HwInv'
  BY HwStep
<1>3. HwInv => Highway!TypeOK
  BY HwCardinality DEF HwInv, HwTypes, HwTables, HwProcs, HwState, HwKeys, Highway!TypeOK,
     Highway!Time, Highway!None
<1>4. HwInv => Highway!ActiveSetExact
  <2> SUFFICES ASSUME HwInv, Highway!Served PROVE Highway!Exported = active
    BY DEF Highway!ActiveSetExact
  <2> DEFINE exported == {k \in HwKey : incidents[k].collected >= state[Highway!Incident].success}
  <2>1. state[Highway!Incident].success \in Int /\ state[Highway!Incident].success # Highway!None
    BY DEF Highway!Served, HwInv, HwTypes, HwTables, HwState, Highway!Source, HighwayBounds
  <2>2. \A k \in HwKey : /\ incidents[k].collected \in Int
                         /\ incidents[k].collected <= state[Highway!Incident].success
                         /\ incidents[k].collected = state[Highway!Incident].success
                              <=> k \in DOMAIN active
                         /\ k \in DOMAIN active => incidents[k].state = active[k]
    BY <2>1 DEF HwInv, HwActive, HighwayBounds
  <2>3. exported = DOMAIN active /\ active = [k \in DOMAIN active |-> active[k]]
    <3>1. active = [k \in DOMAIN active |-> active[k]] /\ DOMAIN active \subseteq HwKey
      BY DEF HwInv, HwActive
    <3>2. \A k \in HwKey : incidents[k].collected >= state[Highway!Incident].success
                             <=> k \in DOMAIN active
      BY <2>1, <2>2
    <3>3. QED
      BY <3>1, <3>2
  <2>4. Highway!Exported = [k \in exported |-> incidents[k].state]
    BY DEF Highway!Exported
  <2>5. QED
    BY <2>2, <2>3, <2>4
<1>5. HwInv => Highway!StatisticsMatch /\ Highway!TrafficHeadWhole
  BY DEF HwInv, HwOrders
<1>6. QED
  BY <1>1, <1>2, <1>3, <1>4, <1>5, PTL DEF Highway!Spec

\* A late older run never replaces a newer head, and no section goes back to an older observation.
THEOREM TrafficNotBack ==
  ASSUME HighwayBounds PROVE Highway!Spec => [][Highway!TrafficForward]_(Highway!vars)
<1>1. Highway!Init => HwInv
  BY HwInit
<1>2. HwInv /\ [Highway!Next]_(Highway!vars) => HwInv'
  BY HwStep
<1>3. HwInv /\ [Highway!Next]_(Highway!vars) => [Highway!TrafficForward]_(Highway!vars)
  <2> SUFFICES ASSUME HwInv, Highway!Next PROVE Highway!TrafficForward
    OBVIOUS
  <2>1. CASE UNCHANGED <<head, current>>
    <3>1. head.order \in Int /\ \A k \in HwKey : current[k].at \in Int
      BY DEF HwInv, HwTypes, HwTables
    <3>2. QED
      BY <2>1, <3>1 DEF Highway!TrafficForward
  <2>2. ASSUME NEW p \in HwProc, Highway!StoreTraffic(p) PROVE Highway!TrafficForward
    BY <2>2, HwTrafficStored DEF HwInv, Highway!TrafficForward
  <2>3. QED
    BY <2>1, <2>2 DEF Highway!Next, Highway!Step, Highway!Tick, Highway!Claim, Highway!Fetch,
       Highway!StoreIncidents, Highway!StoreError, Highway!StoreFails, Highway!Finish,
       Highway!Cancel, Highway!Crash, Highway!dbVars
<1>4. QED
  BY <1>1, <1>2, <1>3, PTL DEF Highway!Spec

--------------------------------------------------------------------------------
(* Rest areas.                                                             *)

Rest == INSTANCE RestArea WITH
    Proc <- RaProc, Client <- RaClient, Area <- RaArea, Limit <- RaLimit, Window <- RaWindow,
    StaleAfter <- RaStale, MaxTime <- RaTime, MaxRuns <- RaRuns

RestBounds ==
    /\ IsFiniteSet(RaArea) /\ RaLimit \in Nat \ {0} /\ RaWindow \in Nat
    /\ RaTime \in Nat /\ RaRuns \in Nat \ {0}

RaTypes ==
    /\ now \in 0..RaTime /\ success \in -1..RaTime
    /\ rows \in [RaArea -> [id : Nat, seen : 0..RaTime]] /\ nextId \in Nat \ {0}
    /\ items \in [RaProc -> SUBSET RaArea] /\ known \in [RaProc -> SUBSET RaArea]
    /\ collected \in [RaProc -> 0..RaTime]
    /\ reading \in [RaClient -> BOOLEAN] /\ after \in [RaClient -> Nat]
    /\ got \in [RaClient -> Seq(RaArea)] /\ due \in [RaClient -> SUBSET RaArea]

\* No row has another's id; what a store found has a row.
RaIds ==
    /\ \A a \in RaArea : rows[a].id < nextId
    /\ \A a, b \in RaArea : rows[a].id = rows[b].id /\ rows[a].id # 0 => a = b
    /\ \A p \in RaProc : \A a \in known[p] : rows[a].id # 0

\* A row is as new as the last success.
RaNewest == success # Rest!None => \E a \in RaArea : rows[a].id # 0 /\ rows[a].seen >= success

Listed(c) == {got[c][n] : n \in DOMAIN got[c]}

\* A pass has no row twice, and only rows up to its cursor.
RaRead(c) ==
    /\ \A m, n \in DOMAIN got[c] : got[c][m] = got[c][n] => m = n
    /\ reading[c] => \A n \in DOMAIN got[c] : rows[got[c][n]].id \in 1..after[c]

\* It owes rows of the set; those up to its cursor it has, and at its end all of them.
RaOwed(c) ==
    /\ due[c] \subseteq Rest!CurrentSet
    /\ \A a \in due[c] : ~ reading[c] \/ rows[a].id <= after[c] => a \in Listed(c)

RaPass == \A c \in RaClient : RaRead(c) /\ RaOwed(c)

RaInv == RaTypes /\ RaIds /\ RaNewest /\ RaPass

\* The model's library is the one of this module.
LEMMA RaCardinality == \A set : Rest!Cardinality(set) = Cardinality(set)
  BY DEF Rest!Cardinality, Cardinality

\* Every place of two joined lists is one of the first or of the second.
LEMMA JoinedPlaces ==
  ASSUME NEW S, NEW s \in Seq(S), NEW t \in Seq(S)
  PROVE  /\ s \o t \in Seq(S)
         /\ \A n \in DOMAIN s : n \in DOMAIN (s \o t) /\ (s \o t)[n] = s[n]
         /\ \A n \in DOMAIN t : Len(s) + n \in DOMAIN (s \o t) /\ (s \o t)[Len(s) + n] = t[n]
         /\ \A n \in DOMAIN (s \o t) : n \in DOMAIN s \/ \E m \in DOMAIN t : n = Len(s) + m
<1>1. s \o t \in Seq(S) /\ Len(s) \in Nat /\ Len(t) \in Nat /\ Len(s \o t) = Len(s) + Len(t)
  OBVIOUS
<1>2. /\ DOMAIN s = 1..Len(s) /\ DOMAIN t = 1..Len(t)
      /\ DOMAIN (s \o t) = 1..(Len(s) + Len(t))
  BY <1>1
<1>3. \A n \in 1..Len(s) : (s \o t)[n] = s[n]
  OBVIOUS
<1>4. \A n \in 1..Len(t) : (s \o t)[Len(s) + n] = t[n]
  OBVIOUS
<1>5. ASSUME NEW n \in 1..(Len(s) + Len(t)), n \notin 1..Len(s)
      PROVE  \E m \in 1..Len(t) : n = Len(s) + m
  <2>1. n - Len(s) \in 1..Len(t) /\ n = Len(s) + (n - Len(s))
    BY <1>1, <1>5
  <2>2. QED
    BY <2>1
<1>6. \A n \in 1..Len(s) : n \in 1..(Len(s) + Len(t))
  BY <1>1
<1>7. \A n \in 1..Len(t) : Len(s) + n \in 1..(Len(s) + Len(t))
  BY <1>1
<1>8. QED
  BY <1>1, <1>2, <1>3, <1>4, <1>5, <1>6, <1>7

\* Two lists without repetitions and without a common member join to one without repetitions.
LEMMA JoinedOnce ==
  ASSUME NEW S, NEW s \in Seq(S), NEW t \in Seq(S),
         \A m, n \in DOMAIN s : s[m] = s[n] => m = n,
         \A m, n \in DOMAIN t : t[m] = t[n] => m = n,
         \A m \in DOMAIN s : \A n \in DOMAIN t : s[m] # t[n]
  PROVE  \A m, n \in DOMAIN (s \o t) : (s \o t)[m] = (s \o t)[n] => m = n
<1> DEFINE u == s \o t
<1>1. /\ \A n \in DOMAIN s : u[n] = s[n]
      /\ \A n \in DOMAIN t : u[Len(s) + n] = t[n]
      /\ \A n \in DOMAIN u : n \in DOMAIN s \/ \E m \in DOMAIN t : n = Len(s) + m
  BY JoinedPlaces
<1> HIDE DEF u
<1>2. SUFFICES ASSUME NEW m \in DOMAIN u, NEW n \in DOMAIN u, u[m] = u[n] PROVE m = n
  BY DEF u
<1>3. CASE m \in DOMAIN s /\ n \in DOMAIN s
  BY <1>1, <1>2, <1>3
<1>4. CASE m \in DOMAIN s /\ n \notin DOMAIN s
  BY <1>1, <1>2, <1>4
<1>5. CASE m \notin DOMAIN s /\ n \in DOMAIN s
  BY <1>1, <1>2, <1>5
<1>6. CASE m \notin DOMAIN s /\ n \notin DOMAIN s
  BY <1>1, <1>2, <1>6
<1>7. QED
  BY <1>3, <1>4, <1>5, <1>6

\* What a page adds to a pass, place by place.
LEMMA PageJoined ==
  ASSUME NEW S, NEW c, NEW page \in Seq(S), got[c] \in Seq(S), got'[c] = got[c] \o page
  PROVE  /\ got'[c] \in Seq(S)
         /\ \A n \in DOMAIN got[c] : n \in DOMAIN got'[c] /\ got'[c][n] = got[c][n]
         /\ \A n \in DOMAIN page : /\ Len(got[c]) + n \in DOMAIN got'[c]
                                  /\ got'[c][Len(got[c]) + n] = page[n]
         /\ \A n \in DOMAIN got'[c] :
               n \in DOMAIN got[c] \/ \E m \in DOMAIN page : n = Len(got[c]) + m
<1> DEFINE o == got[c]
           u == got'[c]
<1>1. o \in Seq(S) /\ u = o \o page
  OBVIOUS
<1> HIDE DEF o, u
<1>2. QED
  BY <1>1, JoinedPlaces DEF o, u

\* Nothing is stored and nobody reads initially.
LEMMA RaInit == ASSUME RestBounds PROVE Rest!Init => RaInv
<1> SUFFICES ASSUME Rest!Init PROVE RaInv
  OBVIOUS
<1> USE DEF Rest!Init, RestBounds
<1>1. RaTypes
  BY DEF RaTypes, Rest!None, Rest!NoRow
<1>2. RaIds /\ RaNewest
  BY DEF RaIds, RaNewest, Rest!NoRow
<1>3. RaPass
  BY DEF RaPass, RaRead, RaOwed
<1>4. QED
  BY <1>1, <1>2, <1>3 DEF RaInv

\* A store gives new rows ids of their own and leaves the others theirs.
LEMMA RaUpsert ==
  ASSUME RestBounds, RaInv, NEW p \in RaProc, Rest!Store(p)
  PROVE  /\ RaTypes' /\ RaIds' /\ RaNewest'
         /\ \A a \in RaArea : rows[a].id # 0 => rows'[a].id = rows[a].id
<1> DEFINE new == items[p] \ known[p]
           n == Cardinality(new)
<1>1. items[p] \in SUBSET RaArea /\ known[p] \in SUBSET RaArea /\ collected[p] \in 0..RaTime
  BY DEF RaInv, RaTypes
<1>2. n \in Nat
  BY <1>1, FS_Subset, FS_CardinalityType DEF RestBounds
<1>3. PICK order \in [new -> nextId..(nextId + n - 1)] :
        /\ \A a, b \in DOMAIN order : order[a] = order[b] => a = b
        /\ rows' = [a \in RaArea |->
                      IF a \notin items[p] THEN rows[a]
                      ELSE [id |-> IF a \in known[p] THEN rows[a].id ELSE order[a],
                            seen |-> collected[p]]]
  BY RaCardinality DEF Rest!Store, Rest!Upsert
<1>4. nextId' = nextId + n /\ nextId \in Nat \ {0}
  BY RaCardinality DEF Rest!Store, Rest!Upsert, RaInv, RaTypes
<1>5. \A a \in new : rows[a].id = 0 /\ order[a] \in Nat /\ order[a] >= nextId /\ order[a] < nextId'
  <2> SUFFICES ASSUME NEW a \in new
               PROVE  rows[a].id = 0 /\ order[a] \in Nat /\ order[a] >= nextId /\ order[a] < nextId'
    OBVIOUS
  <2>1. rows[a].id = 0
    BY DEF Rest!Store, Rest!Unstorable, Rest!Conflict
  <2>2. order[a] \in nextId..(nextId + n - 1)
    BY <1>3
  <2>3. QED
    BY <1>2, <1>4, <2>1, <2>2
<1>6. \A a \in RaArea : rows[a].id \in Nat /\ rows[a].seen \in 0..RaTime /\ rows[a].id < nextId
  BY DEF RaInv, RaTypes, RaIds
<1>7. \A a \in RaArea : /\ rows'[a].id = IF a \in new THEN order[a] ELSE rows[a].id
                        /\ rows'[a].seen = IF a \in items[p] THEN collected[p] ELSE rows[a].seen
  <2> SUFFICES ASSUME NEW a \in RaArea
               PROVE  /\ rows'[a].id = IF a \in new THEN order[a] ELSE rows[a].id
                      /\ rows'[a].seen = IF a \in items[p] THEN collected[p] ELSE rows[a].seen
    OBVIOUS
  <2>1. CASE a \notin items[p]
    BY <1>3, <2>1
  <2>2. CASE a \in items[p]
    BY <1>3, <2>2
  <2>3. QED
    BY <2>1, <2>2
<1>8. RaTypes'
  <2>1. rows' \in [RaArea -> [id : Nat, seen : 0..RaTime]]
    <3>1. \A a \in RaArea : rows'[a] \in [id : Nat, seen : 0..RaTime]
      <4> SUFFICES ASSUME NEW a \in RaArea PROVE rows'[a] \in [id : Nat, seen : 0..RaTime]
        OBVIOUS
      <4>1. CASE a \notin items[p]
        BY <1>3, <4>1 DEF RaInv, RaTypes
      <4>2. CASE a \in items[p]
        BY <1>1, <1>3, <1>5, <1>6, <4>2
      <4>3. QED
        BY <4>1, <4>2
    <3>2. QED
      BY <1>3, <3>1
  <2>2. due' \in [RaClient -> SUBSET RaArea]
    BY DEF Rest!Store, Rest!StillDue, RaInv, RaTypes
  <2>3. success' \in -1..RaTime
    BY <1>1 DEF Rest!Store, RestBounds
  <2>4. QED
    BY <1>2, <1>4, <2>1, <2>2, <2>3 DEF Rest!Store, RaInv, RaTypes
<1>9. \A a \in RaArea : rows[a].id # 0 => rows'[a].id = rows[a].id
  BY <1>5, <1>7
<1>10. RaIds'
  <2>1. \A a \in RaArea : rows'[a].id < nextId'
    <3> SUFFICES ASSUME NEW a \in RaArea PROVE rows'[a].id < nextId'
      OBVIOUS
    <3>1. CASE a \in new
      BY <1>5, <1>7, <3>1
    <3>2. CASE a \notin new
      BY <1>2, <1>4, <1>6, <1>7, <3>2
    <3>3. QED
      BY <3>1, <3>2
  <2>2. ASSUME NEW a \in RaArea, NEW b \in RaArea, rows'[a].id = rows'[b].id, rows'[a].id # 0
        PROVE  a = b
    <3>1. CASE a \in new /\ b \in new
      BY <1>3, <1>7, <2>2, <3>1
    <3>2. CASE a \in new /\ b \notin new
      BY <1>4, <1>5, <1>6, <1>7, <2>2, <3>2
    <3>3. CASE a \notin new /\ b \in new
      BY <1>4, <1>5, <1>6, <1>7, <2>2, <3>3
    <3>4. CASE a \notin new /\ b \notin new
      BY <1>7, <2>2, <3>4 DEF RaInv, RaIds
    <3>5. QED
      BY <3>1, <3>2, <3>3, <3>4
  <2>3. \A q \in RaProc : \A a \in known'[q] : rows'[a].id # 0
    BY <1>9 DEF Rest!Store, RaInv, RaTypes, RaIds
  <2>4. QED
    BY <2>1, <2>2, <2>3 DEF RaIds
<1>11. RaNewest'
  <2>1. PICK a \in items[p] : TRUE
    BY DEF Rest!Store, Rest!Unstorable
  <2>2. rows'[a].seen = success' /\ rows'[a].id # 0
    <3>1. CASE a \in known[p]
      BY <1>1, <1>7, <2>1, <3>1 DEF Rest!Store, RaInv, RaIds
    <3>2. CASE a \notin known[p]
      BY <1>1, <1>4, <1>5, <1>7, <2>1, <3>2 DEF Rest!Store
    <3>3. QED
      BY <3>1, <3>2
  <2>3. QED
    BY <1>1, <2>1, <2>2 DEF RaNewest, Rest!Store
<1>12. QED
  BY <1>8, <1>9, <1>10, <1>11

\* The rows of the set past the cursor are finitely many.
LEMMA RestFinite ==
  ASSUME RestBounds, RaInv, NEW c \in RaClient
  PROVE  /\ IsFiniteSet(Rest!Rest(c)) /\ Cardinality(Rest!Rest(c)) \in Nat
         /\ Rest!Rest(c) \subseteq RaArea
  BY FS_Subset, FS_CardinalityType DEF RestBounds, Rest!Rest, Rest!CurrentSet

\* A page is a sequence of rows past the cursor, by id and without a gap; the last page has all.
LEMMA PageRows ==
  ASSUME RestBounds, RaInv, NEW c \in RaClient, NEW page \in Rest!Pages, Rest!IsPage(c, page)
  PROVE  /\ page \in Seq(RaArea) /\ Len(page) \in Nat /\ DOMAIN page = 1..Len(page)
         /\ Cardinality(Rest!Rest(c)) > RaLimit => Len(page) = RaLimit
         /\ \A n \in 1..Len(page) : page[n] \in Rest!Rest(c)
         /\ \A m, n \in 1..Len(page) : m < n => rows[page[m]].id < rows[page[n]].id
         /\ \A m, n \in 1..Len(page) : page[m] = page[n] => m = n
         /\ ~ (Cardinality(Rest!Rest(c)) > RaLimit) =>
               \A a \in Rest!Rest(c) : \E n \in 1..Len(page) : page[n] = a
<1> DEFINE set == Rest!Rest(c)
<1>1. IsFiniteSet(set) /\ Cardinality(set) \in Nat /\ set \subseteq RaArea
  BY RestFinite
<1>2. PICK k \in 0..RaLimit : page \in [1..k -> RaArea]
  BY DEF Rest!Pages
<1>3. page \in Seq(RaArea) /\ Len(page) = k /\ DOMAIN page = 1..k /\ k \in Nat /\ RaLimit \in Nat
  BY <1>2 DEF RestBounds
<1>4. /\ Len(page) = IF Cardinality(set) < RaLimit THEN Cardinality(set) ELSE RaLimit
      /\ \A n \in 1..Len(page) : page[n] \in set
      /\ \A m, n \in 1..Len(page) : m < n => rows[page[m]].id < rows[page[n]].id
  BY RaCardinality DEF Rest!IsPage
<1>5. \A a \in set : rows[a].id \in Nat
  BY <1>1 DEF RaInv, RaTypes
<1>6. \A m, n \in 1..Len(page) : page[m] = page[n] => m = n
  <2> SUFFICES ASSUME NEW m \in 1..Len(page), NEW n \in 1..Len(page), page[m] = page[n], m # n
               PROVE  FALSE
    OBVIOUS
  <2>1. m < n \/ n < m
    BY <1>3
  <2>2. rows[page[m]].id \in Nat
    BY <1>4, <1>5
  <2>3. QED
    BY <1>4, <2>1, <2>2
<1>7. ASSUME ~ (Cardinality(set) > RaLimit)
      PROVE  \A a \in set : \E n \in 1..Len(page) : page[n] = a
  <2>1. Len(page) = Cardinality(set)
    BY <1>1, <1>3, <1>4, <1>7
  <2>2. page \in [1..k -> set]
    BY <1>2, <1>3, <1>4
  <2>3. page \in Injection(1..k, set)
    BY <1>3, <1>6, <2>2 DEF Injection, IsInjective
  <2>4. Cardinality(1..k) = k
    BY <1>3, FS_Interval
  <2>5. page \in Surjection(1..k, set)
    BY <1>1, <1>3, <2>1, <2>3, <2>4, FS_Injection
  <2>6. QED
    BY <1>3, <2>5 DEF Surjection
<1>8. QED
  BY <1>1, <1>3, <1>4, <1>6, <1>7

\* A page goes on where the last one ended, and the last one leaves nothing owed out.
LEMMA RaPage ==
  ASSUME RestBounds, RaInv, NEW c \in RaClient, Rest!Page(c)
  PROVE  RaInv'
<1>1. PICK page \in Rest!Pages :
        /\ Rest!IsPage(c, page)
        /\ got' = [got EXCEPT ![c] = @ \o page]
        /\ LET more == Cardinality(Rest!Rest(c)) > RaLimit
           IN  /\ after' = [after EXCEPT ![c] = IF more THEN rows[page[RaLimit]].id ELSE 0]
               /\ reading' = [reading EXCEPT ![c] = more]
  BY RaCardinality DEF Rest!Page
<1> DEFINE more == Cardinality(Rest!Rest(c)) > RaLimit
           old == got[c]
<1>2. UNCHANGED <<now, success, rows, nextId, items, known, collected, due>> /\ reading[c]
  BY DEF Rest!Page, Rest!dbVars, Rest!procVars
<1>3. /\ page \in Seq(RaArea) /\ Len(page) \in Nat /\ DOMAIN page = 1..Len(page)
      /\ more => Len(page) = RaLimit
      /\ \A n \in 1..Len(page) : page[n] \in Rest!Rest(c)
      /\ \A m, n \in 1..Len(page) : m < n => rows[page[m]].id < rows[page[n]].id
      /\ \A m, n \in 1..Len(page) : page[m] = page[n] => m = n
      /\ ~ more => \A a \in Rest!Rest(c) : \E n \in 1..Len(page) : page[n] = a
  BY <1>1, PageRows
<1>4. /\ old \in Seq(RaArea) /\ Len(old) \in Nat /\ DOMAIN old = 1..Len(old)
      /\ after[c] \in Nat /\ RaLimit \in Nat \ {0}
  BY DEF RaInv, RaTypes, RestBounds
<1>5. /\ got'[c] = old \o page /\ got'[c] \in Seq(RaArea)
      /\ \A n \in DOMAIN old : n \in DOMAIN got'[c] /\ got'[c][n] = old[n]
      /\ \A n \in DOMAIN page : /\ Len(old) + n \in DOMAIN got'[c]
                               /\ got'[c][Len(old) + n] = page[n]
      /\ \A n \in DOMAIN got'[c] : n \in DOMAIN old \/ \E m \in DOMAIN page : n = Len(old) + m
  <2>1. got'[c] = old \o page
    BY <1>1 DEF RaInv, RaTypes
  <2>2. QED
    <3>1. old \in Seq(RaArea) /\ page \in Seq(RaArea)
      BY <1>3, <1>4
    <3>2. got'[c] \in Seq(RaArea)
      BY <2>1, <3>1
    <3>3. \A n \in DOMAIN old : n \in DOMAIN got'[c] /\ got'[c][n] = old[n]
      BY <2>1, <3>1, PageJoined
    <3>4. \A n \in DOMAIN page : /\ Len(old) + n \in DOMAIN got'[c]
                               /\ got'[c][Len(old) + n] = page[n]
      BY <2>1, <3>1, PageJoined
    <3>5. ASSUME NEW n \in DOMAIN got'[c], n \notin DOMAIN old
          PROVE  \E m \in DOMAIN page : n = Len(old) + m
      <4>1. DOMAIN got'[c] = 1..(Len(old) + Len(page))
        BY <2>1, <3>1
      <4>2. n \in 1..(Len(old) + Len(page)) /\ n \notin 1..Len(old)
        BY <1>4, <3>5, <4>1
      <4>3. \A i, j \in Nat : \A m \in 1..(i + j) :
              m \notin 1..i => m - i \in 1..j /\ m = i + (m - i)
        OBVIOUS
      <4>4. n - Len(old) \in DOMAIN page /\ n = Len(old) + (n - Len(old))
        BY <1>3, <1>4, <4>2, <4>3
      <4>5. QED
        BY <4>4
    <3>6. QED
      BY <2>1, <3>2, <3>3, <3>4, <3>5
<1>6. \A a \in RaArea : rows[a].id \in Nat
  BY DEF RaInv, RaTypes
<1>7. \A n \in 1..Len(old) : old[n] \in RaArea /\ rows[old[n]].id \in 1..after[c]
  BY <1>2, <1>4 DEF RaInv, RaPass, RaRead
<1>8. \A n \in 1..Len(page) :
        page[n] \in RaArea /\ rows[page[n]].id \in Nat /\ rows[page[n]].id > after[c]
  BY <1>3, <1>6 DEF Rest!Rest, Rest!CurrentSet
<1>9. RaTypes' /\ RaIds' /\ RaNewest'
  <2>1. after' \in [RaClient -> Nat] /\ reading' \in [RaClient -> BOOLEAN]
    <3>1. more => rows[page[RaLimit]].id \in Nat
      BY <1>3, <1>4, <1>8
    <3>2. QED
      BY <1>1, <3>1 DEF RaInv, RaTypes
  <2>2. got' \in [RaClient -> Seq(RaArea)]
    BY <1>1, <1>5 DEF RaInv, RaTypes
  <2>3. QED
    BY <1>2, <2>1, <2>2 DEF RaInv, RaTypes, RaIds, RaNewest
<1>10. \A m, n \in DOMAIN got'[c] : got'[c][m] = got'[c][n] => m = n
  <2>1. \A m, n \in DOMAIN old : old[m] = old[n] => m = n
    BY DEF RaInv, RaPass, RaRead
  <2>2. \A m \in DOMAIN old : \A n \in DOMAIN page : old[m] # page[n]
    <3> SUFFICES ASSUME NEW m \in 1..Len(old), NEW n \in 1..Len(page), old[m] = page[n]
                 PROVE  FALSE
      BY <1>3, <1>4
    <3>1. rows[page[n]].id \in 1..after[c] /\ rows[page[n]].id > after[c]
      BY <1>7, <1>8
    <3>2. QED
      BY <1>4, <3>1
  <2>3. \A m, n \in DOMAIN page : page[m] = page[n] => m = n
    BY <1>3
  <2>4. QED
    <3>1. old \in Seq(RaArea) /\ page \in Seq(RaArea) /\ got'[c] = old \o page
      BY <1>3, <1>4, <1>5
    <3>2. QED
      BY <2>1, <2>2, <2>3, <3>1, JoinedOnce
<1>11. ASSUME more
       PROVE  /\ reading'[c] /\ after'[c] = rows[page[RaLimit]].id /\ after'[c] \in Nat
              /\ after'[c] > after[c] /\ Len(page) = RaLimit
              /\ \A n \in 1..Len(page) : rows[page[n]].id <= after'[c]
  <2>1. reading'[c] /\ after'[c] = rows[page[RaLimit]].id
    BY <1>1, <1>11 DEF RaInv, RaTypes
  <2>2. RaLimit \in 1..Len(page) /\ Len(page) = RaLimit
    BY <1>3, <1>4, <1>11
  <2>3. ASSUME NEW n \in 1..Len(page) PROVE rows[page[n]].id <= after'[c]
    <3>1. CASE n = RaLimit
      BY <1>8, <2>1, <2>2, <3>1
    <3>2. CASE n < RaLimit
      BY <1>3, <1>8, <2>1, <2>2, <3>2
    <3>3. QED
      BY <1>4, <2>2, <3>1, <3>2
  <2>4. QED
    BY <1>8, <2>1, <2>2, <2>3
<1>12. RaRead(c)'
  <2>1. ASSUME reading'[c], NEW n \in DOMAIN got'[c] PROVE rows'[got'[c][n]].id \in 1..after'[c]
    <3>1. more
      BY <1>1, <2>1 DEF RaInv, RaTypes
    <3>2. CASE n \in DOMAIN old
      <4>1. rows[got'[c][n]].id \in 1..after[c]
        BY <1>4, <1>5, <1>7, <3>2
      <4>2. QED
        BY <1>2, <1>4, <1>11, <3>1, <4>1
    <3>3. ASSUME NEW m \in DOMAIN page, n = Len(old) + m PROVE rows'[got'[c][n]].id \in 1..after'[c]
      <4>1. got'[c][n] = page[m] /\ m \in 1..Len(page)
        BY <1>3, <1>5, <3>3
      <4>2. rows[page[m]].id \in Nat /\ rows[page[m]].id > after[c]
        BY <1>8, <4>1
      <4>3. rows[page[m]].id <= after'[c]
        BY <1>11, <3>1, <4>1
      <4>4. QED
        BY <1>2, <1>4, <1>11, <3>1, <4>1, <4>2, <4>3
    <3>4. QED
      BY <1>5, <2>1, <3>2, <3>3
  <2>2. QED
    BY <1>10, <2>1 DEF RaRead
<1>13. RaOwed(c)'
  <2>1. \A n \in 1..Len(old) : old[n] \in Listed(c)'
    BY <1>4, <1>5 DEF Listed
  <2>2. \A n \in 1..Len(page) : page[n] \in Listed(c)'
    <3> SUFFICES ASSUME NEW n \in DOMAIN page PROVE page[n] \in Listed(c)'
      BY <1>3
    <3>1. Len(old) + n \in DOMAIN got'[c] /\ got'[c][Len(old) + n] = page[n]
      BY <1>5
    <3>2. QED
      BY <3>1 DEF Listed
  <2>3. due[c] \subseteq Rest!CurrentSet /\ due[c] \subseteq RaArea
    BY DEF RaInv, RaPass, RaOwed, RaTypes
  <2>4. ASSUME NEW a \in due[c], ~ reading'[c] \/ rows[a].id <= after'[c] PROVE a \in Listed(c)'
    <3>1. CASE rows[a].id <= after[c]
      <4>1. a \in Listed(c)
        BY <2>4, <3>1 DEF RaInv, RaPass, RaOwed
      <4>2. QED
        BY <1>4, <2>1, <4>1 DEF Listed
    <3>2. CASE rows[a].id > after[c]
      <4>1. a \in Rest!Rest(c)
        BY <2>3, <2>4, <3>2 DEF Rest!Rest
      <4>2. CASE more
        <5>1. rows[a].id <= rows[page[RaLimit]].id /\ RaLimit \in 1..Len(page)
          BY <1>3, <1>4, <1>11, <2>4, <4>2
        <5>2. CASE rows[a].id = rows[page[RaLimit]].id
          <6>1. a = page[RaLimit]
            BY <1>4, <1>6, <1>8, <2>3, <2>4, <3>2, <5>1, <5>2 DEF RaInv, RaIds
          <6>2. QED
            BY <2>2, <5>1, <6>1
        <5>3. CASE rows[a].id < rows[page[RaLimit]].id
          <6>1. PICK m \in 1..(RaLimit - 1) : page[m] = a
            BY <1>1, <4>1, <5>1, <5>3 DEF Rest!IsPage
          <6>2. m \in 1..Len(page)
            <7>1. Len(page) = RaLimit /\ RaLimit \in Nat
              BY <1>4, <1>11, <4>2
            <7>2. QED
              BY <6>1, <7>1
          <6>3. QED
            BY <2>2, <6>1, <6>2
        <5>4. QED
          BY <1>6, <1>8, <2>3, <2>4, <5>1, <5>2, <5>3
      <4>3. CASE ~ more
        BY <1>3, <2>2, <4>1, <4>3
      <4>4. QED
        BY <4>2, <4>3
    <3>3. QED
      BY <1>4, <1>6, <2>3, <2>4, <3>1, <3>2
  <2>5. QED
    BY <1>2, <2>3, <2>4 DEF RaOwed, Rest!CurrentSet
<1>14. ASSUME NEW d \in RaClient, d # c PROVE (RaRead(d) /\ RaOwed(d))'
  <2>1. got'[d] = got[d] /\ reading'[d] = reading[d] /\ after'[d] = after[d]
    BY <1>1, <1>14 DEF RaInv, RaTypes
  <2>2. RaRead(d) /\ RaOwed(d)
    BY DEF RaInv, RaPass
  <2>3. QED
    BY <1>2, <2>1, <2>2 DEF RaRead, RaOwed, Listed, Rest!CurrentSet
<1>15. QED
  BY <1>9, <1>12, <1>13, <1>14 DEF RaInv, RaPass

\* What every step keeps.
LEMMA RaStep ==
  ASSUME RestBounds PROVE RaInv /\ [Rest!Next]_(Rest!vars) => RaInv'
<1> SUFFICES ASSUME RaInv, [Rest!Next]_(Rest!vars) PROVE RaInv'
  OBVIOUS
<1>1. ASSUME UNCHANGED <<success, rows, nextId, reading, after, got, due>>
      PROVE  RaNewest' /\ RaPass'
  BY <1>1 DEF RaInv, RaNewest, RaPass, RaRead, RaOwed, Listed, Rest!CurrentSet
<1>2. CASE Rest!Tick
  BY <1>1, <1>2 DEF Rest!Tick, Rest!dbVars, Rest!procVars, Rest!clientVars, RaInv, RaTypes, RaIds, RestBounds
<1>3. ASSUME NEW p \in RaProc, Rest!Fetch(p) PROVE RaInv'
  BY <1>1, <1>3 DEF Rest!Fetch, Rest!dbVars, Rest!clientVars, RaInv, RaTypes, RaIds
<1>4. ASSUME NEW p \in RaProc,
             Rest!Start(p) \/ Rest!FetchFails(p) \/ Rest!StoreFails(p) \/ Rest!Publish(p)
      PROVE  RaInv'
  <2>1. /\ UNCHANGED <<now, success, rows, nextId, collected, known, Rest!clientVars>>
        /\ items' = items \/ items' = [items EXCEPT ![p] = {}]
    BY <1>4 DEF Rest!Start, Rest!FetchFails, Rest!StoreFails, Rest!Fail, Rest!Publish,
       Rest!dbVars, Rest!clientVars
  <2>2. RaTypes' /\ RaIds'
    BY <2>1 DEF RaInv, RaTypes, RaIds, Rest!clientVars
  <2>3. QED
    BY <1>1, <2>1, <2>2 DEF RaInv, Rest!clientVars
<1>5. ASSUME NEW p \in RaProc, Rest!Store(p) PROVE RaInv'
  <2>1. /\ RaTypes' /\ RaIds' /\ RaNewest'
        /\ \A a \in RaArea : rows[a].id # 0 => rows'[a].id = rows[a].id
    BY <1>5, RaUpsert
  <2>2. ASSUME NEW c \in RaClient PROVE (RaRead(c) /\ RaOwed(c))'
    <3>1. /\ got' = got /\ reading' = reading /\ after' = after
          /\ due'[c] = due[c] \cap Rest!CurrentSet'
      BY <1>5 DEF Rest!Store, Rest!StillDue
    <3>2. RaRead(c) /\ RaOwed(c) /\ got[c] \in Seq(RaArea) /\ after[c] \in Nat
      BY DEF RaInv, RaPass, RaTypes
    <3>3. \A n \in DOMAIN got[c] : got[c][n] \in RaArea
      BY <3>2
    <3>4. RaRead(c)'
      BY <2>1, <3>1, <3>2, <3>3 DEF RaRead
    <3>5. \A a \in due'[c] : a \in due[c] /\ rows[a].id # 0 /\ a \in RaArea
      BY <3>1, <3>2 DEF RaOwed, Rest!CurrentSet
    <3>6. RaOwed(c)'
      BY <2>1, <3>1, <3>2, <3>5 DEF RaOwed, Listed
    <3>7. QED
      BY <3>4, <3>6
  <2>3. QED
    BY <2>1, <2>2 DEF RaInv, RaPass
<1>6. ASSUME NEW c \in RaClient, Rest!Begin(c) PROVE RaInv'
  <2>1. /\ UNCHANGED <<now, success, rows, nextId, items, known, collected>>
        /\ reading' = [reading EXCEPT ![c] = TRUE] /\ after' = [after EXCEPT ![c] = 0]
        /\ got' = [got EXCEPT ![c] = <<>>] /\ due' = [due EXCEPT ![c] = Rest!CurrentSet]
    BY <1>6 DEF Rest!Begin, Rest!dbVars, Rest!procVars
  <2>2. RaTypes' /\ RaIds' /\ RaNewest'
    BY <2>1 DEF RaInv, RaTypes, RaIds, RaNewest, Rest!CurrentSet
  <2>3. ASSUME NEW d \in RaClient PROVE (RaRead(d) /\ RaOwed(d))'
    <3>1. CASE d # c
      BY <2>1, <3>1 DEF RaInv, RaTypes, RaPass, RaRead, RaOwed, Listed, Rest!CurrentSet
    <3>2. CASE d = c
      <4>1. /\ got'[d] = <<>> /\ reading'[d] /\ after'[d] = 0 /\ due'[d] = Rest!CurrentSet
            /\ DOMAIN got'[d] = {}
        BY <2>1, <3>2 DEF RaInv, RaTypes
      <4>2. Rest!CurrentSet' = Rest!CurrentSet
        BY <2>1 DEF Rest!CurrentSet
      <4>3. \A a \in Rest!CurrentSet : ~ (rows[a].id <= 0)
        BY DEF Rest!CurrentSet, RaInv, RaTypes
      <4>4. QED
        BY <2>1, <4>1, <4>2, <4>3 DEF RaRead, RaOwed
    <3>3. QED
      BY <3>1, <3>2
  <2>4. QED
    BY <2>2, <2>3 DEF RaInv, RaPass
<1>7. ASSUME NEW c \in RaClient, Rest!Page(c) PROVE RaInv'
  BY <1>7, RaPage
<1>8. ASSUME NEW c \in RaClient, Rest!Refused(c) PROVE RaInv'
  <2>1. /\ UNCHANGED <<now, success, rows, nextId, items, known, collected>>
        /\ reading' = [reading EXCEPT ![c] = FALSE] /\ after' = [after EXCEPT ![c] = 0]
        /\ got' = [got EXCEPT ![c] = <<>>] /\ due' = [due EXCEPT ![c] = {}]
    BY <1>8 DEF Rest!Refused, Rest!dbVars, Rest!procVars
  <2>2. RaTypes' /\ RaIds' /\ RaNewest'
    BY <2>1 DEF RaInv, RaTypes, RaIds, RaNewest
  <2>3. ASSUME NEW d \in RaClient PROVE (RaRead(d) /\ RaOwed(d))'
    <3>1. CASE d # c
      BY <2>1, <3>1 DEF RaInv, RaTypes, RaPass, RaRead, RaOwed, Listed, Rest!CurrentSet
    <3>2. CASE d = c
      BY <2>1, <3>2 DEF RaInv, RaTypes, RaRead, RaOwed
    <3>3. QED
      BY <3>1, <3>2
  <2>4. QED
    BY <2>2, <2>3 DEF RaInv, RaPass
<1>9. CASE UNCHANGED Rest!vars
  BY <1>1, <1>9 DEF Rest!vars, Rest!dbVars, Rest!procVars, Rest!clientVars, RaInv, RaTypes, RaIds
<1>10. QED
  BY <1>2, <1>3, <1>4, <1>5, <1>6, <1>7, <1>8, <1>9 DEF Rest!Next

\* A pass over the rest areas has every row that stayed in the set, none twice, whatever runs
\* stored between its pages; and an answer is never empty.
THEOREM PassesWhole ==
  ASSUME RestBounds PROVE Rest!Spec => [](Rest!ServedNotEmpty /\ Rest!PassComplete)
<1>1. RaInv => Rest!ServedNotEmpty
  <2> SUFFICES ASSUME RaInv, Rest!Served PROVE Rest!CurrentSet # {}
    BY DEF Rest!ServedNotEmpty
  <2>1. success # Rest!None /\ success \in Int /\ RaWindow \in Nat
    BY DEF Rest!Served, RaInv, RaTypes, RestBounds
  <2>2. PICK a \in RaArea : rows[a].id # 0 /\ rows[a].seen >= success
    BY <2>1 DEF RaInv, RaNewest
  <2>3. rows[a].seen \in Int
    BY DEF RaInv, RaTypes
  <2>4. a \in Rest!CurrentSet
    BY <2>1, <2>2, <2>3 DEF Rest!CurrentSet
  <2>5. QED
    BY <2>4
<1>2. RaInv => Rest!PassComplete
  BY DEF RaInv, RaPass, RaRead, RaOwed, Listed, Rest!PassComplete
<1>3. QED
  BY <1>1, <1>2, RaInit, RaStep, PTL DEF Rest!Spec

\* The areas that have a row; no more ids are given out than there are such areas, because a run
\* that would insert over another's row is rolled back.
RaStored == {a \in RaArea : rows[a].id # 0}

RaShape ==
    /\ error \in BOOLEAN /\ runs \in 0..RaRuns
    /\ pc \in [RaProc -> {"idle", "fetch", "store", "publish"}]
    /\ status \in [RaProc -> {"none", "success", "partial_success", "failed"}]
    /\ nextId <= Cardinality(RaStored) + 1

\* A store gives out as many ids as areas get their first row.
LEMMA RaGivenOut ==
  ASSUME RestBounds, RaInv, RaShape, NEW p \in RaProc, Rest!Store(p)
  PROVE  nextId' <= Cardinality(RaStored') + 1
<1> DEFINE new == items[p] \ known[p]
<1>1. new \subseteq RaArea /\ IsFiniteSet(new) /\ IsFiniteSet(RaStored) /\ IsFiniteSet(RaStored')
  BY FS_Subset DEF RaInv, RaTypes, RestBounds, RaStored
<1>2. PICK order \in [new -> nextId..(nextId + Cardinality(new) - 1)] :
        rows' = [a \in RaArea |->
                   IF a \notin items[p] THEN rows[a]
                   ELSE [id |-> IF a \in known[p] THEN rows[a].id ELSE order[a],
                         seen |-> collected[p]]]
  BY RaCardinality DEF Rest!Store, Rest!Upsert
<1>3. nextId' = nextId + Cardinality(new) /\ nextId \in Nat \ {0} /\ Cardinality(new) \in Nat
  BY <1>1, FS_CardinalityType, RaCardinality DEF Rest!Store, Rest!Upsert, RaInv, RaTypes
<1>4. \A a \in new : rows[a].id = 0
  BY <1>1 DEF Rest!Store, Rest!Unstorable, Rest!Conflict
<1>5. \A a \in new : a \in RaArea /\ rows'[a].id # 0
  <2> SUFFICES ASSUME NEW a \in new PROVE a \in RaArea /\ rows'[a].id # 0
    OBVIOUS
  <2>1. a \in RaArea /\ rows'[a].id = order[a]
    BY <1>1, <1>2
  <2>2. order[a] \in nextId..(nextId + Cardinality(new) - 1)
    BY <1>2
  <2>3. QED
    BY <1>3, <2>1, <2>2
<1>6. RaStored \cup new \subseteq RaStored'
  BY <1>5, RaUpsert DEF RaStored
<1>7. RaStored \cap new = {}
  BY <1>4 DEF RaStored
<1>8. Cardinality(RaStored \cup new) = Cardinality(RaStored) + Cardinality(new)
  <2>1. Cardinality(RaStored \cup new)
          = Cardinality(RaStored) + Cardinality(new) - Cardinality(RaStored \cap new)
    BY <1>1, FS_Union
  <2>2. Cardinality(RaStored \cap new) = 0 /\ Cardinality(RaStored) \in Nat
    BY <1>1, <1>7, FS_EmptySet, FS_CardinalityType
  <2>3. QED
    BY <1>3, <2>1, <2>2
<1>9. Cardinality(RaStored \cup new) <= Cardinality(RaStored')
  BY <1>1, <1>6, FS_Subset
<1>10. Cardinality(RaStored) \in Nat /\ Cardinality(RaStored') \in Nat
  BY <1>1, FS_CardinalityType
<1>11. QED
  <2> HIDE DEF new
  <2>1. nextId <= Cardinality(RaStored) + 1
    BY DEF RaShape
  <2>2. QED
    BY <1>3, <1>8, <1>9, <1>10, <2>1

\* The tables, the runs and the passes keep their types.  A row id stays below the bound of the
\* model because ids are spent only on areas that had no row.
THEOREM RestTypes == ASSUME RestBounds PROVE Rest!Spec => []Rest!TypeOK
<1>1. Rest!Init => RaShape
  <2> SUFFICES ASSUME Rest!Init PROVE RaShape
    OBVIOUS
  <2>1. RaStored = {} /\ nextId = 1
    BY DEF Rest!Init, Rest!NoRow, RaStored
  <2>2. Cardinality(RaStored) = 0
    BY <2>1, FS_EmptySet
  <2>3. /\ error = FALSE /\ runs = 0 /\ pc = [p \in RaProc |-> "idle"]
        /\ status = [p \in RaProc |-> "none"]
    BY DEF Rest!Init
  <2>4. nextId <= Cardinality(RaStored) + 1
    BY <2>1, <2>2
  <2>5. runs \in 0..RaRuns
    BY <2>3 DEF RestBounds
  <2>6. QED
    BY <2>3, <2>4, <2>5 DEF RaShape
<1>2. RaInv /\ RaShape /\ [Rest!Next]_(Rest!vars) => RaShape'
  <2> SUFFICES ASSUME RaInv, RaShape, [Rest!Next]_(Rest!vars) PROVE RaShape'
    OBVIOUS
  <2> USE DEF RaShape, RestBounds
  <2>1. ASSUME UNCHANGED rows PROVE RaStored' = RaStored
    BY <2>1 DEF RaStored
  <2>2. CASE Rest!Tick
    <3>1. UNCHANGED <<error, rows, nextId, runs, pc, status>>
      BY <2>2 DEF Rest!Tick, Rest!dbVars, Rest!procVars
    <3>2. QED
      BY <2>1, <3>1
  <2>3. ASSUME NEW p \in RaProc, Rest!Start(p) PROVE RaShape'
    BY <2>1, <2>3 DEF Rest!Start, Rest!dbVars
  <2>4. ASSUME NEW p \in RaProc, Rest!Fetch(p) PROVE RaShape'
    BY <2>1, <2>4 DEF Rest!Fetch, Rest!dbVars
  <2>5. ASSUME NEW p \in RaProc, Rest!FetchFails(p) \/ Rest!StoreFails(p) PROVE RaShape'
    BY <2>1, <2>5 DEF Rest!FetchFails, Rest!StoreFails, Rest!Fail
  <2>6. ASSUME NEW p \in RaProc, Rest!Publish(p) PROVE RaShape'
    BY <2>1, <2>6 DEF Rest!Publish, Rest!dbVars
  <2>7. ASSUME NEW p \in RaProc, Rest!Store(p) PROVE RaShape'
    <3>1. nextId' <= Cardinality(RaStored') + 1
      BY <2>7, RaGivenOut
    <3>2. QED
      BY <2>7, <3>1 DEF Rest!Store
  <2>8. ASSUME NEW c \in RaClient, Rest!Begin(c) \/ Rest!Page(c) \/ Rest!Refused(c) PROVE RaShape'
    BY <2>1, <2>8 DEF Rest!Begin, Rest!Page, Rest!Refused, Rest!dbVars, Rest!procVars
  <2>9. CASE UNCHANGED Rest!vars
    BY <2>1, <2>9 DEF Rest!vars, Rest!dbVars, Rest!procVars
  <2>10. QED
    BY <2>2, <2>3, <2>4, <2>5, <2>6, <2>7, <2>8, <2>9 DEF Rest!Next
<1>3. RaInv /\ RaShape => Rest!TypeOK
  <2> SUFFICES ASSUME RaInv, RaShape PROVE Rest!TypeOK
    OBVIOUS
  <2> DEFINE all == Cardinality(RaArea)
  <2>1. all \in Nat /\ RaStored \subseteq RaArea
    BY FS_CardinalityType DEF RestBounds, RaStored
  <2>2. Cardinality(RaStored) \in Nat /\ Cardinality(RaStored) <= all
    BY <2>1, FS_Subset, FS_CardinalityType DEF RestBounds
  <2> HIDE DEF all
  <2>3. all <= all * RaRuns
    <3>1. RaRuns - 1 \in Nat /\ all * RaRuns = all + all * (RaRuns - 1)
      BY <2>1 DEF RestBounds
    <3>2. all * (RaRuns - 1) \in Nat
      BY <2>1, <3>1
    <3>3. QED
      BY <2>1, <3>1, <3>2
  <2>4. all * RaRuns \in Nat
    BY <2>1 DEF RestBounds
  <2>5. \A a \in RaArea : rows[a] \in [id : Nat, seen : 0..RaTime] /\ rows[a].id < nextId
    BY DEF RaInv, RaTypes, RaIds
  <2>6. \A a \in RaArea : rows[a].id \in 0..(all * RaRuns)
    <3>1. nextId \in Nat /\ nextId <= all + 1
      BY <2>1, <2>2 DEF RaShape, RaInv, RaTypes
    <3>2. \A a \in RaArea : rows[a].id \in Nat /\ rows[a].id <= all
      BY <2>1, <2>5, <3>1
    <3> DEFINE most == all * RaRuns
    <3> HIDE DEF most
    <3>3. all <= most /\ most \in Nat
      BY <2>3, <2>4 DEF most
    <3>4. \A a \in RaArea : rows[a].id \in 0..most
      BY <2>1, <3>2, <3>3
    <3>5. QED
      BY <3>4 DEF most
  <2>7. \A a \in RaArea : rows[a] \in [id : 0..(all * RaRuns), seen : 0..RaTime]
    BY <2>5, <2>6
  <2>8. rows \in [RaArea -> [id : 0..(all * RaRuns), seen : 0..RaTime]]
    BY <2>7 DEF RaInv, RaTypes
  <2>9. QED
    BY <2>8, RaCardinality DEF Rest!TypeOK, Rest!None, RaInv, RaTypes, RaShape, all
<1>4. QED
  BY <1>1, <1>2, <1>3, RaInit, RaStep, PTL DEF Rest!Spec

--------------------------------------------------------------------------------
(* The permanent parking statistics.                                       *)

Archive == INSTANCE ParkingArchive WITH
    BucketLength <- ArLength, Retention <- ArRetention, WindowLength <- ArWindow,
    MaxBuckets <- ArBuckets, MaxRows <- ArRows, MaxTime <- ArTime

ArchiveBounds ==
    /\ ArLength \in Nat \ {0} /\ ArRetention \in Nat /\ ArWindow \in Nat /\ ArBuckets \in Nat
    /\ ArRows \in Nat /\ ArTime \in Nat

ArTypes ==
    /\ now \in 0..ArTime
    /\ rows \subseteq Archive!Row /\ inserting \subseteq Archive!Row
    /\ IsFiniteSet(rows) /\ IsFiniteSet(inserting)
    /\ lock \in {"nobody", "collector", "archive"}

\* Ids are given out in order, and rows wait for their commit only under the collector's lock.
ArInserts ==
    /\ \A r \in rows \cup inserting : r.id <= Cardinality(rows \cup inserting)
    /\ lock # "collector" => inserting = {}

\* What a record lacks of its bucket came in after all it has.
Behind(c) ==
    /\ c.rows # {} /\ c.rows \subseteq rows
    /\ \A r \in rows \cup inserting : Archive!BucketOf(r.at) = c.bucket /\ r \notin c.rows =>
          \A q \in c.rows : q.id < r.id

Exact(c) == c.rows = Archive!RowsOf(c.bucket) /\ c.prior = Archive!PreviousAt(c.bucket)

\* The run under way has the observation before its next bucket, and its records are exact.
ArRun ==
    lock = "archive" =>
        /\ result = "none" /\ next \in Nat /\ prev = Archive!PreviousAt(next)
        /\ \A c \in added : Exact(c) /\ c.rows # {}

ArInv == ArTypes /\ ArInserts /\ (\A c \in records : Behind(c)) /\ ArRun

\* The model's library is the one of this module.
LEMMA ArCardinality == \A set : Archive!Cardinality(set) = Cardinality(set)
  BY DEF Archive!Cardinality, Cardinality

\* Later times are not in earlier buckets.
LEMMA BucketsInOrder ==
  ASSUME ArchiveBounds, NEW s \in Nat, NEW t \in Nat, s <= t
  PROVE  /\ Archive!BucketOf(s) \in Nat /\ Archive!BucketOf(t) \in Nat
         /\ Archive!BucketOf(s) <= Archive!BucketOf(t)
<1> DEFINE a == s \div ArLength
           b == t \div ArLength
<1>1. ArLength \in Nat /\ ArLength > 0
  BY DEF ArchiveBounds
<1>2. a \in Int /\ b \in Int /\ ArLength * a <= s /\ s < ArLength * a + ArLength
  BY <1>1
<1>3. ArLength * b <= t /\ t < ArLength * b + ArLength
  BY <1>1
<1>4. a >= 0 /\ b >= 0
  BY <1>1
<1>5. a <= b
  <2> SUFFICES ASSUME a >= b + 1 PROVE FALSE
    BY <1>2
  <2> HIDE DEF a, b
  <2>1. ArLength * a >= ArLength * (b + 1)
    BY <1>1, <1>2
  <2>2. ArLength * (b + 1) = ArLength * b + ArLength
    BY <1>1, <1>2
  <2>3. ArLength * a \in Int /\ ArLength * b \in Int
    BY <1>1, <1>2
  <2>4. QED
    BY <1>1, <1>2, <1>3, <2>1, <2>2, <2>3
<1>6. QED
  BY <1>2, <1>4, <1>5 DEF Archive!BucketOf

\* Observations have times and ids.
LEMMA RowFields ==
  ASSUME ArchiveBounds, NEW r \in Archive!Row
  PROVE  r.at \in Nat /\ r.id \in 1..ArRows /\ Archive!BucketOf(r.at) \in Nat
<1>1. r.at \in Nat /\ r.id \in 1..ArRows
  BY DEF Archive!Row, ArchiveBounds
<1>2. QED
  BY <1>1, BucketsInOrder

\* The observation that precedes the next bucket is the last one of a bucket with rows, and the one
\* before a bucket without.
LEMMA PreviousMoves ==
  ASSUME ArchiveBounds, ArTypes, NEW b \in Nat, prev = Archive!PreviousAt(b)
  PROVE  Archive!Advanced(b) = Archive!PreviousAt(b + 1)
<1> DEFINE before == {r \in rows : Archive!BucketOf(r.at) < b}
           upto1 == {r \in rows : Archive!BucketOf(r.at) < b + 1}
           own == Archive!RowsOf(b)
<1>1. \A r \in rows : r \in Archive!Row /\ r.at \in Nat /\ Archive!BucketOf(r.at) \in Nat
  BY RowFields DEF ArTypes
<1>2. upto1 = before \cup own
  BY <1>1 DEF Archive!RowsOf
<1>3. CASE own = {}
  BY <1>2, <1>3 DEF Archive!Advanced, Archive!PreviousAt
<1>4. CASE own # {}
  <2>1. \A r \in before, q \in own : r.at < q.at
    <3> SUFFICES ASSUME NEW r \in before, NEW q \in own, ~ (r.at < q.at) PROVE FALSE
      OBVIOUS
    <3>1. r.at \in Nat /\ q.at \in Nat /\ q.at <= r.at
      BY <1>1 DEF Archive!RowsOf
    <3>2. Archive!BucketOf(q.at) <= Archive!BucketOf(r.at)
      BY <3>1, BucketsInOrder
    <3>3. QED
      BY <1>1, <3>2 DEF Archive!RowsOf
  <2>2. \A r \in before \cup own : r.at \in Nat
    BY <1>1 DEF Archive!RowsOf
  <2>3. \A r \in own : \A q \in before : r.at > q.at
    BY <2>1, <2>2
  <2>4. \A r \in before : \E q \in own : ~ (r.at > q.at \/ (r.at = q.at /\ Archive!Preferred(r, q)))
    BY <1>4, <2>1, <2>2
  <2>5. Archive!Last(before \cup own) = Archive!Last(own)
    BY <2>3, <2>4 DEF Archive!Last
  <2>6. QED
    BY <1>2, <1>4, <2>5 DEF Archive!Advanced, Archive!PreviousAt
<1>5. QED
  BY <1>3, <1>4

\* The least and the greatest of a set of numbers below a bound.
LEMMA LeastNumber ==
  ASSUME NEW set \in SUBSET Nat, set # {} PROVE \E n \in set : \A m \in set : n <= m
<1>1. PICK n \in set : \A m \in set : ~ (<<m, n>> \in OpToRel(<, Nat))
  BY NatLessThanWellFounded, WFMin
<1>2. \A m \in set : ~ (m < n)
  BY <1>1 DEF OpToRel
<1>3. QED
  BY <1>2

LEMMA GreatestNumber ==
  ASSUME NEW set \in SUBSET Nat, set # {}, NEW bound \in Nat, \A n \in set : n <= bound
  PROVE  \E n \in set : \A m \in set : n >= m
<1> DEFINE above == {k \in Nat : \A m \in set : m <= k}
<1>1. PICK n \in above : \A k \in above : n <= k
  <2>1. above \in SUBSET Nat /\ bound \in above
    OBVIOUS
  <2>2. QED
    BY <2>1, LeastNumber
<1>2. CASE n \in set
  BY <1>1, <1>2
<1>3. CASE n \notin set
  <2>1. \A m \in set : m <= n /\ m # n /\ m \in Nat
    BY <1>1, <1>3
  <2>2. n - 1 \in above
    <3>1. PICK m \in set : TRUE
      OBVIOUS
    <3>2. n - 1 \in Nat
      BY <1>1, <2>1, <3>1
    <3>3. \A k \in set : k <= n - 1
      BY <1>1, <2>1
    <3>4. QED
      BY <3>2, <3>3
  <2>3. QED
    BY <1>1, <2>2
<1>4. QED
  BY <1>2, <1>3

\* A record covers exactly the rows of its bucket that it has.
LEMMA CoveredRows ==
  ASSUME ArchiveBounds, ArInv, NEW r \in rows, Archive!Covered(r)
  PROVE  \E c \in records : r \in c.rows
<1>1. PICK c \in records : /\ c.bucket = Archive!BucketOf(r.at)
                           /\ Archive!Max({q.id : q \in c.rows}) >= r.id
  BY DEF Archive!Covered
<1> DEFINE ids == {q.id : q \in c.rows}
<1>2. c.rows # {} /\ c.rows \subseteq rows /\ rows \subseteq Archive!Row
  BY DEF ArInv, Behind, ArTypes
<1>3. ids \in SUBSET Nat /\ ids # {} /\ \A n \in ids : n <= ArRows
  BY <1>2, RowFields
<1>4. Archive!Max(ids) \in ids
  <2>1. \E n \in ids : \A m \in ids : n >= m
    BY <1>3, GreatestNumber DEF ArchiveBounds
  <2>2. QED
    BY <2>1 DEF Archive!Max
<1>5. PICK q \in c.rows : q.id >= r.id
  BY <1>1, <1>4
<1>6. q.id \in Nat /\ r.id \in Nat
  BY <1>2, RowFields
<1>7. QED
  BY <1>1, <1>5, <1>6 DEF ArInv, Behind

\* Nothing is stored initially.
LEMMA ArInit == ASSUME ArchiveBounds PROVE Archive!Init => ArInv
  BY FS_EmptySet DEF Archive!Init, Archive!Nobody, ArchiveBounds, ArInv, ArTypes, ArInserts, ArRun

\* A new observation has an id above all others.
LEMMA ArInsert ==
  ASSUME ArchiveBounds, ArInv, Archive!Insert PROVE ArInv'
<1> DEFINE all == rows \cup inserting
<1>1. PICK t \in 0..now, live \in BOOLEAN :
        inserting' = inserting \cup {[id |-> Cardinality(all) + 1, at |-> t,
                                      collected |-> now, live |-> live]}
  BY ArCardinality DEF Archive!Insert
<1>2. PICK new : new = [id |-> Cardinality(all) + 1, at |-> t, collected |-> now, live |-> live]
  OBVIOUS
<1>3. UNCHANGED <<now, rows, records>> /\ lock' = "collector" /\ Cardinality(all) < ArRows
  BY ArCardinality DEF Archive!Insert
<1>4. IsFiniteSet(all) /\ Cardinality(all) \in Nat /\ all \subseteq Archive!Row
  BY FS_Union, FS_CardinalityType DEF ArInv, ArTypes
<1>5. \A r \in all : r.id \in Nat /\ r.id <= Cardinality(all)
  <2>1. \A r \in all : r.id \in 1..ArRows
    BY <1>4, RowFields
  <2>2. QED
    BY <2>1 DEF ArInv, ArInserts, ArchiveBounds
<1>6. new \in Archive!Row /\ new.id = Cardinality(all) + 1
  <2>1. now \in 0..ArTime /\ ArTime \in Nat /\ ArRows \in Nat
    BY DEF ArInv, ArTypes, ArchiveBounds
  <2>2. t \in 0..ArTime /\ Cardinality(all) + 1 \in 1..ArRows
    BY <1>3, <1>4, <2>1
  <2>3. QED
    BY <1>2, <2>1, <2>2 DEF Archive!Row
<1>7. rows' \cup inserting' = all \cup {new} /\ inserting' = inserting \cup {new}
  BY <1>1, <1>2, <1>3
<1>8. new \notin all
  <2> SUFFICES ASSUME new \in all PROVE FALSE
    OBVIOUS
  <2>1. new.id <= Cardinality(all)
    BY <1>5
  <2>2. QED
    BY <1>4, <1>6, <2>1
<1>9. IsFiniteSet(all \cup {new}) /\ Cardinality(all \cup {new}) = Cardinality(all) + 1
  BY <1>4, <1>8, FS_AddElement
<1>10. ArTypes'
  BY <1>3, <1>6, <1>7, FS_AddElement DEF ArInv, ArTypes
<1>11. ArInserts'
  <2>1. \A r \in all \cup {new} : r.id <= Cardinality(all) + 1
    <3> SUFFICES ASSUME NEW r \in all \cup {new} PROVE r.id <= Cardinality(all) + 1
      OBVIOUS
    <3>1. CASE r \in all
      <4>1. r.id \in Nat /\ r.id <= Cardinality(all)
        BY <1>5, <3>1
      <4>2. QED
        BY <1>4, <4>1
    <3>2. CASE r = new
      BY <1>4, <1>6, <3>2
    <3>3. QED
      BY <3>1, <3>2
  <2>2. QED
    BY <1>3, <1>7, <1>9, <2>1 DEF ArInserts
<1>12. ASSUME NEW c \in records PROVE Behind(c)'
  <2>1. Behind(c)
    BY DEF ArInv
  <2>2. \A q \in c.rows : q.id < new.id
    <3> SUFFICES ASSUME NEW q \in c.rows PROVE q.id < new.id
      OBVIOUS
    <3>1. q \in all
      BY <2>1 DEF Behind
    <3>2. q.id \in Nat /\ q.id <= Cardinality(all)
      BY <1>5, <3>1
    <3>3. QED
      BY <1>4, <1>6, <3>2
  <2>3. QED
    BY <1>3, <1>7, <2>1, <2>2 DEF Behind
<1>13. QED
  BY <1>3, <1>10, <1>11, <1>12 DEF ArInv, ArRun

\* A run that starts knows the observation before its first bucket.
LEMMA ArStart ==
  ASSUME ArchiveBounds, ArInv, Archive!Start PROVE ArInv'
<1> DEFINE open == {r \in rows : Archive!BucketOf(r.at) < Archive!CompleteBefore /\ ~ Archive!Covered(r)}
           buckets == {Archive!BucketOf(r.at) : r \in open}
<1>1. UNCHANGED <<now, rows, records, inserting>> /\ lock # "archive"
  BY DEF Archive!Start
<1>2. ArTypes' /\ ArInserts' /\ \A c \in records' : Behind(c)'
  BY <1>1 DEF Archive!Start, Archive!Nobody, ArInv, ArTypes, ArInserts, Behind
<1>3. CASE UNCHANGED lock
  BY <1>1, <1>2, <1>3 DEF ArInv, ArRun
<1>4. CASE ~ UNCHANGED lock
  <2>1. /\ open # {} /\ next' = Archive!Min(buckets) /\ result' = "none"
        /\ prev' = Archive!PreviousAt(Archive!Min(buckets)) /\ added' = {}
    BY <1>4 DEF Archive!Start
  <2>2. buckets \in SUBSET Nat /\ buckets # {}
    BY <2>1, RowFields DEF ArInv, ArTypes
  <2>3. Archive!Min(buckets) \in buckets
    <3>1. \E n \in buckets : \A m \in buckets : n <= m
      BY <2>2, LeastNumber
    <3>2. QED
      BY <3>1 DEF Archive!Min
  <2>4. QED
    BY <1>1, <1>2, <2>1, <2>2, <2>3 DEF ArInv, ArRun, Archive!PreviousAt
<1>5. QED
  BY <1>3, <1>4

\* A recorded bucket is recorded exactly, and any bucket moves the run on.
LEMMA ArBucket ==
  ASSUME ArchiveBounds, ArInv, Archive!Bucket PROVE ArInv'
<1>1. /\ UNCHANGED <<now, rows, records, lock, inserting, result>> /\ lock = "archive"
      /\ next' = next + 1 /\ prev' = Archive!Advanced(next)
      /\ \A c \in added' : c \in added \/ (/\ c = Archive!Built(next, prev)
                                           /\ Archive!RowsOf(next) # {})
  BY DEF Archive!Bucket
<1>2. /\ next \in Nat /\ prev = Archive!PreviousAt(next) /\ result = "none" /\ ArTypes
      /\ \A c \in added : Exact(c) /\ c.rows # {}
  BY <1>1 DEF ArInv, ArRun
<1>3. prev' = Archive!PreviousAt(next + 1)
  BY <1>1, <1>2, PreviousMoves
<1>4. \A c \in added' : Exact(c) /\ c.rows # {}
  BY <1>1, <1>2 DEF Exact, Archive!Built
<1>5. ArRun'
  BY <1>1, <1>2, <1>3, <1>4 DEF ArRun, Exact, Archive!RowsOf, Archive!PreviousAt
<1>6. QED
  BY <1>1, <1>5 DEF ArInv, ArTypes, ArInserts, Behind

\* What every step keeps.
LEMMA ArStep ==
  ASSUME ArchiveBounds PROVE ArInv /\ [Archive!Next]_(Archive!vars) => ArInv'
<1> SUFFICES ASSUME ArInv, [Archive!Next]_(Archive!vars) PROVE ArInv'
  OBVIOUS
<1>1. CASE Archive!Tick
  <2>1. /\ UNCHANGED <<rows, records, lock, inserting, next, prev, added>> /\ result' = "none"
        /\ now' \in 0..ArTime
    BY <1>1 DEF Archive!Tick, Archive!runVars, ArInv, ArTypes, ArchiveBounds
  <2>2. ArTypes' /\ ArInserts' /\ \A c \in records' : Behind(c)'
    BY <2>1 DEF ArInv, ArTypes, ArInserts, Behind
  <2>3. ArRun'
    BY <2>1 DEF ArInv, ArRun, Exact, Archive!RowsOf, Archive!PreviousAt
  <2>4. QED
    BY <2>2, <2>3 DEF ArInv
<1>2. CASE Archive!Insert
  BY <1>2, ArInsert
<1>3. CASE Archive!Commit
  <2>1. /\ rows' = rows \cup inserting /\ inserting' = {} /\ lock' = "nobody"
        /\ UNCHANGED <<now, records>>
    BY <1>3 DEF Archive!Commit, Archive!Nobody
  <2>2. rows' \cup inserting' = rows \cup inserting
    BY <2>1
  <2>3. ArTypes'
    BY <2>1, FS_Union, FS_EmptySet DEF ArInv, ArTypes
  <2>4. ArInserts' /\ \A c \in records' : Behind(c)'
    BY <2>1, <2>2 DEF ArInv, ArInserts, Behind
  <2>5. QED
    BY <2>1, <2>3, <2>4 DEF ArInv, ArRun
<1>4. CASE Archive!Start
  BY <1>4, ArStart
<1>5. CASE Archive!Bucket
  BY <1>5, ArBucket
<1>6. CASE Archive!Finish
  <2>1. /\ records' = records \cup added /\ lock' = "nobody" /\ lock = "archive"
        /\ UNCHANGED <<now, rows, inserting>>
    BY <1>6 DEF Archive!Finish, Archive!Reset, Archive!Nobody
  <2>2. inserting = {}
    BY <2>1 DEF ArInv, ArInserts
  <2>3. ASSUME NEW c \in added PROVE Behind(c)'
    <3>1. Exact(c) /\ c.rows # {}
      BY <2>1 DEF ArInv, ArRun
    <3>2. QED
      BY <2>1, <2>2, <3>1 DEF Exact, Behind, Archive!RowsOf
  <2>4. \A c \in records : Behind(c)'
    BY <2>1 DEF ArInv, Behind
  <2>5. QED
    BY <2>1, <2>3, <2>4 DEF ArInv, ArTypes, ArInserts, ArRun
<1>7. CASE Archive!Conflict \/ Archive!Abort
  BY <1>7 DEF Archive!Conflict, Archive!Abort, Archive!Reset, Archive!Nobody, ArInv, ArTypes,
     ArInserts, ArRun, Behind
<1>8. CASE UNCHANGED Archive!vars
  BY <1>8 DEF Archive!vars, Archive!runVars, ArInv, ArTypes, ArInserts, ArRun, Behind, Exact,
     Archive!RowsOf, Archive!PreviousAt
<1>9. QED
  BY <1>1, <1>2, <1>3, <1>4, <1>5, <1>6, <1>7, <1>8 DEF Archive!Next

\* What a run commits is whole: all rows of a bucket, and the very observation before it.
THEOREM ArchivedExactly ==
  ASSUME ArchiveBounds PROVE Archive!Spec => [][Archive!RecordsExact]_(Archive!vars)
<1>1. ArInv /\ [Archive!Next]_(Archive!vars) => [Archive!RecordsExact]_(Archive!vars)
  <2> SUFFICES ASSUME ArInv, Archive!Next, NEW c \in records', c \notin records
               PROVE  c.rows = Archive!RowsOf(c.bucket) /\ c.prior = Archive!PreviousAt(c.bucket)
    BY DEF Archive!RecordsExact
  <2>1. Archive!Finish
    BY DEF Archive!Next, Archive!Tick, Archive!Insert, Archive!Commit, Archive!Start,
       Archive!Bucket, Archive!Conflict, Archive!Abort
  <2>2. c \in added /\ lock = "archive"
    BY <2>1 DEF Archive!Finish
  <2>3. QED
    BY <2>2 DEF ArInv, ArRun, Exact
<1>2. QED
  BY <1>1, ArInit, ArStep, PTL DEF Archive!Spec

\* "No new rows" is said only when every row that is old enough is in a record, late ones included.
THEOREM NoGap ==
  ASSUME ArchiveBounds PROVE Archive!Spec => [][Archive!NoSilentGap]_(Archive!vars)
<1>1. ArInv /\ [Archive!Next]_(Archive!vars) => [Archive!NoSilentGap]_(Archive!vars)
  <2> SUFFICES ASSUME ArInv, Archive!Next, result' = "no_new_rows",
                      NEW r \in rows, Archive!BucketOf(r.at) < Archive!CompleteBefore
               PROVE  \E c \in records : r \in c.rows
    BY DEF Archive!NoSilentGap
  <2>1. Archive!Start
    BY DEF Archive!Next, Archive!Tick, Archive!Insert, Archive!Commit, Archive!Finish,
       Archive!Bucket, Archive!Conflict, Archive!Abort, ArInv, ArRun
  <2>2. Archive!Covered(r)
    BY <2>1 DEF Archive!Start
  <2>3. QED
    BY <2>2, CoveredRows
<1>2. QED
  BY <1>1, ArInit, ArStep, PTL DEF Archive!Spec

\* Records and the observation before the window are made of rows.
ArShape ==
    /\ prev \subseteq Archive!Row
    /\ \A c \in records \cup added :
          c.bucket \in Archive!Buckets /\ c.rows \subseteq Archive!Row /\ c.prior \subseteq Archive!Row
    /\ result \in {"none", "busy", "no_new_rows", "batch_complete", "conflict"}

\* The bucket of a row is one of the buckets.
LEMMA RowBucket ==
  ASSUME ArchiveBounds, NEW r \in Archive!Row
  PROVE  Archive!BucketOf(r.at) \in Archive!Buckets
<1>1. r.at \in Nat /\ r.at <= ArTime /\ ArTime \in Nat /\ ArLength \in Nat \ {0}
  BY DEF ArchiveBounds, Archive!Row
<1>2. r.at \div ArLength \in Nat /\ ArTime \div ArLength \in Nat /\ r.at \div ArLength <= ArTime \div ArLength
  BY <1>1, DayNumber, DaysForward
<1>3. QED
  BY <1>2 DEF Archive!BucketOf, Archive!Buckets

\* The observation before a bucket is a row.
LEMMA BeforeRows == ASSUME ArTypes PROVE \A b : Archive!PreviousAt(b) \subseteq Archive!Row
BY DEF ArTypes, Archive!PreviousAt, Archive!Last

\* Types of observations, records and the running window.
THEOREM ArchiveTypes == ASSUME ArchiveBounds PROVE Archive!Spec => []Archive!TypeOK
<1>1. Archive!Init => ArShape
  BY DEF Archive!Init, ArShape
<1>2. ArInv /\ ArShape /\ [Archive!Next]_(Archive!vars) => ArShape'
  <2> SUFFICES ASSUME ArInv, ArShape, [Archive!Next]_(Archive!vars) PROVE ArShape'
    OBVIOUS
  <2> USE DEF ArShape
  <2>1. CASE Archive!Start
    <3>1. UNCHANGED records
      BY <2>1 DEF Archive!Start
    <3>2. CASE lock' = "archive"
      <4>1. added' = {} /\ result' = "none" /\ \E b : prev' = Archive!PreviousAt(b)
        BY <2>1, <3>2 DEF Archive!Start, Archive!runVars, Archive!Nobody
      <4>2. QED
        BY <3>1, <4>1, BeforeRows DEF ArInv
    <3>3. CASE lock' # "archive"
      BY <2>1, <3>1, <3>3 DEF Archive!Start, Archive!runVars
    <3>4. QED
      BY <3>2, <3>3
  <2>2. CASE Archive!Bucket
    <3>1. /\ UNCHANGED <<records, result>> /\ prev' = Archive!Advanced(next)
          /\ added' = added \/ (Archive!RowsOf(next) # {} /\ added' = added \cup {Archive!Built(next, prev)})
      BY <2>2 DEF Archive!Bucket
    <3>2. Archive!RowsOf(next) \subseteq Archive!Row /\ rows \subseteq Archive!Row
      BY DEF Archive!RowsOf, ArInv, ArTypes
    <3>3. prev' \subseteq Archive!Row
      BY <3>1, <3>2 DEF Archive!Advanced, Archive!Last
    <3>4. Archive!RowsOf(next) # {} => next \in Archive!Buckets
      <4>1. ASSUME NEW r \in Archive!RowsOf(next) PROVE next = Archive!BucketOf(r.at) /\ r \in Archive!Row
        BY <3>2 DEF Archive!RowsOf
      <4>2. QED
        BY <4>1, RowBucket
    <3>5. Archive!Built(next, prev) =
            [bucket |-> next, rows |-> Archive!RowsOf(next), prior |-> prev]
      BY DEF Archive!Built
    <3>6. QED
      BY <3>1, <3>2, <3>3, <3>4, <3>5
  <2>3. CASE Archive!Conflict \/ Archive!Finish \/ Archive!Abort
    BY <2>3 DEF Archive!Conflict, Archive!Finish, Archive!Abort, Archive!Reset
  <2>4. CASE Archive!Tick \/ Archive!Insert \/ Archive!Commit \/ UNCHANGED Archive!vars
    BY <2>4 DEF Archive!Tick, Archive!Insert, Archive!Commit, Archive!vars, Archive!runVars
  <2>5. QED
    BY <2>1, <2>2, <2>3, <2>4 DEF Archive!Next
<1>3. ArInv /\ ArShape => Archive!TypeOK
  BY DEF ArInv, ArTypes, ArShape, Archive!TypeOK, Archive!Nobody
<1>4. QED
  BY <1>1, <1>2, <1>3, ArInit, ArStep, PTL DEF Archive!Spec

--------------------------------------------------------------------------------
(* The frozen exports.                                                     *)

Export == INSTANCE SnapshotExport WITH
    Reader <- ExReader, Kind <- ExKind, RowsOf <- ExRowsOf, Limit <- ExLimit, TTL <- ExTtl,
    MaxTime <- ExTime, MaxPromotions <- ExPromotions, MaxEdits <- ExEdits

\* Every export lists some rows.
ExportBounds ==
    /\ ExLimit \in Nat \ {0} /\ ExTtl \in Nat \ {0} /\ ExTime \in Nat
    /\ \A k \in ExKind : ExRowsOf[k] # <<>> /\ ExRowsOf[k] \in Seq(Export!Row(k))

ExTypes ==
    /\ now \in Nat /\ kind \in [ExReader -> ExKind]
    /\ pc \in [ExReader -> {"idle", "open", "frozen"}]
    /\ view = [r \in ExReader |-> view[r]] /\ pending = [r \in ExReader |-> pending[r]]
    /\ victims = [r \in ExReader |-> victims[r]] /\ got = [r \in ExReader |-> got[r]]
    /\ started \in [ExReader -> Nat] /\ result = [r \in ExReader |-> result[r]]
    /\ cursor = [r \in ExReader |-> [snapshot |-> cursor[r].snapshot, after |-> cursor[r].after]]

\* A list of rows.
IsList(p) == p \in Seq({p[n] : n \in DOMAIN p})

\* Nothing is in the sets, or what they make of every export was committed.
Committed(h, v) ==
    \/ \A s \in Export!Scope : h[s] = Export!NoHead
    \/ \A k \in ExKind : Export!Payload(k, h, v) \in published

\* A snapshot holds what was committed, and lives for TTL after its epoch.
Frozen(s) ==
    /\ s.items \in published /\ s.generation.epoch \in Nat
    /\ s.expires = (s.generation.epoch + 1) * ExTtl + ExTtl

ExContents ==
    /\ \A p \in published : IsList(p)
    /\ Committed(heads, rows)
    /\ \A r \in ExReader : pc[r] # "idle" => Committed(view[r].heads, view[r].rows)
    /\ \A s \in snapshots : Frozen(s)
    /\ \A r \in ExReader : \A s \in view[r].snapshots \cup pending[r] \cup victims[r] : Frozen(s)

Following(r) == pc[r] = "frozen" \/ cursor[r] # Export!NoCursor

\* A pass has the rows up to its cursor, and its snapshot lives for TTL after its first page.
ExPass(r) ==
    /\ Following(r) =>
          /\ Frozen(cursor[r].snapshot)
          /\ cursor[r].after \in 0..Len(cursor[r].snapshot.items)
          /\ got[r] = SubSeq(cursor[r].snapshot.items, 1, cursor[r].after)
          /\ started[r] + ExTtl <= cursor[r].snapshot.expires
    /\ pc[r] = "open" /\ cursor[r] = Export!NoCursor => got[r] = <<>>

\* Only expired snapshots go.
ExLife(r) ==
    /\ \A s \in view[r].snapshots : s \in snapshots \/ s.expires <= now
    /\ \A s \in victims[r] : s.expires <= now
    /\ LET s == cursor[r].snapshot
       IN  Following(r) =>
              \/ s.expires <= now
              \/ pc[r] = "idle" /\ s \in snapshots
              \/ pc[r] = "open" /\ s \in view[r].snapshots
              \/ pc[r] = "frozen" /\ (s \in pending[r] \/ s \in snapshots)

ExInv == ExTypes /\ ExContents /\ \A r \in ExReader : ExPass(r) /\ ExLife(r)

\* What a set makes of an export is a list of rows.
LEMMA PayloadList ==
  ASSUME ExportBounds, NEW k \in ExKind, NEW h, NEW v PROVE IsList(Export!Payload(k, h, v))
<1> DEFINE members == SelectSeq(ExRowsOf[k], LAMBDA i : i \in h[i[1]].members)
           entryOf(n) == <<members[n], v[members[n]].value>>
<1>1. DOMAIN members = 1..Len(members) /\ Len(members) \in Nat
  BY DEF ExportBounds
<1>2. Export!Payload(k, h, v) = [n \in DOMAIN members |-> entryOf(n)]
  BY DEF Export!Payload
<1> HIDE DEF members
<1>3. [n \in DOMAIN members |-> entryOf(n)] \in [1..Len(members) -> {entryOf(n) : n \in DOMAIN members}]
  BY <1>1
<1>4. QED
  BY <1>1, <1>2, <1>3 DEF IsList

\* Sets that are not empty make a committed content.
LEMMA ValidIsPublished ==
  ASSUME ExportBounds, NEW h, NEW v, Committed(h, v), NEW k \in ExKind, Export!ValidHeads(k, h)
  PROVE  Export!Payload(k, h, v) \in published
<1>1. PICK s \in Export!ScopesOf(k) : TRUE
  <2>1. 1 \in DOMAIN ExRowsOf[k]
    BY DEF ExportBounds
  <2>2. ExRowsOf[k][1] \in Export!Row(k)
    BY <2>1 DEF Export!Row
  <2>3. QED
    BY <2>2 DEF Export!ScopesOf
<1>2. s \in Export!Scope /\ h[s] # Export!NoHead
  BY <1>1 DEF Export!Scope, Export!ValidHeads
<1>3. QED
  BY <1>2 DEF Committed

\* The life of a snapshot ends a TTL after its epoch, so at least a TTL from now.
LEMMA LifeFromNow ==
  ASSUME ExportBounds, now \in Nat
  PROVE  /\ Export!Epoch(now) \in Nat
         /\ Export!ExpiresAt(now) = (Export!Epoch(now) + 1) * ExTtl + ExTtl
         /\ now + ExTtl <= Export!ExpiresAt(now)
<1> DEFINE e == now \div ExTtl
<1>1. ExTtl \in Nat /\ ExTtl > 0
  BY DEF ExportBounds
<1>2. e \in Nat /\ now < ExTtl * e + ExTtl
  BY <1>1
<1>3. (e + 1) * ExTtl = ExTtl * e + ExTtl /\ ExTtl * e \in Nat
  <2> HIDE DEF e
  <2>1. QED
    BY <1>1, <1>2
<1>4. QED
  BY <1>1, <1>2, <1>3 DEF Export!Epoch, Export!ExpiresAt

\* The life of a snapshot is a time.
LEMMA FrozenTime == ASSUME ExportBounds, NEW s, Frozen(s) PROVE s.expires \in Nat
<1>1. s.generation.epoch \in Nat /\ ExTtl \in Nat
  BY DEF Frozen, ExportBounds
<1>2. (s.generation.epoch + 1) * ExTtl \in Nat
  BY <1>1
<1>3. QED
  BY <1>1, <1>2 DEF Frozen

\* Nothing is frozen initially.
LEMMA ExInit == ASSUME ExportBounds PROVE Export!Init => ExInv
<1> SUFFICES ASSUME Export!Init PROVE ExInv
  OBVIOUS
<1> USE DEF Export!Init, Export!NoView, Export!NoCursor, Export!Nothing
<1>1. ExTypes
  BY DEF ExTypes
<1>2. ExContents
  BY DEF ExContents, Committed, Export!NoHead
<1>3. \A r \in ExReader : ExPass(r) /\ ExLife(r)
  BY DEF ExPass, ExLife, Following
<1>4. QED
  BY <1>1, <1>2, <1>3 DEF ExInv

\* A collector or an administrator commits: the new content is published, nothing else moves.
LEMMA ExChange ==
  ASSUME ExportBounds, ExInv,
         published' = published \cup {Export!Payload(k, heads', rows') : k \in ExKind},
         UNCHANGED <<now, snapshots, Export!txVars, Export!clientVars>>
  PROVE  ExInv'
<1> USE DEF Export!txVars, Export!clientVars
<1>1. ExTypes'
  BY DEF ExInv, ExTypes
<1>2. published \subseteq published' /\ \A p \in published' : IsList(p)
  BY PayloadList DEF ExInv, ExContents
<1>3. Committed(heads, rows)'
  BY DEF Committed
<1>4. \A h, v : Committed(h, v) =>
        \/ \A s \in Export!Scope : h[s] = Export!NoHead
        \/ \A k \in ExKind : Export!Payload(k, h, v) \in published'
  BY <1>2 DEF Committed
<1>5. ASSUME NEW r \in ExReader, pc'[r] # "idle" PROVE Committed(view[r].heads, view[r].rows)'
  <2>1. pc' = pc /\ view' = view
    OBVIOUS
  <2>2. Committed(view[r].heads, view[r].rows)
    BY <1>5, <2>1 DEF ExInv, ExContents
  <2>3. \/ \A s \in Export!Scope : view[r].heads[s] = Export!NoHead
        \/ \A k \in ExKind : Export!Payload(k, view[r].heads, view[r].rows) \in published'
    BY <1>4, <2>2
  <2>4. QED
    BY <2>1, <2>3 DEF Committed
<1>6. \A s : Frozen(s) => Frozen(s)'
  BY <1>2 DEF Frozen
<1>7. ExContents'
  <2>1. \A s \in snapshots' : Frozen(s)'
    BY <1>6 DEF ExInv, ExContents
  <2>2. \A r \in ExReader :
           \A s \in view'[r].snapshots \cup pending'[r] \cup victims'[r] : Frozen(s)'
    BY <1>6 DEF ExInv, ExContents
  <2>3. QED
    BY <1>2, <1>3, <1>5, <2>1, <2>2 DEF ExContents
<1>8. \A r \in ExReader : (ExPass(r) /\ ExLife(r))'
  BY <1>6 DEF ExInv, ExPass, ExLife, Following, Export!NoCursor
<1>9. QED
  BY <1>1, <1>7, <1>8 DEF ExInv

\* What the request of another client leaves alone.
Untouched(q) ==
    /\ pc'[q] = pc[q] /\ view'[q] = view[q] /\ pending'[q] = pending[q]
    /\ victims'[q] = victims[q] /\ cursor'[q] = cursor[q] /\ got'[q] = got[q]
    /\ started'[q] = started[q]

\* A step of one client leaves the others' passes whole as long as only expired snapshots go.
LEMMA ExOwn ==
  ASSUME ExportBounds, ExInv, NEW r \in ExReader,
         UNCHANGED <<now, heads, rows, published>>, ExTypes',
         \A q \in ExReader \ {r} : Untouched(q),
         \A s \in snapshots : s \in snapshots' \/ s.expires <= now,
         \A s \in snapshots' : Frozen(s),
         pc'[r] # "idle" => Committed(view'[r].heads, view'[r].rows),
         \A s \in view'[r].snapshots \cup pending'[r] \cup victims'[r] : Frozen(s),
         ExPass(r)', ExLife(r)'
  PROVE  ExInv'
<1>1. \A s : Frozen(s)' <=> Frozen(s)
  BY DEF Frozen
<1>2. \A q \in ExReader : pc'[q] # "idle" => Committed(view'[q].heads, view'[q].rows)
  BY DEF Untouched, ExInv, ExContents
<1>3. ExContents'
  <2>1. \A p \in published' : IsList(p)
    BY DEF ExInv, ExContents
  <2>2. Committed(heads, rows)'
    BY DEF ExInv, ExContents, Committed
  <2>3. \A q \in ExReader : pc'[q] # "idle" => Committed(view[q].heads, view[q].rows)'
    BY <1>2 DEF Committed
  <2>4. \A q \in ExReader :
           \A s \in view'[q].snapshots \cup pending'[q] \cup victims'[q] : Frozen(s)'
    BY <1>1 DEF Untouched, ExInv, ExContents
  <2>5. QED
    BY <1>1, <2>1, <2>2, <2>3, <2>4 DEF ExContents
<1>4. ASSUME NEW q \in ExReader, q # r PROVE (ExPass(q) /\ ExLife(q))'
  <2>1. Untouched(q) /\ ExPass(q) /\ ExLife(q)
    BY <1>4 DEF ExInv
  <2>2. ExPass(q)'
    BY <1>1, <2>1 DEF ExPass, Following, Untouched, Export!NoCursor
  <2>3. ExLife(q)'
    BY <2>1 DEF ExLife, Following, Untouched, Export!NoCursor
  <2>4. QED
    BY <2>2, <2>3
<1>5. QED
  BY <1>3, <1>4 DEF ExInv

\* A client that gives up, or asks for a first page, has no cursor and no rows.
LEMMA ExAbandon ==
  ASSUME ExportBounds, ExInv, NEW r \in ExReader, NEW outcomeOf, Export!Abandon(r, outcomeOf)
  PROVE  ExInv'
<1>1. /\ UNCHANGED <<now, heads, rows, snapshots, published, kind>>
      /\ pc' = [pc EXCEPT ![r] = "idle"] /\ view' = [view EXCEPT ![r] = Export!NoView]
      /\ pending' = [pending EXCEPT ![r] = {}] /\ victims' = [victims EXCEPT ![r] = {}]
      /\ result' = [result EXCEPT ![r] = outcomeOf] /\ got' = [got EXCEPT ![r] = <<>>]
      /\ cursor' = [cursor EXCEPT ![r] = Export!NoCursor] /\ started' = [started EXCEPT ![r] = 0]
  BY DEF Export!Abandon, Export!Close, Export!dbVars, Export!Nothing
<1>2. ExTypes'
  BY <1>1 DEF ExInv, ExTypes, Export!NoCursor
<1>3. \A q \in ExReader \ {r} : Untouched(q)
  BY <1>1 DEF ExInv, ExTypes, Untouched
<1>4. /\ pc'[r] = "idle" /\ view'[r].snapshots = {} /\ pending'[r] = {} /\ victims'[r] = {}
      /\ cursor'[r] = Export!NoCursor
  BY <1>1 DEF ExInv, ExTypes, Export!NoView
<1>5. (ExPass(r) /\ ExLife(r))'
  BY <1>4 DEF ExPass, ExLife, Following, Export!NoCursor
<1>6. \A s \in snapshots' : Frozen(s)
  BY <1>1 DEF ExInv, ExContents
<1>7. QED
  BY <1>1, <1>2, <1>3, <1>4, <1>5, <1>6, ExOwn

\* A request sees what is committed when it begins.
LEMMA ExOpen ==
  ASSUME ExportBounds, ExInv, NEW r \in ExReader, pc'[r] = "open", pc' = [pc EXCEPT ![r] = "open"],
         Export!Snapshot(r), UNCHANGED <<now, Export!dbVars, kind, pending, victims, started>>,
         ExTypes', \A q \in ExReader \ {r} : cursor'[q] = cursor[q] /\ got'[q] = got[q],
         \/ cursor'[r] = Export!NoCursor /\ got'[r] = <<>>
         \/ pc[r] = "idle" /\ cursor[r] # Export!NoCursor /\ UNCHANGED <<cursor, got>>
  PROVE  ExInv'
<1>1. view'[r] = [heads |-> heads, rows |-> rows, snapshots |-> snapshots]
  BY DEF Export!Snapshot, ExInv, ExTypes
<1>2. \A q \in ExReader \ {r} : Untouched(q)
  BY DEF Export!Snapshot, Untouched, ExInv, ExTypes
<1>3. Committed(view'[r].heads, view'[r].rows)
  BY <1>1 DEF ExInv, ExContents, Committed
<1>4. \A s \in view'[r].snapshots \cup pending'[r] \cup victims'[r] : Frozen(s)
  BY <1>1 DEF ExInv, ExContents
<1>5. \A s : Frozen(s)' <=> Frozen(s)
  BY DEF Frozen, Export!dbVars
<1>6. ExPass(r)'
  BY <1>5 DEF ExInv, ExPass, Following, Export!NoCursor
<1>7. ExLife(r)'
  BY <1>1 DEF ExInv, ExLife, Following, Export!NoCursor, Export!dbVars
<1>8. \A s \in snapshots' : Frozen(s)
  BY DEF ExInv, ExContents, Export!dbVars
<1>9. QED
  BY <1>2, <1>3, <1>4, <1>6, <1>7, <1>8, ExOwn DEF Export!dbVars

\* A first page starts on a snapshot that lives for TTL from now.
LEMMA ExFreeze ==
  ASSUME ExportBounds, ExInv, NEW r \in ExReader, Export!Reuse(r) \/ Export!Freeze(r)
  PROVE  ExInv'
<1> DEFINE h == view[r].heads
           v == view[r].rows
<1>1. /\ pc[r] = "open" /\ cursor[r] = Export!NoCursor /\ got[r] = <<>> /\ kind[r] \in ExKind
      /\ Export!ValidHeads(kind[r], h) /\ Committed(h, v) /\ now \in Nat
  BY DEF Export!Reuse, Export!Freeze, ExInv, ExTypes, ExContents, ExPass
<1>2. /\ Export!Epoch(now) \in Nat
      /\ Export!ExpiresAt(now) = (Export!Epoch(now) + 1) * ExTtl + ExTtl
      /\ now + ExTtl <= Export!ExpiresAt(now)
  BY <1>1, LifeFromNow
<1>3. Frozen(Export!New(r)) /\ Export!New(r).expires = Export!ExpiresAt(now)
  <2>1. Export!New(r).items \in published
    BY <1>1, ValidIsPublished DEF Export!New
  <2>2. Export!New(r).generation.epoch = Export!Epoch(now)
    BY DEF Export!New, Export!Generation
  <2>3. Export!New(r).expires = Export!ExpiresAt(now)
    BY DEF Export!New
  <2>4. QED
    BY <1>2, <2>1, <2>2, <2>3 DEF Frozen
<1>4. PICK s : /\ Frozen(s) /\ s.expires = Export!ExpiresAt(now)
               /\ cursor' = [cursor EXCEPT ![r] = [snapshot |-> s, after |-> 0]]
               /\ \/ UNCHANGED <<pending, victims>> /\ s \in snapshots
                  \/ /\ pending' = [pending EXCEPT ![r] = {s}]
                     /\ victims' = [victims EXCEPT ![r] = Export!Oldest(Export!Expired(r))]
  <2>1. CASE Export!Reuse(r)
    <3>1. PICK s \in Export!Cached(r) :
            cursor' = [cursor EXCEPT ![r] = [snapshot |-> s, after |-> 0]]
      BY <2>1 DEF Export!Reuse
    <3>2. s \in view[r].snapshots /\ s.expires > now /\ s.generation.epoch = Export!Epoch(now)
      BY <3>1 DEF Export!Cached, Export!Generation
    <3>3. Frozen(s)
      BY <3>2 DEF ExInv, ExContents
    <3>4. s.expires = Export!ExpiresAt(now)
      BY <1>2, <3>2, <3>3 DEF Frozen
    <3>5. s \in snapshots
      <4>1. s.expires \in Nat /\ ~ (s.expires <= now)
        BY <1>1, <3>2, <3>3, FrozenTime
      <4>2. QED
        BY <3>2, <4>1 DEF ExInv, ExLife
    <3>6. QED
      BY <2>1, <3>1, <3>3, <3>4, <3>5 DEF Export!Reuse
  <2>2. CASE Export!Freeze(r)
    BY <1>3, <2>2 DEF Export!Freeze
  <2>3. QED
    BY <2>1, <2>2
<1>5. /\ UNCHANGED <<now, heads, rows, snapshots, published, kind, view, got, result>>
      /\ pc' = [pc EXCEPT ![r] = "frozen"] /\ started' = [started EXCEPT ![r] = now]
  BY DEF Export!Reuse, Export!Freeze, Export!dbVars
<1>6. ExTypes'
  BY <1>1, <1>4, <1>5 DEF ExInv, ExTypes
<1>7. \A q \in ExReader \ {r} : Untouched(q)
  BY <1>4, <1>5 DEF ExInv, ExTypes, Untouched
<1>8. /\ pc'[r] = "frozen" /\ cursor'[r] = [snapshot |-> s, after |-> 0] /\ started'[r] = now
      /\ got'[r] = <<>> /\ view'[r] = view[r]
      /\ pending'[r] = pending[r] \/ pending'[r] = {s}
      /\ victims'[r] = victims[r] \/ victims'[r] = Export!Oldest(Export!Expired(r))
      /\ s \in snapshots' \/ s \in pending'[r]
  BY <1>1, <1>4, <1>5 DEF ExInv, ExTypes
<1>9. \A x \in Export!Oldest(Export!Expired(r)) : x.expires <= now /\ Frozen(x)
  <2>1. CASE Export!Expired(r) = {}
    BY <2>1 DEF Export!Oldest
  <2>2. CASE Export!Expired(r) # {}
    <3> DEFINE times == {x.expires : x \in Export!Expired(r)}
    <3>1. \A x \in Export!Expired(r) : x.expires \in Nat /\ x.expires <= now /\ Frozen(x)
      BY FrozenTime DEF Export!Expired, ExInv, ExContents
    <3>2. \E n \in times : \A m \in times : n <= m
      BY <2>2, <3>1, LeastNumber
    <3>3. \E x \in Export!Expired(r) : \A t \in Export!Expired(r) : x.expires <= t.expires
      BY <3>2
    <3>4. \A x \in Export!Oldest(Export!Expired(r)) : x \in Export!Expired(r)
      BY <2>2, <3>3 DEF Export!Oldest
    <3>5. QED
      BY <3>1, <3>4
  <2>3. QED
    BY <2>1, <2>2
<1>10. ExPass(r)'
  <2>1. IsList(s.items) /\ Len(s.items) \in Nat
    BY <1>4 DEF Frozen, ExInv, ExContents, IsList
  <2>2. Frozen(s)'
    BY <1>4, <1>5 DEF Frozen
  <2>3. SubSeq(s.items, 1, 0) = <<>>
    BY <2>1 DEF IsList
  <2>4. QED
    BY <1>1, <1>2, <1>4, <1>8, <2>1, <2>2, <2>3 DEF ExPass
<1>11. ExLife(r)'
  BY <1>4, <1>5, <1>8, <1>9 DEF ExInv, ExLife
<1>12. \A x \in view'[r].snapshots \cup pending'[r] \cup victims'[r] : Frozen(x)
  BY <1>4, <1>8, <1>9 DEF ExInv, ExContents
<1>13. Committed(view'[r].heads, view'[r].rows) /\ \A x \in snapshots' : Frozen(x)
  BY <1>1, <1>5, <1>8 DEF ExInv, ExContents
<1>14. QED
  BY <1>5, <1>6, <1>7, <1>10, <1>11, <1>12, <1>13, ExOwn

\* The first rows of a list and the rows after them are its first rows.
LEMMA PiecesJoin ==
  ASSUME NEW S, NEW s \in Seq(S), NEW k \in 0..Len(s), NEW m \in k..Len(s)
  PROVE  SubSeq(s, 1, k) \o SubSeq(s, k + 1, m) = SubSeq(s, 1, m)
<1> DEFINE a == SubSeq(s, 1, k)
           b == SubSeq(s, k + 1, m)
           c == SubSeq(s, 1, m)
<1>1. Len(s) \in Nat /\ k \in Nat /\ m \in Nat /\ k <= m /\ m <= Len(s)
  OBVIOUS
<1>2. a \in Seq(S) /\ Len(a) = k /\ \A i \in 1..k : a[i] = s[i]
  BY <1>1
<1>3. b \in Seq(S) /\ Len(b) = m - k /\ \A i \in 1..(m - k) : b[i] = s[k + i]
  BY <1>1
<1>4. c \in Seq(S) /\ Len(c) = m /\ \A i \in 1..m : c[i] = s[i]
  BY <1>1
<1> HIDE DEF a, b, c
<1>5. a \o b \in Seq(S) /\ Len(a \o b) = m
  <2>1. a \in Seq(S) /\ b \in Seq(S) /\ Len(a) = k /\ Len(b) = m - k
    BY <1>2, <1>3
  <2>2. a \o b \in Seq(S) /\ Len(a \o b) = Len(a) + Len(b)
    BY <2>1
  <2>3. QED
    BY <1>1, <2>1, <2>2
<1>6. \A i \in 1..m : (a \o b)[i] = c[i]
  <2> SUFFICES ASSUME NEW i \in 1..m PROVE (a \o b)[i] = c[i]
    OBVIOUS
  <2>1. CASE i <= k
    <3>1. i \in 1..k
      BY <1>1, <2>1
    <3>2. (a \o b)[i] = a[i]
      BY <1>1, <1>2, <1>3, <2>1, <3>1
    <3>3. QED
      BY <1>2, <1>4, <3>1, <3>2
  <2>2. CASE i > k
    <3>1. i - k \in 1..(m - k) /\ k + (i - k) = i
      BY <1>1, <2>2
    <3>2. (a \o b)[i] = b[i - k]
      BY <1>1, <1>2, <1>3, <2>2
    <3>3. QED
      BY <1>3, <1>4, <3>1, <3>2
  <2>3. i <= k \/ i > k
    BY <1>1
  <2> DEFINE d == a \o b
  <2> HIDE DEF d
  <2>4. QED
    <3>1. (i <= k => d[i] = c[i]) /\ (i > k => d[i] = c[i])
      BY <2>1, <2>2 DEF d
    <3>2. d[i] = c[i]
      BY <2>3, <3>1
    <3>3. QED
      BY <3>2 DEF d
<1>7. a \o b = c
  BY <1>1, <1>4, <1>5, <1>6
<1>8. QED
  BY <1>7 DEF a, b, c

\* A page adds the next rows; what is committed or deleted with it was new or expired.
LEMMA ExAnswer ==
  ASSUME ExportBounds, ExInv, NEW r \in ExReader, Export!AnswerFirst(r) \/ Export!AnswerNext(r)
  PROVE  /\ ExInv'
         /\ cursor[r].after + ExLimit >= Len(cursor[r].snapshot.items) => Export!Received(r) \in published
<1> DEFINE c == cursor[r]
           s == cursor[r].snapshot
           final == c.after + ExLimit >= Len(s.items)
<1>1. Following(r) /\ Frozen(s) /\ IsList(s.items) /\ s.expires \in Nat /\ now \in Nat
  <2>1. Following(r)
    BY DEF Export!AnswerFirst, Export!AnswerNext, Following
  <2>2. Frozen(s)
    BY <2>1 DEF ExInv, ExPass
  <2>3. QED
    BY <2>1, <2>2, FrozenTime DEF Frozen, ExInv, ExContents, ExTypes
<1>2. /\ Len(s.items) \in Nat /\ c.after \in 0..Len(s.items) /\ ExLimit \in Nat \ {0}
      /\ got[r] = SubSeq(s.items, 1, c.after) /\ started[r] + ExTtl <= s.expires
  BY <1>1 DEF IsList, ExInv, ExPass, ExportBounds
<1>3. /\ UNCHANGED <<now, heads, rows, published, kind>>
      /\ snapshots' = (snapshots \ victims[r]) \cup pending[r]
      /\ pc' = [pc EXCEPT ![r] = "idle"] /\ view' = [view EXCEPT ![r] = Export!NoView]
      /\ pending' = [pending EXCEPT ![r] = {}] /\ victims' = [victims EXCEPT ![r] = {}]
      /\ got' = [got EXCEPT ![r] = IF final THEN <<>> ELSE Export!Received(r)]
      /\ started' = [started EXCEPT ![r] = IF final THEN 0 ELSE @]
      /\ cursor' = [cursor EXCEPT ![r] =
                      IF final THEN Export!NoCursor ELSE [cursor[r] EXCEPT !.after = @ + ExLimit]]
      /\ result' = [result EXCEPT ![r] = IF final THEN "done" ELSE "page"]
  BY DEF Export!AnswerFirst, Export!AnswerNext, Export!Answer, Export!Close, Export!Nothing
<1>4. Export!Received(r) = SubSeq(s.items, 1, Export!LastOn(c)) /\ Export!LastOn(c) \in Nat
  <2>1. s.items \in Seq({s.items[n] : n \in DOMAIN s.items})
    BY <1>1 DEF IsList
  <2>2. Export!LastOn(c) \in c.after..Len(s.items)
    BY <1>2 DEF Export!LastOn
  <2>3. Export!Received(r) = SubSeq(s.items, 1, c.after) \o SubSeq(s.items, c.after + 1, Export!LastOn(c))
    BY <1>2 DEF Export!Received, Export!Page
  <2>4. Len(s.items) \in Nat /\ c.after \in 0..Len(s.items)
    BY <1>2
  <2>5. SubSeq(s.items, 1, c.after) \o SubSeq(s.items, c.after + 1, Export!LastOn(c))
          = SubSeq(s.items, 1, Export!LastOn(c))
    BY <2>1, <2>2, <2>4, PiecesJoin
  <2>6. Export!LastOn(c) \in Nat
    BY <2>2, <2>4
  <2>7. QED
    BY <2>3, <2>5, <2>6
<1>5. final => Export!Received(r) \in published
  <2> SUFFICES ASSUME final PROVE Export!Received(r) \in published
    OBVIOUS
  <2>1. Export!LastOn(c) = Len(s.items)
    BY <1>2 DEF Export!LastOn
  <2>2. SubSeq(s.items, 1, Len(s.items)) = s.items
    <3> DEFINE V == {s.items[n] : n \in DOMAIN s.items}
               p == s.items
    <3>1. p \in Seq(V)
      BY <1>1 DEF IsList
    <3> HIDE DEF V, p
    <3>2. SubSeq(p, 1, Len(p)) = p
      BY <3>1
    <3>3. QED
      BY <3>2 DEF p
  <2>3. QED
    BY <1>1, <1>4, <2>1, <2>2 DEF Frozen
<1>6. ~ final => c.after + ExLimit \in 0..Len(s.items) /\ Export!LastOn(c) = c.after + ExLimit
  BY <1>2 DEF Export!LastOn
<1>7. s \in snapshots' \/ s.expires <= now
  <2>1. CASE Export!AnswerFirst(r)
    BY <1>1, <1>3, <2>1 DEF Export!AnswerFirst, ExInv, ExLife, Following
  <2>2. CASE Export!AnswerNext(r)
    BY <1>1, <1>3, <2>2 DEF Export!AnswerNext, Export!Usable, ExInv, ExLife
  <2>3. QED
    BY <2>1, <2>2
<1>8. \A x \in snapshots : x \in snapshots' \/ x.expires <= now
  BY <1>3 DEF ExInv, ExLife
<1>9. \A x \in snapshots' : Frozen(x)
  BY <1>3 DEF ExInv, ExContents
<1>10. \A q \in ExReader \ {r} : Untouched(q)
  BY <1>3 DEF ExInv, ExTypes, Untouched
<1>11. pc'[r] = "idle" /\ view'[r].snapshots = {} /\ pending'[r] = {} /\ victims'[r] = {}
  BY <1>3 DEF ExInv, ExTypes, Export!NoView
<1>12. IF final THEN cursor'[r] = Export!NoCursor
       ELSE cursor'[r] = [snapshot |-> s, after |-> c.after + ExLimit]
  <2>1. cursor[r] = [snapshot |-> s, after |-> c.after]
    BY DEF ExInv, ExTypes
  <2>2. [cursor[r] EXCEPT !.after = @ + ExLimit] = [snapshot |-> s, after |-> c.after + ExLimit]
    BY <2>1
  <2>3. cursor'[r] = IF final THEN Export!NoCursor ELSE [cursor[r] EXCEPT !.after = @ + ExLimit]
    BY <1>3 DEF ExInv, ExTypes
  <2>4. QED
    BY <2>2, <2>3
<1>13. ~ final => got'[r] = Export!Received(r) /\ started'[r] = started[r]
  BY <1>3 DEF ExInv, ExTypes
<1>14. ExTypes'
  <2>1. DOMAIN cursor' = ExReader /\ cursor' = [q \in ExReader |-> cursor'[q]]
    BY <1>3 DEF ExInv, ExTypes
  <2>2. \A q \in ExReader : cursor'[q] = [snapshot |-> cursor'[q].snapshot, after |-> cursor'[q].after]
    BY <1>10, <1>12 DEF Untouched, ExInv, ExTypes, Export!NoCursor
  <2>3. cursor' = [q \in ExReader |-> [snapshot |-> cursor'[q].snapshot, after |-> cursor'[q].after]]
    BY <2>1, <2>2
  <2>4. QED
    BY <1>3, <2>3 DEF ExInv, ExTypes
<1>15. \A x : Frozen(x)' <=> Frozen(x)
  BY <1>3 DEF Frozen
<1>16. ExPass(r)' /\ ExLife(r)'
  <2>1. CASE final
    BY <1>11, <1>12, <2>1 DEF ExPass, ExLife, Following, Export!NoCursor
  <2>2. CASE ~ final
    <3> HIDE DEF c, s, final
    <3>1. cursor'[r].snapshot = s /\ cursor'[r].after = c.after + ExLimit
      BY <1>12, <2>2
    <3>2. ExPass(r)'
      <4>1. got'[r] = SubSeq(s.items, 1, c.after + ExLimit)
        BY <1>4, <1>6, <1>13, <2>2
      <4>2. started'[r] + ExTtl <= s.expires /\ c.after + ExLimit \in 0..Len(s.items)
        BY <1>2, <1>6, <1>13, <2>2
      <4>3. PICK z : z = s
        OBVIOUS
      <4>4. Frozen(z)'
        BY <1>1, <1>15, <4>3
      <4>5. QED
        BY <1>11, <3>1, <4>1, <4>2, <4>3, <4>4 DEF ExPass, Frozen
    <3>3. ExLife(r)'
      BY <1>3, <1>7, <1>11, <3>1 DEF ExLife
    <3>4. QED
      BY <3>2, <3>3
  <2>3. QED
    BY <2>1, <2>2
<1>17. ExInv'
  BY <1>3, <1>8, <1>9, <1>10, <1>11, <1>14, <1>16, ExOwn
<1>18. QED
  BY <1>5, <1>17

\* What every step keeps.
LEMMA ExStep ==
  ASSUME ExportBounds PROVE ExInv /\ [Export!Next]_(Export!vars) => ExInv'
<1> SUFFICES ASSUME ExInv, [Export!Next]_(Export!vars) PROVE ExInv'
  OBVIOUS
<1>1. CASE Export!Tick
  <2>1. /\ UNCHANGED <<Export!dbVars, Export!txVars, Export!clientVars>> /\ now' = now + 1
    BY <1>1 DEF Export!Tick
  <2>2. ExTypes' /\ \A x : Frozen(x)' <=> Frozen(x)
    BY <2>1 DEF Export!dbVars, Export!txVars, Export!clientVars, ExInv, ExTypes, Frozen
  <2>3. ExContents'
    BY <2>1, <2>2 DEF Export!dbVars, Export!txVars, Export!clientVars, ExInv, ExContents, Committed
  <2>4. ASSUME NEW r \in ExReader PROVE ExPass(r)'
    BY <2>1, <2>2 DEF Export!dbVars, Export!txVars, Export!clientVars, ExInv, ExPass, Following,
       Export!NoCursor
  <2>5. ASSUME NEW r \in ExReader PROVE ExLife(r)'
    <3>1. \A x : Frozen(x) /\ x.expires <= now => x.expires <= now'
      BY <2>1, FrozenTime DEF ExInv, ExTypes
    <3>2. \A x \in victims[r] : x.expires <= now'
      BY <3>1 DEF ExInv, ExContents, ExLife
    <3>3. QED
      BY <2>1, <3>1, <3>2 DEF Export!dbVars, Export!txVars, Export!clientVars, ExInv, ExContents,
         ExPass, ExLife, Following, Export!NoCursor
  <2>6. QED
    BY <2>2, <2>3, <2>4, <2>5 DEF ExInv
<1>2. CASE Export!Promote
  BY <1>2, ExChange DEF Export!Promote
<1>3. CASE Export!ManualEdit
  <2>1. heads' = heads
    BY <1>3 DEF Export!ManualEdit
  <2>2. published' = published \cup {Export!Payload(k, heads', rows') : k \in ExKind}
    BY <1>3, <2>1 DEF Export!ManualEdit
  <2>3. QED
    BY <1>3, <2>2, ExChange DEF Export!ManualEdit
<1>4. ASSUME NEW r \in ExReader, Export!FirstPage(r) PROVE ExInv'
  <2>1. /\ pc' = [pc EXCEPT ![r] = "open"] /\ Export!Snapshot(r)
        /\ cursor' = [cursor EXCEPT ![r] = Export!NoCursor] /\ got' = [got EXCEPT ![r] = <<>>]
        /\ result' = [result EXCEPT ![r] = "none"]
        /\ UNCHANGED <<now, Export!dbVars, kind, pending, victims, started>>
    BY <1>4 DEF Export!FirstPage
  <2>2. ExTypes'
    BY <2>1 DEF ExInv, ExTypes, Export!Snapshot, Export!NoCursor
  <2>3. /\ pc'[r] = "open" /\ cursor'[r] = Export!NoCursor /\ got'[r] = <<>>
        /\ \A q \in ExReader \ {r} : cursor'[q] = cursor[q] /\ got'[q] = got[q]
    BY <2>1 DEF ExInv, ExTypes
  <2>4. QED
    BY <2>1, <2>2, <2>3, ExOpen
<1>5. ASSUME NEW r \in ExReader, Export!NextPage(r) PROVE ExInv'
  <2>1. /\ pc' = [pc EXCEPT ![r] = "open"] /\ Export!Snapshot(r) /\ pc[r] = "idle"
        /\ cursor[r] # Export!NoCursor /\ UNCHANGED <<cursor, got, started, result>>
        /\ UNCHANGED <<now, Export!dbVars, kind, pending, victims>>
    BY <1>5 DEF Export!NextPage, Export!clientVars
  <2>2. ExTypes' /\ pc'[r] = "open"
    BY <2>1 DEF ExInv, ExTypes, Export!Snapshot
  <2>3. QED
    BY <2>1, <2>2, ExOpen
<1>6. ASSUME NEW r \in ExReader, Export!Reuse(r) \/ Export!Freeze(r) PROVE ExInv'
  BY <1>6, ExFreeze
<1>7. ASSUME NEW r \in ExReader, Export!Race(r) PROVE ExInv'
  <2>1. CASE Export!Abandon(r, "busy")
    BY <2>1, ExAbandon
  <2>2. CASE ~ Export!Abandon(r, "busy")
    <3>1. /\ pc[r] = "open" /\ cursor[r] = Export!NoCursor /\ Export!Snapshot(r)
          /\ UNCHANGED <<now, Export!dbVars, pc, kind, pending, victims, Export!clientVars>>
      BY <1>7, <2>2 DEF Export!Race
    <3>2. ExTypes' /\ pc' = [pc EXCEPT ![r] = "open"]
      BY <3>1 DEF ExInv, ExTypes, Export!Snapshot, Export!clientVars
    <3>3. got'[r] = <<>> /\ cursor'[r] = Export!NoCursor /\ pc'[r] = "open"
      BY <3>1 DEF Export!clientVars, ExInv, ExPass
    <3>4. QED
      BY <3>1, <3>2, <3>3, ExOpen DEF Export!clientVars
  <2>3. QED
    BY <2>1, <2>2
<1>8. ASSUME NEW r \in ExReader, Export!LockTimeout(r) \/ Export!FreezeFails(r) \/ Export!Gone(r)
      PROVE  ExInv'
  BY <1>8, ExAbandon DEF Export!LockTimeout, Export!FreezeFails, Export!Gone
<1>9. ASSUME NEW r \in ExReader, Export!AnswerFirst(r) \/ Export!AnswerNext(r) PROVE ExInv'
  BY <1>9, ExAnswer
<1>10. CASE UNCHANGED Export!vars
  <2>1. UNCHANGED <<now, Export!dbVars, Export!txVars, Export!clientVars>>
    BY <1>10 DEF Export!vars
  <2>2. QED
    BY <2>1 DEF Export!dbVars, Export!txVars, Export!clientVars, ExInv, ExTypes, ExContents,
       Committed, Frozen, ExPass, ExLife, Following, Export!NoCursor
<1>11. QED
  BY <1>1, <1>2, <1>3, <1>4, <1>5, <1>6, <1>7, <1>8, <1>9 , <1>10 DEF Export!Next, Export!Request

\* A client that pages to the end has received, in order, one content that was committed at some
\* moment, however often the set was promoted or edited meanwhile.
THEOREM ExportOneSet ==
  ASSUME ExportBounds PROVE Export!Spec => [][Export!PassIsOneSet]_(Export!vars)
<1>1. ExInv /\ [Export!Next]_(Export!vars) => [Export!PassIsOneSet]_(Export!vars)
  <2> SUFFICES ASSUME ExInv, Export!Next, NEW r \in ExReader, result[r] # "done", result'[r] = "done"
               PROVE  Export!Received(r) \in published
    BY DEF Export!PassIsOneSet
  <2>1. PICK q \in ExReader : Export!Request(q)
    BY DEF Export!Next, Export!Tick, Export!Promote, Export!ManualEdit, Export!clientVars
  <2>2. \A outcomeOf : Export!Abandon(q, outcomeOf) => result' = [result EXCEPT ![q] = outcomeOf]
    BY DEF Export!Abandon
  <2>3. Export!AnswerFirst(q) \/ Export!AnswerNext(q)
    BY <2>1, <2>2 DEF Export!Request, Export!FirstPage, Export!NextPage, Export!Reuse,
       Export!Freeze, Export!Race, Export!LockTimeout, Export!FreezeFails, Export!Gone,
       Export!clientVars, ExInv, ExTypes
  <2>4. result' = [result EXCEPT ![q] =
                    IF cursor[q].after + ExLimit >= Len(cursor[q].snapshot.items) THEN "done" ELSE "page"]
    BY <2>3 DEF Export!AnswerFirst, Export!AnswerNext, Export!Answer
  <2>5. q = r /\ cursor[q].after + ExLimit >= Len(cursor[q].snapshot.items)
    BY <2>4 DEF ExInv, ExTypes
  <2>6. QED
    BY <2>3, <2>5, ExAnswer
<1>2. QED
  BY <1>1, ExInit, ExStep, PTL DEF Export!Spec

\* A client is not told that its snapshot is gone before TTL has passed since its first page.
THEOREM SnapshotsLive ==
  ASSUME ExportBounds PROVE Export!Spec => [][Export!NotGoneEarly]_(Export!vars)
<1>1. ExInv /\ [Export!Next]_(Export!vars) => [Export!NotGoneEarly]_(Export!vars)
  <2> SUFFICES ASSUME ExInv, Export!Next, NEW r \in ExReader, result[r] # "gone", result'[r] = "gone"
               PROVE  now >= started[r] + ExTtl
    BY DEF Export!NotGoneEarly
  <2>1. PICK q \in ExReader : Export!Request(q)
    BY DEF Export!Next, Export!Tick, Export!Promote, Export!ManualEdit, Export!clientVars
  <2>2. \A outcomeOf : Export!Abandon(q, outcomeOf) => result' = [result EXCEPT ![q] = outcomeOf]
    BY DEF Export!Abandon
  <2>3. q = r /\ Export!Gone(r)
    BY <2>1, <2>2 DEF Export!Request, Export!FirstPage, Export!NextPage, Export!Reuse,
       Export!Freeze, Export!Race, Export!LockTimeout, Export!FreezeFails, Export!Gone,
       Export!AnswerFirst, Export!AnswerNext, Export!Answer, Export!clientVars, ExInv, ExTypes
  <2>4. /\ pc[r] = "open" /\ cursor[r] # Export!NoCursor
        /\ ~ (cursor[r].snapshot \in view[r].snapshots /\ cursor[r].snapshot.expires > now)
    BY <2>3 DEF Export!Gone, Export!Usable
  <2>5. Frozen(cursor[r].snapshot) /\ started[r] + ExTtl <= cursor[r].snapshot.expires
    BY <2>4 DEF ExInv, ExPass, Following
  <2>6. cursor[r].snapshot.expires \in Nat /\ now \in Nat /\ started[r] + ExTtl \in Nat
    BY <2>5, FrozenTime DEF ExInv, ExTypes, ExportBounds
  <2>7. cursor[r].snapshot.expires <= now
    BY <2>4, <2>6 DEF ExInv, ExLife, Following
  <2>8. QED
    BY <2>5, <2>6, <2>7
<1>2. QED
  BY <1>1, ExInit, ExStep, PTL DEF Export!Spec

\* A request that is not under way holds no view, no row and no lock.
ExShape ==
    /\ now <= ExTime
    /\ \A s \in Export!Scope : heads[s].members \subseteq Export!InScope(s)
    /\ heads = [s \in Export!Scope |-> heads[s]]
    /\ attempt \in [ExReader -> {0, 1}]
    /\ result \in [ExReader -> {"none", "page", "done", "gone", "busy", "failed"}]
    /\ \A r \in ExReader :
          pc[r] = "idle" => pending[r] = {} /\ victims[r] = {} /\ view[r] = Export!NoView

\* A request that ends, with any outcome, lets everything go.
LEMMA ExClosed ==
  ASSUME ExTypes, ExShape, NEW r \in ExReader, Export!Close(r), UNCHANGED <<now, heads>>,
         NEW outcomeOf \in {"none", "page", "done", "gone", "busy", "failed"},
         result' = [result EXCEPT ![r] = outcomeOf]
  PROVE  ExShape'
<1>1. /\ pc' = [pc EXCEPT ![r] = "idle"] /\ view' = [view EXCEPT ![r] = Export!NoView]
      /\ pending' = [pending EXCEPT ![r] = {}] /\ victims' = [victims EXCEPT ![r] = {}]
      /\ attempt' = [attempt EXCEPT ![r] = 0]
  BY DEF Export!Close, Export!Nothing
<1>2. ASSUME NEW q \in ExReader, pc'[q] = "idle"
      PROVE  pending'[q] = {} /\ victims'[q] = {} /\ view'[q] = Export!NoView
  BY <1>1, <1>2 DEF ExTypes, ExShape
<1>3. attempt' \in [ExReader -> {0, 1}]
  BY <1>1 DEF ExShape
<1>4. result' \in [ExReader -> {"none", "page", "done", "gone", "busy", "failed"}]
  BY DEF ExShape
<1>5. QED
  BY <1>2, <1>3, <1>4 DEF ExShape

\* A request that goes on is not idle.
LEMMA ExGoesOn ==
  ASSUME ExTypes, ExShape, NEW r \in ExReader, UNCHANGED <<now, heads>>,
         pc'[r] # "idle", \A q \in ExReader \ {r} : pc'[q] = pc[q],
         \A q \in ExReader \ {r} : /\ pending'[q] = pending[q] /\ victims'[q] = victims[q]
                                   /\ view'[q] = view[q],
         attempt' \in [ExReader -> {0, 1}],
         result' = result \/ result' = [result EXCEPT ![r] = "none"]
  PROVE  ExShape'
<1>1. result' \in [ExReader -> {"none", "page", "done", "gone", "busy", "failed"}]
  BY DEF ExShape
<1>2. QED
  BY <1>1 DEF ExShape

\* The heads, the requests and their outcomes keep their types; a client outside a request holds
\* no view, no row and no lock.
THEOREM ExportTypes == ASSUME ExportBounds PROVE Export!Spec => []Export!TypeOK
<1>1. Export!Init => ExShape
  BY DEF Export!Init, ExShape, Export!NoHead, Export!Nothing, ExportBounds
<1>2. ExInv /\ ExShape /\ [Export!Next]_(Export!vars) => ExShape'
  <2> SUFFICES ASSUME ExTypes, ExShape, [Export!Next]_(Export!vars) PROVE ExShape'
    BY DEF ExInv
  <2>1. CASE Export!Tick
    <3>1. /\ now' \in Nat /\ now' <= ExTime
          /\ UNCHANGED <<heads, pc, view, pending, victims, attempt, result>>
      BY <2>1 DEF Export!Tick, Export!dbVars, Export!txVars, Export!clientVars, ExTypes, ExportBounds
    <3>2. QED
      BY <3>1 DEF ExShape
  <2>2. CASE Export!Promote
    <3>1. PICK s \in Export!Scope : \E m \in SUBSET Export!InScope(s) :
            heads' = [heads EXCEPT ![s] = [generation |-> promotions', members |-> m]]
      <4>1. \A r \in ExReader : kind[r] \in ExKind
        BY DEF ExTypes
      <4>2. UNION {Export!ScopesOf(kind[r]) : r \in ExReader} \subseteq Export!Scope
        BY <4>1 DEF Export!Scope
      <4>3. QED
        BY <2>2, <4>2 DEF Export!Promote
    <3>2. /\ heads' = [t \in Export!Scope |-> heads'[t]]
          /\ \A t \in Export!Scope : heads'[t].members \subseteq Export!InScope(t)
      BY <3>1 DEF ExShape
    <3>3. UNCHANGED <<now, pc, view, pending, victims, attempt, result>>
      BY <2>2 DEF Export!Promote, Export!txVars, Export!clientVars
    <3>4. QED
      BY <3>2, <3>3 DEF ExShape
  <2>3. CASE Export!ManualEdit \/ UNCHANGED Export!vars
    <3>1. UNCHANGED <<now, heads, pc, view, pending, victims, attempt, result>>
      BY <2>3 DEF Export!ManualEdit, Export!vars, Export!dbVars, Export!txVars, Export!clientVars
    <3>2. QED
      BY <3>1 DEF ExShape
  <2>4. ASSUME NEW r \in ExReader, NEW outcomeOf \in {"gone", "busy", "failed"},
               Export!Abandon(r, outcomeOf)
        PROVE  ExShape'
    <3>1. /\ Export!Close(r) /\ UNCHANGED <<now, heads>>
          /\ result' = [result EXCEPT ![r] = outcomeOf]
      BY <2>4 DEF Export!Abandon, Export!dbVars
    <3>2. QED
      BY <3>1, ExClosed
  <2>5. ASSUME NEW r \in ExReader, Export!Answer(r) PROVE ExShape'
    <3>1. PICK ended \in BOOLEAN :
            /\ Export!Close(r) /\ UNCHANGED <<now, heads>>
            /\ result' = [result EXCEPT ![r] = IF ended THEN "done" ELSE "page"]
      BY <2>5 DEF Export!Answer
    <3>2. QED
      BY <3>1, ExClosed
  <2>6. ASSUME NEW r \in ExReader, Export!FirstPage(r) \/ Export!NextPage(r) PROVE ExShape'
    <3>1. /\ UNCHANGED <<now, heads, pending, victims, attempt>>
          /\ pc' = [pc EXCEPT ![r] = "open"]
          /\ result' = result \/ result' = [result EXCEPT ![r] = "none"]
      BY <2>6 DEF Export!FirstPage, Export!NextPage, Export!dbVars, Export!clientVars
    <3>2. pc'[r] = "open" /\ \A q \in ExReader \ {r} : pc'[q] = pc[q] /\ view'[q] = view[q]
      BY <2>6, <3>1 DEF Export!FirstPage, Export!NextPage, Export!Snapshot, ExTypes
    <3>3. QED
      BY <3>1, <3>2, ExGoesOn DEF ExShape
  <2>7. ASSUME NEW r \in ExReader, Export!Reuse(r) \/ Export!Freeze(r) PROVE ExShape'
    <3>1. /\ UNCHANGED <<now, heads, view, attempt, result>>
          /\ pc' = [pc EXCEPT ![r] = "frozen"]
          /\ \A q \in ExReader \ {r} : pending'[q] = pending[q] /\ victims'[q] = victims[q]
      BY <2>7 DEF Export!Reuse, Export!Freeze, Export!dbVars, ExTypes
    <3>2. pc'[r] = "frozen" /\ \A q \in ExReader \ {r} : pc'[q] = pc[q]
      BY <3>1 DEF ExTypes
    <3>3. QED
      BY <3>1, <3>2, ExGoesOn DEF ExShape
  <2>8. ASSUME NEW r \in ExReader, Export!Race(r) PROVE ExShape'
    <3>1. CASE attempt[r] = 1 /\ Export!Abandon(r, "busy")
      BY <2>4, <3>1
    <3>2. CASE /\ attempt' = [attempt EXCEPT ![r] = 1] /\ Export!Snapshot(r)
               /\ UNCHANGED <<now, heads, pc, pending, victims, result>>
      <4>1. \A q \in ExReader \ {r} : view'[q] = view[q]
        BY <3>2 DEF Export!Snapshot, ExTypes
      <4>2. attempt' \in [ExReader -> {0, 1}] /\ pc'[r] = "open"
        BY <2>8, <3>2 DEF Export!Race, ExShape
      <4>3. QED
        BY <3>2, <4>1, <4>2, ExGoesOn
    <3>3. QED
      BY <2>8, <3>1, <3>2 DEF Export!Race, Export!dbVars, Export!clientVars
  <2>9. ASSUME NEW r \in ExReader, Export!Request(r) PROVE ExShape'
    <3>1. \/ \E outcomeOf \in {"gone", "busy", "failed"} : Export!Abandon(r, outcomeOf)
          \/ Export!Answer(r) \/ Export!FirstPage(r) \/ Export!NextPage(r)
          \/ Export!Reuse(r) \/ Export!Freeze(r) \/ Export!Race(r)
      BY <2>9 DEF Export!Request, Export!LockTimeout, Export!FreezeFails, Export!AnswerFirst,
         Export!AnswerNext, Export!Gone
    <3>2. QED
      BY <2>4, <2>5, <2>6, <2>7, <2>8, <3>1
  <2>10. QED
    BY <2>1, <2>2, <2>3, <2>9 DEF Export!Next
<1>3. ExInv /\ ExShape => Export!TypeOK
  <2> SUFFICES ASSUME ExTypes, ExShape PROVE Export!TypeOK
    BY DEF ExInv
  <2>1. now \in 0..ExTime
    BY DEF ExTypes, ExShape, ExportBounds
  <2>2. QED
    BY <2>1 DEF ExTypes, ExShape, Export!TypeOK, Export!Nothing
<1>4. QED
  BY <1>1, <1>2, <1>3, ExInit, ExStep, PTL DEF Export!Spec

--------------------------------------------------------------------------------
(* The paged price history.                                                *)

Prices == INSTANCE PriceHistory WITH
    Ttl <- PrTtl, Window <- PrWindow, StaleAfter <- PrStale, Limit <- PrLimit,
    MaxRows <- PrRows, MaxUpdates <- PrUpdates, MaxTime <- PrTime

PriceBounds ==
    /\ PrTtl \in Nat \ {0} /\ PrLimit \in Nat \ {0}
    /\ PrWindow \in Nat /\ PrStale \in Nat /\ PrRows \in Nat /\ PrUpdates \in Nat /\ PrTime \in Nat

\* The module's number of rows is the number the library's facts are about.
LEMMA PriceCardinality == \A set : Prices!Cardinality(set) = Cardinality(set)
BY DEF Prices!Cardinality, Cardinality, Prices!IsFiniteSet, IsFiniteSet

\* Observations of a station.
Observed(set) == IsFiniteSet(set) /\ set \subseteq [id : Nat, at : Nat]

\* Of two rows one is the newer, and its place is before the other's.
LEMMA PlacesApart ==
  ASSUME NEW set, Observed(set), NEW r \in set, NEW q \in set
  PROVE  /\ r = q \/ Prices!Newer(q, r) \/ Prices!Newer(r, q)
         /\ Prices!PlaceIn(r, set) \in 1..Cardinality(set)
         /\ Prices!Newer(q, r) => Prices!PlaceIn(q, set) < Prices!PlaceIn(r, set)
<1> DEFINE before(x) == {y \in set : Prices!Newer(y, x)}
<1> USE DEF Observed
<1>1. r = q \/ Prices!Newer(q, r) \/ Prices!Newer(r, q)
  <2>1. r = [id |-> r.id, at |-> r.at] /\ q = [id |-> q.id, at |-> q.at]
    OBVIOUS
  <2>2. r.id \in Nat /\ r.at \in Nat /\ q.id \in Nat /\ q.at \in Nat
    OBVIOUS
  <2>3. QED
    BY <2>1, <2>2 DEF Prices!Newer
<1>2. \A x \in set : x \notin before(x)
  BY DEF Prices!Newer
<1>3. \A x \in set : /\ Prices!PlaceIn(x, set) = Cardinality(before(x)) + 1
                     /\ IsFiniteSet(before(x)) /\ Cardinality(before(x)) \in Nat
  BY PriceCardinality, FS_Subset, FS_CardinalityType DEF Prices!PlaceIn
<1>4. Cardinality(set) \in Nat
  BY FS_CardinalityType
<1>5. Cardinality(before(r)) < Cardinality(set)
  <2>1. before(r) \in SUBSET set /\ before(r) # set
    BY <1>2
  <2>2. Cardinality(before(r)) <= Cardinality(set) /\ Cardinality(before(r)) # Cardinality(set)
    BY <2>1, FS_Subset
  <2>3. QED
    BY <1>3, <1>4, <2>2
<1>6. Prices!Newer(q, r) => Cardinality(before(q)) < Cardinality(before(r))
  <2> SUFFICES ASSUME Prices!Newer(q, r) PROVE Cardinality(before(q)) < Cardinality(before(r))
    OBVIOUS
  <2>1. before(q) \in SUBSET before(r)
    BY DEF Prices!Newer
  <2>2. q \in before(r) /\ q \notin before(q)
    BY <1>2
  <2>3. /\ Cardinality(before(q)) <= Cardinality(before(r))
        /\ Cardinality(before(q)) # Cardinality(before(r))
    BY <1>3, <2>1, <2>2, FS_Subset
  <2>4. QED
    BY <1>3, <2>3
<1>7. QED
  BY <1>1, <1>3, <1>4, <1>5, <1>6

\* The list of a set has every row at its place.
LEMMA ListedRows ==
  ASSUME NEW set, Observed(set)
  PROVE  LET l == Prices!Listed(set)
         IN  /\ l \in Seq(set) /\ Len(l) = Cardinality(set) /\ Cardinality(set) \in Nat
             /\ \A n \in 1..Cardinality(set) : l[n] \in set /\ Prices!PlaceIn(l[n], set) = n
             /\ \A r \in set : l[Prices!PlaceIn(r, set)] = r
<1> DEFINE l == Prices!Listed(set)
           f == [r \in set |-> Prices!PlaceIn(r, set)]
<1>1. IsFiniteSet(set) /\ Cardinality(set) \in Nat
  BY FS_CardinalityType DEF Observed
<1>2. IsFiniteSet(1..Cardinality(set)) /\ Cardinality(1..Cardinality(set)) = Cardinality(set)
  BY <1>1, FS_Interval
<1>3. \A r, q \in set : Prices!PlaceIn(r, set) = Prices!PlaceIn(q, set) => r = q
  <2> TAKE r, q \in set
  <2>1. Prices!PlaceIn(r, set) \in 1..Cardinality(set) /\ Prices!PlaceIn(q, set) \in 1..Cardinality(set)
    BY PlacesApart
  <2>2. r = q \/ Prices!PlaceIn(q, set) < Prices!PlaceIn(r, set)
              \/ Prices!PlaceIn(r, set) < Prices!PlaceIn(q, set)
    BY PlacesApart
  <2>3. QED
    BY <1>1, <2>1, <2>2
<1>4. f \in Injection(set, 1..Cardinality(set))
  BY <1>3, PlacesApart DEF Injection, IsInjective
<1>5. f \in Surjection(set, 1..Cardinality(set))
  BY <1>1, <1>2, <1>4, FS_Injection
<1>6. \A n \in 1..Cardinality(set) : \E r \in set : Prices!PlaceIn(r, set) = n
  BY <1>5 DEF Surjection
<1>7. l = [n \in 1..Cardinality(set) |-> CHOOSE r \in set : Prices!PlaceIn(r, set) = n]
  BY PriceCardinality DEF Prices!Listed
<1>8. \A n \in 1..Cardinality(set) : l[n] \in set /\ Prices!PlaceIn(l[n], set) = n
  BY <1>6, <1>7
<1>9. l \in Seq(set) /\ Len(l) = Cardinality(set)
  BY <1>1, <1>7, <1>8
<1>10. \A r \in set : l[Prices!PlaceIn(r, set)] = r
  BY <1>3, <1>8, PlacesApart
<1>11. QED
  BY <1>1, <1>8, <1>9, <1>10

\* The rows after the row at place k are listed as the rest of the list.
LEMMA ListedAfter ==
  ASSUME NEW set, Observed(set), NEW c \in set
  PROVE  LET rest == {r \in set : Prices!Newer(c, r)}
             k == Prices!PlaceIn(c, set)
         IN  /\ Observed(rest) /\ Cardinality(rest) = Cardinality(set) - k
             /\ \A n \in 1..(Cardinality(set) - k) :
                    Prices!Listed(rest)[n] = Prices!Listed(set)[k + n]
<1> DEFINE rest == {r \in set : Prices!Newer(c, r)}
           k == Prices!PlaceIn(c, set)
           before == {q \in set : Prices!Newer(q, c)}
           first == before \cup {c}
<1>1. /\ IsFiniteSet(set) /\ Cardinality(set) \in Nat /\ k \in 1..Cardinality(set)
      /\ \A r \in set : Prices!PlaceIn(r, set) \in 1..Cardinality(set)
  BY FS_CardinalityType, PlacesApart DEF Observed
<1>2. IsFiniteSet(first) /\ Cardinality(first) = k
  <2>1. IsFiniteSet(before) /\ Cardinality(before) \in Nat /\ k = Cardinality(before) + 1
    BY <1>1, PriceCardinality, FS_Subset, FS_CardinalityType DEF Prices!PlaceIn
  <2>2. c \notin before
    BY DEF Prices!Newer, Observed
  <2> HIDE DEF before, k
  <2>3. QED
    BY <2>1, <2>2, FS_AddElement
<1>3. first \cap rest = {} /\ set = first \cup rest
  BY PlacesApart DEF Prices!Newer, Observed
<1>4. IsFiniteSet(rest) /\ Cardinality(rest) \in Nat /\ Cardinality(rest) = Cardinality(set) - k
  <2> HIDE DEF first, rest, k
  <2>1. IsFiniteSet(rest)
    BY <1>1, <1>3, FS_Subset
  <2>2. Cardinality(rest) \in Nat /\ Cardinality(set) = k + Cardinality(rest) - Cardinality({})
    BY <1>2, <1>3, <2>1, FS_Union, FS_CardinalityType
  <2>3. QED
    BY <1>1, <2>1, <2>2, FS_EmptySet
<1>5. Observed(rest)
  BY <1>4 DEF Observed
<1>6. ASSUME NEW r \in rest PROVE Prices!PlaceIn(r, set) = k + Prices!PlaceIn(r, rest)
  <2> DEFINE own == {q \in rest : Prices!Newer(q, r)}
  <2>1. {q \in set : Prices!Newer(q, r)} = first \cup own
    <3>1. \A q \in first : Prices!Newer(q, r)
      BY DEF Prices!Newer, Observed
    <3>2. QED
      BY <1>3, <3>1
  <2>2. IsFiniteSet(own) /\ Cardinality(own) \in Nat
    BY <1>4, FS_Subset, FS_CardinalityType
  <2>3. first \cap own = {}
    BY <1>3
  <2> HIDE DEF own, first
  <2>4. Cardinality(first \cup own) = k + Cardinality(own)
    BY <1>1, <1>2, <2>2, <2>3, FS_Union, FS_EmptySet
  <2>5. Prices!PlaceIn(r, rest) = Cardinality(own) + 1
    BY PriceCardinality DEF Prices!PlaceIn, own
  <2>6. Prices!PlaceIn(r, set) = Cardinality(first \cup own) + 1
    BY <2>1, PriceCardinality DEF Prices!PlaceIn
  <2>7. QED
    BY <1>1, <2>2, <2>4, <2>5, <2>6
<1>7. ASSUME NEW n \in 1..(Cardinality(set) - k)
      PROVE  Prices!Listed(rest)[n] = Prices!Listed(set)[k + n]
  <2> DEFINE r == Prices!Listed(rest)[n]
  <2>1. r \in rest /\ Prices!PlaceIn(r, rest) = n
    BY <1>4, <1>5, ListedRows
  <2> HIDE DEF r, k
  <2>2. Prices!PlaceIn(r, set) = k + n /\ r \in set
    BY <1>6, <2>1
  <2>3. Prices!Listed(set)[k + n] = r
    BY <2>2, ListedRows
  <2>4. QED
    BY <2>3 DEF r
<1>8. QED
  BY <1>4, <1>5, <1>7

\* The rows of a set are those of another after its first k.
Continues(set, all, k) ==
    /\ Observed(all) /\ Observed(set) /\ k \in 0..Cardinality(all)
    /\ Cardinality(set) = Cardinality(all) - k
    /\ \A n \in 1..(Cardinality(all) - k) : Prices!Listed(set)[n] = Prices!Listed(all)[k + n]

\* What was read is all of the list, or its beginning with a cursor at the last row read.
ReadUpTo(part, all, more, from, to, issued) ==
    \/ more = {} /\ part = Prices!Listed(all)
    \/ \E m \in 1..Cardinality(all) :
           /\ part = SubSeq(Prices!Listed(all), 1, m)
           /\ more = {[from |-> from, to |-> to, rev |-> state, issued |-> issued,
                       at |-> Prices!Listed(all)[m].at, id |-> Prices!Listed(all)[m].id]}

\* A page continues the first k rows.
LEMMA NextRows ==
  ASSUME PriceBounds, NEW all, NEW set, NEW k, Continues(set, all, k),
         NEW from, NEW to, NEW issued, NEW p, p = Prices!Paged(set, from, to, issued)
  PROVE  ReadUpTo(SubSeq(Prices!Listed(all), 1, k) \o p.items, all, p.next, from, to, issued)
<1> DEFINE l == Prices!Listed(all)
           s == Prices!Listed(set)
           size == IF Len(s) < PrLimit THEN Len(s) ELSE PrLimit
           page == SubSeq(s, 1, size)
<1>1. l \in Seq(all) /\ Len(l) = Cardinality(all) /\ Len(l) \in Nat
  BY ListedRows DEF Continues
<1>2. s \in Seq(set) /\ Len(s) = Len(l) - k /\ Len(s) \in Nat /\ k \in 0..Len(l)
  BY <1>1, ListedRows DEF Continues
<1>3. PrLimit \in Nat \ {0} /\ size \in 0..Len(s)
  BY <1>2 DEF PriceBounds
<1>4. \A n \in 1..Len(s) : s[n] = l[k + n]
  BY <1>1, <1>2 DEF Continues
<1>5. p.items = page /\ p.next = IF Len(s) > PrLimit THEN {Prices!Cursor(page, from, to, issued)} ELSE {}
  BY DEF Prices!Paged
<1> HIDE DEF l, s
<1>6. page = SubSeq(l, k + 1, k + size)
  <2> HIDE DEF size
  <2>1. page \in Seq(set) /\ Len(page) = size /\ \A n \in 1..size : page[n] = s[n]
    BY <1>2, <1>3
  <2> DEFINE q == SubSeq(l, k + 1, k + size)
  <2>2. k \in Nat /\ size \in Nat /\ k + size <= Len(l)
    BY <1>1, <1>2, <1>3
  <2>3. q \in Seq(all) /\ Len(q) = size
    BY <1>1, <2>2
  <2>4. \A n \in 1..size : q[n] = l[k + n]
    BY <1>1, <2>2
  <2>5. \A n \in 1..size : page[n] = q[n]
    BY <1>2, <1>3, <1>4, <2>1, <2>4
  <2> HIDE DEF q
  <2>6. page = q
    BY <2>1, <2>3, <2>5
  <2>7. QED
    BY <2>6 DEF q
<1>7. SubSeq(l, 1, k) \o page = SubSeq(l, 1, k + size)
  <2> HIDE DEF size, page
  <2>1. k + size \in k..Len(l)
    BY <1>1, <1>2, <1>3
  <2>2. QED
    BY <1>1, <1>2, <1>6, <2>1, PiecesJoin
<1>8. CASE Len(s) > PrLimit
  <2>1. size = PrLimit /\ k + size \in 1..Len(l)
    BY <1>1, <1>2, <1>3, <1>8
  <2>2. Len(page) = size /\ page[size] = l[k + size]
    <3>1. size \in 1..Len(s)
      BY <1>2, <1>3, <1>8
    <3> HIDE DEF size
    <3>2. Len(page) = size /\ page[size] = s[size]
      BY <1>2, <3>1
    <3>3. QED
      BY <1>4, <3>1, <3>2
  <2> HIDE DEF size, page
  <2>3. Prices!Cursor(page, from, to, issued) =
          [from |-> from, to |-> to, rev |-> state, issued |-> issued,
           at |-> l[k + size].at, id |-> l[k + size].id]
    BY <2>2 DEF Prices!Cursor
  <2>4. QED
    BY <1>1, <1>5, <1>7, <1>8, <2>1, <2>3 DEF l, ReadUpTo
<1>9. CASE ~ Len(s) > PrLimit
  <2>1. size = Len(s)
    BY <1>2, <1>3, <1>9
  <2>2. SubSeq(l, 1, Len(l)) = l
    BY <1>1
  <2> HIDE DEF size, page
  <2>3. k + size = Len(l)
    BY <1>1, <1>2, <2>1
  <2>4. QED
    BY <1>5, <1>7, <1>9, <2>2, <2>3 DEF l, ReadUpTo
<1>10. QED
  BY <1>8, <1>9

\* A pass has the list of its window up to its cursor; a cursor of the current revision is of the
\* rows stored now.
PassPart(part, all, more) ==
    /\ Observed(all)
    /\ more = {} \/ \E c : more = {c}
    /\ more = {} => part = Prices!Listed(all)
    /\ \A c \in more :
           /\ c.rev.upd \in Nat /\ c.rev.upd <= state.upd /\ c.issued \in Nat /\ c.issued <= now
           /\ c.rev = state => all = Prices!InWindow(c.from, c.to)
           /\ \E k \in 1..Cardinality(all) :
                  /\ part = SubSeq(Prices!Listed(all), 1, k)
                  /\ c.at = Prices!Listed(all)[k].at /\ c.id = Prices!Listed(all)[k].id

\* The kept page is the beginning of a pass, under the tag that names its revision and its issue.
KeptPage(h) ==
    /\ PassPart(h.page.items, h.all, h.page.next)
    /\ \A c \in h.page.next :
           \E s0 : h.tag = <<h.page.items, s0, {<<c.issued \div PrTtl, c.rev>>}>>
    /\ h.page.next = {} => \E s0 : h.tag = <<h.page.items, s0, {}>>

PriceInv ==
    /\ now \in Nat /\ Observed(rows) /\ state.upd \in Nat
    /\ held = {} \/ \E h : held = {h}
    /\ PassPart(got, want, cursor)
    /\ \A h \in held : KeptPage(h)

\* A list of no rows is empty.
LEMMA NothingRead == Observed({}) /\ Prices!Listed({}) = <<>>
<1>1. Observed({})
  BY FS_EmptySet DEF Observed
<1>2. Prices!Listed({}) \in Seq({}) /\ Len(Prices!Listed({})) = 0
  BY <1>1, ListedRows, FS_EmptySet
<1>3. QED
  BY <1>1, <1>2

\* Nothing is stored or read initially.
LEMMA PriceInit == ASSUME PriceBounds PROVE Prices!Init => PriceInv
BY NothingRead DEF Prices!Init, PriceInv, PassPart

\* A pass goes on being one while time passes and collections store rows.
LEMMA PassKept ==
  ASSUME PriceInv, state'.upd \in Nat, state'.upd >= state.upd, now' \in Nat, now' >= now,
         state' = state => rows' = rows, state' # state => state'.upd > state.upd,
         NEW part, NEW all, NEW more, PassPart(part, all, more)
  PROVE  PassPart(part, all, more)'
<1>1. ASSUME NEW c \in more
      PROVE  /\ c.rev.upd \in Nat /\ c.rev.upd <= state'.upd /\ c.issued \in Nat /\ c.issued <= now'
             /\ c.rev = state' => all = Prices!InWindow(c.from, c.to)'
  <2>1. /\ c.rev.upd \in Nat /\ c.rev.upd <= state.upd /\ c.issued \in Nat /\ c.issued <= now
        /\ c.rev = state => all = Prices!InWindow(c.from, c.to)
    BY <1>1 DEF PassPart
  <2>2. c.rev = state' => state' = state
    BY <2>1 DEF PriceInv
  <2>3. QED
    BY <2>1, <2>2 DEF PriceInv, Prices!InWindow
<1>2. QED
  BY <1>1 DEF PassPart

\* What was read up to a row of the rows stored now is a part of a pass.
LEMMA ReadIsPart ==
  ASSUME NEW part, NEW all, NEW more, NEW from, NEW to, NEW issued, Observed(all),
         ReadUpTo(part, all, more, from, to, issued), state.upd \in Nat, issued \in Nat,
         issued <= now, all = Prices!InWindow(from, to)
  PROVE  PassPart(part, all, more)
<1>1. CASE more = {}
  BY <1>1 DEF ReadUpTo, PassPart
<1>2. CASE more # {}
  <2>1. PICK m \in 1..Cardinality(all) :
           /\ part = SubSeq(Prices!Listed(all), 1, m)
           /\ more = {[from |-> from, to |-> to, rev |-> state, issued |-> issued,
                       at |-> Prices!Listed(all)[m].at, id |-> Prices!Listed(all)[m].id]}
    BY <1>2 DEF ReadUpTo
  <2>2. PICK c : c = [from |-> from, to |-> to, rev |-> state, issued |-> issued,
                      at |-> Prices!Listed(all)[m].at, id |-> Prices!Listed(all)[m].id]
    OBVIOUS
  <2>3. /\ more = {c} /\ c.rev = state /\ c.issued = issued /\ c.from = from /\ c.to = to
        /\ c.at = Prices!Listed(all)[m].at /\ c.id = Prices!Listed(all)[m].id
    BY <2>1, <2>2
  <2>4. state.upd <= state.upd
    OBVIOUS
  <2>5. QED
    BY <2>1, <2>3, <2>4 DEF PassPart
<1>3. QED
  BY <1>1, <1>2

\* The page a client follows its cursor to.
LEMMA PriceNext ==
  ASSUME PriceBounds, PriceInv, NEW c \in cursor, Prices!Accepted(c), NEW p,
         p = Prices!Paged({r \in Prices!InWindow(c.from, c.to) : Prices!After(r, c)},
                          c.from, c.to, c.issued)
  PROVE  PassPart(got \o p.items, want, p.next)
<1> DEFINE l == Prices!Listed(want)
           rest == {r \in Prices!InWindow(c.from, c.to) : Prices!After(r, c)}
<1>1. /\ Observed(want) /\ c.rev = state /\ want = Prices!InWindow(c.from, c.to)
      /\ c.issued \in Nat /\ c.issued <= now /\ state.upd \in Nat
  BY DEF PriceInv, PassPart, Prices!Accepted
<1>2. PICK k \in 1..Cardinality(want) : got = SubSeq(l, 1, k) /\ c.at = l[k].at /\ c.id = l[k].id
  BY DEF PriceInv, PassPart
<1>3. /\ l[k] \in want /\ Prices!PlaceIn(l[k], want) = k /\ Cardinality(want) \in Nat
      /\ k \in 0..Cardinality(want)
  BY <1>1, ListedRows
<1>4. rest = {r \in want : Prices!Newer(l[k], r)}
  BY <1>1, <1>2, <1>3 DEF Prices!After, Prices!Newer, Observed
<1>5. Continues(rest, want, k)
  <2>1. PICK x : x = l[k]
    OBVIOUS
  <2>2. /\ Observed(rest) /\ Cardinality(rest) = Cardinality(want) - k
        /\ \A n \in 1..(Cardinality(want) - k) : Prices!Listed(rest)[n] = l[k + n]
    <3>1. x \in want /\ Prices!PlaceIn(x, want) = k /\ rest = {r \in want : Prices!Newer(x, r)}
      BY <1>3, <1>4, <2>1
    <3> HIDE DEF rest, l
    <3>2. QED
      BY <1>1, <3>1, ListedAfter DEF l
  <2>3. QED
    BY <1>1, <1>3, <2>2 DEF Continues
<1>6. ReadUpTo(got \o p.items, want, p.next, c.from, c.to, c.issued)
  <2>1. p = Prices!Paged(rest, c.from, c.to, c.issued)
    OBVIOUS
  <2>2. ReadUpTo(SubSeq(l, 1, k) \o p.items, want, p.next, c.from, c.to, c.issued)
    BY <1>5, <2>1, NextRows
  <2>3. QED
    BY <1>2, <2>2
<1>7. QED
  BY <1>1, <1>6, ReadIsPart

\* The first page of a window.
LEMMA PriceFirst ==
  ASSUME PriceBounds, PriceInv, NEW p,
         p = Prices!Paged(Prices!InWindow(now - PrWindow, now), now - PrWindow, now, now)
  PROVE  /\ PassPart(p.items, Prices!InWindow(now - PrWindow, now), p.next)
         /\ p.next = {} \/ \E c : p.next = {c} /\ c.issued = now /\ c.rev = state
<1> DEFINE set == Prices!InWindow(now - PrWindow, now)
           l == Prices!Listed(set)
<1>1. Observed(set)
  BY FS_Subset DEF PriceInv, Observed, Prices!InWindow
<1>2. l \in Seq(set) /\ Len(l) = Cardinality(set) /\ Cardinality(set) \in Nat
  BY <1>1, ListedRows
<1>3. now \in Nat /\ state.upd \in Nat
  BY DEF PriceInv
<1>4. set = Prices!InWindow(now - PrWindow, now)
  OBVIOUS
<1> HIDE DEF set
<1>5. Continues(set, set, 0)
  <2>1. 0 \in 0..Cardinality(set) /\ Cardinality(set) = Cardinality(set) - 0
    BY <1>2
  <2>2. \A n \in 1..(Cardinality(set) - 0) : l[n] = l[0 + n]
    BY <1>2
  <2>3. QED
    BY <1>1, <2>1, <2>2 DEF Continues
<1>6. SubSeq(l, 1, 0) = <<>>
  BY <1>2
<1>7. ReadUpTo(<<>> \o p.items, set, p.next, now - PrWindow, now, now)
  BY <1>4, <1>5, <1>6, NextRows
<1>8. <<>> \o p.items = p.items
  <2> DEFINE s == Prices!Listed(set)
             size == IF Len(s) < PrLimit THEN Len(s) ELSE PrLimit
  <2>1. p.items = SubSeq(s, 1, size) /\ size \in 0..Len(s)
    BY <1>2, <1>4 DEF Prices!Paged, PriceBounds
  <2> HIDE DEF s, size
  <2>2. p.items \in Seq(set)
    BY <1>2, <2>1 DEF s
  <2>3. QED
    BY <2>2
<1>9. PassPart(p.items, set, p.next)
  BY <1>1, <1>3, <1>4, <1>7, <1>8, ReadIsPart
<1>10. p.next = {} \/ \E c : p.next = {c} /\ c.issued = now /\ c.rev = state
  BY <1>7 DEF ReadUpTo
<1>11. QED
  BY <1>4, <1>9, <1>10

\* What every step keeps; a 304 confirms a page whose cursor is accepted.
LEMMA PriceStep ==
  ASSUME PriceBounds
  PROVE  PriceInv /\ [Prices!Next]_(Prices!vars) => PriceInv' /\ [Prices!NotModifiedUsable]_(Prices!vars)
<1> SUFFICES ASSUME PriceInv, [Prices!Next]_(Prices!vars)
             PROVE  PriceInv' /\ [Prices!NotModifiedUsable]_(Prices!vars)
  OBVIOUS
<1>1. CASE Prices!Tick
  <2>1. /\ now' = now + 1 /\ UNCHANGED <<rows, state, held, cursor, got, want>> /\ answer' = "none"
    BY <1>1 DEF Prices!Tick, Prices!None
  <2>2. PriceInv'
    <3>1. now' \in Nat /\ now' >= now /\ state'.upd \in Nat /\ state'.upd >= state.upd
      BY <2>1 DEF PriceInv
    <3>2. \A part, all, more : PassPart(part, all, more) => PassPart(part, all, more)'
      BY <2>1, <3>1, PassKept
    <3>3. PassPart(got, want, cursor)' /\ \A h \in held' : KeptPage(h)'
      BY <2>1, <3>2 DEF PriceInv, KeptPage
    <3>4. QED
      BY <2>1, <3>1, <3>3 DEF PriceInv
  <2>3. QED
    BY <2>1, <2>2 DEF Prices!NotModifiedUsable
<1>2. CASE Prices!Collect
  <2>1. PICK n \in 0..2, err \in BOOLEAN :
          /\ rows' = rows \union {[id |-> Prices!Cardinality(rows) + i, at |-> now] : i \in 1..n}
          /\ state' = [ok |-> IF err THEN state.ok ELSE now, err |-> err, upd |-> state.upd + 1]
    BY <1>2 DEF Prices!Collect
  <2>2. UNCHANGED <<now, held, cursor, got, want>> /\ answer' = "none"
    BY <1>2 DEF Prices!Collect, Prices!None
  <2>3. state'.upd \in Nat /\ state'.upd > state.upd /\ state' # state /\ now' \in Nat /\ now' >= now
    BY <2>1, <2>2 DEF PriceInv
  <2>4. Observed(rows')
    <3> DEFINE id(i) == Prices!Cardinality(rows) + i
               new == {[id |-> id(i), at |-> now] : i \in 1..n}
    <3>1. Prices!Cardinality(rows) \in Nat
      BY PriceCardinality, FS_CardinalityType DEF PriceInv, Observed
    <3>2. \A i \in 1..n : [id |-> id(i), at |-> now] \in [id : Nat, at : Nat]
      BY <3>1 DEF PriceInv
    <3>3. IsFiniteSet(1..n)
      BY FS_Interval
    <3>4. IsFiniteSet(new)
      <4> DEFINE f == [i \in 1..n |-> [id |-> id(i), at |-> now]]
      <4>1. f \in Surjection(1..n, new)
        BY DEF Surjection
      <4>2. QED
        BY <3>3, <4>1, FS_Surjection
    <3> HIDE DEF new
    <3>5. IsFiniteSet(rows \union new)
      BY <3>4, FS_Union DEF PriceInv, Observed
    <3>6. new \subseteq [id : Nat, at : Nat]
      BY <3>2 DEF new
    <3>7. rows' = rows \union new
      BY <2>1 DEF new
    <3>8. QED
      BY <3>5, <3>6, <3>7 DEF PriceInv, Observed
  <2>5. \A part, all, more : PassPart(part, all, more) => PassPart(part, all, more)'
    BY <2>3, PassKept DEF PriceInv
  <2>6. PassPart(got, want, cursor)' /\ \A h \in held' : KeptPage(h)'
    BY <2>2, <2>5 DEF PriceInv, KeptPage
  <2>7. QED
    BY <2>2, <2>3, <2>4, <2>6 DEF PriceInv, Prices!NotModifiedUsable
<1>3. CASE Prices!FirstPage
  <2> DEFINE set == Prices!InWindow(now - PrWindow, now)
             p == Prices!Paged(set, now - PrWindow, now, now)
             tag == Prices!Tag(p, now)
             same == {h \in held : h.tag = tag}
             use == IF same = {} THEN [tag |-> tag, page |-> p, all |-> set]
                    ELSE CHOOSE h \in same : TRUE
  <2>1. /\ held' = {use} /\ answer' = (IF same = {} THEN "page" ELSE "304")
        /\ got' = use.page.items /\ want' = use.all /\ cursor' = use.page.next
        /\ UNCHANGED <<now, rows, state>>
    BY <1>3 DEF Prices!FirstPage
  <2>2. /\ PassPart(p.items, set, p.next)
        /\ p.next = {} \/ \E c : p.next = {c} /\ c.issued = now /\ c.rev = state
    BY PriceFirst
  <2>3. \E s0 : tag = <<p.items, s0, IF p.next = {} THEN {} ELSE {<<now \div PrTtl, state>>}>>
    BY DEF Prices!Tag
  <2> HIDE DEF set, p, tag
  <2>4. KeptPage(use)
    <3>1. CASE same = {}
      <4>1. use.tag = tag /\ use.page = p /\ use.all = set
        BY <3>1
      <4> HIDE DEF use
      <4>2. QED
        BY <2>2, <2>3, <4>1 DEF KeptPage
    <3>2. CASE same # {}
      <4>1. use \in held
        BY <3>2
      <4>2. QED
        BY <4>1 DEF PriceInv
    <3>3. QED
      BY <3>1, <3>2
  <2>5. ASSUME same # {}, NEW h \in held, NEW c \in h.page.next PROVE Prices!Accepted(c)
    <3>1. PICK g \in held : g.tag = tag
      BY <2>5
    <3>2. g = h
      BY <3>1 DEF PriceInv
    <3>3. PICK s1 : h.tag = <<h.page.items, s1, {<<c.issued \div PrTtl, c.rev>>}>>
      BY DEF PriceInv, KeptPage
    <3>4. PICK s2 : tag = <<p.items, s2, IF p.next = {} THEN {} ELSE {<<now \div PrTtl, state>>}>>
      BY <2>3
    <3>5. {<<c.issued \div PrTtl, c.rev>>} = IF p.next = {} THEN {} ELSE {<<now \div PrTtl, state>>}
      BY <3>1, <3>2, <3>3, <3>4
    <3>6. <<c.issued \div PrTtl, c.rev>> = <<now \div PrTtl, state>>
      BY <3>5
    <3>7. c.issued \in Nat /\ c.issued <= now /\ now \in Nat
      BY DEF PriceInv, KeptPage, PassPart
    <3>8. now - c.issued <= PrTtl
      BY <3>6, <3>7 DEF PriceBounds
    <3>9. QED
      BY <3>6, <3>8 DEF Prices!Accepted
  <2>6. PICK z : z = use
    OBVIOUS
  <2> HIDE DEF use
  <2>7. \A part, all, more : PassPart(part, all, more) => PassPart(part, all, more)'
    BY <2>1 DEF PassPart, Prices!InWindow
  <2>8. KeptPage(z) /\ KeptPage(z)'
    BY <2>4, <2>6, <2>7 DEF KeptPage
  <2>9. held' = {z} /\ got' = z.page.items /\ want' = z.all /\ cursor' = z.page.next
    BY <2>1, <2>6
  <2>10. PassPart(got, want, cursor)'
    BY <2>7, <2>8, <2>9 DEF KeptPage
  <2>11. PriceInv'
    BY <2>1, <2>8, <2>9, <2>10 DEF PriceInv
  <2>12. Prices!NotModifiedUsable
    <3> SUFFICES ASSUME answer' = "304", NEW h \in held, NEW c \in h.page.next PROVE Prices!Accepted(c)
      BY DEF Prices!NotModifiedUsable
    <3>1. same # {}
      BY <2>1
    <3>2. QED
      BY <2>5, <3>1
  <2>13. QED
    BY <2>11, <2>12
<1>4. CASE Prices!NextPage
  <2>1. PICK c \in cursor :
          IF Prices!Accepted(c)
          THEN LET p == Prices!Paged({r \in Prices!InWindow(c.from, c.to) : Prices!After(r, c)},
                                     c.from, c.to, c.issued)
               IN  /\ got' = got \o p.items /\ cursor' = p.next /\ answer' = "page"
                   /\ want' = want
          ELSE got' = <<>> /\ want' = {} /\ cursor' = {} /\ answer' = "409"
    BY <1>4 DEF Prices!NextPage
  <2>2. UNCHANGED <<now, rows, state, held>>
    BY <1>4 DEF Prices!NextPage
  <2>3. \A part, all, more : PassPart(part, all, more) => PassPart(part, all, more)'
    BY <2>2 DEF PassPart, Prices!InWindow
  <2>4. PassPart(got, want, cursor)' /\ answer' # "304"
    <3>1. CASE Prices!Accepted(c)
      <4>1. PICK p : p = Prices!Paged({r \in Prices!InWindow(c.from, c.to) : Prices!After(r, c)},
                                      c.from, c.to, c.issued)
        OBVIOUS
      <4>2. got' = got \o p.items /\ cursor' = p.next /\ answer' = "page" /\ want' = want
        BY <2>1, <3>1, <4>1
      <4>3. PICK g, w : g = got \o p.items /\ w = want
        OBVIOUS
      <4>4. PassPart(g, w, p.next)
        BY <3>1, <4>1, <4>3, PriceNext
      <4>5. PassPart(g, w, p.next)'
        BY <2>3, <4>4
      <4>6. QED
        BY <4>2, <4>3, <4>5
    <3>2. CASE ~ Prices!Accepted(c)
      <4>1. got' = <<>> /\ want' = {} /\ cursor' = {} /\ answer' = "409"
        BY <2>1, <3>2
      <4>2. PassPart(<<>>, {}, {})'
        BY NothingRead DEF PassPart
      <4>3. QED
        BY <4>1, <4>2
    <3>3. QED
      BY <3>1, <3>2
  <2>5. \A h \in held : KeptPage(h)'
    BY <2>3 DEF PriceInv, KeptPage
  <2>6. QED
    BY <2>2, <2>4, <2>5 DEF PriceInv, Prices!NotModifiedUsable
<1>5. CASE UNCHANGED Prices!vars
  <2>1. UNCHANGED <<now, rows, state, held, cursor, got, want>>
    BY <1>5 DEF Prices!vars
  <2>2. \A part, all, more : PassPart(part, all, more) => PassPart(part, all, more)'
    BY <2>1 DEF PassPart, Prices!InWindow
  <2>3. PriceInv'
    BY <2>1, <2>2 DEF PriceInv, KeptPage
  <2>4. QED
    BY <1>5, <2>3
<1>6. QED
  BY <1>1, <1>2, <1>3, <1>4, <1>5 DEF Prices!Next

\* A pass that was not refused has delivered, in order, every row its window had at the first page.
THEOREM PassWhole == ASSUME PriceBounds PROVE Prices!Spec => []Prices!PassExact
<1>1. PriceInv => Prices!PassExact
  BY DEF PriceInv, PassPart, Prices!PassExact
<1>2. QED
  BY <1>1, PriceInit, PriceStep, PTL DEF Prices!Spec

\* A client told 304 can go on with the cursor it kept.
THEOREM NotModifiedHolds ==
  ASSUME PriceBounds PROVE Prices!Spec => [][Prices!NotModifiedUsable]_(Prices!vars)
BY PriceInit, PriceStep, PTL DEF Prices!Spec

\* What was observed and what a pass wants are rows.
PriceShape ==
    /\ now \in 0..PrTime /\ rows \subseteq Prices!Row /\ state \in Prices!State
    /\ answer \in {"none", "page", "304", "409"} /\ want \subseteq Prices!Row
    /\ \A h \in held : h.all \subseteq Prices!Row

\* A collection gives the next ids, up to the number of rows.
LEMMA NewPrices ==
  ASSUME PriceBounds, PriceInv, PriceShape, Prices!Collect PROVE PriceShape'
<1>1. PICK n \in 0..2, err \in BOOLEAN :
        /\ Prices!Cardinality(rows) + n <= PrRows
        /\ rows' = rows \union {[id |-> Prices!Cardinality(rows) + i, at |-> now] : i \in 1..n}
        /\ state' = [ok |-> IF err THEN state.ok ELSE now, err |-> err, upd |-> state.upd + 1]
  BY DEF Prices!Collect
<1>2. state.upd < PrUpdates /\ answer' = "none" /\ UNCHANGED <<now, held, want>>
  BY DEF Prices!Collect, Prices!None
<1>3. Prices!Cardinality(rows) \in Nat
  BY PriceCardinality, FS_CardinalityType DEF PriceInv, Observed
<1>4. \A i \in 1..n : [id |-> Prices!Cardinality(rows) + i, at |-> now] \in Prices!Row
  BY <1>1, <1>3 DEF PriceShape, Prices!Row, PriceBounds
<1>5. state' \in Prices!State
  BY <1>1, <1>2 DEF PriceShape, Prices!State, PriceBounds
<1>6. QED
  BY <1>1, <1>2, <1>4, <1>5 DEF PriceShape

\* Types of rows, state and answers.
THEOREM PriceTypes == ASSUME PriceBounds PROVE Prices!Spec => []Prices!TypeOK
<1>1. Prices!Init => PriceShape
  BY DEF Prices!Init, PriceShape, Prices!State, PriceBounds, Prices!None
<1>2. PriceInv /\ PriceShape /\ [Prices!Next]_(Prices!vars) => PriceShape'
  <2> SUFFICES ASSUME PriceInv, PriceShape, [Prices!Next]_(Prices!vars) PROVE PriceShape'
    OBVIOUS
  <2>1. CASE Prices!Tick
    BY <2>1 DEF Prices!Tick, Prices!None, PriceShape, PriceBounds
  <2>2. CASE Prices!Collect
    BY <2>2, NewPrices
  <2>3. CASE Prices!FirstPage
    <3> DEFINE set == Prices!InWindow(now - PrWindow, now)
               p == Prices!Paged(set, now - PrWindow, now, now)
               tag == Prices!Tag(p, now)
               same == {h \in held : h.tag = tag}
               use == IF same = {} THEN [tag |-> tag, page |-> p, all |-> set]
                      ELSE CHOOSE h \in same : TRUE
    <3>1. /\ held' = {use} /\ answer' = (IF same = {} THEN "page" ELSE "304") /\ want' = use.all
          /\ UNCHANGED <<now, rows, state>>
      BY <2>3 DEF Prices!FirstPage
    <3>2. set \subseteq rows
      BY DEF Prices!InWindow
    <3> HIDE DEF set, p, tag
    <3>3. use.all \subseteq Prices!Row
      <4>1. CASE same = {}
        BY <3>2, <4>1 DEF PriceShape
      <4>2. CASE same # {}
        <5>1. use \in held
          BY <4>2
        <5>2. QED
          BY <5>1 DEF PriceShape
      <4>3. QED
        BY <4>1, <4>2
    <3> HIDE DEF use
    <3>4. QED
      BY <3>1, <3>3 DEF PriceShape
  <2>4. CASE Prices!NextPage
    BY <2>4 DEF Prices!NextPage, PriceShape
  <2>5. CASE UNCHANGED Prices!vars
    BY <2>5 DEF Prices!vars, PriceShape
  <2>6. QED
    BY <2>1, <2>2, <2>3, <2>4, <2>5 DEF Prices!Next
<1>3. PriceShape => Prices!TypeOK
  BY DEF PriceShape, Prices!TypeOK, Prices!None
<1>4. QED
  BY <1>1, <1>2, <1>3, PriceInit, PriceStep, PTL DEF Prices!Spec

================================================================================
