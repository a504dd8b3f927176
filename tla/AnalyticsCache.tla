------------------------------ MODULE AnalyticsCache ------------------------------
(***************************************************************************)
(* The precomputed parking analytics.  refresh_default_analytics_cache     *)
(* takes a watermark, reads the snapshots airport by airport and stores    *)
(* every scope in one transaction, under the advisory lock the parking     *)
(* collector holds for its whole run.  load_cached_analytics answers from  *)
(* a row only if no snapshot of its scope was collected after the          *)
(* watermark.  Clock readings are distinct (microseconds).                 *)
(***************************************************************************)
EXTENDS Integers, FiniteSets

CONSTANTS
    Proc,     \* processes that refresh: the API, the schedulers, Dagster ops
    Airport,
    MaxAge,   \* MAX_ANALYTICS_CACHE_AGE
    MaxTime   \* bound: clock readings

VARIABLES
    now, snaps,
    lock,     \* holder of airport_collection: nobody, "collector" or a refresher
    lost,     \* history: the collector's lock connection broke during a run
    active,   \* a collector runs
    pending,  \* rows it has inserted and not committed
    pc, gen, left, seen,
    cache

refreshVars == <<pc, gen, left, seen>>
vars == <<now, snaps, lock, lost, active, pending, refreshVars, cache>>

Nobody == "nobody"
Idle == "idle"
Empty == [gen |-> 0, rows |-> {}]
Snapshot == [airport: Airport, at: 1..MaxTime]

Init ==
    /\ now = 0 /\ snaps = {} /\ lock = Nobody /\ lost = FALSE /\ active = FALSE /\ pending = {}
    /\ pc = [p \in Proc |-> Idle]
    /\ gen = [p \in Proc |-> 0]
    /\ left = [p \in Proc |-> {}]
    /\ seen = [p \in Proc |-> [a \in Airport |-> {}]]
    /\ cache = [a \in Airport |-> Empty]

\* Types of snapshots, lock and cache rows.
TypeOK ==
    /\ now \in 0..MaxTime /\ snaps \subseteq Snapshot /\ lock \in Proc \union {Nobody, "collector"}
    /\ active \in BOOLEAN /\ pending \subseteq Snapshot
    /\ \A a \in Airport : cache[a].gen \in 0..MaxTime /\ cache[a].rows \subseteq Snapshot

--------------------------------------------------------------------------------
\* CollectionService.collect under its session lock.
CollectBegin ==
    /\ ~ active /\ lock = Nobody
    /\ lock' = "collector" /\ active' = TRUE
    /\ UNCHANGED <<now, snaps, lost, pending, refreshVars, cache>>

\* A snapshot is stamped when it is inserted, some time before the commit.
CollectInsert(a) ==
    /\ active /\ now < MaxTime /\ now' = now + 1
    /\ pending' = pending \union {[airport |-> a, at |-> now + 1]}
    /\ UNCHANGED <<snaps, lock, lost, active, refreshVars, cache>>

\* The run commits, or fails and rolls back; the lock goes with it.
CollectEnd ==
    /\ active
    /\ snaps' \in {snaps, snaps \union pending}
    /\ active' = FALSE /\ pending' = {}
    /\ lock' = IF lock = "collector" THEN Nobody ELSE lock
    /\ UNCHANGED <<now, lost, refreshVars, cache>>

\* The dedicated connection of the lock breaks while the collector goes on.
LockLost ==
    /\ lock = "collector" /\ lock' = Nobody /\ lost' = TRUE
    /\ UNCHANGED <<now, snaps, active, pending, refreshVars, cache>>

--------------------------------------------------------------------------------
\* Mutant: the refresh does not take the collector's lock.
FreeAlways == TRUE
\* pg_try_advisory_xact_lock: without it the refresh does nothing.
Free == lock = Nobody

RefreshBegin(p) ==
    /\ pc[p] = Idle /\ Free /\ now < MaxTime
    /\ lock' = p /\ now' = now + 1
    /\ gen' = [gen EXCEPT ![p] = now + 1]
    /\ left' = [left EXCEPT ![p] = Airport]
    /\ seen' = [seen EXCEPT ![p] = [a \in Airport |-> {}]]
    /\ pc' = [pc EXCEPT ![p] = "read"]
    /\ UNCHANGED <<snaps, lost, active, pending, cache>>

\* _load_snapshots of one airport; its scopes are computed from this one read.
RefreshRead(p, a) ==
    /\ pc[p] = "read" /\ a \in left[p]
    /\ seen' = [seen EXCEPT ![p][a] = {s \in snaps : s.airport = a}]
    /\ left' = [left EXCEPT ![p] = @ \ {a}]
    /\ UNCHANGED <<now, snaps, lock, lost, active, pending, pc, gen, cache>>

\* The transaction ends and the lock with it: every airport's rows, or none.
RefreshEnd(p) ==
    /\ pc[p] = "read"
    /\ \/ left[p] = {} /\ cache' = [a \in Airport |-> [gen |-> gen[p], rows |-> seen[p][a]]]
       \/ UNCHANGED cache
    /\ pc' = [pc EXCEPT ![p] = Idle]
    /\ gen' = [gen EXCEPT ![p] = 0]
    /\ left' = [left EXCEPT ![p] = {}]
    /\ seen' = [seen EXCEPT ![p] = [a \in Airport |-> {}]]
    /\ lock' = IF lock = p THEN Nobody ELSE lock
    /\ UNCHANGED <<now, snaps, lost, active, pending>>

\* load_cached_analytics: a row that is young enough and that no later snapshot invalidates.
Usable(a) ==
    /\ cache[a].gen > 0 /\ now - cache[a].gen <= MaxAge
    /\ ~ \E s \in snaps : s.airport = a /\ s.at > cache[a].gen

Next ==
    \/ CollectBegin \/ CollectEnd \/ LockLost
    \/ \E a \in Airport : CollectInsert(a)
    \/ \E p \in Proc : RefreshBegin(p) \/ RefreshEnd(p) \/ \E a \in Airport : RefreshRead(p, a)

Spec == Init /\ [][Next]_vars

--------------------------------------------------------------------------------
\* What the cache answers with was computed from every committed snapshot of the airport, late
\* commits of a collector included.
CacheComplete ==
    lost \/ \A a \in Airport : Usable(a) => {s \in snaps : s.airport = a} \subseteq cache[a].rows

================================================================================
