------------------------------ MODULE StatisticsCache ------------------------------
(***************************************************************************)
(* cached_transport_statistics: the response cache of the traffic          *)
(* statistics.  One lock object per key exists while requests use it; a    *)
(* calculation also needs one of a few slots and is refused, not queued,   *)
(* when there is none; every wait ends at the request's deadline.          *)
(***************************************************************************)
EXTENDS Integers, FiniteSets

CONSTANTS
    Proc,     \* requests
    Key,
    Ttl,      \* transport_statistics_cache_seconds
    Slots,    \* transport_statistics_max_concurrent_misses
    MaxLocks, \* bound: lock objects created
    MaxTime   \* bound: the clock

VARIABLES
    now,
    cache,   \* completion time of the stored response, by key; -1 for none
    entry,   \* the lock object of a key; 0 for none
    users,   \* requests that use a lock object
    owner,   \* the request that holds a lock object
    made,    \* lock objects created
    pc, key, mine

vars == <<now, cache, entry, users, owner, made, pc, key, mine>>

Nobody == "nobody"
None == "none"

Init ==
    /\ now = 0 /\ made = 0
    /\ cache = [k \in Key |-> -1]
    /\ entry = [k \in Key |-> 0]
    /\ users = [i \in 1..MaxLocks |-> 0]
    /\ owner = [i \in 1..MaxLocks |-> Nobody]
    /\ pc = [p \in Proc |-> "idle"]
    /\ key = [p \in Proc |-> None]
    /\ mine = [p \in Proc |-> 0]

\* Types of cache, lock objects and requests.
TypeOK ==
    /\ now \in 0..MaxTime /\ made \in 0..MaxLocks
    /\ entry \in [Key -> 0..MaxLocks] /\ users \in [1..MaxLocks -> 0..Cardinality(Proc)]
    /\ pc \in [Proc -> {"idle", "waiting", "locked", "calculate"}]

Tick == now < MaxTime /\ now' = now + 1 /\ UNCHANGED <<cache, entry, users, owner, made, pc, key, mine>>

Live(k) == cache[k] # -1 /\ now - cache[k] <= Ttl

\* get_cached drops an entry that is too old and keeps one that answers.
Looked(k) == IF Live(k) THEN cache ELSE [cache EXCEPT ![k] = -1]

\* A request with no cached answer joins the lock object of its key, or makes one.
Miss(p, k) ==
    /\ pc[p] = "idle" /\ ~ Live(k) /\ cache' = Looked(k)
    /\ entry[k] = 0 => made < MaxLocks
    /\ LET i == IF entry[k] = 0 THEN made + 1 ELSE entry[k]
       IN  /\ entry' = [entry EXCEPT ![k] = i]
           /\ made' = IF entry[k] = 0 THEN made + 1 ELSE made
           /\ users' = [users EXCEPT ![i] = @ + 1]
           /\ mine' = [mine EXCEPT ![p] = i]
    /\ key' = [key EXCEPT ![p] = k]
    /\ pc' = [pc EXCEPT ![p] = "waiting"]
    /\ UNCHANGED <<now, owner>>

Acquire(p) ==
    /\ pc[p] = "waiting" /\ owner[mine[p]] = Nobody
    /\ owner' = [owner EXCEPT ![mine[p]] = p]
    /\ pc' = [pc EXCEPT ![p] = "locked"]
    /\ UNCHANGED <<now, cache, entry, users, made, key, mine>>

\* Mutant: the lock object is dropped by the first request that leaves.
DroppedAlways(p) == TRUE
\* The lock object is dropped with its last user.
Dropped(p) == users[mine[p]] = 1

\* The finally blocks: release, one user less, and the lock object goes with its last user.
Leave(p) ==
    /\ owner' = IF owner[mine[p]] = p THEN [owner EXCEPT ![mine[p]] = Nobody] ELSE owner
    /\ users' = [users EXCEPT ![mine[p]] = @ - 1]
    /\ entry' = IF Dropped(p) THEN [entry EXCEPT ![key[p]] = 0] ELSE entry
    /\ mine' = [mine EXCEPT ![p] = 0]
    /\ key' = [key EXCEPT ![p] = None]
    /\ pc' = [pc EXCEPT ![p] = "idle"]
    /\ UNCHANGED <<now, made>>

Calculating == {p \in Proc : pc[p] = "calculate"}

\* Under the lock the cache is read again; then a slot is taken at once or the request refused (429).
Answered(p) == pc[p] = "locked" /\ Live(key[p]) /\ UNCHANGED cache /\ Leave(p)
Refused(p) ==
    /\ pc[p] = "locked" /\ ~ Live(key[p]) /\ Cardinality(Calculating) >= Slots
    /\ cache' = Looked(key[p]) /\ Leave(p)
Calculate(p) ==
    /\ pc[p] = "locked" /\ ~ Live(key[p]) /\ Cardinality(Calculating) < Slots
    /\ cache' = Looked(key[p])
    /\ pc' = [pc EXCEPT ![p] = "calculate"]
    /\ UNCHANGED <<now, entry, users, owner, made, key, mine>>

Store(p) == pc[p] = "calculate" /\ cache' = [cache EXCEPT ![key[p]] = now] /\ Leave(p)
\* The handler fails, or the deadline passes while calculating or waiting.
Fail(p) == pc[p] \in {"waiting", "calculate"} /\ UNCHANGED cache /\ Leave(p)

Next ==
    \/ Tick
    \/ \E p \in Proc :
           \/ \E k \in Key : Miss(p, k)
           \/ Acquire(p) \/ Answered(p) \/ Refused(p) \/ Calculate(p) \/ Store(p) \/ Fail(p)

Spec == Init /\ [][Next]_vars

--------------------------------------------------------------------------------
\* A key is calculated by one request at a time, although its lock object comes and goes with its
\* users and waiters give up.
OneCalculation == \A p, q \in Calculating : key[p] = key[q] => p = q

\* No lock object outlives its users: those in the table are exactly those in use.
LocksCollected == \A i \in 1..MaxLocks : users[i] > 0 <=> \E k \in Key : entry[k] = i

================================================================================
