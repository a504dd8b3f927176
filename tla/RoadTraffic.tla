------------------------------ MODULE RoadTraffic ------------------------------
(***************************************************************************)
(* The selected-road traffic map of build_highway_map_router: one lock for *)
(* all calls of the worker, a small cache in order of use, a daily number  *)
(* of attempts, and a pause after a failure or a timeout.                  *)
(***************************************************************************)
EXTENDS Integers, Sequences, FiniteSets, Functions

CONSTANTS
    Proc,       \* requests
    Key,        \* the catalog and the roads
    Ttl,        \* by key
    Block,      \* pause after a failure
    DayLength,  \* length of a day
    DayMax,     \* attempts a day
    MaxEntries, \* cache entries
    MaxTime     \* bound: the clock

VARIABLES
    now,
    cache,        \* entries, least recently used first
    lock, blocked, day, attempts,
    pc, key, saved,
    calls,        \* history: calls that started, by day
    failed,       \* history: the time of the last failed call
    answer        \* the last answer given

worker == <<cache, lock, blocked, day, attempts>>
vars == <<now, worker, pc, key, saved, calls, failed, answer>>

Nobody == "nobody"
None == "none"
Days == 0..(MaxTime \div DayLength)
Today == now \div DayLength
NoAnswer == [at |-> 0, stale |-> TRUE, age |-> 0, key |-> None]

Init ==
    /\ now = 0 /\ cache = <<>> /\ lock = Nobody /\ blocked = 0 /\ day = -1 /\ attempts = 0
    /\ pc = [p \in Proc |-> "idle"]
    /\ key = [p \in Proc |-> None]
    /\ saved = [p \in Proc |-> {}]
    /\ calls = [d \in Days |-> 0]
    /\ failed = -Block /\ answer = NoAnswer

\* Types; the cache holds a key once and no more entries than allowed.
TypeOK ==
    /\ now \in 0..MaxTime /\ lock \in Proc \union {Nobody} /\ attempts \in 0..DayMax
    /\ pc \in [Proc -> {"idle", "waiting", "fetch"}]
    /\ Len(cache) <= MaxEntries
    /\ \A i, j \in 1..Len(cache) : cache[i].key = cache[j].key => i = j

Tick == now < MaxTime /\ now' = now + 1
        /\ UNCHANGED <<worker, pc, key, saved, calls, failed, answer>>

--------------------------------------------------------------------------------
Entries(k) == {e \in Range(cache) : e.key = k}
Young(k) == {e \in Entries(k) : now - e.at < Ttl[k]}
Place(k) == CHOOSE i \in 1..Len(cache) : cache[i].key = k
Without(k) ==
    IF Entries(k) = {} THEN cache
    ELSE SubSeq(cache, 1, Place(k) - 1) \o SubSeq(cache, Place(k) + 1, Len(cache))
MovedToEnd(e) == Append(Without(e.key), e)
\* Mutant: nothing goes.
PutAll(e) == MovedToEnd(e)
\* An entry is put last; the ones used least recently go.
Put(e) == LET s == MovedToEnd(e)
          IN  IF Len(s) > MaxEntries THEN Tail(s) ELSE s

Given(e, stale) == [at |-> e.at, stale |-> stale, age |-> now - e.at, key |-> e.key]
Failing == NoAnswer
\* The saved entry marked stale, or the HTTP error.
Fallback(entries) == IF entries = {} THEN Failing ELSE Given(CHOOSE e \in entries : TRUE, TRUE)

Leave(p) ==
    /\ pc' = [pc EXCEPT ![p] = "idle"]
    /\ key' = [key EXCEPT ![p] = None]
    /\ saved' = [saved EXCEPT ![p] = {}]

\* A young entry answers without the lock; otherwise the request queues.
Request(p, k) ==
    /\ pc[p] = "idle"
    /\ \/ \E e \in Young(k) : /\ cache' = MovedToEnd(e)
                              /\ answer' = Given(e, FALSE)
                              /\ UNCHANGED <<pc, key, saved>>
       \/ /\ Young(k) = {}
          /\ pc' = [pc EXCEPT ![p] = "waiting"]
          /\ key' = [key EXCEPT ![p] = k]
          /\ saved' = [saved EXCEPT ![p] = Entries(k)]
          /\ UNCHANGED <<cache, answer>>
    /\ UNCHANGED <<now, lock, blocked, day, attempts, calls, failed>>

\* attempts after the daily reset.
Attempts == IF day = Today THEN attempts ELSE 0
Refused == now < blocked \/ Attempts >= DayMax

\* The lock is taken: the entry is looked up again and the protections are tested.
Locked(p) == pc[p] = "waiting" /\ lock = Nobody

LockedHit(p) ==
    /\ Locked(p)
    /\ \E e \in Young(key[p]) : cache' = MovedToEnd(e) /\ answer' = Given(e, FALSE)
    /\ Leave(p)
    /\ UNCHANGED <<now, lock, blocked, day, attempts, calls, failed>>

LockedRefused(p) ==
    /\ Locked(p) /\ Young(key[p]) = {} /\ Refused
    /\ day' = Today /\ attempts' = Attempts
    /\ answer' = Fallback(Entries(key[p]))
    /\ Leave(p)
    /\ UNCHANGED <<now, cache, lock, blocked, calls, failed>>

\* Mutant: only calls that return are counted.
CountedOnStartNot == Attempts
CountedOnStart == Attempts + 1

FetchBegin(p) ==
    /\ Locked(p) /\ Young(key[p]) = {} /\ ~ Refused
    /\ lock' = p
    /\ day' = Today /\ attempts' = CountedOnStart
    /\ calls' = [calls EXCEPT ![Today] = @ + 1]
    /\ saved' = [saved EXCEPT ![p] = Entries(key[p])]
    /\ pc' = [pc EXCEPT ![p] = "fetch"]
    /\ UNCHANGED <<now, cache, blocked, key, failed, answer>>

FetchOk(p) ==
    /\ pc[p] = "fetch"
    /\ cache' = Put([key |-> key[p], at |-> now])
    /\ answer' = Given([key |-> key[p], at |-> now], FALSE)
    /\ lock' = Nobody /\ Leave(p)
    /\ UNCHANGED <<now, blocked, day, attempts, calls, failed>>

FetchFails(p) ==
    /\ pc[p] = "fetch"
    /\ blocked' = now + Block /\ failed' = now
    /\ answer' = Fallback(saved[p])
    /\ lock' = Nobody /\ Leave(p)
    /\ UNCHANGED <<now, cache, day, attempts, calls>>

\* Mutant: a timeout starts no pause.
TimeoutBlockNever(p) == blocked
TimeoutBlock(p) == IF pc[p] = "fetch" THEN now + Block ELSE blocked

\* asyncio.timeout: the wait for the lock counts, but only a call that had begun starts the pause.
Timeout(p) ==
    /\ pc[p] \in {"waiting", "fetch"}
    /\ blocked' = TimeoutBlock(p)
    /\ failed' = IF pc[p] = "fetch" THEN now ELSE failed
    /\ lock' = IF lock = p THEN Nobody ELSE lock
    /\ answer' = Fallback(saved[p])
    /\ Leave(p)
    /\ UNCHANGED <<now, cache, day, attempts, calls>>

Next ==
    \/ Tick
    \/ \E p \in Proc :
           \/ \E k \in Key : Request(p, k)
           \/ LockedHit(p) \/ LockedRefused(p) \/ FetchBegin(p)
           \/ FetchOk(p) \/ FetchFails(p) \/ Timeout(p)

Spec == Init /\ [][Next]_vars

--------------------------------------------------------------------------------
\* The provider is called at most DayMax times in one day.
BudgetKept == \A d \in Days : calls[d] <= DayMax

\* After a call that failed or timed out no request of the worker calls again before the pause ends.
PauseKept == calls' # calls => now >= failed + Block

\* An answer that does not say it is stale is younger than its key's life.
StaleSaid == ~ answer.stale => answer.age < Ttl[answer.key]

================================================================================
