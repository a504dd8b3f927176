------------------------------ MODULE Timetables ------------------------------
(***************************************************************************)
(* Stored ferry and bus timetables.  The API fills them when they are      *)
(* asked for (transport_port_timetable, transport_bus_timetable): every    *)
(* worker process has its own cache, lock, call interval and backoff.  The *)
(* ferry collector fills the coming days on its own, within a number of    *)
(* calls, and stamps an answer before it stores it.  All of them write the *)
(* same rows.  Keys are one port's service dates, or one bus connection    *)
(* and date.                                                               *)
(***************************************************************************)
EXTENDS Integers, FiniteSets

CONSTANTS
    Kind,        \* "ferry" or "bus"
    Proc,        \* requests
    Worker,      \* API processes
    Date,        \* service dates asked for, in days
    StorageDays, \* ferry_timetable_storage_days
    CacheTtl,    \* ferry_timetable_cache_seconds, bus_timetable_cache_seconds
    MinInterval, \* least time between two calls of a worker
    Backoff,     \* upstream_rate_limit_backoff_seconds
    MaxCalls,    \* ferry_timetable_collection_max_provider_calls
    MaxErrors,   \* consecutive network failures that end a collection
    DayLength,   \* length of a day
    MaxTime      \* bound: the clock

VARIABLES
    now, row,
    mem,      \* a worker's cache: time put in and time fetched
    lock, last, limited,
    pc, at, date,
    left, seen, used, errors, \* the ferry collector
    start,    \* when the running collection read the stored rows
    stamped,   \* collected_at of its answer that is not stored yet
    called,   \* history: a worker's last call
    refused   \* history: the last time a worker's call was refused

workerVars == <<mem, lock, last, limited>>
procVars == <<pc, at, date>>
collectorVars == <<left, seen, used, errors, start, stamped>>
vars == <<now, row, workerVars, procVars, collectorVars, called, refused>>

None == -9
Nobody == "nobody"
NoDates == {}
Today == now \div DayLength

Init ==
    /\ now = 0
    /\ row = [d \in Date |-> None]
    /\ mem = [w \in Worker |-> [d \in Date |-> [put |-> None, fetched |-> None]]]
    /\ lock = [w \in Worker |-> Nobody]
    /\ last = [w \in Worker |-> None]
    /\ limited = [w \in Worker |-> None]
    /\ pc = [p \in Proc |-> "idle"]
    /\ at = [p \in Proc |-> Nobody]
    /\ date = [p \in Proc |-> None]
    /\ left = NoDates /\ seen = row /\ used = -1 /\ errors = 0
    /\ start = None /\ stamped = None
    /\ called = [w \in Worker |-> None]
    /\ refused = [w \in Worker |-> None]

\* Types of rows, requests and the collector's counters.
TypeOK ==
    /\ now \in 0..MaxTime /\ row \in [Date -> {None} \union 0..MaxTime]
    /\ pc \in [Proc -> {"idle", "waiting", "call"}] /\ lock \in [Worker -> Proc \union {Nobody}]
    /\ left \subseteq Date /\ used \in -1..MaxCalls /\ errors \in 0..MaxErrors
    /\ start \in {None} \union 0..MaxTime /\ stamped \in {None} \union 0..MaxTime

Tick == now < MaxTime /\ now' = now + 1
        /\ UNCHANGED <<row, workerVars, procVars, collectorVars, called, refused>>

--------------------------------------------------------------------------------
InRange(d) == Today <= d /\ d < Today + StorageDays
Stale(t) == now - t >= CacheTtl
Cached(w, d) == mem[w][d].put # None /\ ~ Stale(mem[w][d].put)
Limited(w) == limited[w] # None /\ now < limited[w]

\* A stored ferry timetable answers; a stored bus timetable only while it is fresh.
Answers(d) == row[d] # None /\ (Kind = "ferry" \/ ~ Stale(row[d]))

\* Row, cache and backoff end a request before the lock, with the row, a stale copy of it or 429; the
\* others wait for the lock.
Request(p, w, d) ==
    /\ pc[p] = "idle" /\ (Kind = "bus" \/ InRange(d)) /\ ~ Answers(d) /\ ~ Cached(w, d) /\ ~ Limited(w)
    /\ pc' = [pc EXCEPT ![p] = "waiting"]
    /\ at' = [at EXCEPT ![p] = w]
    /\ date' = [date EXCEPT ![p] = d]
    /\ UNCHANGED <<now, row, workerVars, collectorVars, called, refused>>

Leave(p) ==
    /\ pc' = [pc EXCEPT ![p] = "idle"]
    /\ at' = [at EXCEPT ![p] = Nobody]
    /\ date' = [date EXCEPT ![p] = None]

\* Mutant: the interval is not looked at again under the lock.
TooSoonNot(w) == FALSE
TooSoon(w) == last[w] # None /\ now < last[w] + MinInterval

\* Under the lock cache and backoff are read again, then the interval.
Refused(p) ==
    /\ pc[p] = "waiting" /\ lock[at[p]] = Nobody
    /\ Cached(at[p], date[p]) \/ Limited(at[p]) \/ TooSoon(at[p])
    /\ Leave(p)
    /\ UNCHANGED <<now, row, workerVars, collectorVars, called, refused>>

Call(p) ==
    /\ pc[p] = "waiting" /\ lock[at[p]] = Nobody
    /\ ~ Cached(at[p], date[p]) /\ ~ Limited(at[p]) /\ ~ TooSoon(at[p])
    /\ lock' = [lock EXCEPT ![at[p]] = p]
    /\ last' = [last EXCEPT ![at[p]] = now]
    /\ called' = [called EXCEPT ![at[p]] = now]
    /\ pc' = [pc EXCEPT ![p] = "call"]
    /\ UNCHANGED <<now, row, mem, limited, at, date, collectorVars, refused>>

\* Mutant: the newer row is not compared with.
BusRowBlind(d, t) == t
\* save_bus_timetable: ON CONFLICT DO UPDATE WHERE the new answer is not older.
BusRow(d, t) == IF row[d] = None \/ t >= row[d] THEN t ELSE row[d]

\* The answer is stored; a ferry row that appeared meanwhile (IntegrityError) is answered instead.
CallOk(p, t) ==
    /\ pc[p] = "call" /\ t \in called[at[p]]..now \* fetched_at; the commit comes later
    /\ LET d == date[p]
           taken == Kind = "ferry" /\ row[d] # None
       IN  /\ row' = IF taken THEN row
                     ELSE [row EXCEPT ![d] = IF Kind = "ferry" THEN t ELSE BusRow(d, t)]
           /\ mem' = IF taken THEN mem
                     ELSE [mem EXCEPT ![at[p]][d] = [put |-> now, fetched |-> t]]
    /\ lock' = [lock EXCEPT ![at[p]] = Nobody]
    /\ Leave(p)
    /\ UNCHANGED <<now, last, limited, collectorVars, called, refused>>

\* A refusal starts the backoff; any other error answers with the stale row or an error.
CallFails(p) ==
    /\ pc[p] = "call"
    /\ \/ /\ limited' = [limited EXCEPT ![at[p]] = now + Backoff]
          /\ refused' = [refused EXCEPT ![at[p]] = now]
       \/ UNCHANGED <<limited, refused>>
    /\ lock' = [lock EXCEPT ![at[p]] = Nobody]
    /\ Leave(p)
    /\ UNCHANGED <<now, row, mem, last, collectorVars, called>>

--------------------------------------------------------------------------------
\* _collect_ferry_timetables: rows out of range go, and the stored rows are read once.
CollectorBegin ==
    /\ Kind = "ferry" /\ used = -1
    /\ row' = [d \in Date |-> IF InRange(d) THEN row[d] ELSE None]
    /\ seen' = row' /\ start' = now
    /\ left' = {d \in Date : InRange(d)} /\ used' = 0 /\ errors' = 0
    /\ UNCHANGED <<now, workerVars, procVars, stamped, called, refused>>

\* A stored future date is reused, today's if it was less than a day old: both as of the start.
Reused(d) == seen[d] # None /\ (d > start \div DayLength \/ start - seen[d] < DayLength)

\* The collection has come to this date.
Turn(d) == d \in left /\ \A e \in left : d <= e

CollectorSkip(d) ==
    /\ Turn(d) /\ stamped = None
    /\ Reused(d) \/ used >= MaxCalls
    /\ left' = left \ {d}
    /\ UNCHANGED <<now, row, workerVars, procVars, seen, used, errors, start, stamped, called, refused>>

\* A call counts whether it succeeds or not.  Its answer is stamped; MaxErrors network failures in
\* a row end the collection, any other error ends it at once.
CollectorCall(d) ==
    /\ Turn(d) /\ stamped = None
    /\ ~ Reused(d) /\ used < MaxCalls
    /\ used' = used + 1
    /\ \/ stamped' = now /\ errors' = 0 /\ UNCHANGED left
       \/ /\ errors' = errors + 1 /\ UNCHANGED stamped
          /\ left' = IF errors + 1 >= MaxErrors THEN NoDates ELSE left \ {d}
       \/ left' = NoDates /\ UNCHANGED <<errors, stamped>>
    /\ UNCHANGED <<now, row, workerVars, procVars, seen, start, called, refused>>

\* _upsert_ferry_timetable_snapshot and its commit: the row is not compared with, and a request may
\* have put a later one there since the answer was stamped.  A failure ends the collection.
CollectorStore(d) ==
    /\ Turn(d) /\ stamped # None
    /\ \/ row' = [row EXCEPT ![d] = stamped] /\ left' = left \ {d}
       \/ UNCHANGED row /\ left' = NoDates
    /\ stamped' = None
    /\ UNCHANGED <<now, workerVars, procVars, seen, used, errors, start, called, refused>>

CollectorEnd ==
    /\ used # -1 /\ left = NoDates
    /\ used' = -1 /\ errors' = 0 /\ seen' = [d \in Date |-> None] /\ start' = None
    /\ UNCHANGED <<now, row, workerVars, procVars, left, stamped, called, refused>>

Next ==
    \/ Tick \/ CollectorBegin \/ CollectorEnd
    \/ \E d \in Date : CollectorSkip(d) \/ CollectorCall(d) \/ CollectorStore(d)
    \/ \E p \in Proc :
           \/ \E w \in Worker, d \in Date : Request(p, w, d)
           \/ Refused(p) \/ Call(p) \/ CallFails(p)
           \/ \E t \in 0..MaxTime : CallOk(p, t)

Spec == Init /\ [][Next]_vars

--------------------------------------------------------------------------------
\* The ferry collector stores over a row that appeared after it had read the stored ones.
Overwritten(d) ==
    /\ Kind = "ferry" /\ used # -1
    /\ row[d] # seen[d] /\ row'[d] >= start

\* A stored timetable is replaced by one fetched later, whichever worker or collector commits last,
\* and disappears only when its date is past.  The ferry collector alone may set a row back: one
\* that a request stored while the collection ran, and no further than the start of that collection.
RowForward ==
    \A d \in Date : row[d] # None =>
        row'[d] >= row[d] \/ (row'[d] = None /\ ~ InRange(d)) \/ Overwritten(d)

\* A worker leaves the interval between two calls, and does not call while a refusal holds.
WorkerSpares ==
    \A w \in Worker : lock'[w] # lock[w] /\ lock'[w] # Nobody =>
           /\ called[w] = None \/ now >= called[w] + MinInterval
           /\ refused[w] = None \/ now >= refused[w] + Backoff

================================================================================
