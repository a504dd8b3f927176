--------------------------- MODULE ReferenceCollection ---------------------------
(***************************************************************************)
(* The collectors of slow reference lists and the heads they promote:      *)
(* railway stations and ferry ports (rail_maritime_collection.py), express *)
(* and intercity bus terminals (bus_collection.py), and the membership     *)
(* heads of reference_exports.py that the snapshot exports freeze.         *)
(*                                                                         *)
(* A run commits its start, waits for the provider without a transaction,  *)
(* and writes rows, heads and its own end in one transaction.  The run     *)
(* queue lets one of these jobs run at a time, but a worker that outlives  *)
(* its run may still be there when the next one starts; the guards on      *)
(* attempt_order are for that.  A session keeps the rows it has loaded     *)
(* (expire_on_commit is off) until it rolls back: the railway collector    *)
(* loads the head before its network wait and does not roll back, the two  *)
(* others do.                                                              *)
(***************************************************************************)
EXTENDS Integers, FiniteSets

CONSTANTS
    Proc,       \* workers
    Id,         \* identities a provider lists, the same ones for every scope
    Job,        \* the jobs of this instance, a subset of {"rail", "port", "bus"}
    DropFactor, \* a list of n is a drop from m when n * DropFactor < m; 4 in the code
    DueAfter,   \* hours after a success before a job is due again, by job
    MaxTime,    \* bound: the clock
    MaxRuns     \* bound: runs started

VARIABLES
    now,
    flag,       \* TRANSPORT_MAP_CURRENT_ENABLED
    head,       \* ReferenceExportState by scope, NoHead before the first promotion
    rows,       \* identities stored, by scope
    latest,     \* finished_at of the latest successful run, by job
    runs,       \* CollectionRun ids handed out
    lease,      \* owner of the advisory lock of the bus job
    pc, job, run,
    copy,       \* the head a railway session has in its identity map
    base,       \* previous_count by scope, read before the network wait
    items       \* the answer, by scope

dbVars == <<head, rows, latest, lease>>
procVars == <<pc, job, run, copy, base, items>>
vars == <<now, flag, runs, dbVars, procVars>>

None == -1
Nobody == "nobody"
Scope == {"rail", "port", "express", "intercity"}
ScopesOf(j) == IF j = "bus" THEN {"express", "intercity"} ELSE {j}

\* ReferenceExportState: attempt_order, member_ids, confirmed_at and whether last_error is set.
Head == [order: 1..MaxRuns, members: SUBSET Id, at: 0..MaxTime, error: BOOLEAN]
NoHead == [order |-> 0, members |-> {}, at |-> 0, error |-> FALSE]

Init ==
    /\ now = 0 /\ runs = 0 /\ flag = FALSE
    /\ head = [s \in Scope |-> NoHead]
    /\ rows = [s \in Scope |-> {}]
    /\ latest = [j \in Job |-> None]
    /\ lease = Nobody
    /\ pc = [p \in Proc |-> "idle"]
    /\ job = [p \in Proc |-> "none"]
    /\ run = [p \in Proc |-> 0]
    /\ copy = [p \in Proc |-> NoHead]
    /\ base = [p \in Proc |-> [s \in Scope |-> 0]]
    /\ items = [p \in Proc |-> [s \in Scope |-> {}]]

\* Types of the heads, the stored rows and the runs in progress.
TypeOK ==
    /\ now \in 0..MaxTime /\ flag \in BOOLEAN /\ runs \in 0..MaxRuns
    /\ head \in [Scope -> Head \union {NoHead}]
    /\ rows \in [Scope -> SUBSET Id]
    /\ latest \in [Job -> None..MaxTime]
    /\ lease \in Proc \union {Nobody}
    /\ pc \in [Proc -> {"idle", "fetch", "store"}]
    /\ job \in [Proc -> Job \union {"none"}]
    /\ run \in [Proc -> 0..MaxRuns]
    /\ copy \in [Proc -> Head \union {NoHead}]
    /\ items \in [Proc -> [Scope -> SUBSET Id]]

Tick == now < MaxTime /\ now' = now + 1 /\ UNCHANGED <<flag, runs, dbVars, procVars>>

\* The deployment turns the map exports on while no worker runs.
EnableMap ==
    /\ ~ flag /\ \A p \in Proc : pc[p] = "idle"
    /\ flag' = TRUE
    /\ UNCHANGED <<now, runs, dbVars, procVars>>

--------------------------------------------------------------------------------
\* A worker forgets what its session held.
Reset(p) ==
    /\ pc' = [pc EXCEPT ![p] = "idle"]
    /\ job' = [job EXCEPT ![p] = "none"]
    /\ run' = [run EXCEPT ![p] = 0]
    /\ copy' = [copy EXCEPT ![p] = NoHead]
    /\ base' = [base EXCEPT ![p] = [s \in Scope |-> 0]]
    /\ items' = [items EXCEPT ![p] = [s \in Scope |-> {}]]

\* _postgres_collection_lease gives the lock back when the job ends; a worker that dies loses it.
Released(p) == IF lease = p THEN Nobody ELSE lease

\* A job is due after DueAfter, or at once when the exports are on and a head of it is missing.
\* The port job has no such check: its schedule alone decides.
Due(j) ==
    \/ j = "port"
    \/ latest[j] = None
    \/ flag /\ \E s \in ScopesOf(j) : head[s] = NoHead
    \/ now - latest[j] >= DueAfter[j]

\* The set a drop is measured against: the head if there is one, else the stored rows.
BaseCount(s) == IF head[s] # NoHead THEN Cardinality(head[s].members) ELSE Cardinality(rows[s])

\* collect_rail_reference, collect_maritime_reference, collect: the due check, the lease of the bus
\* job, the previous count, and the committed run row.
Begin(p, j) ==
    /\ pc[p] = "idle" /\ runs < MaxRuns
    /\ Due(j)
    /\ j = "bus" => lease = Nobody
    /\ lease' = IF j = "bus" THEN p ELSE lease
    /\ runs' = runs + 1
    /\ pc' = [pc EXCEPT ![p] = "fetch"]
    /\ job' = [job EXCEPT ![p] = j]
    /\ run' = [run EXCEPT ![p] = runs + 1]
    /\ copy' = [copy EXCEPT ![p] = IF j = "rail" THEN head["rail"] ELSE NoHead]
    /\ base' = [base EXCEPT ![p] = [s \in Scope |-> IF s \in ScopesOf(j) THEN BaseCount(s) ELSE 0]]
    /\ UNCHANGED <<now, flag, head, rows, latest, items>>

Dropped(n, m) == n * DropFactor < m

\* Answers the fetch accepts for one scope.  A list that fell below the guard is fetched again: for
\* stations and ports only a recovered list passes, for bus terminals the same complete list twice
\* does, which the exports' strict paging alone can prove.
Accepted(j, m) ==
    {l \in SUBSET Id : /\ flag => l # {}
                       /\ Dropped(Cardinality(l), m) => j = "bus" /\ flag}

\* _confirmed_rail_stations, _confirmed_ports, _confirmed_terminals: one of two answers is accepted.
Fetch(p) ==
    /\ pc[p] = "fetch"
    /\ \E answer \in [ScopesOf(job[p]) -> SUBSET Id] :
           /\ \A s \in ScopesOf(job[p]) : answer[s] \in Accepted(job[p], base[p][s])
           /\ items' = [items EXCEPT ![p] =
                  [s \in Scope |-> IF s \in ScopesOf(job[p]) THEN answer[s] ELSE {}]]
    /\ pc' = [pc EXCEPT ![p] = "store"]
    /\ UNCHANGED <<now, flag, runs, dbVars, job, run, copy, base>>

\* mark_reference_failure: a conditional UPDATE of the heads of this kind.
MarkedFailure(j, r) ==
    [s \in Scope |-> IF s \in ScopesOf(j) /\ head[s] # NoHead /\ head[s].order <= r
                     THEN [head[s] EXCEPT !.error = TRUE] ELSE head[s]]

\* _fail_run, _fail: everything the run wrote is rolled back, the failure is committed.
Fail(p) ==
    /\ head' = MarkedFailure(job[p], run[p])
    /\ lease' = Released(p)
    /\ Reset(p)
    /\ UNCHANGED <<now, flag, runs, rows, latest>>

\* The provider fails, or no acceptable list comes, or the run is cancelled.
FetchFails(p) == pc[p] = "fetch" /\ Fail(p)

--------------------------------------------------------------------------------
\* Mutant: sessions of the other jobs hold a first loaded head as well.
LoadedHeadNever(p, s) == NoHead
\* The head a SELECT ... FOR UPDATE hands to the session: the row is locked, but an object the
\* session already holds keeps its attributes.
LoadedHead(p, s) == IF copy[p] # NoHead THEN copy[p] ELSE head[s]

\* Station and port lists are compared with the head once more under its lock.
DropsBelowHead(p) ==
    \E s \in ScopesOf(job[p]) :
        /\ job[p] # "bus" /\ LoadedHead(p, s) # NoHead
        /\ Dropped(Cardinality(items[p][s]), Cardinality(LoadedHead(p, s).members))

\* promote_reference: an older worker may not replace the set of a newer one.
Overtaken(p) == flag /\ \E s \in ScopesOf(job[p]) : LoadedHead(p, s).order > run[p]

\* Mutant: each bus scope is committed on its own, and the second promotion fails.
PromotedFirst(p) ==
    [s \in Scope |->
        IF flag /\ s \in ScopesOf(job[p]) \ {"intercity"}
        THEN [order |-> run[p], members |-> items[p][s], at |-> now, error |-> FALSE]
        ELSE head[s]]
\* promote_reference for every scope of the job.
Promoted(p) ==
    [s \in Scope |->
        IF flag /\ s \in ScopesOf(job[p])
        THEN [order |-> run[p], members |-> items[p][s], at |-> now, error |-> FALSE]
        ELSE head[s]]

\* Rows, heads, summary and the end of the run in one transaction.
Store(p) ==
    /\ pc[p] = "store" /\ ~ DropsBelowHead(p) /\ ~ Overtaken(p)
    /\ rows' = [s \in Scope |-> rows[s] \union items[p][s]]
    /\ head' = Promoted(p)
    /\ latest' = [latest EXCEPT ![job[p]] = now]
    /\ lease' = Released(p)
    /\ Reset(p)
    /\ UNCHANGED <<now, flag, runs>>

\* A guard refuses the list, or the database does.
StoreFails(p) == pc[p] = "store" /\ Fail(p)

\* The worker dies: its run stays running, the connection and with it the lock are gone.
Crash(p) ==
    /\ pc[p] # "idle"
    /\ lease' = Released(p)
    /\ Reset(p)
    /\ UNCHANGED <<now, flag, runs, head, rows, latest>>

\* The connection that owns the lock breaks while the collecting session goes on.
LeaseLost(p) == lease = p /\ lease' = Nobody /\ UNCHANGED <<now, flag, runs, head, rows, latest, procVars>>

Next ==
    \/ Tick \/ EnableMap
    \/ \E p \in Proc :
           \/ \E j \in Job : Begin(p, j)
           \/ Fetch(p) \/ FetchFails(p) \/ Store(p) \/ StoreFails(p) \/ Crash(p) \/ LeaseLost(p)

Spec == Init /\ [][Next]_vars

--------------------------------------------------------------------------------
\* A late worker never puts the port or a bus head back to an older run: promote_reference compares
\* attempt_order with a head loaded after the network wait.
HeadForward ==
    \A s \in Scope \ {"rail"} : head'[s].order >= head[s].order

\* "이전 수집 worker는 새 성공집합을 덮을 수 없습니다" for the railway head: the collector loads the head
\* before its network wait, and the guard sees that copy.
RailHeadForward == [][head'["rail"].order >= head["rail"].order]_vars

\* Express and intercity terminals are stored in one transaction: a reader never sees the heads of
\* two different runs, whatever fails in between.
BusHeadsTogether == head["express"].order = head["intercity"].order

================================================================================
