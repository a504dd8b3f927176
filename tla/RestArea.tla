-------------------------------- MODULE RestArea --------------------------------
(***************************************************************************)
(* Rest-area collection (rest_area_collection.py) and the live exports     *)
(* that page by row id over what it stores (service_exports.py: rest areas *)
(* and rest-area fuel prices; the fuel-station export has the same form).  *)
(*                                                                         *)
(* A run commits its start, calls the provider outside a transaction, and  *)
(* stores rows, raw response and state in one transaction.  Nothing keeps  *)
(* two runs of a source apart.  Each page of an export is one REPEATABLE   *)
(* READ transaction.                                                       *)
(***************************************************************************)
EXTENDS Integers, Sequences, FiniteSets

CONSTANTS
    Proc,       \* processes that collect
    Client,     \* clients that page through the export
    Area,       \* natural keys of the rest areas
    Limit,      \* page size
    Window,     \* CURRENT_SET_WINDOW
    StaleAfter, \* REFERENCE_STALE_AFTER of the source
    MaxTime,    \* bound: the clock
    MaxRuns     \* bound: collection runs

VARIABLES
    now,
    success,    \* last_success_at of the source, None before the first
    error,      \* last_error is set
    rows,       \* RestAreaReference: row id (0 while there is none) and last_seen_at
    nextId, runs,
    pc, items, collected,
    known,      \* what the storing transaction found: the areas that had a row when it looked
    stale,      \* last_error as this session still holds it from its start
    status,     \* how the last run of a process ended
    reading, after, got,
    due         \* history: the rows that were in the exported set all through the pass

dbVars == <<success, error, rows, nextId>>
procVars == <<pc, items, collected, known, stale, status>>
clientVars == <<reading, after, got, due>>
vars == <<now, runs, dbVars, procVars, clientVars>>

None == -1
NoRow == [id |-> 0, seen |-> 0]

\* Types of the tables, the runs and the passes.
TypeOK ==
    /\ now \in 0..MaxTime /\ success \in None..MaxTime /\ error \in BOOLEAN
    /\ rows \in [Area -> [id: 0..Cardinality(Area) * MaxRuns, seen: 0..MaxTime]]
    /\ runs \in 0..MaxRuns
    /\ pc \in [Proc -> {"idle", "fetch", "store", "publish"}]
    /\ items \in [Proc -> SUBSET Area] /\ known \in [Proc -> SUBSET Area]
    /\ status \in [Proc -> {"none", "success", "partial_success", "failed"}]
    /\ due \in [Client -> SUBSET Area]

Init ==
    /\ now = 0 /\ success = None /\ error = FALSE
    /\ rows = [a \in Area |-> NoRow] /\ nextId = 1 /\ runs = 0
    /\ pc = [p \in Proc |-> "idle"]
    /\ items = [p \in Proc |-> {}]
    /\ collected = [p \in Proc |-> 0]
    /\ known = [p \in Proc |-> {}]
    /\ stale = [p \in Proc |-> FALSE]
    /\ status = [p \in Proc |-> "none"]
    /\ reading = [c \in Client |-> FALSE]
    /\ after = [c \in Client |-> 0]
    /\ got = [c \in Client |-> <<>>]
    /\ due = [c \in Client |-> {}]

Tick == now < MaxTime /\ now' = now + 1 /\ UNCHANGED <<runs, dbVars, procVars, clientVars>>

--------------------------------------------------------------------------------
\* _current_set: the rows seen within Window of the last success.
CurrentSet == {a \in Area : rows[a].id # 0 /\ success # None /\ rows[a].seen >= success - Window}

\* A row that leaves the exported set in this step is not owed to a running pass.
StillDue == due' = [c \in Client |-> due[c] \cap CurrentSet']

\* _reference_collection, _require_current: the age of the last success decides, not last_error.
Served == success # None /\ now - success <= StaleAfter

--------------------------------------------------------------------------------
\* _run: the run row and last_started_at are committed.
Start(p) ==
    /\ pc[p] = "idle" /\ runs < MaxRuns
    /\ runs' = runs + 1
    /\ pc' = [pc EXCEPT ![p] = "fetch"]
    /\ stale' = [stale EXCEPT ![p] = error]
    /\ status' = [status EXCEPT ![p] = "none"]
    /\ UNCHANGED <<now, dbVars, items, collected, known, clientVars>>

\* The provider answers with pages (_collect_krex_pages); nameless and repeated items are dropped,
\* and the areas that have a row are looked up.
Fetch(p) ==
    /\ pc[p] = "fetch"
    /\ \E m \in SUBSET Area : items' = [items EXCEPT ![p] = m]
    /\ collected' = [collected EXCEPT ![p] = now]
    /\ known' = [known EXCEPT ![p] = {a \in Area : rows[a].id # 0}]
    /\ pc' = [pc EXCEPT ![p] = "store"]
    /\ UNCHANGED <<now, runs, dbVars, stale, status, clientVars>>

\* The transaction is rolled back, the run and the state say so.
Fail(p) ==
    /\ error' = TRUE
    /\ status' = [status EXCEPT ![p] = "failed"]
    /\ pc' = [pc EXCEPT ![p] = "idle"]
    /\ items' = [items EXCEPT ![p] = {}]
    /\ UNCHANGED <<now, runs, success, rows, nextId, collected, known, stale, clientVars>>

\* A provider error, a timeout or a cancellation before the store is committed.
FetchFails(p) == pc[p] = "fetch" /\ Fail(p)

\* Another run inserted a row this one is about to insert: the unique key rejects the flush.
Conflict(p) == \E a \in items[p] : a \notin known[p] /\ rows[a].id # 0

\* Mutant: an empty answer is stored as a success.
UnstorableConflict(p) == Conflict(p)
\* Nothing to store (EmptyRestAreaCollectionError), or a unique key violated.
Unstorable(p) == items[p] = {} \/ Conflict(p)

StoreFails(p) == pc[p] = "store" /\ Unstorable(p) /\ Fail(p)

\* _store_references, _store_fuel_prices: upsert by natural key.  New rows take the next ids.
Upsert(p) ==
    /\ \E order \in [items[p] \ known[p] -> nextId..(nextId + Cardinality(items[p] \ known[p]) - 1)] :
           /\ \A a, b \in DOMAIN order : order[a] = order[b] => a = b
           /\ rows' = [a \in Area |->
                  IF a \notin items[p] THEN rows[a]
                  ELSE [id |-> IF a \in known[p] THEN rows[a].id ELSE order[a],
                        seen |-> collected[p]]]
    /\ nextId' = nextId + Cardinality(items[p] \ known[p])

\* Rows and state are committed.  last_error is written only when the session believes it is set.
Store(p) ==
    /\ pc[p] = "store" /\ ~ Unstorable(p)
    /\ Upsert(p)
    /\ success' = collected[p]
    /\ error' = (error /\ ~ stale[p])
    /\ StillDue
    /\ pc' = [pc EXCEPT ![p] = "publish"]
    /\ UNCHANGED <<now, runs, items, collected, known, stale, status, reading, after, got>>

\* The statistics of rest-area fuel prices are published and cleaned up after the store; a failure
\* there ends the run as partial_success and leaves the state of the source alone.
Publish(p) ==
    /\ pc[p] = "publish"
    /\ \E s \in {"success", "partial_success"} : status' = [status EXCEPT ![p] = s]
    /\ pc' = [pc EXCEPT ![p] = "idle"]
    /\ items' = [items EXCEPT ![p] = {}]
    /\ UNCHANGED <<now, runs, dbVars, collected, known, stale, clientVars>>

--------------------------------------------------------------------------------
\* The first page of a pass.
Begin(c) ==
    /\ ~ reading[c] /\ Served
    /\ reading' = [reading EXCEPT ![c] = TRUE]
    /\ after' = [after EXCEPT ![c] = 0]
    /\ got' = [got EXCEPT ![c] = <<>>]
    /\ due' = [due EXCEPT ![c] = CurrentSet]
    /\ UNCHANGED <<now, runs, dbVars, procVars>>

\* The rows of the set past the cursor, by id.
Rest(c) == {a \in CurrentSet : rows[a].id > after[c]}
IsPage(c, page) ==
    /\ Len(page) = IF Cardinality(Rest(c)) < Limit THEN Cardinality(Rest(c)) ELSE Limit
    /\ \A n \in 1..Len(page) : page[n] \in Rest(c)
    /\ \A m, n \in 1..Len(page) : m < n => rows[page[m]].id < rows[page[n]].id
    /\ \A a \in Rest(c) : \A n \in 1..Len(page) :
           rows[a].id < rows[page[n]].id => \E m \in 1..(n - 1) : page[m] = a
Pages == UNION {[1..n -> Area] : n \in 0..Limit}

\* Mutant: the cursor counts rows, so a row that leaves the set shifts the next page.
PageByOffset(c) ==
    /\ reading[c] /\ Served
    /\ \E page \in Pages :
           LET all == [id \in {rows[a].id : a \in CurrentSet} |-> CHOOSE a \in CurrentSet : rows[a].id = id]
               rank(a) == Cardinality({i \in DOMAIN all : i <= rows[a].id})
               more == Cardinality(CurrentSet) > after[c] + Limit
           IN  /\ {page[n] : n \in DOMAIN page} = {a \in CurrentSet : rank(a) > after[c] /\ rank(a) <= after[c] + Limit}
               /\ got' = [got EXCEPT ![c] = @ \o page]
               /\ after' = [after EXCEPT ![c] = IF more THEN @ + Limit ELSE 0]
               /\ reading' = [reading EXCEPT ![c] = more]
    /\ UNCHANGED <<now, runs, dbVars, procVars, due>>
\* One page; next_cursor is the id of its last row while there are more.
Page(c) ==
    /\ reading[c] /\ Served
    /\ \E page \in Pages :
           /\ IsPage(c, page)
           /\ got' = [got EXCEPT ![c] = @ \o page]
           /\ LET more == Cardinality(Rest(c)) > Limit
              IN  /\ after' = [after EXCEPT ![c] = IF more THEN rows[page[Limit]].id ELSE 0]
                  /\ reading' = [reading EXCEPT ![c] = more]
    /\ UNCHANGED <<now, runs, dbVars, procVars, due>>

\* 503: the last success is too old; the client gives the pass up.
Refused(c) ==
    /\ reading[c] /\ ~ Served
    /\ reading' = [reading EXCEPT ![c] = FALSE]
    /\ after' = [after EXCEPT ![c] = 0]
    /\ got' = [got EXCEPT ![c] = <<>>]
    /\ due' = [due EXCEPT ![c] = {}]
    /\ UNCHANGED <<now, runs, dbVars, procVars>>

Next ==
    \/ Tick
    \/ \E p \in Proc : Start(p) \/ Fetch(p) \/ FetchFails(p) \/ StoreFails(p) \/ Store(p) \/ Publish(p)
    \/ \E c \in Client : Begin(c) \/ Page(c) \/ Refused(c)

Spec == Init /\ [][Next]_vars

--------------------------------------------------------------------------------
\* An export that answers 200 never says that there is nothing: the consumer would read it as the
\* deletion of every rest area (EmptyRestAreaCollectionError), overlapping runs included.
ServedNotEmpty == Served => CurrentSet # {}

\* A client that reads to the last page has every row that stayed in the set during its pass, and
\* none twice, whatever runs stored between the pages.
PassComplete ==
    \A c \in Client : ~ reading[c] =>
        /\ due[c] \subseteq {got[c][n] : n \in DOMAIN got[c]}
        /\ \A m, n \in DOMAIN got[c] : got[c][m] = got[c][n] => m = n
================================================================================
