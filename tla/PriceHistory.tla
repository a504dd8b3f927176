------------------------------ MODULE PriceHistory ------------------------------
(***************************************************************************)
(* The paged price history of one fuel station: read_price_history_page    *)
(* and the conditional answer of _response, used by the service export and *)
(* by the public route.  No page is stored: a cursor carries the window,   *)
(* the revision of the collection state, the time of the first page and    *)
(* the last row delivered.  One client keeps the first page it got, asks   *)
(* again with its ETag and then follows the cursors.                       *)
(***************************************************************************)
EXTENDS Integers, Sequences, FiniteSets

CONSTANTS
    Ttl,        \* CURSOR_TTL
    Window,     \* length of the default window
    StaleAfter, \* FUEL_STALE_AFTER
    Limit,      \* rows a page
    MaxRows,    \* bound: stored observations
    MaxUpdates, \* bound: collections
    MaxTime     \* bound: the clock

VARIABLES
    now,
    rows,   \* FuelPriceSnapshot rows of the station
    state,  \* last_success_at, last_error, updated_at (as a counter)
    held,   \* the first page the client keeps, with its ETag: none or one
    cursor, \* next_cursor of the running pass: none or one
    got, want,
    answer

vars == <<now, rows, state, held, cursor, got, want, answer>>

None == "none"
Row == [id: 1..MaxRows, at: 0..MaxTime]
State == [ok: 0..MaxTime, err: BOOLEAN, upd: 0..MaxUpdates]

Init ==
    /\ now = 0 /\ rows = {} /\ held = {} /\ cursor = {}
    /\ got = <<>> /\ want = {} /\ answer = None
    /\ state = [ok |-> 0, err |-> FALSE, upd |-> 0]

\* Types of rows, state and answers.
TypeOK ==
    /\ now \in 0..MaxTime /\ rows \subseteq Row /\ state \in State
    /\ answer \in {None, "page", "304", "409"} /\ want \subseteq Row

Tick == now < MaxTime /\ now' = now + 1 /\ answer' = None /\ UNCHANGED <<rows, state, held, cursor, got, want>>

\* A fuel collection stores the observations it made and the collection state in one transaction.
Collect ==
    /\ state.upd < MaxUpdates
    /\ \E n \in 0..2, err \in BOOLEAN :
           /\ Cardinality(rows) + n <= MaxRows
           /\ rows' = rows \union {[id |-> Cardinality(rows) + i, at |-> now] : i \in 1..n}
           /\ state' = [ok |-> IF err THEN state.ok ELSE now, err |-> err, upd |-> state.upd + 1]
    /\ answer' = None
    /\ UNCHANGED <<now, held, cursor, got, want>>

--------------------------------------------------------------------------------
\* ORDER BY observed_at DESC, id DESC.
Newer(r, q) == r.at > q.at \/ (r.at = q.at /\ r.id > q.id)
PlaceIn(r, set) == Cardinality({q \in set : Newer(q, r)}) + 1
Listed(set) == [n \in 1..Cardinality(set) |-> CHOOSE r \in set : PlaceIn(r, set) = n]
InWindow(from, to) == {r \in rows : from <= r.at /\ r.at <= to}

\* Mutant: the cursor carries the time only.
AfterTime(r, c) == r.at < c.at
\* The rows after the last one delivered.
After(r, c) == r.at < c.at \/ (r.at = c.at /\ r.id < c.id)

Cursor(page, from, to, issued) ==
    [from |-> from, to |-> to, rev |-> state, issued |-> issued,
     at |-> page[Len(page)].at, id |-> page[Len(page)].id]

\* LIMIT + 1 tells whether there is more; next_cursor only then.
Paged(set, from, to, issued) ==
    LET all == Listed(set)
        page == SubSeq(all, 1, IF Len(all) < Limit THEN Len(all) ELSE Limit)
    IN  [items |-> page, next |-> IF Len(all) > Limit THEN {Cursor(page, from, to, issued)} ELSE {}]

SourceStatus == IF state.err \/ now - state.ok > StaleAfter THEN "stale" ELSE "ok"

\* Mutant: the time of issue is not in the ETag.
TagNoEpoch(p, issued) == <<p.items, SourceStatus, IF p.next = {} THEN {} ELSE {state}>>
\* The ETag leaves the cursor itself out, and puts the TTL bucket and the revision in.
Tag(p, issued) == <<p.items, SourceStatus, IF p.next = {} THEN {} ELSE {<<issued \div Ttl, state>>}>>

\* 409 after a new revision or after the life of the pass.
Accepted(c) == c.rev = state /\ now - c.issued <= Ttl

\* The first page, with If-None-Match when the client keeps one.  On a 304 it goes on with that one.
FirstPage ==
    LET p == Paged(InWindow(now - Window, now), now - Window, now, now)
        tag == Tag(p, now)
        same == {h \in held : h.tag = tag}
        use == IF same = {} THEN [tag |-> tag, page |-> p, all |-> InWindow(now - Window, now)]
               ELSE CHOOSE h \in same : TRUE
    IN  /\ held' = {use}
        /\ answer' = IF same = {} THEN "page" ELSE "304"
        /\ got' = use.page.items /\ want' = use.all /\ cursor' = use.page.next
        /\ UNCHANGED <<now, rows, state>>

\* A following page; a refused cursor ends the pass.
NextPage ==
    /\ \E c \in cursor :
           IF Accepted(c)
           THEN LET p == Paged({r \in InWindow(c.from, c.to) : After(r, c)}, c.from, c.to, c.issued)
                IN  got' = got \o p.items /\ cursor' = p.next /\ answer' = "page" /\ UNCHANGED want
           ELSE got' = <<>> /\ want' = {} /\ cursor' = {} /\ answer' = "409"
    /\ UNCHANGED <<now, rows, state, held>>

Next == Tick \/ Collect \/ FirstPage \/ NextPage
Spec == Init /\ [][Next]_vars

--------------------------------------------------------------------------------
\* A pass that was not refused delivers every row its window had at the first page, once and in
\* order, however many collections ran in between.
PassExact == cursor = {} => got = Listed(want)

\* A client told 304 can still use what it kept: its cursor is not refused at that moment.
NotModifiedUsable ==
    answer' = "304" => \A h \in held : \A c \in h.page.next : Accepted(c)

================================================================================
