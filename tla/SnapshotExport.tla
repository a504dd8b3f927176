----------------------------- MODULE SnapshotExport -----------------------------
(***************************************************************************)
(* The frozen exports under /service/exports (export_current.py,           *)
(* export_references.py): a first page freezes the current set of a kind   *)
(* into service_export_snapshots, later pages follow a signed cursor into  *)
(* it.  A request is one REPEATABLE READ transaction; collectors promote   *)
(* new heads, the administrator edits locations and other requests freeze  *)
(* and delete snapshots between its statements.                            *)
(***************************************************************************)
EXTENDS Integers, Sequences, FiniteSets

CONSTANTS
    Reader,         \* clients, each paging through one export at a time
    Kind,           \* the exports; "traffic" hashes the head only, the others the content too
    RowsOf,         \* RowsOf[k]: its rows <<scope, id>> in export order
    Limit,          \* page size
    TTL,            \* SNAPSHOT_TTL
    MaxTime,        \* bound: the clock
    MaxPromotions,  \* bound: head promotions
    MaxEdits        \* bound: manual edits of a row

VARIABLES
    now,
    heads,      \* the success set of each scope: generation and members
    rows,       \* the current rows: generation that stamped them, value
    snapshots,  \* committed service_export_snapshots with their items
    promotions, edits,
    published,  \* history: every content of a kind that was committed
    pc,
    kind,       \* the export each client reads
    view, pending, victims, attempt,
    cursor,     \* what the client holds: a snapshot and the ordinal it has read up to
    got,        \* rows received since the first page of the pass
    started,    \* when the first page of the pass was frozen
    result

dbVars == <<heads, rows, snapshots, promotions, edits, published>>
txVars == <<pc, kind, view, pending, victims, attempt>>
clientVars == <<cursor, got, started, result>>
vars == <<now, dbVars, txVars, clientVars>>

Row(k) == {RowsOf[k][n] : n \in DOMAIN RowsOf[k]}
AllRows == UNION {Row(k) : k \in Kind}
ScopesOf(k) == {i[1] : i \in Row(k)}
Scope == UNION {ScopesOf(k) : k \in Kind}
InScope(s) == {i \in AllRows : i[1] = s}

NoHead == [generation |-> 0, members |-> {}]
NoCursor == [snapshot |-> <<>>, after |-> 0]
NoView == [heads |-> <<>>, rows |-> <<>>, snapshots |-> {}]
Nothing == {}

\* Types; a reader outside a transaction holds no view, no row and no lock.
TypeOK ==
    /\ now \in 0..MaxTime
    /\ \A s \in Scope : heads[s].members \subseteq InScope(s)
    /\ \A r \in Reader :
           /\ pc[r] \in {"idle", "open", "frozen"}
           /\ pc[r] = "idle" => pending[r] = Nothing /\ victims[r] = {} /\ view[r] = NoView
           /\ attempt[r] \in {0, 1}
           /\ result[r] \in {"none", "page", "done", "gone", "busy", "failed"}

\* Nothing frozen yet.
Init ==
    /\ now = 0
    /\ heads = [s \in Scope |-> NoHead]
    /\ rows = [i \in AllRows |-> [generation |-> 0, value |-> 0]]
    /\ snapshots = {}
    /\ promotions = 0 /\ edits = 0
    /\ published = {}
    /\ pc = [r \in Reader |-> "idle"]
    /\ kind \in [Reader -> Kind]
    /\ view = [r \in Reader |-> NoView]
    /\ pending = [r \in Reader |-> Nothing]
    /\ victims = [r \in Reader |-> {}]
    /\ attempt = [r \in Reader |-> 0]
    /\ cursor = [r \in Reader |-> NoCursor]
    /\ got = [r \in Reader |-> <<>>]
    /\ started = [r \in Reader |-> 0]
    /\ result = [r \in Reader |-> "none"]

Tick == now < MaxTime /\ now' = now + 1 /\ UNCHANGED <<dbVars, txVars, clientVars>>

--------------------------------------------------------------------------------
\* _cache_epoch and snapshot_expires_at: the end of the epoch that made the snapshot, plus TTL.
Epoch(t) == t \div TTL
\* Mutant: the life of a snapshot counts from its creation.
ExpiresAtCreation(t) == t + TTL
ExpiresAt(t) == (Epoch(t) + 1) * TTL + TTL

\* _valid_heads: every scope of the export has a complete, nonempty success set; the traffic export
\* serves a confirmed empty one too.
ValidHeads(k, h) == \A s \in ScopesOf(k) : h[s] # NoHead /\ (k = "traffic" \/ h[s].members # {})

\* The payload batches in order; the rows of a head carry its stamp.
Payload(k, h, v) ==
    LET members == SelectSeq(RowsOf[k], LAMBDA i : i \in h[i[1]].members)
    IN  [n \in DOMAIN members |-> <<members[n], v[members[n]].value>>]
Stamped(k, h, v) ==
    \A i \in Row(k) : i \in h[i[1]].members => v[i].generation = h[i[1]].generation

\* Mutant: a reference snapshot is cached by its heads alone and without an epoch.
GenerationNoEpoch(k, h, v, t) ==
    [epoch |-> 0, heads |-> [s \in ScopesOf(k) |-> h[s].generation], content |-> <<>>]
\* cache_generation: the traffic export names the head, a reference export its content too.
Generation(k, h, v, t) ==
    [epoch |-> Epoch(t), heads |-> [s \in ScopesOf(k) |-> h[s].generation],
     content |-> IF k = "traffic" THEN <<>> ELSE Payload(k, h, v)]

--------------------------------------------------------------------------------
\* A collector commits a head and its rows in one transaction (update_traffic_current,
\* promote_reference); rows that left the set keep their old stamp.  Traffic alone may be empty.
Promote ==
    /\ promotions < MaxPromotions
    /\ promotions' = promotions + 1
    /\ \E r \in Reader : \E s \in ScopesOf(kind[r]) : \E m \in SUBSET InScope(s) :
           /\ kind[r] = "traffic" \/ m # {}
           /\ heads' = [heads EXCEPT ![s] = [generation |-> promotions', members |-> m]]
           /\ rows' = [i \in AllRows |-> IF i \in m
                         THEN [generation |-> promotions', value |-> rows[i].value + 1]
                         ELSE rows[i]]
    /\ published' = published \cup {Payload(k, heads', rows') : k \in Kind}
    /\ UNCHANGED <<now, snapshots, edits, txVars, clientVars>>

\* save_manual_place_location: a row of a reference export changes, its head does not.
ManualEdit ==
    /\ edits < MaxEdits
    /\ edits' = edits + 1
    /\ \E i \in UNION {Row(kind[r]) : r \in {q \in Reader : kind[q] # "traffic"}} :
           rows' = [rows EXCEPT ![i].value = @ + 1]
    /\ published' = published \cup {Payload(k, heads, rows') : k \in Kind}
    /\ UNCHANGED <<now, heads, snapshots, promotions, txVars, clientVars>>

--------------------------------------------------------------------------------
\* _snapshot_transaction: the first statement fixes what the request sees.
Snapshot(r) == view' = [view EXCEPT ![r] = [heads |-> heads, rows |-> rows, snapshots |-> snapshots]]

\* The request ends: its view and its locks go, its own rows were committed or rolled back.
Close(r) ==
    /\ pc' = [pc EXCEPT ![r] = "idle"]
    /\ view' = [view EXCEPT ![r] = NoView]
    /\ pending' = [pending EXCEPT ![r] = Nothing]
    /\ victims' = [victims EXCEPT ![r] = {}]
    /\ attempt' = [attempt EXCEPT ![r] = 0]

\* An error ends the pass of this client.
Abandon(r, status) ==
    /\ Close(r)
    /\ result' = [result EXCEPT ![r] = status]
    /\ cursor' = [cursor EXCEPT ![r] = NoCursor]
    /\ got' = [got EXCEPT ![r] = <<>>]
    /\ started' = [started EXCEPT ![r] = 0]
    /\ UNCHANGED <<now, dbVars, kind>>

\* A first page: the client starts a new pass.
FirstPage(r) ==
    /\ pc[r] = "idle"
    /\ Snapshot(r)
    /\ pc' = [pc EXCEPT ![r] = "open"]
    /\ cursor' = [cursor EXCEPT ![r] = NoCursor]
    /\ got' = [got EXCEPT ![r] = <<>>]
    /\ result' = [result EXCEPT ![r] = "none"]
    /\ UNCHANGED <<now, dbVars, kind, pending, victims, attempt, started>>

\* The next page of a pass: the cursor is the one of the last answer (kind, scope and limit agree).
NextPage(r) ==
    /\ pc[r] = "idle" /\ cursor[r] # NoCursor
    /\ Snapshot(r)
    /\ pc' = [pc EXCEPT ![r] = "open"]
    /\ UNCHANGED <<now, dbVars, kind, pending, victims, attempt, clientVars>>

\* A frozen snapshot of this generation that the request may hand out again.
Cached(r) ==
    {s \in view[r].snapshots :
        /\ s.kind = kind[r]
        /\ s.generation = Generation(kind[r], view[r].heads, view[r].rows, now)
        /\ s.expires > now}

\* Mutant: the cleanup does not look at the expiry.
ExpiredAny(r) ==
    {s \in view[r].snapshots : \A q \in Reader : s \notin victims[q]}
\* expire_snapshots: the expired snapshots no other transaction is deleting (SKIP LOCKED); the
\* oldest goes.
Expired(r) ==
    {s \in view[r].snapshots : s.expires <= now /\ \A q \in Reader : s \notin victims[q]}
Oldest(set) == IF set = {} THEN {} ELSE {CHOOSE s \in set : \A t \in set : s.expires <= t.expires}

New(r) ==
    [kind |-> kind[r],
     generation |-> Generation(kind[r], view[r].heads, view[r].rows, now),
     items |-> Payload(kind[r], view[r].heads, view[r].rows),
     expires |-> ExpiresAt(now)]
SameKey(s, t) == s.kind = t.kind /\ s.generation = t.generation

\* The set is already frozen: a first page hands the cached snapshot out again.
Reuse(r) ==
    /\ pc[r] = "open" /\ cursor[r] = NoCursor /\ ValidHeads(kind[r], view[r].heads)
    /\ \E s \in Cached(r) : cursor' = [cursor EXCEPT ![r] = [snapshot |-> s, after |-> 0]]
    /\ started' = [started EXCEPT ![r] = now]
    /\ pc' = [pc EXCEPT ![r] = "frozen"]
    /\ UNCHANGED <<now, dbVars, kind, view, pending, victims, attempt, got, result>>

\* INSERT ... ON CONFLICT DO NOTHING waits for a transaction that inserts the same key.
Blocked(r) == \E q \in Reader \ {r} : \E s \in pending[q] : SameKey(s, New(r))
\* A conflict this view does not show, or a victim that another request deleted since (40001).
Races(r) ==
    \/ \E s \in snapshots : SameKey(s, New(r))
    \/ ~ Oldest(Expired(r)) \subseteq snapshots

\* _freeze_traffic, _freeze_reference: delete a victim, insert the snapshot and its items.
Freeze(r) ==
    /\ pc[r] = "open" /\ cursor[r] = NoCursor /\ ValidHeads(kind[r], view[r].heads)
    /\ Cached(r) = {} /\ ~ Blocked(r) /\ ~ Races(r)
    /\ Stamped(kind[r], view[r].heads, view[r].rows)
    /\ victims' = [victims EXCEPT ![r] = Oldest(Expired(r))]
    /\ pending' = [pending EXCEPT ![r] = {New(r)}]
    /\ cursor' = [cursor EXCEPT ![r] = [snapshot |-> New(r), after |-> 0]]
    /\ started' = [started EXCEPT ![r] = now]
    /\ pc' = [pc EXCEPT ![r] = "frozen"]
    /\ UNCHANGED <<now, dbVars, kind, view, attempt, got, result>>

\* SnapshotRace or 40001: rolled back and read again once, with a view of its own; then 503.
Race(r) ==
    /\ pc[r] = "open" /\ cursor[r] = NoCursor /\ ValidHeads(kind[r], view[r].heads)
    /\ Cached(r) = {} /\ ~ Blocked(r) /\ Races(r)
    /\ \/ /\ attempt[r] = 0
          /\ attempt' = [attempt EXCEPT ![r] = 1]
          /\ Snapshot(r)
          /\ UNCHANGED <<now, dbVars, pc, kind, pending, victims, clientVars>>
       \/ attempt[r] = 1 /\ Abandon(r, "busy")

\* lock_timeout while another request inserts the same snapshot (55P03): 503.
LockTimeout(r) ==
    /\ pc[r] = "open" /\ cursor[r] = NoCursor /\ Cached(r) = {} /\ Blocked(r)
    /\ Abandon(r, "busy")

\* 503: no complete success set, a row without the stamp of its head, or the limit of 15 seconds,
\* of items or of bytes is passed before the snapshot is complete.
FreezeFails(r) ==
    /\ pc[r] \in {"open", "frozen"} /\ got[r] = <<>>
    /\ Abandon(r, "failed")

\* The ordinal of the last row that fits on the page after a cursor.
LastOn(c) ==
    IF c.after + Limit < Len(c.snapshot.items) THEN c.after + Limit ELSE Len(c.snapshot.items)

\* Mutant: a page starts with the last row of the page before it.
PageOverlaps(r) ==
    LET c == cursor[r]
    IN  SubSeq(c.snapshot.items, IF c.after = 0 THEN 1 ELSE c.after, LastOn(c))
\* The rows after the cursor, at most one page.
Page(r) == SubSeq(cursor[r].snapshot.items, cursor[r].after + 1, LastOn(cursor[r]))

\* What the client has once it has this page too.
Received(r) == got[r] \o Page(r)

\* read_page ends: the page is read, the transaction commits, and the client has a page and, when
\* there is more, a cursor to the next.
Answer(r) ==
    LET last == cursor[r].after + Limit >= Len(cursor[r].snapshot.items)
    IN  /\ Close(r)
        /\ snapshots' = (snapshots \ victims[r]) \cup pending[r]
        /\ got' = [got EXCEPT ![r] = IF last THEN <<>> ELSE Received(r)]
        /\ started' = [started EXCEPT ![r] = IF last THEN 0 ELSE @]
        /\ cursor' = [cursor EXCEPT ![r] =
                        IF last THEN NoCursor ELSE [cursor[r] EXCEPT !.after = @ + Limit]]
        /\ result' = [result EXCEPT ![r] = IF last THEN "done" ELSE "page"]
        /\ UNCHANGED <<now, heads, rows, promotions, edits, published, kind>>

AnswerFirst(r) == pc[r] = "frozen" /\ Answer(r)

\* A cursor's snapshot is looked up in the view and its expiry compared with the clock.
Usable(r) == cursor[r].snapshot \in view[r].snapshots /\ cursor[r].snapshot.expires > now

AnswerNext(r) == pc[r] = "open" /\ cursor[r] # NoCursor /\ Usable(r) /\ Answer(r)

\* 410: the client starts again with a first page.
Gone(r) ==
    /\ pc[r] = "open" /\ cursor[r] # NoCursor /\ ~ Usable(r)
    /\ Abandon(r, "gone")

Request(r) ==
    \/ FirstPage(r) \/ NextPage(r) \/ Reuse(r) \/ Freeze(r) \/ Race(r) \/ LockTimeout(r)
    \/ FreezeFails(r) \/ AnswerFirst(r) \/ AnswerNext(r) \/ Gone(r)

Next == Tick \/ Promote \/ ManualEdit \/ \E r \in Reader : Request(r)

Spec == Init /\ [][Next]_vars

--------------------------------------------------------------------------------
\* A client that pages to the end has received, once and in order, exactly one content of the
\* export that was committed at some moment, however often the set was promoted or edited and
\* snapshots were frozen and deleted between its pages.
PassIsOneSet ==
    \A r \in Reader : result[r] # "done" /\ result'[r] = "done" => Received(r) \in published

\* A client whose first page was frozen less than TTL ago is never told 410: a snapshot handed out
\* again at the end of its epoch still lives that long (snapshot_expires_at), and the cleanup of
\* other requests does not take it.
NotGoneEarly == \A r \in Reader : result[r] # "gone" /\ result'[r] = "gone" => now >= started[r] + TTL
================================================================================
