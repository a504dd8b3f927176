-------------------------- MODULE ParkingHistoryCache --------------------------
(***************************************************************************)
(* The read cache of the parking history                                   *)
(* (services/parking_history_cache.py and the history route of main.py).   *)
(*                                                                         *)
(* One task polls a fingerprint of parking_snapshots: the largest id and   *)
(* the tuple counters of pg_stat_user_tables, which PostgreSQL reports     *)
(* some time after the commit.  When it differs from the last one the task *)
(* loads the whole history, prepares the common answer and publishes both, *)
(* unless the fingerprint has changed meanwhile.  Requests take one of the *)
(* delivery slots, use the snapshot if it was checked recently, render in  *)
(* a thread and keep the rendered body for later requests.  Every await of *)
(* the task or of a request lets the others run.                           *)
(***************************************************************************)
EXTENDS Integers, Sequences, FiniteSets

CONSTANTS
    Request,      \* history requests
    Key,          \* start row, filters and encoding of an answer
    FullKey,      \* the whole history, prepared before it is published
    Slots,        \* size of delivery_semaphore (2)
    MaxPrepared,  \* MAX_PREPARED_RESPONSES
    MaxUnchecked, \* MAX_UNCHECKED_SECONDS
    MaxTime,      \* bound: the clock
    MaxInserts,   \* bound: rows inserted into parking_snapshots
    MaxUpdates,   \* bound: rows updated, deleted, or committed below the largest id
    MaxFaults     \* bound: refreshes that end in an exception

ASSUME CacheBounds ==
    /\ Slots \in Nat \ {0} /\ MaxPrepared \in Nat \ {0} /\ MaxUnchecked \in Nat
    /\ MaxTime \in Nat /\ MaxInserts \in Nat /\ MaxUpdates \in Nat /\ MaxFaults \in Nat
    /\ FullKey \in Key

VARIABLES
    now,
    source,     \* committed inserts of parking_snapshots, and changes the largest id does not show
    counters,   \* the same as far as pg_stat_user_tables has them
    past,       \* past[t]: what a fingerprint showed when the clock reached t
    \* ---- the refresh task
    rpc,
    seen,       \* fingerprint read at the start of refresh_once
    draft,      \* content of the snapshot being loaded
    faults,
    \* ---- the cache object
    snapshot,   \* content of self.snapshot; gen is the object's identity (0: None)
    lastSeen,   \* last_fingerprint
    validated,  \* validated_at
    prepared,   \* prepared_responses, oldest first
    \* ---- requests
    free,       \* free delivery slots
    pc, want,
    plain,      \* requests that accept no encoding
    chosen,     \* identity of the snapshot the answer is made of (0: read from the database)
    body        \* identity of the snapshot the body was rendered from

tableVars   == <<source, counters, past>>
taskVars    == <<rpc, seen, draft, faults>>
cacheVars   == <<snapshot, lastSeen, validated, prepared>>
requestVars == <<free, pc, want, plain, chosen, body>>
vars == <<now, tableVars, taskVars, cacheVars, requestVars>>

Time == 0..MaxTime
Content == [ins : 0..MaxInserts, upd : 0..MaxUpdates]
Marks == [id : 0..MaxInserts, ins : 0..MaxInserts, upd : 0..MaxUpdates]
Empty == [ins |-> 0, upd |-> 0]

\* source_fingerprint: ids show at once, counters when they are reported.
Fingerprint == [id |-> source.ins, ins |-> counters.ins, upd |-> counters.upd]

\* The content holds every change the fingerprint has counted.
Covers(content, mark) == content.ins >= mark.id /\ content.upd >= mark.upd

\* The table, the task, the cache and the requests have their types; no more answers are
\* kept than MAX_PREPARED_RESPONSES.
TypeOK ==
    /\ now \in Time
    /\ source \in Content /\ counters \in Content
    /\ past \in [Time -> Marks]
    /\ rpc \in {"sleep", "loadMax", "loadRows", "recheck"}
    /\ seen \in Marks /\ draft \in Content /\ faults \in 0..MaxFaults
    /\ snapshot \in [gen : Nat, ins : 0..MaxInserts, upd : 0..MaxUpdates]
    /\ lastSeen \in Marks /\ validated \in Time
    /\ prepared \in Seq([key : Key, gen : Nat]) /\ Len(prepared) <= MaxPrepared
    /\ free \in 0..Slots
    /\ pc \in [Request -> {"out", "wait", "render", "drain", "send"}]
    /\ want \in [Request -> Key]
    /\ plain \subseteq Request
    /\ chosen \in [Request -> Nat] /\ body \in [Request -> Nat]

Init ==
    /\ now = 0
    /\ source = Empty /\ counters = Empty
    /\ past = [t \in Time |-> Fingerprint]
    /\ rpc = "sleep" /\ seen = Fingerprint /\ draft = Empty /\ faults = 0
    /\ snapshot = [gen |-> 0, ins |-> 0, upd |-> 0]
    /\ lastSeen = Fingerprint /\ validated = 0
    /\ prepared = <<>>
    /\ free = Slots
    /\ pc = [r \in Request |-> "out"]
    /\ want = [r \in Request |-> FullKey]
    /\ plain = {}
    /\ chosen = [r \in Request |-> 0]
    /\ body = [r \in Request |-> 0]

--------------------------------------------------------------------------------
(* Time, the table and PostgreSQL's statistics.                            *)

Tick ==
    /\ now < MaxTime
    /\ now' = now + 1
    /\ past' = [past EXCEPT ![now'] = Fingerprint]
    /\ UNCHANGED <<source, counters, taskVars, cacheVars, requestVars>>

Change ==
    /\ \/ source.ins < MaxInserts /\ source' = [source EXCEPT !.ins = @ + 1]
       \/ source.upd < MaxUpdates /\ source' = [source EXCEPT !.upd = @ + 1]
    /\ UNCHANGED <<now, counters, past, taskVars, cacheVars, requestVars>>

Report ==
    /\ counters # source
    /\ counters' = source
    /\ UNCHANGED <<now, source, past, taskVars, cacheVars, requestVars>>

--------------------------------------------------------------------------------
(* refresh_once.                                                           *)

\* refresh_once returns: its local variables are gone.
Sleep ==
    /\ rpc' = "sleep"
    /\ seen' = [id |-> 0, ins |-> 0, upd |-> 0]
    /\ draft' = Empty

\* The first fingerprint: unchanged since the last refresh, or the history is loaded.
Poll ==
    /\ rpc = "sleep"
    /\ IF snapshot.gen = 0 \/ lastSeen # Fingerprint
       THEN rpc' = "loadMax" /\ seen' = Fingerprint /\ UNCHANGED validated
       ELSE validated' = now /\ UNCHANGED <<rpc, seen>>
    /\ UNCHANGED <<now, tableVars, draft, faults, snapshot, lastSeen, prepared, requestVars>>

\* load_snapshot reads the largest id, then the rows up to it.
LoadMax ==
    /\ rpc = "loadMax"
    /\ draft' = [draft EXCEPT !.ins = source.ins]
    /\ rpc' = "loadRows"
    /\ UNCHANGED <<now, tableVars, seen, faults, cacheVars, requestVars>>

LoadRows ==
    /\ rpc = "loadRows"
    /\ draft' = [draft EXCEPT !.upd = source.upd]
    /\ rpc' = "recheck"
    /\ UNCHANGED <<now, tableVars, seen, faults, cacheVars, requestVars>>

\* Mutant: the snapshot is published whatever happened while it was prepared.
SourceSettledAlways == TRUE

\* The fingerprint is still the one the refresh began with.
SourceSettled == Fingerprint = seen

\* Mutant: the fingerprint is remembered although the snapshot is not published.
RecheckRemembers ==
    /\ rpc = "recheck"
    /\ lastSeen' = Fingerprint
    /\ IF SourceSettled
       THEN /\ snapshot' = [gen |-> snapshot.gen + 1, ins |-> draft.ins, upd |-> draft.upd]
            /\ prepared' = <<[key |-> FullKey, gen |-> snapshot.gen + 1]>>
            /\ validated' = now
       ELSE UNCHANGED <<snapshot, validated, prepared>>
    /\ Sleep
    /\ UNCHANGED <<now, tableVars, faults, requestVars>>

\* The second fingerprint, after rendering and compressing: publish, or try again later.
Recheck ==
    /\ rpc = "recheck"
    /\ IF SourceSettled
       THEN /\ snapshot' = [gen |-> snapshot.gen + 1, ins |-> draft.ins, upd |-> draft.upd]
            /\ prepared' = <<[key |-> FullKey, gen |-> snapshot.gen + 1]>>
            /\ lastSeen' = seen /\ validated' = now
       ELSE UNCHANGED cacheVars
    /\ Sleep
    /\ UNCHANGED <<now, tableVars, faults, requestVars>>

\* A database or memory error ends this refresh; run() sleeps and polls again.
RefreshFails ==
    /\ rpc # "sleep" /\ faults < MaxFaults
    /\ faults' = faults + 1
    /\ Sleep
    /\ UNCHANGED <<now, tableVars, cacheVars, requestVars>>

--------------------------------------------------------------------------------
(* The history route.                                                      *)

Arrive(r) ==
    /\ pc[r] = "out"
    /\ \/ plain' = plain \cup {r} /\ UNCHANGED want
       \/ \E k \in Key : want' = [want EXCEPT ![r] = k] /\ UNCHANGED plain
    /\ pc' = [pc EXCEPT ![r] = "wait"]
    /\ UNCHANGED <<now, tableVars, taskVars, cacheVars, free, chosen, body>>

\* usable_snapshot, if the request does not go back further than the snapshot
Usable == snapshot.gen # 0 /\ now - validated <= MaxUnchecked

\* Where an answer is kept in the OrderedDict, and the dictionary without it.
Entry(k) == {i \in 1..Len(prepared) : prepared[i].key = k}
Others(k) ==
    IF Entry(k) = {} THEN prepared
    ELSE LET i == CHOOSE i \in Entry(k) : TRUE
         IN SubSeq(prepared, 1, i - 1) \o SubSeq(prepared, i + 1, Len(prepared))

\* What was asked for is not needed once the body exists or nobody waits for it.
Forget(r) ==
    /\ want' = [want EXCEPT ![r] = FullKey]
    /\ plain' = plain \ {r}

\* A slot is free: choose between snapshot and database; a prepared body needs no thread.
Acquire(r) ==
    /\ pc[r] = "wait"
    /\ free > 0
    /\ free' = free - 1
    /\ \E gen \in {0} \cup (IF Usable THEN {snapshot.gen} ELSE {}) :
          /\ chosen' = [chosen EXCEPT ![r] = gen]
          /\ IF gen # 0 /\ r \notin plain /\ Entry(want[r]) # {}
             THEN /\ \E i \in Entry(want[r]) :
                        /\ body' = [body EXCEPT ![r] = prepared[i].gen]
                        /\ prepared' = Append(Others(want[r]), prepared[i])
                  /\ pc' = [pc EXCEPT ![r] = "send"]
                  /\ Forget(r)
             ELSE /\ pc' = [pc EXCEPT ![r] = "render"]
                  /\ UNCHANGED <<body, prepared, want, plain>>
    /\ UNCHANGED <<now, tableVars, taskVars, snapshot, lastSeen, validated>>

\* Prepared answers beyond the limit are dropped, oldest first.
Bounded(s) == IF Len(s) > MaxPrepared THEN Tail(s) ELSE s

\* Mutant: the rendered body is kept without looking at the snapshot again.
KeepsStale(r) == r \notin plain /\ chosen[r] # 0

\* snapshot is self.snapshot, once more after the thread has finished
Keeps(r) == r \notin plain /\ chosen[r] # 0 /\ chosen[r] = snapshot.gen

Render(r) ==
    /\ pc[r] = "render"
    /\ body' = [body EXCEPT ![r] = chosen[r]]
    /\ prepared' = IF Keeps(r)
                   THEN Bounded(Append(Others(want[r]), [key |-> want[r], gen |-> chosen[r]]))
                   ELSE prepared
    /\ pc' = [pc EXCEPT ![r] = "send"]
    /\ Forget(r)
    /\ UNCHANGED <<now, tableVars, taskVars, snapshot, lastSeen, validated, free, chosen>>

\* The slot and the request's variables are given back.
Leave(r) ==
    /\ pc' = [pc EXCEPT ![r] = "out"]
    /\ free' = free + 1
    /\ Forget(r)
    /\ chosen' = [chosen EXCEPT ![r] = 0]
    /\ body' = [body EXCEPT ![r] = 0]

\* The answer is sent, or sending fails: either way BoundedHistoryResponse frees the slot.
Send(r) ==
    /\ pc[r] = "send"
    /\ Leave(r)
    /\ UNCHANGED <<now, tableVars, taskVars, cacheVars>>

\* The query or the thread raises.
RenderFails(r) ==
    /\ pc[r] = "render"
    /\ Leave(r)
    /\ UNCHANGED <<now, tableVars, taskVars, cacheVars>>

\* The client goes away before a slot was free: acquire() is cancelled.
CancelWait(r) ==
    /\ pc[r] = "wait"
    /\ pc' = [pc EXCEPT ![r] = "out"]
    /\ Forget(r)
    /\ UNCHANGED <<now, tableVars, taskVars, cacheVars, free, chosen, body>>

\* Mutant: a cancelled request frees its slot while its thread goes on.
CancelFreesSlot(r) ==
    /\ pc[r] = "render"
    /\ pc' = [pc EXCEPT ![r] = "drain"]
    /\ free' = free + 1
    /\ Forget(r)
    /\ chosen' = [chosen EXCEPT ![r] = 0]
    /\ UNCHANGED <<now, tableVars, taskVars, cacheVars, body>>

\* The client goes away during rendering: run_history_cpu waits for the thread first.
Cancel(r) ==
    /\ pc[r] = "render"
    /\ pc' = [pc EXCEPT ![r] = "drain"]
    /\ Forget(r)
    /\ chosen' = [chosen EXCEPT ![r] = 0]
    /\ UNCHANGED <<now, tableVars, taskVars, cacheVars, free, body>>

Drain(r) ==
    /\ pc[r] = "drain"
    /\ Leave(r)
    /\ UNCHANGED <<now, tableVars, taskVars, cacheVars>>

--------------------------------------------------------------------------------
Refresh == Poll \/ LoadMax \/ LoadRows \/ Recheck

Next ==
    \/ Tick \/ Change \/ Report
    \/ Poll \/ LoadMax \/ LoadRows \/ Recheck \/ RefreshFails
    \/ \E r \in Request : \/ Arrive(r) \/ Acquire(r) \/ Render(r) \/ Send(r)
                          \/ RenderFails(r) \/ CancelWait(r) \/ Cancel(r) \/ Drain(r)

Spec == Init /\ [][Next]_vars

\* run() polls for ever, and PostgreSQL reports its counters in the end.
FairSpec == Spec /\ WF_vars(Refresh) /\ WF_vars(Report)

--------------------------------------------------------------------------------
(* Invariants the properties rest on.                                      *)

\* One answer is kept per key, rendered from the published snapshot object.
KeysUnique ==
    \A i, j \in 1..Len(prepared) : prepared[i].key = prepared[j].key => i = j
PreparedMatches == \A i \in 1..Len(prepared) : prepared[i].gen = snapshot.gen

HasSlot(r) == pc[r] \in {"render", "drain", "send"}
SlotsCounted == free + Cardinality({r \in Request : HasSlot(r)}) = Slots

--------------------------------------------------------------------------------
(* Properties.                                                             *)

\* An answer is rendered from the very snapshot its request chose, also when the answer was
\* prepared by another request or the snapshot was replaced during rendering: the key is a
\* row number and means another row in another snapshot.
ResponseMatches == \A r \in Request : pc[r] = "send" => body[r] = chosen[r]

\* No more rendering threads and bodies exist than delivery slots, whatever is cancelled.
CpuBounded == Cardinality({r \in Request : HasSlot(r)}) <= Slots

\* A snapshot that is still usable has every change PostgreSQL showed MAX_UNCHECKED_SECONDS
\* ago, however long loading and compressing it took.
UsableIsRecent ==
    Usable /\ now >= MaxUnchecked => Covers(snapshot, past[now - MaxUnchecked])

\* When the table stops changing the cache ends up with its exact content.
CacheConverges ==
    <>[](snapshot.gen # 0 /\ snapshot.ins = source.ins /\ snapshot.upd = source.upd)

================================================================================
