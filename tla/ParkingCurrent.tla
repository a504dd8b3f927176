----------------------------- MODULE ParkingCurrent -----------------------------
(***************************************************************************)
(* The current parking tables that the airport collector promotes with     *)
(* transport_map_current_enabled (_collect_map_parking of collection.py,   *)
(* parking_exports.py, reference_exports.py).                              *)
(*                                                                         *)
(* A run reads the size of each head, ends its transaction, calls the      *)
(* providers, and stores what they answered in one transaction.  Runs may  *)
(* overlap: the advisory lock of the collector can be lost (AirportQuota). *)
(* head, current and history are committed rows.                           *)
(***************************************************************************)
EXTENDS Integers, FiniteSets

CONSTANTS
    Proc,       \* processes that collect
    Source,     \* parking_sources: the configured providers
    Payload,    \* Payload[s]: the sets of parking lots a complete answer of s may list
    MaxLag,     \* bound: MaxLag[s] polls old the values of an answer may be
    MaxRuns,    \* bound: collection runs
    MaxTime     \* bound: the clock

ASSUME ParkingAssumption ==
    /\ \A s \in Source : \A m \in Payload[s] : IsFiniteSet(m) /\ m # {}
    /\ \A s \in Source : MaxLag[s] \in Nat
    /\ MaxRuns \in Nat /\ MaxTime \in Nat \ {0}

VARIABLES
    now,
    head,       \* ReferenceExportState of each source; order is its attempt_order
    current,    \* ParkingCurrent: observed_at and generation of each lot
    history,    \* observed_at of each lot's ParkingSnapshot rows, by source: the code cuts it to
                \* the minute there and not in ParkingCurrent; a unit of time here is a poll
    nextRun,    \* the id sequence of collection_runs
    pc, run,
    previous,   \* size of each head as read before the network calls
    attempt,    \* attempts made at each source
    res         \* what each provider answered

dbVars   == <<head, current, history, nextRun>>
procVars == <<pc, run, previous, attempt, res>>
vars == <<now, dbVars, procVars>>

Lot == UNION UNION {Payload[s] : s \in Source}
Members == (UNION {Payload[s] : s \in Source}) \cup {{}}
Time == 0..MaxTime
RunId == 1..MaxRuns
None == -1

\* members: the accepted set; lots and at: the last answer whose rows can go to the history.
Answer == [done: BOOLEAN, members: Members, lots: Members, at: Time \cup {None}]
NoAnswer == [done |-> FALSE, members |-> {}, lots |-> {}, at |-> None]
\* failedBy stands for last_error: the run that wrote it, 0 for none.
Head == [order: 0..MaxRuns, members: Members, confirmed: Time, failedBy: 0..MaxRuns]
NoHead == [order |-> 0, members |-> {}, confirmed |-> 0, failedBy |-> 0]
Value == [at: Time, generation: 0..MaxRuns]
NoValue == [at |-> 0, generation |-> 0]

\* Types of the tables and of the processes.
TypeOK ==
    /\ now \in Time
    /\ head \in [Source -> Head]
    /\ current \in [Source -> [Lot -> Value]]
    /\ history \subseteq Source \X Lot \X Time
    /\ nextRun \in 1..(MaxRuns + 1)
    /\ pc \in [Proc -> {"idle", "fetch", "stored"}]
    /\ run \in [Proc -> 0..MaxRuns]
    /\ previous \in [Proc -> [Source -> Nat]]
    /\ attempt \in [Proc -> [Source -> {0, 1}]]
    /\ res \in [Proc -> [Source -> Answer]]

Init ==
    /\ now = 1
    /\ head = [s \in Source |-> NoHead]
    /\ current = [s \in Source |-> [l \in Lot |-> NoValue]]
    /\ history = {}
    /\ nextRun = 1
    /\ pc = [p \in Proc |-> "idle"]
    /\ run = [p \in Proc |-> 0]
    /\ previous = [p \in Proc |-> [s \in Source |-> 0]]
    /\ attempt = [p \in Proc |-> [s \in Source |-> 0]]
    /\ res = [p \in Proc |-> [s \in Source |-> NoAnswer]]

--------------------------------------------------------------------------------
Tick ==
    /\ now < MaxTime
    /\ now' = now + 1
    /\ UNCHANGED <<dbVars, procVars>>

\* The run row is committed; the sizes of the heads are read and the transaction ends.
\* A source whose quota is exhausted is not called: it counts as failed at once.
Begin(p) ==
    /\ pc[p] = "idle" /\ nextRun <= MaxRuns
    /\ run' = [run EXCEPT ![p] = nextRun]
    /\ nextRun' = nextRun + 1
    /\ previous' = [previous EXCEPT ![p] = [s \in Source |-> Cardinality(head[s].members)]]
    /\ \E blocked \in {{}, {"kac_parking"} \cap Source} :
           res' = [res EXCEPT ![p] = [s \in Source |-> [NoAnswer EXCEPT !.done = s \in blocked]]]
    /\ pc' = [pc EXCEPT ![p] = "fetch"]
    /\ UNCHANGED <<now, head, current, history, attempt>>

\* An answer is final: the size it was compared with is not used again.
Done(p, s, answer) ==
    /\ res' = [res EXCEPT ![p][s] = answer]
    /\ previous' = [previous EXCEPT ![p][s] = 0]
    /\ attempt' = [attempt EXCEPT ![p][s] = 0]

\* validate_parking_payload accepts the answer of the given time, and it is not a sharp drop.
FetchOk(p, s) ==
    \E m \in Payload[s], lag \in 0..MaxLag[s] :
        /\ lag <= now
        /\ 4 * Cardinality(m) >= previous[p][s]
        /\ Done(p, s, [done |-> TRUE, members |-> m, lots |-> m, at |-> now - lag])

\* The answer is refused (a sharp drop, or rows the strict validation rejects), the call fails, or
\* it meets the quota.  A first failure is tried again unless it was the quota; a refused answer
\* is kept for the history, the last one if both are refused.
FetchBad(p, s) ==
    \E lots \in Payload[s] \cup {{}}, final \in BOOLEAN :
        LET answer == [done |-> final, members |-> {},
                       lots |-> IF lots = {} THEN res[p][s].lots ELSE lots,
                       at |-> IF lots = {} THEN res[p][s].at ELSE now]
        IN IF final
           THEN /\ attempt[p][s] = 1 \/ lots = {}
                /\ Done(p, s, answer)
           ELSE /\ attempt[p][s] = 0
                /\ attempt' = [attempt EXCEPT ![p][s] = 1]
                /\ res' = [res EXCEPT ![p][s] = answer]
                /\ UNCHANGED previous

\* The sources are called one after the other, KAC first.
Fetch(p, s) ==
    /\ pc[p] = "fetch" /\ ~res[p][s].done
    /\ \A t \in Source : t = "kac_parking" /\ s # t => res[p][t].done
    /\ FetchOk(p, s) \/ FetchBad(p, s)
    /\ UNCHANGED <<now, dbVars, pc, run>>

--------------------------------------------------------------------------------
Fetched(p) == {s \in Source : res[p][s].members # {}}
AllDone(p) == \A s \in Source : res[p][s].done

\* Head rows stay locked from the store to the end of the run, over the calls for the fees.
HeadLocked(p) == \E q \in Proc \ {p} : pc[q] = "stored"

\* Mutant: the store trusts the size read before the calls.
PromotableUnread(p, s) == head[s].order <= run[p]

\* The conditions of store_parking_current and promote_reference, with the head locked.
Promotable(p, s) ==
    /\ head[s].order <= run[p]
    /\ 4 * Cardinality(res[p][s].members) >= Cardinality(head[s].members)

\* The store goes through for every source that was fetched.
Store(p) ==
    /\ pc[p] = "fetch" /\ AllDone(p) /\ ~HeadLocked(p)
    /\ \A s \in Fetched(p) : Promotable(p, s)
    /\ pc' = [pc EXCEPT ![p] = "stored"]
    /\ UNCHANGED <<now, dbVars, run, previous, attempt, res>>

\* promote_reference
Promoted(p, s) ==
    [order |-> run[p], members |-> res[p][s].members, confirmed |-> res[p][s].at, failedBy |-> 0]

\* Mutant: the failure of an older run counts too.
MarkUnordered(p, s) ==
    IF head[s].order # 0 THEN [head[s] EXCEPT !.failedBy = run[p]] ELSE head[s]

\* mark_reference_failure: the UPDATE reaches a head of this run or of an older one.
Mark(p, s) ==
    IF head[s].order \in 1..run[p] THEN [head[s] EXCEPT !.failedBy = run[p]] ELSE head[s]

NewValue(p, s, l) ==
    [at |-> IF res[p][s].at >= current[s][l].at THEN res[p][s].at ELSE current[s][l].at,
     generation |-> run[p]]

\* Mutant: the rows of the former generation stay.
StoredKeepsOld(p, s) ==
    [l \in Lot |-> IF l \in res[p][s].members THEN NewValue(p, s, l) ELSE current[s][l]]

\* store_parking_current: a late value does not replace a newer one, every member gets the new
\* generation, the rows of other generations are deleted.
Stored(p, s) ==
    [l \in Lot |-> IF l \in res[p][s].members THEN NewValue(p, s, l) ELSE NoValue]

\* _store_observations: a snapshot that exists already is skipped.
Observed(p, s) == {<<s, l, res[p][s].at>> : l \in res[p][s].lots}

Leave(p) ==
    /\ pc' = [pc EXCEPT ![p] = "idle"]
    /\ run' = [run EXCEPT ![p] = 0]
    /\ previous' = [previous EXCEPT ![p] = [s \in Source |-> 0]]
    /\ attempt' = [attempt EXCEPT ![p] = [s \in Source |-> 0]]
    /\ res' = [res EXCEPT ![p] = [s \in Source |-> NoAnswer]]

\* The run's transaction commits.  The history of a refused answer is written in a savepoint and
\* may be left out (lenient parser, database error); then come the failure marks.
Finish(p) ==
    /\ pc[p] = "stored"
    /\ head' = [s \in Source |-> IF s \in Fetched(p) THEN Promoted(p, s) ELSE Mark(p, s)]
    /\ current' = [s \in Source |-> IF s \in Fetched(p) THEN Stored(p, s) ELSE current[s]]
    /\ \E kept \in SUBSET (Source \ Fetched(p)) :
           history' = history \cup UNION {Observed(p, s) : s \in Fetched(p) \cup kept}
    /\ Leave(p)
    /\ UNCHANGED <<now, nextRun>>

\* An exception: the heads cannot be read, a promotion is refused, the database fails.  The
\* transaction is rolled back and every source is marked.
Fail(p) ==
    /\ pc[p] # "idle" /\ ~HeadLocked(p)
    /\ head' = [s \in Source |-> Mark(p, s)]
    /\ Leave(p)
    /\ UNCHANGED <<now, current, history, nextRun>>

\* The process dies, or its last commit fails.
Crash(p) ==
    /\ pc[p] # "idle"
    /\ Leave(p)
    /\ UNCHANGED <<now, dbVars>>

--------------------------------------------------------------------------------
Collect(p) ==
    \/ Begin(p)
    \/ \E s \in Source : Fetch(p, s)
    \/ Store(p) \/ Finish(p) \/ Fail(p) \/ Crash(p)

Next == Tick \/ \E p \in Proc : Collect(p)

Spec == Init /\ [][Next]_vars

--------------------------------------------------------------------------------
\* The current rows of a source are the members of its head, all of the head's generation, none
\* observed before the time the head is confirmed for, and each is in the history
\* (store_parking_current, run by run).
CurrentMatchesHead ==
    \A s \in Source : \A l \in Lot :
        IF l \in head[s].members
        THEN /\ current[s][l].generation = head[s].order
             /\ current[s][l].at >= head[s].confirmed
             /\ <<s, l, current[s][l].at>> \in history
        ELSE current[s][l] = NoValue

\* A head gives way only to a newer run, never to a set under a quarter of its own although the
\* size is first compared with a stale one, and a lot that stays never shows an older value
\* (promote_reference, store_parking_current).
HeadForward ==
    [][\A s \in Source :
          /\ head'[s].order >= head[s].order
          /\ 4 * Cardinality(head'[s].members) >= Cardinality(head[s].members)
          /\ \A l \in head[s].members \cap head'[s].members :
                current'[s][l].at >= current[s][l].at]_vars

\* The failure of an older run never marks the success of a newer one (mark_reference_failure).
FailureOrdered == \A s \in Source : head[s].failedBy # 0 => head[s].failedBy >= head[s].order
================================================================================
