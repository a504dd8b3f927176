---------------------------- MODULE HighwayCollection ----------------------------
(***************************************************************************)
(* Highway traffic and incident collection (transport_collection.py,       *)
(* traffic_current.py) and the active-incident export that reads it.       *)
(*                                                                         *)
(* A run claims the due sources in one transaction under an advisory lock, *)
(* calls KREX without a transaction, asks a second time for an answer that *)
(* looks reduced, and stores each source in a transaction of its own.  The *)
(* first write of that transaction is the state row of the source, so the  *)
(* stores of one source are serialised.  A run that outlives its           *)
(* reservation overlaps the next one.                                      *)
(***************************************************************************)
EXTENDS Integers, FiniteSets

CONSTANTS
    Proc,           \* processes that collect
    Key,            \* identity keys of road sections and of incidents
    Answers,        \* Answers[s]: what KREX may list for s, a value for each listed key; for
                    \* traffic the value is the age of the observation, for incidents its state
    DropFactor,     \* HIGHWAY_ABNORMAL_DROP_FACTOR
    Interval,       \* transport_collect_interval_seconds
    Reservation,    \* 2 * HIGHWAY_FETCH_TIMEOUT_SECONDS + 900
    Recent,         \* the statistics of this many buckets are rebuilt by every store
    MaxAge,         \* INCIDENT_ACTIVE_SET_MAX_AGE
    MaxTime,        \* bound: the clock, in buckets of five minutes
    MaxRuns,        \* bound: collection runs
    MaxClaims       \* bound: sources claimed by all the runs together

Traffic == "krex_traffic"
Incident == "krex_incident"
Source == {Traffic, Incident}

VARIABLES
    now, nextRun,
    claims,     \* sources claimed so far
    state,      \* TransportCollectionState of each source
    baseline,   \* item_count of the newest successful raw response of each source
    history,    \* HighwayTrafficSnapshot: the run that last wrote the point of a key and a bucket
    statistics, \* highway_traffic_five_minute_statistics: what each bucket was computed from
    head,       \* HighwayTrafficCurrentState: attempt_order and member_count
    current,    \* HighwayTrafficCurrent: generation and observed_at of each key
    incidents,  \* the newest HighwayIncidentSnapshot of each key: its state and collected_at
    active,     \* history: the incidents of the last committed answer
    pc, run, claimed, seen, result,
    loaded      \* the session still holds the state rows as it loaded them at its claim

dbVars == <<nextRun, claims, state, baseline, history, statistics, head, current, incidents, active>>
procVars == <<pc, run, claimed, seen, result, loaded>>
vars == <<now, dbVars, procVars>>

None == -1
Time == 0..MaxTime
NoAnswer == [ok |-> FALSE, items |-> <<>>, complete |-> FALSE]
NoRow == [state |-> None, collected |-> None]

\* Types of the tables and of the runs.
TypeOK ==
    /\ now \in Time /\ nextRun \in 1..(MaxRuns + 1)
    /\ \A s \in Source : state[s].success \in None..MaxTime /\ baseline[s] \in None..Cardinality(Key)
    /\ history \in [Key -> [Time -> 0..MaxRuns]]
    /\ head.order \in 0..MaxRuns /\ head.count \in 0..Cardinality(Key)
    /\ current \in [Key -> [order : 0..MaxRuns, at : None..MaxTime]]
    /\ pc \in [Proc -> {"idle", "fetch", "store"}]
    /\ claimed \in [Proc -> SUBSET Source]

Init ==
    /\ now = 0 /\ nextRun = 1 /\ claims = 0
    /\ \E later \in {{}, {Traffic}, {Incident}} :   \* a source may not be due for long
           state = [s \in Source |-> [started |-> 0, success |-> None, error |-> FALSE,
                                      due |-> IF s \in later THEN MaxTime + 1 ELSE 0]]
    /\ baseline = [s \in Source |-> None]
    /\ history = [k \in Key |-> [t \in Time |-> 0]]
    /\ statistics = [t \in Time |-> [k \in Key |-> 0]]
    /\ head = [order |-> 0, count |-> 0]
    /\ current = [k \in Key |-> [order |-> 0, at |-> None]]
    /\ incidents = [k \in Key |-> NoRow]
    /\ active = <<>>
    /\ pc = [p \in Proc |-> "idle"]
    /\ run = [p \in Proc |-> 0]
    /\ claimed = [p \in Proc |-> {}]
    /\ seen = [p \in Proc |-> [s \in Source |-> [base |-> None, started |-> 0, error |-> FALSE]]]
    /\ result = [p \in Proc |-> [s \in Source |-> NoAnswer]]
    /\ loaded = [p \in Proc |-> FALSE]

Tick == now < MaxTime /\ now' = now + 1 /\ UNCHANGED <<dbVars, procVars>>

--------------------------------------------------------------------------------
\* _source_is_due.
Due == {s \in Source : now >= state[s].due}

\* The claim: started and the reservation are committed before the first request.
Claim(p) ==
    /\ pc[p] = "idle" /\ nextRun <= MaxRuns /\ Due # {}
    /\ claims + Cardinality(Due) <= MaxClaims
    /\ claims' = claims + Cardinality(Due)
    /\ run' = [run EXCEPT ![p] = nextRun]
    /\ nextRun' = nextRun + 1
    /\ claimed' = [claimed EXCEPT ![p] = Due]
    /\ seen' = [seen EXCEPT ![p] = [s \in Source |->
                   [base |-> baseline[s], started |-> now, error |-> state[s].error]]]
    /\ loaded' = [loaded EXCEPT ![p] = TRUE]
    /\ state' = [s \in Source |-> IF s \in Due
                   THEN [state[s] EXCEPT !.started = now, !.due = now + Reservation] ELSE state[s]]
    /\ pc' = [pc EXCEPT ![p] = "fetch"]
    /\ UNCHANGED <<now, baseline, history, statistics, head, current, incidents, active, result>>

\* collect_highway, _collect_krex_pages: each source succeeds or fails by itself; complete says
\* that the provider gave a total and the pages added up to it.
Answered(s) ==
    {NoAnswer} \cup {[ok |-> TRUE, items |-> m, complete |-> c] : m \in Answers[s], c \in BOOLEAN}

Size(a) == Cardinality(DOMAIN a.items)

\* _highway_result_suspicious: an empty or sharply reduced answer.
Suspicious(a, base) == a.ok /\ (Size(a) = 0 \/ (base # None /\ Size(a) * DropFactor < base))

\* The second answer replaces a suspicious one when it is not suspicious itself, or when both were
\* complete and of one size; otherwise the source keeps its last successful set.
Confirmed(first, second, base) ==
    IF ~ second.ok THEN NoAnswer
    ELSE IF ~ Suspicious(second, base) THEN second
    ELSE IF first.complete /\ second.complete /\ Size(first) = Size(second) THEN second
    ELSE NoAnswer
\* _confirm_highway_payload asks once more for the suspicious sources.  No transaction is open
\* between the two requests, so only the outcome matters;
\* complete is not looked at again.
Outcomes(s, base) ==
    {[IF Suspicious(first, base) THEN Confirmed(first, second, base) ELSE first
        EXCEPT !.complete = FALSE] :
        first \in Answered(s), second \in Answered(s)}

Fetch(p) ==
    /\ pc[p] = "fetch"
    /\ \E t \in Outcomes(Traffic, seen[p][Traffic].base), i \in Outcomes(Incident, seen[p][Incident].base) :
           result' = [result EXCEPT ![p] = [s \in Source |->
                         IF s \notin claimed[p] THEN NoAnswer
                         ELSE IF s = Traffic THEN t ELSE i]]
    /\ pc' = [pc EXCEPT ![p] = "store"]
    /\ UNCHANGED <<now, dbVars, run, claimed, seen, loaded>>

--------------------------------------------------------------------------------
\* The sources are stored in this order, and each leaves the claim when its outcome is committed.
Turn(p, s) == pc[p] = "store" /\ s \in claimed[p] /\ (s = Incident => Traffic \notin claimed[p])
Leave(p, s) ==
    /\ claimed' = [claimed EXCEPT ![p] = @ \ {s}]
    /\ result' = [result EXCEPT ![p][s] = NoAnswer]
    /\ UNCHANGED <<pc, run, seen>>

\* _mark_source_success.  A state row loaded at the claim is not read again: the due time counts
\* from the start this run wrote, and last_error is only cleared when the run believes it is set.
MarkedSuccess(p, s) ==
    [started |-> state[s].started, success |-> now,
     due |-> (IF loaded[p] THEN seen[p][s].started ELSE state[s].started) + Interval,
     error |-> state[s].error /\ loaded[p] /\ ~ seen[p][s].error]

\* The points of an answer: a key and the bucket it was observed in.
Observed(a, k) == IF a.items[k] <= now THEN now - a.items[k] ELSE 0
Points(a) == {<<k, Observed(a, k)>> : k \in DOMAIN a.items}

\* _store_traffic: a repeated observation overwrites its point.
NewHistory(p, a) ==
    [k \in Key |-> [t \in Time |-> IF <<k, t>> \in Points(a) THEN run[p] ELSE history[k][t]]]

\* Mutant: only the recent buckets.
RebuiltRecent(a) == {t \in Time : t >= now - Recent}
\* _refresh_recent_traffic_statistics: the recent buckets, and the older ones this answer corrects.
Rebuilt(a) == {t \in Time : t >= now - Recent} \cup {q[2] : q \in Points(a)}

\* Mutant: the order of the runs is not looked at.
OvertakenNever(p) == FALSE
\* update_traffic_current: a run older than the head changes nothing; otherwise the keys of the
\* answer carry its generation, and a key keeps its value when that was observed later.
Overtaken(p) == run[p] < head.order
NewCurrent(p, a) ==
    [k \in Key |->
        IF k \notin DOMAIN a.items THEN current[k]
        ELSE [order |-> run[p],
              at |-> IF Observed(a, k) >= current[k].at THEN Observed(a, k) ELSE current[k].at]]

StoreTraffic(p) ==
    LET a == result[p][Traffic]
    IN  /\ Turn(p, Traffic) /\ a.ok
        /\ state' = [state EXCEPT ![Traffic] = MarkedSuccess(p, Traffic)]
        /\ baseline' = [baseline EXCEPT ![Traffic] = Size(a)]
        /\ history' = NewHistory(p, a)
        /\ statistics' = [t \in Time |-> IF t \in Rebuilt(a)
                             THEN [k \in Key |-> history'[k][t]] ELSE statistics[t]]
        /\ IF Overtaken(p) THEN UNCHANGED <<head, current>>
           ELSE /\ head' = [order |-> run[p], count |-> Size(a)]
                /\ current' = NewCurrent(p, a)
        /\ Leave(p, Traffic)
        /\ UNCHANGED <<now, nextRun, claims, incidents, active, loaded>>

\* Mutant: seeing an unchanged incident again leaves its row alone.
RecordedOnce(a, k) ==
    IF incidents[k].state = a.items[k] THEN incidents[k] ELSE [state |-> a.items[k], collected |-> now]
\* _store_incidents: an incident whose state is unchanged is only seen again, otherwise it gets a
\* new row.
Recorded(a, k) == [state |-> a.items[k], collected |-> now]

\* The success time of the state is the collected_at of the rows.  It is later than the one before:
\* the clock is read once the state row is locked, and has microseconds.
StoreIncidents(p) ==
    LET a == result[p][Incident]
    IN  /\ Turn(p, Incident) /\ a.ok /\ now > state[Incident].success
        /\ state' = [state EXCEPT ![Incident] = MarkedSuccess(p, Incident)]
        /\ baseline' = [baseline EXCEPT ![Incident] = Size(a)]
        /\ incidents' = [k \in Key |-> IF k \in DOMAIN a.items THEN Recorded(a, k) ELSE incidents[k]]
        /\ active' = a.items
        /\ Leave(p, Incident)
        /\ UNCHANGED <<now, nextRun, claims, history, statistics, head, current, loaded>>

\* A provider error: only the state row and an error response are written.  The delay is the
\* interval, or longer for a quota.
MarkFailure(s) == state' = [state EXCEPT ![s].error = TRUE, ![s].due = now + Interval]
StoreError(p, s) ==
    /\ Turn(p, s) /\ ~ result[p][s].ok
    /\ MarkFailure(s) /\ Leave(p, s)
    /\ UNCHANGED <<now, nextRun, claims, baseline, history, statistics, head, current, incidents, active, loaded>>

\* The store of one source fails: that transaction is rolled back, which also drops the rows the
\* session had loaded, and the failure is recorded.
StoreFails(p, s) ==
    /\ Turn(p, s) /\ result[p][s].ok
    /\ MarkFailure(s) /\ Leave(p, s)
    /\ loaded' = [loaded EXCEPT ![p] = FALSE]
    /\ UNCHANGED <<now, nextRun, claims, baseline, history, statistics, head, current, incidents, active>>

Reset(p) ==
    /\ pc' = [pc EXCEPT ![p] = "idle"]
    /\ claimed' = [claimed EXCEPT ![p] = {}]
    /\ result' = [result EXCEPT ![p] = [s \in Source |-> NoAnswer]]
    /\ seen' = [seen EXCEPT ![p] = [s \in Source |-> [base |-> None, started |-> 0, error |-> FALSE]]]
    /\ loaded' = [loaded EXCEPT ![p] = FALSE]
    /\ run' = [run EXCEPT ![p] = 0]

\* The run row gets its final status.
Finish(p) ==
    /\ pc[p] = "store" /\ claimed[p] = {}
    /\ Reset(p) /\ UNCHANGED <<now, dbVars>>

\* Cancelled: the sources that were not yet stored get the error, their reservation stays.
Cancel(p) ==
    /\ pc[p] # "idle"
    /\ state' = [s \in Source |-> IF s \in claimed[p] THEN [state[s] EXCEPT !.error = TRUE] ELSE state[s]]
    /\ Reset(p)
    /\ UNCHANGED <<now, nextRun, claims, baseline, history, statistics, head, current, incidents, active>>

\* The process dies.
Crash(p) == pc[p] # "idle" /\ Reset(p) /\ UNCHANGED <<now, dbVars>>

Step(p) ==
    \/ Claim(p) \/ Fetch(p) \/ StoreTraffic(p) \/ StoreIncidents(p)
    \/ \E s \in Source : StoreError(p, s) \/ StoreFails(p, s)
    \/ Finish(p) \/ Cancel(p) \/ Crash(p)

Next == Tick \/ \E p \in Proc : Step(p)

Spec == Init /\ [][Next]_vars

--------------------------------------------------------------------------------
\* export_active_highway_incidents: the rows collected at the last success or later.
Exported ==
    LET shown == {k \in Key : incidents[k].collected >= state[Incident].success}
    IN  [k \in shown |-> incidents[k].state]
Served ==
    /\ state[Incident].success # None /\ ~ state[Incident].error
    /\ now - state[Incident].success <= MaxAge

\* When the export of active incidents answers, it lists exactly the incidents of the last answer
\* that was committed, with their states: overlapping runs, failed stores and crashes neither bring
\* back a resolved incident nor hide one that is still active.
ActiveSetExact == Served => Exported = active

\* Every five-minute bucket agrees with the observations it was computed from, although a run may
\* correct buckets far older than the window it always rebuilds, and runs overlap.
StatisticsMatch == \A t \in Time, k \in Key : statistics[t][k] = history[k][t]

\* The current traffic set is the whole answer of one run, and a late older run never replaces a
\* newer one; a section never shows an observation older than one it has shown.
TrafficHeadWhole == Cardinality({k \in Key : head.order > 0 /\ current[k].order = head.order}) = head.count
TrafficForward ==
    head'.order >= head.order /\ \A k \in Key : current'[k].at >= current[k].at
================================================================================
