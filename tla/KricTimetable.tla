------------------------------ MODULE KricTimetable ------------------------------
(***************************************************************************)
(* KricTimetableCollectionService.collect: at most one batch in 48 hours,  *)
(* counted from the last attempt, whatever became of it; station codes and *)
(* the service-day calendar first, then a bounded number of timetables,    *)
(* oldest first, each committed on its own.                                *)
(***************************************************************************)
EXTENDS Integers, FiniteSets

CONSTANTS
    Proc,     \* Dagster processes
    Snapshot, \* station and day code, as the numbers the ties are ordered by
    Broken,   \* snapshots whose call may fail at the provider
    Day,      \* the days of the calendar
    MonthOf,  \* by day
    Base,     \* the code of a day by its weekday: "7", "8" or "9"
    Holiday,  \* days the calendar service lists as holidays
    Every,    \* 48 hours
    MaxCalls, \* kric_timetable_max_calls
    MaxRun,   \* 3 hours
    MaxFails, \* consecutive failures that end a batch
    MaxTime   \* bound: the clock

VARIABLES
    now,
    attempts, \* started_at of the CollectionRun rows of this trigger
    holder,   \* owner of the session lock
    stored,   \* collected_at of the stored timetables
    calendar, \* RailServiceDay
    pc, started, fails,
    todo,     \* the timetables a batch has still to call for
    outcome   \* how the last batch ended and what it had chosen

procVars == <<pc, started, todo, fails>>
vars == <<now, attempts, holder, stored, calendar, procVars, outcome>>

None == -9
Nobody == "nobody"
NoOutcome == [how |-> "none", chosen |-> {}, from |-> 0]

Init ==
    /\ now = 0 /\ attempts = {} /\ holder = Nobody
    /\ stored = [s \in Snapshot |-> None]
    /\ calendar = [d \in Day |-> "none"]
    /\ pc = [p \in Proc |-> "idle"]
    /\ started = [p \in Proc |-> 0]
    /\ todo = [p \in Proc |-> {}]
    /\ fails = [p \in Proc |-> 0]
    /\ outcome = NoOutcome

\* Types of attempts, stored timetables and batches.
TypeOK ==
    /\ now \in 0..MaxTime /\ attempts \subseteq 0..MaxTime /\ holder \in Proc \union {Nobody}
    /\ stored \in [Snapshot -> {None} \union 0..MaxTime]
    /\ calendar \in [Day -> {"none", "7", "8", "9"}]
    /\ pc \in [Proc -> {"idle", "locked", "codes", "calls"}]

Tick == now < MaxTime /\ now' = now + 1
        /\ UNCHANGED <<attempts, holder, stored, calendar, procVars, outcome>>

--------------------------------------------------------------------------------
Idle(p) ==
    /\ pc' = [pc EXCEPT ![p] = "idle"]
    /\ started' = [started EXCEPT ![p] = 0]
    /\ todo' = [todo EXCEPT ![p] = {}]
    /\ fails' = [fails EXCEPT ![p] = 0]
    /\ holder' = IF holder = p THEN Nobody ELSE holder

Lock(p) ==
    /\ pc[p] = "idle" /\ holder = Nobody
    /\ holder' = p /\ pc' = [pc EXCEPT ![p] = "locked"]
    /\ UNCHANGED <<now, attempts, stored, calendar, started, todo, fails, outcome>>

\* Mutant: only a batch that stored something holds the next one back.
DueOnSuccess == \A s \in Snapshot : stored[s] = None \/ now - stored[s] >= Every
Due == \A t \in attempts : now - t >= Every

\* The attempt is committed before anything is called.
Begin(p) ==
    /\ pc[p] = "locked" /\ Due
    /\ attempts' = attempts \union {now}
    /\ started' = [started EXCEPT ![p] = now]
    /\ pc' = [pc EXCEPT ![p] = "codes"]
    /\ UNCHANGED <<now, holder, stored, calendar, todo, fails, outcome>>

NotDue(p) == pc[p] = "locked" /\ ~ Due /\ Idle(p) /\ UNCHANGED <<now, attempts, stored, calendar, outcome>>

--------------------------------------------------------------------------------
Code(d, holidays) == IF d \in holidays THEN "9" ELSE Base[d]

\* Mutant: the months that were read are used without the others.
UsableAny(ok) == TRUE
\* get_holidays succeeds only when every month of the range was read completely.
Usable(ok) == ok = {MonthOf[d] : d \in Day}

\* _sync_calendar: with an unverified month the stored calendar stays as it is.
Calendar(ok) ==
    IF Usable(ok) THEN [d \in Day |-> Code(d, {h \in Holiday : MonthOf[h] \in ok})] ELSE calendar

\* Missing timetables first, then the oldest, ties by station and day: the first few of this order.
Candidates == {s \in Snapshot : stored[s] = None \/ now - stored[s] >= Every}
Before(a, b) == stored[a] < stored[b] \/ (stored[a] = stored[b] /\ a < b)
Chosen == {s \in Candidates : Cardinality({c \in Candidates : Before(c, s)}) < MaxCalls}

\* Station codes and calendar are stored in one transaction, and the calls are planned.
Codes(p) ==
    /\ pc[p] = "codes"
    /\ \E ok \in SUBSET {MonthOf[d] : d \in Day} : calendar' = Calendar(ok)
    /\ todo' = [todo EXCEPT ![p] = Chosen]
    /\ outcome' = [how |-> "running", chosen |-> Chosen, from |-> started[p]]
    /\ pc' = [pc EXCEPT ![p] = "calls"]
    /\ UNCHANGED <<now, attempts, holder, stored, started, fails>>

OutOfTime(p) == now - started[p] >= MaxRun

\* The next timetable of the batch: none that is still to do comes before it.
IsNext(p, s) == s \in todo[p] /\ \A o \in todo[p] : ~ Before(o, s)

CallOk(p) ==
    /\ pc[p] = "calls" /\ ~ OutOfTime(p)
    /\ \E s \in Snapshot :
           /\ IsNext(p, s)
           /\ stored' = [stored EXCEPT ![s] = now]
           /\ todo' = [todo EXCEPT ![p] = @ \ {s}]
    /\ fails' = [fails EXCEPT ![p] = 0]
    /\ UNCHANGED <<now, attempts, holder, calendar, pc, started, outcome>>

\* Mutant: one failure less ends the batch.
StopsEarly(n) == n >= MaxFails - 1
Stops(n) == n >= MaxFails

\* A server or network error of one station is recorded and the batch goes on, up to a limit.
CallFails(p) ==
    /\ pc[p] = "calls" /\ ~ OutOfTime(p)
    /\ \E s \in Broken :
           /\ IsNext(p, s)
           /\ todo' = [todo EXCEPT ![p] = IF Stops(fails[p] + 1) THEN {} ELSE @ \ {s}]
    /\ fails' = [fails EXCEPT ![p] = @ + 1]
    /\ UNCHANGED <<now, attempts, holder, stored, calendar, pc, started, outcome>>

\* The batch is through, stopped by failures, or out of time.
Finish(p) ==
    /\ pc[p] = "calls" /\ (todo[p] = {} \/ OutOfTime(p))
    /\ outcome' = [outcome EXCEPT !.how = IF todo[p] = {} THEN "through" ELSE "late"]
    /\ Idle(p)
    /\ UNCHANGED <<now, attempts, stored, calendar>>

\* A refused key, a wrong answer, a cancellation or the death of the process: what was committed stays.
Abort(p) ==
    /\ pc[p] # "idle"
    /\ outcome' = NoOutcome
    /\ Idle(p)
    /\ UNCHANGED <<now, attempts, stored, calendar>>

Next ==
    \/ Tick
    \/ \E p \in Proc :
           \/ Lock(p) \/ Begin(p) \/ NotDue(p) \/ Codes(p)
           \/ CallOk(p) \/ CallFails(p) \/ Finish(p) \/ Abort(p)

Spec == Init /\ [][Next]_vars

--------------------------------------------------------------------------------
\* Two batches begin at least 48 hours apart, also when the first one failed or died.
BatchesApart == \A t \in attempts' \ attempts : \A u \in attempts : t - u >= Every

\* The stored code of a day is the one of the full list of holidays, never one computed from the
\* months that happened to be readable.
CalendarTrue == \A d \in Day : calendar[d] \in {"none", Code(d, Holiday)}

\* With fewer failing stations than the limit, a batch that had the time refreshed every other
\* timetable it had chosen: failing stations do not keep the ones behind them from being read.
OthersRefreshed ==
    outcome.how = "through" =>
        \A s \in outcome.chosen \ Broken : stored[s] >= outcome.from

================================================================================
