------------------------------ MODULE AirportQuota ------------------------------
(***************************************************************************)
(* The airport parking collector and its KAC quota ledger                  *)
(* (backend/app/services/collection.py).                                   *)
(*                                                                         *)
(* A process runs one collection at a time under an advisory lock held by  *)
(* a connection of its own.  That connection may drop while the collection *)
(* goes on, so collections may overlap.  A collection reads the ledger,    *)
(* waits on the network, and only then stores, records what it learnt      *)
(* about the quota and commits.  What it stores is in ParkingCurrent.      *)
(*                                                                         *)
(* quota and latest are committed rows; what a transaction has read or     *)
(* will write is in the process's variables.                               *)
(***************************************************************************)
EXTENDS Integers

CONSTANTS
    Proc,       \* processes that collect: Dagster ops and HTTP backends
    Owned,      \* those whose session has a collector_owner (Dagster)
    Backoff,    \* upstream_rate_limit_backoff_seconds
    MaxRuns,    \* bound: collection runs
    MaxTime,    \* bound: the clock
    NoProc

ASSUME QuotaAssumption ==
    /\ Owned \subseteq Proc /\ NoProc \notin Proc
    /\ Backoff \in Nat \ {0}
    /\ MaxRuns \in Nat /\ MaxTime \in Nat \ {0}

VARIABLES
    now,
    mapCurrent, \* transport_map_current_enabled
    incheon,    \* enable_incheon_collection (and its fees)
    \* ---- committed rows
    quota,      \* the row airport_kac_quota: last_started_at and next_due_at
    latest,     \* the newest run that was not skipped, as long as there is no quota row
    runs,       \* ids the sequence of collection_runs has handed out
    \* ---- the advisory lock and the processes
    lease,
    pc, started, until,
    failq,      \* processes whose _collect_map_parking has met a quota error (failures)
    errq,       \* processes whose run has one in its error list (errors)
    \* ---- history variables
    overlap,    \* some collection has outlived its lock
    told,       \* processes whose run KAC has refused for quota
    hits        \* ended runs that KAC refused for quota

config   == <<mapCurrent, incheon>>
dbVars   == <<quota, latest, runs>>
procVars == <<pc, started, until, failq, errq>>
histVars == <<overlap, told, hits>>
vars == <<now, config, dbVars, lease, procVars, histVars>>

None == -1
Time == 0..MaxTime
Phase == {"idle", "check", "begin", "kac", "icn", "store", "fee", "icnfee", "end"}
Deadline == Backoff..(MaxTime + Backoff)
QuotaRow == [known: {TRUE}, started: Time, due: Deadline \cup {None}]
NoRow == [known |-> FALSE, started |-> None, due |-> None]
NoRun == [started |-> None, quota |-> FALSE]

\* Types of the settings, the rows, the processes and the history.
TypeOK ==
    /\ now \in Time /\ mapCurrent \in BOOLEAN /\ incheon \in BOOLEAN
    /\ quota \in QuotaRow \cup {NoRow}
    /\ latest \in [started: Time, quota: BOOLEAN] \cup {NoRun}
    /\ runs \in 0..MaxRuns
    /\ lease \in Proc \cup {NoProc}
    /\ pc \in [Proc -> Phase]
    /\ started \in [Proc -> Time]
    /\ until \in [Proc -> Deadline \cup {None}]
    /\ failq \subseteq Proc /\ errq \subseteq Proc
    /\ overlap \in BOOLEAN /\ told \subseteq Proc
    /\ hits \subseteq [started: Time, stored: BOOLEAN]

\* A new deployment, or one whose last run of the former version met a quota error.
Init ==
    /\ now = 1
    /\ mapCurrent \in BOOLEAN /\ incheon \in BOOLEAN
    /\ quota = NoRow
    /\ latest \in {NoRun, [started |-> 0, quota |-> TRUE]}
    /\ runs = 0
    /\ lease = NoProc
    /\ pc = [p \in Proc |-> "idle"]
    /\ started = [p \in Proc |-> 0]
    /\ until = [p \in Proc |-> None]
    /\ failq = {} /\ errq = {}
    /\ overlap = FALSE /\ told = {} /\ hits = {}

--------------------------------------------------------------------------------
Tick ==
    /\ now < MaxTime
    /\ now' = now + 1
    /\ UNCHANGED <<config, dbVars, lease, procVars, histVars>>

\* The run that get_upstream_rate_limit_state falls back on: the last one by started_at that is
\* not "skipped", of any collector.  It is not looked at once there is a quota row.
Latest(row, at, isQuota) ==
    IF row.known THEN NoRun
    ELSE IF at >= latest.started THEN [started |-> at, quota |-> isQuota] ELSE latest

\* Another collector of the repository adds a run to collection_runs.
OtherRun ==
    /\ ~quota.known
    /\ latest' = Latest(quota, now, FALSE)
    /\ UNCHANGED <<now, config, quota, runs, lease, procVars, histVars>>

\* Mutant: the lock is not asked for.
AcquireUnlocked(p) ==
    /\ pc[p] = "idle"
    /\ pc' = [pc EXCEPT ![p] = "check"]
    /\ UNCHANGED <<now, config, dbVars, lease, started, until, failq, errq, histVars>>

\* _postgres_collection_lease: pg_try_advisory_lock on a connection of its own; a process that
\* does not get it returns at once.
Acquire(p) ==
    /\ pc[p] = "idle" /\ lease = NoProc
    /\ lease' = p
    /\ pc' = [pc EXCEPT ![p] = "check"]
    /\ UNCHANGED <<now, config, dbVars, started, until, failq, errq, histVars>>

\* The lock's connection drops: the collection goes on without it.
LoseLease(p) ==
    /\ lease = p
    /\ lease' = NoProc
    /\ overlap' = TRUE
    /\ UNCHANGED <<now, config, dbVars, procVars, told, hits>>

\* Every way out of collect: the lock is released, the locals are gone.
Leave(p) ==
    /\ lease' = IF lease = p THEN NoProc ELSE lease
    /\ pc' = [pc EXCEPT ![p] = "idle"]
    /\ started' = [started EXCEPT ![p] = 0]
    /\ until' = [until EXCEPT ![p] = None]
    /\ failq' = failq \ {p}
    /\ errq' = errq \ {p}
    /\ told' = told \ {p}

--------------------------------------------------------------------------------
(* The quota ledger.                                                       *)

\* get_upstream_rate_limit_state: blocked_until, or None.
BlockedUntil ==
    LET due == IF quota.known THEN quota.due
               ELSE IF latest.quota THEN latest.started + Backoff ELSE None
    IN IF due > now THEN due ELSE None

Blocked(p) == until[p] # None

\* The run row is committed before the network calls.
Early(p) == mapCurrent \/ p \in Owned

\* A blocked run without the early commit keeps the quota row locked, or its new one pending,
\* until it ends.
HoldsQuota(p) == Blocked(p) /\ ~Early(p) /\ pc[p] \notin {"idle", "check", "begin"}
QuotaLocked(p) == \E q \in Proc \ {p} : HoldsQuota(q)

\* _retain_quota_deadline: an error of the former version is adopted once.
Retained(p) ==
    IF Blocked(p) /\ ~quota.known
    THEN [known |-> TRUE, started |-> until[p] - Backoff, due |-> until[p]]
    ELSE quota

Learnt(p, isQuota) ==
    [known |-> TRUE, started |-> started[p],
     due |-> IF isQuota THEN started[p] + Backoff ELSE None]

\* Mutant: a run that started under the deadline may move or clear it.
OutcomeUnfenced(p, isQuota) ==
    IF Blocked(p) \/ (quota.known /\ quota.started > started[p]) THEN quota
    ELSE Learnt(p, isQuota)

\* Mutant: the result of a run with an error does not count.
OutcomeForgets(p, isQuota) ==
    IF Blocked(p) \/ (quota.known /\ (quota.started > started[p] \/ quota.due > started[p]))
    THEN quota ELSE Learnt(p, FALSE)

\* _record_quota_outcome: any quota error among the messages counts, whichever call met it.
Outcome(p, isQuota) ==
    IF Blocked(p) \/ (quota.known /\ (quota.started > started[p] \/ quota.due > started[p]))
    THEN quota ELSE Learnt(p, isQuota)

Check(p) ==
    /\ pc[p] = "check"
    /\ until' = [until EXCEPT ![p] = BlockedUntil]
    /\ pc' = [pc EXCEPT ![p] = "begin"]
    /\ UNCHANGED <<now, config, dbVars, lease, started, failq, errq, histVars>>

\* _store_rate_limit_skip: blocked, and nothing to fetch from Incheon.
Skip(p) ==
    /\ pc[p] = "begin" /\ Blocked(p) /\ ~incheon
    /\ runs < MaxRuns
    /\ quota' = Retained(p)
    /\ latest' = NoRun
    /\ runs' = runs + 1
    /\ Leave(p)
    /\ UNCHANGED <<now, config, overlap, hits>>

\* The run row is inserted; with Early it is committed, and the adopted deadline with it.
Begin(p) ==
    /\ pc[p] = "begin"
    /\ Blocked(p) => incheon /\ ~QuotaLocked(p)
    /\ runs < MaxRuns
    /\ started' = [started EXCEPT ![p] = now]
    /\ runs' = runs + 1
    /\ IF Early(p)
       THEN quota' = Retained(p) /\ latest' = Latest(quota', now, FALSE)
       ELSE UNCHANGED <<quota, latest>>
    /\ pc' = [pc EXCEPT ![p] = IF Blocked(p) THEN "icn" ELSE "kac"]
    \* a blocked KAC counts as an error at once, without a call
    /\ failq' = IF Blocked(p) /\ mapCurrent THEN failq \cup {p} ELSE failq
    /\ errq' = IF Blocked(p) /\ ~mapCurrent THEN errq \cup {p} ELSE errq
    /\ UNCHANGED <<now, config, lease, until, histVars>>

--------------------------------------------------------------------------------
(* The network calls: an answer or an error other than quota teaches the   *)
(* ledger nothing, and neither does its second attempt.                    *)

AfterKac == IF incheon THEN "icn" ELSE IF mapCurrent THEN "store" ELSE "fee"

\* A quota error of a parking call: kept apart until the store with the map tables.
Refused(p) ==
    IF mapCurrent THEN failq' = failq \cup {p} /\ UNCHANGED errq
                  ELSE errq' = errq \cup {p} /\ UNCHANGED failq

FetchKac(p) ==
    /\ pc[p] = "kac"
    /\ pc' = [pc EXCEPT ![p] = AfterKac]
    /\ \/ UNCHANGED <<failq, errq, told>>
       \/ Refused(p) /\ told' = told \cup {p}
    /\ UNCHANGED <<now, config, dbVars, lease, started, until, overlap, hits>>

FetchIncheon(p) ==
    /\ pc[p] = "icn"
    /\ pc' = [pc EXCEPT ![p] = IF mapCurrent THEN "store" ELSE "fee"]
    /\ UNCHANGED <<failq, errq>> \/ Refused(p)
    /\ UNCHANGED <<now, config, dbVars, lease, started, until, histVars>>

\* _collect_map_parking after the network (ParkingCurrent has what it stores): the failures join
\* the error list at its very end.
Store(p) ==
    /\ pc[p] = "store"
    /\ pc' = [pc EXCEPT ![p] = "fee"]
    /\ errq' = errq \cup (failq \cap {p})
    /\ UNCHANGED <<now, config, dbVars, lease, started, until, failq, histVars>>

\* The KAC fee calls, one per airport that is due: the first quota error ends them.
FetchFee(p) ==
    /\ pc[p] = "fee" /\ ~Blocked(p) /\ p \notin errq
    /\ errq' = errq \cup {p} /\ told' = told \cup {p}
    /\ pc' = [pc EXCEPT ![p] = "icnfee"]
    /\ UNCHANGED <<now, config, dbVars, lease, started, until, failq, overlap, hits>>

EndFees(p) ==
    /\ pc[p] = "fee"
    /\ pc' = [pc EXCEPT ![p] = "icnfee"]
    /\ UNCHANGED <<now, config, dbVars, lease, started, until, failq, errq, histVars>>

\* The Incheon fee call is made even when KAC is blocked.
FetchIncheonFee(p) ==
    /\ pc[p] = "icnfee"
    /\ pc' = [pc EXCEPT ![p] = "end"]
    /\ UNCHANGED errq \/ (incheon /\ errq' = errq \cup {p})
    /\ UNCHANGED <<now, config, dbVars, lease, started, until, failq, histVars>>

--------------------------------------------------------------------------------
(* The end of a run.                                                       *)

Hits(p, stored) ==
    IF p \in told THEN hits \cup {[started |-> started[p], stored |-> stored]} ELSE hits

\* Without an exception everything is committed at once, the adopted deadline too.
Finish(p) ==
    /\ pc[p] = "end" /\ ~QuotaLocked(p)
    /\ quota' = IF Blocked(p) THEN Retained(p) ELSE Outcome(p, p \in errq)
    /\ latest' = Latest(quota', started[p], p \in errq)
    /\ hits' = Hits(p, TRUE)
    /\ Leave(p)
    /\ UNCHANGED <<now, config, runs, overlap>>

\* An exception while storing or parsing: the transaction is rolled back, and a new one records
\* the outcome from the error list as it is and closes the run with the exception's text.
Fail(p) ==
    /\ pc[p] \notin {"idle", "check", "begin"}
    /\ mapCurrent /\ pc[p] = "icn" => Blocked(p) \* the calls catch their own errors
    /\ Blocked(p) \/ ~QuotaLocked(p)
    /\ quota' = Outcome(p, p \in errq)
    /\ latest' = Latest(quota', started[p], FALSE)
    /\ hits' = Hits(p, pc[p] # "store")
    /\ Leave(p)
    /\ UNCHANGED <<now, config, runs, overlap>>

\* The process dies, or an insert or the final commit fails outside the try block.
Crash(p) ==
    /\ pc[p] # "idle"
    /\ Leave(p)
    /\ UNCHANGED <<now, config, dbVars, overlap, hits>>

--------------------------------------------------------------------------------
Collect(p) ==
    \/ Acquire(p) \/ LoseLease(p) \/ Check(p) \/ Skip(p) \/ Begin(p)
    \/ FetchKac(p) \/ FetchIncheon(p) \/ Store(p)
    \/ FetchFee(p) \/ EndFees(p) \/ FetchIncheonFee(p)
    \/ Finish(p) \/ Fail(p) \/ Crash(p)

Next ==
    \/ Tick
    \/ OtherRun
    \/ \E p \in Proc : Collect(p)

Spec == Init /\ [][Next]_vars

--------------------------------------------------------------------------------
\* A deadline in force is neither moved nor cleared, and the ledger's origin never goes back: a
\* blocked run only reads it, and an older run's late result leaves it alone
\* (_record_quota_outcome).
LedgerForward ==
    [][quota.known => /\ quota'.known
                      /\ quota'.started >= quota.started
                      /\ quota.due > now => quota' = quota]_vars

\* As long as no collection has outlived its lock, KAC (parking or fee) is not called while a
\* recorded deadline is in force, although a run reads the ledger only once, before its waits
\* (_collect_unlocked).
QuotaRespected ==
    \A p \in Proc :
        pc[p] \in {"kac", "fee"} /\ ~Blocked(p) /\ ~overlap => quota.due <= now

\* The ledger does not let the next run call KAC at once after a run of time t was refused.
Remembered(t) == quota.known /\ (quota.started > t \/ quota.due > t)

\* A run that KAC refused leaves the deadline behind when it got past its store, whether it then
\* ends well or with an exception (_collect_unlocked).
QuotaRecorded == \A h \in hits : h.stored => Remembered(h.started)

\* docs/airport-quota-deadline.md: a refused run fixes the deadline, with the map flag on or off.
QuotaAlwaysRecorded == \A h \in hits : Remembered(h.started)
================================================================================
