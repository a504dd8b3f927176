--------------------------- MODULE AirportQuotaProofs ---------------------------
(***************************************************************************)
(* Proofs about AirportQuota for any number of processes, runs and ticks.  *)
(***************************************************************************)
EXTENDS AirportQuota, TLAPS

\* A run starts before it ends.
StartedPast == \A p \in Proc : started[p] <= now

\* A blocked run makes no KAC parking call.
KacUnblocked == \A p \in Proc : pc[p] = "kac" => ~Blocked(p)

\* A run that KAC refused was not blocked, and carries the quota error in its error list or, with
\* the map tables and before its store, among the failures.
RefusalCarried ==
    \A p \in told :
        /\ ~Blocked(p) /\ pc[p] \notin {"idle", "check", "begin"}
        /\ p \in errq \/ (mapCurrent /\ p \in failq /\ pc[p] \in {"icn", "store"})

\* Until a collection has outlived its lock, whoever is collecting holds it, and no deadline has
\* come into force since it read the ledger.
LockHeld ==
    ~overlap => \A p \in Proc :
        /\ pc[p] # "idle" => lease = p
        /\ pc[p] \notin {"idle", "check"} /\ ~Blocked(p) => quota.due <= now

\* The inductive invariant.
QuotaInv == TypeOK /\ StartedPast /\ KacUnblocked /\ RefusalCarried /\ LockHeld /\ QuotaRecorded

--------------------------------------------------------------------------------
\* What the ledger's operators return is a row, and what Check reads is a deadline.
LEMMA LedgerTypes ==
    ASSUME TypeOK, NEW p \in Proc
    PROVE  /\ \A b \in BOOLEAN : Outcome(p, b) \in QuotaRow \cup {NoRow}
           /\ Retained(p) \in QuotaRow \cup {NoRow}
           /\ BlockedUntil \in Deadline \cup {None}
<1> USE QuotaAssumption DEF TypeOK, Time, Deadline
<1>1. ASSUME NEW b \in BOOLEAN PROVE Outcome(p, b) \in QuotaRow \cup {NoRow}
  <2>1. started[p] \in Time /\ started[p] + Backoff \in Deadline
    OBVIOUS
  <2>2. Learnt(p, b) \in QuotaRow
    BY <2>1 DEF Learnt, QuotaRow
  <2>3. QED
    BY <2>2 DEF Outcome
<1>2. Retained(p) \in QuotaRow \cup {NoRow}
  <2>1. Blocked(p) => until[p] \in Deadline /\ until[p] - Backoff \in Time
    BY DEF Blocked
  <2>2. QED
    BY <2>1 DEF Retained, QuotaRow
<1>3. BlockedUntil \in Deadline \cup {None}
  <2>1. CASE quota.known
    <3>1. quota.due \in Deadline \cup {None}
      <4>1. ~NoRow.known
        BY DEF NoRow
      <4>2. quota \in QuotaRow
        BY <2>1, <4>1
      <4>3. QED
        BY <4>2 DEF QuotaRow
    <3>2. QED
      BY <2>1, <3>1 DEF BlockedUntil
  <2>2. CASE ~quota.known
    <3>1. latest.quota => latest.started + Backoff \in Deadline
      BY DEF NoRun
    <3>2. QED
      BY <2>2, <3>1 DEF BlockedUntil
  <2>3. QED
    BY <2>1, <2>2
<1>4. QED
  BY <1>1, <1>2, <1>3

\* Latest returns a run.
LEMMA LatestType ==
    ASSUME TypeOK, NEW row, NEW at \in Time, NEW b \in BOOLEAN
    PROVE  Latest(row, at, b) \in [started: Time, quota: BOOLEAN] \cup {NoRun}
  BY DEF Latest, TypeOK

\* The initial state is well typed.
LEMMA TypeInit == Init => TypeOK
<1> SUFFICES ASSUME Init PROVE TypeOK
  OBVIOUS
<1>1. latest \in [started: Time, quota: BOOLEAN] \cup {NoRun}
  <2>1. 0 \in Time
    BY QuotaAssumption DEF Time
  <2>2. [started |-> 0, quota |-> TRUE] \in [started: Time, quota: BOOLEAN]
    BY <2>1
  <2>3. QED
    BY <2>2 DEF Init
<1>2. /\ pc \in [Proc -> Phase]
      /\ started \in [Proc -> Time]
      /\ until \in [Proc -> Deadline \cup {None}]
  BY QuotaAssumption DEF Init, Phase, Time
<1>3. QED
  <2>1. now \in Time /\ runs \in 0..MaxRuns
    BY QuotaAssumption DEF Init, Time
  <2>2. quota \in QuotaRow \cup {NoRow}
    BY DEF Init
  <2>3. QED
    BY <1>1, <1>2, <2>1, <2>2, Zenon DEF Init, TypeOK

\* Leaving a run keeps the types of the processes.
LEMMA LeaveTypes ==
    ASSUME TypeOK, NEW p \in Proc, Leave(p)
    PROVE  /\ lease' \in Proc \cup {NoProc}
           /\ pc' \in [Proc -> Phase]
           /\ started' \in [Proc -> Time]
           /\ until' \in [Proc -> Deadline \cup {None}]
           /\ failq' \subseteq Proc /\ errq' \subseteq Proc /\ told' \subseteq Proc
  BY QuotaAssumption DEF TypeOK, Leave, Phase, Time

\* Every action keeps the types.
LEMMA TypeStep == TypeOK /\ [Next]_vars => TypeOK'
<1> USE QuotaAssumption DEF vars, config, dbVars, procVars, histVars
<1>1. ASSUME TypeOK, [Next]_vars PROVE TypeOK'
  <2> USE <1>1
  <2>1. CASE Tick
    BY <2>1 DEF Tick, TypeOK, Time
  <2>2. CASE OtherRun
    <3>1. latest' \in [started: Time, quota: BOOLEAN] \cup {NoRun}
      BY <2>2, LatestType DEF OtherRun, TypeOK
    <3>2. QED
      BY <2>2, <3>1 DEF OtherRun, TypeOK
  <2>3. ASSUME NEW p \in Proc, Acquire(p) \/ LoseLease(p) \/ Check(p) PROVE TypeOK'
    <3>1. CASE Check(p)
      <4>1. until' \in [Proc -> Deadline \cup {None}]
        BY <3>1, LedgerTypes DEF Check, TypeOK
      <4>2. QED
        BY <3>1, <4>1 DEF Check, TypeOK, Phase
    <3>2. CASE Acquire(p) \/ LoseLease(p)
      BY <3>2 DEF Acquire, LoseLease, TypeOK, Phase
    <3>3. QED
      BY <2>3, <3>1, <3>2
  <2>4. ASSUME NEW p \in Proc, Skip(p) PROVE TypeOK'
    <3>1. quota' \in QuotaRow \cup {NoRow}
      BY <2>4, LedgerTypes DEF Skip
    <3>2. runs' \in 0..MaxRuns
      BY <2>4 DEF Skip, TypeOK
    <3>3. QED
      BY <2>4, <3>1, <3>2, LeaveTypes DEF Skip, TypeOK
  <2>5. ASSUME NEW p \in Proc, Begin(p) PROVE TypeOK'
    <3>1. quota' \in QuotaRow \cup {NoRow}
      BY <2>5, LedgerTypes DEF Begin, TypeOK
    <3>2. latest' \in [started: Time, quota: BOOLEAN] \cup {NoRun}
      <4>1. Latest(quota', now, FALSE) \in [started: Time, quota: BOOLEAN] \cup {NoRun}
        BY LatestType DEF TypeOK
      <4>2. QED
        BY <2>5, <4>1 DEF Begin, TypeOK
    <3>3. runs' \in 0..MaxRuns
      BY <2>5 DEF Begin, TypeOK
    <3>4. pc' \in [Proc -> Phase]
      BY <2>5 DEF Begin, TypeOK, Phase
    <3>5. QED
      BY <2>5, <3>1, <3>2, <3>3, <3>4 DEF Begin, TypeOK
  <2>6. ASSUME NEW p \in Proc, FetchKac(p) \/ FetchIncheon(p) PROVE TypeOK'
    BY <2>6 DEF FetchKac, FetchIncheon, Refused, AfterKac, TypeOK, Phase
  <2>7. ASSUME NEW p \in Proc, Store(p) \/ FetchFee(p) \/ EndFees(p) \/ FetchIncheonFee(p)
        PROVE TypeOK'
    BY <2>7 DEF Store, FetchFee, EndFees, FetchIncheonFee, TypeOK, Phase
  <2>8. ASSUME NEW p \in Proc, Finish(p) \/ Fail(p) PROVE TypeOK'
    <3>1. (p \in errq) \in BOOLEAN
      OBVIOUS
    <3>2. quota' \in QuotaRow \cup {NoRow}
      BY <2>8, <3>1, LedgerTypes DEF Finish, Fail
    <3>3. started[p] \in Time
      BY DEF TypeOK
    <3>4. latest' \in [started: Time, quota: BOOLEAN] \cup {NoRun}
      <4>1. ASSUME NEW b \in BOOLEAN
            PROVE  Latest(quota', started[p], b) \in [started: Time, quota: BOOLEAN] \cup {NoRun}
        BY <3>3, LatestType
      <4>2. \/ latest' = Latest(quota', started[p], FALSE)
            \/ latest' = Latest(quota', started[p], p \in errq)
        BY <2>8 DEF Finish, Fail
      <4>3. QED
        BY <3>1, <4>1, <4>2, Zenon
    <3>5. hits' \subseteq [started: Time, stored: BOOLEAN]
      <4>1. ASSUME NEW b \in BOOLEAN
            PROVE  Hits(p, b) \subseteq [started: Time, stored: BOOLEAN]
        BY <3>3 DEF Hits, TypeOK
      <4>2. hits' = Hits(p, TRUE) \/ hits' = Hits(p, pc[p] # "store")
        BY <2>8 DEF Finish, Fail
      <4>3. (pc[p] # "store") \in BOOLEAN
        OBVIOUS
      <4>4. QED
        BY <4>1, <4>2, <4>3
    <3>6. QED
      BY <2>8, <3>2, <3>4, <3>5, LeaveTypes DEF Finish, Fail, TypeOK
  <2>9. ASSUME NEW p \in Proc, Crash(p) PROVE TypeOK'
    BY <2>9, LeaveTypes DEF Crash, TypeOK
  <2>10. CASE UNCHANGED vars
    BY <2>10 DEF TypeOK
  <2>11. QED
    BY <2>1, <2>2, <2>3, <2>4, <2>5, <2>6, <2>7, <2>8, <2>9, <2>10 DEF Next, Collect
<1>2. QED
  BY <1>1

--------------------------------------------------------------------------------
\* A row that is known is a row of the ledger.
LEMMA KnownRow == TypeOK /\ quota.known => quota \in QuotaRow
<1>1. ~NoRow.known
  BY DEF NoRow
<1>2. QED
  BY <1>1 DEF TypeOK

\* The clock and the deadline are numbers; an unknown row is the empty one.
LEMMA LedgerNumbers ==
    TypeOK => now \in Nat /\ quota.due \in Int /\ (quota.known \/ quota = NoRow)
<1> SUFFICES ASSUME TypeOK PROVE now \in Nat /\ quota.due \in Int /\ (quota.known \/ quota = NoRow)
  OBVIOUS
<1>1. now \in Nat
  BY QuotaAssumption DEF TypeOK, Time
<1>2. CASE quota = NoRow
  BY <1>1, <1>2 DEF NoRow, None
<1>3. CASE quota \in QuotaRow
  <2>1. quota.known = TRUE /\ quota.due \in Deadline \cup {None}
    BY <1>3 DEF QuotaRow
  <2>2. QED
    BY <1>1, <2>1, QuotaAssumption DEF Deadline, None
<1>4. QED
  BY <1>2, <1>3 DEF TypeOK

\* A new outcome replaces the row only if neither its origin nor its deadline is after the start
\* of the run.
LEMMA OutcomeFenced ==
    ASSUME TypeOK, NEW p \in Proc, NEW b \in BOOLEAN
    PROVE  \/ Outcome(p, b) = quota
           \/ /\ Outcome(p, b) = Learnt(p, b)
              /\ quota.known => quota.started <= started[p] /\ quota.due <= started[p]
<1>1. started[p] \in Int
  BY QuotaAssumption DEF TypeOK, Time
<1>2. quota.known => quota.started \in Int /\ quota.due \in Int
  BY KnownRow, QuotaAssumption DEF QuotaRow, Time, Deadline, None
<1>3. QED
  BY <1>1, <1>2 DEF Outcome

\* How the ledger may change: not at all, from no row to an adopted deadline, or to what a run
\* learnt.
LEMMA LedgerStep ==
    ASSUME TypeOK, Next
    PROVE  \/ quota' = quota
           \/ ~quota.known /\ \E p \in Proc : Blocked(p) /\ quota' = Retained(p)
           \/ \E p \in Proc, b \in BOOLEAN : quota' = Learnt(p, b)
                 /\ (quota.known => quota.started <= started[p] /\ quota.due <= started[p])
<1> USE DEF vars, config, dbVars, procVars, histVars
<1>1. CASE Tick \/ OtherRun
  BY <1>1 DEF Tick, OtherRun
<1>2. ASSUME NEW p \in Proc, Collect(p), ~Finish(p), ~Fail(p)
      PROVE  quota' = quota \/ quota' = Retained(p)
  BY <1>2 DEF Collect, Acquire, LoseLease, Check, Skip, Begin, FetchKac, FetchIncheon, Store,
     FetchFee, EndFees, FetchIncheonFee, Crash
<1>3. ASSUME NEW p \in Proc, Finish(p) \/ Fail(p)
      PROVE  quota' = Retained(p) \/ \E b \in BOOLEAN : quota' = Outcome(p, b)
  <2>1. quota' = Retained(p) \/ quota' = Outcome(p, p \in errq)
    BY <1>3 DEF Finish, Fail
  <2>2. (p \in errq) \in BOOLEAN
    OBVIOUS
  <2>3. QED
    BY <2>1, <2>2, Zenon
<1>4. ASSUME NEW p \in Proc
      PROVE  Retained(p) = quota \/ (Blocked(p) /\ ~quota.known)
  BY DEF Retained
<1>5. QED
  BY <1>1, <1>2, <1>3, <1>4, OutcomeFenced DEF Next

--------------------------------------------------------------------------------
\* Runs start in the past.
LEMMA StartedStep == TypeOK /\ StartedPast /\ [Next]_vars => StartedPast'
<1> USE QuotaAssumption DEF vars, config, dbVars, procVars, histVars, Time
<1>1. ASSUME TypeOK, StartedPast, [Next]_vars PROVE StartedPast'
  <2> USE <1>1 DEF TypeOK, StartedPast
  <2>1. CASE Tick
    BY <2>1 DEF Tick
  <2>2. CASE OtherRun \/ UNCHANGED vars
    BY <2>2 DEF OtherRun
  <2>3. ASSUME NEW p \in Proc, Collect(p) PROVE StartedPast'
    <3>1. now' = now
      BY <2>3 DEF Collect, Acquire, LoseLease, Check, Skip, Begin, FetchKac, FetchIncheon, Store,
         FetchFee, EndFees, FetchIncheonFee, Finish, Fail, Crash
    <3>2. started' = started \/ \E t \in {0, now} : started' = [started EXCEPT ![p] = t]
      BY <2>3 DEF Collect, Acquire, LoseLease, Check, Skip, Begin, FetchKac, FetchIncheon, Store,
         FetchFee, EndFees, FetchIncheonFee, Finish, Fail, Crash, Leave
    <3>3. QED
      BY <3>1, <3>2
  <2>4. QED
    BY <2>1, <2>2, <2>3 DEF Next
<1>2. QED
  BY <1>1

\* The KAC parking call comes after Begin found the run not blocked.
LEMMA KacStep == TypeOK /\ KacUnblocked /\ [Next]_vars => KacUnblocked'
<1> USE DEF vars, config, dbVars, procVars, histVars
<1>1. ASSUME TypeOK, KacUnblocked, [Next]_vars PROVE KacUnblocked'
  <2> USE <1>1 DEF TypeOK, KacUnblocked, Blocked
  <2>1. CASE Tick \/ OtherRun \/ UNCHANGED vars
    BY <2>1 DEF Tick, OtherRun
  <2>2. ASSUME NEW p \in Proc, Acquire(p) \/ LoseLease(p) \/ Check(p) \/ Begin(p)
        PROVE  KacUnblocked'
    BY <2>2 DEF Acquire, LoseLease, Check, Begin
  <2>3. ASSUME NEW p \in Proc, FetchKac(p) \/ FetchIncheon(p) \/ Store(p) \/ FetchFee(p)
                                 \/ EndFees(p) \/ FetchIncheonFee(p)
        PROVE  KacUnblocked'
    BY <2>3 DEF FetchKac, FetchIncheon, Store, FetchFee, EndFees, FetchIncheonFee, AfterKac
  <2>4. ASSUME NEW p \in Proc, Skip(p) \/ Finish(p) \/ Fail(p) \/ Crash(p) PROVE KacUnblocked'
    <3>1. Leave(p)
      BY <2>4 DEF Skip, Finish, Fail, Crash
    <3>2. QED
      BY <3>1 DEF Leave
  <2>5. QED
    BY <2>1, <2>2, <2>3, <2>4 DEF Next, Collect
<1>2. QED
  BY <1>1

\* What KAC's refusal of a run leaves in its variables, step by step.
LEMMA RefusalStep == TypeOK /\ KacUnblocked /\ RefusalCarried /\ [Next]_vars => RefusalCarried'
<1> USE DEF vars, config, dbVars, procVars, histVars
<1>1. ASSUME TypeOK, KacUnblocked, RefusalCarried, [Next]_vars PROVE RefusalCarried'
  <2> USE <1>1 DEF TypeOK, RefusalCarried, Blocked
  <2>1. CASE Tick \/ OtherRun \/ UNCHANGED vars
    BY <2>1 DEF Tick, OtherRun
  <2>2. ASSUME NEW p \in Proc, Acquire(p) \/ LoseLease(p) \/ Check(p) \/ Begin(p)
        PROVE  RefusalCarried'
    BY <2>2 DEF Acquire, LoseLease, Check, Begin
  <2>3. ASSUME NEW p \in Proc, FetchKac(p) PROVE RefusalCarried'
    <3>1. pc[p] = "kac" /\ pc' = [pc EXCEPT ![p] = AfterKac] /\ UNCHANGED <<mapCurrent, until>>
      BY <2>3 DEF FetchKac
    <3>2. AfterKac \in {"icn", "store", "fee"} /\ (mapCurrent => AfterKac # "fee")
      BY DEF AfterKac
    <3>3. CASE UNCHANGED <<failq, errq, told>>
      BY <3>1, <3>2, <3>3
    <3>4. CASE Refused(p) /\ told' = told \cup {p}
      <4>1. /\ failq \subseteq failq' /\ errq \subseteq errq'
            /\ IF mapCurrent THEN p \in failq' ELSE p \in errq'
        BY <3>4 DEF Refused
      <4>2. ASSUME NEW q \in told \ {p}
            PROVE  /\ ~Blocked(q)' /\ pc'[q] \notin {"idle", "check", "begin"}
                   /\ q \in errq' \/ (mapCurrent' /\ q \in failq' /\ pc'[q] \in {"icn", "store"})
        BY <3>1, <4>1
      <4>3. ~Blocked(p)'
        BY <3>1 DEF KacUnblocked
      <4>4. QED
        BY <3>1, <3>2, <3>4, <4>1, <4>2, <4>3
    <3>5. QED
      BY <2>3, <3>3, <3>4 DEF FetchKac
  <2>4. ASSUME NEW p \in Proc, FetchIncheon(p) PROVE RefusalCarried'
    BY <2>4 DEF FetchIncheon, Refused
  <2>5. ASSUME NEW p \in Proc, Store(p) \/ FetchFee(p) \/ EndFees(p) \/ FetchIncheonFee(p)
        PROVE  RefusalCarried'
    BY <2>5 DEF Store, FetchFee, EndFees, FetchIncheonFee
  <2>6. ASSUME NEW p \in Proc, Skip(p) \/ Finish(p) \/ Fail(p) \/ Crash(p) PROVE RefusalCarried'
    <3>1. Leave(p) /\ mapCurrent' = mapCurrent
      BY <2>6 DEF Skip, Finish, Fail, Crash
    <3>2. QED
      BY <3>1 DEF Leave
  <2>7. QED
    BY <2>1, <2>2, <2>3, <2>4, <2>5, <2>6 DEF Next, Collect
<1>2. QED
  BY <1>1

\* Mutual exclusion and the freshness of what the lock's holder has read.
LEMMA LockStep == TypeOK /\ LockHeld /\ [Next]_vars => LockHeld'
<1> USE QuotaAssumption DEF vars, config, dbVars, procVars, histVars
<1>1. ASSUME TypeOK, LockHeld, [Next]_vars, ~overlap' PROVE LockHeld'
  <2>0. ~overlap
    BY <1>1 DEF Next, Tick, OtherRun, Collect, Acquire, LoseLease, Check, Skip, Begin, FetchKac,
       FetchIncheon, Store, FetchFee, EndFees, FetchIncheonFee, Finish, Fail, Crash
  <2> USE <1>1, <2>0 DEF LockHeld
  <2>1. CASE Tick
    <3>1. now \in Int /\ quota.due \in Int
      BY LedgerNumbers
    <3>2. QED
      BY <2>1, <3>1 DEF Tick, Blocked
  <2>2. CASE OtherRun \/ UNCHANGED vars
    BY <2>2 DEF OtherRun, Blocked
  <2>3. ASSUME NEW p \in Proc, Check(p) PROVE LockHeld'
    <3>1. BlockedUntil = None => quota.due <= now
      <4>1. now \in Int /\ quota.due \in Int /\ (quota.known \/ quota = NoRow)
        BY LedgerNumbers
      <4>2. ~quota.known => quota.due <= now
        BY <4>1, LedgerNumbers DEF NoRow, None
      <4>3. QED
        BY <4>1, <4>2 DEF BlockedUntil, None, TypeOK, Time
    <3>2. QED
      BY <2>3, <3>1 DEF Check, Blocked, TypeOK
  <2>4. ASSUME NEW p \in Proc, Acquire(p) PROVE LockHeld'
    BY <2>4 DEF Acquire, Blocked, TypeOK
  <2>5. ASSUME NEW p \in Proc, LoseLease(p) PROVE LockHeld'
    BY <2>5 DEF LoseLease
  <2>6. ASSUME NEW p \in Proc, Begin(p) PROVE LockHeld'
    <3>1. \A q \in Proc \ {p} : pc[q] = "idle"
      BY <2>6 DEF Begin
    <3>2. ~Blocked(p) => quota' = quota
      BY <2>6 DEF Begin, Retained
    <3>3. QED
      BY <2>6, <3>1, <3>2 DEF Begin, Blocked, TypeOK
  <2>7. ASSUME NEW p \in Proc, FetchKac(p) \/ FetchIncheon(p) \/ Store(p) \/ FetchFee(p)
                                 \/ EndFees(p) \/ FetchIncheonFee(p)
        PROVE  LockHeld'
    BY <2>7 DEF FetchKac, FetchIncheon, Store, FetchFee, EndFees, FetchIncheonFee, Blocked, TypeOK
  <2>8. ASSUME NEW p \in Proc, Skip(p) \/ Finish(p) \/ Fail(p) \/ Crash(p) PROVE LockHeld'
    <3>1. Leave(p) /\ pc[p] # "idle"
      BY <2>8 DEF Skip, Finish, Fail, Crash
    <3>2. \A q \in Proc : pc'[q] = "idle"
      BY <3>1 DEF Leave, TypeOK
    <3>3. QED
      BY <3>2
  <2>9. QED
    BY <2>1, <2>2, <2>3, <2>4, <2>5, <2>6, <2>7, <2>8 DEF Next, Collect
<1>2. QED
  BY <1>1 DEF LockHeld

\* What a run learns outlives every hit that the ledger remembered before.
LEMMA StillRemembered ==
    ASSUME TypeOK, Next, NEW t \in Time, Remembered(t)
    PROVE  Remembered(t)'
<1>1. quota.known /\ quota.started \in Int /\ quota.due \in Int
  BY KnownRow, QuotaAssumption DEF Remembered, QuotaRow, Time, Deadline, None
<1>2. CASE quota' = quota
  BY <1>2 DEF Remembered
<1>3. ASSUME NEW p \in Proc, NEW b \in BOOLEAN, quota' = Learnt(p, b),
             quota.started <= started[p], quota.due <= started[p]
      PROVE  Remembered(t)'
  <2>1. started[p] \in Int /\ t \in Int
    BY QuotaAssumption DEF TypeOK, Time
  <2>2. quota'.known /\ quota'.started = started[p]
    BY <1>3 DEF Learnt
  <2>3. quota'.started > t
    BY <1>1, <1>3, <2>1, <2>2 DEF Remembered
  <2>4. QED
    BY <2>2, <2>3 DEF Remembered
<1>4. QED
  BY <1>1, <1>2, <1>3, LedgerStep

\* The hit of the run that ends now is remembered, if it got past its store.
LEMMA HitRemembered ==
    ASSUME TypeOK, RefusalCarried, NEW p \in told, NEW t, t = started[p],
           Finish(p) \/ (Fail(p) /\ pc[p] # "store")
    PROVE  Remembered(t)'
<1>1. p \in Proc /\ t \in Int /\ t + Backoff > t
  BY QuotaAssumption DEF TypeOK, Time
<1>2. ~Blocked(p)
  BY DEF RefusalCarried
<1>3. p \in errq
  BY <1>2 DEF RefusalCarried, Finish, Fail
<1>4. quota' = Outcome(p, TRUE)
  BY <1>2, <1>3 DEF Finish, Fail
<1>5. CASE quota.known /\ (quota.started > started[p] \/ quota.due > started[p])
  <2>1. quota' = quota
    BY <1>4, <1>5 DEF Outcome
  <2>2. QED
    BY <1>5, <2>1 DEF Remembered
<1>6. CASE ~(quota.known /\ (quota.started > started[p] \/ quota.due > started[p]))
  <2>1. quota' = Learnt(p, TRUE)
    BY <1>2, <1>4, <1>6 DEF Outcome
  <2>2. quota'.known /\ quota'.due = started[p] + Backoff
    BY <2>1 DEF Learnt
  <2>3. QED
    BY <1>1, <2>2 DEF Remembered
<1>7. QED
  BY <1>5, <1>6

\* Ended runs stay remembered.
LEMMA RecordedStep ==
    TypeOK /\ RefusalCarried /\ QuotaRecorded /\ [Next]_vars => QuotaRecorded'
<1> USE DEF vars, config, dbVars, procVars, histVars
<1>1. ASSUME TypeOK, RefusalCarried, QuotaRecorded, [Next]_vars PROVE QuotaRecorded'
  <2> USE <1>1
  <2>1. CASE UNCHANGED vars
    BY <2>1 DEF QuotaRecorded, Remembered
  <2>2. CASE Next
    <3>1. ASSUME NEW h \in hits, h.stored PROVE Remembered(h.started)'
      <4>1. h.started \in Time /\ Remembered(h.started)
        BY <3>1 DEF TypeOK, QuotaRecorded
      <4>2. QED
        BY <2>2, <4>1, StillRemembered
    <3>2. \/ hits' = hits
          \/ \E p \in told : \/ Finish(p) /\ hits' = hits \cup {[started |-> started[p], stored |-> TRUE]}
                             \/ Fail(p) /\ hits' = hits \cup {[started |-> started[p],
                                                              stored |-> pc[p] # "store"]}
      BY <2>2 DEF Next, Tick, OtherRun, Collect, Acquire, LoseLease, Check, Skip, Begin, FetchKac,
         FetchIncheon, Store, FetchFee, EndFees, FetchIncheonFee, Finish, Fail, Crash, Hits
    <3>3. CASE hits' = hits
      BY <3>1, <3>3 DEF QuotaRecorded
    <3>4. ASSUME NEW p \in told, Finish(p),
                 hits' = hits \cup {[started |-> started[p], stored |-> TRUE]}
          PROVE  QuotaRecorded'
      <4>1. PICK t : t = started[p]
        OBVIOUS
      <4>2. Remembered(t)'
        BY <3>4, <4>1, HitRemembered
      <4>3. hits' = hits \cup {[started |-> t, stored |-> TRUE]}
        BY <3>4, <4>1
      <4>4. QED
        BY <3>1, <4>2, <4>3 DEF QuotaRecorded
    <3>5. ASSUME NEW p \in told, Fail(p),
                 hits' = hits \cup {[started |-> started[p], stored |-> pc[p] # "store"]}
          PROVE  QuotaRecorded'
      <4>1. PICK t, b : t = started[p] /\ b = (pc[p] # "store")
        OBVIOUS
      <4>2. b => Remembered(t)'
        BY <3>5, <4>1, HitRemembered
      <4>3. hits' = hits \cup {[started |-> t, stored |-> b]}
        BY <3>5, <4>1
      <4>4. QED
        BY <3>1, <4>2, <4>3 DEF QuotaRecorded
    <3>6. QED
      BY <3>2, <3>3, <3>4, <3>5
  <2>3. QED
    BY <2>1, <2>2
<1>2. QED
  BY <1>1

--------------------------------------------------------------------------------
\* The inductive invariant holds: types, starts in the past, refusals carried to the end of the
\* run, the lock, and the deadlines of the refused runs.
THEOREM Invariant == Spec => []QuotaInv
<1>1. Init => QuotaInv
  <2> SUFFICES ASSUME Init PROVE QuotaInv
    OBVIOUS
  <2>1. TypeOK
    BY TypeInit
  <2>2. StartedPast /\ KacUnblocked /\ RefusalCarried /\ QuotaRecorded
    BY DEF Init, StartedPast, KacUnblocked, RefusalCarried, QuotaRecorded
  <2>3. LockHeld
    BY DEF Init, LockHeld
  <2>4. QED
    BY <2>1, <2>2, <2>3 DEF QuotaInv
<1>2. QuotaInv /\ [Next]_vars => QuotaInv'
  BY TypeStep, StartedStep, KacStep, RefusalStep, LockStep, RecordedStep DEF QuotaInv
<1>3. QED
  BY <1>1, <1>2, PTL DEF Spec

\* Types hold in every reachable state of the collector.
THEOREM TypeCorrect == Spec => []TypeOK
<1>1. QuotaInv => TypeOK
  BY DEF QuotaInv
<1>2. QED
  BY <1>1, Invariant, PTL

\* While no collection has outlived its lock, KAC is never called under a recorded deadline.
THEOREM Respected == Spec => []QuotaRespected
<1>1. QuotaInv => QuotaRespected
  BY DEF QuotaInv, LockHeld, QuotaRespected
<1>2. QED
  BY <1>1, Invariant, PTL

\* A run that KAC refused and that got past its store always leaves its deadline behind.
THEOREM Recorded == Spec => []QuotaRecorded
<1>1. QuotaInv => QuotaRecorded
  BY DEF QuotaInv
<1>2. QED
  BY <1>1, Invariant, PTL

\* A deadline in force is never moved and the ledger's origin never goes back, with any number of
\* overlapping runs.
THEOREM Forward == Spec => LedgerForward
<1> DEFINE Step == quota.known => /\ quota'.known
                                  /\ quota'.started >= quota.started
                                  /\ (quota.due > now => quota' = quota)
<1>1. QuotaInv /\ [Next]_vars => [Step]_vars
  <2> SUFFICES ASSUME QuotaInv, Next, quota.known
               PROVE  /\ quota'.known
                      /\ quota'.started >= quota.started
                      /\ quota.due > now => quota' = quota
    OBVIOUS
  <2>1. TypeOK /\ StartedPast
    BY DEF QuotaInv
  <2>2. quota.started \in Int /\ quota.due \in Int /\ now \in Int
    BY <2>1, KnownRow, LedgerNumbers, QuotaAssumption DEF QuotaRow, Time
  <2>3. CASE quota' = quota
    BY <2>2, <2>3
  <2>4. ASSUME NEW p \in Proc, NEW b \in BOOLEAN, quota' = Learnt(p, b),
               quota.started <= started[p], quota.due <= started[p]
        PROVE  quota'.known /\ quota'.started >= quota.started /\ ~(quota.due > now)
    <3>1. started[p] \in Int /\ started[p] <= now
      BY <2>1, QuotaAssumption DEF TypeOK, StartedPast, Time
    <3>2. quota'.known /\ quota'.started = started[p]
      BY <2>4 DEF Learnt
    <3>3. QED
      BY <2>2, <2>4, <3>1, <3>2
  <2>5. QED
    BY <2>1, <2>3, <2>4, LedgerStep
<1>2. QED
  BY <1>1, Invariant, PTL DEF Spec, LedgerForward
================================================================================
