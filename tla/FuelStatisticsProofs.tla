------------------------- MODULE FuelStatisticsProofs -------------------------
(***************************************************************************)
(* Proofs about FuelStatistics: the published generation is whole, leaves  *)
(* no orphans and never goes back; the daily history is complete.          *)
(***************************************************************************)
EXTENDS FuelStatistics, TLAPS

\* The KST day of a stamp is one of the days of the table.
LEMMA DayOfStamp == ASSUME NEW s \in Stamp0 PROVE DayOf(s) \in Day
  BY StatisticsBounds DEF DayOf, Day, Stamp0

\* The initial state is well typed and satisfies the invariant.
LEMMA StatisticsInit == Init => TypeOK /\ StatisticsInv
<1> SUFFICES ASSUME Init PROVE TypeOK /\ StatisticsInv
  OBVIOUS
<1>1. TypeOK
  BY StatisticsBounds DEF Init, TypeOK, Rows, DayRow, Entry, NoRows, NoDay, NoEntry, Stamp, Stamp0, Day
<1>2. HoldsGeneration /\ HoldsSource /\ Unpublished /\ ReadFromOwn /\ PointerStored /\ KeyPublished
  BY DEF Init, HoldsGeneration, HoldsSource, Unpublished, ReadFromOwn, PointerStored, KeyPublished, Busy
<1>3. PublishedIsWhole /\ NoOrphanPoints /\ ViewportIsWhole
  BY DEF Init, PublishedIsWhole, NoOrphanPoints, ViewportIsWhole, NoRows, NoEntry
<1>4. QED
  BY <1>1, <1>2, <1>3 DEF StatisticsInv

\* Every action keeps the types; only whole batches are pruned, and only existing ones.
LEMMA StatisticsType == TypeOK /\ StatisticsInv /\ [Next]_vars => TypeOK'
<1> SUFFICES ASSUME TypeOK, StatisticsInv, [Next]_vars PROVE TypeOK'
  OBVIOUS
<1> USE StatisticsBounds DEF Stamp, Stamp0
<1>1. CASE Collect
  BY <1>1 DEF TypeOK, Collect, pubVars, readVars
<1>2. ASSUME NEW p \in Pub, NEW s \in Stamp, Enter(p, s) PROVE TypeOK'
  BY <1>2 DEF TypeOK, Enter, readVars
<1>3. ASSUME NEW p \in Pub, Build(p) PROVE TypeOK'
  BY <1>3 DEF TypeOK, Build, readVars
<1>4. ASSUME NEW p \in Pub, Switch(p) PROVE TypeOK'
  BY <1>4 DEF TypeOK, Switch, readVars
<1>5. ASSUME NEW p \in Pub, Publish(p) PROVE TypeOK'
  <2>1. stamp[p] \in Stamp /\ built[p] \in Stamp0
    BY <1>5 DEF TypeOK, Publish, StatisticsInv, HoldsGeneration, Busy
  <2>2. points' \in [Stamp -> Rows]
    BY <1>5, <2>1 DEF TypeOK, Publish, Rows
  <2>3. daily' \in [Day -> DayRow]
    BY <1>5, <2>1 DEF TypeOK, Publish, DayRow, NoDay
  <2>4. genLock' \in [Stamp -> Pub \cup {NoPub}] /\ srcLock' \in Pub \cup {NoPub}
    BY <1>5 DEF TypeOK, Publish, Released
  <2>5. pointer' \in Stamp0 /\ published' \subseteq Stamp /\ success' \in Stamp0
    BY <1>5, <2>1 DEF TypeOK, Publish
  <2>6. /\ pc' \in [Pub -> {"idle", "build", "switch", "publish", "discard", "clean"}]
        /\ stamp' \in [Pub -> Stamp0] /\ built' \in [Pub -> Stamp0]
    BY <1>5 DEF TypeOK, Publish, Released
  <2>7. QED
    BY <1>5, <2>2, <2>3, <2>4, <2>5, <2>6 DEF TypeOK, Publish, readVars
<1>6. ASSUME NEW p \in Pub, Discard(p) PROVE TypeOK'
  <2>1. NoRows \in Rows
    BY DEF Rows, NoRows
  <2>2. points' \in [Stamp -> Rows]
    BY <1>6, <2>1 DEF TypeOK, Discard
  <2>3. QED
    BY <1>6, <2>2 DEF TypeOK, Discard, Released, readVars
<1>7. ASSUME NEW p \in Pub, Fail(p) PROVE TypeOK'
  BY <1>7 DEF TypeOK, Fail, Released, readVars
<1>8. ASSUME NEW p \in Pub, NEW g \in Stamp, Prune(p, g) PROVE TypeOK'
  <2>1. points[g] \in Rows /\ points[g].rows > 0
    BY <1>8 DEF TypeOK, Prune, Outdated
  <2>2. [points[g] EXCEPT !.rows = @ - 1] \in Rows
    BY <2>1 DEF Rows
  <2>3. points' \in [Stamp -> Rows]
    BY <1>8, <2>2 DEF TypeOK, Prune
  <2>4. QED
    BY <1>8, <2>3 DEF TypeOK, Prune, pubVars, readVars
<1>9. ASSUME NEW p \in Pub, CleanupEnds(p) PROVE TypeOK'
  BY <1>9 DEF TypeOK, CleanupEnds, readVars
<1>10. ASSUME NEW r \in Reader, ViewportMiss(r) PROVE TypeOK'
  BY <1>10 DEF TypeOK, ViewportMiss, pubVars
<1>11. ASSUME NEW r \in Reader, ViewportQuery(r) PROVE TypeOK'
  <2>1. pointer \in Stamp /\ key[r] \in Stamp
    BY <1>11 DEF TypeOK, ViewportQuery, StatisticsInv, KeyPublished
  <2>2. cache' \in [Stamp -> Entry]
    BY <1>11, <2>1 DEF TypeOK, ViewportQuery, Entry, Rows
  <2>3. QED
    BY <1>11, <2>2 DEF TypeOK, ViewportQuery, pubVars
<1>12. ASSUME NEW k \in Stamp, Evict(k) PROVE TypeOK'
  BY <1>12 DEF TypeOK, Evict, Entry, NoEntry, pubVars
<1>13. CASE UNCHANGED vars
  BY <1>13 DEF TypeOK, vars, pubVars, readVars
<1>14. QED
  BY <1>1, <1>2, <1>3, <1>4, <1>5, <1>6, <1>7, <1>8, <1>9, <1>10, <1>11, <1>12, <1>13 DEF Next

\* Steps that leave the tables, the locks and the publishers alone.
LEMMA StatisticsQuiet ==
  ASSUME TypeOK, StatisticsInv, TypeOK',
         UNCHANGED <<pointer, points, daily, genLock, srcLock, pubVars>>,
         success' >= success
  PROVE  /\ (HoldsGeneration /\ HoldsSource /\ Unpublished /\ ReadFromOwn)'
         /\ (PointerStored /\ PublishedIsWhole /\ NoOrphanPoints)'
<1>1. HoldsGeneration' /\ HoldsSource' /\ Unpublished'
  BY DEF StatisticsInv, HoldsGeneration, HoldsSource, Unpublished, Busy, pubVars, TypeOK, Stamp0, Stamp
<1>2. ReadFromOwn' /\ PointerStored'
  BY DEF StatisticsInv, ReadFromOwn, PointerStored, pubVars, TypeOK, Stamp0, Stamp
<1>3. PublishedIsWhole' /\ NoOrphanPoints'
  BY DEF StatisticsInv, PublishedIsWhole, NoOrphanPoints, DayOf
<1>4. QED
  BY <1>1, <1>2, <1>3

\* A publisher's steps before it writes: they take locks nobody else holds.
LEMMA StatisticsPrepare ==
  ASSUME TypeOK, StatisticsInv, TypeOK', NEW p \in Pub,
         (\E s \in Stamp : Enter(p, s)) \/ Build(p) \/ Switch(p)
  PROVE  StatisticsInv'
<1> USE StatisticsProcs
<1>1. UNCHANGED <<pointer, points, daily, success, readVars>>
  BY DEF Enter, Build, Switch
<1>2. PointerStored' /\ KeyPublished' /\ PublishedIsWhole' /\ NoOrphanPoints' /\ ViewportIsWhole'
  BY <1>1 DEF StatisticsInv, PointerStored, KeyPublished, PublishedIsWhole, NoOrphanPoints,
              ViewportIsWhole, readVars, DayOf
<1>3. HoldsGeneration' /\ Unpublished'
  <2>1. CASE \E s \in Stamp : Enter(p, s)
    <3>1. PICK s \in Stamp : Enter(p, s)
      BY <2>1
    <3>2. \A q \in Pub \ {p} : Busy(q) => stamp[q] # s
      BY <3>1 DEF Enter, StatisticsInv, HoldsGeneration
    <3>3. QED
      BY <3>1, <3>2 DEF Enter, Overtaken, StatisticsInv, HoldsGeneration, Unpublished, Busy, TypeOK,
                        Stamp, Stamp0
  <2>2. CASE Build(p)
    BY <2>2 DEF Build, StatisticsInv, HoldsGeneration, Unpublished, Busy, TypeOK
  <2>3. CASE Switch(p)
    BY <2>3 DEF Switch, StatisticsInv, HoldsGeneration, Unpublished, Busy, TypeOK
  <2>4. QED
    BY <2>1, <2>2, <2>3
<1>4. HoldsSource'
  BY DEF Enter, Build, Switch, StatisticsInv, HoldsSource, TypeOK
<1>5. ReadFromOwn'
  <2>1. CASE \E s \in Stamp : Enter(p, s)
    BY <2>1 DEF Enter, StatisticsInv, ReadFromOwn, TypeOK
  <2>2. CASE Build(p)
    BY <2>2 DEF Build, StatisticsInv, ReadFromOwn, HoldsGeneration, Busy, TypeOK, Stamp0, Stamp
  <2>3. CASE Switch(p)
    BY <2>3 DEF Switch, Overtaken, StatisticsInv, ReadFromOwn, HoldsGeneration, Busy, TypeOK, Stamp0, Stamp
  <2>4. QED
    BY <2>1, <2>2, <2>3
<1>6. QED
  BY <1>2, <1>3, <1>4, <1>5 DEF StatisticsInv

\* The end of a publisher's transaction, whatever it commits: no other publisher's lock or
\* generation is touched.
LEMMA StatisticsRelease ==
  ASSUME TypeOK, StatisticsInv, TypeOK', NEW p \in Pub, Publish(p) \/ Discard(p) \/ Fail(p)
  PROVE  (HoldsGeneration /\ HoldsSource)'
<1> USE StatisticsProcs
<1>1. \A q \in Pub \ {p} : pc'[q] = pc[q] /\ stamp'[q] = stamp[q]
  BY DEF Publish, Discard, Fail, Released, TypeOK
<1>2. ~Busy(p)' /\ success' = success
  BY DEF Publish, Discard, Fail, Busy, TypeOK
<1>3. \A g \in Stamp : genLock[g] # p => genLock'[g] = genLock[g]
  BY DEF Publish, Discard, Fail, Released, TypeOK
<1>4. HoldsGeneration'
  BY <1>1, <1>2, <1>3 DEF StatisticsInv, HoldsGeneration, Busy
<1>5. srcLock # p => srcLock' = srcLock
  BY DEF Publish, Discard, Fail, Released
<1>6. HoldsSource'
  BY <1>1, <1>2, <1>5 DEF StatisticsInv, HoldsSource, Busy
<1>7. QED
  BY <1>4, <1>6

\* The switch itself: the pointer moves forward, to points read from their own snapshot.
LEMMA StatisticsPublish ==
  ASSUME TypeOK, StatisticsInv, TypeOK', NEW p \in Pub, Publish(p)
  PROVE  StatisticsInv' /\ pointer' > pointer
<1> USE StatisticsProcs DEF Stamp, Stamp0
<1>1. /\ stamp[p] \in Stamp /\ built[p] = stamp[p] /\ pointer < stamp[p] /\ stamp[p] <= success
      /\ genLock[stamp[p]] = p /\ srcLock = p
  BY DEF Publish, StatisticsInv, HoldsGeneration, HoldsSource, ReadFromOwn, Busy
<1>2. pointer' = stamp[p] /\ success' = success /\ UNCHANGED readVars
  BY DEF Publish
<1>3. HoldsGeneration' /\ HoldsSource'
  BY StatisticsRelease
<1>4. \A q \in Pub \ {p} : pc'[q] = pc[q] /\ stamp'[q] = stamp[q] /\ built'[q] = built[q]
  BY DEF Publish, Released, TypeOK
<1>5. pc'[p] = "clean"
  BY DEF Publish, TypeOK
<1>6. Unpublished'
  BY <1>1, <1>2, <1>4, <1>5 DEF StatisticsInv, Unpublished, HoldsGeneration, Busy
<1>7. ReadFromOwn'
  BY <1>1, <1>2, <1>4, <1>5 DEF StatisticsInv, ReadFromOwn, HoldsSource
<1>8. PointerStored' /\ KeyPublished'
  BY <1>1, <1>2 DEF StatisticsInv, PointerStored, KeyPublished, readVars, TypeOK
<1>9. PublishedIsWhole'
  <2>1. points'[stamp[p]] = [rows |-> Chunks, from |-> stamp[p]]
    BY <1>1 DEF Publish, TypeOK
  <2>2. DayOf(stamp[p]) \in Day
    BY <1>1, DayOfStamp
  <2>3. daily'[DayOf(stamp[p])] = [gen |-> stamp[p], from |-> stamp[p]]
    BY <1>1, <2>2 DEF Publish
  <2>4. QED
    BY <1>2, <2>1, <2>3 DEF PublishedIsWhole, DayOf
<1>10. NoOrphanPoints'
  BY <1>1, <1>2 DEF Publish, StatisticsInv, NoOrphanPoints, TypeOK
<1>11. ViewportIsWhole'
  BY <1>2 DEF StatisticsInv, ViewportIsWhole, readVars
<1>12. QED
  BY <1>1, <1>2, <1>3, <1>6, <1>7, <1>8, <1>9, <1>10, <1>11 DEF StatisticsInv, TypeOK

\* A publisher that gives up, by its own decision or by an error, and a prune: neither
\* touches the published generation.
LEMMA StatisticsGiveUp ==
  ASSUME TypeOK, StatisticsInv, TypeOK', NEW p \in Pub,
         Discard(p) \/ Fail(p) \/ CleanupEnds(p) \/ \E g \in Stamp : Prune(p, g)
  PROVE  StatisticsInv'
<1> USE StatisticsProcs DEF Stamp, Stamp0
<1>1. UNCHANGED <<pointer, daily, success, readVars>>
  BY DEF Discard, Fail, CleanupEnds, Prune
<1>2. HoldsGeneration' /\ HoldsSource'
  <2>1. CASE Discard(p) \/ Fail(p)
    BY <2>1, StatisticsRelease
  <2>2. CASE CleanupEnds(p)
    BY <2>2 DEF CleanupEnds, StatisticsInv, HoldsGeneration, HoldsSource, Busy, TypeOK
  <2>3. CASE \E g \in Stamp : Prune(p, g)
    BY <2>3 DEF Prune, StatisticsInv, HoldsGeneration, HoldsSource, Busy, pubVars
  <2>4. QED
    BY <2>1, <2>2, <2>3
<1>3. /\ \A q \in Pub \ {p} : pc'[q] = pc[q] /\ stamp'[q] = stamp[q] /\ built'[q] = built[q]
      /\ ~Busy(p)'
  BY DEF Discard, Fail, CleanupEnds, Prune, Released, Busy, TypeOK, pubVars
<1>4. Unpublished'
  BY <1>1, <1>3 DEF StatisticsInv, Unpublished, Busy
<1>5. ReadFromOwn'
  BY <1>1, <1>3 DEF StatisticsInv, ReadFromOwn, Busy
<1>6. PointerStored' /\ KeyPublished' /\ ViewportIsWhole'
  BY <1>1 DEF StatisticsInv, PointerStored, KeyPublished, ViewportIsWhole, readVars
<1>7. pointer # 0 => points'[pointer] = points[pointer]
  BY DEF Discard, Fail, CleanupEnds, Prune, Outdated, StatisticsInv, Unpublished, Busy, TypeOK
<1>8. PublishedIsWhole'
  BY <1>1, <1>7 DEF StatisticsInv, PublishedIsWhole, DayOf
<1>9. \A g \in Stamp : points'[g].rows > 0 => points[g].rows > 0
  <2>1. CASE Discard(p)
    BY <2>1 DEF Discard, NoRows, TypeOK, Rows
  <2>2. CASE Fail(p) \/ CleanupEnds(p)
    BY <2>2 DEF Fail, CleanupEnds
  <2>3. CASE \E g \in Stamp : Prune(p, g)
    BY <2>3 DEF Prune, Outdated, TypeOK, Rows
  <2>4. QED
    BY <2>1, <2>2, <2>3
<1>10. NoOrphanPoints'
  BY <1>1, <1>9 DEF StatisticsInv, NoOrphanPoints
<1>11. QED
  BY <1>2, <1>4, <1>5, <1>6, <1>8, <1>10 DEF StatisticsInv

\* Collections and viewport requests; a query reads the pointer and its points together.
LEMMA StatisticsRead ==
  ASSUME TypeOK, StatisticsInv, TypeOK',
         \/ Collect \/ (\E k \in Stamp : Evict(k))
         \/ \E r \in Reader : ViewportMiss(r) \/ ViewportQuery(r)
  PROVE  StatisticsInv'
<1> USE DEF Stamp, Stamp0
<1>1. success' >= success /\ UNCHANGED <<pointer, points, daily, genLock, srcLock, pubVars>>
  BY DEF Collect, Evict, ViewportMiss, ViewportQuery, TypeOK
<1>2. /\ HoldsGeneration' /\ HoldsSource' /\ Unpublished' /\ ReadFromOwn'
      /\ PointerStored' /\ PublishedIsWhole' /\ NoOrphanPoints'
  BY <1>1, StatisticsQuiet
<1>3. KeyPublished'
  BY DEF Collect, Evict, ViewportMiss, ViewportQuery, StatisticsInv, KeyPublished, readVars, TypeOK
<1>4. ViewportIsWhole'
  <2>1. CASE Collect
    BY <2>1 DEF Collect, StatisticsInv, ViewportIsWhole, readVars
  <2>2. CASE \E k \in Stamp : Evict(k)
    BY <2>2 DEF Evict, StatisticsInv, ViewportIsWhole, TypeOK
  <2>3. ASSUME NEW r \in Reader, ViewportMiss(r) PROVE ViewportIsWhole'
    BY <2>3 DEF ViewportMiss, StatisticsInv, ViewportIsWhole
  <2>4. ASSUME NEW r \in Reader, ViewportQuery(r) PROVE ViewportIsWhole'
    <3>1. key[r] <= pointer /\ points[pointer].rows = Chunks
      BY <2>4 DEF ViewportQuery, StatisticsInv, KeyPublished, PublishedIsWhole, TypeOK
    <3>2. QED
      BY <2>4, <3>1 DEF ViewportQuery, StatisticsInv, ViewportIsWhole, TypeOK
  <2>5. QED
    BY <2>1, <2>2, <2>3, <2>4
<1>5. QED
  BY <1>2, <1>3, <1>4 DEF StatisticsInv

\* Every step keeps the invariant, and the pointer only grows.
LEMMA StatisticsStep ==
  TypeOK /\ StatisticsInv /\ [Next]_vars => TypeOK' /\ StatisticsInv' /\ pointer' >= pointer
<1> SUFFICES ASSUME TypeOK, StatisticsInv, [Next]_vars
             PROVE  TypeOK' /\ StatisticsInv' /\ pointer' >= pointer
  OBVIOUS
<1>1. TypeOK'
  BY StatisticsType
<1>2. pointer \in Int
  BY DEF TypeOK, Stamp0
<1>3. ASSUME NEW p \in Pub, (\E s \in Stamp : Enter(p, s)) \/ Build(p) \/ Switch(p)
      PROVE  StatisticsInv' /\ pointer' = pointer
  BY <1>1, <1>3, StatisticsPrepare DEF Enter, Build, Switch
<1>4. ASSUME NEW p \in Pub, Publish(p) PROVE StatisticsInv' /\ pointer' > pointer
  BY <1>1, <1>4, StatisticsPublish
<1>5. ASSUME NEW p \in Pub, Discard(p) \/ Fail(p) \/ CleanupEnds(p) \/ \E g \in Stamp : Prune(p, g)
      PROVE  StatisticsInv' /\ pointer' = pointer
  BY <1>1, <1>5, StatisticsGiveUp DEF Discard, Fail, CleanupEnds, Prune
<1>6. CASE \/ Collect \/ (\E k \in Stamp : Evict(k))
           \/ \E r \in Reader : ViewportMiss(r) \/ ViewportQuery(r)
  BY <1>1, <1>2, <1>6, StatisticsRead DEF Collect, Evict, ViewportMiss, ViewportQuery
<1>7. CASE UNCHANGED vars
  <2>1. UNCHANGED <<pointer, points, daily, genLock, srcLock, pubVars, success, readVars>>
    BY <1>7 DEF vars
  <2>2. KeyPublished' /\ ViewportIsWhole'
    BY <2>1 DEF StatisticsInv, KeyPublished, ViewportIsWhole, readVars
  <2>3. QED
    BY <1>1, <2>1, <2>2, StatisticsQuiet DEF StatisticsInv, TypeOK, Stamp0
<1>8. pointer' \in Int
  BY <1>1 DEF TypeOK, Stamp0
<1>9. CASE Next
  <2>1. CASE \E p \in Pub : (\E s \in Stamp : Enter(p, s)) \/ Build(p) \/ Switch(p)
    BY <1>1, <1>2, <1>3, <2>1
  <2>2. CASE \E p \in Pub : Publish(p)
    BY <1>1, <1>2, <1>4, <1>8, <2>2
  <2>3. CASE \E p \in Pub : Discard(p) \/ Fail(p) \/ CleanupEnds(p) \/ \E g \in Stamp : Prune(p, g)
    BY <1>1, <1>2, <1>5, <2>3
  <2>4. QED
    BY <1>1, <1>6, <1>9, <2>1, <2>2, <2>3 DEF Next
<1>10. QED
  BY <1>7, <1>9

\* The inductive invariant of the publication.
THEOREM StatisticsInductive == Spec => [](TypeOK /\ StatisticsInv)
<1>1. TypeOK /\ StatisticsInv /\ [Next]_vars => (TypeOK /\ StatisticsInv)'
  BY StatisticsStep
<1>2. QED
  BY <1>1, StatisticsInit, PTL DEF Spec

\* Readers always find a complete generation under the pointer.
THEOREM PublicationWhole == Spec => []PublishedIsWhole
<1>1. StatisticsInv => PublishedIsWhole
  BY DEF StatisticsInv
<1>2. QED
  BY <1>1, StatisticsInductive, PTL

\* No points stay behind above the pointer.
THEOREM NoOrphans == Spec => []NoOrphanPoints
<1>1. StatisticsInv => NoOrphanPoints
  BY DEF StatisticsInv
<1>2. QED
  BY <1>1, StatisticsInductive, PTL

\* The viewport cache never holds a generation that was being pruned.
THEOREM ViewportWhole == Spec => []ViewportIsWhole
<1>1. StatisticsInv => ViewportIsWhole
  BY DEF StatisticsInv
<1>2. QED
  BY <1>1, StatisticsInductive, PTL

\* The published generation never goes back.
THEOREM PointerForward == Spec => PointerAdvances
<1>1. TypeOK /\ StatisticsInv /\ [Next]_vars => [pointer' >= pointer]_vars
  BY StatisticsStep
<1>2. QED
  BY <1>1, StatisticsInductive, PTL DEF Spec, PointerAdvances

--------------------------------------------------------------------------------
\* A later stamp is of the same day or of a later one.
LEMMA DayOfGrows == ASSUME NEW s \in Stamp0, NEW t \in Stamp0, s <= t PROVE DayOf(s) <= DayOf(t)
<1> USE StatisticsBounds DEF Stamp0
<1>1. ASSUME NEW n \in Stamp0
      PROVE  /\ DayOf(n) \in Int
             /\ PerDay * DayOf(n) <= n /\ n < PerDay * (DayOf(n) + 1)
  BY DEF DayOf
<1>2. \A d, e \in Int : e + 1 <= d => PerDay * (e + 1) <= PerDay * d
  <2>1. \A k \in Nat : PerDay * k >= 0
    OBVIOUS
  <2>2. \A d, e \in Int : PerDay * d - PerDay * (e + 1) = PerDay * (d - (e + 1))
    OBVIOUS
  <2>3. SUFFICES ASSUME NEW d \in Int, NEW e \in Int, e + 1 <= d
                 PROVE  PerDay * (e + 1) <= PerDay * d
    OBVIOUS
  <2>4. d - (e + 1) \in Nat
    BY <2>3
  <2>5. PerDay * d - PerDay * (e + 1) >= 0
    BY <2>1, <2>2, <2>4
  <2>6. QED
    BY <2>5
<1>3. SUFFICES ASSUME ~(DayOf(s) <= DayOf(t)) PROVE FALSE
  OBVIOUS
<1>4. DayOf(t) + 1 <= DayOf(s)
  BY <1>1, <1>3
<1>5. PerDay * (DayOf(t) + 1) <= PerDay * DayOf(s)
  BY <1>1, <1>2, <1>4
<1>6. PerDay * (DayOf(t) + 1) \in Int /\ PerDay * DayOf(s) \in Int /\ s \in Int /\ t \in Int
  BY <1>1
<1>7. QED
  BY <1>1, <1>5, <1>6

\* The window with what it rests on: nothing was published above the pointer.
HistoryInv == HistoryWindow /\ \A g \in published : g <= pointer

\* A publication replaces the day's rows, drops the days that leave the window, and moves the
\* pointer above everything that was published before.
LEMMA HistoryPublish ==
  ASSUME TypeOK, StatisticsInv, HistoryInv, NEW p \in Pub, Publish(p)
  PROVE  HistoryInv'
<1> DEFINE s == stamp[p]
<1>1. /\ s \in Stamp0 /\ s \in Stamp /\ pointer \in Stamp0 /\ pointer < s /\ built[p] = s
      /\ pointer' = s /\ published' = published \cup {s}
      /\ daily' = [d \in Day |-> IF d = DayOf(s) THEN [gen |-> s, from |-> s]
                                 ELSE IF Kept(d, DayOf(s)) THEN daily[d] ELSE NoDay]
  BY DEF Publish, TypeOK, StatisticsInv, ReadFromOwn, HoldsGeneration, Busy
<1>2. /\ pointer \in Int /\ s \in Int /\ History \in Nat
      /\ \A g \in published : g \in Stamp0 /\ g \in Int
  BY <1>1, StatisticsBounds DEF TypeOK, Stamp0, Stamp
<1>3. \A g \in Stamp0 : DayOf(g) \in Day /\ DayOf(g) \in Int
  BY DayOfStamp, StatisticsBounds DEF Day
<1>4. DayOf(pointer) <= DayOf(s)
  BY <1>1, <1>2, DayOfGrows
<1>5. ASSUME NEW d \in Day, daily'[d] # NoDay
      PROVE  /\ DayOf(daily'[d].gen) = d /\ daily'[d].from = daily'[d].gen
             /\ d <= DayOf(s) /\ d + History >= DayOf(s)
  <2>0. d \in Int
    BY StatisticsBounds DEF Day
  <2>1. CASE d = DayOf(s)
    <3>1. daily'[d] = [gen |-> s, from |-> s]
      BY <1>1, <2>1
    <3>2. QED
      BY <1>2, <2>0, <2>1, <3>1
  <2>2. CASE d # DayOf(s)
    <3>1. Kept(d, DayOf(s)) /\ daily'[d] = daily[d]
      BY <1>1, <1>5, <2>2
    <3>2. DayOf(daily[d].gen) = d /\ daily[d].from = daily[d].gen /\ d <= DayOf(pointer)
      BY <1>5, <3>1 DEF HistoryInv, HistoryWindow
    <3>3. QED
      BY <1>1, <1>3, <1>4, <2>0, <3>1, <3>2 DEF Kept
  <2>3. QED
    BY <2>1, <2>2
<1>6. ASSUME NEW g \in published', DayOf(g) + History >= DayOf(s)
      PROVE  daily'[DayOf(g)].gen >= g
  <2>1. CASE g = s
    BY <1>1, <1>2, <1>3, <2>1
  <2>2. CASE g # s
    <3>1. g \in published /\ g <= pointer /\ g \in Stamp0
      BY <1>1, <1>2, <2>2 DEF HistoryInv
    <3>2. CASE DayOf(g) = DayOf(s)
      BY <1>1, <1>2, <1>3, <3>1, <3>2
    <3>3. CASE DayOf(g) # DayOf(s)
      <4>1. DayOf(g) + History >= DayOf(pointer)
        BY <1>1, <1>2, <1>3, <1>4, <1>6, <3>1
      <4>2. daily[DayOf(g)].gen >= g
        BY <3>1, <4>1 DEF HistoryInv, HistoryWindow
      <4>3. Kept(DayOf(g), DayOf(s))
        BY <1>6, <3>3 DEF Kept
      <4>4. daily'[DayOf(g)] = daily[DayOf(g)]
        BY <1>1, <1>3, <3>1, <3>3, <4>3
      <4>5. QED
        BY <4>2, <4>4
    <3>4. QED
      BY <3>2, <3>3
  <2>3. QED
    BY <2>1, <2>2
<1>7. \A g \in published' : g <= pointer'
  BY <1>1, <1>2 DEF HistoryInv
<1>8. HistoryWindow'
  BY <1>1, <1>5, <1>6 DEF HistoryWindow, DayOf
<1>9. QED
  BY <1>7, <1>8 DEF HistoryInv

\* The seven-day history has for each day of its window the last generation published for that
\* day, and nothing outside the window (the daily rows of publish_fuel_statistics).
THEOREM HistoryComplete == Spec => []HistoryWindow
<1>1. Init => HistoryInv
  BY DEF Init, HistoryInv, HistoryWindow
<1>2. ASSUME TypeOK, StatisticsInv, HistoryInv, [Next]_vars PROVE HistoryInv'
  <2>1. CASE \E p \in Pub : Publish(p)
    BY <1>2, <2>1, HistoryPublish
  <2>2. CASE UNCHANGED <<pointer, daily, published>>
    BY <1>2, <2>2 DEF HistoryInv, HistoryWindow, DayOf
  <2>3. QED
    BY <1>2, <2>1, <2>2
       DEF Next, Collect, Build, Switch, Discard, Fail, CleanupEnds, Enter, Prune, ViewportMiss,
           ViewportQuery, Evict, vars
<1>3. HistoryInv => HistoryWindow
  BY DEF HistoryInv
<1>4. QED
  BY <1>1, <1>2, <1>3, StatisticsInductive, PTL DEF Spec

=============================================================================
