---------------------------- MODULE FuelStatistics ----------------------------
(***************************************************************************)
(* Publication of the fuel statistics (services/fuel_statistics.py) for    *)
(* one source.                                                             *)
(*                                                                         *)
(* After a snapshot is stored, its run prepares the points of that         *)
(* generation, takes the source's advisory lock only at the end, looks     *)
(* again, and moves the public pointer; readers join the pointer with the  *)
(* points and the daily rows.  Old generations are pruned in transactions  *)
(* of their own.  Everything a publisher writes becomes visible at its     *)
(* commit (READ COMMITTED); its advisory locks go with the transaction or  *)
(* with the savepoint of try_publish_fuel_statistics.                      *)
(*                                                                         *)
(* Generations are the collected_at stamps of FuelCollection, which only   *)
(* grow (FuelCollection!NoRegression); DayOf is their calendar day in KST. *)
(***************************************************************************)
EXTENDS Integers

CONSTANTS
    Pub,        \* runs that publish
    Reader,     \* requests for the map's viewport
    MaxStamp,   \* bound: snapshots stored
    PerDay,     \* bound: snapshots of one KST day
    History,    \* days kept before the published one (6)
    Chunks,     \* bound: batches of 2,000 points in a generation
    NoPub

ASSUME StatisticsBounds ==
    /\ MaxStamp \in Nat /\ PerDay \in Nat \ {0} /\ History \in Nat
    /\ Chunks \in Nat \ {0}

ASSUME StatisticsProcs == NoPub \notin Pub

VARIABLES
    success,    \* last_success_at of the source, and the snapshot the prices come from
    pointer,    \* FuelStatisticsState.generated_at (0: no row)
    points,     \* points[g]: batches of generation g, and the snapshot they were read from
    daily,      \* daily[d]: generation and snapshot of the day's rows
    genLock,    \* advisory lock of each generation
    srcLock,    \* advisory lock of the source (lock_fuel_statistics)
    \* ---- a publisher
    pc, stamp,
    built,      \* the snapshot its uncommitted points were read from
    \* ---- viewport requests and the process's cache
    rpc, key, cache,
    published   \* history: generations the pointer has stood on

pubVars    == <<pc, stamp, built>>
readVars   == <<rpc, key, cache>>
vars == <<success, pointer, points, daily, genLock, srcLock, pubVars, readVars, published>>

Stamp == 1..MaxStamp
Stamp0 == 0..MaxStamp
DayOf(s) == s \div PerDay
Day == 0..MaxStamp
Rows == [rows : 0..Chunks, from : Stamp0]
DayRow == [gen : Stamp0, from : Stamp0]
Entry == [gen : Stamp0, rows : 0..Chunks]

NoRows == [rows |-> 0, from |-> 0]
NoDay == [gen |-> 0, from |-> 0]
NoEntry == [gen |-> 0, rows |-> 0]

\* The source, the published tables, the publishers and the viewport cache have their types.
TypeOK ==
    /\ success \in Stamp0 /\ pointer \in Stamp0
    /\ points \in [Stamp -> Rows]
    /\ daily \in [Day -> DayRow]
    /\ genLock \in [Stamp -> Pub \cup {NoPub}]
    /\ srcLock \in Pub \cup {NoPub}
    /\ pc \in [Pub -> {"idle", "build", "switch", "publish", "discard", "clean"}]
    /\ stamp \in [Pub -> Stamp0]
    /\ built \in [Pub -> Stamp0]
    /\ rpc \in [Reader -> {"idle", "query"}]
    /\ key \in [Reader -> Stamp0]
    /\ cache \in [Stamp -> Entry]
    /\ published \subseteq Stamp

Init ==
    /\ success = 0 /\ pointer = 0
    /\ points = [g \in Stamp |-> NoRows]
    /\ daily = [d \in Day |-> NoDay]
    /\ genLock = [g \in Stamp |-> NoPub]
    /\ srcLock = NoPub
    /\ pc = [p \in Pub |-> "idle"]
    /\ stamp = [p \in Pub |-> 0]
    /\ built = [p \in Pub |-> 0]
    /\ rpc = [r \in Reader |-> "idle"]
    /\ key = [r \in Reader |-> 0]
    /\ cache = [g \in Stamp |-> NoEntry]
    /\ published = {}

\* A collection commits prices and last_success_at together.
Collect ==
    /\ success < MaxStamp
    /\ success' = success + 1
    /\ UNCHANGED <<pointer, points, daily, genLock, srcLock, pubVars, readVars, published>>

--------------------------------------------------------------------------------
(* publish_fuel_statistics.                                                *)

\* The generation is published already, or no longer the source's current snapshot.
Overtaken(s) == pointer >= s \/ success # s

\* The generation's lock, then the early returns.
Enter(p, s) ==
    /\ pc[p] = "idle"
    /\ s <= success
    /\ genLock[s] = NoPub
    /\ ~Overtaken(s)
    /\ genLock' = [genLock EXCEPT ![s] = p]
    /\ stamp' = [stamp EXCEPT ![p] = s]
    /\ pc' = [pc EXCEPT ![p] = "build"]
    /\ UNCHANGED <<success, pointer, points, daily, srcLock, built, readVars, published>>

\* One SELECT streams the latest prices, of whatever snapshot is current by now.
Build(p) ==
    /\ pc[p] = "build"
    /\ built' = [built EXCEPT ![p] = success]
    /\ pc' = [pc EXCEPT ![p] = "switch"]
    /\ UNCHANGED <<success, pointer, points, daily, genLock, srcLock, stamp, readVars, published>>

\* Mutant: under the source lock only the pointer is read again.
SwitchTrustsSource(p) ==
    /\ pc[p] = "switch"
    /\ srcLock = NoPub
    /\ srcLock' = p
    /\ pc' = [pc EXCEPT ![p] = IF pointer >= stamp[p] THEN "discard" ELSE "publish"]
    /\ UNCHANGED <<success, pointer, points, daily, genLock, stamp, built, readVars, published>>

\* Mutant: under the source lock nothing is read again.
SwitchBlindly(p) ==
    /\ pc[p] = "switch"
    /\ srcLock = NoPub
    /\ srcLock' = p
    /\ pc' = [pc EXCEPT ![p] = "publish"]
    /\ UNCHANGED <<success, pointer, points, daily, genLock, stamp, built, readVars, published>>

\* The source lock, and both states read again.
Switch(p) ==
    /\ pc[p] = "switch"
    /\ srcLock = NoPub
    /\ srcLock' = p
    /\ pc' = [pc EXCEPT ![p] = IF Overtaken(stamp[p]) THEN "discard" ELSE "publish"]
    /\ UNCHANGED <<success, pointer, points, daily, genLock, stamp, built, readVars, published>>

\* The transaction or its savepoint is over: locks are released.
Released(p) ==
    /\ genLock' = [g \in Stamp |-> IF genLock[g] = p THEN NoPub ELSE genLock[g]]
    /\ srcLock' = IF srcLock = p THEN NoPub ELSE srcLock
    /\ stamp' = [stamp EXCEPT ![p] = 0]
    /\ built' = [built EXCEPT ![p] = 0]

\* Mutant: off by one, the oldest of the kept days goes as well.
KeptOneLess(d, today) == d # today /\ d + History > today

\* Daily rows that survive a publication for the given day.
Kept(d, today) == d # today /\ d + History >= today

\* Daily rows, points and the pointer are switched by one commit.
Publish(p) ==
    /\ pc[p] = "publish"
    /\ LET s == stamp[p] IN
       /\ points' = [points EXCEPT ![s] = [rows |-> Chunks, from |-> built[p]]]
       /\ daily' = [d \in Day |-> IF d = DayOf(s) THEN [gen |-> s, from |-> built[p]]
                                  ELSE IF Kept(d, DayOf(s)) THEN daily[d] ELSE NoDay]
       /\ pointer' = s
       /\ published' = published \cup {s}
    /\ Released(p)
    /\ pc' = [pc EXCEPT ![p] = "clean"]
    /\ UNCHANGED <<success, readVars>>

\* Mutant: a publisher that was overtaken leaves its prepared points behind.
DiscardKeepsPoints(p) ==
    /\ pc[p] = "discard"
    /\ points' = [points EXCEPT ![stamp[p]] = [rows |-> Chunks, from |-> built[p]]]
    /\ Released(p)
    /\ pc' = [pc EXCEPT ![p] = "clean"]
    /\ UNCHANGED <<success, pointer, daily, readVars, published>>

\* Overtaken after all: the prepared points are deleted before the commit.
Discard(p) ==
    /\ pc[p] = "discard"
    /\ points' = [points EXCEPT ![stamp[p]] = NoRows]
    /\ Released(p)
    /\ pc' = [pc EXCEPT ![p] = "clean"]
    /\ UNCHANGED <<success, pointer, daily, readVars, published>>

\* An error rolls the savepoint back (and the caller goes on), or the run ends here.
Fail(p) ==
    /\ pc[p] \in {"build", "switch", "publish", "discard"}
    /\ Released(p)
    /\ \E next \in {"clean", "idle"} : pc' = [pc EXCEPT ![p] = next]
    /\ UNCHANGED <<success, pointer, points, daily, readVars, published>>

--------------------------------------------------------------------------------
(* cleanup_fuel_statistics and the readers.                                *)

\* prune_fuel_statistics takes generations before the published one.
Outdated(g) == g < pointer /\ points[g].rows > 0

Prune(p, g) ==
    /\ pc[p] = "clean"
    /\ Outdated(g)
    /\ points' = [points EXCEPT ![g].rows = @ - 1]
    /\ UNCHANGED <<success, pointer, daily, genLock, srcLock, pubVars, readVars, published>>

\* Nothing left, the deadline of 15 s, or an error.
CleanupEnds(p) ==
    /\ pc[p] = "clean"
    /\ pc' = [pc EXCEPT ![p] = "idle"]
    /\ UNCHANGED <<success, pointer, points, daily, genLock, srcLock, stamp, built, readVars,
                   published>>

\* viewport_fuel_statistics: the cache key is made of the published generation.
ViewportMiss(r) ==
    /\ rpc[r] = "idle"
    /\ pointer # 0 /\ cache[pointer] = NoEntry
    /\ key' = [key EXCEPT ![r] = pointer]
    /\ rpc' = [rpc EXCEPT ![r] = "query"]
    /\ UNCHANGED <<success, pointer, points, daily, genLock, srcLock, pubVars, cache, published>>

\* Mutant: the aggregate reads the generation of the key and not the published one.
ViewportQueryByKey(r) ==
    /\ rpc[r] = "query"
    /\ cache' = [cache EXCEPT ![key[r]] = [gen |-> key[r], rows |-> points[key[r]].rows]]
    /\ rpc' = [rpc EXCEPT ![r] = "idle"]
    /\ UNCHANGED <<success, pointer, points, daily, genLock, srcLock, pubVars, key, published>>

\* The aggregate joins the pointer and the points in one statement, some time later.
ViewportQuery(r) ==
    /\ rpc[r] = "query"
    /\ cache' = [cache EXCEPT ![key[r]] = [gen |-> pointer, rows |-> points[pointer].rows]]
    /\ rpc' = [rpc EXCEPT ![r] = "idle"]
    /\ UNCHANGED <<success, pointer, points, daily, genLock, srcLock, pubVars, key, published>>

\* An entry expires after 10 s or is the oldest of more than 64.
Evict(k) ==
    /\ cache[k] # NoEntry
    /\ cache' = [cache EXCEPT ![k] = NoEntry]
    /\ UNCHANGED <<success, pointer, points, daily, genLock, srcLock, pubVars, rpc, key, published>>

--------------------------------------------------------------------------------
Next ==
    \/ Collect
    \/ \E p \in Pub : \/ Build(p) \/ Switch(p) \/ Publish(p) \/ Discard(p) \/ Fail(p)
                      \/ CleanupEnds(p)
    \/ \E p \in Pub, g \in Stamp : Enter(p, g) \/ Prune(p, g)
    \/ \E r \in Reader : ViewportMiss(r) \/ ViewportQuery(r)
    \/ \E k \in Stamp : Evict(k)

Spec == Init /\ [][Next]_vars

--------------------------------------------------------------------------------
(* The inductive invariant.                                                *)

Busy(p) == pc[p] \in {"build", "switch", "publish", "discard"}

\* A publisher at work holds the lock of its generation, so no two prepare the same one.
HoldsGeneration ==
    \A p \in Pub : Busy(p) => stamp[p] \in Stamp /\ genLock[stamp[p]] = p /\ stamp[p] <= success

HoldsSource ==
    \A p \in Pub : pc[p] \in {"publish", "discard"} => srcLock = p

\* A generation being prepared has not been published.
Unpublished == \A p \in Pub : Busy(p) => stamp[p] # pointer

\* What a publisher is about to commit was read from its own snapshot, and the pointer,
\* which only the holder of the source lock moves, is still behind it.
ReadFromOwn ==
    \A p \in Pub :
        /\ pc[p] \in {"switch", "publish", "discard"} => built[p] >= stamp[p] /\ built[p] <= success
        /\ pc[p] = "publish" => built[p] = stamp[p] /\ pointer < stamp[p]

PointerStored == pointer <= success

\* A viewport request that missed the cache asked for a published generation.
KeyPublished == \A r \in Reader : rpc[r] = "query" => key[r] # 0 /\ key[r] <= pointer

--------------------------------------------------------------------------------
(* Properties.                                                             *)

\* The public pointer always stands on a complete generation: all its points are there, they
\* and the day's rows were computed from that generation's snapshot, although other runs
\* store, publish, discard and prune meanwhile.
PublishedIsWhole ==
    pointer # 0 =>
        /\ points[pointer] = [rows |-> Chunks, from |-> pointer]
        /\ daily[DayOf(pointer)] = [gen |-> pointer, from |-> pointer]

\* Points are never left behind for a generation that was not published: prune would not
\* find those above the pointer.
NoOrphanPoints == \A g \in Stamp : points[g].rows > 0 => g <= pointer

\* The seven-day history has for each day of its window the last generation published for
\* that day, and nothing outside the window.
HistoryWindow ==
    /\ \A d \in Day : daily[d] # NoDay =>
          /\ DayOf(daily[d].gen) = d /\ daily[d].from = daily[d].gen
          /\ d <= DayOf(pointer) /\ d + History >= DayOf(pointer)
    /\ \A g \in published : DayOf(g) + History >= DayOf(pointer) => daily[DayOf(g)].gen >= g

\* A cached viewport answer holds a whole generation, at least as new as the one its key
\* was made of, even when publication and pruning come between the two reads.
ViewportIsWhole ==
    \A k \in Stamp : cache[k] # NoEntry => cache[k].rows = Chunks /\ cache[k].gen >= k

StatisticsInv ==
    /\ HoldsGeneration /\ HoldsSource /\ Unpublished /\ ReadFromOwn /\ PointerStored
    /\ KeyPublished /\ PublishedIsWhole /\ NoOrphanPoints /\ ViewportIsWhole

\* The published generation never goes back, however late a publisher wakes up.
PointerAdvances == [][pointer' >= pointer]_vars

=============================================================================
