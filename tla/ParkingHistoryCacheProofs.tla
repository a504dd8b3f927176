----------------------- MODULE ParkingHistoryCacheProofs -----------------------
(***************************************************************************)
(* Proofs about ParkingHistoryCache for any number of requests, keys and   *)
(* slots: every answer is made of the snapshot its request chose, no more  *)
(* threads run than there are slots, and a usable snapshot is recent.      *)
(***************************************************************************)
EXTENDS ParkingHistoryCache, FiniteSetTheorems, SequenceTheorems, TLAPS

Busy == {r \in Request : HasSlot(r)}

\* Every request that renders, drains or sends holds one slot.
SlotsInv == IsFiniteSet(Busy) /\ SlotsCounted

\* Fingerprints only grow, and every one the clock has passed is below the present one.
PastGrows ==
    /\ counters.ins <= source.ins /\ counters.upd <= source.upd
    /\ \A t \in 0..now : past[t].id <= source.ins /\ past[t].upd <= counters.upd
    /\ \A s, t \in 0..now : s <= t => past[s].id <= past[t].id /\ past[s].upd <= past[t].upd

\* The draft holds what the refresh saw before it began to load.
DraftCovers ==
    /\ rpc # "sleep" => seen.id <= source.ins /\ seen.upd <= counters.upd
    /\ rpc \in {"loadRows", "recheck"} => draft.ins >= seen.id
    /\ rpc = "recheck" => draft.upd >= seen.upd

\* The published snapshot holds what the last fingerprint showed, and everything shown when
\* the clock reached the time of its last validation.
SnapshotCovers ==
    /\ validated <= now
    /\ snapshot.gen # 0 => Covers(snapshot, lastSeen) /\ Covers(snapshot, past[validated])

FreshInv == PastGrows /\ DraftCovers /\ SnapshotCovers

\* The inductive invariant.
CacheInv ==
    /\ TypeOK /\ KeysUnique /\ PreparedMatches /\ ResponseMatches
    /\ SlotsInv /\ FreshInv
\* Nothing is cached and nobody asks initially.
LEMMA CacheInit == Init => CacheInv
<1> SUFFICES ASSUME Init PROVE CacheInv
  OBVIOUS
<1> USE CacheBounds DEF Init, Time, Content, Marks, Empty, Fingerprint
<1>1. TypeOK
  BY EmptySeq DEF TypeOK
<1>2. KeysUnique /\ PreparedMatches /\ ResponseMatches
  BY DEF KeysUnique, PreparedMatches, ResponseMatches
<1>3. SlotsInv
  <2>1. Busy = {}
    BY DEF Busy, HasSlot
  <2>2. IsFiniteSet(Busy) /\ Cardinality(Busy) = 0
    BY <2>1, FS_EmptySet
  <2>3. QED
    BY <2>2 DEF SlotsInv, SlotsCounted, Busy
<1>4. FreshInv
  BY DEF FreshInv, PastGrows, DraftCovers, SnapshotCovers
<1>5. QED
  BY <1>1, <1>2, <1>3, <1>4 DEF CacheInv

--------------------------------------------------------------------------------
(* The dictionary of prepared answers.                                     *)

\* A sequence without one of its elements.
LEMMA WithoutElement ==
  ASSUME NEW S, NEW s \in Seq(S), NEW p \in 1..Len(s)
  PROVE  LET t == SubSeq(s, 1, p - 1) \o SubSeq(s, p + 1, Len(s))
         IN  /\ t \in Seq(S) /\ Len(t) = Len(s) - 1
             /\ \A i \in 1..(Len(s) - 1) : t[i] = IF i < p THEN s[i] ELSE s[i + 1]
<1> DEFINE n == Len(s)
           a == SubSeq(s, 1, p - 1)
           b == SubSeq(s, p + 1, n)
           t == a \o b
<1>1. n \in Nat /\ p \in Int /\ 1 <= p /\ p <= n /\ \A i \in 1..n : s[i] \in S
  BY LenProperties, ElementOfSeq
<1>2. a \in Seq(S) /\ Len(a) = p - 1 /\ \A i \in 1..(p - 1) : a[i] = s[i]
  <2>1. \A i \in 1..(p - 1) : s[i] \in S
    BY <1>1
  <2>2. /\ a \in Seq(S) /\ Len(a) = IF 1 <= p - 1 THEN (p - 1) - 1 + 1 ELSE 0
        /\ \A i \in 1..((p - 1) - 1 + 1) : a[i] = s[1 + i - 1]
    BY <1>1, <2>1, SubSeqProperties
  <2>3. QED
    BY <1>1, <2>2
<1>3. b \in Seq(S) /\ Len(b) = n - p /\ \A i \in 1..(n - p) : b[i] = s[p + i]
  <2>1. \A i \in (p + 1)..n : s[i] \in S
    BY <1>1
  <2>2. /\ b \in Seq(S) /\ Len(b) = IF p + 1 <= n THEN n - (p + 1) + 1 ELSE 0
        /\ \A i \in 1..(n - (p + 1) + 1) : b[i] = s[(p + 1) + i - 1]
    BY <1>1, <2>1, SubSeqProperties
  <2>3. QED
    BY <1>1, <2>2
<1> HIDE DEF a, b
<1>4. /\ t \in Seq(S) /\ Len(t) = Len(a) + Len(b)
      /\ \A i \in 1..(Len(a) + Len(b)) : t[i] = IF i <= Len(a) THEN a[i] ELSE b[i - Len(a)]
  BY <1>2, <1>3, ConcatProperties
<1> HIDE DEF t
<1>5. Len(t) = n - 1
  BY <1>1, <1>2, <1>3, <1>4
<1>6. ASSUME NEW i \in 1..(n - 1) PROVE t[i] = IF i < p THEN s[i] ELSE s[i + 1]
  <2>1. i \in 1..(Len(a) + Len(b))
    BY <1>1, <1>2, <1>3
  <2>2. CASE i < p
    BY <1>1, <1>2, <1>4, <2>1, <2>2
  <2>3. CASE i >= p
    <3>1. i - Len(a) \in 1..(n - p) /\ p + (i - Len(a)) = i + 1 /\ ~(i <= Len(a))
      BY <1>1, <1>2, <2>3
    <3>2. t[i] = b[i - Len(a)] /\ b[i - Len(a)] = s[p + (i - Len(a))]
      BY <1>3, <1>4, <2>1, <3>1
    <3>3. QED
      BY <1>1, <2>3, <3>1, <3>2
  <2>4. QED
    BY <1>1, <2>2, <2>3
<1>7. QED
  BY <1>4, <1>5, <1>6 DEF t, a, b

\* Taking a key out of the dictionary leaves a dictionary without it.
LEMMA OthersKept ==
  ASSUME prepared \in Seq([key : Key, gen : Nat]), Len(prepared) <= MaxPrepared,
         KeysUnique, PreparedMatches, NEW k \in Key
  PROVE  /\ Others(k) \in Seq([key : Key, gen : Nat])
         /\ Len(Others(k)) <= MaxPrepared
         /\ Entry(k) # {} => Len(Others(k)) = Len(prepared) - 1
         /\ \A i \in 1..Len(Others(k)) : Others(k)[i].key # k /\ Others(k)[i].gen = snapshot.gen
         /\ \A i, j \in 1..Len(Others(k)) : Others(k)[i].key = Others(k)[j].key => i = j
<1>0. Len(prepared) \in Nat
  BY LenProperties
<1>1. CASE Entry(k) = {}
  BY <1>0, <1>1 DEF Others, Entry, KeysUnique, PreparedMatches
<1>2. CASE Entry(k) # {}
  <2> DEFINE n == Len(prepared)
             p == CHOOSE i \in Entry(k) : TRUE
             o == Others(k)
             From(i) == IF i < p THEN i ELSE i + 1
  <2>1. p \in 1..n /\ prepared[p].key = k
    BY <1>2 DEF Entry
  <2>2. o = SubSeq(prepared, 1, p - 1) \o SubSeq(prepared, p + 1, n)
    BY <1>2 DEF Others
  <2> HIDE DEF p, o
  <2>3. /\ o \in Seq([key : Key, gen : Nat]) /\ Len(o) = n - 1
        /\ \A i \in 1..(n - 1) : o[i] = IF i < p THEN prepared[i] ELSE prepared[i + 1]
    BY <2>1, <2>2, WithoutElement
  <2>4. \A i \in 1..(n - 1) : From(i) \in 1..n /\ From(i) # p /\ o[i] = prepared[From(i)]
    BY <1>0, <2>1, <2>3
  <2>5. \A i, j \in 1..(n - 1) : From(i) = From(j) => i = j
    BY <1>0, <2>1
  <2> HIDE DEF From
  <2>6. ASSUME NEW i \in 1..Len(o) PROVE o[i].key # k /\ o[i].gen = snapshot.gen
    <3>1. From(i) \in 1..n /\ From(i) # p /\ o[i] = prepared[From(i)]
      BY <2>3, <2>4
    <3>2. QED
      BY <2>1, <3>1 DEF KeysUnique, PreparedMatches
  <2>7. ASSUME NEW i \in 1..Len(o), NEW j \in 1..Len(o), o[i].key = o[j].key PROVE i = j
    <3>1. /\ From(i) \in 1..n /\ o[i] = prepared[From(i)]
          /\ From(j) \in 1..n /\ o[j] = prepared[From(j)]
      BY <2>3, <2>4
    <3>2. From(i) = From(j)
      BY <2>7, <3>1 DEF KeysUnique
    <3>3. QED
      BY <2>3, <2>5, <3>2
  <2>8. Len(o) <= MaxPrepared
    BY <1>0, <2>3, CacheBounds
  <2>9. QED
    BY <2>3, <2>6, <2>7, <2>8 DEF o
<1>3. QED
  BY <1>1, <1>2

\* Putting an answer of the published snapshot back under its key keeps the dictionary.
LEMMA AppendKept ==
  ASSUME prepared \in Seq([key : Key, gen : Nat]), Len(prepared) <= MaxPrepared,
         KeysUnique, PreparedMatches, NEW k \in Key, NEW g \in Nat, g = snapshot.gen
  PROVE  LET q == Append(Others(k), [key |-> k, gen |-> g])
         IN  /\ q \in Seq([key : Key, gen : Nat])
             /\ Len(q) <= MaxPrepared + 1
             /\ Entry(k) # {} => Len(q) <= MaxPrepared
             /\ \A i \in 1..Len(q) : q[i].gen = snapshot.gen
             /\ \A i, j \in 1..Len(q) : q[i].key = q[j].key => i = j
<1> DEFINE E == [key : Key, gen : Nat]
           o == Others(k)
           e == [key |-> k, gen |-> g]
           q == Append(o, e)
<1>1. /\ o \in Seq(E) /\ Len(o) <= MaxPrepared
      /\ Entry(k) # {} => Len(o) = Len(prepared) - 1
      /\ \A i \in 1..Len(o) : o[i].key # k /\ o[i].gen = snapshot.gen
      /\ \A i, j \in 1..Len(o) : o[i].key = o[j].key => i = j
  BY OthersKept
<1>2. Len(o) \in Nat /\ Len(prepared) \in Nat
  BY <1>1, LenProperties
<1> HIDE DEF o
<1>3. /\ q \in Seq(E) /\ Len(q) = Len(o) + 1
      /\ \A i \in 1..Len(o) : q[i] = o[i]
      /\ q[Len(o) + 1] = e
  BY <1>1, AppendProperties
<1> HIDE DEF q
<1>4. ASSUME NEW i \in 1..Len(q) PROVE q[i].gen = snapshot.gen
  <2>1. CASE i \in 1..Len(o)
    <3>1. q[i] = o[i] /\ o[i].gen = snapshot.gen
      BY <1>1, <1>3, <2>1
    <3>2. QED
      BY <3>1
  <2>2. CASE i = Len(o) + 1
    <3>1. q[i] = e
      BY <1>3, <2>2
    <3>2. QED
      BY <3>1
  <2>3. QED
    BY <1>2, <1>3, <2>1, <2>2
<1>5. ASSUME NEW i \in 1..Len(q), NEW j \in 1..Len(q), q[i].key = q[j].key PROVE i = j
  <2>1. q[Len(o) + 1].key = k
    BY <1>3
  <2>2. \A l \in 1..Len(o) : q[l].key # k
    BY <1>1, <1>3
  <2>3. CASE i \in 1..Len(o) /\ j \in 1..Len(o)
    BY <1>1, <1>3, <1>5, <2>3
  <2>4. CASE i = Len(o) + 1 /\ j = Len(o) + 1
    BY <2>4
  <2>5. QED
    BY <1>2, <1>3, <1>5, <2>1, <2>2, <2>3, <2>4
<1>6. Len(q) <= MaxPrepared + 1 /\ (Entry(k) # {} => Len(q) <= MaxPrepared)
  BY <1>1, <1>2, <1>3, CacheBounds
<1>7. QED
  BY <1>3, <1>4, <1>5, <1>6 DEF q, o

\* Dropping the oldest answer keeps the dictionary within its bound.
LEMMA BoundedKept ==
  ASSUME NEW q \in Seq([key : Key, gen : Nat]), Len(q) <= MaxPrepared + 1,
         \A i \in 1..Len(q) : q[i].gen = snapshot.gen,
         \A i, j \in 1..Len(q) : q[i].key = q[j].key => i = j
  PROVE  /\ Bounded(q) \in Seq([key : Key, gen : Nat])
         /\ Len(Bounded(q)) <= MaxPrepared
         /\ \A i \in 1..Len(Bounded(q)) : Bounded(q)[i].gen = snapshot.gen
         /\ \A i, j \in 1..Len(Bounded(q)) : Bounded(q)[i].key = Bounded(q)[j].key => i = j
<1>1. Len(q) \in Nat
  BY LenProperties
<1>2. CASE Len(q) <= MaxPrepared
  BY <1>1, <1>2, CacheBounds DEF Bounded
<1>3. CASE Len(q) > MaxPrepared
  <2>1. Bounded(q) = Tail(q) /\ q # <<>>
    BY <1>1, <1>3, CacheBounds, EmptySeq DEF Bounded
  <2>2. /\ Tail(q) \in Seq([key : Key, gen : Nat]) /\ Len(Tail(q)) = Len(q) - 1
        /\ \A i \in 1..Len(Tail(q)) : Tail(q)[i] = q[i + 1]
    BY <2>1, HeadTailProperties
  <2>3. \A i \in 1..Len(Tail(q)) : i + 1 \in 1..Len(q)
    BY <1>1, <2>2
  <2> HIDE DEF Bounded
  <2>4. QED
    BY <1>1, <1>3, <2>1, <2>2, <2>3, CacheBounds
<1>4. QED
  BY <1>1, <1>2, <1>3, CacheBounds

--------------------------------------------------------------------------------
(* The delivery slots.                                                     *)

\* A request that takes a free slot.
LEMMA SlotTaken ==
  ASSUME TypeOK, SlotsInv, NEW r \in Request, ~HasSlot(r), free > 0, free' = free - 1,
         Busy' = Busy \cup {r}
  PROVE  SlotsInv' /\ free' \in 0..Slots
<1>1. /\ IsFiniteSet(Busy') /\ Cardinality(Busy') = Cardinality(Busy) + 1
      /\ Cardinality(Busy) \in Nat
  <2>1. IsFiniteSet(Busy) /\ r \notin Busy
    BY DEF SlotsInv, Busy
  <2>2. QED
    BY <2>1, FS_AddElement, FS_CardinalityType
<1>2. QED
  BY <1>1, CacheBounds DEF SlotsInv, SlotsCounted, TypeOK, Busy

\* A request that gives its slot back.
LEMMA SlotReturned ==
  ASSUME TypeOK, SlotsInv, NEW r \in Request, HasSlot(r), free' = free + 1,
         Busy' = Busy \ {r}
  PROVE  SlotsInv' /\ free' \in 0..Slots
<1>1. /\ IsFiniteSet(Busy') /\ Cardinality(Busy') = Cardinality(Busy) - 1
      /\ Cardinality(Busy) \in Nat /\ Cardinality(Busy') \in Nat
  <2>1. IsFiniteSet(Busy) /\ r \in Busy
    BY DEF SlotsInv, Busy
  <2>2. QED
    BY <2>1, FS_RemoveElement, FS_CardinalityType
<1>2. QED
  BY <1>1, CacheBounds DEF SlotsInv, SlotsCounted, TypeOK, Busy
\* Taking and returning slots, request by request.
LEMMA SlotStep ==
  ASSUME TypeOK, SlotsInv, [Next]_vars
  PROVE  SlotsInv' /\ free' \in 0..Slots
<1>1. ASSUME UNCHANGED <<free, pc>> PROVE SlotsInv' /\ free' \in 0..Slots
  BY <1>1 DEF SlotsInv, SlotsCounted, Busy, HasSlot, TypeOK
<1>2. ASSUME NEW r \in Request, NEW x, pc' = [pc EXCEPT ![r] = x]
      PROVE  /\ x \in {"render", "drain", "send"} => Busy' = Busy \cup {r}
             /\ x \notin {"render", "drain", "send"} => Busy' = Busy \ {r}
  BY <1>2 DEF Busy, HasSlot, TypeOK
<1>3. ASSUME NEW r \in Request, Acquire(r) PROVE SlotsInv' /\ free' \in 0..Slots
  <2>1. PICK x \in {"render", "send"} : pc' = [pc EXCEPT ![r] = x]
    BY <1>3 DEF Acquire
  <2>2. Busy' = Busy \cup {r} /\ ~HasSlot(r)
    BY <1>2, <1>3, <2>1 DEF Acquire, HasSlot
  <2>3. QED
    BY <1>3, <2>2, SlotTaken DEF Acquire
<1>4. ASSUME NEW r \in Request, Send(r) \/ RenderFails(r) \/ Drain(r)
      PROVE  SlotsInv' /\ free' \in 0..Slots
  <2>1. HasSlot(r) /\ Leave(r)
    BY <1>4 DEF Send, RenderFails, Drain, HasSlot
  <2>2. pc' = [pc EXCEPT ![r] = "out"] /\ free' = free + 1
    BY <2>1 DEF Leave
  <2>3. Busy' = Busy \ {r}
    BY <2>2 DEF Busy, HasSlot, TypeOK
  <2>4. QED
    BY <2>1, <2>2, <2>3, SlotReturned
<1>5. ASSUME NEW r \in Request, Arrive(r) \/ CancelWait(r) \/ Render(r) \/ Cancel(r)
      PROVE  SlotsInv' /\ free' \in 0..Slots
  <2>1. Busy' = Busy /\ free' = free
    <3>1. CASE Arrive(r) \/ CancelWait(r)
      BY <1>2, <3>1 DEF Arrive, CancelWait, Busy, HasSlot
    <3>2. CASE Render(r) \/ Cancel(r)
      BY <1>2, <3>2 DEF Render, Cancel, Busy, HasSlot
    <3>3. QED
      BY <1>5, <3>1, <3>2
  <2>2. QED
    BY <2>1 DEF SlotsInv, SlotsCounted, Busy, TypeOK
<1>6. CASE \/ Tick \/ Change \/ Report \/ Poll \/ LoadMax \/ LoadRows \/ Recheck \/ RefreshFails
           \/ UNCHANGED vars
  BY <1>1, <1>6 DEF Tick, Change, Report, Poll, LoadMax, LoadRows, Recheck, RefreshFails, vars,
     requestVars
<1>7. QED
  BY <1>3, <1>4, <1>5, <1>6 DEF Next

--------------------------------------------------------------------------------
(* The answers.                                                            *)

DictOK ==
    /\ prepared \in Seq([key : Key, gen : Nat]) /\ Len(prepared) <= MaxPrepared
    /\ KeysUnique /\ PreparedMatches

\* The dictionary is replaced with the snapshot it belongs to, and changed by requests that
\* still see the snapshot they chose; a request sends what it chose.
LEMMA AnswerStep ==
  ASSUME TypeOK, KeysUnique, PreparedMatches, ResponseMatches, [Next]_vars
  PROVE  DictOK' /\ ResponseMatches'
<1>1. ASSUME UNCHANGED <<prepared, snapshot>> PROVE DictOK'
  BY <1>1 DEF DictOK, KeysUnique, PreparedMatches, TypeOK
<1>2. ASSUME UNCHANGED requestVars PROVE ResponseMatches'
  BY <1>2 DEF ResponseMatches, requestVars
<1>3. CASE \/ Tick \/ Change \/ Report \/ Poll \/ LoadMax \/ LoadRows \/ RefreshFails
           \/ UNCHANGED vars
  BY <1>1, <1>2, <1>3 DEF Tick, Change, Report, Poll, LoadMax, LoadRows, RefreshFails, vars,
     cacheVars
<1>4. CASE Recheck
  <2>1. CASE SourceSettled
    <3> DEFINE g == snapshot.gen + 1
    <3>1. prepared' = <<[key |-> FullKey, gen |-> g]>> /\ snapshot'.gen = g
      BY <1>4, <2>1 DEF Recheck
    <3>2. [key |-> FullKey, gen |-> g] \in [key : Key, gen : Nat]
      BY CacheBounds DEF TypeOK
    <3>3. /\ Len(prepared') = 1 /\ prepared'[1] = [key |-> FullKey, gen |-> g]
          /\ prepared' \in Seq([key : Key, gen : Nat])
      BY <3>1, <3>2
    <3>4. KeysUnique' /\ PreparedMatches'
      BY <3>1, <3>3 DEF KeysUnique, PreparedMatches
    <3>5. QED
      BY <1>2, <1>4, <3>3, <3>4, CacheBounds DEF DictOK, Recheck
  <2>2. CASE ~SourceSettled
    BY <1>1, <1>2, <1>4, <2>2 DEF Recheck, cacheVars
  <2>3. QED
    BY <2>1, <2>2
<1>5. ASSUME NEW r \in Request, Acquire(r) PROVE DictOK' /\ ResponseMatches'
  <2>1. PICK gen \in {0} \cup (IF Usable THEN {snapshot.gen} ELSE {}) :
          /\ chosen' = [chosen EXCEPT ![r] = gen]
          /\ IF gen # 0 /\ r \notin plain /\ Entry(want[r]) # {}
             THEN /\ \E i \in Entry(want[r]) :
                        /\ body' = [body EXCEPT ![r] = prepared[i].gen]
                        /\ prepared' = Append(Others(want[r]), prepared[i])
                  /\ pc' = [pc EXCEPT ![r] = "send"]
             ELSE /\ pc' = [pc EXCEPT ![r] = "render"]
                  /\ UNCHANGED <<body, prepared>>
    BY <1>5 DEF Acquire
  <2>2. CASE gen # 0 /\ r \notin plain /\ Entry(want[r]) # {}
    <3>1. PICK i \in Entry(want[r]) :
            /\ body' = [body EXCEPT ![r] = prepared[i].gen]
            /\ prepared' = Append(Others(want[r]), prepared[i])
      BY <2>1, <2>2
    <3>2. /\ want[r] \in Key /\ gen = snapshot.gen /\ snapshot.gen \in Nat
          /\ prepared[i] \in [key : Key, gen : Nat]
          /\ prepared[i].key = want[r] /\ prepared[i].gen = gen
      BY <2>1, <2>2, ElementOfSeq DEF Entry, PreparedMatches, TypeOK
    <3>3. prepared[i] = [key |-> want[r], gen |-> gen]
      BY <3>2
    <3>4. prepared' = Append(Others(want[r]), [key |-> want[r], gen |-> gen])
      BY <3>1, <3>3
    <3>5. DictOK'
      <4>1. snapshot' = snapshot
        BY <1>5 DEF Acquire
      <4> HIDE DEF Others
      <4>2. QED
        BY <2>2, <3>2, <3>4, <4>1, AppendKept DEF DictOK, KeysUnique, PreparedMatches, TypeOK
    <3>6. ResponseMatches'
      BY <2>1, <2>2, <3>1, <3>2 DEF ResponseMatches, TypeOK
    <3>7. QED
      BY <3>5, <3>6
  <2>3. CASE ~(gen # 0 /\ r \notin plain /\ Entry(want[r]) # {})
    <3>1. /\ chosen' = [chosen EXCEPT ![r] = gen]
          /\ pc' = [pc EXCEPT ![r] = "render"]
          /\ UNCHANGED <<body, prepared>>
      BY <2>1, <2>3
    <3>2. ResponseMatches'
      BY <3>1 DEF ResponseMatches, TypeOK
    <3>3. QED
      BY <1>1, <1>5, <3>1, <3>2 DEF Acquire
  <2>4. QED
    BY <2>2, <2>3
<1>6. ASSUME NEW r \in Request, Render(r) PROVE DictOK' /\ ResponseMatches'
  <2>1. ResponseMatches'
    BY <1>6 DEF Render, ResponseMatches, TypeOK
  <2>2. CASE Keeps(r)
    <3> DEFINE q == Append(Others(want[r]), [key |-> want[r], gen |-> chosen[r]])
    <3>1. want[r] \in Key /\ chosen[r] \in Nat /\ chosen[r] = snapshot.gen
      BY <2>2 DEF Keeps, TypeOK
    <3>2. /\ q \in Seq([key : Key, gen : Nat])
          /\ Len(q) <= MaxPrepared + 1
          /\ \A i \in 1..Len(q) : q[i].gen = snapshot.gen
          /\ \A i, j \in 1..Len(q) : q[i].key = q[j].key => i = j
      BY <3>1, AppendKept DEF TypeOK
    <3>3. prepared' = Bounded(q) /\ snapshot' = snapshot
      BY <1>6, <2>2 DEF Render
    <3> HIDE DEF q
    <3>4. DictOK'
      BY <3>2, <3>3, BoundedKept DEF DictOK, KeysUnique, PreparedMatches
    <3>5. QED
      BY <2>1, <3>4
  <2>3. CASE ~Keeps(r)
    BY <1>1, <1>6, <2>1, <2>3 DEF Render
  <2>4. QED
    BY <2>2, <2>3
<1>7. ASSUME NEW r \in Request,
             \/ Arrive(r) \/ Send(r) \/ RenderFails(r) \/ CancelWait(r) \/ Cancel(r) \/ Drain(r)
      PROVE  DictOK' /\ ResponseMatches'
  <2>1. ResponseMatches'
    BY <1>7 DEF Arrive, Send, RenderFails, CancelWait, Cancel, Drain, Leave, ResponseMatches, TypeOK
  <2>2. QED
    BY <1>1, <1>7, <2>1 DEF Arrive, Send, RenderFails, CancelWait, Cancel, Drain, cacheVars
<1>8. QED
  BY <1>3, <1>4, <1>5, <1>6, <1>7 DEF Next

--------------------------------------------------------------------------------
(* The age of the snapshot.                                                *)

\* The numbers that fingerprints and contents are made of.
LEMMA Numbers ==
  ASSUME TypeOK
  PROVE  /\ now \in Nat /\ validated \in Nat /\ snapshot.gen \in Nat
         /\ source.ins \in Nat /\ source.upd \in Nat /\ counters.ins \in Nat /\ counters.upd \in Nat
         /\ \A t \in 0..now : past[t].id \in Nat /\ past[t].upd \in Nat
         /\ seen.id \in Nat /\ seen.upd \in Nat /\ draft.ins \in Nat /\ draft.upd \in Nat
         /\ lastSeen.id \in Nat /\ lastSeen.upd \in Nat
         /\ snapshot.ins \in Nat /\ snapshot.upd \in Nat
<1> USE CacheBounds DEF TypeOK, Time, Content, Marks
<1>1. /\ now \in Nat /\ validated \in Nat /\ snapshot.gen \in Nat
      /\ source.ins \in Nat /\ source.upd \in Nat /\ counters.ins \in Nat /\ counters.upd \in Nat
  OBVIOUS
<1>2. \A t \in 0..now : past[t].id \in Nat /\ past[t].upd \in Nat
  <2>1. past \in [Time -> [id : 0..MaxInserts, ins : 0..MaxInserts, upd : 0..MaxUpdates]]
    OBVIOUS
  <2>2. \A t \in 0..now : t \in Time
    OBVIOUS
  <2> HIDE DEF TypeOK, Time, Marks
  <2>3. ASSUME NEW t \in 0..now
        PROVE  past[t] \in [id : 0..MaxInserts, ins : 0..MaxInserts, upd : 0..MaxUpdates]
    BY <2>1, <2>2
  <2>4. QED
    BY <2>3
<1>3. /\ seen.id \in Nat /\ seen.upd \in Nat /\ draft.ins \in Nat /\ draft.upd \in Nat
      /\ lastSeen.id \in Nat /\ lastSeen.upd \in Nat
      /\ snapshot.ins \in Nat /\ snapshot.upd \in Nat
  OBVIOUS
<1>4. QED
  BY <1>1, <1>2, <1>3

\* What a fingerprint shows.
LEMMA Shown == Fingerprint.id = source.ins /\ Fingerprint.upd = counters.upd
  BY DEF Fingerprint

\* Steps that leave the clock, the table, the task and the snapshot alone.
LEMMA FreshStutter ==
  ASSUME FreshInv, UNCHANGED <<now, tableVars, taskVars, snapshot, lastSeen, validated>>
  PROVE  FreshInv'
  BY DEF FreshInv, PastGrows, DraftCovers, SnapshotCovers, Covers, tableVars, taskVars

\* The clock, the table and its counters.
LEMMA FreshTable ==
  ASSUME TypeOK, FreshInv, Tick \/ Change \/ Report
  PROVE  FreshInv'
<1> USE Numbers DEF FreshInv
<1>1. CASE Tick
  <2>1. /\ now' = now + 1
        /\ past'[now'] = Fingerprint
        /\ \A t \in 0..now : past'[t] = past[t]
        /\ UNCHANGED <<source, counters, rpc, seen, draft, snapshot, lastSeen, validated>>
    <3>1. now + 1 \in Time /\ \A t \in 0..now : t \in Time /\ t # now + 1
      BY <1>1, CacheBounds DEF Tick, Time
    <3>2. past' = [past EXCEPT ![now'] = Fingerprint] /\ now' = now + 1
      BY <1>1 DEF Tick
    <3>3. past \in [Time -> Marks]
      BY DEF TypeOK
    <3>4. past'[now'] = Fingerprint /\ \A t \in 0..now : past'[t] = past[t]
      BY <3>1, <3>2, <3>3
    <3>5. QED
      BY <1>1, <3>2, <3>4 DEF Tick, taskVars, cacheVars
  <2>2. PastGrows'
    <3>1. \A t \in 0..now' : t = now' \/ t \in 0..now
      BY <2>1
    <3>2. \A t \in 0..now' : past'[t].id <= source'.ins /\ past'[t].upd <= counters'.upd
      BY <2>1, <3>1, Shown DEF PastGrows
    <3>3. ASSUME NEW t \in 0..now', NEW u \in 0..now', t <= u
          PROVE  past'[t].id <= past'[u].id /\ past'[t].upd <= past'[u].upd
      <4>1. CASE u \in 0..now
        BY <2>1, <3>3, <4>1 DEF PastGrows
      <4>2. CASE u = now'
        BY <2>1, <3>2, <3>3, <4>2, Shown
      <4>3. QED
        BY <3>1, <4>1, <4>2
    <3>4. QED
      BY <2>1, <3>2, <3>3 DEF PastGrows
  <2>3. DraftCovers'
    BY <2>1 DEF DraftCovers
  <2>4. SnapshotCovers'
    BY <2>1 DEF SnapshotCovers, Covers
  <2>5. QED
    BY <2>2, <2>3, <2>4
<1>2. CASE Change \/ Report
  <2>1. UNCHANGED <<now, past, rpc, seen, draft, snapshot, lastSeen, validated>>
    BY <1>2 DEF Change, Report, taskVars, cacheVars
  <2>2. /\ source'.ins \in Nat /\ source'.upd \in Nat
        /\ counters'.ins \in Nat /\ counters'.upd \in Nat
        /\ source'.ins >= source.ins /\ source'.upd >= source.upd
        /\ counters'.ins >= counters.ins /\ counters'.upd >= counters.upd
        /\ counters'.ins <= source'.ins /\ counters'.upd <= source'.upd
    <3>1. CASE Report
      BY <3>1 DEF Report, PastGrows
    <3>2. CASE Change
      <4>1. source \in [ins : 0..MaxInserts, upd : 0..MaxUpdates] /\ counters' = counters
        BY <3>2 DEF TypeOK, Content, Change
      <4>2. CASE source' = [source EXCEPT !.ins = @ + 1]
        BY <4>1, <4>2 DEF PastGrows
      <4>3. CASE source' = [source EXCEPT !.upd = @ + 1]
        BY <4>1, <4>3 DEF PastGrows
      <4>4. QED
        BY <3>2, <4>2, <4>3 DEF Change
    <3>3. QED
      BY <1>2, <3>1, <3>2
  <2>3. PastGrows'
    BY <2>1, <2>2 DEF PastGrows
  <2>4. DraftCovers'
    BY <2>1, <2>2 DEF DraftCovers
  <2>5. SnapshotCovers'
    BY <2>1 DEF SnapshotCovers, Covers
  <2>6. QED
    BY <2>3, <2>4, <2>5
<1>3. QED
  BY <1>1, <1>2

\* The refresh task: what it loads holds what it saw before, and it validates a snapshot
\* only while the fingerprint is the one the snapshot holds.
LEMMA FreshTask ==
  ASSUME TypeOK, FreshInv, Poll \/ LoadMax \/ LoadRows \/ Recheck \/ RefreshFails
  PROVE  FreshInv'
<1> USE Numbers DEF FreshInv
<1>0. UNCHANGED <<now, source, counters, past>> /\ PastGrows'
  BY DEF Poll, LoadMax, LoadRows, Recheck, RefreshFails, PastGrows, tableVars
<1>1. CASE Poll
  <2>1. DraftCovers'
    BY <1>0, <1>1, Shown DEF Poll, DraftCovers
  <2>2. CASE UNCHANGED validated
    <3>1. SnapshotCovers'
      BY <1>0, <1>1, <2>2 DEF Poll, SnapshotCovers, Covers
    <3>2. QED
      BY <1>0, <2>1, <3>1
  <2>3. CASE validated' = now /\ lastSeen = Fingerprint
    <3>1. past[now].id <= source.ins /\ past[now].upd <= counters.upd
      BY DEF PastGrows
    <3>2. past[now].id \in Nat /\ past[now].upd \in Nat
      OBVIOUS
    <3>3. snapshot' = snapshot /\ lastSeen' = lastSeen
      BY <1>1 DEF Poll
    <3>4. SnapshotCovers'
      BY <1>0, <2>3, <3>1, <3>2, <3>3, Shown DEF SnapshotCovers, Covers
    <3>5. QED
      BY <1>0, <2>1, <3>4
  <2>4. QED
    BY <1>1, <2>2, <2>3 DEF Poll
<1>2. CASE LoadMax \/ LoadRows
  <2>1. DraftCovers'
    <3>1. draft \in [ins : 0..MaxInserts, upd : 0..MaxUpdates]
      BY DEF TypeOK, Content
    <3>2. CASE LoadMax
      BY <1>0, <3>1, <3>2 DEF LoadMax, DraftCovers
    <3>3. CASE LoadRows
      BY <1>0, <3>1, <3>3 DEF LoadRows, DraftCovers, PastGrows
    <3>4. QED
      BY <1>2, <3>2, <3>3
  <2>2. SnapshotCovers'
    BY <1>0, <1>2 DEF LoadMax, LoadRows, SnapshotCovers, Covers, cacheVars
  <2>3. QED
    BY <1>0, <2>1, <2>2
<1>3. CASE Recheck
  <2>1. DraftCovers'
    BY <1>3 DEF Recheck, Sleep, DraftCovers
  <2>2. CASE SourceSettled
    <3>1. /\ seen = Fingerprint /\ lastSeen' = seen /\ validated' = now
          /\ snapshot'.ins = draft.ins /\ snapshot'.upd = draft.upd
          /\ draft.ins >= seen.id /\ draft.upd >= seen.upd
      BY <1>3, <2>2 DEF Recheck, SourceSettled, DraftCovers
    <3>2. /\ past[now].id \in Nat /\ past[now].upd \in Nat
          /\ past[now].id <= source.ins /\ past[now].upd <= counters.upd
      BY DEF PastGrows
    <3>3. SnapshotCovers'
      BY <1>0, <3>1, <3>2, Shown DEF SnapshotCovers, Covers
    <3>4. QED
      BY <1>0, <2>1, <3>3
  <2>3. CASE ~SourceSettled
    <3>1. SnapshotCovers'
      BY <1>0, <1>3, <2>3 DEF Recheck, SnapshotCovers, Covers, cacheVars
    <3>2. QED
      BY <1>0, <2>1, <3>1
  <2>4. QED
    BY <2>2, <2>3
<1>4. CASE RefreshFails
  <2>1. DraftCovers'
    BY <1>4 DEF RefreshFails, Sleep, DraftCovers
  <2>2. SnapshotCovers'
    BY <1>0, <1>4 DEF RefreshFails, SnapshotCovers, Covers, cacheVars
  <2>3. QED
    BY <1>0, <2>1, <2>2
<1>5. QED
  BY <1>1, <1>2, <1>3, <1>4

--------------------------------------------------------------------------------
(* The theorems.                                                           *)

\* The parts of the types.
TableOK == now \in Time /\ source \in Content /\ counters \in Content /\ past \in [Time -> Marks]
TaskOK ==
    /\ rpc \in {"sleep", "loadMax", "loadRows", "recheck"}
    /\ seen \in Marks /\ draft \in Content /\ faults \in 0..MaxFaults
SnapshotOK ==
    /\ snapshot \in [gen : Nat, ins : 0..MaxInserts, upd : 0..MaxUpdates]
    /\ lastSeen \in Marks /\ validated \in Time
RequestOK ==
    /\ pc \in [Request -> {"out", "wait", "render", "drain", "send"}]
    /\ want \in [Request -> Key]
    /\ plain \subseteq Request
    /\ chosen \in [Request -> Nat] /\ body \in [Request -> Nat]

\* Every step keeps the types.
LEMMA CacheTypes ==
  ASSUME TypeOK, SlotsInv, KeysUnique, PreparedMatches, ResponseMatches, [Next]_vars
  PROVE  TypeOK'
<1>0. /\ free' \in 0..Slots
      /\ prepared' \in Seq([key : Key, gen : Nat]) /\ Len(prepared') <= MaxPrepared
  BY SlotStep, AnswerStep DEF DictOK
<1>1. TableOK /\ TaskOK /\ SnapshotOK /\ RequestOK
  BY DEF TypeOK, TableOK, TaskOK, SnapshotOK, RequestOK
<1>2. Fingerprint \in Marks
  BY <1>1 DEF Fingerprint, Marks, TableOK, Content
<1>3. TableOK'
  <2>1. CASE Tick
    BY <1>1, <1>2, <2>1, CacheBounds DEF Tick, TableOK, Time
  <2>2. CASE Change
    <3>1. source \in [ins : 0..MaxInserts, upd : 0..MaxUpdates]
      BY <1>1 DEF TableOK, Content
    <3>2. source' \in Content
      BY <2>2, <3>1, CacheBounds DEF Change, Content
    <3>3. QED
      BY <1>1, <2>2, <3>2 DEF Change, TableOK
  <2>3. CASE Report
    BY <1>1, <2>3 DEF Report, TableOK
  <2>4. CASE UNCHANGED <<now, tableVars>>
    BY <1>1, <2>4 DEF TableOK, tableVars
  <2>5. QED
    BY <2>1, <2>2, <2>3, <2>4 DEF Next, Poll, LoadMax, LoadRows, Recheck, RefreshFails, Arrive,
       Acquire, Render, Send, RenderFails, CancelWait, Cancel, Drain, vars
<1>4. TaskOK'
  <2>1. CASE Poll
    BY <1>1, <1>2, <2>1 DEF Poll, TaskOK
  <2>2. CASE LoadMax \/ LoadRows
    <3>1. draft \in [ins : 0..MaxInserts, upd : 0..MaxUpdates]
      BY <1>1 DEF TaskOK, Content
    <3>2. source.ins \in 0..MaxInserts /\ source.upd \in 0..MaxUpdates
      BY <1>1 DEF TableOK, Content
    <3>3. draft' \in Content
      BY <2>2, <3>1, <3>2 DEF LoadMax, LoadRows, Content
    <3>4. QED
      BY <1>1, <2>2, <3>3 DEF LoadMax, LoadRows, TaskOK
  <2>3. CASE Recheck \/ RefreshFails
    <3>1. seen' \in Marks /\ draft' \in Content
      BY <2>3, CacheBounds DEF Recheck, RefreshFails, Sleep, Empty, Marks, Content
    <3>2. QED
      BY <1>1, <2>3, <3>1, CacheBounds DEF Recheck, RefreshFails, Sleep, TaskOK
  <2>4. CASE UNCHANGED taskVars
    BY <1>1, <2>4 DEF TaskOK, taskVars
  <2>5. QED
    BY <2>1, <2>2, <2>3, <2>4 DEF Next, Tick, Change, Report, Arrive, Acquire, Render, Send,
       RenderFails, CancelWait, Cancel, Drain, vars
<1>5. SnapshotOK'
  <2>1. CASE Poll
    BY <1>1, <2>1 DEF Poll, SnapshotOK, TableOK
  <2>2. CASE Recheck
    <3>1. CASE SourceSettled
      <4>1. draft.ins \in 0..MaxInserts /\ draft.upd \in 0..MaxUpdates /\ snapshot.gen \in Nat
        BY <1>1 DEF TaskOK, SnapshotOK, Content
      <4>2. snapshot' \in [gen : Nat, ins : 0..MaxInserts, upd : 0..MaxUpdates]
        BY <2>2, <3>1, <4>1 DEF Recheck
      <4>3. QED
        BY <1>1, <2>2, <3>1, <4>2 DEF Recheck, SnapshotOK, TableOK, TaskOK
    <3>2. CASE ~SourceSettled
      BY <1>1, <2>2, <3>2 DEF Recheck, SnapshotOK, cacheVars
    <3>3. QED
      BY <3>1, <3>2
  <2>3. CASE UNCHANGED <<snapshot, lastSeen, validated>>
    BY <1>1, <2>3 DEF SnapshotOK
  <2>4. QED
    BY <2>1, <2>2, <2>3 DEF Next, Tick, Change, Report, LoadMax, LoadRows, RefreshFails, Arrive,
       Acquire, Render, Send, RenderFails, CancelWait, Cancel, Drain, vars, cacheVars
<1>6. RequestOK'
  <2>1. ASSUME NEW r \in Request, Acquire(r) PROVE RequestOK'
    <3>1. PICK gen \in {0} \cup (IF Usable THEN {snapshot.gen} ELSE {}) :
            /\ chosen' = [chosen EXCEPT ![r] = gen]
            /\ \/ \E i \in Entry(want[r]) :
                      /\ body' = [body EXCEPT ![r] = prepared[i].gen]
                      /\ pc' = [pc EXCEPT ![r] = "send"] /\ Forget(r)
               \/ pc' = [pc EXCEPT ![r] = "render"] /\ UNCHANGED <<body, want, plain>>
      BY <2>1 DEF Acquire
    <3>2. gen \in Nat
      BY <1>1 DEF SnapshotOK
    <3>3. ASSUME NEW i \in Entry(want[r]) PROVE prepared[i].gen \in Nat
      <4>1. prepared \in Seq([key : Key, gen : Nat]) /\ i \in 1..Len(prepared)
        BY DEF TypeOK, Entry
      <4>2. prepared[i] \in [key : Key, gen : Nat]
        BY <4>1, ElementOfSeq
      <4>3. QED
        BY <4>2
    <3>4. QED
      BY <1>1, <3>1, <3>2, <3>3, CacheBounds DEF RequestOK, Forget
  <2>2. ASSUME NEW r \in Request, Arrive(r) \/ CancelWait(r) PROVE RequestOK'
    BY <1>1, <2>2, CacheBounds DEF RequestOK, Arrive, CancelWait, Forget
  <2>3. ASSUME NEW r \in Request, Render(r) \/ Cancel(r) PROVE RequestOK'
    BY <1>1, <2>3, CacheBounds DEF RequestOK, Render, Cancel, Forget
  <2>4. ASSUME NEW r \in Request, Send(r) \/ RenderFails(r) \/ Drain(r) PROVE RequestOK'
    BY <1>1, <2>4, CacheBounds DEF RequestOK, Send, RenderFails, Drain, Leave, Forget
  <2>5. CASE UNCHANGED requestVars
    BY <1>1, <2>5 DEF RequestOK, requestVars
  <2>6. QED
    BY <2>1, <2>2, <2>3, <2>4, <2>5 DEF Next, Tick, Change, Report, Poll, LoadMax, LoadRows,
       Recheck, RefreshFails, vars
<1>7. QED
  BY <1>0, <1>3, <1>4, <1>5, <1>6 DEF TypeOK, TableOK, TaskOK, SnapshotOK, RequestOK

\* The invariant is inductive.
LEMMA CacheStep == CacheInv /\ [Next]_vars => CacheInv'
<1> SUFFICES ASSUME CacheInv, [Next]_vars PROVE CacheInv'
  OBVIOUS
<1>1. TypeOK' /\ SlotsInv' /\ DictOK' /\ ResponseMatches'
  BY CacheTypes, SlotStep, AnswerStep DEF CacheInv
<1>2. FreshInv'
  <2>1. CASE Tick \/ Change \/ Report
    BY <2>1, FreshTable DEF CacheInv
  <2>2. CASE Poll \/ LoadMax \/ LoadRows \/ Recheck \/ RefreshFails
    BY <2>2, FreshTask DEF CacheInv
  <2>3. ASSUME NEW r \in Request,
               \/ Arrive(r) \/ Acquire(r) \/ Render(r) \/ Send(r)
               \/ RenderFails(r) \/ CancelWait(r) \/ Cancel(r) \/ Drain(r)
        PROVE  FreshInv'
    BY <2>3, FreshStutter DEF CacheInv, Arrive, Acquire, Render, Send, RenderFails, CancelWait,
       Cancel, Drain, cacheVars
  <2>4. CASE UNCHANGED vars
    BY <2>4, FreshStutter DEF CacheInv, vars, cacheVars
  <2>5. QED
    BY <2>1, <2>2, <2>3, <2>4 DEF Next
<1>3. QED
  BY <1>1, <1>2 DEF CacheInv, DictOK

\* It holds in every reachable state.
LEMMA CacheInductive == Spec => []CacheInv
  BY CacheInit, CacheStep, PTL DEF Spec

\* The cache, its task and its requests keep their types; no more answers are kept than
\* MAX_PREPARED_RESPONSES.
THEOREM HistoryTypes == Spec => []TypeOK
  BY CacheInductive, PTL DEF CacheInv

\* Every answer is rendered from the snapshot its request chose, whoever prepared it and
\* whatever was published in the meantime.
THEOREM AnswersMatch == Spec => []ResponseMatches
<1>1. CacheInv => ResponseMatches
  BY DEF CacheInv
<1>2. QED
  BY <1>1, CacheInductive, PTL

\* No more threads and bodies exist than delivery slots, whatever is cancelled.
THEOREM SlotsBounded == Spec => []CpuBounded
<1>1. CacheInv => CpuBounded
  <2> SUFFICES ASSUME CacheInv PROVE CpuBounded
    OBVIOUS
  <2>1. Cardinality(Busy) \in Nat /\ free + Cardinality(Busy) = Slots /\ free \in 0..Slots
    BY FS_CardinalityType DEF CacheInv, SlotsInv, SlotsCounted, Busy, TypeOK
  <2>2. QED
    BY <2>1, CacheBounds DEF CpuBounded, Busy
<1>2. QED
  BY <1>1, CacheInductive, PTL

\* A snapshot that is still usable has every change PostgreSQL showed MAX_UNCHECKED_SECONDS
\* ago: fingerprints only grow, and it covers the one of its last validation.
THEOREM SnapshotRecent == Spec => []UsableIsRecent
<1>1. CacheInv => UsableIsRecent
  <2> SUFFICES ASSUME CacheInv, Usable, now >= MaxUnchecked
               PROVE  Covers(snapshot, past[now - MaxUnchecked])
    BY DEF UsableIsRecent
  <2> USE Numbers, CacheBounds DEF CacheInv, FreshInv
  <2>1. /\ now - MaxUnchecked \in 0..now /\ validated \in 0..now
        /\ now - MaxUnchecked <= validated /\ snapshot.gen # 0
    BY DEF Usable, SnapshotCovers
  <2>2. /\ past[now - MaxUnchecked].id <= past[validated].id
        /\ past[now - MaxUnchecked].upd <= past[validated].upd
    BY <2>1 DEF PastGrows
  <2>3. Covers(snapshot, past[validated])
    BY <2>1 DEF SnapshotCovers
  <2>4. QED
    BY <2>1, <2>2, <2>3 DEF Covers
<1>2. QED
  BY <1>1, CacheInductive, PTL
================================================================================
