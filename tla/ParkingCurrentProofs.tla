-------------------------- MODULE ParkingCurrentProofs --------------------------
(***************************************************************************)
(* Proofs about ParkingCurrent for any processes, sources, answers, number *)
(* of runs and length of time.                                             *)
(***************************************************************************)
EXTENDS ParkingCurrent, FiniteSetTheorems, TLAPS

\* One run at a time holds the locks of the head rows.
OneStored == \A p, q \in Proc : pc[p] = "stored" /\ pc[q] = "stored" => p = q

\* What the store has verified holds until the run ends: nobody else changes a locked head.
StoreHeld == \A p \in Proc : pc[p] = "stored" => \A s \in Fetched(p) : Promotable(p, s)

\* The lots of an answer are observed at some time, and an accepted set is what the history gets.
AnswersTimed ==
    \A p \in Proc : \A s \in Source :
        /\ res[p][s].lots # {} => res[p][s].at \in Time
        /\ res[p][s].members # {} => res[p][s].lots = res[p][s].members

\* The inductive invariant.
ParkingInv ==
    TypeOK /\ OneStored /\ StoreHeld /\ AnswersTimed /\ CurrentMatchesHead /\ FailureOrdered

--------------------------------------------------------------------------------
\* What a provider lists is finite, so that sizes can be compared.
LEMMA MembersFinite == \A m \in Members : IsFiniteSet(m) /\ Cardinality(m) \in Nat
<1> SUFFICES ASSUME NEW m \in Members PROVE IsFiniteSet(m) /\ Cardinality(m) \in Nat
  OBVIOUS
<1>1. IsFiniteSet(m)
  BY FS_EmptySet, ParkingAssumption DEF Members
<1>2. QED
  BY <1>1, FS_CardinalityType

\* The lots of an answer are lots.
LEMMA MembersAreLots == \A m \in Members : m \subseteq Lot
  BY DEF Members, Lot

\* An answer is a record of its three parts.
LEMMA AnswerType ==
    ASSUME NEW d \in BOOLEAN, NEW m \in Members, NEW k \in Members, NEW t \in Time \cup {None}
    PROVE  [done |-> d, members |-> m, lots |-> k, at |-> t] \in Answer
  BY DEF Answer

\* The initial state satisfies the invariant.
LEMMA ParkingInit == Init => ParkingInv
<1> SUFFICES ASSUME Init PROVE ParkingInv
  OBVIOUS
<1> USE DEF Init
<1>1. TypeOK
  <2>1. NoHead \in Head
    BY ParkingAssumption DEF NoHead, Head, Members, Time
  <2>2. NoValue \in Value
    BY ParkingAssumption DEF NoValue, Value, Time
  <2>3. NoAnswer \in Answer
    BY AnswerType DEF NoAnswer, Members, None
  <2>4. now \in Time /\ nextRun \in 1..(MaxRuns + 1) /\ 0 \in 0..MaxRuns
    BY ParkingAssumption DEF Time
  <2>5. QED
    BY <2>1, <2>2, <2>3, <2>4 DEF TypeOK
<1>2. OneStored /\ StoreHeld
  BY DEF OneStored, StoreHeld
<1>3. AnswersTimed
  BY DEF AnswersTimed, NoAnswer
<1>4. CurrentMatchesHead /\ FailureOrdered
  BY DEF CurrentMatchesHead, FailureOrdered, NoHead
<1>5. QED
  BY <1>1, <1>2, <1>3, <1>4 DEF ParkingInv

--------------------------------------------------------------------------------
\* What a process leaves behind when its run ends.
LEMMA LeaveKeeps ==
    ASSUME ParkingInv, NEW p \in Proc, Leave(p)
    PROVE  /\ pc' \in [Proc -> {"idle", "fetch", "stored"}]
           /\ run' \in [Proc -> 0..MaxRuns]
           /\ previous' \in [Proc -> [Source -> Nat]]
           /\ attempt' \in [Proc -> [Source -> {0, 1}]]
           /\ res' \in [Proc -> [Source -> Answer]]
           /\ \A q \in Proc : pc'[q] = "stored" =>
                  q # p /\ pc[q] = "stored" /\ run'[q] = run[q] /\ res'[q] = res[q]
           /\ OneStored'
           /\ AnswersTimed'
<1> USE DEF ParkingInv, TypeOK, Leave
<1>1. NoAnswer \in Answer
  BY AnswerType DEF NoAnswer, Members, None
<1>2. /\ pc' \in [Proc -> {"idle", "fetch", "stored"}]
      /\ run' \in [Proc -> 0..MaxRuns]
      /\ previous' \in [Proc -> [Source -> Nat]]
      /\ attempt' \in [Proc -> [Source -> {0, 1}]]
  BY ParkingAssumption
<1>3. res' \in [Proc -> [Source -> Answer]]
  BY <1>1
<1>4. \A q \in Proc : pc'[q] = "stored" =>
          q # p /\ pc[q] = "stored" /\ run'[q] = run[q] /\ res'[q] = res[q]
  OBVIOUS
<1>5. OneStored'
  BY <1>4 DEF OneStored
<1>6. AnswersTimed'
  <2> SUFFICES ASSUME NEW q \in Proc, NEW s \in Source
               PROVE  /\ res'[q][s].lots # {} => res'[q][s].at \in Time
                      /\ res'[q][s].members # {} => res'[q][s].lots = res'[q][s].members
    BY DEF AnswersTimed, Time
  <2>1. CASE q = p
    BY <2>1 DEF NoAnswer
  <2>2. CASE q # p
    BY <2>2 DEF AnswersTimed
  <2>3. QED
    BY <2>1, <2>2
<1>7. QED
  BY <1>2, <1>3, <1>4, <1>5, <1>6

\* A failure mark keeps the order, the members and the time of a head.
LEMMA MarkKeeps ==
    ASSUME TypeOK, NEW p \in Proc, NEW s \in Source
    PROVE  /\ Mark(p, s) \in Head
           /\ Mark(p, s).order = head[s].order
           /\ Mark(p, s).members = head[s].members
           /\ Mark(p, s).confirmed = head[s].confirmed
           /\ (head[s].failedBy # 0 => head[s].failedBy >= head[s].order)
                 => (Mark(p, s).failedBy # 0 => Mark(p, s).failedBy >= Mark(p, s).order)
<1> USE DEF TypeOK
<1>1. head[s] \in Head /\ run[p] \in 0..MaxRuns
  OBVIOUS
<1>2. CASE head[s].order \in 1..run[p]
  <2>1. Mark(p, s) = [head[s] EXCEPT !.failedBy = run[p]]
    BY <1>2 DEF Mark
  <2>2. run[p] >= head[s].order
    BY <1>1, <1>2 DEF Head
  <2>3. QED
    BY <1>1, <2>1, <2>2 DEF Head
<1>3. CASE head[s].order \notin 1..run[p]
  BY <1>1, <1>3 DEF Mark
<1>4. QED
  BY <1>2, <1>3

\* What a stored run is about to write: a later order, a set that is not a sharp drop, and rows
\* that are those of the set, each in the history and none older than the row it replaces.
LEMMA StoredWrites ==
    ASSUME ParkingInv, NEW p \in Proc, pc[p] = "stored", NEW s \in Fetched(p)
    PROVE  /\ Promoted(p, s) \in Head
           /\ Promoted(p, s).order >= head[s].order
           /\ 4 * Cardinality(Promoted(p, s).members) >= Cardinality(head[s].members)
           /\ Stored(p, s) \in [Lot -> Value]
           /\ \A l \in Lot \ Promoted(p, s).members : Stored(p, s)[l] = NoValue
           /\ \A l \in Promoted(p, s).members :
                 /\ l \in Lot
                 /\ Stored(p, s)[l].generation = Promoted(p, s).order
                 /\ Stored(p, s)[l].at >= Promoted(p, s).confirmed
                 /\ Stored(p, s)[l].at >= current[s][l].at
                 /\ <<s, l, Stored(p, s)[l].at>> \in history \cup Observed(p, s)
<1> USE DEF ParkingInv, TypeOK
<1>1. /\ s \in Source /\ head[s] \in Head /\ run[p] \in 0..MaxRuns
      /\ res[p][s] \in Answer /\ res[p][s].members # {} /\ res[p][s].members \in Members
  BY DEF Fetched, Answer
<1>2. res[p][s].at \in Time /\ res[p][s].lots = res[p][s].members
  BY <1>1 DEF AnswersTimed
<1>3. Promotable(p, s)
  BY DEF StoreHeld
<1>4. Promoted(p, s) \in Head
  BY <1>1, <1>2, ParkingAssumption DEF Promoted, Head
<1>5. /\ Promoted(p, s).order >= head[s].order
      /\ 4 * Cardinality(Promoted(p, s).members) >= Cardinality(head[s].members)
  <2>1. head[s].order \in Int /\ run[p] \in Int
    BY <1>1 DEF Head
  <2>2. Cardinality(head[s].members) \in Nat /\ Cardinality(res[p][s].members) \in Nat
    BY <1>1, MembersFinite DEF Head
  <2>3. QED
    BY <1>3, <2>1, <2>2 DEF Promotable, Promoted
<1>6. \A l \in Lot : current[s][l] \in Value
  BY <1>1
<1>7. \A l \in Lot : NewValue(p, s, l) \in Value
  BY <1>1, <1>2, <1>6 DEF NewValue, Value
<1>8. Stored(p, s) \in [Lot -> Value]
  <2>1. NoValue \in Value
    BY ParkingAssumption DEF NoValue, Value, Time
  <2>2. QED
    BY <1>7, <2>1 DEF Stored
<1>9. \A l \in Lot \ Promoted(p, s).members : Stored(p, s)[l] = NoValue
  BY DEF Stored, Promoted
<1>10. ASSUME NEW l \in Promoted(p, s).members
       PROVE  /\ l \in Lot
              /\ Stored(p, s)[l].generation = Promoted(p, s).order
              /\ Stored(p, s)[l].at >= Promoted(p, s).confirmed
              /\ Stored(p, s)[l].at >= current[s][l].at
              /\ <<s, l, Stored(p, s)[l].at>> \in history \cup Observed(p, s)
  <2>1. l \in res[p][s].members /\ l \in Lot
    BY <1>1, <1>10, MembersAreLots DEF Promoted
  <2>2. Stored(p, s)[l] = NewValue(p, s, l)
    BY <2>1 DEF Stored
  <2>3. res[p][s].at \in Int /\ current[s][l].at \in Int
    BY <1>2, <1>6, <2>1 DEF Value, Time
  <2>4. <<s, l, res[p][s].at>> \in Observed(p, s)
    BY <1>2, <2>1 DEF Observed
  <2>5. CASE res[p][s].at >= current[s][l].at
    BY <2>1, <2>2, <2>3, <2>4, <2>5 DEF NewValue, Promoted
  <2>6. CASE ~(res[p][s].at >= current[s][l].at)
    <3>1. l \in head[s].members
      <4>1. l \notin head[s].members => current[s][l] = NoValue
        BY <1>1, <2>1 DEF CurrentMatchesHead
      <4>2. NoValue.at = 0 /\ res[p][s].at >= 0
        BY <1>2 DEF NoValue, Time
      <4>3. QED
        BY <2>6, <4>1, <4>2
    <3>2. <<s, l, current[s][l].at>> \in history
      BY <1>1, <2>1, <3>1 DEF CurrentMatchesHead
    <3>3. NewValue(p, s, l).at = current[s][l].at /\ NewValue(p, s, l).generation = run[p]
      BY <2>6 DEF NewValue
    <3>4. QED
      BY <2>1, <2>2, <2>3, <2>6, <3>2, <3>3 DEF Promoted
  <2>7. QED
    BY <2>5, <2>6
<1>11. QED
  BY <1>4, <1>5, <1>8, <1>9, <1>10

--------------------------------------------------------------------------------
\* A step of one process that leaves the heads alone keeps what other stored runs have verified.
LEMMA StoreHeldKept ==
    ASSUME ParkingInv, head' = head,
           \A q \in Proc : pc'[q] = "stored" =>
               pc[q] = "stored" /\ run'[q] = run[q] /\ res'[q] = res[q]
    PROVE  StoreHeld'
<1> SUFFICES ASSUME NEW q \in Proc, pc'[q] = "stored", NEW s \in Fetched(q)'
             PROVE  Promotable(q, s)'
  BY DEF StoreHeld
<1>1. pc[q] = "stored" /\ run'[q] = run[q] /\ res'[q] = res[q]
  OBVIOUS
<1>2. s \in Fetched(q)
  BY <1>1 DEF Fetched
<1>3. Promotable(q, s)
  BY <1>1, <1>2 DEF ParkingInv, StoreHeld
<1>4. QED
  BY <1>1, <1>3 DEF Promotable

\* Tick and a stuttering step.
LEMMA TickStep == ASSUME ParkingInv, Tick \/ UNCHANGED vars PROVE ParkingInv'
<1> USE DEF ParkingInv, dbVars, procVars
<1>1. now' \in Time /\ UNCHANGED <<dbVars, procVars>>
  BY ParkingAssumption DEF Tick, vars, TypeOK, Time
<1>2. TypeOK'
  BY <1>1 DEF TypeOK
<1>3. OneStored' /\ AnswersTimed'
  BY <1>1 DEF OneStored, AnswersTimed, Time
<1>4. StoreHeld'
  BY <1>1, StoreHeldKept
<1>5. CurrentMatchesHead' /\ FailureOrdered'
  BY <1>1 DEF CurrentMatchesHead, FailureOrdered
<1>6. QED
  BY <1>2, <1>3, <1>4, <1>5

\* A run begins.
LEMMA BeginStep == ASSUME ParkingInv, NEW p \in Proc, Begin(p) PROVE ParkingInv'
<1> USE DEF ParkingInv, Begin
<1>1. \A b \in BOOLEAN : [NoAnswer EXCEPT !.done = b] \in Answer
  BY DEF NoAnswer, Answer, Members
<1>2. \A s \in Source : res'[p][s] \in Answer /\ res'[p][s].members = {} /\ res'[p][s].lots = {}
  <2>1. PICK blocked : res' = [res EXCEPT ![p] =
                           [s \in Source |-> [NoAnswer EXCEPT !.done = s \in blocked]]]
    OBVIOUS
  <2>2. \A s \in Source : res'[p][s] = [NoAnswer EXCEPT !.done = s \in blocked]
    BY <2>1 DEF TypeOK
  <2>3. \A s \in Source : (s \in blocked) \in BOOLEAN
    OBVIOUS
  <2>4. QED
    BY <1>1, <2>2, <2>3 DEF NoAnswer
<1>3. /\ \A q \in Proc : q # p => res'[q] = res[q] /\ run'[q] = run[q] /\ pc'[q] = pc[q]
      /\ pc'[p] = "fetch"
      /\ res' = [res EXCEPT ![p] = res'[p]]
      /\ DOMAIN res'[p] = Source
  BY DEF TypeOK
<1>4. TypeOK'
  <2>1. nextRun \in 1..MaxRuns /\ nextRun + 1 \in 1..(MaxRuns + 1) /\ nextRun \in 0..MaxRuns
    BY ParkingAssumption DEF TypeOK
  <2>2. [s \in Source |-> Cardinality(head[s].members)] \in [Source -> Nat]
    BY MembersFinite DEF TypeOK, Head
  <2>3. res'[p] \in [Source -> Answer]
    <3>1. PICK blocked : res' = [res EXCEPT ![p] =
                             [s \in Source |-> [NoAnswer EXCEPT !.done = s \in blocked]]]
      OBVIOUS
    <3>2. res'[p] = [s \in Source |-> [NoAnswer EXCEPT !.done = s \in blocked]]
      BY <3>1 DEF TypeOK
    <3>3. QED
      BY <1>2, <3>2
  <2>4. res' \in [Proc -> [Source -> Answer]]
    BY <1>3, <2>3 DEF TypeOK
  <2>5. QED
    BY <2>1, <2>2, <2>4 DEF TypeOK
<1>5. OneStored'
  BY <1>3 DEF OneStored
<1>6. StoreHeld'
  BY <1>3, StoreHeldKept
<1>7. AnswersTimed'
  <2> SUFFICES ASSUME NEW q \in Proc, NEW s \in Source
               PROVE  /\ res'[q][s].lots # {} => res'[q][s].at \in Time
                      /\ res'[q][s].members # {} => res'[q][s].lots = res'[q][s].members
    BY DEF AnswersTimed, Time
  <2>1. CASE q = p
    BY <1>2, <2>1
  <2>2. CASE q # p
    BY <1>3, <2>2 DEF AnswersTimed
  <2>3. QED
    BY <2>1, <2>2
<1>8. CurrentMatchesHead' /\ FailureOrdered'
  BY DEF CurrentMatchesHead, FailureOrdered
<1>9. QED
  BY <1>4, <1>5, <1>6, <1>7, <1>8

\* A provider answers, or its call fails.
LEMMA FetchStep ==
    ASSUME ParkingInv, NEW p \in Proc, NEW s \in Source, Fetch(p, s)
    PROVE  ParkingInv'
<1> USE DEF ParkingInv, dbVars
<1>1. /\ pc[p] = "fetch"
      /\ UNCHANGED <<now, head, current, history, nextRun, pc, run>>
  BY DEF Fetch
<1>2. PICK answer \in Answer :
          /\ res' = [res EXCEPT ![p][s] = answer]
          /\ previous' \in [Proc -> [Source -> Nat]]
          /\ attempt' \in [Proc -> [Source -> {0, 1}]]
          /\ answer.lots # {} => answer.at \in Time
          /\ answer.members # {} => answer.lots = answer.members
  <2>1. CASE FetchOk(p, s)
    <3>1. PICK m \in Payload[s], lag \in 0..MaxLag[s] :
              /\ lag <= now
              /\ Done(p, s, [done |-> TRUE, members |-> m, lots |-> m, at |-> now - lag])
      BY <2>1 DEF FetchOk
    <3>2. m \in Members
      BY DEF Members
    <3>3. now - lag \in Time
      BY <3>1, ParkingAssumption DEF TypeOK, Time
    <3>4. [done |-> TRUE, members |-> m, lots |-> m, at |-> now - lag] \in Answer
      BY <3>2, <3>3, AnswerType
    <3>5. QED
      BY <3>1, <3>3, <3>4 DEF Done, TypeOK
  <2>2. CASE FetchBad(p, s)
    <3>0. PICK lots \in Payload[s] \cup {{}}, final \in BOOLEAN : \E answer :
              /\ answer = [done |-> final, members |-> {},
                           lots |-> IF lots = {} THEN res[p][s].lots ELSE lots,
                           at |-> IF lots = {} THEN res[p][s].at ELSE now]
              /\ \/ Done(p, s, answer)
                 \/ /\ attempt' = [attempt EXCEPT ![p][s] = 1]
                    /\ res' = [res EXCEPT ![p][s] = answer]
                    /\ UNCHANGED previous
      BY <2>2 DEF FetchBad
    <3>1. PICK answer :
              /\ answer = [done |-> final, members |-> {},
                           lots |-> IF lots = {} THEN res[p][s].lots ELSE lots,
                           at |-> IF lots = {} THEN res[p][s].at ELSE now]
              /\ \/ Done(p, s, answer)
                 \/ /\ attempt' = [attempt EXCEPT ![p][s] = 1]
                    /\ res' = [res EXCEPT ![p][s] = answer]
                    /\ UNCHANGED previous
      BY <3>0
    <3>2. res[p][s] \in Answer
      BY DEF TypeOK
    <3>3. answer.lots \in Members /\ answer.at \in Time \cup {None} /\ {} \in Members
      BY <3>1, <3>2 DEF Answer, Members, TypeOK
    <3>4. answer \in Answer
      BY <3>1, <3>3, AnswerType
    <3>5. answer.lots # {} => answer.at \in Time
      BY <3>1 DEF AnswersTimed, TypeOK
    <3>6. answer.members = {}
      BY <3>1
    <3>7. /\ res' = [res EXCEPT ![p][s] = answer]
          /\ previous' \in [Proc -> [Source -> Nat]]
          /\ attempt' \in [Proc -> [Source -> {0, 1}]]
      <4>1. CASE Done(p, s, answer)
        BY <4>1 DEF Done, TypeOK
      <4>2. CASE /\ attempt' = [attempt EXCEPT ![p][s] = 1]
                 /\ res' = [res EXCEPT ![p][s] = answer]
                 /\ UNCHANGED previous
        BY <4>2 DEF TypeOK
      <4>3. QED
        BY <3>1, <4>1, <4>2
    <3>8. QED
      BY <3>4, <3>5, <3>6, <3>7
  <2>3. QED
    BY <2>1, <2>2 DEF Fetch
<1>3. TypeOK'
  BY <1>1, <1>2 DEF TypeOK
<1>4. OneStored'
  BY <1>1 DEF OneStored
<1>5. StoreHeld'
  <2>1. \A q \in Proc : pc'[q] = "stored" =>
            pc[q] = "stored" /\ run'[q] = run[q] /\ res'[q] = res[q]
    BY <1>1, <1>2 DEF TypeOK
  <2>2. QED
    BY <1>1, <2>1, StoreHeldKept
<1>6. AnswersTimed'
  <2> SUFFICES ASSUME NEW q \in Proc, NEW t \in Source
               PROVE  /\ res'[q][t].lots # {} => res'[q][t].at \in Time
                      /\ res'[q][t].members # {} => res'[q][t].lots = res'[q][t].members
    BY DEF AnswersTimed, Time
  <2>1. res'[q][t] = IF q = p /\ t = s THEN answer ELSE res[q][t]
    BY <1>2 DEF TypeOK
  <2>2. QED
    BY <1>2, <2>1 DEF AnswersTimed
<1>7. CurrentMatchesHead' /\ FailureOrdered'
  BY <1>1 DEF CurrentMatchesHead, FailureOrdered
<1>8. QED
  BY <1>3, <1>4, <1>5, <1>6, <1>7

\* A run locks the heads and verifies that its answers may be promoted.
LEMMA StoreStep == ASSUME ParkingInv, NEW p \in Proc, Store(p) PROVE ParkingInv'
<1> USE DEF ParkingInv, Store, dbVars
<1>1. TypeOK'
  BY DEF TypeOK
<1>2. /\ pc'[p] = "stored"
      /\ \A q \in Proc : q # p => pc'[q] = pc[q] /\ pc'[q] # "stored"
  BY DEF TypeOK, HeadLocked
<1>3. OneStored'
  BY <1>2 DEF OneStored
<1>4. StoreHeld'
  <2> SUFFICES ASSUME NEW q \in Proc, pc'[q] = "stored", NEW s \in Fetched(q)'
               PROVE  Promotable(q, s)'
    BY DEF StoreHeld
  <2>1. q = p
    BY <1>2
  <2>2. s \in Fetched(p)
    BY <2>1 DEF Fetched
  <2>3. QED
    BY <2>1, <2>2 DEF Promotable
<1>5. AnswersTimed' /\ CurrentMatchesHead' /\ FailureOrdered'
  BY DEF AnswersTimed, CurrentMatchesHead, FailureOrdered, Time
<1>6. QED
  BY <1>1, <1>3, <1>4, <1>5

\* A run commits its rows and its failure marks.
LEMMA FinishStep == ASSUME ParkingInv, NEW p \in Proc, Finish(p) PROVE ParkingInv'
<1> USE DEF ParkingInv
<1>1. /\ pc[p] = "stored" /\ Leave(p) /\ UNCHANGED <<now, nextRun>>
      /\ head' = [s \in Source |-> IF s \in Fetched(p) THEN Promoted(p, s) ELSE Mark(p, s)]
      /\ current' = [s \in Source |-> IF s \in Fetched(p) THEN Stored(p, s) ELSE current[s]]
  BY DEF Finish
<1>2. PICK kept \in SUBSET (Source \ Fetched(p)) :
          history' = history \cup UNION {Observed(p, s) : s \in Fetched(p) \cup kept}
  BY DEF Finish
<1>3. Fetched(p) \subseteq Source
  BY DEF Fetched
<1>4. history \subseteq history' /\ \A s \in Fetched(p) : Observed(p, s) \subseteq history'
  BY <1>2
<1>5. TypeOK'
  <2>1. head' \in [Source -> Head]
    BY <1>1, StoredWrites, MarkKeeps
  <2>2. current' \in [Source -> [Lot -> Value]]
    BY <1>1, StoredWrites DEF TypeOK
  <2>3. history' \subseteq Source \X Lot \X Time
    <3>1. ASSUME NEW s \in Source PROVE Observed(p, s) \subseteq Source \X Lot \X Time
      <4>1. res[p][s] \in Answer
        BY DEF TypeOK
      <4>2. res[p][s].lots \subseteq Lot
        BY <4>1, MembersAreLots DEF Answer
      <4>3. res[p][s].lots # {} => res[p][s].at \in Time
        BY DEF AnswersTimed
      <4>4. QED
        BY <4>2, <4>3 DEF Observed
    <3>2. Fetched(p) \cup kept \subseteq Source
      BY <1>3
    <3>3. QED
      BY <1>2, <3>1, <3>2 DEF TypeOK
  <2>4. QED
    BY <1>1, <2>1, <2>2, <2>3, LeaveKeeps DEF TypeOK
<1>6. OneStored' /\ AnswersTimed'
  BY <1>1, LeaveKeeps
<1>7. StoreHeld'
  <2>1. \A q \in Proc : pc'[q] # "stored"
    BY <1>1, LeaveKeeps DEF OneStored
  <2>2. QED
    BY <2>1 DEF StoreHeld
<1>8. CurrentMatchesHead'
  <2> SUFFICES ASSUME NEW s \in Source, NEW l \in Lot
               PROVE  IF l \in head'[s].members
                      THEN /\ current'[s][l].generation = head'[s].order
                           /\ current'[s][l].at >= head'[s].confirmed
                           /\ <<s, l, current'[s][l].at>> \in history'
                      ELSE current'[s][l] = NoValue
    BY DEF CurrentMatchesHead, Lot, NoValue
  <2>1. CASE s \in Fetched(p)
    <3>1. head'[s] = Promoted(p, s) /\ current'[s] = Stored(p, s)
      BY <1>1, <2>1
    <3>2. CASE l \in Promoted(p, s).members
      <4>1. /\ Stored(p, s)[l].generation = Promoted(p, s).order
            /\ Stored(p, s)[l].at >= Promoted(p, s).confirmed
            /\ <<s, l, Stored(p, s)[l].at>> \in history \cup Observed(p, s)
        BY <1>1, <2>1, <3>2, StoredWrites
      <4>2. QED
        BY <1>4, <2>1, <3>1, <3>2, <4>1
    <3>3. CASE l \notin Promoted(p, s).members
      BY <1>1, <2>1, <3>1, <3>3, StoredWrites
    <3>4. QED
      BY <3>2, <3>3
  <2>2. CASE s \notin Fetched(p)
    <3>1. /\ head'[s].members = head[s].members
          /\ head'[s].order = head[s].order
          /\ head'[s].confirmed = head[s].confirmed
          /\ current'[s] = current[s]
      BY <1>1, <2>2, MarkKeeps
    <3>2. QED
      BY <1>4, <3>1 DEF CurrentMatchesHead
  <2>3. QED
    BY <2>1, <2>2
<1>9. FailureOrdered'
  <2> SUFFICES ASSUME NEW s \in Source
               PROVE  head'[s].failedBy # 0 => head'[s].failedBy >= head'[s].order
    BY DEF FailureOrdered
  <2>1. CASE s \in Fetched(p)
    BY <1>1, <2>1 DEF Promoted
  <2>2. CASE s \notin Fetched(p)
    BY <1>1, <2>2, MarkKeeps DEF FailureOrdered
  <2>3. QED
    BY <2>1, <2>2
<1>10. QED
  BY <1>5, <1>6, <1>7, <1>8, <1>9

\* A run ends in an exception, and marks every source.
LEMMA FailStep == ASSUME ParkingInv, NEW p \in Proc, Fail(p) PROVE ParkingInv'
<1> USE DEF ParkingInv
<1>1. /\ ~HeadLocked(p) /\ Leave(p)
      /\ head' = [s \in Source |-> Mark(p, s)]
      /\ UNCHANGED <<now, current, history, nextRun>>
  BY DEF Fail
<1>2. \A s \in Source :
          /\ head'[s].members = head[s].members
          /\ head'[s].order = head[s].order
          /\ head'[s].confirmed = head[s].confirmed
  BY <1>1, MarkKeeps
<1>3. TypeOK'
  <2>1. head' \in [Source -> Head]
    BY <1>1, MarkKeeps
  <2>2. QED
    BY <1>1, <2>1, LeaveKeeps DEF TypeOK
<1>4. OneStored' /\ AnswersTimed'
  BY <1>1, LeaveKeeps
<1>5. StoreHeld'
  <2>1. \A q \in Proc : pc'[q] # "stored"
    BY <1>1, LeaveKeeps DEF HeadLocked
  <2>2. QED
    BY <2>1 DEF StoreHeld
<1>6. CurrentMatchesHead'
  BY <1>1, <1>2 DEF CurrentMatchesHead
<1>7. FailureOrdered'
  BY <1>1, MarkKeeps DEF FailureOrdered
<1>8. QED
  BY <1>3, <1>4, <1>5, <1>6, <1>7

\* A run dies without a trace.
LEMMA CrashStep == ASSUME ParkingInv, NEW p \in Proc, Crash(p) PROVE ParkingInv'
<1> USE DEF ParkingInv, dbVars
<1>1. Leave(p) /\ UNCHANGED <<now, head, current, history, nextRun>>
  BY DEF Crash
<1>2. TypeOK' /\ OneStored' /\ AnswersTimed'
  BY <1>1, LeaveKeeps DEF TypeOK
<1>3. StoreHeld'
  BY <1>1, LeaveKeeps, StoreHeldKept
<1>4. CurrentMatchesHead' /\ FailureOrdered'
  BY <1>1 DEF CurrentMatchesHead, FailureOrdered
<1>5. QED
  BY <1>2, <1>3, <1>4

\* Every step keeps the invariant.
LEMMA ParkingStep == ParkingInv /\ [Next]_vars => ParkingInv'
<1> SUFFICES ASSUME ParkingInv, [Next]_vars PROVE ParkingInv'
  OBVIOUS
<1>1. CASE Tick \/ UNCHANGED vars
  BY <1>1, TickStep
<1>2. ASSUME NEW p \in Proc, Collect(p) PROVE ParkingInv'
  BY <1>2, BeginStep, FetchStep, StoreStep, FinishStep, FailStep, CrashStep DEF Collect
<1>3. QED
  BY <1>1, <1>2 DEF Next

\* The tables and the processes are well typed whatever the number of runs.
THEOREM ParkingTypes == Spec => []TypeOK
<1>1. ParkingInv => TypeOK
  BY DEF ParkingInv
<1>2. QED
  BY <1>1, ParkingInit, ParkingStep, PTL DEF Spec

\* The current rows of a source are exactly the members of its head, of its generation, and none
\* was observed before the time the head is confirmed for (store_parking_current).
THEOREM CurrentRows == Spec => []CurrentMatchesHead
<1>1. ParkingInv => CurrentMatchesHead
  BY DEF ParkingInv
<1>2. QED
  BY <1>1, ParkingInit, ParkingStep, PTL DEF Spec

\* The failure of an older run never marks the success of a newer one (mark_reference_failure).
THEOREM FailuresOrdered == Spec => []FailureOrdered
<1>1. ParkingInv => FailureOrdered
  BY DEF ParkingInv
<1>2. QED
  BY <1>1, ParkingInit, ParkingStep, PTL DEF Spec

\* While a run holds the heads nothing it verified changes, and it is the only one
\* (the row locks of promote_reference last to the end of the transaction).
THEOREM HeadsHeld == Spec => [](OneStored /\ StoreHeld)
<1>1. ParkingInv => OneStored /\ StoreHeld
  BY DEF ParkingInv
<1>2. QED
  BY <1>1, ParkingInit, ParkingStep, PTL DEF Spec

--------------------------------------------------------------------------------
\* What a step may do to the head and to the rows of one source.
Forward(s) ==
    /\ head'[s].order >= head[s].order
    /\ 4 * Cardinality(head'[s].members) >= Cardinality(head[s].members)
    /\ \A l \in head[s].members \cap head'[s].members : current'[s][l].at >= current[s][l].at

\* A step that keeps the set, the order and the rows of a source goes forward.
LEMMA KeptForward ==
    ASSUME ParkingInv, NEW s \in Source,
           head'[s].order = head[s].order, head'[s].members = head[s].members,
           current'[s] = current[s]
    PROVE  Forward(s)
<1>1. head[s].order \in Int /\ head[s].members \in Members
  BY DEF ParkingInv, TypeOK, Head
<1>2. Cardinality(head[s].members) \in Nat
  BY <1>1, MembersFinite
<1>3. \A l \in head[s].members : current[s][l].at \in Int
  BY <1>1, MembersAreLots DEF ParkingInv, TypeOK, Value, Time
<1>4. QED
  BY <1>1, <1>2, <1>3 DEF Forward

\* A head gives way only to a newer run, never to a sharp drop, and a lot that stays never shows
\* an older value, although the size was first compared before the calls and the observations can
\* be late (promote_reference, store_parking_current).
THEOREM HeadsForward == Spec => HeadForward
<1>1. ASSUME ParkingInv, [Next]_vars, NEW s \in Source PROVE Forward(s)
  <2>1. CASE UNCHANGED <<head, current>>
    BY <1>1, <2>1, KeptForward
  <2>2. ASSUME NEW p \in Proc, Finish(p) PROVE Forward(s)
    <3>1. CASE s \in Fetched(p)
      <4>1. pc[p] = "stored" /\ head'[s] = Promoted(p, s) /\ current'[s] = Stored(p, s)
        BY <2>2, <3>1 DEF Finish
      <4>2. QED
        BY <1>1, <3>1, <4>1, StoredWrites DEF Forward
    <3>2. CASE s \notin Fetched(p)
      <4>1. head'[s] = Mark(p, s) /\ current'[s] = current[s]
        BY <2>2, <3>2 DEF Finish
      <4>2. QED
        BY <1>1, <4>1, MarkKeeps, KeptForward DEF ParkingInv
    <3>3. QED
      BY <3>1, <3>2
  <2>3. ASSUME NEW p \in Proc, Fail(p) PROVE Forward(s)
    <3>1. head'[s] = Mark(p, s) /\ current' = current
      BY <2>3 DEF Fail
    <3>2. QED
      BY <1>1, <3>1, MarkKeeps, KeptForward DEF ParkingInv
  <2>4. QED
    BY <1>1, <2>1, <2>2, <2>3
       DEF Next, Collect, Tick, Begin, Fetch, Store, Crash, dbVars, vars
<1>2. ParkingInv /\ [Next]_vars => [\A s \in Source : Forward(s)]_vars
  BY <1>1
<1>3. Spec => [][\A s \in Source : Forward(s)]_vars
  BY <1>2, ParkingInit, ParkingStep, PTL DEF Spec
<1>4. QED
  BY <1>3 DEF HeadForward, Forward

================================================================================
