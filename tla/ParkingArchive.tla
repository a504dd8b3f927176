------------------------------ MODULE ParkingArchive ------------------------------
(***************************************************************************)
(* archive_parking_statistics: permanent ten-minute statistics of the      *)
(* parking observations.  A run works on complete buckets older than the   *)
(* raw retention, in one transaction under the collector's lock, and       *)
(* verifies every bucket of its window that already has a record.          *)
(* Observations can arrive late (imports) and for a bucket already         *)
(* recorded.  One airport with one lot; a record's events depend on the    *)
(* last observation before the bucket.                                     *)
(***************************************************************************)
EXTENDS Integers, FiniteSets, FiniteSetsExt

CONSTANTS
    BucketLength, \* BUCKET_INTERVAL
    Retention,    \* RAW_RETENTION
    WindowLength, \* one day: the longest window of a run
    MaxBuckets,   \* max_buckets of a run
    MaxRows,      \* bound: observations
    MaxTime       \* bound: the clock

VARIABLES
    now, rows, records,
    lock,      \* "nobody", "collector", "archive"
    inserting, \* uncommitted rows of the collector
    checked, next, upto, prev, added,
    result

runVars == <<checked, next, upto, prev, added>>
vars == <<now, rows, records, lock, inserting, runVars, result>>

Nobody == "nobody"
Row == [id: 1..MaxRows, at: 0..MaxTime, collected: 0..MaxTime, live: BOOLEAN]
BucketOf(t) == t \div BucketLength
Buckets == 0..BucketOf(MaxTime)

Init ==
    /\ now = 0 /\ rows = {} /\ records = {} /\ lock = Nobody /\ inserting = {}
    /\ checked = 0 /\ next = 0 /\ upto = 0 /\ prev = {} /\ added = {} /\ result = "none"

\* Types of observations, records and the running window.
TypeOK ==
    /\ now \in 0..MaxTime /\ rows \subseteq Row /\ inserting \subseteq Row
    /\ lock \in {Nobody, "collector", "archive"} /\ prev \subseteq Row
    /\ \A c \in records : c.bucket \in Buckets /\ c.rows \subseteq Row /\ c.prior \subseteq Row
    /\ result \in {"none", "busy", "no_new_rows", "batch_complete", "conflict"}

Tick == now < MaxTime /\ now' = now + 1 /\ result' = "none"
        /\ UNCHANGED <<rows, records, lock, inserting, runVars>>

--------------------------------------------------------------------------------
\* The collector inserts an observation, possibly an old one, and commits under its lock.
Insert ==
    /\ lock \in {Nobody, "collector"} /\ Cardinality(rows \union inserting) < MaxRows
    /\ \E t \in 0..now, live \in BOOLEAN :
           inserting' = inserting \union {[id |-> Cardinality(rows \union inserting) + 1, at |-> t,
                                           collected |-> now, live |-> live]}
    /\ lock' = "collector" /\ result' = "none"
    /\ UNCHANGED <<now, rows, records, runVars>>

Commit ==
    /\ lock = "collector"
    /\ rows' = rows \union inserting /\ inserting' = {} /\ lock' = Nobody /\ result' = "none"
    /\ UNCHANGED <<now, records, runVars>>

--------------------------------------------------------------------------------
RowsOf(b) == {r \in rows : BucketOf(r.at) = b}
RecordOf(b) == {c \in records \union added : c.bucket = b}

\* _snapshot_preference_key: of two rows of one time the live one, then the later collected, then id.
Preferred(r, q) ==
    IF r.live # q.live THEN r.live
    ELSE r.collected > q.collected \/ (r.collected = q.collected /\ r.id >= q.id)
\* The observation that counts last in a set: the newest time, then the preferred row.
Last(set) == {r \in set : \A q \in set : r.at > q.at \/ (r.at = q.at /\ Preferred(r, q))}
\* _previous_by_lot reads it with ORDER BY over all earlier rows.
PreviousAt(b) == Last({r \in rows : BucketOf(r.at) < b})

\* build_bucket: the statistics of the rows and of the crossing from the observation before them.
Built(b, before) == [bucket |-> b, rows |-> RowsOf(b), prior |-> before]

\* Mutant: a bucket with a record is taken as covered, late rows and all.
CoveredByBucket(r) == \E c \in records : c.bucket = BucketOf(r.at)
\* _next_unarchived_at_query: a record covers the rows up to its greatest id.
Covered(r) == \E c \in records : c.bucket = BucketOf(r.at) /\ Max({q.id : q \in c.rows}) >= r.id

Cutoff == checked - Retention
CompleteBefore == IF now - Retention < 0 THEN 0 ELSE BucketOf(now - Retention)

\* The run takes the lock or returns "busy"; it begins at the earliest bucket with an uncovered row.
Start ==
    LET open == {r \in rows : BucketOf(r.at) < CompleteBefore /\ ~ Covered(r)}
        first == Min({BucketOf(r.at) : r \in open})
    IN  /\ lock # "archive"
        /\ IF lock # Nobody THEN result' = "busy" /\ UNCHANGED <<lock, runVars>>
           ELSE IF open = {} THEN result' = "no_new_rows" /\ UNCHANGED <<lock, runVars>>
           ELSE /\ lock' = "archive" /\ checked' = now /\ next' = first
                /\ upto' = Min({first + WindowLength, CompleteBefore})
                /\ prev' = PreviousAt(first) /\ added' = {} /\ result' = "none"
        /\ UNCHANGED <<now, rows, records, inserting>>

\* Mutant: a bucket that is put off does not move the previous observation on.
AdvancedNot(b) == IF RecordOf(b) = {} /\ \E r \in RowsOf(b) : r.collected >= Cutoff THEN prev
                  ELSE IF RowsOf(b) = {} THEN prev ELSE Last(RowsOf(b))
\* build_bucket also moves the previous observation on.
Advanced(b) == IF RowsOf(b) = {} THEN prev ELSE Last(RowsOf(b))

\* A recorded bucket must be what its rows give now.
Verified(b) == \A c \in RecordOf(b) : c = Built(b, prev)
Deferred(b) == \E r \in RowsOf(b) : r.collected >= Cutoff

\* The next bucket is verified, put off because a row came in lately, or recorded.
Bucket ==
    /\ lock = "archive" /\ next < upto
    /\ RowsOf(next) # {} /\ RecordOf(next) = {} /\ ~ Deferred(next) => Cardinality(added) < MaxBuckets
    /\ Verified(next)
    /\ added' = IF RowsOf(next) # {} /\ RecordOf(next) = {} /\ ~ Deferred(next)
                THEN added \union {Built(next, prev)} ELSE added
    /\ prev' = Advanced(next)
    /\ next' = next + 1
    /\ UNCHANGED <<now, rows, records, lock, inserting, checked, upto, result>>

Reset == checked' = 0 /\ next' = 0 /\ upto' = 0 /\ prev' = {} /\ added' = {} /\ lock' = Nobody

\* A mismatch is an error: the transaction and all its records are rolled back.
Conflict ==
    /\ lock = "archive" /\ next < upto /\ ~ Verified(next)
    /\ result' = "conflict" /\ Reset
    /\ UNCHANGED <<now, rows, records, inserting>>

\* The window or the number of buckets is used up, and the caller commits.
Finish ==
    /\ lock = "archive"
    /\ \/ next = upto
       \/ /\ RowsOf(next) # {} /\ RecordOf(next) = {} /\ ~ Deferred(next)
          /\ Cardinality(added) >= MaxBuckets
    /\ records' = records \union added
    /\ result' = "batch_complete" /\ Reset
    /\ UNCHANGED <<now, rows, inserting>>

\* The process dies or the commit fails.
Abort ==
    /\ lock = "archive" /\ result' = "none" /\ Reset
    /\ UNCHANGED <<now, rows, records, inserting>>

Next == Tick \/ Insert \/ Commit \/ Start \/ Bucket \/ Conflict \/ Finish \/ Abort
Spec == Init /\ [][Next]_vars

--------------------------------------------------------------------------------
\* A record that is committed holds all rows of its bucket, and its events start from the very
\* observation that precedes the bucket in the whole table, over put-off and verified buckets too.
RecordsExact ==
    \A c \in records' \ records : c.rows = RowsOf(c.bucket) /\ c.prior = PreviousAt(c.bucket)

\* "No new rows" is said only when every row that is old enough is in the record of its bucket.
NoSilentGap ==
    result' = "no_new_rows" =>
           \A r \in rows : BucketOf(r.at) < CompleteBefore => \E c \in records : r \in c.rows

================================================================================
