------------------------------ MODULE VadaHub ------------------------------
(***************************************************************************)
(* VadaHubCollectionService: ferry reference files.  A run holds a file    *)
(* lock, visits each dataset, downloads it into an archive that outlives   *)
(* the run, validates it and commits it.  A verified archive is used again *)
(* only to repeat a failed publication, never for the weekly refresh.      *)
(***************************************************************************)
EXTENDS Integers, FiniteSets, FiniteSetsExt

CONSTANTS
    Proc,    \* collector processes
    Dataset, \* SOURCES
    Archived, \* the datasets read through VadaHubFileClient, which knows the archived versions
    Week,    \* REFRESH_INTERVAL
    MaxTime  \* bound: the clock

VARIABLES
    now,
    row,     \* FerryReferenceSnapshot: collected_at of the content, last_attempt_at, last_error
    archive, \* collected_at of the archived files of a dataset
    holder,  \* owner of the file lock
    pc, left, began,
    file     \* where a run takes the file from: "archive", "source", or the "download" it made

procVars == <<pc, left, began, file>>
vars == <<now, row, archive, holder, procVars>>

None == -9
Nobody == "nobody"
NoRow == [content |-> None, attempt |-> None, err |-> FALSE]

Init ==
    /\ now = 0 /\ holder = Nobody
    /\ row = [d \in Dataset |-> NoRow]
    /\ archive = [d \in Dataset |-> {}]
    /\ pc = [p \in Proc |-> "idle"]
    /\ left = [p \in Proc |-> {}]
    /\ began = [p \in Proc |-> 0]
    /\ file = [p \in Proc |-> "source"]

\* Types of rows, archives and runs.
TypeOK ==
    /\ now \in 0..MaxTime /\ holder \in Proc \union {Nobody}
    /\ \A d \in Dataset : row[d].content \in {None} \union 0..MaxTime /\ archive[d] \subseteq 0..MaxTime
    /\ pc \in [Proc -> {"idle", "loop"} \union Dataset]

Tick == now < MaxTime /\ now' = now + 1 /\ UNCHANGED <<row, archive, holder, procVars>>

--------------------------------------------------------------------------------
Begin(p) ==
    /\ pc[p] = "idle" /\ holder = Nobody
    /\ holder' = p
    /\ left' = [left EXCEPT ![p] = Dataset]
    /\ pc' = [pc EXCEPT ![p] = "loop"]
    /\ UNCHANGED <<now, row, archive, began, file>>

Published(d) == row[d].content # None /\ ~ row[d].err

\* A dataset published without error in the last week is passed over.
Skip(p, d) ==
    /\ pc[p] = "loop" /\ d \in left[p] /\ Published(d) /\ now - row[d].attempt < Week
    /\ left' = [left EXCEPT ![p] = @ \ {d}]
    /\ UNCHANGED <<now, row, archive, holder, pc, began, file>>

Recent(d) == {t \in archive[d] : now - t < Week}

\* Mutant: the weekly refresh reads a recent archive as well.
ReusesAlways(d) == TRUE
\* reuse_recent_archive: no refresh of a good publication; official terminals are downloaded each time.
Reuses(d) == d \in Archived /\ ~ Published(d)

Attempt(p, d) ==
    /\ pc[p] = "loop" /\ d \in left[p] /\ ~ (Published(d) /\ now - row[d].attempt < Week)
    /\ left' = [left EXCEPT ![p] = @ \ {d}]
    /\ began' = [began EXCEPT ![p] = now]
    /\ file' = [file EXCEPT ![p] = IF Reuses(d) /\ Recent(d) # {} THEN "archive" ELSE "source"]
    /\ pc' = [pc EXCEPT ![p] = d]
    /\ UNCHANGED <<now, row, archive, holder>>

Candidate(p, d) ==
    CASE file[p] = "archive" -> {Max({t \in archive[d] : began[p] - t < Week})}
      [] file[p] = "download" -> {Max(archive[d])}
      [] OTHER -> {}

\* A file is downloaded and archived; without a usable archive, or because the archived file did not
\* validate and the dataset already had an error.
Download(p, d) ==
    /\ pc[p] = d /\ now \notin archive[d]
    /\ file[p] = "source" \/ (file[p] = "archive" /\ row[d].err)
    /\ archive' = [archive EXCEPT ![d] = @ \union {now}]
    /\ file' = [file EXCEPT ![p] = "download"]
    /\ UNCHANGED <<now, row, holder, pc, left, began>>

\* The file validates and is committed with the time of the attempt.
Publish(p, d) ==
    /\ pc[p] = d
    /\ \E t \in Candidate(p, d) : row' = [row EXCEPT ![d] = [content |-> t, attempt |-> began[p], err |-> FALSE]]
    /\ file' = [file EXCEPT ![p] = "source"]
    /\ pc' = [pc EXCEPT ![p] = "loop"]
    /\ UNCHANGED <<now, archive, holder, left, began>>

\* An error is recorded and the last good content stays.
Fails(p, d) ==
    /\ pc[p] = d
    /\ row' = [row EXCEPT ![d].attempt = began[p], ![d].err = TRUE]
    /\ file' = [file EXCEPT ![p] = "source"]
    /\ pc' = [pc EXCEPT ![p] = "loop"]
    /\ UNCHANGED <<now, archive, holder, left, began>>

\* The run ends, or its process dies: committed datasets and archived files remain.
End(p) ==
    /\ pc[p] # "idle"
    /\ pc' = [pc EXCEPT ![p] = "idle"]
    /\ left' = [left EXCEPT ![p] = {}]
    /\ began' = [began EXCEPT ![p] = 0]
    /\ file' = [file EXCEPT ![p] = "source"]
    /\ holder' = Nobody
    /\ UNCHANGED <<now, row, archive>>

Next ==
    \/ Tick
    \/ \E p \in Proc :
           \/ Begin(p) \/ End(p)
           \/ \E d \in Dataset :
                  Skip(p, d) \/ Attempt(p, d) \/ Download(p, d) \/ Publish(p, d) \/ Fails(p, d)

Spec == Init /\ [][Next]_vars

--------------------------------------------------------------------------------
\* The weekly refresh of a good publication brings a file downloaded in that very run.
RefreshIsNew ==
    \A d \in Dataset : row'[d] # row[d] /\ ~ row'[d].err /\ Published(d) =>
           row'[d].content >= row'[d].attempt

================================================================================
