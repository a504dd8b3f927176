------------------------------ MODULE BackupRestore ------------------------------
(***************************************************************************)
(* create_backup, save_uploaded_backup and restore_backup as the admin     *)
(* routes run them under operation_lock: a dump is staged, room is made by *)
(* deleting the oldest backups, the staged file is renamed, and backups    *)
(* beyond the retention are pruned.  A restore first backs the database    *)
(* up, stores the upload, and replaces the database in one transaction.    *)
(* The process may die between any two file operations.                    *)
(***************************************************************************)
EXTENDS Integers, FiniteSets, FiniteSetsExt

CONSTANTS
    Limit,     \* backup_storage_limit_bytes
    MaxSize,   \* MAX_BACKUP_BYTES
    Retention, \* backup_retention_count
    MaxFiles,  \* bound: files made
    MaxDb      \* bound: versions of the database

VARIABLES
    db,      \* version of the database
    files,   \* backups in the directory; a greater id is a later modification time
    made,    \* files made
    pc,
    flow,    \* "create" or "restore"
    staged,  \* the staging file
    pre,     \* the backup made before the upload
    uploaded

vars == <<db, files, made, pc, flow, staged, pre, uploaded>>

File == [id: 1..MaxFiles, size: 1..MaxSize, db: 0..MaxDb]
\* The bytes of a set of files: each byte of each file is counted.
Size(set) == Cardinality(UNION {{f} \X (1..f.size) : f \in set})

Init ==
    /\ db = 0 /\ files = {} /\ made = 0 /\ pc = "idle" /\ flow = "none"
    /\ staged = {} /\ pre = {} /\ uploaded = {}

\* Types of files and steps.
TypeOK ==
    /\ db \in 0..MaxDb /\ files \subseteq File /\ made \in 0..MaxFiles
    /\ pc \in {"idle", "dump", "room", "publish", "prune", "upload", "restore", "remove"}
    /\ staged \subseteq File /\ pre \subseteq 1..MaxFiles /\ uploaded \subseteq 1..MaxFiles

\* Other processes write to the database.
WriteDb == db < MaxDb /\ db' = db + 1 /\ UNCHANGED <<files, made, pc, flow, staged, pre, uploaded>>

--------------------------------------------------------------------------------
\* The oldest unprotected backups, as few as leave room; none of them is deleted if they do not.
Cuts(incoming, safe) ==
    {c \in 0..MaxFiles : Size({f \in files : f.id > c \/ f.id \in safe}) + incoming <= Limit}
Fits(incoming, safe) == Cuts(incoming, safe) # {}
Kept(incoming, safe) == {f \in files : f.id > Min(Cuts(incoming, safe)) \/ f.id \in safe}

\* Mutant: the upload may take the place of the backup made before it.
ProtectedNone == {}
\* protected_filenames of the upload: the backup of the state the restore is about to replace.
Protected == pre

\* The route takes operation_lock and starts the dump, over the limit only if the limit was lowered.
Begin ==
    /\ pc = "idle" /\ made < MaxFiles
    /\ \E f \in {"create", "restore"} : flow' = f
    /\ Fits(0, {}) /\ files' = Kept(0, {})
    /\ pc' = "dump"
    /\ UNCHANGED <<db, made, staged, pre, uploaded>>

\* pg_dump writes one consistent version into the staging file.
Dump ==
    /\ pc = "dump"
    /\ \E s \in 1..MaxSize : staged' = {[id |-> made + 1, size |-> s, db |-> db]}
    /\ made' = made + 1 /\ pc' = "room"
    /\ UNCHANGED <<db, files, flow, pre, uploaded>>

\* The upload is written to a staging file of its own: any dump the administrator has.
Upload ==
    /\ pc = "upload" /\ made < MaxFiles
    /\ \E s \in 1..MaxSize, v \in 0..MaxDb : staged' = {[id |-> made + 1, size |-> s, db |-> v]}
    /\ made' = made + 1 /\ pc' = "room"
    /\ UNCHANGED <<db, files, flow, pre, uploaded>>

\* _make_room_for_upload_sync
MakeRoom ==
    /\ pc = "room" /\ Fits(Size(staged), Protected)
    /\ files' = Kept(Size(staged), Protected)
    /\ pc' = "publish"
    /\ UNCHANGED <<db, made, flow, staged, pre, uploaded>>

\* The rename.
Publish ==
    /\ pc = "publish"
    /\ files' = files \union staged
    /\ pc' = "prune"
    /\ UNCHANGED <<db, made, flow, staged, pre, uploaded>>

\* Retention applies to created backups only; the limit is enforced again in both cases.
Retained == {f \in files : Cardinality({g \in files : g.id > f.id}) < Retention}
Prune ==
    /\ pc = "prune"
    /\ files' = IF pre = {} THEN Retained ELSE files
    /\ IF flow = "create" THEN pc' = "idle" /\ flow' = "none" /\ UNCHANGED <<pre, uploaded>>
       ELSE IF pre = {} THEN pc' = "upload" /\ pre' = {f.id : f \in staged} /\ UNCHANGED <<flow, uploaded>>
       ELSE pc' = "restore" /\ uploaded' = {f.id : f \in staged} /\ UNCHANGED <<flow, pre>>
    /\ staged' = {}
    /\ UNCHANGED <<db, made>>

Done == pc' = "idle" /\ flow' = "none" /\ staged' = {} /\ pre' = {} /\ uploaded' = {}

\* pg_restore commits in one transaction.
Restore ==
    /\ pc = "restore"
    /\ db' \in {f.db : f \in {g \in files : g.id \in uploaded}}
    /\ pc' = "remove"
    /\ UNCHANGED <<files, made, flow, staged, pre, uploaded>>

\* remove_backup: the upload goes, after a restore and after one that failed.
Remove ==
    /\ pc \in {"restore", "remove"}
    /\ files' = {f \in files : f.id \notin uploaded}
    /\ Done
    /\ UNCHANGED <<db, made>>

\* A step fails: the new file is removed, staged or renamed.
Fail ==
    /\ pc \notin {"idle", "restore", "remove"}
    /\ files' = files \ staged
    /\ Done
    /\ UNCHANGED <<db, made>>

\* The process dies: what was renamed stays, an upload under its backup name included, whether the
\* database is replaced already or not.
Crash == pc # "idle" /\ Done /\ UNCHANGED <<db, files, made>>

Next ==
    \/ WriteDb \/ Begin \/ Dump \/ Upload \/ MakeRoom \/ Publish \/ Prune \/ Restore \/ Remove
    \/ Fail \/ Crash

Spec == Init /\ [][Next]_vars

--------------------------------------------------------------------------------
\* The database is replaced only while the backup of its state before the upload is still there,
\* although making room for the upload deletes old backups; it is there until the restore ends.
PreRestoreKept == pc' = "remove" => pre # {} /\ \E f \in files' : f.id \in pre

\* The backups never exceed the limit, at no step and after no crash.
LimitKept == Size(files) <= Limit

================================================================================
