--------------------------- MODULE MCCollectionLease ---------------------------
(***************************************************************************)
(* Small instances of CollectionLease: hours of one unit with Runtime <    *)
(* Grace as in the code (4 h < 5 h).                                       *)
(***************************************************************************)
EXTENDS CollectionLease

FirstWorker == CHOOSE w \in Worker : TRUE
SecondWorker == CHOOSE w \in Worker : w # FirstWorker

\* The recovery run starts in a later reachable state, to keep the state graph small enough
\* for liveness: every id has been committed as running, and one of the two workers is still
\* in the session of its row while the process of the other is gone.
RecoveryInit ==
    /\ now = 0
    /\ dagster = [w \in Worker |-> "running"]
    /\ status = [r \in Row |-> "running"]
    /\ owner = [r \in Row |-> IF r = 1 THEN FirstWorker ELSE SecondWorker]
    /\ heartbeat = [r \in Row |-> 0]
    /\ nextId = MaxRows + 1
    /\ \E r \in Row :
          /\ pc = [w \in Worker |-> IF w = owner[r] THEN "open" ELSE "gone"]
          /\ run = [w \in Worker |-> IF w = owner[r] THEN r ELSE 0]
          /\ tracked = {owner[r]}
          /\ mem = [w \in Worker |-> IF w = owner[r] THEN "running" ELSE "unknown"]
    /\ started = [w \in Worker |-> 0]
    /\ revoked = {}
    /\ fenced = {}
    /\ isNew = {}
    /\ lock = [w \in Worker |-> "none"]
    /\ savepoint = {}
    /\ beat = [w \in Worker |-> 0]
    /\ dirty = [w \in Worker |-> "none"]
    /\ position = 0
    /\ spc = [s \in Scanner |-> "idle"]
    /\ cursor = [s \in Scanner |-> 0]
    /\ page = [s \in Scanner |-> {}]
    /\ seen = [s \in Scanner |-> [r \in Row |-> 0]]
    /\ verdict = [s \in Scanner |-> "none"]
    /\ faults = 0
    /\ published = [r \in Row |-> 0]
    /\ reclaimed = {}

RecoverySpec == RecoveryInit /\ [][Next]_vars /\ Fairness
================================================================================
