--------------------------- MODULE CollectionLedger ---------------------------
(***************************************************************************)
(* What the collection-run ledger (table collection_runs) promises to the  *)
(* readers of the published tables, whatever workers, crashes and recovery *)
(* sensors do underneath:                                                  *)
(*   - a run is created once and finished once;                            *)
(*   - a run that recovery took back is closed: neither its row nor the    *)
(*     data published under it changes any more.                           *)
(* CollectionLease.tla is shown to implement this specification.           *)
(***************************************************************************)
EXTENDS Naturals

CONSTANT Row

VARIABLES state,      \* state[r]: the life cycle of run r
          published   \* published[r]: number of commits of data made under run r

ledgerVars == <<state, published>>

Finished == {"success", "failed"}

LedgerInit ==
    /\ state = [r \in Row |-> "absent"]
    /\ published = [r \in Row |-> 0]

\* One committed transaction of the run's own worker.
Work(r) ==
    /\ state[r] # "reclaimed"
    /\ \E s \in {"running"} \cup Finished :
          /\ state[r] \in Finished => s = state[r]
          /\ state' = [state EXCEPT ![r] = s]
    /\ \E n \in {0, 1} : published' = [published EXCEPT ![r] = @ + n]

\* Recovery takes the run back.
Reclaim(r) ==
    /\ state[r] = "running"
    /\ state' = [state EXCEPT ![r] = "reclaimed"]
    /\ UNCHANGED published

LedgerNext == \E r \in Row : Work(r) \/ Reclaim(r)

LedgerSpec == LedgerInit /\ [][LedgerNext]_ledgerVars
===============================================================================
