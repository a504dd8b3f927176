------------------------- MODULE MCReferenceCollection -------------------------
(***************************************************************************)
(* The railway job alone, with two workers of which one outlives its run.  *)
(***************************************************************************)
EXTENDS ReferenceCollection, TLC

DueAfterSuccess == [j \in Job |-> 1]
Symmetry == Permutations(Proc) \union Permutations(Id)

================================================================================
