-------------------------- MODULE MCFuelCollection --------------------------
(* Instances of FuelCollection for TLC.                                    *)
EXTENDS FuelCollection, TLC

Sym == Permutations(Proc)

=============================================================================
