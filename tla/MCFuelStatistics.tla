-------------------------- MODULE MCFuelStatistics --------------------------
(* Instances of FuelStatistics for TLC.                                    *)
EXTENDS FuelStatistics, TLC

Sym == Permutations(Pub)

=============================================================================
