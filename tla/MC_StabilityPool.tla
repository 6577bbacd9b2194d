-------------------------- MODULE MC_StabilityPool --------------------------
(* Instances of StabilityPool for TLC.                                     *)
EXTENDS StabilityPool, TLC

MC_Symmetry == Permutations(Users)
=============================================================================
