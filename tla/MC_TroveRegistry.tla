-------------------------- MODULE MC_TroveRegistry --------------------------
(* Instances of TroveRegistry for TLC.                                     *)
EXTENDS TroveRegistry, TLC

MC_Symmetry == Permutations(Ids)
=============================================================================
