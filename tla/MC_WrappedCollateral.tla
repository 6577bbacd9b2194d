----------------------- MODULE MC_WrappedCollateral ------------------------
(* Instances of WrappedCollateral for TLC: users are interchangeable.      *)
EXTENDS WrappedCollateral, TLC

MC_Destinations == Users \cup {"activePool", "stabilityPool", "collSurplusPool"}
MC_Recipients == Users \cup {"defaultPool", "TML", "treasury"}
MC_Symmetry == Permutations(Users)
=============================================================================
