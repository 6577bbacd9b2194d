-------------------------- MODULE MC_TroveManager --------------------------
(***************************************************************************)
(* Instances of TroveManager for TLC.  Amounts are scaled down so that one *)
(* unit of collateral at price DP is worth one unit of debt; percentages   *)
(* are in hundredths.  OpenAmounts and AdjustAmounts are amounts of any    *)
(* one token, Supply is how much of each token exists.                     *)
(***************************************************************************)
EXTENDS TroveManagerClaims, TLC

CONSTANTS OpenAmounts, AdjustAmounts, Supply, HalfTokens

MC_Ratio == [t \in Tokens |-> IF t \in HalfTokens THEN 50 ELSE 100]
Single(amounts) == {[NoColls EXCEPT ![t] = n] : t \in Tokens, n \in amounts}
MC_OpenColls == Single(OpenAmounts)
MC_AdjustColls == Single(AdjustAmounts)
MC_InitialOutside == [t \in Tokens |-> Supply]
MC_Symmetry == Permutations(Borrowers)
=============================================================================
