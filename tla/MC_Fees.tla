------------------------------ MODULE MC_Fees ------------------------------
(***************************************************************************)
(* Instances of Fees for TLC.  Percentages are in hundredths, a minute is  *)
(* two ticks and five days are three; the curve MC_Steep rises faster      *)
(* after each cutoff and passes 100% in its third piece.                   *)
(***************************************************************************)
EXTENDS Fees

CONSTANTS c1, c2, t1

MC_InitialCurve == [t \in {t1} |-> c1]
MC_Steep == [m1 |-> 0, b1 |-> 4, cutoff1 |-> 40, m2 |-> 20, cutoff2 |-> 80, m3 |-> 5000, dollarCap |-> 0]
MC_ParamSets == {MC_Steep}
\* The first deposit into the system, and one into a share past both cutoffs.
MC_Deposits ==
  {[input |-> 2, collateral |-> 0, totalPre |-> 0, totalPost |-> 5],
   [input |-> 2, collateral |-> 9, totalPre |-> 11, totalPost |-> 13]}
MC_Redemptions == {<<1, 11>>}
=============================================================================
