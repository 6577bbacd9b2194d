---------------------------- MODULE LiquityBase ----------------------------
(***************************************************************************)
(* The constants and the pure arithmetic that BorrowerOperations,          *)
(* TroveManager, TroveManagerLiquidations and TroveManagerRedemptions      *)
(* inherit from LiquityBase, LiquityMath and YetiCustomBase.  A newColls   *)
(* struct (parallel arrays of tokens and amounts, zero amounts dropped) is *)
(* a function from Tokens to amounts; its tokens array is its Support.     *)
(* Percentages and per-unit-staked sums are fixed point with precision DP. *)
(***************************************************************************)
EXTENDS Integers, FiniteSets, Functions

CONSTANTS
  Tokens,           \* the whitelist's validCollateral
  Ratio,            \* whitelist ratio of a token: VC per 100 USD
  Wrapped,          \* the tokens with whitelist.isWrapped
  DP,               \* DECIMAL_PRECISION, also 10**decimals of every token
  MCR, CCR,         \* minimum and critical collateral ratio, scaled by DP
  MaxCR,            \* 2**256 - 1, the collateral ratio of an empty debt
  GasCompensation,  \* YUSD_GAS_COMPENSATION
  MinNetDebt,       \* MIN_NET_DEBT
  PercentDivisor    \* PERCENT_DIVISOR

ASSUME ScaleAssumption ==
  /\ DP \in Nat \ {0} /\ PercentDivisor \in Nat \ {0}
  /\ GasCompensation \in Nat \ {0} /\ MinNetDebt \in Nat \ {0}
  /\ MCR \in Nat /\ CCR \in Nat /\ DP < MCR /\ MCR < CCR
  /\ MaxCR \in Nat
  /\ Ratio \in [Tokens -> Nat]
  /\ Wrapped \subseteq Tokens

ASSUME TokensAssumption == IsFiniteSet(Tokens)

Colls == [Tokens -> Nat]
NoColls == [t \in Tokens |-> 0]
Support(c) == {t \in Tokens : c[t] # 0}

SumColls(c, d) == [t \in Tokens |-> c[t] + d[t]]
SubColls(c, d) == [t \in Tokens |-> c[t] - d[t]]

\* SafeMath.sub on every token: the transaction reverts unless d fits in c.
Covers(c, d) == \A t \in Tokens : d[t] \in 0..c[t]

\* Mutant: the comparison the wrong way round.
Greater(x, y) == IF x < y THEN y ELSE x

Smaller(x, y) == IF x < y THEN x ELSE y

\* Whitelist.getValueUSD / getValueVC at the price p, each rounded down, and
\* summed over a newColls.
ValueUSD(p, t, x) == (p[t] * x) \div DP
USD(p, c) == SumFunction([t \in Tokens |-> ValueUSD(p, t, c[t])])
ValueVC(p, t, x) == (p[t] * x * Ratio[t]) \div (100 * DP)
VC(p, c) == SumFunction([t \in Tokens |-> ValueVC(p, t, c[t])])

ComputeCR(vc, d) == IF d = 0 THEN MaxCR ELSE (vc * DP) \div d
============================================================================
