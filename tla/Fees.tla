-------------------------------- MODULE Fees --------------------------------
(***************************************************************************)
(* The two fees with a memory.  TroveManager keeps the base rate of        *)
(* borrowing and redemption fees, which redemptions raise and time decays  *)
(* by whole minutes; a price curve keeps the last variable deposit fee of  *)
(* its collateral, below which the next one does not fall until it has     *)
(* decayed.  An action is the part of a handler of BorrowerOperations,     *)
(* TroveManagerRedemptions or Whitelist that computes a fee; the rest of   *)
(* those handlers is module TroveManager.  Time is counted in ticks of     *)
(* which Minute make a minute.                                             *)
(***************************************************************************)
EXTENDS PriceCurve

CONSTANTS
  Minute,              \* SECONDS_IN_ONE_MINUTE
  MaxMinutes,          \* the cap of the exponent of _decPow
  MinuteDecayFactor,   \* MINUTE_DECAY_FACTOR
  BETA,                \* BETA
  RedemptionFeeFloor,  \* REDEMPTION_FEE_FLOOR
  Tokens, Curves,      \* the collaterals, and the price curves that exist
  InitialCurve,        \* the curve addCollateral gave each collateral
  ParamSets, DecayTimes,  \* arguments of adjustParams and setDecayTime
  Deposits,            \* arguments of getFeeAndUpdate
  Redemptions,         \* pairs <<YUSD drawn, YUSD supply>>
  DeployTime, MaxTime  \* bounds of the clock

ASSUME FeesAssumption ==
  /\ Minute \in Nat \ {0} /\ MaxMinutes \in Nat \ {0} /\ BETA \in Nat \ {0}
  /\ MinuteDecayFactor \in 0..DP /\ RedemptionFeeFloor \in 1..(DP - 1)
  /\ InitialCurve \in [Tokens -> Curves] /\ DecayTimes \subseteq Nat
  /\ DeployTime \in Nat /\ MaxTime \in Nat

\* Arguments are uint256; nobody redeems more YUSD than there is.
ASSUME ArgumentsAssumption ==
  /\ Redemptions \subseteq Nat \X Nat /\ \A r \in Redemptions : r[1] \in 1..r[2]
  /\ ParamSets \subseteq [m1 : Nat, b1 : Nat, cutoff1 : Nat, m2 : Nat, cutoff2 : Nat,
                         m3 : Nat, dollarCap : Nat]
  /\ Deposits \subseteq [input : Nat, collateral : Nat, totalPre : Nat, totalPost : Nat]

VARIABLES
  now,                             \* block.timestamp
  baseRate, lastFeeOperationTime,  \* TroveManager
  curve,                           \* the storage of every price curve
  priceCurve,                      \* Whitelist: the curve of each collateral
  decayed,                         \* history: minutes the base rate has decayed
  remembered                       \* history: one fee paid earlier, by collateral

baseVars == <<baseRate, lastFeeOperationTime, decayed>>
curveVars == <<curve, priceCurve, remembered>>
vars == <<now, baseVars, curveVars>>

Nothing == [fee |-> 0, time |-> 0, decay |-> 0]

Init ==
  /\ now = DeployTime
  /\ baseRate = 0 /\ lastFeeOperationTime = 0 /\ decayed = 0
  /\ curve = [c \in Curves |-> NewCurve]
  /\ priceCurve = InitialCurve
  /\ remembered = [t \in Tokens |-> Nothing]

Tick == now < MaxTime /\ now' = now + 1 /\ UNCHANGED <<baseVars, curveVars>>

-----------------------------------------------------------------------------
(* The base rate.                                                          *)

DecMul(x, y) == (x * y + DP \div 2) \div DP

\* LiquityMath._decPow: exponentiation by squaring over the loop's variables
\* n, x and y, of which y gathers the odd factors.
PowStates == [n : 1..MaxMinutes, x : 0..DP, y : 0..DP]
PowNext(s) == [n |-> s.n \div 2, x |-> DecMul(s.x, s.x),
               y |-> IF s.n % 2 = 0 THEN s.y ELSE DecMul(s.x, s.y)]
DecPowLoop[s \in PowStates] ==
  IF s.n = 1 THEN DecMul(s.x, s.y) ELSE DecPowLoop[PowNext(s)]
DecPow(base, minutes) ==
  IF minutes = 0 THEN DP
  ELSE DecPowLoop[[n |-> Least(minutes, MaxMinutes), x |-> base, y |-> DP]]

MinutesPassed == (now - lastFeeOperationTime) \div Minute
DecayedBaseRate == (baseRate * DecPow(MinuteDecayFactor, MinutesPassed)) \div DP

\* Mutant: the clock is moved by every fee, also within a minute.
TouchLastFeeOpTime ==
  /\ lastFeeOperationTime' = now
  /\ decayed' = decayed + MinutesPassed

(* _updateLastFeeOpTime, with the minutes the caller has just used.  The    *)
(* clock jumps to the present, past what is left of an unfinished minute.   *)
UpdateLastFeeOpTime ==
  /\ lastFeeOperationTime' =
       IF now - lastFeeOperationTime >= Minute THEN now ELSE lastFeeOperationTime
  /\ decayed' = decayed + MinutesPassed

(* _triggerBorrowingFee: TroveManager.decayBaseRateFromBorrowing.           *)
Borrow ==
  /\ DecayedBaseRate <= DP
  /\ baseRate' = DecayedBaseRate
  /\ UpdateLastFeeOpTime
  /\ UNCHANGED <<now, curveVars>>

RedemptionRate(rate) == Least(RedemptionFeeFloor + rate, DP)
RedemptionFee(rate, drawn) == (RedemptionRate(rate) * drawn) \div DP

\* Mutant: a fee as high as the amount is accepted.
FeeAtMost(rate, drawn) == RedemptionFee(rate, drawn) <= drawn

\* _calcRedemptionFee reverts when the fee takes all that is redeemed.
FeePayable(rate, drawn) == RedemptionFee(rate, drawn) < drawn

(* _updateBaseRateFromRedemption: ten times the redeemed share of the       *)
(* supply (the factor is 10e18), over BETA, on top of the decayed rate.     *)
RaisedBaseRate(drawn, supply) ==
  Least(DecayedBaseRate + ((drawn * 10 * DP) \div supply) \div BETA, DP)

(* The fee of a redemption of drawn: the base rate is raised before the fee *)
(* is computed from it, and a fee that cannot be paid undoes both.          *)
Redeem(drawn, supply) ==
  LET newBaseRate == RaisedBaseRate(drawn, supply)
  IN  /\ newBaseRate # 0
      /\ FeePayable(newBaseRate, drawn)
      /\ baseRate' = newBaseRate
      /\ UpdateLastFeeOpTime
      /\ UNCHANGED <<now, curveVars>>

-----------------------------------------------------------------------------
(* The variable deposit fee.                                               *)

(* One turn of the loop of _getTotalVariableDepositFee: the whitelist asks  *)
(* the collateral's curve for the fee.  The fee may become the one that is  *)
(* remembered.                                                              *)
Deposit(t, d) ==
  LET p == priceCurve[t]
      c == curve[p]
  IN  /\ FeeDefined(c, d, now)
      /\ curve' = [curve EXCEPT ![p] = Charged(c, d, now)]
      /\ \/ remembered' = [remembered EXCEPT ![t] =
              [fee |-> Fee(c, d, now), time |-> now, decay |-> c.decayTime]]
         \/ UNCHANGED remembered
      /\ UNCHANGED <<now, baseVars, priceCurve>>

\* What is remembered, with the shortest decay time there was since.
Shortened(cs, pc) ==
  [t \in Tokens |-> [remembered[t] EXCEPT !.decay = Least(@, cs[pc[t]].decayTime)]]

(* ThreePieceWiseLinearPriceCurve.adjustParams and setDecayTime, called by  *)
(* the owner of the curve.                                                  *)
AdjustParams(c, p) ==
  /\ p.cutoff1 <= p.cutoff2
  /\ curve' = [curve EXCEPT ![c] = Adjusted(@, p)]
  /\ remembered' = Shortened(curve', priceCurve)
  /\ UNCHANGED <<now, baseVars, priceCurve>>
SetDecayTime(c, decayTime) ==
  /\ curve' = [curve EXCEPT ![c].decayTime = decayTime]
  /\ remembered' = Shortened(curve', priceCurve)
  /\ UNCHANGED <<now, baseVars, priceCurve>>

(* Whitelist.changePriceCurve.  The owner gives every collateral a curve of *)
(* its own, as the deployment does.                                         *)
ChangePriceCurve(t, c) ==
  /\ \A u \in Tokens \ {t} : priceCurve[u] # c
  /\ curve' = [curve EXCEPT ![c] = Taken(@, curve[priceCurve[t]])]
  /\ priceCurve' = [priceCurve EXCEPT ![t] = c]
  /\ remembered' = Shortened(curve', priceCurve')
  /\ UNCHANGED <<now, baseVars>>

Next ==
  \/ Tick
  \/ Borrow
  \/ \E r \in Redemptions : Redeem(r[1], r[2])
  \/ \E t \in Tokens, d \in Deposits : Deposit(t, d)
  \/ \E c \in Curves, p \in ParamSets : AdjustParams(c, p)
  \/ \E c \in Curves, n \in DecayTimes : SetDecayTime(c, n)
  \/ \E t \in Tokens, c \in Curves : ChangePriceCurve(t, c)

Spec == Init /\ [][Next]_vars
-----------------------------------------------------------------------------
(* Fees and rates are percentages, and no clock is ahead of the block.      *)
TypeOK ==
  /\ now \in Nat /\ decayed \in Nat
  /\ baseRate \in 0..DP /\ lastFeeOperationTime \in 0..now
  /\ priceCurve \in [Tokens -> Curves]
  /\ \A c \in Curves : curve[c].lastFeePercent \in 0..DP /\ curve[c].lastFeeTime \in 0..now

(* TroveManager._updateLastFeeOpTime (TroveManager.sol:789-796): whoever    *)
(* calls however often, the base rate decays by at least one minute for     *)
(* every two that pass, and by no more than one.                            *)
DecayKeepsPace ==
  /\ decayed * Minute <= lastFeeOperationTime
  /\ lastFeeOperationTime <= decayed * (2 * Minute - 1)

(* TroveManagerRedemptions._calcRedemptionFee (741-752): the base           *)
(* rate that redemptions leave behind never makes the fee of the next       *)
(* borrower or redeemer the whole amount.                                   *)
RedemptionsStayOpen == RedemptionFeeFloor + baseRate < DP

(* ThreePieceWiseLinearPriceCurve.getFeeAndUpdate (127-143): a fee once     *)
(* paid for a collateral is forgotten no faster than linearly over the      *)
(* decay time (the shortest in force since), whatever smaller deposits,     *)
(* changes of parameters and changes of the curve lie between.              *)
FeeMemoryLasts ==
  \A t \in Tokens :
    LET r == remembered[t]
    IN  now - r.time < r.decay =>
          r.fee - (r.fee * (now - r.time)) \div r.decay <= DecayedFee(curve[priceCurve[t]], now)
=============================================================================
