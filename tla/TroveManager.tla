---------------------------- MODULE TroveManager ----------------------------
(***************************************************************************)
(* The trove ledger: the state of TroveManager, ActivePool, DefaultPool,   *)
(* CollSurplusPool and GasPool, the totals of StabilityPool and YUSDToken, *)
(* and every handler of BorrowerOperations, TroveManagerLiquidations and   *)
(* TroveManagerRedemptions that changes them.                              *)
(*                                                                         *)
(* A batch liquidation and a redemption are loops whose steps write        *)
(* storage, so each is a transaction of several steps: tx holds its local  *)
(* variables and every other action waits until tx is NoTx.  The caller's  *)
(* arrays, hints and iteration limits appear as the choice of the next     *)
(* trove and of the moment the loop ends.  A guard that no step passes is  *)
(* a reverted transaction.                                                 *)
(*                                                                         *)
(* circulating is all the YUSD outside GasPool and StabilityPool (the      *)
(* users' and sYETI's), outside[t] all the collateral that is in none of   *)
(* the three pools (the users' and, after an offset, StabilityPool's).     *)
(***************************************************************************)
EXTENDS LiquityBase, Sequences, SequencesExt

CONSTANTS
  Borrowers,
  NoTrove,          \* address(0)
  \* the arguments the callers choose, sets of Colls or of YUSD amounts
  OpenColls, OpenDebts, AdjustColls, AdjustDebts, Deposits, Redemptions,
  BorrowingFees,    \* what getBorrowingFee may return
  DepositFees,      \* what the whitelist's variable fee may amount to
  Prices,           \* the oracle prices of a token
  InitialOutside,   \* the collateral that exists (Colls)
  MaxLiquidations   \* bound: batches of liquidations in one behaviour

ASSUME InputAssumption ==
  /\ OpenColls \subseteq Colls /\ AdjustColls \subseteq Colls /\ InitialOutside \in Colls
  /\ OpenDebts \subseteq Nat /\ AdjustDebts \subseteq Nat
  /\ Deposits \subseteq Nat /\ Redemptions \subseteq Nat
  /\ BorrowingFees \subseteq Nat /\ DepositFees \subseteq Nat
  /\ Prices \subseteq Nat \ {0}
  /\ NoTrove \notin Borrowers

ASSUME BorrowersAssumption == IsFiniteSet(Borrowers)

VARIABLES
  status, debt, colls, stakes,          \* TroveManager.Troves
  collTokens,                           \* the tokens array of Troves[b].colls
  collSnapshots, debtSnapshots,         \* TroveManager.rewardSnapshots
  sortedTroves, oldICR,                 \* SortedTroves, head first
  totalStakes, totalStakesSnapshot, totalCollateralSnapshot,
  L_Coll, L_YUSDDebt, lastCollError, lastYUSDDebtError,
  activeColl, activeDebt,               \* ActivePool
  defaultColl, defaultDebt,             \* DefaultPool
  surplus, surplusColl,                 \* CollSurplusPool
  spYUSD,                               \* StabilityPool.totalYUSDDeposits
  circulating, gasPool,                 \* YUSD balances
  outside, price,
  liquidations,                         \* counts toward MaxLiquidations
  tx

troveVars == <<status, debt, colls, collTokens>>
stakeVars == <<stakes, totalStakes>>
snapshotVars == <<collSnapshots, debtSnapshots>>
listVars == <<sortedTroves, oldICR>>
systemSnapshotVars == <<totalStakesSnapshot, totalCollateralSnapshot>>
rewardVars == <<L_Coll, L_YUSDDebt, lastCollError, lastYUSDDebtError>>
activeVars == <<activeColl, activeDebt>>
defaultVars == <<defaultColl, defaultDebt>>
surplusVars == <<surplus, surplusColl>>
yusdVars == <<circulating, gasPool>>
vars == <<troveVars, stakeVars, snapshotVars, listVars, systemSnapshotVars,
          rewardVars, activeVars, defaultVars, surplusVars, spYUSD, yusdVars,
          outside, price, liquidations, tx>>

NoTx == [kind |-> "none"]
Idle == tx = NoTx

Statuses == {"nonExistent", "active", "closedByOwner", "closedByLiquidation",
             "closedByRedemption"}
Active == {b \in Borrowers : status[b] = "active"}

PerBorrower(x) == [b \in Borrowers |-> x]

Init ==
  /\ status = PerBorrower("nonExistent")
  /\ debt = PerBorrower(0)
  /\ colls = PerBorrower(NoColls) /\ stakes = PerBorrower(NoColls)
  /\ collTokens = PerBorrower({})
  /\ collSnapshots = PerBorrower(NoColls) /\ debtSnapshots = PerBorrower(NoColls)
  /\ sortedTroves = <<>> /\ oldICR = PerBorrower(0)
  /\ totalStakes = NoColls
  /\ totalStakesSnapshot = NoColls /\ totalCollateralSnapshot = NoColls
  /\ L_Coll = NoColls /\ L_YUSDDebt = NoColls
  /\ lastCollError = NoColls /\ lastYUSDDebtError = NoColls
  /\ activeColl = NoColls /\ activeDebt = 0
  /\ defaultColl = NoColls /\ defaultDebt = 0
  /\ surplus = PerBorrower(NoColls) /\ surplusColl = NoColls
  /\ spYUSD = 0
  /\ circulating = 0 /\ gasPool = 0
  /\ outside = InitialOutside
  /\ price \in [Tokens -> Prices]
  /\ liquidations = 0
  /\ tx = NoTx
-----------------------------------------------------------------------------
(* Collateral ratios.                                                      *)

SystemVC == VC(price, activeColl) + VC(price, defaultColl)
SystemDebt == activeDebt + defaultDebt
TCR == ComputeCR(SystemVC, SystemDebt)
RecoveryMode == TCR < CCR

(* Pending redistribution rewards of a trove. *)

PendingColl(b) ==
  [t \in Tokens |-> IF status[b] = "active"
                    THEN (stakes[b][t] * (L_Coll[t] - collSnapshots[b][t])) \div DP
                    ELSE 0]

PendingDebt(b) ==
  IF status[b] = "active"
  THEN SumFunction([t \in Tokens |->
         (stakes[b][t] * (L_YUSDDebt[t] - debtSnapshots[b][t])) \div DP])
  ELSE 0

HasPendingRewards(b) ==
  /\ status[b] = "active"
  /\ \E t \in collTokens[b] : collSnapshots[b][t] < L_Coll[t]

EntireColl(b) == SumColls(colls[b], PendingColl(b))
EntireDebt(b) == debt[b] + PendingDebt(b)
ICR(b) == ComputeCR(VC(price, EntireColl(b)), EntireDebt(b))

\* What applyPendingRewards(b) adds to the trove, if anything.
AppliedColl(b) == IF HasPendingRewards(b) THEN PendingColl(b) ELSE NoColls
AppliedDebt(b) == IF HasPendingRewards(b) THEN PendingDebt(b) ELSE 0
AppliedTokens(b) ==
  IF HasPendingRewards(b) THEN Support(SumColls(colls[b], PendingColl(b)))
  ELSE collTokens[b]

\* SafeMath in DefaultPool.sendCollsToActivePool and decreaseYUSDDebt.
CanMovePending(d, c) == d \in 0..defaultDebt /\ Covers(defaultColl, c)

\* The total VC the pools show once b's rewards are applied.
AppliedVC(b) == VC(price, SumColls(activeColl, AppliedColl(b)))
                + VC(price, SubColls(defaultColl, AppliedColl(b)))

\* Mutant: every token sent without counting it, as the wrapped ones are.
UncountedSend(coll, c, sold) == coll

\* ActivePool's counter coll after c was sent to a user: sendCollateralsUnwrap
\* unwraps a wrapped token without counting it, unless it is sold by unlevering.
Unwrapped(coll, c, sold) ==
  [t \in Tokens |-> IF t \in Wrapped \ sold THEN coll[t] ELSE coll[t] - c[t]]

AppliedSnapshots(b) ==
  IF HasPendingRewards(b)
  THEN /\ collSnapshots' = [collSnapshots EXCEPT ![b] = L_Coll]
       /\ debtSnapshots' = [debtSnapshots EXCEPT ![b] = L_YUSDDebt]
  ELSE UNCHANGED snapshotVars
-----------------------------------------------------------------------------
(* Stakes.                                                                 *)

NewStake(t, x) ==
  IF totalCollateralSnapshot[t] = 0 THEN x
  ELSE (x * totalStakesSnapshot[t]) \div totalCollateralSnapshot[t]

\* updateStakeAndTotalStakes for a trove that holds the tokens ts:
\* the require on the snapshot and SafeMath on totalStakes, then the update.
\* A token that is not in ts keeps the stake it had.
CanStake(b, ts) ==
  \A t \in ts : /\ totalCollateralSnapshot[t] # 0 => totalStakesSnapshot[t] # 0
                /\ stakes[b][t] <= totalStakes[t]

\* Mutant: the trove's old stake stays in the total.
OldStakeKept(b, ts, new) ==
  /\ stakes' = [stakes EXCEPT ![b] = [t \in Tokens |-> IF t \in ts THEN new[t] ELSE @[t]]]
  /\ totalStakes' = [t \in Tokens |-> IF t \in ts THEN totalStakes[t] + new[t] ELSE totalStakes[t]]

SetStakes(b, ts, new) ==
  /\ stakes' = [stakes EXCEPT ![b] = [t \in Tokens |-> IF t \in ts THEN new[t] ELSE @[t]]]
  /\ totalStakes' = [t \in Tokens |-> IF t \in ts THEN totalStakes[t] - stakes[b][t] + new[t]
                                      ELSE totalStakes[t]]

UpdateStake(b, ts, c) == SetStakes(b, ts, [t \in Tokens |-> NewStake(t, c[t])])

\* removeStake of a trove that holds the tokens ts.
RemoveStake(b, ts) ==
  /\ \A t \in ts : stakes[b][t] <= totalStakes[t]
  /\ SetStakes(b, ts, NoColls)
-----------------------------------------------------------------------------
(* SortedTroves, seen from its clients: an order by oldICR, ties in any    *)
(* order.  Module SortedTroves has the linked list behind it.              *)

Place(s, b) == CHOOSE i \in 1..Len(s) : s[i] = b
Without(s, b) == IF \E i \in 1..Len(s) : s[i] = b THEN RemoveAt(s, Place(s, b)) ELSE s

InsertPositions(s, icr) ==
  {i \in 1..(Len(s) + 1) : /\ i > 1 => oldICR[s[i - 1]] >= icr
                           /\ i <= Len(s) => icr >= oldICR[s[i]]}

PlaceTrove(b, icr) ==
  LET s == Without(sortedTroves, b)
  IN  /\ icr # 0
      /\ \E i \in InsertPositions(s, icr) : sortedTroves' = InsertAt(s, i, b)
      /\ oldICR' = [oldICR EXCEPT ![b] = icr]

RemoveTrove(b) ==
  /\ sortedTroves' = Without(sortedTroves, b)
  /\ oldICR' = [oldICR EXCEPT ![b] = 0]

PositionOf(b) == Place(sortedTroves, b)
\* Mutant: off by one, the trove itself.
PrevOffByOne(b) == IF PositionOf(b) = 1 THEN NoTrove ELSE sortedTroves[PositionOf(b)]

Prev(b) == IF PositionOf(b) = 1 THEN NoTrove ELSE sortedTroves[PositionOf(b) - 1]

\* Mutant: the reserve is not burned.
KeepGasReserve == UNCHANGED gasPool

\* The gas reserve of a closed trove is burned from GasPool.
BurnGasReserve ==
  /\ GasCompensation <= gasPool
  /\ gasPool' = gasPool - GasCompensation

(* TroveManager._closeTrove, common to the three ways a trove ends.        *)
CloseAs(b, how) ==
  /\ Cardinality(Active) > 1
  /\ status' = [status EXCEPT ![b] = how]
  /\ colls' = [colls EXCEPT ![b] = NoColls]
  /\ collTokens' = [collTokens EXCEPT ![b] = {}]
  /\ debt' = [debt EXCEPT ![b] = 0]
  /\ collSnapshots' = [collSnapshots EXCEPT ![b] = NoColls]
  /\ debtSnapshots' = [debtSnapshots EXCEPT ![b] = NoColls]
  /\ RemoveTrove(b)
-----------------------------------------------------------------------------
(* BorrowerOperations.                                                     *)

OpenTrove(b, c, y, bfee, vfee) ==
  LET recovery == RecoveryMode
      net == y + (IF recovery THEN 0 ELSE bfee) + vfee
      d == net + GasCompensation
      icr == ComputeCR(VC(price, c), d)
  IN  /\ Idle
      /\ status[b] # "active"
      /\ c # NoColls /\ Covers(outside, c)
      /\ net >= MinNetDebt
      /\ IF recovery THEN icr >= CCR
         ELSE /\ icr >= MCR
              /\ ComputeCR(SystemVC + VC(price, c), SystemDebt + d) >= CCR
      /\ CanStake(b, Support(c))
      /\ status' = [status EXCEPT ![b] = "active"]
      /\ colls' = [colls EXCEPT ![b] = c]
      /\ collTokens' = [collTokens EXCEPT ![b] = Support(c)]
      /\ debt' = [debt EXCEPT ![b] = @ + d]
      /\ collSnapshots' = [collSnapshots EXCEPT ![b] = L_Coll]
      /\ debtSnapshots' = [debtSnapshots EXCEPT ![b] = L_YUSDDebt]
      /\ UpdateStake(b, Support(c), c)
      /\ PlaceTrove(b, icr)
      /\ activeColl' = SumColls(activeColl, c)
      /\ outside' = SubColls(outside, c)
      /\ activeDebt' = activeDebt + d
      /\ circulating' = circulating + net
      /\ gasPool' = gasPool + GasCompensation
      /\ UNCHANGED <<systemSnapshotVars, rewardVars, defaultVars, surplusVars,
                     spYUSD, price, tx, liquidations>>

\* No borrowing fee in Recovery Mode, no variable fee without a deposit.
DebtChange(y, up, bfee) == y + (IF up /\ ~RecoveryMode THEN bfee ELSE 0)
VariableFee(cIn, vfee) == IF VC(price, cIn) = 0 THEN 0 ELSE vfee

\* The new debt: pending rewards, the deposit's fee and the change.
AdjustedDebt(b, cIn, y, up, bfee, vfee) ==
  LET d == debt[b] + AppliedDebt(b) + VariableFee(cIn, vfee)
  IN  IF up THEN d + DebtChange(y, up, bfee) ELSE d - DebtChange(y, up, bfee)

\* _requireValidAdjustmentInCurrentMode.
ValidAdjustment(recovery, cOut, up, newICR, currentICR, newTCR) ==
  IF recovery THEN cOut = NoColls /\ (up => newICR >= CCR /\ newICR >= currentICR)
  ELSE newICR >= MCR /\ newTCR >= CCR

(* addColl, withdrawColl, withdrawYUSD, repayYUSD and adjustTrove all call *)
(* _adjustTrove: y is the debt change, up when it is an increase; so does  *)
(* withdrawCollUnleverUp, which sells the tokens sold instead of unwrapping *)
(* them.                                                                   *)
AdjustTrove(b, cIn, cOut, y, up, bfee, vfee, sold) ==
  LET change == DebtChange(y, up, bfee)
      vf == VariableFee(cIn, vfee)
      pd == AppliedDebt(b)
      cur == SumColls(colls[b], AppliedColl(b))
      new == SubColls(SumColls(cur, cIn), cOut)
      newDebt == AdjustedDebt(b, cIn, y, up, bfee, vfee)
      curVC == VC(price, cur)
      newVC == VC(price, new)
      newICR == ComputeCR(newVC, newDebt)
      newSystemDebt == IF up THEN SystemDebt + change ELSE SystemDebt - change
      newTCR == ComputeCR(AppliedVC(b) + newVC - curVC, newSystemDebt)
      held == SumColls(SumColls(activeColl, AppliedColl(b)), cIn)
  IN  /\ Idle
      /\ status[b] = "active"
      /\ up => y # 0
      /\ sold # {} => cIn = NoColls /\ ~up
      /\ cIn # NoColls \/ cOut # NoColls \/ y # 0
      /\ Support(cIn) \cap Support(cOut) = {}
      /\ Covers(outside, cIn)
      /\ Covers(SumColls(cur, cIn), cOut)
      /\ CanMovePending(pd, AppliedColl(b))
      /\ newDebt >= 0
      /\ ValidAdjustment(RecoveryMode, cOut, up, newICR, ComputeCR(curVC, debt[b] + pd), newTCR)
      /\ (~up /\ y # 0) =>
           /\ newDebt - GasCompensation >= MinNetDebt
           /\ y <= circulating
      /\ CanStake(b, Support(new))
      /\ colls' = [colls EXCEPT ![b] = new]
      /\ collTokens' = [collTokens EXCEPT ![b] = Support(new)]
      /\ debt' = [debt EXCEPT ![b] = newDebt]
      /\ AppliedSnapshots(b)
      /\ UpdateStake(b, Support(new), new)
      /\ PlaceTrove(b, newICR)
      /\ defaultDebt' = defaultDebt - pd
      /\ defaultColl' = SubColls(defaultColl, AppliedColl(b))
      /\ Covers(held, cOut)
      /\ activeColl' = Unwrapped(held, cOut, sold)
      /\ outside' = SumColls(SubColls(outside, cIn), cOut)
      /\ IF up
         THEN /\ activeDebt' = activeDebt + pd + change + vf
              /\ circulating' = circulating + change + vf
         ELSE /\ y \in 0..(activeDebt + pd)
              /\ activeDebt' = activeDebt + pd - y + vf
              /\ circulating' = circulating - y + vf
      /\ UNCHANGED <<status, systemSnapshotVars, rewardVars, surplusVars,
                     spYUSD, gasPool, price, tx, liquidations>>

\* Mutant: the closed trove's collateral still counts.
ClosedCollKept(b, unlever, sold) == AppliedVC(b)

(* The newTCR that _closeTrove requires to be at least CCR: unlevering has  *)
(* already taken the collateral out of the pool it is subtracted from.      *)
ClosingVC(b, unlever, sold) ==
  LET c == SumColls(colls[b], AppliedColl(b))
  IN  (IF unlever
       THEN VC(price, Unwrapped(SumColls(activeColl, AppliedColl(b)), c, sold))
            + VC(price, SubColls(defaultColl, AppliedColl(b)))
       ELSE AppliedVC(b)) - VC(price, c)

ClosingTCR(b, unlever, sold) ==
  ComputeCR(ClosingVC(b, unlever, sold), SystemDebt - (debt[b] + AppliedDebt(b)))

\* closeTrove, and closeTroveUnlever, which sends the collateral away first.
CloseTrove(b, unlever, sold) ==
  LET pd == AppliedDebt(b)
      c == SumColls(colls[b], AppliedColl(b))
      d == debt[b] + pd
      held == SumColls(activeColl, AppliedColl(b))
  IN  /\ Idle
      /\ status[b] = "active"
      /\ ~RecoveryMode
      /\ sold # {} => unlever
      /\ CanMovePending(pd, AppliedColl(b))
      /\ GasCompensation <= d
      /\ d - GasCompensation <= circulating
      /\ Covers(held, c)
      /\ ClosingVC(b, unlever, sold) >= 0
      /\ ClosingTCR(b, unlever, sold) >= CCR
      /\ RemoveStake(b, AppliedTokens(b))
      /\ CloseAs(b, "closedByOwner")
      /\ defaultDebt' = defaultDebt - pd
      /\ defaultColl' = SubColls(defaultColl, AppliedColl(b))
      /\ d \in 0..(activeDebt + pd)
      /\ activeDebt' = activeDebt + pd - d
      /\ circulating' = circulating - (d - GasCompensation)
      /\ BurnGasReserve
      /\ activeColl' = Unwrapped(held, c, sold)
      /\ outside' = SumColls(outside, c)
      /\ UNCHANGED <<systemSnapshotVars, rewardVars, surplusVars, spYUSD,
                     price, tx, liquidations>>

ClaimCollateral(b) ==
  /\ Idle
  /\ surplus[b] # NoColls
  /\ Covers(surplusColl, surplus[b])
  /\ surplus' = [surplus EXCEPT ![b] = NoColls]
  /\ surplusColl' = SubColls(surplusColl, surplus[b])
  /\ outside' = SumColls(outside, surplus[b])
  /\ UNCHANGED <<troveVars, stakeVars, snapshotVars, listVars,
                 systemSnapshotVars, rewardVars, activeVars, defaultVars,
                 spYUSD, yusdVars, price, tx, liquidations>>

\* TroveManager.updateTroves: anyone may refresh a trove's place in the list.
UpdateTrove(b) ==
  /\ Idle
  /\ status[b] = "active"
  /\ PlaceTrove(b, ICR(b))
  /\ UNCHANGED <<troveVars, stakeVars, snapshotVars, systemSnapshotVars,
                 rewardVars, activeVars, defaultVars, surplusVars, spYUSD,
                 yusdVars, outside, price, tx, liquidations>>
-----------------------------------------------------------------------------
(* The neighbours of the ledger, as far as it can tell: the depositors of  *)
(* StabilityPool (module StabilityPool has their shares) and the oracles.  *)

ProvideToSP(x) ==
  /\ Idle
  /\ x # 0 /\ x <= circulating
  /\ circulating' = circulating - x
  /\ spYUSD' = spYUSD + x
  /\ UNCHANGED <<troveVars, stakeVars, snapshotVars, listVars,
                 systemSnapshotVars, rewardVars, activeVars, defaultVars,
                 surplusVars, gasPool, outside, price, tx, liquidations>>

WithdrawFromSP(x) ==
  /\ Idle
  /\ x # 0 /\ x <= spYUSD
  /\ sortedTroves # <<>> => ICR(sortedTroves[Len(sortedTroves)]) >= MCR
  /\ circulating' = circulating + x
  /\ spYUSD' = spYUSD - x
  /\ UNCHANGED <<troveVars, stakeVars, snapshotVars, listVars,
                 systemSnapshotVars, rewardVars, activeVars, defaultVars,
                 surplusVars, gasPool, outside, price, tx, liquidations>>

SetPrice(t, p) ==
  /\ Idle
  /\ p # price[t]
  /\ price' = [price EXCEPT ![t] = p]
  /\ UNCHANGED <<troveVars, stakeVars, snapshotVars, listVars,
                 systemSnapshotVars, rewardVars, activeVars, defaultVars,
                 surplusVars, spYUSD, yusdVars, outside, tx, liquidations>>
-----------------------------------------------------------------------------
(* TroveManagerLiquidations.batchLiquidateTroves.                          *)

(* What one liquidation does with the debt and the collateral of a trove.  *)
Split(off, redist, toSP, toRedist, toSurplus, gas) ==
  [offset |-> off, redistribute |-> redist, toSP |-> toSP,
   toRedist |-> toRedist, toSurplus |-> toSurplus, gas |-> gas]

GasShare(c) == [t \in Tokens |-> c[t] \div PercentDivisor]

PureRedistribution(d, c) ==
  Split(0, d, NoColls, SubColls(c, GasShare(c)), NoColls, GasShare(c))

(* _getOffsetAndRedistributionVals: the pool takes at most 110% of what it *)
(* pays, the owner keeps the rest of the offset part, the others the rest. *)
OffsetAndRedistribution(d, c, sp) ==
  LET liq == SubColls(c, GasShare(c))
      off == Smaller(d, sp)
      offsetRatio == (DP * DP * off) \div d
      spRatio == Smaller(offsetRatio, (off * DP * MCR) \div USD(price, liq))
      toSP == [t \in Tokens |-> (liq[t] * spRatio) \div (DP * DP)]
      toSurplus == [t \in Tokens |-> (liq[t] * (offsetRatio - spRatio)) \div (DP * DP)]
  IN  IF sp = 0 THEN PureRedistribution(d, c)
      ELSE Split(off, d - off, toSP, SubColls(SubColls(liq, toSP), toSurplus),
                 toSurplus, GasShare(c))

\* Its divisions revert on zero.
CanSplit(d, c, sp) == sp # 0 => d # 0 /\ USD(price, SubColls(c, GasShare(c))) # 0

\* Mutant: the gas share is not taken out of the capped collateral.
GasOnTop(d, c) ==
  LET ratio == Smaller((((MCR * d) \div DP) * DP) \div USD(price, c), DP)
      capped == [t \in Tokens |-> (ratio * c[t]) \div DP]
  IN  Split(d, 0, capped, NoColls, SubColls(c, capped), GasShare(capped))

(* _getCappedOffsetVals. *)
CappedOffset(d, c) ==
  LET ratio == Smaller((((MCR * d) \div DP) * DP) \div USD(price, c), DP)
      capped == [t \in Tokens |-> (ratio * c[t]) \div DP]
      gas == GasShare(capped)
  IN  Split(d, 0, SubColls(capped, gas), NoColls, SubColls(c, capped), gas)

BeginLiquidation ==
  /\ Idle
  /\ liquidations < MaxLiquidations
  /\ liquidations' = liquidations + 1
  /\ tx' = [kind |-> "liquidation",
            recovery |-> RecoveryMode,   \* recoveryModeAtStart /\ ~backToNormalMode
            remainingSP |-> spYUSD, systemVC |-> SystemVC, systemDebt |-> SystemDebt,
            sequenceDebt |-> 0, gasYUSD |-> 0,
            totals |-> Split(0, 0, NoColls, NoColls, NoColls, NoColls)]
  /\ \E b \in Active : RecoveryMode \/ ICR(b) < MCR
  /\ UNCHANGED <<troveVars, stakeVars, snapshotVars, listVars,
                 systemSnapshotVars, rewardVars, activeVars, defaultVars,
                 surplusVars, spYUSD, yusdVars, outside, price>>

\* _addLiquidationValuesToTotals.
AddSplit(x, y) ==
  Split(x.offset + y.offset, x.redistribute + y.redistribute,
        SumColls(x.toSP, y.toSP), SumColls(x.toRedist, y.toRedist),
        SumColls(x.toSurplus, y.toSurplus), SumColls(x.gas, y.gas))

\* Mutant: the collateral that pays for gas is forgotten.
LeavingVCWithoutGas(v) == VC(price, v.toSP) + VC(price, v.toSurplus)

\* What one liquidation takes from the batch's copy of the system's VC.
LeavingVC(v) == VC(price, v.toSP) + VC(price, v.gas) + VC(price, v.toSurplus)

(* One step of the loop that closes the trove b and sets v apart.          *)
LiquidateAs(b, v) ==
  /\ CanMovePending(PendingDebt(b), PendingColl(b))
  /\ activeDebt' = activeDebt + PendingDebt(b)
  /\ activeColl' = SumColls(activeColl, PendingColl(b))
  /\ defaultDebt' = defaultDebt - PendingDebt(b)
  /\ defaultColl' = SubColls(defaultColl, PendingColl(b))
  /\ RemoveStake(b, collTokens[b])
  /\ CloseAs(b, "closedByLiquidation")
  /\ surplus' = [surplus EXCEPT ![b] = SumColls(@, v.toSurplus)]
  /\ LET vc == tx.systemVC - LeavingVC(v)
         d == tx.systemDebt - v.offset
     IN  /\ tx.recovery => vc >= 0 /\ d >= 0
         /\ tx' = [kind |-> "liquidation",
                   recovery |-> tx.recovery /\ ComputeCR(vc, d) < CCR,
                   remainingSP |-> tx.remainingSP - v.offset,
                   systemVC |-> IF tx.recovery THEN vc ELSE tx.systemVC,
                   systemDebt |-> IF tx.recovery THEN d ELSE tx.systemDebt,
                   sequenceDebt |-> tx.sequenceDebt + EntireDebt(b),
                   gasYUSD |-> tx.gasYUSD + GasCompensation,
                   totals |-> AddSplit(tx.totals, v)]
  /\ UNCHANGED <<systemSnapshotVars, rewardVars, surplusColl, spYUSD, yusdVars,
                 outside, price, liquidations>>

LiquidateNormalMode(b) ==
  /\ tx.kind = "liquidation"
  /\ status[b] = "active"
  /\ ~tx.recovery
  /\ ICR(b) < MCR
  /\ CanSplit(EntireDebt(b), EntireColl(b), tx.remainingSP)
  /\ LiquidateAs(b, OffsetAndRedistribution(EntireDebt(b), EntireColl(b), tx.remainingSP))

LiquidateRecoveryMode(b) ==
  LET d == EntireDebt(b)
      c == EntireColl(b)
      icr == ICR(b)
  IN  /\ tx.kind = "liquidation"
      /\ status[b] = "active"
      /\ tx.recovery
      /\ \/ /\ icr <= DP
            /\ LiquidateAs(b, PureRedistribution(d, c))
         \/ /\ DP < icr /\ icr < MCR
            /\ CanSplit(d, c, tx.remainingSP)
            /\ LiquidateAs(b, OffsetAndRedistribution(d, c, tx.remainingSP))
         \/ /\ MCR <= icr /\ tx.remainingSP # 0
            /\ icr < ComputeCR(tx.systemVC, tx.systemDebt)
            /\ d <= tx.remainingSP
            /\ USD(price, c) # 0
            /\ LiquidateAs(b, CappedOffset(d, c))

(* TroveManager.redistributeDebtAndColl: the per-unit-staked terms grow by *)
(* the tokens of c, each with its share of d by VC.  A token nobody has a  *)
(* stake in gets no term, but its collateral and debt move all the same.   *)
Redistribute(d, c) ==
  IF d = 0 THEN UNCHANGED rewardVars
  ELSE LET total == VC(price, c)
           num(t) == c[t] * DP + lastCollError[t]
           debtNum(t) == ((ValueVC(price, t, c[t]) * d) \div total) * DP + lastYUSDDebtError[t]
           shared(t) == c[t] # 0 /\ totalStakes[t] # 0
       IN  /\ c # NoColls => total # 0
           /\ L_Coll' = [t \in Tokens |->
                IF shared(t) THEN L_Coll[t] + num(t) \div totalStakes[t] ELSE L_Coll[t]]
           /\ lastCollError' = [t \in Tokens |->
                IF shared(t) THEN num(t) % totalStakes[t] ELSE lastCollError[t]]
           /\ L_YUSDDebt' = [t \in Tokens |->
                IF shared(t) THEN L_YUSDDebt[t] + debtNum(t) \div totalStakes[t]
                ELSE L_YUSDDebt[t]]
           /\ lastYUSDDebtError' = [t \in Tokens |->
                IF shared(t) THEN debtNum(t) % totalStakes[t] ELSE lastYUSDDebtError[t]]

\* What ActivePool sends to DefaultPool.
RedistributedColl(v) == IF v.redistribute = 0 THEN NoColls ELSE v.toRedist

\* Mutant: the liquidator is paid with new YUSD.
MintGasCompensation(x) == circulating' = circulating + x /\ UNCHANGED gasPool

\* YUSDToken.returnFromPool(GasPool, liquidator, x).
SendGasCompensation(x) ==
  /\ x <= gasPool
  /\ gasPool' = gasPool - x
  /\ circulating' = circulating + x

FinishLiquidation ==
  LET v == tx.totals
      redistColl == RedistributedColl(v)
      leaves == SumColls(SumColls(v.toSP, v.toSurplus), redistColl)
  IN  /\ tx.kind = "liquidation"
      /\ tx.sequenceDebt # 0
      /\ v.offset <= spYUSD
      /\ spYUSD' = spYUSD - v.offset
      /\ Redistribute(v.redistribute, v.toRedist)
      /\ v.offset + v.redistribute <= activeDebt
      /\ activeDebt' = activeDebt - v.offset - v.redistribute
      /\ defaultDebt' = defaultDebt + v.redistribute
      /\ defaultColl' = SumColls(defaultColl, redistColl)
      /\ surplusColl' = SumColls(surplusColl, v.toSurplus)
      /\ Covers(activeColl, SumColls(leaves, v.gas))
      /\ activeColl' = Unwrapped(SubColls(activeColl, leaves), v.gas, {})
      \* updateSystemSnapshots_excludeCollRemainder, for the tokens paid as gas
      /\ totalStakesSnapshot' = [t \in Tokens |->
           IF v.gas[t] # 0 THEN totalStakes[t] ELSE totalStakesSnapshot[t]]
      /\ totalCollateralSnapshot' = [t \in Tokens |->
           IF v.gas[t] # 0 THEN activeColl[t] - leaves[t] - v.gas[t] + defaultColl'[t]
           ELSE totalCollateralSnapshot[t]]
      /\ SendGasCompensation(tx.gasYUSD)
      /\ outside' = SumColls(SumColls(outside, v.toSP), v.gas)
      /\ tx' = NoTx
      /\ UNCHANGED <<troveVars, stakeVars, snapshotVars, listVars, surplus, price, liquidations>>
-----------------------------------------------------------------------------
(* TroveManagerRedemptions.redeemCollateral.                               *)

\* _isValidFirstRedemptionHint, or the search from the tail for ICR >= MCR.
ValidFirstHint(b) ==
  /\ b \in Active /\ ICR(b) >= MCR
  /\ \A i \in 1..Len(sortedTroves) :
       i = PositionOf(b) + 1 => ICR(sortedTroves[i]) < MCR

Redemption(current, remaining, redeemed, drawn) ==
  [kind |-> "redemption", current |-> current, remaining |-> remaining,
   redeemed |-> redeemed, drawn |-> drawn]

BeginRedemption(amount, first) ==
  /\ Idle
  /\ amount # 0 /\ amount <= circulating
  /\ TCR >= MCR
  /\ ValidFirstHint(first)
  /\ tx' = Redemption(first, amount, 0, NoColls)
  /\ UNCHANGED <<troveVars, stakeVars, snapshotVars, listVars,
                 systemSnapshotVars, rewardVars, activeVars, defaultVars,
                 surplusVars, spYUSD, yusdVars, outside, price, liquidations>>

\* Mutant: the minimum is compared with the debt, gas reserve included.
GrossMinimum(newDebt) == newDebt >= MinNetDebt

\* A partial redemption must leave MIN_NET_DEBT.
LeavesMinimum(newDebt) == newDebt - GasCompensation >= MinNetDebt

(* What a redemption leaves of a trove whose collateral was c: left, and   *)
(* newDebt.  collOut and debtOut leave ActivePool in the same step.        *)
ReduceTrove(b, c, left, newDebt, collOut, debtOut) ==
  LET coll == SumColls(activeColl, AppliedColl(b))
      d == activeDebt + AppliedDebt(b)
  IN  /\ CanMovePending(AppliedDebt(b), AppliedColl(b))
      /\ debtOut \in 0..d
      /\ defaultDebt' = defaultDebt - AppliedDebt(b)
      /\ defaultColl' = SubColls(defaultColl, AppliedColl(b))
      /\ \/ /\ newDebt = GasCompensation
            /\ RemoveStake(b, AppliedTokens(b))
            /\ CloseAs(b, "closedByRedemption")
            /\ BurnGasReserve
            /\ GasCompensation + debtOut <= d
            /\ activeDebt' = d - GasCompensation - debtOut
            /\ surplus' = [surplus EXCEPT ![b] = SumColls(@, left)]
            /\ surplusColl' = SumColls(surplusColl, left)
            /\ Covers(coll, SumColls(left, collOut))
            /\ activeColl' = Unwrapped(SubColls(coll, left), collOut, {})
         \/ /\ newDebt # GasCompensation
            /\ LeavesMinimum(newDebt)
            /\ PlaceTrove(b, ComputeCR(VC(price, left), newDebt))
            /\ debt' = [debt EXCEPT ![b] = newDebt]
            /\ colls' = [colls EXCEPT ![b] = left]
            /\ collTokens' = [collTokens EXCEPT ![b] = Support(c)]
            /\ AppliedSnapshots(b)
            /\ CanStake(b, Support(c))
            /\ UpdateStake(b, Support(c), left)
            /\ activeDebt' = d - debtOut
            /\ Covers(coll, collOut) /\ activeColl' = Unwrapped(coll, collOut, {})
            /\ UNCHANGED <<status, gasPool, surplusVars>>

\* Mutant: the list is trusted to be in order.
AlwaysRedeemable(b) == TRUE

\* The list may be stale: a trove met in the loop is checked again.
Redeemable(b) == ICR(b) >= MCR

\* The collateral that is worth lot, in the proportions of the trove's.
Cut(lot, c) == [t \in Tokens |-> (lot * c[t]) \div USD(price, c)]

\* SafeMath.div and sub, as the lot is cut.
CanCut(lot, c) == USD(price, c) # 0 /\ Covers(c, Cut(lot, c))

(* One step of the loop.  prev is read before the list changes and the     *)
(* rewards are applied before the lot is cut.                              *)
RedeemFromTrove(b) ==
  LET d == debt[b] + AppliedDebt(b)
      c == EntireColl(b)   \* getCurrentTroveState: rewards applied, or still pending
      lot == Smaller(tx.remaining, d - GasCompensation)
      cut == Cut(lot, c)
  IN  /\ tx.kind = "redemption" /\ tx.current = b /\ tx.remaining # 0
      /\ Redeemable(b)
      /\ GasCompensation <= d
      /\ CanCut(lot, c)
      /\ ReduceTrove(b, c, SubColls(c, cut), d - lot, NoColls, 0)
      /\ tx' = Redemption(Prev(b), tx.remaining - lot, tx.redeemed + lot,
                          SumColls(tx.drawn, cut))
      /\ UNCHANGED <<systemSnapshotVars, rewardVars, spYUSD, circulating, outside, price, liquidations>>

(* cancelledPartial: the hint is out of date, or too little debt would be  *)
(* left; the loop ends, after the rewards were applied.                    *)
CancelPartial(b) ==
  LET d == debt[b] + AppliedDebt(b)
  IN  /\ tx.kind = "redemption" /\ tx.current = b /\ tx.remaining # 0
      /\ Redeemable(b)
      /\ GasCompensation <= d /\ tx.remaining < d - GasCompensation
      /\ CanCut(tx.remaining, EntireColl(b))
      /\ tx.drawn # NoColls
      /\ CanMovePending(AppliedDebt(b), AppliedColl(b))
      /\ defaultDebt' = defaultDebt - AppliedDebt(b)
      /\ defaultColl' = SubColls(defaultColl, AppliedColl(b))
      /\ activeDebt' = activeDebt + AppliedDebt(b)
      /\ activeColl' = SumColls(activeColl, AppliedColl(b))
      /\ debt' = [debt EXCEPT ![b] = d]
      /\ colls' = [colls EXCEPT ![b] = SumColls(@, AppliedColl(b))]
      /\ collTokens' = [collTokens EXCEPT ![b] = AppliedTokens(b)]
      /\ AppliedSnapshots(b)
      /\ tx' = Redemption(NoTrove, tx.remaining, tx.redeemed, tx.drawn)
      /\ UNCHANGED <<status, stakeVars, listVars, systemSnapshotVars, rewardVars,
                     surplusVars, spYUSD, yusdVars, outside, price, liquidations>>

\* A trove that fell under MCR while the list was stale is passed over.
SkipTrove(b) ==
  /\ tx.kind = "redemption" /\ tx.current = b /\ tx.remaining # 0
  /\ ~Redeemable(b)
  /\ tx' = Redemption(Prev(b), tx.remaining, tx.redeemed, tx.drawn)
  /\ UNCHANGED <<troveVars, stakeVars, snapshotVars, listVars,
                 systemSnapshotVars, rewardVars, activeVars, defaultVars,
                 surplusVars, spYUSD, yusdVars, outside, price, liquidations>>

FinishRedemption ==
  /\ tx.kind = "redemption"
  /\ tx.drawn # NoColls
  /\ tx.redeemed <= activeDebt
  /\ activeDebt' = activeDebt - tx.redeemed
  /\ circulating' = circulating - tx.redeemed
  /\ Covers(activeColl, tx.drawn)
  /\ activeColl' = Unwrapped(activeColl, tx.drawn, {})
  /\ outside' = SumColls(outside, tx.drawn)
  /\ tx' = NoTx
  /\ UNCHANGED <<troveVars, stakeVars, snapshotVars, listVars,
                 systemSnapshotVars, rewardVars, defaultVars, surplusVars,
                 spYUSD, gasPool, price, liquidations>>

\* redeemCollateralSingle: one trove, one of its tokens, in one step.
RedeemSingle(b, t, amount) ==
  LET d == debt[b] + AppliedDebt(b)
      c == EntireColl(b)
      worth == ValueUSD(price, t, c[t])
      lot == Smaller(worth, Smaller(amount, d - GasCompensation))
      cut == [NoColls EXCEPT ![t] = (lot * c[t]) \div worth]
  IN  /\ Idle
      /\ amount # 0 /\ amount <= circulating
      /\ TCR >= MCR
      /\ ValidFirstHint(b)
      /\ GasCompensation <= d
      /\ worth # 0
      /\ cut # NoColls
      /\ Covers(c, cut)
      /\ ReduceTrove(b, c, SubColls(c, cut), d - lot, cut, lot)
      /\ circulating' = circulating - lot
      /\ outside' = SumColls(outside, cut)
      /\ UNCHANGED <<systemSnapshotVars, rewardVars, spYUSD, price, tx, liquidations>>
-----------------------------------------------------------------------------
Borrow(b) ==
  \/ \E c \in OpenColls, y \in OpenDebts, bfee \in BorrowingFees, vfee \in DepositFees :
       OpenTrove(b, c, y, bfee, vfee)
  \/ \E cIn, cOut \in AdjustColls \cup {NoColls}, y \in AdjustDebts \cup {0}, up \in BOOLEAN,
        bfee \in BorrowingFees, vfee \in DepositFees, sold \in SUBSET Wrapped :
       AdjustTrove(b, cIn, cOut, y, up, bfee, vfee, sold)
  \/ \E unlever \in BOOLEAN, sold \in SUBSET Wrapped : CloseTrove(b, unlever, sold)
  \/ ClaimCollateral(b)
  \/ UpdateTrove(b)

Liquidate ==
  \/ BeginLiquidation
  \/ \E b \in Borrowers : LiquidateNormalMode(b) \/ LiquidateRecoveryMode(b)
  \/ FinishLiquidation

Redeem ==
  \/ \E amount \in Redemptions, b \in Borrowers : BeginRedemption(amount, b)
  \/ \E b \in Borrowers : RedeemFromTrove(b) \/ CancelPartial(b) \/ SkipTrove(b)
  \/ FinishRedemption
  \/ \E b \in Borrowers, t \in Tokens, amount \in Redemptions : RedeemSingle(b, t, amount)

Next ==
  \/ \E b \in Borrowers : Borrow(b)
  \/ \E x \in Deposits : ProvideToSP(x) \/ WithdrawFromSP(x)
  \/ \E t \in Tokens, p \in Prices : SetPrice(t, p)
  \/ Liquidate
  \/ Redeem

Spec == Init /\ [][Next]_vars
-----------------------------------------------------------------------------
(* Properties.                                                             *)

TxTypes ==
  {NoTx}
  \cup [kind : {"liquidation"}, recovery : BOOLEAN, remainingSP : Nat, systemVC : Nat,
        systemDebt : Nat, sequenceDebt : Nat, gasYUSD : Nat,
        totals : [offset : Nat, redistribute : Nat, toSP : Colls, toRedist : Colls,
                  toSurplus : Colls, gas : Colls]]
  \cup [kind : {"redemption"}, current : Borrowers \cup {NoTrove}, remaining : Nat,
        redeemed : Nat, drawn : Colls]

\* Types: in particular no subtraction in the ledger goes below zero.
TypeOK ==
  /\ status \in [Borrowers -> Statuses]
  /\ debt \in [Borrowers -> Nat] /\ oldICR \in [Borrowers -> Nat]
  /\ colls \in [Borrowers -> Colls] /\ stakes \in [Borrowers -> Colls]
  /\ collTokens \in [Borrowers -> SUBSET Tokens]
  /\ collSnapshots \in [Borrowers -> Colls] /\ debtSnapshots \in [Borrowers -> Colls]
  /\ surplus \in [Borrowers -> Colls]
  /\ sortedTroves \in Seq(Borrowers)
  /\ {totalStakes, totalStakesSnapshot, totalCollateralSnapshot, L_Coll, L_YUSDDebt,
      lastCollError, lastYUSDDebtError, activeColl, defaultColl, surplusColl, outside}
       \subseteq Colls
  /\ {activeDebt, defaultDebt, spYUSD, circulating, gasPool, liquidations} \subseteq Nat
  /\ price \in [Tokens -> Prices]
  /\ tx \in TxTypes

Total(f(_)) == SumFunction([b \in Borrowers |-> f(b)])

\* The part of ActivePool that an unfinished transaction has already taken
\* from the troves and will send away in its last step.
InFlightDebt ==
  IF tx.kind = "liquidation" THEN tx.totals.offset + tx.totals.redistribute
  ELSE IF tx.kind = "redemption" THEN tx.redeemed
  ELSE 0

InFlightColl(t) ==
  IF tx.kind = "liquidation"
  THEN tx.totals.toSP[t] + tx.totals.toRedist[t] + tx.totals.toSurplus[t] + tx.totals.gas[t]
  ELSE IF tx.kind = "redemption" THEN tx.drawn[t]
  ELSE 0

(* Every YUSD in existence is owed by a trove or by the DefaultPool, and    *)
(* nothing more is owed: borrowing, fees, gas reserves, offsets, full and   *)
(* partial redemptions mint and burn exactly the debt they move.            *)
SupplyMatchesDebt == circulating + gasPool + spYUSD = activeDebt + defaultDebt

(* No operation creates or destroys collateral: the ActivePool, DefaultPool *)
(* and CollSurplusPool counters and what is outside always add up, except   *)
(* for a wrapped token, which is sent out uncounted.                        *)
CollateralConserved ==
  \A t \in Tokens \ Wrapped :
    activeColl[t] + defaultColl[t] + surplusColl[t] + outside[t] = InitialOutside[t]

(* The ActivePool counter of YUSD debt is the sum of the debts recorded in  *)
(* the troves, but for what the running batch has set apart, at each step;  *)
(* and totalStakes[t], the divisor of every redistribution, is the sum of   *)
(* the stakes recorded in the troves.                                       *)
TotalsMatchTroves ==
  /\ activeDebt = Total(LAMBDA b : debt[b]) + InFlightDebt
  /\ \A t \in Tokens : totalStakes[t] = Total(LAMBDA b : stakes[b][t])

(* GasPool holds the reserve of every open trove, and of those the running  *)
(* batch has closed, so that the last owner can always be paid for.         *)
GasPoolCoversTroves ==
  gasPool = GasCompensation * Cardinality(Active)
            + (IF tx.kind = "liquidation" THEN tx.gasYUSD ELSE 0)

\* ActivePool holds the collateral recorded in the troves and what the
\* running batch has set apart (dust of an offset may be left over).
ActivePoolCovers(t) ==
  activeColl[t] >= Total(LAMBDA b : colls[b][t]) + InFlightColl(t)

\* The rewards that troves can still claim are in DefaultPool, so that
\* applying them never reverts.
DefaultPoolCovers(t) ==
  /\ defaultDebt >= Total(LAMBDA b : PendingDebt(b))
  /\ defaultColl[t] >= Total(LAMBDA b : PendingColl(b)[t])

\* CollSurplusPool can pay every claim; during a batch, the surplus already
\* credited is still on its way.
SurplusPoolCovers(t) ==
  surplusColl[t] + (IF tx.kind = "liquidation" THEN tx.totals.toSurplus[t] ELSE 0)
    = Total(LAMBDA b : surplus[b][t])

(* Whatever a trove or its former owner can still claim is in the pool it   *)
(* is claimed from, at every step of a batch (ActivePool, DefaultPool and   *)
(* CollSurplusPool against _applyPendingRewards, claimColl and              *)
(* redistributeDebtAndColl).                                                *)
PoolsCoverClaims ==
  \A t \in Tokens : ActivePoolCovers(t) /\ DefaultPoolCovers(t) /\ SurplusPoolCovers(t)

(* No open trove's net debt is ever under MIN_NET_DEBT, whatever partial    *)
(* redemptions, repayments and rewards it went through.                     *)
MinimumDebt ==
  \A b \in Active : debt[b] >= MinNetDebt + GasCompensation

(* The next trove of a redemption was read before its predecessor was moved *)
(* or closed: it is still an open trove when its turn comes.                *)
RedemptionMeetsOpenTroves ==
  tx.kind = "redemption" /\ tx.current # NoTrove => status[tx.current] = "active"

(* A batch never promises more YUSD of StabilityPool than it holds, and    *)
(* when it began in Recovery Mode its own copy of the system debt is what  *)
(* the pools will show once the batch is over.                             *)
BatchTracksDebt ==
  tx.kind = "liquidation" =>
    /\ tx.totals.offset + tx.remainingSP = spYUSD
    /\ tx.recovery => tx.systemDebt = SystemDebt - tx.totals.offset

\* The tokens whose collateral value is rounded down at some price, and how many
\* troves the running batch has closed.
RoundedTokens == {t \in Tokens : \E p \in Prices : (p * Ratio[t]) % (100 * DP) # 0}
ClosedByBatch == tx.gasYUSD \div GasCompensation

(* So is its own copy of the collateral value: the batch leaves Recovery   *)
(* Mode at the right trove.  Exactly so when no value is rounded; otherwise *)
(* each trove it closes brings in, for each rounded token, at most one unit *)
(* too little, as its rewards are applied, and four units too much, as they *)
(* are and the three parts that leave are added up.                         *)
BatchTracksSystem ==
  /\ BatchTracksDebt
  /\ tx.kind = "liquidation" /\ tx.recovery =>
       LET left == SystemVC - VC(price, tx.totals.toSP) - VC(price, tx.totals.gas)
                   - VC(price, tx.totals.toSurplus)
           n == Cardinality(RoundedTokens) * ClosedByBatch
       IN  tx.systemVC - left \in -n..(4 * n)

(* A whole transaction that neither moves a price nor redeems a trove in    *)
(* full: a trove better collateralized than the system may be redeemed in   *)
(* full, when the list is stale, and its surplus then leaves the system.    *)
OneTransaction ==
  /\ Idle /\ Idle' /\ price' = price
  /\ \A b \in Active : status'[b] # "closedByRedemption"

(* Apart from liquidations and full redemptions, only a price can bring the *)
(* system from Normal to Recovery Mode, and in Recovery Mode only a price   *)
(* can make the total collateral ratio worse: no borrower's operation and   *)
(* no partial redemption does either.                                       *)
SystemRatioIsKept ==
  [][OneTransaction => IF RecoveryMode THEN TCR' >= TCR ELSE ~RecoveryMode']_vars

(* A redemption leaves every trove it goes through at least as well         *)
(* collateralized as it was, unless it closes it.                           *)
RedemptionStep ==
  \/ tx.kind = "redemption"
  \/ \E b \in Borrowers, t \in Tokens, amount \in Redemptions : RedeemSingle(b, t, amount)

RedemptionNeverHurts ==
  [][RedemptionStep => \A b \in Active : status'[b] = "active" => ICR(b)' >= ICR(b)]_vars
=============================================================================
