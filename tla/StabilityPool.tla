--------------------------- MODULE StabilityPool ----------------------------
(***************************************************************************)
(* StabilityPool.sol with CommunityIssuance.sol: deposits that shrink, and *)
(* gains that grow, without ever being touched.  An offset only moves the  *)
(* product P and the sums S; what a deposit has become is read from these  *)
(* and from the depositor's snapshots.  P is kept above zero by counting   *)
(* the times it was scaled up by SCALE_FACTOR, and an offset that empties  *)
(* the pool starts a new epoch.                                            *)
(*                                                                         *)
(* A liquidation brings what it offsets; the YETI issued by a call grows   *)
(* with the time since the last one.  Both are inputs here.                *)
(***************************************************************************)
EXTENDS Naturals, FiniteSets, FiniteSetsExt

CONSTANTS
  Users,            \* addresses: depositors and front ends
  NoFrontEnd,       \* address(0) as a tag
  Tokens,           \* valid collaterals
  DP,               \* DECIMAL_PRECISION, here also 1e18
  SCALE_FACTOR,
  MCR,
  YETISupplyCap,
  Amounts,          \* YUSD a call may provide
  Withdrawals,      \* YUSD a call may ask for
  Debts,            \* debts a liquidation may offset, besides the whole pool
  LowestICRs,       \* ICR of the last trove of the list, when it is asked
  Issuances,        \* YETI that may have accrued since the last issuance
  KickbackRates,
  MaxCalls,         \* bound on the calls of a behaviour
  MaxEpoch, MaxScale

ASSUME ScaleAssumption ==
  /\ DP \in Nat \ {0} /\ SCALE_FACTOR \in 2..DP
  /\ SCALE_FACTOR * SCALE_FACTOR <= DP   \* 1e9 and 1e18: a P scaled up is below DP
  /\ NoFrontEnd \notin Users

\* uint256.
ASSUME InputAssumption ==
  /\ Amounts \subseteq Nat /\ Withdrawals \subseteq Nat /\ Debts \subseteq Nat
  /\ Issuances \subseteq Nat /\ KickbackRates \subseteq Nat
  /\ YETISupplyCap \in Nat /\ MaxEpoch \in Nat /\ MaxScale \in Nat

VARIABLES
  deposits,          \* [Users -> [initialValue, frontEndTag]]
  depositSnapshots,  \* [Users -> [S, P, G, scale, epoch]]
  frontEnds,         \* [Tags -> [registered, kickbackRate]]
  frontEndStakes,    \* YUSD last recorded for each tag, address(0) too
  frontEndSnapshots, \* [tags -> [P, G, scale, epoch]]
  totalYUSDDeposits,
  totalColl,         \* [Tokens -> amount]
  P, currentScale, currentEpoch,
  epochToScaleToSum, \* [Tokens -> [Epochs \X Scales -> Nat]]
  epochToScaleToG,   \* [Epochs \X Scales -> Nat]
  lastYETIError, lastAssetError_Offset, lastYUSDLossError_Offset,
  totalYETIIssued,   \* CommunityIssuance
  yetiSent,          \* YETI CommunityIssuance has transferred
  calls

depositVars == <<deposits, depositSnapshots>>
frontEndVars == <<frontEnds, frontEndStakes, frontEndSnapshots>>
productVars == <<P, currentScale, currentEpoch, lastYUSDLossError_Offset>>
sumVars == <<epochToScaleToSum, lastAssetError_Offset>>
yetiVars == <<epochToScaleToG, lastYETIError, totalYETIIssued>>
vars == <<depositVars, frontEndVars, totalYUSDDeposits, totalColl, productVars,
          sumVars, yetiVars, yetiSent, calls>>

Epochs == 0..MaxEpoch
Scales == 0..(MaxScale + 1)   \* the scale after the current one is read too
Tags == Users \cup {NoFrontEnd}
NoAmounts == [t \in Tokens |-> 0]
NoSnapshot == [S |-> NoAmounts, P |-> 0, G |-> 0, scale |-> 0, epoch |-> 0]

Init ==
  /\ deposits = [u \in Users |-> [initialValue |-> 0, frontEndTag |-> NoFrontEnd]]
  /\ depositSnapshots = [u \in Users |-> NoSnapshot]
  /\ frontEnds = [f \in Tags |-> [registered |-> FALSE, kickbackRate |-> 0]]
  /\ frontEndStakes = [f \in Tags |-> 0]
  /\ frontEndSnapshots = [f \in Tags |-> NoSnapshot]
  /\ totalYUSDDeposits = 0
  /\ totalColl = NoAmounts
  /\ P = DP /\ currentScale = 0 /\ currentEpoch = 0
  /\ epochToScaleToSum = [t \in Tokens |-> [es \in Epochs \X Scales |-> 0]]
  /\ epochToScaleToG = [es \in Epochs \X Scales |-> 0]
  /\ lastYETIError = 0 /\ lastYUSDLossError_Offset = 0
  /\ lastAssetError_Offset = NoAmounts
  /\ totalYETIIssued = 0 /\ yetiSent = 0
  /\ calls = 0

\* Mutant.
Larger(a, b) == IF a <= b THEN b ELSE a

Smaller(a, b) == IF a <= b THEN a ELSE b
Now == <<currentEpoch, currentScale>>

Call == calls < MaxCalls /\ calls' = calls + 1
-----------------------------------------------------------------------------
(* What a stake has become since its snapshots.                            *)

\* Mutant: a scale change is forgotten.
StakeAcrossOneScale(stake, s) == (stake * P) \div s.P

\* The stake after P was scaled up once since its snapshot.
StakeAcrossScale(stake, s) == ((stake * P) \div s.P) \div SCALE_FACTOR

\* _getCompoundedStakeFromSnapshots.
CompoundedStake(stake, s) ==
  LET scaleDiff == currentScale - s.scale
      compounded == CASE scaleDiff = 0 -> (stake * P) \div s.P
                      [] scaleDiff = 1 -> StakeAcrossScale(stake, s)
                      [] OTHER -> 0
  IN  IF stake = 0 \/ s.epoch < currentEpoch THEN 0
      ELSE IF compounded < stake \div SCALE_FACTOR THEN 0 ELSE compounded

CompoundedDeposit(u) == CompoundedStake(deposits[u].initialValue, depositSnapshots[u])
CompoundedFrontEndStake(f) == CompoundedStake(frontEndStakes[f], frontEndSnapshots[f])

\* Mutant: the sums of the current epoch are read, not of the stake's.
PortionsOfNow(sum, epoch, scale) ==
  sum[currentEpoch, scale] + sum[currentEpoch, scale + 1] \div SCALE_FACTOR

\* What a sum has at a scale and, scaled down, at the next one.
Portions(sum, epoch, scale) == sum[epoch, scale] + sum[epoch, scale + 1] \div SCALE_FACTOR

\* _getGainFromSnapshots and _getYETIGainFromSnapshots.
Gain(stake, sum, s, from) ==
  IF stake = 0 THEN 0
  ELSE ((stake * (Portions(sum, s.epoch, s.scale) - from)) \div s.P) \div DP

CollGain(u, t) ==
  Gain(deposits[u].initialValue, epochToScaleToSum[t], depositSnapshots[u],
       depositSnapshots[u].S[t])
CollGains(u) == [t \in Tokens |-> CollGain(u, t)]

\* The gains in YETI, with the sums G that _triggerYETIIssuance has left.
DepositorYETIGain(u, G) ==
  LET f == deposits[u].frontEndTag
      kickback == IF f = NoFrontEnd THEN DP ELSE frontEnds[f].kickbackRate
  IN  (kickback * Gain(deposits[u].initialValue, G, depositSnapshots[u],
                       depositSnapshots[u].G)) \div DP

FrontEndYETIGain(f, G) ==
  IF f = NoFrontEnd THEN 0
  ELSE ((DP - frontEnds[f].kickbackRate)
         * Gain(frontEndStakes[f], G, frontEndSnapshots[f], frontEndSnapshots[f].G)) \div DP
-----------------------------------------------------------------------------
(* Snapshots taken now, of sums S and G as they are at the end of a call.  *)
FrontEndSnapshot(stake, G) ==
  IF stake = 0 THEN NoSnapshot
  ELSE [S |-> NoAmounts, P |-> P, G |-> G[Now], scale |-> currentScale, epoch |-> currentEpoch]

\* Mutant: the snapshot is taken one scale ahead.
SnapshotOfNextScale(stake, G) ==
  IF stake = 0 THEN NoSnapshot
  ELSE [S |-> [t \in Tokens |-> epochToScaleToSum[t][Now]], P |-> P, G |-> G[Now],
        scale |-> currentScale + 1, epoch |-> currentEpoch]

DepositSnapshot(stake, G) ==
  IF stake = 0 THEN NoSnapshot
  ELSE [S |-> [t \in Tokens |-> epochToScaleToSum[t][Now]], P |-> P, G |-> G[Now],
        scale |-> currentScale, epoch |-> currentEpoch]

(* issueYETI and _updateG: YETI issued to an empty pool is lost.           *)
IssueYETI(issuance) ==
  LET numerator == issuance * DP + lastYETIError
  IN  /\ totalYETIIssued + issuance <= YETISupplyCap
      /\ totalYETIIssued' = totalYETIIssued + issuance
      /\ \/ /\ totalYUSDDeposits = 0 \/ issuance = 0
            /\ UNCHANGED <<epochToScaleToG, lastYETIError>>
         \/ /\ totalYUSDDeposits # 0 /\ issuance # 0
            /\ lastYETIError' = numerator % totalYUSDDeposits
            /\ epochToScaleToG' = [epochToScaleToG EXCEPT
                 ![Now] = @ + (numerator \div totalYUSDDeposits) * P]

(* What provideToSP and withdrawFromSP have in common once YETI has been   *)
(* issued: u, with tag f, is paid all gains, and newDeposit and newStake   *)
(* are recorded with new snapshots.                                        *)
Settle(u, f, newDeposit, newStake) ==
  /\ yetiSent' = yetiSent + FrontEndYETIGain(f, epochToScaleToG')
                          + DepositorYETIGain(u, epochToScaleToG')
  /\ frontEndStakes' = [frontEndStakes EXCEPT ![f] = newStake]
  /\ frontEndSnapshots' = [frontEndSnapshots EXCEPT
       ![f] = FrontEndSnapshot(newStake, epochToScaleToG')]
  /\ deposits' = [deposits EXCEPT ![u] =
       [initialValue |-> newDeposit,
        frontEndTag |-> IF newDeposit = 0 THEN NoFrontEnd ELSE f]]
  /\ depositSnapshots' = [depositSnapshots EXCEPT
       ![u] = DepositSnapshot(newDeposit, epochToScaleToG')]
  /\ \A t \in Tokens : CollGain(u, t) <= totalColl[t]
  /\ totalColl' = [t \in Tokens |-> totalColl[t] - CollGain(u, t)]
  /\ UNCHANGED <<frontEnds, productVars, sumVars>>
-----------------------------------------------------------------------------
(* The tag of a deposit is set with its first YUSD, and stays while the    *)
(* deposit is recorded, even after offsets have used it up.                *)
provideToSP(u, amount, tag, issuance) ==
  LET f == IF deposits[u].initialValue = 0 THEN tag ELSE deposits[u].frontEndTag
  IN  /\ Call
      /\ tag = NoFrontEnd \/ frontEnds[tag].registered
      /\ ~frontEnds[u].registered
      /\ amount # 0
      /\ IssueYETI(issuance)
      /\ Settle(u, f, CompoundedDeposit(u) + amount, CompoundedFrontEndStake(f) + amount)
      /\ totalYUSDDeposits' = totalYUSDDeposits + amount

withdrawFromSP(u, amount, lowestICR, issuance) ==
  LET f == deposits[u].frontEndTag
      out == Smaller(amount, CompoundedDeposit(u))
  IN  /\ Call
      /\ amount # 0 => lowestICR >= MCR
      /\ deposits[u].initialValue # 0
      /\ out <= CompoundedFrontEndStake(f)
      /\ out <= totalYUSDDeposits
      /\ IssueYETI(issuance)
      /\ Settle(u, f, CompoundedDeposit(u) - out, CompoundedFrontEndStake(f) - out)
      /\ totalYUSDDeposits' = totalYUSDDeposits - out

registerFrontEnd(u, rate) ==
  /\ Call
  /\ ~frontEnds[u].registered
  /\ deposits[u].initialValue = 0
  /\ rate <= DP
  /\ frontEnds' = [frontEnds EXCEPT ![u] = [registered |-> TRUE, kickbackRate |-> rate]]
  /\ UNCHANGED <<depositVars, frontEndStakes, frontEndSnapshots, totalYUSDDeposits,
                 totalColl, productVars, sumVars, yetiVars, yetiSent>>
-----------------------------------------------------------------------------
(* offset: the debt is taken from all deposits and the collateral given to *)
(* them, by their share of the pool.                                       *)

Numerator(t, added) == added[t] * DP + lastAssetError_Offset[t]
AssetGainPerUnit(t, added) == (Numerator(t, added) * P) \div totalYUSDDeposits

LossNumerator(debt) == debt * DP - lastYUSDLossError_Offset

\* YUSDLossPerUnitStaked, rounded up to favour the pool.
LossPerUnit(debt) ==
  IF debt = totalYUSDDeposits THEN DP ELSE LossNumerator(debt) \div totalYUSDDeposits + 1

\* P would fall below SCALE_FACTOR: p is P * factor, still to be divided by DP.
ScaleUp(p) ==
  /\ P' = (p * SCALE_FACTOR) \div DP
  /\ currentScale' = currentScale + 1
  /\ UNCHANGED currentEpoch

\* The product for the factor 1 - loss.
UpdateProduct(factor) ==
  CASE factor = 0 -> P' = DP /\ currentScale' = 0 /\ currentEpoch' = currentEpoch + 1
    [] factor # 0 /\ (P * factor) \div DP < SCALE_FACTOR -> ScaleUp(P * factor)
    [] OTHER -> P' = (P * factor) \div DP /\ UNCHANGED <<currentScale, currentEpoch>>

offset(debt, added, issuance) ==
  /\ Call
  /\ totalYUSDDeposits # 0 /\ debt # 0
  /\ debt <= totalYUSDDeposits
  /\ debt = totalYUSDDeposits \/ lastYUSDLossError_Offset <= debt * DP
  /\ IssueYETI(issuance)
  /\ epochToScaleToSum' = [t \in Tokens |->
       IF added[t] = 0 THEN epochToScaleToSum[t]
       ELSE [epochToScaleToSum[t] EXCEPT ![Now] = @ + AssetGainPerUnit(t, added)]]
  /\ lastAssetError_Offset' = [t \in Tokens |->
       IF added[t] = 0 THEN lastAssetError_Offset[t]
       ELSE Numerator(t, added) - (AssetGainPerUnit(t, added) * totalYUSDDeposits) \div P]
  /\ lastYUSDLossError_Offset' =
       IF debt = totalYUSDDeposits THEN 0
       ELSE LossPerUnit(debt) * totalYUSDDeposits - LossNumerator(debt)
  /\ UpdateProduct(DP - LossPerUnit(debt))
  /\ P' # 0
  /\ currentEpoch' <= MaxEpoch /\ currentScale' <= MaxScale
  /\ totalYUSDDeposits' = totalYUSDDeposits - debt
  /\ totalColl' = [t \in Tokens |-> totalColl[t] + added[t]]
  /\ UNCHANGED <<depositVars, frontEndVars, yetiSent>>

\* What a liquidation sends along with the debt it offsets: 110% of it, at price 1.
Seized(debt) == {[t \in Tokens |-> IF t = u THEN (debt * 11) \div 10 ELSE 0] : u \in Tokens}

Next ==
  \E issuance \in Issuances :
    \/ \E u \in Users, amount \in Amounts, tag \in Tags : provideToSP(u, amount, tag, issuance)
    \/ \E u \in Users, amount \in Withdrawals, icr \in LowestICRs :
         withdrawFromSP(u, amount, icr, issuance)
    \/ \E debt \in Debts \cup {totalYUSDDeposits} : \E added \in Seized(debt) :
         offset(debt, added, issuance)
    \/ \E u \in Users, rate \in KickbackRates : issuance = 0 /\ registerFrontEnd(u, rate)

Spec == Init /\ [][Next]_vars
-----------------------------------------------------------------------------
Snapshots == [S : [Tokens -> Nat], P : 0..DP, G : Nat, scale : 0..MaxScale, epoch : Epochs]

TypeOK ==
  /\ deposits \in [Users -> [initialValue : Nat, frontEndTag : Tags]]
  /\ depositSnapshots \in [Users -> Snapshots]
  /\ frontEnds \in [Tags -> [registered : BOOLEAN, kickbackRate : 0..DP]]
  /\ frontEndStakes \in [Tags -> Nat] /\ frontEndSnapshots \in [Tags -> Snapshots]
  /\ totalYUSDDeposits \in Nat /\ totalColl \in [Tokens -> Nat]
  /\ P \in 1..DP /\ currentScale \in 0..MaxScale /\ currentEpoch \in Epochs
  /\ epochToScaleToSum \in [Tokens -> [Epochs \X Scales -> Nat]]
  /\ epochToScaleToG \in [Epochs \X Scales -> Nat]
  /\ lastYETIError \in Nat /\ lastYUSDLossError_Offset \in Nat
  /\ lastAssetError_Offset \in [Tokens -> Nat]
  /\ totalYETIIssued \in 0..YETISupplyCap /\ yetiSent \in Nat

AllDeposits == MapThenSumSet(CompoundedDeposit, Users)
AllGains(t) == MapThenSumSet(LAMBDA u : CollGain(u, t), Users)
AllYETI ==
  yetiSent + MapThenSumSet(LAMBDA u : DepositorYETIGain(u, epochToScaleToG)
                                      + FrontEndYETIGain(u, epochToScaleToG), Users)

\* s was taken before s2, as far as the product tells.
Before(s, s2) ==
  \/ s.epoch < s2.epoch
  \/ s.epoch = s2.epoch /\ s.scale < s2.scale
  \/ s.epoch = s2.epoch /\ s.scale = s2.scale /\ s.P >= s2.P

\* A snapshot of a stake is no later than the state, and its sums no larger.
Behind(s) ==
  /\ s.P # 0
  /\ Before(s, [NoSnapshot EXCEPT !.epoch = currentEpoch, !.scale = currentScale, !.P = P])
  /\ s.G <= epochToScaleToG[s.epoch, s.scale]
  /\ \A t \in Tokens : s.S[t] <= epochToScaleToSum[t][s.epoch, s.scale]

(* Every subtraction and division in the getters (StabilityPool.sol:764-   *)
(* 928) is safe for every stake that is recorded, in every epoch and scale *)
(* it has lived through: a deposit whose gains revert could not be         *)
(* withdrawn.  A stake has a snapshot exactly while it is recorded.        *)
SnapshotsBehind ==
  /\ \A u \in Users : IF deposits[u].initialValue = 0 THEN depositSnapshots[u] = NoSnapshot
                      ELSE Behind(depositSnapshots[u])
  /\ \A f \in Tags : IF frontEndStakes[f] = 0 THEN frontEndSnapshots[f] = NoSnapshot
                     ELSE Behind(frontEndSnapshots[f])

(* Until its owner calls, a deposit only shrinks and its gains only grow,  *)
(* whatever offsets, scale changes, emptied pools and calls of others come *)
(* in between (offset and _updateRewardSumAndProduct, 519-660).            *)
OthersNeverTakeGains ==
  [][\A u \in Users : deposits'[u] = deposits[u] /\ depositSnapshots'[u] = depositSnapshots[u] =>
       /\ CompoundedDeposit(u)' <= CompoundedDeposit(u)
       /\ DepositorYETIGain(u, epochToScaleToG)' >= DepositorYETIGain(u, epochToScaleToG)
       /\ \A t \in Tokens : CollGain(u, t)' >= CollGain(u, t)]_vars

(* What depositors may withdraw is in the pool, YUSD and collateral, up to *)
(* one unit of rounding for each call so far.  Exactly is too much to ask: *)
(* the loss per unit is rounded up, but the next offset gives the excess   *)
(* back (lastYUSDLossError_Offset, 577-588), which can leave the deposits  *)
(* worth a unit more than the pool holds.  YETI paid and still to be paid  *)
(* to depositors and front ends is what was issued, as precisely: no share *)
(* of it is counted for a deposit and for its front end twice.             *)
SolventUpToRounding ==
  /\ AllDeposits <= totalYUSDDeposits + calls
  /\ \A t \in Tokens : AllGains(t) <= totalColl[t] + calls
  /\ AllYETI <= totalYETIIssued + calls
=============================================================================
