------------------------- MODULE WrappedCollateral --------------------------
(***************************************************************************)
(* Wrapped JLP as collateral: every place where the protocol moves WJLP or *)
(* changes who earns its rewards.  A trove's WJLP is in ActivePool and its *)
(* rewards are its owner's; a liquidation gives what goes to StabilityPool *)
(* or DefaultPool to the treasury and the gas compensation to the          *)
(* liquidation manager, a redemption gives its lots to the redemption      *)
(* manager, each until the end of the transaction.                         *)
(*                                                                         *)
(* Only the WJLP of troves is here.  What the ledger decides from prices   *)
(* and debts (which trove, what lot, how a liquidation splits) is input.   *)
(* tx holds the totals of a batch of liquidations or a redemption between  *)
(* the steps of its loop, as in module TroveManager.                       *)
(***************************************************************************)
EXTENDS WJLP, Functions, FiniteSets

CONSTANTS
  Amounts,          \* amounts a user wraps, deposits, withdraws or sends
  Destinations,     \* accounts a user may wrap for or send to, pools included
  RewardRecipients, \* accounts a user may name to earn for what it wraps
  PERCENT_DIVISOR,  \* gas compensation: one part in so many
  MaxStaked,        \* bound on the JLP wrapped at a time
  MaxAcc            \* bound on accJoePerShare

ASSUME CollateralAssumption ==
  /\ Amounts \subseteq Nat \ {0}
  /\ Destinations \subseteq Accounts /\ RewardRecipients \subseteq Accounts
  /\ PERCENT_DIVISOR \in Nat \ {0} /\ MaxStaked \in Nat /\ MaxAcc \in Nat
  /\ IsFiniteSet(Users)

VARIABLES
  wjlp,       \* the storage of WJLP
  coll,       \* WJLP of each user's trove, without pending rewards
  surplus,    \* claims on CollSurplusPool
  pending,    \* each trove's share of DefaultPool
  gains,      \* StabilityPool.totalColl: what depositors will claim
  stranded,   \* reward shares taken by redemptions that were then cancelled
  tx

vars == <<wjlp, coll, surplus, pending, gains, stranded, tx>>

Totals(kind, toSP, redist, toSurplus, gas, drawn, ended) ==
  [kind |-> kind, toSP |-> toSP, redist |-> redist, surplus |-> toSurplus,
   gas |-> gas, drawn |-> drawn, ended |-> ended]
NoTx == Totals("none", 0, 0, 0, 0, 0, FALSE)
Idle == tx = NoTx

Init ==
  /\ wjlp = Deployed
  /\ coll = [u \in Users |-> 0] /\ surplus = [u \in Users |-> 0]
  /\ pending = [u \in Users |-> 0] /\ stranded = [u \in Users |-> 0]
  /\ gains = 0 /\ tx = NoTx

\* The calls of a transaction leave WJLP with storage v, unless one reverts.
Calls(v) == ~v.reverted /\ wjlp' = v

\* DefaultPool.sendCollsToActivePool, by _applyPendingRewards or
\* _movePendingTroveRewardsToActivePool.
MovePending(v, u) ==
  LET n == pending[u]
      ended == updateReward(v, "treasury", "defaultPool", n)
      sent == transfer(ended, "defaultPool", "activePool", n)
  IN  IF n = 0 THEN v ELSE updateReward(sent, "defaultPool", u, n)

Entire(u) == coll[u] + pending[u]
SetTrove(u, n) == coll' = [coll EXCEPT ![u] = n] /\ pending' = [pending EXCEPT ![u] = 0]
-----------------------------------------------------------------------------
(* Borrowers and other holders.                                            *)

\* openTrove or an adjustment: wrapped first, then pending rewards applied.
Deposit(u, n) ==
  /\ Idle
  /\ wjlp.staked + n <= MaxStaked
  /\ Calls(MovePending(wrap(wjlp, n, "activePool", u), u))
  /\ SetTrove(u, Entire(u) + n)
  /\ UNCHANGED <<surplus, gains, stranded, tx>>

\* An adjustment or closeTrove: ActivePool.sendCollateralsUnwrap(u, u).
Withdraw(u, n) ==
  /\ Idle
  /\ n <= Entire(u)
  /\ Calls(unwrapFor(MovePending(wjlp, u), "activePool", u, n))
  /\ SetTrove(u, Entire(u) - n)
  /\ UNCHANGED <<surplus, gains, stranded, tx>>

\* Any other operation on a trove with pending rewards.
ApplyPendingRewards(u) ==
  /\ Idle
  /\ pending[u] # 0
  /\ Calls(MovePending(wjlp, u))
  /\ SetTrove(u, Entire(u))
  /\ UNCHANGED <<surplus, gains, stranded, tx>>

\* Of the JLP of any user, the caller, for any account; another earns for it.
WrapOwn(n, to, recipient) ==
  /\ Idle
  /\ wjlp.staked + n <= MaxStaked
  /\ Calls(wrap(wjlp, n, to, recipient))
  /\ UNCHANGED <<coll, surplus, pending, gains, stranded, tx>>

UnwrapOwn(u, n) ==
  /\ Idle
  /\ Calls(unwrap(wjlp, u, n))
  /\ UNCHANGED <<coll, surplus, pending, gains, stranded, tx>>

Transfer(u, to, n) ==
  /\ Idle
  /\ Calls(transfer(wjlp, u, to, n))
  /\ UNCHANGED <<coll, surplus, pending, gains, stranded, tx>>

ClaimReward(u) ==
  /\ Idle
  /\ Calls(SendJoeReward(wjlp, u))
  /\ UNCHANGED <<coll, surplus, pending, gains, stranded, tx>>

\* CollSurplusPool.claimColl
ClaimSurplus(u) ==
  /\ Idle
  /\ surplus[u] # 0
  /\ Calls(unwrapFor(wjlp, "collSurplusPool", u, surplus[u]))
  /\ surplus' = [surplus EXCEPT ![u] = 0]
  /\ UNCHANGED <<coll, pending, gains, stranded, tx>>

\* StabilityPool._sendGainsToDepositor of n to some depositor.
SendGains(n) ==
  unwrapFor(updateReward(wjlp, "treasury", "stabilityPool", n), "stabilityPool", "stabilityPool", n)

ClaimGains(n) ==
  /\ Idle
  /\ n <= gains
  /\ Calls(SendGains(n))
  /\ gains' = gains - n
  /\ UNCHANGED <<coll, surplus, pending, stranded, tx>>

JoeAccrues ==
  /\ Idle
  /\ wjlp.accJoePerShare < MaxAcc
  /\ wjlp' = [wjlp EXCEPT !.accJoePerShare = @ + 1]
  /\ UNCHANGED <<coll, surplus, pending, gains, stranded, tx>>
-----------------------------------------------------------------------------
(* Liquidations: any number of troves, then the totals are settled.        *)

\* Mutant: the gas compensation is taken from the treasury's part.
SplitWithoutGas(v, b, toPools, gas) ==
  updateReward(updateReward(v, b, "treasury", toPools), "treasury", "TML", gas)

\* Mutant: the gas compensation is not subtracted from the pools' part.
SplitWithGasTwice(v, b, toPools, gas) ==
  updateReward(updateReward(v, b, "treasury", toPools + gas), b, "TML", gas)

\* The rewards of a trove's parts: its owner keeps those of the surplus.
SplitRewards(v, b, toPools, gas) ==
  updateReward(updateReward(v, b, "treasury", toPools), b, "TML", gas)

\* Of the trove's collateral capped is seized, toSP of it for the pool; only a
\* liquidation that is offset in full may leave a surplus.
LiquidateTrove(b, capped, toSP) ==
  LET gas == capped \div PERCENT_DIVISOR
      redist == capped - gas - toSP
      left == Entire(b) - capped
  IN  /\ tx.kind \in {"none", "liquidation"}
      /\ Entire(b) # 0
      /\ redist >= 0 /\ left >= 0
      /\ left # 0 => redist = 0
      /\ Calls(SplitRewards(MovePending(wjlp, b), b, toSP + redist, gas))
      /\ SetTrove(b, 0)
      /\ surplus' = [surplus EXCEPT ![b] = @ + left]
      /\ tx' = Totals("liquidation", tx.toSP + toSP, tx.redist + redist,
                      tx.surplus + left, tx.gas + gas, 0, FALSE)
      /\ UNCHANGED <<gains, stranded>>

\* Shares of a redistribution: only troves with WJLP have stakes in it, and
\* what the division leaves over is nobody's.
Shares(n) == {s \in [Users -> 0..n] :
                /\ SumFunction(s) <= n
                /\ \A u \in Users : coll[u] = 0 => s[u] = 0}

\* The transfers of a batch, then the liquidator's compensation, unwrapped.
Settle(v, totals) ==
  LET offset == transfer(v, "activePool", "stabilityPool", totals.toSP)
      moved == transfer(offset, "activePool", "defaultPool", totals.redist)
      kept == transfer(moved, "activePool", "collSurplusPool", totals.surplus)
  IN  unwrapFor(kept, "activePool", "TML", totals.gas)

FinishLiquidation(shares) ==
  /\ tx.kind = "liquidation"
  /\ Calls(Settle(wjlp, tx))
  /\ pending' = [u \in Users |-> pending[u] + shares[u]]
  /\ gains' = gains + tx.toSP
  /\ tx' = NoTx
  /\ UNCHANGED <<coll, surplus, stranded>>
-----------------------------------------------------------------------------
(* Redemptions.                                                            *)

\* Mutant: the lot's rewards stay with the trove's owner.
LotStaysWithOwner(v, b, lot) == MovePending(v, b)

\* The start of _redeemCollateralFromTrove.
Lot(v, b, lot) == updateReward(MovePending(v, b), b, "TMR", lot)

\* _redeemCloseTrove sends what is left of a closed trove to CollSurplusPool.
Closing(v, left) == transfer(v, "activePool", "collSurplusPool", left)

Leave(b, left, closes) ==
  /\ left >= 0
  /\ SetTrove(b, IF closes THEN 0 ELSE left)
  /\ surplus' = IF closes THEN [surplus EXCEPT ![b] = @ + left] ELSE surplus

\* A trove that is not closed is the last one.
RedeemFromTrove(b, lot, closes) ==
  LET left == Entire(b) - lot
      taken == Lot(wjlp, b, lot)
  IN  /\ tx.kind \in {"none", "redemption"} /\ ~tx.ended
      /\ Entire(b) # 0
      /\ Calls(IF closes THEN Closing(taken, left) ELSE taken)
      /\ Leave(b, left, closes)
      /\ tx' = Totals("redemption", 0, 0, 0, 0, tx.drawn + lot, ~closes)
      /\ UNCHANGED <<gains, stranded>>

\* A partial redemption is cancelled after its lot changed owner.
CancelPartial(b, lot) ==
  /\ tx.kind = "redemption" /\ ~tx.ended
  /\ Entire(b) # 0 /\ lot <= Entire(b)
  /\ Calls(Lot(wjlp, b, lot))
  /\ SetTrove(b, Entire(b))
  /\ stranded' = [stranded EXCEPT ![b] = @ + lot]
  /\ tx' = [tx EXCEPT !.ended = TRUE]
  /\ UNCHANGED <<surplus, gains>>

FinishRedemption ==
  /\ tx.kind = "redemption"
  /\ Calls(unwrapFor(wjlp, "activePool", "TMR", tx.drawn))
  /\ tx' = NoTx
  /\ UNCHANGED <<coll, surplus, pending, gains, stranded>>

\* redeemCollateralSingle takes the lot from the trove's owner directly.
RedeemSingle(b, lot, closes) ==
  LET left == Entire(b) - lot
      applied == MovePending(wjlp, b)
      kept == IF closes THEN Closing(applied, left) ELSE applied
  IN  /\ Idle
      /\ Entire(b) # 0
      /\ Calls(unwrapFor(kept, "activePool", b, lot))
      /\ Leave(b, left, closes)
      /\ UNCHANGED <<gains, stranded, tx>>
-----------------------------------------------------------------------------
UserNext(u) ==
  \/ \E n \in Amounts : Deposit(u, n) \/ Withdraw(u, n) \/ UnwrapOwn(u, n)
  \/ \E n \in Amounts, to \in Destinations : Transfer(u, to, n)
  \/ ApplyPendingRewards(u) \/ ClaimReward(u) \/ ClaimSurplus(u)

TroveNext(b) ==
  \/ \E capped, toSP \in 0..Entire(b) : LiquidateTrove(b, capped, toSP)
  \/ \E lot \in 0..Entire(b), closes \in BOOLEAN :
       RedeemFromTrove(b, lot, closes) \/ RedeemSingle(b, lot, closes)
  \/ \E lot \in 0..Entire(b) : CancelPartial(b, lot)

Next ==
  \/ \E u \in Users : UserNext(u) \/ TroveNext(u)
  \/ \E n \in Amounts, to \in Destinations, r \in RewardRecipients : WrapOwn(n, to, r)
  \/ \E n \in 1..gains : ClaimGains(n)
  \/ \E shares \in Shares(tx.redist) : FinishLiquidation(shares)
  \/ FinishRedemption
  \/ JoeAccrues

Spec == Init /\ [][Next]_vars
-----------------------------------------------------------------------------
InYeti(a) == wjlp.userInfo[a].amountInYeti
Balance(a) == wjlp.balances[a]
Amount(a) == wjlp.userInfo[a].amount
TotalOf(f(_)) == SumFunction([a \in Accounts |-> f(a)])

\* Types: no share, balance, claim or counter ever goes under zero.
TypeOK ==
  /\ wjlp \in [userInfo : [Accounts -> UserInfo], balances : [Accounts -> Nat],
            staked : Nat, chefDebt : Nat, accJoePerShare : Nat, joe : Nat,
            reverted : {FALSE}]
  /\ coll \in [Users -> Nat] /\ surplus \in [Users -> Nat]
  /\ pending \in [Users -> Nat] /\ stranded \in [Users -> Nat]
  /\ gains \in Nat
  /\ tx \in [kind : {"none", "liquidation", "redemption"}, toSP : Nat, redist : Nat,
             surplus : Nat, gas : Nat, drawn : Nat, ended : BOOLEAN]

\* Account a has n shares: updateReward and unwrapFor, which take from both
\* fields, can take that many without a revert.
Backed(a, n) == n <= Amount(a) /\ n <= InYeti(a)

(* What a user's shares, in amount and in amountInYeti, exceed the WJLP of *)
(* its trove and of its surplus by, but for what cancelled redemptions     *)
(* took.                                                                   *)
Needed(u) == coll[u] + surplus[u] - stranded[u]
Cover(u) == Amount(u) - Needed(u)
CoverInYeti(u) == InYeti(u) - Needed(u)

(* Nothing that others do, and nothing in the protocol, takes from a trove *)
(* the shares without which withdrawing, liquidating or redeeming it would *)
(* revert and it would not earn: the one call that lowers them beside its  *)
(* collateral is unwrap, by its owner, of WJLP that somebody sent to it    *)
(* (WJLP.sol:173-188 looks at amount and not at amountInYeti).             *)
OwnersKeepTheirShares ==
  [][\A u \in Users :
       /\ CoverInYeti(u)' >= CoverInYeti(u)
       /\ Cover(u)' < Cover(u) => \E n \in Amounts : UnwrapOwn(u, n)]_vars

(* The treasury has shares for what depositors will claim, for the pending *)
(* rewards of all troves and for what the running batch will still send to *)
(* the two pools, however many troves it liquidates: neither the claims    *)
(* nor endTreasuryReward ever find less than they take.                    *)
TreasuryEarnsForPools ==
  Backed("treasury", gains + SumFunction(pending) + tx.toSP + tx.redist)

\* Every staked JLP is one wrapped token that somebody holds and one share
\* of the rewards that somebody earns, though holder and earner differ.
SharesMatchSupply ==
  TotalOf(Amount) = wjlp.staked /\ TotalOf(Balance) = wjlp.staked

\* The managers have shares for what the running transaction has yet to send
\* to a liquidator or a redeemer, and for the lots of cancelled partial
\* redemptions, which nobody gets back.
ManagersEarnWhatTheySend ==
  Backed("TML", tx.gas) /\ Backed("TMR", tx.drawn + SumFunction(stranded))

\* Each pool holds the WJLP that is claimed from it: ActivePool the troves'
\* and what the running transaction has yet to move, the others what their
\* claimants are owed.  What anyone wraps for a pool or sends to it is more.
PoolsHoldWhatTheyOwe ==
  /\ Balance("activePool") >=
       SumFunction(coll) + tx.toSP + tx.redist + tx.surplus + tx.gas + tx.drawn
  /\ Balance("stabilityPool") >= gains
  /\ Balance("defaultPool") >= SumFunction(pending)
  /\ Balance("collSurplusPool") >= SumFunction(surplus) - tx.surplus

(* Holders, earners and claimants stay in step through every chain of calls *)
(* of the protocol and of outsiders: what is staked is held and earned for, *)
(* a pool holds what is claimed from it, and the unwrapping that ends a     *)
(* transaction has the shares that it takes (WJLP.sol:106-272 and its       *)
(* callers).                                                                *)
HoldersMatchEarners ==
  SharesMatchSupply /\ ManagersEarnWhatTheySend /\ PoolsHoldWhatTheyOwe

\* What getPendingRewards shows to all accounts together is at most n more than
\* the JOE that the contract has and would harvest now.
JoeCoversAllBut(n) ==
  TotalOf(LAMBDA a : getPendingRewards(wjlp, a)) <= wjlp.joe + ChefPending(wjlp) + n

(* The JOE that is there or would be harvested is enough for the claims of *)
(* all accounts: each share that changes its owner is settled, and none is *)
(* paid for twice.  Exact for ACC_PRECISION 1; else divisions round, and   *)
(* _safeJoeTransfer sends no more than there is.                           *)
JoeCoversRewards == JoeCoversAllBut(0)

-----------------------------------------------------------------------------
(* What a comment says and the code does not do.                           *)

(* DefaultPool.sendCollsToActivePool (DefaultPool.sol:149-150):             *)
(* endTreasuryReward "transfers them to the default pool as an intermediary *)
(* so that it can transfer": pending WJLP reaches its trove.                *)
PendingReachesTroves == Idle => \A u \in Users : ~MovePending(wjlp, u).reverted
=============================================================================
