-------------------------------- MODULE WJLP --------------------------------
(***************************************************************************)
(* AssetWrappers/WJLP.sol: a token for LP tokens that are staked with      *)
(* MasterChef.  Who holds a wrapped token and who earns its rewards are    *)
(* apart: balances follow the pools that hold the collateral, userInfo the *)
(* account that the JOE belongs to.                                        *)
(*                                                                         *)
(* The operators take and return the contract's storage w, because the     *)
(* protocol calls several functions in one transaction.  A failed require, *)
(* or a subtraction below zero (the contract is compiled with 0.8.7), sets *)
(* w.reverted for good.  JOE that was paid out is not followed.            *)
(***************************************************************************)
EXTENDS Integers

CONSTANTS Users,          \* borrowers, and whoever else wraps
          ACC_PRECISION   \* the 1e12 of accJoePerShare

Pools == {"activePool", "defaultPool", "stabilityPool", "collSurplusPool"}
Accounts == Users \cup Pools \cup {"TML", "TMR", "treasury"}

ASSUME WrapperAssumption ==
  /\ Users \cap (Pools \cup {"TML", "TMR", "treasury"}) = {}
  /\ ACC_PRECISION \in Nat \ {0}

UserInfo == [amount : Nat, rewardDebt : Nat, unclaimedJOEReward : Nat, amountInYeti : Nat]

NoInfo == [amount |-> 0, rewardDebt |-> 0, unclaimedJOEReward |-> 0, amountInYeti |-> 0]

Deployed ==
  [userInfo |-> [a \in Accounts |-> NoInfo], balances |-> [a \in Accounts |-> 0],
   staked |-> 0, chefDebt |-> 0, accJoePerShare |-> 0, joe |-> 0, reverted |-> FALSE]

Earned(w, shares) == (shares * w.accJoePerShare) \div ACC_PRECISION
-----------------------------------------------------------------------------
(* MasterChef: a call pays what the stake earned since the last one.       *)

ChefPending(w) == Earned(w, w.staked) - w.chefDebt

ChefDeposit(w, n) ==
  [w EXCEPT !.joe = @ + ChefPending(w), !.staked = @ + n,
            !.chefDebt = Earned(w, w.staked + n)]

ChefWithdraw(w, n) ==
  [w EXCEPT !.joe = @ + ChefPending(w), !.staked = @ - n,
            !.chefDebt = Earned(w, w.staked - n),
            !.reverted = @ \/ n > w.staked]
-----------------------------------------------------------------------------
(* Rewards.                                                                *)

Pending(w, a) == Earned(w, w.userInfo[a].amount) - w.userInfo[a].rewardDebt

\* Mutant: the debt is computed from the amount before the change.
DebtOfOldAmount(w, a, change) ==
  LET user == w.userInfo[a]
      amount == user.amount + change
  IN  [w EXCEPT
        !.userInfo[a].unclaimedJOEReward = IF user.amount # 0 THEN Pending(w, a) ELSE @,
        !.userInfo[a].amount = amount,
        !.userInfo[a].rewardDebt = Earned(w, user.amount),
        !.reverted = @ \/ amount < 0]

\* Mutant: 0.7 arithmetic, without the check for an underflow.
UncheckedUpdate(w, a, change) ==
  LET user == w.userInfo[a]
      amount == user.amount + change
  IN  [w EXCEPT
        !.userInfo[a].unclaimedJOEReward = IF user.amount # 0 THEN Pending(w, a) ELSE @,
        !.userInfo[a].amount = amount,
        !.userInfo[a].rewardDebt = Earned(w, amount)]

\* _userUpdate, its _amount and _isDeposit as one signed change.  What was
\* unclaimed before is overwritten.
UserUpdate(w, a, change) ==
  LET user == w.userInfo[a]
      amount == user.amount + change
  IN  [w EXCEPT
        !.userInfo[a].unclaimedJOEReward = IF user.amount # 0 THEN Pending(w, a) ELSE @,
        !.userInfo[a].amount = amount,
        !.userInfo[a].rewardDebt = Earned(w, amount),
        !.reverted = @ \/ amount < 0]

\* What getPendingRewards shows.
getPendingRewards(w, a) == w.userInfo[a].unclaimedJOEReward + Pending(w, a)

\* _sendJoeReward and _safeJoeTransfer, which sends what there is.
SendJoeReward(w, a) ==
  LET u == UserUpdate(ChefWithdraw(w, 0), a, 0)
      send == u.userInfo[a].unclaimedJOEReward
  IN  [u EXCEPT !.userInfo[a].unclaimedJOEReward = 0,
                !.joe = IF send > @ THEN 0 ELSE @ - send]

ChangeInYeti(w, a, change) ==
  [w EXCEPT !.userInfo[a].amountInYeti = @ + change,
            !.reverted = @ \/ w.userInfo[a].amountInYeti + change < 0]
-----------------------------------------------------------------------------
(* The ERC20 part.                                                         *)

Mint(w, a, n) == [w EXCEPT !.balances[a] = @ + n]
Burn(w, a, n) == [w EXCEPT !.balances[a] = @ - n, !.reverted = @ \/ n > w.balances[a]]
Move(w, from, to, n) == Mint(Burn(w, from, n), to, n)

\* transfer.  The check for the pools reads a memory copy of userInfo; the
\* increase of amountInYeti that follows it is made on the copy and lost.
transfer(w, sender, to, n) ==
  LET info == w.userInfo[sender]
      checked == /\ sender \in {"activePool", "defaultPool"}
                 /\ to \notin {"stabilityPool", "defaultPool", "collSurplusPool"}
      moved == Move(w, sender, to, n)
  IN  [moved EXCEPT !.reverted = @ \/ (checked /\ info.amount - info.amountInYeti < n)]
-----------------------------------------------------------------------------
(* Wrapping, unwrapping and changes of the rewards' owner.                 *)

wrap(w, n, to, rewardRecipient) ==
  LET minted == Mint(UserUpdate(ChefDeposit(w, n), rewardRecipient, n), to, n)
  IN  IF to = "activePool" THEN ChangeInYeti(minted, rewardRecipient, n) ELSE minted

unwrap(w, sender, n) ==
  Burn(ChefWithdraw(UserUpdate(SendJoeReward(w, sender), sender, -n), n), sender, n)

unwrapFor(w, pool, from, n) ==
  LET settled == ChangeInYeti(UserUpdate(SendJoeReward(w, from), from, -n), from, -n)
  IN  Burn(ChefWithdraw(settled, n), pool, n)

\* _updateReward, behind updateReward and endTreasuryReward.
updateReward(w, from, to, n) ==
  LET taken == ChangeInYeti(UserUpdate(SendJoeReward(w, from), from, -n), from, -n)
  IN  ChangeInYeti(UserUpdate(taken, to, n), to, n)
=============================================================================
