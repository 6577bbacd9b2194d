------------------------- MODULE TroveManagerClaims -------------------------
(***************************************************************************)
(* What a comment of the contracts says of the trove ledger, stated as a   *)
(* property of module TroveManager.  The code contradicts it for some      *)
(* tokens; the README shows how.                                           *)
(***************************************************************************)
EXTENDS TroveManager

(* _computeNewStake (TroveManager.sol:525-531): its require on              *)
(* totalStakesSnapshot is said to hold always, because a token whose        *)
(* collateral snapshot is not zero has stakes.                              *)
SnapshotHasStakes ==
  \A t \in Tokens : totalCollateralSnapshot[t] # 0 => totalStakesSnapshot[t] # 0

(* DefaultPool.sol:18-21: the pool holds what liquidations redistributed to *)
(* active troves and none has applied yet.  What the troves are told they   *)
(* have pending is then in the pool, so that applying it cannot revert.     *)
RewardsAreHeld == \A t \in Tokens : DefaultPoolCovers(t)
=============================================================================
