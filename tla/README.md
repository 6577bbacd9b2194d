# Yeti Finance: specifications, model checking and proofs

Yeti Finance lets a borrower lock several kinds of collateral in one *trove* and
borrow YUSD against their joint, risk-weighted value. It descends from Liquity:
a Stability Pool pays for liquidations, what it cannot pay for is redistributed
to the other troves, and anyone may redeem YUSD for collateral. The contracts
are in `src/packages/contracts/contracts/`; paths below are relative to it, those
of JavaScript files to `src/packages/contracts/`.

This directory has TLA+ specifications of the contracts, TLC configurations
that check them on small instances, and TLAPS proofs of what matters most for
every instance. Every operation of a contract is one transaction: it happens at
once or reverts. What makes the system hard is therefore not preemption but

- **loops that write storage as they go** (a batch of liquidations, a
  redemption): each step reads what the earlier ones left, local variables are
  copies of storage, and the totals are settled in the last step;
- **lazy accounting**: redistributions, Stability Pool losses and rewards touch
  a product or a sum, and each trove or deposit reads its share from snapshots
  taken at its own last call, scaled and rounded;
- **stale orderings and hints**: the list of troves is ordered by ratios of the
  past, and hints are computed off chain;
- **two oracles** that fail, freeze and recover independently;
- **memories that fade**: a base rate and deposit fees that decay between calls
  nobody schedules;
- **a deployment script** that is not one transaction: it may die at any await,
  leave transactions behind and be started again;
- **long sequences of legal calls** by different actors in orders no test has.

## 1. The system's parts

| Part | State | Operations | What makes it correct |
|---|---|---|---|
| Trove ledger: `BorrowerOperations`, `TroveManager`, `TroveManagerLiquidations`, `TroveManagerRedemptions` | troves (status, debt, collateral, stakes), reward snapshots, `L_Coll`/`L_YUSDDebt`, system snapshots | open, adjust (add, withdraw, borrow, repay, unlever), close, claim surplus, updateTroves, batchLiquidateTroves, redeemCollateral, redeemCollateralSingle | YUSD in existence = debt; pools cover troves; no operation but a price or a liquidation leads into Recovery Mode; minimum debt |
| `ActivePool`, `DefaultPool`, `CollSurplusPool`, `GasPool` | collateral counters, debts, claims | transfers, made only by the ledger's handlers | each covers what is claimed from it |
| `SortedTroves`, the `TroveOwners` array | doubly linked list, array with back indexes | insert, remove, reInsert with hints; push, swap with last | sorted, complete, consistent both ways; same troves in both |
| `StabilityPool`, `YETI/CommunityIssuance` | deposits, front ends, snapshots, `P`, scale, epoch, sums `S` and `G` | provide, withdraw, register front end, offset, issue | nobody's deposit or gains change by others' calls but through an offset; solvent; snapshots always readable |
| `PriceFeed`, `Whitelist.getPrice` | status of two oracles, last good price | fetchPrice, fetchPrice_v | only live prices stored; distrust lasts until agreement |
| Base rate and fees (`TroveManager`, `TroveManagerRedemptions`) | base rate, its clock | decay when borrowing, rise and fee when redeeming | decay keeps pace with time whoever calls; redemptions stay possible |
| `PriceCurves/ThreePieceWiseLinearPriceCurve` | fee curve, last fee and time | getFeeAndUpdate, adjustParams, setDecayTime, setFeeCapAndTime | a fee once charged is forgotten no faster than over the decay time |
| `Dependencies/Whitelist` | parameters and indices of the collaterals | add, deprecate, change oracle, curve, ratio | values of a collateral set |
| Wrapped assets `AssetWrappers/WJLP` (and `WAAVE`, `WBQI`) | balances, and apart from them who earns the rewards (`amount`, `amountInYeti`, `rewardDebt`) | wrap, unwrap, unwrapFor, transfer, updateReward, endTreasuryReward, claimReward | each account keeps the shares and each pool the tokens that the protocol will take from it; rewards covered by JOE |
| `YETI/sYETIToken` | shares, locks, effective balance, last sale and rebase | mint, transfer, burn, buyBack, publicBuyBack, rebase | shares are backed, their value never falls |
| `YUSDToken`, `YETIToken` | balances, allowances, permits | mint, burn, transfer, permit | supply |
| Deployment script `utils/mainnetDeploymentHelpers.js`, `mainnetDeployment/` | file of what is deployed, ownership on chain | deploy or load, connect unless connected | no half connected system; reruns get on |
| LP rewards, lockups, treasury, routers, proxies, `HintHelpers`, oracles of LP tokens | small or none | | |

Interactions. `BorrowerOperations` and the two `TroveManager*` satellites are
the only writers of troves; they call `SortedTroves` after every change of a
ratio, the pools for every transfer, and `StabilityPool.offset` once per batch.
`StabilityPool.withdrawFromSP` reads the ledger (no withdrawal while the last
trove of the list can be liquidated). All read prices through `Whitelist`,
which reads `PriceFeed` through its view function. Wrapped collateral is a token
of its own: the pools hold it, and each handler that moves it also tells the
wrapper who earns its rewards from then on, in calls of their own. Redemptions and
borrowings move the base rate before the fee is computed from it; deposits ask
the price curve of each collateral, through `Whitelist`, and change what it
remembers. All fees end up in `sYETIToken`, which sells the YUSD and spreads the
YETI it gets over its shares.

## 2. The modules

    LiquityBase ── TroveManager ──┬─ TroveManagerClaims ── MC_TroveManager
                                  └─ TroveManagerProofs
    SortedList   (abstract)
    SortedTroves ── TroveRegistry ─┬─ MC_TroveRegistry   (implements SortedList)
                                   └─ TroveRegistryProofs
    StabilityPool ─┬─ MC_StabilityPool
                   └─ StabilityPoolProofs
    PriceFeed ── PriceFeedProofs
    WJLP ── WrappedCollateral ─┬─ MC_WrappedCollateral
                               └─ WrappedCollateralProofs
    PriceCurve ── Fees ─┬─ MC_Fees
                        └─ FeesProofs
    Staking ── StakingProofs
    DeploymentScript ── Deployment
    CommonTheorems  (lemmas for most of the proof modules)

**LiquityBase** has sets of collateral as functions from tokens to amounts
(`newColls` with its parallel arrays in the code), their sums, their value in
USD and VC (value times the token's safety ratio) and the collateral ratio. Both values
are rounded down token by token before they are added up (`Whitelist.sol:361-390`). The
constant `DP` is the code's 1e18 and, to have one unit of rounding, the 10 to the power
of the token's decimals too: a price is that of `DP` units of a token.

**TroveManager** has the ledger. A trove is spread over `status`, `debt`,
`colls`, `collTokens` (the token array, which may hold tokens of amount 0) and
`stakes`, as in `Troves`. One action per operation, with these conventions:

- The guard of an action is the conjunction of the `require`s *and* of the
  SafeMath subtractions of the whole handler; if it fails the call reverts.
- `addColl`, `withdrawColl`, `withdrawYUSD`, `repayYUSD`, `adjustTrove` and
  `withdrawCollUnleverUp` all are `_adjustTrove` with other arguments, hence one
  action `AdjustTrove`; `closeTrove` and `closeTroveUnlever` are `CloseTrove`.
- A batch of liquidations is `BeginLiquidation`, then any number of
  `LiquidateNormalMode`/`LiquidateRecoveryMode` in the order the caller likes,
  then `FinishLiquidation`; a redemption is `BeginRedemption`, then
  `RedeemFromTrove`, `SkipTrove`, `CancelPartial`, then `FinishRedemption`.
  `tx` holds the local variables between the steps. No other action is enabled
  until `tx` is `NoTx` again: this is one transaction, seen inside. So a batch
  that ends up reverting is a behaviour that stops before its last step, which
  is why the ledger's runs do not check for deadlock.
- The list is a sequence here, each trove at any place that the values of
  `oldICR` allow (ties are free). The linked list behind it is in SortedTroves.
- `circulating` is all YUSD outside `GasPool` and `StabilityPool`; `outside` all
  collateral outside the three pools. Fees and prices are drawn from sets; how the
  fees come about is module Fees.

**TroveManagerClaims** states what two comments of the code say and the code does
not do (section 4).

**SortedTroves** has the linked list, its storage as a record passed through
operators because `reInsert` removes and inserts in one call, and the search
with hints as recursive functions. **TroveRegistry** adds the `TroveOwners`
array and makes the actions: opening and closing change both. **SortedList** is
what a client may rely on: a ranking in which placing one trove does not
reorder the others.

**StabilityPool** has the pool with its exact arithmetic, floor divisions and
error feedback included, but `DECIMAL_PRECISION` 16 and `SCALE_FACTOR` 4 in
the place of 1e18 and 1e9. The YETI issued since the last call, and the
collateral that comes with a debt to offset, are inputs.

**PriceFeed** has the five cases of `fetchPrice` as functions from the answers
of the oracles to a status and a price, and `fetchPrice_v` translated on its
own, so that comparing them is not comparing a definition with itself. The
aggregator's answers have decimals that may change between rounds; ages count
up to just past `TIMEOUT` and stop, since the code only compares them with it.

**WJLP** has the wrapper as operators over its storage, because one transaction
of the protocol calls it several times: `updateReward(w, from, to, n)` is the
storage after the call. MasterChef is external: a call pays what the stake
earned since the last one. A failed `require`, or a subtraction that underflows
(this contract has checked arithmetic), sets `reverted`; an action of the module
above is enabled if its whole chain of calls leaves it unset.

**WrappedCollateral** has every path of the protocol that moves WJLP or changes
its rewards' owner, with the wrapper's storage in one variable and the
protocol's books (`coll`, `surplus`, `pending`, `gains`) beside it. What the ledger
decides from prices and debts, it takes as inputs: any trove may be liquidated
or redeemed from, with any lot and any split. So it has more behaviours than the
ledger would allow, and what holds in it holds for every price. Outsiders are as free
as the contract leaves them: `WrapOwn` is `wrap` for any account with any account as
the reward recipient, `Transfer` sends to any account, pools and managers included
(`WJLP.sol:147-170`, `203-212`), and `UnwrapOwn` is `unwrap`, which looks at `amount`
only. Batches and redemptions run step by step as in TroveManager. `MovePending` and `SendGains`
are the chains of three and two calls by which `DefaultPool` and `StabilityPool`
let go of WJLP. `transferFrom` is not an action: a user's is a `transfer`, and no
contract calls it for wrapped tokens. No contract calls `unwrap` either; the treasury's
owner could send on WJLP that somebody sent there, which is left out.

**PriceCurve** has the arithmetic of one curve over a record of its storage;
**Fees** the two fees with a memory, the base rate and the deposit fees. Its actions are
the parts of the handlers that compute a fee: `Borrow` is
`decayBaseRateFromBorrowing`, `Redeem` the raise of the base rate and the fee
computed from the raised rate, `Deposit` one turn of the loop of
`_getTotalVariableDepositFee`, which asks one curve. `ChangePriceCurve` does not let two
collaterals share a curve, since the deployment gives each its own
(`utils/deploymentHelpers.js:672-674`); if they shared one, they would share its
memory. A redemption raises the base rate by ten times the redeemed share over
`BETA`, because of the 10e18 on line 660. `_decPow` is translated with its loop and
its rounding. `decayed` and `remembered` are history variables: the minutes of
decay so far, and any one fee paid earlier.

**Staking** has sYETIToken. The three delays are kept as the time left of them, so
that nothing grows with the clock. The router is external: it reports having
sold what it was allowed to and gives any YETI; it may or may not take the YUSD
(`dummyUniV2Router` does not). A plain transfer of YETI to the contract is an
action of its own, since `rebase` counts it.

**DeploymentScript** is the script as data: contracts, arguments and calls in the order
of `mainnetDeploy`. **Deployment** is the machine that runs it: each step checks
whether it is done already (the file for a deployment, the factory for the pair,
the renounced owner for a call), sends its transaction and waits for it, with an
await between each. `sYETI.setAddresses` does not renounce (`YETI/sYETIToken.sol:74-79`), so
for it the script would try again in every run (`IsOwnershipRenounced`). Transactions are mined in the order of their nonces, those
of a dead process too. A contract is its name with the number of its deployment,
so that one deployed in vain differs from the one in the file.

## 3. What is checked

Amounts are scaled down so that a collateral unit at price `DP` is worth one YUSD;
`DP`, here 100, stands for 100%. Supplies are bounded by `InitialOutside`, batches by
`MaxLiquidations`, calls to the Stability Pool by `MaxCalls`. All borrowers,
ids and users are interchangeable and symmetry is used for them only.

| Run | States | Question |
|---|---|---|
| Liquidations | 112,264 | Do YUSD, debt, collateral and stakes add up, is what each pool owes in it, at every step of a batch, and are the batch's copies of the system totals right? |
| Operations | 231,109 | Can a borrower's operation or a redemption lead into Recovery Mode, make it worse there, or hurt another trove? |
| Registry | 2,353 | Does the linked list with hints implement a sorted list, and does the array follow? |
| StabilityPool | 312,115 | Can every deposit be read and paid, through scales and epochs? |
| PriceFeed | 181,440 | Does the five-status machine store only what it may trust? |
| WrappedCollateral | 405,839 | Do the pools, the owners and the treasury keep the wrapped collateral and the shares of its rewards that later calls will take, whatever outsiders do? |
| Fees | 1,975,428 | Can calls at the wrong moments stop or hasten the decay of the base rate, shut redemptions out, or make a curve forget a fee? |
| Staking | 944,196 | Can every staker leave with what its shares are worth, and does nobody's call cost another anything? |
| Deployment | 133,581 | Do reruns of the script after crashes get on, without ever connecting a contract to a stray one? |

Three more runs, PendingWrapped, StaleSnapshot and NewTokenRewards, end in a
violation (section 4).

**Liquidations**: one token, three borrowers, a price that halves and doubles, Stability
Pool deposits of 10, 15 or more against debts of 11, so that an offset is full,
partial or absent; troves end under 100%, between 100% and 110%, and between
110% and the TCR, so that all three kinds of Recovery Mode liquidation and the
return to Normal Mode inside a batch occur. `GasPoolCoversTroves` and
`PoolsCoverClaims` (ActivePool, DefaultPool and CollSurplusPool) say that each pool
can pay all who may ask, during a batch too; `BatchTracksSystem` that the copies
the loop works with are what the storage will show, and that what it means to
offset is in the StabilityPool. The copy of the collateral value is exact where no
value is rounded, as in this run (its prices are 100 and 200); else each trove that the batch closes may add
four units too much or one too little for each rounded token. `TypeOK` includes that no counter ever goes under
zero; `CollateralConserved` says that no collateral gets lost between the pools,
`TotalsMatchTroves` that the debts and the stakes of the troves sum up to
ActivePool's debt and `totalStakes`. One batch is enough: another starts from a state
of the same kind. `PoolsCoverClaims` is an inequality because divisions leave dust.
There is one token in this run, and `PoolsCoverClaims` needs that: with two, ActivePool
and DefaultPool need not cover what the troves may claim (section 4). Section 5 has the
two conditions under which they do for any tokens; the other invariants hold for
any tokens without any.

**Operations**: two borrowers, a borrowing fee of 1 per loan, troves of 12 and 16
units, one redemption of 12 against net debts of 10 and 11, so that one takes
part of a trove, all of it, or one and part of the next, is cancelled because
too little would be left, and skips troves that fell under MCR.
`SystemRatioIsKept` is about whole transactions at unchanged prices: in Normal
Mode the TCR does not fall below CCR, in Recovery Mode it does not fall. A
redemption that closes a trove is exempt: if the list is stale, a trove better
collateralized than the system may be redeemed in full, and the surplus of its
collateral leaves with it. The prices are 105 and 200, and at the first values are
rounded down, that of a trove on its own and that of all collateral together; the checks of
`closeTrove` and of adjustments subtract one such value from the other, which may be
a unit off: there are other prices (125) at which closing a trove leaves the TCR a unit of
rounding under CCR, on chain 1e-18 YUSD. `RedemptionMeetsOpenTroves` is about the loop reading
the next trove before it changes the list. Deposit fees are 0 here: with them
`SystemRatioIsKept` does not hold (section 4).

**Registry**: five owners for four places, ICRs 0 to 3 with ties (0 is
refused), every pair of hints, right, wrong, absent or null.
`RefinesSortedList` is the refinement with the ranking read from the head;
`ListHoldsOpen` says that the walk from the tail is the same one and that list and
open troves agree; `SearchFindsPlace` that for every ICR and hints, not only
those just passed, the search finds a valid place.

**StabilityPool**: three users of which any may become a front end, deposits of
20 and 56, offsets of 7, of 37 and of the whole pool. In five calls `P` is
scaled up twice or the pool emptied and filled again. `SolventUpToRounding`, for
YUSD, collateral and YETI, allows one unit per call, which is what floor
divisions cost in these instances; at this scale a unit is enormous, on chain it
is a wei.

**PriceFeed**: prices 100, 200 and 215, decimals 1 and 3 around the target's 2, either
oracle failing at any time. 200 is twice 100, 215 is more than 5% from either, and with one
decimal an oracle posts 210 for it, which is exactly 5% from 200: a price need not
survive being posted with fewer decimals (`PowerOf10`, `_scalePriceByDigits`).
`DeviationAssumption` holds the accepted change from one round to the next to at
most a half, the code's value.

**WrappedCollateral**: two users, amounts of 1 and 2, at most `MaxStaked` = 3 JLP
wrapped at a time, one rise of `accJoePerShare`, and gas compensation of one half,
so that a liquidation may pay its caller, both pools and the owner's surplus at
once. A user may wrap for, or send to, itself, the other, `ActivePool` (where `wrap` and
`transfer` do more), `StabilityPool` or `CollSurplusPool`, and may name as reward recipient
a user, the treasury, a manager or `DefaultPool`: only with the last can pending WJLP
be released at all (section 4), and the paths that release it are explored in those
states. What outsiders add makes the protocol's accounts richer than its books, so these
properties are bounds, not equations, in whatever can be added to:

- `TreasuryEarnsForPools` and `HoldersMatchEarners`: the treasury and the two managers have
  the shares, each pool has the tokens, that later calls will take from them, between
  the steps of a transaction too; all tokens and all shares together are exactly the JLP staked.
  Shares are meant in both fields (`Backed`): `amount` earns and is subtracted
  from, `amountInYeti` is subtracted from with it.
- `OwnersKeepTheirShares` is an action property about every user's `Cover`, the shares it
  has beyond what its trove and its surplus need: neither field loses any of it in any
  step but the owner's own `unwrap`. That exception is the code's: `unwrap`
  (`WJLP.sol:173-188`) does not look at `amountInYeti`. An owner to whom somebody sent WJLP
  can unwrap it, with the shares of its trove; the trove then earns nothing and its
  withdrawal or liquidation reverts, until somebody wraps with that owner as recipient.
- `JoeCoversRewards`: no change of owner pays twice. With `ACC_PRECISION` 1 no
  reward is rounded; `JoeAlwaysCoversRewards` in section 5 has the bound for any precision.
  That nobody's reward gets lost is another matter, and false (`WJLP.sol:329`, section 4).

**Fees**: percentages in hundredths, a decay of 10% per minute, two ticks to a
minute, and a clock from `DeployTime` to `MaxTime` = 5, which is longer than the
decay time of 3 or 2 and crosses two minutes, so that both branches of the power's
first step are taken (the cap of its exponent, a thousand years, is not). One collateral and two curves, so that
its curve can be changed back and forth; a curve that passes 100% in its third
piece (its slope is steeper than any used; a shallow one does not reach the cap
in hundredths). `DecayKeepsPace` bounds the minutes of decay by the time on
both sides; `RedemptionsStayOpen` says that no rate redemptions leave behind
makes the next fee the whole amount; `FeeMemoryLasts` compares what a
curve demands now with any one fee paid before. In the first fourteen days a
depositor pays at most 1% (`BorrowerOperations.sol:1010`), but the curve
remembers the fee it computed; the latter is what the model has.

**Staking**: two stakers with 9 YETI between them and the router, mints of 2 and 3,
sales of 2 YUSD for 1 or 2 YETI, gifts of 1, half of the free value per rebase.
Rounding bites at once with numbers as small as these. `SharesBacked` is what
lets everybody leave; `SharePriceNeverFalls` compares the price before and after
every step, in products so that nothing is rounded. No bound on time: the
delays are times left.

**Deployment**: two crashes at any await and one outage of Chainlink. One crash is
enough for a run to look at the owner before its predecessor's call is mined, or
to leave a contract in vain; with two, a rerun of a rerun meets two stray
transactions. `WiringIsWhole` says that what the file
records never refers to a contract that is not in it. `GetsAsFarAsTroveManager`
is liveness, and as strong as the script allows (section 4).

*Fairness and liveness.* Nothing in the contracts acts by itself and no caller is
obliged to: a liquidation, a redemption or a fetch happens when somebody finds
it worth the gas. So no property of theirs assumes fairness; what can be said is
what a call achieves when it comes. The deployment is different: the script is a
process that goes on by itself, and Deployment assumes weak fairness of
`ScriptStep` (the event loop continues after each await), of `Mine` (the node
mines what it accepted; `waitForTransaction` relies on it), of `Start` (the
operator starts again what did not end, which is what the file is for) and of
`ChainlinkResumes` (`PriceFeed.setAddresses` requires a live Chainlink, and no
script can do without). `Crash` and `ChainlinkStops` have none.

*Mutants.* Beside many definitions stands a second one, marked `Mutant`, with a
bug one could plausibly write there (a total not updated, an index kept, a check
left out). For each property, PROJECT.json names one that breaks it under the
same run: the run would have seen that bug.

## 4. Where the code and its comments disagree

Each of these is a run that ends in a violation.

- **StaleSnapshot** (`TroveManager.sol:525-531`). The comment holds a token's
  `totalStakesSnapshot` to be non-zero whenever its collateral snapshot is. The
  snapshots are per token, troves close: after the liquidation of the only trove
  that has a token, its collateral can be in the pools with no stakes. The
  `require` then refuses everyone who brings that token.
- **PendingWrapped** (`DefaultPool.sol:149-150`). To release pending WJLP,
  `DefaultPool` first takes the rewards over from the treasury "so that it can
  transfer". That call counts them in `amountInYeti` as well, and the transfer
  requires `amount - amountInYeti` to cover what it sends: it reverts, and so does
  everything that applies pending rewards to that trove, its liquidation
  included. It works only for as much as somebody wrapped naming `DefaultPool` as
  the reward recipient.
- **NewTokenRewards** (`TroveManager.sol:438-454`). `hasPendingRewards` compares the
  snapshots of the tokens a trove has at the moment, where
  `_getPendingCollRewards` and `_updateTroveRewardSnapshots` go over all tokens. A
  trove with one token is open while another token is redistributed to others. When
  it then adds that token, there is nothing to apply, so its snapshot of the token
  stays where it was, and the new stake earns a share of the redistribution before
  it. DefaultPool does not hold that share (`DefaultPool.sol:18-19` says what it
  holds): the troves are told of more than there is, and the last of them to
  apply its rewards reverts in whatever it does, its own liquidation included.
  Three borrowers, two tokens and one liquidation are enough. `StakeGrowsBehind` in
  section 5 is this.

Noted while modelling, without a run:

- `ActivePool.sol:184-197`: `sendCollateralsUnwrap` sends a wrapped token out by
  `unwrapFor` and does not decrease `poolColl`, so the counter exceeds the balance,
  and with it the system's value; the comment on line 122 expects the contrary. For
  this reason the ledger's runs have no wrapped tokens (`Wrapped` is empty; the
  definition `Unwrapped` follows the code).
- `WJLP.sol:329`: `_userUpdate` assigns `unclaimedJOEReward` where it should add to
  it, so rewards recorded by a `wrap` are overwritten by the next update, a claim
  included; lines 145-146 promise them "any time" and `getPendingRewards` (281-287)
  shows them.
- `ThreePieceWiseLinearPriceCurve.sol:37-39` wants f2 to meet f3 at the second cutoff,
  but line 64 adds `b2` also when it is negative, and `b2Negative` and `b3Negative`
  are never cleared: parameters set twice give another curve than set once.
  `Adjusted` follows the code, and no property says that the pieces meet.
- The deployment script always stops at `troveManagerLiquidations.setAddresses`: the
  contract takes 13 addresses (`TroveManagerLiquidations.sol:109-123`), the script
  passes 12 and the overrides (`utils/mainnetDeploymentHelpers.js:293-307`), which
  the client refuses without sending anything; `defaultPool` would be next (4 and 3).
  `GetsAsFarAsTroveManager` says that this is the only thing that stops it. Beyond:
  `setYETITokenAddress` of the lockup factory is guarded by another contract's owner,
  and `Whitelist.setAddresses` is never called.
- The script reads `OUTPUT_FILE` and writes `TO_SAVE_FILENAME`
  (`utils/mainnetDeploymentHelpers.js:13-30`). Deployment assumes that the operator carries the
  file over before each rerun; otherwise each run deploys everything anew. The
  file's writing is not atomic either; the model takes it as if it were.
- `TroveManager.sol:484` "... and set their stake to 0": a trove that withdraws a
  token in full keeps its stake in it, also once closed, because `_removeStake`
  and `_updateStakeAndTotalStakes` loop over the tokens the trove still holds.
  `totalStakes` counts it (`TotalsMatchTroves` sums over all borrowers), and
  its share of later redistributions goes to nobody.
- `ActivePool.sol:16` "holds the all collateral ... for all active troves": it may hold
  less. A trove with one token swaps it for another and keeps its stake in the first, as
  above; the first is then redistributed. `hasPendingRewards`
  (`TroveManager.sol:445-452`) looks only at the tokens the trove has now, so nothing is
  moved out of DefaultPool; but a redemption of that trove reads it through
  `getCurrentTroveState`, which counts rewards in all tokens
  (`TroveManagerRedemptions.sol:320`, `520`), and sends the reward as surplus out of ActivePool,
  that is, out of what other troves have there. Found by TLC while an invariant for ActivePool was
  looked for; `RedeemsOverlooked` in section 5 is this, and needs two tokens.
- `BorrowerOperations.sol:1280` "The adjustment won't pull the TCR below CCR": the
  deposit fee is minted and owed (792-799), but not in the TCR that an adjustment
  is checked with (1398-1412). Hence no deposit fee in run Operations.
- `PriceFeed.sol:53` calls `lastGoodPrice` the last one seen by the protocol, which
  reads through `fetchPrice_v` and stores nothing; the price to fall back to is
  the one some outside caller of `fetchPrice` last stored.
- `TroveManagerRedemptions.sol:538-541`: a partial redemption that is cancelled has
  already given its lot's rewards to the redemption manager, and nothing gives
  them back. The trove's owner can then no longer withdraw all of its WJLP.
  Variable `stranded` counts them.
- `WJLP.sol:190-212`: the increase of `amountInYeti` in `transfer` and `transferFrom` is
  made on a memory copy and lost. WJLP sent to another wallet cannot be unwrapped
  there, because the rewards stay with the sender; unless the receiver has a trove with
  WJLP: `unwrap` (173-188) then takes the shares of that trove, `amountInYeti` is left as it
  is, and the trove can be neither closed nor liquidated. `UnwrapsCollateral` in section 5.
- `StabilityPool.sol:579-583` wants the rounding error of deposits to favour the
  pool. One offset does; the correction in the next may give back more, so that
  the deposits' sum exceeds `totalYUSDDeposits` by a unit (deposit 56, offsets 7
  and 37, with precision 16). Hence the slack in `SolventUpToRounding`.
- `StabilityPool.sol:863` says a front end's stake is the sum of its depositors'
  deposits; it rounds on its own, and a full withdrawal may need one wei more
  than the stake has. The call then reverts, and a smaller one works.
- `BorrowerOperations.sol:926-933`: `closeTroveUnlever` moves the collateral out of
  the pool before the TCR is computed from the pool, and subtracts it again;
  `ClosingVC` follows the code.
- `PriceFeed.sol:284` takes a resumed Chainlink's price when Tellor is broken
  without comparing it to the previous round; `JumpNeedsSecondOracle` has the
  exception. The previous round is read with the current round's decimals
  (771-776), and only consecutive rounds are compared, so a jump between two
  fetches is not seen. The comment on line 663 says 3%, the constant is 5%.
- `TroveManagerRedemptions.sol:660` divides by 10e18.

## 5. What is proved

All proofs are for every value of the constants that satisfies the named
assumptions (`ScaleAssumption`, `InputAssumption`, `NullIsNoId`, ...).

**TroveManagerProofs.** `LedgerTypes` and `SupplyAlwaysMatchesDebt`: at every
step of every transaction, `circulating + gasPool + spYUSD = activeDebt +
defaultDebt`, and none is negative. The equation is not inductive by itself.
`LedgerInv` adds the types of the counters and the local variables of the
running transaction, and for a redemption that what it has redeemed and has
left to redeem is at most `circulating` — so that the burn in its last step,
many steps after the check, cannot underflow. There is one lemma per action.
The sums over tokens in it (values, pending rewards) are never expanded: what
the proof needs of them is what SafeMath checks, and the guards say so.

In the same module, `MinimumDebtAlways` and `GasPoolAlwaysCoversTroves`, on top
of `LedgerInv` and with finitely many borrowers (`BorrowersAssumption`). Neither is
inductive alone: a redemption does not ask whether the trove it has come to is open,
and burning the reserve of a closed one would break the second. `ReservesInv` adds
that a trove which is not open owes nothing (`ClosedOwesNothing`); then either there
is nothing to redeem from it, or the reserve is nothing. Three lemmas stand for what
a step may do (`QuietReserves`, `DebtReserves`, `CloseReserves`) and each action is
an instance of one; only `OpenTrove` and the end of a batch have proofs of their own.

The second half of the module is about every variable of the ledger at once, for any
finite sets of tokens and borrowers. It has two more invariants, one on top of the other.

- `AllInv` is `LedgerInv`, `ReservesInv` and `TypesInv`: the types of everything else,
  of the local variables of a batch and a redemption too; that snapshots never
  exceed the sums they were taken from (`SnapshotsBehind`), without which a pending
  reward could be negative; and that the list has each open trove once and no other
  (`ListInv`). `TypesAlways` and `RedemptionsMeetOpenTroves` follow. The second needs the list: the trove before the
  current one is read first, the current one is then moved or removed, and
  `Without` and `InsertAt` keep all the others (`RemoveIs`, `InsertIs`).
- `TotalsInv` says that ActivePool's debt, `totalStakes` and CollSurplusPool's
  collateral are sums over the borrowers, that collateral is conserved, and
  `BatchTracksDebt`. `TotalsAlwaysMatch`, `CollateralAlwaysConserved`,
  `SurplusAlwaysCovered` and `BatchAlwaysTracksDebt` are its parts. A step changes
  at most one trove, so each sum changes by one term (`DebtMoves`, `UpdateStakeTotal`,
  `SurplusMoves`) or not at all; there is one lemma per action. `InFlightDebt` and
  `InFlightSurplus` stand for what a batch or a redemption has taken from the troves
  and the pools have yet to be told.

The third part is about what the pools hold.

- `BatchAlwaysTracksSystem`: the drift between a batch's copy of the collateral value and
  the value that will be left is bounded per trove closed (`BatchVCInv`, which counts them
  by the gas reserves set apart, `GasCompensation` being positive). A value is a sum of
  one floor division per token, and that a trove's parts add up again is wrong by one unit
  for each split and rounded token.
- `OnlyRedemptionsOverdraw` is an action property: `Slack(t)`, what ActivePool has of a token
  beyond the troves' collateral and what is in flight, shrinks in no step but a redemption
  against a trove whose rewards `hasPendingRewards` overlooks (`RedeemsOverlooked`).
  `ActivePoolAlwaysCovers` follows, and `SingleTokenAlwaysCovered` needs no hypothesis: an
  open trove has collateral, and names it (`CollsNamed`), so with one token nothing is overlooked.
- `DefaultPoolAlwaysCovers`: the invariant is `ClaimsInv`. Stakes times the distance of the
  snapshots from the sums, and the error that the next redistribution will feed back, are at
  most `DP` times what DefaultPool has: token by token for the collateral, but summed over
  the tokens for the YUSD, whose debt it keeps as one number. A redistribution adds to both
  sides the same but for what its floor division leaves for the next; applied rewards take no
  more from the pool than they do from the claims, since they are rounded down.
  The one thing that breaks it is a stake that grows while its snapshot is behind
  (`StakeGrowsBehind`). With two tokens that is NewTokenRewards. With one it takes an amount of
  collateral that rounds to nothing per unit staked when its debt does not, since
  `hasPendingRewards` compares collateral only.
- `PoolsAlwaysCoverClaims` is `PoolsCoverClaims` in every behaviour without these two events.
  Both are hypotheses of the theorem because the code rules out neither; every liquidation,
  opening, adjustment, closing and redemption that is not one of them is covered. TLC
  checked the invariants under them on the complete state spaces of Liquidations and
  Operations before the proof.
- `RedemptionsNeverHurt` is `RedemptionNeverHurts` for any number of tokens, each of whose
  values is rounded down in USD and in VC (`Whitelist.sol:370`, `389`). A trove that is
  redeemed from is worth its debt, and more (`WorthItsDebt`): its ICR is at least the MCR. What is cut
  for a lot is worth the lot, but for a unit per token (`CutWorth`, `SingleCutWorth`), and the VC
  falls by at most `r` hundredths of that, but for two roundings per token (`VCMinus`), where
  `r` bounds the safety ratios (`RatiosUpTo`). What the trove owes in all falls by the lot. As long as no
  more VC leaves than the MCR times the lot, the quotient does not fall (`RatioKept`,
  `ICRGrows`); the rewards applied on the way only change places
  (`PendingDebtMoves`, for which no stake may grow behind its snapshots); and every
  other trove is as it was (`ICRStays`). The roundings fit between `r` and the MCR unless the
  lot is `Dust(r, lot)`, the theorem's other hypothesis: for `r` = 100, no ratio above one, that
  is a lot of at most 30 units, of 1e-18 YUSD each, per token. The nearer `r`
  comes to the MCR the larger the dust, and from 110 on every lot is dust; `addCollateral` and
  `changeRatio` (`Whitelist.sol:117` and `219`) admit any ratio below 1.1. The lots of Operations are all dust at
  their scale; there TLC found no trove hurt.

Where these proofs needed to know that a division does not revert, the model had
left the `require` of SafeMath out; `CanSplit` and `CanCut` are the guards that were
missing.

**TroveRegistryProofs.** `OwnersAlwaysIndexed`: the swap-with-last array holds
each open trove once, at its recorded index. The invariant adds the types; the
proof of closing splits on whether the trove that leaves is the last. It uses nothing
of the list.

Then `ListAlwaysHoldsOpen`, `SearchAlwaysFindsPlace`, `RegistryRefinesList` and
`RegistryAlwaysTyped`, for any owners, ICRs and `MaxSize`. The invariant
`RegistryInv` says that the storage is the one that a ranking determines (`IsList`:
each node's pointers are its neighbours in the ranking, every other node is empty,
the node of address 0 included), that the ranking descends and fits, and that it and
the array hold the open troves. `RegistryInv` holds in the Registry instance too.

- Each branch of `_insert` and `_remove` is a chain of assignments to single
  pointers, followed one at a time (`LinkedIs`, `UnlinkedIs`); the result is the
  storage of the ranking with a trove inserted or taken out (`InsertedList`,
  `RemovedList`).
- A position that `validInsertPosition` accepts is a place between two neighbours of
  the ranking (`ValidPlace`).
- `descendList` and `ascendList` are recursive functions along the pointers. That the
  recursion has a solution in every such storage is shown by giving it (`DescentExists`,
  `AscentExists`), that it ends at a valid place by looking at the last trove from
  which it would not (`DescentLands`, `AscentLands`). The list's order plays no part in
  that: it is enough to start on the right side of the ICR, which is what the hints
  are tested for.
- The ranking read by `FromHead` and, backwards, by `FromTail` is that ranking
  (`HeadChainIs`, `TailChainIs`), by the smallest place at which they would differ.

The refinement then follows call by call: an opening is `insert` of SortedList, a
closing `remove`, an update `reInsert`, and anything else leaves the ranking alone.

**StabilityPoolProofs.** `SnapshotsAlwaysBehind`, `OthersNeverTake` and
`PoolAlwaysTyped`, for any users, `DECIMAL_PRECISION` and `SCALE_FACTOR` with
`SCALE_FACTOR * SCALE_FACTOR <= DP` (1e18 and 1e9 in the code). `StabilityInv` adds to
the types and to `SnapshotsBehind` that front-end tags name registered front ends.

- `P` never falls to zero: a loss per unit is at most a whole unit (`offset` caps it at the
  deposits), a whole unit starts a new epoch, and a product that would fall
  below `SCALE_FACTOR` is scaled up first (`ScaledTwice` is why one scaling is enough).
- An offset moves the product within its scale, to the next scale or to the next epoch
  and no other way (`ProductMoves`), and the sums of the current scale only grow
  (`SumsGrow`): hence no snapshot is ever ahead, and the subtraction that reads a gain
  cannot revert.
- `OthersNeverTakeGains` is an action property about every user at once. What a user
  may withdraw shrinks only as `P` does (`ReadShrinks`), what it has gained only grows
  (`GainGrows`), whichever case of scales the reading is in before and after.

`SolventUpToRounding` bounds a sum of products by another; its slack counts
roundings of the instance, and it stays with TLC.

**PriceFeedProofs.** `GoodPriceAlwaysWasLive`, `DistrustAlwaysLasts`,
`ViewAlwaysMatchesFetch`, `PriceAlwaysTyped` and `JumpAlwaysNeedsSecondOracle`.
`EveryCase` goes through the five cases once, for the first three; only `fetchPrice` moves the stored price (`OnlyFetchMoves`); the
invariant is that `status` is one of the five. Here the model check on three
prices becomes a theorem about any timeouts, digits and deviations. `TypeOK` says that
stored and shown prices are market prices but for the digits an oracle does not have, and
positive. For the jump the
scaled prices of two rounds are compared in products: a stored price that changed by more
than the accepted deviation, which is rounded down and at most a half, was either confirmed
by the other oracle or came when that one was broken, as the code has it.

**WrappedCollateralProofs.** For any finite set of users (`CollateralAssumption`), any
amounts and precision, at every step of every transaction, and whatever outsiders wrap for
any account, send to any account or unwrap.

The first part is about `amountInYeti` and balances and depends on no check for
underflow. A lemma per function of the wrapper says by how much it changes the two;
`Touches` says what a chain of calls on behalf of one trove adds up to, and composes;
`OwnerActionKeeps` says what such a chain and the change in the books must have in common, and
each action of a trove is an instance of it. What outsiders do to the two only adds
(`OutsidersAdd`, `CoverInYetiGrows`).

The second part adds the other fields.

- `WrapperAlwaysTyped` is `TypeOK`; its invariant is `BooksInv`: the
  shares of all accounts and their tokens each sum up to the stake, and no reward debt
  passes what its shares have earned, without which a debt could exceed the next
  harvest. `Books(v, x, y)` states it with the shares off by `x` and the tokens by `y`, so
  that each of the small functions a call is made of has its own lemma and a call closes
  when `x` and `y` are zero again.
- `Lead` is `amount` less `amountInYeti` of an account. Every call of the protocol changes
  both alike, `wrap` may raise the lead and only `unwrap` lowers it (`LeadsGrow`); the treasury
  and the managers never call `unwrap`, so theirs is never negative. What is shown of `amountInYeti`
  then holds of `amount`.
- `TreasuryAlwaysEarns` and `HoldersAlwaysMatch` are parts of `HeldInv`: the leads, what the
  three contracts have in `amountInYeti`, what the four pools hold, and `TxShape` (a running
  liquidation draws nothing and a redemption sends nothing to the pools). It is
  proved from `Flows`: by how much each call changes what either manager earns for and what
  each of the four pools holds; the actions add the flows up and compare them with the
  change in the sums over the users (`HeldFromFlows`), and outsiders only add (`OutsidersHeld`).
- `OwnersAlwaysKeepTheirShares` is the action property, from the cover in `amountInYeti` and
  the lead. `OwnersAlwaysEarn` says that a user is backed, in both fields, for all its trove and
  surplus need, in every behaviour in which no owner unwraps below that with its own call
  (`UnwrapsCollateral`). The hypothesis is needed, since the code lets it (section 4).

The third part is about JOE. `JoeGap` is what the wrapper has of it, less the reward debt of
its stake, less the claims of all accounts without what their present shares earn. No
accrual moves it, since `accJoePerShare` is not in it. A share that grows or shrinks moves
it by the difference between two differences of floor quotients, one for the share and one
for the stake: at most one unit (`EarnedDiffers`), and a step of any transaction makes at
most four such changes (`RewardsLoseOnlyRounding`). `ShortfallIsRounding` says what the
gap means for the claims. `JoeAlwaysCoversRewards` adds it up, with the steps counted by a
variable beside the specification (`CountedSpec`): for any precision, the code's 1e12 among
them, the claims exceed the JOE there is by at most four units, of 1e-18 JOE, per step so far, and
by nothing where the precision is 1. `_safeJoeTransfer` pays less where the shortfall is met.

**FeesProofs.** `DecayAlwaysKeepsPace`: for any decay factor, length of a minute, set
of curves and deposits. The two inequalities are kept together with the types of the
clocks (`ClockOK`: no operation lies in the future); a call within a minute
decays by no minute and leaves the clock, any other moves the clock by less than
two minutes per minute of decay. The decay factor itself plays no part.

`FeesAlwaysTyped`, `RedemptionsAlwaysOpen` and `FeeMemoryAlwaysLasts` rest on `FeesInv`.

- `_decPow` (`DecPowLoop`, a recursive function of the loop's variables) returns
  something between 0 and 1 for any factor and number of minutes, since `decMul` of two such
  numbers is one. That the recursion has a solution is an argument about the least
  exponent for which it would not (`LoopFollowed`). A decayed rate is then at most
  the rate, and a raised one leaves the redeemer something, or `_calcRedemptionFee`
  reverts (`PayableFits`): for a `RedemptionFeeFloor` below 100%.
- That a fee is remembered is inductive only as a statement about the moment of the
  curve's last fee (`Mem`): it charged no less than was left of the remembered fee
  then, and decays no faster. `DecayTwice` says why that is enough: what is left after two
  decays, rounded twice, is no less than what is left after one over both spans. The
  owner's calls keep the last fee and only shorten what is claimed
  (`MemShortens`, `OwnerKeepsFees`).

**StakingProofs.** `SharesAlwaysBacked` and `SharePriceNeverFell`, for any users,
amounts, routers and delays. The invariant is `SharesBacked` with the types: shares
<= effective YETI <= YETI held. That minting and burning round in favour of those who
stay is a fact about one floor division each (`MintFits`, `BurnFits`, both from
`FloorFits`); the rest is linear.

A second layer, for finitely many users (`UsersAssumption`), is `TypeOK` itself, which
says that the shares of all users sum up to `totalSupply` and that nothing is negative:
`SharesAlwaysAddUp`. `StakersCanAlwaysLeave` then is the action property of that name.

**CommonTheorems** has what several of these need: floor quotients and products;
`InsertAt` and `RemoveAt` of the community modules; sums over a finite set with one
element changed, added or left out, and of two functions added pointwise; the ends of bounded sets of naturals. What
would be an induction is an argument about a smallest counterexample
(`SmallestSubset`, `SmallestNat`), since the library's induction theorems cannot be
instantiated by the provers.

Only model-checked:

- `SolventUpToRounding` of the Stability Pool: its slack counts the roundings of the
  instance, one unit per call; for all constants it grows with scales, epochs and
  depositors, and the statement would be another one.
- `SystemRatioIsKept`: it does not hold for all constants (deposit fees, section 4), and
  where it does it compares quotients before and after a chain of steps.
- Deployment: its main property is liveness, which the prover does not do; `TypeOK` and
  `WiringIsWhole` have no proof of their own yet.

## 6. What is not modelled

Whitelist administration but for `changePriceCurve`, `WAAVE` and `WBQI` (WJLP over
other staking contracts), LP rewards, the deployment scripts for other networks and
pools. Left out on purpose: access control and the one-time `setAddresses` of each
contract; ERC20 allowances and permits; exchanges behind the routers, whose results
are inputs; lockups and treasury; views that only format (`HintHelpers`);
reentrancy. 256-bit overflow reverts everywhere through SafeMath and amounts never
come near it; `sYETIToken` subtracts from `totalSupply` unchecked, and
`SharesAlwaysAddUp` shows that it never goes below zero.

## 7. Plan

1. *Done*: ledger, registry, Stability Pool, price feed, wrapped collateral, base rate
   and price curves, sYETI, the deployment script; the theorems of section 5.
2. What would add most next:
   - the fees of the ledger taken from Fees, and the deposit fee in the TCR it is
     checked with, once the code has it there;
   - a composition of `StabilityPool` with the ledger's batch, so that `offset`
     gets exactly what liquidations send;
   - `Whitelist` administration: deprecated collateral in open troves.
3. Prove more: the Stability Pool's solvency with a slack for all constants, `WiringIsWhole`.

## 8. How to run

    tlc -config Liquidations.cfg MC_TroveManager.tla     # Operations, StaleSnapshot, NewTokenRewards alike
    tlc -config Registry.cfg MC_TroveRegistry.tla
    tlc -config StabilityPool.cfg MC_StabilityPool.tla
    tlc -config PriceFeed.cfg PriceFeed.tla
    tlc -config WrappedCollateral.cfg MC_WrappedCollateral.tla   # PendingWrapped alike
    tlc -config Fees.cfg MC_Fees.tla
    tlc -config Staking.cfg Staking.tla
    tlc -config Deployment.cfg Deployment.tla
    tlapm TroveManagerProofs.tla                          # and the other *Proofs

Deadlock is checked in PriceFeed and Deployment. A ledger behaviour may stop inside a
transaction that reverts; the registry, the pool, fees and wrapped collateral stop at
their bounds.
