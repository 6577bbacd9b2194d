------------------------------ MODULE Staking ------------------------------
(***************************************************************************)
(* sYETIToken: shares of staked YETI.  Fees arrive in YUSD, which the      *)
(* owner at any time, and anybody after 169 hours without a sale, sells    *)
(* for YETI; a rebase, every 8 hours at most, lets a part of the YETI that *)
(* is not yet anybody's count for the stakers.  Minting locks all of the   *)
(* caller's shares for 69 hours.  The three delays are kept as the time    *)
(* that is left of them.  Permits and allowances are left out: transfer    *)
(* and transferFrom, burn and burnFrom are one action each.  Ratios and    *)
(* prices are fixed point with precision DP (1e18).                        *)
(***************************************************************************)
EXTENDS Integers, FiniteSets, Functions

CONSTANTS
  Users,                        \* accounts, other than the contract
  DP,                           \* 1e18
  LockTime,                     \* LOCK_TIME, 69 hours
  RebaseDelay, PublicDelay,     \* 8 hours; just over 169 hours
  PublicPercent,                \* percent of the YUSD a public sale sells
  Mints, Fees, Donations,       \* amounts minted with, received, given away
  Sales, Quotes,                \* YUSD the owner sells; YETI a router may give
  Ratios,                       \* arguments of setTransferRatio
  Supply, MaxYUSD               \* all YETI; bound of the YUSD received

ASSUME StakingAssumption ==
  /\ DP \in Nat \ {0} /\ LockTime \in Nat /\ RebaseDelay \in Nat /\ PublicDelay \in Nat
  /\ PublicPercent \in 0..100 /\ Supply \in Nat /\ MaxYUSD \in Nat
  /\ Mints \subseteq Nat /\ Fees \subseteq Nat /\ Donations \subseteq Nat
  /\ Sales \subseteq Nat \ {0} /\ Quotes \subseteq Nat /\ Ratios \subseteq 1..DP

\* A mapping's keys are finitely many at any time.
ASSUME UsersAssumption == IsFiniteSet(Users)

VARIABLES
  balance, locked,              \* users: shares, and time until lockedUntil
  totalSupply, effectiveYetiTokenBalance,
  yeti, yusd,                   \* the contract's balances
  outside,                      \* YETI of everybody else
  lastBuybackPrice, transferRatio, validRouter,
  untilRebase, untilPublic      \* time until rebase, publicBuyBack is open

shareVars == <<balance, totalSupply>>
delayVars == <<locked, untilRebase, untilPublic>>
adminVars == <<transferRatio, validRouter>>
vars == <<shareVars, delayVars, adminVars, effectiveYetiTokenBalance, yeti, yusd,
          outside, lastBuybackPrice>>

Init ==
  /\ balance = [u \in Users |-> 0] /\ locked = [u \in Users |-> 0]
  /\ totalSupply = 0 /\ effectiveYetiTokenBalance = 0
  /\ yeti = 0 /\ yusd = 0 /\ outside = Supply
  /\ lastBuybackPrice = 0 /\ transferRatio = 0 /\ validRouter = FALSE
  /\ untilRebase = 0 /\ untilPublic = 0

Passed(n) == IF n = 0 THEN 0 ELSE n - 1

Tick ==
  /\ locked' = [u \in Users |-> Passed(locked[u])]
  /\ untilRebase' = Passed(untilRebase) /\ untilPublic' = Passed(untilPublic)
  /\ UNCHANGED <<shareVars, adminVars, effectiveYetiTokenBalance, yeti, yusd,
                 outside, lastBuybackPrice>>

-----------------------------------------------------------------------------
(* Shares.                                                                 *)

\* Mutant: the shares are rounded up.
SharesRoundedUp(amount) ==
  IF totalSupply = 0 THEN amount
  ELSE (amount * totalSupply + effectiveYetiTokenBalance - 1) \div effectiveYetiTokenBalance

SharesFor(amount) ==
  IF totalSupply = 0 THEN amount ELSE (amount * totalSupply) \div effectiveYetiTokenBalance

(* mint; YETIToken.sendToSYETI moves the caller's YETI.                     *)
Mint(u, amount) ==
  /\ totalSupply = 0 \/ effectiveYetiTokenBalance # 0
  /\ amount <= outside
  /\ balance' = [balance EXCEPT ![u] = @ + SharesFor(amount)]
  /\ locked' = [locked EXCEPT ![u] = LockTime]
  /\ totalSupply' = totalSupply + SharesFor(amount)
  /\ yeti' = yeti + amount /\ outside' = outside - amount
  /\ effectiveYetiTokenBalance' = effectiveYetiTokenBalance + amount
  /\ UNCHANGED <<untilRebase, untilPublic, adminVars, yusd, lastBuybackPrice>>

\* Mutant: both balances are written from what was read before.
MovedFromCopies(from, to, shares) ==
  [[balance EXCEPT ![from] = @ - shares] EXCEPT ![to] = balance[to] + shares]

Moved(from, to, shares) ==
  IF from = to THEN balance ELSE [balance EXCEPT ![from] = @ - shares, ![to] = @ + shares]

(* _transfer.                                                               *)
Transfer(from, to, shares) ==
  /\ locked[from] = 0 /\ shares <= balance[from]
  /\ balance' = Moved(from, to, shares)
  /\ UNCHANGED <<totalSupply, delayVars, adminVars, effectiveYetiTokenBalance, yeti,
                 yusd, outside, lastBuybackPrice>>

AmountOf(shares) == (shares * effectiveYetiTokenBalance) \div totalSupply

(* _burn, to an account or back to the contract itself.  The YETI leaves    *)
(* what counts for the stakers in both cases; totalSupply is decreased      *)
(* without a check, and is protected by the ones on the amounts.            *)
Burn(from, shares, toItself) ==
  /\ locked[from] = 0 /\ totalSupply # 0
  /\ shares <= balance[from]
  /\ AmountOf(shares) <= yeti /\ AmountOf(shares) <= effectiveYetiTokenBalance
  /\ balance' = [balance EXCEPT ![from] = @ - shares]
  /\ totalSupply' = totalSupply - shares
  /\ IF toItself THEN UNCHANGED <<yeti, outside>>
     ELSE yeti' = yeti - AmountOf(shares) /\ outside' = outside + AmountOf(shares)
  /\ effectiveYetiTokenBalance' = effectiveYetiTokenBalance - AmountOf(shares)
  /\ UNCHANGED <<delayVars, adminVars, yusd, lastBuybackPrice>>

-----------------------------------------------------------------------------
(* Rewards.                                                                *)

\* A borrowing, deposit or redemption fee, paid in YUSD.
ReceiveFee(fee) ==
  /\ yusd + fee <= MaxYUSD
  /\ yusd' = yusd + fee
  /\ UNCHANGED <<shareVars, delayVars, adminVars, effectiveYetiTokenBalance, yeti,
                 outside, lastBuybackPrice>>

\* YETI may be sent to the contract by a plain transfer.
ReceiveYETI(amount) ==
  /\ amount <= outside
  /\ yeti' = yeti + amount /\ outside' = outside - amount
  /\ UNCHANGED <<shareVars, delayVars, adminVars, effectiveYetiTokenBalance, yusd,
                 lastBuybackPrice>>

(* _buyBack through an external router (IsYETIRouter.swap): it reports that *)
(* it sold what it was allowed to, gives got YETI, and takes the YUSD or    *)
(* pays with its own, as dummyUniV2Router does.  It refuses to sell nothing; *)
(* when it gives nothing, the price divides by zero.                        *)
SellYUSD(sold, got, taken) ==
  /\ validRouter
  /\ sold # 0 /\ got # 0 /\ got <= outside
  /\ untilPublic' = PublicDelay
  /\ yusd' = yusd - taken /\ yeti' = yeti + got /\ outside' = outside - got
  /\ lastBuybackPrice' = (sold * DP) \div got
  /\ UNCHANGED <<shareVars, locked, untilRebase, adminVars, effectiveYetiTokenBalance>>

BuyBack(sold, got) ==
  sold <= yusd /\ \E taken \in {0, sold} : SellYUSD(sold, got, taken)

PublicBuyBack(got) ==
  LET sold == (yusd * PublicPercent) \div 100
  IN  untilPublic = 0 /\ \E taken \in {0, sold} : SellYUSD(sold, got, taken)

Free == yeti - effectiveYetiTokenBalance
ValueOfContract == (yusd * DP) \div lastBuybackPrice + Free

\* Mutant: the YETI value of the YUSD is given out without being there.
WholeValue == (ValueOfContract * transferRatio) \div DP

\* The part of the contract's value to give out, as far as it is there in YETI.
AmountYetiToRebase ==
  LET eligible == (ValueOfContract * transferRatio) \div DP
  IN  IF eligible > Free THEN Free ELSE eligible

(* rebase; before the first sale it divides by zero.                        *)
Rebase ==
  /\ untilRebase = 0
  /\ Free >= 0 /\ lastBuybackPrice # 0
  /\ effectiveYetiTokenBalance' = effectiveYetiTokenBalance + AmountYetiToRebase
  /\ untilRebase' = RebaseDelay
  /\ UNCHANGED <<shareVars, locked, untilPublic, adminVars, yeti, yusd, outside,
                 lastBuybackPrice>>

SetTransferRatio(ratio) ==
  /\ transferRatio' = ratio
  /\ UNCHANGED <<shareVars, delayVars, validRouter, effectiveYetiTokenBalance, yeti,
                 yusd, outside, lastBuybackPrice>>

\* addValidRouter and removeValidRouter.
SetRouter(valid) ==
  /\ validRouter' = valid
  /\ UNCHANGED <<shareVars, delayVars, transferRatio, effectiveYetiTokenBalance, yeti,
                 yusd, outside, lastBuybackPrice>>

Next ==
  \/ Tick
  \/ \E u \in Users, amount \in Mints : Mint(u, amount)
  \/ \E from, to \in Users : \E shares \in 1..balance[from] : Transfer(from, to, shares)
  \/ \E from \in Users, toItself \in BOOLEAN :
       \E shares \in 0..balance[from] : Burn(from, shares, toItself)
  \/ \E fee \in Fees : ReceiveFee(fee)
  \/ \E amount \in Donations : ReceiveYETI(amount)
  \/ \E sold \in Sales, got \in Quotes : BuyBack(sold, got)
  \/ \E got \in Quotes : PublicBuyBack(got)
  \/ Rebase
  \/ \E ratio \in Ratios : SetTransferRatio(ratio)
  \/ \E valid \in BOOLEAN : SetRouter(valid)

Spec == Init /\ [][Next]_vars
-----------------------------------------------------------------------------
(* Every share is somebody's, all YETI is somewhere, and no delay is longer *)
(* than it was set to.                                                      *)
TypeOK ==
  /\ balance \in [Users -> Nat] /\ SumFunction(balance) = totalSupply
  /\ locked \in [Users -> 0..LockTime]
  /\ yeti \in Nat /\ outside \in Nat /\ yeti + outside = Supply
  /\ yusd \in 0..MaxYUSD /\ transferRatio \in 0..DP /\ lastBuybackPrice \in Nat
  /\ untilRebase \in 0..RebaseDelay /\ untilPublic \in 0..PublicDelay

(* _burn and rebase (sYETIToken.sol:210-226, 282-305): what the shares are  *)
(* worth is there in YETI, and a share is never worth less than the one     *)
(* YETI it was first minted for; so all stakers can leave, in any order,    *)
(* and mint never divides by zero.                                          *)
SharesBacked ==
  totalSupply <= effectiveYetiTokenBalance /\ effectiveYetiTokenBalance <= yeti

(* mint and _burn round in favour of those who stay: no call lowers the     *)
(* YETI behind a share of the others.                                       *)
SharePriceNeverFalls ==
  [][totalSupply > 0 /\ totalSupply' > 0 =>
       effectiveYetiTokenBalance' * totalSupply >= effectiveYetiTokenBalance * totalSupply']_vars
=============================================================================
