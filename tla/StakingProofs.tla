--------------------------- MODULE StakingProofs ---------------------------
(***************************************************************************)
(* Proofs about Staking for all constants.  The inductive invariant is     *)
(* SharesBacked with the types of the four numbers it is about; the price  *)
(* of a share can then be followed step by step, because a quotient that   *)
(* is rounded down takes no more than its exact value.                     *)
(***************************************************************************)
EXTENDS Staking, CommonTheorems

StakingTypeOK ==
  /\ balance \in [Users -> Nat]
  /\ totalSupply \in Nat /\ effectiveYetiTokenBalance \in Nat
  /\ yeti \in Nat /\ outside \in Nat /\ yusd \in Nat
  /\ lastBuybackPrice \in Nat /\ transferRatio \in Nat

StakingInv == StakingTypeOK /\ SharesBacked

(* A deposit of amount into a pool of e YETI and s shares.                  *)
LEMMA MintFits ==
  ASSUME NEW amount \in Nat, NEW s \in Nat, NEW e \in Nat \ {0}, s <= e,
         NEW n, n = (amount * s) \div e
  PROVE  n \in Nat /\ n <= amount /\ (e + amount) * s >= e * (s + n)
<1>1. amount * s \in Nat
  BY ProductNat
<1>2. n \in Nat /\ n * e <= amount * s
  BY <1>1, FloorFits
<1>3. amount * s <= amount * e
  <2>1. s * amount <= e * amount
    BY ProductMonotone
  <2> QED
    BY <2>1, Z3
<1>4. n * e <= amount * e
  BY <1>1, <1>2, <1>3, ProductNat
<1>5. n <= amount
  BY <1>2, <1>4, ProductCancel
<1>6. (e + amount) * s = e * s + amount * s /\ e * (s + n) = e * s + n * e
  BY <1>2, Z3
<1> QED
  BY <1>1, <1>2, <1>5, <1>6, ProductNat

(* The withdrawal of n shares: it cannot be of more shares than there are,  *)
(* because its amount could not be paid.                                    *)
LEMMA BurnFits ==
  ASSUME NEW n \in Nat, NEW s \in Nat \ {0}, NEW e \in Nat, s <= e,
         NEW amount, amount = (n * e) \div s, amount <= e
  PROVE  /\ amount \in Nat /\ n <= s
         /\ s - n <= e - amount
         /\ (e - amount) * s >= e * (s - n)
<1>1. n * e \in Nat
  BY ProductNat
<1>2. amount \in Nat /\ amount * s <= n * e /\ n * e < amount * s + s
  BY <1>1, FloorFits
<1>3. n <= s
  <2> SUFFICES ASSUME s + 1 <= n PROVE FALSE
    OBVIOUS
  <2>1. (s + 1) * e <= n * e
    BY ProductMonotone, s + 1 \in Nat
  <2>2. amount * s <= e * s
    BY <1>2, ProductMonotone
  <2>3. (s + 1) * e = e * s + e
    BY Z3
  <2> QED
    BY <1>1, <1>2, <2>1, <2>2, <2>3, ProductNat
<1>4. (e - amount) * s = e * s - amount * s /\ e * (s - n) = e * s - n * e
  BY <1>2, Z3
<1>5. (e - amount) * s >= e * (s - n)
  BY <1>1, <1>2, <1>4, ProductNat
<1>6. s - n <= e - amount
  <2>1. s - n \in Nat /\ e - amount \in Nat
    BY <1>2, <1>3
  <2>2. s * (s - n) <= e * (s - n)
    BY <2>1, ProductMonotone
  <2>3. (s - n) * s <= (e - amount) * s
    <3>1. s * (s - n) = (s - n) * s
      BY <2>1, Z3
    <3>2. (s - n) * s \in Nat /\ e * (s - n) \in Nat /\ (e - amount) * s \in Nat
      BY <2>1, ProductNat
    <3> QED
      BY <1>5, <2>2, <3>1, <3>2
  <2> QED
    BY <2>1, <2>3, ProductCancel
<1> QED
  BY <1>2, <1>3, <1>5, <1>6

-----------------------------------------------------------------------------
PriceKept ==
  totalSupply > 0 /\ totalSupply' > 0 =>
    effectiveYetiTokenBalance' * totalSupply >= effectiveYetiTokenBalance * totalSupply'

(* A step that leaves the shares alone keeps the price of a share if no     *)
(* YETI stops counting for them.                                            *)
LEMMA PriceKeptByGrowth ==
  ASSUME StakingTypeOK, UNCHANGED totalSupply,
         effectiveYetiTokenBalance' \in Nat,
         effectiveYetiTokenBalance <= effectiveYetiTokenBalance'
  PROVE  PriceKept
<1>1. effectiveYetiTokenBalance * totalSupply <= effectiveYetiTokenBalance' * totalSupply
  BY ProductMonotone DEF StakingTypeOK
<1>2. /\ effectiveYetiTokenBalance * totalSupply \in Nat
      /\ effectiveYetiTokenBalance' * totalSupply \in Nat
  BY ProductNat DEF StakingTypeOK
<1> QED
  BY <1>1, <1>2 DEF PriceKept

LEMMA InitStaking == Init => StakingInv
BY StakingAssumption DEF Init, StakingInv, StakingTypeOK, SharesBacked

LEMMA TickKeeps ==
  ASSUME StakingInv, Tick \/ UNCHANGED vars
  PROVE  StakingInv' /\ PriceKept
<1>1. UNCHANGED <<balance, totalSupply, effectiveYetiTokenBalance, yeti, outside, yusd,
                  lastBuybackPrice, transferRatio>>
  BY DEF Tick, vars, shareVars, delayVars, adminVars
<1>2. StakingInv'
  BY <1>1 DEF StakingInv, StakingTypeOK, SharesBacked
<1> QED
  BY <1>1, <1>2, PriceKeptByGrowth DEF StakingInv, StakingTypeOK

LEMMA SharesFit ==
  ASSUME StakingInv, NEW amount \in Nat, totalSupply = 0 \/ effectiveYetiTokenBalance # 0
  PROVE  /\ SharesFor(amount) \in Nat /\ SharesFor(amount) <= amount
         /\ totalSupply > 0 => (effectiveYetiTokenBalance + amount) * totalSupply
                                 >= effectiveYetiTokenBalance * (totalSupply + SharesFor(amount))
<1> DEFINE n == SharesFor(amount)
<1>1. CASE totalSupply = 0
  BY <1>1 DEF SharesFor
<1>2. CASE totalSupply # 0
  <2>1. effectiveYetiTokenBalance \in Nat \ {0} /\ totalSupply \in Nat
    BY <1>2 DEF Mint, StakingInv, StakingTypeOK
  <2>2. n = (amount * totalSupply) \div effectiveYetiTokenBalance
    BY <1>2 DEF SharesFor
  <2>3. totalSupply <= effectiveYetiTokenBalance
    BY DEF StakingInv, SharesBacked
  <2> QED
    BY <2>1, <2>2, <2>3, MintFits
<1> QED
  BY <1>1, <1>2

LEMMA MintKeeps ==
  ASSUME StakingInv, NEW u \in Users, NEW amount \in Mints, Mint(u, amount)
  PROVE  StakingInv' /\ PriceKept
<1> DEFINE n == SharesFor(amount)
<1>1. amount \in Nat
  BY StakingAssumption
<1>2. /\ n \in Nat /\ n <= amount
      /\ totalSupply > 0 => (effectiveYetiTokenBalance + amount) * totalSupply
                              >= effectiveYetiTokenBalance * (totalSupply + n)
  BY <1>1, SharesFit DEF Mint
<1>3. /\ balance' = [balance EXCEPT ![u] = @ + n]
      /\ totalSupply' = totalSupply + n
      /\ effectiveYetiTokenBalance' = effectiveYetiTokenBalance + amount
      /\ yeti' = yeti + amount /\ outside' = outside - amount /\ amount <= outside
      /\ UNCHANGED <<yusd, lastBuybackPrice, transferRatio>>
  BY DEF Mint, adminVars
<1> HIDE DEF n
<1>4. StakingInv'
  BY <1>1, <1>2, <1>3 DEF StakingInv, StakingTypeOK, SharesBacked
<1>5. PriceKept
  BY <1>2, <1>3 DEF PriceKept
<1> QED
  BY <1>4, <1>5

LEMMA TransferKeeps ==
  ASSUME StakingInv, NEW from \in Users, NEW to \in Users,
         NEW shares \in 1..balance[from], Transfer(from, to, shares)
  PROVE  StakingInv' /\ PriceKept
<1>1. UNCHANGED <<totalSupply, effectiveYetiTokenBalance, yeti, outside, yusd,
                  lastBuybackPrice, transferRatio>>
  BY DEF Transfer, adminVars
<1>2. balance' \in [Users -> Nat]
  BY DEF Transfer, Moved, StakingInv, StakingTypeOK
<1>3. StakingInv'
  BY <1>1, <1>2 DEF StakingInv, StakingTypeOK, SharesBacked
<1> QED
  BY <1>1, <1>3, PriceKeptByGrowth DEF StakingInv, StakingTypeOK

LEMMA BurnKeeps ==
  ASSUME StakingInv, NEW from \in Users, NEW toItself \in BOOLEAN,
         NEW shares \in 0..balance[from], Burn(from, shares, toItself)
  PROVE  StakingInv' /\ PriceKept
<1> DEFINE amount == AmountOf(shares)
<1>1. /\ totalSupply \in Nat \ {0} /\ effectiveYetiTokenBalance \in Nat
      /\ totalSupply <= effectiveYetiTokenBalance /\ shares \in Nat
      /\ amount = (shares * effectiveYetiTokenBalance) \div totalSupply
      /\ amount <= effectiveYetiTokenBalance /\ amount <= yeti
  BY DEF Burn, AmountOf, StakingInv, StakingTypeOK, SharesBacked
<1>2. /\ balance' = [balance EXCEPT ![from] = @ - shares]
      /\ totalSupply' = totalSupply - shares
      /\ effectiveYetiTokenBalance' = effectiveYetiTokenBalance - amount
      /\ \/ UNCHANGED <<yeti, outside>>
         \/ yeti' = yeti - amount /\ outside' = outside + amount
      /\ UNCHANGED <<yusd, lastBuybackPrice, transferRatio>>
  BY DEF Burn, adminVars
<1> HIDE DEF amount
<1>3. /\ amount \in Nat /\ shares <= totalSupply
      /\ totalSupply - shares <= effectiveYetiTokenBalance - amount
      /\ (effectiveYetiTokenBalance - amount) * totalSupply
           >= effectiveYetiTokenBalance * (totalSupply - shares)
  BY <1>1, BurnFits
<1>4. balance' \in [Users -> Nat]
  BY <1>1, <1>2 DEF StakingInv, StakingTypeOK
<1>5. StakingInv'
  BY <1>1, <1>2, <1>3, <1>4 DEF StakingInv, StakingTypeOK, SharesBacked
<1>6. PriceKept
  BY <1>2, <1>3 DEF PriceKept
<1> QED
  BY <1>5, <1>6

(* Nothing a reward or the owner does takes YETI from the contract.         *)
LEMMA ReceiveKeeps ==
  ASSUME StakingInv,
         \/ \E fee \in Fees : ReceiveFee(fee)
         \/ \E amount \in Donations : ReceiveYETI(amount)
         \/ \E ratio \in Ratios : SetTransferRatio(ratio)
         \/ \E valid \in BOOLEAN : SetRouter(valid)
  PROVE  StakingInv' /\ PriceKept
<1>1. /\ UNCHANGED <<balance, totalSupply, effectiveYetiTokenBalance>>
      /\ yeti' \in Nat /\ outside' \in Nat /\ yusd' \in Nat
      /\ lastBuybackPrice' \in Nat /\ transferRatio' \in Nat /\ yeti <= yeti'
  BY StakingAssumption
  DEF ReceiveFee, ReceiveYETI, SetTransferRatio, SetRouter, shareVars, adminVars,
      StakingInv, StakingTypeOK
<1>2. StakingInv'
  BY <1>1 DEF StakingInv, StakingTypeOK, SharesBacked
<1> QED
  BY <1>1, <1>2, PriceKeptByGrowth DEF StakingInv, StakingTypeOK

LEMMA SellKeeps ==
  ASSUME StakingInv, NEW sold \in Nat, NEW got \in Quotes, NEW taken \in {0, sold},
         sold <= yusd, SellYUSD(sold, got, taken)
  PROVE  StakingInv' /\ PriceKept
<1>1. got \in Nat \ {0} /\ sold * DP \in Nat
  BY StakingAssumption, ProductNat DEF SellYUSD
<1>2. (sold * DP) \div got \in Nat
  BY <1>1, FloorFits
<1>3. /\ UNCHANGED <<balance, totalSupply, effectiveYetiTokenBalance, transferRatio>>
      /\ yeti' = yeti + got /\ outside' = outside - got /\ got <= outside
      /\ yusd' = yusd - taken /\ lastBuybackPrice' \in Nat
  BY <1>2 DEF SellYUSD, shareVars, adminVars
<1>4. StakingInv'
  BY <1>1, <1>3 DEF StakingInv, StakingTypeOK, SharesBacked
<1> QED
  BY <1>3, <1>4, PriceKeptByGrowth DEF StakingInv, StakingTypeOK

(* What the public may sell is a part of what is there.                     *)
LEMMA PublicPart ==
  ASSUME NEW n \in Nat
  PROVE  (n * PublicPercent) \div 100 \in Nat /\ (n * PublicPercent) \div 100 <= n
<1>1. PublicPercent \in Nat /\ PublicPercent <= 100
  BY StakingAssumption
<1>2. PublicPercent * n <= 100 * n /\ PublicPercent * n = n * PublicPercent
  BY <1>1, ProductMonotone, Z3
<1>3. n * PublicPercent \in Nat
  BY <1>1, ProductNat
<1> QED
  BY <1>2, <1>3

LEMMA RebaseKeeps ==
  ASSUME StakingInv, Rebase
  PROVE  StakingInv' /\ PriceKept
<1> DEFINE rebased == AmountYetiToRebase
           value == ValueOfContract
           eligible == (value * transferRatio) \div DP
<1>1. /\ Free \in Nat /\ DP \in Nat \ {0} /\ yusd \in Nat /\ transferRatio \in Nat
      /\ lastBuybackPrice \in Nat \ {0}
  BY StakingAssumption DEF Rebase, Free, StakingInv, StakingTypeOK
<1>2. yusd * DP \in Nat
  BY <1>1, ProductNat
<1>3. value \in Nat
  BY <1>1, <1>2, FloorFits DEF ValueOfContract
<1>4. eligible \in Nat
  <2> HIDE DEF value
  <2>1. value * transferRatio \in Nat
    BY <1>1, <1>3, ProductNat
  <2> QED
    BY <1>1, <2>1, FloorFits
<1>5. rebased \in Nat /\ rebased <= Free
  <2>1. rebased = IF eligible > Free THEN Free ELSE eligible
    BY DEF AmountYetiToRebase
  <2> HIDE DEF eligible, rebased
  <2> QED
    BY <1>1, <1>4, <2>1
<1>6. /\ UNCHANGED <<balance, totalSupply, yeti, outside, yusd, lastBuybackPrice,
                     transferRatio>>
      /\ effectiveYetiTokenBalance' = effectiveYetiTokenBalance + rebased
  BY DEF Rebase, shareVars, adminVars
<1> HIDE DEF rebased, value, eligible
<1>7. StakingInv'
  BY <1>5, <1>6 DEF Free, StakingInv, StakingTypeOK, SharesBacked
<1> QED
  BY <1>5, <1>6, <1>7, PriceKeptByGrowth DEF StakingInv, StakingTypeOK

LEMMA EveryStakingStep ==
  ASSUME StakingInv, [Next]_vars
  PROVE  StakingInv' /\ PriceKept
<1>1. CASE Tick \/ UNCHANGED vars
  BY <1>1, TickKeeps
<1>2. CASE \E u \in Users, amount \in Mints : Mint(u, amount)
  BY <1>2, MintKeeps
<1>3. CASE \E from, to \in Users : \E shares \in 1..balance[from] : Transfer(from, to, shares)
  BY <1>3, TransferKeeps
<1>4. CASE \E from \in Users, toItself \in BOOLEAN :
             \E shares \in 0..balance[from] : Burn(from, shares, toItself)
  BY <1>4, BurnKeeps
<1>5. CASE \/ \E fee \in Fees : ReceiveFee(fee)
           \/ \E amount \in Donations : ReceiveYETI(amount)
           \/ \E ratio \in Ratios : SetTransferRatio(ratio)
           \/ \E valid \in BOOLEAN : SetRouter(valid)
  BY <1>5, ReceiveKeeps
<1>6. CASE \E sold \in Sales, got \in Quotes : BuyBack(sold, got)
  <2>1. PICK sold \in Sales, got \in Quotes : BuyBack(sold, got)
    BY <1>6
  <2>2. sold \in Nat /\ sold <= yusd
    BY <2>1, StakingAssumption DEF BuyBack
  <2> QED
    BY <2>1, <2>2, SellKeeps DEF BuyBack
<1>7. CASE \E got \in Quotes : PublicBuyBack(got)
  <2>1. PICK got \in Quotes : PublicBuyBack(got)
    BY <1>7
  <2> DEFINE sold == (yusd * PublicPercent) \div 100
  <2>2. sold \in Nat /\ sold <= yusd
    BY PublicPart DEF StakingInv, StakingTypeOK
  <2>3. PICK taken \in {0, sold} : SellYUSD(sold, got, taken)
    BY <2>1 DEF PublicBuyBack
  <2> HIDE DEF sold
  <2> QED
    BY <2>2, <2>3, SellKeeps
<1>8. CASE Rebase
  BY <1>8, RebaseKeeps
<1> QED
  BY <1>1, <1>2, <1>3, <1>4, <1>5, <1>6, <1>7, <1>8 DEF Next

LEMMA StakingInvariant == Spec => []StakingInv
<1>1. StakingInv /\ [Next]_vars => StakingInv'
  BY EveryStakingStep
<1> QED
  BY <1>1, InitStaking, PTL DEF Spec

(* Whatever the users, the routers and the owner do, there is at least one  *)
(* YETI for every share, and it is in the contract (_burn, rebase).         *)
THEOREM SharesAlwaysBacked == Spec => []SharesBacked
<1>1. StakingInv => SharesBacked
  BY DEF StakingInv
<1> QED
  BY <1>1, StakingInvariant, PTL

(* No call lowers the YETI behind a share (mint and _burn round down).      *)
THEOREM SharePriceNeverFell == Spec => SharePriceNeverFalls
<1>1. StakingInv /\ [Next]_vars
        => [totalSupply > 0 /\ totalSupply' > 0 =>
              effectiveYetiTokenBalance' * totalSupply
                >= effectiveYetiTokenBalance * totalSupply']_vars
  BY EveryStakingStep DEF PriceKept
<1> QED
  BY <1>1, StakingInvariant, PTL DEF Spec, SharePriceNeverFalls
-----------------------------------------------------------------------------
(* The whole of TypeOK, on top of StakingInv.                              *)

Booked == SumFunctionOnSet(balance, Users)

LEMMA TypesMeaning ==
  ASSUME balance \in [Users -> Nat]
  PROVE  SumFunction(balance) = Booked
BY DEF SumFunction, Booked

\* Nobody has more shares than there are.
LEMMA OneOfAll ==
  ASSUME StakingInv, TypeOK, NEW u \in Users
  PROVE  balance[u] \in Nat /\ balance[u] <= totalSupply
<1>1. balance \in [Users -> Nat] /\ totalSupply = Booked
  BY TypesMeaning DEF TypeOK
<1>2. Booked = balance[u] + SumFunctionOnSet(balance, Users \ {u})
  BY <1>1, UsersAssumption, SumRemove DEF Booked
<1>3. SumFunctionOnSet(balance, Users \ {u}) \in Nat
  BY <1>1, UsersAssumption, FS_Subset, SumNat
<1> QED
  BY <1>1, <1>2, <1>3

\* One account's shares change, and totalSupply by as much.
LEMMA SharesMove ==
  ASSUME StakingInv, StakingInv', TypeOK, NEW u \in Users,
         \A v \in Users \ {u} : balance'[v] = balance[v],
         totalSupply' = totalSupply - balance[u] + balance'[u]
  PROVE  SumFunction(balance)' = totalSupply'
<1>1. balance \in [Users -> Nat] /\ balance' \in [Users -> Nat]
  BY DEF StakingInv, StakingTypeOK
<1>2. SumFunction(balance) = Booked /\ SumFunction(balance)' = Booked'
  BY <1>1, TypesMeaning DEF SumFunction, Booked
<1>3. Booked' = Booked - balance[u] + balance'[u]
  BY <1>1, UsersAssumption, SumUpdate DEF Booked
<1> QED
  BY <1>2, <1>3 DEF TypeOK

LEMMA PassedLess ==
  ASSUME NEW m \in Nat, NEW n \in 0..m
  PROVE  Passed(n) \in 0..m
BY DEF Passed

\* What a step that leaves the shares alone must show.
LEMMA QuietShares ==
  ASSUME StakingInv, StakingInv', TypeOK, UNCHANGED shareVars,
         locked' \in [Users -> 0..LockTime], yeti' + outside' = Supply, yusd' <= MaxYUSD,
         transferRatio' <= DP, untilRebase' \in 0..RebaseDelay, untilPublic' \in 0..PublicDelay
  PROVE  TypeOK'
<1>1. balance' = balance /\ totalSupply' = totalSupply
  BY DEF shareVars
<1>2. SumFunction(balance)' = totalSupply'
  BY <1>1 DEF TypeOK
<1> QED
  BY <1>1, <1>2 DEF TypeOK, StakingInv, StakingTypeOK

LEMMA MintTypes ==
  ASSUME StakingInv, StakingInv', TypeOK, NEW u \in Users, NEW amount \in Mints, Mint(u, amount)
  PROVE  TypeOK'
<1> DEFINE n == SharesFor(amount)
<1>0. n \in Nat
  BY SharesFit, StakingAssumption DEF Mint
<1>1. /\ balance' = [balance EXCEPT ![u] = @ + n] /\ totalSupply' = totalSupply + n
      /\ locked' = [locked EXCEPT ![u] = LockTime]
      /\ yeti' = yeti + amount /\ outside' = outside - amount
      /\ UNCHANGED <<untilRebase, untilPublic, adminVars, yusd, lastBuybackPrice>>
  BY DEF Mint
<1>2. balance \in [Users -> Nat] /\ balance' \in [Users -> Nat] /\ totalSupply \in Nat
      /\ totalSupply' \in Nat
  BY DEF StakingInv, StakingTypeOK
<1> HIDE DEF n
<1>3. balance'[u] = balance[u] + n /\ \A v \in Users \ {u} : balance'[v] = balance[v]
  BY <1>1, <1>2
<1>4. totalSupply' = totalSupply - balance[u] + balance'[u]
  BY <1>0, <1>1, <1>2, <1>3
<1>5. SumFunction(balance)' = totalSupply'
  BY <1>3, <1>4, SharesMove
<1>6. locked' \in [Users -> 0..LockTime]
  BY <1>1, StakingAssumption DEF TypeOK
<1>7. yeti' + outside' = Supply
  BY <1>1, StakingAssumption DEF TypeOK
<1> QED
  BY <1>1, <1>5, <1>6, <1>7 DEF TypeOK, StakingInv, StakingTypeOK, adminVars

LEMMA TransferTypes ==
  ASSUME StakingInv, StakingInv', TypeOK, NEW from \in Users, NEW to \in Users,
         NEW shares \in 1..balance[from], Transfer(from, to, shares)
  PROVE  TypeOK'
<1> DEFINE g == [balance EXCEPT ![from] = @ - shares]
<1>1. /\ balance \in [Users -> Nat] /\ balance' \in [Users -> Nat] /\ g \in [Users -> Int]
      /\ shares \in Nat /\ balance' = Moved(from, to, shares)
      /\ UNCHANGED <<totalSupply, delayVars, adminVars, yeti, yusd, outside, lastBuybackPrice>>
  BY DEF Transfer, StakingInv, StakingTypeOK
<1>2. SumFunction(balance) = Booked /\ SumFunction(balance)' = Booked'
  BY <1>1, TypesMeaning DEF SumFunction, Booked
<1>3. CASE from = to
  BY <1>1, <1>2, <1>3 DEF Moved, Booked, TypeOK, delayVars, adminVars
<1>4. CASE from # to
  <2>1. /\ g[from] = balance[from] - shares /\ \A v \in Users \ {from} : g[v] = balance[v]
        /\ balance'[to] = g[to] + shares /\ \A v \in Users \ {to} : balance'[v] = g[v]
    BY <1>1, <1>4 DEF Moved
  <2> HIDE DEF g
  <2>2. SumFunctionOnSet(g, Users) = Booked - balance[from] + g[from]
    BY <1>1, <2>1, UsersAssumption, SumUpdate DEF Booked
  <2>3. Booked' = SumFunctionOnSet(g, Users) - g[to] + balance'[to]
    BY <1>1, <2>1, UsersAssumption, SumUpdate DEF Booked
  <2>4. Booked \in Int
    BY <1>1, UsersAssumption, SumInt DEF Booked
  <2>5. Booked' = Booked
    BY <1>1, <2>1, <2>2, <2>3, <2>4
  <2> QED
    BY <1>1, <1>2, <2>5 DEF TypeOK, delayVars, adminVars
<1> QED
  BY <1>3, <1>4

LEMMA BurnTypes ==
  ASSUME StakingInv, StakingInv', TypeOK, NEW from \in Users, NEW toItself \in BOOLEAN,
         NEW shares \in 0..balance[from], Burn(from, shares, toItself)
  PROVE  TypeOK'
<1> DEFINE amount == AmountOf(shares)
<1>1. /\ balance' = [balance EXCEPT ![from] = @ - shares] /\ totalSupply' = totalSupply - shares
      /\ \/ UNCHANGED <<yeti, outside>>
         \/ yeti' = yeti - amount /\ outside' = outside + amount
      /\ UNCHANGED <<delayVars, adminVars, yusd, lastBuybackPrice>>
  BY DEF Burn
<1>2. /\ balance \in [Users -> Nat] /\ balance' \in [Users -> Nat] /\ totalSupply \in Nat
      /\ shares \in Nat /\ yeti \in Nat /\ yeti' \in Nat /\ outside \in Nat /\ outside' \in Nat
  BY DEF StakingInv, StakingTypeOK
<1>3. amount \in Int
  <2>1. totalSupply \in Nat \ {0} /\ effectiveYetiTokenBalance \in Nat
    BY DEF Burn, StakingInv, StakingTypeOK
  <2>2. shares * effectiveYetiTokenBalance \in Nat
    BY <1>2, <2>1, ProductNat
  <2> QED
    BY <2>1, <2>2, FloorFits DEF AmountOf
<1> HIDE DEF amount
<1>4. SumFunction(balance)' = totalSupply'
  <2>1. balance'[from] = balance[from] - shares /\ \A v \in Users \ {from} : balance'[v] = balance[v]
    BY <1>1, <1>2
  <2>2. totalSupply' = totalSupply - balance[from] + balance'[from]
    BY <1>1, <1>2, <2>1
  <2> QED
    BY <2>1, <2>2, SharesMove
<1>5. yeti' + outside' = Supply
  BY <1>1, <1>2, <1>3 DEF TypeOK
<1> QED
  BY <1>1, <1>2, <1>4, <1>5 DEF TypeOK, delayVars, adminVars

LEMMA RewardTypes ==
  ASSUME StakingInv, StakingInv', TypeOK,
         \/ \E fee \in Fees : ReceiveFee(fee)
         \/ \E amount \in Donations : ReceiveYETI(amount)
         \/ Rebase
         \/ \E ratio \in Ratios : SetTransferRatio(ratio)
         \/ \E valid \in BOOLEAN : SetRouter(valid)
         \/ Tick \/ UNCHANGED vars
  PROVE  TypeOK'
<1> USE StakingAssumption
<1>1. CASE \E fee \in Fees : ReceiveFee(fee)
  BY <1>1, QuietShares DEF ReceiveFee, TypeOK, delayVars, adminVars
<1>2. CASE \E amount \in Donations : ReceiveYETI(amount)
  BY <1>2, QuietShares DEF ReceiveYETI, TypeOK, delayVars, adminVars
<1>3. CASE Rebase
  BY <1>3, QuietShares DEF Rebase, TypeOK, adminVars
<1>4. CASE \E ratio \in Ratios : SetTransferRatio(ratio)
  BY <1>4, QuietShares DEF SetTransferRatio, TypeOK, delayVars
<1>5. CASE \E valid \in BOOLEAN : SetRouter(valid)
  BY <1>5, QuietShares DEF SetRouter, TypeOK, delayVars
<1>6. CASE Tick
  <2>1. locked' \in [Users -> 0..LockTime]
    BY <1>6, PassedLess DEF Tick, TypeOK
  <2>2. untilRebase' \in 0..RebaseDelay /\ untilPublic' \in 0..PublicDelay
    BY <1>6, PassedLess DEF Tick, TypeOK
  <2> QED
    BY <1>6, <2>1, <2>2, QuietShares DEF Tick, TypeOK, adminVars
<1>7. CASE UNCHANGED vars
  BY <1>7, QuietShares DEF vars, TypeOK, delayVars, adminVars
<1> QED
  BY <1>1, <1>2, <1>3, <1>4, <1>5, <1>6, <1>7

LEMMA SaleTypes ==
  ASSUME StakingInv, StakingInv', TypeOK, NEW sold \in Nat, NEW got \in Quotes,
         NEW taken \in {0, sold}, SellYUSD(sold, got, taken)
  PROVE  TypeOK'
BY StakingAssumption, QuietShares
   DEF SellYUSD, TypeOK, StakingInv, StakingTypeOK, adminVars

LEMMA NextStakingTypes ==
  ASSUME StakingInv, StakingInv', TypeOK, [Next]_vars
  PROVE  TypeOK'
<1>1. CASE \E u \in Users, amount \in Mints : Mint(u, amount)
  BY <1>1, MintTypes
<1>2. CASE \E from, to \in Users : \E shares \in 1..balance[from] : Transfer(from, to, shares)
  BY <1>2, TransferTypes
<1>3. CASE \E from \in Users, toItself \in BOOLEAN :
             \E shares \in 0..balance[from] : Burn(from, shares, toItself)
  BY <1>3, BurnTypes
<1>4. CASE \E sold \in Sales, got \in Quotes : BuyBack(sold, got)
  BY <1>4, SaleTypes, StakingAssumption DEF BuyBack
<1>5. CASE \E got \in Quotes : PublicBuyBack(got)
  <2>1. PICK got \in Quotes : PublicBuyBack(got)
    BY <1>5
  <2> DEFINE sold == (yusd * PublicPercent) \div 100
  <2>2. sold \in Nat
    BY PublicPart DEF StakingInv, StakingTypeOK
  <2>3. PICK taken \in {0, sold} : SellYUSD(sold, got, taken)
    BY <2>1 DEF PublicBuyBack
  <2> HIDE DEF sold
  <2> QED
    BY <2>2, <2>3, SaleTypes
<1> QED
  BY <1>1, <1>2, <1>3, <1>4, <1>5, RewardTypes DEF Next

LEMMA StakingTypesAlways == Spec => [](StakingInv /\ TypeOK)
<1>1. Init => TypeOK
  <2> SUFFICES ASSUME Init PROVE TypeOK
    OBVIOUS
  <2>1. balance = [u \in Users |-> 0] /\ balance \in [Users -> Nat]
    BY DEF Init
  <2>2. SumFunction(balance) = 0
    BY <2>1, TypesMeaning, UsersAssumption, SumZero DEF Booked
  <2> QED
    BY <2>1, <2>2, StakingAssumption DEF Init, TypeOK
<1>2. StakingInv /\ TypeOK /\ [Next]_vars => (StakingInv /\ TypeOK)'
  BY EveryStakingStep, NextStakingTypes
<1> QED
  BY <1>1, <1>2, InitStaking, PTL DEF Spec

(* totalSupply is the sum of all shares, and so what _burn takes from it    *)
(* without a check is there; no YETI is created or lost; no lock, and no    *)
(* delay, is longer than the contract sets it.                              *)
THEOREM SharesAlwaysAddUp == Spec => []TypeOK
<1>1. StakingInv /\ TypeOK => TypeOK
  OBVIOUS
<1> QED
  BY <1>1, StakingTypesAlways, PTL

\* What _burn asks of the contract when u burns all it has.
CanLeave(u) ==
  totalSupply # 0 =>
    /\ balance[u] <= totalSupply
    /\ AmountOf(balance[u]) <= effectiveYetiTokenBalance
    /\ AmountOf(balance[u]) <= yeti

(* No staker is held back by the contract's balances: once unlocked, each   *)
(* can burn all its shares, whatever the others did before.                 *)
THEOREM StakersCanAlwaysLeave == Spec => [](\A u \in Users : CanLeave(u))
<1>1. ASSUME StakingInv, TypeOK, NEW u \in Users, totalSupply # 0
      PROVE  /\ balance[u] <= totalSupply
             /\ AmountOf(balance[u]) <= effectiveYetiTokenBalance
             /\ AmountOf(balance[u]) <= yeti
  <2> DEFINE n == balance[u]
             e == effectiveYetiTokenBalance
             s == totalSupply
             a == AmountOf(n)
  <2>1. n \in Nat /\ n <= s /\ s \in Nat \ {0} /\ e \in Nat /\ e <= yeti /\ yeti \in Nat
    BY <1>1, OneOfAll DEF StakingInv, StakingTypeOK, SharesBacked
  <2>2. a = (n * e) \div s
    BY DEF AmountOf
  <2> HIDE DEF n, e, s, a
  <2>3. n * e \in Nat /\ s * e \in Nat
    BY <2>1, ProductNat
  <2>4. a \in Nat /\ a * s <= n * e
    BY <2>1, <2>2, <2>3, FloorFits
  <2>5. n * e <= s * e /\ s * e = e * s
    BY <2>1, ProductMonotone, Z3
  <2>6. a * s <= e * s
    BY <2>1, <2>3, <2>4, <2>5, ProductNat
  <2>7. a <= e
    BY <2>1, <2>4, <2>6, ProductCancel
  <2> QED
    BY <2>1, <2>4, <2>7 DEF n, e, s, a
<1>2. StakingInv /\ TypeOK => \A u \in Users : CanLeave(u)
  BY <1>1 DEF CanLeave
<1> QED
  BY <1>2, StakingTypesAlways, PTL

=============================================================================
