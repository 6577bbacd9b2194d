--------------------------- MODULE PriceFeedProofs --------------------------
(***************************************************************************)
(* What PriceFeed never does, for every set of prices, of decimals, every  *)
(* timeout and every threshold.  In the decisions the comparisons stay     *)
(* folded, which way they go is all that matters; the arithmetic is in     *)
(* what the oracles show (ShownPrices) and in what counts as a jump.       *)
(***************************************************************************)
EXTENDS PriceFeed, CommonTheorems

(* The status is one of the five of the enum: every case of fetchPrice     *)
(* leaves one of them.  Each of the properties needs it, because there is  *)
(* no sixth case.                                                          *)
StatusOK == status \in Status

Deciding ==
  /\ Fetched.status \in Status
  /\ Fetched.price = fetchPrice_v
  /\ Fetched.price = lastGoodPrice \/ Fetched.price \in LivePrices
  /\ \/ Fetched.price = lastGoodPrice
     \/ bothOraclesLiveAndUnbrokenAndSimilarPrice
     \/ Fetched.price \in TrustedPrices
  /\ \/ Fetched.price = lastGoodPrice
     \/ chainlinkIsBroken \/ ~chainlinkPriceChangeAboveMax
     \/ status = "usingTellorChainlinkFrozen" /\ tellorIsBroken
     \/ bothOraclesLiveAndUnbrokenAndSimilarPrice
     \/ ~tellorIsBroken /\ ~tellorIsFrozen /\ Fetched.price = TellorPrice

(* What one decision of the feed guarantees, case by case.                 *)
LEMMA EveryCase == ASSUME StatusOK PROVE Deciding
<1> USE DEF ByChainlink, ByTellor, UseLastGood, UseChainlink, UseTellor
<1>1. CASE status = "chainlinkWorking"
  <2>1. /\ Fetched = FetchWorking
        /\ fetchPrice_v = ByChainlink(TellorOrLastGood, TellorOrLastGood,
             IF chainlinkPriceChangeAboveMax
             THEN ByTellor(lastGoodPrice, lastGoodPrice, SimilarOrTellor)
             ELSE ChainlinkPrice)
        /\ TrustedPrices = {ChainlinkPrice, TellorPrice}
    BY <1>1 DEF Fetched, fetchPrice_v, TrustedPrices
  <2> QED BY <2>1 DEF Deciding, FetchWorking, ChainlinkIfSimilar, SimilarOrTellor,
                      TellorOrLastGood, LivePrices, Status,
                      bothOraclesLiveAndUnbrokenAndSimilarPrice
<1>2. CASE status = "usingTellorChainlinkUntrusted"
  <2>1. /\ Fetched = FetchTellorChainlinkUntrusted
        /\ fetchPrice_v = IF bothOraclesLiveAndUnbrokenAndSimilarPrice
                          THEN ChainlinkPrice ELSE TellorOrLastGood
        /\ TrustedPrices = {TellorPrice}
    BY <1>2 DEF Fetched, fetchPrice_v, TrustedPrices
  <2> QED BY <2>1 DEF Deciding, FetchTellorChainlinkUntrusted, TellorOrLastGood,
                      LivePrices, Status, bothOraclesLiveAndUnbrokenAndSimilarPrice
<1>3. CASE status = "bothOraclesUntrusted"
  <2>1. /\ Fetched = FetchBothUntrusted
        /\ fetchPrice_v = IF bothOraclesLiveAndUnbrokenAndSimilarPrice
                          THEN ChainlinkPrice ELSE lastGoodPrice
    BY <1>3 DEF Fetched, fetchPrice_v
  <2> QED BY <2>1 DEF Deciding, FetchBothUntrusted, LivePrices, Status,
                      bothOraclesLiveAndUnbrokenAndSimilarPrice
<1>4. CASE status = "usingTellorChainlinkFrozen"
  <2>1. /\ Fetched = FetchTellorChainlinkFrozen
        /\ fetchPrice_v = ByChainlink(TellorOrLastGood, TellorOrLastGood,
             ByTellor(ChainlinkPrice, lastGoodPrice, SimilarOrTellor))
        /\ TrustedPrices = {ChainlinkPrice, TellorPrice}
    BY <1>4 DEF Fetched, fetchPrice_v, TrustedPrices
  <2> QED BY <1>4, <2>1 DEF Deciding, FetchTellorChainlinkFrozen, ChainlinkIfSimilar,
                      SimilarOrTellor, TellorOrLastGood, LivePrices, Status,
                      bothOraclesLiveAndUnbrokenAndSimilarPrice
<1>5. CASE status = "usingChainlinkTellorUntrusted"
  <2>1. /\ Fetched = FetchChainlinkTellorUntrusted
        /\ fetchPrice_v = ByChainlink(lastGoodPrice, lastGoodPrice,
             IF bothOraclesLiveAndUnbrokenAndSimilarPrice THEN ChainlinkPrice
             ELSE IF chainlinkPriceChangeAboveMax THEN lastGoodPrice
             ELSE ChainlinkPrice)
        /\ TrustedPrices = {ChainlinkPrice}
    BY <1>5 DEF Fetched, fetchPrice_v, TrustedPrices
  <2> QED BY <2>1 DEF Deciding, FetchChainlinkTellorUntrusted, LivePrices, Status
<1> QED BY <1>1, <1>2, <1>3, <1>4, <1>5 DEF StatusOK, Status

LEMMA StatusAlwaysOK == Spec => []StatusOK
<1>1. Init => StatusOK
  BY DEF Init, StatusOK, Status
<1>2. StatusOK /\ [Next]_vars => StatusOK'
  <2> SUFFICES ASSUME StatusOK, [Next]_vars PROVE StatusOK'
    OBVIOUS
  <2>1. CASE fetchPrice
    BY <2>1, EveryCase DEF fetchPrice, Deciding, StatusOK
  <2>2. CASE ~fetchPrice
    BY <2>2 DEF Next, getPrice, chainlinkPosts, chainlinkStopsOrResumes,
                tellorPosts, timePasses, vars, StatusOK
  <2> QED BY <2>1, <2>2
<1> QED BY <1>1, <1>2, PTL DEF Spec

(* Only a fetch moves the last good price.                                 *)
LEMMA OnlyFetchMoves ==
  ASSUME [Next]_vars, lastGoodPrice' # lastGoodPrice
  PROVE  lastGoodPrice' = Fetched.price
BY DEF Next, fetchPrice, getPrice, chainlinkPosts, chainlinkStopsOrResumes,
       tellorPosts, timePasses, vars

(* The last good price only moves to what a live, unbroken oracle shows at *)
(* that moment (fetchPrice), whatever the oracles do.                      *)
THEOREM GoodPriceAlwaysWasLive == Spec => GoodPriceWasLive
<1>1. StatusOK /\ [Next]_vars
        => [lastGoodPrice' # lastGoodPrice => lastGoodPrice' \in LivePrices]_vars
  BY EveryCase, OnlyFetchMoves DEF Deciding
<1> QED BY <1>1, StatusAlwaysOK, PTL DEF Spec, GoodPriceWasLive

(* An oracle the status of the feed distrusts moves the price again only   *)
(* when both oracles are live and agree.                                   *)
THEOREM DistrustAlwaysLasts == Spec => DistrustLastsUntilAgreement
<1>1. StatusOK /\ [Next]_vars
        => [/\ lastGoodPrice' # lastGoodPrice
            /\ ~bothOraclesLiveAndUnbrokenAndSimilarPrice
            => lastGoodPrice' \in TrustedPrices]_vars
  BY EveryCase, OnlyFetchMoves DEF Deciding
<1> QED BY <1>1, StatusAlwaysOK, PTL DEF Spec, DistrustLastsUntilAgreement

(* The view the protocol reads through answers what fetchPrice would.      *)
THEOREM ViewAlwaysMatchesFetch == Spec => ViewMatchesFetch
<1>1. StatusOK /\ [Next]_vars => [getPrice => priceSeen' = Fetched.price]_vars
  BY EveryCase DEF Deciding, getPrice
<1> QED BY <1>1, StatusAlwaysOK, PTL DEF Spec, ViewMatchesFetch

-----------------------------------------------------------------------------
(* Powers of ten.                                                          *)

\* f obeys the recursion of PowerOf10 up to k.
PowersUpTo(f, k) ==
  /\ f \in [0..77 -> Nat \ {0}]
  /\ \A n \in 0..77 : n <= k => f[n] = IF n = 0 THEN 1 ELSE 10 * f[n - 1]

LEMMA PowersFurther ==
  ASSUME NEW k \in 1..77, NEW f, PowersUpTo(f, k - 1)
  PROVE  PowersUpTo([f EXCEPT ![k] = 10 * f[k - 1]], k)
<1> DEFINE g == [f EXCEPT ![k] = 10 * f[k - 1]]
<1>1. /\ f \in [0..77 -> Nat \ {0}] /\ k - 1 \in 0..77
      /\ \A n \in 0..77 : n <= k - 1 => f[n] = IF n = 0 THEN 1 ELSE 10 * f[n - 1]
  BY DEF PowersUpTo
<1>2. f[k - 1] \in Nat \ {0}
  BY <1>1
<1>3. 10 * f[k - 1] \in Nat \ {0}
  BY <1>2
<1>4. g \in [0..77 -> Nat \ {0}] /\ g[k] = 10 * f[k - 1]
  BY <1>1, <1>3
<1>5. \A n \in 0..77 : n # k => g[n] = f[n]
  BY <1>1
<1> HIDE DEF g
<1>6. ASSUME NEW n \in 0..77, n <= k
      PROVE  g[n] = IF n = 0 THEN 1 ELSE 10 * g[n - 1]
  <2>1. CASE n = k
    <3>1. n # 0 /\ g[k - 1] = f[k - 1]
      BY <1>1, <1>5, <2>1
    <3> QED BY <1>4, <2>1, <3>1
  <2>2. CASE n # k
    <3>1. n <= k - 1 /\ g[n] = f[n] /\ f[n] = IF n = 0 THEN 1 ELSE 10 * f[n - 1]
      BY <1>1, <1>5, <1>6, <2>2
    <3>2. n # 0 => g[n - 1] = f[n - 1]
      BY <1>5, <1>6, <2>2
    <3> QED BY <3>1, <3>2
  <2> QED BY <2>1, <2>2
<1> QED BY <1>4, <1>6 DEF PowersUpTo, g

\* The recursion of PowerOf10 has a solution.
LEMMA PowersFollowed == \E f : PowersUpTo(f, 77)
<1> DEFINE Open == {k \in 1..77 : ~ \E f : PowersUpTo(f, k)}
<1>1. SUFFICES ASSUME Open # {} PROVE FALSE
  OBVIOUS
<1>2. PICK k \in Open : \A j \in Open : k <= j
  <2>1. Open \subseteq 1..77 /\ 77 \in Nat
    OBVIOUS
  <2> HIDE DEF Open
  <2> QED BY <1>1, <2>1, SmallestNat
<1>3. k \in 1..77 /\ ~ \E f : PowersUpTo(f, k)
  BY <1>2
<1>4. \E f : PowersUpTo(f, k - 1)
  <2>1. CASE k = 1
    <3>1. PowersUpTo([n \in 0..77 |-> 1], 0)
      BY DEF PowersUpTo
    <3> QED BY <2>1, <3>1
  <2>2. CASE k # 1
    <3>1. k - 1 \in 1..77 /\ ~(k <= k - 1)
      BY <1>3, <2>2
    <3>2. k - 1 \notin Open
      BY <1>2, <3>1
    <3> QED BY <3>1, <3>2
  <2> QED BY <2>1, <2>2
<1> QED BY <1>3, <1>4, PowersFurther

LEMMA PowersUnfold ==
  \A n \in 0..77 : PowerOf10[n] = IF n = 0 THEN 1 ELSE 10 * PowerOf10[n - 1]
<1>1. PICK f : PowersUpTo(f, 77)
  BY PowersFollowed
<1>2. f = [k \in 0..77 |-> IF k = 0 THEN 1 ELSE 10 * f[k - 1]]
  BY <1>1 DEF PowersUpTo
<1> DEFINE g == PowerOf10
<1>3. g = [k \in 0..77 |-> IF k = 0 THEN 1 ELSE 10 * g[k - 1]]
  BY <1>2 DEF PowerOf10
<1> HIDE DEF g
<1>4. \A n \in 0..77 : g[n] = IF n = 0 THEN 1 ELSE 10 * g[n - 1]
  BY <1>3
<1> QED BY <1>4 DEF g

LEMMA Powers == ASSUME NEW n \in 0..77 PROVE PowerOf10[n] \in Nat \ {0}
<1> DEFINE g == PowerOf10
           Off == {k \in 1..77 : g[k] \notin Nat \ {0}}
<1>1. \A k \in 0..77 : g[k] = IF k = 0 THEN 1 ELSE 10 * g[k - 1]
  BY PowersUnfold
<1> HIDE DEF g
<1>2. SUFFICES ASSUME Off # {} PROVE FALSE
  BY <1>1 DEF g
<1>3. PICK k \in Off : \A j \in Off : k <= j
  <2>1. Off \subseteq 1..77 /\ 77 \in Nat
    OBVIOUS
  <2> HIDE DEF Off
  <2> QED BY <1>2, <2>1, SmallestNat
<1>4. k \in 1..77 /\ k - 1 \in 0..77 /\ ~(k <= k - 1) /\ g[k] \notin Nat \ {0}
  BY <1>3
<1>5. g[k - 1] \in Nat \ {0}
  BY <1>1, <1>3, <1>4
<1>6. g[k] = 10 * g[k - 1] /\ 10 * g[k - 1] \in Nat \ {0}
  BY <1>1, <1>4, <1>5
<1> QED BY <1>4, <1>6
-----------------------------------------------------------------------------
(* What the oracles show.                                                  *)

LEMMA RoundedNat ==
  ASSUME NEW p \in Nat, NEW k \in 0..77
  PROVE  p \div PowerOf10[k] \in Nat /\ RoundedDown(p, k) \in Nat
<1>1. PowerOf10[k] \in Nat \ {0}
  BY Powers
<1>2. p \div PowerOf10[k] \in Nat
  BY <1>1, FloorFits
<1> QED BY <1>1, <1>2, ProductNat DEF RoundedDown

LEMMA ExactQuotient ==
  ASSUME NEW p \in Nat, NEW u \in Nat \ {0}
  PROVE  p * u \in Nat /\ (p * u) \div u = p
<1>1. p * u \in Nat
  BY ProductNat
<1>2. (p * u) \div u \in Nat /\ (p * u) \div u <= p
  BY <1>1, FloorAtMost
<1>3. p <= (p * u) \div u
  BY <1>1, FloorGreatest
<1> QED BY <1>1, <1>2, <1>3

LEMMA MissingFits ==
  /\ 0 \in MissingDigits /\ TARGET_DIGITS - TELLOR_DIGITS \in MissingDigits
  /\ TARGET_DIGITS - TELLOR_DIGITS \in 0..77
  /\ \A d \in Decimals : d >= TARGET_DIGITS => d - TARGET_DIGITS \in 0..77
  /\ \A d \in Decimals : ~(d >= TARGET_DIGITS) =>
        TARGET_DIGITS - d \in 0..77 /\ TARGET_DIGITS - d \in MissingDigits
  /\ MissingDigits \subseteq 0..77
BY PriceAssumption DEF MissingDigits

LEMMA ShownIsPositive == ShownPrices \subseteq Nat \ {0}
<1>1. \A p \in Prices : p \in Nat
  BY PriceAssumption
<1>2. \A k \in MissingDigits : k \in 0..77
  BY MissingFits
<1>3. \A p \in Prices, k \in MissingDigits : RoundedDown(p, k) \in Nat
  BY <1>1, <1>2, RoundedNat
<1> QED BY <1>3 DEF ShownPrices

LEMMA PricesShown == ASSUME NEW p \in Prices PROVE p \in ShownPrices
<1>1. p \in Nat \ {0} /\ PowerOf10[0] = 1 /\ 0 \in MissingDigits
  BY PriceAssumption, PowersUnfold, MissingFits
<1>2. RoundedDown(p, 0) = p
  <2>1. (p * 1) \div 1 = p /\ p * 1 = p
    BY <1>1, ExactQuotient
  <2> QED BY <1>1, <2>1 DEF RoundedDown
<1> QED BY <1>1, <1>2 DEF ShownPrices

LEMMA AnswersShown ==
  ASSUME NEW d \in Decimals, NEW a \in Answers(d)
  PROVE  /\ a \in Nat
         /\ a # 0 => ScaleChainlink(a, d) \in ShownPrices
<1>1. CASE a = 0
  BY <1>1
<1>2. CASE a # 0 /\ d >= TARGET_DIGITS
  <2> DEFINE u == PowerOf10[d - TARGET_DIGITS]
  <2>1. u \in Nat \ {0}
    BY <1>2, MissingFits, Powers
  <2>2. PICK p \in Prices : a = p * u
    BY <1>2 DEF Answers
  <2>3. ScaleChainlink(a, d) = a \div u
    BY <1>2 DEF ScaleChainlink
  <2> HIDE DEF u
  <2>4. p \in Nat
    BY PriceAssumption
  <2>5. a \in Nat /\ a \div u = p
    BY <2>1, <2>2, <2>4, ExactQuotient
  <2> QED BY <2>3, <2>5, PricesShown
<1>3. CASE a # 0 /\ ~(d >= TARGET_DIGITS)
  <2> DEFINE k == TARGET_DIGITS - d
             u == PowerOf10[k]
  <2>1. k \in 0..77 /\ k \in MissingDigits
    BY <1>3, MissingFits
  <2>2. PICK p \in Prices : a = p \div u
    BY <1>3 DEF Answers
  <2>3. ScaleChainlink(a, d) = a * u /\ RoundedDown(p, k) = (p \div u) * u
    BY <1>3 DEF ScaleChainlink, RoundedDown
  <2>4. u \in Nat \ {0}
    BY <2>1, Powers
  <2> HIDE DEF k, u
  <2>5. p \in Nat
    BY PriceAssumption
  <2>6. a \in Nat
    BY <2>2, <2>4, <2>5, FloorFits
  <2>7. a * u # 0
    <3>1. 1 * u <= a * u /\ 1 * u = u
      BY <1>3, <2>4, <2>6, ProductMonotone
    <3> QED BY <2>4, <2>6, <3>1, ProductNat
  <2> QED BY <2>1, <2>2, <2>3, <2>6, <2>7 DEF ShownPrices
<1> QED BY <1>1, <1>2, <1>3

LEMMA ValuesShown ==
  ASSUME NEW v \in Values
  PROVE  v \in Nat /\ (v # 0 => ScaleTellor(v) \in ShownPrices)
<1>1. CASE v = 0
  BY <1>1
<1>2. CASE v # 0
  <2> DEFINE k == TARGET_DIGITS - TELLOR_DIGITS
             u == PowerOf10[k]
  <2>1. k \in 0..77 /\ k \in MissingDigits
    BY MissingFits
  <2>2. PICK p \in Prices : v = p \div u
    BY <1>2 DEF Values
  <2>3. ScaleTellor(v) = v * u /\ RoundedDown(p, k) = (p \div u) * u
    BY DEF ScaleTellor, RoundedDown
  <2>4. u \in Nat \ {0}
    BY <2>1, Powers
  <2> HIDE DEF k, u
  <2>5. p \in Nat
    BY PriceAssumption
  <2>6. v \in Nat
    BY <2>2, <2>4, <2>5, FloorFits
  <2>7. v * u # 0
    <3>1. 1 * u <= v * u /\ 1 * u = u
      BY <1>2, <2>4, <2>6, ProductMonotone
    <3> QED BY <2>4, <2>6, <3>1, ProductNat
  <2> QED BY <2>1, <2>2, <2>3, <2>6, <2>7 DEF ShownPrices
<1> QED BY <1>1, <1>2

LEMMA ScaledNat ==
  ASSUME NEW d \in Decimals, NEW a \in Nat PROVE ScaleChainlink(a, d) \in Nat
<1>1. CASE d >= TARGET_DIGITS
  <2>1. PowerOf10[d - TARGET_DIGITS] \in Nat \ {0}
    BY <1>1, MissingFits, Powers
  <2>2. a \div PowerOf10[d - TARGET_DIGITS] \in Nat
    BY <2>1, FloorFits
  <2> QED BY <1>1, <2>2 DEF ScaleChainlink
<1>2. CASE ~(d >= TARGET_DIGITS)
  <2>1. PowerOf10[TARGET_DIGITS - d] \in Nat \ {0}
    BY <1>2, MissingFits, Powers
  <2>2. a * PowerOf10[TARGET_DIGITS - d] \in Nat
    BY <2>1, ProductNat
  <2> QED BY <1>2, <2>2 DEF ScaleChainlink
<1> QED BY <1>1, <1>2

LEMMA LivePricesShown == ASSUME TypeOK PROVE LivePrices \subseteq ShownPrices
<1>1. ASSUME ~chainlinkIsBroken PROVE ChainlinkPrice \in ShownPrices
  BY <1>1, AnswersShown DEF TypeOK, chainlinkIsBroken, ChainlinkPrice
<1>2. ASSUME ~tellorIsBroken PROVE TellorPrice \in ShownPrices
  BY <1>2, ValuesShown DEF TypeOK, tellorIsBroken, TellorPrice
<1> QED BY <1>1, <1>2 DEF LivePrices

LEMMA OlderFits == ASSUME NEW age \in Ages PROVE Older(age) \in Ages /\ 0 \in Ages
BY PriceAssumption DEF Ages, Older

(* Every price the feed stores or shows is a market price as the oracle    *)
(* that gave it has it: positive, with TARGET_DIGITS.                      *)
THEOREM PriceAlwaysTyped == Spec => []TypeOK
<1>1. Init => TypeOK
  <2> SUFFICES ASSUME Init PROVE TypeOK
    OBVIOUS
  <2>1. PICK d \in Decimals :
          chainlink \in [answer : Answers(d), age : Ages, previous : Answers(d),
                         decimals : {d}, up : BOOLEAN]
    BY DEF Init
  <2>2. /\ chainlink.decimals = d /\ chainlink.answer \in Answers(d)
        /\ chainlink.age \in Ages /\ chainlink.up \in BOOLEAN
        /\ chainlink.previous \in Answers(d)
    BY <2>1
  <2>3. ChainlinkPrice \in ShownPrices
    BY <2>2, AnswersShown DEF Init, chainlinkIsBroken, ChainlinkPrice
  <2> QED BY <2>2, <2>3 DEF Init, TypeOK, Status
<1>2. TypeOK /\ [Next]_vars => TypeOK'
  <2> SUFFICES ASSUME TypeOK, [Next]_vars PROVE TypeOK'
    OBVIOUS
  <2>1. Fetched.status \in Status /\ Fetched.price = fetchPrice_v
        /\ Fetched.price \in ShownPrices
    <3>1. StatusOK
      BY DEF TypeOK, StatusOK
    <3> QED BY <3>1, EveryCase, LivePricesShown DEF Deciding, TypeOK
  <2>2. CASE fetchPrice
    BY <2>1, <2>2 DEF fetchPrice, oracleVars, TypeOK
  <2>3. CASE getPrice
    BY <2>1, <2>3 DEF getPrice, oracleVars, TypeOK
  <2>4. ASSUME NEW d \in Decimals, chainlinkPosts(d) PROVE TypeOK'
    <3>1. PICK answer \in Answers(d) :
            chainlink' = [answer |-> answer, age |-> 0, decimals |-> d,
                          previous |-> chainlink.answer, up |-> chainlink.up]
      BY <2>4 DEF chainlinkPosts
    <3>2. chainlink.answer \in UNION {Answers(e) : e \in Decimals}
      BY DEF TypeOK
    <3>3. 0 \in Ages
      BY PriceAssumption DEF Ages
    <3> QED BY <2>4, <3>1, <3>2, <3>3 DEF chainlinkPosts, TypeOK
  <2>5. CASE chainlinkStopsOrResumes
    BY <2>5 DEF chainlinkStopsOrResumes, TypeOK
  <2>6. CASE tellorPosts
    <3>1. 0 \in Ages
      BY PriceAssumption DEF Ages
    <3> QED BY <2>6, <3>1 DEF tellorPosts, TypeOK
  <2>7. CASE timePasses
    <3>1. Older(chainlink.age) \in Ages /\ Older(tellor.age) \in Ages
      BY OlderFits DEF TypeOK
    <3> QED BY <2>7, <3>1 DEF timePasses, TypeOK
  <2>8. CASE UNCHANGED vars
    BY <2>8 DEF vars, oracleVars, TypeOK
  <2> QED BY <2>2, <2>3, <2>4, <2>5, <2>6, <2>7, <2>8 DEF Next
<1> QED BY <1>1, <1>2, PTL DEF Spec

-----------------------------------------------------------------------------
(* What counts as a jump.                                                  *)

(* A change of more than a half, by the rounding at least, stays above the *)
(* largest change accepted after the division that rounds it down.         *)
LEMMA JumpIsAboveMax ==
  ASSUME NEW x \in Nat \ {0}, NEW y \in Nat,
         2 * Larger(x, y) <= DECIMAL_PRECISION * (Larger(x, y) - 2 * Smaller(x, y))
  PROVE  (Gap(x, y) * DECIMAL_PRECISION) \div Larger(x, y)
           > MAX_PRICE_DEVIATION_FROM_PREVIOUS_ROUND
<1> DEFINE l == Larger(x, y)
           s == Smaller(x, y)
           D == DECIMAL_PRECISION
           M == MAX_PRICE_DEVIATION_FROM_PREVIOUS_ROUND
<1>1. l \in Nat \ {0} /\ s \in Nat /\ s <= l /\ Gap(x, y) = l - s
  BY DEF Larger, Smaller, Gap
<1>2. D \in Nat \ {0} /\ M \in Nat /\ 2 * M <= D
  BY PriceAssumption, DeviationAssumption
<1>3. 2 * l <= D * (l - 2 * s)
  OBVIOUS
<1>4. Gap(x, y) * DECIMAL_PRECISION = (l - s) * D
  BY <1>1
<1> HIDE DEF l, s, D, M
<1>5. (M + 1) * l <= (l - s) * D
  <2>1. 2 * ((l - s) * D) = D * (l - 2 * s) + D * l
    BY <1>1, <1>2, Z3
  <2>2. (2 * M) * l <= D * l
    BY <1>1, <1>2, ProductMonotone
  <2>3. 2 * ((M + 1) * l) = (2 * M) * l + 2 * l
    BY <1>1, <1>2, Z3
  <2>4. (l - s) * D \in Nat /\ (M + 1) * l \in Nat /\ D * l \in Nat /\ (2 * M) * l \in Nat
    BY <1>1, <1>2, ProductNat
  <2>5. D * (l - 2 * s) \in Int
    BY <1>1, <1>2
  <2> QED BY <1>1, <1>3, <2>1, <2>2, <2>3, <2>4, <2>5
<1>6. M + 1 <= ((l - s) * D) \div l
  <2>1. (l - s) * D \in Nat /\ M + 1 \in Nat
    BY <1>1, <1>2, ProductNat
  <2> QED BY <1>1, <1>5, <2>1, FloorGreatest
<1>7. ((l - s) * D) \div l \in Nat
  <2>1. (l - s) * D \in Nat
    BY <1>1, <1>2, ProductNat
  <2> QED BY <1>1, <2>1, FloorFits
<1>8. ((l - s) * D) \div l > M
  BY <1>2, <1>6, <1>7
<1> QED BY <1>4, <1>8 DEF l, M

LEMMA JumpIsNoticed ==
  ASSUME TypeOK, ~chainlinkIsBroken, MoreThanHalvedOrDoubled
  PROVE  chainlinkPriceChangeAboveMax
<1>1. ChainlinkPrice \in Nat \ {0}
  BY AnswersShown, ShownIsPositive DEF TypeOK, chainlinkIsBroken, ChainlinkPrice
<1>2. PreviousPrice \in Nat
  <2>1. chainlink.previous \in Nat /\ chainlink.decimals \in Decimals
    BY AnswersShown DEF TypeOK
  <2> QED BY <2>1, ScaledNat DEF PreviousPrice
<1> QED BY <1>1, <1>2, JumpIsAboveMax
        DEF MoreThanHalvedOrDoubled, chainlinkPriceChangeAboveMax

(* No price of a Chainlink round that more than halves or doubles the one  *)
(* before is stored on Chainlink's word alone, but for the one exception   *)
(* the code makes.                                                         *)
THEOREM JumpAlwaysNeedsSecondOracle == Spec => JumpNeedsSecondOracle
<1>1. TypeOK /\ [Next]_vars
        => [/\ lastGoodPrice' # lastGoodPrice
            /\ ~chainlinkIsBroken /\ MoreThanHalvedOrDoubled
            /\ ~(status = "usingTellorChainlinkFrozen" /\ tellorIsBroken)
            => \/ bothOraclesLiveAndUnbrokenAndSimilarPrice
               \/ ~tellorIsBroken /\ ~tellorIsFrozen /\ lastGoodPrice' = TellorPrice]_vars
  <2>1. TypeOK => StatusOK
    BY DEF TypeOK, StatusOK
  <2> QED BY <2>1, EveryCase, OnlyFetchMoves, JumpIsNoticed DEF Deciding
<1> QED BY <1>1, PriceAlwaysTyped, PTL DEF Spec, JumpNeedsSecondOracle
=============================================================================
