----------------------------- MODULE PriceFeed ------------------------------
(***************************************************************************)
(* PriceFeed.sol: one collateral's price from two oracles, Chainlink and,  *)
(* when that fails, Tellor.  The feed remembers in status which of the two *)
(* it trusts and in lastGoodPrice what to answer when neither can be used. *)
(*                                                                         *)
(* The oracles post, fall silent and fail on their own between two         *)
(* fetches.  An answer or value of 0 stands for everything that makes a    *)
(* response bad: not positive, round 0, a timestamp of 0 or in the future. *)
(* Timestamps are kept as ages, which stop growing once past TIMEOUT.      *)
(* Whitelist.getPrice, through which the protocol reads the price, calls   *)
(* the view fetchPrice_v; fetchPrice itself is there for anyone to call.   *)
(***************************************************************************)
EXTENDS Integers

CONSTANTS
  Prices,         \* prices with TARGET_DIGITS that the market may have
  Decimals,       \* decimals the Chainlink aggregator may have
  TARGET_DIGITS, TELLOR_DIGITS,
  TIMEOUT,
  DECIMAL_PRECISION,
  MAX_PRICE_DEVIATION_FROM_PREVIOUS_ROUND,
  MAX_PRICE_DIFFERENCE_BETWEEN_ORACLES

ASSUME PriceAssumption ==
  /\ Prices \subseteq Nat \ {0}
  /\ TARGET_DIGITS \in 0..77 /\ TELLOR_DIGITS \in 0..TARGET_DIGITS
  /\ Decimals \subseteq 0..(TARGET_DIGITS + 77)
  /\ TIMEOUT \in Nat /\ DECIMAL_PRECISION \in Nat \ {0}
\* The largest change accepted of one oracle alone is at most a half.
ASSUME DeviationAssumption ==
  /\ MAX_PRICE_DEVIATION_FROM_PREVIOUS_ROUND \in Nat
  /\ 2 * MAX_PRICE_DEVIATION_FROM_PREVIOUS_ROUND <= DECIMAL_PRECISION

VARIABLES
  chainlink,      \* [answer, age, previous: answer of the round before,
                  \*  decimals, up: whether calls to it succeed]
  tellor,         \* [value, age]
  status, lastGoodPrice,
  priceSeen       \* the last price an oracle gave the protocol

oracleVars == <<chainlink, tellor>>
vars == <<oracleVars, status, lastGoodPrice, priceSeen>>

Status == {"chainlinkWorking", "usingTellorChainlinkUntrusted",
           "bothOraclesUntrusted", "usingTellorChainlinkFrozen",
           "usingChainlinkTellorUntrusted"}
Ages == 0..(TIMEOUT + 1)

-----------------------------------------------------------------------------
(* Reading the oracles.                                                    *)

\* 10 ** n: 10 ** 77 is the largest power that fits a word.
PowerOf10[n \in 0..77] == IF n = 0 THEN 1 ELSE 10 * PowerOf10[n - 1]

\* Mutant: an answer with more decimals than the target is not scaled down.
ScaleUpOnly(answer, digits) ==
  IF digits >= TARGET_DIGITS THEN answer ELSE answer * PowerOf10[TARGET_DIGITS - digits]
ScaleChainlink(answer, digits) ==
  IF digits >= TARGET_DIGITS THEN answer \div PowerOf10[digits - TARGET_DIGITS]
                             ELSE answer * PowerOf10[TARGET_DIGITS - digits]
ScaleTellor(value) == value * PowerOf10[TARGET_DIGITS - TELLOR_DIGITS]

ChainlinkPrice == ScaleChainlink(chainlink.answer, chainlink.decimals)
PreviousPrice == ScaleChainlink(chainlink.previous, chainlink.decimals)
TellorPrice == ScaleTellor(tellor.value)

chainlinkIsBroken ==
  ~chainlink.up \/ chainlink.answer = 0 \/ chainlink.previous = 0
chainlinkIsFrozen == chainlink.age > TIMEOUT
tellorIsBroken == tellor.value = 0
tellorIsFrozen == tellor.age > TIMEOUT

Smaller(x, y) == IF x < y THEN x ELSE y
Larger(x, y) == IF x < y THEN y ELSE x
Gap(x, y) == Larger(x, y) - Smaller(x, y)

chainlinkPriceChangeAboveMax ==
  (Gap(ChainlinkPrice, PreviousPrice) * DECIMAL_PRECISION)
     \div Larger(ChainlinkPrice, PreviousPrice)
    > MAX_PRICE_DEVIATION_FROM_PREVIOUS_ROUND
bothOraclesSimilarPrice ==
  (Gap(TellorPrice, ChainlinkPrice) * DECIMAL_PRECISION)
     \div Smaller(TellorPrice, ChainlinkPrice)
    <= MAX_PRICE_DIFFERENCE_BETWEEN_ORACLES
bothOraclesLiveAndUnbrokenAndSimilarPrice ==
  /\ ~tellorIsBroken /\ ~tellorIsFrozen
  /\ ~chainlinkIsBroken /\ ~chainlinkIsFrozen
  /\ bothOraclesSimilarPrice

-----------------------------------------------------------------------------
(* What a fetch answers and the status it leaves, one operator per case of *)
(* fetchPrice.  Every case asks in the same order: broken, frozen, live.   *)

ByChainlink(ifBroken, ifFrozen, ifLive) ==
  IF chainlinkIsBroken THEN ifBroken
  ELSE IF chainlinkIsFrozen THEN ifFrozen ELSE ifLive
\* Mutant: a frozen Tellor is used like a live one.
ByTellorNeverFrozen(ifBroken, ifFrozen, ifLive) ==
  IF tellorIsBroken THEN ifBroken ELSE ifLive
ByTellor(ifBroken, ifFrozen, ifLive) ==
  IF tellorIsBroken THEN ifBroken
  ELSE IF tellorIsFrozen THEN ifFrozen ELSE ifLive

UseLastGood(s) == [status |-> s, price |-> lastGoodPrice]
UseChainlink(s) == [status |-> s, price |-> ChainlinkPrice]
UseTellor(s) == [status |-> s, price |-> TellorPrice]

ChainlinkIfSimilar ==
  IF bothOraclesSimilarPrice THEN UseChainlink("chainlinkWorking")
                             ELSE UseTellor("usingTellorChainlinkUntrusted")

FetchWorking ==
  ByChainlink(
    ByTellor(UseLastGood("bothOraclesUntrusted"),
             UseLastGood("usingTellorChainlinkUntrusted"),
             UseTellor("usingTellorChainlinkUntrusted")),
    ByTellor(UseLastGood("usingChainlinkTellorUntrusted"),
             UseLastGood("usingTellorChainlinkFrozen"),
             UseTellor("usingTellorChainlinkFrozen")),
    IF chainlinkPriceChangeAboveMax
    THEN ByTellor(UseLastGood("bothOraclesUntrusted"),
                  UseLastGood("usingTellorChainlinkUntrusted"),
                  ChainlinkIfSimilar)
    ELSE UseChainlink(IF tellorIsBroken THEN "usingChainlinkTellorUntrusted"
                                        ELSE "chainlinkWorking"))

FetchTellorChainlinkUntrusted ==
  IF bothOraclesLiveAndUnbrokenAndSimilarPrice
  THEN UseChainlink("chainlinkWorking")
  ELSE ByTellor(UseLastGood("bothOraclesUntrusted"),
                UseLastGood("usingTellorChainlinkUntrusted"),
                UseTellor("usingTellorChainlinkUntrusted"))

\* Mutant: Tellor is used again as soon as it answers.
FetchAnyTellor ==
  IF bothOraclesLiveAndUnbrokenAndSimilarPrice
  THEN UseChainlink("chainlinkWorking")
  ELSE ByTellor(UseLastGood("bothOraclesUntrusted"),
                UseLastGood("bothOraclesUntrusted"),
                UseTellor("usingTellorChainlinkUntrusted"))
FetchBothUntrusted ==
  IF bothOraclesLiveAndUnbrokenAndSimilarPrice
  THEN UseChainlink("chainlinkWorking")
  ELSE UseLastGood("bothOraclesUntrusted")

FetchTellorChainlinkFrozen ==
  ByChainlink(
    ByTellor(UseLastGood("bothOraclesUntrusted"),
             UseLastGood("usingTellorChainlinkUntrusted"),
             UseTellor("usingTellorChainlinkUntrusted")),
    ByTellor(UseLastGood("usingChainlinkTellorUntrusted"),
             UseLastGood("usingTellorChainlinkFrozen"),
             UseTellor("usingTellorChainlinkFrozen")),
    ByTellor(UseChainlink("usingChainlinkTellorUntrusted"),
             UseLastGood("usingTellorChainlinkFrozen"),
             ChainlinkIfSimilar))

\* Mutant: the change since the round before is not checked here.
FetchTellorUntrustedAnyChange ==
  ByChainlink(
    UseLastGood("bothOraclesUntrusted"),
    UseLastGood("usingChainlinkTellorUntrusted"),
    UseChainlink(IF bothOraclesLiveAndUnbrokenAndSimilarPrice
                 THEN "chainlinkWorking" ELSE "usingChainlinkTellorUntrusted"))
FetchChainlinkTellorUntrusted ==
  ByChainlink(
    UseLastGood("bothOraclesUntrusted"),
    UseLastGood("usingChainlinkTellorUntrusted"),
    IF bothOraclesLiveAndUnbrokenAndSimilarPrice
    THEN UseChainlink("chainlinkWorking")
    ELSE IF chainlinkPriceChangeAboveMax
         THEN UseLastGood("bothOraclesUntrusted")
         ELSE UseChainlink("usingChainlinkTellorUntrusted"))

Fetched ==
  CASE status = "chainlinkWorking" -> FetchWorking
    [] status = "usingTellorChainlinkUntrusted" -> FetchTellorChainlinkUntrusted
    [] status = "bothOraclesUntrusted" -> FetchBothUntrusted
    [] status = "usingTellorChainlinkFrozen" -> FetchTellorChainlinkFrozen
    [] status = "usingChainlinkTellorUntrusted" -> FetchChainlinkTellorUntrusted

(* fetchPrice_v repeats these cases without the status.                    *)
TellorOrLastGood == ByTellor(lastGoodPrice, lastGoodPrice, TellorPrice)
\* Mutant: the view leaves the comparison of the two oracles out.
AlwaysTellor == TellorPrice
SimilarOrTellor ==
  IF bothOraclesSimilarPrice THEN ChainlinkPrice ELSE TellorPrice

fetchPrice_v ==
  CASE status = "chainlinkWorking" ->
         ByChainlink(TellorOrLastGood, TellorOrLastGood,
           IF chainlinkPriceChangeAboveMax
           THEN ByTellor(lastGoodPrice, lastGoodPrice, SimilarOrTellor)
           ELSE ChainlinkPrice)
    [] status = "usingTellorChainlinkUntrusted" ->
         IF bothOraclesLiveAndUnbrokenAndSimilarPrice
         THEN ChainlinkPrice ELSE TellorOrLastGood
    [] status = "bothOraclesUntrusted" ->
         IF bothOraclesLiveAndUnbrokenAndSimilarPrice
         THEN ChainlinkPrice ELSE lastGoodPrice
    [] status = "usingTellorChainlinkFrozen" ->
         ByChainlink(TellorOrLastGood, TellorOrLastGood,
           ByTellor(ChainlinkPrice, lastGoodPrice, SimilarOrTellor))
    [] status = "usingChainlinkTellorUntrusted" ->
         ByChainlink(lastGoodPrice, lastGoodPrice,
           IF bothOraclesLiveAndUnbrokenAndSimilarPrice THEN ChainlinkPrice
           ELSE IF chainlinkPriceChangeAboveMax THEN lastGoodPrice
           ELSE ChainlinkPrice)

-----------------------------------------------------------------------------
(* Steps of the feed.  setAddresses is the initial state: it takes a live, *)
(* unbroken Chainlink and stores its price.                                *)

fetchPrice ==
  /\ status' = Fetched.status
  /\ lastGoodPrice' = Fetched.price
  /\ priceSeen' = Fetched.price
  /\ UNCHANGED oracleVars

getPrice ==
  /\ priceSeen' = fetchPrice_v
  /\ UNCHANGED <<oracleVars, status, lastGoodPrice>>

(* Steps of the oracles.                                                   *)

\* A market price as an aggregator of d decimals writes it.
Answers(d) ==
  {0} \cup IF d >= TARGET_DIGITS
           THEN {p * PowerOf10[d - TARGET_DIGITS] : p \in Prices}
           ELSE {p \div PowerOf10[TARGET_DIGITS - d] : p \in Prices}
Values == {0} \cup {p \div PowerOf10[TARGET_DIGITS - TELLOR_DIGITS] : p \in Prices}

chainlinkPosts(d) ==
  /\ \E answer \in Answers(d) :
        chainlink' = [answer |-> answer, age |-> 0, decimals |-> d,
                      previous |-> chainlink.answer, up |-> chainlink.up]
  /\ UNCHANGED <<tellor, status, lastGoodPrice, priceSeen>>

chainlinkStopsOrResumes ==
  /\ chainlink' = [chainlink EXCEPT !.up = ~@]
  /\ UNCHANGED <<tellor, status, lastGoodPrice, priceSeen>>

tellorPosts ==
  /\ \E value \in Values : tellor' = [value |-> value, age |-> 0]
  /\ UNCHANGED <<chainlink, status, lastGoodPrice, priceSeen>>

Older(age) == IF age > TIMEOUT THEN age ELSE age + 1
timePasses ==
  /\ chainlink' = [chainlink EXCEPT !.age = Older(@)]
  /\ tellor' = [tellor EXCEPT !.age = Older(@)]
  /\ UNCHANGED <<status, lastGoodPrice, priceSeen>>

Init ==
  /\ \E d \in Decimals :
        chainlink \in [answer : Answers(d), age : Ages, previous : Answers(d),
                       decimals : {d}, up : BOOLEAN]
  /\ tellor \in [value : Values, age : Ages]
  /\ status = "chainlinkWorking"
  /\ ~chainlinkIsBroken /\ ~chainlinkIsFrozen
  /\ lastGoodPrice = ChainlinkPrice /\ priceSeen = lastGoodPrice

Next == \/ fetchPrice \/ getPrice
        \/ \E d \in Decimals : chainlinkPosts(d)
        \/ chainlinkStopsOrResumes \/ tellorPosts \/ timePasses

Spec == Init /\ [][Next]_vars

-----------------------------------------------------------------------------
(* Whatever the decimals of the aggregator, now or when the price was      *)
(* stored, a stored price is a market price with TARGET_DIGITS, of which   *)
(* only the digits the oracle does not have are lost, and it is never 0.   *)
MissingDigits ==
  {0, TARGET_DIGITS - TELLOR_DIGITS}
    \cup {TARGET_DIGITS - d : d \in {e \in Decimals : e < TARGET_DIGITS}}
RoundedDown(price, digits) ==
  (price \div PowerOf10[digits]) * PowerOf10[digits]
ShownPrices ==
  {RoundedDown(p, k) : p \in Prices, k \in MissingDigits} \ {0}
TypeOK ==
  /\ chainlink.decimals \in Decimals
  /\ chainlink.answer \in Answers(chainlink.decimals)
  /\ chainlink.age \in Ages /\ chainlink.up \in BOOLEAN
  /\ chainlink.previous \in UNION {Answers(d) : d \in Decimals}
  /\ tellor \in [value : Values, age : Ages]
  /\ status \in Status
  /\ lastGoodPrice \in ShownPrices /\ priceSeen \in ShownPrices

(* lastGoodPrice only ever moves to the price of an oracle that is neither *)
(* broken nor frozen at that moment.                                       *)
LivePrices == {p \in {ChainlinkPrice} : ~chainlinkIsBroken /\ ~chainlinkIsFrozen}
         \cup {p \in {TellorPrice} : ~tellorIsBroken /\ ~tellorIsFrozen}
GoodPriceWasLive ==
  [][lastGoodPrice' # lastGoodPrice => lastGoodPrice' \in LivePrices]_vars

(* An oracle the status distrusts moves the price again only once both are *)
(* live and agree: after whatever failure, one oracle recovering alone     *)
(* does not undo the distrust of it.                                       *)
TrustedPrices ==
  CASE status = "usingTellorChainlinkUntrusted" -> {TellorPrice}
    [] status = "bothOraclesUntrusted" -> {}
    [] status = "usingChainlinkTellorUntrusted" -> {ChainlinkPrice}
    [] OTHER -> {ChainlinkPrice, TellorPrice}
DistrustLastsUntilAgreement ==
  [][/\ lastGoodPrice' # lastGoodPrice
     /\ ~bothOraclesLiveAndUnbrokenAndSimilarPrice
     => lastGoodPrice' \in TrustedPrices]_vars

(* A Chainlink price that has more than halved or doubled within one round *)
(* is stored only if a live Tellor shows a similar one.  The code makes    *)
(* one exception: Chainlink resuming while Tellor, in use until then, is   *)
(* broken (l.284).  The change is rounded down to DECIMAL_PRECISION, so    *)
(* what is called more than half here is so by that rounding at least.     *)
MoreThanHalvedOrDoubled ==
  2 * Larger(ChainlinkPrice, PreviousPrice)
    <= DECIMAL_PRECISION * (Larger(ChainlinkPrice, PreviousPrice)
                              - 2 * Smaller(ChainlinkPrice, PreviousPrice))
JumpNeedsSecondOracle ==
  [][/\ lastGoodPrice' # lastGoodPrice
     /\ ~chainlinkIsBroken /\ MoreThanHalvedOrDoubled
     /\ ~(status = "usingTellorChainlinkFrozen" /\ tellorIsBroken)
     => \/ bothOraclesLiveAndUnbrokenAndSimilarPrice
        \/ ~tellorIsBroken /\ ~tellorIsFrozen /\ lastGoodPrice' = TellorPrice]_vars

(* The protocol and whoever calls fetchPrice see the same price: the view  *)
(* fetchPrice_v, a second copy of the five cases, answers what fetchPrice  *)
(* would at that moment.                                                   *)
ViewMatchesFetch == [][getPrice => priceSeen' = Fetched.price]_vars
=============================================================================
