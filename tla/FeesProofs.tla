----------------------------- MODULE FeesProofs -----------------------------
(***************************************************************************)
(* Proofs about Fees for all constants.  First the pace at which the base  *)
(* rate decays: only the clocks matter to it, not the rates; the clock of  *)
(* the base rate jumps to the present exactly when the quotient of the     *)
(* time that passed and a minute, which is what the rate decays by, is not *)
(* 0.  Then the rates and the curves: _decPow stays within 0 and 1         *)
(* whatever it rounds, a fee point within 0 and 100%, and a curve's last   *)
(* fee stands for the fees it remembers.                                   *)
(***************************************************************************)
EXTENDS Fees, CommonTheorems

ClockOK ==
  /\ now \in Nat /\ decayed \in Nat
  /\ lastFeeOperationTime \in Nat /\ lastFeeOperationTime <= now

PaceInv == ClockOK /\ DecayKeepsPace

LEMMA Commutes == ASSUME NEW a \in Nat, NEW b \in Nat PROVE a * b = b * a
  BY Z3

LEMMA Distributes ==
  ASSUME NEW a \in Nat, NEW b \in Nat, NEW c \in Nat
  PROVE  (a + b) * c = a * c + b * c
  BY Z3

(* A time span of q whole minutes, not less than one.                       *)
LEMMA SpanFits ==
  ASSUME NEW span \in Nat, NEW M \in Nat \ {0}, M <= span,
         NEW q, q = span \div M
  PROVE  q \in Nat /\ q * M <= span /\ span <= q * (2 * M - 1)
<1>1. q \in Nat /\ q * M <= span /\ span < q * M + M
  BY FloorFits
<1>2. q # 0
  BY <1>1
<1> DEFINE r == q - 1
           m == M - 1
<1>3. r \in Nat /\ m \in Nat /\ q = r + 1 /\ M = m + 1
  BY <1>1, <1>2
<1> HIDE DEF r, m
<1>4. r * m \in Nat
  BY <1>3, ProductNat
<1>5. q * m = r * m + m
  BY <1>3, <1>4, Distributes
<1>6. q * (2 * M - 1) = q * M + q * m
  <2>1. 2 * M - 1 = M + m
    BY <1>3
  <2>2. q * (M + m) = q * M + q * m
    <3>1. (M + m) * q = M * q + m * q
      BY <1>1, <1>3, Distributes
    <3>2. M + m \in Nat
      BY <1>3
    <3> QED
      BY <1>1, <1>3, <3>1, <3>2, Commutes
  <2> QED
    BY <2>1, <2>2
<1>7. q * M \in Nat
  BY <1>1, ProductNat
<1> QED
  BY <1>1, <1>3, <1>4, <1>5, <1>6, <1>7

LEMMA InitPace == Init => PaceInv
<1> SUFFICES ASSUME Init PROVE PaceInv
  OBVIOUS
<1>1. ClockOK
  BY FeesAssumption DEF Init, ClockOK
<1>2. 0 * Minute = 0 /\ 0 * (2 * Minute - 1) = 0
  BY FeesAssumption, Z3
<1> QED
  BY <1>1, <1>2 DEF Init, PaceInv, DecayKeepsPace

LEMMA UpdateKeepsPace ==
  ASSUME PaceInv, UpdateLastFeeOpTime, UNCHANGED now
  PROVE  PaceInv'
<1> DEFINE span == now - lastFeeOperationTime
           q == span \div Minute
<1>1. span \in Nat /\ Minute \in Nat \ {0} /\ 2 * Minute - 1 \in Nat
  BY FeesAssumption DEF PaceInv, ClockOK
<1>2. lastFeeOperationTime' = (IF span >= Minute THEN now ELSE lastFeeOperationTime)
      /\ decayed' = decayed + q
  BY DEF UpdateLastFeeOpTime, MinutesPassed
<1>3. /\ decayed * Minute <= lastFeeOperationTime
      /\ lastFeeOperationTime <= decayed * (2 * Minute - 1)
      /\ decayed \in Nat /\ lastFeeOperationTime \in Nat /\ now \in Nat
      /\ now = lastFeeOperationTime + span
  BY DEF PaceInv, ClockOK, DecayKeepsPace
<1>4. q \in Nat /\ q * Minute <= span
  BY <1>1, FloorFits
<1>5. CASE span >= Minute
  <2>1. span <= q * (2 * Minute - 1)
    BY <1>1, <1>5, SpanFits
  <2> HIDE DEF q, span
  <2>2. /\ (decayed + q) * Minute = decayed * Minute + q * Minute
        /\ (decayed + q) * (2 * Minute - 1)
             = decayed * (2 * Minute - 1) + q * (2 * Minute - 1)
    BY <1>1, <1>3, <1>4, Distributes
  <2>3. /\ decayed * Minute \in Nat /\ q * Minute \in Nat
        /\ decayed * (2 * Minute - 1) \in Nat /\ q * (2 * Minute - 1) \in Nat
    BY <1>1, <1>3, <1>4, ProductNat
  <2>4. lastFeeOperationTime' = now /\ decayed' = decayed + q
    BY <1>2, <1>5
  <2>5. /\ decayed' * Minute = decayed * Minute + q * Minute
        /\ decayed' * (2 * Minute - 1)
             = decayed * (2 * Minute - 1) + q * (2 * Minute - 1)
    BY <2>2, <2>4
  <2>6. decayed' * Minute <= now /\ now <= decayed' * (2 * Minute - 1)
    BY <1>1, <1>3, <1>4, <2>1, <2>3, <2>5
  <2> QED
    BY <1>3, <1>4, <2>4, <2>6 DEF PaceInv, ClockOK, DecayKeepsPace
<1>6. CASE span < Minute
  <2>1. q = 0
    BY <1>1, <1>6, Z3
  <2>2. UNCHANGED <<lastFeeOperationTime, decayed>>
    BY <1>1, <1>2, <1>3, <1>6, <2>1
  <2> QED
    BY <2>2 DEF PaceInv, ClockOK, DecayKeepsPace
<1> QED
  BY <1>1, <1>5, <1>6

LEMMA NextKeepsPace ==
  ASSUME PaceInv, [Next]_vars
  PROVE  PaceInv'
<1>1. CASE Tick
  BY <1>1 DEF Tick, baseVars, PaceInv, ClockOK, DecayKeepsPace
<1>2. CASE Borrow
  BY <1>2, UpdateKeepsPace DEF Borrow
<1>3. CASE \E r \in Redemptions : Redeem(r[1], r[2])
  BY <1>3, UpdateKeepsPace DEF Redeem
<1>4. CASE UNCHANGED <<now, lastFeeOperationTime, decayed>>
  BY <1>4 DEF PaceInv, ClockOK, DecayKeepsPace
<1>5. CASE \/ \E t \in Tokens, d \in Deposits : Deposit(t, d)
           \/ \E c \in Curves, p \in ParamSets : AdjustParams(c, p)
           \/ \E c \in Curves, n \in DecayTimes : SetDecayTime(c, n)
           \/ \E t \in Tokens, c \in Curves : ChangePriceCurve(t, c)
           \/ UNCHANGED vars
  BY <1>4, <1>5
  DEF Deposit, AdjustParams, SetDecayTime, ChangePriceCurve, baseVars, vars
<1> QED
  BY <1>1, <1>2, <1>3, <1>5 DEF Next

(* The base rate decays by one minute for every one or two that pass,       *)
(* however the calls that decay it are timed (_updateLastFeeOpTime).        *)
THEOREM DecayAlwaysKeepsPace == Spec => []DecayKeepsPace
<1>1. PaceInv /\ [Next]_vars => PaceInv'
  BY NextKeepsPace
<1>2. PaceInv => DecayKeepsPace
  BY DEF PaceInv
<1> QED
  BY <1>1, <1>2, InitPace, PTL DEF Spec
-----------------------------------------------------------------------------
(* The power of the decay factor.                                          *)

LEMMA Constants ==
  /\ DP \in Nat \ {0} /\ DP \div 2 \in Nat /\ DP \div 2 < DP
  /\ MaxMinutes \in Nat \ {0} /\ MinuteDecayFactor \in 0..DP
  /\ RedemptionFeeFloor \in Nat /\ RedemptionFeeFloor < DP
<1>1. DP \div 2 \in Nat /\ DP \div 2 < DP
  BY CurveScale, Z3
<1> QED
  BY <1>1, CurveScale, FeesAssumption

LEMMA DecMulFits ==
  ASSUME NEW x \in 0..DP, NEW y \in 0..DP
  PROVE  DecMul(x, y) \in 0..DP
<1> DEFINE h == DP \div 2
<1>1. DP \in Nat \ {0} /\ h \in Nat /\ h < DP /\ x \in Nat /\ y \in Nat /\ x <= DP /\ y <= DP
  BY Constants
<1> HIDE DEF h
<1>2. x * y \in Nat /\ x * y <= DP * y /\ DP * y <= DP * DP /\ DP * y \in Nat /\ DP * DP \in Nat
  BY <1>1, ProductNat, ProductMonotone
<1>3. (DP + 1) * DP = DP * DP + DP
  BY <1>1, Z3
<1>4. x * y + h \in Nat /\ x * y + h < (DP + 1) * DP /\ DP + 1 \in Nat
  BY <1>1, <1>2, <1>3
<1>5. (x * y + h) \div DP \in Nat /\ (x * y + h) \div DP < DP + 1
  BY <1>1, <1>4, FloorBelow
<1> QED
  BY <1>1, <1>5 DEF DecMul, h

LEMMA PowNextFits ==
  ASSUME NEW s \in PowStates, s.n # 1
  PROVE  PowNext(s) \in PowStates /\ PowNext(s).n < s.n
<1>1. s.n \in 1..MaxMinutes /\ s.x \in 0..DP /\ s.y \in 0..DP
  BY DEF PowStates
<1>2. s.n \div 2 \in 1..MaxMinutes /\ s.n \div 2 < s.n
  <2> DEFINE n == s.n
  <2>1. n \in Nat /\ n > 1 /\ n <= MaxMinutes /\ MaxMinutes \in Nat
    BY <1>1, Constants
  <2> HIDE DEF n
  <2>2. n \div 2 \in Nat /\ n \div 2 >= 1 /\ n \div 2 < n
    BY <2>1, Z3
  <2>3. n \div 2 \in 1..MaxMinutes
    BY <2>1, <2>2
  <2> QED
    BY <2>2, <2>3 DEF n
<1>3. DecMul(s.x, s.x) \in 0..DP /\ DecMul(s.x, s.y) \in 0..DP
  BY <1>1, DecMulFits
<1> QED
  BY <1>1, <1>2, <1>3 DEF PowNext, PowStates

PowStep(f, s) == IF s.n = 1 THEN DecMul(s.x, s.y) ELSE f[PowNext(s)]

\* f follows the loop from every state with no more than k turns' factors.
Follows(f, k) ==
  /\ f \in [PowStates -> 0..DP]
  /\ \A s \in PowStates : s.n <= k => f[s] = PowStep(f, s)

LEMMA FollowsFurther ==
  ASSUME NEW k \in 1..MaxMinutes, NEW f, Follows(f, k - 1)
  PROVE  \E g : Follows(g, k)
<1> DEFINE g == [s \in PowStates |-> IF s.n = k THEN PowStep(f, s) ELSE f[s]]
<1>1. f \in [PowStates -> 0..DP] /\ \A s \in PowStates : s.n <= k - 1 => f[s] = PowStep(f, s)
  BY DEF Follows
<1>2. \A s \in PowStates : s.n \in Nat /\ s.x \in 0..DP /\ s.y \in 0..DP
  BY DEF PowStates
<1>3. k \in Nat
  OBVIOUS
<1>4. \A s \in PowStates : PowStep(f, s) \in 0..DP
  BY <1>1, <1>2, DecMulFits, PowNextFits DEF PowStep
<1>5. g \in [PowStates -> 0..DP]
  BY <1>1, <1>4
<1>6. \A s \in PowStates : g[s] = IF s.n = k THEN PowStep(f, s) ELSE f[s]
  OBVIOUS
<1> HIDE DEF g
<1>7. ASSUME NEW s \in PowStates, s.n <= k PROVE g[s] = PowStep(g, s)
  <2>1. s.n # 1 => g[PowNext(s)] = f[PowNext(s)]
    <3>1. SUFFICES ASSUME s.n # 1 PROVE g[PowNext(s)] = f[PowNext(s)]
      OBVIOUS
    <3>2. PowNext(s) \in PowStates /\ PowNext(s).n < s.n /\ PowNext(s).n \in Nat
      BY <1>2, <3>1, PowNextFits
    <3>3. PowNext(s).n # k
      BY <1>2, <1>3, <1>7, <3>2
    <3> QED
      BY <1>6, <3>2, <3>3
  <2>2. PowStep(g, s) = PowStep(f, s)
    BY <2>1 DEF PowStep
  <2>3. s.n # k => s.n <= k - 1
    BY <1>2, <1>3, <1>7
  <2> QED
    BY <1>1, <1>6, <2>2, <2>3
<1> QED
  BY <1>5, <1>7 DEF Follows

\* The recursion of DecPowLoop has a solution.
LEMMA LoopFollowed == \E f : Follows(f, MaxMinutes)
<1> DEFINE Open == {k \in 1..MaxMinutes : ~ \E f : Follows(f, k)}
<1>1. MaxMinutes \in Nat \ {0}
  BY Constants
<1>2. SUFFICES ASSUME Open # {} PROVE FALSE
  BY <1>1
<1>3. PICK k \in Open : \A j \in Open : k <= j
  <2>1. Open \subseteq 1..MaxMinutes
    OBVIOUS
  <2> HIDE DEF Open
  <2> QED
    BY <1>1, <1>2, <2>1, SmallestNat
<1>4. k \in 1..MaxMinutes /\ ~ \E f : Follows(f, k)
  BY <1>3
<1>5. \E f : Follows(f, k - 1)
  <2>1. CASE k = 1
    <3> DEFINE f == [s \in PowStates |-> 0]
    <3>1. 0 \in 0..DP
      BY Constants
    <3>2. f \in [PowStates -> 0..DP]
      BY <3>1
    <3>3. \A s \in PowStates : s.n \in Nat /\ s.n >= 1
      BY DEF PowStates
    <3>4. \A s \in PowStates : ~(s.n <= k - 1)
      BY <2>1, <3>3
    <3> HIDE DEF f
    <3> QED
      BY <3>2, <3>4 DEF Follows
  <2>2. CASE k # 1
    <3>1. k - 1 \in 1..MaxMinutes /\ ~(k <= k - 1)
      BY <1>1, <1>4, <2>2
    <3>2. k - 1 \notin Open
      BY <1>3, <3>1
    <3> QED
      BY <3>1, <3>2
  <2> QED
    BY <2>1, <2>2
<1> QED
  BY <1>4, <1>5, FollowsFurther

LEMMA LoopUnfolds ==
  DecPowLoop = [s \in PowStates |->
                  IF s.n = 1 THEN DecMul(s.x, s.y) ELSE DecPowLoop[PowNext(s)]]
<1>1. PICK f : Follows(f, MaxMinutes)
  BY LoopFollowed
<1>2. \A s \in PowStates : s.n <= MaxMinutes
  BY DEF PowStates
<1>3. f = [s \in PowStates |-> IF s.n = 1 THEN DecMul(s.x, s.y) ELSE f[PowNext(s)]]
  BY <1>1, <1>2 DEF Follows, PowStep
<1> QED
  BY <1>3 DEF DecPowLoop

LEMMA LoopFits == ASSUME NEW s \in PowStates PROVE DecPowLoop[s] \in 0..DP
<1> DEFINE f == DecPowLoop
           Off == {k \in 1..MaxMinutes : \E r \in PowStates : r.n = k /\ f[r] \notin 0..DP}
<1>1. \A r \in PowStates : f[r] = IF r.n = 1 THEN DecMul(r.x, r.y) ELSE f[PowNext(r)]
  BY LoopUnfolds
<1> HIDE DEF f
<1>2. \A r \in PowStates : r.n \in 1..MaxMinutes /\ r.n \in Nat /\ r.x \in 0..DP /\ r.y \in 0..DP
  BY DEF PowStates
<1>3. SUFFICES ASSUME Off # {} PROVE FALSE
  BY <1>2 DEF f
<1>4. PICK k \in Off : \A j \in Off : k <= j
  <2>1. Off \subseteq 1..MaxMinutes /\ MaxMinutes \in Nat
    BY Constants
  <2> HIDE DEF Off
  <2> QED
    BY <1>3, <2>1, SmallestNat
<1>5. PICK r \in PowStates : r.n = k /\ f[r] \notin 0..DP
  BY <1>4
<1>6. r.n # 1
  BY <1>1, <1>2, <1>5, DecMulFits
<1>7. PowNext(r) \in PowStates /\ PowNext(r).n < r.n /\ f[PowNext(r)] \notin 0..DP
  BY <1>1, <1>5, <1>6, PowNextFits
<1>8. PowNext(r).n \in Off
  BY <1>2, <1>7
<1>9. ~(k <= PowNext(r).n)
  BY <1>2, <1>5, <1>7
<1> QED
  BY <1>4, <1>8, <1>9

LEMMA DecPowFits ==
  ASSUME NEW base \in 0..DP, NEW minutes \in Nat
  PROVE  DecPow(base, minutes) \in 0..DP
<1>1. DP \in 0..DP /\ MaxMinutes \in Nat \ {0}
  BY Constants
<1>2. CASE minutes = 0
  BY <1>1, <1>2 DEF DecPow
<1>3. CASE minutes # 0
  <2> DEFINE s == [n |-> Least(minutes, MaxMinutes), x |-> base, y |-> DP]
  <2>1. Least(minutes, MaxMinutes) \in 1..MaxMinutes
    BY <1>1, <1>3 DEF Least
  <2>2. s \in PowStates
    BY <1>1, <2>1 DEF PowStates
  <2>3. DecPowLoop[s] \in 0..DP
    BY <2>2, LoopFits
  <2> QED
    BY <1>3, <2>3 DEF DecPow
<1> QED
  BY <1>2, <1>3

-----------------------------------------------------------------------------
(* A price curve: its storage, what it charges and what it remembers.      *)

CurveRecord ==
  [m1 : Nat, b1 : Nat, cutoff1 : Nat, m2 : Nat, b2 : Nat, b2Negative : BOOLEAN,
   cutoff2 : Nat, m3 : Nat, b3 : Nat, b3Negative : BOOLEAN, dollarCap : Nat,
   decayTime : Nat, lastFeeTime : Nat, lastFeePercent : 0..DP]

LEMMA SlopeNat == ASSUME NEW m \in Nat, NEW x \in Nat PROVE Slope(m, x) \in Nat
<1>1. m * x \in Nat
  BY ProductNat
<1> QED
  BY <1>1, Constants, FloorFits DEF Slope

LEMMA LineInt ==
  ASSUME NEW m \in Nat, NEW b \in Nat, NEW negative \in BOOLEAN, NEW x \in Nat
  PROVE  Line(m, b, negative, x) \in Int
<1>1. Slope(m, x) \in Nat
  BY SlopeNat
<1> QED
  BY <1>1 DEF Line

LEMMA FeePointFits ==
  ASSUME NEW c \in CurveRecord, NEW vc \in Nat, NEW total \in Nat, FeePointDefined(c, vc, total)
  PROVE  FeePoint(c, vc, total) \in 0..DP
<1>1. CASE total = 0
  BY <1>1, Constants DEF FeePoint
<1>2. CASE total # 0
  <2> DEFINE x == Share(vc, total)
  <2>1. DP \in Nat /\ vc * DP \in Nat
    BY Constants, ProductNat
  <2>2. x \in Nat
    BY <1>2, <2>1, FloorFits DEF Share
  <2>3. Piece(c, x) >= 0
    BY <1>2 DEF FeePointDefined
  <2> HIDE DEF x
  <2>4. /\ c.m1 \in Nat /\ c.b1 \in Nat /\ c.m2 \in Nat /\ c.b2 \in Nat /\ c.b2Negative \in BOOLEAN
        /\ c.m3 \in Nat /\ c.b3 \in Nat /\ c.b3Negative \in BOOLEAN
    BY DEF CurveRecord
  <2>5. FALSE \in BOOLEAN
    OBVIOUS
  <2>6. Piece1(c, x) \in Int /\ Piece2(c, x) \in Int /\ Piece3(c, x) \in Int
    BY <2>2, <2>4, <2>5, LineInt DEF Piece1, Piece2, Piece3
  <2>7. Piece(c, x) \in Int
    BY <2>6 DEF Piece
  <2>8. Least(Piece(c, x), DP) \in 0..DP
    BY <2>1, <2>3, <2>7 DEF Least
  <2> QED
    BY <1>2, <2>8 DEF FeePoint, x
<1> QED
  BY <1>1, <1>2

\* What is left of a fee after x of the d it takes to decay.
LEMMA LeftFits ==
  ASSUME NEW fee \in Nat, NEW d \in Nat \ {0}, NEW x \in Nat, x <= d
  PROVE  fee - (fee * x) \div d \in 0..fee
<1>1. fee * x \in Nat /\ fee * x <= fee * d
  BY ProductNat, ProductMonotone
<1>2. (fee * x) \div d \in Nat /\ (fee * x) \div d <= fee
  BY <1>1, FloorAtMost
<1> QED
  BY <1>2

LEMMA DecayedFeeFits ==
  ASSUME NEW c \in CurveRecord, NEW t \in Nat, c.lastFeeTime <= t, DecayDefined(c, t)
  PROVE  DecayedFee(c, t) \in 0..DP
<1> DEFINE x == t - c.lastFeeTime
           d == c.decayTime
           fee == c.lastFeePercent
<1>1. DP \in Nat /\ d \in Nat /\ fee \in Nat /\ fee <= DP /\ c.lastFeeTime \in Nat
  BY Constants DEF CurveRecord
<1>2. x \in Nat /\ (x <= d => d # 0)
  BY <1>1 DEF DecayDefined
<1>3. DecayedFee(c, t) = IF x <= d THEN fee - (fee * x) \div d ELSE 0
  BY DEF DecayedFee
<1> HIDE DEF x, d, fee
<1>4. x <= d => fee - (fee * x) \div d \in 0..fee
  BY <1>1, <1>2, LeftFits
<1> QED
  BY <1>1, <1>3, <1>4

LEMMA FeeFits ==
  ASSUME NEW c \in CurveRecord, NEW d \in Deposits, NEW t \in Nat, c.lastFeeTime <= t,
         FeeDefined(c, d, t)
  PROVE  /\ Fee(c, d, t) \in 0..DP /\ DecayedFee(c, t) <= Fee(c, d, t)
         /\ Charged(c, d, t) \in CurveRecord
<1> DEFINE pre == FeePoint(c, d.collateral, d.totalPre)
           post == FeePoint(c, d.collateral + d.input, d.totalPost)
           old == DecayedFee(c, t)
<1>1. /\ d.collateral \in Nat /\ d.input \in Nat /\ d.totalPre \in Nat /\ d.totalPost \in Nat
      /\ d.collateral + d.input \in Nat
  BY ArgumentsAssumption
<1>2. pre \in 0..DP /\ post \in 0..DP /\ old \in 0..DP
  BY <1>1, FeePointFits, DecayedFeeFits DEF FeeDefined
<1>3. Fee(c, d, t) = Most((pre + post) \div 2, old)
  BY DEF Fee
<1> HIDE DEF pre, post
<1>4. DP \in Nat /\ (pre + post) \div 2 \in 0..DP
  <2>1. DP \in Nat /\ pre + post \in Nat /\ pre + post <= DP * 2
    BY <1>2, Constants
  <2>2. (pre + post) \div 2 \in Nat /\ (pre + post) \div 2 <= DP
    BY <2>1, FloorAtMost
  <2> QED
    BY <2>1, <2>2
<1> HIDE DEF old
<1>5. Fee(c, d, t) \in 0..DP /\ old <= Fee(c, d, t)
  BY <1>2, <1>3, <1>4 DEF Most
<1>6. Charged(c, d, t) \in CurveRecord
  BY <1>5 DEF Charged, CurveRecord
<1> QED
  BY <1>5, <1>6 DEF old

LEMMA GapNat == ASSUME NEW a \in Nat, NEW b \in Nat PROVE Gap(a, b) \in Nat
  BY DEF Gap

LEMMA AdjustedFits ==
  ASSUME NEW c \in CurveRecord, NEW p \in ParamSets
  PROVE  /\ Adjusted(c, p) \in CurveRecord
         /\ Adjusted(c, p).lastFeeTime = c.lastFeeTime
         /\ Adjusted(c, p).lastFeePercent = c.lastFeePercent
<1>1. /\ p.m1 \in Nat /\ p.b1 \in Nat /\ p.cutoff1 \in Nat /\ p.m2 \in Nat /\ p.cutoff2 \in Nat
      /\ p.m3 \in Nat /\ p.dollarCap \in Nat /\ FiveDays \in Nat
  BY ArgumentsAssumption, CurveScale
<1> DEFINE f1 == Slope(p.m1, p.cutoff1) + p.b1
           f2 == Slope(p.m2, p.cutoff1)
           b2 == Gap(f1, f2)
           g2 == Slope(p.m2, p.cutoff2) + b2
           g3 == Slope(p.m3, p.cutoff2)
           b3 == Gap(g2, g3)
           n2 == c.b2Negative \/ f2 > f1
           n3 == c.b3Negative \/ g3 > g2
<1>2. f1 \in Nat /\ f2 \in Nat
  <2>1. Slope(p.m1, p.cutoff1) \in Nat /\ Slope(p.m2, p.cutoff1) \in Nat
    BY <1>1, SlopeNat
  <2> QED
    BY <1>1, <2>1
<1>3. b2 \in Nat
  <2> HIDE DEF f1, f2
  <2> QED
    BY <1>2, GapNat
<1>4. g2 \in Nat /\ g3 \in Nat
  <2> HIDE DEF b2
  <2>1. Slope(p.m2, p.cutoff2) \in Nat /\ Slope(p.m3, p.cutoff2) \in Nat
    BY <1>1, SlopeNat
  <2> QED
    BY <1>3, <2>1
<1>5. b3 \in Nat
  <2> HIDE DEF g2, g3
  <2> QED
    BY <1>4, GapNat
<1>6. n2 \in BOOLEAN /\ n3 \in BOOLEAN
  OBVIOUS
<1>7. Adjusted(c, p) =
        [c EXCEPT !.m1 = p.m1, !.b1 = p.b1, !.cutoff1 = p.cutoff1,
                  !.m2 = p.m2, !.b2 = b2, !.b2Negative = n2,
                  !.m3 = p.m3, !.b3 = b3, !.b3Negative = n3,
                  !.cutoff2 = p.cutoff2, !.dollarCap = p.dollarCap,
                  !.decayTime = FiveDays]
  BY DEF Adjusted, CurveRecord
<1> HIDE DEF f1, f2, b2, g2, g3, b3, n2, n3
<1>8. c \in CurveRecord
  OBVIOUS
<1>9. [c EXCEPT !.m1 = p.m1, !.b1 = p.b1, !.cutoff1 = p.cutoff1,
                !.m2 = p.m2, !.b2 = b2, !.b2Negative = n2,
                !.m3 = p.m3, !.b3 = b3, !.b3Negative = n3,
                !.cutoff2 = p.cutoff2, !.dollarCap = p.dollarCap,
                !.decayTime = FiveDays] \in CurveRecord
  BY <1>1, <1>3, <1>5, <1>6, <1>8 DEF CurveRecord
<1>10. Adjusted(c, p).lastFeeTime = c.lastFeeTime
       /\ Adjusted(c, p).lastFeePercent = c.lastFeePercent
  BY <1>7, <1>8 DEF CurveRecord
<1> QED
  BY <1>7, <1>9, <1>10

-----------------------------------------------------------------------------
(* The memory of one fee.                                                  *)

Left(r, t) == r.fee - (r.fee * (t - r.time)) \div r.decay

(* At its last fee the curve charged no less than was left of r then, and  *)
(* it decays no faster.                                                    *)
Mem(r, c) ==
  /\ r.time <= c.lastFeeTime /\ r.decay <= c.decayTime
  /\ c.lastFeeTime - r.time < r.decay => Left(r, c.lastFeeTime) <= c.lastFeePercent

Memo == [fee : Nat, time : Nat, decay : Nat]

(* What is left of R after a and then of F after b is no less than what is *)
(* left of R after a + b: the first decay is linear, the second is that of *)
(* a smaller fee over a longer time.                                       *)
LEMMA DecayTwice ==
  ASSUME NEW R \in Nat, NEW F \in Nat, NEW a \in Nat, NEW b \in Nat,
         NEW d \in Nat \ {0}, NEW D \in Nat \ {0}, d <= D, a + b < d,
         R - (R * a) \div d <= F
  PROVE  R - (R * (a + b)) \div d <= F - (F * b) \div D
<1> DEFINE q == (R * a) \div d
           s == (R * (a + b)) \div d
           e == (F * b) \div D
<1>1. /\ R * a \in Nat /\ R * b \in Nat /\ F * b \in Nat /\ R * d \in Nat /\ F * d \in Nat
      /\ R * (a + b) = R * a + R * b
  <2>1. R * a \in Nat /\ R * b \in Nat /\ F * b \in Nat /\ R * d \in Nat /\ F * d \in Nat
    BY ProductNat
  <2>2. (a + b) * R = a * R + b * R
    BY Distributes
  <2>3. a + b \in Nat
    OBVIOUS
  <2> QED
    BY <2>1, <2>2, <2>3, Commutes
<1>2. q \in Nat /\ q * d <= R * a
  BY <1>1, FloorFits
<1>3. s \in Nat /\ R * a + R * b < s * d + d
  <2>1. R * (a + b) \in Nat
    BY <1>1
  <2> QED
    BY <1>1, <2>1, FloorFits
<1>4. e \in Nat /\ e * D <= F * b
  BY <1>1, FloorFits
<1>5. R - q <= F
  OBVIOUS
<1> HIDE DEF q, s, e
<1>6. e * d <= F * b /\ e * d \in Nat /\ q * d \in Nat /\ s * d \in Nat
  <2>1. e * d <= e * D /\ e * d \in Nat /\ e * D \in Nat /\ q * d \in Nat /\ s * d \in Nat
    BY <1>2, <1>3, <1>4, ProductNat, ProductMonotone
  <2> QED
    BY <1>1, <1>4, <2>1
<1>7. R * d <= F * d + q * d
  <2>1. R <= F + q /\ F + q \in Nat
    BY <1>2, <1>5
  <2>2. R * d <= (F + q) * d
    BY <2>1, ProductMonotone
  <2> QED
    BY <1>2, <2>2, Distributes
<1>8. SUFFICES ASSUME F + s + 1 <= R + e PROVE FALSE
  BY <1>3, <1>4, <1>5 DEF q, s, e
<1>9. F * d + s * d + d <= R * d + e * d
  <2>1. F + s + 1 \in Nat /\ R + e \in Nat /\ F + s \in Nat
    BY <1>3, <1>4
  <2>2. (F + s + 1) * d <= (R + e) * d
    BY <1>8, <2>1, ProductMonotone
  <2>3. (F + s + 1) * d = (F + s) * d + 1 * d /\ (F + s) * d = F * d + s * d
        /\ (R + e) * d = R * d + e * d
    BY <1>3, <1>4, <2>1, Distributes
  <2>4. 1 * d = d
    OBVIOUS
  <2> QED
    BY <2>2, <2>3, <2>4
<1>10. CASE R <= F
  <2> DEFINE g == F - R
             h == d - b
  <2>1. g \in Nat /\ h \in Nat /\ F = R + g /\ d = b + h
    BY <1>10
  <2> HIDE DEF g, h
  <2>2. g * d = g * b + g * h /\ g * b \in Nat /\ g * h \in Nat
    <3>1. (b + h) * g = b * g + h * g
      BY <2>1, Distributes
    <3> QED
      BY <2>1, <3>1, Commutes, ProductNat
  <2>3. F * d = R * d + g * d /\ F * b = R * b + g * b
    BY <2>1, Distributes
  <2> QED
    BY <1>1, <1>3, <1>6, <1>9, <2>2, <2>3
<1>11. CASE F < R
  <2>1. F * b <= R * b
    BY <1>11, ProductMonotone
  <2> QED
    BY <1>1, <1>2, <1>3, <1>6, <1>7, <1>9, <2>1
<1> QED
  BY <1>10, <1>11

\* A curve that was no less than what was left of r at its last fee never is.
LEMMA MemLasts ==
  ASSUME NEW r \in Memo, NEW c \in CurveRecord, Mem(r, c), NEW t \in Nat,
         c.lastFeeTime <= t, t - r.time < r.decay
  PROVE  Left(r, t) <= DecayedFee(c, t)
<1> DEFINE R == r.fee
           F == c.lastFeePercent
           a == c.lastFeeTime - r.time
           b == t - c.lastFeeTime
           d == r.decay
           D == c.decayTime
<1>1. /\ R \in Nat /\ d \in Nat /\ r.time \in Nat /\ c.lastFeeTime \in Nat /\ D \in Nat
      /\ F \in 0..DP /\ DP \in Nat
  BY Constants DEF Memo, CurveRecord
<1>2. /\ a \in Nat /\ b \in Nat /\ d \in Nat \ {0} /\ D \in Nat \ {0} /\ d <= D /\ F \in Nat
      /\ a + b = t - r.time /\ a + b < d /\ b <= D /\ a < d
  BY <1>1 DEF Mem
<1>3. R - (R * a) \div d <= F
  BY <1>2 DEF Mem, Left
<1>4. Left(r, t) = R - (R * (a + b)) \div d
  BY <1>2 DEF Left
<1>5. DecayedFee(c, t) = F - (F * b) \div D
  BY <1>2 DEF DecayedFee
<1> HIDE DEF R, F, a, b, d, D
<1>6. R - (R * (a + b)) \div d <= F - (F * b) \div D
  BY <1>1, <1>2, <1>3, DecayTwice
<1> QED
  BY <1>4, <1>5, <1>6

LEMMA FloorDivisor ==
  ASSUME NEW n \in Nat, NEW d \in Nat \ {0}, NEW e \in Nat \ {0}, e <= d
  PROVE  n \div d \in Nat /\ n \div e \in Nat /\ n \div d <= n \div e
<1> DEFINE q == n \div d
<1>1. q \in Nat /\ q * d <= n /\ n \div e \in Nat
  BY FloorFits
<1> HIDE DEF q
<1>2. q * e <= q * d /\ q * e \in Nat /\ q * d \in Nat
  BY <1>1, ProductMonotone, ProductNat
<1>3. q * e <= n
  BY <1>1, <1>2
<1>4. q <= n \div e
  BY <1>1, <1>3, FloorGreatest
<1> QED
  BY <1>1, <1>4 DEF q

\* A fee remembered over a shorter time, by a curve with the same last fee
\* that decays no faster than that.
LEMMA MemShortens ==
  ASSUME NEW r \in Memo, NEW c \in CurveRecord, Mem(r, c), NEW n \in CurveRecord,
         n.lastFeeTime = c.lastFeeTime, n.lastFeePercent = c.lastFeePercent,
         NEW s, s = [r EXCEPT !.decay = Least(@, n.decayTime)]
  PROVE  s \in Memo /\ Mem(s, n)
<1> DEFINE T == c.lastFeeTime
           a == T - r.time
           d == r.decay
           e == Least(d, n.decayTime)
<1>1. r.fee \in Nat /\ r.time \in Nat /\ d \in Nat /\ T \in Nat /\ n.decayTime \in Nat
      /\ c.lastFeePercent \in 0..DP /\ DP \in Nat
  BY Constants DEF Memo, CurveRecord
<1>2. e \in Nat /\ e <= d /\ e <= n.decayTime
  BY <1>1 DEF Least
<1>3. s.fee = r.fee /\ s.time = r.time /\ s.decay = e /\ s \in Memo
  BY <1>1, <1>2 DEF Memo
<1>4. r.time <= T /\ (a < d => r.fee - (r.fee * a) \div d <= c.lastFeePercent)
  BY DEF Mem, Left
<1>5. a \in Nat
  BY <1>1, <1>4
<1> HIDE DEF T, a, d, e
<1>6. ASSUME a < e PROVE r.fee - (r.fee * a) \div e <= c.lastFeePercent
  <2>1. e \in Nat \ {0} /\ d \in Nat \ {0} /\ a < d /\ r.fee * a \in Nat
    BY <1>1, <1>2, <1>5, <1>6, ProductNat
  <2>2. /\ (r.fee * a) \div d \in Nat /\ (r.fee * a) \div e \in Nat
        /\ (r.fee * a) \div d <= (r.fee * a) \div e
    BY <1>2, <2>1, FloorDivisor
  <2>3. r.fee - (r.fee * a) \div d <= c.lastFeePercent
    BY <1>4, <2>1
  <2> QED
    BY <1>1, <2>2, <2>3
<1> QED
  BY <1>2, <1>3, <1>4, <1>6 DEF Mem, Left, T, a

\* A fee just charged is remembered whole.
LEMMA MemFresh ==
  ASSUME NEW c \in CurveRecord, NEW fee \in 0..DP, NEW t \in Nat,
         NEW n \in CurveRecord, n = [c EXCEPT !.lastFeeTime = t, !.lastFeePercent = fee],
         NEW r, r = [fee |-> fee, time |-> t, decay |-> c.decayTime]
  PROVE  r \in Memo /\ Mem(r, n)
<1>1. /\ n.lastFeeTime = t /\ n.lastFeePercent = fee /\ n.decayTime = c.decayTime
      /\ c.decayTime \in Nat /\ fee \in Nat /\ DP \in Nat
  BY Constants DEF CurveRecord
<1>2. r \in Memo /\ r.time = t /\ r.fee = fee /\ r.decay = c.decayTime
  BY <1>1 DEF Memo
<1>3. ASSUME t - t < c.decayTime PROVE fee - (fee * (t - t)) \div c.decayTime <= fee
  <2>1. t - t = 0 /\ c.decayTime \in Nat \ {0}
    BY <1>1, <1>3
  <2>2. 0 \in Nat /\ 0 <= c.decayTime
    BY <1>1
  <2>3. fee - (fee * 0) \div c.decayTime \in 0..fee
    BY <1>1, <2>1, <2>2, LeftFits
  <2> QED
    BY <1>1, <2>1, <2>3
<1> QED
  BY <1>1, <1>2, <1>3 DEF Mem, Left

\* A later, higher fee stands for what it does not fall below.
LEMMA MemCharged ==
  ASSUME NEW r \in Memo, NEW c \in CurveRecord, Mem(r, c), NEW t \in Nat, c.lastFeeTime <= t,
         NEW fee \in 0..DP, DecayedFee(c, t) <= fee, DecayedFee(c, t) \in 0..DP,
         NEW n \in CurveRecord, n = [c EXCEPT !.lastFeeTime = t, !.lastFeePercent = fee]
  PROVE  Mem(r, n)
<1>1. /\ n.lastFeeTime = t /\ n.lastFeePercent = fee /\ n.decayTime = c.decayTime
      /\ c.lastFeeTime \in Nat /\ r.time \in Nat /\ DP \in Nat
      /\ r.fee \in Nat /\ r.decay \in Nat
  BY Constants DEF CurveRecord, Memo
<1>2. r.time <= c.lastFeeTime /\ r.decay <= c.decayTime
  BY DEF Mem
<1>3. ASSUME t - r.time < r.decay PROVE Left(r, t) <= fee
  <2>1. Left(r, t) <= DecayedFee(c, t)
    BY <1>3, MemLasts
  <2>2. Left(r, t) \in Int
    <3> DEFINE x == t - r.time
    <3>1. x \in Nat /\ r.decay \in Nat \ {0}
      BY <1>1, <1>2, <1>3
    <3> HIDE DEF x
    <3>2. x <= r.decay
      BY <1>1, <1>3 DEF x
    <3>3. r.fee - (r.fee * x) \div r.decay \in 0..r.fee
      BY <1>1, <3>1, <3>2, LeftFits
    <3> QED
      BY <1>1, <3>3 DEF Left, x
  <2> QED
    BY <1>1, <2>1, <2>2
<1> QED
  BY <1>1, <1>2, <1>3 DEF Mem

-----------------------------------------------------------------------------
(* The invariant.                                                          *)

FeesTypes ==
  /\ now \in Nat /\ decayed \in Nat
  /\ baseRate \in 0..DP /\ lastFeeOperationTime \in 0..now
  /\ priceCurve \in [Tokens -> Curves]
  /\ curve \in [Curves -> CurveRecord]
  /\ \A c \in Curves : curve[c].lastFeeTime <= now
  /\ remembered \in [Tokens -> Memo]

Memory == \A t \in Tokens : Mem(remembered[t], curve[priceCurve[t]])

FeesInv == FeesTypes /\ RedemptionsStayOpen /\ Memory

LEMMA InitFees == Init => FeesInv
<1> SUFFICES ASSUME Init PROVE FeesInv
  OBVIOUS
<1>1. NewCurve \in CurveRecord /\ NewCurve.lastFeeTime = 0 /\ NewCurve.decayTime = 0
      /\ NewCurve.lastFeePercent = 0
  BY Constants DEF NewCurve, CurveRecord
<1>2. Nothing \in Memo /\ Nothing.time = 0 /\ Nothing.decay = 0
  BY DEF Nothing, Memo
<1>3. FeesTypes
  BY <1>1, <1>2, FeesAssumption, Constants DEF Init, FeesTypes
<1>4. Mem(Nothing, NewCurve)
  BY <1>1, <1>2 DEF Mem
<1>5. \A t \in Tokens : remembered[t] = Nothing /\ curve[priceCurve[t]] = NewCurve
  BY FeesAssumption DEF Init
<1>6. RedemptionsStayOpen
  BY Constants DEF Init, RedemptionsStayOpen
<1> QED
  BY <1>3, <1>4, <1>5, <1>6 DEF FeesInv, Memory

LEMMA ClockFits ==
  ASSUME FeesTypes, UpdateLastFeeOpTime
  PROVE  lastFeeOperationTime' \in 0..now /\ decayed' \in Nat
<1>1. now - lastFeeOperationTime \in Nat /\ Minute \in Nat \ {0}
  BY FeesAssumption DEF FeesTypes
<1>2. MinutesPassed \in Nat
  BY <1>1, FloorFits DEF MinutesPassed
<1> QED
  BY <1>1, <1>2 DEF UpdateLastFeeOpTime, FeesTypes

\* A decayed rate is never above the rate.
LEMMA DecayedFits ==
  ASSUME FeesTypes
  PROVE  DecayedBaseRate \in Nat /\ DecayedBaseRate <= baseRate
<1> DEFINE p == DecPow(MinuteDecayFactor, MinutesPassed)
<1>1. now - lastFeeOperationTime \in Nat /\ Minute \in Nat \ {0}
  BY FeesAssumption DEF FeesTypes
<1>2. MinutesPassed \in Nat
  BY <1>1, FloorFits DEF MinutesPassed
<1>3. p \in 0..DP /\ baseRate \in Nat /\ DP \in Nat \ {0}
  BY <1>2, Constants, DecPowFits DEF FeesTypes
<1> HIDE DEF p
<1>4. p \in Nat /\ p <= DP
  BY <1>3
<1>5. baseRate * p \in Nat /\ baseRate * p <= baseRate * DP
  BY <1>3, <1>4, ProductNat, ProductMonotone
<1>6. (baseRate * p) \div DP \in Nat /\ (baseRate * p) \div DP <= baseRate
  BY <1>3, <1>5, FloorAtMost
<1> QED
  BY <1>6 DEF DecayedBaseRate, p

LEMMA BorrowKeepsFees == ASSUME FeesInv, Borrow PROVE FeesInv'
<1>1. baseRate' = DecayedBaseRate /\ UpdateLastFeeOpTime /\ now' = now
      /\ curve' = curve /\ priceCurve' = priceCurve /\ remembered' = remembered
  BY DEF Borrow, curveVars
<1>2. DecayedBaseRate \in Nat /\ DecayedBaseRate <= baseRate
      /\ lastFeeOperationTime' \in 0..now /\ decayed' \in Nat
  BY <1>1, DecayedFits, ClockFits DEF FeesInv
<1>3. DP \in Nat /\ baseRate \in 0..DP /\ RedemptionFeeFloor \in Nat
  BY Constants DEF FeesInv, FeesTypes
<1>4. baseRate' \in 0..DP /\ RedemptionFeeFloor + baseRate' < DP
  BY <1>1, <1>2, <1>3 DEF FeesInv, RedemptionsStayOpen
<1> QED
  BY <1>1, <1>2, <1>4 DEF FeesInv, FeesTypes, RedemptionsStayOpen, Memory

\* A fee that leaves the redeemer something leaves the rate below 100%.
LEMMA PayableFits ==
  ASSUME NEW rate \in Nat, NEW drawn \in Nat, FeePayable(rate, drawn)
  PROVE  RedemptionFeeFloor + rate < DP
<1>1. DP \in Nat \ {0} /\ RedemptionFeeFloor \in Nat
  BY Constants
<1> SUFFICES ASSUME DP <= RedemptionFeeFloor + rate PROVE FALSE
  BY <1>1
<1>2. RedemptionRate(rate) = DP
  BY <1>1 DEF RedemptionRate, Least
<1>3. RedemptionFee(rate, drawn) = (DP * drawn) \div DP
  BY <1>2 DEF RedemptionFee
<1>4. DP * drawn \in Nat /\ drawn * DP <= DP * drawn
  <2>1. DP * drawn \in Nat /\ drawn * DP = DP * drawn
    BY <1>1, ProductNat, Commutes
  <2> QED
    BY <2>1
<1>5. drawn <= (DP * drawn) \div DP /\ (DP * drawn) \div DP \in Nat
  BY <1>1, <1>4, FloorGreatest, FloorFits
<1> QED
  BY <1>3, <1>5 DEF FeePayable

LEMMA RedeemKeepsFees ==
  ASSUME FeesInv, NEW r \in Redemptions, Redeem(r[1], r[2])
  PROVE  FeesInv'
<1> DEFINE rate == RaisedBaseRate(r[1], r[2])
<1>1. /\ baseRate' = rate /\ UpdateLastFeeOpTime /\ now' = now /\ FeePayable(rate, r[1])
      /\ curve' = curve /\ priceCurve' = priceCurve /\ remembered' = remembered
  BY DEF Redeem, curveVars
<1>2. r[1] \in Nat /\ r[2] \in Nat \ {0}
  <2>1. r \in Nat \X Nat /\ r[1] \in 1..r[2]
    BY ArgumentsAssumption
  <2>2. r[1] \in Nat /\ r[2] \in Nat
    BY <2>1
  <2> QED
    BY <2>1, <2>2
<1>3. DecayedBaseRate \in Nat /\ lastFeeOperationTime' \in 0..now /\ decayed' \in Nat
  BY <1>1, DecayedFits, ClockFits DEF FeesInv
<1>4. rate \in 0..DP
  <2> DEFINE x == r[1]
             n == r[2]
             b == x * 10 * DP
  <2>1. DP \in Nat /\ BETA \in Nat \ {0} /\ x \in Nat /\ n \in Nat \ {0}
    BY <1>2, Constants, FeesAssumption
  <2>2. b \in Nat
    <3> HIDE DEF x
    <3>1. x * 10 \in Nat
      BY <2>1
    <3> QED
      BY <2>1, <3>1, ProductNat
  <2> HIDE DEF b
  <2>3. b \div n \in Nat
    BY <2>1, <2>2, FloorFits
  <2>4. (b \div n) \div BETA \in Nat
    BY <2>1, <2>3, FloorFits
  <2>5. rate = Least(DecayedBaseRate + (b \div n) \div BETA, DP)
    BY DEF RaisedBaseRate, b
  <2> HIDE DEF n, rate
  <2> QED
    BY <1>3, <2>1, <2>4, <2>5 DEF Least
<1> HIDE DEF rate
<1>5. rate \in Nat /\ RedemptionFeeFloor + rate < DP
  <2>1. rate \in Nat
    BY <1>4, Constants
  <2> QED
    BY <1>1, <1>2, <2>1, PayableFits
<1> QED
  BY <1>1, <1>3, <1>4, <1>5 DEF FeesInv, FeesTypes, RedemptionsStayOpen, Memory

LEMMA DepositKeepsFees ==
  ASSUME FeesInv, NEW t \in Tokens, NEW d \in Deposits, Deposit(t, d)
  PROVE  FeesInv'
<1> DEFINE p == priceCurve[t]
           c == curve[p]
           fee == Fee(c, d, now)
           n == Charged(c, d, now)
           r == [fee |-> fee, time |-> now, decay |-> c.decayTime]
<1>1. /\ FeeDefined(c, d, now) /\ curve' = [curve EXCEPT ![p] = n]
      /\ remembered' = [remembered EXCEPT ![t] = r] \/ remembered' = remembered
      /\ now' = now /\ priceCurve' = priceCurve
      /\ baseRate' = baseRate /\ lastFeeOperationTime' = lastFeeOperationTime /\ decayed' = decayed
  BY DEF Deposit, baseVars
<1>2. p \in Curves /\ c \in CurveRecord /\ now \in Nat /\ c.lastFeeTime <= now
  BY DEF FeesInv, FeesTypes
<1>3. n = [c EXCEPT !.lastFeeTime = now, !.lastFeePercent = fee]
  BY DEF Charged
<1>4. c.lastFeeTime <= now /\ FeeDefined(c, d, now) /\ DecayDefined(c, now)
  BY <1>1, <1>2 DEF FeeDefined
<1> HIDE DEF p, c
<1>5. fee \in 0..DP /\ DecayedFee(c, now) <= fee /\ n \in CurveRecord
  BY <1>2, <1>4, FeeFits
<1>6. DecayedFee(c, now) \in 0..DP
  BY <1>2, <1>4, DecayedFeeFits
<1> HIDE DEF fee, n
<1>7. r \in Memo /\ Mem(r, n)
  BY <1>2, <1>3, <1>5, MemFresh DEF r
<1> HIDE DEF r
<1>8. n.lastFeeTime = now
  BY <1>2, <1>3 DEF CurveRecord
<1>9. curve \in [Curves -> CurveRecord] /\ remembered \in [Tokens -> Memo]
      /\ priceCurve \in [Tokens -> Curves]
  BY DEF FeesInv, FeesTypes
<1>10. /\ \A x \in Curves : curve'[x] = IF x = p THEN n ELSE curve[x]
       /\ \A u \in Tokens : remembered'[u] = remembered[u] \/ (u = t /\ remembered'[u] = r)
  BY <1>1, <1>9
<1>11. FeesTypes'
  <2>1. curve' \in [Curves -> CurveRecord] /\ remembered' \in [Tokens -> Memo]
    BY <1>1, <1>5, <1>7, <1>9
  <2>2. \A x \in Curves : curve'[x].lastFeeTime <= now
    BY <1>2, <1>8, <1>10 DEF FeesInv, FeesTypes
  <2> QED
    BY <1>1, <2>1, <2>2 DEF FeesInv, FeesTypes
<1>12. ASSUME NEW u \in Tokens PROVE Mem(remembered[u], curve'[priceCurve[u]])
                                     /\ (u = t => Mem(r, curve'[priceCurve[u]]))
  <2>1. Mem(remembered[u], curve[priceCurve[u]]) /\ remembered[u] \in Memo /\ priceCurve[u] \in Curves
    BY <1>9 DEF FeesInv, Memory
  <2>2. CASE priceCurve[u] = p
    <3>1. Mem(remembered[u], c)
      BY <2>1, <2>2 DEF c
    <3>2. Mem(remembered[u], n)
      BY <1>2, <1>3, <1>5, <1>6, <2>1, <3>1, MemCharged
    <3> QED
      BY <1>7, <1>10, <2>1, <2>2, <3>2
  <2>3. CASE priceCurve[u] # p
    BY <1>10, <2>1, <2>3 DEF p
  <2> QED
    BY <2>2, <2>3
<1>13. Memory'
  BY <1>1, <1>10, <1>12 DEF Memory
<1> QED
  BY <1>1, <1>11, <1>13 DEF FeesInv, RedemptionsStayOpen

\* The three calls of the owner: a token's curve gets new parameters, or is
\* replaced, and its last fee stays.
LEMMA OwnerKeepsFees ==
  ASSUME FeesInv, NEW cs, NEW pc, cs \in [Curves -> CurveRecord], pc \in [Tokens -> Curves],
         \A c \in Curves : cs[c].lastFeeTime <= now,
         \A t \in Tokens : /\ cs[pc[t]].lastFeeTime = curve[priceCurve[t]].lastFeeTime
                           /\ cs[pc[t]].lastFeePercent = curve[priceCurve[t]].lastFeePercent,
         curve' = cs, priceCurve' = pc, remembered' = Shortened(cs, pc),
         UNCHANGED <<now, baseVars>>
  PROVE  FeesInv'
<1>1. now' = now /\ baseRate' = baseRate /\ lastFeeOperationTime' = lastFeeOperationTime
      /\ decayed' = decayed
  BY DEF baseVars
<1>2. /\ curve \in [Curves -> CurveRecord] /\ remembered \in [Tokens -> Memo]
      /\ priceCurve \in [Tokens -> Curves]
  BY DEF FeesInv, FeesTypes
<1>3. /\ DOMAIN remembered' = Tokens /\ remembered' = [t \in Tokens |-> remembered'[t]]
      /\ \A t \in Tokens :
           remembered'[t] = [remembered[t] EXCEPT !.decay = Least(@, cs[pc[t]].decayTime)]
  BY DEF Shortened
<1>4. ASSUME NEW t \in Tokens PROVE remembered'[t] \in Memo /\ Mem(remembered'[t], cs[pc[t]])
  <2>1. /\ remembered[t] \in Memo /\ curve[priceCurve[t]] \in CurveRecord
        /\ cs[pc[t]] \in CurveRecord /\ Mem(remembered[t], curve[priceCurve[t]])
    BY <1>2 DEF FeesInv, Memory
  <2> QED
    BY <1>3, <2>1, MemShortens
<1>5. remembered' \in [Tokens -> Memo]
  BY <1>3, <1>4
<1>6. FeesTypes'
  BY <1>1, <1>5 DEF FeesInv, FeesTypes
<1>7. Memory'
  BY <1>4 DEF Memory
<1> QED
  BY <1>1, <1>6, <1>7 DEF FeesInv, RedemptionsStayOpen

LEMMA AdjustKeepsFees ==
  ASSUME FeesInv, NEW c \in Curves, NEW p \in ParamSets, AdjustParams(c, p)
  PROVE  FeesInv'
<1> DEFINE n == Adjusted(curve[c], p)
           cs == [curve EXCEPT ![c] = n]
<1>1. curve \in [Curves -> CurveRecord] /\ priceCurve \in [Tokens -> Curves]
  BY DEF FeesInv, FeesTypes
<1>2. n \in CurveRecord /\ n.lastFeeTime = curve[c].lastFeeTime
      /\ n.lastFeePercent = curve[c].lastFeePercent
  BY <1>1, AdjustedFits
<1>3. /\ curve' = cs /\ remembered' = Shortened(curve', priceCurve)
      /\ UNCHANGED <<now, baseVars, priceCurve>>
  BY DEF AdjustParams
<1> HIDE DEF n
<1>4. cs \in [Curves -> CurveRecord] /\ \A x \in Curves : cs[x] = IF x = c THEN n ELSE curve[x]
  BY <1>1, <1>2
<1> HIDE DEF cs
<1>5. \A x \in Curves : cs[x].lastFeeTime = curve[x].lastFeeTime
                        /\ cs[x].lastFeePercent = curve[x].lastFeePercent
  BY <1>2, <1>4
<1>6. \A x \in Curves : cs[x].lastFeeTime <= now
  BY <1>5 DEF FeesInv, FeesTypes
<1>7. \A t \in Tokens : /\ cs[priceCurve[t]].lastFeeTime = curve[priceCurve[t]].lastFeeTime
                        /\ cs[priceCurve[t]].lastFeePercent = curve[priceCurve[t]].lastFeePercent
  BY <1>1, <1>5
<1>8. remembered' = Shortened(cs, priceCurve) /\ priceCurve' = priceCurve
      /\ UNCHANGED <<now, baseVars>>
  BY <1>3
<1> QED
  BY <1>1, <1>3, <1>4, <1>6, <1>7, <1>8, OwnerKeepsFees

LEMMA SetDecayKeepsFees ==
  ASSUME FeesInv, NEW c \in Curves, NEW k \in DecayTimes, SetDecayTime(c, k)
  PROVE  FeesInv'
<1> DEFINE n == [curve[c] EXCEPT !.decayTime = k]
           cs == [curve EXCEPT ![c] = n]
<1>1. curve \in [Curves -> CurveRecord] /\ priceCurve \in [Tokens -> Curves] /\ k \in Nat
  BY FeesAssumption DEF FeesInv, FeesTypes
<1>2. n \in CurveRecord /\ n.lastFeeTime = curve[c].lastFeeTime
      /\ n.lastFeePercent = curve[c].lastFeePercent
  BY <1>1 DEF CurveRecord
<1>3. /\ curve' = cs /\ remembered' = Shortened(curve', priceCurve)
      /\ UNCHANGED <<now, baseVars, priceCurve>>
  BY DEF SetDecayTime
<1> HIDE DEF n
<1>4. cs \in [Curves -> CurveRecord] /\ \A x \in Curves : cs[x] = IF x = c THEN n ELSE curve[x]
  BY <1>1, <1>2
<1> HIDE DEF cs
<1>5. \A x \in Curves : cs[x].lastFeeTime = curve[x].lastFeeTime
                        /\ cs[x].lastFeePercent = curve[x].lastFeePercent
  BY <1>2, <1>4
<1>6. \A x \in Curves : cs[x].lastFeeTime <= now
  BY <1>5 DEF FeesInv, FeesTypes
<1>7. \A t \in Tokens : /\ cs[priceCurve[t]].lastFeeTime = curve[priceCurve[t]].lastFeeTime
                        /\ cs[priceCurve[t]].lastFeePercent = curve[priceCurve[t]].lastFeePercent
  BY <1>1, <1>5
<1>8. remembered' = Shortened(cs, priceCurve) /\ priceCurve' = priceCurve
      /\ UNCHANGED <<now, baseVars>>
  BY <1>3
<1> QED
  BY <1>1, <1>3, <1>4, <1>6, <1>7, <1>8, OwnerKeepsFees

LEMMA ChangeKeepsFees ==
  ASSUME FeesInv, NEW t \in Tokens, NEW c \in Curves, ChangePriceCurve(t, c)
  PROVE  FeesInv'
<1> DEFINE old == curve[priceCurve[t]]
           n == Taken(curve[c], old)
           cs == [curve EXCEPT ![c] = n]
           pc == [priceCurve EXCEPT ![t] = c]
<1>1. curve \in [Curves -> CurveRecord] /\ priceCurve \in [Tokens -> Curves] /\ old \in CurveRecord
  BY DEF FeesInv, FeesTypes
<1>2. n \in CurveRecord /\ n.lastFeeTime = old.lastFeeTime
      /\ n.lastFeePercent = old.lastFeePercent /\ n.lastFeeTime <= now
  <2>1. old.lastFeeTime \in Nat /\ old.lastFeePercent \in 0..DP /\ old.lastFeeTime <= now
    BY <1>1 DEF CurveRecord, FeesInv, FeesTypes
  <2> QED
    BY <1>1, <2>1 DEF Taken, CurveRecord
<1>3. /\ curve' = cs /\ priceCurve' = pc /\ remembered' = Shortened(curve', priceCurve')
      /\ UNCHANGED <<now, baseVars>>
      /\ \A u \in Tokens \ {t} : priceCurve[u] # c
  BY DEF ChangePriceCurve
<1> HIDE DEF n
<1>4. /\ cs \in [Curves -> CurveRecord] /\ pc \in [Tokens -> Curves]
      /\ \A x \in Curves : cs[x] = IF x = c THEN n ELSE curve[x]
      /\ \A u \in Tokens : pc[u] = IF u = t THEN c ELSE priceCurve[u]
  BY <1>1, <1>2
<1> HIDE DEF cs, pc
<1>5. \A x \in Curves : cs[x].lastFeeTime <= now
  BY <1>2, <1>4 DEF FeesInv, FeesTypes
<1>6. \A u \in Tokens : /\ cs[pc[u]].lastFeeTime = curve[priceCurve[u]].lastFeeTime
                        /\ cs[pc[u]].lastFeePercent = curve[priceCurve[u]].lastFeePercent
  <2>1. cs[pc[t]] = n
    BY <1>4
  <2>2. \A u \in Tokens \ {t} : cs[pc[u]] = curve[priceCurve[u]]
    BY <1>1, <1>3, <1>4
  <2> QED
    BY <1>2, <2>1, <2>2
<1>7. remembered' = Shortened(cs, pc)
  BY <1>3
<1> QED
  BY <1>3, <1>4, <1>5, <1>6, <1>7, OwnerKeepsFees

LEMMA StepKeepsFees == FeesInv /\ [Next]_vars => FeesInv'
<1> SUFFICES ASSUME FeesInv, [Next]_vars PROVE FeesInv'
  OBVIOUS
<1>1. CASE Tick
  <2>1. /\ now' = now + 1 /\ baseRate' = baseRate /\ decayed' = decayed
        /\ lastFeeOperationTime' = lastFeeOperationTime
        /\ curve' = curve /\ priceCurve' = priceCurve /\ remembered' = remembered
    BY <1>1 DEF Tick, baseVars, curveVars
  <2>2. \A c \in Curves : curve[c].lastFeeTime \in Nat
    BY DEF FeesInv, FeesTypes, CurveRecord
  <2>3. FeesTypes'
    BY <2>1, <2>2 DEF FeesInv, FeesTypes
  <2> QED
    BY <2>1, <2>3 DEF FeesInv, RedemptionsStayOpen, Memory
<1>2. CASE UNCHANGED vars
  BY <1>2 DEF vars, baseVars, curveVars, FeesInv, FeesTypes, RedemptionsStayOpen, Memory
<1> QED
  BY <1>1, <1>2, BorrowKeepsFees, RedeemKeepsFees, DepositKeepsFees, AdjustKeepsFees,
     SetDecayKeepsFees, ChangeKeepsFees DEF Next

(* Fees and rates are percentages and no clock is ahead of the block, over  *)
(* all borrowings, redemptions, deposits and changes of curves.             *)
THEOREM FeesAlwaysTyped == Spec => []TypeOK
<1>1. FeesInv => TypeOK
  <2> SUFFICES ASSUME FeesInv PROVE TypeOK
    OBVIOUS
  <2>1. \A c \in Curves : curve[c].lastFeePercent \in 0..DP /\ curve[c].lastFeeTime \in Nat
                          /\ curve[c].lastFeeTime <= now
    BY DEF FeesInv, FeesTypes, CurveRecord
  <2> QED
    BY <2>1 DEF FeesInv, FeesTypes, TypeOK
<1> QED
  BY <1>1, InitFees, StepKeepsFees, PTL DEF Spec

(* The base rate never makes the fee of the next redemption the whole       *)
(* amount: decay only lowers it, whatever _decPow rounds, and a redemption  *)
(* that would raise it that far reverts in _calcRedemptionFee.              *)
THEOREM RedemptionsAlwaysOpen == Spec => []RedemptionsStayOpen
<1>1. FeesInv => RedemptionsStayOpen
  BY DEF FeesInv
<1> QED
  BY <1>1, InitFees, StepKeepsFees, PTL DEF Spec

(* A variable fee once paid is forgotten no faster than linearly, over any  *)
(* later deposits, new parameters and new curves (getFeeAndUpdate,          *)
(* changePriceCurve).                                                       *)
THEOREM FeeMemoryAlwaysLasts == Spec => []FeeMemoryLasts
<1>1. FeesInv => FeeMemoryLasts
  <2> SUFFICES ASSUME FeesInv, NEW t \in Tokens,
                      now - remembered[t].time < remembered[t].decay
               PROVE  Left(remembered[t], now) <= DecayedFee(curve[priceCurve[t]], now)
    BY DEF FeeMemoryLasts, Left
  <2>1. /\ remembered[t] \in Memo /\ curve[priceCurve[t]] \in CurveRecord /\ now \in Nat
        /\ curve[priceCurve[t]].lastFeeTime <= now /\ Mem(remembered[t], curve[priceCurve[t]])
    BY DEF FeesInv, FeesTypes, Memory
  <2> QED
    BY <2>1, MemLasts
<1> QED
  BY <1>1, InitFees, StepKeepsFees, PTL DEF Spec
=============================================================================
