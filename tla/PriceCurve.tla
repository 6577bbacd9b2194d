----------------------------- MODULE PriceCurve -----------------------------
(***************************************************************************)
(* The arithmetic of ThreePieceWiseLinearPriceCurve: the variable fee of a *)
(* deposit as a function of how much of the system a collateral backs, and *)
(* the memory of the last fee.  A curve is a record of the contract's      *)
(* storage; fees and shares are fixed point with precision DP (1e18).      *)
(***************************************************************************)
EXTENDS Integers

CONSTANTS
  DP,        \* 1e18
  FiveDays   \* the decay time that adjustParams sets

ASSUME CurveScale == DP \in Nat \ {0} /\ FiveDays \in Nat \ {0}

Least(a, b) == IF a <= b THEN a ELSE b
Most(a, b) == IF a <= b THEN b ELSE a
Gap(a, b) == IF a <= b THEN b - a ELSE a - b

\* A curve as it is created: all storage is zero or false.
NewCurve ==
  [m1 |-> 0, b1 |-> 0, cutoff1 |-> 0, m2 |-> 0, b2 |-> 0, b2Negative |-> FALSE,
   cutoff2 |-> 0, m3 |-> 0, b3 |-> 0, b3Negative |-> FALSE, dollarCap |-> 0,
   decayTime |-> 0, lastFeeTime |-> 0, lastFeePercent |-> 0]

Slope(m, x) == (m * x) \div DP

(* The curve c after adjustParams(p): the flags of negative intercepts are  *)
(* set and never cleared, and the second intercept is added to f2 at the    *)
(* second cutoff whatever its sign.  Requires p.cutoff1 <= p.cutoff2.       *)
Adjusted(c, p) ==
  LET f1 == Slope(p.m1, p.cutoff1) + p.b1
      f2 == Slope(p.m2, p.cutoff1)
      b2 == Gap(f1, f2)
      g2 == Slope(p.m2, p.cutoff2) + b2
      g3 == Slope(p.m3, p.cutoff2)
  IN  [c EXCEPT !.m1 = p.m1, !.b1 = p.b1, !.cutoff1 = p.cutoff1,
                !.m2 = p.m2, !.b2 = b2, !.b2Negative = @ \/ f2 > f1,
                !.m3 = p.m3, !.b3 = Gap(g2, g3), !.b3Negative = @ \/ g3 > g2,
                !.cutoff2 = p.cutoff2, !.dollarCap = p.dollarCap,
                !.decayTime = FiveDays]

\* One line of the curve at share x; below zero the contract reverts.
Line(m, b, negative, x) == IF negative THEN Slope(m, x) - b ELSE Slope(m, x) + b

Piece1(c, x) == Line(c.m1, c.b1, FALSE, x)
Piece2(c, x) == Line(c.m2, c.b2, c.b2Negative, x)
Piece3(c, x) == Line(c.m3, c.b3, c.b3Negative, x)

Piece(c, x) == IF x <= c.cutoff1 THEN Piece1(c, x)
               ELSE IF x <= c.cutoff2 THEN Piece2(c, x) ELSE Piece3(c, x)

Share(vc, total) == (vc * DP) \div total

\* Mutant: the fee is not capped at 100%.
UncappedPoint(c, vc, total) == IF total = 0 THEN 0 ELSE Piece(c, Share(vc, total))

\* _getFeePoint, and the conditions under which it does not revert.
FeePoint(c, vc, total) == IF total = 0 THEN 0 ELSE Least(Piece(c, Share(vc, total)), DP)
FeePointDefined(c, vc, total) ==
  total # 0 => Share(vc, total) <= DP /\ Piece(c, Share(vc, total)) >= 0

(* calculateDecayedFee at time t.  It divides by the decay time, so it      *)
(* reverts in the very moment of the last fee when the decay time is zero.  *)
DecayedFee(c, t) ==
  LET decay == t - c.lastFeeTime
  IN  IF decay <= c.decayTime
      THEN c.lastFeePercent - (c.lastFeePercent * decay) \div c.decayTime
      ELSE 0
DecayDefined(c, t) == c.decayTime # 0 \/ t # c.lastFeeTime

(* getFee and getFeeAndUpdate: the mean of the fee points before and after  *)
(* the deposit d, and no less than what is left of the last fee.            *)
FeeDefined(c, d, t) ==
  /\ c.dollarCap # 0 => d.collateral + d.input <= c.dollarCap
  /\ FeePointDefined(c, d.collateral, d.totalPre)
  /\ FeePointDefined(c, d.collateral + d.input, d.totalPost)
  /\ DecayDefined(c, t)
Fee(c, d, t) ==
  Most((FeePoint(c, d.collateral, d.totalPre)
        + FeePoint(c, d.collateral + d.input, d.totalPost)) \div 2,
       DecayedFee(c, t))
Charged(c, d, t) == [c EXCEPT !.lastFeeTime = t, !.lastFeePercent = Fee(c, d, t)]

\* Mutant: the curve is changed without its memory.
Fresh(new, old) == new

\* changePriceCurve: the new curve goes on from the old one's last fee.
Taken(new, old) ==
  [new EXCEPT !.lastFeePercent = old.lastFeePercent, !.lastFeeTime = old.lastFeeTime]
=============================================================================
