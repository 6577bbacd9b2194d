------------------------- MODULE StabilityPoolProofs -------------------------
(***************************************************************************)
(* Proofs about StabilityPool for all constants.  A deposit is read from   *)
(* its snapshots, so all depends on two facts about a step of anyone: how  *)
(* far the product may move (ProductMoves), and that the sums only grow    *)
(* (SumsGrow).  From these a snapshot stays behind the state, and what it  *)
(* is read as moves in one direction only, in spite of the roundings.      *)
(***************************************************************************)
EXTENDS StabilityPool, CommonTheorems

\* A deposit names a front end that is registered, and stays so.
TagsRegistered ==
  \A u \in Users : LET f == deposits[u].frontEndTag
                   IN  f # NoFrontEnd => frontEnds[f].registered

StabilityInv == TypeOK /\ SnapshotsBehind /\ TagsRegistered
-----------------------------------------------------------------------------
(* What a stake is read as, when the product is p at scale sc of epoch e.  *)

\* A stake that lost nearly all is read as nothing.
Threshold(stake, x) == IF x < stake \div SCALE_FACTOR THEN 0 ELSE x

Scaled(stake, s, sc, p) ==
  IF sc - s.scale = 0 THEN (stake * p) \div s.P
  ELSE IF sc - s.scale = 1 THEN ((stake * p) \div s.P) \div SCALE_FACTOR
  ELSE 0

ReadAt(stake, s, e, sc, p) ==
  IF stake = 0 \/ s.epoch < e THEN 0 ELSE Threshold(stake, Scaled(stake, s, sc, p))

LEMMA CompoundedIsReadNow ==
  ASSUME NEW stake, NEW s
  PROVE  CompoundedStake(stake, s) = ReadAt(stake, s, currentEpoch, currentScale, P)
  BY DEF CompoundedStake, ReadAt, Threshold, Scaled, StakeAcrossScale

\* Where the product may be next: it falls, is scaled up, or starts anew.
Moves(e, sc, p, e2, sc2, p2) ==
  \/ e2 = e /\ sc2 = sc /\ p2 <= p
  \/ e2 = e /\ sc2 = sc + 1 /\ p2 <= p * SCALE_FACTOR
  \/ e2 = e + 1

LEMMA ScaledTypes ==
  ASSUME NEW stake \in Nat, NEW s \in Snapshots, s.P # 0, NEW sc \in Nat, NEW p \in Nat
  PROVE  Scaled(stake, s, sc, p) \in Nat
<1>1. s.P \in Nat \ {0} /\ s.scale \in Nat /\ SCALE_FACTOR \in Nat \ {0}
  BY ScaleAssumption, InputAssumption DEF Snapshots
<1>2. (stake * p) \div s.P \in Nat
  BY <1>1, ProductNat, FloorFits
<1>3. ((stake * p) \div s.P) \div SCALE_FACTOR \in Nat
  BY <1>1, <1>2, FloorFits
<1> QED
  BY <1>2, <1>3 DEF Scaled

LEMMA ReadTypes ==
  ASSUME NEW stake \in Nat, NEW s \in Snapshots, stake # 0 => s.P # 0,
         NEW e \in Nat, NEW sc \in Nat, NEW p \in Nat
  PROVE  ReadAt(stake, s, e, sc, p) \in Nat
<1>1. stake # 0 => Scaled(stake, s, sc, p) \in Nat
  BY ScaledTypes
<1> QED
  BY <1>1 DEF ReadAt, Threshold

\* Scaling P up and the stake down again gives back no more than was lost.
LEMMA ScaledTwice ==
  ASSUME NEW stake \in Nat, NEW sP \in Nat \ {0}, NEW p \in Nat, NEW p2 \in Nat,
         p2 <= p * SCALE_FACTOR
  PROVE  ((stake * p2) \div sP) \div SCALE_FACTOR <= (stake * p) \div sP
<1> DEFINE a == (stake * p2) \div sP
           b == a \div SCALE_FACTOR
<1>0. SCALE_FACTOR \in Nat \ {0}
  BY ScaleAssumption
<1>1. a \in Nat /\ a * sP <= stake * p2
  BY ProductNat, FloorFits
<1>2. b \in Nat /\ b * SCALE_FACTOR <= a
  BY <1>0, <1>1, FloorFits
<1> HIDE DEF a, b
<1>3. stake * p2 <= stake * (p * SCALE_FACTOR)
  BY <1>0, ProductNat, ProductMonotone
<1>4. (b * SCALE_FACTOR) * sP <= a * sP
  BY <1>0, <1>1, <1>2, ProductNat, ProductMonotone
<1>5. /\ (b * SCALE_FACTOR) * sP = (b * sP) * SCALE_FACTOR
      /\ stake * (p * SCALE_FACTOR) = (stake * p) * SCALE_FACTOR
  BY <1>0, <1>2, Z3
<1>6. /\ b * sP \in Nat /\ stake * p \in Nat /\ stake * p2 \in Nat /\ a * sP \in Nat
      /\ (b * sP) * SCALE_FACTOR \in Nat /\ (stake * p) * SCALE_FACTOR \in Nat
  BY <1>0, <1>1, <1>2, ProductNat
<1>7. (b * sP) * SCALE_FACTOR <= (stake * p) * SCALE_FACTOR
  BY <1>1, <1>3, <1>4, <1>5, <1>6
<1>8. b * sP <= stake * p
  BY <1>0, <1>6, <1>7, ProductCancel
<1>9. b <= (stake * p) \div sP
  BY <1>2, <1>6, <1>8, FloorGreatest
<1> QED
  BY <1>9 DEF a, b

LEMMA ScaledShrinks ==
  ASSUME NEW stake \in Nat, NEW s \in Snapshots, s.P # 0,
         NEW e \in Nat, NEW sc \in Nat, NEW p \in Nat,
         NEW e2 \in Nat, NEW sc2 \in Nat, NEW p2 \in Nat,
         Moves(e, sc, p, e2, sc2, p2), e2 = e, s.scale <= sc
  PROVE  Scaled(stake, s, sc2, p2) <= Scaled(stake, s, sc, p)
<1>1. s.P \in Nat \ {0} /\ s.scale \in Nat /\ SCALE_FACTOR \in Nat \ {0}
  BY ScaleAssumption, InputAssumption DEF Snapshots
<1>2. Scaled(stake, s, sc, p) \in Nat /\ Scaled(stake, s, sc2, p2) \in Nat
  BY ScaledTypes
<1>3. CASE sc2 = sc /\ p2 <= p
  <2>1. stake * p2 \in Nat /\ stake * p \in Nat /\ stake * p2 <= stake * p
    BY <1>3, ProductNat, ProductMonotone
  <2>2. /\ (stake * p2) \div s.P \in Nat /\ (stake * p) \div s.P \in Nat
        /\ (stake * p2) \div s.P <= (stake * p) \div s.P
    BY <1>1, <2>1, FloorMonotone
  <2>3. ((stake * p2) \div s.P) \div SCALE_FACTOR <= ((stake * p) \div s.P) \div SCALE_FACTOR
    BY <1>1, <2>2, FloorMonotone
  <2> QED
    BY <1>3, <2>2, <2>3 DEF Scaled
<1>4. CASE sc2 = sc + 1 /\ p2 <= p * SCALE_FACTOR
  <2>1. ((stake * p2) \div s.P) \div SCALE_FACTOR <= (stake * p) \div s.P
    BY <1>1, <1>4, ScaledTwice
  <2>2. CASE s.scale = sc
    BY <1>1, <1>4, <2>1, <2>2 DEF Scaled
  <2>3. CASE s.scale # sc
    <3>1. Scaled(stake, s, sc2, p2) = 0
      BY <1>1, <1>4, <2>3 DEF Scaled
    <3> QED
      BY <1>2, <3>1
  <2> QED
    BY <2>2, <2>3
<1> QED
  BY <1>3, <1>4 DEF Moves

(* Whatever the product does next, a stake is read as no more than before. *)
LEMMA ReadShrinks ==
  ASSUME NEW stake \in Nat, NEW s \in Snapshots, stake # 0 => s.P # 0,
         NEW e \in Nat, NEW sc \in Nat, NEW p \in Nat,
         NEW e2 \in Nat, NEW sc2 \in Nat, NEW p2 \in Nat,
         Moves(e, sc, p, e2, sc2, p2),
         stake # 0 => s.epoch < e \/ (s.epoch = e /\ s.scale <= sc)
  PROVE  ReadAt(stake, s, e2, sc2, p2) <= ReadAt(stake, s, e, sc, p)
<1>0. s.epoch \in Nat
  BY InputAssumption DEF Snapshots, Epochs
<1>1. ReadAt(stake, s, e, sc, p) \in Nat /\ ReadAt(stake, s, e2, sc2, p2) \in Nat
  BY ReadTypes
<1>2. CASE stake = 0 \/ s.epoch < e2
  BY <1>1, <1>2 DEF ReadAt
<1>3. CASE stake # 0 /\ ~(s.epoch < e2)
  <2>1. e2 = e /\ s.epoch = e /\ s.scale <= sc
    BY <1>0, <1>3 DEF Moves
  <2>2. /\ Scaled(stake, s, sc2, p2) <= Scaled(stake, s, sc, p)
        /\ Scaled(stake, s, sc2, p2) \in Nat /\ Scaled(stake, s, sc, p) \in Nat
    BY <1>3, <2>1, ScaledShrinks, ScaledTypes
  <2>3. stake \div SCALE_FACTOR \in Nat
    BY ScaleAssumption, FloorFits
  <2>4. Threshold(stake, Scaled(stake, s, sc2, p2)) <= Threshold(stake, Scaled(stake, s, sc, p))
    BY <2>2, <2>3 DEF Threshold
  <2> QED
    BY <1>0, <1>3, <2>1, <2>4 DEF ReadAt
<1> QED
  BY <1>2, <1>3
-----------------------------------------------------------------------------
(* Gains, from a sum f of the sums' type.                                  *)
SumType(f) == f \in [Epochs \X Scales -> Nat]

\* The sum was at least from at the snapshot's place.
HasSince(f, s, from) == from \in Nat /\ from <= f[s.epoch, s.scale]

LEMMA PortionsGrow ==
  ASSUME NEW f, NEW g, SumType(f), SumType(g), NEW s \in Snapshots, NEW from,
         HasSince(f, s, from), \A x \in Epochs \X Scales : f[x] <= g[x]
  PROVE  /\ Portions(f, s.epoch, s.scale) - from \in Nat
         /\ Portions(g, s.epoch, s.scale) - from \in Nat
         /\ Portions(f, s.epoch, s.scale) - from <= Portions(g, s.epoch, s.scale) - from
<1> DEFINE a == <<s.epoch, s.scale>>
           b == <<s.epoch, s.scale + 1>>
<1>1. a \in Epochs \X Scales /\ b \in Epochs \X Scales
  BY InputAssumption DEF Snapshots, Scales
<1>2. f[a] \in Nat /\ f[b] \in Nat /\ g[a] \in Nat /\ g[b] \in Nat /\ f[a] <= g[a] /\ f[b] <= g[b]
  BY <1>1 DEF SumType
<1>3. /\ f[b] \div SCALE_FACTOR \in Nat /\ g[b] \div SCALE_FACTOR \in Nat
      /\ f[b] \div SCALE_FACTOR <= g[b] \div SCALE_FACTOR
  BY <1>2, ScaleAssumption, FloorMonotone
<1>4. from \in Nat /\ from <= f[a]
  BY DEF HasSince
<1>5. /\ Portions(f, s.epoch, s.scale) = f[a] + f[b] \div SCALE_FACTOR
      /\ Portions(g, s.epoch, s.scale) = g[a] + g[b] \div SCALE_FACTOR
  BY DEF Portions
<1> HIDE DEF a, b
<1> QED
  BY <1>2, <1>3, <1>4, <1>5

LEMMA GainGrows ==
  ASSUME NEW stake \in Nat, NEW f, NEW g, SumType(f), SumType(g), NEW s \in Snapshots, NEW from,
         stake # 0 => s.P # 0 /\ HasSince(f, s, from),
         \A x \in Epochs \X Scales : f[x] <= g[x]
  PROVE  /\ Gain(stake, f, s, from) \in Nat /\ Gain(stake, g, s, from) \in Nat
         /\ Gain(stake, f, s, from) <= Gain(stake, g, s, from)
<1>1. CASE stake = 0
  BY <1>1 DEF Gain
<1>2. CASE stake # 0
  <2> DEFINE a == Portions(f, s.epoch, s.scale) - from
             b == Portions(g, s.epoch, s.scale) - from
  <2>1. a \in Nat /\ b \in Nat /\ a <= b
    BY <1>2, PortionsGrow
  <2>2. Gain(stake, f, s, from) = ((stake * a) \div s.P) \div DP
    BY <1>2 DEF Gain
  <2>3. Gain(stake, g, s, from) = ((stake * b) \div s.P) \div DP
    BY <1>2 DEF Gain
  <2> HIDE DEF a, b
  <2>4. s.P \in Nat \ {0} /\ DP \in Nat \ {0}
    BY <1>2, ScaleAssumption DEF Snapshots
  <2>5. stake * a \in Nat /\ stake * b \in Nat /\ stake * a <= stake * b
    BY <2>1, ProductNat, ProductMonotone
  <2>6. /\ (stake * a) \div s.P \in Nat /\ (stake * b) \div s.P \in Nat
        /\ (stake * a) \div s.P <= (stake * b) \div s.P
    BY <2>4, <2>5, FloorMonotone
  <2> QED
    BY <2>2, <2>3, <2>4, <2>6, FloorMonotone
<1> QED
  BY <1>1, <1>2
-----------------------------------------------------------------------------
(* What any step may do to the product and to the sums.                    *)
ProductMoves == Moves(currentEpoch, currentScale, P, currentEpoch', currentScale', P')

SumsGrow ==
  \A x \in Epochs \X Scales :
    /\ epochToScaleToG[x] <= epochToScaleToG'[x]
    /\ \A t \in Tokens : epochToScaleToSum[t][x] <= epochToScaleToSum'[t][x]

ProductTypes == P \in 1..DP /\ currentScale \in 0..MaxScale /\ currentEpoch \in Epochs

SumTypes ==
  /\ epochToScaleToSum \in [Tokens -> [Epochs \X Scales -> Nat]]
  /\ epochToScaleToG \in [Epochs \X Scales -> Nat]

LEMMA BehindSays ==
  ASSUME NEW s \in Snapshots, Behind(s), ProductTypes
  PROVE  /\ s.P # 0
         /\ HasSince(epochToScaleToG, s, s.G)
         /\ \A t \in Tokens : HasSince(epochToScaleToSum[t], s, s.S[t])
         /\ s.epoch < currentEpoch \/ (s.epoch = currentEpoch /\ s.scale <= currentScale)
<1>1. s.G \in Nat /\ \A t \in Tokens : s.S[t] \in Nat
  BY DEF Snapshots
<1>2. s.scale \in Nat /\ s.epoch \in Nat /\ currentScale \in Nat
  BY InputAssumption DEF Snapshots, Epochs, ProductTypes
<1>3. s.epoch < currentEpoch \/ (s.epoch = currentEpoch /\ s.scale <= currentScale)
  <2>1. Before(s, [NoSnapshot EXCEPT !.epoch = currentEpoch, !.scale = currentScale, !.P = P])
    BY DEF Behind
  <2> QED
    BY <1>2, <2>1 DEF Before, NoSnapshot
<1>4. HasSince(epochToScaleToG, s, s.G)
  BY <1>1 DEF Behind, HasSince
<1>5. ASSUME NEW t \in Tokens PROVE HasSince(epochToScaleToSum[t], s, s.S[t])
  BY <1>1 DEF Behind, HasSince
<1> QED
  BY <1>3, <1>4, <1>5 DEF Behind

\* Behind, said of any state.
BehindAt(s, e, sc, p, sumG, sumS) ==
  /\ s.P # 0
  /\ \/ s.epoch < e
     \/ s.epoch = e /\ s.scale < sc
     \/ s.epoch = e /\ s.scale = sc /\ s.P >= p
  /\ s.G <= sumG[<<s.epoch, s.scale>>]
  /\ \A t \in Tokens : s.S[t] <= sumS[t][<<s.epoch, s.scale>>]

LEMMA BehindIs ==
  ASSUME NEW s
  PROVE  Behind(s) = BehindAt(s, currentEpoch, currentScale, P, epochToScaleToG, epochToScaleToSum)
<1> DEFINE now == [NoSnapshot EXCEPT !.epoch = currentEpoch, !.scale = currentScale, !.P = P]
<1>1. now.epoch = currentEpoch /\ now.scale = currentScale /\ now.P = P
  BY DEF NoSnapshot
<1>2. Behind(s) = (/\ s.P # 0 /\ Before(s, now)
                   /\ s.G <= epochToScaleToG[<<s.epoch, s.scale>>]
                   /\ \A t \in Tokens : s.S[t] <= epochToScaleToSum[t][<<s.epoch, s.scale>>])
  BY DEF Behind
<1> HIDE DEF now
<1> QED
  BY <1>1, <1>2 DEF Before, BehindAt

(* A snapshot that no call replaces stays behind.                          *)
LEMMA StaysBehind ==
  ASSUME NEW s \in Snapshots, Behind(s), ProductTypes, ProductTypes', SumTypes, SumTypes',
         ProductMoves, SumsGrow
  PROVE  BehindAt(s, currentEpoch', currentScale', P', epochToScaleToG', epochToScaleToSum')
<1> DEFINE x == <<s.epoch, s.scale>>
<1>0. BehindAt(s, currentEpoch, currentScale, P, epochToScaleToG, epochToScaleToSum)
  BY BehindIs
<1>1. x \in Epochs \X Scales
  BY InputAssumption DEF Snapshots, Scales
<1>2. s.G <= epochToScaleToG'[x]
  <2>1. s.G <= epochToScaleToG[x]
    BY <1>0 DEF BehindAt
  <2>2. epochToScaleToG[x] <= epochToScaleToG'[x]
    BY <1>1 DEF SumsGrow
  <2>3. s.G \in Nat /\ epochToScaleToG[x] \in Nat /\ epochToScaleToG'[x] \in Nat
    BY <1>1 DEF SumTypes, Snapshots
  <2> HIDE DEF x
  <2> QED
    BY <2>1, <2>2, <2>3
<1>3. ASSUME NEW t \in Tokens PROVE s.S[t] <= epochToScaleToSum'[t][x]
  <2>1. s.S[t] <= epochToScaleToSum[t][x]
    BY <1>0 DEF BehindAt
  <2>2. epochToScaleToSum[t][x] <= epochToScaleToSum'[t][x]
    BY <1>1 DEF SumsGrow
  <2>3. s.S[t] \in Nat /\ epochToScaleToSum[t][x] \in Nat /\ epochToScaleToSum'[t][x] \in Nat
    BY <1>1 DEF SumTypes, Snapshots
  <2> HIDE DEF x
  <2> QED
    BY <2>1, <2>2, <2>3
<1>4. \/ s.epoch < currentEpoch'
      \/ s.epoch = currentEpoch' /\ s.scale < currentScale'
      \/ s.epoch = currentEpoch' /\ s.scale = currentScale' /\ s.P >= P'
  <2>1. /\ s.epoch \in Nat /\ s.scale \in Nat /\ s.P \in Nat
        /\ currentEpoch \in Nat /\ currentScale \in Nat /\ P \in Nat
        /\ currentEpoch' \in Nat /\ currentScale' \in Nat /\ P' \in Nat
    BY InputAssumption, ScaleAssumption DEF Snapshots, ProductTypes, Epochs
  <2> HIDE DEF x
  <2>2. \/ s.epoch < currentEpoch
        \/ s.epoch = currentEpoch /\ s.scale < currentScale
        \/ s.epoch = currentEpoch /\ s.scale = currentScale /\ s.P >= P
    BY <1>0 DEF BehindAt
  <2> QED
    BY <2>1, <2>2 DEF ProductMoves, Moves
<1>5. s.P # 0
  BY <1>0 DEF BehindAt
<1> QED
  BY <1>2, <1>3, <1>4, <1>5 DEF BehindAt

(* What u's record is read as, in this state and in the next one.          *)
KickbackOf(u) ==
  IF deposits[u].frontEndTag = NoFrontEnd THEN DP ELSE frontEnds[deposits[u].frontEndTag].kickbackRate

LEMMA YETIGainIs ==
  ASSUME NEW u, NEW G
  PROVE  DepositorYETIGain(u, G)
           = (KickbackOf(u) * Gain(deposits[u].initialValue, G, depositSnapshots[u],
                                   depositSnapshots[u].G)) \div DP
  BY DEF DepositorYETIGain, KickbackOf

LEMMA DepositFacts ==
  ASSUME StabilityInv, NEW u \in Users
  PROVE  /\ deposits[u].initialValue \in Nat /\ deposits[u].frontEndTag \in Tags
         /\ depositSnapshots[u] \in Snapshots
         /\ ProductTypes /\ SumTypes /\ KickbackOf(u) \in 0..DP
         /\ deposits[u].initialValue # 0 => Behind(depositSnapshots[u])
<1>1. ProductTypes /\ SumTypes
  BY DEF StabilityInv, TypeOK, ProductTypes, SumTypes
<1>2. deposits[u].initialValue \in Nat /\ deposits[u].frontEndTag \in Tags
      /\ depositSnapshots[u] \in Snapshots
  BY DEF StabilityInv, TypeOK
<1>3. deposits[u].initialValue # 0 => Behind(depositSnapshots[u])
  BY DEF StabilityInv, SnapshotsBehind
<1>4. DP \in 0..DP
  BY ScaleAssumption
<1>5. \A f \in Tags : frontEnds[f].kickbackRate \in 0..DP
  BY DEF StabilityInv, TypeOK
<1>6. KickbackOf(u) \in 0..DP
  BY <1>2, <1>4, <1>5 DEF KickbackOf
<1> QED
  BY <1>1, <1>2, <1>3, <1>6

LEMMA FrontEndFacts ==
  ASSUME StabilityInv, NEW f \in Tags
  PROVE  /\ frontEndStakes[f] \in Nat /\ frontEndSnapshots[f] \in Snapshots
         /\ ProductTypes /\ SumTypes /\ frontEnds[f].kickbackRate \in 0..DP
         /\ frontEndStakes[f] # 0 => Behind(frontEndSnapshots[f])
<1>1. ProductTypes /\ SumTypes
  BY DEF StabilityInv, TypeOK, ProductTypes, SumTypes
<1>2. frontEndStakes[f] \in Nat /\ frontEndSnapshots[f] \in Snapshots
      /\ frontEnds[f].kickbackRate \in 0..DP
  BY DEF StabilityInv, TypeOK
<1>3. frontEndStakes[f] # 0 => Behind(frontEndSnapshots[f])
  BY DEF StabilityInv, SnapshotsBehind
<1> QED
  BY <1>1, <1>2, <1>3

ReadsKept(u) ==
  /\ CompoundedDeposit(u)' <= CompoundedDeposit(u)
  /\ DepositorYETIGain(u, epochToScaleToG)' >= DepositorYETIGain(u, epochToScaleToG)
  /\ \A t \in Tokens : CollGain(u, t)' >= CollGain(u, t)

(* The statement of OthersNeverTakeGains for one user, from what the step  *)
(* does to the product, the sums and the kickback rates.                   *)
LEMMA ReadsAreKept ==
  ASSUME StabilityInv, StabilityInv', ProductMoves, SumsGrow, NEW u \in Users,
         deposits'[u] = deposits[u], depositSnapshots'[u] = depositSnapshots[u],
         KickbackOf(u)' = KickbackOf(u)
  PROVE  ReadsKept(u)
<1> DEFINE d == deposits[u].initialValue
           s == depositSnapshots[u]
           k == KickbackOf(u)
<1>1. /\ d \in Nat /\ s \in Snapshots /\ ProductTypes /\ SumTypes /\ k \in 0..DP
      /\ d # 0 => Behind(s)
  BY DepositFacts
<1>2. ProductTypes' /\ SumTypes'
  BY DEF StabilityInv, TypeOK, ProductTypes, SumTypes
<1>3. d # 0 => /\ s.P # 0
               /\ HasSince(epochToScaleToG, s, s.G)
               /\ \A t \in Tokens : HasSince(epochToScaleToSum[t], s, s.S[t])
               /\ s.epoch < currentEpoch \/ (s.epoch = currentEpoch /\ s.scale <= currentScale)
  BY <1>1, BehindSays
<1>4. /\ CompoundedDeposit(u) = ReadAt(d, s, currentEpoch, currentScale, P)
      /\ CompoundedDeposit(u)' = ReadAt(d, s, currentEpoch', currentScale', P')
  <2>1. CompoundedDeposit(u) = ReadAt(d, s, currentEpoch, currentScale, P)
    BY CompoundedIsReadNow DEF CompoundedDeposit
  <2>2. CompoundedDeposit(u)'
          = CompoundedStake(deposits[u].initialValue, depositSnapshots[u])'
    BY DEF CompoundedDeposit
  <2>3. CompoundedStake(deposits[u].initialValue, depositSnapshots[u])'
          = ReadAt(d, s, currentEpoch', currentScale', P')
    BY DEF CompoundedStake, ReadAt, Threshold, Scaled, StakeAcrossScale
  <2> QED
    BY <2>1, <2>2, <2>3
<1>5. /\ \A t \in Tokens : CollGain(u, t) = Gain(d, epochToScaleToSum[t], s, s.S[t])
      /\ \A t \in Tokens : CollGain(u, t)' = Gain(d, epochToScaleToSum'[t], s, s.S[t])
  BY DEF CollGain, Gain, Portions
<1>6. /\ DepositorYETIGain(u, epochToScaleToG)
           = (k * Gain(d, epochToScaleToG, s, s.G)) \div DP
      /\ DepositorYETIGain(u, epochToScaleToG)'
           = (k * Gain(d, epochToScaleToG', s, s.G)) \div DP
  <2>1. DepositorYETIGain(u, epochToScaleToG)'
          = ((KickbackOf(u)')
              * Gain(deposits'[u].initialValue, epochToScaleToG', depositSnapshots'[u],
                     depositSnapshots'[u].G)) \div DP
    BY DEF DepositorYETIGain, KickbackOf, Gain, Portions
  <2> QED
    BY <2>1, YETIGainIs
<1> HIDE DEF d, s, k
<1>7. CompoundedDeposit(u)' <= CompoundedDeposit(u)
  <2>1. /\ currentEpoch \in Nat /\ currentScale \in Nat /\ P \in Nat
        /\ currentEpoch' \in Nat /\ currentScale' \in Nat /\ P' \in Nat
    BY <1>1, <1>2, InputAssumption, ScaleAssumption DEF ProductTypes, Epochs
  <2>2. /\ Moves(currentEpoch, currentScale, P, currentEpoch', currentScale', P')
        /\ d # 0 => s.P # 0
        /\ d # 0 => s.epoch < currentEpoch \/ (s.epoch = currentEpoch /\ s.scale <= currentScale)
    BY <1>3 DEF ProductMoves
  <2>3. ReadAt(d, s, currentEpoch', currentScale', P') <= ReadAt(d, s, currentEpoch, currentScale, P)
    BY <1>1, <2>1, <2>2, ReadShrinks
  <2> QED
    BY <1>4, <2>3
<1>8. DepositorYETIGain(u, epochToScaleToG)' >= DepositorYETIGain(u, epochToScaleToG)
  <2> DEFINE a == Gain(d, epochToScaleToG, s, s.G)
             b == Gain(d, epochToScaleToG', s, s.G)
  <2>1. SumType(epochToScaleToG) /\ SumType(epochToScaleToG')
    BY <1>1, <1>2 DEF SumType, SumTypes
  <2>2. \A x \in Epochs \X Scales : epochToScaleToG[x] <= epochToScaleToG'[x]
    BY DEF SumsGrow
  <2>3. a \in Nat /\ b \in Nat /\ a <= b
    BY <1>1, <1>3, <2>1, <2>2, GainGrows
  <2> HIDE DEF a, b
  <2>4. k \in Nat /\ DP \in Nat \ {0}
    BY <1>1, ScaleAssumption
  <2>5. k * a \in Nat /\ k * b \in Nat /\ k * a <= k * b
    BY <2>3, <2>4, ProductNat, ProductMonotone
  <2>6. (k * a) \div DP \in Nat /\ (k * b) \div DP \in Nat /\ (k * a) \div DP <= (k * b) \div DP
    BY <2>4, <2>5, FloorMonotone
  <2> QED
    BY <1>6, <2>6 DEF a, b
<1>9. ASSUME NEW t \in Tokens PROVE CollGain(u, t)' >= CollGain(u, t)
  <2>1. SumType(epochToScaleToSum[t]) /\ SumType(epochToScaleToSum'[t])
    BY <1>1, <1>2 DEF SumType, SumTypes
  <2>2. \A x \in Epochs \X Scales : epochToScaleToSum[t][x] <= epochToScaleToSum'[t][x]
    BY DEF SumsGrow
  <2>3. /\ Gain(d, epochToScaleToSum[t], s, s.S[t]) \in Nat
        /\ Gain(d, epochToScaleToSum'[t], s, s.S[t]) \in Nat
        /\ Gain(d, epochToScaleToSum[t], s, s.S[t]) <= Gain(d, epochToScaleToSum'[t], s, s.S[t])
    BY <1>1, <1>3, <2>1, <2>2, GainGrows
  <2>4. /\ CollGain(u, t) = Gain(d, epochToScaleToSum[t], s, s.S[t])
        /\ CollGain(u, t)' = Gain(d, epochToScaleToSum'[t], s, s.S[t])
    BY <1>5
  <2> QED
    BY <2>3, <2>4
<1> QED
  BY <1>7, <1>8, <1>9 DEF ReadsKept
-----------------------------------------------------------------------------
(* Offsets.                                                                *)

(* An offset that leaves something in the pool takes at most the whole of  *)
(* each unit, and its rounding error is not negative.                      *)
LEMMA LossFits ==
  ASSUME NEW total \in Nat \ {0}, NEW debt \in Nat, debt < total,
         NEW err \in Nat, err <= debt * DP,
         NEW n, n = debt * DP - err,
         NEW loss, loss = n \div total + 1
  PROVE  /\ n \in Nat /\ loss \in 1..DP
         /\ loss * total - n \in Nat
<1>0. DP \in Nat \ {0}
  BY ScaleAssumption
<1>1. debt * DP \in Nat /\ n \in Nat /\ n <= debt * DP
  BY <1>0, ProductNat
<1>2. debt * DP < DP * total
  <2>1. (debt + 1) * DP <= total * DP
    BY <1>0, ProductMonotone, debt + 1 \in Nat
  <2>2. (debt + 1) * DP = debt * DP + DP /\ total * DP = DP * total
    BY <1>0, Z3
  <2>3. total * DP \in Nat
    BY <1>0, ProductNat
  <2> QED
    BY <1>0, <1>1, <2>1, <2>2, <2>3
<1>3. n < DP * total
  BY <1>0, <1>1, <1>2, ProductNat
<1>4. n \div total \in Nat /\ n \div total < DP
  BY <1>0, <1>1, <1>3, FloorBelow
<1>5. n < (n \div total) * total + total
  BY <1>1, FloorFits
<1>6. loss * total = (n \div total) * total + total /\ loss * total \in Nat
  <2> DEFINE q == n \div total
  <2>1. q \in Nat /\ loss = q + 1
    BY <1>4
  <2> HIDE DEF q
  <2>2. loss * total = q * total + total
    BY <2>1, Z3
  <2> QED
    BY <2>1, <2>2, ProductNat DEF q
<1> QED
  BY <1>0, <1>1, <1>4, <1>5, <1>6, ProductNat

LEMMA LossTypes ==
  ASSUME totalYUSDDeposits \in Nat \ {0}, lastYUSDLossError_Offset \in Nat,
         NEW debt \in Nat, debt <= totalYUSDDeposits,
         debt = totalYUSDDeposits \/ lastYUSDLossError_Offset <= debt * DP
  PROVE  /\ LossPerUnit(debt) \in 1..DP
         /\ debt # totalYUSDDeposits =>
              LossPerUnit(debt) * totalYUSDDeposits - LossNumerator(debt) \in Nat
<1>1. CASE debt = totalYUSDDeposits
  BY <1>1, ScaleAssumption DEF LossPerUnit
<1>2. CASE debt # totalYUSDDeposits
  <2>1. debt < totalYUSDDeposits /\ lastYUSDLossError_Offset <= debt * DP
    BY <1>2
  <2>2. LossPerUnit(debt) = LossNumerator(debt) \div totalYUSDDeposits + 1
    BY <1>2 DEF LossPerUnit
  <2>3. LossNumerator(debt) = debt * DP - lastYUSDLossError_Offset
    BY DEF LossNumerator
  <2> QED
    BY <2>1, <2>2, <2>3, LossFits
<1> QED
  BY <1>1, <1>2

(* What the next P can be: with no change of scale it falls, and scaled up *)
(* it is below DP, since it was below SCALE_FACTOR.                        *)
LEMMA ProductFits ==
  ASSUME NEW p \in 1..DP, NEW factor \in 0..DP
  PROVE  /\ (p * factor) \div DP \in Nat /\ (p * factor) \div DP <= p
         /\ (p * factor) \div DP < SCALE_FACTOR =>
              /\ ((p * factor) * SCALE_FACTOR) \div DP \in Nat
              /\ ((p * factor) * SCALE_FACTOR) \div DP <= DP
              /\ ((p * factor) * SCALE_FACTOR) \div DP <= p * SCALE_FACTOR
<1>0. DP \in Nat \ {0} /\ SCALE_FACTOR \in Nat \ {0} /\ p \in Nat /\ factor \in Nat
  BY ScaleAssumption
<1> DEFINE n == p * factor
<1>1. n \in Nat /\ n <= p * DP
  BY <1>0, ProductNat, ProductMonotone
<1> HIDE DEF n
<1>2. n \div DP \in Nat /\ n \div DP <= p
  BY <1>0, <1>1, FloorAtMost
<1>3. ASSUME n \div DP < SCALE_FACTOR
      PROVE  /\ (n * SCALE_FACTOR) \div DP \in Nat
             /\ (n * SCALE_FACTOR) \div DP <= DP
             /\ (n * SCALE_FACTOR) \div DP <= p * SCALE_FACTOR
  <2>1. n * SCALE_FACTOR \in Nat /\ p * SCALE_FACTOR \in Nat
    BY <1>0, <1>1, ProductNat
  <2>2. n * SCALE_FACTOR <= (p * SCALE_FACTOR) * DP
    <3>1. n * SCALE_FACTOR <= (p * DP) * SCALE_FACTOR
      BY <1>0, <1>1, ProductNat, ProductMonotone
    <3>2. (p * DP) * SCALE_FACTOR = (p * SCALE_FACTOR) * DP
      BY <1>0, Z3
    <3> QED
      BY <3>1, <3>2
  <2>3. (n * SCALE_FACTOR) \div DP \in Nat /\ (n * SCALE_FACTOR) \div DP <= p * SCALE_FACTOR
    BY <1>0, <2>1, <2>2, FloorAtMost
  <2>4. n <= SCALE_FACTOR * DP
    <3> DEFINE q == n \div DP
    <3>1. q \in Nat /\ n < q * DP + DP /\ q + 1 <= SCALE_FACTOR
      BY <1>0, <1>1, <1>2, <1>3, FloorFits
    <3> HIDE DEF q
    <3>2. (q + 1) * DP <= SCALE_FACTOR * DP
      BY <1>0, <3>1, ProductMonotone, q + 1 \in Nat
    <3>3. (q + 1) * DP = q * DP + DP
      BY <1>0, <3>1, Z3
    <3> QED
      BY <1>0, <1>1, <3>1, <3>2, <3>3, ProductNat
  <2>5. n * SCALE_FACTOR <= DP * DP
    <3>1. n * SCALE_FACTOR <= (SCALE_FACTOR * DP) * SCALE_FACTOR
      BY <1>0, <1>1, <2>4, ProductNat, ProductMonotone
    <3>2. (SCALE_FACTOR * DP) * SCALE_FACTOR = (SCALE_FACTOR * SCALE_FACTOR) * DP
      BY <1>0, Z3
    <3>3. (SCALE_FACTOR * SCALE_FACTOR) * DP <= DP * DP
      BY <1>0, ScaleAssumption, ProductNat, ProductMonotone
    <3>4. (SCALE_FACTOR * SCALE_FACTOR) * DP \in Nat /\ DP * DP \in Nat
      BY <1>0, ProductNat
    <3> QED
      BY <2>1, <3>1, <3>2, <3>3, <3>4
  <2>6. (n * SCALE_FACTOR) \div DP <= DP
    BY <1>0, <2>1, <2>5, FloorAtMost
  <2> QED
    BY <2>3, <2>6
<1> QED
  BY <1>2, <1>3 DEF n

LEMMA UpdateProductMoves ==
  ASSUME ProductTypes, NEW factor \in 0..DP, UpdateProduct(factor),
         P' # 0, currentEpoch' <= MaxEpoch, currentScale' <= MaxScale
  PROVE  ProductTypes' /\ ProductMoves
<1>0. /\ DP \in Nat \ {0} /\ SCALE_FACTOR \in Nat \ {0} /\ P \in 1..DP /\ P \in Nat /\ factor \in Nat
      /\ currentEpoch \in 0..MaxEpoch /\ currentScale \in 0..MaxScale
      /\ MaxEpoch \in Nat /\ MaxScale \in Nat
  BY ScaleAssumption, InputAssumption DEF ProductTypes, Epochs
<1>1. CASE factor = 0
  <2>1. P' = DP /\ currentScale' = 0 /\ currentEpoch' = currentEpoch + 1
    BY <1>1 DEF UpdateProduct
  <2> QED
    BY <1>0, <2>1 DEF ProductTypes, ProductMoves, Moves, Epochs
<1>2. CASE factor # 0 /\ (P * factor) \div DP < SCALE_FACTOR
  <2>1. /\ P' = ((P * factor) * SCALE_FACTOR) \div DP
        /\ currentScale' = currentScale + 1 /\ currentEpoch' = currentEpoch
    BY <1>2 DEF UpdateProduct, ScaleUp
  <2>2. P' \in Nat /\ P' <= DP /\ P' <= P * SCALE_FACTOR
    BY <1>0, <1>2, <2>1, ProductFits
  <2> QED
    BY <1>0, <2>1, <2>2 DEF ProductTypes, ProductMoves, Moves, Epochs
<1>3. CASE factor # 0 /\ ~((P * factor) \div DP < SCALE_FACTOR)
  <2>1. P' = (P * factor) \div DP /\ currentScale' = currentScale /\ currentEpoch' = currentEpoch
    BY <1>3 DEF UpdateProduct
  <2>2. P' \in Nat /\ P' <= P
    BY <1>0, <2>1, ProductFits
  <2> QED
    BY <1>0, <2>1, <2>2 DEF ProductTypes, ProductMoves, Moves, Epochs
<1> QED
  BY <1>1, <1>2, <1>3

(* What is kept of the collateral's rounding is not negative.              *)
LEMMA ErrorFits ==
  ASSUME NEW n \in Nat, NEW p \in Nat \ {0}, NEW total \in Nat \ {0}
  PROVE  /\ (n * p) \div total \in Nat
         /\ n - (((n * p) \div total) * total) \div p \in Nat
<1> DEFINE q == (n * p) \div total
<1>1. q \in Nat /\ q * total <= n * p /\ q * total \in Nat
  BY ProductNat, FloorFits
<1> HIDE DEF q
<1>2. (q * total) \div p \in Nat /\ (q * total) \div p <= n
  BY <1>1, FloorAtMost
<1> QED
  BY <1>1, <1>2 DEF q

LEMMA EntryGrows ==
  ASSUME NEW D, NEW f \in [D -> Nat], NEW x, NEW r \in Nat
  PROVE  /\ [f EXCEPT ![x] = @ + r] \in [D -> Nat]
         /\ \A y \in D : f[y] <= [f EXCEPT ![x] = @ + r][y]
<1> DEFINE v == f[x] + r
           g == [f EXCEPT ![x] = v]
<1>1. ASSUME NEW y \in D PROVE g[y] \in Nat /\ f[y] <= g[y]
  <2>1. CASE y = x
    <3>1. f[y] \in Nat /\ v = f[y] + r
      BY <2>1
    <3>2. g[y] = v
      BY <2>1
    <3> HIDE DEF v, g
    <3> QED
      BY <3>1, <3>2
  <2>2. CASE y # x
    <3>1. g[y] = f[y] /\ f[y] \in Nat
      BY <2>2
    <3> HIDE DEF g
    <3> QED
      BY <3>1
  <2> QED
    BY <2>1, <2>2
<1>2. g = [y \in D |-> g[y]]
  OBVIOUS
<1> HIDE DEF g
<1>3. g \in [D -> Nat]
  BY <1>1, <1>2
<1> QED
  BY <1>1, <1>3 DEF g

LEMMA IssueTypes ==
  ASSUME StabilityInv, NEW issuance \in Issuances, IssueYETI(issuance)
  PROVE  /\ totalYETIIssued' \in 0..YETISupplyCap /\ lastYETIError' \in Nat
         /\ epochToScaleToG' \in [Epochs \X Scales -> Nat]
         /\ \A x \in Epochs \X Scales : epochToScaleToG[x] <= epochToScaleToG'[x]
<1>0. /\ totalYETIIssued \in 0..YETISupplyCap /\ lastYETIError \in Nat
      /\ epochToScaleToG \in [Epochs \X Scales -> Nat] /\ totalYUSDDeposits \in Nat
      /\ issuance \in Nat /\ YETISupplyCap \in Nat /\ DP \in Nat /\ P \in Nat
  BY InputAssumption, ScaleAssumption DEF StabilityInv, TypeOK
<1>1. totalYETIIssued' \in 0..YETISupplyCap
  <2>1. totalYETIIssued + issuance <= YETISupplyCap /\ totalYETIIssued' = totalYETIIssued + issuance
    BY DEF IssueYETI
  <2> QED
    BY <1>0, <2>1
<1>2. CASE UNCHANGED <<epochToScaleToG, lastYETIError>>
  BY <1>0, <1>1, <1>2
<1>3. CASE totalYUSDDeposits # 0 /\ ~ UNCHANGED <<epochToScaleToG, lastYETIError>>
  <2> DEFINE n == issuance * DP + lastYETIError
             q == n \div totalYUSDDeposits
             r == q * P
  <2>1. /\ lastYETIError' = n % totalYUSDDeposits
        /\ epochToScaleToG' = [epochToScaleToG EXCEPT ![Now] = @ + r]
    BY <1>3 DEF IssueYETI
  <2>2. n \in Nat /\ q \in Nat /\ r \in Nat
    BY <1>0, <1>3, ProductNat, FloorFits
  <2> HIDE DEF q, r
  <2>3. lastYETIError' \in Nat
    <3> HIDE DEF n
    <3> QED
      BY <1>0, <1>3, <2>1, <2>2
  <2> HIDE DEF n
  <2> DEFINE D == Epochs \X Scales
  <2>4. epochToScaleToG \in [D -> Nat]
    BY <1>0
  <2> HIDE DEF D
  <2>5. epochToScaleToG' \in [D -> Nat] /\ \A x \in D : epochToScaleToG[x] <= epochToScaleToG'[x]
    BY <2>1, <2>2, <2>4, EntryGrows
  <2> QED
    BY <1>1, <2>3, <2>5 DEF D
<1> QED
  BY <1>2, <1>3 DEF IssueYETI
-----------------------------------------------------------------------------
(* The invariant, step by step.                                            *)

LEMMA BehindIsAfter ==
  /\ \A u \in Users :
       (Behind(depositSnapshots[u])' =
          BehindAt(depositSnapshots'[u], currentEpoch', currentScale', P', epochToScaleToG',
                   epochToScaleToSum'))
  /\ \A f \in Tags :
       (Behind(frontEndSnapshots[f])' =
          BehindAt(frontEndSnapshots'[f], currentEpoch', currentScale', P', epochToScaleToG',
                   epochToScaleToSum'))
<1>1. ASSUME NEW u \in Users
      PROVE  (Behind(depositSnapshots[u])' =
                BehindAt(depositSnapshots'[u], currentEpoch', currentScale', P', epochToScaleToG',
                         epochToScaleToSum'))
  <2> DEFINE s == depositSnapshots'[u]
             now == [NoSnapshot EXCEPT !.epoch = currentEpoch', !.scale = currentScale', !.P = P']
  <2>1. now.epoch = currentEpoch' /\ now.scale = currentScale' /\ now.P = P'
    BY DEF NoSnapshot
  <2>2. Behind(depositSnapshots[u])'
          = (/\ s.P # 0 /\ Before(s, now)
             /\ s.G <= epochToScaleToG'[<<s.epoch, s.scale>>]
             /\ \A t \in Tokens : s.S[t] <= epochToScaleToSum'[t][<<s.epoch, s.scale>>])
    BY DEF Behind, Before, NoSnapshot, NoAmounts
  <2> HIDE DEF now, s
  <2>3. Behind(depositSnapshots[u])'
          = BehindAt(s, currentEpoch', currentScale', P', epochToScaleToG', epochToScaleToSum')
    BY <2>1, <2>2 DEF Before, BehindAt
  <2> QED
    BY <2>3 DEF s
<1>2. ASSUME NEW f \in Tags
      PROVE  (Behind(frontEndSnapshots[f])' =
                BehindAt(frontEndSnapshots'[f], currentEpoch', currentScale', P', epochToScaleToG',
                         epochToScaleToSum'))
  <2> DEFINE s == frontEndSnapshots'[f]
             now == [NoSnapshot EXCEPT !.epoch = currentEpoch', !.scale = currentScale', !.P = P']
  <2>1. now.epoch = currentEpoch' /\ now.scale = currentScale' /\ now.P = P'
    BY DEF NoSnapshot
  <2>2. Behind(frontEndSnapshots[f])'
          = (/\ s.P # 0 /\ Before(s, now)
             /\ s.G <= epochToScaleToG'[<<s.epoch, s.scale>>]
             /\ \A t \in Tokens : s.S[t] <= epochToScaleToSum'[t][<<s.epoch, s.scale>>])
    BY DEF Behind, Before, NoSnapshot, NoAmounts
  <2> HIDE DEF now, s
  <2>3. Behind(frontEndSnapshots[f])'
          = BehindAt(s, currentEpoch', currentScale', P', epochToScaleToG', epochToScaleToSum')
    BY <2>1, <2>2 DEF Before, BehindAt
  <2> QED
    BY <2>3 DEF s
<1> QED
  BY <1>1, <1>2

BehindAfter(s) ==
  BehindAt(s, currentEpoch', currentScale', P', epochToScaleToG', epochToScaleToSum')

LEMMA KeptBehind ==
  ASSUME StabilityInv, ProductTypes', SumTypes', ProductMoves, SumsGrow
  PROVE  /\ \A u \in Users : deposits[u].initialValue # 0 => BehindAfter(depositSnapshots[u])
         /\ \A f \in Tags : frontEndStakes[f] # 0 => BehindAfter(frontEndSnapshots[f])
<1>1. ASSUME NEW u \in Users, deposits[u].initialValue # 0 PROVE BehindAfter(depositSnapshots[u])
  <2>1. /\ depositSnapshots[u] \in Snapshots /\ Behind(depositSnapshots[u])
        /\ ProductTypes /\ SumTypes
    BY <1>1, DepositFacts
  <2> QED
    BY <2>1, StaysBehind DEF BehindAfter
<1>2. ASSUME NEW f \in Tags, frontEndStakes[f] # 0 PROVE BehindAfter(frontEndSnapshots[f])
  <2>1. /\ frontEndSnapshots[f] \in Snapshots /\ Behind(frontEndSnapshots[f])
        /\ ProductTypes /\ SumTypes
    BY <1>2, FrontEndFacts
  <2> QED
    BY <2>1, StaysBehind DEF BehindAfter
<1> QED
  BY <1>1, <1>2

\* Both records that a call by u with tag f leaves have the state's snapshots.
LEMMA NewSnapshots ==
  ASSUME ProductTypes, SumTypes', NEW n \in Nat,
         UNCHANGED <<productVars, epochToScaleToSum>>
  PROVE  /\ FrontEndSnapshot(n, epochToScaleToG') \in Snapshots
         /\ DepositSnapshot(n, epochToScaleToG') \in Snapshots
         /\ IF n = 0 THEN /\ FrontEndSnapshot(n, epochToScaleToG') = NoSnapshot
                          /\ DepositSnapshot(n, epochToScaleToG') = NoSnapshot
            ELSE /\ BehindAfter(FrontEndSnapshot(n, epochToScaleToG'))
                 /\ BehindAfter(DepositSnapshot(n, epochToScaleToG'))
<1>0. /\ P' = P /\ currentScale' = currentScale /\ currentEpoch' = currentEpoch
      /\ epochToScaleToSum' = epochToScaleToSum
  BY DEF productVars
<1>1. /\ P \in 1..DP /\ P \in Nat /\ P # 0 /\ currentScale \in 0..MaxScale /\ currentEpoch \in 0..MaxEpoch
      /\ currentScale \in Nat /\ currentEpoch \in Nat /\ MaxScale \in Nat /\ MaxEpoch \in Nat /\ DP \in Nat
  BY ScaleAssumption, InputAssumption DEF ProductTypes, Epochs
<1>2. Now \in Epochs \X Scales
  BY <1>1 DEF Now, Epochs, Scales
<1>3. epochToScaleToG'[Now] \in Nat /\ \A t \in Tokens : epochToScaleToSum[t][Now] \in Nat
  BY <1>0, <1>2 DEF SumTypes
<1>4. NoSnapshot \in Snapshots
  BY <1>1 DEF NoSnapshot, NoAmounts, Snapshots, Epochs
<1> DEFINE fs == [S |-> NoAmounts, P |-> P, G |-> epochToScaleToG'[Now],
                  scale |-> currentScale, epoch |-> currentEpoch]
           ds == [S |-> [t \in Tokens |-> epochToScaleToSum[t][Now]], P |-> P,
                  G |-> epochToScaleToG'[Now], scale |-> currentScale, epoch |-> currentEpoch]
<1>5. /\ FrontEndSnapshot(n, epochToScaleToG') = IF n = 0 THEN NoSnapshot ELSE fs
      /\ DepositSnapshot(n, epochToScaleToG') = IF n = 0 THEN NoSnapshot ELSE ds
  BY DEF FrontEndSnapshot, DepositSnapshot
<1>6. NoAmounts \in [Tokens -> Nat] /\ [t \in Tokens |-> epochToScaleToSum[t][Now]] \in [Tokens -> Nat]
  BY <1>3 DEF NoAmounts
<1>7. fs \in Snapshots /\ ds \in Snapshots
  <2>1. P \in 0..DP /\ currentEpoch \in Epochs
    BY <1>1 DEF Epochs
  <2> QED
    BY <1>1, <1>3, <1>6, <2>1 DEF Snapshots
<1>8. <<fs.epoch, fs.scale>> = Now /\ <<ds.epoch, ds.scale>> = Now
  BY DEF Now
<1>9. BehindAfter(fs)
  <2>1. fs.P # 0 /\ fs.epoch = currentEpoch' /\ fs.scale = currentScale' /\ fs.P >= P'
    BY <1>0, <1>1
  <2>2. fs.G <= epochToScaleToG'[Now]
    BY <1>3
  <2>3. \A t \in Tokens : fs.S[t] <= epochToScaleToSum'[t][Now]
    BY <1>0, <1>3 DEF NoAmounts
  <2> HIDE DEF fs
  <2> QED
    BY <1>8, <2>1, <2>2, <2>3 DEF BehindAfter, BehindAt
<1>10. BehindAfter(ds)
  <2>1. ds.P # 0 /\ ds.epoch = currentEpoch' /\ ds.scale = currentScale' /\ ds.P >= P'
    BY <1>0, <1>1
  <2>2. ds.G <= epochToScaleToG'[Now]
    BY <1>3
  <2>3. \A t \in Tokens : ds.S[t] <= epochToScaleToSum'[t][Now]
    BY <1>0, <1>3
  <2> HIDE DEF ds
  <2> QED
    BY <1>8, <2>1, <2>2, <2>3 DEF BehindAfter, BehindAt
<1> HIDE DEF fs, ds
<1> QED
  BY <1>4, <1>5, <1>7, <1>9, <1>10

(* What is paid is a number of units, the kickback and the rest of it too. *)
LEMMA PaidTypes ==
  ASSUME StabilityInv, SumTypes', NEW u \in Users, NEW f \in Tags,
         \A x \in Epochs \X Scales : epochToScaleToG[x] <= epochToScaleToG'[x]
  PROVE  /\ DepositorYETIGain(u, epochToScaleToG') \in Nat
         /\ FrontEndYETIGain(f, epochToScaleToG') \in Nat
         /\ \A t \in Tokens : CollGain(u, t) \in Nat
         /\ CompoundedDeposit(u) \in Nat /\ CompoundedFrontEndStake(f) \in Nat
<1> DEFINE d == deposits[u].initialValue
           s == depositSnapshots[u]
           e == frontEndStakes[f]
           fs == frontEndSnapshots[f]
<1>1. /\ d \in Nat /\ s \in Snapshots /\ ProductTypes /\ SumTypes /\ KickbackOf(u) \in 0..DP
      /\ d # 0 => Behind(s)
  BY DepositFacts
<1>2. /\ e \in Nat /\ fs \in Snapshots /\ frontEnds[f].kickbackRate \in 0..DP
      /\ e # 0 => Behind(fs)
  BY FrontEndFacts
<1>3. d # 0 => /\ s.P # 0
               /\ HasSince(epochToScaleToG, s, s.G)
               /\ \A t \in Tokens : HasSince(epochToScaleToSum[t], s, s.S[t])
  BY <1>1, BehindSays
<1>4. e # 0 => fs.P # 0 /\ HasSince(epochToScaleToG, fs, fs.G)
  BY <1>1, <1>2, BehindSays
<1>5. SumType(epochToScaleToG) /\ SumType(epochToScaleToG') /\ \A t \in Tokens : SumType(epochToScaleToSum[t])
  BY <1>1 DEF SumType, SumTypes
<1>6. DP \in Nat \ {0}
  BY ScaleAssumption
<1>7. /\ CompoundedDeposit(u) = ReadAt(d, s, currentEpoch, currentScale, P)
      /\ CompoundedFrontEndStake(f) = ReadAt(e, fs, currentEpoch, currentScale, P)
      /\ \A t \in Tokens : CollGain(u, t) = Gain(d, epochToScaleToSum[t], s, s.S[t])
  BY CompoundedIsReadNow DEF CompoundedDeposit, CompoundedFrontEndStake, CollGain
<1>8. DepositorYETIGain(u, epochToScaleToG') = (KickbackOf(u) * Gain(d, epochToScaleToG', s, s.G)) \div DP
  BY YETIGainIs
<1>9. FrontEndYETIGain(f, epochToScaleToG') =
        IF f = NoFrontEnd THEN 0
        ELSE ((DP - frontEnds[f].kickbackRate) * Gain(e, epochToScaleToG', fs, fs.G)) \div DP
  BY DEF FrontEndYETIGain
<1> HIDE DEF d, s, e, fs
<1>10. DepositorYETIGain(u, epochToScaleToG') \in Nat
  <2>1. Gain(d, epochToScaleToG', s, s.G) \in Nat
    BY <1>1, <1>3, <1>5, GainGrows
  <2>2. KickbackOf(u) * Gain(d, epochToScaleToG', s, s.G) \in Nat
    BY <1>1, <1>6, <2>1, ProductNat, KickbackOf(u) \in Nat
  <2> QED
    BY <1>6, <1>8, <2>2, FloorFits
<1>11. FrontEndYETIGain(f, epochToScaleToG') \in Nat
  <2>1. Gain(e, epochToScaleToG', fs, fs.G) \in Nat
    BY <1>2, <1>4, <1>5, GainGrows
  <2>2. (DP - frontEnds[f].kickbackRate) \in Nat
    BY <1>2, <1>6
  <2>3. (DP - frontEnds[f].kickbackRate) * Gain(e, epochToScaleToG', fs, fs.G) \in Nat
    BY <2>1, <2>2, ProductNat
  <2>4. ((DP - frontEnds[f].kickbackRate) * Gain(e, epochToScaleToG', fs, fs.G)) \div DP \in Nat
    BY <1>6, <2>3, FloorFits
  <2> QED
    BY <1>9, <2>4
<1>12. ASSUME NEW t \in Tokens PROVE CollGain(u, t) \in Nat
  <2> DEFINE f0 == epochToScaleToSum[t]
  <2>1. SumType(f0) /\ (d # 0 => s.P # 0 /\ HasSince(f0, s, s.S[t]))
    BY <1>3, <1>5
  <2>2. CollGain(u, t) = Gain(d, f0, s, s.S[t])
    BY <1>7
  <2> HIDE DEF f0
  <2>3. \A x \in Epochs \X Scales : f0[x] <= f0[x]
    BY <2>1 DEF SumType
  <2>4. Gain(d, f0, s, s.S[t]) \in Nat
    BY <1>1, <2>1, <2>3, GainGrows
  <2> QED
    BY <2>2, <2>4
<1>13. currentEpoch \in Nat /\ currentScale \in Nat /\ P \in Nat
  BY <1>1, InputAssumption, ScaleAssumption DEF ProductTypes, Epochs
<1>14. CompoundedDeposit(u) \in Nat
  <2>1. d # 0 => s.P # 0
    BY <1>3
  <2>2. ReadAt(d, s, currentEpoch, currentScale, P) \in Nat
    BY <1>1, <1>13, <2>1, ReadTypes
  <2> QED
    BY <1>7, <2>2
<1>15. CompoundedFrontEndStake(f) \in Nat
  <2>1. e # 0 => fs.P # 0
    BY <1>4
  <2>2. ReadAt(e, fs, currentEpoch, currentScale, P) \in Nat
    BY <1>2, <1>13, <2>1, ReadTypes
  <2> QED
    BY <1>7, <2>2
<1> QED
  BY <1>10, <1>11, <1>12, <1>14, <1>15

\* A deposit that stays earns by the same kickback rate.
KickbacksStay ==
  \A u \in Users : deposits'[u] = deposits[u] => (KickbackOf(u)' = KickbackOf(u))

StepKeeps == StabilityInv' /\ ProductMoves /\ SumsGrow /\ KickbacksStay

\* All snapshots are behind in the next state: BehindAfter there is Behind.
LEMMA AllBehindAfter ==
  ASSUME \A u \in Users : IF deposits'[u].initialValue = 0 THEN depositSnapshots'[u] = NoSnapshot
                          ELSE BehindAfter(depositSnapshots'[u]),
         \A f \in Tags : IF frontEndStakes'[f] = 0 THEN frontEndSnapshots'[f] = NoSnapshot
                         ELSE BehindAfter(frontEndSnapshots'[f])
  PROVE  SnapshotsBehind'
<1>1. NoSnapshot' = NoSnapshot
  BY DEF NoSnapshot, NoAmounts
<1>2. \A u \in Users : (Behind(depositSnapshots[u])' = BehindAfter(depositSnapshots'[u]))
  BY BehindIsAfter DEF BehindAfter
<1>3. \A f \in Tags : (Behind(frontEndSnapshots[f])' = BehindAfter(frontEndSnapshots'[f]))
  BY BehindIsAfter DEF BehindAfter
<1>4. ASSUME NEW u \in Users
      PROVE  (IF deposits[u].initialValue = 0 THEN depositSnapshots[u] = NoSnapshot
              ELSE Behind(depositSnapshots[u]))'
  BY <1>2
<1>5. ASSUME NEW f \in Tags
      PROVE  (IF frontEndStakes[f] = 0 THEN frontEndSnapshots[f] = NoSnapshot
              ELSE Behind(frontEndSnapshots[f]))'
  BY <1>3
<1> QED
  BY <1>4, <1>5 DEF SnapshotsBehind

LEMMA SettleKeeps ==
  ASSUME StabilityInv, NEW u \in Users, NEW f \in Tags, f # NoFrontEnd => frontEnds[f].registered,
         NEW newDeposit \in Nat, NEW newStake \in Nat,
         NEW issuance \in Issuances, IssueYETI(issuance), totalYUSDDeposits' \in Nat,
         Settle(u, f, newDeposit, newStake)
  PROVE  StepKeeps
<1>1. /\ totalYETIIssued' \in 0..YETISupplyCap /\ lastYETIError' \in Nat
      /\ epochToScaleToG' \in [Epochs \X Scales -> Nat]
      /\ \A x \in Epochs \X Scales : epochToScaleToG[x] <= epochToScaleToG'[x]
  BY IssueTypes
<1>2. /\ UNCHANGED frontEnds /\ UNCHANGED productVars
      /\ epochToScaleToSum' = epochToScaleToSum /\ lastAssetError_Offset' = lastAssetError_Offset
      /\ UNCHANGED <<productVars, epochToScaleToSum>>
  BY DEF Settle, sumVars
<1>3. ProductTypes /\ SumTypes
  BY DEF StabilityInv, TypeOK, ProductTypes, SumTypes
<1>4. ProductTypes' /\ SumTypes'
  BY <1>1, <1>2, <1>3 DEF ProductTypes, SumTypes, productVars
<1>5. ProductMoves
  <2>1. P \in Nat
    BY <1>3, ScaleAssumption DEF ProductTypes
  <2> QED
    BY <1>2, <2>1 DEF ProductMoves, Moves, productVars
<1>6. SumsGrow
  <2>1. \A t \in Tokens, x \in Epochs \X Scales : epochToScaleToSum[t][x] \in Nat
    BY <1>3 DEF SumTypes
  <2> QED
    BY <1>1, <1>2, <2>1 DEF SumsGrow
<1> DEFINE newTag == IF newDeposit = 0 THEN NoFrontEnd ELSE f
           fs == FrontEndSnapshot(newStake, epochToScaleToG')
           ds == DepositSnapshot(newDeposit, epochToScaleToG')
<1>7. /\ deposits' = [deposits EXCEPT ![u] = [initialValue |-> newDeposit, frontEndTag |-> newTag]]
      /\ depositSnapshots' = [depositSnapshots EXCEPT ![u] = ds]
      /\ frontEndStakes' = [frontEndStakes EXCEPT ![f] = newStake]
      /\ frontEndSnapshots' = [frontEndSnapshots EXCEPT ![f] = fs]
  BY DEF Settle
<1>8. /\ fs \in Snapshots /\ ds \in Snapshots
      /\ IF newStake = 0 THEN fs = NoSnapshot ELSE BehindAfter(fs)
      /\ IF newDeposit = 0 THEN ds = NoSnapshot ELSE BehindAfter(ds)
  BY <1>2, <1>3, <1>4, NewSnapshots
<1>9. newTag \in Tags /\ (newTag # NoFrontEnd => frontEnds[newTag].registered)
  BY DEF Tags
<1> HIDE DEF newTag, fs, ds
<1>10. TypeOK'
  <2>1. deposits' \in [Users -> [initialValue : Nat, frontEndTag : Tags]]
    <3>1. deposits \in [Users -> [initialValue : Nat, frontEndTag : Tags]]
      BY DEF StabilityInv, TypeOK
    <3> QED
      BY <1>7, <1>9, <3>1
  <2>2. /\ depositSnapshots' \in [Users -> Snapshots]
        /\ frontEndStakes' \in [Tags -> Nat] /\ frontEndSnapshots' \in [Tags -> Snapshots]
    BY <1>7, <1>8 DEF StabilityInv, TypeOK
  <2>3. frontEnds' \in [Tags -> [registered : BOOLEAN, kickbackRate : 0..DP]]
    BY <1>2 DEF StabilityInv, TypeOK
  <2>4. yetiSent' \in Nat
    <3>1. /\ yetiSent \in Nat /\ FrontEndYETIGain(f, epochToScaleToG') \in Nat
          /\ DepositorYETIGain(u, epochToScaleToG') \in Nat
      BY <1>1, <1>4, PaidTypes DEF StabilityInv, TypeOK
    <3>2. yetiSent' = yetiSent + FrontEndYETIGain(f, epochToScaleToG')
                        + DepositorYETIGain(u, epochToScaleToG')
      BY DEF Settle
    <3> QED
      BY <3>1, <3>2
  <2>5. totalColl' \in [Tokens -> Nat]
    <3>1. /\ \A t \in Tokens : CollGain(u, t) <= totalColl[t]
          /\ totalColl' = [t \in Tokens |-> totalColl[t] - CollGain(u, t)]
      BY DEF Settle
    <3>2. \A t \in Tokens : CollGain(u, t) \in Nat /\ totalColl[t] \in Nat
      BY <1>1, <1>4, PaidTypes DEF StabilityInv, TypeOK
    <3> QED
      BY <3>1, <3>2
  <2>6. lastYUSDLossError_Offset' \in Nat /\ lastAssetError_Offset' \in [Tokens -> Nat]
    BY <1>2 DEF StabilityInv, TypeOK, productVars
  <2> QED
    BY <1>1, <1>4, <2>1, <2>2, <2>3, <2>4, <2>5, <2>6 DEF TypeOK, ProductTypes, SumTypes
<1>11. SnapshotsBehind'
  <2>1. /\ \A v \in Users : deposits[v].initialValue # 0 => BehindAfter(depositSnapshots[v])
        /\ \A g \in Tags : frontEndStakes[g] # 0 => BehindAfter(frontEndSnapshots[g])
    BY <1>4, <1>5, <1>6, KeptBehind
  <2>2. ASSUME NEW v \in Users
        PROVE  IF deposits'[v].initialValue = 0 THEN depositSnapshots'[v] = NoSnapshot
               ELSE BehindAfter(depositSnapshots'[v])
    <3>0. u \in DOMAIN deposits /\ u \in DOMAIN depositSnapshots
      BY DEF StabilityInv, TypeOK
    <3>1. CASE v = u
      <4>1. deposits'[v].initialValue = newDeposit /\ depositSnapshots'[v] = ds
        BY <1>7, <3>0, <3>1
      <4> QED
        BY <1>8, <4>1
    <3>2. CASE v # u
      <4>1. deposits'[v] = deposits[v] /\ depositSnapshots'[v] = depositSnapshots[v]
        BY <1>7, <3>2 DEF StabilityInv, TypeOK
      <4>2. deposits[v].initialValue = 0 => depositSnapshots[v] = NoSnapshot
        BY DEF StabilityInv, SnapshotsBehind
      <4> QED
        BY <2>1, <4>1, <4>2
    <3> QED
      BY <3>1, <3>2
  <2>3. ASSUME NEW g \in Tags
        PROVE  IF frontEndStakes'[g] = 0 THEN frontEndSnapshots'[g] = NoSnapshot
               ELSE BehindAfter(frontEndSnapshots'[g])
    <3>0. f \in DOMAIN frontEndStakes /\ f \in DOMAIN frontEndSnapshots
      BY DEF StabilityInv, TypeOK
    <3>1. CASE g = f
      <4>1. frontEndStakes'[g] = newStake /\ frontEndSnapshots'[g] = fs
        BY <1>7, <3>0, <3>1
      <4> QED
        BY <1>8, <4>1
    <3>2. CASE g # f
      <4>1. frontEndStakes'[g] = frontEndStakes[g] /\ frontEndSnapshots'[g] = frontEndSnapshots[g]
        BY <1>7, <3>2 DEF StabilityInv, TypeOK
      <4>2. frontEndStakes[g] = 0 => frontEndSnapshots[g] = NoSnapshot
        BY DEF StabilityInv, SnapshotsBehind
      <4> QED
        BY <2>1, <4>1, <4>2
    <3> QED
      BY <3>1, <3>2
  <2> QED
    BY <2>2, <2>3, AllBehindAfter
<1>12. TagsRegistered'
  <2> SUFFICES ASSUME NEW v \in Users, deposits'[v].frontEndTag # NoFrontEnd
               PROVE  frontEnds[deposits'[v].frontEndTag].registered
    BY <1>2 DEF TagsRegistered
  <2>1. CASE v = u
    <3>1. deposits'[v].frontEndTag = newTag
      BY <1>7, <2>1 DEF StabilityInv, TypeOK
    <3> QED
      BY <1>9, <3>1
  <2>2. CASE v # u
    <3>1. deposits'[v] = deposits[v]
      BY <1>7, <2>2 DEF StabilityInv, TypeOK
    <3> QED
      BY <3>1 DEF StabilityInv, TagsRegistered
  <2> QED
    BY <2>1, <2>2
<1>13. KickbacksStay
  BY <1>2 DEF KickbacksStay, KickbackOf
<1> QED
  BY <1>5, <1>6, <1>10, <1>11, <1>12, <1>13 DEF StepKeeps, StabilityInv

LEMMA ProvideKeeps ==
  ASSUME StabilityInv, NEW issuance \in Issuances, NEW u \in Users, NEW amount \in Amounts,
         NEW tag \in Tags, provideToSP(u, amount, tag, issuance)
  PROVE  StepKeeps
<1> DEFINE f == IF deposits[u].initialValue = 0 THEN tag ELSE deposits[u].frontEndTag
<1>1. amount \in Nat /\ totalYUSDDeposits \in Nat
  BY InputAssumption DEF StabilityInv, TypeOK
<1>2. f \in Tags /\ (f # NoFrontEnd => frontEnds[f].registered)
  <2>1. deposits[u].frontEndTag \in Tags
    BY DepositFacts
  <2>2. tag = NoFrontEnd \/ frontEnds[tag].registered
    BY DEF provideToSP
  <2>3. deposits[u].frontEndTag # NoFrontEnd => frontEnds[deposits[u].frontEndTag].registered
    BY DEF StabilityInv, TagsRegistered
  <2> QED
    BY <2>1, <2>2, <2>3
<1>3. /\ IssueYETI(issuance)
      /\ Settle(u, f, CompoundedDeposit(u) + amount, CompoundedFrontEndStake(f) + amount)
      /\ totalYUSDDeposits' = totalYUSDDeposits + amount
  BY DEF provideToSP
<1> HIDE DEF f
<1>4. CompoundedDeposit(u) \in Nat /\ CompoundedFrontEndStake(f) \in Nat
  <2>1. SumTypes'
    <3>1. epochToScaleToSum' = epochToScaleToSum
      BY <1>3 DEF Settle, sumVars
    <3> QED
      BY <1>3, <3>1, IssueTypes DEF SumTypes, StabilityInv, TypeOK
  <2> QED
    BY <1>2, <1>3, <2>1, IssueTypes, PaidTypes
<1>5. CompoundedDeposit(u) + amount \in Nat /\ CompoundedFrontEndStake(f) + amount \in Nat
      /\ totalYUSDDeposits' \in Nat
  BY <1>1, <1>3, <1>4
<1> QED
  BY <1>2, <1>3, <1>5, SettleKeeps

LEMMA WithdrawKeeps ==
  ASSUME StabilityInv, NEW issuance \in Issuances, NEW u \in Users, NEW amount \in Withdrawals,
         NEW icr \in LowestICRs, withdrawFromSP(u, amount, icr, issuance)
  PROVE  StepKeeps
<1> DEFINE f == deposits[u].frontEndTag
           out == Smaller(amount, CompoundedDeposit(u))
<1>1. amount \in Nat /\ totalYUSDDeposits \in Nat
  BY InputAssumption DEF StabilityInv, TypeOK
<1>2. f \in Tags /\ (f # NoFrontEnd => frontEnds[f].registered)
  BY DepositFacts DEF StabilityInv, TagsRegistered
<1>3. /\ IssueYETI(issuance)
      /\ Settle(u, f, CompoundedDeposit(u) - out, CompoundedFrontEndStake(f) - out)
      /\ totalYUSDDeposits' = totalYUSDDeposits - out
      /\ out <= CompoundedFrontEndStake(f) /\ out <= totalYUSDDeposits
  BY DEF withdrawFromSP
<1> HIDE DEF f
<1>4. CompoundedDeposit(u) \in Nat /\ CompoundedFrontEndStake(f) \in Nat
  <2>1. SumTypes'
    <3>1. epochToScaleToSum' = epochToScaleToSum
      BY <1>3 DEF Settle, sumVars
    <3> QED
      BY <1>3, <3>1, IssueTypes DEF SumTypes, StabilityInv, TypeOK
  <2> QED
    BY <1>2, <1>3, <2>1, IssueTypes, PaidTypes
<1>5. out \in Nat /\ out <= CompoundedDeposit(u)
  BY <1>1, <1>4 DEF Smaller
<1> HIDE DEF out
<1>6. CompoundedDeposit(u) - out \in Nat /\ CompoundedFrontEndStake(f) - out \in Nat
      /\ totalYUSDDeposits' \in Nat
  BY <1>1, <1>3, <1>4, <1>5
<1> QED
  BY <1>2, <1>3, <1>6, SettleKeeps

(* A step that leaves every record of a deposit or a front end alone.      *)
LEMMA RecordsStayBehind ==
  ASSUME StabilityInv, ProductTypes', SumTypes', ProductMoves, SumsGrow,
         UNCHANGED <<depositVars, frontEndStakes, frontEndSnapshots>>
  PROVE  SnapshotsBehind'
<1>1. /\ deposits' = deposits /\ depositSnapshots' = depositSnapshots
      /\ frontEndStakes' = frontEndStakes /\ frontEndSnapshots' = frontEndSnapshots
  BY DEF depositVars
<1>2. /\ \A u \in Users : deposits[u].initialValue # 0 => BehindAfter(depositSnapshots[u])
      /\ \A f \in Tags : frontEndStakes[f] # 0 => BehindAfter(frontEndSnapshots[f])
  BY KeptBehind
<1>3. /\ \A u \in Users : deposits[u].initialValue = 0 => depositSnapshots[u] = NoSnapshot
      /\ \A f \in Tags : frontEndStakes[f] = 0 => frontEndSnapshots[f] = NoSnapshot
  BY DEF StabilityInv, SnapshotsBehind
<1> QED
  BY <1>1, <1>2, <1>3, AllBehindAfter

\* Nothing moves: a step that is not about the product or the sums.
LEMMA StandingStill ==
  ASSUME StabilityInv, UNCHANGED <<productVars, epochToScaleToSum, epochToScaleToG>>
  PROVE  ProductTypes' /\ SumTypes' /\ ProductMoves /\ SumsGrow
<1>1. /\ P' = P /\ currentScale' = currentScale /\ currentEpoch' = currentEpoch
      /\ epochToScaleToSum' = epochToScaleToSum /\ epochToScaleToG' = epochToScaleToG
  BY DEF productVars
<1>2. ProductTypes /\ SumTypes
  BY DEF StabilityInv, TypeOK, ProductTypes, SumTypes
<1>3. P \in Nat
  BY <1>2, ScaleAssumption DEF ProductTypes
<1>4. \A x \in Epochs \X Scales : epochToScaleToG[x] \in Nat
                                  /\ \A t \in Tokens : epochToScaleToSum[t][x] \in Nat
  BY <1>2 DEF SumTypes
<1> QED
  BY <1>1, <1>2, <1>3, <1>4 DEF ProductTypes, SumTypes, ProductMoves, Moves, SumsGrow

LEMMA RegisterKeeps ==
  ASSUME StabilityInv, NEW u \in Users, NEW rate \in KickbackRates, registerFrontEnd(u, rate)
  PROVE  StepKeeps
<1>1. /\ frontEnds' = [frontEnds EXCEPT ![u] = [registered |-> TRUE, kickbackRate |-> rate]]
      /\ rate <= DP /\ ~frontEnds[u].registered
      /\ UNCHANGED <<depositVars, frontEndStakes, frontEndSnapshots, totalYUSDDeposits,
                     totalColl, productVars, sumVars, yetiVars, yetiSent>>
  BY DEF registerFrontEnd
<1>2. /\ UNCHANGED <<productVars, epochToScaleToSum, epochToScaleToG>>
      /\ UNCHANGED <<depositVars, frontEndStakes, frontEndSnapshots>>
      /\ deposits' = deposits
  BY <1>1 DEF sumVars, yetiVars, depositVars
<1>3. ProductTypes' /\ SumTypes' /\ ProductMoves /\ SumsGrow
  BY <1>2, StandingStill
<1>4. SnapshotsBehind'
  BY <1>2, <1>3, RecordsStayBehind
<1>5. rate \in 0..DP /\ u \in Tags
  BY <1>1, ScaleAssumption, InputAssumption DEF Tags
<1>6. frontEnds \in [Tags -> [registered : BOOLEAN, kickbackRate : 0..DP]]
  BY DEF StabilityInv, TypeOK
<1>7. frontEnds' \in [Tags -> [registered : BOOLEAN, kickbackRate : 0..DP]]
  BY <1>1, <1>5, <1>6
<1>8. TypeOK'
  BY <1>1, <1>7
     DEF StabilityInv, TypeOK, depositVars, productVars, sumVars, yetiVars
<1>9. ASSUME NEW v \in Users, deposits[v].frontEndTag # NoFrontEnd
      PROVE  /\ frontEnds[deposits[v].frontEndTag].registered
             /\ frontEnds'[deposits[v].frontEndTag] = frontEnds[deposits[v].frontEndTag]
  <2>1. deposits[v].frontEndTag \in Tags /\ frontEnds[deposits[v].frontEndTag].registered
    BY <1>9, DepositFacts DEF StabilityInv, TagsRegistered
  <2>2. deposits[v].frontEndTag # u
    BY <1>1, <2>1
  <2> QED
    BY <1>1, <1>6, <2>1, <2>2
<1>10. TagsRegistered'
  BY <1>2, <1>9 DEF TagsRegistered
<1>11. KickbacksStay
  BY <1>2, <1>9 DEF KickbacksStay, KickbackOf
<1> QED
  BY <1>3, <1>4, <1>8, <1>10, <1>11 DEF StepKeeps, StabilityInv

LEMMA StutterKeeps ==
  ASSUME StabilityInv, UNCHANGED vars
  PROVE  StepKeeps
<1>1. /\ UNCHANGED <<productVars, epochToScaleToSum, epochToScaleToG>>
      /\ UNCHANGED <<depositVars, frontEndStakes, frontEndSnapshots>>
      /\ deposits' = deposits /\ frontEnds' = frontEnds
  BY DEF vars, depositVars, frontEndVars, sumVars, yetiVars
<1>2. ProductTypes' /\ SumTypes' /\ ProductMoves /\ SumsGrow
  BY <1>1, StandingStill
<1>3. SnapshotsBehind'
  BY <1>1, <1>2, RecordsStayBehind
<1>4. TypeOK'
  BY DEF StabilityInv, TypeOK, vars, depositVars, frontEndVars, productVars, sumVars, yetiVars
<1>5. TagsRegistered' /\ KickbacksStay
  BY <1>1 DEF StabilityInv, TagsRegistered, KickbacksStay, KickbackOf
<1> QED
  BY <1>2, <1>3, <1>4, <1>5 DEF StepKeeps, StabilityInv

SeizedType(added) == added \in [Tokens -> Nat]

LEMMA SeizedTypes ==
  ASSUME NEW debt \in Nat, NEW added \in Seized(debt)
  PROVE  SeizedType(added)
<1>1. PICK u \in Tokens : added = [t \in Tokens |-> IF t = u THEN (debt * 11) \div 10 ELSE 0]
  BY DEF Seized
<1>2. (debt * 11) \div 10 \in Nat
  BY FloorFits, debt * 11 \in Nat
<1> QED
  BY <1>1, <1>2 DEF SeizedType

LEMMA OffsetKeeps ==
  ASSUME StabilityInv, NEW issuance \in Issuances, NEW debt \in Debts \cup {totalYUSDDeposits},
         NEW added \in Seized(debt), offset(debt, added, issuance)
  PROVE  StepKeeps
<1>0. /\ totalYUSDDeposits \in Nat /\ DP \in Nat \ {0} /\ P \in 1..DP /\ P \in Nat \ {0}
      /\ debt \in Nat /\ lastYUSDLossError_Offset \in Nat /\ lastAssetError_Offset \in [Tokens -> Nat]
      /\ totalColl \in [Tokens -> Nat]
      /\ epochToScaleToSum \in [Tokens -> [Epochs \X Scales -> Nat]]
  BY ScaleAssumption, InputAssumption DEF StabilityInv, TypeOK
<1>1. /\ totalYUSDDeposits # 0 /\ debt <= totalYUSDDeposits
      /\ debt = totalYUSDDeposits \/ lastYUSDLossError_Offset <= debt * DP
      /\ IssueYETI(issuance)
      /\ UpdateProduct(DP - LossPerUnit(debt))
      /\ P' # 0 /\ currentEpoch' <= MaxEpoch /\ currentScale' <= MaxScale
      /\ totalYUSDDeposits' = totalYUSDDeposits - debt
      /\ UNCHANGED <<depositVars, frontEndVars, yetiSent>>
  BY DEF offset
<1>2. /\ epochToScaleToSum' = [t \in Tokens |->
           IF added[t] = 0 THEN epochToScaleToSum[t]
           ELSE [epochToScaleToSum[t] EXCEPT ![Now] = @ + AssetGainPerUnit(t, added)]]
      /\ lastAssetError_Offset' = [t \in Tokens |->
           IF added[t] = 0 THEN lastAssetError_Offset[t]
           ELSE Numerator(t, added) - (AssetGainPerUnit(t, added) * totalYUSDDeposits) \div P]
      /\ totalColl' = [t \in Tokens |-> totalColl[t] + added[t]]
  BY DEF offset
<1>3. lastYUSDLossError_Offset' =
        IF debt = totalYUSDDeposits THEN 0
        ELSE LossPerUnit(debt) * totalYUSDDeposits - LossNumerator(debt)
  BY DEF offset
<1>4. added \in [Tokens -> Nat]
  BY <1>0, SeizedTypes DEF SeizedType
<1>5. /\ LossPerUnit(debt) \in 1..DP
      /\ debt # totalYUSDDeposits =>
           LossPerUnit(debt) * totalYUSDDeposits - LossNumerator(debt) \in Nat
  BY <1>0, <1>1, LossTypes
<1>6. lastYUSDLossError_Offset' \in Nat
  BY <1>3, <1>5
<1>7. ProductTypes /\ SumTypes
  BY DEF StabilityInv, TypeOK, ProductTypes, SumTypes
<1>8. ProductTypes' /\ ProductMoves
  <2>1. DP - LossPerUnit(debt) \in 0..DP
    BY <1>0, <1>5
  <2> QED
    BY <1>1, <1>7, <2>1, UpdateProductMoves
<1>9. /\ totalYETIIssued' \in 0..YETISupplyCap /\ lastYETIError' \in Nat
      /\ epochToScaleToG' \in [Epochs \X Scales -> Nat]
      /\ \A x \in Epochs \X Scales : epochToScaleToG[x] <= epochToScaleToG'[x]
  BY <1>1, IssueTypes
<1>10. ASSUME NEW t \in Tokens
       PROVE  /\ AssetGainPerUnit(t, added) \in Nat
              /\ Numerator(t, added) - (AssetGainPerUnit(t, added) * totalYUSDDeposits) \div P \in Nat
  <2>1. added[t] \in Nat /\ lastAssetError_Offset[t] \in Nat
    BY <1>0, <1>4
  <2>2. Numerator(t, added) \in Nat
    <3>1. added[t] * DP \in Nat
      BY <1>0, <2>1, ProductNat
    <3> QED
      BY <2>1, <3>1 DEF Numerator
  <2> QED
    BY <1>0, <1>1, <2>2, ErrorFits DEF AssetGainPerUnit
<1>11. lastAssetError_Offset' \in [Tokens -> Nat]
  BY <1>0, <1>2, <1>10
<1>12. /\ epochToScaleToSum' \in [Tokens -> [Epochs \X Scales -> Nat]]
       /\ \A t \in Tokens : \A x \in Epochs \X Scales :
            epochToScaleToSum[t][x] <= epochToScaleToSum'[t][x]
  <2> DEFINE D == Epochs \X Scales
  <2>1. epochToScaleToSum \in [Tokens -> [D -> Nat]]
    BY <1>0
  <2> HIDE DEF D
  <2>2. ASSUME NEW t \in Tokens
        PROVE  /\ epochToScaleToSum'[t] \in [D -> Nat]
               /\ \A x \in D : epochToScaleToSum[t][x] <= epochToScaleToSum'[t][x]
    <3>1. epochToScaleToSum[t] \in [D -> Nat]
      BY <2>1
    <3>2. CASE added[t] = 0
      <4>1. epochToScaleToSum'[t] = epochToScaleToSum[t]
        BY <1>2, <3>2
      <4> QED
        BY <3>1, <4>1
    <3>3. CASE added[t] # 0
      <4>1. epochToScaleToSum'[t]
              = [epochToScaleToSum[t] EXCEPT ![Now] = @ + AssetGainPerUnit(t, added)]
        BY <1>2, <3>3
      <4>2. AssetGainPerUnit(t, added) \in Nat
        BY <1>10
      <4> DEFINE f == epochToScaleToSum[t]
                 g == epochToScaleToSum'[t]
                 r == AssetGainPerUnit(t, added)
      <4>3. g = [f EXCEPT ![Now] = @ + r] /\ f \in [D -> Nat] /\ r \in Nat
        BY <3>1, <4>1, <4>2
      <4> HIDE DEF f, g, r
      <4>4. g \in [D -> Nat] /\ \A x \in D : f[x] <= g[x]
        BY <4>3, EntryGrows
      <4> QED
        BY <4>4 DEF f, g
    <3> QED
      BY <3>2, <3>3
  <2>3. epochToScaleToSum' = [t \in Tokens |-> epochToScaleToSum'[t]]
    BY <1>2
  <2>4. epochToScaleToSum' \in [Tokens -> [D -> Nat]]
    BY <2>2, <2>3
  <2> QED
    BY <2>2, <2>4 DEF D
<1>13. SumTypes' /\ SumsGrow
  BY <1>9, <1>12 DEF SumTypes, SumsGrow
<1>14. totalYUSDDeposits' \in Nat /\ totalColl' \in [Tokens -> Nat]
  BY <1>0, <1>1, <1>2, <1>4
<1>15. /\ UNCHANGED <<depositVars, frontEndStakes, frontEndSnapshots>>
       /\ deposits' = deposits /\ frontEnds' = frontEnds /\ yetiSent' = yetiSent
       /\ depositSnapshots' = depositSnapshots
       /\ frontEndStakes' = frontEndStakes /\ frontEndSnapshots' = frontEndSnapshots
  BY <1>1 DEF depositVars, frontEndVars
<1>16. SnapshotsBehind'
  BY <1>8, <1>13, <1>15, RecordsStayBehind
<1>17. /\ deposits' \in [Users -> [initialValue : Nat, frontEndTag : Tags]]
       /\ depositSnapshots' \in [Users -> Snapshots]
       /\ frontEnds' \in [Tags -> [registered : BOOLEAN, kickbackRate : 0..DP]]
       /\ frontEndStakes' \in [Tags -> Nat] /\ frontEndSnapshots' \in [Tags -> Snapshots]
       /\ yetiSent' \in Nat
  BY <1>15 DEF StabilityInv, TypeOK
<1>18. TypeOK'
  BY <1>6, <1>8, <1>9, <1>11, <1>12, <1>14, <1>17 DEF TypeOK, ProductTypes
<1>19. TagsRegistered' /\ KickbacksStay
  BY <1>15 DEF StabilityInv, TagsRegistered, KickbacksStay, KickbackOf
<1> QED
  BY <1>8, <1>13, <1>16, <1>18, <1>19 DEF StepKeeps, StabilityInv

LEMMA StepsKeep ==
  ASSUME StabilityInv, [Next]_vars
  PROVE  StepKeeps
<1>1. CASE UNCHANGED vars
  BY <1>1, StutterKeeps
<1>2. ASSUME NEW issuance \in Issuances, NEW u \in Users, NEW amount \in Amounts, NEW tag \in Tags,
             provideToSP(u, amount, tag, issuance)
      PROVE  StepKeeps
  BY <1>2, ProvideKeeps
<1>3. ASSUME NEW issuance \in Issuances, NEW u \in Users, NEW amount \in Withdrawals,
             NEW icr \in LowestICRs, withdrawFromSP(u, amount, icr, issuance)
      PROVE  StepKeeps
  BY <1>3, WithdrawKeeps
<1>4. ASSUME NEW issuance \in Issuances, NEW debt \in Debts \cup {totalYUSDDeposits},
             NEW added \in Seized(debt), offset(debt, added, issuance)
      PROVE  StepKeeps
  BY <1>4, OffsetKeeps
<1>5. ASSUME NEW u \in Users, NEW rate \in KickbackRates, registerFrontEnd(u, rate)
      PROVE  StepKeeps
  BY <1>5, RegisterKeeps
<1> QED
  BY <1>1, <1>2, <1>3, <1>4, <1>5 DEF Next

LEMMA InitStability == Init => StabilityInv
<1> SUFFICES ASSUME Init PROVE StabilityInv
  OBVIOUS
<1>0. /\ DP \in Nat \ {0} /\ DP \in 1..DP /\ 0 \in 0..DP /\ MaxScale \in Nat /\ MaxEpoch \in Nat
      /\ 0 \in 0..MaxScale /\ 0 \in Epochs /\ YETISupplyCap \in Nat /\ NoFrontEnd \in Tags
  BY ScaleAssumption, InputAssumption DEF Epochs, Tags
<1>1. NoSnapshot \in Snapshots /\ NoAmounts \in [Tokens -> Nat]
  BY <1>0 DEF NoSnapshot, Snapshots, NoAmounts
<1>2. TypeOK
  BY <1>0, <1>1 DEF Init, TypeOK
<1>3. SnapshotsBehind
  BY DEF Init, SnapshotsBehind
<1>4. TagsRegistered
  BY DEF Init, TagsRegistered
<1> QED
  BY <1>2, <1>3, <1>4 DEF StabilityInv

LEMMA StabilityInvariant == Spec => []StabilityInv
<1>1. StabilityInv /\ [Next]_vars => StabilityInv'
  BY StepsKeep DEF StepKeeps
<1> QED
  BY <1>1, InitStability, PTL DEF Spec

(* No call computes a number below zero or a product of zero or above one, *)
(* in any number of scales and epochs: what a liquidation takes from each  *)
(* unit is at most the unit, and a product scaled up is below one.         *)
THEOREM PoolAlwaysTyped == Spec => []TypeOK
<1>1. StabilityInv => TypeOK
  BY DEF StabilityInv
<1> QED
  BY <1>1, StabilityInvariant, PTL

(* Every deposit and every front end's stake can be read, and so paid, in  *)
(* every state: its snapshot divides and nothing subtracted is larger than *)
(* what it is subtracted from.                                             *)
THEOREM SnapshotsAlwaysBehind == Spec => []SnapshotsBehind
<1>1. StabilityInv => SnapshotsBehind
  BY DEF StabilityInv
<1> QED
  BY <1>1, StabilityInvariant, PTL

(* No call of anyone else takes a gain from a deposit or adds to what it   *)
(* may withdraw, however the numbers are rounded.                          *)
THEOREM OthersNeverTake == Spec => OthersNeverTakeGains
<1>1. StabilityInv /\ StabilityInv' /\ [Next]_vars =>
        [\A u \in Users : deposits'[u] = deposits[u] /\ depositSnapshots'[u] = depositSnapshots[u] =>
           /\ CompoundedDeposit(u)' <= CompoundedDeposit(u)
           /\ DepositorYETIGain(u, epochToScaleToG)' >= DepositorYETIGain(u, epochToScaleToG)
           /\ \A t \in Tokens : CollGain(u, t)' >= CollGain(u, t)]_vars
  <2> SUFFICES ASSUME StabilityInv, StabilityInv', [Next]_vars, NEW u \in Users,
                      deposits'[u] = deposits[u], depositSnapshots'[u] = depositSnapshots[u]
               PROVE  ReadsKept(u)
    BY DEF ReadsKept
  <2>1. StepKeeps
    BY StepsKeep
  <2> QED
    BY <2>1, ReadsAreKept DEF StepKeeps, KickbacksStay
<1> QED
  BY <1>1, StabilityInvariant, PTL DEF Spec, OthersNeverTakeGains
=============================================================================
