------------------------- MODULE TroveManagerProofs -------------------------
(***************************************************************************)
(* Proofs about module TroveManager, for every set of tokens, borrowers    *)
(* and inputs.  They come in layers, each inductive under those before it: *)
(*   LedgerInv      YUSD in existence is debt;                             *)
(*   ReservesInv    GasPool and the minimum debt;                          *)
(*   AllInv         with TypesInv, what every variable may hold;           *)
(*   TotalsInv      the sums that the pools keep beside the troves: debt,  *)
(*                  stakes and collateral;                                 *)
(*   BatchVCInv     a batch's own copy of the system's collateral value.   *)
(* Two more need a hypothesis about the steps, because the code can break  *)
(* what they say, and the theorems name the steps that do:                 *)
(*   ActivePoolInv  ActivePool's collateral, unless RedeemsOverlooked;     *)
(*   ClaimsInv      DefaultPool's collateral and debt, unless              *)
(*                  StakeGrowsBehind.                                      *)
(* CollsNamed, that open troves have collateral, is for a single token.    *)
(* The last part follows a redemption and what it does to a trove's ratio. *)
(* In the first two the sums over tokens (VC, USD, PendingDebt) stay       *)
(* unexpanded: the guards of the actions, which are the checks of SafeMath *)
(* in the code, say all those proofs need to know of them.                 *)
(***************************************************************************)
EXTENDS TroveManager, CommonTheorems

-----------------------------------------------------------------------------
(* The queue of borrowers (SortedTroves) and what Place and Without do to it. *)

Injective(s) == \A i, j \in 1..Len(s) : s[i] = s[j] => i = j
Elems(s) == {s[i] : i \in 1..Len(s)}

\* An element of the list has a place, and only one where it stands once.
LEMMA PlaceIs ==
  ASSUME NEW s, NEW b, b \in Elems(s)
  PROVE  Place(s, b) \in 1..Len(s) /\ s[Place(s, b)] = b
  BY DEF Place, Elems

LEMMA WithoutIs ==
  ASSUME NEW S, NEW s \in Seq(S), Injective(s), NEW b
  PROVE  /\ Without(s, b) \in Seq(S)
         /\ Injective(Without(s, b))
         /\ Elems(Without(s, b)) = Elems(s) \ {b}
  <1>1. Len(s) \in Nat
    BY LenProperties
  <1>2. CASE b \notin Elems(s)
    BY <1>2 DEF Without, Elems
  <1>3. CASE b \in Elems(s)
    <2> DEFINE i == Place(s, b)
               r == RemoveAt(s, i)
    <2>1. i \in 1..Len(s) /\ s[i] = b
      BY <1>3, PlaceIs
    <2>2. Without(s, b) = r
      BY <2>1 DEF Without
    <2> HIDE DEF i
    <2>3. /\ r \in Seq(S) /\ Len(r) = Len(s) - 1
          /\ \A j \in 1..(Len(s) - 1) : r[j] = IF j < i THEN s[j] ELSE s[j + 1]
      BY <2>1, RemoveAtIs
    <2> HIDE DEF r
    <2>4. Injective(r)
      BY <1>1, <2>1, <2>3 DEF Injective
    <2>5. ASSUME NEW x \in Elems(r) PROVE x \in Elems(s) \ {b}
      <3>1. PICK j \in 1..(Len(s) - 1) : x = r[j]
        BY <2>3 DEF Elems
      <3>2. CASE j < i
        <4>1. x = s[j] /\ j \in 1..Len(s) /\ j # i
          BY <1>1, <2>1, <2>3, <3>1, <3>2
        <4> QED
          BY <2>1, <4>1 DEF Injective, Elems
      <3>3. CASE ~(j < i)
        <4>1. x = s[j + 1] /\ j + 1 \in 1..Len(s) /\ j + 1 # i
          BY <1>1, <2>1, <2>3, <3>1, <3>3
        <4> QED
          BY <2>1, <4>1 DEF Injective, Elems
      <3> QED
        BY <3>2, <3>3
    <2>6. ASSUME NEW x \in Elems(s) \ {b} PROVE x \in Elems(r)
      <3>1. PICK j \in 1..Len(s) : x = s[j]
        BY DEF Elems
      <3>2. j # i
        BY <2>1, <3>1
      <3>3. CASE j < i
        <4>1. j \in 1..(Len(s) - 1) /\ r[j] = x
          BY <1>1, <2>1, <2>3, <3>1, <3>3
        <4> QED
          BY <2>3, <4>1 DEF Elems
      <3>4. CASE j > i
        <4>1. j - 1 \in 1..(Len(s) - 1) /\ ~(j - 1 < i) /\ (j - 1) + 1 = j
          BY <1>1, <2>1, <3>4
        <4>2. r[j - 1] = x
          BY <2>3, <3>1, <4>1
        <4> QED
          BY <2>3, <4>1, <4>2 DEF Elems
      <3> QED
        BY <1>1, <2>1, <3>2, <3>3, <3>4
    <2> QED
      BY <2>2, <2>3, <2>4, <2>5, <2>6
  <1> QED
    BY <1>2, <1>3

LEMMA InsertIs ==
  ASSUME NEW S, NEW s \in Seq(S), Injective(s), NEW i \in 1..(Len(s) + 1), NEW e \in S,
         e \notin Elems(s)
  PROVE  /\ InsertAt(s, i, e) \in Seq(S)
         /\ Injective(InsertAt(s, i, e))
         /\ Elems(InsertAt(s, i, e)) = Elems(s) \cup {e}
  <1>1. Len(s) \in Nat /\ \A j \in 1..Len(s) : s[j] # e
    BY LenProperties DEF Elems
  <1>2. InsertAt(s, i, e) \in Seq(S) /\ IsInsertion(InsertAt(s, i, e), s, i, e)
    BY InsertAtIs
  <1> DEFINE r == InsertAt(s, i, e)
  <1>3. /\ r \in Seq(S) /\ Len(r) = Len(s) + 1
        /\ \A j \in 1..(Len(s) + 1) : r[j] = IF j < i THEN s[j] ELSE IF j = i THEN e ELSE s[j - 1]
    BY <1>2 DEF IsInsertion
  <1> HIDE DEF r
  <1>4. Injective(r)
    <2> SUFFICES ASSUME NEW j \in 1..Len(r), NEW k \in 1..Len(r), r[j] = r[k] PROVE j = k
      BY DEF Injective
    <2>1. \A l \in 1..Len(r) : /\ l < i => r[l] = s[l] /\ l \in 1..Len(s)
                               /\ l = i => r[l] = e
                               /\ l > i => r[l] = s[l - 1] /\ l - 1 \in 1..Len(s)
      BY <1>1, <1>3
    <2>2. CASE j = i
      BY <1>1, <1>3, <2>1, <2>2
    <2>3. CASE j < i
      <3>1. CASE k < i
        BY <1>1, <1>3, <2>1, <2>3, <3>1 DEF Injective
      <3>2. CASE k > i
        <4>1. j = k - 1
          BY <2>1, <2>3, <3>2 DEF Injective
        <4> QED
          BY <1>1, <1>3, <2>3, <3>2, <4>1
      <3>3. CASE k = i
        BY <1>1, <1>3, <2>1, <2>3, <3>3
      <3> QED
        BY <1>1, <1>3, <3>1, <3>2, <3>3
    <2>4. CASE j > i
      <3>1. CASE k < i
        <4>1. k = j - 1
          BY <2>1, <2>4, <3>1 DEF Injective
        <4> QED
          BY <1>1, <1>3, <2>4, <3>1, <4>1
      <3>2. CASE k > i
        <4>1. j - 1 = k - 1
          BY <2>1, <2>4, <3>2 DEF Injective
        <4> QED
          BY <1>1, <1>3, <4>1
      <3>3. CASE k = i
        BY <1>1, <1>3, <2>1, <2>4, <3>3
      <3> QED
        BY <1>1, <1>3, <3>1, <3>2, <3>3
    <2> QED
      BY <1>1, <1>3, <2>2, <2>3, <2>4
  <1>5. ASSUME NEW x \in Elems(r) PROVE x \in Elems(s) \cup {e}
    <2>1. PICK j \in 1..(Len(s) + 1) : x = r[j]
      BY <1>3 DEF Elems
    <2>2. \/ x = e
          \/ j \in 1..Len(s) /\ x = s[j]
          \/ j - 1 \in 1..Len(s) /\ x = s[j - 1]
      BY <1>1, <1>3, <2>1
    <2> QED
      BY <2>2 DEF Elems
  <1>6. ASSUME NEW x \in Elems(s) \cup {e} PROVE x \in Elems(r)
    <2>1. CASE x = e
      <3>1. i \in 1..Len(r) /\ r[i] = e
        BY <1>1, <1>3
      <3> QED
        BY <2>1, <3>1 DEF Elems
    <2>2. CASE x # e
      <3>1. PICK j \in 1..Len(s) : x = s[j]
        BY <2>2 DEF Elems
      <3>2. CASE j < i
        <4>1. j \in 1..Len(r) /\ r[j] = x
          BY <1>1, <1>3, <3>1, <3>2
        <4> QED
          BY <4>1 DEF Elems
      <3>3. CASE ~(j < i)
        <4>1. j + 1 \in 1..Len(r) /\ (j + 1) - 1 = j /\ ~(j + 1 < i) /\ j + 1 # i
          BY <1>1, <1>3, <3>3
        <4>2. r[j + 1] = x
          BY <1>3, <3>1, <4>1
        <4> QED
          BY <4>1, <4>2 DEF Elems
      <3> QED
        BY <3>2, <3>3
    <2> QED
      BY <2>1, <2>2
  <1> QED
    BY <1>3, <1>4, <1>5, <1>6 DEF r

-----------------------------------------------------------------------------
(* Arithmetic of shares, and amounts of every token.                       *)

\* A share of x that is at most n parts of n.
LEMMA PartOf ==
  ASSUME NEW x \in Nat, NEW r \in Nat, NEW n \in Nat \ {0}, r <= n
  PROVE  (x * r) \div n \in Nat /\ (x * r) \div n <= x
  <1> DEFINE q == (x * r) \div n
  <1>1. x * r \in Nat /\ x * r <= x * n
    <2>1. x * r \in Nat /\ x * n \in Nat /\ x * (n - r) \in Nat /\ n - r \in Nat
      OBVIOUS
    <2>2. x * n = x * r + x * (n - r)
      OBVIOUS
    <2> QED
      BY <2>1, <2>2
  <1>2. q \in Nat /\ q * n <= x * r
    BY <1>1, FloorFits
  <1> HIDE DEF q
  <1>3. ASSUME q > x PROVE FALSE
    <2>1. (q - x) * n >= n
      BY <1>2, <1>3
    <2>2. q * n = x * n + (q - x) * n
      BY <1>2
    <2> QED
      BY <1>1, <1>2, <2>1, <2>2
  <1> QED
    BY <1>2, <1>3 DEF q

\* Two parts of x, each rounded down, are together at most x.
LEMMA TwoParts ==
  ASSUME NEW x \in Nat, NEW r \in Nat, NEW s \in Nat, NEW n \in Nat \ {0}, s <= r, r <= n
  PROVE  /\ (x * s) \div n \in Nat /\ (x * (r - s)) \div n \in Nat
         /\ (x * s) \div n + (x * (r - s)) \div n <= x
  <1> DEFINE p == (x * s) \div n
             q == (x * (r - s)) \div n
  <1>1. /\ x * s \in Nat /\ x * (r - s) \in Nat
        /\ x * s + x * (r - s) = x * r
    OBVIOUS
  <1>2. x * r <= x * n
    <2>1. x * n = x * r + x * (n - r) /\ x * (n - r) \in Nat /\ x * r \in Nat
      OBVIOUS
    <2> QED
      BY <2>1
  <1>3. p \in Nat /\ p * n <= x * s /\ q \in Nat /\ q * n <= x * (r - s)
    BY <1>1, FloorFits
  <1> HIDE DEF p, q
  <1>4. ASSUME p + q > x PROVE FALSE
    <2>1. (p + q - x) * n >= n
      BY <1>3, <1>4
    <2>2. p * n + q * n = x * n + (p + q - x) * n
      BY <1>3
    <2> QED
      BY <1>1, <1>2, <1>3, <2>1, <2>2
  <1> QED
    BY <1>3, <1>4 DEF p, q
-----------------------------------------------------------------------------
LEMMA NoCollsType == NoColls \in Colls
  BY DEF NoColls, Colls

LEMMA SumCollsType ==
  ASSUME NEW c \in Colls, NEW d \in Colls
  PROVE  SumColls(c, d) \in Colls
  BY DEF SumColls, Colls

LEMMA SubCollsType ==
  ASSUME NEW c \in Colls, NEW d, Covers(c, d)
  PROVE  SubColls(c, d) \in Colls
  BY DEF SubColls, Colls, Covers

LEMMA UnwrappedType ==
  ASSUME NEW c \in Colls, NEW d, Covers(c, d), NEW sold
  PROVE  Unwrapped(c, d, sold) \in Colls
  BY DEF Unwrapped, Colls, Covers

LEMMA PriceType ==
  ASSUME NEW p \in [Tokens -> Prices], NEW t \in Tokens
  PROVE  p[t] \in Nat \ {0}
  BY InputAssumption

LEMMA HundredType == 100 * DP \in Nat \ {0}
  BY ScaleAssumption

LEMMA ValueUSDType ==
  ASSUME NEW p \in [Tokens -> Prices], NEW t \in Tokens, NEW x \in Nat
  PROVE  ValueUSD(p, t, x) \in Nat /\ p[t] * x \in Nat
  <1>1. p[t] \in Nat /\ DP \in Nat \ {0}
    BY PriceType, ScaleAssumption
  <1>2. p[t] * x \in Nat
    BY <1>1, ProductNat
  <1> QED
    BY <1>1, <1>2, FloorFits DEF ValueUSD

LEMMA USDType ==
  ASSUME NEW p \in [Tokens -> Prices], NEW c \in Colls
  PROVE  USD(p, c) \in Nat
  <1> DEFINE f == [t \in Tokens |-> ValueUSD(p, t, c[t])]
  <1>1. \A t \in Tokens : f[t] \in Nat
    BY ValueUSDType DEF Colls
  <1>2. DOMAIN f = Tokens
    OBVIOUS
  <1>3. USD(p, c) = SumFunctionOnSet(f, DOMAIN f)
    BY DEF USD, SumFunction
  <1> HIDE DEF f
  <1> QED
    BY <1>1, <1>2, <1>3, SumNat, TokensAssumption

LEMMA VCType ==
  ASSUME NEW p \in [Tokens -> Prices], NEW c \in Colls
  PROVE  VC(p, c) \in Nat
  <1> DEFINE f == [t \in Tokens |-> ValueVC(p, t, c[t])]
  <1>1. ASSUME NEW t \in Tokens PROVE f[t] \in Nat
    <2>1. p[t] \in Nat /\ c[t] \in Nat /\ Ratio[t] \in Nat
      BY PriceType, ScaleAssumption DEF Colls
    <2>2. p[t] * c[t] \in Nat
      BY <2>1
    <2>3. p[t] * c[t] * Ratio[t] \in Nat
      BY <2>1, <2>2
    <2>4. (p[t] * c[t] * Ratio[t]) \div (100 * DP) \in Nat
      BY <2>3, HundredType, FloorFits
    <2> QED
      BY <2>4 DEF ValueVC
  <1>2. DOMAIN f = Tokens
    OBVIOUS
  <1>3. VC(p, c) = SumFunctionOnSet(f, DOMAIN f)
    BY DEF VC, SumFunction
  <1> HIDE DEF f
  <1> QED
    BY <1>1, <1>2, <1>3, SumNat, TokensAssumption

\* No collateral is worth nothing.
LEMMA NoCollsVC ==
  ASSUME NEW p \in [Tokens -> Prices]
  PROVE  VC(p, NoColls) = 0
  <1> DEFINE f == [t \in Tokens |-> ValueVC(p, t, NoColls[t])]
             k == 100 * DP
  <1>1. k \in Nat \ {0}
    BY HundredType
  <1>2. 0 \div k = 0
    <2> HIDE DEF k
    <2>1. 0 * k = 0
      BY <1>1
    <2>2. 0 \div k \in Nat /\ 0 \div k <= 0
      BY <1>1, <2>1, FloorAtMost
    <2> QED
      BY <2>2
  <1>3. ASSUME NEW t \in Tokens PROVE f[t] = 0
    <2>1. NoColls[t] = 0 /\ p[t] \in Nat /\ Ratio[t] \in Nat
      BY PriceType, ScaleAssumption DEF NoColls
    <2>2. p[t] * 0 * Ratio[t] = 0
      BY <2>1, Z3
    <2> QED
      BY <1>2, <2>1, <2>2 DEF ValueVC
  <1>4. VC(p, NoColls) = SumFunctionOnSet(f, Tokens)
    BY DEF VC, SumFunction
  <1> HIDE DEF f
  <1> QED
    BY <1>3, <1>4, SumZero, TokensAssumption

LEMMA ComputeCRType ==
  ASSUME NEW vc \in Nat, NEW d \in Nat
  PROVE  ComputeCR(vc, d) \in Nat
  <1>1. CASE d = 0
    BY <1>1, ScaleAssumption DEF ComputeCR
  <1>2. CASE d # 0
    <2>1. vc * DP \in Nat
      BY ScaleAssumption
    <2> QED
      BY <1>2, <2>1, FloorFits DEF ComputeCR
  <1> QED
    BY <1>1, <1>2

LEMMA GasShareType ==
  ASSUME NEW c \in Colls
  PROVE  /\ GasShare(c) \in Colls
         /\ Covers(c, GasShare(c))
  <1>1. ASSUME NEW t \in Tokens PROVE c[t] \div PercentDivisor \in Nat /\ c[t] \div PercentDivisor <= c[t]
    <2>1. c[t] \in Nat /\ PercentDivisor \in Nat \ {0}
      BY ScaleAssumption DEF Colls
    <2>2. (c[t] * 1) \div PercentDivisor \in Nat /\ (c[t] * 1) \div PercentDivisor <= c[t]
      BY <2>1, PartOf
    <2> QED
      BY <2>1, <2>2
  <1> QED
    BY <1>1 DEF GasShare, Colls, Covers

-----------------------------------------------------------------------------
(* The YUSD of the ledger.                                                  *)

\* The local variables of a running transaction that hold YUSD amounts.
LiquidationTx ==
  /\ tx = [kind |-> "liquidation", recovery |-> tx.recovery,
           remainingSP |-> tx.remainingSP, systemVC |-> tx.systemVC,
           systemDebt |-> tx.systemDebt, sequenceDebt |-> tx.sequenceDebt,
           gasYUSD |-> tx.gasYUSD, totals |-> tx.totals]
  /\ tx.gasYUSD \in Nat /\ tx.remainingSP \in Nat
  /\ tx.totals.offset \in Nat /\ tx.totals.redistribute \in Nat

RedemptionTx ==
  /\ tx = [kind |-> "redemption", current |-> tx.current, remaining |-> tx.remaining,
           redeemed |-> tx.redeemed, drawn |-> tx.drawn]
  /\ tx.remaining \in Nat /\ tx.redeemed \in Nat
  /\ tx.redeemed + tx.remaining <= circulating

\* The YUSD side of the ledger: no counter ever goes below zero, and a
\* redemption never plans to burn more than there is.
LedgerTypeOK ==
  /\ circulating \in Nat /\ gasPool \in Nat /\ spYUSD \in Nat
  /\ activeDebt \in Nat /\ defaultDebt \in Nat
  /\ debt \in [Borrowers -> Nat]
  /\ tx = NoTx \/ LiquidationTx \/ RedemptionTx

LedgerInv == LedgerTypeOK /\ SupplyMatchesDebt

USE DEF Idle, NoTx

LEMMA InitLedger == Init => LedgerInv
  BY ScaleAssumption DEF Init, LedgerInv, LedgerTypeOK, SupplyMatchesDebt, PerBorrower

LEMMA OpenTroveLedger ==
  ASSUME LedgerInv, NEW b \in Borrowers, NEW c \in OpenColls, NEW y \in OpenDebts,
         NEW bfee \in BorrowingFees, NEW vfee \in DepositFees,
         OpenTrove(b, c, y, bfee, vfee)
  PROVE  LedgerInv'
  <1> DEFINE net == y + (IF RecoveryMode THEN 0 ELSE bfee) + vfee
  <1>1. net \in Nat
    BY InputAssumption
  <1>2. /\ tx = NoTx /\ tx' = tx
        /\ debt' = [debt EXCEPT ![b] = @ + (net + GasCompensation)]
        /\ activeDebt' = activeDebt + (net + GasCompensation)
        /\ circulating' = circulating + net
        /\ gasPool' = gasPool + GasCompensation
        /\ UNCHANGED <<spYUSD, defaultDebt>>
    BY DEF OpenTrove, defaultVars
  <1> HIDE DEF net
  <1> QED
    BY <1>1, <1>2, ScaleAssumption DEF LedgerInv, LedgerTypeOK, SupplyMatchesDebt

\* A step that touches no YUSD amount keeps the invariant.
LEMMA QuietLedger ==
  ASSUME LedgerInv, UNCHANGED <<circulating, gasPool, spYUSD, activeDebt, defaultDebt, debt, tx>>
  PROVE  LedgerInv'
  BY DEF LedgerInv, LedgerTypeOK, SupplyMatchesDebt, LiquidationTx, RedemptionTx

LEMMA AppliedDebtFits ==
  ASSUME LedgerInv, NEW b \in Borrowers, CanMovePending(AppliedDebt(b), AppliedColl(b))
  PROVE  AppliedDebt(b) \in Nat /\ AppliedDebt(b) <= defaultDebt
  BY DEF CanMovePending, LedgerInv, LedgerTypeOK

LEMMA AdjustTroveLedger ==
  ASSUME LedgerInv, NEW b \in Borrowers, NEW cIn, NEW cOut, NEW y \in AdjustDebts \cup {0},
         NEW up \in BOOLEAN, NEW bfee \in BorrowingFees, NEW vfee \in DepositFees, NEW sold,
         AdjustTrove(b, cIn, cOut, y, up, bfee, vfee, sold)
  PROVE  LedgerInv'
  <1> DEFINE change == DebtChange(y, up, bfee)
             vf == VariableFee(cIn, vfee)
             pd == AppliedDebt(b)
             newDebt == AdjustedDebt(b, cIn, y, up, bfee, vfee)
  <1>1. y \in Nat /\ change \in Nat /\ vf \in Nat /\ (~up => change = y)
    BY InputAssumption DEF DebtChange, VariableFee
  <1>2. pd \in Nat /\ pd <= defaultDebt
    BY AppliedDebtFits DEF AdjustTrove
  <1>3. /\ tx = NoTx /\ tx' = tx
        /\ defaultDebt' = defaultDebt - pd
        /\ UNCHANGED <<spYUSD, gasPool>>
        /\ newDebt >= 0
        /\ debt' = [debt EXCEPT ![b] = newDebt]
    BY DEF AdjustTrove
  <1>4. newDebt \in Nat
    BY <1>1, <1>2, <1>3 DEF AdjustedDebt, LedgerInv, LedgerTypeOK
  <1>5. IF up THEN /\ activeDebt' = activeDebt + pd + change + vf
                   /\ circulating' = circulating + change + vf
        ELSE /\ y \in 0..(activeDebt + pd)
             /\ activeDebt' = activeDebt + pd - y + vf
             /\ circulating' = circulating - y + vf
    BY DEF AdjustTrove
  <1>6. ~up /\ y # 0 => y <= circulating
    BY DEF AdjustTrove
  <1> HIDE DEF change, vf, pd, newDebt
  <1> QED
    BY <1>1, <1>2, <1>3, <1>4, <1>5, <1>6 DEF LedgerInv, LedgerTypeOK, SupplyMatchesDebt

LEMMA CloseTroveLedger ==
  ASSUME LedgerInv, NEW b \in Borrowers, NEW unlever, NEW sold, CloseTrove(b, unlever, sold)
  PROVE  LedgerInv'
  <1> DEFINE pd == AppliedDebt(b)
             d == debt[b] + pd
  <1>1. pd \in Nat /\ pd <= defaultDebt
    BY AppliedDebtFits DEF CloseTrove
  <1>2. /\ tx = NoTx /\ tx' = tx
        /\ GasCompensation <= d /\ d - GasCompensation <= circulating
        /\ debt' = [debt EXCEPT ![b] = 0]
        /\ defaultDebt' = defaultDebt - pd
        /\ d \in 0..(activeDebt + pd)
        /\ activeDebt' = activeDebt + pd - d
        /\ circulating' = circulating - (d - GasCompensation)
        /\ GasCompensation <= gasPool
        /\ gasPool' = gasPool - GasCompensation
        /\ UNCHANGED spYUSD
    BY DEF CloseTrove, CloseAs, BurnGasReserve
  <1> HIDE DEF pd
  <1> QED
    BY <1>1, <1>2, ScaleAssumption DEF LedgerInv, LedgerTypeOK, SupplyMatchesDebt

LEMMA StabilityPoolLedger ==
  ASSUME LedgerInv, NEW x \in Deposits, ProvideToSP(x) \/ WithdrawFromSP(x)
  PROVE  LedgerInv'
  <1>1. /\ tx = NoTx /\ tx' = tx
        /\ UNCHANGED <<debt, activeDebt, defaultDebt, gasPool>>
        /\ \/ circulating' = circulating - x /\ spYUSD' = spYUSD + x /\ x <= circulating
           \/ circulating' = circulating + x /\ spYUSD' = spYUSD - x /\ x <= spYUSD
    BY DEF ProvideToSP, WithdrawFromSP, troveVars, activeVars, defaultVars
  <1> QED
    BY <1>1, InputAssumption DEF LedgerInv, LedgerTypeOK, SupplyMatchesDebt
-----------------------------------------------------------------------------
(* Liquidations.                                                           *)

LEMMA BeginLiquidationLedger ==
  ASSUME LedgerInv, BeginLiquidation
  PROVE  LedgerInv'
  <1>1. /\ tx' = [kind |-> "liquidation", recovery |-> RecoveryMode,
                  remainingSP |-> spYUSD, systemVC |-> SystemVC, systemDebt |-> SystemDebt,
                  sequenceDebt |-> 0, gasYUSD |-> 0,
                  totals |-> Split(0, 0, NoColls, NoColls, NoColls, NoColls)]
        /\ UNCHANGED <<circulating, gasPool, spYUSD, activeDebt, defaultDebt, debt>>
    BY DEF BeginLiquidation, troveVars, activeVars, defaultVars, yusdVars
  <1>2. LiquidationTx'
    BY <1>1 DEF LiquidationTx, Split, LedgerInv, LedgerTypeOK
  <1> QED
    BY <1>1, <1>2 DEF LedgerInv, LedgerTypeOK, SupplyMatchesDebt

\* What a liquidation splits off never exceeds the debt and what is left of
\* the StabilityPool, and loses none of the debt.
SplitOf(v, d, sp) ==
  /\ v.offset \in Nat /\ v.redistribute \in Nat /\ v.offset <= sp
  /\ v.offset + v.redistribute = d

LEMMA PureRedistributionSplits ==
  ASSUME NEW d \in Nat, NEW c, NEW sp \in Nat
  PROVE  SplitOf(PureRedistribution(d, c), d, sp)
  BY DEF PureRedistribution, Split, SplitOf

LEMMA OffsetAndRedistributionSplits ==
  ASSUME NEW d \in Nat, NEW c, NEW sp \in Nat
  PROVE  SplitOf(OffsetAndRedistribution(d, c, sp), d, sp)
  <1>1. CASE sp = 0
    BY <1>1, PureRedistributionSplits DEF OffsetAndRedistribution
  <1>2. CASE sp # 0
    <2>1. /\ OffsetAndRedistribution(d, c, sp).offset = Smaller(d, sp)
          /\ OffsetAndRedistribution(d, c, sp).redistribute = d - Smaller(d, sp)
      BY <1>2 DEF OffsetAndRedistribution, Split
    <2> QED
      BY <2>1 DEF Smaller, SplitOf
  <1> QED
    BY <1>1, <1>2

LEMMA CappedOffsetSplits ==
  ASSUME NEW d \in Nat, NEW c, NEW sp \in Nat, d <= sp
  PROVE  SplitOf(CappedOffset(d, c), d, sp)
  BY DEF CappedOffset, Split, SplitOf

LEMMA LiquidateAsLedger ==
  ASSUME LedgerInv, LiquidationTx, NEW b \in Borrowers, NEW v,
         SplitOf(v, EntireDebt(b), tx.remainingSP), LiquidateAs(b, v)
  PROVE  LedgerInv'
  <1> DEFINE pd == PendingDebt(b)
  <1>1. pd \in Nat /\ pd <= defaultDebt
    BY DEF LiquidateAs, CanMovePending, LedgerInv, LedgerTypeOK
  <1>2. /\ activeDebt' = activeDebt + pd
        /\ defaultDebt' = defaultDebt - pd
        /\ debt' = [debt EXCEPT ![b] = 0]
        /\ UNCHANGED <<spYUSD, circulating, gasPool>>
    BY DEF LiquidateAs, CloseAs, yusdVars
  <1>3. LiquidationTx'
    <2>1. \E rec, vc, sd, sq :
            tx' = [kind |-> "liquidation", recovery |-> rec,
                   remainingSP |-> tx.remainingSP - v.offset, systemVC |-> vc,
                   systemDebt |-> sd, sequenceDebt |-> sq,
                   gasYUSD |-> tx.gasYUSD + GasCompensation, totals |-> AddSplit(tx.totals, v)]
      BY DEF LiquidateAs
    <2>2. /\ AddSplit(tx.totals, v).offset = tx.totals.offset + v.offset
          /\ AddSplit(tx.totals, v).redistribute = tx.totals.redistribute + v.redistribute
      BY DEF AddSplit, Split
    <2>3. /\ tx'.gasYUSD = tx.gasYUSD + GasCompensation
          /\ tx'.remainingSP = tx.remainingSP - v.offset
          /\ tx'.totals = AddSplit(tx.totals, v)
          /\ tx' = [kind |-> "liquidation", recovery |-> tx'.recovery,
                    remainingSP |-> tx'.remainingSP, systemVC |-> tx'.systemVC,
                    systemDebt |-> tx'.systemDebt, sequenceDebt |-> tx'.sequenceDebt,
                    gasYUSD |-> tx'.gasYUSD, totals |-> tx'.totals]
      BY <2>1
    <2> QED
      BY <2>2, <2>3, ScaleAssumption DEF LiquidationTx, SplitOf
  <1> HIDE DEF pd
  <1> QED
    BY <1>1, <1>2, <1>3 DEF LedgerInv, LedgerTypeOK, SupplyMatchesDebt

LEMMA LiquidateLedger ==
  ASSUME LedgerInv, NEW b \in Borrowers, LiquidateNormalMode(b) \/ LiquidateRecoveryMode(b)
  PROVE  LedgerInv'
  <1>1. tx.kind = "liquidation" /\ LiquidationTx
    BY DEF LiquidateNormalMode, LiquidateRecoveryMode, LedgerInv, LedgerTypeOK, LiquidationTx,
           RedemptionTx
  <1>2. tx.remainingSP \in Nat
    BY <1>1 DEF LiquidationTx
  <1>3. ASSUME NEW v, LiquidateAs(b, v)
        PROVE  EntireDebt(b) \in Nat
    BY <1>3 DEF LiquidateAs, CanMovePending, EntireDebt, LedgerInv, LedgerTypeOK
  <1>4. CASE LiquidateNormalMode(b)
    BY <1>1, <1>2, <1>3, <1>4, LiquidateAsLedger, OffsetAndRedistributionSplits
       DEF LiquidateNormalMode
  <1>5. CASE LiquidateRecoveryMode(b)
    <2>1. CASE LiquidateAs(b, PureRedistribution(EntireDebt(b), EntireColl(b)))
      BY <1>1, <1>2, <1>3, <2>1, LiquidateAsLedger, PureRedistributionSplits
    <2>2. CASE LiquidateAs(b, OffsetAndRedistribution(EntireDebt(b), EntireColl(b),
                                                      tx.remainingSP))
      BY <1>1, <1>2, <1>3, <2>2, LiquidateAsLedger, OffsetAndRedistributionSplits
    <2>3. CASE /\ EntireDebt(b) <= tx.remainingSP
               /\ LiquidateAs(b, CappedOffset(EntireDebt(b), EntireColl(b)))
      BY <1>1, <1>2, <1>3, <2>3, LiquidateAsLedger, CappedOffsetSplits
    <2> QED
      BY <1>5, <2>1, <2>2, <2>3 DEF LiquidateRecoveryMode
  <1> QED
    BY <1>4, <1>5

LEMMA FinishLiquidationLedger ==
  ASSUME LedgerInv, FinishLiquidation
  PROVE  LedgerInv'
  <1>1. tx.kind = "liquidation" /\ LiquidationTx
    BY DEF FinishLiquidation, LedgerInv, LedgerTypeOK, LiquidationTx, RedemptionTx
  <1>2. /\ tx' = NoTx
        /\ debt' = debt
        /\ tx.totals.offset <= spYUSD /\ spYUSD' = spYUSD - tx.totals.offset
        /\ tx.totals.offset + tx.totals.redistribute <= activeDebt
        /\ activeDebt' = activeDebt - tx.totals.offset - tx.totals.redistribute
        /\ defaultDebt' = defaultDebt + tx.totals.redistribute
        /\ tx.gasYUSD <= gasPool /\ gasPool' = gasPool - tx.gasYUSD
        /\ circulating' = circulating + tx.gasYUSD
    BY DEF FinishLiquidation, SendGasCompensation, troveVars
  <1>3. /\ tx.totals.offset \in Nat /\ tx.totals.redistribute \in Nat /\ tx.gasYUSD \in Nat
    BY <1>1 DEF LiquidationTx
  <1> QED
    BY <1>2, <1>3 DEF LedgerInv, LedgerTypeOK, SupplyMatchesDebt
-----------------------------------------------------------------------------
(* Redemptions.                                                            *)

LEMMA BeginRedemptionLedger ==
  ASSUME LedgerInv, NEW amount \in Redemptions, NEW b, BeginRedemption(amount, b)
  PROVE  LedgerInv'
  <1>1. /\ tx' = Redemption(b, amount, 0, NoColls)
        /\ amount \in Nat /\ amount <= circulating
        /\ UNCHANGED <<circulating, gasPool, spYUSD, activeDebt, defaultDebt, debt>>
    BY InputAssumption DEF BeginRedemption, troveVars, activeVars, defaultVars, yusdVars
  <1>2. RedemptionTx'
    BY <1>1 DEF RedemptionTx, Redemption
  <1> QED
    BY <1>1, <1>2 DEF LedgerInv, LedgerTypeOK, SupplyMatchesDebt

\* What a redemption does to the YUSD side of the ledger, lot being the debt
\* it takes from the trove: a trove it closes also pays back its gas reserve.
LEMMA ReduceTroveLedger ==
  ASSUME LedgerInv, NEW b \in Borrowers, NEW c, NEW left, NEW new \in Nat, NEW collOut,
         NEW debtOut \in Nat, ReduceTrove(b, c, left, new, collOut, debtOut)
  PROVE  /\ debt' \in [Borrowers -> Nat]
         /\ activeDebt' \in Nat /\ defaultDebt' \in Nat /\ gasPool' \in Nat
         /\ activeDebt' + defaultDebt' = activeDebt + defaultDebt + gasPool' - gasPool - debtOut
  <1> DEFINE pd == AppliedDebt(b)
  <1>1. /\ pd \in Nat /\ pd <= defaultDebt
        /\ debt \in [Borrowers -> Nat]
        /\ activeDebt \in Nat /\ defaultDebt \in Nat /\ gasPool \in Nat
        /\ defaultDebt' = defaultDebt - pd
        /\ debtOut \in 0..(activeDebt + pd)
    BY AppliedDebtFits DEF ReduceTrove, LedgerInv, LedgerTypeOK
  <1>2. CASE new = GasCompensation
    <2>1. /\ debt' = [debt EXCEPT ![b] = 0]
          /\ GasCompensation <= gasPool /\ gasPool' = gasPool - GasCompensation
          /\ GasCompensation + debtOut <= activeDebt + pd
          /\ activeDebt' = activeDebt + pd - GasCompensation - debtOut
      BY <1>1, <1>2 DEF ReduceTrove, CloseAs, BurnGasReserve
    <2> HIDE DEF pd
    <2> QED
      BY <1>1, <2>1, ScaleAssumption
  <1>3. CASE new # GasCompensation
    <2>1. /\ debt' = [debt EXCEPT ![b] = new]
          /\ gasPool' = gasPool
          /\ activeDebt' = activeDebt + pd - debtOut
      BY <1>1, <1>3 DEF ReduceTrove
    <2> HIDE DEF pd
    <2> QED
      BY <1>1, <2>1
  <1> QED
    BY <1>2, <1>3

LEMMA RedeemFromTroveLedger ==
  ASSUME LedgerInv, NEW b \in Borrowers, RedeemFromTrove(b)
  PROVE  LedgerInv'
  <1> DEFINE d == debt[b] + AppliedDebt(b)
             lot == Smaller(tx.remaining, d - GasCompensation)
             cut == Cut(lot, EntireColl(b))
             left == SubColls(EntireColl(b), cut)
             new == d - lot
  <1>1. tx.kind = "redemption" /\ RedemptionTx
    BY DEF RedeemFromTrove, LedgerInv, LedgerTypeOK, LiquidationTx, RedemptionTx
  <1>2. /\ CanMovePending(AppliedDebt(b), AppliedColl(b))
        /\ GasCompensation <= d
        /\ ReduceTrove(b, EntireColl(b), left, new, NoColls, 0)
        /\ tx' = Redemption(Prev(b), tx.remaining - lot, tx.redeemed + lot,
                            SumColls(tx.drawn, cut))
        /\ UNCHANGED <<spYUSD, circulating>>
    BY DEF RedeemFromTrove, ReduceTrove
  <1>3. d \in Nat
    BY <1>2, AppliedDebtFits DEF LedgerInv, LedgerTypeOK
  <1>4. lot \in Nat /\ new \in Nat /\ lot <= tx.remaining
    BY <1>1, <1>2, <1>3, ScaleAssumption DEF Smaller, RedemptionTx
  <1> HIDE DEF new, left, lot, cut
  <1>5. /\ debt' \in [Borrowers -> Nat]
        /\ activeDebt' \in Nat /\ defaultDebt' \in Nat /\ gasPool' \in Nat
        /\ activeDebt' + defaultDebt' = activeDebt + defaultDebt + gasPool' - gasPool
    BY <1>2, <1>4, ReduceTroveLedger DEF LedgerInv, LedgerTypeOK
  <1>6. RedemptionTx'
    BY <1>1, <1>2, <1>4 DEF RedemptionTx, Redemption
  <1> QED
    BY <1>2, <1>5, <1>6 DEF LedgerInv, LedgerTypeOK, SupplyMatchesDebt

LEMMA RedeemSingleLedger ==
  ASSUME LedgerInv, NEW b \in Borrowers, NEW t \in Tokens, NEW amount \in Redemptions,
         RedeemSingle(b, t, amount)
  PROVE  LedgerInv'
  <1> DEFINE d == debt[b] + AppliedDebt(b)
             worth == ValueUSD(price, t, EntireColl(b)[t])
             lot == Smaller(worth, Smaller(amount, d - GasCompensation))
             cut == [NoColls EXCEPT ![t] = (lot * EntireColl(b)[t]) \div worth]
             left == SubColls(EntireColl(b), cut)
             new == d - lot
  <1>1. /\ tx = NoTx /\ tx' = tx
        /\ CanMovePending(AppliedDebt(b), AppliedColl(b))
        /\ GasCompensation <= d /\ amount \in Nat /\ amount <= circulating
        /\ lot \in 0..(activeDebt + AppliedDebt(b))
        /\ ReduceTrove(b, EntireColl(b), left, new, cut, lot)
        /\ circulating' = circulating - lot
        /\ spYUSD' = spYUSD
    BY InputAssumption DEF RedeemSingle, ReduceTrove
  <1>2. d \in Nat
    BY <1>1, AppliedDebtFits DEF LedgerInv, LedgerTypeOK
  <1>3. lot \in Nat /\ new \in Nat /\ lot <= amount
    BY <1>1, <1>2, ScaleAssumption DEF Smaller
  <1> HIDE DEF new, left, lot, cut
  <1>4. /\ debt' \in [Borrowers -> Nat]
        /\ activeDebt' \in Nat /\ defaultDebt' \in Nat /\ gasPool' \in Nat
        /\ activeDebt' + defaultDebt' = activeDebt + defaultDebt + gasPool' - gasPool - lot
    BY <1>1, <1>3, ReduceTroveLedger DEF LedgerInv, LedgerTypeOK
  <1> QED
    BY <1>1, <1>3, <1>4 DEF LedgerInv, LedgerTypeOK, SupplyMatchesDebt

LEMMA CancelPartialLedger ==
  ASSUME LedgerInv, NEW b \in Borrowers, CancelPartial(b)
  PROVE  LedgerInv'
  <1> DEFINE pd == AppliedDebt(b)
  <1>1. tx.kind = "redemption" /\ RedemptionTx
    BY DEF CancelPartial, LedgerInv, LedgerTypeOK, LiquidationTx, RedemptionTx
  <1>2. pd \in Nat /\ pd <= defaultDebt
    BY AppliedDebtFits DEF CancelPartial
  <1>3. /\ debt' = [debt EXCEPT ![b] = debt[b] + pd]
        /\ defaultDebt' = defaultDebt - pd
        /\ activeDebt' = activeDebt + pd
        /\ tx' = Redemption(NoTrove, tx.remaining, tx.redeemed, tx.drawn)
        /\ UNCHANGED <<circulating, gasPool, spYUSD>>
    BY DEF CancelPartial, yusdVars
  <1>4. RedemptionTx'
    BY <1>1, <1>3 DEF RedemptionTx, Redemption
  <1> HIDE DEF pd
  <1> QED
    BY <1>2, <1>3, <1>4 DEF LedgerInv, LedgerTypeOK, SupplyMatchesDebt

LEMMA SkipTroveLedger ==
  ASSUME LedgerInv, NEW b \in Borrowers, SkipTrove(b)
  PROVE  LedgerInv'
  <1>1. tx.kind = "redemption" /\ RedemptionTx
    BY DEF SkipTrove, LedgerInv, LedgerTypeOK, LiquidationTx, RedemptionTx
  <1>2. /\ tx' = Redemption(Prev(b), tx.remaining, tx.redeemed, tx.drawn)
        /\ UNCHANGED <<circulating, gasPool, spYUSD, activeDebt, defaultDebt, debt>>
    BY DEF SkipTrove, troveVars, activeVars, defaultVars, yusdVars
  <1>3. RedemptionTx'
    BY <1>1, <1>2 DEF RedemptionTx, Redemption
  <1> QED
    BY <1>2, <1>3 DEF LedgerInv, LedgerTypeOK, SupplyMatchesDebt

LEMMA FinishRedemptionLedger ==
  ASSUME LedgerInv, FinishRedemption
  PROVE  LedgerInv'
  <1>1. tx.kind = "redemption" /\ RedemptionTx
    BY DEF FinishRedemption, LedgerInv, LedgerTypeOK, LiquidationTx, RedemptionTx
  <1>2. /\ tx.redeemed \in Nat /\ tx.redeemed <= circulating
        /\ tx.redeemed <= activeDebt
    BY <1>1 DEF FinishRedemption, RedemptionTx, LedgerInv, LedgerTypeOK
  <1>3. /\ tx' = NoTx
        /\ activeDebt' = activeDebt - tx.redeemed
        /\ circulating' = circulating - tx.redeemed
        /\ UNCHANGED <<gasPool, spYUSD, defaultDebt, debt>>
    BY DEF FinishRedemption, troveVars, defaultVars
  <1> QED
    BY <1>2, <1>3 DEF LedgerInv, LedgerTypeOK, SupplyMatchesDebt
-----------------------------------------------------------------------------
(* Every step.                                                             *)

LEMMA BorrowLedger ==
  ASSUME LedgerInv, NEW b \in Borrowers, Borrow(b)
  PROVE  LedgerInv'
  <1>1. CASE \E c \in OpenColls, y \in OpenDebts, bfee \in BorrowingFees,
             vfee \in DepositFees : OpenTrove(b, c, y, bfee, vfee)
    BY <1>1, OpenTroveLedger
  <1>2. CASE \E cIn, cOut \in AdjustColls \cup {NoColls}, y \in AdjustDebts \cup {0},
                up \in BOOLEAN, bfee \in BorrowingFees, vfee \in DepositFees,
                sold \in SUBSET Wrapped : AdjustTrove(b, cIn, cOut, y, up, bfee, vfee, sold)
    BY <1>2, AdjustTroveLedger
  <1>3. CASE \E unlever \in BOOLEAN, sold \in SUBSET Wrapped : CloseTrove(b, unlever, sold)
    BY <1>3, CloseTroveLedger
  <1>4. CASE ClaimCollateral(b)
    BY <1>4, QuietLedger DEF ClaimCollateral, troveVars, activeVars, defaultVars, yusdVars
  <1>5. CASE UpdateTrove(b)
    BY <1>5, QuietLedger DEF UpdateTrove, troveVars, activeVars, defaultVars, yusdVars
  <1> QED
    BY <1>1, <1>2, <1>3, <1>4, <1>5 DEF Borrow

LEMMA RedeemLedger ==
  ASSUME LedgerInv, Redeem
  PROVE  LedgerInv'
  <1>1. CASE \E amount \in Redemptions, b \in Borrowers : BeginRedemption(amount, b)
    BY <1>1, BeginRedemptionLedger
  <1>2. CASE \E b \in Borrowers : RedeemFromTrove(b) \/ CancelPartial(b) \/ SkipTrove(b)
    BY <1>2, RedeemFromTroveLedger, CancelPartialLedger, SkipTroveLedger
  <1>3. CASE FinishRedemption
    BY <1>3, FinishRedemptionLedger
  <1>4. CASE \E b \in Borrowers, t \in Tokens, amount \in Redemptions :
               RedeemSingle(b, t, amount)
    BY <1>4, RedeemSingleLedger
  <1> QED
    BY <1>1, <1>2, <1>3, <1>4 DEF Redeem

LEMMA NextLedger == LedgerInv /\ [Next]_vars => LedgerInv'
  <1> SUFFICES ASSUME LedgerInv, [Next]_vars PROVE LedgerInv'
    OBVIOUS
  <1>1. CASE \E b \in Borrowers : Borrow(b)
    BY <1>1, BorrowLedger
  <1>2. CASE \E x \in Deposits : ProvideToSP(x) \/ WithdrawFromSP(x)
    BY <1>2, StabilityPoolLedger
  <1>3. CASE \E t \in Tokens, p \in Prices : SetPrice(t, p)
    BY <1>3, QuietLedger DEF SetPrice, troveVars, activeVars, defaultVars, yusdVars
  <1>4. CASE Liquidate
    BY <1>4, BeginLiquidationLedger, LiquidateLedger, FinishLiquidationLedger DEF Liquidate
  <1>5. CASE Redeem
    BY <1>5, RedeemLedger
  <1>6. CASE UNCHANGED vars
    BY <1>6, QuietLedger DEF vars, troveVars, activeVars, defaultVars, yusdVars
  <1> QED
    BY <1>1, <1>2, <1>3, <1>4, <1>5, <1>6 DEF Next

(* In every state of the trove ledger, for every choice of tokens, prices,  *)
(* fees and amounts, the YUSD counters of the four pools, of the troves and *)
(* of the running batch are natural numbers: no SafeMath subtraction that   *)
(* the model guards by types has gone below zero.                           *)
THEOREM LedgerTypes == Spec => []LedgerTypeOK
  <1>1. LedgerInv => LedgerTypeOK
    BY DEF LedgerInv
  <1> QED
    BY InitLedger, NextLedger, <1>1, PTL DEF Spec

(* Every YUSD in existence is owed: what borrowers, the gas reserve and     *)
(* StabilityPool hold is the debt of ActivePool and DefaultPool, through    *)
(* every borrowing, fee, offset, redistribution, redemption and gas payout, *)
(* and in between the steps of a batch.                                     *)
THEOREM SupplyAlwaysMatchesDebt == Spec => []SupplyMatchesDebt
  <1>1. LedgerInv => SupplyMatchesDebt
    BY DEF LedgerInv
  <1> QED
    BY InitLedger, NextLedger, <1>1, PTL DEF Spec
-----------------------------------------------------------------------------
(***************************************************************************)
(* Every open trove owes its minimum, and its gas reserve is in GasPool.   *)
(* The two need each other's company: what a closed trove owes (nothing)   *)
(* tells that a redemption can close an open trove only, and so that no    *)
(* reserve is burned that was not set aside.                               *)
(***************************************************************************)

\* The reserves that the running batch owes to its liquidator.
BatchReserves == IF tx.kind = "liquidation" THEN tx.gasYUSD ELSE 0

ClosedOwesNothing == \A b \in Borrowers \ Active : debt[b] = 0

ReservesInv ==
  /\ status \in [Borrowers -> Statuses]
  /\ MinimumDebt
  /\ ClosedOwesNothing
  /\ gasPool = GasCompensation * Cardinality(Active) + BatchReserves

LEMMA InitReserves == Init => ReservesInv
  <1> SUFFICES ASSUME Init PROVE ReservesInv
    OBVIOUS
  <1>1. Active = {}
    BY DEF Init, Active, PerBorrower
  <1>2. Cardinality(Active) = 0
    BY <1>1, FS_EmptySet
  <1>3. gasPool = 0 /\ BatchReserves = 0
    BY DEF Init, BatchReserves, NoTx
  <1>4. GasCompensation * 0 = 0
    BY ScaleAssumption
  <1> QED
    BY <1>1, <1>2, <1>3, <1>4
       DEF Init, ReservesInv, Statuses, PerBorrower, MinimumDebt, ClosedOwesNothing
-----------------------------------------------------------------------------
(* How many troves are open.                                               *)

LEMMA OpenTrovesAreFinite == IsFiniteSet(Active) /\ Cardinality(Active) \in Nat
  BY BorrowersAssumption, FS_Subset, FS_CardinalityType DEF Active

LEMMA OneReserve ==
  ASSUME NEW n \in Nat
  PROVE  /\ GasCompensation * n \in Nat
         /\ GasCompensation * (n + 1) = GasCompensation * n + GasCompensation
         /\ GasCompensation * (n - 1) = GasCompensation * n - GasCompensation
  BY ScaleAssumption

\* A new trove needs one more reserve.
LEMMA OpeningCounts ==
  ASSUME NEW b \in Borrowers, status \in [Borrowers -> Statuses], b \notin Active,
         status' = [status EXCEPT ![b] = "active"]
  PROVE  /\ Active' = Active \cup {b}
         /\ GasCompensation * Cardinality(Active') = GasCompensation * Cardinality(Active) + GasCompensation
  <1>1. Active' = Active \cup {b}
    BY DEF Active
  <1>2. Cardinality(Active \cup {b}) = Cardinality(Active) + 1
    BY OpenTrovesAreFinite, FS_AddElement
  <1> QED
    BY <1>1, <1>2, OpenTrovesAreFinite, OneReserve

\* A closed one needs one less.
LEMMA ClosingCounts ==
  ASSUME NEW b \in Borrowers, NEW how \in Statuses \ {"active"},
         status \in [Borrowers -> Statuses], b \in Active,
         status' = [status EXCEPT ![b] = how]
  PROVE  /\ Active' = Active \ {b}
         /\ GasCompensation * Cardinality(Active') = GasCompensation * Cardinality(Active) - GasCompensation
  <1>1. Active' = Active \ {b}
    BY DEF Active
  <1>2. Cardinality(Active \ {b}) = Cardinality(Active) - 1
    BY OpenTrovesAreFinite, FS_RemoveElement
  <1> QED
    BY <1>1, <1>2, OpenTrovesAreFinite, OneReserve

\* A step that opens and closes nothing, and moves neither debt nor reserve.
LEMMA QuietReserves ==
  ASSUME ReservesInv, UNCHANGED <<status, debt, gasPool>>, BatchReserves' = BatchReserves
  PROVE  ReservesInv'
  <1>1. Active' = Active
    BY DEF Active
  <1> QED
    BY <1>1 DEF ReservesInv, MinimumDebt, ClosedOwesNothing

\* A trove's debt changes, and stays over the minimum.
LEMMA DebtReserves ==
  ASSUME ReservesInv, LedgerInv, NEW b \in Active, NEW d \in Nat,
         d >= MinNetDebt + GasCompensation,
         debt' = [debt EXCEPT ![b] = d],
         UNCHANGED <<status, gasPool>>, BatchReserves' = BatchReserves
  PROVE  ReservesInv'
  <1>1. Active' = Active /\ Active \subseteq Borrowers
    BY DEF Active
  <1>2. debt \in [Borrowers -> Nat]
    BY DEF LedgerInv, LedgerTypeOK
  <1> QED
    BY <1>1, <1>2 DEF ReservesInv, MinimumDebt, ClosedOwesNothing

\* A trove is closed, and its reserve is burned or set aside by the batch.
LEMMA CloseReserves ==
  ASSUME ReservesInv, LedgerInv, NEW b \in Active, NEW how \in Statuses \ {"active"},
         CloseAs(b, how),
         gasPool' - BatchReserves' = gasPool - BatchReserves - GasCompensation,
         gasPool' \in Nat, BatchReserves \in Nat, BatchReserves' \in Nat
  PROVE  ReservesInv'
  <1>1. /\ status' = [status EXCEPT ![b] = how]
        /\ debt' = [debt EXCEPT ![b] = 0]
        /\ status \in [Borrowers -> Statuses] /\ debt \in [Borrowers -> Nat]
        /\ b \in Borrowers
        /\ gasPool \in Nat
    BY DEF CloseAs, ReservesInv, LedgerInv, LedgerTypeOK, Active
  <1>2. /\ Active' = Active \ {b}
        /\ GasCompensation * Cardinality(Active') = GasCompensation * Cardinality(Active) - GasCompensation
    BY <1>1, ClosingCounts
  <1>3. MinimumDebt' /\ ClosedOwesNothing'
    BY <1>1, <1>2 DEF ReservesInv, MinimumDebt, ClosedOwesNothing, Active
  <1>4. gasPool' = GasCompensation * Cardinality(Active') + BatchReserves'
    BY <1>1, <1>2, ScaleAssumption, OpenTrovesAreFinite, OneReserve DEF ReservesInv
  <1>5. status' \in [Borrowers -> Statuses]
    BY <1>1
  <1> QED
    BY <1>3, <1>4, <1>5 DEF ReservesInv
-----------------------------------------------------------------------------
(* BorrowerOperations.                                                     *)

LEMMA OpenTroveReserves ==
  ASSUME LedgerInv, ReservesInv, NEW b \in Borrowers, NEW c \in OpenColls, NEW y \in OpenDebts,
         NEW bfee \in BorrowingFees, NEW vfee \in DepositFees,
         OpenTrove(b, c, y, bfee, vfee)
  PROVE  ReservesInv'
  <1> DEFINE net == y + (IF RecoveryMode THEN 0 ELSE bfee) + vfee
  <1>1. net \in Nat
    BY InputAssumption
  <1>2. /\ tx = NoTx /\ tx' = tx
        /\ b \notin Active
        /\ net >= MinNetDebt
        /\ status' = [status EXCEPT ![b] = "active"]
        /\ debt' = [debt EXCEPT ![b] = @ + (net + GasCompensation)]
        /\ gasPool' = gasPool + GasCompensation
    BY DEF OpenTrove, Active, Idle
  <1> HIDE DEF net
  <1>3. debt \in [Borrowers -> Nat] /\ gasPool \in Nat /\ BatchReserves = 0 /\ BatchReserves' = 0
    BY <1>2 DEF LedgerInv, LedgerTypeOK, BatchReserves, NoTx
  <1>4. status \in [Borrowers -> Statuses] /\ status' \in [Borrowers -> Statuses]
    BY <1>2 DEF ReservesInv, Statuses
  <1>5. /\ Active' = Active \cup {b}
        /\ GasCompensation * Cardinality(Active') = GasCompensation * Cardinality(Active) + GasCompensation
    BY <1>2, <1>4, OpeningCounts
  <1>6. MinimumDebt' /\ ClosedOwesNothing'
    BY <1>1, <1>2, <1>3, <1>5, ScaleAssumption
       DEF ReservesInv, MinimumDebt, ClosedOwesNothing, Active
  <1>7. gasPool' = GasCompensation * Cardinality(Active') + BatchReserves'
    BY <1>2, <1>3, <1>5, ScaleAssumption, OpenTrovesAreFinite, OneReserve DEF ReservesInv
  <1> QED
    BY <1>4, <1>6, <1>7 DEF ReservesInv

LEMMA AdjustTroveReserves ==
  ASSUME LedgerInv, ReservesInv, NEW b \in Borrowers, NEW cIn, NEW cOut,
         NEW y \in AdjustDebts \cup {0}, NEW up \in BOOLEAN, NEW bfee \in BorrowingFees,
         NEW vfee \in DepositFees, NEW sold,
         AdjustTrove(b, cIn, cOut, y, up, bfee, vfee, sold)
  PROVE  ReservesInv'
  <1> DEFINE change == DebtChange(y, up, bfee)
             vf == VariableFee(cIn, vfee)
             pd == AppliedDebt(b)
             newDebt == AdjustedDebt(b, cIn, y, up, bfee, vfee)
  <1>1. y \in Nat /\ change \in Nat /\ vf \in Nat /\ (~up => change = y)
    BY InputAssumption DEF DebtChange, VariableFee
  <1>2. pd \in Nat
    BY AppliedDebtFits DEF AdjustTrove
  <1>3. /\ tx = NoTx /\ tx' = tx
        /\ status[b] = "active"
        /\ ~up /\ y # 0 => newDebt - GasCompensation >= MinNetDebt
        /\ debt' = [debt EXCEPT ![b] = newDebt]
        /\ status' = status /\ gasPool' = gasPool
    BY DEF AdjustTrove, Idle
  <1>4. /\ debt[b] \in Nat /\ debt[b] >= MinNetDebt + GasCompensation
    BY <1>3 DEF LedgerInv, LedgerTypeOK, ReservesInv, MinimumDebt, Active
  <1>5. newDebt = IF up THEN debt[b] + pd + vf + change ELSE debt[b] + pd + vf - change
    BY <1>1, <1>2, <1>4 DEF AdjustedDebt
  <1> HIDE DEF change, vf, pd, newDebt
  <1>6. newDebt \in Nat /\ newDebt >= MinNetDebt + GasCompensation
    BY <1>1, <1>2, <1>3, <1>4, <1>5, ScaleAssumption
  <1>7. b \in Active /\ BatchReserves' = BatchReserves
    BY <1>3 DEF BatchReserves, Active
  <1> QED
    BY <1>3, <1>6, <1>7, DebtReserves

LEMMA CloseTroveReserves ==
  ASSUME LedgerInv, ReservesInv, NEW b \in Borrowers, NEW unlever, NEW sold,
         CloseTrove(b, unlever, sold)
  PROVE  ReservesInv'
  <1>1. /\ tx = NoTx /\ tx' = tx
        /\ b \in Active
        /\ CloseAs(b, "closedByOwner")
        /\ GasCompensation <= gasPool
        /\ gasPool' = gasPool - GasCompensation
    BY DEF CloseTrove, BurnGasReserve, Active, Idle
  <1>2. BatchReserves = 0 /\ BatchReserves' = 0 /\ gasPool \in Nat
    BY <1>1 DEF BatchReserves, NoTx, LedgerInv, LedgerTypeOK
  <1> QED
    BY <1>1, <1>2, CloseReserves, ScaleAssumption DEF Statuses
-----------------------------------------------------------------------------
(* Liquidations: the reserve of a closed trove waits in GasPool until the  *)
(* batch ends, and is then paid to the liquidator.                         *)

LEMMA LiquidateAsReserves ==
  ASSUME LedgerInv, ReservesInv, NEW b \in Borrowers, NEW v,
         tx.kind = "liquidation", status[b] = "active", LiquidateAs(b, v)
  PROVE  ReservesInv'
  <1>1. /\ CloseAs(b, "closedByLiquidation")
        /\ gasPool' = gasPool
        /\ tx'.kind = "liquidation" /\ tx'.gasYUSD = tx.gasYUSD + GasCompensation
    BY DEF LiquidateAs, yusdVars
  <1>2. tx.gasYUSD \in Nat /\ gasPool \in Nat
    BY DEF LedgerInv, LedgerTypeOK, LiquidationTx, RedemptionTx, NoTx
  <1>3. b \in Active
    BY DEF Active
  <1> QED
    BY <1>1, <1>2, <1>3, CloseReserves, ScaleAssumption DEF BatchReserves, Statuses

LEMMA LiquidateReserves ==
  ASSUME LedgerInv, ReservesInv, Liquidate
  PROVE  ReservesInv'
  <1>1. CASE BeginLiquidation
    <2>1. /\ tx = NoTx /\ tx'.kind = "liquidation" /\ tx'.gasYUSD = 0
          /\ UNCHANGED <<status, debt, gasPool>>
      BY <1>1 DEF BeginLiquidation, troveVars, yusdVars, Idle
    <2> QED
      BY <2>1, QuietReserves DEF BatchReserves, NoTx
  <1>2. CASE \E b \in Borrowers : LiquidateNormalMode(b) \/ LiquidateRecoveryMode(b)
    BY <1>2, LiquidateAsReserves DEF LiquidateNormalMode, LiquidateRecoveryMode
  <1>3. CASE FinishLiquidation
    <2>1. /\ tx.kind = "liquidation" /\ tx' = NoTx
          /\ gasPool' = gasPool - tx.gasYUSD
          /\ UNCHANGED <<status, debt>>
      BY <1>3 DEF FinishLiquidation, SendGasCompensation, troveVars
    <2>2. tx.gasYUSD \in Nat /\ gasPool \in Nat
      BY <2>1 DEF LedgerInv, LedgerTypeOK, LiquidationTx, RedemptionTx, NoTx
    <2>3. Active' = Active
      BY <2>1 DEF Active
    <2>4. BatchReserves = tx.gasYUSD /\ BatchReserves' = 0
      BY <2>1 DEF BatchReserves, NoTx
    <2>5. gasPool' = GasCompensation * Cardinality(Active') + BatchReserves'
      BY <2>1, <2>2, <2>3, <2>4, OpenTrovesAreFinite, OneReserve DEF ReservesInv
    <2> QED
      BY <2>1, <2>3, <2>5 DEF ReservesInv, MinimumDebt, ClosedOwesNothing
  <1> QED
    BY <1>1, <1>2, <1>3 DEF Liquidate
-----------------------------------------------------------------------------
(* Redemptions.                                                            *)

(* A redemption closes the trove, burning its reserve, or leaves its        *)
(* minimum.  A trove that is not open owes nothing: there is something to   *)
(* burn for it only where the reserve is nothing too.                       *)
LEMMA ReduceTroveReserves ==
  ASSUME LedgerInv, ReservesInv, NEW b \in Borrowers, NEW c, NEW left, NEW new \in Nat,
         NEW collOut, NEW debtOut, ReduceTrove(b, c, left, new, collOut, debtOut),
         b \in Active \/ (GasCompensation = 0 /\ new = 0),
         tx.kind # "liquidation", tx'.kind # "liquidation"
  PROVE  ReservesInv'
  <1>1. BatchReserves = 0 /\ BatchReserves' = 0 /\ gasPool \in Nat
    BY DEF BatchReserves, LedgerInv, LedgerTypeOK
  <1>2. CASE new = GasCompensation
    <2>1. /\ CloseAs(b, "closedByRedemption")
          /\ GasCompensation <= gasPool /\ gasPool' = gasPool - GasCompensation
      BY <1>2 DEF ReduceTrove, BurnGasReserve
    <2>2. CASE b \in Active
      BY <1>1, <2>1, <2>2, CloseReserves, ScaleAssumption DEF Statuses
    <2>3. CASE b \notin Active
      <3>1. /\ status' = [status EXCEPT ![b] = "closedByRedemption"]
            /\ debt' = [debt EXCEPT ![b] = 0]
            /\ status \in [Borrowers -> Statuses] /\ debt \in [Borrowers -> Nat]
            /\ gasPool' = gasPool
        BY <1>1, <2>1, <2>3 DEF CloseAs, ReservesInv, LedgerInv, LedgerTypeOK
      <3>2. Active' = Active /\ status' \in [Borrowers -> Statuses]
        BY <2>3, <3>1 DEF Active, Statuses
      <3> QED
        BY <1>1, <2>3, <3>1, <3>2 DEF ReservesInv, MinimumDebt, ClosedOwesNothing, Active
    <2> QED
      BY <2>2, <2>3
  <1>3. CASE new # GasCompensation
    <2>1. /\ new - GasCompensation >= MinNetDebt
          /\ debt' = [debt EXCEPT ![b] = new]
          /\ UNCHANGED <<status, gasPool>>
      BY <1>3 DEF ReduceTrove, LeavesMinimum
    <2>2. b \in Active /\ new >= MinNetDebt + GasCompensation
      BY <1>3, <2>1, ScaleAssumption
    <2> QED
      BY <1>1, <2>1, <2>2, DebtReserves
  <1> QED
    BY <1>2, <1>3

LEMMA RedeemFromTroveReserves ==
  ASSUME LedgerInv, ReservesInv, NEW b \in Borrowers, RedeemFromTrove(b)
  PROVE  ReservesInv'
  <1> DEFINE d == debt[b] + AppliedDebt(b)
             lot == Smaller(tx.remaining, d - GasCompensation)
             cut == Cut(lot, EntireColl(b))
             left == SubColls(EntireColl(b), cut)
             new == d - lot
  <1>1. tx.kind = "redemption" /\ RedemptionTx
    BY DEF RedeemFromTrove, LedgerInv, LedgerTypeOK, LiquidationTx, RedemptionTx, NoTx
  <1>2. /\ CanMovePending(AppliedDebt(b), AppliedColl(b))
        /\ GasCompensation <= d
        /\ ReduceTrove(b, EntireColl(b), left, new, NoColls, 0)
        /\ tx'.kind = "redemption"
    BY DEF RedeemFromTrove, ReduceTrove, Redemption
  <1>3. d \in Nat
    BY <1>2, AppliedDebtFits DEF LedgerInv, LedgerTypeOK
  <1>4. lot \in Nat /\ new \in Nat /\ lot <= d - GasCompensation
    BY <1>1, <1>2, <1>3, ScaleAssumption DEF Smaller, RedemptionTx
  <1>5. b \notin Active => d = 0
    BY DEF ReservesInv, ClosedOwesNothing, AppliedDebt, HasPendingRewards, Active
  <1> HIDE DEF d, new, left, lot, cut
  <1>6. b \notin Active => GasCompensation = 0 /\ new = 0
    BY <1>2, <1>4, <1>5, ScaleAssumption DEF new
  <1> QED
    BY <1>1, <1>2, <1>4, <1>6, ReduceTroveReserves

LEMMA RedeemSingleReserves ==
  ASSUME LedgerInv, ReservesInv, NEW b \in Borrowers, NEW t \in Tokens,
         NEW amount \in Redemptions, RedeemSingle(b, t, amount)
  PROVE  ReservesInv'
  <1> DEFINE d == debt[b] + AppliedDebt(b)
             worth == ValueUSD(price, t, EntireColl(b)[t])
             lot == Smaller(worth, Smaller(amount, d - GasCompensation))
             cut == [NoColls EXCEPT ![t] = (lot * EntireColl(b)[t]) \div worth]
             left == SubColls(EntireColl(b), cut)
             new == d - lot
  <1>1. /\ tx = NoTx /\ tx' = tx
        /\ b \in Active
        /\ CanMovePending(AppliedDebt(b), AppliedColl(b))
        /\ GasCompensation <= d /\ amount \in Nat
        /\ lot \in 0..(activeDebt + AppliedDebt(b))
        /\ ReduceTrove(b, EntireColl(b), left, new, cut, lot)
    BY InputAssumption DEF RedeemSingle, ReduceTrove, ValidFirstHint, Idle
  <1>2. d \in Nat
    BY <1>1, AppliedDebtFits DEF LedgerInv, LedgerTypeOK
  <1>3. lot \in Nat /\ new \in Nat
    BY <1>1, <1>2, ScaleAssumption DEF Smaller
  <1> HIDE DEF new, left, lot, cut
  <1> QED
    BY <1>1, <1>3, ReduceTroveReserves DEF NoTx

LEMMA CancelPartialReserves ==
  ASSUME LedgerInv, ReservesInv, NEW b \in Borrowers, CancelPartial(b)
  PROVE  ReservesInv'
  <1> DEFINE pd == AppliedDebt(b)
  <1>1. tx.kind = "redemption" /\ RedemptionTx
    BY DEF CancelPartial, LedgerInv, LedgerTypeOK, LiquidationTx, RedemptionTx, NoTx
  <1>2. /\ debt' = [debt EXCEPT ![b] = debt[b] + pd]
        /\ tx' = Redemption(NoTrove, tx.remaining, tx.redeemed, tx.drawn)
        /\ UNCHANGED <<status, yusdVars>>
    BY DEF CancelPartial
  <1>3. pd \in Nat /\ debt[b] \in Nat
    <2>1. CanMovePending(AppliedDebt(b), AppliedColl(b))
      BY DEF CancelPartial
    <2> QED
      BY <2>1, AppliedDebtFits DEF LedgerInv, LedgerTypeOK
  <1>4. tx.remaining < debt[b] + pd - GasCompensation
    BY <1>1, <1>3, ScaleAssumption DEF CancelPartial, RedemptionTx
  <1>5. b \notin Active => debt[b] = 0 /\ pd = 0
    BY DEF ReservesInv, ClosedOwesNothing, AppliedDebt, HasPendingRewards, Active
  <1> HIDE DEF pd
  <1>6. b \in Active
    <2>1. CASE debt[b] = 0 /\ pd = 0
      BY <1>1, <1>4, <2>1, ScaleAssumption DEF RedemptionTx
    <2> QED
      BY <1>5, <2>1
  <1>7. debt[b] + pd \in Nat /\ debt[b] + pd >= MinNetDebt + GasCompensation
    BY <1>3, <1>6, ScaleAssumption DEF ReservesInv, MinimumDebt
  <1>8. BatchReserves' = BatchReserves
    BY <1>1, <1>2 DEF BatchReserves, Redemption
  <1>9. status' = status /\ gasPool' = gasPool
    BY <1>2 DEF yusdVars
  <1> QED
    BY <1>2, <1>3, <1>6, <1>7, <1>8, <1>9, DebtReserves

LEMMA RedeemReserves ==
  ASSUME LedgerInv, ReservesInv, Redeem
  PROVE  ReservesInv'
  <1>1. CASE \E amount \in Redemptions, b \in Borrowers : BeginRedemption(amount, b)
    BY <1>1, QuietReserves
       DEF BeginRedemption, Redemption, BatchReserves, Idle, NoTx, troveVars, yusdVars
  <1>2. CASE \E b \in Borrowers : RedeemFromTrove(b)
    BY <1>2, RedeemFromTroveReserves
  <1>3. CASE \E b \in Borrowers : CancelPartial(b)
    BY <1>3, CancelPartialReserves
  <1>4. CASE \E b \in Borrowers : SkipTrove(b)
    BY <1>4, QuietReserves DEF SkipTrove, Redemption, BatchReserves, troveVars, yusdVars
  <1>5. CASE FinishRedemption
    BY <1>5, QuietReserves DEF FinishRedemption, BatchReserves, NoTx, troveVars
  <1>6. CASE \E b \in Borrowers, t \in Tokens, amount \in Redemptions :
               RedeemSingle(b, t, amount)
    BY <1>6, RedeemSingleReserves
  <1> QED
    BY <1>1, <1>2, <1>3, <1>4, <1>5, <1>6 DEF Redeem
-----------------------------------------------------------------------------
(* Every step.                                                             *)

LEMMA NextReserves == LedgerInv /\ ReservesInv /\ [Next]_vars => ReservesInv'
  <1> SUFFICES ASSUME LedgerInv, ReservesInv, [Next]_vars PROVE ReservesInv'
    OBVIOUS
  <1>1. CASE \E b \in Borrowers : Borrow(b)
    <2>1. PICK b \in Borrowers : Borrow(b)
      BY <1>1
    <2>2. CASE ClaimCollateral(b) \/ UpdateTrove(b)
      BY <2>2, QuietReserves DEF ClaimCollateral, UpdateTrove, troveVars, yusdVars, BatchReserves
    <2> QED
      BY <2>1, <2>2, OpenTroveReserves, AdjustTroveReserves, CloseTroveReserves DEF Borrow
  <1>2. CASE \E x \in Deposits : ProvideToSP(x) \/ WithdrawFromSP(x)
    BY <1>2, QuietReserves DEF ProvideToSP, WithdrawFromSP, troveVars, BatchReserves
  <1>3. CASE \E t \in Tokens, p \in Prices : SetPrice(t, p)
    BY <1>3, QuietReserves DEF SetPrice, troveVars, yusdVars, BatchReserves
  <1>4. CASE Liquidate
    BY <1>4, LiquidateReserves
  <1>5. CASE Redeem
    BY <1>5, RedeemReserves
  <1>6. CASE UNCHANGED vars
    BY <1>6, QuietReserves DEF vars, troveVars, yusdVars, BatchReserves
  <1> QED
    BY <1>1, <1>2, <1>3, <1>4, <1>5, <1>6 DEF Next

(* No open trove ever owes less than MIN_NET_DEBT and its gas reserve,      *)
(* whatever borrowings, repayments, rewards and partial or cancelled        *)
(* redemptions it went through, for every choice of amounts and fees.       *)
THEOREM MinimumDebtAlways == Spec => []MinimumDebt
  <1>1. ReservesInv => MinimumDebt
    BY DEF ReservesInv
  <1> QED
    BY InitLedger, NextLedger, InitReserves, NextReserves, <1>1, PTL DEF Spec

(* GasPool holds exactly one reserve for each open trove and for each that  *)
(* the running batch has closed: no close, redemption or liquidation burns  *)
(* or pays a reserve twice, or one that was not set aside.                  *)
THEOREM GasPoolAlwaysCoversTroves == Spec => []GasPoolCoversTroves
  <1>1. ReservesInv => GasPoolCoversTroves
    BY DEF ReservesInv, GasPoolCoversTroves, BatchReserves
  <1> QED
    BY InitLedger, NextLedger, InitReserves, NextReserves, <1>1, PTL DEF Spec

-----------------------------------------------------------------------------
(* What every variable may hold: the rest of the inductive invariant.      *)

TroveTypeOK ==
  /\ oldICR \in [Borrowers -> Nat]
  /\ colls \in [Borrowers -> Colls] /\ stakes \in [Borrowers -> Colls]
  /\ collTokens \in [Borrowers -> SUBSET Tokens]
  /\ collSnapshots \in [Borrowers -> Colls] /\ debtSnapshots \in [Borrowers -> Colls]
  /\ surplus \in [Borrowers -> Colls]

PoolTypeOK ==
  /\ totalStakes \in Colls /\ totalStakesSnapshot \in Colls /\ totalCollateralSnapshot \in Colls
  /\ L_Coll \in Colls /\ L_YUSDDebt \in Colls
  /\ lastCollError \in Colls /\ lastYUSDDebtError \in Colls
  /\ activeColl \in Colls /\ defaultColl \in Colls /\ surplusColl \in Colls /\ outside \in Colls
  /\ liquidations \in Nat /\ price \in [Tokens -> Prices]

\* The sums a trove has a snapshot of have only grown since.
SnapshotsBehind ==
  \A b \in Borrowers, t \in Tokens :
    collSnapshots[b][t] <= L_Coll[t] /\ debtSnapshots[b][t] <= L_YUSDDebt[t]

\* The list holds the open troves, each once.
ListInv ==
  /\ sortedTroves \in Seq(Borrowers)
  /\ Injective(sortedTroves)
  /\ Elems(sortedTroves) = Active

TxInv == tx \in TxTypes /\ RedemptionMeetsOpenTroves

TypesInv == TroveTypeOK /\ PoolTypeOK /\ SnapshotsBehind /\ ListInv /\ TxInv

LEMMA InitTypes == Init => TypesInv
  <1> SUFFICES ASSUME Init PROVE TypesInv
    OBVIOUS
  <1>1. NoColls \in Colls
    BY NoCollsType
  <1>2. TroveTypeOK
    BY <1>1 DEF Init, TroveTypeOK, PerBorrower
  <1>3. PoolTypeOK
    BY <1>1, InputAssumption DEF Init, PoolTypeOK
  <1>4. SnapshotsBehind
    BY DEF Init, SnapshotsBehind, PerBorrower, NoColls
  <1>5. ListInv
    <2>1. sortedTroves = <<>> /\ Active = {}
      BY DEF Init, Active, PerBorrower
    <2>2. Len(sortedTroves) = 0 /\ sortedTroves \in Seq(Borrowers)
      BY <2>1, EmptySeq
    <2> QED
      BY <2>1, <2>2 DEF ListInv, Injective, Elems
  <1>6. TxInv
    <2>1. tx = NoTx /\ tx.kind # "redemption"
      BY DEF Init
    <2> QED
      BY <2>1 DEF TxInv, TxTypes, RedemptionMeetsOpenTroves
  <1> QED
    BY <1>2, <1>3, <1>4, <1>5, <1>6 DEF TypesInv
-----------------------------------------------------------------------------
(* The pending rewards.                                                    *)

LEMMA RewardType ==
  ASSUME NEW s \in Nat, NEW l \in Nat, NEW m \in Nat, m <= l
  PROVE  (s * (l - m)) \div DP \in Nat
  <1>1. s * (l - m) \in Nat
    OBVIOUS
  <1> QED
    BY <1>1, ScaleAssumption, FloorFits

LEMMA PendingCollType ==
  ASSUME TroveTypeOK, PoolTypeOK, SnapshotsBehind, NEW b \in Borrowers
  PROVE  PendingColl(b) \in Colls
  <1>1. ASSUME NEW t \in Tokens
        PROVE  (stakes[b][t] * (L_Coll[t] - collSnapshots[b][t])) \div DP \in Nat
    <2>1. stakes[b][t] \in Nat /\ L_Coll[t] \in Nat /\ collSnapshots[b][t] \in Nat
          /\ collSnapshots[b][t] <= L_Coll[t]
      BY DEF TroveTypeOK, PoolTypeOK, SnapshotsBehind, Colls
    <2> QED
      BY <2>1, RewardType
  <1> QED
    BY <1>1 DEF PendingColl, Colls

LEMMA PendingDebtType ==
  ASSUME TroveTypeOK, PoolTypeOK, SnapshotsBehind, NEW b \in Borrowers
  PROVE  PendingDebt(b) \in Nat
  <1> DEFINE f == [t \in Tokens |->
                     (stakes[b][t] * (L_YUSDDebt[t] - debtSnapshots[b][t])) \div DP]
  <1>1. ASSUME NEW t \in Tokens PROVE f[t] \in Nat
    <2>1. stakes[b][t] \in Nat /\ L_YUSDDebt[t] \in Nat /\ debtSnapshots[b][t] \in Nat
          /\ debtSnapshots[b][t] <= L_YUSDDebt[t]
      BY DEF TroveTypeOK, PoolTypeOK, SnapshotsBehind, Colls
    <2> QED
      BY <2>1, RewardType
  <1>2. DOMAIN f = Tokens
    OBVIOUS
  <1>3. PendingDebt(b) = IF status[b] = "active" THEN SumFunctionOnSet(f, DOMAIN f) ELSE 0
    BY DEF PendingDebt, SumFunction
  <1> HIDE DEF f
  <1> QED
    BY <1>1, <1>2, <1>3, SumNat, TokensAssumption

LEMMA EntireTypes ==
  ASSUME LedgerInv, TroveTypeOK, PoolTypeOK, SnapshotsBehind, NEW b \in Borrowers
  PROVE  /\ AppliedColl(b) \in Colls /\ AppliedDebt(b) \in Nat
         /\ SumColls(colls[b], AppliedColl(b)) \in Colls
         /\ EntireColl(b) \in Colls /\ EntireDebt(b) \in Nat /\ ICR(b) \in Nat
         /\ debt[b] + AppliedDebt(b) \in Nat
  <1>1. PendingColl(b) \in Colls /\ PendingDebt(b) \in Nat /\ NoColls \in Colls
    BY PendingCollType, PendingDebtType, NoCollsType
  <1>2. colls[b] \in Colls /\ debt[b] \in Nat /\ price \in [Tokens -> Prices]
    BY DEF TroveTypeOK, PoolTypeOK, LedgerInv, LedgerTypeOK
  <1>3. AppliedColl(b) \in Colls /\ AppliedDebt(b) \in Nat
    BY <1>1 DEF AppliedColl, AppliedDebt
  <1>4. EntireColl(b) \in Colls /\ EntireDebt(b) \in Nat
    BY <1>1, <1>2, SumCollsType DEF EntireColl, EntireDebt
  <1>5. ICR(b) \in Nat
    BY <1>2, <1>4, VCType, ComputeCRType DEF ICR
  <1> QED
    BY <1>2, <1>3, <1>4, <1>5, SumCollsType

LEMMA SystemTypes ==
  ASSUME LedgerInv, PoolTypeOK
  PROVE  SystemVC \in Nat /\ SystemDebt \in Nat
  <1>1. VC(price, activeColl) \in Nat /\ VC(price, defaultColl) \in Nat
    BY VCType DEF PoolTypeOK
  <1> QED
    BY <1>1 DEF SystemVC, SystemDebt, LedgerInv, LedgerTypeOK
-----------------------------------------------------------------------------
(* The parts of the handlers.                                              *)

\* A stake is replaced, for the tokens it fits in the total of.
LEMMA SetStakesTypes ==
  ASSUME TroveTypeOK, PoolTypeOK, NEW b \in Borrowers, NEW ts, NEW new \in Colls,
         \A t \in ts : stakes[b][t] <= totalStakes[t], SetStakes(b, ts, new)
  PROVE  stakes' \in [Borrowers -> Colls] /\ totalStakes' \in Colls
  <1>1. stakes \in [Borrowers -> [Tokens -> Nat]] /\ totalStakes \in [Tokens -> Nat]
        /\ new \in [Tokens -> Nat]
    BY DEF TroveTypeOK, PoolTypeOK, Colls
  <1>2. stakes' \in [Borrowers -> [Tokens -> Nat]]
    BY <1>1 DEF SetStakes
  <1>3. ASSUME NEW t \in Tokens
        PROVE  (IF t \in ts THEN totalStakes[t] - stakes[b][t] + new[t] ELSE totalStakes[t]) \in Nat
    BY <1>1
  <1>4. totalStakes' \in [Tokens -> Nat]
    BY <1>3 DEF SetStakes
  <1> QED
    BY <1>2, <1>4 DEF Colls

LEMMA NewStakeType ==
  ASSUME PoolTypeOK, NEW t \in Tokens, NEW x \in Nat
  PROVE  NewStake(t, x) \in Nat
  <1>1. totalCollateralSnapshot[t] \in Nat /\ totalStakesSnapshot[t] \in Nat
    BY DEF PoolTypeOK, Colls
  <1>2. x * totalStakesSnapshot[t] \in Nat
    BY <1>1
  <1> QED
    BY <1>1, <1>2, FloorFits DEF NewStake

LEMMA UpdateStakeTypes ==
  ASSUME TroveTypeOK, PoolTypeOK, NEW b \in Borrowers, NEW ts, NEW c \in Colls,
         CanStake(b, ts), UpdateStake(b, ts, c)
  PROVE  stakes' \in [Borrowers -> Colls] /\ totalStakes' \in Colls
  <1> DEFINE new == [t \in Tokens |-> NewStake(t, c[t])]
  <1>1. new \in Colls
    BY NewStakeType DEF Colls
  <1>2. SetStakes(b, ts, new) /\ \A t \in ts : stakes[b][t] <= totalStakes[t]
    BY DEF UpdateStake, CanStake
  <1> HIDE DEF new
  <1> QED
    BY <1>1, <1>2, SetStakesTypes

LEMMA RemoveStakeTypes ==
  ASSUME TroveTypeOK, PoolTypeOK, NEW b \in Borrowers, NEW ts, RemoveStake(b, ts)
  PROVE  stakes' \in [Borrowers -> Colls] /\ totalStakes' \in Colls
  BY SetStakesTypes, NoCollsType DEF RemoveStake

\* The trove is put back into the list, or into it for the first time.
LEMMA PlaceTroveList ==
  ASSUME TroveTypeOK, ListInv, NEW b \in Borrowers, NEW icr \in Nat, PlaceTrove(b, icr),
         Active' = Active \cup {b}
  PROVE  oldICR' \in [Borrowers -> Nat] /\ ListInv'
  <1> DEFINE s == Without(sortedTroves, b)
  <1>1. s \in Seq(Borrowers) /\ Injective(s) /\ Elems(s) = Active \ {b}
    BY WithoutIs DEF ListInv
  <1>2. PICK i \in InsertPositions(s, icr) : sortedTroves' = InsertAt(s, i, b)
    BY DEF PlaceTrove
  <1>3. i \in 1..(Len(s) + 1)
    BY DEF InsertPositions
  <1> HIDE DEF s
  <1>4. /\ sortedTroves' \in Seq(Borrowers) /\ Injective(sortedTroves')
        /\ Elems(sortedTroves') = (Active \ {b}) \cup {b}
    BY <1>1, <1>2, <1>3, InsertIs
  <1>5. oldICR' \in [Borrowers -> Nat]
    BY DEF PlaceTrove, TroveTypeOK
  <1> QED
    BY <1>4, <1>5 DEF ListInv, Injective, Elems

LEMMA QuietList ==
  ASSUME ListInv, UNCHANGED <<sortedTroves, status>>
  PROVE  ListInv'
  <1>1. Active' = Active
    BY DEF Active
  <1> QED
    BY <1>1 DEF ListInv, Injective, Elems

\* A trove is closed.
LEMMA CloseAsTypes ==
  ASSUME TroveTypeOK, ListInv, status \in [Borrowers -> Statuses], NEW b \in Borrowers,
         NEW how \in Statuses \ {"active"}, CloseAs(b, how)
  PROVE  /\ oldICR' \in [Borrowers -> Nat]
         /\ colls' \in [Borrowers -> Colls]
         /\ collTokens' \in [Borrowers -> SUBSET Tokens]
         /\ collSnapshots' \in [Borrowers -> Colls] /\ debtSnapshots' \in [Borrowers -> Colls]
         /\ ListInv'
         /\ Active' = Active \ {b}
  <1>1. NoColls \in Colls
    BY NoCollsType
  <1>2. /\ oldICR' \in [Borrowers -> Nat]
        /\ colls' \in [Borrowers -> Colls]
        /\ collTokens' \in [Borrowers -> SUBSET Tokens]
        /\ collSnapshots' \in [Borrowers -> Colls] /\ debtSnapshots' \in [Borrowers -> Colls]
    BY <1>1 DEF CloseAs, RemoveTrove, TroveTypeOK
  <1>3. Active' = Active \ {b}
    BY DEF CloseAs, Active
  <1>4. /\ sortedTroves' \in Seq(Borrowers) /\ Injective(sortedTroves')
        /\ Elems(sortedTroves') = Active \ {b}
    BY WithoutIs DEF ListInv, CloseAs, RemoveTrove
  <1>5. ListInv'
    BY <1>3, <1>4 DEF ListInv, Injective, Elems
  <1> QED
    BY <1>2, <1>3, <1>5

-----------------------------------------------------------------------------
(* Types: the operations of BorrowerOperations.                            *)

AllInv == LedgerInv /\ ReservesInv /\ TypesInv

LEMMA IdleTx ==
  ASSUME tx' = NoTx
  PROVE  TxInv'
  <1>1. tx'.kind # "redemption"
    OBVIOUS
  <1> QED
    BY <1>1 DEF TxInv, TxTypes, RedemptionMeetsOpenTroves

\* The trove's snapshots are brought up to date, or kept.
LEMMA AppliedSnapshotsTypes ==
  ASSUME TroveTypeOK, PoolTypeOK, SnapshotsBehind, NEW b \in Borrowers,
         AppliedSnapshots(b), UNCHANGED <<L_Coll, L_YUSDDebt>>
  PROVE  /\ collSnapshots' \in [Borrowers -> Colls] /\ debtSnapshots' \in [Borrowers -> Colls]
         /\ SnapshotsBehind'
  <1>1. CASE HasPendingRewards(b)
    <2>1. /\ collSnapshots' = [collSnapshots EXCEPT ![b] = L_Coll]
          /\ debtSnapshots' = [debtSnapshots EXCEPT ![b] = L_YUSDDebt]
      BY <1>1 DEF AppliedSnapshots
    <2>2. collSnapshots' \in [Borrowers -> Colls] /\ debtSnapshots' \in [Borrowers -> Colls]
      BY <2>1 DEF TroveTypeOK, PoolTypeOK
    <2>3. SnapshotsBehind'
      BY <2>1 DEF SnapshotsBehind, TroveTypeOK, PoolTypeOK, Colls
    <2> QED
      BY <2>2, <2>3
  <1>2. CASE ~HasPendingRewards(b)
    <2>1. UNCHANGED <<collSnapshots, debtSnapshots, L_Coll, L_YUSDDebt>>
      BY <1>2 DEF AppliedSnapshots, snapshotVars
    <2> QED
      BY <2>1 DEF SnapshotsBehind, TroveTypeOK
  <1> QED
    BY <1>1, <1>2

LEMMA CloseSnapshots ==
  ASSUME TroveTypeOK, PoolTypeOK, SnapshotsBehind, NEW b \in Borrowers, NEW how,
         CloseAs(b, how), UNCHANGED <<L_Coll, L_YUSDDebt>>
  PROVE  SnapshotsBehind'
  <1>1. \A t \in Tokens : L_Coll[t] \in Nat /\ L_YUSDDebt[t] \in Nat
    BY DEF PoolTypeOK, Colls
  <1> QED
    BY <1>1 DEF CloseAs, SnapshotsBehind, TroveTypeOK, NoColls

\* Rewards are moved from DefaultPool to ActivePool.
LEMMA MovedTypes ==
  ASSUME PoolTypeOK, NEW c \in Colls, Covers(defaultColl, c)
  PROVE  SumColls(activeColl, c) \in Colls /\ SubColls(defaultColl, c) \in Colls
  BY SumCollsType, SubCollsType DEF PoolTypeOK

LEMMA OpenTroveTypes ==
  ASSUME AllInv, NEW b \in Borrowers, NEW c \in OpenColls, NEW y \in OpenDebts,
         NEW bfee \in BorrowingFees, NEW vfee \in DepositFees,
         OpenTrove(b, c, y, bfee, vfee)
  PROVE  TypesInv'
  <1> USE DEF AllInv, TypesInv
  <1> DEFINE net == y + (IF RecoveryMode THEN 0 ELSE bfee) + vfee
             d == net + GasCompensation
             icr == ComputeCR(VC(price, c), d)
  <1>1. c \in Colls /\ d \in Nat
    BY InputAssumption, ScaleAssumption
  <1>2. /\ tx = NoTx /\ tx' = tx
        /\ Covers(outside, c)
        /\ CanStake(b, Support(c)) /\ UpdateStake(b, Support(c), c)
        /\ PlaceTrove(b, icr)
        /\ colls' = [colls EXCEPT ![b] = c]
        /\ status' = [status EXCEPT ![b] = "active"]
        /\ collTokens' = [collTokens EXCEPT ![b] = Support(c)]
        /\ collSnapshots' = [collSnapshots EXCEPT ![b] = L_Coll]
        /\ debtSnapshots' = [debtSnapshots EXCEPT ![b] = L_YUSDDebt]
    BY DEF OpenTrove
  <1>3. /\ activeColl' = SumColls(activeColl, c)
        /\ outside' = SubColls(outside, c)
        /\ UNCHANGED <<totalStakesSnapshot, totalCollateralSnapshot, L_Coll, L_YUSDDebt,
                       lastCollError, lastYUSDDebtError, defaultColl, surplus, surplusColl,
                       price, liquidations>>
    BY DEF OpenTrove, systemSnapshotVars, rewardVars, defaultVars, surplusVars
  <1>4. icr \in Nat
    BY <1>1, VCType, ComputeCRType DEF PoolTypeOK
  <1> HIDE DEF net, d, icr
  <1>5. Active' = Active \cup {b}
    BY <1>2 DEF Active, ReservesInv
  <1>6. oldICR' \in [Borrowers -> Nat] /\ ListInv'
    BY <1>2, <1>4, <1>5, PlaceTroveList
  <1>7. stakes' \in [Borrowers -> Colls] /\ totalStakes' \in Colls
    BY <1>1, <1>2, UpdateStakeTypes
  <1>8. TroveTypeOK'
    BY <1>1, <1>2, <1>3, <1>6, <1>7 DEF TroveTypeOK, PoolTypeOK, Support
  <1>9. activeColl' \in Colls /\ outside' \in Colls
    BY <1>1, <1>2, <1>3, SumCollsType, SubCollsType DEF PoolTypeOK
  <1>10. PoolTypeOK'
    BY <1>3, <1>7, <1>9 DEF PoolTypeOK
  <1>11. SnapshotsBehind'
    BY <1>2, <1>3 DEF SnapshotsBehind, TroveTypeOK, PoolTypeOK, Colls
  <1> QED
    BY <1>2, <1>6, <1>8, <1>10, <1>11, IdleTx

LEMMA AdjustTroveTypes ==
  ASSUME AllInv, NEW b \in Borrowers, NEW cIn \in Colls, NEW cOut \in Colls,
         NEW y \in AdjustDebts \cup {0}, NEW up \in BOOLEAN, NEW bfee \in BorrowingFees,
         NEW vfee \in DepositFees, NEW sold,
         AdjustTrove(b, cIn, cOut, y, up, bfee, vfee, sold)
  PROVE  TypesInv'
  <1> USE DEF AllInv, TypesInv
  <1> DEFINE cur == SumColls(colls[b], AppliedColl(b))
             new == SubColls(SumColls(cur, cIn), cOut)
             newDebt == AdjustedDebt(b, cIn, y, up, bfee, vfee)
             icr == ComputeCR(VC(price, new), newDebt)
             held == SumColls(SumColls(activeColl, AppliedColl(b)), cIn)
  <1>1. /\ tx = NoTx /\ tx' = tx
        /\ status[b] = "active" /\ status' = status
        /\ Covers(outside, cIn) /\ Covers(SumColls(cur, cIn), cOut)
        /\ CanMovePending(AppliedDebt(b), AppliedColl(b))
        /\ newDebt >= 0
        /\ CanStake(b, Support(new)) /\ UpdateStake(b, Support(new), new)
        /\ PlaceTrove(b, icr)
        /\ colls' = [colls EXCEPT ![b] = new]
        /\ collTokens' = [collTokens EXCEPT ![b] = Support(new)]
        /\ AppliedSnapshots(b)
    BY DEF AdjustTrove
  <1>2. /\ defaultColl' = SubColls(defaultColl, AppliedColl(b))
        /\ Covers(held, cOut)
        /\ activeColl' = Unwrapped(held, cOut, sold)
        /\ outside' = SumColls(SubColls(outside, cIn), cOut)
        /\ UNCHANGED <<totalStakesSnapshot, totalCollateralSnapshot, L_Coll, L_YUSDDebt,
                       lastCollError, lastYUSDDebtError, surplus, surplusColl,
                       price, liquidations>>
    BY DEF AdjustTrove, systemSnapshotVars, rewardVars, surplusVars
  <1>3. AppliedColl(b) \in Colls /\ AppliedDebt(b) \in Nat /\ cur \in Colls
    BY EntireTypes
  <1>4. new \in Colls
    BY <1>1, <1>3, SumCollsType, SubCollsType
  <1>5. newDebt \in Nat
    <2>1. debt[b] \in Nat /\ y \in Nat /\ bfee \in Nat /\ vfee \in Nat
      BY InputAssumption DEF LedgerInv, LedgerTypeOK
    <2>2. newDebt \in Int
      BY <1>3, <2>1 DEF AdjustedDebt, DebtChange, VariableFee
    <2> QED
      BY <1>1, <2>2
  <1>6. icr \in Nat
    BY <1>4, <1>5, VCType, ComputeCRType DEF PoolTypeOK
  <1>7. held \in Colls /\ SubColls(defaultColl, AppliedColl(b)) \in Colls
    BY <1>1, <1>3, MovedTypes, SumCollsType DEF CanMovePending
  <1> HIDE DEF cur, new, newDebt, icr, held
  <1>8. Active' = Active \cup {b}
    BY <1>1 DEF Active
  <1>9. oldICR' \in [Borrowers -> Nat] /\ ListInv'
    BY <1>1, <1>6, <1>8, PlaceTroveList
  <1>10. stakes' \in [Borrowers -> Colls] /\ totalStakes' \in Colls
    BY <1>1, <1>4, UpdateStakeTypes
  <1>11. /\ collSnapshots' \in [Borrowers -> Colls] /\ debtSnapshots' \in [Borrowers -> Colls]
         /\ SnapshotsBehind'
    BY <1>1, <1>2, AppliedSnapshotsTypes
  <1>12. TroveTypeOK'
    BY <1>1, <1>2, <1>4, <1>9, <1>10, <1>11 DEF TroveTypeOK, Support
  <1>13. activeColl' \in Colls /\ outside' \in Colls
    <2>1. SubColls(outside, cIn) \in Colls
      BY <1>1, SubCollsType DEF PoolTypeOK
    <2> QED
      BY <1>2, <1>7, <2>1, UnwrappedType, SumCollsType
  <1>14. PoolTypeOK'
    BY <1>2, <1>7, <1>10, <1>13 DEF PoolTypeOK
  <1> QED
    BY <1>1, <1>9, <1>11, <1>12, <1>14, IdleTx

LEMMA CloseTroveTypes ==
  ASSUME AllInv, NEW b \in Borrowers, NEW unlever, NEW sold, CloseTrove(b, unlever, sold)
  PROVE  TypesInv'
  <1> USE DEF AllInv, TypesInv
  <1> DEFINE c == SumColls(colls[b], AppliedColl(b))
             held == SumColls(activeColl, AppliedColl(b))
  <1>1. /\ tx = NoTx /\ tx' = tx
        /\ CanMovePending(AppliedDebt(b), AppliedColl(b))
        /\ RemoveStake(b, AppliedTokens(b))
        /\ CloseAs(b, "closedByOwner")
    BY DEF CloseTrove
  <1>2. /\ defaultColl' = SubColls(defaultColl, AppliedColl(b))
        /\ Covers(held, c)
        /\ activeColl' = Unwrapped(held, c, sold)
        /\ outside' = SumColls(outside, c)
        /\ UNCHANGED <<totalStakesSnapshot, totalCollateralSnapshot, L_Coll, L_YUSDDebt,
                       lastCollError, lastYUSDDebtError, surplus, surplusColl,
                       price, liquidations>>
    BY DEF CloseTrove, systemSnapshotVars, rewardVars, surplusVars
  <1>3. AppliedColl(b) \in Colls /\ c \in Colls
    BY EntireTypes
  <1>4. held \in Colls /\ SubColls(defaultColl, AppliedColl(b)) \in Colls
    BY <1>1, <1>3, MovedTypes DEF CanMovePending
  <1> HIDE DEF c, held
  <1>5. /\ oldICR' \in [Borrowers -> Nat]
        /\ colls' \in [Borrowers -> Colls]
        /\ collTokens' \in [Borrowers -> SUBSET Tokens]
        /\ collSnapshots' \in [Borrowers -> Colls] /\ debtSnapshots' \in [Borrowers -> Colls]
        /\ ListInv'
    BY <1>1, CloseAsTypes DEF ReservesInv, Statuses
  <1>6. stakes' \in [Borrowers -> Colls] /\ totalStakes' \in Colls
    BY <1>1, RemoveStakeTypes
  <1>7. TroveTypeOK'
    BY <1>2, <1>5, <1>6 DEF TroveTypeOK
  <1>8. activeColl' \in Colls /\ outside' \in Colls
    BY <1>2, <1>3, <1>4, UnwrappedType, SumCollsType DEF PoolTypeOK
  <1>9. PoolTypeOK'
    BY <1>2, <1>4, <1>6, <1>8 DEF PoolTypeOK
  <1>10. SnapshotsBehind'
    BY <1>1, <1>2, CloseSnapshots
  <1> QED
    BY <1>1, <1>5, <1>7, <1>9, <1>10, IdleTx

LEMMA ClaimCollateralTypes ==
  ASSUME AllInv, NEW b \in Borrowers, ClaimCollateral(b)
  PROVE  TypesInv'
  <1> USE DEF AllInv, TypesInv
  <1>1. /\ tx = NoTx /\ tx' = tx
        /\ Covers(surplusColl, surplus[b])
        /\ surplus' = [surplus EXCEPT ![b] = NoColls]
        /\ surplusColl' = SubColls(surplusColl, surplus[b])
        /\ outside' = SumColls(outside, surplus[b])
    BY DEF ClaimCollateral
  <1>2. UNCHANGED <<troveVars, stakeVars, snapshotVars, listVars, systemSnapshotVars, rewardVars,
                    activeVars, defaultVars, price, liquidations>>
    BY DEF ClaimCollateral
  <1>3. surplus[b] \in Colls /\ NoColls \in Colls
    BY NoCollsType DEF TroveTypeOK
  <1>4. surplusColl' \in Colls /\ outside' \in Colls
    BY <1>1, <1>3, SumCollsType, SubCollsType DEF PoolTypeOK
  <1>5. TroveTypeOK'
    BY <1>1, <1>2, <1>3 DEF TroveTypeOK, troveVars, stakeVars, snapshotVars, listVars
  <1>6. PoolTypeOK'
    BY <1>2, <1>4 DEF PoolTypeOK, stakeVars, systemSnapshotVars, rewardVars, activeVars, defaultVars
  <1>7. SnapshotsBehind' /\ ListInv'
    BY <1>2, QuietList DEF SnapshotsBehind, snapshotVars, rewardVars, troveVars, listVars
  <1> QED
    BY <1>1, <1>5, <1>6, <1>7, IdleTx

LEMMA UpdateTroveTypes ==
  ASSUME AllInv, NEW b \in Borrowers, UpdateTrove(b)
  PROVE  TypesInv'
  <1> USE DEF AllInv, TypesInv
  <1>1. /\ tx = NoTx /\ tx' = tx
        /\ status[b] = "active"
        /\ PlaceTrove(b, ICR(b))
    BY DEF UpdateTrove
  <1>2. UNCHANGED <<troveVars, stakeVars, snapshotVars, systemSnapshotVars, rewardVars,
                    activeVars, defaultVars, surplusVars, outside, price, liquidations>>
    BY DEF UpdateTrove
  <1>3. Active' = Active \cup {b}
    BY <1>1, <1>2 DEF Active, troveVars
  <1>4. oldICR' \in [Borrowers -> Nat] /\ ListInv'
    BY <1>1, <1>3, EntireTypes, PlaceTroveList
  <1>5. TroveTypeOK'
    BY <1>2, <1>4 DEF TroveTypeOK, troveVars, stakeVars, snapshotVars, surplusVars
  <1>6. PoolTypeOK'
    BY <1>2 DEF PoolTypeOK, stakeVars, systemSnapshotVars, rewardVars, activeVars, defaultVars,
                surplusVars
  <1>7. SnapshotsBehind'
    BY <1>2 DEF SnapshotsBehind, snapshotVars, rewardVars
  <1> QED
    BY <1>1, <1>4, <1>5, <1>6, <1>7, IdleTx

-----------------------------------------------------------------------------
(* Types: the liquidations.                                                *)

LEMMA LiquidationFields ==
  ASSUME tx \in TxTypes, tx.kind = "liquidation"
  PROVE  /\ tx.recovery \in BOOLEAN /\ tx.remainingSP \in Nat /\ tx.systemVC \in Nat
         /\ tx.systemDebt \in Nat /\ tx.sequenceDebt \in Nat /\ tx.gasYUSD \in Nat
         /\ tx.totals \in [offset : Nat, redistribute : Nat, toSP : Colls, toRedist : Colls,
                           toSurplus : Colls, gas : Colls]
  BY DEF TxTypes

LEMMA RedemptionFields ==
  ASSUME tx \in TxTypes, tx.kind = "redemption"
  PROVE  /\ tx.current \in Borrowers \cup {NoTrove} /\ tx.remaining \in Nat
         /\ tx.redeemed \in Nat /\ tx.drawn \in Colls
  BY DEF TxTypes

\* What a liquidation does with the collateral c loses none of it.
SplitColls(v, c) ==
  /\ v.toSP \in Colls /\ v.toRedist \in Colls /\ v.toSurplus \in Colls /\ v.gas \in Colls
  /\ \A t \in Tokens : v.toSP[t] + v.toRedist[t] + v.toSurplus[t] + v.gas[t] = c[t]

LEMMA PureRedistributionColls ==
  ASSUME NEW d, NEW c \in Colls
  PROVE  SplitColls(PureRedistribution(d, c), c)
  <1>1. /\ GasShare(c) \in Colls /\ SubColls(c, GasShare(c)) \in Colls /\ NoColls \in Colls
    BY GasShareType, SubCollsType, NoCollsType
  <1>2. ASSUME NEW t \in Tokens
        PROVE  NoColls[t] + SubColls(c, GasShare(c))[t] + NoColls[t] + GasShare(c)[t] = c[t]
    <2>1. c[t] \in Nat /\ GasShare(c)[t] \in Nat /\ NoColls[t] = 0
      BY <1>1 DEF Colls, NoColls
    <2>2. SubColls(c, GasShare(c))[t] = c[t] - GasShare(c)[t]
      BY DEF SubColls
    <2> QED
      BY <2>1, <2>2
  <1> QED
    BY <1>1, <1>2 DEF PureRedistribution, Split, SplitColls

LEMMA OffsetAndRedistributionColls ==
  ASSUME PoolTypeOK, NEW d \in Nat, NEW c \in Colls, NEW sp \in Nat, CanSplit(d, c, sp)
  PROVE  SplitColls(OffsetAndRedistribution(d, c, sp), c)
  <1>1. CASE sp = 0
    BY <1>1, PureRedistributionColls DEF OffsetAndRedistribution
  <1>2. CASE sp # 0
    <2> DEFINE gas == GasShare(c)
               liq == SubColls(c, gas)
               off == Smaller(d, sp)
               offsetRatio == (DP * DP * off) \div d
               worth == (off * DP * MCR) \div USD(price, liq)
               spRatio == Smaller(offsetRatio, worth)
               toSP == [t \in Tokens |-> (liq[t] * spRatio) \div (DP * DP)]
               toSurplus == [t \in Tokens |-> (liq[t] * (offsetRatio - spRatio)) \div (DP * DP)]
               toRedist == SubColls(SubColls(liq, toSP), toSurplus)
    <2>1. gas \in Colls /\ liq \in Colls
      BY GasShareType, SubCollsType
    <2>2. d \in Nat \ {0} /\ USD(price, liq) \in Nat \ {0}
      BY <1>2, <2>1, USDType DEF CanSplit, PoolTypeOK
    <2>3. DP * DP \in Nat \ {0}
      BY ScaleAssumption
    <2>4. off \in Nat /\ off <= d
      BY DEF Smaller
    <2> HIDE DEF off
    <2>5. offsetRatio \in Nat /\ offsetRatio <= DP * DP
      BY <2>2, <2>3, <2>4, PartOf
    <2>6. worth \in Nat
      <3>1. off * DP * MCR \in Nat
        BY <2>4, ScaleAssumption
      <3> QED
        BY <2>2, <3>1, FloorFits
    <2> HIDE DEF offsetRatio, worth
    <2>7. spRatio \in Nat /\ spRatio <= offsetRatio
      BY <2>5, <2>6 DEF Smaller
    <2> HIDE DEF spRatio, liq
    <2>8. ASSUME NEW t \in Tokens
          PROVE  /\ liq[t] \in Nat /\ toSP[t] \in Nat /\ toSurplus[t] \in Nat
                 /\ toSP[t] + toSurplus[t] <= liq[t]
      <3>1. liq[t] \in Nat
        BY <2>1 DEF Colls
      <3> QED
        BY <2>3, <2>5, <2>7, <3>1, TwoParts
    <2>9. /\ toSP = [t \in Tokens |-> toSP[t]]
          /\ toSurplus = [t \in Tokens |-> toSurplus[t]]
      OBVIOUS
    <2>10. OffsetAndRedistribution(d, c, sp) = Split(off, d - off, toSP, toRedist, toSurplus, gas)
      BY <1>2 DEF OffsetAndRedistribution, liq, off, offsetRatio, spRatio, worth
    <2> HIDE DEF toSP, toSurplus, gas
    <2>11. toSP \in Colls /\ toSurplus \in Colls
      BY <2>8, <2>9 DEF Colls
    <2>12. /\ toRedist \in Colls
           /\ \A t \in Tokens : toRedist[t] = liq[t] - toSP[t] - toSurplus[t]
      BY <2>8 DEF SubColls, Colls
    <2>13. ASSUME NEW t \in Tokens PROVE liq[t] + gas[t] = c[t]
      BY <2>1 DEF liq, SubColls, Colls
    <2> HIDE DEF toRedist
    <2>14. ASSUME NEW t \in Tokens PROVE toSP[t] + toRedist[t] + toSurplus[t] + gas[t] = c[t]
      <3>1. gas[t] \in Nat /\ c[t] \in Nat
        BY <2>1 DEF Colls
      <3> QED
        BY <2>8, <2>12, <2>13, <3>1
    <2> QED
      BY <2>1, <2>10, <2>11, <2>12, <2>14 DEF Split, SplitColls
  <1> QED
    BY <1>1, <1>2

LEMMA CappedOffsetColls ==
  ASSUME PoolTypeOK, NEW d \in Nat, NEW c \in Colls, USD(price, c) # 0
  PROVE  SplitColls(CappedOffset(d, c), c)
  <1> DEFINE worth == (((MCR * d) \div DP) * DP) \div USD(price, c)
             ratio == Smaller(worth, DP)
             capped == [t \in Tokens |-> (ratio * c[t]) \div DP]
             gas == GasShare(capped)
  <1>1. DP \in Nat \ {0} /\ MCR \in Nat
    BY ScaleAssumption
  <1>2. worth \in Nat
    <2>1. USD(price, c) \in Nat \ {0}
      BY USDType DEF PoolTypeOK
    <2>2. MCR * d \in Nat
      BY <1>1
    <2>3. ((MCR * d) \div DP) \in Nat
      BY <1>1, <2>2, FloorFits
    <2>4. ((MCR * d) \div DP) * DP \in Nat
      BY <1>1, <2>3
    <2> QED
      BY <2>1, <2>4, FloorFits
  <1> HIDE DEF worth
  <1>3. ratio \in Nat /\ ratio <= DP
    BY <1>1, <1>2 DEF Smaller
  <1> HIDE DEF ratio
  <1>4. ASSUME NEW t \in Tokens PROVE capped[t] \in Nat /\ capped[t] <= c[t]
    <2>1. c[t] \in Nat
      BY DEF Colls
    <2>2. (c[t] * ratio) \div DP \in Nat /\ (c[t] * ratio) \div DP <= c[t]
      BY <1>1, <1>3, <2>1, PartOf
    <2>3. c[t] * ratio = ratio * c[t]
      BY <1>3, <2>1
    <2> QED
      BY <2>2, <2>3
  <1>5. CappedOffset(d, c) = Split(d, 0, SubColls(capped, gas), NoColls, SubColls(c, capped), gas)
    BY DEF CappedOffset, ratio, worth
  <1>6. capped \in Colls /\ Covers(c, capped)
    <2>1. capped = [t \in Tokens |-> capped[t]]
      OBVIOUS
    <2> HIDE DEF capped
    <2> QED
      BY <1>4, <2>1 DEF Colls, Covers
  <1> HIDE DEF capped
  <1>7. gas \in Colls /\ SubColls(capped, gas) \in Colls /\ SubColls(c, capped) \in Colls
        /\ NoColls \in Colls
    BY <1>6, GasShareType, SubCollsType, NoCollsType
  <1> HIDE DEF gas
  <1>8. ASSUME NEW t \in Tokens
        PROVE  SubColls(capped, gas)[t] + NoColls[t] + SubColls(c, capped)[t] + gas[t] = c[t]
    <2>1. c[t] \in Nat /\ capped[t] \in Nat /\ gas[t] \in Nat /\ NoColls[t] = 0
      BY <1>6, <1>7 DEF Colls, NoColls
    <2>2. SubColls(capped, gas)[t] = capped[t] - gas[t] /\ SubColls(c, capped)[t] = c[t] - capped[t]
      BY DEF SubColls
    <2> QED
      BY <2>1, <2>2
  <1> QED
    BY <1>5, <1>7, <1>8 DEF Split, SplitColls
-----------------------------------------------------------------------------
LEMMA BeginLiquidationTypes ==
  ASSUME AllInv, BeginLiquidation
  PROVE  TypesInv'
  <1> USE DEF AllInv, TypesInv
  <1>1. tx' = [kind |-> "liquidation", recovery |-> RecoveryMode,
               remainingSP |-> spYUSD, systemVC |-> SystemVC, systemDebt |-> SystemDebt,
               sequenceDebt |-> 0, gasYUSD |-> 0,
               totals |-> Split(0, 0, NoColls, NoColls, NoColls, NoColls)]
    BY DEF BeginLiquidation
  <1>2. /\ UNCHANGED <<troveVars, stakeVars, snapshotVars, listVars, systemSnapshotVars, rewardVars,
                       activeVars, defaultVars, surplusVars, outside, price>>
        /\ liquidations' = liquidations + 1
    BY DEF BeginLiquidation
  <1>3. TxInv'
    <2>1. SystemVC \in Nat /\ SystemDebt \in Nat /\ spYUSD \in Nat /\ NoColls \in Colls
          /\ RecoveryMode \in BOOLEAN
      BY SystemTypes, NoCollsType DEF LedgerInv, LedgerTypeOK, RecoveryMode
    <2>2. Split(0, 0, NoColls, NoColls, NoColls, NoColls) \in
            [offset : Nat, redistribute : Nat, toSP : Colls, toRedist : Colls,
             toSurplus : Colls, gas : Colls]
      BY <2>1 DEF Split
    <2>3. tx' \in TxTypes
      BY <1>1, <2>1, <2>2 DEF TxTypes
    <2>4. tx'.kind # "redemption"
      BY <1>1
    <2> QED
      BY <2>3, <2>4 DEF TxInv, RedemptionMeetsOpenTroves
  <1>4. TroveTypeOK'
    BY <1>2 DEF TroveTypeOK, troveVars, stakeVars, snapshotVars, listVars, surplusVars
  <1>5. PoolTypeOK'
    BY <1>2 DEF PoolTypeOK, stakeVars, systemSnapshotVars, rewardVars, activeVars, defaultVars,
                surplusVars
  <1>6. SnapshotsBehind' /\ ListInv'
    BY <1>2, QuietList DEF SnapshotsBehind, snapshotVars, rewardVars, troveVars, listVars
  <1> QED
    BY <1>3, <1>4, <1>5, <1>6

LEMMA LeavingVCType ==
  ASSUME PoolTypeOK, NEW c, NEW v, SplitColls(v, c)
  PROVE  LeavingVC(v) \in Nat
  <1>1. VC(price, v.toSP) \in Nat /\ VC(price, v.gas) \in Nat /\ VC(price, v.toSurplus) \in Nat
    BY VCType DEF PoolTypeOK, SplitColls
  <1> QED
    BY <1>1 DEF LeavingVC

LEMMA LiquidateAsTypes ==
  ASSUME AllInv, tx.kind = "liquidation", NEW b \in Borrowers, NEW v,
         SplitOf(v, EntireDebt(b), tx.remainingSP), SplitColls(v, EntireColl(b)),
         LiquidateAs(b, v)
  PROVE  TypesInv'
  <1> USE DEF AllInv, TypesInv
  <1>1. /\ CanMovePending(PendingDebt(b), PendingColl(b))
        /\ RemoveStake(b, collTokens[b])
        /\ CloseAs(b, "closedByLiquidation")
        /\ activeColl' = SumColls(activeColl, PendingColl(b))
        /\ defaultColl' = SubColls(defaultColl, PendingColl(b))
        /\ surplus' = [surplus EXCEPT ![b] = SumColls(@, v.toSurplus)]
    BY DEF LiquidateAs
  <1>2. UNCHANGED <<totalStakesSnapshot, totalCollateralSnapshot, L_Coll, L_YUSDDebt,
                    lastCollError, lastYUSDDebtError, surplusColl, outside, price, liquidations>>
    BY DEF LiquidateAs, systemSnapshotVars, rewardVars
  <1>3. PendingColl(b) \in Colls /\ v.toSurplus \in Colls
    BY PendingCollType DEF SplitColls
  <1>4. /\ oldICR' \in [Borrowers -> Nat]
        /\ colls' \in [Borrowers -> Colls]
        /\ collTokens' \in [Borrowers -> SUBSET Tokens]
        /\ collSnapshots' \in [Borrowers -> Colls] /\ debtSnapshots' \in [Borrowers -> Colls]
        /\ ListInv'
    BY <1>1, CloseAsTypes DEF ReservesInv, Statuses
  <1>5. stakes' \in [Borrowers -> Colls] /\ totalStakes' \in Colls
    BY <1>1, RemoveStakeTypes
  <1>6. surplus' \in [Borrowers -> Colls]
    <2>1. surplus[b] \in Colls /\ SumColls(surplus[b], v.toSurplus) \in Colls
      BY <1>3, SumCollsType DEF TroveTypeOK
    <2> QED
      BY <1>1, <2>1 DEF TroveTypeOK
  <1>7. activeColl' \in Colls /\ defaultColl' \in Colls
    BY <1>1, <1>3, MovedTypes DEF CanMovePending
  <1>8. TroveTypeOK'
    BY <1>4, <1>5, <1>6 DEF TroveTypeOK
  <1>9. PoolTypeOK'
    BY <1>2, <1>5, <1>7 DEF PoolTypeOK
  <1>10. SnapshotsBehind'
    BY <1>1, <1>2, CloseSnapshots
  <1>11. TxInv'
    <2> DEFINE vc == tx.systemVC - LeavingVC(v)
               d == tx.systemDebt - v.offset
    <2>1. /\ tx.recovery => vc >= 0 /\ d >= 0
          /\ tx' = [kind |-> "liquidation",
                    recovery |-> tx.recovery /\ ComputeCR(vc, d) < CCR,
                    remainingSP |-> tx.remainingSP - v.offset,
                    systemVC |-> IF tx.recovery THEN vc ELSE tx.systemVC,
                    systemDebt |-> IF tx.recovery THEN d ELSE tx.systemDebt,
                    sequenceDebt |-> tx.sequenceDebt + EntireDebt(b),
                    gasYUSD |-> tx.gasYUSD + GasCompensation,
                    totals |-> AddSplit(tx.totals, v)]
      BY DEF LiquidateAs
    <2>2. /\ tx.recovery \in BOOLEAN /\ tx.remainingSP \in Nat /\ tx.systemVC \in Nat
          /\ tx.systemDebt \in Nat /\ tx.sequenceDebt \in Nat /\ tx.gasYUSD \in Nat
          /\ tx.totals \in [offset : Nat, redistribute : Nat, toSP : Colls, toRedist : Colls,
                            toSurplus : Colls, gas : Colls]
      BY LiquidationFields DEF TxInv
    <2>3. LeavingVC(v) \in Nat /\ v.offset \in Nat /\ v.redistribute \in Nat
          /\ v.offset <= tx.remainingSP /\ EntireDebt(b) \in Nat
      BY LeavingVCType, EntireTypes DEF SplitOf
    <2> HIDE DEF vc, d
    <2>4. (IF tx.recovery THEN vc ELSE tx.systemVC) \in Nat
          /\ (IF tx.recovery THEN d ELSE tx.systemDebt) \in Nat
      BY <2>1, <2>2, <2>3 DEF vc, d
    <2>5. AddSplit(tx.totals, v) \in [offset : Nat, redistribute : Nat, toSP : Colls,
                                      toRedist : Colls, toSurplus : Colls, gas : Colls]
      <3>1. /\ SumColls(tx.totals.toSP, v.toSP) \in Colls
            /\ SumColls(tx.totals.toRedist, v.toRedist) \in Colls
            /\ SumColls(tx.totals.toSurplus, v.toSurplus) \in Colls
            /\ SumColls(tx.totals.gas, v.gas) \in Colls
        BY <2>2, SumCollsType DEF SplitColls
      <3>2. tx.totals.offset + v.offset \in Nat /\ tx.totals.redistribute + v.redistribute \in Nat
        BY <2>2, <2>3
      <3> QED
        BY <3>1, <3>2 DEF AddSplit, Split
    <2>6. /\ tx.remainingSP - v.offset \in Nat
          /\ tx.sequenceDebt + EntireDebt(b) \in Nat
          /\ tx.gasYUSD + GasCompensation \in Nat
          /\ (tx.recovery /\ ComputeCR(vc, d) < CCR) \in BOOLEAN
      BY <2>2, <2>3, ScaleAssumption
    <2>7. tx' \in TxTypes
      BY <2>1, <2>4, <2>5, <2>6 DEF TxTypes
    <2>8. tx'.kind # "redemption"
      BY <2>1
    <2> QED
      BY <2>7, <2>8 DEF TxInv, RedemptionMeetsOpenTroves
  <1> QED
    BY <1>4, <1>8, <1>9, <1>10, <1>11

LEMMA LiquidateTypes ==
  ASSUME AllInv, NEW b \in Borrowers, LiquidateNormalMode(b) \/ LiquidateRecoveryMode(b)
  PROVE  TypesInv' /\ tx.kind = "liquidation"
                   /\ \E v : /\ LiquidateAs(b, v)
                             /\ SplitOf(v, EntireDebt(b), tx.remainingSP)
                             /\ SplitColls(v, EntireColl(b))
  <1> DEFINE d == EntireDebt(b)
             c == EntireColl(b)
             sp == tx.remainingSP
  <1>1. tx.kind = "liquidation" /\ sp \in Nat /\ PoolTypeOK
    BY LiquidationFields DEF LiquidateNormalMode, LiquidateRecoveryMode, AllInv, TypesInv, TxInv
  <1>2. d \in Nat /\ c \in Colls
    BY EntireTypes DEF AllInv, TypesInv
  <1>3. \E v : LiquidateAs(b, v) /\ SplitOf(v, d, sp) /\ SplitColls(v, c)
    <2> HIDE DEF d, c, sp
    <2>1. CASE LiquidateNormalMode(b)
      <3>1. CanSplit(d, c, sp) /\ LiquidateAs(b, OffsetAndRedistribution(d, c, sp))
        BY <2>1 DEF LiquidateNormalMode, d, c, sp
      <3> QED
        BY <1>1, <1>2, <3>1, OffsetAndRedistributionSplits, OffsetAndRedistributionColls
    <2>2. CASE LiquidateRecoveryMode(b)
      <3>1. CASE LiquidateAs(b, PureRedistribution(d, c))
        BY <1>1, <1>2, <3>1, PureRedistributionSplits, PureRedistributionColls
      <3>2. CASE CanSplit(d, c, sp) /\ LiquidateAs(b, OffsetAndRedistribution(d, c, sp))
        BY <1>1, <1>2, <3>2, OffsetAndRedistributionSplits, OffsetAndRedistributionColls
      <3>3. CASE d <= sp /\ USD(price, c) # 0 /\ LiquidateAs(b, CappedOffset(d, c))
        BY <1>1, <1>2, <3>3, CappedOffsetSplits, CappedOffsetColls
      <3> QED
        BY <2>2, <3>1, <3>2, <3>3 DEF LiquidateRecoveryMode, d, c, sp
    <2> QED
      BY <2>1, <2>2
  <1> QED
    BY <1>1, <1>3, LiquidateAsTypes

-----------------------------------------------------------------------------
(* Types: redistribution, the end of a batch, and the redemptions.         *)

LEMMA ValueVCType ==
  ASSUME PoolTypeOK, NEW t \in Tokens, NEW x \in Nat
  PROVE  ValueVC(price, t, x) \in Nat
  <1>1. price[t] \in Nat /\ Ratio[t] \in Nat
    BY PriceType, ScaleAssumption DEF PoolTypeOK
  <1>2. price[t] * x \in Nat
    BY <1>1
  <1>3. price[t] * x * Ratio[t] \in Nat
    BY <1>1, <1>2
  <1> QED
    BY <1>3, HundredType, FloorFits DEF ValueVC

\* The sums per unit staked only grow.
LEMMA RedistributeTypes ==
  ASSUME PoolTypeOK, NEW d \in Nat, NEW c \in Colls, Redistribute(d, c)
  PROVE  /\ L_Coll' \in Colls /\ L_YUSDDebt' \in Colls
         /\ lastCollError' \in Colls /\ lastYUSDDebtError' \in Colls
         /\ \A t \in Tokens : L_Coll[t] <= L_Coll'[t] /\ L_YUSDDebt[t] <= L_YUSDDebt'[t]
  <1>1. \A t \in Tokens : /\ L_Coll[t] \in Nat /\ L_YUSDDebt[t] \in Nat
                          /\ lastCollError[t] \in Nat /\ lastYUSDDebtError[t] \in Nat
                          /\ totalStakes[t] \in Nat /\ c[t] \in Nat
    BY DEF PoolTypeOK, Colls
  <1>2. CASE d = 0
    <2>1. UNCHANGED <<L_Coll, L_YUSDDebt, lastCollError, lastYUSDDebtError>>
      BY <1>2 DEF Redistribute, rewardVars
    <2> QED
      BY <1>1, <2>1 DEF PoolTypeOK
  <1>3. CASE d # 0
    <2> DEFINE total == VC(price, c)
               num(t) == c[t] * DP + lastCollError[t]
               debtNum(t) == ((ValueVC(price, t, c[t]) * d) \div total) * DP + lastYUSDDebtError[t]
               shared(t) == c[t] # 0 /\ totalStakes[t] # 0
    <2>1. /\ c # NoColls => total # 0
          /\ L_Coll' = [t \in Tokens |->
               IF shared(t) THEN L_Coll[t] + num(t) \div totalStakes[t] ELSE L_Coll[t]]
          /\ lastCollError' = [t \in Tokens |->
               IF shared(t) THEN num(t) % totalStakes[t] ELSE lastCollError[t]]
          /\ L_YUSDDebt' = [t \in Tokens |->
               IF shared(t) THEN L_YUSDDebt[t] + debtNum(t) \div totalStakes[t] ELSE L_YUSDDebt[t]]
          /\ lastYUSDDebtError' = [t \in Tokens |->
               IF shared(t) THEN debtNum(t) % totalStakes[t] ELSE lastYUSDDebtError[t]]
      BY <1>3 DEF Redistribute
    <2>2. ASSUME NEW t \in Tokens, shared(t)
          PROVE  /\ num(t) \div totalStakes[t] \in Nat /\ num(t) % totalStakes[t] \in Nat
                 /\ debtNum(t) \div totalStakes[t] \in Nat /\ debtNum(t) % totalStakes[t] \in Nat
      <3>1. total \in Nat \ {0} /\ totalStakes[t] \in Nat \ {0}
        <4>1. c # NoColls
          BY <2>2 DEF NoColls
        <4> QED
          BY <1>1, <2>1, <2>2, <4>1, VCType DEF PoolTypeOK
      <3>2. num(t) \in Nat
        BY <1>1, ScaleAssumption
      <3>3. debtNum(t) \in Nat
        <4>1. ValueVC(price, t, c[t]) \in Nat
          BY <1>1, ValueVCType
        <4>2. ValueVC(price, t, c[t]) * d \in Nat
          BY <4>1
        <4> HIDE DEF total
        <4>3. (ValueVC(price, t, c[t]) * d) \div total \in Nat
          BY <3>1, <4>2, FloorFits
        <4> QED
          BY <1>1, <4>3, ScaleAssumption
      <3> HIDE DEF num, debtNum
      <3> QED
        BY <3>1, <3>2, <3>3, FloorFits
    <2> HIDE DEF num, debtNum, shared
    <2>3. ASSUME NEW t \in Tokens
          PROVE  /\ L_Coll'[t] \in Nat /\ L_YUSDDebt'[t] \in Nat
                 /\ lastCollError'[t] \in Nat /\ lastYUSDDebtError'[t] \in Nat
                 /\ L_Coll[t] <= L_Coll'[t] /\ L_YUSDDebt[t] <= L_YUSDDebt'[t]
      BY <1>1, <2>1, <2>2
    <2>4. /\ L_Coll' = [t \in Tokens |-> L_Coll'[t]] /\ L_YUSDDebt' = [t \in Tokens |-> L_YUSDDebt'[t]]
          /\ lastCollError' = [t \in Tokens |-> lastCollError'[t]]
          /\ lastYUSDDebtError' = [t \in Tokens |-> lastYUSDDebtError'[t]]
      BY <2>1
    <2> QED
      BY <2>3, <2>4 DEF Colls
  <1> QED
    BY <1>2, <1>3

LEMMA FinishLiquidationTypes ==
  ASSUME AllInv, FinishLiquidation
  PROVE  TypesInv'
  <1> USE DEF AllInv, TypesInv
  <1> DEFINE v == tx.totals
             redistColl == RedistributedColl(v)
             leaves == SumColls(SumColls(v.toSP, v.toSurplus), redistColl)
  <1>1. /\ tx.kind = "liquidation" /\ tx' = NoTx
        /\ Redistribute(v.redistribute, v.toRedist)
        /\ defaultColl' = SumColls(defaultColl, redistColl)
        /\ surplusColl' = SumColls(surplusColl, v.toSurplus)
        /\ Covers(activeColl, SumColls(leaves, v.gas))
        /\ activeColl' = Unwrapped(SubColls(activeColl, leaves), v.gas, {})
        /\ outside' = SumColls(SumColls(outside, v.toSP), v.gas)
    BY DEF FinishLiquidation
  <1>2. /\ totalStakesSnapshot' = [t \in Tokens |->
             IF v.gas[t] # 0 THEN totalStakes[t] ELSE totalStakesSnapshot[t]]
        /\ totalCollateralSnapshot' = [t \in Tokens |->
             IF v.gas[t] # 0 THEN activeColl[t] - leaves[t] - v.gas[t] + defaultColl'[t]
             ELSE totalCollateralSnapshot[t]]
        /\ UNCHANGED <<troveVars, stakeVars, snapshotVars, listVars, surplus, price, liquidations>>
    BY DEF FinishLiquidation
  <1>3. v \in [offset : Nat, redistribute : Nat, toSP : Colls, toRedist : Colls,
               toSurplus : Colls, gas : Colls]
    BY <1>1, LiquidationFields DEF TxInv
  <1>4. v.redistribute \in Nat /\ v.toSP \in Colls /\ v.toRedist \in Colls /\ v.toSurplus \in Colls
        /\ v.gas \in Colls /\ redistColl \in Colls
    BY <1>3, NoCollsType DEF RedistributedColl
  <1> HIDE DEF v, redistColl
  <1>5. leaves \in Colls
    BY <1>4, SumCollsType
  <1> HIDE DEF leaves
  <1>6. ASSUME NEW t \in Tokens
        PROVE  /\ activeColl[t] \in Nat /\ leaves[t] \in Nat /\ v.gas[t] \in Nat
               /\ leaves[t] + v.gas[t] <= activeColl[t]
    BY <1>1, <1>4, <1>5 DEF PoolTypeOK, Covers, SumColls, Colls
  <1>7. Covers(activeColl, leaves)
    BY <1>6 DEF Covers
  <1>8. Covers(SubColls(activeColl, leaves), v.gas)
    BY <1>6 DEF Covers, SubColls
  <1>9. activeColl' \in Colls
    BY <1>1, <1>7, <1>8, SubCollsType, UnwrappedType DEF PoolTypeOK
  <1>10. defaultColl' \in Colls /\ surplusColl' \in Colls /\ outside' \in Colls
    BY <1>1, <1>4, SumCollsType DEF PoolTypeOK
  <1>11. totalStakesSnapshot' \in Colls
    BY <1>2 DEF PoolTypeOK, Colls
  <1>12. totalCollateralSnapshot' \in Colls
    <2>1. ASSUME NEW t \in Tokens
          PROVE  (IF v.gas[t] # 0 THEN activeColl[t] - leaves[t] - v.gas[t] + defaultColl'[t]
                  ELSE totalCollateralSnapshot[t]) \in Nat
      <3>1. defaultColl'[t] \in Nat /\ totalCollateralSnapshot[t] \in Nat
        BY <1>10 DEF PoolTypeOK, Colls
      <3> QED
        BY <1>6, <3>1
    <2> QED
      BY <1>2, <2>1 DEF Colls
  <1>13. /\ L_Coll' \in Colls /\ L_YUSDDebt' \in Colls
         /\ lastCollError' \in Colls /\ lastYUSDDebtError' \in Colls
         /\ \A t \in Tokens : L_Coll[t] <= L_Coll'[t] /\ L_YUSDDebt[t] <= L_YUSDDebt'[t]
    BY <1>1, <1>4, RedistributeTypes
  <1>14. TroveTypeOK'
    BY <1>2 DEF TroveTypeOK, troveVars, stakeVars, snapshotVars, listVars
  <1>15. PoolTypeOK'
    <2>1. totalStakes' = totalStakes /\ price' = price /\ liquidations' = liquidations
      BY <1>2 DEF stakeVars
    <2> QED
      BY <1>9, <1>10, <1>11, <1>12, <1>13, <2>1 DEF PoolTypeOK
  <1>16. SnapshotsBehind'
    <2> SUFFICES ASSUME NEW b \in Borrowers, NEW t \in Tokens
                 PROVE  collSnapshots'[b][t] <= L_Coll'[t] /\ debtSnapshots'[b][t] <= L_YUSDDebt'[t]
      BY DEF SnapshotsBehind
    <2>1. collSnapshots' = collSnapshots /\ debtSnapshots' = debtSnapshots
      BY <1>2 DEF snapshotVars
    <2>2. /\ collSnapshots[b][t] \in Nat /\ debtSnapshots[b][t] \in Nat
          /\ L_Coll[t] \in Nat /\ L_YUSDDebt[t] \in Nat /\ L_Coll'[t] \in Nat /\ L_YUSDDebt'[t] \in Nat
          /\ collSnapshots[b][t] <= L_Coll[t] /\ debtSnapshots[b][t] <= L_YUSDDebt[t]
      BY <1>13 DEF TroveTypeOK, PoolTypeOK, SnapshotsBehind, Colls
    <2> QED
      BY <1>13, <2>1, <2>2
  <1>17. ListInv'
    BY <1>2, QuietList DEF troveVars, listVars
  <1> QED
    BY <1>1, <1>14, <1>15, <1>16, <1>17, IdleTx
-----------------------------------------------------------------------------
(* Redemptions.                                                            *)

\* The trove before an open one is another open trove.
LEMMA PrevIsOpen ==
  ASSUME ListInv, NEW b \in Active
  PROVE  Prev(b) = NoTrove \/ Prev(b) \in Active \ {b}
  <1> DEFINE i == Place(sortedTroves, b)
  <1>1. i \in 1..Len(sortedTroves) /\ sortedTroves[i] = b /\ Len(sortedTroves) \in Nat
    BY PlaceIs, LenProperties DEF ListInv
  <1>2. Prev(b) = IF i = 1 THEN NoTrove ELSE sortedTroves[i - 1]
    BY DEF Prev, PositionOf
  <1> HIDE DEF i
  <1>3. CASE i # 1
    <2>1. i - 1 \in 1..Len(sortedTroves) /\ i - 1 # i
      BY <1>1, <1>3
    <2>2. sortedTroves[i - 1] # b /\ sortedTroves[i - 1] \in Active
      BY <1>1, <2>1 DEF ListInv, Injective, Elems
    <2> QED
      BY <1>2, <1>3, <2>2
  <1> QED
    BY <1>2, <1>3

LEMMA BeginRedemptionTypes ==
  ASSUME AllInv, NEW amount \in Redemptions, NEW b, BeginRedemption(amount, b)
  PROVE  TypesInv'
  <1> USE DEF AllInv, TypesInv
  <1>1. /\ tx' = Redemption(b, amount, 0, NoColls)
        /\ b \in Active /\ amount \in Nat
        /\ UNCHANGED <<troveVars, stakeVars, snapshotVars, listVars, systemSnapshotVars, rewardVars,
                       activeVars, defaultVars, surplusVars, outside, price, liquidations>>
    BY InputAssumption DEF BeginRedemption, ValidFirstHint
  <1>2. TxInv'
    <2>1. tx' \in TxTypes
      BY <1>1, NoCollsType DEF TxTypes, Redemption, Active
    <2>2. status'[tx'.current] = "active"
      BY <1>1 DEF Redemption, Active, troveVars
    <2> QED
      BY <2>1, <2>2 DEF TxInv, RedemptionMeetsOpenTroves
  <1>3. TroveTypeOK'
    BY <1>1 DEF TroveTypeOK, troveVars, stakeVars, snapshotVars, listVars, surplusVars
  <1>4. PoolTypeOK'
    BY <1>1 DEF PoolTypeOK, stakeVars, systemSnapshotVars, rewardVars, activeVars, defaultVars,
                surplusVars
  <1>5. SnapshotsBehind' /\ ListInv'
    BY <1>1, QuietList DEF SnapshotsBehind, snapshotVars, rewardVars, troveVars, listVars
  <1> QED
    BY <1>2, <1>3, <1>4, <1>5

LEMMA ReduceTroveTypes ==
  ASSUME AllInv, NEW b \in Borrowers, b \in Active, NEW c \in Colls, NEW left \in Colls,
         NEW new \in Nat, NEW collOut \in Colls, NEW debtOut,
         ReduceTrove(b, c, left, new, collOut, debtOut),
         UNCHANGED <<systemSnapshotVars, rewardVars, price, liquidations>>, outside' \in Colls
  PROVE  /\ TroveTypeOK' /\ PoolTypeOK' /\ SnapshotsBehind' /\ ListInv'
         /\ Active \ {b} \subseteq Active'
  <1> USE DEF AllInv, TypesInv
  <1> DEFINE coll == SumColls(activeColl, AppliedColl(b))
  <1>1. /\ CanMovePending(AppliedDebt(b), AppliedColl(b))
        /\ defaultColl' = SubColls(defaultColl, AppliedColl(b))
    BY DEF ReduceTrove
  <1>2. AppliedColl(b) \in Colls /\ coll \in Colls /\ defaultColl' \in Colls
    BY <1>1, EntireTypes, MovedTypes DEF CanMovePending
  <1>3. UNCHANGED <<totalStakesSnapshot, totalCollateralSnapshot, L_Coll, L_YUSDDebt,
                    lastCollError, lastYUSDDebtError, price, liquidations>>
    BY DEF systemSnapshotVars, rewardVars
  <1>4. CASE new = GasCompensation
    <2>1. /\ RemoveStake(b, AppliedTokens(b))
          /\ CloseAs(b, "closedByRedemption")
          /\ surplus' = [surplus EXCEPT ![b] = SumColls(@, left)]
          /\ surplusColl' = SumColls(surplusColl, left)
          /\ Covers(coll, SumColls(left, collOut))
          /\ activeColl' = Unwrapped(SubColls(coll, left), collOut, {})
      BY <1>4 DEF ReduceTrove
    <2> HIDE DEF coll
    <2>2. /\ oldICR' \in [Borrowers -> Nat]
          /\ colls' \in [Borrowers -> Colls]
          /\ collTokens' \in [Borrowers -> SUBSET Tokens]
          /\ collSnapshots' \in [Borrowers -> Colls] /\ debtSnapshots' \in [Borrowers -> Colls]
          /\ ListInv' /\ Active' = Active \ {b}
      BY <2>1, CloseAsTypes DEF ReservesInv, Statuses
    <2>3. stakes' \in [Borrowers -> Colls] /\ totalStakes' \in Colls
      BY <2>1, RemoveStakeTypes
    <2>4. surplus' \in [Borrowers -> Colls] /\ surplusColl' \in Colls
      <3>1. surplus[b] \in Colls /\ SumColls(surplus[b], left) \in Colls
        BY SumCollsType DEF TroveTypeOK
      <3> QED
        BY <2>1, <3>1, SumCollsType DEF TroveTypeOK, PoolTypeOK
    <2>5. activeColl' \in Colls
      <3>1. ASSUME NEW t \in Tokens
            PROVE  left[t] \in Nat /\ collOut[t] \in Nat /\ coll[t] \in Nat
                   /\ left[t] + collOut[t] <= coll[t]
        BY <1>2, <2>1 DEF Covers, SumColls, Colls
      <3>2. Covers(coll, left)
        BY <3>1 DEF Covers
      <3>3. Covers(SubColls(coll, left), collOut)
        BY <3>1 DEF Covers, SubColls
      <3> QED
        BY <1>2, <2>1, <3>2, <3>3, SubCollsType, UnwrappedType
    <2>6. TroveTypeOK'
      BY <2>2, <2>3, <2>4 DEF TroveTypeOK
    <2>7. PoolTypeOK'
      BY <1>2, <1>3, <2>3, <2>4, <2>5 DEF PoolTypeOK
    <2>8. SnapshotsBehind'
      BY <1>3, <2>1, CloseSnapshots
    <2> QED
      BY <2>2, <2>6, <2>7, <2>8
  <1>5. CASE new # GasCompensation
    <2> DEFINE icr == ComputeCR(VC(price, left), new)
    <2>1. /\ PlaceTrove(b, icr)
          /\ colls' = [colls EXCEPT ![b] = left]
          /\ collTokens' = [collTokens EXCEPT ![b] = Support(c)]
          /\ AppliedSnapshots(b)
          /\ CanStake(b, Support(c)) /\ UpdateStake(b, Support(c), left)
          /\ Covers(coll, collOut) /\ activeColl' = Unwrapped(coll, collOut, {})
          /\ UNCHANGED <<status, surplus, surplusColl>>
      BY <1>5 DEF ReduceTrove, surplusVars
    <2>2. icr \in Nat
      BY VCType, ComputeCRType DEF PoolTypeOK
    <2> HIDE DEF coll, icr
    <2>3. Active' = Active \cup {b} /\ Active' = Active
      BY <2>1 DEF Active
    <2>4. oldICR' \in [Borrowers -> Nat] /\ ListInv'
      BY <2>1, <2>2, <2>3, PlaceTroveList
    <2>5. stakes' \in [Borrowers -> Colls] /\ totalStakes' \in Colls
      BY <2>1, UpdateStakeTypes
    <2>6. /\ collSnapshots' \in [Borrowers -> Colls] /\ debtSnapshots' \in [Borrowers -> Colls]
          /\ SnapshotsBehind'
      BY <1>3, <2>1, AppliedSnapshotsTypes
    <2>7. activeColl' \in Colls
      BY <1>2, <2>1, UnwrappedType
    <2>8. TroveTypeOK'
      BY <2>1, <2>4, <2>5, <2>6 DEF TroveTypeOK, Support
    <2>9. PoolTypeOK'
      BY <1>2, <1>3, <2>1, <2>5, <2>7 DEF PoolTypeOK
    <2> QED
      BY <2>3, <2>4, <2>6, <2>8, <2>9
  <1> QED
    BY <1>4, <1>5

\* The running redemption goes on to a trove that is still open.
LEMMA RedemptionGoesOn ==
  ASSUME TxInv, NEW next, next = NoTrove \/ next \in Active', NEW remaining \in Nat,
         NEW redeemed \in Nat, NEW drawn \in Colls,
         tx' = Redemption(next, remaining, redeemed, drawn)
  PROVE  TxInv'
  <1>1. next = NoTrove \/ (next \in Borrowers /\ status'[next] = "active")
    BY DEF Active
  <1>2. tx' \in TxTypes
    BY <1>1 DEF TxTypes, Redemption
  <1>3. tx'.current = next
    BY DEF Redemption
  <1> QED
    BY <1>1, <1>2, <1>3 DEF TxInv, RedemptionMeetsOpenTroves

\* The trove whose turn it is, and what is cut from it.
LEMMA CurrentTrove ==
  ASSUME AllInv, NEW b \in Borrowers, tx.kind = "redemption", tx.current = b
  PROVE  b \in Active
  <1>1. b # NoTrove
    BY InputAssumption
  <1> QED
    BY <1>1 DEF AllInv, TypesInv, TxInv, RedemptionMeetsOpenTroves, Active

LEMMA CutType ==
  ASSUME PoolTypeOK, NEW c \in Colls, NEW lot \in Nat, CanCut(lot, c)
  PROVE  Cut(lot, c) \in Colls /\ SubColls(c, Cut(lot, c)) \in Colls
  <1>1. Covers(c, Cut(lot, c))
    BY DEF CanCut
  <1>2. Cut(lot, c) \in Colls
    <2>1. ASSUME NEW t \in Tokens PROVE Cut(lot, c)[t] \in Nat
      BY <1>1 DEF Covers, Colls
    <2>2. Cut(lot, c) = [t \in Tokens |-> Cut(lot, c)[t]]
      BY DEF Cut
    <2> QED
      BY <2>1, <2>2 DEF Colls
  <1> QED
    BY <1>1, <1>2, SubCollsType

LEMMA RedeemFromTroveTypes ==
  ASSUME AllInv, NEW b \in Borrowers, RedeemFromTrove(b)
  PROVE  TypesInv'
  <1> USE DEF AllInv, TypesInv
  <1> DEFINE d == debt[b] + AppliedDebt(b)
             c == EntireColl(b)
             lot == Smaller(tx.remaining, d - GasCompensation)
             cut == Cut(lot, c)
             left == SubColls(c, cut)
             new == d - lot
  <1>1. /\ tx.kind = "redemption" /\ tx.current = b
        /\ GasCompensation <= d
        /\ CanCut(lot, c)
        /\ ReduceTrove(b, c, left, new, NoColls, 0)
        /\ tx' = Redemption(Prev(b), tx.remaining - lot, tx.redeemed + lot, SumColls(tx.drawn, cut))
        /\ UNCHANGED <<systemSnapshotVars, rewardVars, price, liquidations>>
        /\ outside' = outside
    BY DEF RedeemFromTrove
  <1>2. tx.remaining \in Nat /\ tx.redeemed \in Nat /\ tx.drawn \in Colls
    BY <1>1, RedemptionFields DEF TxInv
  <1>3. d \in Nat /\ c \in Colls
    BY EntireTypes
  <1> HIDE DEF d, c
  <1>4. lot \in Nat /\ new \in Nat /\ lot <= tx.remaining
    BY <1>1, <1>2, <1>3, ScaleAssumption DEF Smaller
  <1> HIDE DEF lot, new
  <1>5. cut \in Colls /\ left \in Colls
    BY <1>1, <1>3, <1>4, CutType
  <1> HIDE DEF cut, left
  <1>6. b \in Active
    BY <1>1, CurrentTrove
  <1>7. /\ TroveTypeOK' /\ PoolTypeOK' /\ SnapshotsBehind' /\ ListInv'
        /\ Active \ {b} \subseteq Active'
    <2>1. outside' \in Colls /\ NoColls \in Colls
      BY <1>1, NoCollsType DEF PoolTypeOK
    <2> QED
      BY <1>1, <1>3, <1>4, <1>5, <1>6, <2>1, ReduceTroveTypes
  <1>8. Prev(b) = NoTrove \/ Prev(b) \in Active'
    BY <1>6, <1>7, PrevIsOpen
  <1>9. tx.remaining - lot \in Nat /\ tx.redeemed + lot \in Nat /\ SumColls(tx.drawn, cut) \in Colls
    BY <1>2, <1>4, <1>5, SumCollsType
  <1>10. TxInv'
    BY <1>1, <1>8, <1>9, RedemptionGoesOn
  <1> QED
    BY <1>7, <1>10

LEMMA RedeemSingleTypes ==
  ASSUME AllInv, NEW b \in Borrowers, NEW t \in Tokens, NEW amount \in Redemptions,
         RedeemSingle(b, t, amount)
  PROVE  TypesInv'
  <1> USE DEF AllInv, TypesInv
  <1> DEFINE d == debt[b] + AppliedDebt(b)
             c == EntireColl(b)
             worth == ValueUSD(price, t, c[t])
             lot == Smaller(worth, Smaller(amount, d - GasCompensation))
             cut == [NoColls EXCEPT ![t] = (lot * c[t]) \div worth]
             left == SubColls(c, cut)
             new == d - lot
  <1>1. /\ tx = NoTx /\ tx' = tx
        /\ b \in Active
        /\ GasCompensation <= d /\ amount \in Nat
        /\ worth # 0
        /\ Covers(c, cut)
        /\ ReduceTrove(b, c, left, new, cut, lot)
        /\ outside' = SumColls(outside, cut)
        /\ UNCHANGED <<systemSnapshotVars, rewardVars, price, liquidations>>
    BY InputAssumption DEF RedeemSingle, ValidFirstHint
  <1>2. d \in Nat /\ c \in Colls
    BY EntireTypes
  <1> HIDE DEF d, c
  <1>3. worth \in Nat \ {0}
    <2>1. price \in [Tokens -> Prices] /\ c[t] \in Nat
      BY <1>2 DEF PoolTypeOK, Colls
    <2> QED
      BY <1>1, <2>1, ValueUSDType
  <1> HIDE DEF worth
  <1>4. lot \in Nat /\ new \in Nat
    BY <1>1, <1>2, <1>3, ScaleAssumption DEF Smaller
  <1> HIDE DEF lot, new
  <1>5. cut \in Colls /\ left \in Colls
    <2>1. ASSUME NEW u \in Tokens PROVE cut[u] \in Nat
      BY <1>1, <1>2 DEF Covers, Colls
    <2>2. cut = [u \in Tokens |-> cut[u]]
      BY DEF NoColls
    <2> HIDE DEF cut
    <2>3. cut \in Colls
      BY <2>1, <2>2 DEF Colls
    <2> QED
      BY <1>1, <1>2, <2>3, SubCollsType
  <1> HIDE DEF cut, left
  <1>6. outside' \in Colls
    BY <1>1, <1>5, SumCollsType DEF PoolTypeOK
  <1>7. TroveTypeOK' /\ PoolTypeOK' /\ SnapshotsBehind' /\ ListInv'
    BY <1>1, <1>2, <1>4, <1>5, <1>6, ReduceTroveTypes
  <1> QED
    BY <1>1, <1>7, IdleTx

LEMMA CancelPartialTypes ==
  ASSUME AllInv, NEW b \in Borrowers, CancelPartial(b)
  PROVE  TypesInv'
  <1> USE DEF AllInv, TypesInv
  <1>1. /\ tx.kind = "redemption"
        /\ CanMovePending(AppliedDebt(b), AppliedColl(b))
        /\ defaultColl' = SubColls(defaultColl, AppliedColl(b))
        /\ activeColl' = SumColls(activeColl, AppliedColl(b))
        /\ colls' = [colls EXCEPT ![b] = SumColls(@, AppliedColl(b))]
        /\ collTokens' = [collTokens EXCEPT ![b] = AppliedTokens(b)]
        /\ AppliedSnapshots(b)
        /\ tx' = Redemption(NoTrove, tx.remaining, tx.redeemed, tx.drawn)
    BY DEF CancelPartial
  <1>2. UNCHANGED <<status, stakeVars, listVars, systemSnapshotVars, rewardVars, surplusVars,
                    outside, price, liquidations>>
    BY DEF CancelPartial
  <1>3. AppliedColl(b) \in Colls /\ SumColls(colls[b], AppliedColl(b)) \in Colls
    BY EntireTypes
  <1>4. activeColl' \in Colls /\ defaultColl' \in Colls
    BY <1>1, <1>3, MovedTypes DEF CanMovePending
  <1>5. /\ collSnapshots' \in [Borrowers -> Colls] /\ debtSnapshots' \in [Borrowers -> Colls]
        /\ SnapshotsBehind'
    BY <1>1, <1>2, AppliedSnapshotsTypes DEF rewardVars
  <1>6. AppliedTokens(b) \in SUBSET Tokens
    BY DEF AppliedTokens, Support, TroveTypeOK
  <1>7. TroveTypeOK'
    <2>1. UNCHANGED <<stakes, oldICR, surplus>>
      BY <1>2 DEF stakeVars, listVars, surplusVars
    <2> QED
      BY <1>1, <1>3, <1>5, <1>6, <2>1 DEF TroveTypeOK
  <1>8. PoolTypeOK'
    BY <1>2, <1>4 DEF PoolTypeOK, stakeVars, systemSnapshotVars, rewardVars, surplusVars
  <1>9. ListInv'
    BY <1>2, QuietList DEF listVars
  <1>10. TxInv'
    <2>1. tx.remaining \in Nat /\ tx.redeemed \in Nat /\ tx.drawn \in Colls
      BY <1>1, RedemptionFields DEF TxInv
    <2> QED
      BY <1>1, <2>1, RedemptionGoesOn
  <1> QED
    BY <1>5, <1>7, <1>8, <1>9, <1>10

LEMMA SkipTroveTypes ==
  ASSUME AllInv, NEW b \in Borrowers, SkipTrove(b)
  PROVE  TypesInv'
  <1> USE DEF AllInv, TypesInv
  <1>1. /\ tx.kind = "redemption" /\ tx.current = b
        /\ tx' = Redemption(Prev(b), tx.remaining, tx.redeemed, tx.drawn)
        /\ UNCHANGED <<troveVars, stakeVars, snapshotVars, listVars, systemSnapshotVars, rewardVars,
                       activeVars, defaultVars, surplusVars, outside, price, liquidations>>
    BY DEF SkipTrove
  <1>2. TxInv'
    <2>1. Prev(b) = NoTrove \/ Prev(b) \in Active
      BY <1>1, CurrentTrove, PrevIsOpen
    <2>2. Active' = Active
      BY <1>1 DEF Active, troveVars
    <2>3. tx.remaining \in Nat /\ tx.redeemed \in Nat /\ tx.drawn \in Colls
      BY <1>1, RedemptionFields DEF TxInv
    <2> QED
      BY <1>1, <2>1, <2>2, <2>3, RedemptionGoesOn
  <1>3. TroveTypeOK'
    BY <1>1 DEF TroveTypeOK, troveVars, stakeVars, snapshotVars, listVars, surplusVars
  <1>4. PoolTypeOK'
    BY <1>1 DEF PoolTypeOK, stakeVars, systemSnapshotVars, rewardVars, activeVars, defaultVars,
                surplusVars
  <1>5. SnapshotsBehind' /\ ListInv'
    BY <1>1, QuietList DEF SnapshotsBehind, snapshotVars, rewardVars, troveVars, listVars
  <1> QED
    BY <1>2, <1>3, <1>4, <1>5

LEMMA FinishRedemptionTypes ==
  ASSUME AllInv, FinishRedemption
  PROVE  TypesInv'
  <1> USE DEF AllInv, TypesInv
  <1>1. /\ tx.kind = "redemption" /\ tx' = NoTx
        /\ Covers(activeColl, tx.drawn)
        /\ activeColl' = Unwrapped(activeColl, tx.drawn, {})
        /\ outside' = SumColls(outside, tx.drawn)
        /\ UNCHANGED <<troveVars, stakeVars, snapshotVars, listVars, systemSnapshotVars, rewardVars,
                       defaultVars, surplusVars, price, liquidations>>
    BY DEF FinishRedemption
  <1>2. tx.drawn \in Colls
    BY <1>1, RedemptionFields DEF TxInv
  <1>3. activeColl' \in Colls /\ outside' \in Colls
    BY <1>1, <1>2, UnwrappedType, SumCollsType DEF PoolTypeOK
  <1>4. TroveTypeOK'
    BY <1>1 DEF TroveTypeOK, troveVars, stakeVars, snapshotVars, listVars, surplusVars
  <1>5. PoolTypeOK'
    BY <1>1, <1>3 DEF PoolTypeOK, stakeVars, systemSnapshotVars, rewardVars, defaultVars, surplusVars
  <1>6. SnapshotsBehind' /\ ListInv'
    BY <1>1, QuietList DEF SnapshotsBehind, snapshotVars, rewardVars, troveVars, listVars
  <1> QED
    BY <1>1, <1>4, <1>5, <1>6, IdleTx
-----------------------------------------------------------------------------
\* A step that changes the YUSD outside the troves, or a price.
LEMMA QuietTypes ==
  ASSUME AllInv, price' \in [Tokens -> Prices],
         UNCHANGED <<troveVars, stakeVars, snapshotVars, listVars, systemSnapshotVars, rewardVars,
                     activeVars, defaultVars, surplusVars, outside, tx, liquidations>>
  PROVE  TypesInv'
  <1> USE DEF AllInv, TypesInv
  <1>1. TxInv'
    BY DEF TxInv, RedemptionMeetsOpenTroves, troveVars
  <1>2. TroveTypeOK'
    BY DEF TroveTypeOK, troveVars, stakeVars, snapshotVars, listVars, surplusVars
  <1>3. PoolTypeOK'
    BY DEF PoolTypeOK, stakeVars, systemSnapshotVars, rewardVars, activeVars, defaultVars, surplusVars
  <1>4. SnapshotsBehind' /\ ListInv'
    BY QuietList DEF SnapshotsBehind, snapshotVars, rewardVars, troveVars, listVars
  <1> QED
    BY <1>1, <1>2, <1>3, <1>4

LEMMA NextTypes == AllInv /\ [Next]_vars => TypesInv'
  <1> SUFFICES ASSUME AllInv, [Next]_vars PROVE TypesInv'
    OBVIOUS
  <1>1. CASE \E b \in Borrowers : Borrow(b)
    <2>1. PICK b \in Borrowers : Borrow(b)
      BY <1>1
    <2>2. AdjustColls \cup {NoColls} \subseteq Colls
      BY InputAssumption, NoCollsType
    <2> QED
      BY <2>1, <2>2, OpenTroveTypes, AdjustTroveTypes, CloseTroveTypes, ClaimCollateralTypes,
         UpdateTroveTypes DEF Borrow
  <1>2. CASE \E x \in Deposits : ProvideToSP(x) \/ WithdrawFromSP(x)
    BY <1>2, QuietTypes DEF ProvideToSP, WithdrawFromSP, AllInv, TypesInv, PoolTypeOK
  <1>3. CASE \E t \in Tokens, p \in Prices : SetPrice(t, p)
    BY <1>3, QuietTypes DEF SetPrice, AllInv, TypesInv, PoolTypeOK
  <1>4. CASE Liquidate
    BY <1>4, BeginLiquidationTypes, LiquidateTypes, FinishLiquidationTypes DEF Liquidate
  <1>5. CASE Redeem
    BY <1>5, BeginRedemptionTypes, RedeemFromTroveTypes, CancelPartialTypes, SkipTroveTypes,
       FinishRedemptionTypes, RedeemSingleTypes DEF Redeem
  <1>6. CASE UNCHANGED vars
    BY <1>6, QuietTypes DEF vars, AllInv, TypesInv, PoolTypeOK
  <1> QED
    BY <1>1, <1>2, <1>3, <1>4, <1>5, <1>6 DEF Next

LEMMA AllInvAlways == Spec => []AllInv
  <1>1. Init => AllInv
    BY InitLedger, InitReserves, InitTypes DEF AllInv
  <1>2. AllInv /\ [Next]_vars => AllInv'
    <2>1. ASSUME AllInv, [Next]_vars PROVE AllInv'
      BY <2>1, NextLedger, NextReserves, NextTypes DEF AllInv
    <2> QED
      BY <2>1
  <1> QED
    BY <1>1, <1>2, PTL DEF Spec

\* Every variable keeps its type whatever the constants are: no subtraction
\* of the troves, the pools or a batch that the code makes ends below zero.
THEOREM TypesAlways == Spec => []TypeOK
  <1>1. AllInv => TypeOK
    <2> SUFFICES ASSUME AllInv PROVE TypeOK
      OBVIOUS
    <2>1. /\ status \in [Borrowers -> Statuses] /\ debt \in [Borrowers -> Nat]
          /\ {activeDebt, defaultDebt, spYUSD, circulating, gasPool, liquidations} \subseteq Nat
      BY DEF AllInv, LedgerInv, LedgerTypeOK, ReservesInv, TypesInv, PoolTypeOK
    <2>2. /\ {totalStakes, totalStakesSnapshot, totalCollateralSnapshot, L_Coll, L_YUSDDebt,
              lastCollError, lastYUSDDebtError, activeColl, defaultColl, surplusColl, outside}
               \subseteq Colls
          /\ price \in [Tokens -> Prices]
      BY DEF AllInv, TypesInv, PoolTypeOK
    <2> QED
      BY <2>1, <2>2 DEF TypeOK, AllInv, TypesInv, TroveTypeOK, ListInv, TxInv
  <1> QED
    BY <1>1, AllInvAlways, PTL

\* A redemption never reads a trove that is not in the list any more: the
\* borrower it goes to next was read before the current trove was moved or
\* closed (redeemCollateral's nextUserToCheck).
THEOREM RedemptionsMeetOpenTroves == Spec => []RedemptionMeetsOpenTroves
  <1>1. AllInv => RedemptionMeetsOpenTroves
    BY DEF AllInv, TypesInv, TxInv
  <1> QED
    BY <1>1, AllInvAlways, PTL

-----------------------------------------------------------------------------
(* Totals: sums over the borrowers, and how one trove moves them.          *)

DebtSum == SumFunctionOnSet(debt, Borrowers)
StakeOf(t) == [b \in Borrowers |-> stakes[b][t]]
SurplusOf(t) == [b \in Borrowers |-> surplus[b][t]]
StakeSum(t) == SumFunctionOnSet(StakeOf(t), Borrowers)
SurplusSum(t) == SumFunctionOnSet(SurplusOf(t), Borrowers)
InFlightSurplus(t) == IF tx.kind = "liquidation" THEN tx.totals.toSurplus[t] ELSE 0

DebtsTotal == activeDebt = DebtSum + InFlightDebt
StakesTotal == \A t \in Tokens : totalStakes[t] = StakeSum(t)
SurplusTotal == \A t \in Tokens : surplusColl[t] + InFlightSurplus(t) = SurplusSum(t)

LEMMA TotalsMeaning ==
  ASSUME AllInv
  PROVE  /\ DebtsTotal /\ StakesTotal => TotalsMatchTroves
         /\ SurplusTotal => \A t \in Tokens : SurplusPoolCovers(t)
  <1>1. debt = [b \in Borrowers |-> debt[b]]
    BY DEF AllInv, LedgerInv, LedgerTypeOK
  <1>2. Total(LAMBDA b : debt[b]) = DebtSum
    BY <1>1 DEF Total, SumFunction, DebtSum
  <1>3. ASSUME NEW t \in Tokens
        PROVE  Total(LAMBDA b : stakes[b][t]) = StakeSum(t) /\ Total(LAMBDA b : surplus[b][t]) = SurplusSum(t)
    BY DEF Total, SumFunction, StakeSum, SurplusSum, StakeOf, SurplusOf
  <1> QED
    BY <1>2, <1>3 DEF TotalsMatchTroves, DebtsTotal, StakesTotal, SurplusTotal, SurplusPoolCovers,
                      InFlightSurplus

LEMMA DebtSumType ==
  ASSUME LedgerInv
  PROVE  DebtSum \in Nat
  BY SumNat, BorrowersAssumption DEF DebtSum, LedgerInv, LedgerTypeOK

LEMMA DebtSumChanges ==
  ASSUME LedgerInv, NEW b \in Borrowers, NEW d \in Nat, debt' = [debt EXCEPT ![b] = d]
  PROVE  DebtSum' = DebtSum - debt[b] + d
  <1> DEFINE f == debt
             g == [debt EXCEPT ![b] = d]
  <1>1. \A x \in Borrowers : f[x] \in Int /\ g[x] \in Int
    BY DEF LedgerInv, LedgerTypeOK
  <1>2. g[b] = d /\ f[b] = debt[b] /\ \A x \in Borrowers \ {b} : g[x] = f[x]
    BY DEF LedgerInv, LedgerTypeOK
  <1>3. DebtSum = SumFunctionOnSet(f, Borrowers) /\ DebtSum' = SumFunctionOnSet(g, Borrowers)
    BY DEF DebtSum
  <1> HIDE DEF f, g
  <1> QED
    BY <1>1, <1>2, <1>3, BorrowersAssumption, SumUpdate

LEMMA StakeSumChanges ==
  ASSUME TroveTypeOK, TroveTypeOK', NEW b \in Borrowers, NEW t \in Tokens,
         \A x \in Borrowers \ {b} : stakes'[x][t] = stakes[x][t]
  PROVE  StakeSum(t)' = StakeSum(t) - stakes[b][t] + stakes'[b][t]
  <1> DEFINE f == StakeOf(t)
             g == [x \in Borrowers |-> stakes'[x][t]]
  <1>1. \A x \in Borrowers : f[x] \in Int /\ g[x] \in Int
    BY DEF StakeOf, TroveTypeOK, Colls
  <1>2. \A x \in Borrowers \ {b} : g[x] = f[x]
    BY DEF StakeOf
  <1>3. f[b] = stakes[b][t] /\ g[b] = stakes'[b][t]
    BY DEF StakeOf
  <1>4. StakeSum(t) = SumFunctionOnSet(f, Borrowers) /\ StakeSum(t)' = SumFunctionOnSet(g, Borrowers)
    BY DEF StakeSum, StakeOf
  <1> HIDE DEF f, g
  <1> QED
    BY <1>1, <1>2, <1>3, <1>4, BorrowersAssumption, SumUpdate

LEMMA SurplusSumChanges ==
  ASSUME TroveTypeOK, TroveTypeOK', NEW b \in Borrowers, NEW t \in Tokens,
         \A x \in Borrowers \ {b} : surplus'[x][t] = surplus[x][t]
  PROVE  SurplusSum(t)' = SurplusSum(t) - surplus[b][t] + surplus'[b][t]
  <1> DEFINE f == SurplusOf(t)
             g == [x \in Borrowers |-> surplus'[x][t]]
  <1>1. \A x \in Borrowers : f[x] \in Int /\ g[x] \in Int
    BY DEF SurplusOf, TroveTypeOK, Colls
  <1>2. \A x \in Borrowers \ {b} : g[x] = f[x]
    BY DEF SurplusOf
  <1>3. f[b] = surplus[b][t] /\ g[b] = surplus'[b][t]
    BY DEF SurplusOf
  <1>4. SurplusSum(t) = SumFunctionOnSet(f, Borrowers) /\ SurplusSum(t)' = SumFunctionOnSet(g, Borrowers)
    BY DEF SurplusSum, SurplusOf
  <1> HIDE DEF f, g
  <1> QED
    BY <1>1, <1>2, <1>3, <1>4, BorrowersAssumption, SumUpdate

LEMMA SumTypes ==
  ASSUME TroveTypeOK, NEW t \in Tokens
  PROVE  StakeSum(t) \in Nat /\ SurplusSum(t) \in Nat
  <1>1. \A x \in Borrowers : StakeOf(t)[x] \in Nat /\ SurplusOf(t)[x] \in Nat
    BY DEF StakeOf, SurplusOf, TroveTypeOK, Colls
  <1> QED
    BY <1>1, SumNat, BorrowersAssumption DEF StakeSum, SurplusSum

LEMMA InitTotals == Init => DebtsTotal /\ StakesTotal /\ SurplusTotal /\ CollateralConserved
  <1> SUFFICES ASSUME Init PROVE DebtsTotal /\ StakesTotal /\ SurplusTotal /\ CollateralConserved
    OBVIOUS
  <1>1. tx = NoTx /\ tx.kind # "liquidation" /\ tx.kind # "redemption"
    BY DEF Init
  <1>2. DebtsTotal
    <2>1. \A b \in Borrowers : debt[b] = 0
      BY DEF Init, PerBorrower
    <2>2. DebtSum = 0
      BY <2>1, SumZero, BorrowersAssumption DEF DebtSum
    <2>3. activeDebt = 0
      BY DEF Init
    <2> QED
      BY <1>1, <2>2, <2>3 DEF DebtsTotal, InFlightDebt
  <1>3. ASSUME NEW t \in Tokens
        PROVE  /\ totalStakes[t] = StakeSum(t)
               /\ surplusColl[t] + InFlightSurplus(t) = SurplusSum(t)
    <2>1. \A b \in Borrowers : StakeOf(t)[b] = 0 /\ SurplusOf(t)[b] = 0
      BY DEF Init, PerBorrower, NoColls, StakeOf, SurplusOf
    <2>2. StakeSum(t) = 0 /\ SurplusSum(t) = 0
      BY <2>1, SumZero, BorrowersAssumption DEF StakeSum, SurplusSum
    <2>3. totalStakes[t] = 0 /\ surplusColl[t] = 0
      BY DEF Init, NoColls
    <2> QED
      BY <1>1, <2>2, <2>3 DEF InFlightSurplus
  <1>4. CollateralConserved
    <2> SUFFICES ASSUME NEW t \in Tokens \ Wrapped
                 PROVE  activeColl[t] + defaultColl[t] + surplusColl[t] + outside[t] = InitialOutside[t]
      BY DEF CollateralConserved
    <2>1. activeColl[t] = 0 /\ defaultColl[t] = 0 /\ surplusColl[t] = 0 /\ outside = InitialOutside
      BY DEF Init, NoColls
    <2>2. InitialOutside[t] \in Nat
      BY InputAssumption DEF Colls
    <2> QED
      BY <2>1, <2>2
  <1> QED
    BY <1>2, <1>3, <1>4 DEF StakesTotal, SurplusTotal

-----------------------------------------------------------------------------
\* A step that records no debt and changes no total.
LEMMA QuietDebts ==
  ASSUME DebtsTotal, UNCHANGED <<debt, activeDebt>>, InFlightDebt' = InFlightDebt
  PROVE  DebtsTotal'
  BY DEF DebtsTotal, DebtSum

LEMMA QuietStakes ==
  ASSUME StakesTotal, UNCHANGED stakeVars
  PROVE  StakesTotal'
  BY DEF StakesTotal, StakeSum, StakeOf, stakeVars

LEMMA QuietSurplus ==
  ASSUME SurplusTotal, UNCHANGED surplusVars,
         \A t \in Tokens : InFlightSurplus(t)' = InFlightSurplus(t)
  PROVE  SurplusTotal'
  BY DEF SurplusTotal, SurplusSum, SurplusOf, surplusVars

LEMMA SetStakesTotal ==
  ASSUME TroveTypeOK, PoolTypeOK, TroveTypeOK', StakesTotal, NEW b \in Borrowers, NEW ts, NEW new,
         SetStakes(b, ts, new)
  PROVE  StakesTotal'
  <1> SUFFICES ASSUME NEW t \in Tokens PROVE totalStakes'[t] = StakeSum(t)'
    BY DEF StakesTotal
  <1>1. totalStakes[t] = StakeSum(t) /\ StakeSum(t) \in Nat /\ stakes[b][t] \in Nat
        /\ stakes'[b][t] \in Nat
    BY SumTypes DEF StakesTotal, TroveTypeOK, Colls
  <1>2. /\ \A x \in Borrowers \ {b} : stakes'[x] = stakes[x]
        /\ stakes'[b] = [u \in Tokens |-> IF u \in ts THEN new[u] ELSE stakes[b][u]]
    BY DEF SetStakes, TroveTypeOK
  <1>3. StakeSum(t)' = StakeSum(t) - stakes[b][t] + stakes'[b][t]
    BY <1>2, StakeSumChanges
  <1>4. CASE t \in ts
    <2>1. totalStakes'[t] = totalStakes[t] - stakes[b][t] + new[t] /\ stakes'[b][t] = new[t]
      BY <1>2, <1>4 DEF SetStakes
    <2> QED
      BY <1>1, <1>3, <2>1
  <1>5. CASE t \notin ts
    <2>1. totalStakes'[t] = totalStakes[t] /\ stakes'[b][t] = stakes[b][t]
      BY <1>2, <1>5 DEF SetStakes
    <2> QED
      BY <1>1, <1>3, <2>1
  <1> QED
    BY <1>4, <1>5

-----------------------------------------------------------------------------
(* Totals: the invariant, and what one kind of movement does to it.        *)

TotalsInv ==
  DebtsTotal /\ StakesTotal /\ SurplusTotal /\ CollateralConserved /\ BatchTracksDebt

LEMMA InitTotalsInv == Init => TotalsInv
  BY InitTotals DEF TotalsInv, Init, BatchTracksDebt

\* What the unfinished transaction has set apart.
LEMMA InFlightTypes ==
  ASSUME AllInv, NEW t \in Tokens
  PROVE  InFlightDebt \in Nat /\ InFlightSurplus(t) \in Nat
  <1>1. CASE tx.kind = "liquidation"
    <2>1. tx.totals.offset \in Nat /\ tx.totals.redistribute \in Nat /\ tx.totals.toSurplus[t] \in Nat
      BY <1>1, LiquidationFields DEF AllInv, TypesInv, TxInv, Colls
    <2> QED
      BY <1>1, <2>1 DEF InFlightDebt, InFlightSurplus
  <1>2. CASE tx.kind # "liquidation"
    <2>1. tx.kind = "redemption" => tx.redeemed \in Nat
      BY RedemptionFields DEF AllInv, TypesInv, TxInv
    <2> QED
      BY <1>2, <2>1 DEF InFlightDebt, InFlightSurplus
  <1> QED
    BY <1>1, <1>2

LEMMA NothingInFlight ==
  /\ tx = NoTx => InFlightDebt = 0 /\ \A t : InFlightSurplus(t) = 0
  /\ tx' = NoTx => InFlightDebt' = 0 /\ \A t : InFlightSurplus(t)' = 0
  /\ tx.kind = "redemption" => InFlightDebt = tx.redeemed /\ \A t : InFlightSurplus(t) = 0
  /\ tx'.kind = "redemption" => InFlightDebt' = tx'.redeemed /\ \A t : InFlightSurplus(t)' = 0
  BY DEF InFlightDebt, InFlightSurplus

\* One trove's debt becomes d, and ActivePool's counter follows.
LEMMA DebtMoves ==
  ASSUME AllInv, DebtsTotal, NEW b \in Borrowers, NEW d \in Nat, debt' = [debt EXCEPT ![b] = d],
         InFlightDebt' \in Int,
         activeDebt' = activeDebt - InFlightDebt + InFlightDebt' - debt[b] + d
  PROVE  DebtsTotal'
  <1>1. DebtSum' = DebtSum - debt[b] + d
    BY DebtSumChanges DEF AllInv
  <1>2. /\ DebtSum \in Nat /\ activeDebt \in Nat /\ debt[b] \in Nat
        /\ activeDebt = DebtSum + InFlightDebt
    BY DebtSumType DEF DebtsTotal, AllInv, LedgerInv, LedgerTypeOK
  <1>3. InFlightDebt \in Int
    BY <1>2 DEF InFlightDebt, AllInv, LedgerInv, LedgerTypeOK, LiquidationTx, RedemptionTx
  <1> QED
    BY <1>1, <1>2, <1>3 DEF DebtsTotal

\* No trove's debt changes, and ActivePool's counter only by what is in flight.
LEMMA DebtStays ==
  ASSUME AllInv, DebtsTotal, debt' = debt, InFlightDebt' \in Int,
         activeDebt' = activeDebt - InFlightDebt + InFlightDebt'
  PROVE  DebtsTotal'
  <1>1. DebtSum' = DebtSum
    BY DEF DebtSum
  <1>2. /\ DebtSum \in Nat /\ activeDebt \in Nat
        /\ activeDebt = DebtSum + InFlightDebt
    BY DebtSumType DEF DebtsTotal, AllInv, LedgerInv, LedgerTypeOK
  <1>3. InFlightDebt \in Int
    BY <1>2 DEF InFlightDebt, AllInv, LedgerInv, LedgerTypeOK, LiquidationTx, RedemptionTx
  <1> QED
    BY <1>1, <1>2, <1>3 DEF DebtsTotal

LEMMA UpdateStakeTotal ==
  ASSUME AllInv, AllInv', StakesTotal, NEW b \in Borrowers, NEW ts, NEW c,
         UpdateStake(b, ts, c) \/ RemoveStake(b, ts)
  PROVE  StakesTotal'
  BY SetStakesTotal DEF UpdateStake, RemoveStake, AllInv, TypesInv

LEMMA PoolsOf ==
  ASSUME AllInv, NEW t \in Tokens
  PROVE  /\ activeColl[t] \in Nat /\ defaultColl[t] \in Nat /\ surplusColl[t] \in Nat
         /\ outside[t] \in Nat
  BY DEF AllInv, TypesInv, PoolTypeOK, Colls

\* One trove's surplus changes, and CollSurplusPool's counter follows.
LEMMA SurplusMoves ==
  ASSUME AllInv, AllInv', SurplusTotal, NEW b \in Borrowers, NEW x,
         surplus' = [surplus EXCEPT ![b] = x],
         \A t \in Tokens : /\ InFlightSurplus(t)' \in Int
                           /\ surplusColl'[t] + InFlightSurplus(t)'
                                = surplusColl[t] + InFlightSurplus(t) - surplus[b][t] + x[t]
  PROVE  SurplusTotal'
  <1> SUFFICES ASSUME NEW t \in Tokens
               PROVE  surplusColl'[t] + InFlightSurplus(t)' = SurplusSum(t)'
    BY DEF SurplusTotal
  <1>1. \A y \in Borrowers \ {b} : surplus'[y][t] = surplus[y][t]
    BY DEF AllInv, TypesInv, TroveTypeOK
  <1>2. SurplusSum(t)' = SurplusSum(t) - surplus[b][t] + surplus'[b][t]
    BY <1>1, SurplusSumChanges DEF AllInv, TypesInv
  <1>3. surplus'[b] = x
    BY DEF AllInv, TypesInv, TroveTypeOK
  <1>4. surplusColl[t] + InFlightSurplus(t) = SurplusSum(t)
    BY DEF SurplusTotal
  <1>5. SurplusSum(t) \in Nat /\ surplus[b][t] \in Nat /\ surplus'[b][t] \in Nat
    BY SumTypes DEF AllInv, TypesInv, TroveTypeOK, Colls
  <1>6. surplusColl[t] \in Nat /\ InFlightSurplus(t) \in Nat /\ surplusColl'[t] \in Nat
    BY PoolsOf, InFlightTypes DEF AllInv, TypesInv, PoolTypeOK, Colls
  <1> HIDE DEF InFlightSurplus
  <1> QED
    BY <1>2, <1>3, <1>4, <1>5, <1>6

\* Collateral of t is moved between the pools and the outside.
LEMMA CollMoves ==
  ASSUME CollateralConserved,
         \A t \in Tokens \ Wrapped :
           activeColl'[t] + defaultColl'[t] + surplusColl'[t] + outside'[t]
             = activeColl[t] + defaultColl[t] + surplusColl[t] + outside[t]
  PROVE  CollateralConserved'
  BY DEF CollateralConserved

LEMMA CollStays ==
  ASSUME CollateralConserved, UNCHANGED <<activeColl, defaultColl, surplusColl, outside>>
  PROVE  CollateralConserved'
  BY DEF CollateralConserved
-----------------------------------------------------------------------------
LEMMA OpenTroveTotals ==
  ASSUME AllInv, AllInv', TotalsInv, NEW b \in Borrowers, NEW c \in OpenColls, NEW y \in OpenDebts,
         NEW bfee \in BorrowingFees, NEW vfee \in DepositFees,
         OpenTrove(b, c, y, bfee, vfee)
  PROVE  TotalsInv'
  <1> DEFINE d == y + (IF RecoveryMode THEN 0 ELSE bfee) + vfee + GasCompensation
  <1>1. d \in Nat /\ c \in Colls
    BY InputAssumption, ScaleAssumption
  <1>2. /\ tx = NoTx /\ tx' = NoTx
        /\ debt' = [debt EXCEPT ![b] = @ + d]
        /\ activeDebt' = activeDebt + d
        /\ UpdateStake(b, Support(c), c)
        /\ activeColl' = SumColls(activeColl, c)
        /\ outside' = SubColls(outside, c)
        /\ UNCHANGED <<defaultColl, surplus, surplusColl>>
    BY DEF OpenTrove, defaultVars, surplusVars
  <1> HIDE DEF d
  <1>3. DebtsTotal'
    <2> DEFINE new == debt[b] + d
    <2>1. debt[b] \in Nat /\ activeDebt \in Nat
      BY DEF AllInv, LedgerInv, LedgerTypeOK
    <2>2. InFlightDebt = 0 /\ InFlightDebt' = 0 /\ InFlightDebt' \in Int
      BY <1>2, NothingInFlight
    <2>3. new \in Nat /\ debt' = [debt EXCEPT ![b] = new]
          /\ activeDebt' = activeDebt - InFlightDebt + InFlightDebt' - debt[b] + new
      BY <1>1, <1>2, <2>1, <2>2
    <2> HIDE DEF new
    <2> QED
      BY <2>2, <2>3, DebtMoves DEF TotalsInv
  <1>4. StakesTotal'
    BY <1>2, UpdateStakeTotal DEF TotalsInv
  <1>5. SurplusTotal'
    <2>1. \A t \in Tokens : InFlightSurplus(t)' = InFlightSurplus(t)
      BY <1>2, NothingInFlight
    <2> QED
      BY <1>2, <2>1, QuietSurplus DEF TotalsInv, surplusVars
  <1>6. CollateralConserved'
    <2>1. ASSUME NEW t \in Tokens \ Wrapped
          PROVE  activeColl'[t] + defaultColl'[t] + surplusColl'[t] + outside'[t]
                   = activeColl[t] + defaultColl[t] + surplusColl[t] + outside[t]
      BY <1>1, <1>2, PoolsOf DEF SumColls, SubColls, Colls
    <2> QED
      BY <2>1, CollMoves DEF TotalsInv
  <1> QED
    BY <1>2, <1>3, <1>4, <1>5, <1>6 DEF TotalsInv, BatchTracksDebt

-----------------------------------------------------------------------------
(* Totals: the operations of BorrowerOperations.                           *)

LEMMA UnwrappedAt ==
  ASSUME NEW t \in Tokens \ Wrapped, NEW c, NEW d, NEW sold
  PROVE  Unwrapped(c, d, sold)[t] = c[t] - d[t]
  BY DEF Unwrapped

LEMMA AppliedFits ==
  ASSUME AllInv, NEW b \in Borrowers, CanMovePending(AppliedDebt(b), AppliedColl(b))
  PROVE  /\ AppliedDebt(b) \in Nat /\ AppliedColl(b) \in Colls /\ debt[b] \in Nat
         /\ colls[b] \in Colls
         /\ SumColls(colls[b], AppliedColl(b)) \in Colls
         /\ activeDebt \in Nat
  BY EntireTypes DEF AllInv, LedgerInv, LedgerTypeOK, TypesInv, TroveTypeOK

LEMMA AdjustTroveTotals ==
  ASSUME AllInv, AllInv', TotalsInv, NEW b \in Borrowers, NEW cIn \in Colls, NEW cOut \in Colls,
         NEW y \in AdjustDebts \cup {0}, NEW up \in BOOLEAN, NEW bfee \in BorrowingFees,
         NEW vfee \in DepositFees, NEW sold,
         AdjustTrove(b, cIn, cOut, y, up, bfee, vfee, sold)
  PROVE  TotalsInv'
  <1> DEFINE new == SubColls(SumColls(SumColls(colls[b], AppliedColl(b)), cIn), cOut)
             newDebt == AdjustedDebt(b, cIn, y, up, bfee, vfee)
             change == DebtChange(y, up, bfee)
             vf == VariableFee(cIn, vfee)
             pd == AppliedDebt(b)
             ac == AppliedColl(b)
             held == SumColls(SumColls(activeColl, ac), cIn)
  <1>1. /\ tx = NoTx /\ tx' = NoTx
        /\ CanMovePending(pd, ac)
        /\ newDebt >= 0
        /\ debt' = [debt EXCEPT ![b] = newDebt]
        /\ UpdateStake(b, Support(new), new)
        /\ defaultColl' = SubColls(defaultColl, ac)
        /\ activeColl' = Unwrapped(held, cOut, sold)
        /\ outside' = SumColls(SubColls(outside, cIn), cOut)
        /\ activeDebt' = IF up THEN activeDebt + pd + change + vf ELSE activeDebt + pd - y + vf
        /\ UNCHANGED <<surplus, surplusColl>>
    BY DEF AdjustTrove, surplusVars
  <1>2. pd \in Nat /\ ac \in Colls /\ debt[b] \in Nat /\ activeDebt \in Nat
    BY <1>1, AppliedFits
  <1>3. y \in Nat /\ change \in Nat /\ vf \in Nat /\ (~up => change = y)
    BY InputAssumption DEF DebtChange, VariableFee
  <1>4. newDebt = IF up THEN debt[b] + pd + vf + change ELSE debt[b] + pd + vf - change
    BY <1>2, <1>3 DEF AdjustedDebt
  <1> HIDE DEF new, newDebt, change, vf, pd, ac, held
  <1>5. DebtsTotal'
    <2>1. InFlightDebt = 0 /\ InFlightDebt' = 0 /\ InFlightDebt' \in Int
      BY <1>1, NothingInFlight
    <2>2. newDebt \in Nat
      BY <1>1, <1>2, <1>3, <1>4
    <2>3. activeDebt' = activeDebt - InFlightDebt + InFlightDebt' - debt[b] + newDebt
      BY <1>1, <1>2, <1>3, <1>4, <2>1
    <2> QED
      BY <1>1, <2>1, <2>2, <2>3, DebtMoves DEF TotalsInv
  <1>6. StakesTotal'
    BY <1>1, UpdateStakeTotal DEF TotalsInv
  <1>7. SurplusTotal'
    <2>1. \A t \in Tokens : InFlightSurplus(t)' = InFlightSurplus(t)
      BY <1>1, NothingInFlight
    <2> QED
      BY <1>1, <2>1, QuietSurplus DEF TotalsInv, surplusVars
  <1>8. CollateralConserved'
    <2>1. ASSUME NEW t \in Tokens \ Wrapped
          PROVE  activeColl'[t] + defaultColl'[t] + surplusColl'[t] + outside'[t]
                   = activeColl[t] + defaultColl[t] + surplusColl[t] + outside[t]
      <3>1. activeColl'[t] = held[t] - cOut[t] /\ held[t] = activeColl[t] + ac[t] + cIn[t]
        BY <1>1, UnwrappedAt DEF held, SumColls
      <3>2. defaultColl'[t] = defaultColl[t] - ac[t] /\ outside'[t] = outside[t] - cIn[t] + cOut[t]
            /\ surplusColl'[t] = surplusColl[t]
        BY <1>1 DEF SumColls, SubColls
      <3>3. ac[t] \in Nat /\ cIn[t] \in Nat /\ cOut[t] \in Nat
        BY <1>2 DEF Colls
      <3> QED
        BY <3>1, <3>2, <3>3, PoolsOf
    <2> QED
      BY <2>1, CollMoves DEF TotalsInv
  <1> QED
    BY <1>1, <1>5, <1>6, <1>7, <1>8 DEF TotalsInv, BatchTracksDebt

LEMMA CloseTroveTotals ==
  ASSUME AllInv, AllInv', TotalsInv, NEW b \in Borrowers, NEW unlever, NEW sold,
         CloseTrove(b, unlever, sold)
  PROVE  TotalsInv'
  <1> DEFINE pd == AppliedDebt(b)
             ac == AppliedColl(b)
             c == SumColls(colls[b], ac)
             held == SumColls(activeColl, ac)
  <1>1. /\ tx = NoTx /\ tx' = NoTx
        /\ CanMovePending(pd, ac)
        /\ debt' = [debt EXCEPT ![b] = 0]
        /\ RemoveStake(b, AppliedTokens(b))
        /\ defaultColl' = SubColls(defaultColl, ac)
        /\ activeColl' = Unwrapped(held, c, sold)
        /\ outside' = SumColls(outside, c)
        /\ activeDebt' = activeDebt + pd - (debt[b] + pd)
        /\ UNCHANGED <<surplus, surplusColl>>
    BY DEF CloseTrove, CloseAs, surplusVars
  <1>2. pd \in Nat /\ ac \in Colls /\ debt[b] \in Nat /\ activeDebt \in Nat /\ c \in Colls
    BY <1>1, AppliedFits
  <1> HIDE DEF pd, ac, c, held
  <1>3. DebtsTotal'
    <2>1. InFlightDebt = 0 /\ InFlightDebt' = 0 /\ InFlightDebt' \in Int
      BY <1>1, NothingInFlight
    <2>2. activeDebt' = activeDebt - InFlightDebt + InFlightDebt' - debt[b] + 0 /\ 0 \in Nat
      BY <1>1, <1>2, <2>1
    <2> QED
      BY <1>1, <2>1, <2>2, DebtMoves DEF TotalsInv
  <1>4. StakesTotal'
    BY <1>1, UpdateStakeTotal DEF TotalsInv
  <1>5. SurplusTotal'
    <2>1. \A t \in Tokens : InFlightSurplus(t)' = InFlightSurplus(t)
      BY <1>1, NothingInFlight
    <2> QED
      BY <1>1, <2>1, QuietSurplus DEF TotalsInv, surplusVars
  <1>6. CollateralConserved'
    <2>1. ASSUME NEW t \in Tokens \ Wrapped
          PROVE  activeColl'[t] + defaultColl'[t] + surplusColl'[t] + outside'[t]
                   = activeColl[t] + defaultColl[t] + surplusColl[t] + outside[t]
      <3>1. activeColl'[t] = held[t] - c[t] /\ held[t] = activeColl[t] + ac[t]
        BY <1>1, UnwrappedAt DEF held, SumColls
      <3>2. defaultColl'[t] = defaultColl[t] - ac[t] /\ outside'[t] = outside[t] + c[t]
            /\ surplusColl'[t] = surplusColl[t]
        BY <1>1 DEF SumColls, SubColls
      <3>3. ac[t] \in Nat /\ c[t] \in Nat
        BY <1>2 DEF Colls
      <3> QED
        BY <3>1, <3>2, <3>3, PoolsOf
    <2> QED
      BY <2>1, CollMoves DEF TotalsInv
  <1> QED
    BY <1>1, <1>3, <1>4, <1>5, <1>6 DEF TotalsInv, BatchTracksDebt

LEMMA ClaimCollateralTotals ==
  ASSUME AllInv, AllInv', TotalsInv, NEW b \in Borrowers, ClaimCollateral(b)
  PROVE  TotalsInv'
  <1>1. /\ tx = NoTx /\ tx' = NoTx
        /\ surplus' = [surplus EXCEPT ![b] = NoColls]
        /\ surplusColl' = SubColls(surplusColl, surplus[b])
        /\ outside' = SumColls(outside, surplus[b])
        /\ UNCHANGED <<debt, stakeVars, activeColl, activeDebt, defaultColl>>
    BY DEF ClaimCollateral, troveVars, activeVars, defaultVars
  <1>2. ASSUME NEW t \in Tokens
        PROVE  /\ surplus[b][t] \in Nat
               /\ surplusColl'[t] = surplusColl[t] - surplus[b][t]
               /\ outside'[t] = outside[t] + surplus[b][t]
    BY <1>1 DEF AllInv, TypesInv, TroveTypeOK, Colls, SumColls, SubColls
  <1>3. DebtsTotal'
    <2>1. InFlightDebt' = InFlightDebt
      BY <1>1, NothingInFlight
    <2> QED
      BY <1>1, <2>1, QuietDebts DEF TotalsInv
  <1>4. SurplusTotal'
    <2>1. ASSUME NEW t \in Tokens
          PROVE  /\ InFlightSurplus(t)' \in Int
                 /\ surplusColl'[t] + InFlightSurplus(t)'
                      = surplusColl[t] + InFlightSurplus(t) - surplus[b][t] + NoColls[t]
      <3>1. InFlightSurplus(t) = 0 /\ InFlightSurplus(t)' = 0 /\ NoColls[t] = 0
        BY <1>1, NothingInFlight DEF NoColls
      <3> QED
        BY <1>2, <3>1, PoolsOf
    <2> QED
      BY <1>1, <2>1, SurplusMoves DEF TotalsInv
  <1>5. CollateralConserved'
    <2>1. ASSUME NEW t \in Tokens \ Wrapped
          PROVE  activeColl'[t] + defaultColl'[t] + surplusColl'[t] + outside'[t]
                   = activeColl[t] + defaultColl[t] + surplusColl[t] + outside[t]
      BY <1>1, <1>2, PoolsOf
    <2> QED
      BY <2>1, CollMoves DEF TotalsInv
  <1> QED
    BY <1>1, <1>3, <1>4, <1>5, QuietStakes DEF TotalsInv, BatchTracksDebt

\* A step between transactions that moves neither debt nor collateral.
LEMMA QuietTotals ==
  ASSUME TotalsInv, UNCHANGED <<tx, debt, stakeVars, activeVars, defaultVars, surplusVars, outside>>,
         tx.kind # "liquidation" \/ UNCHANGED spYUSD
  PROVE  TotalsInv'
  <1>1. InFlightDebt' = InFlightDebt /\ \A t \in Tokens : InFlightSurplus(t)' = InFlightSurplus(t)
    BY DEF InFlightDebt, InFlightSurplus
  <1>2. DebtsTotal' /\ StakesTotal' /\ SurplusTotal'
    BY <1>1, QuietDebts, QuietStakes, QuietSurplus DEF TotalsInv, activeVars
  <1>3. CollateralConserved'
    BY CollStays DEF TotalsInv, activeVars, defaultVars, surplusVars
  <1>4. BatchTracksDebt'
    BY DEF TotalsInv, BatchTracksDebt, SystemDebt, activeVars, defaultVars
  <1> QED
    BY <1>2, <1>3, <1>4 DEF TotalsInv

-----------------------------------------------------------------------------
(* Totals: the liquidations.                                               *)

LEMMA BeginLiquidationTotals ==
  ASSUME AllInv, AllInv', TotalsInv, BeginLiquidation
  PROVE  TotalsInv'
  <1>1. /\ tx = NoTx /\ tx'.kind = "liquidation"
        /\ tx'.remainingSP = spYUSD /\ tx'.systemDebt = SystemDebt
        /\ tx'.totals = Split(0, 0, NoColls, NoColls, NoColls, NoColls)
        /\ UNCHANGED <<debt, activeDebt, defaultDebt, spYUSD, stakeVars, surplusVars,
                       activeColl, defaultColl, outside>>
    BY DEF BeginLiquidation, troveVars, activeVars, defaultVars
  <1>2. tx'.totals.offset = 0 /\ tx'.totals.redistribute = 0 /\ tx'.totals.toSurplus = NoColls
    BY <1>1 DEF Split
  <1>3. InFlightDebt = 0 /\ InFlightDebt' = 0
        /\ \A t \in Tokens : InFlightSurplus(t)' = InFlightSurplus(t)
    BY <1>1, <1>2, NothingInFlight DEF InFlightDebt, InFlightSurplus, NoColls
  <1>4. DebtsTotal' /\ StakesTotal' /\ SurplusTotal'
    BY <1>1, <1>3, QuietDebts, QuietStakes, QuietSurplus DEF TotalsInv
  <1>5. CollateralConserved'
    BY <1>1, CollStays DEF TotalsInv, surplusVars
  <1>6. BatchTracksDebt'
    <2>1. spYUSD \in Nat /\ SystemDebt \in Nat
      BY DEF SystemDebt, AllInv, LedgerInv, LedgerTypeOK
    <2>2. SystemDebt' = SystemDebt
      BY <1>1 DEF SystemDebt
    <2> HIDE DEF SystemDebt
    <2> QED
      BY <1>1, <1>2, <2>1, <2>2 DEF BatchTracksDebt
  <1> QED
    BY <1>4, <1>5, <1>6 DEF TotalsInv

LEMMA LiquidateAsTotals ==
  ASSUME AllInv, AllInv', TotalsInv, tx.kind = "liquidation", NEW b \in Borrowers, NEW v,
         SplitOf(v, EntireDebt(b), tx.remainingSP), SplitColls(v, EntireColl(b)),
         LiquidateAs(b, v)
  PROVE  TotalsInv'
  <1> DEFINE pd == PendingDebt(b)
             pc == PendingColl(b)
  <1>1. /\ activeDebt' = activeDebt + pd /\ defaultDebt' = defaultDebt - pd
        /\ debt' = [debt EXCEPT ![b] = 0]
        /\ RemoveStake(b, collTokens[b])
        /\ surplus' = [surplus EXCEPT ![b] = SumColls(@, v.toSurplus)]
        /\ activeColl' = SumColls(activeColl, pc) /\ defaultColl' = SubColls(defaultColl, pc)
        /\ UNCHANGED <<surplusColl, spYUSD, outside>>
    BY DEF LiquidateAs, CloseAs
  <1>2. /\ tx'.kind = "liquidation"
        /\ tx'.totals = AddSplit(tx.totals, v)
        /\ tx'.remainingSP = tx.remainingSP - v.offset
        /\ tx'.recovery = (tx.recovery /\ ComputeCR(tx.systemVC - LeavingVC(v), tx.systemDebt - v.offset) < CCR)
        /\ tx'.systemDebt = IF tx.recovery THEN tx.systemDebt - v.offset ELSE tx.systemDebt
    BY DEF LiquidateAs
  <1>3. /\ tx'.totals.offset = tx.totals.offset + v.offset
        /\ tx'.totals.redistribute = tx.totals.redistribute + v.redistribute
        /\ tx'.totals.toSurplus = SumColls(tx.totals.toSurplus, v.toSurplus)
    BY <1>2 DEF AddSplit, Split
  <1>4. /\ tx.remainingSP \in Nat /\ tx.systemDebt \in Nat
        /\ tx.totals.offset \in Nat /\ tx.totals.redistribute \in Nat
        /\ tx.totals.toSurplus \in Colls
    BY LiquidationFields DEF AllInv, TypesInv, TxInv
  <1>5. /\ v.offset \in Nat /\ v.redistribute \in Nat
        /\ v.offset + v.redistribute = debt[b] + pd
        /\ v.toSurplus \in Colls
    BY DEF SplitOf, SplitColls, EntireDebt
  <1>6. /\ pd \in Nat /\ pc \in Colls
        /\ debt[b] \in Nat /\ activeDebt \in Nat /\ defaultDebt \in Nat /\ spYUSD \in Nat
    BY PendingDebtType, PendingCollType DEF AllInv, TypesInv, LedgerInv, LedgerTypeOK
  <1> HIDE DEF pd, pc
  <1>7. DebtsTotal'
    <2>1. /\ InFlightDebt = tx.totals.offset + tx.totals.redistribute
          /\ InFlightDebt' = InFlightDebt + v.offset + v.redistribute
          /\ InFlightDebt \in Nat /\ InFlightDebt' \in Int
      BY <1>2, <1>3, <1>4, <1>5 DEF InFlightDebt
    <2> HIDE DEF InFlightDebt
    <2>2. InFlightDebt' = InFlightDebt + (debt[b] + pd)
      BY <1>5, <2>1
    <2>3. activeDebt' = activeDebt - InFlightDebt + InFlightDebt' - debt[b] + 0 /\ 0 \in Nat
      BY <1>1, <1>6, <2>1, <2>2
    <2> QED
      BY <1>1, <2>1, <2>3, DebtMoves DEF TotalsInv
  <1>8. StakesTotal'
    BY <1>1, UpdateStakeTotal DEF TotalsInv
  <1>9. SurplusTotal'
    <2> DEFINE x == SumColls(surplus[b], v.toSurplus)
    <2>1. surplus' = [surplus EXCEPT ![b] = x]
      BY <1>1 DEF AllInv, TypesInv, TroveTypeOK
    <2>2. ASSUME NEW t \in Tokens
          PROVE  /\ InFlightSurplus(t)' \in Int
                 /\ surplusColl'[t] + InFlightSurplus(t)'
                      = surplusColl[t] + InFlightSurplus(t) - surplus[b][t] + x[t]
      <3>1. /\ surplus[b][t] \in Nat /\ v.toSurplus[t] \in Nat /\ tx.totals.toSurplus[t] \in Nat
            /\ x[t] = surplus[b][t] + v.toSurplus[t]
        BY <1>4, <1>5 DEF AllInv, TypesInv, TroveTypeOK, Colls, SumColls
      <3>2. InFlightSurplus(t)' = tx.totals.toSurplus[t] + v.toSurplus[t]
            /\ InFlightSurplus(t) = tx.totals.toSurplus[t]
        BY <1>2, <1>3 DEF InFlightSurplus, SumColls
      <3>3. surplusColl[t] \in Nat /\ surplusColl'[t] = surplusColl[t]
        BY <1>1, PoolsOf
      <3> HIDE DEF x
      <3> QED
        BY <3>1, <3>2, <3>3
    <2> HIDE DEF x
    <2> QED
      BY <2>1, <2>2, SurplusMoves DEF TotalsInv
  <1>10. CollateralConserved'
    <2>1. ASSUME NEW t \in Tokens \ Wrapped
          PROVE  activeColl'[t] + defaultColl'[t] + surplusColl'[t] + outside'[t]
                   = activeColl[t] + defaultColl[t] + surplusColl[t] + outside[t]
      <3>1. /\ activeColl'[t] = activeColl[t] + pc[t] /\ defaultColl'[t] = defaultColl[t] - pc[t]
            /\ surplusColl'[t] = surplusColl[t] /\ outside'[t] = outside[t] /\ pc[t] \in Nat
        BY <1>1, <1>6 DEF SumColls, SubColls, Colls
      <3> QED
        BY <3>1, PoolsOf
    <2> QED
      BY <2>1, CollMoves DEF TotalsInv
  <1>11. BatchTracksDebt'
    <2>1. /\ tx.totals.offset + tx.remainingSP = spYUSD
          /\ tx.recovery => tx.systemDebt = SystemDebt - tx.totals.offset
      BY DEF TotalsInv, BatchTracksDebt
    <2>2. SystemDebt' = SystemDebt /\ SystemDebt \in Nat
      BY <1>1, <1>6 DEF SystemDebt
    <2>3. tx'.totals.offset + tx'.remainingSP = spYUSD'
      BY <1>1, <1>2, <1>3, <1>4, <1>5, <1>6, <2>1
    <2>4. ASSUME tx'.recovery PROVE tx'.systemDebt = SystemDebt' - tx'.totals.offset
      <3>1. tx.recovery /\ tx'.systemDebt = tx.systemDebt - v.offset
        BY <1>2, <2>4
      <3> HIDE DEF SystemDebt
      <3> QED
        BY <1>3, <1>4, <1>5, <2>1, <2>2, <3>1
    <2> QED
      BY <2>3, <2>4 DEF BatchTracksDebt
  <1> QED
    BY <1>7, <1>8, <1>9, <1>10, <1>11 DEF TotalsInv

LEMMA LiquidateTotals ==
  ASSUME AllInv, AllInv', TotalsInv, NEW b \in Borrowers,
         LiquidateNormalMode(b) \/ LiquidateRecoveryMode(b)
  PROVE  TotalsInv'
  <1>1. /\ tx.kind = "liquidation"
        /\ \E v : /\ LiquidateAs(b, v)
                  /\ SplitOf(v, EntireDebt(b), tx.remainingSP)
                  /\ SplitColls(v, EntireColl(b))
    BY LiquidateTypes
  <1> QED
    BY <1>1, LiquidateAsTotals

LEMMA FinishLiquidationTotals ==
  ASSUME AllInv, AllInv', TotalsInv, FinishLiquidation
  PROVE  TotalsInv'
  <1> DEFINE v == tx.totals
             rc == RedistributedColl(v)
             leaves == SumColls(SumColls(v.toSP, v.toSurplus), rc)
             rest == SubColls(activeColl, leaves)
  <1>1. /\ tx.kind = "liquidation" /\ tx' = NoTx
        /\ activeDebt' = activeDebt - v.offset - v.redistribute
        /\ defaultColl' = SumColls(defaultColl, rc)
        /\ surplusColl' = SumColls(surplusColl, v.toSurplus)
        /\ activeColl' = Unwrapped(rest, v.gas, {})
        /\ outside' = SumColls(SumColls(outside, v.toSP), v.gas)
        /\ UNCHANGED <<debt, stakeVars, surplus>>
    BY DEF FinishLiquidation, troveVars
  <1>2. v \in [offset : Nat, redistribute : Nat, toSP : Colls, toRedist : Colls,
               toSurplus : Colls, gas : Colls]
    BY <1>1, LiquidationFields DEF AllInv, TypesInv, TxInv
  <1>3. v.offset \in Nat /\ v.redistribute \in Nat /\ v.toSP \in Colls
        /\ v.toSurplus \in Colls /\ v.gas \in Colls /\ rc \in Colls
    BY <1>2, NoCollsType DEF RedistributedColl
  <1>4. InFlightDebt = v.offset + v.redistribute /\ InFlightDebt' = 0
        /\ \A t \in Tokens : InFlightSurplus(t) = v.toSurplus[t] /\ InFlightSurplus(t)' = 0
    BY <1>1, NothingInFlight DEF InFlightDebt, InFlightSurplus
  <1> HIDE DEF v, rc, leaves, rest
  <1>5. DebtsTotal'
    <2>1. activeDebt \in Nat
      BY DEF AllInv, LedgerInv, LedgerTypeOK
    <2>2. activeDebt' = activeDebt - InFlightDebt + InFlightDebt' /\ InFlightDebt' \in Int
      BY <1>1, <1>3, <1>4, <2>1
    <2> QED
      BY <1>1, <2>2, DebtStays DEF TotalsInv
  <1>6. SurplusTotal'
    <2> SUFFICES ASSUME NEW t \in Tokens
                 PROVE  surplusColl'[t] + InFlightSurplus(t)' = SurplusSum(t)'
      BY DEF SurplusTotal
    <2>1. SurplusSum(t)' = SurplusSum(t)
      BY <1>1 DEF SurplusSum, SurplusOf
    <2>2. surplusColl[t] + InFlightSurplus(t) = SurplusSum(t)
      BY DEF TotalsInv, SurplusTotal
    <2>3. surplusColl'[t] = surplusColl[t] + v.toSurplus[t] /\ v.toSurplus[t] \in Nat
          /\ surplusColl[t] \in Nat
      BY <1>1, <1>3, PoolsOf DEF SumColls, Colls
    <2> QED
      BY <1>4, <2>1, <2>2, <2>3
  <1>7. CollateralConserved'
    <2>1. ASSUME NEW t \in Tokens \ Wrapped
          PROVE  activeColl'[t] + defaultColl'[t] + surplusColl'[t] + outside'[t]
                   = activeColl[t] + defaultColl[t] + surplusColl[t] + outside[t]
      <3>1. activeColl'[t] = rest[t] - v.gas[t] /\ rest[t] = activeColl[t] - leaves[t]
            /\ leaves[t] = v.toSP[t] + v.toSurplus[t] + rc[t]
        BY <1>1, UnwrappedAt DEF rest, leaves, SumColls, SubColls
      <3>2. /\ defaultColl'[t] = defaultColl[t] + rc[t]
            /\ surplusColl'[t] = surplusColl[t] + v.toSurplus[t]
            /\ outside'[t] = outside[t] + v.toSP[t] + v.gas[t]
        BY <1>1 DEF SumColls
      <3>3. rc[t] \in Nat /\ v.toSP[t] \in Nat /\ v.toSurplus[t] \in Nat /\ v.gas[t] \in Nat
        BY <1>3 DEF Colls
      <3> QED
        BY <3>1, <3>2, <3>3, PoolsOf
    <2> QED
      BY <2>1, CollMoves DEF TotalsInv
  <1> QED
    BY <1>1, <1>5, <1>6, <1>7, QuietStakes DEF TotalsInv, BatchTracksDebt

-----------------------------------------------------------------------------
(* Totals: the redemptions, and the theorems.                              *)

LEMMA BeginRedemptionTotals ==
  ASSUME AllInv, AllInv', TotalsInv, NEW amount \in Redemptions, NEW b, BeginRedemption(amount, b)
  PROVE  TotalsInv'
  <1>1. /\ tx = NoTx /\ tx' = Redemption(b, amount, 0, NoColls)
        /\ UNCHANGED <<debt, stakeVars, activeVars, defaultVars, surplusVars, outside>>
    BY DEF BeginRedemption, troveVars
  <1>2. tx'.kind = "redemption" /\ tx'.redeemed = 0
    BY <1>1 DEF Redemption
  <1>3. InFlightDebt' = InFlightDebt /\ \A t \in Tokens : InFlightSurplus(t)' = InFlightSurplus(t)
    BY <1>1, <1>2, NothingInFlight
  <1>4. DebtsTotal' /\ StakesTotal' /\ SurplusTotal' /\ CollateralConserved'
    BY <1>1, <1>3, QuietDebts, QuietStakes, QuietSurplus, CollStays
       DEF TotalsInv, activeVars, defaultVars, surplusVars
  <1> QED
    BY <1>2, <1>4 DEF TotalsInv, BatchTracksDebt

\* The two ways a redemption leaves a trove.
LEMMA ReduceTroveCases ==
  ASSUME AllInv, NEW b \in Borrowers, NEW c, NEW left, NEW new \in Nat, NEW collOut,
         NEW debtOut \in Nat, ReduceTrove(b, c, left, new, collOut, debtOut)
  PROVE  LET coll == SumColls(activeColl, AppliedColl(b))
         IN  /\ CanMovePending(AppliedDebt(b), AppliedColl(b))
             /\ defaultColl' = SubColls(defaultColl, AppliedColl(b))
             /\ new = GasCompensation =>
                  /\ RemoveStake(b, AppliedTokens(b))
                  /\ debt' = [debt EXCEPT ![b] = 0]
                  /\ activeDebt' = activeDebt + AppliedDebt(b) - GasCompensation - debtOut
                  /\ surplus' = [surplus EXCEPT ![b] = SumColls(@, left)]
                  /\ surplusColl' = SumColls(surplusColl, left)
                  /\ activeColl' = Unwrapped(SubColls(coll, left), collOut, {})
             /\ new # GasCompensation =>
                  /\ UpdateStake(b, Support(c), left)
                  /\ debt' = [debt EXCEPT ![b] = new]
                  /\ activeDebt' = activeDebt + AppliedDebt(b) - debtOut
                  /\ activeColl' = Unwrapped(coll, collOut, {})
                  /\ UNCHANGED <<surplus, surplusColl>>
  <1>1. AppliedDebt(b) \in Nat /\ activeDebt \in Nat /\ GasCompensation \in Nat
    BY AppliedFits, ScaleAssumption DEF ReduceTrove
  <1>2. CASE new = GasCompensation
    BY <1>1, <1>2 DEF ReduceTrove, CloseAs
  <1>3. CASE new # GasCompensation
    BY <1>1, <1>3 DEF ReduceTrove, surplusVars
  <1> QED
    BY <1>1, <1>2, <1>3 DEF ReduceTrove

\* What is left of a trove's debt when lot is redeemed.
DebtAfter(b, lot) == debt[b] + AppliedDebt(b) - lot

\* A trove is redeemed against, of which lot leaves its debt and cut its
\* collateral.
LEMMA ReduceTroveTotals ==
  ASSUME AllInv, AllInv', TotalsInv, NEW b \in Borrowers, NEW c \in Colls, NEW left \in Colls,
         NEW new \in Nat, NEW collOut \in Colls, NEW debtOut \in Nat, NEW lot \in Nat,
         new = DebtAfter(b, lot),
         ReduceTrove(b, c, left, new, collOut, debtOut),
         InFlightDebt \in Nat, InFlightDebt' = InFlightDebt + (lot - debtOut),
         \A t \in Tokens : InFlightSurplus(t) = 0 /\ InFlightSurplus(t)' = 0,
         \A t \in Tokens : outside'[t] = outside[t] + collOut[t]
  PROVE  DebtsTotal' /\ StakesTotal' /\ SurplusTotal' /\ CollateralConserved'
  <1> DEFINE pd == AppliedDebt(b)
             ac == AppliedColl(b)
             coll == SumColls(activeColl, ac)
             rest == SubColls(coll, left)
  <1>1. pd \in Nat /\ ac \in Colls /\ debt[b] \in Nat /\ activeDebt \in Nat
    BY AppliedFits DEF ReduceTrove
  <1>2. GasCompensation \in Nat /\ InFlightDebt' \in Int /\ new = debt[b] + pd - lot
    BY ScaleAssumption DEF DebtAfter
  <1>3. /\ CanMovePending(pd, ac)
        /\ defaultColl' = SubColls(defaultColl, ac)
        /\ new = GasCompensation =>
             /\ RemoveStake(b, AppliedTokens(b))
             /\ debt' = [debt EXCEPT ![b] = 0]
             /\ activeDebt' = activeDebt + pd - GasCompensation - debtOut
             /\ surplus' = [surplus EXCEPT ![b] = SumColls(@, left)]
             /\ surplusColl' = SumColls(surplusColl, left)
             /\ activeColl' = Unwrapped(rest, collOut, {})
        /\ new # GasCompensation =>
             /\ UpdateStake(b, Support(c), left)
             /\ debt' = [debt EXCEPT ![b] = new]
             /\ activeDebt' = activeDebt + pd - debtOut
             /\ activeColl' = Unwrapped(coll, collOut, {})
             /\ UNCHANGED <<surplus, surplusColl>>
    BY <1>1, <1>2, ReduceTroveCases
  <1> HIDE DEF pd, ac, coll, rest
  <1>4. CASE new = GasCompensation
    <2>1. /\ RemoveStake(b, AppliedTokens(b))
          /\ debt' = [debt EXCEPT ![b] = 0]
          /\ activeDebt' = activeDebt + pd - GasCompensation - debtOut
          /\ surplus' = [surplus EXCEPT ![b] = SumColls(@, left)]
          /\ surplusColl' = SumColls(surplusColl, left)
          /\ activeColl' = Unwrapped(rest, collOut, {})
      BY <1>3, <1>4
    <2>2. DebtsTotal'
      <3>1. activeDebt' = activeDebt - InFlightDebt + InFlightDebt' - debt[b] + 0 /\ 0 \in Nat
        BY <1>1, <1>2, <1>4, <2>1
      <3> QED
        BY <1>2, <2>1, <3>1, DebtMoves DEF TotalsInv
    <2>3. StakesTotal'
      BY <2>1, UpdateStakeTotal DEF TotalsInv
    <2>4. SurplusTotal'
      <3> DEFINE x == SumColls(surplus[b], left)
      <3>1. surplus' = [surplus EXCEPT ![b] = x]
        BY <2>1 DEF AllInv, TypesInv, TroveTypeOK
      <3>2. ASSUME NEW t \in Tokens
            PROVE  /\ InFlightSurplus(t)' \in Int
                   /\ surplusColl'[t] + InFlightSurplus(t)'
                        = surplusColl[t] + InFlightSurplus(t) - surplus[b][t] + x[t]
        <4>1. /\ surplus[b][t] \in Nat /\ left[t] \in Nat /\ x[t] = surplus[b][t] + left[t]
          BY DEF AllInv, TypesInv, TroveTypeOK, Colls, SumColls
        <4>2. surplusColl[t] \in Nat /\ surplusColl'[t] = surplusColl[t] + left[t]
          BY <2>1, PoolsOf DEF SumColls
        <4> HIDE DEF x
        <4> QED
          BY <4>1, <4>2
      <3> HIDE DEF x
      <3> QED
        BY <3>1, <3>2, SurplusMoves DEF TotalsInv
    <2>5. CollateralConserved'
      <3>1. ASSUME NEW t \in Tokens \ Wrapped
            PROVE  activeColl'[t] + defaultColl'[t] + surplusColl'[t] + outside'[t]
                     = activeColl[t] + defaultColl[t] + surplusColl[t] + outside[t]
        <4>1. /\ activeColl'[t] = rest[t] - collOut[t] /\ rest[t] = coll[t] - left[t]
              /\ coll[t] = activeColl[t] + ac[t]
          BY <2>1, UnwrappedAt DEF rest, coll, SumColls, SubColls
        <4>2. /\ defaultColl'[t] = defaultColl[t] - ac[t]
              /\ surplusColl'[t] = surplusColl[t] + left[t]
              /\ outside'[t] = outside[t] + collOut[t]
          BY <1>3, <2>1 DEF SumColls, SubColls
        <4>3. ac[t] \in Nat /\ left[t] \in Nat /\ collOut[t] \in Nat
          BY <1>1 DEF Colls
        <4> QED
          BY <4>1, <4>2, <4>3, PoolsOf
      <3> QED
        BY <3>1, CollMoves DEF TotalsInv
    <2> QED
      BY <2>2, <2>3, <2>4, <2>5
  <1>5. CASE new # GasCompensation
    <2>1. /\ UpdateStake(b, Support(c), left)
          /\ debt' = [debt EXCEPT ![b] = new]
          /\ activeDebt' = activeDebt + pd - debtOut
          /\ activeColl' = Unwrapped(coll, collOut, {})
          /\ UNCHANGED <<surplus, surplusColl>>
      BY <1>3, <1>5
    <2>2. DebtsTotal'
      <3>1. activeDebt' = activeDebt - InFlightDebt + InFlightDebt' - debt[b] + new
        BY <1>1, <1>2, <2>1
      <3> QED
        BY <1>2, <2>1, <3>1, DebtMoves DEF TotalsInv
    <2>3. StakesTotal'
      BY <2>1, UpdateStakeTotal DEF TotalsInv
    <2>4. SurplusTotal'
      BY <2>1, QuietSurplus DEF TotalsInv, surplusVars
    <2>5. CollateralConserved'
      <3>1. ASSUME NEW t \in Tokens \ Wrapped
            PROVE  activeColl'[t] + defaultColl'[t] + surplusColl'[t] + outside'[t]
                     = activeColl[t] + defaultColl[t] + surplusColl[t] + outside[t]
        <4>1. activeColl'[t] = coll[t] - collOut[t] /\ coll[t] = activeColl[t] + ac[t]
          BY <2>1, UnwrappedAt DEF coll, SumColls
        <4>2. /\ defaultColl'[t] = defaultColl[t] - ac[t] /\ surplusColl'[t] = surplusColl[t]
              /\ outside'[t] = outside[t] + collOut[t]
          BY <1>3, <2>1 DEF SubColls
        <4>3. ac[t] \in Nat /\ collOut[t] \in Nat
          BY <1>1 DEF Colls
        <4> QED
          BY <4>1, <4>2, <4>3, PoolsOf
      <3> QED
        BY <3>1, CollMoves DEF TotalsInv
    <2> QED
      BY <2>2, <2>3, <2>4, <2>5
  <1> QED
    BY <1>4, <1>5

LEMMA RedeemFromTroveTotals ==
  ASSUME AllInv, AllInv', TotalsInv, NEW b \in Borrowers, RedeemFromTrove(b)
  PROVE  TotalsInv'
  <1> DEFINE d == debt[b] + AppliedDebt(b)
             c == EntireColl(b)
             lot == Smaller(tx.remaining, d - GasCompensation)
             cut == Cut(lot, c)
             left == SubColls(c, cut)
             new == d - lot
  <1>1. /\ tx.kind = "redemption"
        /\ GasCompensation <= d
        /\ CanCut(lot, c)
        /\ ReduceTrove(b, c, left, new, NoColls, 0)
        /\ tx' = Redemption(Prev(b), tx.remaining - lot, tx.redeemed + lot, SumColls(tx.drawn, cut))
        /\ outside' = outside
    BY DEF RedeemFromTrove
  <1>2. tx.remaining \in Nat /\ tx.redeemed \in Nat
    BY <1>1, RedemptionFields DEF AllInv, TypesInv, TxInv
  <1>3. d \in Nat /\ c \in Colls
    BY EntireTypes DEF AllInv, TypesInv
  <1> HIDE DEF d, c
  <1>4. lot \in Nat /\ new \in Nat
    BY <1>1, <1>2, <1>3, ScaleAssumption DEF Smaller
  <1>5. new = DebtAfter(b, lot)
    <2>1. new = d - lot /\ debt[b] \in Nat /\ AppliedDebt(b) \in Nat
      BY EntireTypes DEF AllInv, TypesInv, LedgerInv, LedgerTypeOK
    <2> HIDE DEF lot, new
    <2> QED
      BY <1>4, <2>1 DEF d, DebtAfter
  <1> HIDE DEF lot, new
  <1>6. left \in Colls /\ NoColls \in Colls
    BY <1>1, <1>3, <1>4, CutType, NoCollsType DEF AllInv, TypesInv
  <1> HIDE DEF cut, left
  <1>7. tx'.kind = "redemption" /\ tx'.redeemed = tx.redeemed + lot
    BY <1>1 DEF Redemption
  <1>8. /\ InFlightDebt \in Nat /\ InFlightDebt' = InFlightDebt + (lot - 0)
        /\ \A t \in Tokens : InFlightSurplus(t) = 0 /\ InFlightSurplus(t)' = 0
    BY <1>1, <1>2, <1>4, <1>7, NothingInFlight
  <1>9. \A t \in Tokens : outside'[t] = outside[t] + NoColls[t]
    BY <1>1, PoolsOf DEF NoColls
  <1>10. DebtsTotal' /\ StakesTotal' /\ SurplusTotal' /\ CollateralConserved'
    <2>1. 0 \in Nat
      OBVIOUS
    <2> QED
      BY <1>1, <1>3, <1>5, <1>4, <1>6, <1>8, <1>9, <2>1, ReduceTroveTotals
  <1> QED
    BY <1>7, <1>10 DEF TotalsInv, BatchTracksDebt

LEMMA RedeemSingleTotals ==
  ASSUME AllInv, AllInv', TotalsInv, NEW b \in Borrowers, NEW t \in Tokens,
         NEW amount \in Redemptions, RedeemSingle(b, t, amount)
  PROVE  TotalsInv'
  <1> DEFINE d == debt[b] + AppliedDebt(b)
             c == EntireColl(b)
             worth == ValueUSD(price, t, c[t])
             lot == Smaller(worth, Smaller(amount, d - GasCompensation))
             cut == [NoColls EXCEPT ![t] = (lot * c[t]) \div worth]
             left == SubColls(c, cut)
             new == d - lot
  <1>1. /\ tx = NoTx /\ tx' = NoTx
        /\ GasCompensation <= d /\ amount \in Nat
        /\ Covers(c, cut)
        /\ ReduceTrove(b, c, left, new, cut, lot)
        /\ outside' = SumColls(outside, cut)
    BY InputAssumption DEF RedeemSingle
  <1>2. d \in Nat /\ c \in Colls
    BY EntireTypes DEF AllInv, TypesInv
  <1> HIDE DEF d, c
  <1>3. worth \in Nat
    <2>1. price \in [Tokens -> Prices] /\ c[t] \in Nat
      BY <1>2 DEF AllInv, TypesInv, PoolTypeOK, Colls
    <2> QED
      BY <2>1, ValueUSDType
  <1> HIDE DEF worth
  <1>4. lot \in Nat /\ new \in Nat
    BY <1>1, <1>2, <1>3, ScaleAssumption DEF Smaller
  <1>5. new = DebtAfter(b, lot)
    <2>1. new = d - lot /\ debt[b] \in Nat /\ AppliedDebt(b) \in Nat
      BY EntireTypes DEF AllInv, TypesInv, LedgerInv, LedgerTypeOK
    <2> HIDE DEF lot, new
    <2> QED
      BY <1>4, <2>1 DEF d, DebtAfter
  <1> HIDE DEF lot, new
  <1>6. cut \in Colls /\ left \in Colls
    <2>1. ASSUME NEW u \in Tokens PROVE cut[u] \in Nat
      BY <1>1, <1>2 DEF Covers, Colls
    <2>2. cut = [u \in Tokens |-> cut[u]]
      BY DEF NoColls
    <2> HIDE DEF cut
    <2>3. cut \in Colls
      BY <2>1, <2>2 DEF Colls
    <2> QED
      BY <1>1, <1>2, <2>3, SubCollsType
  <1> HIDE DEF cut, left
  <1>7. /\ InFlightDebt \in Nat /\ InFlightDebt' = InFlightDebt + (lot - lot)
        /\ \A u \in Tokens : InFlightSurplus(u) = 0 /\ InFlightSurplus(u)' = 0
    BY <1>1, <1>4, NothingInFlight
  <1>8. \A u \in Tokens : outside'[u] = outside[u] + cut[u]
    BY <1>1 DEF SumColls
  <1>9. DebtsTotal' /\ StakesTotal' /\ SurplusTotal' /\ CollateralConserved'
    BY <1>1, <1>2, <1>5, <1>4, <1>6, <1>7, <1>8, ReduceTroveTotals
  <1> QED
    BY <1>1, <1>9 DEF TotalsInv, BatchTracksDebt

LEMMA CancelPartialTotals ==
  ASSUME AllInv, AllInv', TotalsInv, NEW b \in Borrowers, CancelPartial(b)
  PROVE  TotalsInv'
  <1> DEFINE pd == AppliedDebt(b)
             ac == AppliedColl(b)
             new == debt[b] + pd
  <1>1. /\ tx.kind = "redemption"
        /\ CanMovePending(pd, ac)
        /\ defaultColl' = SubColls(defaultColl, ac)
        /\ activeColl' = SumColls(activeColl, ac)
        /\ activeDebt' = activeDebt + pd
        /\ debt' = [debt EXCEPT ![b] = new]
        /\ tx' = Redemption(NoTrove, tx.remaining, tx.redeemed, tx.drawn)
        /\ UNCHANGED <<stakeVars, surplusVars, outside>>
    BY DEF CancelPartial
  <1>2. pd \in Nat /\ ac \in Colls /\ debt[b] \in Nat /\ activeDebt \in Nat
    BY <1>1, AppliedFits
  <1> HIDE DEF pd, ac
  <1>3. tx'.kind = "redemption" /\ tx'.redeemed = tx.redeemed /\ tx.redeemed \in Nat
    BY <1>1, RedemptionFields DEF Redemption, AllInv, TypesInv, TxInv
  <1>4. /\ InFlightDebt \in Nat /\ InFlightDebt' = InFlightDebt
        /\ \A t \in Tokens : InFlightSurplus(t)' = InFlightSurplus(t)
    BY <1>1, <1>3, NothingInFlight
  <1>5. DebtsTotal'
    <2>1. new \in Nat /\ activeDebt' = activeDebt - InFlightDebt + InFlightDebt' - debt[b] + new
          /\ InFlightDebt' \in Int
      BY <1>1, <1>2, <1>4
    <2> HIDE DEF new
    <2> QED
      BY <1>1, <2>1, DebtMoves DEF TotalsInv
  <1>6. StakesTotal' /\ SurplusTotal'
    BY <1>1, <1>4, QuietStakes, QuietSurplus DEF TotalsInv
  <1>7. CollateralConserved'
    <2>1. ASSUME NEW t \in Tokens \ Wrapped
          PROVE  activeColl'[t] + defaultColl'[t] + surplusColl'[t] + outside'[t]
                   = activeColl[t] + defaultColl[t] + surplusColl[t] + outside[t]
      <3>1. /\ activeColl'[t] = activeColl[t] + ac[t] /\ defaultColl'[t] = defaultColl[t] - ac[t]
            /\ surplusColl'[t] = surplusColl[t] /\ outside'[t] = outside[t] /\ ac[t] \in Nat
        BY <1>1, <1>2 DEF SumColls, SubColls, Colls, surplusVars
      <3> QED
        BY <3>1, PoolsOf
    <2> QED
      BY <2>1, CollMoves DEF TotalsInv
  <1> QED
    BY <1>3, <1>5, <1>6, <1>7 DEF TotalsInv, BatchTracksDebt

LEMMA SkipTroveTotals ==
  ASSUME AllInv, AllInv', TotalsInv, NEW b \in Borrowers, SkipTrove(b)
  PROVE  TotalsInv'
  <1>1. /\ tx.kind = "redemption"
        /\ tx' = Redemption(Prev(b), tx.remaining, tx.redeemed, tx.drawn)
        /\ UNCHANGED <<debt, stakeVars, activeVars, defaultVars, surplusVars, outside>>
    BY DEF SkipTrove, troveVars
  <1>2. tx'.kind = "redemption" /\ tx'.redeemed = tx.redeemed
    BY <1>1 DEF Redemption
  <1>3. InFlightDebt' = InFlightDebt /\ \A t \in Tokens : InFlightSurplus(t)' = InFlightSurplus(t)
    BY <1>1, <1>2, NothingInFlight
  <1>4. DebtsTotal' /\ StakesTotal' /\ SurplusTotal' /\ CollateralConserved'
    BY <1>1, <1>3, QuietDebts, QuietStakes, QuietSurplus, CollStays
       DEF TotalsInv, activeVars, defaultVars, surplusVars
  <1> QED
    BY <1>2, <1>4 DEF TotalsInv, BatchTracksDebt

LEMMA FinishRedemptionTotals ==
  ASSUME AllInv, AllInv', TotalsInv, FinishRedemption
  PROVE  TotalsInv'
  <1>1. /\ tx.kind = "redemption" /\ tx' = NoTx
        /\ activeDebt' = activeDebt - tx.redeemed
        /\ activeColl' = Unwrapped(activeColl, tx.drawn, {})
        /\ outside' = SumColls(outside, tx.drawn)
        /\ UNCHANGED <<debt, stakeVars, defaultVars, surplusVars>>
    BY DEF FinishRedemption, troveVars
  <1>2. tx.redeemed \in Nat /\ tx.drawn \in Colls /\ activeDebt \in Nat
    BY <1>1, RedemptionFields DEF AllInv, TypesInv, TxInv, LedgerInv, LedgerTypeOK
  <1>3. /\ InFlightDebt = tx.redeemed /\ InFlightDebt' = 0
        /\ \A t \in Tokens : InFlightSurplus(t)' = InFlightSurplus(t)
    BY <1>1, NothingInFlight
  <1>4. DebtsTotal'
    <2>1. activeDebt' = activeDebt - InFlightDebt + InFlightDebt' /\ InFlightDebt' \in Int
      BY <1>1, <1>2, <1>3
    <2> QED
      BY <1>1, <2>1, DebtStays DEF TotalsInv
  <1>5. StakesTotal' /\ SurplusTotal'
    BY <1>1, <1>3, QuietStakes, QuietSurplus DEF TotalsInv
  <1>6. CollateralConserved'
    <2>1. ASSUME NEW t \in Tokens \ Wrapped
          PROVE  activeColl'[t] + defaultColl'[t] + surplusColl'[t] + outside'[t]
                   = activeColl[t] + defaultColl[t] + surplusColl[t] + outside[t]
      <3>1. activeColl'[t] = activeColl[t] - tx.drawn[t]
        BY <1>1, UnwrappedAt
      <3>2. /\ defaultColl'[t] = defaultColl[t] /\ surplusColl'[t] = surplusColl[t]
            /\ outside'[t] = outside[t] + tx.drawn[t] /\ tx.drawn[t] \in Nat
        BY <1>1, <1>2 DEF SumColls, Colls, defaultVars, surplusVars
      <3> QED
        BY <3>1, <3>2, PoolsOf
    <2> QED
      BY <2>1, CollMoves DEF TotalsInv
  <1> QED
    BY <1>1, <1>4, <1>5, <1>6 DEF TotalsInv, BatchTracksDebt
-----------------------------------------------------------------------------
LEMMA NextTotals == AllInv /\ AllInv' /\ TotalsInv /\ [Next]_vars => TotalsInv'
  <1> SUFFICES ASSUME AllInv, AllInv', TotalsInv, [Next]_vars PROVE TotalsInv'
    OBVIOUS
  <1>1. CASE \E b \in Borrowers : Borrow(b)
    <2>1. PICK b \in Borrowers : Borrow(b)
      BY <1>1
    <2>2. AdjustColls \cup {NoColls} \subseteq Colls
      BY InputAssumption, NoCollsType
    <2>3. CASE UpdateTrove(b)
      BY <2>3, QuietTotals DEF UpdateTrove, troveVars
    <2> QED
      BY <2>1, <2>2, <2>3, OpenTroveTotals, AdjustTroveTotals, CloseTroveTotals,
         ClaimCollateralTotals DEF Borrow
  <1>2. CASE \E x \in Deposits : ProvideToSP(x) \/ WithdrawFromSP(x)
    BY <1>2, QuietTotals DEF ProvideToSP, WithdrawFromSP, troveVars
  <1>3. CASE \E t \in Tokens, p \in Prices : SetPrice(t, p)
    BY <1>3, QuietTotals DEF SetPrice, troveVars
  <1>4. CASE Liquidate
    BY <1>4, BeginLiquidationTotals, LiquidateTotals, FinishLiquidationTotals DEF Liquidate
  <1>5. CASE Redeem
    BY <1>5, BeginRedemptionTotals, RedeemFromTroveTotals, CancelPartialTotals, SkipTroveTotals,
       FinishRedemptionTotals, RedeemSingleTotals DEF Redeem
  <1>6. CASE UNCHANGED vars
    BY <1>6, QuietTotals DEF vars, troveVars
  <1> QED
    BY <1>1, <1>2, <1>3, <1>4, <1>5, <1>6 DEF Next

LEMMA TotalsInvAlways == Spec => [](AllInv /\ TotalsInv)
  <1>1. Init => AllInv /\ TotalsInv
    BY InitLedger, InitReserves, InitTypes, InitTotalsInv DEF AllInv
  <1>2. AllInv /\ TotalsInv /\ [Next]_vars => (AllInv /\ TotalsInv)'
    <2>1. ASSUME AllInv, TotalsInv, [Next]_vars PROVE AllInv' /\ TotalsInv'
      <3>1. AllInv'
        BY <2>1, NextLedger, NextReserves, NextTypes DEF AllInv
      <3> QED
        BY <2>1, <3>1, NextTotals
    <2> QED
      BY <2>1
  <1> QED
    BY <1>1, <1>2, PTL DEF Spec

\* The debt of ActivePool and the totalStakes of TroveManager are the sums of
\* what the troves owe and stake, at every step of a batch or a redemption.
THEOREM TotalsAlwaysMatch == Spec => []TotalsMatchTroves
  <1>1. AllInv /\ TotalsInv => TotalsMatchTroves
    BY TotalsMeaning DEF TotalsInv
  <1> QED
    BY <1>1, TotalsInvAlways, PTL

\* No collateral appears or disappears: what came in less what left is in
\* the four pools, through every liquidation, redistribution and redemption.
THEOREM CollateralAlwaysConserved == Spec => []CollateralConserved
  <1>1. AllInv /\ TotalsInv => CollateralConserved
    BY DEF TotalsInv
  <1> QED
    BY <1>1, TotalsInvAlways, PTL

\* What former owners can claim is in CollSurplusPool, or on its way there
\* while the batch runs.
THEOREM SurplusAlwaysCovered == Spec => [](\A t \in Tokens : SurplusPoolCovers(t))
  <1>1. AllInv /\ TotalsInv => \A t \in Tokens : SurplusPoolCovers(t)
    BY TotalsMeaning DEF TotalsInv
  <1> QED
    BY <1>1, TotalsInvAlways, PTL

\* The debt side of BatchTracksSystem: a batch never offsets more YUSD than
\* StabilityPool holds, and its copy of the system's debt is the right one.
THEOREM BatchAlwaysTracksDebt == Spec => []BatchTracksDebt
  <1>1. AllInv /\ TotalsInv => BatchTracksDebt
    BY DEF TotalsInv
  <1> QED
    BY <1>1, TotalsInvAlways, PTL

-----------------------------------------------------------------------------
(* The collateral value a batch keeps of the system.                       *)

Rounded == Cardinality(RoundedTokens)

LEMMA RoundedType == Rounded \in Nat
  BY TokensAssumption, FS_Subset, FS_CardinalityType DEF Rounded, RoundedTokens

LEMMA MultipleOf ==
  ASSUME NEW m \in Nat, NEW k \in Nat \ {0}
  PROVE  (m * k) % k = 0
  <1> DEFINE q == (m * k) \div k
             r == (m * k) % k
  <1>1. m * k \in Nat
    BY ProductNat
  <1>2. q \in Nat /\ r \in Nat /\ q * k + r = m * k
    BY <1>1, DivisionIs
  <1>3. m <= q /\ r < k
    <2>1. m <= q
      BY <1>1, FloorGreatest
    <2>2. r < k
      BY <1>1
    <2> QED
      BY <2>1, <2>2
  <1> HIDE DEF q, r
  <1>4. m * k <= q * k /\ q * k \in Nat
    BY <1>2, <1>3, ProductMonotone, ProductTurns, ProductNat
  <1>5. r = 0
    BY <1>1, <1>2, <1>4
  <1> QED
    BY <1>5 DEF r

LEMMA ValueVCPlus ==
  ASSUME NEW p \in [Tokens -> Prices], NEW t \in Tokens, NEW x \in Nat, NEW y \in Nat
  PROVE  /\ ValueVC(p, t, x) \in Nat /\ ValueVC(p, t, y) \in Nat /\ ValueVC(p, t, x + y) \in Nat
         /\ ValueVC(p, t, x + y) - ValueVC(p, t, x) - ValueVC(p, t, y) \in 0..1
         /\ t \notin RoundedTokens => ValueVC(p, t, x + y) = ValueVC(p, t, x) + ValueVC(p, t, y)
  <1> DEFINE a == p[t] * x * Ratio[t]
             b == p[t] * y * Ratio[t]
             k == 100 * DP
  <1>1. p[t] \in Nat /\ Ratio[t] \in Nat /\ k \in Nat \ {0}
    BY PriceType, ScaleAssumption, HundredType
  <1>2. p[t] * x \in Nat /\ p[t] * y \in Nat
    BY <1>1, ProductNat
  <1>3. a \in Nat /\ b \in Nat
    BY <1>1, <1>2, ProductNat
  <1>4. p[t] * (x + y) * Ratio[t] = a + b
    <2> HIDE DEF k
    <2> QED
      BY <1>1, Z3
  <1>5. /\ ValueVC(p, t, x) = a \div k /\ ValueVC(p, t, y) = b \div k
        /\ ValueVC(p, t, x + y) = (a + b) \div k
    BY <1>4 DEF ValueVC
  <1>6. a \div k \in Nat /\ b \div k \in Nat /\ (a + b) \div k \in Nat
    <2> HIDE DEF a, b, k
    <2> QED
      BY <1>1, <1>3, FloorFits
  <1>7. (a + b) \div k - a \div k - b \div k \in 0..1
    <2> HIDE DEF a, b, k
    <2> QED
      BY <1>1, <1>3, FloorPlus
  <1>8. ASSUME t \notin RoundedTokens
        PROVE  (a + b) \div k = a \div k + b \div k
    <2> DEFINE n == p[t] * Ratio[t]
               q == n \div k
    <2>1. n % k = 0 /\ n \in Nat
      BY <1>1, <1>8, ProductNat DEF RoundedTokens
    <2>2. a = n * x
      <3> HIDE DEF k
      <3> QED
        BY <1>1, Z3
    <2> HIDE DEF n, k
    <2>3. q \in Nat /\ n = q * k
      BY <1>1, <2>1, DivisionIs
    <2> HIDE DEF q
    <2> HIDE DEF a, b
    <2>4. a = (x * q) * k /\ x * q \in Nat
      <3>1. (q * k) * x = (x * q) * k
        BY <1>1, <2>3, Z3
      <3> QED
        BY <2>2, <2>3, <3>1, ProductNat
    <2>5. a % k = 0
      BY <1>1, <2>4, MultipleOf
    <2>6. a \in Nat /\ b \in Nat /\ k \in Nat \ {0}
      BY <1>1, <1>3
    <2>7. a % k = 0 => (a + b) \div k = a \div k + b \div k
      BY <2>6, FloorPlus
    <2> QED
      BY <2>5, <2>7
  <1> HIDE DEF a, b, k
  <1> QED
    BY <1>5, <1>6, <1>7, <1>8

\* Adding two amounts adds their values, but for one unit of each rounded token.
LEMMA VCPlus ==
  ASSUME NEW p \in [Tokens -> Prices], NEW c \in Colls, NEW d \in Colls
  PROVE  /\ VC(p, c) \in Nat /\ VC(p, d) \in Nat /\ VC(p, SumColls(c, d)) \in Nat
         /\ VC(p, SumColls(c, d)) - VC(p, c) - VC(p, d) \in 0..Rounded
  <1> DEFINE s == SumColls(c, d)
             f == [t \in Tokens |-> ValueVC(p, t, c[t])]
             g == [t \in Tokens |-> ValueVC(p, t, d[t])]
             h == [t \in Tokens |-> ValueVC(p, t, s[t])]
             one == [t \in Tokens |-> IF t \in RoundedTokens THEN 1 ELSE 0]
             low == [t \in Tokens |-> f[t] + g[t]]
             high == [t \in Tokens |-> low[t] + one[t]]
  <1>1. VC(p, c) \in Nat /\ VC(p, d) \in Nat /\ VC(p, s) \in Nat
    BY VCType, SumCollsType
  <1>2. /\ VC(p, c) = SumFunctionOnSet(f, Tokens) /\ VC(p, d) = SumFunctionOnSet(g, Tokens)
        /\ VC(p, s) = SumFunctionOnSet(h, Tokens)
    BY DEF VC, SumFunction
  <1>3. ASSUME NEW t \in Tokens
        PROVE  /\ f[t] \in Int /\ g[t] \in Int /\ h[t] \in Int /\ one[t] \in Int
               /\ low[t] \in Int /\ high[t] \in Int
               /\ low[t] = f[t] + g[t] /\ high[t] = low[t] + one[t]
               /\ low[t] <= h[t] /\ h[t] <= high[t]
    <2>1. c[t] \in Nat /\ d[t] \in Nat /\ s[t] = c[t] + d[t]
      BY DEF Colls, SumColls
    <2>2. /\ f[t] \in Nat /\ g[t] \in Nat /\ h[t] \in Nat
          /\ h[t] - f[t] - g[t] \in 0..1
          /\ t \notin RoundedTokens => h[t] = f[t] + g[t]
      <3>1. /\ f[t] = ValueVC(p, t, c[t]) /\ g[t] = ValueVC(p, t, d[t])
            /\ h[t] = ValueVC(p, t, c[t] + d[t])
        BY <2>1
      <3>2. /\ ValueVC(p, t, c[t]) \in Nat /\ ValueVC(p, t, d[t]) \in Nat
            /\ ValueVC(p, t, c[t] + d[t]) \in Nat
            /\ ValueVC(p, t, c[t] + d[t]) - ValueVC(p, t, c[t]) - ValueVC(p, t, d[t]) \in 0..1
            /\ t \notin RoundedTokens =>
                 ValueVC(p, t, c[t] + d[t]) = ValueVC(p, t, c[t]) + ValueVC(p, t, d[t])
        BY <2>1, ValueVCPlus
      <3> HIDE DEF f, g, h
      <3> QED
        BY <3>1, <3>2
    <2>3. one[t] = IF t \in RoundedTokens THEN 1 ELSE 0
      OBVIOUS
    <2>4. low[t] = f[t] + g[t] /\ high[t] = low[t] + one[t]
      OBVIOUS
    <2> HIDE DEF f, g, h, one, low, high
    <2> QED
      BY <2>2, <2>3, <2>4
  <1>4. RoundedTokens \subseteq Tokens /\ \A t \in Tokens : one[t] = IF t \in RoundedTokens THEN 1 ELSE 0
    BY DEF RoundedTokens
  <1> HIDE DEF f, g, h, one, low, high
  <1>5. SumFunctionOnSet(one, Tokens) = Rounded
    BY <1>4, SumOfOnes, TokensAssumption DEF Rounded
  <1>6. SumFunctionOnSet(low, Tokens) = VC(p, c) + VC(p, d)
    BY <1>2, <1>3, SumPlus, TokensAssumption
  <1>7. SumFunctionOnSet(high, Tokens) = SumFunctionOnSet(low, Tokens) + Rounded
    BY <1>3, <1>5, SumPlus, TokensAssumption
  <1>8. SumFunctionOnSet(low, Tokens) <= VC(p, s) /\ VC(p, s) <= SumFunctionOnSet(high, Tokens)
    BY <1>2, <1>3, SumMonotone, TokensAssumption
  <1> HIDE DEF s
  <1>9. VC(p, s) - VC(p, c) - VC(p, d) \in 0..Rounded
    BY <1>1, <1>6, <1>7, <1>8, RoundedType
  <1> QED
    BY <1>1, <1>9 DEF s

\* What the batch's copy of the value is ahead of the value left in the pools.
Drift == tx.systemVC - (SystemVC - VC(price, tx.totals.toSP) - VC(price, tx.totals.gas)
                        - VC(price, tx.totals.toSurplus))

BatchVCInv ==
  tx.kind = "liquidation" =>
    /\ ClosedByBatch \in Nat /\ tx.gasYUSD = GasCompensation * ClosedByBatch
    /\ tx.recovery => Drift \in -(Rounded * ClosedByBatch)..(4 * (Rounded * ClosedByBatch))

LEMMA InitBatchVC == Init => BatchVCInv
  BY DEF Init, NoTx, BatchVCInv

LEMMA ClosedCount ==
  ASSUME NEW k \in Nat
  PROVE  (GasCompensation * k) \div GasCompensation = k
  <1> DEFINE a == GasCompensation * k
  <1>1. GasCompensation \in Nat \ {0}
    BY ScaleAssumption
  <1>2. a \in Nat /\ k * GasCompensation <= a /\ a <= k * GasCompensation
    BY <1>1, ProductNat, Z3
  <1> HIDE DEF a
  <1>3. k <= a \div GasCompensation /\ a \div GasCompensation \in Nat /\ a \div GasCompensation <= k
    BY <1>1, <1>2, FloorGreatest, FloorAtMost
  <1>4. a \div GasCompensation = k
    BY <1>3
  <1> QED
    BY <1>4 DEF a

LEMMA BeginLiquidationVC ==
  ASSUME AllInv, AllInv', BeginLiquidation
  PROVE  BatchVCInv'
  <1>1. /\ tx'.gasYUSD = 0 /\ tx'.systemVC = SystemVC
        /\ tx'.totals = Split(0, 0, NoColls, NoColls, NoColls, NoColls)
        /\ UNCHANGED <<activeColl, defaultColl, price>>
    BY DEF BeginLiquidation, activeVars, defaultVars
  <1>2. tx'.totals.toSP = NoColls /\ tx'.totals.gas = NoColls /\ tx'.totals.toSurplus = NoColls
    BY <1>1 DEF Split
  <1>3. ClosedByBatch' = 0
    <2>1. (GasCompensation * 0) \div GasCompensation = 0 /\ GasCompensation * 0 = 0
      BY ClosedCount, ScaleAssumption
    <2> QED
      BY <1>1, <2>1 DEF ClosedByBatch
  <1>4. VC(price, NoColls) = 0
    BY NoCollsVC DEF AllInv, TypesInv, PoolTypeOK
  <1>5. SystemVC \in Nat /\ SystemVC' = SystemVC
    BY <1>1, SystemTypes DEF SystemVC, AllInv, TypesInv
  <1>6. Drift' = 0
    BY <1>1, <1>2, <1>4, <1>5 DEF Drift
  <1>7. Rounded' = Rounded /\ Rounded \in Nat
    BY RoundedType DEF Rounded, RoundedTokens
  <1>8. Rounded * 0 = 0 /\ GasCompensation * 0 = 0
    BY <1>7, ScaleAssumption
  <1> HIDE DEF ClosedByBatch, Drift, Rounded
  <1> QED
    BY <1>1, <1>3, <1>6, <1>7, <1>8 DEF BatchVCInv

\* Applying rewards moves no collateral out of the two pools together.
LEMMA AppliedVCDrift ==
  ASSUME AllInv, NEW c \in Colls, Covers(defaultColl, c)
  PROVE  VC(price, SumColls(activeColl, c)) + VC(price, SubColls(defaultColl, c)) - SystemVC
           \in -Rounded..Rounded
  <1> DEFINE d == SubColls(defaultColl, c)
  <1>1. price \in [Tokens -> Prices] /\ activeColl \in Colls /\ defaultColl \in Colls
    BY DEF AllInv, TypesInv, PoolTypeOK
  <1>2. d \in Colls
    BY <1>1, SubCollsType
  <1>3. SumColls(d, c) = defaultColl
    <2>1. ASSUME NEW t \in Tokens PROVE d[t] + c[t] = defaultColl[t]
      BY <1>1 DEF SubColls, Colls
    <2> QED
      BY <1>1, <2>1 DEF SumColls, Colls
  <1> HIDE DEF d
  <1>4. /\ VC(price, activeColl) \in Nat /\ VC(price, c) \in Nat
        /\ VC(price, SumColls(activeColl, c)) \in Nat
        /\ VC(price, SumColls(activeColl, c)) - VC(price, activeColl) - VC(price, c) \in 0..Rounded
    BY <1>1, VCPlus
  <1>5. /\ VC(price, d) \in Nat /\ VC(price, defaultColl) \in Nat
        /\ VC(price, defaultColl) - VC(price, d) - VC(price, c) \in 0..Rounded
    BY <1>1, <1>2, <1>3, VCPlus
  <1>6. VC(price, SumColls(activeColl, c)) + VC(price, d) - SystemVC \in -Rounded..Rounded
    BY <1>4, <1>5, RoundedType DEF SystemVC
  <1> QED
    BY <1>6 DEF d

\* One more trove: the bounds grow by those of its own values.
LEMMA DriftGrows ==
  ASSUME NEW m \in Nat, NEW k \in Nat, NEW x \in Int, NEW y \in Int,
         x \in -(m * k)..(4 * (m * k)), y - x \in -m..(4 * m)
  PROVE  y \in -(m * (k + 1))..(4 * (m * (k + 1)))
  <1> DEFINE a == m * k
             b == m * (k + 1)
  <1>1. b = a + m /\ a \in Nat
    BY ProductNat, Z3
  <1>2. x \in -a..(4 * a)
    OBVIOUS
  <1> HIDE DEF a, b
  <1>3. y \in -b..(4 * b)
    BY <1>1, <1>2
  <1> QED
    BY <1>3 DEF b

LEMMA LiquidateAsVC ==
  ASSUME AllInv, AllInv', BatchVCInv, tx.kind = "liquidation", NEW b \in Borrowers, NEW v,
         SplitColls(v, EntireColl(b)), LiquidateAs(b, v)
  PROVE  BatchVCInv'
  <1> DEFINE k == ClosedByBatch
  <1>1. /\ activeColl' = SumColls(activeColl, PendingColl(b))
        /\ defaultColl' = SubColls(defaultColl, PendingColl(b))
        /\ Covers(defaultColl, PendingColl(b))
        /\ price' = price
    BY DEF LiquidateAs, CanMovePending
  <1>2. /\ tx'.recovery => tx.recovery /\ tx'.systemVC = tx.systemVC - LeavingVC(v)
        /\ tx'.gasYUSD = tx.gasYUSD + GasCompensation
        /\ tx'.totals = AddSplit(tx.totals, v)
    BY DEF LiquidateAs
  <1>3. /\ tx'.totals.toSP = SumColls(tx.totals.toSP, v.toSP)
        /\ tx'.totals.gas = SumColls(tx.totals.gas, v.gas)
        /\ tx'.totals.toSurplus = SumColls(tx.totals.toSurplus, v.toSurplus)
    BY <1>2 DEF AddSplit, Split
  <1>4. k \in Nat /\ tx.gasYUSD = GasCompensation * k
    BY DEF BatchVCInv
  <1>5. ClosedByBatch' = k + 1 /\ tx'.gasYUSD = GasCompensation * (k + 1)
    <2>1. tx'.gasYUSD = GasCompensation * (k + 1) /\ k + 1 \in Nat
      <3> HIDE DEF k
      <3> QED
        BY <1>2, <1>4, OneReserve
    <2>2. ClosedByBatch' = tx'.gasYUSD \div GasCompensation
      BY DEF ClosedByBatch
    <2> HIDE DEF k
    <2> QED
      BY <2>1, <2>2, ClosedCount
  <1>6. Rounded' = Rounded /\ Rounded \in Nat
    BY RoundedType DEF Rounded, RoundedTokens
  <1>7. ASSUME tx'.recovery
        PROVE  Drift' \in -(Rounded * (k + 1))..(4 * (Rounded * (k + 1)))
    <2> DEFINE V(c) == VC(price, c)
    <2>1. /\ price \in [Tokens -> Prices]
          /\ v.toSP \in Colls /\ v.gas \in Colls /\ v.toSurplus \in Colls
          /\ tx.totals.toSP \in Colls /\ tx.totals.gas \in Colls /\ tx.totals.toSurplus \in Colls
          /\ tx.systemVC \in Nat
      BY LiquidationFields DEF AllInv, TypesInv, PoolTypeOK, TxInv, SplitColls
    <2>2. /\ V(tx.totals.toSP) \in Nat /\ V(v.toSP) \in Nat /\ V(tx'.totals.toSP) \in Nat
          /\ V(tx'.totals.toSP) - V(tx.totals.toSP) - V(v.toSP) \in 0..Rounded
      BY <1>3, <2>1, VCPlus
    <2>3. /\ V(tx.totals.gas) \in Nat /\ V(v.gas) \in Nat /\ V(tx'.totals.gas) \in Nat
          /\ V(tx'.totals.gas) - V(tx.totals.gas) - V(v.gas) \in 0..Rounded
      BY <1>3, <2>1, VCPlus
    <2>4. /\ V(tx.totals.toSurplus) \in Nat /\ V(v.toSurplus) \in Nat
          /\ V(tx'.totals.toSurplus) \in Nat
          /\ V(tx'.totals.toSurplus) - V(tx.totals.toSurplus) - V(v.toSurplus) \in 0..Rounded
      BY <1>3, <2>1, VCPlus
    <2>5. SystemVC' \in Nat /\ SystemVC' - SystemVC \in -Rounded..Rounded
      <3>1. PendingColl(b) \in Colls
        BY PendingCollType DEF AllInv, TypesInv
      <3>2. SystemVC' = V(SumColls(activeColl, PendingColl(b))) + V(SubColls(defaultColl, PendingColl(b)))
        BY <1>1 DEF SystemVC
      <3>3. V(SumColls(activeColl, PendingColl(b))) + V(SubColls(defaultColl, PendingColl(b)))
              - SystemVC \in -Rounded..Rounded
        BY <1>1, <3>1, AppliedVCDrift
      <3>4. /\ V(SumColls(activeColl, PendingColl(b))) \in Nat
            /\ V(SubColls(defaultColl, PendingColl(b))) \in Nat
        BY <1>1, <2>1, <3>1, VCType, SumCollsType, SubCollsType DEF AllInv, TypesInv, PoolTypeOK
      <3>5. SystemVC \in Nat
        BY SystemTypes DEF AllInv, TypesInv
      <3> HIDE DEF V, SystemVC, Rounded
      <3> QED
        BY <1>6, <3>2, <3>3, <3>4, <3>5
    <2>6. SystemVC \in Nat
      BY SystemTypes DEF AllInv, TypesInv
    <2>7. LeavingVC(v) = V(v.toSP) + V(v.gas) + V(v.toSurplus)
      BY DEF LeavingVC
    <2>8. tx.recovery /\ tx'.systemVC = tx.systemVC - LeavingVC(v)
      BY <1>2, <1>7
    <2>9. Drift = tx.systemVC - (SystemVC - V(tx.totals.toSP) - V(tx.totals.gas) - V(tx.totals.toSurplus))
      BY DEF Drift
    <2>10. Drift' = tx'.systemVC - (SystemVC' - V(tx'.totals.toSP) - V(tx'.totals.gas)
                                    - V(tx'.totals.toSurplus))
      BY <1>1 DEF Drift
    <2> HIDE DEF V, SystemVC, Drift, Rounded, k
    <2>11. Drift \in Int /\ Drift' \in Int /\ Drift' - Drift \in -Rounded..(4 * Rounded)
      <3>1. /\ Drift \in Int /\ Drift' \in Int
            /\ Drift' - Drift = (SystemVC - SystemVC')
                                + (V(tx'.totals.toSP) - V(tx.totals.toSP) - V(v.toSP))
                                + (V(tx'.totals.gas) - V(tx.totals.gas) - V(v.gas))
                                + (V(tx'.totals.toSurplus) - V(tx.totals.toSurplus) - V(v.toSurplus))
        BY <2>1, <2>2, <2>3, <2>4, <2>5, <2>6, <2>7, <2>8, <2>9, <2>10
      <3> DEFINE e1 == V(tx'.totals.toSP) - V(tx.totals.toSP) - V(v.toSP)
                 e2 == V(tx'.totals.gas) - V(tx.totals.gas) - V(v.gas)
                 e3 == V(tx'.totals.toSurplus) - V(tx.totals.toSurplus) - V(v.toSurplus)
      <3>2. e1 \in 0..Rounded /\ e2 \in 0..Rounded /\ e3 \in 0..Rounded
        BY <2>2, <2>3, <2>4
      <3>3. Drift' - Drift = (SystemVC - SystemVC') + e1 + e2 + e3
        BY <3>1
      <3> HIDE DEF e1, e2, e3
      <3>4. SystemVC - SystemVC' \in -Rounded..Rounded
        <4> DEFINE x == SystemVC
                   y == SystemVC'
        <4>1. x \in Nat /\ y \in Nat /\ y - x \in -Rounded..Rounded
          BY <2>5, <2>6
        <4> HIDE DEF x, y
        <4>2. x - y \in -Rounded..Rounded
          BY <1>6, <4>1
        <4> QED
          BY <4>2 DEF x, y
      <3>5. Drift' - Drift \in -Rounded..(4 * Rounded)
        BY <1>6, <3>2, <3>3, <3>4
      <3> QED
        BY <3>1, <3>5
    <2>12. Drift \in -(Rounded * k)..(4 * (Rounded * k))
      BY <2>8 DEF BatchVCInv, k
    <2> QED
      BY <1>4, <1>6, <2>11, <2>12, DriftGrows
  <1> HIDE DEF k, Drift, Rounded
  <1> QED
    BY <1>4, <1>5, <1>6, <1>7 DEF BatchVCInv

LEMMA NextBatchVC == AllInv /\ AllInv' /\ BatchVCInv /\ [Next]_vars => BatchVCInv'
  <1> SUFFICES ASSUME AllInv, AllInv', BatchVCInv, [Next]_vars PROVE BatchVCInv'
    OBVIOUS
  <1>a. ASSUME UNCHANGED tx, Idle PROVE BatchVCInv'
    BY <1>a DEF BatchVCInv, Idle, NoTx
  <1>b. ASSUME tx' = NoTx \/ tx'.kind = "redemption" PROVE BatchVCInv'
    BY <1>b DEF BatchVCInv, NoTx
  <1>1. CASE \E b \in Borrowers : Borrow(b)
    BY <1>1, <1>a DEF Borrow, OpenTrove, AdjustTrove, CloseTrove, ClaimCollateral, UpdateTrove
  <1>2. CASE \E x \in Deposits : ProvideToSP(x) \/ WithdrawFromSP(x)
    BY <1>2, <1>a DEF ProvideToSP, WithdrawFromSP
  <1>3. CASE \E t \in Tokens, p \in Prices : SetPrice(t, p)
    BY <1>3, <1>a DEF SetPrice
  <1>4. CASE Liquidate
    <2>1. ASSUME NEW b \in Borrowers, LiquidateNormalMode(b) \/ LiquidateRecoveryMode(b)
          PROVE  BatchVCInv'
      <3>1. /\ tx.kind = "liquidation"
            /\ \E v : LiquidateAs(b, v) /\ SplitColls(v, EntireColl(b))
        BY <2>1, LiquidateTypes
      <3> QED
        BY <3>1, LiquidateAsVC
    <2>2. CASE FinishLiquidation
      BY <2>2, <1>b DEF FinishLiquidation
    <2> QED
      BY <1>4, <2>1, <2>2, BeginLiquidationVC DEF Liquidate
  <1>5. CASE Redeem
    <2>1. ASSUME NEW b \in Borrowers, NEW amount, BeginRedemption(amount, b) PROVE BatchVCInv'
      BY <2>1, <1>b DEF BeginRedemption, Redemption
    <2>2. ASSUME NEW b \in Borrowers, RedeemFromTrove(b) \/ CancelPartial(b) \/ SkipTrove(b)
          PROVE  BatchVCInv'
      BY <2>2, <1>b DEF RedeemFromTrove, CancelPartial, SkipTrove, Redemption
    <2>3. CASE FinishRedemption
      BY <2>3, <1>b DEF FinishRedemption
    <2>4. ASSUME NEW b \in Borrowers, NEW t, NEW amount, RedeemSingle(b, t, amount)
          PROVE  BatchVCInv'
      BY <2>4, <1>a DEF RedeemSingle
    <2> QED
      BY <1>5, <2>1, <2>2, <2>3, <2>4 DEF Redeem
  <1>6. CASE UNCHANGED vars
    <2>1. UNCHANGED <<tx, price, activeColl, defaultColl>>
      BY <1>6 DEF vars, activeVars, defaultVars
    <2>2. SystemVC' = SystemVC
      BY <2>1 DEF SystemVC
    <2>3. Drift' = Drift /\ ClosedByBatch' = ClosedByBatch
      BY <2>1, <2>2 DEF Drift, ClosedByBatch
    <2>4. Rounded' = Rounded
      BY DEF Rounded, RoundedTokens
    <2> HIDE DEF Drift, ClosedByBatch, Rounded
    <2> QED
      BY <2>1, <2>3, <2>4 DEF BatchVCInv
  <1> QED
    BY <1>1, <1>2, <1>3, <1>4, <1>5, <1>6 DEF Next

LEMMA BatchMeaning ==
  ASSUME BatchTracksDebt, BatchVCInv
  PROVE  BatchTracksSystem
  <1>1. ASSUME tx.kind = "liquidation", tx.recovery
        PROVE  Drift \in -(Rounded * ClosedByBatch)..(4 * (Rounded * ClosedByBatch))
    BY <1>1 DEF BatchVCInv
  <1> QED
    BY <1>1 DEF BatchTracksSystem, Drift, Rounded

\* A batch that began in Recovery Mode knows, at each step, the debt and but
\* for rounding the collateral value that the system is left with, and never
\* offsets more YUSD than StabilityPool holds.
THEOREM BatchAlwaysTracksSystem == Spec => []BatchTracksSystem
  <1>1. Init => BatchVCInv
    BY InitBatchVC
  <1>2. AllInv /\ TotalsInv /\ BatchVCInv => BatchTracksSystem
    BY BatchMeaning DEF TotalsInv
  <1> QED
    BY <1>1, <1>2, NextBatchVC, TotalsInvAlways, PTL DEF Spec

-----------------------------------------------------------------------------
(* Claims on ActivePool.  A redemption takes from a trove what it has with  *)
(* all its pending rewards, of every token; the rewards that were moved to  *)
(* ActivePool before are those that hasPendingRewards saw.                  *)

\* A trove with rewards that hasPendingRewards does not see: in a token that
\* it gave up, and still has a stake in.
Overlooked(b) == ~HasPendingRewards(b) /\ PendingColl(b) # NoColls

\* A redemption against such a trove.
RedeemsOverlooked ==
  \E b \in Borrowers :
    /\ Overlooked(b)
    /\ \/ RedeemFromTrove(b)
       \/ \E t \in Tokens, amount \in Redemptions : RedeemSingle(b, t, amount)

CollOf(t) == [b \in Borrowers |-> colls[b][t]]
CollSum(t) == SumFunctionOnSet(CollOf(t), Borrowers)

\* What ActivePool holds beyond the troves' collateral.
Slack(t) == activeColl[t] - CollSum(t) - InFlightColl(t)

NeverLess == \A t \in Tokens : Slack(t)' >= Slack(t)

LEMMA InFlightCollType ==
  ASSUME TypesInv, NEW t \in Tokens
  PROVE  InFlightColl(t) \in Nat
  <1>1. CASE tx.kind = "liquidation"
    <2>1. /\ tx.totals.toSP[t] \in Nat /\ tx.totals.toRedist[t] \in Nat
          /\ tx.totals.toSurplus[t] \in Nat /\ tx.totals.gas[t] \in Nat
      BY <1>1, LiquidationFields DEF TypesInv, TxInv, Colls
    <2> QED
      BY <1>1, <2>1 DEF InFlightColl
  <1>2. CASE tx.kind # "liquidation"
    <2>1. tx.kind = "redemption" => tx.drawn[t] \in Nat
      BY RedemptionFields DEF TypesInv, TxInv, Colls
    <2> QED
      BY <1>2, <2>1 DEF InFlightColl
  <1> QED
    BY <1>1, <1>2

\* The same of the next state.
LEMMA InFlightCollTypeAfter ==
  ASSUME TypesInv', NEW t \in Tokens
  PROVE  InFlightColl(t)' \in Nat
  <1>1. CASE tx'.kind = "liquidation"
    <2>1. tx' \in TxTypes
      BY DEF TypesInv, TxInv
    <2>2. /\ tx'.totals.toSP[t] \in Nat /\ tx'.totals.toRedist[t] \in Nat
          /\ tx'.totals.toSurplus[t] \in Nat /\ tx'.totals.gas[t] \in Nat
      BY <1>1, <2>1 DEF TxTypes, NoTx, Colls
    <2> QED
      BY <1>1, <2>2 DEF InFlightColl
  <1>2. CASE tx'.kind # "liquidation"
    <2>1. tx'.kind = "redemption" => tx'.drawn[t] \in Nat
      BY DEF TypesInv, TxInv, TxTypes, NoTx, Colls
    <2> QED
      BY <1>2, <2>1 DEF InFlightColl
  <1> QED
    BY <1>1, <1>2

LEMMA CollSumType ==
  ASSUME TroveTypeOK, NEW t \in Tokens
  PROVE  CollSum(t) \in Nat
  <1>1. \A x \in Borrowers : CollOf(t)[x] \in Nat
    BY DEF CollOf, TroveTypeOK, Colls
  <1> QED
    BY <1>1, SumNat, BorrowersAssumption DEF CollSum

LEMMA CollSumChanges ==
  ASSUME TroveTypeOK, TroveTypeOK', NEW b \in Borrowers, NEW t \in Tokens,
         \A x \in Borrowers \ {b} : colls'[x] = colls[x]
  PROVE  CollSum(t)' = CollSum(t) - colls[b][t] + colls'[b][t]
  <1> DEFINE f == CollOf(t)
             g == [x \in Borrowers |-> colls'[x][t]]
  <1>1. \A x \in Borrowers : f[x] \in Int /\ g[x] \in Int
    BY DEF CollOf, TroveTypeOK, Colls
  <1>2. \A x \in Borrowers \ {b} : g[x] = f[x]
    BY DEF CollOf
  <1>3. f[b] = colls[b][t] /\ g[b] = colls'[b][t]
    BY DEF CollOf
  <1>4. CollSum(t) = SumFunctionOnSet(f, Borrowers) /\ CollSum(t)' = SumFunctionOnSet(g, Borrowers)
    BY DEF CollSum, CollOf
  <1> HIDE DEF f, g
  <1> QED
    BY <1>1, <1>2, <1>3, <1>4, BorrowersAssumption, SumUpdate

\* One trove's collateral moves, and ActivePool's counter follows.
LEMMA SlackMoves ==
  ASSUME AllInv, AllInv', NEW b \in Borrowers, NEW t \in Tokens,
         \A x \in Borrowers \ {b} : colls'[x] = colls[x],
         activeColl'[t] - InFlightColl(t)' - colls'[b][t]
           >= activeColl[t] - InFlightColl(t) - colls[b][t]
  PROVE  Slack(t)' >= Slack(t)
  <1>1. CollSum(t)' = CollSum(t) - colls[b][t] + colls'[b][t]
    BY CollSumChanges DEF AllInv, TypesInv
  <1>2. CollSum(t) \in Nat /\ colls[b][t] \in Nat /\ colls'[b][t] \in Nat
    BY CollSumType DEF AllInv, TypesInv, TroveTypeOK, Colls
  <1>3. activeColl[t] \in Nat /\ activeColl'[t] \in Nat
    BY DEF AllInv, TypesInv, PoolTypeOK, Colls
  <1>4. InFlightColl(t) \in Nat /\ InFlightColl(t)' \in Nat
    BY InFlightCollType, InFlightCollTypeAfter DEF AllInv
  <1>5. /\ Slack(t) = activeColl[t] - CollSum(t) - InFlightColl(t)
        /\ Slack(t)' = activeColl'[t] - CollSum(t)' - InFlightColl(t)'
    BY DEF Slack
  <1> HIDE DEF InFlightColl, CollSum
  <1> QED
    BY <1>1, <1>2, <1>3, <1>4, <1>5

\* No trove's collateral moves.
LEMMA SlackStays ==
  ASSUME AllInv, AllInv', NEW t \in Tokens, colls' = colls,
         activeColl'[t] - InFlightColl(t)' >= activeColl[t] - InFlightColl(t)
  PROVE  Slack(t)' >= Slack(t)
  <1>1. CollSum(t)' = CollSum(t) /\ CollSum(t) \in Nat
    BY CollSumType DEF CollSum, CollOf, AllInv, TypesInv
  <1>2. activeColl[t] \in Nat /\ activeColl'[t] \in Nat
    BY DEF AllInv, TypesInv, PoolTypeOK, Colls
  <1>3. InFlightColl(t) \in Nat /\ InFlightColl(t)' \in Nat
    BY InFlightCollType, InFlightCollTypeAfter DEF AllInv
  <1>4. /\ Slack(t) = activeColl[t] - CollSum(t) - InFlightColl(t)
        /\ Slack(t)' = activeColl'[t] - CollSum(t)' - InFlightColl(t)'
    BY DEF Slack
  <1> HIDE DEF InFlightColl, CollSum
  <1> QED
    BY <1>1, <1>2, <1>3, <1>4

LEMMA QuietSlack ==
  ASSUME AllInv, AllInv', UNCHANGED <<tx, colls, activeColl>>
  PROVE  NeverLess
  <1> SUFFICES ASSUME NEW t \in Tokens PROVE Slack(t)' >= Slack(t)
    BY DEF NeverLess
  <1>1. InFlightColl(t)' = InFlightColl(t) /\ InFlightColl(t) \in Nat
    BY InFlightCollType DEF InFlightColl, AllInv
  <1>2. activeColl[t] \in Nat /\ activeColl'[t] = activeColl[t]
    BY DEF AllInv, TypesInv, PoolTypeOK, Colls
  <1> HIDE DEF InFlightColl
  <1> QED
    BY <1>1, <1>2, SlackStays

LEMMA IdleInFlight ==
  /\ tx = NoTx => \A t : InFlightColl(t) = 0
  /\ tx' = NoTx => \A t : InFlightColl(t)' = 0
  /\ tx.kind = "redemption" => \A t : InFlightColl(t) = tx.drawn[t]
  /\ tx'.kind = "redemption" => \A t : InFlightColl(t)' = tx'.drawn[t]
  BY DEF InFlightColl, NoTx

\* A wrapped token is sent without being counted.
LEMMA UnwrappedKeeps ==
  ASSUME NEW t \in Tokens, NEW c, NEW d, NEW sold, c[t] \in Int, d[t] \in Nat
  PROVE  Unwrapped(c, d, sold)[t] \in Int /\ Unwrapped(c, d, sold)[t] >= c[t] - d[t]
  BY DEF Unwrapped

-----------------------------------------------------------------------------
LEMMA OpenTroveSlack ==
  ASSUME AllInv, AllInv', NEW b \in Borrowers, NEW c \in OpenColls, NEW y, NEW bfee, NEW vfee,
         OpenTrove(b, c, y, bfee, vfee)
  PROVE  NeverLess
  <1> SUFFICES ASSUME NEW t \in Tokens PROVE Slack(t)' >= Slack(t)
    BY DEF NeverLess
  <1>1. /\ tx = NoTx /\ tx' = NoTx
        /\ colls' = [colls EXCEPT ![b] = c]
        /\ activeColl' = SumColls(activeColl, c)
    BY DEF OpenTrove, Idle
  <1>2. colls \in [Borrowers -> Colls] /\ activeColl \in Colls /\ c \in Colls
    BY InputAssumption DEF AllInv, TypesInv, TroveTypeOK, PoolTypeOK
  <1>3. /\ \A x \in Borrowers \ {b} : colls'[x] = colls[x]
        /\ colls'[b] = c /\ activeColl'[t] = activeColl[t] + c[t]
    BY <1>1, <1>2 DEF SumColls
  <1>4. c[t] \in Nat /\ colls[b][t] \in Nat /\ activeColl[t] \in Nat
    BY <1>2 DEF Colls
  <1>5. InFlightColl(t) = 0 /\ InFlightColl(t)' = 0
    BY <1>1, IdleInFlight
  <1>6. activeColl'[t] - InFlightColl(t)' - colls'[b][t]
          >= activeColl[t] - InFlightColl(t) - colls[b][t]
    BY <1>3, <1>4, <1>5
  <1> QED
    BY <1>3, <1>6, SlackMoves

LEMMA AdjustTroveSlack ==
  ASSUME AllInv, AllInv', NEW b \in Borrowers, NEW cIn \in Colls, NEW cOut \in Colls,
         NEW y, NEW up, NEW bfee, NEW vfee, NEW sold,
         AdjustTrove(b, cIn, cOut, y, up, bfee, vfee, sold)
  PROVE  NeverLess
  <1> SUFFICES ASSUME NEW t \in Tokens PROVE Slack(t)' >= Slack(t)
    BY DEF NeverLess
  <1> DEFINE ac == AppliedColl(b)
             new == SubColls(SumColls(SumColls(colls[b], ac), cIn), cOut)
             held == SumColls(SumColls(activeColl, ac), cIn)
  <1>1. /\ tx = NoTx /\ tx' = NoTx
        /\ CanMovePending(AppliedDebt(b), ac)
        /\ colls' = [colls EXCEPT ![b] = new]
        /\ activeColl' = Unwrapped(held, cOut, sold)
    BY DEF AdjustTrove, Idle
  <1>2. colls \in [Borrowers -> Colls] /\ activeColl \in Colls /\ ac \in Colls
    BY <1>1, AppliedFits DEF AllInv, TypesInv, TroveTypeOK, PoolTypeOK
  <1> HIDE DEF ac
  <1>3. /\ new[t] = colls[b][t] + ac[t] + cIn[t] - cOut[t]
        /\ held[t] = activeColl[t] + ac[t] + cIn[t]
    <2>1. /\ SumColls(colls[b], ac)[t] = colls[b][t] + ac[t]
          /\ SumColls(activeColl, ac)[t] = activeColl[t] + ac[t]
      BY DEF SumColls
    <2>2. /\ SumColls(SumColls(colls[b], ac), cIn)[t] = SumColls(colls[b], ac)[t] + cIn[t]
          /\ held[t] = SumColls(activeColl, ac)[t] + cIn[t]
      BY DEF SumColls
    <2>3. new[t] = SumColls(SumColls(colls[b], ac), cIn)[t] - cOut[t]
      BY DEF SubColls
    <2>4. /\ colls[b][t] \in Nat /\ activeColl[t] \in Nat /\ ac[t] \in Nat
          /\ cIn[t] \in Nat /\ cOut[t] \in Nat
      BY <1>2 DEF Colls
    <2> HIDE DEF new, held
    <2> QED
      BY <2>1, <2>2, <2>3, <2>4
  <1>4. /\ colls[b][t] \in Nat /\ activeColl[t] \in Nat /\ ac[t] \in Nat
        /\ cIn[t] \in Nat /\ cOut[t] \in Nat
    BY <1>2 DEF Colls
  <1> HIDE DEF new, held
  <1>5. (\A x \in Borrowers \ {b} : colls'[x] = colls[x]) /\ colls'[b] = new
    BY <1>1, <1>2
  <1>6. activeColl'[t] \in Int /\ activeColl'[t] >= held[t] - cOut[t]
    BY <1>1, <1>3, <1>4, UnwrappedKeeps
  <1>7. InFlightColl(t) = 0 /\ InFlightColl(t)' = 0
    BY <1>1, IdleInFlight
  <1>8. activeColl'[t] - InFlightColl(t)' - colls'[b][t]
          >= activeColl[t] - InFlightColl(t) - colls[b][t]
    BY <1>3, <1>4, <1>5, <1>6, <1>7
  <1> QED
    BY <1>5, <1>8, SlackMoves

LEMMA CloseTroveSlack ==
  ASSUME AllInv, AllInv', NEW b \in Borrowers, NEW unlever, NEW sold, CloseTrove(b, unlever, sold)
  PROVE  NeverLess
  <1> SUFFICES ASSUME NEW t \in Tokens PROVE Slack(t)' >= Slack(t)
    BY DEF NeverLess
  <1> DEFINE ac == AppliedColl(b)
             c == SumColls(colls[b], ac)
             held == SumColls(activeColl, ac)
  <1>1. /\ tx = NoTx /\ tx' = NoTx
        /\ CanMovePending(AppliedDebt(b), ac)
        /\ colls' = [colls EXCEPT ![b] = NoColls]
        /\ activeColl' = Unwrapped(held, c, sold)
    BY DEF CloseTrove, CloseAs, Idle
  <1>2. colls \in [Borrowers -> Colls] /\ activeColl \in Colls /\ ac \in Colls
    BY <1>1, AppliedFits DEF AllInv, TypesInv, TroveTypeOK, PoolTypeOK
  <1> HIDE DEF ac
  <1>3. c[t] = colls[b][t] + ac[t] /\ held[t] = activeColl[t] + ac[t]
    BY DEF SumColls
  <1>4. colls[b][t] \in Nat /\ activeColl[t] \in Nat /\ ac[t] \in Nat
    BY <1>2 DEF Colls
  <1> HIDE DEF c, held
  <1>5. (\A x \in Borrowers \ {b} : colls'[x] = colls[x]) /\ colls'[b][t] = 0
    BY <1>1, <1>2 DEF NoColls
  <1>6. activeColl'[t] \in Int /\ activeColl'[t] >= held[t] - c[t]
    BY <1>1, <1>3, <1>4, UnwrappedKeeps
  <1>7. InFlightColl(t) = 0 /\ InFlightColl(t)' = 0
    BY <1>1, IdleInFlight
  <1>8. activeColl'[t] - InFlightColl(t)' - colls'[b][t]
          >= activeColl[t] - InFlightColl(t) - colls[b][t]
    BY <1>3, <1>4, <1>5, <1>6, <1>7
  <1> QED
    BY <1>5, <1>8, SlackMoves

LEMMA BeginLiquidationSlack ==
  ASSUME AllInv, AllInv', BeginLiquidation
  PROVE  NeverLess
  <1> SUFFICES ASSUME NEW t \in Tokens PROVE Slack(t)' >= Slack(t)
    BY DEF NeverLess
  <1>1. /\ tx = NoTx /\ tx'.kind = "liquidation"
        /\ tx'.totals = Split(0, 0, NoColls, NoColls, NoColls, NoColls)
        /\ UNCHANGED <<colls, activeColl>>
    BY DEF BeginLiquidation, Idle, troveVars, activeVars
  <1>2. InFlightColl(t) = 0 /\ InFlightColl(t)' = 0
    BY <1>1, IdleInFlight DEF InFlightColl, Split, NoColls
  <1>3. activeColl[t] \in Nat
    BY PoolsOf
  <1> QED
    BY <1>1, <1>2, <1>3, SlackStays

LEMMA LiquidateAsSlack ==
  ASSUME AllInv, AllInv', tx.kind = "liquidation", NEW b \in Borrowers, NEW v,
         SplitColls(v, EntireColl(b)), LiquidateAs(b, v)
  PROVE  NeverLess
  <1> SUFFICES ASSUME NEW t \in Tokens PROVE Slack(t)' >= Slack(t)
    BY DEF NeverLess
  <1> DEFINE pc == PendingColl(b)
             in == tx.totals
  <1>1. /\ activeColl' = SumColls(activeColl, pc)
        /\ colls' = [colls EXCEPT ![b] = NoColls]
        /\ tx'.kind = "liquidation" /\ tx'.totals = AddSplit(tx.totals, v)
    BY DEF LiquidateAs, CloseAs
  <1>2. colls \in [Borrowers -> Colls] /\ activeColl \in Colls /\ pc \in Colls
    BY PendingCollType DEF AllInv, TypesInv, TroveTypeOK, PoolTypeOK
  <1>3. v.toSP[t] + v.toRedist[t] + v.toSurplus[t] + v.gas[t] = colls[b][t] + pc[t]
    BY DEF SplitColls, EntireColl, SumColls
  <1> HIDE DEF pc
  <1>4. /\ colls[b][t] \in Nat /\ activeColl[t] \in Nat /\ pc[t] \in Nat
        /\ v.toSP[t] \in Nat /\ v.toRedist[t] \in Nat /\ v.toSurplus[t] \in Nat /\ v.gas[t] \in Nat
    BY <1>2 DEF Colls, SplitColls
  <1>5. in.toSP[t] \in Nat /\ in.toRedist[t] \in Nat /\ in.toSurplus[t] \in Nat /\ in.gas[t] \in Nat
    BY LiquidationFields DEF AllInv, TypesInv, TxInv, Colls
  <1>6. /\ tx'.totals.toSP[t] = in.toSP[t] + v.toSP[t]
        /\ tx'.totals.toRedist[t] = in.toRedist[t] + v.toRedist[t]
        /\ tx'.totals.toSurplus[t] = in.toSurplus[t] + v.toSurplus[t]
        /\ tx'.totals.gas[t] = in.gas[t] + v.gas[t]
    BY <1>1 DEF AddSplit, Split, SumColls
  <1>7. /\ InFlightColl(t) = in.toSP[t] + in.toRedist[t] + in.toSurplus[t] + in.gas[t]
        /\ InFlightColl(t)' = tx'.totals.toSP[t] + tx'.totals.toRedist[t]
                              + tx'.totals.toSurplus[t] + tx'.totals.gas[t]
    BY <1>1 DEF InFlightColl
  <1>8. /\ \A x \in Borrowers \ {b} : colls'[x] = colls[x]
        /\ colls'[b][t] = 0 /\ activeColl'[t] = activeColl[t] + pc[t]
    BY <1>1, <1>2 DEF NoColls, SumColls
  <1> HIDE DEF in, InFlightColl
  <1>9. InFlightColl(t)' = InFlightColl(t) + colls[b][t] + pc[t] /\ InFlightColl(t) \in Nat
    <2>1. InFlightColl(t)' = (in.toSP[t] + v.toSP[t]) + (in.toRedist[t] + v.toRedist[t])
                             + (in.toSurplus[t] + v.toSurplus[t]) + (in.gas[t] + v.gas[t])
      BY <1>6, <1>7
    <2> QED
      BY <1>3, <1>4, <1>5, <1>7, <2>1
  <1>10. activeColl'[t] - InFlightColl(t)' - colls'[b][t]
           >= activeColl[t] - InFlightColl(t) - colls[b][t]
    BY <1>4, <1>8, <1>9
  <1> QED
    BY <1>8, <1>10, SlackMoves

LEMMA FinishLiquidationSlack ==
  ASSUME AllInv, AllInv', FinishLiquidation
  PROVE  NeverLess
  <1> SUFFICES ASSUME NEW t \in Tokens PROVE Slack(t)' >= Slack(t)
    BY DEF NeverLess
  <1> DEFINE v == tx.totals
             rc == RedistributedColl(v)
             leaves == SumColls(SumColls(v.toSP, v.toSurplus), rc)
             rest == SubColls(activeColl, leaves)
  <1>1. /\ tx.kind = "liquidation" /\ tx' = NoTx /\ colls' = colls
        /\ activeColl' = Unwrapped(rest, v.gas, {})
    BY DEF FinishLiquidation, troveVars
  <1>2. v.toSP \in Colls /\ v.toRedist \in Colls /\ v.toSurplus \in Colls /\ v.gas \in Colls
    BY <1>1, LiquidationFields DEF AllInv, TypesInv, TxInv
  <1>3. rc[t] \in Nat /\ rc[t] <= v.toRedist[t]
    BY <1>2 DEF RedistributedColl, NoColls, Colls
  <1>4. rest[t] = activeColl[t] - (v.toSP[t] + v.toSurplus[t] + rc[t])
    BY DEF SumColls, SubColls
  <1>5. /\ activeColl[t] \in Nat /\ v.toSP[t] \in Nat /\ v.toRedist[t] \in Nat
        /\ v.toSurplus[t] \in Nat /\ v.gas[t] \in Nat
    BY <1>2, PoolsOf DEF Colls
  <1>6. InFlightColl(t) = v.toSP[t] + v.toRedist[t] + v.toSurplus[t] + v.gas[t]
        /\ InFlightColl(t)' = 0
    BY <1>1, IdleInFlight DEF InFlightColl
  <1> HIDE DEF v, rc, leaves, rest, InFlightColl
  <1>7. rest[t] \in Int
    BY <1>3, <1>4, <1>5
  <1>8. activeColl'[t] \in Int /\ activeColl'[t] >= rest[t] - v.gas[t]
    BY <1>1, <1>5, <1>7, UnwrappedKeeps
  <1>9. activeColl'[t] - InFlightColl(t)' >= activeColl[t] - InFlightColl(t)
    BY <1>3, <1>4, <1>5, <1>6, <1>7, <1>8
  <1> QED
    BY <1>1, <1>9, SlackStays

LEMMA BeginRedemptionSlack ==
  ASSUME AllInv, AllInv', NEW amount \in Redemptions, NEW b, BeginRedemption(amount, b)
  PROVE  NeverLess
  <1> SUFFICES ASSUME NEW t \in Tokens PROVE Slack(t)' >= Slack(t)
    BY DEF NeverLess
  <1>1. /\ tx = NoTx /\ tx' = Redemption(b, amount, 0, NoColls)
        /\ UNCHANGED <<colls, activeColl>>
    BY DEF BeginRedemption, Idle, troveVars, activeVars
  <1>2. tx'.kind = "redemption" /\ tx'.drawn[t] = 0
    BY <1>1 DEF Redemption, NoColls
  <1>3. InFlightColl(t) = 0 /\ InFlightColl(t)' = 0
    BY <1>1, <1>2, IdleInFlight
  <1>4. activeColl[t] \in Nat
    BY PoolsOf
  <1> QED
    BY <1>1, <1>3, <1>4, SlackStays

\* A redemption against b leaves left of it and sends collOut: the counter
\* goes down by what the trove loses and no more.
LEMMA ReduceTroveSlack ==
  ASSUME AllInv, NEW b \in Borrowers, NEW t \in Tokens, NEW c, NEW left \in Colls,
         NEW new \in Nat, NEW collOut \in Colls, NEW debtOut \in Nat,
         ReduceTrove(b, c, left, new, collOut, debtOut)
  PROVE  /\ AppliedColl(b)[t] \in Nat
         /\ \A x \in Borrowers \ {b} : colls'[x] = colls[x]
         /\ activeColl'[t] \in Int /\ colls'[b][t] \in Nat
         /\ activeColl'[t] - colls'[b][t]
              >= activeColl[t] + AppliedColl(b)[t] - left[t] - collOut[t]
  <1> DEFINE ac == AppliedColl(b)
             coll == SumColls(activeColl, ac)
             rest == SubColls(coll, left)
  <1>1. /\ CanMovePending(AppliedDebt(b), ac)
        /\ new = GasCompensation => /\ colls' = [colls EXCEPT ![b] = NoColls]
                                    /\ activeColl' = Unwrapped(rest, collOut, {})
        /\ new # GasCompensation => /\ colls' = [colls EXCEPT ![b] = left]
                                    /\ activeColl' = Unwrapped(coll, collOut, {})
    BY DEF ReduceTrove, CloseAs
  <1>2. colls \in [Borrowers -> Colls] /\ ac \in Colls
    BY <1>1, AppliedFits DEF AllInv, TypesInv, TroveTypeOK
  <1> HIDE DEF ac
  <1>3. /\ activeColl[t] \in Nat /\ ac[t] \in Nat /\ left[t] \in Nat /\ collOut[t] \in Nat
    BY <1>2, PoolsOf DEF Colls
  <1>4. coll[t] = activeColl[t] + ac[t] /\ rest[t] = coll[t] - left[t]
    BY DEF SumColls, SubColls
  <1> HIDE DEF coll, rest
  <1>5. coll[t] \in Int /\ rest[t] \in Int
    BY <1>3, <1>4
  <1>6. CASE new = GasCompensation
    <2>1. colls'[b][t] = 0
      BY <1>1, <1>2, <1>6 DEF NoColls
    <2>2. activeColl'[t] \in Int /\ activeColl'[t] >= rest[t] - collOut[t]
      BY <1>1, <1>3, <1>5, <1>6, UnwrappedKeeps
    <2>3. activeColl'[t] - colls'[b][t] >= activeColl[t] + ac[t] - left[t] - collOut[t]
      BY <1>3, <1>4, <2>1, <2>2
    <2> QED
      BY <1>1, <1>2, <1>3, <1>6, <2>1, <2>2, <2>3 DEF ac
  <1>7. CASE new # GasCompensation
    <2>1. colls'[b][t] = left[t]
      BY <1>1, <1>2, <1>7
    <2>2. activeColl'[t] \in Int /\ activeColl'[t] >= coll[t] - collOut[t]
      BY <1>1, <1>3, <1>5, <1>7, UnwrappedKeeps
    <2>3. activeColl'[t] - colls'[b][t] >= activeColl[t] + ac[t] - left[t] - collOut[t]
      BY <1>3, <1>4, <2>1, <2>2
    <2> QED
      BY <1>1, <1>2, <1>3, <1>7, <2>1, <2>2, <2>3 DEF ac
  <1> QED
    BY <1>6, <1>7

\* What a redemption sees of a trove that it does not overlook.
LEMMA RedeemedColl ==
  ASSUME AllInv, NEW b \in Borrowers, NEW t \in Tokens, ~Overlooked(b)
  PROVE  EntireColl(b)[t] = colls[b][t] + AppliedColl(b)[t] /\ colls[b][t] \in Nat
  <1>1. PendingColl(b) = AppliedColl(b)
    BY DEF Overlooked, AppliedColl
  <1>2. colls[b][t] \in Nat
    BY DEF AllInv, TypesInv, TroveTypeOK, Colls
  <1> QED
    BY <1>1, <1>2 DEF EntireColl, SumColls

LEMMA RedeemFromTroveSlack ==
  ASSUME AllInv, AllInv', NEW b \in Borrowers, RedeemFromTrove(b), ~Overlooked(b)
  PROVE  NeverLess
  <1> SUFFICES ASSUME NEW t \in Tokens PROVE Slack(t)' >= Slack(t)
    BY DEF NeverLess
  <1> DEFINE d == debt[b] + AppliedDebt(b)
             c == EntireColl(b)
             lot == Smaller(tx.remaining, d - GasCompensation)
             cut == Cut(lot, c)
             left == SubColls(c, cut)
             new == d - lot
  <1>1. /\ tx.kind = "redemption"
        /\ GasCompensation <= d
        /\ CanCut(lot, c)
        /\ ReduceTrove(b, c, left, new, NoColls, 0)
        /\ tx' = Redemption(Prev(b), tx.remaining - lot, tx.redeemed + lot, SumColls(tx.drawn, cut))
    BY DEF RedeemFromTrove
  <1>2. tx.remaining \in Nat /\ tx.drawn \in Colls
    BY <1>1, RedemptionFields DEF AllInv, TypesInv, TxInv
  <1>3. d \in Nat /\ c \in Colls
    BY EntireTypes DEF AllInv, TypesInv
  <1>4. c[t] = colls[b][t] + AppliedColl(b)[t] /\ colls[b][t] \in Nat
    BY RedeemedColl
  <1> HIDE DEF d, c
  <1>5. lot \in Nat /\ new \in Nat
    BY <1>1, <1>2, <1>3, ScaleAssumption DEF Smaller
  <1> HIDE DEF lot, new
  <1>6. cut \in Colls /\ left \in Colls /\ NoColls \in Colls
    BY <1>1, <1>3, <1>5, CutType, NoCollsType DEF AllInv, TypesInv
  <1>7. left[t] = c[t] - cut[t] /\ cut[t] \in Nat /\ NoColls[t] = 0 /\ tx.drawn[t] \in Nat
    BY <1>2, <1>6 DEF SubColls, NoColls, Colls
  <1> HIDE DEF cut, left
  <1>8. /\ AppliedColl(b)[t] \in Nat
        /\ \A x \in Borrowers \ {b} : colls'[x] = colls[x]
        /\ activeColl'[t] \in Int /\ colls'[b][t] \in Nat
        /\ activeColl'[t] - colls'[b][t]
             >= activeColl[t] + AppliedColl(b)[t] - left[t] - NoColls[t]
    <2>1. 0 \in Nat
      OBVIOUS
    <2> QED
      BY <1>1, <1>5, <1>6, <2>1, ReduceTroveSlack
  <1>9. tx'.kind = "redemption" /\ tx'.drawn[t] = tx.drawn[t] + cut[t]
    BY <1>1 DEF Redemption, SumColls
  <1>10. InFlightColl(t) = tx.drawn[t] /\ InFlightColl(t)' = tx.drawn[t] + cut[t]
    BY <1>1, <1>9, IdleInFlight
  <1>11. activeColl[t] \in Nat
    BY PoolsOf
  <1>12. activeColl'[t] - InFlightColl(t)' - colls'[b][t]
           >= activeColl[t] - InFlightColl(t) - colls[b][t]
    BY <1>4, <1>7, <1>8, <1>10, <1>11
  <1> QED
    BY <1>8, <1>12, SlackMoves

LEMMA RedeemSingleSlack ==
  ASSUME AllInv, AllInv', NEW b \in Borrowers, NEW u \in Tokens, NEW amount \in Redemptions,
         RedeemSingle(b, u, amount), ~Overlooked(b)
  PROVE  NeverLess
  <1> SUFFICES ASSUME NEW t \in Tokens PROVE Slack(t)' >= Slack(t)
    BY DEF NeverLess
  <1> DEFINE d == debt[b] + AppliedDebt(b)
             c == EntireColl(b)
             worth == ValueUSD(price, u, c[u])
             lot == Smaller(worth, Smaller(amount, d - GasCompensation))
             cut == [NoColls EXCEPT ![u] = (lot * c[u]) \div worth]
             left == SubColls(c, cut)
             new == d - lot
  <1>1. /\ tx = NoTx /\ tx' = NoTx
        /\ GasCompensation <= d /\ amount \in Nat
        /\ Covers(c, cut)
        /\ ReduceTrove(b, c, left, new, cut, lot)
    BY InputAssumption DEF RedeemSingle, Idle
  <1>2. d \in Nat /\ c \in Colls
    BY EntireTypes DEF AllInv, TypesInv
  <1>3. c[t] = colls[b][t] + AppliedColl(b)[t] /\ colls[b][t] \in Nat
    BY RedeemedColl
  <1> HIDE DEF d, c
  <1>4. worth \in Nat
    <2>1. price \in [Tokens -> Prices] /\ c[u] \in Nat
      BY <1>2 DEF AllInv, TypesInv, PoolTypeOK, Colls
    <2> QED
      BY <2>1, ValueUSDType
  <1> HIDE DEF worth
  <1>5. lot \in Nat /\ new \in Nat
    BY <1>1, <1>2, <1>4, ScaleAssumption DEF Smaller
  <1> HIDE DEF lot, new
  <1>6. cut \in Colls /\ left \in Colls
    <2>1. ASSUME NEW x \in Tokens PROVE cut[x] \in Nat
      BY <1>1, <1>2 DEF Covers, Colls
    <2>2. cut = [x \in Tokens |-> cut[x]]
      BY DEF NoColls
    <2> HIDE DEF cut
    <2>3. cut \in Colls
      BY <2>1, <2>2 DEF Colls
    <2> QED
      BY <1>1, <1>2, <2>3, SubCollsType
  <1> HIDE DEF cut
  <1>7. left[t] = c[t] - cut[t] /\ cut[t] \in Nat
    BY <1>6 DEF SubColls, Colls
  <1> HIDE DEF left
  <1>8. /\ AppliedColl(b)[t] \in Nat
        /\ \A x \in Borrowers \ {b} : colls'[x] = colls[x]
        /\ activeColl'[t] \in Int /\ colls'[b][t] \in Nat
        /\ activeColl'[t] - colls'[b][t]
             >= activeColl[t] + AppliedColl(b)[t] - left[t] - cut[t]
    BY <1>1, <1>5, <1>6, ReduceTroveSlack
  <1>9. InFlightColl(t) = 0 /\ InFlightColl(t)' = 0
    BY <1>1, IdleInFlight
  <1>10. activeColl[t] \in Nat
    BY PoolsOf
  <1>11. activeColl'[t] - InFlightColl(t)' - colls'[b][t]
           >= activeColl[t] - InFlightColl(t) - colls[b][t]
    BY <1>3, <1>7, <1>8, <1>9, <1>10
  <1> QED
    BY <1>8, <1>11, SlackMoves

LEMMA CancelPartialSlack ==
  ASSUME AllInv, AllInv', NEW b \in Borrowers, CancelPartial(b)
  PROVE  NeverLess
  <1> SUFFICES ASSUME NEW t \in Tokens PROVE Slack(t)' >= Slack(t)
    BY DEF NeverLess
  <1> DEFINE ac == AppliedColl(b)
  <1>1. /\ tx.kind = "redemption"
        /\ CanMovePending(AppliedDebt(b), ac)
        /\ activeColl' = SumColls(activeColl, ac)
        /\ colls' = [colls EXCEPT ![b] = SumColls(@, ac)]
        /\ tx' = Redemption(NoTrove, tx.remaining, tx.redeemed, tx.drawn)
    BY DEF CancelPartial
  <1>2. colls \in [Borrowers -> Colls] /\ ac \in Colls /\ tx.drawn \in Colls
    BY <1>1, AppliedFits, RedemptionFields DEF AllInv, TypesInv, TroveTypeOK, TxInv
  <1> HIDE DEF ac
  <1>3. /\ \A x \in Borrowers \ {b} : colls'[x] = colls[x]
        /\ colls'[b][t] = colls[b][t] + ac[t] /\ activeColl'[t] = activeColl[t] + ac[t]
    BY <1>1, <1>2 DEF SumColls
  <1>4. colls[b][t] \in Nat /\ activeColl[t] \in Nat /\ ac[t] \in Nat /\ tx.drawn[t] \in Nat
    BY <1>2, PoolsOf DEF Colls
  <1>5. InFlightColl(t) = tx.drawn[t] /\ InFlightColl(t)' = tx.drawn[t]
    <2>1. tx'.kind = "redemption" /\ tx'.drawn = tx.drawn
      BY <1>1 DEF Redemption
    <2> QED
      BY <1>1, <2>1, IdleInFlight
  <1>6. activeColl'[t] - InFlightColl(t)' - colls'[b][t]
          >= activeColl[t] - InFlightColl(t) - colls[b][t]
    BY <1>3, <1>4, <1>5
  <1> QED
    BY <1>3, <1>6, SlackMoves

LEMMA SkipTroveSlack ==
  ASSUME AllInv, AllInv', NEW b \in Borrowers, SkipTrove(b)
  PROVE  NeverLess
  <1> SUFFICES ASSUME NEW t \in Tokens PROVE Slack(t)' >= Slack(t)
    BY DEF NeverLess
  <1>1. /\ tx.kind = "redemption"
        /\ tx' = Redemption(Prev(b), tx.remaining, tx.redeemed, tx.drawn)
        /\ UNCHANGED <<colls, activeColl>>
    BY DEF SkipTrove, troveVars, activeVars
  <1>2. tx'.kind = "redemption" /\ tx'.drawn = tx.drawn
    BY <1>1 DEF Redemption
  <1>3. InFlightColl(t) = tx.drawn[t] /\ InFlightColl(t)' = tx.drawn[t] /\ tx.drawn[t] \in Nat
    BY <1>1, <1>2, IdleInFlight, RedemptionFields DEF AllInv, TypesInv, TxInv, Colls
  <1>4. activeColl[t] \in Nat
    BY PoolsOf
  <1> QED
    BY <1>1, <1>3, <1>4, SlackStays

LEMMA FinishRedemptionSlack ==
  ASSUME AllInv, AllInv', FinishRedemption
  PROVE  NeverLess
  <1> SUFFICES ASSUME NEW t \in Tokens PROVE Slack(t)' >= Slack(t)
    BY DEF NeverLess
  <1>1. /\ tx.kind = "redemption" /\ tx' = NoTx /\ colls' = colls
        /\ activeColl' = Unwrapped(activeColl, tx.drawn, {})
    BY DEF FinishRedemption, troveVars
  <1>2. tx.drawn[t] \in Nat /\ activeColl[t] \in Nat
    BY <1>1, RedemptionFields, PoolsOf DEF AllInv, TypesInv, TxInv, Colls
  <1>3. activeColl'[t] \in Int /\ activeColl'[t] >= activeColl[t] - tx.drawn[t]
    BY <1>1, <1>2, UnwrappedKeeps
  <1>4. InFlightColl(t) = tx.drawn[t] /\ InFlightColl(t)' = 0
    BY <1>1, IdleInFlight
  <1>5. activeColl'[t] - InFlightColl(t)' >= activeColl[t] - InFlightColl(t)
    BY <1>2, <1>3, <1>4
  <1> QED
    BY <1>1, <1>5, SlackStays

LEMMA NextSlack ==
  ASSUME AllInv, AllInv', [Next]_vars, ~RedeemsOverlooked
  PROVE  NeverLess
  <1>1. CASE \E b \in Borrowers : Borrow(b)
    <2>1. PICK b \in Borrowers : Borrow(b)
      BY <1>1
    <2>2. AdjustColls \cup {NoColls} \subseteq Colls
      BY InputAssumption, NoCollsType
    <2>3. CASE UpdateTrove(b)
      BY <2>3, QuietSlack DEF UpdateTrove, troveVars, activeVars
    <2>4. CASE ClaimCollateral(b)
      BY <2>4, QuietSlack DEF ClaimCollateral, troveVars, activeVars
    <2> QED
      BY <2>1, <2>2, <2>3, <2>4, OpenTroveSlack, AdjustTroveSlack, CloseTroveSlack DEF Borrow
  <1>2. CASE \E x \in Deposits : ProvideToSP(x) \/ WithdrawFromSP(x)
    BY <1>2, QuietSlack DEF ProvideToSP, WithdrawFromSP, troveVars, activeVars
  <1>3. CASE \E t \in Tokens, p \in Prices : SetPrice(t, p)
    BY <1>3, QuietSlack DEF SetPrice, troveVars, activeVars
  <1>4. CASE Liquidate
    <2>1. CASE \E b \in Borrowers : LiquidateNormalMode(b) \/ LiquidateRecoveryMode(b)
      BY <2>1, LiquidateTypes, LiquidateAsSlack
    <2> QED
      BY <1>4, <2>1, BeginLiquidationSlack, FinishLiquidationSlack DEF Liquidate
  <1>5. CASE Redeem
    <2>1. CASE \E b \in Borrowers : RedeemFromTrove(b)
      BY <2>1, RedeemFromTroveSlack DEF RedeemsOverlooked
    <2>2. CASE \E b \in Borrowers, t \in Tokens, amount \in Redemptions : RedeemSingle(b, t, amount)
      BY <2>2, RedeemSingleSlack DEF RedeemsOverlooked
    <2> QED
      BY <1>5, <2>1, <2>2, BeginRedemptionSlack, CancelPartialSlack, SkipTroveSlack,
         FinishRedemptionSlack DEF Redeem
  <1>6. CASE UNCHANGED vars
    BY <1>6, QuietSlack DEF vars, troveVars, activeVars
  <1> QED
    BY <1>1, <1>2, <1>3, <1>4, <1>5, <1>6 DEF Next

\* Whatever an operation does, ActivePool holds no less beyond the collateral
\* of the troves and of the running batch than before, unless it is a
\* redemption that overlooks a trove's rewards.
THEOREM OnlyRedemptionsOverdraw == Spec => [][~RedeemsOverlooked => NeverLess]_vars
  <1>1. AllInv /\ AllInv' /\ [Next]_vars => [~RedeemsOverlooked => NeverLess]_vars
    BY NextSlack
  <1> QED
    BY <1>1, AllInvAlways, PTL DEF Spec

ActivePoolInv == \A t \in Tokens : Slack(t) >= 0

LEMMA InitSlack == Init => ActivePoolInv
  <1> SUFFICES ASSUME Init, NEW t \in Tokens PROVE Slack(t) >= 0
    BY DEF ActivePoolInv
  <1>1. \A x \in Borrowers : CollOf(t)[x] = 0
    BY DEF CollOf, Init, PerBorrower, NoColls
  <1>2. CollSum(t) = 0
    BY <1>1, BorrowersAssumption, SumZero DEF CollSum
  <1>3. InFlightColl(t) = 0 /\ activeColl[t] = 0
    BY IdleInFlight DEF Init, NoColls
  <1> QED
    BY <1>2, <1>3 DEF Slack

LEMMA SlackMeaning ==
  ASSUME AllInv, ActivePoolInv, NEW t \in Tokens
  PROVE  ActivePoolCovers(t)
  <1>1. Total(LAMBDA b : colls[b][t]) = CollSum(t)
    BY DEF Total, SumFunction, CollSum, CollOf
  <1>2. CollSum(t) \in Nat /\ activeColl[t] \in Nat /\ InFlightColl(t) \in Nat
    BY CollSumType, PoolsOf, InFlightCollType DEF AllInv, TypesInv
  <1>3. activeColl[t] - CollSum(t) - InFlightColl(t) >= 0
    BY DEF ActivePoolInv, Slack
  <1> HIDE DEF CollSum, InFlightColl
  <1> QED
    BY <1>1, <1>2, <1>3 DEF ActivePoolCovers

LEMMA SlackStep ==
  ASSUME AllInv, AllInv', ActivePoolInv, NeverLess
  PROVE  ActivePoolInv'
  <1> SUFFICES ASSUME NEW t \in Tokens PROVE Slack(t)' >= 0
    BY DEF ActivePoolInv
  <1>1. CollSum(t) \in Int /\ activeColl[t] \in Int /\ InFlightColl(t) \in Int
    BY CollSumType, PoolsOf, InFlightCollType DEF AllInv, TypesInv
  <1>2. activeColl'[t] \in Int /\ InFlightColl(t)' \in Int
    BY InFlightCollTypeAfter DEF AllInv, TypesInv, PoolTypeOK, Colls
  <1>3. CollSum(t)' \in Int
    <2>1. \A x \in Borrowers : [y \in Borrowers |-> colls'[y][t]][x] \in Nat
      BY DEF AllInv, TypesInv, TroveTypeOK, Colls
    <2> QED
      BY <2>1, SumNat, BorrowersAssumption DEF CollSum, CollOf
  <1>4. Slack(t) >= 0 /\ Slack(t)' >= Slack(t)
    BY DEF ActivePoolInv, NeverLess
  <1> HIDE DEF CollSum, InFlightColl
  <1>5. Slack(t) \in Int /\ Slack(t)' \in Int
    BY <1>1, <1>2, <1>3 DEF Slack
  <1> HIDE DEF Slack
  <1> QED
    BY <1>4, <1>5

\* ActivePool holds the collateral of every trove and what the running batch
\* has set apart, for as long as no redemption overlooks a trove's rewards.
THEOREM ActivePoolAlwaysCovers ==
  Spec /\ [][~RedeemsOverlooked]_vars => [](\A t \in Tokens : ActivePoolCovers(t))
  <1>1. AllInv /\ AllInv' /\ ActivePoolInv /\ [Next]_vars /\ [~RedeemsOverlooked]_vars
          => ActivePoolInv'
    <2> SUFFICES ASSUME AllInv, AllInv', ActivePoolInv, [Next]_vars, [~RedeemsOverlooked]_vars
                 PROVE  ActivePoolInv'
      OBVIOUS
    <2>1. CASE UNCHANGED vars
      BY <2>1, QuietSlack, SlackStep DEF vars, troveVars, activeVars
    <2>2. CASE ~RedeemsOverlooked
      BY <2>2, NextSlack, SlackStep
    <2> QED
      BY <2>1, <2>2
  <1>2. AllInv /\ ActivePoolInv => \A t \in Tokens : ActivePoolCovers(t)
    BY SlackMeaning
  <1> QED
    BY <1>1, <1>2, InitSlack, AllInvAlways, PTL DEF Spec

-----------------------------------------------------------------------------
(* Claims on DefaultPool.  owed is what an open trove's stake has earned,  *)
(* before it is rounded down.                                              *)

OwedColl(t) ==
  [b \in Borrowers |->
     IF status[b] = "active" THEN stakes[b][t] * (L_Coll[t] - collSnapshots[b][t]) ELSE 0]
OwedDebt(t) ==
  [b \in Borrowers |->
     IF status[b] = "active" THEN stakes[b][t] * (L_YUSDDebt[t] - debtSnapshots[b][t]) ELSE 0]
OwedCollSum(t) == SumFunctionOnSet(OwedColl(t), Borrowers)
OwedDebtSum(t) == SumFunctionOnSet(OwedDebt(t), Borrowers)

\* What is owed of t's debt with the part of it that is still to be shared.
DebtShare(t) == OwedDebtSum(t) + lastYUSDDebtError[t]
DebtShares == [t \in Tokens |-> DebtShare(t)]

ClaimsInv ==
  /\ \A t \in Tokens : OwedCollSum(t) + lastCollError[t] <= DP * defaultColl[t]
  /\ SumFunctionOnSet(DebtShares, Tokens) <= DP * defaultDebt

LEMMA OwedTypes ==
  ASSUME AllInv, NEW t \in Tokens
  PROVE  /\ \A b \in Borrowers : OwedColl(t)[b] \in Nat /\ OwedDebt(t)[b] \in Nat
         /\ OwedCollSum(t) \in Nat /\ OwedDebtSum(t) \in Nat /\ DebtShare(t) \in Nat
  <1>1. ASSUME NEW b \in Borrowers
        PROVE  OwedColl(t)[b] \in Nat /\ OwedDebt(t)[b] \in Nat
    <2>1. /\ stakes[b][t] \in Nat
          /\ L_Coll[t] \in Nat /\ collSnapshots[b][t] \in Nat /\ collSnapshots[b][t] <= L_Coll[t]
          /\ L_YUSDDebt[t] \in Nat /\ debtSnapshots[b][t] \in Nat
          /\ debtSnapshots[b][t] <= L_YUSDDebt[t]
      BY DEF AllInv, TypesInv, TroveTypeOK, PoolTypeOK, SnapshotsBehind, Colls
    <2>2. /\ L_Coll[t] - collSnapshots[b][t] \in Nat
          /\ L_YUSDDebt[t] - debtSnapshots[b][t] \in Nat
      BY <2>1
    <2> QED
      BY <2>1, <2>2, ProductNat DEF OwedColl, OwedDebt
  <1>2. OwedCollSum(t) \in Nat /\ OwedDebtSum(t) \in Nat
    <2> HIDE DEF OwedColl, OwedDebt
    <2> QED
      BY <1>1, SumNat, BorrowersAssumption DEF OwedCollSum, OwedDebtSum
  <1>3. lastYUSDDebtError[t] \in Nat
    BY DEF AllInv, TypesInv, PoolTypeOK, Colls
  <1> QED
    BY <1>1, <1>2, <1>3 DEF DebtShare

\* The same of the next state.
LEMMA OwedTypesAfter ==
  ASSUME AllInv', NEW t \in Tokens
  PROVE  /\ \A b \in Borrowers : OwedColl(t)'[b] \in Nat /\ OwedDebt(t)'[b] \in Nat
         /\ OwedCollSum(t)' \in Nat /\ OwedDebtSum(t)' \in Nat /\ DebtShare(t)' \in Nat
  <1>1. ASSUME NEW b \in Borrowers
        PROVE  OwedColl(t)'[b] \in Nat /\ OwedDebt(t)'[b] \in Nat
    <2>1. /\ stakes'[b][t] \in Nat
          /\ L_Coll'[t] \in Nat /\ collSnapshots'[b][t] \in Nat /\ collSnapshots'[b][t] <= L_Coll'[t]
          /\ L_YUSDDebt'[t] \in Nat /\ debtSnapshots'[b][t] \in Nat
          /\ debtSnapshots'[b][t] <= L_YUSDDebt'[t]
      BY DEF AllInv, TypesInv, TroveTypeOK, PoolTypeOK, SnapshotsBehind, Colls
    <2>2. /\ L_Coll'[t] - collSnapshots'[b][t] \in Nat
          /\ L_YUSDDebt'[t] - debtSnapshots'[b][t] \in Nat
      BY <2>1
    <2>3. /\ OwedColl(t)'[b] = IF status'[b] = "active"
                               THEN stakes'[b][t] * (L_Coll'[t] - collSnapshots'[b][t]) ELSE 0
          /\ OwedDebt(t)'[b] = IF status'[b] = "active"
                               THEN stakes'[b][t] * (L_YUSDDebt'[t] - debtSnapshots'[b][t]) ELSE 0
      BY DEF OwedColl, OwedDebt
    <2> QED
      BY <2>1, <2>2, <2>3, ProductNat
  <1>2. OwedCollSum(t)' \in Nat /\ OwedDebtSum(t)' \in Nat
    <2>1. /\ OwedCollSum(t)' = SumFunctionOnSet(OwedColl(t)', Borrowers)
          /\ OwedDebtSum(t)' = SumFunctionOnSet(OwedDebt(t)', Borrowers)
      BY DEF OwedCollSum, OwedDebtSum
    <2> HIDE DEF OwedColl, OwedDebt
    <2> QED
      BY <1>1, <2>1, SumNat, BorrowersAssumption
  <1>3. lastYUSDDebtError'[t] \in Nat
    BY DEF AllInv, TypesInv, PoolTypeOK, Colls
  <1> QED
    BY <1>1, <1>2, <1>3 DEF DebtShare

LEMMA DebtSharesTypes ==
  /\ AllInv => \A t \in Tokens : DebtShares[t] \in Int
  /\ AllInv' => \A t \in Tokens : DebtShares'[t] \in Int
  BY OwedTypes, OwedTypesAfter DEF DebtShares

LEMMA InitClaims == Init => ClaimsInv
  <1> SUFFICES ASSUME Init PROVE ClaimsInv
    OBVIOUS
  <1>1. ASSUME NEW t \in Tokens PROVE OwedCollSum(t) = 0 /\ DebtShare(t) = 0
    <2>1. \A b \in Borrowers : OwedColl(t)[b] = 0 /\ OwedDebt(t)[b] = 0
      BY DEF Init, PerBorrower, OwedColl, OwedDebt
    <2>2. lastYUSDDebtError[t] = 0
      BY DEF Init, NoColls
    <2> HIDE DEF OwedColl, OwedDebt
    <2>3. OwedCollSum(t) = 0 /\ OwedDebtSum(t) = 0
      BY <2>1, SumZero, BorrowersAssumption DEF OwedCollSum, OwedDebtSum
    <2> QED
      BY <2>2, <2>3 DEF DebtShare
  <1>2. SumFunctionOnSet(DebtShares, Tokens) = 0
    BY <1>1, SumZero, TokensAssumption DEF DebtShares
  <1>3. DP * 0 = 0
    BY ScaleAssumption
  <1>4. \A t \in Tokens : lastCollError[t] = 0 /\ defaultColl[t] = 0
    BY DEF Init, NoColls
  <1>5. defaultDebt = 0
    BY DEF Init
  <1> QED
    BY <1>1, <1>2, <1>3, <1>4, <1>5 DEF ClaimsInv

\* The rewards of a trove are what it is owed, each rounded down.
Rewards(b) == [t \in Tokens |-> OwedDebt(t)[b] \div DP]

LEMMA RewardsAre ==
  ASSUME AllInv, NEW b \in Borrowers
  PROVE  /\ \A t \in Tokens : PendingColl(b)[t] = OwedColl(t)[b] \div DP
         /\ PendingDebt(b) = SumFunctionOnSet(Rewards(b), Tokens)
         /\ \A t \in Tokens : /\ Rewards(b)[t] \in Nat /\ PendingColl(b)[t] \in Nat
                              /\ DP * Rewards(b)[t] <= OwedDebt(t)[b]
                              /\ DP * PendingColl(b)[t] <= OwedColl(t)[b]
  <1>1. DP \in Nat \ {0} /\ 0 \div DP = 0
    BY ScaleAssumption, FloorFits
  <1>2. \A t \in Tokens : PendingColl(b)[t] = OwedColl(t)[b] \div DP
    BY <1>1 DEF PendingColl, OwedColl
  <1>3. PendingDebt(b) = SumFunctionOnSet(Rewards(b), Tokens)
    <2>1. CASE status[b] = "active"
      <3> DEFINE f == [t \in Tokens |->
                         (stakes[b][t] * (L_YUSDDebt[t] - debtSnapshots[b][t])) \div DP]
      <3>1. f = Rewards(b)
        BY <2>1 DEF Rewards, OwedDebt
      <3>2. PendingDebt(b) = SumFunctionOnSet(f, Tokens)
        BY <2>1 DEF PendingDebt, SumFunction
      <3> QED
        BY <3>1, <3>2
    <2>2. CASE status[b] # "active"
      <3>1. \A t \in Tokens : Rewards(b)[t] = 0
        BY <1>1, <2>2 DEF Rewards, OwedDebt
      <3>2. PendingDebt(b) = 0
        BY <2>2 DEF PendingDebt
      <3> HIDE DEF Rewards, PendingDebt
      <3> QED
        BY <3>1, <3>2, SumZero, TokensAssumption
    <2> QED
      BY <2>1, <2>2
  <1>4. ASSUME NEW t \in Tokens
        PROVE  /\ Rewards(b)[t] \in Nat /\ PendingColl(b)[t] \in Nat
               /\ DP * Rewards(b)[t] <= OwedDebt(t)[b]
               /\ DP * PendingColl(b)[t] <= OwedColl(t)[b]
    <2> DEFINE x == OwedColl(t)[b]
               y == OwedDebt(t)[b]
               p == x \div DP
               q == y \div DP
    <2>1. x \in Nat /\ y \in Nat
      BY OwedTypes
    <2>2. PendingColl(b)[t] = p /\ Rewards(b)[t] = q
      BY <1>2 DEF Rewards
    <2> HIDE DEF x, y
    <2>3. p \in Nat /\ q \in Nat /\ p * DP <= x /\ q * DP <= y
      BY <1>1, <2>1, FloorFits
    <2> HIDE DEF p, q
    <2>4. p * DP = DP * p /\ q * DP = DP * q
      BY <1>1, <2>3, ProductTurns
    <2> QED
      BY <2>2, <2>3, <2>4 DEF x, y
  <1> QED
    BY <1>2, <1>3, <1>4

-----------------------------------------------------------------------------
\* A trove's stake in t grows while its snapshots of t are behind the sums: it
\* gets a share of redistributions from before its time.
StakeGrowsBehind ==
  \E b \in Borrowers, t \in Tokens :
    /\ stakes'[b][t] > stakes[b][t]
    /\ collSnapshots'[b][t] < L_Coll[t] \/ debtSnapshots'[b][t] < L_YUSDDebt[t]

(* What a handler does to the claims on DefaultPool by its work on one      *)
(* trove: the trove's rewards rc and rd, if it has them applied, leave      *)
(* DefaultPool, and its snapshots are renewed or the trove is closed; or it *)
(* has none applied and keeps its snapshots.                                *)
Untouched(x) ==
  /\ status'[x] = status[x] /\ stakes'[x] = stakes[x]
  /\ collSnapshots'[x] = collSnapshots[x] /\ debtSnapshots'[x] = debtSnapshots[x]

Settled(b) ==
  status'[b] # "active" \/ (collSnapshots'[b] = L_Coll /\ debtSnapshots'[b] = L_YUSDDebt)

Kept(b) ==
  /\ status'[b] = status[b]
  /\ collSnapshots'[b] = collSnapshots[b] /\ debtSnapshots'[b] = debtSnapshots[b]

ClaimsMove(b, rd, rc) ==
  /\ UNCHANGED rewardVars
  /\ \A x \in Borrowers \ {b} : Untouched(x)
  /\ defaultDebt' = defaultDebt - rd
  /\ defaultColl' = SubColls(defaultColl, rc)
  /\ \/ Settled(b) /\ rd = PendingDebt(b) /\ rc = PendingColl(b)
     \/ (Settled(b) \/ Kept(b)) /\ rd = 0 /\ rc = NoColls

\* The trove is owed no more than before, less what it was given.
LEMMA OwedAfterMove ==
  ASSUME AllInv, AllInv', ~StakeGrowsBehind, NEW b \in Borrowers, NEW rd, NEW rc,
         ClaimsMove(b, rd, rc), NEW t \in Tokens
  PROVE  /\ Settled(b) => OwedColl(t)'[b] = 0 /\ OwedDebt(t)'[b] = 0
         /\ Kept(b) => /\ OwedColl(t)'[b] <= OwedColl(t)[b]
                       /\ OwedDebt(t)'[b] <= OwedDebt(t)[b]
  <1> DEFINE s == stakes[b][t]
             r == stakes'[b][t]
             x == L_Coll[t] - collSnapshots[b][t]
             y == L_YUSDDebt[t] - debtSnapshots[b][t]
  <1>1. L_Coll' = L_Coll /\ L_YUSDDebt' = L_YUSDDebt
    BY DEF ClaimsMove, rewardVars
  <1>2. /\ OwedColl(t)'[b] = IF status'[b] = "active"
                             THEN r * (L_Coll[t] - collSnapshots'[b][t]) ELSE 0
        /\ OwedDebt(t)'[b] = IF status'[b] = "active"
                             THEN r * (L_YUSDDebt[t] - debtSnapshots'[b][t]) ELSE 0
        /\ OwedColl(t)[b] = IF status[b] = "active" THEN s * x ELSE 0
        /\ OwedDebt(t)[b] = IF status[b] = "active" THEN s * y ELSE 0
    BY <1>1 DEF OwedColl, OwedDebt
  <1>3. /\ s \in Nat /\ r \in Nat
        /\ L_Coll[t] \in Nat /\ L_YUSDDebt[t] \in Nat
        /\ collSnapshots[b][t] \in Nat /\ debtSnapshots[b][t] \in Nat
        /\ collSnapshots[b][t] <= L_Coll[t] /\ debtSnapshots[b][t] <= L_YUSDDebt[t]
    BY DEF AllInv, TypesInv, TroveTypeOK, PoolTypeOK, SnapshotsBehind, Colls
  <1>4. x \in Nat /\ y \in Nat
    BY <1>3
  <1>5. r > s => /\ collSnapshots'[b][t] >= L_Coll[t] \/ ~(collSnapshots'[b][t] < L_Coll[t])
                 /\ debtSnapshots'[b][t] >= L_YUSDDebt[t] \/ ~(debtSnapshots'[b][t] < L_YUSDDebt[t])
    BY DEF StakeGrowsBehind
  <1>6. r * 0 = 0 /\ s * 0 = 0
    BY <1>3, ProductOverSum
  <1> HIDE DEF s, r
  <1>7. ASSUME Settled(b) PROVE OwedColl(t)'[b] = 0 /\ OwedDebt(t)'[b] = 0
    <2>1. CASE status'[b] # "active"
      BY <1>2, <2>1
    <2>2. CASE collSnapshots'[b] = L_Coll /\ debtSnapshots'[b] = L_YUSDDebt
      <3>1. L_Coll[t] - collSnapshots'[b][t] = 0 /\ L_YUSDDebt[t] - debtSnapshots'[b][t] = 0
        BY <1>3, <2>2
      <3> QED
        BY <1>2, <1>6, <3>1
    <2> QED
      BY <1>7, <2>1, <2>2 DEF Settled
  <1>8. ASSUME Kept(b)
        PROVE  OwedColl(t)'[b] <= OwedColl(t)[b] /\ OwedDebt(t)'[b] <= OwedDebt(t)[b]
    <2>1. /\ OwedColl(t)'[b] = IF status[b] = "active" THEN r * x ELSE 0
          /\ OwedDebt(t)'[b] = IF status[b] = "active" THEN r * y ELSE 0
      BY <1>2, <1>8 DEF Kept
    <2>2. CASE r <= s
      <3>1. r * x <= s * x /\ r * y <= s * y
        <4> HIDE DEF x, y
        <4> QED
          BY <1>3, <1>4, <2>2, ProductMonotone
      <3> QED
        BY <1>2, <2>1, <3>1
    <2>3. CASE r > s
      <3>1. x = 0 /\ y = 0
        BY <1>3, <1>5, <1>8, <2>3 DEF Kept
      <3> HIDE DEF x, y
      <3> QED
        BY <1>2, <1>6, <2>1, <3>1
    <2> QED
      BY <1>3, <2>2, <2>3
  <1> QED
    BY <1>7, <1>8

\* What of rd comes from each token.
LEMMA GivenRewards ==
  ASSUME AllInv, AllInv', ~StakeGrowsBehind, NEW b \in Borrowers, NEW rd, NEW rc,
         ClaimsMove(b, rd, rc)
  PROVE  \E q : /\ SumFunctionOnSet(q, Tokens) = rd
                /\ \A t \in Tokens : /\ q[t] \in Nat /\ rc[t] \in Nat
                                     /\ OwedColl(t)'[b] + DP * rc[t] <= OwedColl(t)[b]
                                     /\ OwedDebt(t)'[b] + DP * q[t] <= OwedDebt(t)[b]
  <1>1. \A t \in Tokens : OwedColl(t)[b] \in Nat /\ OwedDebt(t)[b] \in Nat
    BY OwedTypes
  <1>2. \A t \in Tokens : OwedColl(t)'[b] \in Nat /\ OwedDebt(t)'[b] \in Nat
    BY OwedTypesAfter
  <1>3. CASE Settled(b) /\ rd = PendingDebt(b) /\ rc = PendingColl(b)
    <2>1. ASSUME NEW t \in Tokens
          PROVE  /\ Rewards(b)[t] \in Nat /\ rc[t] \in Nat
                 /\ OwedColl(t)'[b] + DP * rc[t] <= OwedColl(t)[b]
                 /\ OwedDebt(t)'[b] + DP * Rewards(b)[t] <= OwedDebt(t)[b]
      <3>1. OwedColl(t)'[b] = 0 /\ OwedDebt(t)'[b] = 0
        BY <1>3, OwedAfterMove
      <3>2. /\ Rewards(b)[t] \in Nat /\ rc[t] \in Nat
            /\ DP * Rewards(b)[t] <= OwedDebt(t)[b] /\ DP * rc[t] <= OwedColl(t)[b]
        BY <1>3, RewardsAre
      <3>3. DP * Rewards(b)[t] \in Nat /\ DP * rc[t] \in Nat
        BY <3>2, ProductNat, ScaleAssumption
      <3> HIDE DEF Rewards, OwedColl, OwedDebt
      <3> QED
        BY <3>1, <3>2, <3>3
    <2>2. SumFunctionOnSet(Rewards(b), Tokens) = rd
      BY <1>3, RewardsAre
    <2> QED
      BY <2>1, <2>2
  <1>4. CASE (Settled(b) \/ Kept(b)) /\ rd = 0 /\ rc = NoColls
    <2>1. ASSUME NEW t \in Tokens
          PROVE  /\ NoColls[t] \in Nat /\ rc[t] \in Nat
                 /\ OwedColl(t)'[b] + DP * rc[t] <= OwedColl(t)[b]
                 /\ OwedDebt(t)'[b] + DP * NoColls[t] <= OwedDebt(t)[b]
      <3>1. OwedColl(t)'[b] <= OwedColl(t)[b] /\ OwedDebt(t)'[b] <= OwedDebt(t)[b]
        BY <1>1, <1>2, <1>4, OwedAfterMove
      <3>2. rc[t] = 0 /\ NoColls[t] = 0 /\ DP * 0 = 0
        BY <1>4, ScaleAssumption DEF NoColls
      <3> QED
        BY <1>1, <1>2, <3>1, <3>2
    <2>2. SumFunctionOnSet(NoColls, Tokens) = rd
      <3>1. \A t \in Tokens : NoColls[t] = 0
        BY DEF NoColls
      <3> QED
        BY <1>4, <3>1, SumZero, TokensAssumption
    <2> QED
      BY <2>1, <2>2
  <1> QED
    BY <1>3, <1>4 DEF ClaimsMove

\* The sums over the troves move by what the one trove's terms do.
LEMMA OwedSumsMove ==
  ASSUME AllInv, AllInv', UNCHANGED rewardVars, NEW b \in Borrowers,
         \A x \in Borrowers \ {b} : Untouched(x), NEW t \in Tokens
  PROVE  /\ OwedCollSum(t)' = OwedCollSum(t) - OwedColl(t)[b] + OwedColl(t)'[b]
         /\ OwedDebtSum(t)' = OwedDebtSum(t) - OwedDebt(t)[b] + OwedDebt(t)'[b]
  <1> DEFINE f == OwedColl(t)
             g == OwedColl(t)'
             h == OwedDebt(t)
             k == OwedDebt(t)'
  <1>1. /\ \A x \in Borrowers : f[x] \in Int /\ g[x] \in Int
        /\ \A x \in Borrowers : h[x] \in Int /\ k[x] \in Int
    BY OwedTypes, OwedTypesAfter
  <1>2. L_Coll' = L_Coll /\ L_YUSDDebt' = L_YUSDDebt
    BY DEF rewardVars
  <1>3. \A x \in Borrowers \ {b} : g[x] = f[x] /\ k[x] = h[x]
    BY <1>2 DEF OwedColl, OwedDebt, Untouched
  <1>4. /\ OwedCollSum(t) = SumFunctionOnSet(f, Borrowers)
        /\ OwedCollSum(t)' = SumFunctionOnSet(g, Borrowers)
        /\ OwedDebtSum(t) = SumFunctionOnSet(h, Borrowers)
        /\ OwedDebtSum(t)' = SumFunctionOnSet(k, Borrowers)
    BY DEF OwedCollSum, OwedDebtSum
  <1> HIDE DEF f, g, h, k
  <1>5. SumFunctionOnSet(g, Borrowers) = SumFunctionOnSet(f, Borrowers) - f[b] + g[b]
    BY <1>1, <1>3, BorrowersAssumption, SumUpdate
  <1>6. SumFunctionOnSet(k, Borrowers) = SumFunctionOnSet(h, Borrowers) - h[b] + k[b]
    BY <1>1, <1>3, BorrowersAssumption, SumUpdate
  <1> QED
    BY <1>4, <1>5, <1>6 DEF f, g, h, k

LEMMA ClaimsStayCovered ==
  ASSUME AllInv, AllInv', ClaimsInv, ~StakeGrowsBehind, NEW b \in Borrowers, NEW rd, NEW rc,
         ClaimsMove(b, rd, rc)
  PROVE  ClaimsInv'
  <1>1. PICK q : /\ SumFunctionOnSet(q, Tokens) = rd
                 /\ \A t \in Tokens : /\ q[t] \in Nat /\ rc[t] \in Nat
                                      /\ OwedColl(t)'[b] + DP * rc[t] <= OwedColl(t)[b]
                                      /\ OwedDebt(t)'[b] + DP * q[t] <= OwedDebt(t)[b]
    BY GivenRewards
  <1>2. /\ UNCHANGED rewardVars /\ \A x \in Borrowers \ {b} : Untouched(x)
        /\ defaultDebt' = defaultDebt - rd /\ defaultColl' = SubColls(defaultColl, rc)
    BY DEF ClaimsMove
  <1>3. ASSUME NEW t \in Tokens
        PROVE  OwedCollSum(t)' + lastCollError'[t] <= DP * defaultColl'[t]
    <2>1. OwedCollSum(t)' = OwedCollSum(t) - OwedColl(t)[b] + OwedColl(t)'[b]
      BY <1>2, OwedSumsMove
    <2>2. OwedCollSum(t) + lastCollError[t] <= DP * defaultColl[t]
      BY DEF ClaimsInv
    <2>3. lastCollError'[t] = lastCollError[t] /\ defaultColl'[t] = defaultColl[t] - rc[t]
      BY <1>2 DEF rewardVars, SubColls
    <2>4. /\ OwedColl(t)[b] \in Int /\ OwedColl(t)'[b] \in Int /\ OwedCollSum(t) \in Int
          /\ lastCollError[t] \in Int /\ defaultColl[t] \in Int /\ rc[t] \in Int /\ DP \in Int
      BY <1>1, OwedTypes, OwedTypesAfter, ScaleAssumption DEF AllInv, TypesInv, PoolTypeOK, Colls
    <2>5. DP * (defaultColl[t] - rc[t]) = DP * defaultColl[t] - DP * rc[t]
          /\ DP * defaultColl[t] \in Int /\ DP * rc[t] \in Int
      BY <2>4, ProductOverDifference
    <2>6. OwedColl(t)'[b] + DP * rc[t] <= OwedColl(t)[b]
      BY <1>1
    <2> HIDE DEF OwedColl, OwedCollSum
    <2> QED
      BY <2>1, <2>2, <2>3, <2>4, <2>5, <2>6
  <1>4. SumFunctionOnSet(DebtShares', Tokens) <= DP * defaultDebt'
    <2> DEFINE given == [t \in Tokens |-> DP * q[t]]
               both == [t \in Tokens |-> DebtShares'[t] + given[t]]
    <2>1. ASSUME NEW t \in Tokens
          PROVE  /\ DebtShares[t] \in Int /\ DebtShares'[t] \in Int /\ given[t] \in Int
                 /\ both[t] = DebtShares'[t] + given[t] /\ both[t] \in Int
                 /\ both[t] <= DebtShares[t]
      <3>1. OwedDebtSum(t)' = OwedDebtSum(t) - OwedDebt(t)[b] + OwedDebt(t)'[b]
        BY <1>2, OwedSumsMove
      <3>2. DebtShares[t] = OwedDebtSum(t) + lastYUSDDebtError[t]
            /\ DebtShares'[t] = OwedDebtSum(t)' + lastYUSDDebtError[t]
        BY <1>2 DEF DebtShares, DebtShare, rewardVars
      <3>3. /\ OwedDebt(t)[b] \in Int /\ OwedDebt(t)'[b] \in Int /\ OwedDebtSum(t) \in Int
            /\ lastYUSDDebtError[t] \in Int
        BY OwedTypes, OwedTypesAfter DEF AllInv, TypesInv, PoolTypeOK, Colls
      <3>4. given[t] \in Int /\ OwedDebt(t)'[b] + given[t] <= OwedDebt(t)[b]
        BY <1>1, ProductNat, ScaleAssumption
      <3> HIDE DEF given, OwedDebt, OwedDebtSum, DebtShares
      <3> QED
        BY <3>1, <3>2, <3>3, <3>4
    <2>2. SumFunctionOnSet(given, Tokens) = DP * rd
      <3>1. \A t \in Tokens : q[t] \in Int /\ given[t] = DP * q[t]
        BY <1>1
      <3>2. DP \in Int
        BY ScaleAssumption
      <3> HIDE DEF given
      <3> QED
        BY <1>1, <3>1, <3>2, SumScaled, TokensAssumption
    <2>3. rd \in Int
      BY <1>1, SumInt, TokensAssumption
    <2> HIDE DEF given, both
    <2>4. SumFunctionOnSet(both, Tokens)
            = SumFunctionOnSet(DebtShares', Tokens) + SumFunctionOnSet(given, Tokens)
      BY <2>1, SumPlus, TokensAssumption
    <2>5. SumFunctionOnSet(both, Tokens) <= SumFunctionOnSet(DebtShares, Tokens)
      BY <2>1, SumMonotone, TokensAssumption
    <2>6. SumFunctionOnSet(DebtShares, Tokens) <= DP * defaultDebt
      BY DEF ClaimsInv
    <2>7. /\ SumFunctionOnSet(DebtShares', Tokens) \in Int /\ SumFunctionOnSet(DebtShares, Tokens) \in Int
          /\ SumFunctionOnSet(both, Tokens) \in Int
      BY <2>1, SumInt, TokensAssumption
    <2>8. defaultDebt \in Int /\ DP \in Int
      BY ScaleAssumption DEF AllInv, LedgerInv, LedgerTypeOK
    <2>9. DP * (defaultDebt - rd) = DP * defaultDebt - DP * rd
          /\ DP * defaultDebt \in Int /\ DP * rd \in Int
      BY <2>3, <2>8, ProductOverDifference
    <2> HIDE DEF DebtShares
    <2> QED
      BY <1>2, <2>2, <2>4, <2>5, <2>6, <2>7, <2>9
  <1> QED
    BY <1>3, <1>4 DEF ClaimsInv

-----------------------------------------------------------------------------
(* A redistribution: every trove is owed its share of what DefaultPool gets. *)

\* Sums that grow by q per unit staked owe the troves q for each unit of
\* totalStakes at most.
LEMMA OwedGrows ==
  ASSUME AllInv, AllInv', StakesTotal, NEW t \in Tokens, NEW p \in Nat, NEW q \in Nat,
         UNCHANGED <<status, stakes, collSnapshots, debtSnapshots>>,
         L_Coll'[t] = L_Coll[t] + p, L_YUSDDebt'[t] = L_YUSDDebt[t] + q
  PROVE  /\ OwedCollSum(t)' <= OwedCollSum(t) + p * totalStakes[t]
         /\ OwedDebtSum(t)' <= OwedDebtSum(t) + q * totalStakes[t]
  <1> DEFINE sp == [b \in Borrowers |-> p * stakes[b][t]]
             sq == [b \in Borrowers |-> q * stakes[b][t]]
             cp == [b \in Borrowers |-> OwedColl(t)[b] + sp[b]]
             dq == [b \in Borrowers |-> OwedDebt(t)[b] + sq[b]]
  <1>1. totalStakes[t] = SumFunctionOnSet(StakeOf(t), Borrowers)
    BY DEF StakesTotal, StakeSum
  <1>2. ASSUME NEW b \in Borrowers
        PROVE  /\ OwedColl(t)[b] \in Int /\ OwedColl(t)'[b] \in Int /\ sp[b] \in Int
               /\ OwedDebt(t)[b] \in Int /\ OwedDebt(t)'[b] \in Int /\ sq[b] \in Int
               /\ StakeOf(t)[b] \in Int
               /\ sp[b] = p * StakeOf(t)[b] /\ sq[b] = q * StakeOf(t)[b]
               /\ OwedColl(t)'[b] <= OwedColl(t)[b] + sp[b]
               /\ OwedDebt(t)'[b] <= OwedDebt(t)[b] + sq[b]
    <2> DEFINE s == stakes[b][t]
               x == L_Coll[t] - collSnapshots[b][t]
               y == L_YUSDDebt[t] - debtSnapshots[b][t]
    <2>1. /\ s \in Nat /\ x \in Int /\ y \in Int
          /\ L_Coll[t] \in Nat /\ L_YUSDDebt[t] \in Nat
          /\ collSnapshots[b][t] \in Nat /\ debtSnapshots[b][t] \in Nat
      BY DEF AllInv, TypesInv, TroveTypeOK, PoolTypeOK, Colls
    <2>2. sp[b] = p * s /\ sq[b] = q * s /\ StakeOf(t)[b] = s
      BY DEF StakeOf
    <2>3. p * s \in Nat /\ q * s \in Nat
      BY <2>1, ProductNat
    <2>4. /\ OwedColl(t)[b] = IF status[b] = "active" THEN s * x ELSE 0
          /\ OwedDebt(t)[b] = IF status[b] = "active" THEN s * y ELSE 0
      BY DEF OwedColl, OwedDebt
    <2>5. /\ OwedColl(t)'[b] = IF status[b] = "active" THEN s * (L_Coll'[t] - collSnapshots[b][t]) ELSE 0
          /\ OwedDebt(t)'[b] = IF status[b] = "active" THEN s * (L_YUSDDebt'[t] - debtSnapshots[b][t]) ELSE 0
      BY DEF OwedColl, OwedDebt
    <2>6. L_Coll'[t] - collSnapshots[b][t] = x + p /\ L_YUSDDebt'[t] - debtSnapshots[b][t] = y + q
      BY <2>1
    <2> HIDE DEF s, x, y, sp, sq
    <2>7. s * (x + p) = s * x + s * p /\ s * (y + q) = s * y + s * q
          /\ s * x \in Int /\ s * y \in Int
      BY <2>1, ProductOverSum
    <2>8. s * p = p * s /\ s * q = q * s
      BY <2>1, ProductTurns
    <2> QED
      BY <2>1, <2>2, <2>3, <2>4, <2>5, <2>6, <2>7, <2>8
  <1>3. /\ \A b \in Borrowers : cp[b] = OwedColl(t)[b] + sp[b] /\ dq[b] = OwedDebt(t)[b] + sq[b]
        /\ \A b \in Borrowers : cp[b] \in Int /\ dq[b] \in Int
    BY <1>2
  <1>4. /\ OwedCollSum(t) = SumFunctionOnSet(OwedColl(t), Borrowers)
        /\ OwedCollSum(t)' = SumFunctionOnSet(OwedColl(t)', Borrowers)
        /\ OwedDebtSum(t) = SumFunctionOnSet(OwedDebt(t), Borrowers)
        /\ OwedDebtSum(t)' = SumFunctionOnSet(OwedDebt(t)', Borrowers)
    BY DEF OwedCollSum, OwedDebtSum
  <1> HIDE DEF sp, sq, cp, dq, OwedColl, OwedDebt
  <1>5. /\ SumFunctionOnSet(sp, Borrowers) = p * totalStakes[t]
        /\ SumFunctionOnSet(sq, Borrowers) = q * totalStakes[t]
    BY <1>1, <1>2, SumScaled, BorrowersAssumption
  <1>6. SumFunctionOnSet(cp, Borrowers) = OwedCollSum(t) + p * totalStakes[t]
    BY <1>2, <1>3, <1>4, <1>5, SumPlus, BorrowersAssumption
  <1>7. SumFunctionOnSet(dq, Borrowers) = OwedDebtSum(t) + q * totalStakes[t]
    BY <1>2, <1>3, <1>4, <1>5, SumPlus, BorrowersAssumption
  <1>8. SumFunctionOnSet(OwedColl(t)', Borrowers) <= SumFunctionOnSet(cp, Borrowers)
    BY <1>2, <1>3, SumMonotone, BorrowersAssumption
  <1>9. SumFunctionOnSet(OwedDebt(t)', Borrowers) <= SumFunctionOnSet(dq, Borrowers)
    BY <1>2, <1>3, SumMonotone, BorrowersAssumption
  <1> QED
    BY <1>4, <1>6, <1>7, <1>8, <1>9

\* The shares of a debt among the tokens of c, by their VC.
DebtPart(d, c) ==
  [t \in Tokens |-> IF c[t] # 0 /\ totalStakes[t] # 0
                    THEN (ValueVC(price, t, c[t]) * d) \div VC(price, c) ELSE 0]

\* They do not add up to more than the debt.
LEMMA DebtPartsFit ==
  ASSUME PoolTypeOK, NEW d \in Nat, NEW c \in Colls, c # NoColls => VC(price, c) # 0
  PROVE  /\ \A t \in Tokens : DebtPart(d, c)[t] \in Nat
         /\ SumFunctionOnSet(DebtPart(d, c), Tokens) <= d
  <1> DEFINE total == VC(price, c)
             value == [t \in Tokens |-> ValueVC(price, t, c[t])]
             part == DebtPart(d, c)
  <1>1. total = SumFunctionOnSet(value, Tokens)
    BY DEF VC, SumFunction
  <1>2. \A t \in Tokens : value[t] \in Nat
    <2>1. \A t \in Tokens : c[t] \in Nat
      BY DEF Colls
    <2> QED
      BY <2>1, ValueVCType
  <1>3. total \in Nat
    BY VCType DEF PoolTypeOK
  <1>4. \A t \in Tokens : part[t] = IF c[t] # 0 /\ totalStakes[t] # 0
                                    THEN (value[t] * d) \div total ELSE 0
    BY DEF DebtPart
  <1>5. (\E t \in Tokens : c[t] # 0) => total # 0
    BY DEF NoColls
  <1> HIDE DEF total, value, part
  <1>6. CASE total = 0
    <2>1. \A t \in Tokens : part[t] = 0
      BY <1>4, <1>5, <1>6
    <2>2. SumFunctionOnSet(part, Tokens) = 0
      BY <2>1, SumZero, TokensAssumption
    <2> QED
      BY <2>1, <2>2 DEF part
  <1>7. CASE total # 0
    <2> DEFINE full == [t \in Tokens |-> total * part[t]]
               cut == [t \in Tokens |-> d * value[t]]
    <2>1. ASSUME NEW t \in Tokens
          PROVE  /\ part[t] \in Nat /\ full[t] = total * part[t] /\ full[t] \in Int
                 /\ cut[t] = d * value[t] /\ cut[t] \in Int /\ full[t] <= cut[t]
      <3> DEFINE a == value[t] * d
                 q == a \div total
      <3>1. a \in Nat /\ d * value[t] = a /\ d * value[t] \in Nat
        BY <1>2, ProductNat, ProductTurns
      <3> HIDE DEF a
      <3>2. q \in Nat /\ q * total <= a
        BY <1>3, <1>7, <3>1, FloorFits
      <3>3. part[t] = IF c[t] # 0 /\ totalStakes[t] # 0 THEN q ELSE 0
        BY <1>4 DEF a
      <3> HIDE DEF q
      <3>4. total * q = q * total /\ total * 0 = 0 /\ total * q \in Int
        BY <1>3, <3>2, ProductTurns
      <3> QED
        BY <1>3, <3>1, <3>2, <3>3, <3>4
    <2> HIDE DEF full, cut
    <2>2. SumFunctionOnSet(full, Tokens) = total * SumFunctionOnSet(part, Tokens)
      <3>1. total \in Int /\ \A t \in Tokens : part[t] \in Int /\ full[t] = total * part[t]
        BY <1>3, <2>1
      <3> QED
        BY <3>1, SumScaled, TokensAssumption
    <2>3. SumFunctionOnSet(cut, Tokens) = d * total
      <3>1. d \in Int /\ \A t \in Tokens : value[t] \in Int /\ cut[t] = d * value[t]
        BY <1>2, <2>1
      <3> QED
        BY <1>1, <3>1, SumScaled, TokensAssumption
    <2>4. SumFunctionOnSet(full, Tokens) <= SumFunctionOnSet(cut, Tokens)
      BY <2>1, SumMonotone, TokensAssumption
    <2>5. SumFunctionOnSet(part, Tokens) \in Nat
      BY <2>1, SumNat, TokensAssumption
    <2>6. total * SumFunctionOnSet(part, Tokens) = SumFunctionOnSet(part, Tokens) * total
      BY <1>3, <2>5, ProductTurns
    <2>7. SumFunctionOnSet(part, Tokens) <= d
      BY <1>3, <1>7, <2>2, <2>3, <2>4, <2>5, <2>6, ProductCancel
    <2> QED
      BY <2>1, <2>7 DEF part
  <1> QED
    BY <1>6, <1>7

\* What redistributeDebtAndColl does to the sums, token by token.
LEMMA RedistributeTerms ==
  ASSUME AllInv, NEW d \in Nat, NEW c \in Colls, Redistribute(d, c), d # 0, NEW t \in Tokens
  PROVE  \E p, q \in Nat :
           /\ L_Coll'[t] = L_Coll[t] + p
           /\ L_YUSDDebt'[t] = L_YUSDDebt[t] + q
           /\ p * totalStakes[t] + lastCollError'[t] <= DP * c[t] + lastCollError[t]
           /\ q * totalStakes[t] + lastYUSDDebtError'[t]
                <= DP * DebtPart(d, c)[t] + lastYUSDDebtError[t]
  <1> DEFINE n == totalStakes[t]
             part == (ValueVC(price, t, c[t]) * d) \div VC(price, c)
             num == c[t] * DP + lastCollError[t]
             debtNum == part * DP + lastYUSDDebtError[t]
  <1>1. /\ n \in Nat /\ c[t] \in Nat /\ DP \in Nat \ {0}
        /\ lastCollError[t] \in Nat /\ lastYUSDDebtError[t] \in Nat
        /\ L_Coll[t] \in Nat /\ L_YUSDDebt[t] \in Nat
    BY ScaleAssumption DEF AllInv, TypesInv, PoolTypeOK, Colls
  <1>2. /\ L_Coll'[t] = IF c[t] # 0 /\ n # 0 THEN L_Coll[t] + num \div n ELSE L_Coll[t]
        /\ lastCollError'[t] = IF c[t] # 0 /\ n # 0 THEN num % n ELSE lastCollError[t]
        /\ L_YUSDDebt'[t] = IF c[t] # 0 /\ n # 0 THEN L_YUSDDebt[t] + debtNum \div n
                            ELSE L_YUSDDebt[t]
        /\ lastYUSDDebtError'[t] = IF c[t] # 0 /\ n # 0 THEN debtNum % n
                                   ELSE lastYUSDDebtError[t]
    BY DEF Redistribute
  <1>3. c # NoColls => VC(price, c) # 0
    BY DEF Redistribute
  <1>4. DebtPart(d, c)[t] = (IF c[t] # 0 /\ n # 0 THEN part ELSE 0) /\ DebtPart(d, c)[t] \in Nat
    <2>1. DebtPart(d, c)[t] \in Nat
      BY <1>3, DebtPartsFit DEF AllInv, TypesInv
    <2> QED
      BY <2>1 DEF DebtPart
  <1> HIDE DEF part
  <1>5. CASE c[t] # 0 /\ n # 0
    <2>1. part \in Nat
      BY <1>4, <1>5
    <2>2. num = DP * c[t] + lastCollError[t] /\ debtNum = DP * part + lastYUSDDebtError[t]
      <3>1. c[t] * DP = DP * c[t] /\ part * DP = DP * part
        BY <1>1, <2>1, ProductTurns
      <3> QED
        BY <3>1
    <2>3. num \in Nat /\ debtNum \in Nat
      <3>1. DP * c[t] \in Nat /\ DP * part \in Nat
        BY <1>1, <2>1, ProductNat
      <3> HIDE DEF num, debtNum
      <3> QED
        BY <1>1, <2>2, <3>1
    <2> HIDE DEF num, debtNum
    <2> DEFINE p == num \div n
               q == debtNum \div n
    <2>4. /\ p \in Nat /\ q \in Nat
          /\ p * n + (num % n) = num /\ q * n + (debtNum % n) = debtNum
          /\ num % n \in Nat /\ debtNum % n \in Nat
      BY <1>1, <1>5, <2>3, DivisionIs
    <2>5. L_Coll'[t] = L_Coll[t] + p /\ L_YUSDDebt'[t] = L_YUSDDebt[t] + q
          /\ lastCollError'[t] = num % n /\ lastYUSDDebtError'[t] = debtNum % n
          /\ DebtPart(d, c)[t] = part
      BY <1>2, <1>4, <1>5
    <2> HIDE DEF p, q, n
    <2>6. /\ p * n + lastCollError'[t] <= DP * c[t] + lastCollError[t]
          /\ q * n + lastYUSDDebtError'[t] <= DP * DebtPart(d, c)[t] + lastYUSDDebtError[t]
      BY <2>2, <2>3, <2>4, <2>5
    <2> QED
      BY <2>4, <2>5, <2>6 DEF n
  <1>6. CASE ~(c[t] # 0 /\ n # 0)
    <2>1. /\ L_Coll'[t] = L_Coll[t] + 0 /\ L_YUSDDebt'[t] = L_YUSDDebt[t] + 0
          /\ lastCollError'[t] = lastCollError[t] /\ lastYUSDDebtError'[t] = lastYUSDDebtError[t]
      BY <1>1, <1>2, <1>6
    <2>2. DP * c[t] \in Nat /\ DP * DebtPart(d, c)[t] \in Nat /\ 0 * n = 0
      BY <1>1, <1>4, ProductNat
    <2> HIDE DEF n
    <2>3. /\ 0 * n + lastCollError'[t] <= DP * c[t] + lastCollError[t]
          /\ 0 * n + lastYUSDDebtError'[t] <= DP * DebtPart(d, c)[t] + lastYUSDDebtError[t]
      BY <1>1, <2>1, <2>2
    <2> QED
      BY <2>1, <2>3 DEF n
  <1> QED
    BY <1>5, <1>6

LEMMA ClaimsAreShared ==
  ASSUME AllInv, AllInv', StakesTotal, ClaimsInv, NEW d \in Nat, NEW c \in Colls, d # 0,
         Redistribute(d, c),
         UNCHANGED <<status, stakes, collSnapshots, debtSnapshots>>,
         defaultDebt' = defaultDebt + d, defaultColl' = SumColls(defaultColl, c)
  PROVE  ClaimsInv'
  <1>1. ASSUME NEW t \in Tokens
        PROVE  /\ OwedCollSum(t)' + lastCollError'[t]
                    <= OwedCollSum(t) + lastCollError[t] + DP * c[t]
               /\ DebtShare(t)' <= DebtShare(t) + DP * DebtPart(d, c)[t]
    <2>1. PICK p \in Nat, q \in Nat :
            /\ L_Coll'[t] = L_Coll[t] + p
            /\ L_YUSDDebt'[t] = L_YUSDDebt[t] + q
            /\ p * totalStakes[t] + lastCollError'[t] <= DP * c[t] + lastCollError[t]
            /\ q * totalStakes[t] + lastYUSDDebtError'[t]
                 <= DP * DebtPart(d, c)[t] + lastYUSDDebtError[t]
      BY RedistributeTerms
    <2>2. /\ OwedCollSum(t)' <= OwedCollSum(t) + p * totalStakes[t]
          /\ OwedDebtSum(t)' <= OwedDebtSum(t) + q * totalStakes[t]
      BY <2>1, OwedGrows
    <2>3. /\ totalStakes[t] \in Nat /\ c[t] \in Nat /\ DP \in Nat
          /\ lastCollError[t] \in Nat /\ lastYUSDDebtError[t] \in Nat
          /\ lastCollError'[t] \in Nat /\ lastYUSDDebtError'[t] \in Nat
      BY ScaleAssumption DEF AllInv, TypesInv, PoolTypeOK, Colls
    <2>4. DebtPart(d, c)[t] \in Nat
      <3>1. c # NoColls => VC(price, c) # 0
        BY DEF Redistribute
      <3> QED
        BY <3>1, DebtPartsFit DEF AllInv, TypesInv
    <2>5. /\ p * totalStakes[t] \in Nat /\ q * totalStakes[t] \in Nat
          /\ DP * c[t] \in Nat /\ DP * DebtPart(d, c)[t] \in Nat
      BY <2>3, <2>4, ProductNat
    <2>6. /\ OwedCollSum(t) \in Nat /\ OwedCollSum(t)' \in Nat
          /\ OwedDebtSum(t) \in Nat /\ OwedDebtSum(t)' \in Nat
      BY OwedTypes, OwedTypesAfter
    <2>7. DebtShare(t) = OwedDebtSum(t) + lastYUSDDebtError[t]
          /\ DebtShare(t)' = OwedDebtSum(t)' + lastYUSDDebtError'[t]
      BY DEF DebtShare
    <2> HIDE DEF OwedCollSum, OwedDebtSum, DebtShare
    <2>8. OwedCollSum(t)' + lastCollError'[t] <= OwedCollSum(t) + lastCollError[t] + DP * c[t]
      BY <2>1, <2>2, <2>3, <2>5, <2>6
    <2>9. DebtShare(t)' <= DebtShare(t) + DP * DebtPart(d, c)[t]
      BY <2>1, <2>2, <2>3, <2>5, <2>6, <2>7
    <2> QED
      BY <2>8, <2>9
  <1>2. ASSUME NEW t \in Tokens
        PROVE  OwedCollSum(t)' + lastCollError'[t] <= DP * defaultColl'[t]
    <2>1. OwedCollSum(t) + lastCollError[t] <= DP * defaultColl[t]
      BY DEF ClaimsInv
    <2>2. defaultColl'[t] = defaultColl[t] + c[t]
      BY DEF SumColls
    <2>3. /\ defaultColl[t] \in Int /\ c[t] \in Int /\ DP \in Int
          /\ OwedCollSum(t) \in Int /\ OwedCollSum(t)' \in Int
          /\ lastCollError[t] \in Int /\ lastCollError'[t] \in Int
      BY OwedTypes, OwedTypesAfter, ScaleAssumption DEF AllInv, TypesInv, PoolTypeOK, Colls
    <2>4. DP * (defaultColl[t] + c[t]) = DP * defaultColl[t] + DP * c[t]
          /\ DP * defaultColl[t] \in Int /\ DP * c[t] \in Int
      BY <2>3, ProductOverSum
    <2>5. OwedCollSum(t)' + lastCollError'[t] <= OwedCollSum(t) + lastCollError[t] + DP * c[t]
      BY <1>1
    <2> HIDE DEF OwedCollSum
    <2> QED
      BY <2>1, <2>2, <2>3, <2>4, <2>5
  <1>3. SumFunctionOnSet(DebtShares', Tokens) <= DP * defaultDebt'
    <2> DEFINE part == DebtPart(d, c)
               got == [t \in Tokens |-> DP * part[t]]
               both == [t \in Tokens |-> DebtShares[t] + got[t]]
    <2>1. (\A t \in Tokens : part[t] \in Nat) /\ SumFunctionOnSet(part, Tokens) <= d
      <3>1. c # NoColls => VC(price, c) # 0
        BY DEF Redistribute
      <3> QED
        BY <3>1, DebtPartsFit DEF AllInv, TypesInv
    <2> HIDE DEF part
    <2>2. ASSUME NEW t \in Tokens
          PROVE  /\ DebtShares[t] \in Int /\ DebtShares'[t] \in Int
                 /\ got[t] = DP * part[t] /\ got[t] \in Int
                 /\ both[t] = DebtShares[t] + got[t] /\ both[t] \in Int
                 /\ DebtShares'[t] <= both[t]
      <3>1. DebtShares[t] \in Int /\ DebtShares'[t] \in Int
        BY DebtSharesTypes
      <3>2. DebtShares[t] = DebtShare(t) /\ DebtShares'[t] = DebtShare(t)'
        BY DEF DebtShares
      <3>3. DebtShare(t)' <= DebtShare(t) + DP * part[t]
        BY <1>1 DEF part
      <3>4. DP * part[t] \in Int
        BY <2>1, ProductNat, ScaleAssumption
      <3> HIDE DEF DebtShares, DebtShare
      <3> QED
        BY <3>1, <3>2, <3>3, <3>4
    <2> HIDE DEF got, both
    <2>3. SumFunctionOnSet(got, Tokens) = DP * SumFunctionOnSet(part, Tokens)
      <3>1. DP \in Int /\ \A t \in Tokens : part[t] \in Int /\ got[t] = DP * part[t]
        BY <2>1, <2>2, ScaleAssumption
      <3> QED
        BY <3>1, SumScaled, TokensAssumption
    <2>4. SumFunctionOnSet(both, Tokens)
            = SumFunctionOnSet(DebtShares, Tokens) + SumFunctionOnSet(got, Tokens)
      BY <2>2, SumPlus, TokensAssumption
    <2>5. SumFunctionOnSet(DebtShares', Tokens) <= SumFunctionOnSet(both, Tokens)
      BY <2>2, SumMonotone, TokensAssumption
    <2>6. SumFunctionOnSet(DebtShares, Tokens) <= DP * defaultDebt
      BY DEF ClaimsInv
    <2>7. /\ SumFunctionOnSet(DebtShares', Tokens) \in Int /\ SumFunctionOnSet(DebtShares, Tokens) \in Int
          /\ SumFunctionOnSet(both, Tokens) \in Int
      BY <2>2, SumInt, TokensAssumption
    <2>8. SumFunctionOnSet(part, Tokens) \in Nat
      BY <2>1, SumNat, TokensAssumption
    <2>9. DP * SumFunctionOnSet(part, Tokens) <= DP * d
          /\ DP * SumFunctionOnSet(part, Tokens) \in Nat
      BY <2>1, <2>8, ProductMonotone, ProductNat, ScaleAssumption
    <2>10. defaultDebt \in Int /\ DP \in Int
      BY ScaleAssumption DEF AllInv, LedgerInv, LedgerTypeOK
    <2>11. DP * (defaultDebt + d) = DP * defaultDebt + DP * d
           /\ DP * defaultDebt \in Int /\ DP * d \in Int
      BY <2>10, ProductOverSum
    <2> HIDE DEF DebtShares
    <2> QED
      BY <2>3, <2>4, <2>5, <2>6, <2>7, <2>9, <2>11
  <1> QED
    BY <1>2, <1>3 DEF ClaimsInv

\* Nothing that the claims depend on moves.
LEMMA QuietClaims ==
  ASSUME ClaimsInv, UNCHANGED <<status, stakes, snapshotVars, rewardVars, defaultVars>>
  PROVE  ClaimsInv'
  <1>1. UNCHANGED <<status, stakes, collSnapshots, debtSnapshots, L_Coll, L_YUSDDebt,
                    lastCollError, lastYUSDDebtError, defaultColl, defaultDebt>>
    BY DEF snapshotVars, rewardVars, defaultVars
  <1>2. \A t \in Tokens : OwedCollSum(t)' = OwedCollSum(t) /\ DebtShare(t)' = DebtShare(t)
    BY <1>1 DEF OwedCollSum, OwedDebtSum, DebtShare, OwedColl, OwedDebt
  <1>3. DebtShares' = DebtShares
    BY <1>2 DEF DebtShares
  <1> QED
    BY <1>1, <1>2, <1>3 DEF ClaimsInv

\* A handler applies b's rewards, or would have if there were any.
LEMMA AppliedMove ==
  ASSUME AllInv, NEW b \in Borrowers, UNCHANGED rewardVars,
         \A x \in Borrowers \ {b} : Untouched(x),
         defaultDebt' = defaultDebt - AppliedDebt(b),
         defaultColl' = SubColls(defaultColl, AppliedColl(b)),
         Settled(b) \/ (status'[b] = status[b] /\ AppliedSnapshots(b))
  PROVE  ClaimsMove(b, AppliedDebt(b), AppliedColl(b))
  <1>1. CASE HasPendingRewards(b)
    <2>1. AppliedDebt(b) = PendingDebt(b) /\ AppliedColl(b) = PendingColl(b)
      BY <1>1 DEF AppliedDebt, AppliedColl
    <2>2. Settled(b)
      BY <1>1 DEF Settled, AppliedSnapshots, AllInv, TypesInv, TroveTypeOK
    <2> QED
      BY <2>1, <2>2 DEF ClaimsMove
  <1>2. CASE ~HasPendingRewards(b)
    <2>1. AppliedDebt(b) = 0 /\ AppliedColl(b) = NoColls
      BY <1>2 DEF AppliedDebt, AppliedColl
    <2>2. Settled(b) \/ Kept(b)
      BY <1>2 DEF Kept, AppliedSnapshots, snapshotVars
    <2> QED
      BY <2>1, <2>2 DEF ClaimsMove
  <1> QED
    BY <1>1, <1>2

\* The others' part of it.
LEMMA OthersUntouched ==
  ASSUME TroveTypeOK, status \in [Borrowers -> Statuses], NEW b \in Borrowers,
         status' = status \/ \E s : status' = [status EXCEPT ![b] = s],
         stakes' = stakes \/ \E s : stakes' = [stakes EXCEPT ![b] = s],
         \/ UNCHANGED snapshotVars
         \/ \E m, n : /\ collSnapshots' = [collSnapshots EXCEPT ![b] = m]
                      /\ debtSnapshots' = [debtSnapshots EXCEPT ![b] = n]
  PROVE  \A x \in Borrowers \ {b} : Untouched(x)
  BY DEF TroveTypeOK, Untouched, snapshotVars

LEMMA StakesOfOne ==
  ASSUME NEW b, NEW ts, NEW c, UpdateStake(b, ts, c) \/ RemoveStake(b, ts)
  PROVE  \E s : stakes' = [stakes EXCEPT ![b] = s]
  <1>1. PICK new : SetStakes(b, ts, new)
    BY DEF UpdateStake, RemoveStake
  <1>2. stakes' = [stakes EXCEPT ![b] = [t \in Tokens |-> IF t \in ts THEN new[t] ELSE stakes[b][t]]]
    BY <1>1 DEF SetStakes
  <1> QED
    BY <1>2

LEMMA SnapshotsOfOne ==
  ASSUME NEW b, AppliedSnapshots(b)
  PROVE  \/ UNCHANGED snapshotVars
         \/ \E m, n : /\ collSnapshots' = [collSnapshots EXCEPT ![b] = m]
                      /\ debtSnapshots' = [debtSnapshots EXCEPT ![b] = n]
  BY DEF AppliedSnapshots

LEMMA CloseAsMove ==
  ASSUME AllInv, NEW b \in Borrowers, NEW ts, RemoveStake(b, ts), NEW how,
         how \in Statuses \ {"active"}, CloseAs(b, how)
  PROVE  (\A x \in Borrowers \ {b} : Untouched(x)) /\ Settled(b)
  <1>1. status \in [Borrowers -> Statuses] /\ TroveTypeOK
    BY DEF AllInv, TypesInv, ReservesInv
  <1>2. /\ status' = [status EXCEPT ![b] = how]
        /\ collSnapshots' = [collSnapshots EXCEPT ![b] = NoColls]
        /\ debtSnapshots' = [debtSnapshots EXCEPT ![b] = NoColls]
    BY DEF CloseAs
  <1>3. \E s : stakes' = [stakes EXCEPT ![b] = s]
    BY StakesOfOne
  <1>4. \A x \in Borrowers \ {b} : Untouched(x)
    BY <1>1, <1>2, <1>3, OthersUntouched
  <1> QED
    BY <1>1, <1>2, <1>4 DEF Settled

LEMMA OpenTroveClaims ==
  ASSUME AllInv, AllInv', ClaimsInv, ~StakeGrowsBehind, NEW b \in Borrowers, NEW c, NEW y,
         NEW bfee, NEW vfee, OpenTrove(b, c, y, bfee, vfee)
  PROVE  ClaimsInv'
  <1>1. /\ status' = [status EXCEPT ![b] = "active"]
        /\ collSnapshots' = [collSnapshots EXCEPT ![b] = L_Coll]
        /\ debtSnapshots' = [debtSnapshots EXCEPT ![b] = L_YUSDDebt]
        /\ UpdateStake(b, Support(c), c)
        /\ UNCHANGED rewardVars /\ UNCHANGED defaultVars
    BY DEF OpenTrove
  <1>2. status \in [Borrowers -> Statuses] /\ TroveTypeOK
    BY DEF AllInv, TypesInv, ReservesInv
  <1>3. \E s : stakes' = [stakes EXCEPT ![b] = s]
    BY <1>1, StakesOfOne
  <1>4. \A x \in Borrowers \ {b} : Untouched(x)
    BY <1>1, <1>2, <1>3, OthersUntouched
  <1>5. Settled(b)
    BY <1>1, <1>2 DEF Settled, TroveTypeOK
  <1>6. defaultDebt' = defaultDebt - 0 /\ defaultColl' = SubColls(defaultColl, NoColls)
    <2>1. defaultDebt' = defaultDebt /\ defaultColl' = defaultColl /\ defaultDebt \in Nat
          /\ defaultColl \in Colls
      BY <1>1 DEF defaultVars, AllInv, TypesInv, PoolTypeOK, LedgerInv, LedgerTypeOK
    <2>2. \A t \in Tokens : SubColls(defaultColl, NoColls)[t] = defaultColl[t]
      BY <2>1 DEF SubColls, NoColls, Colls
    <2>3. SubColls(defaultColl, NoColls) = defaultColl
      BY <2>1, <2>2 DEF SubColls, Colls
    <2> QED
      BY <2>1, <2>3
  <1>7. ClaimsMove(b, 0, NoColls)
    BY <1>1, <1>4, <1>5, <1>6 DEF ClaimsMove
  <1> QED
    BY <1>7, ClaimsStayCovered

LEMMA AdjustTroveClaims ==
  ASSUME AllInv, AllInv', ClaimsInv, ~StakeGrowsBehind, NEW b \in Borrowers, NEW cIn, NEW cOut,
         NEW y, NEW up, NEW bfee, NEW vfee, NEW sold,
         AdjustTrove(b, cIn, cOut, y, up, bfee, vfee, sold)
  PROVE  ClaimsInv'
  <1> DEFINE new == SubColls(SumColls(SumColls(colls[b], AppliedColl(b)), cIn), cOut)
  <1>1. /\ AppliedSnapshots(b) /\ status' = status
        /\ UpdateStake(b, Support(new), new)
        /\ defaultDebt' = defaultDebt - AppliedDebt(b)
        /\ defaultColl' = SubColls(defaultColl, AppliedColl(b))
        /\ UNCHANGED rewardVars
    BY DEF AdjustTrove
  <1> HIDE DEF new
  <1>2. status \in [Borrowers -> Statuses] /\ TroveTypeOK
    BY DEF AllInv, TypesInv, ReservesInv
  <1>3. \E s : stakes' = [stakes EXCEPT ![b] = s]
    BY <1>1, StakesOfOne
  <1>4. \A x \in Borrowers \ {b} : Untouched(x)
    BY <1>1, <1>2, <1>3, OthersUntouched, SnapshotsOfOne
  <1> QED
    BY <1>1, <1>4, AppliedMove, ClaimsStayCovered

LEMMA CloseTroveClaims ==
  ASSUME AllInv, AllInv', ClaimsInv, ~StakeGrowsBehind, NEW b \in Borrowers, NEW unlever,
         NEW sold, CloseTrove(b, unlever, sold)
  PROVE  ClaimsInv'
  <1>1. /\ RemoveStake(b, AppliedTokens(b)) /\ CloseAs(b, "closedByOwner")
        /\ defaultDebt' = defaultDebt - AppliedDebt(b)
        /\ defaultColl' = SubColls(defaultColl, AppliedColl(b))
        /\ UNCHANGED rewardVars
    BY DEF CloseTrove
  <1>2. (\A x \in Borrowers \ {b} : Untouched(x)) /\ Settled(b)
    BY <1>1, CloseAsMove DEF Statuses
  <1> QED
    BY <1>1, <1>2, AppliedMove, ClaimsStayCovered

LEMMA LiquidateAsClaims ==
  ASSUME AllInv, AllInv', ClaimsInv, ~StakeGrowsBehind, NEW b \in Borrowers, NEW v,
         LiquidateAs(b, v)
  PROVE  ClaimsInv'
  <1>1. /\ RemoveStake(b, collTokens[b]) /\ CloseAs(b, "closedByLiquidation")
        /\ defaultDebt' = defaultDebt - PendingDebt(b)
        /\ defaultColl' = SubColls(defaultColl, PendingColl(b))
        /\ UNCHANGED rewardVars
    BY DEF LiquidateAs
  <1>2. (\A x \in Borrowers \ {b} : Untouched(x)) /\ Settled(b)
    BY <1>1, CloseAsMove DEF Statuses
  <1>3. ClaimsMove(b, PendingDebt(b), PendingColl(b))
    BY <1>1, <1>2 DEF ClaimsMove
  <1> QED
    BY <1>3, ClaimsStayCovered

LEMMA FinishLiquidationClaims ==
  ASSUME AllInv, AllInv', StakesTotal, ClaimsInv, FinishLiquidation
  PROVE  ClaimsInv'
  <1> DEFINE d == tx.totals.redistribute
             c == tx.totals.toRedist
  <1>1. /\ tx.kind = "liquidation"
        /\ Redistribute(d, c)
        /\ defaultDebt' = defaultDebt + d
        /\ defaultColl' = SumColls(defaultColl, RedistributedColl(tx.totals))
        /\ UNCHANGED <<status, stakes, collSnapshots, debtSnapshots>>
    BY DEF FinishLiquidation, troveVars, stakeVars, snapshotVars
  <1>2. d \in Nat /\ c \in Colls
    BY <1>1, LiquidationFields DEF AllInv, TypesInv, TxInv
  <1>3. CASE d = 0
    <2>1. UNCHANGED rewardVars /\ RedistributedColl(tx.totals) = NoColls
      BY <1>1, <1>3 DEF Redistribute, RedistributedColl
    <2>2. defaultDebt \in Nat /\ defaultColl \in Colls
      BY DEF AllInv, TypesInv, PoolTypeOK, LedgerInv, LedgerTypeOK
    <2>3. \A t \in Tokens : SumColls(defaultColl, NoColls)[t] = defaultColl[t]
      BY <2>2 DEF SumColls, NoColls, Colls
    <2>4. SumColls(defaultColl, NoColls) = defaultColl
      BY <2>2, <2>3 DEF SumColls, Colls
    <2>5. defaultDebt' = defaultDebt /\ defaultColl' = defaultColl
      BY <1>1, <1>3, <2>1, <2>2, <2>4
    <2> QED
      BY <1>1, <2>1, <2>5, QuietClaims DEF snapshotVars, defaultVars
  <1>4. CASE d # 0
    <2>1. RedistributedColl(tx.totals) = c
      BY <1>4 DEF RedistributedColl
    <2> HIDE DEF d, c
    <2> QED
      BY <1>1, <1>2, <1>4, <2>1, ClaimsAreShared
  <1> QED
    BY <1>3, <1>4

LEMMA ReduceTroveClaims ==
  ASSUME AllInv, AllInv', ClaimsInv, ~StakeGrowsBehind, NEW b \in Borrowers, NEW c, NEW left,
         NEW new, NEW collOut, NEW debtOut, ReduceTrove(b, c, left, new, collOut, debtOut),
         UNCHANGED rewardVars
  PROVE  ClaimsInv'
  <1>1. /\ defaultDebt' = defaultDebt - AppliedDebt(b)
        /\ defaultColl' = SubColls(defaultColl, AppliedColl(b))
    BY DEF ReduceTrove
  <1>2. CASE new = GasCompensation
    <2>1. RemoveStake(b, AppliedTokens(b)) /\ CloseAs(b, "closedByRedemption")
      BY <1>2 DEF ReduceTrove
    <2>2. (\A x \in Borrowers \ {b} : Untouched(x)) /\ Settled(b)
      BY <2>1, CloseAsMove DEF Statuses
    <2> QED
      BY <1>1, <2>2, AppliedMove, ClaimsStayCovered
  <1>3. CASE new # GasCompensation
    <2>1. /\ AppliedSnapshots(b) /\ status' = status /\ UpdateStake(b, Support(c), left)
      BY <1>3 DEF ReduceTrove
    <2>2. status \in [Borrowers -> Statuses] /\ TroveTypeOK
      BY DEF AllInv, TypesInv, ReservesInv
    <2>3. \E s : stakes' = [stakes EXCEPT ![b] = s]
      BY <2>1, StakesOfOne
    <2>4. \A x \in Borrowers \ {b} : Untouched(x)
      BY <2>1, <2>2, <2>3, OthersUntouched, SnapshotsOfOne
    <2> QED
      BY <1>1, <2>1, <2>4, AppliedMove, ClaimsStayCovered
  <1> QED
    BY <1>2, <1>3

LEMMA RedeemClaims ==
  ASSUME AllInv, AllInv', ClaimsInv, ~StakeGrowsBehind, NEW b \in Borrowers,
         RedeemFromTrove(b) \/ \E t \in Tokens, amount \in Redemptions : RedeemSingle(b, t, amount)
  PROVE  ClaimsInv'
  <1>1. CASE RedeemFromTrove(b)
    <2>1. \E c, left, new, collOut, debtOut : ReduceTrove(b, c, left, new, collOut, debtOut)
      BY <1>1 DEF RedeemFromTrove
    <2>2. UNCHANGED rewardVars
      BY <1>1 DEF RedeemFromTrove
    <2> QED
      BY <2>1, <2>2, ReduceTroveClaims
  <1>2. CASE \E t \in Tokens, amount \in Redemptions : RedeemSingle(b, t, amount)
    <2>1. PICK t \in Tokens, amount \in Redemptions : RedeemSingle(b, t, amount)
      BY <1>2
    <2>2. \E c, left, new, collOut, debtOut : ReduceTrove(b, c, left, new, collOut, debtOut)
      BY <2>1 DEF RedeemSingle
    <2>3. UNCHANGED rewardVars
      BY <2>1 DEF RedeemSingle
    <2> QED
      BY <2>2, <2>3, ReduceTroveClaims
  <1> QED
    BY <1>1, <1>2

LEMMA CancelPartialClaims ==
  ASSUME AllInv, AllInv', ClaimsInv, ~StakeGrowsBehind, NEW b \in Borrowers, CancelPartial(b)
  PROVE  ClaimsInv'
  <1>1. /\ AppliedSnapshots(b) /\ status' = status /\ stakes' = stakes
        /\ defaultDebt' = defaultDebt - AppliedDebt(b)
        /\ defaultColl' = SubColls(defaultColl, AppliedColl(b))
        /\ UNCHANGED rewardVars
    BY DEF CancelPartial, stakeVars
  <1>2. status \in [Borrowers -> Statuses] /\ TroveTypeOK
    BY DEF AllInv, TypesInv, ReservesInv
  <1>3. \A x \in Borrowers \ {b} : Untouched(x)
    BY <1>1, <1>2, OthersUntouched, SnapshotsOfOne
  <1> QED
    BY <1>1, <1>3, AppliedMove, ClaimsStayCovered

LEMMA NextClaims ==
  ASSUME AllInv, AllInv', StakesTotal, ClaimsInv, Next, ~StakeGrowsBehind
  PROVE  ClaimsInv'
  <1>1. CASE \E b \in Borrowers : Borrow(b)
    <2>1. PICK b \in Borrowers : Borrow(b)
      BY <1>1
    <2>2. CASE UpdateTrove(b)
      BY <2>2, QuietClaims DEF UpdateTrove, troveVars, stakeVars
    <2>3. CASE ClaimCollateral(b)
      BY <2>3, QuietClaims DEF ClaimCollateral, troveVars, stakeVars
    <2> QED
      BY <2>1, <2>2, <2>3, OpenTroveClaims, AdjustTroveClaims, CloseTroveClaims DEF Borrow
  <1>2. CASE \E x \in Deposits : ProvideToSP(x) \/ WithdrawFromSP(x)
    BY <1>2, QuietClaims DEF ProvideToSP, WithdrawFromSP, troveVars, stakeVars
  <1>3. CASE \E t \in Tokens, p \in Prices : SetPrice(t, p)
    BY <1>3, QuietClaims DEF SetPrice, troveVars, stakeVars
  <1>4. CASE Liquidate
    <2>1. CASE BeginLiquidation
      BY <2>1, QuietClaims DEF BeginLiquidation, troveVars, stakeVars
    <2>2. CASE \E b \in Borrowers : LiquidateNormalMode(b) \/ LiquidateRecoveryMode(b)
      BY <2>2, LiquidateTypes, LiquidateAsClaims
    <2> QED
      BY <1>4, <2>1, <2>2, FinishLiquidationClaims DEF Liquidate
  <1>5. CASE Redeem
    <2>1. CASE \E amount \in Redemptions, b \in Borrowers : BeginRedemption(amount, b)
      BY <2>1, QuietClaims DEF BeginRedemption, troveVars, stakeVars
    <2>2. CASE \E b \in Borrowers : SkipTrove(b)
      BY <2>2, QuietClaims DEF SkipTrove, troveVars, stakeVars
    <2>3. CASE FinishRedemption
      BY <2>3, QuietClaims DEF FinishRedemption, troveVars, stakeVars
    <2> QED
      BY <1>5, <2>1, <2>2, <2>3, RedeemClaims, CancelPartialClaims DEF Redeem
  <1> QED
    BY <1>1, <1>2, <1>3, <1>4, <1>5 DEF Next

\* What the troves are owed, each part rounded down, is in DefaultPool.
LEMMA ClaimsMeaning ==
  ASSUME AllInv, ClaimsInv, NEW t \in Tokens
  PROVE  DefaultPoolCovers(t)
  <1>1. DP \in Nat \ {0} /\ DP \in Int /\ defaultDebt \in Nat /\ defaultColl[t] \in Nat
        /\ lastCollError[t] \in Nat
    BY ScaleAssumption DEF AllInv, LedgerInv, LedgerTypeOK, TypesInv, PoolTypeOK, Colls
  <1>2. defaultColl[t] >= Total(LAMBDA b : PendingColl(b)[t])
    <2> DEFINE p == [b \in Borrowers |-> PendingColl(b)[t]]
               dp == [b \in Borrowers |-> DP * p[b]]
               o == OwedColl(t)
    <2>1. Total(LAMBDA b : PendingColl(b)[t]) = SumFunctionOnSet(p, Borrowers)
      BY DEF Total, SumFunction
    <2>2. \A b \in Borrowers : /\ p[b] \in Nat /\ dp[b] = DP * p[b] /\ o[b] \in Int
                               /\ dp[b] <= o[b]
      BY RewardsAre, OwedTypes
    <2>3. OwedCollSum(t) = SumFunctionOnSet(o, Borrowers)
      BY DEF OwedCollSum
    <2> HIDE DEF p, dp, o
    <2>4. \A b \in Borrowers : p[b] \in Int /\ dp[b] \in Int
      BY <1>1, <2>2, ProductNat
    <2>5. SumFunctionOnSet(dp, Borrowers) = DP * SumFunctionOnSet(p, Borrowers)
      BY <1>1, <2>2, <2>4, SumScaled, BorrowersAssumption
    <2>6. SumFunctionOnSet(dp, Borrowers) <= OwedCollSum(t)
      BY <2>2, <2>3, <2>4, SumMonotone, BorrowersAssumption
    <2>7. SumFunctionOnSet(p, Borrowers) \in Nat
      BY <2>2, SumNat, BorrowersAssumption
    <2>8. OwedCollSum(t) + lastCollError[t] <= DP * defaultColl[t] /\ OwedCollSum(t) \in Nat
      BY OwedTypes DEF ClaimsInv
    <2>9. /\ DP * SumFunctionOnSet(p, Borrowers) = SumFunctionOnSet(p, Borrowers) * DP
          /\ DP * defaultColl[t] = defaultColl[t] * DP
          /\ DP * SumFunctionOnSet(p, Borrowers) \in Nat /\ DP * defaultColl[t] \in Nat
      BY <1>1, <2>7, ProductTurns, ProductNat
    <2>10. SumFunctionOnSet(p, Borrowers) * DP <= defaultColl[t] * DP
      BY <1>1, <2>5, <2>6, <2>8, <2>9
    <2>11. SumFunctionOnSet(p, Borrowers) <= defaultColl[t]
      BY <1>1, <2>7, <2>10, ProductCancel
    <2> QED
      BY <1>1, <2>1, <2>7, <2>11
  <1>3. defaultDebt >= Total(LAMBDA b : PendingDebt(b))
    <2> DEFINE F == [b \in Borrowers |-> Rewards(b)]
               rows == [b \in Borrowers |-> SumFunctionOnSet(F[b], Tokens)]
               column(u) == [b \in Borrowers |-> F[b][u]]
               columns == [u \in Tokens |-> SumFunctionOnSet(column(u), Borrowers)]
               scaled == [u \in Tokens |-> DP * columns[u]]
    <2>1. \A b \in Borrowers : rows[b] = PendingDebt(b)
      BY RewardsAre
    <2>2. Total(LAMBDA b : PendingDebt(b)) = SumFunctionOnSet(rows, Borrowers)
      <3>1. Total(LAMBDA b : PendingDebt(b))
              = SumFunctionOnSet([b \in Borrowers |-> PendingDebt(b)], Borrowers)
        BY DEF Total, SumFunction
      <3>2. rows = [b \in Borrowers |-> PendingDebt(b)]
        BY <2>1
      <3> QED
        BY <3>1, <3>2
    <2>3. \A b \in Borrowers : \A u \in Tokens : F[b][u] \in Int
      BY RewardsAre
    <2>4. SumFunctionOnSet(rows, Borrowers) = SumFunctionOnSet(columns, Tokens)
      <3> HIDE DEF F
      <3> QED
        BY <2>3, SumSwap, BorrowersAssumption, TokensAssumption
    <2>5. ASSUME NEW u \in Tokens
          PROVE  /\ columns[u] \in Nat /\ scaled[u] = DP * columns[u] /\ scaled[u] \in Int
                 /\ DebtShares[u] \in Int /\ scaled[u] <= DebtShares[u]
      <3> DEFINE dp == [b \in Borrowers |-> DP * column(u)[b]]
                 o == OwedDebt(u)
      <3>1. \A b \in Borrowers : /\ column(u)[b] \in Nat /\ dp[b] = DP * column(u)[b]
                                 /\ o[b] \in Int /\ dp[b] <= o[b]
        <4>1. ASSUME NEW b \in Borrowers
              PROVE  /\ column(u)[b] \in Nat /\ dp[b] = DP * column(u)[b]
                     /\ o[b] \in Int /\ dp[b] <= o[b]
          <5>1. column(u)[b] = Rewards(b)[u] /\ dp[b] = DP * Rewards(b)[u]
            OBVIOUS
          <5>2. Rewards(b)[u] \in Nat /\ DP * Rewards(b)[u] <= OwedDebt(u)[b]
                /\ OwedDebt(u)[b] \in Int
            BY RewardsAre, OwedTypes
          <5> HIDE DEF Rewards, OwedDebt, column, dp
          <5> QED
            BY <5>1, <5>2
        <4> QED
          BY <4>1
      <3>2. columns[u] = SumFunctionOnSet(column(u), Borrowers) /\ scaled[u] = DP * columns[u]
            /\ OwedDebtSum(u) = SumFunctionOnSet(o, Borrowers)
        BY DEF OwedDebtSum
      <3> HIDE DEF dp, o, column, columns, scaled
      <3>3. \A b \in Borrowers : column(u)[b] \in Int /\ dp[b] \in Int
        BY <1>1, <3>1, ProductNat
      <3>4. SumFunctionOnSet(dp, Borrowers) = DP * SumFunctionOnSet(column(u), Borrowers)
        BY <1>1, <3>1, <3>3, SumScaled, BorrowersAssumption
      <3>5. SumFunctionOnSet(dp, Borrowers) <= OwedDebtSum(u)
        BY <3>1, <3>2, <3>3, SumMonotone, BorrowersAssumption
      <3>6. columns[u] \in Nat
        BY <3>1, <3>2, SumNat, BorrowersAssumption
      <3>7. DebtShares[u] = OwedDebtSum(u) + lastYUSDDebtError[u] /\ OwedDebtSum(u) \in Nat
            /\ lastYUSDDebtError[u] \in Nat
        BY OwedTypes DEF DebtShares, DebtShare, AllInv, TypesInv, PoolTypeOK, Colls
      <3>8. DP * columns[u] \in Nat
        BY <1>1, <3>6, ProductNat
      <3> HIDE DEF DebtShares, OwedDebtSum
      <3> QED
        BY <3>2, <3>4, <3>5, <3>6, <3>7, <3>8
    <2> HIDE DEF rows, columns, scaled, DebtShares
    <2>6. SumFunctionOnSet(scaled, Tokens) = DP * SumFunctionOnSet(columns, Tokens)
      <3>1. \A u \in Tokens : columns[u] \in Int /\ scaled[u] = DP * columns[u]
        BY <2>5
      <3> QED
        BY <1>1, <3>1, SumScaled, TokensAssumption
    <2>7. SumFunctionOnSet(scaled, Tokens) <= SumFunctionOnSet(DebtShares, Tokens)
      BY <2>5, SumMonotone, TokensAssumption
    <2>8. SumFunctionOnSet(columns, Tokens) \in Nat /\ SumFunctionOnSet(DebtShares, Tokens) \in Int
      BY <2>5, SumNat, SumInt, TokensAssumption
    <2>9. SumFunctionOnSet(DebtShares, Tokens) <= DP * defaultDebt
      BY DEF ClaimsInv
    <2>10. /\ DP * SumFunctionOnSet(columns, Tokens) = SumFunctionOnSet(columns, Tokens) * DP
           /\ DP * defaultDebt = defaultDebt * DP
           /\ DP * SumFunctionOnSet(columns, Tokens) \in Nat /\ DP * defaultDebt \in Nat
      BY <1>1, <2>8, ProductTurns, ProductNat
    <2>11. SumFunctionOnSet(columns, Tokens) * DP <= defaultDebt * DP
      BY <2>6, <2>7, <2>8, <2>9, <2>10
    <2>12. SumFunctionOnSet(columns, Tokens) <= defaultDebt
      BY <1>1, <2>8, <2>11, ProductCancel
    <2> QED
      BY <1>1, <2>2, <2>4, <2>8, <2>12
  <1> QED
    BY <1>2, <1>3 DEF DefaultPoolCovers

\* DefaultPool holds the rewards of every trove, of every token and in YUSD,
\* for as long as no trove's stake grows behind its snapshots.
THEOREM DefaultPoolAlwaysCovers ==
  Spec /\ [][~StakeGrowsBehind]_vars => [](\A t \in Tokens : DefaultPoolCovers(t))
  <1>1. /\ AllInv /\ AllInv' /\ TotalsInv /\ ClaimsInv /\ [Next]_vars /\ [~StakeGrowsBehind]_vars
          => ClaimsInv'
    <2> SUFFICES ASSUME AllInv, AllInv', TotalsInv, ClaimsInv, [Next]_vars,
                        [~StakeGrowsBehind]_vars
                 PROVE  ClaimsInv'
      OBVIOUS
    <2>1. CASE UNCHANGED vars
      BY <2>1, QuietClaims DEF vars, troveVars, stakeVars
    <2>2. CASE Next /\ ~StakeGrowsBehind
      BY <2>2, NextClaims DEF TotalsInv
    <2> QED
      BY <2>1, <2>2
  <1>2. AllInv /\ ClaimsInv => \A t \in Tokens : DefaultPoolCovers(t)
    BY ClaimsMeaning
  <1> QED
    BY <1>1, <1>2, InitClaims, TotalsInvAlways, PTL DEF Spec

\* Every pool holds what is claimed from it, at every step of every batch, in
\* each behaviour in which neither of the two things happens that the code does
\* not rule out: a redemption that overlooks rewards and a stake that grows
\* behind its snapshots.
THEOREM PoolsAlwaysCoverClaims ==
  Spec /\ [][~RedeemsOverlooked]_vars /\ [][~StakeGrowsBehind]_vars => []PoolsCoverClaims
  <1>1. AllInv /\ TotalsInv => \A t \in Tokens : SurplusPoolCovers(t)
    BY TotalsMeaning DEF TotalsInv
  <1>2. /\ \A t \in Tokens : ActivePoolCovers(t)
        /\ \A t \in Tokens : DefaultPoolCovers(t)
        /\ \A t \in Tokens : SurplusPoolCovers(t)
        => PoolsCoverClaims
    BY DEF PoolsCoverClaims
  <1> QED
    BY <1>1, <1>2, ActivePoolAlwaysCovers, DefaultPoolAlwaysCovers, TotalsInvAlways, PTL

-----------------------------------------------------------------------------
(* With a single token nothing is overlooked: an open trove has some of it. *)

\* An open trove has collateral, and its array of tokens names all of it.
CollsNamed ==
  \A b \in Active : colls[b] # NoColls /\ Support(colls[b]) \subseteq collTokens[b]

\* SortedTroves takes no trove whose ratio is zero.
LEMMA PlacedColl ==
  ASSUME NEW b, NEW c, NEW d \in Nat \ {0}, PlaceTrove(b, ComputeCR(VC(price, c), d)),
         PoolTypeOK
  PROVE  c # NoColls
  <1> SUFFICES ASSUME c = NoColls PROVE FALSE
    OBVIOUS
  <1>3. VC(price, c) = 0
    BY NoCollsVC DEF PoolTypeOK
  <1>4. 0 * DP = 0 /\ 0 \div d = 0
    BY ScaleAssumption
  <1>5. ComputeCR(VC(price, c), d) = 0
    BY <1>3, <1>4 DEF ComputeCR
  <1> QED
    BY <1>5 DEF PlaceTrove

\* No open trove has no debt.
LEMMA OpenTrovesOwe ==
  ASSUME AllInv', NEW b \in Borrowers, status'[b] = "active"
  PROVE  debt'[b] \in Nat \ {0}
  <1>1. debt'[b] \in Nat /\ debt'[b] >= MinNetDebt + GasCompensation
    BY DEF AllInv, LedgerInv, LedgerTypeOK, ReservesInv, MinimumDebt, Active
  <1> QED
    BY <1>1, ScaleAssumption

\* One trove is left with collateral that its array names, or closed.
LEMMA NamedMoves ==
  ASSUME CollsNamed, NEW b \in Borrowers,
         \A x \in Borrowers \ {b} : /\ status'[x] = status[x] /\ colls'[x] = colls[x]
                                    /\ collTokens'[x] = collTokens[x],
         status'[b] = "active" => /\ colls'[b] # NoColls
                                  /\ Support(colls'[b]) \subseteq collTokens'[b]
  PROVE  CollsNamed'
  <1> SUFFICES ASSUME NEW x \in Active'
               PROVE  colls'[x] # NoColls /\ Support(colls'[x]) \subseteq collTokens'[x]
    BY DEF CollsNamed, Support, NoColls
  <1>1. CASE x = b
    BY <1>1 DEF Active
  <1>2. CASE x # b
    <2>1. x \in Active
      BY <1>2 DEF Active
    <2> QED
      BY <1>2, <2>1 DEF CollsNamed, Active
  <1> QED
    BY <1>1, <1>2

LEMMA ClosedNamed ==
  ASSUME AllInv, CollsNamed, NEW b \in Borrowers, NEW how \in Statuses \ {"active"}, CloseAs(b, how)
  PROVE  CollsNamed'
  <1>1. status \in [Borrowers -> Statuses] /\ TroveTypeOK
    BY DEF AllInv, TypesInv, ReservesInv
  <1>2. /\ status' = [status EXCEPT ![b] = how]
        /\ colls' = [colls EXCEPT ![b] = NoColls]
        /\ collTokens' = [collTokens EXCEPT ![b] = {}]
    BY DEF CloseAs
  <1> QED
    BY <1>1, <1>2, NamedMoves DEF TroveTypeOK

LEMMA OpenTroveNamed ==
  ASSUME AllInv, CollsNamed, NEW b \in Borrowers, NEW c, NEW y, NEW bfee, NEW vfee,
         OpenTrove(b, c, y, bfee, vfee)
  PROVE  CollsNamed'
  <1>1. status \in [Borrowers -> Statuses] /\ TroveTypeOK
    BY DEF AllInv, TypesInv, ReservesInv
  <1>2. /\ status' = [status EXCEPT ![b] = "active"]
        /\ colls' = [colls EXCEPT ![b] = c] /\ c # NoColls
        /\ collTokens' = [collTokens EXCEPT ![b] = Support(c)]
    BY DEF OpenTrove
  <1> QED
    BY <1>1, <1>2, NamedMoves DEF TroveTypeOK

LEMMA AdjustTroveNamed ==
  ASSUME AllInv, AllInv', CollsNamed, NEW b \in Borrowers, NEW cIn, NEW cOut,
         NEW y, NEW up, NEW bfee, NEW vfee, NEW sold,
         AdjustTrove(b, cIn, cOut, y, up, bfee, vfee, sold)
  PROVE  CollsNamed'
  <1> DEFINE new == SubColls(SumColls(SumColls(colls[b], AppliedColl(b)), cIn), cOut)
             d == AdjustedDebt(b, cIn, y, up, bfee, vfee)
  <1>1. status \in [Borrowers -> Statuses] /\ TroveTypeOK /\ debt \in [Borrowers -> Nat] /\ PoolTypeOK
    BY DEF AllInv, TypesInv, ReservesInv, LedgerInv, LedgerTypeOK
  <1>2. /\ status[b] = "active" /\ status' = status
        /\ colls' = [colls EXCEPT ![b] = new]
        /\ collTokens' = [collTokens EXCEPT ![b] = Support(new)]
        /\ debt' = [debt EXCEPT ![b] = d]
        /\ PlaceTrove(b, ComputeCR(VC(price, new), d))
    BY DEF AdjustTrove
  <1> HIDE DEF new, d
  <1>3. d \in Nat \ {0}
    BY <1>1, <1>2, OpenTrovesOwe
  <1>4. new # NoColls
    BY <1>1, <1>2, <1>3, PlacedColl
  <1> QED
    BY <1>1, <1>2, <1>4, NamedMoves DEF TroveTypeOK

LEMMA CancelPartialNamed ==
  ASSUME AllInv, CollsNamed, NEW b \in Borrowers, CancelPartial(b)
  PROVE  CollsNamed'
  <1> DEFINE ac == AppliedColl(b)
             c == SumColls(colls[b], ac)
  <1>1. status \in [Borrowers -> Statuses] /\ TroveTypeOK
    BY DEF AllInv, TypesInv, ReservesInv
  <1>2. /\ tx.kind = "redemption" /\ tx.current = b
        /\ CanMovePending(AppliedDebt(b), ac)
        /\ status' = status
        /\ colls' = [colls EXCEPT ![b] = c]
        /\ collTokens' = [collTokens EXCEPT ![b] = AppliedTokens(b)]
    BY DEF CancelPartial
  <1>3. colls[b] # NoColls /\ Support(colls[b]) \subseteq collTokens[b]
    BY <1>2, CurrentTrove DEF CollsNamed
  <1>4. colls[b] \in Colls /\ ac \in Colls
    BY <1>2, AppliedFits
  <1>5. Support(c) \subseteq AppliedTokens(b)
    <2>1. CASE HasPendingRewards(b)
      <3>1. AppliedTokens(b) = Support(c)
        BY <2>1 DEF AppliedTokens, AppliedColl
      <3> QED
        BY <3>1
    <2>2. CASE ~HasPendingRewards(b)
      <3>1. \A t \in Tokens : c[t] = colls[b][t]
        BY <1>4, <2>2 DEF AppliedColl, SumColls, NoColls, Colls
      <3>2. Support(c) = Support(colls[b]) /\ AppliedTokens(b) = collTokens[b]
        BY <2>2, <3>1 DEF Support, AppliedTokens
      <3> QED
        BY <1>3, <3>2
    <2> QED
      BY <2>1, <2>2
  <1>6. c # NoColls
    <2>1. PICK t \in Tokens : colls[b][t] # 0
      BY <1>3, <1>4 DEF NoColls, Colls
    <2>2. c[t] = colls[b][t] + ac[t] /\ colls[b][t] \in Nat /\ ac[t] \in Nat
      BY <1>4 DEF SumColls, Colls
    <2> HIDE DEF c, ac
    <2>3. c[t] # 0
      BY <2>1, <2>2
    <2> QED
      BY <2>3 DEF NoColls
  <1> HIDE DEF c
  <1> QED
    BY <1>1, <1>2, <1>5, <1>6, NamedMoves DEF TroveTypeOK

LEMMA ReduceTroveNamed ==
  ASSUME AllInv, AllInv', CollsNamed, NEW b \in Borrowers, status[b] = "active", NEW c \in Colls,
         NEW cut, Covers(c, cut), NEW new, NEW collOut, NEW debtOut,
         ReduceTrove(b, c, SubColls(c, cut), new, collOut, debtOut)
  PROVE  CollsNamed'
  <1> DEFINE left == SubColls(c, cut)
  <1>1. status \in [Borrowers -> Statuses] /\ TroveTypeOK /\ debt \in [Borrowers -> Nat] /\ PoolTypeOK
    BY DEF AllInv, TypesInv, ReservesInv, LedgerInv, LedgerTypeOK
  <1>2. CASE new = GasCompensation
    BY <1>2, ClosedNamed DEF ReduceTrove, Statuses
  <1>3. CASE new # GasCompensation
    <2>1. /\ status' = status
          /\ colls' = [colls EXCEPT ![b] = left]
          /\ collTokens' = [collTokens EXCEPT ![b] = Support(c)]
          /\ debt' = [debt EXCEPT ![b] = new]
          /\ PlaceTrove(b, ComputeCR(VC(price, left), new))
      BY <1>3 DEF ReduceTrove
    <2>2. Support(left) \subseteq Support(c)
      <3>1. ASSUME NEW t \in Tokens, c[t] = 0 PROVE left[t] = 0
        BY <3>1 DEF SubColls, Covers
      <3> HIDE DEF left
      <3> QED
        BY <3>1 DEF Support
    <2> HIDE DEF left
    <2>3. new \in Nat \ {0}
      BY <1>1, <2>1, OpenTrovesOwe
    <2>4. left # NoColls
      BY <1>1, <2>1, <2>3, PlacedColl
    <2> QED
      BY <1>1, <2>1, <2>2, <2>4, NamedMoves DEF TroveTypeOK
  <1> QED
    BY <1>2, <1>3

LEMMA RedeemNamed ==
  ASSUME AllInv, AllInv', CollsNamed, NEW b \in Borrowers,
         RedeemFromTrove(b) \/ \E t \in Tokens, amount \in Redemptions : RedeemSingle(b, t, amount)
  PROVE  CollsNamed'
  <1>1. EntireColl(b) \in Colls
    BY EntireTypes DEF AllInv, TypesInv
  <1>2. CASE RedeemFromTrove(b)
    <2>1. status[b] = "active"
      BY <1>2, CurrentTrove DEF RedeemFromTrove, Active
    <2>2. \E cut, new, collOut, debtOut :
            /\ Covers(EntireColl(b), cut)
            /\ ReduceTrove(b, EntireColl(b), SubColls(EntireColl(b), cut), new, collOut, debtOut)
      BY <1>2 DEF RedeemFromTrove, CanCut
    <2> QED
      BY <1>1, <2>1, <2>2, ReduceTroveNamed
  <1>3. CASE \E t \in Tokens, amount \in Redemptions : RedeemSingle(b, t, amount)
    <2>1. PICK t \in Tokens, amount \in Redemptions : RedeemSingle(b, t, amount)
      BY <1>3
    <2>2. status[b] = "active"
      BY <2>1 DEF RedeemSingle, ValidFirstHint, Active
    <2>3. \E cut, new, collOut, debtOut :
            /\ Covers(EntireColl(b), cut)
            /\ ReduceTrove(b, EntireColl(b), SubColls(EntireColl(b), cut), new, collOut, debtOut)
      BY <2>1 DEF RedeemSingle
    <2> QED
      BY <1>1, <2>2, <2>3, ReduceTroveNamed
  <1> QED
    BY <1>2, <1>3

LEMMA QuietNamed ==
  ASSUME CollsNamed, UNCHANGED <<status, colls, collTokens>>
  PROVE  CollsNamed'
  BY DEF CollsNamed, Active

LEMMA NextNamed == AllInv /\ AllInv' /\ CollsNamed /\ [Next]_vars => CollsNamed'
  <1> SUFFICES ASSUME AllInv, AllInv', CollsNamed, [Next]_vars PROVE CollsNamed'
    OBVIOUS
  <1>1. CASE \E b \in Borrowers : Borrow(b)
    <2>1. PICK b \in Borrowers : Borrow(b)
      BY <1>1
    <2>2. CASE UpdateTrove(b)
      BY <2>2, QuietNamed DEF UpdateTrove, troveVars
    <2>3. CASE ClaimCollateral(b)
      BY <2>3, QuietNamed DEF ClaimCollateral, troveVars
    <2>4. CASE \E unlever \in BOOLEAN, sold \in SUBSET Wrapped : CloseTrove(b, unlever, sold)
      BY <2>4, ClosedNamed DEF CloseTrove, Statuses
    <2> QED
      BY <2>1, <2>2, <2>3, <2>4, OpenTroveNamed, AdjustTroveNamed DEF Borrow
  <1>2. CASE \E x \in Deposits : ProvideToSP(x) \/ WithdrawFromSP(x)
    BY <1>2, QuietNamed DEF ProvideToSP, WithdrawFromSP, troveVars
  <1>3. CASE \E t \in Tokens, p \in Prices : SetPrice(t, p)
    BY <1>3, QuietNamed DEF SetPrice, troveVars
  <1>4. CASE Liquidate
    <2>1. CASE BeginLiquidation \/ FinishLiquidation
      BY <2>1, QuietNamed DEF BeginLiquidation, FinishLiquidation, troveVars
    <2>2. CASE \E b \in Borrowers : LiquidateNormalMode(b) \/ LiquidateRecoveryMode(b)
      <3>1. PICK b \in Borrowers : LiquidateNormalMode(b) \/ LiquidateRecoveryMode(b)
        BY <2>2
      <3>2. \E v : LiquidateAs(b, v)
        BY <3>1, LiquidateTypes
      <3> QED
        BY <3>2, ClosedNamed DEF LiquidateAs, Statuses
    <2> QED
      BY <1>4, <2>1, <2>2 DEF Liquidate
  <1>5. CASE Redeem
    <2>1. CASE \E amount \in Redemptions, b \in Borrowers : BeginRedemption(amount, b)
      BY <2>1, QuietNamed DEF BeginRedemption, troveVars
    <2>2. CASE \E b \in Borrowers : SkipTrove(b)
      BY <2>2, QuietNamed DEF SkipTrove, troveVars
    <2>3. CASE FinishRedemption
      BY <2>3, QuietNamed DEF FinishRedemption, troveVars
    <2> QED
      BY <1>5, <2>1, <2>2, <2>3, RedeemNamed, CancelPartialNamed DEF Redeem
  <1>6. CASE UNCHANGED vars
    BY <1>6, QuietNamed DEF vars, troveVars
  <1> QED
    BY <1>1, <1>2, <1>3, <1>4, <1>5, <1>6 DEF Next

LEMMA OneTokenSeesAll ==
  ASSUME AllInv, CollsNamed, NEW T, Tokens = {T}, NEW b \in Borrowers
  PROVE  ~Overlooked(b)
  <1> SUFFICES ASSUME ~HasPendingRewards(b), PendingColl(b)[T] # 0 PROVE FALSE
    BY DEF Overlooked, PendingColl, NoColls
  <1>1. status[b] = "active"
    BY DEF PendingColl
  <1>2. colls[b] # NoColls /\ Support(colls[b]) \subseteq collTokens[b] /\ colls[b] \in Colls
    BY <1>1 DEF CollsNamed, Active, AllInv, TypesInv, TroveTypeOK
  <1>3. T \in collTokens[b]
    BY <1>2 DEF NoColls, Support, Colls
  <1>4. /\ collSnapshots[b][T] \in Nat /\ L_Coll[T] \in Nat /\ stakes[b][T] \in Nat
        /\ collSnapshots[b][T] <= L_Coll[T] /\ ~(collSnapshots[b][T] < L_Coll[T])
    BY <1>1, <1>3 DEF HasPendingRewards, AllInv, TypesInv, TroveTypeOK, PoolTypeOK, SnapshotsBehind, Colls
  <1>5. L_Coll[T] - collSnapshots[b][T] = 0
    BY <1>4
  <1>6. stakes[b][T] * 0 = 0 /\ 0 \div DP = 0
    BY <1>4, ScaleAssumption
  <1>7. PendingColl(b)[T] = 0
    BY <1>5, <1>6 DEF PendingColl
  <1> QED
    BY <1>7

\* With a single token as collateral ActivePool holds all of it that the troves
\* have, at every step of every batch and redemption.
THEOREM SingleTokenAlwaysCovered ==
  Spec => [](\A T : Tokens = {T} => ActivePoolCovers(T))
  <1> DEFINE OneToken == \E T : Tokens = {T}
  <1>1. Init => CollsNamed /\ (OneToken => ActivePoolInv)
    <2>1. Init => CollsNamed
      BY DEF Init, CollsNamed, Active, PerBorrower
    <2> QED
      BY <2>1, InitSlack
  <1>2. AllInv /\ AllInv' /\ CollsNamed /\ [Next]_vars => CollsNamed'
    BY NextNamed
  <1>3. AllInv /\ AllInv' /\ CollsNamed /\ (OneToken => ActivePoolInv) /\ [Next]_vars
          => (OneToken => ActivePoolInv)'
    <2> SUFFICES ASSUME AllInv, AllInv', CollsNamed, OneToken, ActivePoolInv, [Next]_vars
                 PROVE  ActivePoolInv'
      OBVIOUS
    <2>1. ~RedeemsOverlooked
      BY OneTokenSeesAll DEF RedeemsOverlooked
    <2> QED
      BY <2>1, NextSlack, SlackStep
  <1>4. AllInv /\ (OneToken => ActivePoolInv) => \A T : Tokens = {T} => ActivePoolCovers(T)
    BY SlackMeaning
  <1> QED
    BY <1>1, <1>2, <1>3, <1>4, AllInvAlways, PTL DEF Spec

-----------------------------------------------------------------------------
(* Redemptions and the trove's ratio.                                      *)

\* No token counts for more than r VC per 100 USD.
RatiosUpTo(r) == \A t \in Tokens : Ratio[t] <= r

\* A lot so small that the debt it pays may be worth less than what the rounding
\* down of each token's value, in USD and in VC, takes from the trove.
Dust(r, lot) == 100 * (MCR * lot) <= DP * (r * lot + (2 * r + 100) * Cardinality(Tokens))

LEMMA TokensCount == Cardinality(Tokens) \in Nat /\ (Tokens # {} => Cardinality(Tokens) >= 1)
  <1>1. Cardinality(Tokens) \in Nat /\ (Cardinality(Tokens) = 0 <=> Tokens = {})
    BY TokensAssumption, FS_CardinalityType, FS_EmptySet
  <1> QED
    BY <1>1

\* A ratio of at least MCR does not fall when no more value leaves than MCR
\* times the debt that does.
LEMMA RatioKept ==
  ASSUME NEW v \in Nat, NEW d \in Nat, NEW w \in Nat, NEW e \in Nat \ {0}, NEW l \in Nat,
         v * DP <= w * DP + MCR * l, e <= d - l, MCR * d <= v * DP
  PROVE  ComputeCR(v, d) <= ComputeCR(w, e)
  <1> DEFINE q == (v * DP) \div d
  <1>1. d \in Nat \ {0} /\ l <= d /\ DP \in Nat /\ MCR \in Nat /\ e + l <= d
    BY ScaleAssumption
  <1>2. v * DP \in Nat /\ w * DP \in Nat /\ MCR * l \in Nat
    BY <1>1, ProductNat
  <1>3. q \in Nat /\ q * d <= v * DP /\ MCR <= q
    BY <1>1, <1>2, FloorFits, FloorGreatest
  <1> HIDE DEF q
  <1>4. q * (e + l) <= q * d /\ q * (e + l) = q * e + q * l
    <2>1. e + l \in Nat
      OBVIOUS
    <2> QED
      BY <1>1, <1>3, <2>1, ProductMonotone, ProductOverSum
  <1>5. MCR * l <= q * l
    BY <1>1, <1>3, ProductMonotone
  <1>6. q * e <= w * DP
    <2>1. q * e \in Nat /\ q * l \in Nat /\ q * d \in Nat
      BY <1>1, <1>3, ProductNat
    <2> QED
      BY <1>2, <1>3, <1>4, <1>5, <2>1
  <1>7. q <= (w * DP) \div e
    BY <1>2, <1>3, <1>6, FloorGreatest
  <1> QED
    BY <1>1, <1>7 DEF ComputeCR, q

\* A value in USD is what the price says, less than a unit rounded away.
LEMMA ValueUSDFits ==
  ASSUME NEW p \in [Tokens -> Prices], NEW t \in Tokens, NEW x \in Nat
  PROVE  /\ p[t] * x \in Nat /\ ValueUSD(p, t, x) \in Nat
         /\ ValueUSD(p, t, x) * DP <= p[t] * x
         /\ p[t] * x <= (ValueUSD(p, t, x) + 1) * DP
  <1> DEFINE a == p[t] * x
             u == a \div DP
  <1>1. a \in Nat /\ DP \in Nat \ {0} /\ ValueUSD(p, t, x) = u
    BY ValueUSDType, ScaleAssumption DEF ValueUSD
  <1> HIDE DEF a
  <1>2. u \in Nat /\ u * DP <= a /\ a < u * DP + DP
    BY <1>1, FloorFits
  <1> HIDE DEF u
  <1>3. (u + 1) * DP = u * DP + DP /\ u * DP \in Nat
    BY <1>1, <1>2, ProductNat, Z3
  <1> QED
    BY <1>1, <1>2, <1>3 DEF a

\* What a token counts for in VC, before it is rounded.
LEMMA WeightedAtMost ==
  ASSUME NEW r \in Nat, RatiosUpTo(r), NEW p \in [Tokens -> Prices], NEW t \in Tokens, NEW x \in Nat
  PROVE  /\ p[t] * x * Ratio[t] \in Nat /\ r * (ValueUSD(p, t, x) + 1) \in Nat
         /\ p[t] * x * Ratio[t] <= (r * (ValueUSD(p, t, x) + 1)) * DP
  <1> DEFINE a == p[t] * x
             u == ValueUSD(p, t, x) + 1
             k == Ratio[t]
  <1>1. a \in Nat /\ u \in Nat /\ a <= u * DP /\ DP \in Nat
    BY ValueUSDFits, ScaleAssumption
  <1>2. k \in Nat /\ k <= r
    BY ScaleAssumption DEF RatiosUpTo
  <1> HIDE DEF a, u, k
  <1>3. a * k <= a * r /\ a * k \in Nat /\ a * r \in Nat /\ r * u \in Nat /\ u * DP \in Nat
    BY <1>1, <1>2, ProductMonotone, ProductNat
  <1>4. a * r <= (u * DP) * r
    BY <1>1, <1>3, ProductMonotone
  <1>5. (u * DP) * r = (r * u) * DP /\ (u * DP) * r \in Nat
    BY <1>1, <1>3, ProductNat, Z3
  <1>6. a * k <= (r * u) * DP
    BY <1>3, <1>4, <1>5
  <1> QED
    BY <1>3, <1>6 DEF a, u, k

LEMMA ValueVCAtMost ==
  ASSUME NEW r \in Nat, RatiosUpTo(r), NEW p \in [Tokens -> Prices], NEW t \in Tokens, NEW x \in Nat
  PROVE  ValueVC(p, t, x) \in Nat /\ 100 * ValueVC(p, t, x) <= r * (ValueUSD(p, t, x) + 1)
  <1> DEFINE a == p[t] * x * Ratio[t]
             m == r * (ValueUSD(p, t, x) + 1)
             k == 100 * DP
             q == a \div k
  <1>1. a \in Nat /\ m \in Nat /\ a <= m * DP /\ k \in Nat \ {0} /\ DP \in Nat \ {0}
    BY WeightedAtMost, HundredType, ScaleAssumption
  <1>2. ValueVC(p, t, x) = q
    BY DEF ValueVC
  <1>0. k = 100 * DP
    OBVIOUS
  <1> HIDE DEF a, m, k
  <1>3. q \in Nat /\ q * k <= a
    BY <1>1, FloorFits
  <1> HIDE DEF q
  <1>4. (100 * q) * DP = q * k /\ 100 * q \in Nat /\ q * k \in Nat /\ m * DP \in Nat
    BY <1>0, <1>1, <1>3, ProductNat, Z3
  <1>5. (100 * q) * DP <= m * DP
    BY <1>1, <1>3, <1>4
  <1>6. 100 * q <= m
    BY <1>1, <1>4, <1>5, ProductCancel
  <1> QED
    BY <1>2, <1>3, <1>6 DEF m

\* Taking x of a token away lowers its VC by at most what x is worth.
LEMMA ValueVCMinus ==
  ASSUME NEW r \in Nat, RatiosUpTo(r), NEW p \in [Tokens -> Prices], NEW t \in Tokens,
         NEW y \in Nat, NEW x \in Nat
  PROVE  /\ ValueVC(p, t, y) \in Nat /\ ValueVC(p, t, y + x) \in Nat /\ ValueUSD(p, t, x) \in Nat
         /\ r * (ValueUSD(p, t, x) + 1) \in Nat
         /\ 100 * ValueVC(p, t, y + x)
              <= 100 * ValueVC(p, t, y) + 100 + r * (ValueUSD(p, t, x) + 1)
  <1> DEFINE a == p[t] * y * Ratio[t]
             b == p[t] * x * Ratio[t]
             m == r * (ValueUSD(p, t, x) + 1)
             k == 100 * DP
             q == a \div k
             s == (a + b) \div k
  <1>1. /\ a \in Nat /\ b \in Nat /\ m \in Nat /\ b <= m * DP
        /\ k \in Nat \ {0} /\ DP \in Nat \ {0} /\ ValueUSD(p, t, x) \in Nat
    BY WeightedAtMost, ValueUSDType, HundredType, ScaleAssumption
  <1>2. p[t] * (y + x) * Ratio[t] = a + b
    <2>1. p[t] \in Nat /\ Ratio[t] \in Nat
      BY PriceType, ScaleAssumption
    <2> QED
      BY <2>1, Z3
  <1>3. ValueVC(p, t, y) = q /\ ValueVC(p, t, y + x) = s
    BY <1>2 DEF ValueVC
  <1>0. k = 100 * DP
    OBVIOUS
  <1> HIDE DEF a, b, m, k
  <1>4. q \in Nat /\ a < q * k + k /\ s \in Nat /\ s * k <= a + b
    BY <1>1, FloorFits
  <1> HIDE DEF q, s
  <1>5. /\ (100 * s) * DP = s * k
        /\ (100 * q + 100 + m) * DP = q * k + k + m * DP
    BY <1>0, <1>1, <1>4, Z3
  <1>6. s * k \in Nat /\ q * k \in Nat /\ m * DP \in Nat /\ 100 * s \in Nat /\ 100 * q + 100 + m \in Nat
    BY <1>1, <1>4, ProductNat
  <1>7. (100 * s) * DP <= (100 * q + 100 + m) * DP
    BY <1>1, <1>4, <1>5, <1>6
  <1>8. 100 * s <= 100 * q + 100 + m
    BY <1>1, <1>6, <1>7, ProductCancel
  <1> QED
    BY <1>1, <1>3, <1>4, <1>8 DEF m

\* The sum of a multiple and a constant.
LEMMA SumAffine ==
  ASSUME NEW f, NEW g, NEW m \in Int, NEW n \in Int,
         \A t \in Tokens : f[t] \in Int /\ g[t] = m * f[t] + n
  PROVE  SumFunctionOnSet(g, Tokens) = m * SumFunctionOnSet(f, Tokens) + n * Cardinality(Tokens)
  <1> DEFINE ones == [t \in Tokens |-> 1]
             a == [t \in Tokens |-> m * f[t]]
             b == [t \in Tokens |-> n * ones[t]]
  <1>1. \A t \in Tokens : ones[t] = 1 /\ a[t] = m * f[t] /\ b[t] = n * ones[t]
    OBVIOUS
  <1> HIDE DEF ones, a, b
  <1>2. SumFunctionOnSet(a, Tokens) = m * SumFunctionOnSet(f, Tokens)
    BY <1>1, SumScaled, TokensAssumption
  <1>3. SumFunctionOnSet(ones, Tokens) = Cardinality(Tokens)
    BY <1>1, SumOfOnes, TokensAssumption
  <1>4. SumFunctionOnSet(b, Tokens) = n * SumFunctionOnSet(ones, Tokens)
    <2>1. \A t \in Tokens : ones[t] \in Int /\ b[t] = n * ones[t]
      BY <1>1
    <2> QED
      BY <2>1, SumScaled, TokensAssumption
  <1>5. SumFunctionOnSet(g, Tokens) = SumFunctionOnSet(a, Tokens) + SumFunctionOnSet(b, Tokens)
    <2> SUFFICES ASSUME NEW t \in Tokens
                 PROVE  a[t] \in Int /\ b[t] \in Int /\ g[t] = a[t] + b[t]
      BY SumPlus, TokensAssumption
    <2>1. m * f[t] \in Int
      BY ProductOverSum
    <2>2. b[t] = n
      BY <1>1
    <2> QED
      BY <1>1, <2>1, <2>2
  <1> QED
    BY <1>2, <1>3, <1>4, <1>5

LEMMA SumHundred ==
  ASSUME NEW f, NEW g, \A t \in Tokens : f[t] \in Int /\ g[t] = 100 * f[t]
  PROVE  SumFunctionOnSet(g, Tokens) = 100 * SumFunctionOnSet(f, Tokens)
  <1> DEFINE k == 100
  <1>1. k \in Int /\ \A t \in Tokens : f[t] \in Int /\ g[t] = k * f[t]
    OBVIOUS
  <1>2. k = 100
    OBVIOUS
  <1> HIDE DEF k
  <1>3. SumFunctionOnSet(g, Tokens) = k * SumFunctionOnSet(f, Tokens)
    BY <1>1, SumScaled, TokensAssumption
  <1> QED
    BY <1>2, <1>3

\* Taking collateral away lowers the VC by what it is worth at the largest
\* weight, and the rounding of each token, at most.
LEMMA VCMinus ==
  ASSUME NEW r \in Nat, RatiosUpTo(r), NEW p \in [Tokens -> Prices],
         NEW c \in Colls, NEW x \in Colls, Covers(c, x)
  PROVE  /\ VC(p, c) \in Nat /\ VC(p, SubColls(c, x)) \in Nat /\ USD(p, x) \in Nat
         /\ 100 * VC(p, c)
              <= 100 * VC(p, SubColls(c, x)) + (r * USD(p, x) + (r + 100) * Cardinality(Tokens))
  <1> DEFINE l == SubColls(c, x)
             f == [t \in Tokens |-> ValueVC(p, t, c[t])]
             g == [t \in Tokens |-> ValueVC(p, t, l[t])]
             u == [t \in Tokens |-> ValueUSD(p, t, x[t])]
             F == [t \in Tokens |-> 100 * f[t]]
             G == [t \in Tokens |-> 100 * g[t]]
             z == [t \in Tokens |-> r * u[t] + (r + 100)]
             h == [t \in Tokens |-> G[t] + z[t]]
  <1>1. VC(p, c) \in Nat /\ VC(p, l) \in Nat /\ USD(p, x) \in Nat
    BY VCType, USDType, SubCollsType
  <1>2. /\ VC(p, c) = SumFunctionOnSet(f, Tokens) /\ VC(p, l) = SumFunctionOnSet(g, Tokens)
        /\ USD(p, x) = SumFunctionOnSet(u, Tokens)
    BY DEF VC, USD, SumFunction
  <1>3. ASSUME NEW t \in Tokens
        PROVE  /\ f[t] \in Nat /\ g[t] \in Nat /\ u[t] \in Nat
               /\ F[t] \in Int /\ G[t] \in Int /\ z[t] \in Int /\ h[t] \in Int
               /\ F[t] = 100 * f[t] /\ G[t] = 100 * g[t] /\ z[t] = r * u[t] + (r + 100)
               /\ h[t] = G[t] + z[t] /\ F[t] <= h[t]
    <2>1. l[t] \in Nat /\ x[t] \in Nat /\ c[t] = l[t] + x[t]
      BY DEF Covers, Colls, SubColls
    <2>2. /\ ValueVC(p, t, l[t]) \in Nat /\ ValueVC(p, t, l[t] + x[t]) \in Nat
          /\ ValueUSD(p, t, x[t]) \in Nat /\ r * (ValueUSD(p, t, x[t]) + 1) \in Nat
          /\ 100 * ValueVC(p, t, l[t] + x[t])
               <= 100 * ValueVC(p, t, l[t]) + 100 + r * (ValueUSD(p, t, x[t]) + 1)
      BY <2>1, ValueVCMinus
    <2>3. /\ f[t] = ValueVC(p, t, l[t] + x[t]) /\ g[t] = ValueVC(p, t, l[t])
          /\ u[t] = ValueUSD(p, t, x[t])
          /\ F[t] = 100 * f[t] /\ G[t] = 100 * g[t] /\ z[t] = r * u[t] + (r + 100)
          /\ h[t] = G[t] + z[t]
      BY <2>1
    <2> HIDE DEF f, g, u, h, F, G, z
    <2>4. r * (u[t] + 1) = r * u[t] + r /\ r * u[t] \in Nat
      BY <2>2, <2>3, ProductNat, Z3
    <2> QED
      BY <2>2, <2>3, <2>4
  <1>9. \A t \in Tokens : /\ f[t] \in Int /\ F[t] = 100 * f[t]
                          /\ g[t] \in Int /\ G[t] = 100 * g[t]
    <2> SUFFICES ASSUME NEW t \in Tokens PROVE f[t] \in Int /\ g[t] \in Int
      OBVIOUS
    <2> HIDE DEF f, g
    <2> QED
      BY <1>3
  <1> HIDE DEF f, g, u, h, l, F, G, z
  <1>4. SumFunctionOnSet(F, Tokens) = 100 * VC(p, c)
    <2>1. SumFunctionOnSet(F, Tokens) = 100 * SumFunctionOnSet(f, Tokens)
      BY <1>9, SumHundred
    <2> QED
      BY <1>2, <2>1
  <1>5. SumFunctionOnSet(G, Tokens) = 100 * VC(p, l)
    <2>1. SumFunctionOnSet(G, Tokens) = 100 * SumFunctionOnSet(g, Tokens)
      BY <1>9, SumHundred
    <2> QED
      BY <1>2, <2>1
  <1>6. SumFunctionOnSet(z, Tokens) = r * USD(p, x) + (r + 100) * Cardinality(Tokens)
    <2>1. r + 100 \in Int /\ \A t \in Tokens : u[t] \in Int /\ z[t] = r * u[t] + (r + 100)
      BY <1>3
    <2> QED
      BY <1>2, <2>1, SumAffine
  <1>7. SumFunctionOnSet(h, Tokens) = SumFunctionOnSet(G, Tokens) + SumFunctionOnSet(z, Tokens)
    BY <1>3, SumPlus, TokensAssumption
  <1>8. SumFunctionOnSet(F, Tokens) <= SumFunctionOnSet(h, Tokens)
    BY <1>3, SumMonotone, TokensAssumption
  <1> QED
    BY <1>1, <1>4, <1>5, <1>6, <1>7, <1>8 DEF l

\* The VC of collateral and its value in USD.
LEMMA VCAtMost ==
  ASSUME NEW r \in Nat, RatiosUpTo(r), NEW p \in [Tokens -> Prices], NEW c \in Colls
  PROVE  /\ VC(p, c) \in Nat /\ USD(p, c) \in Nat
         /\ 100 * VC(p, c) <= r * USD(p, c) + r * Cardinality(Tokens)
  <1> DEFINE f == [t \in Tokens |-> ValueVC(p, t, c[t])]
             u == [t \in Tokens |-> ValueUSD(p, t, c[t])]
             F == [t \in Tokens |-> 100 * f[t]]
             z == [t \in Tokens |-> r * u[t] + r]
  <1>1. VC(p, c) \in Nat /\ USD(p, c) \in Nat
    BY VCType, USDType
  <1>2. VC(p, c) = SumFunctionOnSet(f, Tokens) /\ USD(p, c) = SumFunctionOnSet(u, Tokens)
    BY DEF VC, USD, SumFunction
  <1>3. ASSUME NEW t \in Tokens
        PROVE  /\ f[t] \in Int /\ u[t] \in Int /\ F[t] \in Int /\ z[t] \in Int
               /\ F[t] = 100 * f[t] /\ z[t] = r * u[t] + r /\ F[t] <= z[t]
    <2>1. c[t] \in Nat
      BY DEF Colls
    <2>2. /\ ValueVC(p, t, c[t]) \in Nat /\ ValueUSD(p, t, c[t]) \in Nat
          /\ 100 * ValueVC(p, t, c[t]) <= r * (ValueUSD(p, t, c[t]) + 1)
      BY <2>1, ValueVCAtMost, ValueUSDType
    <2>3. /\ f[t] = ValueVC(p, t, c[t]) /\ u[t] = ValueUSD(p, t, c[t])
          /\ F[t] = 100 * f[t] /\ z[t] = r * u[t] + r
      OBVIOUS
    <2> HIDE DEF f, u, F, z
    <2>4. r * (u[t] + 1) = r * u[t] + r /\ r * u[t] \in Nat
      BY <2>2, <2>3, ProductNat, Z3
    <2> QED
      BY <2>2, <2>3, <2>4
  <1> HIDE DEF f, u, F, z
  <1>4. SumFunctionOnSet(F, Tokens) = 100 * VC(p, c)
    BY <1>2, <1>3, SumHundred
  <1>5. SumFunctionOnSet(z, Tokens) = r * USD(p, c) + r * Cardinality(Tokens)
    BY <1>2, <1>3, SumAffine
  <1>6. SumFunctionOnSet(F, Tokens) <= SumFunctionOnSet(z, Tokens)
    BY <1>3, SumMonotone, TokensAssumption
  <1> QED
    BY <1>1, <1>4, <1>5, <1>6

\* The part of a token that is cut for lot out of a whole is worth that part of
\* what the token is, and the price of a unit of rounding.
LEMMA CutValue ==
  ASSUME NEW p \in [Tokens -> Prices], NEW t \in Tokens, NEW y \in Nat, NEW lot \in Nat,
         NEW whole \in Nat \ {0}, NEW x, x = (lot * y) \div whole
  PROVE  /\ x \in Nat /\ ValueUSD(p, t, x) \in Nat /\ ValueUSD(p, t, y) \in Nat
         /\ whole * ValueUSD(p, t, x) <= lot * (ValueUSD(p, t, y) + 1)
  <1> DEFINE w == ValueUSD(p, t, x)
             v == ValueUSD(p, t, y)
             m == p[t]
  <1>1. x \in Nat /\ x * whole <= lot * y /\ lot * y \in Nat /\ m \in Nat
    BY ProductNat, FloorFits, PriceType
  <1>2. /\ w \in Nat /\ v \in Nat /\ m * x \in Nat /\ m * y \in Nat
        /\ w * DP <= m * x /\ m * y <= (v + 1) * DP /\ DP \in Nat \ {0}
    BY <1>1, ValueUSDFits, ScaleAssumption
  <1> HIDE DEF w, v, m
  <1>3. /\ w * DP \in Nat /\ x * whole \in Nat /\ v + 1 \in Nat /\ (v + 1) * DP \in Nat
        /\ whole * w \in Nat /\ lot * (v + 1) \in Nat
    BY <1>1, <1>2, ProductNat
  <1>4. (w * DP) * whole <= (m * x) * whole
    BY <1>2, <1>3, ProductMonotone
  <1>5. m * (x * whole) <= m * (lot * y)
    BY <1>1, <1>3, ProductMonotone
  <1>6. lot * (m * y) <= lot * ((v + 1) * DP)
    BY <1>2, <1>3, ProductMonotone
  <1>7. /\ (w * DP) * whole = (whole * w) * DP
        /\ (m * x) * whole = m * (x * whole)
        /\ m * (lot * y) = lot * (m * y)
        /\ lot * ((v + 1) * DP) = (lot * (v + 1)) * DP
    BY <1>1, <1>2, Z3
  <1>8. (whole * w) * DP <= (lot * (v + 1)) * DP
    <2>1. /\ (whole * w) * DP \in Nat /\ m * (x * whole) \in Nat /\ lot * (m * y) \in Nat
          /\ (lot * (v + 1)) * DP \in Nat
      BY <1>1, <1>2, <1>3, ProductNat
    <2> QED
      BY <1>4, <1>5, <1>6, <1>7, <2>1
  <1>9. whole * w <= lot * (v + 1)
    BY <1>2, <1>3, <1>8, ProductCancel
  <1> QED
    BY <1>1, <1>2, <1>9 DEF w, v

\* What is cut from a trove for a lot is worth the lot, and a unit of rounding
\* for each token, at most.
LEMMA CutWorth ==
  ASSUME price \in [Tokens -> Prices], NEW c \in Colls, NEW lot \in Nat, CanCut(lot, c),
         lot <= USD(price, c)
  PROVE  Cut(lot, c) \in Colls /\ USD(price, Cut(lot, c)) <= lot + Cardinality(Tokens)
  <1> DEFINE x == Cut(lot, c)
             worth == USD(price, c)
             u == [t \in Tokens |-> ValueUSD(price, t, x[t])]
             w == [t \in Tokens |-> ValueUSD(price, t, c[t])]
             wu == [t \in Tokens |-> worth * u[t]]
             lw == [t \in Tokens |-> lot * w[t] + lot]
             n == Cardinality(Tokens)
             U == SumFunctionOnSet(u, Tokens)
  <1>1. /\ worth \in Nat \ {0} /\ n \in Nat /\ lot <= worth
        /\ USD(price, x) = SumFunctionOnSet(u, Tokens) /\ worth = SumFunctionOnSet(w, Tokens)
    BY USDType, TokensCount DEF CanCut, USD, SumFunction
  <1>2. ASSUME NEW t \in Tokens
        PROVE  /\ x[t] \in Nat /\ u[t] \in Nat /\ w[t] \in Nat
               /\ wu[t] \in Nat /\ lw[t] \in Nat /\ wu[t] <= lw[t]
               /\ wu[t] = worth * u[t] /\ lw[t] = lot * w[t] + lot
    <2>1. c[t] \in Nat
      BY DEF Colls
    <2>2. x[t] = (lot * c[t]) \div worth
      BY DEF Cut
    <2>3. /\ u[t] = ValueUSD(price, t, x[t]) /\ w[t] = ValueUSD(price, t, c[t])
          /\ wu[t] = worth * u[t] /\ lw[t] = lot * w[t] + lot
      OBVIOUS
    <2> HIDE DEF x, worth, u, w, wu, lw, n, U
    <2>4. /\ x[t] \in Nat /\ u[t] \in Nat /\ w[t] \in Nat
          /\ worth * u[t] <= lot * (w[t] + 1)
      BY <1>1, <2>1, <2>2, <2>3, CutValue
    <2>5. /\ lot * (w[t] + 1) = lot * w[t] + lot /\ lot * w[t] \in Nat /\ worth * u[t] \in Nat
      BY <1>1, <2>4, ProductNat, Z3
    <2> QED
      BY <2>3, <2>4, <2>5
  <1>3. x \in Colls
    <2>1. x = [t \in Tokens |-> x[t]]
      BY DEF Cut
    <2> QED
      BY <1>2, <2>1 DEF Colls
  <1> HIDE DEF x, worth, u, w, wu, lw, n
  <1>4. U \in Nat
    BY <1>2, SumNat, TokensAssumption
  <1>5. SumFunctionOnSet(wu, Tokens) = worth * U
    <2>1. \A t \in Tokens : u[t] \in Int /\ wu[t] = worth * u[t]
      BY <1>2
    <2> QED
      BY <1>1, <2>1, SumScaled, TokensAssumption
  <1>6. SumFunctionOnSet(lw, Tokens) = lot * worth + lot * n
    <2>1. \A t \in Tokens : w[t] \in Int /\ lw[t] = lot * w[t] + lot
      BY <1>2
    <2> QED
      BY <1>1, <2>1, SumAffine DEF n
  <1>7. SumFunctionOnSet(wu, Tokens) <= SumFunctionOnSet(lw, Tokens)
    BY <1>2, SumMonotone, TokensAssumption
  <1> HIDE DEF U
  <1>8. U <= lot + n
    <2>1. lot * n <= worth * n
      BY <1>1, ProductMonotone
    <2>2. worth * U = U * worth /\ (lot + n) * worth = lot * worth + worth * n
      BY <1>1, <1>4, Z3
    <2>3. lot * n \in Nat /\ lot * worth \in Nat /\ worth * n \in Nat /\ U * worth \in Nat /\ lot + n \in Nat
      BY <1>1, <1>4, ProductNat
    <2>4. U * worth <= (lot + n) * worth
      BY <1>5, <1>6, <1>7, <2>1, <2>2, <2>3
    <2> QED
      BY <1>1, <1>4, <2>3, <2>4, ProductCancel
  <1> QED
    BY <1>1, <1>3, <1>8 DEF U, x, n

\* The VC that leaves with a cut from a single token.
LEMMA SingleCutWorth ==
  ASSUME NEW r \in Nat, RatiosUpTo(r), NEW p \in [Tokens -> Prices], NEW c \in Colls, NEW t \in Tokens,
         ValueUSD(p, t, c[t]) # 0, NEW lot \in Nat, lot <= ValueUSD(p, t, c[t]),
         NEW x \in Colls, x = [NoColls EXCEPT ![t] = (lot * c[t]) \div ValueUSD(p, t, c[t])],
         Covers(c, x)
  PROVE  /\ VC(p, c) \in Nat /\ VC(p, SubColls(c, x)) \in Nat
         /\ 100 * VC(p, c) <= 100 * VC(p, SubColls(c, x)) + (r * lot + (2 * r + 100))
  <1> DEFINE l == SubColls(c, x)
             f == [s \in Tokens |-> ValueVC(p, s, c[s])]
             g == [s \in Tokens |-> ValueVC(p, s, l[s])]
             v == ValueUSD(p, t, c[t])
             w == ValueUSD(p, t, x[t])
  <1>1. VC(p, c) \in Nat /\ VC(p, l) \in Nat
    BY VCType, SubCollsType
  <1>2. VC(p, c) = SumFunctionOnSet(f, Tokens) /\ VC(p, l) = SumFunctionOnSet(g, Tokens)
    BY DEF VC, SumFunction
  <1>3. ASSUME NEW s \in Tokens
        PROVE  f[s] \in Nat /\ g[s] \in Nat /\ (s # t => g[s] = f[s])
    <2>1. c[s] \in Nat /\ x[s] \in Nat /\ l[s] = c[s] - x[s] /\ l[s] \in Nat /\ (s # t => x[s] = 0)
      BY DEF Covers, Colls, SubColls, NoColls
    <2>2. s # t => l[s] = c[s]
      BY <2>1
    <2> HIDE DEF l
    <2>3. ValueVC(p, s, c[s]) \in Nat /\ ValueVC(p, s, l[s]) \in Nat
      BY <2>1, ValueVCAtMost
    <2> QED
      BY <2>2, <2>3
  <1>4. x[t] = (lot * c[t]) \div v /\ c[t] \in Nat
    BY DEF NoColls, Colls
  <1>5. v \in Nat \ {0} /\ lot <= v
    BY <1>4, ValueUSDType
  <1>0. l[t] \in Nat /\ x[t] \in Nat /\ c[t] = l[t] + x[t]
    BY DEF Covers, Colls, SubColls
  <1>6. w \in Nat /\ v * w <= lot * (v + 1)
    BY <1>4, <1>5, CutValue
  <1>7. /\ r * (w + 1) \in Nat
        /\ 100 * f[t] <= 100 * g[t] + 100 + r * (w + 1)
    <2>1. /\ r * (ValueUSD(p, t, x[t]) + 1) \in Nat
          /\ 100 * ValueVC(p, t, l[t] + x[t])
               <= 100 * ValueVC(p, t, l[t]) + 100 + r * (ValueUSD(p, t, x[t]) + 1)
      BY <1>0, ValueVCMinus
    <2> QED
      BY <1>0, <2>1
  <1> HIDE DEF f, g, v, w, l
  <1>8. w <= lot + 1
    <2>1. /\ v * w = w * v /\ lot * (v + 1) = lot * v + lot /\ (lot + 1) * v = lot * v + v
      BY <1>5, <1>6, Z3
    <2>2. lot * v \in Nat /\ w * v \in Nat /\ lot + 1 \in Nat
      BY <1>5, <1>6, ProductNat
    <2>3. w * v <= (lot + 1) * v
      BY <1>5, <1>6, <2>1, <2>2
    <2> QED
      BY <1>5, <1>6, <2>2, <2>3, ProductCancel
  <1>9. r * (w + 1) <= r * lot + 2 * r
    <2>1. r * (w + 1) <= r * (lot + 2)
      <3>1. w + 1 \in Nat /\ lot + 2 \in Nat /\ w + 1 <= lot + 2
        BY <1>6, <1>8
      <3> QED
        BY <3>1, ProductMonotone
    <2>2. r * (lot + 2) = r * lot + 2 * r
      BY Z3
    <2> QED
      BY <2>1, <2>2
  <1>10. VC(p, l) = VC(p, c) - f[t] + g[t]
    <2>1. \A s \in Tokens : f[s] \in Int /\ g[s] \in Int
      BY <1>3
    <2>2. \A s \in Tokens \ {t} : g[s] = f[s]
      BY <1>3
    <2> QED
      BY <1>2, <2>1, <2>2, SumUpdate, TokensAssumption
  <1>11. f[t] \in Nat /\ g[t] \in Nat /\ r * lot \in Nat
    BY <1>3, ProductNat
  <1> QED
    BY <1>1, <1>7, <1>9, <1>10, <1>11 DEF l

\* Unless the lot is dust, it pays for the VC that leaves.
LEMMA LotPays ==
  ASSUME NEW r \in Nat, NEW lot \in Nat, ~Dust(r, lot), NEW v \in Nat, NEW w \in Nat,
         100 * v <= 100 * w + (r * lot + (2 * r + 100) * Cardinality(Tokens))
  PROVE  v * DP <= w * DP + MCR * lot
  <1> DEFINE m == r * lot + (2 * r + 100) * Cardinality(Tokens)
             n == MCR * lot
  <1>1. m \in Nat /\ n \in Nat /\ DP \in Nat
    <2>1. r * lot \in Nat /\ (2 * r + 100) * Cardinality(Tokens) \in Nat
      <3>1. 2 * r + 100 \in Nat
        OBVIOUS
      <3> QED
        BY <3>1, ProductNat, TokensCount
    <2> QED
      BY <2>1, ProductNat, ScaleAssumption
  <1>2. DP * m < 100 * n
    <2>1. ~(100 * n <= DP * m)
      BY DEF Dust
    <2> HIDE DEF m, n
    <2>2. DP * m \in Nat /\ 100 * n \in Nat
      BY <1>1, ProductNat
    <2> QED
      BY <2>1, <2>2
  <1>3. 100 * v <= 100 * w + m
    OBVIOUS
  <1> HIDE DEF m, n
  <1>4. (100 * v) * DP <= (100 * w + m) * DP
    <2>1. 100 * v \in Nat /\ 100 * w + m \in Nat
      BY <1>1
    <2> QED
      BY <1>1, <1>3, <2>1, ProductMonotone
  <1>5. (100 * v) * DP = 100 * (v * DP) /\ (100 * w + m) * DP = 100 * (w * DP) + DP * m
    BY <1>1, Z3
  <1>6. v * DP \in Nat /\ w * DP \in Nat /\ DP * m \in Nat
    BY <1>1, ProductNat
  <1>7. v * DP <= w * DP + n
    BY <1>1, <1>2, <1>4, <1>5, <1>6
  <1> QED
    BY <1>7 DEF n

\* Nor is it worth more than a trove whose ratio is at least MCR.
LEMMA LotFits ==
  ASSUME NEW r \in Nat, NEW lot \in Nat, ~Dust(r, lot), NEW v \in Nat, NEW worth \in Nat, NEW d \in Nat,
         100 * v <= r * worth + r * Cardinality(Tokens), MCR * d <= v * DP, lot <= d
  PROVE  lot <= worth
  <1> SUFFICES ASSUME worth < lot PROVE FALSE
    OBVIOUS
  <1> DEFINE n == Cardinality(Tokens)
             m == r * lot + (2 * r + 100) * n
  <1>1. n \in Nat /\ MCR \in Nat /\ DP \in Nat
    BY TokensCount, ScaleAssumption
  <1>2. r * worth + r * n <= m /\ m \in Nat
    <2> HIDE DEF n
    <2>1. r * worth <= r * lot
      BY ProductMonotone
    <2>2. (2 * r + 100) * n = 2 * (r * n) + 100 * n
      BY <1>1, Z3
    <2>3. r * worth \in Nat /\ r * lot \in Nat /\ r * n \in Nat
      BY <1>1, ProductNat
    <2> QED
      BY <1>1, <2>1, <2>2, <2>3
  <1>3. ~(100 * (MCR * lot) <= DP * m)
    BY DEF Dust
  <1>4. 100 * v <= m
    <2>1. r * worth + r * n \in Nat
      <3> HIDE DEF n
      <3> QED
        BY <1>1, ProductNat
    <2>2. 100 * v <= r * worth + r * n
      OBVIOUS
    <2> HIDE DEF n, m
    <2> QED
      BY <1>2, <2>1, <2>2
  <1> HIDE DEF n, m
  <1>5. (100 * v) * DP <= m * DP
    <2>1. 100 * v \in Nat
      OBVIOUS
    <2> QED
      BY <1>1, <1>2, <1>4, <2>1, ProductMonotone
  <1>6. (100 * v) * DP = 100 * (v * DP) /\ m * DP = DP * m
    BY <1>1, <1>2, Z3
  <1>7. MCR * lot <= MCR * d
    BY <1>1, ProductMonotone
  <1>8. v * DP \in Nat /\ m * DP \in Nat /\ MCR * lot \in Nat /\ MCR * d \in Nat
    BY <1>1, <1>2, ProductNat
  <1> QED
    BY <1>3, <1>5, <1>6, <1>7, <1>8

-----------------------------------------------------------------------------
\* What a trove is owed after a step, token by token.
LEMMA PendingAfter ==
  ASSUME AllInv', NEW b \in Borrowers, status'[b] = "active"
  PROVE  /\ PendingDebt(b)' = SumFunctionOnSet([t \in Tokens |-> OwedDebt(t)'[b] \div DP], Tokens)
         /\ PendingColl(b)' \in Colls
  <1> DEFINE f == [t \in Tokens |->
                     (stakes'[b][t] * (L_YUSDDebt'[t] - debtSnapshots'[b][t])) \div DP]
             g == [t \in Tokens |->
                     (stakes'[b][t] * (L_Coll'[t] - collSnapshots'[b][t])) \div DP]
  <1>1. PendingDebt(b)' = SumFunctionOnSet(f, Tokens)
    BY DEF PendingDebt, SumFunction
  <1>2. f = [t \in Tokens |-> OwedDebt(t)'[b] \div DP]
    BY DEF OwedDebt
  <1>3. PendingColl(b)' = g
    BY DEF PendingColl
  <1>4. \A t \in Tokens : g[t] \in Nat
    <2> SUFFICES ASSUME NEW t \in Tokens PROVE g[t] \in Nat
      OBVIOUS
    <2>1. /\ stakes'[b][t] \in Nat /\ L_Coll'[t] \in Nat /\ collSnapshots'[b][t] \in Nat
          /\ collSnapshots'[b][t] <= L_Coll'[t]
      BY DEF AllInv, TypesInv, TroveTypeOK, PoolTypeOK, SnapshotsBehind, Colls
    <2> QED
      BY <2>1, RewardType
  <1> QED
    BY <1>1, <1>2, <1>3, <1>4 DEF Colls

\* The debt in a trove's rewards goes down by what is applied, or by more.
LEMMA PendingDebtMoves ==
  ASSUME AllInv, AllInv', ~StakeGrowsBehind, NEW b \in Borrowers, NEW rd, NEW rc,
         ClaimsMove(b, rd, rc), status[b] = "active", status'[b] = "active"
  PROVE  /\ PendingDebt(b) \in Nat /\ PendingDebt(b)' \in Nat /\ rd \in Nat
         /\ PendingDebt(b)' <= PendingDebt(b) - rd
  <1> DEFINE g == [t \in Tokens |-> OwedDebt(t)'[b] \div DP]
  <1>1. /\ PendingDebt(b) = SumFunctionOnSet(Rewards(b), Tokens)
        /\ \A t \in Tokens : Rewards(b)[t] \in Nat /\ Rewards(b)[t] = OwedDebt(t)[b] \div DP
    BY RewardsAre DEF Rewards
  <1>2. PendingDebt(b)' = SumFunctionOnSet(g, Tokens)
    BY PendingAfter
  <1>3. \A t \in Tokens : OwedDebt(t)[b] \in Nat /\ OwedDebt(t)'[b] \in Nat
    BY OwedTypes, OwedTypesAfter
  <1>4. DP \in Nat \ {0} /\ 0 \div DP = 0
    BY ScaleAssumption, FloorFits
  <1>5. \A t \in Tokens : g[t] = OwedDebt(t)'[b] \div DP
    OBVIOUS
  <1> HIDE DEF g, Rewards, OwedDebt
  <1>6. \A t \in Tokens : g[t] \in Nat
    BY <1>3, <1>4, <1>5, FloorFits
  <1>7. PendingDebt(b) \in Nat /\ PendingDebt(b)' \in Nat
    BY <1>1, <1>2, <1>6, SumNat, TokensAssumption
  <1>8. CASE Settled(b) /\ rd \in {0, PendingDebt(b)}
    <2>1. \A t \in Tokens : g[t] = 0
      BY <1>4, <1>5, <1>8, OwedAfterMove
    <2>2. PendingDebt(b)' = 0
      BY <1>2, <2>1, SumZero, TokensAssumption
    <2> QED
      BY <1>7, <1>8, <2>2
  <1>9. CASE Kept(b) /\ rd = 0
    <2>1. \A t \in Tokens : g[t] \in Int /\ Rewards(b)[t] \in Int /\ g[t] <= Rewards(b)[t]
      <3> SUFFICES ASSUME NEW t \in Tokens PROVE g[t] <= Rewards(b)[t]
        BY <1>1, <1>6
      <3>1. OwedDebt(t)'[b] <= OwedDebt(t)[b]
        BY <1>9, OwedAfterMove
      <3> QED
        BY <1>1, <1>3, <1>4, <1>5, <3>1, FloorMonotone
    <2>2. PendingDebt(b)' <= PendingDebt(b)
      BY <1>1, <1>2, <2>1, SumMonotone, TokensAssumption
    <2> QED
      BY <1>7, <1>9, <2>2
  <1> QED
    BY <1>8, <1>9 DEF ClaimsMove

\* A trove that could be redeemed from is worth MCR times its debt.
LEMMA WorthItsDebt ==
  ASSUME AllInv, NEW b \in Borrowers, ICR(b) >= MCR
  PROVE  /\ EntireDebt(b) \in Nat /\ VC(price, EntireColl(b)) \in Nat
         /\ MCR * EntireDebt(b) <= VC(price, EntireColl(b)) * DP
  <1> DEFINE d == EntireDebt(b)
             v == VC(price, EntireColl(b))
             q == (v * DP) \div d
  <1>1. d \in Nat /\ v \in Nat
    BY EntireTypes, VCType DEF AllInv, TypesInv, PoolTypeOK
  <1>2. ICR(b) = ComputeCR(v, d)
    BY DEF ICR
  <1> HIDE DEF d, v
  <1>3. DP \in Nat \ {0} /\ MCR \in Nat
    BY ScaleAssumption
  <1>4. v * DP \in Nat
    BY <1>1, <1>3, ProductNat
  <1>5. CASE d # 0
    <2>1. q >= MCR
      BY <1>2, <1>5 DEF ComputeCR
    <2>2. q \in Nat /\ q * d <= v * DP
      BY <1>1, <1>4, <1>5, FloorFits
    <2> HIDE DEF q
    <2>3. MCR * d <= q * d /\ MCR * d \in Nat /\ q * d \in Nat
      BY <1>1, <1>3, <2>1, <2>2, ProductMonotone, ProductNat
    <2> QED
      BY <1>1, <1>4, <2>2, <2>3 DEF d, v
  <1>6. CASE d = 0
    <2>1. MCR * d = 0
      BY <1>3, <1>6, ProductOverSum
    <2> QED
      BY <1>1, <1>4, <2>1 DEF d, v
  <1> QED
    BY <1>5, <1>6

\* Where nothing of a trove changes, nor the prices, its ratio does not.
LEMMA ICRStays ==
  ASSUME NEW b \in Borrowers, Untouched(b), colls'[b] = colls[b], debt'[b] = debt[b],
         L_Coll' = L_Coll, L_YUSDDebt' = L_YUSDDebt, price' = price
  PROVE  ICR(b)' = ICR(b)
  <1>1. PendingColl(b)' = PendingColl(b)
    BY DEF PendingColl, Untouched
  <1>2. PendingDebt(b)' = PendingDebt(b)
    BY DEF PendingDebt, Untouched
  <1>3. EntireColl(b)' = EntireColl(b) /\ EntireDebt(b)' = EntireDebt(b)
    BY <1>1, <1>2 DEF EntireColl, EntireDebt
  <1> QED
    BY <1>3 DEF ICR

\* The debt lot pays for the value that leaves trove b with x.
PaidFor(b, x, lot) ==
  VC(price, EntireColl(b)) * DP <= VC(price, SubColls(EntireColl(b), x)) * DP + MCR * lot

\* The trove that loses collateral for a lot of its debt, and has its rewards
\* applied if there are any.
LEMMA ICRGrows ==
  ASSUME AllInv, AllInv', ~StakeGrowsBehind, NEW b \in Borrowers,
         status[b] = "active", status'[b] = "active", ICR(b) >= MCR, price' = price,
         ClaimsMove(b, AppliedDebt(b), AppliedColl(b)),
         NEW x \in Colls, NEW lot \in Nat, Covers(EntireColl(b), x), PaidFor(b, x, lot),
         colls'[b] = SubColls(EntireColl(b), x),
         debt'[b] = debt[b] + AppliedDebt(b) - lot
  PROVE  ICR(b) <= ICR(b)'
  <1> DEFINE c == EntireColl(b)
             d == EntireDebt(b)
             v == VC(price, c)
             left == SubColls(c, x)
             pend == PendingColl(b)'
             w == VC(price, SumColls(left, pend))
             e == debt'[b] + PendingDebt(b)'
  <1>1. /\ d \in Nat /\ v \in Nat /\ MCR * d <= v * DP
    BY WorthItsDebt
  <1>2. price \in [Tokens -> Prices] /\ c \in Colls
    BY EntireTypes DEF AllInv, TypesInv, PoolTypeOK
  <1>3. left \in Colls /\ pend \in Colls
    BY <1>2, SubCollsType, PendingAfter
  <1>4. ICR(b) = ComputeCR(v, d)
    BY DEF ICR
  <1>5. ICR(b)' = ComputeCR(w, e)
    <2>1. EntireColl(b)' = SumColls(left, pend) /\ EntireDebt(b)' = e
      BY DEF EntireColl, EntireDebt
    <2> QED
      BY <2>1 DEF ICR
  <1>6. d = debt[b] + PendingDebt(b) /\ debt[b] \in Nat
    BY DEF EntireDebt, AllInv, LedgerInv, LedgerTypeOK
  <1>7. debt'[b] \in Nat \ {0}
    BY OpenTrovesOwe
  <1>8. /\ PendingDebt(b) \in Nat /\ PendingDebt(b)' \in Nat /\ AppliedDebt(b) \in Nat
        /\ PendingDebt(b)' <= PendingDebt(b) - AppliedDebt(b)
    BY PendingDebtMoves
  <1>9. e \in Nat \ {0} /\ e <= d - lot
    <2> HIDE DEF d
    <2> QED
      BY <1>6, <1>7, <1>8
  <1>10. VC(price, left) \in Nat /\ v * DP <= VC(price, left) * DP + MCR * lot
    BY <1>2, <1>3, VCType DEF PaidFor
  <1>11. w \in Nat /\ VC(price, left) <= w
    <2>1. /\ VC(price, pend) \in Nat /\ w \in Nat
          /\ w - VC(price, left) - VC(price, pend) \in 0..Rounded
      BY <1>2, <1>3, VCPlus
    <2> HIDE DEF w, left, pend
    <2> QED
      BY <1>10, <2>1, RoundedType
  <1> HIDE DEF v, d, w, e, left, c
  <1>12. v * DP <= w * DP + MCR * lot
    <2>1. DP \in Nat /\ MCR \in Nat
      BY ScaleAssumption
    <2>2. VC(price, left) * DP <= w * DP
      BY <1>10, <1>11, <2>1, ProductMonotone
    <2>3. /\ v * DP \in Nat /\ VC(price, left) * DP \in Nat /\ w * DP \in Nat /\ MCR * lot \in Nat
      BY <1>1, <1>10, <1>11, <2>1, ProductNat
    <2> QED
      BY <1>10, <2>2, <2>3
  <1> QED
    BY <1>1, <1>4, <1>5, <1>9, <1>11, <1>12, RatioKept

\* What a redemption may not do, and one step of it.
NoneHurt == \A y \in Active : status'[y] = "active" => ICR(y)' >= ICR(y)

\* A trove that is redeemed from gives collateral that the lot pays for.
LEMMA ReduceTroveHurtsNone ==
  ASSUME AllInv, AllInv', ~StakeGrowsBehind, NEW b \in Borrowers,
         ICR(b) >= MCR, price' = price, UNCHANGED rewardVars,
         NEW x \in Colls, NEW lot \in Nat, Covers(EntireColl(b), x), PaidFor(b, x, lot),
         NEW new, new = debt[b] + AppliedDebt(b) - lot, NEW collOut, NEW debtOut,
         ReduceTrove(b, EntireColl(b), SubColls(EntireColl(b), x), new, collOut, debtOut)
  PROVE  NoneHurt
  <1> DEFINE left == SubColls(EntireColl(b), x)
  <1>1. /\ defaultDebt' = defaultDebt - AppliedDebt(b)
        /\ defaultColl' = SubColls(defaultColl, AppliedColl(b))
    BY DEF ReduceTrove
  <1>2. /\ status \in [Borrowers -> Statuses] /\ TroveTypeOK
        /\ colls \in [Borrowers -> Colls] /\ debt \in [Borrowers -> Nat]
        /\ L_Coll' = L_Coll /\ L_YUSDDebt' = L_YUSDDebt
    BY DEF AllInv, TypesInv, TroveTypeOK, ReservesInv, LedgerInv, LedgerTypeOK, rewardVars
  <1>3. \A y \in Borrowers : ICR(y) \in Nat
    BY EntireTypes DEF AllInv, TypesInv
  <1>4. CASE new = GasCompensation
    <2>1. RemoveStake(b, AppliedTokens(b)) /\ CloseAs(b, "closedByRedemption")
      BY <1>4 DEF ReduceTrove
    <2>2. \A y \in Borrowers \ {b} : Untouched(y)
      BY <2>1, CloseAsMove DEF Statuses
    <2>3. /\ status'[b] # "active"
          /\ \A y \in Borrowers \ {b} : colls'[y] = colls[y] /\ debt'[y] = debt[y]
      BY <1>2, <2>1 DEF CloseAs
    <2>4. ASSUME NEW y \in Active, status'[y] = "active" PROVE ICR(y)' >= ICR(y)
      <3>1. y \in Borrowers \ {b}
        BY <2>3, <2>4 DEF Active
      <3>2. ICR(y)' = ICR(y)
        BY <1>2, <2>2, <2>3, <3>1, ICRStays
      <3> QED
        BY <1>3, <3>1, <3>2
    <2> QED
      BY <2>4 DEF NoneHurt
  <1>5. CASE new # GasCompensation
    <2>1. /\ AppliedSnapshots(b) /\ status' = status
          /\ UpdateStake(b, Support(EntireColl(b)), left)
          /\ debt' = [debt EXCEPT ![b] = new] /\ colls' = [colls EXCEPT ![b] = left]
      BY <1>5 DEF ReduceTrove
    <2>2. \E s : stakes' = [stakes EXCEPT ![b] = s]
      BY <2>1, StakesOfOne
    <2>3. \A y \in Borrowers \ {b} : Untouched(y)
      BY <1>2, <2>1, <2>2, OthersUntouched, SnapshotsOfOne
    <2>4. ClaimsMove(b, AppliedDebt(b), AppliedColl(b))
      BY <1>1, <2>1, <2>3, AppliedMove
    <2>5. /\ debt'[b] = new /\ colls'[b] = left
          /\ \A y \in Borrowers \ {b} : colls'[y] = colls[y] /\ debt'[y] = debt[y]
      BY <1>2, <2>1
    <2>6. ASSUME NEW y \in Active, y # b PROVE ICR(y)' >= ICR(y)
      <3>1. y \in Borrowers \ {b}
        BY <2>6 DEF Active
      <3>2. ICR(y)' = ICR(y)
        BY <1>2, <2>3, <2>5, <3>1, ICRStays
      <3> QED
        BY <1>3, <3>1, <3>2
    <2>7. b \in Active /\ status'[b] = "active" => ICR(b)' >= ICR(b)
      <3> SUFFICES ASSUME b \in Active, status'[b] = "active" PROVE ICR(b) <= ICR(b)'
        OBVIOUS
      <3>1. status[b] = "active"
        BY DEF Active
      <3> QED
        BY <2>4, <2>5, <3>1, ICRGrows
    <2> QED
      BY <2>6, <2>7 DEF NoneHurt
  <1> QED
    BY <1>4, <1>5

\* Any trove that nothing happens to keeps its ratio.
LEMMA QuietHurtsNone ==
  ASSUME AllInv, UNCHANGED <<troveVars, stakeVars, snapshotVars, rewardVars, price>>
  PROVE  NoneHurt
  <1>1. /\ status' = status /\ debt' = debt /\ colls' = colls /\ stakes' = stakes
        /\ collSnapshots' = collSnapshots /\ debtSnapshots' = debtSnapshots
        /\ L_Coll' = L_Coll /\ L_YUSDDebt' = L_YUSDDebt /\ price' = price
    BY DEF troveVars, stakeVars, snapshotVars, rewardVars
  <1>2. ASSUME NEW y \in Active PROVE ICR(y)' >= ICR(y)
    <2>1. y \in Borrowers /\ Untouched(y)
      BY <1>1 DEF Active, Untouched
    <2>2. ICR(y)' = ICR(y) /\ ICR(y) \in Nat
      BY <1>1, <2>1, ICRStays, EntireTypes DEF AllInv, TypesInv
    <2> QED
      BY <2>2
  <1> QED
    BY <1>2 DEF NoneHurt

LEMMA RedeemFromTroveHurtsNone ==
  ASSUME AllInv, AllInv', NEW r \in Nat, RatiosUpTo(r), ~StakeGrowsBehind, NEW b \in Borrowers,
         RedeemFromTrove(b), ~Dust(r, tx'.redeemed - tx.redeemed)
  PROVE  NoneHurt
  <1> DEFINE d == debt[b] + AppliedDebt(b)
             c == EntireColl(b)
             lot == Smaller(tx.remaining, d - GasCompensation)
             cut == Cut(lot, c)
  <1>1. /\ tx.kind = "redemption" /\ ICR(b) >= MCR
        /\ GasCompensation <= d
        /\ CanCut(lot, c)
        /\ ReduceTrove(b, c, SubColls(c, cut), d - lot, NoColls, 0)
        /\ tx' = Redemption(Prev(b), tx.remaining - lot, tx.redeemed + lot, SumColls(tx.drawn, cut))
        /\ UNCHANGED rewardVars /\ price' = price
    BY DEF RedeemFromTrove, Redeemable
  <1>2. tx.remaining \in Nat /\ tx.redeemed \in Nat
    BY <1>1, RedemptionFields DEF AllInv, TypesInv, TxInv
  <1>3. d \in Nat /\ c \in Colls /\ price \in [Tokens -> Prices]
    BY EntireTypes DEF AllInv, TypesInv, PoolTypeOK
  <1>0. /\ d = debt[b] + AppliedDebt(b) /\ c = EntireColl(b)
        /\ debt[b] \in Nat /\ AppliedDebt(b) \in Nat
        /\ d <= EntireDebt(b)
    <2>1. debt[b] \in Nat /\ AppliedDebt(b) \in Nat /\ PendingDebt(b) \in Nat
      BY EntireTypes, PendingDebtType DEF AllInv, TypesInv, LedgerInv, LedgerTypeOK
    <2>2. AppliedDebt(b) <= PendingDebt(b)
      BY <2>1 DEF AppliedDebt
    <2> QED
      BY <2>1, <2>2 DEF EntireDebt
  <1> HIDE DEF d, c
  <1>4. lot \in Nat /\ lot <= d
    BY <1>1, <1>2, <1>3, ScaleAssumption DEF Smaller
  <1>5. ~Dust(r, lot)
    <2>1. tx'.redeemed = tx.redeemed + lot
      BY <1>1 DEF Redemption
    <2> HIDE DEF lot
    <2>2. tx'.redeemed - tx.redeemed = lot
      BY <1>2, <1>4, <2>1
    <2> QED
      BY <2>2
  <1> HIDE DEF lot
  <1>6. /\ EntireDebt(b) \in Nat /\ VC(price, c) \in Nat
        /\ MCR * EntireDebt(b) <= VC(price, c) * DP
    BY <1>0, <1>1, WorthItsDebt
  <1>7. lot <= USD(price, c)
    <2>1. USD(price, c) \in Nat /\ 100 * VC(price, c) <= r * USD(price, c) + r * Cardinality(Tokens)
      BY <1>3, VCAtMost
    <2>2. lot <= EntireDebt(b)
      BY <1>0, <1>3, <1>4, <1>6
    <2> QED
      BY <1>4, <1>5, <1>6, <2>1, <2>2, LotFits
  <1>8. cut \in Colls /\ USD(price, cut) <= lot + Cardinality(Tokens)
    BY <1>1, <1>3, <1>4, <1>7, CutWorth
  <1>9. Covers(c, cut)
    BY <1>1 DEF CanCut
  <1> HIDE DEF cut
  <1>10. PaidFor(b, cut, lot)
    <2> DEFINE v == VC(price, c)
               w == VC(price, SubColls(c, cut))
               u == USD(price, cut)
               n == Cardinality(Tokens)
    <2>1. /\ v \in Nat /\ w \in Nat /\ u \in Nat /\ 100 * v <= 100 * w + (r * u + (r + 100) * n)
      BY <1>3, <1>8, <1>9, VCMinus
    <2>2. n \in Nat /\ u <= lot + n
      BY <1>8, TokensCount
    <2>3. v * DP <= w * DP + MCR * lot
      <3> HIDE DEF v, w, u, n
      <3>1. r * u <= r * (lot + n)
        <4>1. lot + n \in Nat
          BY <1>4, <2>2
        <4> QED
          BY <2>1, <2>2, <4>1, ProductMonotone
      <3>2. /\ r * (lot + n) = r * lot + r * n
            /\ (r + 100) * n = r * n + 100 * n
            /\ (2 * r + 100) * n = 2 * (r * n) + 100 * n
        BY <1>4, <2>2, Z3
      <3>3. r * u \in Nat /\ r * lot \in Nat /\ r * n \in Nat
        BY <1>4, <2>1, <2>2, ProductNat
      <3>4. 100 * v <= 100 * w + (r * lot + (2 * r + 100) * n)
        BY <2>1, <2>2, <3>1, <3>2, <3>3
      <3>5. 100 * v <= 100 * w + (r * lot + (2 * r + 100) * Cardinality(Tokens))
        BY <3>4 DEF n
      <3> QED
        BY <1>4, <1>5, <2>1, <3>5, LotPays
    <2> QED
      BY <1>0, <2>3 DEF PaidFor
  <1>11. /\ Covers(EntireColl(b), cut) /\ d - lot = debt[b] + AppliedDebt(b) - lot
         /\ ReduceTrove(b, EntireColl(b), SubColls(EntireColl(b), cut), d - lot, NoColls, 0)
    BY <1>0, <1>1, <1>4, <1>9
  <1> QED
    BY <1>1, <1>4, <1>8, <1>10, <1>11, ReduceTroveHurtsNone

LEMMA RedeemSingleHurtsNone ==
  ASSUME AllInv, AllInv', NEW r \in Nat, RatiosUpTo(r), ~StakeGrowsBehind, NEW b \in Borrowers,
         NEW t \in Tokens, NEW amount \in Redemptions, RedeemSingle(b, t, amount),
         ~Dust(r, circulating - circulating')
  PROVE  NoneHurt
  <1> DEFINE d == debt[b] + AppliedDebt(b)
             c == EntireColl(b)
             worth == ValueUSD(price, t, c[t])
             lot == Smaller(worth, Smaller(amount, d - GasCompensation))
             cut == [NoColls EXCEPT ![t] = (lot * c[t]) \div worth]
  <1>1. /\ ICR(b) >= MCR /\ amount \in Nat /\ worth # 0
        /\ GasCompensation <= d
        /\ Covers(c, cut)
        /\ ReduceTrove(b, c, SubColls(c, cut), d - lot, cut, lot)
        /\ circulating' = circulating - lot
        /\ UNCHANGED rewardVars /\ price' = price
    BY InputAssumption DEF RedeemSingle, ValidFirstHint
  <1>2. d \in Nat /\ c \in Colls /\ price \in [Tokens -> Prices]
    BY EntireTypes DEF AllInv, TypesInv, PoolTypeOK
  <1>0. /\ d = debt[b] + AppliedDebt(b) /\ c = EntireColl(b)
        /\ debt[b] \in Nat /\ AppliedDebt(b) \in Nat /\ circulating \in Nat
    BY EntireTypes DEF AllInv, TypesInv, LedgerInv, LedgerTypeOK
  <1> HIDE DEF d, c
  <1>3. worth \in Nat
    <2>1. c[t] \in Nat
      BY <1>2 DEF Colls
    <2> QED
      BY <1>2, <2>1, ValueUSDType
  <1>12. worth = ValueUSD(price, t, c[t]) /\ cut[t] = (lot * c[t]) \div worth
    BY DEF NoColls
  <1>13. cut = [NoColls EXCEPT ![t] = (lot * c[t]) \div worth]
    OBVIOUS
  <1> HIDE DEF worth
  <1>4. lot \in Nat /\ lot <= worth
    BY <1>1, <1>2, <1>3, ScaleAssumption DEF Smaller
  <1>5. ~Dust(r, lot)
    <2>1. circulating' = circulating - lot
      BY <1>1
    <2> HIDE DEF lot
    <2>2. circulating - circulating' = lot
      BY <1>0, <1>4, <2>1
    <2> QED
      BY <2>2
  <1> HIDE DEF lot
  <1>6. cut \in Colls
    <2>1. ASSUME NEW u \in Tokens PROVE cut[u] \in Nat
      BY <1>1, <1>2 DEF Covers, Colls
    <2>2. cut = [u \in Tokens |-> cut[u]]
      BY DEF NoColls
    <2> HIDE DEF cut
    <2> QED
      BY <2>1, <2>2 DEF Colls
  <1> HIDE DEF cut
  <1>7. /\ VC(price, c) \in Nat /\ VC(price, SubColls(c, cut)) \in Nat
        /\ 100 * VC(price, c) <= 100 * VC(price, SubColls(c, cut)) + (r * lot + (2 * r + 100))
    <2>1. ValueUSD(price, t, c[t]) # 0 /\ lot <= ValueUSD(price, t, c[t])
      BY <1>1, <1>4, <1>12
    <2>2. cut = [NoColls EXCEPT ![t] = (lot * c[t]) \div ValueUSD(price, t, c[t])]
      BY <1>12, <1>13
    <2>3. Covers(c, cut)
      BY <1>1
    <2> QED
      BY <1>2, <1>4, <1>6, <2>1, <2>2, <2>3, SingleCutWorth
  <1>8. PaidFor(b, cut, lot)
    <2> DEFINE v == VC(price, c)
               w == VC(price, SubColls(c, cut))
               n == Cardinality(Tokens)
    <2>1. v \in Nat /\ w \in Nat /\ 100 * v <= 100 * w + (r * lot + (2 * r + 100))
      BY <1>7
    <2>2. n \in Nat /\ n >= 1
      BY TokensCount
    <2>3. v * DP <= w * DP + MCR * lot
      <3> HIDE DEF v, w, n
      <3>1. 2 * r + 100 <= (2 * r + 100) * n
        <4>1. 2 * r + 100 \in Nat
          OBVIOUS
        <4>2. (2 * r + 100) * 1 <= (2 * r + 100) * n
          BY <2>2, <4>1, ProductMonotone
        <4> QED
          BY <4>1, <4>2
      <3>2. r * lot \in Nat /\ (2 * r + 100) * n \in Nat
        <4>1. 2 * r + 100 \in Nat
          OBVIOUS
        <4> QED
          BY <1>4, <2>2, <4>1, ProductNat
      <3>3. 100 * v <= 100 * w + (r * lot + (2 * r + 100) * n)
        BY <2>1, <3>1, <3>2
      <3>4. 100 * v <= 100 * w + (r * lot + (2 * r + 100) * Cardinality(Tokens))
        BY <3>3 DEF n
      <3> QED
        BY <1>4, <1>5, <2>1, <3>4, LotPays
    <2> QED
      BY <1>0, <2>3 DEF PaidFor
  <1>9. /\ Covers(EntireColl(b), cut) /\ d - lot = debt[b] + AppliedDebt(b) - lot
        /\ ReduceTrove(b, EntireColl(b), SubColls(EntireColl(b), cut), d - lot, cut, lot)
    BY <1>0, <1>1, <1>4
  <1> QED
    BY <1>1, <1>4, <1>6, <1>8, <1>9, ReduceTroveHurtsNone

\* A cancelled redemption has the trove's rewards applied, if it has any.
LEMMA CancelPartialHurtsNone ==
  ASSUME AllInv, AllInv', ~StakeGrowsBehind, NEW b \in Borrowers, CancelPartial(b)
  PROVE  NoneHurt
  <1> DEFINE c == EntireColl(b)
  <1>1. /\ ICR(b) >= MCR /\ price' = price /\ UNCHANGED rewardVars
        /\ AppliedSnapshots(b) /\ status' = status /\ stakes' = stakes
        /\ defaultDebt' = defaultDebt - AppliedDebt(b)
        /\ defaultColl' = SubColls(defaultColl, AppliedColl(b))
        /\ debt' = [debt EXCEPT ![b] = debt[b] + AppliedDebt(b)]
        /\ colls' = [colls EXCEPT ![b] = SumColls(colls[b], AppliedColl(b))]
    BY DEF CancelPartial, Redeemable, stakeVars
  <1>2. /\ status \in [Borrowers -> Statuses] /\ TroveTypeOK /\ price \in [Tokens -> Prices]
        /\ colls \in [Borrowers -> Colls] /\ debt \in [Borrowers -> Nat]
        /\ L_Coll' = L_Coll /\ L_YUSDDebt' = L_YUSDDebt
    BY <1>1 DEF AllInv, TypesInv, TroveTypeOK, PoolTypeOK, ReservesInv, LedgerInv, LedgerTypeOK, rewardVars
  <1>3. \A y \in Borrowers : ICR(y) \in Nat
    BY EntireTypes DEF AllInv, TypesInv
  <1>4. \A y \in Borrowers \ {b} : Untouched(y)
    BY <1>1, <1>2, OthersUntouched, SnapshotsOfOne
  <1>5. /\ colls'[b] = SumColls(colls[b], AppliedColl(b)) /\ debt'[b] = debt[b] + AppliedDebt(b)
        /\ \A y \in Borrowers \ {b} : colls'[y] = colls[y] /\ debt'[y] = debt[y]
    BY <1>1, <1>2
  <1>6. ASSUME NEW y \in Active, y # b PROVE ICR(y)' >= ICR(y)
    <2>1. y \in Borrowers \ {b}
      BY <1>6 DEF Active
    <2>2. ICR(y)' = ICR(y)
      BY <1>1, <1>2, <1>4, <1>5, <2>1, ICRStays
    <2> QED
      BY <1>3, <2>1, <2>2
  <1>7. CASE HasPendingRewards(b)
    <2>1. colls'[b] = c
      BY <1>5, <1>7 DEF EntireColl, AppliedColl
    <2>2. c \in Colls /\ NoColls \in Colls
      BY EntireTypes, NoCollsType DEF AllInv, TypesInv
    <2>0. c = EntireColl(b)
      OBVIOUS
    <2> HIDE DEF c
    <2>3. SubColls(c, NoColls) = c /\ Covers(c, NoColls)
      BY <2>2 DEF SubColls, Covers, NoColls, Colls
    <2>4. PaidFor(b, NoColls, 0) /\ 0 \in Nat
      <3>1. VC(price, c) \in Nat /\ MCR \in Nat /\ DP \in Nat
        BY <1>2, <2>2, VCType, ScaleAssumption
      <3>2. MCR * 0 = 0 /\ VC(price, c) * DP \in Nat
        BY <3>1, ProductNat
      <3> QED
        BY <2>0, <2>3, <3>2 DEF PaidFor
    <2>5. debt[b] \in Nat /\ AppliedDebt(b) \in Nat
      BY EntireTypes DEF AllInv, TypesInv, LedgerInv, LedgerTypeOK
    <2>6. /\ Covers(EntireColl(b), NoColls) /\ colls'[b] = SubColls(EntireColl(b), NoColls)
          /\ debt'[b] = debt[b] + AppliedDebt(b) - 0
      BY <1>5, <2>0, <2>1, <2>3, <2>5
    <2>7. ClaimsMove(b, AppliedDebt(b), AppliedColl(b))
      BY <1>1, <1>4, AppliedMove
    <2>8. status[b] = "active" /\ status'[b] = "active"
      BY <1>1, <1>7 DEF HasPendingRewards
    <2>9. ICR(b) <= ICR(b)'
      BY <1>1, <2>2, <2>4, <2>6, <2>7, <2>8, ICRGrows
    <2> QED
      BY <1>6, <2>9 DEF NoneHurt
  <1>8. CASE ~HasPendingRewards(b)
    <2>1. AppliedColl(b) = NoColls /\ AppliedDebt(b) = 0 /\ UNCHANGED snapshotVars
      BY <1>1, <1>8 DEF AppliedColl, AppliedDebt, AppliedSnapshots
    <2>2. colls[b] \in Colls /\ debt[b] \in Nat
      BY <1>2
    <2>3. SumColls(colls[b], NoColls) = colls[b]
      BY <2>2 DEF SumColls, NoColls, Colls
    <2>4. colls'[b] = colls[b] /\ debt'[b] = debt[b]
      BY <1>5, <2>1, <2>2, <2>3
    <2>5. Untouched(b)
      BY <1>1, <2>1 DEF Untouched, snapshotVars
    <2>6. ICR(b)' = ICR(b)
      BY <1>1, <1>2, <2>4, <2>5, ICRStays
    <2> QED
      BY <1>3, <1>6, <2>6 DEF NoneHurt
  <1> QED
    BY <1>7, <1>8

\* A redemption redeems from a trove a lot that rounding may outweigh.
RedeemsDust(r) ==
  \/ \E b \in Borrowers : RedeemFromTrove(b) /\ Dust(r, tx'.redeemed - tx.redeemed)
  \/ \E b \in Borrowers, t \in Tokens, amount \in Redemptions :
       RedeemSingle(b, t, amount) /\ Dust(r, circulating - circulating')

LEMMA RedemptionStepHurtsNone ==
  ASSUME AllInv, AllInv', NEW r \in Nat, RatiosUpTo(r), Next, RedemptionStep,
         ~StakeGrowsBehind, ~RedeemsDust(r)
  PROVE  NoneHurt
  <1>1. CASE \E b \in Borrowers, t \in Tokens, amount \in Redemptions : RedeemSingle(b, t, amount)
    BY <1>1, RedeemSingleHurtsNone DEF RedeemsDust
  <1>2. CASE tx.kind = "redemption"
    <2>1. ~Idle /\ tx.kind # "liquidation"
      BY <1>2 DEF Idle, NoTx
    <2>2. Redeem
      <3>1. ~(\E b \in Borrowers : Borrow(b))
        BY <2>1 DEF Borrow, OpenTrove, AdjustTrove, CloseTrove, ClaimCollateral, UpdateTrove
      <3>2. ~(\E x \in Deposits : ProvideToSP(x) \/ WithdrawFromSP(x))
        BY <2>1 DEF ProvideToSP, WithdrawFromSP
      <3>3. ~(\E t \in Tokens, p \in Prices : SetPrice(t, p))
        BY <2>1 DEF SetPrice
      <3>4. ~Liquidate
        BY <2>1 DEF Liquidate, BeginLiquidation, LiquidateNormalMode, LiquidateRecoveryMode,
                    FinishLiquidation
      <3> QED
        BY <3>1, <3>2, <3>3, <3>4 DEF Next
    <2>3. CASE \E b \in Borrowers : SkipTrove(b)
      BY <2>3, QuietHurtsNone DEF SkipTrove
    <2>4. CASE FinishRedemption
      BY <2>4, QuietHurtsNone DEF FinishRedemption
    <2>5. ~(\E amount \in Redemptions, b \in Borrowers : BeginRedemption(amount, b))
      BY <2>1 DEF BeginRedemption
    <2>6. CASE \E b \in Borrowers : RedeemFromTrove(b)
      BY <2>6, RedeemFromTroveHurtsNone DEF RedeemsDust
    <2>7. CASE \E b \in Borrowers : CancelPartial(b)
      BY <2>7, CancelPartialHurtsNone
    <2> QED
      BY <1>1, <2>2, <2>3, <2>4, <2>5, <2>6, <2>7 DEF Redeem
  <1> QED
    BY <1>1, <1>2 DEF RedemptionStep

\* A redemption leaves no trove that stays open with a lower ratio, whatever its
\* tokens, the lot and the order of the list, where no token counts for more than
\* r VC per 100 USD: unless the lot is dust for that r (the more so, the nearer r
\* comes to MCR, as a unit of debt then buys collateral that counts for more than
\* it), or a stake grows behind its snapshots in that step.
THEOREM RedemptionsNeverHurt ==
  \A r \in Nat :
    RatiosUpTo(r) =>
      (Spec /\ [][~StakeGrowsBehind]_vars /\ [][~RedeemsDust(r)]_vars => RedemptionNeverHurts)
  <1> SUFFICES ASSUME NEW r \in Nat, RatiosUpTo(r)
               PROVE  Spec /\ [][~StakeGrowsBehind]_vars /\ [][~RedeemsDust(r)]_vars
                      => RedemptionNeverHurts
    OBVIOUS
  <1>1. /\ AllInv /\ AllInv' /\ [Next]_vars /\ [~StakeGrowsBehind]_vars /\ [~RedeemsDust(r)]_vars
        => [RedemptionStep => \A b \in Active : status'[b] = "active" => ICR(b)' >= ICR(b)]_vars
    BY RedemptionStepHurtsNone DEF NoneHurt
  <1> QED
    BY <1>1, AllInvAlways, PTL DEF Spec, RedemptionNeverHurts
=============================================================================
