--------------------------- MODULE CommonTheorems ---------------------------
(***************************************************************************)
(* Facts that the proofs about several contracts need.  Of quotients:      *)
(* everything these contracts divide is rounded down.  Of sequences: what  *)
(* InsertAt and RemoveAt of the community modules return.  Of sums over a  *)
(* finite set: what SumFunction and SumFunctionOnSet return.  The last is  *)
(* a function defined by recursion on the subsets of the set; an argument  *)
(* by induction is put here as one about a smallest counterexample         *)
(* (SmallestSubset).  Of bounded sets of naturals: their ends, and what a  *)
(* scan from one place to the next marked one returns.                     *)
(***************************************************************************)
EXTENDS Integers, SequencesExt, FiniteSetTheorems, SequenceTheorems, TLAPS
-----------------------------------------------------------------------------
(* Quotients that are rounded down.                                        *)

LEMMA FloorFits ==
  ASSUME NEW a \in Nat, NEW b \in Nat \ {0}
  PROVE  a \div b \in Nat /\ (a \div b) * b <= a /\ a < (a \div b) * b + b
  BY Z3

LEMMA ProductNat == ASSUME NEW a \in Nat, NEW b \in Nat PROVE a * b \in Nat
  BY Z3

LEMMA ProductOverSum ==
  ASSUME NEW a \in Int, NEW b \in Int, NEW k \in Int
  PROVE  k * (a + b) = k * a + k * b /\ k * a \in Int /\ k * 0 = 0
  BY Z3

LEMMA ProductTurns == ASSUME NEW a \in Nat, NEW b \in Nat PROVE a * b = b * a
  BY Z3

LEMMA ProductOverDifference ==
  ASSUME NEW a \in Int, NEW b \in Int, NEW k \in Int
  PROVE  k * (a - b) = k * a - k * b /\ k * a \in Int /\ k * b \in Int
  BY Z3

\* What is divided is the quotient's multiples and the rest.
LEMMA DivisionIs ==
  ASSUME NEW a \in Nat, NEW n \in Nat \ {0}
  PROVE  /\ a \div n \in Nat /\ a % n \in Nat
         /\ (a \div n) * n + (a % n) = a
  BY Z3

LEMMA ProductMonotone ==
  ASSUME NEW a \in Nat, NEW b \in Nat, NEW c \in Nat, a <= b
  PROVE  a * c <= b * c /\ c * a <= c * b
  BY Z3

LEMMA ProductCancel ==
  ASSUME NEW a \in Nat, NEW b \in Nat, NEW c \in Nat \ {0}, a * c <= b * c
  PROVE  a <= b
<1> SUFFICES ASSUME b + 1 <= a PROVE FALSE
  OBVIOUS
<1>1. (b + 1) * c <= a * c
  BY ProductMonotone, b + 1 \in Nat
<1>2. (b + 1) * c = b * c + c
  BY Z3
<1> QED
  BY <1>1, <1>2, ProductNat

(* The quotient is the largest number that fits.                           *)
LEMMA FloorGreatest ==
  ASSUME NEW n \in Nat, NEW a \in Nat, NEW b \in Nat \ {0}, n * b <= a
  PROVE  n <= a \div b
<1> DEFINE q == a \div b
<1>1. q \in Nat /\ a < q * b + b
  BY FloorFits
<1> HIDE DEF q
<1> SUFFICES ASSUME q + 1 <= n PROVE FALSE
  BY <1>1 DEF q
<1>2. (q + 1) * b <= n * b
  BY <1>1, ProductMonotone, q + 1 \in Nat
<1>3. (q + 1) * b = q * b + b
  BY <1>1, Z3
<1> QED
  BY <1>1, <1>2, <1>3, ProductNat

LEMMA FloorMonotone ==
  ASSUME NEW a \in Nat, NEW b \in Nat, NEW c \in Nat \ {0}, a <= b
  PROVE  a \div c \in Nat /\ b \div c \in Nat /\ a \div c <= b \div c
<1>1. a \div c \in Nat /\ b \div c \in Nat /\ (a \div c) * c <= a
  BY FloorFits
<1>2. (a \div c) * c <= b
  BY <1>1, ProductNat
<1> QED
  BY <1>1, <1>2, FloorGreatest

(* The quotient of less than n times b is less than n.                     *)
LEMMA FloorBelow ==
  ASSUME NEW n \in Nat, NEW a \in Nat, NEW b \in Nat \ {0}, a < n * b
  PROVE  a \div b \in Nat /\ a \div b < n
<1> DEFINE q == a \div b
<1>1. q \in Nat /\ q * b <= a
  BY FloorFits
<1> HIDE DEF q
<1>2. q < n
  <2> SUFFICES ASSUME n <= q PROVE FALSE
    BY <1>1
  <2>1. n * b <= q * b
    BY <1>1, ProductMonotone
  <2> QED
    BY <1>1, <2>1, ProductNat
<1> QED
  BY <1>1, <1>2 DEF q

LEMMA FloorAtMost ==
  ASSUME NEW n \in Nat, NEW a \in Nat, NEW b \in Nat \ {0}, a <= n * b
  PROVE  a \div b \in Nat /\ a \div b <= n
<1> DEFINE q == a \div b
<1>1. q \in Nat /\ q * b <= a
  BY FloorFits
<1> HIDE DEF q
<1>2. q * b <= n * b
  BY <1>1, ProductNat
<1>3. q <= n
  BY <1>1, <1>2, ProductCancel
<1> QED
  BY <1>1, <1>3 DEF q

\* Two floors together lose less than one unit to the floor of the sum.
LEMMA FloorPlus ==
  ASSUME NEW a \in Nat, NEW b \in Nat, NEW n \in Nat \ {0}
  PROVE  /\ (a + b) \div n - a \div n - b \div n \in 0..1
         /\ a % n = 0 => (a + b) \div n = a \div n + b \div n
  <1> DEFINE p == a \div n
             q == b \div n
             r == (a + b) \div n
  <1>1. /\ p \in Nat /\ p * n <= a /\ a < p * n + n
        /\ q \in Nat /\ q * n <= b /\ b < q * n + n
    BY FloorFits
  <1>2. a + b \in Nat /\ p + q \in Nat /\ p + q + 2 \in Nat
    BY <1>1
  <1>3. (p + q) * n = p * n + q * n /\ (p + q + 2) * n = p * n + q * n + n + n
    <2> HIDE DEF p, q
    <2> QED
      BY <1>1, Z3
  <1>4. p * n \in Nat /\ q * n \in Nat
    BY <1>1, ProductNat
  <1> HIDE DEF p, q
  <1>5. (p + q) * n <= a + b /\ a + b < (p + q + 2) * n
    BY <1>1, <1>3, <1>4
  <1>6. p + q <= r
    BY <1>2, <1>5, FloorGreatest
  <1>7. r \in Nat /\ r < p + q + 2
    BY <1>2, <1>5, FloorBelow
  <1>8. r - p - q \in 0..1
    <2> HIDE DEF r
    <2> QED
      BY <1>1, <1>6, <1>7
  <1>9. ASSUME a % n = 0 PROVE r = p + q
    <2>1. a = p * n
      BY <1>9, Z3 DEF p
    <2>2. (p + q + 1) * n = p * n + q * n + n
      BY <1>1, Z3
    <2>3. a + b < (p + q + 1) * n
      BY <1>1, <1>4, <2>1, <2>2
    <2>4. r < p + q + 1
      BY <1>1, <1>2, <2>3, FloorBelow
    <2> HIDE DEF r
    <2> QED
      BY <1>1, <1>6, <1>7, <2>4
  <1> QED
    BY <1>8, <1>9 DEF p, q, r
-----------------------------------------------------------------------------
(* An element taken out of a sequence, or put into it.                     *)

LEMMA RemoveAtIs ==
  ASSUME NEW S, NEW s \in Seq(S), NEW i \in 1..Len(s)
  PROVE  /\ RemoveAt(s, i) \in Seq(S)
         /\ Len(RemoveAt(s, i)) = Len(s) - 1
         /\ \A j \in 1..(Len(s) - 1) : RemoveAt(s, i)[j] = IF j < i THEN s[j] ELSE s[j + 1]
  <1> DEFINE p == SubSeq(s, 1, i - 1)
             q == SubSeq(s, i + 1, Len(s))
  <1>1. Len(s) \in Nat /\ \A j \in 1..Len(s) : s[j] \in S
    BY LenProperties, ElementOfSeq
  <1>2. p \in Seq(S) /\ Len(p) = i - 1 /\ \A j \in 1..(i - 1) : p[j] = s[j]
    BY <1>1, SubSeqProperties
  <1>3. q \in Seq(S) /\ Len(q) = Len(s) - i /\ \A j \in 1..(Len(s) - i) : q[j] = s[i + j]
    BY <1>1, SubSeqProperties
  <1>4. RemoveAt(s, i) = p \o q
    BY DEF RemoveAt
  <1> HIDE DEF p, q
  <1>5. /\ p \o q \in Seq(S) /\ Len(p \o q) = Len(s) - 1
        /\ \A j \in 1..(Len(s) - 1) : (p \o q)[j] = IF j <= Len(p) THEN p[j] ELSE q[j - Len(p)]
    <2>1. Len(p) + Len(q) = Len(s) - 1
      BY <1>1, <1>2, <1>3
    <2>2. p \in Seq(S) /\ q \in Seq(S)
      BY <1>2, <1>3
    <2>3. /\ p \o q \in Seq(S) /\ Len(p \o q) = Len(p) + Len(q)
          /\ \A j \in 1..(Len(p) + Len(q)) :
               (p \o q)[j] = IF j <= Len(p) THEN p[j] ELSE q[j - Len(p)]
      BY <2>2, ConcatProperties
    <2> QED
      BY <2>1, <2>3
  <1>6. ASSUME NEW j \in 1..(Len(s) - 1)
        PROVE  (p \o q)[j] = IF j < i THEN s[j] ELSE s[j + 1]
    <2>1. CASE j < i
      BY <1>1, <1>2, <1>5, <2>1
    <2>2. CASE ~(j < i)
      <3>1. ~(j <= i - 1) /\ j - (i - 1) \in 1..(Len(s) - i)
        BY <1>1, <2>2
      <3>2. (p \o q)[j] = q[j - (i - 1)] /\ j - (i - 1) \in 1..(Len(s) - i)
        BY <1>2, <1>5, <3>1
      <3>3. q[j - (i - 1)] = s[i + (j - (i - 1))] /\ i + (j - (i - 1)) = j + 1
        BY <1>1, <1>3, <3>2
      <3> QED
        BY <2>2, <3>2, <3>3
    <2> QED
      BY <2>1, <2>2
  <1> QED
    BY <1>4, <1>5, <1>6

\* r is s with e put in at place i.
IsInsertion(r, s, i, e) ==
  /\ Len(r) = Len(s) + 1
  /\ \A j \in 1..(Len(s) + 1) : r[j] = IF j < i THEN s[j] ELSE IF j = i THEN e ELSE s[j - 1]

LEMMA InsertAtIs ==
  ASSUME NEW S, NEW s \in Seq(S), NEW i \in 1..(Len(s) + 1), NEW e \in S
  PROVE  InsertAt(s, i, e) \in Seq(S) /\ IsInsertion(InsertAt(s, i, e), s, i, e)
  <1> DEFINE p == SubSeq(s, 1, i - 1)
             q == SubSeq(s, i, Len(s))
             o == <<e>>
  <1>1. Len(s) \in Nat /\ \A j \in 1..Len(s) : s[j] \in S
    BY LenProperties, ElementOfSeq
  <1>2. p \in Seq(S) /\ Len(p) = i - 1 /\ \A j \in 1..(i - 1) : p[j] = s[j]
    BY <1>1, SubSeqProperties
  <1>3. q \in Seq(S) /\ Len(q) = Len(s) - i + 1
    BY <1>1, SubSeqProperties
  <1>4. \A j \in 1..(Len(s) - i + 1) : q[j] = s[i + j - 1]
    BY <1>1, SubSeqProperties
  <1>5. InsertAt(s, i, e) = (p \o o) \o q
    BY DEF InsertAt
  <1>6. o \in Seq(S) /\ Len(o) = 1 /\ o[1] = e
    OBVIOUS
  <1> HIDE DEF p, q, o
  <1>7. p \o o \in Seq(S) /\ Len(p \o o) = i /\ \A j \in 1..i : (p \o o)[j] = IF j < i THEN s[j] ELSE e
    <2>1. Len(p) + Len(o) = i
      BY <1>1, <1>2, <1>6
    <2>2. /\ p \o o \in Seq(S) /\ Len(p \o o) = i
          /\ \A j \in 1..i : (p \o o)[j] = IF j <= Len(p) THEN p[j] ELSE o[j - Len(p)]
      <3>1. p \in Seq(S) /\ o \in Seq(S)
        BY <1>2, <1>6
      <3>2. /\ p \o o \in Seq(S) /\ Len(p \o o) = Len(p) + Len(o)
            /\ \A j \in 1..(Len(p) + Len(o)) :
                 (p \o o)[j] = IF j <= Len(p) THEN p[j] ELSE o[j - Len(p)]
        BY <3>1, ConcatProperties
      <3> QED
        BY <2>1, <3>2
    <2>3. ASSUME NEW j \in 1..i PROVE (p \o o)[j] = IF j < i THEN s[j] ELSE e
      <3>1. CASE j < i
        BY <1>1, <1>2, <2>2, <3>1
      <3>2. CASE ~(j < i)
        <4>1. j = i /\ j - (i - 1) = 1 /\ ~(j <= i - 1)
          BY <1>1, <3>2
        <4> QED
          BY <1>2, <1>6, <2>2, <4>1
      <3> QED
        BY <3>1, <3>2
    <2> QED
      BY <2>2, <2>3
  <1>8. /\ (p \o o) \o q \in Seq(S) /\ Len((p \o o) \o q) = Len(s) + 1
        /\ \A j \in 1..(Len(s) + 1) : ((p \o o) \o q)[j] = IF j <= Len(p \o o) THEN (p \o o)[j] ELSE q[j - Len(p \o o)]
    <2>1. Len(p \o o) + Len(q) = Len(s) + 1
      BY <1>1, <1>3, <1>7
    <2>2. (p \o o) \in Seq(S) /\ q \in Seq(S)
      BY <1>3, <1>7
    <2>3. /\ (p \o o) \o q \in Seq(S) /\ Len((p \o o) \o q) = Len((p \o o)) + Len(q)
          /\ \A j \in 1..(Len((p \o o)) + Len(q)) :
               ((p \o o) \o q)[j] = IF j <= Len((p \o o)) THEN (p \o o)[j] ELSE q[j - Len((p \o o))]
      BY <2>2, ConcatProperties
    <2> QED
      BY <2>1, <2>3
  <1>9. ASSUME NEW j \in 1..(Len(s) + 1)
        PROVE  ((p \o o) \o q)[j] = IF j < i THEN s[j] ELSE IF j = i THEN e ELSE s[j - 1]
    <2>1. CASE j <= i
      BY <1>1, <1>7, <1>8, <2>1
    <2>2. CASE ~(j <= i)
      <3>1. ((p \o o) \o q)[j] = q[j - i] /\ j - i \in 1..(Len(s) - i + 1)
        BY <1>1, <1>7, <1>8, <2>2
      <3>2. q[j - i] = s[i + (j - i) - 1] /\ i + (j - i) - 1 = j - 1
        BY <1>1, <1>4, <3>1
      <3> QED
        BY <1>1, <2>2, <3>1, <3>2
    <2> QED
      BY <2>1, <2>2
  <1> QED
    BY <1>5, <1>8, <1>9 DEF IsInsertion

-----------------------------------------------------------------------------
(* Sums over a finite set.                                                *)

\* The element that the recursion takes out of s.
Pick(s) == CHOOSE x \in s : TRUE
Rest(s) == s \ {Pick(s)}

IsSumOn(g, f, S) ==
  g = [s \in SUBSET S |-> IF s = {} THEN 0 ELSE f[Pick(s)] + g[s \ {Pick(s)}]]

Sums(f, S) == CHOOSE g : IsSumOn(g, f, S)

LEMMA SumUnfolded ==
  ASSUME NEW f, NEW S
  PROVE  SumFunctionOnSet(f, S) = Sums(f, S)[S]
  BY DEF SumFunctionOnSet, FoldFunctionOnSet, MapThenFoldSet, Sums, IsSumOn, Pick

LEMMA SmallestSubset ==
  ASSUME NEW S, IsFiniteSet(S), NEW D, D \subseteq SUBSET S, D # {}
  PROVE  \E M \in D : \A T \in D : ~(T \subseteq M /\ T # M)
  <1>1. IsWellFoundedOn(StrictSubsetOrdering(S), SUBSET S)
    BY FS_StrictSubsetOrderingWellFounded, FS_FiniteSubsetsOfFinite
  <1>2. PICK M \in D : \A T \in D : <<T, M>> \notin StrictSubsetOrdering(S)
    BY <1>1, WFMin
  <1>3. ASSUME NEW T \in D, T \subseteq M, T # M PROVE FALSE
    BY <1>2, <1>3 DEF StrictSubsetOrdering
  <1> QED
    BY <1>2, <1>3

(* Induction on the subsets of a finite set, the induction hypothesis being *)
(* given as the set P of the subsets it holds for.                          *)
LEMMA SubsetInduction ==
  ASSUME NEW S, IsFiniteSet(S), NEW P,
         \A s \in SUBSET S : (\A u \in SUBSET s : u # s => u \in P) => s \in P
  PROVE  S \in P
  <1> DEFINE D == {s \in SUBSET S : s \notin P}
  <1>1. D \subseteq SUBSET S
    OBVIOUS
  <1>2. \A s \in SUBSET S : (s \in D => s \notin P) /\ (s \notin P => s \in D)
    OBVIOUS
  <1> HIDE DEF D
  <1>3. ASSUME D # {} PROVE FALSE
    <2>1. PICK M \in D : \A T \in D : ~(T \subseteq M /\ T # M)
      BY <1>1, <1>3, SmallestSubset
    <2>2. M \in SUBSET S /\ M \notin P
      BY <2>1, <1>1, <1>2
    <2>3. \A u \in SUBSET M : u # M => u \in P
      BY <2>1, <2>2, <1>2
    <2> QED
      BY <2>2, <2>3
  <1> QED
    BY <1>2, <1>3

LEMMA PickIn ==
  ASSUME NEW s, s # {}
  PROVE  Pick(s) \in s /\ Rest(s) \subseteq s /\ Rest(s) # s
  BY DEF Pick, Rest

LEMMA SumStep ==
  ASSUME NEW g, NEW f, NEW S, IsSumOn(g, f, S), NEW s, s \subseteq S
  PROVE  /\ s = {} => g[s] = 0
         /\ s # {} => g[s] = f[Pick(s)] + g[Rest(s)]
  BY DEF IsSumOn, Rest

\* Two functions that satisfy the recursion agree where both are defined.
LEMMA SumsAgree ==
  ASSUME NEW f, NEW S, NEW T, IsFiniteSet(S), NEW g, NEW h, IsSumOn(g, f, S), IsSumOn(h, f, T),
         T \subseteq S
  PROVE  \A s \in SUBSET T : g[s] = h[s]
  <1> DEFINE D == {s \in SUBSET T : g[s] # h[s]}
  <1> SUFFICES ASSUME D # {} PROVE FALSE
    OBVIOUS
  <1>1. IsFiniteSet(T) /\ D \subseteq SUBSET T
    BY FS_Subset
  <1>a. \A s \in D : s \in SUBSET T /\ g[s] # h[s]
    OBVIOUS
  <1>b. \A s \in SUBSET T : g[s] # h[s] => s \in D
    OBVIOUS
  <1> HIDE DEF D
  <1>2. PICK s \in D : \A u \in D : ~(u \subseteq s /\ u # s)
    BY <1>1, SmallestSubset
  <1>3. s \subseteq S /\ s \subseteq T /\ g[s] # h[s]
    BY <1>2, <1>a
  <1>4. s # {}
    BY <1>3, SumStep
  <1>5. Rest(s) \in SUBSET T /\ Rest(s) \subseteq s /\ Rest(s) # s
    BY <1>3, <1>4, PickIn
  <1>6. g[Rest(s)] = h[Rest(s)]
    BY <1>2, <1>5, <1>b
  <1> QED
    BY <1>3, <1>4, <1>6, SumStep

LEMMA SumsExist ==
  ASSUME NEW f, NEW S, IsFiniteSet(S)
  PROVE  IsSumOn(Sums(f, S), f, S)
  <1> DEFINE D == {T \in SUBSET S : ~ \E g : IsSumOn(g, f, T)}
  <1>a. D \subseteq SUBSET S /\ \A T \in D : ~ \E g : IsSumOn(g, f, T)
    OBVIOUS
  <1>b. \A T \in SUBSET S : T \notin D => \E g : IsSumOn(g, f, T)
    OBVIOUS
  <1> HIDE DEF D
  <1>1. ASSUME D # {} PROVE FALSE
    <2>1. PICK M \in D : \A u \in D : ~(u \subseteq M /\ u # M)
      BY <1>1, <1>a, SmallestSubset
    <2>2. M \subseteq S /\ IsFiniteSet(M)
      BY <2>1, <1>a, FS_Subset
    <2>3. ASSUME NEW u, u \subseteq M, u # M PROVE IsSumOn(Sums(f, u), f, u)
      <3>1. u \notin D /\ u \in SUBSET S
        BY <2>1, <2>2, <2>3
      <3>2. \E g : IsSumOn(g, f, u)
        BY <3>1, <1>b
      <3> QED
        BY <3>2 DEF Sums
    <2> DEFINE G == [s \in SUBSET M |-> IF s = {} THEN 0
                                        ELSE f[Pick(s)] + Sums(f, Rest(s))[Rest(s)]]
    <2>4. ASSUME NEW s, s \subseteq M, s # {}
          PROVE  G[Rest(s)] = Sums(f, Rest(s))[Rest(s)]
      <3>1. Rest(s) \subseteq M /\ Rest(s) # M
        BY <2>4, PickIn
      <3>2. IsFiniteSet(Rest(s)) /\ IsSumOn(Sums(f, Rest(s)), f, Rest(s))
        BY <2>2, <2>3, <3>1, FS_Subset
      <3>3. CASE Rest(s) = {}
        BY <3>1, <3>2, <3>3, SumStep
      <3>4. CASE Rest(s) # {}
        <4>1. Rest(Rest(s)) \subseteq Rest(s) /\ Rest(Rest(s)) # M
          BY <3>1, <3>4, PickIn
        <4>2. IsSumOn(Sums(f, Rest(Rest(s))), f, Rest(Rest(s)))
          BY <2>3, <3>1, <4>1
        <4>3. Sums(f, Rest(s))[Rest(Rest(s))] = Sums(f, Rest(Rest(s)))[Rest(Rest(s))]
          BY <3>2, <4>1, <4>2, SumsAgree
        <4>4. Sums(f, Rest(s))[Rest(s)] = f[Pick(Rest(s))] + Sums(f, Rest(s))[Rest(Rest(s))]
          BY <3>2, <3>4, SumStep
        <4> QED
          BY <3>1, <3>4, <4>3, <4>4
      <3> QED
        BY <3>3, <3>4
    <2>5. \A s \in SUBSET M : G[s] = IF s = {} THEN 0 ELSE f[Pick(s)] + G[Rest(s)]
      BY <2>4
    <2>6. DOMAIN G = SUBSET M /\ G = [s \in SUBSET M |-> G[s]]
      OBVIOUS
    <2> HIDE DEF G
    <2>7. IsSumOn(G, f, M)
      BY <2>5, <2>6 DEF IsSumOn, Rest
    <2> QED
      BY <2>1, <2>7, <1>a
  <1>2. \E g : IsSumOn(g, f, S)
    BY <1>1, <1>b
  <1> QED
    BY <1>2 DEF Sums
-----------------------------------------------------------------------------
(* The recursion, for SumFunctionOnSet itself.                             *)

LEMMA SumEmpty ==
  ASSUME NEW f
  PROVE  SumFunctionOnSet(f, {}) = 0
  BY FS_EmptySet, SumUnfolded, SumsExist, SumStep

LEMMA SumPick ==
  ASSUME NEW f, NEW S, IsFiniteSet(S), S # {}
  PROVE  SumFunctionOnSet(f, S) = f[Pick(S)] + SumFunctionOnSet(f, Rest(S))
  <1>1. Rest(S) \subseteq S /\ IsFiniteSet(Rest(S))
    BY PickIn, FS_Subset
  <1>2. IsSumOn(Sums(f, S), f, S) /\ IsSumOn(Sums(f, Rest(S)), f, Rest(S))
    BY <1>1, SumsExist
  <1>3. Sums(f, S)[S] = f[Pick(S)] + Sums(f, S)[Rest(S)]
    BY <1>2, SumStep
  <1>4. Sums(f, S)[Rest(S)] = Sums(f, Rest(S))[Rest(S)]
    BY <1>1, <1>2, SumsAgree
  <1> QED
    BY <1>3, <1>4, SumUnfolded

\* A sum of integers is an integer, a sum of naturals a natural.
LEMMA SumInt ==
  ASSUME NEW f, NEW S, IsFiniteSet(S), \A x \in S : f[x] \in Int
  PROVE  SumFunctionOnSet(f, S) \in Int
  <1> DEFINE P == {s \in SUBSET S : SumFunctionOnSet(f, s) \in Int}
  <1>1. ASSUME NEW s \in SUBSET S, \A u \in SUBSET s : u # s => u \in P
        PROVE  s \in P
    <2>1. CASE s = {}
      BY <2>1, SumEmpty
    <2>2. CASE s # {}
      <3>1. Rest(s) \in P /\ Pick(s) \in S /\ IsFiniteSet(s)
        BY <1>1, <2>2, PickIn, FS_Subset
      <3> QED
        BY <2>2, <3>1, SumPick
    <2> QED
      BY <2>1, <2>2
  <1>2. S \in P
    <2> HIDE DEF P
    <2> QED
      BY <1>1, SubsetInduction
  <1> QED
    BY <1>2

LEMMA SumNat ==
  ASSUME NEW f, NEW S, IsFiniteSet(S), \A x \in S : f[x] \in Nat
  PROVE  SumFunctionOnSet(f, S) \in Nat
  <1> DEFINE P == {s \in SUBSET S : SumFunctionOnSet(f, s) \in Nat}
  <1>1. ASSUME NEW s \in SUBSET S, \A u \in SUBSET s : u # s => u \in P
        PROVE  s \in P
    <2>1. CASE s = {}
      BY <2>1, SumEmpty
    <2>2. CASE s # {}
      <3>1. Rest(s) \in P /\ Pick(s) \in S /\ IsFiniteSet(s)
        BY <1>1, <2>2, PickIn, FS_Subset
      <3> QED
        BY <2>2, <3>1, SumPick
    <2> QED
      BY <2>1, <2>2
  <1>2. S \in P
    <2> HIDE DEF P
    <2> QED
      BY <1>1, SubsetInduction
  <1> QED
    BY <1>2

\* Any element may be taken out first.
LEMMA SumRemove ==
  ASSUME NEW f, NEW S, IsFiniteSet(S), \A x \in S : f[x] \in Int
  PROVE  \A e \in S : SumFunctionOnSet(f, S) = f[e] + SumFunctionOnSet(f, S \ {e})
  <1> DEFINE Splits(s) == \A e \in s : SumFunctionOnSet(f, s) = f[e] + SumFunctionOnSet(f, s \ {e})
             P == {s \in SUBSET S : Splits(s)}
  <1>1. ASSUME NEW s \in SUBSET S, \A u \in SUBSET s : u # s => u \in P, NEW e \in s
        PROVE  SumFunctionOnSet(f, s) = f[e] + SumFunctionOnSet(f, s \ {e})
    <2> DEFINE p == Pick(s)
    <2>1. IsFiniteSet(s) /\ p \in s /\ SumFunctionOnSet(f, s) = f[p] + SumFunctionOnSet(f, s \ {p})
      BY FS_Subset, PickIn, SumPick DEF Rest
    <2> HIDE DEF p
    <2>2. CASE e = p
      BY <2>1, <2>2
    <2>3. CASE e # p
      <3>1. Splits(s \ {p}) /\ Splits(s \ {e})
        BY <1>1, <2>1
      <3>2. (s \ {e}) \ {p} = (s \ {p}) \ {e}
        OBVIOUS
      <3>3. /\ SumFunctionOnSet(f, s \ {p}) = f[e] + SumFunctionOnSet(f, (s \ {p}) \ {e})
            /\ SumFunctionOnSet(f, s \ {e}) = f[p] + SumFunctionOnSet(f, (s \ {p}) \ {e})
        BY <2>1, <2>3, <3>1, <3>2
      <3>4. SumFunctionOnSet(f, (s \ {p}) \ {e}) \in Int /\ f[p] \in Int /\ f[e] \in Int
        BY <2>1, FS_Subset, SumInt
      <3> QED
        BY <2>1, <3>3, <3>4
    <2> QED
      BY <2>2, <2>3
  <1>2. S \in P
    <2>1. ASSUME NEW s \in SUBSET S, \A u \in SUBSET s : u # s => u \in P
          PROVE  s \in P
      BY <1>1, <2>1
    <2> HIDE DEF P
    <2> QED
      BY <2>1, SubsetInduction
  <1> QED
    BY <1>2

\* The sum depends on the values over the set only.
LEMMA SumSame ==
  ASSUME NEW f, NEW g, NEW S, IsFiniteSet(S), \A x \in S : f[x] = g[x]
  PROVE  SumFunctionOnSet(f, S) = SumFunctionOnSet(g, S)
  <1> DEFINE P == {s \in SUBSET S : SumFunctionOnSet(f, s) = SumFunctionOnSet(g, s)}
  <1>1. ASSUME NEW s \in SUBSET S, \A u \in SUBSET s : u # s => u \in P
        PROVE  s \in P
    <2>1. CASE s = {}
      BY <2>1, SumEmpty
    <2>2. CASE s # {}
      <3>1. Rest(s) \in P /\ Pick(s) \in S /\ IsFiniteSet(s)
        BY <1>1, <2>2, PickIn, FS_Subset
      <3> QED
        BY <2>2, <3>1, SumPick
    <2> QED
      BY <2>1, <2>2
  <1>2. S \in P
    <2> HIDE DEF P
    <2> QED
      BY <1>1, SubsetInduction
  <1> QED
    BY <1>2

\* One value changes, and the sum by the difference.
LEMMA SumUpdate ==
  ASSUME NEW f, NEW g, NEW S, IsFiniteSet(S), NEW e \in S,
         \A x \in S : f[x] \in Int /\ g[x] \in Int,
         \A x \in S \ {e} : g[x] = f[x]
  PROVE  SumFunctionOnSet(g, S) = SumFunctionOnSet(f, S) - f[e] + g[e]
  <1>1. IsFiniteSet(S \ {e})
    BY FS_Subset
  <1>2. SumFunctionOnSet(g, S \ {e}) = SumFunctionOnSet(f, S \ {e})
    BY <1>1, SumSame
  <1>3. SumFunctionOnSet(f, S \ {e}) \in Int
    BY <1>1, SumInt
  <1>4. /\ SumFunctionOnSet(f, S) = f[e] + SumFunctionOnSet(f, S \ {e})
        /\ SumFunctionOnSet(g, S) = g[e] + SumFunctionOnSet(g, S \ {e})
    BY SumRemove
  <1> QED
    BY <1>2, <1>3, <1>4

\* The sum of a function that is zero.
LEMMA SumZero ==
  ASSUME NEW f, NEW S, IsFiniteSet(S), \A x \in S : f[x] = 0
  PROVE  SumFunctionOnSet(f, S) = 0
  <1> DEFINE P == {s \in SUBSET S : SumFunctionOnSet(f, s) = 0}
  <1>1. ASSUME NEW s \in SUBSET S, \A u \in SUBSET s : u # s => u \in P
        PROVE  s \in P
    <2>1. CASE s = {}
      BY <2>1, SumEmpty
    <2>2. CASE s # {}
      <3>1. Rest(s) \in P /\ Pick(s) \in S /\ IsFiniteSet(s)
        BY <1>1, <2>2, PickIn, FS_Subset
      <3> QED
        BY <2>2, <3>1, SumPick
    <2> QED
      BY <2>1, <2>2
  <1>2. S \in P
    <2> HIDE DEF P
    <2> QED
      BY <1>1, SubsetInduction
  <1> QED
    BY <1>2

LEMMA SumPlus ==
  ASSUME NEW f, NEW g, NEW h, NEW S, IsFiniteSet(S),
         \A x \in S : f[x] \in Int /\ g[x] \in Int /\ h[x] = f[x] + g[x]
  PROVE  SumFunctionOnSet(h, S) = SumFunctionOnSet(f, S) + SumFunctionOnSet(g, S)
  <1> DEFINE Adds(s) == SumFunctionOnSet(h, s) = SumFunctionOnSet(f, s) + SumFunctionOnSet(g, s)
             P == {s \in SUBSET S : Adds(s)}
  <1>1. ASSUME NEW s \in SUBSET S, \A u \in SUBSET s : u # s => u \in P
        PROVE  s \in P
    <2>1. CASE s = {}
      BY <2>1, SumEmpty
    <2>2. CASE s # {}
      <3>1. Rest(s) \in P /\ Pick(s) \in S /\ IsFiniteSet(s) /\ IsFiniteSet(Rest(s)) /\ Rest(s) \subseteq S
        BY <1>1, <2>2, PickIn, FS_Subset
      <3>2. SumFunctionOnSet(f, Rest(s)) \in Int /\ SumFunctionOnSet(g, Rest(s)) \in Int
        BY <3>1, SumInt
      <3>3. SumFunctionOnSet(h, Rest(s)) = SumFunctionOnSet(f, Rest(s)) + SumFunctionOnSet(g, Rest(s))
        BY <3>1
      <3>4. /\ SumFunctionOnSet(f, s) = f[Pick(s)] + SumFunctionOnSet(f, Rest(s))
            /\ SumFunctionOnSet(g, s) = g[Pick(s)] + SumFunctionOnSet(g, Rest(s))
            /\ SumFunctionOnSet(h, s) = h[Pick(s)] + SumFunctionOnSet(h, Rest(s))
        BY <2>2, <3>1, SumPick
      <3>5. Adds(s)
        BY <3>1, <3>2, <3>3, <3>4
      <3> QED
        BY <3>5
    <2> QED
      BY <2>1, <2>2
  <1>2. S \in P
    <2> HIDE DEF P
    <2> QED
      BY <1>1, SubsetInduction
  <1> QED
    BY <1>2

\* A larger value at each element gives a larger sum.
LEMMA SumMonotone ==
  ASSUME NEW f, NEW g, NEW S, IsFiniteSet(S),
         \A x \in S : f[x] \in Int /\ g[x] \in Int /\ f[x] <= g[x]
  PROVE  SumFunctionOnSet(f, S) <= SumFunctionOnSet(g, S)
  <1> DEFINE P == {s \in SUBSET S : SumFunctionOnSet(f, s) <= SumFunctionOnSet(g, s)}
  <1>1. ASSUME NEW s \in SUBSET S, \A u \in SUBSET s : u # s => u \in P
        PROVE  s \in P
    <2>1. CASE s = {}
      BY <2>1, SumEmpty
    <2>2. CASE s # {}
      <3>1. Rest(s) \in P /\ Pick(s) \in S /\ IsFiniteSet(s) /\ IsFiniteSet(Rest(s)) /\ Rest(s) \subseteq S
        BY <1>1, <2>2, PickIn, FS_Subset
      <3>2. SumFunctionOnSet(f, Rest(s)) \in Int /\ SumFunctionOnSet(g, Rest(s)) \in Int
        BY <3>1, SumInt
      <3>3. SumFunctionOnSet(f, Rest(s)) <= SumFunctionOnSet(g, Rest(s))
        BY <3>1
      <3>4. /\ SumFunctionOnSet(f, s) = f[Pick(s)] + SumFunctionOnSet(f, Rest(s))
            /\ SumFunctionOnSet(g, s) = g[Pick(s)] + SumFunctionOnSet(g, Rest(s))
        BY <2>2, <3>1, SumPick
      <3>5. SumFunctionOnSet(f, s) <= SumFunctionOnSet(g, s)
        BY <3>1, <3>2, <3>3, <3>4
      <3> QED
        BY <3>5
    <2> QED
      BY <2>1, <2>2
  <1>2. S \in P
    <2> HIDE DEF P
    <2> QED
      BY <1>1, SubsetInduction
  <1> QED
    BY <1>2

\* A common factor of all terms is one of the sum.
LEMMA SumScaled ==
  ASSUME NEW f, NEW g, NEW k \in Int, NEW S, IsFiniteSet(S),
         \A x \in S : f[x] \in Int /\ g[x] = k * f[x]
  PROVE  SumFunctionOnSet(g, S) = k * SumFunctionOnSet(f, S)
  <1> DEFINE Scales(s) == SumFunctionOnSet(g, s) = k * SumFunctionOnSet(f, s)
             P == {s \in SUBSET S : Scales(s)}
  <1>1. ASSUME NEW s \in SUBSET S, \A u \in SUBSET s : u # s => u \in P
        PROVE  s \in P
    <2>1. CASE s = {}
      <3>1. SumFunctionOnSet(g, s) = 0 /\ SumFunctionOnSet(f, s) = 0
        BY <2>1, SumEmpty
      <3>2. Scales(s)
        BY <3>1, ProductOverSum
      <3> QED
        BY <3>2
    <2>2. CASE s # {}
      <3>1. Rest(s) \in P /\ Pick(s) \in S /\ IsFiniteSet(s) /\ IsFiniteSet(Rest(s)) /\ Rest(s) \subseteq S
        BY <1>1, <2>2, PickIn, FS_Subset
      <3>2. SumFunctionOnSet(f, Rest(s)) \in Int /\ f[Pick(s)] \in Int
        BY <3>1, SumInt
      <3>3. SumFunctionOnSet(g, Rest(s)) = k * SumFunctionOnSet(f, Rest(s))
        BY <3>1
      <3>4. /\ SumFunctionOnSet(f, s) = f[Pick(s)] + SumFunctionOnSet(f, Rest(s))
            /\ SumFunctionOnSet(g, s) = g[Pick(s)] + SumFunctionOnSet(g, Rest(s))
        BY <2>2, <3>1, SumPick
      <3>5. g[Pick(s)] = k * f[Pick(s)]
        BY <3>1
      <3>6. Scales(s)
        BY <3>2, <3>3, <3>4, <3>5, ProductOverSum
      <3> QED
        BY <3>6
    <2> QED
      BY <2>1, <2>2
  <1>2. S \in P
    <2> HIDE DEF P
    <2> QED
      BY <1>1, SubsetInduction
  <1> QED
    BY <1>2

\* A table of numbers adds up to the same by its rows and by its columns.
LEMMA SumSwap ==
  ASSUME NEW S, NEW T, IsFiniteSet(S), IsFiniteSet(T), NEW F,
         \A x \in S : \A y \in T : F[x][y] \in Int
  PROVE  SumFunctionOnSet([x \in S |-> SumFunctionOnSet(F[x], T)], S)
           = SumFunctionOnSet([y \in T |-> SumFunctionOnSet([x \in S |-> F[x][y]], S)], T)
  <1> DEFINE rows == [x \in S |-> SumFunctionOnSet(F[x], T)]
             column(y) == [x \in S |-> F[x][y]]
             columns(s) == [y \in T |-> SumFunctionOnSet(column(y), s)]
             Same(s) == SumFunctionOnSet(rows, s) = SumFunctionOnSet(columns(s), T)
             P == {s \in SUBSET S : Same(s)}
  <1>1. ASSUME NEW s \in SUBSET S, \A u \in SUBSET s : u # s => u \in P
        PROVE  s \in P
    <2>1. CASE s = {}
      <3>1. \A y \in T : columns(s)[y] = 0
        BY <2>1, SumEmpty
      <3>2. SumFunctionOnSet(columns(s), T) = 0
        <4> HIDE DEF columns
        <4> QED
          BY <3>1, SumZero
      <3>3. SumFunctionOnSet(rows, s) = 0
        BY <2>1, SumEmpty
      <3> QED
        BY <3>2, <3>3
    <2>2. CASE s # {}
      <3> DEFINE e == Pick(s)
                 r == Rest(s)
      <3>1. r \in P /\ e \in S /\ IsFiniteSet(s) /\ IsFiniteSet(r) /\ r \subseteq S
        BY <1>1, <2>2, PickIn, FS_Subset
      <3>2. SumFunctionOnSet(rows, s) = rows[e] + SumFunctionOnSet(rows, r)
        BY <2>2, <3>1, SumPick
      <3>3. SumFunctionOnSet(rows, r) = SumFunctionOnSet(columns(r), T)
        BY <3>1
      <3>4. rows[e] = SumFunctionOnSet(F[e], T)
        BY <3>1
      <3>5. ASSUME NEW y \in T
            PROVE  F[e][y] \in Int /\ columns(r)[y] \in Int /\ columns(s)[y] = F[e][y] + columns(r)[y]
        <4>1. columns(s)[y] = SumFunctionOnSet(column(y), s) /\ columns(r)[y] = SumFunctionOnSet(column(y), r)
          OBVIOUS
        <4>2. column(y)[e] = F[e][y] /\ F[e][y] \in Int /\ \A x \in r : column(y)[x] \in Int
          BY <3>1
        <4> HIDE DEF column, columns
        <4>3. SumFunctionOnSet(column(y), s) = column(y)[e] + SumFunctionOnSet(column(y), r)
          BY <2>2, <3>1, SumPick
        <4>4. SumFunctionOnSet(column(y), r) \in Int
          BY <3>1, <4>2, SumInt
        <4> QED
          BY <4>1, <4>2, <4>3, <4>4
      <3>6. SumFunctionOnSet(columns(s), T) = SumFunctionOnSet(F[e], T) + SumFunctionOnSet(columns(r), T)
        <4> HIDE DEF columns, e, r
        <4> QED
          BY <3>5, SumPlus
      <3>7. Same(s)
        <4> HIDE DEF columns, rows, e, r
        <4> QED
          BY <3>2, <3>3, <3>4, <3>6
      <3> QED
        BY <3>7
    <2> QED
      BY <2>1, <2>2
  <1>2. S \in P
    <2> HIDE DEF P
    <2> QED
      BY <1>1, SubsetInduction
  <1>3. Same(S)
    BY <1>2
  <1> QED
    BY <1>3

\* Counting the elements of R one by one.
LEMMA SumOfOnes ==
  ASSUME NEW S, IsFiniteSet(S), NEW R, R \subseteq S, NEW f,
         \A x \in S : f[x] = IF x \in R THEN 1 ELSE 0
  PROVE  SumFunctionOnSet(f, S) = Cardinality(R)
  <1> DEFINE P == {s \in SUBSET S : SumFunctionOnSet(f, s) = Cardinality(s \cap R)}
  <1>1. ASSUME NEW s \in SUBSET S, \A u \in SUBSET s : u # s => u \in P
        PROVE  s \in P
    <2>1. CASE s = {}
      <3>1. s \cap R = {}
        BY <2>1
      <3> QED
        BY <2>1, <3>1, SumEmpty, FS_EmptySet
    <2>2. CASE s # {}
      <3> DEFINE e == Pick(s)
                 r == Rest(s)
      <3>1. r \in P /\ e \in s /\ e \in S /\ IsFiniteSet(s) /\ r \subseteq s /\ r = s \ {e}
        BY <1>1, <2>2, PickIn, FS_Subset DEF Rest
      <3>2. SumFunctionOnSet(f, s) = f[e] + SumFunctionOnSet(f, r)
        BY <2>2, <3>1, SumPick
      <3>3. SumFunctionOnSet(f, r) = Cardinality(r \cap R)
        BY <3>1
      <3>4. IsFiniteSet(r \cap R) /\ Cardinality(r \cap R) \in Nat
        BY <3>1, FS_Subset, FS_CardinalityType
      <3> HIDE DEF e, r, P
      <3>5. SumFunctionOnSet(f, s) = Cardinality(s \cap R)
        <4>1. CASE e \in R
          <5>1. s \cap R = (r \cap R) \cup {e} /\ e \notin r \cap R
            BY <3>1, <4>1
          <5>2. Cardinality(s \cap R) = Cardinality(r \cap R) + 1
            BY <3>4, <5>1, FS_AddElement
          <5>3. f[e] = 1
            BY <3>1, <4>1
          <5> QED
            BY <3>2, <3>3, <3>4, <5>2, <5>3
        <4>2. CASE e \notin R
          <5>1. s \cap R = r \cap R
            BY <3>1, <4>2
          <5>2. f[e] = 0
            BY <3>1, <4>2
          <5>3. Cardinality(s \cap R) = Cardinality(r \cap R)
            BY <5>1
          <5> QED
            BY <3>2, <3>3, <3>4, <5>2, <5>3
        <4> QED
          BY <4>1, <4>2
      <3> QED
        BY <3>5 DEF P
    <2> QED
      BY <2>1, <2>2
  <1>2. S \in P
    <2> HIDE DEF P
    <2> QED
      BY <1>1, SubsetInduction
  <1>3. S \cap R = R
    OBVIOUS
  <1> QED
    BY <1>2, <1>3
-----------------------------------------------------------------------------
(* Sets of naturals with a bound.                                         *)

\* The largest member of a set of naturals that has a bound.
LEMMA LargestNat ==
  ASSUME NEW N \in Nat, NEW S, S \subseteq 1..N, S # {}
  PROVE  \E m \in S : \A x \in S : x <= m
<1> DEFINE Above(m) == {x \in 1..N : x > m}
           D == {Above(m) : m \in S}
<1>1. PICK I : I = 1..N
  OBVIOUS
<1>2. \E M \in D : \A T \in D : ~(T \subseteq M /\ T # M)
  <2>1. IsFiniteSet(I)
    BY <1>1, FS_Interval
  <2>2. D \subseteq SUBSET I /\ D # {}
    BY <1>1
  <2> HIDE DEF D, Above
  <2> QED
    BY <2>1, <2>2, SmallestSubset
<1>3. PICK m \in S : \A T \in D : ~(T \subseteq Above(m) /\ T # Above(m))
  BY <1>2
<1>4. ASSUME NEW x \in S, ~(x <= m) PROVE FALSE
  <2>1. x \in 1..N /\ m \in 1..N /\ x > m
    BY <1>4
  <2>2. Above(x) \in D /\ Above(x) \subseteq Above(m) /\ x \in Above(m) /\ x \notin Above(x)
    BY <2>1
  <2> QED
    BY <1>3, <2>2
<1> QED
  BY <1>4

LEMMA SmallestNat ==
  ASSUME NEW N \in Nat, NEW S, S \subseteq 1..N, S # {}
  PROVE  \E m \in S : \A x \in S : m <= x
<1> DEFINE R == {N + 1 - x : x \in S}
<1>a. \A x \in S : x \in Int /\ N + 1 - x \in 1..N
  OBVIOUS
<1>1. R \subseteq 1..N /\ R # {}
  BY <1>a
<1>2. PICK m \in R : \A x \in R : x <= m
  <2> HIDE DEF R
  <2> QED
    BY <1>1, LargestNat
<1>3. PICK l \in S : m = N + 1 - l
  BY <1>2
<1>4. ASSUME NEW x \in S PROVE l <= x
  <2>1. N + 1 - x \in R
    OBVIOUS
  <2>2. N + 1 - x <= N + 1 - l /\ x \in Int /\ l \in Int
    BY <1>2, <1>3, <2>1
  <2> QED
    BY <2>2
<1> QED
  BY <1>4

\* From i up to the first member of Stop, N + 1 if there is none.
ScansUp(F, N, Stop) ==
  /\ F[N + 1] = N + 1
  /\ \A i \in 1..N : F[i] \in 1..(N + 1) /\ F[i] = IF i \in Stop THEN i ELSE F[i + 1]

LEMMA ScanUp ==
  ASSUME NEW N \in Nat, NEW Stop, Stop \subseteq 1..N
  PROVE  \E F : ScansUp(F, N, Stop)
<1> DEFINE From(i) == {j \in Stop \cup {N + 1} : j >= i}
           Least(i, m) == m \in From(i) /\ \A j \in From(i) : m <= j
           F == [i \in 1..(N + 1) |-> CHOOSE m : Least(i, m)]
<1>1. ASSUME NEW i \in 1..(N + 1) PROVE \E m : Least(i, m)
  <2>b. N + 1 \in Nat /\ \A j \in Stop \cup {N + 1} : j \in 1..(N + 1)
    OBVIOUS
  <2>1. N + 1 \in Nat /\ From(i) \subseteq 1..(N + 1)
    BY <2>b
  <2>a. N + 1 \in From(i)
    OBVIOUS
  <2>2. \E m \in From(i) : \A j \in From(i) : m <= j
    <3> HIDE DEF From
    <3>1. PICK M \in Nat : M = N + 1
      BY <2>1
    <3> QED
      BY <2>1, <2>a, <3>1, SmallestNat
  <2> QED
    BY <2>2
<1>2. \A i \in 1..(N + 1) : Least(i, F[i])
  <2>1. \A i \in 1..(N + 1) : F[i] = CHOOSE m : Least(i, m)
    OBVIOUS
  <2> HIDE DEF Least, F
  <2> QED
    BY <1>1, <2>1
<1>3. \A i \in 1..(N + 1) : \A m : Least(i, m) => m \in 1..(N + 1) /\ m >= i
  OBVIOUS
<1>4. \A i \in 1..(N + 1) : \A m, l : Least(i, m) /\ Least(i, l) => m = l
  <2>1. \A i \in 1..(N + 1) : \A m, l : Least(i, m) /\ Least(i, l) => m <= l /\ l <= m
    OBVIOUS
  <2> HIDE DEF Least
  <2> QED
    BY <1>3, <2>1
<1>5. Least(N + 1, N + 1)
  OBVIOUS
<1>6. \A i \in Stop : Least(i, i)
  OBVIOUS
<1>7. ASSUME NEW i \in 1..N, i \notin Stop PROVE Least(i, F[i + 1])
  <2>1. i + 1 \in 1..(N + 1)
    OBVIOUS
  <2>2. Least(i + 1, F[i + 1])
    BY <1>2, <2>1
  <2>3. \A j : j \in From(i) => j \in From(i + 1)
    BY <1>7
  <2>4. \A j : j \in From(i + 1) => j \in From(i)
    OBVIOUS
  <2> HIDE DEF From, F
  <2> QED
    BY <2>2, <2>3, <2>4
<1> HIDE DEF F, Least
<1>8. F[N + 1] = N + 1
  BY <1>2, <1>4, <1>5
<1>9. ASSUME NEW i \in 1..N
      PROVE  F[i] \in 1..(N + 1) /\ F[i] = IF i \in Stop THEN i ELSE F[i + 1]
  <2>1. i \in 1..(N + 1) /\ Least(i, F[i])
    BY <1>2
  <2>2. F[i] \in 1..(N + 1)
    BY <1>3, <2>1
  <2>3. i \in Stop => F[i] = i
    BY <1>4, <1>6, <2>1
  <2>4. i \notin Stop => F[i] = F[i + 1]
    BY <1>4, <1>7, <2>1
  <2> QED
    BY <2>2, <2>3, <2>4
<1> QED
  BY <1>8, <1>9 DEF ScansUp

\* From i down to the last member of Stop, 0 if there is none.
ScansDown(F, N, Stop) ==
  /\ F[0] = 0
  /\ \A i \in 1..N : F[i] \in 0..N /\ F[i] = IF i \in Stop THEN i ELSE F[i - 1]

LEMMA ScanDown ==
  ASSUME NEW N \in Nat, NEW Stop, Stop \subseteq 1..N
  PROVE  \E F : ScansDown(F, N, Stop)
<1> DEFINE Mirror == {N + 1 - i : i \in Stop}
<1>1. \A i \in 1..N : N + 1 - i \in 1..N /\ N + 1 - (N + 1 - i) = i /\ N + 1 - i + 1 = N + 1 - (i - 1)
  OBVIOUS
<1>2. Mirror \subseteq 1..N
  BY <1>1
<1>3. \A i \in 1..N : i \in Stop => N + 1 - i \in Mirror
  OBVIOUS
<1>a. \A i \in 1..N : N + 1 - i \in Mirror => i \in Stop
  BY <1>1
<1> HIDE DEF Mirror
<1>b. PICK G : ScansUp(G, N, Mirror)
  BY <1>2, ScanUp
<1>4. /\ G[N + 1] = N + 1
      /\ \A i \in 1..N : G[i] \in 1..(N + 1) /\ G[i] = IF i \in Mirror THEN i ELSE G[i + 1]
  BY <1>b DEF ScansUp
<1> DEFINE F == [i \in 0..N |-> N + 1 - G[N + 1 - i]]
<1>5. \A i \in 0..N : F[i] = N + 1 - G[N + 1 - i]
  OBVIOUS
<1> HIDE DEF F
<1>6. F[0] = 0
  BY <1>4, <1>5
<1>7. ASSUME NEW i \in 1..N
      PROVE  F[i] \in 0..N /\ F[i] = IF i \in Stop THEN i ELSE F[i - 1]
  <2> DEFINE j == N + 1 - i
  <2>1. j \in 1..N /\ N + 1 - j = i /\ j + 1 = N + 1 - (i - 1) /\ i \in 0..N /\ i - 1 \in 0..N
    OBVIOUS
  <2>2. F[i] = N + 1 - G[j] /\ F[i - 1] = N + 1 - G[j + 1]
    BY <1>5, <2>1
  <2>3. (i \in Stop => j \in Mirror) /\ (j \in Mirror => i \in Stop)
    BY <1>3, <1>a
  <2> HIDE DEF j
  <2>4. G[j] \in 1..(N + 1) /\ G[j] = IF j \in Mirror THEN j ELSE G[j + 1]
    BY <1>4, <2>1
  <2> QED
    BY <2>1, <2>2, <2>3, <2>4
<1> QED
  BY <1>6, <1>7 DEF ScansDown
=============================================================================
