---------------------- MODULE WrappedCollateralProofs ----------------------
(***************************************************************************)
(* For every set of users, all amounts and all rewards: who holds and who  *)
(* earns for wrapped collateral.  WJLP's functions are chains of updates   *)
(* of one storage; a lemma for each says by how much it changes a field,   *)
(* and the actions add these up.  The first part needs two fields, Yeti    *)
(* (amountInYeti) and balances.  The second adds the other fields: the     *)
(* books, with the types, and the lead, which is how far the amount of an  *)
(* account, on which its rewards depend, is ahead of its amountInYeti.     *)
(* With both it says what the pools hold, what the treasury, the managers  *)
(* and the owners of troves earn for, whatever outsiders wrap, unwrap and  *)
(* send.  The third is about the JOE that the shares earn: a gap between   *)
(* what there is and what may be claimed, which no step lowers by more     *)
(* than its roundings.                                                     *)
(***************************************************************************)
EXTENDS WrappedCollateral, CommonTheorems

Yeti(v, a) == v.userInfo[a].amountInYeti
If(a, b, n) == IF a = b THEN n ELSE 0

(* The shape of WJLP's storage, and the types of the two fields.           *)
Storage(v) ==
  /\ DOMAIN v = {"userInfo", "balances", "staked", "chefDebt", "accJoePerShare",
                 "joe", "reverted"}
  /\ DOMAIN v.userInfo = Accounts
  /\ \A a \in Accounts :
       /\ DOMAIN v.userInfo[a] = {"amount", "rewardDebt", "unclaimedJOEReward", "amountInYeti"}
       /\ Yeti(v, a) \in Int
  /\ v.balances \in [Accounts -> Int]

Leaves(v, r) ==
  /\ Storage(r)
  /\ \A a \in Accounts : Yeti(r, a) = Yeti(v, a)
  /\ r.balances = v.balances

-----------------------------------------------------------------------------
(* The steps that every function is made of.                               *)

LEMMA ChefDepositLeaves ==
  ASSUME NEW v, NEW n, Storage(v)
  PROVE  Leaves(v, ChefDeposit(v, n))
BY DEF ChefDeposit, Leaves, Storage, Yeti

LEMMA ChefWithdrawLeaves ==
  ASSUME NEW v, NEW n, Storage(v)
  PROVE  Leaves(v, ChefWithdraw(v, n))
BY DEF ChefWithdraw, Leaves, Storage, Yeti

LEMMA UserUpdateLeaves ==
  ASSUME NEW v, NEW a \in Accounts, NEW n, Storage(v)
  PROVE  Leaves(v, UserUpdate(v, a, n))
BY DEF UserUpdate, Leaves, Storage, Yeti

LEMMA SendLeaves ==
  ASSUME NEW v, NEW a \in Accounts, Storage(v)
  PROVE  Leaves(v, SendJoeReward(v, a))
<1>1. Leaves(v, UserUpdate(ChefWithdraw(v, 0), a, 0))
  BY ChefWithdrawLeaves, UserUpdateLeaves DEF Leaves
<1> QED
  BY <1>1 DEF SendJoeReward, Leaves, Storage, Yeti

LEMMA ChangeInYetiEffect ==
  ASSUME NEW v, NEW a \in Accounts, NEW n \in Int, Storage(v)
  PROVE  LET r == ChangeInYeti(v, a, n)
         IN  /\ Storage(r) /\ r.balances = v.balances
             /\ \A x \in Accounts : Yeti(r, x) = Yeti(v, x) + If(x, a, n)
BY DEF ChangeInYeti, Storage, Yeti, If

LEMMA BurnEffect ==
  ASSUME NEW v, NEW a \in Accounts, NEW n \in Int, Storage(v)
  PROVE  LET r == Burn(v, a, n)
         IN  /\ Storage(r)
             /\ \A x \in Accounts : Yeti(r, x) = Yeti(v, x)
             /\ \A x \in Accounts : r.balances[x] = v.balances[x] - If(x, a, n)
BY DEF Burn, Storage, Yeti, If

LEMMA MintEffect ==
  ASSUME NEW v, NEW a \in Accounts, NEW n \in Int, Storage(v)
  PROVE  LET r == Mint(v, a, n)
         IN  /\ Storage(r)
             /\ \A x \in Accounts : Yeti(r, x) = Yeti(v, x)
             /\ \A x \in Accounts : r.balances[x] = v.balances[x] + If(x, a, n)
BY DEF Mint, Storage, Yeti, If
-----------------------------------------------------------------------------
(* The functions that the protocol and the users call.                     *)

LEMMA TransferEffect ==
  ASSUME NEW v, NEW a \in Accounts, NEW b \in Accounts, NEW n \in Int, Storage(v)
  PROVE  LET r == transfer(v, a, b, n)
         IN  /\ Storage(r)
             /\ \A x \in Accounts : Yeti(r, x) = Yeti(v, x)
             /\ \A x \in Accounts :
                  r.balances[x] = v.balances[x] - If(x, a, n) + If(x, b, n)
<1> DEFINE m == Move(v, a, b, n)
<1>1. /\ Storage(m)
      /\ \A x \in Accounts : Yeti(m, x) = Yeti(v, x)
      /\ \A x \in Accounts : m.balances[x] = v.balances[x] - If(x, a, n) + If(x, b, n)
  <2> DEFINE d == Burn(v, a, n)
  <2>1. /\ Storage(d)
        /\ \A x \in Accounts : Yeti(d, x) = Yeti(v, x)
        /\ \A x \in Accounts : d.balances[x] = v.balances[x] - If(x, a, n)
    BY BurnEffect
  <2> HIDE DEF d
  <2>2. m = Mint(d, b, n)
    BY DEF Move, d
  <2>3. /\ Storage(Mint(d, b, n))
        /\ \A x \in Accounts : Yeti(Mint(d, b, n), x) = Yeti(d, x)
        /\ \A x \in Accounts : Mint(d, b, n).balances[x] = d.balances[x] + If(x, b, n)
    BY <2>1, MintEffect
  <2> HIDE DEF m
  <2> QED
    BY <2>1, <2>2, <2>3
<1> HIDE DEF m
<1>2. PICK c : transfer(v, a, b, n) = [m EXCEPT !.reverted = c]
  BY DEF transfer, m
<1>3. Storage([m EXCEPT !.reverted = c])
  BY <1>1 DEF Storage, Yeti
<1>4. /\ [m EXCEPT !.reverted = c].userInfo = m.userInfo
      /\ [m EXCEPT !.reverted = c].balances = m.balances
  BY <1>1 DEF Storage
<1> QED
  BY <1>1, <1>2, <1>3, <1>4 DEF Yeti

LEMMA WrapEffect ==
  ASSUME NEW v, NEW to \in Accounts, NEW a \in Accounts, NEW n \in Int, Storage(v)
  PROVE  LET r == wrap(v, n, to, a)
         IN  /\ Storage(r)
             /\ \A x \in Accounts : Yeti(r, x) =
                  Yeti(v, x) + (IF to = "activePool" THEN If(x, a, n) ELSE 0)
             /\ \A x \in Accounts : r.balances[x] = v.balances[x] + If(x, to, n)
<1> DEFINE u == UserUpdate(ChefDeposit(v, n), a, n)
           m == Mint(u, to, n)
<1>1. Leaves(v, u)
  BY ChefDepositLeaves, UserUpdateLeaves DEF Leaves
<1> HIDE DEF u
<1>2. /\ Storage(m)
      /\ \A x \in Accounts : Yeti(m, x) = Yeti(v, x)
      /\ \A x \in Accounts : m.balances[x] = v.balances[x] + If(x, to, n)
  BY <1>1, MintEffect DEF Leaves
<1>3. wrap(v, n, to, a) = IF to = "activePool" THEN ChangeInYeti(m, a, n) ELSE m
  BY DEF wrap, m, u
<1> HIDE DEF m
<1>4. CASE to = "activePool"
  <2> DEFINE r == ChangeInYeti(m, a, n)
  <2>1. /\ Storage(r) /\ r.balances = m.balances
        /\ \A x \in Accounts : Yeti(r, x) = Yeti(m, x) + If(x, a, n)
    BY <1>2, ChangeInYetiEffect
  <2> HIDE DEF r
  <2>2. wrap(v, n, to, a) = r
    BY <1>3, <1>4 DEF r
  <2> QED
    BY <1>2, <1>4, <2>1, <2>2
<1>5. CASE to # "activePool"
  BY <1>2, <1>3, <1>5 DEF Storage
<1> QED
  BY <1>4, <1>5

(* What unwrapFor and updateReward begin with.                             *)
LEMMA TakeEffect ==
  ASSUME NEW v, NEW a \in Accounts, NEW n \in Int, Storage(v)
  PROVE  LET r == ChangeInYeti(UserUpdate(SendJoeReward(v, a), a, -n), a, -n)
         IN  /\ Storage(r) /\ r.balances = v.balances
             /\ \A x \in Accounts : Yeti(r, x) = Yeti(v, x) - If(x, a, n)
<1> DEFINE u == UserUpdate(SendJoeReward(v, a), a, -n)
<1>1. Leaves(v, u)
  BY SendLeaves, UserUpdateLeaves DEF Leaves
<1> HIDE DEF u
<1>2. /\ Storage(ChangeInYeti(u, a, -n)) /\ ChangeInYeti(u, a, -n).balances = v.balances
      /\ \A x \in Accounts : Yeti(ChangeInYeti(u, a, -n), x) = Yeti(v, x) + If(x, a, -n)
  BY <1>1, ChangeInYetiEffect DEF Leaves
<1>3. \A x \in Accounts : Yeti(v, x) + If(x, a, -n) = Yeti(v, x) - If(x, a, n)
  BY DEF Storage, If
<1> QED
  BY <1>2, <1>3 DEF u

LEMMA UnwrapForEffect ==
  ASSUME NEW v, NEW pool \in Accounts, NEW a \in Accounts, NEW n \in Int, Storage(v)
  PROVE  LET r == unwrapFor(v, pool, a, n)
         IN  /\ Storage(r)
             /\ \A x \in Accounts : Yeti(r, x) = Yeti(v, x) - If(x, a, n)
             /\ \A x \in Accounts : r.balances[x] = v.balances[x] - If(x, pool, n)
<1> DEFINE s == ChangeInYeti(UserUpdate(SendJoeReward(v, a), a, -n), a, -n)
<1>1. /\ Storage(s) /\ s.balances = v.balances
      /\ \A x \in Accounts : Yeti(s, x) = Yeti(v, x) - If(x, a, n)
  BY TakeEffect
<1> HIDE DEF s
<1> DEFINE c == ChefWithdraw(s, n)
<1>2. Leaves(s, c)
  BY <1>1, ChefWithdrawLeaves
<1>3. unwrapFor(v, pool, a, n) = Burn(c, pool, n)
  BY DEF unwrapFor, s
<1> HIDE DEF c
<1>4. /\ Storage(Burn(c, pool, n))
      /\ \A x \in Accounts : Yeti(Burn(c, pool, n), x) = Yeti(c, x)
      /\ \A x \in Accounts : Burn(c, pool, n).balances[x] = c.balances[x] - If(x, pool, n)
  BY <1>2, BurnEffect DEF Leaves
<1> QED
  BY <1>1, <1>2, <1>3, <1>4 DEF Leaves

LEMMA UnwrapEffect ==
  ASSUME NEW v, NEW a \in Accounts, NEW n \in Int, Storage(v)
  PROVE  LET r == unwrap(v, a, n)
         IN  /\ Storage(r)
             /\ \A x \in Accounts : Yeti(r, x) = Yeti(v, x)
             /\ \A x \in Accounts : r.balances[x] = v.balances[x] - If(x, a, n)
<1> DEFINE s == ChefWithdraw(UserUpdate(SendJoeReward(v, a), a, -n), n)
<1>1. Leaves(v, s)
  BY SendLeaves, UserUpdateLeaves, ChefWithdrawLeaves DEF Leaves
<1> HIDE DEF s
<1>2. unwrap(v, a, n) = Burn(s, a, n)
  BY DEF unwrap, s
<1> QED
  BY <1>1, <1>2, BurnEffect DEF Leaves

LEMMA UpdateRewardEffect ==
  ASSUME NEW v, NEW a \in Accounts, NEW b \in Accounts, NEW n \in Int, Storage(v)
  PROVE  LET r == updateReward(v, a, b, n)
         IN  /\ Storage(r) /\ r.balances = v.balances
             /\ \A x \in Accounts : Yeti(r, x) = Yeti(v, x) - If(x, a, n) + If(x, b, n)
<1> DEFINE s == ChangeInYeti(UserUpdate(SendJoeReward(v, a), a, -n), a, -n)
<1>1. /\ Storage(s) /\ s.balances = v.balances
      /\ \A x \in Accounts : Yeti(s, x) = Yeti(v, x) - If(x, a, n)
  BY TakeEffect
<1> HIDE DEF s
<1>2. Leaves(s, UserUpdate(s, b, n))
  BY <1>1, UserUpdateLeaves
<1>3. updateReward(v, a, b, n) = ChangeInYeti(UserUpdate(s, b, n), b, n)
  BY DEF updateReward, s
<1> QED
  BY <1>1, <1>2, <1>3, ChangeInYetiEffect DEF Leaves
-----------------------------------------------------------------------------
(* The invariant.  Between the steps of a redemption nothing is on its way *)
(* to StabilityPool or DefaultPool.                                        *)
TxType ==
  [kind : {"none", "liquidation", "redemption"}, toSP : Int, redist : Int,
   surplus : Int, gas : Int, drawn : Int, ended : BOOLEAN]

EarnersTypes ==
  /\ Storage(wjlp)
  /\ coll \in [Users -> Int] /\ surplus \in [Users -> Int]
  /\ pending \in [Users -> Int] /\ stranded \in [Users -> Int] /\ gains \in Int
  /\ tx \in TxType
  /\ tx.kind # "liquidation" => tx.toSP = 0 /\ tx.redist = 0

(* Each user's shares are over[u] more than its trove and surplus need, the *)
(* treasury's extra more than the two pools hold and will be sent.  No call *)
(* of the protocol changes either; only outsiders do.                       *)
EarnersInv(over, extra) ==
  /\ EarnersTypes
  /\ \A u \in Users : Yeti(wjlp, u) + stranded[u] = coll[u] + surplus[u] + over[u]
  /\ Yeti(wjlp, "treasury") = wjlp.balances["stabilityPool"] + wjlp.balances["defaultPool"]
       + tx.toSP + tx.redist + extra

(* Users, pools and managers are different accounts.                       *)
LEMMA AccountsDiffer ==
  /\ Users \subseteq Accounts
  /\ {"activePool", "defaultPool", "stabilityPool", "collSurplusPool",
      "TML", "TMR", "treasury"} \subseteq Accounts
  /\ \A u \in Users : u \notin {"activePool", "defaultPool", "stabilityPool",
                                 "collSurplusPool", "TML", "TMR", "treasury"}
BY WrapperAssumption DEF Accounts, Pools

(* The three calls of sendCollsToActivePool.                               *)
LEMMA ReleaseEffect ==
  ASSUME NEW v, NEW u \in Accounts, NEW n \in Int, Storage(v)
  PROVE  LET r == updateReward(transfer(updateReward(v, "treasury", "defaultPool", n),
                                        "defaultPool", "activePool", n),
                               "defaultPool", u, n)
         IN  /\ Storage(r)
             /\ \A x \in Accounts :
                  Yeti(r, x) = Yeti(v, x) - If(x, "treasury", n) + If(x, u, n)
             /\ \A x \in Accounts : r.balances[x] = v.balances[x]
                  - If(x, "defaultPool", n) + If(x, "activePool", n)
<1> DEFINE e == updateReward(v, "treasury", "defaultPool", n)
           s == transfer(e, "defaultPool", "activePool", n)
           r == updateReward(s, "defaultPool", u, n)
<1>1. "treasury" \in Accounts /\ "defaultPool" \in Accounts /\ "activePool" \in Accounts
  BY AccountsDiffer
<1>2. /\ Storage(e) /\ e.balances = v.balances
      /\ \A x \in Accounts : Yeti(e, x) =
           Yeti(v, x) - If(x, "treasury", n) + If(x, "defaultPool", n)
  BY <1>1, UpdateRewardEffect
<1> HIDE DEF e
<1>3. /\ Storage(s)
      /\ \A x \in Accounts : Yeti(s, x) = Yeti(e, x)
      /\ \A x \in Accounts : s.balances[x] =
           e.balances[x] - If(x, "defaultPool", n) + If(x, "activePool", n)
  <2>1. Storage(e) BY <1>2
  <2> QED BY <1>1, <2>1, TransferEffect
<1> HIDE DEF s
<1>4. /\ Storage(r) /\ r.balances = s.balances
      /\ \A x \in Accounts : Yeti(r, x) =
           Yeti(s, x) - If(x, "defaultPool", n) + If(x, u, n)
  <2>1. Storage(s) BY <1>3
  <2> QED BY <1>1, <2>1, UpdateRewardEffect
<1> HIDE DEF r
<1>5. \A x \in Accounts : Yeti(v, x) \in Int /\ v.balances[x] \in Int
  BY DEF Storage
<1>6. \A x \in Accounts : Yeti(r, x) = Yeti(v, x) - If(x, "treasury", n) + If(x, u, n)
  BY <1>2, <1>3, <1>4, <1>5 DEF If
<1>7. \A x \in Accounts : r.balances[x] =
        v.balances[x] - If(x, "defaultPool", n) + If(x, "activePool", n)
  BY <1>2, <1>3, <1>4
<1> QED
  BY <1>4, <1>6, <1>7 DEF r, s, e

(* MovePending releases pending[u], or does nothing.                       *)
LEMMA MovePendingEffect ==
  ASSUME NEW v, NEW u \in Users, Storage(v), pending[u] \in Int
  PROVE  LET r == MovePending(v, u)
         IN  /\ Storage(r)
             /\ \A x \in Accounts : Yeti(r, x) =
                  Yeti(v, x) - If(x, "treasury", pending[u]) + If(x, u, pending[u])
             /\ \A x \in Accounts : r.balances[x] = v.balances[x]
                  - If(x, "defaultPool", pending[u]) + If(x, "activePool", pending[u])
<1>1. CASE pending[u] = 0
  <2>1. MovePending(v, u) = v
    BY <1>1 DEF MovePending
  <2>2. \A x \in Accounts : Yeti(v, x) \in Int /\ v.balances[x] \in Int
    BY DEF Storage
  <2> QED
    BY <1>1, <2>1, <2>2 DEF If
<1>2. CASE pending[u] # 0
  <2>1. u \in Accounts
    BY AccountsDiffer
  <2> DEFINE n == pending[u]
             r == updateReward(transfer(updateReward(v, "treasury", "defaultPool", n),
                                        "defaultPool", "activePool", n),
                               "defaultPool", u, n)
  <2>2. MovePending(v, u) = r
    BY <1>2 DEF MovePending
  <2>3. n \in Int
    OBVIOUS
  <2> HIDE DEF n
  <2>4. /\ Storage(r)
        /\ \A x \in Accounts :
             Yeti(r, x) = Yeti(v, x) - If(x, "treasury", n) + If(x, u, n)
        /\ \A x \in Accounts : r.balances[x] = v.balances[x]
             - If(x, "defaultPool", n) + If(x, "activePool", n)
    BY <2>1, <2>3, ReleaseEffect
  <2> HIDE DEF r
  <2> QED
    BY <2>2, <2>4 DEF n
<1> QED
  BY <1>1, <1>2

(* The invariant from the changes of the fields it reads.                  *)
LEMMA InvFromEffect ==
  ASSUME NEW over \in [Users -> Int], NEW extra \in Int, EarnersInv(over, extra),
         Storage(wjlp'),
         coll' \in [Users -> Int], surplus' \in [Users -> Int],
         pending' \in [Users -> Int], stranded' \in [Users -> Int], gains' \in Int,
         tx' \in TxType,
         tx'.kind # "liquidation" => tx'.toSP = 0 /\ tx'.redist = 0,
         \A x \in Users : Yeti(wjlp', x) + stranded'[x] = coll'[x] + surplus'[x] + over[x],
         Yeti(wjlp', "treasury") = wjlp'.balances["stabilityPool"]
           + wjlp'.balances["defaultPool"] + tx'.toSP + tx'.redist + extra
  PROVE  EarnersInv(over, extra)'
BY DEF EarnersInv, EarnersTypes

(* What the invariant says, in terms of Yeti.                              *)
LEMMA InvFacts ==
  ASSUME NEW over \in [Users -> Int], NEW extra \in Int, EarnersInv(over, extra)
  PROVE  /\ Storage(wjlp)
         /\ \A x \in Users :
              /\ Yeti(wjlp, x) + stranded[x] = coll[x] + surplus[x] + over[x]
              /\ over[x] \in Int /\ Yeti(wjlp, x) \in Int /\ stranded[x] \in Int
              /\ coll[x] \in Int /\ surplus[x] \in Int /\ pending[x] \in Int
         /\ Yeti(wjlp, "treasury") = wjlp.balances["stabilityPool"]
              + wjlp.balances["defaultPool"] + tx.toSP + tx.redist + extra
         /\ Yeti(wjlp, "treasury") \in Int /\ wjlp.balances["stabilityPool"] \in Int
         /\ wjlp.balances["defaultPool"] \in Int /\ tx.toSP \in Int /\ tx.redist \in Int
<1>1. \A x \in Accounts : Yeti(wjlp, x) \in Int /\ wjlp.balances[x] \in Int
  BY DEF EarnersInv, EarnersTypes, Storage
<1> QED
  BY <1>1, AccountsDiffer
  DEF EarnersInv, EarnersTypes, TxType
-----------------------------------------------------------------------------
(* The actions.                                                            *)

LEMMA InitEarners == Init => EarnersTypes
<1> SUFFICES ASSUME Init PROVE EarnersTypes
  OBVIOUS
<1>1. Storage(wjlp)
  BY DEF Init, Deployed, Storage, Yeti, NoInfo
<1> QED
  BY <1>1 DEF Init, EarnersTypes, NoTx, Totals, TxType

(* In every state there are such differences.                              *)
LEMMA SomeDifferences ==
  ASSUME EarnersTypes
  PROVE  \E over \in [Users -> Int], extra \in Int : EarnersInv(over, extra)
<1> DEFINE o == [u \in Users |-> Yeti(wjlp, u) + stranded[u] - coll[u] - surplus[u]]
           e == Yeti(wjlp, "treasury") - wjlp.balances["stabilityPool"]
                  - wjlp.balances["defaultPool"] - tx.toSP - tx.redist
<1>1. \A a \in Accounts : Yeti(wjlp, a) \in Int /\ wjlp.balances[a] \in Int
  BY DEF EarnersTypes, Storage
<1>2. \A u \in Users : /\ Yeti(wjlp, u) \in Int /\ stranded[u] \in Int
                       /\ coll[u] \in Int /\ surplus[u] \in Int
  BY <1>1, AccountsDiffer DEF EarnersTypes
<1>3. /\ Yeti(wjlp, "treasury") \in Int /\ wjlp.balances["stabilityPool"] \in Int
      /\ wjlp.balances["defaultPool"] \in Int /\ tx.toSP \in Int /\ tx.redist \in Int
  BY <1>1, AccountsDiffer DEF EarnersTypes, TxType
<1>4. o \in [Users -> Int] /\ e \in Int
  BY <1>2, <1>3
<1>5. \A u \in Users : Yeti(wjlp, u) + stranded[u] = coll[u] + surplus[u] + o[u]
  <2> SUFFICES ASSUME NEW u \in Users
               PROVE  Yeti(wjlp, u) + stranded[u] = coll[u] + surplus[u] + o[u]
    OBVIOUS
  <2>1. o[u] = Yeti(wjlp, u) + stranded[u] - coll[u] - surplus[u]
    OBVIOUS
  <2> HIDE DEF o
  <2> QED
    BY <1>2, <2>1
<1>6. Yeti(wjlp, "treasury") = wjlp.balances["stabilityPool"] + wjlp.balances["defaultPool"]
        + tx.toSP + tx.redist + e
  BY <1>3
<1> HIDE DEF o, e
<1>7. EarnersInv(o, e)
  BY <1>5, <1>6 DEF EarnersInv
<1> QED
  BY <1>4, <1>7

(* An action that changes the account of one owner u: its rewards change   *)
(* by y, and so does its collateral.                                       *)
LEMMA OneOwner ==
  ASSUME NEW over \in [Users -> Int], NEW extra \in Int, EarnersInv(over, extra),
         NEW u \in Users, NEW y \in Int,
         coll'[u] \in Int, surplus'[u] \in Int, stranded'[u] \in Int,
         \A x \in Users : Yeti(wjlp', x) = Yeti(wjlp, x) + If(x, u, y),
         \A x \in Users \ {u} :
           coll'[x] = coll[x] /\ surplus'[x] = surplus[x] /\ stranded'[x] = stranded[x],
         coll'[u] + surplus'[u] - stranded'[u] = coll[u] + surplus[u] - stranded[u] + y
  PROVE  \A x \in Users : Yeti(wjlp', x) + stranded'[x] = coll'[x] + surplus'[x] + over[x]
<1> SUFFICES ASSUME NEW x \in Users
             PROVE  Yeti(wjlp', x) + stranded'[x] = coll'[x] + surplus'[x] + over[x]
  OBVIOUS
<1>1. /\ Yeti(wjlp, x) + stranded[x] = coll[x] + surplus[x] + over[x] /\ over[x] \in Int
      /\ Yeti(wjlp, x) \in Int /\ stranded[x] \in Int
      /\ coll[x] \in Int /\ surplus[x] \in Int
  BY InvFacts
<1>2. CASE x = u
  <2>1. Yeti(wjlp', x) = Yeti(wjlp, x) + y
    BY <1>2 DEF If
  <2> QED
    BY <1>1, <1>2, <2>1
<1>3. CASE x # u
  <2>1. Yeti(wjlp', x) = Yeti(wjlp, x)
    BY <1>1, <1>3 DEF If
  <2> QED
    BY <1>1, <1>3, <2>1
<1> QED
  BY <1>2, <1>3

LEMMA DepositKeeps ==
  ASSUME NEW over \in [Users -> Int], NEW extra \in Int, EarnersInv(over, extra),
         NEW u \in Users, NEW n \in Amounts, Deposit(u, n)
  PROVE  EarnersInv(over, extra)'
<1> DEFINE m == wrap(wjlp, n, "activePool", u)
           p == pending[u]
<1>1. /\ n \in Int /\ u \in Accounts /\ "activePool" \in Accounts
      /\ Storage(wjlp) /\ p \in Int
  BY CollateralAssumption, AccountsDiffer, InvFacts
<1>2. /\ Storage(m)
      /\ \A x \in Accounts : Yeti(m, x) = Yeti(wjlp, x) + If(x, u, n)
      /\ \A x \in Accounts : m.balances[x] = wjlp.balances[x] + If(x, "activePool", n)
  <2>1. /\ Storage(m)
        /\ \A x \in Accounts : Yeti(m, x) = Yeti(wjlp, x)
             + (IF "activePool" = "activePool" THEN If(x, u, n) ELSE 0)
        /\ \A x \in Accounts : m.balances[x] = wjlp.balances[x] + If(x, "activePool", n)
    BY <1>1, WrapEffect
  <2> HIDE DEF m
  <2> QED
    BY <2>1
<1>3. wjlp' = MovePending(m, u)
  BY DEF Deposit, Calls
<1> HIDE DEF m
<1>4. /\ Storage(wjlp')
      /\ \A x \in Accounts : Yeti(wjlp', x) =
           Yeti(m, x) - If(x, "treasury", p) + If(x, u, p)
      /\ \A x \in Accounts : wjlp'.balances[x] = m.balances[x]
           - If(x, "defaultPool", p) + If(x, "activePool", p)
  <2>1. Storage(m)
    BY <1>2
  <2> QED
    BY <1>1, <1>3, <2>1, MovePendingEffect
<1>5. /\ coll' = [coll EXCEPT ![u] = coll[u] + p + n]
      /\ pending' = [pending EXCEPT ![u] = 0]
      /\ UNCHANGED <<surplus, gains, stranded, tx>>
  BY DEF Deposit, SetTrove, Entire
<1> HIDE DEF p
<1>6. \A x \in Users : Yeti(wjlp', x) + stranded'[x] = coll'[x] + surplus'[x] + over[x]
  <2>1. \A x \in Users : Yeti(wjlp', x) = Yeti(wjlp, x) + If(x, u, p + n)
    BY <1>1, <1>2, <1>4, InvFacts, AccountsDiffer DEF If
  <2>2. coll'[u] = coll[u] + p + n /\ \A x \in Users \ {u} : coll'[x] = coll[x]
    BY <1>5 DEF EarnersInv, EarnersTypes
  <2>3. coll[u] \in Int /\ surplus[u] \in Int /\ stranded[u] \in Int
    BY InvFacts
  <2> QED
    BY <1>1, <1>5, <2>1, <2>2, <2>3, OneOwner
<1>7. Yeti(wjlp', "treasury") = wjlp'.balances["stabilityPool"]
        + wjlp'.balances["defaultPool"] + tx'.toSP + tx'.redist + extra
  BY <1>1, <1>2, <1>4, <1>5, InvFacts, AccountsDiffer DEF If
<1> QED
  BY <1>1, <1>4, <1>5, <1>6, <1>7, InvFromEffect DEF EarnersInv, EarnersTypes

(* A call that moves neither shares nor what StabilityPool and DefaultPool *)
(* hold.                                                                   *)
LEMMA QuietCallKeeps ==
  ASSUME NEW over \in [Users -> Int], NEW extra \in Int, EarnersInv(over, extra),
         Storage(wjlp'),
         \A x \in Accounts : Yeti(wjlp', x) = Yeti(wjlp, x),
         wjlp'.balances["stabilityPool"] = wjlp.balances["stabilityPool"],
         wjlp'.balances["defaultPool"] = wjlp.balances["defaultPool"],
         UNCHANGED <<coll, surplus, pending, gains, stranded, tx>>
  PROVE  EarnersInv(over, extra)'
<1>1. \A x \in Users : Yeti(wjlp', x) + stranded'[x] = coll'[x] + surplus'[x] + over[x]
  BY InvFacts, AccountsDiffer
<1>2. Yeti(wjlp', "treasury") = wjlp'.balances["stabilityPool"]
        + wjlp'.balances["defaultPool"] + tx'.toSP + tx'.redist + extra
  BY InvFacts, AccountsDiffer
<1> QED
  BY <1>1, <1>2, InvFromEffect DEF EarnersInv, EarnersTypes

LEMMA UnwrapOwnKeeps ==
  ASSUME NEW over \in [Users -> Int], NEW extra \in Int, EarnersInv(over, extra),
         NEW u \in Users, NEW n \in Amounts, UnwrapOwn(u, n)
  PROVE  EarnersInv(over, extra)'
<1>1. /\ n \in Int /\ u \in Accounts /\ Storage(wjlp)
      /\ u \notin {"stabilityPool", "defaultPool"}
  BY CollateralAssumption, AccountsDiffer, InvFacts
<1>2. wjlp' = unwrap(wjlp, u, n) /\ UNCHANGED <<coll, surplus, pending, gains, stranded, tx>>
  BY DEF UnwrapOwn, Calls
<1>3. /\ Storage(wjlp')
      /\ \A x \in Accounts : Yeti(wjlp', x) = Yeti(wjlp, x)
      /\ \A x \in Accounts : wjlp'.balances[x] = wjlp.balances[x] - If(x, u, n)
  BY <1>1, <1>2, UnwrapEffect
<1>4. \A x \in Accounts : wjlp.balances[x] \in Int
  BY <1>1 DEF Storage
<1>5. /\ wjlp'.balances["stabilityPool"] = wjlp.balances["stabilityPool"]
      /\ wjlp'.balances["defaultPool"] = wjlp.balances["defaultPool"]
  BY <1>1, <1>3, <1>4, AccountsDiffer DEF If
<1> QED
  BY <1>2, <1>3, <1>5, QuietCallKeeps

LEMMA ClaimRewardKeeps ==
  ASSUME NEW over \in [Users -> Int], NEW extra \in Int, EarnersInv(over, extra),
         NEW u \in Users, ClaimReward(u)
  PROVE  EarnersInv(over, extra)'
<1>1. u \in Accounts /\ Storage(wjlp)
  BY AccountsDiffer, InvFacts
<1>2. /\ wjlp' = SendJoeReward(wjlp, u)
      /\ UNCHANGED <<coll, surplus, pending, gains, stranded, tx>>
  BY DEF ClaimReward, Calls
<1>3. Leaves(wjlp, wjlp')
  BY <1>1, <1>2, SendLeaves
<1> QED
  BY <1>2, <1>3, QuietCallKeeps DEF Leaves

LEMMA JoeAccruesKeeps ==
  ASSUME NEW over \in [Users -> Int], NEW extra \in Int, EarnersInv(over, extra),
         JoeAccrues
  PROVE  EarnersInv(over, extra)'
<1>1. Storage(wjlp)
  BY InvFacts
<1>2. Leaves(wjlp, wjlp')
  BY <1>1 DEF JoeAccrues, Leaves, Storage, Yeti
<1> QED
  BY <1>2, QuietCallKeeps DEF Leaves, JoeAccrues

(* Pending rewards applied to the current storage, for the actions below.  *)
LEMMA AppliedEffect ==
  ASSUME NEW over \in [Users -> Int], NEW extra \in Int, EarnersInv(over, extra),
         NEW u \in Users
  PROVE  LET r == MovePending(wjlp, u)
         IN  /\ Storage(r)
             /\ \A x \in Users : Yeti(r, x) = Yeti(wjlp, x) + If(x, u, pending[u])
             /\ Yeti(r, "treasury") = Yeti(wjlp, "treasury") - pending[u]
             /\ r.balances["stabilityPool"] = wjlp.balances["stabilityPool"]
             /\ r.balances["defaultPool"] = wjlp.balances["defaultPool"] - pending[u]
             /\ pending[u] \in Int
<1> DEFINE r == MovePending(wjlp, u)
           p == pending[u]
<1>1. Storage(wjlp) /\ p \in Int
  BY InvFacts
<1>2. /\ Storage(r)
      /\ \A x \in Accounts : Yeti(r, x) = Yeti(wjlp, x) - If(x, "treasury", p) + If(x, u, p)
      /\ \A x \in Accounts : r.balances[x] = wjlp.balances[x]
           - If(x, "defaultPool", p) + If(x, "activePool", p)
  BY <1>1, MovePendingEffect
<1> HIDE DEF r, p
<1>3. \A x \in Accounts : Yeti(wjlp, x) \in Int /\ wjlp.balances[x] \in Int
  BY <1>1 DEF Storage
<1>4. \A x \in Users : Yeti(r, x) = Yeti(wjlp, x) + If(x, u, p)
  BY <1>1, <1>2, <1>3, AccountsDiffer DEF If
<1>5. Yeti(r, "treasury") = Yeti(wjlp, "treasury") - p
  BY <1>1, <1>2, <1>3, AccountsDiffer DEF If
<1>6. /\ r.balances["stabilityPool"] = wjlp.balances["stabilityPool"]
      /\ r.balances["defaultPool"] = wjlp.balances["defaultPool"] - p
  BY <1>1, <1>2, <1>3, AccountsDiffer DEF If
<1> QED
  BY <1>1, <1>2, <1>4, <1>5, <1>6 DEF r, p

(* A step that applies the pending rewards of u and changes the trove,     *)
(* surplus and shares of u only, and may add to what the running           *)
(* transaction will send to the pools.                                     *)
LEMMA OwnerStepKeeps ==
  ASSUME NEW over \in [Users -> Int], NEW extra \in Int, EarnersInv(over, extra),
         NEW u \in Users, Storage(wjlp'),
         \A x \in Users \ {u} : /\ Yeti(wjlp', x) = Yeti(wjlp, x) /\ coll'[x] = coll[x]
                              /\ surplus'[x] = surplus[x] /\ stranded'[x] = stranded[x],
         Yeti(wjlp', u) - Yeti(wjlp, u) =
           (coll'[u] + surplus'[u] - stranded'[u]) - (coll[u] + surplus[u] - stranded[u]),
         coll' \in [Users -> Int], surplus' \in [Users -> Int],
         pending' \in [Users -> Int], stranded' \in [Users -> Int], gains' \in Int,
         Yeti(wjlp', "treasury") = Yeti(wjlp, "treasury") - pending[u]
           + (tx'.toSP + tx'.redist - tx.toSP - tx.redist),
         wjlp'.balances["stabilityPool"] = wjlp.balances["stabilityPool"],
         wjlp'.balances["defaultPool"] = wjlp.balances["defaultPool"] - pending[u],
         tx' \in TxType,
         tx'.kind # "liquidation" => tx'.toSP = 0 /\ tx'.redist = 0
  PROVE  EarnersInv(over, extra)'
<1>1. \A a \in Accounts : Yeti(wjlp', a) \in Int
  BY DEF Storage
<1>2. Yeti(wjlp', u) \in Int
  BY <1>1, AccountsDiffer
<1> DEFINE need == coll[u] + surplus[u] - stranded[u]
           need2 == coll'[u] + surplus'[u] - stranded'[u]
           o == over[u]
<1>3. Yeti(wjlp', u) + stranded'[u] = coll'[u] + surplus'[u] + over[u]
  <2>1. coll'[u] \in Int /\ surplus'[u] \in Int /\ stranded'[u] \in Int
    OBVIOUS
  <2>2. /\ Yeti(wjlp, u) + stranded[u] = coll[u] + surplus[u] + over[u]
        /\ Yeti(wjlp, u) \in Int /\ stranded[u] \in Int /\ coll[u] \in Int /\ surplus[u] \in Int
        /\ over[u] \in Int
    BY InvFacts
  <2>3. Yeti(wjlp, u) = need + o /\ need \in Int /\ o \in Int
    <3> DEFINE y == Yeti(wjlp, u)
               z == stranded[u]
               c == coll[u]
               d == surplus[u]
    <3>1. y + z = c + d + o /\ y \in Int /\ z \in Int /\ c \in Int /\ d \in Int /\ o \in Int
      BY <2>2
    <3>2. need = c + d - z
      OBVIOUS
    <3> HIDE DEF y, z, c, d, o, need
    <3>3. y = need + o /\ need \in Int
      BY ONLY <3>1, <3>2
    <3> QED
      BY <3>1, <3>3 DEF y
  <2>4. Yeti(wjlp', u) - Yeti(wjlp, u) = need2 - need /\ need2 \in Int
    BY <2>1
  <2>5. Yeti(wjlp', u) = need2 + o
    <3> DEFINE y == Yeti(wjlp, u)
               z == Yeti(wjlp', u)
    <3>1. /\ y = need + o /\ z - y = need2 - need
          /\ y \in Int /\ z \in Int /\ need \in Int /\ need2 \in Int /\ o \in Int
      BY <1>2, <2>2, <2>3, <2>4
    <3> HIDE DEF need, need2, o, y, z
    <3>2. z = need2 + o
      BY ONLY <3>1
    <3> QED
      BY <3>2 DEF z
  <2> QED
    BY ONLY <1>2, <2>1, <2>2, <2>5
<1>4. \A x \in Users : Yeti(wjlp', x) + stranded'[x] = coll'[x] + surplus'[x] + over[x]
  BY <1>3, InvFacts
<1>5. Yeti(wjlp', "treasury") = wjlp'.balances["stabilityPool"]
        + wjlp'.balances["defaultPool"] + tx'.toSP + tx'.redist + extra
  <2>1. tx'.toSP \in Int /\ tx'.redist \in Int
    BY DEF TxType
  <2>2. /\ Yeti(wjlp, "treasury") = wjlp.balances["stabilityPool"]
             + wjlp.balances["defaultPool"] + tx.toSP + tx.redist + extra
        /\ Yeti(wjlp, "treasury") \in Int /\ wjlp.balances["stabilityPool"] \in Int
        /\ wjlp.balances["defaultPool"] \in Int /\ tx.toSP \in Int /\ tx.redist \in Int
        /\ pending[u] \in Int
    BY InvFacts
  <2> QED
    BY <2>1, <2>2
<1> QED
  BY <1>4, <1>5, InvFromEffect

(* What a chain of calls on behalf of u changes: the shares of u by y,     *)
(* those of the treasury by t and what DefaultPool holds by d.             *)
Touches(v, r, u, y, t, d) ==
  /\ Storage(r)
  /\ \A x \in Users \ {u} : Yeti(r, x) = Yeti(v, x)
  /\ Yeti(r, u) = Yeti(v, u) + y
  /\ Yeti(r, "treasury") = Yeti(v, "treasury") + t
  /\ r.balances["stabilityPool"] = v.balances["stabilityPool"]
  /\ r.balances["defaultPool"] = v.balances["defaultPool"] + d

LEMMA StorageInts ==
  ASSUME NEW v, Storage(v)
  PROVE  /\ \A x \in Users : Yeti(v, x) \in Int
         /\ Yeti(v, "treasury") \in Int
         /\ v.balances["stabilityPool"] \in Int /\ v.balances["defaultPool"] \in Int
<1>1. \A a \in Accounts : Yeti(v, a) \in Int /\ v.balances[a] \in Int
  BY DEF Storage
<1> QED
  BY <1>1, AccountsDiffer

LEMMA TouchesTwice ==
  ASSUME NEW v, NEW m, NEW r, NEW u \in Users, NEW y \in Int, NEW t \in Int, NEW d \in Int,
         NEW y2 \in Int, NEW t2 \in Int, NEW d2 \in Int, Storage(v),
         Touches(v, m, u, y, t, d), Touches(m, r, u, y2, t2, d2)
  PROVE  Touches(v, r, u, y + y2, t + t2, d + d2)
<1>1. /\ Yeti(v, u) \in Int /\ Yeti(v, "treasury") \in Int
      /\ v.balances["defaultPool"] \in Int
  BY StorageInts
<1>2. Yeti(r, u) = Yeti(v, u) + (y + y2)
  BY <1>1 DEF Touches
<1>3. Yeti(r, "treasury") = Yeti(v, "treasury") + (t + t2)
  BY <1>1 DEF Touches
<1>4. r.balances["defaultPool"] = v.balances["defaultPool"] + (d + d2)
  BY <1>1 DEF Touches
<1> QED
  BY <1>2, <1>3, <1>4 DEF Touches

LEMMA AppliedTouches ==
  ASSUME NEW over \in [Users -> Int], NEW extra \in Int, EarnersInv(over, extra),
         NEW u \in Users
  PROVE  /\ Storage(wjlp) /\ pending[u] \in Int
         /\ Touches(wjlp, MovePending(wjlp, u), u, pending[u], -pending[u], -pending[u])
<1> DEFINE r == MovePending(wjlp, u)
           p == pending[u]
<1>1. /\ Storage(r)
      /\ \A x \in Users : Yeti(r, x) = Yeti(wjlp, x) + If(x, u, p)
      /\ Yeti(r, "treasury") = Yeti(wjlp, "treasury") - p
      /\ r.balances["stabilityPool"] = wjlp.balances["stabilityPool"]
      /\ r.balances["defaultPool"] = wjlp.balances["defaultPool"] - p
      /\ p \in Int /\ Storage(wjlp)
  BY AppliedEffect, InvFacts
<1> HIDE DEF r, p
<1>2. /\ \A x \in Users : Yeti(wjlp, x) \in Int
      /\ Yeti(wjlp, "treasury") \in Int /\ wjlp.balances["defaultPool"] \in Int
  BY <1>1, StorageInts
<1>3. Yeti(r, u) = Yeti(wjlp, u) + p /\ \A x \in Users \ {u} : Yeti(r, x) = Yeti(wjlp, x)
  BY <1>1, <1>2 DEF If
<1>4. /\ Yeti(r, "treasury") = Yeti(wjlp, "treasury") + (-p)
      /\ r.balances["defaultPool"] = wjlp.balances["defaultPool"] + (-p)
  BY <1>1, <1>2
<1>5. Touches(wjlp, r, u, p, -p, -p)
  BY <1>1, <1>3, <1>4 DEF Touches
<1> QED
  BY <1>1, <1>5 DEF r, p

(* An unwrapping of n from a pool that is not the treasury's.              *)
LEMMA UnwrapForTouches ==
  ASSUME NEW v, NEW u \in Users, NEW n \in Int, Storage(v),
         NEW pool \in {"activePool", "collSurplusPool"}
  PROVE  Touches(v, unwrapFor(v, pool, u, n), u, -n, 0, 0)
<1> DEFINE r == unwrapFor(v, pool, u, n)
<1>1. pool \in Accounts /\ u \in Accounts /\ pool \notin {"stabilityPool", "defaultPool"}
  BY AccountsDiffer
<1>2. /\ Storage(r)
      /\ \A x \in Accounts : Yeti(r, x) = Yeti(v, x) - If(x, u, n)
      /\ \A x \in Accounts : r.balances[x] = v.balances[x] - If(x, pool, n)
  BY <1>1, UnwrapForEffect
<1> HIDE DEF r
<1>3. \A x \in Accounts : Yeti(v, x) \in Int /\ v.balances[x] \in Int
  BY DEF Storage
<1>4. /\ \A x \in Users \ {u} : Yeti(r, x) = Yeti(v, x)
      /\ Yeti(r, u) = Yeti(v, u) + (-n)
      /\ Yeti(r, "treasury") = Yeti(v, "treasury") + 0
  BY <1>2, <1>3, AccountsDiffer DEF If
<1>5. /\ r.balances["stabilityPool"] = v.balances["stabilityPool"]
      /\ r.balances["defaultPool"] = v.balances["defaultPool"] + 0
  BY <1>1, <1>2, <1>3, AccountsDiffer DEF If
<1>6. Touches(v, r, u, -n, 0, 0)
  BY <1>2, <1>4, <1>5 DEF Touches
<1> QED
  BY <1>6 DEF r

(* The rewards of n given to a manager, or to the treasury.                *)
LEMMA UpdateRewardTouches ==
  ASSUME NEW v, NEW u \in Users, NEW n \in Int, Storage(v),
         NEW to \in {"TML", "TMR", "treasury"}
  PROVE  Touches(v, updateReward(v, u, to, n), u, -n, If(to, "treasury", n), 0)
<1> DEFINE r == updateReward(v, u, to, n)
<1>1. to \in Accounts /\ u \in Accounts
  BY AccountsDiffer
<1>2. /\ Storage(r) /\ r.balances = v.balances
      /\ \A x \in Accounts : Yeti(r, x) = Yeti(v, x) - If(x, u, n) + If(x, to, n)
  BY <1>1, UpdateRewardEffect
<1> HIDE DEF r
<1>3. \A x \in Accounts : Yeti(v, x) \in Int /\ v.balances[x] \in Int
  BY DEF Storage
<1>4. /\ \A x \in Users \ {u} : Yeti(r, x) = Yeti(v, x)
      /\ Yeti(r, u) = Yeti(v, u) + (-n)
  BY <1>2, <1>3, AccountsDiffer DEF If
<1>5. Yeti(r, "treasury") = Yeti(v, "treasury") + If(to, "treasury", n)
  <2>1. /\ Yeti(v, "treasury") \in Int
        /\ Yeti(r, "treasury") = Yeti(v, "treasury") - If("treasury", u, n) + If("treasury", to, n)
    BY <1>2, <1>3, AccountsDiffer
  <2>2. "treasury" # u
    BY AccountsDiffer
  <2> QED
    BY <2>1, <2>2 DEF If
<1>6. v.balances["defaultPool"] \in Int
  BY <1>3, AccountsDiffer
<1>7. Touches(v, r, u, -n, If(to, "treasury", n), 0)
  BY <1>2, <1>4, <1>5, <1>6 DEF Touches
<1> QED
  BY <1>7 DEF r

LEMMA ClosingTouches ==
  ASSUME NEW v, NEW u \in Users, NEW n \in Int, Storage(v)
  PROVE  Touches(v, Closing(v, n), u, 0, 0, 0)
<1> DEFINE r == Closing(v, n)
<1>1. "activePool" \in Accounts /\ "collSurplusPool" \in Accounts
  BY AccountsDiffer
<1>2. /\ Storage(r)
      /\ \A x \in Accounts : Yeti(r, x) = Yeti(v, x)
      /\ \A x \in Accounts : r.balances[x] =
           v.balances[x] - If(x, "activePool", n) + If(x, "collSurplusPool", n)
  BY <1>1, TransferEffect DEF Closing
<1> HIDE DEF r
<1>3. \A x \in Accounts : Yeti(v, x) \in Int /\ v.balances[x] \in Int
  BY DEF Storage
<1>4. /\ r.balances["stabilityPool"] = v.balances["stabilityPool"]
      /\ r.balances["defaultPool"] = v.balances["defaultPool"] + 0
  BY <1>2, <1>3, AccountsDiffer DEF If
<1>5. /\ Yeti(r, u) = Yeti(v, u) + 0 /\ Yeti(r, "treasury") = Yeti(v, "treasury") + 0
      /\ \A x \in Users \ {u} : Yeti(r, x) = Yeti(v, x)
  BY <1>2, <1>3, AccountsDiffer
<1>6. Touches(v, r, u, 0, 0, 0)
  BY <1>2, <1>4, <1>5 DEF Touches
<1> QED
  BY <1>6 DEF r

(* A step on behalf of u that applies its pending rewards.  It remains to  *)
(* say what becomes of its collateral, surplus and stranded shares.        *)
LEMMA OwnerActionKeeps ==
  ASSUME NEW over \in [Users -> Int], NEW extra \in Int, EarnersInv(over, extra),
         NEW u \in Users, NEW y \in Int, NEW t \in Int,
         NEW c \in Int, NEW s \in Int, NEW z \in Int,
         Touches(wjlp, wjlp', u, y, t, -pending[u]),
         c + s - z = coll[u] + surplus[u] - stranded[u] + y,
         t = tx'.toSP + tx'.redist - tx.toSP - tx.redist - pending[u],
         coll' = [coll EXCEPT ![u] = c], surplus' = [surplus EXCEPT ![u] = s],
         stranded' = [stranded EXCEPT ![u] = z],
         pending' = [pending EXCEPT ![u] = 0], gains' = gains, tx' \in TxType,
         tx'.kind # "liquidation" => tx'.toSP = 0 /\ tx'.redist = 0
  PROVE  EarnersInv(over, extra)'
<1>1. /\ coll \in [Users -> Int] /\ surplus \in [Users -> Int] /\ stranded \in [Users -> Int]
      /\ pending \in [Users -> Int] /\ gains \in Int
  BY DEF EarnersInv, EarnersTypes
<1>2. /\ coll' \in [Users -> Int] /\ surplus' \in [Users -> Int]
      /\ pending' \in [Users -> Int] /\ stranded' \in [Users -> Int] /\ gains' \in Int
  BY <1>1
<1>3. Storage(wjlp')
  BY DEF Touches
<1>4. \A x \in Users \ {u} : /\ Yeti(wjlp', x) = Yeti(wjlp, x) /\ coll'[x] = coll[x]
                            /\ surplus'[x] = surplus[x] /\ stranded'[x] = stranded[x]
  BY <1>1 DEF Touches
<1>5. Yeti(wjlp', u) - Yeti(wjlp, u) =
        (coll'[u] + surplus'[u] - stranded'[u]) - (coll[u] + surplus[u] - stranded[u])
  <2>1. Yeti(wjlp', u) = Yeti(wjlp, u) + y
    BY DEF Touches
  <2>2. coll'[u] = c /\ surplus'[u] = s /\ stranded'[u] = z
    BY <1>1
  <2>3. coll[u] \in Int /\ surplus[u] \in Int /\ stranded[u] \in Int /\ Yeti(wjlp, u) \in Int
    BY InvFacts
  <2> QED
    BY <2>1, <2>2, <2>3
<1>6. Yeti(wjlp', "treasury") = Yeti(wjlp, "treasury") - pending[u]
        + (tx'.toSP + tx'.redist - tx.toSP - tx.redist)
  <2>1. /\ tx.toSP \in Int /\ tx.redist \in Int /\ Yeti(wjlp, "treasury") \in Int
        /\ pending[u] \in Int /\ tx'.toSP \in Int /\ tx'.redist \in Int
    BY InvFacts DEF TxType
  <2>2. Yeti(wjlp', "treasury") = Yeti(wjlp, "treasury") + t
    BY DEF Touches
  <2> QED
    BY <2>1, <2>2
<1>7. /\ wjlp'.balances["stabilityPool"] = wjlp.balances["stabilityPool"]
      /\ wjlp'.balances["defaultPool"] = wjlp.balances["defaultPool"] - pending[u]
  BY InvFacts DEF Touches
<1> QED
  BY <1>2, <1>3, <1>4, <1>5, <1>6, <1>7, OwnerStepKeeps

LEMMA ApplyPendingRewardsKeeps ==
  ASSUME NEW over \in [Users -> Int], NEW extra \in Int, EarnersInv(over, extra),
         NEW u \in Users, ApplyPendingRewards(u)
  PROVE  EarnersInv(over, extra)'
<1> DEFINE p == pending[u]
           c == coll[u] + p
<1>1. Touches(wjlp, wjlp', u, p, -p, -p)
  BY AppliedTouches DEF ApplyPendingRewards, Calls
<1>2. /\ coll' = [coll EXCEPT ![u] = c] /\ pending' = [pending EXCEPT ![u] = 0]
      /\ UNCHANGED <<surplus, gains, stranded, tx>>
  BY DEF ApplyPendingRewards, SetTrove, Entire
<1>3. /\ coll[u] \in Int /\ p \in Int /\ surplus[u] \in Int /\ stranded[u] \in Int
      /\ tx.toSP \in Int /\ tx.redist \in Int
  BY InvFacts
<1>4. /\ surplus' = [surplus EXCEPT ![u] = surplus[u]]
      /\ stranded' = [stranded EXCEPT ![u] = stranded[u]]
      /\ tx' \in TxType /\ (tx'.kind # "liquidation" => tx'.toSP = 0 /\ tx'.redist = 0)
  BY <1>2 DEF EarnersInv, EarnersTypes
<1>5. /\ c \in Int /\ -p \in Int /\ c + surplus[u] - stranded[u] = coll[u] + surplus[u] - stranded[u] + p
      /\ -p = tx'.toSP + tx'.redist - tx.toSP - tx.redist - p
  BY <1>2, <1>3
<1> HIDE DEF c
<1> QED
  BY <1>1, <1>2, <1>3, <1>4, <1>5, OwnerActionKeeps

LEMMA WithdrawKeeps ==
  ASSUME NEW over \in [Users -> Int], NEW extra \in Int, EarnersInv(over, extra),
         NEW u \in Users, NEW n \in Amounts, Withdraw(u, n)
  PROVE  EarnersInv(over, extra)'
<1> DEFINE m == MovePending(wjlp, u)
           p == pending[u]
           c == (coll[u] + p) - n
<1>1. Storage(wjlp) /\ p \in Int /\ Touches(wjlp, m, u, p, -p, -p) /\ n \in Int
  BY AppliedTouches, CollateralAssumption
<1>2. wjlp' = unwrapFor(m, "activePool", u, n)
  BY DEF Withdraw, Calls
<1>3. Storage(m)
  BY <1>1 DEF Touches
<1> HIDE DEF m
<1>4. Touches(m, wjlp', u, -n, 0, 0)
  BY <1>1, <1>2, <1>3, UnwrapForTouches
<1>5. /\ coll' = [coll EXCEPT ![u] = c] /\ pending' = [pending EXCEPT ![u] = 0]
      /\ UNCHANGED <<surplus, gains, stranded, tx>>
  BY DEF Withdraw, SetTrove, Entire
<1>6. /\ coll[u] \in Int /\ surplus[u] \in Int /\ stranded[u] \in Int
      /\ tx.toSP \in Int /\ tx.redist \in Int
  BY InvFacts
<1>7. /\ surplus' = [surplus EXCEPT ![u] = surplus[u]]
      /\ stranded' = [stranded EXCEPT ![u] = stranded[u]]
      /\ tx' \in TxType /\ (tx'.kind # "liquidation" => tx'.toSP = 0 /\ tx'.redist = 0)
  BY <1>5 DEF EarnersInv, EarnersTypes
<1>8. /\ c \in Int /\ -p \in Int /\ -n \in Int /\ 0 \in Int /\ p + (-n) \in Int
      /\ c + surplus[u] - stranded[u] = coll[u] + surplus[u] - stranded[u] + (p + (-n))
      /\ -p = tx'.toSP + tx'.redist - tx.toSP - tx.redist - p
      /\ (-p) + 0 = -p
  BY <1>1, <1>5, <1>6
<1> HIDE DEF c, p
<1>9. Touches(wjlp, wjlp', u, p + (-n), (-p) + 0, (-p) + 0)
  BY <1>1, <1>4, <1>8, TouchesTwice
<1>10. Touches(wjlp, wjlp', u, p + (-n), -p, -p)
  BY <1>8, <1>9
<1> QED
  BY <1>1, <1>5, <1>6, <1>7, <1>8, <1>10, OwnerActionKeeps DEF p

LEMMA RedeemSingleKeeps ==
  ASSUME NEW over \in [Users -> Int], NEW extra \in Int, EarnersInv(over, extra),
         NEW b \in Users, NEW lot \in Int, NEW closes \in BOOLEAN,
         RedeemSingle(b, lot, closes)
  PROVE  EarnersInv(over, extra)'
<1> DEFINE m == MovePending(wjlp, b)
           p == pending[b]
           left == (coll[b] + p) - lot
           k == IF closes THEN Closing(m, left) ELSE m
           c == IF closes THEN 0 ELSE left
           s == IF closes THEN surplus[b] + left ELSE surplus[b]
<1>1. Storage(wjlp) /\ p \in Int /\ Touches(wjlp, m, b, p, -p, -p)
  BY AppliedTouches
<1>2. wjlp' = unwrapFor(k, "activePool", b, lot)
  BY DEF RedeemSingle, Calls, Entire
<1>3. /\ coll' = [coll EXCEPT ![b] = c] /\ pending' = [pending EXCEPT ![b] = 0]
      /\ UNCHANGED <<gains, stranded, tx>>
  BY DEF RedeemSingle, Leave, SetTrove, Entire
<1>4. surplus' = [surplus EXCEPT ![b] = s]
  BY DEF RedeemSingle, Leave, Entire, EarnersInv, EarnersTypes
<1>5. Storage(m) /\ left \in Int
  BY <1>1, InvFacts DEF Touches
<1> HIDE DEF m, left
<1>6. Storage(k) /\ Touches(wjlp, k, b, p, -p, -p)
  <2>1. CASE closes
    <3>1. Touches(m, k, b, 0, 0, 0)
      BY <1>5, <2>1, ClosingTouches
    <3>2. p + 0 = p /\ (-p) + 0 = -p /\ -p \in Int
      BY <1>1
    <3> HIDE DEF k, p
    <3>3. Touches(wjlp, k, b, p + 0, (-p) + 0, (-p) + 0)
      BY <1>1, <3>1, <3>2, TouchesTwice
    <3>4. Touches(wjlp, k, b, p, -p, -p)
      BY <3>2, <3>3
    <3> QED
      BY <3>4 DEF Touches, k, p
  <2>2. CASE ~closes
    BY <1>1, <1>5, <2>2
  <2> QED
    BY <2>1, <2>2
<1> HIDE DEF k
<1>7. Touches(k, wjlp', b, -lot, 0, 0)
  BY <1>2, <1>6, UnwrapForTouches
<1>8. /\ coll[b] \in Int /\ surplus[b] \in Int /\ stranded[b] \in Int
      /\ tx.toSP \in Int /\ tx.redist \in Int
  BY InvFacts
<1>9. /\ stranded' = [stranded EXCEPT ![b] = stranded[b]]
      /\ tx' \in TxType /\ (tx'.kind # "liquidation" => tx'.toSP = 0 /\ tx'.redist = 0)
  BY <1>3 DEF EarnersInv, EarnersTypes
<1>10. /\ c \in Int /\ s \in Int
       /\ -p \in Int /\ -lot \in Int /\ 0 \in Int /\ p + (-lot) \in Int
       /\ c + s - stranded[b] = coll[b] + surplus[b] - stranded[b] + (p + (-lot))
       /\ (-p) + 0 = -p
  BY <1>1, <1>8 DEF left
<1>11. -p = tx'.toSP + tx'.redist - tx.toSP - tx.redist - p
  BY <1>1, <1>3, <1>8
<1> HIDE DEF c, s, p
<1>12. Touches(wjlp, wjlp', b, p + (-lot), (-p) + 0, (-p) + 0)
  BY <1>1, <1>6, <1>7, <1>10, TouchesTwice
<1>13. Touches(wjlp, wjlp', b, p + (-lot), -p, -p)
  BY <1>10, <1>12
<1> QED
  BY <1>3, <1>4, <1>8, <1>9, <1>10, <1>11, <1>13, OwnerActionKeeps DEF p

(* A lot whose rewards the redemption manager takes.                       *)
LEMMA LotTouches ==
  ASSUME NEW over \in [Users -> Int], NEW extra \in Int, EarnersInv(over, extra),
         NEW b \in Users, NEW lot \in Int
  PROVE  /\ Storage(Lot(wjlp, b, lot))
         /\ Touches(wjlp, Lot(wjlp, b, lot), b, pending[b] + (-lot), -pending[b], -pending[b])
<1> DEFINE m == MovePending(wjlp, b)
           p == pending[b]
           r == Lot(wjlp, b, lot)
<1>1. Storage(wjlp) /\ p \in Int /\ Touches(wjlp, m, b, p, -p, -p)
  BY AppliedTouches
<1>2. Storage(m)
  BY <1>1 DEF Touches
<1>3. r = updateReward(m, b, "TMR", lot)
  BY DEF Lot
<1> HIDE DEF m, r
<1>4. Touches(m, r, b, -lot, 0, 0)
  BY <1>2, <1>3, UpdateRewardTouches DEF If
<1>5. -p \in Int /\ -lot \in Int /\ 0 \in Int /\ (-p) + 0 = -p
  BY <1>1
<1> HIDE DEF p
<1>6. Touches(wjlp, r, b, p + (-lot), (-p) + 0, (-p) + 0)
  BY <1>1, <1>4, <1>5, TouchesTwice
<1>7. Touches(wjlp, r, b, p + (-lot), -p, -p)
  BY <1>5, <1>6
<1>8. Storage(r)
  BY <1>7 DEF Touches
<1> QED
  BY <1>7, <1>8 DEF r, p

LEMMA RedeemFromTroveKeeps ==
  ASSUME NEW over \in [Users -> Int], NEW extra \in Int, EarnersInv(over, extra),
         NEW b \in Users, NEW lot \in Int, NEW closes \in BOOLEAN,
         RedeemFromTrove(b, lot, closes)
  PROVE  EarnersInv(over, extra)'
<1> DEFINE p == pending[b]
           left == (coll[b] + p) - lot
           l == Lot(wjlp, b, lot)
           c == IF closes THEN 0 ELSE left
           s == IF closes THEN surplus[b] + left ELSE surplus[b]
<1>1. Storage(l) /\ Touches(wjlp, l, b, p + (-lot), -p, -p)
  BY LotTouches
<1>2. wjlp' = IF closes THEN Closing(l, left) ELSE l
  BY DEF RedeemFromTrove, Calls, Entire
<1>3. /\ coll' = [coll EXCEPT ![b] = c] /\ pending' = [pending EXCEPT ![b] = 0]
      /\ UNCHANGED <<gains, stranded>>
  BY DEF RedeemFromTrove, Leave, SetTrove, Entire
<1>4. surplus' = [surplus EXCEPT ![b] = s]
  BY DEF RedeemFromTrove, Leave, Entire, EarnersInv, EarnersTypes
<1>5. /\ tx.kind # "liquidation"
      /\ tx' = Totals("redemption", 0, 0, 0, 0, tx.drawn + lot, ~closes)
  BY DEF RedeemFromTrove
<1>6. /\ Storage(wjlp) /\ p \in Int
      /\ coll[b] \in Int /\ surplus[b] \in Int /\ stranded[b] \in Int
      /\ left \in Int
  BY InvFacts
<1> HIDE DEF l, left
<1>7. -p \in Int /\ 0 \in Int /\ p + (-lot) \in Int /\ (-p) + 0 = -p /\ p + (-lot) + 0 = p + (-lot)
  BY <1>6
<1>8. Touches(wjlp, wjlp', b, p + (-lot), -p, -p)
  <2>1. CASE closes
    <3>1. Touches(l, wjlp', b, 0, 0, 0)
      BY <1>1, <1>2, <1>6, <2>1, ClosingTouches
    <3> HIDE DEF p
    <3>2. Touches(wjlp, wjlp', b, p + (-lot) + 0, (-p) + 0, (-p) + 0)
      BY <1>1, <1>6, <1>7, <3>1, TouchesTwice
    <3>3. Touches(wjlp, wjlp', b, p + (-lot), -p, -p)
      BY <1>7, <3>2
    <3> QED
      BY <3>3 DEF p
  <2>2. CASE ~closes
    BY <1>1, <1>2, <2>2
  <2> QED
    BY <2>1, <2>2
<1>9. /\ c \in Int /\ s \in Int
      /\ c + s - stranded[b] = coll[b] + surplus[b] - stranded[b] + (p + (-lot))
  BY <1>6 DEF left
<1>10. /\ tx' \in TxType /\ (tx'.kind # "liquidation" => tx'.toSP = 0 /\ tx'.redist = 0)
       /\ -p = tx'.toSP + tx'.redist - tx.toSP - tx.redist - p
  BY <1>5, <1>6 DEF EarnersInv, EarnersTypes, TxType, Totals
<1>11. stranded' = [stranded EXCEPT ![b] = stranded[b]]
  BY <1>3 DEF EarnersInv, EarnersTypes
<1> HIDE DEF c, s, p
<1> QED
  BY <1>3, <1>4, <1>6, <1>7, <1>8, <1>9, <1>10, <1>11, OwnerActionKeeps DEF p

LEMMA CancelPartialKeeps ==
  ASSUME NEW over \in [Users -> Int], NEW extra \in Int, EarnersInv(over, extra),
         NEW b \in Users, NEW lot \in Int, CancelPartial(b, lot)
  PROVE  EarnersInv(over, extra)'
<1> DEFINE p == pending[b]
           c == coll[b] + p
           z == stranded[b] + lot
<1>1. Touches(wjlp, wjlp', b, p + (-lot), -p, -p)
  BY LotTouches DEF CancelPartial, Calls
<1>2. /\ coll' = [coll EXCEPT ![b] = c] /\ pending' = [pending EXCEPT ![b] = 0]
      /\ UNCHANGED <<surplus, gains>>
  BY DEF CancelPartial, SetTrove, Entire
<1>3. stranded' = [stranded EXCEPT ![b] = z]
  BY DEF CancelPartial, EarnersInv, EarnersTypes
<1>4. tx' = [tx EXCEPT !.ended = TRUE]
  BY DEF CancelPartial
<1>5. /\ p \in Int /\ coll[b] \in Int /\ surplus[b] \in Int /\ stranded[b] \in Int
      /\ tx.toSP \in Int /\ tx.redist \in Int
  BY InvFacts
<1>6. /\ c \in Int /\ z \in Int /\ -p \in Int /\ p + (-lot) \in Int
      /\ c + surplus[b] - z = coll[b] + surplus[b] - stranded[b] + (p + (-lot))
  BY <1>5
<1>7. /\ tx' \in TxType /\ (tx'.kind # "liquidation" => tx'.toSP = 0 /\ tx'.redist = 0)
      /\ tx'.toSP = tx.toSP /\ tx'.redist = tx.redist
  BY <1>4 DEF EarnersInv, EarnersTypes, TxType
<1>8. -p = tx'.toSP + tx'.redist - tx.toSP - tx.redist - p
  BY <1>5, <1>7
<1>9. surplus' = [surplus EXCEPT ![b] = surplus[b]]
  BY <1>2 DEF EarnersInv, EarnersTypes
<1> HIDE DEF c, z, p
<1> QED
  BY <1>1, <1>2, <1>3, <1>5, <1>6, <1>7, <1>8, <1>9, OwnerActionKeeps DEF p

LEMMA LiquidateTroveKeeps ==
  ASSUME NEW over \in [Users -> Int], NEW extra \in Int, EarnersInv(over, extra),
         NEW b \in Users, NEW capped \in Int, NEW toSP \in Int,
         LiquidateTrove(b, capped, toSP)
  PROVE  EarnersInv(over, extra)'
<1> DEFINE m == MovePending(wjlp, b)
           p == pending[b]
           gas == capped \div PERCENT_DIVISOR
           redist == capped - gas - toSP
           left == (coll[b] + p) - capped
           pools == toSP + redist
           g == updateReward(m, b, "treasury", pools)
           s == surplus[b] + left
<1>1. Storage(wjlp) /\ p \in Int /\ Touches(wjlp, m, b, p, -p, -p)
  BY AppliedTouches
<1>2. gas \in Int
  BY CollateralAssumption
<1>3. wjlp' = updateReward(g, b, "TML", gas)
  BY DEF LiquidateTrove, Calls, SplitRewards
<1>4. /\ coll' = [coll EXCEPT ![b] = 0] /\ pending' = [pending EXCEPT ![b] = 0]
      /\ surplus' = [surplus EXCEPT ![b] = s]
      /\ UNCHANGED <<gains, stranded>>
  BY DEF LiquidateTrove, SetTrove, Entire, EarnersInv, EarnersTypes
<1>5. tx' = Totals("liquidation", tx.toSP + toSP, tx.redist + redist,
                   tx.surplus + left, tx.gas + gas, 0, FALSE)
  BY DEF LiquidateTrove, Entire
<1>6. Storage(m)
  BY <1>1 DEF Touches
<1> HIDE DEF m, gas
<1>7. /\ redist \in Int /\ pools \in Int /\ pools + gas = capped
  BY <1>2
<1>8. /\ coll[b] \in Int /\ surplus[b] \in Int /\ stranded[b] \in Int
      /\ tx.toSP \in Int /\ tx.redist \in Int
  BY InvFacts
<1>9. left \in Int /\ s \in Int
  BY <1>1, <1>8
<1> HIDE DEF g, pools
<1>10. Touches(m, g, b, -pools, pools, 0) /\ Storage(g)
  <2>1. g = updateReward(m, b, "treasury", pools)
    BY DEF g
  <2>2. Touches(m, g, b, -pools, pools, 0)
    BY <1>6, <1>7, <2>1, UpdateRewardTouches DEF If
  <2> QED
    BY <2>2 DEF Touches
<1>11. Touches(g, wjlp', b, -gas, 0, 0)
  BY <1>2, <1>3, <1>10, UpdateRewardTouches DEF If
<1> DEFINE y == p + (-pools) + (-gas)
           t == (-p) + pools + 0
<1>12. /\ -p \in Int /\ -pools \in Int /\ -gas \in Int /\ 0 \in Int
       /\ p + (-pools) \in Int /\ (-p) + pools \in Int /\ (-p) + 0 \in Int
       /\ y \in Int /\ t \in Int /\ (-p) + 0 + 0 = -p
       /\ 0 + s - stranded[b] = coll[b] + surplus[b] - stranded[b] + y
  BY <1>1, <1>2, <1>7, <1>8
<1>13. /\ tx' \in TxType /\ tx'.kind = "liquidation"
       /\ tx'.toSP = tx.toSP + toSP /\ tx'.redist = tx.redist + redist
  BY <1>2, <1>5, <1>7, <1>9 DEF EarnersInv, EarnersTypes, TxType, Totals
<1>14. t = tx'.toSP + tx'.redist - tx.toSP - tx.redist - p
  <2>1. pools = toSP + redist
    BY DEF pools
  <2> QED
    BY <1>1, <1>7, <1>8, <1>13, <2>1
<1> HIDE DEF p, s, redist, left
<1>15. Touches(wjlp, g, b, p + (-pools), (-p) + pools, (-p) + 0)
  BY <1>1, <1>7, <1>10, <1>12, TouchesTwice
<1>16. Touches(wjlp, wjlp', b, y, t, (-p) + 0 + 0)
  BY <1>1, <1>11, <1>12, <1>15, TouchesTwice
<1>17. Touches(wjlp, wjlp', b, y, t, -p)
  BY <1>12, <1>16
<1>18. stranded' = [stranded EXCEPT ![b] = stranded[b]]
  BY <1>4 DEF EarnersInv, EarnersTypes
<1> HIDE DEF y, t
<1> QED
  BY <1>4, <1>8, <1>9, <1>12, <1>13, <1>14, <1>17, <1>18, OwnerActionKeeps DEF p

LEMMA ClaimSurplusKeeps ==
  ASSUME NEW over \in [Users -> Int], NEW extra \in Int, EarnersInv(over, extra),
         NEW u \in Users, ClaimSurplus(u)
  PROVE  EarnersInv(over, extra)'
<1> DEFINE n == surplus[u]
<1>1. /\ Storage(wjlp) /\ n \in Int /\ coll[u] \in Int /\ stranded[u] \in Int
      /\ Yeti(wjlp, u) \in Int
  BY InvFacts
<1>2. wjlp' = unwrapFor(wjlp, "collSurplusPool", u, n)
  BY DEF ClaimSurplus, Calls
<1>3. Touches(wjlp, wjlp', u, -n, 0, 0)
  BY <1>1, <1>2, UnwrapForTouches
<1>4. surplus' = [surplus EXCEPT ![u] = 0] /\ UNCHANGED <<coll, pending, gains, stranded, tx>>
  BY DEF ClaimSurplus
<1>5. surplus'[u] = 0 /\ \A x \in Users \ {u} : surplus'[x] = surplus[x]
  BY <1>4 DEF EarnersInv, EarnersTypes
<1>6. \A x \in Users : Yeti(wjlp', x) + stranded'[x] = coll'[x] + surplus'[x] + over[x]
  <2>1. Yeti(wjlp', u) + stranded'[u] = coll'[u] + surplus'[u] + over[u]
    <3>1. Yeti(wjlp', u) = Yeti(wjlp, u) + (-n)
      BY <1>3 DEF Touches
    <3>2. Yeti(wjlp, u) + stranded[u] = coll[u] + n + over[u] /\ over[u] \in Int
      BY InvFacts
    <3> QED
      BY <1>1, <1>4, <1>5, <3>1, <3>2
  <2>2. \A x \in Users \ {u} : Yeti(wjlp', x) = Yeti(wjlp, x)
    BY <1>3 DEF Touches
  <2> QED
    BY <1>4, <1>5, <2>1, <2>2, InvFacts
<1>7. Yeti(wjlp', "treasury") = wjlp'.balances["stabilityPool"]
        + wjlp'.balances["defaultPool"] + tx'.toSP + tx'.redist + extra
  <2>1. /\ Yeti(wjlp', "treasury") = Yeti(wjlp, "treasury") + 0
        /\ wjlp'.balances["stabilityPool"] = wjlp.balances["stabilityPool"]
        /\ wjlp'.balances["defaultPool"] = wjlp.balances["defaultPool"] + 0
    BY <1>3 DEF Touches
  <2> QED
    BY <1>4, <2>1, InvFacts
<1>8. Storage(wjlp')
  BY <1>3 DEF Touches
<1> QED
  BY <1>4, <1>6, <1>7, <1>8, InvFromEffect DEF EarnersInv, EarnersTypes

LEMMA ClaimGainsKeeps ==
  ASSUME NEW over \in [Users -> Int], NEW extra \in Int, EarnersInv(over, extra),
         NEW n \in Int, ClaimGains(n)
  PROVE  EarnersInv(over, extra)'
<1> DEFINE m == updateReward(wjlp, "treasury", "stabilityPool", n)
<1>1. /\ Storage(wjlp) /\ "treasury" \in Accounts /\ "stabilityPool" \in Accounts
      /\ "defaultPool" \in Accounts
  BY InvFacts, AccountsDiffer
<1>2. /\ Storage(m) /\ m.balances = wjlp.balances
      /\ \A x \in Accounts : Yeti(m, x) =
           Yeti(wjlp, x) - If(x, "treasury", n) + If(x, "stabilityPool", n)
  BY <1>1, UpdateRewardEffect
<1>3. wjlp' = unwrapFor(m, "stabilityPool", "stabilityPool", n)
  BY DEF ClaimGains, Calls, SendGains
<1>4. gains' = gains - n /\ UNCHANGED <<coll, surplus, pending, stranded, tx>>
  BY DEF ClaimGains
<1> HIDE DEF m
<1>5. /\ Storage(wjlp')
      /\ \A x \in Accounts : Yeti(wjlp', x) = Yeti(m, x) - If(x, "stabilityPool", n)
      /\ \A x \in Accounts : wjlp'.balances[x] = m.balances[x] - If(x, "stabilityPool", n)
  <2>1. Storage(m) /\ "stabilityPool" \in Accounts
    BY <1>1, <1>2
  <2>2. LET r == unwrapFor(m, "stabilityPool", "stabilityPool", n)
        IN  /\ Storage(r)
            /\ \A x \in Accounts : Yeti(r, x) = Yeti(m, x) - If(x, "stabilityPool", n)
            /\ \A x \in Accounts : r.balances[x] = m.balances[x] - If(x, "stabilityPool", n)
    BY <2>1, UnwrapForEffect
  <2> QED
    BY <1>3, <2>2
<1>6. \A x \in Accounts : Yeti(wjlp, x) \in Int /\ wjlp.balances[x] \in Int
  BY <1>1 DEF Storage
<1>7. \A x \in Users : Yeti(wjlp', x) = Yeti(wjlp, x)
  BY <1>2, <1>5, <1>6, AccountsDiffer DEF If
<1>8. /\ Yeti(wjlp', "treasury") = Yeti(wjlp, "treasury") - n
      /\ wjlp'.balances["stabilityPool"] = wjlp.balances["stabilityPool"] - n
      /\ wjlp'.balances["defaultPool"] = wjlp.balances["defaultPool"]
  BY <1>1, <1>2, <1>5, <1>6 DEF If
<1>9. \A x \in Users : Yeti(wjlp', x) + stranded'[x] = coll'[x] + surplus'[x] + over[x]
  BY <1>4, <1>7, InvFacts
<1>10. Yeti(wjlp', "treasury") = wjlp'.balances["stabilityPool"]
         + wjlp'.balances["defaultPool"] + tx'.toSP + tx'.redist + extra
  BY <1>4, <1>8, InvFacts
<1>11. gains' \in Int
  BY <1>4 DEF EarnersInv, EarnersTypes
<1> QED
  BY <1>4, <1>5, <1>9, <1>10, <1>11, InvFromEffect DEF EarnersInv, EarnersTypes

LEMMA FinishRedemptionKeeps ==
  ASSUME NEW over \in [Users -> Int], NEW extra \in Int, EarnersInv(over, extra),
         FinishRedemption
  PROVE  EarnersInv(over, extra)'
<1>1. /\ Storage(wjlp) /\ tx.drawn \in Int
      /\ "activePool" \in Accounts /\ "TMR" \in Accounts
  BY InvFacts, AccountsDiffer DEF EarnersInv, EarnersTypes, TxType
<1>2. wjlp' = unwrapFor(wjlp, "activePool", "TMR", tx.drawn)
  BY DEF FinishRedemption, Calls
<1>3. /\ tx.toSP = 0 /\ tx.redist = 0 /\ tx' = NoTx
      /\ UNCHANGED <<coll, surplus, pending, gains, stranded>>
  BY DEF FinishRedemption, EarnersInv, EarnersTypes
<1>4. /\ Storage(wjlp')
      /\ \A x \in Accounts : Yeti(wjlp', x) = Yeti(wjlp, x) - If(x, "TMR", tx.drawn)
      /\ \A x \in Accounts : wjlp'.balances[x] = wjlp.balances[x] - If(x, "activePool", tx.drawn)
  BY <1>1, <1>2, UnwrapForEffect
<1>5. \A x \in Accounts : Yeti(wjlp, x) \in Int /\ wjlp.balances[x] \in Int
  BY <1>1 DEF Storage
<1>6. \A x \in Users : Yeti(wjlp', x) = Yeti(wjlp, x)
  BY <1>4, <1>5, AccountsDiffer DEF If
<1>7. /\ Yeti(wjlp', "treasury") = Yeti(wjlp, "treasury")
      /\ wjlp'.balances["stabilityPool"] = wjlp.balances["stabilityPool"]
      /\ wjlp'.balances["defaultPool"] = wjlp.balances["defaultPool"]
  BY <1>4, <1>5, AccountsDiffer DEF If
<1>8. /\ tx' \in TxType /\ tx'.toSP = 0 /\ tx'.redist = 0
  BY <1>3 DEF NoTx, Totals, TxType
<1>9. \A x \in Users : Yeti(wjlp', x) + stranded'[x] = coll'[x] + surplus'[x] + over[x]
  BY <1>3, <1>6, InvFacts
<1>10. Yeti(wjlp', "treasury") = wjlp'.balances["stabilityPool"]
         + wjlp'.balances["defaultPool"] + tx'.toSP + tx'.redist + extra
  BY <1>3, <1>7, <1>8, InvFacts
<1> QED
  BY <1>3, <1>4, <1>8, <1>9, <1>10, InvFromEffect DEF EarnersInv, EarnersTypes

(* Settling a batch: the pools get what the treasury already earns for.    *)
LEMMA SettleEffect ==
  ASSUME NEW v, Storage(v), NEW totals \in TxType
  PROVE  LET r == Settle(v, totals)
         IN  /\ Storage(r)
             /\ \A x \in Users \cup {"treasury"} : Yeti(r, x) = Yeti(v, x)
             /\ r.balances["stabilityPool"] = v.balances["stabilityPool"] + totals.toSP
             /\ r.balances["defaultPool"] = v.balances["defaultPool"] + totals.redist
<1> DEFINE n1 == totals.toSP
           n2 == totals.redist
           n3 == totals.surplus
           n4 == totals.gas
           o == transfer(v, "activePool", "stabilityPool", n1)
           m == transfer(o, "activePool", "defaultPool", n2)
           k == transfer(m, "activePool", "collSurplusPool", n3)
           r == unwrapFor(k, "activePool", "TML", n4)
<1>1. /\ "activePool" \in Accounts /\ "stabilityPool" \in Accounts
      /\ "defaultPool" \in Accounts /\ "collSurplusPool" \in Accounts
      /\ "TML" \in Accounts
      /\ n1 \in Int /\ n2 \in Int /\ n3 \in Int /\ n4 \in Int
  BY AccountsDiffer DEF TxType
<1> HIDE DEF n1, n2, n3, n4
<1>2. /\ Storage(o) /\ \A x \in Accounts : Yeti(o, x) = Yeti(v, x)
      /\ \A x \in Accounts : o.balances[x] =
           v.balances[x] - If(x, "activePool", n1) + If(x, "stabilityPool", n1)
  BY <1>1, TransferEffect
<1> HIDE DEF o
<1>3. Storage(o)
  BY <1>2
<1>4. /\ Storage(m) /\ \A x \in Accounts : Yeti(m, x) = Yeti(o, x)
      /\ \A x \in Accounts : m.balances[x] =
           o.balances[x] - If(x, "activePool", n2) + If(x, "defaultPool", n2)
  BY <1>1, <1>3, TransferEffect
<1> HIDE DEF m
<1>5. Storage(m)
  BY <1>4
<1>6. /\ Storage(k) /\ \A x \in Accounts : Yeti(k, x) = Yeti(m, x)
      /\ \A x \in Accounts : k.balances[x] = m.balances[x]
           - If(x, "activePool", n3) + If(x, "collSurplusPool", n3)
  BY <1>1, <1>5, TransferEffect
<1> HIDE DEF k
<1>7. Storage(k)
  BY <1>6
<1>8. /\ Storage(r)
      /\ \A x \in Accounts : Yeti(r, x) = Yeti(k, x) - If(x, "TML", n4)
      /\ \A x \in Accounts : r.balances[x] = k.balances[x] - If(x, "activePool", n4)
  BY <1>1, <1>7, UnwrapForEffect
<1>9. r = Settle(v, totals)
  BY DEF Settle, o, m, k, n1, n2, n3, n4
<1> HIDE DEF r
<1>10. \A x \in Accounts : Yeti(v, x) \in Int /\ v.balances[x] \in Int
  BY DEF Storage
<1>11. \A x \in Users \cup {"treasury"} : Yeti(r, x) = Yeti(v, x)
  <2> SUFFICES ASSUME NEW x \in Users \cup {"treasury"} PROVE Yeti(r, x) = Yeti(v, x)
    OBVIOUS
  <2>1. x \in Accounts /\ x # "TML"
    BY AccountsDiffer
  <2>2. Yeti(k, x) = Yeti(v, x) /\ Yeti(v, x) \in Int
    BY <1>2, <1>4, <1>6, <1>10, <2>1
  <2>3. Yeti(r, x) = Yeti(k, x) - 0
    BY <1>8, <2>1 DEF If
  <2> QED
    BY <2>2, <2>3
<1>12. r.balances["stabilityPool"] = v.balances["stabilityPool"] + n1
  BY <1>1, <1>2, <1>4, <1>6, <1>8, <1>10 DEF If
<1>13. r.balances["defaultPool"] = v.balances["defaultPool"] + n2
  BY <1>1, <1>2, <1>4, <1>6, <1>8, <1>10 DEF If
<1> QED
  BY <1>8, <1>9, <1>11, <1>12, <1>13 DEF n1, n2

LEMMA FinishLiquidationKeeps ==
  ASSUME NEW over \in [Users -> Int], NEW extra \in Int, EarnersInv(over, extra),
         NEW shares \in [Users -> Int], FinishLiquidation(shares)
  PROVE  EarnersInv(over, extra)'
<1>1. Storage(wjlp) /\ tx \in TxType
  BY DEF EarnersInv, EarnersTypes
<1>2. /\ Storage(wjlp')
      /\ \A x \in Users \cup {"treasury"} : Yeti(wjlp', x) = Yeti(wjlp, x)
      /\ wjlp'.balances["stabilityPool"] = wjlp.balances["stabilityPool"] + tx.toSP
      /\ wjlp'.balances["defaultPool"] = wjlp.balances["defaultPool"] + tx.redist
  <2>1. wjlp' = Settle(wjlp, tx)
    BY DEF FinishLiquidation, Calls
  <2> QED
    BY <1>1, <2>1, SettleEffect
<1>3. /\ tx' = NoTx /\ gains' = gains + tx.toSP
      /\ pending' = [u \in Users |-> pending[u] + shares[u]]
      /\ UNCHANGED <<coll, surplus, stranded>>
  BY DEF FinishLiquidation
<1>4. /\ tx' \in TxType /\ tx'.toSP = 0 /\ tx'.redist = 0
  BY <1>3 DEF NoTx, Totals, TxType
<1>5. /\ coll' \in [Users -> Int] /\ surplus' \in [Users -> Int]
      /\ stranded' \in [Users -> Int] /\ gains' \in Int
  BY <1>1, <1>3 DEF EarnersInv, EarnersTypes, TxType
<1>6. pending' \in [Users -> Int]
  BY <1>3 DEF EarnersInv, EarnersTypes
<1>7. \A x \in Users : Yeti(wjlp', x) + stranded'[x] = coll'[x] + surplus'[x] + over[x]
  BY <1>2, <1>3, InvFacts
<1>8. Yeti(wjlp', "treasury") = wjlp'.balances["stabilityPool"]
        + wjlp'.balances["defaultPool"] + tx'.toSP + tx'.redist + extra
  BY <1>2, <1>4, InvFacts
<1> QED
  BY <1>2, <1>4, <1>5, <1>6, <1>7, <1>8, InvFromEffect


-----------------------------------------------------------------------------
(* Calls that are not the protocol's and that change these differences:    *)
(* wraps and transfers, for any account and to any.                        *)
Outsiders ==
  \/ \E n \in Amounts, to \in Destinations, r \in RewardRecipients : WrapOwn(n, to, r)
  \/ \E u \in Users, n \in Amounts, to \in Destinations : Transfer(u, to, n)

LEMMA ProtocolKeepsEarners ==
  ASSUME NEW over \in [Users -> Int], NEW extra \in Int, EarnersInv(over, extra),
         [Next]_vars, ~Outsiders
  PROVE  EarnersInv(over, extra)'
<1>1. CASE UNCHANGED vars
  BY <1>1 DEF vars, EarnersInv, EarnersTypes, Storage, Yeti
<1>2. ASSUME NEW u \in Users, UserNext(u) PROVE EarnersInv(over, extra)'
  <2>1. ASSUME NEW n \in Amounts, Deposit(u, n) \/ Withdraw(u, n) \/ UnwrapOwn(u, n)
        PROVE  EarnersInv(over, extra)'
    BY <2>1, DepositKeeps, WithdrawKeeps, UnwrapOwnKeeps
  <2>2. ~ \E n \in Amounts, to \in Destinations : Transfer(u, to, n)
    BY DEF Outsiders
  <2>3. ASSUME ApplyPendingRewards(u) \/ ClaimReward(u) \/ ClaimSurplus(u)
        PROVE  EarnersInv(over, extra)'
    BY <2>3, ApplyPendingRewardsKeeps, ClaimRewardKeeps, ClaimSurplusKeeps
  <2> QED
    BY <1>2, <2>1, <2>2, <2>3 DEF UserNext
<1>3. ASSUME NEW b \in Users, TroveNext(b) PROVE EarnersInv(over, extra)'
  <2>1. 0..Entire(b) \subseteq Int
    OBVIOUS
  <2>2. ASSUME NEW capped \in 0..Entire(b), NEW toSP \in 0..Entire(b),
               LiquidateTrove(b, capped, toSP)
        PROVE  EarnersInv(over, extra)'
    BY <2>1, <2>2, LiquidateTroveKeeps
  <2>3. ASSUME NEW lot \in 0..Entire(b), NEW closes \in BOOLEAN,
               RedeemFromTrove(b, lot, closes) \/ RedeemSingle(b, lot, closes)
        PROVE  EarnersInv(over, extra)'
    BY <2>1, <2>3, RedeemFromTroveKeeps, RedeemSingleKeeps
  <2>4. ASSUME NEW lot \in 0..Entire(b), CancelPartial(b, lot)
        PROVE  EarnersInv(over, extra)'
    BY <2>1, <2>4, CancelPartialKeeps
  <2> QED
    BY <1>3, <2>2, <2>3, <2>4 DEF TroveNext
<1>4. ASSUME NEW n \in 1..gains, ClaimGains(n) PROVE EarnersInv(over, extra)'
  <2>1. n \in Int
    OBVIOUS
  <2> QED
    BY <1>4, <2>1, ClaimGainsKeeps
<1>5. ASSUME NEW shares \in Shares(tx.redist), FinishLiquidation(shares)
      PROVE  EarnersInv(over, extra)'
  <2>1. shares \in [Users -> Int]
    BY DEF Shares
  <2> QED
    BY <1>5, <2>1, FinishLiquidationKeeps
<1>6. ~ \E n \in Amounts, to \in Destinations, r \in RewardRecipients : WrapOwn(n, to, r)
  BY DEF Outsiders
<1> QED
  BY <1>1, <1>2, <1>3, <1>4, <1>5, <1>6, FinishRedemptionKeeps, JoeAccruesKeeps DEF Next

(* A wrap or a transfer adds shares and tokens: only the sender, a user,   *)
(* has fewer tokens after it.                                              *)
LEMMA OutsidersAdd ==
  ASSUME EarnersTypes, Outsiders
  PROVE  /\ EarnersTypes'
         /\ \A a \in Accounts : Yeti(wjlp', a) >= Yeti(wjlp, a)
         /\ \A a \in Accounts \ Users : wjlp'.balances[a] >= wjlp.balances[a]
         /\ UNCHANGED <<coll, surplus, pending, gains, stranded, tx>>
<1>1. \A a \in Accounts : Yeti(wjlp, a) \in Int /\ wjlp.balances[a] \in Int
  BY DEF EarnersTypes, Storage
<1>2. Storage(wjlp)
  BY DEF EarnersTypes
<1> DEFINE Added ==
      /\ Storage(wjlp')
      /\ \A a \in Accounts : Yeti(wjlp', a) >= Yeti(wjlp, a)
      /\ \A a \in Accounts \ Users : wjlp'.balances[a] >= wjlp.balances[a]
      /\ UNCHANGED <<coll, surplus, pending, gains, stranded, tx>>
<1> HIDE DEF Added
<1>3. ASSUME NEW n \in Amounts, NEW to \in Destinations, NEW r \in RewardRecipients,
             WrapOwn(n, to, r)
      PROVE  Added
  <2>1. n \in Nat /\ to \in Accounts /\ r \in Accounts
    BY CollateralAssumption
  <2>2. wjlp' = wrap(wjlp, n, to, r) /\ UNCHANGED <<coll, surplus, pending, gains, stranded, tx>>
    BY <1>3 DEF WrapOwn, Calls
  <2>3. /\ Storage(wjlp')
        /\ \A x \in Accounts : Yeti(wjlp', x) =
             Yeti(wjlp, x) + (IF to = "activePool" THEN If(x, r, n) ELSE 0)
        /\ \A x \in Accounts : wjlp'.balances[x] = wjlp.balances[x] + If(x, to, n)
    <3>1. n \in Int /\ to \in Accounts /\ r \in Accounts /\ Storage(wjlp)
      BY <1>2, <2>1
    <3>2. LET w == wrap(wjlp, n, to, r)
          IN  /\ Storage(w)
              /\ \A x \in Accounts : Yeti(w, x) =
                   Yeti(wjlp, x) + (IF to = "activePool" THEN If(x, r, n) ELSE 0)
              /\ \A x \in Accounts : w.balances[x] = wjlp.balances[x] + If(x, to, n)
      BY ONLY <3>1, WrapEffect
    <3> QED
      BY <2>2, <3>2
  <2>4. \A x \in Accounts : If(x, r, n) \in Nat /\ If(x, to, n) \in Nat
    BY <2>1 DEF If
  <2>5. \A x \in Accounts : Yeti(wjlp', x) >= Yeti(wjlp, x)
    <3> SUFFICES ASSUME NEW x \in Accounts PROVE Yeti(wjlp', x) >= Yeti(wjlp, x)
      OBVIOUS
    <3> DEFINE k == IF to = "activePool" THEN If(x, r, n) ELSE 0
               y == Yeti(wjlp, x)
    <3>0. k \in Nat /\ y \in Int
      BY <1>1, <2>4
    <3>1. k \in Nat /\ y \in Int /\ Yeti(wjlp', x) = y + k
      BY <2>3, <3>0
    <3> HIDE DEF k, y
    <3>2. Yeti(wjlp', x) >= y
      BY ONLY <3>1
    <3> QED
      BY <3>2 DEF y
  <2>6. \A x \in Accounts \ Users : wjlp'.balances[x] >= wjlp.balances[x]
    <3> SUFFICES ASSUME NEW x \in Accounts PROVE wjlp'.balances[x] >= wjlp.balances[x]
      OBVIOUS
    <3> DEFINE k == If(x, to, n)
               y == wjlp.balances[x]
               z == wjlp'.balances[x]
    <3>1. k \in Nat /\ y \in Int /\ z = y + k
      BY <1>1, <2>3, <2>4
    <3> HIDE DEF k, y, z
    <3>2. z >= y
      BY ONLY <3>1
    <3> QED
      BY <3>2 DEF y, z
  <2> QED
    BY <2>2, <2>3, <2>5, <2>6 DEF Added
<1>4. ASSUME NEW u \in Users, NEW n \in Amounts, NEW to \in Destinations, Transfer(u, to, n)
      PROVE  Added
  <2>1. n \in Nat /\ to \in Accounts /\ u \in Accounts
    BY CollateralAssumption, AccountsDiffer
  <2>2. /\ wjlp' = transfer(wjlp, u, to, n)
        /\ UNCHANGED <<coll, surplus, pending, gains, stranded, tx>>
    BY <1>4 DEF Transfer, Calls
  <2>3. /\ Storage(wjlp')
        /\ \A x \in Accounts : Yeti(wjlp', x) = Yeti(wjlp, x)
        /\ \A x \in Accounts :
             wjlp'.balances[x] = wjlp.balances[x] - If(x, u, n) + If(x, to, n)
    <3>1. n \in Int /\ to \in Accounts /\ u \in Accounts /\ Storage(wjlp)
      BY <1>2, <2>1
    <3>2. LET w == transfer(wjlp, u, to, n)
          IN  /\ Storage(w)
              /\ \A x \in Accounts : Yeti(w, x) = Yeti(wjlp, x)
              /\ \A x \in Accounts :
                   w.balances[x] = wjlp.balances[x] - If(x, u, n) + If(x, to, n)
      BY <3>1, TransferEffect
    <3> QED
      BY <2>2, <3>2
  <2> QED
    BY <1>1, <2>1, <2>2, <2>3 DEF If, Added
<1>5. Added
  BY <1>3, <1>4 DEF Outsiders
<1> QED
  BY <1>5 DEF EarnersTypes, Added

LEMMA StepKeepsTypes == EarnersTypes /\ [Next]_vars => EarnersTypes'
<1> SUFFICES ASSUME EarnersTypes, [Next]_vars PROVE EarnersTypes'
  OBVIOUS
<1>1. PICK over \in [Users -> Int], extra \in Int : EarnersInv(over, extra)
  BY SomeDifferences
<1>2. CASE Outsiders
  BY <1>2, OutsidersAdd
<1>3. CASE ~Outsiders
  <2>1. EarnersInv(over, extra)'
    BY <1>1, <1>3, ProtocolKeepsEarners
  <2> QED
    BY <2>1 DEF EarnersInv
<1> QED
  BY <1>2, <1>3

(* What a user has in amountInYeti beyond what it needs never gets less.   *)
LEMMA CoverInYetiGrows ==
  ASSUME EarnersTypes, [Next]_vars, NEW u \in Users
  PROVE  CoverInYeti(u)' >= CoverInYeti(u)
<1>1. PICK over \in [Users -> Int], extra \in Int : EarnersInv(over, extra)
  BY SomeDifferences
<1>2. /\ Yeti(wjlp, u) + stranded[u] = coll[u] + surplus[u] + over[u]
      /\ over[u] \in Int /\ Yeti(wjlp, u) \in Int /\ stranded[u] \in Int
      /\ coll[u] \in Int /\ surplus[u] \in Int
  BY <1>1, InvFacts
<1>3. CoverInYeti(u) = Yeti(wjlp, u) - (coll[u] + surplus[u] - stranded[u])
  BY DEF CoverInYeti, Needed, InYeti, Yeti
<1>4. CoverInYeti(u)' = Yeti(wjlp', u) - (coll'[u] + surplus'[u] - stranded'[u])
  BY DEF CoverInYeti, Needed, InYeti, Yeti
<1>5. EarnersTypes'
  BY StepKeepsTypes
<1>6. /\ Yeti(wjlp', u) \in Int /\ stranded'[u] \in Int
      /\ coll'[u] \in Int /\ surplus'[u] \in Int
  BY <1>5, AccountsDiffer DEF EarnersTypes, Storage
<1>7. CASE Outsiders
  <2>1. Yeti(wjlp', u) >= Yeti(wjlp, u) /\ UNCHANGED <<coll, surplus, stranded>>
    BY <1>7, OutsidersAdd, AccountsDiffer
  <2> QED
    BY <1>2, <1>3, <1>4, <1>6, <2>1
<1>8. CASE ~Outsiders
  <2>1. EarnersInv(over, extra)'
    BY <1>1, <1>8, ProtocolKeepsEarners
  <2>2. Yeti(wjlp', u) + stranded'[u] = coll'[u] + surplus'[u] + over[u]
    BY <2>1 DEF EarnersInv
  <2> QED
    BY <1>2, <1>3, <1>4, <1>6, <2>2
<1> QED
  BY <1>7, <1>8

(* What the treasury has beyond what the two pools hold and will be sent   *)
(* is changed by outsiders only, and then what the pools hold grows.       *)
TreasuryGap(v, totals) ==
  Yeti(v, "treasury") - v.balances["stabilityPool"] - v.balances["defaultPool"]
    - totals.toSP - totals.redist

LEMMA TreasuryGapStays ==
  ASSUME EarnersTypes, [Next]_vars, ~Outsiders
  PROVE  TreasuryGap(wjlp', tx') = TreasuryGap(wjlp, tx)
<1>1. PICK over \in [Users -> Int], extra \in Int : EarnersInv(over, extra)
  BY SomeDifferences
<1>2. EarnersInv(over, extra)'
  BY <1>1, ProtocolKeepsEarners
<1>3. /\ wjlp.balances["stabilityPool"] \in Int /\ wjlp.balances["defaultPool"] \in Int
      /\ tx.toSP \in Int /\ tx.redist \in Int
      /\ Yeti(wjlp, "treasury") = wjlp.balances["stabilityPool"]
           + wjlp.balances["defaultPool"] + tx.toSP + tx.redist + extra
  BY <1>1, InvFacts
<1>4. /\ wjlp'.balances["stabilityPool"] \in Int /\ wjlp'.balances["defaultPool"] \in Int
      /\ tx'.toSP \in Int /\ tx'.redist \in Int
      /\ Yeti(wjlp', "treasury") = wjlp'.balances["stabilityPool"]
           + wjlp'.balances["defaultPool"] + tx'.toSP + tx'.redist + extra
  BY <1>2, AccountsDiffer DEF EarnersInv, EarnersTypes, Storage, TxType
<1>5. TreasuryGap(wjlp, tx) = extra
  BY <1>3 DEF TreasuryGap
<1>6. TreasuryGap(wjlp', tx') = extra
  BY <1>4 DEF TreasuryGap
<1> QED
  BY <1>5, <1>6
-----------------------------------------------------------------------------
(* The numbers of WJLP's storage.  Books adds to Storage the other fields, *)
(* how far the shares of all accounts (by x) and their tokens (by y) are   *)
(* from what is staked, and that nothing is under zero unless a call has   *)
(* reverted.                                                               *)
Fields(v) ==
  v \in [userInfo : [Accounts -> [amount : Int, rewardDebt : Int,
                                  unclaimedJOEReward : Int, amountInYeti : Int]],
         balances : [Accounts -> Int], staked : Int, chefDebt : Int,
         accJoePerShare : Nat, joe : Int, reverted : BOOLEAN]

Signs(v) ==
  /\ v.staked >= 0 /\ v.joe >= 0
  /\ v.chefDebt >= 0 /\ v.chefDebt <= Earned(v, v.staked)
  /\ \A a \in Accounts :
       LET user == v.userInfo[a]
       IN  /\ user.amount >= 0 /\ user.amountInYeti >= 0 /\ v.balances[a] >= 0
           /\ user.unclaimedJOEReward >= 0
           /\ user.rewardDebt >= 0 /\ user.rewardDebt <= Earned(v, user.amount)

AmountSum(v) == SumFunctionOnSet([a \in Accounts |-> v.userInfo[a].amount], Accounts)
BalanceSum(v) == SumFunctionOnSet(v.balances, Accounts)

Books(v, x, y) ==
  /\ Fields(v)
  /\ AmountSum(v) = v.staked + x /\ BalanceSum(v) = v.staked + y
  /\ v.reverted \/ Signs(v)

LEMMA EarnedInt ==
  ASSUME NEW v, v.accJoePerShare \in Nat, NEW n \in Int
  PROVE  Earned(v, n) \in Int /\ (n >= 0 => Earned(v, n) >= 0)
<1>1. CASE n >= 0
  <2>1. n * v.accJoePerShare \in Nat
    BY <1>1, ProductNat
  <2> QED
    BY <2>1, FloorFits, WrapperAssumption DEF Earned
<1>2. CASE n < 0
  <2>1. n * v.accJoePerShare \in Int
    BY Z3
  <2> QED
    BY <1>2, <2>1, WrapperAssumption, Z3 DEF Earned
<1> QED
  BY <1>1, <1>2

LEMMA FiniteAccounts == IsFiniteSet(Accounts)
<1>1. IsFiniteSet(Users \cup {"activePool"})
  BY FS_AddElement, CollateralAssumption
<1>2. IsFiniteSet(Users \cup {"activePool"} \cup {"defaultPool"})
  BY <1>1, FS_AddElement
<1>3. IsFiniteSet(Users \cup {"activePool"} \cup {"defaultPool"} \cup {"stabilityPool"})
  BY <1>2, FS_AddElement
<1> DEFINE S == Users \cup {"activePool"} \cup {"defaultPool"} \cup {"stabilityPool"}
                  \cup {"collSurplusPool"}
<1>4. IsFiniteSet(S)
  BY <1>3, FS_AddElement
<1>5. IsFiniteSet(S \cup {"TML"})
  BY <1>4, FS_AddElement
<1>6. IsFiniteSet(S \cup {"TML"} \cup {"TMR"})
  BY <1>5, FS_AddElement
<1>7. IsFiniteSet(S \cup {"TML"} \cup {"TMR"} \cup {"treasury"})
  BY <1>6, FS_AddElement
<1>8. Accounts = S \cup {"TML"} \cup {"TMR"} \cup {"treasury"}
  BY DEF Accounts, Pools
<1> QED
  BY <1>7, <1>8

LEMMA ChefDepositBooks ==
  ASSUME NEW v, NEW x \in Int, NEW y \in Int, Books(v, x, y), NEW n \in Nat
  PROVE  Books(ChefDeposit(v, n), x - n, y - n)
<1> DEFINE r == ChefDeposit(v, n)
<1>0. /\ v.staked \in Int /\ v.chefDebt \in Int /\ v.joe \in Int /\ v.accJoePerShare \in Nat
  BY DEF Books, Fields
<1>1. /\ Earned(v, v.staked) \in Int /\ Earned(v, v.staked + n) \in Int
      /\ v.staked + n >= 0 => Earned(v, v.staked + n) >= 0
  BY <1>0, EarnedInt
<1>2. Fields(r)
  <2>1. v.joe + (Earned(v, v.staked) - v.chefDebt) \in Int /\ v.staked + n \in Int
    BY <1>0, <1>1
  <2> QED
    BY <1>1, <2>1 DEF Books, Fields, ChefDeposit, ChefPending
<1>3. /\ r.userInfo = v.userInfo /\ r.balances = v.balances /\ r.reverted = v.reverted
      /\ r.accJoePerShare = v.accJoePerShare
      /\ r.staked = v.staked + n /\ r.chefDebt = Earned(v, v.staked + n)
      /\ r.joe = v.joe + (Earned(v, v.staked) - v.chefDebt)
  BY DEF Books, Fields, ChefDeposit, ChefPending
<1> HIDE DEF r
<1>4. \A m : Earned(r, m) = Earned(v, m)
  BY <1>3 DEF Earned
<1>5. Signs(v) => Signs(r)
  BY <1>0, <1>1, <1>3, <1>4 DEF Signs
<1>6. AmountSum(r) = AmountSum(v) /\ BalanceSum(r) = BalanceSum(v)
  BY <1>3 DEF AmountSum, BalanceSum
<1>7. AmountSum(r) = r.staked + (x - n) /\ BalanceSum(r) = r.staked + (y - n)
  BY <1>0, <1>3, <1>6 DEF Books
<1> QED
  BY <1>2, <1>3, <1>5, <1>7 DEF Books, r

LEMMA ChefWithdrawBooks ==
  ASSUME NEW v, NEW x \in Int, NEW y \in Int, Books(v, x, y), NEW n \in Nat
  PROVE  Books(ChefWithdraw(v, n), x + n, y + n)
<1> DEFINE r == ChefWithdraw(v, n)
<1>0. /\ v.staked \in Int /\ v.chefDebt \in Int /\ v.joe \in Int /\ v.accJoePerShare \in Nat
  BY DEF Books, Fields
<1>1. /\ Earned(v, v.staked) \in Int /\ Earned(v, v.staked - n) \in Int
      /\ v.staked - n >= 0 => Earned(v, v.staked - n) >= 0
  BY <1>0, EarnedInt
<1>2. Fields(r)
  <2>1. v.joe + (Earned(v, v.staked) - v.chefDebt) \in Int /\ v.staked - n \in Int
    BY <1>0, <1>1
  <2>2. (v.reverted \/ n > v.staked) \in BOOLEAN
    OBVIOUS
  <2> QED
    BY <1>1, <2>1, <2>2 DEF Books, Fields, ChefWithdraw, ChefPending
<1>3. /\ r.userInfo = v.userInfo /\ r.balances = v.balances
      /\ r.reverted = (v.reverted \/ n > v.staked)
      /\ r.accJoePerShare = v.accJoePerShare
      /\ r.staked = v.staked - n /\ r.chefDebt = Earned(v, v.staked - n)
      /\ r.joe = v.joe + (Earned(v, v.staked) - v.chefDebt)
  BY DEF Books, Fields, ChefWithdraw, ChefPending
<1> HIDE DEF r
<1>4. \A m : Earned(r, m) = Earned(v, m)
  BY <1>3 DEF Earned
<1>5. Signs(v) /\ ~(n > v.staked) => Signs(r)
  BY <1>0, <1>1, <1>3, <1>4 DEF Signs
<1>6. AmountSum(r) = AmountSum(v) /\ BalanceSum(r) = BalanceSum(v)
  BY <1>3 DEF AmountSum, BalanceSum
<1>7. AmountSum(r) = r.staked + (x + n) /\ BalanceSum(r) = r.staked + (y + n)
  BY <1>0, <1>3, <1>6 DEF Books
<1>8. r.reverted \/ Signs(r)
  BY <1>3, <1>5 DEF Books
<1> QED
  BY <1>2, <1>7, <1>8 DEF Books, r

LEMMA UserUpdateBooks ==
  ASSUME NEW v, NEW x \in Int, NEW y \in Int, Books(v, x, y),
         NEW a \in Accounts, NEW n \in Int
  PROVE  Books(UserUpdate(v, a, n), x + n, y)
<1> DEFINE r == UserUpdate(v, a, n)
           user == v.userInfo[a]
           amount == user.amount + n
           unclaimed == IF user.amount # 0 THEN Pending(v, a) ELSE user.unclaimedJOEReward
           R == [user EXCEPT !.unclaimedJOEReward = unclaimed, !.amount = amount,
                             !.rewardDebt = Earned(v, amount)]
<1>0. /\ v.staked \in Int /\ v.accJoePerShare \in Nat
      /\ user \in [amount : Int, rewardDebt : Int, unclaimedJOEReward : Int, amountInYeti : Int]
  BY DEF Books, Fields
<1>1. amount \in Int /\ unclaimed \in Int /\ Earned(v, amount) \in Int
      /\ (amount >= 0 => Earned(v, amount) >= 0)
  BY <1>0, EarnedInt DEF Pending
<1>2. r = [v EXCEPT !.userInfo[a] = R, !.reverted = v.reverted \/ amount < 0]
  BY DEF Books, Fields, UserUpdate
<1>3. R \in [amount : Int, rewardDebt : Int, unclaimedJOEReward : Int, amountInYeti : Int]
  BY <1>0, <1>1
<1>4. /\ R.amount = amount /\ R.rewardDebt = Earned(v, amount)
      /\ R.unclaimedJOEReward = unclaimed /\ R.amountInYeti = user.amountInYeti
  BY <1>0
<1>5. unclaimed = user.unclaimedJOEReward \/ unclaimed = Earned(v, user.amount) - user.rewardDebt
  BY DEF Pending
<1>6. amount = user.amount + n
  OBVIOUS
<1> HIDE DEF R, r, user, amount, unclaimed
<1>7. Fields(r)
  <2>1. (v.reverted \/ amount < 0) \in BOOLEAN
    OBVIOUS
  <2> QED
    BY <1>2, <1>3, <2>1 DEF Books, Fields
<1>8. /\ r.userInfo = [v.userInfo EXCEPT ![a] = R] /\ r.balances = v.balances
      /\ r.reverted = (v.reverted \/ amount < 0)
      /\ r.accJoePerShare = v.accJoePerShare
      /\ r.staked = v.staked /\ r.chefDebt = v.chefDebt /\ r.joe = v.joe
  BY <1>2 DEF Books, Fields
<1>9. \A m : Earned(r, m) = Earned(v, m)
  BY <1>8 DEF Earned
<1>10. \A b \in Accounts : r.userInfo[b] = IF b = a THEN R ELSE v.userInfo[b]
  BY <1>8 DEF Books, Fields
<1>11. Signs(v) /\ ~(amount < 0) => Signs(r)
  <2> SUFFICES ASSUME Signs(v), ~(amount < 0) PROVE Signs(r)
    OBVIOUS
  <2>1. /\ user.unclaimedJOEReward >= 0 /\ user.amountInYeti >= 0
        /\ user.rewardDebt <= Earned(v, user.amount)
    BY DEF Signs, user
  <2>2. Earned(v, user.amount) \in Int /\ user.rewardDebt \in Int /\ user.amount \in Int
    BY <1>0, EarnedInt
  <2>3. unclaimed >= 0 /\ amount >= 0 /\ Earned(v, amount) >= 0
    BY <1>1, <1>5, <2>1, <2>2
  <2> QED
    BY <1>1, <1>4, <1>8, <1>9, <1>10, <2>1, <2>3 DEF Signs
<1>12. AmountSum(r) = AmountSum(v) + n
  <2> DEFINE f == [b \in Accounts |-> v.userInfo[b].amount]
             g == [b \in Accounts |-> r.userInfo[b].amount]
  <2>1. \A b \in Accounts : f[b] \in Int /\ g[b] \in Int
    BY <1>7 DEF Books, Fields
  <2>2. \A b \in Accounts \ {a} : g[b] = f[b]
    BY <1>10
  <2>3. f[a] = user.amount /\ g[a] = amount
    BY <1>4, <1>10 DEF user
  <2> HIDE DEF f, g
  <2>4. SumFunctionOnSet(g, Accounts) = SumFunctionOnSet(f, Accounts) - f[a] + g[a]
    BY <2>1, <2>2, SumUpdate, FiniteAccounts
  <2>5. SumFunctionOnSet(f, Accounts) \in Int
    BY <2>1, SumInt, FiniteAccounts
  <2>6. SumFunctionOnSet(g, Accounts) = SumFunctionOnSet(f, Accounts) + n
    BY <1>0, <1>1, <1>6, <2>1, <2>3, <2>4, <2>5
  <2> QED
    BY <2>6 DEF AmountSum, f, g
<1>13. BalanceSum(r) = BalanceSum(v)
  BY <1>8 DEF BalanceSum
<1>14. AmountSum(r) = r.staked + (x + n) /\ BalanceSum(r) = r.staked + y
  BY <1>0, <1>8, <1>12, <1>13 DEF Books
<1>15. r.reverted \/ Signs(r)
  BY <1>8, <1>11 DEF Books
<1> QED
  BY <1>7, <1>14, <1>15 DEF Books, r

LEMMA ChangeInYetiBooks ==
  ASSUME NEW v, NEW x \in Int, NEW y \in Int, Books(v, x, y),
         NEW a \in Accounts, NEW n \in Int
  PROVE  Books(ChangeInYeti(v, a, n), x, y)
<1> DEFINE r == ChangeInYeti(v, a, n)
           user == v.userInfo[a]
           shares == user.amountInYeti + n
           R == [user EXCEPT !.amountInYeti = shares]
<1>0. user \in [amount : Int, rewardDebt : Int, unclaimedJOEReward : Int, amountInYeti : Int]
  BY DEF Books, Fields
<1>1. shares \in Int
  BY <1>0
<1>2. r = [v EXCEPT !.userInfo[a] = R, !.reverted = v.reverted \/ shares < 0]
  BY DEF Books, Fields, ChangeInYeti
<1>3. R \in [amount : Int, rewardDebt : Int, unclaimedJOEReward : Int, amountInYeti : Int]
  BY <1>0, <1>1
<1>4. /\ R.amount = user.amount /\ R.rewardDebt = user.rewardDebt
      /\ R.unclaimedJOEReward = user.unclaimedJOEReward /\ R.amountInYeti = shares
  BY <1>0
<1> HIDE DEF R, r, user, shares
<1>5. Fields(r)
  <2>1. (v.reverted \/ shares < 0) \in BOOLEAN
    OBVIOUS
  <2> QED
    BY <1>2, <1>3, <2>1 DEF Books, Fields
<1>6. /\ r.userInfo = [v.userInfo EXCEPT ![a] = R] /\ r.balances = v.balances
      /\ r.reverted = (v.reverted \/ shares < 0)
      /\ r.accJoePerShare = v.accJoePerShare
      /\ r.staked = v.staked /\ r.chefDebt = v.chefDebt /\ r.joe = v.joe
  BY <1>2 DEF Books, Fields
<1>7. \A m : Earned(r, m) = Earned(v, m)
  BY <1>6 DEF Earned
<1>8. \A b \in Accounts : r.userInfo[b] = IF b = a THEN R ELSE v.userInfo[b]
  BY <1>6 DEF Books, Fields
<1>9. Signs(v) /\ ~(shares < 0) => Signs(r)
  <2> SUFFICES ASSUME Signs(v), ~(shares < 0) PROVE Signs(r)
    OBVIOUS
  <2>1. shares >= 0
    BY <1>1
  <2>2. /\ R.amount >= 0 /\ R.rewardDebt >= 0 /\ R.unclaimedJOEReward >= 0
        /\ R.rewardDebt <= Earned(v, R.amount)
    BY <1>4 DEF Signs, user
  <2> QED
    BY <1>4, <1>6, <1>7, <1>8, <2>1, <2>2 DEF Signs
<1>10. AmountSum(r) = AmountSum(v)
  <2>1. \A b \in Accounts : r.userInfo[b].amount = v.userInfo[b].amount
    BY <1>4, <1>8 DEF user
  <2>2. [b \in Accounts |-> r.userInfo[b].amount] = [b \in Accounts |-> v.userInfo[b].amount]
    BY <2>1
  <2> QED
    BY <2>2 DEF AmountSum
<1>11. BalanceSum(r) = BalanceSum(v)
  BY <1>6 DEF BalanceSum
<1>12. r.reverted \/ Signs(r)
  BY <1>6, <1>9 DEF Books
<1> QED
  BY <1>5, <1>6, <1>10, <1>11, <1>12 DEF Books, r

(* r is v with n tokens more for a; it has reverted if that is under zero. *)
BalanceMoves(v, r, a, n) ==
  /\ Fields(r)
  /\ r.userInfo = v.userInfo /\ r.balances = [v.balances EXCEPT ![a] = v.balances[a] + n]
  /\ r.accJoePerShare = v.accJoePerShare
  /\ r.staked = v.staked /\ r.chefDebt = v.chefDebt /\ r.joe = v.joe
  /\ r.reverted \/ (~v.reverted /\ (Signs(v) => v.balances[a] + n >= 0))

LEMMA BalanceBooks ==
  ASSUME NEW v, NEW x \in Int, NEW y \in Int, Books(v, x, y),
         NEW a \in Accounts, NEW n \in Int, NEW r, BalanceMoves(v, r, a, n)
  PROVE  Books(r, x, y + n)
<1> DEFINE now == v.balances[a] + n
<1>0. v.staked \in Int /\ v.balances \in [Accounts -> Int] /\ now \in Int
  BY DEF Books, Fields
<1>1. /\ r.userInfo = v.userInfo /\ r.balances = [v.balances EXCEPT ![a] = now]
      /\ r.accJoePerShare = v.accJoePerShare
      /\ r.staked = v.staked /\ r.chefDebt = v.chefDebt /\ r.joe = v.joe
  BY DEF BalanceMoves
<1>2. \A m : Earned(r, m) = Earned(v, m)
  BY <1>1 DEF Earned
<1>3. \A b \in Accounts : r.balances[b] = IF b = a THEN now ELSE v.balances[b]
  BY <1>0, <1>1
<1>4. AmountSum(r) = AmountSum(v)
  BY <1>1 DEF AmountSum
<1>5. BalanceSum(r) = BalanceSum(v) + n
  <2> DEFINE f == v.balances
             g == r.balances
  <2>1. \A b \in Accounts : f[b] \in Int /\ g[b] \in Int
    BY <1>0, <1>3
  <2>2. \A b \in Accounts \ {a} : g[b] = f[b]
    BY <1>3
  <2>3. g[a] = f[a] + n
    BY <1>3
  <2> HIDE DEF f, g
  <2>4. SumFunctionOnSet(g, Accounts) = SumFunctionOnSet(f, Accounts) - f[a] + g[a]
    BY <2>1, <2>2, SumUpdate, FiniteAccounts
  <2>5. SumFunctionOnSet(f, Accounts) \in Int
    BY <2>1, SumInt, FiniteAccounts
  <2>6. SumFunctionOnSet(g, Accounts) = SumFunctionOnSet(f, Accounts) + n
    BY <2>1, <2>3, <2>4, <2>5
  <2> QED
    BY <2>6 DEF BalanceSum, f, g
<1>6. Signs(v) /\ now >= 0 => Signs(r)
  <2> HIDE DEF now
  <2> QED
    BY <1>1, <1>2, <1>3 DEF Signs
<1>7. r.reverted \/ Signs(r)
  BY <1>6 DEF Books, BalanceMoves
<1>8. AmountSum(r) = r.staked + x /\ BalanceSum(r) = r.staked + (y + n)
  BY <1>0, <1>1, <1>4, <1>5 DEF Books
<1> QED
  BY <1>7, <1>8 DEF Books, BalanceMoves

LEMMA MintBooks ==
  ASSUME NEW v, NEW x \in Int, NEW y \in Int, Books(v, x, y), NEW a \in Accounts, NEW n \in Nat
  PROVE  Books(Mint(v, a, n), x, y + n)
<1> DEFINE r == Mint(v, a, n)
<1>1. v.balances[a] \in Int /\ v.reverted \in BOOLEAN
  BY DEF Books, Fields
<1>2. Signs(v) => v.balances[a] + n >= 0
  BY <1>1 DEF Signs
<1>3. BalanceMoves(v, r, a, n)
  BY <1>1, <1>2 DEF Mint, Books, Fields, BalanceMoves
<1> QED
  BY <1>3, BalanceBooks

LEMMA BurnBooks ==
  ASSUME NEW v, NEW x \in Int, NEW y \in Int, Books(v, x, y), NEW a \in Accounts, NEW n \in Nat
  PROVE  Books(Burn(v, a, n), x, y - n)
<1> DEFINE r == Burn(v, a, n)
           failed == n > v.balances[a]
<1>1. v.balances[a] \in Int /\ -n \in Int
  BY DEF Books, Fields
<1>2. v.balances[a] - n = v.balances[a] + (-n) /\ y - n = y + (-n)
      /\ (failed \/ v.balances[a] + (-n) >= 0)
  BY <1>1
<1>3. r = [v EXCEPT !.balances[a] = v.balances[a] + (-n), !.reverted = v.reverted \/ failed]
  BY <1>2 DEF Burn, Books, Fields
<1> HIDE DEF r, failed
<1>4. r.reverted = (v.reverted \/ failed)
  BY <1>3 DEF Books, Fields
<1>5. /\ r.userInfo = v.userInfo /\ r.balances = [v.balances EXCEPT ![a] = v.balances[a] + (-n)]
      /\ r.accJoePerShare = v.accJoePerShare
      /\ r.staked = v.staked /\ r.chefDebt = v.chefDebt /\ r.joe = v.joe
  BY <1>3 DEF Books, Fields
<1>6. Fields(r)
  <2> DEFINE now == v.balances[a] + (-n)
             c == v.reverted \/ failed
  <2>1. now \in Int /\ c \in BOOLEAN
    BY <1>1
  <2>2. r = [v EXCEPT !.balances[a] = now, !.reverted = c]
    BY <1>3
  <2> HIDE DEF now, c
  <2> QED
    BY <2>1, <2>2 DEF Books, Fields
<1>7. BalanceMoves(v, r, a, -n)
  BY <1>2, <1>4, <1>5, <1>6 DEF BalanceMoves
<1> QED
  BY <1>1, <1>2, <1>7, BalanceBooks DEF r

(* Only JOE sent: what is unclaimed of a and what the contract has.        *)
LEMMA SendBooks ==
  ASSUME NEW v, NEW x \in Int, NEW y \in Int, Books(v, x, y), NEW a \in Accounts
  PROVE  Books(SendJoeReward(v, a), x, y)
<1> DEFINE u == UserUpdate(ChefWithdraw(v, 0), a, 0)
           send == u.userInfo[a].unclaimedJOEReward
           left == IF send > u.joe THEN 0 ELSE u.joe - send
           user == u.userInfo[a]
           R == [user EXCEPT !.unclaimedJOEReward = 0]
           r == [u EXCEPT !.userInfo[a] = R, !.joe = left]
<1>1. Books(u, x, y)
  <2>1. Books(ChefWithdraw(v, 0), x + 0, y + 0)
    BY ChefWithdrawBooks
  <2>2. x + 0 = x /\ y + 0 = y
    OBVIOUS
  <2>3. Books(ChefWithdraw(v, 0), x, y)
    BY <2>1, <2>2
  <2>4. Books(u, x + 0, y)
    BY <2>3, UserUpdateBooks
  <2> QED
    BY <2>2, <2>4
<1>2. SendJoeReward(v, a) = r
  <2> HIDE DEF left
  <2>1. u.userInfo[a] = user
    OBVIOUS
  <2> QED
    BY <1>1 DEF SendJoeReward, Books, Fields, left
<1> HIDE DEF u
<1>3. user \in [amount : Int, rewardDebt : Int, unclaimedJOEReward : Int, amountInYeti : Int]
  BY <1>1 DEF Books, Fields
<1>4. left \in Int /\ (u.joe >= 0 => left >= 0)
  BY <1>1, <1>3 DEF Books, Fields
<1>5. R \in [amount : Int, rewardDebt : Int, unclaimedJOEReward : Int, amountInYeti : Int]
  BY <1>3
<1>6. /\ R.amount = user.amount /\ R.rewardDebt = user.rewardDebt
      /\ R.unclaimedJOEReward = 0 /\ R.amountInYeti = user.amountInYeti
  BY <1>3
<1> HIDE DEF R, left, user, send
<1>7. Fields(r)
  BY <1>1, <1>4, <1>5 DEF Books, Fields
<1>8. /\ r.userInfo = [u.userInfo EXCEPT ![a] = R] /\ r.balances = u.balances
      /\ r.reverted = u.reverted /\ r.accJoePerShare = u.accJoePerShare
      /\ r.staked = u.staked /\ r.chefDebt = u.chefDebt /\ r.joe = left
  BY <1>1 DEF Books, Fields
<1> HIDE DEF r
<1>9. \A m : Earned(r, m) = Earned(u, m)
  BY <1>8 DEF Earned
<1>10. \A b \in Accounts : r.userInfo[b] = IF b = a THEN R ELSE u.userInfo[b]
  BY <1>1, <1>8 DEF Books, Fields
<1>11. Signs(u) => Signs(r)
  <2> SUFFICES ASSUME Signs(u) PROVE Signs(r)
    OBVIOUS
  <2>1. /\ R.amount >= 0 /\ R.rewardDebt >= 0 /\ R.unclaimedJOEReward >= 0
        /\ R.rewardDebt <= Earned(u, R.amount) /\ R.amountInYeti >= 0
    BY <1>6 DEF Signs, user
  <2> QED
    BY <1>4, <1>8, <1>9, <1>10, <2>1 DEF Signs
<1>12. AmountSum(r) = AmountSum(u)
  <2>1. \A b \in Accounts : r.userInfo[b].amount = u.userInfo[b].amount
    BY <1>6, <1>10 DEF user
  <2>2. [b \in Accounts |-> r.userInfo[b].amount] = [b \in Accounts |-> u.userInfo[b].amount]
    BY <2>1
  <2> QED
    BY <2>2 DEF AmountSum
<1>13. BalanceSum(r) = BalanceSum(u)
  BY <1>8 DEF BalanceSum
<1>14. r.reverted \/ Signs(r)
  BY <1>1, <1>8, <1>11 DEF Books
<1>15. Books(r, x, y)
  BY <1>1, <1>7, <1>8, <1>12, <1>13, <1>14 DEF Books
<1> QED
  BY <1>2, <1>15
-----------------------------------------------------------------------------
(* The functions keep the books: what they do to the shares, the tokens    *)
(* and the stake comes to nothing.                                         *)

LEMMA MayRevertBooks ==
  ASSUME NEW v, NEW x \in Int, NEW y \in Int, Books(v, x, y), NEW c \in BOOLEAN,
         NEW r, r = [v EXCEPT !.reverted = v.reverted \/ c]
  PROVE  Books(r, x, y)
<1>1. Fields(r)
  <2>1. (v.reverted \/ c) \in BOOLEAN
    OBVIOUS
  <2> QED
    BY <2>1 DEF Books, Fields
<1>2. /\ r.userInfo = v.userInfo /\ r.balances = v.balances
      /\ r.reverted = (v.reverted \/ c) /\ r.accJoePerShare = v.accJoePerShare
      /\ r.staked = v.staked /\ r.chefDebt = v.chefDebt /\ r.joe = v.joe
  BY DEF Books, Fields
<1>3. \A m : Earned(r, m) = Earned(v, m)
  BY <1>2 DEF Earned
<1>4. Signs(v) => Signs(r)
  BY <1>2, <1>3 DEF Signs
<1>5. AmountSum(r) = AmountSum(v) /\ BalanceSum(r) = BalanceSum(v)
  BY <1>2 DEF AmountSum, BalanceSum
<1>6. r.reverted \/ Signs(r)
  BY <1>2, <1>4 DEF Books
<1> QED
  BY <1>1, <1>2, <1>5, <1>6 DEF Books

LEMMA TransferBooks ==
  ASSUME NEW v, Books(v, 0, 0), NEW a \in Accounts, NEW b \in Accounts, NEW n \in Nat
  PROVE  Books(transfer(v, a, b, n), 0, 0)
<1> DEFINE m == Move(v, a, b, n)
           c == /\ a \in {"activePool", "defaultPool"}
                /\ b \notin {"stabilityPool", "defaultPool", "collSurplusPool"}
                /\ v.userInfo[a].amount - v.userInfo[a].amountInYeti < n
           r == transfer(v, a, b, n)
<1>1. Books(m, 0, 0)
  <2>1. Books(Burn(v, a, n), 0, 0 - n)
    BY BurnBooks
  <2>2. 0 - n \in Int /\ 0 - n + n = 0
    OBVIOUS
  <2>3. Books(m, 0, 0 - n + n)
    BY <2>1, <2>2, MintBooks DEF Move
  <2> QED
    BY <2>2, <2>3
<1>2. c \in BOOLEAN
  OBVIOUS
<1>3. r = [m EXCEPT !.reverted = m.reverted \/ c]
  BY <1>1 DEF transfer, Books, Fields
<1> HIDE DEF m, c, r
<1>4. Books(r, 0, 0)
  BY <1>1, <1>2, <1>3, MayRevertBooks
<1> QED
  BY <1>4 DEF r

LEMMA WrapBooks ==
  ASSUME NEW v, Books(v, 0, 0), NEW to \in Accounts, NEW a \in Accounts, NEW n \in Nat
  PROVE  Books(wrap(v, n, to, a), 0, 0)
<1> DEFINE d == ChefDeposit(v, n)
           u == UserUpdate(d, a, n)
           m == Mint(u, to, n)
<1>1. 0 - n \in Int /\ 0 - n + n = 0 /\ n \in Int
  OBVIOUS
<1>2. Books(d, 0 - n, 0 - n)
  BY ChefDepositBooks
<1> HIDE DEF d
<1>3. Books(u, 0 - n + n, 0 - n)
  BY <1>1, <1>2, UserUpdateBooks
<1> HIDE DEF u
<1>4. Books(u, 0, 0 - n)
  BY <1>1, <1>3
<1>5. Books(m, 0, 0 - n + n)
  BY <1>1, <1>4, MintBooks
<1> HIDE DEF m
<1>6. Books(m, 0, 0)
  BY <1>1, <1>5
<1>7. Books(ChangeInYeti(m, a, n), 0, 0)
  BY <1>1, <1>6, ChangeInYetiBooks
<1> QED
  BY <1>6, <1>7 DEF wrap, m, u, d

LEMMA TakeBooks ==
  ASSUME NEW v, Books(v, 0, 0), NEW a \in Accounts, NEW n \in Nat
  PROVE  /\ Books(UserUpdate(SendJoeReward(v, a), a, -n), 0 - n, 0)
         /\ Books(ChangeInYeti(UserUpdate(SendJoeReward(v, a), a, -n), a, -n), 0 - n, 0)
<1> DEFINE s == SendJoeReward(v, a)
           u == UserUpdate(s, a, -n)
<1>1. -n \in Int /\ 0 - n \in Int /\ 0 + (-n) = 0 - n
  OBVIOUS
<1>2. Books(s, 0, 0)
  BY SendBooks
<1> HIDE DEF s
<1>3. Books(u, 0 + (-n), 0)
  BY <1>1, <1>2, UserUpdateBooks
<1> HIDE DEF u
<1>4. Books(u, 0 - n, 0)
  BY <1>1, <1>3
<1>5. Books(ChangeInYeti(u, a, -n), 0 - n, 0)
  BY <1>1, <1>4, ChangeInYetiBooks
<1> QED
  BY <1>4, <1>5 DEF u, s

(* What unwrap and unwrapFor end with.                                     *)
LEMMA PayOutBooks ==
  ASSUME NEW v, NEW n \in Nat, Books(v, 0 - n, 0), NEW pool \in Accounts
  PROVE  Books(Burn(ChefWithdraw(v, n), pool, n), 0, 0)
<1> DEFINE c == ChefWithdraw(v, n)
<1>1. 0 - n \in Int /\ 0 - n + n = 0 /\ 0 + n = n /\ n - n = 0 /\ n \in Int
  OBVIOUS
<1>2. Books(c, 0 - n + n, 0 + n)
  BY <1>1, ChefWithdrawBooks
<1> HIDE DEF c
<1>3. Books(c, 0, n)
  BY <1>1, <1>2
<1>4. Books(Burn(c, pool, n), 0, n - n)
  BY <1>1, <1>3, BurnBooks
<1> QED
  BY <1>1, <1>4 DEF c

LEMMA UnwrapBooks ==
  ASSUME NEW v, Books(v, 0, 0), NEW a \in Accounts, NEW n \in Nat
  PROVE  Books(unwrap(v, a, n), 0, 0)
BY TakeBooks, PayOutBooks DEF unwrap

LEMMA UnwrapForBooks ==
  ASSUME NEW v, Books(v, 0, 0), NEW pool \in Accounts, NEW a \in Accounts, NEW n \in Nat
  PROVE  Books(unwrapFor(v, pool, a, n), 0, 0)
BY TakeBooks, PayOutBooks DEF unwrapFor

LEMMA UpdateRewardBooks ==
  ASSUME NEW v, Books(v, 0, 0), NEW a \in Accounts, NEW b \in Accounts, NEW n \in Nat
  PROVE  Books(updateReward(v, a, b, n), 0, 0)
<1> DEFINE s == ChangeInYeti(UserUpdate(SendJoeReward(v, a), a, -n), a, -n)
           u == UserUpdate(s, b, n)
<1>1. 0 - n \in Int /\ 0 - n + n = 0 /\ n \in Int
  OBVIOUS
<1>2. Books(s, 0 - n, 0)
  BY TakeBooks
<1> HIDE DEF s
<1>3. Books(u, 0 - n + n, 0)
  BY <1>1, <1>2, UserUpdateBooks
<1> HIDE DEF u
<1>4. Books(u, 0, 0)
  BY <1>1, <1>3
<1>5. Books(ChangeInYeti(u, b, n), 0, 0)
  BY <1>1, <1>4, ChangeInYetiBooks
<1> QED
  BY <1>5 DEF updateReward, u, s

LEMMA MovePendingBooks ==
  ASSUME NEW v, Books(v, 0, 0), NEW u \in Users, pending[u] \in Nat
  PROVE  Books(MovePending(v, u), 0, 0)
<1> DEFINE n == pending[u]
           e == updateReward(v, "treasury", "defaultPool", n)
           s == transfer(e, "defaultPool", "activePool", n)
           r == updateReward(s, "defaultPool", u, n)
<1>1. /\ n \in Nat /\ u \in Accounts /\ "treasury" \in Accounts
      /\ "defaultPool" \in Accounts /\ "activePool" \in Accounts
  BY AccountsDiffer
<1>2. MovePending(v, u) = v \/ MovePending(v, u) = r
  BY DEF MovePending
<1> HIDE DEF n
<1>3. Books(e, 0, 0)
  BY <1>1, UpdateRewardBooks
<1> HIDE DEF e
<1>4. Books(s, 0, 0)
  BY <1>1, <1>3, TransferBooks
<1> HIDE DEF s
<1>5. Books(r, 0, 0)
  BY <1>1, <1>4, UpdateRewardBooks
<1> QED
  BY <1>2, <1>5

LEMMA LotBooks ==
  ASSUME NEW v, Books(v, 0, 0), NEW u \in Users, pending[u] \in Nat, NEW n \in Nat
  PROVE  Books(Lot(v, u, n), 0, 0)
BY MovePendingBooks, UpdateRewardBooks, AccountsDiffer DEF Lot

LEMMA ClosingBooks ==
  ASSUME NEW v, Books(v, 0, 0), NEW n \in Nat
  PROVE  Books(Closing(v, n), 0, 0)
BY TransferBooks, AccountsDiffer DEF Closing

LEMMA SettleBooks ==
  ASSUME NEW v, Books(v, 0, 0), NEW totals,
         totals.toSP \in Nat, totals.redist \in Nat, totals.surplus \in Nat, totals.gas \in Nat
  PROVE  Books(Settle(v, totals), 0, 0)
<1> DEFINE o == transfer(v, "activePool", "stabilityPool", totals.toSP)
           m == transfer(o, "activePool", "defaultPool", totals.redist)
           k == transfer(m, "activePool", "collSurplusPool", totals.surplus)
<1>1. /\ "activePool" \in Accounts /\ "stabilityPool" \in Accounts /\ "defaultPool" \in Accounts
      /\ "collSurplusPool" \in Accounts /\ "TML" \in Accounts
  BY AccountsDiffer
<1>2. Books(o, 0, 0)
  BY <1>1, TransferBooks
<1> HIDE DEF o
<1>3. Books(m, 0, 0)
  BY <1>1, <1>2, TransferBooks
<1> HIDE DEF m
<1>4. Books(k, 0, 0)
  BY <1>1, <1>3, TransferBooks
<1> HIDE DEF k
<1>5. Books(unwrapFor(k, "activePool", "TML", totals.gas), 0, 0)
  BY <1>1, <1>4, UnwrapForBooks
<1> QED
  BY <1>5 DEF Settle, k, m, o
-----------------------------------------------------------------------------
(* Types: no number of the protocol's own books is under zero either.      *)
HeldTypes ==
  /\ coll \in [Users -> Nat] /\ surplus \in [Users -> Nat]
  /\ pending \in [Users -> Nat] /\ stranded \in [Users -> Nat] /\ gains \in Nat
  /\ tx \in [kind : {"none", "liquidation", "redemption"}, toSP : Nat, redist : Nat,
             surplus : Nat, gas : Nat, drawn : Nat, ended : BOOLEAN]

BooksInv == Books(wjlp, 0, 0) /\ ~wjlp.reverted /\ HeldTypes

LEMMA InitBooks == Init => BooksInv
<1> SUFFICES ASSUME Init PROVE BooksInv
  OBVIOUS
<1>1. Fields(wjlp) /\ ~wjlp.reverted
  BY DEF Init, Deployed, NoInfo, Fields
<1>2. /\ wjlp.staked = 0 /\ wjlp.joe = 0 /\ wjlp.chefDebt = 0 /\ wjlp.accJoePerShare = 0
      /\ \A a \in Accounts : wjlp.userInfo[a] = NoInfo /\ wjlp.balances[a] = 0
  BY DEF Init, Deployed
<1>3. Earned(wjlp, 0) >= 0 /\ Earned(wjlp, 0) \in Int
  BY <1>2, EarnedInt
<1>4. Signs(wjlp)
  BY <1>2, <1>3 DEF Signs, NoInfo
<1>5. AmountSum(wjlp) = 0 /\ BalanceSum(wjlp) = 0
  <2> DEFINE f == [a \in Accounts |-> wjlp.userInfo[a].amount]
  <2>1. \A a \in Accounts : f[a] = 0 /\ wjlp.balances[a] = 0
    BY <1>2 DEF NoInfo
  <2> HIDE DEF f
  <2>2. SumFunctionOnSet(f, Accounts) = 0 /\ SumFunctionOnSet(wjlp.balances, Accounts) = 0
    BY <2>1, SumZero, FiniteAccounts
  <2> QED
    BY <2>2 DEF AmountSum, BalanceSum, f
<1>6. HeldTypes
  BY DEF Init, HeldTypes, NoTx, Totals
<1> QED
  BY <1>1, <1>2, <1>4, <1>5, <1>6 DEF Books, BooksInv

LEMMA UserBooks ==
  ASSUME BooksInv, NEW u \in Users, UserNext(u)
  PROVE  BooksInv'
<1>1. /\ Books(wjlp, 0, 0) /\ u \in Accounts /\ pending[u] \in Nat /\ coll[u] \in Nat
      /\ surplus[u] \in Nat /\ "activePool" \in Accounts /\ "collSurplusPool" \in Accounts
  BY AccountsDiffer DEF BooksInv, HeldTypes
<1>2. Entire(u) \in Nat
  BY <1>1 DEF Entire
<1>3. ASSUME NEW v, Books(v, 0, 0), Calls(v), HeldTypes' PROVE BooksInv'
  BY <1>3 DEF Calls, BooksInv
<1>4. ASSUME NEW n \in Nat, SetTrove(u, n), UNCHANGED <<surplus, gains, stranded, tx>>
      PROVE  HeldTypes'
  BY <1>4 DEF SetTrove, BooksInv, HeldTypes
<1>5. ASSUME UNCHANGED <<coll, surplus, pending, gains, stranded, tx>> PROVE HeldTypes'
  BY <1>5 DEF BooksInv, HeldTypes
<1>6. \A n \in Amounts : n \in Nat
  BY CollateralAssumption
<1>7. ASSUME NEW n \in Amounts, Deposit(u, n) PROVE BooksInv'
  <2> DEFINE w == wrap(wjlp, n, "activePool", u)
  <2>1. Books(w, 0, 0)
    BY <1>1, <1>6, WrapBooks
  <2> HIDE DEF w
  <2>2. Books(MovePending(w, u), 0, 0)
    BY <1>1, <2>1, MovePendingBooks
  <2>3. HeldTypes'
    <3>1. Entire(u) + n \in Nat
      BY <1>2, <1>6
    <3> QED
      BY <1>4, <1>7, <3>1 DEF Deposit
  <2> QED
    BY <1>3, <1>7, <2>2, <2>3 DEF Deposit, w
<1>8. ASSUME NEW n \in Amounts, Withdraw(u, n) PROVE BooksInv'
  <2> DEFINE m == MovePending(wjlp, u)
  <2>1. Books(m, 0, 0)
    BY <1>1, MovePendingBooks
  <2> HIDE DEF m
  <2>2. Books(unwrapFor(m, "activePool", u, n), 0, 0)
    BY <1>1, <1>6, <2>1, UnwrapForBooks
  <2>3. HeldTypes'
    <3>1. Entire(u) - n \in Nat
      BY <1>2, <1>6, <1>8 DEF Withdraw
    <3> QED
      BY <1>4, <1>8, <3>1 DEF Withdraw
  <2> QED
    BY <1>3, <1>8, <2>2, <2>3 DEF Withdraw, m
<1>9. ASSUME NEW n \in Amounts, UnwrapOwn(u, n) PROVE BooksInv'
  <2>1. Books(unwrap(wjlp, u, n), 0, 0)
    BY <1>1, <1>6, UnwrapBooks
  <2> QED
    BY <1>3, <1>5, <1>9, <2>1 DEF UnwrapOwn
<1>10. ASSUME NEW n \in Amounts, NEW to \in Destinations, Transfer(u, to, n) PROVE BooksInv'
  <2>1. to \in Accounts
    BY CollateralAssumption
  <2>2. Books(transfer(wjlp, u, to, n), 0, 0)
    BY <1>1, <1>6, <2>1, TransferBooks
  <2> QED
    BY <1>3, <1>5, <1>10, <2>2 DEF Transfer
<1>11. ASSUME ApplyPendingRewards(u) PROVE BooksInv'
  <2>1. Books(MovePending(wjlp, u), 0, 0)
    BY <1>1, MovePendingBooks
  <2> QED
    BY <1>2, <1>3, <1>4, <1>11, <2>1 DEF ApplyPendingRewards
<1>12. ASSUME ClaimReward(u) PROVE BooksInv'
  <2>1. Books(SendJoeReward(wjlp, u), 0, 0)
    BY <1>1, SendBooks
  <2> QED
    BY <1>3, <1>5, <1>12, <2>1 DEF ClaimReward
<1>13. ASSUME ClaimSurplus(u) PROVE BooksInv'
  <2>1. Books(unwrapFor(wjlp, "collSurplusPool", u, surplus[u]), 0, 0)
    BY <1>1, UnwrapForBooks
  <2>2. HeldTypes'
    BY <1>13 DEF ClaimSurplus, BooksInv, HeldTypes
  <2> QED
    BY <1>3, <1>13, <2>1, <2>2 DEF ClaimSurplus
<1> QED
  BY <1>7, <1>8, <1>9, <1>10, <1>11, <1>12, <1>13 DEF UserNext

LEMMA WrapOwnBooks ==
  ASSUME BooksInv, NEW n \in Amounts, NEW to \in Destinations, NEW r \in RewardRecipients,
         WrapOwn(n, to, r)
  PROVE  BooksInv'
<1>1. Books(wjlp, 0, 0) /\ n \in Nat /\ to \in Accounts /\ r \in Accounts
  BY CollateralAssumption DEF BooksInv
<1>2. Books(wrap(wjlp, n, to, r), 0, 0)
  BY <1>1, WrapBooks
<1>3. HeldTypes'
  BY DEF WrapOwn, BooksInv, HeldTypes
<1> QED
  BY <1>2, <1>3 DEF WrapOwn, Calls, BooksInv

LEMMA LiquidateTroveBooks ==
  ASSUME BooksInv, NEW b \in Users, NEW capped \in 0..Entire(b), NEW toSP \in 0..Entire(b),
         LiquidateTrove(b, capped, toSP)
  PROVE  BooksInv'
<1> DEFINE gas == capped \div PERCENT_DIVISOR
           redist == capped - gas - toSP
           left == Entire(b) - capped
           m == MovePending(wjlp, b)
           s == updateReward(m, b, "treasury", toSP + redist)
<1>1. /\ Books(wjlp, 0, 0) /\ b \in Accounts /\ pending[b] \in Nat /\ coll[b] \in Nat
      /\ surplus[b] \in Nat /\ "treasury" \in Accounts /\ "TML" \in Accounts
      /\ tx.toSP \in Nat /\ tx.redist \in Nat /\ tx.surplus \in Nat /\ tx.gas \in Nat
  BY AccountsDiffer DEF BooksInv, HeldTypes
<1>2. Entire(b) \in Nat
  BY <1>1 DEF Entire
<1>3. capped \in Nat /\ toSP \in Nat
  BY <1>2
<1>4. gas \in Nat
  BY <1>3, FloorFits, CollateralAssumption
<1>5. redist \in Int /\ left \in Int
  BY <1>2, <1>3, <1>4
<1>6. redist >= 0 /\ left >= 0
  BY DEF LiquidateTrove
<1>7. redist \in Nat /\ left \in Nat
  BY <1>5, <1>6
<1>8. /\ wjlp' = updateReward(s, b, "TML", gas) /\ ~wjlp'.reverted
      /\ coll' = [coll EXCEPT ![b] = 0] /\ pending' = [pending EXCEPT ![b] = 0]
      /\ surplus' = [surplus EXCEPT ![b] = surplus[b] + left]
      /\ tx' = Totals("liquidation", tx.toSP + toSP, tx.redist + redist,
                      tx.surplus + left, tx.gas + gas, 0, FALSE)
      /\ UNCHANGED <<gains, stranded>>
  BY DEF LiquidateTrove, Calls, SplitRewards, SetTrove
<1>9. Books(m, 0, 0)
  BY <1>1, MovePendingBooks
<1> HIDE DEF m, gas, redist, left
<1>10. Books(s, 0, 0)
  BY <1>1, <1>3, <1>7, <1>9, UpdateRewardBooks
<1> HIDE DEF s
<1>11. Books(wjlp', 0, 0)
  BY <1>1, <1>4, <1>8, <1>10, UpdateRewardBooks
<1>12. HeldTypes'
  <2>1. tx' \in [kind : {"none", "liquidation", "redemption"}, toSP : Nat, redist : Nat,
                surplus : Nat, gas : Nat, drawn : Nat, ended : BOOLEAN]
    <3>1. tx.toSP + toSP \in Nat /\ tx.redist + redist \in Nat
          /\ tx.surplus + left \in Nat /\ tx.gas + gas \in Nat
      BY <1>1, <1>3, <1>4, <1>7
    <3> QED
      BY <1>8, <3>1 DEF Totals
  <2>2. surplus[b] + left \in Nat
    BY <1>1, <1>7
  <2> QED
    BY <1>8, <2>1, <2>2 DEF BooksInv, HeldTypes
<1> QED
  BY <1>8, <1>11, <1>12 DEF BooksInv

(* What a redemption leaves of a trove.                                    *)
LEMMA LeaveTypes ==
  ASSUME HeldTypes, NEW b \in Users, NEW lot \in 0..Entire(b), NEW closes \in BOOLEAN,
         Leave(b, Entire(b) - lot, closes)
  PROVE  /\ lot \in Nat /\ Entire(b) - lot \in Nat
         /\ coll' \in [Users -> Nat] /\ pending' \in [Users -> Nat] /\ surplus' \in [Users -> Nat]
<1>1. coll[b] \in Nat /\ pending[b] \in Nat /\ surplus[b] \in Nat
  BY DEF HeldTypes
<1>2. Entire(b) \in Nat
  BY <1>1 DEF Entire
<1> DEFINE left == Entire(b) - lot
<1>3. lot \in Nat /\ left \in Nat
  BY <1>2 DEF Leave
<1>4. surplus[b] + left \in Nat
  BY <1>1, <1>3
<1> HIDE DEF left
<1>5. /\ coll' = [coll EXCEPT ![b] = IF closes THEN 0 ELSE left]
      /\ pending' = [pending EXCEPT ![b] = 0]
      /\ surplus' = IF closes THEN [surplus EXCEPT ![b] = surplus[b] + left] ELSE surplus
  BY DEF Leave, SetTrove, left
<1> QED
  BY <1>3, <1>4, <1>5 DEF HeldTypes, left

LEMMA RedeemFromTroveBooks ==
  ASSUME BooksInv, NEW b \in Users, NEW lot \in 0..Entire(b), NEW closes \in BOOLEAN,
         RedeemFromTrove(b, lot, closes)
  PROVE  BooksInv'
<1> DEFINE left == Entire(b) - lot
           taken == Lot(wjlp, b, lot)
<1>1. Books(wjlp, 0, 0) /\ pending[b] \in Nat /\ tx.drawn \in Nat /\ HeldTypes
  BY DEF BooksInv, HeldTypes
<1>2. /\ wjlp' = IF closes THEN Closing(taken, left) ELSE taken
      /\ ~wjlp'.reverted /\ Leave(b, left, closes)
      /\ tx' = Totals("redemption", 0, 0, 0, 0, tx.drawn + lot, ~closes)
      /\ UNCHANGED <<gains, stranded>>
  BY DEF RedeemFromTrove, Calls
<1>3. /\ lot \in Nat /\ left \in Nat
      /\ coll' \in [Users -> Nat] /\ pending' \in [Users -> Nat] /\ surplus' \in [Users -> Nat]
  BY <1>1, <1>2, LeaveTypes
<1>4. Books(taken, 0, 0)
  BY <1>1, <1>3, LotBooks
<1> HIDE DEF left, taken
<1>5. Books(wjlp', 0, 0)
  BY <1>2, <1>3, <1>4, ClosingBooks
<1>6. HeldTypes'
  <2>1. tx.drawn + lot \in Nat /\ (~closes) \in BOOLEAN
    BY <1>1, <1>3
  <2>2. tx' \in [kind : {"none", "liquidation", "redemption"}, toSP : Nat, redist : Nat,
                surplus : Nat, gas : Nat, drawn : Nat, ended : BOOLEAN]
    BY <1>2, <2>1 DEF Totals
  <2> QED
    BY <1>1, <1>2, <1>3, <2>2 DEF HeldTypes
<1> QED
  BY <1>2, <1>5, <1>6 DEF BooksInv

LEMMA RedeemSingleBooks ==
  ASSUME BooksInv, NEW b \in Users, NEW lot \in 0..Entire(b), NEW closes \in BOOLEAN,
         RedeemSingle(b, lot, closes)
  PROVE  BooksInv'
<1> DEFINE left == Entire(b) - lot
           applied == MovePending(wjlp, b)
           kept == IF closes THEN Closing(applied, left) ELSE applied
<1>1. /\ Books(wjlp, 0, 0) /\ pending[b] \in Nat /\ HeldTypes
      /\ b \in Accounts /\ "activePool" \in Accounts
  BY AccountsDiffer DEF BooksInv, HeldTypes
<1>2. /\ wjlp' = unwrapFor(kept, "activePool", b, lot)
      /\ ~wjlp'.reverted /\ Leave(b, left, closes)
      /\ UNCHANGED <<gains, stranded, tx>>
  BY DEF RedeemSingle, Calls
<1>3. /\ lot \in Nat /\ left \in Nat
      /\ coll' \in [Users -> Nat] /\ pending' \in [Users -> Nat] /\ surplus' \in [Users -> Nat]
  BY <1>1, <1>2, LeaveTypes
<1>4. Books(applied, 0, 0)
  BY <1>1, MovePendingBooks
<1> HIDE DEF left, applied
<1>5. Books(kept, 0, 0)
  BY <1>3, <1>4, ClosingBooks
<1> HIDE DEF kept
<1>6. Books(wjlp', 0, 0)
  BY <1>1, <1>2, <1>3, <1>5, UnwrapForBooks
<1>7. HeldTypes'
  BY <1>1, <1>2, <1>3 DEF HeldTypes
<1> QED
  BY <1>2, <1>6, <1>7 DEF BooksInv

LEMMA CancelPartialBooks ==
  ASSUME BooksInv, NEW b \in Users, NEW lot \in 0..Entire(b), CancelPartial(b, lot)
  PROVE  BooksInv'
<1>1. /\ Books(wjlp, 0, 0) /\ coll[b] \in Nat /\ pending[b] \in Nat /\ stranded[b] \in Nat
  BY DEF BooksInv, HeldTypes
<1>2. Entire(b) \in Nat
  BY <1>1 DEF Entire
<1>3. lot \in Nat /\ stranded[b] + lot \in Nat
  BY <1>1, <1>2
<1>4. /\ wjlp' = Lot(wjlp, b, lot) /\ ~wjlp'.reverted
      /\ coll' = [coll EXCEPT ![b] = Entire(b)] /\ pending' = [pending EXCEPT ![b] = 0]
      /\ stranded' = [stranded EXCEPT ![b] = stranded[b] + lot]
      /\ tx' = [tx EXCEPT !.ended = TRUE]
      /\ UNCHANGED <<surplus, gains>>
  BY DEF CancelPartial, Calls, SetTrove
<1>5. Books(wjlp', 0, 0)
  BY <1>1, <1>3, <1>4, LotBooks
<1>6. HeldTypes'
  BY <1>2, <1>3, <1>4 DEF BooksInv, HeldTypes
<1> QED
  BY <1>4, <1>5, <1>6 DEF BooksInv

LEMMA JoeAccruesBooks == ASSUME BooksInv, JoeAccrues PROVE BooksInv'
<1> DEFINE r == [wjlp EXCEPT !.accJoePerShare = wjlp.accJoePerShare + 1]
<1>1. Books(wjlp, 0, 0) /\ ~wjlp.reverted /\ wjlp.accJoePerShare \in Nat /\ wjlp.staked \in Int
  BY DEF BooksInv, Books, Fields
<1>2. wjlp' = r /\ UNCHANGED <<coll, surplus, pending, gains, stranded, tx>>
  BY DEF JoeAccrues
<1>3. Fields(r)
  BY <1>1 DEF Books, Fields
<1>4. /\ r.userInfo = wjlp.userInfo /\ r.balances = wjlp.balances
      /\ r.reverted = wjlp.reverted /\ r.accJoePerShare = wjlp.accJoePerShare + 1
      /\ r.staked = wjlp.staked /\ r.chefDebt = wjlp.chefDebt /\ r.joe = wjlp.joe
  BY <1>1 DEF Books, Fields
<1> HIDE DEF r
<1>5. \A n \in Nat : /\ Earned(wjlp, n) \in Int /\ Earned(r, n) \in Int
                     /\ Earned(wjlp, n) <= Earned(r, n)
  <2> SUFFICES ASSUME NEW n \in Nat
               PROVE  /\ Earned(wjlp, n) \in Int /\ Earned(r, n) \in Int
                      /\ Earned(wjlp, n) <= Earned(r, n)
    OBVIOUS
  <2> DEFINE p == wjlp.accJoePerShare
             q == p + 1
  <2>1. p \in Nat /\ q \in Nat /\ p <= q
    BY <1>1
  <2>2. n * p \in Nat /\ n * q \in Nat /\ n * p <= n * q
    BY <2>1, ProductNat, ProductMonotone
  <2>3. r.accJoePerShare = q
    BY <1>4
  <2> HIDE DEF q
  <2>4. /\ (n * p) \div ACC_PRECISION \in Nat /\ (n * q) \div ACC_PRECISION \in Nat
        /\ (n * p) \div ACC_PRECISION <= (n * q) \div ACC_PRECISION
    BY <2>2, FloorMonotone, WrapperAssumption
  <2> QED
    BY <2>3, <2>4 DEF Earned
<1>6. Signs(wjlp)
  BY <1>1 DEF Books
<1>7. \A a \in Accounts : /\ wjlp.userInfo[a].amount \in Int /\ wjlp.userInfo[a].rewardDebt \in Int
  BY <1>1 DEF Books, Fields
<1>8. wjlp.chefDebt \in Int /\ wjlp.chefDebt <= Earned(r, wjlp.staked)
  <2>1. wjlp.staked \in Nat /\ wjlp.chefDebt \in Int /\ wjlp.chefDebt <= Earned(wjlp, wjlp.staked)
    BY <1>1, <1>6 DEF Signs, Books, Fields
  <2> QED
    BY <1>5, <2>1
<1>9. ASSUME NEW a \in Accounts
      PROVE  wjlp.userInfo[a].rewardDebt <= Earned(r, wjlp.userInfo[a].amount)
  <2> DEFINE n == wjlp.userInfo[a].amount
             d == wjlp.userInfo[a].rewardDebt
  <2>1. n \in Nat /\ d \in Int /\ d <= Earned(wjlp, n)
    BY <1>6, <1>7 DEF Signs
  <2> HIDE DEF n, d
  <2>2. d <= Earned(r, n)
    BY <1>5, <2>1
  <2> QED
    BY <2>2 DEF n, d
<1>10. Signs(r)
  BY <1>4, <1>6, <1>8, <1>9 DEF Signs
<1>11. AmountSum(r) = AmountSum(wjlp) /\ BalanceSum(r) = BalanceSum(wjlp)
  BY <1>4 DEF AmountSum, BalanceSum
<1>12. Books(r, 0, 0)
  BY <1>1, <1>3, <1>4, <1>10, <1>11 DEF Books
<1>13. ~r.reverted
  BY <1>1, <1>4
<1> QED
  BY <1>2, <1>12, <1>13 DEF BooksInv, HeldTypes

LEMMA ClaimGainsBooks ==
  ASSUME BooksInv, NEW n \in 1..gains, ClaimGains(n)
  PROVE  BooksInv'
<1> DEFINE m == updateReward(wjlp, "treasury", "stabilityPool", n)
<1>1. /\ Books(wjlp, 0, 0) /\ gains \in Nat
      /\ "treasury" \in Accounts /\ "stabilityPool" \in Accounts
  BY AccountsDiffer DEF BooksInv, HeldTypes
<1>2. n \in Nat /\ gains - n \in Nat
  BY <1>1
<1>3. /\ wjlp' = unwrapFor(m, "stabilityPool", "stabilityPool", n) /\ ~wjlp'.reverted
      /\ gains' = gains - n /\ UNCHANGED <<coll, surplus, pending, stranded, tx>>
  BY DEF ClaimGains, Calls, SendGains
<1>4. Books(m, 0, 0)
  BY <1>1, <1>2, UpdateRewardBooks
<1> HIDE DEF m
<1>5. Books(wjlp', 0, 0)
  BY <1>1, <1>2, <1>3, <1>4, UnwrapForBooks
<1> QED
  BY <1>2, <1>3, <1>5 DEF BooksInv, HeldTypes

LEMMA FinishLiquidationBooks ==
  ASSUME BooksInv, NEW shares \in Shares(tx.redist), FinishLiquidation(shares)
  PROVE  BooksInv'
<1>1. /\ Books(wjlp, 0, 0) /\ gains \in Nat /\ tx.toSP \in Nat /\ tx.redist \in Nat
      /\ tx.surplus \in Nat /\ tx.gas \in Nat
  BY DEF BooksInv, HeldTypes
<1>2. /\ wjlp' = Settle(wjlp, tx) /\ ~wjlp'.reverted
      /\ pending' = [u \in Users |-> pending[u] + shares[u]]
      /\ gains' = gains + tx.toSP /\ tx' = NoTx /\ UNCHANGED <<coll, surplus, stranded>>
  BY DEF FinishLiquidation, Calls
<1>3. Books(wjlp', 0, 0)
  BY <1>1, <1>2, SettleBooks
<1>4. pending' \in [Users -> Nat]
  <2>1. shares \in [Users -> 0..tx.redist]
    BY DEF Shares
  <2>2. \A u \in Users : pending[u] \in Nat /\ shares[u] \in Nat
    BY <1>1, <2>1 DEF BooksInv, HeldTypes
  <2> QED
    BY <1>2, <2>2
<1>5. gains' \in Nat
  BY <1>1, <1>2
<1>6. tx' \in [kind : {"none", "liquidation", "redemption"}, toSP : Nat, redist : Nat,
              surplus : Nat, gas : Nat, drawn : Nat, ended : BOOLEAN]
  BY <1>2 DEF NoTx, Totals
<1> QED
  BY <1>2, <1>3, <1>4, <1>5, <1>6 DEF BooksInv, HeldTypes

LEMMA FinishRedemptionBooks ==
  ASSUME BooksInv, FinishRedemption
  PROVE  BooksInv'
<1>1. /\ Books(wjlp, 0, 0) /\ tx.drawn \in Nat /\ "activePool" \in Accounts /\ "TMR" \in Accounts
  BY AccountsDiffer DEF BooksInv, HeldTypes
<1>2. /\ wjlp' = unwrapFor(wjlp, "activePool", "TMR", tx.drawn) /\ ~wjlp'.reverted
      /\ tx' = NoTx /\ UNCHANGED <<coll, surplus, pending, gains, stranded>>
  BY DEF FinishRedemption, Calls
<1>3. Books(wjlp', 0, 0)
  BY <1>1, <1>2, UnwrapForBooks
<1>4. tx' \in [kind : {"none", "liquidation", "redemption"}, toSP : Nat, redist : Nat,
              surplus : Nat, gas : Nat, drawn : Nat, ended : BOOLEAN]
  BY <1>2 DEF NoTx, Totals
<1> QED
  BY <1>2, <1>3, <1>4 DEF BooksInv, HeldTypes

LEMMA StepKeepsBooks == BooksInv /\ [Next]_vars => BooksInv'
<1> SUFFICES ASSUME BooksInv, [Next]_vars PROVE BooksInv'
  OBVIOUS
<1>1. CASE UNCHANGED vars
  <2>1. /\ wjlp' = wjlp /\ UNCHANGED <<coll, surplus, pending, gains, stranded, tx>>
    BY <1>1 DEF vars
  <2> QED
    BY <2>1 DEF BooksInv, HeldTypes
<1>2. ASSUME NEW b \in Users, TroveNext(b) PROVE BooksInv'
  BY <1>2, LiquidateTroveBooks, RedeemFromTroveBooks, RedeemSingleBooks, CancelPartialBooks
     DEF TroveNext
<1> QED
  BY <1>1, <1>2, UserBooks, WrapOwnBooks, ClaimGainsBooks, FinishLiquidationBooks, FinishRedemptionBooks,
     JoeAccruesBooks DEF Next

(* What the books say in the terms of the model's properties.              *)
LEMMA TypesFromBooks == BooksInv => TypeOK
<1> SUFFICES ASSUME BooksInv PROVE TypeOK
  OBVIOUS
<1>1. Fields(wjlp) /\ Signs(wjlp) /\ wjlp.reverted = FALSE
  BY DEF BooksInv, Books, Fields
<1>2. wjlp.userInfo \in [Accounts -> UserInfo]
  <2>1. ASSUME NEW a \in Accounts PROVE wjlp.userInfo[a] \in UserInfo
    BY <1>1 DEF Fields, Signs, UserInfo
  <2> QED
    BY <1>1, <2>1 DEF Fields
<1>3. wjlp.balances \in [Accounts -> Nat]
  <2>1. \A a \in Accounts : wjlp.balances[a] \in Nat
    BY <1>1 DEF Fields, Signs
  <2> QED
    BY <1>1, <2>1 DEF Fields
<1>4. wjlp.staked \in Nat /\ wjlp.chefDebt \in Nat /\ wjlp.joe \in Nat
  BY <1>1 DEF Fields, Signs
<1>5. wjlp \in [userInfo : [Accounts -> UserInfo], balances : [Accounts -> Nat],
               staked : Nat, chefDebt : Nat, accJoePerShare : Nat, joe : Nat,
               reverted : {FALSE}]
  BY <1>1, <1>2, <1>3, <1>4 DEF Fields
<1> QED
  BY <1>5 DEF TypeOK, BooksInv, HeldTypes

LEMMA SharesFromBooks == BooksInv => SharesMatchSupply
<1> SUFFICES ASSUME BooksInv PROVE SharesMatchSupply
  OBVIOUS
<1>1. Books(wjlp, 0, 0) /\ wjlp.staked \in Int /\ wjlp.balances \in [Accounts -> Int]
  BY DEF BooksInv, Books, Fields
<1>2. TotalOf(Amount) = AmountSum(wjlp)
  BY DEF TotalOf, SumFunction, AmountSum, Amount
<1>3. [a \in Accounts |-> Balance(a)] = wjlp.balances
  BY <1>1 DEF Balance
<1>4. TotalOf(Balance) = BalanceSum(wjlp)
  BY <1>3 DEF TotalOf, SumFunction, BalanceSum
<1> QED
  BY <1>1, <1>2, <1>4 DEF Books, SharesMatchSupply

-----------------------------------------------------------------------------

-----------------------------------------------------------------------------
(* How far an account's amount is ahead of its amountInYeti: the protocol  *)
(* changes both alike, wraps raise the amount and only unwrap lowers it.   *)
Lead(v, a) == v.userInfo[a].amount - v.userInfo[a].amountInYeti

Shaped(v) == Storage(v) /\ \A a \in Accounts : v.userInfo[a].amount \in Int

SameLead(v, r) == Shaped(r) /\ \A a \in Accounts : Lead(r, a) = Lead(v, a)

LEMMA ChefLead ==
  ASSUME NEW v, NEW n, Shaped(v)
  PROVE  SameLead(v, ChefDeposit(v, n)) /\ SameLead(v, ChefWithdraw(v, n))
<1>1. ChefDeposit(v, n).userInfo = v.userInfo /\ ChefWithdraw(v, n).userInfo = v.userInfo
  BY DEF Shaped, Storage, ChefDeposit, ChefWithdraw
<1>2. Storage(ChefDeposit(v, n)) /\ Storage(ChefWithdraw(v, n))
  BY ChefDepositLeaves, ChefWithdrawLeaves DEF Shaped, Leaves
<1> QED
  BY <1>1, <1>2 DEF SameLead, Shaped, Lead

LEMMA TokenLead ==
  ASSUME NEW v, NEW a \in Accounts, NEW n \in Int, Shaped(v)
  PROVE  SameLead(v, Mint(v, a, n)) /\ SameLead(v, Burn(v, a, n))
<1>1. Mint(v, a, n).userInfo = v.userInfo /\ Burn(v, a, n).userInfo = v.userInfo
  BY DEF Shaped, Storage, Mint, Burn
<1>2. Storage(Mint(v, a, n)) /\ Storage(Burn(v, a, n))
  BY MintEffect, BurnEffect DEF Shaped
<1> QED
  BY <1>1, <1>2 DEF SameLead, Shaped, Lead

LEMMA UserUpdateLead ==
  ASSUME NEW v, NEW a \in Accounts, NEW n \in Int, Shaped(v)
  PROVE  LET r == UserUpdate(v, a, n)
         IN  /\ Shaped(r)
             /\ \A x \in Accounts : Lead(r, x) = Lead(v, x) + If(x, a, n)
<1> DEFINE r == UserUpdate(v, a, n)
<1>1. Storage(r) /\ \A x \in Accounts : Yeti(r, x) = Yeti(v, x)
  BY UserUpdateLeaves DEF Shaped, Leaves
<1>2. \A x \in Accounts : r.userInfo[x].amount = v.userInfo[x].amount + If(x, a, n)
  BY DEF Shaped, Storage, UserUpdate, If
<1>3. \A x \in Accounts : v.userInfo[x].amount \in Int /\ Yeti(v, x) \in Int
  BY DEF Shaped, Storage
<1> HIDE DEF r
<1> QED
  BY <1>1, <1>2, <1>3 DEF Shaped, Lead, Yeti, If, r

LEMMA ChangeInYetiLead ==
  ASSUME NEW v, NEW a \in Accounts, NEW n \in Int, Shaped(v)
  PROVE  LET r == ChangeInYeti(v, a, n)
         IN  /\ Shaped(r)
             /\ \A x \in Accounts : Lead(r, x) = Lead(v, x) - If(x, a, n)
<1> DEFINE r == ChangeInYeti(v, a, n)
<1>1. Storage(r) /\ \A x \in Accounts : Yeti(r, x) = Yeti(v, x) + If(x, a, n)
  BY ChangeInYetiEffect DEF Shaped
<1>2. \A x \in Accounts : r.userInfo[x].amount = v.userInfo[x].amount
  BY DEF Shaped, Storage, ChangeInYeti
<1>3. \A x \in Accounts : v.userInfo[x].amount \in Int /\ Yeti(v, x) \in Int
  BY DEF Shaped, Storage
<1> HIDE DEF r
<1> QED
  BY <1>1, <1>2, <1>3 DEF Shaped, Lead, Yeti, If, r

LEMMA LeadInt ==
  ASSUME NEW v, Shaped(v), NEW a \in Accounts
  PROVE  Lead(v, a) \in Int
BY DEF Shaped, Storage, Lead, Yeti

LEMMA SendLead ==
  ASSUME NEW v, NEW a \in Accounts, Shaped(v)
  PROVE  SameLead(v, SendJoeReward(v, a))
<1> DEFINE c == ChefWithdraw(v, 0)
           u == UserUpdate(c, a, 0)
           r == SendJoeReward(v, a)
<1>1. SameLead(v, c)
  BY ChefLead
<1> HIDE DEF c
<1>2. Shaped(u) /\ \A x \in Accounts : Lead(u, x) = Lead(c, x) + If(x, a, 0)
  BY <1>1, UserUpdateLead DEF SameLead
<1> HIDE DEF u
<1>3. \A x \in Accounts : Lead(c, x) \in Int
  BY <1>1, LeadInt DEF SameLead
<1>4. \A x \in Accounts : Lead(u, x) = Lead(v, x)
  BY <1>1, <1>2, <1>3 DEF SameLead, If
<1>5. Storage(r)
  BY SendLeaves DEF Shaped, Leaves
<1>6. r = [u EXCEPT !.userInfo[a].unclaimedJOEReward = 0,
                    !.joe = IF u.userInfo[a].unclaimedJOEReward > @ THEN 0
                            ELSE @ - u.userInfo[a].unclaimedJOEReward]
  BY DEF SendJoeReward, u, c
<1> HIDE DEF r
<1>7. \A x \in Accounts : /\ r.userInfo[x].amount = u.userInfo[x].amount
                          /\ r.userInfo[x].amountInYeti = u.userInfo[x].amountInYeti
  BY <1>2, <1>6 DEF Shaped, Storage
<1> QED
  BY <1>2, <1>4, <1>5, <1>7 DEF SameLead, Shaped, Lead, r

(* What unwrapFor and updateReward begin with.                             *)
LEMMA TakeLead ==
  ASSUME NEW v, NEW a \in Accounts, NEW n \in Int, Shaped(v)
  PROVE  SameLead(v, ChangeInYeti(UserUpdate(SendJoeReward(v, a), a, -n), a, -n))
<1> DEFINE s == SendJoeReward(v, a)
           u == UserUpdate(s, a, -n)
           r == ChangeInYeti(u, a, -n)
<1>1. SameLead(v, s)
  BY SendLead
<1> HIDE DEF s
<1>2. -n \in Int /\ Shaped(s)
  BY <1>1 DEF SameLead
<1>3. Shaped(u) /\ \A x \in Accounts : Lead(u, x) = Lead(s, x) + If(x, a, -n)
  BY <1>2, UserUpdateLead
<1> HIDE DEF u
<1>4. Shaped(r) /\ \A x \in Accounts : Lead(r, x) = Lead(u, x) - If(x, a, -n)
  BY <1>2, <1>3, ChangeInYetiLead
<1> HIDE DEF r
<1>5. \A x \in Accounts : Lead(s, x) \in Int
  BY <1>2, LeadInt
<1>6. \A x \in Accounts : Lead(r, x) = Lead(v, x)
  BY <1>1, <1>2, <1>3, <1>4, <1>5 DEF SameLead, If
<1>7. SameLead(v, r)
  BY <1>4, <1>6 DEF SameLead
<1> QED
  BY <1>7 DEF r, u, s

LEMMA SameTwice ==
  ASSUME NEW v, NEW m, NEW r, SameLead(v, m), SameLead(m, r)
  PROVE  SameLead(v, r) /\ Shaped(m)
BY DEF SameLead

LEMMA UnwrapForLead ==
  ASSUME NEW v, NEW pool \in Accounts, NEW a \in Accounts, NEW n \in Int, Shaped(v)
  PROVE  SameLead(v, unwrapFor(v, pool, a, n))
<1> DEFINE s == ChangeInYeti(UserUpdate(SendJoeReward(v, a), a, -n), a, -n)
           c == ChefWithdraw(s, n)
<1>1. SameLead(v, s) /\ Shaped(s)
  BY TakeLead DEF SameLead
<1> HIDE DEF s
<1>2. SameLead(s, c) /\ Shaped(c)
  BY <1>1, ChefLead DEF SameLead
<1> HIDE DEF c
<1>3. SameLead(c, Burn(c, pool, n))
  BY <1>2, TokenLead
<1>4. SameLead(v, Burn(c, pool, n))
  BY <1>1, <1>2, <1>3 DEF SameLead
<1> QED
  BY <1>4 DEF unwrapFor, c, s

LEMMA UpdateRewardLead ==
  ASSUME NEW v, NEW a \in Accounts, NEW b \in Accounts, NEW n \in Int, Shaped(v)
  PROVE  SameLead(v, updateReward(v, a, b, n))
<1> DEFINE s == ChangeInYeti(UserUpdate(SendJoeReward(v, a), a, -n), a, -n)
           u == UserUpdate(s, b, n)
           r == ChangeInYeti(u, b, n)
<1>1. SameLead(v, s) /\ Shaped(s)
  BY TakeLead DEF SameLead
<1> HIDE DEF s
<1>2. Shaped(u) /\ \A x \in Accounts : Lead(u, x) = Lead(s, x) + If(x, b, n)
  BY <1>1, UserUpdateLead
<1> HIDE DEF u
<1>3. Shaped(r) /\ \A x \in Accounts : Lead(r, x) = Lead(u, x) - If(x, b, n)
  BY <1>2, ChangeInYetiLead
<1> HIDE DEF r
<1>4. \A x \in Accounts : Lead(s, x) \in Int
  BY <1>1, LeadInt
<1>5. \A x \in Accounts : Lead(r, x) = Lead(v, x)
  BY <1>1, <1>2, <1>3, <1>4 DEF SameLead, If
<1>6. SameLead(v, r)
  BY <1>3, <1>5 DEF SameLead
<1> QED
  BY <1>6 DEF updateReward, r, u, s

LEMMA TransferLead ==
  ASSUME NEW v, NEW a \in Accounts, NEW b \in Accounts, NEW n \in Int, Shaped(v)
  PROVE  SameLead(v, transfer(v, a, b, n))
<1> DEFINE d == Burn(v, a, n)
           m == Mint(d, b, n)
<1>1. SameLead(v, d) /\ Shaped(d)
  BY TokenLead DEF SameLead
<1> HIDE DEF d
<1>2. SameLead(d, m)
  BY <1>1, TokenLead
<1>3. PICK c : transfer(v, a, b, n) = [m EXCEPT !.reverted = c]
  BY DEF transfer, Move, m, d
<1> HIDE DEF m
<1>4. [m EXCEPT !.reverted = c].userInfo = m.userInfo
  BY <1>2 DEF SameLead, Shaped, Storage
<1>5. Storage(transfer(v, a, b, n))
  BY TransferEffect DEF Shaped
<1> QED
  BY <1>1, <1>2, <1>3, <1>4, <1>5 DEF SameLead, Shaped, Lead

LEMMA WrapLead ==
  ASSUME NEW v, NEW to \in Accounts, NEW a \in Accounts, NEW n \in Nat, Shaped(v)
  PROVE  LET r == wrap(v, n, to, a)
         IN  /\ Shaped(r)
             /\ \A x \in Accounts : Lead(r, x) >= Lead(v, x)
             /\ to = "activePool" => SameLead(v, r)
<1> DEFINE c == ChefDeposit(v, n)
           u == UserUpdate(c, a, n)
           m == Mint(u, to, n)
           r == wrap(v, n, to, a)
           y == ChangeInYeti(m, a, n)
<1>1. SameLead(v, c) /\ Shaped(c) /\ n \in Int
  BY ChefLead DEF SameLead
<1> HIDE DEF c
<1>2. Shaped(u) /\ \A x \in Accounts : Lead(u, x) = Lead(c, x) + If(x, a, n)
  BY <1>1, UserUpdateLead
<1> HIDE DEF u
<1>3. SameLead(u, m) /\ Shaped(m)
  BY <1>1, <1>2, TokenLead DEF SameLead
<1>4. r = IF to = "activePool" THEN y ELSE m
  BY DEF wrap, y, m, u, c
<1> HIDE DEF m, r
<1>5. Shaped(y) /\ \A x \in Accounts : Lead(y, x) = Lead(m, x) - If(x, a, n)
  BY <1>1, <1>3, ChangeInYetiLead
<1> HIDE DEF y
<1>6. \A x \in Accounts : Lead(c, x) \in Int /\ Lead(c, x) = Lead(v, x)
  BY <1>1, LeadInt DEF SameLead
<1>7. \A x \in Accounts : Lead(m, x) >= Lead(v, x) /\ Lead(y, x) = Lead(v, x)
  BY <1>1, <1>2, <1>3, <1>5, <1>6 DEF SameLead, If
<1>8. \A x \in Accounts : Lead(v, x) \in Int
  BY LeadInt
<1> QED
  BY <1>3, <1>4, <1>5, <1>7, <1>8 DEF SameLead, r

LEMMA UnwrapLead ==
  ASSUME NEW v, NEW a \in Accounts, NEW n \in Int, Shaped(v)
  PROVE  LET r == unwrap(v, a, n)
         IN  Shaped(r) /\ \A x \in Accounts : Lead(r, x) = Lead(v, x) - If(x, a, n)
<1> DEFINE s == SendJoeReward(v, a)
           u == UserUpdate(s, a, -n)
           c == ChefWithdraw(u, n)
<1>1. SameLead(v, s) /\ Shaped(s) /\ -n \in Int
  BY SendLead DEF SameLead
<1> HIDE DEF s
<1>2. Shaped(u) /\ \A x \in Accounts : Lead(u, x) = Lead(s, x) + If(x, a, -n)
  BY <1>1, UserUpdateLead
<1> HIDE DEF u
<1>3. SameLead(u, c) /\ Shaped(c)
  BY <1>2, ChefLead DEF SameLead
<1> HIDE DEF c
<1>4. SameLead(c, Burn(c, a, n))
  BY <1>3, TokenLead
<1>5. \A x \in Accounts : Lead(s, x) \in Int
  BY <1>1, LeadInt
<1>6. \A x \in Accounts : Lead(u, x) = Lead(v, x) - If(x, a, n)
  BY <1>1, <1>2, <1>5 DEF SameLead, If
<1>7. unwrap(v, a, n) = Burn(c, a, n)
  BY DEF unwrap, c, u, s
<1> QED
  BY <1>3, <1>4, <1>6, <1>7 DEF SameLead

LEMMA MovePendingLead ==
  ASSUME NEW v, NEW u \in Users, pending[u] \in Int, Shaped(v)
  PROVE  SameLead(v, MovePending(v, u))
<1> DEFINE n == pending[u]
           e == updateReward(v, "treasury", "defaultPool", n)
           s == transfer(e, "defaultPool", "activePool", n)
           r == updateReward(s, "defaultPool", u, n)
<1>1. /\ "treasury" \in Accounts /\ "defaultPool" \in Accounts /\ "activePool" \in Accounts
      /\ u \in Accounts /\ n \in Int
  BY AccountsDiffer
<1>2. MovePending(v, u) = IF n = 0 THEN v ELSE r
  BY DEF MovePending
<1> HIDE DEF n
<1>3. SameLead(v, e) /\ Shaped(e)
  BY <1>1, UpdateRewardLead DEF SameLead
<1> HIDE DEF e
<1>4. SameLead(e, s) /\ Shaped(s)
  BY <1>1, <1>3, TransferLead DEF SameLead
<1> HIDE DEF s
<1>5. SameLead(s, r)
  BY <1>1, <1>4, UpdateRewardLead
<1> HIDE DEF r
<1>6. SameLead(v, r) /\ SameLead(v, v)
  BY <1>3, <1>4, <1>5 DEF SameLead
<1> QED
  BY <1>2, <1>6

LEMMA ClosingLead ==
  ASSUME NEW v, NEW n \in Int, Shaped(v)
  PROVE  SameLead(v, Closing(v, n))
BY TransferLead, AccountsDiffer DEF Closing

LEMMA SettleLead ==
  ASSUME NEW v, NEW totals \in TxType, Shaped(v)
  PROVE  SameLead(v, Settle(v, totals))
<1> DEFINE n1 == totals.toSP
           n2 == totals.redist
           n3 == totals.surplus
           n4 == totals.gas
           o == transfer(v, "activePool", "stabilityPool", n1)
           m == transfer(o, "activePool", "defaultPool", n2)
           k == transfer(m, "activePool", "collSurplusPool", n3)
           r == unwrapFor(k, "activePool", "TML", n4)
<1>1. /\ "activePool" \in Accounts /\ "stabilityPool" \in Accounts
      /\ "defaultPool" \in Accounts /\ "collSurplusPool" \in Accounts /\ "TML" \in Accounts
      /\ n1 \in Int /\ n2 \in Int /\ n3 \in Int /\ n4 \in Int
  BY AccountsDiffer DEF TxType
<1> HIDE DEF n1, n2, n3, n4
<1>2. SameLead(v, o) /\ Shaped(o)
  BY <1>1, TransferLead DEF SameLead
<1> HIDE DEF o
<1>3. SameLead(o, m) /\ Shaped(m)
  BY <1>1, <1>2, TransferLead DEF SameLead
<1> HIDE DEF m
<1>4. SameLead(m, k) /\ Shaped(k)
  BY <1>1, <1>3, TransferLead DEF SameLead
<1> HIDE DEF k
<1>5. SameLead(k, r)
  BY <1>1, <1>4, UnwrapForLead
<1>6. r = Settle(v, totals)
  BY DEF Settle, o, m, k, n1, n2, n3, n4
<1> HIDE DEF r
<1> QED
  BY <1>2, <1>3, <1>4, <1>5, <1>6 DEF SameLead

(* The steps in which somebody liquidates or redeems.                      *)
LEMMA TroveLeads ==
  ASSUME EarnersTypes, Shaped(wjlp), NEW b \in Users, TroveNext(b)
  PROVE  SameLead(wjlp, wjlp')
<1> DEFINE m == MovePending(wjlp, b)
<1>1. /\ b \in Accounts /\ "treasury" \in Accounts /\ "TML" \in Accounts /\ "TMR" \in Accounts
      /\ "activePool" \in Accounts /\ pending[b] \in Int /\ coll[b] \in Int
  BY AccountsDiffer DEF EarnersTypes
<1>2. SameLead(wjlp, m) /\ Shaped(m)
  BY <1>1, MovePendingLead DEF SameLead
<1>3. Entire(b) \in Int
  BY <1>1 DEF Entire
<1>4. ASSUME NEW capped \in 0..Entire(b), NEW toSP \in 0..Entire(b),
             LiquidateTrove(b, capped, toSP)
      PROVE  SameLead(wjlp, wjlp')
  <2> DEFINE gas == capped \div PERCENT_DIVISOR
             pools == toSP + (capped - gas - toSP)
             g == updateReward(m, b, "treasury", pools)
  <2>1. gas \in Int /\ pools \in Int
    BY <1>3, CollateralAssumption
  <2>2. wjlp' = updateReward(g, b, "TML", gas)
    BY <1>4 DEF LiquidateTrove, Calls, SplitRewards
  <2> HIDE DEF gas, pools, m
  <2>3. SameLead(m, g) /\ Shaped(g)
    <3>1. Shaped(m) /\ b \in Accounts /\ "treasury" \in Accounts /\ pools \in Int
      BY <1>1, <1>2, <2>1
    <3>2. SameLead(m, updateReward(m, b, "treasury", pools))
      BY <3>1, UpdateRewardLead
    <3> QED
      BY <3>2 DEF SameLead
  <2> HIDE DEF g
  <2>4. SameLead(g, wjlp')
    BY <1>1, <2>1, <2>2, <2>3, UpdateRewardLead
  <2> QED
    BY <1>2, <2>3, <2>4 DEF SameLead
<1>5. ASSUME NEW lot \in 0..Entire(b)
      PROVE  SameLead(wjlp, Lot(wjlp, b, lot)) /\ Shaped(Lot(wjlp, b, lot))
  <2>1. lot \in Int
    BY <1>3
  <2>2. Lot(wjlp, b, lot) = updateReward(m, b, "TMR", lot)
    BY DEF Lot
  <2> HIDE DEF m
  <2>3. SameLead(m, Lot(wjlp, b, lot))
    BY <1>1, <1>2, <2>1, <2>2, UpdateRewardLead
  <2> QED
    BY <1>2, <2>3 DEF SameLead
<1>6. ASSUME NEW lot \in 0..Entire(b), CancelPartial(b, lot)
      PROVE  SameLead(wjlp, wjlp')
  BY <1>5, <1>6 DEF CancelPartial, Calls
<1>7. ASSUME NEW lot \in 0..Entire(b), NEW closes \in BOOLEAN, RedeemFromTrove(b, lot, closes)
      PROVE  SameLead(wjlp, wjlp')
  <2> DEFINE l == Lot(wjlp, b, lot)
             left == Entire(b) - lot
  <2>1. SameLead(wjlp, l) /\ Shaped(l)
    BY <1>5
  <2>2. wjlp' = IF closes THEN Closing(l, left) ELSE l
    BY <1>7 DEF RedeemFromTrove, Calls
  <2>3. left \in Int
    BY <1>3
  <2> HIDE DEF l, left
  <2>4. SameLead(l, Closing(l, left))
    BY <2>1, <2>3, ClosingLead
  <2> QED
    BY <2>1, <2>2, <2>4 DEF SameLead
<1>8. ASSUME NEW lot \in 0..Entire(b), NEW closes \in BOOLEAN, RedeemSingle(b, lot, closes)
      PROVE  SameLead(wjlp, wjlp')
  <2> DEFINE left == Entire(b) - lot
             k == IF closes THEN Closing(m, left) ELSE m
  <2>1. wjlp' = unwrapFor(k, "activePool", b, lot)
    BY <1>8 DEF RedeemSingle, Calls
  <2>2. left \in Int /\ lot \in Int
    BY <1>3
  <2> HIDE DEF m, left
  <2>3. SameLead(m, Closing(m, left))
    BY <1>2, <2>2, ClosingLead
  <2>4. SameLead(wjlp, k) /\ Shaped(k)
    BY <1>2, <2>3 DEF SameLead
  <2> HIDE DEF k
  <2>5. SameLead(k, wjlp')
    BY <1>1, <2>1, <2>2, <2>4, UnwrapForLead
  <2> QED
    BY <2>4, <2>5 DEF SameLead
<1> QED
  BY <1>4, <1>6, <1>7, <1>8 DEF TroveNext

LEMMA BooksShaped ==
  ASSUME EarnersTypes, BooksInv
  PROVE  Shaped(wjlp)
<1>1. Fields(wjlp)
  BY DEF BooksInv, Books
<1> QED
  BY <1>1 DEF Fields, Shaped, EarnersTypes

LEMMA BooksShapedNext ==
  ASSUME EarnersTypes', BooksInv'
  PROVE  Shaped(wjlp')
<1>1. Fields(wjlp')
  BY DEF BooksInv, Books
<1> QED
  BY <1>1 DEF Fields, Shaped, EarnersTypes

(* Only unwrap by its owner puts an account's amount further behind.       *)
LEMMA LeadsGrow ==
  ASSUME EarnersTypes, BooksInv, [Next]_vars
  PROVE  \A a \in Accounts : \/ Lead(wjlp', a) >= Lead(wjlp, a)
                             \/ a \in Users /\ \E n \in Amounts : UnwrapOwn(a, n)
<1>1. Shaped(wjlp)
  BY BooksShaped
<1>2. \A a \in Accounts : Lead(wjlp, a) \in Int
  BY <1>1, LeadInt
<1> DEFINE Grow == \A a \in Accounts : Lead(wjlp', a) >= Lead(wjlp, a)
<1>3. ASSUME SameLead(wjlp, wjlp') PROVE Grow
  BY <1>2, <1>3 DEF SameLead
<1> HIDE DEF Grow
<1>4. ASSUME UNCHANGED vars PROVE SameLead(wjlp, wjlp')
  BY <1>1, <1>4 DEF vars, SameLead
<1>5. \A n \in Amounts : n \in Int /\ n \in Nat
  BY CollateralAssumption
<1>6. /\ "activePool" \in Accounts /\ "collSurplusPool" \in Accounts /\ "TMR" \in Accounts
      /\ "treasury" \in Accounts /\ "stabilityPool" \in Accounts
  BY AccountsDiffer
<1>7. ASSUME NEW u \in Users, UserNext(u), ~ \E n \in Amounts : UnwrapOwn(u, n) PROVE Grow
  <2>1. u \in Accounts /\ pending[u] \in Int /\ surplus[u] \in Int
    BY AccountsDiffer DEF EarnersTypes
  <2>2. ASSUME NEW n \in Amounts, Deposit(u, n) PROVE SameLead(wjlp, wjlp')
    <3> DEFINE w == wrap(wjlp, n, "activePool", u)
    <3>1. SameLead(wjlp, w) /\ Shaped(w)
      BY <1>1, <1>5, <1>6, <2>1, WrapLead
    <3>2. wjlp' = MovePending(w, u)
      BY <2>2 DEF Deposit, Calls
    <3> HIDE DEF w
    <3>3. SameLead(w, wjlp')
      BY <2>1, <3>1, <3>2, MovePendingLead
    <3> QED
      BY <3>1, <3>3 DEF SameLead
  <2>3. SameLead(wjlp, MovePending(wjlp, u)) /\ Shaped(MovePending(wjlp, u))
    BY <1>1, <2>1, MovePendingLead DEF SameLead
  <2>4. ASSUME NEW n \in Amounts, Withdraw(u, n) PROVE SameLead(wjlp, wjlp')
    <3> DEFINE m == MovePending(wjlp, u)
    <3>1. wjlp' = unwrapFor(m, "activePool", u, n)
      BY <2>4 DEF Withdraw, Calls
    <3>2. SameLead(wjlp, m) /\ Shaped(m)
      BY <2>3
    <3> HIDE DEF m
    <3>3. SameLead(m, wjlp')
      BY <1>5, <1>6, <2>1, <3>1, <3>2, UnwrapForLead
    <3> QED
      BY <3>2, <3>3 DEF SameLead
  <2>5. ASSUME NEW n \in Amounts, NEW to \in Destinations, Transfer(u, to, n)
        PROVE  SameLead(wjlp, wjlp')
    <3>1. to \in Accounts
      BY CollateralAssumption
    <3> QED
      BY <1>1, <1>5, <2>1, <2>5, <3>1, TransferLead DEF Transfer, Calls
  <2>6. ASSUME ApplyPendingRewards(u) PROVE SameLead(wjlp, wjlp')
    BY <2>3, <2>6 DEF ApplyPendingRewards, Calls
  <2>7. ASSUME ClaimReward(u) PROVE SameLead(wjlp, wjlp')
    BY <1>1, <2>1, <2>7, SendLead DEF ClaimReward, Calls
  <2>8. ASSUME ClaimSurplus(u) PROVE SameLead(wjlp, wjlp')
    BY <1>1, <1>6, <2>1, <2>8, UnwrapForLead DEF ClaimSurplus, Calls
  <2> QED
    BY <1>3, <1>7, <2>2, <2>4, <2>5, <2>6, <2>7, <2>8 DEF UserNext
<1>8. ASSUME NEW u \in Users, NEW n \in Amounts, UnwrapOwn(u, n)
      PROVE  \A a \in Accounts \ {u} : Lead(wjlp', a) >= Lead(wjlp, a)
  <2>1. u \in Accounts /\ wjlp' = unwrap(wjlp, u, n)
    BY <1>8, AccountsDiffer DEF UnwrapOwn, Calls
  <2>2. \A a \in Accounts \ {u} : Lead(wjlp', a) = Lead(wjlp, a)
    BY <1>1, <1>2, <1>5, <2>1, UnwrapLead DEF If
  <2> QED
    BY <1>2, <2>2
<1>9. ASSUME NEW n \in Amounts, NEW to \in Destinations, NEW r \in RewardRecipients,
             WrapOwn(n, to, r)
      PROVE  Grow
  <2>1. to \in Accounts /\ r \in Accounts /\ n \in Nat
    BY <1>5, CollateralAssumption
  <2>2. wjlp' = wrap(wjlp, n, to, r)
    BY <1>9 DEF WrapOwn, Calls
  <2> QED
    BY <1>1, <2>1, <2>2, WrapLead DEF Grow
<1>10. ASSUME NEW n \in 1..gains, ClaimGains(n) PROVE SameLead(wjlp, wjlp')
  <2> DEFINE m == updateReward(wjlp, "treasury", "stabilityPool", n)
  <2>1. n \in Int
    OBVIOUS
  <2>2. SameLead(wjlp, m) /\ Shaped(m)
    BY <1>1, <1>6, <2>1, UpdateRewardLead DEF SameLead
  <2>3. wjlp' = unwrapFor(m, "stabilityPool", "stabilityPool", n)
    BY <1>10 DEF ClaimGains, Calls, SendGains
  <2> HIDE DEF m
  <2>4. SameLead(m, wjlp')
    BY <1>6, <2>1, <2>2, <2>3, UnwrapForLead
  <2> QED
    BY <2>2, <2>4 DEF SameLead
<1>11. ASSUME NEW shares \in Shares(tx.redist), FinishLiquidation(shares)
       PROVE  SameLead(wjlp, wjlp')
  <2>1. tx \in TxType
    BY DEF EarnersTypes
  <2> QED
    BY <1>1, <1>11, <2>1, SettleLead DEF FinishLiquidation, Calls
<1>12. ASSUME FinishRedemption PROVE SameLead(wjlp, wjlp')
  <2>1. tx.drawn \in Int
    BY DEF EarnersTypes, TxType
  <2> QED
    BY <1>1, <1>6, <1>12, <2>1, UnwrapForLead DEF FinishRedemption, Calls
<1>13. ASSUME JoeAccrues PROVE SameLead(wjlp, wjlp')
  <2>1. wjlp'.userInfo = wjlp.userInfo
    BY <1>1, <1>13 DEF JoeAccrues, Shaped, Storage
  <2>2. Leaves(wjlp, wjlp')
    BY <1>1, <1>13 DEF JoeAccrues, Leaves, Shaped, Storage, Yeti
  <2> QED
    BY <1>1, <2>1, <2>2 DEF SameLead, Shaped, Lead, Leaves
<1>14. ASSUME NEW b \in Users, TroveNext(b) PROVE SameLead(wjlp, wjlp')
  BY <1>1, <1>14, TroveLeads
<1>15. Grow \/ \E u \in Users, n \in Amounts : UnwrapOwn(u, n)
  <2>1. SUFFICES ASSUME Next, \A u \in Users : ~ \E n \in Amounts : UnwrapOwn(u, n)
                 PROVE  Grow
    BY <1>3, <1>4
  <2>2. ASSUME NEW u \in Users, UserNext(u) \/ TroveNext(u) PROVE Grow
    BY <1>3, <1>7, <1>14, <2>1, <2>2
  <2> QED
    BY <1>3, <1>9, <1>10, <1>11, <1>12, <1>13, <2>1, <2>2 DEF Next
<1> QED
  BY <1>8, <1>15 DEF Grow

-----------------------------------------------------------------------------
(* Sums over the users.                                                    *)

LEMMA UserSum ==
  ASSUME NEW f \in [Users -> Nat]
  PROVE  SumFunction(f) \in Int
<1>1. \A x \in Users : f[x] \in Int
  OBVIOUS
<1>2. SumFunctionOnSet(f, Users) \in Int
  BY <1>1, SumInt, CollateralAssumption
<1> QED
  BY <1>2 DEF SumFunction

LEMMA UserSumExcept ==
  ASSUME NEW f \in [Users -> Nat], NEW u \in Users, NEW n \in Nat
  PROVE  /\ SumFunction(f) \in Nat
         /\ SumFunction([f EXCEPT ![u] = n]) = SumFunction(f) - f[u] + n
<1> DEFINE g == [f EXCEPT ![u] = n]
<1>1. /\ \A x \in Users : f[x] \in Int /\ f[x] \in Nat /\ g[x] \in Int
      /\ \A x \in Users \ {u} : g[x] = f[x]
      /\ g[u] = n /\ DOMAIN f = Users /\ DOMAIN g = Users
  OBVIOUS
<1> HIDE DEF g
<1>2. SumFunctionOnSet(f, Users) \in Nat
  BY <1>1, SumNat, CollateralAssumption
<1>3. SumFunctionOnSet(g, Users) = SumFunctionOnSet(f, Users) - f[u] + g[u]
  BY <1>1, SumUpdate, CollateralAssumption
<1> QED
  BY <1>1, <1>2, <1>3 DEF SumFunction, g

LEMMA UserSumPlus ==
  ASSUME NEW f \in [Users -> Nat], NEW g \in [Users -> Nat]
  PROVE  /\ SumFunction(f) \in Nat /\ SumFunction(g) \in Nat
         /\ SumFunction([u \in Users |-> f[u] + g[u]]) = SumFunction(f) + SumFunction(g)
<1> DEFINE h == [u \in Users |-> f[u] + g[u]]
<1>1. /\ \A x \in Users : f[x] \in Nat /\ g[x] \in Nat /\ f[x] \in Int /\ g[x] \in Int
                         /\ h[x] = f[x] + g[x]
      /\ DOMAIN f = Users /\ DOMAIN g = Users /\ DOMAIN h = Users
  OBVIOUS
<1> HIDE DEF h
<1>2. SumFunctionOnSet(f, Users) \in Nat /\ SumFunctionOnSet(g, Users) \in Nat
  BY <1>1, SumNat, CollateralAssumption
<1>3. SumFunctionOnSet(h, Users) = SumFunctionOnSet(f, Users) + SumFunctionOnSet(g, Users)
  BY <1>1, SumPlus, CollateralAssumption
<1> QED
  BY <1>1, <1>2, <1>3 DEF SumFunction, h
-----------------------------------------------------------------------------
(* What the managers earn for and what the pools hold.                     *)

TxShape ==
  /\ tx.kind # "liquidation" => tx.toSP = 0 /\ tx.redist = 0 /\ tx.surplus = 0 /\ tx.gas = 0
  /\ tx.kind # "redemption" => tx.drawn = 0

(* The three contracts that pass shares on have what they will send in     *)
(* amountInYeti, and their amounts are not behind.                         *)
EnoughInYeti ==
  /\ Yeti(wjlp, "TML") >= tx.gas
  /\ Yeti(wjlp, "TMR") >= tx.drawn + SumFunction(stranded)
  /\ Yeti(wjlp, "treasury") >= gains + SumFunction(pending) + tx.toSP + tx.redist

ContractLeads == \A a \in {"TML", "TMR", "treasury"} : Lead(wjlp, a) >= 0

HeldInv ==
  /\ EarnersTypes /\ BooksInv /\ TxShape
  /\ ContractLeads /\ EnoughInYeti /\ PoolsHoldWhatTheyOwe

(* What is known of every step but those of outsiders.                     *)
ProtocolStep ==
  /\ EarnersTypes' /\ ContractLeads'
  /\ TreasuryGap(wjlp', tx') = TreasuryGap(wjlp, tx)

(* By how much the calls of a chain change what the managers earn for and  *)
(* what each pool holds.                                                   *)
Flows(v, r, tml, tmr, ap, sp, dp, cs) ==
  /\ Storage(r)
  /\ Yeti(r, "TML") = Yeti(v, "TML") + tml
  /\ Yeti(r, "TMR") = Yeti(v, "TMR") + tmr
  /\ r.balances["activePool"] = v.balances["activePool"] + ap
  /\ r.balances["stabilityPool"] = v.balances["stabilityPool"] + sp
  /\ r.balances["defaultPool"] = v.balances["defaultPool"] + dp
  /\ r.balances["collSurplusPool"] = v.balances["collSurplusPool"] + cs

LEMMA FlowInts ==
  ASSUME NEW v, Storage(v)
  PROVE  /\ Yeti(v, "TML") \in Int /\ Yeti(v, "TMR") \in Int
         /\ v.balances["activePool"] \in Int /\ v.balances["stabilityPool"] \in Int
         /\ v.balances["defaultPool"] \in Int /\ v.balances["collSurplusPool"] \in Int
<1>1. \A a \in Accounts : Yeti(v, a) \in Int /\ v.balances[a] \in Int
  BY DEF Storage
<1> QED
  BY <1>1, AccountsDiffer

LEMMA FlowsTwice ==
  ASSUME NEW v, NEW m, NEW r, Storage(v),
         NEW tml \in Int, NEW tmr \in Int, NEW ap \in Int, NEW sp \in Int, NEW dp \in Int, NEW cs \in Int,
         NEW tml2 \in Int, NEW tmr2 \in Int, NEW ap2 \in Int, NEW sp2 \in Int, NEW dp2 \in Int,
         NEW cs2 \in Int,
         Flows(v, m, tml, tmr, ap, sp, dp, cs), Flows(m, r, tml2, tmr2, ap2, sp2, dp2, cs2)
  PROVE  Flows(v, r, tml + tml2, tmr + tmr2, ap + ap2, sp + sp2, dp + dp2, cs + cs2)
<1>1. /\ Yeti(v, "TML") \in Int /\ Yeti(v, "TMR") \in Int
      /\ v.balances["activePool"] \in Int /\ v.balances["stabilityPool"] \in Int
      /\ v.balances["defaultPool"] \in Int /\ v.balances["collSurplusPool"] \in Int
  BY FlowInts
<1>2. Yeti(r, "TML") = Yeti(v, "TML") + (tml + tml2)
  BY <1>1 DEF Flows
<1>3. Yeti(r, "TMR") = Yeti(v, "TMR") + (tmr + tmr2)
  BY <1>1 DEF Flows
<1>4. r.balances["activePool"] = v.balances["activePool"] + (ap + ap2)
  BY <1>1 DEF Flows
<1>5. r.balances["stabilityPool"] = v.balances["stabilityPool"] + (sp + sp2)
  BY <1>1 DEF Flows
<1>6. r.balances["defaultPool"] = v.balances["defaultPool"] + (dp + dp2)
  BY <1>1 DEF Flows
<1>7. r.balances["collSurplusPool"] = v.balances["collSurplusPool"] + (cs + cs2)
  BY <1>1 DEF Flows
<1> QED
  BY <1>2, <1>3, <1>4, <1>5, <1>6, <1>7 DEF Flows

LEMMA MovePendingFlows ==
  ASSUME NEW v, NEW u \in Users, Storage(v), pending[u] \in Int
  PROVE  Flows(v, MovePending(v, u), 0, 0, pending[u], 0, -pending[u], 0)
<1> DEFINE r == MovePending(v, u)
           p == pending[u]
<1>1. /\ Storage(r)
      /\ \A x \in Accounts : Yeti(r, x) = Yeti(v, x) - If(x, "treasury", p) + If(x, u, p)
      /\ \A x \in Accounts : r.balances[x] = v.balances[x]
           - If(x, "defaultPool", p) + If(x, "activePool", p)
  BY MovePendingEffect
<1>2. p \in Int
  OBVIOUS
<1> HIDE DEF r, p
<1>3. Yeti(r, "TML") = Yeti(v, "TML") + 0 /\ Yeti(r, "TMR") = Yeti(v, "TMR") + 0
  BY <1>1, AccountsDiffer, FlowInts DEF If
<1>4. /\ r.balances["activePool"] = v.balances["activePool"] + p
      /\ r.balances["stabilityPool"] = v.balances["stabilityPool"] + 0
      /\ r.balances["defaultPool"] = v.balances["defaultPool"] + (-p)
      /\ r.balances["collSurplusPool"] = v.balances["collSurplusPool"] + 0
  BY <1>1, <1>2, AccountsDiffer, FlowInts DEF If
<1>5. Flows(v, r, 0, 0, p, 0, -p, 0)
  BY <1>1, <1>3, <1>4 DEF Flows
<1> QED
  BY <1>5 DEF r, p

LEMMA WrapFlows ==
  ASSUME NEW v, NEW u \in Users, NEW n \in Int, Storage(v)
  PROVE  Flows(v, wrap(v, n, "activePool", u), 0, 0, n, 0, 0, 0)
<1> DEFINE r == wrap(v, n, "activePool", u)
<1>1. /\ Storage(r)
      /\ \A x \in Accounts : Yeti(r, x) = Yeti(v, x) + If(x, u, n)
      /\ \A x \in Accounts : r.balances[x] = v.balances[x] + If(x, "activePool", n)
  BY WrapEffect, AccountsDiffer
<1> HIDE DEF r
<1>2. Yeti(r, "TML") = Yeti(v, "TML") + 0 /\ Yeti(r, "TMR") = Yeti(v, "TMR") + 0
  BY <1>1, AccountsDiffer, FlowInts DEF If
<1>3. /\ r.balances["activePool"] = v.balances["activePool"] + n
      /\ r.balances["stabilityPool"] = v.balances["stabilityPool"] + 0
      /\ r.balances["defaultPool"] = v.balances["defaultPool"] + 0
      /\ r.balances["collSurplusPool"] = v.balances["collSurplusPool"] + 0
  BY <1>1, AccountsDiffer, FlowInts DEF If
<1>4. Flows(v, r, 0, 0, n, 0, 0, 0)
  BY <1>1, <1>2, <1>3 DEF Flows
<1> QED
  BY <1>4 DEF r

Minus(a, b, n) == IF a = b THEN -n ELSE 0

(* An unwrapping, in any of the managers' and pools' accounts.             *)
LEMMA UnwrapForFlows ==
  ASSUME NEW v, NEW pool \in Pools, NEW a \in Accounts, NEW n \in Int, Storage(v)
  PROVE  Flows(v, unwrapFor(v, pool, a, n), Minus("TML", a, n), Minus("TMR", a, n),
               Minus("activePool", pool, n), Minus("stabilityPool", pool, n),
               Minus("defaultPool", pool, n), Minus("collSurplusPool", pool, n))
<1> DEFINE r == unwrapFor(v, pool, a, n)
<1>0. pool \in Accounts
  BY DEF Accounts
<1>1. /\ Storage(r)
      /\ \A x \in Accounts : Yeti(r, x) = Yeti(v, x) - If(x, a, n)
      /\ \A x \in Accounts : r.balances[x] = v.balances[x] - If(x, pool, n)
  BY <1>0, UnwrapForEffect
<1> HIDE DEF r
<1>2. \A x, y : /\ If(x, y, n) \in Int /\ Minus(x, y, n) \in Int
              /\ \A k \in Int : k - If(x, y, n) = k + Minus(x, y, n)
  BY DEF If, Minus
<1>3. Yeti(r, "TML") = Yeti(v, "TML") + (Minus("TML", a, n))
  BY <1>1, <1>2, AccountsDiffer, FlowInts
<1>4. Yeti(r, "TMR") = Yeti(v, "TMR") + (Minus("TMR", a, n))
  BY <1>1, <1>2, AccountsDiffer, FlowInts
<1>5. /\ r.balances["activePool"] = v.balances["activePool"] + (Minus("activePool", pool, n))
      /\ r.balances["stabilityPool"] = v.balances["stabilityPool"] + (Minus("stabilityPool", pool, n))
      /\ r.balances["defaultPool"] = v.balances["defaultPool"] + (Minus("defaultPool", pool, n))
      /\ r.balances["collSurplusPool"] =
           v.balances["collSurplusPool"] + (Minus("collSurplusPool", pool, n))
  BY <1>1, <1>2, AccountsDiffer, FlowInts
<1>6. Flows(v, r, Minus("TML", a, n), Minus("TMR", a, n),
            Minus("activePool", pool, n), Minus("stabilityPool", pool, n),
            Minus("defaultPool", pool, n), Minus("collSurplusPool", pool, n))
  BY <1>1, <1>3, <1>4, <1>5 DEF Flows
<1> QED
  BY <1>6 DEF r

(* The cases of the lemma that the actions need.                           *)
LEMMA UnwrapFlows ==
  ASSUME NEW v, NEW n \in Int, Storage(v), NEW u \in Users
  PROVE  /\ Flows(v, unwrapFor(v, "activePool", u, n), 0, 0, -n, 0, 0, 0)
         /\ Flows(v, unwrapFor(v, "collSurplusPool", u, n), 0, 0, 0, 0, 0, -n)
         /\ Flows(v, unwrapFor(v, "stabilityPool", "stabilityPool", n), 0, 0, 0, -n, 0, 0)
         /\ Flows(v, unwrapFor(v, "activePool", "TML", n), -n, 0, -n, 0, 0, 0)
         /\ Flows(v, unwrapFor(v, "activePool", "TMR", n), 0, -n, -n, 0, 0, 0)
<1>1. /\ u \in Accounts /\ u # "TML" /\ u # "TMR" /\ "activePool" \in Pools
      /\ "collSurplusPool" \in Pools /\ "stabilityPool" \in Pools
      /\ "stabilityPool" \in Accounts /\ "TML" \in Accounts /\ "TMR" \in Accounts
  BY AccountsDiffer DEF Pools
<1>3. Flows(v, unwrapFor(v, "activePool", u, n), 0, 0, -n, 0, 0, 0)
  <2>1. /\ Minus("TML", u, n) = 0 /\ Minus("TMR", u, n) = 0 /\ Minus("activePool", "activePool", n) = -n
        /\ Minus("stabilityPool", "activePool", n) = 0 /\ Minus("defaultPool", "activePool", n) = 0
        /\ Minus("collSurplusPool", "activePool", n) = 0
    BY <1>1 DEF Minus
  <2> QED
    BY <1>1, <2>1, UnwrapForFlows
<1>4. Flows(v, unwrapFor(v, "collSurplusPool", u, n), 0, 0, 0, 0, 0, -n)
  <2>1. /\ Minus("TML", u, n) = 0 /\ Minus("TMR", u, n) = 0 /\ Minus("activePool", "collSurplusPool", n) = 0
        /\ Minus("stabilityPool", "collSurplusPool", n) = 0 /\ Minus("defaultPool", "collSurplusPool", n) = 0
        /\ Minus("collSurplusPool", "collSurplusPool", n) = -n
    BY <1>1 DEF Minus
  <2> QED
    BY <1>1, <2>1, UnwrapForFlows
<1>5. Flows(v, unwrapFor(v, "stabilityPool", "stabilityPool", n), 0, 0, 0, -n, 0, 0)
  <2>1. /\ Minus("TML", "stabilityPool", n) = 0 /\ Minus("TMR", "stabilityPool", n) = 0
        /\ Minus("activePool", "stabilityPool", n) = 0 /\ Minus("stabilityPool", "stabilityPool", n) = -n
        /\ Minus("defaultPool", "stabilityPool", n) = 0 /\ Minus("collSurplusPool", "stabilityPool", n) = 0
    BY DEF Minus
  <2> QED
    BY <1>1, <2>1, UnwrapForFlows
<1>6. /\ Minus("activePool", "activePool", n) = -n
      /\ Minus("stabilityPool", "activePool", n) = 0 /\ Minus("defaultPool", "activePool", n) = 0
      /\ Minus("collSurplusPool", "activePool", n) = 0
  BY DEF Minus
<1>7. Flows(v, unwrapFor(v, "activePool", "TML", n), -n, 0, -n, 0, 0, 0)
  <2>1. Minus("TML", "TML", n) = -n /\ Minus("TMR", "TML", n) = 0
    BY DEF Minus
  <2> QED
    BY <1>1, <1>6, <2>1, UnwrapForFlows
<1>8. Flows(v, unwrapFor(v, "activePool", "TMR", n), 0, -n, -n, 0, 0, 0)
  <2>1. Minus("TML", "TMR", n) = 0 /\ Minus("TMR", "TMR", n) = -n
    BY DEF Minus
  <2> QED
    BY <1>1, <1>6, <2>1, UnwrapForFlows
<1> QED
  BY <1>3, <1>4, <1>5, <1>7, <1>8

(* A change of the rewards' owner moves no tokens.                         *)
LEMMA GiveFlows ==
  ASSUME NEW v, NEW u \in Accounts \ {"TML", "TMR"}, NEW n \in Int, Storage(v)
  PROVE  /\ Flows(v, updateReward(v, u, "treasury", n), 0, 0, 0, 0, 0, 0)
         /\ Flows(v, updateReward(v, u, "stabilityPool", n), 0, 0, 0, 0, 0, 0)
         /\ Flows(v, updateReward(v, u, "TML", n), n, 0, 0, 0, 0, 0)
         /\ Flows(v, updateReward(v, u, "TMR", n), 0, n, 0, 0, 0, 0)
<1>1. ASSUME NEW to \in Accounts
      PROVE  LET r == updateReward(v, u, to, n)
             IN  /\ Storage(r) /\ r.balances = v.balances
                 /\ Yeti(r, "TML") = Yeti(v, "TML") + If("TML", to, n)
                 /\ Yeti(r, "TMR") = Yeti(v, "TMR") + If("TMR", to, n)
  <2> DEFINE r == updateReward(v, u, to, n)
  <2>1. /\ Storage(r) /\ r.balances = v.balances
        /\ \A x \in Accounts : Yeti(r, x) = Yeti(v, x) - If(x, u, n) + If(x, to, n)
    BY UpdateRewardEffect
  <2> HIDE DEF r
  <2>2. If("TML", u, n) = 0 /\ If("TMR", u, n) = 0
        /\ If("TML", to, n) \in Int /\ If("TMR", to, n) \in Int
    BY DEF If
  <2>3. /\ Yeti(r, "TML") = Yeti(v, "TML") + If("TML", to, n)
        /\ Yeti(r, "TMR") = Yeti(v, "TMR") + If("TMR", to, n)
    BY <2>1, <2>2, AccountsDiffer, FlowInts
  <2> QED
    BY <2>1, <2>3 DEF r
<1>2. /\ v.balances["activePool"] = v.balances["activePool"] + 0
      /\ v.balances["stabilityPool"] = v.balances["stabilityPool"] + 0
      /\ v.balances["defaultPool"] = v.balances["defaultPool"] + 0
      /\ v.balances["collSurplusPool"] = v.balances["collSurplusPool"] + 0
  BY FlowInts
<1>3. ASSUME NEW to \in Accounts
      PROVE  Flows(v, updateReward(v, u, to, n), If("TML", to, n), If("TMR", to, n), 0, 0, 0, 0)
  BY <1>1, <1>2 DEF Flows
<1>4. /\ If("TML", "treasury", n) = 0 /\ If("TMR", "treasury", n) = 0
      /\ If("TML", "stabilityPool", n) = 0 /\ If("TMR", "stabilityPool", n) = 0
      /\ If("TML", "TML", n) = n /\ If("TMR", "TML", n) = 0
      /\ If("TML", "TMR", n) = 0 /\ If("TMR", "TMR", n) = n
  BY DEF If
<1>5. "treasury" \in Accounts /\ "stabilityPool" \in Accounts /\ "TML" \in Accounts /\ "TMR" \in Accounts
  BY AccountsDiffer
<1>6. Flows(v, updateReward(v, u, "treasury", n), 0, 0, 0, 0, 0, 0)
  BY <1>3, <1>4, <1>5
<1>7. Flows(v, updateReward(v, u, "stabilityPool", n), 0, 0, 0, 0, 0, 0)
  BY <1>3, <1>4, <1>5
<1>8. Flows(v, updateReward(v, u, "TML", n), n, 0, 0, 0, 0, 0)
  BY <1>3, <1>4, <1>5
<1>9. Flows(v, updateReward(v, u, "TMR", n), 0, n, 0, 0, 0, 0)
  BY <1>3, <1>4, <1>5
<1> QED
  BY <1>6, <1>7, <1>8, <1>9

LEMMA LotFlows ==
  ASSUME NEW v, NEW u \in Users, NEW n \in Int, Storage(v), pending[u] \in Int
  PROVE  Flows(v, Lot(v, u, n), 0, n, pending[u], 0, -pending[u], 0)
<1> DEFINE m == MovePending(v, u)
           p == pending[u]
<1>1. Flows(v, m, 0, 0, p, 0, -p, 0)
  BY MovePendingFlows
<1>2. p \in Int /\ -p \in Int /\ 0 \in Int /\ u \in Accounts \ {"TML", "TMR"}
  BY AccountsDiffer
<1>3. Lot(v, u, n) = updateReward(m, u, "TMR", n)
  BY DEF Lot
<1> HIDE DEF m, p
<1>4. Storage(m)
  BY <1>1 DEF Flows
<1>5. Flows(m, Lot(v, u, n), 0, n, 0, 0, 0, 0)
  BY <1>2, <1>3, <1>4, GiveFlows
<1>6. Flows(v, Lot(v, u, n), 0 + 0, 0 + n, p + 0, 0 + 0, -p + 0, 0 + 0)
  BY <1>1, <1>2, <1>5, FlowsTwice
<1>7. 0 + 0 = 0 /\ 0 + n = n /\ p + 0 = p /\ -p + 0 = -p
  BY <1>2
<1> QED
  BY <1>6, <1>7 DEF p

LEMMA ClosingFlows ==
  ASSUME NEW v, NEW n \in Int, Storage(v)
  PROVE  Flows(v, Closing(v, n), 0, 0, -n, 0, 0, n)
<1> DEFINE r == Closing(v, n)
<1>1. /\ Storage(r)
      /\ \A x \in Accounts : Yeti(r, x) = Yeti(v, x)
      /\ \A x \in Accounts : r.balances[x] =
           v.balances[x] - If(x, "activePool", n) + If(x, "collSurplusPool", n)
  BY TransferEffect, AccountsDiffer DEF Closing
<1> HIDE DEF r
<1>2. Yeti(r, "TML") = Yeti(v, "TML") + 0 /\ Yeti(r, "TMR") = Yeti(v, "TMR") + 0
  BY <1>1, AccountsDiffer, FlowInts
<1>3. /\ r.balances["activePool"] = v.balances["activePool"] + (-n)
      /\ r.balances["stabilityPool"] = v.balances["stabilityPool"] + 0
      /\ r.balances["defaultPool"] = v.balances["defaultPool"] + 0
      /\ r.balances["collSurplusPool"] = v.balances["collSurplusPool"] + n
  BY <1>1, AccountsDiffer, FlowInts DEF If
<1>4. Flows(v, r, 0, 0, -n, 0, 0, n)
  BY <1>1, <1>2, <1>3 DEF Flows
<1> QED
  BY <1>4 DEF r

LEMMA PoolTransferFlows ==
  ASSUME NEW v, NEW n \in Int, Storage(v)
  PROVE  /\ Flows(v, transfer(v, "activePool", "stabilityPool", n), 0, 0, -n, n, 0, 0)
         /\ Flows(v, transfer(v, "activePool", "defaultPool", n), 0, 0, -n, 0, n, 0)
<1>1. ASSUME NEW to \in {"stabilityPool", "defaultPool"}
      PROVE  LET r == transfer(v, "activePool", to, n)
             IN  /\ Storage(r)
                 /\ Yeti(r, "TML") = Yeti(v, "TML") + 0 /\ Yeti(r, "TMR") = Yeti(v, "TMR") + 0
                 /\ r.balances["activePool"] = v.balances["activePool"] + (-n)
                 /\ r.balances["stabilityPool"] = v.balances["stabilityPool"] + If("stabilityPool", to, n)
                 /\ r.balances["defaultPool"] = v.balances["defaultPool"] + If("defaultPool", to, n)
                 /\ r.balances["collSurplusPool"] = v.balances["collSurplusPool"] + 0
  <2> DEFINE r == transfer(v, "activePool", to, n)
  <2>0. to \in Accounts /\ "activePool" \in Accounts
    BY AccountsDiffer
  <2>1. /\ Storage(r)
        /\ \A x \in Accounts : Yeti(r, x) = Yeti(v, x)
        /\ \A x \in Accounts : r.balances[x] = v.balances[x] - If(x, "activePool", n) + If(x, to, n)
    BY <2>0, TransferEffect
  <2> HIDE DEF r
  <2>2. Yeti(r, "TML") = Yeti(v, "TML") + 0 /\ Yeti(r, "TMR") = Yeti(v, "TMR") + 0
    BY <2>1, AccountsDiffer, FlowInts
  <2>3. r.balances["activePool"] = v.balances["activePool"] + (-n)
    BY <2>1, AccountsDiffer, FlowInts DEF If
  <2>4. /\ r.balances["stabilityPool"] = v.balances["stabilityPool"] + If("stabilityPool", to, n)
        /\ r.balances["defaultPool"] = v.balances["defaultPool"] + If("defaultPool", to, n)
    BY <2>1, AccountsDiffer, FlowInts DEF If
  <2>5. r.balances["collSurplusPool"] = v.balances["collSurplusPool"] + 0
    BY <2>1, AccountsDiffer, FlowInts DEF If
  <2> QED
    BY <2>1, <2>2, <2>3, <2>4, <2>5 DEF r
<1>2. /\ If("stabilityPool", "stabilityPool", n) = n /\ If("defaultPool", "stabilityPool", n) = 0
      /\ If("stabilityPool", "defaultPool", n) = 0 /\ If("defaultPool", "defaultPool", n) = n
  BY DEF If
<1>3. Flows(v, transfer(v, "activePool", "stabilityPool", n), 0, 0, -n, n, 0, 0)
  BY <1>1, <1>2 DEF Flows
<1>4. Flows(v, transfer(v, "activePool", "defaultPool", n), 0, 0, -n, 0, n, 0)
  BY <1>1, <1>2 DEF Flows
<1> QED
  BY <1>3, <1>4

LEMMA SettleFlows ==
  ASSUME NEW v, NEW totals, Storage(v), totals.toSP \in Int, totals.redist \in Int,
         totals.surplus \in Int, totals.gas \in Int
  PROVE  Flows(v, Settle(v, totals), -totals.gas, 0,
               -(totals.toSP + totals.redist + totals.surplus + totals.gas),
               totals.toSP, totals.redist, totals.surplus)
<1> DEFINE n1 == totals.toSP
           n2 == totals.redist
           n3 == totals.surplus
           n4 == totals.gas
           o == transfer(v, "activePool", "stabilityPool", n1)
           m == transfer(o, "activePool", "defaultPool", n2)
           k == Closing(m, n3)
           r == Settle(v, totals)
<1>1. /\ n1 \in Int /\ n2 \in Int /\ n3 \in Int /\ n4 \in Int /\ 0 \in Int
      /\ -n1 \in Int /\ -n2 \in Int /\ -n3 \in Int /\ -n4 \in Int
  OBVIOUS
<1>2. r = unwrapFor(k, "activePool", "TML", n4)
  BY DEF Settle, Closing
<1> HIDE DEF n1, n2, n3, n4, r
<1>3. Flows(v, o, 0, 0, -n1, n1, 0, 0) /\ Storage(o)
  <2>1. Flows(v, o, 0, 0, -n1, n1, 0, 0)
    BY <1>1, PoolTransferFlows
  <2> QED
    BY <2>1 DEF Flows
<1> HIDE DEF o
<1>4. Flows(o, m, 0, 0, -n2, 0, n2, 0) /\ Storage(m)
  <2>1. Flows(o, m, 0, 0, -n2, 0, n2, 0)
    BY <1>1, <1>3, PoolTransferFlows
  <2> QED
    BY <2>1 DEF Flows
<1> HIDE DEF m
<1>5. Flows(m, k, 0, 0, -n3, 0, 0, n3) /\ Storage(k)
  <2>1. Flows(m, k, 0, 0, -n3, 0, 0, n3)
    BY <1>1, <1>4, ClosingFlows
  <2> QED
    BY <2>1 DEF Flows
<1> HIDE DEF k
<1>6. Flows(k, r, -n4, 0, -n4, 0, 0, 0)
  <2>1. "activePool" \in Pools /\ "TML" \in Accounts
    BY AccountsDiffer DEF Pools
  <2>2. Flows(k, r, Minus("TML", "TML", n4), Minus("TMR", "TML", n4),
              Minus("activePool", "activePool", n4), Minus("stabilityPool", "activePool", n4),
              Minus("defaultPool", "activePool", n4), Minus("collSurplusPool", "activePool", n4))
    BY <1>1, <1>2, <1>5, <2>1, UnwrapForFlows
  <2> QED
    BY <2>2 DEF Minus
<1>7. Storage(v)
  OBVIOUS
<1>8. Yeti(r, "TML") = Yeti(v, "TML") + (-n4) /\ Yeti(r, "TMR") = Yeti(v, "TMR") + 0
  BY <1>1, <1>3, <1>4, <1>5, <1>6, <1>7, FlowInts DEF Flows
<1>9. r.balances["activePool"] = v.balances["activePool"] + (-(n1 + n2 + n3 + n4))
  BY <1>1, <1>3, <1>4, <1>5, <1>6, <1>7, FlowInts DEF Flows
<1>10. r.balances["stabilityPool"] = v.balances["stabilityPool"] + n1
  BY <1>1, <1>3, <1>4, <1>5, <1>6, <1>7, FlowInts DEF Flows
<1>11. r.balances["defaultPool"] = v.balances["defaultPool"] + n2
  BY <1>1, <1>3, <1>4, <1>5, <1>6, <1>7, FlowInts DEF Flows
<1>12. r.balances["collSurplusPool"] = v.balances["collSurplusPool"] + n3
  BY <1>1, <1>3, <1>4, <1>5, <1>6, <1>7, FlowInts DEF Flows
<1>13. Flows(v, r, -n4, 0, -(n1 + n2 + n3 + n4), n1, n2, n3)
  BY <1>6, <1>8, <1>9, <1>10, <1>11, <1>12 DEF Flows
<1> QED
  BY <1>13 DEF r, n1, n2, n3, n4
-----------------------------------------------------------------------------
(* What the running transaction has yet to move out of ActivePool.         *)
Owed == tx.toSP + tx.redist + tx.surplus + tx.gas + tx.drawn

LEMMA HeldFacts ==
  ASSUME HeldInv
  PROVE  /\ Storage(wjlp) /\ HeldTypes
         /\ SumFunction(coll) \in Int /\ SumFunction(surplus) \in Int
         /\ SumFunction(pending) \in Int /\ SumFunction(stranded) \in Int
         /\ tx.toSP \in Int /\ tx.redist \in Int /\ tx.surplus \in Int /\ tx.gas \in Int
         /\ tx.drawn \in Int /\ gains \in Int /\ Owed \in Int
         /\ wjlp.balances["activePool"] >= SumFunction(coll) + Owed
         /\ wjlp.balances["stabilityPool"] >= gains
         /\ wjlp.balances["defaultPool"] >= SumFunction(pending)
         /\ wjlp.balances["collSurplusPool"] >= SumFunction(surplus) - tx.surplus
<1>1. HeldTypes /\ Storage(wjlp)
  BY DEF HeldInv, BooksInv, EarnersTypes
<1>2. /\ tx.toSP \in Int /\ tx.redist \in Int /\ tx.surplus \in Int /\ tx.gas \in Int
      /\ tx.drawn \in Int /\ gains \in Int
  BY <1>1 DEF HeldTypes
<1>3. /\ SumFunction(coll) \in Int /\ SumFunction(surplus) \in Int
      /\ SumFunction(pending) \in Int /\ SumFunction(stranded) \in Int
  BY <1>1, UserSum DEF HeldTypes
<1>4. /\ wjlp.balances["activePool"] >=
           SumFunction(coll) + tx.toSP + tx.redist + tx.surplus + tx.gas + tx.drawn
      /\ wjlp.balances["stabilityPool"] >= gains
      /\ wjlp.balances["defaultPool"] >= SumFunction(pending)
      /\ wjlp.balances["collSurplusPool"] >= SumFunction(surplus) - tx.surplus
  BY DEF HeldInv, PoolsHoldWhatTheyOwe, Balance
<1>5. /\ Owed \in Int
      /\ SumFunction(coll) + tx.toSP + tx.redist + tx.surplus + tx.gas + tx.drawn = SumFunction(coll) + Owed
  BY <1>2, <1>3 DEF Owed
<1> QED
  BY <1>1, <1>2, <1>3, <1>4, <1>5

(* The invariant from the flows and the changes of the books.              *)
LEMMA HeldFromFlows ==
  ASSUME HeldInv, ProtocolStep, BooksInv', TxShape',
         NEW tml \in Int, NEW tmr \in Int, NEW ap \in Int, NEW sp \in Int, NEW dp \in Int, NEW cs \in Int,
         Flows(wjlp, wjlp', tml, tmr, ap, sp, dp, cs),
         tx'.gas = tx.gas + tml,
         tx'.drawn + SumFunction(stranded') = tx.drawn + SumFunction(stranded) + tmr,
         SumFunction(coll') + Owed' = SumFunction(coll) + Owed + ap,
         gains' = gains + sp,
         SumFunction(pending') <= SumFunction(pending) + dp,
         SumFunction(surplus') - tx'.surplus = SumFunction(surplus) - tx.surplus + cs
  PROVE  HeldInv'
<1>1. /\ SumFunction(coll) \in Int /\ SumFunction(surplus) \in Int
      /\ SumFunction(pending) \in Int /\ SumFunction(stranded) \in Int
      /\ tx.gas \in Int /\ tx.drawn \in Int /\ gains \in Int /\ Owed \in Int /\ tx.surplus \in Int
  BY HeldFacts
<1>2. /\ tx'.toSP \in Int /\ tx'.redist \in Int /\ tx'.surplus \in Int /\ tx'.gas \in Int
      /\ tx'.drawn \in Int
  BY DEF BooksInv, HeldTypes
<1>3. SumFunction(coll') \in Int /\ SumFunction(pending') \in Int
  <2>1. coll' \in [Users -> Nat] /\ pending' \in [Users -> Nat]
    BY DEF BooksInv, HeldTypes
  <2> QED
    BY <2>1, UserSum
<1>4. SumFunction(stranded') \in Int /\ SumFunction(surplus') \in Int /\ gains' \in Int
  <2>1. stranded' \in [Users -> Nat] /\ surplus' \in [Users -> Nat] /\ gains' \in Nat
    BY DEF BooksInv, HeldTypes
  <2> QED
    BY <2>1, UserSum
<1>5. \A a \in Accounts : Yeti(wjlp, a) \in Int /\ wjlp.balances[a] \in Int
  BY HeldFacts DEF Storage
<1>6. wjlp'.balances["activePool"] >= SumFunction(coll') + Owed'
  <2>1. /\ wjlp'.balances["activePool"] = wjlp.balances["activePool"] + ap
        /\ wjlp.balances["activePool"] \in Int
        /\ wjlp.balances["activePool"] >= SumFunction(coll) + Owed
    BY <1>5, HeldFacts, AccountsDiffer DEF Flows
  <2>2. Owed' \in Int
    BY <1>2 DEF Owed
  <2> QED
    BY <1>1, <1>3, <2>1, <2>2
<1>7. wjlp'.balances["stabilityPool"] >= gains'
  <2>1. /\ wjlp'.balances["stabilityPool"] = wjlp.balances["stabilityPool"] + sp
        /\ wjlp.balances["stabilityPool"] \in Int /\ wjlp.balances["stabilityPool"] >= gains
    BY <1>5, HeldFacts, AccountsDiffer DEF Flows
  <2> QED
    BY <1>1, <2>1
<1>8. wjlp'.balances["defaultPool"] >= SumFunction(pending')
  <2>1. /\ wjlp'.balances["defaultPool"] = wjlp.balances["defaultPool"] + dp
        /\ wjlp.balances["defaultPool"] \in Int /\ wjlp.balances["defaultPool"] >= SumFunction(pending)
    BY <1>5, HeldFacts, AccountsDiffer DEF Flows
  <2> QED
    BY <1>1, <1>3, <2>1
<1>9. wjlp'.balances["collSurplusPool"] >= SumFunction(surplus') - tx'.surplus
  <2>1. /\ wjlp'.balances["collSurplusPool"] = wjlp.balances["collSurplusPool"] + cs
        /\ wjlp.balances["collSurplusPool"] \in Int
        /\ wjlp.balances["collSurplusPool"] >= SumFunction(surplus) - tx.surplus
    BY <1>5, HeldFacts, AccountsDiffer DEF Flows
  <2> QED
    BY <1>1, <1>2, <1>4, <2>1
<1>10. SumFunction(coll') + Owed' =
         SumFunction(coll') + tx'.toSP + tx'.redist + tx'.surplus + tx'.gas + tx'.drawn
  BY <1>2, <1>3 DEF Owed
<1>11. PoolsHoldWhatTheyOwe'
  BY <1>6, <1>7, <1>8, <1>9, <1>10 DEF PoolsHoldWhatTheyOwe, Balance
<1>12. Yeti(wjlp', "TML") >= tx'.gas
  <2>1. /\ Yeti(wjlp', "TML") = Yeti(wjlp, "TML") + tml
        /\ Yeti(wjlp, "TML") \in Int /\ Yeti(wjlp, "TML") >= tx.gas
    BY <1>5, AccountsDiffer DEF Flows, HeldInv, EnoughInYeti
  <2> QED
    BY <1>1, <2>1
<1>13. Yeti(wjlp', "TMR") >= tx'.drawn + SumFunction(stranded')
  <2>1. /\ Yeti(wjlp', "TMR") = Yeti(wjlp, "TMR") + tmr
        /\ Yeti(wjlp, "TMR") \in Int /\ Yeti(wjlp, "TMR") >= tx.drawn + SumFunction(stranded)
    BY <1>5, AccountsDiffer DEF Flows, HeldInv, EnoughInYeti
  <2> QED
    BY <1>1, <1>2, <1>4, <2>1
<1>14. Yeti(wjlp', "treasury") >= gains' + SumFunction(pending') + tx'.toSP + tx'.redist
  <2> DEFINE y == Yeti(wjlp, "treasury")
             y2 == Yeti(wjlp', "treasury")
             s == wjlp.balances["stabilityPool"]
             d == wjlp.balances["defaultPool"]
             t == tx.toSP + tx.redist
             t2 == tx'.toSP + tx'.redist
             p == SumFunction(pending)
             p2 == SumFunction(pending')
  <2>1. /\ y \in Int /\ s \in Int /\ d \in Int /\ t \in Int /\ t2 \in Int
        /\ p \in Int /\ p2 \in Int /\ y2 \in Int
    <3>1. Yeti(wjlp', "treasury") \in Int
      BY AccountsDiffer DEF ProtocolStep, EarnersTypes, Storage
    <3> QED
      BY <1>1, <1>2, <1>3, <1>5, <3>1, HeldFacts, AccountsDiffer
  <2>2. /\ wjlp'.balances["stabilityPool"] = s + sp /\ wjlp'.balances["defaultPool"] = d + dp
    BY DEF Flows
  <2>3. y >= gains + p + t
    <3>1. y >= gains + SumFunction(pending) + tx.toSP + tx.redist
      BY DEF HeldInv, EnoughInYeti
    <3> QED
      BY <1>1, <3>1, HeldFacts
  <2>4. y2 - (s + sp) - (d + dp) - t2 = y - s - d - t
    <3>1. y2 - (s + sp) - (d + dp) - tx'.toSP - tx'.redist = y - s - d - tx.toSP - tx.redist
      BY <2>2 DEF ProtocolStep, TreasuryGap
    <3>2. tx.toSP \in Int /\ tx.redist \in Int /\ t = tx.toSP + tx.redist
          /\ t2 = tx'.toSP + tx'.redist
      BY HeldFacts
    <3> HIDE DEF y, y2, s, d, t, t2
    <3> QED
      BY <1>2, <2>1, <3>1, <3>2
  <2>5. p2 <= p + dp
    OBVIOUS
  <2> HIDE DEF y, y2, s, d, t, t2, p, p2
  <2>6. y2 >= gains' + p2 + t2
    BY <1>1, <1>4, <2>1, <2>3, <2>4, <2>5
  <2> QED
    BY <1>2, <1>4, <2>1, <2>6 DEF y2, p2, t2
<1> QED
  BY <1>11, <1>12, <1>13, <1>14 DEF HeldInv, EnoughInYeti, ProtocolStep
-----------------------------------------------------------------------------
(* The actions, once more.                                                 *)

(* A step that sets the trove of u to c and takes its pending rewards.     *)
LEMMA TroveStepHeld ==
  ASSUME HeldInv, ProtocolStep, BooksInv', TxShape', NEW u \in Users, NEW c \in Nat, SetTrove(u, c),
         NEW tml \in Int, NEW tmr \in Int, NEW ap \in Int, NEW cs \in Int,
         Flows(wjlp, wjlp', tml, tmr, pending[u] + ap, 0, -pending[u], cs),
         gains' = gains,
         tx'.gas = tx.gas + tml,
         tx'.drawn + SumFunction(stranded') = tx.drawn + SumFunction(stranded) + tmr,
         c + Owed' = Entire(u) + Owed + ap,
         SumFunction(surplus') - tx'.surplus = SumFunction(surplus) - tx.surplus + cs
  PROVE  HeldInv'
<1>1. /\ coll \in [Users -> Nat] /\ pending \in [Users -> Nat]
      /\ coll[u] \in Int /\ pending[u] \in Int /\ gains \in Int /\ Owed \in Int
      /\ SumFunction(coll) \in Int /\ SumFunction(pending) \in Int
  BY HeldFacts DEF HeldTypes
<1>2. SumFunction(coll') = SumFunction(coll) - coll[u] + c
  BY <1>1, UserSumExcept DEF SetTrove
<1>3. SumFunction(pending') = SumFunction(pending) - pending[u] + 0
  BY <1>1, UserSumExcept DEF SetTrove
<1>4. Owed' \in Int
  BY DEF Owed, BooksInv, HeldTypes
<1>5. SumFunction(coll') + Owed' = SumFunction(coll) + Owed + (pending[u] + ap)
  BY <1>1, <1>2, <1>4 DEF Entire
<1>6. /\ gains' = gains + 0 /\ SumFunction(pending') <= SumFunction(pending) + (-pending[u])
      /\ pending[u] + ap \in Int /\ -pending[u] \in Int
  BY <1>1, <1>3
<1> QED
  BY <1>5, <1>6, HeldFromFlows

LEMMA QuietHeld ==
  ASSUME HeldInv, ProtocolStep, BooksInv', Flows(wjlp, wjlp', 0, 0, 0, 0, 0, 0),
         UNCHANGED <<coll, surplus, pending, gains, stranded, tx>>
  PROVE  HeldInv'
<1>1. TxShape' /\ Owed' = Owed
  BY DEF HeldInv, TxShape, Owed
<1>2. /\ tx'.gas = tx.gas + 0
      /\ tx'.drawn + SumFunction(stranded') = tx.drawn + SumFunction(stranded) + 0
      /\ SumFunction(coll') + Owed' = SumFunction(coll) + Owed + 0
      /\ gains' = gains + 0
      /\ SumFunction(pending') <= SumFunction(pending) + 0
      /\ SumFunction(surplus') - tx'.surplus = SumFunction(surplus) - tx.surplus + 0
  BY <1>1, HeldFacts
<1> QED
  BY <1>1, <1>2, HeldFromFlows

LEMMA DepositHeld ==
  ASSUME HeldInv, ProtocolStep, BooksInv', NEW u \in Users, NEW n \in Amounts, Deposit(u, n)
  PROVE  HeldInv'
<1> DEFINE w == wrap(wjlp, n, "activePool", u)
           p == pending[u]
<1>1. /\ n \in Nat /\ n \in Int /\ -p \in Int /\ p \in Nat /\ coll[u] \in Nat /\ Storage(wjlp)
      /\ 0 \in Int /\ p \in Int
  BY CollateralAssumption, HeldFacts DEF HeldTypes
<1>2. Flows(wjlp, w, 0, 0, n, 0, 0, 0)
  BY <1>1, WrapFlows
<1>3. /\ wjlp' = MovePending(w, u) /\ SetTrove(u, Entire(u) + n)
      /\ UNCHANGED <<surplus, gains, stranded, tx>>
  BY DEF Deposit, Calls
<1> HIDE DEF w
<1>4. Flows(w, wjlp', 0, 0, p, 0, -p, 0)
  <2>1. Storage(w)
    BY <1>2 DEF Flows
  <2> QED
    BY <1>1, <1>3, <2>1, MovePendingFlows
<1> HIDE DEF p
<1>5. Flows(wjlp, wjlp', 0 + 0, 0 + 0, n + p, 0 + 0, 0 + (-p), 0 + 0)
  BY <1>1, <1>2, <1>4, FlowsTwice
<1>6. 0 + 0 = 0 /\ n + p = p + n /\ 0 + (-p) = -p
  BY <1>1
<1>7. Flows(wjlp, wjlp', 0, 0, p + n, 0, -p, 0)
  BY <1>5, <1>6
<1>8. TxShape' /\ Owed' = Owed /\ Entire(u) \in Nat
  BY <1>1, <1>3 DEF HeldInv, TxShape, Owed, Entire, p
<1>9. /\ tx'.gas = tx.gas + 0
      /\ tx'.drawn + SumFunction(stranded') = tx.drawn + SumFunction(stranded) + 0
      /\ Entire(u) + n + Owed' = Entire(u) + Owed + n
      /\ SumFunction(surplus') - tx'.surplus = SumFunction(surplus) - tx.surplus + 0
  BY <1>1, <1>3, <1>8, HeldFacts
<1>10. Entire(u) + n \in Nat
  BY <1>1, <1>8
<1> QED
  BY <1>1, <1>3, <1>7, <1>8, <1>9, <1>10, TroveStepHeld DEF p

(* n that the owner unwraps, after what is pending was applied.            *)
LEMMA WithdrawHeld ==
  ASSUME HeldInv, ProtocolStep, BooksInv', NEW u \in Users, NEW n \in Amounts, Withdraw(u, n)
  PROVE  HeldInv'
<1> DEFINE m == MovePending(wjlp, u)
           p == pending[u]
<1>1. /\ n \in Nat /\ n \in Int /\ -n \in Int /\ -p \in Int /\ p \in Nat /\ coll[u] \in Nat
      /\ Storage(wjlp) /\ 0 \in Int /\ p \in Int
  BY CollateralAssumption, HeldFacts DEF HeldTypes
<1>2. Flows(wjlp, m, 0, 0, p, 0, -p, 0)
  BY <1>1, MovePendingFlows
<1>3. /\ wjlp' = unwrapFor(m, "activePool", u, n) /\ SetTrove(u, Entire(u) - n)
      /\ n <= Entire(u) /\ UNCHANGED <<surplus, gains, stranded, tx>>
  BY DEF Withdraw, Calls
<1> HIDE DEF m, p
<1>4. Flows(m, wjlp', 0, 0, -n, 0, 0, 0)
  <2>1. Storage(m)
    BY <1>2 DEF Flows
  <2> QED
    BY <1>1, <1>3, <2>1, UnwrapFlows
<1>5. Flows(wjlp, wjlp', 0 + 0, 0 + 0, p + (-n), 0 + 0, -p + 0, 0 + 0)
  BY <1>1, <1>2, <1>4, FlowsTwice
<1>6. 0 + 0 = 0 /\ -p + 0 = -p
  BY <1>1
<1>7. Flows(wjlp, wjlp', 0, 0, p + (-n), 0, -p, 0)
  BY <1>5, <1>6
<1>8. TxShape' /\ Owed' = Owed /\ Entire(u) \in Nat
  BY <1>1, <1>3 DEF HeldInv, TxShape, Owed, Entire, p
<1>9. /\ tx'.gas = tx.gas + 0
      /\ tx'.drawn + SumFunction(stranded') = tx.drawn + SumFunction(stranded) + 0
      /\ Entire(u) - n + Owed' = Entire(u) + Owed + (-n)
      /\ SumFunction(surplus') - tx'.surplus = SumFunction(surplus) - tx.surplus + 0
  BY <1>1, <1>3, <1>8, HeldFacts
<1>10. Entire(u) - n \in Nat
  BY <1>1, <1>3, <1>8
<1> QED
  BY <1>1, <1>3, <1>7, <1>8, <1>9, <1>10, TroveStepHeld DEF p

LEMMA ApplyPendingRewardsHeld ==
  ASSUME HeldInv, ProtocolStep, BooksInv', NEW u \in Users, ApplyPendingRewards(u)
  PROVE  HeldInv'
<1> DEFINE p == pending[u]
<1>1. /\ -p \in Int /\ p \in Nat /\ coll[u] \in Nat /\ Storage(wjlp) /\ p \in Int
  BY HeldFacts DEF HeldTypes
<1>2. /\ wjlp' = MovePending(wjlp, u) /\ SetTrove(u, Entire(u))
      /\ UNCHANGED <<surplus, gains, stranded, tx>>
  BY DEF ApplyPendingRewards, Calls
<1>3. Flows(wjlp, wjlp', 0, 0, p, 0, -p, 0)
  BY <1>1, <1>2, MovePendingFlows
<1>4. Flows(wjlp, wjlp', 0, 0, p + 0, 0, -p, 0)
  BY <1>1, <1>3
<1>5. TxShape' /\ Owed' = Owed /\ Entire(u) \in Nat
  BY <1>1, <1>2 DEF HeldInv, TxShape, Owed, Entire
<1>6. /\ tx'.gas = tx.gas + 0
      /\ tx'.drawn + SumFunction(stranded') = tx.drawn + SumFunction(stranded) + 0
      /\ Entire(u) + Owed' = Entire(u) + Owed + 0
      /\ SumFunction(surplus') - tx'.surplus = SumFunction(surplus) - tx.surplus + 0
  BY <1>1, <1>2, <1>5, HeldFacts
<1> QED
  BY <1>1, <1>2, <1>4, <1>5, <1>6, TroveStepHeld

LEMMA HolderHeld ==
  ASSUME HeldInv, ProtocolStep, BooksInv', NEW u \in Users,
         (\E n \in Amounts : UnwrapOwn(u, n)) \/ ClaimReward(u)
  PROVE  HeldInv'
<1>1. u \in Accounts /\ Storage(wjlp) /\ \A n \in Amounts : n \in Int
  BY CollateralAssumption, AccountsDiffer, HeldFacts
<1>2. ASSUME Storage(wjlp'), \A x \in Accounts : Yeti(wjlp', x) = Yeti(wjlp, x),
             \A x \in Accounts \ Users : wjlp'.balances[x] = wjlp.balances[x]
      PROVE  Flows(wjlp, wjlp', 0, 0, 0, 0, 0, 0)
  <2>1. /\ Yeti(wjlp', "TML") = Yeti(wjlp, "TML") + 0 /\ Yeti(wjlp', "TMR") = Yeti(wjlp, "TMR") + 0
        /\ wjlp'.balances["activePool"] = wjlp.balances["activePool"] + 0
        /\ wjlp'.balances["stabilityPool"] = wjlp.balances["stabilityPool"] + 0
        /\ wjlp'.balances["defaultPool"] = wjlp.balances["defaultPool"] + 0
        /\ wjlp'.balances["collSurplusPool"] = wjlp.balances["collSurplusPool"] + 0
    BY <1>1, <1>2, AccountsDiffer, FlowInts
  <2> QED
    BY <1>2, <2>1 DEF Flows
<1>3. \A x \in Accounts : wjlp.balances[x] \in Int /\ Yeti(wjlp, x) \in Int
  BY <1>1 DEF Storage
<1>4. ASSUME NEW n \in Amounts, UnwrapOwn(u, n) PROVE HeldInv'
  <2>1. wjlp' = unwrap(wjlp, u, n) /\ UNCHANGED <<coll, surplus, pending, gains, stranded, tx>>
    BY <1>4 DEF UnwrapOwn, Calls
  <2>2. /\ Storage(wjlp')
        /\ \A x \in Accounts : Yeti(wjlp', x) = Yeti(wjlp, x)
        /\ \A x \in Accounts : wjlp'.balances[x] = wjlp.balances[x] - If(x, u, n)
    BY <1>1, <2>1, UnwrapEffect
  <2>3. \A x \in Accounts \ Users : wjlp'.balances[x] = wjlp.balances[x]
    BY <1>3, <2>2 DEF If
  <2> QED
    BY <1>2, <2>1, <2>2, <2>3, QuietHeld
<1>5. ASSUME ClaimReward(u) PROVE HeldInv'
  <2>1. wjlp' = SendJoeReward(wjlp, u) /\ UNCHANGED <<coll, surplus, pending, gains, stranded, tx>>
    BY <1>5 DEF ClaimReward, Calls
  <2>2. Leaves(wjlp, wjlp')
    BY <1>1, <2>1, SendLeaves
  <2>3. /\ Storage(wjlp') /\ \A x \in Accounts : Yeti(wjlp', x) = Yeti(wjlp, x)
        /\ \A x \in Accounts \ Users : wjlp'.balances[x] = wjlp.balances[x]
    BY <2>2 DEF Leaves
  <2> QED
    BY <1>2, <2>1, <2>3, QuietHeld
<1> QED
  BY <1>4, <1>5

(* What outsiders add takes from no pool, manager or the treasury.         *)
LEMMA OutsidersHeld ==
  ASSUME HeldInv, Outsiders, BooksInv', ContractLeads'
  PROVE  HeldInv'
<1>1. /\ EarnersTypes'
      /\ \A a \in Accounts : Yeti(wjlp', a) >= Yeti(wjlp, a)
      /\ \A a \in Accounts \ Users : wjlp'.balances[a] >= wjlp.balances[a]
      /\ UNCHANGED <<coll, surplus, pending, gains, stranded, tx>>
  BY OutsidersAdd DEF HeldInv
<1>2. \A a \in Accounts : /\ Yeti(wjlp, a) \in Int /\ wjlp.balances[a] \in Int
                         /\ Yeti(wjlp', a) \in Int /\ wjlp'.balances[a] \in Int
  BY <1>1 DEF HeldInv, EarnersTypes, Storage
<1>3. TxShape' /\ Owed' = Owed
  BY <1>1 DEF HeldInv, TxShape, Owed
<1>4. /\ tx.toSP \in Int /\ tx.redist \in Int /\ tx.surplus \in Int /\ tx.gas \in Int
      /\ tx.drawn \in Int /\ gains \in Int
      /\ SumFunction(coll) \in Int /\ SumFunction(surplus) \in Int
      /\ SumFunction(pending) \in Int /\ SumFunction(stranded) \in Int
  BY HeldFacts
<1>5. EnoughInYeti'
  <2>1. /\ Yeti(wjlp', "TML") >= Yeti(wjlp, "TML") /\ Yeti(wjlp', "TMR") >= Yeti(wjlp, "TMR")
        /\ Yeti(wjlp', "treasury") >= Yeti(wjlp, "treasury")
    BY <1>1, AccountsDiffer
  <2>2. /\ Yeti(wjlp, "TML") \in Int /\ Yeti(wjlp, "TMR") \in Int /\ Yeti(wjlp, "treasury") \in Int
        /\ Yeti(wjlp', "TML") \in Int /\ Yeti(wjlp', "TMR") \in Int
        /\ Yeti(wjlp', "treasury") \in Int
    BY <1>2, AccountsDiffer
  <2>3. Yeti(wjlp', "TML") >= tx.gas
    BY <1>4, <2>1, <2>2 DEF HeldInv, EnoughInYeti
  <2>4. Yeti(wjlp', "TMR") >= tx.drawn + SumFunction(stranded)
    BY <1>4, <2>1, <2>2 DEF HeldInv, EnoughInYeti
  <2>5. Yeti(wjlp', "treasury") >= gains + SumFunction(pending) + tx.toSP + tx.redist
    BY <1>4, <2>1, <2>2 DEF HeldInv, EnoughInYeti
  <2> QED
    BY <1>1, <2>3, <2>4, <2>5 DEF EnoughInYeti
<1>6. PoolsHoldWhatTheyOwe'
  <2>1. \A a \in {"activePool", "stabilityPool", "defaultPool", "collSurplusPool"} :
          /\ wjlp'.balances[a] >= wjlp.balances[a]
          /\ wjlp.balances[a] \in Int /\ wjlp'.balances[a] \in Int
    BY <1>1, <1>2, AccountsDiffer
  <2>2. wjlp'.balances["activePool"] >=
          SumFunction(coll) + tx.toSP + tx.redist + tx.surplus + tx.gas + tx.drawn
    BY <1>4, <2>1 DEF HeldInv, PoolsHoldWhatTheyOwe, Balance
  <2>3. /\ wjlp'.balances["stabilityPool"] >= gains
        /\ wjlp'.balances["defaultPool"] >= SumFunction(pending)
    BY <1>4, <2>1 DEF HeldInv, PoolsHoldWhatTheyOwe, Balance
  <2>4. wjlp'.balances["collSurplusPool"] >= SumFunction(surplus) - tx.surplus
    BY <1>4, <2>1 DEF HeldInv, PoolsHoldWhatTheyOwe, Balance
  <2> QED
    BY <1>1, <2>2, <2>3, <2>4 DEF PoolsHoldWhatTheyOwe, Balance
<1> QED
  BY <1>1, <1>3, <1>5, <1>6 DEF HeldInv

LEMMA ClaimSurplusHeld ==
  ASSUME HeldInv, ProtocolStep, BooksInv', NEW u \in Users, ClaimSurplus(u)
  PROVE  HeldInv'
<1> DEFINE n == surplus[u]
<1>1. n \in Int /\ -n \in Int /\ 0 \in Int /\ Storage(wjlp) /\ surplus \in [Users -> Nat]
  BY HeldFacts DEF HeldTypes
<1>2. /\ wjlp' = unwrapFor(wjlp, "collSurplusPool", u, n) /\ surplus' = [surplus EXCEPT ![u] = 0]
      /\ UNCHANGED <<coll, pending, gains, stranded, tx>>
  BY DEF ClaimSurplus, Calls
<1>3. Flows(wjlp, wjlp', 0, 0, 0, 0, 0, -n)
  BY <1>1, <1>2, UnwrapFlows
<1>4. SumFunction(surplus') = SumFunction(surplus) - n + 0
  BY <1>1, <1>2, UserSumExcept
<1> HIDE DEF n
<1>5. TxShape' /\ Owed' = Owed
  BY <1>2 DEF HeldInv, TxShape, Owed
<1>6. /\ tx'.gas = tx.gas + 0
      /\ tx'.drawn + SumFunction(stranded') = tx.drawn + SumFunction(stranded) + 0
      /\ SumFunction(coll') + Owed' = SumFunction(coll) + Owed + 0
      /\ gains' = gains + 0
      /\ SumFunction(pending') <= SumFunction(pending) + 0
      /\ SumFunction(surplus') - tx'.surplus = SumFunction(surplus) - tx.surplus + (-n)
  BY <1>1, <1>2, <1>4, <1>5, HeldFacts
<1> QED
  BY <1>1, <1>3, <1>5, <1>6, HeldFromFlows

LEMMA ClaimGainsHeld ==
  ASSUME HeldInv, ProtocolStep, BooksInv', NEW n \in 1..gains, ClaimGains(n)
  PROVE  HeldInv'
<1> DEFINE m == updateReward(wjlp, "treasury", "stabilityPool", n)
<1>1. /\ n \in Int /\ -n \in Int /\ 0 \in Int /\ Storage(wjlp) /\ gains \in Int
      /\ "treasury" \in Accounts \ {"TML", "TMR"} /\ "stabilityPool" \in Pools
      /\ "stabilityPool" \in Accounts
  BY HeldFacts, AccountsDiffer DEF Pools
<1>2. Flows(wjlp, m, 0, 0, 0, 0, 0, 0)
  BY <1>1, GiveFlows
<1>3. /\ wjlp' = unwrapFor(m, "stabilityPool", "stabilityPool", n) /\ gains' = gains - n
      /\ UNCHANGED <<coll, surplus, pending, stranded, tx>>
  BY DEF ClaimGains, Calls, SendGains
<1> HIDE DEF m
<1>4. Flows(m, wjlp', 0, 0, 0, -n, 0, 0)
  <2>1. Storage(m)
    BY <1>2 DEF Flows
  <2>2. Flows(m, wjlp', Minus("TML", "stabilityPool", n), Minus("TMR", "stabilityPool", n),
              Minus("activePool", "stabilityPool", n), Minus("stabilityPool", "stabilityPool", n),
              Minus("defaultPool", "stabilityPool", n), Minus("collSurplusPool", "stabilityPool", n))
    BY <1>1, <1>3, <2>1, UnwrapForFlows
  <2> QED
    BY <2>2 DEF Minus
<1>5. Flows(wjlp, wjlp', 0 + 0, 0 + 0, 0 + 0, 0 + (-n), 0 + 0, 0 + 0)
  BY <1>1, <1>2, <1>4, FlowsTwice
<1>6. 0 + 0 = 0 /\ 0 + (-n) = -n
  BY <1>1
<1>7. Flows(wjlp, wjlp', 0, 0, 0, -n, 0, 0)
  BY <1>5, <1>6
<1>8. TxShape' /\ Owed' = Owed
  BY <1>3 DEF HeldInv, TxShape, Owed
<1>9. /\ tx'.gas = tx.gas + 0
      /\ tx'.drawn + SumFunction(stranded') = tx.drawn + SumFunction(stranded) + 0
      /\ SumFunction(coll') + Owed' = SumFunction(coll) + Owed + 0
      /\ gains' = gains + (-n)
      /\ SumFunction(pending') <= SumFunction(pending) + 0
      /\ SumFunction(surplus') - tx'.surplus = SumFunction(surplus) - tx.surplus + 0
  BY <1>1, <1>3, <1>8, HeldFacts
<1> QED
  BY <1>1, <1>7, <1>8, <1>9, HeldFromFlows

LEMMA FinishRedemptionHeld ==
  ASSUME HeldInv, ProtocolStep, BooksInv', FinishRedemption
  PROVE  HeldInv'
<1> DEFINE n == tx.drawn
<1>1. /\ n \in Int /\ -n \in Int /\ 0 \in Int /\ Storage(wjlp)
      /\ "activePool" \in Pools /\ "TMR" \in Accounts
  BY HeldFacts, AccountsDiffer DEF Pools
<1>2. /\ wjlp' = unwrapFor(wjlp, "activePool", "TMR", n) /\ tx' = NoTx /\ tx.kind = "redemption"
      /\ UNCHANGED <<coll, surplus, pending, gains, stranded>>
  BY DEF FinishRedemption, Calls
<1>3. Flows(wjlp, wjlp', 0, -n, -n, 0, 0, 0)
  <2> HIDE DEF n
  <2>1. Flows(wjlp, wjlp', Minus("TML", "TMR", n), Minus("TMR", "TMR", n),
              Minus("activePool", "activePool", n), Minus("stabilityPool", "activePool", n),
              Minus("defaultPool", "activePool", n), Minus("collSurplusPool", "activePool", n))
    BY <1>1, <1>2, UnwrapForFlows
  <2> QED
    BY <2>1 DEF Minus
<1>4. tx.toSP = 0 /\ tx.redist = 0 /\ tx.surplus = 0 /\ tx.gas = 0
  BY <1>2 DEF HeldInv, TxShape
<1>5. Owed = n
  BY <1>1, <1>4 DEF Owed
<1>6. /\ tx'.toSP = 0 /\ tx'.redist = 0 /\ tx'.surplus = 0 /\ tx'.gas = 0 /\ tx'.drawn = 0
      /\ tx'.kind = "none"
  BY <1>2 DEF NoTx, Totals
<1>7. TxShape' /\ Owed' = 0
  BY <1>6 DEF TxShape, Owed
<1> HIDE DEF n
<1>8. /\ tx'.gas = tx.gas + 0
      /\ tx'.drawn + SumFunction(stranded') = n + SumFunction(stranded) + (-n)
      /\ SumFunction(coll') + Owed' = SumFunction(coll) + Owed + (-n)
      /\ gains' = gains + 0
      /\ SumFunction(pending') <= SumFunction(pending) + 0
      /\ SumFunction(surplus') - tx'.surplus = SumFunction(surplus) - tx.surplus + 0
  BY <1>1, <1>2, <1>4, <1>5, <1>6, <1>7, HeldFacts
<1> QED
  BY <1>1, <1>3, <1>7, <1>8, HeldFromFlows DEF n

LEMMA FinishLiquidationHeld ==
  ASSUME HeldInv, ProtocolStep, BooksInv', NEW shares \in Shares(tx.redist), FinishLiquidation(shares)
  PROVE  HeldInv'
<1> DEFINE all == tx.toSP + tx.redist + tx.surplus + tx.gas
<1>1. /\ Storage(wjlp) /\ tx.toSP \in Int /\ tx.redist \in Int /\ tx.surplus \in Int /\ tx.gas \in Int
      /\ 0 \in Int /\ pending \in [Users -> Nat] /\ tx.redist \in Nat
  BY HeldFacts DEF HeldTypes
<1>2. /\ wjlp' = Settle(wjlp, tx) /\ tx' = NoTx /\ tx.kind = "liquidation"
      /\ pending' = [u \in Users |-> pending[u] + shares[u]] /\ gains' = gains + tx.toSP
      /\ UNCHANGED <<coll, surplus, stranded>>
  BY DEF FinishLiquidation, Calls
<1>3. Flows(wjlp, wjlp', -tx.gas, 0, -all, tx.toSP, tx.redist, tx.surplus)
  BY <1>1, <1>2, SettleFlows
<1>4. -tx.gas \in Int /\ all \in Int /\ -all \in Int
  BY <1>1
<1>5. tx.drawn = 0
  BY <1>2 DEF HeldInv, TxShape
<1>6. Owed = all
  BY <1>1, <1>5 DEF Owed
<1>7. /\ tx'.toSP = 0 /\ tx'.redist = 0 /\ tx'.surplus = 0 /\ tx'.gas = 0 /\ tx'.drawn = 0
      /\ tx'.kind = "none"
  BY <1>2 DEF NoTx, Totals
<1>8. TxShape' /\ Owed' = 0
  BY <1>7 DEF TxShape, Owed
<1>9. SumFunction(pending') <= SumFunction(pending) + tx.redist
  <2>1. shares \in [Users -> 0..tx.redist] /\ SumFunction(shares) <= tx.redist
    BY DEF Shares
  <2>2. shares \in [Users -> Nat]
    BY <1>1, <2>1
  <2>3. /\ SumFunction(pending) \in Nat /\ SumFunction(shares) \in Nat
        /\ SumFunction(pending') = SumFunction(pending) + SumFunction(shares)
    BY <1>1, <1>2, <2>2, UserSumPlus
  <2> QED
    BY <1>1, <2>1, <2>3
<1> HIDE DEF all
<1>10. /\ tx'.gas = tx.gas + (-tx.gas)
       /\ tx'.drawn + SumFunction(stranded') = tx.drawn + SumFunction(stranded) + 0
       /\ SumFunction(coll') + Owed' = SumFunction(coll) + Owed + (-all)
       /\ SumFunction(surplus') - tx'.surplus = SumFunction(surplus) - tx.surplus + tx.surplus
  BY <1>1, <1>2, <1>4, <1>5, <1>6, <1>7, <1>8, HeldFacts
<1> QED
  BY <1>1, <1>2, <1>3, <1>4, <1>8, <1>9, <1>10, HeldFromFlows

LEMMA LiquidateTroveHeld ==
  ASSUME HeldInv, ProtocolStep, BooksInv', NEW b \in Users, NEW capped \in 0..Entire(b),
         NEW toSP \in 0..Entire(b), LiquidateTrove(b, capped, toSP)
  PROVE  HeldInv'
<1> DEFINE gas == capped \div PERCENT_DIVISOR
           redist == capped - gas - toSP
           left == Entire(b) - capped
           m == MovePending(wjlp, b)
           s == updateReward(m, b, "treasury", toSP + redist)
           p == pending[b]
<1>1. /\ Storage(wjlp) /\ coll[b] \in Nat /\ p \in Nat /\ surplus[b] \in Nat /\ -p \in Int /\ 0 \in Int
      /\ surplus \in [Users -> Nat] /\ b \in Accounts \ {"TML", "TMR"}
  BY HeldFacts, AccountsDiffer DEF HeldTypes
<1>2. Entire(b) \in Nat
  BY <1>1 DEF Entire
<1>3. capped \in Nat /\ toSP \in Nat
  BY <1>2
<1>4. gas \in Nat
  BY <1>3, FloorFits, CollateralAssumption
<1>5. redist \in Int /\ left \in Int /\ toSP + redist \in Int
  BY <1>2, <1>3, <1>4
<1>6. left >= 0
  BY DEF LiquidateTrove
<1>7. toSP + redist + left + gas = Entire(b)
  BY <1>2, <1>3, <1>4
<1>8. /\ wjlp' = updateReward(s, b, "TML", gas)
      /\ SetTrove(b, 0) /\ surplus' = [surplus EXCEPT ![b] = surplus[b] + left]
      /\ tx' = Totals("liquidation", tx.toSP + toSP, tx.redist + redist,
                      tx.surplus + left, tx.gas + gas, 0, FALSE)
      /\ tx.kind # "redemption" /\ UNCHANGED <<gains, stranded>>
  BY DEF LiquidateTrove, Calls, SplitRewards
<1>9. Flows(wjlp, m, 0, 0, p, 0, -p, 0)
  BY <1>1, MovePendingFlows
<1> HIDE DEF m, gas, redist, left, p
<1>10. Storage(m)
  BY <1>9 DEF Flows
<1>11. Flows(m, s, 0, 0, 0, 0, 0, 0)
  BY <1>1, <1>5, <1>10, GiveFlows
<1> HIDE DEF s
<1>12. Storage(s)
  BY <1>11 DEF Flows
<1>13. gas \in Int /\ p \in Int
  BY <1>1, <1>4
<1>14. Flows(s, wjlp', gas, 0, 0, 0, 0, 0)
  BY <1>1, <1>8, <1>12, <1>13, GiveFlows
<1>15. 0 + 0 = 0 /\ p + 0 = p /\ -p + 0 = -p /\ 0 + gas = gas
  BY <1>13
<1>16. Flows(wjlp, s, 0, 0, p, 0, -p, 0)
  <2>1. Flows(wjlp, s, 0 + 0, 0 + 0, p + 0, 0 + 0, -p + 0, 0 + 0)
    BY <1>1, <1>9, <1>11, <1>13, FlowsTwice
  <2> QED
    BY <1>15, <2>1
<1>17. Flows(wjlp, wjlp', gas, 0, p + 0, 0, -p, 0)
  <2>1. Flows(wjlp, wjlp', 0 + gas, 0 + 0, p + 0, 0 + 0, -p + 0, 0 + 0)
    BY <1>1, <1>13, <1>14, <1>16, FlowsTwice
  <2> QED
    BY <1>15, <2>1
<1>18. /\ tx'.kind = "liquidation" /\ tx'.toSP = tx.toSP + toSP /\ tx'.redist = tx.redist + redist
       /\ tx'.surplus = tx.surplus + left /\ tx'.gas = tx.gas + gas /\ tx'.drawn = 0
  BY <1>8 DEF Totals
<1>19. tx.drawn = 0
  BY <1>8 DEF HeldInv, TxShape
<1>20. TxShape'
  BY <1>18 DEF TxShape
<1>21. /\ tx.toSP \in Int /\ tx.redist \in Int /\ tx.surplus \in Int /\ tx.gas \in Int
       /\ Owed \in Int /\ SumFunction(stranded) \in Int /\ SumFunction(surplus) \in Int
  BY HeldFacts
<1>22. 0 + Owed' = Entire(b) + Owed + 0
  BY <1>2, <1>3, <1>5, <1>7, <1>13, <1>18, <1>19, <1>21 DEF Owed
<1>23. SumFunction(surplus') - tx'.surplus = SumFunction(surplus) - tx.surplus + 0
  <2>1. surplus[b] + left \in Nat
    BY <1>1, <1>5, <1>6
  <2>2. SumFunction(surplus') = SumFunction(surplus) - surplus[b] + (surplus[b] + left)
    BY <1>1, <1>8, <2>1, UserSumExcept
  <2> QED
    BY <1>1, <1>5, <1>18, <1>21, <2>2
<1>24. gains' = gains /\ stranded' = stranded
  BY <1>8
<1>25. tx'.drawn + SumFunction(stranded') = tx.drawn + SumFunction(stranded) + 0
  BY <1>18, <1>19, <1>21, <1>24
<1>26. 0 \in Nat /\ 0 \in Int /\ gas \in Int /\ SetTrove(b, 0) /\ tx'.gas = tx.gas + gas
  <2>1. 0 \in Nat /\ 0 \in Int
    OBVIOUS
  <2>2. gas \in Int
    BY <1>13
  <2>3. SetTrove(b, 0)
    BY <1>8
  <2>4. tx'.gas = tx.gas + gas
    BY <1>18
  <2> QED
    BY <2>1, <2>2, <2>3, <2>4
<1>27. Flows(wjlp, wjlp', gas, 0, pending[b] + 0, 0, -pending[b], 0)
  BY <1>17 DEF p
<1>28. gains' = gains
  BY <1>24
<1> QED
  BY <1>20, <1>22, <1>23, <1>25, <1>26, <1>27, <1>28, TroveStepHeld

(* What a redemption leaves: in the trove, or for its owner to claim.      *)
LEMMA LeaveSums ==
  ASSUME HeldInv, NEW b \in Users, NEW lot \in 0..Entire(b), NEW closes \in BOOLEAN,
         Leave(b, Entire(b) - lot, closes)
  PROVE  /\ lot \in Nat /\ Entire(b) - lot \in Nat
         /\ SetTrove(b, IF closes THEN 0 ELSE Entire(b) - lot)
         /\ SumFunction(surplus') = SumFunction(surplus) + (IF closes THEN Entire(b) - lot ELSE 0)
<1> DEFINE left == Entire(b) - lot
<1>1. HeldTypes /\ surplus \in [Users -> Nat] /\ surplus[b] \in Nat /\ SumFunction(surplus) \in Int
  BY HeldFacts DEF HeldTypes
<1>2. lot \in Nat /\ left \in Nat
  BY <1>1, LeaveTypes
<1> HIDE DEF left
<1>3. SumFunction(surplus') = SumFunction(surplus) + (IF closes THEN left ELSE 0)
  <2>1. CASE closes
    <3>1. surplus[b] + left \in Nat /\ surplus' = [surplus EXCEPT ![b] = surplus[b] + left]
      BY <1>1, <1>2, <2>1 DEF Leave, left
    <3>2. SumFunction(surplus') = SumFunction(surplus) - surplus[b] + (surplus[b] + left)
      BY <1>1, <3>1, UserSumExcept
    <3> QED
      BY <1>1, <1>2, <2>1, <3>2
  <2>2. CASE ~closes
    BY <1>1, <2>2 DEF Leave
  <2> QED
    BY <2>1, <2>2
<1> QED
  BY <1>2, <1>3 DEF Leave, left

LEMMA RedeemFromTroveHeld ==
  ASSUME HeldInv, ProtocolStep, BooksInv', NEW b \in Users, NEW lot \in 0..Entire(b),
         NEW closes \in BOOLEAN, RedeemFromTrove(b, lot, closes)
  PROVE  HeldInv'
<1> DEFINE left == Entire(b) - lot
           taken == Lot(wjlp, b, lot)
           p == pending[b]
           out == IF closes THEN left ELSE 0
           neg == IF closes THEN -left ELSE 0
           stays == IF closes THEN 0 ELSE left
<1>1. /\ Storage(wjlp) /\ coll[b] \in Nat /\ p \in Int /\ p \in Nat /\ -p \in Int /\ 0 \in Int
  BY HeldFacts DEF HeldTypes
<1>2. /\ wjlp' = IF closes THEN Closing(taken, left) ELSE taken
      /\ Leave(b, left, closes) /\ tx.kind # "liquidation"
      /\ tx' = Totals("redemption", 0, 0, 0, 0, tx.drawn + lot, ~closes)
      /\ UNCHANGED <<gains, stranded>>
  BY DEF RedeemFromTrove, Calls
<1>3. /\ lot \in Nat /\ left \in Nat /\ SetTrove(b, stays)
      /\ SumFunction(surplus') = SumFunction(surplus) + out
  BY <1>2, LeaveSums
<1>4. /\ out \in Int /\ neg \in Int /\ neg = 0 - out /\ stays \in Nat /\ out + stays + lot = Entire(b)
      /\ lot \in Int /\ left \in Int /\ Entire(b) \in Int
  <2>1. Entire(b) \in Int
    BY <1>1 DEF Entire
  <2>2. out + stays = left
    BY <1>3
  <2> QED
    BY <1>3, <2>1, <2>2
<1>5. Flows(wjlp, taken, 0, lot, p, 0, -p, 0)
  BY <1>1, <1>4, LotFlows
<1> HIDE DEF taken, left, p
<1>6. Flows(taken, wjlp', 0, 0, neg, 0, 0, out)
  <2>1. Storage(taken)
    BY <1>5 DEF Flows
  <2>2. CASE closes
    BY <1>2, <1>4, <2>1, <2>2, ClosingFlows
  <2>3. CASE ~closes
    <3>1. wjlp' = taken /\ out = 0 /\ neg = 0
      BY <1>2, <2>3
    <3>2. Flows(taken, taken, 0, 0, 0, 0, 0, 0)
      BY <2>1, FlowInts DEF Flows
    <3> QED
      BY <3>1, <3>2
  <2> QED
    BY <2>2, <2>3
<1> HIDE DEF out, neg, stays
<1>7. Flows(wjlp, wjlp', 0, lot, p + neg, 0, -p, out)
  <2>1. Flows(wjlp, wjlp', 0 + 0, lot + 0, p + neg, 0 + 0, -p + 0, 0 + out)
    BY <1>1, <1>4, <1>5, <1>6, FlowsTwice
  <2>2. 0 + 0 = 0 /\ lot + 0 = lot /\ -p + 0 = -p /\ 0 + out = out
    BY <1>1, <1>4
  <2> QED
    BY <2>1, <2>2
<1>8. tx.toSP = 0 /\ tx.redist = 0 /\ tx.surplus = 0 /\ tx.gas = 0
  BY <1>2 DEF HeldInv, TxShape
<1>9. /\ tx'.kind = "redemption" /\ tx'.toSP = 0 /\ tx'.redist = 0 /\ tx'.surplus = 0
      /\ tx'.gas = 0 /\ tx'.drawn = tx.drawn + lot
  BY <1>2 DEF Totals
<1>10. TxShape'
  BY <1>9 DEF TxShape
<1>11. /\ tx.drawn \in Int /\ SumFunction(stranded) \in Int /\ SumFunction(surplus) \in Int
  BY HeldFacts
<1>12. Owed = tx.drawn /\ Owed' = tx.drawn + lot
  BY <1>4, <1>8, <1>9, <1>11 DEF Owed
<1>13. stays + Owed' = Entire(b) + Owed + neg
  <2>1. stays \in Int
    BY <1>4
  <2> QED
    BY <1>4, <1>11, <1>12, <2>1
<1>14. /\ tx'.gas = tx.gas + 0
       /\ tx'.drawn + SumFunction(stranded') = tx.drawn + SumFunction(stranded) + lot
       /\ SumFunction(surplus') - tx'.surplus = SumFunction(surplus) - tx.surplus + out
  BY <1>2, <1>3, <1>4, <1>8, <1>9, <1>11
<1> QED
  BY <1>1, <1>2, <1>3, <1>4, <1>7, <1>10, <1>13, <1>14, TroveStepHeld DEF p

LEMMA RedeemSingleHeld ==
  ASSUME HeldInv, ProtocolStep, BooksInv', NEW b \in Users, NEW lot \in 0..Entire(b),
         NEW closes \in BOOLEAN, RedeemSingle(b, lot, closes)
  PROVE  HeldInv'
<1> DEFINE left == Entire(b) - lot
           m == MovePending(wjlp, b)
           kept == IF closes THEN Closing(m, left) ELSE m
           p == pending[b]
           out == IF closes THEN left ELSE 0
           neg == IF closes THEN -left ELSE 0
           stays == IF closes THEN 0 ELSE left
<1>1. /\ Storage(wjlp) /\ coll[b] \in Nat /\ p \in Int /\ p \in Nat /\ -p \in Int /\ 0 \in Int
  BY HeldFacts DEF HeldTypes
<1>2. /\ wjlp' = unwrapFor(kept, "activePool", b, lot)
      /\ Leave(b, left, closes) /\ UNCHANGED <<gains, stranded, tx>>
  BY DEF RedeemSingle, Calls
<1>3. /\ lot \in Nat /\ left \in Nat /\ SetTrove(b, stays)
      /\ SumFunction(surplus') = SumFunction(surplus) + out
  BY <1>2, LeaveSums
<1>4. /\ out \in Int /\ neg \in Int /\ neg = 0 - out /\ stays \in Nat /\ out + stays + lot = Entire(b)
      /\ lot \in Int /\ -lot \in Int /\ left \in Int /\ Entire(b) \in Int
  <2>1. Entire(b) \in Int
    BY <1>1 DEF Entire
  <2>2. out + stays = left
    BY <1>3
  <2> QED
    BY <1>3, <2>1, <2>2
<1>5. Flows(wjlp, m, 0, 0, p, 0, -p, 0)
  BY <1>1, MovePendingFlows
<1> HIDE DEF m, left, p
<1>6. Flows(m, kept, 0, 0, neg, 0, 0, out)
  <2>1. Storage(m)
    BY <1>5 DEF Flows
  <2>2. CASE closes
    BY <1>4, <2>1, <2>2, ClosingFlows
  <2>3. CASE ~closes
    <3>1. kept = m /\ out = 0 /\ neg = 0
      BY <2>3
    <3>2. Flows(m, m, 0, 0, 0, 0, 0, 0)
      BY <2>1, FlowInts DEF Flows
    <3> QED
      BY <3>1, <3>2
  <2> QED
    BY <2>2, <2>3
<1> HIDE DEF out, neg, stays, kept
<1>7. Storage(kept)
  BY <1>6 DEF Flows
<1>8. Flows(kept, wjlp', 0, 0, -lot, 0, 0, 0)
  BY <1>2, <1>4, <1>7, UnwrapFlows
<1>9. /\ 0 + 0 = 0 /\ -p + 0 = -p /\ 0 + out = out /\ out + 0 = out /\ p + neg \in Int
  BY <1>1, <1>4
<1>10. Flows(wjlp, kept, 0, 0, p + neg, 0, -p, out)
  <2>1. Flows(wjlp, kept, 0 + 0, 0 + 0, p + neg, 0 + 0, -p + 0, 0 + out)
    BY <1>1, <1>4, <1>5, <1>6, FlowsTwice
  <2> QED
    BY <1>9, <2>1
<1>11. Flows(wjlp, wjlp', 0, 0, p + (neg - lot), 0, -p, out)
  <2> DEFINE q == p + neg
  <2>0. q \in Int /\ Flows(wjlp, kept, 0, 0, q, 0, -p, out)
    BY <1>9, <1>10
  <2> HIDE DEF q
  <2>1. Flows(wjlp, wjlp', 0 + 0, 0 + 0, q + (-lot), 0 + 0, -p + 0, out + 0)
    BY <1>1, <1>4, <1>8, <2>0, FlowsTwice
  <2>2. p + neg + (-lot) = p + (neg - lot)
    BY <1>1, <1>4
  <2> QED
    BY <1>9, <2>1, <2>2 DEF q
<1>12. TxShape' /\ Owed' = Owed /\ Owed \in Int
  BY <1>2, HeldFacts DEF HeldInv, TxShape, Owed
<1>13. neg - lot \in Int /\ stays + Owed' = Entire(b) + Owed + (neg - lot)
  <2>1. stays \in Int
    BY <1>4
  <2> QED
    BY <1>4, <1>12, <2>1
<1>14. /\ tx'.gas = tx.gas + 0
       /\ tx'.drawn + SumFunction(stranded') = tx.drawn + SumFunction(stranded) + 0
       /\ SumFunction(surplus') - tx'.surplus = SumFunction(surplus) - tx.surplus + out
  BY <1>2, <1>3, <1>4, HeldFacts
<1>15. /\ SetTrove(b, stays) /\ stays \in Nat /\ out \in Int /\ 0 \in Int /\ gains' = gains
       /\ Flows(wjlp, wjlp', 0, 0, pending[b] + (neg - lot), 0, -pending[b], out)
  BY <1>1, <1>2, <1>3, <1>4, <1>11 DEF p
<1> QED
  BY <1>12, <1>13, <1>14, <1>15, TroveStepHeld

LEMMA CancelPartialHeld ==
  ASSUME HeldInv, ProtocolStep, BooksInv', NEW b \in Users, NEW lot \in 0..Entire(b),
         CancelPartial(b, lot)
  PROVE  HeldInv'
<1> DEFINE p == pending[b]
<1>1. /\ Storage(wjlp) /\ coll[b] \in Nat /\ p \in Int /\ p \in Nat /\ -p \in Int /\ 0 \in Int
      /\ stranded \in [Users -> Nat] /\ stranded[b] \in Nat
  BY HeldFacts DEF HeldTypes
<1>2. Entire(b) \in Nat
  BY <1>1 DEF Entire
<1>3. lot \in Int /\ stranded[b] + lot \in Nat
  BY <1>1, <1>2
<1>4. /\ wjlp' = Lot(wjlp, b, lot) /\ SetTrove(b, Entire(b))
      /\ stranded' = [stranded EXCEPT ![b] = stranded[b] + lot]
      /\ tx' = [tx EXCEPT !.ended = TRUE] /\ UNCHANGED <<surplus, gains>>
  BY DEF CancelPartial, Calls
<1>5. Flows(wjlp, wjlp', 0, lot, p, 0, -p, 0)
  BY <1>1, <1>3, <1>4, LotFlows
<1>6. Flows(wjlp, wjlp', 0, lot, p + 0, 0, -p, 0)
  BY <1>1, <1>5
<1>7. /\ tx'.kind = tx.kind /\ tx'.toSP = tx.toSP /\ tx'.redist = tx.redist
      /\ tx'.surplus = tx.surplus /\ tx'.gas = tx.gas /\ tx'.drawn = tx.drawn
  BY <1>4, HeldFacts DEF HeldTypes
<1>8. TxShape' /\ Owed' = Owed
  BY <1>7 DEF HeldInv, TxShape, Owed
<1>9. SumFunction(stranded') = SumFunction(stranded) - stranded[b] + (stranded[b] + lot)
  BY <1>1, <1>3, <1>4, UserSumExcept
<1>10. tx'.drawn + SumFunction(stranded') = tx.drawn + SumFunction(stranded) + lot
  <2>1. tx.drawn \in Int /\ SumFunction(stranded) \in Int
    BY HeldFacts
  <2> QED
    BY <1>1, <1>3, <1>7, <1>9, <2>1
<1>11. /\ tx'.gas = tx.gas + 0 /\ Entire(b) + Owed' = Entire(b) + Owed + 0
       /\ SumFunction(surplus') - tx'.surplus = SumFunction(surplus) - tx.surplus + 0
  BY <1>2, <1>4, <1>7, <1>8, HeldFacts
<1> QED
  BY <1>1, <1>2, <1>3, <1>4, <1>6, <1>8, <1>10, <1>11, TroveStepHeld

LEMMA JoeAccruesHeld ==
  ASSUME HeldInv, ProtocolStep, BooksInv', JoeAccrues
  PROVE  HeldInv'
<1>1. Storage(wjlp)
  BY HeldFacts
<1>2. Leaves(wjlp, wjlp') /\ UNCHANGED <<coll, surplus, pending, gains, stranded, tx>>
  BY <1>1 DEF JoeAccrues, Leaves, Storage, Yeti
<1>3. Flows(wjlp, wjlp', 0, 0, 0, 0, 0, 0)
  BY <1>1, <1>2, FlowInts, AccountsDiffer DEF Leaves, Flows
<1> QED
  BY <1>2, <1>3, QuietHeld

LEMMA InitHeld == Init => HeldInv
<1> SUFFICES ASSUME Init PROVE HeldInv
  OBVIOUS
<1>1. EarnersTypes /\ BooksInv
  BY InitEarners, InitBooks
<1>2. /\ SumFunction(coll) = 0 /\ SumFunction(surplus) = 0
      /\ SumFunction(pending) = 0 /\ SumFunction(stranded) = 0
  <2> DEFINE z == [u \in Users |-> 0]
  <2>1. DOMAIN z = Users /\ \A u \in Users : z[u] = 0
    OBVIOUS
  <2>2. coll = z /\ surplus = z /\ pending = z /\ stranded = z
    BY DEF Init
  <2> HIDE DEF z
  <2>3. SumFunctionOnSet(z, Users) = 0
    BY <2>1, SumZero, CollateralAssumption
  <2> QED
    BY <2>1, <2>2, <2>3 DEF SumFunction
<1>3. \A a \in Accounts : Yeti(wjlp, a) = 0 /\ Balance(a) = 0 /\ Lead(wjlp, a) = 0
  BY DEF Init, Deployed, NoInfo, Yeti, Balance, Lead
<1>4. tx = NoTx /\ gains = 0
  BY DEF Init
<1>5. TxShape /\ tx.toSP = 0 /\ tx.redist = 0 /\ tx.surplus = 0 /\ tx.gas = 0 /\ tx.drawn = 0
  BY <1>4 DEF TxShape, NoTx, Totals
<1>6. EnoughInYeti /\ ContractLeads
  BY <1>2, <1>3, <1>4, <1>5, AccountsDiffer DEF EnoughInYeti, ContractLeads
<1>7. PoolsHoldWhatTheyOwe
  BY <1>2, <1>3, <1>4, <1>5, AccountsDiffer DEF PoolsHoldWhatTheyOwe
<1> QED
  BY <1>1, <1>5, <1>6, <1>7 DEF HeldInv

LEMMA StepKeepsHeld == HeldInv /\ [Next]_vars => HeldInv'
<1> SUFFICES ASSUME HeldInv, [Next]_vars PROVE HeldInv'
  OBVIOUS
<1>0. /\ EarnersTypes' /\ BooksInv'
      /\ ContractLeads'
  <2>1. EarnersTypes' /\ BooksInv'
    BY StepKeepsTypes, StepKeepsBooks DEF HeldInv
  <2>2. ASSUME NEW a \in {"TML", "TMR", "treasury"} PROVE Lead(wjlp', a) >= 0
    <3>1. a \in Accounts /\ a \notin Users
      BY AccountsDiffer
    <3>2. Lead(wjlp', a) >= Lead(wjlp, a) /\ Lead(wjlp, a) >= 0
      BY <3>1, LeadsGrow DEF HeldInv, ContractLeads
    <3>3. Lead(wjlp, a) \in Int /\ Lead(wjlp', a) \in Int
      BY <2>1, <3>1, LeadInt, BooksShaped, BooksShapedNext DEF HeldInv
    <3> QED
      BY <3>2, <3>3
  <2> QED
    BY <2>1, <2>2 DEF ContractLeads
<1>1. SUFFICES ASSUME ~Outsiders, ProtocolStep, BooksInv' PROVE HeldInv'
  <2>1. CASE Outsiders
    BY <1>0, <2>1, OutsidersHeld
  <2>2. CASE ~Outsiders
    <3>1. ProtocolStep
      BY <1>0, <2>2, TreasuryGapStays DEF ProtocolStep, HeldInv
    <3> QED
      BY <1>0, <2>2, <3>1
  <2> QED
    BY <2>1, <2>2
<1>2. CASE UNCHANGED vars
  <2>1. wjlp' = wjlp /\ UNCHANGED <<coll, surplus, pending, gains, stranded, tx>>
    BY <1>2 DEF vars
  <2>2. TxShape' /\ EnoughInYeti' /\ PoolsHoldWhatTheyOwe'
    BY <2>1 DEF HeldInv, TxShape, EnoughInYeti, PoolsHoldWhatTheyOwe, Yeti, Balance
  <2> QED
    BY <1>0, <2>2 DEF HeldInv
<1>3. ASSUME NEW u \in Users, UserNext(u) PROVE HeldInv'
  <2>1. ASSUME NEW n \in Amounts, Deposit(u, n) \/ Withdraw(u, n) PROVE HeldInv'
    BY <1>1, <2>1, DepositHeld, WithdrawHeld
  <2>2. ASSUME ApplyPendingRewards(u) \/ ClaimSurplus(u) PROVE HeldInv'
    BY <1>1, <2>2, ApplyPendingRewardsHeld, ClaimSurplusHeld
  <2>3. ~ \E n \in Amounts, to \in Destinations : Transfer(u, to, n)
    BY <1>1 DEF Outsiders
  <2> QED
    BY <1>1, <1>3, <2>1, <2>2, <2>3, HolderHeld DEF UserNext
<1>4. ASSUME NEW b \in Users, TroveNext(b) PROVE HeldInv'
  <2>1. ASSUME NEW capped \in 0..Entire(b), NEW toSP \in 0..Entire(b),
               LiquidateTrove(b, capped, toSP)
        PROVE  HeldInv'
    BY <1>1, <2>1, LiquidateTroveHeld
  <2>2. ASSUME NEW lot \in 0..Entire(b), NEW closes \in BOOLEAN,
               RedeemFromTrove(b, lot, closes) \/ RedeemSingle(b, lot, closes)
        PROVE  HeldInv'
    BY <1>1, <2>2, RedeemFromTroveHeld, RedeemSingleHeld
  <2>3. ASSUME NEW lot \in 0..Entire(b), CancelPartial(b, lot) PROVE HeldInv'
    BY <1>1, <2>3, CancelPartialHeld
  <2> QED
    BY <1>4, <2>1, <2>2, <2>3 DEF TroveNext
<1>5. ~ \E n \in Amounts, to \in Destinations, r \in RewardRecipients : WrapOwn(n, to, r)
  BY <1>1 DEF Outsiders
<1> QED
  BY <1>1, <1>2, <1>3, <1>4, <1>5, ClaimGainsHeld, FinishLiquidationHeld, FinishRedemptionHeld,
     JoeAccruesHeld DEF Next
-----------------------------------------------------------------------------
(* Every number of WJLP and of the protocol's books keeps its type at every *)
(* step that does not revert.  SafeMath guards shares, tokens and the      *)
(* stake; that no reward debt goes under zero or over what has accrued,    *)
(* though it is set from rounded quotients, is shown (WJLP.sol:106-272).   *)
THEOREM WrapperAlwaysTyped == Spec => []TypeOK
<1>1. Spec => []BooksInv
  BY InitBooks, StepKeepsBooks, PTL DEF Spec
<1> QED
  BY <1>1, TypesFromBooks, PTL

(* What a contract may send it may send from both fields.                  *)
LEMMA BackedFromLead ==
  ASSUME HeldInv, NEW a \in {"TML", "TMR", "treasury"}, NEW n \in Int, n <= Yeti(wjlp, a)
  PROVE  Backed(a, n)
<1>1. a \in Accounts
  BY AccountsDiffer
<1>2. Amount(a) \in Int /\ InYeti(a) \in Int
  BY <1>1, BooksShaped DEF HeldInv, Shaped, Storage, Amount, InYeti, Yeti
<1>3. Amount(a) - InYeti(a) >= 0 /\ n <= InYeti(a)
  BY DEF HeldInv, ContractLeads, Lead, Amount, InYeti, Yeti
<1> QED
  BY <1>2, <1>3 DEF Backed

(* The treasury always has the shares for what depositors will claim, for  *)
(* all pending rewards and for what the running batch will still send to   *)
(* StabilityPool and DefaultPool, whatever outsiders wrap for the pools or *)
(* send to them (WJLP.sol:147-212, 258-272).                               *)
THEOREM TreasuryAlwaysEarns == Spec => []TreasuryEarnsForPools
<1>1. Spec => []HeldInv
  BY InitHeld, StepKeepsHeld, PTL DEF Spec
<1>2. HeldInv => TreasuryEarnsForPools
  <2> SUFFICES ASSUME HeldInv PROVE TreasuryEarnsForPools
    OBVIOUS
  <2> DEFINE n == gains + SumFunction(pending) + tx.toSP + tx.redist
  <2>1. n \in Int
    BY HeldFacts
  <2>2. n <= Yeti(wjlp, "treasury")
    <3>1. "treasury" \in Accounts
      BY AccountsDiffer
    <3>2. Yeti(wjlp, "treasury") \in Int
      BY <3>1 DEF HeldInv, EarnersTypes, Storage
    <3>3. Yeti(wjlp, "treasury") >= n
      BY DEF HeldInv, EnoughInYeti
    <3> QED
      BY <2>1, <3>2, <3>3
  <2> HIDE DEF n
  <2>3. Backed("treasury", n)
    BY <2>1, <2>2, BackedFromLead
  <2> QED
    BY <2>3 DEF TreasuryEarnsForPools, n
<1> QED
  BY <1>1, <1>2, PTL

(* The shares of all earners are always the WJLP supply and the stake; the *)
(* two managers always have the shares that they pass on; and each pool    *)
(* holds the tokens that its counters promise: for any finite set of users *)
(* and any amounts, and any wraps and transfers by outsiders.              *)
THEOREM HoldersAlwaysMatch == Spec => []HoldersMatchEarners
<1>1. Spec => []HeldInv
  BY InitHeld, StepKeepsHeld, PTL DEF Spec
<1>2. HeldInv => HoldersMatchEarners
  <2> SUFFICES ASSUME HeldInv PROVE HoldersMatchEarners
    OBVIOUS
  <2>1. /\ tx.gas \in Int /\ tx.drawn \in Int /\ SumFunction(stranded) \in Int
    BY HeldFacts
  <2>2. "TML" \in Accounts /\ "TMR" \in Accounts
    BY AccountsDiffer
  <2>3. Yeti(wjlp, "TML") \in Int /\ Yeti(wjlp, "TMR") \in Int
    BY <2>2 DEF HeldInv, EarnersTypes, Storage
  <2>4. tx.gas <= Yeti(wjlp, "TML")
    BY <2>1, <2>3 DEF HeldInv, EnoughInYeti
  <2>5. tx.drawn + SumFunction(stranded) <= Yeti(wjlp, "TMR")
    BY <2>1, <2>3 DEF HeldInv, EnoughInYeti
  <2>6. ManagersEarnWhatTheySend
    BY <2>1, <2>4, <2>5, BackedFromLead DEF ManagersEarnWhatTheySend
  <2> QED
    BY <2>6, SharesFromBooks DEF HeldInv, HoldersMatchEarners
<1> QED
  BY <1>1, <1>2, PTL
-----------------------------------------------------------------------------
(* The shares of users.                                                    *)

LEMMA CoverParts ==
  ASSUME EarnersTypes, BooksInv, NEW u \in Users
  PROVE  /\ Cover(u) = CoverInYeti(u) + Lead(wjlp, u)
         /\ Cover(u) \in Int /\ CoverInYeti(u) \in Int /\ Lead(wjlp, u) \in Int
         /\ Needed(u) \in Int /\ Amount(u) \in Int /\ InYeti(u) \in Int
<1>1. u \in Accounts
  BY AccountsDiffer
<1>2. Amount(u) \in Int /\ InYeti(u) \in Int
  BY <1>1, BooksShaped DEF Shaped, Storage, Amount, InYeti, Yeti
<1>3. Needed(u) \in Int
  BY DEF EarnersTypes, Needed
<1>4. Lead(wjlp, u) = Amount(u) - InYeti(u)
  BY DEF Lead, Amount, InYeti
<1> QED
  BY <1>2, <1>3, <1>4 DEF Cover, CoverInYeti

LEMMA CoverPartsNext ==
  ASSUME EarnersTypes', BooksInv', NEW u \in Users
  PROVE  /\ Cover(u)' = CoverInYeti(u)' + Lead(wjlp', u)
         /\ Cover(u)' \in Int /\ CoverInYeti(u)' \in Int /\ Lead(wjlp', u) \in Int
         /\ Needed(u)' \in Int /\ Amount(u)' \in Int /\ InYeti(u)' \in Int
<1>1. u \in Accounts
  BY AccountsDiffer
<1>2. Amount(u)' \in Int /\ InYeti(u)' \in Int
  BY <1>1, BooksShapedNext DEF Shaped, Storage, Amount, InYeti, Yeti
<1>3. Needed(u)' \in Int
  BY DEF EarnersTypes, Needed
<1>4. Lead(wjlp', u) = Amount(u)' - InYeti(u)'
  BY DEF Lead, Amount, InYeti
<1> QED
  BY <1>2, <1>3, <1>4 DEF Cover, CoverInYeti

LEMMA CoverGrows ==
  ASSUME EarnersTypes, BooksInv, [Next]_vars, NEW u \in Users
  PROVE  /\ CoverInYeti(u)' >= CoverInYeti(u)
         /\ Cover(u)' >= Cover(u) \/ \E n \in Amounts : UnwrapOwn(u, n)
<1>1. CoverInYeti(u)' >= CoverInYeti(u)
  BY CoverInYetiGrows
<1>2. /\ Cover(u) = CoverInYeti(u) + Lead(wjlp, u)
      /\ CoverInYeti(u) \in Int /\ Lead(wjlp, u) \in Int
  BY CoverParts
<1>3. EarnersTypes' /\ BooksInv'
  BY StepKeepsTypes, StepKeepsBooks
<1>4. /\ Cover(u)' = CoverInYeti(u)' + Lead(wjlp', u)
      /\ CoverInYeti(u)' \in Int /\ Lead(wjlp', u) \in Int
  BY <1>3, CoverPartsNext
<1>5. Lead(wjlp', u) >= Lead(wjlp, u) \/ \E n \in Amounts : UnwrapOwn(u, n)
  BY LeadsGrow, AccountsDiffer
<1> QED
  BY <1>1, <1>2, <1>4, <1>5

(* No liquidation, redemption, claim or call of another user ever takes    *)
(* from a trove's owner shares that its trove and surplus need, in either  *)
(* field: only the owner's own unwrap lowers its amount beside them        *)
(* (WJLP.sol:147-288).                                                     *)
THEOREM OwnersAlwaysKeepTheirShares == Spec => OwnersKeepTheirShares
<1>1. Spec => [](EarnersTypes /\ BooksInv)
  BY InitEarners, InitBooks, StepKeepsTypes, StepKeepsBooks, PTL DEF Spec
<1>2. EarnersTypes /\ BooksInv /\ [Next]_vars =>
        [\A u \in Users :
           /\ CoverInYeti(u)' >= CoverInYeti(u)
           /\ Cover(u)' < Cover(u) => \E n \in Amounts : UnwrapOwn(u, n)]_vars
  <2> SUFFICES ASSUME EarnersTypes, BooksInv, [Next]_vars, NEW u \in Users
               PROVE  /\ CoverInYeti(u)' >= CoverInYeti(u)
                      /\ Cover(u)' < Cover(u) => \E n \in Amounts : UnwrapOwn(u, n)
    OBVIOUS
  <2>1. /\ CoverInYeti(u)' >= CoverInYeti(u)
        /\ Cover(u)' >= Cover(u) \/ \E n \in Amounts : UnwrapOwn(u, n)
    BY CoverGrows
  <2>2. EarnersTypes' /\ BooksInv'
    BY StepKeepsTypes, StepKeepsBooks
  <2>3. Cover(u) \in Int
    BY CoverParts
  <2>4. Cover(u)' \in Int
    BY <2>2, CoverPartsNext
  <2> QED
    BY <2>1, <2>3, <2>4
<1> QED
  BY <1>1, <1>2, PTL DEF Spec, OwnersKeepTheirShares

(* An owner that unwraps, with unwrap, shares that its trove needs.        *)
UnwrapsCollateral ==
  \E u \in Users, n \in Amounts : UnwrapOwn(u, n) /\ Amount(u) - n < Needed(u)

OwnersBacked == \A u \in Users : Backed(u, Needed(u))

LEMMA StepKeepsBacked ==
  ASSUME EarnersTypes, BooksInv, OwnersBacked, [Next]_vars, ~UnwrapsCollateral
  PROVE  OwnersBacked'
<1> SUFFICES ASSUME NEW u \in Users PROVE Backed(u, Needed(u))'
  BY DEF OwnersBacked
<1>1. /\ Cover(u) = CoverInYeti(u) + Lead(wjlp, u)
      /\ Cover(u) \in Int /\ CoverInYeti(u) \in Int /\ Lead(wjlp, u) \in Int
      /\ Needed(u) \in Int /\ Amount(u) \in Int /\ InYeti(u) \in Int
  BY CoverParts
<1>2. EarnersTypes' /\ BooksInv'
  BY StepKeepsTypes, StepKeepsBooks
<1>3. /\ Cover(u)' \in Int /\ CoverInYeti(u)' \in Int
      /\ Needed(u)' \in Int /\ Amount(u)' \in Int /\ InYeti(u)' \in Int
  BY <1>2, CoverPartsNext
<1>4. Cover(u) >= 0 /\ CoverInYeti(u) >= 0
  BY <1>1 DEF OwnersBacked, Backed, Cover, CoverInYeti
<1>5. CoverInYeti(u)' >= 0
  BY <1>1, <1>3, <1>4, CoverGrows
<1>6. Cover(u)' >= 0
  <2>1. CASE Cover(u)' >= Cover(u)
    BY <1>1, <1>3, <1>4, <2>1
  <2>2. ASSUME NEW n \in Amounts, UnwrapOwn(u, n) PROVE Cover(u)' >= 0
    <3>1. n \in Int /\ u \in Accounts
      BY CollateralAssumption, AccountsDiffer
    <3>2. wjlp' = unwrap(wjlp, u, n) /\ UNCHANGED <<coll, surplus, stranded>>
      BY <2>2 DEF UnwrapOwn, Calls
    <3>3. Lead(wjlp', u) = Lead(wjlp, u) - n
      BY <3>1, <3>2, UnwrapLead, BooksShaped DEF If
    <3>4. Yeti(wjlp', u) = Yeti(wjlp, u)
      BY <3>1, <3>2, UnwrapEffect DEF EarnersTypes
    <3>5. Amount(u)' = Amount(u) - n
      <4>1. /\ Lead(wjlp, u) = Amount(u) - InYeti(u)
            /\ Lead(wjlp', u) = Amount(u)' - InYeti(u)' /\ InYeti(u)' = InYeti(u)
        BY <3>4 DEF Lead, Amount, InYeti, Yeti
      <4> QED
        BY <1>1, <1>3, <3>1, <3>3, <4>1
    <3>6. Amount(u) - n >= Needed(u)
      BY <1>1, <2>2, <3>1 DEF UnwrapsCollateral
    <3>7. Needed(u)' = Needed(u)
      BY <3>2 DEF Needed
    <3> QED
      BY <1>1, <1>3, <3>1, <3>5, <3>6, <3>7 DEF Cover
  <2> QED
    BY <2>1, <2>2, CoverGrows
<1> QED
  BY <1>3, <1>5, <1>6 DEF Backed, Cover, CoverInYeti

(* A user that does not unwrap WJLP somebody sent to it beyond its own     *)
(* always earns, in amount and in amountInYeti, for at least the WJLP of   *)
(* its trove and its surplus, less what cancelled redemptions took: over   *)
(* all deposits, withdrawals, liquidations, redemptions, claims, wraps and *)
(* transfers, for any users and amounts, closing or liquidating its trove  *)
(* finds the shares to take (WJLP.sol:173-272).                            *)
THEOREM OwnersAlwaysEarn == Spec /\ [][~UnwrapsCollateral]_vars => []OwnersBacked
<1>1. Init => OwnersBacked
  <2> SUFFICES ASSUME Init, NEW u \in Users PROVE Backed(u, Needed(u))
    BY DEF OwnersBacked
  <2>1. u \in Accounts
    BY AccountsDiffer
  <2>2. Amount(u) = 0 /\ InYeti(u) = 0 /\ Needed(u) = 0
    BY <2>1 DEF Init, Deployed, NoInfo, Amount, InYeti, Needed
  <2> QED
    BY <2>2 DEF Backed
<1>2. EarnersTypes /\ BooksInv /\ OwnersBacked /\ [Next]_vars /\ [~UnwrapsCollateral]_vars
        => EarnersTypes' /\ BooksInv' /\ OwnersBacked'
  <2> SUFFICES ASSUME EarnersTypes, BooksInv, OwnersBacked, [Next]_vars,
                      [~UnwrapsCollateral]_vars
               PROVE  EarnersTypes' /\ BooksInv' /\ OwnersBacked'
    OBVIOUS
  <2>1. EarnersTypes' /\ BooksInv'
    BY StepKeepsTypes, StepKeepsBooks
  <2>2. CASE ~UnwrapsCollateral
    BY <2>1, <2>2, StepKeepsBacked
  <2>3. CASE UNCHANGED vars
    BY <2>1, <2>3 DEF vars, OwnersBacked, Backed, Needed, Amount, InYeti
  <2> QED
    BY <2>2, <2>3
<1> QED
  BY <1>1, <1>2, InitEarners, InitBooks, PTL DEF Spec

-----------------------------------------------------------------------------
(* JOE.  Gap is what the contract holds of it or would harvest beyond what  *)
(* all accounts may claim, but for the roundings of Earned: those of the    *)
(* amounts that are staked now are left out on either side.                 *)
ClaimOf(v) == [a \in Accounts |-> v.userInfo[a].unclaimedJOEReward - v.userInfo[a].rewardDebt]
Gap(v) == v.joe - v.chefDebt - SumFunctionOnSet(ClaimOf(v), Accounts)
Amt(v, a) == v.userInfo[a].amount

\* What one change of a share, or of the stake, may lose by rounding.
Rounding == IF ACC_PRECISION = 1 THEN 0 ELSE 1

LEMMA RoundingIs == Rounding \in 0..1 /\ (ACC_PRECISION = 1 => Rounding = 0)
BY DEF Rounding

LEMMA GapInt ==
  ASSUME NEW v, Fields(v)
  PROVE  /\ \A a \in Accounts : ClaimOf(v)[a] \in Int
         /\ SumFunctionOnSet(ClaimOf(v), Accounts) \in Int /\ Gap(v) \in Int
<1>1. \A a \in Accounts : ClaimOf(v)[a] \in Int
  BY DEF Fields, ClaimOf
<1>2. SumFunctionOnSet(ClaimOf(v), Accounts) \in Int
  BY <1>1, SumInt, FiniteAccounts
<1>3. v.joe \in Int /\ v.chefDebt \in Int
  BY DEF Fields
<1> QED
  BY <1>1, <1>2, <1>3 DEF Gap

\* A share that grows by n earns as much more as any other would, but for one unit.
LEMMA EarnedDiffers ==
  ASSUME NEW v, v.accJoePerShare \in Nat, NEW m \in Nat, NEW s \in Nat, NEW n \in Nat
  PROVE  LET grown == Earned(v, m + n) - Earned(v, m)
             stake == Earned(v, s + n) - Earned(v, s)
         IN  grown \in Nat /\ stake \in Nat
             /\ grown - stake <= Rounding /\ stake - grown <= Rounding
<1> DEFINE p == v.accJoePerShare
           d == ACC_PRECISION
<1>1. /\ m * p \in Nat /\ s * p \in Nat /\ n * p \in Nat /\ d \in Nat \ {0}
      /\ p * (m + n) = p * m + p * n /\ p * (s + n) = p * s + p * n
  BY ProductNat, ProductOverSum, WrapperAssumption
<1>2. /\ p * m = m * p /\ p * n = n * p /\ p * s = s * p
      /\ p * (m + n) = (m + n) * p /\ p * (s + n) = (s + n) * p
  <2>1. m + n \in Nat /\ s + n \in Nat
    OBVIOUS
  <2> QED
    BY <2>1, ProductTurns
<1>3. /\ Earned(v, m + n) = (m * p + n * p) \div d /\ Earned(v, m) = (m * p) \div d
      /\ Earned(v, s + n) = (s * p + n * p) \div d /\ Earned(v, s) = (s * p) \div d
  BY <1>1, <1>2 DEF Earned
<1> DEFINE a == m * p
           b == s * p
           c == n * p
<1> HIDE DEF a, b, c
<1>4. a \in Nat /\ b \in Nat /\ c \in Nat
  BY <1>1 DEF a, b, c
<1>5. /\ (a + c) \div d - a \div d - c \div d \in 0..1
      /\ (b + c) \div d - b \div d - c \div d \in 0..1
  BY <1>1, <1>4, FloorPlus
<1>6. a + c \in Nat /\ b + c \in Nat
  BY <1>4
<1>7. /\ (a + c) \div d \in Nat /\ a \div d \in Nat /\ (b + c) \div d \in Nat
      /\ b \div d \in Nat /\ c \div d \in Nat
  BY <1>1, <1>4, <1>6, FloorFits
<1>8. d = 1 => \A x \in Nat : x \div d = x
  BY Z3
<1>9. CASE d = 1
  BY <1>3, <1>4, <1>6, <1>8, <1>9, RoundingIs DEF a, b, c
<1>10. CASE d # 1
  <2>1. Rounding = 1
    BY <1>10 DEF Rounding
  <2> QED
    BY <1>3, <1>5, <1>7, <2>1 DEF a, b, c
<1> QED
  BY <1>9, <1>10

-----------------------------------------------------------------------------
(* By how much the small functions move the gap.                           *)

\* r has the same JOE as v, and the same claims on it.
LEMMA QuietGap ==
  ASSUME NEW v, NEW r, r.joe = v.joe, r.chefDebt = v.chefDebt,
         \A a \in Accounts : /\ r.userInfo[a].unclaimedJOEReward = v.userInfo[a].unclaimedJOEReward
                             /\ r.userInfo[a].rewardDebt = v.userInfo[a].rewardDebt
  PROVE  Gap(r) = Gap(v)
<1>1. ClaimOf(r) = ClaimOf(v)
  BY DEF ClaimOf
<1> QED
  BY <1>1 DEF Gap

LEMMA ChefDepositGap ==
  ASSUME NEW v, Fields(v), NEW n \in Nat
  PROVE  LET r == ChefDeposit(v, n)
         IN  /\ Gap(r) = Gap(v) - (Earned(v, v.staked + n) - Earned(v, v.staked))
             /\ r.userInfo = v.userInfo /\ r.accJoePerShare = v.accJoePerShare
             /\ r.staked = v.staked + n /\ r.reverted = v.reverted
<1> DEFINE r == ChefDeposit(v, n)
           claims == SumFunctionOnSet(ClaimOf(v), Accounts)
<1>0. /\ v.staked \in Int /\ v.chefDebt \in Int /\ v.joe \in Int /\ v.accJoePerShare \in Nat
  BY DEF Fields
<1>1. Earned(v, v.staked) \in Int /\ Earned(v, v.staked + n) \in Int
  BY <1>0, EarnedInt
<1>2. /\ r.userInfo = v.userInfo /\ r.reverted = v.reverted
      /\ r.accJoePerShare = v.accJoePerShare
      /\ r.staked = v.staked + n /\ r.chefDebt = Earned(v, v.staked + n)
      /\ r.joe = v.joe + (Earned(v, v.staked) - v.chefDebt)
  BY DEF Fields, ChefDeposit, ChefPending
<1> HIDE DEF r
<1>3. ClaimOf(r) = ClaimOf(v)
  BY <1>2 DEF ClaimOf
<1>4. /\ Gap(r) = r.joe - r.chefDebt - claims /\ Gap(v) = v.joe - v.chefDebt - claims
      /\ claims \in Int
  BY <1>3, GapInt DEF Gap
<1> HIDE DEF claims
<1>5. Gap(r) = Gap(v) - (Earned(v, v.staked + n) - Earned(v, v.staked))
  BY <1>0, <1>1, <1>2, <1>4
<1> QED
  BY <1>2, <1>5 DEF r

LEMMA ChefWithdrawGap ==
  ASSUME NEW v, Fields(v), NEW n \in Nat
  PROVE  LET r == ChefWithdraw(v, n)
         IN  /\ Gap(r) = Gap(v) + (Earned(v, v.staked) - Earned(v, v.staked - n))
             /\ r.userInfo = v.userInfo /\ r.accJoePerShare = v.accJoePerShare
             /\ r.staked = v.staked - n /\ r.reverted = (v.reverted \/ n > v.staked)
<1> DEFINE r == ChefWithdraw(v, n)
           claims == SumFunctionOnSet(ClaimOf(v), Accounts)
<1>0. /\ v.staked \in Int /\ v.chefDebt \in Int /\ v.joe \in Int /\ v.accJoePerShare \in Nat
  BY DEF Fields
<1>1. Earned(v, v.staked) \in Int /\ Earned(v, v.staked - n) \in Int
  BY <1>0, EarnedInt
<1>2. /\ r.userInfo = v.userInfo /\ r.reverted = (v.reverted \/ n > v.staked)
      /\ r.accJoePerShare = v.accJoePerShare
      /\ r.staked = v.staked - n /\ r.chefDebt = Earned(v, v.staked - n)
      /\ r.joe = v.joe + (Earned(v, v.staked) - v.chefDebt)
  BY DEF Fields, ChefWithdraw, ChefPending
<1> HIDE DEF r
<1>3. ClaimOf(r) = ClaimOf(v)
  BY <1>2 DEF ClaimOf
<1>4. /\ Gap(r) = r.joe - r.chefDebt - claims /\ Gap(v) = v.joe - v.chefDebt - claims
      /\ claims \in Int
  BY <1>3, GapInt DEF Gap
<1> HIDE DEF claims
<1>5. Gap(r) = Gap(v) + (Earned(v, v.staked) - Earned(v, v.staked - n))
  BY <1>0, <1>1, <1>2, <1>4
<1> QED
  BY <1>2, <1>5 DEF r

\* The claims of one account move, and the JOE does not or is sent to it.
LEMMA ClaimMoves ==
  ASSUME NEW v, NEW r, Fields(v), Fields(r), NEW a \in Accounts,
         \A b \in Accounts \ {a} : r.userInfo[b] = v.userInfo[b],
         r.chefDebt = v.chefDebt
  PROVE  Gap(r) = Gap(v) + (r.joe - v.joe) - (ClaimOf(r)[a] - ClaimOf(v)[a])
<1> DEFINE f == ClaimOf(v)
           g == ClaimOf(r)
<1>1. \A b \in Accounts \ {a} : g[b] = f[b]
  BY DEF ClaimOf
<1>2. /\ \A b \in Accounts : f[b] \in Int /\ g[b] \in Int
      /\ SumFunctionOnSet(f, Accounts) \in Int
  BY GapInt
<1>3. /\ Gap(v) = v.joe - v.chefDebt - SumFunctionOnSet(f, Accounts)
      /\ Gap(r) = r.joe - r.chefDebt - SumFunctionOnSet(g, Accounts)
  BY DEF Gap
<1> HIDE DEF f, g
<1>4. SumFunctionOnSet(g, Accounts) = SumFunctionOnSet(f, Accounts) - f[a] + g[a]
  BY <1>1, <1>2, SumUpdate, FiniteAccounts
<1>5. v.joe \in Int /\ r.joe \in Int /\ v.chefDebt \in Int /\ f[a] \in Int /\ g[a] \in Int
  BY <1>2 DEF Fields
<1>6. Gap(r) = Gap(v) + (r.joe - v.joe) - (g[a] - f[a])
  BY <1>2, <1>3, <1>4, <1>5
<1> QED
  BY <1>6 DEF f, g

LEMMA UserUpdateGap ==
  ASSUME NEW v, Fields(v), Signs(v), NEW a \in Accounts, NEW n \in Int
  PROVE  LET r == UserUpdate(v, a, n)
             m == Amt(v, a)
         IN  /\ Gap(r) >= Gap(v) + (Earned(v, m + n) - Earned(v, m))
             /\ r.accJoePerShare = v.accJoePerShare /\ r.staked = v.staked
             /\ r.reverted = (v.reverted \/ m + n < 0)
             /\ Amt(r, a) = m + n
             /\ \A b \in Accounts \ {a} : Amt(r, b) = Amt(v, b)
             /\ Fields(r)
<1> DEFINE r == UserUpdate(v, a, n)
           user == v.userInfo[a]
           m == Amt(v, a)
           amount == m + n
           unclaimed == IF m # 0 THEN Pending(v, a) ELSE user.unclaimedJOEReward
           R == [user EXCEPT !.unclaimedJOEReward = unclaimed, !.amount = amount,
                             !.rewardDebt = Earned(v, amount)]
<1>0. /\ v.accJoePerShare \in Nat /\ m \in Int
      /\ user \in [amount : Int, rewardDebt : Int, unclaimedJOEReward : Int, amountInYeti : Int]
  BY DEF Fields, Amt
<1>1. amount \in Int /\ unclaimed \in Int /\ Earned(v, amount) \in Int /\ Earned(v, m) \in Int
  BY <1>0, EarnedInt DEF Pending, Amt
<1>2. r = [v EXCEPT !.userInfo[a] = R, !.reverted = v.reverted \/ amount < 0]
  BY DEF Fields, UserUpdate, Amt
<1>3. R \in [amount : Int, rewardDebt : Int, unclaimedJOEReward : Int, amountInYeti : Int]
  BY <1>0, <1>1
<1>4. /\ R.amount = amount /\ R.rewardDebt = Earned(v, amount) /\ R.unclaimedJOEReward = unclaimed
  BY <1>0
<1>5. unclaimed - Earned(v, amount) - (user.unclaimedJOEReward - user.rewardDebt)
        <= Earned(v, m) - Earned(v, amount)
  <2>1. /\ user.rewardDebt \in Int /\ user.unclaimedJOEReward \in Int
        /\ user.unclaimedJOEReward >= 0 /\ user.rewardDebt >= 0
        /\ user.rewardDebt <= Earned(v, m)
    BY <1>0 DEF Signs, Amt
  <2>2. CASE m # 0
    <3>1. unclaimed = Earned(v, m) - user.rewardDebt
      BY <2>2 DEF Pending, Amt
    <3> HIDE DEF unclaimed, amount, m, user
    <3> QED
      BY <1>1, <2>1, <3>1
  <2>3. CASE m = 0
    <3>1. Earned(v, 0) = 0
      <4>1. 0 * v.accJoePerShare = 0 /\ 0 \div ACC_PRECISION = 0
        BY <1>0, WrapperAssumption, Z3
      <4> QED
        BY <4>1 DEF Earned
    <3>2. unclaimed = user.unclaimedJOEReward /\ Earned(v, m) = 0
      BY <2>3, <3>1
    <3> HIDE DEF unclaimed, amount, m, user
    <3> QED
      BY <1>1, <2>1, <3>2
  <2> QED
    BY <2>2, <2>3
<1>6. amount = m + n /\ (v.reverted \/ amount < 0) \in BOOLEAN
  OBVIOUS
<1> HIDE DEF R, r, amount, unclaimed
<1>7. Fields(r)
  BY <1>2, <1>3, <1>6 DEF Fields
<1>8. /\ r.userInfo = [v.userInfo EXCEPT ![a] = R]
      /\ r.reverted = (v.reverted \/ amount < 0)
      /\ r.accJoePerShare = v.accJoePerShare
      /\ r.staked = v.staked /\ r.chefDebt = v.chefDebt /\ r.joe = v.joe
  BY <1>2 DEF Fields
<1>9. \A b \in Accounts : r.userInfo[b] = IF b = a THEN R ELSE v.userInfo[b]
  BY <1>8 DEF Fields
<1>10. Gap(r) = Gap(v) + (r.joe - v.joe) - (ClaimOf(r)[a] - ClaimOf(v)[a])
  <2>1. \A b \in Accounts \ {a} : r.userInfo[b] = v.userInfo[b]
    BY <1>9
  <2>2. r.chefDebt = v.chefDebt
    BY <1>8
  <2> QED
    BY <1>7, <2>1, <2>2, ClaimMoves
<1>11. /\ ClaimOf(r)[a] = unclaimed - Earned(v, amount)
       /\ ClaimOf(v)[a] = user.unclaimedJOEReward - user.rewardDebt
  BY <1>4, <1>9 DEF ClaimOf
<1>12. Gap(v) \in Int /\ v.joe \in Int /\ ClaimOf(v)[a] \in Int /\ ClaimOf(r)[a] \in Int
  BY <1>7, GapInt DEF Fields
<1>13. Gap(r) >= Gap(v) + (Earned(v, amount) - Earned(v, m))
  <2>1. ClaimOf(r)[a] - ClaimOf(v)[a] <= Earned(v, m) - Earned(v, amount)
    BY <1>5, <1>11
  <2>2. r.joe = v.joe
    BY <1>8
  <2> HIDE DEF m
  <2> QED
    BY <1>1, <1>10, <1>12, <2>1, <2>2
<1>14. Amt(r, a) = amount /\ \A b \in Accounts \ {a} : Amt(r, b) = Amt(v, b)
  BY <1>4, <1>9 DEF Amt
<1> QED
  BY <1>6, <1>7, <1>8, <1>13, <1>14 DEF r

\* r is v with the shares and the stake as they were; a revert lasts.
SameShares(v, r) ==
  /\ r.accJoePerShare = v.accJoePerShare /\ r.staked = v.staked
  /\ \A a \in Accounts : Amt(r, a) = Amt(v, a)
  /\ r.reverted \/ ~v.reverted

\* Sending JOE loses nothing: if there is not enough, less is sent.
LEMMA SendGap ==
  ASSUME NEW v, Books(v, 0, 0), NEW a \in Accounts, ~SendJoeReward(v, a).reverted
  PROVE  /\ Gap(SendJoeReward(v, a)) >= Gap(v)
         /\ SameShares(v, SendJoeReward(v, a))
<1> DEFINE c == ChefWithdraw(v, 0)
           u == UserUpdate(c, a, 0)
           send == u.userInfo[a].unclaimedJOEReward
           left == IF send > u.joe THEN 0 ELSE u.joe - send
           user == u.userInfo[a]
           R == [user EXCEPT !.unclaimedJOEReward = 0]
           r == [u EXCEPT !.userInfo[a] = R, !.joe = left]
<1>1. Books(c, 0, 0) /\ Books(u, 0, 0)
  <2>1. 0 + 0 = 0
    OBVIOUS
  <2>2. Books(c, 0, 0)
    BY <2>1, ChefWithdrawBooks
  <2> HIDE DEF c
  <2>3. Books(u, 0, 0)
    BY <2>1, <2>2, UserUpdateBooks
  <2> QED
    BY <2>2, <2>3
<1>2. SendJoeReward(v, a) = r
  <2> HIDE DEF left
  <2>1. u.userInfo[a] = user
    OBVIOUS
  <2> QED
    BY <1>1 DEF SendJoeReward, Books, Fields, left
<1>3. /\ Gap(c) = Gap(v) /\ c.userInfo = v.userInfo /\ c.accJoePerShare = v.accJoePerShare
      /\ c.staked = v.staked /\ (c.reverted \/ ~v.reverted)
  <2>1. v.staked \in Int /\ v.accJoePerShare \in Nat /\ Fields(v)
    BY DEF Books, Fields
  <2>2. v.staked - 0 = v.staked /\ Earned(v, v.staked) \in Int /\ Gap(v) \in Int
    BY <2>1, EarnedInt, GapInt
  <2>3. /\ Gap(c) = Gap(v) + (Earned(v, v.staked) - Earned(v, v.staked - 0))
        /\ c.userInfo = v.userInfo /\ c.accJoePerShare = v.accJoePerShare
        /\ c.staked = v.staked - 0 /\ c.reverted = (v.reverted \/ 0 > v.staked)
    <3> 0 \in Nat
      OBVIOUS
    <3> QED
      BY <2>1, ChefWithdrawGap
  <2> HIDE DEF c
  <2>4. Gap(c) = Gap(v)
    BY <2>2, <2>3
  <2> QED
    BY <2>2, <2>3, <2>4
<1>4. user \in [amount : Int, rewardDebt : Int, unclaimedJOEReward : Int, amountInYeti : Int]
  BY <1>1 DEF Books, Fields
<1>5. /\ R.amount = user.amount /\ R.rewardDebt = user.rewardDebt /\ R.unclaimedJOEReward = 0
      /\ R \in [amount : Int, rewardDebt : Int, unclaimedJOEReward : Int, amountInYeti : Int]
  BY <1>4
<1>6. left \in Int /\ left >= u.joe - send /\ u.joe \in Int /\ send \in Int
  BY <1>1, <1>4 DEF Books, Fields
<1> HIDE DEF R, left, u
<1>7. Fields(r)
  BY <1>1, <1>5, <1>6 DEF Books, Fields
<1>8. /\ r.userInfo = [u.userInfo EXCEPT ![a] = R]
      /\ r.reverted = u.reverted /\ r.accJoePerShare = u.accJoePerShare
      /\ r.staked = u.staked /\ r.chefDebt = u.chefDebt /\ r.joe = left
  BY <1>1 DEF Books, Fields
<1> HIDE DEF r, c
<1>9. \A b \in Accounts : r.userInfo[b] = IF b = a THEN R ELSE u.userInfo[b]
  BY <1>1, <1>8 DEF Books, Fields
<1>10. /\ Gap(u) >= Gap(c) /\ u.accJoePerShare = c.accJoePerShare /\ u.staked = c.staked
       /\ \A b \in Accounts : Amt(u, b) = Amt(c, b)
       /\ u.reverted \/ ~c.reverted
  <2>1. ~r.reverted
    BY <1>2
  <2>2. ~c.reverted
    BY <2>1, <1>8, <1>1 DEF u, UserUpdate, Books, Fields
  <2>3. Fields(c) /\ Signs(c)
    BY <1>1, <2>2 DEF Books
  <2>4. Amt(c, a) \in Int /\ c.accJoePerShare \in Nat /\ Gap(c) \in Int
    BY <2>3, GapInt DEF Fields, Amt
  <2>5. Amt(c, a) + 0 = Amt(c, a) /\ Earned(c, Amt(c, a)) \in Int
    BY <2>4, EarnedInt
  <2>6. /\ Gap(u) >= Gap(c) + (Earned(c, Amt(c, a)) - Earned(c, Amt(c, a)))
        /\ u.accJoePerShare = c.accJoePerShare /\ u.staked = c.staked
        /\ Amt(u, a) = Amt(c, a)
        /\ \A b \in Accounts \ {a} : Amt(u, b) = Amt(c, b)
    BY <2>3, <2>5, UserUpdateGap DEF u
  <2> QED
    BY <2>2, <2>4, <2>5, <2>6, <1>1, GapInt DEF Books
<1>11. Gap(r) = Gap(u) + (r.joe - u.joe) - (ClaimOf(r)[a] - ClaimOf(u)[a])
  <2>1. \A b \in Accounts \ {a} : r.userInfo[b] = u.userInfo[b]
    BY <1>9
  <2>2. r.chefDebt = u.chefDebt /\ Fields(u)
    BY <1>1, <1>8 DEF Books
  <2> QED
    BY <1>7, <2>1, <2>2, ClaimMoves
<1>12. /\ ClaimOf(r)[a] = 0 - user.rewardDebt
       /\ ClaimOf(u)[a] = send - user.rewardDebt
  BY <1>5, <1>9 DEF ClaimOf
<1>13. Gap(u) \in Int /\ Gap(c) \in Int /\ Gap(v) \in Int
  BY <1>1, GapInt DEF Books
<1>14. user.rewardDebt \in Int
  BY <1>4
<1> HIDE DEF send, user
<1>15. Gap(r) >= Gap(v)
  BY <1>3, <1>6, <1>8, <1>10, <1>11, <1>12, <1>13, <1>14
<1>16. \A b \in Accounts : Amt(r, b) = Amt(u, b)
  BY <1>5, <1>9 DEF Amt, user
<1>17. SameShares(v, r)
  BY <1>3, <1>8, <1>10, <1>16 DEF SameShares, Amt
<1> QED
  BY <1>2, <1>15, <1>17

-----------------------------------------------------------------------------
(* What the functions lose: one unit where a share or the stake changes,   *)
(* and nothing where they do not.                                          *)

Loses(v, r, k) == r.reverted \/ (~v.reverted /\ Gap(r) >= Gap(v) - k)

LEMMA LosesTwice ==
  ASSUME NEW v, NEW w, NEW r, Fields(v), Fields(w), Fields(r), NEW j \in Int, NEW k \in Int,
         Loses(v, w, j), Loses(w, r, k)
  PROVE  Loses(v, r, j + k)
<1>1. Gap(v) \in Int /\ Gap(w) \in Int /\ Gap(r) \in Int
  BY GapInt
<1> QED
  BY <1>1 DEF Loses

LEMMA TransferLoses ==
  ASSUME NEW v, Books(v, 0, 0), NEW a \in Accounts, NEW b \in Accounts, NEW n \in Nat
  PROVE  Loses(v, transfer(v, a, b, n), 0)
<1> DEFINE r == transfer(v, a, b, n)
<1>1. Fields(v)
  BY DEF Books
<1>2. r.userInfo = v.userInfo /\ r.joe = v.joe /\ r.chefDebt = v.chefDebt
  BY <1>1 DEF Fields, transfer, Move, Mint, Burn
<1>3. r.reverted \/ ~v.reverted
  BY <1>1 DEF Fields, transfer, Move, Mint, Burn
<1> HIDE DEF r
<1>4. Gap(r) = Gap(v) /\ Gap(v) \in Int
  BY <1>1, <1>2, QuietGap, GapInt
<1> QED
  BY <1>3, <1>4 DEF Loses, r

\* The share of amountInYeti is not one of JOE.
LEMMA YetiGap ==
  ASSUME NEW v, Fields(v), NEW a \in Accounts, NEW n \in Int
  PROVE  LET r == ChangeInYeti(v, a, n)
         IN  /\ Gap(r) = Gap(v) /\ SameShares(v, r)
<1> DEFINE r == ChangeInYeti(v, a, n)
           user == v.userInfo[a]
<1>1. user \in [amount : Int, rewardDebt : Int, unclaimedJOEReward : Int, amountInYeti : Int]
  BY DEF Fields
<1>2. /\ r.joe = v.joe /\ r.chefDebt = v.chefDebt /\ r.accJoePerShare = v.accJoePerShare
      /\ r.staked = v.staked /\ (r.reverted \/ ~v.reverted)
      /\ r.userInfo = [v.userInfo EXCEPT ![a].amountInYeti = user.amountInYeti + n]
  BY DEF Fields, ChangeInYeti
<1>3. \A b \in Accounts :
        /\ r.userInfo[b].amount = v.userInfo[b].amount
        /\ r.userInfo[b].unclaimedJOEReward = v.userInfo[b].unclaimedJOEReward
        /\ r.userInfo[b].rewardDebt = v.userInfo[b].rewardDebt
  BY <1>1, <1>2 DEF Fields
<1> HIDE DEF r
<1>4. Gap(r) = Gap(v)
  BY <1>2, <1>3, QuietGap
<1>5. SameShares(v, r)
  BY <1>2, <1>3 DEF SameShares, Amt
<1> QED
  BY <1>4, <1>5 DEF r

LEMMA WrapLoses ==
  ASSUME NEW v, Books(v, 0, 0), NEW to \in Accounts, NEW a \in Accounts, NEW n \in Nat
  PROVE  Loses(v, wrap(v, n, to, a), Rounding)
<1> DEFINE d == ChefDeposit(v, n)
           u == UserUpdate(d, a, n)
           t == Mint(u, to, n)
           c == ChangeInYeti(t, a, n)
           m == Amt(v, a)
<1>1. Fields(v)
  BY DEF Books
<1>2. CASE v.reverted
  <2>1. wrap(v, n, to, a).reverted
    BY <1>1, <1>2 DEF Fields, wrap, ChefDeposit, UserUpdate, Mint, ChangeInYeti
  <2> QED
    BY <2>1 DEF Loses
<1>3. CASE ~v.reverted
  <2>1. Signs(v)
    BY <1>3 DEF Books
  <2>2. /\ v.staked \in Nat /\ m \in Nat /\ v.accJoePerShare \in Nat /\ Gap(v) \in Int
    BY <1>1, <2>1, GapInt DEF Fields, Signs, Amt
  <2>3. /\ Gap(d) = Gap(v) - (Earned(v, v.staked + n) - Earned(v, v.staked))
        /\ d.userInfo = v.userInfo /\ d.accJoePerShare = v.accJoePerShare
        /\ ~d.reverted
    BY <1>1, <1>3, ChefDepositGap
  <2>4. Books(d, 0 - n, 0 - n) /\ 0 - n \in Int
    BY ChefDepositBooks
  <2> HIDE DEF d
  <2>5. Fields(d) /\ Signs(d) /\ Amt(d, a) = m
    BY <2>3, <2>4 DEF Books, Amt
  <2>6. \A k : Earned(d, k) = Earned(v, k)
    BY <2>3 DEF Earned
  <2>7. /\ Gap(u) >= Gap(d) + (Earned(v, m + n) - Earned(v, m)) /\ Fields(u)
    BY <2>5, <2>6, UserUpdateGap
  <2>8. /\ (Earned(v, v.staked + n) - Earned(v, v.staked))
             - (Earned(v, m + n) - Earned(v, m)) <= Rounding
        /\ Earned(v, v.staked + n) - Earned(v, v.staked) \in Nat
        /\ Earned(v, m + n) - Earned(v, m) \in Nat
    BY <2>2, EarnedDiffers
  <2> HIDE DEF u, m
  <2>9. Fields(t) /\ Gap(t) = Gap(u)
    <3>1. Fields(t)
      BY <2>7 DEF Fields, Mint
    <3>2. t.joe = u.joe /\ t.chefDebt = u.chefDebt /\ t.userInfo = u.userInfo
      BY <2>7 DEF Fields, Mint
    <3> HIDE DEF t
    <3> QED
      BY <3>1, <3>2, QuietGap
  <2> HIDE DEF t
  <2>10. Gap(c) = Gap(t)
    BY <2>9, YetiGap
  <2> HIDE DEF c
  <2>11. Gap(u) \in Int /\ Gap(d) \in Int
    BY <2>5, <2>7, GapInt
  <2>12. Gap(u) >= Gap(v) - Rounding
    <3> DEFINE x == Earned(v, v.staked + n) - Earned(v, v.staked)
               y == Earned(v, m + n) - Earned(v, m)
    <3>1. x \in Nat /\ y \in Nat /\ x - y <= Rounding /\ Gap(d) = Gap(v) - x /\ Gap(u) >= Gap(d) + y
      BY <2>3, <2>7, <2>8
    <3> HIDE DEF x, y
    <3> QED
      BY <2>2, <2>11, <3>1, RoundingIs
  <2>13. wrap(v, n, to, a) = IF to = "activePool" THEN c ELSE t
    BY DEF wrap, c, t, u, d
  <2> QED
    BY <1>3, <2>9, <2>10, <2>12, <2>13 DEF Loses
<1> QED
  BY <1>2, <1>3

\* What unwrap, unwrapFor and updateReward start with: JOE is sent to a, whose
\* share shrinks by n.
LEMMA TakeGap ==
  ASSUME NEW v, Books(v, 0, 0), NEW a \in Accounts, NEW n \in Nat,
         ~UserUpdate(SendJoeReward(v, a), a, -n).reverted
  PROVE  LET r == UserUpdate(SendJoeReward(v, a), a, -n)
             m == Amt(v, a) - n
         IN  /\ ~v.reverted /\ m \in Nat
             /\ Gap(r) >= Gap(v) - (Earned(v, m + n) - Earned(v, m))
             /\ r.accJoePerShare = v.accJoePerShare /\ r.staked = v.staked
             /\ Fields(r) /\ Signs(r)
             /\ \A b \in Accounts : Amt(r, b) = IF b = a THEN m ELSE Amt(v, b)
<1> DEFINE s == SendJoeReward(v, a)
           r == UserUpdate(s, a, -n)
           m == Amt(v, a) - n
<1>1. Books(s, 0, 0)
  BY SendBooks
<1>2. -n \in Int /\ 0 + (-n) \in Int
  OBVIOUS
<1>3. Books(r, 0 + (-n), 0)
  <2> HIDE DEF s
  <2> QED
    BY <1>1, <1>2, UserUpdateBooks
<1>4. ~r.reverted /\ Fields(r) /\ Signs(r)
  BY <1>3 DEF Books
<1>5. ~s.reverted
  <2> HIDE DEF s
  <2> QED
    BY <1>1, <1>4 DEF UserUpdate, Books, Fields
<1>6. Gap(s) >= Gap(v) /\ SameShares(v, s)
  BY <1>5, SendGap
<1> HIDE DEF s
<1>7. Fields(s) /\ Signs(s) /\ ~v.reverted
  BY <1>1, <1>5, <1>6 DEF Books, SameShares
<1>8. Amt(s, a) = Amt(v, a) /\ Amt(v, a) \in Int
  BY <1>6 DEF SameShares, Books, Fields, Amt
<1>9. Amt(s, a) + (-n) = m /\ m + n = Amt(v, a)
  BY <1>8
<1>10. \A k : Earned(s, k) = Earned(v, k)
  BY <1>6 DEF SameShares, Earned
<1>11. /\ Gap(r) >= Gap(s) + (Earned(s, m) - Earned(s, m + n))
       /\ r.accJoePerShare = s.accJoePerShare /\ r.staked = s.staked
       /\ Amt(r, a) = m
       /\ \A b \in Accounts \ {a} : Amt(r, b) = Amt(s, b)
  BY <1>2, <1>7, <1>8, <1>9, UserUpdateGap
<1> HIDE DEF r
<1>12. m \in Nat
  <2>1. Amt(r, a) >= 0
    BY <1>4 DEF Signs, Amt
  <2> QED
    BY <1>8, <1>11, <2>1
<1>13. Gap(r) >= Gap(v) - (Earned(v, m + n) - Earned(v, m))
  <2>1. Gap(r) \in Int /\ Gap(s) \in Int /\ Gap(v) \in Int
    BY <1>4, <1>7, GapInt DEF Books
  <2>2. Earned(v, m) \in Int /\ Earned(v, m + n) \in Int
    <3>1. v.accJoePerShare \in Nat
      BY DEF Books, Fields
    <3> QED
      BY <1>8, <1>9, <1>12, <3>1, EarnedInt
  <2> HIDE DEF m
  <2> QED
    BY <1>6, <1>10, <1>11, <2>1, <2>2
<1> QED
  BY <1>4, <1>6, <1>7, <1>8, <1>11, <1>12, <1>13 DEF SameShares, r, s

LEMMA PayOutLoses ==
  ASSUME NEW v, Books(v, 0, 0), NEW a \in Accounts, NEW n \in Nat, NEW pool \in Accounts,
         NEW t, Fields(t), NEW u, u = UserUpdate(SendJoeReward(v, a), a, -n),
         Gap(t) = Gap(u), SameShares(u, t)
  PROVE  Loses(v, Burn(ChefWithdraw(t, n), pool, n), Rounding)
<1> DEFINE c == ChefWithdraw(t, n)
           r == Burn(c, pool, n)
           m == Amt(v, a) - n
           s == v.staked - n
<1>1. Fields(v)
  BY DEF Books
<1>2. CASE r.reverted
  BY <1>2 DEF Loses
<1>3. CASE ~r.reverted
  <2>1. ~c.reverted /\ c.joe = r.joe /\ c.chefDebt = r.chefDebt /\ c.userInfo = r.userInfo
    BY <1>3 DEF Burn, ChefWithdraw, Fields
  <2>2. /\ Gap(c) = Gap(t) + (Earned(t, t.staked) - Earned(t, t.staked - n))
        /\ c.reverted = (t.reverted \/ n > t.staked)
    BY ChefWithdrawGap
  <2> HIDE DEF r, c
  <2>3. Gap(r) = Gap(c)
    BY <2>1, QuietGap
  <2>4. ~t.reverted /\ ~(n > t.staked)
    BY <2>1, <2>2
  <2>5. ~u.reverted
    BY <2>4 DEF SameShares
  <2>6. /\ ~v.reverted /\ m \in Nat
        /\ Gap(u) >= Gap(v) - (Earned(v, m + n) - Earned(v, m))
        /\ u.accJoePerShare = v.accJoePerShare /\ u.staked = v.staked
        /\ Fields(u)
    BY <2>5, TakeGap
  <2>7. t.staked = v.staked /\ t.accJoePerShare = v.accJoePerShare
    BY <2>6 DEF SameShares
  <2>8. s \in Nat /\ s + n = v.staked /\ v.accJoePerShare \in Nat
    BY <1>1, <2>4, <2>7 DEF Fields
  <2>9. \A k : Earned(t, k) = Earned(v, k)
    BY <2>7 DEF Earned
  <2> HIDE DEF m
  <2>10. /\ (Earned(v, m + n) - Earned(v, m)) - (Earned(v, s + n) - Earned(v, s)) <= Rounding
         /\ Earned(v, m + n) - Earned(v, m) \in Nat
         /\ Earned(v, s + n) - Earned(v, s) \in Nat
    <3> HIDE DEF s
    <3> QED
      BY <2>6, <2>8, EarnedDiffers
  <2>11. Gap(r) = Gap(u) + (Earned(v, s + n) - Earned(v, s))
    BY <2>2, <2>3, <2>7, <2>8, <2>9
  <2>12. Gap(u) \in Int /\ Gap(v) \in Int
    BY <1>1, <2>6, GapInt
  <2>13. Gap(r) >= Gap(v) - Rounding
    <3> DEFINE x == Earned(v, m + n) - Earned(v, m)
               y == Earned(v, s + n) - Earned(v, s)
    <3>1. x \in Nat /\ y \in Nat /\ x - y <= Rounding /\ Gap(u) >= Gap(v) - x /\ Gap(r) = Gap(u) + y
      BY <2>6, <2>10, <2>11
    <3> HIDE DEF x, y
    <3> QED
      BY <2>12, <3>1, RoundingIs
  <2> QED
    BY <2>6, <2>13 DEF Loses, r, c
<1> QED
  BY <1>2, <1>3 DEF r

LEMMA UnwrapLoses ==
  ASSUME NEW v, Books(v, 0, 0), NEW a \in Accounts, NEW n \in Nat
  PROVE  Loses(v, unwrap(v, a, n), Rounding)
<1> DEFINE u == UserUpdate(SendJoeReward(v, a), a, -n)
<1>1. Fields(u)
  BY TakeBooks DEF Books
<1>2. Gap(u) = Gap(u) /\ SameShares(u, u)
  BY DEF SameShares
<1> QED
  BY <1>1, <1>2, PayOutLoses DEF unwrap

LEMMA UnwrapForLoses ==
  ASSUME NEW v, Books(v, 0, 0), NEW pool \in Accounts, NEW a \in Accounts, NEW n \in Nat
  PROVE  Loses(v, unwrapFor(v, pool, a, n), Rounding)
<1> DEFINE u == UserUpdate(SendJoeReward(v, a), a, -n)
           t == ChangeInYeti(u, a, -n)
<1>1. Fields(u) /\ Fields(t) /\ -n \in Int
  BY TakeBooks DEF Books
<1>2. Gap(t) = Gap(u) /\ SameShares(u, t)
  <2> HIDE DEF u
  <2> QED
    BY <1>1, YetiGap
<1>3. Loses(v, Burn(ChefWithdraw(t, n), pool, n), Rounding)
  BY <1>1, <1>2, PayOutLoses
<1> QED
  BY <1>3 DEF unwrapFor

LEMMA UpdateRewardLoses ==
  ASSUME NEW v, Books(v, 0, 0), NEW a \in Accounts, NEW b \in Accounts, NEW n \in Nat
  PROVE  Loses(v, updateReward(v, a, b, n), Rounding)
<1> DEFINE u == UserUpdate(SendJoeReward(v, a), a, -n)
           t == ChangeInYeti(u, a, -n)
           w == UserUpdate(t, b, n)
           r == ChangeInYeti(w, b, n)
           m == Amt(v, a) - n
           k == Amt(u, b)
<1>1. Fields(v)
  BY DEF Books
<1>2. Books(t, 0 - n, 0) /\ Fields(u) /\ -n \in Int /\ 0 - n \in Int /\ n \in Int
  BY TakeBooks DEF Books
<1>3. Gap(t) = Gap(u) /\ SameShares(u, t)
  <2> HIDE DEF u
  <2> QED
    BY <1>2, YetiGap
<1>4. Books(w, 0 - n + n, 0)
  <2> HIDE DEF t
  <2> QED
    BY <1>2, UserUpdateBooks
<1>5. Gap(r) = Gap(w) /\ SameShares(w, r) /\ Fields(w)
  <2> HIDE DEF w
  <2> QED
    BY <1>2, <1>4, YetiGap DEF Books
<1>6. updateReward(v, a, b, n) = r
  BY DEF updateReward
<1>7. CASE r.reverted
  BY <1>6, <1>7 DEF Loses
<1>8. CASE ~r.reverted
  <2> HIDE DEF r
  <2>1. ~w.reverted
    BY <1>5, <1>8 DEF SameShares
  <2>2. ~t.reverted
    <3> HIDE DEF t
    <3> QED
      BY <1>2, <2>1 DEF UserUpdate, Books, Fields
  <2>3. ~u.reverted
    BY <1>3, <2>2 DEF SameShares
  <2>4. /\ ~v.reverted /\ m \in Nat
        /\ Gap(u) >= Gap(v) - (Earned(v, m + n) - Earned(v, m))
        /\ u.accJoePerShare = v.accJoePerShare
        /\ Signs(u)
    BY <2>3, TakeGap
  <2> HIDE DEF u, m
  <2>5. k \in Nat
    BY <1>2, <2>4 DEF Signs, Fields, Amt
  <2>6. /\ Amt(t, b) = k /\ t.accJoePerShare = v.accJoePerShare
        /\ \A x : Earned(t, x) = Earned(v, x)
    BY <1>3, <2>4 DEF SameShares, Earned
  <2>7. Fields(t) /\ Signs(t)
    BY <1>2, <2>2 DEF Books
  <2> HIDE DEF t
  <2>8. Gap(w) >= Gap(t) + (Earned(v, k + n) - Earned(v, k))
    BY <1>2, <2>6, <2>7, UserUpdateGap
  <2> HIDE DEF w, k
  <2>9. v.accJoePerShare \in Nat
    BY <1>1 DEF Fields
  <2>10. /\ (Earned(v, m + n) - Earned(v, m)) - (Earned(v, k + n) - Earned(v, k)) <= Rounding
         /\ Earned(v, m + n) - Earned(v, m) \in Nat
         /\ Earned(v, k + n) - Earned(v, k) \in Nat
    BY <2>4, <2>5, <2>9, EarnedDiffers
  <2>11. Gap(u) \in Int /\ Gap(v) \in Int /\ Gap(w) \in Int
    BY <1>1, <1>2, <1>5, GapInt
  <2>12. Gap(r) >= Gap(v) - Rounding
    <3> DEFINE x == Earned(v, m + n) - Earned(v, m)
               y == Earned(v, k + n) - Earned(v, k)
    <3>1. x \in Nat /\ y \in Nat /\ x - y <= Rounding /\ Gap(u) >= Gap(v) - x /\ Gap(w) >= Gap(u) + y
      BY <1>3, <2>4, <2>8, <2>10
    <3> HIDE DEF x, y
    <3> QED
      BY <1>5, <2>11, <3>1, RoundingIs
  <2> QED
    BY <1>6, <2>4, <2>12 DEF Loses
<1> QED
  BY <1>7, <1>8

LEMMA MovePendingLoses ==
  ASSUME NEW v, Books(v, 0, 0), NEW u \in Users, pending[u] \in Nat
  PROVE  Loses(v, MovePending(v, u), 2 * Rounding)
<1> DEFINE n == pending[u]
           e == updateReward(v, "treasury", "defaultPool", n)
           s == transfer(e, "defaultPool", "activePool", n)
           r == updateReward(s, "defaultPool", u, n)
<1>1. /\ n \in Nat /\ u \in Accounts /\ "treasury" \in Accounts
      /\ "defaultPool" \in Accounts /\ "activePool" \in Accounts
  BY AccountsDiffer
<1>2. MovePending(v, u) = IF n = 0 THEN v ELSE r
  BY DEF MovePending
<1>3. Rounding \in Int /\ Rounding + 0 \in Int /\ Rounding + 0 + Rounding = 2 * Rounding
  BY RoundingIs
<1> HIDE DEF n
<1>4. Books(e, 0, 0) /\ Loses(v, e, Rounding)
  BY <1>1, UpdateRewardBooks, UpdateRewardLoses
<1> HIDE DEF e
<1>5. Books(s, 0, 0) /\ Loses(e, s, 0)
  BY <1>1, <1>4, TransferBooks, TransferLoses
<1> HIDE DEF s
<1>6. Books(r, 0, 0) /\ Loses(s, r, Rounding)
  BY <1>1, <1>5, UpdateRewardBooks, UpdateRewardLoses
<1> HIDE DEF r
<1>7. Loses(v, r, Rounding + 0 + Rounding)
  <2>1. Loses(v, s, Rounding + 0)
    BY <1>3, <1>4, <1>5, LosesTwice DEF Books
  <2> QED
    BY <1>3, <1>5, <1>6, <2>1, LosesTwice DEF Books
<1>8. Loses(v, v, 2 * Rounding)
  <2>1. Gap(v) \in Int
    BY GapInt DEF Books
  <2> QED
    BY <2>1, RoundingIs DEF Loses
<1> QED
  BY <1>2, <1>3, <1>7, <1>8

LEMMA LotLoses ==
  ASSUME NEW v, Books(v, 0, 0), NEW u \in Users, pending[u] \in Nat, NEW n \in Nat
  PROVE  Loses(v, Lot(v, u, n), 3 * Rounding)
<1> DEFINE m == MovePending(v, u)
           r == updateReward(m, u, "TMR", n)
<1>1. u \in Accounts /\ "TMR" \in Accounts
  BY AccountsDiffer
<1>2. Rounding \in Int /\ 2 * Rounding \in Int /\ 2 * Rounding + Rounding = 3 * Rounding
  BY RoundingIs
<1>3. Books(m, 0, 0) /\ Loses(v, m, 2 * Rounding)
  BY MovePendingBooks, MovePendingLoses
<1> HIDE DEF m
<1>4. Books(r, 0, 0) /\ Loses(m, r, Rounding)
  BY <1>1, <1>3, UpdateRewardBooks, UpdateRewardLoses
<1> HIDE DEF r
<1>5. Loses(v, r, 2 * Rounding + Rounding)
  BY <1>2, <1>3, <1>4, LosesTwice DEF Books
<1> QED
  BY <1>2, <1>5 DEF Lot, r, m

LEMMA ClosingLoses ==
  ASSUME NEW v, Books(v, 0, 0), NEW n \in Nat
  PROVE  Loses(v, Closing(v, n), 0)
BY TransferLoses, AccountsDiffer DEF Closing

LEMMA SettleLoses ==
  ASSUME NEW v, Books(v, 0, 0), NEW totals,
         totals.toSP \in Nat, totals.redist \in Nat, totals.surplus \in Nat, totals.gas \in Nat
  PROVE  Loses(v, Settle(v, totals), Rounding)
<1> DEFINE o == transfer(v, "activePool", "stabilityPool", totals.toSP)
           m == transfer(o, "activePool", "defaultPool", totals.redist)
           k == transfer(m, "activePool", "collSurplusPool", totals.surplus)
           r == unwrapFor(k, "activePool", "TML", totals.gas)
<1>1. /\ "activePool" \in Accounts /\ "stabilityPool" \in Accounts /\ "defaultPool" \in Accounts
      /\ "collSurplusPool" \in Accounts /\ "TML" \in Accounts
  BY AccountsDiffer
<1>2. Rounding \in Int /\ 0 + 0 = 0 /\ 0 + Rounding = Rounding
  BY RoundingIs
<1>3. Books(o, 0, 0) /\ Loses(v, o, 0)
  BY <1>1, TransferBooks, TransferLoses
<1> HIDE DEF o
<1>4. Books(m, 0, 0) /\ Loses(o, m, 0)
  BY <1>1, <1>3, TransferBooks, TransferLoses
<1> HIDE DEF m
<1>5. Books(k, 0, 0) /\ Loses(m, k, 0)
  BY <1>1, <1>4, TransferBooks, TransferLoses
<1> HIDE DEF k
<1>6. Books(r, 0, 0) /\ Loses(k, r, Rounding)
  BY <1>1, <1>5, UnwrapForBooks, UnwrapForLoses
<1> HIDE DEF r
<1>7. Loses(v, m, 0)
  BY <1>2, <1>3, <1>4, LosesTwice DEF Books
<1>8. Loses(v, k, 0)
  BY <1>2, <1>4, <1>5, <1>7, LosesTwice DEF Books
<1>9. Loses(v, r, Rounding)
  BY <1>2, <1>5, <1>6, <1>8, LosesTwice DEF Books
<1> QED
  BY <1>9 DEF Settle, r, k, m, o

-----------------------------------------------------------------------------
(* A step of a transaction loses at most four units: a liquidation applies *)
(* the rewards of the trove, with two changes of owner, and splits them,   *)
(* with two more.                                                          *)

JoeGap == Gap(wjlp)

LEMMA CallsGap ==
  ASSUME BooksInv, BooksInv', NEW k \in 0..4, NEW v, Calls(v), Loses(wjlp, v, k * Rounding)
  PROVE  JoeGap' >= JoeGap - 4 * Rounding
<1>1. wjlp' = v /\ ~v.reverted
  BY DEF Calls
<1>2. Gap(wjlp) \in Int /\ Gap(v) \in Int
  <2>1. Fields(wjlp) /\ Fields(v)
    BY <1>1 DEF BooksInv, Books
  <2> QED
    BY <2>1, GapInt
<1>3. Rounding \in 0..1 /\ k * Rounding <= 4 * Rounding /\ k * Rounding \in Int
  <2>1. Rounding \in 0..1
    BY RoundingIs
  <2>2. CASE Rounding = 0
    BY <2>2
  <2>3. CASE Rounding = 1
    BY <2>3
  <2> QED
    BY <2>1, <2>2, <2>3
<1>4. Gap(v) >= Gap(wjlp) - k * Rounding
  BY <1>1 DEF Loses
<1>5. Gap(v) >= Gap(wjlp) - 4 * Rounding
  <2> DEFINE x == k * Rounding
  <2> HIDE DEF x
  <2>1. x <= 4 * Rounding /\ x \in Int /\ Gap(v) >= Gap(wjlp) - x
    BY <1>3, <1>4 DEF x
  <2> QED
    BY <1>2, <1>3, <2>1
<1> QED
  BY <1>1, <1>5 DEF JoeGap

\* A chain of two calls.
LEMMA ThenLoses ==
  ASSUME NEW v, NEW w, NEW r, Books(v, 0, 0), Books(w, 0, 0), Books(r, 0, 0),
         NEW j \in Nat, NEW k \in Nat,
         Loses(v, w, j * Rounding), Loses(w, r, k * Rounding)
  PROVE  Loses(v, r, (j + k) * Rounding)
<1>1. /\ j * Rounding \in Int /\ k * Rounding \in Int
      /\ j * Rounding + k * Rounding = (j + k) * Rounding
  <2>1. Rounding \in 0..1
    BY RoundingIs
  <2>2. CASE Rounding = 0
    BY <2>2
  <2>3. CASE Rounding = 1
    BY <2>3
  <2> QED
    BY <2>1, <2>2, <2>3
<1>2. Loses(v, r, j * Rounding + k * Rounding)
  BY <1>1, LosesTwice DEF Books
<1> QED
  BY <1>1, <1>2

LEMMA SmallFactors == 1 * Rounding = Rounding /\ 0 * Rounding = 0
BY RoundingIs

LEMMA UserGap ==
  ASSUME BooksInv, BooksInv', NEW u \in Users, UserNext(u)
  PROVE  JoeGap' >= JoeGap - 4 * Rounding
<1>1. /\ Books(wjlp, 0, 0) /\ u \in Accounts /\ pending[u] \in Nat
      /\ surplus[u] \in Nat /\ "activePool" \in Accounts /\ "collSurplusPool" \in Accounts
  BY AccountsDiffer DEF BooksInv, HeldTypes
<1>2. \A n \in Amounts : n \in Nat
  BY CollateralAssumption
<1>3. /\ 0 \in 0..4 /\ 1 \in 0..4 /\ 2 \in 0..4 /\ 3 \in 0..4
      /\ 1 \in Nat /\ 2 \in Nat /\ 1 + 2 = 3 /\ 2 + 1 = 3
  OBVIOUS
<1>4. ASSUME NEW n \in Amounts, Deposit(u, n) PROVE JoeGap' >= JoeGap - 4 * Rounding
  <2> DEFINE w == wrap(wjlp, n, "activePool", u)
             r == MovePending(w, u)
  <2>1. Books(w, 0, 0) /\ Loses(wjlp, w, 1 * Rounding)
    BY <1>1, <1>2, WrapBooks, WrapLoses, SmallFactors
  <2> HIDE DEF w
  <2>2. Books(r, 0, 0) /\ Loses(w, r, 2 * Rounding)
    BY <1>1, <2>1, MovePendingBooks, MovePendingLoses
  <2> HIDE DEF r
  <2>3. Loses(wjlp, r, (1 + 2) * Rounding)
    BY <1>1, <1>3, <2>1, <2>2, ThenLoses
  <2>4. Calls(r)
    BY <1>4 DEF Deposit, r, w
  <2> QED
    BY <1>3, <2>3, <2>4, CallsGap
<1>5. ASSUME NEW n \in Amounts, Withdraw(u, n) PROVE JoeGap' >= JoeGap - 4 * Rounding
  <2> DEFINE w == MovePending(wjlp, u)
             r == unwrapFor(w, "activePool", u, n)
  <2>1. Books(w, 0, 0) /\ Loses(wjlp, w, 2 * Rounding)
    BY <1>1, MovePendingBooks, MovePendingLoses
  <2> HIDE DEF w
  <2>2. Books(r, 0, 0) /\ Loses(w, r, 1 * Rounding)
    BY <1>1, <1>2, <2>1, UnwrapForBooks, UnwrapForLoses, SmallFactors
  <2> HIDE DEF r
  <2>3. Loses(wjlp, r, (2 + 1) * Rounding)
    BY <1>1, <1>3, <2>1, <2>2, ThenLoses
  <2>4. Calls(r)
    BY <1>5 DEF Withdraw, r, w
  <2> QED
    BY <1>3, <2>3, <2>4, CallsGap
<1>6. ASSUME NEW n \in Amounts, UnwrapOwn(u, n) PROVE JoeGap' >= JoeGap - 4 * Rounding
  <2>1. Loses(wjlp, unwrap(wjlp, u, n), 1 * Rounding)
    BY <1>1, <1>2, UnwrapLoses, SmallFactors
  <2> QED
    BY <1>3, <1>6, <2>1, CallsGap DEF UnwrapOwn
<1>7. ASSUME NEW n \in Amounts, NEW to \in Destinations, Transfer(u, to, n)
      PROVE  JoeGap' >= JoeGap - 4 * Rounding
  <2>1. to \in Accounts
    BY CollateralAssumption
  <2>2. Loses(wjlp, transfer(wjlp, u, to, n), 0 * Rounding)
    BY <1>1, <1>2, <2>1, TransferLoses, SmallFactors
  <2> QED
    BY <1>3, <1>7, <2>2, CallsGap DEF Transfer
<1>8. ASSUME ApplyPendingRewards(u) PROVE JoeGap' >= JoeGap - 4 * Rounding
  <2>1. Loses(wjlp, MovePending(wjlp, u), 2 * Rounding)
    BY <1>1, MovePendingLoses
  <2> QED
    BY <1>3, <1>8, <2>1, CallsGap DEF ApplyPendingRewards
<1>9. ASSUME ClaimReward(u) PROVE JoeGap' >= JoeGap - 4 * Rounding
  <2> DEFINE r == SendJoeReward(wjlp, u)
  <2>1. Calls(r)
    BY <1>9 DEF ClaimReward
  <2>2. Gap(r) >= Gap(wjlp) /\ ~wjlp.reverted
    BY <1>1, <2>1, SendGap DEF Calls, BooksInv
  <2>3. Gap(wjlp) \in Int
    BY <1>1, GapInt DEF Books
  <2> HIDE DEF r
  <2>4. Loses(wjlp, r, 0 * Rounding)
    BY <2>2, <2>3, SmallFactors DEF Loses
  <2> QED
    BY <1>3, <2>1, <2>4, CallsGap
<1>10. ASSUME ClaimSurplus(u) PROVE JoeGap' >= JoeGap - 4 * Rounding
  <2>1. Loses(wjlp, unwrapFor(wjlp, "collSurplusPool", u, surplus[u]), 1 * Rounding)
    BY <1>1, UnwrapForLoses, SmallFactors
  <2> QED
    BY <1>3, <1>10, <2>1, CallsGap DEF ClaimSurplus
<1> QED
  BY <1>4, <1>5, <1>6, <1>7, <1>8, <1>9, <1>10 DEF UserNext

LEMMA WrapOwnGap ==
  ASSUME BooksInv, BooksInv', NEW n \in Amounts, NEW to \in Destinations,
         NEW r \in RewardRecipients, WrapOwn(n, to, r)
  PROVE  JoeGap' >= JoeGap - 4 * Rounding
<1>1. /\ Books(wjlp, 0, 0) /\ n \in Nat /\ to \in Accounts /\ r \in Accounts
      /\ 1 \in 0..4
  BY CollateralAssumption DEF BooksInv
<1>2. Loses(wjlp, wrap(wjlp, n, to, r), 1 * Rounding)
  BY <1>1, WrapLoses, SmallFactors
<1> QED
  BY <1>1, <1>2, CallsGap DEF WrapOwn

LEMMA LiquidateTroveGap ==
  ASSUME BooksInv, BooksInv', NEW b \in Users, NEW capped \in 0..Entire(b),
         NEW toSP \in 0..Entire(b), LiquidateTrove(b, capped, toSP)
  PROVE  JoeGap' >= JoeGap - 4 * Rounding
<1> DEFINE gas == capped \div PERCENT_DIVISOR
           redist == capped - gas - toSP
           m == MovePending(wjlp, b)
           s == updateReward(m, b, "treasury", toSP + redist)
           r == updateReward(s, b, "TML", gas)
<1>1. /\ Books(wjlp, 0, 0) /\ b \in Accounts /\ pending[b] \in Nat /\ coll[b] \in Nat
      /\ "treasury" \in Accounts /\ "TML" \in Accounts
  BY AccountsDiffer DEF BooksInv, HeldTypes
<1>2. Entire(b) \in Nat
  BY <1>1 DEF Entire
<1>3. capped \in Nat /\ toSP \in Nat
  BY <1>2
<1>4. gas \in Nat
  BY <1>3, FloorFits, CollateralAssumption
<1>5. toSP + redist \in Nat
  <2>1. redist >= 0 /\ redist \in Int
    BY <1>3, <1>4 DEF LiquidateTrove
  <2> QED
    BY <1>3, <2>1
<1>6. Calls(r)
  BY DEF LiquidateTrove, SplitRewards
<1>7. Books(m, 0, 0) /\ Loses(wjlp, m, 2 * Rounding)
  BY <1>1, MovePendingBooks, MovePendingLoses
<1> HIDE DEF m, gas, redist
<1>8. Books(s, 0, 0) /\ Loses(m, s, 1 * Rounding)
  BY <1>1, <1>5, <1>7, UpdateRewardBooks, UpdateRewardLoses, SmallFactors
<1> HIDE DEF s
<1>9. Books(r, 0, 0) /\ Loses(s, r, 1 * Rounding)
  BY <1>1, <1>4, <1>8, UpdateRewardBooks, UpdateRewardLoses, SmallFactors
<1> HIDE DEF r
<1>10. 1 \in Nat /\ 2 \in Nat /\ 3 \in Nat /\ 2 + 1 = 3 /\ 3 + 1 = 4 /\ 4 \in 0..4
  OBVIOUS
<1>11. Loses(wjlp, s, (2 + 1) * Rounding)
  BY <1>1, <1>7, <1>8, <1>10, ThenLoses
<1>12. Loses(wjlp, s, 3 * Rounding)
  BY <1>10, <1>11
<1>13. Loses(wjlp, r, (3 + 1) * Rounding)
  BY <1>1, <1>8, <1>9, <1>10, <1>12, ThenLoses
<1>14. Loses(wjlp, r, 4 * Rounding)
  BY <1>10, <1>13
<1> QED
  BY <1>6, <1>10, <1>14, CallsGap

LEMMA RedeemGap ==
  ASSUME BooksInv, BooksInv', NEW b \in Users, NEW lot \in 0..Entire(b)
  PROVE  /\ \A closes \in BOOLEAN :
              RedeemFromTrove(b, lot, closes) \/ RedeemSingle(b, lot, closes)
                => JoeGap' >= JoeGap - 4 * Rounding
         /\ CancelPartial(b, lot) => JoeGap' >= JoeGap - 4 * Rounding
<1> DEFINE left == Entire(b) - lot
<1>1. /\ Books(wjlp, 0, 0) /\ b \in Accounts /\ pending[b] \in Nat /\ coll[b] \in Nat
      /\ "activePool" \in Accounts
  BY AccountsDiffer DEF BooksInv, HeldTypes
<1>2. Entire(b) \in Nat
  BY <1>1 DEF Entire
<1>3. lot \in Nat /\ left \in Nat
  BY <1>2
<1> HIDE DEF left
<1>4. /\ 0 \in Nat /\ 1 \in Nat /\ 2 \in Nat /\ 3 \in Nat
      /\ 3 + 0 = 3 /\ 2 + 0 = 2 /\ 2 + 1 = 3 /\ 3 \in 0..4
  OBVIOUS
<1>5. ASSUME NEW closes \in BOOLEAN, RedeemFromTrove(b, lot, closes)
      PROVE  JoeGap' >= JoeGap - 4 * Rounding
  <2> DEFINE t == Lot(wjlp, b, lot)
             c == Closing(t, left)
             r == IF closes THEN c ELSE t
  <2>1. Books(t, 0, 0) /\ Loses(wjlp, t, 3 * Rounding)
    BY <1>1, <1>3, LotBooks, LotLoses
  <2>2. Calls(r)
    BY <1>5 DEF RedeemFromTrove, left
  <2> HIDE DEF t
  <2>3. Books(c, 0, 0) /\ Loses(t, c, 0 * Rounding)
    BY <1>3, <2>1, ClosingBooks, ClosingLoses, SmallFactors
  <2> HIDE DEF c
  <2>4. Loses(wjlp, c, (3 + 0) * Rounding)
    BY <1>1, <1>4, <2>1, <2>3, ThenLoses
  <2>5. Loses(wjlp, r, 3 * Rounding)
    BY <1>4, <2>1, <2>4
  <2> QED
    BY <1>4, <2>2, <2>5, CallsGap
<1>6. ASSUME NEW closes \in BOOLEAN, RedeemSingle(b, lot, closes)
      PROVE  JoeGap' >= JoeGap - 4 * Rounding
  <2> DEFINE m == MovePending(wjlp, b)
             c == Closing(m, left)
             k == IF closes THEN c ELSE m
             r == unwrapFor(k, "activePool", b, lot)
  <2>1. Books(m, 0, 0) /\ Loses(wjlp, m, 2 * Rounding)
    BY <1>1, MovePendingBooks, MovePendingLoses
  <2>2. Calls(r)
    BY <1>6 DEF RedeemSingle, left
  <2> HIDE DEF m
  <2>3. Books(c, 0, 0) /\ Loses(m, c, 0 * Rounding)
    BY <1>3, <2>1, ClosingBooks, ClosingLoses, SmallFactors
  <2> HIDE DEF c
  <2>4. Loses(wjlp, c, (2 + 0) * Rounding)
    BY <1>1, <1>4, <2>1, <2>3, ThenLoses
  <2>5. Books(k, 0, 0) /\ Loses(wjlp, k, 2 * Rounding)
    BY <1>4, <2>1, <2>3, <2>4
  <2> HIDE DEF k
  <2>6. Books(r, 0, 0) /\ Loses(k, r, 1 * Rounding)
    BY <1>1, <1>3, <2>5, UnwrapForBooks, UnwrapForLoses, SmallFactors
  <2> HIDE DEF r
  <2>7. Loses(wjlp, r, (2 + 1) * Rounding)
    BY <1>1, <1>4, <2>5, <2>6, ThenLoses
  <2> QED
    BY <1>4, <2>2, <2>7, CallsGap
<1>7. ASSUME CancelPartial(b, lot) PROVE JoeGap' >= JoeGap - 4 * Rounding
  <2>1. Loses(wjlp, Lot(wjlp, b, lot), 3 * Rounding)
    BY <1>1, <1>3, LotLoses
  <2> QED
    BY <1>4, <1>7, <2>1, CallsGap DEF CancelPartial
<1> QED
  BY <1>5, <1>6, <1>7

LEMMA ClaimGainsGap ==
  ASSUME BooksInv, BooksInv', NEW n \in 1..gains, ClaimGains(n)
  PROVE  JoeGap' >= JoeGap - 4 * Rounding
<1> DEFINE m == updateReward(wjlp, "treasury", "stabilityPool", n)
           r == unwrapFor(m, "stabilityPool", "stabilityPool", n)
<1>1. /\ Books(wjlp, 0, 0) /\ gains \in Nat
      /\ "treasury" \in Accounts /\ "stabilityPool" \in Accounts
  BY AccountsDiffer DEF BooksInv, HeldTypes
<1>2. n \in Nat /\ 1 \in Nat /\ 1 + 1 = 2 /\ 2 \in 0..4
  BY <1>1
<1>3. Calls(r)
  BY DEF ClaimGains, SendGains
<1>4. Books(m, 0, 0) /\ Loses(wjlp, m, 1 * Rounding)
  BY <1>1, <1>2, UpdateRewardBooks, UpdateRewardLoses, SmallFactors
<1> HIDE DEF m
<1>5. Books(r, 0, 0) /\ Loses(m, r, 1 * Rounding)
  BY <1>1, <1>2, <1>4, UnwrapForBooks, UnwrapForLoses, SmallFactors
<1> HIDE DEF r
<1>6. Loses(wjlp, r, (1 + 1) * Rounding)
  BY <1>1, <1>2, <1>4, <1>5, ThenLoses
<1> QED
  BY <1>2, <1>3, <1>6, CallsGap

LEMMA FinishGap ==
  ASSUME BooksInv, BooksInv'
  PROVE  /\ FinishRedemption => JoeGap' >= JoeGap - 4 * Rounding
         /\ \A shares \in Shares(tx.redist) :
              FinishLiquidation(shares) => JoeGap' >= JoeGap - 4 * Rounding
<1>1. /\ Books(wjlp, 0, 0) /\ "activePool" \in Accounts /\ "TMR" \in Accounts
      /\ tx.drawn \in Nat /\ tx.toSP \in Nat /\ tx.redist \in Nat
      /\ tx.surplus \in Nat /\ tx.gas \in Nat /\ 1 \in 0..4
  BY AccountsDiffer DEF BooksInv, HeldTypes
<1>2. /\ Loses(wjlp, unwrapFor(wjlp, "activePool", "TMR", tx.drawn), 1 * Rounding)
      /\ Loses(wjlp, Settle(wjlp, tx), 1 * Rounding)
  BY <1>1, UnwrapForLoses, SettleLoses, SmallFactors
<1> QED
  BY <1>1, <1>2, CallsGap DEF FinishRedemption, FinishLiquidation

\* JOE that accrues is earned by the stake and, as exactly, by the shares.
LEMMA QuietStepGap ==
  ASSUME BooksInv, JoeAccrues \/ UNCHANGED vars
  PROVE  JoeGap' >= JoeGap - 4 * Rounding
<1>1. Fields(wjlp)
  BY DEF BooksInv, Books
<1>2. wjlp'.joe = wjlp.joe /\ wjlp'.chefDebt = wjlp.chefDebt /\ wjlp'.userInfo = wjlp.userInfo
  BY <1>1 DEF JoeAccrues, vars, Fields
<1>3. Gap(wjlp') = Gap(wjlp) /\ Gap(wjlp) \in Int
  BY <1>1, <1>2, QuietGap, GapInt
<1> QED
  BY <1>3, RoundingIs DEF JoeGap

LEMMA StepGap ==
  ASSUME BooksInv, BooksInv', [Next]_vars
  PROVE  JoeGap' >= JoeGap - 4 * Rounding
<1>1. CASE UNCHANGED vars \/ JoeAccrues
  BY <1>1, QuietStepGap
<1>2. ASSUME NEW b \in Users, TroveNext(b) PROVE JoeGap' >= JoeGap - 4 * Rounding
  <2>1. \A capped, toSP \in 0..Entire(b) :
          LiquidateTrove(b, capped, toSP) => JoeGap' >= JoeGap - 4 * Rounding
    BY LiquidateTroveGap
  <2>2. \A lot \in 0..Entire(b) :
          /\ \A closes \in BOOLEAN :
               RedeemFromTrove(b, lot, closes) \/ RedeemSingle(b, lot, closes)
                 => JoeGap' >= JoeGap - 4 * Rounding
          /\ CancelPartial(b, lot) => JoeGap' >= JoeGap - 4 * Rounding
    BY RedeemGap
  <2> QED
    BY <1>2, <2>1, <2>2 DEF TroveNext
<1>3. CASE Next /\ ~JoeAccrues
  BY <1>2, <1>3, UserGap, WrapOwnGap, ClaimGainsGap, FinishGap DEF Next
<1> QED
  BY <1>1, <1>3

\* Whatever changes hands, and in whatever order, a step of a transaction takes
\* from the JOE behind the claims of all accounts at most four units, the
\* roundings of the shares that it changes; none where nothing is rounded.
THEOREM RewardsLoseOnlyRounding == Spec => [][JoeGap' >= JoeGap - 4 * Rounding]_vars
<1>1. BooksInv /\ BooksInv' /\ [Next]_vars => [JoeGap' >= JoeGap - 4 * Rounding]_vars
  BY StepGap
<1> QED
  BY <1>1, InitBooks, StepKeepsBooks, PTL DEF Spec

-----------------------------------------------------------------------------
(* What the gap says of the claims: the shares that are staked now earn no *)
(* more than the stake, since each is rounded down by itself.              *)

LEMMA SharesEarnNoMore ==
  ASSUME NEW v, Fields(v), Signs(v), AmountSum(v) = v.staked
  PROVE  /\ SumFunctionOnSet([a \in Accounts |-> Earned(v, Amt(v, a))], Accounts)
              <= Earned(v, v.staked)
         /\ SumFunctionOnSet([a \in Accounts |-> Earned(v, Amt(v, a))], Accounts) \in Nat
<1> DEFINE p == v.accJoePerShare
           d == ACC_PRECISION
           f == [a \in Accounts |-> Amt(v, a)]
           e == [a \in Accounts |-> Earned(v, Amt(v, a))]
           g == [a \in Accounts |-> p * f[a]]
           h == [a \in Accounts |-> d * e[a]]
<1>1. p \in Nat /\ d \in Nat \ {0} /\ v.staked \in Nat
  BY WrapperAssumption DEF Fields, Signs
<1>2. \A a \in Accounts : f[a] \in Nat
  BY DEF Fields, Signs, Amt
<1>3. ASSUME NEW a \in Accounts
      PROVE  e[a] \in Nat /\ h[a] \in Nat /\ g[a] \in Nat /\ h[a] <= g[a]
  <2> DEFINE x == f[a] * p
  <2>1. x \in Nat /\ p * f[a] = x
    BY <1>1, <1>2, ProductNat, ProductTurns
  <2>2. e[a] = x \div d
    BY DEF Earned
  <2> HIDE DEF x, f, e
  <2>3. e[a] \in Nat /\ e[a] * d <= x
    BY <1>1, <2>1, <2>2, FloorFits
  <2>4. d * e[a] = e[a] * d /\ d * e[a] \in Nat
    BY <1>1, <2>3, ProductTurns, ProductNat
  <2> QED
    BY <2>1, <2>3, <2>4
<1>4. SumFunctionOnSet(f, Accounts) = v.staked
  BY DEF AmountSum, Amt
<1> DEFINE E == SumFunctionOnSet(e, Accounts)
<1> HIDE DEF f, e, p
<1>5. /\ SumFunctionOnSet(g, Accounts) = p * v.staked
      /\ SumFunctionOnSet(h, Accounts) = d * E
  <2>1. \A a \in Accounts : f[a] \in Int /\ g[a] = p * f[a]
    BY <1>2
  <2>2. \A a \in Accounts : e[a] \in Int /\ h[a] = d * e[a]
    BY <1>3
  <2> HIDE DEF g, h
  <2>3. p \in Int /\ d \in Int
    BY <1>1
  <2> QED
    BY <1>4, <2>1, <2>2, <2>3, SumScaled, FiniteAccounts
<1>6. SumFunctionOnSet(h, Accounts) <= SumFunctionOnSet(g, Accounts)
  <2> HIDE DEF g, h
  <2> QED
    BY <1>3, SumMonotone, FiniteAccounts
<1>7. E \in Nat
  BY <1>3, SumNat, FiniteAccounts
<1> HIDE DEF E
<1>8. E * d <= v.staked * p /\ v.staked * p \in Nat
  BY <1>1, <1>5, <1>6, <1>7, ProductTurns, ProductNat
<1>9. E <= (v.staked * p) \div d
  BY <1>1, <1>7, <1>8, FloorGreatest
<1> QED
  BY <1>7, <1>9 DEF Earned, E, e, p

(* What all accounts may claim now, and the JOE there is for it.           *)
Claims == TotalOf(LAMBDA a : getPendingRewards(wjlp, a))
JoeThere == wjlp.joe + ChefPending(wjlp)

LEMMA GapMeaning ==
  ASSUME BooksInv
  PROVE  Claims <= JoeThere - JoeGap /\ Claims \in Int /\ JoeThere \in Int /\ JoeGap \in Int
<1> DEFINE f == [a \in Accounts |-> getPendingRewards(wjlp, a)]
           e == [a \in Accounts |-> Earned(wjlp, Amt(wjlp, a))]
           g == ClaimOf(wjlp)
           claims == SumFunctionOnSet(f, Accounts)
           earned == SumFunctionOnSet(e, Accounts)
           owed == SumFunctionOnSet(g, Accounts)
<1>1. /\ Fields(wjlp) /\ Signs(wjlp) /\ AmountSum(wjlp) = wjlp.staked
      /\ wjlp.joe \in Int /\ wjlp.chefDebt \in Int /\ wjlp.staked \in Int
      /\ wjlp.accJoePerShare \in Nat
  BY DEF BooksInv, Books, Fields
<1>2. earned <= Earned(wjlp, wjlp.staked) /\ earned \in Nat
  BY <1>1, SharesEarnNoMore
<1>3. Earned(wjlp, wjlp.staked) \in Int
  BY <1>1, EarnedInt
<1>4. \A a \in Accounts : e[a] \in Int /\ g[a] \in Int /\ f[a] = e[a] + g[a]
  <2> SUFFICES ASSUME NEW a \in Accounts
               PROVE  e[a] \in Int /\ g[a] \in Int /\ f[a] = e[a] + g[a]
    OBVIOUS
  <2> DEFINE x == Earned(wjlp, Amt(wjlp, a))
             y == wjlp.userInfo[a].unclaimedJOEReward
             z == wjlp.userInfo[a].rewardDebt
  <2>1. x \in Int /\ y \in Int /\ z \in Int
    <3>1. Amt(wjlp, a) \in Int /\ y \in Int /\ z \in Int
      BY <1>1 DEF Fields, Amt
    <3> QED
      BY <1>1, <3>1, EarnedInt
  <2>2. e[a] = x /\ g[a] = y - z /\ f[a] = y + (x - z)
    BY DEF ClaimOf, getPendingRewards, Pending, Amt
  <2> HIDE DEF x, y, z, e, g, f
  <2> QED
    BY <2>1, <2>2
<1>5. claims = earned + owed
  <2> HIDE DEF e, g, f
  <2> QED
    BY <1>4, SumPlus, FiniteAccounts
<1>6. owed \in Int
  BY <1>1, GapInt
<1>7. Claims = claims
  BY DEF Claims, TotalOf, SumFunction
<1>8. JoeGap = wjlp.joe - wjlp.chefDebt - owed
  BY DEF JoeGap, Gap
<1> HIDE DEF claims, earned, owed
<1> QED
  BY <1>1, <1>2, <1>3, <1>5, <1>6, <1>7, <1>8 DEF ChefPending, JoeThere

LEMMA InitGap == Init => JoeGap = 0
<1> SUFFICES ASSUME Init PROVE JoeGap = 0
  OBVIOUS
<1>1. /\ wjlp.joe = 0 /\ wjlp.chefDebt = 0
      /\ \A a \in Accounts : wjlp.userInfo[a] = NoInfo
  BY DEF Init, Deployed
<1>2. \A a \in Accounts : ClaimOf(wjlp)[a] = 0
  BY <1>1 DEF ClaimOf, NoInfo
<1>3. SumFunctionOnSet(ClaimOf(wjlp), Accounts) = 0
  BY <1>2, SumZero, FiniteAccounts
<1> QED
  BY <1>1, <1>3 DEF JoeGap, Gap

\* The accounts may together claim more JOE than there is by what the steps so
\* far have lost, which is how much JoeGap is below zero, and by no more.
THEOREM ShortfallIsRounding == Spec => [](Claims <= JoeThere - JoeGap)
<1>1. BooksInv => Claims <= JoeThere - JoeGap
  BY GapMeaning
<1> QED
  BY <1>1, InitBooks, StepKeepsBooks, PTL DEF Spec

(* The steps of transactions so far, counted beside the specification.     *)
VARIABLE steps

CountedSpec ==
  Init /\ steps = 0 /\ [][Next /\ steps' = steps + 1]_<<vars, steps>>

LossBounded == steps \in Nat /\ JoeGap >= -(4 * Rounding * steps)

LEMMA StepLoses ==
  ASSUME BooksInv, BooksInv', LossBounded, [Next /\ steps' = steps + 1]_<<vars, steps>>
  PROVE  LossBounded'
<1>1. JoeGap \in Int /\ JoeGap' \in Int
  BY GapInt DEF BooksInv, Books, JoeGap
<1>2. Rounding \in 0..1 /\ steps \in Nat /\ JoeGap >= -(4 * Rounding * steps)
  BY RoundingIs DEF LossBounded
<1>3. CASE Next /\ steps' = steps + 1
  <2>1. JoeGap' >= JoeGap - 4 * Rounding
    BY <1>3, StepGap
  <2>2. JoeGap' >= -(4 * Rounding * (steps + 1))
    <3>1. CASE Rounding = 0
      BY <1>1, <1>2, <2>1, <3>1
    <3>2. CASE Rounding = 1
      BY <1>1, <1>2, <2>1, <3>2
    <3> QED
      BY <1>2, <3>1, <3>2
  <2>3. Rounding' = Rounding
    BY DEF Rounding
  <2> QED
    BY <1>2, <1>3, <2>2, <2>3 DEF LossBounded
<1>4. CASE UNCHANGED <<vars, steps>>
  <2>1. wjlp' = wjlp /\ steps' = steps
    BY <1>4 DEF vars
  <2> QED
    BY <1>2, <2>1 DEF LossBounded, JoeGap, Gap, ClaimOf, Rounding
<1> QED
  BY <1>3, <1>4

LEMMA LossCovers ==
  ASSUME BooksInv, LossBounded
  PROVE  JoeCoversAllBut(4 * Rounding * steps)
<1>1. /\ Claims <= JoeThere - JoeGap /\ Claims \in Int /\ JoeThere \in Int
      /\ JoeGap \in Int
  BY GapMeaning
<1> DEFINE n == 4 * Rounding * steps
<1>2. n \in Int /\ JoeGap >= -n
  <2>1. Rounding \in 0..1 /\ steps \in Nat
    BY RoundingIs DEF LossBounded
  <2>2. n \in Int
    <3>1. CASE Rounding = 0
      BY <2>1, <3>1
    <3>2. CASE Rounding = 1
      BY <2>1, <3>2
    <3> QED
      BY <2>1, <3>1, <3>2
  <2> QED
    BY <2>2 DEF LossBounded
<1> HIDE DEF n
<1>3. Claims <= JoeThere + n
  BY <1>1, <1>2
<1> QED
  BY <1>3 DEF JoeCoversAllBut, Claims, JoeThere, n

(* For any ACC_PRECISION: what all accounts may claim of JOE together is   *)
(* never more than the contract has or would harvest and four units for    *)
(* each step of a transaction so far, however the shares change hands; no  *)
(* reward is paid twice (WJLP.sol:290-343).                                *)
THEOREM JoeAlwaysCoversRewards == CountedSpec => []JoeCoversAllBut(4 * Rounding * steps)
<1>1. Init /\ steps = 0 => LossBounded
  <2> SUFFICES ASSUME Init, steps = 0 PROVE LossBounded
    OBVIOUS
  <2>1. 4 * Rounding * 0 = 0
    BY RoundingIs
  <2> QED
    BY <2>1, InitGap DEF LossBounded
<1>2. [Next /\ steps' = steps + 1]_<<vars, steps>> => [Next]_vars
  OBVIOUS
<1>3. CountedSpec => []BooksInv
  BY <1>2, InitBooks, StepKeepsBooks, PTL DEF CountedSpec
<1>4. BooksInv /\ BooksInv' /\ LossBounded /\ [Next /\ steps' = steps + 1]_<<vars, steps>>
        => LossBounded'
  BY StepLoses
<1>5. BooksInv /\ LossBounded => JoeCoversAllBut(4 * Rounding * steps)
  BY LossCovers
<1> QED
  BY <1>1, <1>3, <1>4, <1>5, PTL DEF CountedSpec
=============================================================================
