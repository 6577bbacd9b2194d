------------------------ MODULE TroveRegistryProofs -------------------------
(***************************************************************************)
(* For every set of owners, every ICR and every size of the list: the      *)
(* TroveOwners array and the list of SortedTroves both hold exactly the    *)
(* open troves, the search finds a valid place whatever the hints, and     *)
(* each call does to the list what SortedList promises.                    *)
(*                                                                         *)
(* The argument has three parts.  The array is on its own (OwnersInv): its *)
(* indices depend neither on the hints nor on the order of the list.  The  *)
(* pointers of the list are those that a ranking determines (IsList), and  *)
(* each assignment to them is an insertion into the ranking or a removal   *)
(* from it (InsertedList, RemovedList).  The search is a recursion along   *)
(* the pointers, whose existence is shown by exhibiting its result for a   *)
(* ranking (ScanUp, ScanDown) and whose result is a valid place because a  *)
(* last trove that it passes cannot be passed (DescentLands, AscentLands). *)
(***************************************************************************)
EXTENDS TroveRegistry, CommonTheorems

-----------------------------------------------------------------------------
(* The array.                                                              *)

OwnersTypeOK ==
  /\ TroveOwners \in Seq(Ids)
  /\ arrayIndex \in [Ids -> Nat]
  /\ open \subseteq Ids

OwnersInv == OwnersTypeOK /\ OwnersIndexed

(* Initially the array is empty.                                           *)
LEMMA OwnersInit == Init => OwnersInv
  BY DEF Init, OwnersInv, OwnersTypeOK, OwnersIndexed

(* Appending an owner that is not open keeps every index.                  *)
LEMMA OwnersOpen ==
  ASSUME NEW id \in Ids, NEW icr, NEW p, NEW n, OwnersInv, OpenTrove(id, icr, p, n)
  PROVE  OwnersInv'
<1>1. /\ id \notin open
      /\ TroveOwners' = Append(TroveOwners, id)
      /\ arrayIndex' = [arrayIndex EXCEPT ![id] = Len(TroveOwners)]
      /\ open' = open \cup {id}
  BY DEF OpenTrove
<1>2. OwnersTypeOK'
  BY <1>1 DEF OwnersInv, OwnersTypeOK
<1>3. /\ Len(TroveOwners') = Len(TroveOwners) + 1
      /\ TroveOwners'[Len(TroveOwners) + 1] = id
      /\ \A i \in 1..Len(TroveOwners) : TroveOwners'[i] = TroveOwners[i]
      /\ Len(TroveOwners) \in Nat
  BY <1>1 DEF OwnersInv, OwnersTypeOK
<1>4. \A i \in 1..Len(TroveOwners') :
        TroveOwners'[i] \in open' /\ arrayIndex'[TroveOwners'[i]] = i - 1
  <2> SUFFICES ASSUME NEW i \in 1..Len(TroveOwners')
               PROVE  TroveOwners'[i] \in open' /\ arrayIndex'[TroveOwners'[i]] = i - 1
    OBVIOUS
  <2>1. CASE i = Len(TroveOwners) + 1
    BY <2>1, <1>1, <1>3 DEF OwnersInv, OwnersTypeOK
  <2>2. CASE i \in 1..Len(TroveOwners)
    BY <2>2, <1>1, <1>3 DEF OwnersInv, OwnersTypeOK, OwnersIndexed
  <2> QED BY <2>1, <2>2, <1>3
<1>5. \A b \in open' :
        arrayIndex'[b] < Len(TroveOwners') /\ TroveOwners'[arrayIndex'[b] + 1] = b
  <2> SUFFICES ASSUME NEW b \in open'
               PROVE  arrayIndex'[b] < Len(TroveOwners') /\ TroveOwners'[arrayIndex'[b] + 1] = b
    OBVIOUS
  <2>1. CASE b = id
    BY <2>1, <1>1, <1>3 DEF OwnersInv, OwnersTypeOK
  <2>2. CASE b # id
    <3>1. b \in open /\ arrayIndex'[b] = arrayIndex[b] /\ arrayIndex[b] \in Nat
      BY <2>2, <1>1 DEF OwnersInv, OwnersTypeOK
    <3>2. arrayIndex[b] < Len(TroveOwners) /\ TroveOwners[arrayIndex[b] + 1] = b
      BY <3>1 DEF OwnersInv, OwnersIndexed
    <3> QED BY <3>1, <3>2, <1>3
  <2> QED BY <2>1, <2>2
<1> QED BY <1>2, <1>4, <1>5 DEF OwnersInv, OwnersIndexed

(* The last owner takes the place of the one that leaves, with its index.  *)
LEMMA OwnersClose ==
  ASSUME NEW id \in Ids, OwnersInv, CloseTrove(id)
  PROVE  OwnersInv'
<1> DEFINE L == Len(TroveOwners)
           k == arrayIndex[id] + 1
           last == TroveOwners[L]
<1>1. /\ id \in open
      /\ L > 1
      /\ TroveOwners' = SubSeq([TroveOwners EXCEPT ![k] = last], 1, L - 1)
      /\ arrayIndex' = [arrayIndex EXCEPT ![last] = arrayIndex[id]]
      /\ open' = open \ {id}
  BY DEF CloseTrove, RemoveTroveOwner, MoveInto
<1>2. /\ L \in Nat /\ k \in 1..L
      /\ TroveOwners[k] = id
      /\ last \in open /\ last \in Ids /\ arrayIndex[last] = L - 1
  BY <1>1 DEF OwnersInv, OwnersTypeOK, OwnersIndexed
<1>3. /\ Len(TroveOwners') = L - 1
      /\ TroveOwners' \in Seq(Ids)
      /\ \A i \in 1..(L - 1) : TroveOwners'[i] = IF i = k THEN last ELSE TroveOwners[i]
  <2> DEFINE s == [TroveOwners EXCEPT ![k] = last]
  <2>1. s \in Seq(Ids) /\ Len(s) = L
    BY <1>2 DEF OwnersInv, OwnersTypeOK
  <2>2. \A i \in 1..L : s[i] = IF i = k THEN last ELSE TroveOwners[i]
    BY <1>2 DEF OwnersInv, OwnersTypeOK
  <2>3. TroveOwners' = SubSeq(s, 1, L - 1)
    BY <1>1
  <2> HIDE DEF s
  <2> QED BY <1>1, <1>2, <2>1, <2>2, <2>3
<1>4. OwnersTypeOK'
  BY <1>1, <1>2, <1>3 DEF OwnersInv, OwnersTypeOK
<1>5. \A i \in 1..L : TroveOwners[i] \in open /\ arrayIndex[TroveOwners[i]] = i - 1
  BY DEF OwnersInv, OwnersIndexed
<1>6. \A b \in open : /\ arrayIndex[b] \in Nat /\ arrayIndex[b] < L
                      /\ TroveOwners[arrayIndex[b] + 1] = b
  BY DEF OwnersInv, OwnersTypeOK, OwnersIndexed
<1>7. \A b \in Ids : arrayIndex'[b] = IF b = last THEN k - 1 ELSE arrayIndex[b]
  BY <1>1, <1>2 DEF OwnersInv, OwnersTypeOK
<1> HIDE DEF L, k, last
<1>8. \A i \in 1..Len(TroveOwners') :
        TroveOwners'[i] \in open' /\ arrayIndex'[TroveOwners'[i]] = i - 1
  <2> SUFFICES ASSUME NEW i \in 1..(L - 1)
               PROVE  TroveOwners'[i] \in open' /\ arrayIndex'[TroveOwners'[i]] = i - 1
    BY <1>3
  <2>1. CASE i = k
    <3>1. TroveOwners'[i] = last BY <2>1, <1>3
    <3>2. last # id BY <2>1, <1>2, <1>5 DEF last, k
    <3> QED BY <2>1, <3>1, <3>2, <1>1, <1>2, <1>7
  <2>2. CASE i # k
    <3>1. TroveOwners'[i] = TroveOwners[i] BY <2>2, <1>3
    <3>2. i \in 1..L /\ i \in Nat BY <1>2
    <3>3. TroveOwners[i] \in open /\ arrayIndex[TroveOwners[i]] = i - 1 BY <3>2, <1>5
    <3>4. TroveOwners[i] # id BY <2>2, <3>2, <3>3 DEF k
    <3>5. TroveOwners[i] # last BY <1>2, <3>2, <3>3
    <3>6. TroveOwners[i] \in Ids BY <3>3 DEF OwnersInv, OwnersTypeOK
    <3> QED BY <3>1, <3>3, <3>4, <3>5, <3>6, <1>1, <1>7
  <2> QED BY <2>1, <2>2
<1>9. \A b \in open' :
        arrayIndex'[b] < Len(TroveOwners') /\ TroveOwners'[arrayIndex'[b] + 1] = b
  <2> SUFFICES ASSUME NEW b \in open, b # id
               PROVE  arrayIndex'[b] < L - 1 /\ TroveOwners'[arrayIndex'[b] + 1] = b
    BY <1>1, <1>3
  <2>0. b \in Ids BY DEF OwnersInv, OwnersTypeOK
  <2>1. CASE b = last
    <3>1. k # L BY <2>1, <1>2 DEF last
    <3>2. arrayIndex'[b] = k - 1 BY <2>0, <2>1, <1>7
    <3>3. k \in 1..(L - 1) /\ k \in Nat BY <3>1, <1>2
    <3>4. TroveOwners'[k] = last BY <3>3, <1>3
    <3>5. k - 1 + 1 = k /\ k - 1 < L - 1 BY <3>3, <1>2
    <3> QED BY <2>1, <3>2, <3>4, <3>5
  <2>2. CASE b # last
    <3> DEFINE j == arrayIndex[b]
    <3>1. arrayIndex'[b] = j BY <2>0, <2>2, <1>7
    <3>2. j \in Nat /\ j < L /\ TroveOwners[j + 1] = b BY <1>6
    <3>3. j + 1 # L BY <2>2, <3>2 DEF last
    <3>4. j + 1 # k BY <3>2, <1>2
    <3> HIDE DEF j
    <3>5. j + 1 \in 1..(L - 1) /\ j < L - 1 BY <3>2, <3>3, <1>2
    <3> QED BY <3>1, <3>2, <3>4, <3>5, <1>3
  <2> QED BY <2>1, <2>2
<1> QED BY <1>4, <1>8, <1>9 DEF OwnersInv, OwnersIndexed

(* TroveManager's array holds every open trove once, at the index its trove *)
(* records, for every number of owners and every order of closing.          *)
THEOREM OwnersAlwaysIndexed == Spec => []OwnersIndexed
<1>1. Init => OwnersInv
  BY OwnersInit
<1>2. OwnersInv /\ [Next]_vars => OwnersInv'
  <2> SUFFICES ASSUME OwnersInv, [Next]_vars PROVE OwnersInv'
    OBVIOUS
  <2>1. CASE UNCHANGED vars
    BY <2>1 DEF vars, OwnersInv, OwnersTypeOK, OwnersIndexed
  <2>2. ASSUME NEW id \in Ids, CloseTrove(id) PROVE OwnersInv'
    BY <2>2, OwnersClose
  <2>3. ASSUME NEW id \in Ids, NEW icr \in ICRs, NEW p \in Addresses, NEW n \in Addresses,
               OpenTrove(id, icr, p, n)
        PROVE  OwnersInv'
    BY <2>3, OwnersOpen
  <2>4. ASSUME NEW id \in Ids, NEW icr \in ICRs, NEW p \in Addresses, NEW n \in Addresses,
               UpdateTrove(id, icr, p, n)
        PROVE  OwnersInv'
    BY <2>4 DEF UpdateTrove, OwnersInv, OwnersTypeOK, OwnersIndexed
  <2> QED BY <2>1, <2>2, <2>3, <2>4 DEF Next
<1>3. OwnersInv => OwnersIndexed
  BY DEF OwnersInv
<1> QED BY <1>1, <1>2, <1>3, PTL DEF Spec
-----------------------------------------------------------------------------
(* The storage of SortedTroves, one assignment after the other.            *)

Nodes == [exists : BOOLEAN, nextId : Addresses, prevId : Addresses, oldICR : ICRs]
Lists == [head : Addresses, tail : Addresses, size : Nat, nodes : [Addresses -> Nodes]]

\* e differs from d only in the node of a.
SameBut(d, e, a) ==
  /\ e.head = d.head /\ e.tail = d.tail /\ e.size = d.size
  /\ \A b \in Addresses \ {a} : e.nodes[b] = d.nodes[b]

SetNext(d, a, v) == [d EXCEPT !.nodes[a].nextId = v]
SetPrev(d, a, v) == [d EXCEPT !.nodes[a].prevId = v]

\* e is d once the link of a is v.
NextIsSet(e, d, a, v) ==
  /\ e \in Lists
  /\ SameBut(d, e, a)
  /\ e.nodes[a].nextId = v
  /\ e.nodes[a].prevId = d.nodes[a].prevId
  /\ e.nodes[a].exists = d.nodes[a].exists
  /\ e.nodes[a].oldICR = d.nodes[a].oldICR

PrevIsSet(e, d, a, v) ==
  /\ e \in Lists
  /\ SameBut(d, e, a)
  /\ e.nodes[a].prevId = v
  /\ e.nodes[a].nextId = d.nodes[a].nextId
  /\ e.nodes[a].exists = d.nodes[a].exists
  /\ e.nodes[a].oldICR = d.nodes[a].oldICR

LEMMA SetNextIs ==
  ASSUME NEW d \in Lists, NEW a \in Addresses, NEW v \in Addresses
  PROVE  NextIsSet(SetNext(d, a, v), d, a, v)
<1> DEFINE e == SetNext(d, a, v)
           node == [d.nodes[a] EXCEPT !.nextId = v]
           nodes == [d.nodes EXCEPT ![a] = node]
<1>1. e = [d EXCEPT !.nodes = nodes]
  BY DEF SetNext
<1>2. d.nodes[a] \in Nodes
  BY DEF Lists
<1>3. /\ node \in Nodes
      /\ node.nextId = v
      /\ node.prevId = d.nodes[a].prevId
      /\ node.exists = d.nodes[a].exists
      /\ node.oldICR = d.nodes[a].oldICR
  BY <1>2 DEF Nodes
<1> HIDE DEF node
<1>4. /\ nodes \in [Addresses -> Nodes]
      /\ nodes[a] = node
      /\ \A b \in Addresses \ {a} : nodes[b] = d.nodes[b]
  BY <1>3 DEF Lists
<1> HIDE DEF nodes, e
<1>5. e \in Lists /\ e.nodes = nodes /\ e.head = d.head /\ e.tail = d.tail /\ e.size = d.size
  BY <1>1, <1>4 DEF Lists
<1>6. NextIsSet(e, d, a, v)
  BY <1>3, <1>4, <1>5 DEF SameBut, NextIsSet
<1> QED
  BY <1>6 DEF e

LEMMA SetPrevIs ==
  ASSUME NEW d \in Lists, NEW a \in Addresses, NEW v \in Addresses
  PROVE  PrevIsSet(SetPrev(d, a, v), d, a, v)
<1> DEFINE e == SetPrev(d, a, v)
           node == [d.nodes[a] EXCEPT !.prevId = v]
           nodes == [d.nodes EXCEPT ![a] = node]
<1>1. e = [d EXCEPT !.nodes = nodes]
  BY DEF SetPrev
<1>2. d.nodes[a] \in Nodes
  BY DEF Lists
<1>3. /\ node \in Nodes
      /\ node.prevId = v
      /\ node.nextId = d.nodes[a].nextId
      /\ node.exists = d.nodes[a].exists
      /\ node.oldICR = d.nodes[a].oldICR
  BY <1>2 DEF Nodes
<1> HIDE DEF node
<1>4. /\ nodes \in [Addresses -> Nodes]
      /\ nodes[a] = node
      /\ \A b \in Addresses \ {a} : nodes[b] = d.nodes[b]
  BY <1>3 DEF Lists
<1> HIDE DEF nodes, e
<1>5. e \in Lists /\ e.nodes = nodes /\ e.head = d.head /\ e.tail = d.tail /\ e.size = d.size
  BY <1>1, <1>4 DEF Lists
<1>6. PrevIsSet(e, d, a, v)
  BY <1>3, <1>4, <1>5 DEF SameBut, PrevIsSet
<1> QED
  BY <1>6 DEF e

\* e is d with the trove id put between p and n.
IsLinked(e, d, id, p, n) ==
  /\ e \in Lists
  /\ e.head = IF p = Null THEN id ELSE d.head
  /\ e.tail = IF n = Null THEN id ELSE d.tail
  /\ e.size = d.size
  /\ e.nodes[id].nextId = n /\ e.nodes[id].prevId = p
  /\ \A a \in Addresses \ {id} :
       /\ e.nodes[a].exists = d.nodes[a].exists
       /\ e.nodes[a].oldICR = d.nodes[a].oldICR
       /\ e.nodes[a].nextId = IF a = p /\ p # Null THEN id ELSE d.nodes[a].nextId
       /\ e.nodes[a].prevId = IF a = n /\ n # Null THEN id ELSE d.nodes[a].prevId

\* Each branch of _insert links id between p and n, provided p and n are
\* neighbours or ends of the list.
LEMMA LinkedIs ==
  ASSUME NEW d \in Lists, NEW id \in Ids, NEW p \in Addresses, NEW n \in Addresses,
         d.nodes[id] = EmptyNode, p # id, n # id, p = n => p = Null,
         p = Null => d.head = n, n = Null => d.tail = p
  PROVE  IsLinked(Linked(d, id, p, n), d, id, p, n)
<1> DEFINE e == Linked(d, id, p, n)
<1>0. id \in Addresses /\ Null \in Addresses /\ id # Null
  BY NullIsNoId DEF Addresses
<1>a. d.nodes[id].nextId = Null /\ d.nodes[id].prevId = Null
  BY DEF EmptyNode
<1>b. d.head \in Addresses /\ d.tail \in Addresses
  BY DEF Lists
<1>1. CASE p = Null /\ n = Null
  <2>1. e = [d EXCEPT !.head = id, !.tail = id]
    BY <1>1 DEF Linked
  <2> HIDE DEF e
  <2>2. e \in Lists /\ e.head = id /\ e.tail = id /\ e.size = d.size /\ e.nodes = d.nodes
    BY <1>0, <2>1 DEF Lists
  <2> QED
    BY <1>1, <1>a, <2>2 DEF IsLinked, e
<1>2. CASE p = Null /\ n # Null
  <2> DEFINE d1 == SetNext(d, id, n)
             d2 == SetPrev(d1, n, id)
  <2>1. e = [d EXCEPT !.nodes[id].nextId = d.head, !.nodes[d.head].prevId = id, !.head = id]
    BY <1>2 DEF Linked
  <2>2. e = [d2 EXCEPT !.head = id]
    BY <1>2, <2>1 DEF SetNext, SetPrev
  <2>3. NextIsSet(d1, d, id, n)
    BY <1>0, SetNextIs
  <2> HIDE DEF d1
  <2>4. PrevIsSet(d2, d1, n, id)
    BY <1>0, <2>3, SetPrevIs DEF NextIsSet
  <2> HIDE DEF d2, e
  <2>5. e \in Lists /\ e.head = id /\ e.tail = d2.tail /\ e.size = d2.size /\ e.nodes = d2.nodes
    BY <1>0, <2>2, <2>4 DEF Lists, PrevIsSet
  <2>6. IsLinked(e, d, id, p, n)
    BY <1>0, <1>2, <1>a, <2>3, <2>4, <2>5 DEF IsLinked, SameBut, NextIsSet, PrevIsSet
  <2> QED
    BY <2>6 DEF e
<1>3. CASE p # Null /\ n = Null
  <2> DEFINE d1 == SetPrev(d, id, p)
             d2 == SetNext(d1, p, id)
  <2>1. e = [d EXCEPT !.nodes[id].prevId = d.tail, !.nodes[d.tail].nextId = id, !.tail = id]
    BY <1>3 DEF Linked
  <2>2. e = [d2 EXCEPT !.tail = id]
    BY <1>3, <2>1 DEF SetNext, SetPrev
  <2>3. PrevIsSet(d1, d, id, p)
    BY <1>0, SetPrevIs
  <2> HIDE DEF d1
  <2>4. NextIsSet(d2, d1, p, id)
    BY <1>0, <2>3, SetNextIs DEF PrevIsSet
  <2> HIDE DEF d2, e
  <2>5. e \in Lists /\ e.tail = id /\ e.head = d2.head /\ e.size = d2.size /\ e.nodes = d2.nodes
    BY <1>0, <2>2, <2>4 DEF Lists, NextIsSet
  <2>6. IsLinked(e, d, id, p, n)
    BY <1>0, <1>3, <1>a, <2>3, <2>4, <2>5 DEF IsLinked, SameBut, NextIsSet, PrevIsSet
  <2> QED
    BY <2>6 DEF e
<1>4. CASE p # Null /\ n # Null
  <2> DEFINE d1 == SetNext(d, id, n)
             d2 == SetPrev(d1, id, p)
             d3 == SetNext(d2, p, id)
             d4 == SetPrev(d3, n, id)
  <2>1. e = [d EXCEPT !.nodes[id].nextId = n, !.nodes[id].prevId = p,
                      !.nodes[p].nextId = id, !.nodes[n].prevId = id]
    BY <1>4 DEF Linked
  <2>2. e = d4
    BY <2>1 DEF SetNext, SetPrev
  <2>3. NextIsSet(d1, d, id, n)
    BY <1>0, SetNextIs
  <2> HIDE DEF d1
  <2>4. PrevIsSet(d2, d1, id, p)
    BY <1>0, <2>3, SetPrevIs DEF NextIsSet
  <2> HIDE DEF d2
  <2>5. NextIsSet(d3, d2, p, id)
    BY <1>0, <2>4, SetNextIs DEF PrevIsSet
  <2> HIDE DEF d3
  <2>6. PrevIsSet(d4, d3, n, id)
    BY <1>0, <2>5, SetPrevIs DEF NextIsSet
  <2> HIDE DEF d4, e
  <2>7. IsLinked(e, d, id, p, n)
    BY <1>0, <1>4, <2>2, <2>3, <2>4, <2>5, <2>6 DEF IsLinked, SameBut, NextIsSet, PrevIsSet
  <2> QED
    BY <2>7 DEF e
<1> QED
  BY <1>1, <1>2, <1>3, <1>4

(* What _insert writes besides the links.                                  *)
Recorded(d, id, icr) == [d EXCEPT !.nodes[id].exists = TRUE, !.nodes[id].oldICR = icr, !.size = @ + 1]

IsRecorded(e, d, id, icr) ==
  /\ e \in Lists
  /\ e.head = d.head /\ e.tail = d.tail /\ e.size = d.size + 1
  /\ e.nodes[id].exists = TRUE
  /\ e.nodes[id].oldICR = icr
  /\ e.nodes[id].nextId = d.nodes[id].nextId
  /\ e.nodes[id].prevId = d.nodes[id].prevId
  /\ \A b \in Addresses \ {id} : e.nodes[b] = d.nodes[b]

LEMMA RecordedIs ==
  ASSUME NEW d \in Lists, NEW id \in Addresses, NEW icr \in ICRs
  PROVE  IsRecorded(Recorded(d, id, icr), d, id, icr)
<1> DEFINE e == Recorded(d, id, icr)
           node == [d.nodes[id] EXCEPT !.exists = TRUE, !.oldICR = icr]
           nodes == [d.nodes EXCEPT ![id] = node]
<1>1. e = [d EXCEPT !.nodes = nodes, !.size = @ + 1]
  BY DEF Recorded
<1>2. d.nodes[id] \in Nodes
  BY DEF Lists
<1>3. /\ node \in Nodes
      /\ node.exists = TRUE
      /\ node.oldICR = icr
      /\ node.nextId = d.nodes[id].nextId
      /\ node.prevId = d.nodes[id].prevId
  BY <1>2 DEF Nodes
<1> HIDE DEF node
<1>4. /\ nodes \in [Addresses -> Nodes]
      /\ nodes[id] = node
      /\ \A b \in Addresses \ {id} : nodes[b] = d.nodes[b]
  BY <1>3 DEF Lists
<1> HIDE DEF nodes, e
<1>a. d.size \in Nat /\ d.size + 1 \in Nat
  BY DEF Lists
<1>5. /\ e.nodes = nodes /\ e.head = d.head /\ e.tail = d.tail /\ e.size = d.size + 1
      /\ e \in Lists
  BY <1>1, <1>4, <1>a DEF Lists
<1>6. IsRecorded(e, d, id, icr)
  BY <1>3, <1>4, <1>5 DEF IsRecorded
<1> QED
  BY <1>6 DEF e

(* What _remove writes besides the links.                                  *)
Erased(d, id) == [d EXCEPT !.nodes[id] = EmptyNode, !.size = @ - 1]

IsErased(e, d, id) ==
  /\ e \in Lists
  /\ e.head = d.head /\ e.tail = d.tail /\ e.size = d.size - 1
  /\ e.nodes[id] = EmptyNode
  /\ \A b \in Addresses \ {id} : e.nodes[b] = d.nodes[b]

LEMMA ErasedIs ==
  ASSUME NEW d \in Lists, NEW id \in Addresses, d.size # 0
  PROVE  IsErased(Erased(d, id), d, id)
<1> DEFINE e == Erased(d, id)
           nodes == [d.nodes EXCEPT ![id] = EmptyNode]
<1>1. e = [d EXCEPT !.nodes = nodes, !.size = @ - 1]
  BY DEF Erased
<1>2. EmptyNode \in Nodes
  BY ListAssumption DEF EmptyNode, Nodes, Addresses
<1>3. /\ nodes \in [Addresses -> Nodes]
      /\ nodes[id] = EmptyNode
      /\ \A b \in Addresses \ {id} : nodes[b] = d.nodes[b]
  BY <1>2 DEF Lists
<1> HIDE DEF nodes, e
<1>a. d.size \in Nat /\ d.size - 1 \in Nat
  BY DEF Lists
<1>4. /\ e.nodes = nodes /\ e.head = d.head /\ e.tail = d.tail /\ e.size = d.size - 1
      /\ e \in Lists
  BY <1>1, <1>3, <1>a DEF Lists
<1>5. IsErased(e, d, id)
  BY <1>3, <1>4 DEF IsErased
<1> QED
  BY <1>5 DEF e

\* e is d with the links to the trove id taken away.
IsUnlinked(e, d, id, p, n) ==
  /\ e \in Lists
  /\ e.head = IF p = Null THEN n ELSE d.head
  /\ e.tail = IF n = Null THEN p ELSE d.tail
  /\ e.size = d.size
  /\ \A a \in Addresses \ {id} :
       /\ e.nodes[a].exists = d.nodes[a].exists
       /\ e.nodes[a].oldICR = d.nodes[a].oldICR
       /\ e.nodes[a].nextId = IF a = p /\ p # Null THEN n ELSE d.nodes[a].nextId
       /\ e.nodes[a].prevId = IF a = n /\ n # Null THEN p ELSE d.nodes[a].prevId

\* Each branch of _remove joins the neighbours of id.
LEMMA UnlinkedIs ==
  ASSUME NEW d \in Lists, NEW id \in Ids, NEW p, NEW n,
         p = d.nodes[id].prevId, n = d.nodes[id].nextId,
         p # id, n # id, p = n => p = Null,
         d.size <= 1 => p = Null /\ n = Null,
         d.size > 1 => p # Null \/ n # Null,
         p = Null => d.head = id, n = Null => d.tail = id,
         p # Null => d.head # id, n # Null => d.tail # id
  PROVE  IsUnlinked(Unlinked(d, id), d, id, p, n)
<1> DEFINE e == Unlinked(d, id)
<1>0. id \in Addresses /\ Null \in Addresses /\ id # Null
  BY NullIsNoId DEF Addresses
<1>a. p \in Addresses /\ n \in Addresses /\ d.size \in Nat
  BY <1>0 DEF Lists, Nodes
<1>1. CASE d.size <= 1
  <2>1. e = [d EXCEPT !.head = Null, !.tail = Null]
    BY <1>1, <1>a DEF Unlinked
  <2> HIDE DEF e
  <2>2. e \in Lists /\ e.head = Null /\ e.tail = Null /\ e.size = d.size /\ e.nodes = d.nodes
    BY <1>0, <2>1 DEF Lists
  <2>3. IsUnlinked(e, d, id, p, n)
    BY <1>1, <2>2 DEF IsUnlinked
  <2> QED
    BY <2>3 DEF e
<1>2. CASE d.size > 1 /\ p = Null
  <2> DEFINE d1 == SetPrev(d, n, Null)
  <2>1. e = [d EXCEPT !.head = n, !.nodes[n].prevId = Null]
    BY <1>2, <1>a DEF Unlinked, HeadUnlinked, Next_
  <2>2. e = [d1 EXCEPT !.head = n]
    BY <2>1 DEF SetPrev
  <2>3. PrevIsSet(d1, d, n, Null)
    BY <1>0, <1>a, SetPrevIs
  <2> HIDE DEF d1, e
  <2>4. e \in Lists /\ e.head = n /\ e.tail = d1.tail /\ e.size = d1.size /\ e.nodes = d1.nodes
    BY <1>a, <2>2, <2>3 DEF Lists, PrevIsSet
  <2>5. IsUnlinked(e, d, id, p, n)
    BY <1>0, <1>2, <1>a, <2>3, <2>4 DEF IsUnlinked, SameBut, PrevIsSet
  <2> QED
    BY <2>5 DEF e
<1>3. CASE d.size > 1 /\ p # Null /\ n = Null
  <2> DEFINE d1 == SetNext(d, p, Null)
  <2>1. e = [d EXCEPT !.tail = p, !.nodes[p].nextId = Null]
    BY <1>3, <1>a DEF Unlinked, Prev_
  <2>2. e = [d1 EXCEPT !.tail = p]
    BY <2>1 DEF SetNext
  <2>3. NextIsSet(d1, d, p, Null)
    BY <1>0, <1>a, SetNextIs
  <2> HIDE DEF d1, e
  <2>4. e \in Lists /\ e.tail = p /\ e.head = d1.head /\ e.size = d1.size /\ e.nodes = d1.nodes
    BY <1>a, <2>2, <2>3 DEF Lists, NextIsSet
  <2>5. IsUnlinked(e, d, id, p, n)
    BY <1>0, <1>3, <1>a, <2>3, <2>4 DEF IsUnlinked, SameBut, NextIsSet
  <2> QED
    BY <2>5 DEF e
<1>4. CASE d.size > 1 /\ p # Null /\ n # Null
  <2> DEFINE d1 == SetNext(d, p, n)
             d2 == SetPrev(d1, n, p)
  <2>1. e = [d EXCEPT !.nodes[p].nextId = n, !.nodes[n].prevId = p]
    BY <1>4, <1>a DEF Unlinked, Prev_, Next_
  <2>2. e = d2
    BY <2>1 DEF SetNext, SetPrev
  <2>3. NextIsSet(d1, d, p, n)
    BY <1>a, SetNextIs
  <2> HIDE DEF d1
  <2>4. PrevIsSet(d2, d1, n, p)
    BY <1>a, <2>3, SetPrevIs DEF NextIsSet
  <2> HIDE DEF d2, e
  <2>5. IsUnlinked(e, d, id, p, n)
    BY <1>0, <1>4, <1>a, <2>2, <2>3, <2>4 DEF IsUnlinked, SameBut, NextIsSet, PrevIsSet
  <2> QED
    BY <2>5 DEF e
<1> QED
  BY <1>1, <1>2, <1>3, <1>4, <1>a
-----------------------------------------------------------------------------
(* A storage that represents a ranking.                                    *)

Entries == [id : Ids, icr : ICRs]

IdAt(r, i) == IF i \in 1..Len(r) THEN r[i].id ELSE Null

IsRanking(r) ==
  /\ r \in Seq(Entries)
  /\ \A i, j \in 1..Len(r) : r[i].id = r[j].id => i = j

\* The node of the i-th trove.
NodeAt(d, r, i) ==
  /\ d.nodes[r[i].id].exists = TRUE
  /\ d.nodes[r[i].id].nextId = IdAt(r, i + 1)
  /\ d.nodes[r[i].id].prevId = IdAt(r, i - 1)
  /\ d.nodes[r[i].id].oldICR = r[i].icr

RankedIn(r) == {r[i].id : i \in 1..Len(r)}

IsList(d, r) ==
  /\ d \in Lists
  /\ IsRanking(r)
  /\ d.size = Len(r)
  /\ d.head = IdAt(r, 1) /\ d.tail = IdAt(r, Len(r))
  /\ \A i \in 1..Len(r) : NodeAt(d, r, i)
  /\ \A a \in Addresses \ RankedIn(r) : d.nodes[a] = EmptyNode

\* What the entries of a ranking are.
LEMMA EntryTypes ==
  ASSUME NEW r, IsRanking(r)
  PROVE  /\ Len(r) \in Nat
         /\ \A i \in 1..Len(r) : r[i].id \in Ids /\ r[i].id \in Addresses /\ r[i].id # Null
                                 /\ r[i].icr \in ICRs /\ r[i].icr \in Nat /\ r[i].id \in RankedIn(r)
         /\ Null \notin RankedIn(r)
         /\ \A i \in Int : IdAt(r, i) \in Addresses
         /\ \A a \in RankedIn(r) : \E i \in 1..Len(r) : a = r[i].id
<1>1. Len(r) \in Nat /\ \A i \in 1..Len(r) : r[i] \in Entries
  BY DEF IsRanking
<1>2. \A i \in 1..Len(r) : r[i].id \in Ids /\ r[i].icr \in ICRs
  BY <1>1 DEF Entries
<1> QED
  BY <1>1, <1>2, NullIsNoId, ListAssumption DEF Addresses, IdAt, RankedIn

\* A place at which _insert may put icr without breaking the order.
Fits(r, k, icr) ==
  /\ k \in 1..(Len(r) + 1)
  /\ k > 1 => icr <= r[k - 1].icr
  /\ k <= Len(r) => icr >= r[k].icr

\* A position that validInsertPosition accepts is between two neighbours of
\* the ranking, or at an end, and keeps the order.
LEMMA ValidPlace ==
  ASSUME NEW d, NEW r, IsList(d, r), NEW icr \in ICRs, NEW p \in Addresses, NEW n \in Addresses,
         ValidInsertPosition(d, icr, p, n)
  PROVE  \E k \in 1..(Len(r) + 1) : p = IdAt(r, k - 1) /\ n = IdAt(r, k) /\ Fits(r, k, icr)
<1>0. IsRanking(r) /\ icr \in Nat
  BY ListAssumption DEF IsList
<1>1. CASE p = Null /\ n = Null /\ d.size = 0
  <2>1. Len(r) = 0
    BY <1>1 DEF IsList
  <2>2. IdAt(r, 0) = Null /\ IdAt(r, 1) = Null /\ Fits(r, 1, icr)
    BY <2>1 DEF IdAt, Fits
  <2> QED
    BY <1>1, <2>1, <2>2
<1>2. CASE p = Null /\ n # Null /\ d.head = n /\ icr >= OldICR(d, n)
  <2>1. n = IdAt(r, 1)
    BY <1>2 DEF IsList
  <2>2. 1 \in 1..Len(r) /\ n = r[1].id
    BY <1>2, <2>1 DEF IdAt
  <2>3. icr >= r[1].icr
    BY <1>2, <2>2 DEF IsList, NodeAt, OldICR
  <2>4. IdAt(r, 0) = Null /\ Fits(r, 1, icr)
    BY <1>0, <2>2, <2>3, EntryTypes DEF IdAt, Fits
  <2> QED
    BY <1>0, <1>2, <2>1, <2>4, EntryTypes
<1>3. CASE p # Null /\ n = Null /\ d.tail = p /\ icr <= OldICR(d, p)
  <2>1. p = IdAt(r, Len(r))
    BY <1>3 DEF IsList
  <2>2. Len(r) \in 1..Len(r) /\ p = r[Len(r)].id
    BY <1>3, <2>1 DEF IdAt
  <2>3. icr <= r[Len(r)].icr
    BY <1>3, <2>2 DEF IsList, NodeAt, OldICR
  <2>4. IdAt(r, Len(r) + 1) = Null /\ Fits(r, Len(r) + 1, icr) /\ Len(r) + 1 - 1 = Len(r)
    BY <1>0, <2>2, <2>3, EntryTypes DEF IdAt, Fits
  <2> QED
    BY <1>0, <1>3, <2>1, <2>4, EntryTypes
<1>4. CASE p # Null /\ n # Null /\ Between(d, icr, p, n)
  <2>1. d.nodes[p].nextId = n /\ icr <= d.nodes[p].oldICR /\ icr >= d.nodes[n].oldICR
    BY <1>4, <1>0 DEF Between, Next_, OldICR, IsList, Lists, Nodes
  <2>2. p \in RankedIn(r)
    BY <1>4, <2>1 DEF IsList, EmptyNode
  <2>3. PICK i \in 1..Len(r) : p = r[i].id
    BY <2>2 DEF RankedIn
  <2>4. n = IdAt(r, i + 1) /\ icr <= r[i].icr
    BY <2>1, <2>3 DEF IsList, NodeAt
  <2>5. i + 1 \in 1..Len(r) /\ n = r[i + 1].id
    BY <1>4, <2>4 DEF IdAt
  <2>6. icr >= r[i + 1].icr
    BY <2>1, <2>5 DEF IsList, NodeAt
  <2>7. /\ i + 1 \in 1..(Len(r) + 1) /\ i + 1 - 1 = i /\ IdAt(r, i) = p
        /\ Fits(r, i + 1, icr)
    BY <1>0, <2>3, <2>4, <2>5, <2>6, EntryTypes DEF IdAt, Fits
  <2> QED
    BY <2>4, <2>7
<1> QED
  BY <1>1, <1>2, <1>3, <1>4 DEF ValidInsertPosition

LEMMA SameNode ==
  ASSUME NEW u \in Nodes, NEW v \in Nodes, u.exists = v.exists, u.nextId = v.nextId,
         u.prevId = v.prevId, u.oldICR = v.oldICR
  PROVE  u = v
  BY DEF Nodes

\* e is d with the trove id placed between p and n at icr.
IsInserted(e, d, id, icr, p, n) ==
  /\ e \in Lists
  /\ e.head = IF p = Null THEN id ELSE d.head
  /\ e.tail = IF n = Null THEN id ELSE d.tail
  /\ e.size = d.size + 1
  /\ e.nodes[id].exists = TRUE
  /\ e.nodes[id].oldICR = icr
  /\ e.nodes[id].nextId = n
  /\ e.nodes[id].prevId = p
  /\ \A a \in Addresses \ {id} :
       /\ e.nodes[a].exists = d.nodes[a].exists
       /\ e.nodes[a].oldICR = d.nodes[a].oldICR
       /\ e.nodes[a].nextId = IF a = p /\ p # Null THEN id ELSE d.nodes[a].nextId
       /\ e.nodes[a].prevId = IF a = n /\ n # Null THEN id ELSE d.nodes[a].prevId

LEMMA InsertedIs ==
  ASSUME NEW d \in Lists, NEW id \in Ids, NEW icr \in ICRs, NEW p \in Addresses, NEW n \in Addresses,
         d.nodes[id] = EmptyNode, p # id, n # id, p = n => p = Null,
         p = Null => d.head = n, n = Null => d.tail = p
  PROVE  IsInserted(Recorded(Linked(d, id, p, n), id, icr), d, id, icr, p, n)
<1> DEFINE f == Linked(d, id, p, n)
           e == Recorded(f, id, icr)
<1>1. IsLinked(f, d, id, p, n)
  BY LinkedIs
<1> HIDE DEF f
<1>2. id \in Addresses /\ f \in Lists
  BY <1>1 DEF Addresses, IsLinked
<1>3. IsRecorded(e, f, id, icr)
  BY <1>2, RecordedIs
<1> HIDE DEF e
<1>4. IsInserted(e, d, id, icr, p, n)
  BY <1>1, <1>3 DEF IsLinked, IsInserted, IsRecorded
<1> QED
  BY <1>4 DEF e, f

\* s is the ranking r with the trove id in place k.
IsPlacedAt(s, r, k, id, icr) ==
  /\ IsRanking(s)
  /\ Len(s) = Len(r) + 1
  /\ s[k].id = id
  /\ s[k].icr = icr
  /\ \A j \in 1..Len(s) : j < k => s[j] = r[j] /\ j \in 1..Len(r)
  /\ \A j \in 1..Len(s) : j > k => s[j] = r[j - 1] /\ j - 1 \in 1..Len(r)
  /\ \A j \in Int : j < k => IdAt(s, j) = IdAt(r, j)
  /\ \A j \in Int : j > k => IdAt(s, j) = IdAt(r, j - 1)
  /\ IdAt(s, k) = id
  /\ RankedIn(s) = RankedIn(r) \cup {id}

LEMMA InsertedRanking ==
  ASSUME NEW r, IsRanking(r), NEW k \in 1..(Len(r) + 1), NEW id \in Ids, NEW icr \in ICRs,
         id \notin RankedIn(r)
  PROVE  IsPlacedAt(InsertAt(r, k, [id |-> id, icr |-> icr]), r, k, id, icr)
<1> DEFINE e == [id |-> id, icr |-> icr]
           s == InsertAt(r, k, e)
<1>1. r \in Seq(Entries) /\ Len(r) \in Nat /\ e \in Entries
  BY EntryTypes DEF IsRanking, Entries
<1>2. e.id = id /\ e.icr = icr
  OBVIOUS
<1> HIDE DEF e
<1>3. s \in Seq(Entries) /\ IsInsertion(s, r, k, e)
  BY <1>1, InsertAtIs
<1> HIDE DEF s
<1>a. Len(s) = Len(r) + 1 /\ s[k] = e
  BY <1>1, <1>3 DEF IsInsertion
<1>4. /\ Len(s) = Len(r) + 1
      /\ s[k].id = id /\ s[k].icr = icr
  BY <1>2, <1>a
<1>5. \A j \in 1..Len(s) : j < k => s[j] = r[j] /\ j \in 1..Len(r)
  BY <1>1, <1>3, <1>4 DEF IsInsertion
<1>6. \A j \in 1..Len(s) : j > k => s[j] = r[j - 1] /\ j - 1 \in 1..Len(r)
  BY <1>1, <1>3, <1>4 DEF IsInsertion
<1>7. \A j \in Int : j < k => IdAt(s, j) = IdAt(r, j)
  BY <1>1, <1>4, <1>5 DEF IdAt
<1>8. \A j \in Int : j > k => IdAt(s, j) = IdAt(r, j - 1)
  BY <1>1, <1>4, <1>6 DEF IdAt
<1>9. IdAt(s, k) = id
  BY <1>1, <1>4 DEF IdAt
<1>10. ASSUME NEW i \in 1..Len(s), NEW j \in 1..Len(s), s[i].id = s[j].id
       PROVE  i = j
  <2>1. \A l \in 1..Len(r) : r[l].id # id
    BY DEF RankedIn
  <2>a. \A l \in 1..Len(s) : l # k => s[l].id # id
    <3>1. ASSUME NEW l \in 1..Len(s), l # k PROVE s[l].id # id
      <4>1. l < k \/ l > k
        BY <1>1, <3>1
      <4> QED
        BY <1>5, <1>6, <2>1, <4>1
    <3> QED
      BY <3>1
  <2>2. CASE i = k \/ j = k
    BY <1>4, <1>10, <2>2, <2>a
  <2>3. CASE i < k /\ j < k
    BY <1>5, <1>10, <2>3 DEF IsRanking
  <2>4. CASE i > k /\ j > k
    <3>1. i - 1 = j - 1
      BY <1>6, <1>10, <2>4 DEF IsRanking
    <3> QED
      BY <3>1
  <2>5. CASE i < k /\ j > k
    <3>1. i = j - 1
      BY <1>5, <1>6, <1>10, <2>5 DEF IsRanking
    <3> QED
      BY <2>5, <3>1
  <2>6. CASE i > k /\ j < k
    <3>1. j = i - 1
      BY <1>5, <1>6, <1>10, <2>6 DEF IsRanking
    <3> QED
      BY <2>6, <3>1
  <2> QED
    BY <1>1, <1>4, <2>2, <2>3, <2>4, <2>5, <2>6
<1>b. ASSUME NEW l \in 1..Len(s) PROVE s[l].id \in RankedIn(r) \cup {id}
  <2>1. l < k \/ l > k \/ l = k
    BY <1>1
  <2> QED
    BY <1>4, <1>5, <1>6, <2>1 DEF RankedIn
<1>11. RankedIn(s) \subseteq RankedIn(r) \cup {id}
  BY <1>b DEF RankedIn
<1>12. ASSUME NEW i \in 1..Len(r) PROVE r[i].id \in RankedIn(s)
  <2>1. CASE i < k
    <3>1. i \in 1..Len(s) /\ s[i] = r[i]
      BY <1>1, <1>4, <1>5, <2>1
    <3> QED
      BY <3>1 DEF RankedIn
  <2>2. CASE ~(i < k)
    <3>1. i + 1 \in 1..Len(s) /\ s[i + 1] = r[i]
      BY <1>1, <1>4, <1>6, <2>2
    <3> QED
      BY <3>1 DEF RankedIn
  <2> QED
    BY <2>1, <2>2
<1>13. id \in RankedIn(s)
  <2>1. k \in 1..Len(s) /\ s[k].id = id
    BY <1>1, <1>4
  <2> QED
    BY <2>1 DEF RankedIn
<1>14. RankedIn(s) = RankedIn(r) \cup {id}
  <2>1. RankedIn(r) \subseteq RankedIn(s)
    BY <1>12 DEF RankedIn
  <2> QED
    BY <1>11, <1>13, <2>1
<1>15. IsPlacedAt(s, r, k, id, icr)
  BY <1>3, <1>4, <1>5, <1>6, <1>7, <1>8, <1>9, <1>10, <1>14 DEF IsRanking, IsPlacedAt
<1> QED
  BY <1>15 DEF s, e

\* A trove linked at place k is a trove inserted into the ranking at k.
LEMMA InsertedList ==
  ASSUME NEW d, NEW r, IsList(d, r), NEW k \in 1..(Len(r) + 1), NEW id \in Ids, NEW icr \in ICRs,
         id \notin RankedIn(r),
         NEW e, IsInserted(e, d, id, icr, IdAt(r, k - 1), IdAt(r, k)),
         NEW s, s = InsertAt(r, k, [id |-> id, icr |-> icr])
  PROVE  IsList(e, s)
<1>1. /\ IsRanking(r) /\ Len(r) \in Nat /\ d \in Lists
      /\ \A i \in 1..Len(r) : NodeAt(d, r, i)
      /\ \A a \in Addresses \ RankedIn(r) : d.nodes[a] = EmptyNode
  BY EntryTypes DEF IsList
<1>a. IsPlacedAt(s, r, k, id, icr)
  BY <1>1, InsertedRanking
<1>2. /\ IsRanking(s) /\ Len(s) = Len(r) + 1 /\ s[k].id = id /\ s[k].icr = icr
      /\ \A j \in 1..Len(s) : j < k => s[j] = r[j] /\ j \in 1..Len(r)
      /\ \A j \in 1..Len(s) : j > k => s[j] = r[j - 1] /\ j - 1 \in 1..Len(r)
      /\ \A j \in Int : j < k => IdAt(s, j) = IdAt(r, j)
      /\ \A j \in Int : j > k => IdAt(s, j) = IdAt(r, j - 1)
      /\ IdAt(s, k) = id
      /\ RankedIn(s) = RankedIn(r) \cup {id}
  BY <1>a DEF IsPlacedAt
<1>3. /\ \A i \in 1..Len(r) : r[i].id \in Addresses /\ r[i].id # Null /\ r[i].id # id
      /\ id # Null
  BY <1>1, EntryTypes, NullIsNoId DEF RankedIn
<1>4. /\ IdAt(r, k - 1) = Null => k = 1
      /\ k > 1 => IdAt(r, k - 1) = r[k - 1].id /\ k - 1 \in 1..Len(r)
      /\ IdAt(r, k) = Null => k = Len(r) + 1
      /\ k <= Len(r) => IdAt(r, k) = r[k].id /\ k \in 1..Len(r)
      /\ k = 1 => IdAt(r, k - 1) = Null
      /\ k = Len(r) + 1 => IdAt(r, k) = Null
  BY <1>1, <1>3 DEF IdAt
<1>5. e.head = IdAt(s, 1)
  BY <1>1, <1>2, <1>4 DEF IsInserted, IsList
<1>6. e.tail = IdAt(s, Len(s))
  BY <1>1, <1>2, <1>4 DEF IsInserted, IsList
<1>7. ASSUME NEW j \in 1..Len(s) PROVE NodeAt(e, s, j)
  <2>1. CASE j = k
    <3>1. IdAt(s, k + 1) = IdAt(r, k) /\ IdAt(s, k - 1) = IdAt(r, k - 1)
      BY <1>1, <1>2
    <3> QED
      BY <1>2, <2>1, <3>1 DEF NodeAt, IsInserted
  <2>2. CASE j < k
    <3>1. s[j] = r[j] /\ j \in 1..Len(r) /\ IdAt(s, j - 1) = IdAt(r, j - 1) /\ NodeAt(d, r, j)
      BY <1>1, <1>2, <2>2
    <3> DEFINE a == r[j].id
    <3>2. a \in Addresses \ {id} /\ a # Null
      BY <1>3, <3>1
    <3>3. /\ e.nodes[a].exists = d.nodes[a].exists
          /\ e.nodes[a].oldICR = d.nodes[a].oldICR
          /\ e.nodes[a].nextId = IF a = IdAt(r, k - 1) THEN id ELSE d.nodes[a].nextId
          /\ e.nodes[a].prevId = IF a = IdAt(r, k) THEN id ELSE d.nodes[a].prevId
      BY <3>2 DEF IsInserted
    <3>4. a # IdAt(r, k)
      BY <1>1, <1>3, <1>4, <2>2, <3>1 DEF IsRanking, IdAt
    <3>5. a = IdAt(r, k - 1) => j = k - 1
      BY <1>1, <1>3, <1>4, <2>2, <3>1 DEF IsRanking, IdAt
    <3>6. j = k - 1 => a = IdAt(r, k - 1) /\ IdAt(s, j + 1) = id
      BY <1>1, <1>2, <1>4, <3>1
    <3>7. j # k - 1 => IdAt(s, j + 1) = IdAt(r, j + 1)
      BY <1>1, <1>2, <2>2
    <3> QED
      BY <3>1, <3>3, <3>4, <3>5, <3>6, <3>7 DEF NodeAt
  <2>3. CASE j > k
    <3> DEFINE i == j - 1
               a == r[i].id
    <3>1. s[j] = r[i] /\ i \in 1..Len(r) /\ IdAt(s, j + 1) = IdAt(r, i + 1) /\ NodeAt(d, r, i)
      BY <1>1, <1>2, <2>3
    <3>2. i \in Int /\ i >= k /\ j = i + 1
      BY <1>1, <1>2, <2>3
    <3> HIDE DEF i
    <3>3. a \in Addresses \ {id} /\ a # Null
      BY <1>3, <3>1
    <3>4. /\ e.nodes[a].exists = d.nodes[a].exists
          /\ e.nodes[a].oldICR = d.nodes[a].oldICR
          /\ e.nodes[a].nextId = IF a = IdAt(r, k - 1) THEN id ELSE d.nodes[a].nextId
          /\ e.nodes[a].prevId = IF a = IdAt(r, k) THEN id ELSE d.nodes[a].prevId
      BY <3>3 DEF IsInserted
    <3>5. a # IdAt(r, k - 1)
      BY <1>1, <1>3, <1>4, <3>1, <3>2 DEF IsRanking, IdAt
    <3>6. a = IdAt(r, k) => i = k
      BY <1>1, <1>3, <1>4, <3>1, <3>2 DEF IsRanking, IdAt
    <3>7. i = k => a = IdAt(r, k) /\ IdAt(s, j - 1) = id
      BY <1>1, <1>2, <1>4, <3>1, <3>2
    <3>8. i # k => IdAt(s, j - 1) = IdAt(r, i - 1)
      BY <1>1, <1>2, <3>2
    <3> QED
      BY <3>1, <3>4, <3>5, <3>6, <3>7, <3>8 DEF NodeAt
  <2> QED
    BY <1>1, <1>2, <2>1, <2>2, <2>3
<1>8. ASSUME NEW a \in Addresses \ RankedIn(s) PROVE e.nodes[a] = EmptyNode
  <2>1. a \in Addresses \ {id} /\ d.nodes[a] = EmptyNode /\ a \notin RankedIn(r)
    BY <1>1, <1>2
  <2>2. /\ a = IdAt(r, k - 1) => a = Null
        /\ a = IdAt(r, k) => a = Null
    BY <2>1 DEF IdAt, RankedIn
  <2>3. /\ e.nodes[a].exists = d.nodes[a].exists
        /\ e.nodes[a].oldICR = d.nodes[a].oldICR
        /\ e.nodes[a].nextId = d.nodes[a].nextId
        /\ e.nodes[a].prevId = d.nodes[a].prevId
    BY <2>1, <2>2 DEF IsInserted
  <2>4. e.nodes[a] \in Nodes /\ d.nodes[a] \in Nodes
    BY <1>1 DEF IsInserted, Lists
  <2> QED
    BY <2>1, <2>3, <2>4, SameNode
<1> QED
  BY <1>1, <1>2, <1>5, <1>6, <1>7, <1>8 DEF IsList, IsInserted

\* s is the ranking r without its k-th trove.
IsTakenFrom(s, r, k) ==
  /\ IsRanking(s)
  /\ Len(s) = Len(r) - 1
  /\ \A j \in 1..Len(s) : j < k => s[j] = r[j]
  /\ \A j \in 1..Len(s) : j >= k => s[j] = r[j + 1]
  /\ \A j \in Int : j < k => IdAt(s, j) = IdAt(r, j)
  /\ \A j \in Int : j >= k => IdAt(s, j) = IdAt(r, j + 1)
  /\ RankedIn(s) = RankedIn(r) \ {r[k].id}

LEMMA RemovedRanking ==
  ASSUME NEW r, IsRanking(r), NEW k \in 1..Len(r)
  PROVE  IsTakenFrom(RemoveAt(r, k), r, k)
<1> DEFINE s == RemoveAt(r, k)
<1>1. r \in Seq(Entries) /\ Len(r) \in Nat
  BY EntryTypes DEF IsRanking
<1>2. /\ s \in Seq(Entries)
      /\ Len(s) = Len(r) - 1
      /\ \A j \in 1..(Len(r) - 1) : s[j] = IF j < k THEN r[j] ELSE r[j + 1]
  BY <1>1, RemoveAtIs
<1> HIDE DEF s
<1>3. /\ \A j \in 1..Len(s) : j < k => s[j] = r[j]
      /\ \A j \in 1..Len(s) : j >= k => s[j] = r[j + 1]
  BY <1>1, <1>2
<1>4. \A j \in Int : j < k => IdAt(s, j) = IdAt(r, j)
  BY <1>1, <1>2, <1>3 DEF IdAt
<1>5. \A j \in Int : j >= k => IdAt(s, j) = IdAt(r, j + 1)
  BY <1>1, <1>2, <1>3 DEF IdAt
<1>6. ASSUME NEW i \in 1..Len(s), NEW j \in 1..Len(s), s[i].id = s[j].id
      PROVE  i = j
  <2>1. CASE i < k /\ j < k
    BY <1>1, <1>2, <1>3, <1>6, <2>1 DEF IsRanking
  <2>2. CASE i >= k /\ j >= k
    <3>1. /\ i + 1 \in 1..Len(r) /\ j + 1 \in 1..Len(r)
          /\ s[i] = r[i + 1] /\ s[j] = r[j + 1]
      BY <1>1, <1>2, <1>3, <2>2
    <3>2. i + 1 = j + 1
      BY <1>6, <3>1 DEF IsRanking
    <3> QED
      BY <3>2
  <2>3. CASE i < k /\ j >= k
    <3>1. /\ i \in 1..Len(r) /\ j + 1 \in 1..Len(r)
          /\ s[i] = r[i] /\ s[j] = r[j + 1]
      BY <1>1, <1>2, <1>3, <2>3
    <3>2. i = j + 1
      BY <1>6, <3>1 DEF IsRanking
    <3> QED
      BY <2>3, <3>2
  <2>4. CASE i >= k /\ j < k
    <3>1. /\ i + 1 \in 1..Len(r) /\ j \in 1..Len(r)
          /\ s[i] = r[i + 1] /\ s[j] = r[j]
      BY <1>1, <1>2, <1>3, <2>4
    <3>2. j = i + 1
      BY <1>6, <3>1 DEF IsRanking
    <3> QED
      BY <2>4, <3>2
  <2> QED
    BY <1>1, <2>1, <2>2, <2>3, <2>4
<1>7. ASSUME NEW i \in 1..Len(s) PROVE s[i].id \in RankedIn(r) \ {r[k].id}
  <2>1. PICK l \in 1..Len(r) : l # k /\ s[i] = r[l]
    <3>1. CASE i < k
      BY <1>1, <1>2, <1>3, <3>1
    <3>2. CASE i >= k
      <4>1. i + 1 \in 1..Len(r) /\ i + 1 # k /\ s[i] = r[i + 1]
        BY <1>1, <1>2, <1>3, <3>2
      <4> QED
        BY <4>1
    <3> QED
      BY <1>1, <3>1, <3>2
  <2> QED
    BY <2>1 DEF IsRanking, RankedIn
<1>8. ASSUME NEW l \in 1..Len(r), l # k PROVE r[l].id \in RankedIn(s)
  <2>1. CASE l < k
    <3>1. l \in 1..Len(s) /\ s[l] = r[l]
      BY <1>1, <1>2, <1>3, <2>1
    <3> QED
      BY <3>1 DEF RankedIn
  <2>2. CASE l > k
    <3>1. l - 1 \in 1..Len(s) /\ s[l - 1] = r[l - 1 + 1] /\ l - 1 + 1 = l
      BY <1>1, <1>2, <1>3, <2>2
    <3> QED
      BY <3>1 DEF RankedIn
  <2> QED
    BY <1>1, <1>8, <2>1, <2>2
<1>9. RankedIn(s) = RankedIn(r) \ {r[k].id}
  <2>1. RankedIn(s) \subseteq RankedIn(r) \ {r[k].id}
    BY <1>7 DEF RankedIn
  <2>2. RankedIn(r) \ {r[k].id} \subseteq RankedIn(s)
    BY <1>8 DEF RankedIn
  <2> QED
    BY <2>1, <2>2
<1>10. IsTakenFrom(s, r, k)
  BY <1>2, <1>3, <1>4, <1>5, <1>6, <1>9 DEF IsRanking, IsTakenFrom
<1> QED
  BY <1>10 DEF s

\* The k-th trove removed is the ranking without its k-th place.
LEMMA RemovedList ==
  ASSUME NEW d, NEW r, IsList(d, r), NEW k \in 1..Len(r)
  PROVE  IsList(Removed(d, r[k].id), RemoveAt(r, k))
<1> DEFINE id == r[k].id
           p == IdAt(r, k - 1)
           n == IdAt(r, k + 1)
           s == RemoveAt(r, k)
           f == Unlinked(d, id)
           e == Erased(f, id)
<1>1. /\ IsRanking(r) /\ Len(r) \in Nat /\ d \in Lists /\ d.size = Len(r)
      /\ \A i \in 1..Len(r) : NodeAt(d, r, i)
      /\ \A a \in Addresses \ RankedIn(r) : d.nodes[a] = EmptyNode
      /\ d.head = IdAt(r, 1) /\ d.tail = IdAt(r, Len(r))
  BY EntryTypes DEF IsList
<1>2. /\ \A i \in 1..Len(r) : r[i].id \in Ids /\ r[i].id \in Addresses /\ r[i].id # Null
      /\ \A i, j \in 1..Len(r) : r[i].id = r[j].id => i = j
  BY <1>1, EntryTypes DEF IsRanking
<1>3. /\ k = 1 => p = Null
      /\ k > 1 => p = r[k - 1].id /\ p # Null /\ p # id /\ k - 1 \in 1..Len(r)
      /\ k = Len(r) => n = Null
      /\ k < Len(r) => n = r[k + 1].id /\ n # Null /\ n # id /\ k + 1 \in 1..Len(r)
      /\ k > 1 /\ k < Len(r) => p # n
      /\ id # Null
  BY <1>1, <1>2 DEF IdAt
<1>4. /\ k = 1 => d.head = id
      /\ k > 1 => d.head # id
      /\ k = Len(r) => d.tail = id
      /\ k < Len(r) => d.tail # id
  BY <1>1, <1>2 DEF IdAt
<1>5. p = d.nodes[id].prevId /\ n = d.nodes[id].nextId /\ id \in Ids
  BY <1>1, <1>2 DEF NodeAt
<1>6. IsTakenFrom(s, r, k)
  BY <1>1, RemovedRanking
<1> HIDE DEF s, p, n, id
<1>7. IsUnlinked(f, d, id, p, n)
  <2>1. /\ p # id /\ n # id
        /\ p = n => p = Null
        /\ d.size <= 1 => p = Null /\ n = Null
        /\ d.size > 1 => p # Null \/ n # Null
        /\ p = Null => d.head = id
        /\ n = Null => d.tail = id
        /\ p # Null => d.head # id
        /\ n # Null => d.tail # id
    BY <1>1, <1>3, <1>4
  <2> QED
    BY <1>1, <1>5, <2>1, UnlinkedIs
<1> HIDE DEF f
<1>8. IsErased(e, f, id)
  <2>1. f \in Lists /\ f.size # 0 /\ id \in Addresses
    BY <1>1, <1>2, <1>7 DEF IsUnlinked, id
  <2> QED
    BY <2>1, ErasedIs
<1> HIDE DEF e
<1>9. /\ Len(s) = Len(r) - 1
      /\ \A j \in Int : j < k => IdAt(s, j) = IdAt(r, j)
      /\ \A j \in Int : j >= k => IdAt(s, j) = IdAt(r, j + 1)
      /\ RankedIn(s) = RankedIn(r) \ {id}
  BY <1>6 DEF IsTakenFrom, id
<1>10. e.head = IdAt(s, 1)
  <2>1. k = 1 => IdAt(s, 1) = n
    BY <1>1, <1>9 DEF n
  <2>2. k > 1 => IdAt(s, 1) = IdAt(r, 1)
    BY <1>1, <1>9
  <2> QED
    BY <1>1, <1>3, <1>7, <1>8, <2>1, <2>2 DEF IsUnlinked, IsErased
<1>11. e.tail = IdAt(s, Len(s))
  <2>1. k = Len(r) => IdAt(s, Len(s)) = p
    BY <1>1, <1>9 DEF p
  <2>2. k < Len(r) => IdAt(s, Len(s)) = IdAt(r, Len(r))
    BY <1>1, <1>9
  <2> QED
    BY <1>1, <1>3, <1>7, <1>8, <2>1, <2>2 DEF IsUnlinked, IsErased
<1>12. ASSUME NEW j \in 1..Len(s) PROVE NodeAt(e, s, j)
  <2>1. CASE j < k
    <3> DEFINE a == r[j].id
    <3>0. j \in 1..Len(r) /\ j - 1 \in Int /\ j - 1 < k
      BY <1>1, <1>9, <2>1
    <3>1. s[j] = r[j] /\ j \in 1..Len(r) /\ NodeAt(d, r, j) /\ IdAt(s, j - 1) = IdAt(r, j - 1)
      BY <1>1, <1>6, <1>9, <2>1, <3>0 DEF IsTakenFrom
    <3>2. a \in Addresses \ {id} /\ a # Null /\ a # n
      BY <1>1, <1>2, <1>3, <2>1, <3>1 DEF id
    <3>3. /\ e.nodes[a].exists = d.nodes[a].exists
          /\ e.nodes[a].oldICR = d.nodes[a].oldICR
          /\ e.nodes[a].nextId = IF a = p THEN n ELSE d.nodes[a].nextId
          /\ e.nodes[a].prevId = d.nodes[a].prevId
      BY <1>7, <1>8, <3>2 DEF IsUnlinked, IsErased
    <3>4. a = p <=> j = k - 1
      BY <1>1, <1>2, <1>3, <2>1, <3>1, <3>2
    <3>5. j = k - 1 => IdAt(s, j + 1) = n
      BY <1>1, <1>9 DEF n
    <3>6. j # k - 1 => IdAt(s, j + 1) = IdAt(r, j + 1)
      BY <1>1, <1>9, <2>1
    <3> QED
      BY <3>1, <3>3, <3>4, <3>5, <3>6 DEF NodeAt
  <2>2. CASE j >= k
    <3> DEFINE i == j + 1
               a == r[i].id
    <3>1. s[j] = r[i] /\ i \in 1..Len(r) /\ NodeAt(d, r, i) /\ IdAt(s, j + 1) = IdAt(r, i + 1)
      BY <1>1, <1>6, <1>9, <2>2 DEF IsTakenFrom
    <3>2. i \in Int /\ i > k /\ j = i - 1
      BY <2>2
    <3> HIDE DEF i
    <3>3. a \in Addresses \ {id} /\ a # Null /\ a # p
      BY <1>1, <1>2, <1>3, <3>1, <3>2 DEF id
    <3>4. /\ e.nodes[a].exists = d.nodes[a].exists
          /\ e.nodes[a].oldICR = d.nodes[a].oldICR
          /\ e.nodes[a].nextId = d.nodes[a].nextId
          /\ e.nodes[a].prevId = IF a = n THEN p ELSE d.nodes[a].prevId
      BY <1>7, <1>8, <3>3 DEF IsUnlinked, IsErased
    <3>5. a = n <=> i = k + 1
      BY <1>1, <1>2, <1>3, <3>1, <3>2, <3>3
    <3>6. i = k + 1 => IdAt(s, j - 1) = p
      BY <1>1, <1>9, <3>2 DEF p
    <3>7. i # k + 1 => IdAt(s, j - 1) = IdAt(r, i - 1)
      BY <1>1, <1>9, <3>2
    <3> QED
      BY <3>1, <3>4, <3>5, <3>6, <3>7 DEF NodeAt
  <2> QED
    BY <2>1, <2>2
<1>13. ASSUME NEW a \in Addresses \ RankedIn(s) PROVE e.nodes[a] = EmptyNode
  <2>1. CASE a = id
    BY <1>8, <2>1 DEF IsErased
  <2>2. CASE a # id
    <3>1. a \in Addresses \ {id} /\ d.nodes[a] = EmptyNode /\ a \notin RankedIn(r)
      BY <1>1, <1>9, <1>13, <2>2
    <3>2. /\ a = p => a = Null
          /\ a = n => a = Null
      BY <3>1 DEF IdAt, RankedIn, p, n
    <3>3. /\ e.nodes[a].exists = d.nodes[a].exists
          /\ e.nodes[a].oldICR = d.nodes[a].oldICR
          /\ e.nodes[a].nextId = d.nodes[a].nextId
          /\ e.nodes[a].prevId = d.nodes[a].prevId
      BY <1>7, <1>8, <3>1, <3>2 DEF IsUnlinked, IsErased
    <3>4. e.nodes[a] \in Nodes /\ d.nodes[a] \in Nodes
      BY <1>1, <1>8 DEF IsErased, Lists
    <3> QED
      BY <3>1, <3>3, <3>4, SameNode
  <2> QED
    BY <2>1, <2>2
<1>14. IsList(e, s)
  BY <1>1, <1>6, <1>7, <1>8, <1>10, <1>11, <1>12, <1>13 DEF IsList, IsTakenFrom, IsUnlinked, IsErased
<1> QED
  BY <1>14 DEF e, f, s, id, Removed, Erased
-----------------------------------------------------------------------------
(* A search always ends at a valid place.                                  *)

(* The recursions of descendList and ascendList.                           *)
IsDescent(f, d, icr) ==
  f = [p \in Addresses |->
         IF p = Null \/ ValidInsertPosition(d, icr, p, Next_(d, p))
         THEN <<p, Next_(d, p)>> ELSE f[Next_(d, p)]]

IsAscent(f, d, icr) ==
  f = [n \in Addresses |->
         IF n = Null \/ ValidInsertPosition(d, icr, Prev_(d, n), n)
         THEN <<Prev_(d, n), n>> ELSE f[Prev_(d, n)]]

Descent(d, icr) == CHOOSE f : IsDescent(f, d, icr)
Ascent(d, icr) == CHOOSE f : IsAscent(f, d, icr)

LEMMA DescendUnfolded ==
  ASSUME NEW d, NEW icr, NEW start
  PROVE  DescendList(d, icr, start) =
           IF d.head = start /\ icr >= OldICR(d, start) THEN <<Null, start>>
           ELSE Descent(d, icr)[start]
  BY DEF DescendList, Descent, IsDescent

LEMMA AscendUnfolded ==
  ASSUME NEW d, NEW icr, NEW start
  PROVE  AscendList(d, icr, start) =
           IF d.tail = start /\ icr <= OldICR(d, start) THEN <<start, Null>>
           ELSE Ascent(d, icr)[start]
  BY DEF AscendList, Ascent, IsAscent

\* The links of a list, by address.
LEMMA Links ==
  ASSUME NEW d, NEW r, IsList(d, r)
  PROVE  /\ \A a \in Addresses : Next_(d, a) \in Addresses /\ Prev_(d, a) \in Addresses
         /\ \A i \in 1..Len(r) : /\ Next_(d, r[i].id) = IdAt(r, i + 1)
                                 /\ Prev_(d, r[i].id) = IdAt(r, i - 1)
                                 /\ OldICR(d, r[i].id) = r[i].icr
         /\ \A a \in Addresses \ RankedIn(r) :
              /\ Next_(d, a) = Null /\ Prev_(d, a) = Null
              /\ a # Null => \A icr : /\ ~ValidInsertPosition(d, icr, a, Null)
                                      /\ ~ValidInsertPosition(d, icr, Null, a)
<1>1. \A a \in Addresses : d.nodes[a] \in Nodes
  BY DEF IsList, Lists
<1>2. \A a \in Addresses : Next_(d, a) \in Addresses /\ Prev_(d, a) \in Addresses
  BY <1>1 DEF Nodes, Next_, Prev_
<1>3. \A i \in 1..Len(r) : /\ Next_(d, r[i].id) = IdAt(r, i + 1)
                           /\ Prev_(d, r[i].id) = IdAt(r, i - 1)
                           /\ OldICR(d, r[i].id) = r[i].icr
  BY DEF IsList, NodeAt, Next_, Prev_, OldICR
<1>4. ASSUME NEW a \in Addresses \ RankedIn(r)
      PROVE  Next_(d, a) = Null /\ Prev_(d, a) = Null
  BY DEF IsList, EmptyNode, Next_, Prev_
<1>5. ASSUME NEW a \in Addresses \ RankedIn(r), a # Null
      PROVE  d.tail # a /\ d.head # a
  BY <1>5 DEF IsList, IdAt, RankedIn
<1>6. ASSUME NEW a \in Addresses \ RankedIn(r), a # Null, NEW icr
      PROVE  ~ValidInsertPosition(d, icr, a, Null) /\ ~ValidInsertPosition(d, icr, Null, a)
  BY <1>5, <1>6 DEF ValidInsertPosition
<1> QED
  BY <1>2, <1>3, <1>4, <1>6

\* The recursion of descendList has a solution: from each trove, the first
\* place at or below it that is valid.
LEMMA DescentExists ==
  ASSUME NEW d, NEW r, IsList(d, r), NEW icr
  PROVE  IsDescent(Descent(d, icr), d, icr)
<1> DEFINE Stop == {i \in 1..Len(r) : ValidInsertPosition(d, icr, r[i].id, IdAt(r, i + 1))}
           Place(j) == <<IdAt(r, j), IdAt(r, j + 1)>>
           Value(f, p) == IF p = Null \/ ValidInsertPosition(d, icr, p, Next_(d, p))
                          THEN <<p, Next_(d, p)>> ELSE f[Next_(d, p)]
<1>1. IsRanking(r) /\ Len(r) \in Nat /\ \A i, j \in 1..Len(r) : r[i].id = r[j].id => i = j
  BY EntryTypes DEF IsList, IsRanking
<1>2. PICK F : ScansUp(F, Len(r), Stop)
  <2>1. Stop \subseteq 1..Len(r)
    OBVIOUS
  <2> HIDE DEF Stop
  <2> QED
    BY <1>1, <2>1, ScanUp
<1>3. /\ F[Len(r) + 1] = Len(r) + 1
      /\ \A i \in 1..Len(r) : F[i] = IF i \in Stop THEN i ELSE F[i + 1]
  BY <1>2 DEF ScansUp
<1> DEFINE PosOf(p) == CHOOSE i \in 1..Len(r) : r[i].id = p
           g == [p \in Addresses |-> IF p \in RankedIn(r) THEN Place(F[PosOf(p)]) ELSE <<Null, Null>>]
<1>4. \A i \in 1..Len(r) : r[i].id \in RankedIn(r) /\ r[i].id \in Addresses /\ r[i].id # Null
  BY <1>1, EntryTypes
<1>5. \A i \in 1..Len(r) : PosOf(r[i].id) = i
  BY <1>1
<1>6. \A p \in Addresses : g[p] = IF p \in RankedIn(r) THEN Place(F[PosOf(p)]) ELSE <<Null, Null>>
  OBVIOUS
<1>a. DOMAIN g = Addresses /\ g = [p \in Addresses |-> g[p]]
  OBVIOUS
<1>b. Null \in Addresses /\ Null \notin RankedIn(r)
  BY <1>1, EntryTypes DEF Addresses
<1> HIDE DEF g, PosOf
<1>7. \A i \in 1..Len(r) : g[r[i].id] = Place(F[i])
  BY <1>4, <1>5, <1>6
<1>8. \A p \in Addresses \ RankedIn(r) : g[p] = <<Null, Null>>
  BY <1>6
<1>9. \A i \in 1..(Len(r) + 1) : g[IdAt(r, i)] = Place(F[i])
  <2>1. ASSUME NEW i \in 1..(Len(r) + 1) PROVE g[IdAt(r, i)] = Place(F[i])
    <3>1. CASE i \in 1..Len(r)
      BY <1>7, <3>1 DEF IdAt
    <3>2. CASE i = Len(r) + 1
      <4>1. IdAt(r, i) = Null /\ IdAt(r, i + 1) = Null /\ F[i] = i
        BY <1>1, <1>3, <3>2 DEF IdAt
      <4> QED
        BY <1>8, <1>b, <4>1
    <3> QED
      BY <1>1, <3>1, <3>2
  <2> QED
    BY <2>1
<1>10. ASSUME NEW p \in Addresses PROVE g[p] = Value(g, p)
  <2>1. CASE p \in RankedIn(r)
    <3>1. PICK i \in 1..Len(r) : p = r[i].id
      BY <1>1, <2>1, EntryTypes
    <3>2. p # Null /\ Next_(d, p) = IdAt(r, i + 1) /\ IdAt(r, i) = p
      BY <1>4, <3>1, Links DEF IdAt
    <3>3. CASE i \in Stop
      <4>1. F[i] = i /\ ValidInsertPosition(d, icr, p, Next_(d, p))
        BY <1>3, <3>1, <3>2, <3>3
      <4>2. g[p] = <<p, Next_(d, p)>>
        BY <1>7, <3>1, <3>2, <4>1
      <4> QED
        BY <4>1, <4>2
    <3>4. CASE i \notin Stop
      <4>1. F[i] = F[i + 1] /\ ~ValidInsertPosition(d, icr, p, Next_(d, p))
        BY <1>3, <3>1, <3>2, <3>4
      <4>2. i + 1 \in 1..(Len(r) + 1)
        BY <1>1
      <4>3. g[p] = g[Next_(d, p)]
        BY <1>7, <1>9, <3>1, <3>2, <4>1, <4>2
      <4> QED
        BY <3>2, <4>1, <4>3
    <3> QED
      BY <3>3, <3>4
  <2>2. CASE p \notin RankedIn(r) /\ p # Null
    <3>1. Next_(d, p) = Null /\ ~ValidInsertPosition(d, icr, p, Null)
      BY <2>2, Links
    <3> QED
      BY <1>8, <1>b, <2>2, <3>1
  <2>3. CASE p = Null
    <3>1. Next_(d, p) = Null
      BY <1>b, <2>3, Links
    <3> QED
      BY <1>8, <1>b, <2>3, <3>1
  <2> QED
    BY <2>1, <2>2, <2>3
<1>11. IsDescent(g, d, icr)
  BY <1>10, <1>a DEF IsDescent
<1> QED
  BY <1>11 DEF Descent

\* The same for ascendList, towards the head.
LEMMA AscentExists ==
  ASSUME NEW d, NEW r, IsList(d, r), NEW icr
  PROVE  IsAscent(Ascent(d, icr), d, icr)
<1> DEFINE Stop == {i \in 1..Len(r) : ValidInsertPosition(d, icr, IdAt(r, i - 1), r[i].id)}
           Place(j) == <<IdAt(r, j - 1), IdAt(r, j)>>
           Value(f, n) == IF n = Null \/ ValidInsertPosition(d, icr, Prev_(d, n), n)
                          THEN <<Prev_(d, n), n>> ELSE f[Prev_(d, n)]
<1>1. IsRanking(r) /\ Len(r) \in Nat /\ \A i, j \in 1..Len(r) : r[i].id = r[j].id => i = j
  BY EntryTypes DEF IsList, IsRanking
<1>2. PICK F : ScansDown(F, Len(r), Stop)
  <2>1. Stop \subseteq 1..Len(r)
    OBVIOUS
  <2> HIDE DEF Stop
  <2> QED
    BY <1>1, <2>1, ScanDown
<1>3. /\ F[0] = 0
      /\ \A i \in 1..Len(r) : F[i] = IF i \in Stop THEN i ELSE F[i - 1]
  BY <1>2 DEF ScansDown
<1> DEFINE PosOf(n) == CHOOSE i \in 1..Len(r) : r[i].id = n
           g == [n \in Addresses |-> IF n \in RankedIn(r) THEN Place(F[PosOf(n)]) ELSE <<Null, Null>>]
<1>4. \A i \in 1..Len(r) : r[i].id \in RankedIn(r) /\ r[i].id \in Addresses /\ r[i].id # Null
  BY <1>1, EntryTypes
<1>5. \A i \in 1..Len(r) : PosOf(r[i].id) = i
  BY <1>1
<1>6. \A n \in Addresses : g[n] = IF n \in RankedIn(r) THEN Place(F[PosOf(n)]) ELSE <<Null, Null>>
  OBVIOUS
<1>a. DOMAIN g = Addresses /\ g = [n \in Addresses |-> g[n]]
  OBVIOUS
<1>b. Null \in Addresses /\ Null \notin RankedIn(r)
  BY <1>1, EntryTypes DEF Addresses
<1> HIDE DEF g, PosOf
<1>7. \A i \in 1..Len(r) : g[r[i].id] = Place(F[i])
  BY <1>4, <1>5, <1>6
<1>8. \A n \in Addresses \ RankedIn(r) : g[n] = <<Null, Null>>
  BY <1>6
<1>9. \A i \in 0..Len(r) : g[IdAt(r, i)] = Place(F[i])
  <2>1. ASSUME NEW i \in 0..Len(r) PROVE g[IdAt(r, i)] = Place(F[i])
    <3>1. CASE i \in 1..Len(r)
      BY <1>7, <3>1 DEF IdAt
    <3>2. CASE i = 0
      <4>1. IdAt(r, i) = Null /\ IdAt(r, i - 1) = Null /\ F[i] = i
        BY <1>1, <1>3, <3>2 DEF IdAt
      <4> QED
        BY <1>8, <1>b, <4>1
    <3> QED
      BY <1>1, <3>1, <3>2
  <2> QED
    BY <2>1
<1>10. ASSUME NEW n \in Addresses PROVE g[n] = Value(g, n)
  <2>1. CASE n \in RankedIn(r)
    <3>1. PICK i \in 1..Len(r) : n = r[i].id
      BY <1>1, <2>1, EntryTypes
    <3>2. n # Null /\ Prev_(d, n) = IdAt(r, i - 1) /\ IdAt(r, i) = n
      BY <1>4, <3>1, Links DEF IdAt
    <3>3. CASE i \in Stop
      <4>1. F[i] = i /\ ValidInsertPosition(d, icr, Prev_(d, n), n)
        BY <1>3, <3>1, <3>2, <3>3
      <4>2. g[n] = <<Prev_(d, n), n>>
        BY <1>7, <3>1, <3>2, <4>1
      <4> QED
        BY <4>1, <4>2
    <3>4. CASE i \notin Stop
      <4>1. F[i] = F[i - 1] /\ ~ValidInsertPosition(d, icr, Prev_(d, n), n)
        BY <1>3, <3>1, <3>2, <3>4
      <4>2. i - 1 \in 0..Len(r)
        BY <1>1
      <4>3. g[n] = g[Prev_(d, n)]
        BY <1>7, <1>9, <3>1, <3>2, <4>1, <4>2
      <4> QED
        BY <3>2, <4>1, <4>3
    <3> QED
      BY <3>3, <3>4
  <2>2. CASE n \notin RankedIn(r) /\ n # Null
    <3>1. Prev_(d, n) = Null /\ ~ValidInsertPosition(d, icr, Null, n)
      BY <2>2, Links
    <3> QED
      BY <1>8, <1>b, <2>2, <3>1
  <2>3. CASE n = Null
    <3>1. Prev_(d, n) = Null
      BY <1>b, <2>3, Links
    <3> QED
      BY <1>8, <1>b, <2>3, <3>1
  <2> QED
    BY <2>1, <2>2, <2>3
<1>11. IsAscent(g, d, icr)
  BY <1>10, <1>a DEF IsAscent
<1> QED
  BY <1>11 DEF Ascent

\* The place a search returns is one where icr may be put.
Lands(d, icr, at) ==
  at[1] \in Addresses /\ at[2] \in Addresses /\ ValidInsertPosition(d, icr, at[1], at[2])

\* Going down from a trove whose ICR is at least icr ends at a valid place:
\* of the troves from which it did not, the last would have the next one, or
\* the end of the list, below it.  The order of the list is not needed.
LEMMA DescentLands ==
  ASSUME NEW d, NEW r, IsList(d, r), NEW icr \in ICRs,
         NEW i \in 1..Len(r), icr <= r[i].icr
  PROVE  Lands(d, icr, Descent(d, icr)[r[i].id])
<1> DEFINE f == Descent(d, icr)
           Lost == {j \in 1..Len(r) : icr <= r[j].icr /\ ~Lands(d, icr, f[r[j].id])}
<1>1. IsDescent(f, d, icr)
  BY DescentExists
<1>2. \A p \in Addresses : f[p] = IF p = Null \/ ValidInsertPosition(d, icr, p, Next_(d, p))
                                  THEN <<p, Next_(d, p)>> ELSE f[Next_(d, p)]
  <2> HIDE DEF f
  <2> QED
    BY <1>1 DEF IsDescent
<1> HIDE DEF f
<1>3. IsRanking(r) /\ Len(r) \in Nat /\ icr \in Nat
  BY EntryTypes, ListAssumption DEF IsList
<1>4. SUFFICES ASSUME Lost # {} PROVE FALSE
  BY DEF f
<1>5. PICK j \in Lost : \A l \in Lost : l <= j
  <2>1. Lost \subseteq 1..Len(r)
    OBVIOUS
  <2> HIDE DEF Lost
  <2> QED
    BY <1>3, <1>4, <2>1, LargestNat
<1>6. j \in 1..Len(r) /\ icr <= r[j].icr /\ ~Lands(d, icr, f[r[j].id])
  BY <1>5
<1> DEFINE p == r[j].id
           n == IdAt(r, j + 1)
<1>7. /\ p \in Addresses /\ p # Null /\ Next_(d, p) = n /\ OldICR(d, p) = r[j].icr
      /\ n \in Addresses
  BY <1>3, <1>6, EntryTypes, Links
<1>8. ~ValidInsertPosition(d, icr, p, n) /\ f[p] = f[n]
  <2>1. f[p] = IF p = Null \/ ValidInsertPosition(d, icr, p, n) THEN <<p, n>> ELSE f[n]
    BY <1>2, <1>7
  <2>2. ValidInsertPosition(d, icr, p, n) => Lands(d, icr, <<p, n>>)
    BY <1>7 DEF Lands
  <2> HIDE DEF p, n
  <2>3. ~Lands(d, icr, f[p])
    BY <1>6 DEF p
  <2> QED
    BY <1>7, <2>1, <2>2, <2>3
<1>9. CASE j = Len(r)
  <2>1. n = Null /\ d.tail = p
    BY <1>3, <1>6, <1>9 DEF IsList, IdAt
  <2> QED
    BY <1>6, <1>7, <1>8, <2>1 DEF ValidInsertPosition
<1>10. CASE j # Len(r)
  <2>1. j + 1 \in 1..Len(r) /\ n = r[j + 1].id
    BY <1>3, <1>6, <1>10 DEF IdAt
  <2>2. n # Null /\ OldICR(d, n) = r[j + 1].icr /\ r[j + 1].icr \in Nat
    BY <1>3, <2>1, EntryTypes, Links
  <2>3. icr <= r[j + 1].icr
    BY <1>3, <1>6, <1>7, <1>8, <2>2 DEF ValidInsertPosition, Between
  <2>4. ~Lands(d, icr, f[r[j + 1].id])
    BY <1>6, <1>8, <2>1
  <2>5. j + 1 \in Lost
    BY <2>1, <2>3, <2>4
  <2> QED
    BY <1>5, <1>6, <2>5
<1> QED
  BY <1>9, <1>10

\* The same upwards, from a trove whose ICR is at most icr.
LEMMA AscentLands ==
  ASSUME NEW d, NEW r, IsList(d, r), NEW icr \in ICRs,
         NEW i \in 1..Len(r), icr >= r[i].icr
  PROVE  Lands(d, icr, Ascent(d, icr)[r[i].id])
<1> DEFINE f == Ascent(d, icr)
           Lost == {j \in 1..Len(r) : icr >= r[j].icr /\ ~Lands(d, icr, f[r[j].id])}
<1>1. IsAscent(f, d, icr)
  BY AscentExists
<1>2. \A n \in Addresses : f[n] = IF n = Null \/ ValidInsertPosition(d, icr, Prev_(d, n), n)
                                  THEN <<Prev_(d, n), n>> ELSE f[Prev_(d, n)]
  <2> HIDE DEF f
  <2> QED
    BY <1>1 DEF IsAscent
<1> HIDE DEF f
<1>3. IsRanking(r) /\ Len(r) \in Nat /\ icr \in Nat
  BY EntryTypes, ListAssumption DEF IsList
<1>4. SUFFICES ASSUME Lost # {} PROVE FALSE
  BY DEF f
<1>5. PICK j \in Lost : \A l \in Lost : j <= l
  <2>1. Lost \subseteq 1..Len(r)
    OBVIOUS
  <2> HIDE DEF Lost
  <2> QED
    BY <1>3, <1>4, <2>1, SmallestNat
<1>6. j \in 1..Len(r) /\ icr >= r[j].icr /\ ~Lands(d, icr, f[r[j].id])
  BY <1>5
<1> DEFINE n == r[j].id
           p == IdAt(r, j - 1)
<1>7. /\ n \in Addresses /\ n # Null /\ Prev_(d, n) = p /\ OldICR(d, n) = r[j].icr
      /\ p \in Addresses
  BY <1>3, <1>6, EntryTypes, Links
<1>8. ~ValidInsertPosition(d, icr, p, n) /\ f[n] = f[p]
  <2>1. f[n] = IF n = Null \/ ValidInsertPosition(d, icr, p, n) THEN <<p, n>> ELSE f[p]
    BY <1>2, <1>7
  <2>2. ValidInsertPosition(d, icr, p, n) => Lands(d, icr, <<p, n>>)
    BY <1>7 DEF Lands
  <2> HIDE DEF p, n
  <2>3. ~Lands(d, icr, f[n])
    BY <1>6 DEF n
  <2> QED
    BY <1>7, <2>1, <2>2, <2>3
<1>9. CASE j = 1
  <2>1. p = Null /\ d.head = n
    BY <1>3, <1>6, <1>9 DEF IsList, IdAt
  <2> QED
    BY <1>6, <1>7, <1>8, <2>1 DEF ValidInsertPosition
<1>10. CASE j # 1
  <2>1. j - 1 \in 1..Len(r) /\ p = r[j - 1].id
    BY <1>3, <1>6, <1>10 DEF IdAt
  <2>2. p # Null /\ OldICR(d, p) = r[j - 1].icr /\ r[j - 1].icr \in Nat
    <3> DEFINE l == j - 1
    <3>1. l \in 1..Len(r) /\ p = r[l].id
      BY <2>1
    <3> HIDE DEF l, p
    <3>2. p # Null /\ OldICR(d, p) = r[l].icr /\ r[l].icr \in Nat
      BY <1>3, <3>1, EntryTypes, Links
    <3> QED
      BY <3>2 DEF l
  <2>a. Next_(d, p) = n
    <3>1. Next_(d, r[j - 1].id) = IdAt(r, j - 1 + 1) /\ j - 1 + 1 = j
      BY <1>3, <1>6, <2>1, Links
    <3> QED
      BY <1>6, <2>1, <3>1 DEF IdAt
  <2>3. icr >= r[j - 1].icr
    BY <1>3, <1>6, <1>7, <1>8, <2>2, <2>a DEF ValidInsertPosition, Between
  <2>4. ~Lands(d, icr, f[r[j - 1].id])
    BY <1>6, <1>8, <2>1
  <2>5. j - 1 \in Lost
    BY <2>1, <2>3, <2>4
  <2> QED
    BY <1>3, <1>5, <1>6, <2>5
<1> QED
  BY <1>9, <1>10

(* findInsertPosition finds a place in every list, whatever the hints.     *)
LEMMA SearchLands ==
  ASSUME NEW d, NEW r, IsList(d, r), NEW icr \in ICRs, NEW p \in Addresses, NEW n \in Addresses
  PROVE  Lands(d, icr, FindInsertPosition(d, icr, p, n))
<1>1. /\ IsRanking(r) /\ Len(r) \in Nat /\ icr \in Nat
      /\ \A i \in 1..Len(r) : r[i].id \in Addresses /\ r[i].id # Null /\ r[i].icr \in Nat
  BY EntryTypes, ListAssumption DEF IsList
<1>2. \A a \in Addresses : contains(d, a) => \E i \in 1..Len(r) : a = r[i].id
  <2>1. \A a \in Addresses : contains(d, a) => a \in RankedIn(r)
    BY DEF IsList, contains, EmptyNode
  <2> QED
    BY <1>1, <2>1, EntryTypes
<1>a. \A i \in 1..Len(r) : OldICR(d, r[i].id) = r[i].icr
  BY Links
<1>b. Null \in Addresses /\ d.head \in Addresses
  BY DEF Addresses, IsList, Lists
<1>3. \A a \in Addresses : ValidInsertPosition(d, icr, Null, a) => Lands(d, icr, <<Null, a>>)
  BY <1>b DEF Lands
<1>4. \A a \in Addresses : ValidInsertPosition(d, icr, a, Null) => Lands(d, icr, <<a, Null>>)
  BY <1>b DEF Lands
<1>5. CASE GoodPrevHint(d, icr, p)
  <2>1. PICK i \in 1..Len(r) : p = r[i].id /\ icr <= r[i].icr
    BY <1>2, <1>5, <1>a DEF GoodPrevHint
  <2>2. CASE d.head = p /\ icr >= OldICR(d, p)
    <3>1. ValidInsertPosition(d, icr, Null, p)
      BY <1>1, <2>1, <2>2 DEF ValidInsertPosition
    <3> QED
      BY <1>3, <1>5, <2>2, <3>1, DescendUnfolded DEF FindInsertPosition
  <2>3. CASE ~(d.head = p /\ icr >= OldICR(d, p))
    <3>1. Lands(d, icr, Descent(d, icr)[p])
      BY <2>1, DescentLands
    <3> QED
      BY <1>5, <2>3, <3>1, DescendUnfolded DEF FindInsertPosition
  <2> QED
    BY <2>2, <2>3
<1>6. CASE ~GoodPrevHint(d, icr, p) /\ GoodNextHint(d, icr, n)
  <2>1. PICK i \in 1..Len(r) : n = r[i].id /\ icr >= r[i].icr
    BY <1>2, <1>6, <1>a DEF GoodNextHint
  <2>2. CASE d.tail = n /\ icr <= OldICR(d, n)
    <3>1. ValidInsertPosition(d, icr, n, Null)
      BY <1>1, <2>1, <2>2 DEF ValidInsertPosition
    <3> QED
      BY <1>4, <1>6, <2>2, <3>1, AscendUnfolded DEF FindInsertPosition
  <2>3. CASE ~(d.tail = n /\ icr <= OldICR(d, n))
    <3>1. Lands(d, icr, Ascent(d, icr)[n])
      BY <2>1, AscentLands
    <3> QED
      BY <1>6, <2>3, <3>1, AscendUnfolded DEF FindInsertPosition
  <2> QED
    BY <2>2, <2>3
<1>7. CASE ~GoodPrevHint(d, icr, p) /\ ~GoodNextHint(d, icr, n)
  <2>1. CASE d.head = Null
    <3>1. Len(r) = 0 /\ d.size = 0
      BY <1>1, <2>1 DEF IsList, IdAt
    <3>2. OldICR(d, Null) = 0 /\ ValidInsertPosition(d, icr, Null, Null)
      BY <3>1 DEF IsList, OldICR, EmptyNode, RankedIn, Addresses, ValidInsertPosition
    <3> QED
      BY <1>1, <1>3, <1>7, <1>b, <2>1, <3>2, DescendUnfolded DEF FindInsertPosition
  <2>2. CASE d.head # Null /\ icr >= OldICR(d, d.head)
    <3>1. ValidInsertPosition(d, icr, Null, d.head)
      BY <2>2 DEF ValidInsertPosition
    <3> QED
      BY <1>3, <1>7, <1>b, <2>2, <3>1, DescendUnfolded DEF FindInsertPosition
  <2>3. CASE d.head # Null /\ ~(icr >= OldICR(d, d.head))
    <3>1. 1 \in 1..Len(r) /\ d.head = r[1].id
      BY <1>1, <2>3 DEF IsList, IdAt
    <3>2. icr <= r[1].icr
      BY <1>1, <1>a, <2>3, <3>1
    <3>3. Lands(d, icr, Descent(d, icr)[d.head])
      BY <3>1, <3>2, DescentLands
    <3> QED
      BY <1>7, <2>3, <3>3, DescendUnfolded DEF FindInsertPosition
  <2> QED
    BY <2>1, <2>2, <2>3
<1> QED
  BY <1>5, <1>6, <1>7

(* _insert and _remove, on rankings.                                       *)
Descends(r) == \A i, j \in 1..Len(r) : i < j => r[i].icr >= r[j].icr

\* _insert puts id in a place of the ranking that keeps its order.
LEMMA InsertedFound ==
  ASSUME NEW d, NEW r, IsList(d, r), NEW id \in Ids, NEW icr \in ICRs,
         NEW p \in Addresses, NEW n \in Addresses, id \notin RankedIn(r)
  PROVE  \E k \in 1..(Len(r) + 1) :
           /\ Fits(r, k, icr)
           /\ IsList(Inserted(d, id, icr, p, n), InsertAt(r, k, [id |-> id, icr |-> icr]))
<1> DEFINE at == IF ValidInsertPosition(d, icr, p, n) THEN <<p, n>>
                 ELSE FindInsertPosition(d, icr, p, n)
           e == Recorded(Linked(d, id, at[1], at[2]), id, icr)
<1>1. Lands(d, icr, at)
  BY SearchLands DEF Lands
<1>2. Inserted(d, id, icr, p, n) = e
  BY DEF Inserted, Recorded
<1> HIDE DEF at
<1>3. PICK k \in 1..(Len(r) + 1) :
        at[1] = IdAt(r, k - 1) /\ at[2] = IdAt(r, k) /\ Fits(r, k, icr)
  BY <1>1, ValidPlace DEF Lands
<1>4. /\ IsRanking(r) /\ Len(r) \in Nat /\ d \in Lists
      /\ \A i \in 1..Len(r) : r[i].id # Null /\ r[i].id # id
      /\ \A i, j \in 1..Len(r) : r[i].id = r[j].id => i = j
      /\ d.head = IdAt(r, 1) /\ d.tail = IdAt(r, Len(r))
      /\ d.nodes[id] = EmptyNode
      /\ id # Null
  BY EntryTypes, NullIsNoId DEF IsList, IsRanking, RankedIn, Addresses
<1>5. /\ at[1] \in Addresses /\ at[2] \in Addresses
      /\ at[1] # id /\ at[2] # id
      /\ at[1] = at[2] => at[1] = Null
      /\ at[1] = Null => d.head = at[2]
      /\ at[2] = Null => d.tail = at[1]
  <2>1. at[1] # id /\ at[2] # id
    BY <1>3, <1>4 DEF IdAt
  <2>2. at[1] = at[2] => at[1] = Null
    BY <1>3, <1>4 DEF IdAt
  <2>3. at[1] = Null => k = 1
    BY <1>3, <1>4 DEF IdAt
  <2>4. at[2] = Null => k - 1 = Len(r)
    BY <1>3, <1>4 DEF IdAt
  <2> QED
    BY <1>1, <1>3, <1>4, <2>1, <2>2, <2>3, <2>4 DEF Lands
<1>6. IsInserted(e, d, id, icr, at[1], at[2])
  <2> DEFINE q == at[1]
             m == at[2]
  <2>1. /\ q \in Addresses /\ m \in Addresses
        /\ q # id /\ m # id
        /\ q = m => q = Null
        /\ q = Null => d.head = m
        /\ m = Null => d.tail = q
    BY <1>5
  <2> HIDE DEF q, m
  <2>2. IsInserted(Recorded(Linked(d, id, q, m), id, icr), d, id, icr, q, m)
    BY <1>4, <2>1, InsertedIs
  <2> QED
    BY <2>2 DEF q, m
<1> HIDE DEF e
<1>7. IsInserted(e, d, id, icr, IdAt(r, k - 1), IdAt(r, k))
  BY <1>3, <1>6
<1>8. IsList(e, InsertAt(r, k, [id |-> id, icr |-> icr]))
  BY <1>7, InsertedList
<1> QED
  BY <1>2, <1>3, <1>8

LEMMA InsertedDescends ==
  ASSUME NEW r, IsRanking(r), Descends(r), NEW k \in 1..(Len(r) + 1), NEW id \in Ids,
         NEW icr \in ICRs, id \notin RankedIn(r), Fits(r, k, icr)
  PROVE  Descends(InsertAt(r, k, [id |-> id, icr |-> icr]))
<1> DEFINE s == InsertAt(r, k, [id |-> id, icr |-> icr])
<1>1. IsPlacedAt(s, r, k, id, icr)
  BY InsertedRanking
<1> HIDE DEF s
<1>2. /\ Len(r) \in Nat /\ icr \in Nat
      /\ \A i \in 1..Len(r) : r[i].icr \in Nat
  BY EntryTypes, ListAssumption
<1>3. /\ Len(s) = Len(r) + 1 /\ s[k].icr = icr
      /\ \A j \in 1..Len(s) : j < k => s[j] = r[j] /\ j \in 1..Len(r)
      /\ \A j \in 1..Len(s) : j > k => s[j] = r[j - 1] /\ j - 1 \in 1..Len(r)
  BY <1>1 DEF IsPlacedAt
<1>4. \A i \in 1..Len(r) : i < k => r[i].icr >= icr
  <2>1. ASSUME NEW i \in 1..Len(r), i < k PROVE r[i].icr >= icr
    <3>1. k - 1 \in 1..Len(r) /\ icr <= r[k - 1].icr
      BY <1>2, <2>1 DEF Fits
    <3>2. i < k - 1 => r[i].icr >= r[k - 1].icr
      BY <3>1 DEF Descends
    <3>3. i = k - 1 \/ i < k - 1
      BY <1>2, <2>1
    <3> QED
      BY <1>2, <3>1, <3>2, <3>3
  <2> QED
    BY <2>1
<1>5. \A i \in 1..Len(r) : i >= k => icr >= r[i].icr
  <2>1. ASSUME NEW i \in 1..Len(r), i >= k PROVE icr >= r[i].icr
    <3>1. k \in 1..Len(r) /\ icr >= r[k].icr
      BY <1>2, <2>1 DEF Fits
    <3>2. k < i => r[k].icr >= r[i].icr
      BY <3>1 DEF Descends
    <3>3. i = k \/ k < i
      BY <1>2, <2>1
    <3> QED
      BY <1>2, <3>1, <3>2, <3>3
  <2> QED
    BY <2>1
<1>6. ASSUME NEW i \in 1..Len(s), NEW j \in 1..Len(s), i < j
      PROVE  s[i].icr >= s[j].icr
  <2>1. CASE j < k
    BY <1>2, <1>3, <1>6, <2>1 DEF Descends
  <2>2. CASE j = k
    BY <1>2, <1>3, <1>4, <1>6, <2>2
  <2>3. CASE j > k
    <3>1. s[j] = r[j - 1] /\ j - 1 \in 1..Len(r)
      BY <1>3, <2>3
    <3>2. CASE i < k
      <4>1. s[i] = r[i] /\ i \in 1..Len(r) /\ i <= j - 1
        BY <1>2, <1>3, <1>6, <3>2
      <4> QED
        BY <1>2, <1>4, <1>5, <2>3, <3>1, <3>2, <4>1 DEF Descends
    <3>3. CASE i = k
      BY <1>2, <1>3, <1>5, <2>3, <3>1, <3>3
    <3>4. CASE i > k
      <4>1. s[i] = r[i - 1] /\ i - 1 \in 1..Len(r) /\ i - 1 < j - 1
        BY <1>2, <1>3, <1>6, <3>4
      <4> QED
        BY <3>1, <4>1 DEF Descends
    <3> QED
      BY <1>2, <1>3, <3>2, <3>3, <3>4
  <2> QED
    BY <1>2, <1>3, <2>1, <2>2, <2>3
<1> QED
  BY <1>6 DEF Descends, s

LEMMA RemovedDescends ==
  ASSUME NEW r, IsRanking(r), Descends(r), NEW k \in 1..Len(r)
  PROVE  Descends(RemoveAt(r, k))
<1> DEFINE s == RemoveAt(r, k)
<1>1. IsTakenFrom(s, r, k)
  BY RemovedRanking
<1> HIDE DEF s
<1>2. /\ Len(r) \in Nat /\ Len(s) = Len(r) - 1
      /\ \A j \in 1..Len(s) : j < k => s[j] = r[j]
      /\ \A j \in 1..Len(s) : j >= k => s[j] = r[j + 1]
  BY <1>1, EntryTypes DEF IsTakenFrom
<1>3. ASSUME NEW i \in 1..Len(s), NEW j \in 1..Len(s), i < j
      PROVE  s[i].icr >= s[j].icr
  <2>1. PICK a \in 1..Len(r) : s[i] = r[a] /\ a = IF i < k THEN i ELSE i + 1
    BY <1>2
  <2>2. PICK b \in 1..Len(r) : s[j] = r[b] /\ b = IF j < k THEN j ELSE j + 1
    BY <1>2
  <2>3. a < b
    BY <1>2, <1>3, <2>1, <2>2
  <2> QED
    BY <2>1, <2>2, <2>3 DEF Descends
<1> QED
  BY <1>3 DEF Descends, s

(* The chains that getNext and getPrev follow, for any storage.            *)
IsHeadChain(f, d) == f = [n \in 1..MaxSize |-> IF n = 1 THEN d.head ELSE Next_(d, f[n - 1])]
IsTailChain(f, d) == f = [n \in 1..MaxSize |-> IF n = 1 THEN d.tail ELSE Prev_(d, f[n - 1])]
HeadChain(d) == CHOOSE f : IsHeadChain(f, d)
TailChain(d) == CHOOSE f : IsTailChain(f, d)
RankingOf(d) == [i \in 1..d.size |-> [id |-> HeadChain(d)[i], icr |-> OldICR(d, HeadChain(d)[i])]]

LEMMA ChainNames ==
  /\ FromHead = HeadChain(data) /\ FromTail = TailChain(data) /\ Ranking = RankingOf(data)
  /\ Ranking' = RankingOf(data')
<1>1. FromHead = HeadChain(data)
  BY DEF FromHead, HeadChain, IsHeadChain
<1>2. FromTail = TailChain(data)
  BY DEF FromTail, TailChain, IsTailChain
<1>3. FromHead' = HeadChain(data')
  BY DEF FromHead, HeadChain, IsHeadChain
<1>4. Ranking = RankingOf(data)
  BY <1>1 DEF Ranking, RankingOf
<1>5. Ranking' = RankingOf(data')
  BY <1>3 DEF Ranking, RankingOf
<1> QED
  BY <1>1, <1>2, <1>4, <1>5

\* Followed from the head, nextId gives the ranking.
LEMMA HeadChainIs ==
  ASSUME NEW d, NEW r, IsList(d, r)
  PROVE  \A i \in 1..MaxSize : HeadChain(d)[i] = IdAt(r, i)
<1> DEFINE g == [i \in 1..MaxSize |-> IdAt(r, i)]
           f == HeadChain(d)
<1>1. Len(r) \in Nat /\ d.head = IdAt(r, 1) /\ MaxSize \in Nat
  BY EntryTypes, ListAssumption DEF IsList
<1>2. ASSUME NEW i \in Nat, i > 1 PROVE Next_(d, IdAt(r, i - 1)) = IdAt(r, i)
  <2>1. CASE i - 1 \in 1..Len(r)
    <3>1. Next_(d, r[i - 1].id) = IdAt(r, i - 1 + 1) /\ i - 1 + 1 = i
      BY <2>1, Links
    <3> QED
      BY <2>1, <3>1 DEF IdAt
  <2>2. CASE i - 1 \notin 1..Len(r)
    <3>1. IdAt(r, i - 1) = Null /\ IdAt(r, i) = Null
      BY <1>1, <1>2, <2>2 DEF IdAt
    <3>2. Null \in Addresses \ RankedIn(r)
      BY EntryTypes DEF Addresses, IsList
    <3> QED
      BY <3>1, <3>2, Links
  <2> QED
    BY <2>1, <2>2
<1>3. IsHeadChain(g, d)
  <2>1. \A i \in 1..MaxSize : g[i] = IF i = 1 THEN d.head ELSE Next_(d, g[i - 1])
    <3>1. ASSUME NEW i \in 1..MaxSize
          PROVE  g[i] = IF i = 1 THEN d.head ELSE Next_(d, g[i - 1])
      <4>1. CASE i = 1
        BY <1>1, <4>1
      <4>2. CASE i # 1
        <5>1. i - 1 \in 1..MaxSize /\ i \in Nat /\ i > 1
          BY <1>1, <4>2
        <5> QED
          BY <1>2, <4>2, <5>1
      <4> QED
        BY <4>1, <4>2
    <3> QED
      BY <3>1
  <2>2. g = [i \in 1..MaxSize |-> g[i]]
    OBVIOUS
  <2> HIDE DEF g
  <2> QED
    BY <2>1, <2>2 DEF IsHeadChain
<1>4. IsHeadChain(f, d)
  <2> HIDE DEF g
  <2> QED
    BY <1>3 DEF HeadChain
<1> HIDE DEF f
<1>5. \A i \in 1..MaxSize : f[i] = IF i = 1 THEN d.head ELSE Next_(d, f[i - 1])
  BY <1>4 DEF IsHeadChain
<1> DEFINE Off == {i \in 1..MaxSize : f[i] # IdAt(r, i)}
<1>6. SUFFICES ASSUME Off # {} PROVE FALSE
  BY DEF f
<1>7. PICK j \in Off : \A i \in Off : j <= i
  <2>1. Off \subseteq 1..MaxSize
    OBVIOUS
  <2> HIDE DEF Off
  <2> QED
    BY <1>1, <1>6, <2>1, SmallestNat
<1>8. j \in 1..MaxSize /\ f[j] # IdAt(r, j)
  BY <1>7
<1>9. j # 1
  BY <1>1, <1>5, <1>8
<1>10. j - 1 \in 1..MaxSize /\ j \in Nat /\ j > 1 /\ ~(j <= j - 1)
  BY <1>1, <1>8, <1>9
<1>11. f[j - 1] = IdAt(r, j - 1)
  BY <1>7, <1>10
<1> QED
  BY <1>2, <1>5, <1>8, <1>9, <1>10, <1>11

\* Followed from the tail, prevId gives the ranking backwards.
LEMMA TailChainIs ==
  ASSUME NEW d, NEW r, IsList(d, r)
  PROVE  \A i \in 1..MaxSize : TailChain(d)[i] = IdAt(r, Len(r) + 1 - i)
<1> DEFINE At(i) == IdAt(r, Len(r) + 1 - i)
           g == [i \in 1..MaxSize |-> At(i)]
           f == TailChain(d)
<1>1. Len(r) \in Nat /\ d.tail = At(1) /\ MaxSize \in Nat
  <2>1. Len(r) \in Nat /\ Len(r) + 1 - 1 = Len(r)
    BY EntryTypes DEF IsList
  <2> QED
    BY <2>1, ListAssumption DEF IsList
<1>2. ASSUME NEW i \in Nat, i > 1 PROVE Prev_(d, At(i - 1)) = At(i)
  <2> DEFINE l == Len(r) + 1 - (i - 1)
  <2>0. l \in Int /\ l - 1 = Len(r) + 1 - i
    BY <1>1
  <2> HIDE DEF l
  <2>1. CASE l \in 1..Len(r)
    <3>1. Prev_(d, r[l].id) = IdAt(r, l - 1)
      BY <2>1, Links
    <3> QED
      BY <2>0, <2>1, <3>1 DEF IdAt, l
  <2>2. CASE l \notin 1..Len(r)
    <3>1. IdAt(r, l) = Null /\ IdAt(r, l - 1) = Null
      BY <1>1, <1>2, <2>0, <2>2 DEF IdAt, l
    <3>2. Null \in Addresses \ RankedIn(r)
      BY EntryTypes DEF Addresses, IsList
    <3>3. Prev_(d, Null) = Null
      BY <3>2, Links
    <3> QED
      BY <2>0, <3>1, <3>3 DEF l
  <2> QED
    BY <2>1, <2>2
<1> HIDE DEF At
<1>3. IsTailChain(g, d)
  <2>1. \A i \in 1..MaxSize : g[i] = IF i = 1 THEN d.tail ELSE Prev_(d, g[i - 1])
    <3>1. ASSUME NEW i \in 1..MaxSize
          PROVE  g[i] = IF i = 1 THEN d.tail ELSE Prev_(d, g[i - 1])
      <4>1. CASE i = 1
        BY <1>1, <4>1
      <4>2. CASE i # 1
        <5>1. i - 1 \in 1..MaxSize /\ i \in Nat /\ i > 1
          BY <1>1, <4>2
        <5> QED
          BY <1>2, <4>2, <5>1
      <4> QED
        BY <4>1, <4>2
    <3> QED
      BY <3>1
  <2>2. g = [i \in 1..MaxSize |-> g[i]]
    OBVIOUS
  <2> HIDE DEF g
  <2> QED
    BY <2>1, <2>2 DEF IsTailChain
<1>4. IsTailChain(f, d)
  <2> HIDE DEF g
  <2> QED
    BY <1>3 DEF TailChain
<1> HIDE DEF f
<1>5. \A i \in 1..MaxSize : f[i] = IF i = 1 THEN d.tail ELSE Prev_(d, f[i - 1])
  BY <1>4 DEF IsTailChain
<1> DEFINE Off == {i \in 1..MaxSize : f[i] # At(i)}
<1>6. SUFFICES ASSUME Off # {} PROVE FALSE
  BY DEF f, At
<1>7. PICK j \in Off : \A i \in Off : j <= i
  <2>1. Off \subseteq 1..MaxSize
    OBVIOUS
  <2> HIDE DEF Off
  <2> QED
    BY <1>1, <1>6, <2>1, SmallestNat
<1>8. j \in 1..MaxSize /\ f[j] # At(j)
  BY <1>7
<1>9. j # 1
  BY <1>1, <1>5, <1>8
<1>10. j - 1 \in 1..MaxSize /\ j \in Nat /\ j > 1 /\ ~(j <= j - 1)
  BY <1>1, <1>8, <1>9
<1>11. f[j - 1] = At(j - 1)
  BY <1>7, <1>10
<1> QED
  BY <1>2, <1>5, <1>8, <1>9, <1>10, <1>11

LEMMA RankingIs ==
  ASSUME NEW d, NEW r, IsList(d, r), Len(r) <= MaxSize
  PROVE  RankingOf(d) = r
<1>1. r \in Seq(Entries) /\ Len(r) \in Nat /\ d.size = Len(r) /\ MaxSize \in Nat
  BY EntryTypes, ListAssumption DEF IsList, IsRanking
<1>2. ASSUME NEW i \in 1..Len(r)
      PROVE  [id |-> HeadChain(d)[i], icr |-> OldICR(d, HeadChain(d)[i])] = r[i]
  <2>1. i \in 1..MaxSize
    BY <1>1
  <2>2. HeadChain(d)[i] = r[i].id
    BY <2>1, HeadChainIs DEF IdAt
  <2>3. OldICR(d, r[i].id) = r[i].icr
    BY Links
  <2>4. r[i] \in Entries
    BY <1>1
  <2> QED
    BY <2>2, <2>3, <2>4 DEF Entries
<1>3. r = [i \in 1..Len(r) |-> r[i]]
  BY <1>1
<1> QED
  BY <1>1, <1>2, <1>3 DEF RankingOf
-----------------------------------------------------------------------------
(* The registry.                                                           *)

(* The list is the one a ranking describes; the ranking descends, fits the *)
(* list's size and holds the open troves, as many as the array.            *)
IsRegistry(d, r) ==
  /\ IsList(d, r)
  /\ Descends(r)
  /\ Len(r) <= MaxSize

RegistryInv ==
  /\ OwnersInv
  /\ IsRegistry(data, Ranking)
  /\ open = RankedIn(Ranking)
  /\ Len(TroveOwners) = Len(Ranking)

LEMMA RegistryRanked ==
  ASSUME NEW d, NEW r, IsRegistry(d, r)
  PROVE  RankingOf(d) = r
  BY RankingIs DEF IsRegistry

\* What an insertion leaves.
LEMMA InsertedRegistry ==
  ASSUME NEW d, NEW r, IsRegistry(d, r), Len(r) < MaxSize, NEW id \in Ids, NEW icr \in ICRs,
         NEW p \in Addresses, NEW n \in Addresses, id \notin RankedIn(r)
  PROVE  \E k \in 1..(Len(r) + 1) :
           LET s == InsertAt(r, k, [id |-> id, icr |-> icr])
           IN  /\ IsRegistry(Inserted(d, id, icr, p, n), s)
               /\ Len(s) = Len(r) + 1
               /\ RankedIn(s) = RankedIn(r) \cup {id}
<1>1. IsList(d, r) /\ Descends(r) /\ IsRanking(r) /\ Len(r) \in Nat /\ MaxSize \in Nat
  BY EntryTypes, ListAssumption DEF IsRegistry, IsList
<1>2. PICK k \in 1..(Len(r) + 1) :
        /\ Fits(r, k, icr)
        /\ IsList(Inserted(d, id, icr, p, n), InsertAt(r, k, [id |-> id, icr |-> icr]))
  BY <1>1, InsertedFound
<1> DEFINE s == InsertAt(r, k, [id |-> id, icr |-> icr])
<1>3. IsPlacedAt(s, r, k, id, icr)
  BY <1>1, InsertedRanking
<1>4. Descends(s)
  BY <1>1, <1>2, InsertedDescends
<1>5. Len(s) = Len(r) + 1 /\ RankedIn(s) = RankedIn(r) \cup {id}
  BY <1>3 DEF IsPlacedAt
<1>6. IsList(Inserted(d, id, icr, p, n), s)
  BY <1>2
<1> HIDE DEF s
<1>7. IsRegistry(Inserted(d, id, icr, p, n), s)
  BY <1>1, <1>4, <1>5, <1>6 DEF IsRegistry
<1> QED
  BY <1>5, <1>7 DEF s

LEMMA RemovedRegistry ==
  ASSUME NEW d, NEW r, IsRegistry(d, r), NEW k \in 1..Len(r)
  PROVE  LET s == RemoveAt(r, k)
         IN  /\ IsRegistry(Removed(d, r[k].id), s)
             /\ Len(s) = Len(r) - 1
             /\ RankedIn(s) = RankedIn(r) \ {r[k].id}
<1>1. IsList(d, r) /\ Descends(r) /\ IsRanking(r) /\ Len(r) \in Nat /\ MaxSize \in Nat /\ Len(r) <= MaxSize
  BY EntryTypes, ListAssumption DEF IsRegistry, IsList
<1> DEFINE s == RemoveAt(r, k)
<1>2. IsTakenFrom(s, r, k)
  BY <1>1, RemovedRanking
<1>3. Descends(s)
  BY <1>1, RemovedDescends
<1>4. Len(s) = Len(r) - 1 /\ RankedIn(s) = RankedIn(r) \ {r[k].id}
  BY <1>2 DEF IsTakenFrom
<1>5. IsList(Removed(d, r[k].id), s)
  BY <1>1, RemovedList
<1> HIDE DEF s
<1>6. IsRegistry(Removed(d, r[k].id), s)
  BY <1>1, <1>3, <1>4, <1>5 DEF IsRegistry
<1> QED
  BY <1>4, <1>6 DEF s

LEMMA RegistryInit == Init => RegistryInv
<1> SUFFICES ASSUME Init PROVE RegistryInv
  OBVIOUS
<1>1. data = EmptyList /\ TroveOwners = <<>> /\ open = {}
  BY DEF Init
<1>2. IsRegistry(EmptyList, <<>>)
  <2>1. EmptyNode \in Nodes
    BY ListAssumption DEF EmptyNode, Nodes, Addresses
  <2>2. EmptyList \in Lists
    BY <2>1 DEF EmptyList, Lists, Addresses
  <2>3. \A a \in Addresses : EmptyList.nodes[a] = EmptyNode
    BY DEF EmptyList
  <2>4. IsRanking(<<>>) /\ Len(<<>>) = 0
    BY DEF IsRanking
  <2>5. IdAt(<<>>, 1) = Null /\ IdAt(<<>>, 0) = Null
    BY <2>4 DEF IdAt
  <2>6. EmptyList.head = Null /\ EmptyList.tail = Null /\ EmptyList.size = 0
    BY DEF EmptyList
  <2>7. IsList(EmptyList, <<>>)
    BY <2>2, <2>3, <2>4, <2>5, <2>6 DEF IsList
  <2> QED
    BY <2>4, <2>7, ListAssumption DEF IsRegistry, Descends
<1>3. Ranking = <<>>
  BY <1>1, <1>2, RegistryRanked, ChainNames
<1> QED
  BY <1>1, <1>2, <1>3, OwnersInit DEF RegistryInv, RankedIn

\* What each operation does to the ranking.
OpenedAt(id, icr, k) ==
  /\ Ranking' = InsertAt(Ranking, k, [id |-> id, icr |-> icr])
  /\ id \notin RankedIn(Ranking)
  /\ Len(Ranking) < MaxSize

LEMMA RegistryOpen ==
  ASSUME NEW id \in Ids, NEW icr \in ICRs, NEW p \in Addresses, NEW n \in Addresses,
         RegistryInv, OpenTrove(id, icr, p, n)
  PROVE  RegistryInv' /\ \E k \in 1..(Len(Ranking) + 1) : OpenedAt(id, icr, k)
<1> DEFINE r == Ranking
<1>1. /\ IsRegistry(data, r) /\ open = RankedIn(r) /\ Len(TroveOwners) = Len(r) /\ OwnersInv
      /\ Len(r) \in Nat /\ MaxSize \in Nat /\ Len(r) <= MaxSize /\ data.size = Len(r)
  BY EntryTypes, ListAssumption DEF RegistryInv, IsRegistry, IsList
<1>2. /\ id \notin open /\ data.size # MaxSize
      /\ data' = Inserted(data, id, icr, p, n)
      /\ TroveOwners' = Append(TroveOwners, id)
      /\ open' = open \cup {id}
  BY DEF OpenTrove, insert, CanInsert, IsFull
<1> HIDE DEF r
<1>3. PICK k \in 1..(Len(r) + 1) :
        LET s == InsertAt(r, k, [id |-> id, icr |-> icr])
        IN  /\ IsRegistry(data', s)
            /\ Len(s) = Len(r) + 1
            /\ RankedIn(s) = RankedIn(r) \cup {id}
  BY <1>1, <1>2, InsertedRegistry
<1> DEFINE s == InsertAt(r, k, [id |-> id, icr |-> icr])
<1>4. IsRegistry(data', s) /\ Len(s) = Len(r) + 1 /\ RankedIn(s) = RankedIn(r) \cup {id}
  BY <1>3
<1>5. Ranking' = s
  <2> HIDE DEF s
  <2> QED
    BY <1>4, RegistryRanked, ChainNames
<1>6. Len(TroveOwners') = Len(TroveOwners) + 1
  BY <1>1, <1>2 DEF OwnersInv, OwnersTypeOK
<1>7. OwnersInv'
  BY <1>1, OwnersOpen
<1>8. RegistryInv'
  <2> HIDE DEF s
  <2> QED
    BY <1>1, <1>2, <1>4, <1>5, <1>6, <1>7 DEF RegistryInv
<1>9. OpenedAt(id, icr, k)
  BY <1>1, <1>2, <1>5 DEF OpenedAt, r
<1> QED
  BY <1>8, <1>9 DEF r

LEMMA RegistryClose ==
  ASSUME NEW id \in Ids, RegistryInv, CloseTrove(id)
  PROVE  /\ RegistryInv'
         /\ \E k \in 1..Len(Ranking) : Ranking[k].id = id /\ Ranking' = RemoveAt(Ranking, k)
<1> DEFINE r == Ranking
<1>1. /\ IsRegistry(data, r) /\ open = RankedIn(r) /\ Len(TroveOwners) = Len(r) /\ OwnersInv
      /\ IsRanking(r)
  BY DEF RegistryInv, IsRegistry, IsList
<1>2. /\ id \in open
      /\ data' = Removed(data, id)
      /\ open' = open \ {id}
  BY DEF CloseTrove, remove
<1> HIDE DEF r
<1>3. PICK k \in 1..Len(r) : r[k].id = id
  BY <1>1, <1>2 DEF RankedIn
<1> DEFINE s == RemoveAt(r, k)
<1>4. /\ IsRegistry(data', s)
      /\ Len(s) = Len(r) - 1
      /\ RankedIn(s) = RankedIn(r) \ {id}
  BY <1>1, <1>2, <1>3, RemovedRegistry
<1>5. Ranking' = s
  <2> HIDE DEF s
  <2> QED
    BY <1>4, RegistryRanked, ChainNames
<1>6. Len(TroveOwners') = Len(TroveOwners) - 1
  <2> DEFINE L == Len(TroveOwners)
             t == [TroveOwners EXCEPT ![arrayIndex[id] + 1] = TroveOwners[L]]
  <2>1. TroveOwners' = SubSeq(t, 1, L - 1) /\ L > 1 /\ L \in Nat
    BY <1>1 DEF CloseTrove, RemoveTroveOwner, MoveInto, OwnersInv, OwnersTypeOK
  <2>2. t \in Seq(Ids) /\ Len(t) = L
    <3>1. TroveOwners \in Seq(Ids) /\ TroveOwners[L] \in Ids
      BY <1>1, <2>1 DEF OwnersInv, OwnersTypeOK
    <3>2. arrayIndex[id] + 1 \in 1..L
      BY <1>1, <1>2, <2>1 DEF OwnersInv, OwnersTypeOK, OwnersIndexed
    <3> QED
      BY <3>1, <3>2
  <2> HIDE DEF t
  <2> QED
    BY <2>1, <2>2
<1>7. OwnersInv'
  BY <1>1, OwnersClose
<1>8. RegistryInv'
  <2> HIDE DEF s
  <2> QED
    BY <1>1, <1>2, <1>4, <1>5, <1>6, <1>7 DEF RegistryInv
<1> QED
  BY <1>3, <1>5, <1>8 DEF r

LEMMA RegistryUpdate ==
  ASSUME NEW id \in Ids, NEW icr \in ICRs, NEW p \in Addresses, NEW n \in Addresses,
         RegistryInv, UpdateTrove(id, icr, p, n)
  PROVE  /\ RegistryInv'
         /\ \E k \in 1..Len(Ranking) :
              /\ Ranking[k].id = id
              /\ \E l \in 1..(Len(RemoveAt(Ranking, k)) + 1) :
                   Ranking' = InsertAt(RemoveAt(Ranking, k), l, [id |-> id, icr |-> icr])
<1> DEFINE r == Ranking
<1>1. /\ IsRegistry(data, r) /\ open = RankedIn(r) /\ Len(TroveOwners) = Len(r) /\ OwnersInv
      /\ IsRanking(r) /\ Len(r) \in Nat /\ MaxSize \in Nat /\ Len(r) <= MaxSize
  BY EntryTypes, ListAssumption DEF RegistryInv, IsRegistry, IsList
<1>2. /\ id \in open
      /\ data' = Inserted(Removed(data, id), id, icr, p, n)
      /\ TroveOwners' = TroveOwners /\ arrayIndex' = arrayIndex /\ open' = open
  BY DEF UpdateTrove, reInsert, ReInserted
<1> HIDE DEF r
<1>3. PICK k \in 1..Len(r) : r[k].id = id
  BY <1>1, <1>2 DEF RankedIn
<1> DEFINE q == RemoveAt(r, k)
           d == Removed(data, id)
<1>4. /\ IsRegistry(d, q)
      /\ Len(q) = Len(r) - 1
      /\ RankedIn(q) = RankedIn(r) \ {id}
  BY <1>1, <1>3, RemovedRegistry
<1>a. data' = Inserted(d, id, icr, p, n)
  BY <1>2
<1> HIDE DEF q, d
<1>b. Len(q) < MaxSize /\ id \notin RankedIn(q) /\ Len(q) + 1 = Len(r) /\ RankedIn(q) \cup {id} = RankedIn(r)
  BY <1>1, <1>2, <1>4
<1>5. PICK l \in 1..(Len(q) + 1) :
        LET s == InsertAt(q, l, [id |-> id, icr |-> icr])
        IN  /\ IsRegistry(Inserted(d, id, icr, p, n), s)
            /\ Len(s) = Len(q) + 1
            /\ RankedIn(s) = RankedIn(q) \cup {id}
  BY <1>4, <1>b, InsertedRegistry
<1> DEFINE s == InsertAt(q, l, [id |-> id, icr |-> icr])
<1>6. IsRegistry(data', s) /\ Len(s) = Len(r) /\ RankedIn(s) = RankedIn(r)
  BY <1>5, <1>a, <1>b
<1>7. Ranking' = s
  <2> HIDE DEF s
  <2> QED
    BY <1>6, RegistryRanked, ChainNames
<1>8. OwnersInv'
  BY <1>1, <1>2 DEF OwnersInv, OwnersTypeOK, OwnersIndexed
<1>9. RegistryInv'
  <2> HIDE DEF s
  <2> QED
    BY <1>1, <1>2, <1>6, <1>7, <1>8 DEF RegistryInv
<1> QED
  BY <1>3, <1>7, <1>9 DEF r, q

\* Other steps.
LEMMA RegistryStutter ==
  ASSUME RegistryInv, UNCHANGED vars
  PROVE  RegistryInv' /\ Ranking' = Ranking
<1>1. data' = data /\ TroveOwners' = TroveOwners /\ arrayIndex' = arrayIndex /\ open' = open
  BY DEF vars
<1>2. Ranking' = Ranking
  BY <1>1, ChainNames
<1>3. OwnersInv'
  BY <1>1 DEF RegistryInv, OwnersInv, OwnersTypeOK, OwnersIndexed
<1> QED
  BY <1>1, <1>2, <1>3 DEF RegistryInv

LEMMA RegistryStep == RegistryInv /\ [Next]_vars => RegistryInv'
<1> SUFFICES ASSUME RegistryInv, [Next]_vars PROVE RegistryInv'
  OBVIOUS
<1>1. CASE UNCHANGED vars
  BY <1>1, RegistryStutter
<1>2. ASSUME NEW id \in Ids, CloseTrove(id) PROVE RegistryInv'
  BY <1>2, RegistryClose
<1>3. ASSUME NEW id \in Ids, NEW icr \in ICRs, NEW p \in Addresses, NEW n \in Addresses,
             OpenTrove(id, icr, p, n)
      PROVE  RegistryInv'
  BY <1>3, RegistryOpen
<1>4. ASSUME NEW id \in Ids, NEW icr \in ICRs, NEW p \in Addresses, NEW n \in Addresses,
             UpdateTrove(id, icr, p, n)
      PROVE  RegistryInv'
  BY <1>4, RegistryUpdate
<1> QED
  BY <1>1, <1>2, <1>3, <1>4 DEF Next

(* Pointers of SortedTroves are always addresses and its size never exceeds *)
(* maxSize, for every set of owners and every maxSize.                      *)
THEOREM RegistryAlwaysTyped == Spec => []TypeOK
<1>1. RegistryInv => TypeOK
  <2> SUFFICES ASSUME RegistryInv PROVE TypeOK
    OBVIOUS
  <2>1. /\ data \in Lists /\ data.size = Len(Ranking) /\ Len(Ranking) <= MaxSize
        /\ Len(Ranking) \in Nat /\ MaxSize \in Nat
    BY EntryTypes, ListAssumption DEF RegistryInv, IsRegistry, IsList
  <2>2. data.size \in 0..MaxSize
    BY <2>1
  <2>3. data \in [head : Addresses, tail : Addresses, size : 0..MaxSize, nodes : [Addresses -> Nodes]]
    BY <2>1, <2>2 DEF Lists
  <2> QED
    BY <2>3 DEF TypeOK, Nodes, RegistryInv, OwnersInv, OwnersTypeOK
<1> QED
  BY <1>1, RegistryInit, RegistryStep, PTL DEF Spec

LEMMA ContainsRanked ==
  ASSUME NEW d, NEW r, IsList(d, r)
  PROVE  {id \in Ids : contains(d, id)} = RankedIn(r)
<1>1. IsRanking(r)
  BY DEF IsList
<1>2. ASSUME NEW id \in Ids, contains(d, id) PROVE id \in RankedIn(r)
  BY <1>2 DEF IsList, contains, EmptyNode, Addresses
<1>3. ASSUME NEW id \in RankedIn(r) PROVE id \in Ids /\ contains(d, id)
  <2>1. PICK i \in 1..Len(r) : id = r[i].id
    BY <1>1, EntryTypes
  <2> QED
    BY <1>1, <2>1, EntryTypes DEF IsList, NodeAt, contains
<1> QED
  BY <1>2, <1>3

\* A ranking has as many troves as places.
LEMMA RankedCardinality ==
  ASSUME NEW r, IsRanking(r)
  PROVE  Len(r) = Cardinality(RankedIn(r))
<1> DEFINE f == [i \in 1..Len(r) |-> r[i].id]
<1>1. Len(r) \in Nat
  BY EntryTypes
<1>2. f \in Bijection(1..Len(r), RankedIn(r))
  <2>1. f \in [1..Len(r) -> RankedIn(r)]
    BY DEF RankedIn
  <2>2. \A i, j \in 1..Len(r) : f[i] = f[j] => i = j
    BY DEF IsRanking
  <2>3. \A a \in RankedIn(r) : \E i \in 1..Len(r) : f[i] = a
    BY DEF RankedIn
  <2>4. DOMAIN f = 1..Len(r)
    OBVIOUS
  <2> HIDE DEF f
  <2> QED
    BY <2>1, <2>2, <2>3, <2>4 DEF Bijection, Injection, Surjection, IsInjective
<1>3. ExistsBijection(1..Len(r), RankedIn(r))
  <2> HIDE DEF f
  <2> QED
    BY <1>2 DEF ExistsBijection
<1>4. IsFiniteSet(1..Len(r)) /\ Cardinality(1..Len(r)) = Len(r)
  BY <1>1, FS_Interval
<1> QED
  BY <1>3, <1>4, FS_Bijection

LEMMA RegistryHoldsOpen == RegistryInv => ListHoldsOpen
<1> SUFFICES ASSUME RegistryInv PROVE ListHoldsOpen
  OBVIOUS
<1> DEFINE r == Ranking
<1>1. /\ IsList(data, r) /\ IsRanking(r) /\ Len(r) <= MaxSize /\ Len(r) \in Nat /\ MaxSize \in Nat
      /\ data.size = Len(r) /\ open = RankedIn(r) /\ Len(TroveOwners) = Len(r)
      /\ data.head = IdAt(r, 1) /\ data.tail = IdAt(r, Len(r))
  BY EntryTypes, ListAssumption DEF RegistryInv, IsRegistry, IsList
<1> HIDE DEF r
<1>2. \A i \in 1..Len(r) : FromHead[i] = r[i].id
  <2>1. \A i \in 1..Len(r) : i \in 1..MaxSize /\ IdAt(r, i) = r[i].id
    BY <1>1 DEF IdAt
  <2> QED
    BY <1>1, <2>1, HeadChainIs, ChainNames
<1>3. \A i \in 1..Len(r) : FromTail[i] = FromHead[Len(r) + 1 - i]
  <2>1. \A i \in 1..Len(r) : i \in 1..MaxSize /\ Len(r) + 1 - i \in 1..Len(r)
    BY <1>1
  <2>2. \A i \in 1..Len(r) : TailChain(data)[i] = IdAt(r, Len(r) + 1 - i)
    BY <1>1, <2>1, TailChainIs
  <2>3. \A i \in 1..Len(r) : IdAt(r, Len(r) + 1 - i) = r[Len(r) + 1 - i].id
    BY <2>1 DEF IdAt
  <2> QED
    BY <1>2, <2>1, <2>2, <2>3, ChainNames
<1>4. {id \in Ids : contains(data, id)} = RankedIn(r)
  BY <1>1, ContainsRanked
<1>5. {FromHead[i] : i \in 1..data.size} = RankedIn(r)
  BY <1>1, <1>2 DEF RankedIn
<1>6. Len(r) = Cardinality(RankedIn(r))
  BY <1>1, RankedCardinality
<1>7. data.nodes[Null] = EmptyNode
  BY <1>1, EntryTypes DEF IsList, Addresses
<1>8. Prev_(data, data.head) = Null /\ Next_(data, data.tail) = Null
  <2>1. CASE Len(r) = 0
    BY <1>1, <1>7, <2>1 DEF IdAt, Prev_, Next_, EmptyNode
  <2>2. CASE Len(r) # 0
    <3>1. 1 \in 1..Len(r) /\ Len(r) \in 1..Len(r)
      BY <1>1, <2>2
    <3>2. data.head = r[1].id /\ data.tail = r[Len(r)].id
      BY <1>1, <3>1 DEF IdAt
    <3>3. Prev_(data, data.head) = IdAt(r, 1 - 1) /\ Next_(data, data.tail) = IdAt(r, Len(r) + 1)
      BY <1>1, <3>1, <3>2, Links
    <3> QED
      BY <1>1, <3>3 DEF IdAt
  <2> QED
    BY <2>1, <2>2
<1>9. ChainsAgree
  BY <1>1, <1>3, <1>4, <1>5, <1>6, <1>7, <1>8 DEF ChainsAgree
<1> QED
  BY <1>1, <1>4, <1>9 DEF ListHoldsOpen

(* Read from either end, the list holds the open troves and no other, and   *)
(* its size is that of the TroveOwners array, after every sequence of       *)
(* openings, closings and re-insertions with any hints.                     *)
THEOREM ListAlwaysHoldsOpen == Spec => []ListHoldsOpen
  BY RegistryInit, RegistryStep, RegistryHoldsOpen, PTL DEF Spec

(* findInsertPosition returns a valid place in every reachable list, for    *)
(* every ICR and every pair of hints.                                       *)
THEOREM SearchAlwaysFindsPlace == Spec => []SearchFindsPlace
<1>1. RegistryInv => SearchFindsPlace
  <2> SUFFICES ASSUME RegistryInv, NEW icr \in ICRs, NEW p \in Addresses, NEW n \in Addresses
               PROVE  Lands(data, icr, FindInsertPosition(data, icr, p, n))
    BY DEF SearchFindsPlace, Lands
  <2> QED
    BY SearchLands DEF RegistryInv, IsRegistry
<1> QED
  BY <1>1, RegistryInit, RegistryStep, PTL DEF Spec

(* SortedList, step by step.                                               *)
LEMMA SameSequences ==
  /\ \A s, i : List!RemoveAt(s, i) = RemoveAt(s, i)
  /\ \A s, i, e : List!InsertAt(s, i, e) = InsertAt(s, i, e)
  BY DEF List!RemoveAt, List!InsertAt, RemoveAt, InsertAt

LEMMA RankingSorted ==
  ASSUME NEW r, IsRanking(r), Descends(r)
  PROVE  List!Sorted(r) /\ DOMAIN r = 1..Len(r)
<1>1. DOMAIN r = 1..Len(r)
  BY DEF IsRanking
<1> QED
  BY <1>1 DEF List!Sorted, Descends

LEMMA RefinesStep ==
  ASSUME RegistryInv, [Next]_vars
  PROVE  List!Next \/ Ranking' = Ranking
<1>1. RegistryInv'
  BY RegistryStep
<1>2. /\ IsRanking(Ranking) /\ DOMAIN Ranking = 1..Len(Ranking)
  BY RankingSorted DEF RegistryInv, IsRegistry, IsList
<1>3. List!Sorted(Ranking')
  <2>1. IsRanking(Ranking') /\ Descends(Ranking')
    BY <1>1 DEF RegistryInv, IsRegistry, IsList
  <2> QED
    BY <2>1, RankingSorted
<1>4. CASE UNCHANGED vars
  BY <1>4, RegistryStutter
<1>5. ASSUME NEW id \in Ids, CloseTrove(id) PROVE List!remove(id)
  <2>1. PICK k \in 1..Len(Ranking) : Ranking[k].id = id /\ Ranking' = RemoveAt(Ranking, k)
    BY <1>5, RegistryClose
  <2> QED
    BY <1>2, <2>1, SameSequences DEF List!remove, List!Places
<1>6. ASSUME NEW id \in Ids, NEW icr \in ICRs, NEW p \in Addresses, NEW n \in Addresses,
             OpenTrove(id, icr, p, n)
      PROVE  List!insert(id, icr)
  <2>1. PICK k \in 1..(Len(Ranking) + 1) : OpenedAt(id, icr, k)
    BY <1>6, RegistryOpen
  <2>2. List!Placed(Ranking, id, icr)
    BY <2>1, SameSequences DEF OpenedAt, List!Placed
  <2>3. id \notin List!Ranked
    BY <1>2, <2>1 DEF OpenedAt, List!Ranked, RankedIn
  <2> QED
    BY <1>3, <2>1, <2>2, <2>3 DEF OpenedAt, List!insert
<1>7. ASSUME NEW id \in Ids, NEW icr \in ICRs, NEW p \in Addresses, NEW n \in Addresses,
             UpdateTrove(id, icr, p, n)
      PROVE  List!reInsert(id, icr)
  <2>1. PICK k \in 1..Len(Ranking) :
          /\ Ranking[k].id = id
          /\ \E l \in 1..(Len(RemoveAt(Ranking, k)) + 1) :
               Ranking' = InsertAt(RemoveAt(Ranking, k), l, [id |-> id, icr |-> icr])
    BY <1>7, RegistryUpdate
  <2>2. List!Placed(List!RemoveAt(Ranking, k), id, icr)
    BY <2>1, SameSequences DEF List!Placed
  <2>3. k \in List!Places(id)
    BY <1>2, <2>1 DEF List!Places
  <2> QED
    BY <1>3, <2>2, <2>3 DEF List!reInsert
<1> QED
  BY <1>4, <1>5, <1>6, <1>7 DEF Next, List!Next

(* SortedTroves implements SortedList: an opening inserts a trove, a        *)
(* closing removes one and an update moves one, the ranking stays sorted    *)
(* and the other troves keep their order, whatever the hints.               *)
THEOREM RegistryRefinesList == Spec => RefinesSortedList
<1>1. Init => List!Init
  <2> SUFFICES ASSUME Init PROVE Ranking = <<>>
    BY DEF List!Init
  <2>1. Len(Ranking) = 0 /\ Ranking \in Seq(Entries)
    BY RegistryInit DEF RegistryInv, IsRegistry, IsList, IsRanking, Init
  <2> QED
    BY <2>1
<1>2. RegistryInv /\ [Next]_vars => [List!Next]_Ranking
  BY RefinesStep
<1> QED
  BY <1>1, <1>2, RegistryInit, RegistryStep, PTL DEF Spec, RefinesSortedList, List!Spec
=============================================================================
