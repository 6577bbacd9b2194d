---------------------------- MODULE SortedTroves ----------------------------
(***************************************************************************)
(* SortedTroves.sol: a doubly linked list of troves, from the largest      *)
(* oldICR (head) to the smallest (tail).  Callers pass the two neighbours  *)
(* they expect as hints; a wrong hint only makes the search longer.        *)
(*                                                                         *)
(* The operators take and return the contract's storage d, because a       *)
(* re-insertion removes and inserts in one call.                           *)
(***************************************************************************)
EXTENDS Naturals, FiniteSets

CONSTANTS Ids,       \* addresses of trove owners
          Null,      \* address(0)
          ICRs,      \* ICRs a call may bring, 0 among them
          MaxSize    \* data.maxSize

ASSUME NullIsNoId == Null \notin Ids
ASSUME ListAssumption == ICRs \subseteq Nat /\ 0 \in ICRs /\ MaxSize \in Nat

VARIABLE data        \* [head, tail, size, nodes]

Addresses == Ids \cup {Null}

\* What `delete data.nodes[_id]` leaves.
EmptyNode == [exists |-> FALSE, nextId |-> Null, prevId |-> Null, oldICR |-> 0]

EmptyList == [head |-> Null, tail |-> Null, size |-> 0,
              nodes |-> [a \in Addresses |-> EmptyNode]]

contains(d, id) == d.nodes[id].exists
OldICR(d, id) == d.nodes[id].oldICR
Next_(d, id) == d.nodes[id].nextId
Prev_(d, id) == d.nodes[id].prevId
IsFull(d) == d.size = MaxSize
-----------------------------------------------------------------------------
(* The search for a place.                                                 *)

\* Mutant: between two troves, only the next one is compared.
AboveNext(d, icr, p, n) == Next_(d, p) = n /\ icr >= OldICR(d, n)

Between(d, icr, p, n) ==
  Next_(d, p) = n /\ OldICR(d, p) >= icr /\ icr >= OldICR(d, n)

ValidInsertPosition(d, icr, p, n) ==
  \/ p = Null /\ n = Null /\ d.size = 0
  \/ p = Null /\ n # Null /\ d.head = n /\ icr >= OldICR(d, n)
  \/ p # Null /\ n = Null /\ d.tail = p /\ icr <= OldICR(d, p)
  \/ p # Null /\ n # Null /\ Between(d, icr, p, n)

DescendList(d, icr, start) ==
  LET from[p \in Addresses] ==
        IF p = Null \/ ValidInsertPosition(d, icr, p, Next_(d, p))
        THEN <<p, Next_(d, p)>> ELSE from[Next_(d, p)]
  IN  IF d.head = start /\ icr >= OldICR(d, start) THEN <<Null, start>> ELSE from[start]

AscendList(d, icr, start) ==
  LET from[n \in Addresses] ==
        IF n = Null \/ ValidInsertPosition(d, icr, Prev_(d, n), n)
        THEN <<Prev_(d, n), n>> ELSE from[Prev_(d, n)]
  IN  IF d.tail = start /\ icr <= OldICR(d, start) THEN <<start, Null>> ELSE from[start]

\* Mutant: the previous hint is trusted as long as it is in the list.
AnyPrevHint(d, icr, p) == p # Null /\ contains(d, p)

\* A hint is kept only when it is in the list, on its side of icr.
GoodPrevHint(d, icr, p) == p # Null /\ contains(d, p) /\ icr <= OldICR(d, p)
GoodNextHint(d, icr, n) == n # Null /\ contains(d, n) /\ icr >= OldICR(d, n)

FindInsertPosition(d, icr, p, n) ==
  IF GoodPrevHint(d, icr, p) THEN DescendList(d, icr, p)
  ELSE IF GoodNextHint(d, icr, n) THEN AscendList(d, icr, n)
  ELSE DescendList(d, icr, d.head)
-----------------------------------------------------------------------------
(* _insert, _remove and reInsert.                                          *)

\* Mutant: a full list takes one more.
CanInsertInFull(d, id, icr) == ~contains(d, id) /\ id # Null /\ icr # 0

CanInsert(d, id, icr) == ~IsFull(d) /\ ~contains(d, id) /\ id # Null /\ icr # 0

\* The nodes once id is between p and n; the null node is written like any other.
Linked(d, id, p, n) ==
  CASE p = Null /\ n = Null -> [d EXCEPT !.head = id, !.tail = id]
    [] p = Null /\ n # Null -> [d EXCEPT !.nodes[id].nextId = d.head,
                                         !.nodes[d.head].prevId = id, !.head = id]
    [] p # Null /\ n = Null -> [d EXCEPT !.nodes[id].prevId = d.tail,
                                         !.nodes[d.tail].nextId = id, !.tail = id]
    [] OTHER -> [d EXCEPT !.nodes[id].nextId = n, !.nodes[id].prevId = p,
                          !.nodes[p].nextId = id, !.nodes[n].prevId = id]

Inserted(d, id, icr, p, n) ==
  LET at == IF ValidInsertPosition(d, icr, p, n) THEN <<p, n>>
            ELSE FindInsertPosition(d, icr, p, n)
  IN  [Linked(d, id, at[1], at[2]) EXCEPT !.nodes[id].exists = TRUE,
                                          !.nodes[id].oldICR = icr, !.size = @ + 1]

\* Mutant: the new head still points back to the trove that left.
HeadUnlinkedKeepingPrev(d) == [d EXCEPT !.head = Next_(d, d.head)]

HeadUnlinked(d) == [d EXCEPT !.head = Next_(d, d.head),
                             !.nodes[Next_(d, d.head)].prevId = Null]

Unlinked(d, id) ==
  CASE d.size <= 1 -> [d EXCEPT !.head = Null, !.tail = Null]
    [] d.size > 1 /\ id = d.head -> HeadUnlinked(d)
    [] d.size > 1 /\ id # d.head /\ id = d.tail ->
         [d EXCEPT !.tail = Prev_(d, id), !.nodes[Prev_(d, id)].nextId = Null]
    [] OTHER -> [d EXCEPT !.nodes[Prev_(d, id)].nextId = Next_(d, id),
                          !.nodes[Next_(d, id)].prevId = Prev_(d, id)]

Removed(d, id) == [Unlinked(d, id) EXCEPT !.nodes[id] = EmptyNode, !.size = @ - 1]

ReInserted(d, id, icr, p, n) == Inserted(Removed(d, id), id, icr, p, n)

insert(id, icr, p, n) ==
  /\ CanInsert(data, id, icr)
  /\ data' = Inserted(data, id, icr, p, n)

remove(id) ==
  /\ contains(data, id)
  /\ data' = Removed(data, id)

reInsert(id, icr, p, n) ==
  /\ contains(data, id)
  /\ icr # 0
  /\ data' = ReInserted(data, id, icr, p, n)
-----------------------------------------------------------------------------
\* The n-th node from the head, and from the tail.
FromHead[n \in 1..MaxSize] == IF n = 1 THEN data.head ELSE Next_(data, FromHead[n - 1])
FromTail[n \in 1..MaxSize] == IF n = 1 THEN data.tail ELSE Prev_(data, FromTail[n - 1])

\* The list that MultiTroveGetter reads by following nextId from the head.
Ranking == [i \in 1..data.size |-> [id |-> FromHead[i], icr |-> OldICR(data, FromHead[i])]]

\* The list read backwards is the list read forwards, reversed: nextId
\* (getNext, used by the getters) and prevId (getPrev, used by redemptions
\* to climb from the tail) never disagree, both chains hold exactly the
\* troves contained and end there, and nothing is ever written to the node
\* of address 0.
ChainsAgree ==
  /\ \A i \in 1..data.size : FromTail[i] = FromHead[data.size + 1 - i]
  /\ {FromHead[i] : i \in 1..data.size} = {id \in Ids : contains(data, id)}
  /\ data.size = Cardinality({id \in Ids : contains(data, id)})
  /\ Prev_(data, data.head) = Null /\ Next_(data, data.tail) = Null
  /\ data.nodes[Null] = EmptyNode

(* findInsertPosition (SortedTroves.sol:394-429) returns a valid place for *)
(* every ICR and every pair of hints, whether they are stale, swapped, not *)
(* in the list or on the wrong side: _insert does not check it again.      *)
SearchFindsPlace ==
  \A icr \in ICRs, p, n \in Addresses :
    LET at == FindInsertPosition(data, icr, p, n)
    IN  ValidInsertPosition(data, icr, at[1], at[2])
=============================================================================
