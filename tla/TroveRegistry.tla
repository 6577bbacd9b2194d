--------------------------- MODULE TroveRegistry ----------------------------
(***************************************************************************)
(* The two places that remember who has a trove: the list of SortedTroves, *)
(* and TroveManager's array TroveOwners, in which a trove that closes is   *)
(* overwritten by the last one.  Every open trove is in both, and          *)
(* HintHelpers draws troves from the array to search the list.             *)
(***************************************************************************)
EXTENDS SortedTroves, Sequences

VARIABLES TroveOwners,   \* array of owners
          arrayIndex,    \* Troves[id].arrayIndex, from 0; kept when a trove closes
          open           \* ids whose Troves[id].status is active

vars == <<data, TroveOwners, arrayIndex, open>>

Init ==
  /\ data = EmptyList
  /\ TroveOwners = <<>>
  /\ arrayIndex = [id \in Ids |-> 0]
  /\ open = {}

\* _openTroveInternal: sortedTroves.insert, then addTroveOwnerToArray.
OpenTrove(id, icr, p, n) ==
  /\ id \notin open
  /\ insert(id, icr, p, n)
  /\ TroveOwners' = Append(TroveOwners, id)
  /\ arrayIndex' = [arrayIndex EXCEPT ![id] = Len(TroveOwners)]
  /\ open' = open \cup {id}

\* Mutant: the trove that is moved keeps its old index.
MoveKeepingIndex(id, last) ==
  /\ TroveOwners' = SubSeq([TroveOwners EXCEPT ![arrayIndex[id] + 1] = last],
                           1, Len(TroveOwners) - 1)
  /\ UNCHANGED arrayIndex

\* The last owner takes the place of id, and the array loses its last element.
MoveInto(id, last) ==
  /\ TroveOwners' = SubSeq([TroveOwners EXCEPT ![arrayIndex[id] + 1] = last],
                           1, Len(TroveOwners) - 1)
  /\ arrayIndex' = [arrayIndex EXCEPT ![last] = arrayIndex[id]]

\* _removeTroveOwner.
RemoveTroveOwner(id) ==
  /\ arrayIndex[id] <= Len(TroveOwners) - 1
  /\ MoveInto(id, TroveOwners[Len(TroveOwners)])

\* TroveManager._closeTrove, for the owner, a liquidation or a redemption.
CloseTrove(id) ==
  /\ id \in open
  /\ Len(TroveOwners) > 1 /\ data.size > 1   \* _requireMoreThanOneTroveInSystem
  /\ RemoveTroveOwner(id)
  /\ remove(id)
  /\ open' = open \ {id}

\* An adjustment, updateTroves or a partial redemption places the trove again.
UpdateTrove(id, icr, p, n) ==
  /\ id \in open
  /\ reInsert(id, icr, p, n)
  /\ UNCHANGED <<TroveOwners, arrayIndex, open>>

Next ==
  \E id \in Ids :
    \/ CloseTrove(id)
    \/ \E icr \in ICRs, p, n \in Addresses :
         OpenTrove(id, icr, p, n) \/ UpdateTrove(id, icr, p, n)

Spec == Init /\ [][Next]_vars
-----------------------------------------------------------------------------
TypeOK ==
  /\ data \in [head : Addresses, tail : Addresses, size : 0..MaxSize,
               nodes : [Addresses -> [exists : BOOLEAN, nextId : Addresses,
                                      prevId : Addresses, oldICR : ICRs]]]
  /\ TroveOwners \in Seq(Ids)
  /\ arrayIndex \in [Ids -> Nat]
  /\ open \subseteq Ids

(* _addTroveOwnerToArray and _removeTroveOwner (TroveManager.sol:656-689): *)
(* the array holds every open trove once, at the index its trove records,  *)
(* although troves that closed keep the index they had.                    *)
OwnersIndexed ==
  /\ \A i \in 1..Len(TroveOwners) :
       TroveOwners[i] \in open /\ arrayIndex[TroveOwners[i]] = i - 1
  /\ \A id \in open :
       arrayIndex[id] < Len(TroveOwners) /\ TroveOwners[arrayIndex[id] + 1] = id

(* The list, read from either end, holds the open troves and no other, so  *)
(* that closing one never fails half-way, the checks on either size agree  *)
(* and redemptions climb from the tail past the troves that getters show.  *)
ListHoldsOpen ==
  /\ ChainsAgree
  /\ open = {id \in Ids : contains(data, id)}
  /\ data.size = Len(TroveOwners)

(* Every call keeps the promise of a sorted list, whatever hints it brings *)
(* and however stale they are.                                             *)
List == INSTANCE SortedList WITH ranking <- Ranking
RefinesSortedList == List!Spec
=============================================================================
