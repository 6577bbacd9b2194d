----------------------------- MODULE SortedList -----------------------------
(***************************************************************************)
(* What SortedTroves promises its callers: a ranking of troves by the ICR  *)
(* each had when it was last placed, largest first.  Troves of equal ICR   *)
(* may come in any order, and placing one trove never reorders the others. *)
(***************************************************************************)
EXTENDS Naturals, SequencesExt

CONSTANTS Ids, ICRs, MaxSize

VARIABLE ranking   \* sequence of [id, icr]

Ranked == {ranking[i].id : i \in DOMAIN ranking}
Sorted(s) == \A i, j \in DOMAIN s : i < j => s[i].icr >= s[j].icr
Places(id) == {i \in DOMAIN ranking : ranking[i].id = id}

Init == ranking = <<>>

\* The trove id, with its new ICR, somewhere in s.
Placed(s, id, icr) ==
  \E i \in 1..(Len(s) + 1) :
    ranking' = InsertAt(s, i, [id |-> id, icr |-> icr])

insert(id, icr) ==
  /\ id \notin Ranked
  /\ Len(ranking) < MaxSize
  /\ Placed(ranking, id, icr)
  /\ Sorted(ranking')

remove(id) ==
  \E i \in Places(id) : ranking' = RemoveAt(ranking, i)

reInsert(id, icr) ==
  /\ \E i \in Places(id) : Placed(RemoveAt(ranking, i), id, icr)
  /\ Sorted(ranking')

Next == \E id \in Ids : remove(id) \/ \E icr \in ICRs : insert(id, icr) \/ reInsert(id, icr)

Spec == Init /\ [][Next]_ranking
=============================================================================
