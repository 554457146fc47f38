---------------------------- MODULE FlatMultiset ----------------------------
(* multiset: the sorted array of multimap, line for line, with keys in place *)
(* of entries; here a key is an entry without a value.                       *)
EXTENDS Integers

CONSTANTS Keys, NoValue,
          MaxSize     \* bound: no insertion into an array of this size

VARIABLE ranks     \* the keys in order

Flat == INSTANCE FlatMultimap WITH run <- ranks, Values <- {NoValue}

Init == Flat!Init
LowerBound(k) == Flat!LowerBound(k)
UpperBound(k) == Flat!UpperBound(k)
Count(k) == Flat!Count(k)

Insert(k) == Flat!Insert(k, NoValue)
Erase(k) == Flat!Erase(k)
Clear == Flat!Clear

Next == Clear \/ \E k \in Keys : Insert(k) \/ Erase(k)

Spec == Init /\ [][Next]_ranks
-----------------------------------------------------------------------------
TypeOK == Flat!TypeOK

(* Keys never decrease and the two searches enclose exactly the equal ones.  *)
Searchable == Flat!Searchable

(* Each call does to the number of every key what its name says. *)
BehavesLikeBag ==
  [][\A k, j \in Keys :
       /\ Insert(k) => Count(j)' = Count(j) + (IF j = k THEN 1 ELSE 0)
       /\ Erase(k) => Count(j)' = IF j = k THEN 0 ELSE Count(j)
       /\ Clear => Count(j)' = 0]_ranks
=============================================================================
