------------------------------ MODULE FlatSet -------------------------------
(* set: the sorted array of map, line for line, with keys in place of        *)
(* entries; here a key is an entry without a value.                          *)
CONSTANTS Keys, NoValue

VARIABLE members     \* the keys in order

Flat == INSTANCE FlatMap WITH data <- members, Values <- {NoValue}, Default <- NoValue

Init == Flat!Init
LowerBound(k) == Flat!LowerBound(k)
Has(k) == Flat!Has(k)

(* insert and emplace leave a set that holds the key alone. *)
Insert(k) == Flat!Insert(k, NoValue)
Erase(k) == Flat!Erase(k)
Clear == Flat!Clear

Next == Clear \/ \E k \in Keys : Insert(k) \/ Erase(k)

Spec == Init /\ [][Next]_members
-----------------------------------------------------------------------------
TypeOK == Flat!TypeOK

(* The keys stay in strict order and the search finds the ones that are there. *)
Searchable == Flat!Searchable

(* Each call does to the set of keys what its name says. *)
BehavesLikeSet ==
  [][/\ Clear => Flat!Held' = {}
     /\ \A k \in Keys : /\ Insert(k) => Flat!Held' = Flat!Held \cup {k}
                        /\ Erase(k) => k \in Flat!Held /\ Flat!Held' = Flat!Held \ {k}]_members
=============================================================================
