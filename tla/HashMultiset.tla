---------------------------- MODULE HashMultiset ----------------------------
(* unordered_multiset: the table of unordered_multimap, step for step, whose *)
(* slots hold a key only; here that is an entry without a value.             *)
CONSTANTS Keys, NoValue, Hash, InitialCapacity, MaxLoadPct,
          MaxBuckets,        \* bound: the table never grows past this many slots
          Empty, Tombstone

VARIABLES place, held      \* _slots and _size

vars == <<place, held>>

Table == INSTANCE MultiHashTable WITH table <- place, live <- held, Values <- {NoValue}

Init == Table!Init
Count(k) == Table!Count(k)

Insert(k) == Table!Insert(k, NoValue)
Erase(k) == Table!Erase(k)
Clear == Table!Clear

Next == Clear \/ \E k \in Keys : Insert(k) \/ Erase(k)

Spec == Init /\ [][Next]_vars
-----------------------------------------------------------------------------
TypeOK == Table!TypeOK

(* No copy of a key is missed by count, find or erase. *)
LookupsExact == Table!AllMatchesFound

(* Each call does to the number of every key what its name says. *)
CountsKeys == Table!CountsPairs
=============================================================================
