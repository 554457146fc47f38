------------------------------ MODULE HashSet -------------------------------
(* unordered_set: the table of unordered_map, step for step, whose slots     *)
(* hold a key only; here that is an entry without a value.                   *)
CONSTANTS Keys, NoValue, Hash, InitialCapacity, MaxLoadPct,
          MaxBuckets,        \* bound: the table never grows past this many slots
          Empty, Tombstone

VARIABLES bucket, count      \* _slots and _size

vars == <<bucket, count>>

Table == INSTANCE HashTable WITH
           slots <- bucket, size <- count, Values <- {NoValue}, Default <- NoValue

Init == Table!Init
Rehash(n) == Table!Rehash(bucket, n)
Grown == Table!Grown(bucket, count)
FindSlot(k) == Table!FindSlot(bucket, k)
InsertSlot(k) == Table!InsertSlot(Grown, k)

Insert(k) == Table!Insert(k, NoValue)
Erase(k) == Table!Erase(k)
Clear == Table!Clear

Next == Clear \/ \E k \in Keys : Insert(k) \/ Erase(k)

Spec == Init /\ [][Next]_vars
-----------------------------------------------------------------------------
TypeOK == Table!TypeOK /\ Table!SizeExact

(* No key is there twice, and every one is found. *)
LookupsExact == Table!NoDuplicates /\ Table!EntriesReachable

(* Each call does to the set of keys what its name says; a table full of     *)
(* tombstones refuses a new key.                                             *)
Members == {k \in Keys : FindSlot(k) # Table!NoSlot}
BehavesLikeSet ==
  [][/\ Clear => Members' = {}
     /\ \A k \in Keys :
          /\ Insert(k) => Members' = IF InsertSlot(k) = Table!NoSlot THEN Members
                                     ELSE Members \cup {k}
          /\ Erase(k) => k \in Members /\ Members' = Members \ {k}]_vars
=============================================================================
