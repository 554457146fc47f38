--------------------------- MODULE MultiHashTable ---------------------------
(* unordered_multimap: the open addressing of unordered_map with equal keys  *)
(* allowed.  An insertion takes the first slot of its probe that is not      *)
(* filled, looking no further; count and erase walk on to an empty slot.     *)
(* unordered_multiset is the same table of keys without values.              *)
EXTENDS Integers, FiniteSetsExt

CONSTANTS
  Keys, Values,
  Hash,              \* the hash of each key
  InitialCapacity,   \* 8 in the source
  MaxLoadPct,        \* 70 in the source
  MaxBuckets,        \* bound: the table never grows past this many slots
  Empty, Tombstone   \* the states of a slot that is not filled

VARIABLES table,     \* a function on 0..bucket_count - 1
          live       \* _size

vars == <<table, live>>

(* Probing, rehash and maybe_grow, which the two kinds of table share. *)
Open == INSTANCE HashTable WITH
          slots <- table, size <- live, Default <- CHOOSE v \in Values : TRUE

Init == table = Open!EmptyTable(0) /\ live = 0

Steps(t) == 0..(Cardinality(DOMAIN t) - 1)

(* The filled slots with key k on its probe, up to the first empty slot. *)
Matches(k) ==
  {Open!Probe(table, k, p) : p \in {q \in Steps(table) :
     /\ Open!Holds(table, Open!Probe(table, k, q), k)
     /\ \A r \in 0..q : table[Open!Probe(table, k, r)] # Empty}}

Count(k) == Cardinality(Matches(k))
-----------------------------------------------------------------------------
(* insert_impl *)
Insert(k, v) ==
  LET t == Open!Grown(table, live)
      free == {p \in Steps(t) : t[Open!Probe(t, k, p)] \notin Open!Entry}
  IN /\ Cardinality(DOMAIN t) <= MaxBuckets
     /\ IF free = {} THEN table' = t /\ UNCHANGED live
        ELSE /\ table' = [t EXCEPT ![Open!Probe(t, k, Min(free))] = [key |-> k, val |-> v]]
             /\ live' = live + 1

(* Mutant of Erase: each slot on the probe that matches is emptied. *)
EraseToEmpty(k) ==
  /\ Matches(k) # {}
  /\ table' = [i \in DOMAIN table |-> IF i \in Matches(k) THEN Empty ELSE table[i]]
  /\ live' = live - Count(k)

Erase(k) ==
  /\ Matches(k) # {}
  /\ table' = [i \in DOMAIN table |-> IF i \in Matches(k) THEN Tombstone ELSE table[i]]
  /\ live' = live - Count(k)

Clear == table' = Open!EmptyTable(Cardinality(DOMAIN table)) /\ live' = 0

Next == \/ \E k \in Keys : Erase(k) \/ \E v \in Values : Insert(k, v)
        \/ Clear

Spec == Init /\ [][Next]_vars
-----------------------------------------------------------------------------
TypeOK == /\ table \in [0..(Cardinality(DOMAIN table) - 1) -> Open!Entry \cup {Empty, Tombstone}]
          /\ live = Cardinality(Open!Filled(table))

Occurs(k, v) == Cardinality({i \in DOMAIN table : table[i] = [key |-> k, val |-> v]})

(* Every entry stays on its key's probe before the first empty slot, so that *)
(* count, find and erase miss none ("walk the full probe sequence collecting *)
(* every match", unordered_multiset.hpp:19).                                 *)
AllMatchesFound ==
  \A k \in Keys : Matches(k) = {i \in DOMAIN table : Open!Holds(table, i, k)}

(* Every insertion adds its pair ("every insert unconditionally lands in a   *)
(* fresh slot", unordered_multiset.hpp:18), also in a table without an empty *)
(* slot, erase takes every pair of its key, and growing loses none.          *)
CountsPairs ==
  [][\A k, j \in Keys, w \in Values :
       /\ \A v \in Values :
            Insert(k, v) => Occurs(j, w)' = Occurs(j, w) + (IF <<j, w>> = <<k, v>> THEN 1 ELSE 0)
       /\ Erase(k) => Occurs(j, w)' = IF j = k THEN 0 ELSE Occurs(j, w)]_vars
=============================================================================
