---------------------------- MODULE SortedArrays ----------------------------
(* map, set, multimap and multiset: what is kept in key order, each over an  *)
(* array of its own.                                                         *)
EXTENDS Integers, SequencesExt

CONSTANTS UniqueKeys,              \* of the map and the set
          RepeatedKeys,            \* of the multimap and the multiset
          Mapped, DefaultMapped,   \* the values of the maps
          NoValue,
          MaxEntries               \* bound on a multimap or multiset

VARIABLES data, members,           \* map, set
          run, ranks               \* multimap, multiset

FM == INSTANCE FlatMap WITH Keys <- UniqueKeys, Values <- Mapped, Default <- DefaultMapped
FS == INSTANCE FlatSet WITH Keys <- UniqueKeys
MM == INSTANCE FlatMultimap WITH Keys <- RepeatedKeys, Values <- Mapped, MaxSize <- MaxEntries
FB == INSTANCE FlatMultiset WITH Keys <- RepeatedKeys, MaxSize <- MaxEntries

ASSUME SortedAssumption == FM!FlatMapAssumption /\ MM!FlatMultimapAssumption
-----------------------------------------------------------------------------
(* Entries stay in key order, so that halving finds what is there: the one   *)
(* entry of a key in map and set, all of them in multimap and multiset.      *)
LookupsExact == FM!Searchable /\ FS!Searchable /\ MM!Searchable /\ FB!Searchable
=============================================================================
