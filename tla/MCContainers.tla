---------------------------- MODULE MCContainers ----------------------------
(* Small instances of the containers that share no state: each behaviour     *)
(* picks one of them as its subject and runs that, the others stay initial.  *)
EXTENDS RingDeque, Bitset, UniquePtr, NodeLists, SortedArrays, TLC

CONSTANTS Empty, Tombstone

VARIABLES subject,
          heap,                           \* priority_queue
          table, live,                    \* unordered_multimap
          bucket, count, place, held,     \* unordered_set, unordered_multiset
          str, storage, filled            \* basic_string, inplace_vector

Two == {"p", "q"}
PQ == INSTANCE PriorityQueue WITH Values <- 1..4, MaxSize <- 6

\* The keys share a bucket of the first table and may meet by probing in the next.
HM == INSTANCE MultiHashTable WITH
        Keys <- 0..1, Values <- Two, Hash <- [k \in 0..1 |-> 4 * k],
        InitialCapacity <- 4, MaxLoadPct <- 70, MaxBuckets <- 8
HS == INSTANCE HashSet WITH
        Keys <- 0..3, Hash <- [k \in 0..3 |-> IF k = 3 THEN 8 ELSE k],
        InitialCapacity <- 4, MaxLoadPct <- 70, MaxBuckets <- 8
HB == INSTANCE HashMultiset WITH
        Keys <- 0..1, Hash <- [k \in 0..1 |-> 4 * k],
        InitialCapacity <- 4, MaxLoadPct <- 70, MaxBuckets <- 8
ST == INSTANCE BasicString WITH
        Strings <- {"s", "t"}, Chars <- {"a", "nul"}, Nul <- "nul", Modulus <- 5, MaxLength <- 3
IV == INSTANCE InplaceVector WITH Values <- Two, Default <- "p", N <- 4, size <- filled

ASSUME ContainersAssumption ==
  PQ!QueueAssumption /\ ST!StringAssumption /\ IV!InplaceAssumption

Subjects == {"deque", "list", "forward_list", "map", "multimap",
             "priority_queue", "bitset", "unordered_multimap", "unique_ptr",
             "set", "multiset", "unordered_set", "unordered_multiset",
             "basic_string", "inplace_vector"}

ContainersInit ==
  /\ subject \in Subjects
  /\ Init /\ DL!Init /\ FL!Init /\ FM!Init /\ MM!Init
  /\ PQ!Init /\ BitsetInit /\ HM!Init /\ UniqueInit
  /\ FS!Init /\ FB!Init /\ HS!Init /\ HB!Init /\ ST!Init /\ IV!Init

OthersStay ==
  /\ UNCHANGED subject
  /\ subject # "deque" => UNCHANGED vars
  /\ subject # "list" => UNCHANGED <<lst, node>>
  /\ subject # "forward_list" => UNCHANGED <<fwd, cell>>
  /\ subject # "map" => UNCHANGED data
  /\ subject # "multimap" => UNCHANGED run
  /\ subject # "priority_queue" => UNCHANGED heap
  /\ subject # "bitset" => UNCHANGED words
  /\ subject # "unordered_multimap" => UNCHANGED <<table, live>>
  /\ subject # "unique_ptr" => UNCHANGED uniqueVars
  /\ subject # "set" => UNCHANGED members
  /\ subject # "multiset" => UNCHANGED ranks
  /\ subject # "unordered_set" => UNCHANGED <<bucket, count>>
  /\ subject # "unordered_multiset" => UNCHANGED <<place, held>>
  /\ subject # "basic_string" => UNCHANGED str
  /\ subject # "inplace_vector" => UNCHANGED <<storage, filled>>

ContainersNext ==
  /\ OthersStay
  /\ \/ subject = "deque" /\ Next
     \/ subject = "list" /\ DL!Next
     \/ subject = "forward_list" /\ FL!Next
     \/ subject = "map" /\ FM!Next
     \/ subject = "multimap" /\ MM!Next
     \/ subject = "priority_queue" /\ PQ!Next
     \/ subject = "bitset" /\ BitsetNext
     \/ subject = "unordered_multimap" /\ HM!Next
     \/ subject = "unique_ptr" /\ UniqueNext
     \/ subject = "set" /\ FS!Next
     \/ subject = "multiset" /\ FB!Next
     \/ subject = "unordered_set" /\ HS!Next
     \/ subject = "unordered_multiset" /\ HB!Next
     \/ subject = "basic_string" /\ ST!Next
     \/ subject = "inplace_vector" /\ IV!Next

ContainersSpec ==
  /\ ContainersInit
  /\ [][ContainersNext]_<<subject, vars, lst, node, fwd, cell, data, run, heap,
                          words, table, live, ptr, raw, members, ranks,
                          bucket, count, place, held, str, storage, filled>>

\* What new returns is interchangeable.
Interchangeable == Permutations(Addresses) \cup Permutations(Objects)
-----------------------------------------------------------------------------
(* The types of all of them, the counts of the hash tables included.         *)
TypesOK == /\ TypeOK /\ DL!TypeOK /\ FL!TypeOK /\ FM!TypeOK /\ MM!TypeOK
           /\ PQ!TypeOK /\ BitsetTypeOK /\ HM!TypeOK /\ UniqueTypeOK
           /\ FS!TypeOK /\ FB!TypeOK /\ HS!TypeOK /\ HB!TypeOK /\ ST!TypeOK /\ IV!TypeOK

(* map: one value per key; multimap: a queue of values per key; unordered    *)
(* multimap: a bag of pairs; the sets: sets and bags of keys; inplace_vector:*)
(* a sequence; priority_queue: a bag whose largest element is popped.  Each  *)
(* call does what its name says of that, and nothing to the rest of it.      *)
CallsAsNamed ==
  /\ FM!BehavesLikeMap /\ FS!BehavesLikeSet /\ MM!QueuesPerKey /\ FB!BehavesLikeBag
  /\ HM!CountsPairs /\ HS!BehavesLikeSet /\ HB!CountsKeys
  /\ IV!BehavesLikeSequence /\ PQ!PopsLargest

(* bitset: no observer sees another bit than the N, and the others are       *)
(* clear.  basic_string: find returns the first place, substr the named part.*)
(* unordered_multimap, unordered_set, unordered_multiset: no entry is missed,*)
(* doubled where it must not be, or found after its erasure.                 *)
ObserversExact ==
  /\ TailClear /\ WordsAgree /\ ST!FindsFirst /\ ST!CutsExactly
  /\ HM!AllMatchesFound /\ HS!LookupsExact /\ HB!LookupsExact
=============================================================================
