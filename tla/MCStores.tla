------------------------------ MODULE MCStores ------------------------------
(* Small instances of the hive, of unordered_map, of arrays in one block of  *)
(* static memory and of memories over several types.  They share no state:   *)
(* each behaviour picks one as its subject and runs that, the others stay    *)
(* initial.                                                                  *)
EXTENDS Hive, HashTable, StaticMemory, TLC

VARIABLES subject,
          relevant, mem, backend, ptr, freed  \* multitype_memory

\* More keys than the first table has buckets, so that tombstones can fill it.
\* Keys 0 and 1 share a bucket in the first table and part in the second, keys
\* 2 and 4 share the last one in both, so that their probes run over the end.
FiveKeys == 0..4
Colliding == [k \in FiveKeys |-> <<0, 4, 7, 2, 15>>[k + 1]]

\* One key for each bucket of the source's first table, and one more.
NineKeys == 0..8
NineBuckets == [k \in NineKeys |-> k]

\* Types 1 and 2 list nothing; 3 and 4 may list earlier ones, sets of them, one
\* twice, or nothing; the allocation vector is full after one buffer.
T1 == [name |-> 1, of |-> << >>]
T2 == [name |-> 2, of |-> << >>]
T3 == [name |-> 3, of |-> << >>]
T4 == [name |-> 4, of |-> << >>]
Either == [name |-> 0, of |-> <<T2, T1>>]
MM == INSTANCE MultitypeMemory WITH
        Names <- 3..4, Members <- {<<T2, Either>>, <<T3, T1, T3>>, << >>},
        Requests <- {<<T1>>, <<T1, Either, T1>>, <<T4, T3>>, <<T3, T2, Either, T4>>},
        Memories <- {"m", "n"}, Pointers <- {"u", "v"},
        FirstRoom <- 1, MaxBackends <- 2, MaxBuffers <- 2

memoryVars == <<relevant, mem, backend, ptr, freed>>

StoresInit ==
  /\ subject \in {"hive", "map", "static", "multitype"}
  /\ HiveInit /\ Init /\ StaticInit /\ MM!MultitypeInit

OthersStay ==
  /\ UNCHANGED subject
  /\ subject # "hive" => UNCHANGED hiveVars
  /\ subject # "map" => UNCHANGED vars
  /\ subject # "static" => UNCHANGED staticVars
  /\ subject # "multitype" => UNCHANGED memoryVars

StoresNext ==
  /\ OthersStay
  /\ \/ subject = "hive" /\ HiveNext
     \/ subject = "map" /\ Next
     \/ subject = "static" /\ StaticNext
     \/ subject = "multitype" /\ MM!MultitypeNext

StoresSpec ==
  StoresInit /\ [][StoresNext]_<<subject, hiveVars, vars, staticVars, memoryVars>>

\* The array objects play the same part, and so do the elements of the hive.
Interchangeable == Permutations(Arrays) \cup Permutations(Items)
-----------------------------------------------------------------------------
(* The types of all of them.                                                 *)
TypesOK == /\ HiveTypeOK /\ TypeOK /\ StaticTypeOK
           /\ (subject = "multitype" => MM!MultitypeTypeOK)

(* multitype_memory: a buffer is deallocated once, when nothing holds it;    *)
(* the types asked for are there, each once, each with a backend that serves *)
(* no other type.                                                            *)
MemoriesSound ==
  subject = "multitype" => /\ MM!BuffersFreedOnce
                           /\ backend = << >> => MM!RelevantExact
                           /\ MM!OneTypePerBackend
=============================================================================
