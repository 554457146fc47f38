-------------------------------- MODULE Hive --------------------------------
(* hive: slots in one growing array, a stack of the indices of empty slots   *)
(* that insertions reuse, and iterators that are indices skipping the empty  *)
(* ones.  One iterator, the cursor of a traversal, is followed while the     *)
(* program inserts and erases around it.                                     *)
EXTENDS Integers, Sequences, FiniteSets

CONSTANTS Items,       \* the element values
          Hole,        \* an empty slot
          MaxSlots     \* bound: no more slots than this

ASSUME HiveAssumption == Hole \notin Items /\ MaxSlots \in Nat

VARIABLES
  cells,     \* _slots: slot i is cells[i + 1]
  free,      \* the free list, its top last
  held,      \* _size: the number of elements the hive claims to hold
  cursor,    \* index of the traversal's iterator; NoCursor when there is none
  todo       \* history: elements there at its begin(), not erased, not yet visited

hiveVars == <<cells, free, held, cursor, todo>>

NoCursor == -1
At(i) == cells[i + 1]
Indices == 0..(Len(cells) - 1)
Taken == {i \in Indices : At(i) # Hole}

HiveInit == /\ cells = <<>> /\ free = <<>> /\ held = 0
            /\ cursor = NoCursor /\ todo = {}

(* advance_to_filled: the first filled slot from i on, or end(). *)
Advance(s, i) ==
  LET ahead == {j \in i..(Len(s) - 1) : s[j + 1] # Hole}
  IN IF ahead = {} THEN Len(s)
     ELSE CHOOSE j \in ahead : \A k \in ahead : j <= k
-----------------------------------------------------------------------------
(* Mutant of Reserve: the slots in use go onto the free list as well. *)
ReserveFreeingAll(n) ==
  /\ n > Len(cells) /\ n <= MaxSlots
  /\ cells' = [i \in 1..n |-> IF i <= Len(cells) THEN cells[i] ELSE Hole]
  /\ free' = free \o [i \in 1..n |-> i - 1]
  /\ UNCHANGED <<held, cursor, todo>>

(* reserve: the new slots are empty and go onto the free list in order. *)
Reserve(n) ==
  /\ n > Len(cells) /\ n <= MaxSlots
  /\ cells' = [i \in 1..n |-> IF i <= Len(cells) THEN cells[i] ELSE Hole]
  /\ free' = free \o [i \in 1..(n - Len(cells)) |-> Len(cells) + i - 1]
  /\ UNCHANGED <<held, cursor, todo>>

ClearHive ==
  /\ cells' = <<>> /\ free' = <<>> /\ held' = 0
  /\ cursor' = NoCursor /\ todo' = {}

(* Mutant of InsertReusing: the slot stays on the free list. *)
InsertReusingUnpopped(v) ==
  /\ free # <<>>
  /\ cells' = [cells EXCEPT ![free[Len(free)] + 1] = v]
  /\ held' = held + 1
  /\ UNCHANGED <<free, cursor, todo>>

(* insert: into the slot on top of the free list, or into a new last slot. *)
InsertReusing(v) ==
  /\ free # <<>>
  /\ cells' = [cells EXCEPT ![free[Len(free)] + 1] = v]
  /\ free' = SubSeq(free, 1, Len(free) - 1)
  /\ held' = held + 1
  /\ UNCHANGED <<cursor, todo>>

InsertAtEnd(v) ==
  /\ free = <<>> /\ Len(cells) < MaxSlots
  /\ cells' = Append(cells, v)
  /\ held' = held + 1
  /\ UNCHANGED <<free, cursor, todo>>

InsertElement(v) == InsertReusing(v) \/ InsertAtEnd(v)

(* erase through an iterator to slot i *)
Vacate(i) ==
  /\ cells' = [cells EXCEPT ![i + 1] = Hole]
  /\ free' = Append(free, i)
  /\ held' = held - 1
  /\ todo' = todo \ {i}

(* Erasing another element than the cursor's, or the cursor's own: then the  *)
(* cursor moves to the iterator erase returns.                               *)
EraseElement(i) ==
  /\ i \in Taken /\ i # cursor
  /\ Vacate(i)
  /\ UNCHANGED cursor

(* Mutant of EraseAtCursor: the search starts one slot late. *)
EraseAtCursorSkipping ==
  /\ cursor \in Taken
  /\ Vacate(cursor)
  /\ cursor' = Advance(cells', cursor + 2)

EraseAtCursor ==
  /\ cursor \in Taken
  /\ Vacate(cursor)
  /\ cursor' = Advance(cells', cursor + 1)

Begin ==
  /\ cursor' = Advance(cells, 0)
  /\ todo' = Taken
  /\ UNCHANGED <<cells, free, held>>

Increment ==
  /\ cursor \in Taken
  /\ cursor' = Advance(cells, cursor + 1)
  /\ todo' = todo \ {cursor}
  /\ UNCHANGED <<cells, free, held>>

HiveNext == \/ \E n \in 1..MaxSlots : Reserve(n)
            \/ \E v \in Items : InsertElement(v)
            \/ \E i \in Taken : EraseElement(i)
            \/ EraseAtCursor \/ Begin \/ Increment \/ ClearHive

HiveSpec == HiveInit /\ [][HiveNext]_hiveVars
-----------------------------------------------------------------------------
HiveTypeOK == /\ cells \in Seq(Items \cup {Hole}) /\ Len(cells) <= MaxSlots
              /\ free \in Seq(Nat)
              /\ held \in Int
              /\ cursor \in Int
              /\ todo \subseteq Nat

(* The free list names every empty slot exactly once, so no insertion ever   *)
(* lands on a living element and no hole is forgotten, and size() is the     *)
(* number of elements, through any mix of reserve, insert, erase and clear.  *)
FreeListExact ==
  /\ \A k \in DOMAIN free : free[k] \in Indices \ Taken
  /\ \A j, k \in DOMAIN free : free[j] = free[k] => j = k
  /\ \A i \in Indices \ Taken : \E k \in DOMAIN free : free[k] = i
  /\ held + Len(free) = Len(cells)

(* A traversal misses nothing: every element that was there at begin() and   *)
(* has not been erased is still ahead of the cursor or under it, also when   *)
(* the loop erases as it goes and other calls fill and empty slots.          *)
TraversalComplete ==
  cursor # NoCursor => \A i \in todo : i \in Taken /\ cursor <= i

(* The hive is a set of elements under stable handles ("Iterators stay       *)
(* stable across insert into the free-list pool and across erase", hive.hpp):*)
(* erase removes the element its iterator names, insert adds one under a     *)
(* handle that names none, and no call changes any other element.            *)
Elements == INSTANCE HandleSpec WITH
              Values <- Items,
              Handles <- 0..(MaxSlots - 1),
              content <- [i \in Taken |-> At(i)]
HiveCalls ==
  /\ \A n \in 1..MaxSlots : Reserve(n) => Elements!Unchanged
  /\ \A v \in Items : InsertElement(v) => \E h \in 0..(MaxSlots - 1) : Elements!Insert(h, v)
  /\ \A i \in Taken : EraseElement(i) => Elements!Erase(i)
  /\ EraseAtCursor => Elements!Erase(cursor)
  /\ ClearHive => Elements!Clear
BehavesLikeHive == Elements!Spec /\ [][HiveCalls]_hiveVars
=============================================================================
