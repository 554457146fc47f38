---------------------------- MODULE DynamicArray ----------------------------
(* dynamic_array<T> over typed_dynamic_memory<T>: the sequence container     *)
(* every other container of the library is built on, down to the slots of    *)
(* its buffers and the counted references that keep a buffer's memory alive. *)
(*                                                                           *)
(* An array holds a synthetic pointer: a counted reference to a memory       *)
(* backend and the address of a buffer.  The backend records every buffer    *)
(* it hands out, ignores deallocate, and frees all of them when the last     *)
(* pointer to it (held by an array or by an iterator) goes away.             *)
EXTENDS Integers, Sequences, FiniteSets

CONSTANTS
  Arrays, Iters,     \* the array and iterator objects a program declares
  Mems, Bufs,        \* identities of backends and of buffers: positive naturals
  Values, Default,   \* element values, and the value of T{}
  Raw, Hollow,       \* a slot with no object, with a moved-from object
  TrivialMove,       \* T owns nothing, and moving it copies it
  AllowAlias,        \* callers may pass a reference to an element of the array
  FirstCapacity,     \* capacity after the first growth (4 in the source)
  MaxCapacity        \* bound: no buffer is larger than this

ASSUME DynamicArrayAssumption ==
  /\ IsFiniteSet(Arrays) /\ IsFiniteSet(Iters)
  /\ Mems \subseteq Nat \ {0} /\ Bufs \subseteq Nat \ {0}
  /\ Default \in Values /\ {Raw, Hollow} \cap Values = {} /\ Raw # Hollow
  /\ TrivialMove \in BOOLEAN /\ AllowAlias \in BOOLEAN
  /\ FirstCapacity \in Nat \ {0} /\ MaxCapacity \in Nat

VARIABLES
  arr,       \* [mem, buf, size, cap] of each array; mem = NoMem outside its lifetime
  iter,      \* [mem, buf] of each iterator; mem = NoMem outside its lifetime
  refs,      \* backend -> its trivial_shared_ptr count; 0: no such backend
  owned,     \* backend -> the buffers recorded in its allocation vector
  cell,      \* buffer -> its slots; <<>> when it is not allocated
  overlaid   \* history: a constructor ran on a slot whose object still owned something

vars == <<arr, iter, refs, owned, cell, overlaid>>

NoMem == 0
NoBuf == 0      \* the null address
Absent == [mem |-> NoMem, buf |-> NoBuf, size |-> 0, cap |-> 0]
NoIter == [mem |-> NoMem, buf |-> NoBuf]

Live == {a \in Arrays : arr[a].mem # NoMem}
Slots(a) == cell[arr[a].buf]

Init == /\ arr = [a \in Arrays |-> Absent]
        /\ iter = [i \in Iters |-> NoIter]
        /\ refs = [m \in Mems |-> 0]
        /\ owned = [m \in Mems |-> {}]
        /\ cell = [b \in Bufs \cup {NoBuf} |-> <<>>]
        /\ overlaid = FALSE
-----------------------------------------------------------------------------
(* What a move and a destructor leave in a slot. *)
Remains(c) == IF TrivialMove THEN c ELSE Hollow
Destroyed(c) == Raw

(* What a constructor copies through a reference to slot c: its value, or    *)
(* any value at all once the object there was moved from or destroyed.       *)
Copies(c) == IF c \in Values THEN {c} ELSE Values

(* Running a constructor on slot c loses what its object owns. *)
Loses(c) == ~TrivialMove /\ c # Raw

(* Mutant of DestroyRange: the range starts one element early. *)
DestroyRangeEarly(s, first, last) ==
  [k \in DOMAIN s |-> IF first <= k + 1 /\ k <= last THEN Destroyed(s[k]) ELSE s[k]]

DestroyRange(s, first, last) ==
  [k \in DOMAIN s |-> IF first <= k /\ k <= last THEN Destroyed(s[k]) ELSE s[k]]

(* Counting a pointer to backend "to" in and one to "from" out.  A backend   *)
(* left with no pointer runs its destructor, which frees its buffers.        *)
Rebind(from, to) ==
  [m \in Mems |-> refs[m] + (IF m = to THEN 1 ELSE 0) - (IF m = from THEN 1 ELSE 0)]

Surviving(r, o) == [m \in Mems |-> IF r[m] = 0 THEN {} ELSE o[m]]

Storage(o, c) ==
  [b \in Bufs \cup {NoBuf} |-> IF \E m \in Mems : b \in o[m] THEN c[b] ELSE <<>>]

FreeMems == {m \in Mems : refs[m] = 0}
FreeBufs == {b \in Bufs : \A m \in Mems : b \notin owned[m]}
Lowest(S) == CHOOSE x \in S : \A y \in S : x <= y

(* typed_dynamic_memory::allocate: the null address for no slots, otherwise  *)
(* a fresh buffer recorded by backend m.                                     *)
CanAllocate(n) == n = 0 \/ (n <= MaxCapacity /\ FreeBufs # {})
Allocated(n) == IF n = 0 THEN NoBuf ELSE Lowest(FreeBufs)
Record(o, m, n) == IF n = 0 THEN o ELSE [o EXCEPT ![m] = @ \cup {Allocated(n)}]

(* reserve: the heap and the array after a growth to n slots, or as they are. *)
CanReserve(a, n) == n <= arr[a].cap \/ CanAllocate(n)
(* Mutant of Reserve: the elements are copied and the old ones left behind. *)
ReserveAbandoning(a, n) ==
  LET old == arr[a]
      new == Allocated(n)
  IN IF n <= old.cap
     THEN [arr |-> arr, owned |-> owned, cell |-> cell]
     ELSE [arr |-> [arr EXCEPT ![a].buf = new, ![a].cap = n],
           owned |-> Record(owned, old.mem, n),
           cell |-> [cell EXCEPT
             ![new] = [k \in 1..n |-> IF k <= old.size THEN Slots(a)[k] ELSE Raw]]]

Reserve(a, n) ==
  LET old == arr[a]
      new == Allocated(n)
  IN IF n <= old.cap
     THEN [arr |-> arr, owned |-> owned, cell |-> cell]
     ELSE [arr |-> [arr EXCEPT ![a].buf = new, ![a].cap = n],
           owned |-> Record(owned, old.mem, n),
           cell |-> [cell EXCEPT
             ![new] = [k \in 1..n |-> IF k <= old.size THEN Slots(a)[k] ELSE Raw],
             ![old.buf] = [k \in DOMAIN @ |-> IF k <= old.size
                                              THEN Destroyed(Remains(@[k])) ELSE @[k]]]]

(* The growth emplace_back and insert ask for before they add an element. *)
RoomForOne(a) ==
  IF arr[a].size < arr[a].cap THEN arr[a].cap
  ELSE IF arr[a].cap = 0 THEN FirstCapacity ELSE 2 * arr[a].cap

(* The end of an operation: array a, as reserve left it in h, holds slots s  *)
(* and n elements.                                                           *)
Commit(a, h, s, n, lost) ==
  /\ arr' = [h.arr EXCEPT ![a].size = n]
  /\ cell' = [h.cell EXCEPT ![h.arr[a].buf] = s]
  /\ owned' = h.owned
  /\ overlaid' = (overlaid \/ lost)
  /\ UNCHANGED <<refs, iter>>

InPlace == [arr |-> arr, owned |-> owned, cell |-> cell]
-----------------------------------------------------------------------------
(* Constructors.  A default-constructed array brings a backend of its own. *)
Begins(a, m, n, s, r) ==
  /\ CanAllocate(n)
  /\ arr' = [arr EXCEPT ![a] = [mem |-> m, buf |-> Allocated(n), size |-> Len(s), cap |-> n]]
  /\ refs' = r
  /\ owned' = Record(owned, m, n)
  /\ cell' = IF n = 0 THEN cell
             ELSE [cell EXCEPT ![Allocated(n)] = s \o [k \in 1..(n - Len(s)) |-> Raw]]
  /\ UNCHANGED <<iter, overlaid>>

Construct(a) ==
  /\ a \notin Live /\ FreeMems # {}
  /\ LET m == Lowest(FreeMems) IN Begins(a, m, 0, <<>>, Rebind(NoMem, m))

ConstructN(a, m, n) ==
  /\ a \notin Live /\ refs[m] > 0
  /\ Begins(a, m, n, [k \in 1..n |-> Default], Rebind(NoMem, m))

(* dynamic_array(typed_memory&, const dynamic_array&): as many slots as the  *)
(* other array has, its elements copied.                                     *)
CopyConstruct(a, b, m) ==
  /\ a \notin Live /\ b \in Live /\ refs[m] > 0
  /\ Begins(a, m, arr[b].cap, SubSeq(Slots(b), 1, arr[b].size), Rebind(NoMem, m))

(* The source keeps a null pointer, which still counts on the backend. *)
Vacated(b) == [mem |-> arr[b].mem, buf |-> NoBuf, size |-> 0, cap |-> 0]

(* Mutant of MoveConstruct: the null pointer left behind is not counted. *)
MoveConstructUncounted(a, b) ==
  /\ a \notin Live /\ b \in Live
  /\ arr' = [arr EXCEPT ![a] = arr[b], ![b] = Vacated(b)]
  /\ UNCHANGED <<refs, iter, owned, cell, overlaid>>

MoveConstruct(a, b) ==
  /\ a \notin Live /\ b \in Live
  /\ arr' = [arr EXCEPT ![a] = arr[b], ![b] = Vacated(b)]
  /\ refs' = Rebind(NoMem, arr[b].mem)
  /\ UNCHANGED <<iter, owned, cell, overlaid>>

(* Ending the use of a's elements and dropping a pointer to backend "from". *)
Release(a, from, to) ==
  /\ refs' = Rebind(from, to)
  /\ owned' = Surviving(refs', owned)
  /\ cell' = Storage(owned', [cell EXCEPT ![arr[a].buf] = DestroyRange(@, 1, arr[a].size)])
  /\ UNCHANGED <<iter, overlaid>>

(* Mutant of MoveAssign: the source keeps the address of its buffer. *)
MoveAssignSharing(a, b) ==
  /\ {a, b} \subseteq Live /\ a # b
  /\ arr' = [arr EXCEPT ![a] = arr[b], ![b].size = 0]
  /\ Release(a, arr[a].mem, arr[b].mem)

MoveAssign(a, b) ==
  /\ {a, b} \subseteq Live /\ a # b
  /\ arr' = [arr EXCEPT ![a] = arr[b], ![b] = Vacated(b)]
  /\ Release(a, arr[a].mem, arr[b].mem)

Destroy(a) ==
  /\ a \in Live
  /\ arr' = [arr EXCEPT ![a] = Absent]
  /\ Release(a, arr[a].mem, NoMem)

ClearAndDeallocateBuffer(a) ==
  /\ a \in Live
  /\ arr' = [arr EXCEPT ![a] = Vacated(a)]
  /\ Release(a, NoMem, NoMem)
-----------------------------------------------------------------------------
(* Element operations.  Positions count from 1. *)
ReserveTo(a, n) ==
  /\ a \in Live /\ n > arr[a].cap /\ CanReserve(a, n)
  /\ LET h == Reserve(a, n)
     IN Commit(a, h, h.cell[h.arr[a].buf], arr[a].size, FALSE)

Resize(a, n) ==
  /\ a \in Live /\ CanReserve(a, n)
  /\ LET h == Reserve(a, n)
         s == h.cell[h.arr[a].buf]
         old == arr[a].size
     IN Commit(a, h,
               [k \in DOMAIN s |-> IF old < k /\ k <= n THEN Default
                                   ELSE IF n < k /\ k <= old THEN Destroyed(s[k])
                                   ELSE s[k]],
               n, \E k \in (old + 1)..n : Loses(s[k]))

(* emplace_back constructs the new element after the growth, from v or from  *)
(* what slot j of the buffer the array had, the caller's reference, holds by *)
(* then: after a growth, an element that was moved from and destroyed.       *)
Appends(a, h, v) ==
  LET s == h.cell[h.arr[a].buf]
      n == arr[a].size + 1
  IN Commit(a, h, [s EXCEPT ![n] = v], n, Loses(s[n]))

EmplaceBack(a, v) ==
  /\ a \in Live /\ CanReserve(a, RoomForOne(a))
  /\ Appends(a, Reserve(a, RoomForOne(a)), v)

EmplaceBackOwn(a, j) ==
  /\ AllowAlias /\ a \in Live /\ CanReserve(a, RoomForOne(a))
  /\ j \in 1..arr[a].size
  /\ LET h == Reserve(a, RoomForOne(a))
     IN \E v \in Copies(h.cell[arr[a].buf][j]) : Appends(a, h, v)

PopBack(a) ==
  /\ a \in Live /\ arr[a].size > 0
  /\ Commit(a, InPlace, DestroyRange(Slots(a), arr[a].size, arr[a].size),
            arr[a].size - 1, FALSE)

Clear(a) ==
  /\ a \in Live
  /\ Commit(a, InPlace, DestroyRange(Slots(a), 1, arr[a].size), 0, FALSE)

(* Mutant of ShiftedUp: the loop misses the topmost element. *)
ShiftedUpShort(s, n, i) ==
  [k \in DOMAIN s |-> IF i < k /\ k <= n THEN s[k - 1]
                      ELSE IF k = i /\ i <= n THEN Remains(s[k])
                      ELSE s[k]]

(* insert: elements from position i on move one slot up, the topmost by      *)
(* construction, the others by assignment; then the new element is           *)
(* constructed in slot i without destroying the moved-from one there.        *)
ShiftedUp(s, n, i) ==
  [k \in DOMAIN s |-> IF i < k /\ k <= n + 1 THEN s[k - 1]
                      ELSE IF k = i /\ i <= n THEN Remains(s[k])
                      ELSE s[k]]

Inserts(a, h, i, v, s) ==
  LET n == arr[a].size
  IN Commit(a, h, [s EXCEPT ![i] = v], n + 1,
            Loses(s[i]) \/ Loses(h.cell[h.arr[a].buf][n + 1]))

Insert(a, i, v) ==
  /\ a \in Live /\ i \in 1..arr[a].size + 1 /\ CanReserve(a, RoomForOne(a))
  /\ LET h == Reserve(a, RoomForOne(a))
     IN Inserts(a, h, i, v, ShiftedUp(h.cell[h.arr[a].buf], arr[a].size, i))

(* The caller's reference is to slot j of the buffer the array had. *)
InsertOwn(a, i, j) ==
  /\ AllowAlias /\ a \in Live /\ i \in 1..arr[a].size + 1 /\ j \in 1..arr[a].size
  /\ CanReserve(a, RoomForOne(a))
  /\ LET h == Reserve(a, RoomForOne(a))
         s == ShiftedUp(h.cell[h.arr[a].buf], arr[a].size, i)
         c == IF h.arr[a].buf = arr[a].buf THEN s[j] ELSE h.cell[arr[a].buf][j]
     IN \E v \in Copies(c) : Inserts(a, h, i, v, s)

(* Mutant of EraseRange: the loop stops one element short. *)
EraseRangeShort(a, first, last) ==
  LET n == arr[a].size
      gap == last - first
      s == DestroyRange(Slots(a), first, last - 1)
  IN /\ a \in Live /\ first \in 1..n + 1 /\ last \in first..n + 1
     /\ Commit(a, InPlace,
               [k \in DOMAIN s |-> IF first <= k /\ k < n - gap THEN s[k + gap]
                                   ELSE IF last <= k /\ k <= n THEN Remains(s[k])
                                   ELSE s[k]],
               n - gap, \E k \in last..(n - gap) : Loses(s[k]))

(* erase(first, last), and erase(pos) = erase(pos, pos + 1): the erased slots *)
(* are destroyed, then every later element is constructed further down, over *)
(* a moved-from slot once the destroyed ones are used up.                    *)
EraseRange(a, first, last) ==
  LET n == arr[a].size
      gap == last - first
      s == DestroyRange(Slots(a), first, last - 1)
  IN /\ a \in Live /\ first \in 1..n + 1 /\ last \in first..n + 1
     /\ Commit(a, InPlace,
               [k \in DOMAIN s |-> IF first <= k /\ k <= n - gap THEN s[k + gap]
                                   ELSE IF last <= k /\ k <= n THEN Remains(s[k])
                                   ELSE s[k]],
               n - gap, \E k \in last..(n - gap) : Loses(s[k]))
-----------------------------------------------------------------------------
(* begin() and iterator lifetimes: an iterator carries a counted pointer. *)
BeginIter(i, a) ==
  /\ a \in Live /\ iter[i] = NoIter
  /\ iter' = [iter EXCEPT ![i] = [mem |-> arr[a].mem, buf |-> arr[a].buf]]
  /\ refs' = Rebind(NoMem, arr[a].mem)
  /\ UNCHANGED <<arr, owned, cell, overlaid>>

(* Mutant of EndIter: the iterator's pointer is never counted out. *)
EndIterUncounted(i) ==
  /\ iter[i] # NoIter
  /\ iter' = [iter EXCEPT ![i] = NoIter]
  /\ UNCHANGED <<arr, refs, owned, cell, overlaid>>

EndIter(i) ==
  /\ iter[i] # NoIter
  /\ iter' = [iter EXCEPT ![i] = NoIter]
  /\ refs' = Rebind(iter[i].mem, NoMem)
  /\ owned' = Surviving(refs', owned)
  /\ cell' = Storage(owned', cell)
  /\ UNCHANGED <<arr, overlaid>>

Next ==
  \/ \E a \in Arrays :
       \/ Construct(a) \/ Destroy(a) \/ ClearAndDeallocateBuffer(a)
       \/ PopBack(a) \/ Clear(a)
       \/ \E v \in Values : EmplaceBack(a, v)
       \/ \E i \in 1..MaxCapacity, v \in Values : Insert(a, i, v)
       \/ \E j \in 1..MaxCapacity : EmplaceBackOwn(a, j)
       \/ \E i, j \in 1..MaxCapacity : InsertOwn(a, i, j)
       \/ \E first, last \in 1..MaxCapacity + 1 : EraseRange(a, first, last)
       \/ \E n \in 0..MaxCapacity : ReserveTo(a, n) \/ Resize(a, n)
       \/ \E m \in Mems, n \in 0..MaxCapacity : ConstructN(a, m, n)
       \/ \E b \in Arrays : MoveConstruct(a, b) \/ MoveAssign(a, b)
       \/ \E b \in Arrays, m \in Mems : CopyConstruct(a, b, m)
  \/ \E i \in Iters : EndIter(i) \/ \E a \in Arrays : BeginIter(i, a)

Spec == Init /\ [][Next]_vars
-----------------------------------------------------------------------------
TypeOK ==
  /\ arr \in [Arrays -> [mem : Mems \cup {NoMem}, buf : Bufs \cup {NoBuf},
                         size : Nat, cap : Nat]]
  /\ iter \in [Iters -> [mem : Mems \cup {NoMem}, buf : Bufs \cup {NoBuf}]]
  /\ refs \in [Mems -> Nat]
  /\ owned \in [Mems -> SUBSET Bufs]
  /\ cell \in [Bufs \cup {NoBuf} -> Seq(Values \cup {Raw, Hollow})]
  /\ overlaid \in BOOLEAN

(* The count in trivial_shared_ptr is the number of pointers to the backend  *)
(* through moves, self-sharing assignments, null pointers and iterators, so  *)
(* the backend is deleted exactly when the last of them goes.                *)
RefsExact ==
  \A m \in Mems : refs[m] = Cardinality({a \in Arrays : arr[a].mem = m})
                           + Cardinality({i \in Iters : iter[i].mem = m})

(* No array or iterator ever points into freed memory: the buffer it names   *)
(* is recorded by a backend it keeps alive, even when the array an iterator  *)
(* came from has grown, moved away or died.  No two arrays share a buffer,   *)
(* and no two backends would free the same one.                              *)
BuffersHeld ==
  /\ \A a \in Live : arr[a].buf # NoBuf => arr[a].buf \in owned[arr[a].mem]
  /\ \A i \in Iters : iter[i].buf # NoBuf => iter[i].buf \in owned[iter[i].mem]
  /\ \A a, b \in Live : a # b /\ arr[a].buf = arr[b].buf => arr[a].buf = NoBuf
  /\ \A m, n \in Mems : m # n => owned[m] \cap owned[n] = {}

(* Every position below size holds a constructed, not moved-from element of  *)
(* a buffer with capacity slots, whatever growth, shifting, erasing and      *)
(* moving between arrays came before.                                        *)
ElementsInPlace ==
  \A a \in Live : /\ Len(Slots(a)) = arr[a].cap /\ arr[a].size <= arr[a].cap
                 /\ \A k \in 1..arr[a].size : Slots(a)[k] \in Values

(* An object in slot k of buffer b that no array would ever destroy: above   *)
(* the size of the array that has b, or in a buffer no array has any more.   *)
Stray(b, k) ==
  /\ k \in DOMAIN cell[b] /\ cell[b][k] # Raw
  /\ \A a \in Live : arr[a].buf = b => arr[a].size < k

(* No call leaves an object behind without running its destructor, in an     *)
(* abandoned buffer or above size, but one: erase moves the last elements    *)
(* down and only lowers size, so the moved-from objects at the end of the    *)
(* array are stranded there.  What it strands is never an element a caller   *)
(* still had.                                                                *)
NothingStranded ==
  [][\A b \in Bufs : \A k \in DOMAIN cell'[b] :
       Stray(b, k)' =>
         \/ Stray(b, k)
         \/ \E a \in Live : \E first, last \in 1..MaxCapacity + 1 :
              /\ EraseRange(a, first, last) /\ arr[a].buf = b
              /\ k \in last..arr[a].size /\ cell'[b][k] = Remains(cell[b][k])]_vars

(* No constructor runs on a slot whose object still owns something: what     *)
(* constexpr evaluation needs, where an element whose destructor is skipped  *)
(* leaves its allocation behind.                                             *)
NothingOverlaid == ~overlaid

(* The array is a std::vector (doc/overview.md: "dynamic_array<int> behave   *)
(* like a std::vector<int>"): buffers, capacity, growth and moved-from slots *)
(* never show in the sequence a caller reads.                                *)
Vec == INSTANCE VectorSpec WITH
         MaxLength <- MaxCapacity,
         live <- Live,
         content <- [a \in Arrays |-> SubSeq(Slots(a), 1, arr[a].size)]
BehavesLikeVector == Vec!Spec

(* Each call leaves what std::vector's call with the same arguments leaves.  *)
(* A reference to an element of the array is read as std::vector reads it    *)
(* when the call needs no growth and, for insert, moves no element the       *)
(* reference is to; AppendOwnMatches and InsertOwnMatches are the rest.      *)
CallsMatch ==
  [][\A a \in Live :
       /\ PopBack(a) => Vec!PopBack(a)
       /\ \A v \in Values : EmplaceBack(a, v) => Vec!PushBack(a, v)
       /\ \A i \in 1..MaxCapacity, v \in Values : Insert(a, i, v) => Vec!Insert(a, i, v)
       /\ arr[a].size < arr[a].cap =>
            /\ \A j \in 1..arr[a].size :
                 EmplaceBackOwn(a, j) => Vec!PushBack(a, Slots(a)[j])
            /\ \A i \in 1..MaxCapacity : \A j \in 1..i - 1 :
                 InsertOwn(a, i, j) => Vec!Insert(a, i, Slots(a)[j])
       /\ \A n \in 0..MaxCapacity : Resize(a, n) => Vec!Resize(a, n)
       /\ \A first, last \in 1..arr[a].size + 1 :
            EraseRange(a, first, last) => Vec!EraseRange(a, first, last)]_vars

(* push_back(a[j]) appends the value a[j] had when the call was made, as     *)
(* std::vector's does, also when the array has to grow first.                *)
AppendOwnMatches ==
  [][\A a \in Live : \A j \in 1..arr[a].size :
       EmplaceBackOwn(a, j) => Vec!PushBack(a, Slots(a)[j])]_vars

(* insert(pos, a[j]) inserts the value a[j] had when the call was made, as   *)
(* std::vector's does, wherever pos is; at least when no growth is needed.   *)
InsertOwnMatches ==
  [][\A a \in Live : \A i \in 1..MaxCapacity, j \in 1..arr[a].size :
       arr[a].size < arr[a].cap /\ InsertOwn(a, i, j) => Vec!Insert(a, i, Slots(a)[j])]_vars
=============================================================================
