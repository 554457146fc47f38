---------------------------- MODULE StaticMemory ----------------------------
(* dynamic_array<int, typed_static_memory<int>>: several arrays in one       *)
(* fixed block of slots.  allocate moves a bump offset up and never reuses   *)
(* what deallocate is given; offset 0 is the null address.                   *)
EXTENDS Integers, SequencesExt

CONSTANTS
  Arrays,            \* the array objects a program declares over the block
  Numbers, Zero,     \* element values, and the value of T{}
  Capacity,          \* typed_static_memory_size: slots besides slot 0
  FirstCapacity,     \* capacity after the first growth (4 in the source)
  MayExhaust         \* callers may ask for more than remaining_size()

ASSUME StaticMemoryAssumption ==
  /\ Zero \in Numbers /\ Capacity \in Nat
  /\ FirstCapacity \in Nat \ {0} /\ MayExhaust \in BOOLEAN

VARIABLES
  store,     \* the slots of the block: static_memory_backend
  offset,    \* typed_static_memory::_offset, the first slot never handed out
  arr        \* [off, size, cap] of each array; off = Dead outside its lifetime

staticVars == <<store, offset, arr>>

Slots == 0..Capacity
Null == 0
Dead == -1
Absent == [off |-> Dead, size |-> 0, cap |-> 0]
Unattached == [off |-> Null, size |-> 0, cap |-> 0]

Live == {a \in Arrays : arr[a].off # Dead}
Contents(a) == [k \in 1..arr[a].size |-> store[arr[a].off + k - 1]]

StaticInit == /\ store = [p \in Slots |-> Zero]
              /\ offset = 1
              /\ arr = [a \in Arrays |-> Absent]
-----------------------------------------------------------------------------
Remaining == Capacity + 1 - offset

(* allocate: the null address for no slots and for more than remain. *)
Fits(n) == n > 0 /\ n <= Remaining
Allocated(n) == IF Fits(n) THEN offset ELSE Null

(* Mutant of Bumped: the next buffer starts on the last slot of this one. *)
BumpedShort(n) == IF Fits(n) THEN offset + n - 1 ELSE offset

Bumped(n) == IF Fits(n) THEN offset + n ELSE offset

(* What callers ask for.  A buffer at the null address still has to lie in   *)
(* the block, or the next write leaves the object.                           *)
MayAsk(n) == n <= Remaining \/ (MayExhaust /\ n <= Capacity + 1)

(* The slots after s has been written from slot p on. *)
Written(p, s) ==
  [q \in Slots |-> IF p <= q /\ q < p + Len(s) THEN s[q - p + 1] ELSE store[q]]

(* Array a gets room for n elements if it has less, then holds s.  reserve   *)
(* does not look at the address it gets, and its copy loop, upwards to a     *)
(* lower or an unused address, keeps the elements.                           *)
NowHolds(a, s, n) ==
  LET old == arr[a]
      new == IF n <= old.cap THEN old ELSE [old EXCEPT !.off = Allocated(n), !.cap = n]
  IN /\ a \in Live
     /\ n <= old.cap \/ MayAsk(n)
     /\ offset' = IF n <= old.cap THEN offset ELSE Bumped(n)
     /\ arr' = [arr EXCEPT ![a] = [new EXCEPT !.size = Len(s)]]
     /\ store' = Written(new.off, s)

RoomForOne(a) ==
  IF arr[a].size < arr[a].cap THEN arr[a].cap
  ELSE IF arr[a].cap = 0 THEN FirstCapacity ELSE 2 * arr[a].cap

Begins(a, s, n) ==
  /\ a \notin Live /\ MayAsk(n)
  /\ offset' = Bumped(n)
  /\ arr' = [arr EXCEPT ![a] = [off |-> Allocated(n), size |-> Len(s), cap |-> n]]
  /\ store' = Written(Allocated(n), s)
-----------------------------------------------------------------------------
(* dynamic_array(memory, n); dynamic_array(memory) is the case n = 0. *)
ConstructN(a, n) == Begins(a, [k \in 1..n |-> Zero], n)

CopyConstruct(a, b) == b \in Live /\ Begins(a, Contents(b), arr[b].cap)

MoveConstruct(a, b) ==
  /\ a \notin Live /\ b \in Live
  /\ arr' = [arr EXCEPT ![a] = arr[b], ![b] = Unattached]
  /\ UNCHANGED <<store, offset>>

(* Mutant of MoveAssign: the source keeps its buffer. *)
MoveAssignSharing(a, b) ==
  /\ {a, b} \subseteq Live /\ a # b
  /\ arr' = [arr EXCEPT ![a] = arr[b]]
  /\ UNCHANGED <<store, offset>>

MoveAssign(a, b) ==
  /\ {a, b} \subseteq Live /\ a # b
  /\ arr' = [arr EXCEPT ![a] = arr[b], ![b] = Unattached]
  /\ UNCHANGED <<store, offset>>

(* deallocate ignores what it is given. *)
Destroy(a) ==
  /\ a \in Live
  /\ arr' = [arr EXCEPT ![a] = Absent]
  /\ UNCHANGED <<store, offset>>

ClearAndDeallocateBuffer(a) ==
  /\ a \in Live
  /\ arr' = [arr EXCEPT ![a] = Unattached]
  /\ UNCHANGED <<store, offset>>

ReserveTo(a, n) == n > arr[a].cap /\ NowHolds(a, Contents(a), n)

Resize(a, n) ==
  NowHolds(a, [k \in 1..n |-> IF k <= arr[a].size THEN Contents(a)[k] ELSE Zero], n)

EmplaceBack(a, v) == NowHolds(a, Append(Contents(a), v), RoomForOne(a))

PopBack(a) == arr[a].size > 0 /\ NowHolds(a, Front(Contents(a)), 0)

ClearArray(a) == NowHolds(a, <<>>, 0)

InsertInto(a, i, v) ==
  i \in 1..arr[a].size + 1 /\ NowHolds(a, InsertAt(Contents(a), i, v), RoomForOne(a))

EraseFrom(a, i) == i \in 1..arr[a].size /\ NowHolds(a, RemoveAt(Contents(a), i), 0)

StaticNext ==
  \E a \in Arrays :
    \/ Destroy(a) \/ ClearAndDeallocateBuffer(a) \/ PopBack(a) \/ ClearArray(a)
    \/ \E b \in Arrays : CopyConstruct(a, b) \/ MoveConstruct(a, b) \/ MoveAssign(a, b)
    \/ \E n \in 0..Capacity + 1 : ConstructN(a, n) \/ ReserveTo(a, n) \/ Resize(a, n)
    \/ \E v \in Numbers : EmplaceBack(a, v)
    \/ \E i \in 1..Capacity, v \in Numbers : InsertInto(a, i, v)
    \/ \E i \in 1..Capacity : EraseFrom(a, i)

StaticSpec == StaticInit /\ [][StaticNext]_staticVars
-----------------------------------------------------------------------------
StaticTypeOK ==
  /\ store \in [Slots -> Numbers]
  /\ offset \in 1..Capacity + 1
  /\ arr \in [Arrays -> [off : Slots \cup {Dead}, size : 0..Capacity, cap : 0..Capacity]]

(* The buffers of two arrays never share a slot, lie below the bump offset   *)
(* and within the block, and stay clear of slot 0, through growth, copies,   *)
(* moves and the end of either array.                                        *)
Region(a) == arr[a].off..(arr[a].off + arr[a].cap - 1)
RegionsDisjoint ==
  \A a \in Live :
    /\ arr[a].size <= arr[a].cap
    /\ Region(a) \subseteq 1..(offset - 1)
    /\ \A b \in Live \ {a} : Region(a) \cap Region(b) = {}

(* "offset 0 has nullptr semantics" (typed_static_memory.hpp:32): no element *)
(* of an array lives there.                                                  *)
NullSlotFree == \A a \in Live : arr[a].size > 0 => arr[a].off # Null

(* As long as the block suffices, arrays that share it behave as if each had *)
(* memory of its own: a call changes the array it names and no other.        *)
Vec == INSTANCE VectorSpec WITH
         Values <- Numbers, Default <- Zero, MaxLength <- Capacity,
         live <- Live,
         content <- [a \in Arrays |-> Contents(a)]
VectorStep == UNCHANGED <<Live, [a \in Arrays |-> Contents(a)]>> \/ Vec!Next
ArraysBehave == Vec!Init /\ [][VectorStep]_staticVars
=============================================================================
