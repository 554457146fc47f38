----------------------------- MODULE RingDeque ------------------------------
(* deque: a ring over one dynamic_array whose size is the ring's capacity.   *)
(* The front is at slot head (counted from 0), positions wrap, and a full    *)
(* ring is laid out afresh from slot 0 of a buffer twice as large.           *)
EXTENDS Integers, Sequences

CONSTANTS Values, Default,    \* element values; Default is the value of T{}
          InitialCapacity,    \* 8 in the source
          MaxCapacity         \* bound: the ring never grows past this

ASSUME RingAssumption == /\ Default \in Values
                         /\ InitialCapacity \in Nat \ {0}
                         /\ MaxCapacity \in Nat

VARIABLES buf,     \* the slots, stale values included; slot i is buf[i + 1]
          head,    \* slot of front()
          size     \* number of elements

vars == <<buf, head, size>>

Cap == Len(buf)
Slot(h, i, c) == (h + i) % c       \* slot of the element at position i
At(i) == buf[Slot(head, i, Cap) + 1]

Init == buf = <<>> /\ head = 0 /\ size = 0
-----------------------------------------------------------------------------
(* A moved-from deque has lost its buffer but kept its head and size: every  *)
(* position is computed modulo 0.  Only clear and destruction are defined.   *)
Usable == size <= Cap

(* ensure_room *)
NewCapacity == IF Cap = 0 THEN InitialCapacity ELSE 2 * Cap
(* Mutant of Regrown: the slots are copied as they lie. *)
RegrownAsLaid == [i \in 1..NewCapacity |-> IF i <= Cap THEN buf[i] ELSE Default]

Regrown == [i \in 1..NewCapacity |-> IF i <= size THEN At(i - 1) ELSE Default]
Room == IF size + 1 > Cap THEN [buf |-> Regrown, head |-> 0]
        ELSE [buf |-> buf, head |-> head]
Fits == size + 1 > Cap => NewCapacity <= MaxCapacity

PushBack(v) ==
  /\ Usable /\ Fits
  /\ head' = Room.head
  /\ buf' = [Room.buf EXCEPT ![Slot(head', size, Len(Room.buf)) + 1] = v]
  /\ size' = size + 1

PushFront(v) ==
  /\ Usable /\ Fits
  /\ head' = Slot(Room.head, Len(Room.buf) - 1, Len(Room.buf))
  /\ buf' = [Room.buf EXCEPT ![head' + 1] = v]
  /\ size' = size + 1

(* Mutants of PopFront: the head does not wrap; the elements move instead. *)
PopFrontUnwrapped ==
  /\ Usable /\ size > 0
  /\ head' = head + 1
  /\ size' = size - 1
  /\ UNCHANGED buf

PopFrontShifting ==
  /\ Usable /\ size > 0
  /\ buf' = [i \in 1..Cap |-> buf[(i % Cap) + 1]]
  /\ size' = size - 1
  /\ UNCHANGED head

PopFront ==
  /\ Usable /\ size > 0
  /\ head' = Slot(head, 1, Cap)
  /\ size' = size - 1
  /\ UNCHANGED buf

PopBack ==
  /\ Usable /\ size > 0
  /\ size' = size - 1
  /\ UNCHANGED <<buf, head>>

Clear == buf' = <<>> /\ head' = 0 /\ size' = 0

(* The implicit move takes the buffer and leaves the two numbers. *)
MoveAway == buf' = <<>> /\ UNCHANGED <<head, size>>

Next == \/ \E v \in Values : PushBack(v) \/ PushFront(v)
        \/ PopFront \/ PopBack \/ Clear \/ MoveAway

Spec == Init /\ [][Next]_vars
-----------------------------------------------------------------------------
(* Types, and the ring's numbers: head names a slot of the buffer whenever   *)
(* there is one and the deque has not been moved from.                       *)
TypeOK == /\ buf \in Seq(Values)
          /\ head \in Nat /\ size \in Nat
          /\ Usable /\ Cap > 0 => head < Cap

(* The elements a caller sees, front to back. *)
Content == [i \in 1..size |-> At(i - 1)]
Visible == IF Usable THEN Content ELSE <<>>

Ends == INSTANCE DequeSpec WITH content <- Visible
CallsMatch == /\ \A v \in Values : /\ PushBack(v) => Ends!PushBack(v)
                                   /\ PushFront(v) => Ends!PushFront(v)
              /\ PopFront => Ends!PopFront
              /\ PopBack => Ends!PopBack

(* The ring is a deque: wrap-around, growth and stale slots never show at    *)
(* either end, the elements keep their order, and each operation does to the *)
(* sequence what its call says.                                              *)
BehavesLikeDeque == Ends!Spec /\ [][CallsMatch]_vars

(* While the buffer stays, an element stays in its slot: pushing and popping *)
(* at the ends leaves every reference to another element good.               *)
Occupied == {Slot(head, i, Cap) : i \in 0..(size - 1)}
ReferencesStable ==
  [][Usable /\ Len(buf') = Cap =>
       \A s \in Occupied \cap Occupied' : buf'[s + 1] = buf[s + 1]]_vars
=============================================================================
