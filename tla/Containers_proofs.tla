------------------------- MODULE Containers_proofs --------------------------
(* Proofs about RingDeque, for every set of values and every capacity, about *)
(* Bitset, for every number of bits and every word width, about UniquePtr,   *)
(* for every set of owners and objects, about SortedArrays, for every set of *)
(* integer keys, about PriorityQueue, for every set of integers, and about   *)
(* InplaceVector, for every set of values and every number of slots.         *)
EXTENDS RingDeque, Bitset, UniquePtr, SortedArrays, FiniteSetTheorems,
        SequenceTheorems, WellFoundedInduction, TLAPS

(* The slot arithmetic of the ring: a position less than the capacity is at  *)
(* most one lap ahead of its slot (deque.hpp, (_head + i) % cap()).          *)
LEMMA SlotWraps ==
  ASSUME NEW c \in Nat \ {0}, NEW h \in 0..(c - 1), NEW i \in 0..(c - 1)
  PROVE  /\ Slot(h, i, c) \in 0..(c - 1)
         /\ h + i < c => Slot(h, i, c) = h + i
         /\ h + i >= c => Slot(h, i, c) = h + i - c
<1>1. (h + i) % c \in 0..(c - 1)
  OBVIOUS
<1>2. ASSUME h + i < c PROVE (h + i) % c = h + i
  BY <1>2
<1>3. ASSUME h + i >= c PROVE (h + i) % c = h + i - c
  BY <1>3
<1> QED
  BY <1>1, <1>2, <1>3 DEF Slot

(* Different positions lie in different slots. *)
LEMMA SlotInjective ==
  ASSUME NEW c \in Nat \ {0}, NEW h \in 0..(c - 1),
         NEW i \in 0..(c - 1), NEW j \in 0..(c - 1), Slot(h, i, c) = Slot(h, j, c)
  PROVE  i = j
<1>1. /\ h + i < c => Slot(h, i, c) = h + i
      /\ h + i >= c => Slot(h, i, c) = h + i - c
  BY SlotWraps
<1>2. /\ h + j < c => Slot(h, j, c) = h + j
      /\ h + j >= c => Slot(h, j, c) = h + j - c
  BY SlotWraps
<1> QED
  BY <1>1, <1>2

(* The state as callers find it: a deque that has not been moved from. *)
InUse == TypeOK /\ Usable

(* The sequence that n slots of buffer b spell out from slot h on. *)
Laid(b, h, n) == [i \in 1..n |-> b[Slot(h, i - 1, Len(b)) + 1]]

(* What a buffer lays out this way is a sequence of that length. *)
LEMMA LaidIsSeq ==
  ASSUME NEW b \in Seq(Values), NEW h \in Nat, NEW n \in Nat,
         n <= Len(b), Len(b) > 0 => h < Len(b)
  PROVE  /\ Laid(b, h, n) \in Seq(Values)
         /\ Len(Laid(b, h, n)) = n
         /\ \A i \in 1..n : /\ Slot(h, i - 1, Len(b)) \in 0..(Len(b) - 1)
                            /\ Laid(b, h, n)[i] = b[Slot(h, i - 1, Len(b)) + 1]
<1>1. ASSUME NEW i \in 1..n
      PROVE  /\ Slot(h, i - 1, Len(b)) \in 0..(Len(b) - 1)
             /\ b[Slot(h, i - 1, Len(b)) + 1] \in Values
  <2>1. Len(b) \in Nat \ {0} /\ h \in 0..(Len(b) - 1) /\ i - 1 \in 0..(Len(b) - 1)
    OBVIOUS
  <2>2. Slot(h, i - 1, Len(b)) \in 0..(Len(b) - 1)
    BY <2>1, SlotWraps
  <2> QED
    BY <2>1, <2>2
<1> QED
  BY <1>1 DEF Laid

(* Every element of a deque in use is a value of its buffer. *)
LEMMA ElementsAreValues ==
  ASSUME InUse
  PROVE  /\ \A i \in 0..(size - 1) : At(i) \in Values
         /\ Visible = Laid(buf, head, size)
<1>1. Laid(buf, head, size) \in Seq(Values) /\ Len(Laid(buf, head, size)) = size
  BY LaidIsSeq DEF InUse, TypeOK, Usable, Cap
<1>2. Visible = Laid(buf, head, size)
  BY DEF InUse, Visible, Content, At, Laid, Cap
<1>3. ASSUME NEW i \in 0..(size - 1) PROVE At(i) \in Values
  <2>1. i + 1 \in 1..size /\ (i + 1) - 1 = i
    BY DEF InUse, TypeOK
  <2>2. Laid(buf, head, size)[i + 1] = At(i)
    BY <2>1 DEF Laid, At, Cap
  <2> QED
    BY <1>1, <2>1, <2>2
<1> QED
  BY <1>2, <1>3

(* ensure_room leaves a free slot and moves no element out of its position. *)
LEMMA RoomKeepsElements ==
  ASSUME InUse
  PROVE  /\ Room.buf \in Seq(Values) /\ Len(Room.buf) \in Nat \ {0}
         /\ size < Len(Room.buf)
         /\ Room.head \in 0..(Len(Room.buf) - 1)
         /\ \A i \in 0..(size - 1) :
              Room.buf[Slot(Room.head, i, Len(Room.buf)) + 1] = At(i)
<1>1. CASE size + 1 > Cap
  <2>1. NewCapacity \in Nat \ {0} /\ size < NewCapacity /\ size \in Nat
    BY <1>1, RingAssumption DEF InUse, TypeOK, Usable, NewCapacity, Cap
  <2>2. \A i \in 1..NewCapacity :
          (IF i <= size THEN At(i - 1) ELSE Default) \in Values
    BY <2>1, ElementsAreValues, RingAssumption
  <2>3. Regrown \in Seq(Values) /\ Len(Regrown) = NewCapacity
    BY <2>1, <2>2 DEF Regrown
  <2>4. Room.buf = Regrown /\ Room.head = 0
    BY <1>1 DEF Room
  <2>5. ASSUME NEW i \in 0..(size - 1)
        PROVE  Room.buf[Slot(Room.head, i, Len(Room.buf)) + 1] = At(i)
    <3>1. Slot(0, i, NewCapacity) = i
      BY <2>1, SlotWraps
    <3>2. Regrown[i + 1] = At(i)
      BY <2>1 DEF Regrown
    <3> QED
      BY <2>3, <2>4, <3>1, <3>2
  <2> QED
    BY <2>1, <2>3, <2>4, <2>5
<1>2. CASE ~(size + 1 > Cap)
  <2>1. Room.buf = buf /\ Room.head = head
    BY <1>2 DEF Room
  <2> QED
    BY <1>2, <2>1 DEF InUse, TypeOK, Usable, Cap, At
<1> QED
  BY <1>1, <1>2

-----------------------------------------------------------------------------
(* Type correctness: buf, head and size keep their types, and head stays     *)
(* inside the buffer through wrap-around, growth, clear and moving away.     *)
THEOREM TypeCorrect == Spec => []TypeOK
<1>1. Init => TypeOK
  BY DEF Init, TypeOK, Usable, Cap
<1>2. TypeOK /\ [Next]_vars => TypeOK'
  <2> SUFFICES ASSUME TypeOK, [Next]_vars PROVE TypeOK'
    OBVIOUS
  <2>1. ASSUME NEW v \in Values, PushBack(v) PROVE TypeOK'
    <3>1. InUse
      BY <2>1 DEF InUse, PushBack
    <3>2. /\ Room.buf \in Seq(Values) /\ Len(Room.buf) \in Nat \ {0}
          /\ size \in 0..(Len(Room.buf) - 1) /\ Room.head \in 0..(Len(Room.buf) - 1)
      BY <3>1, RoomKeepsElements DEF InUse, TypeOK
    <3>3. Slot(Room.head, size, Len(Room.buf)) \in 0..(Len(Room.buf) - 1)
      BY <3>2, SlotWraps
    <3>4. buf' \in Seq(Values) /\ Len(buf') = Len(Room.buf)
      BY <2>1, <3>2, <3>3 DEF PushBack
    <3> QED
      BY <2>1, <3>2, <3>4 DEF PushBack, TypeOK, Usable, Cap
  <2>2. ASSUME NEW v \in Values, PushFront(v) PROVE TypeOK'
    <3>1. InUse
      BY <2>2 DEF InUse, PushFront
    <3>2. /\ Room.buf \in Seq(Values) /\ Len(Room.buf) \in Nat \ {0} /\ size \in Nat
          /\ Len(Room.buf) - 1 \in 0..(Len(Room.buf) - 1)
          /\ Room.head \in 0..(Len(Room.buf) - 1)
      BY <3>1, RoomKeepsElements DEF InUse, TypeOK
    <3>3. Slot(Room.head, Len(Room.buf) - 1, Len(Room.buf)) \in 0..(Len(Room.buf) - 1)
      BY <3>2, SlotWraps
    <3>4. buf' \in Seq(Values) /\ Len(buf') = Len(Room.buf)
      BY <2>2, <3>2, <3>3 DEF PushFront
    <3> QED
      BY <2>2, <3>2, <3>3, <3>4 DEF PushFront, TypeOK, Usable, Cap
  <2>3. ASSUME PopFront PROVE TypeOK'
    <3>1. Cap \in Nat \ {0} /\ head \in 0..(Cap - 1)
      BY <2>3 DEF PopFront, TypeOK, Usable, Cap
    <3>2. Slot(head, 1, Cap) \in 0..(Cap - 1)
      BY <3>1 DEF Slot
    <3> QED
      BY <2>3, <3>1, <3>2 DEF PopFront, TypeOK, Usable, Cap
  <2>4. CASE PopBack
    BY <2>4 DEF PopBack, TypeOK, Usable, Cap
  <2>5. CASE Clear
    BY <2>5 DEF Clear, TypeOK, Usable, Cap
  <2>6. CASE MoveAway
    BY <2>6 DEF MoveAway, TypeOK, Usable, Cap
  <2>7. CASE UNCHANGED vars
    BY <2>7 DEF vars, TypeOK, Usable, Cap
  <2> QED
    BY <2>1, <2>2, <2>3, <2>4, <2>5, <2>6, <2>7 DEF Next
<1> QED
  BY <1>1, <1>2, PTL DEF Spec

-----------------------------------------------------------------------------
(* push_back: the new value lands behind the others, none of which moves.    *)
LEMMA PushBackAppends ==
  ASSUME TypeOK, TypeOK', NEW v \in Values, PushBack(v)
  PROVE  Ends!PushBack(v)
<1> DEFINE b == Room.buf
           h == Room.head
           last == Slot(h, size, Len(b))
<1>1. InUse
  BY DEF InUse, PushBack
<1>2. /\ b \in Seq(Values) /\ Len(b) \in Nat \ {0} /\ size \in Nat
      /\ size \in 0..(Len(b) - 1) /\ h \in 0..(Len(b) - 1) /\ h \in Nat
      /\ \A i \in 0..(size - 1) : b[Slot(h, i, Len(b)) + 1] = At(i)
  BY <1>1, RoomKeepsElements DEF InUse, TypeOK
<1> HIDE DEF b, h
<1>3. last \in 0..(Len(b) - 1)
  BY <1>2, SlotWraps
<1>4. /\ buf' = [b EXCEPT ![last + 1] = v] /\ head' = h /\ size' = size + 1
      /\ buf' \in Seq(Values) /\ Len(buf') = Len(b)
  BY <1>2, <1>3 DEF PushBack, b, h
<1>5. Visible = Laid(buf, head, size) /\ Visible \in Seq(Values) /\ Len(Visible) = size
  BY <1>1, ElementsAreValues, LaidIsSeq DEF InUse, TypeOK, Usable, Cap
<1>6. Visible' = Laid(buf', h, size + 1)
  BY <1>2, <1>4 DEF Visible, Usable, Content, At, Cap, Laid
<1>7. Visible' \in Seq(Values) /\ Len(Visible') = size + 1
  <2>1. /\ size + 1 \in Nat /\ size + 1 <= Len(buf') /\ h < Len(buf')
        /\ h \in Nat /\ buf' \in Seq(Values)
    BY <1>2, <1>4
  <2> HIDE DEF last
  <2> QED
    BY <2>1, <1>6, LaidIsSeq
<1>8. ASSUME NEW i \in 1..(size + 1) PROVE Visible'[i] = Append(Visible, v)[i]
  <2>1. Visible'[i] = buf'[Slot(h, i - 1, Len(b)) + 1]
    BY <1>4, <1>6 DEF Laid
  <2>2. CASE i = size + 1
    BY <2>1, <2>2, <1>2, <1>3, <1>4, <1>5
  <2>3. CASE i # size + 1
    <3>1. i \in 1..size /\ i - 1 \in 0..(size - 1) /\ i - 1 \in 0..(Len(b) - 1)
          /\ size \in 0..(Len(b) - 1) /\ i - 1 # size
      BY <2>3, <1>2
    <3>2. Slot(h, i - 1, Len(b)) \in 0..(Len(b) - 1) /\ Slot(h, i - 1, Len(b)) # last
      BY <3>1, <1>2, SlotWraps, SlotInjective
    <3>3. Visible'[i] = At(i - 1)
      BY <2>1, <3>1, <3>2, <1>2, <1>3, <1>4
    <3>4. Visible[i] = At(i - 1)
      BY <1>5, <3>1 DEF Laid, At, Cap
    <3> QED
      BY <3>1, <3>3, <3>4, <1>5
  <2> QED
    BY <2>2, <2>3
<1>9. Append(Visible, v) \in Seq(Values) /\ Len(Append(Visible, v)) = size + 1
  BY <1>5
<1> QED
  BY <1>7, <1>8, <1>9, SeqEqual DEF Ends!PushBack

(* push_front: the new value takes the slot before head, which is free, and  *)
(* every other element moves one position back without changing its slot.    *)
LEMMA PushFrontPrepends ==
  ASSUME TypeOK, TypeOK', NEW v \in Values, PushFront(v)
  PROVE  Ends!PushFront(v)
<1> DEFINE b == Room.buf
           h == Room.head
           c == Len(b)
           first == Slot(h, c - 1, c)
<1>1. InUse
  BY DEF InUse, PushFront
<1>2. /\ b \in Seq(Values) /\ c \in Nat \ {0} /\ size \in Nat
      /\ size < c /\ h \in 0..(c - 1) /\ c - 1 \in 0..(c - 1)
      /\ \A i \in 0..(size - 1) : b[Slot(h, i, c) + 1] = At(i)
  BY <1>1, RoomKeepsElements DEF InUse, TypeOK
<1> HIDE DEF b, h
<1>3. first \in 0..(c - 1) /\ first \in Nat
  <2> HIDE DEF c
  <2>1. Slot(h, c - 1, c) \in 0..(c - 1)
    BY <1>2, SlotWraps
  <2> QED
    BY <2>1, <1>2
<1>4. /\ buf' = [b EXCEPT ![first + 1] = v] /\ head' = first /\ size' = size + 1
      /\ buf' \in Seq(Values) /\ Len(buf') = c
  BY <1>2, <1>3 DEF PushFront, b, h
<1>5. Visible = Laid(buf, head, size) /\ Visible \in Seq(Values) /\ Len(Visible) = size
  BY <1>1, ElementsAreValues, LaidIsSeq DEF InUse, TypeOK, Usable, Cap
<1>6. Visible' = Laid(buf', first, size + 1)
  BY <1>2, <1>4 DEF Visible, Usable, Content, At, Cap, Laid
<1>7. Visible' \in Seq(Values) /\ Len(Visible') = size + 1
  <2> HIDE DEF first, c
  <2>1. /\ size + 1 \in Nat /\ size + 1 <= Len(buf') /\ first < Len(buf')
        /\ first \in Nat /\ buf' \in Seq(Values)
    BY <1>2, <1>3, <1>4
  <2> QED
    BY <2>1, <1>6, LaidIsSeq
<1>8. ASSUME NEW i \in 1..(size + 1) PROVE Visible'[i] = (<<v>> \o Visible)[i]
  <2>1. Visible'[i] = buf'[Slot(first, i - 1, c) + 1]
    BY <1>4, <1>6 DEF Laid
  <2>2. CASE i = 1
    <3>1. Slot(first, i - 1, c) = first
      BY <2>2, <1>2, <1>3, SlotWraps
    <3> QED
      BY <2>1, <2>2, <3>1, <1>2, <1>3, <1>4, <1>5
  <2>3. CASE i # 1
    <3>1. i - 1 \in 1..size /\ i - 2 \in 0..(size - 1) /\ i - 2 \in 0..(c - 1)
          /\ i - 1 \in 0..(c - 1) /\ c - 1 \in 0..(c - 1) /\ i - 2 # c - 1
      BY <2>3, <1>2
    <3>2. Slot(first, i - 1, c) = Slot(h, i - 2, c)
      <4>1. /\ h + (c - 1) < c => first = h + (c - 1)
            /\ h + (c - 1) >= c => first = h + (c - 1) - c
        BY <3>1, <1>2, SlotWraps
      <4>2. /\ first + (i - 1) < c => Slot(first, i - 1, c) = first + (i - 1)
            /\ first + (i - 1) >= c => Slot(first, i - 1, c) = first + (i - 1) - c
        BY <3>1, <1>2, <1>3, SlotWraps
      <4>3. /\ h + (i - 2) < c => Slot(h, i - 2, c) = h + (i - 2)
            /\ h + (i - 2) >= c => Slot(h, i - 2, c) = h + (i - 2) - c
        BY <3>1, <1>2, SlotWraps
      <4> HIDE DEF first, c
      <4> QED
        BY <4>1, <4>2, <4>3, <3>1, <1>2, <1>3
    <3>3. Slot(h, i - 2, c) \in 0..(c - 1) /\ Slot(h, i - 2, c) # first
      BY <3>1, <1>2, SlotWraps, SlotInjective
    <3>4. Visible'[i] = At(i - 2)
      BY <2>1, <3>1, <3>2, <3>3, <1>2, <1>3, <1>4
    <3>5. Visible[i - 1] = At(i - 2)
      BY <1>5, <3>1 DEF Laid, At, Cap
    <3> QED
      BY <3>1, <3>4, <3>5, <1>5
  <2> QED
    BY <2>2, <2>3
<1>9. <<v>> \o Visible \in Seq(Values) /\ Len(<<v>> \o Visible) = size + 1
  BY <1>5
<1> QED
  BY <1>7, <1>8, <1>9, SeqEqual DEF Ends!PushFront

(* pop_front: the second element becomes the first, none moves. *)
LEMMA PopFrontDropsHead ==
  ASSUME TypeOK, TypeOK', PopFront
  PROVE  Ends!PopFront
<1> DEFINE c == Cap
           next == Slot(head, 1, c)
<1>1. InUse
  BY DEF InUse, PopFront
<1>2. /\ buf \in Seq(Values) /\ c \in Nat \ {0} /\ size \in 1..c
      /\ head \in 0..(c - 1) /\ c = Len(buf)
  BY DEF PopFront, TypeOK, Usable, Cap
<1>3. buf' = buf /\ head' = next /\ size' = size - 1
  BY DEF PopFront
<1>4. next \in 0..(c - 1) /\ next = IF head + 1 < c THEN head + 1 ELSE head + 1 - c
  BY <1>2 DEF Slot
<1>5. Visible = Laid(buf, head, size) /\ Visible \in Seq(Values) /\ Len(Visible) = size
  BY <1>1, ElementsAreValues, LaidIsSeq DEF InUse, TypeOK, Usable, Cap
<1>6. Visible' = Laid(buf, next, size - 1)
  BY <1>2, <1>3 DEF Visible, Usable, Content, At, Cap, Laid
<1> HIDE DEF c, next
<1>7. Visible' \in Seq(Values) /\ Len(Visible') = size - 1
  <2>1. size - 1 \in Nat /\ size - 1 <= Len(buf) /\ next < Len(buf) /\ next \in Nat
    BY <1>2, <1>4
  <2> QED
    BY <2>1, <1>2, <1>6, LaidIsSeq
<1>8. /\ Visible # <<>> /\ Tail(Visible) \in Seq(Values) /\ Len(Tail(Visible)) = size - 1
      /\ \A i \in 1..(size - 1) : Tail(Visible)[i] = Visible[i + 1]
  BY <1>2, <1>5, HeadTailProperties, EmptySeq
<1>9. ASSUME NEW i \in 1..(size - 1) PROVE Visible'[i] = Tail(Visible)[i]
  <2>1. i - 1 \in 0..(c - 1) /\ i \in 0..(c - 1) /\ i + 1 \in 1..size /\ (i + 1) - 1 = i
    BY <1>2
  <2>2. /\ next + (i - 1) < c => Slot(next, i - 1, c) = next + (i - 1)
        /\ next + (i - 1) >= c => Slot(next, i - 1, c) = next + (i - 1) - c
    <3>1. next \in 0..(c - 1) /\ c \in Nat \ {0}
      BY <1>2, <1>4
    <3> QED
      BY <3>1, <2>1, SlotWraps
  <2>3. /\ head + i < c => Slot(head, i, c) = head + i
        /\ head + i >= c => Slot(head, i, c) = head + i - c
    BY <2>1, <1>2, SlotWraps
  <2>4. Slot(next, i - 1, c) = Slot(head, i, c)
    <3>1. /\ c \in Nat \ {0} /\ head \in 0..(c - 1) /\ i \in 0..(c - 1)
          /\ next \in 0..(c - 1)
      BY <1>2, <1>4, <2>1
    <3>2. CASE head + 1 < c
      <4>1. next + (i - 1) = head + i
        BY <1>4, <3>1, <3>2
      <4> QED
        BY <2>2, <2>3, <3>1, <4>1
    <3>3. CASE ~ head + 1 < c
      <4>1. next + (i - 1) = head + i - c
        BY <1>4, <3>1, <3>3
      <4> QED
        BY <2>2, <2>3, <3>1, <4>1
    <3> QED
      BY <3>2, <3>3
  <2>5. Visible'[i] = buf[Slot(head, i, c) + 1]
    BY <1>2, <1>6, <2>4 DEF Laid
  <2>6. Visible[i + 1] = buf[Slot(head, i, c) + 1]
    BY <1>2, <1>5, <2>1 DEF Laid
  <2> QED
    BY <1>8, <2>5, <2>6
<1> QED
  BY <1>7, <1>8, <1>9, SeqEqual DEF Ends!PopFront

(* pop_back: the last element goes, the others stay where they are. *)
LEMMA PopBackDropsLast ==
  ASSUME TypeOK, TypeOK', PopBack
  PROVE  Ends!PopBack
<1>1. InUse
  BY DEF InUse, PopBack
<1>2. /\ buf \in Seq(Values) /\ head \in Nat /\ size \in 1..Len(buf)
      /\ size - 1 \in Nat /\ size - 1 <= Len(buf) /\ (Len(buf) > 0 => head < Len(buf))
  BY DEF PopBack, TypeOK, Usable, Cap
<1>3. Visible = Laid(buf, head, size) /\ Visible \in Seq(Values) /\ Len(Visible) = size
  BY <1>1, ElementsAreValues, LaidIsSeq DEF InUse, TypeOK, Usable, Cap
<1>4. Visible' = Laid(buf, head, size - 1)
  BY <1>2 DEF PopBack, Visible, Usable, Content, At, Cap, Laid
<1>5. Visible' \in Seq(Values) /\ Len(Visible') = size - 1
  BY <1>2, <1>4, LaidIsSeq
<1>6. /\ Visible # <<>>
      /\ SubSeq(Visible, 1, size - 1) \in Seq(Values)
      /\ Len(SubSeq(Visible, 1, size - 1)) = size - 1
      /\ \A i \in 1..(size - 1) : SubSeq(Visible, 1, size - 1)[i] = Visible[i]
  BY <1>2, <1>3, EmptySeq
<1>7. ASSUME NEW i \in 1..(size - 1) PROVE Visible'[i] = Visible[i]
  BY <1>2, <1>3, <1>4 DEF Laid
<1> QED
  BY <1>3, <1>5, <1>6, <1>7, SeqEqual DEF Ends!PopBack

-----------------------------------------------------------------------------
(* The ring implements the deque: whatever the pushes, pops, growths, clears *)
(* and moves, the elements between head and head + size are the sequence     *)
(* that the same calls, each by name, leave in an abstract deque.            *)
THEOREM ImplementsDeque == Spec => BehavesLikeDeque
<1>1. Init => Ends!Init
  BY DEF Init, Ends!Init, Visible, Usable, Content, Cap
<1>2. ASSUME TypeOK, TypeOK', [Next]_vars PROVE [Ends!Next]_Visible
  <2>1. ASSUME NEW v \in Values, PushBack(v) PROVE [Ends!Next]_Visible
    BY <1>2, <2>1, PushBackAppends DEF Ends!Next
  <2>2. ASSUME NEW v \in Values, PushFront(v) PROVE [Ends!Next]_Visible
    BY <1>2, <2>2, PushFrontPrepends DEF Ends!Next
  <2>3. CASE PopFront
    BY <1>2, <2>3, PopFrontDropsHead DEF Ends!Next
  <2>4. CASE PopBack
    BY <1>2, <2>4, PopBackDropsLast DEF Ends!Next
  <2>5. CASE Clear
    BY <2>5 DEF Clear, Ends!Next, Ends!Clear, Visible, Usable, Content, Cap
  <2>6. CASE MoveAway
    <3>1. Visible' = <<>>
      BY <1>2, <2>6 DEF MoveAway, TypeOK, Visible, Usable, Content, Cap
    <3> QED
      BY <3>1 DEF Ends!Next, Ends!Clear
  <2>7. CASE UNCHANGED vars
    BY <2>7 DEF vars, Visible, Usable, Content, At, Cap
  <2> QED
    BY <1>2, <2>1, <2>2, <2>3, <2>4, <2>5, <2>6, <2>7 DEF Next
<1>3. ASSUME TypeOK, TypeOK' PROVE CallsMatch
  BY <1>3, PushBackAppends, PushFrontPrepends, PopFrontDropsHead, PopBackDropsLast
     DEF CallsMatch
<1> QED
  BY <1>1, <1>2, <1>3, TypeCorrect, PTL DEF Spec, BehavesLikeDeque, Ends!Spec

-----------------------------------------------------------------------------
(* ensure_room that grows the buffer changes its length.                     *)
LEMMA GrowthShows ==
  ASSUME TypeOK, Len(Room.buf) = Cap
  PROVE  ~ size + 1 > Cap
<1>1. NewCapacity \in Nat /\ NewCapacity # Cap
  BY RingAssumption DEF NewCapacity, TypeOK, Cap
<1>2. ASSUME size + 1 > Cap PROVE Len(Room.buf) = NewCapacity
  BY <1>1, <1>2 DEF Room, Regrown
<1> QED
  BY <1>1, <1>2

(* A push that does not grow the buffer writes a slot no element is in.      *)
LEMMA PushBackAside ==
  ASSUME TypeOK, NEW v \in Values, PushBack(v), Len(buf') = Cap
  PROVE  \E f \in Nat : f \notin Occupied /\ buf' = [buf EXCEPT ![f + 1] = v]
<1>1. InUse
  BY DEF InUse, PushBack
<1>2. Room.buf \in Seq(Values) /\ Len(Room.buf) \in Nat /\ Len(buf') = Len(Room.buf)
  BY <1>1, RoomKeepsElements DEF PushBack
<1>3. ~ size + 1 > Cap
  BY <1>2, GrowthShows
<1>4. Room.buf = buf /\ Room.head = head
  BY <1>3 DEF Room
<1>5. PICK c : c = Cap
  OBVIOUS
<1>6. /\ c \in Nat \ {0} /\ head \in 0..(c - 1) /\ size \in 0..(c - 1)
      /\ c = Len(buf)
  BY <1>1, <1>3, <1>5 DEF InUse, TypeOK, Usable, Cap
<1>7. PICK f : f = Slot(head, size, c)
  OBVIOUS
<1>8. f \in Nat
  BY <1>6, <1>7, SlotWraps
<1>9. buf' = [buf EXCEPT ![f + 1] = v]
  BY <1>4, <1>6, <1>7 DEF PushBack
<1>10. f \notin Occupied
  <2>1. SUFFICES ASSUME NEW i \in 0..(size - 1), f = Slot(head, i, c) PROVE FALSE
    BY <1>5 DEF Occupied
  <2>2. i \in 0..(c - 1) /\ i # size
    BY <1>6
  <2> QED
    BY <2>1, <2>2, <1>6, <1>7, SlotInjective
<1> QED
  BY <1>8, <1>9, <1>10

LEMMA PushFrontAside ==
  ASSUME TypeOK, NEW v \in Values, PushFront(v), Len(buf') = Cap
  PROVE  \E f \in Nat : f \notin Occupied /\ buf' = [buf EXCEPT ![f + 1] = v]
<1>1. InUse
  BY DEF InUse, PushFront
<1>2. Room.buf \in Seq(Values) /\ Len(Room.buf) \in Nat /\ Len(buf') = Len(Room.buf)
  BY <1>1, RoomKeepsElements DEF PushFront
<1>3. ~ size + 1 > Cap
  BY <1>2, GrowthShows
<1>4. Room.buf = buf /\ Room.head = head
  BY <1>3 DEF Room
<1>5. PICK c : c = Cap
  OBVIOUS
<1>6. /\ c \in Nat \ {0} /\ head \in 0..(c - 1) /\ size \in 0..(c - 1)
      /\ c = Len(buf) /\ c - 1 \in 0..(c - 1)
  BY <1>1, <1>3, <1>5 DEF InUse, TypeOK, Usable, Cap
<1>7. PICK f : f = Slot(head, c - 1, c)
  OBVIOUS
<1>8. f \in Nat
  BY <1>6, <1>7, SlotWraps
<1>9. buf' = [buf EXCEPT ![f + 1] = v]
  BY <1>4, <1>6, <1>7 DEF PushFront
<1>10. f \notin Occupied
  <2>1. SUFFICES ASSUME NEW i \in 0..(size - 1), f = Slot(head, i, c) PROVE FALSE
    BY <1>5 DEF Occupied
  <2>2. i \in 0..(c - 1) /\ i # c - 1
    BY <1>6
  <2> QED
    BY <2>1, <2>2, <1>6, <1>7, SlotInjective
<1> QED
  BY <1>8, <1>9, <1>10

(* References stay good: pushing and popping at the ends writes no slot that *)
(* an element occupies, unless the buffer grows (deque.hpp, ensure_room).    *)
THEOREM ReferencesStay == Spec => ReferencesStable
<1> DEFINE Stay == Usable /\ Len(buf') = Cap =>
                     \A s \in Occupied \cap Occupied' : buf'[s + 1] = buf[s + 1]
<1>1. ASSUME TypeOK, [Next]_vars PROVE Stay
  <2>1. SUFFICES ASSUME Usable, Len(buf') = Cap, NEW s \in Occupied
                 PROVE  buf'[s + 1] = buf[s + 1]
    OBVIOUS
  <2>2. /\ buf \in Seq(Values) /\ size \in Nat /\ head \in Nat /\ Cap \in Nat
        /\ size <= Cap /\ (Cap > 0 => head \in 0..(Cap - 1))
    BY <1>1, <2>1 DEF TypeOK, Usable, Cap
  <2>3. s \in Nat
    <3>1. PICK i \in 0..(size - 1) : s = Slot(head, i, Cap)
      BY DEF Occupied
    <3>2. Cap \in Nat \ {0} /\ head \in 0..(Cap - 1) /\ i \in 0..(Cap - 1)
      BY <2>2
    <3> QED
      BY <3>1, <3>2, SlotWraps
  <2>4. ASSUME NEW v \in Values, PushBack(v) \/ PushFront(v)
        PROVE  buf'[s + 1] = buf[s + 1]
    <3>1. PICK f \in Nat : f \notin Occupied /\ buf' = [buf EXCEPT ![f + 1] = v]
      BY <1>1, <2>1, <2>4, PushBackAside, PushFrontAside
    <3>2. f + 1 # s + 1
      BY <2>3, <3>1
    <3> QED
      BY <3>1, <3>2, <2>2
  <2>5. CASE PopFront \/ PopBack \/ UNCHANGED vars
    BY <2>5 DEF PopFront, PopBack, vars
  <2>6. CASE Clear \/ MoveAway
    <3>1. buf' = << >>
      BY <2>6 DEF Clear, MoveAway
    <3>2. Cap = 0
      BY <3>1, <2>1
    <3>3. 0..(size - 1) = {}
      BY <2>2, <3>2
    <3> QED
      BY <3>3 DEF Occupied
  <2> QED
    BY <1>1, <2>4, <2>5, <2>6 DEF Next
<1> QED
  BY <1>1, TypeCorrect, PTL DEF Spec, ReferencesStable

-----------------------------------------------------------------------------
(* Division with remainder, by which bit i lies in word i \div b at i % b.   *)
LEMMA Division ==
  ASSUME NEW b \in Nat \ {0}, NEW i \in Nat
  PROVE  /\ i \div b \in Nat /\ i % b \in 0..(b - 1)
         /\ i = b * (i \div b) + (i % b)
OBVIOUS

LEMMA QuotientUnique ==
  ASSUME NEW b \in Nat \ {0}, NEW q \in Nat, NEW r \in 0..(b - 1)
  PROVE  (b * q + r) \div b = q /\ (b * q + r) % b = r
OBVIOUS

(* word_count rounds up: with k full words, a tail of t > 0 bits takes one   *)
(* word more.                                                                *)
LEMMA RoundsUp ==
  ASSUME BitsetAssumption
  PROVE  \E k \in Nat, t \in 0..(BitsPerWord - 1) :
           /\ N = BitsPerWord * k + t /\ t = N % BitsPerWord
           /\ t = 0 => WordCount = k /\ k > 0
           /\ t > 0 => WordCount = k + 1
<1> DEFINE B == BitsPerWord
           k == N \div B
           t == N % B
<1>1. B \in Nat \ {0} /\ N \in Nat \ {0}
  BY DEF BitsetAssumption
<1>2. k \in Nat /\ t \in 0..(B - 1) /\ N = B * k + t
  BY <1>1, Division
<1>3. ASSUME t = 0 PROVE WordCount = k /\ k > 0
  <2>1. N + B - 1 = B * k + (B - 1)
    BY <1>1, <1>2, <1>3
  <2>2. (B * k + (B - 1)) \div B = k
    <3>1. B - 1 \in 0..(B - 1)
      BY <1>1
    <3> HIDE DEF k, B
    <3> QED
      BY <1>1, <1>2, <3>1, QuotientUnique
  <2>3. k > 0
    BY <1>1, <1>2, <1>3
  <2> QED
    BY <2>1, <2>2, <2>3 DEF WordCount
<1>4. ASSUME t > 0 PROVE WordCount = k + 1
  <2>1. t - 1 \in 0..(B - 1) /\ k + 1 \in Nat
    BY <1>1, <1>2, <1>4
  <2>2. N + B - 1 = B * (k + 1) + (t - 1)
    BY <1>1, <1>2
  <2>3. (B * (k + 1) + (t - 1)) \div B = k + 1
    BY <1>1, <2>1, QuotientUnique
  <2> QED
    BY <2>2, <2>3 DEF WordCount
<1> QED
  BY <1>1, <1>2, <1>3, <1>4

(* Each of the N bits has its place in the words, in the last one within the *)
(* tail (bitset.hpp, tail_mask).                                             *)
LEMMA Placed ==
  ASSUME BitsetAssumption, NEW i \in 0..(N - 1)
  PROVE  /\ Word(i) \in Words /\ Bit(i) \in Positions
         /\ Word(i) = WordCount - 1 => Bit(i) \in TailMask
         /\ i = BitsPerWord * Word(i) + Bit(i)
<1> DEFINE B == BitsPerWord
           q == Word(i)
           r == Bit(i)
<1>1. B \in Nat \ {0} /\ N \in Nat \ {0} /\ i \in Nat
  BY DEF BitsetAssumption
<1>2. q \in Nat /\ r \in 0..(B - 1) /\ i = B * q + r
  BY <1>1, Division DEF Word, Bit
<1>3. PICK k \in Nat, t \in 0..(B - 1) :
        /\ N = B * k + t /\ t = N % B
        /\ t = 0 => WordCount = k /\ k > 0
        /\ t > 0 => WordCount = k + 1
  BY RoundsUp
<1> HIDE DEF q, r, B
<1>4. B * q + r < B * k + t
  BY <1>1, <1>2, <1>3
<1>5. q <= k
  <2>1. ASSUME q >= k + 1 PROVE B * q >= B * k + B
    BY <1>1, <1>2, <1>3, <2>1
  <2> QED
    BY <1>1, <1>2, <1>3, <1>4, <2>1
<1>6. q = k => r < t
  BY <1>1, <1>2, <1>3, <1>4
<1>7. q < WordCount /\ WordCount \in Nat
  BY <1>2, <1>3, <1>5, <1>6
<1>8. q = WordCount - 1 => r \in TailMask
  <2>1. CASE t = 0
    BY <1>2, <1>3, <2>1 DEF TailMask, AllOnes, Positions, B
  <2>2. CASE t > 0
    <3>1. q = WordCount - 1 => r \in 0..(t - 1)
      BY <1>2, <1>3, <1>6, <2>2
    <3>2. TailMask = 0..(t - 1)
      BY <1>3, <2>2 DEF TailMask, B
    <3> QED
      BY <3>1, <3>2
  <2> QED
    BY <1>3, <2>1, <2>2
<1> QED
  BY <1>2, <1>7, <1>8 DEF Words, Positions, q, r, B

(* ... and each place in the words, the tail of the last one excepted, has   *)
(* its bit.                                                                  *)
LEMMA Covered ==
  ASSUME BitsetAssumption, NEW w \in Words, NEW p \in Positions,
         w = WordCount - 1 => p \in TailMask
  PROVE  \E i \in 0..(N - 1) : Word(i) = w /\ Bit(i) = p
<1> DEFINE B == BitsPerWord
           i == B * w + p
<1>1. B \in Nat \ {0} /\ N \in Nat \ {0}
  BY DEF BitsetAssumption
<1>2. PICK k \in Nat, t \in 0..(B - 1) :
        /\ N = B * k + t /\ t = N % B
        /\ t = 0 => WordCount = k /\ k > 0
        /\ t > 0 => WordCount = k + 1
  BY RoundsUp
<1>3. w \in Nat /\ p \in 0..(B - 1) /\ w < WordCount /\ WordCount \in Nat
  BY <1>2 DEF Words, Positions
<1>4. Word(i) = w /\ Bit(i) = p
  BY <1>1, <1>3, QuotientUnique DEF Word, Bit
<1>5. w = WordCount - 1 /\ t > 0 => p < t
  BY <1>2 DEF TailMask
<1> HIDE DEF B
<1>6. w < k => B * w + B <= B * k
  BY <1>1, <1>2, <1>3
<1>7. i \in 0..(N - 1)
  <2>1. CASE w < k
    BY <1>1, <1>2, <1>3, <1>6, <2>1
  <2>2. CASE w >= k
    <3>1. t > 0 /\ w = k
      BY <1>2, <1>3, <2>2
    <3>2. p < t
      BY <1>2, <1>5, <3>1
    <3> QED
      BY <1>1, <1>2, <1>3, <3>1, <3>2
  <2> QED
    BY <1>2, <1>3, <2>1, <2>2
<1> QED
  BY <1>4, <1>7
-----------------------------------------------------------------------------
WordsFit(ws) == /\ ws \in [Words -> SUBSET Positions]
            /\ ws[WordCount - 1] \subseteq TailMask

(* The inductive invariant: every word is one, and the tail is clear.        *)
BitsetIInv == BitsetTypeOK /\ TailClear

LEMMA LastWord == BitsetAssumption => WordCount - 1 \in Words /\ TailMask \subseteq Positions
<1> SUFFICES ASSUME BitsetAssumption PROVE WordCount - 1 \in Words /\ TailMask \subseteq Positions
  OBVIOUS
<1>1. PICK k \in Nat, t \in 0..(BitsPerWord - 1) :
        /\ N = BitsPerWord * k + t /\ t = N % BitsPerWord
        /\ t = 0 => WordCount = k /\ k > 0
        /\ t > 0 => WordCount = k + 1
  BY RoundsUp
<1>2. WordCount \in Nat \ {0}
  BY <1>1
<1>3. TailMask \subseteq Positions
  BY <1>1 DEF TailMask, AllOnes, Positions, BitsetAssumption
<1> QED
  BY <1>2, <1>3 DEF Words

(* clear_tail leaves the places before the tail's end alone. *)
LEMMA TrimmedFits ==
  ASSUME BitsetAssumption, NEW ws \in [Words -> SUBSET Positions]
  PROVE  /\ WordsFit(Trimmed(ws))
         /\ \A i \in 0..(N - 1) : Bit(i) \in Trimmed(ws)[Word(i)] <=> Bit(i) \in ws[Word(i)]
<1>1. WordCount - 1 \in Words
  BY LastWord
<1>2. WordsFit(Trimmed(ws))
  BY <1>1 DEF WordsFit, Trimmed
<1>3. ASSUME NEW i \in 0..(N - 1)
      PROVE  Bit(i) \in Trimmed(ws)[Word(i)] <=> Bit(i) \in ws[Word(i)]
  <2>1. Word(i) \in Words /\ (Word(i) = WordCount - 1 => Bit(i) \in TailMask)
    BY Placed
  <2> QED
    BY <2>1 DEF Trimmed
<1> QED
  BY <1>2, <1>3

(* What a call that replaces the words of one bitset by words that fit does: *)
(* the invariant stays and the bitset becomes the bits in those words.       *)
Holds(ws, b) == \A i \in 0..(N - 1) : Bit(i) \in ws[Word(i)] <=> i \in b

LEMMA Replaced ==
  ASSUME BitsetAssumption, BitsetIInv, NEW s \in Sets, NEW ws, WordsFit(ws),
         NEW b \in SUBSET (0..(N - 1)), Holds(ws, b),
         words' = [words EXCEPT ![s] = ws]
  PROVE  BitsetIInv' /\ Becomes(s, b)
<1>1. BitsetIInv'
  BY DEF BitsetIInv, BitsetTypeOK, TailClear, WordsFit
<1>2. Bits(s)' = b
  BY DEF Bits, Test, Holds, BitsetIInv, BitsetTypeOK
<1>3. ASSUME NEW o \in Sets \ {s} PROVE Bits(o)' = Bits(o)
  BY DEF Bits, Test, BitsetIInv, BitsetTypeOK
<1> QED
  BY <1>1, <1>2, <1>3 DEF Becomes
-----------------------------------------------------------------------------
(* Whole-word operations. *)
LEMMA SetAllSets ==
  ASSUME BitsetAssumption, BitsetIInv, NEW s \in Sets, SetAll(s)
  PROVE  BitsetIInv' /\ Becomes(s, 0..(N - 1))
<1> DEFINE ws == [w \in Words |-> AllOnes]
<1>1. ws \in [Words -> SUBSET Positions]
  BY DEF AllOnes
<1>2. \A i \in 0..(N - 1) : Bit(i) \in ws[Word(i)]
  BY Placed DEF AllOnes
<1>3. words' = [words EXCEPT ![s] = Trimmed(ws)]
  BY DEF SetAll
<1> HIDE DEF ws
<1>4. WordsFit(Trimmed(ws)) /\ Holds(Trimmed(ws), 0..(N - 1))
  BY <1>1, <1>2, TrimmedFits DEF Holds
<1> QED
  BY <1>3, <1>4, Replaced

LEMMA ResetAllClears ==
  ASSUME BitsetAssumption, BitsetIInv, NEW s \in Sets, ResetAll(s)
  PROVE  BitsetIInv' /\ Becomes(s, {})
<1>1. WordsFit(Zero)
  BY LastWord DEF WordsFit, Zero
<1>2. Holds(Zero, {})
  BY Placed DEF Holds, Zero
<1> QED
  BY <1>1, <1>2, Replaced DEF ResetAll

LEMMA FlipAllComplements ==
  ASSUME BitsetAssumption, BitsetIInv, NEW s \in Sets, FlipAll(s)
  PROVE  BitsetIInv' /\ Becomes(s, (0..(N - 1)) \ Bits(s))
<1> DEFINE ws == [w \in Words |-> AllOnes \ words[s][w]]
           b == (0..(N - 1)) \ Bits(s)
<1>1. ws \in [Words -> SUBSET Positions]
  BY DEF AllOnes
<1>2. \A i \in 0..(N - 1) : Bit(i) \in ws[Word(i)] <=> i \in b
  BY Placed DEF AllOnes, Bits, Test
<1>3. words' = [words EXCEPT ![s] = Trimmed(ws)]
  BY DEF FlipAll, BitsetIInv, BitsetTypeOK
<1>4. b \in SUBSET (0..(N - 1))
  OBVIOUS
<1> HIDE DEF ws, b
<1>5. WordsFit(Trimmed(ws)) /\ Holds(Trimmed(ws), b)
  BY <1>1, <1>2, TrimmedFits DEF Holds
<1>6. BitsetIInv' /\ Becomes(s, b)
  BY <1>3, <1>4, <1>5, Replaced
<1> QED
  BY <1>6 DEF b

LEMMA FromWordTakes ==
  ASSUME BitsetAssumption, BitsetIInv, NEW s \in Sets, NEW v \in SUBSET Positions, FromWord(s, v)
  PROVE  BitsetIInv' /\ Becomes(s, v \cap (0..(N - 1)))
<1> DEFINE ws == [Zero EXCEPT ![0] = v]
           b == v \cap (0..(N - 1))
<1>1. ws \in [Words -> SUBSET Positions]
  BY DEF Zero
<1>2. ASSUME NEW i \in 0..(N - 1) PROVE Bit(i) \in ws[Word(i)] <=> i \in b
  <2>1. /\ Word(i) \in Words /\ Bit(i) \in Positions
        /\ i = BitsPerWord * Word(i) + Bit(i)
    BY Placed
  <2>2. CASE Word(i) = 0
    <3>1. i = Bit(i)
      BY <2>1, <2>2 DEF Positions, BitsetAssumption
    <3>2. ws[Word(i)] = v
      BY <2>1, <2>2 DEF Zero
    <3> QED
      BY <3>1, <3>2
  <2>3. CASE Word(i) # 0
    <3>1. ws[Word(i)] = {}
      BY <2>1, <2>3 DEF Zero
    <3>2. Word(i) \in Nat \ {0} /\ BitsPerWord \in Nat \ {0} /\ Bit(i) \in 0..(BitsPerWord - 1)
      BY <2>1, <2>3 DEF Words, Positions, BitsetAssumption
    <3>3. i >= BitsPerWord
      <4>1. \A x, y \in Nat \ {0} : x * y >= x
        OBVIOUS
      <4>2. BitsPerWord * Word(i) >= BitsPerWord
        BY <3>2, <4>1
      <4> QED
        BY <2>1, <3>2, <4>2
    <3>4. i \notin v
      BY <3>2, <3>3 DEF Positions
    <3> QED
      BY <3>1, <3>4
  <2> QED
    BY <2>2, <2>3
<1>3. words' = [words EXCEPT ![s] = Trimmed(ws)]
  BY DEF FromWord
<1>4. b \in SUBSET (0..(N - 1))
  OBVIOUS
<1> HIDE DEF ws, b
<1>5. WordsFit(Trimmed(ws)) /\ Holds(Trimmed(ws), b)
  BY <1>1, <1>2, TrimmedFits DEF Holds
<1>6. BitsetIInv' /\ Becomes(s, b)
  BY <1>3, <1>4, <1>5, Replaced
<1> QED
  BY <1>6 DEF b
-----------------------------------------------------------------------------
(* Operations on two bitsets. *)
LEMMA CopyCopies ==
  ASSUME BitsetAssumption, BitsetIInv, NEW s \in Sets, NEW o \in Sets, Copy(s, o)
  PROVE  BitsetIInv' /\ Becomes(s, Bits(o))
<1>1. WordsFit(words[o]) /\ Holds(words[o], Bits(o)) /\ Bits(o) \in SUBSET (0..(N - 1))
  BY DEF BitsetIInv, BitsetTypeOK, TailClear, WordsFit, Holds, Bits, Test
<1> QED
  BY <1>1, Replaced DEF Copy

LEMMA AndIntersects ==
  ASSUME BitsetAssumption, BitsetIInv, NEW s \in Sets, NEW o \in Sets, And(s, o)
  PROVE  BitsetIInv' /\ Becomes(s, Bits(s) \cap Bits(o))
<1> DEFINE ws == [w \in Words |-> words[s][w] \cap words[o][w]]
           b == Bits(s) \cap Bits(o)
<1>1. WordsFit(ws)
  BY LastWord DEF WordsFit, BitsetIInv, BitsetTypeOK, TailClear
<1>2. Holds(ws, b) /\ b \in SUBSET (0..(N - 1))
  BY Placed DEF Holds, Bits, Test
<1>3. words' = [words EXCEPT ![s] = ws]
  BY DEF And, BitsetIInv, BitsetTypeOK
<1> HIDE DEF ws, b
<1>4. BitsetIInv' /\ Becomes(s, b)
  BY <1>1, <1>2, <1>3, Replaced
<1> QED
  BY <1>4 DEF b

LEMMA OrUnites ==
  ASSUME BitsetAssumption, BitsetIInv, NEW s \in Sets, NEW o \in Sets, Or(s, o)
  PROVE  BitsetIInv' /\ Becomes(s, Bits(s) \cup Bits(o))
<1> DEFINE ws == [w \in Words |-> words[s][w] \cup words[o][w]]
           b == Bits(s) \cup Bits(o)
<1>1. WordsFit(ws)
  BY LastWord DEF WordsFit, BitsetIInv, BitsetTypeOK, TailClear
<1>2. Holds(ws, b) /\ b \in SUBSET (0..(N - 1))
  BY Placed DEF Holds, Bits, Test
<1>3. words' = [words EXCEPT ![s] = ws]
  BY DEF Or, BitsetIInv, BitsetTypeOK
<1> HIDE DEF ws, b
<1>4. BitsetIInv' /\ Becomes(s, b)
  BY <1>1, <1>2, <1>3, Replaced
<1> QED
  BY <1>4 DEF b

LEMMA XorDiffers ==
  ASSUME BitsetAssumption, BitsetIInv, NEW s \in Sets, NEW o \in Sets, Xor(s, o)
  PROVE  BitsetIInv' /\ Becomes(s, SymDiff(Bits(s), Bits(o)))
<1> DEFINE ws == [w \in Words |-> SymDiff(words[s][w], words[o][w])]
           b == SymDiff(Bits(s), Bits(o))
<1>1. ws \in [Words -> SUBSET Positions]
  BY DEF BitsetIInv, BitsetTypeOK, SymDiff
<1>2. /\ \A i \in 0..(N - 1) : Bit(i) \in ws[Word(i)] <=> i \in b
      /\ b \in SUBSET (0..(N - 1))
  BY Placed DEF Bits, Test, SymDiff
<1>3. words' = [words EXCEPT ![s] = Trimmed(ws)]
  BY DEF Xor, BitsetIInv, BitsetTypeOK
<1> HIDE DEF ws, b
<1>4. WordsFit(Trimmed(ws)) /\ Holds(Trimmed(ws), b)
  BY <1>1, <1>2, TrimmedFits DEF Holds
<1>5. BitsetIInv' /\ Becomes(s, b)
  BY <1>2, <1>3, <1>4, Replaced
<1> QED
  BY <1>5 DEF b
-----------------------------------------------------------------------------
(* Operations on one bit: no other bit has its place. *)
LEMMA BitReplaced ==
  ASSUME BitsetAssumption, BitsetIInv, NEW s \in Sets, NEW i \in 0..(N - 1),
         NEW x \in SUBSET Positions,
         \A p \in Positions \ {Bit(i)} : p \in x <=> p \in words[s][Word(i)],
         NEW b \in SUBSET (0..(N - 1)),
         \A j \in (0..(N - 1)) \ {i} : j \in b <=> j \in Bits(s),
         i \in b <=> Bit(i) \in x,
         words' = [words EXCEPT ![s][Word(i)] = x]
  PROVE  BitsetIInv' /\ Becomes(s, b)
<1> DEFINE ws == [words[s] EXCEPT ![Word(i)] = x]
<1>1. /\ Word(i) \in Words /\ Bit(i) \in Positions
      /\ Word(i) = WordCount - 1 => Bit(i) \in TailMask
  BY Placed
<1>2. words' = [words EXCEPT ![s] = ws]
  BY DEF BitsetIInv, BitsetTypeOK
<1>3. WordsFit(ws)
  <2>1. ws \in [Words -> SUBSET Positions]
    BY <1>1 DEF BitsetIInv, BitsetTypeOK
  <2>2. ws[WordCount - 1] \subseteq TailMask
    <3>1. words[s][WordCount - 1] \subseteq TailMask /\ WordCount - 1 \in Words
      BY LastWord DEF BitsetIInv, TailClear
    <3>2. CASE Word(i) # WordCount - 1
      BY <3>1, <3>2 DEF BitsetIInv, BitsetTypeOK
    <3>3. CASE Word(i) = WordCount - 1
      BY <1>1, <3>1, <3>3 DEF BitsetIInv, BitsetTypeOK
    <3> QED
      BY <3>2, <3>3
  <2> QED
    BY <2>1, <2>2 DEF WordsFit
<1>4. ASSUME NEW j \in 0..(N - 1) PROVE Bit(j) \in ws[Word(j)] <=> j \in b
  <2>1. Word(j) \in Words /\ Bit(j) \in Positions
    BY Placed
  <2>2. CASE j = i
    BY <1>1, <2>2 DEF BitsetIInv, BitsetTypeOK
  <2>3. CASE j # i /\ Word(j) = Word(i)
    <3>1. Bit(j) # Bit(i)
      <4>1. j = BitsPerWord * Word(j) + Bit(j)
        BY Placed
      <4>2. i = BitsPerWord * Word(i) + Bit(i)
        BY Placed
      <4> QED
        BY <2>3, <4>1, <4>2
    <3>2. ws[Word(j)] = x
      BY <1>1, <2>3 DEF BitsetIInv, BitsetTypeOK
    <3>3. j \in Bits(s) <=> Bit(j) \in words[s][Word(i)]
      BY <2>3 DEF Bits, Test
    <3> QED
      BY <2>1, <2>3, <3>1, <3>2, <3>3
  <2>4. CASE Word(j) # Word(i)
    <3>1. ws[Word(j)] = words[s][Word(j)]
      BY <2>1, <2>4 DEF BitsetIInv, BitsetTypeOK
    <3>2. j # i
      BY <2>4
    <3> QED
      BY <3>1, <3>2 DEF Bits, Test
  <2> QED
    BY <2>2, <2>3, <2>4
<1> HIDE DEF ws
<1>5. Holds(ws, b)
  BY <1>4 DEF Holds
<1> QED
  BY <1>2, <1>3, <1>5, Replaced

LEMMA SetToSets ==
  ASSUME BitsetAssumption, BitsetIInv, NEW s \in Sets, NEW i \in 0..(N - 1),
         NEW v \in BOOLEAN, SetTo(s, i, v)
  PROVE  BitsetIInv' /\ Becomes(s, IF v THEN Bits(s) \cup {i} ELSE Bits(s) \ {i})
<1> DEFINE u == words[s][Word(i)]
           x == IF v THEN u \cup {Bit(i)} ELSE u \ {Bit(i)}
           b == IF v THEN Bits(s) \cup {i} ELSE Bits(s) \ {i}
<1>1. Word(i) \in Words /\ Bit(i) \in Positions
  BY Placed
<1>2. x \in SUBSET Positions /\ \A p \in Positions \ {Bit(i)} : p \in x <=> p \in u
  BY <1>1 DEF BitsetIInv, BitsetTypeOK
<1>3. /\ b \in SUBSET (0..(N - 1))
      /\ \A j \in (0..(N - 1)) \ {i} : j \in b <=> j \in Bits(s)
      /\ i \in b <=> Bit(i) \in x
  BY DEF Bits
<1>4. words' = [words EXCEPT ![s][Word(i)] = x]
  BY DEF SetTo, BitsetIInv, BitsetTypeOK
<1> HIDE DEF x, b
<1>5. BitsetIInv' /\ Becomes(s, b)
  BY <1>2, <1>3, <1>4, BitReplaced
<1> QED
  BY <1>5 DEF b

LEMMA FlipFlips ==
  ASSUME BitsetAssumption, BitsetIInv, NEW s \in Sets, NEW i \in 0..(N - 1), Flip(s, i)
  PROVE  BitsetIInv' /\ Becomes(s, SymDiff(Bits(s), {i}))
<1> DEFINE u == words[s][Word(i)]
           x == SymDiff(u, {Bit(i)})
           b == SymDiff(Bits(s), {i})
<1>1. Word(i) \in Words /\ Bit(i) \in Positions
  BY Placed
<1>2. x \in SUBSET Positions /\ \A p \in Positions \ {Bit(i)} : p \in x <=> p \in u
  BY <1>1 DEF BitsetIInv, BitsetTypeOK, SymDiff
<1>3. /\ b \in SUBSET (0..(N - 1))
      /\ \A j \in (0..(N - 1)) \ {i} : j \in b <=> j \in Bits(s)
      /\ i \in b <=> Bit(i) \in x
  BY DEF Bits, Test, SymDiff
<1>4. words' = [words EXCEPT ![s][Word(i)] = x]
  BY DEF Flip, BitsetIInv, BitsetTypeOK
<1> HIDE DEF x, b
<1>5. BitsetIInv' /\ Becomes(s, b)
  BY <1>2, <1>3, <1>4, BitReplaced
<1> QED
  BY <1>5 DEF b
-----------------------------------------------------------------------------
(* The invariant holds from the start and every operation keeps it. *)
LEMMA Inductive ==
  ASSUME BitsetAssumption
  PROVE  /\ BitsetInit => BitsetIInv
         /\ BitsetIInv /\ [BitsetNext]_words => BitsetIInv'
<1>1. BitsetInit => BitsetIInv
  BY LastWord DEF BitsetInit, BitsetIInv, BitsetTypeOK, TailClear, Zero
<1>2. ASSUME BitsetIInv, BitsetNext PROVE BitsetIInv'
  <2>1. PICK s \in Sets :
          \/ \E v \in SUBSET Positions : FromWord(s, v)
          \/ \E i \in 0..(N - 1) : Flip(s, i) \/ \E v \in BOOLEAN : SetTo(s, i, v)
          \/ SetAll(s) \/ ResetAll(s) \/ FlipAll(s)
          \/ \E o \in Sets : Copy(s, o) \/ And(s, o) \/ Or(s, o) \/ Xor(s, o)
    BY <1>2 DEF BitsetNext
  <2>2. CASE \E v \in SUBSET Positions : FromWord(s, v)
    BY <1>2, <2>2, FromWordTakes
  <2>3. CASE \E i \in 0..(N - 1) : Flip(s, i)
    BY <1>2, <2>3, FlipFlips
  <2>4. CASE \E i \in 0..(N - 1) : \E v \in BOOLEAN : SetTo(s, i, v)
    BY <1>2, <2>4, SetToSets
  <2>5. CASE SetAll(s)
    BY <1>2, <2>5, SetAllSets
  <2>6. CASE ResetAll(s)
    BY <1>2, <2>6, ResetAllClears
  <2>7. CASE FlipAll(s)
    BY <1>2, <2>7, FlipAllComplements
  <2>8. CASE \E o \in Sets : Copy(s, o)
    BY <1>2, <2>8, CopyCopies
  <2>9. CASE \E o \in Sets : And(s, o)
    BY <1>2, <2>9, AndIntersects
  <2>10. CASE \E o \in Sets : Or(s, o)
    BY <1>2, <2>10, OrUnites
  <2>11. CASE \E o \in Sets : Xor(s, o)
    BY <1>2, <2>11, XorDiffers
  <2> QED
    BY <2>1, <2>2, <2>3, <2>4, <2>5, <2>6, <2>7, <2>8, <2>9, <2>10, <2>11
<1>3. ASSUME BitsetIInv, UNCHANGED words PROVE BitsetIInv'
  BY <1>3 DEF BitsetIInv, BitsetTypeOK, TailClear
<1> QED
  BY <1>1, <1>2, <1>3

(* The bits of the last word beyond N are zero in every reachable state      *)
(* (bitset.hpp:33-35, "used to discard the don't-care top bits").            *)
THEOREM TailStaysClear == BitsetSpec => [](BitsetTypeOK /\ TailClear)
<1>1. BitsetInit => BitsetIInv
  BY BitsetAssumption, Inductive
<1>2. BitsetIInv /\ [BitsetNext]_words => BitsetIInv'
  BY BitsetAssumption, Inductive
<1>3. BitsetIInv => BitsetTypeOK /\ TailClear
  BY DEF BitsetIInv
<1> QED
  BY <1>1, <1>2, <1>3, PTL DEF BitsetSpec

(* operator== compares whole words and is right about the N bits, for all    *)
(* reachable states.                                                         *)
THEOREM EqualityExact ==
  BitsetSpec => []\A s, o \in Sets : Equal(s, o) <=> Bits(s) = Bits(o)
<1>1. ASSUME BitsetIInv, NEW s \in Sets, NEW o \in Sets
      PROVE  Equal(s, o) <=> Bits(s) = Bits(o)
  <2>1. Equal(s, o) => Bits(s) = Bits(o)
    BY BitsetAssumption, Placed DEF Equal, Bits, Test
  <2>2. ASSUME Bits(s) = Bits(o), NEW w \in Words, NEW p \in Positions
        PROVE  p \in words[s][w] <=> p \in words[o][w]
    <3>1. CASE w = WordCount - 1 /\ p \notin TailMask
      BY <1>1, <3>1 DEF BitsetIInv, TailClear
    <3>2. CASE w = WordCount - 1 => p \in TailMask
      <4>1. PICK i \in 0..(N - 1) : Word(i) = w /\ Bit(i) = p
        BY <3>2, BitsetAssumption, Covered
      <4> QED
        BY <2>2, <4>1 DEF Bits, Test
    <3> QED
      BY <3>1, <3>2
  <2>3. ASSUME Bits(s) = Bits(o), NEW w \in Words PROVE words[s][w] = words[o][w]
    <3>1. words[s][w] \subseteq Positions /\ words[o][w] \subseteq Positions
      BY <1>1 DEF BitsetIInv, BitsetTypeOK
    <3> QED
      BY <2>2, <2>3, <3>1
  <2> QED
    BY <2>1, <2>3 DEF Equal
<1>2. BitsetIInv => \A s, o \in Sets : Equal(s, o) <=> Bits(s) = Bits(o)
  BY <1>1
<1>3. BitsetInit => BitsetIInv
  BY BitsetAssumption, Inductive
<1>4. BitsetIInv /\ [BitsetNext]_words => BitsetIInv'
  BY BitsetAssumption, Inductive
<1> QED
  BY <1>2, <1>3, <1>4, PTL DEF BitsetSpec
-----------------------------------------------------------------------------
(* The step that SetAlgebra asks for. *)
Algebra ==
  \A s \in Sets :
    /\ SetAll(s) => Becomes(s, 0..(N - 1))
    /\ ResetAll(s) => Becomes(s, {})
    /\ FlipAll(s) => Becomes(s, (0..(N - 1)) \ Bits(s))
    /\ \A i \in 0..(N - 1) : /\ SetTo(s, i, TRUE) => Becomes(s, Bits(s) \cup {i})
                             /\ SetTo(s, i, FALSE) => Becomes(s, Bits(s) \ {i})
                             /\ Flip(s, i) => Becomes(s, SymDiff(Bits(s), {i}))
    /\ \A o \in Sets : /\ Copy(s, o) => Becomes(s, Bits(o))
                       /\ And(s, o) => Becomes(s, Bits(s) \cap Bits(o))
                       /\ Or(s, o) => Becomes(s, Bits(s) \cup Bits(o))
                       /\ Xor(s, o) => Becomes(s, SymDiff(Bits(s), Bits(o)))
    /\ \A v \in SUBSET Positions : FromWord(s, v) => Becomes(s, v \cap (0..(N - 1)))

(* Each operation of bitset.hpp is the operation of set algebra on the N     *)
(* bits that its name says, for every N and every width of a word.           *)
THEOREM ImplementsSetAlgebra == BitsetSpec => SetAlgebra
<1>1. ASSUME BitsetIInv PROVE Algebra
  <2> SUFFICES ASSUME NEW s \in Sets
               PROVE  /\ SetAll(s) => Becomes(s, 0..(N - 1))
                      /\ ResetAll(s) => Becomes(s, {})
                      /\ FlipAll(s) => Becomes(s, (0..(N - 1)) \ Bits(s))
                      /\ \A i \in 0..(N - 1) :
                           /\ SetTo(s, i, TRUE) => Becomes(s, Bits(s) \cup {i})
                           /\ SetTo(s, i, FALSE) => Becomes(s, Bits(s) \ {i})
                           /\ Flip(s, i) => Becomes(s, SymDiff(Bits(s), {i}))
                      /\ \A o \in Sets :
                           /\ Copy(s, o) => Becomes(s, Bits(o))
                           /\ And(s, o) => Becomes(s, Bits(s) \cap Bits(o))
                           /\ Or(s, o) => Becomes(s, Bits(s) \cup Bits(o))
                           /\ Xor(s, o) => Becomes(s, SymDiff(Bits(s), Bits(o)))
                      /\ \A v \in SUBSET Positions :
                           FromWord(s, v) => Becomes(s, v \cap (0..(N - 1)))
    BY DEF Algebra
  <2>1. SetAll(s) => Becomes(s, 0..(N - 1))
    BY <1>1, BitsetAssumption, SetAllSets
  <2>2. ResetAll(s) => Becomes(s, {})
    BY <1>1, BitsetAssumption, ResetAllClears
  <2>3. FlipAll(s) => Becomes(s, (0..(N - 1)) \ Bits(s))
    BY <1>1, BitsetAssumption, FlipAllComplements
  <2>4. ASSUME NEW i \in 0..(N - 1), SetTo(s, i, TRUE) PROVE Becomes(s, Bits(s) \cup {i})
    <3>1. Becomes(s, IF TRUE THEN Bits(s) \cup {i} ELSE Bits(s) \ {i})
      BY <1>1, <2>4, BitsetAssumption, SetToSets
    <3> QED
      BY <3>1
  <2>5. ASSUME NEW i \in 0..(N - 1), SetTo(s, i, FALSE) PROVE Becomes(s, Bits(s) \ {i})
    <3>1. Becomes(s, IF FALSE THEN Bits(s) \cup {i} ELSE Bits(s) \ {i})
      BY <1>1, <2>5, BitsetAssumption, SetToSets
    <3> QED
      BY <3>1
  <2>6. \A i \in 0..(N - 1) : Flip(s, i) => Becomes(s, SymDiff(Bits(s), {i}))
    BY <1>1, BitsetAssumption, FlipFlips
  <2>7. \A o \in Sets : Copy(s, o) => Becomes(s, Bits(o))
    BY <1>1, BitsetAssumption, CopyCopies
  <2>8. \A o \in Sets : And(s, o) => Becomes(s, Bits(s) \cap Bits(o))
    BY <1>1, BitsetAssumption, AndIntersects
  <2>9. \A o \in Sets : Or(s, o) => Becomes(s, Bits(s) \cup Bits(o))
    BY <1>1, BitsetAssumption, OrUnites
  <2>10. \A o \in Sets : Xor(s, o) => Becomes(s, SymDiff(Bits(s), Bits(o)))
    BY <1>1, BitsetAssumption, XorDiffers
  <2>11. \A v \in SUBSET Positions : FromWord(s, v) => Becomes(s, v \cap (0..(N - 1)))
    BY <1>1, BitsetAssumption, FromWordTakes
  <2> QED
    BY <2>1, <2>2, <2>3, <2>4, <2>5, <2>6, <2>7, <2>8, <2>9, <2>10, <2>11
<1>2. BitsetIInv => [Algebra]_words
  BY <1>1
<1>3. BitsetInit => BitsetIInv
  BY BitsetAssumption, Inductive
<1>4. BitsetIInv /\ [BitsetNext]_words => BitsetIInv'
  BY BitsetAssumption, Inductive
<1>5. BitsetSpec => [][Algebra]_words
  BY <1>2, <1>3, <1>4, PTL DEF BitsetSpec
<1> QED
  BY <1>5 DEF Algebra, SetAlgebra
-----------------------------------------------------------------------------
(* unique_ptr: what deleting an object deletes, as a set in a memory p.      *)
LEMMA ChainInside ==
  ASSUME NEW p, NEW o
  PROVE  Chain(p, o) \subseteq DOMAIN p /\ (o \in DOMAIN p => o \in Chain(p, o))
BY DEF Chain

LEMMA ChainClosed == ASSUME NEW p, NEW o PROVE Closed(p, Chain(p, o))
<1>1. SUFFICES ASSUME NEW x \in Chain(p, o), p[x] \in DOMAIN p,
                      NEW C \in SUBSET DOMAIN p, Closed(p, C), o \in DOMAIN p => o \in C
               PROVE  p[x] \in C
  BY DEF Closed, Chain
<1>2. x \in C
  BY <1>1 DEF Chain
<1> QED
  BY <1>1, <1>2 DEF Closed

LEMMA ChainLeast ==
  ASSUME NEW p, NEW o, NEW C \in SUBSET DOMAIN p, Closed(p, C), o \in DOMAIN p => o \in C
  PROVE  Chain(p, o) \subseteq C
BY DEF Chain

LEMMA ChainOfNothing == ASSUME NEW p, NEW o, o \notin DOMAIN p PROVE Chain(p, o) = {}
<1>1. Closed(p, {})
  BY DEF Closed
<1> QED
  BY <1>1, ChainLeast

(* What is deleted depends on the owners that are deleted only.              *)
LEMMA SameChain ==
  ASSUME NEW p, NEW q, NEW o, DOMAIN q = DOMAIN p,
         \A x \in Chain(p, o) : q[x] = p[x]
  PROVE  Chain(q, o) = Chain(p, o)
<1>1. Chain(q, o) \subseteq Chain(p, o)
  <2>1. Closed(q, Chain(p, o))
    BY ChainClosed DEF Closed
  <2> QED
    BY <2>1, ChainInside, ChainLeast
<1>2. Chain(p, o) \subseteq Chain(q, o)
  <2>1. Closed(p, Chain(q, o))
    BY <1>1, ChainClosed DEF Closed
  <2> QED
    BY <2>1, ChainInside, ChainLeast
<1> QED
  BY <1>1, <1>2

(* A memory p in which every object is held once, by an owner or, if it is   *)
(* in r, by the caller.                                                      *)
Sound(p, r) ==
  /\ Variables \subseteq DOMAIN p /\ DOMAIN p \subseteq Variables \cup Objects
  /\ \A x \in DOMAIN p : p[x] = Nil \/ (p[x] \in DOMAIN p /\ p[x] \in Objects)
  /\ \A o \in r : o \in DOMAIN p /\ o \in Objects
  /\ \A x, y \in DOMAIN p : p[x] \in Objects /\ p[x] = p[y] => x = y
  /\ \A o \in DOMAIN p : o \in Objects => (o \in r <=> \A x \in DOMAIN p : p[x] # o)

LEMMA ChainOfObjects ==
  ASSUME NEW p, NEW r, Sound(p, r), NEW o, o \in Objects \cup {Nil}
  PROVE  Chain(p, o) \subseteq Objects
<1>1. Closed(p, DOMAIN p \cap Objects)
  BY UniqueAssumption DEF Closed, Sound
<1>2. o \in DOMAIN p => o \in DOMAIN p \cap Objects
  BY UniqueAssumption DEF Sound
<1> QED
  BY <1>1, <1>2, ChainLeast

(* An object that goes with another is owned by one that goes too.           *)
LEMMA HolderGoes ==
  ASSUME NEW p, NEW o, NEW x \in Chain(p, o), x # o
  PROVE  \E y \in Chain(p, o) : p[y] = x
<1>1. SUFFICES ASSUME \A y \in Chain(p, o) : p[y] # x PROVE FALSE
  OBVIOUS
<1>2. Closed(p, Chain(p, o) \ {x})
  BY <1>1, ChainClosed DEF Closed
<1>3. Chain(p, o) \subseteq Chain(p, o) \ {x}
  BY <1>2, ChainInside, ChainLeast
<1> QED
  BY <1>3

(* What goes when the object of owner d is deleted: objects, each owned by d *)
(* or by one that goes, and none of them held by the caller.                 *)
LEMMA WhatGoes ==
  ASSUME NEW p, NEW r, Sound(p, r), NEW d \in DOMAIN p
  PROVE  /\ Chain(p, p[d]) \subseteq DOMAIN p \cap Objects
         /\ \A y \in DOMAIN p : p[y] \in Chain(p, p[d]) => y = d \/ y \in Chain(p, p[d])
         /\ \A y \in Chain(p, p[d]) : p[y] \in Objects => p[y] \in Chain(p, p[d])
         /\ Chain(p, p[d]) \cap r = {}
         /\ p[d] \in Objects => p[d] \in Chain(p, p[d])
<1>1. PICK K : K = Chain(p, p[d])
  OBVIOUS
<1>2. K \subseteq DOMAIN p /\ K \subseteq Objects
  BY <1>1, ChainInside, ChainOfObjects DEF Sound
<1>3. ASSUME NEW x \in K PROVE \E z \in DOMAIN p : p[z] = x /\ (z = d \/ z \in K)
  BY <1>1, <1>2, <1>3, HolderGoes
<1>4. ASSUME NEW y \in DOMAIN p, p[y] \in K PROVE y = d \/ y \in K
  <2>1. PICK z \in DOMAIN p : p[z] = p[y] /\ (z = d \/ z \in K)
    BY <1>3, <1>4
  <2>2. z = y
    BY <1>2, <1>4, <2>1 DEF Sound
  <2> QED
    BY <2>1, <2>2
<1>5. ASSUME NEW x \in K PROVE x \notin r
  BY <1>2, <1>3, <1>5 DEF Sound
<1>6. ASSUME NEW y \in K, p[y] \in Objects PROVE p[y] \in K
  <2>1. p[y] \in DOMAIN p
    BY <1>2, <1>6, UniqueAssumption DEF Sound
  <2> QED
    BY <1>1, <1>6, <2>1, ChainClosed DEF Closed
<1>7. p[d] \in Objects => p[d] \in K
  BY <1>1, ChainInside, UniqueAssumption DEF Sound
<1> QED
  BY <1>1, <1>2, <1>4, <1>5, <1>6, <1>7

-----------------------------------------------------------------------------
(* q is p once owner d owns o and what it owned is gone.                     *)
Becoming(q, p, d, o) ==
  /\ DOMAIN q = DOMAIN p \ Chain(p, p[d])
  /\ \A x \in DOMAIN q : q[x] = IF x = d THEN o ELSE p[x]

(* reset(o) on an owner that is not part of what it deletes.                 *)
LEMMA ResetBecomes ==
  ASSUME NEW p, NEW d \in DOMAIN p, d \notin Chain(p, p[d]), NEW o
  PROVE  Becoming(ResetIn(p, d, o), p, d, o)
<1>1. PICK q : q = [p EXCEPT ![d] = o]
  OBVIOUS
<1>2. DOMAIN q = DOMAIN p /\ \A x \in DOMAIN p : q[x] = IF x = d THEN o ELSE p[x]
  BY <1>1
<1>3. Chain(q, p[d]) = Chain(p, p[d])
  <2>1. \A x \in Chain(p, p[d]) : q[x] = p[x]
    BY <1>2, ChainInside
  <2> QED
    BY <1>2, <2>1, SameChain
<1>4. ResetIn(p, d, o) = [x \in DOMAIN q \ Chain(q, p[d]) |-> q[x]]
  BY <1>1 DEF ResetIn, Deleted
<1> QED
  BY <1>2, <1>3, <1>4 DEF Becoming

LEMMA ResetSound ==
  ASSUME NEW p, NEW r, Sound(p, r), NEW d \in DOMAIN p, d \notin Chain(p, p[d]),
         NEW o \in r \cup {Nil}
  PROVE  Sound(ResetIn(p, d, o), r \ {o})
<1>1. PICK K : K = Chain(p, p[d])
  OBVIOUS
<1>2. PICK q : q = ResetIn(p, d, o)
  OBVIOUS
<1>3. /\ DOMAIN q = DOMAIN p \ K /\ d \in DOMAIN q
      /\ \A x \in DOMAIN q : q[x] = IF x = d THEN o ELSE p[x]
  <2>1. Becoming(q, p, d, o)
    BY <1>2, ResetBecomes
  <2> QED
    BY <1>1, <2>1 DEF Becoming
<1>4. /\ K \subseteq DOMAIN p \cap Objects
      /\ \A y \in DOMAIN p : p[y] \in K => y = d \/ y \in K
      /\ \A y \in K : p[y] \in Objects => p[y] \in K
      /\ K \cap r = {}
      /\ p[d] \in Objects => p[d] \in K
  BY <1>1, WhatGoes
<1>5. Variables \subseteq DOMAIN q /\ DOMAIN q \subseteq Variables \cup Objects
  BY <1>3, <1>4, UniqueAssumption DEF Sound
<1>6. \A a \in r : a \in DOMAIN q /\ a \in Objects
  BY <1>3, <1>4 DEF Sound
<1>7. ASSUME NEW x \in DOMAIN q PROVE q[x] = Nil \/ (q[x] \in DOMAIN q /\ q[x] \in Objects)
  <2>1. CASE x = d
    BY <2>1, <1>3, <1>6
  <2>2. CASE x # d
    <3>1. q[x] = p[x] /\ x \in DOMAIN p /\ x \notin K
      BY <2>2, <1>3, <1>7
    <3>2. p[x] \notin K
      BY <2>2, <3>1, <1>4
    <3> QED
      BY <3>1, <3>2, <1>3 DEF Sound
  <2> QED
    BY <2>1, <2>2
<1>8. o \in Objects => \A x \in DOMAIN p : p[x] # o
  BY UniqueAssumption DEF Sound
<1>9. ASSUME NEW x \in DOMAIN q, NEW y \in DOMAIN q, q[x] \in Objects, q[x] = q[y] PROVE x = y
  BY <1>3, <1>8, <1>9 DEF Sound
<1>10. ASSUME NEW a \in DOMAIN q, a \in Objects
       PROVE  a \in r \ {o} <=> \A x \in DOMAIN q : q[x] # a
  <2>1. ASSUME a \in r \ {o}, NEW x \in DOMAIN q PROVE q[x] # a
    BY <1>3, <1>10, <2>1 DEF Sound
  <2>2. ASSUME \A x \in DOMAIN q : q[x] # a PROVE a \in r \ {o}
    <3>1. a # o
      BY <1>3, <2>2
    <3>2. ASSUME NEW x \in DOMAIN p, p[x] = a PROVE FALSE
      <4>1. x # d /\ x \notin K
        BY <1>3, <1>4, <1>10, <3>2
      <4> QED
        BY <1>3, <2>2, <3>2, <4>1
    <3> QED
      BY <1>3, <1>10, <3>1, <3>2 DEF Sound
  <2> QED
    BY <2>1, <2>2
<1>11. \A a \in r \ {o} : a \in DOMAIN q /\ a \in Objects
  BY <1>6
<1> QED
  BY <1>2, <1>5, <1>7, <1>9, <1>10, <1>11 DEF Sound

LEMMA ReleaseSound ==
  ASSUME NEW p, NEW r, Sound(p, r), NEW s \in DOMAIN p
  PROVE  Sound([p EXCEPT ![s] = Nil], (r \cup {p[s]}) \ {Nil})
<1>1. PICK q : q = [p EXCEPT ![s] = Nil]
  OBVIOUS
<1>2. PICK t : t = (r \cup {p[s]}) \ {Nil}
  OBVIOUS
<1>3. DOMAIN q = DOMAIN p /\ \A x \in DOMAIN p : q[x] = IF x = s THEN Nil ELSE p[x]
  BY <1>1
<1>4. Nil \notin Objects
  BY UniqueAssumption
<1>5. \A x \in DOMAIN q : q[x] = Nil \/ (q[x] \in DOMAIN q /\ q[x] \in Objects)
  BY <1>3 DEF Sound
<1>6. \A a \in t : a \in DOMAIN q /\ a \in Objects
  BY <1>2, <1>3 DEF Sound
<1>7. \A x, y \in DOMAIN q : q[x] \in Objects /\ q[x] = q[y] => x = y
  BY <1>3, <1>4 DEF Sound
<1>8. ASSUME NEW a \in DOMAIN q, a \in Objects
      PROVE  a \in t <=> \A x \in DOMAIN q : q[x] # a
  <2>1. a \in t <=> a \in r \/ a = p[s]
    BY <1>2, <1>4, <1>8
  <2>2. a \in r <=> \A x \in DOMAIN p : p[x] # a
    BY <1>3, <1>8 DEF Sound
  <2>3. CASE a = p[s]
    <3>1. ASSUME NEW x \in DOMAIN p, x # s PROVE p[x] # a
      BY <2>3, <1>8, <3>1 DEF Sound
    <3> QED
      BY <2>1, <2>3, <3>1, <1>3, <1>4, <1>8
  <2>4. CASE a # p[s]
    BY <2>1, <2>2, <2>4, <1>3, <1>4, <1>8
  <2> QED
    BY <2>3, <2>4
<1> QED
  BY <1>1, <1>2, <1>3, <1>5, <1>6, <1>7, <1>8 DEF Sound

(* An owner the program can name is no part of what it owns.                 *)
LEMMA NamedOutside ==
  ASSUME Sound(ptr, raw), NEW d \in Named
  PROVE  d \in DOMAIN ptr /\ d \notin Chain(ptr, ptr[d])
<1>0. \/ d \in Variables
      \/ \E w \in Variables : d \in Chain(ptr, ptr[w])
      \/ \E o \in raw : d \in Chain(ptr, o)
  BY DEF Named
<1>1. d \in DOMAIN ptr
  <2>1. \A o : Chain(ptr, o) \subseteq DOMAIN ptr
    BY ChainInside
  <2> QED
    BY <1>0, <2>1 DEF Sound
<1>2. PICK K : K = Chain(ptr, ptr[d])
  OBVIOUS
<1>3. SUFFICES ASSUME d \in K PROVE FALSE
  BY <1>1, <1>2
<1>4. /\ K \subseteq DOMAIN ptr /\ K \subseteq Objects
      /\ \A y \in DOMAIN ptr : ptr[y] \in K => y \in K
      /\ K \cap raw = {}
  BY <1>1, <1>2, <1>3, WhatGoes
<1>5. PICK C : C = DOMAIN ptr \ K
  OBVIOUS
<1>6. C \in SUBSET DOMAIN ptr /\ Closed(ptr, C)
  BY <1>4, <1>5 DEF Closed
<1>7. ASSUME NEW w \in Variables PROVE Chain(ptr, ptr[w]) \subseteq C
  <2>1. w \in DOMAIN ptr /\ w \notin K
    BY <1>4, UniqueAssumption DEF Sound
  <2>2. ptr[w] \in DOMAIN ptr => ptr[w] \in C
    BY <2>1, <1>4, <1>5
  <2> QED
    BY <2>2, <1>6, ChainLeast
<1>8. ASSUME NEW o \in raw PROVE Chain(ptr, o) \subseteq C
  <2>1. o \in DOMAIN ptr => o \in C
    BY <1>4, <1>5
  <2> QED
    BY <2>1, <1>6, ChainLeast
<1>9. d \notin Variables
  BY <1>3, <1>4, UniqueAssumption
<1>10. d \in C
  BY <1>0, <1>7, <1>8, <1>9
<1> QED
  BY <1>3, <1>5, <1>10

(* make_unique: the new object is one the caller holds, and is reset into d. *)
LEMMA MakeSound ==
  ASSUME Sound(ptr, raw), NEW d \in Named, Make(d)
  PROVE  Sound(ptr', raw')
<1>1. PICK o \in Objects \ Alive :
        /\ ptr' = ResetIn([x \in DOMAIN ptr \cup {o} |-> IF x = o THEN Nil ELSE ptr[x]], d, o)
        /\ raw' = raw
  BY DEF Make
<1>2. PICK p : p = [x \in DOMAIN ptr \cup {o} |-> IF x = o THEN Nil ELSE ptr[x]]
  OBVIOUS
<1>3. /\ o \in Objects /\ o \notin DOMAIN ptr
      /\ DOMAIN p = DOMAIN ptr \cup {o} /\ p[o] = Nil
      /\ \A x \in DOMAIN ptr : p[x] = ptr[x]
  BY <1>1, <1>2 DEF Alive
<1>4. d \in DOMAIN ptr /\ d \notin Chain(ptr, ptr[d])
  BY NamedOutside
<1>5. o \notin raw /\ \A x \in DOMAIN ptr : ptr[x] # o
  BY <1>3, UniqueAssumption DEF Sound
<1>6. PICK r : r = raw \cup {o}
  OBVIOUS
<1>7. Sound(p, r)
  <2>1. Variables \subseteq DOMAIN p /\ DOMAIN p \subseteq Variables \cup Objects
    BY <1>3 DEF Sound
  <2>2. \A x \in DOMAIN p : p[x] = Nil \/ (p[x] \in DOMAIN p /\ p[x] \in Objects)
    BY <1>3 DEF Sound
  <2>3. \A a \in r : a \in DOMAIN p /\ a \in Objects
    BY <1>3, <1>6 DEF Sound
  <2>4. \A x, y \in DOMAIN p : p[x] \in Objects /\ p[x] = p[y] => x = y
    BY <1>3, UniqueAssumption DEF Sound
  <2>5. ASSUME NEW a \in DOMAIN p, a \in Objects
        PROVE  a \in r <=> \A x \in DOMAIN p : p[x] # a
    <3>1. CASE a = o
      BY <3>1, <1>3, <1>5, <1>6, UniqueAssumption
    <3>2. CASE a # o
      <4>1. a \in DOMAIN ptr /\ (a \in r <=> a \in raw)
        BY <3>2, <2>5, <1>3, <1>6
      <4>2. a \in raw <=> \A x \in DOMAIN ptr : ptr[x] # a
        BY <4>1, <2>5 DEF Sound
      <4> QED
        BY <4>1, <4>2, <2>5, <1>3, UniqueAssumption
    <3> QED
      BY <3>1, <3>2
  <2> QED
    BY <2>1, <2>2, <2>3, <2>4, <2>5 DEF Sound
<1>8. d \in DOMAIN p /\ d \notin Chain(p, p[d])
  <2>1. Closed(p, Chain(ptr, ptr[d]))
    BY <1>3, <1>4, ChainInside, ChainClosed, UniqueAssumption DEF Closed, Sound
  <2>2. p[d] \in DOMAIN p => p[d] \in Chain(ptr, ptr[d])
    BY <1>3, <1>4, <1>5, ChainInside
  <2>3. Chain(ptr, ptr[d]) \in SUBSET DOMAIN p
    BY <1>3, ChainInside
  <2>4. Chain(p, p[d]) \subseteq Chain(ptr, ptr[d])
    BY <2>1, <2>2, <2>3, ChainLeast
  <2> QED
    BY <2>4, <1>3, <1>4
<1>9. Sound(ResetIn(p, d, o), r \ {o})
  BY <1>6, <1>7, <1>8, ResetSound
<1>10. r \ {o} = raw
  BY <1>5, <1>6
<1> QED
  BY <1>1, <1>2, <1>9, <1>10

(* operator=(unique_ptr &&): as if s had released its object for d to take,  *)
(* since clearing s afterwards changes nothing that was deleted.             *)
LEMMA MoveAssignSound ==
  ASSUME ~ FromInside, Sound(ptr, raw), NEW d \in Named, NEW s \in Named, MoveAssign(d, s)
  PROVE  Sound(ptr', raw')
<1>1. /\ d # s /\ s \notin Chain(ptr, ptr[d]) /\ raw' = raw
      /\ ptr' = Clears(ResetIn(ptr, d, ptr[s]), s)
  BY DEF MoveAssign
<1>2. d \in DOMAIN ptr /\ s \in DOMAIN ptr /\ d \notin Chain(ptr, ptr[d])
  BY NamedOutside
<1>3. PICK o : o = ptr[s]
  OBVIOUS
<1>4. PICK p : p = [ptr EXCEPT ![s] = Nil]
  OBVIOUS
<1>5. PICK r : r = (raw \cup {o}) \ {Nil}
  OBVIOUS
<1>6. Sound(p, r)
  BY <1>2, <1>3, <1>4, <1>5, ReleaseSound
<1>7. DOMAIN p = DOMAIN ptr /\ \A x \in DOMAIN p : p[x] = IF x = s THEN Nil ELSE ptr[x]
  BY <1>4
<1>8. Chain(p, p[d]) = Chain(ptr, ptr[d])
  <2>1. p[d] = ptr[d] /\ \A x \in Chain(ptr, ptr[d]) : p[x] = ptr[x]
    BY <1>1, <1>2, <1>7, ChainInside
  <2> QED
    BY <2>1, <1>7, SameChain
<1>9. o \in r \cup {Nil}
  BY <1>5
<1>10. Sound(ResetIn(p, d, o), r \ {o})
  BY <1>2, <1>6, <1>7, <1>8, <1>9, ResetSound
<1>11. r \ {o} = raw
  <2>1. o \notin raw
    BY <1>2, <1>3, UniqueAssumption DEF Sound
  <2>2. Nil \notin raw
    BY UniqueAssumption DEF Sound
  <2> QED
    BY <2>1, <2>2, <1>5
<1>12. ResetIn(p, d, o) = ptr'
  <2>1. PICK q : q = ResetIn(ptr, d, o)
    OBVIOUS
  <2>2. Becoming(q, ptr, d, o)
    BY <2>1, <1>2, ResetBecomes
  <2>3. PICK t : t = ResetIn(p, d, o)
    OBVIOUS
  <2>4. Becoming(t, p, d, o)
    BY <2>3, <1>2, <1>7, <1>8, ResetBecomes
  <2>5. t = [x \in DOMAIN t |-> t[x]]
    BY <2>3 DEF ResetIn, Deleted
  <2>6. DOMAIN t = DOMAIN q
    BY <2>2, <2>4, <1>7, <1>8 DEF Becoming
  <2>7. ASSUME NEW x \in DOMAIN t PROVE t[x] = IF x = s THEN Nil ELSE q[x]
    <3>1. t[x] = (IF x = d THEN o ELSE p[x]) /\ q[x] = (IF x = d THEN o ELSE ptr[x])
      BY <2>2, <2>4, <2>6, <2>7 DEF Becoming
    <3>2. x \in DOMAIN p
      BY <2>4, <2>7 DEF Becoming
    <3> QED
      BY <3>1, <3>2, <1>1, <1>7
  <2>8. ptr' = [x \in DOMAIN q |-> IF x = s THEN Nil ELSE q[x]]
    BY <1>1, <1>3, <2>1 DEF Clears
  <2> QED
    BY <2>3, <2>5, <2>6, <2>7, <2>8
<1> QED
  BY <1>1, <1>10, <1>11, <1>12

LEMMA SwapSound ==
  ASSUME Sound(ptr, raw), NEW d \in Named, NEW e \in Named, Swap(d, e)
  PROVE  Sound(ptr', raw')
<1>1. d # e /\ raw' = raw /\ ptr' = [ptr EXCEPT ![d] = ptr[e], ![e] = ptr[d]]
  BY DEF Swap
<1>2. d \in DOMAIN ptr /\ e \in DOMAIN ptr
  BY NamedOutside
<1>3. PICK q : q = ptr'
  OBVIOUS
<1>4. /\ DOMAIN q = DOMAIN ptr /\ q[d] = ptr[e] /\ q[e] = ptr[d]
      /\ \A x \in DOMAIN ptr : x # d /\ x # e => q[x] = ptr[x]
  BY <1>1, <1>2, <1>3
<1>5. PICK tau \in [DOMAIN ptr -> DOMAIN ptr] :
        \A x \in DOMAIN ptr : tau[tau[x]] = x /\ q[x] = ptr[tau[x]]
  <2> DEFINE t == [x \in DOMAIN ptr |-> IF x = d THEN e ELSE IF x = e THEN d ELSE x]
  <2>1. t \in [DOMAIN ptr -> DOMAIN ptr]
    BY <1>2
  <2>2. ASSUME NEW x \in DOMAIN ptr PROVE t[t[x]] = x /\ q[x] = ptr[t[x]]
    BY <1>1, <1>2, <1>4
  <2> QED
    BY <2>1, <2>2
<1>6. ASSUME NEW a \in DOMAIN q, a \in Objects
      PROVE  a \in raw <=> \A x \in DOMAIN q : q[x] # a
  <2>1. a \in raw <=> \A x \in DOMAIN ptr : ptr[x] # a
    BY <1>4, <1>6 DEF Sound
  <2> QED
    BY <2>1, <1>4, <1>5
<1>7. \A x, y \in DOMAIN q : q[x] \in Objects /\ q[x] = q[y] => x = y
  BY <1>4, <1>5 DEF Sound
<1>8. \A x \in DOMAIN q : q[x] = Nil \/ (q[x] \in DOMAIN q /\ q[x] \in Objects)
  BY <1>4, <1>5 DEF Sound
<1> QED
  BY <1>1, <1>3, <1>4, <1>6, <1>7, <1>8 DEF Sound

-----------------------------------------------------------------------------
UniqueIInv == Sound(ptr, raw)

LEMMA UniqueInitSound == UniqueInit => UniqueIInv
<1>1. SUFFICES ASSUME UniqueInit PROVE Sound(ptr, raw)
  BY DEF UniqueIInv
<1>2. raw = {} /\ DOMAIN ptr = Variables /\ \A x \in Variables : ptr[x] = Nil
  BY <1>1 DEF UniqueInit
<1> QED
  BY <1>2, UniqueAssumption DEF Sound

LEMMA UniqueNextSound == ASSUME ~ FromInside PROVE UniqueIInv /\ [UniqueNext]_uniqueVars => UniqueIInv'
<1>1. SUFFICES ASSUME Sound(ptr, raw), [UniqueNext]_uniqueVars PROVE Sound(ptr', raw')
  BY DEF UniqueIInv
<1>2. ASSUME NEW d \in Named, Release(d) PROVE Sound(ptr', raw')
  <2>1. /\ ptr[d] # Nil /\ raw' = raw \cup {ptr[d]} /\ ptr' = [ptr EXCEPT ![d] = Nil]
    BY <1>2 DEF Release
  <2>2. d \in DOMAIN ptr
    BY <1>1, <1>2, NamedOutside
  <2>3. (raw \cup {ptr[d]}) \ {Nil} = raw'
    BY <2>1, <1>1, UniqueAssumption DEF Sound
  <2>4. Sound([ptr EXCEPT ![d] = Nil], (raw \cup {ptr[d]}) \ {Nil})
    BY <1>1, <2>2, ReleaseSound
  <2> QED
    BY <2>1, <2>3, <2>4
<1>3. ASSUME NEW d \in Named, NEW o \in raw \cup {Nil}, Reset(d, o) PROVE Sound(ptr', raw')
  <2>1. ptr' = ResetIn(ptr, d, o) /\ raw' = raw \ {o}
    BY <1>3 DEF Reset
  <2>2. d \in DOMAIN ptr /\ d \notin Chain(ptr, ptr[d])
    BY <1>1, <1>3, NamedOutside
  <2> QED
    BY <1>1, <1>3, <2>1, <2>2, ResetSound
<1>4. CASE UNCHANGED uniqueVars
  BY <1>1, <1>4 DEF uniqueVars
<1> QED
  BY <1>1, <1>2, <1>3, <1>4, MakeSound, MoveAssignSound, SwapSound DEF UniqueNext

LEMMA UniqueSoundIs == UniqueIInv => UniqueTypeOK /\ NoDangling /\ HeldOnce
<1>1. SUFFICES ASSUME Sound(ptr, raw) PROVE UniqueTypeOK /\ NoDangling /\ HeldOnce
  BY DEF UniqueIInv
<1>2. UniqueTypeOK
  BY <1>1 DEF Sound, UniqueTypeOK
<1>3. NoDangling
  BY <1>1 DEF Sound, NoDangling, Alive
<1>4. HeldOnce
  BY <1>1 DEF Sound, HeldOnce, Alive
<1> QED
  BY <1>2, <1>3, <1>4

(* Nothing that the unique_ptr operations leave reachable has been deleted,  *)
(* as long as no owner is assigned from one inside what it owns: there       *)
(* unique_ptr.hpp:38 dangles.                                                *)
THEOREM NothingDeletedEarly == ASSUME ~ FromInside PROVE UniqueSpec => []NoDangling
<1>1. UniqueInit => UniqueIInv
  BY UniqueInitSound
<1>2. UniqueIInv /\ [UniqueNext]_uniqueVars => UniqueIInv'
  BY UniqueNextSound
<1>3. UniqueIInv => NoDangling
  BY UniqueSoundIs
<1> QED
  BY <1>1, <1>2, <1>3, PTL DEF UniqueSpec

(* Every object has exactly one owner or was released to the caller, so that *)
(* none is deleted twice and none is lost.                                   *)
THEOREM NothingOwnedTwice == ASSUME ~ FromInside PROVE UniqueSpec => []HeldOnce
<1>1. UniqueInit => UniqueIInv
  BY UniqueInitSound
<1>2. UniqueIInv /\ [UniqueNext]_uniqueVars => UniqueIInv'
  BY UniqueNextSound
<1>3. UniqueIInv => HeldOnce
  BY UniqueSoundIs
<1> QED
  BY <1>1, <1>2, <1>3, PTL DEF UniqueSpec

(* Who holds an object holds a living one, and nobody else holds it.         *)
THEOREM OwnersStaySound == ASSUME ~ FromInside PROVE UniqueSpec => []OwnersSound
<1>1. UniqueSpec => []NoDangling
  BY NothingDeletedEarly
<1>2. UniqueSpec => []HeldOnce
  BY NothingOwnedTwice
<1> QED
  BY <1>1, <1>2, PTL DEF OwnersSound
-----------------------------------------------------------------------------
(* Induction over the naturals, as a fact about a set of them.               *)
LEMMA NatSetInduction ==
  ASSUME NEW S, 0 \in S, \A n \in Nat : n \in S => n + 1 \in S
  PROVE  Nat \subseteq S
<1> DEFINE T == Nat \ S
           R == {p \in Nat \X Nat : p[1] < p[2]}
<1>1. SUFFICES ASSUME T # {} PROVE FALSE
  OBVIOUS
<1>2. OpToRel(<, Nat) = R
  BY Zenon DEF OpToRel
<1>3. IsWellFoundedOn(R, Nat)
  BY <1>2, NatLessThanWellFounded, Zenon
<1>4. PICK x \in T : \A y \in T : ~ (<<y, x>> \in R)
  <2>1. T \subseteq Nat
    OBVIOUS
  <2> HIDE DEF T, R
  <2> QED
    BY <1>1, <1>3, <2>1, WFMin
<1>5. x \in Nat \ {0}
  OBVIOUS
<1>6. x - 1 \in Nat /\ x - 1 < x /\ (x - 1) + 1 = x
  BY <1>5
<1>7. x - 1 \in T
  BY <1>5, <1>6
<1>8. <<x - 1, x>> \in R
  BY <1>5, <1>6
<1> QED
  BY <1>4, <1>7, <1>8

(* The interval that halving leaves of lo .. hi, and so where the search     *)
(* ends, given the search of every smaller interval.                         *)
MiddleOf(lo, hi) == lo + (hi - lo) \div 2
Halved(f, before, lo, hi) ==
  IF lo >= hi THEN lo
  ELSE f[IF MiddleOf(lo, hi) \in before THEN <<MiddleOf(lo, hi) + 1, hi>>
                                         ELSE <<lo, MiddleOf(lo, hi)>>]
Searches(f, before) == f = [w \in Nat \X Nat |-> Halved(f, before, w[1], w[2])]

(* Where it ends when before is the numbers below m. *)
Nearest(lo, hi, m) == IF lo >= hi \/ m < lo THEN lo ELSE IF m > hi THEN hi ELSE m

LEMMA MiddleWithin ==
  ASSUME NEW lo \in Nat, NEW hi \in Nat, lo < hi
  PROVE  MiddleOf(lo, hi) \in Nat /\ lo <= MiddleOf(lo, hi) /\ MiddleOf(lo, hi) < hi
<1>1. PICK h : h = hi - lo
  OBVIOUS
<1>2. h \div 2 \in Nat /\ h \div 2 < h
  BY <1>1
<1> QED
  BY <1>1, <1>2 DEF MiddleOf

LEMMA NearestHalves ==
  ASSUME NEW lo \in Nat, NEW hi \in Nat, lo < hi, NEW m \in Nat, NEW c \in Nat, lo <= c, c < hi
  PROVE  Nearest(lo, hi, m) = IF c < m THEN Nearest(c + 1, hi, m) ELSE Nearest(lo, c, m)
BY DEF Nearest

LEMMA SearchExists ==
  ASSUME NEW m \in Nat, NEW before, \A i \in Nat : i \in before <=> i < m
  PROVE  \E f : Searches(f, before)
<1>1. PICK f : f = [w \in Nat \X Nat |-> Nearest(w[1], w[2], m)]
  OBVIOUS
<1>2. \A lo, hi \in Nat : f[<<lo, hi>>] = Nearest(lo, hi, m)
  BY <1>1
<1>3. ASSUME NEW lo \in Nat, NEW hi \in Nat PROVE Nearest(lo, hi, m) = Halved(f, before, lo, hi)
  <2>1. CASE lo >= hi
    BY <2>1 DEF Nearest, Halved
  <2>2. CASE lo < hi
    <3>1. PICK c : c = MiddleOf(lo, hi)
      OBVIOUS
    <3>2. c \in Nat /\ lo <= c /\ c < hi
      BY <2>2, <3>1, MiddleWithin
    <3>3. Halved(f, before, lo, hi) = f[IF c \in before THEN <<c + 1, hi>> ELSE <<lo, c>>]
      BY <2>2, <3>1 DEF Halved
    <3>4. f[<<c + 1, hi>>] = Nearest(c + 1, hi, m) /\ f[<<lo, c>>] = Nearest(lo, c, m)
      BY <1>2, <3>2
    <3> QED
      BY <2>2, <3>2, <3>3, <3>4, NearestHalves
  <2> QED
    BY <2>1, <2>2
<1>4. f = [w \in Nat \X Nat |-> Halved(f, before, w[1], w[2])]
  BY <1>1, <1>3
<1>5. Searches(f, before)
  BY <1>4 DEF Searches
<1> QED
  BY <1>5

LEMMA SearchNears ==
  ASSUME NEW m \in Nat, NEW before, \A i \in Nat : i \in before <=> i < m,
         NEW f, Searches(f, before)
  PROVE  \A lo, hi \in Nat : f[<<lo, hi>>] = Nearest(lo, hi, m)
<1> DEFINE S == {n \in Nat : \A lo, hi \in Nat : hi - lo <= n => f[<<lo, hi>>] = Nearest(lo, hi, m)}
<1>1. \A lo, hi \in Nat : f[<<lo, hi>>] = Halved(f, before, lo, hi)
  BY DEF Searches
<1>2. 0 \in S
  <2>1. \A lo, hi \in Nat : hi - lo <= 0 => f[<<lo, hi>>] = Nearest(lo, hi, m)
    <3>1. ASSUME NEW lo \in Nat, NEW hi \in Nat, hi - lo <= 0
          PROVE  f[<<lo, hi>>] = Nearest(lo, hi, m)
      <4>1. lo >= hi
        BY <3>1
      <4> QED
        BY <1>1, <4>1, Zenon DEF Halved, Nearest
    <3> QED
      BY <3>1
  <2>2. 0 \in Nat
    OBVIOUS
  <2> QED
    BY <2>1, <2>2, Zenon
<1>3. ASSUME NEW n \in Nat, n \in S PROVE n + 1 \in S
  <2>1. ASSUME NEW lo \in Nat, NEW hi \in Nat, hi - lo <= n + 1
        PROVE  f[<<lo, hi>>] = Nearest(lo, hi, m)
    <3>1. CASE lo >= hi
      BY <1>1, <3>1 DEF Halved, Nearest
    <3>2. CASE lo < hi
      <4>1. PICK c : c = MiddleOf(lo, hi)
        OBVIOUS
      <4>2. c \in Nat /\ lo <= c /\ c < hi
        BY <3>2, <4>1, MiddleWithin
      <4>3. f[<<lo, hi>>] = f[IF c \in before THEN <<c + 1, hi>> ELSE <<lo, c>>]
        BY <1>1, <3>2, <4>1 DEF Halved
      <4>4. hi - (c + 1) <= n /\ c - lo <= n
        BY <2>1, <4>2
      <4>5. f[<<c + 1, hi>>] = Nearest(c + 1, hi, m) /\ f[<<lo, c>>] = Nearest(lo, c, m)
        BY <1>3, <4>2, <4>4
      <4> QED
        BY <3>2, <4>2, <4>3, <4>5, NearestHalves
    <3> QED
      BY <3>1, <3>2
  <2>2. \A lo, hi \in Nat : hi - lo <= n + 1 => f[<<lo, hi>>] = Nearest(lo, hi, m)
    BY <2>1, Zenon
  <2>3. n + 1 \in Nat
    OBVIOUS
  <2> QED
    BY <2>2, <2>3, Zenon
<1> HIDE DEF S
<1>4. Nat \subseteq S
  BY <1>2, <1>3, NatSetInduction
<1>5. ASSUME NEW lo \in Nat, NEW hi \in Nat PROVE f[<<lo, hi>>] = Nearest(lo, hi, m)
  <2>1. PICK n \in Nat : hi - lo <= n
    OBVIOUS
  <2> QED
    BY <1>4, <2>1 DEF S
<1> QED
  BY <1>5

SearchOf(n, before) == (CHOOSE f : Searches(f, before))[<<0, n>>]

(* The search returns the first number that is not before.                   *)
LEMMA SearchFinds ==
  ASSUME NEW n \in Nat, NEW m \in 0..n, NEW before, \A i \in Nat : i \in before <=> i < m
  PROVE  SearchOf(n, before) = m
<1>1. PICK f : f = CHOOSE g : Searches(g, before)
  OBVIOUS
<1>2. Searches(f, before)
  BY <1>1, SearchExists
<1>3. f[<<0, n>>] = Nearest(0, n, m)
  BY <1>2, SearchNears
<1> QED
  BY <1>1, <1>3 DEF SearchOf, Nearest

LEMMA SameSearch ==
  ASSUME NEW n, NEW before
  PROVE  /\ FM!FirstNot(n, before) = SearchOf(n, before)
         /\ FS!Flat!FirstNot(n, before) = SearchOf(n, before)
         /\ MM!FirstNot(n, before) = SearchOf(n, before)
         /\ FB!Flat!FirstNot(n, before) = SearchOf(n, before)
<1>1. FM!FirstNot(n, before) = SearchOf(n, before)
  BY DEF FM!FirstNot, SearchOf, Searches, Halved, MiddleOf
<1>2. FS!Flat!FirstNot(n, before) = SearchOf(n, before)
  BY DEF FS!Flat!FirstNot, SearchOf, Searches, Halved, MiddleOf
<1>3. MM!FirstNot(n, before) = SearchOf(n, before)
  BY DEF MM!FirstNot, SearchOf, Searches, Halved, MiddleOf
<1>4. FB!Flat!FirstNot(n, before) = SearchOf(n, before)
  BY DEF FB!Flat!FirstNot, SearchOf, Searches, Halved, MiddleOf
<1> QED
  BY <1>1, <1>2, <1>3, <1>4
-----------------------------------------------------------------------------
(* Sequences of entries in key order.                                        *)
Entries(d, K, V) == d \in Seq([key : K, val : V])
Rising(d) == \A i, j \in 1..Len(d) : i < j => d[i].key < d[j].key
Climbing(d) == \A i, j \in 1..Len(d) : i < j => d[i].key <= d[j].key
Lower(d, k, m) == m \in 0..Len(d) /\ \A i \in 1..Len(d) : d[i].key < k <=> i <= m
Upper(d, k, m) == m \in 0..Len(d) /\ \A i \in 1..Len(d) : ~ (k < d[i].key) <=> i <= m

LEMMA EntriesAre ==
  ASSUME NEW d, NEW K \in SUBSET Int, NEW V, Entries(d, K, V)
  PROVE  /\ Len(d) \in Nat /\ DOMAIN d = 1..Len(d)
         /\ \A i \in 1..Len(d) : d[i] \in [key : K, val : V] /\ d[i].key \in Int
<1>1. PICK E : E = [key : K, val : V]
  OBVIOUS
<1>2. d \in Seq(E)
  BY <1>1 DEF Entries
<1>3. Len(d) \in Nat /\ DOMAIN d = 1..Len(d)
  BY <1>2
<1>4. ASSUME NEW i \in 1..Len(d) PROVE d[i] \in E
  BY <1>2, <1>3
<1>5. \A e \in E : e.key \in K
  BY <1>1
<1> QED
  BY <1>1, <1>3, <1>4, <1>5

LEMMA PrefixEnds ==
  ASSUME NEW n \in Nat, NEW B, \A i, j \in 1..n : i < j /\ j \in B => i \in B
  PROVE  \E m \in 0..n : \A i \in 1..n : i \in B <=> i <= m
<1> DEFINE S == {q \in Nat : q <= n => \E m \in 0..q : \A i \in 1..q : i \in B <=> i <= m}
<1>1. 0 \in S
  OBVIOUS
<1>2. ASSUME NEW q \in Nat, q \in S PROVE q + 1 \in S
  <2>1. ASSUME q + 1 <= n PROVE \E m \in 0..(q + 1) : \A i \in 1..(q + 1) : i \in B <=> i <= m
    <3>1. PICK m \in 0..q : \A i \in 1..q : i \in B <=> i <= m
      BY <1>2, <2>1
    <3>2. CASE q + 1 \in B
      <4>1. \A i \in 1..(q + 1) : i \in B <=> i <= q + 1
        BY <2>1, <3>2
      <4> QED
        BY <4>1
    <3>3. CASE q + 1 \notin B
      <4>1. \A i \in 1..(q + 1) : i \in B <=> i <= m
        BY <3>1, <3>3
      <4> QED
        BY <4>1
    <3> QED
      BY <3>2, <3>3
  <2> QED
    BY <2>1
<1> HIDE DEF S
<1>3. Nat \subseteq S
  BY <1>1, <1>2, NatSetInduction
<1> QED
  BY <1>3 DEF S

(* In order, there is a place before which are the lesser keys, and one      *)
(* before which are those not greater.                                       *)
LEMMA BoundsExist ==
  ASSUME NEW d, NEW K \in SUBSET Int, NEW V, Entries(d, K, V), Climbing(d), NEW k \in Int
  PROVE  (\E m : Lower(d, k, m)) /\ (\E m : Upper(d, k, m))
<1>1. Len(d) \in Nat /\ \A i \in 1..Len(d) : d[i].key \in Int
  BY EntriesAre
<1>2. \E m : Lower(d, k, m)
  <2>1. PICK B : B = {i \in 1..Len(d) : d[i].key < k}
    OBVIOUS
  <2>2. \A i, j \in 1..Len(d) : i < j /\ j \in B => i \in B
    BY <1>1, <2>1 DEF Climbing
  <2>3. PICK m \in 0..Len(d) : \A i \in 1..Len(d) : i \in B <=> i <= m
    BY <1>1, <2>2, PrefixEnds
  <2>4. Lower(d, k, m)
    BY <2>1, <2>3 DEF Lower
  <2> QED
    BY <2>4
<1>3. \E m : Upper(d, k, m)
  <2>1. PICK B : B = {i \in 1..Len(d) : ~ (k < d[i].key)}
    OBVIOUS
  <2>2. \A i, j \in 1..Len(d) : i < j /\ j \in B => i \in B
    BY <1>1, <2>1 DEF Climbing
  <2>3. PICK m \in 0..Len(d) : \A i \in 1..Len(d) : i \in B <=> i <= m
    BY <1>1, <2>2, PrefixEnds
  <2>4. Upper(d, k, m)
    BY <2>1, <2>3 DEF Upper
  <2> QED
    BY <2>4
<1> QED
  BY <1>2, <1>3

LEMMA RisingClimbs ==
  ASSUME NEW d, NEW K \in SUBSET Int, NEW V, Entries(d, K, V), Rising(d)
  PROVE  Climbing(d)
<1>1. \A i \in 1..Len(d) : d[i].key \in Int
  BY EntriesAre
<1>2. ASSUME NEW i \in 1..Len(d), NEW j \in 1..Len(d), i < j PROVE d[i].key <= d[j].key
  <2>1. d[i].key < d[j].key
    BY <1>2 DEF Rising
  <2> QED
    BY <1>1, <2>1
<1> QED
  BY <1>2 DEF Climbing

LEMMA LowerFound ==
  ASSUME NEW d, NEW K \in SUBSET Int, NEW V, Entries(d, K, V), NEW k, NEW m, Lower(d, k, m)
  PROVE  SearchOf(Len(d), {i \in 0..(Len(d) - 1) : d[i + 1].key < k}) = m
<1>1. PICK before : before = {i \in 0..(Len(d) - 1) : d[i + 1].key < k}
  OBVIOUS
<1>2. Len(d) \in Nat /\ m \in 0..Len(d)
  BY DEF Entries, Lower
<1>3. ASSUME NEW i \in Nat PROVE i \in before <=> i < m
  <2>1. CASE i < Len(d)
    <3>1. i + 1 \in 1..Len(d) /\ i \in 0..(Len(d) - 1)
      BY <1>2, <2>1
    <3>2. d[i + 1].key < k <=> i + 1 <= m
      BY <3>1 DEF Lower
    <3> QED
      BY <1>1, <1>2, <3>1, <3>2
  <2>2. CASE ~ (i < Len(d))
    BY <1>1, <1>2, <2>2
  <2> QED
    BY <2>1, <2>2
<1> QED
  BY <1>1, <1>2, <1>3, SearchFinds

LEMMA UpperFound ==
  ASSUME NEW d, NEW K \in SUBSET Int, NEW V, Entries(d, K, V), NEW k, NEW m, Upper(d, k, m)
  PROVE  SearchOf(Len(d), {i \in 0..(Len(d) - 1) : ~ (k < d[i + 1].key)}) = m
<1>1. PICK before : before = {i \in 0..(Len(d) - 1) : ~ (k < d[i + 1].key)}
  OBVIOUS
<1>2. Len(d) \in Nat /\ m \in 0..Len(d)
  BY DEF Entries, Upper
<1>3. ASSUME NEW i \in Nat PROVE i \in before <=> i < m
  <2>1. CASE i < Len(d)
    <3>1. i + 1 \in 1..Len(d) /\ i \in 0..(Len(d) - 1)
      BY <1>2, <2>1
    <3>2. ~ (k < d[i + 1].key) <=> i + 1 <= m
      BY <3>1 DEF Upper
    <3> QED
      BY <1>1, <1>2, <3>1, <3>2
  <2>2. CASE ~ (i < Len(d))
    BY <1>1, <1>2, <2>2
  <2> QED
    BY <2>1, <2>2
<1> QED
  BY <1>1, <1>2, <1>3, SearchFinds

(* An entry put in at place m + 1, and the entry there taken out.            *)
PutIn(d, m, e) == SubSeq(d, 1, m) \o <<e>> \o SubSeq(d, m + 1, Len(d))
TakenOut(d, m) == SubSeq(d, 1, m) \o SubSeq(d, m + 2, Len(d))

(* What the first of them makes of the sequence d. *)
HasPut(q, d, m, e) ==
  /\ Len(q) = Len(d) + 1
  /\ \A i \in 1..(Len(d) + 1) : q[i] = IF i <= m THEN d[i] ELSE IF i = m + 1 THEN e ELSE d[i - 1]

LEMMA PutInIs ==
  ASSUME NEW S, NEW d \in Seq(S), NEW e \in S, NEW m, m \in 0..Len(d)
  PROVE  PutIn(d, m, e) \in Seq(S) /\ HasPut(PutIn(d, m, e), d, m, e)
<1>1. PICK a : a = SubSeq(d, 1, m)
  OBVIOUS
<1>2. PICK c : c = SubSeq(d, m + 1, Len(d))
  OBVIOUS
<1>3. /\ a \in Seq(S) /\ Len(a) = m /\ \A i \in 1..m : a[i] = d[i]
      /\ c \in Seq(S) /\ Len(c) = Len(d) - m /\ \A i \in 1..(Len(d) - m) : c[i] = d[m + i]
  BY <1>1, <1>2
<1>4. PICK b : b = a \o <<e>>
  OBVIOUS
<1>5. b \in Seq(S) /\ Len(b) = m + 1 /\ b[m + 1] = e /\ \A i \in 1..m : b[i] = d[i]
  <2>1. <<e>> \in Seq(S) /\ Len(<<e>>) = 1 /\ <<e>>[1] = e
    OBVIOUS
  <2>2. b \in Seq(S) /\ Len(b) = m + 1
    BY <1>3, <1>4, <2>1, ConcatProperties
  <2>3. \A i \in 1..(m + 1) : b[i] = IF i <= m THEN a[i] ELSE <<e>>[i - m]
    BY <1>3, <1>4, <2>1, ConcatProperties
  <2> QED
    BY <1>3, <2>1, <2>2, <2>3
<1>6. PutIn(d, m, e) = b \o c
  BY <1>1, <1>2, <1>4 DEF PutIn
<1>7. (b \o c) \in Seq(S) /\ Len(b \o c) = Len(d) + 1
  <2>1. (b \o c) \in Seq(S) /\ Len(b \o c) = Len(b) + Len(c)
    BY <1>3, <1>5, ConcatProperties
  <2> QED
    BY <1>3, <1>5, <2>1
<1>8. ASSUME NEW i \in 1..(Len(d) + 1)
      PROVE  (b \o c)[i] = IF i <= m THEN d[i] ELSE IF i = m + 1 THEN e ELSE d[i - 1]
  <2>1. CASE i <= m + 1
    BY <1>3, <1>5, <2>1
  <2>2. CASE ~ (i <= m + 1)
    <3>1. (b \o c)[i] = c[i - (m + 1)]
      <4>1. \A n \in 1..(Len(b) + Len(c)) :
              (b \o c)[n] = IF n <= Len(b) THEN b[n] ELSE c[n - Len(b)]
        BY <1>3, <1>5, ConcatProperties
      <4>2. Len(b) = m + 1 /\ i \in 1..(Len(b) + Len(c))
        BY <1>3, <1>5
      <4> QED
        BY <2>2, <4>1, <4>2
    <3>2. i - (m + 1) \in 1..(Len(d) - m) /\ m + (i - (m + 1)) = i - 1
      BY <2>2
    <3> QED
      BY <1>3, <2>2, <3>1, <3>2
  <2> QED
    BY <2>1, <2>2
<1> QED
  BY <1>6, <1>7, <1>8 DEF HasPut

LEMMA TakenOutIs ==
  ASSUME NEW S, NEW d \in Seq(S), NEW m \in 0..(Len(d) - 1)
  PROVE  /\ TakenOut(d, m) \in Seq(S) /\ Len(TakenOut(d, m)) = Len(d) - 1
         /\ \A i \in 1..(Len(d) - 1) : TakenOut(d, m)[i] = IF i <= m THEN d[i] ELSE d[i + 1]
<1>1. PICK a : a = SubSeq(d, 1, m)
  OBVIOUS
<1>2. PICK c : c = SubSeq(d, m + 2, Len(d))
  OBVIOUS
<1>3. /\ a \in Seq(S) /\ Len(a) = m /\ \A i \in 1..m : a[i] = d[i]
      /\ c \in Seq(S) /\ Len(c) = Len(d) - m - 1
      /\ \A i \in 1..(Len(d) - m - 1) : c[i] = d[m + 1 + i]
  BY <1>1, <1>2
<1>4. TakenOut(d, m) = a \o c
  BY <1>1, <1>2 DEF TakenOut
<1>5. (a \o c) \in Seq(S) /\ Len(a \o c) = Len(d) - 1
  BY <1>3, ConcatProperties
<1>6. ASSUME NEW i \in 1..(Len(d) - 1) PROVE (a \o c)[i] = IF i <= m THEN d[i] ELSE d[i + 1]
  <2>1. CASE i <= m
    BY <1>3, <2>1
  <2>2. CASE ~ (i <= m)
    <3>1. (a \o c)[i] = c[i - m]
      BY <1>3, <2>2
    <3>2. i - m \in 1..(Len(d) - m - 1) /\ m + 1 + (i - m) = i + 1
      BY <2>2
    <3> QED
      BY <1>3, <2>2, <3>1, <3>2
  <2> QED
    BY <2>1, <2>2
<1> QED
  BY <1>4, <1>5, <1>6
-----------------------------------------------------------------------------
(* Arrays with one entry per key.                                            *)
KeysIn(d) == {d[i].key : i \in 1..Len(d)}

LEMMA FoundOrNot ==
  ASSUME NEW d, NEW K \in SUBSET Int, NEW V, Entries(d, K, V), Rising(d),
         NEW k \in Int, NEW m, Lower(d, k, m)
  PROVE  /\ k \in KeysIn(d) <=> m < Len(d) /\ ~ (k < d[m + 1].key)
         /\ m \in 0..Len(d) /\ (m < Len(d) /\ ~ (k < d[m + 1].key) => d[m + 1].key = k)
<1>1. Len(d) \in Nat /\ \A i \in 1..Len(d) : d[i].key \in Int
  BY EntriesAre
<1>2. m \in 0..Len(d) /\ \A i \in 1..Len(d) : d[i].key < k <=> i <= m
  BY DEF Lower
<1>3. ASSUME m < Len(d), ~ (k < d[m + 1].key) PROVE d[m + 1].key = k /\ k \in KeysIn(d)
  <2>1. m + 1 \in 1..Len(d) /\ ~ (m + 1 <= m)
    BY <1>1, <1>2, <1>3
  <2>2. d[m + 1].key = k
    BY <1>1, <1>2, <1>3, <2>1
  <2> QED
    BY <2>1, <2>2 DEF KeysIn
<1>4. ASSUME k \in KeysIn(d) PROVE m < Len(d) /\ ~ (k < d[m + 1].key)
  <2>1. PICK i \in 1..Len(d) : d[i].key = k
    BY <1>4 DEF KeysIn
  <2>2. ~ (i <= m)
    BY <1>1, <1>2, <2>1
  <2>3. m + 1 \in 1..Len(d) /\ (m + 1 = i \/ m + 1 < i)
    BY <1>1, <1>2, <2>2
  <2>4. CASE m + 1 = i
    BY <1>1, <1>2, <2>1, <2>4
  <2>5. CASE m + 1 < i
    <3>1. d[m + 1].key < d[i].key
      BY <2>3, <2>5 DEF Rising
    <3> QED
      BY <1>1, <1>2, <2>1, <2>3, <3>1
  <2> QED
    BY <2>3, <2>4, <2>5
<1> QED
  BY <1>2, <1>3, <1>4

LEMMA PutRises ==
  ASSUME NEW d, NEW K \in SUBSET Int, NEW V, Entries(d, K, V), Rising(d),
         NEW k \in K, NEW v \in V, NEW m, Lower(d, k, m), k \notin KeysIn(d)
  PROVE  Entries(PutIn(d, m, [key |-> k, val |-> v]), K, V)
         /\ Rising(PutIn(d, m, [key |-> k, val |-> v]))
<1>1. PICK e : e = [key |-> k, val |-> v]
  OBVIOUS
<1>2. PICK q : q = PutIn(d, m, e)
  OBVIOUS
<1>3. Len(d) \in Nat /\ \A i \in 1..Len(d) : d[i].key \in Int
  BY EntriesAre
<1>4. m \in 0..Len(d) /\ \A i \in 1..Len(d) : d[i].key < k <=> i <= m
  BY DEF Lower
<1>5. d \in Seq([key : K, val : V]) /\ e \in [key : K, val : V] /\ e.key = k
  BY <1>1 DEF Entries
<1>6. /\ q \in Seq([key : K, val : V]) /\ Len(q) = Len(d) + 1
      /\ \A i \in 1..(Len(d) + 1) :
           q[i] = IF i <= m THEN d[i] ELSE IF i = m + 1 THEN e ELSE d[i - 1]
  <2>1. m \in 0..Len(d)
    BY <1>4
  <2>2. q \in Seq([key : K, val : V]) /\ HasPut(q, d, m, e)
    BY <1>2, <1>5, <2>1, PutInIs, Zenon
  <2> QED
    BY <2>2 DEF HasPut
<1>7. ASSUME NEW i \in 1..Len(d), ~ (i <= m) PROVE k < d[i].key
  <2>1. ~ (d[i].key < k) /\ d[i].key # k /\ d[i].key \in Int /\ k \in Int
    BY <1>3, <1>4, <1>7 DEF KeysIn
  <2> QED
    BY <2>1
<1>8. ASSUME NEW i \in 1..Len(q), NEW j \in 1..Len(q), i < j PROVE q[i].key < q[j].key
  <2>1. q[i] = IF i <= m THEN d[i] ELSE IF i = m + 1 THEN e ELSE d[i - 1]
    BY <1>6
  <2>2. q[j] = IF j <= m THEN d[j] ELSE IF j = m + 1 THEN e ELSE d[j - 1]
    BY <1>6
  <2>3. CASE j <= m
    BY <1>3, <1>4, <1>8, <2>1, <2>2, <2>3 DEF Rising
  <2>4. CASE j = m + 1
    <3>1. i \in 1..Len(d) /\ i <= m
      BY <1>4, <1>8, <2>4
    <3> QED
      BY <1>4, <1>5, <2>1, <2>2, <2>4, <3>1
  <2>5. CASE ~ (j <= m + 1)
    <3>1. j - 1 \in 1..Len(d) /\ ~ (j - 1 <= m) /\ q[j] = d[j - 1]
      BY <1>3, <1>4, <1>6, <2>2, <2>5
    <3>2. CASE i <= m
      <4>1. i \in 1..Len(d) /\ i < j - 1 /\ q[i] = d[i]
        BY <1>3, <1>4, <1>6, <2>1, <2>5, <3>2
      <4> QED
        BY <3>1, <4>1 DEF Rising
    <3>3. CASE i = m + 1
      BY <1>4, <1>5, <1>7, <2>1, <3>1, <3>3
    <3>4. CASE ~ (i <= m + 1)
      <4>1. i - 1 \in 1..Len(d) /\ i - 1 < j - 1 /\ q[i] = d[i - 1]
        BY <1>3, <1>4, <1>6, <1>8, <2>1, <3>4
      <4> QED
        BY <3>1, <4>1 DEF Rising
    <3> QED
      BY <1>4, <3>2, <3>3, <3>4
  <2> QED
    BY <1>4, <2>3, <2>4, <2>5
<1> QED
  BY <1>1, <1>2, <1>6, <1>8 DEF Entries, Rising

LEMMA TakingRises ==
  ASSUME NEW d, NEW K \in SUBSET Int, NEW V, Entries(d, K, V), Rising(d),
         NEW m \in 0..(Len(d) - 1)
  PROVE  Entries(TakenOut(d, m), K, V) /\ Rising(TakenOut(d, m))
<1>1. PICK q : q = TakenOut(d, m)
  OBVIOUS
<1>2. Len(d) \in Nat /\ d \in Seq([key : K, val : V])
  BY EntriesAre DEF Entries
<1>3. /\ q \in Seq([key : K, val : V]) /\ Len(q) = Len(d) - 1
      /\ \A i \in 1..(Len(d) - 1) : q[i] = IF i <= m THEN d[i] ELSE d[i + 1]
  BY <1>1, <1>2, TakenOutIs
<1>4. ASSUME NEW i \in 1..Len(q), NEW j \in 1..Len(q), i < j PROVE q[i].key < q[j].key
  <2>1. PICK a \in 1..Len(d) : a = IF i <= m THEN i ELSE i + 1
    BY <1>2, <1>3
  <2>2. PICK b \in 1..Len(d) : b = IF j <= m THEN j ELSE j + 1
    BY <1>2, <1>3
  <2>3. a < b /\ q[i] = d[a] /\ q[j] = d[b]
    BY <1>3, <1>4, <2>1, <2>2
  <2> QED
    BY <2>3 DEF Rising
<1> QED
  BY <1>1, <1>3, <1>4 DEF Entries, Rising

Written(d, i, v) == [d EXCEPT ![i].val = v]

LEMMA AssignRises ==
  ASSUME NEW d, NEW K \in SUBSET Int, NEW V, Entries(d, K, V), Rising(d),
         NEW i \in 1..Len(d), NEW v \in V
  PROVE  /\ Entries(Written(d, i, v), K, V) /\ Rising(Written(d, i, v))
         /\ Len(Written(d, i, v)) = Len(d)
         /\ \A j \in 1..Len(d) : /\ Written(d, i, v)[j].key = d[j].key
                                 /\ (j # i => Written(d, i, v)[j].val = d[j].val)
         /\ Written(d, i, v)[i].val = v
<1>0. PICK q : q = Written(d, i, v)
  OBVIOUS
<1>1. PICK E : E = [key : K, val : V]
  OBVIOUS
<1>2. /\ Len(d) \in Nat /\ DOMAIN d = 1..Len(d) /\ d \in Seq(E)
      /\ \A j \in 1..Len(d) : d[j] \in E
  BY <1>1, EntriesAre DEF Entries
<1>3. \A j \in 1..Len(d) : d[j] = [key |-> d[j].key, val |-> d[j].val]
                           /\ d[j].key \in K /\ d[j].val \in V
  BY <1>1, <1>2
<1>4. \A j \in 1..Len(d) : q[j] = [key |-> d[j].key, val |-> IF j = i THEN v ELSE d[j].val]
  BY <1>0, <1>2, <1>3 DEF Written
<1>5. \A j \in 1..Len(d) : q[j] \in E /\ q[j].key = d[j].key
  <2>1. ASSUME NEW j \in 1..Len(d) PROVE q[j] \in E /\ q[j].key = d[j].key
    <3>1. PICK w : w = IF j = i THEN v ELSE d[j].val
      OBVIOUS
    <3>2. q[j] = [key |-> d[j].key, val |-> w] /\ w \in V /\ d[j].key \in K
      BY <1>3, <1>4, <3>1
    <3> QED
      BY <1>1, <3>2
  <2> QED
    BY <2>1
<1>6. q = [j \in 1..Len(d) |-> q[j]]
  BY <1>0, <1>2 DEF Written
<1>7. q \in Seq(E) /\ Len(q) = Len(d)
  BY <1>2, <1>5, <1>6
<1>8. \A j, l \in 1..Len(d) : j < l => q[j].key < q[l].key
  BY <1>5 DEF Rising
<1>9. ASSUME NEW j \in 1..Len(d)
      PROVE  q[j].key = d[j].key /\ q[j].val = IF j = i THEN v ELSE d[j].val
  <2>1. PICK w : w = IF j = i THEN v ELSE d[j].val
    OBVIOUS
  <2>2. q[j] = [key |-> d[j].key, val |-> w]
    BY <1>4, <2>1
  <2> QED
    BY <2>1, <2>2
<1>10. Entries(q, K, V) /\ Rising(q) /\ Len(q) = Len(d)
  BY <1>1, <1>7, <1>8 DEF Entries, Rising
<1> QED
  BY <1>0, <1>9, <1>10

(* The function an array spells out.                                         *)
Spells(f, d) == /\ f = [k \in KeysIn(d) |-> f[k]]
                /\ \A i \in 1..Len(d) : f[d[i].key] = d[i].val

LEMMA SpellsSame == ASSUME NEW d, NEW f, NEW h, Spells(f, d), Spells(h, d) PROVE f = h
<1>1. ASSUME NEW k \in KeysIn(d) PROVE f[k] = h[k]
  <2>1. PICK i \in 1..Len(d) : d[i].key = k
    BY DEF KeysIn
  <2> QED
    BY <2>1 DEF Spells
<1>2. [k \in KeysIn(d) |-> f[k]] = [k \in KeysIn(d) |-> h[k]]
  BY <1>1
<1> QED
  BY <1>2 DEF Spells

ValueIn(d, k) == d[CHOOSE i \in DOMAIN d : d[i].key = k].val
Spelled(d) == [k \in {d[i].key : i \in DOMAIN d} |-> ValueIn(d, k)]

LEMMA SpelledSpells ==
  ASSUME NEW d, NEW K \in SUBSET Int, NEW V, Entries(d, K, V), Rising(d)
  PROVE  Spells(Spelled(d), d)
<1>1. Len(d) \in Nat /\ DOMAIN d = 1..Len(d) /\ \A i \in 1..Len(d) : d[i].key \in Int
  BY EntriesAre
<1>2. ASSUME NEW i \in 1..Len(d) PROVE ValueIn(d, d[i].key) = d[i].val
  <2>1. PICK c : c = CHOOSE j \in DOMAIN d : d[j].key = d[i].key
    OBVIOUS
  <2>2. c \in DOMAIN d /\ d[c].key = d[i].key
    BY <1>1, <2>1
  <2>3. c = i
    BY <1>1, <2>2 DEF Rising
  <2> QED
    BY <2>1, <2>3 DEF ValueIn
<1>3. {d[i].key : i \in DOMAIN d} = KeysIn(d)
  BY <1>1 DEF KeysIn
<1>4. Spelled(d) = [k \in KeysIn(d) |-> ValueIn(d, k)]
  BY <1>3 DEF Spelled
<1>5. PICK f : f = Spelled(d)
  OBVIOUS
<1>6. f = [k \in KeysIn(d) |-> f[k]] /\ \A k \in KeysIn(d) : f[k] = ValueIn(d, k)
  BY <1>4, <1>5
<1>7. ASSUME NEW i \in 1..Len(d) PROVE f[d[i].key] = d[i].val
  BY <1>2, <1>6 DEF KeysIn
<1> QED
  BY <1>5, <1>6, <1>7 DEF Spells

WithOf(f, k, v) == [j \in DOMAIN f \cup {k} |-> IF j = k THEN v ELSE f[j]]
WithoutOf(f, k) == [j \in DOMAIN f \ {k} |-> f[j]]

(* What a call may do to such an array: put in an entry of a new key, write  *)
(* the value of a key that is there, take an entry out.                      *)
Puts(d, q, k, v) ==
  k \notin KeysIn(d) /\ \E m : Lower(d, k, m) /\ q = PutIn(d, m, [key |-> k, val |-> v])
Assigns(d, q, k, v) == \E i \in 1..Len(d) : d[i].key = k /\ q = Written(d, i, v)
Takes(d, q, k) == \E m \in 0..(Len(d) - 1) : d[m + 1].key = k /\ q = TakenOut(d, m)

LEMMA PutsSpells ==
  ASSUME NEW d, NEW K \in SUBSET Int, NEW V, Entries(d, K, V), Rising(d),
         NEW k \in K, NEW v \in V, NEW q, Puts(d, q, k, v)
  PROVE  Entries(q, K, V) /\ Rising(q) /\ Spelled(q) = WithOf(Spelled(d), k, v)
<1>1. PICK e : e = [key |-> k, val |-> v]
  OBVIOUS
<1>2. PICK m : Lower(d, k, m) /\ q = PutIn(d, m, e)
  BY <1>1 DEF Puts
<1>3. k \notin KeysIn(d) /\ m \in 0..Len(d)
  BY <1>2 DEF Puts, Lower
<1>4. Entries(q, K, V) /\ Rising(q)
  BY <1>1, <1>2, <1>3, PutRises
<1>5. Len(d) \in Nat /\ \A i \in 1..Len(d) : d[i].key \in Int
  BY EntriesAre
<1>6. PICK E : E = [key : K, val : V]
  OBVIOUS
<1>7. d \in Seq(E) /\ e \in E /\ e.key = k /\ e.val = v
  BY <1>1, <1>6 DEF Entries
<1>8. /\ Len(PutIn(d, m, e)) = Len(d) + 1
      /\ \A i \in 1..(Len(d) + 1) :
           PutIn(d, m, e)[i] = IF i <= m THEN d[i] ELSE IF i = m + 1 THEN e ELSE d[i - 1]
  <2>1. HasPut(PutIn(d, m, e), d, m, e)
    BY <1>3, <1>7, PutInIs, Zenon
  <2> QED
    BY <2>1 DEF HasPut
<1>9. PICK f : f = Spelled(d)
  OBVIOUS
<1>10. PICK h : h = WithOf(f, k, v)
  OBVIOUS
<1>11. Spells(f, d)
  BY <1>9, SpelledSpells
<1>12. KeysIn(q) = KeysIn(d) \cup {k}
  <2>1. ASSUME NEW i \in 1..Len(q) PROVE q[i].key \in KeysIn(d) \cup {k}
    <3>1. CASE i <= m
      <4>1. i \in 1..Len(d) /\ q[i] = d[i]
        BY <1>2, <1>3, <1>5, <1>8, <3>1
      <4> QED
        BY <4>1 DEF KeysIn
    <3>2. CASE i = m + 1
      BY <1>2, <1>3, <1>7, <1>8, <3>2
    <3>3. CASE ~ (i <= m + 1)
      <4>1. i - 1 \in 1..Len(d) /\ q[i] = d[i - 1]
        BY <1>2, <1>3, <1>5, <1>8, <3>3
      <4> QED
        BY <4>1 DEF KeysIn
    <3> QED
      BY <1>3, <3>1, <3>2, <3>3
  <2>2. k \in KeysIn(q)
    <3>1. m + 1 \in 1..Len(q) /\ q[m + 1] = e
      BY <1>2, <1>3, <1>5, <1>8
    <3> QED
      BY <1>7, <3>1 DEF KeysIn
  <2>3. ASSUME NEW i \in 1..Len(d) PROVE d[i].key \in KeysIn(q)
    <3>1. PICK j \in 1..Len(q) : q[j] = d[i]
      <4>1. CASE i <= m
        <5>1. i \in 1..Len(q) /\ q[i] = d[i]
          BY <1>2, <1>3, <1>5, <1>8, <4>1
        <5> QED
          BY <5>1
      <4>2. CASE ~ (i <= m)
        <5>1. i + 1 \in 1..Len(q) /\ q[i + 1] = d[i]
          BY <1>2, <1>3, <1>5, <1>8, <4>2
        <5> QED
          BY <5>1
      <4> QED
        BY <4>1, <4>2
    <3> QED
      BY <3>1 DEF KeysIn
  <2>4. KeysIn(q) \subseteq KeysIn(d) \cup {k}
    BY <2>1 DEF KeysIn
  <2>5. KeysIn(d) \subseteq KeysIn(q)
    BY <2>3 DEF KeysIn
  <2> QED
    BY <2>2, <2>4, <2>5
<1>13. DOMAIN f = KeysIn(d) /\ \A i \in 1..Len(d) : f[d[i].key] = d[i].val
  BY <1>11 DEF Spells
<1>14. h = [j \in KeysIn(q) |-> h[j]] /\ \A j \in KeysIn(q) : h[j] = IF j = k THEN v ELSE f[j]
  BY <1>10, <1>12, <1>13 DEF WithOf
<1>15. ASSUME NEW i \in 1..Len(q) PROVE h[q[i].key] = q[i].val
  <2>1. ASSUME NEW a \in 1..Len(d), q[i] = d[a] PROVE h[q[i].key] = q[i].val
    <3>1. d[a].key \in KeysIn(d) /\ d[a].key # k
      BY <1>3 DEF KeysIn
    <3> QED
      BY <1>12, <1>13, <1>14, <2>1, <3>1
  <2>2. CASE i <= m
    <3>1. i \in 1..Len(d) /\ q[i] = d[i]
      BY <1>2, <1>3, <1>5, <1>8, <2>2
    <3> QED
      BY <2>1, <3>1
  <2>3. CASE i = m + 1
    <3>1. q[i] = e
      BY <1>2, <1>3, <1>8, <2>3
    <3> QED
      BY <1>7, <1>12, <1>14, <3>1
  <2>4. CASE ~ (i <= m + 1)
    <3>1. i - 1 \in 1..Len(d) /\ q[i] = d[i - 1]
      BY <1>2, <1>3, <1>5, <1>8, <2>4
    <3> QED
      BY <2>1, <3>1
  <2> QED
    BY <1>3, <2>2, <2>3, <2>4
<1>16. Spells(h, q)
  BY <1>14, <1>15 DEF Spells
<1>17. Spells(Spelled(q), q)
  BY <1>4, SpelledSpells
<1>18. Spelled(q) = h
  BY <1>16, <1>17, SpellsSame
<1> QED
  BY <1>4, <1>9, <1>10, <1>18

LEMMA AssignsSpells ==
  ASSUME NEW d, NEW K \in SUBSET Int, NEW V, Entries(d, K, V), Rising(d),
         NEW k \in K, NEW v \in V, NEW q, Assigns(d, q, k, v)
  PROVE  Entries(q, K, V) /\ Rising(q) /\ Spelled(q) = WithOf(Spelled(d), k, v)
<1>1. PICK i \in 1..Len(d) : d[i].key = k /\ q = Written(d, i, v)
  BY DEF Assigns
<1>2. /\ Entries(q, K, V) /\ Rising(q) /\ Len(q) = Len(d)
      /\ \A j \in 1..Len(d) : q[j].key = d[j].key /\ (j # i => q[j].val = d[j].val)
      /\ q[i].val = v
  <2>1. q = Written(d, i, v)
    BY <1>1
  <2> QED
    BY <2>1, AssignRises
<1>3. \A j \in 1..Len(d) : q[j].key = d[j].key /\ q[j].val = IF j = i THEN v ELSE d[j].val
  BY <1>2
<1>4. KeysIn(q) = KeysIn(d) /\ k \in KeysIn(d)
  BY <1>1, <1>2, <1>3 DEF KeysIn
<1>5. PICK f : f = Spelled(d)
  OBVIOUS
<1>6. PICK h : h = WithOf(f, k, v)
  OBVIOUS
<1>7. Spells(f, d)
  BY <1>5, SpelledSpells
<1>8. DOMAIN f = KeysIn(d) /\ \A j \in 1..Len(d) : f[d[j].key] = d[j].val
  BY <1>7 DEF Spells
<1>9. h = [j \in KeysIn(q) |-> h[j]] /\ \A j \in KeysIn(q) : h[j] = IF j = k THEN v ELSE f[j]
  BY <1>4, <1>6, <1>8 DEF WithOf
<1>10. ASSUME NEW j \in 1..Len(q) PROVE h[q[j].key] = q[j].val
  <2>1. q[j].key \in KeysIn(q)
    BY DEF KeysIn
  <2>2. CASE j = i
    <3>1. q[j].key = k /\ q[j].val = v
      BY <1>1, <1>3, <2>2
    <3> QED
      BY <1>9, <2>1, <3>1
  <2>3. CASE j # i
    <3>1. d[j].key # d[i].key
      <4>1. \A a \in 1..Len(d) : d[a].key \in Int
        BY EntriesAre
      <4>2. Len(d) \in Nat /\ (i < j \/ j < i)
        BY <1>2, <2>3, EntriesAre
      <4> QED
        BY <1>2, <4>1, <4>2 DEF Rising
    <3> QED
      <4>1. j \in 1..Len(d)
        BY <1>2
      <4>2. q[j].key = d[j].key /\ q[j].val = d[j].val
        BY <1>3, <2>3, <4>1
      <4>3. f[d[j].key] = d[j].val
        BY <1>8, <4>1
      <4> QED
        BY <1>1, <1>9, <2>1, <3>1, <4>2, <4>3
  <2> QED
    BY <2>2, <2>3
<1>11. Spells(h, q)
  BY <1>9, <1>10 DEF Spells
<1>12. Spells(Spelled(q), q)
  BY <1>2, SpelledSpells
<1>13. Spelled(q) = h
  BY <1>11, <1>12, SpellsSame
<1> QED
  BY <1>2, <1>5, <1>6, <1>13

LEMMA TakesSpells ==
  ASSUME NEW d, NEW K \in SUBSET Int, NEW V, Entries(d, K, V), Rising(d),
         NEW k \in K, NEW q, Takes(d, q, k)
  PROVE  Entries(q, K, V) /\ Rising(q) /\ Spelled(q) = WithoutOf(Spelled(d), k)
<1>1. PICK m \in 0..(Len(d) - 1) : d[m + 1].key = k /\ q = TakenOut(d, m)
  BY DEF Takes
<1>2. Entries(q, K, V) /\ Rising(q)
  BY <1>1, TakingRises
<1>3. Len(d) \in Nat /\ \A i \in 1..Len(d) : d[i].key \in Int
  BY EntriesAre
<1>4. PICK E : E = [key : K, val : V]
  OBVIOUS
<1>5. d \in Seq(E)
  BY <1>4 DEF Entries
<1>6. /\ Len(TakenOut(d, m)) = Len(d) - 1
      /\ \A i \in 1..(Len(d) - 1) : TakenOut(d, m)[i] = IF i <= m THEN d[i] ELSE d[i + 1]
  BY <1>5, TakenOutIs
<1>7. ASSUME NEW i \in 1..Len(q) PROVE \E a \in 1..Len(d) : a # m + 1 /\ q[i] = d[a]
  <2>1. CASE i <= m
    <3>1. i \in 1..Len(d) /\ i # m + 1 /\ q[i] = d[i]
      BY <1>1, <1>3, <1>6, <2>1
    <3> QED
      BY <3>1
  <2>2. CASE ~ (i <= m)
    <3>1. i + 1 \in 1..Len(d) /\ i + 1 # m + 1 /\ q[i] = d[i + 1]
      BY <1>1, <1>3, <1>6, <2>2
    <3> QED
      BY <3>1
  <2> QED
    BY <2>1, <2>2
<1>8. ASSUME NEW a \in 1..Len(d), a # m + 1 PROVE \E i \in 1..Len(q) : q[i] = d[a]
  <2>1. CASE a <= m
    <3>1. a \in 1..(Len(d) - 1)
      BY <1>3, <2>1
    <3>2. a \in 1..Len(q) /\ q[a] = d[a]
      BY <1>1, <1>6, <2>1, <3>1
    <3> QED
      BY <3>2
  <2>2. CASE ~ (a <= m)
    <3>1. a - 1 \in 1..Len(q) /\ q[a - 1] = d[a]
      BY <1>1, <1>3, <1>6, <1>8, <2>2
    <3> QED
      BY <3>1
  <2> QED
    BY <2>1, <2>2
<1>9. ASSUME NEW a \in 1..Len(d) PROVE d[a].key = k <=> a = m + 1
  <2>1. m + 1 \in 1..Len(d) /\ (a < m + 1 \/ a = m + 1 \/ m + 1 < a)
    BY <1>3
  <2> QED
    BY <1>1, <1>3, <2>1 DEF Rising
<1>10. KeysIn(q) = KeysIn(d) \ {k}
  <2>1. KeysIn(q) \subseteq KeysIn(d) \ {k}
    BY <1>7, <1>9 DEF KeysIn
  <2>2. KeysIn(d) \ {k} \subseteq KeysIn(q)
    BY <1>8, <1>9 DEF KeysIn
  <2> QED
    BY <2>1, <2>2
<1>11. PICK f : f = Spelled(d)
  OBVIOUS
<1>12. PICK h : h = WithoutOf(f, k)
  OBVIOUS
<1>13. Spells(f, d)
  BY <1>11, SpelledSpells
<1>14. DOMAIN f = KeysIn(d) /\ \A j \in 1..Len(d) : f[d[j].key] = d[j].val
  BY <1>13 DEF Spells
<1>15. h = [j \in KeysIn(q) |-> h[j]] /\ \A j \in KeysIn(q) : h[j] = f[j]
  BY <1>10, <1>12, <1>14 DEF WithoutOf
<1>16. ASSUME NEW i \in 1..Len(q) PROVE h[q[i].key] = q[i].val
  <2>1. PICK a \in 1..Len(d) : q[i] = d[a]
    BY <1>7
  <2>2. q[i].key \in KeysIn(q)
    BY DEF KeysIn
  <2> QED
    BY <1>14, <1>15, <2>1, <2>2
<1>17. Spells(h, q)
  BY <1>15, <1>16 DEF Spells
<1>18. Spells(Spelled(q), q)
  BY <1>2, SpelledSpells
<1>19. Spelled(q) = h
  BY <1>17, <1>18, SpellsSame
<1> QED
  BY <1>2, <1>11, <1>12, <1>19
-----------------------------------------------------------------------------
(* map and set.                                                              *)
MapInv == Entries(data, UniqueKeys, Mapped) /\ Rising(data)
SetInv == Entries(members, UniqueKeys, {NoValue}) /\ Rising(members)

LEMMA KeysAreInts == UniqueKeys \in SUBSET Int /\ DefaultMapped \in Mapped
BY SortedAssumption DEF FM!FlatMapAssumption

LEMMA MapLooks ==
  ASSUME MapInv, NEW k \in UniqueKeys
  PROVE  \E m : /\ Lower(data, k, m) /\ FM!LowerBound(k) = m
                /\ FM!Has(k) <=> k \in KeysIn(data)
                /\ FM!Has(k) => m \in 0..(Len(data) - 1) /\ data[m + 1].key = k
<1>1. k \in Int /\ UniqueKeys \in SUBSET Int
  BY KeysAreInts
<1>2. Entries(data, UniqueKeys, Mapped) /\ Rising(data) /\ Climbing(data)
  BY <1>1, RisingClimbs DEF MapInv
<1>3. PICK m : Lower(data, k, m)
  BY <1>1, <1>2, BoundsExist
<1>4. FM!LowerBound(k) = m
  <2>1. PICK before : before = {i \in 0..(Len(data) - 1) : data[i + 1].key < k}
    OBVIOUS
  <2>2. SearchOf(Len(data), before) = m
    BY <1>1, <1>2, <1>3, <2>1, LowerFound
  <2>3. FM!FirstNot(Len(data), before) = m
    BY <2>2, SameSearch
  <2> QED
    BY <2>1, <2>3 DEF FM!LowerBound, FM!Slots
<1>5. /\ k \in KeysIn(data) <=> m < Len(data) /\ ~ (k < data[m + 1].key)
      /\ m \in 0..Len(data) /\ (m < Len(data) /\ ~ (k < data[m + 1].key) => data[m + 1].key = k)
  BY <1>1, <1>2, <1>3, FoundOrNot
<1>6. FM!Has(k) <=> m < Len(data) /\ ~ (k < data[m + 1].key)
  BY <1>4 DEF FM!Has
<1>7. Len(data) \in Nat
  BY <1>1, <1>2, EntriesAre
<1> QED
  BY <1>3, <1>4, <1>5, <1>6, <1>7

LEMMA SetLooks ==
  ASSUME SetInv, NEW k \in UniqueKeys
  PROVE  \E m : /\ Lower(members, k, m) /\ FS!Flat!LowerBound(k) = m
                /\ FS!Flat!Has(k) <=> k \in KeysIn(members)
                /\ FS!Flat!Has(k) => m \in 0..(Len(members) - 1) /\ members[m + 1].key = k
<1>1. k \in Int /\ UniqueKeys \in SUBSET Int
  BY KeysAreInts
<1>2. Entries(members, UniqueKeys, {NoValue}) /\ Rising(members) /\ Climbing(members)
  BY <1>1, RisingClimbs DEF SetInv
<1>3. PICK m : Lower(members, k, m)
  BY <1>1, <1>2, BoundsExist
<1>4. FS!Flat!LowerBound(k) = m
  <2>1. PICK before : before = {i \in 0..(Len(members) - 1) : members[i + 1].key < k}
    OBVIOUS
  <2>2. SearchOf(Len(members), before) = m
    BY <1>1, <1>2, <1>3, <2>1, LowerFound
  <2>3. FS!Flat!FirstNot(Len(members), before) = m
    BY <2>2, SameSearch
  <2> QED
    BY <2>1, <2>3 DEF FS!Flat!LowerBound, FS!Flat!Slots
<1>5. /\ k \in KeysIn(members) <=> m < Len(members) /\ ~ (k < members[m + 1].key)
      /\ m \in 0..Len(members)
      /\ (m < Len(members) /\ ~ (k < members[m + 1].key) => members[m + 1].key = k)
  BY <1>1, <1>2, <1>3, FoundOrNot
<1>6. FS!Flat!Has(k) <=> m < Len(members) /\ ~ (k < members[m + 1].key)
  BY <1>4 DEF FS!Flat!Has
<1>7. Len(members) \in Nat
  BY <1>1, <1>2, EntriesAre
<1> QED
  BY <1>3, <1>4, <1>5, <1>6, <1>7

LEMMA MapPuts ==
  ASSUME MapInv, NEW k \in UniqueKeys, NEW v \in Mapped, FM!PutNew(k, v)
  PROVE  Puts(data, data', k, v)
<1>1. PICK m : /\ Lower(data, k, m) /\ FM!LowerBound(k) = m
               /\ FM!Has(k) <=> k \in KeysIn(data)
  BY MapLooks
<1>2. PICK e : e = [key |-> k, val |-> v]
  OBVIOUS
<1>3. ~ FM!Has(k) /\ data' = FM!InsertAt(data, m + 1, e)
  BY <1>1, <1>2 DEF FM!PutNew, FM!Entry
<1>4. m \in Nat /\ (m + 1) - 1 = m
  BY <1>1 DEF Lower
<1>5. FM!InsertAt(data, m + 1, e) = PutIn(data, m, e)
  BY <1>4 DEF FM!InsertAt, PutIn
<1> QED
  BY <1>1, <1>2, <1>3, <1>5 DEF Puts

LEMMA SetPuts ==
  ASSUME SetInv, NEW k \in UniqueKeys, FS!Flat!PutNew(k, NoValue)
  PROVE  Puts(members, members', k, NoValue)
<1>1. PICK m : /\ Lower(members, k, m) /\ FS!Flat!LowerBound(k) = m
               /\ FS!Flat!Has(k) <=> k \in KeysIn(members)
  BY SetLooks
<1>2. PICK e : e = [key |-> k, val |-> NoValue]
  OBVIOUS
<1>3. ~ FS!Flat!Has(k) /\ members' = FS!Flat!InsertAt(members, m + 1, e)
  BY <1>1, <1>2 DEF FS!Flat!PutNew, FS!Flat!Entry
<1>4. m \in Nat /\ (m + 1) - 1 = m
  BY <1>1 DEF Lower
<1>5. FS!Flat!InsertAt(members, m + 1, e) = PutIn(members, m, e)
  BY <1>4 DEF FS!Flat!InsertAt, PutIn
<1> QED
  BY <1>1, <1>2, <1>3, <1>5 DEF Puts

LEMMA MapAssigns ==
  ASSUME MapInv, NEW k \in UniqueKeys, NEW v \in Mapped, FM!AssignAt(k, v)
  PROVE  Assigns(data, data', k, v)
<1>1. PICK m : /\ FM!LowerBound(k) = m
               /\ FM!Has(k) => m \in 0..(Len(data) - 1) /\ data[m + 1].key = k
  BY MapLooks
<1>2. data' = Written(data, m + 1, v) /\ m \in 0..(Len(data) - 1) /\ data[m + 1].key = k
  BY <1>1 DEF FM!AssignAt, Written
<1>3. m + 1 \in 1..Len(data)
  BY <1>2, EntriesAre, KeysAreInts DEF MapInv
<1> QED
  BY <1>2, <1>3 DEF Assigns

LEMMA MapTakes ==
  ASSUME MapInv, NEW k \in UniqueKeys, FM!Erase(k)
  PROVE  Takes(data, data', k)
<1>1. PICK m : /\ FM!LowerBound(k) = m
               /\ FM!Has(k) => m \in 0..(Len(data) - 1) /\ data[m + 1].key = k
  BY MapLooks
<1>2. data' = FM!RemoveAt(data, m + 1) /\ m \in 0..(Len(data) - 1) /\ data[m + 1].key = k
  BY <1>1 DEF FM!Erase
<1>3. (m + 1) - 1 = m /\ (m + 1) + 1 = m + 2
  BY <1>2
<1>4. FM!RemoveAt(data, m + 1) = TakenOut(data, m)
  BY <1>3 DEF FM!RemoveAt, TakenOut
<1> QED
  BY <1>2, <1>4 DEF Takes

LEMMA SetTakes ==
  ASSUME SetInv, NEW k \in UniqueKeys, FS!Flat!Erase(k)
  PROVE  Takes(members, members', k)
<1>1. PICK m : /\ FS!Flat!LowerBound(k) = m
               /\ FS!Flat!Has(k) => m \in 0..(Len(members) - 1) /\ members[m + 1].key = k
  BY SetLooks
<1>2. /\ members' = FS!Flat!RemoveAt(members, m + 1)
      /\ m \in 0..(Len(members) - 1) /\ members[m + 1].key = k
  BY <1>1 DEF FS!Flat!Erase
<1>3. (m + 1) - 1 = m /\ (m + 1) + 1 = m + 2
  BY <1>2
<1>4. FS!Flat!RemoveAt(members, m + 1) = TakenOut(members, m)
  BY <1>3 DEF FS!Flat!RemoveAt, TakenOut
<1> QED
  BY <1>2, <1>4 DEF Takes

LEMMA SpelledKeys ==
  ASSUME NEW d, NEW K \in SUBSET Int, NEW V, Entries(d, K, V)
  PROVE  DOMAIN Spelled(d) = KeysIn(d)
BY EntriesAre DEF Spelled, KeysIn

LEMMA MapPutNew ==
  ASSUME MapInv, NEW k \in UniqueKeys, NEW v \in Mapped, FM!PutNew(k, v)
  PROVE  /\ MapInv' /\ k \notin DOMAIN Spelled(data)
         /\ Spelled(data)' = WithOf(Spelled(data), k, v)
<1>1. UniqueKeys \in SUBSET Int /\ Entries(data, UniqueKeys, Mapped) /\ Rising(data)
  BY KeysAreInts DEF MapInv
<1>2. PICK q : q = data'
  OBVIOUS
<1>3. Puts(data, q, k, v)
  BY <1>2, MapPuts
<1>4. Entries(q, UniqueKeys, Mapped) /\ Rising(q) /\ Spelled(q) = WithOf(Spelled(data), k, v)
  BY <1>1, <1>3, PutsSpells
<1>5. k \notin DOMAIN Spelled(data)
  BY <1>1, <1>3, SpelledKeys DEF Puts
<1>6. MapInv' /\ Spelled(data)' = Spelled(q)
  BY <1>2, <1>4 DEF MapInv, Entries, Rising, Spelled, ValueIn
<1> QED
  BY <1>4, <1>5, <1>6

LEMMA MapAssignAt ==
  ASSUME MapInv, NEW k \in UniqueKeys, NEW v \in Mapped, FM!AssignAt(k, v)
  PROVE  MapInv' /\ Spelled(data)' = WithOf(Spelled(data), k, v)
<1>1. UniqueKeys \in SUBSET Int /\ Entries(data, UniqueKeys, Mapped) /\ Rising(data)
  BY KeysAreInts DEF MapInv
<1>2. PICK q : q = data'
  OBVIOUS
<1>3. Assigns(data, q, k, v)
  BY <1>2, MapAssigns
<1>4. Entries(q, UniqueKeys, Mapped) /\ Rising(q) /\ Spelled(q) = WithOf(Spelled(data), k, v)
  BY <1>1, <1>3, AssignsSpells
<1>5. MapInv' /\ Spelled(data)' = Spelled(q)
  BY <1>2, <1>4 DEF MapInv, Entries, Rising, Spelled, ValueIn
<1> QED
  BY <1>4, <1>5

LEMMA MapErase ==
  ASSUME MapInv, NEW k \in UniqueKeys, FM!Erase(k)
  PROVE  MapInv' /\ Spelled(data)' = WithoutOf(Spelled(data), k)
<1>1. UniqueKeys \in SUBSET Int /\ Entries(data, UniqueKeys, Mapped) /\ Rising(data)
  BY KeysAreInts DEF MapInv
<1>2. PICK q : q = data'
  OBVIOUS
<1>3. Takes(data, q, k)
  BY <1>2, MapTakes
<1>4. Entries(q, UniqueKeys, Mapped) /\ Rising(q) /\ Spelled(q) = WithoutOf(Spelled(data), k)
  BY <1>1, <1>3, TakesSpells
<1>5. MapInv' /\ Spelled(data)' = Spelled(q)
  BY <1>2, <1>4 DEF MapInv, Entries, Rising, Spelled, ValueIn
<1> QED
  BY <1>4, <1>5

LEMMA EmptySpelled ==
  ASSUME NEW d, d = <<>>, NEW K, NEW V
  PROVE  Entries(d, K, V) /\ Rising(d) /\ KeysIn(d) = {} /\ \A w : Spelled(d) = [k \in {} |-> w]
<1>1. Len(d) = 0 /\ DOMAIN d = {} /\ 1..Len(d) = {}
  OBVIOUS
<1>2. Entries(d, K, V) /\ Rising(d) /\ KeysIn(d) = {}
  BY <1>1 DEF Entries, Rising, KeysIn
<1>3. ASSUME NEW w PROVE Spelled(d) = [k \in {} |-> w]
  <2>1. {d[i].key : i \in DOMAIN d} = {}
    BY <1>1
  <2> QED
    BY <2>1 DEF Spelled
<1> QED
  BY <1>2, <1>3

LEMMA MapEmpty ==
  /\ FM!Init => MapInv /\ Spelled(data) = [k \in {} |-> DefaultMapped]
  /\ FM!Clear => MapInv' /\ Spelled(data)' = [k \in {} |-> DefaultMapped]
<1>1. ASSUME FM!Init PROVE MapInv /\ Spelled(data) = [k \in {} |-> DefaultMapped]
  BY <1>1, EmptySpelled DEF FM!Init, MapInv
<1>2. ASSUME FM!Clear PROVE MapInv' /\ Spelled(data)' = [k \in {} |-> DefaultMapped]
  <2>1. PICK q : q = data'
    OBVIOUS
  <2>2. q = <<>>
    BY <1>2, <2>1 DEF FM!Clear
  <2>3. Entries(q, UniqueKeys, Mapped) /\ Rising(q) /\ Spelled(q) = [k \in {} |-> DefaultMapped]
    BY <2>2, EmptySpelled
  <2>4. MapInv'
    BY <2>1, <2>3 DEF MapInv, Entries, Rising
  <2>5. Spelled(data)' = Spelled(q)
    BY <2>1 DEF Spelled, ValueIn
  <2> QED
    BY <2>3, <2>4, <2>5
<1> QED
  BY <1>1, <1>2

LEMMA MapContentIs ==
  /\ [k \in FM!Held |-> FM!ValueOf(k)] = Spelled(data)
  /\ [k \in FM!Held |-> FM!ValueOf(k)]' = Spelled(data)'
BY DEF FM!Held, FM!ValueOf, Spelled, ValueIn

LEMMA MapInserts ==
  ASSUME MapInv, NEW k \in UniqueKeys, NEW v \in Mapped, FM!Insert(k, v)
  PROVE  MapInv' /\ FM!Dict!Insert(k, v)
<1>1. PICK f : f = Spelled(data)
  OBVIOUS
<1>2. PICK h : h = Spelled(data)'
  OBVIOUS
<1>3. CASE FM!PutNew(k, v)
  <2>1. MapInv' /\ k \notin DOMAIN f /\ h = WithOf(f, k, v)
    BY <1>1, <1>2, <1>3, MapPutNew
  <2> QED
    BY <1>1, <1>2, <2>1, MapContentIs DEF WithOf, FM!Dict!Insert, FM!Dict!With
<1>4. CASE FM!Has(k) /\ UNCHANGED data
  <2>1. k \in KeysIn(data)
    BY <1>4, MapLooks
  <2>2. MapInv' /\ h = f
    BY <1>1, <1>2, <1>4 DEF MapInv, Entries, Rising, Spelled, ValueIn
  <2>3. k \in DOMAIN f
    BY <1>1, <2>1, SpelledKeys, KeysAreInts DEF MapInv
  <2> QED
    BY <1>1, <1>2, <2>2, <2>3, MapContentIs DEF FM!Dict!Insert
<1> QED
  BY <1>3, <1>4 DEF FM!Insert

LEMMA MapInsertsOrAssigns ==
  ASSUME MapInv, NEW k \in UniqueKeys, NEW v \in Mapped, FM!InsertOrAssign(k, v)
  PROVE  MapInv' /\ FM!Dict!InsertOrAssign(k, v)
<1>1. PICK f : f = Spelled(data)
  OBVIOUS
<1>2. PICK h : h = Spelled(data)'
  OBVIOUS
<1>3. MapInv' /\ h = WithOf(f, k, v)
  BY <1>1, <1>2, MapPutNew, MapAssignAt DEF FM!InsertOrAssign
<1> QED
  BY <1>1, <1>2, <1>3, MapContentIs DEF WithOf, FM!Dict!InsertOrAssign, FM!Dict!With

LEMMA MapErases ==
  ASSUME MapInv, NEW k \in UniqueKeys, FM!Erase(k)
  PROVE  MapInv' /\ FM!Dict!Erase(k)
<1>1. PICK f : f = Spelled(data)
  OBVIOUS
<1>2. PICK h : h = Spelled(data)'
  OBVIOUS
<1>3. MapInv' /\ h = WithoutOf(f, k)
  BY <1>1, <1>2, MapErase
<1> QED
  BY <1>1, <1>2, <1>3, MapContentIs DEF WithoutOf, FM!Dict!Erase, FM!Dict!Restrict

LEMMA MapSubscripts ==
  ASSUME MapInv, NEW k \in UniqueKeys, FM!Subscript(k)
  PROVE  MapInv' /\ FM!Dict!Subscript(k)
BY MapInserts, KeysAreInts DEF FM!Subscript, FM!Dict!Subscript

LEMMA MapClears == ASSUME FM!Clear PROVE MapInv' /\ FM!Dict!Clear
<1>1. MapInv' /\ Spelled(data)' = [k \in {} |-> DefaultMapped]
  BY MapEmpty
<1> QED
  BY <1>1, MapContentIs DEF FM!Dict!Clear

LEMMA MapStays ==
  ASSUME MapInv, UNCHANGED data
  PROVE  MapInv' /\ Spelled(data)' = Spelled(data)
BY DEF MapInv, Entries, Rising, Spelled, ValueIn

LEMMA MapSteps ==
  ASSUME MapInv, [FM!Next]_data
  PROVE  MapInv' /\ (FM!Dict!Next \/ UNCHANGED [k \in FM!Held |-> FM!ValueOf(k)])
<1>1. ASSUME NEW k \in UniqueKeys, NEW v \in Mapped, FM!Insert(k, v)
      PROVE  MapInv' /\ FM!Dict!Next
  BY <1>1, MapInserts DEF FM!Dict!Next
<1>2. ASSUME NEW k \in UniqueKeys, NEW v \in Mapped, FM!InsertOrAssign(k, v)
      PROVE  MapInv' /\ FM!Dict!Next
  BY <1>2, MapInsertsOrAssigns DEF FM!Dict!Next
<1>3. ASSUME NEW k \in UniqueKeys, FM!Subscript(k) PROVE MapInv' /\ FM!Dict!Next
  BY <1>3, MapSubscripts DEF FM!Dict!Next
<1>4. ASSUME NEW k \in UniqueKeys, FM!Erase(k) PROVE MapInv' /\ FM!Dict!Next
  BY <1>4, MapErases DEF FM!Dict!Next
<1>5. CASE FM!Clear
  BY <1>5, MapClears DEF FM!Dict!Next
<1>6. CASE UNCHANGED data
  BY <1>6, MapStays, MapContentIs
<1> QED
  BY <1>1, <1>2, <1>3, <1>4, <1>5, <1>6 DEF FM!Next

(* map is a partial function: insert, insert_or_assign, operator[], erase    *)
(* and clear do to it what their names say, on their own key only            *)
(* (map.hpp).                                                                *)
THEOREM MapRefines == FM!Spec => FM!BehavesLikeMap
<1>1. FM!Init => FM!Dict!Init /\ MapInv
  BY MapEmpty, MapContentIs DEF FM!Dict!Init
<1>2. MapInv /\ [FM!Next]_data
      => MapInv' /\ [FM!Dict!Next]_([k \in FM!Held |-> FM!ValueOf(k)])
  BY MapSteps
<1>3. MapInv => /\ \A k \in UniqueKeys :
                     /\ FM!Subscript(k) => FM!Dict!Subscript(k)
                     /\ FM!Erase(k) => FM!Dict!Erase(k)
                     /\ \A v \in Mapped :
                          /\ FM!Insert(k, v) => FM!Dict!Insert(k, v)
                          /\ FM!InsertOrAssign(k, v) => FM!Dict!InsertOrAssign(k, v)
                /\ FM!Clear => FM!Dict!Clear
  BY MapInserts, MapInsertsOrAssigns, MapSubscripts, MapErases, MapClears
<1> QED
  BY <1>1, <1>2, <1>3, PTL DEF FM!Spec, FM!BehavesLikeMap, FM!Dict!Spec

LEMMA ValueThere ==
  ASSUME NEW d, NEW K \in SUBSET Int, NEW V, Entries(d, K, V), Rising(d), NEW i \in 1..Len(d)
  PROVE  ValueIn(d, d[i].key) = d[i].val
<1>1. PICK f : f = Spelled(d)
  OBVIOUS
<1>2. Spells(f, d)
  BY <1>1, SpelledSpells
<1>3. f[d[i].key] = d[i].val
  BY <1>2 DEF Spells
<1>4. d[i].key \in {d[j].key : j \in DOMAIN d}
  BY EntriesAre
<1>5. f[d[i].key] = ValueIn(d, d[i].key)
  BY <1>1, <1>4 DEF Spelled
<1> QED
  BY <1>3, <1>5

LEMMA MapSearchable == MapInv => FM!Searchable
<1>1. SUFFICES ASSUME MapInv PROVE FM!Searchable
  OBVIOUS
<1>2. UniqueKeys \in SUBSET Int /\ Entries(data, UniqueKeys, Mapped) /\ Rising(data)
  BY <1>1, KeysAreInts DEF MapInv
<1>3. DOMAIN data = 1..Len(data) /\ Len(data) \in Nat
  BY <1>2, EntriesAre
<1>4. \A i, j \in DOMAIN data : i < j => data[i].key < data[j].key
  BY <1>2, <1>3 DEF Rising
<1>5. FM!Held = KeysIn(data)
  BY <1>3 DEF FM!Held, KeysIn
<1>6. ASSUME NEW k \in UniqueKeys
      PROVE  (FM!Has(k) <=> k \in FM!Held) /\ (k \in FM!Held => FM!At(k) = FM!ValueOf(k))
  <2>1. PICK m : /\ FM!LowerBound(k) = m
                 /\ FM!Has(k) <=> k \in KeysIn(data)
                 /\ FM!Has(k) => m \in 0..(Len(data) - 1) /\ data[m + 1].key = k
    BY <1>1, MapLooks
  <2>2. ASSUME k \in FM!Held PROVE FM!At(k) = FM!ValueOf(k)
    <3>1. m + 1 \in 1..Len(data) /\ data[m + 1].key = k
      BY <1>3, <1>5, <2>1, <2>2
    <3>2. ValueIn(data, k) = data[m + 1].val
      BY <1>2, <3>1, ValueThere
    <3> QED
      BY <2>1, <3>2 DEF FM!At, FM!ValueOf, ValueIn
  <2> QED
    BY <1>5, <2>1, <2>2
<1> QED
  BY <1>4, <1>6 DEF FM!Searchable

LEMMA SetSearchable == SetInv => FS!Searchable
<1>1. SUFFICES ASSUME SetInv PROVE FS!Flat!Searchable
  BY DEF FS!Searchable
<1>2. UniqueKeys \in SUBSET Int /\ Entries(members, UniqueKeys, {NoValue}) /\ Rising(members)
  BY <1>1, KeysAreInts DEF SetInv
<1>3. DOMAIN members = 1..Len(members) /\ Len(members) \in Nat
  BY <1>2, EntriesAre
<1>4. \A i, j \in DOMAIN members : i < j => members[i].key < members[j].key
  BY <1>2, <1>3 DEF Rising
<1>5. FS!Flat!Held = KeysIn(members)
  BY <1>3 DEF FS!Flat!Held, KeysIn
<1>6. ASSUME NEW k \in UniqueKeys
      PROVE  /\ FS!Flat!Has(k) <=> k \in FS!Flat!Held
             /\ k \in FS!Flat!Held => FS!Flat!At(k) = FS!Flat!ValueOf(k)
  <2>1. PICK m : /\ FS!Flat!LowerBound(k) = m
                 /\ FS!Flat!Has(k) <=> k \in KeysIn(members)
                 /\ FS!Flat!Has(k) => m \in 0..(Len(members) - 1) /\ members[m + 1].key = k
    BY <1>1, SetLooks
  <2>2. ASSUME k \in FS!Flat!Held PROVE FS!Flat!At(k) = FS!Flat!ValueOf(k)
    <3>1. m + 1 \in 1..Len(members) /\ members[m + 1].key = k
      BY <1>3, <1>5, <2>1, <2>2
    <3>2. ValueIn(members, k) = members[m + 1].val
      BY <1>2, <3>1, ValueThere
    <3> QED
      BY <2>1, <3>2 DEF FS!Flat!At, FS!Flat!ValueOf, ValueIn
  <2> QED
    BY <1>5, <2>1, <2>2
<1> QED
  BY <1>4, <1>6 DEF FS!Flat!Searchable

LEMMA SetHolds ==
  /\ SetInv => FS!Flat!Held = KeysIn(members)
  /\ SetInv' => FS!Flat!Held' = KeysIn(members')
<1>1. ASSUME SetInv PROVE FS!Flat!Held = KeysIn(members)
  BY <1>1, EntriesAre, KeysAreInts DEF SetInv, FS!Flat!Held, KeysIn
<1>2. ASSUME SetInv' PROVE FS!Flat!Held' = KeysIn(members')
  <2>1. PICK q : q = members'
    OBVIOUS
  <2>2. Entries(q, UniqueKeys, {NoValue})
    BY <1>2, <2>1 DEF SetInv, Entries
  <2>3. DOMAIN q = 1..Len(q)
    BY <2>2, KeysAreInts, EntriesAre
  <2> QED
    BY <2>1, <2>3 DEF FS!Flat!Held, KeysIn
<1> QED
  BY <1>1, <1>2

LEMMA SetInserts ==
  ASSUME SetInv, NEW k \in UniqueKeys, FS!Insert(k)
  PROVE  SetInv' /\ FS!Flat!Held' = FS!Flat!Held \cup {k}
<1>1. UniqueKeys \in SUBSET Int /\ Entries(members, UniqueKeys, {NoValue}) /\ Rising(members)
  BY KeysAreInts DEF SetInv
<1>2. PICK q : q = members'
  OBVIOUS
<1>3. SetInv' /\ KeysIn(q) = KeysIn(members) \cup {k}
  <2>1. CASE FS!Flat!PutNew(k, NoValue)
    <3>1. Puts(members, q, k, NoValue)
      BY <1>2, <2>1, SetPuts
    <3>2. /\ Entries(q, UniqueKeys, {NoValue}) /\ Rising(q)
          /\ Spelled(q) = WithOf(Spelled(members), k, NoValue)
      BY <1>1, <3>1, PutsSpells
    <3>3. DOMAIN Spelled(q) = KeysIn(q) /\ DOMAIN Spelled(members) = KeysIn(members)
      BY <1>1, <3>2, SpelledKeys
    <3>4. DOMAIN Spelled(q) = DOMAIN Spelled(members) \cup {k}
      BY <3>2 DEF WithOf
    <3> QED
      BY <1>2, <3>2, <3>3, <3>4 DEF SetInv, Entries, Rising
  <2>2. CASE FS!Flat!Has(k) /\ UNCHANGED members
    <3>1. k \in KeysIn(members)
      BY <2>2, SetLooks
    <3> QED
      BY <1>1, <1>2, <2>2, <3>1 DEF SetInv, Entries, Rising
  <2> QED
    BY <2>1, <2>2 DEF FS!Insert, FS!Flat!Insert
<1> QED
  BY <1>2, <1>3, SetHolds

LEMMA SetErases ==
  ASSUME SetInv, NEW k \in UniqueKeys, FS!Erase(k)
  PROVE  SetInv' /\ k \in FS!Flat!Held /\ FS!Flat!Held' = FS!Flat!Held \ {k}
<1>1. UniqueKeys \in SUBSET Int /\ Entries(members, UniqueKeys, {NoValue}) /\ Rising(members)
  BY KeysAreInts DEF SetInv
<1>2. PICK q : q = members'
  OBVIOUS
<1>3. Takes(members, q, k)
  BY <1>2, SetTakes DEF FS!Erase
<1>4. /\ Entries(q, UniqueKeys, {NoValue}) /\ Rising(q)
      /\ Spelled(q) = WithoutOf(Spelled(members), k)
  BY <1>1, <1>3, TakesSpells
<1>5. DOMAIN Spelled(q) = KeysIn(q) /\ DOMAIN Spelled(members) = KeysIn(members)
  BY <1>1, <1>4, SpelledKeys
<1>6. DOMAIN Spelled(q) = DOMAIN Spelled(members) \ {k}
  BY <1>4 DEF WithoutOf
<1>7. SetInv'
  BY <1>2, <1>4 DEF SetInv, Entries, Rising
<1>8. k \in KeysIn(members)
  BY SetLooks DEF FS!Erase, FS!Flat!Erase
<1> QED
  BY <1>2, <1>5, <1>6, <1>7, <1>8, SetHolds

LEMMA SetEmpty ==
  /\ FS!Init => SetInv
  /\ FS!Clear => SetInv' /\ FS!Flat!Held' = {}
<1>1. ASSUME FS!Init PROVE SetInv
  BY <1>1, EmptySpelled DEF FS!Init, FS!Flat!Init, SetInv
<1>2. ASSUME FS!Clear PROVE SetInv' /\ FS!Flat!Held' = {}
  <2>1. PICK q : q = members'
    OBVIOUS
  <2>2. q = <<>>
    BY <1>2, <2>1 DEF FS!Clear, FS!Flat!Clear
  <2>3. Entries(q, UniqueKeys, {NoValue}) /\ Rising(q) /\ KeysIn(q) = {}
    BY <2>2, EmptySpelled
  <2>4. SetInv'
    BY <2>1, <2>3 DEF SetInv, Entries, Rising
  <2> QED
    BY <2>1, <2>3, <2>4, SetHolds
<1> QED
  BY <1>1, <1>2

LEMMA SetSteps == ASSUME SetInv, [FS!Next]_members PROVE SetInv'
<1>1. CASE UNCHANGED members
  BY <1>1 DEF SetInv, Entries, Rising
<1> QED
  BY <1>1, SetInserts, SetErases, SetEmpty DEF FS!Next

(* set is a set of keys: insert adds one, erase removes one, clear all.      *)
THEOREM SetRefines == FS!Spec => FS!BehavesLikeSet
<1>1. FS!Init => SetInv
  BY SetEmpty
<1>2. SetInv /\ [FS!Next]_members => SetInv'
  BY SetSteps
<1>3. SetInv => /\ FS!Clear => FS!Flat!Held' = {}
                /\ \A k \in UniqueKeys :
                     /\ FS!Insert(k) => FS!Flat!Held' = FS!Flat!Held \cup {k}
                     /\ FS!Erase(k) => k \in FS!Flat!Held /\ FS!Flat!Held' = FS!Flat!Held \ {k}
  BY SetInserts, SetErases, SetEmpty
<1> QED
  BY <1>1, <1>2, <1>3, PTL DEF FS!Spec, FS!BehavesLikeSet
-----------------------------------------------------------------------------
(* multimap and multiset: equal keys lie side by side.                       *)
LowerIn(d, k) == SearchOf(Len(d), {i \in 0..(Len(d) - 1) : d[i + 1].key < k})
UpperIn(d, k) == SearchOf(Len(d), {i \in 0..(Len(d) - 1) : ~ (k < d[i + 1].key)})

LEMMA BoundsIn ==
  ASSUME NEW d, NEW K \in SUBSET Int, NEW V, Entries(d, K, V), Climbing(d), NEW k \in Int
  PROVE  /\ Lower(d, k, LowerIn(d, k)) /\ Upper(d, k, UpperIn(d, k))
         /\ LowerIn(d, k) \in Nat /\ UpperIn(d, k) \in Nat
         /\ LowerIn(d, k) <= UpperIn(d, k) /\ UpperIn(d, k) <= Len(d)
<1>1. PICK m : Lower(d, k, m)
  BY BoundsExist
<1>2. PICK n : Upper(d, k, n)
  BY BoundsExist
<1>3. LowerIn(d, k) = m
  BY <1>1, LowerFound DEF LowerIn
<1>4. UpperIn(d, k) = n
  BY <1>2, UpperFound DEF UpperIn
<1>5. Len(d) \in Nat /\ \A i \in 1..Len(d) : d[i].key \in Int
  BY EntriesAre
<1>6. m \in 0..Len(d) /\ n \in 0..Len(d)
  BY <1>1, <1>2 DEF Lower, Upper
<1>7. m <= n
  <2>1. CASE m = 0
    BY <1>5, <1>6, <2>1
  <2>2. CASE m # 0
    <3>1. m \in 1..Len(d) /\ d[m].key < k
      BY <1>1, <1>5, <1>6, <2>2 DEF Lower
    <3>2. ~ (k < d[m].key)
      BY <1>5, <3>1
    <3> QED
      BY <1>2, <3>1, <3>2 DEF Upper
  <2> QED
    BY <2>1, <2>2
<1> QED
  BY <1>1, <1>2, <1>3, <1>4, <1>5, <1>6, <1>7

(* The two bounds enclose the entries of a key.                              *)
LEMMA Enclosed ==
  ASSUME NEW d, NEW K \in SUBSET Int, NEW V, Entries(d, K, V), Climbing(d), NEW k \in Int
  PROVE  {i \in DOMAIN d : d[i].key = k} = (LowerIn(d, k) + 1)..UpperIn(d, k)
<1>1. Len(d) \in Nat /\ DOMAIN d = 1..Len(d) /\ \A i \in 1..Len(d) : d[i].key \in Int
  BY EntriesAre
<1>2. PICK m : m = LowerIn(d, k)
  OBVIOUS
<1>3. PICK n : n = UpperIn(d, k)
  OBVIOUS
<1>4. Lower(d, k, m) /\ Upper(d, k, n) /\ m \in Nat /\ n \in Nat /\ n <= Len(d)
  BY <1>2, <1>3, BoundsIn
<1>5. ASSUME NEW i \in 1..Len(d) PROVE d[i].key = k <=> m < i /\ i <= n
  <2>1. (d[i].key < k <=> i <= m) /\ (~ (k < d[i].key) <=> i <= n)
    BY <1>4 DEF Lower, Upper
  <2> QED
    BY <1>1, <1>4, <2>1
<1>6. {i \in 1..Len(d) : d[i].key = k} = (m + 1)..n
  BY <1>1, <1>4, <1>5
<1> QED
  BY <1>1, <1>2, <1>3, <1>6

(* Where the bounds of any key lie once an entry is put in behind its equals.*)
LEMMA BoundsAfterPut ==
  ASSUME NEW d, NEW K \in SUBSET Int, NEW V, Entries(d, K, V), Climbing(d),
         NEW k \in K, NEW v \in V, NEW m, Upper(d, k, m),
         NEW q, q = PutIn(d, m, [key |-> k, val |-> v])
  PROVE  /\ Entries(q, K, V) /\ Climbing(q)
         /\ \A j \in Int : \A n : Lower(d, j, n) => Lower(q, j, IF k < j THEN n + 1 ELSE n)
         /\ \A j \in Int : \A n : Upper(d, j, n) => Upper(q, j, IF k <= j THEN n + 1 ELSE n)
<1>1. PICK e : e = [key |-> k, val |-> v]
  OBVIOUS
<1>2. PICK E : E = [key : K, val : V]
  OBVIOUS
<1>3. Len(d) \in Nat /\ \A i \in 1..Len(d) : d[i].key \in Int
  BY EntriesAre
<1>4. m \in 0..Len(d) /\ \A i \in 1..Len(d) : ~ (k < d[i].key) <=> i <= m
  BY DEF Upper
<1>5. d \in Seq(E) /\ e \in E /\ e.key = k /\ k \in Int
  BY <1>1, <1>2 DEF Entries
<1>6. q = PutIn(d, m, e)
  BY <1>1
<1>7. q \in Seq(E) /\ HasPut(q, d, m, e)
  BY <1>4, <1>5, <1>6, PutInIs, Zenon
<1>8. q \in Seq(E) /\ Len(q) = Len(d) + 1
  BY <1>7 DEF HasPut
<1>9. ASSUME NEW i \in 1..Len(q)
      PROVE  /\ i <= m => i \in 1..Len(d) /\ q[i].key = d[i].key /\ d[i].key <= k
             /\ i = m + 1 => q[i].key = k
             /\ i > m + 1 => i - 1 \in 1..Len(d) /\ q[i].key = d[i - 1].key /\ k < d[i - 1].key
  <2>1. q[i] = IF i <= m THEN d[i] ELSE IF i = m + 1 THEN e ELSE d[i - 1]
    BY <1>7, <1>8 DEF HasPut
  <2>2. CASE i <= m
    <3>1. i \in 1..Len(d) /\ ~ (k < d[i].key) /\ q[i] = d[i] /\ d[i].key \in Int
      BY <1>3, <1>4, <1>8, <2>1, <2>2
    <3> QED
      BY <1>4, <1>5, <2>2, <3>1
  <2>3. CASE i = m + 1
    BY <1>4, <1>5, <2>1, <2>3
  <2>4. CASE i > m + 1
    <3>1. i - 1 \in 1..Len(d) /\ ~ (i - 1 <= m) /\ q[i] = d[i - 1]
      BY <1>3, <1>4, <1>8, <2>1, <2>4
    <3> QED
      BY <1>4, <2>4, <3>1
  <2> QED
    BY <1>4, <2>2, <2>3, <2>4
<1>10. ASSUME NEW i \in 1..Len(q), NEW j \in 1..Len(q), i < j PROVE q[i].key <= q[j].key
  <2>1. CASE j <= m
    <3>1. i <= m /\ i \in 1..Len(d) /\ j \in 1..Len(d)
      BY <1>4, <1>9, <1>10, <2>1
    <3>2. d[i].key <= d[j].key
      BY <1>10, <3>1 DEF Climbing
    <3> QED
      BY <1>9, <2>1, <3>1, <3>2
  <2>2. CASE j = m + 1
    BY <1>4, <1>9, <1>10, <2>2
  <2>3. CASE j > m + 1
    <3>1. j - 1 \in 1..Len(d) /\ q[j].key = d[j - 1].key /\ k < d[j - 1].key /\ d[j - 1].key \in Int
      BY <1>3, <1>9, <2>3
    <3>2. CASE i <= m
      <4>1. q[i].key = d[i].key /\ d[i].key <= k /\ d[i].key \in Int
        BY <1>3, <1>9, <3>2
      <4> QED
        BY <1>5, <3>1, <4>1
    <3>3. CASE i = m + 1
      BY <1>5, <1>9, <3>1, <3>3
    <3>4. CASE i > m + 1
      <4>1. i - 1 \in 1..Len(d) /\ q[i].key = d[i - 1].key /\ i - 1 < j - 1
        BY <1>9, <1>10, <3>4
      <4>2. d[i - 1].key <= d[j - 1].key
        BY <3>1, <4>1 DEF Climbing
      <4> QED
        BY <3>1, <4>1, <4>2
    <3> QED
      BY <1>4, <3>2, <3>3, <3>4
  <2> QED
    BY <1>4, <2>1, <2>2, <2>3
<1>11. ASSUME NEW j \in Int, NEW n, Lower(d, j, n)
       PROVE  Lower(q, j, IF k < j THEN n + 1 ELSE n)
  <2>1. n \in 0..Len(d) /\ \A i \in 1..Len(d) : d[i].key < j <=> i <= n
    BY <1>11 DEF Lower
  <2>2. k < j => m <= n
    <3>1. CASE m = 0
      BY <1>3, <2>1, <3>1
    <3>2. CASE m # 0
      <4>1. m \in 1..Len(d) /\ d[m].key <= k
        BY <1>3, <1>4, <1>5, <3>2
      <4> QED
        BY <1>3, <1>5, <2>1, <4>1
    <3> QED
      BY <3>1, <3>2
  <2>3. ~ (k < j) => n <= m
    <3>1. CASE n = 0
      BY <1>4, <3>1
    <3>2. CASE n # 0
      <4>1. n \in 1..Len(d) /\ d[n].key < j
        BY <1>3, <2>1, <3>2
      <4> QED
        BY <1>3, <1>4, <1>5, <4>1
    <3> QED
      BY <3>1, <3>2
  <2>4. ASSUME NEW i \in 1..Len(q) PROVE q[i].key < j <=> i <= IF k < j THEN n + 1 ELSE n
    <3>1. CASE i <= m
      BY <1>3, <1>4, <1>5, <1>9, <2>1, <2>2, <2>3, <3>1
    <3>2. CASE i = m + 1
      BY <1>4, <1>9, <2>1, <2>2, <2>3, <3>2
    <3>3. CASE i > m + 1
      <4>1. /\ i - 1 \in 1..Len(d) /\ q[i].key = d[i - 1].key
            /\ k < d[i - 1].key /\ d[i - 1].key \in Int
        BY <1>3, <1>9, <3>3
      <4>2. d[i - 1].key < j <=> i - 1 <= n
        BY <2>1, <4>1
      <4>3. n \in Nat /\ m \in Nat /\ k \in Int
        BY <1>4, <1>5, <2>1
      <4>4. CASE k < j
        BY <4>1, <4>2, <4>3, <4>4
      <4>5. CASE ~ (k < j)
        BY <2>3, <3>3, <4>1, <4>3, <4>5
      <4> QED
        BY <4>4, <4>5
    <3> QED
      BY <1>4, <3>1, <3>2, <3>3
  <2>5. (IF k < j THEN n + 1 ELSE n) \in 0..Len(q)
    BY <1>3, <1>8, <2>1
  <2> QED
    BY <2>4, <2>5 DEF Lower
<1>12. ASSUME NEW j \in Int, NEW n, Upper(d, j, n)
       PROVE  Upper(q, j, IF k <= j THEN n + 1 ELSE n)
  <2>1. n \in 0..Len(d) /\ \A i \in 1..Len(d) : ~ (j < d[i].key) <=> i <= n
    BY <1>12 DEF Upper
  <2>2. k <= j => m <= n
    <3>1. CASE m = 0
      BY <1>3, <2>1, <3>1
    <3>2. CASE m # 0
      <4>1. m \in 1..Len(d) /\ d[m].key <= k
        BY <1>3, <1>4, <1>5, <3>2
      <4> QED
        BY <1>3, <1>5, <2>1, <4>1
    <3> QED
      BY <3>1, <3>2
  <2>3. ~ (k <= j) => n <= m
    <3>1. CASE n = 0
      BY <1>4, <3>1
    <3>2. CASE n # 0
      <4>1. n \in 1..Len(d) /\ ~ (j < d[n].key)
        BY <1>3, <2>1, <3>2
      <4> QED
        BY <1>3, <1>4, <1>5, <4>1
    <3> QED
      BY <3>1, <3>2
  <2>4. ASSUME NEW i \in 1..Len(q) PROVE ~ (j < q[i].key) <=> i <= IF k <= j THEN n + 1 ELSE n
    <3>1. CASE i <= m
      BY <1>3, <1>4, <1>5, <1>9, <2>1, <2>2, <2>3, <3>1
    <3>2. CASE i = m + 1
      BY <1>4, <1>5, <1>9, <2>1, <2>2, <2>3, <3>2
    <3>3. CASE i > m + 1
      <4>1. /\ i - 1 \in 1..Len(d) /\ q[i].key = d[i - 1].key
            /\ k < d[i - 1].key /\ d[i - 1].key \in Int
        BY <1>3, <1>9, <3>3
      <4>2. ~ (j < d[i - 1].key) <=> i - 1 <= n
        BY <2>1, <4>1
      <4>3. n \in Nat /\ m \in Nat /\ k \in Int
        BY <1>4, <1>5, <2>1
      <4>4. CASE k <= j
        BY <4>1, <4>2, <4>3, <4>4
      <4>5. CASE ~ (k <= j)
        BY <2>3, <3>3, <4>1, <4>3, <4>5
      <4> QED
        BY <4>4, <4>5
    <3> QED
      BY <1>4, <3>1, <3>2, <3>3
  <2>5. (IF k <= j THEN n + 1 ELSE n) \in 0..Len(q)
    BY <1>3, <1>8, <2>1
  <2> QED
    BY <2>4, <2>5 DEF Upper
<1>13. Entries(q, K, V) /\ Climbing(q)
  BY <1>2, <1>8, <1>10 DEF Entries, Climbing
<1> QED
  BY <1>11, <1>12, <1>13

(* The c entries behind place a cut out: those after them move down and the  *)
(* last c are popped.                                                        *)
CutOut(d, a, c) ==
  SubSeq([i \in DOMAIN d |-> IF a < i /\ i <= Len(d) - c THEN d[i + c] ELSE d[i]],
         1, Len(d) - c)

IsCut(q, d, a, c, S) ==
  /\ q \in Seq(S) /\ Len(q) = Len(d) - c
  /\ \A i \in 1..(Len(d) - c) : q[i] = IF i <= a THEN d[i] ELSE d[i + c]

LEMMA CutOutIs ==
  ASSUME NEW S, NEW d \in Seq(S), NEW a \in Nat, NEW c \in Nat, a + c <= Len(d)
  PROVE  IsCut(CutOut(d, a, c), d, a, c, S)
<1>1. PICK x : x = [i \in DOMAIN d |-> IF a < i /\ i <= Len(d) - c THEN d[i + c] ELSE d[i]]
  OBVIOUS
<1>2. DOMAIN d = 1..Len(d) /\ Len(d) \in Nat /\ \A i \in 1..Len(d) : d[i] \in S
  OBVIOUS
<1>3. \A i \in 1..Len(d) : x[i] = IF a < i /\ i <= Len(d) - c THEN d[i + c] ELSE d[i]
  BY <1>1, <1>2
<1>4. \A i \in 1..Len(d) : x[i] \in S
  BY <1>2, <1>3
<1>5. x = [i \in 1..Len(d) |-> x[i]]
  BY <1>1, <1>2
<1>6. x \in Seq(S) /\ Len(x) = Len(d)
  BY <1>2, <1>4, <1>5
<1>7. PICK q : q = SubSeq(x, 1, Len(d) - c)
  OBVIOUS
<1>8. q \in Seq(S) /\ Len(q) = Len(d) - c /\ \A i \in 1..(Len(d) - c) : q[i] = x[i]
  <2>1. Len(d) \in Nat /\ Len(d) - c \in 0..Len(d) /\ Len(x) = Len(d)
    BY <1>2, <1>6
  <2>2. PICK n \in 0..Len(x) : n = Len(d) - c
    BY <2>1
  <2>3. q \in Seq(S) /\ Len(q) = n /\ \A i \in 1..n : q[i] = x[i]
    BY <1>6, <1>7, <2>2
  <2> QED
    BY <2>2, <2>3
<1>9. ASSUME NEW i \in 1..(Len(d) - c) PROVE q[i] = IF i <= a THEN d[i] ELSE d[i + c]
  <2>1. i \in 1..Len(d) /\ i <= Len(d) - c /\ (i <= a <=> ~ (a < i))
    BY <1>2
  <2>2. x[i] = IF a < i THEN d[i + c] ELSE d[i]
    BY <1>3, <2>1
  <2>3. q[i] = x[i]
    BY <1>8
  <2> QED
    BY <2>1, <2>2, <2>3
<1>10. CutOut(d, a, c) = q
  BY <1>1, <1>7 DEF CutOut
<1>11. IsCut(q, d, a, c, S)
  BY <1>8, <1>9 DEF IsCut
<1> QED
  BY <1>10, <1>11

(* Where the bounds of a key lie that none of the cut entries has.           *)
LEMMA BoundsAfterCut ==
  ASSUME NEW d, NEW K \in SUBSET Int, NEW V, Entries(d, K, V), Climbing(d),
         NEW a \in Nat, NEW c \in Nat, a + c <= Len(d), NEW q, q = CutOut(d, a, c)
  PROVE  /\ Entries(q, K, V) /\ Climbing(q) /\ Len(q) = Len(d) - c
         /\ \A j \in Int : \A n :
              Lower(d, j, n) /\ (n <= a \/ a + c <= n)
                => Lower(q, j, IF n <= a THEN n ELSE n - c)
         /\ \A j \in Int : \A n :
              Upper(d, j, n) /\ (n <= a \/ a + c <= n)
                => Upper(q, j, IF n <= a THEN n ELSE n - c)
<1>1. PICK E : E = [key : K, val : V]
  OBVIOUS
<1>2. Len(d) \in Nat /\ \A i \in 1..Len(d) : d[i].key \in Int
  BY EntriesAre
<1>3. d \in Seq(E)
  BY <1>1 DEF Entries
<1>4. /\ q \in Seq(E) /\ Len(q) = Len(d) - c
      /\ \A i \in 1..(Len(d) - c) : q[i] = IF i <= a THEN d[i] ELSE d[i + c]
  <2>1. IsCut(CutOut(d, a, c), d, a, c, E)
    BY <1>3, CutOutIs
  <2>2. IsCut(q, d, a, c, E)
    BY <2>1, Zenon
  <2> QED
    BY <2>2, Zenon DEF IsCut
<1>5. ASSUME NEW i \in 1..Len(q), NEW j \in 1..Len(q), i < j PROVE q[i].key <= q[j].key
  <2>1. PICK s \in 1..Len(d) : s = IF i <= a THEN i ELSE i + c
    BY <1>2, <1>4
  <2>2. PICK t \in 1..Len(d) : t = IF j <= a THEN j ELSE j + c
    BY <1>2, <1>4
  <2>3. s < t /\ q[i] = d[s] /\ q[j] = d[t]
    BY <1>4, <1>5, <2>1, <2>2
  <2> QED
    BY <2>3 DEF Climbing
<1>6. ASSUME NEW j \in Int, NEW n, Lower(d, j, n), n <= a \/ a + c <= n
      PROVE  Lower(q, j, IF n <= a THEN n ELSE n - c)
  <2>1. n \in 0..Len(d) /\ \A i \in 1..Len(d) : d[i].key < j <=> i <= n
    BY <1>6 DEF Lower
  <2>2. ASSUME NEW i \in 1..Len(q) PROVE q[i].key < j <=> i <= IF n <= a THEN n ELSE n - c
    <3>1. PICK s \in 1..Len(d) : s = IF i <= a THEN i ELSE i + c
      BY <1>2, <1>4
    <3>2. q[i] = d[s] /\ (d[s].key < j <=> s <= n)
      BY <1>4, <2>1, <3>1
    <3>3. s <= n <=> i <= IF n <= a THEN n ELSE n - c
      BY <1>4, <1>6, <2>1, <3>1
    <3> QED
      BY <3>2, <3>3
  <2>3. (IF n <= a THEN n ELSE n - c) \in 0..Len(q)
    BY <1>2, <1>4, <1>6, <2>1
  <2> QED
    BY <2>2, <2>3 DEF Lower
<1>7. ASSUME NEW j \in Int, NEW n, Upper(d, j, n), n <= a \/ a + c <= n
      PROVE  Upper(q, j, IF n <= a THEN n ELSE n - c)
  <2>1. n \in 0..Len(d) /\ \A i \in 1..Len(d) : ~ (j < d[i].key) <=> i <= n
    BY <1>7 DEF Upper
  <2>2. ASSUME NEW i \in 1..Len(q) PROVE ~ (j < q[i].key) <=> i <= IF n <= a THEN n ELSE n - c
    <3>1. PICK s \in 1..Len(d) : s = IF i <= a THEN i ELSE i + c
      BY <1>2, <1>4
    <3>2. q[i] = d[s] /\ (~ (j < d[s].key) <=> s <= n)
      BY <1>4, <2>1, <3>1
    <3>3. s <= n <=> i <= IF n <= a THEN n ELSE n - c
      BY <1>4, <1>7, <2>1, <3>1
    <3> QED
      BY <3>2, <3>3
  <2>3. (IF n <= a THEN n ELSE n - c) \in 0..Len(q)
    BY <1>2, <1>4, <1>7, <2>1
  <2> QED
    BY <2>2, <2>3 DEF Upper
<1>8. Entries(q, K, V) /\ Climbing(q)
  BY <1>1, <1>4, <1>5 DEF Entries, Climbing
<1> QED
  BY <1>4, <1>6, <1>7, <1>8

(* The entries of a lesser key end before those of a greater begin.          *)
LEMMA BoundsApart ==
  ASSUME NEW d, NEW K \in SUBSET Int, NEW V, Entries(d, K, V), Climbing(d),
         NEW j \in Int, NEW k \in Int, j < k
  PROVE  UpperIn(d, j) <= LowerIn(d, k)
<1>1. PICK n : n = UpperIn(d, j)
  OBVIOUS
<1>2. PICK a : a = LowerIn(d, k)
  OBVIOUS
<1>3. /\ n \in Nat /\ n <= Len(d) /\ a \in Nat /\ Len(d) \in Nat
      /\ \A i \in 1..Len(d) : d[i].key \in Int /\ (~ (j < d[i].key) <=> i <= n)
      /\ \A i \in 1..Len(d) : d[i].key < k <=> i <= a
  BY <1>1, <1>2, BoundsIn, EntriesAre DEF Lower, Upper
<1>4. CASE n = 0
  BY <1>1, <1>2, <1>3, <1>4
<1>5. CASE n # 0
  <2>1. n \in 1..Len(d) /\ ~ (j < d[n].key) /\ d[n].key \in Int
    BY <1>3, <1>5
  <2>2. d[n].key < k
    BY <2>1
  <2> QED
    BY <1>1, <1>2, <1>3, <2>1, <2>2
<1> QED
  BY <1>4, <1>5

(* The bounds are unique, so whatever has their property is them.            *)
LEMMA BoundsAre ==
  ASSUME NEW d, NEW K \in SUBSET Int, NEW V, Entries(d, K, V), NEW k \in Int, NEW m
  PROVE  (Lower(d, k, m) => LowerIn(d, k) = m) /\ (Upper(d, k, m) => UpperIn(d, k) = m)
BY LowerFound, UpperFound DEF LowerIn, UpperIn

(* The values between two bounds, and what a put and a cut do to those of    *)
(* every key.                                                                *)
ValuesIn(d, k) == [i \in 1..(UpperIn(d, k) - LowerIn(d, k)) |-> d[LowerIn(d, k) + i].val]
CountIn(d, k) == UpperIn(d, k) - LowerIn(d, k)

LEMMA AppendIs ==
  ASSUME NEW V, NEW n \in Nat, NEW s, s = [i \in 1..n |-> s[i]], \A i \in 1..n : s[i] \in V,
         NEW v \in V
  PROVE  Append(s, v) = [i \in 1..(n + 1) |-> IF i <= n THEN s[i] ELSE v]
<1>1. s \in Seq(V) /\ Len(s) = n
  OBVIOUS
<1>2. PICK t : t = Append(s, v)
  OBVIOUS
<1>3. t \in Seq(V) /\ Len(t) = n + 1 /\ \A i \in 1..(n + 1) : t[i] = IF i <= n THEN s[i] ELSE v
  BY <1>1, <1>2
<1>4. t = [i \in 1..(n + 1) |-> t[i]]
  BY <1>3
<1>5. t = [i \in 1..(n + 1) |-> IF i <= n THEN s[i] ELSE v]
  BY <1>3, <1>4
<1> QED
  BY <1>2, <1>5

LEMMA PutMoves ==
  ASSUME NEW d, NEW K \in SUBSET Int, NEW V, Entries(d, K, V), Climbing(d),
         NEW k \in K, NEW v \in V,
         NEW q, q = PutIn(d, UpperIn(d, k), [key |-> k, val |-> v]), NEW j \in Int
  PROVE  /\ LowerIn(q, j) = IF k < j THEN LowerIn(d, j) + 1 ELSE LowerIn(d, j)
         /\ UpperIn(q, j) = IF k <= j THEN UpperIn(d, j) + 1 ELSE UpperIn(d, j)
         /\ Entries(q, K, V) /\ Climbing(q)
<1>1. PICK m : m = UpperIn(d, k)
  OBVIOUS
<1>2. k \in Int /\ Upper(d, k, m)
  BY <1>1, BoundsIn
<1>3. /\ Entries(q, K, V) /\ Climbing(q)
      /\ \A n : Lower(d, j, n) => Lower(q, j, IF k < j THEN n + 1 ELSE n)
      /\ \A n : Upper(d, j, n) => Upper(q, j, IF k <= j THEN n + 1 ELSE n)
  BY <1>1, <1>2, BoundsAfterPut
<1>4. Lower(d, j, LowerIn(d, j)) /\ Upper(d, j, UpperIn(d, j))
  BY BoundsIn
<1>5. Lower(q, j, IF k < j THEN LowerIn(d, j) + 1 ELSE LowerIn(d, j))
  BY <1>3, <1>4
<1>6. Upper(q, j, IF k <= j THEN UpperIn(d, j) + 1 ELSE UpperIn(d, j))
  BY <1>3, <1>4
<1> QED
  BY <1>3, <1>5, <1>6, BoundsAre

LEMMA PutValues ==
  ASSUME NEW d, NEW K \in SUBSET Int, NEW V, Entries(d, K, V), Climbing(d),
         NEW k \in K, NEW v \in V,
         NEW q, q = PutIn(d, UpperIn(d, k), [key |-> k, val |-> v]), NEW j \in Int
  PROVE  ValuesIn(q, j) = IF j = k THEN Append(ValuesIn(d, j), v) ELSE ValuesIn(d, j)
<1>1. PICK m : m = UpperIn(d, k)
  OBVIOUS
<1>2. PICK a : a = LowerIn(d, j)
  OBVIOUS
<1>3. PICK b : b = UpperIn(d, j)
  OBVIOUS
<1>4. PICK e : e = [key |-> k, val |-> v]
  OBVIOUS
<1>5. PICK E : E = [key : K, val : V]
  OBVIOUS
<1>6. /\ k \in Int /\ m \in Nat /\ m <= Len(d) /\ Len(d) \in Nat
      /\ a \in Nat /\ b \in Nat /\ a <= b /\ b <= Len(d)
  BY <1>1, <1>2, <1>3, BoundsIn, EntriesAre
<1>7. /\ LowerIn(q, j) = IF k < j THEN a + 1 ELSE a
      /\ UpperIn(q, j) = IF k <= j THEN b + 1 ELSE b
  BY <1>2, <1>3, PutMoves
<1>8. d \in Seq(E) /\ e \in E /\ e.val = v /\ \A i \in 1..Len(d) : d[i].val \in V
  <2>1. d \in Seq(E) /\ e \in E /\ e.val = v
    BY <1>4, <1>5 DEF Entries
  <2>2. \A i \in 1..Len(d) : d[i] \in E
    BY <2>1
  <2> QED
    BY <1>5, <2>1, <2>2
<1>9. \A i \in 1..(Len(d) + 1) :
        q[i] = IF i <= m THEN d[i] ELSE IF i = m + 1 THEN e ELSE d[i - 1]
  <2>1. m \in 0..Len(d)
    BY <1>6
  <2>2. q = PutIn(d, m, e)
    BY <1>1, <1>4
  <2>3. HasPut(q, d, m, e)
    BY <1>8, <2>1, <2>2, PutInIs, Zenon
  <2> QED
    BY <2>3 DEF HasPut
<1>10. CASE j < k
  <2>1. b <= m
    <3>1. b <= LowerIn(d, k) /\ LowerIn(d, k) <= m /\ LowerIn(d, k) \in Nat
      BY <1>1, <1>3, <1>6, <1>10, BoundsApart, BoundsIn
    <3> QED
      BY <1>6, <3>1
  <2>2. LowerIn(q, j) = a /\ UpperIn(q, j) = b
    BY <1>6, <1>7, <1>10
  <2>3. ASSUME NEW i \in 1..(b - a) PROVE q[a + i] = d[a + i]
    BY <1>6, <1>9, <2>1
  <2>4. [i \in 1..(b - a) |-> q[a + i].val] = [i \in 1..(b - a) |-> d[a + i].val]
    BY <2>3
  <2> QED
    <3>1. ValuesIn(q, j) = [i \in 1..(b - a) |-> q[a + i].val]
      BY <2>2 DEF ValuesIn
    <3>2. ValuesIn(d, j) = [i \in 1..(b - a) |-> d[a + i].val]
      BY <1>2, <1>3 DEF ValuesIn
    <3>3. j # k
      BY <1>6, <1>10
    <3> QED
      BY <2>4, <3>1, <3>2, <3>3, Zenon
<1>11. CASE k < j
  <2>1. m <= a
    BY <1>1, <1>2, <1>6, <1>11, BoundsApart
  <2>2. LowerIn(q, j) = a + 1 /\ UpperIn(q, j) = b + 1 /\ (b + 1) - (a + 1) = b - a
    BY <1>6, <1>7, <1>11
  <2>3. ASSUME NEW i \in 1..(b - a) PROVE q[a + 1 + i] = d[a + i]
    <3>1. a + 1 + i \in 1..(Len(d) + 1) /\ a + 1 + i > m + 1 /\ (a + 1 + i) - 1 = a + i
      BY <1>6, <2>1
    <3> QED
      BY <1>6, <1>9, <3>1
  <2>4. [i \in 1..(b - a) |-> q[a + 1 + i].val] = [i \in 1..(b - a) |-> d[a + i].val]
    BY <2>3
  <2> QED
    <3>1. ValuesIn(q, j) = [i \in 1..(b - a) |-> q[a + 1 + i].val]
      BY <2>2 DEF ValuesIn
    <3>2. ValuesIn(d, j) = [i \in 1..(b - a) |-> d[a + i].val]
      BY <1>2, <1>3 DEF ValuesIn
    <3>3. j # k
      BY <1>6, <1>11
    <3> QED
      BY <2>4, <3>1, <3>2, <3>3, Zenon
<1>12. CASE j = k
  <2>1. b = m /\ LowerIn(q, j) = a /\ UpperIn(q, j) = b + 1
    BY <1>1, <1>3, <1>6, <1>7, <1>12
  <2>2. PICK n \in Nat : n = b - a
    BY <1>6
  <2>3. PICK s : s = ValuesIn(d, j)
    OBVIOUS
  <2>4. s = [i \in 1..n |-> d[a + i].val]
    BY <1>2, <1>3, <2>2, <2>3 DEF ValuesIn
  <2>5. \A i \in 1..n : s[i] = d[a + i].val /\ s[i] \in V
    <3>1. \A i \in 1..n : a + i \in 1..Len(d)
      BY <1>6, <2>2
    <3> QED
      BY <1>8, <2>4, <3>1
  <2>6. Append(s, v) = [i \in 1..(n + 1) |-> IF i <= n THEN s[i] ELSE v]
    <3>1. s = [i \in 1..n |-> s[i]]
      BY <2>4
    <3> QED
      BY <2>5, <3>1, AppendIs
  <2>7. ASSUME NEW i \in 1..(n + 1) PROVE q[a + i].val = IF i <= n THEN s[i] ELSE v
    <3>1. a + i \in 1..(Len(d) + 1) /\ (i <= n <=> a + i <= m) /\ (~ (i <= n) => a + i = m + 1)
      BY <1>6, <2>1, <2>2
    <3>2. CASE i <= n
      <4>1. q[a + i] = d[a + i]
        BY <1>9, <3>1, <3>2
      <4> QED
        BY <2>5, <3>2, <4>1
    <3>3. CASE ~ (i <= n)
      <4>1. q[a + i] = e
        BY <1>9, <3>1, <3>3
      <4> QED
        BY <1>8, <3>3, <4>1
    <3> QED
      BY <3>2, <3>3
  <2>8. [i \in 1..(n + 1) |-> q[a + i].val] = Append(s, v)
    BY <2>6, <2>7
  <2>9. ValuesIn(q, j) = [i \in 1..(n + 1) |-> q[a + i].val]
    <3>1. (b + 1) - a = n + 1
      BY <1>6, <2>2
    <3> QED
      BY <2>1, <3>1 DEF ValuesIn
  <2> QED
    BY <1>12, <2>3, <2>8, <2>9
<1> QED
  BY <1>6, <1>10, <1>11, <1>12

LEMMA CutMoves ==
  ASSUME NEW d, NEW K \in SUBSET Int, NEW V, Entries(d, K, V), Climbing(d),
         NEW k \in Int, CountIn(d, k) > 0,
         NEW q, q = CutOut(d, LowerIn(d, k), CountIn(d, k)), NEW j \in Int
  PROVE  /\ Entries(q, K, V) /\ Climbing(q)
         /\ j < k => LowerIn(q, j) = LowerIn(d, j) /\ UpperIn(q, j) = UpperIn(d, j)
         /\ j = k => LowerIn(q, j) = LowerIn(d, j) /\ UpperIn(q, j) = LowerIn(d, j)
         /\ k < j => /\ LowerIn(q, j) = LowerIn(d, j) - CountIn(d, k)
                     /\ UpperIn(q, j) = UpperIn(d, j) - CountIn(d, k)
<1>1. PICK a : a = LowerIn(d, k)
  OBVIOUS
<1>2. PICK m : m = UpperIn(d, k)
  OBVIOUS
<1>3. PICK c : c = CountIn(d, k)
  OBVIOUS
<1>4. PICK l : l = LowerIn(d, j)
  OBVIOUS
<1>5. PICK u : u = UpperIn(d, j)
  OBVIOUS
<1>6. /\ a \in Nat /\ m \in Nat /\ a <= m /\ m <= Len(d) /\ Len(d) \in Nat
      /\ l \in Nat /\ u \in Nat /\ l <= u /\ Lower(d, j, l) /\ Upper(d, j, u)
  BY <1>1, <1>2, <1>4, <1>5, BoundsIn, EntriesAre
<1>7. c \in Nat /\ c > 0 /\ a + c = m
  BY <1>1, <1>2, <1>3, <1>6 DEF CountIn
<1>8. /\ Entries(q, K, V) /\ Climbing(q)
      /\ l <= a \/ a + c <= l => Lower(q, j, IF l <= a THEN l ELSE l - c)
      /\ u <= a \/ a + c <= u => Upper(q, j, IF u <= a THEN u ELSE u - c)
  <2>1. a + c <= Len(d) /\ q = CutOut(d, a, c)
    BY <1>1, <1>3, <1>6, <1>7
  <2>2. /\ Entries(q, K, V) /\ Climbing(q)
        /\ \A n : Lower(d, j, n) /\ (n <= a \/ a + c <= n)
                 => Lower(q, j, IF n <= a THEN n ELSE n - c)
        /\ \A n : Upper(d, j, n) /\ (n <= a \/ a + c <= n)
                 => Upper(q, j, IF n <= a THEN n ELSE n - c)
    <3>1. a \in Nat /\ c \in Nat
      BY <1>6, <1>7
    <3> QED
      BY <2>1, <3>1, BoundsAfterCut
  <2>3. Lower(d, j, l) /\ Upper(d, j, u)
    BY <1>6
  <2> QED
    BY <2>2, <2>3
<1>9. CASE j < k
  <2>1. u <= a /\ l <= a
    <3>1. u <= a
      BY <1>1, <1>5, <1>9, BoundsApart
    <3> QED
      BY <1>6, <3>1
  <2>2. Lower(q, j, l) /\ Upper(q, j, u)
    BY <1>8, <2>1
  <2> QED
    BY <1>4, <1>5, <1>8, <1>9, <2>2, BoundsAre
<1>10. CASE j = k
  <2>1. l = a /\ u = m /\ ~ (m <= a) /\ m - c = a /\ a <= a
    BY <1>1, <1>2, <1>4, <1>5, <1>6, <1>7, <1>10
  <2>2. Lower(q, j, a) /\ Upper(q, j, a)
    BY <1>6, <1>7, <1>8, <2>1
  <2> QED
    BY <1>1, <1>4, <1>8, <1>10, <2>1, <2>2, BoundsAre
<1>11. CASE k < j
  <2>1. m <= l /\ m <= u /\ ~ (l <= a) /\ ~ (u <= a)
    <3>1. m <= l
      BY <1>2, <1>4, <1>11, BoundsApart
    <3> QED
      BY <1>6, <1>7, <3>1
  <2>2. Lower(q, j, l - c) /\ Upper(q, j, u - c)
    BY <1>7, <1>8, <2>1
  <2> QED
    BY <1>3, <1>4, <1>5, <1>8, <1>11, <2>2, BoundsAre
<1> QED
  BY <1>8, <1>9, <1>10, <1>11

LEMMA CutValues ==
  ASSUME NEW d, NEW K \in SUBSET Int, NEW V, Entries(d, K, V), Climbing(d),
         NEW k \in Int, CountIn(d, k) > 0,
         NEW q, q = CutOut(d, LowerIn(d, k), CountIn(d, k)), NEW j \in Int
  PROVE  ValuesIn(q, j) = IF j = k THEN <<>> ELSE ValuesIn(d, j)
<1>1. PICK a : a = LowerIn(d, k)
  OBVIOUS
<1>2. PICK c : c = CountIn(d, k)
  OBVIOUS
<1>3. PICK l : l = LowerIn(d, j)
  OBVIOUS
<1>4. PICK u : u = UpperIn(d, j)
  OBVIOUS
<1>5. /\ a \in Nat /\ Len(d) \in Nat /\ UpperIn(d, k) \in Nat /\ UpperIn(d, k) <= Len(d)
      /\ l \in Nat /\ u \in Nat /\ l <= u /\ u <= Len(d)
  BY <1>1, <1>3, <1>4, BoundsIn, EntriesAre
<1>6. c \in Nat /\ c > 0 /\ a + c = UpperIn(d, k) /\ a + c <= Len(d)
  BY <1>1, <1>2, <1>5 DEF CountIn
<1>7. \A i \in 1..(Len(d) - c) : q[i] = IF i <= a THEN d[i] ELSE d[i + c]
  <2>1. PICK E : E = [key : K, val : V]
    OBVIOUS
  <2>2. d \in Seq(E) /\ q = CutOut(d, a, c)
    BY <1>1, <1>2, <2>1 DEF Entries
  <2>3. a \in Nat /\ c \in Nat /\ a + c <= Len(d)
    BY <1>5, <1>6
  <2>4. IsCut(CutOut(d, a, c), d, a, c, E)
    BY <2>2, <2>3, CutOutIs
  <2>5. IsCut(q, d, a, c, E)
    BY <2>2, <2>4, Zenon
  <2> QED
    BY <2>5, Zenon DEF IsCut
<1>8. CASE j < k
  <2>1. LowerIn(q, j) = l /\ UpperIn(q, j) = u
    BY <1>3, <1>4, <1>8, CutMoves
  <2>2. u <= a
    BY <1>1, <1>4, <1>8, BoundsApart
  <2>3. ASSUME NEW i \in 1..(u - l) PROVE q[l + i] = d[l + i]
    BY <1>5, <1>6, <1>7, <2>2
  <2>4. [i \in 1..(u - l) |-> q[l + i].val] = [i \in 1..(u - l) |-> d[l + i].val]
    BY <2>3
  <2> QED
    <3>1. ValuesIn(q, j) = [i \in 1..(u - l) |-> q[l + i].val]
      BY <2>1 DEF ValuesIn
    <3>2. ValuesIn(d, j) = [i \in 1..(u - l) |-> d[l + i].val]
      BY <1>3, <1>4 DEF ValuesIn
    <3>3. j # k
      BY <1>8
    <3> QED
      BY <2>4, <3>1, <3>2, <3>3, Zenon
<1>9. CASE j = k
  <2>1. LowerIn(q, j) = l /\ UpperIn(q, j) = l
    BY <1>3, <1>9, CutMoves
  <2>2. 1..(l - l) = {}
    BY <1>5
  <2>3. ValuesIn(q, j) = [i \in {} |-> q[l + i].val]
    BY <2>1, <2>2 DEF ValuesIn
  <2>4. [i \in {} |-> q[l + i].val] = <<>>
    OBVIOUS
  <2> QED
    BY <1>9, <2>3, <2>4
<1>10. CASE k < j
  <2>1. LowerIn(q, j) = l - c /\ UpperIn(q, j) = u - c /\ (u - c) - (l - c) = u - l
    <3>1. LowerIn(q, j) = l - c /\ UpperIn(q, j) = u - c
      BY <1>2, <1>3, <1>4, <1>10, CutMoves
    <3> QED
      BY <1>5, <1>6, <3>1
  <2>2. a + c <= l
    BY <1>3, <1>6, <1>10, BoundsApart
  <2>3. ASSUME NEW i \in 1..(u - l) PROVE q[(l - c) + i] = d[l + i]
    <3>1. (l - c) + i \in 1..(Len(d) - c) /\ ~ ((l - c) + i <= a) /\ ((l - c) + i) + c = l + i
      BY <1>5, <1>6, <2>2
    <3> QED
      BY <1>7, <3>1
  <2>4. [i \in 1..(u - l) |-> q[(l - c) + i].val] = [i \in 1..(u - l) |-> d[l + i].val]
    BY <2>3
  <2> QED
    <3>1. ValuesIn(q, j) = [i \in 1..(u - l) |-> q[(l - c) + i].val]
      BY <2>1 DEF ValuesIn
    <3>2. ValuesIn(d, j) = [i \in 1..(u - l) |-> d[l + i].val]
      BY <1>3, <1>4 DEF ValuesIn
    <3>3. j # k
      BY <1>10
    <3> QED
      BY <2>4, <3>1, <3>2, <3>3, Zenon
<1> QED
  <2>1. j < k \/ j = k \/ k < j
    OBVIOUS
  <2> QED
    BY <1>8, <1>9, <1>10, <2>1

LEMMA RepeatedAreInts == RepeatedKeys \in SUBSET Int
BY SortedAssumption DEF MM!FlatMultimapAssumption

MultiInv == Entries(run, RepeatedKeys, Mapped) /\ Climbing(run)
BagInv == Entries(ranks, RepeatedKeys, {NoValue}) /\ Climbing(ranks)

LEMMA MultiBounds ==
  ASSUME NEW k
  PROVE  /\ MM!LowerBound(k) = LowerIn(run, k) /\ MM!UpperBound(k) = UpperIn(run, k)
         /\ MM!LowerBound(k)' = LowerIn(run', k) /\ MM!UpperBound(k)' = UpperIn(run', k)
<1>1. \A n, before : MM!FirstNot(n, before) = SearchOf(n, before)
  BY SameSearch, Zenon
<1>2. MM!LowerBound(k) = LowerIn(run, k) /\ MM!UpperBound(k) = UpperIn(run, k)
  BY <1>1, Zenon DEF MM!LowerBound, MM!UpperBound, MM!Slots, LowerIn, UpperIn
<1>3. MM!LowerBound(k)' = LowerIn(run', k) /\ MM!UpperBound(k)' = UpperIn(run', k)
  BY <1>1, Zenon DEF MM!LowerBound, MM!UpperBound, MM!Slots, LowerIn, UpperIn
<1> QED
  BY <1>2, <1>3

LEMMA BagBounds ==
  ASSUME NEW k
  PROVE  /\ FB!Flat!LowerBound(k) = LowerIn(ranks, k) /\ FB!Flat!UpperBound(k) = UpperIn(ranks, k)
         /\ FB!Flat!LowerBound(k)' = LowerIn(ranks', k)
         /\ FB!Flat!UpperBound(k)' = UpperIn(ranks', k)
<1>1. \A n, before : FB!Flat!FirstNot(n, before) = SearchOf(n, before)
  BY SameSearch, Zenon
<1>2. FB!Flat!LowerBound(k) = LowerIn(ranks, k) /\ FB!Flat!UpperBound(k) = UpperIn(ranks, k)
  BY <1>1, Zenon DEF FB!Flat!LowerBound, FB!Flat!UpperBound, FB!Flat!Slots, LowerIn, UpperIn
<1>3. /\ FB!Flat!LowerBound(k)' = LowerIn(ranks', k)
      /\ FB!Flat!UpperBound(k)' = UpperIn(ranks', k)
  BY <1>1, Zenon DEF FB!Flat!LowerBound, FB!Flat!UpperBound, FB!Flat!Slots, LowerIn, UpperIn
<1> QED
  BY <1>2, <1>3

LEMMA MultiValues ==
  ASSUME NEW k
  PROVE  MM!ValuesOf(k) = ValuesIn(run, k) /\ MM!ValuesOf(k)' = ValuesIn(run', k)
<1>1. MM!ValuesOf(k) = ValuesIn(run, k)
  BY MultiBounds, Zenon DEF MM!ValuesOf, MM!Count, ValuesIn
<1>2. MM!ValuesOf(k)' = ValuesIn(run', k)
  BY MultiBounds, Zenon DEF MM!ValuesOf, MM!Count, ValuesIn
<1> QED
  BY <1>1, <1>2

LEMMA BagCounts ==
  ASSUME NEW k
  PROVE  FB!Count(k) = CountIn(ranks, k) /\ FB!Count(k)' = CountIn(ranks', k)
<1>1. FB!Count(k) = CountIn(ranks, k)
  BY BagBounds, Zenon DEF FB!Count, FB!Flat!Count, CountIn
<1>2. FB!Count(k)' = CountIn(ranks', k)
  BY BagBounds, Zenon DEF FB!Count, FB!Flat!Count, CountIn
<1> QED
  BY <1>1, <1>2

LEMMA MultiInserts ==
  ASSUME MultiInv, NEW k \in RepeatedKeys, NEW v \in Mapped, MM!Insert(k, v)
  PROVE  /\ MultiInv'
         /\ \A j \in RepeatedKeys :
              MM!ValuesOf(j)' = IF j = k THEN Append(MM!ValuesOf(j), v) ELSE MM!ValuesOf(j)
<1>1. RepeatedKeys \in SUBSET Int /\ Entries(run, RepeatedKeys, Mapped) /\ Climbing(run)
  BY RepeatedAreInts DEF MultiInv
<1>2. PICK q : q = run'
  OBVIOUS
<1>3. q = PutIn(run, UpperIn(run, k), [key |-> k, val |-> v])
  <2>1. PICK m \in Nat : m = UpperIn(run, k)
    BY <1>1, BoundsIn
  <2>2. PICK e : e = [key |-> k, val |-> v]
    OBVIOUS
  <2>3. q = MM!InsertAt(run, m + 1, e)
    BY <1>2, <2>1, <2>2, MultiBounds DEF MM!Insert
  <2>4. m \in Nat /\ (m + 1) - 1 = m
    BY <2>1
  <2>5. MM!InsertAt(run, m + 1, e) = PutIn(run, m, e)
    BY <2>4 DEF MM!InsertAt, PutIn
  <2> QED
    BY <2>1, <2>2, <2>3, <2>5
<1>4. Entries(q, RepeatedKeys, Mapped) /\ Climbing(q)
  BY <1>1, <1>3, PutMoves
<1>5. ASSUME NEW j \in RepeatedKeys
      PROVE  ValuesIn(q, j) = IF j = k THEN Append(ValuesIn(run, j), v) ELSE ValuesIn(run, j)
  BY <1>1, <1>3, PutValues
<1> QED
  BY <1>2, <1>4, <1>5, MultiValues DEF MultiInv, Entries, Climbing

LEMMA MultiErases ==
  ASSUME MultiInv, NEW k \in RepeatedKeys, MM!Erase(k)
  PROVE  /\ MultiInv'
         /\ \A j \in RepeatedKeys : MM!ValuesOf(j)' = IF j = k THEN <<>> ELSE MM!ValuesOf(j)
<1>1. RepeatedKeys \in SUBSET Int /\ Entries(run, RepeatedKeys, Mapped) /\ Climbing(run)
  BY RepeatedAreInts DEF MultiInv
<1>2. PICK q : q = run'
  OBVIOUS
<1>3. CountIn(run, k) > 0 /\ q = CutOut(run, LowerIn(run, k), CountIn(run, k))
  BY <1>2, MultiBounds DEF MM!Erase, MM!Count, CountIn, CutOut
<1>4. Entries(q, RepeatedKeys, Mapped) /\ Climbing(q)
  BY <1>1, <1>3, CutMoves
<1>5. ASSUME NEW j \in RepeatedKeys
      PROVE  ValuesIn(q, j) = IF j = k THEN <<>> ELSE ValuesIn(run, j)
  BY <1>1, <1>3, CutValues
<1> QED
  BY <1>2, <1>4, <1>5, MultiValues DEF MultiInv, Entries, Climbing

LEMMA MultiSteps ==
  /\ MM!Init => MultiInv
  /\ MultiInv /\ [MM!Next]_run => MultiInv'
<1>1. ASSUME MM!Init PROVE MultiInv
  <2>1. Entries(run, RepeatedKeys, Mapped) /\ Rising(run) /\ 1..Len(run) = {}
    BY <1>1, EmptySpelled DEF MM!Init
  <2> QED
    BY <2>1 DEF MultiInv, Climbing
<1>2. ASSUME MultiInv, [MM!Next]_run PROVE MultiInv'
  <2>1. CASE UNCHANGED run
    BY <1>2, <2>1 DEF MultiInv, Entries, Climbing
  <2>2. CASE MM!Clear
    <3>1. PICK q : q = run'
      OBVIOUS
    <3>2. Entries(q, RepeatedKeys, Mapped) /\ 1..Len(q) = {}
      BY <2>2, <3>1, EmptySpelled DEF MM!Clear
    <3> QED
      BY <3>1, <3>2 DEF MultiInv, Entries, Climbing
  <2>3. ASSUME NEW k \in RepeatedKeys, MM!Erase(k) PROVE MultiInv'
    BY <1>2, <2>3, MultiErases
  <2>4. ASSUME NEW k \in RepeatedKeys, NEW v \in Mapped, MM!Insert(k, v) PROVE MultiInv'
    BY <1>2, <2>4, MultiInserts
  <2> QED
    BY <1>2, <2>1, <2>2, <2>3, <2>4 DEF MM!Next
<1> QED
  BY <1>1, <1>2

(* In multimap an insertion puts its value behind those its key has, erase   *)
(* takes all of a key's values, and neither touches another key's.           *)
THEOREM MultimapRefines == MM!Spec => MM!QueuesPerKey
<1>1. MM!Init => MultiInv
  BY MultiSteps
<1>2. MultiInv /\ [MM!Next]_run => MultiInv'
  BY MultiSteps
<1>3. MultiInv => \A k, j \in RepeatedKeys :
                    /\ \A v \in Mapped :
                         MM!Insert(k, v)
                           => MM!ValuesOf(j)' = IF j = k THEN Append(MM!ValuesOf(j), v)
                                                ELSE MM!ValuesOf(j)
                    /\ MM!Erase(k)
                         => MM!ValuesOf(j)' = IF j = k THEN <<>> ELSE MM!ValuesOf(j)
  BY MultiInserts, MultiErases
<1> QED
  BY <1>1, <1>2, <1>3, PTL DEF MM!Spec, MM!QueuesPerKey

LEMMA BagInserts ==
  ASSUME BagInv, NEW k \in RepeatedKeys, FB!Insert(k)
  PROVE  /\ BagInv'
         /\ \A j \in RepeatedKeys : FB!Count(j)' = FB!Count(j) + (IF j = k THEN 1 ELSE 0)
<1>1. RepeatedKeys \in SUBSET Int /\ Entries(ranks, RepeatedKeys, {NoValue}) /\ Climbing(ranks)
  BY RepeatedAreInts DEF BagInv
<1>2. PICK q : q = ranks'
  OBVIOUS
<1>3. q = PutIn(ranks, UpperIn(ranks, k), [key |-> k, val |-> NoValue])
  <2>1. PICK m \in Nat : m = UpperIn(ranks, k)
    BY <1>1, BoundsIn
  <2>2. PICK e : e = [key |-> k, val |-> NoValue]
    OBVIOUS
  <2>3. q = FB!Flat!InsertAt(ranks, m + 1, e)
    BY <1>2, <2>1, <2>2, BagBounds DEF FB!Insert, FB!Flat!Insert
  <2>4. m \in Nat /\ (m + 1) - 1 = m
    BY <2>1
  <2>5. FB!Flat!InsertAt(ranks, m + 1, e) = PutIn(ranks, m, e)
    BY <2>4 DEF FB!Flat!InsertAt, PutIn
  <2> QED
    BY <2>1, <2>2, <2>3, <2>5
<1>4. Entries(q, RepeatedKeys, {NoValue}) /\ Climbing(q)
  BY <1>1, <1>3, PutMoves
<1>5. ASSUME NEW j \in RepeatedKeys
      PROVE  CountIn(q, j) = CountIn(ranks, j) + (IF j = k THEN 1 ELSE 0)
  <2>1. /\ LowerIn(q, j) = IF k < j THEN LowerIn(ranks, j) + 1 ELSE LowerIn(ranks, j)
        /\ UpperIn(q, j) = IF k <= j THEN UpperIn(ranks, j) + 1 ELSE UpperIn(ranks, j)
    BY <1>1, <1>3, PutMoves
  <2>2. LowerIn(ranks, j) \in Nat /\ UpperIn(ranks, j) \in Nat /\ j \in Int /\ k \in Int
    BY <1>1, BoundsIn
  <2> QED
    BY <2>1, <2>2 DEF CountIn
<1> QED
  BY <1>2, <1>4, <1>5, BagCounts DEF BagInv, Entries, Climbing

LEMMA BagErases ==
  ASSUME BagInv, NEW k \in RepeatedKeys, FB!Erase(k)
  PROVE  /\ BagInv'
         /\ \A j \in RepeatedKeys : FB!Count(j)' = IF j = k THEN 0 ELSE FB!Count(j)
<1>1. RepeatedKeys \in SUBSET Int /\ Entries(ranks, RepeatedKeys, {NoValue}) /\ Climbing(ranks)
  BY RepeatedAreInts DEF BagInv
<1>2. PICK q : q = ranks'
  OBVIOUS
<1>3. CountIn(ranks, k) > 0 /\ q = CutOut(ranks, LowerIn(ranks, k), CountIn(ranks, k))
  BY <1>2, BagBounds DEF FB!Erase, FB!Flat!Erase, FB!Flat!Count, CountIn, CutOut
<1>4. Entries(q, RepeatedKeys, {NoValue}) /\ Climbing(q)
  BY <1>1, <1>3, CutMoves
<1>5. ASSUME NEW j \in RepeatedKeys
      PROVE  CountIn(q, j) = IF j = k THEN 0 ELSE CountIn(ranks, j)
  <2>1. /\ j < k => LowerIn(q, j) = LowerIn(ranks, j) /\ UpperIn(q, j) = UpperIn(ranks, j)
        /\ j = k => LowerIn(q, j) = LowerIn(ranks, j) /\ UpperIn(q, j) = LowerIn(ranks, j)
        /\ k < j => /\ LowerIn(q, j) = LowerIn(ranks, j) - CountIn(ranks, k)
                    /\ UpperIn(q, j) = UpperIn(ranks, j) - CountIn(ranks, k)
    BY <1>1, <1>3, CutMoves
  <2>2. /\ LowerIn(ranks, j) \in Nat /\ UpperIn(ranks, j) \in Nat /\ j \in Int /\ k \in Int
        /\ LowerIn(ranks, k) \in Nat /\ UpperIn(ranks, k) \in Nat
    BY <1>1, BoundsIn
  <2> QED
    BY <2>1, <2>2 DEF CountIn
<1> QED
  BY <1>2, <1>4, <1>5, BagCounts DEF BagInv, Entries, Climbing

LEMMA BagClears ==
  ASSUME FB!Clear PROVE BagInv' /\ \A j \in RepeatedKeys : FB!Count(j)' = 0
<1>1. PICK q : q = ranks'
  OBVIOUS
<1>2. q = <<>>
  BY <1>1 DEF FB!Clear, FB!Flat!Clear
<1>3. Entries(q, RepeatedKeys, {NoValue}) /\ Climbing(q) /\ Len(q) = 0
  <2>1. Entries(q, RepeatedKeys, {NoValue}) /\ Len(q) = 0
    BY <1>2, EmptySpelled
  <2> QED
    BY <2>1 DEF Climbing
<1>4. ASSUME NEW j \in RepeatedKeys PROVE CountIn(q, j) = 0
  <2>1. /\ LowerIn(q, j) \in Nat /\ UpperIn(q, j) \in Nat
        /\ LowerIn(q, j) <= UpperIn(q, j) /\ UpperIn(q, j) <= 0
    BY <1>3, RepeatedAreInts, BoundsIn
  <2> QED
    BY <2>1 DEF CountIn
<1> QED
  BY <1>1, <1>3, <1>4, BagCounts DEF BagInv, Entries, Climbing

LEMMA BagSteps ==
  /\ FB!Init => BagInv
  /\ BagInv /\ [FB!Next]_ranks => BagInv'
<1>1. ASSUME FB!Init PROVE BagInv
  <2>1. Entries(ranks, RepeatedKeys, {NoValue}) /\ 1..Len(ranks) = {}
    BY <1>1, EmptySpelled DEF FB!Init, FB!Flat!Init
  <2> QED
    BY <2>1 DEF BagInv, Climbing
<1>2. ASSUME BagInv, [FB!Next]_ranks PROVE BagInv'
  <2>1. CASE UNCHANGED ranks
    BY <1>2, <2>1 DEF BagInv, Entries, Climbing
  <2> QED
    BY <1>2, <2>1, BagInserts, BagErases, BagClears DEF FB!Next
<1> QED
  BY <1>1, <1>2

(* multiset counts its keys: insert adds one, erase takes all of a key,      *)
(* clear takes everything.                                                   *)
THEOREM MultisetRefines == FB!Spec => FB!BehavesLikeBag
<1>1. FB!Init => BagInv
  BY BagSteps
<1>2. BagInv /\ [FB!Next]_ranks => BagInv'
  BY BagSteps
<1>3. BagInv => \A k, j \in RepeatedKeys :
                  /\ FB!Insert(k) => FB!Count(j)' = FB!Count(j) + (IF j = k THEN 1 ELSE 0)
                  /\ FB!Erase(k) => FB!Count(j)' = IF j = k THEN 0 ELSE FB!Count(j)
                  /\ FB!Clear => FB!Count(j)' = 0
  BY BagInserts, BagErases, BagClears
<1> QED
  BY <1>1, <1>2, <1>3, PTL DEF FB!Spec, FB!BehavesLikeBag
-----------------------------------------------------------------------------
LEMMA MultiSearchable == MultiInv => MM!Searchable
<1>1. SUFFICES ASSUME MultiInv PROVE MM!Searchable
  OBVIOUS
<1>2. RepeatedKeys \in SUBSET Int /\ Entries(run, RepeatedKeys, Mapped) /\ Climbing(run)
  BY <1>1, RepeatedAreInts DEF MultiInv
<1>3. \A i, j \in DOMAIN run : i < j => run[i].key <= run[j].key
  BY <1>2, EntriesAre DEF Climbing
<1>4. ASSUME NEW k \in RepeatedKeys
      PROVE  {i \in DOMAIN run : run[i].key = k} = (MM!LowerBound(k) + 1)..MM!UpperBound(k)
  BY <1>2, Enclosed, MultiBounds
<1> QED
  BY <1>3, <1>4 DEF MM!Searchable

LEMMA BagSearchable == BagInv => FB!Searchable
<1>1. SUFFICES ASSUME BagInv PROVE FB!Flat!Searchable
  BY DEF FB!Searchable
<1>2. RepeatedKeys \in SUBSET Int /\ Entries(ranks, RepeatedKeys, {NoValue}) /\ Climbing(ranks)
  BY <1>1, RepeatedAreInts DEF BagInv
<1>3. \A i, j \in DOMAIN ranks : i < j => ranks[i].key <= ranks[j].key
  BY <1>2, EntriesAre DEF Climbing
<1>4. ASSUME NEW k \in RepeatedKeys
      PROVE  {i \in DOMAIN ranks : ranks[i].key = k}
               = (FB!Flat!LowerBound(k) + 1)..FB!Flat!UpperBound(k)
  BY <1>2, Enclosed, BagBounds
<1> QED
  BY <1>3, <1>4 DEF FB!Flat!Searchable

(* Entries of the four sorted containers stay in key order and halving finds *)
(* exactly what is there, for every set of integer keys (map.hpp, set.hpp,   *)
(* multimap.hpp, multiset.hpp).                                              *)
THEOREM SortedLookups == FM!Spec /\ FS!Spec /\ MM!Spec /\ FB!Spec => []LookupsExact
<1>1. FM!Init => MapInv
  BY MapEmpty
<1>2. MapInv /\ [FM!Next]_data => MapInv'
  BY MapSteps
<1>3. FS!Init => SetInv
  BY SetEmpty
<1>4. SetInv /\ [FS!Next]_members => SetInv'
  BY SetSteps
<1>5. MM!Init => MultiInv
  BY MultiSteps
<1>6. MultiInv /\ [MM!Next]_run => MultiInv'
  BY MultiSteps
<1>7. FB!Init => BagInv
  BY BagSteps
<1>8. BagInv /\ [FB!Next]_ranks => BagInv'
  BY BagSteps
<1>9. MapInv /\ SetInv /\ MultiInv /\ BagInv => LookupsExact
  BY MapSearchable, SetSearchable, MultiSearchable, BagSearchable DEF LookupsExact
<1> QED
  BY <1>1, <1>2, <1>3, <1>4, <1>5, <1>6, <1>7, <1>8, <1>9, PTL
     DEF FM!Spec, FS!Spec, MM!Spec, FB!Spec
-----------------------------------------------------------------------------
(* priority_queue, of any integers. *)
CONSTANTS QueueValues, QueueBound
VARIABLE heap
PQ == INSTANCE PriorityQueue WITH Values <- QueueValues, MaxSize <- QueueBound

(* A function that is out[w] on stop and its value at next[w] elsewhere; it  *)
(* exists if next lowers a rank, and leads from where an invariant holds to  *)
(* where it holds and stops.                                                 *)
Leads(f, D, stop, next, out) == f = [w \in D |-> IF w \in stop THEN out[w] ELSE f[next[w]]]
Lowers(next, rank, D, stop) ==
  /\ rank \in [D -> Nat]
  /\ \A w \in D : w \notin stop => next[w] \in D /\ rank[next[w]] < rank[w]
LeadsBelow(f, n, rank, D, stop, next, out) ==
  \A w \in D : rank[w] < n => f[w] = IF w \in stop THEN out[w] ELSE f[next[w]]

LEMMA LeadsAlike ==
  ASSUME NEW D, NEW stop, NEW next, NEW out, NEW rank, Lowers(next, rank, D, stop),
         NEW n \in Nat, NEW f, LeadsBelow(f, n, rank, D, stop, next, out),
         NEW h, LeadsBelow(h, n, rank, D, stop, next, out)
  PROVE  \A w \in D : rank[w] < n => f[w] = h[w]
<1> DEFINE S == {m \in Nat : \A w \in D : rank[w] < m /\ rank[w] < n => f[w] = h[w]}
<1>1. 0 \in S
  BY DEF Lowers
<1>2. ASSUME NEW m \in Nat, m \in S PROVE m + 1 \in S
  <2>1. ASSUME NEW w \in D, rank[w] < m + 1, rank[w] < n PROVE f[w] = h[w]
    <3>1. /\ f[w] = IF w \in stop THEN out[w] ELSE f[next[w]]
          /\ h[w] = IF w \in stop THEN out[w] ELSE h[next[w]]
      BY <2>1 DEF LeadsBelow
    <3>2. CASE w \in stop
      BY <3>1, <3>2
    <3>3. CASE w \notin stop
      <4>1. next[w] \in D /\ rank[next[w]] < m /\ rank[next[w]] < n
        BY <2>1, <3>3 DEF Lowers
      <4>2. f[next[w]] = h[next[w]]
        BY <1>2, <4>1
      <4> QED
        BY <3>1, <3>3, <4>2
    <3> QED
      BY <3>2, <3>3
  <2>2. \A w \in D : rank[w] < m + 1 /\ rank[w] < n => f[w] = h[w]
    BY <2>1
  <2> QED
    BY <2>2
<1> HIDE DEF S
<1>3. Nat \subseteq S
  BY <1>1, <1>2, NatSetInduction
<1>4. n \in S
  BY <1>3
<1> QED
  BY <1>4 DEF S

LEMMA LeadsFar ==
  ASSUME NEW D, NEW stop, NEW next, NEW out, NEW rank, Lowers(next, rank, D, stop)
  PROVE  \A n \in Nat : \E f : LeadsBelow(f, n, rank, D, stop, next, out)
<1> DEFINE S == {n \in Nat : \E f : LeadsBelow(f, n, rank, D, stop, next, out)}
<1>1. 0 \in S
  BY DEF Lowers, LeadsBelow
<1>2. ASSUME NEW n \in Nat, n \in S PROVE n + 1 \in S
  <2>1. PICK f : LeadsBelow(f, n, rank, D, stop, next, out)
    BY <1>2
  <2>2. PICK h : h = [w \in D |-> IF rank[w] < n THEN f[w]
                                  ELSE IF w \in stop THEN out[w] ELSE f[next[w]]]
    OBVIOUS
  <2>3. ASSUME NEW w \in D, rank[w] < n + 1
        PROVE  h[w] = IF w \in stop THEN out[w] ELSE h[next[w]]
    <3>1. h[w] = IF w \in stop THEN out[w] ELSE f[next[w]]
      BY <2>1, <2>2 DEF LeadsBelow
    <3>2. CASE w \in stop
      BY <3>1, <3>2
    <3>3. CASE w \notin stop
      <4>1. next[w] \in D /\ rank[next[w]] < n
        BY <2>3, <3>3 DEF Lowers
      <4>2. h[next[w]] = f[next[w]]
        BY <2>2, <4>1
      <4> QED
        BY <3>1, <3>3, <4>2
    <3> QED
      BY <3>2, <3>3
  <2>4. LeadsBelow(h, n + 1, rank, D, stop, next, out)
    BY <2>3 DEF LeadsBelow
  <2> QED
    BY <2>4
<1> HIDE DEF S
<1>3. Nat \subseteq S
  BY <1>1, <1>2, NatSetInduction
<1> QED
  BY <1>3 DEF S

LEMMA LeadsExists ==
  ASSUME NEW D, NEW stop, NEW next, NEW out, NEW rank, Lowers(next, rank, D, stop)
  PROVE  \E f : Leads(f, D, stop, next, out)
<1> DEFINE L(f, n) == LeadsBelow(f, n, rank, D, stop, next, out)
           Far(n) == CHOOSE f : L(f, n)
<1>1. PICK f : f = [w \in D |-> Far(rank[w] + 1)[w]]
  OBVIOUS
<1>2. ASSUME NEW n \in Nat PROVE L(Far(n), n)
  BY LeadsFar
<1> HIDE DEF Far
<1>3. ASSUME NEW w \in D PROVE f[w] = IF w \in stop THEN out[w] ELSE f[next[w]]
  <2>1. PICK r \in Nat : r = rank[w]
    BY DEF Lowers
  <2>2. f[w] = Far(r + 1)[w] /\ L(Far(r + 1), r + 1)
    BY <1>1, <1>2, <2>1
  <2>3. f[w] = IF w \in stop THEN out[w] ELSE Far(r + 1)[next[w]]
    BY <2>1, <2>2 DEF LeadsBelow
  <2>4. ASSUME w \notin stop PROVE Far(r + 1)[next[w]] = f[next[w]]
    <3>1. PICK q \in Nat : q = rank[next[w]]
      BY <2>4 DEF Lowers
    <3>2. next[w] \in D /\ q < r
      BY <2>1, <2>4, <3>1 DEF Lowers
    <3>3. f[next[w]] = Far(q + 1)[next[w]] /\ L(Far(q + 1), q + 1)
      BY <1>1, <1>2, <3>1, <3>2
    <3>4. L(Far(r + 1), q + 1)
      BY <2>2, <3>2 DEF LeadsBelow, Lowers
    <3>5. \A x \in D : rank[x] < q + 1 => Far(r + 1)[x] = Far(q + 1)[x]
      <4>1. q + 1 \in Nat
        OBVIOUS
      <4> QED
        BY <3>3, <3>4, <4>1, LeadsAlike
    <3> QED
      BY <3>1, <3>2, <3>3, <3>5
  <2> QED
    BY <2>3, <2>4
<1>4. f = [w \in D |-> IF w \in stop THEN out[w] ELSE f[next[w]]]
  BY <1>1, <1>3
<1> QED
  BY <1>4 DEF Leads

LEMMA LeadsWithin ==
  ASSUME NEW D, NEW stop, NEW next, NEW out, NEW rank, Lowers(next, rank, D, stop),
         NEW f, Leads(f, D, stop, next, out),
         NEW I \in SUBSET D, \A w \in I : w \notin stop => next[w] \in I
  PROVE  \A w \in I : \E z \in I : z \in stop /\ f[w] = out[z]
<1> DEFINE S == {n \in Nat : \A w \in I : rank[w] < n => \E z \in I : z \in stop /\ f[w] = out[z]}
<1>1. 0 \in S
  BY DEF Lowers
<1>2. ASSUME NEW n \in Nat, n \in S PROVE n + 1 \in S
  <2>1. ASSUME NEW w \in I, rank[w] < n + 1 PROVE \E z \in I : z \in stop /\ f[w] = out[z]
    <3>1. f[w] = IF w \in stop THEN out[w] ELSE f[next[w]]
      BY DEF Leads
    <3>2. CASE w \in stop
      BY <3>1, <3>2
    <3>3. CASE w \notin stop
      <4>1. next[w] \in I /\ rank[next[w]] < n
        BY <2>1, <3>3 DEF Lowers
      <4>2. PICK z \in I : z \in stop /\ f[next[w]] = out[z]
        BY <1>2, <4>1
      <4> QED
        BY <3>1, <3>3, <4>2
    <3> QED
      BY <3>2, <3>3
  <2>2. \A w \in I : rank[w] < n + 1 => \E z \in I : z \in stop /\ f[w] = out[z]
    BY <2>1
  <2> QED
    BY <2>2
<1> HIDE DEF S
<1>3. Nat \subseteq S
  BY <1>1, <1>2, NatSetInduction
<1>4. ASSUME NEW w \in I PROVE \E z \in I : z \in stop /\ f[w] = out[z]
  <2>1. rank[w] + 1 \in Nat /\ rank[w] < rank[w] + 1
    BY DEF Lowers
  <2>2. rank[w] + 1 \in S
    BY <1>3, <2>1
  <2> QED
    BY <2>1, <2>2 DEF S
<1> QED
  BY <1>4
-----------------------------------------------------------------------------
(* The heap: indices count from 0, so that index i is at s[i + 1].  Exchanged *)
(* has the elements at indices i and j in each other's place.                *)
Parent(i) == (i - 1) \div 2
Exchanged(s, i, j) == [s EXCEPT ![i + 1] = s[j + 1], ![j + 1] = s[i + 1]]
CountOf(s, v) == Cardinality({i \in DOMAIN s : s[i] = v})

(* No element is larger than its parent. *)
HeapOrdered(s, n) == \A i \in 1..(n - 1) : s[i + 1] <= s[Parent(i) + 1]

(* The same but for index k and its parent: k may be too large there. *)
ClimbOrdered(s, n, k) ==
  /\ \A i \in 1..(n - 1) : i # k => s[i + 1] <= s[Parent(i) + 1]
  /\ k > 0 => \A i \in 1..(n - 1) : Parent(i) = k => s[i + 1] <= s[Parent(k) + 1]

(* The same but for index k and its children: k may be too small there. *)
SinkOrdered(s, n, k) ==
  /\ \A i \in 1..(n - 1) : Parent(i) # k => s[i + 1] <= s[Parent(i) + 1]
  /\ k > 0 => \A i \in 1..(n - 1) : Parent(i) = k => s[i + 1] <= s[Parent(k) + 1]

LEMMA ParentBefore ==
  ASSUME NEW i \in Nat \ {0}
  PROVE  Parent(i) \in Nat /\ Parent(i) < i
<1>1. PICK h : h = i - 1
  OBVIOUS
<1>2. h \in Nat /\ h \div 2 \in Nat /\ h \div 2 <= h
  BY <1>1
<1> QED
  BY <1>1, <1>2 DEF Parent

LEMMA ParentOf ==
  ASSUME NEW i \in Nat \ {0}, NEW k \in Nat
  PROVE  Parent(i) = k <=> i \in {2 * k + 1, 2 * k + 2}
<1>1. PICK h : h = i - 1
  OBVIOUS
<1>2. h \in Nat /\ (h \div 2 = k <=> h = 2 * k \/ h = 2 * k + 1)
  BY <1>1
<1> QED
  BY <1>1, <1>2 DEF Parent

LEMMA HeapElements ==
  ASSUME QueueValues \subseteq Int, NEW n \in Nat, NEW s \in [1..n -> QueueValues]
  PROVE  \A i \in 0..(n - 1) : s[i + 1] \in Int
<1>1. ASSUME NEW i \in 0..(n - 1) PROVE s[i + 1] \in Int
  <2>1. i + 1 \in 1..n
    OBVIOUS
  <2> QED
    BY <2>1
<1> QED
  BY <1>1

Swaps(z, s, n, a, b) ==
  /\ z \in [1..n -> QueueValues]
  /\ \A i \in 0..(n - 1) : z[i + 1] = IF i = b THEN s[a + 1] ELSE IF i = a THEN s[b + 1] ELSE s[i + 1]

LEMMA SwapAt ==
  ASSUME NEW n \in Nat, NEW s \in [1..n -> QueueValues], NEW a \in 0..(n - 1), NEW b \in 0..(n - 1)
  PROVE  Swaps(Exchanged(s, a, b), s, n, a, b)
<1>1. a + 1 \in 1..n /\ b + 1 \in 1..n
  OBVIOUS
<1>2. s[a + 1] \in QueueValues /\ s[b + 1] \in QueueValues
  BY <1>1
<1>3. Exchanged(s, a, b) \in [1..n -> QueueValues]
  BY <1>1, <1>2 DEF Exchanged
<1>4. ASSUME NEW i \in 0..(n - 1)
      PROVE  Exchanged(s, a, b)[i + 1] = IF i = b THEN s[a + 1] ELSE IF i = a THEN s[b + 1] ELSE s[i + 1]
  <2>1. i + 1 \in 1..n
    OBVIOUS
  <2> QED
    BY <1>1, <2>1 DEF Exchanged
<1> QED
  BY <1>3, <1>4 DEF Swaps

LEMMA ClimbStep ==
  ASSUME QueueValues \subseteq Int, NEW n \in Nat, NEW s \in [1..n -> QueueValues],
         NEW k \in 1..(n - 1), ClimbOrdered(s, n, k), s[Parent(k) + 1] < s[k + 1]
  PROVE  ClimbOrdered(Exchanged(s, Parent(k), k), n, Parent(k))
<1> DEFINE z == Exchanged(s, Parent(k), k)
<1>1. PICK p : p = Parent(k)
  OBVIOUS
<1>2. p \in 0..(n - 1) /\ k \in 0..(n - 1) /\ p < k
  BY <1>1, ParentBefore
<1>3. \A i \in 0..(n - 1) : z[i + 1] = IF i = k THEN s[p + 1] ELSE IF i = p THEN s[k + 1] ELSE s[i + 1]
  <2>1. Swaps(z, s, n, p, k)
    BY <1>1, <1>2, SwapAt
  <2> QED
    BY <2>1 DEF Swaps
<1>4. \A i \in 0..(n - 1) : s[i + 1] \in Int
  BY HeapElements
<1>5. \A i \in 1..(n - 1) : Parent(i) \in 0..(n - 1) /\ Parent(i) < i
  BY ParentBefore
<1>6. /\ \A i \in 1..(n - 1) : i # k => s[i + 1] <= s[Parent(i) + 1]
      /\ \A i \in 1..(n - 1) : Parent(i) = k => s[i + 1] <= s[p + 1]
  BY <1>1 DEF ClimbOrdered
<1> HIDE DEF z
<1>7. ASSUME NEW i \in 1..(n - 1), i # p PROVE z[i + 1] <= z[Parent(i) + 1]
  <2>1. PICK q : q = Parent(i)
    OBVIOUS
  <2>2. q \in 0..(n - 1) /\ q < i
    BY <1>5, <2>1
  <2>3. z[q + 1] = IF q = k THEN s[p + 1] ELSE IF q = p THEN s[k + 1] ELSE s[q + 1]
    BY <1>3, <2>2
  <2>4. z[i + 1] = IF i = k THEN s[p + 1] ELSE s[i + 1]
    BY <1>3, <1>7
  <2>5. /\ i # k => s[i + 1] <= s[q + 1]
        /\ q = k => s[i + 1] <= s[p + 1]
        /\ i = k => q = p
        /\ s[p + 1] < s[k + 1]
    BY <1>1, <1>6, <2>1
  <2>6. s[i + 1] \in Int /\ s[q + 1] \in Int /\ s[p + 1] \in Int /\ s[k + 1] \in Int
    BY <1>2, <1>4, <2>2
  <2> QED
    BY <1>2, <2>1, <2>2, <2>3, <2>4, <2>5, <2>6
<1>8. ASSUME p > 0, NEW i \in 1..(n - 1), Parent(i) = p PROVE z[i + 1] <= z[Parent(p) + 1]
  <2>1. PICK q : q = Parent(p)
    OBVIOUS
  <2>2. q \in 0..(n - 1) /\ q < p
    BY <1>2, <1>5, <1>8, <2>1
  <2>3. z[q + 1] = s[q + 1]
    BY <1>2, <1>3, <2>2
  <2>4. i # p
    BY <1>2, <1>5, <1>8
  <2>5. z[i + 1] = IF i = k THEN s[p + 1] ELSE s[i + 1]
    BY <1>3, <2>4
  <2>6. s[p + 1] <= s[q + 1] /\ (i # k => s[i + 1] <= s[p + 1])
    BY <1>2, <1>6, <1>8, <2>1
  <2>7. s[i + 1] \in Int /\ s[q + 1] \in Int /\ s[p + 1] \in Int
    BY <1>2, <1>4, <2>2
  <2> QED
    BY <2>1, <2>3, <2>5, <2>6, <2>7
<1> QED
  BY <1>1, <1>7, <1>8 DEF ClimbOrdered, z

LEMMA ClimbStops ==
  ASSUME NEW n \in Nat, NEW s, NEW k \in 0..(n - 1), ClimbOrdered(s, n, k),
         k > 0 => s[k + 1] <= s[Parent(k) + 1]
  PROVE  HeapOrdered(s, n)
BY DEF ClimbOrdered, HeapOrdered

(* The index of the largest of k and its children. *)
BestOf(s, n, k) ==
  LET b == IF 2 * k + 1 < n /\ s[k + 1] < s[2 * k + 2] THEN 2 * k + 1 ELSE k
  IN IF 2 * k + 2 < n /\ s[b + 1] < s[2 * k + 3] THEN 2 * k + 2 ELSE b

LEMMA BestLargest ==
  ASSUME QueueValues \subseteq Int, NEW n \in Nat, NEW s \in [1..n -> QueueValues], NEW k \in 0..(n - 1)
  PROVE  /\ BestOf(s, n, k) \in k..(n - 1)
         /\ \A i \in 1..(n - 1) : Parent(i) = k => s[i + 1] <= s[BestOf(s, n, k) + 1]
         /\ BestOf(s, n, k) # k => /\ Parent(BestOf(s, n, k)) = k
                                   /\ s[k + 1] < s[BestOf(s, n, k) + 1]
<1>1. \A i \in 1..(n - 1) : Parent(i) = k <=> i = 2 * k + 1 \/ i = 2 * k + 2
  BY ParentOf
<1>2. \A i \in 0..(n - 1) : s[i + 1] \in Int
  BY HeapElements
<1>3. PICK l \in Nat, r \in Nat : l = 2 * k + 1 /\ r = 2 * k + 2 /\ l > k /\ r > k
  OBVIOUS
<1>4. l + 1 = 2 * k + 2 /\ r + 1 = 2 * k + 3
  BY <1>3
<1>5. PICK b : b = IF l < n /\ s[k + 1] < s[l + 1] THEN l ELSE k
  OBVIOUS
<1>6. PICK c : c = IF r < n /\ s[b + 1] < s[r + 1] THEN r ELSE b
  OBVIOUS
<1>7. BestOf(s, n, k) = c
  BY <1>3, <1>4, <1>5, <1>6 DEF BestOf
<1>8. /\ b \in k..(n - 1) /\ b \in {k, l} /\ (b # k => s[k + 1] < s[b + 1])
      /\ l < n => s[l + 1] <= s[b + 1]
  BY <1>2, <1>3, <1>5
<1>9. /\ c \in k..(n - 1) /\ c \in {k, l, r} /\ (c # k => s[k + 1] < s[c + 1])
      /\ l < n => s[l + 1] <= s[c + 1]
      /\ r < n => s[r + 1] <= s[c + 1]
  <2>1. /\ s[k + 1] \in Int /\ s[b + 1] \in Int
        /\ l < n => s[l + 1] \in Int
        /\ r < n => s[r + 1] \in Int
    <3>1. b \in 0..(n - 1) /\ (l < n => l \in 0..(n - 1)) /\ (r < n => r \in 0..(n - 1))
      BY <1>3, <1>8
    <3> QED
      BY <1>2, <3>1
  <2>2. CASE r < n /\ s[b + 1] < s[r + 1]
    BY <1>3, <1>6, <1>8, <2>1, <2>2
  <2>3. CASE ~ (r < n /\ s[b + 1] < s[r + 1])
    BY <1>3, <1>6, <1>8, <2>1, <2>3
  <2> QED
    BY <2>2, <2>3
<1>10. \A i \in 1..(n - 1) : Parent(i) = k => i = l \/ i = r
  BY <1>1, <1>3
<1>11. c # k => Parent(c) = k
  BY <1>1, <1>3, <1>9
<1>12. \A i \in 1..(n - 1) : Parent(i) = k => s[i + 1] <= s[c + 1]
  BY <1>9, <1>10
<1> QED
  BY <1>7, <1>9, <1>11, <1>12

LEMMA SinkStep ==
  ASSUME QueueValues \subseteq Int, NEW n \in Nat, NEW s \in [1..n -> QueueValues],
         NEW k \in 0..(n - 1), SinkOrdered(s, n, k), NEW b \in 1..(n - 1), Parent(b) = k,
         s[k + 1] < s[b + 1], \A i \in 1..(n - 1) : Parent(i) = k => s[i + 1] <= s[b + 1]
  PROVE  SinkOrdered(Exchanged(s, b, k), n, b)
<1> DEFINE z == Exchanged(s, b, k)
<1>1. k < b /\ b \in 0..(n - 1)
  BY ParentBefore
<1>2. \A i \in 0..(n - 1) : z[i + 1] = IF i = k THEN s[b + 1] ELSE IF i = b THEN s[k + 1] ELSE s[i + 1]
  <2>1. Swaps(z, s, n, b, k)
    BY <1>1, SwapAt
  <2> QED
    BY <2>1 DEF Swaps
<1>3. \A i \in 0..(n - 1) : s[i + 1] \in Int
  BY HeapElements
<1>4. \A i \in 1..(n - 1) : Parent(i) \in 0..(n - 1) /\ Parent(i) < i
  BY ParentBefore
<1>5. \A i \in 1..(n - 1) : Parent(i) # k => s[i + 1] <= s[Parent(i) + 1]
  BY DEF SinkOrdered
<1> HIDE DEF z
<1>6. ASSUME NEW i \in 1..(n - 1), Parent(i) # b PROVE z[i + 1] <= z[Parent(i) + 1]
  <2>1. PICK q : q = Parent(i)
    OBVIOUS
  <2>2. q \in 0..(n - 1) /\ q < i /\ q # b
    BY <1>4, <1>6, <2>1
  <2>3. z[q + 1] = IF q = k THEN s[b + 1] ELSE s[q + 1]
    BY <1>2, <2>2
  <2>4. z[i + 1] = IF i = k THEN s[b + 1] ELSE IF i = b THEN s[k + 1] ELSE s[i + 1]
    BY <1>2
  <2>5. /\ q # k => s[i + 1] <= s[q + 1]
        /\ q = k => s[i + 1] <= s[b + 1]
        /\ i = b => q = k
        /\ s[k + 1] < s[b + 1]
    BY <1>5, <2>1
  <2>6. i = k => s[b + 1] <= s[q + 1]
    BY <2>1 DEF SinkOrdered
  <2>7. s[i + 1] \in Int /\ s[q + 1] \in Int /\ s[b + 1] \in Int /\ s[k + 1] \in Int
    BY <1>3, <2>2
  <2> QED
    BY <1>1, <2>1, <2>2, <2>3, <2>4, <2>5, <2>6, <2>7
<1>7. ASSUME NEW i \in 1..(n - 1), Parent(i) = b PROVE z[i + 1] <= z[Parent(b) + 1]
  <2>1. b < i
    BY <1>4, <1>7
  <2>2. z[i + 1] = s[i + 1] /\ z[k + 1] = s[b + 1]
    BY <1>1, <1>2, <2>1
  <2>3. s[i + 1] <= s[b + 1]
    BY <1>1, <1>5, <1>7
  <2> QED
    BY <2>2, <2>3
<1> QED
  BY <1>6, <1>7 DEF SinkOrdered, z

LEMMA SinkStops ==
  ASSUME NEW n \in Nat, NEW s, NEW k \in 0..(n - 1), SinkOrdered(s, n, k),
         \A i \in 1..(n - 1) : Parent(i) = k => s[i + 1] <= s[k + 1]
  PROVE  HeapOrdered(s, n)
BY DEF SinkOrdered, HeapOrdered

LEMMA SwapCounts ==
  ASSUME NEW n \in Nat, NEW s \in [1..n -> QueueValues], NEW a \in 0..(n - 1), NEW b \in 0..(n - 1),
         NEW z, Swaps(z, s, n, a, b), NEW v
  PROVE  CountOf(z, v) = CountOf(s, v)
<1> DEFINE S == {i \in 1..n : s[i] = v}
           T == {i \in 1..n : z[i] = v}
           g(i) == IF i = a + 1 THEN b + 1 ELSE IF i = b + 1 THEN a + 1 ELSE i
<1>1. CountOf(z, v) = Cardinality(T) /\ CountOf(s, v) = Cardinality(S)
  BY DEF CountOf, Swaps
<1>2. ASSUME NEW i \in 1..n PROVE g(i) \in 1..n /\ g(g(i)) = i /\ z[i] = s[g(i)]
  <2>1. i - 1 \in 0..(n - 1) /\ (i - 1) + 1 = i
    OBVIOUS
  <2>2. z[i] = IF i - 1 = b THEN s[a + 1] ELSE IF i - 1 = a THEN s[b + 1] ELSE s[i]
    BY <2>1 DEF Swaps
  <2> QED
    BY <2>1, <2>2
<1>3. PICK f : f = [i \in S |-> g(i)]
  OBVIOUS
<1> HIDE DEF g
<1>4. \A i \in S : g(i) \in T
  BY <1>2
<1>5. \A i \in T : g(i) \in S
  BY <1>2
<1>6. f \in Injection(S, T)
  <2>1. f \in [S -> T]
    BY <1>3, <1>4
  <2>2. \A i, j \in S : f[i] = f[j] => i = j
    BY <1>2, <1>3
  <2> QED
    BY <2>1, <2>2 DEF Injection, IsInjective
<1>7. f \in Surjection(S, T)
  <2>1. f \in [S -> T]
    BY <1>3, <1>4
  <2>2. \A t \in T : \E i \in S : f[i] = t
    BY <1>2, <1>3, <1>5
  <2> QED
    BY <2>1, <2>2 DEF Surjection
<1>8. ExistsBijection(S, T)
  BY <1>6, <1>7 DEF ExistsBijection, Bijection
<1>9. IsFiniteSet(S)
  <2>1. IsFiniteSet(1..n) /\ S \in SUBSET (1..n)
    BY FS_Interval
  <2> QED
    BY <2>1, FS_Subset
<1> HIDE DEF S, T
<1> QED
  BY <1>1, <1>8, <1>9, FS_Bijection

(* Array t is array s of n values and one behind it. *)
Grown(t, s, n) ==
  /\ n \in Nat /\ s \in [1..n -> QueueValues] /\ t \in [1..(n + 1) -> QueueValues]
  /\ \A i \in 1..n : t[i] = s[i]

LEMMA CountGrows ==
  ASSUME NEW n, NEW s, NEW t, Grown(t, s, n), NEW v
  PROVE  CountOf(t, v) = CountOf(s, v) + (IF v = t[n + 1] THEN 1 ELSE 0)
<1> USE DEF Grown
<1> DEFINE S == {i \in 1..n : s[i] = v}
           T == {i \in 1..(n + 1) : t[i] = v}
<1>1. CountOf(t, v) = Cardinality(T) /\ CountOf(s, v) = Cardinality(S)
  BY DEF CountOf
<1>2. IsFiniteSet(S)
  <2>1. IsFiniteSet(1..n) /\ S \in SUBSET (1..n)
    BY FS_Interval
  <2> QED
    BY <2>1, FS_Subset
<1>3. Cardinality(S) \in Nat
  BY <1>2, FS_CardinalityType
<1>4. n + 1 \notin S
  OBVIOUS
<1>5. CASE v = t[n + 1]
  <2>1. T = S \cup {n + 1}
    BY <1>5
  <2> HIDE DEF S, T
  <2>2. Cardinality(T) = Cardinality(S) + 1
    BY <1>2, <1>4, <2>1, FS_AddElement
  <2> QED
    BY <1>1, <1>3, <1>5, <2>2
<1>6. CASE v # t[n + 1]
  <2>1. T = S
    BY <1>6
  <2> HIDE DEF S, T
  <2>2. CountOf(t, v) = CountOf(s, v)
    BY <1>1, <2>1
  <2> QED
    BY <1>1, <1>3, <1>6, <2>2
<1> QED
  BY <1>5, <1>6

(* A heap's root is the largest of its elements. *)
LEMMA RootLargest ==
  ASSUME QueueValues \subseteq Int, NEW n \in Nat, NEW s \in [1..n -> QueueValues], HeapOrdered(s, n)
  PROVE  \A i \in 0..(n - 1) : s[i + 1] <= s[1]
<1> DEFINE S == {m \in Nat : \A i \in 0..(n - 1) : i <= m => s[i + 1] <= s[1]}
<1>1. \A i \in 0..(n - 1) : s[i + 1] \in Int
  BY HeapElements
<1>2. 0 \in S
  BY <1>1
<1>3. ASSUME NEW m \in Nat, m \in S PROVE m + 1 \in S
  <2>1. ASSUME NEW i \in 0..(n - 1), i <= m + 1 PROVE s[i + 1] <= s[1]
    <3>1. CASE i <= m
      BY <1>3, <3>1
    <3>2. CASE i > m
      <4>1. PICK q : q = Parent(i)
        OBVIOUS
      <4>2. i \in 1..(n - 1) /\ q \in 0..(n - 1) /\ q <= m
        BY <2>1, <3>2, <4>1, ParentBefore
      <4>3. s[i + 1] <= s[q + 1]
        BY <4>1, <4>2 DEF HeapOrdered
      <4>4. s[q + 1] <= s[1]
        BY <1>3, <4>2
      <4>5. s[i + 1] \in Int /\ s[q + 1] \in Int /\ s[0 + 1] \in Int
        BY <1>1, <4>2
      <4> QED
        BY <4>3, <4>4, <4>5
    <3> QED
      BY <2>1, <3>1, <3>2
  <2> QED
    BY <2>1
<1>4. Nat \subseteq S
  <2> HIDE DEF S
  <2> QED
    BY <1>2, <1>3, NatSetInduction
<1>5. ASSUME NEW i \in 0..(n - 1) PROVE s[i + 1] <= s[1]
  <2>1. i \in S
    BY <1>4
  <2> QED
    BY <2>1
<1> QED
  BY <1>5
-----------------------------------------------------------------------------
(* The sifts.  A place is an array and the index the sift has come to.       *)
Places(n) == [1..n -> QueueValues] \X (0..(n - 1))
KeepsCounts(s, c) == \A v \in QueueValues : CountOf(s, v) = CountOf(c, v)

Climbs(f, c) ==
  f = [w \in [DOMAIN c -> QueueValues] \X (0..(Len(c) - 1)) |->
         IF w[2] > 0 /\ w[1][((w[2] - 1) \div 2) + 1] < w[1][w[2] + 1]
         THEN f[<<Exchanged(w[1], (w[2] - 1) \div 2, w[2]), (w[2] - 1) \div 2>>] ELSE w[1]]
ClimbOf(c, i) == (CHOOSE f : Climbs(f, c))[<<c, i>>]

LEMMA SameClimb == ASSUME NEW c, NEW i PROVE PQ!SiftUp(c, i) = ClimbOf(c, i)
BY DEF PQ!SiftUp, PQ!Swapped, ClimbOf, Climbs, Exchanged

Sinks(f, c) ==
  f = [w \in [DOMAIN c -> QueueValues] \X (0..(Len(c) - 1)) |->
         IF PQ!Best(w[1], w[2]) = w[2] THEN w[1]
         ELSE f[<<Exchanged(w[1], PQ!Best(w[1], w[2]), w[2]), PQ!Best(w[1], w[2])>>]]
SinkOf(c, i) == (CHOOSE f : Sinks(f, c))[<<c, i>>]

LEMMA SameSink == ASSUME NEW c, NEW i PROVE PQ!SiftDown(c, i) = SinkOf(c, i)
BY DEF PQ!SiftDown, PQ!Swapped, SinkOf, Sinks, Exchanged

LEMMA SameBest ==
  ASSUME NEW n \in Nat, NEW s \in [1..n -> QueueValues], NEW k \in Nat
  PROVE  PQ!Best(s, k) = BestOf(s, n, k)
<1>1. Len(s) = n
  OBVIOUS
<1>2. (2 * k + 1) + 1 = 2 * k + 2 /\ (2 * k + 2) + 1 = 2 * k + 3
  OBVIOUS
<1> QED
  BY <1>1, <1>2 DEF PQ!Best, BestOf

Array(n) == [w \in Places(n) |-> w[1]]
ClimbEnds(n) == {w \in Places(n) : ~ (w[2] > 0 /\ w[1][Parent(w[2]) + 1] < w[1][w[2] + 1])}
ClimbOn(n) == [w \in Places(n) |-> <<Exchanged(w[1], Parent(w[2]), w[2]), Parent(w[2])>>]
ClimbRank(n) == [w \in Places(n) |-> w[2]]

LEMMA ClimbLeads ==
  ASSUME NEW n \in Nat, NEW c \in [1..n -> QueueValues], NEW f
  PROVE  Climbs(f, c) <=> Leads(f, Places(n), ClimbEnds(n), ClimbOn(n), Array(n))
<1> DEFINE A(w) == IF w[2] > 0 /\ w[1][Parent(w[2]) + 1] < w[1][w[2] + 1]
                   THEN f[<<Exchanged(w[1], Parent(w[2]), w[2]), Parent(w[2])>>] ELSE w[1]
           B(w) == IF w \in ClimbEnds(n) THEN Array(n)[w] ELSE f[ClimbOn(n)[w]]
<1>1. Climbs(f, c) <=> f = [w \in Places(n) |-> A(w)]
  <2>1. DOMAIN c = 1..n /\ Len(c) = n
    OBVIOUS
  <2>2. [DOMAIN c -> QueueValues] \X (0..(Len(c) - 1)) = Places(n)
    BY <2>1 DEF Places
  <2> QED
    BY <2>2 DEF Climbs, Parent
<1>2. ASSUME NEW w \in Places(n) PROVE A(w) = B(w)
  BY DEF ClimbEnds, Array, ClimbOn
<1>3. Leads(f, Places(n), ClimbEnds(n), ClimbOn(n), Array(n)) <=> f = [w \in Places(n) |-> B(w)]
  BY DEF Leads
<1> HIDE DEF A, B
<1>4. [w \in Places(n) |-> A(w)] = [w \in Places(n) |-> B(w)]
  BY <1>2
<1> QED
  BY <1>1, <1>3, <1>4

LEMMA ClimbLowers ==
  ASSUME NEW n \in Nat
  PROVE  Lowers(ClimbOn(n), ClimbRank(n), Places(n), ClimbEnds(n))
<1>1. ClimbRank(n) \in [Places(n) -> Nat]
  BY DEF ClimbRank, Places
<1>2. ASSUME NEW w \in Places(n), w \notin ClimbEnds(n)
      PROVE  ClimbOn(n)[w] \in Places(n) /\ ClimbRank(n)[ClimbOn(n)[w]] < ClimbRank(n)[w]
  <2>1. PICK s \in [1..n -> QueueValues], k \in 0..(n - 1) : w = <<s, k>>
    BY DEF Places
  <2>2. w[1] = s /\ w[2] = k /\ k > 0
    BY <1>2, <2>1 DEF ClimbEnds
  <2>3. PICK p : p = Parent(k)
    OBVIOUS
  <2>4. p \in 0..(n - 1) /\ p < k
    BY <2>2, <2>3, ParentBefore
  <2>5. Exchanged(s, p, k) \in [1..n -> QueueValues]
    BY <2>4, SwapAt DEF Swaps
  <2>6. ClimbOn(n)[w] = <<Exchanged(s, p, k), p>>
    BY <2>2, <2>3 DEF ClimbOn
  <2>7. ClimbOn(n)[w] \in Places(n)
    BY <2>4, <2>5, <2>6 DEF Places
  <2>8. ClimbRank(n)[ClimbOn(n)[w]] = p /\ ClimbRank(n)[w] = k
    BY <2>2, <2>6, <2>7 DEF ClimbRank
  <2> QED
    BY <2>4, <2>7, <2>8
<1> QED
  BY <1>1, <1>2 DEF Lowers

(* What is almost a heap below its last element is one after sift_up, with   *)
(* the same elements.                                                        *)
LEMMA ClimbSettles ==
  ASSUME QueueValues \subseteq Int, NEW n \in Nat, NEW c \in [1..n -> QueueValues],
         NEW k \in 0..(n - 1), ClimbOrdered(c, n, k)
  PROVE  \E s \in [1..n -> QueueValues] :
           ClimbOf(c, k) = s /\ HeapOrdered(s, n) /\ KeepsCounts(s, c)
<1> DEFINE I == {w \in Places(n) : ClimbOrdered(w[1], n, w[2]) /\ KeepsCounts(w[1], c)}
<1>1. PICK f : Climbs(f, c) /\ ClimbOf(c, k) = f[<<c, k>>]
  <2>1. \E f : Climbs(f, c)
    BY ClimbLeads, ClimbLowers, LeadsExists
  <2> QED
    BY <2>1 DEF ClimbOf
<1>2. <<c, k>> \in I
  BY DEF Places, KeepsCounts
<1>3. ASSUME NEW w \in I, w \notin ClimbEnds(n) PROVE ClimbOn(n)[w] \in I
  <2>1. PICK s \in [1..n -> QueueValues], j \in 0..(n - 1) : w = <<s, j>>
    BY DEF Places
  <2>2. w[1] = s /\ w[2] = j /\ w \in Places(n)
    BY <2>1
  <2>3. /\ j \in 1..(n - 1) /\ s[Parent(j) + 1] < s[j + 1]
        /\ ClimbOrdered(s, n, j) /\ KeepsCounts(s, c)
    BY <1>3, <2>2 DEF ClimbEnds
  <2>4. PICK p : p = Parent(j)
    OBVIOUS
  <2>5. PICK z : z = Exchanged(s, p, j)
    OBVIOUS
  <2>6. p \in 0..(n - 1) /\ Swaps(z, s, n, p, j)
    <3>1. p \in 0..(n - 1)
      BY <2>3, <2>4, ParentBefore
    <3> QED
      BY <2>5, <3>1, SwapAt
  <2>7. ClimbOrdered(z, n, p)
    BY <2>3, <2>4, <2>5, ClimbStep
  <2>8. KeepsCounts(z, c)
    <3>1. ASSUME NEW v \in QueueValues PROVE CountOf(z, v) = CountOf(s, v)
      BY <2>3, <2>6, SwapCounts
    <3> QED
      BY <2>3, <3>1 DEF KeepsCounts
  <2>9. ClimbOn(n)[w] = <<z, p>>
    BY <2>2, <2>4, <2>5 DEF ClimbOn
  <2>10. <<z, p>> \in Places(n)
    BY <2>6 DEF Places, Swaps
  <2> QED
    BY <2>7, <2>8, <2>9, <2>10
<1>4. PICK w \in I : w \in ClimbEnds(n) /\ f[<<c, k>>] = Array(n)[w]
  <2>1. Leads(f, Places(n), ClimbEnds(n), ClimbOn(n), Array(n))
    BY <1>1, ClimbLeads
  <2>2. I \in SUBSET Places(n)
    OBVIOUS
  <2> HIDE DEF I
  <2>3. \A w \in I : \E y \in I : y \in ClimbEnds(n) /\ f[w] = Array(n)[y]
    BY <1>3, <2>1, <2>2, ClimbLowers, LeadsWithin
  <2> QED
    BY <1>2, <2>3
<1>5. PICK s \in [1..n -> QueueValues], j \in 0..(n - 1) : w = <<s, j>>
  BY <1>4 DEF Places
<1>6. w[1] = s /\ w[2] = j
  BY <1>5
<1>7. Array(n)[w] = s
  BY <1>4, <1>6 DEF Array
<1>8. ClimbOrdered(s, n, j) /\ KeepsCounts(s, c)
  BY <1>4, <1>6
<1>9. j > 0 => s[j + 1] <= s[Parent(j) + 1]
  <2>1. ASSUME j > 0 PROVE s[j + 1] <= s[Parent(j) + 1]
    <3>1. PICK p : p = Parent(j)
      OBVIOUS
    <3>2. p \in 0..(n - 1)
      BY <2>1, <3>1, ParentBefore
    <3>3. s[j + 1] \in Int /\ s[p + 1] \in Int
      BY <3>2, HeapElements
    <3>4. ~ (s[p + 1] < s[j + 1])
      BY <1>4, <1>6, <2>1, <3>1 DEF ClimbEnds
    <3> QED
      BY <3>1, <3>3, <3>4
  <2> QED
    BY <2>1
<1>10. HeapOrdered(s, n)
  BY <1>8, <1>9, ClimbStops
<1> QED
  BY <1>1, <1>4, <1>7, <1>8, <1>10

SinkEnds(n) == {w \in Places(n) : BestOf(w[1], n, w[2]) = w[2]}
SinkOn(n) ==
  [w \in Places(n) |-> <<Exchanged(w[1], BestOf(w[1], n, w[2]), w[2]), BestOf(w[1], n, w[2])>>]
SinkRank(n) == [w \in Places(n) |-> n - w[2]]

LEMMA SinkLeads ==
  ASSUME NEW n \in Nat, NEW c \in [1..n -> QueueValues], NEW f
  PROVE  Sinks(f, c) <=> Leads(f, Places(n), SinkEnds(n), SinkOn(n), Array(n))
<1> DEFINE A(w) == IF PQ!Best(w[1], w[2]) = w[2] THEN w[1]
                   ELSE f[<<Exchanged(w[1], PQ!Best(w[1], w[2]), w[2]), PQ!Best(w[1], w[2])>>]
           B(w) == IF w \in SinkEnds(n) THEN Array(n)[w] ELSE f[SinkOn(n)[w]]
<1>1. Sinks(f, c) <=> f = [w \in Places(n) |-> A(w)]
  <2>1. DOMAIN c = 1..n /\ Len(c) = n
    OBVIOUS
  <2>2. [DOMAIN c -> QueueValues] \X (0..(Len(c) - 1)) = Places(n)
    BY <2>1 DEF Places
  <2> QED
    BY <2>2 DEF Sinks
<1>2. ASSUME NEW w \in Places(n) PROVE A(w) = B(w)
  <2>1. PQ!Best(w[1], w[2]) = BestOf(w[1], n, w[2])
    <3>1. w[1] \in [1..n -> QueueValues] /\ w[2] \in Nat
      BY DEF Places
    <3> QED
      BY <3>1, SameBest
  <2> QED
    BY <2>1 DEF SinkEnds, Array, SinkOn
<1>3. Leads(f, Places(n), SinkEnds(n), SinkOn(n), Array(n)) <=> f = [w \in Places(n) |-> B(w)]
  BY DEF Leads
<1> HIDE DEF A, B
<1>4. [w \in Places(n) |-> A(w)] = [w \in Places(n) |-> B(w)]
  BY <1>2
<1> QED
  BY <1>1, <1>3, <1>4

LEMMA SinkLowers ==
  ASSUME QueueValues \subseteq Int, NEW n \in Nat
  PROVE  Lowers(SinkOn(n), SinkRank(n), Places(n), SinkEnds(n))
<1>1. SinkRank(n) \in [Places(n) -> Nat]
  BY DEF SinkRank, Places
<1>2. ASSUME NEW w \in Places(n), w \notin SinkEnds(n)
      PROVE  SinkOn(n)[w] \in Places(n) /\ SinkRank(n)[SinkOn(n)[w]] < SinkRank(n)[w]
  <2>1. PICK s \in [1..n -> QueueValues], k \in 0..(n - 1) : w = <<s, k>>
    BY DEF Places
  <2>2. PICK b : b = BestOf(s, n, k)
    OBVIOUS
  <2>3. w[1] = s /\ w[2] = k /\ b # k
    BY <1>2, <2>1, <2>2 DEF SinkEnds
  <2>4. b \in k..(n - 1)
    BY <2>2, BestLargest
  <2>5. b \in 0..(n - 1) /\ k < b
    BY <2>3, <2>4
  <2>6. Exchanged(s, b, k) \in [1..n -> QueueValues]
    BY <2>5, SwapAt DEF Swaps
  <2>7. SinkOn(n)[w] = <<Exchanged(s, b, k), b>>
    BY <2>2, <2>3 DEF SinkOn
  <2>8. SinkOn(n)[w] \in Places(n)
    BY <2>5, <2>6, <2>7 DEF Places
  <2>9. SinkRank(n)[SinkOn(n)[w]] = n - b /\ SinkRank(n)[w] = n - k
    BY <2>3, <2>7, <2>8 DEF SinkRank
  <2> QED
    BY <2>5, <2>8, <2>9
<1> QED
  BY <1>1, <1>2 DEF Lowers

(* What is almost a heap above its root's children is one after sift_down,   *)
(* with the same elements.                                                   *)
LEMMA SinkSettles ==
  ASSUME QueueValues \subseteq Int, NEW n \in Nat, NEW c \in [1..n -> QueueValues],
         NEW k \in 0..(n - 1), SinkOrdered(c, n, k)
  PROVE  \E s \in [1..n -> QueueValues] :
           SinkOf(c, k) = s /\ HeapOrdered(s, n) /\ KeepsCounts(s, c)
<1> DEFINE I == {w \in Places(n) : SinkOrdered(w[1], n, w[2]) /\ KeepsCounts(w[1], c)}
<1>1. PICK f : Sinks(f, c) /\ SinkOf(c, k) = f[<<c, k>>]
  <2>1. \E f : Sinks(f, c)
    BY SinkLeads, SinkLowers, LeadsExists
  <2> QED
    BY <2>1 DEF SinkOf
<1>2. <<c, k>> \in I
  BY DEF Places, KeepsCounts
<1>3. ASSUME NEW w \in I, w \notin SinkEnds(n) PROVE SinkOn(n)[w] \in I
  <2>1. PICK s \in [1..n -> QueueValues], j \in 0..(n - 1) : w = <<s, j>>
    BY DEF Places
  <2>2. PICK b : b = BestOf(s, n, j)
    OBVIOUS
  <2>3. w[1] = s /\ w[2] = j /\ w \in Places(n)
    BY <2>1
  <2>4. b # j /\ SinkOrdered(s, n, j) /\ KeepsCounts(s, c)
    BY <1>3, <2>2, <2>3 DEF SinkEnds
  <2>5. /\ b \in j..(n - 1) /\ Parent(b) = j /\ s[j + 1] < s[b + 1]
        /\ \A i \in 1..(n - 1) : Parent(i) = j => s[i + 1] <= s[b + 1]
    BY <2>2, <2>4, BestLargest
  <2>6. b \in 1..(n - 1) /\ b \in 0..(n - 1)
    BY <2>4, <2>5
  <2>7. PICK z : z = Exchanged(s, b, j)
    OBVIOUS
  <2>8. Swaps(z, s, n, b, j)
    BY <2>6, <2>7, SwapAt
  <2>9. SinkOrdered(z, n, b)
    BY <2>4, <2>5, <2>6, <2>7, SinkStep
  <2>10. KeepsCounts(z, c)
    <3>1. ASSUME NEW v \in QueueValues PROVE CountOf(z, v) = CountOf(s, v)
      BY <2>6, <2>8, SwapCounts
    <3> QED
      BY <2>4, <3>1 DEF KeepsCounts
  <2>11. SinkOn(n)[w] = <<z, b>>
    BY <2>2, <2>3, <2>7 DEF SinkOn
  <2>12. <<z, b>> \in Places(n)
    BY <2>6, <2>8 DEF Places, Swaps
  <2> QED
    BY <2>9, <2>10, <2>11, <2>12
<1>4. PICK w \in I : w \in SinkEnds(n) /\ f[<<c, k>>] = Array(n)[w]
  <2>1. Leads(f, Places(n), SinkEnds(n), SinkOn(n), Array(n))
    BY <1>1, SinkLeads
  <2>2. I \in SUBSET Places(n)
    OBVIOUS
  <2> HIDE DEF I
  <2>3. \A w \in I : \E y \in I : y \in SinkEnds(n) /\ f[w] = Array(n)[y]
    BY <1>3, <2>1, <2>2, SinkLowers, LeadsWithin
  <2> QED
    BY <1>2, <2>3
<1>5. PICK s \in [1..n -> QueueValues], j \in 0..(n - 1) : w = <<s, j>>
  BY <1>4 DEF Places
<1>6. w[1] = s /\ w[2] = j
  BY <1>5
<1>7. Array(n)[w] = s
  BY <1>4, <1>6 DEF Array
<1>8. SinkOrdered(s, n, j) /\ KeepsCounts(s, c) /\ BestOf(s, n, j) = j
  BY <1>4, <1>6 DEF SinkEnds
<1>9. \A i \in 1..(n - 1) : Parent(i) = j => s[i + 1] <= s[j + 1]
  BY <1>8, BestLargest
<1>10. HeapOrdered(s, n)
  BY <1>8, <1>9, SinkStops
<1> QED
  BY <1>1, <1>4, <1>7, <1>8, <1>10
-----------------------------------------------------------------------------
(* The heap a call works on, as an array of n values.                        *)
QueueInv == /\ heap \in Seq(QueueValues)
            /\ HeapOrdered(heap, Len(heap))

(* push: the pushed value and no other is added, and the heap is one again.  *)
LEMMA PushAdds ==
  ASSUME PQ!QueueAssumption, QueueInv, NEW w \in QueueValues, PQ!Push(w)
  PROVE  /\ QueueInv'
         /\ \A v \in QueueValues : CountOf(heap', v) = CountOf(heap, v) + (IF v = w THEN 1 ELSE 0)
<1> USE DEF PQ!QueueAssumption
<1>1. PICK n \in Nat : n = Len(heap) /\ heap \in [1..n -> QueueValues]
  BY DEF QueueInv
<1>2. PICK c : c = Append(heap, w)
  OBVIOUS
<1>3. /\ c \in [1..(n + 1) -> QueueValues] /\ c[n + 1] = w
      /\ \A i \in 1..n : c[i] = heap[i]
  <2>1. c \in Seq(QueueValues) /\ Len(c) = n + 1
    BY <1>1, <1>2 DEF QueueInv
  <2>2. \A i \in 1..n : c[i] = heap[i]
    BY <1>1, <1>2 DEF QueueInv
  <2>3. c[n + 1] = w
    BY <1>1, <1>2 DEF QueueInv
  <2> QED
    BY <2>1, <2>2, <2>3
<1>4. PICK m \in Nat \ {0} : m = n + 1 /\ n = m - 1
  BY <1>1
<1>5. ClimbOrdered(c, m, n)
  <2>1. ASSUME NEW i \in 1..(m - 1), i # n PROVE c[i + 1] <= c[Parent(i) + 1]
    <3>1. i \in 1..(n - 1)
      BY <1>4, <2>1
    <3>2. PICK p : p = Parent(i)
      OBVIOUS
    <3>3. p \in 0..(n - 1)
      BY <3>1, <3>2, ParentBefore
    <3>4. heap[i + 1] <= heap[p + 1]
      BY <1>1, <3>1, <3>2 DEF QueueInv, HeapOrdered
    <3>5. c[i + 1] = heap[i + 1] /\ c[p + 1] = heap[p + 1]
      BY <1>1, <1>3, <3>1, <3>3
    <3> QED
      BY <3>2, <3>4, <3>5
  <2>2. ASSUME NEW i \in 1..(m - 1) PROVE Parent(i) # n
    BY <1>1, <1>4, ParentBefore
  <2> QED
    BY <2>1, <2>2 DEF ClimbOrdered
<1>6. PICK s \in [1..m -> QueueValues] :
        PQ!SiftUp(c, n) = s /\ HeapOrdered(s, m) /\ KeepsCounts(s, c)
  <2>1. n \in 0..(m - 1) /\ c \in [1..m -> QueueValues]
    BY <1>3, <1>4
  <2> QED
    BY <1>4, <1>5, <2>1, ClimbSettles, SameClimb
<1>7. heap' = s
  BY <1>1, <1>2, <1>6 DEF PQ!Push
<1>8. s \in Seq(QueueValues) /\ Len(s) = m
  BY <1>6
<1>9. QueueInv'
  BY <1>6, <1>7, <1>8 DEF QueueInv
<1>10. ASSUME NEW v \in QueueValues PROVE CountOf(c, v) = CountOf(heap, v) + (IF v = w THEN 1 ELSE 0)
  <2>1. CountOf(c, v) = CountOf(heap, v) + (IF v = c[n + 1] THEN 1 ELSE 0)
    <3>1. Grown(c, heap, n)
      BY <1>1, <1>3 DEF Grown
    <3> QED
      BY <3>1, CountGrows
  <2> QED
    BY <1>3, <2>1
<1> QED
  BY <1>6, <1>7, <1>9, <1>10 DEF KeepsCounts

(* pop: the root and no other is taken, and what is left is a heap again.    *)
LEMMA PopTakes ==
  ASSUME PQ!QueueAssumption, QueueInv, PQ!Pop
  PROVE  /\ QueueInv' /\ Len(heap) > 0
         /\ \A v \in QueueValues :
              CountOf(heap, v) = CountOf(heap', v) + (IF v = heap[1] THEN 1 ELSE 0)
<1> USE DEF PQ!QueueAssumption
<1>1. PICK n \in Nat : n = Len(heap) /\ heap \in [1..n -> QueueValues]
  BY DEF QueueInv
<1>2. CASE n = 1 /\ heap' = <<>>
  <2>1. QueueInv'
    BY <1>2 DEF QueueInv, HeapOrdered
  <2>2. ASSUME NEW v \in QueueValues
        PROVE  CountOf(heap, v) = CountOf(<<>>, v) + (IF v = heap[0 + 1] THEN 1 ELSE 0)
    <3>1. <<>> \in [1..0 -> QueueValues] /\ heap \in [1..(0 + 1) -> QueueValues] /\ 0 \in Nat
      BY <1>1, <1>2
    <3>2. Grown(heap, <<>>, 0)
      BY <3>1 DEF Grown
    <3> QED
      BY <3>2, CountGrows
  <2> QED
    BY <1>1, <1>2, <2>1, <2>2
<1>3. CASE n > 1 /\ heap' = PQ!SiftDown(PQ!Front(PQ!Swapped(heap, 0, n - 1)), 0)
  <2>1. PICK m \in Nat \ {0} : n = m + 1 /\ m = n - 1
    BY <1>3
  <2>2. PICK z : z = Exchanged(heap, 0, m)
    OBVIOUS
  <2>3. Swaps(z, heap, n, 0, m)
    <3>1. 0 \in 0..(n - 1) /\ m \in 0..(n - 1) /\ heap \in [1..n -> QueueValues]
      BY <1>1, <1>3, <2>1
    <3> QED
      BY <2>2, <3>1, SwapAt
  <2>4. PICK c : c = PQ!Front(z)
    OBVIOUS
  <2>5. z \in Seq(QueueValues) /\ Len(z) = n
    BY <2>3 DEF Swaps
  <2>6. c \in [1..m -> QueueValues] /\ \A i \in 1..m : c[i] = z[i]
    <3>1. c = SubSeq(z, 1, m)
      BY <2>1, <2>4, <2>5 DEF PQ!Front
    <3>2. z \in [1..n -> QueueValues] /\ m <= n
      BY <2>1, <2>3 DEF Swaps
    <3>3. c = [i \in 1..m |-> z[i]]
      BY <2>1, <2>5, <3>1, <3>2
    <3> QED
      BY <2>1, <3>2, <3>3
  <2>7. z[m + 1] = heap[1]
    <3>1. z[m + 1] = heap[0 + 1]
      BY <2>1, <2>3 DEF Swaps
    <3> QED
      BY <3>1
  <2>8. \A i \in 1..(m - 1) : c[i + 1] = heap[i + 1]
    <3>1. ASSUME NEW i \in 1..(m - 1) PROVE c[i + 1] = heap[i + 1]
      <4>1. i \in 0..(n - 1) /\ i # m /\ i # 0 /\ i + 1 \in 1..m
        BY <2>1
      <4>2. z[i + 1] = heap[i + 1]
        BY <2>3, <4>1 DEF Swaps
      <4> QED
        BY <2>6, <4>1, <4>2
    <3> QED
      BY <3>1
  <2>9. SinkOrdered(c, m, 0)
    <3>1. ASSUME NEW i \in 1..(m - 1), Parent(i) # 0 PROVE c[i + 1] <= c[Parent(i) + 1]
      <4>1. PICK p : p = Parent(i)
        OBVIOUS
      <4>2. p \in 1..(m - 1)
        BY <3>1, <4>1, ParentBefore
      <4>3. heap[i + 1] <= heap[p + 1]
        BY <1>1, <2>1, <4>1 DEF QueueInv, HeapOrdered
      <4>4. c[i + 1] = heap[i + 1] /\ c[p + 1] = heap[p + 1]
        BY <2>8, <4>2
      <4> QED
        BY <4>1, <4>3, <4>4
    <3> QED
      BY <3>1 DEF SinkOrdered
  <2>10. PICK s \in [1..m -> QueueValues] :
           PQ!SiftDown(c, 0) = s /\ HeapOrdered(s, m) /\ KeepsCounts(s, c)
    <3>1. 0 \in 0..(m - 1)
      OBVIOUS
    <3> QED
      BY <2>6, <2>9, <3>1, SinkSettles, SameSink
  <2>11. heap' = s
    <3>1. PQ!Swapped(heap, 0, n - 1) = z
      BY <2>1, <2>2 DEF PQ!Swapped, Exchanged
    <3> QED
      BY <1>3, <2>4, <2>10, <3>1
  <2>12. s \in Seq(QueueValues) /\ Len(s) = m
    BY <2>10
  <2>13. QueueInv'
    BY <2>10, <2>11, <2>12 DEF QueueInv
  <2>14. ASSUME NEW v \in QueueValues
         PROVE  CountOf(heap, v) = CountOf(s, v) + (IF v = heap[1] THEN 1 ELSE 0)
    <3>1. CountOf(z, v) = CountOf(heap, v)
      <4>1. 0 \in 0..(n - 1) /\ m \in 0..(n - 1) /\ heap \in [1..n -> QueueValues]
        BY <1>1, <1>3, <2>1
      <4> QED
        BY <2>3, <4>1, SwapCounts
    <3>2. CountOf(z, v) = CountOf(c, v) + (IF v = z[m + 1] THEN 1 ELSE 0)
      <4>1. z \in [1..(m + 1) -> QueueValues] /\ m \in Nat
        BY <2>1, <2>3 DEF Swaps
      <4>2. Grown(z, c, m)
        BY <2>6, <4>1 DEF Grown
      <4> QED
        BY <4>2, CountGrows
    <3>3. CountOf(s, v) = CountOf(c, v)
      BY <2>10 DEF KeepsCounts
    <3> QED
      BY <2>7, <3>1, <3>2, <3>3
  <2> QED
    BY <1>1, <1>3, <2>11, <2>13, <2>14
<1> QED
  BY <1>1, <1>2, <1>3 DEF PQ!Pop

LEMMA CountsNatural == ASSUME NEW s \in Seq(QueueValues), NEW v PROVE CountOf(s, v) \in Nat
<1>1. PICK S : S = {i \in DOMAIN s : s[i] = v}
  OBVIOUS
<1>2. IsFiniteSet(1..Len(s)) /\ S \in SUBSET (1..Len(s))
  BY <1>1, FS_Interval
<1>3. Cardinality(S) \in Nat
  BY <1>2, FS_Subset, FS_CardinalityType
<1>4. CountOf(s, v) = Cardinality(S)
  BY <1>1 DEF CountOf
<1> QED
  BY <1>3, <1>4

(* After any pushes and pops the array is a heap: no element is larger than  *)
(* its parent, so that top() is the largest.                                 *)
THEOREM QueueStaysHeap == ASSUME PQ!QueueAssumption PROVE PQ!Spec => []QueueInv
<1>1. PQ!Init => QueueInv
  BY DEF PQ!Init, QueueInv, HeapOrdered
<1>2. ASSUME QueueInv, [PQ!Next]_heap PROVE QueueInv'
  <2>1. CASE PQ!Pop
    BY <1>2, <2>1, PopTakes
  <2>2. ASSUME NEW w \in QueueValues, PQ!Push(w) PROVE QueueInv'
    BY <1>2, <2>2, PushAdds
  <2>3. CASE UNCHANGED heap
    BY <1>2, <2>3 DEF QueueInv
  <2> QED
    BY <1>2, <2>1, <2>2, <2>3 DEF PQ!Next
<1> QED
  BY <1>1, <1>2, PTL DEF PQ!Spec

(* push adds one element and pop takes one, the largest, whatever pushes and *)
(* pops came before.                                                         *)
THEOREM QueuePopsLargest == ASSUME PQ!QueueAssumption PROVE PQ!Spec => PQ!PopsLargest
<1>1. ASSUME NEW v \in QueueValues
      PROVE  PQ!Occurs(v) = CountOf(heap, v) /\ PQ!Occurs(v)' = CountOf(heap', v)
  <2>1. PQ!Occurs(v) = CountOf(heap, v)
    BY DEF PQ!Occurs, CountOf, PQ!Cardinality, Cardinality
  <2>2. PQ!Occurs(v)' = CountOf(heap', v)
    BY DEF PQ!Occurs, CountOf, PQ!Cardinality, Cardinality
  <2> QED
    BY <2>1, <2>2
<1>2. ASSUME QueueInv, Len(heap) > 0 PROVE PQ!Max(PQ!ToSet(heap)) = heap[1]
  <2>1. PICK n \in Nat : n = Len(heap) /\ heap \in [1..n -> QueueValues] /\ n > 0
    BY <1>2 DEF QueueInv
  <2>2. \A i \in 0..(n - 1) : heap[i + 1] <= heap[1] /\ heap[i + 1] \in Int
    BY <1>2, <2>1, HeapElements, RootLargest DEF QueueInv, PQ!QueueAssumption
  <2>3. \A i \in 1..n : heap[i] <= heap[1] /\ heap[i] \in Int
    <3>1. ASSUME NEW i \in 1..n PROVE heap[i] <= heap[1] /\ heap[i] \in Int
      <4>1. i - 1 \in 0..(n - 1) /\ (i - 1) + 1 = i
        OBVIOUS
      <4> QED
        BY <2>2, <4>1
    <3> QED
      BY <3>1
  <2>4. PICK S : S = PQ!ToSet(heap)
    OBVIOUS
  <2>5. S = {heap[i] : i \in 1..n}
    BY <2>1, <2>4 DEF PQ!ToSet
  <2>6. heap[1] \in S /\ \A y \in S : heap[1] >= y /\ y \in Int
    BY <2>1, <2>3, <2>5
  <2>7. \A x \in S : (\A y \in S : x >= y) => x = heap[1]
    BY <2>6
  <2>8. PQ!Max(S) = heap[1]
    BY <2>6, <2>7 DEF PQ!Max
  <2> QED
    BY <2>4, <2>8
<1>3. ASSUME QueueInv, PQ!Pop, NEW v \in QueueValues
      PROVE  PQ!Occurs(v)' = PQ!Occurs(v) - (IF v = PQ!Max(PQ!ToSet(heap)) THEN 1 ELSE 0)
  <2>1. CountOf(heap, v) = CountOf(heap', v) + (IF v = heap[1] THEN 1 ELSE 0) /\ Len(heap) > 0 /\ QueueInv'
    BY <1>3, PopTakes
  <2>2. CountOf(heap', v) \in Nat
    BY <2>1, CountsNatural DEF QueueInv
  <2> QED
    BY <1>1, <1>2, <1>3, <2>1, <2>2
<1>4. ASSUME QueueInv, NEW w \in QueueValues, PQ!Push(w), NEW v \in QueueValues
      PROVE  PQ!Occurs(v)' = PQ!Occurs(v) + (IF v = w THEN 1 ELSE 0)
  BY <1>1, <1>4, PushAdds
<1>5. QueueInv =>
        [/\ PQ!Pop => \A v \in QueueValues :
              PQ!Occurs(v)' = PQ!Occurs(v) - (IF v = PQ!Max(PQ!ToSet(heap)) THEN 1 ELSE 0)
         /\ \A w \in QueueValues : PQ!Push(w) =>
              \A v \in QueueValues : PQ!Occurs(v)' = PQ!Occurs(v) + (IF v = w THEN 1 ELSE 0)]_heap
  BY <1>3, <1>4, Zenon
<1> QED
  BY <1>5, QueueStaysHeap, PTL DEF PQ!PopsLargest
-----------------------------------------------------------------------------
(* inplace_vector, of any values and any number of slots. *)
CONSTANTS SlotValues, SlotDefault, SlotCount
VARIABLES storage, filled
IV == INSTANCE InplaceVector WITH Values <- SlotValues, Default <- SlotDefault,
                                  N <- SlotCount, size <- filled

(* The slots hold values, and no more of them are elements than there are.   *)
THEOREM InplaceTyped == ASSUME IV!InplaceAssumption PROVE IV!Spec => []IV!TypeOK
<1>1. IV!Init => IV!TypeOK
  BY DEF IV!InplaceAssumption, IV!Init, IV!TypeOK
<1>2. ASSUME IV!TypeOK, [IV!Next]_IV!vars PROVE IV!TypeOK'
  <2> USE <1>2 DEF IV!InplaceAssumption, IV!TypeOK
  <2>1. ASSUME NEW v \in SlotValues, IV!PushBack(v) PROVE IV!TypeOK'
    BY <2>1 DEF IV!PushBack
  <2>2. ASSUME NEW v \in SlotValues, NEW i \in 1..SlotCount, IV!AssignAt(i, v) PROVE IV!TypeOK'
    BY <2>2 DEF IV!AssignAt
  <2>3. ASSUME NEW n \in 0..SlotCount, NEW v \in SlotValues, IV!Resize(n, v) PROVE IV!TypeOK'
    BY <2>3 DEF IV!Resize, IV!FilledFrom
  <2>4. ASSUME IV!PopBack \/ IV!Clear \/ UNCHANGED IV!vars PROVE IV!TypeOK'
    BY <2>4 DEF IV!PopBack, IV!Clear, IV!vars
  <2> QED
    BY <1>2, <2>1, <2>2, <2>3, <2>4 DEF IV!Next
<1> QED
  BY <1>1, <1>2, PTL DEF IV!Spec

(* The content is a sequence: the slots up to the size. *)
LEMMA InplaceContent ==
  ASSUME NEW s, NEW n \in 0..SlotCount, SlotCount \in Nat, s \in [1..SlotCount -> SlotValues]
  PROVE  /\ SubSeq(s, 1, n) \in Seq(SlotValues)
         /\ Len(SubSeq(s, 1, n)) = n
         /\ SubSeq(s, 1, n) = [i \in 1..n |-> s[i]]
<1>1. s \in Seq(SlotValues) /\ Len(s) = SlotCount
  OBVIOUS
<1>2. SubSeq(s, 1, n) = [i \in 1..n |-> s[i]]
  BY <1>1
<1> QED
  BY <1>2

(* Each call of inplace_vector is the sequence's call it is named for.       *)
THEOREM InplaceBehaves == ASSUME IV!InplaceAssumption PROVE IV!Spec => IV!BehavesLikeSequence
<1> DEFINE c == [i \in 1..filled |-> storage[i]]
<1>1. ASSUME IV!TypeOK, IV!TypeOK'
      PROVE  /\ IV!Content = c /\ IV!Content' = c'
             /\ c \in Seq(SlotValues) /\ Len(c) = filled
             /\ c' \in Seq(SlotValues) /\ Len(c') = filled'
  BY <1>1, InplaceContent DEF IV!Content, IV!TypeOK, IV!InplaceAssumption
<1>2. ASSUME IV!TypeOK, IV!TypeOK', IV!PopBack PROVE IV!Content' = IV!Front(IV!Content)
  BY <1>1, <1>2 DEF IV!PopBack, IV!TypeOK, IV!Front
<1>3. ASSUME IV!TypeOK, IV!TypeOK', IV!Clear PROVE IV!Content' = <<>>
  BY <1>1, <1>3 DEF IV!Clear
<1>4. ASSUME IV!TypeOK, IV!TypeOK', NEW v \in SlotValues, IV!PushBack(v)
      PROVE  IV!Content' = Append(IV!Content, v)
  <2>1. \A i \in 1..(filled + 1) : storage'[i] = IF i = filled + 1 THEN v ELSE storage[i]
    BY <1>4 DEF IV!PushBack, IV!TypeOK, IV!InplaceAssumption
  <2>2. filled' = filled + 1
    BY <1>4 DEF IV!PushBack
  <2> QED
    BY <1>1, <1>4, <2>1, <2>2 DEF IV!TypeOK
<1>5. ASSUME IV!TypeOK, IV!TypeOK', NEW v \in SlotValues, NEW i \in 1..SlotCount, IV!AssignAt(i, v)
      PROVE  IV!Content' = [IV!Content EXCEPT ![i] = v]
  <2>1. filled' = filled /\ \A j \in 1..filled : storage'[j] = IF j = i THEN v ELSE storage[j]
    BY <1>5 DEF IV!AssignAt, IV!TypeOK, IV!InplaceAssumption
  <2> QED
    BY <1>1, <1>5, <2>1 DEF IV!TypeOK
<1>6. ASSUME IV!TypeOK, IV!TypeOK', NEW v \in SlotValues, NEW n \in 0..SlotCount, IV!Resize(n, v)
      PROVE  IV!Content' = [i \in 1..n |-> IF i <= filled THEN IV!Content[i] ELSE v]
  <2>1. filled' = n /\ \A j \in 1..n : storage'[j] = IF j <= filled THEN storage[j] ELSE v
    BY <1>6 DEF IV!Resize, IV!FilledFrom, IV!TypeOK, IV!InplaceAssumption
  <2> QED
    BY <1>1, <1>6, <2>1 DEF IV!TypeOK
<1>7. IV!TypeOK /\ IV!TypeOK' =>
        [/\ IV!PopBack => IV!Content' = IV!Front(IV!Content)
         /\ IV!Clear => IV!Content' = <<>>
         /\ \A v \in SlotValues :
              /\ IV!PushBack(v) => IV!Content' = Append(IV!Content, v)
              /\ \A i \in 1..SlotCount : IV!AssignAt(i, v) => IV!Content' = [IV!Content EXCEPT ![i] = v]
              /\ \A n \in 0..SlotCount : IV!Resize(n, v) =>
                   IV!Content' = [i \in 1..n |-> IF i <= filled THEN IV!Content[i] ELSE v]]_IV!vars
  BY <1>2, <1>3, <1>4, <1>5, <1>6, Zenon
<1> QED
  BY <1>7, InplaceTyped, PTL DEF IV!BehavesLikeSequence
=============================================================================
