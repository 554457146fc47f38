------------------------ MODULE DynamicArray_proofs -------------------------
(* Proofs about DynamicArray, for any number of arrays, iterators, backends  *)
(* and buffers, every set of values and every capacity.                      *)
EXTENDS DynamicArray, FiniteSetTheorems, SequenceTheorems, WellFoundedInduction, TLAPS

Contents == Values \cup {Raw, Hollow}
Shape == [mem : Mems \cup {NoMem}, buf : Bufs \cup {NoBuf}, size : Nat, cap : Nat]
Spot == [mem : Mems \cup {NoMem}, buf : Bufs \cup {NoBuf}]

(* What is outside its lifetime is blank, and nothing lies at the null       *)
(* address.                                                                  *)
BlanksBlank ==
  /\ \A a \in Arrays : arr[a].mem = NoMem => arr[a] = Absent
  /\ \A i \in Iters : iter[i].mem = NoMem => iter[i] = NoIter
  /\ cell[NoBuf] = <<>>

(* The inductive invariant.  A backend that an array or iterator points to   *)
(* is not deleted because its count is exact; its buffers then stay; and no  *)
(* call writes to a buffer of another array because none is shared.          *)
IInv == /\ TypeOK /\ BlanksBlank
        /\ RefsExact /\ BuffersHeld /\ ElementsInPlace
-----------------------------------------------------------------------------
(* How the number of members changes when at most x goes in or out.          *)
LEMMA OneMember ==
  ASSUME NEW S, IsFiniteSet(S), NEW x \in S, NEW P, P \subseteq S, NEW Q, Q \subseteq S,
         \A y \in S \ {x} : y \in P <=> y \in Q
  PROVE  /\ Cardinality(P) \in Nat /\ Cardinality(Q) \in Nat
         /\ Cardinality(Q) = Cardinality(P) + (IF x \in Q THEN 1 ELSE 0)
                                            - (IF x \in P THEN 1 ELSE 0)
<1>1. IsFiniteSet(P) /\ IsFiniteSet(Q) /\ Cardinality(P) \in Nat /\ Cardinality(Q) \in Nat
  BY FS_Subset, FS_CardinalityType
<1>2. CASE x \in P /\ x \notin Q
  <2>1. Q = P \ {x}
    BY <1>2
  <2> QED
    BY <1>1, <1>2, <2>1, FS_RemoveElement
<1>3. CASE x \notin P /\ x \in Q
  <2>1. Q = P \cup {x}
    BY <1>3
  <2> QED
    BY <1>1, <1>3, <2>1, FS_AddElement
<1>4. CASE (x \in P /\ x \in Q) \/ (x \notin P /\ x \notin Q)
  <2>1. Q = P
    BY <1>4
  <2> QED
    BY <1>1, <1>4, <2>1
<1> QED
  BY <1>2, <1>3, <1>4

(* Whoever points to a backend is counted, so its count is not 0.            *)
LEMMA Counted ==
  ASSUME NEW A, IsFiniteSet(A), NEW I, IsFiniteSet(I), A # {} \/ I # {}
  PROVE  Cardinality(A) + Cardinality(I) # 0
<1>1. Cardinality(A) \in Nat /\ Cardinality(I) \in Nat
  BY FS_CardinalityType
<1>2. Cardinality(A) # 0 \/ Cardinality(I) # 0
  BY FS_EmptySet
<1> QED
  BY <1>1, <1>2

(* An array that points elsewhere than before is counted out and in.         *)
LEMMA ArrayRebound ==
  ASSUME DynamicArrayAssumption, TypeOK, RefsExact, NEW a \in Arrays,
         NEW from, NEW to, refs' = Rebind(from, to), iter' = iter,
         arr' \in [Arrays -> Shape], \A b \in Arrays \ {a} : arr'[b].mem = arr[b].mem,
         \/ from = arr[a].mem /\ to = arr'[a].mem
         \/ from = to /\ arr[a].mem = arr'[a].mem
  PROVE  RefsExact' /\ refs' \in [Mems -> Nat]
<1> SUFFICES ASSUME NEW m \in Mems
             PROVE  /\ refs'[m] = Cardinality({b \in Arrays : arr'[b].mem = m})
                                  + Cardinality({i \in Iters : iter'[i].mem = m})
                    /\ refs'[m] \in Nat
  BY DEF RefsExact, Rebind
<1> DEFINE P == {b \in Arrays : arr[b].mem = m}
           Q == {b \in Arrays : arr'[b].mem = m}
           I == {i \in Iters : iter[i].mem = m}
<1>1. refs[m] = Cardinality(P) + Cardinality(I)
  BY DEF RefsExact
<1>2. /\ refs'[m] = refs[m] + (IF m = to THEN 1 ELSE 0) - (IF m = from THEN 1 ELSE 0)
      /\ refs[m] \in Nat
  BY DEF Rebind, TypeOK
<1>3. Cardinality(I) \in Nat
  BY FS_Subset, FS_CardinalityType DEF DynamicArrayAssumption
<1>4. /\ P \subseteq Arrays /\ Q \subseteq Arrays /\ \A b \in Arrays \ {a} : b \in P <=> b \in Q
      /\ (a \in Q <=> arr'[a].mem = m) /\ (a \in P <=> arr[a].mem = m)
  OBVIOUS
<1>5. Q = {b \in Arrays : arr'[b].mem = m} /\ I = {i \in Iters : iter'[i].mem = m}
  OBVIOUS
<1> HIDE DEF P, Q, I
<1>6. /\ Cardinality(P) \in Nat /\ Cardinality(Q) \in Nat
      /\ Cardinality(Q) = Cardinality(P) + (IF a \in Q THEN 1 ELSE 0)
                                         - (IF a \in P THEN 1 ELSE 0)
  BY <1>4, OneMember DEF DynamicArrayAssumption
<1>7. refs'[m] = Cardinality(Q) + Cardinality(I)
  BY <1>1, <1>2, <1>3, <1>4, <1>6
<1> QED
  BY <1>3, <1>5, <1>6, <1>7

(* The same for an iterator.                                                 *)
LEMMA IterRebound ==
  ASSUME DynamicArrayAssumption, TypeOK, RefsExact, NEW i \in Iters,
         refs' = Rebind(iter[i].mem, iter'[i].mem), arr' = arr,
         iter' \in [Iters -> Spot], \A j \in Iters \ {i} : iter'[j] = iter[j]
  PROVE  RefsExact' /\ refs' \in [Mems -> Nat]
<1> SUFFICES ASSUME NEW m \in Mems
             PROVE  /\ refs'[m] = Cardinality({b \in Arrays : arr'[b].mem = m})
                                  + Cardinality({j \in Iters : iter'[j].mem = m})
                    /\ refs'[m] \in Nat
  BY DEF RefsExact, Rebind
<1> DEFINE A == {b \in Arrays : arr[b].mem = m}
           P == {j \in Iters : iter[j].mem = m}
           Q == {j \in Iters : iter'[j].mem = m}
<1>1. refs[m] = Cardinality(A) + Cardinality(P)
  BY DEF RefsExact
<1>2. /\ refs'[m] = refs[m] + (IF m = iter'[i].mem THEN 1 ELSE 0)
                            - (IF m = iter[i].mem THEN 1 ELSE 0)
      /\ refs[m] \in Nat
  BY DEF Rebind, TypeOK
<1>3. Cardinality(A) \in Nat
  BY FS_Subset, FS_CardinalityType DEF DynamicArrayAssumption
<1>4. /\ P \subseteq Iters /\ Q \subseteq Iters /\ \A j \in Iters \ {i} : j \in P <=> j \in Q
      /\ (i \in Q <=> iter'[i].mem = m) /\ (i \in P <=> iter[i].mem = m)
  OBVIOUS
<1>5. Q = {j \in Iters : iter'[j].mem = m} /\ A = {b \in Arrays : arr'[b].mem = m}
  OBVIOUS
<1> HIDE DEF A, P, Q
<1>6. /\ Cardinality(P) \in Nat /\ Cardinality(Q) \in Nat
      /\ Cardinality(Q) = Cardinality(P) + (IF i \in Q THEN 1 ELSE 0)
                                         - (IF i \in P THEN 1 ELSE 0)
  BY <1>4, OneMember DEF DynamicArrayAssumption
<1>7. refs'[m] = Cardinality(A) + Cardinality(Q)
  BY <1>1, <1>2, <1>3, <1>4, <1>6
<1> QED
  BY <1>3, <1>5, <1>6, <1>7
-----------------------------------------------------------------------------
(* A nonempty set of naturals has a least element, which is what Lowest is.  *)
LEMMA NatOrder == OpToRel(<, Nat) = {p \in Nat \X Nat : p[1] < p[2]}
BY Zenon DEF OpToRel

LEMMA LowestChosen ==
  ASSUME NEW S, S \subseteq Nat, S # {}
  PROVE  Lowest(S) \in S
<1> DEFINE R == {p \in Nat \X Nat : p[1] < p[2]}
<1>1. IsWellFoundedOn(R, Nat)
  BY NatOrder, NatLessThanWellFounded, Zenon
<1>2. PICK x \in S : \A y \in S : ~ (<<y, x>> \in R)
  BY <1>1, WFMin
<1>3. ASSUME NEW y \in S, y < x PROVE FALSE
  <2>1. <<y, x>> \in Nat \X Nat
    OBVIOUS
  <2> QED
    BY <1>2, <1>3, <2>1
<1>4. \E z \in S : \A y \in S : z <= y
  BY <1>2, <1>3
<1> QED
  BY <1>4 DEF Lowest

(* A function on 1..n is a sequence of length n.                             *)
LEMMA FunctionIsSeq ==
  ASSUME NEW S, NEW n \in Nat, NEW f \in [1..n -> S]
  PROVE  f \in Seq(S) /\ Len(f) = n /\ DOMAIN f = 1..n
OBVIOUS

(* Slots, and what they hold.                                                *)
LEMMA CellTyped ==
  ASSUME TypeOK, NEW b \in Bufs \cup {NoBuf}
  PROVE  /\ cell[b] \in Seq(Contents) /\ Len(cell[b]) \in Nat
         /\ DOMAIN cell[b] = 1..Len(cell[b])
         /\ \A k \in 1..Len(cell[b]) : cell[b][k] \in Contents
<1>1. cell[b] \in Seq(Contents)
  BY DEF TypeOK, Contents
<1> QED
  BY <1>1, LenProperties, ElementOfSeq

(* What allocate returns: null, or a buffer that no backend has recorded.    *)
LEMMA AllocatedFresh ==
  ASSUME DynamicArrayAssumption, NEW n \in Nat, CanAllocate(n)
  PROVE  /\ n = 0 => Allocated(n) = NoBuf
         /\ n # 0 => /\ Allocated(n) \in Bufs /\ Allocated(n) # NoBuf
                     /\ \A m \in Mems : Allocated(n) \notin owned[m]
<1>1. ASSUME n # 0 PROVE Allocated(n) \in FreeBufs
  <2>1. FreeBufs \subseteq Nat /\ FreeBufs # {}
    BY <1>1 DEF DynamicArrayAssumption, FreeBufs, CanAllocate
  <2> QED
    BY <1>1, <2>1, LowestChosen DEF Allocated
<1> QED
  BY <1>1 DEF Allocated, FreeBufs, DynamicArrayAssumption, NoBuf

(* A living array points to its own buffer with as many slots as its capacity. *)
InOrder(a) ==
  /\ a \in Arrays /\ arr[a] \in Shape /\ arr[a].mem \in Mems
  /\ arr[a].buf \in Bufs \cup {NoBuf} /\ arr[a].size \in Nat /\ arr[a].cap \in Nat
  /\ arr[a].size <= arr[a].cap
  /\ Slots(a) = cell[arr[a].buf] /\ Slots(a) \in Seq(Contents)
  /\ Len(Slots(a)) = arr[a].cap /\ DOMAIN Slots(a) = 1..arr[a].cap
  /\ \A k \in 1..arr[a].cap : Slots(a)[k] \in Contents
  /\ \A k \in 1..arr[a].size : Slots(a)[k] \in Values
  /\ arr[a].buf = NoBuf => arr[a].cap = 0
  /\ arr[a].buf # NoBuf => arr[a].buf \in owned[arr[a].mem]

LEMMA LiveTyped ==
  ASSUME DynamicArrayAssumption, IInv, NEW a \in Live
  PROVE  InOrder(a)
<1>1. a \in Arrays /\ arr[a] \in Shape /\ arr[a].mem # NoMem
  BY DEF Live, IInv, TypeOK, Shape
<1>2. /\ arr[a].mem \in Mems /\ arr[a].buf \in Bufs \cup {NoBuf}
      /\ arr[a].size \in Nat /\ arr[a].cap \in Nat
  BY <1>1 DEF Shape
<1>3. /\ cell[arr[a].buf] \in Seq(Contents)
      /\ DOMAIN cell[arr[a].buf] = 1..Len(cell[arr[a].buf])
      /\ \A k \in 1..Len(cell[arr[a].buf]) : cell[arr[a].buf][k] \in Contents
  BY <1>2, CellTyped DEF IInv
<1>4. /\ Len(Slots(a)) = arr[a].cap /\ arr[a].size <= arr[a].cap
      /\ \A k \in 1..arr[a].size : Slots(a)[k] \in Values
  BY DEF IInv, ElementsInPlace
<1>5. arr[a].buf = NoBuf => arr[a].cap = 0
  BY <1>4 DEF IInv, BlanksBlank, Slots
<1>6. arr[a].buf # NoBuf => arr[a].buf \in owned[arr[a].mem]
  BY DEF IInv, BuffersHeld
<1> QED
  BY <1>1, <1>2, <1>3, <1>4, <1>5, <1>6 DEF InOrder, Slots

(* An object above the size of an array is one that no array would destroy.  *)
LEMMA StrayAbove ==
  ASSUME DynamicArrayAssumption, IInv, NEW a \in Live, arr[a].buf \in Bufs,
         NEW k \in arr[a].size + 1..arr[a].cap, Slots(a)[k] # Raw
  PROVE  Stray(arr[a].buf, k)
<1>1. InOrder(a) /\ arr[a].buf # NoBuf
  BY LiveTyped DEF DynamicArrayAssumption, NoBuf
<1>2. \A c \in Live : arr[c].buf = arr[a].buf => c = a
  BY <1>1 DEF IInv, BuffersHeld
<1>3. k \in DOMAIN cell[arr[a].buf] /\ cell[arr[a].buf][k] # Raw /\ arr[a].size < k
  BY <1>1 DEF InOrder, Slots
<1> QED
  BY <1>2, <1>3 DEF Stray

(* No step but an erase leaves an object where no array destroys it, and an  *)
(* erase of array a only in the slots L of its buffer, moved from.           *)
Tidy == \A b \in Bufs : \A k \in DOMAIN cell'[b] : Stray(b, k)' => Stray(b, k)
TidyBut(a, L) ==
  \A b \in Bufs : \A k \in DOMAIN cell'[b] : Stray(b, k)' =>
    \/ Stray(b, k)
    \/ arr[a].buf = b /\ k \in L /\ cell'[b][k] = Remains(cell[b][k])
-----------------------------------------------------------------------------
(* What reserve, or no growth at all, leaves of the heap and of array a: the *)
(* same elements, in the buffer the array had or in a new one.               *)
Grew(a, h) ==
  LET new == h.arr[a]
      old == arr[a]
  IN /\ h.arr = [arr EXCEPT ![a] = new]
     /\ new \in Shape /\ new.mem = old.mem /\ new.size = old.size /\ new.cap >= old.cap
     /\ new.buf = NoBuf => new.cap = 0
     /\ h.cell \in [Bufs \cup {NoBuf} -> Seq(Contents)] /\ h.cell[NoBuf] = <<>>
     /\ Len(h.cell[new.buf]) = new.cap
     /\ \A k \in 1..old.size : h.cell[new.buf][k] = Slots(a)[k]
     /\ \A b \in Bufs \ {old.buf, new.buf} : h.cell[b] = cell[b]
     /\ \/ new.buf = old.buf /\ h.owned = owned /\ h.cell[old.buf] = Slots(a)
        \/ /\ new.buf \in Bufs /\ \A m \in Mems : new.buf \notin owned[m]
           /\ h.owned = [owned EXCEPT ![old.mem] = @ \cup {new.buf}]
           /\ \A k \in old.size + 1..new.cap : h.cell[new.buf][k] = Raw
           /\ Len(h.cell[old.buf]) = old.cap
           /\ \A k \in 1..old.cap :
                h.cell[old.buf][k] = IF k <= old.size THEN Raw ELSE Slots(a)[k]

(* The slots above the elements of a that hold an object after the growth.   *)
Above(a, h) ==
  {k \in arr[a].size + 1..arr[a].cap : h.arr[a].buf = arr[a].buf /\ Slots(a)[k] # Raw}

LEMMA InPlaceGrew ==
  ASSUME DynamicArrayAssumption, IInv, NEW a \in Live
  PROVE  Grew(a, InPlace)
<1>0. InOrder(a)
  BY LiveTyped
<1>2. cell \in [Bufs \cup {NoBuf} -> Seq(Contents)] /\ cell[NoBuf] = <<>>
  BY DEF IInv, TypeOK, BlanksBlank, Contents
<1>3. arr = [arr EXCEPT ![a] = arr[a]]
  BY <1>0 DEF InOrder, IInv, TypeOK
<1> QED
  BY <1>2, <1>3, <1>0 DEF InOrder, Grew, InPlace, Slots

(* A header that is given another buffer and its capacity keeps the rest. *)
LEMMA HeaderMoved ==
  ASSUME NEW r \in Shape, NEW x, NEW y
  PROVE  [[r EXCEPT !.buf = x] EXCEPT !.cap = y]
           = [mem |-> r.mem, buf |-> x, size |-> r.size, cap |-> y]
<1> DEFINE s == [mem |-> r.mem, buf |-> x, size |-> r.size, cap |-> r.cap]
<1>1. [r EXCEPT !.buf = x] = s
  BY DEF Shape
<1>2. [s EXCEPT !.cap = y] = [mem |-> r.mem, buf |-> x, size |-> r.size, cap |-> y]
  OBVIOUS
<1> QED
  BY <1>1, <1>2

LEMMA ReserveGrew ==
  ASSUME DynamicArrayAssumption, IInv, NEW a \in Live, NEW n \in Nat, CanReserve(a, n)
  PROVE  Grew(a, Reserve(a, n)) /\ n <= Reserve(a, n).arr[a].cap
<1>0. InOrder(a)
  BY LiveTyped
<1>1. CASE n <= arr[a].cap
  <2>1. Reserve(a, n) = InPlace
    BY <1>1 DEF Reserve, InPlace
  <2> QED
    BY <1>1, <2>1, InPlaceGrew DEF InPlace
<1>2. CASE ~(n <= arr[a].cap)
  <2> DEFINE old == arr[a]
             new == Allocated(n)
             h == Reserve(a, n)
             moved == [k \in 1..n |-> IF k <= old.size THEN Slots(a)[k] ELSE Raw]
             left == [k \in DOMAIN Slots(a) |-> IF k <= old.size
                                                THEN Destroyed(Remains(Slots(a)[k]))
                                                ELSE Slots(a)[k]]
  <2>1. /\ n # 0 /\ n > old.cap /\ CanAllocate(n)
    BY <1>2, <1>0 DEF InOrder, CanReserve
  <2>2. /\ new \in Bufs /\ new # NoBuf /\ \A m \in Mems : new \notin owned[m]
    BY <2>1, AllocatedFresh
  <2>3. new # old.buf
    BY <2>2, <1>0 DEF InOrder
  <2>4. /\ h.arr = [arr EXCEPT ![a].buf = new, ![a].cap = n]
        /\ h.owned = [owned EXCEPT ![old.mem] = @ \cup {new}]
        /\ h.cell = [cell EXCEPT ![new] = moved, ![old.buf] = [k \in DOMAIN @ |-> IF k <= old.size
                                              THEN Destroyed(Remains(@[k])) ELSE @[k]]]
    BY <1>2, <2>1 DEF Reserve, Record
  <2>5. cell \in [Bufs \cup {NoBuf} -> Seq(Contents)] /\ cell[NoBuf] = <<>>
    BY DEF IInv, TypeOK, BlanksBlank, Contents
  <2>6. h.cell = [cell EXCEPT ![new] = moved, ![old.buf] = left]
    BY <2>3, <2>4, <2>5, <1>0 DEF InOrder, Slots
  <2>7. /\ moved \in [1..n -> Contents] /\ left \in [1..old.cap -> Contents]
    BY <2>1, <1>0 DEF InOrder, Destroyed, Remains, Contents
  <2>8. /\ moved \in Seq(Contents) /\ Len(moved) = n
        /\ left \in Seq(Contents) /\ Len(left) = old.cap
    <3> HIDE DEF moved, left
    <3> QED
      BY <2>7, <1>0, FunctionIsSeq DEF InOrder
  <2>9. /\ \A k \in 1..old.size : moved[k] = Slots(a)[k]
        /\ \A k \in old.size + 1..n : moved[k] = Raw
    BY <2>1, <1>0 DEF InOrder
  <2>10. \A k \in 1..old.cap : left[k] = IF k <= old.size THEN Raw ELSE Slots(a)[k]
    BY <1>0 DEF InOrder, Destroyed
  <2>11. /\ arr \in [Arrays -> Shape] /\ owned \in [Mems -> SUBSET Bufs]
    BY DEF IInv, TypeOK, Shape
  <2> HIDE DEF moved, left, h, new
  <2>12. left = <<>> \/ old.buf # NoBuf
    BY <2>8, <1>0, EmptySeq DEF InOrder
  <2>13. /\ h.cell[new] = moved /\ h.cell[old.buf] = left
         /\ h.cell \in [Bufs \cup {NoBuf} -> Seq(Contents)]
         /\ \A b \in (Bufs \cup {NoBuf}) \ {old.buf, new} : h.cell[b] = cell[b]
    <3>1. old.buf \in Bufs \cup {NoBuf}
      BY <1>0 DEF InOrder
    <3> HIDE DEF old
    <3> DEFINE D == Bufs \cup {NoBuf}
    <3>2. new \in D /\ old.buf \in D /\ cell \in [D -> Seq(Contents)]
      BY <2>2, <2>5, <3>1
    <3> HIDE DEF D
    <3>3. /\ h.cell[new] = moved /\ h.cell[old.buf] = left /\ h.cell \in [D -> Seq(Contents)]
          /\ \A b \in D \ {old.buf, new} : h.cell[b] = cell[b]
      BY <2>3, <2>6, <2>8, <3>2
    <3> QED
      BY <3>3 DEF D
  <2>14. h.cell[NoBuf] = <<>>
    BY <2>2, <2>5, <2>12, <2>13
  <2>15. h.arr = [arr EXCEPT ![a] = [mem |-> old.mem, buf |-> new, size |-> old.size, cap |-> n]]
    <3>1. arr[a] = old /\ old \in Shape /\ a \in Arrays
      BY <2>11 DEF Live
    <3> HIDE DEF old
    <3>2. h.arr = [arr EXCEPT ![a] = [[old EXCEPT !.buf = new] EXCEPT !.cap = n]]
      BY <2>4, <2>11, <3>1
    <3>3. [[old EXCEPT !.buf = new] EXCEPT !.cap = n]
            = [mem |-> old.mem, buf |-> new, size |-> old.size, cap |-> n]
      BY <3>1, HeaderMoved
    <3> QED
      BY <3>2, <3>3
  <2>16. h.arr[a] = [mem |-> old.mem, buf |-> new, size |-> old.size, cap |-> n]
    BY <2>11, <2>15, <1>0 DEF InOrder
  <2>17. h.arr = [arr EXCEPT ![a] = h.arr[a]]
    BY <2>15, <2>16
  <2>18. h.arr[a] \in Shape
    BY <2>2, <2>16, <1>0 DEF InOrder, Shape
  <2>19. /\ h.arr[a].buf = new /\ h.arr[a].mem = old.mem
         /\ h.arr[a].size = old.size /\ h.arr[a].cap = n
    BY <2>16
  <2>20. Grew(a, h)
    <3>1. /\ h.arr[a].mem = old.mem /\ h.arr[a].size = old.size /\ h.arr[a].cap >= old.cap
          /\ h.arr[a].buf # NoBuf /\ Len(h.cell[h.arr[a].buf]) = h.arr[a].cap
      BY <2>1, <2>2, <2>8, <2>13, <2>19, <1>0 DEF InOrder
    <3>2. /\ \A k \in 1..old.size : h.cell[h.arr[a].buf][k] = Slots(a)[k]
          /\ \A k \in old.size + 1..h.arr[a].cap : h.cell[h.arr[a].buf][k] = Raw
      BY <2>9, <2>13, <2>19
    <3>3. \A b \in Bufs \ {old.buf, h.arr[a].buf} : h.cell[b] = cell[b]
      BY <2>13, <2>19
    <3>4. /\ h.arr[a].buf \in Bufs /\ \A m \in Mems : h.arr[a].buf \notin owned[m]
          /\ h.owned = [owned EXCEPT ![old.mem] = @ \cup {h.arr[a].buf}]
          /\ \A k \in 1..old.cap :
               h.cell[old.buf][k] = IF k <= old.size THEN Raw ELSE Slots(a)[k]
          /\ Len(h.cell[old.buf]) = old.cap
      BY <2>2, <2>4, <2>8, <2>10, <2>13, <2>19
    <3> HIDE DEF old
    <3> QED
      BY <2>13, <2>14, <2>17, <2>18, <3>1, <3>2, <3>3, <3>4 DEF Grew, old
  <2> QED
    BY <2>19, <2>20 DEF h
<1> QED
  BY <1>1, <1>2
-----------------------------------------------------------------------------
(* What the end of an operation on the elements of array a changes: the shape*)
(* of a and the slots of its buffer, nothing that another array points to.   *)
Committed(a, h, s, n) ==
  /\ arr' \in [Arrays -> Shape] /\ \A b \in Arrays \ {a} : arr'[b] = arr[b]
  /\ arr'[a].buf = h.arr[a].buf /\ arr'[a].cap = h.arr[a].cap
  /\ arr'[a].size = n /\ arr'[a].mem = arr[a].mem
  /\ cell' \in [Bufs \cup {NoBuf} -> Seq(Contents)] /\ cell'[NoBuf] = <<>>
  /\ cell'[arr'[a].buf] = s
  /\ \A b \in Bufs \ {arr'[a].buf} : cell'[b] = h.cell[b]
  /\ \A b \in Live \ {a} : arr[b].buf \in Bufs => arr[b].buf # arr'[a].buf
  /\ \A b \in Live \ {a} : cell'[arr[b].buf] = cell[arr[b].buf]

LEMMA CommitChanges ==
  ASSUME DynamicArrayAssumption, IInv, NEW a \in Live, NEW h, Grew(a, h),
         NEW s \in Seq(Contents), NEW n \in Nat, NEW lost, Len(s) = h.arr[a].cap, n <= Len(s),
         Commit(a, h, s, n, lost)
  PROVE  Committed(a, h, s, n)
<1>0. InOrder(a)
  BY LiveTyped
<1> DEFINE new == h.arr[a]
<1>1. /\ new \in Shape /\ new.mem = arr[a].mem /\ h.arr = [arr EXCEPT ![a] = new]
      /\ new.buf = NoBuf => new.cap = 0
      /\ new.buf \in Bufs \cup {NoBuf}
  BY DEF Grew, Shape
<1>2. arr \in [Arrays -> Shape] /\ a \in Arrays
  BY <1>0 DEF InOrder, IInv, TypeOK, Shape
<1> HIDE DEF new
<1>3. arr' = [arr EXCEPT ![a] = [new EXCEPT !.size = n]]
  <2>1. arr' = [h.arr EXCEPT ![a].size = n]
    BY DEF Commit
  <2> QED
    BY <1>1, <1>2, <2>1
<1>4. [new EXCEPT !.size = n] \in Shape
  BY <1>1 DEF Shape
<1>5. /\ arr' \in [Arrays -> Shape] /\ \A b \in Arrays \ {a} : arr'[b] = arr[b]
      /\ arr'[a] = [new EXCEPT !.size = n]
  BY <1>2, <1>3, <1>4
<1>6. /\ arr'[a].buf = new.buf /\ arr'[a].cap = new.cap
      /\ arr'[a].size = n /\ arr'[a].mem = arr[a].mem
  BY <1>1, <1>5 DEF Shape
<1>7. cell' = [h.cell EXCEPT ![new.buf] = s] /\ h.cell \in [Bufs \cup {NoBuf} -> Seq(Contents)]
  BY DEF Commit, Grew, new
<1>8. /\ cell' \in [Bufs \cup {NoBuf} -> Seq(Contents)] /\ cell'[new.buf] = s
      /\ \A b \in (Bufs \cup {NoBuf}) \ {new.buf} : cell'[b] = h.cell[b]
  <2> DEFINE D == Bufs \cup {NoBuf}
  <2>1. cell' = [h.cell EXCEPT ![new.buf] = s] /\ h.cell \in [D -> Seq(Contents)] /\ new.buf \in D
    BY <1>1, <1>7
  <2> HIDE DEF D
  <2>2. /\ cell' \in [D -> Seq(Contents)] /\ cell'[new.buf] = s
        /\ \A b \in D \ {new.buf} : cell'[b] = h.cell[b]
    BY <2>1
  <2> QED
    BY <2>2 DEF D
<1>9. h.cell[NoBuf] = <<>>
  BY DEF Grew
<1>10. cell'[NoBuf] = <<>>
  <2>1. CASE new.buf = NoBuf
    <3>1. Len(s) = 0
      BY <1>1, <2>1 DEF new
    <3> QED
      BY <1>8, <2>1, <3>1, EmptySeq
  <2>2. CASE new.buf # NoBuf
    BY <1>8, <1>9, <2>2
  <2> QED
    BY <2>1, <2>2
<1>11. ASSUME NEW b \in Live \ {a}, arr[b].buf \in Bufs
       PROVE  arr[b].buf # new.buf /\ arr[b].buf # arr[a].buf
  <2>1. arr[b].buf # NoBuf
    BY <1>11 DEF NoBuf, DynamicArrayAssumption
  <2>2. arr[b].buf \in owned[arr[b].mem] /\ arr[b].mem \in Mems
    BY <2>1, LiveTyped DEF InOrder
  <2>3. arr[b].buf # arr[a].buf
    BY <2>1 DEF IInv, BuffersHeld
  <2>4. new.buf = arr[a].buf \/ \A m \in Mems : new.buf \notin owned[m]
    BY DEF Grew, new
  <2> QED
    BY <2>2, <2>3, <2>4
<1>12. ASSUME NEW b \in Live \ {a} PROVE cell'[arr[b].buf] = cell[arr[b].buf]
  <2>1. CASE arr[b].buf = NoBuf
    BY <1>10, <2>1 DEF IInv, BlanksBlank
  <2>2. CASE arr[b].buf \in Bufs
    <3>1. h.cell[arr[b].buf] = cell[arr[b].buf]
      BY <1>11, <2>2 DEF Grew, new
    <3> QED
      BY <1>8, <1>11, <2>2, <3>1
  <2>3. arr[b].buf \in Bufs \cup {NoBuf}
    BY LiveTyped DEF InOrder
  <2> QED
    BY <2>1, <2>2, <2>3
<1> QED
  BY <1>5, <1>6, <1>8, <1>10, <1>11, <1>12 DEF new, Committed

(* The end of an operation on the elements of array a keeps the invariant if *)
(* it leaves n elements in the first n slots, and strands nothing if what it *)
(* leaves above them was there; slots in L it may leave moved from.          *)
LEMMA CommitKeeps ==
  ASSUME DynamicArrayAssumption, IInv, NEW a \in Live, NEW h, Grew(a, h),
         NEW s \in Seq(Contents), NEW n \in Nat, NEW lost \in BOOLEAN,
         Len(s) = h.arr[a].cap, n <= Len(s),
         \A k \in 1..n : s[k] \in Values,
         NEW L, L # {} => h.arr[a].buf = arr[a].buf,
         \A k \in n + 1..Len(s) : s[k] # Raw =>
           k \in Above(a, h) \/ (k \in L /\ s[k] = Remains(Slots(a)[k])),
         Commit(a, h, s, n, lost)
  PROVE  IInv' /\ TidyBut(a, L)
<1>0. InOrder(a) /\ Committed(a, h, s, n)
  BY LiveTyped, CommitChanges
<1> DEFINE buf == arr'[a].buf
<1>1. /\ arr' \in [Arrays -> Shape] /\ \A b \in Arrays \ {a} : arr'[b] = arr[b]
      /\ arr'[a].cap = h.arr[a].cap /\ arr'[a].size = n /\ arr'[a].mem = arr[a].mem
      /\ buf = h.arr[a].buf
  BY <1>0 DEF Committed
<1>2. /\ cell' \in [Bufs \cup {NoBuf} -> Seq(Contents)] /\ cell'[NoBuf] = <<>>
      /\ cell'[buf] = s /\ \A b \in Bufs \ {buf} : cell'[b] = h.cell[b]
  BY <1>0 DEF Committed
<1>3. /\ \A b \in Live \ {a} : arr[b].buf \in Bufs => arr[b].buf # buf
      /\ \A b \in Live \ {a} : cell'[arr[b].buf] = cell[arr[b].buf]
  BY <1>0 DEF Committed
<1>4. refs' = refs /\ iter' = iter /\ owned' = h.owned
  BY DEF Commit
<1> HIDE DEF buf
<1>5. a \in Arrays /\ arr[a].mem \in Mems /\ Live' = Live
      /\ \A b \in Arrays : arr'[b].mem = arr[b].mem
  BY <1>0, <1>1 DEF InOrder, Live, NoMem, DynamicArrayAssumption
<1>6. /\ owned \in [Mems -> SUBSET Bufs]
      /\ \A m, k \in Mems : m # k => owned[m] \cap owned[k] = {}
  BY DEF IInv, TypeOK, BuffersHeld
<1>7. \/ buf = arr[a].buf /\ owned' = owned
      \/ /\ buf \in Bufs /\ \A m \in Mems : buf \notin owned[m]
         /\ owned' = [owned EXCEPT ![arr[a].mem] = @ \cup {buf}]
  BY <1>1, <1>4 DEF Grew
<1>8. /\ owned' \in [Mems -> SUBSET Bufs]
      /\ \A m \in Mems : owned[m] \subseteq owned'[m]
      /\ \A m, k \in Mems : m # k => owned'[m] \cap owned'[k] = {}
      /\ buf # NoBuf => buf \in owned'[arr[a].mem]
  BY <1>0, <1>5, <1>6, <1>7, SMTT(30) DEF InOrder
<1>9. TypeOK'
  <2>1. overlaid' \in BOOLEAN
    BY DEF Commit, IInv, TypeOK
  <2> QED
    BY <1>1, <1>2, <1>4, <1>8, <2>1 DEF IInv, TypeOK, Shape, Contents
<1>10. BlanksBlank'
  BY <1>0, <1>1, <1>2, <1>4, <1>5 DEF IInv, BlanksBlank, InOrder, NoMem, DynamicArrayAssumption
<1>11. RefsExact'
  <2>1. \A m \in Mems : {b \in Arrays : arr'[b].mem = m} = {b \in Arrays : arr[b].mem = m}
    BY <1>5
  <2> QED
    BY <1>4, <2>1 DEF IInv, RefsExact
<1>12. BuffersHeld'
  <2>1. \A b \in Live : arr'[b].buf # NoBuf => arr'[b].buf \in owned'[arr'[b].mem]
    <3> SUFFICES ASSUME NEW b \in Live, arr'[b].buf # NoBuf
                 PROVE  arr'[b].buf \in owned'[arr'[b].mem]
      OBVIOUS
    <3>1. CASE b = a
      BY <1>1, <1>8, <3>1 DEF buf
    <3>2. CASE b # a
      <4>1. arr'[b] = arr[b] /\ arr[b].mem \in Mems /\ arr[b].buf \in owned[arr[b].mem]
        BY <1>1, <3>2, LiveTyped DEF InOrder
      <4> QED
        BY <1>8, <4>1
    <3> QED
      BY <3>1, <3>2
  <2>2. \A i \in Iters : iter[i].buf # NoBuf => iter[i].buf \in owned'[iter[i].mem]
    <3> SUFFICES ASSUME NEW i \in Iters, iter[i].buf # NoBuf
                 PROVE  iter[i].buf \in owned'[iter[i].mem]
      OBVIOUS
    <3>1. iter[i].mem \in Mems
      BY DEF IInv, TypeOK, BlanksBlank, NoIter
    <3> QED
      BY <1>8, <3>1 DEF IInv, BuffersHeld
  <2>3. \A b, c \in Live : b # c /\ arr'[b].buf = arr'[c].buf => arr'[b].buf = NoBuf
    <3>1. \A b \in Live \ {a} : arr'[b] = arr[b] /\ arr[b].buf \in Bufs \cup {NoBuf}
      BY <1>1, LiveTyped DEF InOrder
    <3>2. \A b, c \in Live \ {a} : b # c /\ arr[b].buf = arr[c].buf => arr[b].buf = NoBuf
      BY DEF IInv, BuffersHeld
    <3> QED
      BY <1>3, <3>1, <3>2 DEF buf
  <2> QED
    BY <1>4, <1>5, <1>8, <2>1, <2>2, <2>3 DEF BuffersHeld
<1>13. ElementsInPlace'
  <2> SUFFICES ASSUME NEW b \in Live
               PROVE  /\ Len(cell'[arr'[b].buf]) = arr'[b].cap /\ arr'[b].size <= arr'[b].cap
                      /\ \A k \in 1..arr'[b].size : cell'[arr'[b].buf][k] \in Values
    BY <1>5 DEF ElementsInPlace, Slots
  <2>1. CASE b = a
    BY <1>1, <1>2, <2>1 DEF buf
  <2>2. CASE b # a
    <3>1. arr'[b] = arr[b] /\ cell'[arr[b].buf] = Slots(b)
      BY <1>1, <1>3, <2>2, LiveTyped DEF InOrder
    <3> QED
      BY <3>1, LiveTyped DEF InOrder
  <2> QED
    BY <2>1, <2>2
<1>14. TidyBut(a, L)
  <2> SUFFICES ASSUME NEW b \in Bufs, NEW k \in DOMAIN cell'[b], Stray(b, k)'
               PROVE  \/ Stray(b, k)
                      \/ arr[a].buf = b /\ k \in L /\ cell'[b][k] = Remains(cell[b][k])
    BY DEF TidyBut
  <2>0. cell'[b][k] # Raw /\ \A c \in Live : arr'[c].buf = b => arr'[c].size < k
    BY <1>5 DEF Stray
  <2>1. CASE b = buf
    <3>1. k \in 1..Len(s) /\ s[k] # Raw /\ n < k /\ Len(s) \in Nat
      BY <1>1, <1>2, <2>0, <2>1, LenProperties DEF buf
    <3>2. k \in n + 1..Len(s)
      BY <3>1
    <3>3. CASE k \in Above(a, h)
      <4>1. /\ arr[a].buf = b /\ k \in arr[a].size + 1..arr[a].cap /\ Slots(a)[k] # Raw
        BY <1>1, <2>1, <3>3 DEF Above
      <4> QED
        BY <4>1, StrayAbove
    <3>4. CASE k \in L /\ s[k] = Remains(Slots(a)[k])
      <4>1. arr[a].buf = b
        BY <1>1, <2>1, <3>4
      <4> QED
        BY <1>2, <2>1, <3>4, <4>1 DEF Slots
    <3> QED
      BY <3>1, <3>2, <3>3, <3>4
  <2>2. CASE b # buf /\ b = arr[a].buf
    <3>1. /\ \A j \in 1..arr[a].cap :
               h.cell[b][j] = IF j <= arr[a].size THEN Raw ELSE Slots(a)[j]
          /\ Len(h.cell[b]) = arr[a].cap /\ h.cell[b] \in Seq(Contents)
      BY <1>1, <2>2 DEF Grew
    <3>2. DOMAIN h.cell[b] = 1..arr[a].cap /\ cell'[b] = h.cell[b]
      BY <1>2, <2>2, <3>1, LenProperties
    <3>3. k \in 1..arr[a].cap /\ ~(k <= arr[a].size) /\ Slots(a)[k] # Raw
      BY <2>0, <3>1, <3>2
    <3>4. k \in arr[a].size + 1..arr[a].cap
      BY <1>0, <3>3 DEF InOrder
    <3> QED
      BY <2>2, <3>3, <3>4, StrayAbove
  <2>3. CASE b # buf /\ b # arr[a].buf
    <3>1. cell'[b] = cell[b]
      <4>1. b \in Bufs \ {arr[a].buf, h.arr[a].buf} /\ b \in Bufs \ {buf}
        BY <1>1, <2>3
      <4>2. h.cell[b] = cell[b]
        BY <4>1 DEF Grew
      <4>3. cell'[b] = h.cell[b]
        BY <1>2, <4>1
      <4> QED
        BY <4>2, <4>3
    <3>2. ASSUME NEW c \in Live, arr[c].buf = b PROVE arr[c].size < k
      <4>1. arr'[c] = arr[c]
        BY <1>1, <2>3, <3>2 DEF Live
      <4> QED
        BY <2>0, <3>2, <4>1
    <3> QED
      BY <2>0, <3>1, <3>2 DEF Stray
  <2> QED
    BY <2>1, <2>2, <2>3
<1> QED
  BY <1>9, <1>10, <1>11, <1>12, <1>13, <1>14 DEF IInv
-----------------------------------------------------------------------------
(* What array a holds, and what an operation leaves there.                   *)
Held(a) == SubSeq(Slots(a), 1, arr[a].size)

With(q, i, v) == [k \in 1..Len(q) + 1 |-> IF k < i THEN q[k] ELSE IF k = i THEN v ELSE q[k - 1]]
Without(q, first, last) ==
  [k \in 1..Len(q) - (last - first) |-> IF k < first THEN q[k] ELSE q[k + (last - first)]]
Resized(q, n) == [k \in 1..n |-> IF k <= Len(q) THEN q[k] ELSE Default]

(* Slots s hold the elements of t, and above them no object outside A.       *)
Bears(s, t, A) ==
  /\ s \in Seq(Contents) /\ t \in Seq(Values)
  /\ Len(t) <= Len(s) /\ \A k \in 1..Len(t) : s[k] = t[k]
  /\ \A k \in Len(t) + 1..Len(s) : s[k] # Raw => k \in A

(* An operation on a that ends in slots which hold the sequence t, strands   *)
(* nothing outside the slots L, and there only what it moved from.           *)
Spells(a, h, s, t, L, lost) ==
  /\ Grew(a, h) /\ Commit(a, h, s, Len(t), lost) /\ lost \in BOOLEAN
  /\ Len(s) = h.arr[a].cap /\ Bears(s, t, Above(a, h) \cup L)
  /\ L # {} => h.arr[a].buf = arr[a].buf
  /\ \A k \in L : Len(t) < k => s[k] = Remains(Slots(a)[k])
LeavesBut(a, t, L) == \E h, s, lost : Spells(a, h, s, t, L, lost)
Leaves(a, t) == LeavesBut(a, t, {})

LEMMA LeavesKeeps ==
  ASSUME DynamicArrayAssumption, IInv, NEW a \in Live, NEW t, NEW L, LeavesBut(a, t, L)
  PROVE  IInv' /\ TidyBut(a, L)
<1>1. PICK h, s, lost : Spells(a, h, s, t, L, lost)
  BY DEF LeavesBut
<1>2. t \in Seq(Values) /\ Len(t) \in Nat /\ \A k \in 1..Len(t) : t[k] \in Values
  BY <1>1, LenProperties, ElementOfSeq DEF Spells, Bears
<1>3. /\ Grew(a, h) /\ Commit(a, h, s, Len(t), lost)
      /\ s \in Seq(Contents) /\ lost \in BOOLEAN
      /\ Len(s) = h.arr[a].cap /\ Len(t) <= Len(s)
      /\ \A k \in 1..Len(t) : s[k] \in Values
      /\ L # {} => h.arr[a].buf = arr[a].buf
  BY <1>1, <1>2 DEF Spells, Bears
<1>4. \A k \in Len(t) + 1..Len(s) : s[k] # Raw =>
        k \in Above(a, h) \/ (k \in L /\ s[k] = Remains(Slots(a)[k]))
  <2> SUFFICES ASSUME NEW k \in Len(t) + 1..Len(s), s[k] # Raw
               PROVE  k \in Above(a, h) \/ (k \in L /\ s[k] = Remains(Slots(a)[k]))
    OBVIOUS
  <2>1. k \in Above(a, h) \/ k \in L
    BY <1>1 DEF Spells, Bears
  <2>2. Len(t) < k
    BY <1>2
  <2> QED
    BY <1>1, <2>1, <2>2 DEF Spells
<1> QED
  BY <1>2, <1>3, <1>4, CommitKeeps

(* An operation that strands nothing.                                        *)
LEMMA SpelledLeaves ==
  ASSUME NEW a, NEW h, NEW s, NEW t, NEW lost \in BOOLEAN, Grew(a, h),
         Commit(a, h, s, Len(t), lost), Len(s) = h.arr[a].cap, Bears(s, t, Above(a, h))
  PROVE  Leaves(a, t)
<1>1. Above(a, h) \cup {} = Above(a, h)
  OBVIOUS
<1>2. Spells(a, h, s, t, {}, lost)
  BY <1>1 DEF Spells
<1> QED
  BY <1>2 DEF Leaves, LeavesBut

LEMMA HeldTyped ==
  ASSUME DynamicArrayAssumption, IInv, NEW a \in Live
  PROVE  /\ Held(a) \in Seq(Values) /\ Len(Held(a)) = arr[a].size
         /\ \A k \in 1..arr[a].size : Held(a)[k] = Slots(a)[k] /\ Held(a)[k] \in Values
<1>0. InOrder(a)
  BY LiveTyped
<1>1. arr[a].size \in Int /\ \A k \in 1..arr[a].size : Slots(a)[k] \in Values
  BY <1>0 DEF InOrder
<1>2. /\ Held(a) \in Seq(Values)
      /\ Len(Held(a)) = IF 1 <= arr[a].size THEN arr[a].size - 1 + 1 ELSE 0
      /\ \A k \in 1..arr[a].size - 1 + 1 : Held(a)[k] = Slots(a)[1 + k - 1]
  BY <1>1, SubSeqProperties DEF Held
<1> QED
  BY <1>0, <1>1, <1>2 DEF InOrder

(* After a growth array a still holds what it held.                          *)
LEMMA GrownSlots ==
  ASSUME DynamicArrayAssumption, IInv, NEW a \in Live, NEW h, Grew(a, h)
  PROVE  /\ Bears(h.cell[h.arr[a].buf], Held(a), Above(a, h)) /\ Len(Held(a)) = arr[a].size
         /\ Len(h.cell[h.arr[a].buf]) = h.arr[a].cap
<1>0. InOrder(a)
  BY LiveTyped
<1> DEFINE s == h.cell[h.arr[a].buf]
           cap == h.arr[a].cap
<1>1. /\ h.arr[a] \in Shape /\ h.cell \in [Bufs \cup {NoBuf} -> Seq(Contents)]
      /\ Len(s) = cap /\ cap >= arr[a].cap
      /\ \A k \in 1..arr[a].size : s[k] = Slots(a)[k]
  BY DEF Grew
<1>2. s \in Seq(Contents) /\ cap \in Nat
  BY <1>1 DEF Shape
<1>6. \A k \in arr[a].size + 1..cap : s[k] # Raw => k \in Above(a, h)
  <2>1. CASE h.arr[a].buf = arr[a].buf /\ s = Slots(a)
    <3>1. cap = arr[a].cap
      BY <1>0, <1>1, <2>1 DEF InOrder
    <3> QED
      BY <2>1, <3>1 DEF Above
  <2>2. CASE \A k \in arr[a].size + 1..cap : s[k] = Raw
    BY <2>2
  <2> QED
    BY <2>1, <2>2 DEF Grew
<1> HIDE DEF s, cap
<1>3. arr[a].size \in Nat /\ arr[a].cap \in Nat /\ arr[a].size <= arr[a].cap
  BY <1>0 DEF InOrder
<1>4. arr[a].size <= cap
  BY <1>1, <1>2, <1>3
<1>5. /\ Held(a) \in Seq(Values) /\ Len(Held(a)) = arr[a].size
      /\ \A k \in 1..arr[a].size : Held(a)[k] = Slots(a)[k]
  BY HeldTyped
<1> QED
  BY <1>1, <1>2, <1>4, <1>5, <1>6 DEF Bears, s, cap

(* The growth that emplace_back and insert ask for makes room.               *)
LEMMA RoomMade ==
  ASSUME DynamicArrayAssumption, IInv, NEW a \in Live, CanReserve(a, RoomForOne(a))
  PROVE  LET h == Reserve(a, RoomForOne(a))
         IN Grew(a, h) /\ arr[a].size + 1 <= h.arr[a].cap
<1>0. InOrder(a)
  BY LiveTyped
<1> DEFINE h == Reserve(a, RoomForOne(a))
<1>1. RoomForOne(a) \in Nat /\ arr[a].size + 1 <= RoomForOne(a)
  BY <1>0 DEF InOrder, RoomForOne, DynamicArrayAssumption
<1>2. Grew(a, h) /\ RoomForOne(a) <= h.arr[a].cap
  BY <1>1, ReserveGrew
<1> HIDE DEF h
<1>3. h.arr[a].cap \in Nat
  BY <1>2 DEF Grew, Shape
<1>4. arr[a].size \in Nat
  BY <1>0 DEF InOrder
<1>5. arr[a].size + 1 <= h.arr[a].cap
  BY <1>1, <1>2, <1>3, <1>4
<1> QED
  BY <1>2, <1>5 DEF h
-----------------------------------------------------------------------------
(* The sequences that operations leave, position by position.                *)
LEMMA SpelledOut ==
  ASSUME NEW q \in Seq(Values), DynamicArrayAssumption
  PROVE  /\ Len(q) \in Nat /\ \A k \in 1..Len(q) : q[k] \in Values
         /\ \A i \in 1..Len(q) + 1, v \in Values :
              /\ With(q, i, v) \in Seq(Values) /\ Len(With(q, i, v)) = Len(q) + 1
              /\ \A k \in 1..Len(q) + 1 :
                   With(q, i, v)[k] = IF k < i THEN q[k] ELSE IF k = i THEN v ELSE q[k - 1]
         /\ \A first \in 1..Len(q) + 1, last \in 1..Len(q) + 1 : first <= last =>
              /\ Without(q, first, last) \in Seq(Values)
              /\ Len(Without(q, first, last)) = Len(q) - (last - first)
              /\ \A k \in 1..Len(q) - (last - first) :
                   Without(q, first, last)[k] = IF k < first THEN q[k] ELSE q[k + (last - first)]
         /\ \A n \in Nat :
              /\ Resized(q, n) \in Seq(Values) /\ Len(Resized(q, n)) = n
              /\ \A k \in 1..n : Resized(q, n)[k] = IF k <= Len(q) THEN q[k] ELSE Default
<1>1. Len(q) \in Nat /\ \A k \in 1..Len(q) : q[k] \in Values
  BY LenProperties, ElementOfSeq
<1>2. ASSUME NEW i \in 1..Len(q) + 1, NEW v \in Values
      PROVE  /\ With(q, i, v) \in Seq(Values) /\ Len(With(q, i, v)) = Len(q) + 1
             /\ \A k \in 1..Len(q) + 1 :
                  With(q, i, v)[k] = IF k < i THEN q[k] ELSE IF k = i THEN v ELSE q[k - 1]
  <2>1. Len(q) + 1 \in Nat /\ With(q, i, v) \in [1..Len(q) + 1 -> Values]
    BY <1>1 DEF With
  <2>2. With(q, i, v) \in Seq(Values) /\ Len(With(q, i, v)) = Len(q) + 1
    BY <2>1, FunctionIsSeq
  <2> QED
    BY <2>2 DEF With
<1>3. ASSUME NEW first \in 1..Len(q) + 1, NEW last \in 1..Len(q) + 1, first <= last
      PROVE  /\ Without(q, first, last) \in Seq(Values)
             /\ Len(Without(q, first, last)) = Len(q) - (last - first)
             /\ \A k \in 1..Len(q) - (last - first) :
                  Without(q, first, last)[k] = IF k < first THEN q[k] ELSE q[k + (last - first)]
  <2>1. /\ Len(q) - (last - first) \in Nat
        /\ Without(q, first, last) \in [1..Len(q) - (last - first) -> Values]
    BY <1>1, <1>3 DEF Without
  <2>2. Without(q, first, last) \in Seq(Values) /\ Len(Without(q, first, last)) = Len(q) - (last - first)
    BY <2>1, FunctionIsSeq
  <2> QED
    BY <2>2 DEF Without
<1>4. ASSUME NEW n \in Nat
      PROVE  /\ Resized(q, n) \in Seq(Values) /\ Len(Resized(q, n)) = n
             /\ \A k \in 1..n : Resized(q, n)[k] = IF k <= Len(q) THEN q[k] ELSE Default
  <2>1. Resized(q, n) \in [1..n -> Values]
    BY <1>1 DEF Resized, DynamicArrayAssumption
  <2>2. Resized(q, n) \in Seq(Values) /\ Len(Resized(q, n)) = n
    BY <2>1, FunctionIsSeq
  <2> QED
    BY <2>2 DEF Resized
<1> QED
  BY <1>1, <1>2, <1>3, <1>4

(* What the loops over the slots make of them.                               *)
LEMMA Borne ==
  ASSUME NEW A, NEW s, NEW q, Bears(s, q, A)
  PROVE  /\ Len(s) \in Nat /\ Len(q) \in Nat /\ Len(q) <= Len(s)
         /\ DOMAIN s = 1..Len(s) /\ \A k \in 1..Len(s) : s[k] \in Contents
         /\ \A k \in 1..Len(q) : s[k] = q[k] /\ s[k] \in Values
         /\ \A k \in Len(q) + 1..Len(s) : s[k] # Raw => k \in A
<1>1. s \in Seq(Contents) /\ q \in Seq(Values)
  BY DEF Bears
<1>2. /\ Len(s) \in Nat /\ Len(q) \in Nat /\ DOMAIN s = 1..Len(s)
      /\ \A k \in 1..Len(s) : s[k] \in Contents
      /\ \A k \in 1..Len(q) : q[k] \in Values
  BY <1>1, LenProperties, ElementOfSeq
<1> QED
  BY <1>2 DEF Bears

LEMMA BearsResized ==
  ASSUME DynamicArrayAssumption, NEW A, NEW s, NEW q, Bears(s, q, A), NEW n \in Nat, n <= Len(s)
  PROVE  LET t == [k \in DOMAIN s |-> IF Len(q) < k /\ k <= n THEN Default
                                      ELSE IF n < k /\ k <= Len(q) THEN Destroyed(s[k])
                                      ELSE s[k]]
         IN Bears(t, Resized(q, n), A) /\ Len(t) = Len(s)
<1> DEFINE t == [k \in DOMAIN s |-> IF Len(q) < k /\ k <= n THEN Default
                                    ELSE IF n < k /\ k <= Len(q) THEN Destroyed(s[k])
                                    ELSE s[k]]
           L == Len(s)
           M == Len(q)
<1>1. /\ L \in Nat /\ M \in Nat /\ M <= L
      /\ DOMAIN s = 1..L /\ \A k \in 1..L : s[k] \in Contents
      /\ \A k \in 1..M : s[k] = q[k] /\ s[k] \in Values
      /\ \A k \in M + 1..L : s[k] # Raw => k \in A
  BY Borne
<1>2. t = [k \in 1..L |-> IF M < k /\ k <= n THEN Default
                          ELSE IF n < k /\ k <= M THEN Destroyed(s[k]) ELSE s[k]]
  BY <1>1
<1>3. /\ Resized(q, n) \in Seq(Values) /\ Len(Resized(q, n)) = n
      /\ \A k \in 1..n : Resized(q, n)[k] = IF k <= M THEN q[k] ELSE Default
  BY SpelledOut DEF Bears
<1> HIDE DEF L, M, t
<1>4. t \in [1..L -> Contents]
  BY <1>1, <1>2 DEF Destroyed, Contents, DynamicArrayAssumption
<1>5. \A k \in 1..n : t[k] = Resized(q, n)[k]
  BY <1>1, <1>2, <1>3 DEF L
<1>6. \A k \in n + 1..L : t[k] # Raw => k \in A
  BY <1>1, <1>2 DEF Destroyed, DynamicArrayAssumption
<1>7. t \in Seq(Contents) /\ Len(t) = L
  BY <1>1, <1>4, FunctionIsSeq
<1> QED
  BY <1>3, <1>5, <1>6, <1>7 DEF Bears, L, t, M

LEMMA BearsAppended ==
  ASSUME DynamicArrayAssumption, NEW A, NEW s, NEW q, Bears(s, q, A), NEW v \in Values,
         Len(q) + 1 <= Len(s)
  PROVE  LET t == [s EXCEPT ![Len(q) + 1] = v]
             w == With(q, Len(q) + 1, v)
         IN Bears(t, w, A) /\ Len(t) = Len(s) /\ Len(w) = Len(q) + 1
<1> DEFINE L == Len(s)
           n == Len(q) + 1
           t == [s EXCEPT ![n] = v]
           w == With(q, n, v)
<1>1. /\ L \in Nat /\ n \in Nat /\ n >= 1 /\ n <= L
      /\ DOMAIN s = 1..L /\ \A k \in 1..L : s[k] \in Contents
      /\ \A k \in 1..n - 1 : s[k] = q[k] /\ s[k] \in Values
      /\ \A k \in n..L : s[k] # Raw => k \in A
  <2>1. /\ L \in Nat /\ Len(q) \in Nat /\ n \in Nat /\ n >= 1 /\ n <= L /\ n - 1 = Len(q)
    BY Borne
  <2> QED
    BY <2>1, Borne
<1>2. /\ w \in Seq(Values) /\ Len(w) = n
      /\ \A k \in 1..n : w[k] = IF k < n THEN q[k] ELSE IF k = n THEN v ELSE q[k - 1]
  <2>1. n \in 1..Len(q) + 1 /\ q \in Seq(Values)
    BY Borne DEF Bears
  <2> HIDE DEF n
  <2>2. /\ With(q, n, v) \in Seq(Values) /\ Len(With(q, n, v)) = Len(q) + 1
        /\ \A k \in 1..Len(q) + 1 :
             With(q, n, v)[k] = IF k < n THEN q[k] ELSE IF k = n THEN v ELSE q[k - 1]
    BY <2>1, SpelledOut
  <2> QED
    BY <2>2 DEF n
<1>3. t = [k \in 1..L |-> IF k = n THEN v ELSE s[k]]
  BY <1>1
<1> HIDE DEF L, n, t, w
<1>4. t \in [1..L -> Contents]
  BY <1>1, <1>3 DEF Contents
<1>5. \A k \in 1..n : t[k] = w[k]
  BY <1>1, <1>2, <1>3
<1>6. \A k \in n + 1..L : t[k] # Raw => k \in A
  BY <1>1, <1>3
<1>7. t \in Seq(Contents) /\ Len(t) = L
  BY <1>1, <1>4, FunctionIsSeq
<1> QED
  BY <1>1, <1>2, <1>5, <1>6, <1>7 DEF Bears, L, n, t, w

LEMMA ReserveToLeaves ==
  ASSUME DynamicArrayAssumption, IInv, NEW a \in Live, NEW n \in Nat, ReserveTo(a, n)
  PROVE  Leaves(a, Held(a))
<1> DEFINE h == Reserve(a, n)
           s == h.cell[h.arr[a].buf]
<1>1. Grew(a, h)
  BY ReserveGrew DEF ReserveTo
<1>2. Commit(a, h, s, arr[a].size, FALSE)
  BY DEF ReserveTo
<1> HIDE DEF h
<1>3. Leaves(a, Held(a))
  BY <1>1, <1>2, GrownSlots, SpelledLeaves
<1> QED
  BY <1>3

LEMMA ResizeLeaves ==
  ASSUME DynamicArrayAssumption, IInv, NEW a \in Live, NEW n \in Nat, Resize(a, n)
  PROVE  Leaves(a, Resized(Held(a), n))
<1> DEFINE h == Reserve(a, n)
           s == h.cell[h.arr[a].buf]
           old == arr[a].size
           t == [k \in DOMAIN s |-> IF old < k /\ k <= n THEN Default
                                    ELSE IF n < k /\ k <= old THEN Destroyed(s[k])
                                    ELSE s[k]]
           lost == \E k \in (old + 1)..n : Loses(s[k])
<1>1. Grew(a, h) /\ n <= h.arr[a].cap
  BY ReserveGrew DEF Resize
<1>2. Commit(a, h, t, n, lost)
  BY DEF Resize
<1> HIDE DEF h
<1>3. Bears(s, Held(a), Above(a, h)) /\ Len(Held(a)) = old /\ Len(s) = h.arr[a].cap
  BY <1>1, GrownSlots
<1> HIDE DEF s, old
<1>4. Bears(t, Resized(Held(a), n), Above(a, h)) /\ Len(t) = Len(s)
  BY <1>1, <1>3, BearsResized
<1>5. Len(Resized(Held(a), n)) = n
  BY <1>3, SpelledOut DEF Bears
<1>6. lost \in BOOLEAN
  OBVIOUS
<1> HIDE DEF lost, t
<1>7. Leaves(a, Resized(Held(a), n))
  BY <1>1, <1>2, <1>3, <1>4, <1>5, <1>6, SpelledLeaves
<1> QED
  BY <1>7

(* An element added above the others.                                        *)
LEMMA AppendsLeaves ==
  ASSUME DynamicArrayAssumption, IInv, NEW a \in Live, NEW h, Grew(a, h),
         arr[a].size + 1 <= h.arr[a].cap, NEW v \in Values, Appends(a, h, v)
  PROVE  Leaves(a, With(Held(a), arr[a].size + 1, v))
<1> DEFINE s == h.cell[h.arr[a].buf]
           n == arr[a].size + 1
           t == [s EXCEPT ![n] = v]
           w == With(Held(a), n, v)
           lost == Loses(s[n])
<1>1. Commit(a, h, t, n, lost)
  BY DEF Appends
<1>2. Bears(s, Held(a), Above(a, h)) /\ Len(Held(a)) + 1 = n /\ Len(s) = h.arr[a].cap
  BY GrownSlots
<1>3. Bears(t, w, Above(a, h)) /\ Len(t) = Len(s) /\ Len(w) = n
  BY <1>2, BearsAppended
<1>4. lost \in BOOLEAN
  BY DEF Loses
<1> HIDE DEF t, w, lost
<1>5. Leaves(a, w)
  BY <1>1, <1>2, <1>3, <1>4, SpelledLeaves
<1> QED
  BY <1>5 DEF w

LEMMA EmplaceBackLeaves ==
  ASSUME DynamicArrayAssumption, IInv, NEW a \in Live, NEW v \in Values, EmplaceBack(a, v)
  PROVE  Leaves(a, With(Held(a), arr[a].size + 1, v))
BY RoomMade, AppendsLeaves DEF EmplaceBack

(* With room in the buffer the argument still has its value when it is       *)
(* copied; after a growth some value is added, whichever it is.              *)
AddsOwn(a, i, j, v) ==
  /\ Leaves(a, With(Held(a), i, v))
  /\ arr[a].size < arr[a].cap /\ j < i => v = Slots(a)[j]

LEMMA EmplaceBackOwnLeaves ==
  ASSUME DynamicArrayAssumption, IInv, NEW a \in Live, NEW j \in Nat, EmplaceBackOwn(a, j)
  PROVE  /\ j \in 1..arr[a].size
         /\ \E v \in Values : AddsOwn(a, arr[a].size + 1, j, v)
<1> DEFINE h == Reserve(a, RoomForOne(a))
<1>1. /\ Grew(a, h) /\ arr[a].size + 1 <= h.arr[a].cap /\ j \in 1..arr[a].size
      /\ \E v \in Copies(h.cell[arr[a].buf][j]) : Appends(a, h, v)
  BY RoomMade DEF EmplaceBackOwn
<1>2. arr[a].size < arr[a].cap => h.cell = cell
  BY LiveTyped DEF InOrder, Reserve, RoomForOne
<1> HIDE DEF h
<1>3. PICK v \in Copies(h.cell[arr[a].buf][j]) : Appends(a, h, v)
  BY <1>1
<1>4. Slots(a)[j] \in Values
  BY <1>1, LiveTyped DEF InOrder
<1>5. v \in Values
  BY DEF Copies
<1>6. arr[a].size < arr[a].cap => v = Slots(a)[j]
  BY <1>2, <1>4 DEF Copies, Slots
<1>7. Leaves(a, With(Held(a), arr[a].size + 1, v))
  BY <1>1, <1>3, <1>5, AppendsLeaves
<1> QED
  BY <1>1, <1>5, <1>6, <1>7 DEF AddsOwn
-----------------------------------------------------------------------------
(* insert leaves the new element at its place and the later ones one up.     *)
LEMMA BearsInserted ==
  ASSUME DynamicArrayAssumption, NEW A, NEW s, NEW q, Bears(s, q, A), NEW v \in Values,
         Len(q) + 1 <= Len(s), NEW i \in 1..Len(q) + 1
  PROVE  LET t == [ShiftedUp(s, Len(q), i) EXCEPT ![i] = v]
             w == With(q, i, v)
         IN Bears(t, w, A) /\ Len(t) = Len(s) /\ Len(w) = Len(q) + 1
<1> DEFINE L == Len(s)
           M == Len(q)
           t == [ShiftedUp(s, M, i) EXCEPT ![i] = v]
           w == With(q, i, v)
<1>1. /\ L \in Nat /\ M \in Nat /\ M + 1 <= L /\ i \in Nat /\ 1 <= i /\ i <= M + 1
      /\ DOMAIN s = 1..L /\ \A k \in 1..L : s[k] \in Contents
      /\ \A k \in 1..M : s[k] = q[k] /\ s[k] \in Values
      /\ \A k \in M + 1..L : s[k] # Raw => k \in A
  BY Borne
<1>2. /\ w \in Seq(Values) /\ Len(w) = M + 1
      /\ \A k \in 1..M + 1 : w[k] = IF k < i THEN q[k] ELSE IF k = i THEN v ELSE q[k - 1]
  BY SpelledOut DEF Bears
<1> HIDE DEF L, M, w
<1>3. t = [k \in 1..L |-> IF k = i THEN v ELSE IF i < k /\ k <= M + 1 THEN s[k - 1] ELSE s[k]]
  BY <1>1 DEF ShiftedUp
<1> HIDE DEF t
<1>4. t \in [1..L -> Contents]
  BY <1>1, <1>3 DEF Contents
<1>5. \A k \in 1..M + 1 : t[k] = w[k]
  <2> SUFFICES ASSUME NEW k \in 1..M + 1 PROVE t[k] = w[k]
    OBVIOUS
  <2>1. k \in 1..L
    BY <1>1
  <2>2. CASE k = i
    BY <1>2, <1>3, <2>1, <2>2
  <2>3. CASE k < i
    <3>1. k \in 1..M /\ ~(i < k) /\ k # i
      BY <1>1, <2>3
    <3> QED
      BY <1>1, <1>2, <1>3, <2>1, <2>3, <3>1
  <2>4. CASE k > i
    <3>1. k - 1 \in 1..M /\ i < k /\ k <= M + 1 /\ k # i /\ ~(k < i)
      BY <1>1, <2>4
    <3> QED
      BY <1>1, <1>2, <1>3, <2>1, <3>1
  <2> QED
    BY <1>1, <2>2, <2>3, <2>4
<1>6. \A k \in M + 2..L : t[k] # Raw => k \in A
  BY <1>1, <1>3
<1>7. t \in Seq(Contents) /\ Len(t) = L
  BY <1>1, <1>4, FunctionIsSeq
<1> QED
  BY <1>1, <1>2, <1>5, <1>6, <1>7 DEF Bears, L, M, t, w

(* Destroying the last elements drops them.                                  *)
LEMMA BearsCut ==
  ASSUME DynamicArrayAssumption, NEW A, NEW s, NEW q, Bears(s, q, A), NEW first \in 1..Len(q) + 1
  PROVE  /\ Bears(DestroyRange(s, first, Len(q)), Without(q, first, Len(q) + 1), A)
         /\ Len(DestroyRange(s, first, Len(q))) = Len(s)
         /\ Len(Without(q, first, Len(q) + 1)) = first - 1
<1> DEFINE L == Len(s)
           M == Len(q)
           t == DestroyRange(s, first, M)
           w == Without(q, first, M + 1)
<1>1. /\ L \in Nat /\ M \in Nat /\ M <= L /\ first \in Nat /\ 1 <= first /\ first <= M + 1
      /\ DOMAIN s = 1..L /\ \A k \in 1..L : s[k] \in Contents
      /\ \A k \in 1..M : s[k] = q[k] /\ s[k] \in Values
      /\ \A k \in M + 1..L : s[k] # Raw => k \in A
  BY Borne
<1>2. /\ w \in Seq(Values) /\ Len(w) = M - (M + 1 - first)
      /\ \A k \in 1..M - (M + 1 - first) :
           w[k] = IF k < first THEN q[k] ELSE q[k + (M + 1 - first)]
  <2> DEFINE last == M + 1
  <2>1. last \in 1..Len(q) + 1 /\ first <= last /\ q \in Seq(Values)
    BY <1>1 DEF Bears
  <2> HIDE DEF last
  <2>2. /\ Without(q, first, last) \in Seq(Values)
        /\ Len(Without(q, first, last)) = Len(q) - (last - first)
        /\ \A k \in 1..Len(q) - (last - first) :
             Without(q, first, last)[k] = IF k < first THEN q[k] ELSE q[k + (last - first)]
    BY <2>1, SpelledOut
  <2> QED
    BY <2>2 DEF last
<1> HIDE DEF L, M, w
<1>3. Len(w) = first - 1 /\ \A k \in 1..first - 1 : w[k] = q[k]
  BY <1>1, <1>2
<1>4. t = [k \in 1..L |-> IF first <= k /\ k <= M THEN Destroyed(s[k]) ELSE s[k]]
  BY <1>1 DEF DestroyRange
<1> HIDE DEF t
<1>5. t \in [1..L -> Contents]
  BY <1>1, <1>4 DEF Contents, Destroyed
<1>6. \A k \in 1..first - 1 : t[k] = w[k]
  BY <1>1, <1>3, <1>4
<1>7. \A k \in first..L : t[k] # Raw => k \in A
  BY <1>1, <1>4 DEF Destroyed, DynamicArrayAssumption
<1>8. t \in Seq(Contents) /\ Len(t) = L
  BY <1>1, <1>5, FunctionIsSeq
<1>9. first - 1 <= L /\ first - 1 + 1 = first
  BY <1>1
<1> QED
  BY <1>2, <1>3, <1>6, <1>7, <1>8, <1>9 DEF Bears, L, M, t, w

(* erase closes the gap.                                                     *)
Closed(s, n, first, last) ==
  LET gap == last - first
      u == DestroyRange(s, first, last - 1)
  IN [k \in DOMAIN u |-> IF first <= k /\ k <= n - gap THEN u[k + gap]
                         ELSE IF last <= k /\ k <= n THEN Remains(u[k])
                         ELSE u[k]]

(* What erase leaves of slots s that held the elements of q.                 *)
Closes(s, q, first, last, A) ==
  /\ Bears(Closed(s, Len(q), first, last), Without(q, first, last), A \cup last..Len(q))
  /\ Len(Closed(s, Len(q), first, last)) = Len(s)
  /\ Len(Without(q, first, last)) = Len(q) - (last - first)
  /\ \A k \in last..Len(q) : Len(q) - (last - first) < k =>
       Closed(s, Len(q), first, last)[k] = Remains(s[k])

LEMMA BearsErased ==
  ASSUME DynamicArrayAssumption, NEW A, NEW s, NEW q, Bears(s, q, A),
         NEW first \in 1..Len(q) + 1, NEW last \in first..Len(q) + 1
  PROVE  Closes(s, q, first, last, A)
<1> DEFINE L == Len(s)
           n == Len(q)
           gap == last - first
           u == DestroyRange(s, first, last - 1)
           t == Closed(s, n, first, last)
           w == Without(q, first, last)
<1>1. /\ L \in Nat /\ n \in Nat /\ n <= L /\ first \in Nat /\ 1 <= first /\ last \in Nat
      /\ first <= last /\ last <= n + 1
      /\ DOMAIN s = 1..L /\ \A k \in 1..L : s[k] \in Contents
      /\ \A k \in 1..n : s[k] = q[k] /\ s[k] \in Values
      /\ \A k \in n + 1..L : s[k] # Raw => k \in A
  BY Borne
<1>2. /\ w \in Seq(Values) /\ Len(w) = n - gap
      /\ \A k \in 1..n - gap : w[k] = IF k < first THEN q[k] ELSE q[k + gap]
  <2>1. last \in 1..Len(q) + 1 /\ first <= last /\ q \in Seq(Values)
    BY <1>1 DEF Bears
  <2> QED
    BY <2>1, SpelledOut
<1> HIDE DEF L, n, w
<1>3. u = [k \in 1..L |-> IF first <= k /\ k <= last - 1 THEN Destroyed(s[k]) ELSE s[k]]
  BY <1>1 DEF DestroyRange
<1>4. /\ gap \in Nat /\ last = first + gap /\ n - gap \in Nat /\ first <= n - gap + 1
  BY <1>1
<1>5. t = [k \in DOMAIN u |-> IF first <= k /\ k <= n - gap THEN u[k + gap]
                              ELSE IF last <= k /\ k <= n THEN Remains(u[k])
                              ELSE u[k]]
  BY DEF Closed
<1> HIDE DEF u, gap, t
<1>6. /\ DOMAIN u = 1..L
      /\ \A k \in 1..L : u[k] \in Contents
      /\ \A k \in 1..first - 1 : u[k] = s[k]
      /\ \A k \in last..L : u[k] = s[k]
      /\ \A k \in first..last - 1 : u[k] = Raw
  BY <1>1, <1>3 DEF Contents, Destroyed, DynamicArrayAssumption
<1>7. t \in [1..L -> Contents]
  <2>1. \A k \in 1..L : k <= n - gap => k + gap \in 1..L
    BY <1>1, <1>4
  <2> QED
    BY <1>5, <1>6, <2>1 DEF Remains, Contents
<1>8. \A k \in 1..n - gap : t[k] = w[k]
  <2> SUFFICES ASSUME NEW k \in 1..n - gap PROVE t[k] = w[k]
    OBVIOUS
  <2>1. k \in 1..L /\ k <= n - gap
    BY <1>1, <1>4
  <2>2. CASE k < first
    <3>1. k \in 1..first - 1 /\ k \in 1..n /\ ~(first <= k) /\ ~(last <= k)
      BY <1>1, <1>4, <2>2
    <3> QED
      BY <1>1, <1>2, <1>5, <1>6, <2>1, <2>2, <3>1
  <2>3. CASE first <= k
    <3>1. k + gap \in last..L /\ k + gap \in 1..n /\ ~(k < first)
      BY <1>1, <1>4, <2>1, <2>3
    <3> QED
      BY <1>1, <1>2, <1>5, <1>6, <2>1, <2>3, <3>1
  <2> QED
    BY <1>1, <2>2, <2>3
<1>9. \A k \in n - gap + 1..L : t[k] # Raw => k \in A \cup last..n
  <2> SUFFICES ASSUME NEW k \in n - gap + 1..L, t[k] # Raw PROVE k \in A \cup last..n
    OBVIOUS
  <2>1. k \in 1..L /\ ~(k <= n - gap) /\ first <= k
    BY <1>1, <1>4
  <2>2. CASE last <= k /\ k <= n
    BY <1>1, <2>1, <2>2
  <2>3. CASE last <= k /\ ~(k <= n)
    <3>1. k \in n + 1..L /\ k \in last..L
      BY <1>1, <2>1, <2>3
    <3> QED
      BY <1>1, <1>5, <1>6, <2>1, <2>3, <3>1
  <2>4. CASE ~(last <= k)
    <3>1. k \in first..last - 1
      BY <1>1, <2>1, <2>4
    <3> QED
      BY <1>5, <1>6, <2>1, <2>4, <3>1
  <2> QED
    BY <2>2, <2>3, <2>4
<1>12. ASSUME NEW k \in last..n, n - gap < k PROVE t[k] = Remains(s[k])
  <2>1. k \in 1..L /\ k \in last..L /\ ~(k <= n - gap) /\ last <= k /\ k <= n
    BY <1>1, <1>4, <1>12
  <2> QED
    BY <1>5, <1>6, <2>1
<1>10. t \in Seq(Contents) /\ Len(t) = L
  BY <1>1, <1>7, FunctionIsSeq
<1>11. n - gap <= L
  BY <1>1, <1>4
<1> QED
  BY <1>2, <1>8, <1>9, <1>10, <1>11, <1>12 DEF Closes, Bears, L, n, gap, t, u, w
-----------------------------------------------------------------------------
LEMMA InsertsLeaves ==
  ASSUME DynamicArrayAssumption, IInv, NEW a \in Live, NEW h, Grew(a, h),
         arr[a].size + 1 <= h.arr[a].cap, NEW v \in Values, NEW i \in 1..arr[a].size + 1,
         Inserts(a, h, i, v, ShiftedUp(h.cell[h.arr[a].buf], arr[a].size, i))
  PROVE  Leaves(a, With(Held(a), i, v))
<1> DEFINE s == h.cell[h.arr[a].buf]
           n == arr[a].size
           t == [ShiftedUp(s, n, i) EXCEPT ![i] = v]
           w == With(Held(a), i, v)
           lost == Loses(ShiftedUp(s, n, i)[i]) \/ Loses(s[n + 1])
<1>1. Commit(a, h, t, n + 1, lost)
  BY DEF Inserts
<1>2. Bears(s, Held(a), Above(a, h)) /\ Len(Held(a)) = n /\ Len(s) = h.arr[a].cap
  BY GrownSlots
<1>3. Bears(t, w, Above(a, h)) /\ Len(t) = Len(s) /\ Len(w) = n + 1
  BY <1>2, BearsInserted, SMTT(30)
<1>4. lost \in BOOLEAN
  BY DEF Loses
<1> HIDE DEF t, w, lost
<1>5. Leaves(a, w)
  BY <1>1, <1>2, <1>3, <1>4, SpelledLeaves
<1> QED
  BY <1>5 DEF w

LEMMA InsertLeaves ==
  ASSUME DynamicArrayAssumption, IInv, NEW a \in Live, NEW i \in Nat, NEW v \in Values,
         Insert(a, i, v)
  PROVE  i \in 1..arr[a].size + 1 /\ Leaves(a, With(Held(a), i, v))
BY RoomMade, InsertsLeaves DEF Insert

(* insert of an element of the array itself inserts some element: which one, *)
(* the growth or the shift may have changed by then.                         *)
LEMMA InsertOwnLeaves ==
  ASSUME DynamicArrayAssumption, IInv, NEW a \in Live, NEW i \in Nat, NEW j \in Nat,
         InsertOwn(a, i, j)
  PROVE  /\ i \in 1..arr[a].size + 1
         /\ \E v \in Values : AddsOwn(a, i, j, v)
<1> DEFINE h == Reserve(a, RoomForOne(a))
           n == arr[a].size
           u == ShiftedUp(h.cell[h.arr[a].buf], n, i)
           c == IF h.arr[a].buf = arr[a].buf THEN u[j] ELSE h.cell[arr[a].buf][j]
<1>1. /\ Grew(a, h) /\ n + 1 <= h.arr[a].cap
      /\ i \in 1..n + 1 /\ j \in 1..n /\ \E v \in Copies(c) : Inserts(a, h, i, v, u)
  BY RoomMade DEF InsertOwn
<1>2. n < arr[a].cap => h.cell = cell /\ h.arr = arr
  BY LiveTyped DEF InOrder, Reserve, RoomForOne
<1>3. ASSUME n < arr[a].cap, j < i PROVE c = Slots(a)[j]
  <2>1. j \in DOMAIN Slots(a)
    BY <1>1, LiveTyped DEF InOrder
  <2>2. c = ShiftedUp(Slots(a), n, i)[j]
    BY <1>2, <1>3 DEF Slots
  <2> HIDE DEF c, h, u
  <2> QED
    BY <1>1, <1>3, <2>1, <2>2 DEF ShiftedUp
<1>4. Slots(a)[j] \in Values
  BY <1>1, LiveTyped DEF InOrder
<1> HIDE DEF h, c
<1>5. PICK v \in Copies(c) : Inserts(a, h, i, v, u)
  BY <1>1
<1>6. v \in Values
  BY DEF Copies
<1>7. n < arr[a].cap /\ j < i => v = Slots(a)[j]
  BY <1>3, <1>4 DEF Copies
<1>8. Leaves(a, With(Held(a), i, v))
  BY <1>1, <1>5, <1>6, InsertsLeaves
<1> QED
  BY <1>1, <1>6, <1>7, <1>8 DEF AddsOwn

(* Operations that never grow.                                               *)
LEMMA PopBackLeaves ==
  ASSUME DynamicArrayAssumption, IInv, NEW a \in Live, PopBack(a)
  PROVE  Leaves(a, Without(Held(a), arr[a].size, arr[a].size + 1))
<1> DEFINE n == arr[a].size
           s == InPlace.cell[InPlace.arr[a].buf]
           t == DestroyRange(s, n, n)
           w == Without(Held(a), n, n + 1)
<1>1. Grew(a, InPlace)
  BY InPlaceGrew
<1>2. s = Slots(a) /\ Commit(a, InPlace, t, n - 1, FALSE) /\ n > 0
  BY DEF PopBack, InPlace, Slots
<1>3. Bears(s, Held(a), Above(a, InPlace)) /\ Len(Held(a)) = n /\ Len(s) = InPlace.arr[a].cap
  BY <1>1, GrownSlots
<1> HIDE DEF s
<1>4. Bears(t, w, Above(a, InPlace)) /\ Len(t) = Len(s) /\ Len(w) = n - 1
  <2> DEFINE q == Held(a)
             A == Above(a, InPlace)
  <2>1. n \in 1..Len(q) + 1 /\ Bears(s, q, A) /\ Len(q) = n
    BY <1>2, <1>3, Borne
  <2> HIDE DEF n, q, A
  <2>2. /\ Bears(DestroyRange(s, n, Len(q)), Without(q, n, Len(q) + 1), A)
        /\ Len(DestroyRange(s, n, Len(q))) = Len(s)
        /\ Len(Without(q, n, Len(q) + 1)) = n - 1
    BY <2>1, BearsCut
  <2> QED
    BY <2>1, <2>2 DEF q, A
<1> HIDE DEF t, w
<1>5. Leaves(a, w)
  BY <1>1, <1>2, <1>3, <1>4, SpelledLeaves
<1> QED
  BY <1>5 DEF w

LEMMA ClearLeaves ==
  ASSUME DynamicArrayAssumption, IInv, NEW a \in Live, Clear(a)
  PROVE  Leaves(a, Without(Held(a), 1, arr[a].size + 1))
<1> DEFINE n == arr[a].size
           s == InPlace.cell[InPlace.arr[a].buf]
           t == DestroyRange(s, 1, n)
           w == Without(Held(a), 1, n + 1)
<1>1. Grew(a, InPlace)
  BY InPlaceGrew
<1>2. s = Slots(a) /\ Commit(a, InPlace, t, 0, FALSE)
  BY DEF Clear, InPlace, Slots
<1>3. Bears(s, Held(a), Above(a, InPlace)) /\ Len(Held(a)) = n /\ Len(s) = InPlace.arr[a].cap
  BY <1>1, GrownSlots
<1> HIDE DEF s
<1>4. Bears(t, w, Above(a, InPlace)) /\ Len(t) = Len(s) /\ Len(w) = 0
  <2> DEFINE q == Held(a)
             first == 1
             A == Above(a, InPlace)
  <2>1. first \in 1..Len(q) + 1 /\ first - 1 = 0 /\ Bears(s, q, A) /\ Len(q) = n
    BY <1>3, Borne
  <2> HIDE DEF n, q, first, A
  <2>2. /\ Bears(DestroyRange(s, first, Len(q)), Without(q, first, Len(q) + 1), A)
        /\ Len(DestroyRange(s, first, Len(q))) = Len(s)
        /\ Len(Without(q, first, Len(q) + 1)) = first - 1
    BY <2>1, BearsCut
  <2> QED
    BY <2>1, <2>2 DEF q, first, A
<1> HIDE DEF t, w
<1>5. Leaves(a, w)
  BY <1>1, <1>2, <1>3, <1>4, SpelledLeaves
<1> QED
  BY <1>5 DEF w

LEMMA EraseRangeLeaves ==
  ASSUME DynamicArrayAssumption, IInv, NEW a \in Live, NEW first \in Nat, NEW last \in Nat,
         EraseRange(a, first, last)
  PROVE  /\ first \in 1..arr[a].size + 1 /\ last \in first..arr[a].size + 1
         /\ LeavesBut(a, Without(Held(a), first, last), last..arr[a].size)
<1> DEFINE n == arr[a].size
           gap == last - first
           s == InPlace.cell[InPlace.arr[a].buf]
           t == Closed(s, n, first, last)
           w == Without(Held(a), first, last)
           lost == \E k \in last..(n - gap) : Loses(DestroyRange(s, first, last - 1)[k])
<1>1. Grew(a, InPlace)
  BY InPlaceGrew
<1>2. s = Slots(a)
  BY DEF InPlace, Slots
<1>3. /\ first \in 1..n + 1 /\ last \in first..n + 1
      /\ Commit(a, InPlace, t, n - gap, lost)
  BY <1>2 DEF EraseRange, Closed
<1>4. Bears(s, Held(a), Above(a, InPlace)) /\ Len(Held(a)) = n /\ Len(s) = InPlace.arr[a].cap
  BY <1>1, GrownSlots
<1> HIDE DEF s
<1>5. /\ Bears(t, w, Above(a, InPlace) \cup last..n) /\ Len(t) = Len(s) /\ Len(w) = n - gap
      /\ \A k \in last..n : Len(w) < k => t[k] = Remains(s[k])
  <2> DEFINE q == Held(a)
             A == Above(a, InPlace)
  <2> HIDE DEF n, q, A
  <2>1. /\ Bears(s, q, A) /\ Len(q) = n
        /\ first \in 1..Len(q) + 1 /\ last \in first..Len(q) + 1
    BY <1>3, <1>4 DEF q, A
  <2>2. Closes(s, q, first, last, A)
    BY <2>1, BearsErased
  <2> QED
    BY <2>1, <2>2 DEF Closes, q, A
<1>6. lost \in BOOLEAN
  OBVIOUS
<1> HIDE DEF t, w, lost, gap
<1>7. InPlace.arr[a].buf = arr[a].buf
  BY DEF InPlace
<1>8. Spells(a, InPlace, t, w, last..n, lost)
  BY <1>1, <1>2, <1>3, <1>4, <1>5, <1>6, <1>7 DEF Spells
<1> QED
  BY <1>3, <1>8 DEF LeavesBut, w
-----------------------------------------------------------------------------
(* The first elements of s are t.                                            *)
LEMMA Prefix ==
  ASSUME NEW S, NEW s, NEW t \in Seq(S), \A k \in 1..Len(t) : s[k] = t[k]
  PROVE  SubSeq(s, 1, Len(t)) = t
<1>1. Len(t) \in Nat /\ \A k \in 1..Len(t) : t[k] \in S
  BY LenProperties, ElementOfSeq
<1> DEFINE n == Len(t)
           u == SubSeq(s, 1, n)
<1>2. n \in Int /\ \A k \in 1..n : s[k] \in S
  BY <1>1
<1> HIDE DEF n
<1>3. /\ u \in Seq(S) /\ Len(u) = IF 1 <= n THEN n - 1 + 1 ELSE 0
      /\ \A k \in 1..n - 1 + 1 : u[k] = s[1 + k - 1]
  BY <1>2, SubSeqProperties
<1> HIDE DEF u
<1>4. n \in Nat
  BY <1>1 DEF n
<1>5. Len(u) = n /\ \A k \in 1..n : u[k] = s[k]
  BY <1>3, <1>4
<1>6. Len(u) = Len(t) /\ \A k \in 1..Len(u) : u[k] = t[k]
  BY <1>5 DEF n
<1>7. u = t
  BY <1>3, <1>6, SeqEqual
<1> QED
  BY <1>7 DEF u, n

(* A buffer that no backend records is none an array or iterator points to.  *)
LEMMA PointedRecorded ==
  ASSUME DynamicArrayAssumption, IInv, NEW new, \A m \in Mems : new \notin owned[m],
         new # NoBuf
  PROVE  /\ \A b \in Arrays : arr[b].buf # new
         /\ \A i \in Iters : iter[i].buf # new
<1>1. ASSUME NEW b \in Arrays PROVE arr[b].buf # new
  <2>1. CASE b \in Live
    <3>1. arr[b].mem \in Mems /\ (arr[b].buf # NoBuf => arr[b].buf \in owned[arr[b].mem])
      BY <2>1, LiveTyped DEF InOrder
    <3> QED
      BY <3>1
  <2>2. CASE b \notin Live
    BY <2>2 DEF Live, IInv, BlanksBlank, Absent
  <2> QED
    BY <2>1, <2>2
<1>2. ASSUME NEW i \in Iters PROVE iter[i].buf # new
  <2>1. CASE iter[i].mem = NoMem
    BY <2>1 DEF IInv, BlanksBlank, NoIter
  <2>2. CASE iter[i].mem # NoMem
    <3>1. iter[i].mem \in Mems /\ (iter[i].buf # NoBuf => iter[i].buf \in owned[iter[i].mem])
      BY <2>2 DEF IInv, TypeOK, BuffersHeld
    <3> QED
      BY <3>1
  <2> QED
    BY <2>1, <2>2
<1> QED
  BY <1>1, <1>2

(* A constructor of array a in backend m, which allocates n slots and fills  *)
(* the first of them with q.                                                 *)
Made(a, q) ==
  /\ Live' = Live \cup {a} /\ Held(a)' = q
  /\ \A b \in Arrays \ {a} : Held(b)' = Held(b)

LEMMA BeginsKeeps ==
  ASSUME DynamicArrayAssumption, IInv, NEW a \in Arrays \ Live, NEW m \in Mems,
         NEW n \in Nat, NEW q \in Seq(Values), Len(q) <= n, Begins(a, m, n, q, Rebind(NoMem, m))
  PROVE  IInv' /\ Tidy /\ Made(a, q)
<1> DEFINE new == Allocated(n)
           D == Bufs \cup {NoBuf}
           rec == [mem |-> m, buf |-> new, size |-> Len(q), cap |-> n]
           s == q \o [k \in 1..(n - Len(q)) |-> Raw]
<1>1. Len(q) \in Nat /\ m # NoMem /\ \A k \in 1..Len(q) : q[k] \in Values
  BY LenProperties, ElementOfSeq DEF DynamicArrayAssumption, NoMem
<1>2. /\ n = 0 => new = NoBuf
      /\ n # 0 => new \in Bufs /\ new # NoBuf /\ \A k \in Mems : new \notin owned[k]
  BY AllocatedFresh DEF Begins
<1>3. new \in D
  BY <1>2
<1>4. s \in Seq(Contents) /\ Len(s) = n
      /\ \A k \in 1..n : s[k] = IF k <= Len(q) THEN q[k] ELSE Raw
  <2> DEFINE blank == [k \in 1..(n - Len(q)) |-> Raw]
  <2>1. n - Len(q) \in Nat /\ blank \in [1..n - Len(q) -> Contents]
    BY <1>1 DEF Contents
  <2>2. blank \in Seq(Contents) /\ Len(blank) = n - Len(q)
    <3> HIDE DEF blank
    <3> QED
      BY <2>1, FunctionIsSeq
  <2>3. \A k \in 1..n - Len(q) : blank[k] = Raw
    OBVIOUS
  <2>4. q \in Seq(Contents)
    BY SeqMonotonic DEF Contents
  <2> HIDE DEF blank
  <2>5. /\ q \o blank \in Seq(Contents) /\ Len(q \o blank) = Len(q) + Len(blank)
        /\ \A k \in 1..Len(q) + Len(blank) :
             (q \o blank)[k] = IF k <= Len(q) THEN q[k] ELSE blank[k - Len(q)]
    BY <2>2, <2>4, ConcatProperties
  <2>6. Len(q) + Len(blank) = n /\ Len(q \o blank) = n
    BY <1>1, <2>2, <2>5
  <2>7. ASSUME NEW k \in 1..n PROVE (q \o blank)[k] = IF k <= Len(q) THEN q[k] ELSE Raw
    <3>1. ~(k <= Len(q)) => k - Len(q) \in 1..n - Len(q)
      BY <1>1
    <3> QED
      BY <2>3, <2>5, <2>6, <3>1
  <2> QED
    BY <2>5, <2>6, <2>7 DEF blank
<1>5. arr' = [arr EXCEPT ![a] = rec] /\ rec \in Shape /\ arr \in [Arrays -> Shape]
  BY <1>1, <1>3 DEF Begins, Shape, IInv, TypeOK
<1>6. cell \in [D -> Seq(Contents)] /\ cell[NoBuf] = <<>>
  BY DEF IInv, TypeOK, BlanksBlank, Contents
<1>7. cell' = IF n = 0 THEN cell ELSE [cell EXCEPT ![new] = s]
  BY DEF Begins
<1>8. owned' = IF n = 0 THEN owned ELSE [owned EXCEPT ![m] = @ \cup {new}]
  BY DEF Begins, Record
<1>9. iter' = iter /\ overlaid' = overlaid /\ refs' = Rebind(NoMem, m)
  BY DEF Begins
<1>10. /\ arr' \in [Arrays -> Shape] /\ \A b \in Arrays \ {a} : arr'[b] = arr[b]
       /\ arr'[a].mem = m /\ arr'[a].buf = new /\ arr'[a].size = Len(q) /\ arr'[a].cap = n
  <2> HIDE DEF rec
  <2>1. arr' \in [Arrays -> Shape] /\ (\A b \in Arrays \ {a} : arr'[b] = arr[b]) /\ arr'[a] = rec
    BY <1>5
  <2> QED
    BY <2>1 DEF rec
<1>11. arr[a] = Absent
  BY DEF Live, IInv, BlanksBlank
<1>12. /\ cell' \in [D -> Seq(Contents)] /\ cell'[NoBuf] = <<>>
       /\ \A b \in D \ {new} : cell'[b] = cell[b]
       /\ Len(cell'[new]) = n
       /\ \A k \in 1..Len(q) : cell'[new][k] = q[k]
       /\ \A k \in Len(q) + 1..n : cell'[new][k] = Raw
  <2>1. CASE n = 0
    <3>1. cell' = cell /\ new = NoBuf
      BY <1>2, <1>7, <2>1
    <3>2. Len(<<>>) = 0
      BY EmptySeq
    <3> QED
      BY <1>1, <1>6, <2>1, <3>1, <3>2
  <2>2. CASE n # 0
    <3> HIDE DEF s, D, new
    <3>1. /\ cell' \in [D -> Seq(Contents)] /\ cell'[new] = s
          /\ \A b \in D \ {new} : cell'[b] = cell[b]
      BY <1>3, <1>4, <1>6, <1>7, <2>2
    <3>2. NoBuf \in D \ {new}
      BY <1>2, <2>2 DEF D
    <3> QED
      BY <1>1, <1>4, <1>6, <3>1, <3>2
  <2> QED
    BY <2>1, <2>2
<1>13. /\ owned \in [Mems -> SUBSET Bufs]
       /\ \A k, l \in Mems : k # l => owned[k] \cap owned[l] = {}
  BY DEF IInv, TypeOK, BuffersHeld
<1> HIDE DEF new
<1>14. /\ owned' \in [Mems -> SUBSET Bufs]
       /\ \A k \in Mems : owned[k] \subseteq owned'[k]
       /\ \A k, l \in Mems : k # l => owned'[k] \cap owned'[l] = {}
       /\ new # NoBuf => new \in owned'[m]
  BY <1>2, <1>8, <1>13
<1>15. RefsExact' /\ refs' \in [Mems -> Nat]
  BY <1>9, <1>10, <1>11, ArrayRebound DEF IInv, Absent
<1>16. Live' = Live \cup {a}
  BY <1>1, <1>10 DEF Live
<1>17. new # NoBuf => /\ \A b \in Arrays : arr[b].buf # new
                      /\ \A i \in Iters : iter[i].buf # new
  BY <1>2, PointedRecorded
<1>18. TypeOK'
  BY <1>9, <1>10, <1>12, <1>14, <1>15 DEF IInv, TypeOK, Shape, Contents
<1>19. BlanksBlank'
  BY <1>1, <1>9, <1>10, <1>12 DEF IInv, BlanksBlank
<1>20. BuffersHeld'
  <2>1. \A b \in Live' : arr'[b].buf # NoBuf => arr'[b].buf \in owned'[arr'[b].mem]
    <3> SUFFICES ASSUME NEW b \in Live', arr'[b].buf # NoBuf
                 PROVE  arr'[b].buf \in owned'[arr'[b].mem]
      OBVIOUS
    <3>1. CASE b = a
      BY <1>10, <1>14, <3>1
    <3>2. CASE b # a
      <4>1. arr'[b] = arr[b] /\ arr[b].mem \in Mems /\ arr[b].buf \in owned[arr[b].mem]
        BY <1>10, <1>16, <3>2, LiveTyped DEF InOrder
      <4> QED
        BY <1>14, <4>1
    <3> QED
      BY <3>1, <3>2
  <2>2. \A i \in Iters : iter[i].buf # NoBuf => iter[i].buf \in owned'[iter[i].mem]
    <3> SUFFICES ASSUME NEW i \in Iters, iter[i].buf # NoBuf
                 PROVE  iter[i].buf \in owned'[iter[i].mem]
      OBVIOUS
    <3>1. iter[i].mem \in Mems
      BY DEF IInv, TypeOK, BlanksBlank, NoIter
    <3> QED
      BY <1>14, <3>1 DEF IInv, BuffersHeld
  <2>3. \A b, c \in Live' : b # c /\ arr'[b].buf = arr'[c].buf => arr'[b].buf = NoBuf
    BY <1>10, <1>16, <1>17 DEF IInv, BuffersHeld, Live
  <2> QED
    BY <1>9, <1>14, <2>1, <2>2, <2>3 DEF BuffersHeld
<1>21. \A b \in Arrays \ {a} : cell'[arr'[b].buf] = cell[arr[b].buf]
  <2> SUFFICES ASSUME NEW b \in Arrays \ {a} PROVE cell'[arr[b].buf] = cell[arr[b].buf]
    BY <1>10
  <2>1. arr[b].buf \in D
    BY DEF IInv, TypeOK
  <2>2. CASE arr[b].buf = NoBuf
    BY <1>6, <1>12, <2>2
  <2>3. CASE arr[b].buf # NoBuf
    <3>1. arr[b].buf # new
      BY <1>17, <2>3
    <3> QED
      BY <1>12, <2>1, <3>1
  <2> QED
    BY <2>2, <2>3
<1>22. ElementsInPlace'
  <2> SUFFICES ASSUME NEW b \in Live'
               PROVE  /\ Len(cell'[arr'[b].buf]) = arr'[b].cap /\ arr'[b].size <= arr'[b].cap
                      /\ \A k \in 1..arr'[b].size : cell'[arr'[b].buf][k] \in Values
    BY DEF ElementsInPlace, Slots
  <2>1. CASE b = a
    BY <1>1, <1>10, <1>12, <2>1
  <2>2. CASE b # a
    <3>0. b \in Live /\ b \in Arrays \ {a}
      BY <1>16, <2>2 DEF Live
    <3>1. arr'[b] = arr[b] /\ cell'[arr'[b].buf] = Slots(b)
      BY <1>10, <1>21, <3>0 DEF Slots
    <3> QED
      BY <3>0, <3>1, LiveTyped DEF InOrder
  <2> QED
    BY <2>1, <2>2
<1>23. Tidy
  <2> SUFFICES ASSUME NEW b \in Bufs, NEW k \in DOMAIN cell'[b], Stray(b, k)'
               PROVE  Stray(b, k)
    BY DEF Tidy
  <2>0. cell'[b][k] # Raw /\ \A c \in Live' : arr'[c].buf = b => arr'[c].size < k
    BY DEF Stray
  <2>1. CASE b = new
    <3>1. k \in 1..n
      BY <1>12, <2>1, LenProperties
    <3>2. k \in Len(q) + 1..n
      BY <1>1, <1>10, <1>16, <2>0, <2>1, <3>1
    <3> QED
      BY <1>12, <2>0, <2>1, <3>2
  <2>2. CASE b # new
    <3>1. cell'[b] = cell[b]
      BY <1>12, <2>2
    <3>2. ASSUME NEW c \in Live, arr[c].buf = b PROVE arr[c].size < k
      <4>1. c \in Live' /\ arr'[c] = arr[c]
        BY <1>10, <1>16 DEF Live
      <4> QED
        BY <2>0, <3>2, <4>1
    <3> QED
      BY <2>0, <3>1, <3>2 DEF Stray
  <2> QED
    BY <2>1, <2>2
<1>24. Made(a, q)
  <2>1. Held(a)' = SubSeq(cell'[new], 1, Len(q))
    BY <1>10 DEF Held, Slots
  <2>2. SubSeq(cell'[new], 1, Len(q)) = q
    BY <1>12, Prefix
  <2>3. ASSUME NEW b \in Arrays \ {a} PROVE Held(b)' = Held(b)
    BY <1>10, <1>21 DEF Held, Slots
  <2> QED
    BY <1>16, <2>1, <2>2, <2>3 DEF Made
<1> QED
  BY <1>15, <1>18, <1>19, <1>20, <1>22, <1>23, <1>24 DEF IInv
LEMMA ConstructKeeps ==
  ASSUME DynamicArrayAssumption, IInv, NEW a \in Arrays, Construct(a)
  PROVE  IInv' /\ Tidy /\ a \notin Live /\ Made(a, <<>>)
<1> DEFINE m == Lowest(FreeMems)
           none == <<>>
<1>1. m \in Mems
  <2>1. FreeMems \subseteq Nat /\ FreeMems # {} /\ FreeMems \subseteq Mems
    BY DEF Construct, FreeMems, DynamicArrayAssumption
  <2> QED
    BY <2>1, LowestChosen
<1>2. none \in Seq(Values) /\ Len(none) = 0
  BY EmptySeq
<1>3. a \in Arrays \ Live /\ Begins(a, m, 0, none, Rebind(NoMem, m))
  BY DEF Construct
<1> HIDE DEF m, none
<1>4. 0 \in Nat /\ Len(none) <= 0
  BY <1>2
<1>5. IInv' /\ Tidy /\ Made(a, none)
  BY <1>1, <1>2, <1>3, <1>4, BeginsKeeps
<1> QED
  BY <1>3, <1>5 DEF none

LEMMA ConstructNKeeps ==
  ASSUME DynamicArrayAssumption, IInv, NEW a \in Arrays, NEW m \in Mems, NEW n \in Nat,
         ConstructN(a, m, n)
  PROVE  IInv' /\ Tidy /\ a \notin Live /\ Made(a, [k \in 1..n |-> Default])
<1> DEFINE q == [k \in 1..n |-> Default]
<1>1. q \in [1..n -> Values]
  BY DEF DynamicArrayAssumption
<1>2. a \in Arrays \ Live /\ Begins(a, m, n, q, Rebind(NoMem, m))
  BY DEF ConstructN
<1> HIDE DEF q
<1>3. q \in Seq(Values) /\ Len(q) = n
  BY <1>1, FunctionIsSeq
<1>4. Len(q) <= n
  BY <1>3
<1>5. IInv' /\ Tidy /\ Made(a, q)
  BY <1>2, <1>3, <1>4, BeginsKeeps
<1> QED
  BY <1>2, <1>5 DEF q

LEMMA CopyConstructKeeps ==
  ASSUME DynamicArrayAssumption, IInv, NEW a \in Arrays, NEW b \in Arrays, NEW m \in Mems,
         CopyConstruct(a, b, m)
  PROVE  IInv' /\ Tidy /\ a \notin Live /\ b \in Live /\ Made(a, Held(b))
<1>1. /\ a \in Arrays \ Live /\ b \in Live
      /\ Begins(a, m, arr[b].cap, Held(b), Rebind(NoMem, m))
  BY DEF CopyConstruct, Held
<1>2. arr[b].cap \in Nat /\ arr[b].size <= arr[b].cap
  BY <1>1, LiveTyped DEF InOrder
<1>3. Held(b) \in Seq(Values) /\ Len(Held(b)) = arr[b].size
  BY <1>1, HeldTyped
<1>4. Len(Held(b)) <= arr[b].cap
  BY <1>2, <1>3
<1> QED
  BY <1>1, <1>2, <1>3, <1>4, BeginsKeeps
-----------------------------------------------------------------------------
(* Arrays and iterators that come to point elsewhere while the elements of   *)
(* the arrays in G are given up.  Each living array then is one of the       *)
(* others under another name or holds nothing, and none of them is lost.     *)
Rewired(G) ==
  /\ arr' \in [Arrays -> Shape] /\ iter' \in [Iters -> Spot] /\ refs' \in [Mems -> Nat]
  /\ RefsExact' /\ overlaid' = overlaid
  /\ \A x \in Arrays : arr'[x].mem = NoMem => arr'[x] = Absent
  /\ \A x \in Live' : \/ arr'[x].buf = NoBuf /\ arr'[x].size = 0 /\ arr'[x].cap = 0
                      \/ \E y \in Live \ G : arr'[x] = arr[y]
  /\ \A x, y \in Live' : x # y /\ arr'[x].buf = arr'[y].buf => arr'[x].buf = NoBuf
  /\ \A y \in Live \ G : arr[y].buf # NoBuf => \E x \in Live' : arr'[x] = arr[y]
  /\ \A i \in Iters : iter'[i].mem = NoMem => iter'[i] = NoIter
  /\ \A i \in Iters : iter'[i].buf # NoBuf =>
       iter'[i].mem \in Mems /\ iter'[i].buf \in owned[iter'[i].mem]

(* The buffers of backends that are still counted stay, and of them only     *)
(* those of the arrays in G change, where every element is destroyed.        *)
HeapKept(G) ==
  /\ owned' \in [Mems -> SUBSET Bufs] /\ \A m \in Mems : owned'[m] \subseteq owned[m]
  /\ \A m \in Mems : refs'[m] # 0 => owned'[m] = owned[m]
  /\ cell' \in [Bufs \cup {NoBuf} -> Seq(Contents)] /\ cell'[NoBuf] = <<>>
  /\ \A m \in Mems : \A b \in owned'[m] : (\A y \in G : arr[y].buf # b) => cell'[b] = cell[b]
  /\ \A b \in Bufs : \A k \in DOMAIN cell'[b] : cell'[b][k] # Raw =>
       /\ k \in DOMAIN cell[b] /\ cell[b][k] # Raw
       /\ \A y \in G : arr[y].buf = b => arr[y].size < k

LEMMA RewiredKeeps ==
  ASSUME DynamicArrayAssumption, IInv, NEW G, G \subseteq Live, Rewired(G), HeapKept(G)
  PROVE  /\ IInv' /\ Tidy
         /\ \A x \in Live', y \in Live \ G : arr'[x] = arr[y] => Held(x)' = Held(y)
<1>1. /\ arr' \in [Arrays -> Shape] /\ iter' \in [Iters -> Spot] /\ refs' \in [Mems -> Nat]
      /\ RefsExact' /\ overlaid' = overlaid
      /\ \A x \in Arrays : arr'[x].mem = NoMem => arr'[x] = Absent
      /\ \A i \in Iters : iter'[i].mem = NoMem => iter'[i] = NoIter
      /\ \A x, y \in Live' : x # y /\ arr'[x].buf = arr'[y].buf => arr'[x].buf = NoBuf
  BY DEF Rewired
<1>2. /\ owned' \in [Mems -> SUBSET Bufs] /\ \A m \in Mems : owned'[m] \subseteq owned[m]
      /\ \A m \in Mems : refs'[m] # 0 => owned'[m] = owned[m]
      /\ cell' \in [Bufs \cup {NoBuf} -> Seq(Contents)] /\ cell'[NoBuf] = <<>>
  BY DEF HeapKept
<1>3. ASSUME NEW m \in Mems,
             (\E x \in Arrays : arr'[x].mem = m) \/ (\E i \in Iters : iter'[i].mem = m)
      PROVE  owned'[m] = owned[m]
  <2>1. refs'[m] = Cardinality({x \in Arrays : arr'[x].mem = m})
                   + Cardinality({i \in Iters : iter'[i].mem = m})
    BY <1>1 DEF RefsExact
  <2> DEFINE A == {x \in Arrays : arr'[x].mem = m}
             I == {i \in Iters : iter'[i].mem = m}
  <2>2. IsFiniteSet(A) /\ IsFiniteSet(I) /\ (A # {} \/ I # {})
    BY <1>3, FS_Subset DEF DynamicArrayAssumption
  <2> HIDE DEF A, I
  <2>3. Cardinality(A) + Cardinality(I) # 0
    BY <2>2, Counted
  <2> QED
    BY <1>2, <2>1, <2>3 DEF A, I
<1>4. \A x \in Live' : x \in Arrays /\ arr'[x].mem \in Mems
  BY <1>1 DEF Live, Shape
<1>5. ASSUME NEW x \in Live', NEW y \in Live \ G, arr'[x] = arr[y]
      PROVE  cell'[arr'[x].buf] = cell[arr[y].buf]
  <2>1. CASE arr[y].buf = NoBuf
    BY <1>2, <1>5, <2>1 DEF IInv, BlanksBlank
  <2>2. CASE arr[y].buf # NoBuf
    <3>1. arr[y].buf \in owned[arr[y].mem] /\ arr[y].mem \in Mems
      BY <2>2, LiveTyped DEF InOrder
    <3>2. owned'[arr[y].mem] = owned[arr[y].mem]
      BY <1>3, <1>4, <1>5, <3>1
    <3>3. \A z \in G : arr[z].buf # arr[y].buf
      BY <2>2 DEF IInv, BuffersHeld
    <3>4. cell'[arr[y].buf] = cell[arr[y].buf]
      BY <3>1, <3>2, <3>3 DEF HeapKept
    <3> QED
      BY <1>5, <3>4
  <2> QED
    BY <2>1, <2>2
<1>6. TypeOK'
  BY <1>1, <1>2 DEF IInv, TypeOK, Shape, Spot, Contents
<1>7. BlanksBlank'
  BY <1>1, <1>2 DEF BlanksBlank
<1>8. BuffersHeld'
  <2>1. ASSUME NEW x \in Live', arr'[x].buf # NoBuf
        PROVE  arr'[x].buf \in owned'[arr'[x].mem]
    <3>1. PICK y \in Live \ G : arr'[x] = arr[y]
      BY <2>1 DEF Rewired
    <3>2. arr[y].buf \in owned[arr[y].mem]
      BY <2>1, <3>1, LiveTyped DEF InOrder
    <3> QED
      BY <1>3, <1>4, <3>1, <3>2
  <2>2. ASSUME NEW i \in Iters, iter'[i].buf # NoBuf
        PROVE  iter'[i].buf \in owned'[iter'[i].mem]
    <3>1. iter'[i].mem \in Mems /\ iter'[i].buf \in owned[iter'[i].mem]
      BY <2>2 DEF Rewired
    <3> QED
      BY <1>3, <3>1
  <2>3. \A m, n \in Mems : m # n => owned'[m] \cap owned'[n] = {}
    BY <1>2 DEF IInv, BuffersHeld
  <2> QED
    BY <1>1, <2>1, <2>2, <2>3 DEF BuffersHeld
<1>9. ElementsInPlace'
  <2> SUFFICES ASSUME NEW x \in Live'
               PROVE  /\ Len(cell'[arr'[x].buf]) = arr'[x].cap /\ arr'[x].size <= arr'[x].cap
                      /\ \A k \in 1..arr'[x].size : cell'[arr'[x].buf][k] \in Values
    BY DEF ElementsInPlace, Slots
  <2>1. CASE arr'[x].buf = NoBuf /\ arr'[x].size = 0 /\ arr'[x].cap = 0
    <3>1. Len(<<>>) = 0
      BY EmptySeq
    <3> QED
      BY <1>2, <2>1, <3>1
  <2>2. CASE \E y \in Live \ G : arr'[x] = arr[y]
    <3>1. PICK y \in Live \ G : arr'[x] = arr[y]
      BY <2>2
    <3>2. cell'[arr'[x].buf] = Slots(y)
      BY <1>5, <3>1 DEF Slots
    <3> QED
      BY <3>1, <3>2, LiveTyped DEF InOrder
  <2> QED
    BY <2>1, <2>2 DEF Rewired
<1>10. Tidy
  <2> SUFFICES ASSUME NEW b \in Bufs, NEW k \in DOMAIN cell'[b], Stray(b, k)'
               PROVE  Stray(b, k)
    BY DEF Tidy
  <2>0. cell'[b][k] # Raw /\ \A x \in Live' : arr'[x].buf = b => arr'[x].size < k
    BY DEF Stray
  <2>1. /\ k \in DOMAIN cell[b] /\ cell[b][k] # Raw
        /\ \A y \in G : arr[y].buf = b => arr[y].size < k
    BY <2>0 DEF HeapKept
  <2>2. ASSUME NEW y \in Live \ G, arr[y].buf = b PROVE arr[y].size < k
    <3>1. arr[y].buf # NoBuf
      BY <2>2 DEF DynamicArrayAssumption, NoBuf
    <3>2. PICK x \in Live' : arr'[x] = arr[y]
      BY <3>1 DEF Rewired
    <3> QED
      BY <2>0, <2>2, <3>2
  <2> QED
    BY <2>1, <2>2 DEF Stray
<1>11. \A x \in Live', y \in Live \ G : arr'[x] = arr[y] => Held(x)' = Held(y)
  BY <1>5 DEF Held, Slots
<1> QED
  BY <1>1, <1>6, <1>7, <1>8, <1>9, <1>10, <1>11 DEF IInv
-----------------------------------------------------------------------------
LEMMA HeapUnchanged ==
  ASSUME DynamicArrayAssumption, IInv, owned' = owned, cell' = cell
  PROVE  HeapKept({})
BY DEF HeapKept, IInv, TypeOK, BlanksBlank, Contents

(* A backend's destructor frees its buffers and no others.                   *)
LEMMA HeapFreed ==
  ASSUME DynamicArrayAssumption, IInv, NEW G, NEW c \in [Bufs \cup {NoBuf} -> Seq(Contents)],
         refs' \in [Mems -> Nat], owned' = Surviving(refs', owned), cell' = Storage(owned', c),
         \A b \in Bufs : (\A y \in G : arr[y].buf # b) => c[b] = cell[b],
         \A b \in Bufs : \A k \in DOMAIN c[b] : c[b][k] # Raw =>
           /\ k \in DOMAIN cell[b] /\ cell[b][k] # Raw
           /\ \A y \in G : arr[y].buf = b => arr[y].size < k
  PROVE  HeapKept(G)
<1> DEFINE D == Bufs \cup {NoBuf}
<1>1. owned \in [Mems -> SUBSET Bufs]
  BY DEF IInv, TypeOK
<1>2. /\ owned' \in [Mems -> SUBSET Bufs] /\ \A m \in Mems : owned'[m] \subseteq owned[m]
      /\ \A m \in Mems : refs'[m] # 0 => owned'[m] = owned[m]
  BY <1>1 DEF Surviving
<1>3. <<>> \in Seq(Contents) /\ Len(<<>>) = 0 /\ DOMAIN <<>> = {}
  BY EmptySeq
<1>4. cell' = [b \in D |-> IF \E m \in Mems : b \in owned'[m] THEN c[b] ELSE <<>>]
  BY DEF Storage
<1>5. cell' \in [D -> Seq(Contents)]
  BY <1>3, <1>4
<1>6. cell'[NoBuf] = <<>>
  BY <1>2, <1>4 DEF DynamicArrayAssumption, NoBuf
<1>7. ASSUME NEW m \in Mems, NEW b \in owned'[m], \A y \in G : arr[y].buf # b
      PROVE  cell'[b] = cell[b]
  BY <1>2, <1>4, <1>7
<1>8. ASSUME NEW b \in Bufs, NEW k \in DOMAIN cell'[b], cell'[b][k] # Raw
      PROVE  /\ k \in DOMAIN cell[b] /\ cell[b][k] # Raw
             /\ \A y \in G : arr[y].buf = b => arr[y].size < k
  <2>1. cell'[b] = c[b]
    BY <1>3, <1>4, <1>8
  <2> QED
    BY <1>8, <2>1
<1> QED
  BY <1>2, <1>5, <1>6, <1>7, <1>8 DEF HeapKept

LEMMA ReleaseHeap ==
  ASSUME DynamicArrayAssumption, IInv, NEW a \in Live, NEW from, NEW to,
         refs' \in [Mems -> Nat], Release(a, from, to)
  PROVE  HeapKept({a})
<1>0. InOrder(a)
  BY LiveTyped
<1> DEFINE D == Bufs \cup {NoBuf}
           buf == arr[a].buf
           t == DestroyRange(cell[buf], 1, arr[a].size)
           c == [cell EXCEPT ![buf] = t]
<1>1. owned' = Surviving(refs', owned) /\ cell' = Storage(owned', c)
  BY DEF Release
<1>2. cell \in [D -> Seq(Contents)] /\ buf \in D
  BY <1>0 DEF IInv, TypeOK, Contents, InOrder
<1>3. t \in Seq(Contents) /\ DOMAIN t = 1..arr[a].cap
  <2>1. t \in [1..arr[a].cap -> Contents] /\ arr[a].cap \in Nat
    BY <1>0 DEF InOrder, Slots, DestroyRange, Destroyed, Contents
  <2> HIDE DEF t
  <2> QED
    BY <2>1, FunctionIsSeq
<1>4. ASSUME NEW k \in 1..arr[a].cap, t[k] # Raw
      PROVE  k \in DOMAIN cell[buf] /\ cell[buf][k] # Raw /\ arr[a].size < k
  <2>1. k \in DOMAIN cell[buf] /\ arr[a].size \in Nat
    BY <1>0 DEF InOrder, Slots
  <2>2. t[k] = IF k <= arr[a].size THEN Raw ELSE cell[buf][k]
    BY <2>1 DEF DestroyRange, Destroyed
  <2> QED
    BY <1>4, <2>1, <2>2
<1> HIDE DEF D, t, buf
<1>5. c \in [D -> Seq(Contents)] /\ c[buf] = t /\ \A b \in D \ {buf} : c[b] = cell[b]
  BY <1>2, <1>3
<1> HIDE DEF c
<1>6. \A b \in Bufs : (\A y \in {a} : arr[y].buf # b) => c[b] = cell[b]
  BY <1>5 DEF D, buf
<1>7. ASSUME NEW b \in Bufs, NEW k \in DOMAIN c[b], c[b][k] # Raw
      PROVE  /\ k \in DOMAIN cell[b] /\ cell[b][k] # Raw
             /\ \A y \in {a} : arr[y].buf = b => arr[y].size < k
  <2>1. CASE b = buf
    BY <1>3, <1>4, <1>5, <1>7, <2>1
  <2>2. CASE b # buf
    BY <1>5, <1>7, <2>2 DEF D, buf
  <2> QED
    BY <2>1, <2>2
<1> QED
  BY <1>1, <1>5, <1>6, <1>7, HeapFreed DEF D

(* What an array that is moved to or from holds.                             *)
Moved(a, b) ==
  /\ Live' = Live \cup {a} /\ Held(a)' = Held(b) /\ Held(b)' = <<>>
  /\ \A x \in Arrays \ {a, b} : Held(x)' = Held(x)

LEMMA NothingHeld ==
  /\ \A a \in Arrays : arr[a].size = 0 => Held(a) = <<>>
  /\ \A a \in Arrays : (arr[a].size = 0)' => Held(a)' = <<>>
<1>1. \A s : SubSeq(s, 1, 0) = <<>>
  BY SubSeqEmpty
<1> QED
  BY <1>1 DEF Held

(* Everything else the arrays and iterators point to before and after.       *)
LEMMA Pointing ==
  ASSUME DynamicArrayAssumption, IInv
  PROVE  /\ arr \in [Arrays -> Shape] /\ iter \in [Iters -> Spot]
         /\ \A x \in Arrays : x \in Live <=> arr[x].mem # NoMem
         /\ \A x \in Arrays : x \notin Live => arr[x] = Absent
         /\ \A x \in Live : arr[x].mem \in Mems /\ arr[x].mem # NoMem
         /\ \A x, y \in Live : x # y /\ arr[x].buf = arr[y].buf => arr[x].buf = NoBuf
         /\ \A i \in Iters : iter[i].mem = NoMem => iter[i] = NoIter
         /\ \A i \in Iters : iter[i].buf # NoBuf =>
              iter[i].mem \in Mems /\ iter[i].buf \in owned[iter[i].mem]
<1>1. arr \in [Arrays -> Shape] /\ iter \in [Iters -> Spot]
  BY DEF IInv, TypeOK, Shape, Spot
<1>2. /\ \A x \in Arrays : x \in Live <=> arr[x].mem # NoMem
      /\ \A x \in Arrays : x \notin Live => arr[x] = Absent
      /\ \A x, y \in Live : x # y /\ arr[x].buf = arr[y].buf => arr[x].buf = NoBuf
      /\ \A i \in Iters : iter[i].mem = NoMem => iter[i] = NoIter
  BY DEF IInv, BlanksBlank, BuffersHeld, Live
<1>3. \A x \in Live : arr[x].mem \in Mems /\ arr[x].mem # NoMem
  BY LiveTyped DEF InOrder, Live
<1>4. ASSUME NEW i \in Iters, iter[i].buf # NoBuf
      PROVE  iter[i].mem \in Mems /\ iter[i].buf \in owned[iter[i].mem]
  BY <1>1, <1>2, <1>4 DEF IInv, BuffersHeld, NoIter, Spot
<1> QED
  BY <1>1, <1>2, <1>3, <1>4
-----------------------------------------------------------------------------
(* One array's use of its buffer ends: it is destroyed, or left vacant.      *)
LEMMA EndsRewired ==
  ASSUME DynamicArrayAssumption, IInv, NEW a \in Live, NEW r \in {Absent, Vacated(a)},
         arr' = [arr EXCEPT ![a] = r], iter' = iter, overlaid' = overlaid,
         RefsExact', refs' \in [Mems -> Nat]
  PROVE  /\ Rewired({a}) /\ Live' = IF r = Absent THEN Live \ {a} ELSE Live
         /\ \A x \in Arrays \ {a} : arr'[x] = arr[x]
         /\ arr'[a].size = 0
<1>0. /\ arr \in [Arrays -> Shape] /\ a \in Arrays /\ arr[a].mem \in Mems
      /\ iter \in [Iters -> Spot]
  BY Pointing DEF Live
<1>1. /\ r \in Shape /\ r.buf = NoBuf /\ r.size = 0 /\ r.cap = 0
      /\ r.mem = NoMem <=> r = Absent
  BY <1>0, Pointing DEF Absent, Vacated, Shape
<1> HIDE DEF Shape
<1>2. arr' \in [Arrays -> Shape] /\ arr'[a] = r /\ \A x \in Arrays \ {a} : arr'[x] = arr[x]
  BY <1>0, <1>1
<1>3. Live' = IF r = Absent THEN Live \ {a} ELSE Live
  BY <1>0, <1>1, <1>2, Pointing DEF Live
<1>4. \A x \in Arrays : arr'[x].mem = NoMem => arr'[x] = Absent
  BY <1>1, <1>2, Pointing
<1>5. \A x \in Live' : \/ arr'[x].buf = NoBuf /\ arr'[x].size = 0 /\ arr'[x].cap = 0
                       \/ \E y \in Live \ {a} : arr'[x] = arr[y]
  BY <1>1, <1>2, <1>3 DEF Live
<1>6. \A x, y \in Live' : x # y /\ arr'[x].buf = arr'[y].buf => arr'[x].buf = NoBuf
  <2>1. \A x \in Live' : x \in Live
    BY <1>3
  <2> QED
    BY <1>1, <1>2, <2>1, Pointing DEF Live
<1>7. \A y \in Live \ {a} : \E x \in Live' : arr'[x] = arr[y]
  BY <1>2, <1>3 DEF Live
<1>8. Rewired({a})
  BY <1>0, <1>2, <1>4, <1>5, <1>6, <1>7, Pointing DEF Rewired
<1> QED
  BY <1>1, <1>2, <1>3, <1>8

LEMMA DestroyKeeps ==
  ASSUME DynamicArrayAssumption, IInv, NEW a \in Arrays, Destroy(a)
  PROVE  /\ IInv' /\ Tidy /\ a \in Live /\ Live' = Live \ {a} /\ Held(a)' = <<>>
         /\ \A x \in Arrays \ {a} : Held(x)' = Held(x)
<1>1. /\ a \in Live /\ arr' = [arr EXCEPT ![a] = Absent] /\ Release(a, arr[a].mem, NoMem)
      /\ iter' = iter /\ overlaid' = overlaid /\ refs' = Rebind(arr[a].mem, NoMem)
  BY DEF Destroy, Release
<1>2. /\ arr' \in [Arrays -> Shape] /\ arr'[a] = Absent
      /\ \A x \in Arrays \ {a} : arr'[x] = arr[x]
  BY <1>1, Pointing DEF Absent, Shape
<1>3. RefsExact' /\ refs' \in [Mems -> Nat]
  BY <1>1, <1>2, ArrayRebound DEF IInv, Absent
<1>4. Rewired({a}) /\ Live' = Live \ {a} /\ arr'[a].size = 0
  BY <1>1, <1>3, EndsRewired
<1>5. HeapKept({a})
  BY <1>1, <1>3, ReleaseHeap
<1>6. /\ IInv' /\ Tidy
      /\ \A x \in Live', y \in Live \ {a} : arr'[x] = arr[y] => Held(x)' = Held(y)
  BY <1>1, <1>4, <1>5, RewiredKeeps
<1>7. ASSUME NEW x \in Arrays \ {a} PROVE Held(x)' = Held(x)
  <2>1. CASE x \in Live
    BY <1>2, <1>4, <1>6, <2>1
  <2>2. CASE x \notin Live
    <3>1. arr[x].size = 0 /\ (arr[x].size = 0)'
      BY <1>2, <2>2, Pointing DEF Absent
    <3> QED
      BY <3>1, NothingHeld
  <2> QED
    BY <2>1, <2>2
<1> QED
  BY <1>1, <1>4, <1>6, <1>7, NothingHeld

LEMMA ClearAndDeallocateBufferKeeps ==
  ASSUME DynamicArrayAssumption, IInv, NEW a \in Arrays, ClearAndDeallocateBuffer(a)
  PROVE  /\ IInv' /\ Tidy /\ a \in Live /\ Live' = Live /\ Held(a)' = <<>>
         /\ \A x \in Arrays \ {a} : Held(x)' = Held(x)
<1>1. /\ a \in Live /\ arr' = [arr EXCEPT ![a] = Vacated(a)] /\ Release(a, NoMem, NoMem)
      /\ iter' = iter /\ overlaid' = overlaid /\ refs' = Rebind(NoMem, NoMem)
  BY DEF ClearAndDeallocateBuffer, Release
<1>2. /\ arr \in [Arrays -> Shape] /\ arr[a].mem \in Mems /\ arr[a].mem # NoMem
      /\ Vacated(a) \in Shape /\ Vacated(a).mem = arr[a].mem /\ Vacated(a) # Absent
  BY <1>1, Pointing DEF Vacated, Absent, Shape
<1> HIDE DEF Shape
<1>3. /\ arr' \in [Arrays -> Shape] /\ arr'[a].mem = arr[a].mem
      /\ \A x \in Arrays \ {a} : arr'[x] = arr[x]
  BY <1>1, <1>2
<1>4. RefsExact' /\ refs' \in [Mems -> Nat]
  BY <1>1, <1>3, ArrayRebound DEF IInv
<1>5. Rewired({a}) /\ Live' = Live /\ arr'[a].size = 0
  BY <1>1, <1>2, <1>4, EndsRewired
<1>6. HeapKept({a})
  BY <1>1, <1>4, ReleaseHeap
<1>7. /\ IInv' /\ Tidy
      /\ \A x \in Live', y \in Live \ {a} : arr'[x] = arr[y] => Held(x)' = Held(y)
  BY <1>1, <1>5, <1>6, RewiredKeeps
<1>8. ASSUME NEW x \in Arrays \ {a} PROVE Held(x)' = Held(x)
  <2>1. CASE x \in Live
    BY <1>3, <1>5, <1>7, <2>1
  <2>2. CASE x \notin Live
    <3>1. arr[x].size = 0 /\ (arr[x].size = 0)'
      BY <1>3, <2>2, Pointing DEF Absent
    <3> QED
      BY <3>1, NothingHeld
  <2> QED
    BY <2>1, <2>2
<1> QED
  BY <1>1, <1>5, <1>7, <1>8, NothingHeld

(* Array b becomes array a and is left vacant: the two moves, with a outside *)
(* its lifetime or giving up what it had.                                    *)
LEMMA MovesRewired ==
  ASSUME DynamicArrayAssumption, IInv, NEW a \in Arrays, NEW b \in Live, a # b,
         arr' = [arr EXCEPT ![a] = arr[b], ![b] = Vacated(b)], iter' = iter,
         overlaid' = overlaid,
         \/ a \in Live /\ refs' = Rebind(arr[a].mem, arr[b].mem)
         \/ a \notin Live /\ refs' = Rebind(NoMem, arr[b].mem)
  PROVE  /\ Rewired({a} \cap Live) /\ Live' = Live \cup {a}
         /\ arr'[a] = arr[b] /\ arr'[b].size = 0
         /\ \A x \in Arrays \ {a, b} : arr'[x] = arr[x]
<1> DEFINE r == Vacated(b)
<1>0. /\ arr \in [Arrays -> Shape] /\ b \in Arrays /\ arr[b].mem \in Mems
      /\ arr[b].mem # NoMem /\ iter \in [Iters -> Spot]
  BY Pointing DEF Live
<1>1. /\ r \in Shape /\ r.buf = NoBuf /\ r.size = 0 /\ r.cap = 0 /\ r.mem = arr[b].mem
  BY <1>0 DEF Vacated, Shape
<1> HIDE DEF r, Shape
<1>2. /\ arr' \in [Arrays -> Shape] /\ arr'[a] = arr[b] /\ arr'[b] = r
      /\ \A x \in Arrays \ {a, b} : arr'[x] = arr[x]
  BY <1>0, <1>1 DEF r
<1>3. Live' = Live \cup {a}
  BY <1>0, <1>1, <1>2, Pointing DEF Live
<1>4. RefsExact' /\ refs' \in [Mems -> Nat]
  <2>1. \A x \in Arrays \ {a} : arr'[x].mem = arr[x].mem
    BY <1>1, <1>2
  <2>2. a \notin Live => arr[a].mem = NoMem
    BY Pointing
  <2> QED
    BY <1>2, <2>1, <2>2, ArrayRebound DEF IInv
<1>5. \A x \in Arrays : arr'[x].mem = NoMem => arr'[x] = Absent
  BY <1>0, <1>1, <1>2, Pointing
<1>6. \A x \in Live' : \/ arr'[x].buf = NoBuf /\ arr'[x].size = 0 /\ arr'[x].cap = 0
                       \/ \E y \in Live \ ({a} \cap Live) : arr'[x] = arr[y]
  <2> SUFFICES ASSUME NEW x \in Live', x # b
               PROVE  \E y \in Live \ ({a} \cap Live) : arr'[x] = arr[y]
    BY <1>1, <1>2
  <2>1. CASE x = a
    BY <1>2, <2>1
  <2>2. CASE x # a
    BY <1>2, <1>3, <2>2 DEF Live
  <2> QED
    BY <2>1, <2>2
<1>7. \A x, y \in Live' : x # y /\ arr'[x].buf = arr'[y].buf => arr'[x].buf = NoBuf
  <2>1. \A x, y \in Live : x # y /\ arr[x].buf = arr[y].buf => arr[x].buf = NoBuf
    BY Pointing
  <2>2. \A x \in Live' : x = a \/ x = b \/ (x \in Live /\ x \in Arrays \ {a, b})
    BY <1>3 DEF Live
  <2> QED
    BY <1>1, <1>2, <2>1, <2>2
<1>8. \A y \in Live \ ({a} \cap Live) : \E x \in Live' : arr'[x] = arr[y]
  <2> SUFFICES ASSUME NEW y \in Live, y # a PROVE \E x \in Live' : arr'[x] = arr[y]
    OBVIOUS
  <2>1. y \in Arrays
    BY DEF Live
  <2> QED
    BY <1>2, <1>3, <2>1
<1>9. Rewired({a} \cap Live)
  BY <1>0, <1>2, <1>4, <1>5, <1>6, <1>7, <1>8, Pointing DEF Rewired
<1> QED
  BY <1>1, <1>2, <1>3, <1>9

LEMMA MovesKeep ==
  ASSUME DynamicArrayAssumption, IInv, NEW a \in Arrays, NEW b \in Live, a # b,
         Rewired({a} \cap Live), HeapKept({a} \cap Live), Live' = Live \cup {a},
         arr'[a] = arr[b], arr'[b].size = 0,
         \A x \in Arrays \ {a, b} : arr'[x] = arr[x]
  PROVE  IInv' /\ Tidy /\ Moved(a, b)
<1> DEFINE G == {a} \cap Live
<1>1. G \subseteq Live /\ b \in Live \ G /\ \A x \in Live : x # a => x \in Live \ G
  OBVIOUS
<1>2. Rewired(G) /\ HeapKept(G)
  OBVIOUS
<1> HIDE DEF G
<1>3. /\ IInv' /\ Tidy
      /\ \A x \in Live', y \in Live \ G : arr'[x] = arr[y] => Held(x)' = Held(y)
  BY <1>1, <1>2, RewiredKeeps
<1>4. Held(a)' = Held(b)
  BY <1>1, <1>3
<1>5. Held(b)' = <<>>
  BY NothingHeld DEF Live
<1>6. ASSUME NEW x \in Arrays \ {a, b} PROVE Held(x)' = Held(x)
  <2>1. CASE x \in Live
    BY <1>1, <1>3, <2>1
  <2>2. CASE x \notin Live
    <3>1. arr[x].size = 0 /\ (arr[x].size = 0)'
      BY <2>2, Pointing DEF Absent
    <3> QED
      BY <3>1, NothingHeld
  <2> QED
    BY <2>1, <2>2
<1> QED
  BY <1>3, <1>4, <1>5, <1>6 DEF Moved

LEMMA MoveConstructKeeps ==
  ASSUME DynamicArrayAssumption, IInv, NEW a \in Arrays, NEW b \in Arrays, MoveConstruct(a, b)
  PROVE  IInv' /\ Tidy /\ a \notin Live /\ b \in Live /\ Moved(a, b)
<1>1. /\ a \notin Live /\ b \in Live /\ a # b /\ refs' = Rebind(NoMem, arr[b].mem)
      /\ arr' = [arr EXCEPT ![a] = arr[b], ![b] = Vacated(b)]
      /\ iter' = iter /\ owned' = owned /\ cell' = cell /\ overlaid' = overlaid
  BY DEF MoveConstruct
<1>2. HeapKept({a} \cap Live)
  <2>1. {a} \cap Live = {}
    BY <1>1
  <2> QED
    BY <1>1, <2>1, HeapUnchanged
<1>3. /\ Rewired({a} \cap Live) /\ Live' = Live \cup {a}
      /\ arr'[a] = arr[b] /\ arr'[b].size = 0
      /\ \A x \in Arrays \ {a, b} : arr'[x] = arr[x]
  BY <1>1, MovesRewired
<1> QED
  BY <1>1, <1>2, <1>3, MovesKeep

LEMMA MoveAssignKeeps ==
  ASSUME DynamicArrayAssumption, IInv, NEW a \in Arrays, NEW b \in Arrays, MoveAssign(a, b)
  PROVE  IInv' /\ Tidy /\ a \in Live /\ b \in Live /\ a # b /\ Moved(a, b)
<1>1. /\ a \in Live /\ b \in Live /\ a # b /\ refs' = Rebind(arr[a].mem, arr[b].mem)
      /\ arr' = [arr EXCEPT ![a] = arr[b], ![b] = Vacated(b)]
      /\ iter' = iter /\ overlaid' = overlaid /\ Release(a, arr[a].mem, arr[b].mem)
  BY DEF MoveAssign, Release
<1>2. /\ Rewired({a} \cap Live) /\ Live' = Live \cup {a}
      /\ arr'[a] = arr[b] /\ arr'[b].size = 0
      /\ \A x \in Arrays \ {a, b} : arr'[x] = arr[x]
  BY <1>1, MovesRewired
<1>3. HeapKept({a} \cap Live)
  <2>1. {a} \cap Live = {a} /\ refs' \in [Mems -> Nat]
    BY <1>1, <1>2 DEF Rewired
  <2> QED
    BY <1>1, <2>1, ReleaseHeap
<1> QED
  BY <1>1, <1>2, <1>3, MovesKeep
-----------------------------------------------------------------------------
(* An iterator begins or ends; no array changes.                             *)
Same == Live' = Live /\ \A x \in Arrays : Held(x)' = Held(x)

LEMMA IterKeeps ==
  ASSUME DynamicArrayAssumption, IInv, NEW i \in Iters, NEW r \in Spot,
         iter' = [iter EXCEPT ![i] = r], arr' = arr, overlaid' = overlaid,
         refs' = Rebind(iter[i].mem, r.mem), HeapKept({}),
         r.mem = NoMem => r = NoIter,
         r.buf # NoBuf => r.mem \in Mems /\ r.buf \in owned[r.mem]
  PROVE  IInv' /\ Tidy /\ Same
<1>1. /\ iter' \in [Iters -> Spot] /\ iter'[i] = r /\ \A j \in Iters \ {i} : iter'[j] = iter[j]
      /\ arr \in [Arrays -> Shape] /\ Live' = Live
  BY Pointing DEF Live
<1>2. RefsExact' /\ refs' \in [Mems -> Nat]
  BY <1>1, IterRebound DEF IInv
<1>3. \A j \in Iters : iter'[j].mem = NoMem => iter'[j] = NoIter
  BY <1>1, Pointing
<1>4. \A j \in Iters : iter'[j].buf # NoBuf =>
        iter'[j].mem \in Mems /\ iter'[j].buf \in owned[iter'[j].mem]
  BY <1>1, Pointing
<1>5. \A x \in Arrays : arr'[x].mem = NoMem => arr'[x] = Absent
  BY Pointing
<1>6. \A x, y \in Live' : x # y /\ arr'[x].buf = arr'[y].buf => arr'[x].buf = NoBuf
  BY <1>1, Pointing
<1>7. Rewired({})
  BY <1>1, <1>2, <1>3, <1>4, <1>5, <1>6 DEF Rewired
<1>8. /\ IInv' /\ Tidy
      /\ \A x \in Live', y \in Live \ {} : arr'[x] = arr[y] => Held(x)' = Held(y)
  BY <1>7, RewiredKeeps
<1>9. ASSUME NEW x \in Arrays PROVE Held(x)' = Held(x)
  <2>1. CASE x \in Live
    BY <1>1, <1>8, <2>1
  <2>2. CASE x \notin Live
    <3>1. arr[x].size = 0 /\ (arr[x].size = 0)'
      BY <2>2, Pointing DEF Absent
    <3> QED
      BY <3>1, NothingHeld
  <2> QED
    BY <2>1, <2>2
<1> QED
  BY <1>1, <1>8, <1>9 DEF Same

LEMMA BeginIterKeeps ==
  ASSUME DynamicArrayAssumption, IInv, NEW i \in Iters, NEW a \in Arrays, BeginIter(i, a)
  PROVE  IInv' /\ Tidy /\ Same
<1> DEFINE r == [mem |-> arr[a].mem, buf |-> arr[a].buf]
<1>1. a \in Live /\ iter' = [iter EXCEPT ![i] = r] /\ refs' = Rebind(NoMem, arr[a].mem)
      /\ iter[i].mem = NoMem
      /\ arr' = arr /\ owned' = owned /\ cell' = cell /\ overlaid' = overlaid
  BY DEF BeginIter, NoIter
<1>2. InOrder(a)
  BY <1>1, LiveTyped
<1>3. r \in Spot /\ r.mem = arr[a].mem /\ r.mem # NoMem
      /\ (r.buf # NoBuf => r.mem \in Mems /\ r.buf \in owned[r.mem])
  BY <1>1, <1>2, Pointing DEF InOrder, Spot
<1> HIDE DEF r
<1>4. HeapKept({})
  BY <1>1, HeapUnchanged
<1> QED
  BY <1>1, <1>3, <1>4, IterKeeps

LEMMA EndIterKeeps ==
  ASSUME DynamicArrayAssumption, IInv, NEW i \in Iters, EndIter(i)
  PROVE  IInv' /\ Tidy /\ Same
<1>1. /\ iter' = [iter EXCEPT ![i] = NoIter] /\ refs' = Rebind(iter[i].mem, NoMem)
      /\ owned' = Surviving(refs', owned) /\ cell' = Storage(owned', cell)
      /\ arr' = arr /\ overlaid' = overlaid
  BY DEF EndIter
<1>2. NoIter \in Spot /\ NoIter.mem = NoMem /\ NoIter.buf = NoBuf
  BY DEF NoIter, Spot
<1>3. iter'[i] = NoIter /\ iter' \in [Iters -> Spot] /\ \A j \in Iters \ {i} : iter'[j] = iter[j]
  BY <1>1, <1>2, Pointing
<1>4. refs' \in [Mems -> Nat]
  BY <1>1, <1>2, <1>3, IterRebound DEF IInv
<1>5. cell \in [Bufs \cup {NoBuf} -> Seq(Contents)]
  BY DEF IInv, TypeOK, Contents
<1>6. HeapKept({})
  BY <1>1, <1>4, <1>5, HeapFreed
<1> QED
  BY <1>1, <1>2, <1>6, IterKeeps
-----------------------------------------------------------------------------
(* Every step, as what it does to the sequences that the arrays hold.        *)
Element(a) ==
  /\ a \in Live
  /\ \/ \E n \in 0..MaxCapacity : ReserveTo(a, n) \/ Resize(a, n)
     \/ PopBack(a) \/ Clear(a)
     \/ \E v \in Values : EmplaceBack(a, v)
     \/ \E i \in 1..MaxCapacity, v \in Values : Insert(a, i, v)
     \/ \E j \in 1..MaxCapacity : EmplaceBackOwn(a, j)
     \/ \E i, j \in 1..MaxCapacity : InsertOwn(a, i, j)
     \/ \E first, last \in 1..MaxCapacity + 1 : EraseRange(a, first, last)

LEMMA ElementKeeps ==
  ASSUME DynamicArrayAssumption, IInv, NEW a \in Arrays, Element(a)
  PROVE  /\ IInv'
         /\ \/ Tidy
            \/ \E first, last \in 1..MaxCapacity + 1 :
                 EraseRange(a, first, last) /\ TidyBut(a, last..arr[a].size)
<1>0. a \in Live /\ MaxCapacity \in Nat
  BY DEF Element, DynamicArrayAssumption
<1>1. ASSUME NEW n \in 0..MaxCapacity, ReserveTo(a, n) PROVE \E t : Leaves(a, t)
  BY <1>0, <1>1, ReserveToLeaves
<1>2. ASSUME NEW n \in 0..MaxCapacity, Resize(a, n) PROVE \E t : Leaves(a, t)
  BY <1>0, <1>2, ResizeLeaves
<1>3. ASSUME PopBack(a) PROVE \E t : Leaves(a, t)
  BY <1>0, <1>3, PopBackLeaves
<1>4. ASSUME Clear(a) PROVE \E t : Leaves(a, t)
  BY <1>0, <1>4, ClearLeaves
<1>5. ASSUME NEW v \in Values, EmplaceBack(a, v) PROVE \E t : Leaves(a, t)
  <2>1. Leaves(a, With(Held(a), arr[a].size + 1, v))
    BY <1>0, <1>5, EmplaceBackLeaves
  <2> QED
    BY <2>1
<1>6. ASSUME NEW i \in 1..MaxCapacity, NEW v \in Values, Insert(a, i, v)
      PROVE  \E t : Leaves(a, t)
  <2>1. Leaves(a, With(Held(a), i, v))
    BY <1>0, <1>6, InsertLeaves
  <2> QED
    BY <2>1
<1>7. ASSUME NEW j \in 1..MaxCapacity, EmplaceBackOwn(a, j) PROVE \E t : Leaves(a, t)
  <2>1. PICK v \in Values : AddsOwn(a, arr[a].size + 1, j, v)
    BY <1>0, <1>7, EmplaceBackOwnLeaves
  <2> QED
    BY <2>1 DEF AddsOwn
<1>8. ASSUME NEW i \in 1..MaxCapacity, NEW j \in 1..MaxCapacity, InsertOwn(a, i, j)
      PROVE  \E t : Leaves(a, t)
  <2>1. PICK v \in Values : AddsOwn(a, i, j, v)
    BY <1>0, <1>8, InsertOwnLeaves
  <2> QED
    BY <2>1 DEF AddsOwn
<1>9. ASSUME NEW first \in 1..MaxCapacity + 1, NEW last \in 1..MaxCapacity + 1,
             EraseRange(a, first, last)
      PROVE  IInv' /\ TidyBut(a, last..arr[a].size)
  <2>1. LeavesBut(a, Without(Held(a), first, last), last..arr[a].size)
    BY <1>0, <1>9, EraseRangeLeaves
  <2> QED
    BY <1>0, <2>1, LeavesKeeps
<1>10. ASSUME \E t : Leaves(a, t) PROVE IInv' /\ Tidy
  <2>1. PICK t : LeavesBut(a, t, {})
    BY <1>10 DEF Leaves
  <2>2. IInv' /\ TidyBut(a, {})
    BY <1>0, <2>1, LeavesKeeps
  <2> QED
    BY <2>2 DEF Tidy, TidyBut
<1> QED
  BY <1>1, <1>2, <1>3, <1>4, <1>5, <1>6, <1>7, <1>8, <1>9, <1>10 DEF Element

LEMMA InitInv == DynamicArrayAssumption /\ Init => IInv
<1> SUFFICES ASSUME DynamicArrayAssumption, Init PROVE IInv
  OBVIOUS
<1>1. <<>> \in Seq(Values \cup {Raw, Hollow}) /\ DOMAIN <<>> = {}
  BY EmptySeq
<1>2. Live = {}
  BY DEF Init, Live, Absent
<1>3. TypeOK
  BY <1>1 DEF Init, TypeOK, Absent, NoIter, NoMem, NoBuf
<1>4. BlanksBlank
  BY DEF Init, BlanksBlank
<1>5. RefsExact
  <2> SUFFICES ASSUME NEW m \in Mems
               PROVE  refs[m] = Cardinality({a \in Arrays : arr[a].mem = m})
                                + Cardinality({i \in Iters : iter[i].mem = m})
    BY DEF RefsExact
  <2>1. m # NoMem
    BY DEF DynamicArrayAssumption, NoMem
  <2>2. {a \in Arrays : arr[a].mem = m} = {} /\ {i \in Iters : iter[i].mem = m} = {}
    BY <2>1 DEF Init, Absent, NoIter
  <2>3. refs[m] = 0
    BY DEF Init
  <2>4. Cardinality({}) = 0
    BY FS_EmptySet
  <2>5. /\ Cardinality({a \in Arrays : arr[a].mem = m}) = 0
        /\ Cardinality({i \in Iters : iter[i].mem = m}) = 0
    BY <2>2, <2>4, Zenon
  <2> QED
    BY <2>3, <2>5
<1>6. BuffersHeld
  BY <1>2 DEF Init, BuffersHeld, NoIter
<1>7. ElementsInPlace
  BY <1>2 DEF ElementsInPlace
<1> QED
  BY <1>3, <1>4, <1>5, <1>6, <1>7 DEF IInv

(* One step: an element operation on a living array, or one of the others.   *)
LEMMA StepCases ==
  ASSUME Next
  PROVE  \/ \E a \in Arrays :
              \/ Element(a)
              \/ Construct(a) \/ Destroy(a) \/ ClearAndDeallocateBuffer(a)
              \/ \E m \in Mems, n \in 0..MaxCapacity : ConstructN(a, m, n)
              \/ \E b \in Arrays : MoveConstruct(a, b) \/ MoveAssign(a, b)
              \/ \E b \in Arrays, m \in Mems : CopyConstruct(a, b, m)
         \/ \E i \in Iters : EndIter(i) \/ \E a \in Arrays : BeginIter(i, a)
<1>1. ASSUME NEW a \in Arrays,
             \/ \E n \in 0..MaxCapacity : ReserveTo(a, n) \/ Resize(a, n)
             \/ PopBack(a) \/ Clear(a)
             \/ \E v \in Values : EmplaceBack(a, v)
             \/ \E i \in 1..MaxCapacity, v \in Values : Insert(a, i, v)
             \/ \E j \in 1..MaxCapacity : EmplaceBackOwn(a, j)
             \/ \E i, j \in 1..MaxCapacity : InsertOwn(a, i, j)
             \/ \E first, last \in 1..MaxCapacity + 1 : EraseRange(a, first, last)
      PROVE  Element(a)
  <2>1. a \in Live
    BY <1>1 DEF ReserveTo, Resize, PopBack, Clear, EmplaceBack, Insert, EmplaceBackOwn,
                InsertOwn, EraseRange
  <2> QED
    BY <1>1, <2>1 DEF Element
<1>2. \/ \E a \in Arrays :
           \/ Construct(a) \/ Destroy(a) \/ ClearAndDeallocateBuffer(a)
           \/ PopBack(a) \/ Clear(a)
           \/ \E v \in Values : EmplaceBack(a, v)
           \/ \E i \in 1..MaxCapacity, v \in Values : Insert(a, i, v)
           \/ \E j \in 1..MaxCapacity : EmplaceBackOwn(a, j)
           \/ \E i, j \in 1..MaxCapacity : InsertOwn(a, i, j)
           \/ \E first, last \in 1..MaxCapacity + 1 : EraseRange(a, first, last)
           \/ \E n \in 0..MaxCapacity : ReserveTo(a, n) \/ Resize(a, n)
           \/ \E m \in Mems, n \in 0..MaxCapacity : ConstructN(a, m, n)
           \/ \E b \in Arrays : MoveConstruct(a, b) \/ MoveAssign(a, b)
           \/ \E b \in Arrays, m \in Mems : CopyConstruct(a, b, m)
      \/ \E i \in Iters : EndIter(i) \/ \E a \in Arrays : BeginIter(i, a)
  BY DEF Next
<1> QED
  BY <1>1, <1>2, Zenon

(* A step keeps the invariant, and strands nothing unless it is an erase.    *)
LEMMA NextKeeps ==
  ASSUME DynamicArrayAssumption, IInv, Next
  PROVE  /\ IInv'
         /\ \/ Tidy
            \/ \E a \in Live : \E first, last \in 1..MaxCapacity + 1 :
                 EraseRange(a, first, last) /\ TidyBut(a, last..arr[a].size)
<1> DEFINE Strands ==
      \E a \in Live : \E first, last \in 1..MaxCapacity + 1 :
        EraseRange(a, first, last) /\ TidyBut(a, last..arr[a].size)
<1>1. ASSUME NEW a \in Arrays, Element(a) PROVE IInv' /\ (Tidy \/ Strands)
  <2>1. a \in Live
    BY <1>1 DEF Element
  <2> QED
    BY <1>1, <2>1, ElementKeeps
<1>2. ASSUME NEW a \in Arrays, Construct(a) PROVE IInv' /\ Tidy
  BY <1>2, ConstructKeeps
<1>3. ASSUME NEW a \in Arrays, Destroy(a) PROVE IInv' /\ Tidy
  BY <1>3, DestroyKeeps
<1>4. ASSUME NEW a \in Arrays, ClearAndDeallocateBuffer(a) PROVE IInv' /\ Tidy
  BY <1>4, ClearAndDeallocateBufferKeeps
<1>5. ASSUME NEW a \in Arrays, NEW m \in Mems, NEW n \in 0..MaxCapacity, ConstructN(a, m, n)
      PROVE  IInv' /\ Tidy
  <2>1. n \in Nat
    BY DEF DynamicArrayAssumption
  <2> QED
    BY <1>5, <2>1, ConstructNKeeps
<1>6. ASSUME NEW a \in Arrays, NEW b \in Arrays, MoveConstruct(a, b) PROVE IInv' /\ Tidy
  BY <1>6, MoveConstructKeeps
<1>7. ASSUME NEW a \in Arrays, NEW b \in Arrays, MoveAssign(a, b) PROVE IInv' /\ Tidy
  BY <1>7, MoveAssignKeeps
<1>8. ASSUME NEW a \in Arrays, NEW b \in Arrays, NEW m \in Mems, CopyConstruct(a, b, m)
      PROVE  IInv' /\ Tidy
  BY <1>8, CopyConstructKeeps
<1>9. ASSUME NEW i \in Iters, EndIter(i) PROVE IInv' /\ Tidy
  BY <1>9, EndIterKeeps
<1>10. ASSUME NEW i \in Iters, NEW a \in Arrays, BeginIter(i, a) PROVE IInv' /\ Tidy
  BY <1>10, BeginIterKeeps
<1> HIDE DEF Strands
<1>11. IInv' /\ (Tidy \/ Strands)
  BY <1>1, <1>2, <1>3, <1>4, <1>5, <1>6, <1>7, <1>8, <1>9, <1>10, StepCases, Zenon
<1> QED
  BY <1>11 DEF Strands

LEMMA StepInv == DynamicArrayAssumption /\ IInv /\ [Next]_vars => IInv'
<1> SUFFICES ASSUME DynamicArrayAssumption, IInv, [Next]_vars PROVE IInv'
  OBVIOUS
<1>1. CASE Next
  BY <1>1, NextKeeps
<1>2. CASE UNCHANGED vars
  <2>1. /\ arr' = arr /\ iter' = iter /\ refs' = refs /\ owned' = owned /\ cell' = cell
        /\ overlaid' = overlaid
    BY <1>2 DEF vars
  <2>2. TypeOK' /\ BlanksBlank'
    BY <2>1 DEF IInv, TypeOK, BlanksBlank
  <2>3. RefsExact'
    BY <2>1 DEF IInv, RefsExact
  <2>4. BuffersHeld' /\ ElementsInPlace'
    BY <2>1 DEF IInv, BuffersHeld, ElementsInPlace, Live, Slots
  <2> QED
    BY <2>2, <2>3, <2>4 DEF IInv
<1> QED
  BY <1>1, <1>2

(* The inductive invariant holds in every state of the array.                *)
THEOREM Safety == Spec => []IInv
<1>1. Init => IInv
  BY InitInv, DynamicArrayAssumption
<1>2. IInv /\ [Next]_vars => IInv'
  BY StepInv, DynamicArrayAssumption
<1> QED
  BY <1>1, <1>2, PTL DEF Spec

(* Every variable keeps its type.                                            *)
THEOREM TypeCorrect == Spec => []TypeOK
<1>1. IInv => TypeOK
  BY DEF IInv
<1> QED
  BY <1>1, Safety, PTL

(* A backend's count is the number of arrays and iterators pointing to it,   *)
(* for any number of them and every order of moves, assignments and          *)
(* destructors.                                                              *)
THEOREM CountsMatch == Spec => []RefsExact
<1>1. IInv => RefsExact
  BY DEF IInv
<1> QED
  BY <1>1, Safety, PTL

(* No array or iterator points into freed memory, and no two arrays share a  *)
(* buffer.                                                                   *)
THEOREM NothingDangles == Spec => []BuffersHeld
<1>1. IInv => BuffersHeld
  BY DEF IInv
<1> QED
  BY <1>1, Safety, PTL

(* Every position below size holds a constructed, not moved-from element.    *)
THEOREM ElementsStay == Spec => []ElementsInPlace
<1>1. IInv => ElementsInPlace
  BY DEF IInv
<1> QED
  BY <1>1, Safety, PTL

(* No call but erase leaves an object that no array would destroy, and what  *)
(* erase leaves is moved from.                                               *)
THEOREM NothingLeaks == Spec => NothingStranded
<1> DEFINE Strands ==
      \A b \in Bufs : \A k \in DOMAIN cell'[b] :
        Stray(b, k)' =>
          \/ Stray(b, k)
          \/ \E a \in Live : \E first, last \in 1..MaxCapacity + 1 :
               /\ EraseRange(a, first, last) /\ arr[a].buf = b
               /\ k \in last..arr[a].size /\ cell'[b][k] = Remains(cell[b][k])
<1>1. IInv /\ [Next]_vars => [Strands]_vars
  <2> SUFFICES ASSUME IInv, Next PROVE Strands
    OBVIOUS
  <2>1. \/ Tidy
        \/ \E a \in Live : \E first, last \in 1..MaxCapacity + 1 :
             EraseRange(a, first, last) /\ TidyBut(a, last..arr[a].size)
    BY NextKeeps, DynamicArrayAssumption
  <2>2. CASE Tidy
    BY <2>2 DEF Tidy
  <2>3. ASSUME NEW a \in Live, NEW first \in 1..MaxCapacity + 1, NEW last \in 1..MaxCapacity + 1,
               EraseRange(a, first, last), TidyBut(a, last..arr[a].size)
        PROVE  Strands
    BY <2>3, Zenon DEF TidyBut
  <2> QED
    BY <2>1, <2>2, <2>3
<1>2. Spec => [][Strands]_vars
  <2> HIDE DEF Strands
  <2> QED
    BY <1>1, Safety, PTL DEF Spec
<1> QED
  BY <1>2, Zenon DEF NothingStranded
-----------------------------------------------------------------------------
(* The array is a vector.  What the operations leave is what std::vector's   *)
(* leave, as VectorSpec writes it.                                           *)
LEMMA SameSequence ==
  ASSUME NEW S, NEW s \in Seq(S), NEW t \in Seq(S), NEW n \in Nat, Len(s) = n, Len(t) = n,
         \A k \in 1..n : s[k] = t[k]
  PROVE  s = t
BY SeqEqual

LEMMA EmptyIs ==
  ASSUME NEW S, NEW s \in Seq(S), Len(s) = 0
  PROVE  s = <<>>
BY EmptySeq

LEMMA WithAppended ==
  ASSUME DynamicArrayAssumption, NEW q \in Seq(Values), NEW v \in Values
  PROVE  With(q, Len(q) + 1, v) = Append(q, v)
<1> DEFINE n == Len(q) + 1
           w == With(q, n, v)
           x == Append(q, v)
<1>1. Len(q) \in Nat /\ n \in 1..Len(q) + 1 /\ n \in Nat
  BY LenProperties
<1> HIDE DEF n
<1>2. /\ w \in Seq(Values) /\ Len(w) = Len(q) + 1
      /\ \A k \in 1..Len(q) + 1 : w[k] = IF k < n THEN q[k] ELSE IF k = n THEN v ELSE q[k - 1]
  BY <1>1, SpelledOut
<1>3. /\ x \in Seq(Values) /\ Len(x) = Len(q) + 1
      /\ \A k \in 1..Len(q) : x[k] = q[k]
      /\ x[Len(q) + 1] = v
  BY AppendProperties
<1> HIDE DEF w, x
<1>4. \A k \in 1..n : w[k] = x[k]
  BY <1>1, <1>2, <1>3 DEF n
<1>5. w = x
  BY <1>1, <1>2, <1>3, <1>4, SameSequence DEF n
<1> QED
  BY <1>5 DEF w, x, n

(* w is q with value v put in at position i.                                 *)
HasPutIn(w, q, i, v) ==
  /\ w \in Seq(Values) /\ Len(w) = Len(q) + 1
  /\ \A k \in 1..Len(q) + 1 : w[k] = IF k < i THEN q[k] ELSE IF k = i THEN v ELSE q[k - 1]

LEMMA WithPutsIn ==
  ASSUME DynamicArrayAssumption, NEW q \in Seq(Values), NEW v \in Values, NEW i \in 1..Len(q) + 1
  PROVE  HasPutIn(With(q, i, v), q, i, v)
<1>1. \A j \in 1..Len(q) + 1, u \in Values :
        /\ With(q, j, u) \in Seq(Values) /\ Len(With(q, j, u)) = Len(q) + 1
        /\ \A k \in 1..Len(q) + 1 :
             With(q, j, u)[k] = IF k < j THEN q[k] ELSE IF k = j THEN u ELSE q[k - 1]
  BY SpelledOut
<1> QED
  BY <1>1 DEF HasPutIn

LEMMA WithInserted ==
  ASSUME DynamicArrayAssumption, NEW q \in Seq(Values), NEW v \in Values, NEW i \in 1..Len(q) + 1
  PROVE  With(q, i, v) = Vec!InsertAt(q, i, v)
<1>0. HasPutIn(With(q, i, v), q, i, v)
  BY WithPutsIn
<1> DEFINE L == Len(q)
           w == With(q, i, v)
           head == SubSeq(q, 1, i - 1)
           tail == SubSeq(q, i, L)
           one == <<v>>
           x == head \o one
           y == x \o tail
<1>1. L \in Nat /\ i \in Nat /\ 1 <= i /\ i <= L + 1 /\ \A k \in 1..L : q[k] \in Values
  BY LenProperties, ElementOfSeq
<1>2. /\ w \in Seq(Values) /\ Len(w) = L + 1
      /\ \A k \in 1..L + 1 : w[k] = IF k < i THEN q[k] ELSE IF k = i THEN v ELSE q[k - 1]
  BY <1>0 DEF HasPutIn
<1>3. Vec!InsertAt(q, i, v) = y
  BY DEF Vec!InsertAt
<1>4. one \in Seq(Values) /\ Len(one) = 1 /\ one[1] = v
  OBVIOUS
<1> HIDE DEF L, one
<1>5. /\ head \in Seq(Values) /\ Len(head) = i - 1
      /\ \A k \in 1..i - 1 : head[k] = q[k]
  <2> DEFINE m == i - 1
  <2>1. m \in Int /\ 1 \in Int /\ \A k \in 1..m : q[k] \in Values
    BY <1>1
  <2> HIDE DEF m
  <2>2. /\ SubSeq(q, 1, m) \in Seq(Values)
        /\ Len(SubSeq(q, 1, m)) = IF 1 <= m THEN m - 1 + 1 ELSE 0
        /\ \A k \in 1..m - 1 + 1 : SubSeq(q, 1, m)[k] = q[1 + k - 1]
    BY <2>1, SubSeqProperties
  <2>3. m \in Nat
    BY <1>1 DEF m
  <2>4. Len(SubSeq(q, 1, m)) = m /\ \A k \in 1..m : SubSeq(q, 1, m)[k] = q[k]
    BY <2>2, <2>3
  <2> QED
    BY <2>2, <2>4 DEF m
<1>6. /\ tail \in Seq(Values) /\ Len(tail) = L - i + 1
      /\ \A k \in 1..L - i + 1 : tail[k] = q[i + k - 1]
  <2>1. i \in Int /\ L \in Int /\ \A k \in i..L : q[k] \in Values
    BY <1>1
  <2>2. /\ tail \in Seq(Values) /\ Len(tail) = IF i <= L THEN L - i + 1 ELSE 0
        /\ \A k \in 1..L - i + 1 : tail[k] = q[i + k - 1]
    BY <2>1, SubSeqProperties
  <2> QED
    BY <1>1, <2>2
<1> HIDE DEF head, tail
<1>7. /\ x \in Seq(Values) /\ Len(x) = Len(head) + Len(one)
      /\ \A k \in 1..Len(head) + Len(one) :
           x[k] = IF k <= Len(head) THEN head[k] ELSE one[k - Len(head)]
  <2>1. head \in Seq(Values) /\ one \in Seq(Values)
    BY <1>4, <1>5
  <2> QED
    BY <2>1, ConcatProperties
<1> HIDE DEF x
<1>8. Len(x) = i /\ (\A k \in 1..i - 1 : x[k] = q[k]) /\ x[i] = v
  BY <1>1, <1>4, <1>5, <1>7
<1>9. /\ y \in Seq(Values) /\ Len(y) = Len(x) + Len(tail)
      /\ \A k \in 1..Len(x) + Len(tail) :
           y[k] = IF k <= Len(x) THEN x[k] ELSE tail[k - Len(x)]
  BY <1>6, <1>7, ConcatProperties
<1> HIDE DEF y, w
<1>10. Len(y) = L + 1 /\ \A k \in 1..L + 1 : y[k] = IF k <= i THEN x[k] ELSE tail[k - i]
  BY <1>1, <1>6, <1>8, <1>9
<1>11. ASSUME NEW k \in 1..L + 1 PROVE w[k] = y[k]
  <2>1. CASE k < i
    BY <1>1, <1>2, <1>8, <1>10, <2>1
  <2>2. CASE k = i
    BY <1>1, <1>2, <1>8, <1>10, <2>2
  <2>3. CASE k > i
    <3>1. k - i \in 1..L - i + 1 /\ i + (k - i) - 1 = k - 1 /\ ~(k <= i) /\ ~(k < i) /\ k # i
      BY <1>1, <2>3
    <3>2. y[k] = tail[k - i] /\ w[k] = q[k - 1]
      BY <1>2, <1>10, <3>1
    <3> QED
      BY <1>6, <3>1, <3>2
  <2> QED
    BY <1>1, <2>1, <2>2, <2>3
<1>12. w = y
  <2> DEFINE n == L + 1
  <2>1. n \in Nat /\ Len(w) = n /\ Len(y) = n /\ \A k \in 1..n : w[k] = y[k]
    BY <1>1, <1>2, <1>10, <1>11
  <2> HIDE DEF n
  <2> QED
    BY <1>2, <1>9, <2>1, SameSequence
<1> QED
  BY <1>3, <1>12 DEF w

LEMMA WithoutRemoved ==
  ASSUME DynamicArrayAssumption, NEW q \in Seq(Values),
         NEW first \in 1..Len(q) + 1, NEW last \in first..Len(q) + 1
  PROVE  Without(q, first, last) = SubSeq(q, 1, first - 1) \o SubSeq(q, last, Len(q))
<1> DEFINE L == Len(q)
           w == Without(q, first, last)
           head == SubSeq(q, 1, first - 1)
           tail == SubSeq(q, last, L)
           y == head \o tail
<1>1. /\ L \in Nat /\ first \in Nat /\ last \in Nat /\ 1 <= first /\ first <= last /\ last <= L + 1
      /\ \A k \in 1..L : q[k] \in Values
  BY LenProperties, ElementOfSeq
<1>2. /\ w \in Seq(Values) /\ Len(w) = L - (last - first)
      /\ \A k \in 1..L - (last - first) :
           w[k] = IF k < first THEN q[k] ELSE q[k + (last - first)]
  <2>1. last \in 1..Len(q) + 1 /\ first <= last
    BY <1>1
  <2> QED
    BY <2>1, SpelledOut
<1> HIDE DEF L
<1>3. /\ head \in Seq(Values) /\ Len(head) = first - 1
      /\ \A k \in 1..first - 1 : head[k] = q[k]
  <2> DEFINE m == first - 1
  <2>1. m \in Int /\ 1 \in Int /\ \A k \in 1..m : q[k] \in Values
    BY <1>1
  <2> HIDE DEF m
  <2>2. /\ SubSeq(q, 1, m) \in Seq(Values)
        /\ Len(SubSeq(q, 1, m)) = IF 1 <= m THEN m - 1 + 1 ELSE 0
        /\ \A k \in 1..m - 1 + 1 : SubSeq(q, 1, m)[k] = q[1 + k - 1]
    BY <2>1, SubSeqProperties
  <2>3. m \in Nat
    BY <1>1 DEF m
  <2>4. Len(SubSeq(q, 1, m)) = m /\ \A k \in 1..m : SubSeq(q, 1, m)[k] = q[k]
    BY <2>2, <2>3
  <2> QED
    BY <2>2, <2>4 DEF m
<1>4. /\ tail \in Seq(Values) /\ Len(tail) = L - last + 1
      /\ \A k \in 1..L - last + 1 : tail[k] = q[last + k - 1]
  <2>1. last \in Int /\ L \in Int /\ \A k \in last..L : q[k] \in Values
    BY <1>1
  <2>2. /\ tail \in Seq(Values) /\ Len(tail) = IF last <= L THEN L - last + 1 ELSE 0
        /\ \A k \in 1..L - last + 1 : tail[k] = q[last + k - 1]
    BY <2>1, SubSeqProperties
  <2> QED
    BY <1>1, <2>2
<1> HIDE DEF head, tail
<1>5. /\ y \in Seq(Values) /\ Len(y) = Len(head) + Len(tail)
      /\ \A k \in 1..Len(head) + Len(tail) :
           y[k] = IF k <= Len(head) THEN head[k] ELSE tail[k - Len(head)]
  BY <1>3, <1>4, ConcatProperties, SMTT(30)
<1> HIDE DEF y, w
<1>6. L - (last - first) \in Nat /\ Len(head) + Len(tail) = L - (last - first)
  BY <1>1, <1>3, <1>4, SMTT(30)
<1>7. ASSUME NEW k \in 1..L - (last - first) PROVE w[k] = y[k]
  <2>1. CASE k < first
    <3>1. k \in 1..first - 1 /\ k <= Len(head)
      BY <1>1, <1>3, <2>1
    <3> QED
      BY <1>2, <1>3, <1>5, <1>6, <2>1, <3>1
  <2>2. CASE k >= first
    <3>1. /\ k - (first - 1) \in 1..L - last + 1 /\ ~(k < first) /\ ~(k <= Len(head))
          /\ last + (k - (first - 1)) - 1 = k + (last - first)
      BY <1>1, <1>3, <2>2
    <3>2. y[k] = tail[k - (first - 1)] /\ w[k] = q[k + (last - first)]
      BY <1>2, <1>3, <1>5, <1>6, <3>1
    <3> QED
      BY <1>4, <3>1, <3>2
  <2> QED
    BY <1>1, <2>1, <2>2
<1>8. w = y
  BY <1>2, <1>5, <1>6, <1>7, SameSequence, SMTT(30)
<1> QED
  BY <1>8 DEF w, y, head, tail, L

LEMMA WithoutCut ==
  ASSUME DynamicArrayAssumption, NEW q \in Seq(Values)
  PROVE  /\ Without(q, 1, Len(q) + 1) = <<>>
         /\ q # <<>> => Without(q, Len(q), Len(q) + 1) = Vec!Front(q)
<1> DEFINE L == Len(q)
<1>1. L \in Nat /\ \A k \in 1..L : q[k] \in Values
  BY LenProperties, ElementOfSeq
<1>2. Without(q, 1, L + 1) = <<>>
  <2> DEFINE first == 1
             last == L + 1
  <2>1. first \in 1..Len(q) + 1 /\ last \in 1..Len(q) + 1 /\ first <= last /\ L - (last - first) = 0
    BY <1>1
  <2> HIDE DEF first, last
  <2>2. /\ Without(q, first, last) \in Seq(Values)
        /\ Len(Without(q, first, last)) = L - (last - first)
    BY <2>1, SpelledOut
  <2>3. Without(q, first, last) = <<>>
    BY <2>1, <2>2, EmptyIs
  <2> QED
    BY <2>3 DEF first, last
<1>3. ASSUME q # <<>> PROVE Without(q, L, L + 1) = Vec!Front(q)
  <2> DEFINE last == L + 1
             n == L - 1
             w == Without(q, L, last)
             x == SubSeq(q, 1, n)
  <2>1. L # 0
    BY <1>3, EmptyIs
  <2>2. L \in 1..Len(q) + 1 /\ last \in 1..Len(q) + 1 /\ L <= last /\ n \in Nat
    BY <1>1, <2>1
  <2>3. n = L - (last - L)
    BY <1>1
  <2> HIDE DEF last
  <2>4. /\ w \in Seq(Values) /\ Len(w) = L - (last - L)
        /\ \A k \in 1..L - (last - L) : w[k] = IF k < L THEN q[k] ELSE q[k + (last - L)]
    <3> HIDE DEF n
    <3>1. L \in 1..Len(q) + 1 /\ q \in Seq(Values)
      BY <2>2
    <3> DEFINE first == L
    <3>2. first \in 1..Len(q) + 1 /\ first <= last
      BY <2>2
    <3> HIDE DEF first
    <3>3. /\ Without(q, first, last) \in Seq(Values)
          /\ Len(Without(q, first, last)) = Len(q) - (last - first)
          /\ \A k \in 1..Len(q) - (last - first) :
               Without(q, first, last)[k] = IF k < first THEN q[k] ELSE q[k + (last - first)]
      BY <2>2, <3>2, SpelledOut
    <3> QED
      BY <3>3 DEF first
  <2> HIDE DEF w
  <2>5. Len(w) = n /\ \A k \in 1..n : w[k] = q[k]
    BY <1>1, <2>2, <2>3, <2>4
  <2>6. SubSeq(q, 1, Len(w)) = w
    BY <2>4, <2>5, Prefix
  <2>7. x = w
    BY <2>5, <2>6
  <2>8. Vec!Front(q) = x
    BY DEF Vec!Front
  <2> QED
    BY <2>7, <2>8 DEF w, last
<1> QED
  BY <1>2, <1>3
-----------------------------------------------------------------------------
(* What every array holds; content in VectorSpec.                            *)
Content == [a \in Arrays |-> Held(a)]

LEMMA VecHolds ==
  ASSUME NEW a \in Arrays, NEW t, Held(a)' = t, \A x \in Arrays \ {a} : Held(x)' = Held(x)
  PROVE  Vec!Holds(a, t)
<1>1. Content' = [x \in Arrays |-> Held(x)']
  BY DEF Content
<1>2. Content' = [Content EXCEPT ![a] = t]
  BY <1>1 DEF Content
<1> QED
  BY <1>2 DEF Vec!Holds, Content, Held

LEMMA VecContent == \A a \in Arrays : Content[a] = Held(a)
BY DEF Content

LEMMA LeavesButBecomes ==
  ASSUME DynamicArrayAssumption, IInv, NEW a \in Live, NEW t, NEW L, LeavesBut(a, t, L)
  PROVE  /\ Vec!Becomes(a, t) /\ Live' = Live /\ Held(a)' = t
         /\ \A x \in Arrays \ {a} : Held(x)' = Held(x)
<1>1. PICK h, s, lost : Spells(a, h, s, t, L, lost)
  BY DEF LeavesBut
<1>2. /\ Grew(a, h) /\ Commit(a, h, s, Len(t), lost) /\ s \in Seq(Contents)
      /\ Len(s) = h.arr[a].cap /\ Bears(s, t, Above(a, h) \cup L)
  BY <1>1 DEF Spells, Bears
<1>3. t \in Seq(Values) /\ Len(t) \in Nat /\ Len(t) <= Len(s) /\ \A k \in 1..Len(t) : s[k] = t[k]
  BY <1>2, LenProperties DEF Bears
<1>4. Committed(a, h, s, Len(t))
  BY <1>2, <1>3, CommitChanges
<1>5. /\ a \in Arrays /\ arr'[a].size = Len(t) /\ arr'[a].mem = arr[a].mem
      /\ cell'[arr'[a].buf] = s /\ \A b \in Arrays \ {a} : arr'[b] = arr[b]
      /\ \A b \in Live \ {a} : cell'[arr[b].buf] = cell[arr[b].buf]
  BY <1>4 DEF Committed, Live
<1>6. Live' = Live
  BY <1>5 DEF Live
<1>7. Held(a)' = t
  <2>1. Held(a)' = SubSeq(s, 1, Len(t))
    BY <1>5 DEF Held, Slots
  <2> QED
    BY <1>3, <2>1, Prefix
<1>8. ASSUME NEW x \in Arrays \ {a} PROVE Held(x)' = Held(x)
  <2>1. CASE x \in Live
    BY <1>5, <2>1 DEF Held, Slots
  <2>2. CASE x \notin Live
    <3>1. arr[x].size = 0 /\ (arr[x].size = 0)'
      BY <1>5, <2>2, Pointing DEF Absent
    <3> QED
      BY <3>1, NothingHeld
  <2> QED
    BY <2>1, <2>2
<1>9. Vec!Holds(a, t)
  BY <1>5, <1>7, <1>8, VecHolds
<1> QED
  BY <1>6, <1>7, <1>8, <1>9 DEF Vec!Becomes

LEMMA LeavesBecomes ==
  ASSUME DynamicArrayAssumption, IInv, NEW a \in Live, NEW t, Leaves(a, t)
  PROVE  /\ Vec!Becomes(a, t) /\ Live' = Live /\ Held(a)' = t
         /\ \A x \in Arrays \ {a} : Held(x)' = Held(x)
BY LeavesButBecomes DEF Leaves

(* Each element operation, against the vector's with the same arguments.     *)
LEMMA HeldIs ==
  ASSUME DynamicArrayAssumption, IInv, NEW a \in Live
  PROVE  /\ Held(a) \in Seq(Values) /\ Len(Held(a)) = arr[a].size /\ arr[a].size \in Nat
         /\ [x \in Arrays |-> SubSeq(Slots(x), 1, arr[x].size)][a] = Held(a)
         /\ \A k \in 1..arr[a].size : Slots(a)[k] \in Values
<1>1. a \in Arrays
  BY DEF Live
<1> QED
  BY <1>1, HeldTyped, LiveTyped DEF Held, InOrder

LEMMA PushBackMatches ==
  ASSUME DynamicArrayAssumption, IInv, NEW a \in Live, NEW v \in Values,
         Leaves(a, With(Held(a), arr[a].size + 1, v))
  PROVE  Vec!PushBack(a, v)
<1>1. With(Held(a), arr[a].size + 1, v) = Append(Held(a), v)
  BY HeldIs, WithAppended
<1>2. Vec!Becomes(a, Append(Held(a), v))
  BY <1>1, LeavesBecomes
<1> QED
  BY <1>2, HeldIs DEF Vec!PushBack

LEMMA PushBackOwnMatches ==
  ASSUME DynamicArrayAssumption, IInv, NEW a \in Live, NEW j \in Nat, EmplaceBackOwn(a, j)
  PROVE  \E v \in Values : Vec!PushBack(a, v) /\ (arr[a].size < arr[a].cap => v = Slots(a)[j])
<1>1. j \in 1..arr[a].size /\ \E v \in Values : AddsOwn(a, arr[a].size + 1, j, v)
  BY EmplaceBackOwnLeaves
<1>2. PICK v \in Values : AddsOwn(a, arr[a].size + 1, j, v)
  BY <1>1
<1>3. arr[a].size \in Nat /\ j < arr[a].size + 1
  BY <1>1, LiveTyped DEF InOrder
<1>4. Vec!PushBack(a, v)
  BY <1>2, PushBackMatches DEF AddsOwn
<1> QED
  BY <1>2, <1>3, <1>4 DEF AddsOwn

LEMMA InsertMatches ==
  ASSUME DynamicArrayAssumption, IInv, NEW a \in Live, NEW v \in Values,
         NEW i \in 1..arr[a].size + 1, Leaves(a, With(Held(a), i, v))
  PROVE  Vec!Insert(a, i, v)
<1>1. With(Held(a), i, v) = Vec!InsertAt(Held(a), i, v) /\ i \in 1..Len(Held(a)) + 1
  BY HeldIs, WithInserted
<1>2. Vec!Becomes(a, Vec!InsertAt(Held(a), i, v))
  BY <1>1, LeavesBecomes
<1> QED
  BY <1>1, <1>2, HeldIs DEF Vec!Insert

LEMMA InsertOwnMatchesSome ==
  ASSUME DynamicArrayAssumption, IInv, NEW a \in Live, NEW i \in Nat, NEW j \in Nat,
         InsertOwn(a, i, j)
  PROVE  \E v \in Values : /\ Vec!Insert(a, i, v)
                           /\ arr[a].size < arr[a].cap /\ j < i => v = Slots(a)[j]
<1>1. i \in 1..arr[a].size + 1 /\ \E v \in Values : AddsOwn(a, i, j, v)
  BY InsertOwnLeaves
<1>2. PICK v \in Values : AddsOwn(a, i, j, v)
  BY <1>1
<1>3. Vec!Insert(a, i, v)
  BY <1>1, <1>2, InsertMatches DEF AddsOwn
<1> QED
  BY <1>2, <1>3 DEF AddsOwn

LEMMA PopBackMatches ==
  ASSUME DynamicArrayAssumption, IInv, NEW a \in Live, PopBack(a)
  PROVE  Vec!PopBack(a)
<1>1. Held(a) \in Seq(Values) /\ Len(Held(a)) = arr[a].size /\ arr[a].size > 0
  BY HeldIs DEF PopBack
<1>2. Held(a) # <<>>
  BY <1>1, EmptySeq
<1>3. Without(Held(a), arr[a].size, arr[a].size + 1) = Vec!Front(Held(a))
  BY <1>1, <1>2, WithoutCut
<1>4. Vec!Becomes(a, Vec!Front(Held(a)))
  BY <1>3, PopBackLeaves, LeavesBecomes
<1> QED
  BY <1>2, <1>4, HeldIs DEF Vec!PopBack

LEMMA ClearMatches ==
  ASSUME DynamicArrayAssumption, IInv, NEW a \in Live, Clear(a)
  PROVE  Vec!Clear(a)
<1>1. Without(Held(a), 1, arr[a].size + 1) = <<>>
  BY HeldIs, WithoutCut
<1> QED
  BY <1>1, ClearLeaves, LeavesBecomes DEF Vec!Clear

LEMMA ResizeMatches ==
  ASSUME DynamicArrayAssumption, IInv, NEW a \in Live, NEW n \in Nat, Resize(a, n)
  PROVE  Vec!Resize(a, n)
<1>1. Vec!Becomes(a, Resized(Held(a), n))
  BY ResizeLeaves, LeavesBecomes
<1> DEFINE c == [x \in Arrays |-> SubSeq(Slots(x), 1, arr[x].size)][a]
           r == [k \in 1..n |-> IF k <= Len(c) THEN c[k] ELSE Default]
<1>2. c = Held(a)
  BY HeldIs
<1> HIDE DEF c
<1>3. r = Resized(Held(a), n)
  BY <1>2 DEF Resized
<1>4. Vec!Becomes(a, r)
  BY <1>1, <1>3
<1> QED
  BY <1>4 DEF Vec!Resize, c

LEMMA EraseRangeMatches ==
  ASSUME DynamicArrayAssumption, IInv, NEW a \in Live, NEW first \in Nat, NEW last \in Nat,
         EraseRange(a, first, last)
  PROVE  Vec!EraseRange(a, first, last)
<1> DEFINE q == Held(a)
<1>1. /\ q \in Seq(Values) /\ Len(q) = arr[a].size /\ arr[a].size \in Nat
      /\ [x \in Arrays |-> SubSeq(Slots(x), 1, arr[x].size)][a] = q
  BY HeldIs
<1>2. /\ first \in 1..Len(q) + 1 /\ last \in first..Len(q) + 1
      /\ LeavesBut(a, Without(q, first, last), last..arr[a].size)
  BY <1>1, EraseRangeLeaves
<1>3. first \in 1..last /\ last \in 1..Len(q) + 1
  BY <1>1, <1>2
<1> HIDE DEF q
<1>4. Without(q, first, last) = SubSeq(q, 1, first - 1) \o SubSeq(q, last, Len(q))
  BY <1>1, <1>2, WithoutRemoved
<1>5. Vec!Becomes(a, SubSeq(q, 1, first - 1) \o SubSeq(q, last, Len(q)))
  BY <1>2, <1>4, LeavesButBecomes
<1> QED
  BY <1>1, <1>3, <1>5 DEF Vec!EraseRange
-----------------------------------------------------------------------------
(* Lifetimes.                                                                *)
LEMMA MadeBegins ==
  ASSUME NEW a \in Arrays, a \notin Live, NEW q, Made(a, q)
  PROVE  Vec!Begins(a, q)
BY VecHolds DEF Made, Vec!Begins

LEMMA MovedMatches ==
  ASSUME NEW a \in Arrays, NEW b \in Arrays, a # b, Moved(a, b)
  PROVE  /\ Live' = Live \cup {a}
         /\ Content' = [Content EXCEPT ![a] = Content[b], ![b] = <<>>]
<1>1. /\ Live' = Live \cup {a} /\ Held(a)' = Held(b) /\ Held(b)' = <<>>
      /\ \A x \in Arrays \ {a, b} : Held(x)' = Held(x)
  BY DEF Moved
<1>2. Content' = [x \in Arrays |-> Held(x)']
  BY DEF Content
<1>3. [Content EXCEPT ![a] = Content[b], ![b] = <<>>] =
      [x \in Arrays |-> IF x = b THEN <<>> ELSE IF x = a THEN Held(b) ELSE Held(x)]
  BY DEF Content
<1> QED
  BY <1>1, <1>2, <1>3

LEMMA ConstructMatches ==
  ASSUME DynamicArrayAssumption, IInv, NEW a \in Arrays, Construct(a)
  PROVE  Vec!ConstructN(a, 0)
<1>1. a \notin Live /\ Made(a, <<>>)
  BY ConstructKeeps
<1> DEFINE q == [k \in 1..0 |-> Default]
<1>2. q \in [1..0 -> Values] /\ 0 \in Nat
  BY DEF DynamicArrayAssumption
<1> HIDE DEF q
<1>3. q = <<>>
  BY <1>2, FunctionIsSeq, EmptyIs
<1>4. Vec!Begins(a, q)
  BY <1>1, <1>3, MadeBegins
<1> QED
  BY <1>4 DEF Vec!ConstructN, q

LEMMA CopyConstructMatches ==
  ASSUME DynamicArrayAssumption, IInv, NEW a \in Arrays, NEW b \in Arrays, NEW m \in Mems,
         CopyConstruct(a, b, m)
  PROVE  Vec!CopyConstruct(a, b)
<1>1. a \notin Live /\ b \in Live /\ Made(a, Held(b))
  BY CopyConstructKeeps
<1>2. Vec!Begins(a, Held(b))
  BY <1>1, MadeBegins
<1> QED
  BY <1>1, <1>2, HeldIs DEF Vec!CopyConstruct

LEMMA MovesMatch ==
  ASSUME DynamicArrayAssumption, IInv, NEW a \in Arrays, NEW b \in Arrays
  PROVE  /\ MoveConstruct(a, b) => Vec!MoveConstruct(a, b)
         /\ MoveAssign(a, b) => Vec!MoveAssign(a, b)
<1>1. ASSUME MoveConstruct(a, b) PROVE Vec!MoveConstruct(a, b)
  <2>1. a \notin Live /\ b \in Live /\ Moved(a, b)
    BY <1>1, MoveConstructKeeps
  <2>2. /\ Live' = Live \cup {a}
        /\ Content' = [Content EXCEPT ![a] = Content[b], ![b] = <<>>]
    BY <2>1, MovedMatches
  <2> QED
    BY <2>1, <2>2 DEF Vec!MoveConstruct, Content, Held
<1>2. ASSUME MoveAssign(a, b) PROVE Vec!MoveAssign(a, b)
  <2>1. a \in Live /\ b \in Live /\ a # b /\ Moved(a, b)
    BY <1>2, MoveAssignKeeps
  <2>2. /\ Live' = Live \cup {a}
        /\ Content' = [Content EXCEPT ![a] = Content[b], ![b] = <<>>]
    BY <2>1, MovedMatches
  <2>3. Live' = Live
    BY <2>1, <2>2
  <2> QED
    BY <2>1, <2>2, <2>3 DEF Vec!MoveAssign, Content, Held
<1> QED
  BY <1>1, <1>2

LEMMA DestroyMatches ==
  ASSUME DynamicArrayAssumption, IInv, NEW a \in Arrays, Destroy(a)
  PROVE  Vec!Destroy(a)
<1>1. /\ a \in Live /\ Live' = Live \ {a} /\ Held(a)' = <<>>
      /\ \A x \in Arrays \ {a} : Held(x)' = Held(x)
  BY DestroyKeeps
<1>2. Vec!Holds(a, <<>>)
  BY <1>1, VecHolds
<1> QED
  BY <1>1, <1>2 DEF Vec!Destroy

LEMMA ClearAndDeallocateBufferMatches ==
  ASSUME DynamicArrayAssumption, IInv, NEW a \in Arrays, ClearAndDeallocateBuffer(a)
  PROVE  Vec!Clear(a)
<1>1. /\ a \in Live /\ Live' = Live /\ Held(a)' = <<>>
      /\ \A x \in Arrays \ {a} : Held(x)' = Held(x)
  BY ClearAndDeallocateBufferKeeps
<1>2. Vec!Holds(a, <<>>)
  BY <1>1, VecHolds
<1> QED
  BY <1>1, <1>2 DEF Vec!Clear, Vec!Becomes

(* What no caller can see.                                                   *)
LEMMA Unseen ==
  ASSUME Same PROVE UNCHANGED Vec!vars
<1>1. Content' = [x \in Arrays |-> Held(x)'] /\ Live' = Live
  BY DEF Content, Same
<1>2. Content' = Content
  BY <1>1 DEF Same, Content
<1> QED
  BY <1>1, <1>2 DEF Vec!vars, Content, Held

LEMMA ReserveUnseen ==
  ASSUME DynamicArrayAssumption, IInv, NEW a \in Live, NEW n \in Nat, ReserveTo(a, n)
  PROVE  Same
<1>1. /\ Live' = Live /\ Held(a)' = Held(a)
      /\ \A x \in Arrays \ {a} : Held(x)' = Held(x)
  BY ReserveToLeaves, LeavesBecomes
<1> QED
  BY <1>1 DEF Same
-----------------------------------------------------------------------------
LEMMA ElementStep ==
  ASSUME DynamicArrayAssumption, IInv, NEW a \in Arrays, Element(a)
  PROVE  Vec!Next \/ UNCHANGED Vec!vars
<1>0. a \in Live /\ MaxCapacity \in Nat
  BY DEF Element, DynamicArrayAssumption
<1>1. ASSUME NEW n \in 0..MaxCapacity, ReserveTo(a, n) PROVE UNCHANGED Vec!vars
  BY <1>0, <1>1, ReserveUnseen, Unseen
<1>2. ASSUME NEW n \in 0..MaxCapacity, Resize(a, n) PROVE Vec!Next
  <2>1. Vec!Resize(a, n)
    BY <1>0, <1>2, ResizeMatches
  <2> QED
    BY <2>1, Zenon DEF Vec!Next
<1>3. ASSUME PopBack(a) PROVE Vec!Next
  <2>1. Vec!PopBack(a)
    BY <1>0, <1>3, PopBackMatches
  <2> QED
    BY <2>1, Zenon DEF Vec!Next
<1>4. ASSUME Clear(a) PROVE Vec!Next
  <2>1. Vec!Clear(a)
    BY <1>0, <1>4, ClearMatches
  <2> QED
    BY <2>1, Zenon DEF Vec!Next
<1>5. ASSUME NEW v \in Values, EmplaceBack(a, v) PROVE Vec!Next
  <2>1. Vec!PushBack(a, v)
    BY <1>0, <1>5, EmplaceBackLeaves, PushBackMatches
  <2> QED
    BY <2>1, Zenon DEF Vec!Next
<1>6. ASSUME NEW i \in 1..MaxCapacity, NEW v \in Values, Insert(a, i, v)
      PROVE  Vec!Next
  <2>1. Vec!Insert(a, i, v)
    BY <1>0, <1>6, InsertLeaves, InsertMatches
  <2> QED
    BY <2>1, Zenon DEF Vec!Next
<1>7. ASSUME NEW j \in 1..MaxCapacity, EmplaceBackOwn(a, j) PROVE Vec!Next
  <2>1. PICK v \in Values : Vec!PushBack(a, v)
    BY <1>0, <1>7, PushBackOwnMatches
  <2> QED
    BY <2>1, Zenon DEF Vec!Next
<1>8. ASSUME NEW i \in 1..MaxCapacity, NEW j \in 1..MaxCapacity, InsertOwn(a, i, j)
      PROVE  Vec!Next
  <2>1. PICK v \in Values : Vec!Insert(a, i, v)
    BY <1>0, <1>8, InsertOwnMatchesSome
  <2> QED
    BY <2>1, Zenon DEF Vec!Next
<1>9. ASSUME NEW first \in 1..MaxCapacity + 1, NEW last \in 1..MaxCapacity + 1,
             EraseRange(a, first, last)
      PROVE  Vec!Next
  <2>1. Vec!EraseRange(a, first, last)
    BY <1>0, <1>9, EraseRangeMatches
  <2> QED
    BY <2>1, Zenon DEF Vec!Next
<1> QED
  BY <1>1, <1>2, <1>3, <1>4, <1>5, <1>6, <1>7, <1>8, <1>9, Zenon DEF Element

LEMMA VectorStep ==
  ASSUME DynamicArrayAssumption, IInv, Next
  PROVE  Vec!Next \/ UNCHANGED Vec!vars
<1>1. ASSUME NEW a \in Arrays, Element(a) PROVE Vec!Next \/ UNCHANGED Vec!vars
  BY <1>1, ElementStep
<1>2. ASSUME NEW a \in Arrays, Construct(a) PROVE Vec!Next
  <2>1. Vec!ConstructN(a, 0) /\ 0 \in 0..MaxCapacity
    BY <1>2, ConstructMatches DEF DynamicArrayAssumption
  <2> QED
    BY <2>1, Zenon DEF Vec!Next
<1>3. ASSUME NEW a \in Arrays, Destroy(a) PROVE Vec!Next
  <2>1. Vec!Destroy(a)
    BY <1>3, DestroyMatches
  <2> QED
    BY <2>1, Zenon DEF Vec!Next
<1>4. ASSUME NEW a \in Arrays, ClearAndDeallocateBuffer(a) PROVE Vec!Next
  <2>1. Vec!Clear(a)
    BY <1>4, ClearAndDeallocateBufferMatches
  <2> QED
    BY <2>1, Zenon DEF Vec!Next
<1>5. ASSUME NEW a \in Arrays, NEW m \in Mems, NEW n \in 0..MaxCapacity, ConstructN(a, m, n)
      PROVE  Vec!Next
  <2>1. n \in Nat
    BY DEF DynamicArrayAssumption
  <2>2. a \notin Live /\ Made(a, [k \in 1..n |-> Default])
    BY <1>5, <2>1, ConstructNKeeps
  <2>3. Vec!ConstructN(a, n)
    BY <2>2, MadeBegins DEF Vec!ConstructN
  <2> QED
    BY <2>3, Zenon DEF Vec!Next
<1>6. ASSUME NEW a \in Arrays, NEW b \in Arrays, MoveConstruct(a, b) \/ MoveAssign(a, b)
      PROVE  Vec!Next
  <2>1. Vec!MoveConstruct(a, b) \/ Vec!MoveAssign(a, b)
    BY <1>6, MovesMatch
  <2> QED
    BY <2>1, Zenon DEF Vec!Next
<1>7. ASSUME NEW a \in Arrays, NEW b \in Arrays, NEW m \in Mems, CopyConstruct(a, b, m)
      PROVE  Vec!Next
  <2>1. Vec!CopyConstruct(a, b)
    BY <1>7, CopyConstructMatches
  <2> QED
    BY <2>1, Zenon DEF Vec!Next
<1>8. ASSUME NEW i \in Iters, EndIter(i) PROVE UNCHANGED Vec!vars
  BY <1>8, EndIterKeeps, Unseen
<1>9. ASSUME NEW i \in Iters, NEW a \in Arrays, BeginIter(i, a) PROVE UNCHANGED Vec!vars
  BY <1>9, BeginIterKeeps, Unseen
<1> QED
  BY <1>1, <1>2, <1>3, <1>4, <1>5, <1>6, <1>7, <1>8, <1>9, StepCases, Zenon

(* The array implements the vector: buffers, capacity, growth, moved-from    *)
(* slots and iterators never show in what a caller reads, and every step is  *)
(* one of std::vector's operations or invisible.                             *)
THEOREM ImplementsVector == Spec => BehavesLikeVector
<1>1. Init => Vec!Init
  <2> SUFFICES ASSUME Init PROVE Vec!Init
    OBVIOUS
  <2>1. Live = {} /\ \A a \in Arrays : arr[a].size = 0
    BY DEF Init, Live, Absent
  <2>2. [a \in Arrays |-> SubSeq(Slots(a), 1, arr[a].size)] = [a \in Arrays |-> <<>>]
    BY <2>1, NothingHeld DEF Held
  <2> QED
    BY <2>1, <2>2 DEF Vec!Init
<1>2. IInv /\ [Next]_vars => [Vec!Next]_Vec!vars
  <2> SUFFICES ASSUME IInv, [Next]_vars PROVE Vec!Next \/ UNCHANGED Vec!vars
    OBVIOUS
  <2>1. CASE Next
    BY <2>1, VectorStep, DynamicArrayAssumption
  <2>2. CASE UNCHANGED vars
    <3>1. Same
      BY <2>2 DEF vars, Same, Live, Held, Slots
    <3> QED
      BY <3>1, Unseen
  <2> QED
    BY <2>1, <2>2
<1> QED
  BY <1>1, <1>2, Safety, PTL DEF Spec, BehavesLikeVector, Vec!Spec

(* Each call leaves what std::vector's call with the same arguments leaves,  *)
(* also when the argument refers to an element of the array, if the call     *)
(* needs no growth and moves no element the argument refers to.              *)
THEOREM CallsMatchVector == Spec => CallsMatch
<1> DEFINE Matches ==
      \A a \in Live :
        /\ PopBack(a) => Vec!PopBack(a)
        /\ \A v \in Values : EmplaceBack(a, v) => Vec!PushBack(a, v)
        /\ \A i \in 1..MaxCapacity, v \in Values : Insert(a, i, v) => Vec!Insert(a, i, v)
        /\ arr[a].size < arr[a].cap =>
             /\ \A j \in 1..arr[a].size :
                  EmplaceBackOwn(a, j) => Vec!PushBack(a, Slots(a)[j])
             /\ \A i \in 1..MaxCapacity : \A j \in 1..i - 1 :
                  InsertOwn(a, i, j) => Vec!Insert(a, i, Slots(a)[j])
        /\ \A n \in 0..MaxCapacity : Resize(a, n) => Vec!Resize(a, n)
        /\ \A first, last \in 1..arr[a].size + 1 :
             EraseRange(a, first, last) => Vec!EraseRange(a, first, last)
<1>1. IInv => Matches
  <2> SUFFICES ASSUME IInv, NEW a \in Live
               PROVE  /\ PopBack(a) => Vec!PopBack(a)
                      /\ \A v \in Values : EmplaceBack(a, v) => Vec!PushBack(a, v)
                      /\ \A i \in 1..MaxCapacity, v \in Values :
                           Insert(a, i, v) => Vec!Insert(a, i, v)
                      /\ arr[a].size < arr[a].cap =>
                           /\ \A j \in 1..arr[a].size :
                                EmplaceBackOwn(a, j) => Vec!PushBack(a, Slots(a)[j])
                           /\ \A i \in 1..MaxCapacity : \A j \in 1..i - 1 :
                                InsertOwn(a, i, j) => Vec!Insert(a, i, Slots(a)[j])
                      /\ \A n \in 0..MaxCapacity : Resize(a, n) => Vec!Resize(a, n)
                      /\ \A first, last \in 1..arr[a].size + 1 :
                           EraseRange(a, first, last) => Vec!EraseRange(a, first, last)
    BY Zenon
  <2>0. DynamicArrayAssumption /\ MaxCapacity \in Nat /\ arr[a].size \in Nat
    BY DynamicArrayAssumption, HeldIs DEF DynamicArrayAssumption
  <2>1. PopBack(a) => Vec!PopBack(a)
    BY DynamicArrayAssumption, PopBackMatches
  <2>2. ASSUME NEW v \in Values, EmplaceBack(a, v) PROVE Vec!PushBack(a, v)
    BY <2>2, DynamicArrayAssumption, EmplaceBackLeaves, PushBackMatches
  <2>3. ASSUME NEW i \in 1..MaxCapacity, NEW v \in Values, Insert(a, i, v)
        PROVE  Vec!Insert(a, i, v)
    BY <2>3, DynamicArrayAssumption, InsertLeaves, InsertMatches
  <2>4. ASSUME arr[a].size < arr[a].cap, NEW j \in 1..arr[a].size, EmplaceBackOwn(a, j)
        PROVE  Vec!PushBack(a, Slots(a)[j])
    <3>1. j \in Nat
      BY <2>0
    <3>2. PICK v \in Values : v = Slots(a)[j] /\ Vec!PushBack(a, v)
      BY <2>4, <3>1, DynamicArrayAssumption, PushBackOwnMatches
    <3> QED
      BY <3>2 DEF Vec!PushBack, Vec!Becomes, Vec!Holds
  <2>7. ASSUME arr[a].size < arr[a].cap, NEW i \in 1..MaxCapacity, NEW j \in 1..i - 1,
               InsertOwn(a, i, j)
        PROVE  Vec!Insert(a, i, Slots(a)[j])
    <3>1. i \in Nat /\ j \in Nat /\ j < i
      BY <2>0
    <3>2. PICK v \in Values : v = Slots(a)[j] /\ Vec!Insert(a, i, v)
      BY <2>7, <3>1, DynamicArrayAssumption, InsertOwnMatchesSome
    <3> QED
      BY <3>2 DEF Vec!Insert, Vec!Becomes, Vec!Holds
  <2>5. ASSUME NEW n \in 0..MaxCapacity, Resize(a, n) PROVE Vec!Resize(a, n)
    BY <2>5, DynamicArrayAssumption, ResizeMatches
  <2>6. ASSUME NEW first \in 1..arr[a].size + 1, NEW last \in 1..arr[a].size + 1,
               EraseRange(a, first, last)
        PROVE  Vec!EraseRange(a, first, last)
    <3>1. first \in Nat /\ last \in Nat
      BY <2>0
    <3> QED
      BY <2>6, <3>1, DynamicArrayAssumption, EraseRangeMatches
  <2> QED
    BY <2>1, <2>2, <2>3, <2>4, <2>5, <2>6, <2>7, Zenon
<1>2. IInv /\ [Next]_vars => [Matches]_vars
  BY <1>1
<1>3. Spec => [][Matches]_vars
  <2> HIDE DEF Matches
  <2> QED
    BY <1>2, Safety, PTL DEF Spec
<1> QED
  BY <1>3, Zenon DEF CallsMatch
=============================================================================
