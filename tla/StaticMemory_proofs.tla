------------------------- MODULE StaticMemory_proofs -------------------------
(* Proofs about arrays over one static block, for every number of arrays and *)
(* every capacity, as long as callers ask for no more than remains.          *)
EXTENDS StaticMemory, SequenceTheorems, TLAPS

ArrayRecord == [off : Slots \cup {Dead}, size : 0..Capacity, cap : 0..Capacity]

(* A buffer below o, and two buffers that share no slot.                     *)
Within(r, o) == r.size <= r.cap /\ (r.cap > 0 => 1 <= r.off /\ r.off + r.cap <= o)
Apart(r, q) ==
  r.cap = 0 \/ q.cap = 0 \/ r.off + r.cap <= q.off \/ q.off + q.cap <= r.off
Regions(f, o) ==
  \A a \in Arrays : Within(f[a], o) /\ \A b \in Arrays \ {a} : Apart(f[a], f[b])

ApartFromAll(r, f, a) == \A b \in Arrays \ {a} : Apart(r, f[b])

Put(f, a, r) == [f EXCEPT ![a] = r]

Dormant == \A a \in Arrays : arr[a].off = Dead => arr[a] = Absent

(* The inductive invariant: the buffers of all arrays, those that have none  *)
(* included, lie apart below the offset.                                     *)
IInv == StaticTypeOK /\ Dormant /\ Regions(arr, offset)

(* What a record holds, and a block written.                                 *)
ContentOf(st, r) == [k \in 1..r.size |-> st[r.off + k - 1]]
WrittenTo(st, p, s) ==
  [q \in Slots |-> IF p <= q /\ q < p + Len(s) THEN s[q - p + 1] ELSE st[q]]
-----------------------------------------------------------------------------
LEMMA ConstantsTyped ==
  ASSUME StaticMemoryAssumption
  PROVE  /\ Zero \in Numbers /\ Capacity \in Nat /\ FirstCapacity \in Nat \ {0}
         /\ Slots = 0..Capacity
BY DEF StaticMemoryAssumption, Slots

LEMMA RecordTyped ==
  ASSUME StaticMemoryAssumption, NEW r \in ArrayRecord
  PROVE  /\ r.off \in Int /\ r.off >= -1 /\ r.off <= Capacity
         /\ r.size \in Nat /\ r.cap \in Nat /\ r.size <= Capacity /\ r.cap <= Capacity
<1>1. /\ Capacity \in Nat /\ Slots = 0..Capacity /\ Dead = -1
      /\ r.off \in Slots \cup {Dead} /\ r.size \in 0..Capacity /\ r.cap \in 0..Capacity
  BY ConstantsTyped DEF ArrayRecord, Dead
<1> QED
  BY <1>1

LEMMA MadeRecord ==
  ASSUME StaticMemoryAssumption, NEW p \in Slots \cup {Dead},
         NEW n \in 0..Capacity, NEW m \in 0..Capacity
  PROVE  [off |-> p, size |-> n, cap |-> m] \in ArrayRecord
BY DEF ArrayRecord

(* A record put in place of another, apart from the rest.                    *)
LEMMA Retargeted ==
  ASSUME StaticMemoryAssumption,
         NEW f \in [Arrays -> ArrayRecord], NEW o \in Nat, Regions(f, o),
         NEW a \in Arrays, NEW r \in ArrayRecord, NEW u \in Nat, o <= u,
         Within(r, u), ApartFromAll(r, f, a),
         NEW g, g = Put(f, a, r)
  PROVE  Regions(g, u)
<1>1. g[a] = r /\ \A b \in Arrays \ {a} : g[b] = f[b]
  BY DEF Put
<1>2. ASSUME NEW b \in Arrays PROVE Within(g[b], u)
  <2>1. CASE b = a
    BY <2>1, <1>1
  <2>2. CASE b # a
    <3>1. Within(f[b], o) /\ g[b] = f[b]
      BY <2>2, <1>1 DEF Regions
    <3>2. f[b].off \in Int /\ f[b].cap \in Nat
      BY RecordTyped
    <3> QED
      BY <3>1, <3>2 DEF Within
  <2> QED
    BY <2>1, <2>2
<1>3. ASSUME NEW b \in Arrays, NEW c \in Arrays \ {b} PROVE Apart(g[b], g[c])
  <2>1. CASE b = a
    BY <2>1, <1>1 DEF ApartFromAll
  <2>2. CASE c = a
    <3>1. Apart(r, f[b]) /\ g[b] = f[b] /\ g[c] = r
      BY <2>2, <1>1 DEF ApartFromAll
    <3> QED
      BY <3>1 DEF Apart
  <2>3. CASE b # a /\ c # a
    BY <2>3, <1>1 DEF Regions
  <2> QED
    BY <2>1, <2>2, <2>3
<1> QED
  BY <1>2, <1>3 DEF Regions

(* A buffer from the offset on lies apart from all that are handed out.      *)
LEMMA FreshApart ==
  ASSUME StaticMemoryAssumption,
         NEW f \in [Arrays -> ArrayRecord], NEW o \in Nat, Regions(f, o),
         NEW b \in Arrays, NEW r \in ArrayRecord, r.cap = 0 \/ r.off = o
  PROVE  Apart(r, f[b])
<1>1. Within(f[b], o) /\ f[b].off \in Int /\ f[b].cap \in Nat
  BY RecordTyped DEF Regions
<1> QED
  BY <1>1 DEF Within, Apart

(* Writing s into a buffer leaves s there and the other buffers alone.       *)
LEMMA WriteReads ==
  ASSUME StaticMemoryAssumption,
         NEW st \in [Slots -> Numbers], NEW s \in Seq(Numbers),
         NEW r \in ArrayRecord, r.size = Len(s), NEW u \in 1..Capacity + 1, Within(r, u)
  PROVE  /\ WrittenTo(st, r.off, s) \in [Slots -> Numbers]
         /\ ContentOf(WrittenTo(st, r.off, s), r) = s
<1>1. /\ r.off \in Int /\ r.cap \in Nat /\ Len(s) \in Nat /\ Len(s) <= r.cap
      /\ Capacity \in Nat /\ Slots = 0..Capacity
      /\ s \in [1..Len(s) -> Numbers]
      /\ r.cap > 0 => 1 <= r.off /\ r.off + r.cap <= u
  BY RecordTyped, ConstantsTyped, LenProperties DEF Within
<1>2. PICK w : w = WrittenTo(st, r.off, s)
  OBVIOUS
<1>3. ASSUME NEW q \in Slots
      PROVE  (IF r.off <= q /\ q < r.off + Len(s) THEN s[q - r.off + 1] ELSE st[q]) \in Numbers
  <2>1. CASE r.off <= q /\ q < r.off + Len(s)
    <3>1. q - r.off + 1 \in 1..Len(s)
      BY <2>1, <1>1
    <3> QED
      BY <2>1, <3>1, <1>1
  <2>2. CASE ~ (r.off <= q /\ q < r.off + Len(s))
    BY <2>2
  <2> QED
    BY <2>1, <2>2
<1>4. w \in [Slots -> Numbers]
  BY <1>2, <1>3 DEF WrittenTo
<1>5. ASSUME NEW k \in 1..Len(s) PROVE w[r.off + k - 1] = s[k]
  <2>1. r.off + k - 1 \in Slots /\ r.off <= r.off + k - 1 /\ r.off + k - 1 < r.off + Len(s)
        /\ (r.off + k - 1) - r.off + 1 = k
    BY <1>1
  <2> QED
    BY <2>1, <1>2 DEF WrittenTo
<1>6. ContentOf(w, r) = [k \in 1..Len(s) |-> s[k]]
  BY <1>5 DEF ContentOf
<1> QED
  BY <1>1, <1>2, <1>4, <1>6

LEMMA WriteSpares ==
  ASSUME StaticMemoryAssumption,
         NEW st \in [Slots -> Numbers], NEW s \in Seq(Numbers),
         NEW r \in ArrayRecord, r.size = Len(s), NEW u \in 1..Capacity + 1, Within(r, u),
         NEW q \in ArrayRecord, Within(q, u), Apart(r, q)
  PROVE  ContentOf(WrittenTo(st, r.off, s), q) = ContentOf(st, q)
<1>1. /\ r.off \in Int /\ r.cap \in Nat /\ Len(s) \in Nat /\ Len(s) <= r.cap
      /\ q.off \in Int /\ q.cap \in Nat /\ q.size \in Nat /\ q.size <= q.cap
      /\ Capacity \in Nat /\ Slots = 0..Capacity
      /\ q.cap > 0 => 1 <= q.off /\ q.off + q.cap <= u
  BY RecordTyped, ConstantsTyped, LenProperties DEF Within
<1>2. PICK w : w = WrittenTo(st, r.off, s)
  OBVIOUS
<1>3. ASSUME NEW k \in 1..q.size PROVE w[q.off + k - 1] = st[q.off + k - 1]
  <2>1. q.off + k - 1 \in Slots
    BY <1>1, SMTT(30)
  <2>2. ~ (r.off <= q.off + k - 1 /\ q.off + k - 1 < r.off + Len(s))
    <3>1. r.cap = 0 \/ q.cap = 0 \/ r.off + r.cap <= q.off \/ q.off + q.cap <= r.off
      BY DEF Apart
    <3>2. PICK x \in Int, y \in Int : x = r.off /\ y = q.off
      BY <1>1
    <3>3. PICK c \in Nat, d \in Nat, l \in Nat : c = r.cap /\ d = q.cap /\ l = Len(s)
      BY <1>1
    <3>4. k \in Nat /\ k >= 1 /\ k <= d /\ l <= c
      BY <1>1, <3>3
    <3>5. c = 0 \/ d = 0 \/ x + c <= y \/ y + d <= x
      BY <3>1, <3>2, <3>3
    <3>6. ~ (x <= y + k - 1 /\ y + k - 1 < x + l)
      BY <3>4, <3>5
    <3> QED
      BY <3>2, <3>3, <3>6
  <2> QED
    BY <2>1, <2>2, <1>2 DEF WrittenTo
<1>4. ContentOf(w, q) = ContentOf(st, q)
  BY <1>3 DEF ContentOf
<1> QED
  BY <1>2, <1>4

(* Both together, for a record that takes its place among the others.        *)
Keeps(f, g, st, w, a) ==
  \A b \in Arrays \ {a} : g[b] = f[b] /\ ContentOf(w, g[b]) = ContentOf(st, f[b])

LEMMA Stored ==
  ASSUME StaticMemoryAssumption,
         NEW f \in [Arrays -> ArrayRecord], NEW o \in 1..Capacity + 1, Regions(f, o),
         NEW st \in [Slots -> Numbers], NEW s \in Seq(Numbers),
         NEW a \in Arrays, NEW r \in ArrayRecord, r.size = Len(s),
         NEW u \in 1..Capacity + 1, o <= u, Within(r, u),
         ApartFromAll(r, f, a),
         NEW g, g = Put(f, a, r), NEW w, w = WrittenTo(st, r.off, s)
  PROVE  /\ Regions(g, u) /\ g \in [Arrays -> ArrayRecord] /\ w \in [Slots -> Numbers]
         /\ g[a] = r /\ ContentOf(w, g[a]) = s /\ Keeps(f, g, st, w, a)
<1>1. Capacity \in Nat /\ o \in Nat /\ u \in Nat
  BY ConstantsTyped
<1>2. Regions(g, u)
  BY <1>1, Retargeted
<1>3. g \in [Arrays -> ArrayRecord] /\ g[a] = r /\ \A b \in Arrays \ {a} : g[b] = f[b]
  BY DEF Put
<1>4. w \in [Slots -> Numbers] /\ ContentOf(w, r) = s
  BY WriteReads
<1>5. ASSUME NEW b \in Arrays \ {a} PROVE ContentOf(w, f[b]) = ContentOf(st, f[b])
  <2>1. Within(f[b], u) /\ Apart(r, f[b]) /\ f[b] \in ArrayRecord
    BY <1>2, <1>3 DEF Regions, ApartFromAll
  <2> QED
    BY <2>1, WriteSpares
<1> QED
  BY <1>2, <1>3, <1>4, <1>5 DEF Keeps
-----------------------------------------------------------------------------
(* What a call does to the invariant and to what each array holds.           *)
Changes(a, s) == Contents(a)' = s /\ \A b \in Arrays \ {a} : Contents(b)' = Contents(b)

LEMMA InvTyped ==
  ASSUME StaticMemoryAssumption, IInv
  PROVE  /\ arr \in [Arrays -> ArrayRecord] /\ offset \in 1..Capacity + 1
         /\ store \in [Slots -> Numbers] /\ Regions(arr, offset) /\ offset \in Nat
<1>1. arr \in [Arrays -> ArrayRecord] /\ offset \in 1..Capacity + 1 /\ store \in [Slots -> Numbers]
  BY DEF IInv, StaticTypeOK, ArrayRecord
<1>2. offset \in Nat
  BY <1>1, ConstantsTyped
<1> QED
  BY <1>1, <1>2 DEF IInv

LEMMA ContentIs ==
  \A a : Contents(a) = ContentOf(store, arr[a]) /\ Contents(a)' = ContentOf(store', arr'[a])
BY DEF Contents, ContentOf

LEMMA ContentTyped ==
  ASSUME StaticMemoryAssumption, IInv, NEW a \in Arrays
  PROVE  /\ Contents(a) \in Seq(Numbers) /\ Len(Contents(a)) = arr[a].size
         /\ arr[a] \in ArrayRecord /\ arr[a].size \in Nat /\ arr[a].cap \in Nat
         /\ arr[a].size <= arr[a].cap /\ arr[a].cap <= Capacity
<1>1. PICK r \in ArrayRecord : r = arr[a]
  BY InvTyped
<1>2. PICK o \in 1..Capacity + 1 : o = offset
  BY InvTyped
<1>3. PICK st \in [Slots -> Numbers] : st = store
  BY InvTyped
<1>4. Within(r, o)
  BY <1>1, <1>2, InvTyped DEF Regions
<1>5. /\ r.off \in Int /\ r.size \in Nat /\ r.cap \in Nat /\ r.size <= r.cap /\ r.cap <= Capacity
      /\ r.cap > 0 => 1 <= r.off /\ r.off + r.cap <= o
      /\ Slots = 0..Capacity /\ Capacity \in Nat
  BY <1>4, RecordTyped, ConstantsTyped DEF Within
<1>6. ASSUME NEW k \in 1..r.size PROVE st[r.off + k - 1] \in Numbers
  <2>1. r.off + k - 1 \in Slots
    BY <1>5
  <2> QED
    BY <2>1
<1>7. PICK c : c = ContentOf(st, r)
  OBVIOUS
<1>8. c \in [1..r.size -> Numbers]
  BY <1>6, <1>7 DEF ContentOf
<1>9. c \in Seq(Numbers) /\ Len(c) = r.size
  BY <1>5, <1>8
<1> QED
  BY <1>1, <1>3, <1>5, <1>7, <1>9, ContentIs

LEMMA StoreStep ==
  ASSUME StaticMemoryAssumption, IInv,
         NEW a \in Arrays, NEW r \in ArrayRecord, r.off # Dead,
         NEW s \in Seq(Numbers), r.size = Len(s),
         NEW u \in 1..Capacity + 1, offset <= u, Within(r, u),
         ApartFromAll(r, arr, a),
         arr' = [arr EXCEPT ![a] = r], offset' = u, store' = Written(r.off, s)
  PROVE  IInv' /\ Changes(a, s) /\ Live' = Live \cup {a}
<1>1. PICK f \in [Arrays -> ArrayRecord] : f = arr
  BY InvTyped
<1>2. PICK o \in 1..Capacity + 1 : o = offset
  BY InvTyped
<1>3. PICK st \in [Slots -> Numbers] : st = store
  BY InvTyped
<1>4. PICK g : g = Put(f, a, r)
  OBVIOUS
<1>5. PICK w : w = WrittenTo(st, r.off, s)
  OBVIOUS
<1>6. Regions(f, o) /\ o <= u /\ ApartFromAll(r, f, a)
  BY <1>1, <1>2, InvTyped
<1>7. /\ Regions(g, u) /\ g \in [Arrays -> ArrayRecord] /\ w \in [Slots -> Numbers]
      /\ g[a] = r /\ ContentOf(w, g[a]) = s /\ Keeps(f, g, st, w, a)
  BY <1>4, <1>5, <1>6, Stored
<1>8. arr' = g /\ store' = w
  BY <1>1, <1>3, <1>4, <1>5 DEF Put, Written, WrittenTo
<1>9. Changes(a, s)
  BY <1>1, <1>3, <1>7, <1>8, ContentIs DEF Changes, Keeps
<1>10. StaticTypeOK'
  BY <1>7, <1>8 DEF StaticTypeOK, ArrayRecord
<1>11. Dormant'
  <2>1. \A b \in Arrays \ {a} : f[b].off = Dead => f[b] = Absent
    BY <1>1 DEF IInv, Dormant
  <2>2. \A b \in Arrays : g[b].off = Dead => g[b] = Absent
    BY <2>1, <1>7 DEF Keeps
  <2> QED
    BY <2>2, <1>8 DEF Dormant, Absent, Dead
<1>12. Live' = Live \cup {a}
  <2>1. \A b \in Arrays : g[b].off # Dead <=> f[b].off # Dead \/ b = a
    BY <1>7 DEF Keeps
  <2> QED
    BY <2>1, <1>1, <1>8 DEF Live, Dead
<1> QED
  BY <1>7, <1>8, <1>9, <1>10, <1>11, <1>12 DEF IInv

(* An array whose buffer goes, or a pair of arrays of which one takes the    *)
(* other's buffer: nothing is written.                                       *)
LEMMA DropStep ==
  ASSUME StaticMemoryAssumption, IInv, NEW a \in Arrays,
         NEW r \in {Absent, Unattached},
         arr' = [arr EXCEPT ![a] = r], UNCHANGED <<store, offset>>
  PROVE  /\ IInv' /\ Changes(a, <<>>)
         /\ Live' = IF r = Absent THEN Live \ {a} ELSE Live \cup {a}
<1>1. PICK f \in [Arrays -> ArrayRecord] : f = arr
  BY InvTyped
<1>2. PICK o \in 1..Capacity + 1 : o = offset
  BY InvTyped
<1>3. PICK g : g = Put(f, a, r)
  OBVIOUS
<1>4. o \in Nat /\ Regions(f, o)
  BY <1>1, <1>2, InvTyped
<1>5. r \in ArrayRecord /\ r.size = 0 /\ r.cap = 0
  BY ConstantsTyped DEF ArrayRecord, Absent, Unattached, Null
<1>6. Within(r, o) /\ ApartFromAll(r, f, a)
  BY <1>5 DEF Within, Apart, ApartFromAll
<1>7. Regions(g, o)
  <2>1. o <= o
    BY <1>4
  <2> QED
    BY <2>1, <1>3, <1>4, <1>5, <1>6, Retargeted
<1>8. g \in [Arrays -> ArrayRecord] /\ g[a] = r /\ \A b \in Arrays \ {a} : g[b] = f[b]
  BY <1>3, <1>5 DEF Put
<1>9. arr' = g
  BY <1>1, <1>3 DEF Put
<1>10. Changes(a, <<>>)
  <2>1. ContentOf(store', g[a]) = <<>>
    BY <1>5, <1>8 DEF ContentOf
  <2> QED
    BY <2>1, <1>1, <1>8, <1>9, ContentIs DEF Changes
<1>11. StaticTypeOK'
  BY <1>8, <1>9 DEF IInv, StaticTypeOK, ArrayRecord
<1>12. /\ \A b \in Arrays \ {a} : g[b].off = Dead => g[b] = Absent
       /\ g[a].off = Dead <=> r = Absent
       /\ g[a].off = Dead => g[a] = Absent
  BY <1>1, <1>8 DEF IInv, Dormant, Absent, Unattached, Dead, Null
<1>13. Dormant'
  BY <1>9, <1>12 DEF Dormant, Absent, Dead
<1>14. Live' = IF r = Absent THEN Live \ {a} ELSE Live \cup {a}
  BY <1>1, <1>8, <1>9, <1>12 DEF Live, Dead
<1> QED
  BY <1>2, <1>7, <1>9, <1>10, <1>11, <1>13, <1>14 DEF IInv

TakesOver(a, b) == arr' = [arr EXCEPT ![a] = arr[b], ![b] = Unattached]

LEMMA TakeStep ==
  ASSUME StaticMemoryAssumption, IInv, NEW a \in Arrays, NEW b \in Live, a # b,
         TakesOver(a, b), UNCHANGED <<store, offset>>
  PROVE  /\ IInv' /\ Live' = Live \cup {a}
         /\ Contents(a)' = Contents(b) /\ Contents(b)' = <<>>
         /\ \A x \in Arrays \ {a, b} : Contents(x)' = Contents(x)
<1>1. PICK f \in [Arrays -> ArrayRecord] : f = arr
  BY InvTyped
<1>2. PICK o \in 1..Capacity + 1 : o = offset
  BY InvTyped
<1>3. PICK g : g = [f EXCEPT ![a] = f[b], ![b] = Unattached]
  OBVIOUS
<1>4. o \in Nat /\ Regions(f, o) /\ b \in Arrays /\ f[b].off # Dead
  BY <1>1, <1>2, InvTyped DEF Live
<1>5. Unattached \in ArrayRecord /\ Unattached.cap = 0 /\ Unattached.size = 0 /\ Unattached.off # Dead
  BY ConstantsTyped DEF ArrayRecord, Unattached, Null, Dead
<1>6. /\ g \in [Arrays -> ArrayRecord] /\ g[a] = f[b] /\ g[b] = Unattached
      /\ \A x \in Arrays \ {a, b} : g[x] = f[x]
  BY <1>3, <1>4, <1>5
<1>7. arr' = g
  BY <1>1, <1>3 DEF TakesOver
<1>8. Regions(g, o)
  <2>1. ASSUME NEW x \in Arrays PROVE Within(g[x], o)
    <3>1. Within(Unattached, o)
      BY <1>5 DEF Within
    <3> QED
      BY <3>1, <1>4, <1>6 DEF Regions
  <2>2. ASSUME NEW x \in Arrays, NEW y \in Arrays \ {x} PROVE Apart(g[x], g[y])
    <3>1. CASE x = b \/ y = b
      BY <3>1, <1>5, <1>6 DEF Apart
    <3>2. CASE x = a /\ y # b
      BY <3>2, <1>4, <1>6 DEF Regions
    <3>3. CASE y = a /\ x # b
      BY <3>3, <1>4, <1>6 DEF Regions
    <3>4. CASE {x, y} \cap {a, b} = {}
      BY <3>4, <1>4, <1>6 DEF Regions
    <3> QED
      BY <3>1, <3>2, <3>3, <3>4
  <2> QED
    BY <2>1, <2>2 DEF Regions
<1>9. Contents(a)' = Contents(b) /\ \A x \in Arrays \ {a, b} : Contents(x)' = Contents(x)
  BY <1>1, <1>6, <1>7, ContentIs
<1>10. Contents(b)' = <<>>
  <2>1. ContentOf(store', g[b]) = <<>>
    BY <1>5, <1>6 DEF ContentOf
  <2> QED
    BY <2>1, <1>7, ContentIs
<1>11. StaticTypeOK'
  BY <1>6, <1>7 DEF IInv, StaticTypeOK, ArrayRecord
<1>12. \A x \in Arrays : f[x].off = Dead => f[x] = Absent
  BY <1>1 DEF IInv, Dormant
<1>13. \A x \in Arrays : g[x].off = Dead => g[x] = Absent
  BY <1>4, <1>5, <1>6, <1>12
<1>14. Dormant'
  BY <1>7, <1>13 DEF Dormant, Absent, Dead
<1>15. Live' = Live \cup {a}
  <2>1. \A x \in Arrays : g[x].off # Dead <=> f[x].off # Dead \/ x = a
    BY <1>4, <1>5, <1>6
  <2> QED
    BY <2>1, <1>1, <1>7 DEF Live, Dead
<1> QED
  BY <1>2, <1>7, <1>8, <1>9, <1>10, <1>11, <1>14, <1>15 DEF IInv
-----------------------------------------------------------------------------
(* The two shapes of a call that writes.                                     *)
LEMMA FreshBuffer ==
  ASSUME StaticMemoryAssumption, ~ MayExhaust, IInv, NEW n \in Nat, MayAsk(n),
         NEW m \in 0..n
  PROVE  /\ [off |-> Allocated(n), size |-> m, cap |-> n] \in ArrayRecord
         /\ Allocated(n) # Dead /\ n <= Capacity
         /\ Bumped(n) \in 1..Capacity + 1 /\ offset <= Bumped(n)
         /\ Within([off |-> Allocated(n), size |-> m, cap |-> n], Bumped(n))
         /\ \A a \in Arrays : ApartFromAll([off |-> Allocated(n), size |-> m, cap |-> n], arr, a)
<1>1. PICK o \in 1..Capacity + 1 : o = offset
  BY InvTyped
<1>2. o \in Nat /\ o >= 1 /\ o <= Capacity + 1 /\ Capacity \in Nat /\ Slots = 0..Capacity
  BY ConstantsTyped
<1>3. n <= Capacity + 1 - o
  BY <1>1 DEF MayAsk, Remaining
<1>4. PICK p : p = Allocated(n)
  OBVIOUS
<1>5. PICK u : u = Bumped(n)
  OBVIOUS
<1>6. /\ n = 0 => p = 0 /\ u = o
      /\ n > 0 => p = o /\ u = o + n
  BY <1>1, <1>2, <1>3, <1>4, <1>5 DEF Allocated, Bumped, Fits, Remaining, Null
<1>7. n <= Capacity /\ p \in Slots /\ u \in 1..Capacity + 1 /\ o <= u /\ m <= n /\ m \in 0..Capacity
  BY <1>2, <1>3, <1>6
<1>8. PICK r : r = [off |-> p, size |-> m, cap |-> n]
  OBVIOUS
<1>9. r.off = p /\ r.size = m /\ r.cap = n
  BY <1>8
<1>10. r \in ArrayRecord /\ p # Dead
  BY <1>2, <1>7, <1>8 DEF ArrayRecord, Dead
<1>11. Within(r, u)
  BY <1>2, <1>6, <1>7, <1>9 DEF Within
<1>12. r.cap = 0 \/ r.off = o
  BY <1>6, <1>9
<1>13. PICK f \in [Arrays -> ArrayRecord] : f = arr
  BY InvTyped
<1>14. Regions(f, o)
  BY <1>1, <1>13, InvTyped
<1>15. ASSUME NEW b \in Arrays PROVE Apart(r, f[b])
  BY <1>2, <1>10, <1>12, <1>14, FreshApart
<1>16. \A a \in Arrays : ApartFromAll(r, arr, a)
  BY <1>13, <1>15 DEF ApartFromAll
<1> QED
  BY <1>1, <1>4, <1>5, <1>7, <1>8, <1>10, <1>11, <1>16

LEMMA BeginsStep ==
  ASSUME StaticMemoryAssumption, ~ MayExhaust, IInv,
         NEW a \in Arrays, NEW s \in Seq(Numbers), NEW n \in Nat, Len(s) <= n, Begins(a, s, n)
  PROVE  IInv' /\ a \notin Live /\ Changes(a, s) /\ Live' = Live \cup {a} /\ n <= Capacity
<1>1. PICK p : p = Allocated(n)
  OBVIOUS
<1>2. PICK u : u = Bumped(n)
  OBVIOUS
<1>3. PICK r : r = [off |-> p, size |-> Len(s), cap |-> n]
  OBVIOUS
<1>4. /\ a \notin Live /\ MayAsk(n) /\ offset' = u /\ arr' = [arr EXCEPT ![a] = r]
      /\ store' = Written(p, s)
  BY <1>1, <1>2, <1>3 DEF Begins
<1>5. Len(s) \in 0..n
  BY LenProperties
<1>6. /\ r \in ArrayRecord /\ p # Dead /\ n <= Capacity /\ u \in 1..Capacity + 1 /\ offset <= u
      /\ Within(r, u) /\ ApartFromAll(r, arr, a)
  BY <1>1, <1>2, <1>3, <1>4, <1>5, FreshBuffer
<1>7. r.off = p /\ r.size = Len(s)
  BY <1>3
<1> QED
  BY <1>4, <1>6, <1>7, StoreStep

LEMMA HoldsStep ==
  ASSUME StaticMemoryAssumption, ~ MayExhaust, IInv,
         NEW a \in Arrays, NEW s \in Seq(Numbers), NEW n \in Nat,
         IF n <= arr[a].cap THEN Len(s) <= arr[a].cap ELSE Len(s) <= n,
         NowHolds(a, s, n)
  PROVE  IInv' /\ a \in Live /\ Changes(a, s) /\ Live' = Live
<1>1. PICK old \in ArrayRecord : old = arr[a]
  BY InvTyped
<1>2. a \in Live /\ old.off # Dead
  BY <1>1 DEF NowHolds, Live
<1>3. PICK o \in 1..Capacity + 1 : o = offset
  BY InvTyped
<1>4. /\ o \in Nat /\ o <= o /\ Len(s) \in Nat /\ old.cap \in Nat /\ old.cap <= Capacity
      /\ Capacity \in Nat /\ old.off \in Slots \cup {Dead} /\ old.cap \in 0..Capacity
  BY <1>3, ConstantsTyped, RecordTyped, LenProperties DEF ArrayRecord
<1>5. CASE n <= old.cap
  <2>1. PICK r : r = [off |-> old.off, size |-> Len(s), cap |-> old.cap]
    OBVIOUS
  <2>2. [old EXCEPT !.size = Len(s)] = r
    BY <2>1 DEF ArrayRecord
  <2>3. arr' = [arr EXCEPT ![a] = r] /\ offset' = o /\ store' = Written(r.off, s)
    BY <2>1, <2>2, <1>1, <1>3, <1>5 DEF NowHolds
  <2>4. r.off = old.off /\ r.size = Len(s) /\ r.cap = old.cap
    BY <2>1
  <2>5. Len(s) \in 0..Capacity /\ Len(s) <= old.cap
    BY <1>1, <1>4, <1>5
  <2>6. r \in ArrayRecord
    BY <2>1, <2>5, <1>4 DEF ArrayRecord
  <2>7. Within(old, o) /\ \A b \in Arrays \ {a} : Apart(old, arr[b])
    BY <1>1, <1>3, InvTyped DEF Regions
  <2>8. Within(r, o)
    BY <2>4, <2>5, <2>7 DEF Within
  <2>9. ApartFromAll(r, arr, a)
    BY <2>4, <2>7 DEF Apart, ApartFromAll
  <2>10. IInv' /\ Changes(a, s) /\ Live' = Live \cup {a}
    BY <2>3, <2>4, <2>6, <2>8, <2>9, <1>2, <1>3, <1>4, StoreStep
  <2> QED
    BY <2>10, <1>2
<1>6. CASE ~ (n <= old.cap)
  <2>1. PICK p : p = Allocated(n)
    OBVIOUS
  <2>2. PICK u : u = Bumped(n)
    OBVIOUS
  <2>3. PICK r : r = [off |-> p, size |-> Len(s), cap |-> n]
    OBVIOUS
  <2>4. [[old EXCEPT !.off = p, !.cap = n] EXCEPT !.size = Len(s)] = r
    <3>1. [old EXCEPT !.off = p, !.cap = n] = [off |-> p, size |-> old.size, cap |-> n]
      <4>1. PICK x, y, z : old = [off |-> x, size |-> y, cap |-> z]
        BY DEF ArrayRecord
      <4>2. [[off |-> x, size |-> y, cap |-> z] EXCEPT !.off = p, !.cap = n]
              = [off |-> p, size |-> y, cap |-> n]
        <5>1. [[off |-> x, size |-> y, cap |-> z] EXCEPT !.off = p]
                = [off |-> p, size |-> y, cap |-> z]
          OBVIOUS
        <5>2. [[off |-> p, size |-> y, cap |-> z] EXCEPT !.cap = n]
                = [off |-> p, size |-> y, cap |-> n]
          OBVIOUS
        <5>3. [[off |-> x, size |-> y, cap |-> z] EXCEPT !.off = p, !.cap = n]
                = [[[off |-> x, size |-> y, cap |-> z] EXCEPT !.off = p] EXCEPT !.cap = n]
          OBVIOUS
        <5> QED
          BY <5>1, <5>2, <5>3
      <4>3. old.size = y
        BY <4>1
      <4> QED
        BY <4>1, <4>2, <4>3
    <3>2. [[off |-> p, size |-> old.size, cap |-> n] EXCEPT !.size = Len(s)] = r
      BY <2>3
    <3> QED
      BY <3>1, <3>2
  <2>5. /\ MayAsk(n) /\ arr' = [arr EXCEPT ![a] = r] /\ offset' = u /\ store' = Written(p, s)
    <3>1. [old EXCEPT !.off = p, !.cap = n].off = p
      BY DEF ArrayRecord
    <3> QED
      BY <3>1, <2>1, <2>2, <2>4, <1>1, <1>6 DEF NowHolds
  <2>6. Len(s) \in 0..n
    BY <1>1, <1>4, <1>6
  <2>7. /\ r \in ArrayRecord /\ p # Dead /\ u \in 1..Capacity + 1 /\ offset <= u
        /\ Within(r, u) /\ ApartFromAll(r, arr, a)
    BY <2>1, <2>2, <2>3, <2>5, <2>6, FreshBuffer
  <2>8. r.off = p /\ r.size = Len(s)
    BY <2>3
  <2>9. IInv' /\ Changes(a, s) /\ Live' = Live \cup {a}
    BY <2>5, <2>7, <2>8, StoreStep
  <2> QED
    BY <2>9, <1>2
<1> QED
  BY <1>5, <1>6
-----------------------------------------------------------------------------
(* The sequences that calls leave.                                           *)
LEMMA PieceOf ==
  ASSUME NEW s \in Seq(Numbers), NEW m \in Int, NEW n \in Int, m >= 1, n <= Len(s)
  PROVE  /\ SubSeq(s, m, n) \in Seq(Numbers)
         /\ Len(SubSeq(s, m, n)) = IF m <= n THEN n - m + 1 ELSE 0
<1>1. \A i \in m..n : s[i] \in Numbers
  <2>1. SUFFICES ASSUME NEW i \in m..n PROVE s[i] \in Numbers
    OBVIOUS
  <2>2. i \in 1..Len(s)
    BY LenProperties
  <2> QED
    BY <2>2, ElementOfSeq
<1> QED
  BY <1>1, SubSeqProperties

LEMMA InsertAtIs ==
  ASSUME NEW s \in Seq(Numbers), NEW i \in 1..Len(s) + 1, NEW v \in Numbers
  PROVE  /\ InsertAt(s, i, v) \in Seq(Numbers) /\ Len(InsertAt(s, i, v)) = Len(s) + 1
         /\ Vec!InsertAt(s, i, v) = InsertAt(s, i, v)
<1>1. Len(s) \in Nat
  BY LenProperties
<1>2. PICK head : head = SubSeq(s, 1, i - 1)
  OBVIOUS
<1>3. PICK tail : tail = SubSeq(s, i, Len(s))
  OBVIOUS
<1>4. head \in Seq(Numbers) /\ Len(head) = i - 1
  BY <1>1, <1>2, PieceOf
<1>5. tail \in Seq(Numbers) /\ Len(tail) = Len(s) - i + 1
  BY <1>1, <1>3, PieceOf
<1>6. <<v>> \in Seq(Numbers) /\ Len(<<v>>) = 1
  OBVIOUS
<1>7. PICK x : x = head \o <<v>>
  OBVIOUS
<1>8. x \in Seq(Numbers) /\ Len(x) = i
  BY <1>1, <1>4, <1>6, <1>7, ConcatProperties
<1>9. x \o tail \in Seq(Numbers) /\ Len(x \o tail) = Len(s) + 1
  BY <1>1, <1>5, <1>8, ConcatProperties
<1>10. InsertAt(s, i, v) = x \o tail
  BY <1>2, <1>3, <1>7 DEF InsertAt
<1>11. Vec!InsertAt(s, i, v) = x \o tail
  BY <1>2, <1>3, <1>7 DEF Vec!InsertAt
<1> QED
  BY <1>9, <1>10, <1>11

LEMMA RemoveAtIs ==
  ASSUME NEW s \in Seq(Numbers), NEW i \in 1..Len(s)
  PROVE  /\ RemoveAt(s, i) \in Seq(Numbers) /\ Len(RemoveAt(s, i)) = Len(s) - 1
         /\ RemoveAt(s, i) = SubSeq(s, 1, i - 1) \o SubSeq(s, i + 1, Len(s))
<1>1. Len(s) \in Nat
  BY LenProperties
<1>2. PICK head : head = SubSeq(s, 1, i - 1)
  OBVIOUS
<1>3. PICK tail : tail = SubSeq(s, i + 1, Len(s))
  OBVIOUS
<1>4. head \in Seq(Numbers) /\ Len(head) = i - 1
  BY <1>1, <1>2, PieceOf
<1>5. tail \in Seq(Numbers) /\ Len(tail) = Len(s) - i
  BY <1>1, <1>3, PieceOf
<1>6. head \o tail \in Seq(Numbers) /\ Len(head \o tail) = Len(s) - 1
  BY <1>1, <1>4, <1>5, ConcatProperties
<1> QED
  BY <1>2, <1>3, <1>6 DEF RemoveAt

LEMMA FrontIs ==
  ASSUME NEW s \in Seq(Numbers), Len(s) > 0
  PROVE  /\ Front(s) \in Seq(Numbers) /\ Len(Front(s)) = Len(s) - 1
         /\ Vec!Front(s) = Front(s) /\ s # <<>>
<1>1. Len(s) \in Nat
  BY LenProperties
<1>2. PICK n : n = Len(s) - 1
  OBVIOUS
<1>3. SubSeq(s, 1, n) \in Seq(Numbers) /\ Len(SubSeq(s, 1, n)) = n
  BY <1>1, <1>2, PieceOf
<1> QED
  BY <1>2, <1>3 DEF Front, Vec!Front
-----------------------------------------------------------------------------
(* Each call on the block is a call on the abstract vectors.                 *)
LEMMA VecHolds ==
  ASSUME NEW a \in Arrays, NEW s, Changes(a, s)
  PROVE  Vec!Holds(a, s)
<1>1. [x \in Arrays |-> Contents(x)'] = [[x \in Arrays |-> Contents(x)] EXCEPT ![a] = s]
  BY DEF Changes
<1> QED
  BY <1>1 DEF Vec!Holds

LEMMA VecBecomes ==
  ASSUME NEW a \in Live, NEW s, Changes(a, s), Live' = Live
  PROVE  Vec!Becomes(a, s)
<1>1. a \in Arrays
  BY DEF Live
<1> QED
  BY <1>1, VecHolds DEF Vec!Becomes

LEMMA VecBegins ==
  ASSUME NEW a \in Arrays, a \notin Live, NEW s, Changes(a, s), Live' = Live \cup {a}
  PROVE  Vec!Begins(a, s)
BY VecHolds DEF Vec!Begins

LEMMA VecContent == \A a \in Arrays : [x \in Arrays |-> Contents(x)][a] = Contents(a)
OBVIOUS

LEMMA DestroyStep ==
  ASSUME StaticMemoryAssumption, IInv, NEW a \in Arrays, Destroy(a)
  PROVE  IInv' /\ Vec!Destroy(a)
<1>1. PICK r \in {Absent, Unattached} : r = Absent
  OBVIOUS
<1>2. arr' = [arr EXCEPT ![a] = r] /\ UNCHANGED <<store, offset>> /\ a \in Live
  BY <1>1 DEF Destroy
<1>3. IInv' /\ Changes(a, <<>>) /\ Live' = Live \ {a}
  BY <1>1, <1>2, DropStep
<1> QED
  BY <1>2, <1>3, VecHolds DEF Vec!Destroy

LEMMA ClearBufferStep ==
  ASSUME StaticMemoryAssumption, IInv, NEW a \in Arrays, ClearAndDeallocateBuffer(a)
  PROVE  IInv' /\ Vec!Clear(a)
<1>1. PICK r \in {Absent, Unattached} : r = Unattached
  OBVIOUS
<1>2. arr' = [arr EXCEPT ![a] = r] /\ UNCHANGED <<store, offset>> /\ a \in Live
  BY <1>1 DEF ClearAndDeallocateBuffer
<1>3. r # Absent
  BY <1>1 DEF Absent, Unattached, Dead, Null
<1>4. IInv' /\ Changes(a, <<>>) /\ Live' = Live \cup {a}
  BY <1>2, <1>3, DropStep
<1>5. Live' = Live
  BY <1>2, <1>4
<1> QED
  BY <1>2, <1>4, <1>5, VecBecomes DEF Vec!Clear

LEMMA MoveConstructStep ==
  ASSUME StaticMemoryAssumption, IInv, NEW a \in Arrays, NEW b \in Arrays, MoveConstruct(a, b)
  PROVE  IInv' /\ Vec!MoveConstruct(a, b)
<1>1. a \notin Live /\ b \in Live /\ a # b /\ TakesOver(a, b) /\ UNCHANGED <<store, offset>>
  BY DEF MoveConstruct, TakesOver
<1>2. /\ IInv' /\ Live' = Live \cup {a}
      /\ Contents(a)' = Contents(b) /\ Contents(b)' = <<>>
      /\ \A x \in Arrays \ {a, b} : Contents(x)' = Contents(x)
  BY <1>1, TakeStep
<1>3. [x \in Arrays |-> Contents(x)'] =
        [[x \in Arrays |-> Contents(x)] EXCEPT ![a] = Contents(b), ![b] = <<>>]
  BY <1>1, <1>2
<1> QED
  BY <1>1, <1>2, <1>3 DEF Vec!MoveConstruct

LEMMA MoveAssignStep ==
  ASSUME StaticMemoryAssumption, IInv, NEW a \in Arrays, NEW b \in Arrays, MoveAssign(a, b)
  PROVE  IInv' /\ Vec!MoveAssign(a, b)
<1>1. a \in Live /\ b \in Live /\ a # b /\ TakesOver(a, b) /\ UNCHANGED <<store, offset>>
  BY DEF MoveAssign, TakesOver
<1>2. /\ IInv' /\ Live' = Live
      /\ Contents(a)' = Contents(b) /\ Contents(b)' = <<>>
      /\ \A x \in Arrays \ {a, b} : Contents(x)' = Contents(x)
  BY <1>1, TakeStep
<1>3. [x \in Arrays |-> Contents(x)'] =
        [[x \in Arrays |-> Contents(x)] EXCEPT ![a] = Contents(b), ![b] = <<>>]
  BY <1>1, <1>2
<1> QED
  BY <1>1, <1>2, <1>3 DEF Vec!MoveAssign

LEMMA ConstructNStep ==
  ASSUME StaticMemoryAssumption, ~ MayExhaust, IInv, NEW a \in Arrays, NEW n \in Nat,
         ConstructN(a, n)
  PROVE  IInv' /\ Vec!ConstructN(a, n) /\ n \in 0..Capacity
<1>1. PICK s : s = [k \in 1..n |-> Zero]
  OBVIOUS
<1>2. s \in [1..n -> Numbers]
  BY <1>1, ConstantsTyped
<1>3. s \in Seq(Numbers) /\ Len(s) = n
  BY <1>2
<1>4. Begins(a, s, n)
  BY <1>1 DEF ConstructN
<1>5. IInv' /\ a \notin Live /\ Changes(a, s) /\ Live' = Live \cup {a} /\ n <= Capacity
  BY <1>3, <1>4, BeginsStep
<1>6. Capacity \in Nat
  BY ConstantsTyped
<1> QED
  BY <1>1, <1>5, <1>6, VecBegins DEF Vec!ConstructN

LEMMA CopyConstructStep ==
  ASSUME StaticMemoryAssumption, ~ MayExhaust, IInv, NEW a \in Arrays, NEW b \in Arrays,
         CopyConstruct(a, b)
  PROVE  IInv' /\ Vec!CopyConstruct(a, b)
<1>1. PICK s \in Seq(Numbers) : s = Contents(b)
  BY ContentTyped
<1>2. PICK n \in Nat : n = arr[b].cap
  BY ContentTyped
<1>3. Len(s) <= n
  BY <1>1, <1>2, ContentTyped
<1>4. Begins(a, s, n) /\ b \in Live
  BY <1>1, <1>2 DEF CopyConstruct
<1>5. IInv' /\ a \notin Live /\ Changes(a, s) /\ Live' = Live \cup {a}
  BY <1>3, <1>4, BeginsStep
<1>6. Vec!Begins(a, s)
  BY <1>5, VecBegins
<1> QED
  BY <1>1, <1>4, <1>5, <1>6 DEF Vec!CopyConstruct

Same == UNCHANGED <<Live, [x \in Arrays |-> Contents(x)]>>

LEMMA ReserveToStep ==
  ASSUME StaticMemoryAssumption, ~ MayExhaust, IInv, NEW a \in Arrays, NEW n \in Nat,
         ReserveTo(a, n)
  PROVE  IInv' /\ Same
<1>1. PICK s \in Seq(Numbers) : s = Contents(a)
  BY ContentTyped
<1>2. /\ n > arr[a].cap /\ NowHolds(a, s, n) /\ Len(s) = arr[a].size
      /\ arr[a].cap \in Nat /\ Len(s) <= arr[a].cap /\ Len(s) \in Nat
  BY <1>1, ContentTyped DEF ReserveTo
<1>3. IF n <= arr[a].cap THEN Len(s) <= arr[a].cap ELSE Len(s) <= n
  BY <1>2
<1>4. IInv' /\ Changes(a, s) /\ Live' = Live
  BY <1>2, <1>3, HoldsStep
<1>5. \A x \in Arrays : Contents(x)' = Contents(x)
  BY <1>1, <1>4 DEF Changes
<1> QED
  BY <1>4, <1>5 DEF Same

LEMMA ResizeStep ==
  ASSUME StaticMemoryAssumption, ~ MayExhaust, IInv, NEW a \in Arrays, NEW n \in Nat,
         Resize(a, n)
  PROVE  IInv' /\ Vec!Resize(a, n) /\ n \in 0..Capacity
<1>1. PICK c \in Seq(Numbers) : c = Contents(a)
  BY ContentTyped
<1>2. PICK s : s = [k \in 1..n |-> IF k <= Len(c) THEN c[k] ELSE Zero]
  OBVIOUS
<1>3. s \in Seq(Numbers) /\ Len(s) = n
  <2>1. ASSUME NEW k \in 1..n PROVE (IF k <= Len(c) THEN c[k] ELSE Zero) \in Numbers
    <3>1. CASE k <= Len(c)
      <4>1. Len(c) \in Nat /\ k \in 1..Len(c)
        BY <3>1, LenProperties
      <4> QED
        BY <3>1, <4>1, ElementOfSeq
    <3>2. CASE ~ (k <= Len(c))
      BY <3>2, ConstantsTyped
    <3> QED
      BY <3>1, <3>2
  <2>2. s \in [1..n -> Numbers]
    BY <1>2, <2>1
  <2> QED
    BY <2>2
<1>4. Len(c) = arr[a].size /\ arr[a].cap \in Nat /\ arr[a].cap <= Capacity
  BY <1>1, ContentTyped
<1>5. NowHolds(a, s, n)
  BY <1>1, <1>2, <1>4 DEF Resize
<1>6. IF n <= arr[a].cap THEN Len(s) <= arr[a].cap ELSE Len(s) <= n
  BY <1>3, <1>4
<1>7. IInv' /\ a \in Live /\ Changes(a, s) /\ Live' = Live
  BY <1>3, <1>5, <1>6, HoldsStep
<1>8. n \in 0..Capacity
  <2>1. n <= arr[a].cap \/ n <= Capacity + 1 - offset
    BY <1>5 DEF NowHolds, MayAsk, Remaining
  <2>2. offset \in 1..Capacity + 1 /\ Capacity \in Nat
    BY InvTyped, ConstantsTyped
  <2> QED
    BY <2>1, <2>2, <1>4
<1>9. Vec!Becomes(a, s)
  BY <1>7, VecBecomes
<1>10. Vec!Resize(a, n)
  BY <1>1, <1>2, <1>9, VecContent DEF Vec!Resize
<1> QED
  BY <1>7, <1>8, <1>10

LEMMA RoomFits ==
  ASSUME StaticMemoryAssumption, IInv, NEW a \in Arrays
  PROVE  /\ RoomForOne(a) \in Nat
         /\ IF RoomForOne(a) <= arr[a].cap THEN arr[a].size + 1 <= arr[a].cap
            ELSE arr[a].size + 1 <= RoomForOne(a)
<1>1. PICK m \in Nat, n \in Nat : m = arr[a].size /\ n = arr[a].cap /\ m <= n
  BY ContentTyped
<1>2. FirstCapacity \in Nat /\ FirstCapacity > 0
  BY ConstantsTyped
<1> QED
  BY <1>1, <1>2 DEF RoomForOne

LEMMA EmplaceBackStep ==
  ASSUME StaticMemoryAssumption, ~ MayExhaust, IInv, NEW a \in Arrays, NEW v \in Numbers,
         EmplaceBack(a, v)
  PROVE  IInv' /\ Vec!PushBack(a, v)
<1>1. PICK c \in Seq(Numbers) : c = Contents(a)
  BY ContentTyped
<1>2. PICK s : s = Append(c, v)
  OBVIOUS
<1>3. PICK n \in Nat : n = RoomForOne(a)
  BY RoomFits
<1>4. s \in Seq(Numbers) /\ Len(s) = arr[a].size + 1
  BY <1>1, <1>2, ContentTyped, AppendProperties
<1>5. NowHolds(a, s, n)
  BY <1>1, <1>2, <1>3 DEF EmplaceBack
<1>6. IF n <= arr[a].cap THEN Len(s) <= arr[a].cap ELSE Len(s) <= n
  BY <1>3, <1>4, RoomFits
<1>7. IInv' /\ a \in Live /\ Changes(a, s) /\ Live' = Live
  BY <1>4, <1>5, <1>6, HoldsStep
<1>8. Vec!Becomes(a, s)
  BY <1>7, VecBecomes
<1> QED
  BY <1>1, <1>2, <1>7, <1>8, VecContent DEF Vec!PushBack

LEMMA InsertStep ==
  ASSUME StaticMemoryAssumption, ~ MayExhaust, IInv, NEW a \in Arrays,
         NEW i \in Nat, NEW v \in Numbers, InsertInto(a, i, v)
  PROVE  IInv' /\ Vec!Insert(a, i, v)
<1>1. PICK c \in Seq(Numbers) : c = Contents(a)
  BY ContentTyped
<1>2. PICK s : s = InsertAt(c, i, v)
  OBVIOUS
<1>3. PICK n \in Nat : n = RoomForOne(a)
  BY RoomFits
<1>4. Len(c) = arr[a].size /\ i \in 1..Len(c) + 1
  BY <1>1, ContentTyped DEF InsertInto
<1>5. s \in Seq(Numbers) /\ Len(s) = Len(c) + 1 /\ Vec!InsertAt(c, i, v) = s
  BY <1>2, <1>4, InsertAtIs
<1>6. NowHolds(a, s, n)
  BY <1>1, <1>2, <1>3 DEF InsertInto
<1>7. IF n <= arr[a].cap THEN Len(s) <= arr[a].cap ELSE Len(s) <= n
  BY <1>3, <1>4, <1>5, RoomFits
<1>8. IInv' /\ a \in Live /\ Changes(a, s) /\ Live' = Live
  BY <1>5, <1>6, <1>7, HoldsStep
<1>9. Vec!Becomes(a, s)
  BY <1>8, VecBecomes
<1> QED
  BY <1>1, <1>4, <1>5, <1>8, <1>9, VecContent DEF Vec!Insert

LEMMA PopBackStep ==
  ASSUME StaticMemoryAssumption, ~ MayExhaust, IInv, NEW a \in Arrays, PopBack(a)
  PROVE  IInv' /\ Vec!PopBack(a)
<1>1. PICK c \in Seq(Numbers) : c = Contents(a)
  BY ContentTyped
<1>2. PICK s : s = Front(c)
  OBVIOUS
<1>3. /\ Len(c) = arr[a].size /\ Len(c) > 0 /\ arr[a].cap \in Nat /\ arr[a].size \in Nat
      /\ arr[a].size <= arr[a].cap
  BY <1>1, ContentTyped DEF PopBack
<1>4. s \in Seq(Numbers) /\ Len(s) = Len(c) - 1 /\ Vec!Front(c) = s /\ c # <<>>
  BY <1>2, <1>3, FrontIs
<1>5. NowHolds(a, s, 0)
  BY <1>1, <1>2 DEF PopBack
<1>6. IF 0 <= arr[a].cap THEN Len(s) <= arr[a].cap ELSE Len(s) <= 0
  BY <1>3, <1>4
<1>7. IInv' /\ a \in Live /\ Changes(a, s) /\ Live' = Live
  BY <1>4, <1>5, <1>6, HoldsStep
<1>8. Vec!Becomes(a, s)
  BY <1>7, VecBecomes
<1> QED
  BY <1>1, <1>4, <1>7, <1>8, VecContent DEF Vec!PopBack

LEMMA ClearStep ==
  ASSUME StaticMemoryAssumption, ~ MayExhaust, IInv, NEW a \in Arrays, ClearArray(a)
  PROVE  IInv' /\ Vec!Clear(a)
<1>1. PICK s \in Seq(Numbers) : s = <<>>
  BY EmptySeq
<1>2. Len(s) = 0 /\ arr[a].cap \in Nat
  BY <1>1, ContentTyped
<1>3. NowHolds(a, s, 0)
  BY <1>1 DEF ClearArray
<1>4. IF 0 <= arr[a].cap THEN Len(s) <= arr[a].cap ELSE Len(s) <= 0
  BY <1>2
<1>5. IInv' /\ a \in Live /\ Changes(a, s) /\ Live' = Live
  BY <1>3, <1>4, HoldsStep
<1> QED
  BY <1>1, <1>5, VecBecomes DEF Vec!Clear

LEMMA EraseStep ==
  ASSUME StaticMemoryAssumption, ~ MayExhaust, IInv, NEW a \in Arrays,
         NEW i \in Nat, EraseFrom(a, i)
  PROVE  IInv' /\ Vec!EraseRange(a, i, i + 1) /\ i \in 1..Capacity
<1>1. PICK c \in Seq(Numbers) : c = Contents(a)
  BY ContentTyped
<1>2. PICK s : s = RemoveAt(c, i)
  OBVIOUS
<1>3. /\ Len(c) = arr[a].size /\ i \in 1..Len(c) /\ arr[a].cap \in Nat /\ arr[a].size \in Nat
      /\ arr[a].size <= arr[a].cap /\ arr[a].cap <= Capacity /\ Capacity \in Nat
  BY <1>1, ContentTyped, ConstantsTyped DEF EraseFrom
<1>4. /\ s \in Seq(Numbers) /\ Len(s) = Len(c) - 1
      /\ s = SubSeq(c, 1, i - 1) \o SubSeq(c, i + 1, Len(c))
  BY <1>2, <1>3, RemoveAtIs
<1>5. NowHolds(a, s, 0)
  BY <1>1, <1>2 DEF EraseFrom
<1>6. IF 0 <= arr[a].cap THEN Len(s) <= arr[a].cap ELSE Len(s) <= 0
  BY <1>3, <1>4
<1>7. IInv' /\ a \in Live /\ Changes(a, s) /\ Live' = Live
  BY <1>4, <1>5, <1>6, HoldsStep
<1>8. Vec!Becomes(a, s)
  BY <1>7, VecBecomes
<1>9. i \in 1..i + 1 /\ i + 1 \in 1..Len(c) + 1 /\ i \in 1..Capacity
  BY <1>3
<1>10. Vec!EraseRange(a, i, i + 1)
  BY <1>1, <1>4, <1>8, <1>9, VecContent DEF Vec!EraseRange
<1> QED
  BY <1>7, <1>9, <1>10
-----------------------------------------------------------------------------
LEMMA InitInv ==
  ASSUME StaticMemoryAssumption, StaticInit
  PROVE  IInv /\ Vec!Init
<1>1. /\ Zero \in Numbers /\ Capacity \in Nat /\ Slots = 0..Capacity
      /\ store = [p \in Slots |-> Zero] /\ offset = 1 /\ arr = [a \in Arrays |-> Absent]
  BY ConstantsTyped DEF StaticInit
<1>2. Absent \in ArrayRecord /\ Absent.off = Dead /\ Absent.size = 0 /\ Absent.cap = 0
  BY <1>1 DEF ArrayRecord, Absent
<1>3. StaticTypeOK
  <2>1. offset \in 1..Capacity + 1 /\ store \in [Slots -> Numbers]
    BY <1>1
  <2>2. arr \in [Arrays -> ArrayRecord]
    BY <1>1, <1>2
  <2> QED
    BY <2>1, <2>2 DEF StaticTypeOK, ArrayRecord
<1>4. Dormant
  BY <1>1 DEF Dormant
<1>5. Regions(arr, offset)
  BY <1>1, <1>2 DEF Regions, Within, Apart
<1>6. Live = {}
  BY <1>1, <1>2 DEF Live
<1>7. \A a \in Arrays : Contents(a) = <<>>
  BY <1>1, <1>2 DEF Contents
<1> QED
  BY <1>3, <1>4, <1>5, <1>6, <1>7 DEF IInv, Vec!Init

(* Every step keeps the invariant and is a step of the abstract vectors.     *)
LEMMA StepInv ==
  ASSUME StaticMemoryAssumption, ~ MayExhaust, IInv, StaticNext
  PROVE  IInv' /\ VectorStep
<1>1. PICK a \in Arrays :
        \/ Destroy(a) \/ ClearAndDeallocateBuffer(a) \/ PopBack(a) \/ ClearArray(a)
        \/ \E b \in Arrays : CopyConstruct(a, b) \/ MoveConstruct(a, b) \/ MoveAssign(a, b)
        \/ \E n \in 0..Capacity + 1 : ConstructN(a, n) \/ ReserveTo(a, n) \/ Resize(a, n)
        \/ \E v \in Numbers : EmplaceBack(a, v)
        \/ \E i \in 1..Capacity, v \in Numbers : InsertInto(a, i, v)
        \/ \E i \in 1..Capacity : EraseFrom(a, i)
  BY DEF StaticNext
<1>2. Capacity \in Nat
  BY ConstantsTyped
<1>3. CASE Destroy(a)
  BY <1>3, DestroyStep DEF VectorStep, Vec!Next
<1>4. CASE ClearAndDeallocateBuffer(a)
  BY <1>4, ClearBufferStep DEF VectorStep, Vec!Next
<1>5. CASE PopBack(a)
  BY <1>5, PopBackStep DEF VectorStep, Vec!Next
<1>6. CASE ClearArray(a)
  BY <1>6, ClearStep DEF VectorStep, Vec!Next
<1>7. ASSUME NEW b \in Arrays, CopyConstruct(a, b) PROVE IInv' /\ VectorStep
  BY <1>7, CopyConstructStep DEF VectorStep, Vec!Next
<1>8. ASSUME NEW b \in Arrays, MoveConstruct(a, b) PROVE IInv' /\ VectorStep
  BY <1>8, MoveConstructStep DEF VectorStep, Vec!Next
<1>9. ASSUME NEW b \in Arrays, MoveAssign(a, b) PROVE IInv' /\ VectorStep
  BY <1>9, MoveAssignStep DEF VectorStep, Vec!Next
<1>10. ASSUME NEW n \in 0..Capacity + 1, ConstructN(a, n) PROVE IInv' /\ VectorStep
  <2>1. n \in Nat
    BY <1>2
  <2>2. IInv' /\ Vec!ConstructN(a, n) /\ n \in 0..Capacity
    BY <2>1, <1>10, ConstructNStep
  <2> QED
    BY <2>2 DEF VectorStep, Vec!Next
<1>11. ASSUME NEW n \in 0..Capacity + 1, ReserveTo(a, n) PROVE IInv' /\ VectorStep
  <2>1. n \in Nat
    BY <1>2
  <2> QED
    BY <2>1, <1>11, ReserveToStep DEF VectorStep, Same
<1>12. ASSUME NEW n \in 0..Capacity + 1, Resize(a, n) PROVE IInv' /\ VectorStep
  <2>1. n \in Nat
    BY <1>2
  <2>2. IInv' /\ Vec!Resize(a, n) /\ n \in 0..Capacity
    BY <2>1, <1>12, ResizeStep
  <2> QED
    BY <2>2 DEF VectorStep, Vec!Next
<1>13. ASSUME NEW v \in Numbers, EmplaceBack(a, v) PROVE IInv' /\ VectorStep
  BY <1>13, EmplaceBackStep DEF VectorStep, Vec!Next
<1>14. ASSUME NEW i \in 1..Capacity, NEW v \in Numbers, InsertInto(a, i, v)
       PROVE  IInv' /\ VectorStep
  <2>1. i \in Nat
    BY <1>2
  <2>2. IInv' /\ Vec!Insert(a, i, v)
    BY <2>1, <1>14, InsertStep
  <2> QED
    BY <2>2 DEF VectorStep, Vec!Next
<1>15. ASSUME NEW i \in 1..Capacity, EraseFrom(a, i) PROVE IInv' /\ VectorStep
  <2>1. i \in Nat
    BY <1>2
  <2>2. IInv' /\ Vec!EraseRange(a, i, i + 1)
    BY <2>1, <1>15, EraseStep
  <2>3. i \in 1..Capacity + 1 /\ i + 1 \in 1..Capacity + 1
    BY <1>2
  <2>4. Vec!Next
    BY <2>2, <2>3 DEF Vec!Next
  <2> QED
    BY <2>2, <2>4 DEF VectorStep
<1> QED
  BY <1>1, <1>3, <1>4, <1>5, <1>6, <1>7, <1>8, <1>9, <1>10, <1>11, <1>12, <1>13, <1>14, <1>15

LEMMA StutterInv ==
  ASSUME IInv, UNCHANGED staticVars
  PROVE  IInv' /\ VectorStep
<1>1. store' = store /\ offset' = offset /\ arr' = arr
  BY DEF staticVars
<1>2. IInv'
  BY <1>1 DEF IInv, StaticTypeOK, Dormant, Regions
<1>3. UNCHANGED <<Live, [a \in Arrays |-> Contents(a)]>>
  BY <1>1 DEF Live, Contents
<1> QED
  BY <1>2, <1>3 DEF VectorStep

(* While callers ask for no more than remaining_size(), the buffers of all   *)
(* arrays over the block, those left by moves and growth included, stay      *)
(* typed, apart and below the bump offset.                                   *)
THEOREM Safety ==
  ASSUME ~ MayExhaust
  PROVE  StaticSpec => []IInv
<1>1. StaticInit => IInv
  BY InitInv, StaticMemoryAssumption
<1>2. IInv /\ [StaticNext]_staticVars => IInv'
  BY StepInv, StutterInv, StaticMemoryAssumption
<1> QED
  BY <1>1, <1>2, PTL DEF StaticSpec

(* Slots, offset and array headers keep their ranges: no call of             *)
(* dynamic_array writes outside typed_static_memory's block or moves the     *)
(* offset past it.                                                           *)
THEOREM TypeCorrect ==
  ASSUME ~ MayExhaust
  PROVE  StaticSpec => []StaticTypeOK
<1>1. IInv => StaticTypeOK
  BY DEF IInv
<1> QED
  BY <1>1, Safety, PTL

LEMMA InvApart ==
  ASSUME StaticMemoryAssumption, IInv
  PROVE  RegionsDisjoint /\ NullSlotFree
<1>1. PICK f \in [Arrays -> ArrayRecord] : f = arr
  BY InvTyped
<1>2. PICK o \in Nat : o = offset
  BY InvTyped
<1>3. Regions(f, o)
  BY <1>1, <1>2, InvTyped
<1>4. \A a \in Arrays : Region(a) = f[a].off..(f[a].off + f[a].cap - 1)
  BY <1>1 DEF Region
<1>5. \A a \in Arrays : f[a].off \in Int /\ f[a].cap \in Nat /\ f[a].size \in Nat
  BY RecordTyped
<1>6. ASSUME NEW a \in Arrays
      PROVE  /\ f[a].size <= f[a].cap /\ Region(a) \subseteq 1..(o - 1)
             /\ f[a].size > 0 => f[a].off # Null
  <2>1. Within(f[a], o)
    BY <1>3 DEF Regions
  <2> QED
    BY <2>1, <1>4, <1>5 DEF Within, Null
<1>7. ASSUME NEW a \in Arrays, NEW b \in Arrays \ {a} PROVE Region(a) \cap Region(b) = {}
  <2>1. Apart(f[a], f[b])
    BY <1>3 DEF Regions
  <2>2. PICK p \in Int, q \in Int : p = f[a].off /\ q = f[b].off
    BY <1>5
  <2>3. PICK m \in Nat, n \in Nat : m = f[a].cap /\ n = f[b].cap
    BY <1>5
  <2>4. m = 0 \/ n = 0 \/ p + m <= q \/ q + n <= p
    BY <2>1, <2>2, <2>3 DEF Apart
  <2>5. (p..(p + m - 1)) \cap (q..(q + n - 1)) = {}
    BY <2>4
  <2>6. Region(a) = p..(p + m - 1) /\ Region(b) = q..(q + n - 1)
    BY <2>2, <2>3, <1>4
  <2> QED
    BY <2>5, <2>6
<1>8. Live \subseteq Arrays
  BY DEF Live
<1> QED
  BY <1>1, <1>2, <1>6, <1>7, <1>8 DEF RegionsDisjoint, NullSlotFree

(* No two arrays of the block share a slot, and every buffer lies below the  *)
(* offset, whatever the arrays did before.                                   *)
THEOREM BuffersApart ==
  ASSUME ~ MayExhaust
  PROVE  StaticSpec => []RegionsDisjoint
<1>1. IInv => RegionsDisjoint
  BY InvApart, StaticMemoryAssumption
<1> QED
  BY <1>1, Safety, PTL

(* "offset 0 has nullptr semantics": the promise that a run shows broken     *)
(* when a caller asks for too much is kept when none does.                   *)
THEOREM NullSlotKept ==
  ASSUME ~ MayExhaust
  PROVE  StaticSpec => []NullSlotFree
<1>1. IInv => NullSlotFree
  BY InvApart, StaticMemoryAssumption
<1> QED
  BY <1>1, Safety, PTL

(* Arrays that share one block behave as if each had memory of its own:      *)
(* every call of dynamic_array changes the array it names as a vector would, *)
(* and no other array.                                                       *)
THEOREM ImplementsVector ==
  ASSUME ~ MayExhaust
  PROVE  StaticSpec => ArraysBehave
<1>1. StaticInit => Vec!Init
  BY InitInv, StaticMemoryAssumption
<1>2. IInv /\ [StaticNext]_staticVars => [VectorStep]_staticVars
  BY StepInv, StutterInv, StaticMemoryAssumption
<1> QED
  BY <1>1, <1>2, Safety, PTL DEF StaticSpec, ArraysBehave
=============================================================================
