---------------------------- MODULE Hive_proofs -----------------------------
(* Proofs about Hive, for every set of values and every number of slots. *)
EXTENDS Hive, SequenceTheorems, WellFoundedInduction, TLAPS

(* Where the traversal's iterator can stand: nowhere, or within the slots or *)
(* at their end.                                                             *)
CursorInRange == cursor = NoCursor \/ cursor \in 0..Len(cells)

(* The inductive invariant.  FreeListExact feeds itself; the traversal needs *)
(* to know besides where its cursor can be.                                  *)
IInv == HiveTypeOK /\ FreeListExact /\ CursorInRange /\ TraversalComplete
-----------------------------------------------------------------------------
(* A nonempty set of naturals has a least element: the search of             *)
(* advance_to_filled ends at one.                                            *)
LEMMA LessThanRelation == OpToRel(<, Nat) = {p \in Nat \X Nat : p[1] < p[2]}
BY Zenon DEF OpToRel

LEMMA LeastNatural ==
  ASSUME NEW T, T \subseteq Nat, T # {}
  PROVE  \E x \in T : \A y \in T : x <= y
<1> DEFINE R == {p \in Nat \X Nat : p[1] < p[2]}
<1>1. IsWellFoundedOn(R, Nat)
  BY LessThanRelation, NatLessThanWellFounded, Zenon
<1>2. PICK x \in T : \A y \in T : ~ (<<y, x>> \in R)
  BY <1>1, WFMin
<1>3. ASSUME NEW y \in T, y < x PROVE FALSE
  <2>1. <<y, x>> \in Nat \X Nat
    OBVIOUS
  <2>2. <<y, x>> \in R
    BY <2>1, <1>3
  <2> QED
    BY <1>2, <2>2
<1> QED
  BY <1>2, <1>3

(* advance_to_filled skips no filled slot and stays within the slots. *)
LEMMA AdvanceSkipsHoles ==
  ASSUME NEW s, s \in Seq(Items \cup {Hole}), NEW i, i \in 0..Len(s)
  PROVE  /\ Advance(s, i) \in i..Len(s)
         /\ \A j \in i..(Len(s) - 1) : s[j + 1] # Hole => Advance(s, i) <= j
<1> DEFINE ahead == {j \in i..(Len(s) - 1) : s[j + 1] # Hole}
<1>0. Len(s) \in Nat /\ i \in Nat
  BY LenProperties
<1>1. CASE ahead = {}
  <2>1. Advance(s, i) = Len(s)
    BY <1>1 DEF Advance
  <2>2. \A j \in i..(Len(s) - 1) : s[j + 1] = Hole
    BY <1>1
  <2> QED
    BY <1>0, <2>1, <2>2
<1>2. CASE ahead # {}
  <2>1. ahead \subseteq Nat
    BY <1>0
  <2> HIDE DEF ahead
  <2>2. \E m \in ahead : \A k \in ahead : m <= k
    BY <1>2, <2>1, LeastNatural
  <2> DEFINE m == CHOOSE j \in ahead : \A k \in ahead : j <= k
  <2>3. m \in ahead /\ \A k \in ahead : m <= k
    BY <2>2
  <2>4. Advance(s, i) = m
    BY <1>2 DEF Advance, ahead
  <2> HIDE DEF m
  <2> QED
    BY <1>0, <2>3, <2>4 DEF ahead
<1> QED
  BY <1>1, <1>2

(* What each kind of change of one slot does to the set of filled slots. *)
LEMMA FillSlot ==
  ASSUME HiveTypeOK, NEW i \in Indices, NEW v, cells' = [cells EXCEPT ![i + 1] = v]
  PROVE  /\ Indices' = Indices
         /\ v # Hole => Taken' = Taken \cup {i}
         /\ v = Hole => Taken' = Taken \ {i}
         /\ \A j \in Indices \ {i} : At(j)' = At(j)
         /\ At(i)' = v
<1>1. /\ Len(cells) \in Nat /\ DOMAIN cells = 1..Len(cells)
      /\ i \in 0..(Len(cells) - 1)
  BY LenProperties DEF HiveTypeOK, Indices
<1>2. Len(cells') = Len(cells) /\ Indices' = Indices
  BY <1>1 DEF HiveTypeOK, Indices
<1>3. At(i)' = v /\ \A j \in Indices \ {i} : At(j)' = At(j)
  BY <1>1 DEF Indices, At
<1> QED
  BY <1>2, <1>3 DEF Taken
-----------------------------------------------------------------------------
(* The slots a growth pushes on the free list, and the list it pushes them on. *)
Counting(L, m) == [k \in 1..m |-> L + k - 1]

Extends(g, f, F, L, m) ==
  /\ DOMAIN f = 1..F /\ DOMAIN g = 1..(F + m)
  /\ \A k \in 1..F : g[k] = f[k]
  /\ \A k \in 1..m : g[F + k] = L + k - 1

(* What pushing the m slots from L on the list f leaves on it. *)
LEMMA ExtendedShape ==
  ASSUME NEW f, f \in Seq(Nat), NEW L, L \in Nat, NEW m, m \in Nat
  PROVE  /\ f \o Counting(L, m) \in Seq(Nat)
         /\ Len(f \o Counting(L, m)) = Len(f) + m
         /\ Extends(f \o Counting(L, m), f, Len(f), L, m)
<1>1. /\ Counting(L, m) \in Seq(Nat) /\ Len(Counting(L, m)) = m
      /\ \A k \in 1..m : Counting(L, m)[k] = L + k - 1
  <2>1. Counting(L, m) \in [1..m -> Nat]
    BY DEF Counting
  <2>2. \A k \in 1..m : Counting(L, m)[k] = L + k - 1
    BY DEF Counting
  <2> QED
    BY <2>1, <2>2
<1>2. Len(f) \in Nat /\ DOMAIN f = 1..Len(f)
  BY LenProperties
<1> DEFINE new == Counting(L, m)
<1> DEFINE g == f \o new
<1>3. /\ g \in Seq(Nat) /\ Len(g) = Len(f) + m
      /\ \A k \in 1..(Len(f) + m) : g[k] = IF k <= Len(f) THEN f[k] ELSE new[k - Len(f)]
  <2> HIDE DEF new
  <2>1. new \in Seq(Nat) /\ Len(new) = m
    BY <1>1 DEF new
  <2> QED
    BY <1>2, <2>1, ConcatProperties
<1> HIDE DEF g
<1>4. \A k \in 1..Len(f) : g[k] = f[k]
  BY <1>2, <1>3
<1>5. ASSUME NEW k \in 1..m PROVE g[Len(f) + k] = L + k - 1
  <2> HIDE DEF new
  <2>1. /\ Len(f) + k \in 1..(Len(f) + m) /\ ~ Len(f) + k <= Len(f)
        /\ (Len(f) + k) - Len(f) = k
    BY <1>2
  <2>2. g[Len(f) + k] = new[k]
    BY <1>3, <2>1
  <2> QED
    BY <1>1, <2>2 DEF new
<1>6. DOMAIN g = 1..(Len(f) + m)
  BY <1>3, LenProperties
<1>7. Extends(g, f, Len(f), L, m)
  BY <1>2, <1>4, <1>5, <1>6 DEF Extends
<1> QED
  BY <1>3, <1>7 DEF g

(* A free list f that names the members of S, each once. *)
Names(f, S) ==
  /\ \A k \in DOMAIN f : f[k] \in S
  /\ \A j, k \in DOMAIN f : f[j] = f[k] => j = k
  /\ \A i \in S : \E k \in DOMAIN f : f[k] = i

(* Such a list names exactly the empty slots if the one it extends did. *)
LEMMA ExtendedExact ==
  ASSUME NEW f, NEW g, NEW F \in Nat, NEW L \in Nat, NEW m \in Nat,
         Extends(g, f, F, L, m),
         NEW filled, filled \subseteq 0..(L - 1),
         Names(f, 0..(L - 1) \ filled)
  PROVE  Names(g, 0..(L + m - 1) \ filled)
<1>0. /\ DOMAIN f = 1..F /\ DOMAIN g = 1..(F + m)
      /\ \A k \in 1..F : g[k] = f[k]
      /\ \A k \in 1..m : g[F + k] = L + k - 1
      /\ \A k \in 1..F : f[k] \in 0..(L - 1) \ filled
      /\ \A j, k \in 1..F : f[j] = f[k] => j = k
      /\ \A i \in 0..(L - 1) \ filled : \E k \in 1..F : f[k] = i
  BY DEF Extends, Names
<1>1. ASSUME NEW k \in DOMAIN g
      PROVE  \/ k \in 1..F /\ g[k] = f[k] /\ g[k] \in 0..(L - 1) \ filled
             \/ k \in (F + 1)..(F + m) /\ g[k] = L + (k - F) - 1
  <2>1. CASE k <= F
    BY <2>1, <1>0
  <2>2. CASE k > F
    <3>1. k - F \in 1..m /\ F + (k - F) = k
      BY <2>2, <1>0
    <3>2. g[F + (k - F)] = L + (k - F) - 1
      BY <1>0, <3>1
    <3> QED
      BY <3>1, <3>2
  <2> QED
    BY <1>0, <2>1, <2>2
<1>2. ASSUME NEW k \in DOMAIN g PROVE g[k] \in 0..(L + m - 1) \ filled
  BY <1>0, <1>1
<1>3. ASSUME NEW j \in DOMAIN g, NEW k \in DOMAIN g, g[j] = g[k] PROVE j = k
  <2>1. /\ j \in 1..F \/ j \in (F + 1)..(F + m)
        /\ k \in 1..F \/ k \in (F + 1)..(F + m)
    BY <1>1
  <2>2. \A x \in {j, k} : x \in 1..F => g[x] = f[x] /\ g[x] \in 0..(L - 1)
    BY <1>0
  <2>3. \A x \in {j, k} : x \in (F + 1)..(F + m) => g[x] = L + (x - F) - 1
    <3>1. ASSUME NEW x \in {j, k}, x \in (F + 1)..(F + m) PROVE g[x] = L + (x - F) - 1
      <4>1. x \in DOMAIN g /\ x \notin 1..F
        BY <3>1
      <4> QED
        BY <1>1, <4>1
    <3> QED
      BY <3>1
  <2>4. CASE j \in 1..F /\ k \in 1..F
    BY <1>0, <1>3, <2>2, <2>4
  <2>5. CASE j \in (F + 1)..(F + m) /\ k \in (F + 1)..(F + m)
    <3>1. L + (j - F) - 1 = L + (k - F) - 1
      BY <1>3, <2>3, <2>5
    <3> QED
      BY <3>1, <2>5
  <2>6. ASSUME NEW x \in {j, k}, NEW y \in {j, k}, x \in 1..F, y \in (F + 1)..(F + m)
        PROVE  g[x] # g[y]
    <3>1. g[x] \in 0..(L - 1) /\ g[y] = L + (y - F) - 1
      BY <2>2, <2>3, <2>6
    <3> QED
      BY <3>1, <2>6
  <2> QED
    BY <1>3, <2>1, <2>4, <2>5, <2>6
<1>4. ASSUME NEW i \in 0..(L + m - 1) \ filled PROVE \E k \in DOMAIN g : g[k] = i
  <2>1. CASE i < L
    <3>1. PICK k \in 1..F : f[k] = i
      BY <1>0, <2>1
    <3>2. k \in DOMAIN g /\ g[k] = i
      BY <1>0, <3>1
    <3> QED
      BY <3>2
  <2>2. CASE i >= L
    <3>1. i - L + 1 \in 1..m /\ F + (i - L + 1) \in DOMAIN g /\ L + (i - L + 1) - 1 = i
      BY <1>0, <2>2
    <3>2. g[F + (i - L + 1)] = L + (i - L + 1) - 1
      BY <1>0, <3>1
    <3> QED
      BY <3>1, <3>2
  <2> QED
    BY <1>0, <2>1, <2>2
<1> QED
  BY <1>2, <1>3, <1>4 DEF Names

(* A growth pushes its new slots and disturbs no element. *)
LEMMA ReserveKeepsFreeList ==
  ASSUME HiveTypeOK, FreeListExact, NEW n \in 1..MaxSlots, Reserve(n)
  PROVE  /\ HiveTypeOK' /\ FreeListExact' /\ Taken' = Taken /\ Len(cells') = n
         /\ \A j \in Taken : At(j)' = At(j)
<1>1. /\ Len(cells) \in Nat /\ DOMAIN cells = 1..Len(cells) /\ n > Len(cells) /\ n \in Nat
      /\ n <= MaxSlots /\ free \in Seq(Nat) /\ Len(free) \in Nat
  BY LenProperties, HiveAssumption DEF HiveTypeOK, Reserve
<1>2. /\ cells' \in Seq(Items \cup {Hole}) /\ Len(cells') = n
      /\ \A k \in 1..n : cells'[k] = IF k <= Len(cells) THEN cells[k] ELSE Hole
  <2>1. cells' \in [1..n -> Items \cup {Hole}]
    BY <1>1 DEF HiveTypeOK, Reserve
  <2> QED
    BY <1>1, <2>1 DEF Reserve
<1>3. /\ Indices' = 0..(n - 1) /\ Taken' = Taken
      /\ \A j \in Taken : At(j)' = At(j)
  BY <1>1, <1>2 DEF Indices, Taken, At
<1>4. free' = free \o Counting(Len(cells), n - Len(cells))
  BY DEF Reserve, Counting
<1>5. /\ \A k \in DOMAIN free : free[k] \in 0..(Len(cells) - 1) \ Taken
      /\ \A j, k \in DOMAIN free : free[j] = free[k] => j = k
      /\ \A i \in 0..(Len(cells) - 1) \ Taken : \E k \in DOMAIN free : free[k] = i
      /\ Taken \subseteq 0..(Len(cells) - 1)
  BY DEF FreeListExact, Indices, Taken
<1>6. /\ free' \in Seq(Nat) /\ Len(free') = Len(free) + (n - Len(cells))
      /\ Extends(free', free, Len(free), Len(cells), n - Len(cells))
  <2>1. n - Len(cells) \in Nat /\ Len(cells) \in Nat /\ free \in Seq(Nat)
    BY <1>1
  <2> QED
    BY <1>4, <2>1, ExtendedShape, Zenon
<1>7. /\ \A k \in DOMAIN free' : free'[k] \in 0..(n - 1) \ Taken
      /\ \A j, k \in DOMAIN free' : free'[j] = free'[k] => j = k
      /\ \A i \in 0..(n - 1) \ Taken : \E k \in DOMAIN free' : free'[k] = i
  <2>1. PICK m \in Nat : m = n - Len(cells) /\ Len(cells) + m = n
    BY <1>1
  <2>2. Extends(free', free, Len(free), Len(cells), m)
    BY <1>6, <2>1
  <2>3. Names(free, 0..(Len(cells) - 1) \ Taken)
    BY <1>5 DEF Names
  <2>4. Names(free', 0..(Len(cells) + m - 1) \ Taken)
    BY <1>1, <1>5, <2>2, <2>3, ExtendedExact
  <2> QED
    BY <2>1, <2>4 DEF Names
<1>8. HiveTypeOK'
  BY <1>1, <1>2, <1>6 DEF HiveTypeOK, Reserve
<1>9. held' + Len(free') = Len(cells')
  <2>1. held' = held /\ held \in Int /\ held + Len(free) = Len(cells)
    BY DEF Reserve, FreeListExact, HiveTypeOK
  <2>2. Len(free') = Len(free) + (n - Len(cells)) /\ Len(cells') = n
    BY <1>2, <1>6
  <2>3. Len(cells) \in Nat /\ Len(free) \in Nat /\ n \in Nat
    BY <1>1
  <2> QED
    BY <2>1, <2>2, <2>3
<1> QED
  BY <1>2, <1>3, <1>7, <1>8, <1>9 DEF FreeListExact

(* Taking the top of the free list fills exactly that slot. *)
LEMMA ReusingKeepsFreeList ==
  ASSUME HiveTypeOK, FreeListExact, NEW v \in Items, InsertReusing(v)
  PROVE  /\ HiveTypeOK' /\ FreeListExact'
         /\ \E i \in Indices \ Taken :
              /\ Taken' = Taken \cup {i}
              /\ At(i)' = v /\ \A j \in Taken : At(j)' = At(j)
         /\ Len(cells') = Len(cells)
<1>1. /\ Len(free) \in Nat \ {0} /\ DOMAIN free = 1..Len(free) /\ v # Hole
      /\ Len(cells) \in Nat
  BY LenProperties, EmptySeq, HiveAssumption DEF HiveTypeOK, InsertReusing
<1>2. PICK i \in Indices \ Taken : i = free[Len(free)]
  BY <1>1 DEF FreeListExact
<1>3. cells' = [cells EXCEPT ![i + 1] = v]
  BY <1>2 DEF InsertReusing
<1>4. free' = SubSeq(free, 1, Len(free) - 1) /\ held' = held + 1 /\ UNCHANGED <<cursor, todo>>
  BY DEF InsertReusing
<1>5. /\ free' \in Seq(Nat) /\ Len(free') = Len(free) - 1
      /\ DOMAIN free' = 1..(Len(free) - 1)
      /\ \A k \in 1..(Len(free) - 1) : free'[k] = free[k]
  BY <1>1, <1>4 DEF HiveTypeOK
<1>6. \A k \in 1..(Len(free) - 1) : free[k] # i
  BY <1>1, <1>2 DEF FreeListExact
<1>7. cells' \in Seq(Items \cup {Hole}) /\ Len(cells') = Len(cells)
  BY <1>2, <1>3 DEF HiveTypeOK, Indices
<1>8. /\ Indices' = Indices /\ Taken' = Taken \cup {i}
      /\ At(i)' = v /\ \A j \in Indices \ {i} : At(j)' = At(j)
  BY <1>1, <1>2, <1>3, FillSlot
<1>9. HiveTypeOK'
  BY <1>4, <1>5, <1>7 DEF HiveTypeOK
<1>10. \A k \in DOMAIN free' : free'[k] \in Indices' \ Taken'
  <2> SUFFICES ASSUME NEW k \in 1..(Len(free) - 1) PROVE free'[k] \in Indices' \ Taken'
    BY <1>5
  <2>1. k \in DOMAIN free /\ free'[k] = free[k]
    BY <1>1, <1>5
  <2>2. free[k] \in Indices \ Taken
    BY <2>1 DEF FreeListExact
  <2>3. free[k] # i
    BY <1>6
  <2> QED
    BY <1>8, <2>1, <2>2, <2>3
<1>11. \A j, k \in DOMAIN free' : free'[j] = free'[k] => j = k
  <2> SUFFICES ASSUME NEW j \in 1..(Len(free) - 1), NEW k \in 1..(Len(free) - 1),
                      free[j] = free[k]
               PROVE  j = k
    BY <1>5
  <2>1. j \in DOMAIN free /\ k \in DOMAIN free
    BY <1>1
  <2> QED
    BY <2>1 DEF FreeListExact
<1>12. \A j \in Indices' \ Taken' : \E k \in DOMAIN free' : free'[k] = j
  <2> SUFFICES ASSUME NEW j \in Indices \ Taken, j # i
               PROVE  \E k \in 1..(Len(free) - 1) : free'[k] = j
    BY <1>5, <1>8
  <2>1. PICK k \in DOMAIN free : free[k] = j
    BY DEF FreeListExact
  <2>2. k # Len(free)
    BY <1>2, <2>1
  <2> QED
    BY <1>1, <1>5, <2>1, <2>2
<1>13. held' + Len(free') = Len(cells')
  <2>1. held' = held + 1 /\ held \in Int /\ held + Len(free) = Len(cells)
    BY <1>4 DEF FreeListExact, HiveTypeOK
  <2>2. Len(free') = Len(free) - 1 /\ Len(free) \in Nat /\ Len(cells') = Len(cells)
    BY <1>1, <1>5, <1>7
  <2> QED
    BY <2>1, <2>2
<1>14. FreeListExact'
  BY <1>10, <1>11, <1>12, <1>13 DEF FreeListExact
<1>15. \A j \in Taken : At(j)' = At(j)
  BY <1>2, <1>8 DEF Taken
<1> QED
  BY <1>2, <1>7, <1>8, <1>9, <1>14, <1>15

(* An insertion at the end fills one new slot and leaves none empty. *)
LEMMA AtEndKeepsFreeList ==
  ASSUME HiveTypeOK, FreeListExact, NEW v \in Items, InsertAtEnd(v)
  PROVE  /\ HiveTypeOK' /\ FreeListExact'
         /\ Taken' = Taken \cup {Len(cells)}
         /\ cells'[Len(cells) + 1] = v /\ \A j \in Taken : At(j)' = At(j)
         /\ Len(cells') = Len(cells) + 1
<1>1. /\ Len(cells) \in Nat /\ DOMAIN cells = 1..Len(cells) /\ v # Hole
      /\ cells' = Append(cells, v) /\ free' = free /\ free = <<>> /\ held' = held + 1
      /\ Len(cells) < MaxSlots /\ UNCHANGED <<cursor, todo>>
  BY LenProperties, HiveAssumption DEF HiveTypeOK, InsertAtEnd
<1>2. /\ cells' \in Seq(Items \cup {Hole}) /\ Len(cells') = Len(cells) + 1
      /\ cells'[Len(cells) + 1] = v
      /\ \A k \in 1..Len(cells) : cells'[k] = cells[k]
  BY <1>1, AppendProperties DEF HiveTypeOK
<1>3. Indices' = Indices \cup {Len(cells)}
  BY <1>1, <1>2 DEF Indices
<1>4. cells'[Len(cells) + 1] = v /\ \A j \in Indices : cells'[j + 1] = cells[j + 1]
  <2>1. \A j \in Indices : j + 1 \in 1..Len(cells)
    BY <1>1 DEF Indices
  <2> QED
    BY <1>2, <2>1
<1>5. Taken' = Taken \cup {Len(cells)}
  <2>1. Taken' = {j \in Indices' : cells'[j + 1] # Hole}
    BY DEF Taken, At
  <2>2. Taken = {j \in Indices : cells[j + 1] # Hole}
    BY DEF Taken, At
  <2> QED
    BY <1>1, <1>3, <1>4, <2>1, <2>2
<1>6. HiveTypeOK'
  BY <1>1, <1>2, HiveAssumption DEF HiveTypeOK
<1>7. FreeListExact'
  <2>1. Indices \ Taken = {}
    BY <1>1 DEF FreeListExact
  <2>2. Indices' \ Taken' = {}
    BY <2>1, <1>3, <1>5
  <2>3. held' + Len(free') = Len(cells')
    BY <1>1, <1>2 DEF FreeListExact, HiveTypeOK
  <2> QED
    BY <1>1, <2>2, <2>3 DEF FreeListExact
<1> QED
  <2>1. \A j \in Taken : At(j)' = At(j)
    BY <1>4 DEF Taken, At
  <2> QED
    BY <1>2, <1>4, <1>5, <1>6, <1>7, <2>1

(* An erasure empties one slot and pushes it. *)
LEMMA VacateKeepsFreeList ==
  ASSUME HiveTypeOK, FreeListExact, NEW i \in Taken, Vacate(i), cursor' \in Int
  PROVE  /\ HiveTypeOK' /\ FreeListExact'
         /\ Taken' = Taken \ {i} /\ \A j \in Taken' : At(j)' = At(j)
         /\ Len(cells') = Len(cells) /\ cells' \in Seq(Items \cup {Hole})
<1>0. /\ \A k \in DOMAIN free : free[k] \in Indices \ Taken
      /\ \A j, k \in DOMAIN free : free[j] = free[k] => j = k
      /\ \A j \in Indices \ Taken : \E k \in DOMAIN free : free[k] = j
      /\ held + Len(free) = Len(cells) /\ held \in Int
  BY DEF FreeListExact, HiveTypeOK
<1>1. /\ cells' = [cells EXCEPT ![i + 1] = Hole] /\ free' = Append(free, i)
      /\ held' = held - 1 /\ todo' = todo \ {i}
      /\ i \in Indices /\ i \in Nat
      /\ Len(free) \in Nat /\ DOMAIN free = 1..Len(free) /\ Len(cells) \in Nat
  BY LenProperties DEF HiveTypeOK, Vacate, Taken, Indices
<1>2. /\ Indices' = Indices /\ Taken' = Taken \ {i}
      /\ \A j \in Indices \ {i} : At(j)' = At(j)
  BY <1>1, FillSlot
<1>3. cells' \in Seq(Items \cup {Hole}) /\ Len(cells') = Len(cells)
  BY <1>1 DEF HiveTypeOK, Indices
<1>4. /\ free' \in Seq(Nat) /\ Len(free') = Len(free) + 1
      /\ DOMAIN free' = 1..(Len(free) + 1)
      /\ free'[Len(free) + 1] = i
      /\ \A k \in 1..Len(free) : free'[k] = free[k]
  BY <1>1, AppendProperties DEF HiveTypeOK
<1>5. HiveTypeOK'
  BY <1>1, <1>3, <1>4 DEF HiveTypeOK
<1>6. \A k \in DOMAIN free' : free'[k] \in Indices' \ Taken'
  BY <1>1, <1>2, <1>4 DEF FreeListExact
<1>7. \A j, k \in DOMAIN free' : free'[j] = free'[k] => j = k
  <2>1. \A k \in 1..Len(free) : free'[k] # i
    BY <1>0, <1>1, <1>4
  <2>2. \A k \in DOMAIN free' : k = Len(free) + 1 \/ k \in DOMAIN free
    BY <1>1, <1>4
  <2> QED
    BY <1>0, <1>1, <1>4, <2>1, <2>2
<1>8. \A j \in Indices' \ Taken' : \E k \in DOMAIN free' : free'[k] = j
  <2> SUFFICES ASSUME NEW j \in Indices' \ Taken'
               PROVE  \E k \in DOMAIN free' : free'[k] = j
    OBVIOUS
  <2>0. CASE j = i
    <3>1. Len(free) + 1 \in DOMAIN free'
      BY <1>1, <1>4
    <3> QED
      BY <1>4, <2>0, <3>1
  <2>1. CASE j # i
    <3>1. PICK k \in DOMAIN free : free[k] = j
      BY <1>0, <1>2, <2>1
    <3> QED
      BY <1>1, <1>4, <3>1
  <2> QED
    BY <2>0, <2>1
<1>9. held' + Len(free') = Len(cells')
  <2>1. held' = held - 1 /\ held \in Int /\ held + Len(free) = Len(cells)
    BY <1>0, <1>1
  <2>2. Len(free') = Len(free) + 1 /\ Len(free) \in Nat /\ Len(cells') = Len(cells)
    BY <1>1, <1>3, <1>4
  <2> QED
    BY <2>1, <2>2
<1> QED
  BY <1>2, <1>3, <1>5, <1>6, <1>7, <1>8, <1>9 DEF FreeListExact, Taken
-----------------------------------------------------------------------------
(* What one step does to the elements: the abstract step it implements.  The *)
(* first three conjuncts are inductive; the traversal is treated below.      *)
Inserted(i, v) ==
  /\ i \notin Taken /\ i \in 0..(MaxSlots - 1) /\ v \in Items
  /\ Taken' = Taken \cup {i}
  /\ cells'[i + 1] = v /\ \A j \in Taken : At(j)' = At(j)

Kept == Taken' = Taken /\ \A j \in Taken : At(j)' = At(j)

Erased(i) ==
  /\ i \in Taken
  /\ Taken' = Taken \ {i} /\ \A j \in Taken' : At(j)' = At(j)

LEMMA InsertInserts ==
  ASSUME HiveTypeOK, FreeListExact, NEW v \in Items, InsertElement(v)
  PROVE  /\ HiveTypeOK' /\ FreeListExact' /\ UNCHANGED <<cursor, todo>>
         /\ Len(cells) \in Nat /\ Len(cells') \in Nat /\ Len(cells) <= Len(cells')
         /\ \E i \in Nat : Inserted(i, v)
<1>0. Len(cells) \in Nat /\ Len(cells) <= MaxSlots /\ MaxSlots \in Nat
  BY LenProperties, HiveAssumption DEF HiveTypeOK
<1>1. CASE InsertReusing(v)
  <2>1. /\ HiveTypeOK' /\ FreeListExact' /\ Len(cells') = Len(cells)
        /\ \E i \in Indices \ Taken :
              /\ Taken' = Taken \cup {i}
              /\ At(i)' = v /\ \A j \in Taken : At(j)' = At(j)
    BY <1>1, ReusingKeepsFreeList
  <2>2. PICK i \in Indices \ Taken :
              /\ Taken' = Taken \cup {i}
              /\ At(i)' = v /\ \A j \in Taken : At(j)' = At(j)
    BY <2>1
  <2>3. i \in 0..(MaxSlots - 1) /\ cells'[i + 1] = v
    BY <1>0, <2>2 DEF Indices, At
  <2>4. Inserted(i, v)
    BY <2>2, <2>3 DEF Inserted
  <2>5. UNCHANGED <<cursor, todo>>
    BY <1>1 DEF InsertReusing
  <2> QED
    BY <1>0, <2>1, <2>3, <2>4, <2>5
<1>2. CASE InsertAtEnd(v)
  <2>1. /\ HiveTypeOK' /\ FreeListExact' /\ Len(cells') = Len(cells) + 1
        /\ Taken' = Taken \cup {Len(cells)}
        /\ cells'[Len(cells) + 1] = v /\ \A j \in Taken : At(j)' = At(j)
    BY <1>2, AtEndKeepsFreeList
  <2>2. Len(cells) \in 0..(MaxSlots - 1) /\ Len(cells) \notin Taken
    BY <1>0, <1>2 DEF InsertAtEnd, Taken, Indices
  <2>3. Inserted(Len(cells), v)
    BY <2>1, <2>2 DEF Inserted
  <2>4. UNCHANGED <<cursor, todo>>
    BY <1>2 DEF InsertAtEnd
  <2> QED
    BY <1>0, <2>1, <2>3, <2>4
<1> QED
  BY <1>1, <1>2 DEF InsertElement

(* Where the cursor goes when it moves on from slot i. *)
LEMMA CursorMovesOn ==
  ASSUME NEW s, s \in Seq(Items \cup {Hole}), NEW i \in Nat, i <= Len(s)
  PROVE  /\ Advance(s, i) \in Nat /\ i <= Advance(s, i) /\ Advance(s, i) <= Len(s)
         /\ \A j \in Nat : i <= j /\ j <= Len(s) - 1 /\ s[j + 1] # Hole => Advance(s, i) <= j
<1>1. Len(s) \in Nat /\ i \in 0..Len(s)
  BY LenProperties
<1>2. /\ Advance(s, i) \in i..Len(s)
      /\ \A j \in i..(Len(s) - 1) : s[j + 1] # Hole => Advance(s, i) <= j
  BY <1>1, AdvanceSkipsHoles
<1> QED
  BY <1>1, <1>2

(* The filled slots are slots. *)
LEMMA FilledIs ==
  ASSUME HiveTypeOK
  PROVE  /\ Taken \subseteq Nat /\ Len(cells) \in Nat
         /\ \A j \in Taken : j <= Len(cells) - 1 /\ cells[j + 1] # Hole
BY LenProperties DEF HiveTypeOK, Taken, Indices, At
-----------------------------------------------------------------------------
(* The invariant holds of an empty hive. *)
LEMMA InitInv == HiveInit => IInv
<1> SUFFICES ASSUME HiveInit PROVE IInv
  OBVIOUS
<1>1. cells = <<>> /\ free = <<>> /\ held = 0 /\ cursor = NoCursor /\ todo = {}
  BY DEF HiveInit
<1>2. HiveTypeOK
  BY <1>1, HiveAssumption DEF HiveTypeOK, NoCursor
<1>3. Indices = {} /\ Taken = {} /\ DOMAIN free = {}
  BY <1>1 DEF Indices, Taken
<1>4. FreeListExact
  BY <1>1, <1>3 DEF FreeListExact
<1> QED
  BY <1>1, <1>2, <1>4 DEF IInv, CursorInRange, TraversalComplete

(* reserve keeps the invariant and every element. *)
LEMMA ReserveInv ==
  ASSUME IInv, NEW n \in 1..MaxSlots, Reserve(n)
  PROVE  IInv' /\ Kept
<1>1. /\ HiveTypeOK' /\ FreeListExact' /\ Taken' = Taken /\ Len(cells') = n
      /\ \A j \in Taken : At(j)' = At(j)
  BY ReserveKeepsFreeList DEF IInv
<1>2. /\ cursor' = cursor /\ todo' = todo /\ n > Len(cells) /\ n \in Nat /\ Len(cells) \in Nat
  BY HiveAssumption, FilledIs DEF Reserve, IInv
<1>3. CursorInRange'
  BY <1>1, <1>2 DEF IInv, CursorInRange
<1> QED
  BY <1>1, <1>2, <1>3 DEF IInv, TraversalComplete, Kept

(* insert keeps the invariant and adds one element. *)
LEMMA InsertInv ==
  ASSUME IInv, NEW v \in Items, InsertElement(v)
  PROVE  IInv' /\ \E i \in Nat : Inserted(i, v)
<1>1. /\ HiveTypeOK' /\ FreeListExact' /\ UNCHANGED <<cursor, todo>>
      /\ Len(cells) \in Nat /\ Len(cells') \in Nat /\ Len(cells) <= Len(cells')
      /\ \E i \in Nat : Inserted(i, v)
  BY InsertInserts DEF IInv
<1>2. Taken \subseteq Taken'
  BY <1>1 DEF Inserted
<1>3. CursorInRange'
  BY <1>1 DEF IInv, CursorInRange
<1> QED
  BY <1>1, <1>2, <1>3 DEF IInv, TraversalComplete

(* erase by handle keeps the invariant and removes its element only. *)
LEMMA EraseInv ==
  ASSUME IInv, NEW i, EraseElement(i)
  PROVE  IInv' /\ Erased(i)
<1>1. i \in Taken /\ Vacate(i) /\ cursor' = cursor /\ todo' = todo \ {i} /\ cursor \in Int
  BY DEF EraseElement, Vacate, IInv, HiveTypeOK
<1>2. /\ HiveTypeOK' /\ FreeListExact' /\ Taken' = Taken \ {i}
      /\ \A j \in Taken' : At(j)' = At(j) /\ Len(cells') = Len(cells)
  BY <1>1, VacateKeepsFreeList DEF IInv
<1>3. TraversalComplete'
  BY <1>1, <1>2 DEF IInv, TraversalComplete
<1>4. CursorInRange'
  BY <1>1, <1>2, VacateKeepsFreeList DEF IInv, CursorInRange
<1> QED
  BY <1>1, <1>2, <1>3, <1>4 DEF IInv, Erased

(* erase through the iterator keeps it, and moves the traversal on. *)
LEMMA EraseAtCursorInv ==
  ASSUME IInv, EraseAtCursor
  PROVE  IInv' /\ Erased(cursor)
<1>1. /\ cursor \in Taken /\ Vacate(cursor) /\ todo' = todo \ {cursor}
      /\ cursor' = Advance(cells', cursor + 1)
  BY DEF EraseAtCursor, Vacate
<1>2. cursor \in Nat /\ cursor <= Len(cells) - 1 /\ Len(cells) \in Nat
  BY <1>1, FilledIs DEF IInv
<1>3. cells' \in Seq(Items \cup {Hole}) /\ Len(cells') = Len(cells)
  BY <1>1, <1>2 DEF IInv, HiveTypeOK, Vacate
<1>4. /\ cursor' \in Nat /\ cursor + 1 <= cursor' /\ cursor' <= Len(cells')
      /\ \A j \in Nat : cursor + 1 <= j /\ j <= Len(cells') - 1 /\ cells'[j + 1] # Hole
                       => cursor' <= j
  <2>1. cursor + 1 \in Nat /\ cursor + 1 <= Len(cells')
    BY <1>2, <1>3
  <2> QED
    BY <1>1, <1>3, <2>1, CursorMovesOn
<1>5. PICK c : c = cursor
  OBVIOUS
<1>6. cursor' \in Int
  BY <1>4
<1>7. Vacate(c) /\ c \in Taken
  BY <1>1, <1>5
<1>8. /\ HiveTypeOK' /\ FreeListExact' /\ Taken' = Taken \ {c}
      /\ \A j \in Taken' : At(j)' = At(j)
  BY <1>6, <1>7, VacateKeepsFreeList DEF IInv
<1>9. CursorInRange'
  BY <1>2, <1>3, <1>4 DEF CursorInRange
<1>10. TraversalComplete'
  <2> SUFFICES ASSUME NEW j \in todo' PROVE j \in Taken' /\ cursor' <= j
    BY DEF TraversalComplete
  <2>1. j \in todo /\ j # cursor
    BY <1>1
  <2>2. cursor # NoCursor
    BY <1>2 DEF NoCursor
  <2>3. j \in Taken /\ cursor <= j
    BY <2>1, <2>2 DEF IInv, TraversalComplete
  <2>4. j \in Taken'
    BY <2>1, <2>3, <1>5, <1>8
  <2>5. j \in Nat /\ j <= Len(cells') - 1 /\ cells'[j + 1] # Hole
    <3>1. j \in Indices' /\ cells'[j + 1] # Hole
      BY <2>4 DEF Taken, At
    <3> QED
      BY <1>2, <1>3, <3>1 DEF Indices
  <2>6. cursor + 1 <= j
    BY <1>2, <2>1, <2>3, <2>5
  <2> QED
    BY <1>4, <2>4, <2>5, <2>6
<1> QED
  BY <1>5, <1>7, <1>8, <1>9, <1>10 DEF IInv, Erased

(* begin keeps it: the traversal starts at the first element. *)
LEMMA BeginInv ==
  ASSUME IInv, Begin
  PROVE  IInv' /\ Kept
<1>1. /\ cursor' = Advance(cells, 0) /\ todo' = Taken
      /\ cells' = cells /\ free' = free /\ held' = held
  BY DEF Begin
<1>2. /\ Taken \subseteq Nat /\ Len(cells) \in Nat /\ cells \in Seq(Items \cup {Hole})
      /\ \A j \in Taken : j <= Len(cells) - 1 /\ cells[j + 1] # Hole
  BY FilledIs DEF IInv, HiveTypeOK
<1>3. /\ cursor' \in Nat /\ cursor' <= Len(cells)
      /\ \A j \in Nat : 0 <= j /\ j <= Len(cells) - 1 /\ cells[j + 1] # Hole => cursor' <= j
  BY <1>1, <1>2, CursorMovesOn
<1>4. Taken' = Taken /\ Indices' = Indices /\ \A j \in Taken : At(j)' = At(j)
  BY <1>1 DEF Taken, Indices, At
<1>5. HiveTypeOK'
  BY <1>1, <1>2, <1>3 DEF IInv, HiveTypeOK
<1>6. FreeListExact'
  BY <1>1, <1>4 DEF IInv, FreeListExact
<1>7. CursorInRange'
  BY <1>1, <1>2, <1>3 DEF CursorInRange
<1>8. TraversalComplete'
  <2> SUFFICES ASSUME NEW j \in todo' PROVE j \in Taken' /\ cursor' <= j
    BY DEF TraversalComplete
  <2> QED
    BY <1>1, <1>2, <1>3, <1>4
<1> QED
  BY <1>4, <1>5, <1>6, <1>7, <1>8 DEF IInv, Kept

(* operator++ keeps it: the traversal skips empty slots only. *)
LEMMA IncrementInv ==
  ASSUME IInv, Increment
  PROVE  IInv' /\ Kept
<1>1. /\ cursor \in Taken /\ cursor' = Advance(cells, cursor + 1) /\ todo' = todo \ {cursor}
      /\ cells' = cells /\ free' = free /\ held' = held
  BY DEF Increment
<1>2. /\ Taken \subseteq Nat /\ Len(cells) \in Nat /\ cells \in Seq(Items \cup {Hole})
      /\ \A j \in Taken : j <= Len(cells) - 1 /\ cells[j + 1] # Hole
  BY FilledIs DEF IInv, HiveTypeOK
<1>3. /\ cursor' \in Nat /\ cursor' <= Len(cells)
      /\ \A j \in Nat : cursor + 1 <= j /\ j <= Len(cells) - 1 /\ cells[j + 1] # Hole
                       => cursor' <= j
  <2>1. cursor + 1 \in Nat /\ cursor + 1 <= Len(cells)
    BY <1>1, <1>2
  <2> QED
    BY <1>1, <1>2, <2>1, CursorMovesOn
<1>4. Taken' = Taken /\ Indices' = Indices /\ \A j \in Taken : At(j)' = At(j)
  BY <1>1 DEF Taken, Indices, At
<1>5. HiveTypeOK'
  BY <1>1, <1>3 DEF IInv, HiveTypeOK
<1>6. FreeListExact'
  BY <1>1, <1>4 DEF IInv, FreeListExact
<1>7. CursorInRange'
  BY <1>1, <1>2, <1>3 DEF CursorInRange
<1>8. TraversalComplete'
  <2> SUFFICES ASSUME NEW j \in todo' PROVE j \in Taken' /\ cursor' <= j
    BY DEF TraversalComplete
  <2>1. cursor # NoCursor /\ cursor \in Nat
    BY <1>1, <1>2 DEF NoCursor
  <2>2. j \in Taken /\ cursor <= j /\ j # cursor
    BY <1>1, <2>1 DEF IInv, TraversalComplete
  <2>3. j \in Nat /\ cursor + 1 <= j
    BY <1>2, <2>1, <2>2
  <2> QED
    BY <1>2, <1>3, <1>4, <2>2, <2>3
<1> QED
  BY <1>4, <1>5, <1>6, <1>7, <1>8 DEF IInv, Kept

(* clear keeps it. *)
LEMMA ClearInv ==
  ASSUME ClearHive
  PROVE  IInv' /\ Taken' = {}
<1>1. cells' = <<>> /\ free' = <<>> /\ held' = 0 /\ cursor' = NoCursor /\ todo' = {}
  BY DEF ClearHive
<1>2. HiveTypeOK'
  BY <1>1, HiveAssumption DEF HiveTypeOK, NoCursor
<1>3. Indices' = {} /\ Taken' = {} /\ DOMAIN free' = {}
  BY <1>1 DEF Indices, Taken
<1>4. FreeListExact'
  BY <1>1, <1>3 DEF FreeListExact
<1> QED
  BY <1>1, <1>2, <1>3, <1>4 DEF IInv, CursorInRange, TraversalComplete

(* So does a step of something else. *)
LEMMA StutterInv == ASSUME IInv, UNCHANGED hiveVars PROVE IInv' /\ Kept
<1>1. UNCHANGED <<cells, free, held, cursor, todo>>
  BY DEF hiveVars
<1>2. Taken' = Taken /\ Indices' = Indices /\ \A j \in Taken : At(j)' = At(j)
  BY <1>1 DEF Taken, Indices, At
<1>3. HiveTypeOK' /\ FreeListExact' /\ CursorInRange' /\ TraversalComplete'
  BY <1>1, <1>2 DEF IInv, HiveTypeOK, FreeListExact, CursorInRange, TraversalComplete
<1> QED
  BY <1>2, <1>3 DEF IInv, Kept

(* Every step keeps the invariant. *)
LEMMA NextInv == IInv /\ [HiveNext]_hiveVars => IInv'
<1> SUFFICES ASSUME IInv, [HiveNext]_hiveVars PROVE IInv'
  OBVIOUS
<1>1. CASE \E n \in 1..MaxSlots : Reserve(n)
  BY <1>1, ReserveInv
<1>2. CASE \E v \in Items : InsertElement(v)
  BY <1>2, InsertInv
<1>3. CASE \E i \in Taken : EraseElement(i)
  BY <1>3, EraseInv
<1>4. CASE EraseAtCursor
  BY <1>4, EraseAtCursorInv
<1>5. CASE Begin
  BY <1>5, BeginInv
<1>6. CASE Increment
  BY <1>6, IncrementInv
<1>7. CASE ClearHive
  BY <1>7, ClearInv
<1>8. CASE UNCHANGED hiveVars
  BY <1>8, StutterInv
<1> QED
  BY <1>1, <1>2, <1>3, <1>4, <1>5, <1>6, <1>7, <1>8 DEF HiveNext
-----------------------------------------------------------------------------
(* The inductive invariant holds in every reachable state. *)
THEOREM Inductive == HiveSpec => []IInv
<1>1. HiveInit => IInv
  BY InitInv
<1>2. IInv /\ [HiveNext]_hiveVars => IInv'
  BY NextInv
<1> QED
  BY <1>1, <1>2, PTL DEF HiveSpec

(* The free list names every empty slot exactly once, in every reachable     *)
(* state of a hive of any capacity.                                          *)
THEOREM FreeListCorrect == HiveSpec => []FreeListExact
<1>1. IInv => FreeListExact
  BY DEF IInv
<1> QED
  BY <1>1, Inductive, PTL

(* A traversal that erases and inserts as it goes misses no element.         *)
THEOREM TraversalCorrect == HiveSpec => []TraversalComplete
<1>1. IInv => TraversalComplete
  BY DEF IInv
<1> QED
  BY <1>1, Inductive, PTL
-----------------------------------------------------------------------------
(* The refinement: each step is the abstract one that Inserted, Erased or    *)
(* Kept names.                                                               *)
Content == [i \in Taken |-> At(i)]

(* Adding one element is HiveSpec's Insert. *)
LEMMA InsertedIsInsert ==
  ASSUME NEW i, NEW v, Inserted(i, v)
  PROVE  Elements!Insert(i, v) /\ i \in 0..(MaxSlots - 1)
<1>1. /\ i \notin Taken /\ i \in 0..(MaxSlots - 1) /\ Taken' = Taken \cup {i}
      /\ cells'[i + 1] = v /\ \A j \in Taken : At(j)' = At(j)
  BY DEF Inserted
<1>2. Content' = [g \in Taken' |-> cells'[g + 1]]
  BY DEF Content, At
<1>3. Content = [g \in Taken |-> cells[g + 1]]
  BY DEF Content, At
<1>4. \A g \in Taken : cells'[g + 1] = cells[g + 1]
  BY <1>1 DEF At
<1>5. Content' = [g \in Taken \cup {i} |-> IF g = i THEN v ELSE Content[g]]
  BY <1>1, <1>2, <1>3, <1>4
<1> QED
  BY <1>1, <1>3, <1>5 DEF Elements!Insert, Content

(* Removing one element is HiveSpec's Erase. *)
LEMMA ErasedIsErase ==
  ASSUME NEW i, Erased(i)
  PROVE  Elements!Erase(i) /\ i \in DOMAIN Content
<1>1. /\ i \in Taken /\ Taken' = Taken \ {i} /\ \A j \in Taken' : At(j)' = At(j)
  BY DEF Erased
<1>2. Content' = [g \in Taken' |-> cells'[g + 1]]
  BY DEF Content, At
<1>3. Content = [g \in Taken |-> cells[g + 1]]
  BY DEF Content, At
<1>4. \A g \in Taken' : cells'[g + 1] = cells[g + 1]
  BY <1>1 DEF At
<1>5. Content' = [g \in Taken \ {i} |-> Content[g]]
  BY <1>1, <1>2, <1>3, <1>4
<1> QED
  BY <1>1, <1>3, <1>5 DEF Elements!Erase, Content

(* A step that keeps every element is a stutter of HiveSpec. *)
LEMMA KeptIsStutter == Kept => UNCHANGED Content
<1> SUFFICES ASSUME Kept PROVE Content' = Content
  OBVIOUS
<1>1. Taken' = Taken /\ \A g \in Taken : cells'[g + 1] = cells[g + 1]
  BY DEF Kept, At
<1>2. Content' = [g \in Taken' |-> cells'[g + 1]] /\ Content = [g \in Taken |-> cells[g + 1]]
  BY DEF Content, At
<1> QED
  BY <1>1, <1>2

(* Losing every element at once is HiveSpec's Clear. *)
LEMMA EmptiedIsClear == Taken' = {} => Elements!Clear
<1> SUFFICES ASSUME Taken' = {} PROVE Content' = [h \in {} |-> h]
  BY DEF Elements!Clear, Content
<1> QED
  BY DEF Content

(* An empty hive holds no element. *)
LEMMA InitRefines == HiveInit => Elements!Init
<1> SUFFICES ASSUME HiveInit PROVE Content = [h \in {} |-> h]
  BY DEF Elements!Init, Content
<1>1. Taken = {}
  BY DEF HiveInit, Taken, Indices
<1> QED
  BY <1>1 DEF Content

(* Every step of the hive is one of HiveSpec, or a stutter. *)
LEMMA NextRefines == IInv /\ [HiveNext]_hiveVars => [Elements!Next]_Content
<1> SUFFICES ASSUME IInv, [HiveNext]_hiveVars PROVE [Elements!Next]_Content
  OBVIOUS
<1>1. CASE \E n \in 1..MaxSlots : Reserve(n)
  BY <1>1, ReserveInv, KeptIsStutter
<1>2. CASE \E v \in Items : InsertElement(v)
  <2>1. PICK v \in Items, i \in Nat : Inserted(i, v)
    BY <1>2, InsertInv
  <2> QED
    BY <2>1, InsertedIsInsert DEF Elements!Next
<1>3. CASE \E i \in Taken : EraseElement(i)
  <2>1. PICK i \in Taken : Erased(i)
    BY <1>3, EraseInv
  <2> QED
    BY <2>1, ErasedIsErase DEF Elements!Next, Content
<1>4. CASE EraseAtCursor
  <2>1. PICK i : i = cursor
    OBVIOUS
  <2>2. Erased(i)
    BY <1>4, <2>1, EraseAtCursorInv DEF Erased
  <2> QED
    BY <2>2, ErasedIsErase DEF Elements!Next, Content
<1>5. CASE Begin
  BY <1>5, BeginInv, KeptIsStutter
<1>6. CASE Increment
  BY <1>6, IncrementInv, KeptIsStutter
<1>7. CASE ClearHive
  BY <1>7, ClearInv, EmptiedIsClear DEF Elements!Next
<1>8. CASE UNCHANGED hiveVars
  BY <1>8, StutterInv, KeptIsStutter
<1> QED
  BY <1>1, <1>2, <1>3, <1>4, <1>5, <1>6, <1>7, <1>8 DEF HiveNext

(* Each call is HandleSpec's of that name, on the element it names. *)
LEMMA CallsAsNamed == IInv => HiveCalls
<1> SUFFICES ASSUME IInv PROVE HiveCalls
  OBVIOUS
<1>1. ASSUME NEW n \in 1..MaxSlots, Reserve(n) PROVE Elements!Unchanged
  BY <1>1, ReserveInv, KeptIsStutter DEF Elements!Unchanged, Content
<1>2. ASSUME NEW v \in Items, InsertElement(v)
      PROVE  \E h \in 0..(MaxSlots - 1) : Elements!Insert(h, v)
  <2>1. PICK i \in Nat : Inserted(i, v)
    BY <1>2, InsertInv
  <2> QED
    BY <2>1, InsertedIsInsert
<1>3. ASSUME NEW i \in Taken, EraseElement(i) PROVE Elements!Erase(i)
  BY <1>3, EraseInv, ErasedIsErase
<1>4. ASSUME EraseAtCursor PROVE Elements!Erase(cursor)
  <2>1. PICK i : i = cursor
    OBVIOUS
  <2>2. Erased(i)
    BY <1>4, <2>1, EraseAtCursorInv DEF Erased
  <2>3. Elements!Erase(i)
    BY <2>2, ErasedIsErase
  <2> QED
    BY <2>1, <2>3 DEF Elements!Erase
<1>5. ASSUME ClearHive PROVE Elements!Clear
  BY <1>5, ClearInv, EmptiedIsClear
<1> QED
  BY <1>1, <1>2, <1>3, <1>4, <1>5 DEF HiveCalls

(* hive.hpp keeps its promise of stable handles: erase removes the element   *)
(* its iterator names, insert adds one where there was none, and no call     *)
(* changes any other, whatever the capacity and the values.                  *)
THEOREM ImplementsHive == HiveSpec => BehavesLikeHive
<1>1. HiveInit => Elements!Init
  BY InitRefines
<1>2. IInv /\ [HiveNext]_hiveVars => [Elements!Next]_Content
  BY NextRefines
<1>3. IInv /\ [HiveNext]_hiveVars => [HiveCalls]_hiveVars
  BY CallsAsNamed
<1>4. HiveSpec => Elements!Spec
  BY <1>1, <1>2, Inductive, PTL DEF HiveSpec, Elements!Spec, Content
<1>5. HiveSpec => [][HiveCalls]_hiveVars
  BY <1>3, Inductive, PTL DEF HiveSpec
<1> QED
  BY <1>4, <1>5 DEF BehavesLikeHive
=============================================================================
