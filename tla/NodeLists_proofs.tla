---------------------------- MODULE NodeLists_proofs -------------------------
(* Proofs about list and forward_list, for all sets of lists, values and     *)
(* addresses.                                                                *)
EXTENDS NodeLists, FiniteSetTheorems, SequenceTheorems, WellFoundedInduction, TLAPS

(* Induction over the naturals, as a fact about a set of them.               *)
LEMMA NatSetInduction ==
  ASSUME NEW S, 0 \in S, \A n \in Nat : n \in S => n + 1 \in S
  PROVE  Nat \subseteq S
<1> DEFINE T == Nat \ S
           R == {p \in Nat \X Nat : p[1] < p[2]}
<1>1. SUFFICES ASSUME T # {} PROVE FALSE
  OBVIOUS
<1>2. OpToRel(<, Nat) = R
  BY Zenon DEF OpToRel
<1>3. IsWellFoundedOn(R, Nat)
  BY <1>2, NatLessThanWellFounded, Zenon
<1>4. PICK x \in T : \A y \in T : ~ (<<y, x>> \in R)
  <2>1. T \subseteq Nat
    OBVIOUS
  <2> HIDE DEF T, R
  <2> QED
    BY <1>1, <1>3, <2>1, WFMin
<1>5. x \in Nat \ {0}
  OBVIOUS
<1>6. x - 1 \in Nat /\ x - 1 < x /\ (x - 1) + 1 = x
  BY <1>5
<1>7. x - 1 \in T
  BY <1>5, <1>6
<1>8. <<x - 1, x>> \in R
  BY <1>5, <1>6
<1> QED
  BY <1>4, <1>7, <1>8
-----------------------------------------------------------------------------
(* Chains: the sequence p of the nodes in memory nd that a walk along next   *)
(* visits, from the address h to the null pointer.                           *)
Chain(p, h, nd) ==
  /\ p \in Seq(DOMAIN nd) /\ Null \notin DOMAIN nd
  /\ h = IF p = <<>> THEN Null ELSE p[1]
  /\ \A k \in 1..Len(p) : nd[p[k]].next = IF k = Len(p) THEN Null ELSE p[k + 1]

(* The recursive function in Walk: what n steps of the walk have visited.    *)
StepOf(f, h, nd, n) ==
  IF n = 0 THEN <<>>
  ELSE LET w == f[n - 1]
           a == IF w = <<>> THEN h ELSE nd[w[Len(w)]].next
       IN IF a \in DOMAIN nd THEN Append(w, a) ELSE w
Walks(f, h, nd) == f = [n \in Nat |-> StepOf(f, h, nd, n)]

Least(a, b) == IF a <= b THEN a ELSE b
Ahead(p, n) == SubSeq(p, 1, Least(n, Len(p)))

(* On a chain, a step goes from the first n - 1 nodes to the first n.        *)
LEMMA StepAhead ==
  ASSUME NEW p, NEW h, NEW nd, Chain(p, h, nd), NEW n \in Nat, n # 0,
         NEW f, f[n - 1] = Ahead(p, n - 1)
  PROVE  StepOf(f, h, nd, n) = Ahead(p, n)
<1> DEFINE D == DOMAIN nd
<1>1. p \in Seq(D) /\ Null \notin D /\ n - 1 \in Nat
  BY DEF Chain
<1>2. PICK w : w = f[n - 1]
  OBVIOUS
<1>3. PICK a : a = IF w = <<>> THEN h ELSE nd[w[Len(w)]].next
  OBVIOUS
<1>4. StepOf(f, h, nd, n) = IF a \in D THEN Append(w, a) ELSE w
  BY <1>2, <1>3 DEF StepOf
<1>5. CASE n <= Len(p)
  <2>1. w = SubSeq(p, 1, n - 1) /\ Len(w) = n - 1
    BY <1>1, <1>2, <1>5 DEF Ahead, Least
  <2>2. a = p[n]
    <3>1. CASE n = 1
      <4>1. w = <<>> /\ p # <<>>
        BY <1>1, <1>5, <2>1, <3>1
      <4> QED
        BY <1>3, <3>1, <4>1 DEF Chain
    <3>2. CASE n # 1
      <4>1. w # <<>> /\ w[Len(w)] = p[n - 1]
        BY <1>1, <1>5, <2>1, <3>2
      <4>2. n - 1 \in 1..Len(p) /\ n - 1 # Len(p) /\ (n - 1) + 1 = n
        BY <1>1, <1>5, <3>2
      <4> QED
        BY <1>3, <4>1, <4>2 DEF Chain
    <3> QED
      BY <3>1, <3>2
  <2>3. a \in D
    BY <1>1, <1>5, <2>2
  <2>4. Append(w, a) = SubSeq(p, 1, n)
    BY <1>1, <1>5, <2>1, <2>2
  <2>5. Ahead(p, n) = SubSeq(p, 1, n)
    BY <1>5 DEF Ahead, Least
  <2> QED
    BY <1>4, <2>3, <2>4, <2>5
<1>6. CASE ~ (n <= Len(p))
  <2>1. w = SubSeq(p, 1, Len(p)) /\ Ahead(p, n) = SubSeq(p, 1, Len(p))
    BY <1>1, <1>2, <1>6 DEF Ahead, Least
  <2>2. w = p
    BY <1>1, <2>1
  <2>3. a = Null
    <3>1. CASE p = <<>>
      BY <1>3, <2>2, <3>1 DEF Chain
    <3>2. CASE p # <<>>
      <4>1. Len(p) \in 1..Len(p)
        BY <1>1, <3>2
      <4> QED
        BY <1>3, <2>2, <3>2, <4>1 DEF Chain
    <3> QED
      BY <3>1, <3>2
  <2> QED
    BY <1>1, <1>4, <2>1, <2>3
<1> QED
  BY <1>1, <1>5, <1>6

LEMMA WalkExists ==
  ASSUME NEW p, NEW h, NEW nd, Chain(p, h, nd)
  PROVE  \E f : Walks(f, h, nd)
<1>1. PICK f : f = [n \in Nat |-> Ahead(p, n)]
  OBVIOUS
<1>2. ASSUME NEW n \in Nat PROVE f[n] = StepOf(f, h, nd, n)
  <2>1. CASE n = 0
    <3>1. p \in Seq(DOMAIN nd)
      BY DEF Chain
    <3> QED
      BY <1>1, <2>1, <3>1 DEF StepOf, Ahead, Least
  <2>2. CASE n # 0
    <3>1. n - 1 \in Nat
      BY <2>2
    <3>2. f[n - 1] = Ahead(p, n - 1)
      BY <1>1, <3>1
    <3> QED
      BY <1>1, <2>2, <3>2, StepAhead
  <2> QED
    BY <2>1, <2>2
<1>3. f = [n \in Nat |-> f[n]]
  BY <1>1
<1> QED
  BY <1>2, <1>3 DEF Walks

LEMMA WalkGoesAhead ==
  ASSUME NEW p, NEW h, NEW nd, Chain(p, h, nd), NEW f, Walks(f, h, nd)
  PROVE  \A n \in Nat : f[n] = Ahead(p, n)
<1> DEFINE S == {n \in Nat : f[n] = Ahead(p, n)}
<1>1. \A n \in Nat : f[n] = StepOf(f, h, nd, n)
  BY DEF Walks
<1>2. 0 \in S
  <2>1. p \in Seq(DOMAIN nd)
    BY DEF Chain
  <2>2. f[0] = <<>>
    BY <1>1 DEF StepOf
  <2>3. Ahead(p, 0) = <<>>
    BY <2>1 DEF Ahead, Least
  <2> QED
    BY <2>2, <2>3
<1>3. ASSUME NEW n \in Nat, n \in S PROVE n + 1 \in S
  <2>1. n + 1 \in Nat /\ n + 1 # 0 /\ (n + 1) - 1 = n
    OBVIOUS
  <2>2. f[(n + 1) - 1] = Ahead(p, (n + 1) - 1)
    BY <1>3, <2>1
  <2>3. StepOf(f, h, nd, n + 1) = Ahead(p, n + 1)
    BY <2>1, <2>2, StepAhead
  <2> QED
    BY <1>1, <2>1, <2>3
<1> HIDE DEF S
<1>4. Nat \subseteq S
  BY <1>2, <1>3, NatSetInduction
<1> QED
  BY <1>4 DEF S

(* A walk of as many steps as there are nodes visits the chain.              *)
LEMMA WalkIsChain ==
  ASSUME NEW p, NEW h, NEW nd, Chain(p, h, nd), NEW n \in Nat, Len(p) <= n
  PROVE  (CHOOSE f : Walks(f, h, nd))[n] = p
<1>1. PICK f : f = CHOOSE g : Walks(g, h, nd)
  OBVIOUS
<1>2. Walks(f, h, nd)
  BY <1>1, WalkExists
<1>3. f[n] = Ahead(p, n)
  BY <1>2, WalkGoesAhead
<1>4. p \in Seq(DOMAIN nd)
  BY DEF Chain
<1>5. Ahead(p, n) = p
  BY <1>4 DEF Ahead, Least
<1> QED
  BY <1>1, <1>3, <1>5

(* Each module counts with an operator of its own. *)
LEMMA CountsSame ==
  ASSUME NEW S
  PROVE  DL!Cardinality(S) = Cardinality(S) /\ FL!Cardinality(S) = Cardinality(S)
BY SMT DEF DL!Cardinality, FL!Cardinality, Cardinality

WalkOf(h, nd) == (CHOOSE f : Walks(f, h, nd))[Cardinality(DOMAIN nd)]

LEMMA WalkOfChain ==
  ASSUME NEW p, NEW h, NEW nd, Chain(p, h, nd),
         IsFiniteSet(DOMAIN nd), Len(p) <= Cardinality(DOMAIN nd)
  PROVE  WalkOf(h, nd) = p
<1>1. Cardinality(DOMAIN nd) \in Nat
  BY FS_CardinalityType
<1> QED
  BY <1>1, WalkIsChain DEF WalkOf

LEMMA DoublyWalks ==
  ASSUME NEW l
  PROVE  /\ DL!Walk(l) = WalkOf(lst[l].head, node)
         /\ DL!Walk(l)' = WalkOf(lst'[l].head, node')
<1>1. DL!Walk(l) = WalkOf(lst[l].head, node)
  BY CountsSame DEF DL!Walk, WalkOf, Walks, StepOf
<1>2. DL!Walk(l)' = WalkOf(lst'[l].head, node')
  BY CountsSame DEF DL!Walk, WalkOf, Walks, StepOf
<1> QED
  BY <1>1, <1>2

LEMMA SinglyWalks ==
  ASSUME NEW l
  PROVE  /\ FL!Walk(l) = WalkOf(fwd[l].head, cell)
         /\ FL!Walk(l)' = WalkOf(fwd'[l].head, cell')
<1>1. FL!Walk(l) = WalkOf(fwd[l].head, cell)
  BY CountsSame DEF FL!Walk, WalkOf, Walks, StepOf, FL!Last
<1>2. FL!Walk(l)' = WalkOf(fwd'[l].head, cell')
  BY CountsSame DEF FL!Walk, WalkOf, Walks, StepOf, FL!Last
<1> QED
  BY <1>1, <1>2
-----------------------------------------------------------------------------
(* Heaps of lists: P gives the nodes of each list in order, D the nodes on   *)
(* the heap.  Each node is in one place of one list.                         *)
Places(P) == \A l, m \in Lists : \A i \in 1..Len(P[l]), j \in 1..Len(P[m]) :
               P[l][i] = P[m][j] => l = m /\ i = j
Covers(P, D) == \A a \in D : \E l \in Lists : \E i \in 1..Len(P[l]) : P[l][i] = a
Heap(P, D) ==
  /\ P = [l \in Lists |-> P[l]] /\ \A l \in Lists : P[l] \in Seq(D)
  /\ Places(P) /\ Covers(P, D)
  /\ D \subseteq Addresses /\ IsFiniteSet(D)

InsertedAt(p, k, a) ==
  [i \in 1..(Len(p) + 1) |-> IF i < k THEN p[i] ELSE IF i = k THEN a ELSE p[i - 1]]
RemovedAt(p, k) == [i \in 1..(Len(p) - 1) |-> IF i < k THEN p[i] ELSE p[i + 1]]
Old(i, k) == IF i < k THEN i ELSE i - 1
Later(i, k) == IF i < k THEN i ELSE i + 1
NodesIn(p) == {p[i] : i \in 1..Len(p)}

LEMMA FunctionIsSeq ==
  ASSUME NEW S, NEW n \in Nat, NEW f, f = [i \in 1..n |-> f[i]], \A i \in 1..n : f[i] \in S
  PROVE  f \in Seq(S) /\ Len(f) = n
OBVIOUS

LEMMA InsertedIs ==
  ASSUME NEW D, NEW p \in Seq(D), NEW k \in 1..(Len(p) + 1), NEW a
  PROVE  /\ InsertedAt(p, k, a) \in Seq(D \cup {a})
         /\ Len(InsertedAt(p, k, a)) = Len(p) + 1
         /\ \A i \in 1..(Len(p) + 1) :
              InsertedAt(p, k, a)[i] = IF i < k THEN p[i] ELSE IF i = k THEN a ELSE p[i - 1]
<1>1. PICK f : f = InsertedAt(p, k, a)
  OBVIOUS
<1>2. f = [i \in 1..(Len(p) + 1) |-> f[i]]
  BY <1>1 DEF InsertedAt
<1>3. \A i \in 1..(Len(p) + 1) : f[i] = IF i < k THEN p[i] ELSE IF i = k THEN a ELSE p[i - 1]
  BY <1>1 DEF InsertedAt
<1>4. \A i \in 1..(Len(p) + 1) : f[i] \in D \cup {a}
  BY <1>3
<1>5. Len(p) + 1 \in Nat
  OBVIOUS
<1>6. f \in Seq(D \cup {a}) /\ Len(f) = Len(p) + 1
  BY <1>2, <1>4, <1>5, FunctionIsSeq, ZenonT(40)
<1> QED
  BY <1>1, <1>3, <1>6

LEMMA RemovedIs ==
  ASSUME NEW D, NEW p \in Seq(D), NEW k \in 1..Len(p),
         \A i \in 1..Len(p) : i # k => p[i] # p[k]
  PROVE  /\ RemovedAt(p, k) \in Seq(D \ {p[k]})
         /\ Len(RemovedAt(p, k)) = Len(p) - 1
         /\ \A i \in 1..(Len(p) - 1) :
              RemovedAt(p, k)[i] = IF i < k THEN p[i] ELSE p[i + 1]
<1>1. PICK f : f = RemovedAt(p, k)
  OBVIOUS
<1>2. f = [i \in 1..(Len(p) - 1) |-> f[i]]
  BY <1>1 DEF RemovedAt
<1>3. \A i \in 1..(Len(p) - 1) : f[i] = IF i < k THEN p[i] ELSE p[i + 1]
  BY <1>1 DEF RemovedAt
<1>4. \A i \in 1..(Len(p) - 1) : f[i] \in D \ {p[k]}
  BY <1>3
<1>5. PICK n \in Nat : n = Len(p) - 1
  OBVIOUS
<1>6. PICK S : S = D \ {p[k]}
  OBVIOUS
<1>7. f = [i \in 1..n |-> f[i]] /\ \A i \in 1..n : f[i] \in S
  BY <1>2, <1>4, <1>5, <1>6, Zenon
<1>8. f \in Seq(S) /\ Len(f) = n
  BY <1>7, FunctionIsSeq, ZenonT(40)
<1> QED
  BY <1>1, <1>3, <1>5, <1>6, <1>8

(* No list is longer than the heap, so that a walk gets to its end.          *)
LEMMA ListFits ==
  ASSUME NEW P, NEW D, Heap(P, D), NEW l \in Lists
  PROVE  /\ Len(P[l]) \in Nat /\ Len(P[l]) <= Cardinality(D)
         /\ Cardinality(NodesIn(P[l])) = Len(P[l])
<1>1. PICK p : p = P[l]
  OBVIOUS
<1>2. p \in Seq(D) /\ IsFiniteSet(D)
  BY <1>1 DEF Heap
<1>3. \A i, j \in 1..Len(p) : p[i] = p[j] => i = j
  BY <1>1 DEF Heap, Places
<1>4. Len(p) \in Nat
  BY <1>2
<1>5. NodesIn(p) \subseteq D
  BY <1>2 DEF NodesIn
<1>6. IsFiniteSet(NodesIn(p)) /\ Cardinality(NodesIn(p)) <= Cardinality(D)
  BY <1>2, <1>5, FS_Subset
<1>7. p \in [1..Len(p) -> NodesIn(p)]
  BY <1>2 DEF NodesIn
<1>8. p \in Bijection(1..Len(p), NodesIn(p))
  BY <1>3, <1>7 DEF Bijection, Injection, Surjection, NodesIn, IsInjective
<1>9. Cardinality(NodesIn(p)) = Len(p)
  BY <1>4, <1>8, FS_CountingElements DEF ExistsBijection
<1> QED
  BY <1>1, <1>4, <1>6, <1>9

(* Every change of the lists keeps the heap in this form.                    *)
LEMMA HeapWith ==
  ASSUME NEW P, NEW D, Heap(P, D), NEW l \in Lists, NEW k \in 1..(Len(P[l]) + 1),
         NEW a \in Addresses \ D, NEW Q, Q = [P EXCEPT ![l] = InsertedAt(P[l], k, a)]
  PROVE  Heap(Q, D \cup {a})
<1>1. PICK p : p = P[l]
  OBVIOUS
<1>2. PICK q : q = InsertedAt(p, k, a)
  OBVIOUS
<1>3. p \in Seq(D) /\ k \in 1..(Len(p) + 1) /\ Len(p) \in Nat
  BY <1>1 DEF Heap
<1>4. q \in Seq(D \cup {a}) /\ Len(q) = Len(p) + 1
  BY <1>2, <1>3, InsertedIs
<1>5. \A i \in 1..Len(q) : q[i] = IF i < k THEN p[i] ELSE IF i = k THEN a ELSE p[i - 1]
  BY <1>2, <1>3, <1>4, InsertedIs
<1>6. /\ Q = [m \in Lists |-> Q[m]] /\ Q[l] = q
      /\ \A m \in Lists : m # l => Q[m] = P[m] /\ P[m] \in Seq(D)
  BY <1>1, <1>2 DEF Heap
<1>7. \A m \in Lists : Q[m] \in Seq(D \cup {a})
  BY <1>4, <1>6
<1>8. \A i \in 1..Len(q) : i # k => Old(i, k) \in 1..Len(p) /\ q[i] = p[Old(i, k)]
  <2>1. ASSUME NEW i \in 1..Len(q), i < k
        PROVE  Old(i, k) \in 1..Len(p) /\ q[i] = p[Old(i, k)]
    <3>1. i \in 1..Len(p) /\ Old(i, k) = i
      BY <1>3, <1>4, <2>1 DEF Old
    <3> QED
      BY <1>5, <2>1, <3>1
  <2>2. ASSUME NEW i \in 1..Len(q), i # k, ~ (i < k)
        PROVE  Old(i, k) \in 1..Len(p) /\ q[i] = p[Old(i, k)]
    <3>1. i - 1 \in 1..Len(p) /\ Old(i, k) = i - 1
      BY <1>3, <1>4, <2>2 DEF Old
    <3> QED
      BY <1>5, <2>2, <3>1
  <2> QED
    BY <2>1, <2>2
<1>9. Places(Q)
  <2>1. \A m \in Lists : \A j \in 1..Len(P[m]) : P[m][j] \in D
    BY DEF Heap
  <2>2. a \notin D
    OBVIOUS
  <2>3. \A i, j \in 1..Len(q) : q[i] = q[j] => i = j
    <3>1. \A i, j \in 1..Len(p) : p[i] = p[j] => i = j
      BY <1>1 DEF Heap, Places
    <3>2. \A i \in 1..Len(p) : p[i] # a
      BY <1>1, <2>1
    <3>3. \A i, j \in 1..Len(q) : i # k /\ j # k /\ Old(i, k) = Old(j, k) => i = j
      BY <1>3 DEF Old
    <3>4. q[k] = a
      BY <1>3, <1>4, <1>5
    <3> QED
      BY <1>8, <3>1, <3>2, <3>3, <3>4
  <2>4. ASSUME NEW m \in Lists, m # l, NEW i \in 1..Len(q), NEW j \in 1..Len(P[m])
        PROVE  q[i] # P[m][j]
    <3>1. \A n \in 1..Len(p) : p[n] # P[m][j]
      BY <1>1, <2>4 DEF Heap, Places
    <3>2. PICK b : b = P[m][j] /\ b # a
      BY <2>1, <2>2, <2>4
    <3>3. \A n \in 1..Len(p) : p[n] # b
      BY <3>1, <3>2
    <3>4. CASE i # k
      BY <1>8, <3>2, <3>3, <3>4
    <3>5. CASE i = k
      BY <1>3, <1>4, <1>5, <3>2, <3>5
    <3> QED
      BY <3>4, <3>5
  <2>5. ASSUME NEW m1 \in Lists, NEW m2 \in Lists, NEW i \in 1..Len(Q[m1]),
               NEW j \in 1..Len(Q[m2]), Q[m1][i] = Q[m2][j]
        PROVE  m1 = m2 /\ i = j
    <3>1. CASE m1 # l /\ m2 # l
      BY <1>6, <2>5, <3>1 DEF Heap, Places
    <3>2. CASE m1 = l /\ m2 = l
      BY <1>6, <2>3, <2>5, <3>2
    <3>3. CASE m1 = l /\ m2 # l
      BY <1>6, <2>4, <2>5, <3>3
    <3>4. CASE m1 # l /\ m2 = l
      BY <1>6, <2>4, <2>5, <3>4
    <3> QED
      BY <3>1, <3>2, <3>3, <3>4
  <2> QED
    BY <2>5 DEF Places
<1>10. Covers(Q, D \cup {a})
  <2>1. q[k] = a /\ k \in 1..Len(q)
    BY <1>3, <1>4, <1>5
  <2>2. ASSUME NEW b \in D PROVE \E m \in Lists : \E i \in 1..Len(Q[m]) : Q[m][i] = b
    <3>0. PICK m \in Lists : \E i \in 1..Len(P[m]) : P[m][i] = b
      BY DEF Heap, Covers
    <3>1. PICK i \in 1..Len(P[m]) : P[m][i] = b
      BY <3>0
    <3>2. CASE m # l
      BY <1>6, <3>1, <3>2
    <3>3. CASE m = l
      <4>1. i \in 1..Len(p) /\ p[i] = b
        BY <1>1, <3>1, <3>3
      <4>2. \E j \in 1..Len(q) : q[j] = b
        <5>1. CASE i < k
          BY <1>3, <1>4, <1>5, <4>1, <5>1
        <5>2. CASE ~ (i < k)
          <6>1. i + 1 \in 1..Len(q) /\ ~ (i + 1 < k) /\ i + 1 # k /\ (i + 1) - 1 = i
            BY <1>3, <1>4, <4>1, <5>2
          <6> QED
            BY <1>5, <4>1, <6>1
        <5> QED
          BY <5>1, <5>2
      <4> QED
        BY <1>6, <4>2
    <3> QED
      BY <3>2, <3>3
  <2> QED
    BY <1>6, <2>1, <2>2 DEF Covers
<1>11. D \cup {a} \subseteq Addresses /\ IsFiniteSet(D \cup {a})
  BY FS_AddElement DEF Heap
<1> QED
  BY <1>6, <1>7, <1>9, <1>10, <1>11 DEF Heap

(* One list becomes q, of nodes that were its own or not on the heap.        *)
LEMMA HeapReplacing ==
  ASSUME NEW P, NEW D, Heap(P, D), NEW l \in Lists, NEW q, NEW E,
         q \in Seq(E), E = (D \ NodesIn(P[l])) \cup NodesIn(q),
         \A i, j \in 1..Len(q) : q[i] = q[j] => i = j,
         NodesIn(q) \subseteq Addresses, NodesIn(q) \cap D \subseteq NodesIn(P[l])
  PROVE  Heap([P EXCEPT ![l] = q], E)
<1>1. PICK Q : Q = [P EXCEPT ![l] = q]
  OBVIOUS
<1>2. /\ Q = [m \in Lists |-> Q[m]] /\ Q[l] = q
      /\ \A m \in Lists : m # l => Q[m] = P[m] /\ P[m] \in Seq(D)
  BY <1>1 DEF Heap
<1>3. ASSUME NEW m \in Lists, m # l, NEW i \in 1..Len(P[m])
      PROVE  P[m][i] \in D /\ P[m][i] \notin NodesIn(P[l]) /\ P[m][i] \notin NodesIn(q)
  <2>1. P[m][i] \in D
    BY <1>2, <1>3
  <2>2. P[m][i] \notin NodesIn(P[l])
    BY <1>3 DEF NodesIn, Heap, Places
  <2> QED
    BY <2>1, <2>2
<1>4. ASSUME NEW m \in Lists PROVE Q[m] \in Seq(E)
  <2>1. CASE m = l
    BY <1>2, <2>1
  <2>2. CASE m # l
    <3>1. PICK p : p = P[m]
      OBVIOUS
    <3>2. p \in Seq(D) /\ \A i \in 1..Len(p) : p[i] \in E
      BY <1>2, <1>3, <2>2, <3>1
    <3>3. p \in Seq(E)
      BY <3>2
    <3> QED
      BY <1>2, <2>2, <3>1, <3>3
  <2> QED
    BY <2>1, <2>2
<1>5. Places(Q)
  <2>1. ASSUME NEW m1 \in Lists, NEW m2 \in Lists, NEW i \in 1..Len(Q[m1]),
               NEW j \in 1..Len(Q[m2]), Q[m1][i] = Q[m2][j]
        PROVE  m1 = m2 /\ i = j
    <3>1. CASE m1 # l /\ m2 # l
      BY <1>2, <2>1, <3>1 DEF Heap, Places
    <3>2. CASE m1 = l /\ m2 = l
      BY <1>2, <2>1, <3>2
    <3>3. CASE m1 = l /\ m2 # l
      BY <1>2, <1>3, <2>1, <3>3 DEF NodesIn
    <3>4. CASE m1 # l /\ m2 = l
      BY <1>2, <1>3, <2>1, <3>4 DEF NodesIn
    <3> QED
      BY <3>1, <3>2, <3>3, <3>4
  <2> QED
    BY <2>1 DEF Places
<1>6. Covers(Q, E)
  <2>1. ASSUME NEW b \in NodesIn(q) PROVE \E m \in Lists : \E i \in 1..Len(Q[m]) : Q[m][i] = b
    BY <1>2, <2>1 DEF NodesIn
  <2>2. ASSUME NEW b \in D \ NodesIn(P[l])
        PROVE  \E m \in Lists : \E i \in 1..Len(Q[m]) : Q[m][i] = b
    <3>1. PICK m \in Lists : \E i \in 1..Len(P[m]) : P[m][i] = b
      BY <2>2 DEF Heap, Covers
    <3>2. m # l
      BY <2>2, <3>1 DEF NodesIn
    <3> QED
      BY <1>2, <3>1, <3>2
  <2> QED
    BY <2>1, <2>2 DEF Covers
<1>7. IsFiniteSet(E)
  <2>1. q \in Surjection(1..Len(q), NodesIn(q)) /\ Len(q) \in Nat
    BY DEF Surjection, NodesIn
  <2>2. IsFiniteSet(NodesIn(q))
    BY <2>1, FS_NatSurjection DEF ExistsSurjection
  <2>3. IsFiniteSet(D \ NodesIn(P[l]))
    BY FS_Subset DEF Heap
  <2> QED
    BY <2>2, <2>3, FS_Union
<1>8. E \subseteq Addresses
  BY DEF Heap
<1> QED
  BY <1>1, <1>2, <1>4, <1>5, <1>6, <1>7, <1>8 DEF Heap

LEMMA HeapWithout ==
  ASSUME NEW P, NEW D, Heap(P, D), NEW l \in Lists, NEW k \in 1..Len(P[l])
  PROVE  Heap([P EXCEPT ![l] = RemovedAt(P[l], k)], D \ {P[l][k]})
<1>1. PICK p : p = P[l]
  OBVIOUS
<1>2. PICK q : q = RemovedAt(p, k)
  OBVIOUS
<1>3. p \in Seq(D) /\ k \in 1..Len(p) /\ Len(p) \in Nat
  BY <1>1 DEF Heap
<1>4. \A i, j \in 1..Len(p) : p[i] = p[j] => i = j
  BY <1>1 DEF Heap, Places
<1>5. q \in Seq(D \ {p[k]}) /\ Len(q) = Len(p) - 1
  BY <1>2, <1>3, <1>4, RemovedIs
<1>6. \A i \in 1..Len(q) : q[i] = IF i < k THEN p[i] ELSE p[i + 1]
  BY <1>2, <1>3, <1>4, <1>5, RemovedIs
<1>7. ASSUME NEW i \in 1..Len(q)
      PROVE  Later(i, k) \in 1..Len(p) /\ q[i] = p[Later(i, k)] /\ Later(i, k) # k
  <2>1. Later(i, k) \in 1..Len(p) /\ Later(i, k) # k
    BY <1>3, <1>5 DEF Later
  <2> QED
    BY <1>6, <2>1 DEF Later
<1>8. \A i, j \in 1..Len(q) : Later(i, k) = Later(j, k) => i = j
  BY <1>3 DEF Later
<1>9. \A i, j \in 1..Len(q) : q[i] = q[j] => i = j
  BY <1>4, <1>7, <1>8
<1>10. NodesIn(q) = NodesIn(p) \ {p[k]}
  <2>1. NodesIn(q) \subseteq NodesIn(p) \ {p[k]}
    BY <1>3, <1>4, <1>7 DEF NodesIn
  <2>2. ASSUME NEW b \in NodesIn(p) \ {p[k]} PROVE b \in NodesIn(q)
    <3>1. PICK i \in 1..Len(p) : p[i] = b
      BY DEF NodesIn
    <3>2. i # k
      BY <2>2, <3>1
    <3>3. Old(i, k) \in 1..Len(q) /\ Later(Old(i, k), k) = i
      BY <1>3, <1>5, <3>2 DEF Old, Later
    <3> QED
      BY <1>7, <3>1, <3>3 DEF NodesIn
  <2> QED
    BY <2>1, <2>2
<1>11. NodesIn(p) \subseteq D /\ p[k] \in NodesIn(p) /\ D \subseteq Addresses
  BY <1>3 DEF NodesIn, Heap
<1>12. PICK E : E = D \ {p[k]}
  OBVIOUS
<1>13. E = (D \ NodesIn(p)) \cup NodesIn(q) /\ q \in Seq(E)
  BY <1>5, <1>10, <1>11, <1>12
<1>14. NodesIn(q) \subseteq Addresses /\ NodesIn(q) \cap D \subseteq NodesIn(p)
  BY <1>10, <1>11
<1>15. Heap([P EXCEPT ![l] = q], E)
  BY <1>1, <1>9, <1>13, <1>14, HeapReplacing
<1> QED
  BY <1>1, <1>2, <1>12, <1>15

LEMMA HeapEmptied ==
  ASSUME NEW P, NEW D, Heap(P, D), NEW l \in Lists
  PROVE  Heap([P EXCEPT ![l] = <<>>], D \ NodesIn(P[l]))
<1>1. PICK q : q = <<>>
  OBVIOUS
<1>2. PICK E : E = D \ NodesIn(P[l])
  OBVIOUS
<1>3. /\ NodesIn(q) = {} /\ q \in Seq(E) /\ Len(q) = 0
      /\ \A i, j \in 1..Len(q) : q[i] = q[j] => i = j
  BY <1>1 DEF NodesIn
<1>4. E = (D \ NodesIn(P[l])) \cup NodesIn(q)
  BY <1>2, <1>3
<1>5. NodesIn(q) \subseteq Addresses /\ NodesIn(q) \cap D \subseteq NodesIn(P[l])
  BY <1>3
<1>6. Heap([P EXCEPT ![l] = q], E)
  BY <1>3, <1>4, <1>5, HeapReplacing
<1> QED
  BY <1>1, <1>2, <1>6

(* The nodes of list s become those of d, whose own are gone.                *)
LEMMA HeapHanded ==
  ASSUME NEW P, NEW D, Heap(P, D), NEW d \in Lists, NEW s \in Lists, d # s
  PROVE  Heap([P EXCEPT ![d] = P[s], ![s] = <<>>], D \ NodesIn(P[d]))
<1>1. PICK E : E = D \ NodesIn(P[d])
  OBVIOUS
<1>2. PICK R : R = [P EXCEPT ![d] = <<>>]
  OBVIOUS
<1>3. Heap(R, E)
  BY <1>1, <1>2, HeapEmptied
<1>4. PICK Q : Q = [P EXCEPT ![d] = P[s], ![s] = <<>>]
  OBVIOUS
<1>5. P = [l \in Lists |-> P[l]]
  BY DEF Heap
<1>6. /\ Q = [l \in Lists |-> Q[l]] /\ Q[d] = P[s] /\ Q[s] = <<>>
      /\ \A l \in Lists : l # d /\ l # s => Q[l] = P[l]
  BY <1>4, <1>5
<1>7. R[d] = <<>> /\ \A l \in Lists : l # d => R[l] = P[l]
  BY <1>2, <1>5
<1>8. Q[d] = R[s] /\ Q[s] = R[d] /\ \A l \in Lists : l # d /\ l # s => Q[l] = R[l]
  BY <1>6, <1>7
<1>9. \A l \in Lists : Q[l] \in Seq(E)
  BY <1>3, <1>8 DEF Heap
<1>10. ASSUME NEW m1 \in Lists, NEW m2 \in Lists, NEW i \in 1..Len(Q[m1]),
              NEW j \in 1..Len(Q[m2]), Q[m1][i] = Q[m2][j]
       PROVE  m1 = m2 /\ i = j
  <2>1. Places(R) /\ m1 # s /\ m2 # s
    BY <1>3, <1>6 DEF Heap
  <2>2. CASE m1 = d /\ m2 = d
    BY <1>8, <1>10, <2>1, <2>2 DEF Places
  <2>3. CASE m1 = d /\ m2 # d
    BY <1>8, <1>10, <2>1, <2>3 DEF Places
  <2>4. CASE m1 # d /\ m2 = d
    BY <1>8, <1>10, <2>1, <2>4 DEF Places
  <2>5. CASE m1 # d /\ m2 # d
    BY <1>8, <1>10, <2>1, <2>5 DEF Places
  <2> QED
    BY <2>2, <2>3, <2>4, <2>5
<1>11. Covers(Q, E)
  <2>1. SUFFICES ASSUME NEW b \in E PROVE \E l \in Lists : \E i \in 1..Len(Q[l]) : Q[l][i] = b
    BY DEF Covers
  <2>2. PICK l \in Lists : \E i \in 1..Len(R[l]) : R[l][i] = b
    BY <1>3 DEF Heap, Covers
  <2>3. l # d
    BY <1>7, <2>2
  <2>4. CASE l = s
    BY <1>8, <2>2, <2>4
  <2>5. CASE l # s
    BY <1>8, <2>2, <2>3, <2>5
  <2> QED
    BY <2>4, <2>5
<1>12. Places(Q)
  BY <1>10 DEF Places
<1>13. Heap(Q, E)
  BY <1>3, <1>6, <1>9, <1>11, <1>12 DEF Heap
<1> QED
  BY <1>1, <1>4, <1>13

(* The nodes f of d are new, one for each of s.                              *)
LEMMA HeapCopied ==
  ASSUME NEW P, NEW D, Heap(P, D), NEW d \in Lists, NEW n \in Nat, NEW f,
         f \in Injection(1..n, Addresses \ (D \ NodesIn(P[d]))),
         NEW Q, Q = [P EXCEPT ![d] = f],
         NEW E, E = (D \ NodesIn(P[d])) \cup NodesIn(f)
  PROVE  Heap(Q, E)
<1>1. /\ f = [i \in 1..n |-> f[i]]
      /\ \A i \in 1..n : f[i] \in Addresses \ (D \ NodesIn(P[d]))
      /\ \A i, j \in 1..n : f[i] = f[j] => i = j
  BY DEF Injection, IsInjective
<1>3. \A i \in 1..n : f[i] \in Addresses
  BY <1>1
<1>4. f \in Seq(Addresses) /\ Len(f) = n
  BY <1>1, <1>3, FunctionIsSeq, ZenonT(40)
<1>5. NodesIn(f) \subseteq Addresses /\ NodesIn(f) \cap D \subseteq NodesIn(P[d])
  BY <1>1, <1>4 DEF NodesIn
<1>6. f \in Seq(E)
  BY <1>4 DEF NodesIn
<1>7. E = (D \ NodesIn(P[d])) \cup NodesIn(f)
  OBVIOUS
<1>8. \A i, j \in 1..Len(f) : f[i] = f[j] => i = j
  BY <1>1, <1>4
<1>9. Heap([P EXCEPT ![d] = f], E)
  BY <1>5, <1>6, <1>7, <1>8, HeapReplacing
<1> QED
  BY <1>9

LEMMA HeapNew == Heap([l \in Lists |-> <<>>], {})
<1>1. PICK P : P = [l \in Lists |-> <<>>]
  OBVIOUS
<1>2. P = [l \in Lists |-> P[l]] /\ \A l \in Lists : P[l] = <<>>
  BY <1>1
<1>3. \A l \in Lists : P[l] \in Seq({}) /\ 1..Len(P[l]) = {}
  <2>1. <<>> \in Seq({}) /\ 1..Len(<<>>) = {}
    OBVIOUS
  <2> QED
    BY <1>2, <2>1
<1>4. Places(P) /\ Covers(P, {})
  BY <1>3 DEF Places, Covers
<1> QED
  BY <1>1, <1>2, <1>3, <1>4, FS_EmptySet DEF Heap
-----------------------------------------------------------------------------
(* The neighbours of a place, which its node's links lead to.                *)
PrevIn(p, k) == IF k = 1 THEN Null ELSE p[k - 1]
NextIn(p, k) == IF k = Len(p) THEN Null ELSE p[k + 1]
FirstOf(p) == IF p = <<>> THEN Null ELSE p[1]
LastOf(p) == IF p = <<>> THEN Null ELSE p[Len(p)]

AroundNew(D, p, k, a, q) ==
  /\ q \in Seq(D \cup {a}) /\ Len(q) = Len(p) + 1 /\ q[k] = a
  /\ PrevIn(q, k) = PrevIn(p, k)
  /\ NextIn(q, k) = IF k = Len(p) + 1 THEN Null ELSE p[k]
  /\ \A j \in 1..Len(q) : j # k =>
       /\ Old(j, k) \in 1..Len(p) /\ q[j] = p[Old(j, k)]
       /\ PrevIn(q, j) = IF Old(j, k) = k THEN a ELSE PrevIn(p, Old(j, k))
       /\ NextIn(q, j) = IF Old(j, k) = k - 1 THEN a ELSE NextIn(p, Old(j, k))
  /\ FirstOf(q) = IF k = 1 THEN a ELSE FirstOf(p)
  /\ LastOf(q) = IF k = Len(p) + 1 THEN a ELSE LastOf(p)

LEMMA NeighboursAfterInsertion ==
  ASSUME NEW D, NEW p \in Seq(D), NEW k \in 1..(Len(p) + 1), NEW a,
         NEW q, q = InsertedAt(p, k, a)
  PROVE  AroundNew(D, p, k, a, q)
<1>1. PICK n \in Nat : n = Len(p)
  OBVIOUS
<1>2. q \in Seq(D \cup {a}) /\ Len(q) = n + 1 /\ k \in 1..(n + 1) /\ q # <<>>
  BY <1>1, InsertedIs
<1>3. \A i \in 1..(n + 1) : q[i] = IF i < k THEN p[i] ELSE IF i = k THEN a ELSE p[i - 1]
  BY <1>1 DEF InsertedAt
<1>4. ASSUME NEW j \in 1..(n + 1), j < k
      PROVE  /\ Old(j, k) = j /\ j \in 1..n /\ q[j] = p[j]
             /\ PrevIn(q, j) = PrevIn(p, j)
             /\ NextIn(q, j) = IF j = k - 1 THEN a ELSE NextIn(p, j)
  <2>1. Old(j, k) = j /\ j \in 1..n /\ q[j] = p[j]
    BY <1>2, <1>3, <1>4 DEF Old
  <2>2. PrevIn(q, j) = PrevIn(p, j)
    <3>1. j # 1 => j - 1 \in 1..(n + 1) /\ j - 1 < k
      BY <1>2, <1>4
    <3> QED
      BY <1>3, <3>1 DEF PrevIn
  <2>3. CASE j = k - 1
    <3>1. j # n + 1 /\ j + 1 = k
      BY <1>2, <1>4, <2>3
    <3> QED
      BY <1>2, <1>3, <2>1, <2>2, <2>3, <3>1 DEF NextIn
  <2>4. CASE j # k - 1
    <3>1. j # n + 1 /\ j # n /\ j + 1 \in 1..(n + 1) /\ j + 1 < k
      BY <1>2, <1>4, <2>4
    <3> QED
      BY <1>1, <1>2, <1>3, <2>1, <2>2, <2>4, <3>1 DEF NextIn
  <2> QED
    BY <2>3, <2>4
<1>5. ASSUME NEW j \in 1..(n + 1), k < j
      PROVE  /\ Old(j, k) = j - 1 /\ j - 1 \in 1..n /\ q[j] = p[j - 1] /\ j - 1 # k - 1
             /\ PrevIn(q, j) = IF j - 1 = k THEN a ELSE PrevIn(p, j - 1)
             /\ NextIn(q, j) = NextIn(p, j - 1)
  <2>1. Old(j, k) = j - 1 /\ j - 1 \in 1..n /\ q[j] = p[j - 1] /\ j - 1 # k - 1
    BY <1>2, <1>3, <1>5 DEF Old
  <2>2. NextIn(q, j) = NextIn(p, j - 1)
    <3>1. j # n + 1 => j + 1 \in 1..(n + 1) /\ ~ (j + 1 < k) /\ j + 1 # k
                       /\ (j + 1) - 1 = (j - 1) + 1 /\ j - 1 # n
      BY <1>2, <1>5
    <3>2. j = n + 1 => j - 1 = n
      BY <1>2
    <3> QED
      BY <1>1, <1>2, <1>3, <3>1, <3>2 DEF NextIn
  <2>3. CASE j - 1 = k
    <3>1. j # 1
      BY <1>2, <1>5
    <3> QED
      BY <1>2, <1>3, <2>1, <2>2, <2>3, <3>1 DEF PrevIn
  <2>4. CASE j - 1 # k
    <3>1. j # 1 /\ j - 1 # 1 /\ j - 1 \in 1..(n + 1) /\ ~ (j - 1 < k)
      BY <1>2, <1>5, <2>4
    <3>2. q[j - 1] = p[(j - 1) - 1]
      BY <1>3, <2>4, <3>1
    <3> QED
      BY <2>1, <2>2, <2>4, <3>1, <3>2 DEF PrevIn
  <2> QED
    BY <2>3, <2>4
<1>6. q[k] = a /\ PrevIn(q, k) = PrevIn(p, k)
  <2>1. k # 1 => k - 1 \in 1..(n + 1) /\ k - 1 < k
    BY <1>2
  <2> QED
    BY <1>2, <1>3, <2>1 DEF PrevIn
<1>7. NextIn(q, k) = IF k = n + 1 THEN Null ELSE p[k]
  <2>1. k # n + 1 => k + 1 \in 1..(n + 1) /\ ~ (k + 1 < k) /\ k + 1 # k /\ (k + 1) - 1 = k
    BY <1>2
  <2> QED
    BY <1>2, <1>3, <2>1 DEF NextIn
<1>8. FirstOf(q) = IF k = 1 THEN a ELSE FirstOf(p)
  <2>1. 1 \in 1..(n + 1) /\ (k # 1 => 1 < k /\ p # <<>>)
    BY <1>1, <1>2
  <2> QED
    BY <1>2, <1>3, <2>1 DEF FirstOf
<1>9. LastOf(q) = IF k = n + 1 THEN a ELSE LastOf(p)
  <2>1. n + 1 \in 1..(n + 1) /\ (n + 1) - 1 = n
    BY <1>1
  <2>2. k # n + 1 => ~ (n + 1 < k) /\ n + 1 # k /\ p # <<>>
    BY <1>1, <1>2
  <2> QED
    BY <1>1, <1>2, <1>3, <2>1, <2>2 DEF LastOf
<1>10. \A j \in 1..Len(q) : j # k => j < k \/ k < j
  BY <1>2
<1> QED
  BY <1>1, <1>2, <1>4, <1>5, <1>6, <1>7, <1>8, <1>9, <1>10 DEF AroundNew

AroundGone(D, p, k, q) ==
  /\ q \in Seq(D \ {p[k]}) /\ Len(q) = Len(p) - 1
  /\ \A j \in 1..Len(q) :
       /\ Later(j, k) \in 1..Len(p) /\ q[j] = p[Later(j, k)] /\ Later(j, k) # k
       /\ PrevIn(q, j) = IF Later(j, k) = k + 1 THEN PrevIn(p, k)
                         ELSE PrevIn(p, Later(j, k))
       /\ NextIn(q, j) = IF Later(j, k) = k - 1 THEN NextIn(p, k)
                         ELSE NextIn(p, Later(j, k))
  /\ FirstOf(q) = IF k = 1 THEN NextIn(p, k) ELSE FirstOf(p)
  /\ LastOf(q) = IF k = Len(p) THEN PrevIn(p, k) ELSE LastOf(p)

LEMMA NeighboursAfterRemoval ==
  ASSUME NEW D, NEW p \in Seq(D), NEW k \in 1..Len(p),
         \A i \in 1..Len(p) : i # k => p[i] # p[k], NEW q, q = RemovedAt(p, k)
  PROVE  AroundGone(D, p, k, q)
<1>1. PICK n \in Nat : n = Len(p)
  OBVIOUS
<1>2. /\ q \in Seq(D \ {p[k]}) /\ Len(q) = n - 1 /\ k \in 1..n /\ p # <<>>
      /\ n - 1 \in Nat /\ (n = 1 <=> q = <<>>)
  <2>1. q \in Seq(D \ {p[k]}) /\ Len(q) = n - 1
    BY <1>1, RemovedIs, Zenon
  <2>2. k \in 1..n /\ p # <<>> /\ n - 1 \in Nat
    BY <1>1
  <2> QED
    BY <2>1, <2>2
<1>3. \A i \in 1..(n - 1) : q[i] = IF i < k THEN p[i] ELSE p[i + 1]
  BY <1>1, RemovedIs
<1>4. ASSUME NEW j \in 1..(n - 1), j < k
      PROVE  /\ Later(j, k) = j /\ j \in 1..n /\ q[j] = p[j] /\ j # k /\ j # k + 1
             /\ PrevIn(q, j) = PrevIn(p, j)
             /\ NextIn(q, j) = IF j = k - 1 THEN NextIn(p, k) ELSE NextIn(p, j)
  <2>1. Later(j, k) = j /\ j \in 1..n /\ q[j] = p[j] /\ j # k /\ j # k + 1
    BY <1>2, <1>3, <1>4 DEF Later
  <2>2. PrevIn(q, j) = PrevIn(p, j)
    <3>1. j # 1 => j - 1 \in 1..(n - 1) /\ j - 1 < k
      BY <1>2, <1>4
    <3> QED
      BY <1>3, <3>1 DEF PrevIn
  <2>3. CASE j = k - 1
    <3>1. j + 1 = k /\ ~ (k < k) /\ (k # n => k \in 1..(n - 1) /\ j # n - 1) /\ (k = n => j = n - 1)
      BY <1>2, <1>4, <2>3
    <3> QED
      BY <1>1, <1>2, <1>3, <2>1, <2>2, <2>3, <3>1 DEF NextIn
  <2>4. CASE j # k - 1
    <3>1. j # n /\ j # n - 1 /\ j + 1 \in 1..(n - 1) /\ j + 1 < k
      BY <1>2, <1>4, <2>4
    <3> QED
      BY <1>1, <1>2, <1>3, <2>1, <2>2, <2>4, <3>1 DEF NextIn
  <2> QED
    BY <2>3, <2>4
<1>5. ASSUME NEW j \in 1..(n - 1), ~ (j < k)
      PROVE  /\ Later(j, k) = j + 1 /\ j + 1 \in 1..n /\ q[j] = p[j + 1] /\ j + 1 # k
             /\ j + 1 # k - 1
             /\ PrevIn(q, j) = IF j + 1 = k + 1 THEN PrevIn(p, k) ELSE PrevIn(p, j + 1)
             /\ NextIn(q, j) = NextIn(p, j + 1)
  <2>1. Later(j, k) = j + 1 /\ j + 1 \in 1..n /\ q[j] = p[j + 1] /\ j + 1 # k /\ j + 1 # k - 1
    BY <1>2, <1>3, <1>5 DEF Later
  <2>2. NextIn(q, j) = NextIn(p, j + 1)
    <3>1. /\ j # n - 1 => j + 1 \in 1..(n - 1) /\ ~ (j + 1 < k) /\ j + 1 # n
          /\ j = n - 1 => j + 1 = n
      BY <1>2, <1>5
    <3> QED
      BY <1>1, <1>2, <1>3, <3>1 DEF NextIn
  <2>3. CASE j = k
    <3>1. k # 1 => k - 1 \in 1..(n - 1) /\ k - 1 < k
      BY <1>2
    <3> QED
      BY <1>3, <2>1, <2>2, <2>3, <3>1 DEF PrevIn
  <2>4. CASE j # k
    <3>1. j # 1 /\ j + 1 # 1 /\ j - 1 \in 1..(n - 1) /\ ~ (j - 1 < k) /\ (j - 1) + 1 = (j + 1) - 1
          /\ j + 1 # k + 1
      BY <1>2, <1>5, <2>4
    <3>2. q[j - 1] = p[(j - 1) + 1]
      BY <1>3, <3>1
    <3> QED
      BY <2>1, <2>2, <3>1, <3>2 DEF PrevIn
  <2> QED
    BY <2>3, <2>4
<1>6. FirstOf(q) = IF k = 1 THEN NextIn(p, k) ELSE FirstOf(p)
  <2>1. /\ k # 1 => 1 \in 1..(n - 1) /\ 1 < k /\ n # 1
        /\ k = 1 /\ n # 1 => 1 \in 1..(n - 1) /\ ~ (1 < k)
    BY <1>2
  <2> QED
    BY <1>1, <1>2, <1>3, <2>1 DEF FirstOf, NextIn
<1>7. LastOf(q) = IF k = n THEN PrevIn(p, k) ELSE LastOf(p)
  <2>1. /\ k # n => n - 1 \in 1..(n - 1) /\ ~ (n - 1 < k) /\ (n - 1) + 1 = n /\ n # 1
        /\ k = n /\ n # 1 => n - 1 \in 1..(n - 1) /\ n - 1 < k /\ k # 1
    BY <1>2
  <2> QED
    BY <1>1, <1>2, <1>3, <2>1 DEF LastOf, PrevIn
<1> QED
  BY <1>1, <1>2, <1>4, <1>5, <1>6, <1>7 DEF AroundGone
-----------------------------------------------------------------------------
(* list: the ends of each list, and the links of its nodes.                  *)
Ends(P, ls) ==
  ls = [l \in Lists |-> [head |-> FirstOf(P[l]), tail |-> LastOf(P[l]), size |-> Len(P[l])]]
Linked(P, nd) ==
  /\ nd = [a \in DOMAIN nd |-> nd[a]]
  /\ \A l \in Lists : \A k \in 1..Len(P[l]) :
       nd[P[l][k]] = [value |-> nd[P[l][k]].value,
                      prev |-> PrevIn(P[l], k), next |-> NextIn(P[l], k)]
  /\ \A a \in DOMAIN nd : nd[a].value \in ListValues
Doubly(P, ls, nd) == Heap(P, DOMAIN nd) /\ Ends(P, ls) /\ Linked(P, nd)

LEMMA NullApart == ASSUME NEW P, NEW D, Heap(P, D) PROVE Null \notin D
BY ListsAssumption DEF DL!ListAssumption, Heap

LEMMA InHeap ==
  ASSUME NEW P, NEW D, Heap(P, D), NEW l \in Lists
  PROVE  /\ P[l] \in Seq(D) /\ Len(P[l]) \in Nat
         /\ \A i \in 1..Len(P[l]) : P[l][i] \in D /\ P[l][i] # Null
         /\ \A i, j \in 1..Len(P[l]) : P[l][i] = P[l][j] => i = j
         /\ \A m \in Lists, i \in 1..Len(P[l]) : m # l =>
              \A j \in 1..Len(P[m]) : P[m][j] # P[l][i]
<1>1. P[l] \in Seq(D)
  BY DEF Heap
<1>2. Len(P[l]) \in Nat /\ \A i \in 1..Len(P[l]) : P[l][i] \in D
  BY <1>1
<1>3. \A i, j \in 1..Len(P[l]) : P[l][i] = P[l][j] => i = j
  BY DEF Heap, Places
<1>4. \A m \in Lists, i \in 1..Len(P[l]) : m # l => \A j \in 1..Len(P[m]) : P[m][j] # P[l][i]
  BY DEF Heap, Places
<1> QED
  BY <1>1, <1>2, <1>3, <1>4, NullApart

LEMMA NodeParts ==
  ASSUME NEW P, NEW ls, NEW nd, Doubly(P, ls, nd), NEW b \in DOMAIN nd
  PROVE  nd[b] = [value |-> nd[b].value, prev |-> nd[b].prev, next |-> nd[b].next]
<1>1. PICK l \in Lists : \E i \in 1..Len(P[l]) : P[l][i] = b
  BY DEF Doubly, Heap, Covers
<1>2. PICK i \in 1..Len(P[l]) : P[l][i] = b
  BY <1>1
<1>3. nd[P[l][i]] = [value |-> nd[P[l][i]].value, prev |-> PrevIn(P[l], i), next |-> NextIn(P[l], i)]
  BY DEF Doubly, Linked
<1> QED
  BY <1>2, <1>3

(* A node goes in at place k of list l.                                      *)
JoinedAs(nd, a, p, n, v) ==
  /\ nd = [b \in DOMAIN nd |-> nd[b]] /\ DOMAIN nd = DOMAIN node \cup {a}
  /\ nd[a] = [value |-> v, prev |-> p, next |-> n]
  /\ \A b \in DOMAIN node :
       nd[b] = [value |-> node[b].value,
                prev |-> IF b = n THEN a ELSE node[b].prev,
                next |-> IF b = p THEN a ELSE node[b].next]

LEMMA JoinedIs ==
  ASSUME NEW P, NEW ls, Doubly(P, ls, node), NEW a, a \notin DOMAIN node, NEW p, NEW n, NEW v,
         NEW nd, nd = DL!Joined(a, p, n, v)
  PROVE  JoinedAs(nd, a, p, n, v)
<1>1. ASSUME NEW b \in DOMAIN node
      PROVE  nd[b] = [value |-> node[b].value,
                      prev |-> IF b = n THEN a ELSE node[b].prev,
                      next |-> IF b = p THEN a ELSE node[b].next]
  <2>1. PICK r : r = node[b]
    OBVIOUS
  <2>2. r = [value |-> r.value, prev |-> r.prev, next |-> r.next]
    BY <2>1, NodeParts
  <2>3. nd[b] = [r EXCEPT !.next = IF b = p THEN a ELSE @, !.prev = IF b = n THEN a ELSE @]
    BY <2>1 DEF DL!Joined
  <2>4. PICK x, y : x = (IF b = p THEN a ELSE r.next) /\ y = (IF b = n THEN a ELSE r.prev)
    OBVIOUS
  <2>5. nd[b] = [r EXCEPT !.next = x, !.prev = y]
    BY <2>3, <2>4
  <2>6. nd[b] = [value |-> r.value, prev |-> y, next |-> x]
    BY <2>2, <2>5
  <2> QED
    BY <2>1, <2>4, <2>6
<1> QED
  BY <1>1 DEF DL!Joined, JoinedAs

(* The head, tail and size of list l once a node a is between p and n.       *)
PutEnds(l, a, p, n) ==
  [lst EXCEPT ![l] = [head |-> IF p = Null THEN a ELSE @.head,
                      tail |-> IF n = Null THEN a ELSE @.tail,
                      size |-> @.size + 1]]

(* The node at place k of w, of which the place after the last has none.     *)
AtOrEnd(w, k) == IF k = Len(w) + 1 THEN Null ELSE w[k]

LEMMA PutKeeps ==
  ASSUME NEW P, Doubly(P, lst, node), NEW l \in Lists, NEW k \in 1..(Len(P[l]) + 1),
         NEW p, p = PrevIn(P[l], k), NEW n, n = AtOrEnd(P[l], k),
         NEW v \in ListValues, NEW a \in Addresses \ DOMAIN node,
         NEW Q, Q = [P EXCEPT ![l] = InsertedAt(P[l], k, a)],
         NEW nd, nd = DL!Joined(a, p, n, v),
         NEW ls, ls = PutEnds(l, a, p, n)
  PROVE  Doubly(Q, ls, nd)
<1>1. Heap(P, DOMAIN node) /\ Ends(P, lst) /\ Linked(P, node)
  BY DEF Doubly
<1>2. PICK o : o = P[l]
  OBVIOUS
<1>3. PICK q : q = InsertedAt(o, k, a)
  OBVIOUS
<1>4. PICK c \in Nat : c = Len(o)
  BY <1>1, <1>2, InHeap
<1>5. /\ o \in Seq(DOMAIN node) /\ \A i \in 1..c : o[i] \in DOMAIN node /\ o[i] # Null
      /\ \A i, j \in 1..c : o[i] = o[j] => i = j
  BY <1>1, <1>2, <1>4, InHeap
<1>6. /\ Q = [m \in Lists |-> Q[m]] /\ Q[l] = q /\ \A m \in Lists : m # l => Q[m] = P[m]
  BY <1>1, <1>2, <1>3 DEF Heap
<1>7. /\ nd = [b \in DOMAIN nd |-> nd[b]] /\ DOMAIN nd = DOMAIN node \cup {a}
      /\ nd[a] = [value |-> v, prev |-> p, next |-> n]
      /\ \A b \in DOMAIN node :
           nd[b] = [value |-> node[b].value,
                    prev |-> IF b = n THEN a ELSE node[b].prev,
                    next |-> IF b = p THEN a ELSE node[b].next]
  <2>1. JoinedAs(nd, a, p, n, v)
    BY JoinedIs
  <2> QED
    BY <2>1 DEF JoinedAs
<1>8. k \in 1..(c + 1) /\ p = PrevIn(o, k) /\ n = IF k = c + 1 THEN Null ELSE o[k]
  BY <1>2, <1>4 DEF AtOrEnd
<1>9. /\ q \in Seq(DOMAIN node \cup {a}) /\ Len(q) = c + 1 /\ q[k] = a
      /\ PrevIn(q, k) = p /\ NextIn(q, k) = n
      /\ \A j \in 1..(c + 1) : j # k =>
           /\ Old(j, k) \in 1..c /\ q[j] = o[Old(j, k)]
           /\ PrevIn(q, j) = IF Old(j, k) = k THEN a ELSE PrevIn(o, Old(j, k))
           /\ NextIn(q, j) = IF Old(j, k) = k - 1 THEN a ELSE NextIn(o, Old(j, k))
      /\ FirstOf(q) = IF k = 1 THEN a ELSE FirstOf(o)
      /\ LastOf(q) = IF k = c + 1 THEN a ELSE LastOf(o)
  <2>1. o \in Seq(DOMAIN node) /\ k \in 1..(Len(o) + 1) /\ q = InsertedAt(o, k, a)
    BY <1>3, <1>4, <1>5, <1>8
  <2>2. AroundNew(DOMAIN node, o, k, a, q)
    BY <2>1, NeighboursAfterInsertion, Zenon
  <2> QED
    BY <1>4, <1>8, <2>2 DEF AroundNew
<1>10. Heap(Q, DOMAIN nd)
  <2>1. Heap(Q, DOMAIN node \cup {a})
    BY <1>1, HeapWith, Zenon
  <2> QED
    BY <1>7, <2>1
<1>11. /\ p = Null <=> k = 1
       /\ n = Null <=> k = c + 1
       /\ \A i \in 1..c : (o[i] = p <=> i = k - 1) /\ (o[i] = n <=> i = k)
  <2>1. CASE k = 1
    BY <1>5, <1>8, <2>1 DEF PrevIn
  <2>2. CASE k # 1
    <3>1. k - 1 \in 1..c /\ p = o[k - 1]
      BY <1>8, <2>2 DEF PrevIn
    <3> QED
      BY <1>5, <1>8, <2>2, <3>1
  <2> QED
    BY <2>1, <2>2
<1>12. Ends(Q, ls)
  <2>1. lst = [m \in Lists |-> lst[m]]
    BY <1>1 DEF Ends
  <2>2. lst[l].head = FirstOf(o) /\ lst[l].tail = LastOf(o) /\ lst[l].size = c
    BY <1>1, <1>2, <1>4 DEF Ends
  <2>3. ls[l] = [head |-> FirstOf(q), tail |-> LastOf(q), size |-> Len(q)]
    BY <1>9, <1>11, <2>1, <2>2 DEF PutEnds
  <2>4. \A m \in Lists : m # l => ls[m] = lst[m]
    BY <2>1 DEF PutEnds
  <2>5. \A m \in Lists : ls[m] = [head |-> FirstOf(Q[m]), tail |-> LastOf(Q[m]), size |-> Len(Q[m])]
    BY <1>1, <1>6, <2>3, <2>4 DEF Ends
  <2>6. ls = [m \in Lists |-> ls[m]]
    BY <2>1 DEF PutEnds
  <2> QED
    BY <2>5, <2>6 DEF Ends
<1>13. ASSUME NEW m \in Lists, NEW j \in 1..Len(Q[m])
       PROVE  nd[Q[m][j]] = [value |-> nd[Q[m][j]].value,
                             prev |-> PrevIn(Q[m], j), next |-> NextIn(Q[m], j)]
  <2>1. CASE m # l
    <3>1. PICK b \in DOMAIN node : b = P[m][j] /\ Q[m] = P[m]
      BY <1>1, <1>6, <1>13, <2>1, InHeap
    <3>2. \A i \in 1..c : o[i] # b
      BY <1>1, <1>2, <1>4, <1>6, <1>13, <2>1, <3>1, InHeap
    <3>3. b # p /\ b # n
      <4>1. Null \notin DOMAIN node
        BY <1>1, NullApart
      <4>2. p = Null \/ \E i \in 1..c : p = o[i]
        <5>1. k # 1 => k - 1 \in 1..c
          BY <1>8
        <5> QED
          BY <1>8, <5>1 DEF PrevIn
      <4>3. n = Null \/ \E i \in 1..c : n = o[i]
        BY <1>8
      <4> QED
        BY <3>1, <3>2, <4>1, <4>2, <4>3
    <3>4. node[b] = [value |-> node[b].value, prev |-> PrevIn(P[m], j), next |-> NextIn(P[m], j)]
      BY <1>1, <1>13, <3>1 DEF Linked
    <3>5. nd[b] = [value |-> node[b].value, prev |-> node[b].prev, next |-> node[b].next]
      BY <1>7, <3>1, <3>3
    <3> QED
      BY <3>1, <3>4, <3>5
  <2>2. CASE m = l /\ j = k
    BY <1>6, <1>7, <1>9, <2>2
  <2>3. CASE m = l /\ j # k
    <3>1. PICK i \in 1..c : i = Old(j, k) /\ q[j] = o[i]
      BY <1>6, <1>9, <1>13, <2>3
    <3>2. /\ PrevIn(q, j) = IF i = k THEN a ELSE PrevIn(o, i)
          /\ NextIn(q, j) = IF i = k - 1 THEN a ELSE NextIn(o, i)
      BY <1>6, <1>9, <1>13, <2>3, <3>1
    <3>3. PICK b \in DOMAIN node : b = o[i]
      BY <1>5
    <3>4. node[b] = [value |-> node[b].value, prev |-> PrevIn(o, i), next |-> NextIn(o, i)]
      BY <1>1, <1>2, <1>4, <3>3 DEF Linked
    <3>5. nd[b] = [value |-> node[b].value,
                   prev |-> IF i = k THEN a ELSE node[b].prev,
                   next |-> IF i = k - 1 THEN a ELSE node[b].next]
      BY <1>7, <1>11, <3>3
    <3>6. nd[b] = [value |-> node[b].value, prev |-> PrevIn(q, j), next |-> NextIn(q, j)]
      BY <3>2, <3>4, <3>5
    <3> QED
      BY <1>6, <2>3, <3>1, <3>3, <3>6
  <2> QED
    BY <2>1, <2>2, <2>3
<1>14. ASSUME NEW b \in DOMAIN nd PROVE nd[b].value \in ListValues
  <2>1. CASE b = a
    BY <1>7, <2>1
  <2>2. CASE b \in DOMAIN node
    <3>1. nd[b] = [value |-> node[b].value,
                   prev |-> IF b = n THEN a ELSE node[b].prev,
                   next |-> IF b = p THEN a ELSE node[b].next]
      BY <1>7, <2>2
    <3> QED
      BY <1>1, <2>2, <3>1 DEF Linked
  <2> QED
    BY <1>7, <2>1, <2>2
<1> QED
  BY <1>7, <1>10, <1>12, <1>13, <1>14 DEF Doubly, Linked

(* The node at place k of list l goes.                                       *)
UnlinkedAs(nd, a) ==
  /\ nd = [b \in DOMAIN nd |-> nd[b]] /\ DOMAIN nd = DOMAIN node \ {a}
  /\ \A b \in DOMAIN nd :
       nd[b] = [value |-> node[b].value,
                prev |-> IF b = node[a].next THEN node[a].prev ELSE node[b].prev,
                next |-> IF b = node[a].prev THEN node[a].next ELSE node[b].next]

LEMMA UnlinkedIs ==
  ASSUME NEW P, NEW ls, Doubly(P, ls, node), NEW a, NEW nd, nd = DL!Unlinked(a)
  PROVE  UnlinkedAs(nd, a)
<1>1. ASSUME NEW b \in DOMAIN node \ {a}
      PROVE  nd[b] = [value |-> node[b].value,
                      prev |-> IF b = node[a].next THEN node[a].prev ELSE node[b].prev,
                      next |-> IF b = node[a].prev THEN node[a].next ELSE node[b].next]
  <2>1. PICK r, p, n : r = node[b] /\ p = node[a].prev /\ n = node[a].next
    OBVIOUS
  <2>2. r = [value |-> r.value, prev |-> r.prev, next |-> r.next]
    BY <2>1, NodeParts
  <2>3. nd[b] = [r EXCEPT !.next = IF b = p THEN n ELSE @, !.prev = IF b = n THEN p ELSE @]
    BY <2>1 DEF DL!Unlinked
  <2>4. PICK x, y : x = (IF b = p THEN n ELSE r.next) /\ y = (IF b = n THEN p ELSE r.prev)
    OBVIOUS
  <2>5. nd[b] = [r EXCEPT !.next = x, !.prev = y]
    BY <2>3, <2>4
  <2>6. nd[b] = [value |-> r.value, prev |-> y, next |-> x]
    BY <2>2, <2>5
  <2> QED
    BY <2>1, <2>4, <2>6
<1> QED
  BY <1>1 DEF DL!Unlinked, UnlinkedAs

LEMMA EraseKeeps ==
  ASSUME NEW P, Doubly(P, lst, node), NEW l \in Lists, NEW k \in 1..Len(P[l]),
         NEW a, a = P[l][k],
         NEW Q, Q = [P EXCEPT ![l] = RemovedAt(P[l], k)],
         NEW nd, nd = DL!Unlinked(a),
         NEW ls, ls = [lst EXCEPT ![l] =
                         [head |-> IF node[a].prev = Null THEN node[a].next ELSE @.head,
                          tail |-> IF node[a].next = Null THEN node[a].prev ELSE @.tail,
                          size |-> @.size - 1]]
  PROVE  Doubly(Q, ls, nd)
<1>1. Heap(P, DOMAIN node) /\ Ends(P, lst) /\ Linked(P, node)
  BY DEF Doubly
<1>2. PICK o : o = P[l]
  OBVIOUS
<1>3. PICK q : q = RemovedAt(o, k)
  OBVIOUS
<1>4. PICK c \in Nat : c = Len(o)
  BY <1>1, <1>2, InHeap
<1>5. /\ o \in Seq(DOMAIN node) /\ \A i \in 1..c : o[i] \in DOMAIN node /\ o[i] # Null
      /\ \A i, j \in 1..c : o[i] = o[j] => i = j
  BY <1>1, <1>2, <1>4, InHeap
<1>6. /\ Q = [m \in Lists |-> Q[m]] /\ Q[l] = q /\ \A m \in Lists : m # l => Q[m] = P[m]
  BY <1>1, <1>2, <1>3 DEF Heap
<1>7. k \in 1..c /\ a = o[k] /\ a \in DOMAIN node
  BY <1>2, <1>4, <1>5
<1>8. PICK p, n : p = PrevIn(o, k) /\ n = NextIn(o, k)
  OBVIOUS
<1>9. node[a].prev = p /\ node[a].next = n
  <2>1. node[a] = [value |-> node[a].value, prev |-> p, next |-> n]
    BY <1>1, <1>2, <1>4, <1>7, <1>8 DEF Linked
  <2> QED
    BY <2>1
<1>10. /\ nd = [b \in DOMAIN nd |-> nd[b]] /\ DOMAIN nd = DOMAIN node \ {a}
       /\ \A b \in DOMAIN nd :
            nd[b] = [value |-> node[b].value,
                     prev |-> IF b = n THEN p ELSE node[b].prev,
                     next |-> IF b = p THEN n ELSE node[b].next]
  <2>1. UnlinkedAs(nd, a)
    BY UnlinkedIs
  <2> QED
    BY <1>9, <2>1 DEF UnlinkedAs
<1>11. /\ q \in Seq(DOMAIN node \ {a}) /\ Len(q) = c - 1
       /\ \A j \in 1..(c - 1) :
            /\ Later(j, k) \in 1..c /\ q[j] = o[Later(j, k)] /\ Later(j, k) # k
            /\ PrevIn(q, j) = IF Later(j, k) = k + 1 THEN p ELSE PrevIn(o, Later(j, k))
            /\ NextIn(q, j) = IF Later(j, k) = k - 1 THEN n ELSE NextIn(o, Later(j, k))
       /\ FirstOf(q) = IF k = 1 THEN n ELSE FirstOf(o)
       /\ LastOf(q) = IF k = c THEN p ELSE LastOf(o)
  <2>1. /\ o \in Seq(DOMAIN node) /\ k \in 1..Len(o) /\ q = RemovedAt(o, k)
        /\ \A i \in 1..Len(o) : i # k => o[i] # o[k]
    BY <1>3, <1>4, <1>5, <1>7
  <2>2. AroundGone(DOMAIN node, o, k, q)
    BY <2>1, NeighboursAfterRemoval, Zenon
  <2> QED
    BY <1>4, <1>7, <1>8, <2>2 DEF AroundGone
<1>12. Heap(Q, DOMAIN nd)
  <2>1. Heap(Q, DOMAIN node \ {a})
    BY <1>1, HeapWithout, Zenon
  <2> QED
    BY <1>10, <2>1
<1>13. /\ p = Null <=> k = 1
       /\ n = Null <=> k = c
       /\ \A i \in 1..c : (o[i] = p <=> i = k - 1) /\ (o[i] = n <=> i = k + 1)
  <2>1. (p = Null /\ k = 1) \/ (k # 1 /\ k - 1 \in 1..c /\ p = o[k - 1])
    <3>1. k # 1 => k - 1 \in 1..c
      BY <1>7
    <3>2. CASE k = 1
      BY <1>8, <3>2 DEF PrevIn
    <3>3. CASE k # 1
      BY <1>8, <3>1, <3>3 DEF PrevIn
    <3> QED
      BY <3>2, <3>3
  <2>2. (n = Null /\ k = c) \/ (k # c /\ k + 1 \in 1..c /\ n = o[k + 1])
    <3>1. k # c => k + 1 \in 1..c
      BY <1>7
    <3>2. CASE k = c
      BY <1>4, <1>8, <3>2 DEF NextIn
    <3>3. CASE k # c
      BY <1>4, <1>8, <3>1, <3>3 DEF NextIn
    <3> QED
      BY <3>2, <3>3
  <2>3. \A i \in 1..c : o[i] = p <=> i = k - 1
    BY <1>5, <2>1
  <2>4. \A i \in 1..c : o[i] = n <=> i = k + 1
    BY <1>5, <2>2
  <2> QED
    BY <1>5, <2>1, <2>2, <2>3, <2>4
<1>14. Ends(Q, ls)
  <2>1. lst = [m \in Lists |-> lst[m]]
    BY <1>1 DEF Ends
  <2>2. lst[l].head = FirstOf(o) /\ lst[l].tail = LastOf(o) /\ lst[l].size = c
    BY <1>1, <1>2, <1>4 DEF Ends
  <2>3. ls[l] = [head |-> FirstOf(q), tail |-> LastOf(q), size |-> Len(q)]
    BY <1>9, <1>11, <1>13, <2>1, <2>2
  <2>4. \A m \in Lists : m # l => ls[m] = lst[m]
    BY <2>1
  <2>5. \A m \in Lists : ls[m] = [head |-> FirstOf(Q[m]), tail |-> LastOf(Q[m]), size |-> Len(Q[m])]
    BY <1>1, <1>6, <2>3, <2>4 DEF Ends
  <2>6. ls = [m \in Lists |-> ls[m]]
    BY <2>1
  <2> QED
    BY <2>5, <2>6 DEF Ends
<1>15. ASSUME NEW m \in Lists, NEW j \in 1..Len(Q[m])
       PROVE  nd[Q[m][j]] = [value |-> nd[Q[m][j]].value,
                             prev |-> PrevIn(Q[m], j), next |-> NextIn(Q[m], j)]
  <2>1. CASE m # l
    <3>1. PICK b \in DOMAIN node : b = P[m][j] /\ Q[m] = P[m]
      BY <1>1, <1>6, <1>15, <2>1, InHeap
    <3>2. \A i \in 1..c : o[i] # b
      BY <1>1, <1>2, <1>4, <1>6, <1>15, <2>1, <3>1, InHeap
    <3>3. b # p /\ b # n /\ b # a
      <4>1. Null \notin DOMAIN node
        BY <1>1, NullApart
      <4>2. p = Null \/ \E i \in 1..c : p = o[i]
        <5>1. k # 1 => k - 1 \in 1..c
          BY <1>7
        <5> QED
          BY <1>8, <5>1 DEF PrevIn
      <4>3. n = Null \/ \E i \in 1..c : n = o[i]
        <5>1. k # c => k + 1 \in 1..c
          BY <1>7
        <5> QED
          BY <1>4, <1>8, <5>1 DEF NextIn
      <4> QED
        BY <1>7, <3>1, <3>2, <4>1, <4>2, <4>3
    <3>4. node[b] = [value |-> node[b].value, prev |-> PrevIn(P[m], j), next |-> NextIn(P[m], j)]
      BY <1>1, <1>15, <3>1 DEF Linked
    <3>5. nd[b] = [value |-> node[b].value, prev |-> node[b].prev, next |-> node[b].next]
      BY <1>10, <3>1, <3>3
    <3> QED
      BY <3>1, <3>4, <3>5
  <2>2. CASE m = l
    <3>1. PICK i \in 1..c : i = Later(j, k) /\ q[j] = o[i] /\ i # k
      BY <1>6, <1>11, <1>15, <2>2
    <3>2. /\ PrevIn(q, j) = IF i = k + 1 THEN p ELSE PrevIn(o, i)
          /\ NextIn(q, j) = IF i = k - 1 THEN n ELSE NextIn(o, i)
      BY <1>6, <1>11, <1>15, <2>2, <3>1
    <3>3. PICK b \in DOMAIN nd : b = o[i] /\ b # a
      BY <1>5, <1>7, <1>10, <3>1
    <3>4. node[b] = [value |-> node[b].value, prev |-> PrevIn(o, i), next |-> NextIn(o, i)]
      BY <1>1, <1>2, <1>4, <3>3 DEF Linked
    <3>5. nd[b] = [value |-> node[b].value,
                   prev |-> IF i = k + 1 THEN p ELSE node[b].prev,
                   next |-> IF i = k - 1 THEN n ELSE node[b].next]
      BY <1>10, <1>13, <3>3
    <3>6. nd[b] = [value |-> node[b].value, prev |-> PrevIn(q, j), next |-> NextIn(q, j)]
      BY <3>2, <3>4, <3>5
    <3> QED
      BY <1>6, <2>2, <3>1, <3>3, <3>6
  <2> QED
    BY <2>1, <2>2
<1>16. ASSUME NEW b \in DOMAIN nd PROVE nd[b].value \in ListValues
  <2>1. nd[b] = [value |-> node[b].value,
                 prev |-> IF b = n THEN p ELSE node[b].prev,
                 next |-> IF b = p THEN n ELSE node[b].next]
    BY <1>10
  <2> QED
    BY <1>1, <1>10, <2>1 DEF Linked
<1> QED
  BY <1>10, <1>12, <1>14, <1>15, <1>16 DEF Doubly, Linked

(* The nodes of list l go, and others take their place: none, those of       *)
(* another list, or new ones.                                                *)
(* Of the memory mem, nd keeps all but the nodes gone.                       *)
LessOf(nd, mem, gone) ==
  /\ nd = [b \in DOMAIN nd |-> nd[b]] /\ DOMAIN nd = DOMAIN mem \ gone
  /\ \A b \in DOMAIN nd : nd[b] = mem[b]

LEMMA WithoutIs ==
  ASSUME NEW gone, NEW nd, nd = DL!Without(gone)
  PROVE  LessOf(nd, node, gone)
BY DEF DL!Without, LessOf

LEMMA NothingIn ==
  FirstOf(<<>>) = Null /\ LastOf(<<>>) = Null /\ Len(<<>>) = 0 /\ 1..Len(<<>>) = {}
BY DEF FirstOf, LastOf

LEMMA ClearKeeps ==
  ASSUME NEW P, Doubly(P, lst, node), NEW l \in Lists,
         NEW Q, Q = [P EXCEPT ![l] = <<>>],
         NEW nd, nd = DL!Without(NodesIn(P[l])),
         NEW ls, ls = [lst EXCEPT ![l] = DL!NoNodes]
  PROVE  Doubly(Q, ls, nd)
<1>1. Heap(P, DOMAIN node) /\ Ends(P, lst) /\ Linked(P, node)
  BY DEF Doubly
<1>2. Q = [m \in Lists |-> Q[m]] /\ Q[l] = <<>> /\ \A m \in Lists : m # l => Q[m] = P[m]
  BY <1>1 DEF Heap
<1>3. /\ nd = [b \in DOMAIN nd |-> nd[b]] /\ DOMAIN nd = DOMAIN node \ NodesIn(P[l])
      /\ \A b \in DOMAIN nd : nd[b] = node[b]
  <2>1. LessOf(nd, node, NodesIn(P[l]))
    BY WithoutIs, Zenon
  <2> QED
    BY <2>1 DEF LessOf
<1>4. Heap(Q, DOMAIN nd)
  <2>1. Heap(Q, DOMAIN node \ NodesIn(P[l]))
    BY <1>1, HeapEmptied, Zenon
  <2> QED
    BY <1>3, <2>1
<1>5. Ends(Q, ls)
  <2>1. ls = [m \in Lists |-> ls[m]] /\ ls[l] = DL!NoNodes /\ \A m \in Lists : m # l => ls[m] = lst[m]
    BY <1>1 DEF Ends
  <2>2. ASSUME NEW m \in Lists
        PROVE  ls[m] = [head |-> FirstOf(Q[m]), tail |-> LastOf(Q[m]), size |-> Len(Q[m])]
    <3>1. CASE m = l
      BY <1>2, <2>1, <3>1, NothingIn DEF DL!NoNodes
    <3>2. CASE m # l
      BY <1>1, <1>2, <2>1, <3>2 DEF Ends
    <3> QED
      BY <3>1, <3>2
  <2>3. ls = [m \in Lists |-> ls[m]]
    BY <2>1
  <2> QED
    BY <2>2, <2>3 DEF Ends
<1>6. ASSUME NEW m \in Lists, NEW j \in 1..Len(Q[m])
      PROVE  nd[Q[m][j]] = [value |-> nd[Q[m][j]].value,
                            prev |-> PrevIn(Q[m], j), next |-> NextIn(Q[m], j)]
  <2>1. m # l /\ Q[m] = P[m]
    BY <1>2, <1>6, NothingIn
  <2>2. nd[P[m][j]] = node[P[m][j]]
    <3>1. P[m][j] \in DOMAIN nd
      BY <1>4, <1>6, <2>1, InHeap
    <3> QED
      BY <1>3, <3>1
  <2> QED
    BY <1>1, <1>6, <2>1, <2>2 DEF Linked
<1>7. \A b \in DOMAIN nd : nd[b].value \in ListValues
  BY <1>1, <1>3 DEF Linked
<1> QED
  BY <1>3, <1>4, <1>5, <1>6, <1>7 DEF Doubly, Linked

LEMMA MoveKeeps ==
  ASSUME NEW P, Doubly(P, lst, node), NEW d \in Lists, NEW s \in Lists, d # s,
         NEW Q, Q = [P EXCEPT ![d] = P[s], ![s] = <<>>],
         NEW nd, nd = DL!Without(NodesIn(P[d])),
         NEW ls, ls = [lst EXCEPT ![d] = lst[s], ![s] = DL!NoNodes]
  PROVE  Doubly(Q, ls, nd)
<1>1. Heap(P, DOMAIN node) /\ Ends(P, lst) /\ Linked(P, node)
  BY DEF Doubly
<1>2. /\ Q = [m \in Lists |-> Q[m]] /\ Q[d] = P[s] /\ Q[s] = <<>>
      /\ \A m \in Lists : m # d /\ m # s => Q[m] = P[m]
  BY <1>1 DEF Heap
<1>3. /\ nd = [b \in DOMAIN nd |-> nd[b]] /\ DOMAIN nd = DOMAIN node \ NodesIn(P[d])
      /\ \A b \in DOMAIN nd : nd[b] = node[b]
  <2>1. LessOf(nd, node, NodesIn(P[d]))
    BY WithoutIs, Zenon
  <2> QED
    BY <2>1 DEF LessOf
<1>4. Heap(Q, DOMAIN nd)
  <2>1. Heap(Q, DOMAIN node \ NodesIn(P[d]))
    BY <1>1, HeapHanded, Zenon
  <2> QED
    BY <1>3, <2>1
<1>5. Ends(Q, ls)
  <2>1. /\ ls = [m \in Lists |-> ls[m]] /\ ls[d] = lst[s] /\ ls[s] = DL!NoNodes
        /\ \A m \in Lists : m # d /\ m # s => ls[m] = lst[m]
    BY <1>1 DEF Ends
  <2>2. ASSUME NEW m \in Lists
        PROVE  ls[m] = [head |-> FirstOf(Q[m]), tail |-> LastOf(Q[m]), size |-> Len(Q[m])]
    <3>1. CASE m = s
      BY <1>2, <2>1, <3>1, NothingIn DEF DL!NoNodes
    <3>2. CASE m = d
      BY <1>1, <1>2, <2>1, <3>2 DEF Ends
    <3>3. CASE m # d /\ m # s
      BY <1>1, <1>2, <2>1, <3>3 DEF Ends
    <3> QED
      BY <3>1, <3>2, <3>3
  <2>3. ls = [m \in Lists |-> ls[m]]
    BY <2>1
  <2> QED
    BY <2>2, <2>3 DEF Ends
<1>6. ASSUME NEW m \in Lists, NEW j \in 1..Len(Q[m])
      PROVE  nd[Q[m][j]] = [value |-> nd[Q[m][j]].value,
                            prev |-> PrevIn(Q[m], j), next |-> NextIn(Q[m], j)]
  <2>1. m # s
    BY <1>2, <1>6, NothingIn
  <2>2. nd[Q[m][j]] = node[Q[m][j]]
    <3>1. Q[m][j] \in DOMAIN nd
      BY <1>4, <1>6, InHeap
    <3> QED
      BY <1>3, <3>1
  <2>3. PICK n \in Lists : Q[m] = P[n]
    BY <1>2, <2>1
  <2>4. node[P[n][j]] = [value |-> node[P[n][j]].value,
                         prev |-> PrevIn(P[n], j), next |-> NextIn(P[n], j)]
    BY <1>1, <1>6, <2>3 DEF Linked
  <2> QED
    BY <2>2, <2>3, <2>4
<1>7. \A b \in DOMAIN nd : nd[b].value \in ListValues
  BY <1>1, <1>3 DEF Linked
<1> QED
  BY <1>3, <1>4, <1>5, <1>6, <1>7 DEF Doubly, Linked

LEMMA AntiFunctionIs ==
  ASSUME NEW n \in Nat, NEW S, NEW f \in Injection(1..n, S), NEW i \in 1..n
  PROVE  DL!AntiFunction(f)[f[i]] = i /\ FL!AntiFunction(f)[f[i]] = i
<1>1. f \in [1..n -> S] /\ \A x, y \in 1..n : f[x] = f[y] => x = y
  BY DEF Injection, IsInjective
<1>2. f[i] \in {f[x] : x \in DOMAIN f}
  BY <1>1
<1>3. PICK k : k = CHOOSE s \in DOMAIN f : f[i] \in {f[x] : x \in DOMAIN f} => f[s] = f[i]
  OBVIOUS
<1>4. k \in DOMAIN f /\ f[k] = f[i]
  BY <1>1, <1>2, <1>3
<1>5. k = i
  BY <1>1, <1>4
<1>6. DL!AntiFunction(f)[f[i]] = k
  BY <1>2, <1>3 DEF DL!AntiFunction, DL!Inverse, DL!Range
<1>7. FL!AntiFunction(f)[f[i]] = k
  BY <1>2, <1>3 DEF FL!AntiFunction, FL!Inverse, FL!Range
<1> QED
  BY <1>5, <1>6, <1>7

LEMMA InjectionsSame ==
  ASSUME NEW S, NEW T
  PROVE  DL!Injection(S, T) = Injection(S, T) /\ FL!Injection(S, T) = Injection(S, T)
BY DEF DL!Injection, FL!Injection, Injection, DL!IsInjective, FL!IsInjective, IsInjective

CopiedOver(kept, w, f, n) ==
  [b \in DOMAIN kept \cup {f[k] : k \in 1..n} |->
     IF b \in DOMAIN kept THEN kept[b]
     ELSE LET k == DL!AntiFunction(f)[b]
          IN [value |-> node[w[k]].value,
              prev |-> IF k = 1 THEN Null ELSE f[k - 1],
              next |-> IF k = n THEN Null ELSE f[k + 1]]]

CopyEnds(d, f, n) ==
  [lst EXCEPT ![d] = IF n = 0 THEN DL!NoNodes ELSE [head |-> f[1], tail |-> f[n], size |-> n]]

(* What a copy of list s to list d, to the addresses f, makes of P, lst and  *)
(* node: Q, ls and nd.                                                       *)
CopyMakes(P, d, s, w, n, kept, f, Q, nd, ls) ==
  /\ w = P[s] /\ n = Len(w) /\ kept = DL!Without(NodesIn(P[d]))
  /\ f \in Injection(1..n, Addresses \ DOMAIN kept)
  /\ Q = [P EXCEPT ![d] = f] /\ nd = CopiedOver(kept, w, f, n) /\ ls = CopyEnds(d, f, n)

CopiesValues(nd, f, w, n) == \A k \in 1..n : nd[f[k]].value = node[w[k]].value

LEMMA CopyKeeps ==
  ASSUME NEW P, Doubly(P, lst, node), NEW d \in Lists, NEW s \in Lists, d # s,
         NEW w, NEW n, NEW kept, NEW f, NEW Q, NEW nd, NEW ls,
         CopyMakes(P, d, s, w, n, kept, f, Q, nd, ls)
  PROVE  Doubly(Q, ls, nd) /\ CopiesValues(nd, f, w, n)
<1> w = P[s] /\ n = Len(w) /\ kept = DL!Without(NodesIn(P[d]))
  BY DEF CopyMakes
<1> f \in Injection(1..n, Addresses \ DOMAIN kept)
  BY DEF CopyMakes
<1> Q = [P EXCEPT ![d] = f] /\ nd = CopiedOver(kept, w, f, n) /\ ls = CopyEnds(d, f, n)
  BY DEF CopyMakes
<1>1. Heap(P, DOMAIN node) /\ Ends(P, lst) /\ Linked(P, node)
  BY DEF Doubly
<1>2. Q = [m \in Lists |-> Q[m]] /\ Q[d] = f /\ \A m \in Lists : m # d => Q[m] = P[m]
  BY <1>1 DEF Heap
<1>3. /\ DOMAIN kept = DOMAIN node \ NodesIn(P[d])
      /\ \A b \in DOMAIN kept : kept[b] = node[b]
  <2>1. LessOf(kept, node, NodesIn(P[d]))
    BY WithoutIs, Zenon
  <2> QED
    BY <2>1 DEF LessOf
<1>4. n \in Nat /\ \A k \in 1..n : w[k] \in DOMAIN node
  BY <1>1, InHeap
<1>5. /\ f = [i \in 1..n |-> f[i]] /\ \A i \in 1..n : f[i] \in Addresses \ DOMAIN kept
      /\ \A i, j \in 1..n : f[i] = f[j] => i = j
  BY DEF Injection, IsInjective
<1>6. f \in Seq(Addresses) /\ Len(f) = n
  BY <1>4, <1>5, FunctionIsSeq, ZenonT(40)
<1>7. /\ nd = [b \in DOMAIN nd |-> nd[b]] /\ DOMAIN nd = DOMAIN kept \cup {f[k] : k \in 1..n}
      /\ \A b \in DOMAIN kept : nd[b] = node[b]
  BY <1>3 DEF CopiedOver
<1>8. ASSUME NEW k \in 1..n
      PROVE  nd[f[k]] = [value |-> node[w[k]].value, prev |-> PrevIn(f, k), next |-> NextIn(f, k)]
  <2>1. f[k] \in DOMAIN nd /\ f[k] \notin DOMAIN kept
    BY <1>5, <1>7
  <2>2. DL!AntiFunction(f)[f[k]] = k
    BY <1>4, AntiFunctionIs
  <2>3. nd[f[k]] = [value |-> node[w[k]].value,
                    prev |-> IF k = 1 THEN Null ELSE f[k - 1],
                    next |-> IF k = n THEN Null ELSE f[k + 1]]
    BY <2>1, <2>2 DEF CopiedOver
  <2> QED
    BY <1>6, <2>3 DEF PrevIn, NextIn
<1>9. Heap(Q, DOMAIN nd)
  <2>1. f \in Injection(1..n, Addresses \ (DOMAIN node \ NodesIn(P[d])))
    BY <1>3
  <2>2. DOMAIN nd = (DOMAIN node \ NodesIn(P[d])) \cup NodesIn(f)
    BY <1>3, <1>6, <1>7 DEF NodesIn
  <2>3. Heap(P, DOMAIN node) /\ n \in Nat
    BY <1>1, <1>4
  <2>4. PICK D, E : D = DOMAIN node /\ E = DOMAIN nd
    OBVIOUS
  <2>5. /\ f \in Injection(1..n, Addresses \ (D \ NodesIn(P[d])))
        /\ E = (D \ NodesIn(P[d])) \cup NodesIn(f) /\ Heap(P, D)
    BY <2>1, <2>2, <2>3, <2>4
  <2>6. Heap(Q, E)
    BY <2>3, <2>5, HeapCopied, Zenon
  <2> QED
    BY <2>4, <2>6
<1>10. Ends(Q, ls)
  <2>1. /\ ls = [m \in Lists |-> ls[m]] /\ \A m \in Lists : m # d => ls[m] = lst[m]
        /\ ls[d] = IF n = 0 THEN DL!NoNodes ELSE [head |-> f[1], tail |-> f[n], size |-> n]
    BY <1>1 DEF CopyEnds, Ends
  <2>2. ls[d] = [head |-> FirstOf(f), tail |-> LastOf(f), size |-> Len(f)]
    <3>1. CASE n = 0
      <4>1. f = <<>>
        BY <1>6, <3>1
      <4> QED
        BY <2>1, <3>1, <4>1, NothingIn DEF DL!NoNodes
    <3>2. CASE n # 0
      <4>1. f # <<>>
        BY <1>6, <3>2
      <4> QED
        BY <1>6, <2>1, <3>2, <4>1 DEF FirstOf, LastOf
    <3> QED
      BY <3>1, <3>2
  <2>3. ASSUME NEW m \in Lists
        PROVE  ls[m] = [head |-> FirstOf(Q[m]), tail |-> LastOf(Q[m]), size |-> Len(Q[m])]
    <3>1. CASE m = d
      BY <1>2, <2>2, <3>1
    <3>2. CASE m # d
      BY <1>1, <1>2, <2>1, <3>2 DEF Ends
    <3> QED
      BY <3>1, <3>2
  <2>4. ls = [m \in Lists |-> ls[m]]
    BY <2>1
  <2> QED
    BY <2>3, <2>4 DEF Ends
<1>11. ASSUME NEW m \in Lists, NEW j \in 1..Len(Q[m])
       PROVE  nd[Q[m][j]] = [value |-> nd[Q[m][j]].value,
                             prev |-> PrevIn(Q[m], j), next |-> NextIn(Q[m], j)]
  <2>1. CASE m = d
    <3>1. j \in 1..n /\ Q[m] = f
      BY <1>2, <1>6, <1>11, <2>1
    <3>2. nd[f[j]] = [value |-> node[w[j]].value, prev |-> PrevIn(f, j), next |-> NextIn(f, j)]
      BY <1>8, <3>1
    <3> QED
      BY <3>1, <3>2
  <2>2. CASE m # d
    <3>1. j \in 1..Len(P[m]) /\ Q[m] = P[m]
      BY <1>2, <1>11, <2>2
    <3>2. P[m][j] \in DOMAIN kept
      BY <1>1, <1>3, <2>2, <3>1, InHeap DEF NodesIn
    <3>3. node[P[m][j]] = [value |-> node[P[m][j]].value,
                           prev |-> PrevIn(P[m], j), next |-> NextIn(P[m], j)]
      BY <1>1, <3>1 DEF Linked
    <3> QED
      BY <1>7, <3>1, <3>2, <3>3
  <2> QED
    BY <2>1, <2>2
<1>12. ASSUME NEW k \in 1..n PROVE nd[f[k]].value = node[w[k]].value
  <2>1. nd[f[k]] = [value |-> node[w[k]].value, prev |-> PrevIn(f, k), next |-> NextIn(f, k)]
    BY <1>8
  <2> QED
    BY <2>1
<1>13. ASSUME NEW b \in DOMAIN nd PROVE nd[b].value \in ListValues
  <2>1. CASE b \in DOMAIN kept
    BY <1>1, <1>3, <1>7, <2>1 DEF Linked
  <2>2. CASE b \notin DOMAIN kept
    <3>1. PICK k \in 1..n : b = f[k]
      BY <1>7, <2>2
    <3> QED
      BY <1>1, <1>4, <1>12, <3>1 DEF Linked
  <2> QED
    BY <2>1, <2>2
<1> QED
  BY <1>7, <1>9, <1>10, <1>11, <1>12, <1>13 DEF CopiesValues, Doubly, Linked
-----------------------------------------------------------------------------
(* list: its walks visit the chains, whatever the calls.                     *)
LEMMA DoublyWalked ==
  ASSUME NEW P, NEW ls, NEW nd, Doubly(P, ls, nd), NEW l \in Lists
  PROVE  WalkOf(ls[l].head, nd) = P[l]
<1>1. Heap(P, DOMAIN nd) /\ Ends(P, ls) /\ Linked(P, nd)
  BY DEF Doubly
<1>2. PICK p : p = P[l]
  OBVIOUS
<1>3. p \in Seq(DOMAIN nd) /\ Null \notin DOMAIN nd
  BY <1>1, <1>2, InHeap, NullApart
<1>4. ls[l].head = FirstOf(p)
  BY <1>1, <1>2 DEF Ends
<1>5. ASSUME NEW k \in 1..Len(p) PROVE nd[p[k]].next = IF k = Len(p) THEN Null ELSE p[k + 1]
  <2>1. nd[p[k]] = [value |-> nd[p[k]].value, prev |-> PrevIn(p, k), next |-> NextIn(p, k)]
    BY <1>1, <1>2 DEF Linked
  <2> QED
    BY <2>1 DEF NextIn
<1>6. Chain(p, ls[l].head, nd)
  BY <1>3, <1>4, <1>5 DEF Chain, FirstOf
<1>7. IsFiniteSet(DOMAIN nd) /\ Len(p) <= Cardinality(DOMAIN nd)
  BY <1>1, <1>2, ListFits DEF Heap
<1> QED
  BY <1>2, <1>6, <1>7, WalkOfChain

LEMMA DoublyReached ==
  ASSUME NEW P, Doubly(P, lst, node), NEW l \in Lists
  PROVE  DL!Walk(l) = P[l] /\ DL!Reached(l) = NodesIn(P[l])
<1>1. DL!Walk(l) = P[l]
  BY DoublyWalks, DoublyWalked
<1>2. P[l] \in Seq(DOMAIN node)
  BY InHeap DEF Doubly
<1>3. DOMAIN P[l] = 1..Len(P[l])
  BY <1>2
<1> QED
  BY <1>1, <1>3 DEF DL!Reached, DL!ToSet, NodesIn

DoublyInv == \E P : Doubly(P, lst, node)

LEMMA DoublyInit == ASSUME DL!Init PROVE Doubly([l \in Lists |-> <<>>], lst, node)
<1>1. PICK P : P = [l \in Lists |-> <<>>]
  OBVIOUS
<1>2. \A l \in Lists : P[l] = <<>>
  BY <1>1
<1>3. node = [a \in {} |-> Null] /\ DOMAIN node = {}
  BY DEF DL!Init
<1>4. Heap(P, DOMAIN node)
  BY <1>1, <1>3, HeapNew
<1>5. Ends(P, lst)
  BY <1>2, NothingIn DEF DL!Init, DL!NoNodes, Ends
<1>6. Linked(P, node)
  BY <1>2, <1>3, NothingIn DEF Linked
<1> QED
  BY <1>1, <1>4, <1>5, <1>6 DEF Doubly

(* What a call does to the sequences P and to the values of the nodes.       *)
Inserts(P, nd, Q, ne, l, k, v) ==
  \E a \in Addresses \ DOMAIN nd :
    /\ Q = [P EXCEPT ![l] = InsertedAt(P[l], k, a)]
    /\ ne[a].value = v /\ \A b \in DOMAIN nd : ne[b].value = nd[b].value
Removes(P, nd, Q, ne, l, k) ==
  /\ Q = [P EXCEPT ![l] = RemovedAt(P[l], k)]
  /\ \A b \in DOMAIN nd \ {P[l][k]} : ne[b].value = nd[b].value
Empties(P, nd, Q, ne, l) ==
  /\ Q = [P EXCEPT ![l] = <<>>]
  /\ \A b \in DOMAIN nd \ NodesIn(P[l]) : ne[b].value = nd[b].value
Hands(P, nd, Q, ne, d, s) ==
  /\ Q = [P EXCEPT ![d] = P[s], ![s] = <<>>]
  /\ \A b \in DOMAIN nd \ NodesIn(P[d]) : ne[b].value = nd[b].value
Copies(P, nd, Q, ne, d, s) ==
  \E f \in Injection(1..Len(P[s]), Addresses \ (DOMAIN nd \ NodesIn(P[d]))) :
    /\ Q = [P EXCEPT ![d] = f]
    /\ \A k \in 1..Len(P[s]) : ne[f[k]].value = nd[P[s][k]].value
    /\ \A b \in DOMAIN nd \ NodesIn(P[d]) : ne[b].value = nd[b].value

LEMMA PutStep ==
  ASSUME NEW P, Doubly(P, lst, node), NEW l \in Lists, NEW k \in 1..(Len(P[l]) + 1),
         NEW p, p = PrevIn(P[l], k), NEW n, n = AtOrEnd(P[l], k),
         NEW v \in ListValues, DL!Put(l, p, n, v)
  PROVE  \E Q : Doubly(Q, lst', node') /\ Inserts(P, node, Q, node', l, k, v)
<1>1. PICK a \in Addresses \ DOMAIN node :
        node' = DL!Joined(a, p, n, v) /\ lst' = PutEnds(l, a, p, n)
  BY DEF DL!Put, PutEnds
<1>2. PICK Q : Q = [P EXCEPT ![l] = InsertedAt(P[l], k, a)]
  OBVIOUS
<1>3. PICK nd, ls : nd = node' /\ ls = lst'
  OBVIOUS
<1>4. nd = DL!Joined(a, p, n, v) /\ ls = PutEnds(l, a, p, n)
  BY <1>1, <1>3
<1>5. Doubly(Q, ls, nd)
  BY <1>2, <1>4, PutKeeps, Zenon
<1>6. a \notin DOMAIN node
  OBVIOUS
<1>7. JoinedAs(nd, a, p, n, v)
  BY <1>4, <1>6, JoinedIs, Zenon
<1>8. nd[a].value = v /\ \A b \in DOMAIN node : nd[b].value = node[b].value
  BY <1>7 DEF JoinedAs
<1> QED
  BY <1>2, <1>3, <1>5, <1>8 DEF Inserts

LEMMA EraseStep ==
  ASSUME NEW P, Doubly(P, lst, node), NEW l \in Lists, NEW k \in 1..Len(P[l]),
         DL!Erase(l, P[l][k])
  PROVE  \E Q : Doubly(Q, lst', node') /\ Removes(P, node, Q, node', l, k)
<1>1. PICK a : a = P[l][k]
  OBVIOUS
<1>2. /\ node' = DL!Unlinked(a)
      /\ lst' = [lst EXCEPT ![l] =
                   [head |-> IF node[a].prev = Null THEN node[a].next ELSE @.head,
                    tail |-> IF node[a].next = Null THEN node[a].prev ELSE @.tail,
                    size |-> @.size - 1]]
  BY <1>1 DEF DL!Erase
<1>3. PICK Q : Q = [P EXCEPT ![l] = RemovedAt(P[l], k)]
  OBVIOUS
<1>4. PICK nd, ls : nd = node' /\ ls = lst'
  OBVIOUS
<1>5. /\ nd = DL!Unlinked(a)
      /\ ls = [lst EXCEPT ![l] =
                 [head |-> IF node[a].prev = Null THEN node[a].next ELSE @.head,
                  tail |-> IF node[a].next = Null THEN node[a].prev ELSE @.tail,
                  size |-> @.size - 1]]
  BY <1>2, <1>4
<1>6. Doubly(Q, ls, nd)
  BY <1>1, <1>3, <1>5, EraseKeeps, Zenon
<1>7. UnlinkedAs(nd, a)
  BY <1>5, UnlinkedIs, Zenon
<1>8. \A b \in DOMAIN node \ {a} : nd[b].value = node[b].value
  BY <1>7 DEF UnlinkedAs
<1> QED
  BY <1>1, <1>3, <1>4, <1>6, <1>8 DEF Removes

LEMMA WithoutKeeps ==
  ASSUME NEW gone, NEW nd, nd = DL!Without(gone)
  PROVE  \A b \in DOMAIN node \ gone : nd[b].value = node[b].value
BY DEF DL!Without

LEMMA ClearStep ==
  ASSUME NEW P, Doubly(P, lst, node), NEW l \in Lists, DL!Clear(l)
  PROVE  \E Q : Doubly(Q, lst', node') /\ Empties(P, node, Q, node', l)
<1>1. node' = DL!Without(NodesIn(P[l])) /\ lst' = [lst EXCEPT ![l] = DL!NoNodes]
  BY DoublyReached DEF DL!Clear
<1>2. PICK Q : Q = [P EXCEPT ![l] = <<>>]
  OBVIOUS
<1>3. PICK nd, ls : nd = node' /\ ls = lst'
  OBVIOUS
<1>4. nd = DL!Without(NodesIn(P[l]))
  BY <1>1, <1>3
<1>5. Doubly(Q, ls, nd)
  BY <1>1, <1>2, <1>3, ClearKeeps
<1>6. \A b \in DOMAIN node \ NodesIn(P[l]) : nd[b].value = node[b].value
  BY <1>4, WithoutKeeps, Zenon
<1> QED
  BY <1>2, <1>3, <1>5, <1>6 DEF Empties

LEMMA MoveStep ==
  ASSUME NEW P, Doubly(P, lst, node), NEW d \in Lists, NEW s \in Lists, DL!MoveAssign(d, s)
  PROVE  d # s /\ \E Q : Doubly(Q, lst', node') /\ Hands(P, node, Q, node', d, s)
<1>1. /\ d # s /\ node' = DL!Without(NodesIn(P[d]))
      /\ lst' = [lst EXCEPT ![d] = lst[s], ![s] = DL!NoNodes]
  BY DoublyReached DEF DL!MoveAssign
<1>2. PICK Q : Q = [P EXCEPT ![d] = P[s], ![s] = <<>>]
  OBVIOUS
<1>3. PICK nd, ls : nd = node' /\ ls = lst'
  OBVIOUS
<1>4. nd = DL!Without(NodesIn(P[d]))
  BY <1>1, <1>3
<1>5. Doubly(Q, ls, nd)
  BY <1>1, <1>2, <1>3, MoveKeeps
<1>6. \A b \in DOMAIN node \ NodesIn(P[d]) : nd[b].value = node[b].value
  BY <1>4, WithoutKeeps, Zenon
<1> QED
  BY <1>1, <1>2, <1>3, <1>5, <1>6 DEF Hands

(* Copy assignment with its walks replaced by what they visit.               *)
CopiesInto(d, w, kept, n) ==
  \E f \in DL!Injection(1..n, Addresses \ DOMAIN kept) :
    node' = CopiedOver(kept, w, f, n) /\ lst' = CopyEnds(d, f, n)

LEMMA CopyIs ==
  ASSUME NEW d \in Lists, NEW s \in Lists, DL!CopyAssign(d, s)
  PROVE  /\ d # s
         /\ CopiesInto(d, DL!Walk(s), DL!Without(DL!Reached(d)), Len(DL!Walk(s)))
BY DEF DL!CopyAssign, CopiesInto, CopiedOver, CopyEnds

LEMMA CopyStep ==
  ASSUME NEW P, Doubly(P, lst, node), NEW d \in Lists, NEW s \in Lists, DL!CopyAssign(d, s)
  PROVE  d # s /\ \E Q : Doubly(Q, lst', node') /\ Copies(P, node, Q, node', d, s)
<1>1. PICK w, n, kept : w = P[s] /\ n = Len(w) /\ kept = DL!Without(NodesIn(P[d]))
  OBVIOUS
<1>2. DL!Walk(s) = w /\ DL!Reached(d) = NodesIn(P[d])
  BY <1>1, DoublyReached
<1>3. d # s /\ CopiesInto(d, w, kept, n)
  BY <1>1, <1>2, CopyIs
<1>4. PICK f \in Injection(1..n, Addresses \ DOMAIN kept) :
        node' = CopiedOver(kept, w, f, n) /\ lst' = CopyEnds(d, f, n)
  <2>1. DL!Injection(1..n, Addresses \ DOMAIN kept) = Injection(1..n, Addresses \ DOMAIN kept)
    BY InjectionsSame
  <2> QED
    BY <1>3, <2>1 DEF CopiesInto
<1>5. PICK Q : Q = [P EXCEPT ![d] = f]
  OBVIOUS
<1>6. PICK nd, ls : nd = node' /\ ls = lst'
  OBVIOUS
<1>7. nd = CopiedOver(kept, w, f, n) /\ ls = CopyEnds(d, f, n)
  BY <1>4, <1>6
<1>8. Doubly(Q, ls, nd) /\ \A k \in 1..n : nd[f[k]].value = node[w[k]].value
  <2>1. CopyMakes(P, d, s, w, n, kept, f, Q, nd, ls)
    BY <1>1, <1>5, <1>7 DEF CopyMakes
  <2>2. Doubly(Q, ls, nd) /\ CopiesValues(nd, f, w, n)
    BY <1>3, <2>1, CopyKeeps, Zenon
  <2> QED
    BY <2>2 DEF CopiesValues
<1>9. /\ DOMAIN kept = DOMAIN node \ NodesIn(P[d])
      /\ \A b \in DOMAIN kept : kept[b] = node[b]
  <2>1. LessOf(kept, node, NodesIn(P[d]))
    BY <1>1, WithoutIs, Zenon
  <2> QED
    BY <2>1 DEF LessOf
<1>10. \A b \in DOMAIN kept : nd[b] = kept[b]
  BY <1>7 DEF CopiedOver
<1>11. Copies(P, node, Q, nd, d, s)
  <2>1. f \in Injection(1..Len(P[s]), Addresses \ (DOMAIN node \ NodesIn(P[d])))
    BY <1>1, <1>9
  <2>2. \A k \in 1..Len(P[s]) : nd[f[k]].value = node[P[s][k]].value
    BY <1>1, <1>8
  <2>3. \A b \in DOMAIN node \ NodesIn(P[d]) : nd[b].value = node[b].value
    BY <1>9, <1>10
  <2> QED
    BY <1>5, <2>1, <2>2, <2>3 DEF Copies
<1> QED
  BY <1>3, <1>6, <1>8, <1>11
-----------------------------------------------------------------------------
(* Where the calls of list put and erase.                                    *)
LEMMA DoublyAround ==
  ASSUME NEW P, Doubly(P, lst, node), NEW l \in Lists, NEW k \in 1..Len(P[l])
  PROVE  /\ P[l][k] \in DOMAIN node /\ P[l][k] # Null
         /\ node[P[l][k]].prev = PrevIn(P[l], k) /\ node[P[l][k]].next = NextIn(P[l], k)
<1>1. node[P[l][k]] = [value |-> node[P[l][k]].value,
                       prev |-> PrevIn(P[l], k), next |-> NextIn(P[l], k)]
  BY DEF Doubly, Linked
<1>2. PICK r, p, n : r = node[P[l][k]] /\ p = PrevIn(P[l], k) /\ n = NextIn(P[l], k)
  OBVIOUS
<1>3. r.prev = p /\ r.next = n
  BY <1>1, <1>2
<1>4. P[l][k] \in DOMAIN node /\ P[l][k] # Null
  BY InHeap DEF Doubly
<1> QED
  BY <1>2, <1>3, <1>4

LEMMA DoublyEnds ==
  ASSUME NEW P, Doubly(P, lst, node), NEW l \in Lists
  PROVE  /\ P[l] \in Seq(DOMAIN node) /\ Len(P[l]) \in Nat
         /\ lst[l] = [head |-> FirstOf(P[l]), tail |-> LastOf(P[l]), size |-> Len(P[l])]
         /\ lst[l].head = FirstOf(P[l]) /\ lst[l].tail = LastOf(P[l])
         /\ lst[l].size = Len(P[l])
<1>1. lst[l] = [head |-> FirstOf(P[l]), tail |-> LastOf(P[l]), size |-> Len(P[l])]
  BY DEF Doubly, Ends
<1>2. P[l] \in Seq(DOMAIN node)
  BY InHeap DEF Doubly
<1> QED
  BY <1>1, <1>2

(* The places next to place k of a sequence w, as the calls name them.       *)
LEMMA EndPlaces ==
  ASSUME NEW D, NEW w \in Seq(D)
  PROVE  /\ PrevIn(w, Len(w) + 1) = LastOf(w) /\ AtOrEnd(w, Len(w) + 1) = Null
         /\ PrevIn(w, 1) = Null /\ AtOrEnd(w, 1) = FirstOf(w)
         /\ \A k \in 2..(Len(w) + 1) : /\ PrevIn(w, k) = w[k - 1]
                                       /\ AtOrEnd(w, k) = NextIn(w, k - 1)
         /\ \A k \in 1..Len(w) : AtOrEnd(w, k) = w[k]
<1>1. CASE w = <<>>
  BY <1>1 DEF PrevIn, NextIn, FirstOf, LastOf, AtOrEnd
<1>2. CASE w # <<>>
  <2>1. Len(w) \in Nat /\ Len(w) >= 1
    BY <1>2
  <2> QED
    BY <1>2, <2>1 DEF PrevIn, NextIn, FirstOf, LastOf, AtOrEnd
<1> QED
  BY <1>1, <1>2

(* A call that puts: an element goes in at some place k, and only there.     *)
PutAt(P, Q, l, k, v) == Doubly(Q, lst', node') /\ Inserts(P, node, Q, node', l, k, v)

LEMMA BackStep ==
  ASSUME NEW P, Doubly(P, lst, node), NEW l \in Lists, NEW v \in ListValues,
         DL!EmplaceBack(l, v)
  PROVE  \E Q : PutAt(P, Q, l, Len(P[l]) + 1, v)
<1>1. PICK k : k = Len(P[l]) + 1
  OBVIOUS
<1>2. k \in 1..(Len(P[l]) + 1) /\ lst[l].tail = PrevIn(P[l], k) /\ Null = AtOrEnd(P[l], k)
  <2>1. P[l] \in Seq(DOMAIN node) /\ Len(P[l]) \in Nat /\ lst[l].tail = LastOf(P[l])
    BY DoublyEnds
  <2>2. PrevIn(P[l], Len(P[l]) + 1) = LastOf(P[l]) /\ AtOrEnd(P[l], Len(P[l]) + 1) = Null
    BY <2>1, EndPlaces
  <2> QED
    BY <1>1, <2>1, <2>2
<1>3. DL!Put(l, lst[l].tail, Null, v)
  BY DEF DL!EmplaceBack
<1>4. PICK p, n : p = lst[l].tail /\ n = Null
  OBVIOUS
<1>5. DL!Put(l, p, n, v) /\ p = PrevIn(P[l], k) /\ n = AtOrEnd(P[l], k)
  BY <1>2, <1>3, <1>4
<1>6. \E Q : Doubly(Q, lst', node') /\ Inserts(P, node, Q, node', l, k, v)
  BY <1>2, <1>5, PutStep, Zenon
<1> QED
  BY <1>1, <1>6 DEF PutAt

LEMMA FrontStep ==
  ASSUME NEW P, Doubly(P, lst, node), NEW l \in Lists, NEW v \in ListValues,
         DL!EmplaceFront(l, v)
  PROVE  \E Q : PutAt(P, Q, l, 1, v)
<1>1. PICK k : k = 1
  OBVIOUS
<1>2. k \in 1..(Len(P[l]) + 1) /\ Null = PrevIn(P[l], k) /\ lst[l].head = AtOrEnd(P[l], k)
  <2>1. P[l] \in Seq(DOMAIN node) /\ Len(P[l]) \in Nat /\ lst[l].head = FirstOf(P[l])
    BY DoublyEnds
  <2>2. PrevIn(P[l], 1) = Null /\ AtOrEnd(P[l], 1) = FirstOf(P[l])
    BY <2>1, EndPlaces
  <2> QED
    BY <1>1, <2>1, <2>2
<1>3. DL!Put(l, Null, lst[l].head, v)
  BY DEF DL!EmplaceFront
<1>4. PICK p, n : p = Null /\ n = lst[l].head
  OBVIOUS
<1>5. DL!Put(l, p, n, v) /\ p = PrevIn(P[l], k) /\ n = AtOrEnd(P[l], k)
  BY <1>2, <1>3, <1>4
<1>6. \E Q : Doubly(Q, lst', node') /\ Inserts(P, node, Q, node', l, k, v)
  BY <1>2, <1>5, PutStep, Zenon
<1> QED
  BY <1>1, <1>6 DEF PutAt

(* insert before pos, the place of P[l] which pos is at, or the end.         *)
LEMMA InsertStep ==
  ASSUME NEW P, Doubly(P, lst, node), NEW l \in Lists, NEW v \in ListValues,
         NEW k \in 1..(Len(P[l]) + 1), DL!Insert(l, AtOrEnd(P[l], k), v)
  PROVE  \E Q : PutAt(P, Q, l, k, v)
<1>1. PICK w : w = P[l]
  OBVIOUS
<1>2. PICK pos : pos = AtOrEnd(w, k)
  OBVIOUS
<1>3. PICK p : p = DL!Before(l, pos)
  OBVIOUS
<1>4. PICK n : n = IF p # Null THEN node[p].next ELSE lst[l].head
  OBVIOUS
<1>5. DL!Put(l, p, n, v)
  BY <1>1, <1>2, <1>3, <1>4 DEF DL!Insert
<1>6. /\ w \in Seq(DOMAIN node) /\ Len(w) \in Nat /\ k \in 1..(Len(w) + 1)
      /\ lst[l].head = FirstOf(w) /\ lst[l].tail = LastOf(w)
  BY <1>1, DoublyEnds
<1>7. \A j \in 1..Len(w) : /\ w[j] # Null /\ node[w[j]].prev = PrevIn(w, j)
                           /\ node[w[j]].next = NextIn(w, j)
  BY <1>1, DoublyAround
<1>8. p = PrevIn(w, k)
  <2>1. CASE k = Len(w) + 1
    <3>1. pos = Null
      BY <1>2, <2>1 DEF AtOrEnd
    <3>2. p = lst[l].tail
      BY <1>3, <3>1 DEF DL!Before
    <3> QED
      BY <1>6, <2>1, <3>2, EndPlaces
  <2>2. CASE k # Len(w) + 1
    <3>1. k \in 1..Len(w)
      BY <1>6, <2>2
    <3>2. pos = w[k] /\ pos # Null
      BY <1>2, <1>7, <2>2, <3>1 DEF AtOrEnd
    <3>3. p = node[w[k]].prev
      BY <1>3, <3>2 DEF DL!Before
    <3> QED
      BY <1>7, <3>1, <3>3
  <2> QED
    BY <2>1, <2>2
<1>9. n = AtOrEnd(w, k)
  <2>1. CASE k = 1
    <3>1. p = Null
      BY <1>8, <2>1 DEF PrevIn
    <3>2. n = FirstOf(w)
      BY <1>4, <1>6, <3>1
    <3> QED
      BY <1>6, <2>1, <3>2, EndPlaces
  <2>2. CASE k # 1
    <3>1. k \in 2..(Len(w) + 1) /\ k - 1 \in 1..Len(w)
      BY <1>6, <2>2
    <3>2. PrevIn(w, k) = w[k - 1] /\ AtOrEnd(w, k) = NextIn(w, k - 1)
      BY <1>6, <3>1, EndPlaces
    <3>3. p = w[k - 1] /\ p # Null
      BY <1>7, <1>8, <3>1, <3>2
    <3>4. n = node[p].next
      BY <1>4, <3>3
    <3> QED
      BY <1>7, <3>1, <3>2, <3>3, <3>4
  <2> QED
    BY <2>1, <2>2
<1>10. p = PrevIn(P[l], k) /\ n = AtOrEnd(P[l], k)
  BY <1>1, <1>8, <1>9
<1>11. \E Q : Doubly(Q, lst', node') /\ Inserts(P, node, Q, node', l, k, v)
  BY <1>5, <1>10, PutStep, Zenon
<1> QED
  BY <1>11 DEF PutAt

LEMMA PopBackStep ==
  ASSUME NEW P, Doubly(P, lst, node), NEW l \in Lists, DL!PopBack(l)
  PROVE  /\ Len(P[l]) \in 1..Len(P[l])
         /\ \E Q : Doubly(Q, lst', node') /\ Removes(P, node, Q, node', l, Len(P[l]))
<1>1. DL!Erase(l, lst[l].tail) /\ lst[l].tail \in DOMAIN node
  BY DEF DL!PopBack, DL!Erase
<1>2. Null \notin DOMAIN node
  BY NullApart DEF Doubly
<1>3. P[l] \in Seq(DOMAIN node) /\ lst[l].tail = LastOf(P[l])
  BY DoublyEnds
<1>4. PICK w : w = P[l]
  OBVIOUS
<1>5. w # <<>> /\ lst[l].tail = w[Len(w)]
  BY <1>1, <1>2, <1>3, <1>4 DEF LastOf
<1>6. Len(w) \in 1..Len(w)
  BY <1>3, <1>4, <1>5
<1>7. PICK k : k = Len(P[l])
  OBVIOUS
<1>8. k \in 1..Len(P[l]) /\ DL!Erase(l, P[l][k])
  BY <1>1, <1>4, <1>5, <1>6, <1>7
<1> QED
  BY <1>7, <1>8, EraseStep

LEMMA PopFrontStep ==
  ASSUME NEW P, Doubly(P, lst, node), NEW l \in Lists, DL!PopFront(l)
  PROVE  /\ 1 \in 1..Len(P[l])
         /\ \E Q : Doubly(Q, lst', node') /\ Removes(P, node, Q, node', l, 1)
<1>1. DL!Erase(l, lst[l].head) /\ lst[l].head \in DOMAIN node
  BY DEF DL!PopFront, DL!Erase
<1>2. Null \notin DOMAIN node
  BY NullApart DEF Doubly
<1>3. P[l] \in Seq(DOMAIN node) /\ lst[l].head = FirstOf(P[l])
  BY DoublyEnds
<1>4. PICK w : w = P[l]
  OBVIOUS
<1>5. w # <<>> /\ lst[l].head = w[1]
  BY <1>1, <1>2, <1>3, <1>4 DEF FirstOf
<1>6. 1 \in 1..Len(w)
  BY <1>3, <1>4, <1>5
<1>7. PICK k : k = 1
  OBVIOUS
<1>8. k \in 1..Len(P[l]) /\ DL!Erase(l, P[l][k])
  BY <1>1, <1>4, <1>5, <1>6, <1>7
<1> QED
  BY <1>7, <1>8, EraseStep

(* What a step of list may do to the sequences: one of these.                *)
Turns(P, nd, Q, ne) ==
  \E l \in Lists :
    \/ \E k \in 1..(Len(P[l]) + 1), v \in ListValues : Inserts(P, nd, Q, ne, l, k, v)
    \/ \E k \in 1..Len(P[l]) : Removes(P, nd, Q, ne, l, k)
    \/ Empties(P, nd, Q, ne, l)
    \/ \E s \in Lists \ {l} : Hands(P, nd, Q, ne, l, s) \/ Copies(P, nd, Q, ne, l, s)

LEMMA DoublyPlace ==
  ASSUME NEW P, Doubly(P, lst, node), NEW l \in Lists
  PROVE  /\ \A pos \in DL!Reached(l) : \E k \in 1..Len(P[l]) : pos = P[l][k] /\ pos = AtOrEnd(P[l], k)
         /\ Null = AtOrEnd(P[l], Len(P[l]) + 1)
<1>1. DL!Reached(l) = NodesIn(P[l]) /\ P[l] \in Seq(DOMAIN node)
  BY DoublyReached, DoublyEnds
<1> QED
  BY <1>1, EndPlaces DEF NodesIn

LEMMA DoublyNext ==
  ASSUME NEW P, Doubly(P, lst, node), DL!Next
  PROVE  \E Q : Doubly(Q, lst', node') /\ Turns(P, node, Q, node')
<1>1. PICK l \in Lists :
        \/ \E v \in ListValues : \/ DL!EmplaceBack(l, v) \/ DL!EmplaceFront(l, v)
                                 \/ \E pos \in DL!Reached(l) \cup {Null} : DL!Insert(l, pos, v)
        \/ DL!PopBack(l) \/ DL!PopFront(l)
        \/ \E pos \in DL!Reached(l) : DL!Erase(l, pos)
        \/ DL!Clear(l)
        \/ \E s \in Lists : DL!MoveAssign(l, s) \/ DL!CopyAssign(l, s)
  BY DEF DL!Next
<1>2. Len(P[l]) \in Nat
  BY DoublyEnds
<1>3. ASSUME NEW v \in ListValues, NEW k \in 1..(Len(P[l]) + 1), \E Q : PutAt(P, Q, l, k, v)
      PROVE  \E Q : Doubly(Q, lst', node') /\ Turns(P, node, Q, node')
  BY <1>3 DEF PutAt, Turns
<1>4. ASSUME NEW k \in 1..Len(P[l]),
             \E Q : Doubly(Q, lst', node') /\ Removes(P, node, Q, node', l, k)
      PROVE  \E Q : Doubly(Q, lst', node') /\ Turns(P, node, Q, node')
  BY <1>4 DEF Turns
<1>5. CASE \E v \in ListValues : DL!EmplaceBack(l, v)
  <2>1. Len(P[l]) + 1 \in 1..(Len(P[l]) + 1)
    BY <1>2
  <2> QED
    BY <1>3, <1>5, <2>1, BackStep
<1>6. CASE \E v \in ListValues : DL!EmplaceFront(l, v)
  <2>1. 1 \in 1..(Len(P[l]) + 1)
    BY <1>2
  <2> QED
    BY <1>3, <1>6, <2>1, FrontStep
<1>7. CASE \E v \in ListValues : \E pos \in DL!Reached(l) \cup {Null} : DL!Insert(l, pos, v)
  <2>1. PICK v \in ListValues : \E pos \in DL!Reached(l) \cup {Null} : DL!Insert(l, pos, v)
    BY <1>7
  <2>2. PICK pos \in DL!Reached(l) \cup {Null} : DL!Insert(l, pos, v)
    BY <2>1
  <2>3. PICK k \in 1..(Len(P[l]) + 1) : pos = AtOrEnd(P[l], k)
    BY <1>2, DoublyPlace
  <2>4. DL!Insert(l, AtOrEnd(P[l], k), v)
    BY <2>2, <2>3
  <2> QED
    BY <1>3, <2>4, InsertStep
<1>8. CASE DL!PopBack(l)
  BY <1>4, <1>8, PopBackStep
<1>9. CASE DL!PopFront(l)
  BY <1>4, <1>9, PopFrontStep
<1>10. CASE \E pos \in DL!Reached(l) : DL!Erase(l, pos)
  <2>1. PICK pos \in DL!Reached(l) : DL!Erase(l, pos)
    BY <1>10
  <2>2. PICK k \in 1..Len(P[l]) : pos = P[l][k]
    BY DoublyPlace
  <2>3. DL!Erase(l, P[l][k])
    BY <2>1, <2>2
  <2> QED
    BY <1>4, <2>3, EraseStep
<1>11. CASE DL!Clear(l)
  BY <1>11, ClearStep DEF Turns
<1>12. CASE \E s \in Lists : DL!MoveAssign(l, s)
  <2>1. PICK s \in Lists : DL!MoveAssign(l, s)
    BY <1>12
  <2>2. s \in Lists \ {l} /\ \E Q : Doubly(Q, lst', node') /\ Hands(P, node, Q, node', l, s)
    BY <2>1, MoveStep
  <2> QED
    BY <2>2 DEF Turns
<1>13. CASE \E s \in Lists : DL!CopyAssign(l, s)
  <2>1. PICK s \in Lists : DL!CopyAssign(l, s)
    BY <1>13
  <2>2. s \in Lists \ {l} /\ \E Q : Doubly(Q, lst', node') /\ Copies(P, node, Q, node', l, s)
    BY <2>1, CopyStep
  <2> QED
    BY <2>2 DEF Turns
<1> QED
  BY <1>1, <1>5, <1>6, <1>7, <1>8, <1>9, <1>10, <1>11, <1>12, <1>13

LEMMA DoublyOwned ==
  ASSUME NEW P, Doubly(P, lst, node)
  PROVE  DL!NodesOwnedOnce
<1>1. \A l \in Lists : /\ DL!Reached(l) = NodesIn(P[l]) /\ Len(P[l]) \in Nat
                       /\ lst[l].size = Len(P[l]) /\ P[l] \in Seq(DOMAIN node)
  BY DoublyReached, DoublyEnds
<1>2. Heap(P, DOMAIN node)
  BY DEF Doubly
<1>3. \A a \in DOMAIN node : \E l \in Lists : a \in DL!Reached(l)
  BY <1>1, <1>2 DEF Heap, Covers, NodesIn
<1>4. \A l, m \in Lists : l # m => DL!Reached(l) \cap DL!Reached(m) = {}
  <2> SUFFICES ASSUME NEW l \in Lists, NEW m \in Lists, l # m, NEW i \in 1..Len(P[l]),
                      NEW j \in 1..Len(P[m]), P[l][i] = P[m][j]
               PROVE  FALSE
    BY <1>1 DEF NodesIn
  <2> QED
    BY <1>2, InHeap
<1>5. ASSUME NEW l \in Lists PROVE Cardinality(NodesIn(P[l])) = Len(P[l])
  <2>1. PICK w : w = P[l]
    OBVIOUS
  <2>2. w \in Seq(DOMAIN node) /\ \A i, j \in 1..Len(w) : w[i] = w[j] => i = j
    BY <1>1, <1>2, <2>1, InHeap
  <2>3. PICK n \in Nat : n = Len(w)
    BY <2>2
  <2>4. w \in Bijection(1..n, NodesIn(w))
    BY <2>2, <2>3 DEF NodesIn, Bijection, Injection, Surjection, IsInjective
  <2>5. Cardinality(NodesIn(w)) = n
    BY <2>3, <2>4, FS_CountingElements DEF ExistsBijection
  <2> QED
    BY <2>1, <2>3, <2>5
<1>6. \A l \in Lists : lst[l].size = DL!Cardinality(DL!Reached(l))
  BY <1>1, <1>5, CountsSame
<1> QED
  BY <1>3, <1>4, <1>6 DEF DL!NodesOwnedOnce

LEMMA DoublyMirrored ==
  ASSUME NEW P, Doubly(P, lst, node)
  PROVE  DL!LinksMirrored
<1> SUFFICES ASSUME NEW l \in Lists
             PROVE  /\ lst[l].head = Null <=> lst[l].tail = Null
                    /\ lst[l].head # Null =>
                         /\ lst[l].head \in DOMAIN node /\ node[lst[l].head].prev = Null
                         /\ lst[l].tail \in DL!Reached(l) /\ node[lst[l].tail].next = Null
                    /\ \A a \in DL!Reached(l) :
                         /\ node[a].next # Null =>
                              node[a].next \in DOMAIN node /\ node[node[a].next].prev = a
                         /\ node[a].prev # Null =>
                              node[a].prev \in DOMAIN node /\ node[node[a].prev].next = a
  BY DEF DL!LinksMirrored
<1>1. PICK w : w = P[l]
  OBVIOUS
<1>2. /\ w \in Seq(DOMAIN node) /\ lst[l].head = FirstOf(w) /\ lst[l].tail = LastOf(w)
      /\ DL!Reached(l) = NodesIn(w)
  BY <1>1, DoublyEnds, DoublyReached
<1>3. \A j \in 1..Len(w) : /\ w[j] \in DOMAIN node /\ w[j] # Null
                           /\ node[w[j]].prev = PrevIn(w, j) /\ node[w[j]].next = NextIn(w, j)
  BY <1>1, DoublyAround
<1>4. CASE w = <<>>
  BY <1>2, <1>4, NothingIn DEF NodesIn
<1>5. CASE w # <<>>
  <2>1. PICK c \in Nat : c = Len(w) /\ c >= 1
    BY <1>2, <1>5
  <2>2. lst[l].head = w[1] /\ lst[l].tail = w[c] /\ 1 \in 1..c /\ c \in 1..c
    BY <1>2, <1>5, <2>1 DEF FirstOf, LastOf
  <2>3. node[w[1]].prev = Null /\ node[w[c]].next = Null /\ w[1] # Null /\ w[c] # Null
    BY <1>3, <2>1, <2>2 DEF PrevIn, NextIn
  <2>4. ASSUME NEW j \in 1..c
        PROVE  /\ node[w[j]].next # Null =>
                    node[w[j]].next \in DOMAIN node /\ node[node[w[j]].next].prev = w[j]
               /\ node[w[j]].prev # Null =>
                    node[w[j]].prev \in DOMAIN node /\ node[node[w[j]].prev].next = w[j]
    <3>1. ASSUME j # c
          PROVE  node[w[j]].next \in DOMAIN node /\ node[node[w[j]].next].prev = w[j]
      <4>1. j + 1 \in 1..c /\ node[w[j]].next = w[j + 1] /\ node[w[j + 1]].prev = w[j]
        BY <1>3, <2>1, <3>1 DEF NextIn, PrevIn
      <4> QED
        BY <1>3, <2>1, <4>1
    <3>2. ASSUME j # 1
          PROVE  node[w[j]].prev \in DOMAIN node /\ node[node[w[j]].prev].next = w[j]
      <4>1. j - 1 \in 1..c /\ node[w[j]].prev = w[j - 1] /\ node[w[j - 1]].next = w[j]
        BY <1>3, <2>1, <3>2 DEF NextIn, PrevIn
      <4> QED
        BY <1>3, <2>1, <4>1
    <3> QED
      BY <2>3, <3>1, <3>2
  <2> QED
    BY <1>2, <1>3, <2>1, <2>2, <2>3, <2>4 DEF NodesIn
<1> QED
  BY <1>4, <1>5
-----------------------------------------------------------------------------
(* forward_list: the same heaps, with links onwards only.                    *)
Fronts(P, fs) == fs = [l \in Lists |-> [head |-> FirstOf(P[l]), size |-> Len(P[l])]]
Onward(P, nc) ==
  /\ nc = [a \in DOMAIN nc |-> nc[a]]
  /\ \A l \in Lists : \A k \in 1..Len(P[l]) :
       nc[P[l][k]] = [value |-> nc[P[l][k]].value, next |-> NextIn(P[l], k)]
  /\ \A a \in DOMAIN nc : nc[a].value \in ListValues
Singly(P, fs, nc) == Heap(P, DOMAIN nc) /\ Fronts(P, fs) /\ Onward(P, nc)

LEMMA CellParts ==
  ASSUME NEW P, NEW fs, NEW nc, Singly(P, fs, nc), NEW b \in DOMAIN nc
  PROVE  nc[b] = [value |-> nc[b].value, next |-> nc[b].next]
<1>1. PICK l \in Lists : \E i \in 1..Len(P[l]) : P[l][i] = b
  BY DEF Singly, Heap, Covers
<1>2. PICK i \in 1..Len(P[l]) : P[l][i] = b
  BY <1>1
<1>3. nc[P[l][i]] = [value |-> nc[P[l][i]].value, next |-> NextIn(P[l], i)]
  BY DEF Singly, Onward
<1> QED
  BY <1>2, <1>3

(* A node goes in at place k of list l.                                      *)
Entered(a, p, n, v) ==
  [b \in DOMAIN cell \cup {a} |-> IF b = a THEN [value |-> v, next |-> n]
                                  ELSE [cell[b] EXCEPT !.next = IF b = p THEN a ELSE @]]
EnteredAs(nc, a, p, n, v) ==
  /\ nc = [b \in DOMAIN nc |-> nc[b]] /\ DOMAIN nc = DOMAIN cell \cup {a}
  /\ nc[a] = [value |-> v, next |-> n]
  /\ \A b \in DOMAIN cell :
       nc[b] = [value |-> cell[b].value, next |-> IF b = p THEN a ELSE cell[b].next]
FrontPut(l, a, p) ==
  [fwd EXCEPT ![l] = [head |-> IF p = Null THEN a ELSE @.head, size |-> @.size + 1]]

LEMMA EnteredIs ==
  ASSUME NEW P, NEW fs, Singly(P, fs, cell), NEW a, a \notin DOMAIN cell, NEW p, NEW n, NEW v,
         NEW nc, nc = Entered(a, p, n, v)
  PROVE  EnteredAs(nc, a, p, n, v)
<1>1. ASSUME NEW b \in DOMAIN cell
      PROVE  nc[b] = [value |-> cell[b].value, next |-> IF b = p THEN a ELSE cell[b].next]
  <2>1. PICK r : r = cell[b]
    OBVIOUS
  <2>2. r = [value |-> r.value, next |-> r.next]
    BY <2>1, CellParts
  <2>3. nc[b] = [r EXCEPT !.next = IF b = p THEN a ELSE @]
    BY <2>1 DEF Entered
  <2>4. PICK x : x = (IF b = p THEN a ELSE r.next)
    OBVIOUS
  <2>5. nc[b] = [r EXCEPT !.next = x]
    BY <2>3, <2>4
  <2>6. [r EXCEPT !.next = x] = [value |-> r.value, next |-> x]
    BY <2>2
  <2> QED
    BY <2>1, <2>4, <2>5, <2>6
<1> QED
  BY <1>1 DEF Entered, EnteredAs

LEMMA EnterKeeps ==
  ASSUME NEW P, Singly(P, fwd, cell), NEW l \in Lists, NEW k \in 1..(Len(P[l]) + 1),
         NEW p, p = PrevIn(P[l], k), NEW n, n = AtOrEnd(P[l], k),
         NEW v \in ListValues, NEW a \in Addresses \ DOMAIN cell,
         NEW Q, Q = [P EXCEPT ![l] = InsertedAt(P[l], k, a)],
         NEW nc, nc = Entered(a, p, n, v), NEW fs, fs = FrontPut(l, a, p)
  PROVE  Singly(Q, fs, nc)
<1>1. Heap(P, DOMAIN cell) /\ Fronts(P, fwd) /\ Onward(P, cell)
  BY DEF Singly
<1>2. PICK o : o = P[l]
  OBVIOUS
<1>3. PICK q : q = InsertedAt(o, k, a)
  OBVIOUS
<1>4. PICK c \in Nat : c = Len(o)
  BY <1>1, <1>2, InHeap
<1>5. /\ o \in Seq(DOMAIN cell) /\ \A i \in 1..c : o[i] \in DOMAIN cell /\ o[i] # Null
      /\ \A i, j \in 1..c : o[i] = o[j] => i = j
  BY <1>1, <1>2, <1>4, InHeap
<1>6. /\ Q = [m \in Lists |-> Q[m]] /\ Q[l] = q /\ \A m \in Lists : m # l => Q[m] = P[m]
  BY <1>1, <1>2, <1>3 DEF Heap
<1>7. /\ nc = [b \in DOMAIN nc |-> nc[b]] /\ DOMAIN nc = DOMAIN cell \cup {a}
      /\ nc[a] = [value |-> v, next |-> n]
      /\ \A b \in DOMAIN cell :
           nc[b] = [value |-> cell[b].value, next |-> IF b = p THEN a ELSE cell[b].next]
  <2>1. EnteredAs(nc, a, p, n, v)
    BY EnteredIs
  <2> QED
    BY <2>1 DEF EnteredAs
<1>8. k \in 1..(c + 1) /\ p = PrevIn(o, k) /\ n = IF k = c + 1 THEN Null ELSE o[k]
  BY <1>2, <1>4 DEF AtOrEnd
<1>9. /\ q \in Seq(DOMAIN cell \cup {a}) /\ Len(q) = c + 1 /\ q[k] = a /\ NextIn(q, k) = n
      /\ \A j \in 1..(c + 1) : j # k =>
           /\ Old(j, k) \in 1..c /\ q[j] = o[Old(j, k)]
           /\ NextIn(q, j) = IF Old(j, k) = k - 1 THEN a ELSE NextIn(o, Old(j, k))
      /\ FirstOf(q) = IF k = 1 THEN a ELSE FirstOf(o)
  <2>1. o \in Seq(DOMAIN cell) /\ k \in 1..(Len(o) + 1) /\ q = InsertedAt(o, k, a)
    BY <1>3, <1>4, <1>5, <1>8
  <2>2. AroundNew(DOMAIN cell, o, k, a, q)
    BY <2>1, NeighboursAfterInsertion, Zenon
  <2> QED
    BY <1>4, <1>8, <2>2 DEF AroundNew
<1>10. Heap(Q, DOMAIN nc)
  <2>1. Heap(Q, DOMAIN cell \cup {a})
    BY <1>1, HeapWith, Zenon
  <2> QED
    BY <1>7, <2>1
<1>11. (p = Null <=> k = 1) /\ \A i \in 1..c : o[i] = p <=> i = k - 1
  <2>1. CASE k = 1
    BY <1>5, <1>8, <2>1 DEF PrevIn
  <2>2. CASE k # 1
    <3>1. k - 1 \in 1..c /\ p = o[k - 1]
      BY <1>8, <2>2 DEF PrevIn
    <3> QED
      BY <1>5, <1>8, <2>2, <3>1
  <2> QED
    BY <2>1, <2>2
<1>12. Fronts(Q, fs)
  <2>1. fwd = [m \in Lists |-> fwd[m]]
    BY <1>1 DEF Fronts
  <2>2. fwd[l].head = FirstOf(o) /\ fwd[l].size = c
    BY <1>1, <1>2, <1>4 DEF Fronts
  <2>3. fs[l] = [head |-> FirstOf(q), size |-> Len(q)]
    BY <1>9, <1>11, <2>1, <2>2 DEF FrontPut
  <2>4. \A m \in Lists : m # l => fs[m] = fwd[m]
    BY <2>1 DEF FrontPut
  <2>5. \A m \in Lists : fs[m] = [head |-> FirstOf(Q[m]), size |-> Len(Q[m])]
    BY <1>1, <1>6, <2>3, <2>4 DEF Fronts
  <2>6. fs = [m \in Lists |-> fs[m]]
    BY <2>1 DEF FrontPut
  <2> QED
    BY <2>5, <2>6 DEF Fronts
<1>13. ASSUME NEW m \in Lists, NEW j \in 1..Len(Q[m])
       PROVE  nc[Q[m][j]] = [value |-> nc[Q[m][j]].value, next |-> NextIn(Q[m], j)]
  <2>1. CASE m # l
    <3>1. PICK b \in DOMAIN cell : b = P[m][j] /\ Q[m] = P[m]
      BY <1>1, <1>6, <1>13, <2>1, InHeap
    <3>2. \A i \in 1..c : o[i] # b
      BY <1>1, <1>2, <1>4, <1>6, <1>13, <2>1, <3>1, InHeap
    <3>3. b # p
      <4>1. Null \notin DOMAIN cell
        BY <1>1, NullApart
      <4>2. p = Null \/ \E i \in 1..c : p = o[i]
        <5>1. k # 1 => k - 1 \in 1..c
          BY <1>8
        <5> QED
          BY <1>8, <5>1 DEF PrevIn
      <4> QED
        BY <3>1, <3>2, <4>1, <4>2
    <3>4. cell[b] = [value |-> cell[b].value, next |-> NextIn(P[m], j)]
      BY <1>1, <1>13, <3>1 DEF Onward
    <3>5. nc[b] = [value |-> cell[b].value, next |-> cell[b].next]
      BY <1>7, <3>1, <3>3
    <3> QED
      BY <3>1, <3>4, <3>5
  <2>2. CASE m = l /\ j = k
    BY <1>6, <1>7, <1>9, <2>2
  <2>3. CASE m = l /\ j # k
    <3>1. PICK i \in 1..c : i = Old(j, k) /\ q[j] = o[i]
      BY <1>6, <1>9, <1>13, <2>3
    <3>2. NextIn(q, j) = IF i = k - 1 THEN a ELSE NextIn(o, i)
      BY <1>6, <1>9, <1>13, <2>3, <3>1
    <3>3. PICK b \in DOMAIN cell : b = o[i]
      BY <1>5
    <3>4. cell[b] = [value |-> cell[b].value, next |-> NextIn(o, i)]
      BY <1>1, <1>2, <1>4, <3>3 DEF Onward
    <3>5. nc[b] = [value |-> cell[b].value, next |-> IF i = k - 1 THEN a ELSE cell[b].next]
      BY <1>7, <1>11, <3>3
    <3>6. nc[b] = [value |-> cell[b].value, next |-> NextIn(q, j)]
      BY <3>2, <3>4, <3>5
    <3> QED
      BY <1>6, <2>3, <3>1, <3>3, <3>6
  <2> QED
    BY <2>1, <2>2, <2>3
<1>14. ASSUME NEW b \in DOMAIN nc PROVE nc[b].value \in ListValues
  <2>1. CASE b = a
    BY <1>7, <2>1
  <2>2. CASE b \in DOMAIN cell
    <3>1. nc[b] = [value |-> cell[b].value, next |-> IF b = p THEN a ELSE cell[b].next]
      BY <1>7, <2>2
    <3> QED
      BY <1>1, <2>2, <3>1 DEF Onward
  <2> QED
    BY <1>7, <2>1, <2>2
<1> QED
  BY <1>7, <1>10, <1>12, <1>13, <1>14 DEF Singly, Onward

(* The node at place k of list l goes.                                       *)
CutAs(nc, a, p, n) ==
  /\ nc = [b \in DOMAIN nc |-> nc[b]] /\ DOMAIN nc = DOMAIN cell \ {a}
  /\ \A b \in DOMAIN nc :
       nc[b] = [value |-> cell[b].value, next |-> IF b = p THEN n ELSE cell[b].next]
FrontCut(l, p, n) ==
  [fwd EXCEPT ![l] = [head |-> IF p = Null THEN n ELSE @.head, size |-> @.size - 1]]

LEMMA CutKeeps ==
  ASSUME NEW P, Singly(P, fwd, cell), NEW l \in Lists, NEW k \in 1..Len(P[l]),
         NEW p, p = PrevIn(P[l], k), NEW n, n = NextIn(P[l], k),
         NEW Q, Q = [P EXCEPT ![l] = RemovedAt(P[l], k)],
         NEW nc, CutAs(nc, P[l][k], p, n), NEW fs, fs = FrontCut(l, p, n)
  PROVE  Singly(Q, fs, nc)
<1>1. Heap(P, DOMAIN cell) /\ Fronts(P, fwd) /\ Onward(P, cell)
  BY DEF Singly
<1>2. PICK o : o = P[l]
  OBVIOUS
<1>3. PICK q : q = RemovedAt(o, k)
  OBVIOUS
<1>4. PICK c \in Nat : c = Len(o)
  BY <1>1, <1>2, InHeap
<1>5. /\ o \in Seq(DOMAIN cell) /\ \A i \in 1..c : o[i] \in DOMAIN cell /\ o[i] # Null
      /\ \A i, j \in 1..c : o[i] = o[j] => i = j
  BY <1>1, <1>2, <1>4, InHeap
<1>6. /\ Q = [m \in Lists |-> Q[m]] /\ Q[l] = q /\ \A m \in Lists : m # l => Q[m] = P[m]
  BY <1>1, <1>2, <1>3 DEF Heap
<1>7. PICK a : a = o[k]
  OBVIOUS
<1>8. k \in 1..c /\ p = PrevIn(o, k) /\ n = NextIn(o, k) /\ a \in DOMAIN cell /\ a = P[l][k]
  BY <1>2, <1>4, <1>5, <1>7
<1>9. /\ nc = [b \in DOMAIN nc |-> nc[b]] /\ DOMAIN nc = DOMAIN cell \ {a}
      /\ \A b \in DOMAIN nc :
           nc[b] = [value |-> cell[b].value, next |-> IF b = p THEN n ELSE cell[b].next]
  BY <1>8 DEF CutAs
<1>11. /\ q \in Seq(DOMAIN cell \ {a}) /\ Len(q) = c - 1
       /\ \A j \in 1..(c - 1) :
            /\ Later(j, k) \in 1..c /\ q[j] = o[Later(j, k)] /\ Later(j, k) # k
            /\ NextIn(q, j) = IF Later(j, k) = k - 1 THEN n ELSE NextIn(o, Later(j, k))
       /\ FirstOf(q) = IF k = 1 THEN n ELSE FirstOf(o)
  <2>1. /\ o \in Seq(DOMAIN cell) /\ k \in 1..Len(o) /\ q = RemovedAt(o, k)
        /\ \A i \in 1..Len(o) : i # k => o[i] # o[k]
    BY <1>3, <1>4, <1>5, <1>8
  <2>2. AroundGone(DOMAIN cell, o, k, q)
    BY <2>1, NeighboursAfterRemoval, Zenon
  <2> QED
    BY <1>4, <1>7, <1>8, <2>2 DEF AroundGone
<1>12. Heap(Q, DOMAIN nc)
  <2>1. Heap(Q, DOMAIN cell \ {P[l][k]})
    BY <1>1, HeapWithout, Zenon
  <2> QED
    BY <1>8, <1>9, <2>1
<1>13. (p = Null <=> k = 1) /\ \A i \in 1..c : o[i] = p <=> i = k - 1
  <2>1. (p = Null /\ k = 1) \/ (k # 1 /\ k - 1 \in 1..c /\ p = o[k - 1])
    <3>1. k # 1 => k - 1 \in 1..c
      BY <1>8
    <3>2. CASE k = 1
      BY <1>8, <3>2 DEF PrevIn
    <3>3. CASE k # 1
      BY <1>8, <3>1, <3>3 DEF PrevIn
    <3> QED
      BY <3>2, <3>3
  <2>2. \A i \in 1..c : o[i] = p <=> i = k - 1
    BY <1>5, <2>1
  <2> QED
    BY <1>5, <2>1, <2>2
<1>14. Fronts(Q, fs)
  <2>1. fwd = [m \in Lists |-> fwd[m]]
    BY <1>1 DEF Fronts
  <2>2. fwd[l].head = FirstOf(o) /\ fwd[l].size = c
    BY <1>1, <1>2, <1>4 DEF Fronts
  <2>3. fs[l] = [head |-> FirstOf(q), size |-> Len(q)]
    BY <1>11, <1>13, <2>1, <2>2 DEF FrontCut
  <2>4. \A m \in Lists : m # l => fs[m] = fwd[m]
    BY <2>1 DEF FrontCut
  <2>5. \A m \in Lists : fs[m] = [head |-> FirstOf(Q[m]), size |-> Len(Q[m])]
    BY <1>1, <1>6, <2>3, <2>4 DEF Fronts
  <2>6. fs = [m \in Lists |-> fs[m]]
    BY <2>1 DEF FrontCut
  <2> QED
    BY <2>5, <2>6 DEF Fronts
<1>15. ASSUME NEW m \in Lists, NEW j \in 1..Len(Q[m])
       PROVE  nc[Q[m][j]] = [value |-> nc[Q[m][j]].value, next |-> NextIn(Q[m], j)]
  <2>1. CASE m # l
    <3>1. PICK b \in DOMAIN cell : b = P[m][j] /\ Q[m] = P[m]
      BY <1>1, <1>6, <1>15, <2>1, InHeap
    <3>2. \A i \in 1..c : o[i] # b
      BY <1>1, <1>2, <1>4, <1>6, <1>15, <2>1, <3>1, InHeap
    <3>3. b # p /\ b # a
      <4>1. Null \notin DOMAIN cell
        BY <1>1, NullApart
      <4>2. p = Null \/ \E i \in 1..c : p = o[i]
        <5>1. k # 1 => k - 1 \in 1..c
          BY <1>8
        <5> QED
          BY <1>8, <5>1 DEF PrevIn
      <4> QED
        BY <1>7, <1>8, <3>1, <3>2, <4>1, <4>2
    <3>4. cell[b] = [value |-> cell[b].value, next |-> NextIn(P[m], j)]
      BY <1>1, <1>15, <3>1 DEF Onward
    <3>5. nc[b] = [value |-> cell[b].value, next |-> cell[b].next]
      BY <1>9, <3>1, <3>3
    <3> QED
      BY <3>1, <3>4, <3>5
  <2>2. CASE m = l
    <3>1. PICK i \in 1..c : i = Later(j, k) /\ q[j] = o[i] /\ i # k
      BY <1>6, <1>11, <1>15, <2>2
    <3>2. NextIn(q, j) = IF i = k - 1 THEN n ELSE NextIn(o, i)
      BY <1>6, <1>11, <1>15, <2>2, <3>1
    <3>3. PICK b \in DOMAIN nc : b = o[i] /\ b # a
      BY <1>5, <1>7, <1>8, <1>9, <3>1
    <3>4. cell[b] = [value |-> cell[b].value, next |-> NextIn(o, i)]
      BY <1>1, <1>2, <1>4, <3>3 DEF Onward
    <3>5. nc[b] = [value |-> cell[b].value, next |-> IF i = k - 1 THEN n ELSE cell[b].next]
      BY <1>9, <1>13, <3>3
    <3>6. nc[b] = [value |-> cell[b].value, next |-> NextIn(q, j)]
      BY <3>2, <3>4, <3>5
    <3> QED
      BY <1>6, <2>2, <3>1, <3>3, <3>6
  <2> QED
    BY <2>1, <2>2
<1>16. ASSUME NEW b \in DOMAIN nc PROVE nc[b].value \in ListValues
  <2>1. nc[b] = [value |-> cell[b].value, next |-> IF b = p THEN n ELSE cell[b].next]
    BY <1>9
  <2> QED
    BY <1>1, <1>9, <2>1 DEF Onward
<1> QED
  BY <1>9, <1>12, <1>14, <1>15, <1>16 DEF Singly, Onward
-----------------------------------------------------------------------------
LEMMA CellsWithout ==
  ASSUME NEW gone, NEW nc, nc = FL!Without(gone)
  PROVE  LessOf(nc, cell, gone)
BY DEF FL!Without, LessOf

LEMMA ForwardClearKeeps ==
  ASSUME NEW P, Singly(P, fwd, cell), NEW l \in Lists,
         NEW Q, Q = [P EXCEPT ![l] = <<>>],
         NEW nc, nc = FL!Without(NodesIn(P[l])),
         NEW fs, fs = [fwd EXCEPT ![l] = FL!NoNodes]
  PROVE  Singly(Q, fs, nc)
<1>1. Heap(P, DOMAIN cell) /\ Fronts(P, fwd) /\ Onward(P, cell)
  BY DEF Singly
<1>2. Q = [m \in Lists |-> Q[m]] /\ Q[l] = <<>> /\ \A m \in Lists : m # l => Q[m] = P[m]
  BY <1>1 DEF Heap
<1>3. /\ nc = [b \in DOMAIN nc |-> nc[b]] /\ DOMAIN nc = DOMAIN cell \ NodesIn(P[l])
      /\ \A b \in DOMAIN nc : nc[b] = cell[b]
  BY DEF FL!Without
<1>4. Heap(Q, DOMAIN nc)
  <2>1. Heap(Q, DOMAIN cell \ NodesIn(P[l]))
    BY <1>1, HeapEmptied, Zenon
  <2> QED
    BY <1>3, <2>1
<1>5. Fronts(Q, fs)
  <2>1. fs = [m \in Lists |-> fs[m]] /\ fs[l] = FL!NoNodes /\ \A m \in Lists : m # l => fs[m] = fwd[m]
    BY <1>1 DEF Fronts
  <2>2. ASSUME NEW m \in Lists
        PROVE  fs[m] = [head |-> FirstOf(Q[m]), size |-> Len(Q[m])]
    <3>1. CASE m = l
      BY <1>2, <2>1, <3>1, NothingIn DEF FL!NoNodes
    <3>2. CASE m # l
      BY <1>1, <1>2, <2>1, <3>2 DEF Fronts
    <3> QED
      BY <3>1, <3>2
  <2>3. fs = [m \in Lists |-> fs[m]]
    BY <2>1
  <2> QED
    BY <2>2, <2>3 DEF Fronts
<1>6. ASSUME NEW m \in Lists, NEW j \in 1..Len(Q[m])
      PROVE  nc[Q[m][j]] = [value |-> nc[Q[m][j]].value, next |-> NextIn(Q[m], j)]
  <2>1. m # l /\ Q[m] = P[m]
    BY <1>2, <1>6, NothingIn
  <2>2. nc[P[m][j]] = cell[P[m][j]]
    <3>1. P[m][j] \in DOMAIN nc
      BY <1>4, <1>6, <2>1, InHeap
    <3> QED
      BY <1>3, <3>1
  <2> QED
    BY <1>1, <1>6, <2>1, <2>2 DEF Onward
<1>7. \A b \in DOMAIN nc : nc[b].value \in ListValues
  BY <1>1, <1>3 DEF Onward
<1> QED
  BY <1>3, <1>4, <1>5, <1>6, <1>7 DEF Singly, Onward

LEMMA ForwardMoveKeeps ==
  ASSUME NEW P, Singly(P, fwd, cell), NEW d \in Lists, NEW s \in Lists, d # s,
         NEW Q, Q = [P EXCEPT ![d] = P[s], ![s] = <<>>],
         NEW nc, nc = FL!Without(NodesIn(P[d])),
         NEW fs, fs = [fwd EXCEPT ![d] = fwd[s], ![s] = FL!NoNodes]
  PROVE  Singly(Q, fs, nc)
<1>1. Heap(P, DOMAIN cell) /\ Fronts(P, fwd) /\ Onward(P, cell)
  BY DEF Singly
<1>2. /\ Q = [m \in Lists |-> Q[m]] /\ Q[d] = P[s] /\ Q[s] = <<>>
      /\ \A m \in Lists : m # d /\ m # s => Q[m] = P[m]
  BY <1>1 DEF Heap
<1>3. /\ nc = [b \in DOMAIN nc |-> nc[b]] /\ DOMAIN nc = DOMAIN cell \ NodesIn(P[d])
      /\ \A b \in DOMAIN nc : nc[b] = cell[b]
  BY DEF FL!Without
<1>4. Heap(Q, DOMAIN nc)
  <2>1. Heap(Q, DOMAIN cell \ NodesIn(P[d]))
    BY <1>1, HeapHanded, Zenon
  <2> QED
    BY <1>3, <2>1
<1>5. Fronts(Q, fs)
  <2>1. /\ fs = [m \in Lists |-> fs[m]] /\ fs[d] = fwd[s] /\ fs[s] = FL!NoNodes
        /\ \A m \in Lists : m # d /\ m # s => fs[m] = fwd[m]
    BY <1>1 DEF Fronts
  <2>2. ASSUME NEW m \in Lists
        PROVE  fs[m] = [head |-> FirstOf(Q[m]), size |-> Len(Q[m])]
    <3>1. CASE m = s
      BY <1>2, <2>1, <3>1, NothingIn DEF FL!NoNodes
    <3>2. CASE m = d
      BY <1>1, <1>2, <2>1, <3>2 DEF Fronts
    <3>3. CASE m # d /\ m # s
      BY <1>1, <1>2, <2>1, <3>3 DEF Fronts
    <3> QED
      BY <3>1, <3>2, <3>3
  <2>3. fs = [m \in Lists |-> fs[m]]
    BY <2>1
  <2> QED
    BY <2>2, <2>3 DEF Fronts
<1>6. ASSUME NEW m \in Lists, NEW j \in 1..Len(Q[m])
      PROVE  nc[Q[m][j]] = [value |-> nc[Q[m][j]].value, next |-> NextIn(Q[m], j)]
  <2>1. m # s
    BY <1>2, <1>6, NothingIn
  <2>2. nc[Q[m][j]] = cell[Q[m][j]]
    <3>1. Q[m][j] \in DOMAIN nc
      BY <1>4, <1>6, InHeap
    <3> QED
      BY <1>3, <3>1
  <2>3. PICK n \in Lists : Q[m] = P[n]
    BY <1>2, <2>1
  <2>4. cell[P[n][j]] = [value |-> cell[P[n][j]].value, next |-> NextIn(P[n], j)]
    BY <1>1, <1>6, <2>3 DEF Onward
  <2> QED
    BY <2>2, <2>3, <2>4
<1>7. \A b \in DOMAIN nc : nc[b].value \in ListValues
  BY <1>1, <1>3 DEF Onward
<1> QED
  BY <1>3, <1>4, <1>5, <1>6, <1>7 DEF Singly, Onward

CellsCopied(kept, w, f, n) ==
  [b \in DOMAIN kept \cup {f[k] : k \in 1..n} |->
     IF b \in DOMAIN kept THEN kept[b]
     ELSE LET k == FL!AntiFunction(f)[b]
          IN [value |-> cell[w[k]].value, next |-> IF k = n THEN Null ELSE f[k + 1]]]
FrontCopied(d, f, n) ==
  [fwd EXCEPT ![d] = [head |-> IF n = 0 THEN Null ELSE f[1], size |-> n]]
ForwardCopyMakes(P, d, s, w, n, kept, f, Q, nc, fs) ==
  /\ w = P[s] /\ n = Len(w) /\ kept = FL!Without(NodesIn(P[d]))
  /\ f \in Injection(1..n, Addresses \ DOMAIN kept)
  /\ Q = [P EXCEPT ![d] = f] /\ nc = CellsCopied(kept, w, f, n) /\ fs = FrontCopied(d, f, n)
CellsHaveValues(nc, f, w, n) == \A k \in 1..n : nc[f[k]].value = cell[w[k]].value

LEMMA ForwardCopyKeeps ==
  ASSUME NEW P, Singly(P, fwd, cell), NEW d \in Lists, NEW s \in Lists, d # s,
         NEW w, NEW n, NEW kept, NEW f, NEW Q, NEW nc, NEW fs,
         ForwardCopyMakes(P, d, s, w, n, kept, f, Q, nc, fs)
  PROVE  Singly(Q, fs, nc) /\ CellsHaveValues(nc, f, w, n)
<1> w = P[s] /\ n = Len(w) /\ kept = FL!Without(NodesIn(P[d]))
  BY DEF ForwardCopyMakes
<1> f \in Injection(1..n, Addresses \ DOMAIN kept)
  BY DEF ForwardCopyMakes
<1> Q = [P EXCEPT ![d] = f] /\ nc = CellsCopied(kept, w, f, n) /\ fs = FrontCopied(d, f, n)
  BY DEF ForwardCopyMakes
<1>1. Heap(P, DOMAIN cell) /\ Fronts(P, fwd) /\ Onward(P, cell)
  BY DEF Singly
<1>2. Q = [m \in Lists |-> Q[m]] /\ Q[d] = f /\ \A m \in Lists : m # d => Q[m] = P[m]
  BY <1>1 DEF Heap
<1>3. /\ DOMAIN kept = DOMAIN cell \ NodesIn(P[d])
      /\ \A b \in DOMAIN kept : kept[b] = cell[b]
  <2>1. LessOf(kept, cell, NodesIn(P[d]))
    BY CellsWithout, Zenon
  <2> QED
    BY <2>1 DEF LessOf
<1>4. n \in Nat /\ \A k \in 1..n : w[k] \in DOMAIN cell
  BY <1>1, InHeap
<1>5. /\ f = [i \in 1..n |-> f[i]] /\ \A i \in 1..n : f[i] \in Addresses \ DOMAIN kept
      /\ \A i, j \in 1..n : f[i] = f[j] => i = j
  BY DEF Injection, IsInjective
<1>6. f \in Seq(Addresses) /\ Len(f) = n
  BY <1>4, <1>5, FunctionIsSeq, ZenonT(40)
<1>7. /\ nc = [b \in DOMAIN nc |-> nc[b]] /\ DOMAIN nc = DOMAIN kept \cup {f[k] : k \in 1..n}
      /\ \A b \in DOMAIN kept : nc[b] = cell[b]
  BY <1>3 DEF CellsCopied
<1>8. ASSUME NEW k \in 1..n
      PROVE  nc[f[k]] = [value |-> cell[w[k]].value, next |-> NextIn(f, k)]
  <2>1. f[k] \in DOMAIN nc /\ f[k] \notin DOMAIN kept
    BY <1>5, <1>7
  <2>2. FL!AntiFunction(f)[f[k]] = k
    BY <1>4, AntiFunctionIs
  <2>3. nc[f[k]] = [value |-> cell[w[k]].value, next |-> IF k = n THEN Null ELSE f[k + 1]]
    BY <2>1, <2>2 DEF CellsCopied
  <2> QED
    BY <1>6, <2>3 DEF NextIn
<1>9. Heap(Q, DOMAIN nc)
  <2>1. f \in Injection(1..n, Addresses \ (DOMAIN cell \ NodesIn(P[d])))
    BY <1>3
  <2>2. DOMAIN nc = (DOMAIN cell \ NodesIn(P[d])) \cup NodesIn(f)
    BY <1>3, <1>6, <1>7 DEF NodesIn
  <2>3. Heap(P, DOMAIN cell) /\ n \in Nat
    BY <1>1, <1>4
  <2>4. PICK D, E : D = DOMAIN cell /\ E = DOMAIN nc
    OBVIOUS
  <2>5. /\ f \in Injection(1..n, Addresses \ (D \ NodesIn(P[d])))
        /\ E = (D \ NodesIn(P[d])) \cup NodesIn(f) /\ Heap(P, D)
    BY <2>1, <2>2, <2>3, <2>4
  <2>6. Heap(Q, E)
    BY <2>3, <2>5, HeapCopied, Zenon
  <2> QED
    BY <2>4, <2>6
<1>10. Fronts(Q, fs)
  <2>1. /\ fs = [m \in Lists |-> fs[m]] /\ \A m \in Lists : m # d => fs[m] = fwd[m]
        /\ fs[d] = [head |-> IF n = 0 THEN Null ELSE f[1], size |-> n]
    BY <1>1 DEF FrontCopied, Fronts
  <2>2. fs[d] = [head |-> FirstOf(f), size |-> Len(f)]
    <3>1. CASE n = 0
      <4>1. f = <<>>
        BY <1>6, <3>1
      <4> QED
        BY <2>1, <3>1, <4>1, NothingIn
    <3>2. CASE n # 0
      <4>1. f # <<>>
        BY <1>6, <3>2
      <4> QED
        BY <1>6, <2>1, <3>2, <4>1 DEF FirstOf
    <3> QED
      BY <3>1, <3>2
  <2>3. ASSUME NEW m \in Lists
        PROVE  fs[m] = [head |-> FirstOf(Q[m]), size |-> Len(Q[m])]
    <3>1. CASE m = d
      BY <1>2, <2>2, <3>1
    <3>2. CASE m # d
      BY <1>1, <1>2, <2>1, <3>2 DEF Fronts
    <3> QED
      BY <3>1, <3>2
  <2>4. fs = [m \in Lists |-> fs[m]]
    BY <2>1
  <2> QED
    BY <2>3, <2>4 DEF Fronts
<1>11. ASSUME NEW m \in Lists, NEW j \in 1..Len(Q[m])
       PROVE  nc[Q[m][j]] = [value |-> nc[Q[m][j]].value, next |-> NextIn(Q[m], j)]
  <2>1. CASE m = d
    <3>1. j \in 1..n /\ Q[m] = f
      BY <1>2, <1>6, <1>11, <2>1
    <3>2. nc[f[j]] = [value |-> cell[w[j]].value, next |-> NextIn(f, j)]
      BY <1>8, <3>1
    <3> QED
      BY <3>1, <3>2
  <2>2. CASE m # d
    <3>1. j \in 1..Len(P[m]) /\ Q[m] = P[m]
      BY <1>2, <1>11, <2>2
    <3>2. P[m][j] \in DOMAIN kept
      BY <1>1, <1>3, <2>2, <3>1, InHeap DEF NodesIn
    <3>3. cell[P[m][j]] = [value |-> cell[P[m][j]].value, next |-> NextIn(P[m], j)]
      BY <1>1, <3>1 DEF Onward
    <3> QED
      BY <1>7, <3>1, <3>2, <3>3
  <2> QED
    BY <2>1, <2>2
<1>12. ASSUME NEW k \in 1..n PROVE nc[f[k]].value = cell[w[k]].value
  <2>1. nc[f[k]] = [value |-> cell[w[k]].value, next |-> NextIn(f, k)]
    BY <1>8
  <2> QED
    BY <2>1
<1>13. ASSUME NEW b \in DOMAIN nc PROVE nc[b].value \in ListValues
  <2>1. CASE b \in DOMAIN kept
    BY <1>1, <1>3, <1>7, <2>1 DEF Onward
  <2>2. CASE b \notin DOMAIN kept
    <3>1. PICK k \in 1..n : b = f[k]
      BY <1>7, <2>2
    <3> QED
      BY <1>1, <1>4, <1>12, <3>1 DEF Onward
  <2> QED
    BY <2>1, <2>2
<1> QED
  BY <1>7, <1>9, <1>10, <1>11, <1>12, <1>13 DEF CellsHaveValues, Singly, Onward
-----------------------------------------------------------------------------
(* forward_list: its walks visit the chains, whatever the calls.             *)
LEMMA SinglyAround ==
  ASSUME NEW P, NEW fs, NEW nc, Singly(P, fs, nc), NEW l \in Lists, NEW k \in 1..Len(P[l])
  PROVE  /\ P[l][k] \in DOMAIN nc /\ P[l][k] # Null
         /\ nc[P[l][k]].next = NextIn(P[l], k)
<1>1. nc[P[l][k]] = [value |-> nc[P[l][k]].value, next |-> NextIn(P[l], k)]
  BY DEF Singly, Onward
<1>2. PICK r, n : r = nc[P[l][k]] /\ n = NextIn(P[l], k)
  OBVIOUS
<1>3. r.next = n
  BY <1>1, <1>2
<1>4. P[l][k] \in DOMAIN nc /\ P[l][k] # Null
  BY InHeap DEF Singly
<1> QED
  BY <1>2, <1>3, <1>4

LEMMA SinglyEnds ==
  ASSUME NEW P, NEW fs, NEW nc, Singly(P, fs, nc), NEW l \in Lists
  PROVE  /\ P[l] \in Seq(DOMAIN nc) /\ Len(P[l]) \in Nat
         /\ fs[l] = [head |-> FirstOf(P[l]), size |-> Len(P[l])]
         /\ fs[l].head = FirstOf(P[l]) /\ fs[l].size = Len(P[l])
<1>1. fs[l] = [head |-> FirstOf(P[l]), size |-> Len(P[l])]
  BY DEF Singly, Fronts
<1>2. P[l] \in Seq(DOMAIN nc)
  BY InHeap DEF Singly
<1> QED
  BY <1>1, <1>2

LEMMA SinglyWalked ==
  ASSUME NEW P, NEW fs, NEW nc, Singly(P, fs, nc), NEW l \in Lists
  PROVE  WalkOf(fs[l].head, nc) = P[l]
<1>1. Heap(P, DOMAIN nc)
  BY DEF Singly
<1>2. PICK p : p = P[l]
  OBVIOUS
<1>3. p \in Seq(DOMAIN nc) /\ Null \notin DOMAIN nc
  BY <1>1, <1>2, InHeap, NullApart
<1>4. fs[l].head = FirstOf(p)
  BY <1>2, SinglyEnds
<1>5. ASSUME NEW k \in 1..Len(p) PROVE nc[p[k]].next = IF k = Len(p) THEN Null ELSE p[k + 1]
  <2>1. nc[p[k]].next = NextIn(p, k)
    BY <1>2, SinglyAround
  <2> QED
    BY <2>1 DEF NextIn
<1>6. Chain(p, fs[l].head, nc)
  BY <1>3, <1>4, <1>5 DEF Chain, FirstOf
<1>7. IsFiniteSet(DOMAIN nc) /\ Len(p) <= Cardinality(DOMAIN nc)
  BY <1>1, <1>2, ListFits DEF Heap
<1> QED
  BY <1>2, <1>6, <1>7, WalkOfChain

LEMMA SinglyReached ==
  ASSUME NEW P, Singly(P, fwd, cell), NEW l \in Lists
  PROVE  FL!Walk(l) = P[l] /\ FL!Reached(l) = NodesIn(P[l])
<1>1. FL!Walk(l) = P[l]
  BY SinglyWalks, SinglyWalked
<1>2. P[l] \in Seq(DOMAIN cell)
  BY InHeap DEF Singly
<1>3. DOMAIN P[l] = 1..Len(P[l])
  BY <1>2
<1> QED
  BY <1>1, <1>3 DEF FL!Reached, FL!ToSet, NodesIn

LEMMA SinglyInit == ASSUME FL!Init PROVE Singly([l \in Lists |-> <<>>], fwd, cell)
<1>1. PICK P : P = [l \in Lists |-> <<>>]
  OBVIOUS
<1>2. \A l \in Lists : P[l] = <<>>
  BY <1>1
<1>3. cell = [a \in {} |-> Null] /\ DOMAIN cell = {}
  BY DEF FL!Init
<1>4. Heap(P, DOMAIN cell)
  BY <1>1, <1>3, HeapNew
<1>5. Fronts(P, fwd)
  BY <1>2, NothingIn DEF FL!Init, FL!NoNodes, Fronts
<1>6. Onward(P, cell)
  BY <1>2, <1>3, NothingIn DEF Onward
<1> QED
  BY <1>1, <1>4, <1>5, <1>6 DEF Singly

(* A call of forward_list does to the sequences and values what one of list  *)
(* does.                                                                     *)
EnteredAt(P, Q, l, k, v) == Singly(Q, fwd', cell') /\ Inserts(P, cell, Q, cell', l, k, v)
CutAt(P, Q, l, k) == Singly(Q, fwd', cell') /\ Removes(P, cell, Q, cell', l, k)

LEMMA EnterStep ==
  ASSUME NEW P, Singly(P, fwd, cell), NEW l \in Lists, NEW k \in 1..(Len(P[l]) + 1),
         NEW p, p = PrevIn(P[l], k), NEW n, n = AtOrEnd(P[l], k),
         NEW v \in ListValues, FL!Put(l, p, n, v)
  PROVE  \E Q : EnteredAt(P, Q, l, k, v)
<1>1. PICK a \in Addresses \ DOMAIN cell :
        cell' = Entered(a, p, n, v) /\ fwd' = FrontPut(l, a, p)
  BY DEF FL!Put, Entered, FrontPut
<1>2. PICK Q : Q = [P EXCEPT ![l] = InsertedAt(P[l], k, a)]
  OBVIOUS
<1>3. PICK nc, fs : nc = cell' /\ fs = fwd'
  OBVIOUS
<1>4. nc = Entered(a, p, n, v) /\ fs = FrontPut(l, a, p)
  BY <1>1, <1>3
<1>5. Singly(Q, fs, nc)
  BY <1>2, <1>4, EnterKeeps, Zenon
<1>6. a \notin DOMAIN cell
  OBVIOUS
<1>7. EnteredAs(nc, a, p, n, v)
  BY <1>4, <1>6, EnteredIs, Zenon
<1>8. nc[a].value = v /\ \A b \in DOMAIN cell : nc[b].value = cell[b].value
  BY <1>7 DEF EnteredAs
<1> QED
  BY <1>2, <1>3, <1>5, <1>8 DEF Inserts, EnteredAt

LEMMA ForwardFrontStep ==
  ASSUME NEW P, Singly(P, fwd, cell), NEW l \in Lists, NEW v \in ListValues,
         FL!EmplaceFront(l, v)
  PROVE  \E Q : EnteredAt(P, Q, l, 1, v)
<1>1. PICK k : k = 1
  OBVIOUS
<1>2. k \in 1..(Len(P[l]) + 1) /\ Null = PrevIn(P[l], k) /\ fwd[l].head = AtOrEnd(P[l], k)
  <2>1. P[l] \in Seq(DOMAIN cell) /\ Len(P[l]) \in Nat /\ fwd[l].head = FirstOf(P[l])
    BY SinglyEnds
  <2>2. PrevIn(P[l], 1) = Null /\ AtOrEnd(P[l], 1) = FirstOf(P[l])
    BY <2>1, EndPlaces
  <2> QED
    BY <1>1, <2>1, <2>2
<1>3. FL!Put(l, Null, fwd[l].head, v)
  BY DEF FL!EmplaceFront
<1>4. PICK p, n : p = Null /\ n = fwd[l].head
  OBVIOUS
<1>5. FL!Put(l, p, n, v) /\ p = PrevIn(P[l], k) /\ n = AtOrEnd(P[l], k)
  BY <1>2, <1>3, <1>4
<1>6. \E Q : EnteredAt(P, Q, l, k, v)
  BY <1>2, <1>5, EnterStep, Zenon
<1> QED
  BY <1>1, <1>6

LEMMA InsertAfterStep ==
  ASSUME NEW P, Singly(P, fwd, cell), NEW l \in Lists, NEW v \in ListValues,
         NEW i \in 1..Len(P[l]), FL!InsertAfter(l, P[l][i], v)
  PROVE  i + 1 \in 1..(Len(P[l]) + 1) /\ \E Q : EnteredAt(P, Q, l, i + 1, v)
<1>1. PICK w : w = P[l]
  OBVIOUS
<1>2. /\ w \in Seq(DOMAIN cell) /\ Len(w) \in Nat /\ i \in 1..Len(w)
      /\ cell[w[i]].next = NextIn(w, i)
  BY <1>1, SinglyAround, SinglyEnds
<1>3. PICK k : k = i + 1
  OBVIOUS
<1>4. k \in 2..(Len(w) + 1) /\ k \in 1..(Len(w) + 1) /\ k - 1 = i
  BY <1>2, <1>3
<1>5. PrevIn(w, k) = w[i] /\ AtOrEnd(w, k) = NextIn(w, i)
  BY <1>2, <1>4, EndPlaces
<1>6. PICK p, n : p = w[i] /\ n = cell[w[i]].next
  OBVIOUS
<1>7. FL!Put(l, p, n, v)
  BY <1>1, <1>6 DEF FL!InsertAfter
<1>8. k \in 1..(Len(P[l]) + 1) /\ p = PrevIn(P[l], k) /\ n = AtOrEnd(P[l], k)
  BY <1>1, <1>2, <1>4, <1>5, <1>6
<1>9. \E Q : EnteredAt(P, Q, l, k, v)
  BY <1>7, <1>8, EnterStep, Zenon
<1> QED
  BY <1>3, <1>8, <1>9

LEMMA CutStep ==
  ASSUME NEW P, Singly(P, fwd, cell), NEW l \in Lists, NEW k \in 1..Len(P[l]),
         NEW p, p = PrevIn(P[l], k), NEW n, n = NextIn(P[l], k),
         CutAs(cell', P[l][k], p, n), fwd' = FrontCut(l, p, n)
  PROVE  \E Q : CutAt(P, Q, l, k)
<1>1. PICK Q : Q = [P EXCEPT ![l] = RemovedAt(P[l], k)]
  OBVIOUS
<1>2. PICK nc, fs : nc = cell' /\ fs = fwd'
  OBVIOUS
<1>3. CutAs(nc, P[l][k], p, n) /\ fs = FrontCut(l, p, n)
  BY <1>2
<1>4. Singly(Q, fs, nc)
  BY <1>1, <1>3, CutKeeps, Zenon
<1>5. ASSUME NEW b \in DOMAIN cell \ {P[l][k]} PROVE nc[b].value = cell[b].value
  <2>1. nc[b] = [value |-> cell[b].value, next |-> IF b = p THEN n ELSE cell[b].next]
    BY <1>3 DEF CutAs
  <2> QED
    BY <2>1
<1> QED
  BY <1>1, <1>2, <1>4, <1>5 DEF Removes, CutAt

LEMMA ForwardPopStep ==
  ASSUME NEW P, Singly(P, fwd, cell), NEW l \in Lists, FL!PopFront(l)
  PROVE  1 \in 1..Len(P[l]) /\ \E Q : CutAt(P, Q, l, 1)
<1>1. PICK w : w = P[l]
  OBVIOUS
<1>2. PICK a : a = fwd[l].head
  OBVIOUS
<1>3. w \in Seq(DOMAIN cell) /\ Len(w) \in Nat /\ a = FirstOf(w) /\ fwd[l].size = Len(w)
  BY <1>1, <1>2, SinglyEnds
<1>4. /\ a # Null /\ cell' = FL!Without({a})
      /\ fwd' = [fwd EXCEPT ![l] = [head |-> cell[@.head].next, size |-> @.size - 1]]
  BY <1>2 DEF FL!PopFront
<1>5. w # <<>> /\ a = w[1] /\ 1 \in 1..Len(w)
  BY <1>3, <1>4 DEF FirstOf
<1>6. PICK k : k = 1
  OBVIOUS
<1>7. PICK p, n : p = PrevIn(w, k) /\ n = NextIn(w, k)
  OBVIOUS
<1>8. p = Null /\ cell[a].next = n
  <2>1. p = Null
    BY <1>6, <1>7 DEF PrevIn
  <2>2. cell[a].next = n
    BY <1>1, <1>5, <1>6, <1>7, SinglyAround
  <2> QED
    BY <2>1, <2>2
<1>9. CutAs(cell', a, p, n)
  <2>1. PICK nc : nc = FL!Without({a})
    OBVIOUS
  <2>2. /\ nc = [b \in DOMAIN nc |-> nc[b]] /\ DOMAIN nc = DOMAIN cell \ {a}
        /\ \A b \in DOMAIN nc : nc[b] = cell[b]
    <3>1. LessOf(nc, cell, {a})
      BY <2>1, CellsWithout, Zenon
    <3> QED
      BY <3>1 DEF LessOf
  <2>3. ASSUME NEW b \in DOMAIN nc
        PROVE  nc[b] = [value |-> cell[b].value, next |-> IF b = p THEN n ELSE cell[b].next]
    <3>1. b \in DOMAIN cell /\ b # p
      BY <1>8, <2>2, NullApart DEF Singly
    <3>2. cell[b] = [value |-> cell[b].value, next |-> cell[b].next]
      BY <3>1, CellParts
    <3> QED
      BY <2>2, <3>1, <3>2
  <2> QED
    BY <1>4, <2>1, <2>2, <2>3 DEF CutAs
<1>10. fwd' = FrontCut(l, p, n)
  <2>1. fwd = [m \in Lists |-> fwd[m]]
    BY DEF Singly, Fronts
  <2>2. fwd' = [fwd EXCEPT ![l] = [head |-> n, size |-> fwd[l].size - 1]]
    BY <1>2, <1>4, <1>8, <2>1
  <2>3. FrontCut(l, p, n) = [fwd EXCEPT ![l] = [head |-> n, size |-> fwd[l].size - 1]]
    BY <1>8, <2>1 DEF FrontCut
  <2> QED
    BY <2>2, <2>3
<1>11. k \in 1..Len(P[l]) /\ p = PrevIn(P[l], k) /\ n = NextIn(P[l], k) /\ CutAs(cell', P[l][k], p, n)
  BY <1>1, <1>5, <1>6, <1>7, <1>9
<1>12. \E Q : CutAt(P, Q, l, k)
  BY <1>10, <1>11, CutStep, Zenon
<1> QED
  BY <1>6, <1>11, <1>12

LEMMA EraseAfterStep ==
  ASSUME NEW P, Singly(P, fwd, cell), NEW l \in Lists, NEW i \in 1..Len(P[l]),
         FL!EraseAfter(l, P[l][i])
  PROVE  i + 1 \in 1..Len(P[l]) /\ \E Q : CutAt(P, Q, l, i + 1)
<1>1. PICK w : w = P[l]
  OBVIOUS
<1>2. PICK pos, dead : pos = w[i] /\ dead = cell[pos].next
  OBVIOUS
<1>3. /\ w \in Seq(DOMAIN cell) /\ Len(w) \in Nat /\ i \in 1..Len(w)
      /\ \A j \in 1..Len(w) : w[j] \in DOMAIN cell /\ w[j] # Null /\ cell[w[j]].next = NextIn(w, j)
      /\ \A j, k \in 1..Len(w) : w[j] = w[k] => j = k
  BY <1>1, SinglyAround, SinglyEnds, InHeap DEF Singly
<1>4. /\ dead # Null /\ fwd' = [fwd EXCEPT ![l].size = @ - 1]
      /\ cell' = [FL!Without({dead}) EXCEPT ![pos].next = cell[dead].next]
  BY <1>1, <1>2 DEF FL!EraseAfter
<1>5. dead = NextIn(w, i) /\ i # Len(w)
  BY <1>2, <1>3, <1>4 DEF NextIn
<1>6. PICK k : k = i + 1
  OBVIOUS
<1>7. k \in 1..Len(w) /\ k # 1 /\ k - 1 = i /\ dead = w[k]
  BY <1>3, <1>5, <1>6 DEF NextIn
<1>8. PICK p, n : p = PrevIn(w, k) /\ n = NextIn(w, k)
  OBVIOUS
<1>9. p = pos /\ cell[dead].next = n /\ pos \in DOMAIN cell \ {dead} /\ p # Null
  <2>1. p = pos
    BY <1>2, <1>7, <1>8 DEF PrevIn
  <2>2. cell[dead].next = n
    BY <1>3, <1>7, <1>8
  <2>3. pos # dead
    BY <1>2, <1>3, <1>7
  <2> QED
    BY <1>2, <1>3, <2>1, <2>2, <2>3
<1>10. CutAs(cell', dead, p, n)
  <2>1. PICK kept : kept = FL!Without({dead})
    OBVIOUS
  <2>2. /\ kept = [b \in DOMAIN kept |-> kept[b]] /\ DOMAIN kept = DOMAIN cell \ {dead}
        /\ \A b \in DOMAIN kept : kept[b] = cell[b]
    BY <2>1 DEF FL!Without
  <2>3. PICK nc : nc = cell'
    OBVIOUS
  <2>4. nc = [kept EXCEPT ![pos] = [cell[pos] EXCEPT !.next = n]]
    BY <1>4, <1>9, <2>1, <2>2, <2>3
  <2>5. /\ nc = [b \in DOMAIN nc |-> nc[b]] /\ DOMAIN nc = DOMAIN cell \ {dead}
        /\ nc[pos] = [cell[pos] EXCEPT !.next = n]
        /\ \A b \in DOMAIN nc : b # pos => nc[b] = cell[b]
    BY <1>9, <2>2, <2>4
  <2>6. ASSUME NEW b \in DOMAIN nc
        PROVE  nc[b] = [value |-> cell[b].value, next |-> IF b = p THEN n ELSE cell[b].next]
    <3>1. PICK r : r = cell[b]
      OBVIOUS
    <3>2. r = [value |-> r.value, next |-> r.next]
      BY <2>5, <3>1, CellParts
    <3>3. CASE b = p
      <4>1. nc[b] = [r EXCEPT !.next = n]
        BY <1>9, <2>5, <3>1, <3>3
      <4>2. [r EXCEPT !.next = n] = [value |-> r.value, next |-> n]
        BY <3>2
      <4> QED
        BY <3>1, <3>3, <4>1, <4>2
    <3>4. CASE b # p
      BY <1>9, <2>5, <3>1, <3>2, <3>4
    <3> QED
      BY <3>3, <3>4
  <2> QED
    BY <2>3, <2>5, <2>6 DEF CutAs
<1>11. fwd' = FrontCut(l, p, n)
  <2>1. fwd = [m \in Lists |-> fwd[m]] /\ fwd[l] = [head |-> FirstOf(w), size |-> Len(w)]
    BY <1>1 DEF Singly, Fronts
  <2>2. PICK r : r = fwd[l]
    OBVIOUS
  <2>3. fwd' = [fwd EXCEPT ![l] = [r EXCEPT !.size = r.size - 1]]
    BY <1>4, <2>1, <2>2
  <2>4. [r EXCEPT !.size = r.size - 1] = [head |-> r.head, size |-> r.size - 1]
    BY <2>1, <2>2
  <2>5. FrontCut(l, p, n) = [fwd EXCEPT ![l] = [head |-> r.head, size |-> r.size - 1]]
    BY <1>9, <2>1, <2>2 DEF FrontCut
  <2> QED
    BY <2>3, <2>4, <2>5
<1>12. /\ k \in 1..Len(P[l]) /\ p = PrevIn(P[l], k) /\ n = NextIn(P[l], k)
       /\ CutAs(cell', P[l][k], p, n)
  BY <1>1, <1>7, <1>8, <1>10
<1>13. \E Q : CutAt(P, Q, l, k)
  BY <1>11, <1>12, CutStep, Zenon
<1> QED
  BY <1>6, <1>12, <1>13
-----------------------------------------------------------------------------
LEMMA CellsKept ==
  ASSUME NEW gone, NEW nc, nc = FL!Without(gone)
  PROVE  \A b \in DOMAIN cell \ gone : nc[b].value = cell[b].value
BY DEF FL!Without

LEMMA ForwardClearStep ==
  ASSUME NEW P, Singly(P, fwd, cell), NEW l \in Lists, FL!Clear(l)
  PROVE  \E Q : Singly(Q, fwd', cell') /\ Empties(P, cell, Q, cell', l)
<1>1. cell' = FL!Without(NodesIn(P[l])) /\ fwd' = [fwd EXCEPT ![l] = FL!NoNodes]
  BY SinglyReached DEF FL!Clear
<1>2. PICK Q : Q = [P EXCEPT ![l] = <<>>]
  OBVIOUS
<1>3. PICK nc, fs : nc = cell' /\ fs = fwd'
  OBVIOUS
<1>4. nc = FL!Without(NodesIn(P[l])) /\ fs = [fwd EXCEPT ![l] = FL!NoNodes]
  BY <1>1, <1>3
<1>5. Singly(Q, fs, nc)
  BY <1>2, <1>4, ForwardClearKeeps, Zenon
<1>6. \A b \in DOMAIN cell \ NodesIn(P[l]) : nc[b].value = cell[b].value
  BY <1>4, CellsKept, Zenon
<1> QED
  BY <1>2, <1>3, <1>5, <1>6 DEF Empties

LEMMA ForwardMoveStep ==
  ASSUME NEW P, Singly(P, fwd, cell), NEW d \in Lists, NEW s \in Lists, FL!MoveAssign(d, s)
  PROVE  d # s /\ \E Q : Singly(Q, fwd', cell') /\ Hands(P, cell, Q, cell', d, s)
<1>1. /\ d # s /\ cell' = FL!Without(NodesIn(P[d]))
      /\ fwd' = [fwd EXCEPT ![d] = fwd[s], ![s] = FL!NoNodes]
  BY SinglyReached DEF FL!MoveAssign
<1>2. PICK Q : Q = [P EXCEPT ![d] = P[s], ![s] = <<>>]
  OBVIOUS
<1>3. PICK nc, fs : nc = cell' /\ fs = fwd'
  OBVIOUS
<1>4. nc = FL!Without(NodesIn(P[d])) /\ fs = [fwd EXCEPT ![d] = fwd[s], ![s] = FL!NoNodes]
  BY <1>1, <1>3
<1>5. Singly(Q, fs, nc)
  BY <1>1, <1>2, <1>4, ForwardMoveKeeps
<1>6. \A b \in DOMAIN cell \ NodesIn(P[d]) : nc[b].value = cell[b].value
  BY <1>4, CellsKept, Zenon
<1> QED
  BY <1>1, <1>2, <1>3, <1>5, <1>6 DEF Hands

ForwardCopiesInto(d, w, kept, n) ==
  \E f \in FL!Injection(1..n, Addresses \ DOMAIN kept) :
    cell' = CellsCopied(kept, w, f, n) /\ fwd' = FrontCopied(d, f, n)

LEMMA ForwardCopyIs ==
  ASSUME NEW d \in Lists, NEW s \in Lists, FL!CopyAssign(d, s)
  PROVE  /\ d # s
         /\ ForwardCopiesInto(d, FL!Walk(s), FL!Without(FL!Reached(d)), Len(FL!Walk(s)))
BY DEF FL!CopyAssign, ForwardCopiesInto, CellsCopied, FrontCopied

LEMMA ForwardCopyStep ==
  ASSUME NEW P, Singly(P, fwd, cell), NEW d \in Lists, NEW s \in Lists, FL!CopyAssign(d, s)
  PROVE  d # s /\ \E Q : Singly(Q, fwd', cell') /\ Copies(P, cell, Q, cell', d, s)
<1>1. PICK w, n, kept : w = P[s] /\ n = Len(w) /\ kept = FL!Without(NodesIn(P[d]))
  OBVIOUS
<1>2. FL!Walk(s) = w /\ FL!Reached(d) = NodesIn(P[d])
  BY <1>1, SinglyReached
<1>3. d # s /\ ForwardCopiesInto(d, w, kept, n)
  BY <1>1, <1>2, ForwardCopyIs
<1>4. PICK f \in Injection(1..n, Addresses \ DOMAIN kept) :
        cell' = CellsCopied(kept, w, f, n) /\ fwd' = FrontCopied(d, f, n)
  <2>1. FL!Injection(1..n, Addresses \ DOMAIN kept) = Injection(1..n, Addresses \ DOMAIN kept)
    BY InjectionsSame
  <2> QED
    BY <1>3, <2>1 DEF ForwardCopiesInto
<1>5. PICK Q : Q = [P EXCEPT ![d] = f]
  OBVIOUS
<1>6. PICK nc, fs : nc = cell' /\ fs = fwd'
  OBVIOUS
<1>7. nc = CellsCopied(kept, w, f, n) /\ fs = FrontCopied(d, f, n)
  BY <1>4, <1>6
<1>8. Singly(Q, fs, nc) /\ \A k \in 1..n : nc[f[k]].value = cell[w[k]].value
  <2>1. ForwardCopyMakes(P, d, s, w, n, kept, f, Q, nc, fs)
    BY <1>1, <1>5, <1>7 DEF ForwardCopyMakes
  <2>2. Singly(Q, fs, nc) /\ CellsHaveValues(nc, f, w, n)
    BY <1>3, <2>1, ForwardCopyKeeps, Zenon
  <2> QED
    BY <2>2 DEF CellsHaveValues
<1>9. /\ DOMAIN kept = DOMAIN cell \ NodesIn(P[d])
      /\ \A b \in DOMAIN kept : kept[b] = cell[b]
  BY <1>1 DEF FL!Without
<1>10. \A b \in DOMAIN kept : nc[b] = kept[b]
  BY <1>7 DEF CellsCopied
<1>11. Copies(P, cell, Q, nc, d, s)
  <2>1. f \in Injection(1..Len(P[s]), Addresses \ (DOMAIN cell \ NodesIn(P[d])))
    BY <1>1, <1>9
  <2>2. \A k \in 1..Len(P[s]) : nc[f[k]].value = cell[P[s][k]].value
    BY <1>1, <1>8
  <2>3. \A b \in DOMAIN cell \ NodesIn(P[d]) : nc[b].value = cell[b].value
    BY <1>9, <1>10
  <2> QED
    BY <1>5, <2>1, <2>2, <2>3 DEF Copies
<1> QED
  BY <1>3, <1>6, <1>8, <1>11

LEMMA SinglyNext ==
  ASSUME NEW P, Singly(P, fwd, cell), FL!Next
  PROVE  \E Q : Singly(Q, fwd', cell') /\ Turns(P, cell, Q, cell')
<1>1. PICK l \in Lists :
        \/ \E v \in ListValues : \/ FL!EmplaceFront(l, v)
                                 \/ \E pos \in FL!Reached(l) : FL!InsertAfter(l, pos, v)
        \/ FL!PopFront(l)
        \/ \E pos \in FL!Reached(l) : FL!EraseAfter(l, pos)
        \/ FL!Clear(l)
        \/ \E s \in Lists : FL!MoveAssign(l, s) \/ FL!CopyAssign(l, s)
  BY DEF FL!Next
<1>2. Len(P[l]) \in Nat
  BY SinglyEnds
<1>3. ASSUME NEW v \in ListValues, NEW k \in 1..(Len(P[l]) + 1), \E Q : EnteredAt(P, Q, l, k, v)
      PROVE  \E Q : Singly(Q, fwd', cell') /\ Turns(P, cell, Q, cell')
  BY <1>3 DEF EnteredAt, Turns
<1>4. ASSUME NEW k \in 1..Len(P[l]), \E Q : CutAt(P, Q, l, k)
      PROVE  \E Q : Singly(Q, fwd', cell') /\ Turns(P, cell, Q, cell')
  BY <1>4 DEF CutAt, Turns
<1>5. FL!Reached(l) = {P[l][i] : i \in 1..Len(P[l])}
  BY SinglyReached DEF NodesIn
<1>6. CASE \E v \in ListValues : FL!EmplaceFront(l, v)
  <2>1. 1 \in 1..(Len(P[l]) + 1)
    BY <1>2
  <2> QED
    BY <1>3, <1>6, <2>1, ForwardFrontStep
<1>7. CASE \E v \in ListValues : \E pos \in FL!Reached(l) : FL!InsertAfter(l, pos, v)
  <2>1. PICK v \in ListValues : \E pos \in FL!Reached(l) : FL!InsertAfter(l, pos, v)
    BY <1>7
  <2>2. PICK pos \in FL!Reached(l) : FL!InsertAfter(l, pos, v)
    BY <2>1
  <2>3. PICK i \in 1..Len(P[l]) : pos = P[l][i]
    BY <1>5
  <2>4. FL!InsertAfter(l, P[l][i], v)
    BY <2>2, <2>3
  <2> QED
    BY <1>3, <2>4, InsertAfterStep
<1>8. CASE FL!PopFront(l)
  BY <1>4, <1>8, ForwardPopStep
<1>9. CASE \E pos \in FL!Reached(l) : FL!EraseAfter(l, pos)
  <2>1. PICK pos \in FL!Reached(l) : FL!EraseAfter(l, pos)
    BY <1>9
  <2>2. PICK i \in 1..Len(P[l]) : pos = P[l][i]
    BY <1>5
  <2>3. FL!EraseAfter(l, P[l][i])
    BY <2>1, <2>2
  <2> QED
    BY <1>4, <2>3, EraseAfterStep
<1>10. CASE FL!Clear(l)
  BY <1>10, ForwardClearStep DEF Turns
<1>11. CASE \E s \in Lists : FL!MoveAssign(l, s)
  <2>1. PICK s \in Lists : FL!MoveAssign(l, s)
    BY <1>11
  <2>2. s \in Lists \ {l} /\ \E Q : Singly(Q, fwd', cell') /\ Hands(P, cell, Q, cell', l, s)
    BY <2>1, ForwardMoveStep
  <2> QED
    BY <2>2 DEF Turns
<1>12. CASE \E s \in Lists : FL!CopyAssign(l, s)
  <2>1. PICK s \in Lists : FL!CopyAssign(l, s)
    BY <1>12
  <2>2. s \in Lists \ {l} /\ \E Q : Singly(Q, fwd', cell') /\ Copies(P, cell, Q, cell', l, s)
    BY <2>1, ForwardCopyStep
  <2> QED
    BY <2>2 DEF Turns
<1> QED
  BY <1>1, <1>6, <1>7, <1>8, <1>9, <1>10, <1>11, <1>12

LEMMA SinglyOwned ==
  ASSUME NEW P, Singly(P, fwd, cell)
  PROVE  FL!NodesOwnedOnce
<1>1. \A l \in Lists : /\ FL!Walk(l) = P[l] /\ FL!Reached(l) = NodesIn(P[l])
                       /\ Len(P[l]) \in Nat /\ P[l] \in Seq(DOMAIN cell)
                       /\ fwd[l].size = Len(P[l]) /\ fwd[l].head = FirstOf(P[l])
  BY SinglyReached, SinglyEnds
<1>2. Heap(P, DOMAIN cell)
  BY DEF Singly
<1>3. \A a \in DOMAIN cell : \E l \in Lists : a \in FL!Reached(l)
  BY <1>1, <1>2 DEF Heap, Covers, NodesIn
<1>4. \A l, m \in Lists : l # m => FL!Reached(l) \cap FL!Reached(m) = {}
  <2> SUFFICES ASSUME NEW l \in Lists, NEW m \in Lists, l # m, NEW i \in 1..Len(P[l]),
                      NEW j \in 1..Len(P[m]), P[l][i] = P[m][j]
               PROVE  FALSE
    BY <1>1 DEF NodesIn
  <2> QED
    BY <1>2, InHeap
<1>5. \A l \in Lists : fwd[l].size = FL!Cardinality(FL!Reached(l))
  BY <1>1, <1>2, CountsSame, ListFits
<1>6. ASSUME NEW l \in Lists, fwd[l].head # Null
      PROVE  cell[FL!Last(FL!Walk(l))].next = Null
  <2>1. PICK w : w = P[l]
    OBVIOUS
  <2>2. w # <<>> /\ Len(w) \in 1..Len(w)
    BY <1>1, <1>6, <2>1 DEF FirstOf
  <2>3. cell[w[Len(w)]].next = Null
    BY <2>1, <2>2, SinglyAround DEF NextIn
  <2> QED
    BY <1>1, <2>1, <2>3 DEF FL!Last
<1> QED
  BY <1>3, <1>4, <1>5, <1>6 DEF FL!NodesOwnedOnce

LEMMA SinglyTyped == ASSUME NEW P, Singly(P, fwd, cell) PROVE FL!TypeOK
<1>1. Heap(P, DOMAIN cell)
  BY DEF Singly
<1>2. ASSUME NEW w \in Seq(Addresses), NEW k \in 1..Len(w) PROVE NextIn(w, k) \in FL!Link
  BY DEF NextIn, FL!Link
<1>3. \A l \in Lists : P[l] \in Seq(Addresses)
  BY <1>1 DEF Heap
<1>4. fwd \in [Lists -> [head : FL!Link, size : Nat]]
  <2>1. \A l \in Lists : FirstOf(P[l]) \in FL!Link /\ Len(P[l]) \in Nat
    BY <1>3 DEF FirstOf, FL!Link
  <2> QED
    BY <2>1 DEF Singly, Fronts
<1>5. ASSUME NEW a \in DOMAIN cell PROVE cell[a] \in [value : ListValues, next : FL!Link]
  <2>1. PICK l \in Lists : \E i \in 1..Len(P[l]) : P[l][i] = a
    BY <1>1 DEF Heap, Covers
  <2>2. PICK i \in 1..Len(P[l]) : P[l][i] = a
    BY <2>1
  <2>3. cell[a].next \in FL!Link
    BY <1>2, <1>3, <2>2, SinglyAround
  <2>4. cell[a].value \in ListValues
    BY DEF Singly, Onward
  <2>5. cell[a] = [value |-> cell[a].value, next |-> cell[a].next]
    BY CellParts
  <2> QED
    BY <2>3, <2>4, <2>5
<1> QED
  BY <1>1, <1>4, <1>5 DEF FL!TypeOK, Heap

LEMMA DoublyTyped == ASSUME NEW P, Doubly(P, lst, node) PROVE DL!TypeOK
<1>1. Heap(P, DOMAIN node)
  BY DEF Doubly
<1>2. ASSUME NEW w \in Seq(Addresses), NEW k \in 1..Len(w)
      PROVE  NextIn(w, k) \in DL!Link /\ PrevIn(w, k) \in DL!Link
  BY DEF NextIn, PrevIn, DL!Link
<1>3. \A l \in Lists : P[l] \in Seq(Addresses)
  BY <1>1 DEF Heap
<1>4. lst \in [Lists -> [head : DL!Link, tail : DL!Link, size : Nat]]
  <2>1. ASSUME NEW l \in Lists
        PROVE  FirstOf(P[l]) \in DL!Link /\ LastOf(P[l]) \in DL!Link /\ Len(P[l]) \in Nat
    <3>1. PICK w \in Seq(Addresses) : w = P[l]
      BY <1>3
    <3>2. w # <<>> => Len(w) \in 1..Len(w)
      OBVIOUS
    <3> QED
      BY <3>1, <3>2 DEF FirstOf, LastOf, DL!Link
  <2> QED
    BY <2>1 DEF Doubly, Ends
<1>5. ASSUME NEW a \in DOMAIN node
      PROVE  node[a] \in [value : ListValues, prev : DL!Link, next : DL!Link]
  <2>1. PICK l \in Lists : \E i \in 1..Len(P[l]) : P[l][i] = a
    BY <1>1 DEF Heap, Covers
  <2>2. PICK i \in 1..Len(P[l]) : P[l][i] = a
    BY <2>1
  <2>3. node[a].next \in DL!Link /\ node[a].prev \in DL!Link
    BY <1>2, <1>3, <2>2, DoublyAround
  <2>4. node[a].value \in ListValues
    BY DEF Doubly, Linked
  <2>5. node[a] = [value |-> node[a].value, prev |-> node[a].prev, next |-> node[a].next]
    BY NodeParts
  <2> QED
    BY <2>3, <2>4, <2>5
<1> QED
  BY <1>1, <1>4, <1>5 DEF DL!TypeOK, Heap

SinglyInv == \E P : Singly(P, fwd, cell)

LEMMA DoublyKept == DoublyInv /\ [DL!Next]_DL!vars => DoublyInv'
<1> SUFFICES ASSUME DoublyInv, [DL!Next]_DL!vars
             PROVE  DoublyInv'
  OBVIOUS
<1>1. PICK P : Doubly(P, lst, node)
  BY DEF DoublyInv
<1>2. \E Q : Doubly(Q, lst', node')
  <2>1. CASE DL!Next
    BY <1>1, <2>1, DoublyNext
  <2>2. CASE UNCHANGED DL!vars
    BY <1>1, <2>2 DEF DL!vars
  <2> QED
    BY <2>1, <2>2
<1> QED
  BY <1>2 DEF DoublyInv

LEMMA SinglyKept == SinglyInv /\ [FL!Next]_FL!vars => SinglyInv'
<1> SUFFICES ASSUME SinglyInv, [FL!Next]_FL!vars
             PROVE  SinglyInv'
  OBVIOUS
<1>1. PICK P : Singly(P, fwd, cell)
  BY DEF SinglyInv
<1>2. \E Q : Singly(Q, fwd', cell')
  <2>1. CASE FL!Next
    BY <1>1, <2>1, SinglyNext
  <2>2. CASE UNCHANGED FL!vars
    BY <1>1, <2>2 DEF FL!vars
  <2> QED
    BY <2>1, <2>2
<1> QED
  BY <1>2 DEF SinglyInv

(* list and forward_list own each node once and link it as their kind does,  *)
(* whatever calls are made of them and whatever addresses new returns.       *)
THEOREM ListsOwnOnce == DL!Spec /\ FL!Spec => []OwnedOnce
<1>1. DL!Init /\ FL!Init => DoublyInv /\ SinglyInv
  BY DoublyInit, SinglyInit DEF DoublyInv, SinglyInv
<1>2. DoublyInv /\ SinglyInv /\ [DL!Next]_DL!vars /\ [FL!Next]_FL!vars
      => (DoublyInv /\ SinglyInv)'
  BY DoublyKept, SinglyKept
<1>3. DoublyInv /\ SinglyInv => OwnedOnce
  BY DoublyOwned, DoublyMirrored, SinglyOwned DEF DoublyInv, SinglyInv, OwnedOnce
<1> QED
  BY <1>1, <1>2, <1>3, PTL DEF DL!Spec, FL!Spec

(* Heads, tails, counts and nodes of both keep their types: no link and no   *)
(* end names anything but an address or the null pointer.                    *)
THEOREM ListsTyped == DL!Spec /\ FL!Spec => [](DL!TypeOK /\ FL!TypeOK)
<1>1. DL!Init /\ FL!Init => DoublyInv /\ SinglyInv
  BY DoublyInit, SinglyInit DEF DoublyInv, SinglyInv
<1>2. DoublyInv /\ SinglyInv /\ [DL!Next]_DL!vars /\ [FL!Next]_FL!vars
      => (DoublyInv /\ SinglyInv)'
  BY DoublyKept, SinglyKept
<1>3. DoublyInv /\ SinglyInv => DL!TypeOK /\ FL!TypeOK
  BY DoublyTyped, SinglyTyped DEF DoublyInv, SinglyInv
<1> QED
  BY <1>1, <1>2, <1>3, PTL DEF DL!Spec, FL!Spec
-----------------------------------------------------------------------------
(* What a caller sees: of each list, its elements with their identity and    *)
(* value; and what the calls of ListSpec make of it.                         *)
ElementsOf(p, nd) == [k \in 1..Len(p) |-> [id |-> p[k], value |-> nd[p[k]].value]]
ContentOf(P, nd) == [l \in Lists |-> ElementsOf(P[l], nd)]
UsedIn(c) == UNION {{c[l][k].id : k \in DOMAIN c[l]} : l \in Lists}

InsertTo(c, d, l, i, v) ==
  \E f \in Addresses \ UsedIn(c) :
    d = [c EXCEPT ![l] = InsertedAt(c[l], i, [id |-> f, value |-> v])]
EraseTo(c, d, l, i) == d = [c EXCEPT ![l] = RemovedAt(c[l], i)]
ClearTo(c, d, l) == d = [c EXCEPT ![l] = <<>>]
MoveTo(c, d, l, s) == d = [c EXCEPT ![l] = c[s], ![s] = <<>>]
CopyTo(c, d, l, s) ==
  \E f \in Injection(DOMAIN c[s], Addresses \ UsedIn([c EXCEPT ![l] = <<>>])) :
    d = [c EXCEPT ![l] = [k \in DOMAIN c[s] |-> [id |-> f[k], value |-> c[s][k].value]]]

(* e is the nodes p with their values in nd.                                 *)
Shows(e, p, nd) ==
  /\ e = [k \in 1..Len(p) |-> e[k]] /\ DOMAIN e = 1..Len(p) /\ Len(e) = Len(p)
  /\ \A k \in 1..Len(p) : /\ e[k] = [id |-> p[k], value |-> nd[p[k]].value]
                          /\ e[k].id = p[k] /\ e[k].value = nd[p[k]].value
  /\ e \in Seq({e[k] : k \in 1..Len(p)})

LEMMA ElementsParts ==
  ASSUME NEW D, NEW p \in Seq(D), NEW nd, NEW e, e = ElementsOf(p, nd)
  PROVE  Len(p) \in Nat /\ Shows(e, p, nd)
<1>1. Len(p) \in Nat
  OBVIOUS
<1>2. e = [k \in 1..Len(p) |-> e[k]] /\ DOMAIN e = 1..Len(p)
  BY DEF ElementsOf
<1>3. \A k \in 1..Len(p) : e[k] = [id |-> p[k], value |-> nd[p[k]].value]
  BY DEF ElementsOf
<1>4. ASSUME NEW k \in 1..Len(p) PROVE e[k].id = p[k] /\ e[k].value = nd[p[k]].value
  <2>1. PICK x, y : x = p[k] /\ y = nd[p[k]].value
    OBVIOUS
  <2>2. e[k] = [id |-> x, value |-> y]
    BY <1>3, <2>1
  <2> QED
    BY <2>1, <2>2
<1>5. PICK S : S = {e[k] : k \in 1..Len(p)}
  OBVIOUS
<1>6. PICK n \in Nat : n = Len(p)
  BY <1>1
<1>7. \A k \in 1..n : e[k] \in S
  BY <1>5, <1>6
<1>8. e = [k \in 1..n |-> e[k]]
  BY <1>2, <1>6
<1>9. e \in Seq(S) /\ Len(e) = n
  <2>1. PICK f : f = e
    OBVIOUS
  <2>2. f = [k \in 1..n |-> f[k]] /\ \A k \in 1..n : f[k] \in S
    BY <1>7, <1>8, <2>1, Zenon
  <2>3. f \in Seq(S) /\ Len(f) = n
    BY <2>2, FunctionIsSeq
  <2> QED
    BY <2>1, <2>3
<1> QED
  BY <1>1, <1>2, <1>3, <1>4, <1>5, <1>6, <1>9 DEF Shows

LEMMA ElementsOfNone == ASSUME NEW nd PROVE ElementsOf(<<>>, nd) = <<>>
BY DEF ElementsOf

(* The identities in use are the addresses on the heap.                      *)
LEMMA UsedIs ==
  ASSUME NEW P, NEW D, Heap(P, D), NEW nd
  PROVE  UsedIn(ContentOf(P, nd)) = D
<1>1. PICK c : c = ContentOf(P, nd)
  OBVIOUS
<1>2. ASSUME NEW l \in Lists
      PROVE  DOMAIN c[l] = 1..Len(P[l]) /\ \A k \in 1..Len(P[l]) : c[l][k].id = P[l][k]
  <2>1. P[l] \in Seq(D) /\ c[l] = ElementsOf(P[l], nd)
    BY <1>1 DEF Heap, ContentOf
  <2>2. Shows(c[l], P[l], nd)
    BY <2>1, ElementsParts, Zenon
  <2> QED
    BY <2>2 DEF Shows
<1>3. ASSUME NEW a \in D PROVE a \in UsedIn(c)
  <2>1. PICK l \in Lists : \E i \in 1..Len(P[l]) : P[l][i] = a
    BY DEF Heap, Covers
  <2>2. PICK i \in 1..Len(P[l]) : P[l][i] = a
    BY <2>1
  <2>3. i \in DOMAIN c[l] /\ c[l][i].id = a
    BY <1>2, <2>2
  <2>4. a \in {c[l][k].id : k \in DOMAIN c[l]}
    BY <2>3
  <2> QED
    BY <2>4 DEF UsedIn
<1>4. ASSUME NEW a \in UsedIn(c) PROVE a \in D
  <2>1. PICK l \in Lists : a \in {c[l][k].id : k \in DOMAIN c[l]}
    BY DEF UsedIn
  <2>2. PICK k \in DOMAIN c[l] : a = c[l][k].id
    BY <2>1
  <2> QED
    BY <1>2, <2>2, InHeap
<1> QED
  BY <1>1, <1>3, <1>4

LEMMA ContentParts ==
  ASSUME NEW P, NEW nd, NEW c, c = ContentOf(P, nd)
  PROVE  c = [l \in Lists |-> c[l]] /\ \A l \in Lists : c[l] = ElementsOf(P[l], nd)
BY DEF ContentOf

(* Lists whose nodes and values a call leaves alone look as before.          *)
LEMMA SameElements ==
  ASSUME NEW D, NEW p \in Seq(D), NEW nd, NEW ne,
         \A k \in 1..Len(p) : ne[p[k]].value = nd[p[k]].value
  PROVE  ElementsOf(p, ne) = ElementsOf(p, nd)
BY DEF ElementsOf

LEMMA InsertsSeen ==
  ASSUME NEW P, NEW nd, Heap(P, DOMAIN nd), NEW Q, NEW ne, NEW l \in Lists,
         NEW k \in 1..(Len(P[l]) + 1), NEW v, Inserts(P, nd, Q, ne, l, k, v),
         NEW c, c = ContentOf(P, nd), NEW d, d = ContentOf(Q, ne)
  PROVE  InsertTo(c, d, l, k, v)
<1>1. PICK a \in Addresses \ DOMAIN nd :
        /\ Q = [P EXCEPT ![l] = InsertedAt(P[l], k, a)]
        /\ ne[a].value = v /\ \A b \in DOMAIN nd : ne[b].value = nd[b].value
  BY DEF Inserts
<1>2. PICK p, q : p = P[l] /\ q = InsertedAt(p, k, a)
  OBVIOUS
<1>3. Q[l] = q /\ \A m \in Lists : m # l => Q[m] = P[m]
  BY <1>1, <1>2 DEF Heap
<1>4. PICK n \in Nat : n = Len(p)
  BY <1>2, InHeap
<1>5. p \in Seq(DOMAIN nd) /\ k \in 1..(n + 1) /\ \A i \in 1..n : p[i] \in DOMAIN nd
  BY <1>2, <1>4, InHeap
<1>6. /\ q \in Seq(DOMAIN nd \cup {a}) /\ Len(q) = n + 1
      /\ \A i \in 1..(n + 1) : q[i] = IF i < k THEN p[i] ELSE IF i = k THEN a ELSE p[i - 1]
  <2>1. p \in Seq(DOMAIN nd) /\ k \in 1..(Len(p) + 1)
    BY <1>4, <1>5
  <2>2. AroundNew(DOMAIN nd, p, k, a, q)
    BY <1>2, <2>1, NeighboursAfterInsertion, Zenon
  <2>3. q \in Seq(DOMAIN nd \cup {a}) /\ Len(q) = Len(p) + 1
    BY <2>2 DEF AroundNew
  <2> QED
    BY <1>2, <1>4, <2>3 DEF InsertedAt
<1>7. PICK e, f, r : e = ElementsOf(p, nd) /\ f = ElementsOf(q, ne) /\ r = [id |-> a, value |-> v]
  OBVIOUS
<1>8. /\ e = [i \in 1..n |-> e[i]] /\ Len(e) = n
      /\ \A i \in 1..n : e[i] = [id |-> p[i], value |-> nd[p[i]].value]
  <2>1. Shows(e, p, nd)
    BY <1>5, <1>7, ElementsParts, Zenon
  <2> QED
    BY <1>4, <2>1 DEF Shows
<1>9. /\ f = [i \in 1..(n + 1) |-> f[i]]
      /\ \A i \in 1..(n + 1) : f[i] = [id |-> q[i], value |-> ne[q[i]].value]
  <2>1. Shows(f, q, ne)
    BY <1>6, <1>7, ElementsParts, Zenon
  <2> QED
    BY <1>6, <2>1 DEF Shows
<1>10. ASSUME NEW i \in 1..(n + 1)
       PROVE  f[i] = IF i < k THEN e[i] ELSE IF i = k THEN r ELSE e[i - 1]
  <2>1. CASE i < k
    <3>1. i \in 1..n /\ q[i] = p[i]
      BY <1>5, <1>6, <2>1
    <3>2. ne[p[i]].value = nd[p[i]].value
      BY <1>1, <1>5, <3>1
    <3> QED
      BY <1>8, <1>9, <2>1, <3>1, <3>2
  <2>2. CASE i = k
    BY <1>1, <1>6, <1>7, <1>9, <2>2
  <2>3. CASE i > k
    <3>1. i - 1 \in 1..n /\ q[i] = p[i - 1]
      BY <1>5, <1>6, <2>3
    <3>2. ne[p[i - 1]].value = nd[p[i - 1]].value
      BY <1>1, <1>5, <3>1
    <3> QED
      BY <1>5, <1>8, <1>9, <2>3, <3>1, <3>2
  <2> QED
    BY <1>5, <2>1, <2>2, <2>3
<1>11. f = InsertedAt(e, k, r)
  BY <1>8, <1>9, <1>10 DEF InsertedAt
<1>12. c[l] = e /\ d[l] = f /\ c = [m \in Lists |-> c[m]] /\ d = [m \in Lists |-> d[m]]
  BY <1>2, <1>3, <1>7, ContentParts
<1>13. ASSUME NEW m \in Lists, m # l PROVE d[m] = c[m]
  <2>1. c[m] = ElementsOf(P[m], nd) /\ d[m] = ElementsOf(P[m], ne)
    BY <1>3, <1>13, ContentParts
  <2>2. P[m] \in Seq(DOMAIN nd) /\ \A i \in 1..Len(P[m]) : ne[P[m][i]].value = nd[P[m][i]].value
    BY <1>1, InHeap
  <2> QED
    BY <2>1, <2>2, SameElements
<1>14. d = [c EXCEPT ![l] = InsertedAt(c[l], k, r)]
  BY <1>11, <1>12, <1>13
<1>15. a \in Addresses \ UsedIn(c)
  BY <1>1, UsedIs
<1> QED
  BY <1>7, <1>14, <1>15 DEF InsertTo

LEMMA RemovesSeen ==
  ASSUME NEW P, NEW nd, Heap(P, DOMAIN nd), NEW Q, NEW ne, NEW l \in Lists,
         NEW k \in 1..Len(P[l]), Removes(P, nd, Q, ne, l, k),
         NEW c, c = ContentOf(P, nd), NEW d, d = ContentOf(Q, ne)
  PROVE  EraseTo(c, d, l, k)
<1>1. /\ Q = [P EXCEPT ![l] = RemovedAt(P[l], k)]
      /\ \A b \in DOMAIN nd \ {P[l][k]} : ne[b].value = nd[b].value
  BY DEF Removes
<1>2. PICK p, q : p = P[l] /\ q = RemovedAt(p, k)
  OBVIOUS
<1>3. Q[l] = q /\ \A m \in Lists : m # l => Q[m] = P[m]
  BY <1>1, <1>2 DEF Heap
<1>4. PICK n \in Nat : n = Len(p)
  BY <1>2, InHeap
<1>5. /\ p \in Seq(DOMAIN nd) /\ k \in 1..n
      /\ \A i \in 1..n : p[i] \in DOMAIN nd /\ (i # k => ne[p[i]].value = nd[p[i]].value)
  BY <1>1, <1>2, <1>4, InHeap
<1>6. /\ q \in Seq(DOMAIN nd) /\ Len(q) = n - 1
      /\ \A i \in 1..(n - 1) : q[i] = IF i < k THEN p[i] ELSE p[i + 1]
  <2>1. \A i \in 1..(n - 1) : q[i] = IF i < k THEN p[i] ELSE p[i + 1]
    BY <1>2, <1>4 DEF RemovedAt
  <2>2. q = [i \in 1..(n - 1) |-> q[i]]
    BY <1>2, <1>4 DEF RemovedAt
  <2>3. PICK c1 \in Nat : c1 = n - 1
    BY <1>5
  <2>4. \A i \in 1..c1 : q[i] \in DOMAIN nd
    BY <1>5, <2>1, <2>3
  <2>5. q = [i \in 1..c1 |-> q[i]]
    BY <2>2, <2>3
  <2>6. q \in Seq(DOMAIN nd) /\ Len(q) = c1
    BY <2>4, <2>5, FunctionIsSeq, ZenonT(40)
  <2> QED
    BY <2>1, <2>3, <2>6
<1>7. PICK e, f : e = ElementsOf(p, nd) /\ f = ElementsOf(q, ne)
  OBVIOUS
<1>8. /\ e = [i \in 1..n |-> e[i]] /\ Len(e) = n
      /\ \A i \in 1..n : e[i] = [id |-> p[i], value |-> nd[p[i]].value]
  <2>1. Shows(e, p, nd)
    BY <1>5, <1>7, ElementsParts, Zenon
  <2> QED
    BY <1>4, <2>1 DEF Shows
<1>9. /\ f = [i \in 1..(n - 1) |-> f[i]]
      /\ \A i \in 1..(n - 1) : f[i] = [id |-> q[i], value |-> ne[q[i]].value]
  <2>1. Shows(f, q, ne)
    BY <1>6, <1>7, ElementsParts, Zenon
  <2> QED
    BY <1>6, <2>1 DEF Shows
<1>10. ASSUME NEW i \in 1..(n - 1)
       PROVE  f[i] = IF i < k THEN e[i] ELSE e[i + 1]
  <2>1. CASE i < k
    <3>1. i \in 1..n /\ i # k /\ q[i] = p[i]
      BY <1>5, <1>6, <2>1
    <3>2. ne[p[i]].value = nd[p[i]].value
      BY <1>5, <3>1
    <3> QED
      BY <1>8, <1>9, <2>1, <3>1, <3>2
  <2>2. CASE i >= k
    <3>1. i + 1 \in 1..n /\ i + 1 # k /\ q[i] = p[i + 1]
      BY <1>5, <1>6, <2>2
    <3>2. ne[p[i + 1]].value = nd[p[i + 1]].value
      BY <1>5, <3>1
    <3>3. ~(i < k)
      BY <1>5, <2>2
    <3> QED
      BY <1>8, <1>9, <3>1, <3>2, <3>3
  <2> QED
    BY <1>5, <2>1, <2>2
<1>11. f = RemovedAt(e, k)
  BY <1>8, <1>9, <1>10 DEF RemovedAt
<1>12. c[l] = e /\ d[l] = f /\ c = [m \in Lists |-> c[m]] /\ d = [m \in Lists |-> d[m]]
  BY <1>2, <1>3, <1>7, ContentParts
<1>13. ASSUME NEW m \in Lists, m # l PROVE d[m] = c[m]
  <2>1. c[m] = ElementsOf(P[m], nd) /\ d[m] = ElementsOf(P[m], ne)
    BY <1>3, <1>13, ContentParts
  <2>2. P[m] \in Seq(DOMAIN nd) /\ \A i \in 1..Len(P[m]) : P[m][i] \in DOMAIN nd /\ P[m][i] # P[l][k]
    BY <1>13, InHeap
  <2>3. \A i \in 1..Len(P[m]) : ne[P[m][i]].value = nd[P[m][i]].value
    BY <1>1, <2>2
  <2> QED
    BY <2>1, <2>2, <2>3, SameElements
<1>14. d = [c EXCEPT ![l] = RemovedAt(c[l], k)]
  BY <1>11, <1>12, <1>13
<1> QED
  BY <1>14 DEF EraseTo

(* When the nodes of list l go, the other lists look as before.              *)
LEMMA OthersSame ==
  ASSUME NEW P, NEW nd, Heap(P, DOMAIN nd), NEW ne, NEW l \in Lists,
         \A b \in DOMAIN nd \ NodesIn(P[l]) : ne[b].value = nd[b].value,
         NEW m \in Lists, m # l
  PROVE  ElementsOf(P[m], ne) = ElementsOf(P[m], nd)
<1>1. P[m] \in Seq(DOMAIN nd) /\ \A i \in 1..Len(P[m]) : P[m][i] \in DOMAIN nd \ NodesIn(P[l])
  BY InHeap DEF NodesIn
<1>2. \A i \in 1..Len(P[m]) : ne[P[m][i]].value = nd[P[m][i]].value
  BY <1>1
<1> QED
  BY <1>1, <1>2, SameElements

LEMMA EmptiesSeen ==
  ASSUME NEW P, NEW nd, Heap(P, DOMAIN nd), NEW Q, NEW ne, NEW l \in Lists,
         Empties(P, nd, Q, ne, l),
         NEW c, c = ContentOf(P, nd), NEW d, d = ContentOf(Q, ne)
  PROVE  ClearTo(c, d, l)
<1>1. /\ Q = [P EXCEPT ![l] = <<>>]
      /\ \A b \in DOMAIN nd \ NodesIn(P[l]) : ne[b].value = nd[b].value
  BY DEF Empties
<1>2. Q[l] = <<>> /\ \A m \in Lists : m # l => Q[m] = P[m]
  BY <1>1 DEF Heap
<1>3. /\ c = [m \in Lists |-> c[m]] /\ \A m \in Lists : c[m] = ElementsOf(P[m], nd)
      /\ d = [m \in Lists |-> d[m]] /\ \A m \in Lists : d[m] = ElementsOf(Q[m], ne)
  BY ContentParts
<1>4. \A m \in Lists : m # l => ElementsOf(P[m], ne) = ElementsOf(P[m], nd)
  BY <1>1, OthersSame
<1>5. d[l] = <<>> /\ \A m \in Lists : m # l => d[m] = c[m]
  BY <1>2, <1>3, <1>4, ElementsOfNone
<1> QED
  BY <1>3, <1>5 DEF ClearTo

LEMMA HandsSeen ==
  ASSUME NEW P, NEW nd, Heap(P, DOMAIN nd), NEW Q, NEW ne, NEW l \in Lists, NEW s \in Lists,
         l # s, Hands(P, nd, Q, ne, l, s),
         NEW c, c = ContentOf(P, nd), NEW d, d = ContentOf(Q, ne)
  PROVE  MoveTo(c, d, l, s)
<1>1. /\ Q = [P EXCEPT ![l] = P[s], ![s] = <<>>]
      /\ \A b \in DOMAIN nd \ NodesIn(P[l]) : ne[b].value = nd[b].value
  BY DEF Hands
<1>2. Q[l] = P[s] /\ Q[s] = <<>> /\ \A m \in Lists : m # l /\ m # s => Q[m] = P[m]
  BY <1>1 DEF Heap
<1>3. /\ c = [m \in Lists |-> c[m]] /\ \A m \in Lists : c[m] = ElementsOf(P[m], nd)
      /\ d = [m \in Lists |-> d[m]] /\ \A m \in Lists : d[m] = ElementsOf(Q[m], ne)
  BY ContentParts
<1>4. \A m \in Lists : m # l => ElementsOf(P[m], ne) = ElementsOf(P[m], nd)
  BY <1>1, OthersSame
<1>5. d[l] = c[s] /\ d[s] = <<>> /\ \A m \in Lists : m # l /\ m # s => d[m] = c[m]
  BY <1>2, <1>3, <1>4, ElementsOfNone
<1> QED
  BY <1>3, <1>5 DEF MoveTo

LEMMA CopiesSeen ==
  ASSUME NEW P, NEW nd, Heap(P, DOMAIN nd), NEW Q, NEW ne, NEW l \in Lists, NEW s \in Lists,
         l # s, Copies(P, nd, Q, ne, l, s),
         NEW c, c = ContentOf(P, nd), NEW d, d = ContentOf(Q, ne)
  PROVE  CopyTo(c, d, l, s)
<1>1. PICK f \in Injection(1..Len(P[s]), Addresses \ (DOMAIN nd \ NodesIn(P[l]))) :
        /\ Q = [P EXCEPT ![l] = f]
        /\ \A k \in 1..Len(P[s]) : ne[f[k]].value = nd[P[s][k]].value
        /\ \A b \in DOMAIN nd \ NodesIn(P[l]) : ne[b].value = nd[b].value
  BY DEF Copies
<1>2. Q[l] = f /\ \A m \in Lists : m # l => Q[m] = P[m]
  BY <1>1 DEF Heap
<1>3. /\ c = [m \in Lists |-> c[m]] /\ \A m \in Lists : c[m] = ElementsOf(P[m], nd)
      /\ d = [m \in Lists |-> d[m]] /\ \A m \in Lists : d[m] = ElementsOf(Q[m], ne)
  BY ContentParts
<1>4. \A m \in Lists : m # l => ElementsOf(P[m], ne) = ElementsOf(P[m], nd)
  BY <1>1, OthersSame
<1>5. \A m \in Lists : m # l => d[m] = c[m]
  BY <1>2, <1>3, <1>4
<1>6. PICK n \in Nat : n = Len(P[s])
  BY InHeap
<1>7. P[s] \in Seq(DOMAIN nd) /\ c[s] = ElementsOf(P[s], nd)
  BY <1>3, InHeap
<1>8. DOMAIN c[s] = 1..n /\ \A k \in 1..n : c[s][k].value = nd[P[s][k]].value
  <2>1. Shows(c[s], P[s], nd)
    BY <1>7, ElementsParts, Zenon
  <2> QED
    BY <1>6, <2>1 DEF Shows
<1>9. f = [i \in 1..n |-> f[i]] /\ \A i \in 1..n : f[i] \in Addresses
  BY <1>6 DEF Injection
<1>10. f \in Seq(Addresses) /\ Len(f) = n
  BY <1>9, FunctionIsSeq, ZenonT(40)
<1>11. d[l] = ElementsOf(f, ne)
  BY <1>2, <1>3
<1>12. /\ d[l] = [k \in 1..n |-> d[l][k]]
       /\ \A k \in 1..n : d[l][k] = [id |-> f[k], value |-> ne[f[k]].value]
  <2>1. Shows(d[l], f, ne)
    BY <1>10, <1>11, ElementsParts, Zenon
  <2> QED
    BY <1>10, <2>1 DEF Shows
<1>13. d[l] = [k \in DOMAIN c[s] |-> [id |-> f[k], value |-> c[s][k].value]]
  <2>1. ASSUME NEW k \in 1..n PROVE d[l][k] = [id |-> f[k], value |-> c[s][k].value]
    <3>1. ne[f[k]].value = c[s][k].value
      BY <1>1, <1>6, <1>8
    <3> QED
      BY <1>12, <3>1
  <2> QED
    BY <1>8, <1>12, <2>1
<1>14. UsedIn([c EXCEPT ![l] = <<>>]) = DOMAIN nd \ NodesIn(P[l])
  <2>1. PICK R, D : R = [P EXCEPT ![l] = <<>>] /\ D = DOMAIN nd \ NodesIn(P[l])
    OBVIOUS
  <2>2. Heap(R, D)
    BY <2>1, HeapEmptied
  <2>3. R[l] = <<>> /\ \A m \in Lists : m # l => R[m] = P[m]
    BY <2>1 DEF Heap
  <2>4. PICK g : g = ContentOf(R, nd)
    OBVIOUS
  <2>5. g = [m \in Lists |-> g[m]] /\ \A m \in Lists : g[m] = ElementsOf(R[m], nd)
    BY <2>4, ContentParts
  <2>6. g[l] = <<>> /\ \A m \in Lists : m # l => g[m] = c[m]
    BY <1>3, <2>3, <2>5, ElementsOfNone
  <2>7. g = [c EXCEPT ![l] = <<>>]
    BY <1>3, <2>5, <2>6
  <2> QED
    BY <2>1, <2>2, <2>4, <2>7, UsedIs
<1>15. f \in Injection(DOMAIN c[s], Addresses \ UsedIn([c EXCEPT ![l] = <<>>]))
  BY <1>6, <1>8, <1>14
<1>16. d = [c EXCEPT ![l] = [k \in DOMAIN c[s] |-> [id |-> f[k], value |-> c[s][k].value]]]
  BY <1>3, <1>5, <1>13
<1> QED
  BY <1>15, <1>16 DEF CopyTo
-----------------------------------------------------------------------------
(* ListSpec names the same steps with operators of the community modules.    *)
(* c is a and then b, of m and n elements of S.                              *)
Concatenates(S, c, a, b, m, n) ==
  /\ c \in Seq(S) /\ Len(c) = m + n /\ c = [i \in 1..(m + n) |-> c[i]]
  /\ \A i \in 1..(m + n) : c[i] = IF i <= m THEN a[i] ELSE b[i - m]

LEMMA JoinedParts ==
  ASSUME NEW S, NEW a \in Seq(S), NEW b \in Seq(S), NEW m \in Nat, NEW n \in Nat,
         Len(a) = m, Len(b) = n, NEW c, c = a \o b
  PROVE  Concatenates(S, c, a, b, m, n)
<1>1. /\ c \in Seq(S) /\ Len(c) = m + n
      /\ \A i \in 1..(m + n) : c[i] = IF i <= m THEN a[i] ELSE b[i - m]
  BY ConcatProperties
<1>2. c = [i \in 1..(m + n) |-> c[i]]
  <2>1. PICK k \in Nat : k = m + n
    OBVIOUS
  <2>2. c \in [1..k -> S]
    BY <1>1, <2>1, LenProperties
  <2>3. c = [i \in 1..k |-> c[i]]
    BY <2>2
  <2> QED
    BY <2>1, <2>3
<1> QED
  BY <1>1, <1>2 DEF Concatenates

LEMMA CutParts ==
  ASSUME NEW S, NEW s \in Seq(S), NEW m \in 1..(Len(s) + 1), NEW n \in 0..Len(s), m <= n + 1
  PROVE  /\ SubSeq(s, m, n) \in Seq(S) /\ Len(SubSeq(s, m, n)) = n - m + 1
         /\ \A i \in 1..(n - m + 1) : SubSeq(s, m, n)[i] = s[m + i - 1]
<1>1. CASE m = n + 1
  BY <1>1
<1>2. CASE m <= n
  <2>1. \A i \in m..n : s[i] \in S
    OBVIOUS
  <2>2. SubSeq(s, m, n) \in Seq(S) /\ Len(SubSeq(s, m, n)) = n - m + 1
    BY <1>2, <2>1
  <2> QED
    BY <1>2, <2>2
<1> QED
  BY <1>1, <1>2

LEMMA InsertAtIs ==
  ASSUME NEW S, NEW s \in Seq(S), NEW k \in 1..(Len(s) + 1), NEW e \in S
  PROVE  SubSeq(s, 1, k - 1) \o <<e>> \o SubSeq(s, k, Len(s)) = InsertedAt(s, k, e)
<1>1. PICK n \in Nat : n = Len(s)
  OBVIOUS
<1>2. PICK a, b : a = SubSeq(s, 1, k - 1) /\ b = SubSeq(s, k, n)
  OBVIOUS
<1>3. k \in 1..(n + 1) /\ k - 1 \in Nat /\ n - k + 1 \in Nat
  BY <1>1
<1>4. a \in Seq(S) /\ Len(a) = k - 1 /\ \A i \in 1..(k - 1) : a[i] = s[i]
  BY <1>1, <1>2, <1>3, CutParts
<1>5. b \in Seq(S) /\ Len(b) = n - k + 1 /\ \A i \in 1..(n - k + 1) : b[i] = s[k + i - 1]
  <2>1. k \in 1..(Len(s) + 1) /\ n \in 0..Len(s) /\ k <= n + 1
    BY <1>1, <1>3
  <2> QED
    BY <1>2, <2>1, CutParts, Zenon
<1>6. <<e>> \in Seq(S) /\ Len(<<e>>) = 1 /\ <<e>>[1] = e
  OBVIOUS
<1>7. PICK c : c = a \o <<e>>
  OBVIOUS
<1>8. /\ c \in Seq(S) /\ Len(c) = k /\ c[k] = e
      /\ \A i \in 1..(k - 1) : c[i] = s[i]
  <2>1. PICK m \in Nat : m = k - 1
    BY <1>3
  <2>2. PICK u : u = <<e>>
    OBVIOUS
  <2>3. a \in Seq(S) /\ Len(a) = m /\ u \in Seq(S) /\ Len(u) = 1 /\ u[1] = e /\ c = a \o u
    BY <1>4, <1>6, <1>7, <2>1, <2>2
  <2>4. Concatenates(S, c, a, u, m, 1)
    BY <2>3, JoinedParts
  <2>5. m + 1 = k /\ k - m = 1 /\ \A i \in 1..(k - 1) : i <= m
    BY <1>3, <2>1
  <2>6. /\ c \in Seq(S) /\ Len(c) = k
        /\ \A i \in 1..k : c[i] = IF i <= m THEN a[i] ELSE u[i - m]
    BY <2>4, <2>5 DEF Concatenates
  <2> QED
    BY <1>3, <1>4, <2>1, <2>3, <2>5, <2>6
<1>9. PICK d : d = c \o b
  OBVIOUS
<1>10. /\ d = [i \in 1..(n + 1) |-> d[i]]
       /\ \A i \in 1..(n + 1) : d[i] = IF i <= k THEN c[i] ELSE b[i - k]
  <2>1. PICK m \in Nat, j \in Nat : m = k /\ j = n - k + 1
    BY <1>3
  <2>2. Concatenates(S, d, c, b, m, j)
    BY <1>5, <1>8, <1>9, <2>1, JoinedParts
  <2>3. m + j = n + 1
    BY <1>3, <2>1
  <2> QED
    BY <2>1, <2>2, <2>3 DEF Concatenates
<1>11. ASSUME NEW i \in 1..(n + 1)
       PROVE  d[i] = IF i < k THEN s[i] ELSE IF i = k THEN e ELSE s[i - 1]
  <2>1. CASE i < k
    <3>1. i <= k /\ i \in 1..(k - 1)
      BY <1>3, <2>1
    <3>2. d[i] = c[i] /\ c[i] = s[i]
      BY <1>8, <1>10, <3>1
    <3> QED
      BY <2>1, <3>2
  <2>2. CASE i = k
    BY <1>3, <1>8, <1>10, <2>2
  <2>3. CASE i > k
    <3>1. i - k \in 1..(n - k + 1) /\ k + (i - k) - 1 = i - 1
      BY <1>3, <2>3
    <3>2. d[i] = b[i - k] /\ b[i - k] = s[i - 1]
      BY <1>3, <1>5, <1>10, <2>3, <3>1
    <3> QED
      BY <1>3, <2>3, <3>2
  <2> QED
    BY <1>3, <2>1, <2>2, <2>3
<1> QED
  BY <1>1, <1>2, <1>7, <1>9, <1>10, <1>11 DEF InsertedAt

LEMMA RemoveAtIs ==
  ASSUME NEW S, NEW s \in Seq(S), NEW k \in 1..Len(s)
  PROVE  SubSeq(s, 1, k - 1) \o SubSeq(s, k + 1, Len(s)) = RemovedAt(s, k)
<1>1. PICK n \in Nat : n = Len(s)
  OBVIOUS
<1>2. PICK a, b : a = SubSeq(s, 1, k - 1) /\ b = SubSeq(s, k + 1, n)
  OBVIOUS
<1>3. k \in 1..n /\ k - 1 \in Nat /\ n - k \in Nat
  BY <1>1
<1>4. a \in Seq(S) /\ Len(a) = k - 1 /\ \A i \in 1..(k - 1) : a[i] = s[i]
  BY <1>1, <1>2, <1>3, CutParts
<1>5. b \in Seq(S) /\ Len(b) = n - k /\ \A i \in 1..(n - k) : b[i] = s[k + i]
  <2>1. k + 1 \in 1..(Len(s) + 1) /\ n \in 0..Len(s) /\ n - (k + 1) + 1 = n - k
    BY <1>1, <1>3
  <2>2. \A i \in 1..(n - k) : (k + 1) + i - 1 = k + i
    BY <1>3
  <2> QED
    BY <1>1, <1>2, <1>3, <2>1, <2>2, CutParts
<1>6. PICK d : d = a \o b
  OBVIOUS
<1>7. /\ d = [i \in 1..(n - 1) |-> d[i]]
      /\ \A i \in 1..(n - 1) : d[i] = IF i <= k - 1 THEN a[i] ELSE b[i - (k - 1)]
  <2>1. PICK m \in Nat, j \in Nat : m = k - 1 /\ j = n - k
    BY <1>3
  <2>2. Concatenates(S, d, a, b, m, j)
    BY <1>4, <1>5, <1>6, <2>1, JoinedParts
  <2>3. m + j = n - 1
    BY <1>3, <2>1
  <2> QED
    BY <2>1, <2>2, <2>3 DEF Concatenates
<1>8. ASSUME NEW i \in 1..(n - 1)
      PROVE  d[i] = IF i < k THEN s[i] ELSE s[i + 1]
  <2>1. CASE i < k
    BY <1>3, <1>4, <1>7, <2>1
  <2>2. CASE i >= k
    <3>1. i - k + 1 \in 1..(n - k) /\ k + (i - k + 1) = i + 1 /\ i - (k - 1) = i - k + 1
      BY <1>3, <2>2
    <3>2. d[i] = b[i - k + 1] /\ b[i - k + 1] = s[i + 1]
      BY <1>3, <1>5, <1>7, <2>2, <3>1
    <3> QED
      BY <1>3, <2>2, <3>2
  <2> QED
    BY <1>3, <2>1, <2>2
<1> QED
  BY <1>1, <1>2, <1>6, <1>7, <1>8 DEF RemovedAt

LEMMA SpecPlaces ==
  ASSUME NEW S, NEW s \in Seq(S)
  PROVE  /\ \A k \in 1..(Len(s) + 1), e \in S :
              /\ DL!Elements!InsertAt(s, k, e) = InsertedAt(s, k, e)
              /\ FL!Elements!InsertAt(s, k, e) = InsertedAt(s, k, e)
         /\ \A k \in 1..Len(s) : /\ DL!Elements!RemoveAt(s, k) = RemovedAt(s, k)
                                 /\ FL!Elements!RemoveAt(s, k) = RemovedAt(s, k)
BY InsertAtIs, RemoveAtIs
   DEF DL!Elements!InsertAt, FL!Elements!InsertAt, DL!Elements!RemoveAt, FL!Elements!RemoveAt

(* The sequences of list as ListSpec is instantiated with them.              *)
ListContent ==
  [l \in Lists |-> LET w == DL!Walk(l)
                   IN [k \in 1..Len(w) |-> [id |-> w[k], value |-> node[w[k]].value]]]

LEMMA DoublyContent ==
  /\ \A P : Doubly(P, lst, node) => ListContent = ContentOf(P, node)
  /\ \A Q : Doubly(Q, lst', node') => ListContent' = ContentOf(Q, node')
<1>1. ASSUME NEW P, Doubly(P, lst, node) PROVE ListContent = ContentOf(P, node)
  <2>1. \A l \in Lists : DL!Walk(l) = P[l]
    BY <1>1, DoublyReached
  <2> QED
    BY <2>1 DEF ListContent, ContentOf, ElementsOf
<1>2. ASSUME NEW Q, Doubly(Q, lst', node') PROVE ListContent' = ContentOf(Q, node')
  <2>1. ASSUME NEW l \in Lists PROVE DL!Walk(l)' = Q[l]
    BY <1>2, DoublyWalks, DoublyWalked
  <2> QED
    BY <2>1 DEF ListContent, ContentOf, ElementsOf
<1> QED
  BY <1>1, <1>2

LEMMA InsertSteps ==
  ASSUME NEW l \in Lists, NEW i, NEW v, NEW S,
         ListContent = [m \in Lists |-> ListContent[m]],
         ListContent[l] \in Seq(S), i \in 1..(Len(ListContent[l]) + 1),
         InsertTo(ListContent, ListContent', l, i, v)
  PROVE  DL!Elements!Insert(l, i, v)
<1>1. PICK f \in Addresses \ UsedIn(ListContent) :
        ListContent' = [ListContent EXCEPT
                          ![l] = InsertedAt(ListContent[l], i, [id |-> f, value |-> v])]
  BY DEF InsertTo
<1>2. PICK e : e = [id |-> f, value |-> v]
  OBVIOUS
<1>3. DL!Elements!InsertAt(ListContent[l], i, e) = InsertedAt(ListContent[l], i, e)
  <2>1. ListContent[l] \in Seq(S \cup {e}) /\ e \in S \cup {e}
    OBVIOUS
  <2> QED
    BY <2>1, SpecPlaces
<1>4. ListContent' = [ListContent EXCEPT ![l] = DL!Elements!InsertAt(@, i, [id |-> f, value |-> v])]
  BY <1>1, <1>2, <1>3
<1>5. f \in Addresses \ DL!Elements!Used(ListContent)
  BY DEF UsedIn, DL!Elements!Used
<1> QED
  BY <1>4, <1>5 DEF DL!Elements!Insert, ListContent
-----------------------------------------------------------------------------
(* What of each list a caller sees is a sequence.                            *)
Contents(c) == c = [l \in Lists |-> c[l]] /\ \E S : \A l \in Lists : c[l] \in Seq(S)

LEMMA ContentsOfHeap ==
  ASSUME NEW P, NEW D, Heap(P, D), NEW nd, NEW c, c = ContentOf(P, nd)
  PROVE  /\ Contents(c)
         /\ \A l \in Lists : DOMAIN c[l] = 1..Len(P[l]) /\ Len(c[l]) = Len(P[l])
<1>1. c = [l \in Lists |-> c[l]] /\ \A l \in Lists : c[l] = ElementsOf(P[l], nd)
  BY ContentParts
<1>2. PICK S : S = UNION {{c[l][k] : k \in 1..Len(P[l])} : l \in Lists}
  OBVIOUS
<1>3. ASSUME NEW l \in Lists
      PROVE  c[l] \in Seq(S) /\ DOMAIN c[l] = 1..Len(P[l]) /\ Len(c[l]) = Len(P[l])
  <2>1. P[l] \in Seq(D)
    BY InHeap
  <2>2. Shows(c[l], P[l], nd) /\ Len(P[l]) \in Nat
    BY <1>1, <2>1, ElementsParts, Zenon
  <2>3. c[l] = [k \in 1..Len(P[l]) |-> c[l][k]] /\ DOMAIN c[l] = 1..Len(P[l])
    BY <2>2 DEF Shows
  <2>4. \A k \in 1..Len(P[l]) : c[l][k] \in S
    BY <1>2
  <2>5. c[l] \in Seq(S) /\ Len(c[l]) = Len(P[l])
    BY <2>2, <2>3, <2>4, FunctionIsSeq, ZenonT(40)
  <2> QED
    BY <2>3, <2>5
<1> QED
  BY <1>1, <1>3 DEF Contents

(* What a step of ListSpec may do, of the content c before and d after.      *)
Turned(c, d) ==
  \E l \in Lists :
    \/ \E i \in 1..(Len(c[l]) + 1), v \in ListValues : InsertTo(c, d, l, i, v)
    \/ \E i \in 1..Len(c[l]) : EraseTo(c, d, l, i)
    \/ ClearTo(c, d, l)
    \/ \E s \in Lists \ {l} : MoveTo(c, d, l, s) \/ CopyTo(c, d, l, s)

LEMMA TurnsSeen ==
  ASSUME NEW P, NEW nd, Heap(P, DOMAIN nd), NEW Q, NEW ne, Turns(P, nd, Q, ne),
         NEW c, c = ContentOf(P, nd), NEW d, d = ContentOf(Q, ne)
  PROVE  Turned(c, d)
<1>1. PICK l \in Lists :
        \/ \E k \in 1..(Len(P[l]) + 1), v \in ListValues : Inserts(P, nd, Q, ne, l, k, v)
        \/ \E k \in 1..Len(P[l]) : Removes(P, nd, Q, ne, l, k)
        \/ Empties(P, nd, Q, ne, l)
        \/ \E s \in Lists \ {l} : Hands(P, nd, Q, ne, l, s) \/ Copies(P, nd, Q, ne, l, s)
  BY DEF Turns
<1>2. Len(c[l]) = Len(P[l])
  BY ContentsOfHeap
<1>3. CASE \E k \in 1..(Len(P[l]) + 1), v \in ListValues : Inserts(P, nd, Q, ne, l, k, v)
  <2>1. PICK k \in 1..(Len(P[l]) + 1), v \in ListValues : Inserts(P, nd, Q, ne, l, k, v)
    BY <1>3
  <2>2. InsertTo(c, d, l, k, v)
    BY <2>1, InsertsSeen, Zenon
  <2> QED
    BY <1>2, <2>2 DEF Turned
<1>4. CASE \E k \in 1..Len(P[l]) : Removes(P, nd, Q, ne, l, k)
  <2>1. PICK k \in 1..Len(P[l]) : Removes(P, nd, Q, ne, l, k)
    BY <1>4
  <2>2. EraseTo(c, d, l, k)
    BY <2>1, RemovesSeen, Zenon
  <2> QED
    BY <1>2, <2>2 DEF Turned
<1>5. CASE Empties(P, nd, Q, ne, l)
  <2>1. ClearTo(c, d, l)
    BY <1>5, EmptiesSeen, Zenon
  <2> QED
    BY <2>1 DEF Turned
<1>6. CASE \E s \in Lists \ {l} : Hands(P, nd, Q, ne, l, s)
  <2>1. PICK s \in Lists \ {l} : Hands(P, nd, Q, ne, l, s)
    BY <1>6
  <2>2. s \in Lists /\ l # s
    OBVIOUS
  <2>3. MoveTo(c, d, l, s)
    BY <2>1, <2>2, HandsSeen, Zenon
  <2> QED
    BY <2>3 DEF Turned
<1>7. CASE \E s \in Lists \ {l} : Copies(P, nd, Q, ne, l, s)
  <2>1. PICK s \in Lists \ {l} : Copies(P, nd, Q, ne, l, s)
    BY <1>7
  <2>2. s \in Lists /\ l # s
    OBVIOUS
  <2>3. CopyTo(c, d, l, s)
    BY <2>1, <2>2, CopiesSeen, Zenon
  <2> QED
    BY <2>3 DEF Turned
<1> QED
  BY <1>1, <1>3, <1>4, <1>5, <1>6, <1>7
-----------------------------------------------------------------------------
(* list: these are the steps of its abstract specification.                  *)
LEMMA DoublyIns ==
  ASSUME Contents(ListContent), NEW l \in Lists, NEW v, NEW i \in 1..(Len(ListContent[l]) + 1),
         InsertTo(ListContent, ListContent', l, i, v)
  PROVE  DL!Elements!Insert(l, i, v)
<1>1. PICK S : \A m \in Lists : ListContent[m] \in Seq(S)
  BY DEF Contents
<1>2. ListContent = [m \in Lists |-> ListContent[m]] /\ ListContent[l] \in Seq(S)
  BY <1>1 DEF Contents
<1> QED
  BY <1>2, InsertSteps, Zenon

LEMMA DoublyRemoval ==
  ASSUME Contents(ListContent), NEW l \in Lists, NEW i \in 1..Len(ListContent[l]),
         EraseTo(ListContent, ListContent', l, i)
  PROVE  DL!Elements!Erase(l, i)
<1>1. PICK S : \A m \in Lists : ListContent[m] \in Seq(S)
  BY DEF Contents
<1>2. DL!Elements!RemoveAt(ListContent[l], i) = RemovedAt(ListContent[l], i)
  BY <1>1, SpecPlaces
<1>3. ListContent' = [ListContent EXCEPT ![l] = DL!Elements!RemoveAt(@, i)]
  BY <1>2 DEF EraseTo
<1> QED
  BY <1>3 DEF DL!Elements!Erase, ListContent

LEMMA DoublyEmptied ==
  ASSUME NEW l \in Lists, ClearTo(ListContent, ListContent', l)
  PROVE  DL!Elements!Clear(l)
BY DEF ClearTo, DL!Elements!Clear, ListContent

LEMMA DoublyMoved ==
  ASSUME NEW l \in Lists, NEW s \in Lists, MoveTo(ListContent, ListContent', l, s)
  PROVE  DL!Elements!Move(l, s)
BY DEF MoveTo, DL!Elements!Move, ListContent

LEMMA DoublyCopied ==
  ASSUME NEW l \in Lists, NEW s \in Lists, CopyTo(ListContent, ListContent', l, s)
  PROVE  DL!Elements!Copy(l, s)
<1>1. \A c : DL!Elements!Used(c) = UsedIn(c)
  BY DEF DL!Elements!Used, UsedIn
<1>2. \A S, T : DL!Elements!Injection(S, T) = Injection(S, T)
  BY DEF DL!Elements!Injection, DL!Elements!IsInjective, Injection, IsInjective
<1>3. \E f \in DL!Elements!Injection(DOMAIN ListContent[s],
                 Addresses \ DL!Elements!Used([ListContent EXCEPT ![l] = <<>>])) :
        ListContent' = [ListContent EXCEPT
                          ![l] = [k \in DOMAIN ListContent[s] |->
                                    [id |-> f[k], value |-> ListContent[s][k].value]]]
  BY <1>1, <1>2 DEF CopyTo
<1> QED
  BY <1>3 DEF DL!Elements!Copy, ListContent

LEMMA DoublyTurned ==
  ASSUME Contents(ListContent), \A l \in Lists : DOMAIN ListContent[l] = 1..Len(ListContent[l]),
         Turned(ListContent, ListContent')
  PROVE  DL!Elements!Next
<1>1. PICK l \in Lists :
        \/ \E i \in 1..(Len(ListContent[l]) + 1), v \in ListValues :
             InsertTo(ListContent, ListContent', l, i, v)
        \/ \E i \in 1..Len(ListContent[l]) : EraseTo(ListContent, ListContent', l, i)
        \/ ClearTo(ListContent, ListContent', l)
        \/ \E s \in Lists \ {l} : \/ MoveTo(ListContent, ListContent', l, s)
                                  \/ CopyTo(ListContent, ListContent', l, s)
  BY DEF Turned
<1>2. \/ \E v \in ListValues : \E i \in 1..(Len(ListContent[l]) + 1) : DL!Elements!Insert(l, i, v)
      \/ \E i \in DOMAIN ListContent[l] : DL!Elements!Erase(l, i)
      \/ DL!Elements!Clear(l)
      \/ \E s \in Lists \ {l} : DL!Elements!Move(l, s) \/ DL!Elements!Copy(l, s)
  BY <1>1, DoublyIns, DoublyRemoval, DoublyEmptied, DoublyMoved, DoublyCopied
<1> QED
  BY <1>2 DEF DL!Elements!Next, ListContent
-----------------------------------------------------------------------------
LEMMA ListContentParts ==
  ASSUME NEW P, Doubly(P, lst, node)
  PROVE  /\ Contents(ListContent)
         /\ \A l \in Lists : /\ DOMAIN ListContent[l] = 1..Len(P[l])
                             /\ Len(ListContent[l]) = Len(P[l])
<1>1. ListContent = ContentOf(P, node) /\ Heap(P, DOMAIN node)
  BY DoublyContent DEF Doubly
<1> QED
  BY <1>1, ContentsOfHeap, Zenon

LEMMA DoublyActs ==
  ASSUME NEW P, Doubly(P, lst, node), DL!Next
  PROVE  DL!Elements!Next
<1>1. PICK Q : Doubly(Q, lst', node') /\ Turns(P, node, Q, node')
  BY DoublyNext
<1>2. Heap(P, DOMAIN node)
  BY DEF Doubly
<1>3. ListContent = ContentOf(P, node) /\ ListContent' = ContentOf(Q, node')
  BY <1>1, DoublyContent
<1>4. PICK c, d, ne : c = ListContent /\ d = ListContent' /\ ne = node'
  OBVIOUS
<1>5. Turns(P, node, Q, ne) /\ c = ContentOf(P, node) /\ d = ContentOf(Q, ne)
  BY <1>1, <1>3, <1>4
<1>6. Turned(c, d)
  BY <1>2, <1>5, TurnsSeen, Zenon
<1>7. Turned(ListContent, ListContent')
  BY <1>4, <1>6
<1>8. \A l \in Lists : DOMAIN ListContent[l] = 1..Len(ListContent[l])
  BY ListContentParts
<1> QED
  BY <1>7, <1>8, ListContentParts, DoublyTurned

LEMMA ListContentInit == ASSUME DL!Init PROVE DL!Elements!Init
<1>1. PICK P : P = [l \in Lists |-> <<>>]
  OBVIOUS
<1>2. Doubly(P, lst, node)
  BY <1>1, DoublyInit
<1>3. ListContent = ContentOf(P, node)
  BY <1>2, DoublyContent
<1>4. ListContent = [l \in Lists |-> <<>>]
  BY <1>1, <1>3, ElementsOfNone DEF ContentOf
<1> QED
  BY <1>4 DEF DL!Elements!Init, ListContent

(* Where an iterator points.                                                 *)
LEMMA PlaceIs ==
  ASSUME NEW P, Doubly(P, lst, node), NEW l \in Lists, NEW k \in 1..(Len(P[l]) + 1)
  PROVE  DL!Place(l, AtOrEnd(P[l], k)) = k
<1>1. DL!Walk(l) = P[l]
  BY DoublyReached
<1>2. PICK w : w = P[l]
  OBVIOUS
<1>3. PICK n \in Nat : n = Len(w)
  BY <1>2, DoublyEnds
<1>4. /\ \A i \in 1..n : w[i] # Null
      /\ \A i, j \in 1..n : w[i] = w[j] => i = j
      /\ DOMAIN w = 1..n
  BY <1>2, <1>3, InHeap DEF Doubly
<1>5. k \in 1..(n + 1)
  BY <1>2, <1>3
<1>6. CASE k = n + 1
  <2>1. AtOrEnd(w, k) = Null
    BY <1>3, <1>6 DEF AtOrEnd
  <2> QED
    BY <1>1, <1>2, <1>3, <1>6, <2>1 DEF DL!Place
<1>7. CASE k # n + 1
  <2>1. k \in 1..n /\ AtOrEnd(w, k) = w[k] /\ w[k] # Null
    BY <1>3, <1>4, <1>5, <1>7 DEF AtOrEnd
  <2>2. DL!Place(l, w[k]) = CHOOSE j \in DOMAIN w : w[j] = w[k]
    BY <1>1, <1>2, <2>1 DEF DL!Place
  <2>3. (CHOOSE j \in DOMAIN w : w[j] = w[k]) = k
    BY <1>4, <2>1
  <2> QED
    BY <1>2, <2>1, <2>2, <2>3
<1> QED
  BY <1>6, <1>7

(* A call that puts an element at place k inserts it there.                  *)
LEMMA DoublyPuts ==
  ASSUME NEW P, Doubly(P, lst, node), NEW l \in Lists, NEW k \in 1..(Len(P[l]) + 1),
         NEW v, \E Q : PutAt(P, Q, l, k, v)
  PROVE  DL!Elements!Insert(l, k, v)
<1>1. PICK Q : Doubly(Q, lst', node') /\ Inserts(P, node, Q, node', l, k, v)
  BY DEF PutAt
<1>2. Heap(P, DOMAIN node)
  BY DEF Doubly
<1>3. PICK c, d, ne : c = ListContent /\ d = ListContent' /\ ne = node'
  OBVIOUS
<1>4. Inserts(P, node, Q, ne, l, k, v) /\ c = ContentOf(P, node) /\ d = ContentOf(Q, ne)
  BY <1>1, <1>3, DoublyContent
<1>5. InsertTo(c, d, l, k, v)
  BY <1>2, <1>4, InsertsSeen, Zenon
<1>6. InsertTo(ListContent, ListContent', l, k, v) /\ k \in 1..(Len(ListContent[l]) + 1)
  BY <1>3, <1>5, ListContentParts
<1> QED
  BY <1>6, ListContentParts, DoublyIns

LEMMA DoublyErases ==
  ASSUME NEW P, Doubly(P, lst, node), NEW l \in Lists, NEW k \in 1..Len(P[l]),
         \E Q : Doubly(Q, lst', node') /\ Removes(P, node, Q, node', l, k)
  PROVE  DL!Elements!Erase(l, k)
<1>1. PICK Q : Doubly(Q, lst', node') /\ Removes(P, node, Q, node', l, k)
  OBVIOUS
<1>2. Heap(P, DOMAIN node)
  BY DEF Doubly
<1>3. PICK c, d, ne : c = ListContent /\ d = ListContent' /\ ne = node'
  OBVIOUS
<1>4. Removes(P, node, Q, ne, l, k) /\ c = ContentOf(P, node) /\ d = ContentOf(Q, ne)
  BY <1>1, <1>3, DoublyContent
<1>5. EraseTo(c, d, l, k)
  BY <1>2, <1>4, RemovesSeen, Zenon
<1>6. EraseTo(ListContent, ListContent', l, k) /\ k \in 1..Len(ListContent[l])
  BY <1>3, <1>5, ListContentParts
<1> QED
  BY <1>6, ListContentParts, DoublyRemoval

LEMMA DoublyCopies ==
  ASSUME NEW P, Doubly(P, lst, node), NEW l \in Lists, NEW s \in Lists, DL!CopyAssign(l, s)
  PROVE  DL!Elements!Copy(l, s)
<1>1. l # s /\ \E Q : Doubly(Q, lst', node') /\ Copies(P, node, Q, node', l, s)
  BY CopyStep
<1>2. PICK Q : Doubly(Q, lst', node') /\ Copies(P, node, Q, node', l, s)
  BY <1>1
<1>3. Heap(P, DOMAIN node)
  BY DEF Doubly
<1>4. PICK c, d, ne : c = ListContent /\ d = ListContent' /\ ne = node'
  OBVIOUS
<1>5. Copies(P, node, Q, ne, l, s) /\ c = ContentOf(P, node) /\ d = ContentOf(Q, ne)
  BY <1>2, <1>4, DoublyContent
<1>6. CopyTo(c, d, l, s)
  BY <1>1, <1>3, <1>5, CopiesSeen, Zenon
<1>7. CopyTo(ListContent, ListContent', l, s)
  BY <1>4, <1>6
<1> QED
  BY <1>7, DoublyCopied

(* Each call of list is the operation of that name on the sequences.         *)
LEMMA DoublyCalls ==
  ASSUME NEW P, Doubly(P, lst, node), NEW l \in Lists
  PROVE  /\ \A v \in ListValues :
              /\ DL!EmplaceBack(l, v) => DL!Elements!PushBack(l, v)
              /\ DL!EmplaceFront(l, v) => DL!Elements!PushFront(l, v)
              /\ \A pos \in DL!Reached(l) \cup {Null} :
                   DL!Insert(l, pos, v) => DL!Elements!Insert(l, DL!Place(l, pos), v)
         /\ \A pos \in DL!Reached(l) : DL!Erase(l, pos) => DL!Elements!Erase(l, DL!Place(l, pos))
         /\ \A s \in Lists : DL!CopyAssign(l, s) => DL!Elements!Copy(l, s)
<1>1. Len(P[l]) \in Nat /\ Len(ListContent[l]) = Len(P[l])
  BY DoublyEnds, ListContentParts
<1>2. Len(P[l]) + 1 \in 1..(Len(P[l]) + 1) /\ 1 \in 1..(Len(P[l]) + 1)
  BY <1>1
<1>3. ASSUME NEW v \in ListValues, DL!EmplaceBack(l, v)
      PROVE  DL!Elements!PushBack(l, v)
  <2>1. DL!Elements!Insert(l, Len(P[l]) + 1, v)
    BY <1>2, <1>3, BackStep, DoublyPuts
  <2>2. DL!Elements!Insert(l, Len(ListContent[l]) + 1, v)
    BY <1>1, <2>1
  <2> QED
    BY <2>2 DEF DL!Elements!PushBack, ListContent
<1>4. ASSUME NEW v \in ListValues, DL!EmplaceFront(l, v)
      PROVE  DL!Elements!PushFront(l, v)
  <2>1. DL!Elements!Insert(l, 1, v)
    BY <1>2, <1>4, FrontStep, DoublyPuts
  <2> QED
    BY <2>1 DEF DL!Elements!PushFront
<1>5. ASSUME NEW v \in ListValues, NEW pos \in DL!Reached(l) \cup {Null}, DL!Insert(l, pos, v)
      PROVE  DL!Elements!Insert(l, DL!Place(l, pos), v)
  <2>1. PICK k \in 1..(Len(P[l]) + 1) : pos = AtOrEnd(P[l], k)
    BY <1>1, <1>2, DoublyPlace
  <2>2. DL!Insert(l, AtOrEnd(P[l], k), v)
    BY <1>5, <2>1
  <2>3. DL!Elements!Insert(l, k, v)
    BY <2>2, InsertStep, DoublyPuts
  <2>4. DL!Place(l, pos) = k
    BY <2>1, PlaceIs
  <2> QED
    BY <2>3, <2>4
<1>6. ASSUME NEW pos \in DL!Reached(l), DL!Erase(l, pos)
      PROVE  DL!Elements!Erase(l, DL!Place(l, pos))
  <2>1. PICK k \in 1..Len(P[l]) : pos = P[l][k] /\ pos = AtOrEnd(P[l], k)
    BY DoublyPlace
  <2>2. DL!Erase(l, P[l][k]) /\ k \in 1..(Len(P[l]) + 1)
    BY <1>1, <1>6, <2>1
  <2>3. DL!Elements!Erase(l, k)
    BY <2>2, EraseStep, DoublyErases
  <2>4. DL!Place(l, pos) = k
    BY <2>1, <2>2, PlaceIs
  <2> QED
    BY <2>3, <2>4 DEF DL!Elements!Erase
<1> QED
  BY <1>3, <1>4, <1>5, <1>6, DoublyCopies

(* list is the sequences its links spell, whose elements keep identity and   *)
(* value through every call on another element.                              *)
THEOREM ListRefines == DL!Spec => DL!BehavesLikeList
<1>1. DL!Init => DL!Elements!Init /\ DoublyInv
  BY ListContentInit, DoublyInit DEF DoublyInv
<1>2. DoublyInv /\ [DL!Next]_DL!vars
      => [DL!Elements!Next]_[l \in Lists |->
                               LET w == DL!Walk(l)
                               IN [k \in 1..Len(w) |->
                                     [id |-> w[k], value |-> node[w[k]].value]]]
  <2> SUFFICES ASSUME DoublyInv, [DL!Next]_DL!vars
               PROVE  DL!Elements!Next \/ ListContent' = ListContent
    BY DEF ListContent
  <2>1. PICK P : Doubly(P, lst, node)
    BY DEF DoublyInv
  <2>2. CASE DL!Next
    BY <2>1, <2>2, DoublyActs
  <2>3. CASE UNCHANGED DL!vars
    <3>1. Doubly(P, lst', node') /\ node' = node
      BY <2>1, <2>3 DEF DL!vars
    <3>2. ListContent' = ContentOf(P, node') /\ ListContent = ContentOf(P, node)
      BY <2>1, <3>1, DoublyContent
    <3> QED
      BY <3>1, <3>2
  <2> QED
    BY <2>2, <2>3
<1> QED
  BY <1>1, <1>2, DoublyKept, PTL DEF DL!Spec, DL!BehavesLikeList, DL!Elements!Spec

(* The calls of list act where they say: at the ends, before or at the       *)
(* position of an iterator, on the elements of the other list.               *)
THEOREM ListCallsMatch == DL!Spec => DL!CallsMatch
<1>1. DL!Init => DoublyInv
  BY DoublyInit DEF DoublyInv
<1>2. DoublyInv /\ [DL!Next]_DL!vars
      => [\A l \in Lists :
            /\ \A v \in ListValues :
                 /\ DL!EmplaceBack(l, v) => DL!Elements!PushBack(l, v)
                 /\ DL!EmplaceFront(l, v) => DL!Elements!PushFront(l, v)
                 /\ \A pos \in DL!Reached(l) \cup {Null} :
                      DL!Insert(l, pos, v) => DL!Elements!Insert(l, DL!Place(l, pos), v)
            /\ \A pos \in DL!Reached(l) :
                 DL!Erase(l, pos) => DL!Elements!Erase(l, DL!Place(l, pos))
            /\ \A s \in Lists : DL!CopyAssign(l, s) => DL!Elements!Copy(l, s)]_DL!vars
  <2> SUFFICES ASSUME DoublyInv, NEW l \in Lists
               PROVE  /\ \A v \in ListValues :
                           /\ DL!EmplaceBack(l, v) => DL!Elements!PushBack(l, v)
                           /\ DL!EmplaceFront(l, v) => DL!Elements!PushFront(l, v)
                           /\ \A pos \in DL!Reached(l) \cup {Null} :
                                DL!Insert(l, pos, v) => DL!Elements!Insert(l, DL!Place(l, pos), v)
                      /\ \A pos \in DL!Reached(l) :
                           DL!Erase(l, pos) => DL!Elements!Erase(l, DL!Place(l, pos))
                      /\ \A s \in Lists : DL!CopyAssign(l, s) => DL!Elements!Copy(l, s)
    OBVIOUS
  <2>1. PICK P : Doubly(P, lst, node)
    BY DEF DoublyInv
  <2> QED
    BY <2>1, DoublyCalls
<1> QED
  BY <1>1, <1>2, DoublyKept, PTL DEF DL!Spec, DL!CallsMatch
-----------------------------------------------------------------------------
(* forward_list: the same, along links onwards only.                         *)
ForwardContent ==
  [l \in Lists |-> LET w == FL!Walk(l)
                   IN [k \in 1..Len(w) |-> [id |-> w[k], value |-> cell[w[k]].value]]]

LEMMA SinglyContent ==
  /\ \A P : Singly(P, fwd, cell) => ForwardContent = ContentOf(P, cell)
  /\ \A Q : Singly(Q, fwd', cell') => ForwardContent' = ContentOf(Q, cell')
<1>1. ASSUME NEW P, Singly(P, fwd, cell) PROVE ForwardContent = ContentOf(P, cell)
  <2>1. \A l \in Lists : FL!Walk(l) = P[l]
    BY <1>1, SinglyReached
  <2> QED
    BY <2>1 DEF ForwardContent, ContentOf, ElementsOf
<1>2. ASSUME NEW Q, Singly(Q, fwd', cell') PROVE ForwardContent' = ContentOf(Q, cell')
  <2>1. ASSUME NEW l \in Lists PROVE FL!Walk(l)' = Q[l]
    BY <1>2, SinglyWalks, SinglyWalked
  <2> QED
    BY <2>1 DEF ForwardContent, ContentOf, ElementsOf
<1> QED
  BY <1>1, <1>2

LEMMA SinglyIns ==
  ASSUME Contents(ForwardContent), NEW l \in Lists, NEW v,
         NEW i \in 1..(Len(ForwardContent[l]) + 1),
         InsertTo(ForwardContent, ForwardContent', l, i, v)
  PROVE  FL!Elements!Insert(l, i, v)
<1>1. PICK S : \A m \in Lists : ForwardContent[m] \in Seq(S)
  BY DEF Contents
<1>2. PICK f \in Addresses \ UsedIn(ForwardContent) :
        ForwardContent' = [ForwardContent EXCEPT
                             ![l] = InsertedAt(ForwardContent[l], i, [id |-> f, value |-> v])]
  BY DEF InsertTo
<1>3. PICK e : e = [id |-> f, value |-> v]
  OBVIOUS
<1>4. FL!Elements!InsertAt(ForwardContent[l], i, e) = InsertedAt(ForwardContent[l], i, e)
  <2>1. ForwardContent[l] \in Seq(S \cup {e}) /\ e \in S \cup {e}
    BY <1>1
  <2> QED
    BY <2>1, SpecPlaces
<1>5. ForwardContent'
      = [ForwardContent EXCEPT ![l] = FL!Elements!InsertAt(@, i, [id |-> f, value |-> v])]
  BY <1>2, <1>3, <1>4
<1>6. f \in Addresses \ FL!Elements!Used(ForwardContent)
  BY DEF UsedIn, FL!Elements!Used
<1> QED
  BY <1>5, <1>6 DEF FL!Elements!Insert, ForwardContent

LEMMA SinglyRemoval ==
  ASSUME Contents(ForwardContent), NEW l \in Lists, NEW i \in 1..Len(ForwardContent[l]),
         EraseTo(ForwardContent, ForwardContent', l, i)
  PROVE  FL!Elements!Erase(l, i)
<1>1. PICK S : \A m \in Lists : ForwardContent[m] \in Seq(S)
  BY DEF Contents
<1>2. FL!Elements!RemoveAt(ForwardContent[l], i) = RemovedAt(ForwardContent[l], i)
  BY <1>1, SpecPlaces
<1>3. ForwardContent' = [ForwardContent EXCEPT ![l] = FL!Elements!RemoveAt(@, i)]
  BY <1>2 DEF EraseTo
<1> QED
  BY <1>3 DEF FL!Elements!Erase, ForwardContent

LEMMA SinglyEmptied ==
  ASSUME NEW l \in Lists, ClearTo(ForwardContent, ForwardContent', l)
  PROVE  FL!Elements!Clear(l)
BY DEF ClearTo, FL!Elements!Clear, ForwardContent

LEMMA SinglyMoved ==
  ASSUME NEW l \in Lists, NEW s \in Lists, MoveTo(ForwardContent, ForwardContent', l, s)
  PROVE  FL!Elements!Move(l, s)
BY DEF MoveTo, FL!Elements!Move, ForwardContent

LEMMA SinglyCopied ==
  ASSUME NEW l \in Lists, NEW s \in Lists, CopyTo(ForwardContent, ForwardContent', l, s)
  PROVE  FL!Elements!Copy(l, s)
<1>1. \A c : FL!Elements!Used(c) = UsedIn(c)
  BY DEF FL!Elements!Used, UsedIn
<1>2. \A S, T : FL!Elements!Injection(S, T) = Injection(S, T)
  BY DEF FL!Elements!Injection, FL!Elements!IsInjective, Injection, IsInjective
<1>3. \E f \in FL!Elements!Injection(DOMAIN ForwardContent[s],
                 Addresses \ FL!Elements!Used([ForwardContent EXCEPT ![l] = <<>>])) :
        ForwardContent' = [ForwardContent EXCEPT
                          ![l] = [k \in DOMAIN ForwardContent[s] |->
                                    [id |-> f[k], value |-> ForwardContent[s][k].value]]]
  BY <1>1, <1>2 DEF CopyTo
<1> QED
  BY <1>3 DEF FL!Elements!Copy, ForwardContent

LEMMA SinglyTurned ==
  ASSUME Contents(ForwardContent), \A l \in Lists : DOMAIN ForwardContent[l] = 1..Len(ForwardContent[l]),
         Turned(ForwardContent, ForwardContent')
  PROVE  FL!Elements!Next
<1>1. PICK l \in Lists :
        \/ \E i \in 1..(Len(ForwardContent[l]) + 1), v \in ListValues :
             InsertTo(ForwardContent, ForwardContent', l, i, v)
        \/ \E i \in 1..Len(ForwardContent[l]) : EraseTo(ForwardContent, ForwardContent', l, i)
        \/ ClearTo(ForwardContent, ForwardContent', l)
        \/ \E s \in Lists \ {l} : \/ MoveTo(ForwardContent, ForwardContent', l, s)
                                  \/ CopyTo(ForwardContent, ForwardContent', l, s)
  BY DEF Turned
<1>2. \/ \E v \in ListValues : \E i \in 1..(Len(ForwardContent[l]) + 1) : FL!Elements!Insert(l, i, v)
      \/ \E i \in DOMAIN ForwardContent[l] : FL!Elements!Erase(l, i)
      \/ FL!Elements!Clear(l)
      \/ \E s \in Lists \ {l} : FL!Elements!Move(l, s) \/ FL!Elements!Copy(l, s)
  BY <1>1, SinglyIns, SinglyRemoval, SinglyEmptied, SinglyMoved, SinglyCopied
<1> QED
  BY <1>2 DEF FL!Elements!Next, ForwardContent

LEMMA ForwardContentParts ==
  ASSUME NEW P, Singly(P, fwd, cell)
  PROVE  /\ Contents(ForwardContent)
         /\ \A l \in Lists : /\ DOMAIN ForwardContent[l] = 1..Len(P[l])
                             /\ Len(ForwardContent[l]) = Len(P[l])
<1>1. ForwardContent = ContentOf(P, cell) /\ Heap(P, DOMAIN cell)
  BY SinglyContent DEF Singly
<1> QED
  BY <1>1, ContentsOfHeap, Zenon

LEMMA SinglyActs ==
  ASSUME NEW P, Singly(P, fwd, cell), FL!Next
  PROVE  FL!Elements!Next
<1>1. PICK Q : Singly(Q, fwd', cell') /\ Turns(P, cell, Q, cell')
  BY SinglyNext
<1>2. Heap(P, DOMAIN cell)
  BY DEF Singly
<1>3. ForwardContent = ContentOf(P, cell) /\ ForwardContent' = ContentOf(Q, cell')
  BY <1>1, SinglyContent
<1>4. PICK c, d, ne : c = ForwardContent /\ d = ForwardContent' /\ ne = cell'
  OBVIOUS
<1>5. Turns(P, cell, Q, ne) /\ c = ContentOf(P, cell) /\ d = ContentOf(Q, ne)
  BY <1>1, <1>3, <1>4
<1>6. Turned(c, d)
  BY <1>2, <1>5, TurnsSeen, Zenon
<1>7. Turned(ForwardContent, ForwardContent')
  BY <1>4, <1>6
<1>8. \A l \in Lists : DOMAIN ForwardContent[l] = 1..Len(ForwardContent[l])
  BY ForwardContentParts
<1> QED
  BY <1>7, <1>8, ForwardContentParts, SinglyTurned

LEMMA ForwardContentInit == ASSUME FL!Init PROVE FL!Elements!Init
<1>1. PICK P : P = [l \in Lists |-> <<>>]
  OBVIOUS
<1>2. Singly(P, fwd, cell)
  BY <1>1, SinglyInit
<1>3. ForwardContent = ContentOf(P, cell)
  BY <1>2, SinglyContent
<1>4. ForwardContent = [l \in Lists |-> <<>>]
  BY <1>1, <1>3, ElementsOfNone DEF ContentOf
<1> QED
  BY <1>4 DEF FL!Elements!Init, ForwardContent

LEMMA SinglyPuts ==
  ASSUME NEW P, Singly(P, fwd, cell), NEW l \in Lists, NEW k \in 1..(Len(P[l]) + 1),
         NEW v, \E Q : EnteredAt(P, Q, l, k, v)
  PROVE  FL!Elements!Insert(l, k, v)
<1>1. PICK Q : Singly(Q, fwd', cell') /\ Inserts(P, cell, Q, cell', l, k, v)
  BY DEF EnteredAt
<1>2. Heap(P, DOMAIN cell)
  BY DEF Singly
<1>3. PICK c, d, ne : c = ForwardContent /\ d = ForwardContent' /\ ne = cell'
  OBVIOUS
<1>4. Inserts(P, cell, Q, ne, l, k, v) /\ c = ContentOf(P, cell) /\ d = ContentOf(Q, ne)
  BY <1>1, <1>3, SinglyContent
<1>5. InsertTo(c, d, l, k, v)
  BY <1>2, <1>4, InsertsSeen, Zenon
<1>6. InsertTo(ForwardContent, ForwardContent', l, k, v) /\ k \in 1..(Len(ForwardContent[l]) + 1)
  BY <1>3, <1>5, ForwardContentParts
<1> QED
  BY <1>6, ForwardContentParts, SinglyIns

LEMMA SinglyErases ==
  ASSUME NEW P, Singly(P, fwd, cell), NEW l \in Lists, NEW k \in 1..Len(P[l]),
         \E Q : CutAt(P, Q, l, k)
  PROVE  FL!Elements!Erase(l, k)
<1>1. PICK Q : Singly(Q, fwd', cell') /\ Removes(P, cell, Q, cell', l, k)
  BY DEF CutAt
<1>2. Heap(P, DOMAIN cell)
  BY DEF Singly
<1>3. PICK c, d, ne : c = ForwardContent /\ d = ForwardContent' /\ ne = cell'
  OBVIOUS
<1>4. Removes(P, cell, Q, ne, l, k) /\ c = ContentOf(P, cell) /\ d = ContentOf(Q, ne)
  BY <1>1, <1>3, SinglyContent
<1>5. EraseTo(c, d, l, k)
  BY <1>2, <1>4, RemovesSeen, Zenon
<1>6. EraseTo(ForwardContent, ForwardContent', l, k) /\ k \in 1..Len(ForwardContent[l])
  BY <1>3, <1>5, ForwardContentParts
<1> QED
  BY <1>6, ForwardContentParts, SinglyRemoval

(* Each call of forward_list is the operation of that name on the sequences. *)
LEMMA SinglyCalls ==
  ASSUME NEW P, Singly(P, fwd, cell), NEW l \in Lists
  PROVE  /\ \A v \in ListValues :
              /\ FL!EmplaceFront(l, v) => FL!Elements!PushFront(l, v)
              /\ \A k \in DOMAIN FL!Walk(l) :
                   FL!InsertAfter(l, FL!Walk(l)[k], v) => FL!Elements!Insert(l, k + 1, v)
         /\ \A k \in DOMAIN FL!Walk(l) :
              FL!EraseAfter(l, FL!Walk(l)[k]) => FL!Elements!Erase(l, k + 1)
<1>1. Len(P[l]) \in Nat /\ DOMAIN P[l] = 1..Len(P[l]) /\ FL!Walk(l) = P[l]
  BY SinglyEnds, SinglyReached
<1>2. ASSUME NEW v \in ListValues, FL!EmplaceFront(l, v)
      PROVE  FL!Elements!PushFront(l, v)
  <2>1. 1 \in 1..(Len(P[l]) + 1)
    BY <1>1
  <2>2. FL!Elements!Insert(l, 1, v)
    BY <1>2, <2>1, ForwardFrontStep, SinglyPuts
  <2> QED
    BY <2>2 DEF FL!Elements!PushFront
<1>3. ASSUME NEW v \in ListValues, NEW k \in 1..Len(P[l]), FL!InsertAfter(l, P[l][k], v)
      PROVE  FL!Elements!Insert(l, k + 1, v)
  <2>1. k + 1 \in 1..(Len(P[l]) + 1) /\ \E Q : EnteredAt(P, Q, l, k + 1, v)
    BY <1>3, InsertAfterStep
  <2> QED
    BY <2>1, SinglyPuts
<1>4. ASSUME NEW k \in 1..Len(P[l]), FL!EraseAfter(l, P[l][k])
      PROVE  FL!Elements!Erase(l, k + 1)
  <2>1. k + 1 \in 1..Len(P[l]) /\ \E Q : CutAt(P, Q, l, k + 1)
    BY <1>4, EraseAfterStep
  <2> QED
    BY <2>1, SinglyErases
<1> QED
  BY <1>1, <1>2, <1>3, <1>4

(* forward_list is such sequences too, and its calls act at the front or     *)
(* just after a position.                                                    *)
THEOREM ForwardListRefines == FL!Spec => FL!BehavesLikeList
<1>1. FL!Init => FL!Elements!Init /\ SinglyInv
  BY ForwardContentInit, SinglyInit DEF SinglyInv
<1>2. SinglyInv /\ [FL!Next]_FL!vars
      => [FL!Elements!Next]_[l \in Lists |->
                               LET w == FL!Walk(l)
                               IN [k \in 1..Len(w) |->
                                     [id |-> w[k], value |-> cell[w[k]].value]]]
  <2> SUFFICES ASSUME SinglyInv, [FL!Next]_FL!vars
               PROVE  FL!Elements!Next \/ ForwardContent' = ForwardContent
    BY DEF ForwardContent
  <2>1. PICK P : Singly(P, fwd, cell)
    BY DEF SinglyInv
  <2>2. CASE FL!Next
    BY <2>1, <2>2, SinglyActs
  <2>3. CASE UNCHANGED FL!vars
    <3>1. Singly(P, fwd', cell') /\ cell' = cell
      BY <2>1, <2>3 DEF FL!vars
    <3>2. ForwardContent' = ContentOf(P, cell') /\ ForwardContent = ContentOf(P, cell)
      BY <2>1, <3>1, SinglyContent
    <3> QED
      BY <3>1, <3>2
  <2> QED
    BY <2>2, <2>3
<1>3. SinglyInv /\ [FL!Next]_FL!vars
      => [\A l \in Lists :
            /\ \A v \in ListValues :
                 /\ FL!EmplaceFront(l, v) => FL!Elements!PushFront(l, v)
                 /\ \A k \in DOMAIN FL!Walk(l) :
                      FL!InsertAfter(l, FL!Walk(l)[k], v) => FL!Elements!Insert(l, k + 1, v)
            /\ \A k \in DOMAIN FL!Walk(l) :
                 FL!EraseAfter(l, FL!Walk(l)[k]) => FL!Elements!Erase(l, k + 1)]_FL!vars
  <2> SUFFICES ASSUME SinglyInv, NEW l \in Lists
               PROVE  /\ \A v \in ListValues :
                           /\ FL!EmplaceFront(l, v) => FL!Elements!PushFront(l, v)
                           /\ \A k \in DOMAIN FL!Walk(l) :
                                FL!InsertAfter(l, FL!Walk(l)[k], v)
                                => FL!Elements!Insert(l, k + 1, v)
                      /\ \A k \in DOMAIN FL!Walk(l) :
                           FL!EraseAfter(l, FL!Walk(l)[k]) => FL!Elements!Erase(l, k + 1)
    OBVIOUS
  <2>1. PICK P : Singly(P, fwd, cell)
    BY DEF SinglyInv
  <2> QED
    BY <2>1, SinglyCalls
<1> QED
  BY <1>1, <1>2, <1>3, SinglyKept, PTL DEF FL!Spec, FL!BehavesLikeList, FL!Elements!Spec

(* Both kinds of list implement the abstract sequences, call by call, for    *)
(* all sets of lists, values and addresses.                                  *)
THEOREM ListsRefine == DL!Spec /\ FL!Spec => ListsBehave
BY ListRefines, ListCallsMatch, ForwardListRefines DEF ListsBehave
=============================================================================
