---------------------------- MODULE Webgpu_proofs ---------------------------
(* Proofs about the WebGPU example.  The walk that orders the records of a   *)
(* header is right for every header that C allows; the demos are, for every  *)
(* number of turns of the pump and of frames, every set of window sizes, and *)
(* whatever the driver answers.                                              *)
EXTENDS RecordOrder, WebGpuApp, TLAPS

DepsOK == deps \in Seq(Seq(Nat)) /\ \A i \in Indices : deps[i] \in Seq(Indices)

OnPath(i) == \E k \in DOMAIN path : path[k].record = i
InOrder(i) == \E p \in DOMAIN order : order[p] = i

\* The mark of a record tells where it is.
MarksTell ==
  /\ \A i \in Indices : mark[i] = 2 <=> InOrder(i)
  /\ \A i \in Indices : mark[i] = 1 => OnPath(i)
  /\ \A k \in DOMAIN path : mark[path[k].record] = 1

\* Along the path, any rank that embedding lowers falls.
Descending ==
  \A rank \in [Indices -> Nat] : Lowers(rank) =>
    \A j, k \in DOMAIN path : j < k => rank[path[k].record] < rank[path[j].record]

\* What a frame has been through is done, or is the frame above it.
Visited ==
  \A k \in DOMAIN path : \A j \in DOMAIN deps[path[k].record] :
    j < path[k].next =>
      \/ mark[deps[path[k].record][j]] = 2
      \/ /\ k < Len(path) /\ j = path[k].next - 1
         /\ deps[path[k].record][j] = path[k + 1].record

RootsSeen == \A i \in Indices : i < scan => mark[i] # 0

OrderInv == /\ DepsOK /\ Acyclic /\ OrderTypeOK
            /\ MarksTell /\ Descending /\ Visited /\ RootsSeen
            /\ DependenciesFirst
-----------------------------------------------------------------------------
(* What deps holds: dependencies are records, counted from 1.                *)
LEMMA DepsTyped ==
  ASSUME DepsOK
  PROVE  /\ Indices = 1..Len(deps) /\ Len(deps) \in Nat
         /\ \A i \in Indices : /\ DOMAIN deps[i] = 1..Len(deps[i]) /\ Len(deps[i]) \in Nat
                               /\ \A k \in DOMAIN deps[i] : deps[i][k] \in Indices
BY DEF DepsOK, Indices

(* What is on top of the path: a record and a position after 0.              *)
LEMMA TopTyped ==
  ASSUME OrderTypeOK, path # << >>
  PROVE  /\ Len(path) \in Nat /\ Len(path) > 0 /\ DOMAIN path = 1..Len(path)
         /\ path[Len(path)] = Top
         /\ Top.record \in Indices /\ Top.next \in Nat \ {0}
         /\ \A k \in DOMAIN path : path[k].record \in Indices /\ path[k].next \in Nat \ {0}
<1> DEFINE Frames == [record : Indices, next : Nat \ {0}]
<1>1. path \in Seq(Frames)
  BY DEF OrderTypeOK
<1> HIDE DEF Frames
<1>2. Len(path) \in Nat /\ Len(path) > 0 /\ DOMAIN path = 1..Len(path)
  BY <1>1
<1>3. \A k \in DOMAIN path : path[k] \in Frames
  BY <1>1
<1>4. \A k \in DOMAIN path : path[k].record \in Indices /\ path[k].next \in Nat \ {0}
  BY <1>3 DEF Frames
<1>5. path[Len(path)] = Top
  BY DEF Top
<1> QED BY <1>2, <1>4, <1>5

(* No record in progress is embedded by the one on top of the path: embedding*)
(* would go round in a circle.                                               *)
LEMMA NoCycle ==
  ASSUME OrderInv, path # << >>, NEW k \in DOMAIN deps[Top.record]
  PROVE  mark[deps[Top.record][k]] # 1
<1> DEFINE d == deps[Top.record][k]
<1>1. Len(path) \in Nat /\ Len(path) > 0 /\ DOMAIN path = 1..Len(path)
  BY TopTyped DEF OrderInv
<1>2. Top.record \in Indices
  BY TopTyped DEF OrderInv
<1>3. d \in Indices
  BY <1>2, DepsTyped DEF OrderInv
<1>4. PICK rank \in [Indices -> Nat] : Lowers(rank)
  BY DEF OrderInv, Acyclic
<1>5. rank[d] < rank[Top.record]
  BY <1>2, <1>4 DEF Lowers
<1>6. SUFFICES ASSUME mark[d] = 1 PROVE FALSE
  OBVIOUS
<1>7. PICK j \in DOMAIN path : path[j].record = d
  BY <1>3, <1>6 DEF OrderInv, MarksTell, OnPath
<1>8. j < Len(path) => rank[Top.record] < rank[d]
  BY <1>1, <1>4, <1>7 DEF OrderInv, Descending, Top
<1>9. j = Len(path) => rank[Top.record] = rank[d]
  BY <1>7 DEF Top
<1>10. rank[d] \in Nat /\ rank[Top.record] \in Nat
  BY <1>2, <1>3, <1>4
<1> QED BY <1>1, <1>5, <1>7, <1>8, <1>9, <1>10

(* Before the walk nothing is marked, on the path or ordered.                *)
LEMMA InvHoldsAtStart == OrderInit => OrderInv
<1> SUFFICES ASSUME OrderInit PROVE OrderInv
  OBVIOUS
<1>1. DepsOK /\ Acyclic
  BY DEF OrderInit, DepsOK
<1>2. OrderTypeOK
  BY <1>1, DepsTyped DEF OrderInit, OrderTypeOK
<1>3. MarksTell /\ RootsSeen
  BY <1>1, DepsTyped DEF OrderInit, MarksTell, OnPath, InOrder, RootsSeen
<1>4. Descending /\ Visited /\ DependenciesFirst
  BY DEF OrderInit, Descending, Visited, DependenciesFirst
<1> QED BY <1>1, <1>2, <1>3, <1>4 DEF OrderInv
-----------------------------------------------------------------------------
(* No step changes what the records embed.                                   *)
LEMMA DepsStay ==
  ASSUME OrderInv, UNCHANGED deps
  PROVE  /\ DepsOK' /\ Acyclic' /\ Indices' = Indices
         /\ \A rank : Lowers(rank)' <=> Lowers(rank)
BY DEF OrderInv, DepsOK, Acyclic, Lowers, Indices

(* The loop starts a path at a record that has no mark.                      *)
LEMMA RootKeepsInv == ASSUME OrderInv, VisitRoot PROVE OrderInv'
<1> USE DEF OrderInv
<1>1. DepsOK' /\ Acyclic' /\ Indices' = Indices /\ \A rank : Lowers(rank)' <=> Lowers(rank)
  BY DepsStay DEF VisitRoot
<1>2. Indices = 1..Len(deps) /\ Len(deps) \in Nat
  BY DepsTyped
<1>3. /\ mark \in [Indices -> 0..2] /\ scan \in Indices /\ path = << >>
      /\ scan' = scan + 1 /\ deps' = deps /\ order' = order
  BY <1>2 DEF VisitRoot, OrderTypeOK
<1>4. DependenciesFirst'
  BY <1>3 DEF DependenciesFirst
<1>5. CASE mark[scan] # 0
  <2>1. mark' = mark /\ path' = path
    BY <1>5 DEF VisitRoot
  <2>2. OrderTypeOK'
    BY <1>1, <1>2, <1>3, <2>1 DEF OrderTypeOK
  <2>3. MarksTell' /\ Descending' /\ Visited'
    BY <1>1, <1>3, <2>1 DEF MarksTell, OnPath, InOrder, Descending, Visited
  <2>4. RootsSeen'
    BY <1>1, <1>2, <1>3, <1>5, <2>1 DEF RootsSeen
  <2> QED BY <1>1, <1>4, <2>2, <2>3, <2>4
<1>6. CASE mark[scan] = 0
  <2>1. mark' = [mark EXCEPT ![scan] = 1] /\ path' = <<[record |-> scan, next |-> 1]>>
    BY <1>6 DEF VisitRoot, Frame
  <2>2. /\ path' \in Seq([record : Indices, next : Nat \ {0}])
        /\ DOMAIN path' = {1} /\ Len(path') = 1
        /\ path'[1].record = scan /\ path'[1].next = 1
    BY <1>3, <2>1
  <2>3. OrderTypeOK'
    BY <1>1, <1>2, <1>3, <2>1, <2>2 DEF OrderTypeOK
  <2>4. MarksTell'
    BY <1>1, <1>3, <1>6, <2>1, <2>2 DEF MarksTell, OnPath, InOrder
  <2>5. Descending'
    BY <2>2 DEF Descending
  <2>6. Visited'
    <3>1. \A j \in DOMAIN deps[scan] : ~(j < 1)
      BY <1>3, DepsTyped
    <3> QED BY <1>3, <2>2, <3>1 DEF Visited
  <2>7. RootsSeen'
    BY <1>1, <1>2, <1>3, <2>1 DEF RootsSeen
  <2> QED BY <1>1, <1>4, <2>3, <2>4, <2>5, <2>6, <2>7
<1> QED BY <1>3, <1>5, <1>6

(* visit goes past a dependency that is done, or starts a frame for it.      *)
LEMMA DependencyKeepsInv == ASSUME OrderInv, VisitDependency PROVE OrderInv'
<1> DEFINE n == Len(path)
           r == Top.record
           x == Top.next
           d == deps[r][x]
           moved == [path EXCEPT ![n].next = @ + 1]
           Frames == [record : Indices, next : Nat \ {0}]
<1>1. DepsOK' /\ Acyclic' /\ Indices' = Indices /\ \A rank : Lowers(rank)' <=> Lowers(rank)
  BY DepsStay DEF VisitDependency
<1>2. /\ n = Len(path) /\ n \in Nat /\ n > 0 /\ DOMAIN path = 1..n
      /\ \A k \in 1..n : path[k].record \in Indices /\ path[k].next \in Nat \ {0}
  BY TopTyped DEF OrderInv, VisitDependency
<1>0. path \in Seq(Frames) /\ mark \in [Indices -> 0..2] /\ order \in Seq(Indices)
  BY DEF OrderInv, OrderTypeOK
<1>3. /\ path[n] = Top /\ r = path[n].record /\ x = path[n].next
      /\ r \in Indices /\ x \in Nat \ {0}
      /\ x \in DOMAIN deps[r] /\ d = deps[r][x] /\ d \in Indices
  <2>1. path[n] = Top /\ r \in Indices /\ x \in Nat \ {0}
    BY TopTyped DEF OrderInv, VisitDependency
  <2>2. x \in DOMAIN deps[r]
    BY <2>1, DepsTyped DEF OrderInv, VisitDependency
  <2> QED BY <2>1, <2>2, DepsTyped DEF OrderInv
<1>4. /\ deps' = deps /\ order' = order /\ scan' = scan
      /\ mark[d] # 0 => path' = moved /\ mark' = mark
      /\ mark[d] = 0 => mark' = [mark EXCEPT ![d] = 1]
                        /\ path' = Append(moved, [record |-> d, next |-> 1])
  BY DEF VisitDependency, Frame
<1>5. /\ moved \in Seq(Frames) /\ Len(moved) = n /\ DOMAIN moved = 1..n
      /\ \A k \in 1..n : moved[k].record = path[k].record
      /\ \A k \in 1..n : moved[k].next = (IF k = n THEN x + 1 ELSE path[k].next)
  <2> DEFINE top == [path[n] EXCEPT !.next = x + 1]
  <2>1. moved = [path EXCEPT ![n] = top]
    BY <1>3
  <2>2. \A k \in 1..n : path[k] \in Frames
    <3> HIDE DEF Frames, n
    <3> QED BY <1>0, <1>2
  <2>3. top \in Frames /\ top.record = r /\ top.next = x + 1
    <3> HIDE DEF n, x
    <3>1. path[n] \in [record : Indices, next : Nat \ {0}] /\ x + 1 \in Nat \ {0}
      BY <1>2, <1>3, <2>2
    <3> QED BY <1>3, <3>1
  <2> HIDE DEF Frames, moved, n, x, r, top
  <2>4. moved \in Seq(Frames) /\ Len(moved) = n /\ DOMAIN moved = 1..n
    BY <1>0, <1>2, <2>1, <2>3
  <2>5. \A k \in 1..n : moved[k] = (IF k = n THEN top ELSE path[k])
    BY <1>2, <2>1
  <2> QED BY <1>2, <1>3, <2>3, <2>4, <2>5
<1> HIDE DEF n, r, x, d, moved, Frames
<1>6. mark[d] # 1
  BY <1>3, NoCycle DEF VisitDependency, r, x, d
<1>7. DependenciesFirst'
  BY <1>4 DEF DependenciesFirst, OrderInv
<1>8. CASE mark[d] # 0
  <2>1. mark[d] = 2 /\ path' = moved /\ mark' = mark
    BY <1>0, <1>3, <1>4, <1>6, <1>8
  <2>2. OrderTypeOK'
    BY <1>0, <1>1, <1>4, <1>5, <2>1 DEF Frames, OrderTypeOK, OrderInv
  <2>3. MarksTell'
    BY <1>1, <1>2, <1>4, <1>5, <2>1 DEF MarksTell, OnPath, InOrder, OrderInv
  <2>4. Descending'
    <3> SUFFICES ASSUME NEW rank \in [Indices -> Nat], Lowers(rank),
                        NEW j \in 1..n, NEW k \in 1..n, j < k
                 PROVE  rank[moved[k].record] < rank[moved[j].record]
      BY <1>1, <1>5, <2>1 DEF Descending
    <3>1. rank[path[k].record] < rank[path[j].record]
      BY <1>2 DEF Descending, OrderInv
    <3> QED BY <1>5, <3>1
  <2>5. Visited'
    <3> SUFFICES ASSUME NEW k \in 1..n, NEW j \in DOMAIN deps[path[k].record],
                        j < moved[k].next
                 PROVE  \/ mark[deps[path[k].record][j]] = 2
                        \/ /\ k < n /\ j = moved[k].next - 1
                           /\ deps[path[k].record][j] = moved[k + 1].record
      BY <1>4, <1>5, <2>1 DEF Visited
    <3>1. j \in Nat
      BY <1>2, DepsTyped DEF OrderInv
    <3>2. CASE k = n
      <4>1. j = x \/ j < x
        BY <1>3, <1>5, <3>1, <3>2
      <4>2. j < x => mark[deps[path[k].record][j]] = 2
        BY <1>2, <1>3, <3>2 DEF Visited, OrderInv
      <4> QED BY <1>3, <2>1, <3>2, <4>1, <4>2
    <3>3. CASE k < n
      <4>1. moved[k].next = path[k].next /\ moved[k + 1].record = path[k + 1].record
        BY <1>2, <1>5, <3>3
      <4>2. \/ mark[deps[path[k].record][j]] = 2
            \/ j = path[k].next - 1 /\ deps[path[k].record][j] = path[k + 1].record
        BY <1>2, <4>1 DEF Visited, OrderInv
      <4> QED BY <3>3, <4>1, <4>2
    <3> QED BY <1>2, <3>2, <3>3
  <2>6. RootsSeen'
    BY <1>1, <1>4, <2>1 DEF RootsSeen, OrderInv
  <2> QED BY <1>1, <1>7, <2>2, <2>3, <2>4, <2>5, <2>6 DEF OrderInv
<1>9. CASE mark[d] = 0
  <2>1. mark' = [mark EXCEPT ![d] = 1] /\ path' = Append(moved, [record |-> d, next |-> 1])
    BY <1>4, <1>9
  <2>2. /\ path' \in Seq(Frames) /\ Len(path') = n + 1 /\ DOMAIN path' = 1..(n + 1)
        /\ \A k \in 1..n : path'[k] = moved[k]
        /\ path'[n + 1].record = d /\ path'[n + 1].next = 1
    <3> DEFINE new == [record |-> d, next |-> 1]
    <3>1. new \in Frames /\ new.record = d /\ new.next = 1
      BY <1>3 DEF Frames
    <3> HIDE DEF new
    <3>2. path' = Append(moved, new)
      BY <2>1 DEF new
    <3> QED BY <1>2, <1>5, <3>1, <3>2
  <2>3. OrderTypeOK'
    BY <1>0, <1>1, <1>3, <1>4, <2>1, <2>2 DEF Frames, OrderTypeOK, OrderInv
  <2>4. MarksTell'
    <3>1. \A i \in Indices : mark'[i] = 2 <=> InOrder(i)'
      BY <1>2, <1>3, <1>4, <1>9, <2>1 DEF MarksTell, InOrder, OrderInv
    <3>2. \A i \in Indices : mark'[i] = 1 => OnPath(i)'
      <4> SUFFICES ASSUME NEW i \in Indices, mark'[i] = 1
                   PROVE  \E k \in DOMAIN path' : path'[k].record = i
        BY DEF OnPath
      <4>1. CASE i = d
        BY <1>2, <2>2, <4>1
      <4>2. CASE i # d
        <5>1. PICK k \in DOMAIN path : path[k].record = i
          BY <1>2, <2>1, <4>2 DEF MarksTell, OnPath, OrderInv
        <5> QED BY <1>2, <1>5, <2>2, <5>1
      <4> QED BY <4>1, <4>2
    <3>3. \A k \in DOMAIN path' : mark'[path'[k].record] = 1
      BY <1>0, <1>2, <1>3, <1>5, <2>1, <2>2 DEF MarksTell, OrderInv
    <3> QED BY <1>1, <3>1, <3>2, <3>3 DEF MarksTell
  <2>5. Descending'
    <3> SUFFICES ASSUME NEW rank \in [Indices -> Nat], Lowers(rank),
                        NEW j \in 1..(n + 1), NEW k \in 1..(n + 1), j < k
                 PROVE  rank[path'[k].record] < rank[path'[j].record]
      BY <1>1, <2>2 DEF Descending
    <3>1. \A m \in 1..n : m < n => rank[r] < rank[path[m].record]
      BY <1>2, <1>3, SMTT(30) DEF Descending, OrderInv
    <3>2. rank[d] < rank[r]
      BY <1>3 DEF Lowers
    <3>3. \A m \in 1..n : rank[path[m].record] \in Nat
      BY <1>2
    <3>4. rank[d] \in Nat /\ rank[r] \in Nat
      BY <1>3
    <3>5. CASE k = n + 1
      <4>1. j \in 1..n /\ path'[j].record = path[j].record
        BY <1>2, <1>5, <2>2, <3>5
      <4>2. j = n => path[j].record = r
        BY <1>3
      <4>3. rank[path[j].record] \in Nat /\ (j < n => rank[r] < rank[path[j].record])
        BY <3>1, <3>3, <4>1
      <4> QED BY <1>2, <2>2, <3>2, <3>4, <3>5, <4>1, <4>2, <4>3
    <3>6. CASE k # n + 1
      <4>1. j \in 1..n /\ k \in 1..n
        BY <1>2, <3>6
      <4>2. rank[path[k].record] < rank[path[j].record]
        BY <1>2, <4>1 DEF Descending, OrderInv
      <4> QED BY <1>5, <2>2, <4>1, <4>2
    <3> QED BY <3>5, <3>6
  <2>6. Visited'
    <3> SUFFICES ASSUME NEW k \in 1..(n + 1), NEW j \in DOMAIN deps[path'[k].record],
                        j < path'[k].next
                 PROVE  \/ mark'[deps[path'[k].record][j]] = 2
                        \/ /\ k < n + 1 /\ j = path'[k].next - 1
                           /\ deps[path'[k].record][j] = path'[k + 1].record
      BY <1>4, <2>2 DEF Visited
    <3>1. path'[k].record \in Indices /\ j \in Nat \ {0}
      <4>1. path'[k].record \in Indices
        BY <1>2, <1>3, <1>5, <2>2
      <4> QED BY <4>1, DepsTyped DEF OrderInv
    <3>2. k # n + 1
      BY <2>2, <3>1
    <3>3. k \in 1..n /\ path'[k].record = path[k].record /\ path'[k].next = moved[k].next
      BY <1>2, <1>5, <2>2, <3>2
    <3>4. \A i \in Indices : mark[i] = 2 => mark'[i] = 2
      BY <1>2, <1>9, <2>1
    <3>5. deps[path[k].record][j] \in Indices
      BY <3>1, <3>3, DepsTyped DEF OrderInv
    <3>6. CASE k = n
      <4>1. j = x \/ j < x
        BY <1>3, <1>5, <3>1, <3>3, <3>6
      <4>2. j < x => mark[deps[path[k].record][j]] = 2
        BY <1>2, <1>3, <3>3, <3>6 DEF Visited, OrderInv
      <4>3. j = x => deps[path'[k].record][j] = path'[k + 1].record /\ j = path'[k].next - 1
        BY <1>2, <1>3, <1>5, <2>2, <3>3, <3>6
      <4> QED BY <1>2, <3>3, <3>4, <3>5, <3>6, <4>1, <4>2, <4>3
    <3>7. CASE k < n
      <4>1. path'[k].next = path[k].next /\ path'[k + 1].record = path[k + 1].record
        BY <1>2, <1>5, <2>2, <3>3, <3>7
      <4>2. \/ mark[deps[path[k].record][j]] = 2
            \/ j = path[k].next - 1 /\ deps[path[k].record][j] = path[k + 1].record
        BY <1>2, <3>3, <4>1 DEF Visited, OrderInv
      <4> QED BY <1>2, <3>3, <3>4, <3>5, <3>7, <4>1, <4>2
    <3> QED BY <1>2, <3>3, <3>6, <3>7
  <2>7. RootsSeen'
    BY <1>1, <1>2, <1>3, <1>4, <2>1 DEF RootsSeen, OrderInv
  <2> QED BY <1>1, <1>7, <2>3, <2>4, <2>5, <2>6, <2>7 DEF OrderInv
<1> QED BY <1>8, <1>9

(* visit returns: all that its record embeds is in the order before it.      *)
LEMMA LeaveKeepsInv == ASSUME OrderInv, Leave PROVE OrderInv'
<1> DEFINE n == Len(path)
           m == Len(order)
           r == Top.record
           Frames == [record : Indices, next : Nat \ {0}]
<1>1. DepsOK' /\ Acyclic' /\ Indices' = Indices /\ \A rank : Lowers(rank)' <=> Lowers(rank)
  BY DepsStay DEF Leave
<1>2. /\ n = Len(path) /\ n \in Nat /\ n > 0 /\ DOMAIN path = 1..n
      /\ \A k \in 1..n : path[k].record \in Indices /\ path[k].next \in Nat \ {0}
  BY TopTyped DEF OrderInv, Leave
<1>0. /\ path \in Seq(Frames) /\ mark \in [Indices -> 0..2]
      /\ order \in Seq(Indices) /\ m = Len(order) /\ m \in Nat /\ DOMAIN order = 1..m
  BY DEF OrderInv, OrderTypeOK
<1>3. path[n] = Top /\ r = path[n].record /\ r \in Indices /\ Top.next \in Nat /\ Top.next > Len(deps[r])
  BY TopTyped DEF OrderInv, Leave
<1>4. /\ deps' = deps /\ scan' = scan
      /\ mark' = [mark EXCEPT ![r] = 2]
      /\ order' \in Seq(Indices) /\ DOMAIN order' = 1..(m + 1)
      /\ order'[m + 1] = r /\ \A p \in 1..m : order'[p] = order[p]
  BY <1>0, <1>3 DEF Leave
<1>5. /\ path' \in Seq(Frames) /\ Len(path') = n - 1 /\ DOMAIN path' = 1..(n - 1)
      /\ \A k \in 1..(n - 1) : path'[k] = path[k]
  <2>1. path' = SubSeq(path, 1, n - 1)
    BY DEF Leave
  <2> HIDE DEF n, Frames
  <2> QED BY <1>0, <1>2, <2>1
<1> HIDE DEF n, m, r, Frames
<1>6. mark[r] = 1 /\ \A k \in 1..n : path[k].record = r => k = n
  <2>1. mark[r] = 1
    BY <1>2, <1>3 DEF MarksTell, OrderInv
  <2>2. PICK rank \in [Indices -> Nat] : Lowers(rank)
    BY DEF Acyclic, OrderInv
  <2>3. \A k \in 1..n : k < n => rank[r] < rank[path[k].record]
    <3>1. \A j, k \in DOMAIN path : j < k => rank[path[k].record] < rank[path[j].record]
      BY <2>2 DEF Descending, OrderInv
    <3>2. \A k \in 1..n : k < n => rank[path[n].record] < rank[path[k].record]
      BY <1>2, <3>1
    <3> QED BY <1>3, <3>2
  <2>4. rank[r] \in Nat
    BY <1>3, <2>2
  <2> QED BY <1>2, <2>1, <2>3, <2>4
<1>7. \A j \in DOMAIN deps[r] : mark[deps[r][j]] = 2
  <2> SUFFICES ASSUME NEW j \in DOMAIN deps[r] PROVE mark[deps[r][j]] = 2
    OBVIOUS
  <2>1. j < Top.next
    BY <1>3, DepsTyped DEF OrderInv
  <2> QED BY <1>2, <1>3, <2>1 DEF Visited, OrderInv
<1>8. OrderTypeOK'
  BY <1>0, <1>1, <1>3, <1>4, <1>5 DEF Frames, OrderTypeOK, OrderInv
<1>9. MarksTell'
  <2>1. \A i \in Indices : mark'[i] = 2 <=> InOrder(i)'
    <3> SUFFICES ASSUME NEW i \in Indices
                 PROVE  mark'[i] = 2 <=> \E p \in 1..(m + 1) : order'[p] = i
      BY <1>4 DEF InOrder
    <3>1. CASE i = r
      BY <1>0, <1>3, <1>4, <3>1
    <3>2. CASE i # r
      <4>1. mark[i] = 2 <=> \E p \in 1..m : order[p] = i
        BY <1>0 DEF MarksTell, InOrder, OrderInv
      <4>2. (\E p \in 1..m : order[p] = i) <=> \E p \in 1..(m + 1) : order'[p] = i
        <5>1. ASSUME NEW p \in 1..m, order[p] = i PROVE p \in 1..(m + 1) /\ order'[p] = i
          BY <1>0, <1>4, <5>1
        <5>2. ASSUME NEW p \in 1..(m + 1), order'[p] = i PROVE p \in 1..m /\ order[p] = i
          BY <1>0, <1>4, <3>2, <5>2
        <5> QED BY <5>1, <5>2
      <4>3. mark'[i] = mark[i]
        BY <1>0, <1>4, <3>2
      <4> QED BY <4>1, <4>2, <4>3
    <3> QED BY <3>1, <3>2
  <2>2. \A i \in Indices : mark'[i] = 1 => OnPath(i)'
    <3> SUFFICES ASSUME NEW i \in Indices, mark'[i] = 1
                 PROVE  \E k \in 1..(n - 1) : path'[k].record = i
      BY <1>5 DEF OnPath
    <3>1. i # r /\ mark[i] = 1
      BY <1>0, <1>4
    <3>2. PICK k \in 1..n : path[k].record = i
      BY <1>2, <3>1 DEF MarksTell, OnPath, OrderInv
    <3>3. k \in 1..(n - 1)
      BY <1>2, <1>3, <3>1, <3>2
    <3> QED BY <1>5, <3>2, <3>3
  <2>3. \A k \in DOMAIN path' : mark'[path'[k].record] = 1
    <3> SUFFICES ASSUME NEW k \in 1..(n - 1) PROVE mark'[path[k].record] = 1
      BY <1>5
    <3>1. path[k].record \in Indices /\ path[k].record # r
      BY <1>2, <1>6
    <3>2. mark[path[k].record] = 1
      BY <1>2 DEF MarksTell, OrderInv
    <3> QED BY <1>2, <1>4, <3>1, <3>2
  <2> QED BY <1>1, <2>1, <2>2, <2>3 DEF MarksTell
<1>10. Descending'
  <2> SUFFICES ASSUME NEW rank \in [Indices -> Nat], Lowers(rank),
                      NEW j \in 1..(n - 1), NEW k \in 1..(n - 1), j < k
               PROVE  rank[path[k].record] < rank[path[j].record]
    BY <1>1, <1>5 DEF Descending
  <2>1. j \in 1..n /\ k \in 1..n
    BY <1>2
  <2> QED BY <1>2, <2>1 DEF Descending, OrderInv
<1>11. Visited'
  <2> SUFFICES ASSUME NEW k \in 1..(n - 1), NEW j \in DOMAIN deps[path[k].record],
                      j < path[k].next
               PROVE  \/ mark'[deps[path[k].record][j]] = 2
                      \/ /\ k < n - 1 /\ j = path[k].next - 1
                         /\ deps[path[k].record][j] = path'[k + 1].record
    <3>1. \A k \in 1..(n - 1) : /\ path'[k].record = path[k].record
                                /\ path'[k].next = path[k].next
      BY <1>5
    <3>2. DOMAIN path' = 1..(n - 1) /\ Len(path') = n - 1 /\ deps' = deps
      BY <1>4, <1>5
    <3> QED BY <3>1, <3>2 DEF Visited
  <2>1. deps[path[k].record][j] \in Indices
    <3>1. path[k].record \in Indices
      BY <1>2
    <3> QED BY <3>1, DepsTyped DEF OrderInv
  <2>2. \/ mark[deps[path[k].record][j]] = 2
        \/ j = path[k].next - 1 /\ deps[path[k].record][j] = path[k + 1].record
    BY <1>2 DEF Visited, OrderInv
  <2>3. CASE mark[deps[path[k].record][j]] = 2
    BY <1>2, <1>4, <2>1, <2>3
  <2>4. CASE j = path[k].next - 1 /\ deps[path[k].record][j] = path[k + 1].record
    <3>1. CASE k = n - 1     \* the frame above is the one that returns
      <4>1. k + 1 = n
        BY <1>2, <3>1
      <4>2. deps[path[k].record][j] = r
        BY <1>3, <2>4, <4>1
      <4> QED BY <1>0, <1>3, <1>4, <4>2
    <3>2. CASE k < n - 1
      BY <1>2, <1>5, <2>4, <3>2
    <3> QED BY <1>2, <3>1, <3>2
  <2> QED BY <2>2, <2>3, <2>4
<1>12. RootsSeen'
  BY <1>1, <1>2, <1>3, <1>4 DEF RootsSeen, OrderInv
<1>13. DependenciesFirst'
  <2>1. \A p \in 1..m : order[p] # r
    <3>1. ~InOrder(r)
      BY <1>3, <1>6 DEF MarksTell, OrderInv
    <3> QED BY <1>0, <3>1 DEF InOrder
  <2>2. \A p, q \in DOMAIN order' : order'[p] = order'[q] => p = q
    BY <1>0, <1>4, <2>1 DEF DependenciesFirst, OrderInv
  <2>3. \A p \in DOMAIN order' : \A k \in DOMAIN deps[order'[p]] :
          \E q \in DOMAIN order' : q < p /\ order'[q] = deps[order'[p]][k]
    <3> SUFFICES ASSUME NEW p \in 1..(m + 1), NEW k \in DOMAIN deps[order'[p]]
                 PROVE  \E q \in 1..(m + 1) : q < p /\ order'[q] = deps[order'[p]][k]
      BY <1>4
    <3>1. CASE p = m + 1
      <4>1. order'[p] = r /\ deps[r][k] \in Indices /\ mark[deps[r][k]] = 2
        BY <1>3, <1>4, <1>7, <3>1, DepsTyped DEF OrderInv
      <4>2. PICK q \in 1..m : order[q] = deps[r][k]
        BY <1>0, <4>1 DEF MarksTell, InOrder, OrderInv
      <4> QED BY <1>0, <1>4, <3>1, <4>1, <4>2
    <3>2. CASE p # m + 1
      <4>1. p \in 1..m /\ order'[p] = order[p]
        BY <1>0, <1>4, <3>2
      <4>2. PICK q \in 1..m : q < p /\ order[q] = deps[order[p]][k]
        <5>1. p \in DOMAIN order /\ k \in DOMAIN deps[order[p]]
          BY <1>0, <1>4, <4>1
        <5>2. \E q \in DOMAIN order : q < p /\ order[q] = deps[order[p]][k]
          BY <5>1 DEF DependenciesFirst, OrderInv
        <5> QED BY <1>0, <5>2
      <4> QED BY <1>0, <1>4, <4>1, <4>2
    <3> QED BY <3>1, <3>2
  <2> QED BY <1>4, <2>2, <2>3 DEF DependenciesFirst
<1> QED BY <1>1, <1>8, <1>9, <1>10, <1>11, <1>12, <1>13 DEF OrderInv
-----------------------------------------------------------------------------
(* When the walk has ended every record was marked, and none is in progress. *)
LEMMA InvImpliesSound == OrderInv => OrderSound
<1> SUFFICES ASSUME OrderInv, Ordered, NEW i \in Indices
             PROVE  \E p \in DOMAIN order : order[p] = i
  BY DEF OrderSound, NoRecordMissing, OrderInv
<1>1. i < scan
  BY DepsTyped DEF Ordered, OrderInv, OrderTypeOK
<1>2. mark[i] # 0 /\ mark[i] # 1
  BY <1>1 DEF OrderInv, RootsSeen, MarksTell, OnPath, Ordered
<1>3. mark[i] = 2
  BY <1>2 DEF OrderInv, OrderTypeOK
<1> QED BY <1>3 DEF OrderInv, MarksTell, InOrder

(* The walk keeps the invariant.                                             *)
LEMMA OrderInvariant == OrderSpec => []OrderInv
<1>1. OrderInv /\ [OrderStep]_orderVars => OrderInv'
  <2> SUFFICES ASSUME OrderInv, [OrderStep]_orderVars PROVE OrderInv'
    OBVIOUS
  <2>1. CASE UNCHANGED orderVars
    <3>1. /\ mark' = mark /\ path' = path /\ order' = order /\ scan' = scan /\ deps' = deps
      BY <2>1 DEF orderVars
    <3>2. DepsOK' /\ Acyclic' /\ Indices' = Indices /\ \A rank : Lowers(rank)' <=> Lowers(rank)
      BY <3>1, DepsStay
    <3>3. OrderTypeOK' /\ RootsSeen'
      BY <3>1, <3>2 DEF OrderInv, OrderTypeOK, RootsSeen
    <3>4. MarksTell' /\ Visited' /\ DependenciesFirst'
      BY <3>1, <3>2 DEF OrderInv, MarksTell, OnPath, InOrder, Visited, DependenciesFirst
    <3>5. Descending'
      BY <3>1, <3>2 DEF OrderInv, Descending
    <3> QED BY <3>2, <3>3, <3>4, <3>5 DEF OrderInv
  <2> QED BY <2>1, RootKeepsInv, DependencyKeepsInv, LeaveKeepsInv DEF OrderStep
<1> QED BY <1>1, InvHoldsAtStart, PTL DEF OrderSpec

(* Marks, path, order and scan stay in their ranges for every header.        *)
THEOREM OrderTypeCorrect == OrderSpec => []OrderTypeOK
<1>1. OrderInv => OrderTypeOK
  BY DEF OrderInv
<1> QED BY <1>1, OrderInvariant, PTL

(* The order has each record once and after all that it embeds, and in the   *)
(* end it has them all, for every number of records that embed each other in *)
(* any way that is not circular.                                             *)
THEOREM OrderCorrect == OrderSpec => []OrderSound
BY OrderInvariant, InvImpliesSound, PTL
-----------------------------------------------------------------------------
(* The demos.                                                                *)

AppTypeOK ==
  /\ program \in {"headless", "interactive"}
  /\ pc \in {"start", "pump", "adapter", "device", "submit", "map",
             "configure", "loop", "acquire", "release"}
  /\ status \in {"running", "failed", "timed out", "undefined", "done"}
  /\ requested \in {"none", "adapter", "device", "map"}
  /\ answer \in {"none", "good", "bad"}
  /\ \A k \in DOMAIN got : got[k] \in {"good", "bad"}
  /\ gpu \in [work : {"none", "submitted", "executed"}, buffer : {"blank", "pixels"},
              mapped : BOOLEAN, png : {"none", "blank", "pixels", "garbage"}]
  /\ frame \in Nat

(* Each program runs its own steps, and leaves the pump only when the        *)
(* callback it waits for has run.                                            *)
StepsInOrder ==
  /\ pc \in {"adapter", "device", "map"} => pc \in DOMAIN got
  /\ pc = "pump" => requested # "none"
  /\ program = "headless" => pc \in {"start", "pump", "adapter", "device", "submit", "map"}
  /\ program = "interactive" => requested # "map" /\ pc \notin {"submit", "map"}

(* The buffer is mapped from the driver's good answer until it is read, and  *)
(* what is mapped has been written.                                          *)
MappedOnceWritten ==
  /\ gpu.work = "executed" \/ gpu.mapped => gpu.buffer = "pixels"
  /\ Running /\ requested = "map" /\ answer = "good" => gpu.mapped
  /\ Running /\ Brought("map") => gpu.mapped

(* The loop knows the size of its surface, and counts its frames.            *)
SizeFollowed == size = surface /\ (Running => frame < MaxFrames)

AppInv == /\ AppTypeOK /\ StepsInOrder /\ MappedOnceWritten /\ SizeFollowed
        /\ HandlesAwaited /\ PixelsComplete /\ FramesConsistent
-----------------------------------------------------------------------------
LEMMA InitHolds ==
  ASSUME WebGpuAppAssumption, AppInit
  PROVE  AppInv
<1>1. DOMAIN got = {}
  BY DEF AppInit
<1>2. AppTypeOK
  BY <1>1 DEF AppInit, AppTypeOK
<1>3. StepsInOrder /\ MappedOnceWritten /\ SizeFollowed
  BY <1>1 DEF AppInit, StepsInOrder, MappedOnceWritten, SizeFollowed, Brought, WebGpuAppAssumption
<1>4. HandlesAwaited /\ PixelsComplete /\ FramesConsistent
  BY DEF AppInit, HandlesAwaited, PixelsComplete, FramesConsistent
<1> QED
  BY <1>2, <1>3, <1>4 DEF AppInv

(* Steps of the driver.                                                      *)
LEMMA ExecuteHolds ==
  ASSUME AppInv, Running, Execute
  PROVE  AppInv'
<1>1. /\ UNCHANGED <<program, pc, status, waiting, used, screen>>
      /\ gpu.work = "submitted" /\ gpu'.work = "executed" /\ gpu'.buffer = "pixels"
      /\ gpu'.mapped = gpu.mapped /\ gpu'.png = gpu.png
      /\ gpu' \in [work : {"none", "submitted", "executed"}, buffer : {"blank", "pixels"},
                   mapped : BOOLEAN, png : {"none", "blank", "pixels", "garbage"}]
  BY DEF Execute, AppInv, AppTypeOK
<1>2. AppTypeOK'
  BY <1>1 DEF AppInv, AppTypeOK, waiting, screen
<1>3. StepsInOrder' /\ SizeFollowed'
  BY <1>1 DEF AppInv, StepsInOrder, SizeFollowed, waiting, screen, Running
<1>4. MappedOnceWritten'
  BY <1>1 DEF AppInv, MappedOnceWritten, waiting, screen, Running, Brought
<1>5. HandlesAwaited' /\ PixelsComplete' /\ FramesConsistent'
  BY <1>1 DEF AppInv, HandlesAwaited, PixelsComplete, FramesConsistent, waiting, screen, Brought
<1> QED
  BY <1>2, <1>3, <1>4, <1>5 DEF AppInv

LEMMA AnswerHolds ==
  ASSUME AppInv, Running, Answer
  PROVE  AppInv'
<1>1. PICK a \in {"good", "bad"} :
        /\ requested = "map" /\ a = "good" => gpu.work = "executed"
        /\ answer' = a
        /\ gpu' = [gpu EXCEPT !.mapped = @ \/ (requested = "map" /\ a = "good")]
  BY DEF Answer
<1>2. UNCHANGED <<program, pc, status, requested, got, turns, used, screen>>
  BY DEF Answer
<1>3. gpu \in [work : {"none", "submitted", "executed"}, buffer : {"blank", "pixels"},
                   mapped : BOOLEAN, png : {"none", "blank", "pixels", "garbage"}]
  BY DEF AppInv, AppTypeOK
<1>4. /\ gpu'.work = gpu.work /\ gpu'.buffer = gpu.buffer /\ gpu'.png = gpu.png
      /\ gpu'.mapped <=> gpu.mapped \/ (requested = "map" /\ a = "good")
      /\ gpu' \in [work : {"none", "submitted", "executed"}, buffer : {"blank", "pixels"},
                   mapped : BOOLEAN, png : {"none", "blank", "pixels", "garbage"}]
  BY <1>1, <1>3
<1>5. AppTypeOK'
  <2>1. AppTypeOK
    BY DEF AppInv
  <2>2. answer' \in {"none", "good", "bad"}
    BY <1>1
  <2>3. /\ program' = program /\ pc' = pc /\ status' = status
        /\ requested' = requested /\ got' = got /\ frame' = frame
    BY <1>2 DEF screen
  <2> QED
    BY <1>4, <2>1, <2>2, <2>3 DEF AppTypeOK
<1>6. StepsInOrder' /\ SizeFollowed'
  BY <1>2 DEF AppInv, StepsInOrder, SizeFollowed, screen, Running
<1>7. MappedOnceWritten'
  BY <1>1, <1>2, <1>4 DEF AppInv, MappedOnceWritten, screen, Running, Brought
<1>8. HandlesAwaited' /\ PixelsComplete' /\ FramesConsistent'
  BY <1>2, <1>4 DEF AppInv, HandlesAwaited, PixelsComplete, FramesConsistent, screen, Brought
<1> QED
  BY <1>5, <1>6, <1>7, <1>8 DEF AppInv

(* What the user does.                                                       *)
LEMMA UserHolds ==
  ASSUME AppInv, Running, Resize \/ Close
  PROVE  AppInv'
<1>1. /\ UNCHANGED <<program, pc, status, waiting, used, gpu, size, surface, uniform, held, frame>>
      /\ status = "running"
  BY DEF Resize, Close, Running
<1>2. AppTypeOK' /\ StepsInOrder' /\ SizeFollowed'
  BY <1>1 DEF AppInv, AppTypeOK, StepsInOrder, SizeFollowed, waiting, Running
<1>3. MappedOnceWritten'
  BY <1>1 DEF AppInv, MappedOnceWritten, waiting, Running, Brought
<1>4. HandlesAwaited' /\ PixelsComplete' /\ FramesConsistent'
  BY <1>1 DEF AppInv, HandlesAwaited, PixelsComplete, FramesConsistent, waiting, Brought
<1> QED
  BY <1>2, <1>3, <1>4 DEF AppInv
-----------------------------------------------------------------------------
(* Steps of the pump and of the requests.                                    *)
LEMMA StartHolds ==
  ASSUME AppInv, Running, Start
  PROVE  AppInv'
<1>1. /\ UNCHANGED <<program, used, gpu, screen, got>> /\ pc = "start" /\ status = "running"
      /\ \/ status' = "failed" /\ pc' = "start" /\ UNCHANGED <<requested, answer>>
         \/ status' = "running" /\ pc' = "pump" /\ requested' = "adapter" /\ answer' = "none"
  BY DEF Start, Ends, Goes, Request, waiting, Running
<1>2. AppTypeOK' /\ StepsInOrder' /\ SizeFollowed'
  <2>1. AppTypeOK'
    BY <1>1 DEF AppInv, AppTypeOK, screen
  <2>2. StepsInOrder'
    BY <1>1 DEF AppInv, StepsInOrder
  <2>3. SizeFollowed'
    BY <1>1 DEF AppInv, SizeFollowed, screen, Running
  <2> QED
    BY <2>1, <2>2, <2>3
<1>3. MappedOnceWritten'
  BY <1>1 DEF AppInv, MappedOnceWritten, screen, Running, Brought
<1>4. HandlesAwaited' /\ PixelsComplete' /\ FramesConsistent'
  BY <1>1 DEF AppInv, HandlesAwaited, PixelsComplete, FramesConsistent, screen, Brought
<1> QED
  BY <1>2, <1>3, <1>4 DEF AppInv

LEMMA PumpReturnHolds ==
  ASSUME AppInv, Running, PumpReturn
  PROVE  AppInv'
<1>1. /\ UNCHANGED <<program, status, waiting, used, gpu, screen>> /\ pc = "pump"
      /\ requested \in DOMAIN got /\ pc' = requested /\ requested # "none"
  BY DEF PumpReturn, Goes, AppInv, StepsInOrder
<1>2. AppTypeOK' /\ StepsInOrder' /\ SizeFollowed'
  BY <1>1 DEF AppInv, AppTypeOK, StepsInOrder, SizeFollowed, screen, waiting, Running
<1>3. MappedOnceWritten'
  BY <1>1 DEF AppInv, MappedOnceWritten, screen, waiting, Running, Brought
<1>4. HandlesAwaited' /\ PixelsComplete' /\ FramesConsistent'
  BY <1>1 DEF AppInv, AppTypeOK, HandlesAwaited, PixelsComplete, FramesConsistent, screen, waiting, Brought
<1> QED
  BY <1>2, <1>3, <1>4 DEF AppInv

LEMMA PumpTurnHolds ==
  ASSUME AppInv, Running, PumpTurn
  PROVE  AppInv'
<1>1. /\ UNCHANGED <<program, pc, status, requested, answer, used, gpu, screen>> /\ pc = "pump"
      /\ requested \notin DOMAIN got
      /\ got' = IF answer = "none" THEN got
                ELSE [k \in DOMAIN got \cup {requested} |->
                        IF k = requested THEN answer ELSE got[k]]
  BY DEF PumpTurn
<1>2. /\ \A k \in DOMAIN got : k \in DOMAIN got' /\ got'[k] = got[k]
      /\ \A k \in DOMAIN got' : \/ k \in DOMAIN got
                                \/ k = requested /\ got'[k] = answer /\ answer # "none"
  BY <1>1
<1>3. AppTypeOK'
  <2>1. answer \in {"none", "good", "bad"} /\ \A k \in DOMAIN got : got[k] \in {"good", "bad"}
    BY DEF AppInv, AppTypeOK
  <2>2. \A k \in DOMAIN got' : got'[k] \in {"good", "bad"}
    BY <2>1, <1>2
  <2> QED
    BY <2>2, <1>1, ZenonT(60) DEF AppInv, AppTypeOK, screen
<1>4. StepsInOrder' /\ SizeFollowed'
  BY <1>1, <1>2 DEF AppInv, StepsInOrder, SizeFollowed, screen, Running
<1>5. MappedOnceWritten'
  <2>1. Brought("map")' => Brought("map") \/ (requested = "map" /\ answer = "good")
    BY <1>2 DEF Brought
  <2> QED
    BY <1>1, <2>1 DEF AppInv, MappedOnceWritten, Running
<1>6. HandlesAwaited'
  <2>1. \A h \in DOMAIN got : Brought(h) => Brought(h)'
    BY <1>2 DEF Brought
  <2>2. status # "undefined"
    BY DEF Running
  <2> QED
    BY <1>1, <1>2, <2>1, <2>2 DEF AppInv, HandlesAwaited
<1>7. PixelsComplete' /\ FramesConsistent'
  BY <1>1 DEF AppInv, PixelsComplete, FramesConsistent, screen
<1> QED
  BY <1>3, <1>4, <1>5, <1>6, <1>7 DEF AppInv

LEMMA PumpRaiseHolds ==
  ASSUME AppInv, Running, PumpRaise
  PROVE  AppInv'
<1>1. /\ UNCHANGED <<program, pc, waiting, used, gpu, screen>> /\ pc = "pump"
      /\ status' = "timed out"
  BY DEF PumpRaise, Ends
<1>2. AppTypeOK' /\ StepsInOrder' /\ SizeFollowed'
  <2>1. AppTypeOK'
    BY <1>1 DEF AppInv, AppTypeOK, screen, waiting
  <2>2. StepsInOrder'
    BY <1>1 DEF AppInv, StepsInOrder, screen, waiting
  <2>3. SizeFollowed'
    BY <1>1 DEF AppInv, SizeFollowed, screen, Running
  <2> QED
    BY <2>1, <2>2, <2>3
<1>3. MappedOnceWritten'
  BY <1>1 DEF AppInv, MappedOnceWritten, screen, waiting, Running
<1>4. HandlesAwaited' /\ PixelsComplete' /\ FramesConsistent'
  BY <1>1 DEF AppInv, HandlesAwaited, PixelsComplete, FramesConsistent, screen, waiting, Brought
<1> QED
  BY <1>2, <1>3, <1>4 DEF AppInv

LEMMA HaveAdapterHolds ==
  ASSUME AppInv, Running, HaveAdapter
  PROVE  AppInv'
<1>1. /\ UNCHANGED <<program, gpu, screen, got>> /\ pc = "adapter" /\ status = "running"
      /\ \/ /\ Brought("adapter") /\ pc' = "pump" /\ status' = "running"
            /\ requested' = "device" /\ answer' = "none" /\ used' = used \cup {"adapter"}
         \/ status' = "failed" /\ pc' = "adapter" /\ UNCHANGED <<requested, answer, used>>
  BY DEF HaveAdapter, Goes, Ends, Request, waiting, Running
<1>2. AppTypeOK' /\ StepsInOrder' /\ SizeFollowed'
  <2>1. AppTypeOK'
    BY <1>1 DEF AppInv, AppTypeOK, screen
  <2>2. StepsInOrder'
    BY <1>1 DEF AppInv, StepsInOrder
  <2>3. SizeFollowed'
    BY <1>1 DEF AppInv, SizeFollowed, screen, Running
  <2> QED
    BY <2>1, <2>2, <2>3
<1>3. MappedOnceWritten'
  BY <1>1 DEF AppInv, MappedOnceWritten, screen, Running, Brought
<1>4. HandlesAwaited' /\ PixelsComplete' /\ FramesConsistent'
  BY <1>1 DEF AppInv, HandlesAwaited, PixelsComplete, FramesConsistent, screen, Brought
<1> QED
  BY <1>2, <1>3, <1>4 DEF AppInv

LEMMA HaveDeviceHolds ==
  ASSUME AppInv, Running, HaveDevice
  PROVE  AppInv'
<1>1. /\ UNCHANGED <<program, waiting, gpu, screen>> /\ pc = "device" /\ status = "running"
      /\ used' = IF program = "headless" \/ Brought("device") THEN used \cup {"device"} ELSE used
      /\ \/ program = "headless" /\ Brought("device") /\ pc' = "submit" /\ status' = status
         \/ program = "headless" /\ ~Brought("device") /\ pc' = pc /\ status' = "undefined"
         \/ program # "headless" /\ pc' = "configure" /\ status' = status
         \/ program # "headless" /\ pc' = pc /\ status' = "failed"
  BY DEF HaveDevice, Goes, Ends, Checked, Running
<1>2. "device" \in DOMAIN got /\ got["device"] \in {"good", "bad"}
  BY <1>1 DEF AppInv, StepsInOrder, AppTypeOK
<1>3. AppTypeOK' /\ StepsInOrder' /\ SizeFollowed'
  <2>1. AppTypeOK'
    BY <1>1, ZenonT(60) DEF AppInv, AppTypeOK, screen, waiting
  <2>2. StepsInOrder'
    BY <1>1 DEF AppInv, AppTypeOK, StepsInOrder, screen, waiting
  <2>3. SizeFollowed'
    BY <1>1 DEF AppInv, SizeFollowed, screen, Running
  <2> QED
    BY <2>1, <2>2, <2>3
<1>4. MappedOnceWritten'
  BY <1>1 DEF AppInv, MappedOnceWritten, screen, waiting, Running, Brought
<1>5. HandlesAwaited'
  <2>1. \A h \in used' : h \in DOMAIN got /\ (Brought(h) \/ <<program, h>> = <<"headless", "device">>)
    BY <1>1, <1>2 DEF AppInv, HandlesAwaited
  <2>2. status' = "undefined" => program = "headless" /\ got["device"] = "bad"
    BY <1>1, <1>2 DEF Brought
  <2> QED
    BY <1>1, <2>1, <2>2 DEF HandlesAwaited, Brought, waiting
<1>6. PixelsComplete' /\ FramesConsistent'
  BY <1>1 DEF AppInv, PixelsComplete, FramesConsistent, screen
<1> QED
  BY <1>3, <1>4, <1>5, <1>6 DEF AppInv
-----------------------------------------------------------------------------
(* The frame of app.py.                                                      *)
LEMMA SubmitHolds ==
  ASSUME AppInv, Running, Submit
  PROVE  AppInv'
<1>1. /\ UNCHANGED <<program, used, screen, got>> /\ pc = "submit" /\ status = "running"
      /\ gpu' = [gpu EXCEPT !.work = "submitted"]
      /\ pc' = "pump" /\ status' = "running" /\ requested' = "map" /\ answer' = "none"
  BY DEF Submit, Goes, Request, Running
<1>2. program = "headless"
  BY <1>1 DEF AppInv, StepsInOrder, AppTypeOK
<1>3. gpu \in [work : {"none", "submitted", "executed"}, buffer : {"blank", "pixels"},
                   mapped : BOOLEAN, png : {"none", "blank", "pixels", "garbage"}]
  BY DEF AppInv, AppTypeOK
<1>4. /\ gpu'.work = "submitted" /\ gpu'.buffer = gpu.buffer /\ gpu'.png = gpu.png
      /\ gpu'.mapped = gpu.mapped
      /\ gpu' \in [work : {"none", "submitted", "executed"}, buffer : {"blank", "pixels"},
                   mapped : BOOLEAN, png : {"none", "blank", "pixels", "garbage"}]
  BY <1>1, <1>3
<1>5. AppTypeOK' /\ StepsInOrder' /\ SizeFollowed'
  BY <1>1, <1>2, <1>4 DEF AppInv, AppTypeOK, StepsInOrder, SizeFollowed, screen, Running
<1>6. MappedOnceWritten'
  BY <1>1, <1>4 DEF AppInv, MappedOnceWritten, screen, Running, Brought
<1>7. HandlesAwaited' /\ PixelsComplete' /\ FramesConsistent'
  BY <1>1, <1>4 DEF AppInv, HandlesAwaited, PixelsComplete, FramesConsistent, screen, Brought
<1> QED
  BY <1>5, <1>6, <1>7 DEF AppInv

LEMMA ReadBackHolds ==
  ASSUME AppInv, Running, ReadBack
  PROVE  AppInv'
<1>1. /\ UNCHANGED <<program, pc, waiting, used, screen>> /\ pc = "map" /\ status = "running"
      /\ \/ Brought("map") /\ status' = "done"
              /\ gpu' = [gpu EXCEPT !.png = IF gpu.mapped THEN gpu.buffer ELSE "garbage",
                                    !.mapped = FALSE]
         \/ status' = "failed" /\ UNCHANGED gpu
  BY DEF ReadBack, Ends, Running
<1>2. program = "headless"
  BY <1>1 DEF AppInv, StepsInOrder, AppTypeOK
<1>3. gpu \in [work : {"none", "submitted", "executed"}, buffer : {"blank", "pixels"},
                   mapped : BOOLEAN, png : {"none", "blank", "pixels", "garbage"}]
  BY DEF AppInv, AppTypeOK
<1>4. Brought("map") => gpu.mapped /\ gpu.buffer = "pixels"
  BY DEF AppInv, MappedOnceWritten
<1>5. /\ gpu'.work = gpu.work /\ gpu'.buffer = gpu.buffer
      /\ gpu'.mapped => gpu.mapped
      /\ status' = "done" => gpu'.png = "pixels"
      /\ gpu' \in [work : {"none", "submitted", "executed"}, buffer : {"blank", "pixels"},
                   mapped : BOOLEAN, png : {"none", "blank", "pixels", "garbage"}]
  BY <1>1, <1>3, <1>4
<1>6. AppTypeOK' /\ StepsInOrder' /\ SizeFollowed'
  BY <1>1, <1>2, <1>5 DEF AppInv, AppTypeOK, StepsInOrder, SizeFollowed, screen, waiting, Running
<1>7. MappedOnceWritten'
  BY <1>1, <1>5 DEF AppInv, MappedOnceWritten, Running
<1>8. HandlesAwaited' /\ PixelsComplete' /\ FramesConsistent'
  BY <1>1, <1>2, <1>5 DEF AppInv, HandlesAwaited, PixelsComplete, FramesConsistent, screen, waiting, Brought
<1> QED
  BY <1>6, <1>7, <1>8 DEF AppInv
-----------------------------------------------------------------------------
(* The loop of interactive.py.                                               *)
LEMMA ConfigureHolds ==
  ASSUME AppInv, Running, Configure
  PROVE  AppInv'
<1>1. /\ UNCHANGED <<program, waiting, used, gpu, window, closed, uniform, held, frame>>
      /\ pc = "configure" /\ status = "running" /\ status' = "running" /\ pc' = "loop"
      /\ size' = surface'
  BY DEF Configure, Goes, Running
<1>2. program = "interactive"
  BY <1>1 DEF AppInv, StepsInOrder, AppTypeOK
<1>3. AppTypeOK' /\ StepsInOrder' /\ SizeFollowed'
  BY <1>1, <1>2 DEF AppInv, AppTypeOK, StepsInOrder, SizeFollowed, waiting, Running
<1>4. MappedOnceWritten'
  BY <1>1 DEF AppInv, MappedOnceWritten, waiting, Running, Brought
<1>5. HandlesAwaited' /\ PixelsComplete' /\ FramesConsistent'
  BY <1>1, <1>2 DEF AppInv, HandlesAwaited, PixelsComplete, FramesConsistent, waiting, Brought
<1> QED
  BY <1>3, <1>4, <1>5 DEF AppInv

LEMMA LoopTopHolds ==
  ASSUME AppInv, Running, LoopTop
  PROVE  AppInv'
<1>1. /\ UNCHANGED <<program, waiting, used, gpu, window, closed, held, frame>>
      /\ pc = "loop" /\ status = "running"
      /\ \/ closed /\ status' = "done" /\ pc' = pc /\ UNCHANGED <<size, surface, uniform>>
         \/ /\ status' = status /\ pc' = "acquire"
            /\ size' = IF window # 0 THEN window ELSE size
            /\ surface' = IF window \notin {0, size} THEN window ELSE surface
            /\ uniform' = size'
  BY DEF LoopTop, Goes, Ends, Running
<1>2. program = "interactive" /\ size = surface /\ held = << >>
  BY <1>1 DEF AppInv, StepsInOrder, AppTypeOK, SizeFollowed, FramesConsistent
<1>3. size' = surface'
  BY <1>1, <1>2
<1>4. AppTypeOK' /\ StepsInOrder' /\ SizeFollowed'
  <2>1. AppTypeOK'
    <3>1. /\ UNCHANGED <<program, requested, answer, got, gpu, frame>>
          /\ pc' \in {"loop", "acquire"} /\ status' \in {"running", "done"}
      BY <1>1 DEF waiting
    <3>2. AppTypeOK
      BY DEF AppInv
    <3>3. pc' \in {"start", "pump", "adapter", "device", "submit", "map",
                   "configure", "loop", "acquire", "release"}
      BY <3>1
    <3>4. status' \in {"running", "failed", "timed out", "undefined", "done"}
      BY <3>1
    <3>5. /\ program' = program /\ requested' = requested /\ answer' = answer
          /\ got' = got /\ gpu' = gpu /\ frame' = frame
      BY <3>1
    <3> QED
      BY <3>2, <3>3, <3>4, <3>5 DEF AppTypeOK
  <2>2. StepsInOrder'
    BY <1>1, <1>2, <1>3 DEF AppInv, StepsInOrder, AppTypeOK, waiting
  <2>3. SizeFollowed'
    BY <1>1, <1>2, <1>3 DEF AppInv, SizeFollowed, Running
  <2> QED
    BY <2>1, <2>2, <2>3
<1>5. MappedOnceWritten'
  BY <1>1 DEF AppInv, MappedOnceWritten, waiting, Running, Brought
<1>6. HandlesAwaited' /\ PixelsComplete' /\ FramesConsistent'
  BY <1>1, <1>2, <1>3 DEF AppInv, HandlesAwaited, PixelsComplete, FramesConsistent, waiting, Brought
<1> QED
  BY <1>4, <1>5, <1>6 DEF AppInv

LEMMA AcquireHolds ==
  ASSUME AppInv, Running, AcquireNone \/ AcquireAndDraw
  PROVE  AppInv'
<1>1. /\ UNCHANGED <<program, status, waiting, used, gpu, window, closed, size, surface,
                     uniform, frame>>
      /\ pc = "acquire" /\ status = "running"
      /\ \/ pc' = "loop" /\ held' = held
         \/ pc' = "release"
  BY DEF AcquireNone, AcquireAndDraw, Goes, Running, screen
<1>2. program = "interactive" /\ held = << >>
  BY <1>1 DEF AppInv, StepsInOrder, AppTypeOK, FramesConsistent
<1>3. AppTypeOK' /\ StepsInOrder' /\ SizeFollowed'
  BY <1>1, <1>2 DEF AppInv, AppTypeOK, StepsInOrder, SizeFollowed, waiting, Running
<1>4. MappedOnceWritten'
  BY <1>1 DEF AppInv, MappedOnceWritten, waiting, Running, Brought
<1>5. HandlesAwaited' /\ PixelsComplete' /\ FramesConsistent'
  BY <1>1, <1>2 DEF AppInv, HandlesAwaited, PixelsComplete, FramesConsistent, waiting, Brought
<1> QED
  BY <1>3, <1>4, <1>5 DEF AppInv

LEMMA ReleaseHolds ==
  ASSUME AppInv, Running, Release
  PROVE  AppInv'
<1>1. /\ UNCHANGED <<program, pc, status, waiting, used, gpu, window, closed, size, surface,
                     uniform, frame>>
      /\ pc = "release" /\ status = "running"
  BY DEF Release, Running
<1>2. AppTypeOK' /\ StepsInOrder' /\ SizeFollowed'
  BY <1>1 DEF AppInv, AppTypeOK, StepsInOrder, SizeFollowed, waiting, Running
<1>3. MappedOnceWritten'
  BY <1>1 DEF AppInv, MappedOnceWritten, waiting, Running, Brought
<1>4. HandlesAwaited' /\ PixelsComplete' /\ FramesConsistent'
  BY <1>1 DEF AppInv, HandlesAwaited, PixelsComplete, FramesConsistent, waiting, Brought
<1> QED
  BY <1>2, <1>3, <1>4 DEF AppInv

LEMMA FrameDoneHolds ==
  ASSUME WebGpuAppAssumption, AppInv, Running, FrameDone
  PROVE  AppInv'
<1>1. /\ UNCHANGED <<program, waiting, used, gpu, window, closed, size, surface, uniform, held>>
      /\ pc = "release" /\ status = "running" /\ held = << >> /\ frame' = frame + 1
      /\ \/ frame + 1 >= MaxFrames /\ status' = "done" /\ pc' = pc
         \/ ~ (frame + 1 >= MaxFrames) /\ status' = status /\ pc' = "loop"
  BY DEF FrameDone, Goes, Ends, Running
<1>2. program = "interactive" /\ frame \in Nat /\ frame < MaxFrames /\ MaxFrames \in Nat
  BY <1>1 DEF AppInv, StepsInOrder, AppTypeOK, SizeFollowed, Running, WebGpuAppAssumption
<1>3. /\ frame' \in Nat /\ (status' = "running" => frame' < MaxFrames)
      /\ status' = "done" => frame' = MaxFrames
  BY <1>1, <1>2
<1>4. AppTypeOK' /\ StepsInOrder' /\ SizeFollowed'
  <2>1. AppTypeOK'
    BY <1>1, <1>3, ZenonT(60) DEF AppInv, AppTypeOK, waiting
  <2>2. StepsInOrder'
    BY <1>1, <1>2 DEF AppInv, StepsInOrder, waiting
  <2>3. SizeFollowed'
    BY <1>1, <1>3 DEF AppInv, SizeFollowed, Running
  <2> QED
    BY <2>1, <2>2, <2>3
<1>5. MappedOnceWritten'
  BY <1>1 DEF AppInv, MappedOnceWritten, waiting, Running, Brought
<1>6. HandlesAwaited' /\ PixelsComplete' /\ FramesConsistent'
  BY <1>1, <1>2, <1>3 DEF AppInv, HandlesAwaited, PixelsComplete, FramesConsistent, waiting, Brought
<1> QED
  BY <1>4, <1>5, <1>6 DEF AppInv
-----------------------------------------------------------------------------
LEMMA StutterHolds ==
  ASSUME AppInv, UNCHANGED appVars
  PROVE  AppInv'
<1>1. /\ program' = program /\ pc' = pc /\ status' = status /\ requested' = requested
      /\ answer' = answer /\ got' = got /\ used' = used /\ gpu' = gpu /\ closed' = closed
      /\ size' = size /\ surface' = surface /\ uniform' = uniform /\ held' = held
      /\ frame' = frame
  BY DEF appVars, waiting, screen
<1>2. AppTypeOK'
  <2>1. AppTypeOK
    BY DEF AppInv
  <2>2. \A k \in DOMAIN got' : got'[k] \in {"good", "bad"}
    BY <1>1, <2>1 DEF AppTypeOK
  <2>3. gpu' \in [work : {"none", "submitted", "executed"}, buffer : {"blank", "pixels"},
                  mapped : BOOLEAN, png : {"none", "blank", "pixels", "garbage"}]
    BY <1>1, <2>1 DEF AppTypeOK
  <2> QED
    BY <1>1, <2>1, <2>2, <2>3 DEF AppTypeOK
<1>3. StepsInOrder' /\ SizeFollowed'
  BY <1>1 DEF AppInv, StepsInOrder, SizeFollowed, Running
<1>4. MappedOnceWritten'
  BY <1>1 DEF AppInv, MappedOnceWritten, Running, Brought
<1>5. HandlesAwaited' /\ PixelsComplete' /\ FramesConsistent'
  BY <1>1 DEF AppInv, HandlesAwaited, PixelsComplete, FramesConsistent, Brought
<1> QED
  BY <1>2, <1>3, <1>4, <1>5 DEF AppInv

LEMMA ProgramHolds ==
  ASSUME WebGpuAppAssumption, AppInv, Program
  PROVE  AppInv'
BY StartHolds, PumpReturnHolds, PumpTurnHolds, PumpRaiseHolds, HaveAdapterHolds,
   HaveDeviceHolds, SubmitHolds, ReadBackHolds, ConfigureHolds, LoopTopHolds, AcquireHolds,
   ReleaseHolds, FrameDoneHolds, Zenon DEF Program

(* Every state of either demo satisfies the inductive invariant.             *)
THEOREM DemosSafe ==
  ASSUME WebGpuAppAssumption
  PROVE  AppSpec => []AppInv
<1>1. AppInit => AppInv
  BY InitHolds
<1>2. AppInv /\ [AppNext]_appVars => AppInv'
  BY ProgramHolds, ExecuteHolds, AnswerHolds, UserHolds, StutterHolds, Zenon DEF AppNext
<1> QED
  BY <1>1, <1>2, PTL DEF AppSpec

(* The demos use no handle before its callback has run.                      *)
THEOREM NoHandleEarly ==
  ASSUME WebGpuAppAssumption
  PROVE  AppSpec => []HandlesAwaited
<1>1. AppInv => HandlesAwaited
  BY DEF AppInv
<1> QED
  BY <1>1, DemosSafe, PTL

(* The picture app.py writes is the frame it submitted.                      *)
THEOREM PictureWhole ==
  ASSUME WebGpuAppAssumption
  PROVE  AppSpec => []PixelsComplete
<1>1. AppInv => PixelsComplete
  BY DEF AppInv
<1> QED
  BY <1>1, DemosSafe, PTL

(* interactive.py draws at the size of its surface and releases what it got. *)
THEOREM FramesMatch ==
  ASSUME WebGpuAppAssumption
  PROVE  AppSpec => []FramesConsistent
<1>1. AppInv => FramesConsistent
  BY DEF AppInv
<1> QED
  BY <1>1, DemosSafe, PTL
=============================================================================
