------------------------- MODULE SharedPtr_proofs --------------------------
(* Proofs about SharedPtr, for any number of objects and of strong and weak  *)
(* pointers, and so for chains of destructions of any length.                *)
EXTENDS SharedPtr, FiniteSetTheorems, SequenceTheorems, TLAPS

(* The shape of the calls under way.  A release that deletes an object still *)
(* names it, and no two releases end at the same pointer; an assignment is   *)
(* the outermost call, and by the time it stores, the release before it has  *)
(* emptied its target.                                                       *)
Stacked(p, f) ==
  /\ \A i \in 1..Len(p) : p[i].call = "after_delete" => f[p[i].dst] # Null
  /\ \A i, j \in 1..Len(p) :
       p[i].call = "after_delete" /\ p[j].call = "after_delete" /\ p[i].dst = p[j].dst => i = j
  /\ \A i \in 1..Len(p) : p[i].call \in {"copy", "move"} =>
       /\ i = Len(p) /\ p[i].dst # p[i].src
       /\ i = 1 => f[p[i].dst] = Null
       /\ i > 1 => /\ p[i - 1].call \in {"release_strong", "after_delete"}
                   /\ p[i - 1].dst = p[i].dst

(* The inductive invariant.  The counts are those of the pointers only while *)
(* the calls under way are known to end in the right order.                  *)
IInv == /\ TypeOK /\ Stacked(pending, sp)
        /\ CountsExact /\ NoDangling /\ HeldOrGone

(* The pointers at which the calls p will have deleted an object.            *)
Ends(p) == {p[i].dst : i \in {j \in DOMAIN p : p[j].call = "after_delete"}}
-----------------------------------------------------------------------------
(* How the number of members changes when at most x goes in or out.          *)
LEMMA OneMember ==
  ASSUME NEW S, IsFiniteSet(S), NEW x, NEW P, P \subseteq S, NEW Q, Q \subseteq S,
         \A y \in S \ {x} : y \in P <=> y \in Q
  PROVE  /\ Cardinality(P) \in Nat /\ Cardinality(Q) \in Nat
         /\ Cardinality(Q) = Cardinality(P) + (IF x \in Q THEN 1 ELSE 0)
                                            - (IF x \in P THEN 1 ELSE 0)
<1>1. IsFiniteSet(P) /\ IsFiniteSet(Q) /\ Cardinality(P) \in Nat /\ Cardinality(Q) \in Nat
  BY FS_Subset, FS_CardinalityType
<1>2. CASE x \in P /\ x \notin Q
  <2>1. Q = P \ {x}
    BY <1>2
  <2> QED
    BY <1>1, <1>2, <2>1, FS_RemoveElement
<1>3. CASE x \notin P /\ x \in Q
  <2>1. Q = P \cup {x}
    BY <1>3
  <2> QED
    BY <1>1, <1>3, <2>1, FS_AddElement
<1>4. CASE (x \in P /\ x \in Q) \/ (x \notin P /\ x \notin Q)
  <2>1. Q = P
    BY <1>4
  <2> QED
    BY <1>1, <1>4, <2>1
<1> QED
  BY <1>2, <1>3, <1>4

(* There are finitely many pointers.                                         *)
LEMMA FinitelyMany ==
  ASSUME SharedPtrAssumption
  PROVE  IsFiniteSet(Strong) /\ IsFiniteSet(Weak)
<1>1. IsFiniteSet({"next"}) /\ IsFiniteSet({"back"})
  BY FS_Singleton
<1>2. IsFiniteSet(Objs \X {"next"}) /\ IsFiniteSet(Objs \X {"back"})
  BY <1>1, FS_Product DEF SharedPtrAssumption
<1>3. /\ {next(o) : o \in Objs} = Objs \X {"next"}
      /\ {back(o) : o \in Objs} = Objs \X {"back"}
  BY DEF next, back
<1> QED
  BY <1>2, <1>3, FS_Union DEF SharedPtrAssumption, Strong, Weak

(* A finite set has one member, or none, or more.                            *)
LEMMA CountedMembers ==
  ASSUME NEW S, IsFiniteSet(S)
  PROVE  /\ Cardinality(S) \in Nat
         /\ Cardinality(S) = 0 <=> S = {}
         /\ Cardinality(S) = 1 <=> \E x \in S : \A y \in S : y = x
<1>1. Cardinality(S) \in Nat
  BY FS_CardinalityType
<1>2. Cardinality(S) = 0 <=> S = {}
  BY FS_EmptySet
<1>3. Cardinality(S) = 1 <=> \E x : S = {x}
  BY FS_Singleton
<1>4. (\E x : S = {x}) <=> \E x \in S : \A y \in S : y = x
  OBVIOUS
<1> QED
  BY <1>1, <1>2, <1>3, <1>4

(* The frames, and what each may name.                                       *)
LEMMA FrameTyped ==
  ASSUME NEW f \in Frames
  PROVE  /\ f.call \in {"release_strong", "after_delete", "copy", "move", "release_weak"}
         /\ f.call = "release_weak" => f.dst \in Weak
         /\ f.call # "release_weak" => f.dst \in Strong /\ f.src \in Strong
BY DEF Frames

LEMMA FramesMade ==
  /\ \A l \in Strong : Release(l) \in Frames /\ Finish(l) \in Frames
  /\ \A l \in Weak : ReleaseWeak(l) \in Frames
  /\ \A d, s \in Strong : Copy(d, s) \in Frames /\ Move(d, s) \in Frames
BY DEF Frames, Release, Finish, ReleaseWeak, Copy, Move
-----------------------------------------------------------------------------
(* The stack of calls.  Taking the innermost call off.                       *)
LEMMA TailShape ==
  ASSUME NEW p \in Seq(Frames), p # <<>>
  PROVE  /\ Tail(p) \in Seq(Frames) /\ Len(p) \in Nat \ {0} /\ Len(Tail(p)) = Len(p) - 1
         /\ \A i \in 1..Len(p) - 1 : Tail(p)[i] = p[i + 1]
         /\ \A i \in 1..Len(p) : p[i] \in Frames
         /\ Head(p) = p[1] /\ p[1] \in Frames
         /\ DOMAIN p = 1..Len(p) /\ DOMAIN Tail(p) = 1..Len(p) - 1
<1>1. Tail(p) \in Seq(Frames) /\ Len(p) \in Nat \ {0} /\ Len(Tail(p)) = Len(p) - 1
  BY HeadTailProperties, LenProperties, EmptySeq
<1>2. DOMAIN p = 1..Len(p) /\ DOMAIN Tail(p) = 1..Len(p) - 1
  BY <1>1, LenProperties
<1>3. \A i \in 1..Len(p) - 1 : Tail(p)[i] = p[i + 1]
  BY <1>1, HeadTailProperties
<1>4. \A i \in 1..Len(p) : p[i] \in Frames
  BY ElementOfSeq
<1> QED
  BY <1>1, <1>2, <1>3, <1>4

LEMMA EndsTail ==
  ASSUME NEW p \in Seq(Frames), p # <<>>
  PROVE  Ends(p) = Ends(Tail(p)) \cup (IF p[1].call = "after_delete" THEN {p[1].dst} ELSE {})
<1> DEFINE q == Tail(p)
           L == Len(p)
<1>1. /\ L \in Nat \ {0} /\ DOMAIN p = 1..L /\ DOMAIN q = 1..L - 1
      /\ \A i \in 1..L - 1 : q[i] = p[i + 1]
  BY TailShape
<1> HIDE DEF q, L
<1>2. ASSUME NEW x \in Ends(p)
      PROVE  x \in Ends(q) \/ (p[1].call = "after_delete" /\ x = p[1].dst)
  <2>1. PICK i \in 1..L : p[i].call = "after_delete" /\ x = p[i].dst
    BY <1>1, <1>2 DEF Ends
  <2>2. CASE i > 1
    <3>1. i - 1 \in 1..L - 1 /\ q[i - 1] = p[i]
      BY <1>1, <2>2
    <3> QED
      BY <1>1, <2>1, <3>1 DEF Ends
  <2> QED
    BY <1>1, <2>1, <2>2
<1>3. ASSUME NEW x \in Ends(q) PROVE x \in Ends(p)
  <2>1. PICK i \in 1..L - 1 : q[i].call = "after_delete" /\ x = q[i].dst
    BY <1>1, <1>3 DEF Ends
  <2>2. i + 1 \in 1..L /\ p[i + 1] = q[i]
    BY <1>1
  <2> QED
    BY <1>1, <2>1, <2>2 DEF Ends
<1>4. 1 \in 1..L
  BY <1>1
<1>5. p[1].call = "after_delete" => p[1].dst \in Ends(p)
  BY <1>1, <1>4 DEF Ends
<1> QED
  BY <1>2, <1>3, <1>5 DEF q

LEMMA EndsStrong ==
  ASSUME NEW p \in Seq(Frames)
  PROVE  Ends(p) \subseteq Strong
<1> SUFFICES ASSUME NEW i \in DOMAIN p, p[i].call = "after_delete" PROVE p[i].dst \in Strong
  BY DEF Ends
<1>1. p[i] \in Frames
  BY ElementOfSeq, LenProperties
<1> QED
  BY <1>1, FrameTyped

(* The innermost call ends: whatever it did to its own pointer, the calls    *)
(* around it still stand as they should.                                     *)
LEMMA Popped ==
  ASSUME NEW p \in Seq(Frames), p # <<>>, NEW f, NEW g, Stacked(p, f),
         \A y \in Ends(Tail(p)) : g[y] # Null,
         p[1].call \in {"release_strong", "after_delete"} => g[p[1].dst] = Null
  PROVE  Stacked(Tail(p), g)
<1> DEFINE q == Tail(p)
           L == Len(p)
<1>1. /\ L \in Nat \ {0} /\ DOMAIN q = 1..L - 1 /\ Len(q) = L - 1
      /\ \A i \in 1..L - 1 : q[i] = p[i + 1]
  BY TailShape
<1>2. /\ \A i, j \in 1..L : p[i].call = "after_delete" /\ p[j].call = "after_delete"
                              /\ p[i].dst = p[j].dst => i = j
      /\ \A i \in 1..L : p[i].call \in {"copy", "move"} =>
           /\ i = L /\ p[i].dst # p[i].src
           /\ i > 1 => /\ p[i - 1].call \in {"release_strong", "after_delete"}
                       /\ p[i - 1].dst = p[i].dst
  BY DEF Stacked
<1> HIDE DEF q, L
<1>3. \A i \in 1..L - 1 : i + 1 \in 1..L /\ i + 1 # 1
  BY <1>1
<1>4. ASSUME NEW i \in 1..L - 1, q[i].call = "after_delete" PROVE g[q[i].dst] # Null
  <2>1. q[i].dst \in Ends(q)
    BY <1>1, <1>4 DEF Ends
  <2> QED
    BY <2>1 DEF q
<1>5. ASSUME NEW i \in 1..L - 1, NEW j \in 1..L - 1, q[i].call = "after_delete",
             q[j].call = "after_delete", q[i].dst = q[j].dst
      PROVE  i = j
  <2>1. i + 1 \in 1..L /\ j + 1 \in 1..L /\ q[i] = p[i + 1] /\ q[j] = p[j + 1]
    BY <1>1, <1>3, <1>5
  <2>2. i + 1 = j + 1
    BY <1>2, <1>5, <2>1
  <2> QED
    BY <2>2
<1>6. ASSUME NEW i \in 1..L - 1, q[i].call \in {"copy", "move"}
      PROVE  /\ i = L - 1 /\ q[i].dst # q[i].src
             /\ i = 1 => g[q[i].dst] = Null
             /\ i > 1 => /\ q[i - 1].call \in {"release_strong", "after_delete"}
                         /\ q[i - 1].dst = q[i].dst
  <2>1. /\ i + 1 = L /\ p[i + 1].dst # p[i + 1].src
        /\ p[(i + 1) - 1].call \in {"release_strong", "after_delete"}
        /\ p[(i + 1) - 1].dst = p[i + 1].dst
    <3>1. i + 1 > 1 /\ i + 1 \in 1..L /\ p[i + 1].call \in {"copy", "move"}
      BY <1>1, <1>3, <1>6
    <3> QED
      BY <1>2, <3>1
  <2>2. (i + 1) - 1 = i /\ i = L - 1 /\ q[i] = p[i + 1]
    BY <1>1, <2>1
  <2>3. i = 1 => g[q[i].dst] = Null
    BY <2>1, <2>2
  <2>4. ASSUME i > 1 PROVE q[i - 1] = p[i]
    <3>1. i - 1 \in 1..L - 1 /\ (i - 1) + 1 = i
      BY <2>4, <1>1
    <3> QED
      BY <1>1, <3>1
  <2> QED
    BY <2>1, <2>2, <2>3, <2>4
<1>7. Stacked(q, g)
  BY <1>1, <1>4, <1>5, <1>6 DEF Stacked
<1> QED
  BY <1>7 DEF q

(* The last owner's release makes way for the object's destructor and for    *)
(* its own end.                                                              *)
Destroying(l, c, p) == <<ReleaseWeak(back(c)), Release(next(c)), Finish(l)>> \o Tail(p)

LEMMA DestroyingShape ==
  ASSUME NEW p \in Seq(Frames), p # <<>>, NEW l \in Strong, NEW c \in Objs
  PROVE  /\ Destroying(l, c, p) \in Seq(Frames)
         /\ Len(Destroying(l, c, p)) = Len(p) + 2
         /\ DOMAIN Destroying(l, c, p) = 1..Len(p) + 2
         /\ Destroying(l, c, p)[1] = ReleaseWeak(back(c))
         /\ Destroying(l, c, p)[2] = Release(next(c))
         /\ Destroying(l, c, p)[3] = Finish(l)
         /\ \A i \in 2..Len(p) : Destroying(l, c, p)[i + 2] = p[i]
<1> DEFINE h == <<ReleaseWeak(back(c)), Release(next(c)), Finish(l)>>
           q == Tail(p)
           L == Len(p)
<1>1. next(c) \in Strong /\ back(c) \in Weak
  BY DEF Strong, Weak
<1>2. h \in Seq(Frames) /\ Len(h) = 3 /\ h[1] = ReleaseWeak(back(c))
      /\ h[2] = Release(next(c)) /\ h[3] = Finish(l)
  <2>1. ReleaseWeak(back(c)) \in Frames /\ Release(next(c)) \in Frames /\ Finish(l) \in Frames
    BY <1>1, FramesMade
  <2> QED
    BY <2>1
<1>3. /\ q \in Seq(Frames) /\ L \in Nat \ {0} /\ Len(q) = L - 1
      /\ \A i \in 1..L - 1 : q[i] = p[i + 1]
  BY TailShape
<1> HIDE DEF h, q, L
<1>4. /\ h \o q \in Seq(Frames) /\ Len(h \o q) = Len(h) + Len(q)
      /\ \A i \in 1..Len(h) + Len(q) :
           (h \o q)[i] = IF i <= Len(h) THEN h[i] ELSE q[i - Len(h)]
  BY <1>2, <1>3, ConcatProperties
<1>5. Len(h \o q) = L + 2 /\ DOMAIN (h \o q) = 1..L + 2
  BY <1>2, <1>3, <1>4, LenProperties
<1>6. /\ (h \o q)[1] = h[1] /\ (h \o q)[2] = h[2] /\ (h \o q)[3] = h[3]
  BY <1>2, <1>3, <1>4
<1>7. ASSUME NEW i \in 2..L PROVE (h \o q)[i + 2] = p[i]
  <2>1. i + 2 \in 1..Len(h) + Len(q) /\ ~ (i + 2 <= 3) /\ (i + 2) - 3 = i - 1
        /\ i - 1 \in 1..L - 1 /\ (i - 1) + 1 = i
    BY <1>2, <1>3
  <2>2. (h \o q)[i + 2] = q[(i + 2) - 3] /\ q[i - 1] = p[(i - 1) + 1]
    BY <1>2, <1>3, <1>4, <2>1
  <2> QED
    BY <2>1, <2>2
<1>8. Destroying(l, c, p) = h \o q
  BY DEF Destroying, h, q
<1>9. L = Len(p)
  BY DEF L
<1> QED
  BY <1>2, <1>4, <1>5, <1>6, <1>7, <1>8, <1>9

(* What the calls pushed are.                                                *)
LEMMA DestroyingCalls ==
  ASSUME NEW p \in Seq(Frames), p # <<>>, NEW l \in Strong, NEW c \in Objs
  PROVE  /\ Len(p) \in Nat \ {0} /\ DOMAIN p = 1..Len(p)
         /\ Len(Destroying(l, c, p)) = Len(p) + 2
         /\ DOMAIN Destroying(l, c, p) = 1..Len(p) + 2
         /\ Destroying(l, c, p)[1].call = "release_weak"
         /\ Destroying(l, c, p)[2].call = "release_strong"
         /\ Destroying(l, c, p)[3].call = "after_delete" /\ Destroying(l, c, p)[3].dst = l
         /\ \A i \in 2..Len(p) : Destroying(l, c, p)[i + 2] = p[i]
<1>1. Len(p) \in Nat \ {0} /\ DOMAIN p = 1..Len(p)
  BY TailShape
<1>2. /\ ReleaseWeak(back(c)).call = "release_weak" /\ Release(next(c)).call = "release_strong"
      /\ Finish(l).call = "after_delete" /\ Finish(l).dst = l
  BY DEF Finish, Release, ReleaseWeak
<1> QED
  BY <1>1, <1>2, DestroyingShape

LEMMA EndsDestroying ==
  ASSUME NEW p \in Seq(Frames), p # <<>>, NEW l \in Strong, NEW c \in Objs,
         p[1].call = "release_strong"
  PROVE  Ends(Destroying(l, c, p)) = Ends(p) \cup {l}
<1> DEFINE q == Destroying(l, c, p)
           L == Len(p)
<1>1. /\ L \in Nat \ {0} /\ DOMAIN p = 1..L /\ DOMAIN q = 1..L + 2
      /\ q[1].call = "release_weak" /\ q[2].call = "release_strong"
      /\ q[3].call = "after_delete" /\ q[3].dst = l
      /\ \A i \in 2..L : q[i + 2] = p[i]
  BY DestroyingCalls
<1> HIDE DEF q, L
<1>2. ASSUME NEW x \in Ends(q) PROVE x \in Ends(p) \cup {l}
  <2>1. PICK i \in 1..L + 2 : q[i].call = "after_delete" /\ x = q[i].dst
    BY <1>1, <1>2 DEF Ends
  <2>2. CASE i > 3
    <3>1. i - 2 \in 2..L /\ (i - 2) + 2 = i /\ i - 2 \in 1..L
      BY <1>1, <2>2
    <3> QED
      BY <1>1, <2>1, <3>1, ZenonT(60) DEF Ends
  <2>3. i = 1 \/ i = 2 \/ i = 3 \/ i > 3
    BY <1>1
  <2> QED
    BY <1>1, <2>1, <2>2, <2>3
<1>3. ASSUME NEW x \in Ends(p) PROVE x \in Ends(q)
  <2>1. PICK i \in 1..L : p[i].call = "after_delete" /\ x = p[i].dst
    BY <1>1, <1>3 DEF Ends
  <2>2. i # 1
    BY <2>1
  <2>3. i \in 2..L /\ i + 2 \in 1..L + 2
    BY <1>1, <2>2
  <2>4. q[i + 2] = p[i]
    BY <1>1, <2>3
  <2>5. i + 2 \in DOMAIN q /\ q[i + 2].call = "after_delete" /\ x = q[i + 2].dst
    BY <1>1, <2>1, <2>3, <2>4
  <2> QED
    BY <2>5, Zenon DEF Ends
<1>4. l \in Ends(q)
  <2>1. 3 \in 1..L + 2
    BY <1>1
  <2> QED
    BY <1>1, <2>1 DEF Ends
<1> QED
  BY <1>2, <1>3, <1>4 DEF q

LEMMA Deepened ==
  ASSUME NEW p \in Seq(Frames), p # <<>>, NEW l \in Strong, NEW c \in Objs, NEW f,
         p[1].call = "release_strong", p[1].dst = l, f[l] # Null, l \notin Ends(p),
         Stacked(p, f)
  PROVE  Stacked(Destroying(l, c, p), f)
<1> DEFINE q == Destroying(l, c, p)
           L == Len(p)
<1>1. /\ L \in Nat \ {0} /\ DOMAIN p = 1..L /\ Len(q) = L + 2
      /\ q[1].call = "release_weak" /\ q[2].call = "release_strong"
      /\ q[3].call = "after_delete" /\ q[3].dst = l
      /\ \A i \in 2..L : q[i + 2] = p[i]
  BY DestroyingCalls
<1>2. /\ \A i \in 1..L : p[i].call = "after_delete" => f[p[i].dst] # Null /\ p[i].dst # l
      /\ \A i, j \in 1..L : p[i].call = "after_delete" /\ p[j].call = "after_delete"
                              /\ p[i].dst = p[j].dst => i = j
      /\ \A i \in 1..L : p[i].call \in {"copy", "move"} =>
           /\ i = L /\ p[i].dst # p[i].src
           /\ i > 1 => /\ p[i - 1].call \in {"release_strong", "after_delete"}
                       /\ p[i - 1].dst = p[i].dst
  BY <1>1 DEF Stacked, Ends
<1> HIDE DEF q, L
<1>3. ASSUME NEW i \in 1..L + 2
      PROVE  i = 1 \/ i = 2 \/ i = 3
             \/ (i > 3 /\ i - 2 \in 2..L /\ i - 2 \in 1..L /\ q[i] = p[i - 2] /\ i - 2 # 1)
  <2>1. CASE i > 3
    <3>1. i - 2 \in 2..L /\ (i - 2) + 2 = i /\ i - 2 \in 1..L
      BY <1>1, <2>1
    <3> QED
      BY <1>1, <2>1, <3>1
  <2> QED
    BY <1>1, <2>1
<1>4. ASSUME NEW i \in 1..L + 2, q[i].call = "after_delete"
      PROVE  \/ i = 3 /\ q[i].dst = l
             \/ /\ i - 2 \in 1..L /\ q[i] = p[i - 2] /\ i > 3
                /\ f[q[i].dst] # Null /\ q[i].dst # l
  <2>1. i # 1 /\ i # 2
    BY <1>1, <1>4
  <2>2. CASE i = 3
    BY <1>1, <2>2
  <2>3. CASE i > 3 /\ i - 2 \in 1..L /\ q[i] = p[i - 2]
    BY <1>2, <1>4, <2>3
  <2> QED
    BY <1>3, <2>1, <2>2, <2>3
<1>5. ASSUME NEW i \in 1..L + 2, NEW j \in 1..L + 2, q[i].call = "after_delete",
             q[j].call = "after_delete", q[i].dst = q[j].dst
      PROVE  i = j
  <2>1. CASE i = 3 \/ j = 3
    BY <1>4, <1>5, <2>1
  <2>2. CASE i # 3 /\ j # 3
    <3>1. i - 2 = j - 2
      BY <1>2, <1>4, <1>5, <2>2
    <3> QED
      BY <3>1
  <2> QED
    BY <2>1, <2>2
<1>6. ASSUME NEW i \in 1..L + 2, q[i].call \in {"copy", "move"}
      PROVE  /\ i = L + 2 /\ q[i].dst # q[i].src /\ i # 1
             /\ q[i - 1].call \in {"release_strong", "after_delete"}
             /\ q[i - 1].dst = q[i].dst
  <2>1. i > 3 /\ i - 2 \in 2..L /\ i - 2 \in 1..L /\ q[i] = p[i - 2]
    BY <1>1, <1>3, <1>6
  <2>2. i - 2 = L /\ p[i - 2].dst # p[i - 2].src
        /\ p[(i - 2) - 1].call \in {"release_strong", "after_delete"}
        /\ p[(i - 2) - 1].dst = p[i - 2].dst
    <3>1. i - 2 > 1
      BY <2>1
    <3> QED
      BY <1>2, <1>6, <2>1, <3>1
  <2>3. i = L + 2 /\ i # 1
    BY <1>1, <2>2, <2>1
  <2>4. CASE i = 4
    <3>1. (i - 2) - 1 = 1 /\ i - 1 = 3
      BY <2>4
    <3>2. p[1].dst = q[i].dst
      BY <2>1, <2>2, <3>1
    <3> QED
      BY <1>1, <2>1, <2>2, <2>3, <3>1, <3>2
  <2>5. CASE i # 4
    <3>1. (i - 2) - 1 \in 2..L /\ ((i - 2) - 1) + 2 = i - 1
      BY <1>1, <2>1, <2>5
    <3>2. q[i - 1] = p[(i - 2) - 1]
      BY <1>1, <3>1
    <3> QED
      BY <2>1, <2>2, <2>3, <3>2
  <2> QED
    BY <2>4, <2>5
<1>7. \A i \in 1..Len(q) : q[i].call = "after_delete" => f[q[i].dst] # Null
  BY <1>1, <1>4
<1>8. Stacked(q, f)
  BY <1>1, <1>5, <1>6, <1>7 DEF Stacked
<1> QED
  BY <1>8 DEF q
-----------------------------------------------------------------------------
(* Who owns a block, and who watches it.                                     *)
Owners(c) == {l \in Strong \ Deleting : sp[l] = c}
Watchers(c) == {l \in Weak : wp[l] = c}

(* The invariants without their counting, which is what a step is compared   *)
(* with.                                                                     *)
SoleEnd(c) == \E x \in Deleting : sp[x] = c /\ \A y \in Deleting : sp[y] = c => y = x

Held ==
  /\ \A l \in Strong : sp[l] # Null =>
       sp[l] \in block /\ obj[sp[l]] = (IF l \in Deleting THEN "dying" ELSE "alive")
  /\ \A l \in Weak : wp[l] # Null => wp[l] \in block
  /\ \A c \in Objs : /\ obj[c] = "dying" => SoleEnd(c)
                     /\ obj[c] = "alive" => ref[c] > 0
                     /\ c \in block <=> obj[c] # "none" \/ \E l \in Weak : wp[l] = c

(* What the counts say in every state: of the owners, of the object, and of  *)
(* the weak pointers.                                                        *)
Known ==
  /\ Deleting \subseteq Strong
  /\ \A c \in Objs :
       /\ ref[c] \in Nat /\ weak[c] \in Nat
       /\ ref[c] = 0 <=> \A l \in Strong \ Deleting : sp[l] # c
       /\ ref[c] = 1 <=> \E x \in Strong \ Deleting :
            sp[x] = c /\ \A y \in Strong \ Deleting : sp[y] = c => y = x
       /\ weak[c] = 0 <=> obj[c] = "none" /\ \A l \in Weak : wp[l] # c

LEMMA DeletingStrong ==
  ASSUME TypeOK
  PROVE  Deleting = Ends(pending) /\ Deleting \subseteq Strong
<1>1. Deleting = Ends(pending)
  BY DEF Deleting, Ends
<1>2. Ends(pending) \subseteq Strong
  BY EndsStrong DEF TypeOK
<1> QED
  BY <1>1, <1>2

LEMMA WhatIsKnown ==
  ASSUME SharedPtrAssumption, TypeOK, CountsExact
  PROVE  Known
<1>1. Deleting \subseteq Strong
  BY DeletingStrong
<1>2. ASSUME NEW c \in Objs
      PROVE  /\ ref[c] \in Nat /\ weak[c] \in Nat
             /\ ref[c] = 0 <=> \A l \in Strong \ Deleting : sp[l] # c
             /\ ref[c] = 1 <=> \E x \in Strong \ Deleting :
                  sp[x] = c /\ \A y \in Strong \ Deleting : sp[y] = c => y = x
             /\ weak[c] = 0 <=> obj[c] = "none" /\ \A l \in Weak : wp[l] # c
  <2> DEFINE A == Owners(c)
             W == Watchers(c)
  <2>1. A \subseteq Strong /\ W \subseteq Weak
    BY DEF Owners, Watchers
  <2>2. ref[c] = Cardinality(A) /\ weak[c] = Cardinality(W) + (IF obj[c] = "none" THEN 0 ELSE 1)
    BY DEF CountsExact, Owners, Watchers
  <2>3. /\ A = {} <=> \A l \in Strong \ Deleting : sp[l] # c
        /\ (\E x \in A : \A y \in A : y = x) <=>
              \E x \in Strong \ Deleting :
                  sp[x] = c /\ \A y \in Strong \ Deleting : sp[y] = c => y = x
        /\ W = {} <=> \A l \in Weak : wp[l] # c
    BY DEF Owners, Watchers
  <2> HIDE DEF A, W
  <2>4. IsFiniteSet(A) /\ IsFiniteSet(W)
    BY <2>1, FinitelyMany, FS_Subset
  <2>5. /\ Cardinality(A) \in Nat
        /\ Cardinality(A) = 0 <=> A = {}
        /\ Cardinality(A) = 1 <=> \E x \in A : \A y \in A : y = x
    BY <2>4, CountedMembers
  <2>6. /\ Cardinality(W) \in Nat
        /\ Cardinality(W) = 0 <=> W = {}
    BY <2>4, CountedMembers
  <2>7. weak[c] = 0 <=> obj[c] = "none" /\ W = {}
    BY <2>2, <2>6
  <2>8. ref[c] \in Nat /\ weak[c] \in Nat
    BY <2>2, <2>5, <2>6
  <2> QED
    BY <2>2, <2>3, <2>5, <2>7, <2>8
<1> QED
  BY <1>1, <1>2 DEF Known

(* The invariants and their form without counting.                           *)
At(D, f, c) == {l \in D : f[l] = c}
OneAt(D, f, c) == \E x \in D : f[x] = c /\ \A y \in D : f[y] = c => y = x

LEMMA CountedEnds ==
  ASSUME SharedPtrAssumption, NEW D, D \subseteq Strong, NEW f, NEW c
  PROVE  Cardinality(At(D, f, c)) = 1 <=> OneAt(D, f, c)
<1> DEFINE A == {l \in D : f[l] = c}
<1>1. IsFiniteSet(A)
  <2>1. A \subseteq Strong
    OBVIOUS
  <2> QED
    BY <2>1, FinitelyMany, FS_Subset
<1>2. (\E x \in A : \A y \in A : y = x)
        <=> \E x \in D : f[x] = c /\ \A y \in D : f[y] = c => y = x
  OBVIOUS
<1> HIDE DEF A
<1>3. Cardinality(A) = 1 <=> \E x \in A : \A y \in A : y = x
  BY <1>1, CountedMembers
<1> QED
  BY <1>2, <1>3 DEF A, At, OneAt

LEMMA WhatIsHeld ==
  ASSUME SharedPtrAssumption, IInv
  PROVE  Held
<1>1. ASSUME NEW c \in Objs, obj[c] = "dying" PROVE SoleEnd(c)
  <2>1. Cardinality({l \in Deleting : sp[l] = c}) = 1
    BY <1>1 DEF IInv, HeldOrGone
  <2>2. Deleting \subseteq Strong
    BY DeletingStrong DEF IInv
  <2>3. OneAt(Deleting, sp, c)
    BY <2>1, <2>2, CountedEnds, Zenon DEF At
  <2> QED
    BY <2>3 DEF SoleEnd, OneAt
<1> QED
  BY <1>1 DEF IInv, HeldOrGone, NoDangling, Held

LEMMA HeldAfter ==
  ASSUME SharedPtrAssumption, TypeOK', CountsExact', Held', Stacked(pending, sp)'
  PROVE  IInv'
<1>1. Deleting' = Ends(pending') /\ Deleting' \subseteq Strong
  <2>1. Deleting' = Ends(pending')
    BY DEF Deleting, Ends
  <2>2. Ends(pending') \subseteq Strong
    BY EndsStrong DEF TypeOK
  <2> QED
    BY <2>1, <2>2
<1>2. ASSUME NEW c \in Objs, obj'[c] = "dying"
      PROVE  Cardinality({l \in Deleting' : sp'[l] = c}) = 1
  <2>1. OneAt(Deleting', sp', c)
    BY <1>2 DEF Held, SoleEnd, OneAt
  <2>2. Cardinality(At(Deleting', sp', c)) = 1
    BY <1>1, <2>1, CountedEnds, Zenon
  <2> QED
    BY <2>2 DEF At
<1>3. ASSUME NEW w \in Weak, wp'[w] # Null PROVE Expired(w)' <=> obj'[wp'[w]] # "alive"
  <2> DEFINE c == wp'[w]
  <2>1. c \in Objs /\ ref'[c] \in Nat /\ obj'[c] \in {"none", "alive", "dying"}
    BY <1>3 DEF TypeOK
  <2>2. obj'[c] = "alive" => ref'[c] > 0
    BY <2>1 DEF Held
  <2>3. ASSUME ref'[c] # 0 PROVE obj'[c] = "alive"
    <3> DEFINE A == {l \in Strong \ Deleting' : sp'[l] = c}
    <3>1. ref'[c] = Cardinality(A)
      BY <2>1 DEF CountsExact
    <3>2. A # {}
      BY <2>3, <3>1, FS_EmptySet
    <3>3. PICK l \in Strong \ Deleting' : sp'[l] = c
      BY <3>2
    <3>4. c # Null
      BY <1>3
    <3> QED
      BY <3>3, <3>4 DEF Held
  <2>4. Expired(w)' <=> c = Null \/ ref'[c] = 0
    BY DEF Expired
  <2> QED
    BY <1>3, <2>1, <2>2, <2>3, <2>4
<1>4. NoDangling'
  BY DEF Held, NoDangling
<1>5. HeldOrGone'
  BY <1>2, <1>3 DEF Held, HeldOrGone
<1> QED
  BY <1>4, <1>5 DEF IInv
-----------------------------------------------------------------------------
(* The strong counts after a step that changes what at most x owns.          *)
LEMMA StrongCounted ==
  ASSUME SharedPtrAssumption, TypeOK, CountsExact, NEW x,
         \A y \in Strong \ {x} : sp'[y] = sp[y] /\ (y \in Deleting' <=> y \in Deleting),
         \A c \in Objs : ref'[c] =
           ref[c] + (IF x \in Strong \ Deleting' /\ sp'[x] = c THEN 1 ELSE 0)
                  - (IF x \in Strong \ Deleting /\ sp[x] = c THEN 1 ELSE 0)
  PROVE  \A c \in Objs : ref'[c] \in Nat /\ ref'[c] = Cardinality({l \in Strong \ Deleting' : sp'[l] = c})
<1> SUFFICES ASSUME NEW c \in Objs
             PROVE  ref'[c] \in Nat /\ ref'[c] = Cardinality({l \in Strong \ Deleting' : sp'[l] = c})
  OBVIOUS
<1> DEFINE P == {l \in Strong \ Deleting : sp[l] = c}
           Q == {l \in Strong \ Deleting' : sp'[l] = c}
<1>1. ref[c] = Cardinality(P)
  BY DEF CountsExact
<1>2. /\ P \subseteq Strong /\ Q \subseteq Strong /\ \A y \in Strong \ {x} : y \in P <=> y \in Q
      /\ x \in P <=> x \in Strong \ Deleting /\ sp[x] = c
      /\ x \in Q <=> x \in Strong \ Deleting' /\ sp'[x] = c
  OBVIOUS
<1>3. ref'[c] = ref[c] + (IF x \in Q THEN 1 ELSE 0) - (IF x \in P THEN 1 ELSE 0)
  BY <1>2
<1> HIDE DEF P, Q
<1>4. /\ Cardinality(P) \in Nat /\ Cardinality(Q) \in Nat
      /\ Cardinality(Q) = Cardinality(P) + (IF x \in Q THEN 1 ELSE 0)
                                         - (IF x \in P THEN 1 ELSE 0)
  BY <1>2, OneMember, FinitelyMany
<1>5. ref'[c] = Cardinality(Q)
  BY <1>1, <1>3, <1>4
<1> QED
  BY <1>4, <1>5 DEF Q

(* The weak counts after a step that changes what at most x watches, and     *)
(* which objects there are.                                                  *)
LEMMA WeakCounted ==
  ASSUME SharedPtrAssumption, TypeOK, CountsExact, NEW x,
         \A y \in Weak \ {x} : wp'[y] = wp[y],
         \A c \in Objs : weak'[c] =
           weak[c] + (IF x \in Weak /\ wp'[x] = c THEN 1 ELSE 0)
                   - (IF x \in Weak /\ wp[x] = c THEN 1 ELSE 0)
                   + (IF obj'[c] = "none" THEN 0 ELSE 1) - (IF obj[c] = "none" THEN 0 ELSE 1)
  PROVE  \A c \in Objs :
           /\ weak'[c] \in Nat
           /\ weak'[c] = Cardinality({l \in Weak : wp'[l] = c}) + (IF obj'[c] = "none" THEN 0 ELSE 1)
<1> SUFFICES ASSUME NEW c \in Objs
             PROVE  /\ weak'[c] \in Nat
                    /\ weak'[c] = Cardinality({l \in Weak : wp'[l] = c})
                                    + (IF obj'[c] = "none" THEN 0 ELSE 1)
  OBVIOUS
<1> DEFINE P == {l \in Weak : wp[l] = c}
           Q == {l \in Weak : wp'[l] = c}
           s == IF obj[c] = "none" THEN 0 ELSE 1
           t == IF obj'[c] = "none" THEN 0 ELSE 1
<1>1. weak[c] = Cardinality(P) + s /\ s \in Nat /\ t \in Nat
  BY DEF CountsExact
<1>2. /\ P \subseteq Weak /\ Q \subseteq Weak /\ \A y \in Weak \ {x} : y \in P <=> y \in Q
      /\ x \in P <=> x \in Weak /\ wp[x] = c
      /\ x \in Q <=> x \in Weak /\ wp'[x] = c
  OBVIOUS
<1>3. weak'[c] = weak[c] + (IF x \in Q THEN 1 ELSE 0) - (IF x \in P THEN 1 ELSE 0) + t - s
  BY <1>2
<1> HIDE DEF P, Q, s, t
<1>4. /\ Cardinality(P) \in Nat /\ Cardinality(Q) \in Nat
      /\ Cardinality(Q) = Cardinality(P) + (IF x \in Q THEN 1 ELSE 0)
                                         - (IF x \in P THEN 1 ELSE 0)
  BY <1>2, OneMember, FinitelyMany
<1>5. weak'[c] = Cardinality(Q) + t /\ weak'[c] \in Nat
  BY <1>1, <1>3, <1>4
<1> QED
  BY <1>5 DEF Q, t
-----------------------------------------------------------------------------
(* The innermost call of those under way.                                    *)
LEMMA TopFrame ==
  ASSUME TypeOK, NEW call, Top(call)
  PROVE  /\ pending \in Seq(Frames) /\ pending # <<>>
         /\ Head(pending) = pending[1] /\ pending[1].call = call
         /\ Tail(pending) \in Seq(Frames)
         /\ call = "release_weak" => pending[1].dst \in Weak
         /\ call # "release_weak" => pending[1].dst \in Strong /\ pending[1].src \in Strong
<1>1. pending \in Seq(Frames) /\ pending # <<>> /\ Head(pending).call = call
  BY DEF TypeOK, Top
<1>2. Head(pending) = pending[1] /\ pending[1] \in Frames /\ Tail(pending) \in Seq(Frames)
  BY <1>1, TailShape
<1> QED
  BY <1>1, <1>2, FrameTyped

(* What is being deleted once the innermost call has returned.               *)
LEMMA Returned ==
  ASSUME TypeOK, NEW call, Top(call), Return, Stacked(pending, sp)
  PROVE  /\ pending' = Tail(pending) /\ Deleting' = Ends(Tail(pending))
         /\ call # "after_delete" => Deleting' = Deleting
         /\ call = "after_delete" => /\ pending[1].dst \in Deleting
                                     /\ Deleting' = Deleting \ {pending[1].dst}
<1>1. /\ pending \in Seq(Frames) /\ pending # <<>> /\ pending[1].call = call
  BY TopFrame
<1>2. Deleting' = Ends(Tail(pending)) /\ Deleting = Ends(pending) /\ pending' = Tail(pending)
  BY DEF Return, Deleting, Ends
<1>3. Ends(pending) = Ends(Tail(pending))
                        \cup (IF pending[1].call = "after_delete" THEN {pending[1].dst} ELSE {})
  BY <1>1, EndsTail
<1>4. ASSUME call = "after_delete" PROVE pending[1].dst \notin Ends(Tail(pending))
  <2>1. \A i, j \in 1..Len(pending) :
          pending[i].call = "after_delete" /\ pending[j].call = "after_delete"
            /\ pending[i].dst = pending[j].dst => i = j
    BY DEF Stacked
  <2>2. SUFFICES ASSUME pending[1].dst \in Ends(Tail(pending)) PROVE FALSE
    OBVIOUS
  <2>3. PICK i \in 1..Len(pending) - 1 :
          Tail(pending)[i].call = "after_delete" /\ Tail(pending)[i].dst = pending[1].dst
    BY <1>1, <2>2, TailShape DEF Ends
  <2>4. /\ i + 1 \in 1..Len(pending) /\ 1 \in 1..Len(pending) /\ i + 1 # 1
        /\ pending[i + 1] = Tail(pending)[i]
    BY <1>1, TailShape
  <2> QED
    BY <1>1, <1>4, <2>1, <2>3, <2>4
<1> QED
  BY <1>1, <1>2, <1>3, <1>4

(* A release that deletes an object names it to the end.                     *)
LEMMA EndsHold ==
  ASSUME Stacked(pending, sp), TypeOK
  PROVE  \A y \in Deleting : sp[y] # Null
<1>1. DOMAIN pending = 1..Len(pending)
  BY LenProperties DEF TypeOK
<1> QED
  BY <1>1 DEF Deleting, Stacked

(* Between two calls of the program nothing is being deleted.                *)
LEMMA NothingDeleting ==
  ASSUME pending = <<>>
  PROVE  Deleting = {}
BY DEF Deleting

(* While an assignment stores, no other call is under way.                   *)
LEMMA Storing ==
  ASSUME TypeOK, Stacked(pending, sp), NEW call \in {"copy", "move"}, Top(call), Return
  PROVE  /\ Deleting = {} /\ Deleting' = {} /\ pending' = <<>>
         /\ pending[1].dst # pending[1].src /\ sp[pending[1].dst] = Null
<1>1. /\ pending \in Seq(Frames) /\ pending # <<>> /\ pending[1].call = call
  BY TopFrame
<1>2. Len(pending) \in Nat \ {0} /\ 1 \in 1..Len(pending) /\ Len(Tail(pending)) = Len(pending) - 1
  BY <1>1, TailShape
<1>3. 1 = Len(pending) /\ pending[1].dst # pending[1].src /\ sp[pending[1].dst] = Null
  BY <1>1, <1>2 DEF Stacked
<1>4. Tail(pending) = <<>>
  BY <1>1, <1>2, <1>3, TailShape, EmptySeq
<1>5. pending' = <<>> /\ Deleting' = Deleting
  BY <1>4, Returned
<1>6. Deleting' = {}
  BY <1>5 DEF Deleting
<1> QED
  BY <1>3, <1>5, <1>6
-----------------------------------------------------------------------------
(* Nothing under way holds vacuously.                                        *)
LEMMA NoneStacked ==
  ASSUME NEW f
  PROVE  Stacked(<<>>, f)
BY DEF Stacked

(* Steps that change only which calls are under way.                         *)
LEMMA OnlyCalls ==
  ASSUME IInv, UNCHANGED <<sp, wp, ref, weak, block, obj>>, Deleting' = Deleting,
         pending' \in Seq(Frames), Stacked(pending, sp)'
  PROVE  IInv'
<1>1. TypeOK'
  BY DEF IInv, TypeOK
<1>2. CountsExact'
  BY DEF IInv, CountsExact
<1>3. NoDangling'
  BY DEF IInv, NoDangling
<1>4. HeldOrGone'
  BY DEF IInv, HeldOrGone, Expired
<1> QED
  BY <1>1, <1>2, <1>3, <1>4 DEF IInv

LEMMA InitHolds ==
  ASSUME SharedPtrAssumption, Init
  PROVE  IInv
<1>1. Deleting = {}
  BY NothingDeleting DEF Init
<1>2. <<>> \in Seq(Frames)
  OBVIOUS
<1>3. TypeOK
  BY <1>2 DEF Init, TypeOK
<1>4. CountsExact
  <2> SUFFICES ASSUME NEW c \in Objs
               PROVE  /\ ref[c] = Cardinality({l \in Strong \ Deleting : sp[l] = c})
                      /\ weak[c] = Cardinality({l \in Weak : wp[l] = c})
                                     + (IF obj[c] = "none" THEN 0 ELSE 1)
    BY DEF CountsExact
  <2>1. {l \in Strong \ Deleting : sp[l] = c} = {} /\ {l \in Weak : wp[l] = c} = {}
    BY DEF Init, SharedPtrAssumption
  <2>2. Cardinality({}) = 0
    BY FS_EmptySet
  <2>3. ref[c] = 0 /\ weak[c] = 0 /\ obj[c] = "none"
    BY DEF Init
  <2> QED
    BY <2>1, <2>2, <2>3
<1>5. NoDangling
  BY DEF NoDangling, Init
<1>6. HeldOrGone
  BY DEF HeldOrGone, Init
<1> QED
  BY <1>3, <1>4, <1>5, <1>6, NoneStacked DEF IInv, Init

LEMMA BeginsAssign ==
  ASSUME SharedPtrAssumption, IInv, NEW d \in Strong, NEW s \in Strong,
         AssignCopy(d, s) \/ AssignMove(d, s)
  PROVE  IInv'
<1> DEFINE f == IF pending' = <<Release(d), Copy(d, s)>> THEN Copy(d, s) ELSE Move(d, s)
<1>1. /\ pending' = <<Release(d), f>> /\ pending = <<>> /\ d # s
      /\ UNCHANGED <<sp, wp, ref, weak, block, obj>>
  BY DEF AssignCopy, AssignMove, Idle
<1>2. /\ f \in Frames /\ Release(d) \in Frames /\ f.call \in {"copy", "move"}
      /\ f.dst = d /\ f.src = s /\ Release(d).call = "release_strong" /\ Release(d).dst = d
  <2>1. f \in Frames /\ Release(d) \in Frames
    BY FramesMade
  <2>2. f.call \in {"copy", "move"} /\ f.dst = d /\ f.src = s
    BY DEF Copy, Move
  <2> QED
    BY <2>1, <2>2 DEF Release
<1> HIDE DEF f
<1>3. /\ pending' \in Seq(Frames) /\ Len(pending') = 2 /\ DOMAIN pending' = 1..2
      /\ pending'[1] = Release(d) /\ pending'[2] = f
  BY <1>1, <1>2
<1>4. Deleting' = {}
  <2>1. \A i \in 1..2 : pending'[i].call # "after_delete"
    BY <1>2, <1>3
  <2> QED
    BY <1>3, <2>1 DEF Deleting
<1>5. Stacked(pending, sp)'
  <2>1. \A i \in 1..2 : pending'[i].call # "after_delete"
    BY <1>2, <1>3
  <2>2. ASSUME NEW i \in 1..2, pending'[i].call \in {"copy", "move"}
        PROVE  /\ i = 2 /\ pending'[i].dst # pending'[i].src /\ i # 1
               /\ pending'[i - 1].call \in {"release_strong", "after_delete"}
               /\ pending'[i - 1].dst = pending'[i].dst
    <3>1. i = 2 /\ i - 1 = 1
      BY <1>2, <1>3, <2>2
    <3> QED
      BY <1>1, <1>2, <1>3, <3>1
  <2> QED
    BY <1>3, <2>1, <2>2 DEF Stacked
<1>6. Deleting = {}
  BY <1>1, NothingDeleting
<1> QED
  BY <1>1, <1>3, <1>4, <1>5, <1>6, OnlyCalls

LEMMA BeginsDestruct ==
  ASSUME SharedPtrAssumption, IInv, NEW v \in SVars, Destruct(v)
  PROVE  IInv'
<1>1. /\ pending' = <<Release(v)>> /\ pending = <<>>
      /\ UNCHANGED <<sp, wp, ref, weak, block, obj>>
  BY DEF Destruct, Idle
<1>2. Release(v) \in Frames /\ Release(v).call = "release_strong"
  BY FramesMade DEF Strong, Release
<1>3. /\ pending' \in Seq(Frames) /\ Len(pending') = 1 /\ DOMAIN pending' = {1}
      /\ pending'[1] = Release(v)
  BY <1>1, <1>2
<1>4. Deleting' = {}
  BY <1>2, <1>3 DEF Deleting
<1>5. Stacked(pending, sp)'
  BY <1>2, <1>3 DEF Stacked
<1>6. Deleting = {}
  BY <1>1, NothingDeleting
<1> QED
  BY <1>1, <1>3, <1>4, <1>5, <1>6, OnlyCalls
-----------------------------------------------------------------------------
(* Constructing an object in an empty variable.                              *)
LEMMA MakeHolds ==
  ASSUME SharedPtrAssumption, IInv, NEW v \in SVars, NEW o \in Objs, Make(v, o)
  PROVE  IInv'
<1>1. /\ pending = <<>> /\ pending' = <<>> /\ sp[v] = Null /\ o \notin block
      /\ sp' = [sp EXCEPT ![v] = o] /\ wp' = wp /\ v \in Strong
      /\ ref' = [ref EXCEPT ![o] = 1] /\ weak' = [weak EXCEPT ![o] = 1]
      /\ block' = block \cup {o} /\ obj' = [obj EXCEPT ![o] = "alive"]
  BY DEF Make, Idle, Strong
<1>2. Deleting = {} /\ Deleting' = {}
  BY <1>1, NothingDeleting DEF Deleting
<1>3. TypeOK'
  BY <1>1 DEF IInv, TypeOK
<1>4. Held /\ Known
  BY WhatIsHeld, WhatIsKnown DEF IInv
<1>5. /\ sp \in [Strong -> Objs \cup {Null}] /\ wp \in [Weak -> Objs \cup {Null}]
      /\ ref \in [Objs -> Nat] /\ weak \in [Objs -> Nat] /\ obj \in [Objs -> {"none", "alive", "dying"}]
      /\ o # Null
  BY DEF IInv, TypeOK, SharedPtrAssumption
<1>6. /\ obj[o] = "none" /\ \A l \in Weak : wp[l] # o
      /\ \A l \in Strong : sp[l] # o
      /\ ref[o] = 0 /\ weak[o] = 0
  BY <1>1, <1>2, <1>4, <1>5 DEF Held, Known
<1>7. \A c \in Objs : ref'[c] =
           ref[c] + (IF v \in Strong \ Deleting' /\ sp'[v] = c THEN 1 ELSE 0)
                  - (IF v \in Strong \ Deleting /\ sp[v] = c THEN 1 ELSE 0)
  <2> TAKE c \in Objs
  <2>1. CASE c = o
    BY <1>1, <1>2, <1>5, <1>6, <2>1
  <2>2. CASE c # o
    BY <1>1, <1>2, <1>5, <2>2
  <2> QED
    BY <2>1, <2>2
<1>8. \A c \in Objs : weak'[c] =
           weak[c] + (IF Null \in Weak /\ wp'[Null] = c THEN 1 ELSE 0)
                   - (IF Null \in Weak /\ wp[Null] = c THEN 1 ELSE 0)
                   + (IF obj'[c] = "none" THEN 0 ELSE 1) - (IF obj[c] = "none" THEN 0 ELSE 1)
  <2> TAKE c \in Objs
  <2>1. CASE c = o
    BY <1>1, <1>5, <1>6, <2>1
  <2>2. CASE c # o
    BY <1>1, <1>5, <2>2
  <2> QED
    BY <2>1, <2>2
<1>9. \A c \in Objs : ref'[c] = Cardinality({l \in Strong \ Deleting' : sp'[l] = c})
  BY <1>1, <1>2, <1>5, <1>7, StrongCounted DEF IInv
<1>10. \A c \in Objs : weak'[c] = Cardinality({l \in Weak : wp'[l] = c})
                                    + (IF obj'[c] = "none" THEN 0 ELSE 1)
  BY <1>1, <1>8, WeakCounted DEF IInv
<1>11. CountsExact'
  BY <1>9, <1>10 DEF CountsExact
<1>12. Held'
  <2>1. ASSUME NEW l \in Strong, sp'[l] # Null
        PROVE  sp'[l] \in block' /\ obj'[sp'[l]] = (IF l \in Deleting' THEN "dying" ELSE "alive")
    BY <1>1, <1>2, <1>4, <1>5, <1>6, <2>1 DEF Held
  <2>2. \A l \in Weak : wp'[l] # Null => wp'[l] \in block'
    BY <1>1, <1>4 DEF Held
  <2>3. ASSUME NEW c \in Objs
        PROVE  /\ obj'[c] = "dying" => SoleEnd(c)'
               /\ obj'[c] = "alive" => ref'[c] > 0
               /\ c \in block' <=> obj'[c] # "none" \/ \E l \in Weak : wp'[l] = c
    <3>1. obj'[c] # "dying"
      BY <1>1, <1>2, <1>4, <1>5 DEF Held, SoleEnd
    <3>2. CASE c = o
      BY <1>1, <1>5, <3>1, <3>2
    <3>3. CASE c # o
      BY <1>1, <1>4, <1>5, <3>1, <3>3 DEF Held
    <3> QED
      BY <3>2, <3>3
  <2> QED
    BY <2>1, <2>2, <2>3 DEF Held
<1> QED
  BY <1>1, <1>3, <1>11, <1>12, NoneStacked, HeldAfter

(* Storing the source of a copy, or what lock gives: c gets one more owner,  *)
(* a pointer that held nothing.                                              *)
LEMMA OwnerAdded ==
  ASSUME SharedPtrAssumption, IInv, NEW d \in Strong, NEW c \in Objs \cup {Null},
         Deleting = {}, Deleting' = {}, pending' = <<>>, sp[d] = Null,
         sp' = [sp EXCEPT ![d] = c], ref' = Plus(ref, c), UNCHANGED <<wp, weak, block, obj>>,
         c # Null => obj[c] = "alive"
  PROVE  IInv'
<1>1. /\ sp \in [Strong -> Objs \cup {Null}] /\ wp \in [Weak -> Objs \cup {Null}]
      /\ ref \in [Objs -> Nat] /\ weak \in [Objs -> Nat] /\ obj \in [Objs -> {"none", "alive", "dying"}]
      /\ Null \notin Objs
  BY DEF IInv, TypeOK, SharedPtrAssumption
<1>2. Held /\ Known
  BY WhatIsHeld, WhatIsKnown DEF IInv
<1>3. \A e \in Objs : ref'[e] = ref[e] + (IF e = c THEN 1 ELSE 0)
  BY <1>1 DEF Plus
<1>4. ref' \in [Objs -> Nat]
  BY <1>1 DEF Plus
<1>5. TypeOK'
  <2>1. pending' \in Seq(Frames)
    OBVIOUS
  <2>2. sp' \in [Strong -> Objs \cup {Null}]
    BY <1>1
  <2> QED
    BY <1>4, <2>1, <2>2 DEF IInv, TypeOK
<1>6. \A e \in Objs : ref'[e] =
           ref[e] + (IF d \in Strong \ Deleting' /\ sp'[d] = e THEN 1 ELSE 0)
                  - (IF d \in Strong \ Deleting /\ sp[d] = e THEN 1 ELSE 0)
  BY <1>1, <1>3
<1>7. \A e \in Objs : ref'[e] = Cardinality({l \in Strong \ Deleting' : sp'[l] = e})
  BY <1>1, <1>6, StrongCounted DEF IInv
<1>8. CountsExact'
  <2>1. \A e \in Objs : weak'[e] = Cardinality({l \in Weak : wp'[l] = e})
                                    + (IF obj'[e] = "none" THEN 0 ELSE 1)
    BY DEF CountsExact, IInv
  <2> QED
    BY <1>7, <2>1 DEF CountsExact
<1>9. Held'
  <2>1. ASSUME NEW l \in Strong, sp'[l] # Null
        PROVE  sp'[l] \in block' /\ obj'[sp'[l]] = (IF l \in Deleting' THEN "dying" ELSE "alive")
    BY <1>1, <1>2, <2>1 DEF Held
  <2>2. \A e \in Objs : obj[e] # "dying"
    BY <1>2 DEF Held, SoleEnd
  <2>3. \A e \in Objs : obj'[e] = "alive" => ref'[e] > 0
    BY <1>1, <1>2, <1>3, SMTT(30) DEF Held
  <2> QED
    BY <1>2, <2>1, <2>2, <2>3 DEF Held
<1> QED
  BY <1>5, <1>8, <1>9, NoneStacked, HeldAfter

LEMMA FinishCopyHolds ==
  ASSUME SharedPtrAssumption, IInv, FinishCopy
  PROVE  IInv'
<1> DEFINE d == pending[1].dst
           s == pending[1].src
<1>1. /\ Deleting = {} /\ Deleting' = {} /\ pending' = <<>> /\ sp[d] = Null
      /\ d \in Strong /\ s \in Strong
  BY Storing, TopFrame DEF IInv, FinishCopy
<1>2. /\ sp' = [sp EXCEPT ![d] = sp[s]] /\ ref' = Plus(ref, sp[s])
      /\ UNCHANGED <<wp, weak, block, obj>>
  BY TopFrame DEF IInv, FinishCopy
<1> HIDE DEF d, s
<1>3. sp[s] \in Objs \cup {Null} /\ (sp[s] # Null => obj[sp[s]] = "alive")
  BY <1>1 DEF IInv, TypeOK, NoDangling
<1> QED
  BY <1>1, <1>2, <1>3, OwnerAdded

LEMMA LockHolds ==
  ASSUME SharedPtrAssumption, IInv, NEW v \in SVars, NEW w \in Weak, Lock(v, w)
  PROVE  IInv'
<1>1. /\ pending = <<>> /\ pending' = <<>> /\ sp[v] = Null /\ ~ Expired(w)
      /\ sp' = [sp EXCEPT ![v] = wp[w]] /\ ref' = Plus(ref, wp[w])
      /\ UNCHANGED <<wp, weak, block, obj>>
  BY DEF Lock, Idle
<1>2. Deleting = {} /\ Deleting' = {} /\ v \in Strong
  BY <1>1, NothingDeleting DEF Deleting, Strong
<1>3. wp[w] \in Objs \cup {Null} /\ obj[wp[w]] = "alive"
  BY <1>1 DEF IInv, TypeOK, HeldOrGone, Expired
<1> QED
  BY <1>1, <1>2, <1>3, OwnerAdded

(* Moving: what the source held is the target's.                             *)
LEMMA FinishMoveHolds ==
  ASSUME SharedPtrAssumption, IInv, FinishMove
  PROVE  IInv'
<1> DEFINE d == pending[1].dst
           s == pending[1].src
<1>1. /\ Deleting = {} /\ Deleting' = {} /\ pending' = <<>> /\ sp[d] = Null /\ d # s
      /\ d \in Strong /\ s \in Strong
  BY Storing, TopFrame DEF IInv, FinishMove
<1>2. /\ sp' = [sp EXCEPT ![d] = sp[s], ![s] = Null]
      /\ UNCHANGED <<wp, ref, weak, block, obj>>
  BY TopFrame DEF IInv, FinishMove
<1> HIDE DEF d, s
<1>3. /\ sp \in [Strong -> Objs \cup {Null}] /\ Null \notin Objs
  BY DEF IInv, TypeOK, SharedPtrAssumption
<1>4. /\ sp'[d] = sp[s] /\ sp'[s] = Null /\ \A l \in Strong \ {d, s} : sp'[l] = sp[l]
      /\ sp' \in [Strong -> Objs \cup {Null}]
  BY <1>1, <1>2, <1>3
<1>5. Held
  BY WhatIsHeld
<1>6. TypeOK'
  BY <1>1, <1>2, <1>4 DEF IInv, TypeOK
<1>7. ASSUME NEW c \in Objs
      PROVE  ref'[c] = Cardinality({l \in Strong \ Deleting' : sp'[l] = c})
  <2> DEFINE P == {l \in Strong : sp[l] = c}
             R == P \ {s}
             Q == {l \in Strong : sp'[l] = c}
  <2>1. ref[c] = Cardinality(P)
    BY <1>1 DEF IInv, CountsExact
  <2>2. /\ P \subseteq Strong /\ Q \subseteq Strong /\ R \subseteq Strong
        /\ \A y \in Strong \ {d} : y \in R <=> y \in Q
        /\ \A y \in Strong \ {s} : y \in P <=> y \in R
        /\ d \notin R /\ s \notin R /\ (s \in P <=> d \in Q)
    BY <1>1, <1>3, <1>4
  <2> HIDE DEF P, R, Q
  <2>3. /\ Cardinality(P) \in Nat /\ Cardinality(R) \in Nat
        /\ Cardinality(R) = Cardinality(P) + (IF s \in R THEN 1 ELSE 0)
                                           - (IF s \in P THEN 1 ELSE 0)
    BY <2>2, OneMember, FinitelyMany
  <2>4. /\ Cardinality(Q) \in Nat
        /\ Cardinality(Q) = Cardinality(R) + (IF d \in Q THEN 1 ELSE 0)
                                           - (IF d \in R THEN 1 ELSE 0)
    BY <2>2, OneMember, FinitelyMany
  <2>5. ref'[c] = Cardinality(Q)
    BY <1>2, <2>1, <2>2, <2>3, <2>4
  <2>6. Q = {l \in Strong \ Deleting' : sp'[l] = c}
    BY <1>1 DEF Q
  <2> QED
    BY <2>5, <2>6
<1>8. CountsExact'
  <2>1. \A c \in Objs : weak'[c] = Cardinality({l \in Weak : wp'[l] = c})
                                    + (IF obj'[c] = "none" THEN 0 ELSE 1)
    BY <1>2 DEF CountsExact, IInv
  <2> QED
    BY <1>7, <2>1 DEF CountsExact
<1>9. Held'
  <2>1. ASSUME NEW l \in Strong, sp'[l] # Null
        PROVE  sp'[l] \in block' /\ obj'[sp'[l]] = (IF l \in Deleting' THEN "dying" ELSE "alive")
    BY <1>1, <1>2, <1>4, <1>5, <2>1 DEF Held
  <2>2. \A c \in Objs : obj[c] # "dying"
    BY <1>1, <1>5 DEF Held, SoleEnd
  <2> QED
    BY <1>2, <1>5, <2>1, <2>2 DEF Held
<1> QED
  BY <1>1, <1>6, <1>8, <1>9, NoneStacked, HeldAfter
-----------------------------------------------------------------------------
(* A release that deletes nothing: the pointer held nothing, or there are    *)
(* other owners.                                                             *)
LEMMA ReleaseOneHolds ==
  ASSUME SharedPtrAssumption, IInv, Top("release_strong"), Return, NEW l, l = pending[1].dst,
         NEW c, c = sp[l],
         \/ c = Null /\ UNCHANGED <<sp, ref>>
         \/ c # Null /\ ref[c] > 1 /\ ref' = Minus(ref, c) /\ sp' = [sp EXCEPT ![l] = Null],
         UNCHANGED <<wp, weak, block, obj>>
  PROVE  IInv'
<1>1. /\ pending \in Seq(Frames) /\ pending # <<>> /\ pending[1].call = "release_strong"
      /\ Tail(pending) \in Seq(Frames) /\ l \in Strong
  BY TopFrame DEF IInv
<1>2. pending' = Tail(pending) /\ Deleting' = Deleting /\ Deleting' = Ends(Tail(pending))
  BY Returned DEF IInv
<1>3. /\ sp \in [Strong -> Objs \cup {Null}] /\ ref \in [Objs -> Nat] /\ Null \notin Objs
      /\ obj \in [Objs -> {"none", "alive", "dying"}]
  BY DEF IInv, TypeOK, SharedPtrAssumption
<1>4. Held /\ Known
  BY WhatIsHeld, WhatIsKnown DEF IInv
<1>5. /\ sp' \in [Strong -> Objs \cup {Null}] /\ sp'[l] = Null
      /\ \A y \in Strong \ {l} : sp'[y] = sp[y]
      /\ ref' \in [Objs -> Nat]
      /\ \A e \in Objs : ref'[e] = ref[e] - (IF e = c THEN 1 ELSE 0)
  <2>1. CASE c = Null /\ UNCHANGED <<sp, ref>>
    <3>1. sp' = sp /\ ref' = ref /\ sp[l] = Null
      BY <2>1
    <3>2. \A e \in Objs : e # c /\ ref[e] \in Nat /\ ref[e] - 0 = ref[e]
      BY <1>3, <2>1
    <3> QED
      BY <1>3, <3>1, <3>2
  <2>2. CASE c # Null /\ ref[c] > 1 /\ ref' = Minus(ref, c) /\ sp' = [sp EXCEPT ![l] = Null]
    <3>1. c \in Objs /\ ref[c] - 1 \in Nat
      BY <1>1, <1>3, <2>2
    <3> QED
      BY <1>1, <1>3, <2>2, <3>1 DEF Minus
  <2> QED
    BY <2>1, <2>2
<1>6. c # Null => c \in Objs /\ ref[c] > 1 /\ l \notin Deleting
  <2>1. SUFFICES ASSUME c # Null PROVE c \in Objs /\ ref[c] > 1 /\ l \notin Deleting
    OBVIOUS
  <2>2. c \in Objs /\ ref[c] > 1
    BY <1>1, <1>3, <2>1
  <2>3. PICK x \in Strong \ Deleting : sp[x] = c
    BY <1>4, <2>2 DEF Known
  <2>4. obj[c] = "alive"
    BY <1>4, <2>1, <2>3 DEF Held
  <2> QED
    BY <1>1, <1>4, <2>1, <2>2, <2>4 DEF Held
<1>7. \A e \in Objs : ref'[e] = Cardinality({y \in Strong \ Deleting' : sp'[y] = e})
  <2>1. \A y \in Strong \ {l} : sp'[y] = sp[y] /\ (y \in Deleting' <=> y \in Deleting)
    BY <1>2, <1>5
  <2>2. ASSUME NEW e \in Objs
        PROVE  ref'[e] = ref[e] + (IF l \in Strong \ Deleting' /\ sp'[l] = e THEN 1 ELSE 0)
                                - (IF l \in Strong \ Deleting /\ sp[l] = e THEN 1 ELSE 0)
    <3>1. ref'[e] = ref[e] - (IF e = c THEN 1 ELSE 0) /\ ref[e] \in Nat
      BY <1>3, <1>5
    <3>2. sp'[l] # e
      BY <1>3, <1>5
    <3>3. e = c <=> l \in Strong \ Deleting /\ sp[l] = e
      BY <1>1, <1>3, <1>6
    <3> QED
      BY <3>1, <3>2, <3>3
  <2> QED
    BY <2>1, <2>2, StrongCounted DEF IInv
<1>8. CountsExact'
  <2>1. \A e \in Objs : weak'[e] = Cardinality({y \in Weak : wp'[y] = e})
                                    + (IF obj'[e] = "none" THEN 0 ELSE 1)
    BY DEF CountsExact, IInv
  <2> QED
    BY <1>7, <2>1 DEF CountsExact
<1>9. TypeOK'
  BY <1>1, <1>2, <1>5 DEF IInv, TypeOK
<1>10. \A y \in Deleting : sp[y] # Null /\ y # l
  BY <1>1, <1>6, EndsHold DEF IInv
<1>11. Held'
  <2>1. \A y \in Strong : sp'[y] # Null =>
          sp'[y] \in block' /\ obj'[sp'[y]] = (IF y \in Deleting' THEN "dying" ELSE "alive")
    BY <1>2, <1>4, <1>5 DEF Held
  <2>2. ASSUME NEW e \in Objs, obj'[e] = "dying" PROVE SoleEnd(e)'
    <3>1. SoleEnd(e)
      BY <1>4, <2>2 DEF Held
    <3>2. \A y \in Deleting : sp'[y] = sp[y] /\ y \in Deleting'
      BY <1>2, <1>4, <1>5, <1>10 DEF Known
    <3> QED
      BY <1>2, <3>1, <3>2 DEF SoleEnd
  <2>3. ASSUME NEW e \in Objs, obj'[e] = "alive" PROVE ref'[e] > 0
    <3>1. ref[e] \in Nat /\ ref[e] > 0
      BY <1>3, <1>4, <2>3 DEF Held
    <3> QED
      BY <1>5, <1>6, <3>1
  <2> QED
    BY <1>4, <2>1, <2>2, <2>3 DEF Held
<1>12. Stacked(pending, sp)'
  <2>1. \A y \in Ends(Tail(pending)) : sp'[y] # Null
    BY <1>2, <1>4, <1>5, <1>10 DEF Known
  <2> QED
    BY <1>1, <1>2, <1>5, <2>1, Popped DEF IInv
<1> QED
  BY <1>8, <1>9, <1>11, <1>12, HeldAfter

(* The last owner's release: its object is dying until it has finished.      *)
LEMMA ReleaseLastHolds ==
  ASSUME SharedPtrAssumption, IInv, Top("release_strong"), NEW l, l = pending[1].dst,
         NEW c, c = sp[l], c # Null, ref[c] = 1,
         ref' = Minus(ref, c), obj' = [obj EXCEPT ![c] = "dying"],
         pending' = Destroying(l, c, pending), UNCHANGED <<sp, wp, weak, block>>
  PROVE  IInv'
<1>1. /\ pending \in Seq(Frames) /\ pending # <<>> /\ pending[1].call = "release_strong"
      /\ l \in Strong
  BY TopFrame DEF IInv
<1>2. /\ sp \in [Strong -> Objs \cup {Null}] /\ ref \in [Objs -> Nat] /\ Null \notin Objs
      /\ obj \in [Objs -> {"none", "alive", "dying"}]
  BY DEF IInv, TypeOK, SharedPtrAssumption
<1>3. c \in Objs
  BY <1>1, <1>2
<1>4. pending' \in Seq(Frames) /\ Deleting' = Deleting \cup {l}
  <2>1. pending' \in Seq(Frames)
    BY <1>1, <1>3, DestroyingShape
  <2>2. Ends(pending') = Ends(pending) \cup {l}
    BY <1>1, <1>3, EndsDestroying
  <2> QED
    BY <2>1, <2>2 DEF Deleting, Ends
<1>5. Held /\ Known
  BY WhatIsHeld, WhatIsKnown DEF IInv
<1>6. /\ obj[c] = "alive" /\ l \notin Deleting
      /\ \A y \in Strong : sp[y] = c => y = l
  <2>1. PICK x \in Strong \ Deleting :
          sp[x] = c /\ \A y \in Strong \ Deleting : sp[y] = c => y = x
    BY <1>3, <1>5 DEF Known
  <2>2. obj[c] = "alive"
    BY <1>3, <1>5, <2>1 DEF Held
  <2>3. \A y \in Strong : sp[y] = c => y \notin Deleting
    BY <1>5, <2>2 DEF Held
  <2> QED
    BY <1>1, <2>1, <2>2, <2>3
<1>7. /\ ref' \in [Objs -> Nat] /\ ref'[c] = 0
      /\ \A e \in Objs \ {c} : ref'[e] = ref[e] /\ obj'[e] = obj[e]
      /\ obj' \in [Objs -> {"none", "alive", "dying"}] /\ obj'[c] = "dying"
  <2>1. 1 - 1 = 0
    OBVIOUS
  <2> QED
    BY <1>2, <1>3, <2>1 DEF Minus
<1>8. TypeOK'
  BY <1>4, <1>7 DEF IInv, TypeOK
<1>9. \A e \in Objs : ref'[e] = Cardinality({y \in Strong \ Deleting' : sp'[y] = e})
  <2>1. \A y \in Strong \ {l} : sp'[y] = sp[y] /\ (y \in Deleting' <=> y \in Deleting)
    BY <1>4
  <2>2. ASSUME NEW e \in Objs
        PROVE  ref'[e] = ref[e] + (IF l \in Strong \ Deleting' /\ sp'[l] = e THEN 1 ELSE 0)
                                - (IF l \in Strong \ Deleting /\ sp[l] = e THEN 1 ELSE 0)
    BY <1>1, <1>2, <1>3, <1>4, <1>6, <1>7
  <2> QED
    BY <2>1, <2>2, StrongCounted DEF IInv
<1>10. \A e \in Objs : weak'[e] = Cardinality({y \in Weak : wp'[y] = e})
                                    + (IF obj'[e] = "none" THEN 0 ELSE 1)
  <2> TAKE e \in Objs
  <2>1. obj'[e] = "none" <=> obj[e] = "none"
    BY <1>6, <1>7
  <2> QED
    BY <2>1 DEF CountsExact, IInv
<1>11. CountsExact'
  BY <1>9, <1>10 DEF CountsExact
<1>12. Held'
  <2>1. ASSUME NEW y \in Strong, sp'[y] # Null
        PROVE  sp'[y] \in block' /\ obj'[sp'[y]] = (IF y \in Deleting' THEN "dying" ELSE "alive")
    <3>1. sp'[y] \in Objs /\ sp'[y] = sp[y]
      BY <1>2, <2>1
    <3>2. CASE y = l
      BY <1>4, <1>5, <1>7, <2>1, <3>2 DEF Held
    <3>3. CASE y # l
      <4>1. sp[y] # c
        BY <1>6, <3>3
      <4>2. obj'[sp[y]] = obj[sp[y]]
        BY <1>7, <3>1, <4>1
      <4> QED
        BY <1>4, <1>5, <2>1, <3>1, <3>3, <4>2 DEF Held
    <3> QED
      BY <3>2, <3>3
  <2>2. ASSUME NEW e \in Objs, obj'[e] = "dying" PROVE SoleEnd(e)'
    <3>1. CASE e = c
      <4>1. l \in Deleting' /\ \A y \in Deleting' : sp'[y] = c => y = l
        BY <1>1, <1>4, <1>5, <1>6 DEF Known
      <4> QED
        BY <3>1, <4>1 DEF SoleEnd
    <3>2. CASE e # c
      <4>1. SoleEnd(e)
        BY <1>5, <1>7, <2>2, <3>2 DEF Held
      <4> QED
        BY <1>4, <3>2, <4>1 DEF SoleEnd
    <3> QED
      BY <3>1, <3>2
  <2>3. ASSUME NEW e \in Objs, obj'[e] = "alive" PROVE ref'[e] > 0
    <3>1. e # c
      BY <1>7, <2>3
    <3> QED
      BY <1>5, <1>7, <2>3, <3>1 DEF Held
  <2>4. ASSUME NEW e \in Objs
        PROVE  e \in block' <=> obj'[e] # "none" \/ \E y \in Weak : wp'[y] = e
    <3>1. obj'[e] = "none" <=> obj[e] = "none"
      BY <1>6, <1>7
    <3> QED
      BY <1>5, <3>1 DEF Held
  <2> QED
    BY <1>5, <2>1, <2>2, <2>3, <2>4 DEF Held
<1>13. Stacked(pending, sp)'
  <2>1. l \notin Ends(pending)
    BY <1>6 DEF Deleting, Ends
  <2>2. Stacked(Destroying(l, c, pending), sp)
    BY <1>1, <1>3, <2>1, Deepened DEF IInv
  <2> QED
    BY <2>2
<1> QED
  BY <1>8, <1>11, <1>12, <1>13, HeldAfter

LEMMA ReleaseSharedHolds ==
  ASSUME SharedPtrAssumption, IInv, ReleaseShared
  PROVE  IInv'
<1> DEFINE l == pending[1].dst
           c == sp[l]
<1>1. /\ Top("release_strong") /\ UNCHANGED <<wp, weak, block>>
      /\ \/ c = Null /\ Return /\ UNCHANGED <<sp, ref, obj>>
         \/ c # Null /\ ref[c] > 1 /\ ref' = Minus(ref, c) /\ sp' = [sp EXCEPT ![l] = Null]
              /\ Return /\ UNCHANGED obj
         \/ c # Null /\ ref[c] = 1 /\ ref' = Minus(ref, c) /\ obj' = [obj EXCEPT ![c] = "dying"]
              /\ pending' = Destroying(l, c, pending) /\ UNCHANGED sp
  <2>1. Head(pending) = pending[1]
    BY TopFrame DEF ReleaseShared, IInv
  <2> QED
    BY <2>1 DEF ReleaseShared, Destroying
<1>2. PICK ll : ll = pending[1].dst
  OBVIOUS
<1>3. PICK cc : cc = sp[ll]
  OBVIOUS
<1>4. CASE \/ c = Null /\ Return /\ UNCHANGED <<sp, ref, obj>>
           \/ c # Null /\ ref[c] > 1 /\ ref' = Minus(ref, c) /\ sp' = [sp EXCEPT ![l] = Null]
                /\ Return /\ UNCHANGED obj
  <2>1. /\ Return /\ UNCHANGED <<wp, weak, block, obj>>
        /\ \/ cc = Null /\ UNCHANGED <<sp, ref>>
           \/ cc # Null /\ ref[cc] > 1 /\ ref' = Minus(ref, cc) /\ sp' = [sp EXCEPT ![ll] = Null]
    BY <1>1, <1>2, <1>3, <1>4
  <2> QED
    BY <1>1, <1>2, <1>3, <2>1, ReleaseOneHolds
<1>5. CASE c # Null /\ ref[c] = 1 /\ ref' = Minus(ref, c) /\ obj' = [obj EXCEPT ![c] = "dying"]
              /\ pending' = Destroying(l, c, pending) /\ UNCHANGED sp
  <2>1. /\ cc # Null /\ ref[cc] = 1 /\ ref' = Minus(ref, cc)
        /\ obj' = [obj EXCEPT ![cc] = "dying"] /\ pending' = Destroying(ll, cc, pending)
        /\ UNCHANGED <<sp, wp, weak, block>>
    BY <1>1, <1>2, <1>3, <1>5
  <2> QED
    BY <1>1, <1>2, <1>3, <2>1, ReleaseLastHolds
<1> QED
  BY <1>1, <1>4, <1>5
-----------------------------------------------------------------------------
(* Who watches a block, with and without w.                                  *)
LEMMA Unwatched ==
  ASSUME SharedPtrAssumption, NEW f, NEW c
  PROVE  /\ Cardinality(At(Weak, f, c)) \in Nat
         /\ Cardinality(At(Weak, f, c)) = 0 <=> \A l \in Weak : f[l] # c
<1> DEFINE A == At(Weak, f, c)
<1>1. A \subseteq Weak /\ (A = {} <=> \A l \in Weak : f[l] # c)
  BY DEF At
<1> HIDE DEF A
<1>2. IsFiniteSet(A)
  BY <1>1, FinitelyMany, FS_Subset
<1>3. Cardinality(A) \in Nat /\ (Cardinality(A) = 0 <=> A = {})
  BY <1>2, CountedMembers
<1> QED
  BY <1>1, <1>3 DEF A

LEMMA UnwatchedWithout ==
  ASSUME SharedPtrAssumption, NEW f, NEW w \in Weak, NEW c, f[w] = c
  PROVE  /\ Cardinality(At(Weak, f, c)) \in Nat \ {0}
         /\ Cardinality(At(Weak, f, c)) = 1 <=> \A l \in Weak \ {w} : f[l] # c
<1> DEFINE A == At(Weak, f, c)
<1>1. A \subseteq Weak /\ w \in A
  BY DEF At
<1>2. (\E x \in A : \A y \in A : y = x) <=> \A l \in Weak \ {w} : f[l] # c
  BY DEF At
<1> HIDE DEF A
<1>3. IsFiniteSet(A)
  BY <1>1, FinitelyMany, FS_Subset
<1>4. /\ Cardinality(A) \in Nat
      /\ Cardinality(A) = 0 <=> A = {}
      /\ Cardinality(A) = 1 <=> \E x \in A : \A y \in A : y = x
  BY <1>3, CountedMembers
<1>5. Cardinality(A) # 0
  BY <1>1, <1>4
<1> QED
  BY <1>2, <1>4, <1>5 DEF A

(* The end of the last owner's release: the owners' common weak reference    *)
(* goes, and the block with it if nobody watches.                            *)
LEMMA FinishReleaseHolds ==
  ASSUME SharedPtrAssumption, IInv, FinishRelease
  PROVE  IInv'
<1>1. PICK l : l = pending[1].dst
  OBVIOUS
<1>2. PICK c : c = sp[l]
  OBVIOUS
<1>3. Top("after_delete") /\ Return /\ UNCHANGED <<wp, ref>>
  BY DEF FinishRelease
<1>4. /\ pending \in Seq(Frames) /\ pending # <<>> /\ pending[1].call = "after_delete"
      /\ Tail(pending) \in Seq(Frames) /\ l \in Strong /\ Head(pending) = pending[1]
  BY <1>1, <1>3, TopFrame DEF IInv
<1>5. /\ obj' = [obj EXCEPT ![c] = "none"] /\ weak' = Minus(weak, c)
      /\ block' = FreedIfUnheld(c, weak') /\ sp' = [sp EXCEPT ![l] = Null]
  BY <1>1, <1>2, <1>4 DEF FinishRelease
<1>6. /\ pending' = Tail(pending) /\ Deleting' = Ends(Tail(pending))
      /\ l \in Deleting /\ Deleting' = Deleting \ {l}
  BY <1>1, <1>3, Returned DEF IInv
<1>7. /\ sp \in [Strong -> Objs \cup {Null}] /\ wp \in [Weak -> Objs \cup {Null}]
      /\ ref \in [Objs -> Nat] /\ weak \in [Objs -> Nat] /\ Null \notin Objs
      /\ obj \in [Objs -> {"none", "alive", "dying"}] /\ block \subseteq Objs
  BY DEF IInv, TypeOK, SharedPtrAssumption
<1>8. Held /\ Known
  BY WhatIsHeld, WhatIsKnown DEF IInv
<1>9. \A y \in Deleting : sp[y] # Null
  BY EndsHold DEF IInv
<1>10. /\ c \in Objs /\ obj[c] = "dying"
       /\ \A y \in Strong : sp[y] = c => y = l
  <2>1. c \in Objs
    BY <1>2, <1>4, <1>6, <1>7, <1>9
  <2>2. obj[c] = "dying"
    BY <1>2, <1>4, <1>6, <1>7, <1>8, <2>1 DEF Held
  <2>3. \A y \in Strong : sp[y] = c => y \in Deleting
    BY <1>7, <1>8, <2>1, <2>2 DEF Held
  <2>4. PICK x \in Deleting : sp[x] = c /\ \A y \in Deleting : sp[y] = c => y = x
    BY <1>8, <2>1, <2>2 DEF Held, SoleEnd
  <2> QED
    BY <1>2, <1>6, <2>1, <2>2, <2>3, <2>4
<1>11. /\ weak[c] \in Nat \ {0} /\ weak' \in [Objs -> Nat] /\ weak'[c] = weak[c] - 1
       /\ \A e \in Objs \ {c} : weak'[e] = weak[e]
  <2>1. weak[c] \in Nat \ {0} /\ weak[c] - 1 \in Nat /\ c # Null
    BY <1>7, <1>8, <1>10 DEF Known
  <2> QED
    BY <1>5, <1>7, <1>10, <2>1 DEF Minus
<1>12. /\ sp' \in [Strong -> Objs \cup {Null}] /\ sp'[l] = Null
       /\ \A y \in Strong \ {l} : sp'[y] = sp[y]
       /\ obj' \in [Objs -> {"none", "alive", "dying"}] /\ obj'[c] = "none"
       /\ \A e \in Objs \ {c} : obj'[e] = obj[e]
  BY <1>4, <1>5, <1>7, <1>10
<1>13. /\ block' \subseteq Objs
       /\ c \in block' <=> c \in block /\ weak'[c] # 0
       /\ \A e \in Objs \ {c} : e \in block' <=> e \in block
  BY <1>5, <1>7, <1>10 DEF FreedIfUnheld
<1>14. TypeOK'
  BY <1>3, <1>4, <1>6, <1>11, <1>12, <1>13 DEF IInv, TypeOK
<1>15. \A e \in Objs : ref'[e] = Cardinality({y \in Strong \ Deleting' : sp'[y] = e})
  <2>1. \A y \in Strong \ {l} : sp'[y] = sp[y] /\ (y \in Deleting' <=> y \in Deleting)
    BY <1>6, <1>12
  <2>2. ASSUME NEW e \in Objs
        PROVE  ref'[e] = ref[e] + (IF l \in Strong \ Deleting' /\ sp'[l] = e THEN 1 ELSE 0)
                                - (IF l \in Strong \ Deleting /\ sp[l] = e THEN 1 ELSE 0)
    BY <1>3, <1>6, <1>7, <1>12
  <2> QED
    BY <2>1, <2>2, StrongCounted DEF IInv
<1>16. \A e \in Objs : weak'[e] = Cardinality({y \in Weak : wp'[y] = e})
                                    + (IF obj'[e] = "none" THEN 0 ELSE 1)
  <2>1. \A y \in Weak \ {Null} : wp'[y] = wp[y]
    BY <1>3
  <2>2. ASSUME NEW e \in Objs
        PROVE  weak'[e] = weak[e] + (IF Null \in Weak /\ wp'[Null] = e THEN 1 ELSE 0)
                   - (IF Null \in Weak /\ wp[Null] = e THEN 1 ELSE 0)
                   + (IF obj'[e] = "none" THEN 0 ELSE 1) - (IF obj[e] = "none" THEN 0 ELSE 1)
    <3>1. CASE e = c
      BY <1>3, <1>10, <1>11, <1>12, <3>1
    <3>2. CASE e # c
      BY <1>3, <1>7, <1>11, <1>12, <3>2
    <3> QED
      BY <3>1, <3>2
  <2> QED
    BY <2>1, <2>2, WeakCounted DEF IInv
<1>17. CountsExact'
  BY <1>15, <1>16 DEF CountsExact
<1>18. weak'[c] = 0 <=> \A y \in Weak : wp'[y] # c
  <2>1. weak'[c] = Cardinality(At(Weak, wp', c))
    <3>1. weak'[c] = Cardinality({y \in Weak : wp'[y] = c}) + 0
      BY <1>10, <1>12, <1>16
    <3>2. At(Weak, wp', c) = {y \in Weak : wp'[y] = c}
      BY DEF At
    <3>3. Cardinality(At(Weak, wp', c)) \in Nat
      BY Unwatched
    <3> QED
      BY <3>1, <3>2, <3>3
  <2> QED
    BY <2>1, Unwatched
<1>19. Held'
  <2>1. ASSUME NEW y \in Strong, sp'[y] # Null
        PROVE  sp'[y] \in block' /\ obj'[sp'[y]] = (IF y \in Deleting' THEN "dying" ELSE "alive")
    <3>1. y # l /\ sp'[y] = sp[y] /\ sp[y] # c /\ sp[y] \in Objs
      BY <1>7, <1>10, <1>12, <2>1
    <3>2. sp[y] \in block /\ obj[sp[y]] = (IF y \in Deleting THEN "dying" ELSE "alive")
      BY <1>8, <2>1, <3>1 DEF Held
    <3> QED
      BY <1>6, <1>12, <1>13, <3>1, <3>2
  <2>2. ASSUME NEW e \in Objs, obj'[e] = "dying" PROVE SoleEnd(e)'
    <3>1. e # c
      BY <1>12, <2>2
    <3>2. SoleEnd(e)
      BY <1>8, <1>12, <2>2, <3>1 DEF Held
    <3>3. PICK x \in Deleting : sp[x] = e /\ \A y \in Deleting : sp[y] = e => y = x
      BY <3>2 DEF SoleEnd
    <3>4. x \in Deleting' /\ sp'[x] = e
      BY <1>2, <1>6, <1>8, <1>12, <3>1, <3>3 DEF Known
    <3>5. \A y \in Deleting' : sp'[y] = e => y = x
      BY <1>6, <1>8, <1>12, <3>3 DEF Known
    <3> QED
      BY <3>4, <3>5 DEF SoleEnd
  <2>3. \A e \in Objs : obj'[e] = "alive" => ref'[e] > 0
    BY <1>3, <1>8, <1>12 DEF Held
  <2>4. ASSUME NEW e \in Objs
        PROVE  e \in block' <=> obj'[e] # "none" \/ \E y \in Weak : wp'[y] = e
    <3>1. e \in block <=> obj[e] # "none" \/ \E y \in Weak : wp'[y] = e
      BY <1>3, <1>8 DEF Held
    <3>2. CASE e = c
      BY <1>10, <1>12, <1>13, <1>18, <3>1, <3>2
    <3>3. CASE e # c
      BY <1>12, <1>13, <3>1, <3>3
    <3> QED
      BY <3>2, <3>3
  <2>5. \A y \in Weak : wp'[y] # Null => wp'[y] \in block'
    BY <1>3, <1>7, <2>4
  <2> QED
    BY <2>1, <2>2, <2>3, <2>4, <2>5 DEF Held
<1>20. Stacked(pending, sp)'
  <2>1. \A y \in Ends(Tail(pending)) : sp'[y] # Null
    BY <1>6, <1>8, <1>9, <1>12 DEF Known
  <2>2. sp'[pending[1].dst] = Null
    BY <1>1, <1>12
  <2> QED
    BY <1>4, <1>6, <2>1, <2>2, Popped DEF IInv
<1> QED
  BY <1>14, <1>17, <1>19, <1>20, HeldAfter
-----------------------------------------------------------------------------
(* Steps of weak pointers: w lets its block go, and nothing else that        *)
(* happens leaves a block unwatched or watches one that is gone.             *)
LEMMA WeakStep ==
  ASSUME SharedPtrAssumption, IInv, NEW w \in Weak, NEW b, b = wp[w],
         UNCHANGED <<sp, ref, obj>>, Deleting' = Deleting,
         pending' \in Seq(Frames), Stacked(pending, sp)',
         wp' \in [Weak -> Objs \cup {Null}], weak' \in [Objs -> Nat],
         \A e \in Objs : weak'[e] = Cardinality({y \in Weak : wp'[y] = e})
                                      + (IF obj[e] = "none" THEN 0 ELSE 1),
         block' = FreedIfUnheld(b, Minus(weak, b)),
         \A e \in Objs : obj[e] = "none" =>
           ((\E y \in Weak : wp'[y] = e) <=> \E y \in Weak : wp[y] = e /\ (y # w \/ e # b))
  PROVE  IInv'
<1>1. /\ wp \in [Weak -> Objs \cup {Null}] /\ weak \in [Objs -> Nat] /\ Null \notin Objs
      /\ block \subseteq Objs /\ b \in Objs \cup {Null}
  BY DEF IInv, TypeOK, SharedPtrAssumption
<1>2. Held
  BY WhatIsHeld
<1>3. ASSUME b # Null
      PROVE  Minus(weak, b)[b] = 0 <=> obj[b] = "none" /\ \A y \in Weak \ {w} : wp[y] # b
  <2>1. b \in Objs /\ Minus(weak, b)[b] = weak[b] - 1
    BY <1>1, <1>3 DEF Minus
  <2>2. weak[b] = Cardinality(At(Weak, wp, b)) + (IF obj[b] = "none" THEN 0 ELSE 1)
    BY <2>1 DEF IInv, CountsExact, At
  <2>3. /\ Cardinality(At(Weak, wp, b)) \in Nat \ {0}
        /\ Cardinality(At(Weak, wp, b)) = 1 <=> \A y \in Weak \ {w} : wp[y] # b
    BY UnwatchedWithout
  <2> QED
    BY <2>1, <2>2, <2>3
<1>4. /\ block' \subseteq Objs
      /\ \A e \in Objs : e \in block' <=> e \in block /\ ~ (e = b /\ Minus(weak, b)[b] = 0)
  BY <1>1 DEF FreedIfUnheld
<1>5. TypeOK'
  BY <1>4 DEF IInv, TypeOK
<1>6. CountsExact'
  <2>1. ASSUME NEW c \in Objs
        PROVE  ref'[c] = Cardinality({l \in Strong \ Deleting' : sp'[l] = c})
    <3>1. {l \in Strong \ Deleting' : sp'[l] = c} = {l \in Strong \ Deleting : sp[l] = c}
      OBVIOUS
    <3>2. ref[c] = Cardinality({l \in Strong \ Deleting : sp[l] = c})
      BY DEF IInv, CountsExact
    <3> QED
      BY <3>1, <3>2
  <2> QED
    BY <2>1 DEF CountsExact
<1>7. ASSUME NEW e \in Objs
      PROVE  e \in block' <=> obj'[e] # "none" \/ \E y \in Weak : wp'[y] = e
  <2>1. e \in block <=> obj[e] # "none" \/ \E y \in Weak : wp[y] = e
    BY <1>2 DEF Held
  <2>2. CASE obj[e] # "none"
    BY <1>1, <1>3, <1>4, <2>1, <2>2
  <2>3. CASE obj[e] = "none" /\ e # b
    BY <1>4, <2>1, <2>3
  <2>4. CASE obj[e] = "none" /\ e = b
    <3>1. e \in block' <=> e \in block /\ \E y \in Weak \ {w} : wp[y] = b
      BY <1>1, <1>3, <1>4, <2>4
    <3>2. (\E y \in Weak : wp'[y] = e) <=> \E y \in Weak \ {w} : wp[y] = b
      BY <2>4
    <3> QED
      BY <2>1, <2>4, <3>1, <3>2
  <2> QED
    BY <2>2, <2>3, <2>4
<1>8. Held'
  <2>1. ASSUME NEW l \in Strong, sp'[l] # Null
        PROVE  sp'[l] \in block' /\ obj'[sp'[l]] = (IF l \in Deleting' THEN "dying" ELSE "alive")
    <3>1. sp[l] \in Objs /\ sp'[l] = sp[l]
      BY <2>1 DEF IInv, TypeOK
    <3>2. obj[sp[l]] = (IF l \in Deleting THEN "dying" ELSE "alive")
      BY <1>2, <2>1, <3>1 DEF Held
    <3> QED
      BY <1>7, <3>1, <3>2
  <2>2. \A y \in Weak : wp'[y] # Null => wp'[y] \in block'
    BY <1>7
  <2>3. \A e \in Objs : obj'[e] = "dying" => SoleEnd(e)'
    BY <1>2 DEF Held, SoleEnd
  <2> QED
    BY <1>2, <1>7, <2>1, <2>2, <2>3 DEF Held
<1> QED
  BY <1>5, <1>6, <1>8, HeldAfter

(* One weak pointer lets one block go and takes another, or none.            *)
LEMMA WeakRebound ==
  ASSUME SharedPtrAssumption, IInv, NEW w \in Weak, NEW b, b = wp[w], NEW c \in Objs \cup {Null},
         UNCHANGED <<sp, ref, obj>>, Deleting' = Deleting,
         pending' \in Seq(Frames), Stacked(pending, sp)',
         wp' = [wp EXCEPT ![w] = c], weak' = Plus(Minus(weak, b), c),
         block' = FreedIfUnheld(b, Minus(weak, b)),
         c # Null => obj[c] # "none" \/ \E y \in Weak \ {w} : wp[y] = c
  PROVE  IInv'
<1>1. /\ wp \in [Weak -> Objs \cup {Null}] /\ weak \in [Objs -> Nat] /\ Null \notin Objs
      /\ b \in Objs \cup {Null}
  BY DEF IInv, TypeOK, SharedPtrAssumption
<1>2. /\ wp' \in [Weak -> Objs \cup {Null}] /\ wp'[w] = c
      /\ \A y \in Weak \ {w} : wp'[y] = wp[y]
  BY <1>1
<1>3. \A e \in Objs :
        /\ weak'[e] = weak[e] + (IF c = e THEN 1 ELSE 0) - (IF b = e THEN 1 ELSE 0)
  BY <1>1 DEF Plus, Minus
<1>4. \A e \in Objs :
           /\ weak'[e] \in Nat
           /\ weak'[e] = Cardinality({y \in Weak : wp'[y] = e}) + (IF obj'[e] = "none" THEN 0 ELSE 1)
  <2>1. ASSUME NEW e \in Objs
        PROVE  weak'[e] = weak[e] + (IF w \in Weak /\ wp'[w] = e THEN 1 ELSE 0)
                   - (IF w \in Weak /\ wp[w] = e THEN 1 ELSE 0)
                   + (IF obj'[e] = "none" THEN 0 ELSE 1) - (IF obj[e] = "none" THEN 0 ELSE 1)
    BY <1>1, <1>2, <1>3
  <2> QED
    BY <1>2, <2>1, WeakCounted DEF IInv
<1>5. weak' \in [Objs -> Nat]
  <2>1. weak' = [e \in Objs |-> weak'[e]]
    BY <1>1 DEF Plus, Minus
  <2> QED
    BY <1>4, <2>1
<1>6. \A e \in Objs : weak'[e] = Cardinality({y \in Weak : wp'[y] = e})
                                      + (IF obj[e] = "none" THEN 0 ELSE 1)
  BY <1>4
<1>7. ASSUME NEW e \in Objs, obj[e] = "none"
      PROVE  (\E y \in Weak : wp'[y] = e) <=> \E y \in Weak : wp[y] = e /\ (y # w \/ e # b)
  BY <1>1, <1>2, <1>7
<1> QED
  BY <1>2, <1>5, <1>6, <1>7, WeakStep

(* Between two calls the stack is as it was.                                 *)
LEMMA IdleStacked ==
  ASSUME Idle, UNCHANGED pending
  PROVE  pending' \in Seq(Frames) /\ Stacked(pending, sp)' /\ Deleting' = Deleting
<1>1. pending = <<>> /\ pending' = <<>>
  BY DEF Idle
<1>2. Deleting = {} /\ Deleting' = {}
  BY <1>1 DEF Deleting
<1>3. Stacked(pending, sp)'
  BY <1>1 DEF Stacked
<1> QED
  BY <1>1, <1>2, <1>3

LEMMA WeakFromSharedHolds ==
  ASSUME SharedPtrAssumption, IInv, NEW w \in Weak, NEW s \in Strong, WeakFromShared(w, s)
  PROVE  IInv'
<1>1. PICK b : b = wp[w]
  OBVIOUS
<1>2. PICK c : c = sp[s]
  OBVIOUS
<1>3. /\ Idle /\ UNCHANGED <<sp, ref, obj, pending>> /\ wp' = [wp EXCEPT ![w] = c]
      /\ weak' = Plus(Minus(weak, b), c) /\ block' = FreedIfUnheld(b, Minus(weak, b))
  BY <1>1, <1>2 DEF WeakFromShared, Rebound
<1>4. c \in Objs \cup {Null} /\ (c # Null => obj[c] # "none")
  BY <1>2 DEF IInv, TypeOK, NoDangling
<1>5. pending' \in Seq(Frames) /\ Stacked(pending, sp)' /\ Deleting' = Deleting
  BY <1>3, IdleStacked
<1> QED
  BY <1>1, <1>3, <1>4, <1>5, WeakRebound

LEMMA WeakCopyHolds ==
  ASSUME SharedPtrAssumption, IInv, NEW w \in Weak, NEW x \in Weak, WeakCopy(w, x)
  PROVE  IInv'
<1>1. PICK b : b = wp[w]
  OBVIOUS
<1>2. PICK c : c = wp[x]
  OBVIOUS
<1>3. /\ Idle /\ UNCHANGED <<sp, ref, obj, pending>> /\ wp' = [wp EXCEPT ![w] = c] /\ w # x
      /\ weak' = Plus(Minus(weak, b), c) /\ block' = FreedIfUnheld(b, Minus(weak, b))
  BY <1>1, <1>2 DEF WeakCopy, Rebound
<1>4. c \in Objs \cup {Null} /\ (c # Null => \E y \in Weak \ {w} : wp[y] = c)
  BY <1>2, <1>3 DEF IInv, TypeOK
<1>5. pending' \in Seq(Frames) /\ Stacked(pending, sp)' /\ Deleting' = Deleting
  BY <1>3, IdleStacked
<1> QED
  BY <1>1, <1>3, <1>4, <1>5, WeakRebound

(* Dropping a weak pointer is taking none.                                   *)
LEMMA DropTakesNone ==
  ASSUME NEW w, DropWeak(w)
  PROVE  /\ wp' = [wp EXCEPT ![w] = Null] /\ weak' = Plus(Minus(weak, wp[w]), Null)
         /\ block' = FreedIfUnheld(wp[w], Minus(weak, wp[w]))
BY DEF DropWeak, Plus

LEMMA WeakResetHolds ==
  ASSUME SharedPtrAssumption, IInv, NEW w \in Weak, WeakReset(w)
  PROVE  IInv'
<1>1. PICK b : b = wp[w]
  OBVIOUS
<1>2. /\ Idle /\ UNCHANGED <<sp, ref, obj, pending>> /\ wp' = [wp EXCEPT ![w] = Null]
      /\ weak' = Plus(Minus(weak, b), Null) /\ block' = FreedIfUnheld(b, Minus(weak, b))
  BY <1>1, DropTakesNone DEF WeakReset
<1>3. pending' \in Seq(Frames) /\ Stacked(pending, sp)' /\ Deleting' = Deleting
  BY <1>2, IdleStacked
<1> QED
  BY <1>1, <1>2, <1>3, WeakRebound

LEMMA ReleaseMemberHolds ==
  ASSUME SharedPtrAssumption, IInv, ReleaseMember
  PROVE  IInv'
<1>1. PICK w : w = pending[1].dst
  OBVIOUS
<1>2. PICK b : b = wp[w]
  OBVIOUS
<1>3. Top("release_weak") /\ Return /\ UNCHANGED <<sp, ref, obj>> /\ DropWeak(Head(pending).dst)
  BY DEF ReleaseMember
<1>4. /\ pending \in Seq(Frames) /\ pending # <<>> /\ pending[1].call = "release_weak"
      /\ Tail(pending) \in Seq(Frames) /\ w \in Weak /\ Head(pending) = pending[1]
  BY <1>1, <1>3, TopFrame DEF IInv
<1>5. /\ wp' = [wp EXCEPT ![w] = Null]
      /\ weak' = Plus(Minus(weak, b), Null) /\ block' = FreedIfUnheld(b, Minus(weak, b))
  BY <1>1, <1>2, <1>3, <1>4, DropTakesNone
<1>6. /\ pending' = Tail(pending) /\ Deleting' = Ends(Tail(pending)) /\ Deleting' = Deleting
  BY <1>3, Returned DEF IInv
<1>7. \A y \in Ends(Tail(pending)) : sp'[y] # Null
  BY <1>3, <1>6, EndsHold DEF IInv
<1>8. Stacked(Tail(pending), sp')
  BY <1>4, <1>7, Popped DEF IInv
<1> QED
  BY <1>2, <1>3, <1>4, <1>5, <1>6, <1>8, WeakRebound

(* Moving a weak pointer: the source's block is watched by the target.       *)
LEMMA WeakMoveHolds ==
  ASSUME SharedPtrAssumption, IInv, NEW w \in Weak, NEW x \in Weak, WeakMove(w, x)
  PROVE  IInv'
<1>1. PICK b : b = wp[w]
  OBVIOUS
<1>2. PICK c : c = wp[x]
  OBVIOUS
<1>3. /\ Idle /\ UNCHANGED <<sp, ref, obj, pending>> /\ w # x
      /\ wp' = [wp EXCEPT ![w] = c, ![x] = Null]
      /\ weak' = Minus(weak, b) /\ block' = FreedIfUnheld(b, Minus(weak, b))
  BY <1>1, <1>2 DEF WeakMove, Rebound, Plus
<1>4. /\ wp \in [Weak -> Objs \cup {Null}] /\ weak \in [Objs -> Nat] /\ Null \notin Objs
      /\ b \in Objs \cup {Null} /\ c \in Objs \cup {Null}
  BY <1>1, <1>2 DEF IInv, TypeOK, SharedPtrAssumption
<1>5. /\ wp' \in [Weak -> Objs \cup {Null}] /\ wp'[w] = c /\ wp'[x] = Null
      /\ \A y \in Weak \ {w, x} : wp'[y] = wp[y]
  BY <1>3, <1>4
<1>6. ASSUME NEW e \in Objs
      PROVE  /\ weak'[e] \in Nat
             /\ weak'[e] = Cardinality({y \in Weak : wp'[y] = e})
                             + (IF obj[e] = "none" THEN 0 ELSE 1)
  <2> DEFINE P == {y \in Weak : wp[y] = e}
             R == P \ {x}
             Q == {y \in Weak : wp'[y] = e}
             t == IF obj[e] = "none" THEN 0 ELSE 1
  <2>1. weak[e] = Cardinality(P) + t /\ t \in Nat
    BY DEF IInv, CountsExact
  <2>2. /\ P \subseteq Weak /\ Q \subseteq Weak /\ R \subseteq Weak
        /\ \A y \in Weak \ {w} : y \in R <=> y \in Q
        /\ \A y \in Weak \ {x} : y \in P <=> y \in R
        /\ x \notin R /\ (x \in P <=> w \in Q) /\ (w \in R <=> e = b)
    BY <1>1, <1>2, <1>3, <1>4, <1>5
  <2>3. weak'[e] = weak[e] - (IF e = b THEN 1 ELSE 0)
    BY <1>3, <1>4 DEF Minus
  <2> HIDE DEF P, R, Q, t
  <2>4. /\ Cardinality(P) \in Nat /\ Cardinality(R) \in Nat
        /\ Cardinality(R) = Cardinality(P) + (IF x \in R THEN 1 ELSE 0)
                                           - (IF x \in P THEN 1 ELSE 0)
    BY <2>2, OneMember, FinitelyMany
  <2>5. /\ Cardinality(Q) \in Nat
        /\ Cardinality(Q) = Cardinality(R) + (IF w \in Q THEN 1 ELSE 0)
                                           - (IF w \in R THEN 1 ELSE 0)
    BY <2>2, OneMember, FinitelyMany
  <2>6. weak'[e] = Cardinality(Q) + t /\ weak'[e] \in Nat
    BY <2>1, <2>2, <2>3, <2>4, <2>5
  <2> QED
    BY <2>6 DEF Q, t
<1>7. weak' \in [Objs -> Nat]
  <2>1. weak' = [e \in Objs |-> weak'[e]]
    BY <1>3, <1>4 DEF Minus
  <2> QED
    BY <1>6, <2>1
<1>8. ASSUME NEW e \in Objs, obj[e] = "none"
      PROVE  (\E y \in Weak : wp'[y] = e) <=> \E y \in Weak : wp[y] = e /\ (y # w \/ e # b)
  <2>1. ASSUME NEW y \in Weak, wp'[y] = e
        PROVE  \E z \in Weak : wp[z] = e /\ (z # w \/ e # b)
    <3>1. CASE y = w
      BY <1>2, <1>3, <1>5, <2>1, <3>1
    <3>2. CASE y # w
      BY <1>4, <1>5, <2>1, <3>2
    <3> QED
      BY <3>1, <3>2
  <2>2. ASSUME NEW y \in Weak, wp[y] = e, y # w \/ e # b
        PROVE  \E z \in Weak : wp'[z] = e
    <3>1. CASE y = x
      BY <1>2, <1>5, <2>2, <3>1
    <3>2. CASE y # x
      BY <1>1, <1>5, <2>2, <3>2
    <3> QED
      BY <3>1, <3>2
  <2> QED
    BY <2>1, <2>2
<1>9. pending' \in Seq(Frames) /\ Stacked(pending, sp)' /\ Deleting' = Deleting
  BY <1>3, IdleStacked
<1>10. \A e \in Objs : weak'[e] = Cardinality({y \in Weak : wp'[y] = e})
                                      + (IF obj[e] = "none" THEN 0 ELSE 1)
  BY <1>6
<1>11. UNCHANGED <<sp, ref, obj>> /\ block' = FreedIfUnheld(b, Minus(weak, b))
  BY <1>3
<1>12. wp' \in [Weak -> Objs \cup {Null}]
  BY <1>5
<1> QED
  BY <1>1, <1>7, <1>8, <1>9, <1>10, <1>11, <1>12, WeakStep
-----------------------------------------------------------------------------
LEMMA StepHolds ==
  ASSUME SharedPtrAssumption, IInv, Step
  PROVE  IInv'
BY ReleaseSharedHolds, FinishReleaseHolds, ReleaseMemberHolds, FinishCopyHolds,
   FinishMoveHolds, Zenon DEF Step

LEMMA CallHolds ==
  ASSUME SharedPtrAssumption, IInv, Call
  PROVE  IInv'
<1>1. CASE \E v \in SVars : Destruct(v) \/ \E o \in Objs : Make(v, o)
  BY <1>1, BeginsDestruct, MakeHolds, Zenon
<1>2. CASE \E d, s \in Strong : AssignCopy(d, s) \/ AssignMove(d, s)
  BY <1>2, BeginsAssign, Zenon
<1>3. CASE \E w \in Weak, s \in Strong : WeakFromShared(w, s)
  BY <1>3, WeakFromSharedHolds, Zenon
<1>4. CASE \E w, x \in Weak : WeakCopy(w, x) \/ WeakMove(w, x)
  BY <1>4, WeakCopyHolds, WeakMoveHolds, Zenon
<1>5. CASE \E w \in Weak : WeakReset(w) \/ \E v \in SVars : Lock(v, w)
  BY <1>5, WeakResetHolds, LockHolds, Zenon
<1> QED
  BY <1>1, <1>2, <1>3, <1>4, <1>5, Zenon DEF Call

LEMMA StutterHolds ==
  ASSUME IInv, UNCHANGED vars
  PROVE  IInv'
<1>1. UNCHANGED <<sp, wp, ref, weak, block, obj>> /\ pending' = pending
  BY DEF vars
<1>2. Deleting' = Deleting /\ pending' \in Seq(Frames) /\ Stacked(pending, sp)'
  BY <1>1 DEF Deleting, IInv, TypeOK
<1> QED
  BY <1>1, <1>2, OnlyCalls

(* Every state of every run satisfies the inductive invariant.               *)
THEOREM Safety == Spec => []IInv
<1>1. Init => IInv
  BY InitHolds, SharedPtrAssumption
<1>2. IInv /\ [Next]_vars => IInv'
  BY StepHolds, CallHolds, StutterHolds, SharedPtrAssumption, Zenon DEF Next
<1> QED
  BY <1>1, <1>2, PTL DEF Spec

(* Pointers, counters and frames are of their types.                         *)
THEOREM TypeCorrect == Spec => []TypeOK
<1>1. IInv => TypeOK
  BY DEF IInv
<1> QED
  BY <1>1, Safety, PTL

(* ref_count_ is the number of owners at every moment, also while objects    *)
(* destroy one another, and weak_count_ the number of observers and the one  *)
(* reference the owners share.                                               *)
THEOREM CountsMatch == Spec => []CountsExact
<1>1. IInv => CountsExact
  BY DEF IInv
<1> QED
  BY <1>1, Safety, PTL

(* No pointer, strong or weak, outlives what it points at.                   *)
THEOREM NothingDangles == Spec => []NoDangling
<1>1. IInv => NoDangling
  BY DEF IInv
<1> QED
  BY <1>1, Safety, PTL

(* Every object and block is held by somebody or gone, and lock() succeeds   *)
(* for exactly the objects that are alive.                                   *)
THEOREM NothingLost == Spec => []HeldOrGone
<1>1. IInv => HeldOrGone
  BY DEF IInv
<1> QED
  BY <1>1, Safety, PTL
=============================================================================
