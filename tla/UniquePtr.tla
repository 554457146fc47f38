----------------------------- MODULE UniquePtr ------------------------------
(* unique_ptr: an owner of one object.  Every object here holds an owner     *)
(* itself, as a list node or a tree does, so that deleting it deletes what   *)
(* that owner owns.                                                          *)
EXTENDS Integers, FiniteSets

CONSTANTS Variables,     \* owners that are no part of an object
          Objects,       \* what new may return; o also names the owner inside o
          Nil,           \* the null pointer
          FromInside     \* whether an owner may be assigned from one that its
                         \* own object holds, as in head = std::move(head->next)

ASSUME UniqueAssumption ==
  /\ Nil \notin Objects \cup Variables
  /\ Variables \cap Objects = {}
  /\ FromInside \in BOOLEAN

VARIABLES ptr,     \* _p of each owner that exists
          raw      \* released objects the caller holds by plain pointers

uniqueVars == <<ptr, raw>>

Alive == DOMAIN ptr \cap Objects
UniqueInit == ptr = [w \in Variables |-> Nil] /\ raw = {}

(* The owners in C lead to no owner outside it. *)
Closed(p, C) == \A x \in C : p[x] \in DOMAIN p => p[x] \in C

(* Object o, the object its owner owns and so on, in memory p. *)
Chain(p, o) ==
  {x \in DOMAIN p : \A C \in SUBSET DOMAIN p :
                      Closed(p, C) /\ (o \in DOMAIN p => o \in C) => x \in C}

(* delete runs the destructor of the owner inside first; deleting nothing    *)
(* does nothing.                                                             *)
Deleted(p, o) == [x \in DOMAIN p \ Chain(p, o) |-> p[x]]

Clears(p, x) == [y \in DOMAIN p |-> IF y = x THEN Nil ELSE p[y]]

(* Mutant of ResetIn: a null pointer is not stored. *)
ResetInKeeping(p, d, o) == Deleted(IF o = Nil THEN p ELSE [p EXCEPT ![d] = o], p[d])

(* reset: d owns o from here on, then what it owned is deleted. *)
ResetIn(p, d, o) == Deleted([p EXCEPT ![d] = o], p[d])

(* The owners a program can name: those it can reach from its variables and  *)
(* from the objects it holds by plain pointers.                              *)
Named == Variables \cup (UNION {Chain(ptr, ptr[w]) : w \in Variables})
                   \cup (UNION {Chain(ptr, o) : o \in raw})
-----------------------------------------------------------------------------
(* d = make_unique(): the object of the temporary moves over. *)
Make(d) ==
  \E o \in Objects \ Alive :
    /\ ptr' = ResetIn([x \in DOMAIN ptr \cup {o} |-> IF x = o THEN Nil ELSE ptr[x]], d, o)
    /\ UNCHANGED raw

(* operator=(unique_ptr &&): reset(o._p) comes before o._p is cleared. *)
MoveAssign(d, s) ==
  /\ d # s
  /\ FromInside \/ s \notin Chain(ptr, ptr[d])
  /\ ptr' = Clears(ResetIn(ptr, d, ptr[s]), s)
  /\ UNCHANGED raw

Release(d) ==
  /\ ptr[d] # Nil
  /\ raw' = raw \cup {ptr[d]}
  /\ ptr' = [ptr EXCEPT ![d] = Nil]

(* reset with a plain pointer, as a new owner is made from one; without one  *)
(* it is also what the destructor and assignment of nullptr do.              *)
Reset(d, o) ==
  /\ ptr' = ResetIn(ptr, d, o)
  /\ raw' = raw \ {o}

Swap(d, e) ==
  /\ d # e
  /\ ptr' = [ptr EXCEPT ![d] = ptr[e], ![e] = ptr[d]]
  /\ UNCHANGED raw

UniqueNext ==
  \E d \in Named :
    \/ Make(d) \/ Release(d)
    \/ \E o \in raw \cup {Nil} : Reset(d, o)
    \/ \E e \in Named : MoveAssign(d, e) \/ Swap(d, e)

UniqueSpec == UniqueInit /\ [][UniqueNext]_uniqueVars
-----------------------------------------------------------------------------
UniqueTypeOK == /\ Variables \subseteq DOMAIN ptr /\ DOMAIN ptr \subseteq Variables \cup Objects
                /\ \A x \in DOMAIN ptr : ptr[x] \in Objects \cup {Nil}
                /\ raw \subseteq Objects

(* No owner and no released pointer leads to a deleted object ("take         *)
(* ownership of `p` first, then delete the old object ... robust if `p`      *)
(* somehow alias-points into the previous object's substructure",            *)
(* unique_ptr.hpp:63).                                                       *)
NoDangling ==
  /\ \A x \in DOMAIN ptr : ptr[x] \in Alive \cup {Nil}
  /\ raw \subseteq Alive

(* Every object is held exactly once, by an owner or by the caller, so that  *)
(* none is deleted twice and none is lost.                                   *)
HeldOnce ==
  \A o \in Alive :
    /\ \A x, y \in DOMAIN ptr : ptr[x] = o /\ ptr[y] = o => x = y
    /\ o \in raw <=> \A x \in DOMAIN ptr : ptr[x] # o

(* Who holds an object holds a living one, and nobody else holds it.         *)
OwnersSound == NoDangling /\ HeldOnce
=============================================================================
