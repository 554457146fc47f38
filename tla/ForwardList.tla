---------------------------- MODULE ForwardList ----------------------------
(* forward_list: nodes linked one way, so that insertion and erasure work on *)
(* the node after a position.  Nodes come from new and go with delete.       *)
EXTENDS Integers, SequencesExt

CONSTANTS Lists, Values,
          Addresses,    \* what new may return
          Nil           \* the null pointer

ForwardAssumption == Nil \notin Addresses

VARIABLES fwd,      \* _head and _size of each list
          cell      \* the nodes on the heap

vars == <<fwd, cell>>

NoNodes == [head |-> Nil, size |-> 0]
Init == fwd = [l \in Lists |-> NoNodes] /\ cell = [a \in {} |-> Nil]

(* A walk along next: the nodes of list l in order, from its first. *)
Walk(l) ==
  LET steps[n \in Nat] ==
        IF n = 0 THEN <<>>
        ELSE LET w == steps[n - 1]
                 a == IF w = <<>> THEN fwd[l].head ELSE cell[Last(w)].next
             IN IF a \in DOMAIN cell THEN Append(w, a) ELSE w
  IN steps[Cardinality(DOMAIN cell)]

Reached(l) == ToSet(Walk(l))
Without(gone) == [b \in DOMAIN cell \ gone |-> cell[b]]
-----------------------------------------------------------------------------
(* A node a with value v goes in between p and n; without p it is the first. *)
Put(l, p, n, v) ==
  \E a \in Addresses \ DOMAIN cell :
    /\ cell' = [b \in DOMAIN cell \cup {a} |->
                  IF b = a THEN [value |-> v, next |-> n]
                  ELSE [cell[b] EXCEPT !.next = IF b = p THEN a ELSE @]]
    /\ fwd' = [fwd EXCEPT ![l] = [head |-> IF p = Nil THEN a ELSE @.head,
                                  size |-> @.size + 1]]

EmplaceFront(l, v) == Put(l, Nil, fwd[l].head, v)

InsertAfter(l, pos, v) == Put(l, pos, cell[pos].next, v)

PopFront(l) ==
  /\ fwd[l].head # Nil
  /\ cell' = Without({fwd[l].head})
  /\ fwd' = [fwd EXCEPT ![l] = [head |-> cell[@.head].next, size |-> @.size - 1]]

(* erase_after the last node changes nothing. *)
EraseAfter(l, pos) ==
  LET dead == cell[pos].next
  IN /\ dead # Nil
     /\ cell' = [Without({dead}) EXCEPT ![pos].next = cell[dead].next]
     /\ fwd' = [fwd EXCEPT ![l].size = @ - 1]

Clear(l) ==
  /\ cell' = Without(Reached(l))
  /\ fwd' = [fwd EXCEPT ![l] = NoNodes]

MoveAssign(d, s) ==
  /\ d # s
  /\ cell' = Without(Reached(d))
  /\ fwd' = [fwd EXCEPT ![d] = fwd[s], ![s] = NoNodes]

(* Copy assignment: clear, then push_back_internal for each element.         *)
CopyAssign(d, s) ==
  LET w == Walk(s)
      n == Len(w)
      kept == Without(Reached(d))
  IN /\ d # s
     /\ \E f \in Injection(1..n, Addresses \ DOMAIN kept) :
          /\ cell' = [b \in DOMAIN kept \cup {f[k] : k \in 1..n} |->
                        IF b \in DOMAIN kept THEN kept[b]
                        ELSE LET k == AntiFunction(f)[b]
                             IN [value |-> cell[w[k]].value,
                                 next |-> IF k = n THEN Nil ELSE f[k + 1]]]
          /\ fwd' = [fwd EXCEPT ![d] = [head |-> IF n = 0 THEN Nil ELSE f[1], size |-> n]]

Next == \E l \in Lists :
          \/ \E v \in Values : \/ EmplaceFront(l, v)
                               \/ \E pos \in Reached(l) : InsertAfter(l, pos, v)
          \/ PopFront(l)
          \/ \E pos \in Reached(l) : EraseAfter(l, pos)
          \/ Clear(l)
          \/ \E s \in Lists : MoveAssign(l, s) \/ CopyAssign(l, s)

Spec == Init /\ [][Next]_vars
-----------------------------------------------------------------------------
(* Each list is the sequence of elements its links spell.                    *)
Elements == INSTANCE ListSpec WITH
              Ids <- Addresses,
              content <- [l \in Lists |->
                            LET w == Walk(l)
                            IN [k \in 1..Len(w) |-> [id |-> w[k], value |-> cell[w[k]].value]]]

Link == Addresses \cup {Nil}
TypeOK == /\ fwd \in [Lists -> [head : Link, size : Nat]]
          /\ DOMAIN cell \subseteq Addresses
          /\ \A a \in DOMAIN cell : cell[a] \in [value : Values, next : Link]

(* Every node on the heap belongs to exactly one list, which counts it, and  *)
(* no link leads to a deleted node.                                          *)
NodesOwnedOnce ==
  /\ \A a \in DOMAIN cell : \E l \in Lists : a \in Reached(l)
  /\ \A l, m \in Lists : l # m => Reached(l) \cap Reached(m) = {}
  /\ \A l \in Lists : fwd[l].size = Cardinality(Reached(l))
  /\ \A l \in Lists : fwd[l].head # Nil => cell[Last(Walk(l))].next = Nil

(* The calls act on their list where they say: at the front, after a         *)
(* position, and on nothing else ("std::forward_list semantics",             *)
(* forward_list.hpp:14).                                                     *)
BehavesLikeList ==
  /\ Elements!Spec
  /\ [][\A l \in Lists :
          /\ \A v \in Values :
               /\ EmplaceFront(l, v) => Elements!PushFront(l, v)
               /\ \A k \in DOMAIN Walk(l) :
                    InsertAfter(l, Walk(l)[k], v) => Elements!Insert(l, k + 1, v)
          /\ \A k \in DOMAIN Walk(l) :
               EraseAfter(l, Walk(l)[k]) => Elements!Erase(l, k + 1)]_vars
=============================================================================
