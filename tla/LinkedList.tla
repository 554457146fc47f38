----------------------------- MODULE LinkedList -----------------------------
(* list: nodes linked both ways, and for each list the addresses of its      *)
(* first and last node and a count.  Nodes come from new and go with delete. *)
EXTENDS Integers, SequencesExt

CONSTANTS Lists, Values,
          Addresses,    \* what new may return
          Nil           \* the null pointer

ListAssumption == Nil \notin Addresses

VARIABLES lst,     \* _head, _tail and _size of each list
          node     \* the nodes on the heap

vars == <<lst, node>>

NoNodes == [head |-> Nil, tail |-> Nil, size |-> 0]
Init == lst = [l \in Lists |-> NoNodes] /\ node = [a \in {} |-> Nil]

(* A walk along next: the nodes of list l in order, from its first. *)
Walk(l) ==
  LET steps[n \in Nat] ==
        IF n = 0 THEN <<>>
        ELSE LET w == steps[n - 1]
                 a == IF w = <<>> THEN lst[l].head ELSE node[w[Len(w)]].next
             IN IF a \in DOMAIN node THEN Append(w, a) ELSE w
  IN steps[Cardinality(DOMAIN node)]

Reached(l) == ToSet(Walk(l))
-----------------------------------------------------------------------------
(* A node a with value v goes in between p and n, either of which may be     *)
(* missing: then the end of the list moves instead.                          *)
Joined(a, p, n, v) ==
  [b \in DOMAIN node \cup {a} |->
     IF b = a THEN [value |-> v, prev |-> p, next |-> n]
     ELSE [node[b] EXCEPT !.next = IF b = p THEN a ELSE @,
                          !.prev = IF b = n THEN a ELSE @]]

Put(l, p, n, v) ==
  \E a \in Addresses \ DOMAIN node :
    /\ node' = Joined(a, p, n, v)
    /\ lst' = [lst EXCEPT ![l] = [head |-> IF p = Nil THEN a ELSE @.head,
                                  tail |-> IF n = Nil THEN a ELSE @.tail,
                                  size |-> @.size + 1]]

EmplaceBack(l, v) == Put(l, lst[l].tail, Nil, v)

EmplaceFront(l, v) == Put(l, Nil, lst[l].head, v)

(* Mutant of Before: insert at end() has no node to go after.                *)
BeforeForgettingEnd(l, pos) == IF pos # Nil THEN node[pos].prev ELSE Nil

(* insert: before pos, where Nil is end(); link_after finds the next node. *)
Before(l, pos) == IF pos # Nil THEN node[pos].prev ELSE lst[l].tail
Insert(l, pos, v) ==
  LET p == Before(l, pos)
  IN Put(l, p, IF p # Nil THEN node[p].next ELSE lst[l].head, v)

(* unlink and delete *)
Unlinked(a) ==
  [b \in DOMAIN node \ {a} |->
     [node[b] EXCEPT !.next = IF b = node[a].prev THEN node[a].next ELSE @,
                     !.prev = IF b = node[a].next THEN node[a].prev ELSE @]]

Erase(l, a) ==
  /\ a \in DOMAIN node
  /\ node' = Unlinked(a)
  /\ lst' = [lst EXCEPT ![l] = [head |-> IF node[a].prev = Nil THEN node[a].next ELSE @.head,
                                tail |-> IF node[a].next = Nil THEN node[a].prev ELSE @.tail,
                                size |-> @.size - 1]]

PopBack(l) == Erase(l, lst[l].tail)
PopFront(l) == Erase(l, lst[l].head)

Without(gone) == [b \in DOMAIN node \ gone |-> node[b]]

Clear(l) ==
  /\ node' = Without(Reached(l))
  /\ lst' = [lst EXCEPT ![l] = NoNodes]

(* Mutant of MoveAssign: the nodes of the target are not deleted. *)
MoveAssignLeaking(d, s) ==
  /\ d # s
  /\ lst' = [lst EXCEPT ![d] = lst[s], ![s] = NoNodes]
  /\ UNCHANGED node

MoveAssign(d, s) ==
  /\ d # s
  /\ node' = Without(Reached(d))
  /\ lst' = [lst EXCEPT ![d] = lst[s], ![s] = NoNodes]

(* Copy assignment: clear, then push_back each element of the other list. *)
CopyAssign(d, s) ==
  LET w == Walk(s)
      n == Len(w)
      kept == Without(Reached(d))
  IN /\ d # s
     /\ \E f \in Injection(1..n, Addresses \ DOMAIN kept) :
          /\ node' = [b \in DOMAIN kept \cup {f[k] : k \in 1..n} |->
                        IF b \in DOMAIN kept THEN kept[b]
                        ELSE LET k == AntiFunction(f)[b]
                             IN [value |-> node[w[k]].value,
                                 prev |-> IF k = 1 THEN Nil ELSE f[k - 1],
                                 next |-> IF k = n THEN Nil ELSE f[k + 1]]]
          /\ lst' = [lst EXCEPT ![d] = IF n = 0 THEN NoNodes
                                       ELSE [head |-> f[1], tail |-> f[n], size |-> n]]

Next == \E l \in Lists :
          \/ \E v \in Values : \/ EmplaceBack(l, v) \/ EmplaceFront(l, v)
                               \/ \E pos \in Reached(l) \cup {Nil} : Insert(l, pos, v)
          \/ PopBack(l) \/ PopFront(l)
          \/ \E pos \in Reached(l) : Erase(l, pos)
          \/ Clear(l)
          \/ \E s \in Lists : MoveAssign(l, s) \/ CopyAssign(l, s)

Spec == Init /\ [][Next]_vars
-----------------------------------------------------------------------------
Link == Addresses \cup {Nil}
TypeOK == /\ lst \in [Lists -> [head : Link, tail : Link, size : Nat]]
          /\ DOMAIN node \subseteq Addresses
          /\ \A a \in DOMAIN node : node[a] \in [value : Values, prev : Link, next : Link]

(* Walking backwards undoes walking forwards, also from end(), and neither   *)
(* walk leaves the list: each list's links mirror each other, the first node *)
(* has none before it and the last, which the walk reaches, none after it.   *)
LinksMirrored ==
  \A l \in Lists :
    /\ lst[l].head = Nil <=> lst[l].tail = Nil
    /\ lst[l].head # Nil =>
         /\ lst[l].head \in DOMAIN node /\ node[lst[l].head].prev = Nil
         /\ lst[l].tail \in Reached(l) /\ node[lst[l].tail].next = Nil
    /\ \A a \in Reached(l) :
         /\ node[a].next # Nil => node[a].next \in DOMAIN node /\ node[node[a].next].prev = a
         /\ node[a].prev # Nil => node[a].prev \in DOMAIN node /\ node[node[a].prev].next = a

(* Every node on the heap belongs to exactly one list, which counts it: none *)
(* is lost by an assignment and none would be deleted twice.                 *)
NodesOwnedOnce ==
  /\ \A a \in DOMAIN node : \E l \in Lists : a \in Reached(l)
  /\ \A l, m \in Lists : l # m => Reached(l) \cap Reached(m) = {}
  /\ \A l \in Lists : lst[l].size = Cardinality(Reached(l))

(* Each list is the sequence its links spell, every call does to it what its *)
(* name says, and no call touches the identity or value of another element   *)
(* ("Stable iterators", list.hpp).                                           *)
Elements == INSTANCE ListSpec WITH
              Ids <- Addresses,
              content <- [l \in Lists |->
                            LET w == Walk(l)
                            IN [k \in 1..Len(w) |-> [id |-> w[k], value |-> node[w[k]].value]]]
BehavesLikeList == Elements!Spec

(* The calls at the ends act at the ends, and insert before its position.    *)
Place(l, pos) == IF pos = Nil THEN Len(Walk(l)) + 1
                 ELSE CHOOSE k \in DOMAIN Walk(l) : Walk(l)[k] = pos
CallsMatch ==
  [][\A l \in Lists :
       /\ \A v \in Values :
            /\ EmplaceBack(l, v) => Elements!PushBack(l, v)
            /\ EmplaceFront(l, v) => Elements!PushFront(l, v)
            /\ \A pos \in Reached(l) \cup {Nil} :
                 Insert(l, pos, v) => Elements!Insert(l, Place(l, pos), v)
       /\ \A pos \in Reached(l) : Erase(l, pos) => Elements!Erase(l, Place(l, pos))
       /\ \A s \in Lists : CopyAssign(l, s) => Elements!Copy(l, s)]_vars
=============================================================================
