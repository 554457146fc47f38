------------------------------ MODULE ListSpec ------------------------------
(* What linked lists promise their callers: sequences of elements that keep  *)
(* their identity, so that references and iterators to one element survive   *)
(* every call on the others.                                                 *)
EXTENDS Integers, SequencesExt

CONSTANTS Lists, Values,
          Ids           \* what tells one element from another of equal value

VARIABLE content        \* of each list, its elements as records [id, value]

Used(c) == UNION {{c[l][k].id : k \in DOMAIN c[l]} : l \in Lists}

Init == content = [l \in Lists |-> <<>>]

(* A new element at position i; the others keep their identity. *)
Insert(l, i, v) ==
  \E f \in Ids \ Used(content) :
    content' = [content EXCEPT ![l] = InsertAt(@, i, [id |-> f, value |-> v])]

PushFront(l, v) == Insert(l, 1, v)
PushBack(l, v) == Insert(l, Len(content[l]) + 1, v)

Erase(l, i) == content' = [content EXCEPT ![l] = RemoveAt(@, i)]

Clear(l) == content' = [content EXCEPT ![l] = <<>>]

(* Copying makes new elements of equal value, moving hands the elements on. *)
Copy(d, s) ==
  LET free == Ids \ Used([content EXCEPT ![d] = <<>>])
  IN \E f \in Injection(DOMAIN content[s], free) :
       content' = [content EXCEPT
                     ![d] = [k \in DOMAIN content[s] |->
                               [id |-> f[k], value |-> content[s][k].value]]]

Move(d, s) == content' = [content EXCEPT ![d] = content[s], ![s] = <<>>]

Next == \E l \in Lists :
          \/ \E v \in Values : \E i \in 1..(Len(content[l]) + 1) : Insert(l, i, v)
          \/ \E i \in DOMAIN content[l] : Erase(l, i)
          \/ Clear(l)
          \/ \E s \in Lists \ {l} : Move(l, s) \/ Copy(l, s)

Spec == Init /\ [][Next]_content
=============================================================================
