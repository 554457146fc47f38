----------------------------- MODULE VectorSpec -----------------------------
(* What a dynamic_array promises its callers (doc/overview.md: dynamic_array *)
(* behaves like a std::vector): a set of sequence objects, each changed by   *)
(* the operations of the class and by nothing else.  Capacity, buffers and   *)
(* the typed memory do not appear here.                                      *)
EXTENDS Integers, SequencesExt

CONSTANTS Arrays,     \* the array objects a program declares
          Values,     \* element values
          Default,    \* the value of a value-initialised element, T{}
          MaxLength   \* bound: no array grows longer than this

VARIABLES live,       \* the arrays whose lifetime has begun and not ended
          content     \* what each array holds; <<>> outside its lifetime

vars == <<live, content>>

TypeOK == /\ live \subseteq Arrays
          /\ content \in [Arrays -> Seq(Values)]

Init == live = {} /\ content = [a \in Arrays |-> <<>>]

Holds(a, s) == content' = [content EXCEPT ![a] = s]

Begins(a, s) == /\ a \notin live
                /\ live' = live \cup {a}
                /\ Holds(a, s)

ConstructN(a, n) == Begins(a, [i \in 1..n |-> Default])

CopyConstruct(a, b) == b \in live /\ Begins(a, content[b])

MoveConstruct(a, b) == /\ a \notin live /\ b \in live
                       /\ live' = live \cup {a}
                       /\ content' = [content EXCEPT ![a] = content[b], ![b] = <<>>]

MoveAssign(a, b) == /\ {a, b} \subseteq live /\ a # b
                    /\ content' = [content EXCEPT ![a] = content[b], ![b] = <<>>]
                    /\ UNCHANGED live

Destroy(a) == /\ a \in live
              /\ live' = live \ {a}
              /\ Holds(a, <<>>)

(* An operation on a living array that leaves s in it. *)
Becomes(a, s) == a \in live /\ Holds(a, s) /\ UNCHANGED live

Resize(a, n) ==
  Becomes(a, [i \in 1..n |-> IF i <= Len(content[a]) THEN content[a][i] ELSE Default])

PushBack(a, v) == Becomes(a, Append(content[a], v))

PopBack(a) == content[a] # <<>> /\ Becomes(a, Front(content[a]))

Clear(a) == Becomes(a, <<>>)

Insert(a, i, v) == i \in 1..Len(content[a]) + 1 /\ Becomes(a, InsertAt(content[a], i, v))

EraseRange(a, first, last) ==
  /\ first \in 1..last /\ last \in 1..Len(content[a]) + 1
  /\ Becomes(a, SubSeq(content[a], 1, first - 1)
                  \o SubSeq(content[a], last, Len(content[a])))

Next ==
  \E a \in Arrays :
    \/ Destroy(a) \/ PopBack(a) \/ Clear(a)
    \/ \E n \in 0..MaxLength : ConstructN(a, n) \/ Resize(a, n)
    \/ \E v \in Values : PushBack(a, v)
    \/ \E i \in 1..MaxLength, v \in Values : Insert(a, i, v)
    \/ \E first, last \in 1..MaxLength + 1 : EraseRange(a, first, last)
    \/ \E b \in Arrays : CopyConstruct(a, b) \/ MoveConstruct(a, b) \/ MoveAssign(a, b)

Spec == Init /\ [][Next]_vars
=============================================================================
