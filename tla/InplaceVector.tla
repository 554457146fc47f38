--------------------------- MODULE InplaceVector ----------------------------
(* inplace_vector: N slots inside the object, of which the first size are    *)
(* elements.  Shrinking only changes the size, so the slots behind keep what *)
(* they held.                                                                *)
EXTENDS Integers, SequencesExt

CONSTANTS Values, Default,   \* Default is T{}
          N                  \* the capacity

InplaceAssumption == Default \in Values /\ N \in Nat \ {0}

VARIABLES storage,   \* the slots, a sequence of N values
          size

vars == <<storage, size>>

Content == SubSeq(storage, 1, size)

FilledFrom(first, n, v) ==
  storage' = [i \in 1..N |-> IF first < i /\ i <= n THEN v ELSE storage[i]]

(* The other constructors are calls on such an object. *)
Init == size = 0 /\ storage = [i \in 1..N |-> Default]
-----------------------------------------------------------------------------
(* push_back, emplace_back: a full vector is the caller's error. *)
PushBack(v) == /\ size < N
               /\ storage' = [storage EXCEPT ![size + 1] = v]
               /\ size' = size + 1

PopBack == size > 0 /\ size' = size - 1 /\ UNCHANGED storage
Clear == size' = 0 /\ UNCHANGED storage
AssignAt(i, v) == i <= size /\ storage' = [storage EXCEPT ![i] = v] /\ UNCHANGED size

(* Mutant of Resize: slots left by an earlier element are taken as they are. *)
ResizeStale(n, v) == size' = n /\ UNCHANGED storage

(* resize(n) is the call with v = Default, and a constructor the first call. *)
Resize(n, v) == size' = n /\ FilledFrom(size, n, v)

Next == \/ \E v \in Values : PushBack(v) \/ \E i \in 1..N : AssignAt(i, v)
        \/ \E n \in 0..N, v \in Values : Resize(n, v)
        \/ PopBack \/ Clear

Spec == Init /\ [][Next]_vars
-----------------------------------------------------------------------------
TypeOK == storage \in [1..N -> Values] /\ size \in 0..N

(* Whatever the slots hold of elements that are gone, the calls are those of *)
(* a sequence.                                                               *)
BehavesLikeSequence ==
  [][/\ PopBack => Content' = Front(Content)
     /\ Clear => Content' = <<>>
     /\ \A v \in Values :
          /\ PushBack(v) => Content' = Append(Content, v)
          /\ \A i \in 1..N : AssignAt(i, v) => Content' = [Content EXCEPT ![i] = v]
          /\ \A n \in 0..N : Resize(n, v) =>
               Content' = [i \in 1..n |-> IF i <= size THEN Content[i] ELSE v]]_vars
=============================================================================
