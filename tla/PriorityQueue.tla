--------------------------- MODULE PriorityQueue ----------------------------
(* priority_queue: a binary heap in a dynamic_array, the root at index 0.    *)
EXTENDS Integers, SequencesExt

CONSTANTS Values,      \* integers: Compare is std::less
          MaxSize      \* bound: no push onto a queue of this size

QueueAssumption == Values \subseteq Int /\ MaxSize \in Nat

VARIABLE heap      \* the array; index i of the code is heap[i + 1]

Init == heap = <<>>

Swapped(c, i, j) == [c EXCEPT ![i + 1] = c[j + 1], ![j + 1] = c[i + 1]]

(* sift_up: element i climbs while it is larger than its parent. *)
SiftUp(c, i) ==
  LET up[w \in [DOMAIN c -> Values] \X (0..Len(c) - 1)] ==
        LET s == w[1]
            k == w[2]
            parent == (k - 1) \div 2
        IN IF k > 0 /\ s[parent + 1] < s[k + 1] THEN up[<<Swapped(s, parent, k), parent>>] ELSE s
  IN up[<<c, i>>]

(* The index sift_down takes the largest of i and its children to be at. *)
Best(c, i) ==
  LET l == 2 * i + 1
      r == 2 * i + 2
      b == IF l < Len(c) /\ c[i + 1] < c[l + 1] THEN l ELSE i
  IN IF r < Len(c) /\ c[b + 1] < c[r + 1] THEN r ELSE b

(* sift_down: element i sinks while a child is larger. *)
SiftDown(c, i) ==
  LET down[w \in [DOMAIN c -> Values] \X (0..Len(c) - 1)] ==
        LET s == w[1]
            k == w[2]
        IN IF Best(s, k) = k THEN s ELSE down[<<Swapped(s, Best(s, k), k), Best(s, k)>>]
  IN down[<<c, i>>]

Push(v) ==
  /\ Len(heap) < MaxSize
  /\ heap' = SiftUp(Append(heap, v), Len(heap))

(* pop: the last element takes the root's place and sinks. *)
Pop ==
  \/ Len(heap) = 1 /\ heap' = <<>>
  \/ Len(heap) > 1 /\ heap' = SiftDown(Front(Swapped(heap, 0, Len(heap) - 1)), 0)

Next == Pop \/ \E v \in Values : Push(v)

Spec == Init /\ [][Next]_heap
-----------------------------------------------------------------------------
TypeOK == heap \in Seq(Values)

Occurs(v) == Cardinality({i \in DOMAIN heap : heap[i] = v})

(* pop removes one element, the largest ("top() returns the largest          *)
(* element", priority_queue.hpp:57), and push adds one; the others stay,     *)
(* whatever pushes and pops came before and however many are equal.          *)
PopsLargest ==
  [][/\ Pop => \A v \in Values :
          Occurs(v)' = Occurs(v) - (IF v = Max(ToSet(heap)) THEN 1 ELSE 0)
     /\ \A w \in Values : Push(w) =>
          \A v \in Values : Occurs(v)' = Occurs(v) + (IF v = w THEN 1 ELSE 0)]_heap
=============================================================================
