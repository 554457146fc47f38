--------------------------- MODULE MCDynamicArray ---------------------------
(* A small instance of dynamic_array.  Two element values tell the places of *)
(* a sequence apart; iterators carry no values and the code of their calls   *)
(* looks at none, so while one is alive the default value stands for all.    *)
EXTENDS DynamicArray, TLC

IteratorsBesideDefaults ==
  \/ \A i \in Iters : iter[i] = NoIter
  \/ \A b \in Bufs : \A k \in DOMAIN cell[b] : cell[b][k] \in {Default, Raw, Hollow}

MCNext == Next /\ IteratorsBesideDefaults'

MCSpec == Init /\ [][MCNext]_vars

\* Arrays are interchangeable; so are iterators.
Interchangeable == Permutations(Arrays) \cup Permutations(Iters)
=============================================================================
