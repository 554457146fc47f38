---------------------------- MODULE FlatMultimap ----------------------------
(* multimap: the flat map with equal keys allowed, which lie side by side in *)
(* the order they came; multiset is the same container of keys.              *)
EXTENDS Integers, SequencesExt

CONSTANTS Keys,       \* integers: Compare is std::less
          Values,
          MaxSize     \* bound: no insertion into an array of this size

FlatMultimapAssumption == Keys \subseteq Int /\ MaxSize \in Nat

VARIABLE run      \* the entries; the entry at index i of the code is run[i + 1]

Init == run = <<>>

Slots == 0..(Len(run) - 1)

(* The loop of both bounds: the first of 0..n - 1 that is not one of before, *)
(* or n, if before is a prefix of them.                                      *)
FirstNot(n, before) ==
  LET search[w \in Nat \X Nat] ==
        LET lo == w[1]
            hi == w[2]
            mid == lo + (hi - lo) \div 2
        IN IF lo >= hi THEN lo
           ELSE search[IF mid \in before THEN <<mid + 1, hi>> ELSE <<lo, mid>>]
  IN search[<<0, n>>]

LowerBound(k) == FirstNot(Len(run), {i \in Slots : run[i + 1].key < k})

UpperBound(k) == FirstNot(Len(run), {i \in Slots : ~(k < run[i + 1].key)})

Count(k) == UpperBound(k) - LowerBound(k)

Insert(k, v) ==
  /\ Len(run) < MaxSize
  /\ run' = InsertAt(run, UpperBound(k) + 1, [key |-> k, val |-> v])

(* erase: the entries after the key's run move down over it, and as many     *)
(* entries as it had are popped.                                             *)
Erase(k) ==
  /\ Count(k) > 0
  /\ run' = SubSeq([i \in DOMAIN run |-> IF LowerBound(k) < i /\ i <= Len(run) - Count(k)
                                         THEN run[i + Count(k)] ELSE run[i]],
                   1, Len(run) - Count(k))

Clear == run' = <<>>

Next == \/ \E k \in Keys : Erase(k) \/ \E v \in Values : Insert(k, v)
        \/ Clear

Spec == Init /\ [][Next]_run
-----------------------------------------------------------------------------
TypeOK == run \in Seq([key : Keys, val : Values])

(* The values of a key, as the walk between its bounds meets them. *)
ValuesOf(k) == [i \in 1..Count(k) |-> run[LowerBound(k) + i].val]

(* Keys never decrease, so that the two searches enclose exactly the entries *)
(* of a key.                                                                 *)
Searchable ==
  /\ \A i, j \in DOMAIN run : i < j => run[i].key <= run[j].key
  /\ \A k \in Keys :
       {i \in DOMAIN run : run[i].key = k} = (LowerBound(k) + 1)..UpperBound(k)

(* An insertion puts its value behind those its key has ("new equal keys     *)
(* land after existing ones", multimap.hpp:15), erase takes all of a key's   *)
(* values, and neither touches another key's.                                *)
QueuesPerKey ==
  [][\A k, j \in Keys :
       /\ \A v \in Values :
            Insert(k, v) => ValuesOf(j)' = IF j = k THEN Append(ValuesOf(j), v) ELSE ValuesOf(j)
       /\ Erase(k) => ValuesOf(j)' = IF j = k THEN <<>> ELSE ValuesOf(j)]_run
=============================================================================
