------------------------------ MODULE FlatMap -------------------------------
(* map: a dynamic_array of entries in key order, searched by halving; set is *)
(* the same container of keys without values.                                *)
EXTENDS Integers, SequencesExt

CONSTANTS Keys,              \* integers: Compare is std::less
          Values, Default    \* Default is the value T{} of operator[]

FlatMapAssumption == Keys \subseteq Int /\ Default \in Values

VARIABLE data     \* the entries; the entry at index i of the code is data[i + 1]

Init == data = <<>>

Entry(k, v) == [key |-> k, val |-> v]

Slots == 0..(Len(data) - 1)

(* Mutant of FirstNot: the last place is never looked at. *)
FirstNotShort(n, before) ==
  LET search[w \in Nat \X Nat] ==
        LET lo == w[1]
            hi == w[2]
            mid == lo + (hi - lo) \div 2
        IN IF lo >= hi - 1 THEN lo
           ELSE search[IF mid \in before THEN <<mid + 1, hi>> ELSE <<lo, mid>>]
  IN search[<<0, n>>]

(* The first of 0..n - 1 that is not one of before, or n; before must be a   *)
(* prefix of them, or a probe misleads the search.                           *)
FirstNot(n, before) ==
  LET search[w \in Nat \X Nat] ==
        LET lo == w[1]
            hi == w[2]
            mid == lo + (hi - lo) \div 2
        IN IF lo >= hi THEN lo
           ELSE search[IF mid \in before THEN <<mid + 1, hi>> ELSE <<lo, mid>>]
  IN search[<<0, n>>]

(* lower_bound_index: the first slot whose key is not less than k. *)
LowerBound(k) == FirstNot(Len(data), {i \in Slots : data[i + 1].key < k})

(* find: the slot there holds k unless it holds a larger key or is the end.  *)
Has(k) == LowerBound(k) < Len(data) /\ ~(k < data[LowerBound(k) + 1].key)

At(k) == data[LowerBound(k) + 1].val
-----------------------------------------------------------------------------
PutNew(k, v) == /\ ~Has(k)
                /\ data' = InsertAt(data, LowerBound(k) + 1, Entry(k, v))

(* insert leaves the entry of a key that is there alone. *)
Insert(k, v) == PutNew(k, v) \/ (Has(k) /\ UNCHANGED data)

(* insert_or_assign, and assignment through the reference at() returns. *)
AssignAt(k, v) == Has(k) /\ data' = [data EXCEPT ![LowerBound(k) + 1].val = v]
InsertOrAssign(k, v) == PutNew(k, v) \/ AssignAt(k, v)

(* operator[] *)
Subscript(k) == Insert(k, Default)

(* erase shifts the entries after k down and pops the last. *)
Erase(k) == Has(k) /\ data' = RemoveAt(data, LowerBound(k) + 1)

Clear == data' = <<>>

Next == \/ \E k \in Keys, v \in Values : Insert(k, v) \/ InsertOrAssign(k, v)
        \/ \E k \in Keys : Subscript(k) \/ Erase(k)
        \/ Clear

Spec == Init /\ [][Next]_data
-----------------------------------------------------------------------------
Held == {data[i].key : i \in DOMAIN data}
ValueOf(k) == data[CHOOSE i \in DOMAIN data : data[i].key = k].val

TypeOK == data \in Seq([key : Keys, val : Values])

(* The keys stay in strict order, so that the search finds exactly the keys  *)
(* that are there and at() returns the value of the key it was asked for.    *)
Searchable ==
  /\ \A i, j \in DOMAIN data : i < j => data[i].key < data[j].key
  /\ \A k \in Keys : /\ Has(k) <=> k \in Held
                     /\ k \in Held => At(k) = ValueOf(k)

(* The array is a partial function, and each call does to it what its name   *)
(* says, on its own key only.                                                *)
Dict == INSTANCE MapSpec WITH content <- [k \in Held |-> ValueOf(k)]
BehavesLikeMap ==
  /\ Dict!Spec
  /\ [][/\ \A k \in Keys : /\ Subscript(k) => Dict!Subscript(k)
                           /\ Erase(k) => Dict!Erase(k)
                           /\ \A v \in Values :
                                /\ Insert(k, v) => Dict!Insert(k, v)
                                /\ InsertOrAssign(k, v) => Dict!InsertOrAssign(k, v)
        /\ Clear => Dict!Clear]_data
=============================================================================
