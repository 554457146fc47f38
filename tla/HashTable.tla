----------------------------- MODULE HashTable ------------------------------
(* unordered_map: open addressing with linear probing and tombstones.  A     *)
(* lookup probes from the hashed bucket to the first empty slot, erase       *)
(* leaves a tombstone, an insertion reuses the first tombstone it passed,    *)
(* and the table doubles, dropping its tombstones, when its live entries     *)
(* would exceed the load limit.                                              *)
EXTENDS Integers, FiniteSetsExt

CONSTANTS
  Keys, Values, Default,
  Hash,              \* the hash of each key
  InitialCapacity,   \* 8 in the source
  MaxLoadPct,        \* 70 in the source
  MaxBuckets,        \* bound: the table never grows past this many slots
  Empty, Tombstone   \* the states of a slot that is not filled

ASSUME HashTableAssumption ==
  /\ Default \in Values
  /\ Hash \in [Keys -> Nat]
  /\ InitialCapacity \in Nat \ {0} /\ MaxLoadPct \in 1..100 /\ MaxBuckets \in Nat
  /\ InitialCapacity * MaxLoadPct >= 100   \* a first entry is within the limit
  /\ Empty # Tombstone
  /\ {Empty, Tombstone} \cap [key : Keys, val : Values] = {}

VARIABLES slots,     \* the table: a function on 0..bucket_count - 1
          size       \* the number of entries the table claims to hold

vars == <<slots, size>>

Entry == [key : Keys, val : Values]
Cap(t) == Cardinality(DOMAIN t)
EmptyTable(n) == [i \in 0..(n - 1) |-> Empty]
Filled(t) == {i \in DOMAIN t : t[i] \in Entry}
Holds(t, i, k) == t[i] \in Entry /\ t[i].key = k

Init == slots = EmptyTable(0) /\ size = 0
-----------------------------------------------------------------------------
(* Probing for k: step p of the probe looks at slot Probe(t, k, p), and the  *)
(* walk stops at an empty slot or at the slot that holds k.                  *)
Probe(t, k, p) == (Hash[k] + p) % Cap(t)
Steps(t) == 0..(Cap(t) - 1)
Stops(t, k) ==
  {p \in Steps(t) : t[Probe(t, k, p)] = Empty \/ Holds(t, Probe(t, k, p), k)}
Stop(t, k) == Probe(t, k, Min(Stops(t, k)))

NoSlot == -1

FindSlot(t, k) ==
  IF Stops(t, k) # {} /\ Holds(t, Stop(t, k), k) THEN Stop(t, k) ELSE NoSlot

(* Where an insertion of k ends up: the slot that holds k, the first         *)
(* tombstone before the empty slot the walk stops at, that empty slot, or    *)
(* NoSlot when the walk never stops.                                         *)
Passed(t, k) ==
  {p \in 0..(Min(Stops(t, k)) - 1) : t[Probe(t, k, p)] = Tombstone}

(* Mutant of InsertSlot: the first tombstone is taken without probing on. *)
InsertSlotEager(t, k) ==
  LET open == {p \in Steps(t) : t[Probe(t, k, p)] \notin Entry \/ Holds(t, Probe(t, k, p), k)}
  IN IF open = {} THEN NoSlot ELSE Probe(t, k, Min(open))

InsertSlot(t, k) ==
  IF Stops(t, k) = {} THEN NoSlot
  ELSE IF Holds(t, Stop(t, k), k) \/ Passed(t, k) = {} THEN Stop(t, k)
  ELSE Probe(t, k, Min(Passed(t, k)))

(* rehash: the filled slots in index order, each placed in the first empty   *)
(* slot of its probe in a fresh table of n slots.                            *)
Place(t, e) ==
  LET free == {p \in Steps(t) : t[Probe(t, e.key, p)] = Empty}
  IN IF free = {} THEN t ELSE [t EXCEPT ![Probe(t, e.key, Min(free))] = e]

(* Mutant of Rehash: the entries are placed by their buckets in the old table. *)
RehashStale(t, n) ==
  LET at(e, p) == ((Hash[e.key] % Cap(t)) + p) % n
      settle(u, e) == [u EXCEPT ![at(e, Min({p \in Steps(u) : u[at(e, p)] = Empty}))] = e]
      Moved[i \in 0..Cap(t)] ==
        IF i = 0 THEN EmptyTable(n)
        ELSE IF t[i - 1] \in Entry THEN settle(Moved[i - 1], t[i - 1]) ELSE Moved[i - 1]
  IN Moved[Cap(t)]

Rehash(t, n) ==
  LET Moved[i \in 0..Cap(t)] ==
        IF i = 0 THEN EmptyTable(n)
        ELSE IF t[i - 1] \in Entry THEN Place(Moved[i - 1], t[i - 1]) ELSE Moved[i - 1]
  IN Moved[Cap(t)]

(* maybe_grow: only live entries count against the load limit. *)
Overloaded(t, n) == (n + 1) * 100 > Cap(t) * MaxLoadPct
Grown(t, n) ==
  IF Cap(t) = 0 THEN EmptyTable(InitialCapacity)
  ELSE IF Overloaded(t, n) THEN Rehash(t, 2 * Cap(t)) ELSE t
-----------------------------------------------------------------------------
(* insert, insert_or_assign and operator[] grow the table first and then put *)
(* the new entry, when the key is missing, where InsertSlot says; they       *)
(* differ in what they do to the entry of a key that is there.               *)
Puts(k, v, overwrite) ==
  LET t == Grown(slots, size)
      i == InsertSlot(t, k)
  IN /\ Cap(t) <= MaxBuckets
     /\ \/ /\ i = NoSlot
           /\ slots' = t /\ UNCHANGED size
        \/ /\ i # NoSlot /\ Holds(t, i, k)
           /\ slots' = IF overwrite THEN [t EXCEPT ![i].val = v] ELSE t
           /\ UNCHANGED size
        \/ /\ i # NoSlot /\ ~Holds(t, i, k)
           /\ slots' = [t EXCEPT ![i] = [key |-> k, val |-> v]]
           /\ size' = size + 1

Insert(k, v) == Puts(k, v, FALSE)
InsertOrAssign(k, v) == Puts(k, v, TRUE)
Subscript(k) == Puts(k, Default, FALSE)

(* Mutant of Erase: a missing key is counted out. *)
EraseUnchecked(k) ==
  LET i == FindSlot(slots, k)
  IN /\ slots' = IF i = NoSlot THEN slots ELSE [slots EXCEPT ![i] = Tombstone]
     /\ size' = size - 1

Erase(k) ==
  LET i == FindSlot(slots, k)
  IN /\ i # NoSlot
     /\ slots' = [slots EXCEPT ![i] = Tombstone]
     /\ size' = size - 1

Clear ==
  /\ slots' = EmptyTable(Cap(slots))
  /\ size' = 0

Next == \/ \E k \in Keys : Subscript(k) \/ Erase(k)
        \/ \E k \in Keys, v \in Values : Insert(k, v) \/ InsertOrAssign(k, v)
        \/ Clear

Spec == Init /\ [][Next]_vars
-----------------------------------------------------------------------------
TypeOK == /\ slots \in [DOMAIN slots -> Entry \cup {Empty, Tombstone}]
          /\ DOMAIN slots = 0..(Cap(slots) - 1)
          /\ size \in Nat

(* No key has two entries, though an insertion may reuse a tombstone that    *)
(* lies before the key's own slot on its probe.                              *)
NoDuplicates ==
  \A i, j \in Filled(slots) : slots[i].key = slots[j].key => i = j

(* Every entry is found by a lookup of its key: no erase, reuse of a         *)
(* tombstone or rehash breaks the probe that leads to it.                    *)
EntriesReachable == \A i \in Filled(slots) : FindSlot(slots, slots[i].key) = i

(* size() is the number of entries an iteration visits. *)
SizeExact == size = Cardinality(Filled(slots))

(* The load limit: live entries never exceed it, also when tombstones and    *)
(* reuse make the count and the occupied slots drift apart.                  *)
LoadBounded == size * 100 <= Cap(slots) * MaxLoadPct

(* One entry for a key, found by its lookup, counted by size(), and never    *)
(* more of them than the load limit allows.                                  *)
TableExact == NoDuplicates /\ EntriesReachable /\ SizeExact /\ LoadBounded

(* After maybe_grow there is room for any key ("Should not happen -- rehash  *)
(* keeps us under load factor", unordered_map.hpp): the walk of insert_slot  *)
(* always reaches an empty slot or the key.                                  *)
InsertFindsRoom ==
  \A k \in Keys : InsertSlot(Grown(slots, size), k) # NoSlot

(* The table is the partial function its filled slots spell out: each        *)
(* operation changes exactly the entry it names, through growth and reuse.   *)
EntryOf(k) == CHOOSE i \in Filled(slots) : slots[i].key = k
Content == [k \in {slots[i].key : i \in Filled(slots)} |-> slots[EntryOf(k)].val]
Dict == INSTANCE MapSpec WITH content <- Content
MapStep == Dict!Next \/ UNCHANGED Content

(* Each call does to the function what its name says, whenever the walk of   *)
(* insert_slot ends: a table full of tombstones refuses new keys.            *)
CallsMatch ==
  /\ Clear => Dict!Clear
  /\ \A k \in Keys :
       /\ Erase(k) => Dict!Erase(k)
       /\ InsertSlot(Grown(slots, size), k) # NoSlot =>
            /\ Subscript(k) => Dict!Subscript(k)
            /\ \A v \in Values :
                 /\ Insert(k, v) => Dict!Insert(k, v)
                 /\ InsertOrAssign(k, v) => Dict!InsertOrAssign(k, v)

(* A partial function, each call changing it as its name says.  (What        *)
(* [ ]_vars allows in any case comes first, where TLC looks first.)          *)
MapBehaves == Dict!Init /\ [][UNCHANGED vars \/ (MapStep /\ CallsMatch)]_vars
=============================================================================
