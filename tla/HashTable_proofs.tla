-------------------------- MODULE HashTable_proofs ---------------------------
(* Proofs about unordered_map, and about the set and the multi-entry tables  *)
(* that share its probing and growth: for every set of keys and every hash.  *)
EXTENDS HashTable, FiniteSetTheorems, WellFoundedInduction, TLAPS

(* Induction over the naturals, as a fact about a set of them.               *)
LEMMA NatOrder == OpToRel(<, Nat) = {p \in Nat \X Nat : p[1] < p[2]}
BY Zenon DEF OpToRel

LEMMA LeastOf ==
  ASSUME NEW S, S \subseteq Nat, S # {}
  PROVE  \E x \in S : \A y \in S : x <= y
<1> DEFINE R == {p \in Nat \X Nat : p[1] < p[2]}
<1>1. IsWellFoundedOn(R, Nat)
  BY NatOrder, NatLessThanWellFounded, Zenon
<1>2. PICK x \in S : \A y \in S : ~ (<<y, x>> \in R)
  BY <1>1, WFMin
<1>3. ASSUME NEW y \in S, y < x PROVE FALSE
  <2>1. <<y, x>> \in Nat \X Nat
    OBVIOUS
  <2> QED
    BY <1>2, <1>3, <2>1
<1> QED
  BY <1>2, <1>3

LEMMA NatSetInduction ==
  ASSUME NEW S, 0 \in S, \A n \in Nat : n \in S => n + 1 \in S
  PROVE  Nat \subseteq S
<1> DEFINE T == Nat \ S
<1>1. SUFFICES ASSUME T # {} PROVE FALSE
  OBVIOUS
<1>2. PICK x \in T : \A y \in T : x <= y
  <2>1. T \subseteq Nat
    OBVIOUS
  <2> HIDE DEF T
  <2> QED
    BY <1>1, <2>1, LeastOf
<1>3. x \in Nat \ {0}
  OBVIOUS
<1>4. x - 1 \in Nat /\ ~ (x <= x - 1) /\ (x - 1) + 1 = x
  BY <1>3
<1>5. x - 1 \in S
  BY <1>2, <1>4
<1> QED
  BY <1>4, <1>5

LEMMA MinIs ==
  ASSUME NEW S, S \subseteq Nat, S # {}
  PROVE  Min(S) \in S /\ \A y \in S : Min(S) <= y
<1>1. \E x \in S : \A y \in S : x =< y
  BY LeastOf
<1> QED
  BY <1>1 DEF Min
-----------------------------------------------------------------------------
(* Tables: functions on 0..n-1.                                              *)
Slot == Entry \cup {Empty, Tombstone}
IsTable(t) == /\ Cap(t) \in Nat /\ DOMAIN t = 0..(Cap(t) - 1)
              /\ t = [i \in DOMAIN t |-> t[i]]
              /\ \A i \in DOMAIN t : t[i] \in Slot

LEMMA CapIs ==
  ASSUME NEW n \in Nat, NEW t, DOMAIN t = 0..(n - 1)
  PROVE  Cap(t) = n
<1>1. Cardinality(0..(n - 1)) = IF 0 > n - 1 THEN 0 ELSE (n - 1) - 0 + 1
  BY FS_Interval
<1> QED
  BY <1>1 DEF Cap

(* Arithmetic of the probe: its steps visit every slot.                      *)
LEMMA ProbeInTable ==
  ASSUME HashTableAssumption, NEW t, IsTable(t), NEW k \in Keys, NEW p \in Steps(t)
  PROVE  p \in Nat /\ Probe(t, k, p) \in DOMAIN t /\ Probe(t, k, p) \in Nat
<1>1. Cap(t) \in Nat \ {0} /\ p \in Nat /\ Hash[k] + p \in Nat
  BY DEF IsTable, Steps, HashTableAssumption
<1>2. (Hash[k] + p) % Cap(t) \in 0..(Cap(t) - 1)
  BY <1>1
<1> QED
  BY <1>1, <1>2 DEF Probe, IsTable

LEMMA QuotientUnique ==
  ASSUME NEW b \in Nat \ {0}, NEW q \in Nat, NEW r \in 0..(b - 1)
  PROVE  (b * q + r) % b = r
OBVIOUS

LEMMA Remainders ==
  ASSUME NEW n \in Nat \ {0}, NEW h \in Nat, NEW i \in 0..(n - 1)
  PROVE  \E p \in 0..(n - 1) : (h + p) % n = i
<1> DEFINE q == h \div n
           r == h % n
<1>1. q \in Nat /\ r \in 0..(n - 1) /\ h = n * q + r
  OBVIOUS
<1> HIDE DEF q, r
<1>2. CASE i >= r
  <2>1. i - r \in 0..(n - 1) /\ h + (i - r) = n * q + i
    BY <1>1, <1>2
  <2>2. (n * q + i) % n = i
    BY <1>1
  <2> QED
    BY <2>1, <2>2
<1>3. CASE i < r
  <2>1. i - r + n \in 0..(n - 1) /\ h + (i - r + n) = n * (q + 1) + i
    BY <1>1, <1>3
  <2>2. q + 1 \in Nat
    BY <1>1
  <2>3. (n * (q + 1) + i) % n = i
    BY <2>2, QuotientUnique
  <2> QED
    BY <2>1, <2>3
<1> QED
  BY <1>1, <1>2, <1>3

LEMMA ProbeReaches ==
  ASSUME HashTableAssumption, NEW t, IsTable(t), NEW k \in Keys, NEW i \in DOMAIN t
  PROVE  \E p \in Steps(t) : Probe(t, k, p) = i
<1>1. Cap(t) \in Nat \ {0} /\ i \in 0..(Cap(t) - 1) /\ Hash[k] \in Nat
  BY DEF IsTable, HashTableAssumption
<1> QED
  BY <1>1, Remainders DEF Probe, Steps
-----------------------------------------------------------------------------
(* Tables whose probes lead to their entries.                                *)
Path(t, k, i) ==
  \E p \in Steps(t) : /\ Probe(t, k, p) = i
                      /\ \A q \in Steps(t) : q < p => t[Probe(t, k, q)] # Empty
Unique(t) == \A i, j \in Filled(t) : t[i].key = t[j].key => i = j
Reached(t) == \A i \in Filled(t) : Path(t, t[i].key, i)
Good(t) == IsTable(t) /\ Unique(t) /\ Reached(t)
Lacks(t, k) == \A i \in DOMAIN t : ~ Holds(t, i, k)
Pairs(t) == {t[i] : i \in Filled(t)}
AsEntry(k, v) == [key |-> k, val |-> v]

LEMMA SlotKinds ==
  ASSUME HashTableAssumption
  PROVE  Empty \notin Entry /\ Tombstone \notin Entry /\ Empty # Tombstone
BY DEF HashTableAssumption, Entry

LEMMA StopsIs ==
  ASSUME HashTableAssumption, NEW t, IsTable(t), NEW k \in Keys, Stops(t, k) # {}
  PROVE  /\ Min(Stops(t, k)) \in Steps(t)
         /\ Stop(t, k) \in DOMAIN t
         /\ t[Stop(t, k)] = Empty \/ Holds(t, Stop(t, k), k)
         /\ \A p \in Stops(t, k) : Min(Stops(t, k)) <= p
<1>1. Stops(t, k) \subseteq Steps(t) /\ Steps(t) \subseteq Nat
  BY DEF Stops, Steps, IsTable
<1>2. Min(Stops(t, k)) \in Stops(t, k) /\ \A p \in Stops(t, k) : Min(Stops(t, k)) <= p
  BY <1>1, MinIs
<1>3. Stop(t, k) \in DOMAIN t
  BY <1>1, <1>2, ProbeInTable DEF Stop
<1>4. t[Stop(t, k)] = Empty \/ Holds(t, Stop(t, k), k)
  BY <1>2 DEF Stop, Stops
<1> QED
  BY <1>1, <1>2, <1>3, <1>4

(* A lookup of a filled slot's key finds the slot.                           *)
LEMMA Found ==
  ASSUME HashTableAssumption, NEW t, Good(t), NEW k \in Keys,
         NEW i \in DOMAIN t, Holds(t, i, k)
  PROVE  Stops(t, k) # {} /\ Stop(t, k) = i /\ FindSlot(t, k) = i
<1>1. i \in Filled(t) /\ t[i].key = k /\ IsTable(t)
  BY DEF Holds, Filled, Good
<1>2. PICK p \in Steps(t) : /\ Probe(t, k, p) = i
                            /\ \A q \in Steps(t) : q < p => t[Probe(t, k, q)] # Empty
  BY <1>1 DEF Good, Reached, Path
<1>3. p \in Stops(t, k)
  BY <1>2 DEF Stops
<1>4. PICK m : m = Min(Stops(t, k))
  OBVIOUS
<1>5. m \in Steps(t) /\ m <= p /\ Stop(t, k) \in DOMAIN t
      /\ (t[Stop(t, k)] = Empty \/ Holds(t, Stop(t, k), k))
  BY <1>1, <1>3, <1>4, StopsIs
<1>6. m \in Nat /\ p \in Nat
  BY <1>1, <1>2, <1>5, ProbeInTable
<1>7. Stop(t, k) = Probe(t, k, m)
  BY <1>4 DEF Stop
<1>8. Stop(t, k) = i
  <2>1. CASE m = p
    BY <2>1, <1>2, <1>7
  <2>2. CASE m < p
    <3>1. t[Stop(t, k)] # Empty
      BY <2>2, <1>2, <1>5, <1>7
    <3>2. Stop(t, k) \in Filled(t) /\ t[Stop(t, k)].key = k
      BY <3>1, <1>5 DEF Holds, Filled
    <3> QED
      BY <3>2, <1>1 DEF Good, Unique
  <2> QED
    BY <2>1, <2>2, <1>5, <1>6
<1> QED
  BY <1>3, <1>8 DEF FindSlot

LEMMA FindSlotIs ==
  ASSUME HashTableAssumption, NEW t, Good(t), NEW k \in Keys, FindSlot(t, k) # NoSlot
  PROVE  FindSlot(t, k) \in DOMAIN t /\ Holds(t, FindSlot(t, k), k)
<1>1. Stops(t, k) # {} /\ Holds(t, Stop(t, k), k) /\ FindSlot(t, k) = Stop(t, k)
  BY DEF FindSlot
<1> QED
  BY <1>1, StopsIs DEF Good

LEMMA NotFound ==
  ASSUME HashTableAssumption, NEW t, Good(t), NEW k \in Keys, FindSlot(t, k) = NoSlot
  PROVE  Lacks(t, k)
<1>1. SUFFICES ASSUME NEW i \in DOMAIN t, Holds(t, i, k) PROVE FALSE
  BY DEF Lacks
<1>2. FindSlot(t, k) = i /\ i \in Nat
  BY <1>1, Found DEF Good, IsTable
<1> QED
  BY <1>2 DEF NoSlot

(* Where an insertion ends up.                                               *)
LEMMA InsertSlotIs ==
  ASSUME HashTableAssumption, NEW t, Good(t), NEW k \in Keys, InsertSlot(t, k) # NoSlot
  PROVE  /\ InsertSlot(t, k) \in DOMAIN t
         /\ \/ Holds(t, InsertSlot(t, k), k)
            \/ /\ t[InsertSlot(t, k)] \notin Entry
               /\ Path(t, k, InsertSlot(t, k)) /\ Lacks(t, k)
<1>1. Stops(t, k) # {} /\ IsTable(t)
  BY DEF InsertSlot, Good
<1>2. PICK m : m = Min(Stops(t, k))
  OBVIOUS
<1>3. /\ m \in Steps(t) /\ m \in Nat /\ Stop(t, k) \in DOMAIN t /\ Stop(t, k) = Probe(t, k, m)
      /\ t[Stop(t, k)] = Empty \/ Holds(t, Stop(t, k), k)
      /\ \A p \in Stops(t, k) : m <= p
  BY <1>1, <1>2, StopsIs, ProbeInTable DEF Stop
<1>4. CASE Holds(t, Stop(t, k), k)
  BY <1>1, <1>3, <1>4 DEF InsertSlot
<1>5. CASE ~ Holds(t, Stop(t, k), k)
  <2>1. t[Stop(t, k)] = Empty /\ t[Stop(t, k)] \notin Entry
    BY <1>3, <1>5, SlotKinds
  <2>2. \A q \in Steps(t) : q < m => t[Probe(t, k, q)] # Empty
    <3>1. SUFFICES ASSUME NEW q \in Steps(t), q < m, t[Probe(t, k, q)] = Empty PROVE FALSE
      OBVIOUS
    <3>2. q \in Stops(t, k) /\ q \in Nat
      BY <3>1, <1>1, ProbeInTable DEF Stops
    <3> QED
      BY <3>1, <3>2, <1>3
  <2>3. Lacks(t, k)
    <3>1. SUFFICES ASSUME NEW i \in DOMAIN t, Holds(t, i, k) PROVE FALSE
      BY DEF Lacks
    <3> QED
      BY <3>1, <1>5, Found
  <2>4. CASE Passed(t, k) = {}
    <3>1. InsertSlot(t, k) = Stop(t, k)
      BY <2>4, <1>1 DEF InsertSlot
    <3>2. Path(t, k, Stop(t, k))
      BY <1>3, <2>2 DEF Path
    <3> QED
      BY <3>1, <3>2, <2>1, <2>3, <1>3
  <2>5. CASE Passed(t, k) # {}
    <3>1. Passed(t, k) = {p \in 0..(m - 1) : t[Probe(t, k, p)] = Tombstone}
      BY <1>2 DEF Passed
    <3>2. PICK n : n = Min(Passed(t, k))
      OBVIOUS
    <3>3. Passed(t, k) \subseteq Nat
      BY <3>1, <1>3
    <3>4. n \in Passed(t, k)
      BY <3>2, <3>3, <2>5, MinIs
    <3>5. n \in Nat /\ n < m /\ n \in Steps(t) /\ t[Probe(t, k, n)] = Tombstone
      BY <3>1, <3>4, <1>1, <1>3 DEF Steps, IsTable
    <3>6. InsertSlot(t, k) = Probe(t, k, n)
      BY <3>2, <2>5, <1>1, <1>5 DEF InsertSlot
    <3>7. Probe(t, k, n) \in DOMAIN t
      BY <3>5, <1>1, ProbeInTable
    <3>8. \A q \in Steps(t) : q < n => t[Probe(t, k, q)] # Empty
      BY <2>2, <3>5, <1>3 DEF Steps, IsTable
    <3>9. Path(t, k, Probe(t, k, n))
      BY <3>5, <3>8 DEF Path
    <3> QED
      BY <3>5, <3>6, <3>7, <3>9, <2>3, SlotKinds
  <2> QED
    BY <2>4, <2>5
<1> QED
  BY <1>4, <1>5
-----------------------------------------------------------------------------
(* What the writes do to a table: a new entry, an overwritten one, an erased *)
(* one, none.                                                                *)
Same(t, u, i) == \A j \in DOMAIN t : j # i => u[j] = t[j]

LEMMA WriteIsTable ==
  ASSUME NEW t, IsTable(t), NEW i \in DOMAIN t, NEW e \in Slot,
         NEW u, u = [t EXCEPT ![i] = e]
  PROVE  IsTable(u) /\ DOMAIN u = DOMAIN t /\ Cap(u) = Cap(t) /\ u[i] = e /\ Same(t, u, i)
<1>1. /\ DOMAIN u = DOMAIN t /\ u[i] = e /\ \A j \in DOMAIN t : j # i => u[j] = t[j]
      /\ u = [j \in DOMAIN u |-> u[j]]
  BY DEF IsTable
<1>2. Cap(u) = Cap(t)
  BY <1>1 DEF Cap
<1>3. \A j \in DOMAIN u : u[j] \in Slot
  BY <1>1 DEF IsTable
<1> QED
  BY <1>1, <1>2, <1>3 DEF IsTable, Same

(* Empty slots that are filled, or filled ones that stop being so, leave     *)
(* every probe that got past them.                                           *)
LEMMA PathStays ==
  ASSUME NEW t, NEW u, Cap(u) = Cap(t), NEW k, NEW i, Path(t, k, i),
         \A p \in Steps(t) : u[Probe(t, k, p)] = Empty => t[Probe(t, k, p)] = Empty
  PROVE  Path(u, k, i)
<1>1. Steps(u) = Steps(t) /\ \A p : Probe(u, k, p) = Probe(t, k, p)
  BY DEF Steps, Probe
<1> QED
  BY <1>1 DEF Path

Wrote(w, t, i, e) ==
  Good(w) /\ Cap(w) = Cap(t) /\ Filled(w) = Filled(t) \cup {i} /\ Pairs(w) = Pairs(t) \cup {e}

LEMMA Written ==
  ASSUME HashTableAssumption, NEW t, Good(t), NEW k \in Keys, NEW v \in Values,
         NEW i \in DOMAIN t, t[i] \notin Entry, Path(t, k, i), Lacks(t, k)
  PROVE  Wrote([t EXCEPT ![i] = AsEntry(k, v)], t, i, AsEntry(k, v))
<1>1. PICK e : e = AsEntry(k, v)
  OBVIOUS
<1>2. e \in Entry /\ e \in Slot /\ e.key = k
  BY <1>1 DEF AsEntry, Entry, Slot
<1>3. PICK u : u = [t EXCEPT ![i] = e]
  OBVIOUS
<1>4. /\ IsTable(t) /\ IsTable(u) /\ DOMAIN u = DOMAIN t /\ Cap(u) = Cap(t) /\ u[i] = e
      /\ \A j \in DOMAIN t \ {i} : u[j] = t[j]
  <2>1. IsTable(t)
    BY DEF Good
  <2> QED
    <3>1. i \in DOMAIN t /\ e \in Slot /\ u = [t EXCEPT ![i] = e]
      BY <1>2, <1>3
    <3>2. IsTable(u) /\ DOMAIN u = DOMAIN t /\ Cap(u) = Cap(t) /\ u[i] = e /\ Same(t, u, i)
      BY <2>1, <3>1, WriteIsTable
    <3> QED
      BY <2>1, <3>2 DEF Same
<1>5. Filled(u) = Filled(t) \cup {i}
  BY <1>2, <1>4 DEF Filled
<1>6. i \notin Filled(t) /\ \A j \in Filled(t) : j \in DOMAIN t \ {i} /\ t[j].key # k
  BY DEF Filled, Lacks, Holds
<1>7. Unique(u)
  <2>1. SUFFICES ASSUME NEW a \in Filled(u), NEW b \in Filled(u), u[a].key = u[b].key
                 PROVE  a = b
    BY DEF Unique
  <2>2. CASE a = i \/ b = i
    BY <2>1, <2>2, <1>2, <1>4, <1>5, <1>6
  <2>3. CASE a # i /\ b # i
    BY <2>1, <2>3, <1>4, <1>5, <1>6 DEF Good, Unique
  <2> QED
    BY <2>2, <2>3
<1>8. Reached(u)
  <2>1. SUFFICES ASSUME NEW a \in Filled(u) PROVE Path(u, u[a].key, a)
    BY DEF Reached
  <2>2. u[a].key \in Keys /\ u[a].key = IF a = i THEN k ELSE t[a].key
    BY <1>2, <1>4, <1>5 DEF Filled, Entry
  <2>3. PICK c \in Keys : c = u[a].key
    BY <2>2
  <2>4. Path(t, c, a)
    BY <2>2, <2>3, <1>5 DEF Good, Reached
  <2>5. ASSUME NEW p \in Steps(t), u[Probe(t, c, p)] = Empty PROVE t[Probe(t, c, p)] = Empty
    <3>1. Probe(t, c, p) \in DOMAIN t
      BY <1>4, ProbeInTable
    <3> QED
      BY <3>1, <2>5, <1>2, <1>4, SlotKinds
  <2> QED
    BY <2>3, <2>4, <2>5, <1>4, PathStays
<1>9. Pairs(u) = Pairs(t) \cup {e}
  <2>1. \A j \in Filled(t) : u[j] = t[j]
    BY <1>4, <1>6
  <2> QED
    BY <2>1, <1>4, <1>5 DEF Pairs
<1> QED
  BY <1>1, <1>3, <1>4, <1>5, <1>7, <1>8, <1>9 DEF Good, Wrote

Overwrote(w, t, i, e) ==
  /\ Good(w) /\ Cap(w) = Cap(t) /\ Filled(w) = Filled(t)
  /\ Pairs(w) = (Pairs(t) \ {t[i]}) \cup {e}

LEMMA Overwritten ==
  ASSUME HashTableAssumption, NEW t, Good(t), NEW k \in Keys, NEW v \in Values,
         NEW i \in DOMAIN t, Holds(t, i, k)
  PROVE  Overwrote([t EXCEPT ![i].val = v], t, i, AsEntry(k, v))
<1>1. PICK e : e = AsEntry(k, v)
  OBVIOUS
<1>2. e \in Entry /\ e \in Slot /\ e.key = k
  BY <1>1 DEF AsEntry, Entry, Slot
<1>3. PICK u : u = [t EXCEPT ![i] = e]
  OBVIOUS
<1>a. [t EXCEPT ![i].val = v] = u
  <2>1. t[i] \in Entry /\ t[i].key = k
    BY DEF Holds
  <2>2. [t[i] EXCEPT !.val = v] = e
    BY <2>1, <1>1 DEF Entry, AsEntry
  <2>3. [t EXCEPT ![i].val = v] = [t EXCEPT ![i] = [t[i] EXCEPT !.val = v]]
    OBVIOUS
  <2> QED
    BY <2>2, <2>3, <1>3
<1>4. /\ IsTable(t) /\ IsTable(u) /\ DOMAIN u = DOMAIN t /\ Cap(u) = Cap(t) /\ u[i] = e
      /\ \A j \in DOMAIN t \ {i} : u[j] = t[j]
  <2>1. IsTable(t)
    BY DEF Good
  <2> QED
    <3>1. i \in DOMAIN t /\ e \in Slot /\ u = [t EXCEPT ![i] = e]
      BY <1>2, <1>3
    <3>2. IsTable(u) /\ DOMAIN u = DOMAIN t /\ Cap(u) = Cap(t) /\ u[i] = e /\ Same(t, u, i)
      BY <2>1, <3>1, WriteIsTable
    <3> QED
      BY <2>1, <3>2 DEF Same
<1>5. Filled(u) = Filled(t) /\ i \in Filled(t) /\ t[i].key = k
  BY <1>2, <1>4 DEF Filled, Holds
<1>6. \A j \in Filled(u) : u[j].key = t[j].key
  BY <1>2, <1>4, <1>5 DEF Filled
<1>7. Unique(u)
  BY <1>5, <1>6 DEF Good, Unique
<1>8. Reached(u)
  <2>1. SUFFICES ASSUME NEW a \in Filled(u) PROVE Path(u, u[a].key, a)
    BY DEF Reached
  <2>2. u[a].key \in Keys
    BY <1>2, <1>4, <1>5 DEF Filled, Entry
  <2>3. PICK c \in Keys : c = u[a].key
    BY <2>2
  <2>4. Path(t, c, a)
    BY <2>3, <1>5, <1>6 DEF Good, Reached
  <2>5. ASSUME NEW p \in Steps(t), u[Probe(t, c, p)] = Empty PROVE t[Probe(t, c, p)] = Empty
    <3>1. Probe(t, c, p) \in DOMAIN t
      BY <1>4, ProbeInTable
    <3> QED
      BY <3>1, <2>5, <1>2, <1>4, SlotKinds
  <2> QED
    BY <2>3, <2>4, <2>5, <1>4, PathStays
<1>9. Pairs(u) = (Pairs(t) \ {t[i]}) \cup {e}
  <2>1. \A j \in Filled(t) \ {i} : u[j] = t[j] /\ t[j] # t[i]
    BY <1>4, <1>5 DEF Filled, Good, Unique
  <2> QED
    BY <2>1, <1>4, <1>5 DEF Pairs
<1> QED
  BY <1>1, <1>a, <1>4, <1>5, <1>7, <1>8, <1>9 DEF Good, Overwrote

LEMMA Erased ==
  ASSUME HashTableAssumption, NEW t, Good(t), NEW i \in Filled(t)
  PROVE  /\ Good([t EXCEPT ![i] = Tombstone])
         /\ Cap([t EXCEPT ![i] = Tombstone]) = Cap(t)
         /\ Filled([t EXCEPT ![i] = Tombstone]) = Filled(t) \ {i}
         /\ Pairs([t EXCEPT ![i] = Tombstone]) = Pairs(t) \ {t[i]}
<1>2. Tombstone \in Slot /\ i \in DOMAIN t /\ t[i] \in Entry
  BY DEF Slot, Filled
<1>3. PICK u : u = [t EXCEPT ![i] = Tombstone]
  OBVIOUS
<1>4. /\ IsTable(t) /\ IsTable(u) /\ DOMAIN u = DOMAIN t /\ Cap(u) = Cap(t) /\ u[i] = Tombstone
      /\ \A j \in DOMAIN t \ {i} : u[j] = t[j]
  <2>1. IsTable(t)
    BY DEF Good
  <2> QED
    <3>1. i \in DOMAIN t /\ Tombstone \in Slot /\ u = [t EXCEPT ![i] = Tombstone]
      BY <1>2, <1>3
    <3>2. IsTable(u) /\ DOMAIN u = DOMAIN t /\ Cap(u) = Cap(t) /\ u[i] = Tombstone /\ Same(t, u, i)
      BY <2>1, <3>1, WriteIsTable
    <3> QED
      BY <2>1, <3>2 DEF Same
<1>5. Filled(u) = Filled(t) \ {i} /\ \A j \in Filled(u) : u[j] = t[j]
  BY <1>4, SlotKinds DEF Filled
<1>7. Unique(u)
  BY <1>5 DEF Good, Unique
<1>8. Reached(u)
  <2>1. SUFFICES ASSUME NEW a \in Filled(u) PROVE Path(u, u[a].key, a)
    BY DEF Reached
  <2>2. u[a].key \in Keys
    BY DEF Filled, Entry
  <2>3. PICK c \in Keys : c = u[a].key
    BY <2>2
  <2>4. Path(t, c, a)
    BY <2>3, <1>5 DEF Good, Reached
  <2>5. ASSUME NEW p \in Steps(t), u[Probe(t, c, p)] = Empty PROVE t[Probe(t, c, p)] = Empty
    <3>1. Probe(t, c, p) \in DOMAIN t
      BY <1>4, ProbeInTable
    <3> QED
      BY <3>1, <2>5, <1>2, <1>4, SlotKinds
  <2> QED
    BY <2>3, <2>4, <2>5, <1>4, PathStays
<1>9. Pairs(u) = Pairs(t) \ {t[i]}
  <2>1. \A j \in Filled(t) \ {i} : t[j] # t[i]
    BY DEF Filled, Good, Unique
  <2> QED
    BY <2>1, <1>5 DEF Pairs
<1> QED
  BY <1>3, <1>4, <1>5, <1>7, <1>8, <1>9 DEF Good

LEMMA EmptyIsGood ==
  ASSUME HashTableAssumption, NEW n \in Nat
  PROVE  /\ Good(EmptyTable(n)) /\ Cap(EmptyTable(n)) = n
         /\ Filled(EmptyTable(n)) = {} /\ Pairs(EmptyTable(n)) = {}
         /\ \A i \in DOMAIN EmptyTable(n) : EmptyTable(n)[i] = Empty
<1>1. PICK t : t = EmptyTable(n)
  OBVIOUS
<1>2. /\ DOMAIN t = 0..(n - 1) /\ t = [i \in DOMAIN t |-> t[i]]
      /\ \A i \in DOMAIN t : t[i] = Empty
  BY <1>1 DEF EmptyTable
<1>3. Cap(t) = n
  BY <1>2, CapIs
<1>4. Filled(t) = {}
  BY <1>2, SlotKinds DEF Filled
<1>5. IsTable(t)
  BY <1>2, <1>3 DEF IsTable, Slot
<1> QED
  BY <1>1, <1>2, <1>3, <1>4, <1>5 DEF Good, Unique, Reached, Pairs

LEMMA FilledFinite ==
  ASSUME NEW t, Good(t)
  PROVE  IsFiniteSet(Filled(t)) /\ Cardinality(Filled(t)) \in Nat
         /\ Cardinality(Filled(t)) <= Cap(t)
<1>1. DOMAIN t = 0..(Cap(t) - 1) /\ Cap(t) \in Nat
  BY DEF Good, IsTable
<1>2. IsFiniteSet(DOMAIN t)
  BY <1>1, FS_Interval
<1>3. Filled(t) \subseteq DOMAIN t
  BY DEF Filled
<1> QED
  BY <1>2, <1>3, FS_Subset, FS_CardinalityType DEF Cap
-----------------------------------------------------------------------------
(* Rehashing: the recursive function of Rehash exists, and its steps keep    *)
(* the entries moved so far in a good table.                                 *)
Stepped(f, t, n, i) ==
  IF i = 0 THEN EmptyTable(n)
  ELSE IF t[i - 1] \in Entry THEN Place(f[i - 1], t[i - 1]) ELSE f[i - 1]
Agree(f, g, m) == \A j \in 0..m : f[j] = g[j]
IsMoved(f, t, n, m) == f = [i \in 0..m |-> Stepped(f, t, n, i)]

LEMMA SteppedSame ==
  ASSUME NEW f, NEW g, NEW t, NEW n, NEW m \in Nat,
         Agree(f, g, m), NEW i \in 0..(m + 1)
  PROVE  Stepped(f, t, n, i) = Stepped(g, t, n, i)
<1>1. CASE i = 0
  BY <1>1 DEF Stepped
<1>2. CASE i # 0
  <2>1. i - 1 \in 0..m
    BY <1>2
  <2>2. f[i - 1] = g[i - 1]
    BY <2>1 DEF Agree
  <2> QED
    BY <2>2 DEF Stepped
<1> QED
  BY <1>1, <1>2

LEMMA MovedExists ==
  ASSUME NEW t, NEW n, NEW m \in Nat
  PROVE  \E f : IsMoved(f, t, n, m)
<1> DEFINE S == {j \in Nat : \E f : IsMoved(f, t, n, j)}
<1>1. 0 \in S
  <2>1. PICK f : f = [i \in 0..0 |-> EmptyTable(n)]
    OBVIOUS
  <2>2. [i \in 0..0 |-> Stepped(f, t, n, i)] = [i \in 0..0 |-> EmptyTable(n)]
    BY DEF Stepped
  <2>3. IsMoved(f, t, n, 0)
    BY <2>1, <2>2 DEF IsMoved
  <2> QED
    BY <2>3
<1>2. ASSUME NEW j \in Nat, j \in S PROVE j + 1 \in S
  <2>1. PICK f : IsMoved(f, t, n, j)
    BY <1>2
  <2>2. PICK g : g = [i \in 0..(j + 1) |-> Stepped(f, t, n, i)]
    OBVIOUS
  <2>3. \A i \in 0..j : f[i] = Stepped(f, t, n, i)
    BY <2>1 DEF IsMoved
  <2>4. \A i \in 0..j : i \in 0..(j + 1)
    OBVIOUS
  <2>5. Agree(f, g, j)
    BY <2>2, <2>3, <2>4 DEF Agree
  <2>6. \A i \in 0..(j + 1) : Stepped(f, t, n, i) = Stepped(g, t, n, i)
    BY <2>5, SteppedSame
  <2>7. IsMoved(g, t, n, j + 1)
    BY <2>2, <2>6 DEF IsMoved
  <2> QED
    BY <2>7
<1> HIDE DEF S
<1>3. Nat \subseteq S
  BY <1>1, <1>2, NatSetInduction
<1> QED
  BY <1>3 DEF S

LEMMA RehashIs ==
  ASSUME NEW t, NEW n, Cap(t) \in Nat
  PROVE  \E f : /\ IsMoved(f, t, n, Cap(t)) /\ Rehash(t, n) = f[Cap(t)]
<1>1. PICK f : f = CHOOSE g : IsMoved(g, t, n, Cap(t))
  OBVIOUS
<1>2. IsMoved(f, t, n, Cap(t))
  BY <1>1, MovedExists
<1>3. Rehash(t, n) = f[Cap(t)]
  BY <1>1 DEF Rehash, IsMoved, Stepped
<1> QED
  BY <1>2, <1>3
UpTo(t, i) == {a \in Filled(t) : a < i}
NoTombstones(t) == \A a \in DOMAIN t : t[a] # Tombstone
PartMoved(u, t, n, i) ==
  /\ Good(u) /\ Cap(u) = n /\ NoTombstones(u)
  /\ Cardinality(Filled(u)) = Cardinality(UpTo(t, i)) /\ Cardinality(Filled(u)) <= i
  /\ Pairs(u) = {t[a] : a \in UpTo(t, i)}

LEMMA UpToNext ==
  ASSUME NEW t, IsTable(t), NEW i \in DOMAIN t
  PROVE  /\ IsFiniteSet(UpTo(t, i)) /\ i \notin UpTo(t, i)
         /\ t[i] \in Entry => UpTo(t, i + 1) = UpTo(t, i) \cup {i}
         /\ t[i] \notin Entry => UpTo(t, i + 1) = UpTo(t, i)
<1>1. DOMAIN t = 0..(Cap(t) - 1) /\ Cap(t) \in Nat /\ i \in Nat /\ \A a \in DOMAIN t : a \in Nat
  BY DEF IsTable
<1>2. IsFiniteSet(DOMAIN t) /\ UpTo(t, i) \subseteq DOMAIN t
  BY <1>1, FS_Interval DEF UpTo, Filled
<1>3. IsFiniteSet(UpTo(t, i))
  BY <1>2, FS_Subset
<1>4. \A a \in DOMAIN t : a < i + 1 <=> a < i \/ a = i
  BY <1>1
<1>5. \A a \in Filled(t) : a \in DOMAIN t
  BY DEF Filled
<1>6. ASSUME t[i] \in Entry PROVE UpTo(t, i + 1) = UpTo(t, i) \cup {i}
  <2>1. i \in Filled(t)
    BY <1>6 DEF Filled
  <2> QED
    BY <2>1, <1>4, <1>5 DEF UpTo
<1>7. ASSUME t[i] \notin Entry PROVE UpTo(t, i + 1) = UpTo(t, i)
  <2>1. i \notin Filled(t)
    BY <1>7 DEF Filled
  <2> QED
    BY <2>1, <1>4, <1>5 DEF UpTo
<1>8. i \notin UpTo(t, i)
  BY <1>1 DEF UpTo
<1> QED
  BY <1>3, <1>6, <1>7, <1>8

(* A table with fewer entries than slots, and no tombstone, has room for any *)
(* key that it lacks.                                                        *)
LEMMA RoomLeft ==
  ASSUME HashTableAssumption, NEW u, Good(u), NoTombstones(u),
         Cardinality(Filled(u)) < Cap(u), NEW k \in Keys
  PROVE  \E p \in Steps(u) : u[Probe(u, k, p)] = Empty
<1>1. IsTable(u) /\ Filled(u) \subseteq DOMAIN u
  BY DEF Good, Filled
<1>2. PICK a \in DOMAIN u : a \notin Filled(u)
  <2>1. CASE Filled(u) = DOMAIN u
    BY <2>1, <1>1 DEF Cap, IsTable
  <2> QED
    BY <2>1, <1>1
<1>3. u[a] = Empty
  BY <1>1, <1>2 DEF IsTable, Slot, Filled, NoTombstones
<1> QED
  BY <1>1, <1>3, ProbeReaches

LEMMA Placed ==
  ASSUME HashTableAssumption, NEW u, Good(u), NoTombstones(u),
         Cardinality(Filled(u)) < Cap(u), NEW e \in Entry, Lacks(u, e.key)
  PROVE  /\ Good(Place(u, e)) /\ Cap(Place(u, e)) = Cap(u) /\ NoTombstones(Place(u, e))
         /\ Cardinality(Filled(Place(u, e))) = Cardinality(Filled(u)) + 1
         /\ Pairs(Place(u, e)) = Pairs(u) \cup {e}
<1>1. PICK k \in Keys, v \in Values : k = e.key /\ e = AsEntry(k, v)
  BY DEF Entry, AsEntry
<1>2. PICK free : free = {p \in Steps(u) : u[Probe(u, k, p)] = Empty}
  OBVIOUS
<1>3. free # {} /\ free \subseteq Nat /\ IsTable(u)
  BY <1>2, RoomLeft, ProbeInTable DEF Good
<1>4. PICK m : m = Min(free)
  OBVIOUS
<1>5. m \in free /\ \A q \in free : m <= q
  BY <1>3, <1>4, MinIs
<1>6. PICK i : i = Probe(u, k, m)
  OBVIOUS
<1>7. m \in Steps(u) /\ u[i] = Empty /\ i \in DOMAIN u /\ u[i] \notin Entry
  BY <1>2, <1>3, <1>5, <1>6, ProbeInTable, SlotKinds
<1>8. Path(u, k, i)
  <2>1. ASSUME NEW q \in Steps(u), q < m PROVE u[Probe(u, k, q)] # Empty
    <3>1. m \in Nat /\ q \in Nat
      BY <1>3, <1>5, ProbeInTable
    <3> QED
      BY <2>1, <3>1, <1>2, <1>5
  <2> QED
    BY <2>1, <1>6, <1>7 DEF Path
<1>9. Lacks(u, k)
  BY <1>1
<1>10. PICK w : w = [u EXCEPT ![i] = AsEntry(k, v)]
  OBVIOUS
<1>11. /\ Good(w) /\ Cap(w) = Cap(u) /\ Filled(w) = Filled(u) \cup {i}
       /\ Pairs(w) = Pairs(u) \cup {AsEntry(k, v)}
  <2>1. k \in Keys /\ v \in Values
    BY <1>1
  <2>2. Wrote([u EXCEPT ![i] = AsEntry(k, v)], u, i, AsEntry(k, v))
    BY <2>1, <1>7, <1>8, <1>9, Written
  <2> QED
    BY <2>2, <1>10 DEF Wrote
<1>12. Place(u, e) = w
  BY <1>1, <1>2, <1>3, <1>4, <1>6, <1>10 DEF Place
<1>13. NoTombstones(w)
  BY <1>1, <1>10, SlotKinds DEF NoTombstones, Good, IsTable
<1>14. Cardinality(Filled(w)) = Cardinality(Filled(u)) + 1
  <2>1. i \notin Filled(u) /\ IsFiniteSet(Filled(u))
    BY <1>7, FilledFinite DEF Filled
  <2> QED
    BY <2>1, <1>11, FS_AddElement
<1> QED
  BY <1>1, <1>11, <1>12, <1>13, <1>14

LEMMA MoveStep ==
  ASSUME HashTableAssumption, NEW t, Good(t), NEW n \in Nat, Cap(t) < n,
         NEW i \in DOMAIN t, NEW u, PartMoved(u, t, n, i)
  PROVE  PartMoved(IF t[i] \in Entry THEN Place(u, t[i]) ELSE u, t, n, i + 1)
<1>1. /\ Good(u) /\ Cap(u) = n /\ NoTombstones(u)
      /\ Cardinality(Filled(u)) = Cardinality(UpTo(t, i)) /\ Cardinality(Filled(u)) <= i
      /\ Pairs(u) = {t[a] : a \in UpTo(t, i)}
  BY DEF PartMoved
<1>2. IsTable(t) /\ i \in Nat /\ i < Cap(t) /\ Cap(t) \in Nat
  BY DEF Good, IsTable
<1>3. /\ IsFiniteSet(UpTo(t, i)) /\ i \notin UpTo(t, i)
      /\ t[i] \in Entry => UpTo(t, i + 1) = UpTo(t, i) \cup {i}
      /\ t[i] \notin Entry => UpTo(t, i + 1) = UpTo(t, i)
  BY <1>2, UpToNext
<1>4. Cardinality(Filled(u)) \in Nat
  BY <1>1, FilledFinite
<1>5. CASE t[i] \notin Entry
  BY <1>1, <1>2, <1>3, <1>4, <1>5 DEF PartMoved
<1>6. CASE t[i] \in Entry
  <2>1. PICK e \in Entry : e = t[i]
    BY <1>6
  <2>2. e.key \in Keys
    BY DEF Entry
  <2>3. Lacks(u, e.key)
    <3>1. SUFFICES ASSUME NEW a \in DOMAIN u, Holds(u, a, e.key) PROVE FALSE
      BY DEF Lacks
    <3>2. u[a] \in Pairs(u)
      BY <3>1 DEF Pairs, Filled, Holds
    <3>3. PICK b \in UpTo(t, i) : u[a] = t[b]
      BY <3>2, <1>1
    <3>4. b \in Filled(t) /\ b # i /\ i \in Filled(t)
      BY <3>3, <1>3, <1>6 DEF UpTo, Filled
    <3>5. t[b].key = t[i].key
      BY <3>1, <3>3, <2>1 DEF Holds
    <3> QED
      BY <3>4, <3>5 DEF Good, Unique
  <2>4. PICK w : w = Place(u, e)
    OBVIOUS
  <2>5. Cardinality(Filled(u)) < Cap(u)
    BY <1>1, <1>2, <1>4
  <2>6. /\ Good(w) /\ Cap(w) = Cap(u) /\ NoTombstones(w)
        /\ Cardinality(Filled(w)) = Cardinality(Filled(u)) + 1
        /\ Pairs(w) = Pairs(u) \cup {e}
    BY <1>1, <2>3, <2>4, <2>5, Placed
  <2>7. Cardinality(UpTo(t, i + 1)) = Cardinality(UpTo(t, i)) + 1
    BY <1>3, <1>6, FS_AddElement
  <2>8. {t[a] : a \in UpTo(t, i + 1)} = {t[a] : a \in UpTo(t, i)} \cup {e}
    BY <1>3, <1>6, <2>1
  <2>9. /\ Cardinality(Filled(w)) = Cardinality(UpTo(t, i + 1))
        /\ Cardinality(Filled(w)) <= i + 1
    <3>1. PICK c : c = Cardinality(Filled(u))
      OBVIOUS
    <3>2. c \in Nat /\ c <= i /\ i \in Nat
      BY <1>1, <1>2, <1>4, <3>1
    <3>3. Cardinality(Filled(w)) = c + 1 /\ Cardinality(UpTo(t, i + 1)) = c + 1
      BY <1>1, <2>6, <2>7, <3>1
    <3>4. c + 1 <= i + 1
      BY <3>2
    <3> QED
      BY <3>3, <3>4
  <2>10. PartMoved(w, t, n, i + 1)
    BY <1>1, <2>6, <2>8, <2>9 DEF PartMoved
  <2> QED
    BY <2>1, <2>4, <2>10, <1>6
<1> QED
  BY <1>5, <1>6

LEMMA Rehashed ==
  ASSUME HashTableAssumption, NEW t, Good(t), NEW n \in Nat, Cap(t) < n
  PROVE  /\ Good(Rehash(t, n)) /\ Cap(Rehash(t, n)) = n /\ Pairs(Rehash(t, n)) = Pairs(t)
         /\ Cardinality(Filled(Rehash(t, n))) = Cardinality(Filled(t))
<1>1. Cap(t) \in Nat /\ IsTable(t) /\ DOMAIN t = 0..(Cap(t) - 1)
  BY DEF Good, IsTable
<1>2. PICK f : IsMoved(f, t, n, Cap(t)) /\ Rehash(t, n) = f[Cap(t)]
  BY <1>1, RehashIs
<1>3. \A i \in 0..Cap(t) : f[i] = Stepped(f, t, n, i)
  BY <1>2 DEF IsMoved
<1> DEFINE S == {i \in Nat : i <= Cap(t) => PartMoved(f[i], t, n, i)}
<1>4. 0 \in S
  <2>1. f[0] = EmptyTable(n)
    BY <1>1, <1>3 DEF Stepped
  <2>2. UpTo(t, 0) = {}
    BY <1>1 DEF UpTo, Filled
  <2>3. Cardinality({}) = 0
    BY FS_EmptySet
  <2>4. /\ Good(f[0]) /\ Cap(f[0]) = n /\ Filled(f[0]) = {} /\ Pairs(f[0]) = {}
        /\ \A a \in DOMAIN f[0] : f[0][a] = Empty
    BY <2>1, EmptyIsGood
  <2>5. NoTombstones(f[0])
    BY <2>4, SlotKinds DEF NoTombstones
  <2>6. PartMoved(f[0], t, n, 0)
    BY <2>2, <2>3, <2>4, <2>5 DEF PartMoved
  <2> QED
    BY <2>6
<1>5. ASSUME NEW i \in Nat, i \in S PROVE i + 1 \in S
  <2>1. SUFFICES ASSUME i + 1 <= Cap(t) PROVE PartMoved(f[i + 1], t, n, i + 1)
    OBVIOUS
  <2>2. i \in DOMAIN t /\ i + 1 \in 0..Cap(t) /\ PartMoved(f[i], t, n, i)
    BY <1>1, <1>5, <2>1
  <2>3. f[i + 1] = IF t[i] \in Entry THEN Place(f[i], t[i]) ELSE f[i]
    <3>1. (i + 1) - 1 = i /\ i + 1 # 0
      OBVIOUS
    <3>2. f[i + 1] = Stepped(f, t, n, i + 1)
      BY <1>3, <2>2
    <3> QED
      BY <3>1, <3>2 DEF Stepped
  <2> QED
    BY <2>2, <2>3, MoveStep
<1> HIDE DEF S
<1>6. Cap(t) \in S
  BY <1>1, <1>4, <1>5, NatSetInduction
<1>7. PartMoved(f[Cap(t)], t, n, Cap(t))
  BY <1>1, <1>6 DEF S
<1>8. UpTo(t, Cap(t)) = Filled(t)
  BY <1>1 DEF UpTo, Filled
<1> QED
  BY <1>2, <1>7, <1>8 DEF PartMoved, Pairs
-----------------------------------------------------------------------------
(* The inductive invariant of a table and its count.                         *)
InvOf(t, n) ==
  /\ Good(t)
  /\ n = Cardinality(Filled(t)) /\ n * 100 <= Cap(t) * MaxLoadPct
  /\ Cap(t) = 0 \/ InitialCapacity <= Cap(t)

LEMMA LimitIsNat ==
  ASSUME HashTableAssumption, NEW t, Good(t)
  PROVE  \E x \in Nat : x = Cap(t) * MaxLoadPct
<1>1. Cap(t) \in Nat
  BY DEF Good, IsTable
<1>2. MaxLoadPct \in Nat
  BY DEF HashTableAssumption
<1>3. Cap(t) * MaxLoadPct \in Nat
  BY <1>1, <1>2
<1> QED
  BY <1>3

LEMMA LoadAfterGrowth ==
  ASSUME HashTableAssumption, NEW c \in Nat, NEW n \in Nat,
         InitialCapacity <= c, n * 100 <= c * MaxLoadPct
  PROVE  (n + 1) * 100 <= (2 * c) * MaxLoadPct
<1>1. MaxLoadPct \in Nat /\ InitialCapacity \in Nat /\ InitialCapacity * MaxLoadPct >= 100
  BY DEF HashTableAssumption
<1>2. c * MaxLoadPct >= InitialCapacity * MaxLoadPct
  BY <1>1
<1>3. PICK x \in Nat : x = c * MaxLoadPct
  BY <1>1
<1>4. (2 * c) * MaxLoadPct = 2 * x
  BY <1>1, <1>3
<1>5. PICK y \in Nat : y = InitialCapacity * MaxLoadPct
  BY <1>1
<1> QED
  BY <1>1, <1>2, <1>3, <1>4, <1>5

(* maybe_grow keeps the entries and leaves room for one more under the       *)
(* limit.                                                                    *)
LEMMA GrownIs ==
  ASSUME HashTableAssumption, NEW t, NEW n, InvOf(t, n)
  PROVE  /\ Good(Grown(t, n)) /\ Pairs(Grown(t, n)) = Pairs(t) /\ n \in Nat
         /\ n = Cardinality(Filled(Grown(t, n)))
         /\ (n + 1) * 100 <= Cap(Grown(t, n)) * MaxLoadPct
         /\ InitialCapacity <= Cap(Grown(t, n))
<1>1. /\ Good(t) /\ n = Cardinality(Filled(t)) /\ n * 100 <= Cap(t) * MaxLoadPct
      /\ Cap(t) = 0 \/ InitialCapacity <= Cap(t)
      /\ n \in Nat /\ n <= Cap(t) /\ Cap(t) \in Nat
  BY FilledFinite DEF InvOf, Good, IsTable
<1>2. /\ MaxLoadPct \in Nat /\ InitialCapacity \in Nat \ {0}
      /\ InitialCapacity * MaxLoadPct >= 100
  BY DEF HashTableAssumption
<1>3. CASE Cap(t) = 0
  <2>1. PICK g : g = EmptyTable(InitialCapacity)
    OBVIOUS
  <2>2. Grown(t, n) = g
    BY <2>1, <1>3 DEF Grown
  <2>3. Good(g) /\ Cap(g) = InitialCapacity /\ Filled(g) = {} /\ Pairs(g) = {}
    BY <2>1, <1>2, EmptyIsGood
  <2>4. Pairs(t) = {} /\ Filled(t) = {}
    <3>1. DOMAIN t = {}
      BY <1>1, <1>3 DEF Good, IsTable
    <3> QED
      BY <3>1 DEF Filled, Pairs
  <2>5. n = 0
    BY <1>1, <2>4, FS_EmptySet
  <2> QED
    BY <2>2, <2>3, <2>4, <2>5, <1>1, <1>2
<1>4. CASE Cap(t) # 0 /\ Overloaded(t, n)
  <2>1. PICK c \in Nat : c = 2 * Cap(t)
    BY <1>1
  <2>2. PICK g : g = Rehash(t, c)
    OBVIOUS
  <2>3. Grown(t, n) = g
    BY <2>1, <2>2, <1>4 DEF Grown
  <2>4. Cap(t) < c /\ InitialCapacity <= c
    BY <1>1, <1>2, <1>4, <2>1
  <2>5. Good(g) /\ Cap(g) = c /\ Pairs(g) = Pairs(t) /\ Cardinality(Filled(g)) = Cardinality(Filled(t))
    BY <1>1, <2>2, <2>4, Rehashed
  <2>6. (n + 1) * 100 <= c * MaxLoadPct
    BY <1>1, <1>4, <2>1, LoadAfterGrowth
  <2> QED
    BY <2>3, <2>4, <2>5, <2>6, <1>1
<1>5. CASE Cap(t) # 0 /\ ~ Overloaded(t, n)
  <2>1. Grown(t, n) = t
    BY <1>5 DEF Grown
  <2>2. (n + 1) * 100 <= Cap(t) * MaxLoadPct
    <3>1. PICK x \in Nat : x = Cap(t) * MaxLoadPct
      BY <1>1, <1>2
    <3> QED
      BY <3>1, <1>1, <1>5 DEF Overloaded
  <2> QED
    BY <2>1, <2>2, <1>1, <1>5
<1> QED
  BY <1>3, <1>4, <1>5

(* What one call does to the table and to the set of its entries.            *)
PutTo(t, n, k, v, overwrite, u, m) ==
  LET g == Grown(t, n)
      i == InsertSlot(g, k)
  IN \/ i = NoSlot /\ u = g /\ m = n
     \/ /\ i # NoSlot /\ Holds(g, i, k)
        /\ u = IF overwrite THEN [g EXCEPT ![i].val = v] ELSE g
        /\ m = n
     \/ /\ i # NoSlot /\ ~ Holds(g, i, k)
        /\ u = [g EXCEPT ![i] = AsEntry(k, v)]
        /\ m = n + 1

KeyIn(P, k) == \E e \in P : e.key = k
Replaced(P, k, v, Q) == \E e \in P : e.key = k /\ Q = (P \ {e}) \cup {AsEntry(k, v)}
PutPairs(P, k, v, overwrite, Q) ==
  \/ KeyIn(P, k) /\ ~ overwrite /\ Q = P
  \/ overwrite /\ Replaced(P, k, v, Q)
  \/ ~ KeyIn(P, k) /\ Q = P \cup {AsEntry(k, v)}

LEMMA KeyInIs ==
  ASSUME NEW t, NEW k
  PROVE  KeyIn(Pairs(t), k) <=> \E i \in DOMAIN t : Holds(t, i, k)
BY DEF KeyIn, Pairs, Filled, Holds

LEMMA PutKeeps ==
  ASSUME HashTableAssumption, NEW t, NEW n, InvOf(t, n), NEW k \in Keys, NEW v \in Values,
         NEW overwrite, NEW u, NEW m, PutTo(t, n, k, v, overwrite, u, m)
  PROVE  /\ InvOf(u, m)
         /\ \/ InsertSlot(Grown(t, n), k) = NoSlot /\ Pairs(u) = Pairs(t)
            \/ PutPairs(Pairs(t), k, v, overwrite, Pairs(u))
<1>1. PICK g : g = Grown(t, n)
  OBVIOUS
<1>2. PICK i : i = InsertSlot(g, k)
  OBVIOUS
<1>3. /\ Good(g) /\ Pairs(g) = Pairs(t) /\ n \in Nat /\ n = Cardinality(Filled(g))
      /\ (n + 1) * 100 <= Cap(g) * MaxLoadPct /\ InitialCapacity <= Cap(g)
      /\ n * 100 <= Cap(g) * MaxLoadPct
  <2>1. /\ Good(g) /\ Pairs(g) = Pairs(t) /\ n \in Nat /\ n = Cardinality(Filled(g))
        /\ (n + 1) * 100 <= Cap(g) * MaxLoadPct /\ InitialCapacity <= Cap(g)
    BY <1>1, GrownIs
  <2>2. PICK x \in Nat : x = Cap(g) * MaxLoadPct
    BY <2>1, LimitIsNat
  <2> QED
    BY <2>1, <2>2
<1>4. InvOf(g, n)
  BY <1>3 DEF InvOf
<1>5. CASE i = NoSlot /\ u = g /\ m = n
  BY <1>1, <1>2, <1>3, <1>4, <1>5
<1>6. CASE /\ i # NoSlot /\ Holds(g, i, k) /\ m = n
           /\ u = IF overwrite THEN [g EXCEPT ![i].val = v] ELSE g
  <2>1. i \in DOMAIN g /\ i \in Filled(g) /\ g[i].key = k
    BY <1>2, <1>3, <1>6, InsertSlotIs DEF Holds, Filled
  <2>2. KeyIn(Pairs(g), k)
    BY <2>1, <1>6, KeyInIs
  <2>3. CASE ~ overwrite
    BY <2>2, <2>3, <1>3, <1>4, <1>6 DEF PutPairs
  <2>4. CASE overwrite
    <3>1. PICK w : w = [g EXCEPT ![i].val = v]
      OBVIOUS
    <3>2. /\ Good(w) /\ Cap(w) = Cap(g) /\ Filled(w) = Filled(g)
          /\ Pairs(w) = (Pairs(g) \ {g[i]}) \cup {AsEntry(k, v)}
      <4>1. Overwrote([g EXCEPT ![i].val = v], g, i, AsEntry(k, v))
        BY <2>1, <1>3, <1>6, Overwritten
      <4> QED
        BY <3>1, <4>1 DEF Overwrote
    <3>3. InvOf(w, n)
      BY <3>2, <1>3 DEF InvOf
    <3>4. g[i] \in Pairs(g)
      BY <2>1 DEF Pairs
    <3>5. Replaced(Pairs(t), k, v, Pairs(w))
      BY <2>1, <3>2, <3>4, <1>3 DEF Replaced
    <3>6. u = w
      BY <3>1, <1>6, <2>4
    <3> QED
      BY <3>3, <3>5, <3>6, <1>6, <2>4 DEF PutPairs
  <2> QED
    BY <2>3, <2>4
<1>7. CASE i # NoSlot /\ ~ Holds(g, i, k) /\ u = [g EXCEPT ![i] = AsEntry(k, v)] /\ m = n + 1
  <2>1. i \in DOMAIN g /\ g[i] \notin Entry /\ Path(g, k, i) /\ Lacks(g, k)
    BY <1>2, <1>3, <1>7, InsertSlotIs
  <2>2. Wrote(u, g, i, AsEntry(k, v))
    BY <2>1, <1>3, <1>7, Written
  <2>3. /\ Good(u) /\ Cap(u) = Cap(g) /\ Filled(u) = Filled(g) \cup {i}
        /\ Pairs(u) = Pairs(g) \cup {AsEntry(k, v)}
    BY <2>2 DEF Wrote
  <2>4. i \notin Filled(g) /\ IsFiniteSet(Filled(g))
    BY <2>1, <1>3, FilledFinite DEF Filled
  <2>5. Cardinality(Filled(u)) = n + 1
    BY <2>3, <2>4, <1>3, FS_AddElement
  <2>6. InvOf(u, m)
    BY <2>3, <2>5, <1>3, <1>7 DEF InvOf
  <2>7. ~ KeyIn(Pairs(t), k)
    BY <2>1, <1>3, KeyInIs DEF Lacks
  <2> QED
    BY <2>3, <2>6, <2>7, <1>3 DEF PutPairs
<1> QED
  BY <1>1, <1>2, <1>5, <1>6, <1>7 DEF PutTo

LEMMA EraseKeeps ==
  ASSUME HashTableAssumption, NEW t, NEW n, InvOf(t, n), NEW k \in Keys,
         FindSlot(t, k) # NoSlot
  PROVE  /\ InvOf([t EXCEPT ![FindSlot(t, k)] = Tombstone], n - 1)
         /\ \E e \in Pairs(t) : /\ e.key = k
                                /\ Pairs([t EXCEPT ![FindSlot(t, k)] = Tombstone]) = Pairs(t) \ {e}
<1>1. PICK i : i = FindSlot(t, k)
  OBVIOUS
<1>2. PICK u : u = [t EXCEPT ![i] = Tombstone]
  OBVIOUS
<1>3. /\ Good(t) /\ n = Cardinality(Filled(t)) /\ n * 100 <= Cap(t) * MaxLoadPct
      /\ Cap(t) = 0 \/ InitialCapacity <= Cap(t)
  BY DEF InvOf
<1>4. i \in Filled(t) /\ t[i].key = k
  BY <1>1, <1>3, FindSlotIs DEF Holds, Filled
<1>5. Good(u) /\ Cap(u) = Cap(t) /\ Filled(u) = Filled(t) \ {i} /\ Pairs(u) = Pairs(t) \ {t[i]}
  BY <1>2, <1>3, <1>4, Erased
<1>6. Cardinality(Filled(u)) = n - 1 /\ n \in Nat
  <2>1. IsFiniteSet(Filled(t)) /\ n \in Nat
    BY <1>3, FilledFinite
  <2>2. Cardinality(Filled(t) \ {i}) = Cardinality(Filled(t)) - 1
    BY <1>4, <2>1, FS_RemoveElement
  <2> QED
    BY <1>3, <1>5, <2>1, <2>2
<1>7. (n - 1) * 100 <= Cap(t) * MaxLoadPct
  <2>1. PICK x \in Nat : x = Cap(t) * MaxLoadPct
    BY <1>3, LimitIsNat
  <2> QED
    BY <2>1, <1>3, <1>6
<1>8. InvOf(u, n - 1)
  BY <1>3, <1>5, <1>6, <1>7 DEF InvOf
<1>9. t[i] \in Pairs(t)
  BY <1>4 DEF Pairs
<1> QED
  BY <1>1, <1>2, <1>4, <1>5, <1>8, <1>9

LEMMA ClearKeeps ==
  ASSUME HashTableAssumption, NEW t, NEW n, InvOf(t, n)
  PROVE  InvOf(EmptyTable(Cap(t)), 0) /\ Pairs(EmptyTable(Cap(t))) = {}
<1>1. PICK c \in Nat : c = Cap(t)
  BY DEF InvOf, Good, IsTable
<1>2. PICK u : u = EmptyTable(c)
  OBVIOUS
<1>3. Good(u) /\ Cap(u) = c /\ Filled(u) = {} /\ Pairs(u) = {}
  BY <1>2, EmptyIsGood
<1>4. 0 * 100 <= c * MaxLoadPct
  <2>1. PICK x \in Nat : x = c * MaxLoadPct
    BY DEF HashTableAssumption
  <2> QED
    BY <2>1
<1> QED
  BY <1>1, <1>2, <1>3, <1>4, FS_EmptySet DEF InvOf
-----------------------------------------------------------------------------
(* The inductive invariant: a table in which no key has two filled slots and *)
(* the probe of every entry meets no empty slot before it, counted and       *)
(* within the limit, of no slots at all or of at least the initial capacity. *)
IInv == InvOf(slots, size)

LEMMA InvInit == ASSUME HashTableAssumption, Init PROVE IInv
<1>1. PICK t : t = EmptyTable(0)
  OBVIOUS
<1>2. Good(t) /\ Cap(t) = 0 /\ Filled(t) = {}
  BY <1>1, EmptyIsGood
<1>3. MaxLoadPct \in Nat
  BY DEF HashTableAssumption
<1>4. 0 * 100 <= 0 * MaxLoadPct
  BY <1>3
<1>5. Cardinality({}) = 0
  BY FS_EmptySet
<1>6. InvOf(t, 0)
  BY <1>2, <1>4, <1>5 DEF InvOf
<1> QED
  BY <1>1, <1>6 DEF Init, IInv

LEMMA PutsIsPutTo ==
  ASSUME NEW k \in Keys, NEW v \in Values, NEW overwrite, Puts(k, v, overwrite)
  PROVE  PutTo(slots, size, k, v, overwrite, slots', size')
BY DEF Puts, PutTo, AsEntry

(* What a call does to the invariant and to the set of entries.              *)
LEMMA PutsStep ==
  ASSUME HashTableAssumption, IInv, NEW k \in Keys, NEW v \in Values, NEW overwrite,
         Puts(k, v, overwrite)
  PROVE  /\ IInv'
         /\ \/ InsertSlot(Grown(slots, size), k) = NoSlot /\ Pairs(slots') = Pairs(slots)
            \/ PutPairs(Pairs(slots), k, v, overwrite, Pairs(slots'))
<1>1. PICK t : t = slots
  OBVIOUS
<1>2. PICK n : n = size
  OBVIOUS
<1>3. PICK u : u = slots'
  OBVIOUS
<1>4. PICK m : m = size'
  OBVIOUS
<1>5. InvOf(t, n)
  BY <1>1, <1>2 DEF IInv
<1>6. PutTo(t, n, k, v, overwrite, u, m)
  BY <1>1, <1>2, <1>3, <1>4, PutsIsPutTo
<1>7. /\ InvOf(u, m)
      /\ \/ InsertSlot(Grown(t, n), k) = NoSlot /\ Pairs(u) = Pairs(t)
         \/ PutPairs(Pairs(t), k, v, overwrite, Pairs(u))
  BY <1>5, <1>6, PutKeeps
<1> QED
  BY <1>1, <1>2, <1>3, <1>4, <1>7 DEF IInv

LEMMA EraseStep ==
  ASSUME HashTableAssumption, IInv, NEW k \in Keys, Erase(k)
  PROVE  IInv' /\ \E e \in Pairs(slots) : e.key = k /\ Pairs(slots') = Pairs(slots) \ {e}
<1>1. PICK t : t = slots
  OBVIOUS
<1>2. PICK n : n = size
  OBVIOUS
<1>3. PICK u : u = [t EXCEPT ![FindSlot(t, k)] = Tombstone]
  OBVIOUS
<1>4. FindSlot(t, k) # NoSlot /\ slots' = u /\ size' = n - 1
  BY <1>1, <1>2, <1>3 DEF Erase
<1>5. InvOf(t, n)
  BY <1>1, <1>2 DEF IInv
<1>6. InvOf(u, n - 1) /\ \E e \in Pairs(t) : e.key = k /\ Pairs(u) = Pairs(t) \ {e}
  BY <1>3, <1>4, <1>5, EraseKeeps
<1> QED
  BY <1>1, <1>4, <1>6 DEF IInv

LEMMA ClearStep ==
  ASSUME HashTableAssumption, IInv, Clear
  PROVE  IInv' /\ Pairs(slots') = {}
<1>1. PICK t : t = slots
  OBVIOUS
<1>2. PICK n : n = size
  OBVIOUS
<1>3. PICK u : u = EmptyTable(Cap(t))
  OBVIOUS
<1>4. slots' = u /\ size' = 0
  BY <1>1, <1>3 DEF Clear
<1>5. InvOf(t, n)
  BY <1>1, <1>2 DEF IInv
<1>6. InvOf(u, 0) /\ Pairs(u) = {}
  BY <1>3, <1>5, ClearKeeps
<1> QED
  BY <1>4, <1>6 DEF IInv

LEMMA DefaultIsValue == ASSUME HashTableAssumption PROVE Default \in Values
BY DEF HashTableAssumption

LEMMA InvNext == ASSUME HashTableAssumption, IInv, [Next]_vars PROVE IInv'
<1>1. ASSUME NEW k \in Keys, Subscript(k) PROVE IInv'
  <2>1. Puts(k, Default, FALSE)
    BY <1>1 DEF Subscript
  <2> QED
    BY <2>1, DefaultIsValue, PutsStep
<1>2. ASSUME NEW k \in Keys, NEW v \in Values, Insert(k, v) PROVE IInv'
  <2>1. Puts(k, v, FALSE)
    BY <1>2 DEF Insert
  <2> QED
    BY <2>1, PutsStep
<1>3. ASSUME NEW k \in Keys, NEW v \in Values, InsertOrAssign(k, v) PROVE IInv'
  <2>1. Puts(k, v, TRUE)
    BY <1>3 DEF InsertOrAssign
  <2> QED
    BY <2>1, PutsStep
<1>4. ASSUME NEW k \in Keys, Erase(k) PROVE IInv'
  BY <1>4, EraseStep
<1>5. ASSUME Clear PROVE IInv'
  BY <1>5, ClearStep
<1>6. ASSUME UNCHANGED vars PROVE IInv'
  BY <1>6 DEF vars, IInv
<1> QED
  BY <1>1, <1>2, <1>3, <1>4, <1>5, <1>6, Zenon DEF Next

(* In every reachable table each entry lies on an unbroken probe of its key, *)
(* no key twice, and the count and the load limit hold: unordered_map.hpp's  *)
(* growth, tombstone reuse and erase keep them.                              *)
THEOREM Safety == Spec => []IInv
<1>1. Init => IInv
  BY InvInit, HashTableAssumption
<1>2. IInv /\ [Next]_vars => IInv'
  BY InvNext, HashTableAssumption
<1> QED
  BY <1>1, <1>2, PTL DEF Spec

LEMMA InvExact == ASSUME HashTableAssumption, IInv PROVE TableExact
<1>1. PICK t : t = slots
  OBVIOUS
<1>2. /\ Good(t) /\ IsTable(t) /\ size = Cardinality(Filled(t))
      /\ size * 100 <= Cap(t) * MaxLoadPct
  BY <1>1 DEF IInv, InvOf, Good
<1>3. NoDuplicates
  BY <1>1, <1>2 DEF NoDuplicates, Good, Unique
<1>4. EntriesReachable
  <2>1. SUFFICES ASSUME NEW i \in Filled(t) PROVE FindSlot(t, t[i].key) = i
    BY <1>1 DEF EntriesReachable
  <2>2. PICK k \in Keys : k = t[i].key
    BY DEF Filled, Entry
  <2>3. i \in DOMAIN t /\ Holds(t, i, k)
    BY <2>2 DEF Filled, Holds
  <2> QED
    BY <2>2, <2>3, <1>2, Found
<1>5. SizeExact /\ LoadBounded
  BY <1>1, <1>2 DEF SizeExact, LoadBounded
<1> QED
  BY <1>3, <1>4, <1>5 DEF TableExact

LEMMA InvTyped == ASSUME HashTableAssumption, IInv PROVE TypeOK
<1>1. PICK t : t = slots
  OBVIOUS
<1>2. Good(t) /\ IsTable(t) /\ size = Cardinality(Filled(t))
  BY <1>1 DEF IInv, InvOf, Good
<1>3. size \in Nat
  BY <1>2, FilledFinite
<1>4. t \in [DOMAIN t -> Entry \cup {Empty, Tombstone}]
  BY <1>2 DEF IsTable, Slot
<1> QED
  BY <1>1, <1>2, <1>3, <1>4 DEF TypeOK, IsTable

(* The table is a function on 0..bucket_count-1 into slots, with a natural   *)
(* count: erase never counts below zero (unordered_map.hpp, _size).          *)
THEOREM TypeCorrect == Spec => []TypeOK
<1>1. IInv => TypeOK
  BY InvTyped, HashTableAssumption
<1> QED
  BY <1>1, Safety, PTL

(* Every key has one entry, its lookup finds it, size() counts the entries   *)
(* and they stay within the load limit: for any hash, any number of buckets  *)
(* and any history of growth, tombstone reuse and erase.                     *)
THEOREM MapExact == Spec => []TableExact
<1>1. IInv => TableExact
  BY InvExact, HashTableAssumption
<1> QED
  BY <1>1, Safety, PTL
-----------------------------------------------------------------------------
(* The partial function that a table spells out, as a function of the set of *)
(* its entries.                                                              *)
Mapping(P) == P \subseteq Entry /\ \A a, b \in P : a.key = b.key => a = b
KeysOf(P) == {e.key : e \in P}
AsFunction(P) == [k \in KeysOf(P) |-> (CHOOSE e \in P : e.key = k).val]
SpellsOut(f, P) ==
  /\ f = [k \in KeysOf(P) |-> f[k]]
  /\ \A e \in P : f[e.key] = e.val

LEMMA AsFunctionSpells == ASSUME NEW P, Mapping(P) PROVE SpellsOut(AsFunction(P), P)
<1>1. ASSUME NEW e \in P PROVE AsFunction(P)[e.key] = e.val
  <2>1. e.key \in KeysOf(P)
    BY DEF KeysOf
  <2>2. (CHOOSE a \in P : a.key = e.key) = e
    BY DEF Mapping
  <2> QED
    BY <2>1, <2>2 DEF AsFunction
<1>2. AsFunction(P) = [k \in KeysOf(P) |-> AsFunction(P)[k]]
  BY DEF AsFunction
<1> QED
  BY <1>1, <1>2 DEF SpellsOut

LEMMA SpellsSame ==
  ASSUME NEW P, NEW f, NEW g, SpellsOut(f, P), SpellsOut(g, P)
  PROVE  f = g
<1>1. ASSUME NEW k \in KeysOf(P) PROVE f[k] = g[k]
  BY DEF KeysOf, SpellsOut
<1>2. [k \in KeysOf(P) |-> f[k]] = [k \in KeysOf(P) |-> g[k]]
  BY <1>1
<1> QED
  BY <1>2 DEF SpellsOut

LEMMA PairsAreMapping == ASSUME NEW t, Good(t) PROVE Mapping(Pairs(t))
BY DEF Good, Unique, Pairs, Mapping, Filled

ContentOf(t) ==
  [k \in {t[i].key : i \in Filled(t)} |-> t[CHOOSE i \in Filled(t) : t[i].key = k].val]

LEMMA ContentSpells == ASSUME NEW t, Good(t) PROVE SpellsOut(ContentOf(t), Pairs(t))
<1>1. {t[i].key : i \in Filled(t)} = KeysOf(Pairs(t))
  BY DEF KeysOf, Pairs
<1>2. ASSUME NEW i \in Filled(t) PROVE ContentOf(t)[t[i].key] = t[i].val
  <2>1. (CHOOSE j \in Filled(t) : t[j].key = t[i].key) = i
    BY DEF Good, Unique
  <2> QED
    BY <2>1 DEF ContentOf
<1>3. \A e \in Pairs(t) : ContentOf(t)[e.key] = e.val
  BY <1>2 DEF Pairs
<1>4. ContentOf(t) = [k \in KeysOf(Pairs(t)) |-> ContentOf(t)[k]]
  BY <1>1 DEF ContentOf
<1> QED
  BY <1>3, <1>4 DEF SpellsOut

(* The function with an entry put in, overwritten or taken out.              *)
WithOf(f, k, v) == [j \in DOMAIN f \cup {k} |-> IF j = k THEN v ELSE f[j]]

LEMMA SpellsWith ==
  ASSUME NEW P, NEW f, SpellsOut(f, P), NEW k, NEW v, ~ KeyIn(P, k)
  PROVE  SpellsOut(WithOf(f, k, v), P \cup {AsEntry(k, v)})
<1>1. PICK Q : Q = P \cup {AsEntry(k, v)}
  OBVIOUS
<1>2. PICK g : g = WithOf(f, k, v)
  OBVIOUS
<1>3. DOMAIN f = KeysOf(P)
  BY DEF SpellsOut
<1>4. KeysOf(Q) = KeysOf(P) \cup {k}
  <2>1. AsEntry(k, v).key = k
    BY DEF AsEntry
  <2>2. \A e : e \in Q <=> e \in P \/ e = AsEntry(k, v)
    BY <1>1
  <2> QED
    BY <2>1, <2>2 DEF KeysOf
<1>5. g = [j \in KeysOf(Q) |-> g[j]]
  BY <1>2, <1>3, <1>4 DEF WithOf
<1>6. ASSUME NEW e \in Q PROVE g[e.key] = e.val
  <2>1. CASE e \in P
    <3>1. e.key # k /\ e.key \in DOMAIN f /\ f[e.key] = e.val
      BY <2>1, <1>3 DEF KeyIn, KeysOf, SpellsOut
    <3> QED
      BY <3>1, <1>2 DEF WithOf
  <2>2. CASE e = AsEntry(k, v)
    <3>1. e.key = k /\ e.val = v
      BY <2>2 DEF AsEntry
    <3> QED
      BY <3>1, <1>2 DEF WithOf
  <2> QED
    BY <2>1, <2>2, <1>1, <1>6
<1> QED
  BY <1>1, <1>2, <1>5, <1>6 DEF SpellsOut

LEMMA SpellsReplaced ==
  ASSUME NEW P, Mapping(P), NEW f, SpellsOut(f, P), NEW k, NEW v,
         NEW a \in P, a.key = k
  PROVE  SpellsOut(WithOf(f, k, v), (P \ {a}) \cup {AsEntry(k, v)})
<1>1. PICK Q : Q = (P \ {a}) \cup {AsEntry(k, v)}
  OBVIOUS
<1>2. PICK g : g = WithOf(f, k, v)
  OBVIOUS
<1>3. DOMAIN f = KeysOf(P)
  BY DEF SpellsOut
<1>4. KeysOf(Q) = KeysOf(P) \cup {k}
  <2>1. \A e \in P : e.key \in KeysOf(Q)
    <3>1. AsEntry(k, v) \in Q /\ AsEntry(k, v).key = k
      BY <1>1 DEF AsEntry
    <3>2. \A e \in P \ {a} : e \in Q
      BY <1>1
    <3> QED
      BY <3>1, <3>2 DEF KeysOf
  <2>2. \A e \in Q : e.key \in KeysOf(P) \cup {k}
    BY <1>1 DEF KeysOf, AsEntry
  <2>3. k \in KeysOf(Q)
    BY <2>1
  <2> QED
    BY <2>1, <2>2, <2>3 DEF KeysOf
<1>5. g = [j \in KeysOf(Q) |-> g[j]]
  BY <1>2, <1>3, <1>4 DEF WithOf
<1>6. ASSUME NEW e \in Q PROVE g[e.key] = e.val
  <2>1. CASE e \in P \ {a}
    <3>1. e.key # k /\ e.key \in DOMAIN f /\ f[e.key] = e.val
      BY <2>1, <1>3 DEF Mapping, KeysOf, SpellsOut
    <3> QED
      BY <3>1, <1>2 DEF WithOf
  <2>2. CASE e = AsEntry(k, v)
    <3>1. e.key = k /\ e.val = v
      BY <2>2 DEF AsEntry
    <3> QED
      BY <3>1, <1>2 DEF WithOf
  <2> QED
    BY <2>1, <2>2, <1>1, <1>6
<1> QED
  BY <1>1, <1>2, <1>5, <1>6 DEF SpellsOut

LEMMA SpellsWithout ==
  ASSUME NEW P, Mapping(P), NEW f, SpellsOut(f, P), NEW a \in P
  PROVE  SpellsOut(Restrict(f, DOMAIN f \ {a.key}), P \ {a})
<1>1. PICK Q : Q = P \ {a}
  OBVIOUS
<1>2. PICK g : g = Restrict(f, DOMAIN f \ {a.key})
  OBVIOUS
<1>3. DOMAIN f = KeysOf(P)
  BY DEF SpellsOut
<1>4. KeysOf(Q) = KeysOf(P) \ {a.key}
  BY <1>1 DEF KeysOf, Mapping
<1>5. g = [j \in KeysOf(Q) |-> g[j]]
  BY <1>2, <1>3, <1>4 DEF Restrict
<1>6. ASSUME NEW e \in Q PROVE g[e.key] = e.val
  <2>1. e.key \in KeysOf(Q) /\ f[e.key] = e.val
    BY <1>1, <1>6 DEF KeysOf, SpellsOut
  <2> QED
    BY <2>1, <1>2, <1>3, <1>4 DEF Restrict
<1> QED
  BY <1>1, <1>2, <1>5, <1>6 DEF SpellsOut
-----------------------------------------------------------------------------
(* Each call on the table is the call of its name on the function.           *)
LEMMA ContentIs ==
  /\ IInv => SpellsOut(Content, Pairs(slots)) /\ Mapping(Pairs(slots))
  /\ IInv' => SpellsOut(Content', Pairs(slots')) /\ Mapping(Pairs(slots'))
<1>1. Content = ContentOf(slots) /\ Content' = ContentOf(slots')
  BY DEF Content, ContentOf, EntryOf
<1>2. ASSUME IInv PROVE SpellsOut(Content, Pairs(slots)) /\ Mapping(Pairs(slots))
  <2>1. PICK t : t = slots
    OBVIOUS
  <2>2. Good(t)
    BY <1>2, <2>1 DEF IInv, InvOf
  <2>3. SpellsOut(ContentOf(t), Pairs(t)) /\ Mapping(Pairs(t))
    BY <2>2, ContentSpells, PairsAreMapping
  <2> QED
    BY <1>1, <2>1, <2>3
<1>3. ASSUME IInv' PROVE SpellsOut(Content', Pairs(slots')) /\ Mapping(Pairs(slots'))
  <2>1. PICK t : t = slots'
    OBVIOUS
  <2>2. Good(t)
    BY <1>3, <2>1 DEF IInv, InvOf
  <2>3. SpellsOut(ContentOf(t), Pairs(t)) /\ Mapping(Pairs(t))
    BY <2>2, ContentSpells, PairsAreMapping
  <2> QED
    BY <1>1, <2>1, <2>3
<1> QED
  BY <1>2, <1>3

(* What an insertion makes of the function.                                  *)
PutContent(f, k, v, overwrite, h) ==
  h = IF k \in DOMAIN f /\ ~ overwrite THEN f ELSE WithOf(f, k, v)

LEMMA PutSpells ==
  ASSUME NEW P, Mapping(P), NEW f, SpellsOut(f, P), NEW Q, NEW h, SpellsOut(h, Q),
         NEW k, NEW v, NEW overwrite, PutPairs(P, k, v, overwrite, Q)
  PROVE  PutContent(f, k, v, overwrite, h)
<1>1. k \in DOMAIN f <=> KeyIn(P, k)
  BY DEF SpellsOut, KeysOf, KeyIn
<1>2. CASE KeyIn(P, k) /\ ~ overwrite /\ Q = P
  <2>1. h = f
    BY <1>2, SpellsSame
  <2> QED
    BY <1>1, <1>2, <2>1 DEF PutContent
<1>3. CASE overwrite /\ Replaced(P, k, v, Q)
  <2>1. PICK a \in P : a.key = k /\ Q = (P \ {a}) \cup {AsEntry(k, v)}
    BY <1>3 DEF Replaced
  <2>2. SpellsOut(WithOf(f, k, v), Q)
    BY <2>1, SpellsReplaced
  <2>3. h = WithOf(f, k, v)
    BY <2>2, SpellsSame
  <2> QED
    BY <1>3, <2>3 DEF PutContent
<1>4. CASE ~ KeyIn(P, k) /\ Q = P \cup {AsEntry(k, v)}
  <2>1. SpellsOut(WithOf(f, k, v), Q)
    BY <1>4, SpellsWith
  <2>2. h = WithOf(f, k, v)
    BY <2>1, SpellsSame
  <2> QED
    BY <1>1, <1>4, <2>2 DEF PutContent
<1> QED
  BY <1>2, <1>3, <1>4 DEF PutPairs

LEMMA PutsContent ==
  ASSUME HashTableAssumption, IInv, NEW k \in Keys, NEW v \in Values, NEW overwrite,
         Puts(k, v, overwrite)
  PROVE  \/ InsertSlot(Grown(slots, size), k) = NoSlot /\ UNCHANGED Content
         \/ PutContent(Content, k, v, overwrite, Content')
<1>1. PICK P : P = Pairs(slots)
  OBVIOUS
<1>2. PICK Q : Q = Pairs(slots')
  OBVIOUS
<1>3. PICK f : f = Content
  OBVIOUS
<1>4. PICK h : h = Content'
  OBVIOUS
<1>5. /\ IInv'
      /\ \/ InsertSlot(Grown(slots, size), k) = NoSlot /\ Q = P
         \/ PutPairs(P, k, v, overwrite, Q)
  BY <1>1, <1>2, PutsStep
<1>6. SpellsOut(f, P) /\ Mapping(P) /\ SpellsOut(h, Q)
  BY <1>1, <1>2, <1>3, <1>4, <1>5, ContentIs
<1>7. CASE InsertSlot(Grown(slots, size), k) = NoSlot /\ Q = P
  <2>1. h = f
    BY <1>6, <1>7, SpellsSame
  <2> QED
    BY <1>3, <1>4, <1>7, <2>1
<1>8. CASE PutPairs(P, k, v, overwrite, Q)
  <2>1. PutContent(f, k, v, overwrite, h)
    BY <1>6, <1>8, PutSpells
  <2> QED
    BY <1>3, <1>4, <2>1
<1> QED
  BY <1>5, <1>7, <1>8

LEMMA PutContentIs ==
  ASSUME NEW k, NEW v
  PROVE  /\ PutContent(Content, k, v, FALSE, Content') => Dict!Insert(k, v)
         /\ PutContent(Content, k, v, TRUE, Content') => Dict!InsertOrAssign(k, v)
BY DEF PutContent, WithOf, Dict!Insert, Dict!InsertOrAssign, Dict!With

LEMMA InsertMaps ==
  ASSUME HashTableAssumption, IInv, NEW k \in Keys, NEW v \in Values, Insert(k, v)
  PROVE  \/ InsertSlot(Grown(slots, size), k) = NoSlot /\ UNCHANGED Content
         \/ Dict!Insert(k, v)
BY PutsContent, PutContentIs DEF Insert

LEMMA InsertOrAssignMaps ==
  ASSUME HashTableAssumption, IInv, NEW k \in Keys, NEW v \in Values, InsertOrAssign(k, v)
  PROVE  \/ InsertSlot(Grown(slots, size), k) = NoSlot /\ UNCHANGED Content
         \/ Dict!InsertOrAssign(k, v)
BY PutsContent, PutContentIs DEF InsertOrAssign

LEMMA SubscriptMaps ==
  ASSUME HashTableAssumption, IInv, NEW k \in Keys, Subscript(k)
  PROVE  \/ InsertSlot(Grown(slots, size), k) = NoSlot /\ UNCHANGED Content
         \/ Dict!Subscript(k)
<1>1. Insert(k, Default)
  BY DEF Insert, Subscript
<1>2. \/ InsertSlot(Grown(slots, size), k) = NoSlot /\ UNCHANGED Content
      \/ Dict!Insert(k, Default)
  BY <1>1, DefaultIsValue, InsertMaps
<1> QED
  BY <1>2 DEF Dict!Subscript

LEMMA EraseMaps ==
  ASSUME HashTableAssumption, IInv, NEW k \in Keys, Erase(k)
  PROVE  Dict!Erase(k)
<1>1. PICK P : P = Pairs(slots)
  OBVIOUS
<1>2. PICK Q : Q = Pairs(slots')
  OBVIOUS
<1>3. PICK f : f = Content
  OBVIOUS
<1>4. PICK h : h = Content'
  OBVIOUS
<1>5. IInv' /\ \E e \in P : e.key = k /\ Q = P \ {e}
  BY <1>1, <1>2, EraseStep
<1>6. SpellsOut(f, P) /\ Mapping(P) /\ SpellsOut(h, Q)
  BY <1>1, <1>2, <1>3, <1>4, <1>5, ContentIs
<1>7. PICK a \in P : a.key = k /\ Q = P \ {a}
  BY <1>5
<1>8. h = Restrict(f, DOMAIN f \ {k})
  <2>1. PICK g : g = Restrict(f, DOMAIN f \ {a.key})
    OBVIOUS
  <2>2. SpellsOut(g, Q)
    BY <1>6, <1>7, <2>1, SpellsWithout
  <2>3. h = g
    BY <1>6, <2>2, SpellsSame
  <2> QED
    BY <1>7, <2>1, <2>3
<1> QED
  BY <1>3, <1>4, <1>8 DEF Dict!Erase, Restrict, Dict!Restrict

LEMMA EmptySpells == ASSUME NEW f, SpellsOut(f, {}) PROVE f = [k \in {} |-> Default]
<1>1. KeysOf({}) = {}
  BY DEF KeysOf
<1>2. [k \in {} |-> f[k]] = [k \in {} |-> Default]
  OBVIOUS
<1> QED
  BY <1>1, <1>2 DEF SpellsOut

LEMMA ClearMaps ==
  ASSUME HashTableAssumption, IInv, Clear
  PROVE  Dict!Clear
<1>1. PICK h : h = Content'
  OBVIOUS
<1>2. SpellsOut(h, {})
  BY <1>1, ClearStep, ContentIs
<1> QED
  BY <1>1, <1>2, EmptySpells DEF Dict!Clear

LEMMA InitMaps == ASSUME HashTableAssumption, Init PROVE Dict!Init
<1>1. PICK f : f = Content
  OBVIOUS
<1>2. Pairs(slots) = {}
  BY EmptyIsGood DEF Init
<1>3. SpellsOut(f, {})
  BY <1>1, <1>2, InvInit, ContentIs
<1> QED
  BY <1>1, <1>3, EmptySpells DEF Dict!Init

LEMMA StepMaps ==
  ASSUME HashTableAssumption, IInv, [Next]_vars
  PROVE  MapStep
<1>1. ASSUME NEW k \in Keys, Subscript(k) PROVE MapStep
  BY <1>1, SubscriptMaps DEF MapStep, Dict!Next
<1>2. ASSUME NEW k \in Keys, NEW v \in Values, Insert(k, v) PROVE MapStep
  BY <1>2, InsertMaps DEF MapStep, Dict!Next
<1>3. ASSUME NEW k \in Keys, NEW v \in Values, InsertOrAssign(k, v) PROVE MapStep
  BY <1>3, InsertOrAssignMaps DEF MapStep, Dict!Next
<1>4. ASSUME NEW k \in Keys, Erase(k) PROVE MapStep
  BY <1>4, EraseMaps DEF MapStep, Dict!Next
<1>5. ASSUME Clear PROVE MapStep
  BY <1>5, ClearMaps DEF MapStep, Dict!Next
<1>6. ASSUME UNCHANGED vars PROVE MapStep
  BY <1>6 DEF vars, MapStep, Content, EntryOf, Filled
<1> QED
  BY <1>1, <1>2, <1>3, <1>4, <1>5, <1>6, Zenon DEF Next

LEMMA CallsMap == ASSUME HashTableAssumption, IInv PROVE CallsMatch
<1>1. Clear => Dict!Clear
  BY ClearMaps
<1>2. ASSUME NEW k \in Keys
      PROVE  /\ Erase(k) => Dict!Erase(k)
             /\ InsertSlot(Grown(slots, size), k) # NoSlot =>
                  /\ Subscript(k) => Dict!Subscript(k)
                  /\ \A v \in Values :
                       /\ Insert(k, v) => Dict!Insert(k, v)
                       /\ InsertOrAssign(k, v) => Dict!InsertOrAssign(k, v)
  BY EraseMaps, SubscriptMaps, InsertMaps, InsertOrAssignMaps
<1> QED
  BY <1>1, <1>2 DEF CallsMatch

(* unordered_map is a partial function from keys to values, and insert,      *)
(* insert_or_assign, operator[], erase and clear do to it what their names   *)
(* say whenever the walk of insert_slot ends (unordered_map.hpp).            *)
THEOREM ImplementsMap == Spec => MapBehaves
<1>1. Init => Dict!Init
  BY InitMaps, HashTableAssumption
<1>2. IInv /\ [Next]_vars => [UNCHANGED vars \/ (MapStep /\ CallsMatch)]_vars
  BY StepMaps, CallsMap, HashTableAssumption
<1> QED
  BY <1>1, <1>2, Safety, PTL DEF Spec, MapBehaves
-----------------------------------------------------------------------------
(* unordered_set is the table of entries that all have one value.            *)
HS == INSTANCE HashSet WITH NoValue <- Default, bucket <- slots, count <- size

(* Rehash with the set of entries as a parameter: the tables differ in it.   *)
RehashOf(E, t, n) ==
  LET Moved[i \in 0..Cap(t)] ==
        IF i = 0 THEN EmptyTable(n)
        ELSE IF t[i - 1] \in E THEN Place(Moved[i - 1], t[i - 1]) ELSE Moved[i - 1]
  IN Moved[Cap(t)]

LEMMA SetBasics ==
  ASSUME Values = {Default}
  PROVE  /\ HS!Table!Entry = Entry
         /\ \A t : HS!Table!Cap(t) = Cap(t)
         /\ \A n : HS!Table!EmptyTable(n) = EmptyTable(n)
         /\ HS!Table!NoSlot = NoSlot
         /\ \A S : HS!Table!Min(S) = Min(S)
<1>1. HS!Table!Entry = Entry
  BY DEF HS!Table!Entry, Entry
<1>2. \A t : HS!Table!Cap(t) = Cap(t)
  BY SMT DEF HS!Table!Cap, Cap, HS!Table!Cardinality, Cardinality
<1>3. \A n : HS!Table!EmptyTable(n) = EmptyTable(n)
  BY DEF HS!Table!EmptyTable, EmptyTable
<1>4. HS!Table!NoSlot = NoSlot
  BY DEF HS!Table!NoSlot, NoSlot
<1>5. ASSUME NEW S PROVE HS!Table!Min(S) = Min(S)
  BY DEF HS!Table!Min, Min
<1> QED
  BY <1>1, <1>2, <1>3, <1>4, <1>5

LEMMA SetProbes ==
  ASSUME Values = {Default}, NEW t, NEW k
  PROVE  /\ \A i : HS!Table!Holds(t, i, k) <=> Holds(t, i, k)
         /\ HS!Table!Filled(t) = Filled(t)
         /\ HS!Table!Stops(t, k) = Stops(t, k)
         /\ HS!Table!Stop(t, k) = Stop(t, k)
         /\ HS!Table!FindSlot(t, k) = FindSlot(t, k)
         /\ HS!Table!InsertSlot(t, k) = InsertSlot(t, k)
<1>1. \A i : HS!Table!Holds(t, i, k) <=> Holds(t, i, k)
  BY SetBasics DEF HS!Table!Holds, Holds
<1>2. HS!Table!Filled(t) = Filled(t)
  BY SetBasics DEF HS!Table!Filled, Filled
<1>3. \A p : HS!Table!Probe(t, k, p) = Probe(t, k, p)
  BY SetBasics DEF HS!Table!Probe, Probe
<1>4. HS!Table!Steps(t) = Steps(t)
  BY SetBasics DEF HS!Table!Steps, Steps
<1>5. HS!Table!Stops(t, k) = Stops(t, k)
  BY <1>1, <1>3, <1>4 DEF HS!Table!Stops, Stops
<1>6. HS!Table!Stop(t, k) = Stop(t, k)
  BY <1>3, <1>5, SetBasics DEF HS!Table!Stop, Stop
<1>7. HS!Table!FindSlot(t, k) = FindSlot(t, k)
  BY <1>1, <1>5, <1>6, SetBasics DEF HS!Table!FindSlot, FindSlot
<1>8. HS!Table!Passed(t, k) = Passed(t, k)
  BY <1>3, <1>5, SetBasics DEF HS!Table!Passed, Passed
<1>9. HS!Table!InsertSlot(t, k) = InsertSlot(t, k)
  BY <1>1, <1>3, <1>5, <1>6, <1>8, SetBasics DEF HS!Table!InsertSlot, InsertSlot
<1> QED
  BY <1>1, <1>2, <1>5, <1>6, <1>7, <1>9

LEMMA SetPlaces ==
  ASSUME NEW t, NEW n
  PROVE  /\ HS!Table!Rehash(t, n) = RehashOf(HS!Table!Entry, t, n)
         /\ Rehash(t, n) = RehashOf(Entry, t, n)
<1>1. Rehash(t, n) = RehashOf(Entry, t, n)
  BY DEF Rehash, RehashOf
<1>2. HS!Table!Rehash(t, n) = RehashOf(HS!Table!Entry, t, n)
  BY DEF HS!Table!Rehash, RehashOf, HS!Table!Cap, Cap, HS!Table!Cardinality, Cardinality,
     HS!Table!EmptyTable, EmptyTable, HS!Table!Place, Place, HS!Table!Steps, Steps, HS!Table!Probe, Probe,
     HS!Table!Min, Min
<1> QED
  BY <1>1, <1>2

LEMMA SetGrows ==
  ASSUME Values = {Default}
  PROVE  \A t, n : HS!Table!Grown(t, n) = Grown(t, n)
<1>1. ASSUME NEW t, NEW n PROVE HS!Table!Rehash(t, n) = Rehash(t, n)
  BY SetPlaces, SetBasics
<1>2. \A t, n : HS!Table!Overloaded(t, n) <=> Overloaded(t, n)
  BY SetBasics DEF HS!Table!Overloaded, Overloaded
<1> QED
  BY <1>1, <1>2, SetBasics DEF HS!Table!Grown, Grown

LEMMA SetCalls ==
  ASSUME Values = {Default}
  PROVE  /\ HS!Init <=> Init
         /\ \A k : HS!Insert(k) <=> Insert(k, Default)
         /\ \A k : HS!Erase(k) <=> Erase(k)
         /\ HS!Clear <=> Clear
<1>1. HS!Init <=> Init
  BY SetBasics DEF HS!Init, HS!Table!Init, Init
<1>2. ASSUME NEW k PROVE HS!Insert(k) <=> Insert(k, Default)
  <2>1. HS!Table!Grown(slots, size) = Grown(slots, size)
    BY SetGrows
  <2>2. PICK t : t = Grown(slots, size)
    OBVIOUS
  <2>3. PICK i : i = InsertSlot(t, k)
    OBVIOUS
  <2>4. /\ HS!Table!InsertSlot(t, k) = i /\ HS!Table!Cap(t) = Cap(t)
        /\ HS!Table!Holds(t, i, k) <=> Holds(t, i, k)
        /\ HS!Table!NoSlot = NoSlot
    BY <2>3, SetProbes, SetBasics
  <2> QED
    BY <2>1, <2>2, <2>3, <2>4 DEF HS!Insert, HS!Table!Insert, HS!Table!Puts, Insert, Puts
<1>3. ASSUME NEW k PROVE HS!Erase(k) <=> Erase(k)
  BY SetProbes, SetBasics DEF HS!Erase, HS!Table!Erase, Erase
<1>4. HS!Clear <=> Clear
  BY SetBasics DEF HS!Clear, HS!Table!Clear, Clear
<1> QED
  BY <1>1, <1>2, <1>3, <1>4

(* Every call of unordered_set is one of unordered_map that puts, erases or  *)
(* clears, so the invariant of the table holds of it too.                    *)
LEMMA SetSafe == ASSUME Values = {Default} PROVE HS!Spec => []IInv
<1>1. HS!Init => IInv
  BY SetCalls, InvInit, HashTableAssumption
<1>2. ASSUME IInv, [HS!Next]_HS!vars PROVE IInv'
  <2>1. ASSUME NEW k \in Keys, HS!Insert(k) PROVE IInv'
    <3>1. Puts(k, Default, FALSE)
      BY <2>1, SetCalls DEF Insert
    <3> QED
      BY <1>2, <3>1, DefaultIsValue, PutsStep, HashTableAssumption
  <2>2. ASSUME NEW k \in Keys, HS!Erase(k) PROVE IInv'
    <3>1. Erase(k)
      BY <2>2, SetCalls
    <3> QED
      BY <1>2, <3>1, EraseStep, HashTableAssumption
  <2>3. ASSUME HS!Clear PROVE IInv'
    <3>1. Clear
      BY <2>3, SetCalls
    <3> QED
      BY <1>2, <3>1, ClearStep, HashTableAssumption
  <2>4. ASSUME UNCHANGED HS!vars PROVE IInv'
    BY <1>2, <2>4 DEF HS!vars, IInv
  <2> QED
    BY <1>2, <2>1, <2>2, <2>3, <2>4, Zenon DEF HS!Next
<1> QED
  BY <1>1, <1>2, PTL DEF HS!Spec

(* unordered_set: no key is in two slots, every key is found by its lookup,  *)
(* and size() counts them, for any hash and any history of growth, reuse of  *)
(* tombstones and erasures.  The set's slots have no value: one for all.     *)
THEOREM SetLookups ==
  ASSUME Values = {Default} PROVE HS!Spec => [](HS!TypeOK /\ HS!LookupsExact)
<1>1. ASSUME IInv PROVE HS!TypeOK /\ HS!LookupsExact
  <2>1. TypeOK /\ TableExact
    BY <1>1, InvTyped, InvExact, HashTableAssumption
  <2>2. \A t : HS!Table!Filled(t) = Filled(t)
    BY SetProbes
  <2>3. HS!TypeOK
    BY <2>1, <2>2, SetBasics DEF HS!TypeOK, HS!Table!TypeOK, TypeOK, HS!Table!SizeExact, SizeExact,
       TableExact, HS!Table!Cardinality, Cardinality
  <2>4. HS!LookupsExact
    <3>1. \A t, k : HS!Table!FindSlot(t, k) = FindSlot(t, k)
      BY SetProbes
    <3> QED
      BY <2>1, <2>2, <3>1 DEF HS!LookupsExact, HS!Table!NoDuplicates, NoDuplicates,
         HS!Table!EntriesReachable, EntriesReachable, TableExact
  <2> QED
    BY <2>3, <2>4
<1> QED
  BY <1>1, SetSafe, PTL

(* The keys that a lookup finds are those of the entries. *)
MembersOf(t) == {k \in Keys : FindSlot(t, k) # NoSlot}

LEMMA MembersAre ==
  ASSUME HashTableAssumption, NEW t, Good(t)
  PROVE  MembersOf(t) = {k \in Keys : KeyIn(Pairs(t), k)}
<1>1. ASSUME NEW k \in Keys PROVE FindSlot(t, k) # NoSlot <=> KeyIn(Pairs(t), k)
  <2>1. ASSUME FindSlot(t, k) # NoSlot PROVE KeyIn(Pairs(t), k)
    BY <2>1, FindSlotIs, KeyInIs
  <2>2. ASSUME FindSlot(t, k) = NoSlot PROVE ~ KeyIn(Pairs(t), k)
    BY <2>2, NotFound, KeyInIs DEF Lacks
  <2> QED
    BY <2>1, <2>2
<1> QED
  BY <1>1 DEF MembersOf

LEMMA SetInserts ==
  ASSUME HashTableAssumption, IInv, NEW k \in Keys, Insert(k, Default)
  PROVE  MembersOf(slots') = IF InsertSlot(Grown(slots, size), k) = NoSlot THEN MembersOf(slots)
                             ELSE MembersOf(slots) \cup {k}
<1>1. PICK t : t = slots
  OBVIOUS
<1>2. PICK u : u = slots'
  OBVIOUS
<1>3. Puts(k, Default, FALSE)
  BY DEF Insert
<1>4. /\ IInv'
      /\ \/ InsertSlot(Grown(slots, size), k) = NoSlot /\ Pairs(u) = Pairs(t)
         \/ PutPairs(Pairs(t), k, Default, FALSE, Pairs(u))
  BY <1>1, <1>2, <1>3, DefaultIsValue, PutsStep
<1>5. Good(t) /\ Good(u)
  BY <1>1, <1>2, <1>4 DEF IInv, InvOf
<1>6. /\ MembersOf(t) = {j \in Keys : KeyIn(Pairs(t), j)}
      /\ MembersOf(u) = {j \in Keys : KeyIn(Pairs(u), j)}
  BY <1>5, MembersAre
<1>7. CASE InsertSlot(Grown(slots, size), k) = NoSlot
  <2>1. u = Grown(slots, size)
    BY <1>2, <1>3, <1>7 DEF Puts
  <2>2. Pairs(u) = Pairs(t)
    <3>1. PICK n : n = size
      OBVIOUS
    <3>2. InvOf(t, n)
      BY <1>1, <3>1 DEF IInv
    <3>3. Pairs(Grown(t, n)) = Pairs(t)
      BY <3>2, GrownIs
    <3> QED
      BY <1>1, <2>1, <3>1, <3>3
  <2> QED
    BY <1>1, <1>2, <1>6, <1>7, <2>2
<1>8. CASE InsertSlot(Grown(slots, size), k) # NoSlot
  <2>1. \A j : KeyIn(Pairs(u), j) <=> KeyIn(Pairs(t), j) \/ j = k
    <3>1. CASE KeyIn(Pairs(t), k) /\ Pairs(u) = Pairs(t)
      BY <3>1
    <3>2. CASE Pairs(u) = Pairs(t) \cup {AsEntry(k, Default)}
      <4>1. AsEntry(k, Default).key = k
        BY DEF AsEntry
      <4> QED
        BY <3>2, <4>1 DEF KeyIn
    <3> QED
      BY <1>4, <1>8, <3>1, <3>2 DEF PutPairs
  <2> QED
    BY <1>1, <1>2, <1>6, <1>8, <2>1
<1> QED
  BY <1>7, <1>8

LEMMA SetErases ==
  ASSUME HashTableAssumption, IInv, NEW k \in Keys, Erase(k)
  PROVE  k \in MembersOf(slots) /\ MembersOf(slots') = MembersOf(slots) \ {k}
<1>1. PICK t : t = slots
  OBVIOUS
<1>2. PICK u : u = slots'
  OBVIOUS
<1>3. IInv' /\ \E e \in Pairs(t) : e.key = k /\ Pairs(u) = Pairs(t) \ {e}
  BY <1>1, <1>2, EraseStep
<1>4. Good(t) /\ Good(u)
  BY <1>1, <1>2, <1>3 DEF IInv, InvOf
<1>5. /\ MembersOf(t) = {j \in Keys : KeyIn(Pairs(t), j)}
      /\ MembersOf(u) = {j \in Keys : KeyIn(Pairs(u), j)}
  BY <1>4, MembersAre
<1>6. PICK e \in Pairs(t) : e.key = k /\ Pairs(u) = Pairs(t) \ {e}
  BY <1>3
<1>7. \A a, b \in Pairs(t) : a.key = b.key => a = b
  BY <1>4, PairsAreMapping DEF Mapping
<1>8. \A j : KeyIn(Pairs(u), j) <=> KeyIn(Pairs(t), j) /\ j # k
  BY <1>6, <1>7 DEF KeyIn
<1>9. KeyIn(Pairs(t), k)
  BY <1>6 DEF KeyIn
<1> QED
  BY <1>1, <1>2, <1>5, <1>8, <1>9

LEMMA SetClears ==
  ASSUME HashTableAssumption, IInv, Clear
  PROVE  MembersOf(slots') = {}
<1>1. PICK u : u = slots'
  OBVIOUS
<1>2. IInv' /\ Pairs(u) = {}
  BY <1>1, ClearStep
<1>3. Good(u)
  BY <1>1, <1>2 DEF IInv, InvOf
<1>4. MembersOf(u) = {j \in Keys : KeyIn(Pairs(u), j)}
  BY <1>3, MembersAre
<1> QED
  BY <1>1, <1>2, <1>4 DEF KeyIn

(* unordered_set is a set: insert adds its key, or nothing when the walk of  *)
(* insert_slot does not end, erase takes its key, clear takes all.           *)
THEOREM UnorderedSetBehaves ==
  ASSUME Values = {Default} PROVE HS!Spec => HS!BehavesLikeSet
<1>1. HS!Members = MembersOf(slots) /\ HS!Members' = MembersOf(slots')
  <2>1. \A t, k : HS!Table!FindSlot(t, k) = FindSlot(t, k)
    BY SetProbes
  <2> QED
    BY <2>1, SetBasics DEF HS!Members, HS!FindSlot, MembersOf
<1>2. ASSUME IInv, HS!Clear PROVE HS!Members' = {}
  BY <1>1, <1>2, SetCalls, SetClears, HashTableAssumption
<1>3. ASSUME IInv, NEW k \in Keys, HS!Insert(k)
      PROVE  HS!Members' = IF HS!InsertSlot(k) = HS!Table!NoSlot THEN HS!Members
                           ELSE HS!Members \cup {k}
  <2>1. Insert(k, Default)
    BY <1>3, SetCalls
  <2>2. HS!InsertSlot(k) = InsertSlot(Grown(slots, size), k) /\ HS!Table!NoSlot = NoSlot
    BY SetGrows, SetProbes, SetBasics DEF HS!InsertSlot, HS!Grown
  <2> QED
    BY <1>1, <1>3, <2>1, <2>2, SetInserts, HashTableAssumption
<1>4. ASSUME IInv, NEW k \in Keys, HS!Erase(k)
      PROVE  k \in HS!Members /\ HS!Members' = HS!Members \ {k}
  <2>1. Erase(k)
    BY <1>4, SetCalls
  <2> QED
    BY <1>1, <1>4, <2>1, SetErases, HashTableAssumption
<1>5. IInv =>
        [/\ HS!Clear => HS!Members' = {}
         /\ \A k \in Keys :
              /\ HS!Insert(k) => HS!Members' = IF HS!InsertSlot(k) = HS!Table!NoSlot THEN HS!Members
                                               ELSE HS!Members \cup {k}
              /\ HS!Erase(k) => k \in HS!Members /\ HS!Members' = HS!Members \ {k}]_HS!vars
  BY <1>2, <1>3, <1>4, Zenon
<1> QED
  BY <1>5, SetSafe, PTL DEF HS!BehavesLikeSet
-----------------------------------------------------------------------------
(* Tables in which a key may have several entries.  What matters of such a   *)
(* table is how many times it holds each entry.                              *)
Loose(t) == IsTable(t) /\ Reached(t)
Times(t, e) == Cardinality({i \in DOMAIN t : t[i] = e})
SameTimes(t, u) == \A e \in Entry : Times(u, e) = Times(t, e)
OneMore(t, u, a) == \A e \in Entry : Times(u, e) = Times(t, e) + (IF e = a THEN 1 ELSE 0)

LEMMA TableFinite ==
  ASSUME NEW t, IsTable(t)
  PROVE  /\ IsFiniteSet(DOMAIN t) /\ IsFiniteSet(Filled(t))
         /\ Cardinality(Filled(t)) \in Nat /\ Cardinality(Filled(t)) <= Cap(t)
         /\ \A e : Times(t, e) \in Nat
<1>1. DOMAIN t = 0..(Cap(t) - 1) /\ Cap(t) \in Nat
  BY DEF IsTable
<1>2. IsFiniteSet(DOMAIN t)
  BY <1>1, FS_Interval
<1>3. Filled(t) \subseteq DOMAIN t
  BY DEF Filled
<1>4. ASSUME NEW e PROVE Times(t, e) \in Nat
  <2>1. PICK S : S = {i \in DOMAIN t : t[i] = e}
    OBVIOUS
  <2>2. S \in SUBSET (DOMAIN t)
    BY <2>1
  <2>3. Cardinality(S) \in Nat
    BY <1>2, <2>2, FS_Subset, FS_CardinalityType
  <2> QED
    BY <2>1, <2>3 DEF Times
<1> QED
  BY <1>2, <1>3, <1>4, FS_Subset, FS_CardinalityType DEF Cap

(* An entry in the place of what is none is there once more. *)
LEMMA TimesWritten ==
  ASSUME NEW t, IsTable(t), NEW i \in DOMAIN t, t[i] \notin Entry, NEW a \in Entry,
         NEW u, DOMAIN u = DOMAIN t, u[i] = a, Same(t, u, i)
  PROVE  OneMore(t, u, a)
<1>1. SUFFICES ASSUME NEW e \in Entry
               PROVE  Times(u, e) = Times(t, e) + (IF e = a THEN 1 ELSE 0)
  BY DEF OneMore
<1>2. PICK S : S = {j \in DOMAIN t : t[j] = e}
  OBVIOUS
<1>3. PICK R : R = {j \in DOMAIN u : u[j] = e}
  OBVIOUS
<1>4. IsFiniteSet(S) /\ Cardinality(S) \in Nat
  <2>1. IsFiniteSet(DOMAIN t) /\ S \in SUBSET (DOMAIN t)
    BY <1>2, TableFinite
  <2> QED
    BY <2>1, FS_Subset, FS_CardinalityType
<1>5. Times(t, e) = Cardinality(S) /\ Times(u, e) = Cardinality(R)
  BY <1>2, <1>3 DEF Times
<1>6. i \notin S
  BY <1>2
<1>7. CASE e = a
  <2>1. R = S \cup {i}
    BY <1>2, <1>3, <1>7 DEF Same
  <2>2. Cardinality(R) = Cardinality(S) + 1
    BY <1>4, <1>6, <2>1, FS_AddElement
  <2> QED
    BY <1>5, <1>7, <2>2
<1>8. CASE e # a
  <2>1. R = S
    BY <1>2, <1>3, <1>8 DEF Same
  <2> QED
    BY <1>4, <1>5, <1>8, <2>1
<1> QED
  BY <1>7, <1>8

Laid(w, t, i, a) ==
  /\ Loose(w) /\ Cap(w) = Cap(t) /\ DOMAIN w = DOMAIN t /\ w[i] = a /\ Same(t, w, i)
  /\ Filled(w) = Filled(t) \cup {i} /\ Cardinality(Filled(w)) = Cardinality(Filled(t)) + 1
  /\ OneMore(t, w, a)

LEMMA LooseWritten ==
  ASSUME HashTableAssumption, NEW t, Loose(t), NEW k \in Keys, NEW v \in Values,
         NEW i \in DOMAIN t, t[i] \notin Entry, Path(t, k, i)
  PROVE  Laid([t EXCEPT ![i] = AsEntry(k, v)], t, i, AsEntry(k, v))
<1>1. PICK e : e = AsEntry(k, v)
  OBVIOUS
<1>2. e \in Entry /\ e \in Slot /\ e.key = k
  BY <1>1 DEF AsEntry, Entry, Slot
<1>3. PICK u : u = [t EXCEPT ![i] = e]
  OBVIOUS
<1>4. IsTable(t)
  BY DEF Loose
<1>5. IsTable(u) /\ DOMAIN u = DOMAIN t /\ Cap(u) = Cap(t) /\ u[i] = e /\ Same(t, u, i)
  BY <1>2, <1>3, <1>4, WriteIsTable
<1>6. Filled(u) = Filled(t) \cup {i} /\ i \notin Filled(t)
  BY <1>2, <1>5 DEF Filled, Same
<1>7. Reached(u)
  <2>1. SUFFICES ASSUME NEW a \in Filled(u) PROVE Path(u, u[a].key, a)
    BY DEF Reached
  <2>2. u[a].key \in Keys /\ u[a].key = IF a = i THEN k ELSE t[a].key
    BY <1>2, <1>5, <1>6 DEF Filled, Entry, Same
  <2>3. PICK c \in Keys : c = u[a].key
    BY <2>2
  <2>4. Path(t, c, a)
    BY <2>2, <2>3, <1>6 DEF Loose, Reached
  <2>5. ASSUME NEW p \in Steps(t), u[Probe(t, c, p)] = Empty PROVE t[Probe(t, c, p)] = Empty
    <3>1. Probe(t, c, p) \in DOMAIN t
      BY <1>4, ProbeInTable
    <3> QED
      BY <3>1, <2>5, <1>2, <1>5, SlotKinds DEF Same
  <2> QED
    BY <2>3, <2>4, <2>5, <1>5, PathStays
<1>8. OneMore(t, u, e)
  BY <1>2, <1>4, <1>5, TimesWritten
<1>9. Cardinality(Filled(u)) = Cardinality(Filled(t)) + 1
  BY <1>4, <1>6, TableFinite, FS_AddElement
<1> QED
  BY <1>1, <1>3, <1>5, <1>6, <1>7, <1>8, <1>9 DEF Loose, Laid

(* A table with fewer entries than slots has a free slot on every probe, and *)
(* the first of them is reached.                                             *)
FreeSteps(t, k) == {p \in Steps(t) : t[Probe(t, k, p)] \notin Entry}

LEMMA FirstFree ==
  ASSUME HashTableAssumption, NEW t, Loose(t), Cardinality(Filled(t)) < Cap(t), NEW k \in Keys
  PROVE  /\ FreeSteps(t, k) # {}
         /\ Probe(t, k, Min(FreeSteps(t, k))) \in DOMAIN t
         /\ t[Probe(t, k, Min(FreeSteps(t, k)))] \notin Entry
         /\ Path(t, k, Probe(t, k, Min(FreeSteps(t, k))))
<1>1. IsTable(t) /\ Filled(t) \subseteq DOMAIN t
  BY DEF Loose, Filled
<1>2. PICK a \in DOMAIN t : a \notin Filled(t)
  <2>1. CASE Filled(t) = DOMAIN t
    BY <2>1, <1>1 DEF Cap, IsTable
  <2> QED
    BY <2>1, <1>1
<1>3. t[a] \notin Entry
  BY <1>2 DEF Filled
<1>4. PICK F : F = FreeSteps(t, k)
  OBVIOUS
<1>5. F # {} /\ F \subseteq Nat
  <2>1. PICK p \in Steps(t) : Probe(t, k, p) = a
    BY <1>1, ProbeReaches
  <2>2. p \in F
    BY <1>3, <1>4, <2>1 DEF FreeSteps
  <2>3. F \subseteq Nat
    BY <1>1, <1>4, ProbeInTable DEF FreeSteps
  <2> QED
    BY <2>2, <2>3
<1>6. PICK m : m = Min(F)
  OBVIOUS
<1>7. m \in F /\ \A q \in F : m <= q
  BY <1>5, <1>6, MinIs
<1>8. /\ m \in Steps(t) /\ m \in Nat
      /\ Probe(t, k, m) \in DOMAIN t /\ t[Probe(t, k, m)] \notin Entry
  BY <1>1, <1>4, <1>7, ProbeInTable DEF FreeSteps
<1>9. ASSUME NEW q \in Steps(t), q < m PROVE t[Probe(t, k, q)] # Empty
  <2>1. q \in Nat /\ q \notin F
    <3>1. q \in Nat
      BY <1>1, ProbeInTable
    <3> QED
      BY <1>7, <1>8, <1>9, <3>1
  <2> QED
    BY <1>4, <2>1, SlotKinds DEF FreeSteps
<1>10. Path(t, k, Probe(t, k, m))
  BY <1>8, <1>9 DEF Path
<1> QED
  BY <1>4, <1>5, <1>6, <1>8, <1>10

LEMMA LoosePlaced ==
  ASSUME HashTableAssumption, NEW u, Loose(u), NoTombstones(u),
         Cardinality(Filled(u)) < Cap(u), NEW e \in Entry
  PROVE  /\ Loose(Place(u, e)) /\ Cap(Place(u, e)) = Cap(u) /\ NoTombstones(Place(u, e))
         /\ Cardinality(Filled(Place(u, e))) = Cardinality(Filled(u)) + 1
         /\ OneMore(u, Place(u, e), e)
<1>1. PICK k \in Keys, v \in Values : k = e.key /\ e = AsEntry(k, v)
  BY DEF Entry, AsEntry
<1>2. IsTable(u)
  BY DEF Loose
<1>3. PICK F : F = {p \in Steps(u) : u[Probe(u, k, p)] = Empty}
  OBVIOUS
<1>4. F = FreeSteps(u, k)
  <2>1. \A p \in Steps(u) : u[Probe(u, k, p)] = Empty <=> u[Probe(u, k, p)] \notin Entry
    <3>1. ASSUME NEW p \in Steps(u)
          PROVE  u[Probe(u, k, p)] = Empty <=> u[Probe(u, k, p)] \notin Entry
      <4>1. PICK a \in DOMAIN u : a = Probe(u, k, p)
        BY <1>2, ProbeInTable
      <4>2. u[a] \in Slot /\ u[a] # Tombstone
        BY <1>2 DEF IsTable, NoTombstones
      <4> QED
        BY <4>1, <4>2, SlotKinds DEF Slot
    <3> QED
      BY <3>1
  <2> QED
    BY <1>3, <2>1 DEF FreeSteps
<1>5. PICK i : i = Probe(u, k, Min(F))
  OBVIOUS
<1>6. F # {} /\ i \in DOMAIN u /\ u[i] \notin Entry /\ Path(u, k, i)
  BY <1>4, <1>5, FirstFree
<1>7. PICK w : w = [u EXCEPT ![i] = AsEntry(k, v)]
  OBVIOUS
<1>8. Laid(w, u, i, AsEntry(k, v))
  BY <1>6, <1>7, LooseWritten
<1>9. Place(u, e) = w
  BY <1>1, <1>3, <1>5, <1>6, <1>7 DEF Place
<1>10. NoTombstones(w)
  <2>1. \A a \in DOMAIN w : w[a] = IF a = i THEN e ELSE u[a]
    BY <1>1, <1>8 DEF Laid, Same
  <2> QED
    BY <1>8, <2>1, SlotKinds DEF NoTombstones, Laid
<1> QED
  BY <1>1, <1>8, <1>9, <1>10 DEF Laid

(* Rehashing keeps how many times each entry is there. *)
CopiesUpTo(t, i, e) == Cardinality({a \in UpTo(t, i) : t[a] = e})
PartPoured(u, t, n, i) ==
  /\ Loose(u) /\ Cap(u) = n /\ NoTombstones(u)
  /\ Cardinality(Filled(u)) = Cardinality(UpTo(t, i)) /\ Cardinality(Filled(u)) <= i
  /\ \A e \in Entry : Times(u, e) = CopiesUpTo(t, i, e)

LEMMA CopiesNext ==
  ASSUME NEW t, IsTable(t), NEW i \in DOMAIN t, t[i] \in Entry, NEW e
  PROVE  CopiesUpTo(t, i + 1, e) = CopiesUpTo(t, i, e) + (IF e = t[i] THEN 1 ELSE 0)
<1>1. IsFiniteSet(UpTo(t, i)) /\ i \notin UpTo(t, i) /\ UpTo(t, i + 1) = UpTo(t, i) \cup {i}
  BY UpToNext
<1>2. PICK S : S = {a \in UpTo(t, i) : t[a] = e}
  OBVIOUS
<1>3. PICK R : R = {a \in UpTo(t, i + 1) : t[a] = e}
  OBVIOUS
<1>4. S \in SUBSET UpTo(t, i)
  BY <1>2
<1>5. IsFiniteSet(S) /\ Cardinality(S) \in Nat /\ i \notin S
  BY <1>1, <1>4, FS_Subset, FS_CardinalityType
<1>6. CopiesUpTo(t, i, e) = Cardinality(S) /\ CopiesUpTo(t, i + 1, e) = Cardinality(R)
  BY <1>2, <1>3 DEF CopiesUpTo
<1>7. CASE e = t[i]
  <2>1. R = S \cup {i}
    BY <1>1, <1>2, <1>3, <1>7
  <2>2. Cardinality(R) = Cardinality(S) + 1
    BY <1>5, <2>1, FS_AddElement
  <2> QED
    BY <1>6, <1>7, <2>2
<1>8. CASE e # t[i]
  <2>1. R = S
    BY <1>1, <1>2, <1>3, <1>8
  <2> QED
    BY <1>5, <1>6, <1>8, <2>1
<1> QED
  BY <1>7, <1>8

LEMMA PourStep ==
  ASSUME HashTableAssumption, NEW t, IsTable(t), NEW n \in Nat, Cap(t) < n,
         NEW i \in DOMAIN t, NEW u, PartPoured(u, t, n, i)
  PROVE  PartPoured(IF t[i] \in Entry THEN Place(u, t[i]) ELSE u, t, n, i + 1)
<1>1. /\ Loose(u) /\ Cap(u) = n /\ NoTombstones(u) /\ IsTable(u)
      /\ Cardinality(Filled(u)) = Cardinality(UpTo(t, i)) /\ Cardinality(Filled(u)) <= i
      /\ \A e \in Entry : Times(u, e) = CopiesUpTo(t, i, e)
  BY DEF PartPoured, Loose
<1>2. i \in Nat /\ i < Cap(t) /\ Cap(t) \in Nat
  BY DEF IsTable
<1>3. /\ IsFiniteSet(UpTo(t, i)) /\ i \notin UpTo(t, i)
      /\ t[i] \in Entry => UpTo(t, i + 1) = UpTo(t, i) \cup {i}
      /\ t[i] \notin Entry => UpTo(t, i + 1) = UpTo(t, i)
  BY UpToNext
<1>4. PICK c \in Nat : c = Cardinality(Filled(u))
  BY <1>1, TableFinite
<1>5. CASE t[i] \notin Entry
  <2>1. Cardinality(Filled(u)) <= i + 1
    BY <1>1, <1>2, <1>4
  <2>2. \A e : CopiesUpTo(t, i + 1, e) = CopiesUpTo(t, i, e)
    BY <1>3, <1>5 DEF CopiesUpTo
  <2>3. UpTo(t, i + 1) = UpTo(t, i)
    BY <1>3, <1>5
  <2>4. PartPoured(u, t, n, i + 1)
    BY <1>1, <2>1, <2>2, <2>3 DEF PartPoured
  <2> QED
    BY <1>5, <2>4
<1>6. CASE t[i] \in Entry
  <2>1. PICK w : w = Place(u, t[i])
    OBVIOUS
  <2>2. Cardinality(Filled(u)) < Cap(u)
    BY <1>1, <1>2, <1>4
  <2>3. /\ Loose(w) /\ Cap(w) = Cap(u) /\ NoTombstones(w)
        /\ Cardinality(Filled(w)) = Cardinality(Filled(u)) + 1
        /\ OneMore(u, w, t[i])
    BY <1>1, <1>6, <2>1, <2>2, LoosePlaced
  <2>4. Cardinality(UpTo(t, i + 1)) = Cardinality(UpTo(t, i)) + 1
    BY <1>3, <1>6, FS_AddElement
  <2>5. ASSUME NEW e \in Entry PROVE Times(w, e) = CopiesUpTo(t, i + 1, e)
    <3>1. CopiesUpTo(t, i + 1, e) = CopiesUpTo(t, i, e) + (IF e = t[i] THEN 1 ELSE 0)
      BY <1>6, CopiesNext
    <3>2. Times(w, e) = Times(u, e) + (IF e = t[i] THEN 1 ELSE 0)
      BY <2>3 DEF OneMore
    <3> QED
      BY <1>1, <3>1, <3>2
  <2>6. Cardinality(Filled(w)) = Cardinality(UpTo(t, i + 1)) /\ Cardinality(Filled(w)) <= i + 1
    <3>1. Cardinality(Filled(w)) = c + 1 /\ Cardinality(UpTo(t, i + 1)) = c + 1
      BY <1>1, <1>4, <2>3, <2>4
    <3>2. c + 1 <= i + 1
      BY <1>1, <1>2, <1>4
    <3> QED
      BY <3>1, <3>2
  <2>7. PartPoured(w, t, n, i + 1)
    BY <1>1, <2>3, <2>5, <2>6 DEF PartPoured
  <2> QED
    BY <1>6, <2>1, <2>7
<1> QED
  BY <1>5, <1>6

LEMMA LooseRehashed ==
  ASSUME HashTableAssumption, NEW t, IsTable(t), NEW n \in Nat, Cap(t) < n
  PROVE  /\ Loose(Rehash(t, n)) /\ Cap(Rehash(t, n)) = n /\ SameTimes(t, Rehash(t, n))
         /\ Cardinality(Filled(Rehash(t, n))) = Cardinality(Filled(t))
<1>1. Cap(t) \in Nat /\ DOMAIN t = 0..(Cap(t) - 1)
  BY DEF IsTable
<1>2. PICK f : IsMoved(f, t, n, Cap(t)) /\ Rehash(t, n) = f[Cap(t)]
  BY <1>1, RehashIs
<1>3. \A i \in 0..Cap(t) : f[i] = Stepped(f, t, n, i)
  BY <1>2 DEF IsMoved
<1> DEFINE S == {i \in Nat : i <= Cap(t) => PartPoured(f[i], t, n, i)}
<1>4. 0 \in S
  <2>1. PICK u : u = f[0]
    OBVIOUS
  <2>2. u = EmptyTable(n)
    BY <1>1, <1>3, <2>1 DEF Stepped
  <2>3. UpTo(t, 0) = {}
    BY <1>1 DEF UpTo, Filled
  <2>4. /\ Loose(u) /\ Cap(u) = n /\ Filled(u) = {}
        /\ \A a \in DOMAIN u : u[a] = Empty
    BY <2>2, EmptyIsGood DEF Good, Loose
  <2>5. NoTombstones(u)
    BY <2>4, SlotKinds DEF NoTombstones
  <2>6. ASSUME NEW e \in Entry PROVE Times(u, e) = CopiesUpTo(t, 0, e)
    <3>1. {a \in DOMAIN u : u[a] = e} = {}
      BY <2>4, SlotKinds
    <3>2. {a \in UpTo(t, 0) : t[a] = e} = {}
      BY <2>3
    <3>3. Times(u, e) = Cardinality({})
      BY <3>1 DEF Times
    <3>4. CopiesUpTo(t, 0, e) = Cardinality({})
      BY <3>2 DEF CopiesUpTo
    <3> QED
      BY <3>3, <3>4
  <2>7. Cardinality(Filled(u)) = 0 /\ Cardinality(UpTo(t, 0)) = 0
    BY <2>3, <2>4, FS_EmptySet
  <2>8. Cardinality(Filled(u)) = Cardinality(UpTo(t, 0)) /\ Cardinality(Filled(u)) <= 0
    BY <2>7
  <2>9. PartPoured(u, t, n, 0)
    BY <2>4, <2>5, <2>6, <2>8 DEF PartPoured
  <2> QED
    BY <2>1, <2>9
<1>5. ASSUME NEW i \in Nat, i \in S PROVE i + 1 \in S
  <2>1. SUFFICES ASSUME i + 1 <= Cap(t) PROVE PartPoured(f[i + 1], t, n, i + 1)
    OBVIOUS
  <2>2. i \in DOMAIN t /\ i + 1 \in 0..Cap(t) /\ PartPoured(f[i], t, n, i)
    BY <1>1, <1>5, <2>1
  <2>3. f[i + 1] = IF t[i] \in Entry THEN Place(f[i], t[i]) ELSE f[i]
    <3>1. (i + 1) - 1 = i /\ i + 1 # 0
      OBVIOUS
    <3>2. f[i + 1] = Stepped(f, t, n, i + 1)
      BY <1>3, <2>2
    <3> QED
      BY <3>1, <3>2 DEF Stepped
  <2> QED
    BY <2>2, <2>3, PourStep
<1> HIDE DEF S
<1>6. Cap(t) \in S
  BY <1>1, <1>4, <1>5, NatSetInduction
<1>7. PartPoured(f[Cap(t)], t, n, Cap(t))
  BY <1>1, <1>6 DEF S
<1>8. UpTo(t, Cap(t)) = Filled(t)
  BY <1>1 DEF UpTo, Filled
<1>9. ASSUME NEW e \in Entry PROVE Times(f[Cap(t)], e) = Times(t, e)
  <2>1. {a \in Filled(t) : t[a] = e} = {a \in DOMAIN t : t[a] = e}
    BY DEF Filled
  <2>2. CopiesUpTo(t, Cap(t), e) = Times(t, e)
    BY <1>8, <2>1 DEF CopiesUpTo, Times
  <2> QED
    BY <1>7, <2>2 DEF PartPoured
<1> QED
  BY <1>2, <1>7, <1>8, <1>9 DEF PartPoured, SameTimes
-----------------------------------------------------------------------------
(* The invariant of such a table and its count, and what the calls do to it. *)
LooseInv(t, n) ==
  /\ Loose(t)
  /\ n = Cardinality(Filled(t)) /\ n * 100 <= Cap(t) * MaxLoadPct
  /\ Cap(t) = 0 \/ InitialCapacity <= Cap(t)

LEMMA LooseGrown ==
  ASSUME HashTableAssumption, NEW t, NEW n, LooseInv(t, n)
  PROVE  /\ Loose(Grown(t, n)) /\ SameTimes(t, Grown(t, n)) /\ n \in Nat
         /\ n = Cardinality(Filled(Grown(t, n)))
         /\ (n + 1) * 100 <= Cap(Grown(t, n)) * MaxLoadPct
         /\ InitialCapacity <= Cap(Grown(t, n))
<1>1. /\ Loose(t) /\ IsTable(t) /\ n = Cardinality(Filled(t)) /\ n * 100 <= Cap(t) * MaxLoadPct
      /\ Cap(t) = 0 \/ InitialCapacity <= Cap(t)
      /\ n \in Nat /\ n <= Cap(t) /\ Cap(t) \in Nat
  BY TableFinite DEF LooseInv, Loose, IsTable
<1>2. /\ MaxLoadPct \in Nat /\ InitialCapacity \in Nat \ {0}
      /\ InitialCapacity * MaxLoadPct >= 100
  BY DEF HashTableAssumption
<1>3. CASE Cap(t) = 0
  <2>1. PICK g : g = EmptyTable(InitialCapacity)
    OBVIOUS
  <2>2. Grown(t, n) = g
    BY <2>1, <1>3 DEF Grown
  <2>3. Loose(g) /\ Cap(g) = InitialCapacity /\ Filled(g) = {}
    BY <2>1, <1>2, EmptyIsGood DEF Good, Loose
  <2>4. DOMAIN t = {} /\ Filled(t) = {}
    BY <1>1, <1>3 DEF IsTable, Filled
  <2>5. n = 0
    BY <1>1, <2>4, FS_EmptySet
  <2>6. ASSUME NEW e \in Entry PROVE Times(g, e) = Times(t, e)
    <3>1. {a \in DOMAIN g : g[a] = e} = {}
      BY <2>3 DEF Filled
    <3>2. {a \in DOMAIN t : t[a] = e} = {}
      BY <2>4
    <3> QED
      BY <3>1, <3>2 DEF Times
  <2> QED
    BY <2>2, <2>3, <2>4, <2>5, <2>6, <1>1, <1>2 DEF SameTimes
<1>4. CASE Cap(t) # 0 /\ Overloaded(t, n)
  <2>1. PICK c \in Nat : c = 2 * Cap(t)
    BY <1>1
  <2>2. PICK g : g = Rehash(t, c)
    OBVIOUS
  <2>3. Grown(t, n) = g
    BY <2>1, <2>2, <1>4 DEF Grown
  <2>4. Cap(t) < c /\ InitialCapacity <= c
    BY <1>1, <1>2, <1>4, <2>1
  <2>5. /\ Loose(g) /\ Cap(g) = c /\ SameTimes(t, g)
        /\ Cardinality(Filled(g)) = Cardinality(Filled(t))
    BY <1>1, <2>2, <2>4, LooseRehashed
  <2>6. (n + 1) * 100 <= c * MaxLoadPct
    BY <1>1, <1>4, <2>1, LoadAfterGrowth
  <2> QED
    BY <2>3, <2>4, <2>5, <2>6, <1>1
<1>5. CASE Cap(t) # 0 /\ ~ Overloaded(t, n)
  <2>1. Grown(t, n) = t
    BY <1>5 DEF Grown
  <2>2. (n + 1) * 100 <= Cap(t) * MaxLoadPct
    <3>1. PICK x \in Nat : x = Cap(t) * MaxLoadPct
      BY <1>1, <1>2
    <3> QED
      BY <3>1, <1>1, <1>5 DEF Overloaded
  <2>3. SameTimes(t, t)
    BY DEF SameTimes
  <2> QED
    BY <2>1, <2>2, <2>3, <1>1, <1>5
<1> QED
  BY <1>3, <1>4, <1>5

(* insert_impl: the first slot of the probe that is not filled.              *)
InsertsTo(t, n, k, v, u, m) ==
  LET g == Grown(t, n)
  IN IF FreeSteps(g, k) = {} THEN u = g /\ m = n
     ELSE /\ u = [g EXCEPT ![Probe(g, k, Min(FreeSteps(g, k)))] = AsEntry(k, v)]
          /\ m = n + 1

LEMMA InsertsKeep ==
  ASSUME HashTableAssumption, NEW t, NEW n, LooseInv(t, n), NEW k \in Keys, NEW v \in Values,
         NEW u, NEW m, InsertsTo(t, n, k, v, u, m)
  PROVE  LooseInv(u, m) /\ OneMore(t, u, AsEntry(k, v))
<1>1. PICK g : g = Grown(t, n)
  OBVIOUS
<1>2. /\ Loose(g) /\ SameTimes(t, g) /\ n \in Nat /\ n = Cardinality(Filled(g))
      /\ (n + 1) * 100 <= Cap(g) * MaxLoadPct /\ InitialCapacity <= Cap(g)
  BY <1>1, LooseGrown
<1>3. Cap(g) \in Nat
  BY <1>2 DEF Loose, IsTable
<1>4. n < Cap(g)
  <2>1. PICK c \in Nat : c = Cap(g)
    BY <1>3
  <2>2. MaxLoadPct \in 1..100
    BY DEF HashTableAssumption
  <2>3. c * MaxLoadPct <= c * 100
    BY <2>1, <2>2
  <2>4. PICK x \in Nat : x = c * MaxLoadPct
    BY <2>1, <2>2
  <2> QED
    BY <1>2, <2>1, <2>3, <2>4
<1>5. PICK i : i = Probe(g, k, Min(FreeSteps(g, k)))
  OBVIOUS
<1>6. FreeSteps(g, k) # {} /\ i \in DOMAIN g /\ g[i] \notin Entry /\ Path(g, k, i)
  BY <1>2, <1>4, <1>5, FirstFree
<1>7. u = [g EXCEPT ![i] = AsEntry(k, v)] /\ m = n + 1
  BY <1>1, <1>5, <1>6 DEF InsertsTo
<1>8. PICK a : a = AsEntry(k, v)
  OBVIOUS
<1>9. Laid(u, g, i, a)
  BY <1>2, <1>6, <1>7, <1>8, LooseWritten
<1>10. Loose(u) /\ Cap(u) = Cap(g) /\ Cardinality(Filled(u)) = n + 1 /\ OneMore(g, u, a)
  BY <1>9, <1>2 DEF Laid
<1>11. LooseInv(u, m)
  BY <1>2, <1>7, <1>10 DEF LooseInv
<1>12. OneMore(t, u, a)
  BY <1>2, <1>10 DEF OneMore, SameTimes
<1> QED
  BY <1>8, <1>11, <1>12

(* The filled slots with key k on its probe, up to the first empty slot.     *)
MatchesIn(t, k) ==
  {Probe(t, k, p) : p \in {q \in Steps(t) :
     /\ Holds(t, Probe(t, k, q), k)
     /\ \A r \in 0..q : t[Probe(t, k, r)] # Empty}}

LEMMA MatchesAre ==
  ASSUME HashTableAssumption, NEW t, Loose(t), NEW k \in Keys
  PROVE  MatchesIn(t, k) = {i \in DOMAIN t : Holds(t, i, k)}
<1>1. IsTable(t) /\ Reached(t)
  BY DEF Loose
<1>2. ASSUME NEW i \in MatchesIn(t, k) PROVE i \in DOMAIN t /\ Holds(t, i, k)
  <2>1. PICK p \in Steps(t) : i = Probe(t, k, p) /\ Holds(t, Probe(t, k, p), k)
    BY <1>2 DEF MatchesIn
  <2>2. Probe(t, k, p) \in DOMAIN t
    BY <1>1, <2>1, ProbeInTable
  <2> QED
    BY <2>1, <2>2
<1>3. ASSUME NEW i \in DOMAIN t, Holds(t, i, k) PROVE i \in MatchesIn(t, k)
  <2>1. i \in Filled(t) /\ t[i].key = k /\ t[i] # Empty
    BY <1>3, SlotKinds DEF Filled, Holds
  <2>2. Path(t, k, i)
    BY <1>1, <2>1 DEF Reached
  <2>3. PICK p \in Steps(t) : /\ Probe(t, k, p) = i
                              /\ \A q \in Steps(t) : q < p => t[Probe(t, k, q)] # Empty
    BY <2>2 DEF Path
  <2>4. ASSUME NEW r \in 0..p PROVE t[Probe(t, k, r)] # Empty
    <3>1. Cap(t) \in Nat /\ p \in Nat
      BY <1>1, <2>3, ProbeInTable DEF IsTable
    <3>2. r \in Steps(t) /\ (r = p \/ r < p)
      BY <3>1, <2>4, <2>3 DEF Steps
    <3> QED
      BY <3>2, <2>1, <2>3
  <2>5. Holds(t, Probe(t, k, p), k)
    BY <1>3, <2>3
  <2>6. Probe(t, k, p) \in MatchesIn(t, k)
    BY <2>4, <2>5 DEF MatchesIn
  <2> QED
    BY <2>3, <2>6
<1> QED
  BY <1>2, <1>3

(* erase: every match becomes a tombstone.                                   *)
ErasesTo(t, n, k, u, m) ==
  /\ MatchesIn(t, k) # {}
  /\ u = [i \in DOMAIN t |-> IF i \in MatchesIn(t, k) THEN Tombstone ELSE t[i]]
  /\ m = n - Cardinality(MatchesIn(t, k))
AllGone(t, u, k) == \A e \in Entry : Times(u, e) = IF e.key = k THEN 0 ELSE Times(t, e)

LEMMA ErasesKeep ==
  ASSUME HashTableAssumption, NEW t, NEW n, LooseInv(t, n), NEW k \in Keys,
         NEW u, NEW m, ErasesTo(t, n, k, u, m)
  PROVE  LooseInv(u, m) /\ AllGone(t, u, k)
<1>1. /\ Loose(t) /\ IsTable(t) /\ n = Cardinality(Filled(t)) /\ n * 100 <= Cap(t) * MaxLoadPct
      /\ Cap(t) = 0 \/ InitialCapacity <= Cap(t)
      /\ Cap(t) \in Nat /\ DOMAIN t = 0..(Cap(t) - 1)
  BY DEF LooseInv, Loose, IsTable
<1>2. PICK M : M = {i \in DOMAIN t : Holds(t, i, k)}
  OBVIOUS
<1>3. /\ u = [i \in DOMAIN t |-> IF i \in M THEN Tombstone ELSE t[i]]
      /\ m = n - Cardinality(M)
  BY <1>1, <1>2, MatchesAre DEF ErasesTo
<1>4. /\ M \subseteq Filled(t) /\ DOMAIN u = DOMAIN t
      /\ \A i \in DOMAIN t : u[i] = IF i \in M THEN Tombstone ELSE t[i]
  BY <1>2, <1>3 DEF Filled, Holds
<1>5. Cap(u) = Cap(t)
  BY <1>4 DEF Cap
<1>6. IsTable(u)
  <2>1. u = [i \in DOMAIN u |-> u[i]]
    BY <1>3
  <2>2. \A i \in DOMAIN u : u[i] \in Slot
    BY <1>1, <1>4 DEF IsTable, Slot
  <2> QED
    BY <1>1, <1>4, <1>5, <2>1, <2>2 DEF IsTable
<1>7. Filled(u) = Filled(t) \ M
  BY <1>4, SlotKinds DEF Filled
<1>8. Reached(u)
  <2>1. SUFFICES ASSUME NEW a \in Filled(u) PROVE Path(u, u[a].key, a)
    BY DEF Reached
  <2>2. a \in Filled(t) /\ u[a] = t[a] /\ t[a].key \in Keys
    BY <1>4, <1>7, <2>1 DEF Filled, Entry
  <2>3. PICK c \in Keys : c = t[a].key
    BY <2>2
  <2>4. Path(t, c, a)
    BY <1>1, <2>2, <2>3 DEF Loose, Reached
  <2>5. ASSUME NEW p \in Steps(t), u[Probe(t, c, p)] = Empty PROVE t[Probe(t, c, p)] = Empty
    <3>1. Probe(t, c, p) \in DOMAIN t
      BY <1>1, ProbeInTable
    <3> QED
      BY <3>1, <2>5, <1>4, SlotKinds
  <2>6. Path(u, c, a)
    BY <1>5, <2>4, <2>5, PathStays
  <2> QED
    BY <2>2, <2>3, <2>6
<1>9. IsFiniteSet(Filled(t)) /\ IsFiniteSet(M)
  BY <1>1, <1>4, TableFinite, FS_Subset
<1>10. Cardinality(Filled(u)) = Cardinality(Filled(t)) - Cardinality(M)
  <2>1. Filled(t) \cap M = M
    BY <1>4
  <2>2. Cardinality(Filled(t) \ M) = Cardinality(Filled(t)) - Cardinality(Filled(t) \cap M)
    BY <1>9, FS_Difference
  <2> QED
    BY <1>7, <2>1, <2>2
<1>11. LooseInv(u, m)
  <2>1. PICK x \in Nat : x = Cap(t) * MaxLoadPct
    <3>1. MaxLoadPct \in Nat
      BY DEF HashTableAssumption
    <3> QED
      BY <1>1, <3>1
  <2>2. n \in Nat /\ Cardinality(M) \in Nat /\ m = n - Cardinality(M)
    BY <1>1, <1>3, <1>9, FS_CardinalityType
  <2>3. m * 100 <= Cap(u) * MaxLoadPct
    BY <1>1, <1>5, <2>1, <2>2
  <2> QED
    BY <1>1, <1>3, <1>5, <1>6, <1>8, <1>10, <2>3 DEF LooseInv, Loose
<1>12. ASSUME NEW e \in Entry PROVE Times(u, e) = IF e.key = k THEN 0 ELSE Times(t, e)
  <2>1. CASE e.key = k
    <3>1. {a \in DOMAIN u : u[a] = e} = {}
      BY <1>2, <1>4, <2>1, SlotKinds DEF Holds
    <3> QED
      BY <2>1, <3>1, FS_EmptySet DEF Times
  <2>2. CASE e.key # k
    <3>1. {a \in DOMAIN u : u[a] = e} = {a \in DOMAIN t : t[a] = e}
      BY <1>2, <1>4, <2>2, SlotKinds DEF Holds
    <3> QED
      BY <2>2, <3>1 DEF Times
  <2> QED
    BY <2>1, <2>2
<1> QED
  BY <1>11, <1>12 DEF AllGone

LEMMA EmptyLoose ==
  ASSUME HashTableAssumption, NEW n \in Nat, n = 0 \/ InitialCapacity <= n
  PROVE  LooseInv(EmptyTable(n), 0)
<1>1. PICK t : t = EmptyTable(n)
  OBVIOUS
<1>2. Loose(t) /\ Cap(t) = n /\ Filled(t) = {}
  BY <1>1, EmptyIsGood DEF Good, Loose
<1>3. 0 * 100 <= n * MaxLoadPct
  <2>1. MaxLoadPct \in Nat
    BY DEF HashTableAssumption
  <2>2. n * MaxLoadPct \in Nat
    BY <2>1
  <2> QED
    BY <2>2
<1> QED
  BY <1>1, <1>2, <1>3, FS_EmptySet DEF LooseInv
-----------------------------------------------------------------------------
(* unordered_multimap, whose probes and growth are those of unordered_map.   *)
MH == INSTANCE MultiHashTable WITH table <- slots, live <- size

LEMMA MultiBasics ==
  /\ \A S : MH!Cardinality(S) = Cardinality(S)
  /\ \A S : MH!Min(S) = Min(S)
  /\ MH!Open!Entry = Entry
  /\ \A t : MH!Open!Cap(t) = Cap(t) /\ MH!Open!Filled(t) = Filled(t) /\ MH!Steps(t) = Steps(t)
  /\ \A n : MH!Open!EmptyTable(n) = EmptyTable(n)
  /\ \A t, k, p : MH!Open!Probe(t, k, p) = Probe(t, k, p)
  /\ \A t, i, k : MH!Open!Holds(t, i, k) <=> Holds(t, i, k)
<1>1. \A S : MH!Cardinality(S) = Cardinality(S)
  BY DEF MH!Cardinality, Cardinality
<1>2. \A S : MH!Min(S) = Min(S)
  BY DEF MH!Min, Min
<1>3. MH!Open!Entry = Entry
  BY DEF MH!Open!Entry, Entry
<1>4. \A t : MH!Open!Cap(t) = Cap(t)
  BY DEF MH!Open!Cap, Cap, MH!Open!Cardinality, Cardinality
<1>5. \A t : MH!Open!Filled(t) = Filled(t)
  BY <1>3 DEF MH!Open!Filled, Filled
<1>6. \A t : MH!Steps(t) = Steps(t)
  BY <1>1 DEF MH!Steps, Steps, Cap
<1>7. \A n : MH!Open!EmptyTable(n) = EmptyTable(n)
  BY DEF MH!Open!EmptyTable, EmptyTable
<1>8. \A t, k, p : MH!Open!Probe(t, k, p) = Probe(t, k, p)
  BY <1>4 DEF MH!Open!Probe, Probe
<1>9. \A t, i, k : MH!Open!Holds(t, i, k) <=> Holds(t, i, k)
  BY <1>3 DEF MH!Open!Holds, Holds
<1> QED
  BY <1>1, <1>2, <1>3, <1>4, <1>5, <1>6, <1>7, <1>8, <1>9

LEMMA MultiGrows == \A t, n : MH!Open!Grown(t, n) = Grown(t, n)
<1>1. ASSUME NEW t, NEW n PROVE MH!Open!Rehash(t, n) = Rehash(t, n)
  BY DEF MH!Open!Rehash, Rehash, MH!Open!Cap, Cap, MH!Open!Cardinality, Cardinality,
     MH!Open!EmptyTable, EmptyTable, MH!Open!Place, Place, MH!Open!Steps, Steps, MH!Open!Probe, Probe,
     MH!Open!Min, Min, MH!Open!Entry, Entry
<1>2. \A t, n : MH!Open!Overloaded(t, n) <=> Overloaded(t, n)
  BY MultiBasics DEF MH!Open!Overloaded, Overloaded
<1> QED
  BY <1>1, <1>2, MultiBasics DEF MH!Open!Grown, Grown

LEMMA MultiCalls ==
  /\ MH!Init => slots = EmptyTable(0) /\ size = 0
  /\ \A k : MH!Matches(k) = MatchesIn(slots, k)
  /\ \A k, v : MH!Insert(k, v) => InsertsTo(slots, size, k, v, slots', size')
  /\ \A k : MH!Erase(k) => ErasesTo(slots, size, k, slots', size')
  /\ MH!Clear => slots' = EmptyTable(Cap(slots)) /\ size' = 0
<1>1. MH!Init => slots = EmptyTable(0) /\ size = 0
  BY MultiBasics DEF MH!Init
<1>2. \A k : MH!Matches(k) = MatchesIn(slots, k)
  BY MultiBasics DEF MH!Matches, MatchesIn
<1>3. ASSUME NEW k, NEW v, MH!Insert(k, v) PROVE InsertsTo(slots, size, k, v, slots', size')
  <2>1. PICK g : g = Grown(slots, size)
    OBVIOUS
  <2>2. MH!Open!Grown(slots, size) = g
    BY <2>1, MultiGrows
  <2>3. PICK free : free = {p \in MH!Steps(g) : g[MH!Open!Probe(g, k, p)] \notin MH!Open!Entry}
    OBVIOUS
  <2>4. free = FreeSteps(g, k)
    BY <2>3, MultiBasics DEF FreeSteps
  <2>5. IF free = {} THEN slots' = g /\ UNCHANGED size
        ELSE /\ slots' = [g EXCEPT ![MH!Open!Probe(g, k, MH!Min(free))] = [key |-> k, val |-> v]]
             /\ size' = size + 1
    BY <1>3, <2>2, <2>3 DEF MH!Insert
  <2>6. MH!Open!Probe(g, k, MH!Min(free)) = Probe(g, k, Min(free))
    BY MultiBasics
  <2> QED
    BY <2>1, <2>4, <2>5, <2>6 DEF InsertsTo, AsEntry
<1>4. ASSUME NEW k, MH!Erase(k) PROVE ErasesTo(slots, size, k, slots', size')
  BY <1>2, <1>4, MultiBasics DEF MH!Erase, MH!Count, ErasesTo
<1>5. MH!Clear => slots' = EmptyTable(Cap(slots)) /\ size' = 0
  BY MultiBasics DEF MH!Clear, Cap
<1> QED
  BY <1>1, <1>2, <1>3, <1>4, <1>5

LooseIInv == LooseInv(slots, size)

LEMMA LooseInit == ASSUME HashTableAssumption, slots = EmptyTable(0), size = 0 PROVE LooseIInv
BY EmptyLoose DEF LooseIInv

LEMMA LooseInserts ==
  ASSUME HashTableAssumption, LooseIInv, NEW k \in Keys, NEW v \in Values,
         InsertsTo(slots, size, k, v, slots', size')
  PROVE  LooseIInv' /\ OneMore(slots, slots', AsEntry(k, v))
<1>1. PICK t, n : t = slots /\ n = size
  OBVIOUS
<1>2. PICK u, m : u = slots' /\ m = size'
  OBVIOUS
<1>3. LooseInv(t, n) /\ InsertsTo(t, n, k, v, u, m)
  BY <1>1, <1>2 DEF LooseIInv
<1>4. LooseInv(u, m) /\ OneMore(t, u, AsEntry(k, v))
  BY <1>3, InsertsKeep
<1> QED
  BY <1>1, <1>2, <1>4 DEF LooseIInv

LEMMA LooseErases ==
  ASSUME HashTableAssumption, LooseIInv, NEW k \in Keys,
         ErasesTo(slots, size, k, slots', size')
  PROVE  LooseIInv' /\ AllGone(slots, slots', k)
<1>1. PICK t, n : t = slots /\ n = size
  OBVIOUS
<1>2. PICK u, m : u = slots' /\ m = size'
  OBVIOUS
<1>3. LooseInv(t, n) /\ ErasesTo(t, n, k, u, m)
  BY <1>1, <1>2 DEF LooseIInv
<1>4. LooseInv(u, m) /\ AllGone(t, u, k)
  BY <1>3, ErasesKeep
<1> QED
  BY <1>1, <1>2, <1>4 DEF LooseIInv

LEMMA LooseClears ==
  ASSUME HashTableAssumption, LooseIInv, slots' = EmptyTable(Cap(slots)), size' = 0
  PROVE  LooseIInv'
<1>1. PICK n : n = Cap(slots)
  OBVIOUS
<1>2. n \in Nat /\ (n = 0 \/ InitialCapacity <= n)
  BY <1>1 DEF LooseIInv, LooseInv, Loose, IsTable
<1>3. LooseInv(EmptyTable(n), 0)
  BY <1>2, EmptyLoose
<1> QED
  BY <1>1, <1>3 DEF LooseIInv

(* Every probe that leads to an entry keeps leading to it, the count is the  *)
(* number of entries, and these stay within the load limit.                  *)
LEMMA MultiSafe == MH!Spec => []LooseIInv
<1>1. MH!Init => LooseIInv
  BY MultiCalls, LooseInit, HashTableAssumption
<1>2. ASSUME LooseIInv, [MH!Next]_MH!vars PROVE LooseIInv'
  <2>1. ASSUME NEW k \in Keys, NEW v \in Values, MH!Insert(k, v) PROVE LooseIInv'
    BY <1>2, <2>1, MultiCalls, LooseInserts, HashTableAssumption
  <2>2. ASSUME NEW k \in Keys, MH!Erase(k) PROVE LooseIInv'
    BY <1>2, <2>2, MultiCalls, LooseErases, HashTableAssumption
  <2>3. ASSUME MH!Clear PROVE LooseIInv'
    BY <1>2, <2>3, MultiCalls, LooseClears, HashTableAssumption
  <2>4. ASSUME UNCHANGED MH!vars PROVE LooseIInv'
    BY <1>2, <2>4 DEF MH!vars, LooseIInv
  <2> QED
    BY <1>2, <2>1, <2>2, <2>3, <2>4, Zenon DEF MH!Next
<1> QED
  BY <1>1, <1>2, PTL DEF MH!Spec

LEMMA LooseExact ==
  ASSUME HashTableAssumption, LooseIInv
  PROVE  /\ slots \in [0..(Cap(slots) - 1) -> Entry \cup {Empty, Tombstone}]
         /\ size = Cardinality(Filled(slots))
         /\ \A k \in Keys : MatchesIn(slots, k) = {i \in DOMAIN slots : Holds(slots, i, k)}
<1>1. PICK t : t = slots
  OBVIOUS
<1>2. Loose(t) /\ IsTable(t) /\ size = Cardinality(Filled(t))
  BY <1>1 DEF LooseIInv, LooseInv, Loose
<1>3. t \in [0..(Cap(t) - 1) -> Entry \cup {Empty, Tombstone}]
  BY <1>2 DEF IsTable, Slot
<1>4. \A k \in Keys : MatchesIn(t, k) = {i \in DOMAIN t : Holds(t, i, k)}
  BY <1>2, MatchesAre
<1> QED
  BY <1>1, <1>2, <1>3, <1>4

(* unordered_multimap: count, find and erase miss no entry of a key, for any *)
(* hash and any history of growth, tombstones and their reuse.               *)
THEOREM MultimapLookups == MH!Spec => [](MH!TypeOK /\ MH!AllMatchesFound)
<1>1. ASSUME LooseIInv PROVE MH!TypeOK /\ MH!AllMatchesFound
  <2>1. MH!TypeOK
    BY <1>1, LooseExact, MultiBasics, HashTableAssumption DEF MH!TypeOK, Cap
  <2>2. MH!AllMatchesFound
    BY <1>1, LooseExact, MultiBasics, MultiCalls, HashTableAssumption DEF MH!AllMatchesFound
  <2> QED
    BY <2>1, <2>2
<1> QED
  BY <1>1, MultiSafe, PTL

LEMMA MultiOccurs ==
  \A k, v : /\ MH!Occurs(k, v) = Times(slots, AsEntry(k, v))
            /\ MH!Occurs(k, v)' = Times(slots', AsEntry(k, v))
  BY MultiBasics DEF MH!Occurs, Times, AsEntry

(* unordered_multimap: an insertion adds its pair, in a table without an     *)
(* empty slot too, erase takes every pair of its key, and growing loses none.*)
THEOREM MultimapCounts == MH!Spec => MH!CountsPairs
<1>1. ASSUME LooseIInv, NEW k \in Keys, NEW j \in Keys, NEW w \in Values, NEW v \in Values,
             MH!Insert(k, v)
      PROVE  MH!Occurs(j, w)' = MH!Occurs(j, w) + (IF <<j, w>> = <<k, v>> THEN 1 ELSE 0)
  <2>1. OneMore(slots, slots', AsEntry(k, v))
    BY <1>1, MultiCalls, LooseInserts, HashTableAssumption
  <2>2. AsEntry(j, w) \in Entry /\ (AsEntry(j, w) = AsEntry(k, v) <=> <<j, w>> = <<k, v>>)
    BY DEF AsEntry, Entry
  <2> QED
    BY <2>1, <2>2, MultiOccurs DEF OneMore
<1>2. ASSUME LooseIInv, NEW k \in Keys, NEW j \in Keys, NEW w \in Values, MH!Erase(k)
      PROVE  MH!Occurs(j, w)' = IF j = k THEN 0 ELSE MH!Occurs(j, w)
  <2>1. AllGone(slots, slots', k)
    BY <1>2, MultiCalls, LooseErases, HashTableAssumption
  <2>2. AsEntry(j, w) \in Entry /\ AsEntry(j, w).key = j
    BY DEF AsEntry, Entry
  <2> QED
    BY <2>1, <2>2, MultiOccurs DEF AllGone
<1>3. LooseIInv =>
        [\A k, j \in Keys, w \in Values :
           /\ \A v \in Values :
                MH!Insert(k, v) =>
                  MH!Occurs(j, w)' = MH!Occurs(j, w) + (IF <<j, w>> = <<k, v>> THEN 1 ELSE 0)
           /\ MH!Erase(k) => MH!Occurs(j, w)' = IF j = k THEN 0 ELSE MH!Occurs(j, w)]_MH!vars
  <2>1. SUFFICES ASSUME LooseIInv, NEW k \in Keys, NEW j \in Keys, NEW w \in Values
                 PROVE  /\ \A v \in Values :
                             MH!Insert(k, v) =>
                               MH!Occurs(j, w)' = MH!Occurs(j, w) + (IF <<j, w>> = <<k, v>> THEN 1 ELSE 0)
                        /\ MH!Erase(k) => MH!Occurs(j, w)' = IF j = k THEN 0 ELSE MH!Occurs(j, w)
    OBVIOUS
  <2>2. \A v \in Values :
          MH!Insert(k, v) =>
            MH!Occurs(j, w)' = MH!Occurs(j, w) + (IF <<j, w>> = <<k, v>> THEN 1 ELSE 0)
    BY <2>1, <1>1
  <2>3. MH!Erase(k) => MH!Occurs(j, w)' = IF j = k THEN 0 ELSE MH!Occurs(j, w)
    BY <2>1, <1>2
  <2> QED
    BY <2>2, <2>3
<1> QED
  BY <1>3, MultiSafe, PTL DEF MH!CountsPairs
-----------------------------------------------------------------------------
(* unordered_multiset is that table with one value for all its entries.      *)
HB == INSTANCE HashMultiset WITH NoValue <- Default, place <- slots, held <- size

LEMMA BagBasics ==
  ASSUME Values = {Default}
  PROVE  /\ \A S : HB!Table!Cardinality(S) = Cardinality(S)
         /\ \A S : HB!Table!Min(S) = Min(S)
         /\ HB!Table!Open!Entry = Entry
         /\ \A t : /\ HB!Table!Open!Cap(t) = Cap(t)
                   /\ HB!Table!Open!Filled(t) = Filled(t)
                   /\ HB!Table!Steps(t) = Steps(t)
         /\ \A n : HB!Table!Open!EmptyTable(n) = EmptyTable(n)
         /\ \A t, k, p : HB!Table!Open!Probe(t, k, p) = Probe(t, k, p)
         /\ \A t, i, k : HB!Table!Open!Holds(t, i, k) <=> Holds(t, i, k)
<1>1. \A S : HB!Table!Cardinality(S) = Cardinality(S)
  BY DEF HB!Table!Cardinality, Cardinality
<1>2. \A S : HB!Table!Min(S) = Min(S)
  BY DEF HB!Table!Min, Min
<1>3. HB!Table!Open!Entry = Entry
  BY DEF HB!Table!Open!Entry, Entry
<1>4. \A t : HB!Table!Open!Cap(t) = Cap(t)
  BY DEF HB!Table!Open!Cap, Cap, HB!Table!Open!Cardinality, Cardinality
<1>5. \A t : HB!Table!Open!Filled(t) = Filled(t)
  BY <1>3 DEF HB!Table!Open!Filled, Filled
<1>6. \A t : HB!Table!Steps(t) = Steps(t)
  BY <1>1 DEF HB!Table!Steps, Steps, Cap
<1>7. \A n : HB!Table!Open!EmptyTable(n) = EmptyTable(n)
  BY DEF HB!Table!Open!EmptyTable, EmptyTable
<1>8. \A t, k, p : HB!Table!Open!Probe(t, k, p) = Probe(t, k, p)
  BY <1>4 DEF HB!Table!Open!Probe, Probe
<1>9. \A t, i, k : HB!Table!Open!Holds(t, i, k) <=> Holds(t, i, k)
  BY <1>3 DEF HB!Table!Open!Holds, Holds
<1> QED
  BY <1>1, <1>2, <1>3, <1>4, <1>5, <1>6, <1>7, <1>8, <1>9

LEMMA BagGrows ==
  ASSUME Values = {Default}
  PROVE  \A t, n : HB!Table!Open!Grown(t, n) = Grown(t, n)
<1>1. ASSUME NEW t, NEW n PROVE HB!Table!Open!Rehash(t, n) = Rehash(t, n)
  <2>1. Rehash(t, n) = RehashOf(Entry, t, n)
    BY SetPlaces
  <2>2. HB!Table!Open!Rehash(t, n) = RehashOf(HB!Table!Open!Entry, t, n)
    BY DEF HB!Table!Open!Rehash, RehashOf, HB!Table!Open!Cap, Cap, HB!Table!Open!Cardinality,
       Cardinality, HB!Table!Open!EmptyTable, EmptyTable, HB!Table!Open!Place, Place,
       HB!Table!Open!Steps, Steps, HB!Table!Open!Probe, Probe, HB!Table!Open!Min, Min
  <2> QED
    BY <2>1, <2>2, BagBasics
<1>2. \A t, n : HB!Table!Open!Overloaded(t, n) <=> Overloaded(t, n)
  BY BagBasics DEF HB!Table!Open!Overloaded, Overloaded
<1> QED
  BY <1>1, <1>2, BagBasics DEF HB!Table!Open!Grown, Grown

LEMMA BagCalls ==
  ASSUME Values = {Default}
  PROVE  /\ HB!Init => slots = EmptyTable(0) /\ size = 0
         /\ \A k : HB!Table!Matches(k) = MatchesIn(slots, k)
         /\ \A k, v : HB!Table!Insert(k, v) => InsertsTo(slots, size, k, v, slots', size')
         /\ \A k : HB!Table!Erase(k) => ErasesTo(slots, size, k, slots', size')
         /\ HB!Clear => slots' = EmptyTable(Cap(slots)) /\ size' = 0
<1>1. HB!Init => slots = EmptyTable(0) /\ size = 0
  BY BagBasics DEF HB!Init, HB!Table!Init
<1>2. \A k : HB!Table!Matches(k) = MatchesIn(slots, k)
  BY BagBasics DEF HB!Table!Matches, MatchesIn
<1>3. ASSUME NEW k, NEW v, HB!Table!Insert(k, v)
      PROVE  InsertsTo(slots, size, k, v, slots', size')
  <2>1. PICK g : g = Grown(slots, size)
    OBVIOUS
  <2>2. HB!Table!Open!Grown(slots, size) = g
    BY <2>1, BagGrows
  <2>3. PICK free : free = {p \in HB!Table!Steps(g) :
                             g[HB!Table!Open!Probe(g, k, p)] \notin HB!Table!Open!Entry}
    OBVIOUS
  <2>4. free = FreeSteps(g, k)
    BY <2>3, BagBasics DEF FreeSteps
  <2>5. IF free = {} THEN slots' = g /\ UNCHANGED size
        ELSE /\ slots' = [g EXCEPT ![HB!Table!Open!Probe(g, k, HB!Table!Min(free))]
                            = [key |-> k, val |-> v]]
             /\ size' = size + 1
    BY <1>3, <2>2, <2>3 DEF HB!Table!Insert
  <2>6. HB!Table!Open!Probe(g, k, HB!Table!Min(free)) = Probe(g, k, Min(free))
    BY BagBasics
  <2> QED
    BY <2>1, <2>4, <2>5, <2>6 DEF InsertsTo, AsEntry
<1>4. ASSUME NEW k, HB!Table!Erase(k) PROVE ErasesTo(slots, size, k, slots', size')
  BY <1>2, <1>4, BagBasics DEF HB!Table!Erase, HB!Table!Count, ErasesTo
<1>5. HB!Clear => slots' = EmptyTable(Cap(slots)) /\ size' = 0
  BY BagBasics DEF HB!Clear, HB!Table!Clear, Cap
<1> QED
  BY <1>1, <1>2, <1>3, <1>4, <1>5

LEMMA BagSafe == ASSUME Values = {Default} PROVE HB!Spec => []LooseIInv
<1>1. HB!Init => LooseIInv
  BY BagCalls, LooseInit, HashTableAssumption
<1>2. ASSUME LooseIInv, [HB!Next]_HB!vars PROVE LooseIInv'
  <2>1. ASSUME NEW k \in Keys, HB!Insert(k) PROVE LooseIInv'
    <3>1. HB!Table!Insert(k, Default)
      BY <2>1 DEF HB!Insert
    <3> QED
      BY <1>2, <3>1, BagCalls, LooseInserts, DefaultIsValue, HashTableAssumption
  <2>2. ASSUME NEW k \in Keys, HB!Erase(k) PROVE LooseIInv'
    <3>1. HB!Table!Erase(k)
      BY <2>2 DEF HB!Erase
    <3> QED
      BY <1>2, <3>1, BagCalls, LooseErases, HashTableAssumption
  <2>3. ASSUME HB!Clear PROVE LooseIInv'
    BY <1>2, <2>3, BagCalls, LooseClears, HashTableAssumption
  <2>4. ASSUME UNCHANGED HB!vars PROVE LooseIInv'
    BY <1>2, <2>4 DEF HB!vars, LooseIInv
  <2> QED
    BY <1>2, <2>1, <2>2, <2>3, <2>4, Zenon DEF HB!Next
<1> QED
  BY <1>1, <1>2, PTL DEF HB!Spec

(* unordered_multiset: no copy of a key is missed by count, find or erase.   *)
THEOREM MultisetTableLookups ==
  ASSUME Values = {Default} PROVE HB!Spec => [](HB!TypeOK /\ HB!LookupsExact)
<1>1. ASSUME LooseIInv PROVE HB!TypeOK /\ HB!LookupsExact
  <2>1. HB!TypeOK
    BY <1>1, LooseExact, BagBasics, HashTableAssumption DEF HB!TypeOK, HB!Table!TypeOK, Cap
  <2>2. HB!LookupsExact
    BY <1>1, LooseExact, BagBasics, BagCalls, HashTableAssumption
    DEF HB!LookupsExact, HB!Table!AllMatchesFound
  <2> QED
    BY <2>1, <2>2
<1> QED
  BY <1>1, BagSafe, PTL

LEMMA BagOccurs ==
  ASSUME Values = {Default}
  PROVE  \A k, v : /\ HB!Table!Occurs(k, v) = Times(slots, AsEntry(k, v))
                   /\ HB!Table!Occurs(k, v)' = Times(slots', AsEntry(k, v))
  BY BagBasics DEF HB!Table!Occurs, Times, AsEntry

(* unordered_multiset: each call does to the number of every key what its    *)
(* name says.                                                                *)
THEOREM MultisetTableCounts ==
  ASSUME Values = {Default} PROVE HB!Spec => HB!CountsKeys
<1>1. ASSUME LooseIInv, NEW k \in Keys, NEW j \in Keys, NEW w \in {Default}, NEW v \in {Default},
             HB!Table!Insert(k, v)
      PROVE  HB!Table!Occurs(j, w)' =
               HB!Table!Occurs(j, w) + (IF <<j, w>> = <<k, v>> THEN 1 ELSE 0)
  <2>1. OneMore(slots, slots', AsEntry(k, v))
    BY <1>1, BagCalls, LooseInserts, HashTableAssumption
  <2>2. AsEntry(j, w) \in Entry /\ (AsEntry(j, w) = AsEntry(k, v) <=> <<j, w>> = <<k, v>>)
    BY DEF AsEntry, Entry
  <2> QED
    BY <2>1, <2>2, BagOccurs DEF OneMore
<1>2. ASSUME LooseIInv, NEW k \in Keys, NEW j \in Keys, NEW w \in {Default}, HB!Table!Erase(k)
      PROVE  HB!Table!Occurs(j, w)' = IF j = k THEN 0 ELSE HB!Table!Occurs(j, w)
  <2>1. AllGone(slots, slots', k)
    BY <1>2, BagCalls, LooseErases, HashTableAssumption
  <2>2. AsEntry(j, w) \in Entry /\ AsEntry(j, w).key = j
    BY DEF AsEntry, Entry
  <2> QED
    BY <2>1, <2>2, BagOccurs DEF AllGone
<1>3. LooseIInv =>
        [\A k, j \in Keys, w \in {Default} :
           /\ \A v \in {Default} :
                HB!Table!Insert(k, v) =>
                  HB!Table!Occurs(j, w)' =
                    HB!Table!Occurs(j, w) + (IF <<j, w>> = <<k, v>> THEN 1 ELSE 0)
           /\ HB!Table!Erase(k) =>
                HB!Table!Occurs(j, w)' = IF j = k THEN 0 ELSE HB!Table!Occurs(j, w)]_HB!Table!vars
  <2>1. SUFFICES ASSUME LooseIInv, NEW k \in Keys, NEW j \in Keys, NEW w \in {Default}
                 PROVE  /\ \A v \in {Default} :
                             HB!Table!Insert(k, v) =>
                               HB!Table!Occurs(j, w)' =
                                 HB!Table!Occurs(j, w) + (IF <<j, w>> = <<k, v>> THEN 1 ELSE 0)
                        /\ HB!Table!Erase(k) =>
                             HB!Table!Occurs(j, w)' = IF j = k THEN 0 ELSE HB!Table!Occurs(j, w)
    OBVIOUS
  <2>2. \A v \in {Default} :
          HB!Table!Insert(k, v) =>
            HB!Table!Occurs(j, w)' =
              HB!Table!Occurs(j, w) + (IF <<j, w>> = <<k, v>> THEN 1 ELSE 0)
    BY <2>1, <1>1
  <2>3. HB!Table!Erase(k) =>
          HB!Table!Occurs(j, w)' = IF j = k THEN 0 ELSE HB!Table!Occurs(j, w)
    BY <2>1, <1>2
  <2> QED
    BY <2>2, <2>3
<1> QED
  BY <1>3, BagSafe, PTL DEF HB!CountsKeys, HB!Table!CountsPairs
=============================================================================
