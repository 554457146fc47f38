------------------------------ MODULE MapSpec -------------------------------
(* What an unordered_map promises its callers: a partial function from keys  *)
(* to values.  Buckets, probing, tombstones and rehashing do not appear.     *)
EXTENDS Functions

CONSTANTS Keys, Values, Default    \* Default is the value T{} of operator[]

VARIABLE content      \* the entries: a function from a subset of Keys

TypeOK == /\ DOMAIN content \subseteq Keys
          /\ \A k \in DOMAIN content : content[k] \in Values

Init == content = [k \in {} |-> Default]

With(k, v) == [j \in DOMAIN content \cup {k} |-> IF j = k THEN v ELSE content[j]]

(* insert keeps the value of a key that is there. *)
Insert(k, v) == content' = IF k \in DOMAIN content THEN content ELSE With(k, v)

InsertOrAssign(k, v) == content' = With(k, v)

(* operator[] makes an entry for a missing key. *)
Subscript(k) == Insert(k, Default)

Erase(k) == content' = Restrict(content, DOMAIN content \ {k})

Clear == content' = [k \in {} |-> Default]

Next == \/ \E k \in Keys : Subscript(k) \/ Erase(k)
        \/ \E k \in Keys, v \in Values : Insert(k, v) \/ InsertOrAssign(k, v)
        \/ Clear

Spec == Init /\ [][Next]_content
=============================================================================
