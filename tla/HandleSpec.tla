----------------------------- MODULE HandleSpec -----------------------------
(* What a hive promises its callers: elements in no particular order, each   *)
(* under a handle that stays good until that element is erased.              *)
CONSTANTS Values, Handles

VARIABLE content     \* the elements: a function from handles to values

TypeOK == \A h \in DOMAIN content : h \in Handles /\ content[h] \in Values

Init == content = [h \in {} |-> h]

(* The container chooses the handle of a new element. *)
Insert(h, v) ==
  /\ h \notin DOMAIN content
  /\ content' = [g \in DOMAIN content \cup {h} |-> IF g = h THEN v ELSE content[g]]

Erase(h) ==
  /\ h \in DOMAIN content
  /\ content' = [g \in DOMAIN content \ {h} |-> content[g]]

Clear == content' = [h \in {} |-> h]

Unchanged == UNCHANGED content

Next == \/ \E v \in Values : \E h \in Handles : Insert(h, v)
        \/ \E h \in DOMAIN content : Erase(h)
        \/ Clear

Spec == Init /\ [][Next]_content
=============================================================================
