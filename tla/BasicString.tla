---------------------------- MODULE BasicString -----------------------------
(* basic_string: characters in a dynamic_array, with searching and cutting   *)
(* in unsigned arithmetic.                                                   *)
EXTENDS Integers, SequencesExt, FiniteSetsExt

CONSTANTS Strings,
          Chars, Nul,    \* Nul is CharT{}, which ends a C string
          Modulus,       \* size_type counts modulo this
          MaxLength      \* bound: no call makes a string longer than this

StringAssumption == /\ Nul \in Chars
                    /\ MaxLength \in Nat /\ Modulus \in Nat /\ MaxLength < Modulus - 1

VARIABLE str      \* the characters of each string; the one at index i is [i + 1]

Init == str = [s \in Strings |-> <<>>]

npos == Modulus - 1
Texts == UNION {[1..n -> Chars] : n \in 0..MaxLength}
-----------------------------------------------------------------------------
(* find(c, from) *)
FindChar(t, c, from) ==
  LET at == {i \in from..(Len(t) - 1) : t[i + 1] = c} IN IF at = {} THEN npos ELSE Min(at)

(* find(needle, from): the sum in the loop's condition may wrap around.      *)
InLoop(t, needle, i) == (i + Len(needle)) % Modulus <= Len(t)
Occurs(t, needle, i) == \A j \in DOMAIN needle : t[i + j] = needle[j]

FindView(t, needle, from) ==
  LET walked == {i \in from..(Modulus - 1) : \A l \in from..i : InLoop(t, needle, l)}
      at == {i \in walked : Occurs(t, needle, i)}
  IN IF Len(needle) = 0 THEN IF from <= Len(t) THEN from ELSE npos
     ELSE IF Len(needle) > Len(t) \/ at = {} THEN npos ELSE Min(at)

(* substr(pos, count) *)
Substr(t, pos, count) ==
  LET avail == IF Len(t) > pos THEN Len(t) - pos ELSE 0
      take == IF count < avail THEN count ELSE avail
  IN [i \in 1..take |-> t[pos + i]]

(* operator== *)
Equal(t, u) == Len(t) = Len(u) /\ \A i \in DOMAIN t : t[i] = u[i]

(* len_of: a C string ends before its first Nul. *)
CString(t) == SubSeq(t, 1, FindChar(Append(t, Nul), Nul, 0))
-----------------------------------------------------------------------------
Becomes(s, t) == Len(t) <= MaxLength /\ str' = [str EXCEPT ![s] = t]

PushBack(s, c) == Becomes(s, Append(str[s], c))
PopBack(s) == str[s] # <<>> /\ Becomes(s, Front(str[s]))
Clear(s) == Becomes(s, <<>>)
AssignAt(s, i, c) == i \in DOMAIN str[s] /\ Becomes(s, [str[s] EXCEPT ![i] = c])

(* append and += of another string or a view of other characters: a string   *)
(* appended to itself is chased by its own end and never done.               *)
AppendString(s, o) == s # o /\ Becomes(s, str[s] \o str[o])
AppendView(s, t) == Becomes(s, str[s] \o t)
AppendCString(s, t) == Becomes(s, str[s] \o CString(t))

(* Assignment of what substr() of a string returns. *)
AssignSubstr(s, o, pos, count) == Becomes(s, Substr(str[o], pos, count))

Next ==
  \E s \in Strings :
    \/ \E c \in Chars : PushBack(s, c) \/ \E i \in 1..MaxLength : AssignAt(s, i, c)
    \/ PopBack(s) \/ Clear(s)
    \/ \E t \in Texts : AppendView(s, t) \/ AppendCString(s, t)
    \/ \E o \in Strings : \/ AppendString(s, o)
                          \/ \E pos, count \in 0..npos : AssignSubstr(s, o, pos, count)

Spec == Init /\ [][Next]_str
-----------------------------------------------------------------------------
TypeOK == str \in [Strings -> Texts]

(* The searches return the first place from where they are told, or npos,    *)
(* and npos is never a place.  A search that begins so far past the end that *)
(* the sum wraps is not asked for: the code would read there.                *)
FindsFirst ==
  \A s \in Strings :
    /\ \A c \in Chars, from \in 0..npos :
         LET p == FindChar(str[s], c, from)
         IN \/ p = npos /\ \A i \in DOMAIN str[s] : i > from => str[s][i] # c
            \/ /\ p \in from..(Len(str[s]) - 1) /\ str[s][p + 1] = c
               /\ \A i \in from..(p - 1) : str[s][i + 1] # c
    /\ \A t \in Texts : \A from \in 0..(npos - Len(t)) :
         LET p == FindView(str[s], t, from)
             Here(i) == SubSeq(str[s], i + 1, i + Len(t)) = t
         IN \/ p = npos /\ \A i \in from..(Len(str[s]) - Len(t)) : ~Here(i)
            \/ /\ p \in from..(Len(str[s]) - Len(t)) /\ Here(p)
               /\ \A i \in from..(p - 1) : ~Here(i)

(* substr is the part of the string the numbers name, cut at its end, and    *)
(* the parts before and from a place make up the string.                     *)
CutsExactly ==
  \A s, o \in Strings :
    /\ \A pos \in 0..npos :
         Substr(str[s], 0, pos) \o Substr(str[s], pos, npos) = str[s]
    /\ \A pos, count \in 0..npos :
         Substr(Substr(str[s], pos, npos), 0, count) = Substr(str[s], pos, count)
    /\ Equal(str[s], str[o]) <=> str[s] = str[o]
=============================================================================
