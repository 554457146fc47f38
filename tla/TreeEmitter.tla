----------------------------- MODULE TreeEmitter -----------------------------
(* webgpu_emit_py: the bindings rebuilt from the flattened tree at compile   *)
(* time, copied into a fixed array and written out.  `tree` is what the      *)
(* header webgpu_tree.hpp holds: pools, and entries that point into them.    *)
EXTENDS CTypes
LOCAL INSTANCE SequencesExt

CONSTANTS Width,      \* bits of long long
          Capacity    \* CAP, counted in statements instead of characters

Modulus == 2 ^ Width
Lowest == -(2 ^ (Width - 1))

\* A value as emit_tree spells it in C++: a sign, and the magnitude with suffix
\* LL.  The sign is no part of the literal, which is a long long only if the
\* magnitude fits one: that of the lowest value does not.
LongLong(v) == [minus |-> v < 0, magnitude |-> IF v < 0 THEN -v ELSE v]
Fits(l) == l.magnitude < Modulus \div 2
Meant(l) == IF l.minus THEN -l.magnitude ELSE l.magnitude

\* Mutant of put_int: the magnitude of a negative number is one short.
put_intShort(v) ==
  LET u == IF v < 0 THEN -(v + 1) % Modulus ELSE v
      shed[n \in 0..Modulus] == IF n = 0 THEN << >> ELSE Append(shed[n \div 10], n % 10)
  IN  [minus |-> v < 0, digits |-> IF v = 0 THEN <<0>> ELSE shed[u]]

\* put_int: the sign and the decimal digits, most significant first, through an
\* unsigned magnitude, since the lowest number has no positive counterpart.
put_int(v) ==
  LET u == IF v < 0 THEN (-(v + 1) + 1) % Modulus ELSE v
      shed[n \in 0..Modulus] == IF n = 0 THEN << >> ELSE Append(shed[n \div 10], n % 10)
  IN  [minus |-> v < 0, digits |-> IF v = 0 THEN <<0>> ELSE shed[u]]

\* The number those characters say.
Printed(v) == LET p == put_int(v)
              IN  IF p.minus THEN -InBase(10, p.digits) ELSE InBase(10, p.digits)

Slice(pool, begin, count) == SubSeq(pool, begin + 1, begin + count)

\* build_into: each section walks its entries and the slices they name.
build_into(tree) ==
  LET enum(e) == EnumClass(e.name,
                   [i \in 1..e.count |->
                      LET m == Slice(tree.enum_values, e.begin, e.count)[i]
                      IN  [m EXCEPT !.value = Printed(Meant(@))]])
      fields(r) == [i \in 1..r.count |->
                      LET f == Slice(tree.fields, r.begin, r.count)[i]
                      IN  [f EXCEPT !.offset = Printed(@), !.size = Printed(@)]]
      record(r) == IF r.opaque THEN OpaqueNote(r.name) ELSE SetFields(r.name, fields(r))
      callback(c) == CallbackType(c.name, c.ret, Slice(tree.callback_args, c.begin, c.count))
      row(f) == [name |-> f.name, ret |-> f.ret,
                 args |-> Slice(tree.function_args, f.begin, f.count)]
  IN  [i \in DOMAIN tree.enums |-> enum(tree.enums[i])]
      \o [i \in DOMAIN tree.constants |-> Assign(tree.constants[i].name, tree.constants[i].literal)]
      \o [i \in DOMAIN tree.records |-> Stub(tree.records[i].name)]
      \o [i \in DOMAIN tree.aliases |-> Alias(tree.aliases[i].name, tree.aliases[i].ctype)]
      \o [i \in DOMAIN tree.topo |-> record(tree.records[tree.topo[i] + 1])]
      \o [i \in DOMAIN tree.callbacks |-> callback(tree.callbacks[i])]
      \o <<FunctionTable([i \in DOMAIN tree.functions |-> row(tree.functions[i])])>>

\* Whether a compiler has to accept the header; past that, clang refuses the
\* literal as narrowing and GCC takes it, with a warning, for the value meant.
Conforms(tree) == \A i \in DOMAIN tree.enum_values : Fits(tree.enum_values[i].value)

\* build: the text copied as far as the array goes; the length is the text's.
build(text) ==
  [len |-> Len(text), data |-> [i \in (1..Len(text)) \cap (1..Capacity) |-> text[i]]]

Beyond == [do |-> "beyond the array"]

\* main: fwrite of len characters, which past the array are whatever follows it.
Written(baked) ==
  [i \in 1..baked.len |-> IF i <= Capacity THEN baked.data[i] ELSE Beyond]
=============================================================================
