------------------------------- MODULE CTypes -------------------------------
(* C types as libclang reports them and the ctypes expressions that          *)
(* webgpu_introspect writes for them.  A name is a number, ordered as the    *)
(* strings are.  What the compiler knows of the names declared so far is     *)
(* env.layout (size and alignment of complete records) and env.canon (what a *)
(* typedef stands for, typedefs resolved).  Below them, the statements of a  *)
(* bindings module and what ctypes does on importing it.                     *)
EXTENDS Integers, Sequences, FiniteSets
LOCAL INSTANCE SequencesExt

Scalar(n)    == [kind |-> "scalar", size |-> n]     \* bool, char, integers, float, double
Opaque(n)    == [kind |-> "other", size |-> n]      \* a kind ctypes_for has no case for
Pointer      == [kind |-> "pointer"]
CallPointer  == [kind |-> "callpointer"]            \* pointer to a function
Void         == [kind |-> "void"]
Enum(t)      == [kind |-> "enum", name |-> t]
Record(t)    == [kind |-> "record", name |-> t]
Anonymous(s) == [kind |-> "anonymous", size |-> s, align |-> s]
Named(t)     == [kind |-> "typedef", name |-> t]
Array(t, n)  == [kind |-> "array", of |-> t, count |-> n]

\* ctypes expressions: c_int and its like, c_void_p, None, a class, elem * N.
CInt(n)     == [is |-> "int", size |-> n]
VoidP       == [is |-> "void_p"]
None        == [is |-> "None"]
Class(t)    == [is |-> "class", name |-> t]
Times(e, n) == [is |-> "times", of |-> e, count |-> n]

EnumSize == 4

\* clang_getCanonicalType: typedefs resolved, those of array elements too.
Canonical(t, env) ==
  LET plain(u) == IF u.kind = "typedef" THEN env.canon[u.name] ELSE u
  IN  IF t.kind = "array" THEN Array(plain(t.of), t.count) ELSE plain(t)

\* ctypes_for on what is no array and no typedef.
ElementCtype(t) ==
  CASE t.kind = "void" -> None
    [] t.kind = "scalar" -> CInt(t.size)
    [] t.kind \in {"pointer", "callpointer"} -> VoidP
    [] t.kind = "enum" -> CInt(EnumSize)
    [] t.kind = "record" -> Class(t.name)
    [] t.kind = "anonymous" -> Times(CInt(1), t.size)
    [] OTHER -> IF t.size \in {1, 2, 4, 8} THEN CInt(t.size) ELSE VoidP

\* ctypes_for: the expression written for a field, an argument or a result.
ctypes_for(t, env) ==
  LET c == Canonical(t, env)
  IN  IF c.kind = "array" THEN Times(ElementCtype(c.of), c.count) ELSE ElementCtype(c)

\* Mutant of record_dependency: an array of records embeds none.
record_dependencyShallow(t, env) ==
  LET c == Canonical(t, env)
  IN  IF c.kind = "record" THEN {c.name} ELSE {}

\* record_dependency: the tag of the record a field embeds, arrays unwrapped.
record_dependency(t, env) ==
  LET c == Canonical(t, env)
      e == IF c.kind = "array" THEN c.of ELSE c
  IN  IF e.kind = "record" THEN {e.name} ELSE {}
-----------------------------------------------------------------------------
\* Natural layout: each part at the next multiple of its alignment, the whole
\* rounded up to the largest of them.  C compilers and ctypes agree on it.
RoundUp(n, a) == ((n + a - 1) \div a) * a

Larger(a, b) == IF a > b THEN a ELSE b

Place(parts) ==
  LET add(acc, p) ==
        LET at == RoundUp(acc.end, p.align)
        IN  [offsets |-> Append(acc.offsets, at), end |-> at + p.size,
             align |-> Larger(acc.align, p.align)]
      all == FoldLeft(add, [offsets |-> << >>, end |-> 0, align |-> 1], parts)
  IN  [offsets |-> all.offsets, size |-> RoundUp(all.end, all.align), align |-> all.align]

Span(n, a) == [size |-> n, align |-> a]

\* clang_Type_getSizeOf and getAlignOf.
Extent(t, env) ==
  LET c == Canonical(t, env)
      one(u) == CASE u.kind \in {"scalar", "other"} -> Span(u.size, u.size)
                  [] u.kind \in {"pointer", "callpointer"} -> Span(8, 8)
                  [] u.kind = "enum" -> Span(EnumSize, EnumSize)
                  [] u.kind = "anonymous" -> Span(u.size, u.align)
                  [] u.kind = "record" -> Span(env.layout[u.name].size, env.layout[u.name].align)
  IN  IF c.kind = "array" THEN Span(c.count * one(c.of).size, one(c.of).align) ELSE one(c)

\* A type spelled with declared names only.
Declared(t, env) ==
  LET u == IF t.kind = "array" THEN t.of ELSE t
  IN  u.kind = "typedef" => u.name \in DOMAIN env.canon

\* A type with a size where it is used: no void, no incomplete record.
Complete(t, env) ==
  Declared(t, env) /\
  LET c == Canonical(t, env)
      e == IF c.kind = "array" THEN c.of ELSE c
  IN  e.kind # "void" /\ (e.kind = "record" => e.name \in DOMAIN env.layout)
-----------------------------------------------------------------------------
\* The statements of a generated bindings module, and what Python's ctypes does
\* on importing them.  A name is bound in one module namespace.
EnumClass(n, members)   == [do |-> "enum", name |-> n, members |-> members]
Assign(n, literal)      == [do |-> "assign", name |-> n, literal |-> literal]
Stub(n)                 == [do |-> "stub", name |-> n]
Alias(n, e)             == [do |-> "alias", name |-> n, expr |-> e]
OpaqueNote(n)           == [do |-> "opaque", name |-> n]
SetFields(n, fields)    == [do |-> "fields", name |-> n, fields |-> fields]
CallbackType(n, r, as)  == [do |-> "callback", name |-> n, ret |-> r, args |-> as]
FunctionTable(rows)     == [do |-> "functions", rows |-> rows]

\* Integer literals: a number the standard library prints, or digits copied
\* from a C token.
Number(v)       == [prefix |-> "", digits |-> << >>, number |-> v]
Digits(p, ds)   == [prefix |-> p, digits |-> ds, number |-> 0]

InBase(b, ds) == FoldLeft(LAMBDA acc, d : acc * b + d, 0, ds)

LeadingZero(l) == l.prefix = "" /\ Len(l.digits) > 1 /\ l.digits[1] = 0

\* What Python reads: nothing where it refuses a leading zero.
PythonReads(l) ==
  IF l.digits = << >> THEN {l.number}
  ELSE IF LeadingZero(l) /\ InBase(10, l.digits) # 0 THEN {}
  ELSE {InBase(IF l.prefix = "0x" THEN 16 ELSE 10, l.digits)}
-----------------------------------------------------------------------------
\* env.bound: the value of each name; env.class: size, alignment and field
\* offsets of each Structure class; env.final: the classes whose layout is
\* fixed; env.ok: whether the import still runs.
NoModule == [bound |-> << >>, class |-> << >>, final |-> {}, ok |-> TRUE]

Bind(f, k, v) == [x \in DOMAIN f \cup {k} |-> IF x = k THEN v ELSE f[x]]

Failed(env) == [env EXCEPT !.ok = FALSE]

IsCtype(v) == v.is \in {"int", "void_p", "class", "array"}

\* Size and alignment of a value that is a ctypes type.
Measure(v, env) ==
  CASE v.is = "int" -> Span(v.size, v.size)
    [] v.is = "void_p" -> Span(8, 8)
    [] v.is = "class" -> Span(env.class[v.name].size, env.class[v.name].align)
    [] v.is = "array" -> v.span

\* The values an expression can have: one, or none where evaluation raises.
Bound(e, env) ==
  IF e.is # "class" THEN {e} ELSE {env.bound[n] : n \in {e.name} \cap DOMAIN env.bound}
Evaluate(e, env) ==
  IF e.is # "times" THEN Bound(e, env)
  ELSE {[is |-> "array", of |-> v,
         span |-> Span(e.count * Measure(v, env).size, Measure(v, env).align)] :
        v \in {u \in Bound(e.of, env) : IsCtype(u)}}

AllCtypes(es, env) ==
  \A i \in DOMAIN es : \E v \in Evaluate(es[i], env) : IsCtype(v)

\* The class whose layout an element of _fields_ fixes.
Embedded(v) == IF v.is = "class" THEN {v.name}
               ELSE IF v.is = "array" /\ v.of.is = "class" THEN {v.of.name} ELSE {}

\* cls._fields_ = [...]: refused once the layout of the class is fixed.
AssignFields(env, n, es) ==
  LET vs == [i \in DOMAIN es |-> CHOOSE v \in Evaluate(es[i], env) : TRUE]
  IN  IF n \in env.final \/ ~AllCtypes(es, env) THEN Failed(env)
      ELSE [env EXCEPT
              !.class = Bind(@, n, Place([i \in DOMAIN vs |-> Measure(vs[i], env)])),
              !.final = @ \cup {n} \cup UNION {Embedded(vs[i]) : i \in DOMAIN vs}]

ExecuteStatement(env, s) ==
  IF ~env.ok THEN env ELSE
  CASE s.do = "enum" -> [env EXCEPT !.bound = Bind(@, s.name, [is |-> "enum"])]
    [] s.do = "assign" -> IF PythonReads(s.literal) = {} THEN Failed(env)
                          ELSE [env EXCEPT !.bound = Bind(@, s.name, [is |-> "number"])]
    [] s.do = "stub" -> [env EXCEPT !.bound = Bind(@, s.name, Class(s.name)),
                                    !.class = Bind(@, s.name, Place(<< >>))]
    [] s.do = "alias" -> IF Evaluate(s.expr, env) = {} THEN Failed(env)
                         ELSE [env EXCEPT !.bound =
                                 Bind(@, s.name, CHOOSE v \in Evaluate(s.expr, env) : TRUE)]
    [] s.do = "opaque" -> env
    [] s.do = "fields" ->
         AssignFields(env, s.name, [i \in DOMAIN s.fields |-> s.fields[i].ctype])
    [] s.do = "callback" ->
         IF (s.ret # None => AllCtypes(<<s.ret>>, env)) /\ AllCtypes(s.args, env)
         THEN [env EXCEPT !.bound = Bind(@, s.name, VoidP)] ELSE Failed(env)
    [] s.do = "functions" ->
         IF \A i \in DOMAIN s.rows : /\ Evaluate(s.rows[i].ret, env) # {}
                                     /\ \A k \in DOMAIN s.rows[i].args :
                                           Evaluate(s.rows[i].args[k], env) # {}
         THEN env ELSE Failed(env)

Import(document) == FoldLeft(ExecuteStatement, NoModule, document)
=============================================================================
