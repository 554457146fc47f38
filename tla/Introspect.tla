----------------------------- MODULE Introspect -----------------------------
(* webgpu_introspect: a C header becomes a tree of records, enums, typedefs, *)
(* functions and constants, and the tree becomes a Python bindings module    *)
(* (emit_python) and a C++ header of flat pools (emit_tree), from which      *)
(* webgpu_emit_py writes the module a second time.                           *)
EXTENDS TreeEmitter, RecordOrder, TLC
LOCAL INSTANCE SequencesExt

CONSTANTS Declarations,     \* by kind of header, the cursors it may be made of
          MaxDeclarations,  \* the longest header
          CommandLines      \* what the tool may be called with

VARIABLES
  phase,      \* where main is
  argv, asked,
  family,     \* the kind of header this one is
  header,     \* the cursors seen so far
  known,      \* what clang knows of them: layouts and canonical types
  tree,       \* api_tree
  emitter,    \* the emitter that runs
  typemap, at, progress,  \* typedef_to_ctypes and the loop that fills it
  python,     \* webgpu_ctypes.py, as statements
  flat,       \* webgpu_tree.hpp
  rebuilt     \* webgpu_ctypes_from_tree.py

vars == <<phase, argv, asked, family, header, known, tree, emitter, orderVars,
          typemap, at, progress, python, flat, rebuilt>>
emitted == <<python, flat, rebuilt>>
resolving == <<typemap, at, progress>>

NoTree == [records |-> << >>, enums |-> << >>, typedefs |-> << >>,
           functions |-> << >>, constants |-> << >>]
Absent == << >>     \* no module: every text ends in the table of functions

Init ==
  /\ phase = "arguments" /\ argv \in CommandLines /\ asked = {}
  /\ family \in DOMAIN Declarations /\ header = {}
  /\ known = [layout |-> << >>, canon |-> << >>]
  /\ tree = NoTree /\ emitter = "none"
  /\ deps = << >> /\ mark = << >> /\ path = << >> /\ order = << >> /\ scan = 1
  /\ typemap = << >> /\ at = 1 /\ progress = TRUE
  /\ python = Absent /\ flat = NoTree /\ rebuilt = Absent
-----------------------------------------------------------------------------
\* parse_cli: every option takes the argument after it, whatever that is.
parse_cli(args) ==
  LET refused == [ok |-> FALSE, given |-> {}]
      from[i \in 1..Len(args) + 2] ==
        IF i > Len(args) THEN [ok |-> TRUE, given |-> {}]
        ELSE IF args[i] \notin {"--header", "--python", "--tree"} \/ i = Len(args)
        THEN refused
        ELSE [ok |-> from[i + 2].ok, given |-> from[i + 2].given \cup {args[i]}]
  IN  IF from[1].ok /\ "--header" \in from[1].given THEN from[1] ELSE refused

\* main up to the walk; clang may fail to parse the header.
ParseArguments ==
  /\ phase = "arguments"
  /\ LET r == parse_cli(argv)
     IN  /\ asked' = r.given
         /\ IF r.ok THEN phase' \in {"walk", "failed"} ELSE phase' = "failed"
  /\ UNCHANGED <<argv, family, header, known, tree, emitter, orderVars, resolving, emitted>>

\* The next cursor of the header, one the C language allows here.
Sees(c) ==
  /\ phase = "walk"
  /\ Cardinality(header) < MaxDeclarations
  /\ c \notin header
  /\ header' = header \cup {c}
  /\ UNCHANGED <<phase, argv, asked, family, emitter, orderVars, resolving, emitted>>

\* A tag may be declared before it is defined; nothing is defined twice.
Undefined(c) == \A d \in header :
                  c.is = d.is /\ c.name = d.name => ~(c.definition /\ d.definition)

\* The signature of a function, or of the functions a typedef points to.
SignatureDeclared(c) ==
  Declared(c.ret, known) /\ \A i \in DOMAIN c.args : Declared(c.args[i], known)

\* Mutant of visit_struct: a mere declaration is recorded too.
visit_structDeclared(c) ==
  /\ c.is = "struct" /\ Undefined(c) /\ Sees(c)
  /\ c.definition => \A i \in DOMAIN c.fields : Complete(c.fields[i], known)
  /\ LET spans == [i \in DOMAIN c.fields |-> Extent(c.fields[i], known)]
         layout == Place(spans)
         field(i) == [name |-> i, ctype |-> ctypes_for(c.fields[i], known),
                      dep |-> record_dependency(c.fields[i], known),
                      offset |-> layout.offsets[i], size |-> spans[i].size]
         record == [name |-> c.name, size |-> layout.size,
                    fields |-> [i \in DOMAIN c.fields |-> field(i)]]
     IN  /\ known' = IF c.definition
                     THEN [known EXCEPT !.layout = Bind(@, c.name, layout)] ELSE known
         /\ tree' = IF c.main
                    THEN [tree EXCEPT !.records = Append(@, record)] ELSE tree

\* visit_struct: the definition of a named struct of the main header.
visit_struct(c) ==
  /\ c.is = "struct" /\ Undefined(c) /\ Sees(c)
  /\ c.definition => \A i \in DOMAIN c.fields : Complete(c.fields[i], known)
  /\ LET spans == [i \in DOMAIN c.fields |-> Extent(c.fields[i], known)]
         layout == Place(spans)
         field(i) == [name |-> i, ctype |-> ctypes_for(c.fields[i], known),
                      dep |-> record_dependency(c.fields[i], known),
                      offset |-> layout.offsets[i], size |-> spans[i].size]
         record == [name |-> c.name, size |-> layout.size,
                    fields |-> [i \in DOMAIN c.fields |-> field(i)]]
     IN  /\ known' = IF c.definition
                     THEN [known EXCEPT !.layout = Bind(@, c.name, layout)] ELSE known
         /\ tree' = IF c.main /\ c.definition
                    THEN [tree EXCEPT !.records = Append(@, record)] ELSE tree

\* visit_enum: likewise, with the values in the order of the header.
visit_enum(c) ==
  /\ c.is = "enum" /\ Undefined(c) /\ Sees(c)
  /\ tree' = IF c.main /\ c.definition
             THEN [tree EXCEPT !.enums = Append(@, [name |-> c.name, values |-> c.values])]
             ELSE tree
  /\ UNCHANGED known

\* visit_typedef: the spelling of what it stands for; a pointer to a function
\* also has its signature recorded.
visit_typedef(c) ==
  /\ c.is = "typedef" /\ Undefined(c) /\ Sees(c)
  /\ Declared(c.type, known) /\ SignatureDeclared(c)
  /\ known' = [known EXCEPT !.canon = Bind(@, c.name, Canonical(c.type, known))]
  /\ LET callback == Canonical(c.type, known).kind = "callpointer"
     IN  tree' = IF ~c.main THEN tree
                 ELSE [tree EXCEPT !.typedefs = Append(@,
                        [name |-> c.name, underlying |-> c.type, is_callback |-> callback,
                         ret |-> ctypes_for(c.ret, known),
                         args |-> [i \in DOMAIN c.args |-> ctypes_for(c.args[i], known)]])]

\* visit_function: the ctypes of the result and of each argument.
visit_function(c) ==
  /\ c.is = "function" /\ Undefined(c) /\ Sees(c) /\ SignatureDeclared(c)
  /\ tree' = IF ~c.main THEN tree
             ELSE [tree EXCEPT !.functions = Append(@,
                    [name |-> c.name, ret |-> ctypes_for(c.ret, known),
                     args |-> [i \in DOMAIN c.args |-> ctypes_for(c.args[i], known)]])]
  /\ UNCHANGED known

\* visit_constant: an integer constant, read back as a signed long long.
visit_constant(c) ==
  /\ c.is = "var" /\ Undefined(c) /\ Sees(c)
  /\ LET signed == IF c.value >= -Lowest THEN c.value - Modulus ELSE c.value
     IN  tree' = IF c.main /\ c.const
                 THEN [tree EXCEPT !.constants = Append(@,
                        [name |-> c.name, literal |-> Number(signed)])]
                 ELSE tree
  /\ UNCHANGED known

\* The macro body is one token once the parentheses are gone: the name of a
\* limit, or digits with a 0x in front or none and a suffix that is dropped.
MacroLiterals(c) ==
  IF Len(c.body) # 1 THEN {}
  ELSE LET t == c.body[1]
       IN  IF t.is = "limit" THEN {Number(t.value)}
           ELSE IF t.is = "digits" THEN {Digits(t.prefix, t.digits)} ELSE {}

\* visit_macro: an object-like macro with the prefix of the API.
visit_macro(c) ==
  /\ c.is = "macro" /\ Undefined(c) /\ Sees(c)
  /\ tree' = IF c.main /\ ~c.function_like /\ c.api /\ MacroLiterals(c) # {}
             THEN [tree EXCEPT !.constants = Append(@,
                    [name |-> c.name, literal |-> CHOOSE l \in MacroLiterals(c) : TRUE])]
             ELSE tree
  /\ UNCHANGED known
-----------------------------------------------------------------------------
ByName(s) == SortSeq(s, LAMBDA a, b : a.name < b.name)

NamesIn(s) == {s[i].name : i \in DOMAIN s}

\* deps: for each field that embeds a record of the tree, that record's index.
Dependencies(records) ==
  LET index(n) == CHOOSE i \in DOMAIN records : records[i].name = n
      of(f) == LET found == f.dep \cap NamesIn(records)
               IN  IF found = {} THEN << >> ELSE <<index(CHOOSE n \in found : TRUE)>>
  IN  [i \in DOMAIN records |->
         FlattenSeq([k \in DOMAIN records[i].fields |-> of(records[i].fields[k])])]

\* The emitter that main calls after e, if its file was asked for.
After(e) == IF e = "none" /\ "--python" \in asked THEN "python"
            ELSE IF e # "tree" /\ "--tree" \in asked THEN "tree" ELSE "none"

\* An emitter starts by ordering the records; after the last one, the tool is
\* done, and the second path goes on where there is a tree.
StartEmitter(e, records) ==
  /\ emitter' = e
  /\ phase' = IF e # "none" THEN "order"
              ELSE IF flat' # NoTree THEN "rebuild" ELSE "done"
  /\ deps' = Dependencies(records)
  /\ StartOrder

\* The walk is over: main sorts the tree by name and calls the first emitter.
SortTree ==
  /\ phase = "walk"
  /\ tree' = [records |-> ByName(tree.records), enums |-> ByName(tree.enums),
              typedefs |-> ByName(tree.typedefs), functions |-> ByName(tree.functions),
              constants |-> ByName(tree.constants)]
  /\ UNCHANGED emitted
  /\ StartEmitter(After("none"), tree'.records)
  /\ UNCHANGED <<argv, asked, family, header, known, resolving>>

OrderRecords ==
  /\ phase = "order"
  /\ OrderStep
  /\ UNCHANGED <<phase, argv, asked, family, header, known, tree, emitter, resolving, emitted>>

\* build_py_map begins with an empty map.
BeginTypedefs ==
  /\ phase = "order" /\ Ordered
  /\ phase' = "typedefs"
  /\ typemap' = << >> /\ at' = 1 /\ progress' = FALSE
  /\ UNCHANGED <<argv, asked, family, header, known, tree, emitter, orderVars, emitted>>

\* lookup on a spelling: a pointer, an array, a base type, a typedef resolved so
\* far, the bare name of an enum or a record; c_void_p for everything else,
\* "struct T" and "enum T" among it.
lookup(t) ==
  LET plain(u) ==
        CASE u.kind = "void" -> None
          [] u.kind = "scalar" -> CInt(u.size)
          [] u.kind = "typedef" ->
               IF u.name \in DOMAIN typemap THEN typemap[u.name]
               ELSE IF u.name \in NamesIn(tree.enums) \cup NamesIn(tree.records)
               THEN Class(u.name) ELSE VoidP
          [] OTHER -> VoidP
  IN  IF t.kind = "array" THEN Times(plain(t.of), t.count) ELSE plain(t)

\* Mutant of ResolveTypedef: a typedef that was resolved before counts as progress.
ResolveTypedefAgain ==
  /\ phase = "typedefs" /\ at <= Len(tree.typedefs)
  /\ at' = at + 1
  /\ LET t == tree.typedefs[at]
         unknown == lookup(t.underlying) = VoidP
                    /\ t.underlying.kind \notin {"pointer", "callpointer", "array"}
     IN  IF unknown
         THEN UNCHANGED <<typemap, progress>>
         ELSE /\ typemap' = Bind(typemap, t.name, lookup(t.underlying))
              /\ progress' = TRUE
  /\ UNCHANGED <<phase, argv, asked, family, header, known, tree, emitter, orderVars, emitted>>

\* One turn of the inner loop: a typedef that is not resolved yet is, unless its
\* name resolves to nothing so far.
ResolveTypedef ==
  /\ phase = "typedefs" /\ at <= Len(tree.typedefs)
  /\ at' = at + 1
  /\ LET t == tree.typedefs[at]
         unknown == lookup(t.underlying) = VoidP
                    /\ t.underlying.kind \notin {"pointer", "callpointer", "array"}
     IN  IF t.name \in DOMAIN typemap \/ unknown
         THEN UNCHANGED <<typemap, progress>>
         ELSE /\ typemap' = Bind(typemap, t.name, lookup(t.underlying))
              /\ progress' = TRUE
  /\ UNCHANGED <<phase, argv, asked, family, header, known, tree, emitter, orderVars, emitted>>

\* Mutant of EndPass: one pass over the typedefs has to do.
EndPassOnce ==
  /\ phase = "typedefs" /\ at > Len(tree.typedefs)
  /\ at' = 1 /\ progress' = FALSE
  /\ phase' = "emit"
  /\ typemap' = [n \in DOMAIN typemap \cup NamesIn(tree.typedefs) |->
                   IF n \in DOMAIN typemap THEN typemap[n] ELSE VoidP]
  /\ UNCHANGED <<argv, asked, family, header, known, tree, emitter, orderVars, emitted>>

\* The end of a pass: another one after progress, else c_void_p for the rest.
EndPass ==
  /\ phase = "typedefs" /\ at > Len(tree.typedefs)
  /\ at' = 1 /\ progress' = FALSE
  /\ IF progress THEN UNCHANGED <<phase, typemap>>
     ELSE /\ phase' = "emit"
          /\ typemap' = [n \in DOMAIN typemap \cup NamesIn(tree.typedefs) |->
                           IF n \in DOMAIN typemap THEN typemap[n] ELSE VoidP]
  /\ UNCHANGED <<argv, asked, family, header, known, tree, emitter, orderVars, emitted>>
-----------------------------------------------------------------------------
\* The typedefs written as aliases: not the names of classes, not callbacks.
Aliases ==
  LET aliased(t) == /\ t.name \notin NamesIn(tree.enums) \cup NamesIn(tree.records)
                    /\ ~t.is_callback /\ typemap[t.name] # Class(t.name)
      kept == SelectSeq(tree.typedefs, aliased)
  IN  [i \in DOMAIN kept |-> [name |-> kept[i].name, ctype |-> typemap[kept[i].name]]]

Callbacks == SelectSeq(tree.typedefs, LAMBDA t : t.is_callback)

\* A value seen before makes a member an alias, written as a comment.
Members(values) ==
  [i \in DOMAIN values |-> [name |-> i, value |-> values[i],
                            alias |-> \E k \in 1..i - 1 : values[k] = values[i]]]

\* record_info::is_opaque.
IsOpaque(r) == r.size <= 0

Shown(f) == [name |-> f.name, ctype |-> f.ctype, offset |-> f.offset, size |-> f.size]
ShownFields(r) == [i \in DOMAIN r.fields |-> Shown(r.fields[i])]

\* emit_python, its sections in their order.
PythonText ==
  LET fields(i) == LET r == tree.records[i]
                   IN  IF IsOpaque(r) THEN OpaqueNote(r.name)
                       ELSE SetFields(r.name, ShownFields(r))
      enum(e) == EnumClass(e.name, Members(e.values))
  IN  [i \in DOMAIN tree.enums |-> enum(tree.enums[i])]
      \o [i \in DOMAIN tree.constants |-> Assign(tree.constants[i].name, tree.constants[i].literal)]
      \o [i \in DOMAIN tree.records |-> Stub(tree.records[i].name)]
      \o [i \in DOMAIN Aliases |-> Alias(Aliases[i].name, Aliases[i].ctype)]
      \o [i \in DOMAIN order |-> fields(order[i])]
      \o [i \in DOMAIN Callbacks |->
            CallbackType(Callbacks[i].name, Callbacks[i].ret, Callbacks[i].args)]
      \o <<FunctionTable(tree.functions)>>

\* Where the items of entry i begin in the pool made of all of them.
PoolBegin(lists, i) == Len(FlattenSeq(SubSeq(lists, 1, i - 1)))

\* emit_tree: homogeneous pools and entries that name their slices.
FlatTree ==
  LET fields == [i \in DOMAIN tree.records |-> ShownFields(tree.records[i])]
      spelled(ms) == [i \in DOMAIN ms |-> [ms[i] EXCEPT !.value = LongLong(@)]]
      values == [i \in DOMAIN tree.enums |-> spelled(Members(tree.enums[i].values))]
      signature(s) == [i \in DOMAIN s |-> s[i].args]
      entry(i, s) == [name |-> s[i].name, ret |-> s[i].ret,
                      begin |-> PoolBegin(signature(s), i), count |-> Len(s[i].args)]
  IN [fields |-> FlattenSeq(fields),
      records |-> [i \in DOMAIN tree.records |->
        [name |-> tree.records[i].name, opaque |-> IsOpaque(tree.records[i]),
         begin |-> PoolBegin(fields, i), count |-> Len(fields[i])]],
      topo |-> [i \in DOMAIN order |-> order[i] - 1],
      enum_values |-> FlattenSeq(values),
      enums |-> [i \in DOMAIN tree.enums |->
        [name |-> tree.enums[i].name, begin |-> PoolBegin(values, i), count |-> Len(values[i])]],
      aliases |-> Aliases,
      callback_args |-> FlattenSeq(signature(Callbacks)),
      callbacks |-> [i \in DOMAIN Callbacks |-> entry(i, Callbacks)],
      function_args |-> FlattenSeq(signature(tree.functions)),
      functions |-> [i \in DOMAIN tree.functions |-> entry(i, tree.functions)],
      constants |-> tree.constants]

EmitPython ==
  /\ phase = "emit" /\ emitter = "python"
  /\ python' = PythonText
  /\ UNCHANGED <<flat, rebuilt>>
  /\ StartEmitter(After("python"), tree.records)
  /\ UNCHANGED <<argv, asked, family, header, known, tree, resolving>>

EmitTree ==
  /\ phase = "emit" /\ emitter = "tree"
  /\ flat' = FlatTree
  /\ UNCHANGED <<python, rebuilt>>
  /\ StartEmitter(After("tree"), tree.records)
  /\ UNCHANGED <<argv, asked, family, header, known, tree, resolving>>

\* webgpu_emit_py is compiled against the tree, and run if it compiles.
Rebuild ==
  /\ phase = "rebuild"
  /\ LET text == Written(build(build_into(flat)))
     IN  rebuilt' \in IF Conforms(flat) THEN {text} ELSE {text, Absent}
  /\ phase' = "done"
  /\ UNCHANGED <<argv, asked, family, header, known, tree, emitter, orderVars, resolving,
                 python, flat>>
-----------------------------------------------------------------------------
\* tu_visitor: each cursor of the header goes to the visitor of its kind.
tu_visitor ==
  \E c \in Declarations[family] : \/ visit_struct(c) \/ visit_enum(c) \/ visit_typedef(c)
                    \/ visit_function(c) \/ visit_constant(c) \/ visit_macro(c)

Stopped == phase \in {"done", "failed"}

Next == \/ ParseArguments \/ tu_visitor \/ SortTree \/ OrderRecords \/ BeginTypedefs
        \/ ResolveTypedef \/ EndPass \/ EmitPython \/ EmitTree \/ Rebuild
        \/ Stopped /\ UNCHANGED vars

\* The tool is one thread that runs until it has finished.
Spec == Init /\ [][Next]_vars /\ WF_vars(Next)
-----------------------------------------------------------------------------
TypeOK ==
  /\ phase \in {"arguments", "walk", "order", "typedefs", "emit", "rebuild", "done", "failed"}
  /\ asked \subseteq {"--header", "--python", "--tree"}
  /\ emitter \in {"none", "python", "tree"}
  /\ DOMAIN known.layout \subseteq {c.name : c \in {d \in header : d.is = "struct"}}
  /\ NamesIn(tree.records) \subseteq DOMAIN known.layout
  /\ DOMAIN typemap \subseteq NamesIn(tree.typedefs)
  /\ at \in 1..Len(tree.typedefs) + 1 /\ progress \in BOOLEAN
  /\ OrderTypeOK

\* The header's main file defines every record that it uses by value.
SelfContained ==
  LET used(e) == IF e.is = "class" THEN {e.name}
                 ELSE IF e.is = "times" /\ e.of.is = "class" THEN {e.of.name} ELSE {}
      inSignature(f) == used(f.ret) \cup UNION {used(f.args[i]) : i \in DOMAIN f.args}
      inFields(r) == UNION {used(r.fields[i].ctype) : i \in DOMAIN r.fields}
  IN  /\ \A i \in DOMAIN tree.records : inFields(tree.records[i]) \subseteq NamesIn(tree.records)
      /\ \A i \in DOMAIN tree.functions :
            inSignature(tree.functions[i]) \subseteq NamesIn(tree.records)
      /\ \A i \in DOMAIN tree.typedefs :
            inSignature(tree.typedefs[i]) \subseteq NamesIn(tree.records)

(* Python imports the bindings of a self-contained header without an error,  *)
(* and every Structure class has the size and the alignment that C gives the *)
(* struct, and its field offsets unless the struct is empty.                 *)
LayoutPreserved ==
  phase = "done" /\ python # Absent /\ SelfContained =>
    LET module == Import(python)
    IN  /\ module.ok
        /\ \A i \in DOMAIN tree.records :
             LET r == tree.records[i]
                 c == known.layout[r.name]
                 py == module.class[r.name]
             IN  /\ py.size = c.size /\ py.align = c.align
                 /\ ~IsOpaque(r) => py.offsets = c.offsets

BothAsked == phase = "done" /\ {"--python", "--tree"} \subseteq asked

(* Where a module is written by both paths it is the same, as long as it     *)
(* fits the array the second one bakes; and the second one writes it unless  *)
(* an enum has the lowest value of long long.                                *)
PathsAgree ==
  BothAsked /\ Len(python) <= Capacity =>
    \/ rebuilt = python
    \/ /\ rebuilt = Absent
       /\ \E i \in DOMAIN tree.enums : \E k \in DOMAIN tree.enums[i].values :
             tree.enums[i].values[k] = Lowest

ClassNames == NamesIn(tree.enums) \cup NamesIn(tree.records)

\* What a typedef stands for, followed name by name through the typedefs of the
\* main header, to the name of a class or to what is not such a name.
RECURSIVE StandsFor(_)
StandsFor(t) ==
  LET next == {i \in DOMAIN tree.typedefs : tree.typedefs[i].name = t.name}
  IN  IF t.kind # "typedef" \/ t.name \in ClassNames \/ next = {} THEN t
      ELSE StandsFor(tree.typedefs[CHOOSE i \in next : TRUE].underlying)

(* In whatever order the names sort, an alias is worth what its typedef ends *)
(* in: a base type, a pointer, an array of those or a record class has the   *)
(* size and the alignment of C, an enum class is that class.  What lookup    *)
(* cannot tell, a tag, a name of an included header or another kind of type, *)
(* is c_void_p whatever its size in C, also as the element of an array.      *)
(* Arrays of typedefs are left out: theirs depends on the order.             *)
AliasesExact ==
  phase = "done" /\ python # Absent /\ SelfContained =>
    LET module == Import(python)
        plain(t) == t.kind \in {"scalar", "pointer", "callpointer"}
        names(t, s) == t.kind = "typedef" /\ t.name \in NamesIn(s)
        exact(t) == plain(t) \/ (t.kind = "array" /\ plain(t.of)) \/ names(t, tree.records)
        measured(v, t) == LET c == Extent(t, known)
                              py == Measure(v, module)
                          IN  py.size = c.size /\ py.align = c.align
        worth(v, t) ==
          IF exact(t) THEN measured(v, t)
          ELSE IF names(t, tree.enums) THEN v = module.bound[t.name]
          ELSE IF t.kind # "array" THEN v = VoidP
          ELSE t.of.kind # "typedef" => v.of = VoidP /\ v.span = Span(8 * t.count, 8)
    IN  \A i \in DOMAIN Aliases : \A k \in DOMAIN tree.typedefs :
          tree.typedefs[k].name = Aliases[i].name =>
            worth(module.bound[Aliases[i].name], StandsFor(tree.typedefs[k].underlying))
=============================================================================
