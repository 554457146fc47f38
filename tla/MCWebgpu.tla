------------------------------ MODULE MCWebgpu ------------------------------
(* The binding generator over every legal header of at most MaxDeclarations  *)
(* cursors out of one of the families below, and the demos that use its      *)
(* bindings.  They share no state: each behaviour runs one.                  *)
EXTENDS Introspect, WebGpuApp

VARIABLE subject

Struct(n, fs)    == [is |-> "struct", name |-> n, main |-> TRUE, definition |-> TRUE, fields |-> fs]
Forward(n)       == [Struct(n, << >>) EXCEPT !.definition = FALSE]
Included(c)      == [c EXCEPT !.main = FALSE]
EnumOf(n, vs)    == [is |-> "enum", name |-> n, main |-> TRUE, definition |-> TRUE, values |-> vs]
TypedefOf(n, t)  == [is |-> "typedef", name |-> n, main |-> TRUE, definition |-> TRUE,
                     type |-> t, ret |-> Void, args |-> << >>]
CallbackOf(n, r, as) == [TypedefOf(n, CallPointer) EXCEPT !.ret = r, !.args = as]
Function(n, r, as)   == [is |-> "function", name |-> n, main |-> TRUE, definition |-> TRUE,
                         ret |-> r, args |-> as]
Var(n, v, k)     == [is |-> "var", name |-> n, main |-> TRUE, definition |-> TRUE,
                     value |-> v, const |-> k]
Macro(n, body)   == [is |-> "macro", name |-> n, main |-> TRUE, definition |-> TRUE,
                     function_like |-> FALSE, api |-> TRUE, body |-> body]

Limit(v)         == [is |-> "limit", value |-> v]
Token(p, ds)     == [is |-> "digits", prefix |-> p, digits |-> ds]
Word             == [is |-> "word"]

\* Structs that embed each other, plain and in arrays, their names sorted both
\* ways round, with a callback and a function that take them by value.
Records ==
  { Struct(1, <<Scalar(1), Record(2)>>), Struct(1, <<Array(Record(3), 2)>>),
    Struct(1, <<Record(2), Record(3)>>),
    Struct(2, <<Scalar(2), Scalar(8)>>), Struct(2, <<Record(3), Scalar(1)>>),
    Struct(2, <<Scalar(1), Array(Record(1), 2)>>),
    Struct(3, <<Scalar(1), Enum(9), Pointer>>), Struct(3, << >>),
    Struct(3, <<Array(Scalar(2), 3), Opaque(4), Named(6)>>), Forward(1), Forward(3),
    Included(Struct(3, <<Scalar(4)>>)),
    TypedefOf(6, Record(2)), TypedefOf(2, Record(2)),
    CallbackOf(7, Void, <<Record(1), Pointer>>), Function(8, Record(2), <<Named(6), Scalar(4)>>) }

\* Chains of typedefs that resolve in one pass or only in several.
Typedefs ==
  { TypedefOf(1, Named(2)), TypedefOf(2, Named(3)), TypedefOf(3, Named(4)), TypedefOf(4, Scalar(2)),
    TypedefOf(2, Array(Scalar(2), 3)), TypedefOf(3, Pointer), TypedefOf(4, Record(5)),
    TypedefOf(3, Named(5)), TypedefOf(5, Record(5)), Struct(5, <<Scalar(1), Scalar(4)>>),
    TypedefOf(2, Named(6)), TypedefOf(6, Enum(6)), EnumOf(6, <<0, 1>>), TypedefOf(1, Opaque(8)),
    TypedefOf(1, Array(Record(5), 2)),
    TypedefOf(4, CallPointer), Included(TypedefOf(4, Scalar(1))) }

\* Enums with repeated and extreme values, constants and macros.
Values ==
  { EnumOf(1, <<0, 1, 1>>), EnumOf(2, <<Lowest, -Lowest - 1>>), EnumOf(2, <<-10, 1, -10>>),
    EnumOf(3, <<0>>), Included(EnumOf(3, <<5>>)),
    Var(4, 10, TRUE), Var(4, 10, FALSE), Var(5, Lowest, TRUE), Included(Var(4, 1, TRUE)),
    Macro(6, <<Limit(Modulus - 1)>>), Macro(6, <<Token("0x", <<1, 15>>)>>),
    Macro(6, <<Token("", <<4, 2>>)>>), Macro(7, <<Token("", <<1>>), Word>>), Macro(7, <<Word>>),
    Function(8, Scalar(4), <<Void>>), Function(9, Void, << >>),
    CallbackOf(10, Void, <<Scalar(4), Pointer>>), CallbackOf(11, Pointer, <<Scalar(8)>>) }

\* Records without a name, embedded between other fields.
Nameless ==
  { Struct(1, <<Scalar(1), Anonymous(4), Scalar(2)>>), Struct(2, <<Anonymous(2), Scalar(1)>>),
    Struct(3, <<Record(2), Anonymous(8)>>), Struct(4, <<Scalar(4), Anonymous(1), Scalar(1)>>) }

Embedding == [nameless |-> Nameless]

Families == [records |-> Records, typedefs |-> Typedefs, values |-> Values]

Calls == { <<"--header", "h", "--python", "p", "--tree", "t">>,
           <<"--tree", "t", "--header", "h">>, <<"--header", "--tree", "--python", "p">>,
           <<"--python", "p">>, <<"--header", "h", "--tree">>, <<"h">> }
-----------------------------------------------------------------------------
ASSUME WebgpuAssumption == WebGpuAppAssumption

\* The subject that stays has one initial state.
WebgpuInit == \/ subject = "generator" /\ Init /\ AppInit
                 /\ program = "headless" /\ window = 0
              \/ subject = "demo" /\ Init /\ AppInit
                 /\ family = "values" /\ argv = <<"h">>

WebgpuNext ==
  /\ UNCHANGED subject
  /\ \/ subject = "generator" /\ Next /\ UNCHANGED appVars
     \/ subject = "demo" /\ AppNext /\ UNCHANGED vars

\* The generator is one thread that runs on, and so is a demo.  Nothing is
\* assumed of the driver, the window or the user.
WebgpuSpec ==
  /\ WebgpuInit /\ [][WebgpuNext]_<<subject, vars, appVars>>
  /\ WF_vars(subject = "generator" /\ Next)
  /\ WF_appVars(subject = "demo" /\ Program)
-----------------------------------------------------------------------------
(* The generator comes to an end whatever the header.  A demo does whatever  *)
(* the driver answers, or not, and the window does, unless the surface it    *)
(* asks for a texture again and again has none for ever.                     *)
ToolsEnd == /\ subject = "generator" => <>Stopped
            /\ subject = "demo" => <>Ended \/ []<>(pc = "acquire")

(* A nameless record embedded by value is written as a blob of its size "so  *)
(* the surrounding layout stays correct" (webgpu_introspect.cpp:182-183):    *)
(* the fields of a Structure that embeds one are where C has them.           *)
BlobKeepsLayout ==
  phase = "done" /\ python # Absent =>
    \A i \in DOMAIN tree.records :
       LET c == known.layout[tree.records[i].name]
           py == Import(python).class[tree.records[i].name]
       IN  py.offsets = c.offsets
=============================================================================
