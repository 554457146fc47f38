-------------------------- MODULE MultitypeMemory ---------------------------
(* dynamic_memory: one typed_dynamic_memory for each type a computation      *)
(* needs, downgraded to memories over fewer types, and the pointers that     *)
(* keep the backends of both alive.                                          *)
EXTENDS Naturals, Sequences, FiniteSets
LOCAL INSTANCE SequencesExt
LOCAL INSTANCE Functions

\* type_system: type_set and the compile-time functions on it.  A type is a name
\* or a type_set, which lists types; relevant gives the relevant_of member of the
\* names that have one.
Type(n)     == [name |-> n, of |-> << >>]
type_set(s) == [name |-> 0, of |-> s]
IsSet(t)    == t.name = 0

\* type_set_concat_t: its arguments in a row, sets among them opened one level.
type_set_concat_t(args) ==
  FlattenSeq([i \in DOMAIN args |-> IF IsSet(args[i]) THEN args[i].of ELSE <<args[i]>>])

contains(t, s) == t \in Range(s)

remove_duplicates(s) ==
  FoldLeft(LAMBDA kept, t : IF contains(t, kept) THEN kept ELSE Append(kept, t), << >>, s)

flat_type_set_t(args) == remove_duplicates(type_set_concat_t(args))

\* flatten_relevant_types: a name with relevant_of is replaced by what that
\* lists, through any depth.  Seen is passed on as it came, empty, so the
\* specialization that stops at a type seen before is never chosen: on a cycle
\* the template depends on itself and does not compile.
RECURSIVE flatten_relevant_types(_, _)
flatten_relevant_types(t, relevant) ==
  IF IsSet(t)
  THEN remove_duplicates(type_set_concat_t(
         [i \in DOMAIN t.of |-> type_set(flatten_relevant_types(t.of[i], relevant))]))
  ELSE IF t.name \in DOMAIN relevant
       THEN flatten_relevant_types(type_set(relevant[t.name]), relevant)
       ELSE <<t>>

relevant_types_t(args, relevant) ==
  remove_duplicates(flatten_relevant_types(type_set(args), relevant))
-----------------------------------------------------------------------------

CONSTANTS
  Names,          \* the types a program may declare, numbered in that order
  Members,        \* what relevant_of may list
  Requests,       \* what a memory may be asked for
  Memories,       \* the multitype_memory objects
  Pointers,       \* the synthetic pointers
  FirstRoom,      \* _initial_vector_size, 100 in the source
  MaxBackends,    \* bound: backends ever made
  MaxBuffers      \* bound: buffers ever handed out

VARIABLES
  relevant,       \* relevant_of of the types declared so far
  mem,            \* mem[m]: the types of m and the backend of the handler of each
  backend,        \* backend[b]: trivial_shared_ptr's count, the allocation vector
  ptr,            \* ptr[p]: the backend it shares and the buffer it points to
  freed           \* freed[u]: how often buffer u has been deallocated

multitypeVars == <<relevant, mem, backend, ptr, freed>>

Gone == [types |-> << >>, handler |-> << >>]
Nothing == [backend |-> 0, buffer |-> 0]
NewBackend == [count |-> 1, vector |-> << >>, taken |-> 0]

Alive == {m \in Memories : mem[m] # Gone}

MultitypeInit ==
  /\ relevant = << >>
  /\ mem = [m \in Memories |-> Gone]
  /\ backend = << >>
  /\ ptr = [p \in Pointers |-> Nothing]
  /\ freed = << >>

\* A type that lists types declared before it.
Declare(n, ts) ==
  /\ n \notin DOMAIN relevant
  /\ \A i \in DOMAIN ts : \A t \in {ts[i]} \cup {ts[i].of[k] : k \in DOMAIN ts[i].of} :
        t.name < n
  /\ \A k \in DOMAIN relevant : k < n
  /\ Alive = {} /\ backend = << >>
  /\ relevant' = [k \in DOMAIN relevant \cup {n} |-> IF k = n THEN ts ELSE relevant[k]]
  /\ UNCHANGED <<mem, backend, ptr, freed>>

\* The default constructor: a new backend for each type of the flat set.
Construct(m, raw) ==
  LET types == flat_type_set_t(raw)
  IN  /\ m \notin Alive /\ types # << >>
      /\ Len(backend) + Len(types) <= MaxBackends
      /\ mem' = [mem EXCEPT ![m] = [types |-> types,
                   handler |-> [i \in DOMAIN types |-> Len(backend) + i]]]
      /\ backend' = backend \o [i \in DOMAIN types |-> NewBackend]
      /\ UNCHANGED <<relevant, ptr, freed>>

HandlerOf(m, t) == mem[m].handler[CHOOSE i \in DOMAIN mem[m].types : mem[m].types[i] = t]

\* Shared and released: the backends of the bag of numbers held, one more or one
\* fewer holder each; one without holders deallocates what its vector lists.
Counted(bs, b) == Cardinality({i \in DOMAIN bs : bs[i] = b})
Shared(bs) == [b \in DOMAIN backend |-> [backend[b] EXCEPT !.count = @ + Counted(bs, b)]]
Listed(b) == [i \in 1..backend[b].taken |-> backend[b].vector[i]]
Released(bs) ==
  /\ backend' = [b \in DOMAIN backend |-> [backend[b] EXCEPT !.count = @ - Counted(bs, b)]]
  /\ LET dying == {b \in DOMAIN backend : Counted(bs, b) > 0 /\ backend'[b].count = 0}
     IN  freed' = [u \in DOMAIN freed |->
                     freed[u] + Cardinality({bi \in dying \X (1..MaxBuffers) :
                       bi[2] \in DOMAIN Listed(bi[1]) /\ Listed(bi[1])[bi[2]] = u})]

\* The constructor from a larger memory: a copy of its handler for each type,
\* which shares the backend; it does not compile for a type the other lacks.
Downgrade(m, raw, larger) ==
  LET types == flat_type_set_t(raw)
      handler == [i \in DOMAIN types |-> HandlerOf(larger, types[i])]
  IN  /\ m \notin Alive /\ types # << >>
      /\ larger \in Alive /\ \A i \in DOMAIN types : contains(types[i], mem[larger].types)
      /\ mem' = [mem EXCEPT ![m] = [types |-> types, handler |-> handler]]
      /\ backend' = Shared(handler)
      /\ UNCHANGED <<relevant, ptr, freed>>

Destroy(m) ==
  /\ m \in Alive
  /\ mem' = [mem EXCEPT ![m] = Gone]
  /\ Released(mem[m].handler)
  /\ UNCHANGED <<relevant, ptr>>

\* Mutant of Grown: the vector doubles without its entries.
GrownEmpty(b) ==
  IF b.vector = << >> THEN [i \in 1..FirstRoom |-> 0]
  ELSE IF b.taken >= Len(b.vector) THEN [i \in 1..2 * Len(b.vector) |-> 0]
  ELSE b.vector

\* allocate's vector: made at the first allocation, doubled when it is full.
Grown(b) ==
  IF b.vector = << >> THEN [i \in 1..FirstRoom |-> 0]
  ELSE IF b.taken >= Len(b.vector)
  THEN [i \in 1..2 * Len(b.vector) |-> IF i <= Len(b.vector) THEN b.vector[i] ELSE 0]
  ELSE b.vector

\* allocate<T>(n), n > 0: a buffer, noted in the vector; the pointer returned is a
\* holder of the backend.
Allocate(m, t, p) ==
  /\ m \in Alive /\ contains(t, mem[m].types)
  /\ ptr[p] = Nothing /\ Len(freed) < MaxBuffers
  /\ LET b == HandlerOf(m, t)
         u == Len(freed) + 1
     IN  /\ backend' = [backend EXCEPT ![b] =
                          [count |-> @.count + 1, taken |-> @.taken + 1,
                           vector |-> [Grown(@) EXCEPT ![backend[b].taken + 1] = u]]]
         /\ ptr' = [ptr EXCEPT ![p] = [backend |-> b, buffer |-> u]]
  /\ freed' = Append(freed, 0)
  /\ UNCHANGED <<relevant, mem>>

\* deallocate<T>(p, n) leaves the buffer to the backend; the pointer goes.
Drop(p) ==
  /\ ptr[p] # Nothing
  /\ ptr' = [ptr EXCEPT ![p] = Nothing]
  /\ Released(<<ptr[p].backend>>)
  /\ UNCHANGED <<relevant, mem>>

\* The program ends with every memory and pointer out of scope.
Ends ==
  /\ Alive = {} /\ \A p \in Pointers : ptr[p] = Nothing
  /\ UNCHANGED multitypeVars

MultitypeNext ==
  \/ Ends
  \/ \E n \in Names, ts \in Members : Declare(n, ts)
  \/ \E m \in Memories, r \in Requests :
       \/ Construct(m, r) \/ Construct(m, <<type_set(relevant_types_t(r, relevant))>>)
       \/ \E larger \in Memories : Downgrade(m, r, larger)
  \/ \E m \in Memories : Destroy(m)
  \/ \E m \in Memories, p \in Pointers : \E i \in DOMAIN mem[m].types :
       Allocate(m, mem[m].types[i], p)
  \/ \E p \in Pointers : Drop(p)
-----------------------------------------------------------------------------
MultitypeTypeOK ==
  /\ DOMAIN relevant \subseteq Names
  /\ \A m \in Alive : /\ DOMAIN mem[m].handler = DOMAIN mem[m].types
                      /\ \A i \in DOMAIN mem[m].handler : mem[m].handler[i] \in DOMAIN backend
  /\ \A b \in DOMAIN backend : backend[b].count \in Nat
                               /\ backend[b].taken \in 0..Len(backend[b].vector)
  /\ \A p \in Pointers : ptr[p] = Nothing \/ ptr[p].backend \in DOMAIN backend

(* A buffer lives as long as a memory over its type or a pointer into its    *)
(* backend does, and is deallocated once after the last of them, however     *)
(* many allocations the vector has had to grow for.                          *)
BuffersFreedOnce ==
  \A b \in DOMAIN backend :
    LET held == \/ \E m \in Alive : \E i \in DOMAIN mem[m].handler : mem[m].handler[i] = b
                \/ \E p \in Pointers : ptr[p].backend = b
        made == {u \in DOMAIN freed : \E i \in 1..backend[b].taken : backend[b].vector[i] = u}
    IN  /\ \A u \in made : freed[u] = IF held THEN 0 ELSE 1
        /\ Cardinality(made) = backend[b].taken

(* Through any chain of downgrades a handler stays with the type it was made *)
(* for: no backend serves two types, and no memory has two handlers for one. *)
OneTypePerBackend ==
  /\ \A m, n \in Alive : \A i \in DOMAIN mem[m].types : \A k \in DOMAIN mem[n].types :
       mem[m].handler[i] = mem[n].handler[k] => mem[m].types[i] = mem[n].types[k]
  /\ \A m \in Alive : \A i, k \in DOMAIN mem[m].types :
       mem[m].types[i] = mem[m].types[k] => i = k

\* Reference definition: every listing opened, duplicates kept.
RECURSIVE Opened(_, _)
Opened(ts, known) ==
  IF ts = << >> THEN << >>
  ELSE LET t == Head(ts)
       IN  (IF IsSet(t) THEN Opened(t.of, known)
            ELSE IF t.name \in DOMAIN known THEN Opened(known[t.name], known) ELSE <<t>>)
           \o Opened(Tail(ts), known)

(* "walks the template arguments transitively and returns a deduplicated     *)
(* type_set" (overview.md): each type found is there once, at its first      *)
(* place, although every level removes duplicates for itself.                *)
RelevantExact ==
  \A r \in Requests :
    LET found == relevant_types_t(r, relevant)
        all == Opened(r, relevant)
        firsts == {i \in DOMAIN all : \A k \in 1..i - 1 : all[k] # all[i]}
    IN  /\ Len(found) = Cardinality(firsts)
        /\ \A i \in firsts : found[Cardinality(firsts \cap 1..i)] = all[i]
=============================================================================
