# Models of ycetl

ycetl is a header-only C++20 library of containers, smart pointers and typed
memories that run inside constant evaluation; its largest example generates
Python bindings for WebGPU and runs two programs over them. This directory holds
TLA+ models of both, the TLC configurations that check them and the TLAPS proofs
about them. Paths below are relative to `src/include/ycetl/`, those of the
example to `src/examples/webgpu/`.

## 1. The system

The library is single-threaded by design; what makes it hard is not
interleaving but *long sequences of legal calls*, the order of the steps inside
one call, ownership of memory through copies and moves, index arithmetic at the
edges, and two failure modes peculiar to constant evaluation: touching freed or
unconstructed memory, or ending the evaluation with memory still allocated, is a
compile error.

| Component | State | Operations | What makes it correct |
|---|---|---|---|
| `typed_dynamic_memory` | a backend with a vector of every buffer handed out; a `trivial_shared_ptr` count of the pointers to it | `allocate`, `deallocate` (does nothing), copying a pointer, the destructor that frees all | a buffer is freed exactly once and only when no pointer to its backend is left |
| `typed_static_memory` | one block, a bump offset; offset 0 is null | `allocate`, `deallocate` (does nothing) | buffers never overlap; slot 0 stays free |
| `dynamic_array` | a counted pointer, size, capacity | construction, moves, `reserve`, `resize`, appending, `insert`, `erase`, clearing | behaves as `std::vector`; every element constructed once and destroyed once |
| `unordered_map` (and the three other hash tables) | slots empty, filled or tombstone; a live count | `insert`, `insert_or_assign`, `operator[]`, `erase`, `clear`, lookup | a partial function; every entry found on its probe; room for every insertion |
| `deque` | ring buffer, head, size | push and pop at both ends, `clear` | a sequence; references stable while the ring does not grow |
| `hive` | slots, free list, size | `insert`, `erase`, `reserve`, iteration | stable handles; the free list is exact |
| `shared_ptr`, `weak_ptr` | control block with two counts | construction, assignment, release, `lock` | objects die with their last owner, blocks with their last observer |
| `unique_ptr` | one pointer | move, `reset`, `swap`, `release` | each object deleted once |
| `list`, `forward_list` | linked nodes, size | push, pop, insert, erase, copy, move | the links spell a sequence, nodes are freed once |
| `set`, `map`, `multiset`, `multimap` | a sorted `dynamic_array` | binary search, insert, erase | sorted, with and without equal keys |
| `priority_queue` | a heap in a `dynamic_array` | push, pop | the top is a largest element |
| `bitset`, `inplace_vector`, `basic_string` | words, slots, characters | set algebra, resizing, searching and cutting | the bits past the last stay clear; stale slots do not come back; the first match, never `npos` |
| `span`, `stack`, `queue`, `vector` | a forwarded container | | |
| `type_system`, `multitype_memory` | a handler, with its backend, per type | type-set algebra; construction, downgrade to fewer types, `allocate` | each type once, its backend kept through every downgrade, each buffer freed once |
| `webgpu_introspect` | the tree of a C header | walk, sort, order records, resolve typedefs, emit a Python module and a C++ tree | the module imports and has C's layout; it ends |
| `webgpu_emit_py` | the module's text in a fixed array | rebuild the module from the tree | both paths write the same |
| `dawn/app/app.py`, `interactive.py` | handles, the answers of callbacks, sizes | request and pump, render and read back, window loop | no handle before its callback; whole frames at one size |

How they interact: every container but `list`, `forward_list`, `bitset` and
`inplace_vector` is built on `dynamic_array`; `dynamic_array` is parameterised by a
typed memory and calls its `allocate` and `deallocate`; it reaches its elements
through the synthetic pointers of that memory, which for the dynamic memory carry
a counted reference to the backend. The containers above the array call its
`resize`, `push_back`, `pop_back`, `clear` and move assignment, so their models
take the array as the sequence `VectorSpec` promises, which `DynamicArray` is
shown to implement. `multitype_memory` holds one `typed_dynamic_memory` per type and
hands out pointers that keep its backend. In the library no callbacks, threads,
timers or files occur; the only re-entrance is a destructor that runs inside `shared_ptr::release_strong`
and releases other pointers, modelled as a stack of calls in `SharedPtr`, or inside
`unique_ptr::reset`, where the chain of deletions is one step of `UniquePtr`.

The example is a pipeline: `webgpu_introspect` reads a header through libclang and
writes `webgpu_ctypes.py` and `webgpu_tree.hpp`; `webgpu_emit_py` is compiled against
the latter and writes the module again; `ctypes` imports it; the demos call the
driver through it. Here order and timing matter: ctypes fixes the layout of a class
once another embeds it, a typedef can be resolved only after the one it names, and
the demos wait for callbacks that the driver runs late, with an error or never,
while the user resizes the window.

## 2. Modules

| Module | Models | Refines |
|---|---|---|
| `DynamicArray` | `dynamic_array` over `typed_dynamic_memory`: arrays, iterators, backends with counts, buffers slot by slot | `VectorSpec` |
| `StaticMemory` | several `dynamic_array`s over one `typed_static_memory` | `VectorSpec` |
| `HashTable`, `HashSet` | `unordered_map` and `unordered_set`: probing, tombstones, growth | `MapSpec`, sets |
| `MultiHashTable`, `HashMultiset` | `unordered_multimap` and `unordered_multiset` | bags |
| `RingDeque` | `deque` | `DequeSpec` |
| `Hive` | `hive` with one traversal going on | `HandleSpec` |
| `SharedPtr` | `shared_ptr` and `weak_ptr` on objects that hold pointers | |
| `UniquePtr` | `unique_ptr` on objects that hold one | |
| `LinkedList`, `ForwardList` | `list` and `forward_list`, node by node | `ListSpec` |
| `NodeLists` | both of them, each over a heap of its own | |
| `FlatMap`, `FlatSet` | `map` and `set` as sorted arrays | `MapSpec`, sets |
| `FlatMultimap`, `FlatMultiset` | `multimap` and `multiset` as sorted arrays | queues per key |
| `SortedArrays` | the four of them, each over an array of its own | |
| `PriorityQueue` | `priority_queue` as a heap | |
| `Bitset` | `bitset` in words of any width | set algebra |
| `BasicString` | searching, cutting and appending of `basic_string` | |
| `InplaceVector` | `inplace_vector` | sequences |
| `MultitypeMemory` | the functions of `type_system.hpp` on sequences of types; `multitype_memory` with shared, counted backends | a reference flattening |
| `CTypes` | C types, `ctypes_for`, `record_dependency`; the layout that C and ctypes share; the statements of a bindings module and their import by Python | |
| `RecordOrder` | the depth-first walk that orders the records | |
| `TreeEmitter` | `webgpu_emit_py` | `emit_python` |
| `Introspect` | `webgpu_introspect` from command line to output, with the two above | |
| `WebGpuApp` | `app.py` and `interactive.py`, the driver and the window | |
| `MCDynamicArray` | an instance of `DynamicArray` | |
| `MCContainers`, `MCStores`, `MCWebgpu` | instances of parts that share no state, one per behaviour; the headers of the generator | |
| `DynamicArray_proofs`, `StaticMemory_proofs`, `SharedPtr_proofs`, `Hive_proofs` | theorems about the module each is named for | |
| `HashTable_proofs` | theorems about `HashTable`, `HashSet`, `MultiHashTable` and `HashMultiset` | |
| `Containers_proofs` | theorems about `RingDeque`, `Bitset`, `UniquePtr`, the four sorted arrays, `PriorityQueue` and `InplaceVector` | |
| `NodeLists_proofs` | theorems about `LinkedList` and `ForwardList` | |
| `Webgpu_proofs` | theorems about `RecordOrder` and `WebGpuApp` | |

**DynamicArray.** `arr[a]` is the object `(memory, address, _size, _capacity)` of
array `a`, `refs` the count of each backend, `owned` its allocation vector and
`cell[b]` the slots of buffer `b`: `Raw` (no object), `Hollow` (moved from) or a
value. `TrivialMove` says that the element is a plain value that owns nothing and that
a move copies; a destructor leaves `Raw` whatever the element is. Each action is one member function with all
it calls: `Reserve` is a function from the state to the heap after the growth,
which `EmplaceBack`, `Insert` and `Resize` apply before their own effect, and
`Rebind`/`Surviving`/`Storage` are what dropping a pointer does to counts,
backends and buffers. `EmplaceBackOwn` and `InsertOwn` are the calls that pass a
reference to an element of the array itself: a slot of the buffer the array had before
the call, read when the code reads it, after the growth and after the shift. What is
copied from an object that was moved from or destroyed is any value (`Copies`).
`overlaid` remembers that a
constructor ran on a slot whose object still owned something. The temporary pointers inside a
call are counted in and out before it returns and do not appear.

**StaticMemory.** `store` is the block, `offset` the bump offset. Elements are
plain values; the copy loop of `reserve` runs upwards to an address that is
unused or lower, so it keeps the elements. `MayExhaust` lets callers ask for more
than `remaining_size()`.

**HashTable.** `slots` is the table as a function on bucket indices, `size` is
`_size`. A probe is described by the set of steps at which it stops and the least
of them. The hash is a constant. A refused insertion leaves the table as
`maybe_grow` left it; what `operator[]` then reads is outside the model.

**RingDeque.** `buf`, `head` and `size` are the members. `MoveAway` is the implicit
move, which takes the buffer and leaves the numbers; afterwards only `Clear` (or
another move) is enabled, since every position would be computed modulo zero.

**Hive.** `slots`, `free`, `size` are the members, `cursor` is the index inside one
iterator of a traversal, `todo` a history variable: the elements that were there
at its `begin()`, are not erased and not visited. `BehavesLikeHive` is the refinement
and, call by call, the abstract call: an erasure removes the element its iterator names.

**SharedPtr.** `sp` and `wp` say which control block each pointer holds, for the
program's variables and for the member pointers `next(o)` and `back(o)` of each
object; `ref`, `weak`, `block` and `obj` are counts and lifetimes. `pending` is
the stack of calls under way: `delete ptr_` pushes the release of the members and
what is left of the outer release. Constructors are assignments to a pointer that
holds nothing. The calls are those whose source survives the release of the
target; `p = p->next`, where it does not, is undefined behaviour in the code.

**UniquePtr.** `ptr` says what each owner holds: the program's variables and the
member `next(o)` of each object. `raw` is the set of raw pointers `release` gave
out. Deleting an object deletes what its member owns, so `reset` deletes the whole
chain that hangs on the old pointer (`Deleted`): the least set that holds the object
and with each object what that owns (`Chain`). With `FromInside`
the calls include a move from an owner inside the object that goes.

**LinkedList, ForwardList.** `lst` (`fwd`) holds head, tail and count of each list,
`node` (`cell`) the nodes that exist, by address. `Unlinked` has the four cases of
`unlink`; copying and moving assignment first delete the nodes of the target.
`ListSpec` is a sequence whose elements keep their identity: an insertion or an
erasure touches no other element. `NodeLists` instantiates both and states of the two
together that every node is owned once and linked right (`OwnedOnce`) and that they
behave as sequences, call by call (`ListsBehave`).

**FlatMap, FlatMultimap and their sets.** The state is the array of entries, in the
order of the code. `FirstNot` is the halving loop and is told on which slots the
comparison holds; each file has its own copy of the loop, and so has each module. The sets are the same code with keys in place of entries, so
their modules instantiate the maps' with a single value; each of their definitions
names the lines of the set's own file. The same holds for `HashSet` and
`HashMultiset`. `SortedArrays` instantiates the four and states of them together that
searches find exactly what is there (`LookupsExact`).

**MultiHashTable** shares probing, `rehash` and `maybe_grow` with `HashTable`. Its
insertion stops at the first slot that is not filled; `Matches` is the walk of
`find`, `count` and `erase` to an empty slot.

**PriorityQueue.** `SiftUp` and `SiftDown` are recursive functions of the array
and the index reached.

**Bitset.** `words[s]` is the array of words, each a set of positions; `TailMask` is
the mask of the last word. `N` and `BitsPerWord` are parameters.

**BasicString.** The characters are a sequence; `Modulus` is the range of `size_type`,
so that `npos` and the sums of the loops wrap where they do in the code.

**InplaceVector.** All `N` slots are kept, those past the size included.

**MultitypeMemory.** A type is a name or a `type_set`; `relevant` gives the
`relevant_of` of the names that have one, declared before any memory is made.
`mem[m]` pairs the flat types of a memory with the backend of each handler;
`backend[b]` is the count of `trivial_shared_ptr` and the allocation vector, which
doubles when it is full; `freed[u]` counts how often buffer `u` was deallocated.
`Downgrade` copies the handler of each type it keeps. `RelevantExact` compares the
flattening with a plain one that opens every listing and keeps first places.

**CTypes.** A C type is a record with a kind; names are numbers, ordered as
the strings are. `env` is what clang knows: layouts of complete records and
canonical types of typedefs. `Place` is the natural layout, which both C and ctypes
use; they differ in what they are told. `Import` runs the statements of a module:
classes, aliases, `_fields_` assignments that fix the layout of what they embed and
fail on a fixed class, callback types, the function table. clang and ctypes are
external; the expressions they exchange are the generator's.

**RecordOrder.** The recursive lambda `visit` as a stack: `path` holds the calls that
have not returned. It is a module of its own because both emitters run it, each
from the start, and because it is proved about for any acyclic `deps`.

**Introspect.** `phase` is where `main` is. `tu_visitor` sees cursors in any order the C
language allows, drawn from a family of declarations; each visitor appends to
`tree` what the code appends. `SortTree` sorts and starts the first emitter that was
asked for; each emitter orders the records, resolves the typedefs one turn of the
loop at a time (`ResolveTypedef`, `EndPass`), and writes `python` or `flat`; `Rebuild`
is the second path. Formatting is left out: the output is a sequence of statements.
`AliasesExact` says what every alias is worth but those of arrays of typedefs: C's size
and alignment where the typedef ends in a base type, a pointer or a record class, and
`c_void_p` where the code cannot tell what it ends in (`typedef struct T U`, a tag of an
enum, a name of an included header), whatever that measures in C.

**TreeEmitter.** `build_into` walks the entries and the slices of the pools they name;
`put_int` prints through an unsigned magnitude of `Width` bits; `build` bakes as many
statements as the array has room for, and the length of all. The values of enums arrive
as C++ literals (`LongLong`); where one is too large for `long long` (`Conforms`), the
compiler may refuse the header, and `Rebuild` then writes nothing.

**WebGpuApp.** `pc` is where a demo's `main` is; `got` the dictionary its callbacks fill,
`turns` what is left of the pump. `Answer` and `Execute` are the driver, `Resize` and
`Close` the user; both act between any two steps. Where app.py hands a null device
to the library, the program ends as `undefined`.

**MCContainers.** These containers share no state, so their behaviours need not be
interleaved: `subject`, chosen at the start, says which of them the behaviour runs;
the others stay initial. It extends `RingDeque`, `Bitset`, `UniquePtr`, `NodeLists` and
`SortedArrays`, about which theorems are proved, so that the run checks the very
definitions the theorems state, and instantiates the others; a property about those
joins what their own modules say, for example `CallsAsNamed`. `MCStores` extends `Hive`,
`HashTable` and `StaticMemory` for the same reason and instantiates `MultitypeMemory`;
`MCWebgpu` (the generator and the demos) is built the same way. Modules extended
together share no name, hence `HiveNext`, `cells` or `Numbers` where others say `Next`,
`slots` or `Values`.

## 3. Runs

| Run | Question | Bounds, and why they are enough |
|---|---|---|
| `MCDynamicArray` | are counts, buffers and elements in order after any sequence of calls, and is the array a vector, call by call | two arrays of elements that own something, an iterator, two backends, two buffers, two values, capacity 3 from a first growth of 1: two growths, moves within and across backends, arrays that die before their iterator, shifting over a full buffer, erasing in front, middle and back, elements of the array as arguments. While an iterator lives all elements are the default: iterators carry no values |
| `MCDynamicArray_alias` | does `insert(pos, a[j])` insert `a[j]` | violated, finding 1 |
| `MCDynamicArray_append` | does `push_back(a[j])` append `a[j]` | violated, finding 7 |
| `MCDynamicArray_overlay` | is every constructor run on a slot without an object | violated, finding 2 |
| `MCStaticMemory_exhausted` | is slot 0 never used | violated, finding 3 |
| `MCStores_tombstones` | is there always room after `maybe_grow` | violated with the source's eight buckets, finding 4 |
| `MCContainers` | does each of fifteen containers keep its structure and do what its calls say | see below |
| `MCUniquePtr_inside` | does move assignment survive a source inside the old object | violated, finding 5 |
| `MCSharedPtr` | counts and lifetimes in chains of destructions, and their end | three objects, two variables: chains of three, cycles, weak cycles |
| `MCStores` | are the hive, the hash map, arrays in static memory and multitype memories exact, and do the first three behave as their abstractions | see below |
| `MCWebgpu` | do the generator's bindings have C's layout, do both paths agree, do the demos await what they use, do all of them end | see below |
| `MCWebgpu_blob` | does the blob for a nameless record keep the layout | violated, finding 6 |

The bounds of `MCContainers`:

| Subject | Bounds |
|---|---|
| deque | two values, capacity 3 doubling to 6: the ring wraps before and after the growth |
| list, forward_list | two lists, four nodes, two values: first, last, only and inner nodes; copies and moves between lists that hold nodes |
| map, set | four keys: every parity of the interval at every level of halving |
| multimap, multiset | three keys, up to four entries: runs of equal keys in front, in the middle and at the end |
| priority_queue | up to six of four values: three levels, equal values |
| bitset | two of five bits in words of three: a full word and a tail |
| unordered_multimap, unordered_multiset | two keys that collide in the first table, four buckets doubling to eight |
| unordered_set | four keys, two of which collide in both sizes, four buckets doubling to eight |
| basic_string | two strings of up to three characters, two characters, `npos` = 4 |
| inplace_vector | four slots, two values |
| unique_ptr | two variables, three objects: chains of three, cycles |

Those of `MCStores`:

| Subject | Bounds |
|---|---|
| hive | four slots, two values, one traversal |
| unordered_map | five keys with the hashes 0, 4, 7, 2, 15: two collide in both sizes, two share a bucket of four and part in eight, and three change their bucket; four buckets doubling once to eight: chains wrap, tombstones are reused and can fill the first table, and an entry placed by the old capacity is lost |
| static memory | two arrays, six slots, a first growth of 2: each can grow twice, abandoning its buffers, and the block is used up to the last slot |
| multitype_memory | four types, two of which list others or nothing, sets and duplicates in requests and listings; two memories, two pointers, two backends, two buffers: an allocation vector that starts at one doubles, a downgrade outlives its source, a pointer outlives both. Four requests: one type; a set that repeats it; a listing type before the one it lists; all of them |

Those of `MCWebgpu`:

| Subject | Bounds |
|---|---|
| generator | every legal header of up to four declarations out of one of three families (sixteen to eighteen declarations each): structs that embed each other in both orders of their names, plain, in arrays and through typedefs, with forward declarations and an included file; chains of typedefs of up to three links in every order of names, to scalars, arrays, pointers, enums, structs, their tags and names of an included header; enums with repeated, negative and extreme values, constants, macros, functions and callbacks. Integers of 8 bits, so that the lowest has no counterpart. An array of 8 statements, which some headers overflow. Six command lines, with missing values, unknown options, and either or both outputs |
| demos | three turns of the pump (the answer may come before, within or after them), two frames, two window sizes and a minimised window |

`MCWebgpu_blob` takes a family of structs with nameless members, up to four.

Symmetry is used where the named objects (arrays, objects, variables, the
addresses `new` may return) play the same part and no temporal property with
fairness is checked. Sizes and capacities are the only unbounded quantities;
`MaxCapacity`, `MaxBuckets`, `MaxSlots`, `MaxSize`, `MaxLength`, `Capacity`,
`MaxBackends`, `MaxBuffers`, `MaxDeclarations`, `Turns` and `MaxFrames` bound them in
the guards; the last two are constants of the source made small.

**Fairness.** `SharedPtr` assumes `WF_vars(Step)`, where `Step` is the next step of a call
that has begun: one thread executes it and nothing in the code waits, so a step
that is enabled is taken. Which call the program makes next is never assumed.
`MCWebgpu` assumes weak fairness of the generator's next step and of a demo's own
next step, for the same reason: each is one thread. Nothing is assumed of the driver,
the window or the user, so `ToolsEnd` says of a demo that it ends although the driver
may never answer, since the pump is bounded, unless it is in the window loop and is
refused a texture for ever (`AcquireNone` at every turn), which the code allows. The
frame limit `WEBGPU_FRAMES` is set there; without it the loop runs until the user
closes the window.

## 4. Findings

1. `insert(pos, a[j])` reads its argument after the shift (`dynamic_array.hpp:417`).
2. `insert` and `erase` construct over moved-from objects (`dynamic_array.hpp:428,
   453, 467`), and `erase` leaves some above the new size (`:466`); what these still
   own is lost, which constant evaluation rejects. `NothingStranded` says that this is
   all that is left behind: no other call does, and no element a caller still had goes.
3. An exhausted `typed_static_memory` returns the null address, which
   `dynamic_array` uses (`typed_static_memory.hpp:165`, `dynamic_array.hpp:342`).
4. Tombstones fill an `unordered_map` whose live load stays low
   (`unordered_map.hpp:102`), and `operator[]` then indexes slot -1 (`:299`).
5. `head = std::move(head->next)` with `unique_ptr` deletes the object the source
   lives in before the source is cleared (`unique_ptr.hpp:38`): the new object
   dies with the old one.
6. The byte blob for a nameless embedded record has its size but alignment 1
   (`webgpu_introspect.cpp:185`), so it and the fields after it move.
7. `push_back(a[j])` at full capacity reads its argument after `reserve` has moved it
   out and destroyed it (`dynamic_array.hpp:344-345, 380`): another value for elements
   with a move of their own, and an error in constant evaluation for all.

Met while modelling and not checked by a run of their own, most of them since no line
of the repository claims otherwise or no state can show them:
the tree spells the lowest enum value as `-9223372036854775808LL`
(`webgpu_introspect.cpp:844-845`), the minus of a literal no `long long` holds, which
clang, the compiler of the repository's flake, refuses as narrowing and GCC takes with a
warning, so that the second path may write no module where `webgpu_emit_py.cpp:10-11`
says the two "produce identical files" (`PathsAgree` allows it there and only there);
an array of a typedef that sorts after it is emitted as an array of pointers
(`webgpu_introspect.cpp:566`; `AliasesExact` leaves these out);
a record that comes from an included header is used by value but not defined in
the module, whose import then fails (`SelfContained` is the precondition of the
layout properties); decimal macros with a leading zero are octal in C and refused
by Python; constants above 2^63 - 1 come out negative (`:360`); a text longer than
the array makes `fwrite` read past it (`webgpu_emit_py.cpp:227`); `app.py:109` does
not check the device; the pump does not look at an answer that its last turn
brought (`app.py:45-51`); a cycle of `relevant_of` does not compile though a comment
says cycles are prevented (`type_system.hpp:104`: `Seen` is handed on unchanged).

## 5. Proofs

Each proof module states an inductive invariant, proves that the initial states have
it and that every step keeps it, one lemma per action, and draws the theorems from it.
TLC has checked each invariant on a small instance before. What the proofs assume is
what the modules' own `...Assumption` says of the constants; no bound is small there.

`DynamicArray_proofs` covers every safety property of the array and its refinement:
types (`TypeCorrect`), counts (`CountsMatch`), buffers (`NothingDangles`), elements
(`ElementsStay`, `NothingLeaks`), `VectorSpec` (`ImplementsVector`) and the calls by
name (`CallsMatchVector`). The properties need one another: a backend that an array
points to is not deleted *because* its count is exact, its buffers stay because the
backend does, and a call writes to no element of another array because no buffer is
shared. `IInv` is their conjunction with `BlanksBlank`, that what is outside its lifetime
is blank and nothing lies at the null address, and without `NothingStranded`, which is
about steps: each call is one that strands nothing or an erasure. Counting goes through `OneMember`: the
number of members of a finite set changes by what is moved in or out. The arrays and
iterators of a program are assumed finite in number, for the counts to be numbers.
`CallsMatch` is about elements of the array as arguments where the code reads them
before it touches them; `InsertOwnMatches`, `AppendOwnMatches` and `NothingOverlaid` are
not proved, being false (findings 1, 7 and 2).

`StaticMemory_proofs` proves, for any number of arrays and any block, that buffers never
meet (`BuffersApart`), slot 0 stays free (`NullSlotKept`) and the arrays behave as
vectors (`ImplementsVector`). All of it is under `~ MayExhaust`: callers ask for no more
than `remaining_size()`; otherwise it is false (finding 3). `RegionsDisjoint` speaks of
living arrays and sets of slots; the invariant says the same by bounds, `Within` and
`Apart`, of every header, so that a header can be moved or dropped without looking at
the rest (`Retargeted`), and adds that a dead array has no buffer (`Dormant`).

`SharedPtr_proofs` proves `CountsExact`, `NoDangling` and `HeldOrGone` in every state,
those within a chain of destructions included, for any finite sets of objects and
pointers and so for chains of any length. The counts are those of the pointers only
while the calls under way end in the right order: `Stacked` says that a release which
deletes an object still names it, that no two end at the same pointer, and that an
assignment is the outermost call and finds its target empty when it stores.

`HashTable_proofs` proves that the table is exact (`MapExact`: no key twice, each entry
found, the count and the load right) and implements the partial function, call by call
(`ImplementsMap`), for any hash, any number of buckets and any history of tombstones and
growth. `EntriesReachable` is about one lookup and not inductive; the invariant says that
every entry lies on a *path*, a stretch of its key's probe without an empty slot (`Good`),
which tombstones keep and insertions only extend. That the probe of a key visits every
bucket is the arithmetic of `%` (`Remainders`). `Rehash` moves the entries with a recursive
function over the buckets; it is handled by induction on a set of naturals, which needs
no operator parameter. Its first entry must fit the new table, hence
`InitialCapacity * MaxLoadPct >= 100` in the assumption (8 and 70 in the source). The
insertion that finds no room (finding 4) is excluded where `CallsMatch` says so.

Of the three other hash tables it proves, under the same assumption, that lookups are
exact (`SetLookups`, `MultimapLookups`, `MultisetTableLookups`) and that calls do what
they are named for (`UnorderedSetBehaves`, `MultimapCounts`, `MultisetTableCounts`). The
slots of a set or multiset hold no value, in the model one value for all, and so
their theorems assume `Values = {Default}`, with that value for `NoValue`. The steps of
`unordered_set` are then those of `unordered_map` that insert, erase and clear
(`SetCalls`), and keep its invariant. Where keys repeat, the invariant is `LooseInv`, the
same without unique keys, and calls are followed through the number of times the table
holds each entry (`Times`): a write to a slot that is not filled makes one more
(`LooseWritten`), rehashing keeps them all (`LooseRehashed`) and erase leaves none of its
key (`ErasesKeep`). These tables need no exception for finding 4: `insert_impl` takes the first
slot that is not filled, and within the load limit there is one on every probe
(`FirstFree`). The theorems are about `HS!Spec`, `MH!Spec` and `HB!Spec`; `MCContainers`
runs the same actions when one of them is its subject.

`Containers_proofs` is about containers that share no state. Of `RingDeque` it proves, for every set of
values and every initial capacity, that the ring's numbers stay in range
(`TypeCorrect`), that it implements `DequeSpec`, each call by its name
(`ImplementsDeque`), and that references to other elements survive pushes and pops
that do not grow the buffer (`ReferencesStay`). `TypeOK` is inductive as it stands: it relates
`size`, `head` and the length of the buffer. The refinement argument shows, per
action, what `Content` becomes; the arithmetic of `%` is isolated in lemmas about
`Slot` (positions of one ring are distinct, a step at either end moves the
others by one). References stay because the slot a push writes belongs to a position
outside the ring (`PushBackAside`, `PushFrontAside`).

Of `Bitset` it proves, for every number of bits and every width of a word, that no
word keeps a one past the N-th bit (`TailStaysClear`), that comparing words is
comparing bits (`EqualityExact`) and that each operation is its operation of set
algebra (`ImplementsSetAlgebra`). The invariant is `BitsetTypeOK /\ TailClear`; the
arithmetic sits in three lemmas: `RoundsUp` (how many words there are), `Placed`
(each bit has a place, in the last word within the mask) and `Covered` (each such
place has a bit). `Replaced` then reduces a call to the words it stores, and has
one lemma per operation under it. What `count()` returns is a sum over words and
stays with TLC. The only assumption is `BitsetAssumption`: at least one bit, at
least one bit per word.

Of `UniquePtr` it proves, for any number of owners and objects and any graph they form,
that nothing leads to a deleted object (`NothingDeletedEarly`) and that every object has
exactly one owner or was released to the caller (`NothingOwnedTwice`), together
`OwnersSound`, which `MCContainers` checks. Both are under
`~ FromInside`: no owner is assigned from one inside what it owns (finding 5). The
invariant `Sound` says both of any memory and any set of released objects, so that a
call is a few applications of it: `make_unique` is a new released object and `reset`,
move assignment is `release` and `reset` (clearing the source afterwards changes nothing
that was deleted, by `SameChain`). What `reset` deletes is held by the owner or from
within (`WhatGoes`), so nothing that stays leads to it; and an owner the program can
name is no part of what it owns (`NamedOutside`), although swaps close cycles: these can
no longer be reached. As `Chain` is the least closed set, each of these facts takes one
closed set to show, and no induction.

Of the sorted arrays it proves, for every set of integer keys, that entries stay in
key order and searches find exactly what is there (`SortedLookups`), that `map` implements
`MapSpec`, each call by name (`MapRefines`), that `set` is a set (`SetRefines`), `multimap`
a queue of values per key (`MultimapRefines`) and `multiset` a bag
(`MultisetRefines`). The invariants are the order, strict for unique keys (`Rising`) and
not for repeated ones (`Climbing`), and the types. That halving finds the end of any
prefix (`SearchFinds`) is shown once for all four, by induction on the length of the
interval (`NatSetInduction`; the search is a recursive function of the pair of
bounds); that the keys less than `k`, and those not greater, are a prefix
is what the order is for (`BoundsExist`). A call then puts an entry in at a bound
(`Puts`), writes one (`Assigns`), takes one out (`Takes`) or cuts a run out (`CutOut`).
For unique keys each is followed through the function that the array spells
(`Spelled`), for repeated ones through where the bounds of every key lie afterwards
(`PutMoves`, `CutMoves`). The only assumption is `SortedAssumption`: keys are integers,
and a map's default is a value. The theorems are about `FM!Spec`, `FS!Spec`, `MM!Spec` and
`FB!Spec`; `MCContainers` runs the same actions when its subject is one of them.

Of `PriorityQueue` it proves, for every set of integers, that the array is always a heap
(`QueueStaysHeap`), and so that `pop` takes one element, the largest, while `push` adds
one and all the others stay, however many are equal (`QueuePopsLargest`, the property
`PopsLargest`). While an element climbs, all is in order but for it and its parent, and
its children are in order with its parent (`ClimbOrdered`); while one sinks, all is in order but for it
and its children (`SinkOrdered`); each exchange keeps this at the next index
(`ClimbStep`, `SinkStep`) and, being a bijection of indices, the number of times each
value occurs (`SwapCounts`). The sifts are recursive functions on pairs of an array and
an index. That such a function exists, and leads from where an invariant holds to where
it holds and stops, is shown once for any recursion that lowers a rank (`LeadsExists`,
`LeadsWithin`), by induction on a set of naturals.

Of `InplaceVector` it proves, for every set of values and every capacity, that each call
is the sequence's call it is named for, whatever the slots past the size still hold
(`InplaceBehaves`, the property `BehavesLikeSequence`). The theorems are about `PQ!Spec`
and `IV!Spec`; `MCContainers` runs the same actions when one of them is its subject.

`NodeLists_proofs` proves, for any lists, values and addresses and whatever address `new`
returns, that each node is in one place of one list and the links mirror each other
(`ListsOwnOnce`), that heads, tails, counts and nodes keep their types (`ListsTyped`), and
that `list` and `forward_list` implement `ListSpec`, the calls of `list` by name
(`ListsRefine`). `NodesOwnedOnce` speaks of walks along the links and is not inductive;
the invariant (`DoublyInv`, `SinglyInv`) says that there is a `P` that gives the nodes of
each list in order, such that
  - every node on the heap is at one place of one list, and only finitely many are (`Heap`);
  - head, tail and count are the first, the last and the length of `P[l]` (`Ends`, `Fronts`);
  - every node's `prev` and `next` are its neighbours in `P` (`Linked`, `Onward`).

A call then is a change of `P`: a place more (`Inserts`), a place less (`Removes`), one
list empty (`Empties`), one handed over (`Hands`) or one copied to new nodes (`Copies`).
Each call has a lemma that its assignments to links and ends, case by case, are
those of the changed `P`. `Walk`, which the
properties use, is a recursive function on the naturals: on a chain it returns `P[l]`
(`WalkIsChain`), by induction on a set of naturals (`NatSetInduction`). The refinement reads the contents off `P`
(`Turned`). The only assumption is `ListsAssumption`, that `new` does not return the null
pointer. The theorems are about `DL!Spec` and `FL!Spec`; `MCContainers` runs the same
actions when its subject is a list.

`Hive_proofs` proves `FreeListCorrect`, `TraversalCorrect` and `ImplementsHive` for
any number of slots. The inductive invariant `IInv` joins `HiveTypeOK`,
`FreeListExact`, `TraversalComplete` and `CursorInRange` (the cursor is
`NoCursor` or an index, possibly `end()`): `FreeListExact` is needed to know that
an insertion lands on an empty slot, so that it neither overwrites an element of
`todo` nor one under the cursor, and the range of the cursor to know that
`Advance` searches ahead of it. That `Advance` returns the *first* filled slot
rests on the least-number principle, taken from `WellFoundedInduction`. The
refinement then follows from the shape of each action under `IInv`. That every call
is the abstract call of its name, `HiveCalls`, is shown action by action (`CallsAsNamed`).

`Webgpu_proofs` proves that the walk over the records keeps its types
(`OrderTypeCorrect`) and that it orders every record once, after all that it embeds,
leaving none out (`OrderCorrect`), for any number of records. The theorems are about
`OrderSpec`, the walk alone on any acyclic `deps`; the generator runs exactly these
actions, once per emitter, on the `deps` it has computed, and `MCWebgpu` checks the
same `OrderSound` there. The inductive invariant `OrderInv` joins: `DepsOK` and
`Acyclic`; `MarksTell` (a record is done when it is in `order`, in progress when it is
on `path`); `Descending` (each call on the path was made for a dependency of the one
below, so a rank that embedding lowers falls along the path); `Visited` (the
dependencies a call has passed are done, or just above it on the path);
`RootsSeen`; and `DependenciesFirst`. `Descending` is what makes the early return for a
record in progress harmless: it would have to lie on the path above a record that
embeds it, whose rank is lower (`NoCycle`). No assumption on constants is needed;
acyclicity is the initial condition, as in C a struct cannot contain itself.

`Webgpu_proofs` also proves, of the two demos alone (`AppSpec`; `MCWebgpu` runs the same
actions), that no handle is used before its callback (`NoHandleEarly`), that app.py ends
well only with the frame's pixels (`PictureWhole`) and that interactive.py draws at its
surface's size (`FramesMatch`), for any number of turns, frames and window sizes. `AppInv`
adds `StepsInOrder` (a program leaves the pump only with the answer it waited for, which
is what makes a late answer harmless), `MappedOnceWritten` (what is mapped has been
executed) and `SizeFollowed`. The frame limit is assumed to be at least one, as
interactive.py takes 0 for no limit.

Model-checked only: the modules no proof module is about, among them the composed
generator (`LayoutPreserved`, `PathsAgree`, `AliasesExact`), `basic_string` and
`multitype_memory`; and liveness (`CallsReturn`, `ToolsEnd`), which the prover does
not handle. `MultitypeMemory` and `CTypes` compute with `RECURSIVE` operators and folds
over nested types; what these return for every input would need induction over
those, which is out of the prover's reach.

## 6. Plan

Modelled first were the array and its memories, on which the rest stands, then the
containers with hard state, then the pointers, then the binding generator. What is
left of the models, in this order: the implicit moves of `unordered_map`, `hive` and
the hash sets; appending a string to itself; iterators of the hash tables and
lists, `++end()` among them; unions and arrays of arrays in the generator. Then
proofs: that `find` of `basic_string` returns the first place; and the statements the
generator prints against the layout they are to have.

## 7. Not modelled

`queue`, `stack`, `vector` and `span` forward every call. `hash` and `random` mix
bits; the models take any hash. The storage layers under `impl/` and `storage.hpp`,
`factory.hpp`, `object.hpp` are unused or do not compile. `trace.hpp` prints during
compilation and does not compile itself. The rebinding templates of `type_system.hpp`
keep no state. Element destructors and moves that throw are not considered: the
library has no exception handling and constant evaluation has no exceptions.

Of the library: iterators except those of the array and the hive, implicit moves
except the deque's, strings appended to themselves, `bitset<0>`, assignments whose
source dies with the target (except in finding 5).

Of the generator: unions, bit-fields, flexible arrays and arrays of arrays; a name
declared twice where C allows it; conflicts of names between kinds other than tag
and typedef; the text of names, comments and literals beyond what decides the
output. Two vendored copies of `webgpu.h`, 11765 of the repository's 20277 lines, are
third-party input data and no code to model; the native example checks layouts by
static comparison.
