# A TLA+ model of the Lua 5.3 implementation

This directory holds TLA+ modules that model the C implementation of Lua in
`src/` (Lua 5.3 with comments added by the repository's author), TLC
configurations that check them on small instances, and theorems about them with
proofs checked by TLAPS. `PROJECT.json` maps every definition to the lines it
models and lists runs, mutants, findings, hazards and theorems.

As committed, `src/lvm.c` does not compile: the macro `vmfetch` (lvm.c:757, 759)
has `//` comments behind its line continuations. The model takes the macro
without them.

## 1. Inventory

| component | state | operations | interacts with |
|---|---|---|---|
| Collector (`lgc.c`) | colour bits of every object; lists `allgc`, `finobj`, `tobefnz`, `fixedgc`; gray lists; `gcstate`, `currentwhite`, `sweepgc`, `gcfinnum`; debt | `luaC_step`, `luaC_fullgc`, `luaC_newobj`, barriers, `luaC_checkfinalizer`, `luaC_freeallobjects` | called by every allocation point of the VM and the API; calls finalizers, which run arbitrary programs and re-enter the collector |
| API and VM as mutator (`lapi.c`, `lvm.c`) | stacks, registry, tables, userdata, metatables | push, pop, get, set, closures, metatables | barriers; `luaC_checkGC` after each creation |
| Closures and upvalues (`lfunc.c`) | list of open upvalues of a thread, reference counts, closure cache of a prototype | `luaF_findupval`, `luaF_close`, `getcached`, `lua_upvaluejoin` | list `twups`, collector |
| Calls, errors, coroutines (`ldo.c`, `lcorolib.c`) | `CallInfo` list, stack, `nCcalls`, `nny`, `errorJmp`, status | call, return, pcall, throw, resume, yield, hooks, stack growth | VM, collector, debug interface |
| State (`lstate.c`) | `global_State`, threads | new state, new thread, close | collector |
| Strings (`lstring.c`) | string table, API cache | interning, resizing, removal | sweep |
| Tables (`ltable.c`, `ltm.c`) | array part, node part with collision chains, `lastfree`, metamethod absence flags | get, new key, rehash, next, length | collector, dead keys |
| Memory (`lmem.c`) | none of its own | `luaM_realloc_`, vector growth | emergency collection |
| Objects, numbers (`lobject.c`, `lvm.c`) | none | conversions, arithmetic, comparisons, loops | |
| Lexer, parser, code generator | token buffer; scopes, gotos, labels; jump lists, registers | statement and expression compilation | tables and strings anchored for the collector |
| Precompiled chunks (`ldump.c`, `lundump.c`, `lzio.c`) | position in the piece a reader delivered | dump, undump, fill | the reader may be a function of the program and run the collector |
| Debug interface | hook, hook counter | hooks, line tracing | calls, signal handler of `lua.c` |
| Auxiliary library (`lauxlib.c`) | buffer with its box on the Lua stack, list of free references | `luaL_Buffer` functions, `luaL_ref`, `luaL_unref` | API |
| Table and string libraries | the loop they are in; `MatchState` | ranges, `sort`, pattern matching | API; order functions and metamethods of the program |
| Other libraries | file handles, `package.loaded` | I/O, OS, require | API |

What makes the system hard is not parallelism, for there is one C thread, but
**interleaving at every allocation**: the collector does a little work each time
the program creates something, so that every heap operation can happen at every
point of a collection; finalizers run inside a collector step and are programs
themselves; an allocation failure runs a whole collection inside any operation;
coroutines share upvalues with stacks that may be garbage. The correctness of
each component:

* collector: nothing reachable is freed, garbage is freed, finalizers only for
  garbage and once, weak tables lose exactly what is unreachable, no step
  leaves the lists in a state the next one does not expect;
* closures: all closures over one variable share one cell, freed with the last;
* calls: a protected call restores what it found, a yield crosses only what may
  be crossed, the stack may move at every call;
* tables: a key set is found, a traversal visits each key once;
* strings: a content has one string, which is in its chain and counted;
* compiler and machine: a program does what it means; a jump goes where it was
  meant to, a variable is in scope or is not, registers are freed in order;
* numbers: exact at the limits, no overflow where the code says none;
* libraries: every call does what it says and ends, whatever the functions of
  the program it calls answer.

`PROJECT.json` lists the hazards with their lines.

## 2. Plan

Done, in this order:

1. the heap shared by program and collector, and the whole incremental collector;
2. tables, as the implementation of a map;
3. calls, errors, hooks and coroutines, as the implementation of threads that are
   stacks of functions with protected calls;
4. the code generator, the parser and the virtual machine together, against a
   direct evaluation of the syntax tree;
5. the parts of the runtime and libraries that share no state: numbers, ranges of
   the table library, `sort`, precompiled chunks, pattern matching, the string
   table, string buffers and references;
6. theorems about the heap, up to memory safety and what the collector clears and
   finalizes, about the counters, frames, handlers and continuations of calls and
   their refinement of threads, about tables, the matcher, buffers, references and the table library.

Left, in this order:

1. proofs: the other direction for the collector, that what is marked in an emergency
   collection was reachable (`EmergencyFreesGarbage`); the chains of the string table;
2. the sweep of `luaC_freeallobjects`, with `luaF_close` in the mark phase;
3. an abstract heap that only frees garbage, with `LuaGC` shown to implement it;
4. line hooks and line information, tail calls in `LuaCall`; the limits of the
   compiler (registers, upvalues, constants beyond `MAXARG_Bx`).

## 3. Modules

| module | models | extends |
|---|---|---|
| `LuaHeap` | objects, colours, lists, references, marking, freeing, sweeping | |
| `LuaMutator` | operations of the program, one action each, with the write barriers | `LuaHeap` |
| `LuaCollector` | single steps, atomic phase, sweep, finalizers, full collections | `LuaMutator` |
| `LuaGC` | composition, specification, properties | `LuaCollector` |
| `LuaMap` | what a table promises: a map with a traversal | |
| `LuaTable` | one table of `ltable.c` with its metamethod cache; implements `LuaMap` | |
| `LuaThreads` | what calls promise: threads as stacks of functions with pending protected calls | |
| `LuaCall` | `ldo.c`: calls, protected calls, throws, resume, yield, hooks; implements `LuaThreads` | |
| `LuaCode` | `lcode.c`: jump lists, registers, expressions, as operators on a `FuncState` | |
| `LuaParser` | `lparser.c`: scopes, upvalues, gotos, statements and expressions, on syntax trees | `LuaCode` |
| `LuaSemantics` | what a program means: an evaluator of syntax trees | `LuaParser` |
| `LuaVM` | `luaV_execute`: one action per instruction; specification of a compiled program | `LuaSemantics` |
| `LuaNumbers` | integers of `W` bits, floats with `NBM` bits, comparisons, shifts, numeric `for` | |
| `LuaTableLib` | `insert`, `remove`, `move`, `concat`, `pack`, `unpack`, an iteration a step | `LuaNumbers` |
| `LuaSort` | `table.sort`, a call of the order function a step | |
| `LuaChunk` | `string.dump`, `load` of a precompiled chunk, readers, the collector meanwhile | |
| `LuaPattern` | the matcher of `lstrlib.c`, an item of the pattern a step | |
| `LuaSearch` | `find`, `match`, `gmatch`, `gsub` on top of it | `LuaPattern` |
| `LuaMeaning` | what a pattern means: all ways to match, in order of preference | `LuaSearch` |
| `LuaStrings` | the string table, the API cache, emergency collections inside operations | |
| `LuaAux` | string buffers with boxes; references | `LuaNumbers` |
| `LuaFinalizers` | the order of finalizer calls, nested collections, `lua_close` | |
| `LuaLibrary` | composition of the independent parts, one of which a program uses | `LuaTableLib`, `LuaSort`, `LuaChunk`, `LuaMeaning`, `LuaStrings`, `LuaAux`, `LuaFinalizers` |
| `LuaHeapProofs` | theorems: types, reference counts, phases | `LuaGC` |
| `LuaSafety` | no code: the inductive invariant of memory safety | `LuaGC` |
| `LuaMutatorProofs`, `LuaSafetyProofs` | it is inductive: the program, then the collector; theorems: memory safety, what is cleared and finalized is garbage | `LuaSafety` |
| `LuaStacks` | no code: the inductive invariants of calls | `LuaCall` |
| `LuaCallProofs` | theorems: the first two layers are inductive; the counters are exact | `LuaStacks` |
| `LuaThreadsProofs` | theorems: the third is too; handlers, continuations, overflows; the refinement of `LuaThreads` | `LuaCallProofs` |
| `LuaTableProofs` | theorems | `LuaTable` |
| `LuaLibraryProofs` | theorems about the matcher, buffers and references | `LuaSearch`, `LuaAux` |
| `LuaTableLibProofs` | theorems: `sort` and the functions on ranges are right | `LuaSort`, `LuaTableLib` |
| `MCHeap`, `MCWeak`, `MCClosures`, `MCFindings` | instances for TLC | `LuaGC` |
| `MCTable`, `MCCall`, `MCPrograms`, `MCLibrary` | instances for TLC | `LuaTable`, `LuaCall`, `LuaVM`, `LuaLibrary` |

The modules look at the same program from several sides. To the collector a table
is the set of its entries; to `LuaTable` the collector is what kills keys
(`removeentry`) and clears entries (`ClearEntry`) between two operations. To
`LuaCall` what a function does is any operation its kind allows; `LuaVM` runs the
instructions of one Lua program and its calls never fail for want of stack.

### The heap: state

An object is a model value of one of the kinds in the constants (`Tables`,
`Udatas`, ...). `color[o]` is the colour, `"free"` if the block is not
allocated; a freed object may be created again. The references are functions per
kind: `entries` (non-nil pairs of a table), `mt` (metatable), `val` (user value,
or the upvalue of a C closure), `clp`/`upv` (prototype and cell of a Lua
closure), `cache` (of a prototype), `uv` (cells: thread if open, value,
`touched`, count), `stk` (live slots of a thread, as a set), `stale` (the slot
just above the top, which still holds an old reference).

The lists of `global_State` are sets. What the order of a list decides is kept
in two variables: `sweepgc`, the object whose `next` field the sweep pointer is
at (or the head of a list), and `unswept`, what follows it; which objects come
next is left open. Gray lists are sets too: `propagatemark` takes any member.

`cstack` is the C stack as far as it decides who runs: frames `step`
(`luaC_step`), `few` (`runafewfinalizers`), `fin` (a finalizer), `full`
(`luaC_fullgc`). The program runs if it is empty or a finalizer is on top. So a
finalizer may create objects, start the next `luaC_step`, run a full collection
or raise an error that unwinds all frames below it up to the program
(`luaC_step` lets the errors of finalizers through). `atom` is the program
counter of `atomic()` with its local variables.

### The heap: actions

Each operation of the program is one action of `LuaMutator`, including the
barrier it ends with; `NewObject` etc. create in the current white and anchor in
the stack. The collector's actions are the single steps of `singlestep`, with
`atomic()` split into the loops it consists of, during which nothing else is
enabled. `luaC_step` runs at least one single step, as many as its debt asks
for, which is left open, and then, outside the pause, a few finalizers.
`luaC_fullgc` enters the sweep at once if marks are in progress, finishes the
cycle, and runs a whole one.

Abstractions:

* Numbers, nil, light C functions: `Num`, `Nil`; a finalizer is a C function
  behind a table of `HasGC`, weak modes are given by `WeakMode` of the metatable.
  Both are fixed per run; which metatable an object has changes freely.
* One upvalue per closure; a prototype stands for itself and its nested ones.
* Node order of a table matters only in `traverseephemeron`: two passes over an
  arbitrary split of the entries stand for it. Whether a weak-valued table has
  an array part is open.
* Sharing of the slots above the top is reduced to the slot just above it.
* Emergency collections happen between operations; `LuaStrings` has those within.
* Left out: pacing arithmetic, `gcrunning`, `luaC_fix`, stack shrinking, light C
  functions, `lua_close`.

Why `gcrunning` may be left out: `GCTM` sets it to 0 while a finalizer runs, but
a finalizer may call `collectgarbage("step")` or `("restart")`, so a step in a
finalizer is possible and is what the model allows.

### The table

`array` and `node` are `t->array` and `t->node` as sequences; the empty node part
is the dummy node. A node has its key, whether the key is dead, its value, and
the number of the next node (the code holds the distance). `lastfree` is as in the
code. `flags` holds the metamethods whose bit says "absent". `iter` is what the
program does with the table: filling it in a constructor (`"new"`), a traversal
with its control key, and whether the program has kept the rule of `next`, to
assign nothing to a field that has no value.

`luaH_resize` is cut where it calls `luaH_set`: the step that allocates the parts
puts what must be re-inserted into `todo`, the vanishing slice of the array first,
then the nodes from the last to the first, and at the end the key the rehash was
for; each step `Reinsert` is one of these calls, with a rehash of its own if it
needs one. So a nested rehash is possible in the model, and `NoNestedRehash`
says that it does not happen. Nothing but `Reinsert` is enabled meanwhile.

`SetTable` is `t[k] = v` without a metamethod, `lua_rawset` and `lua_rawseti` are the
raw stores, which differ in what they do to the cache; `SetFails` is an assignment
whose resize runs out of memory or room; `SetList` is `OP_SETLIST`; `luaT_gettm`
looks a metamethod up and caches its absence; `FirstNext`, `luaH_next` and
`InvalidKey` are calls of `next`; `luaH_getn` is an operator, as it changes nothing.

* Keys are taken after the conversion of integral floats, which the operations
  do first (`Normal`). A hash is a constant function, so that the instance
  chooses the collisions. An object stands for its address: a new object at the
  address of a dead key is the same key; a dead key matches only in `findindex`.
* Collections happen between the operations; the one that the allocation in a
  resize may cause is left out here too.
* A constructor calls `SetList` once, with no more than one flush of values.
* Errors that change nothing (nil or NaN as a key) are left out.
* `stored`, which no action reads, is the request of the last assignment; the
  refinement needs it to compare the map with what was asked for.

`LuaMap` allows a step only if the map changes by exactly what was stored or
cleared, and a traversal only if it visits each key once, only keys that have
a value, and ends when none is left out. The refinement maps a pending insertion
to the entry it will make: an assignment takes effect when it is called, and the
steps of a resize are invisible.

### Calls

`state[L]` has the fields of a `lua_State` that decide control: its `CallInfo`
list `ci`, status, `nCcalls`, `nny`, `allowhook`, `errfunc`. The one C stack of the
process is `cstack`, the activations of the C functions that matter, of all threads: a
call of `luaV_execute`, of a C function, of `lua_pcall`, `lua_resume`, the parser, a
hook, a finalizer. `luaD_throw` is a long jump: it cuts `cstack` back to the
innermost activation that catches, restores what `luaD_pcall` or `lua_resume` saved,
and in a coroutine `recover` looks for a protected call that yielded before
(the CIST_YPCALL frames). `mode` says where in a call or an error the C code is,
so that each handler of the source is a sequence of actions with the program's
choices between them. `unroll` finishes interrupted calls one by one, in
`finishCcall` and `luaV_finishOp`.

An activation has the thread and the frame it belongs to, and what it saves in local
variables of C. A nested level of the parser is an activation of its own, as it
counts as a C call.

`LuaThreads` knows only threads, functions and pending protected calls: an error
goes to the innermost pending protected call of its thread, or kills the thread; a
coroutine goes back to the one that resumed it (`resumer`), and one that has ended or died
is no longer `alive` until its place is taken. The refinement finds the protected calls where the code keeps them: on the C stack
and, after a yield, in suspended frames.

Left out: line hooks, tail calls (in `LuaVM`), `lua_checkstack`, panic, main calls without
protection, yields inside call and return hooks, the addresses a reallocation
of the stack changes.

### The compiler and the machine

A `FuncState` is a record; each function of `lcode.c` and `lparser.c` is an
operator that returns the new one. Jump lists are threaded through the jumps of
`fs.code` as in the source, registers are a stack with `freereg` and `nactvar`,
expressions are `expdesc` records with their `t` and `f` lists. The assertions of the
source are conjuncts of `fs.ok`. The tokens are abstracted to the tree they form. `LuaVM`
then executes the instructions, one action each, with frames, base, top, open
and closed upvalues.

`LuaSemantics` evaluates the tree without registers, instructions or shared
upvalues: each `local` makes a cell, a closure keeps the cells of its
environment, a `goto` unwinds to the block of its label. `OutputAgrees` compares the two.

Left out: floats in programs (so no floating-point constants), `LOADKX` and
`EXTRAARG`, coercions, metamethods, line numbers, the limits on variables, upvalues
and C levels.

### The library parts

`LuaLibrary` puts eight independent parts side by side; a behaviour uses one of
them, so their states add up and do not multiply.

* `LuaNumbers`: integers wrap at `W` bits; a float has `NBM` bits of mantissa
  (`W > NBM + 1`, so that not every integer is a float, as in the source), and its
  value is kept in halves. The references are exact arithmetic and
  arithmetic modulo `2^W`. Left out: `/`, `^`, `//` and `%` on floats, bitwise
  `and`, `or`, `xor`, strings as numbers.
* `LuaTableLib`: an iteration is a step; a table answers every integer, as one
  with metamethods may. Left out: metamethods that raise an error in the
  middle, elements of `concat` that are no strings, `maxn`.
* `LuaSort`: the order function answers anything, or compares keys; `RANLIMIT` is
  small, so that the pseudo-random pivot occurs.
* `LuaChunk`: a chunk is a sequence of units; the reader delivers it in pieces, may
  stop, may be a Lua function that steps the collector. As in `f_parser`, the first
  character decides between binary and text and the mode is checked for that kind: no
  input is an empty text, which compiles, and a dump whose first character differs is
  text, which does not (`luaY_parser`). Where a block of a binary chunk is short, it is
  refused. Left out: text chunks of more than a character (`LuaParser`), the upvalue that `load` sets.
* `LuaPattern`, `LuaSearch`: a call of `match` is a frame, a step an item of the
  pattern; captures are undone as in the source. `LuaMeaning` lists all ways to
  match. Left out: classes other than letters and digits.
* `LuaStrings`: chains, growth, shrinking, removal, resurrection and the cache;
  every allocation may collect in the middle of `internshrstr` or `luaS_resize`.
  Left out: the bytes of a hash, long strings.
* `LuaAux`: the box of a buffer is a value of the Lua stack; sizes wrap at `W`
  bits; allocations fail. References: the list of free keys lives in the table, whose
  length is any border. Left out: the finalizer of a box after an error, files.

* `LuaFinalizers`: `finobj` and `tobefnz` as sequences and `gcfinnum` as a number,
  which `LuaCollector` keeps as sets and as a truth value; collections by their
  phases, in steps, full, of an emergency, or within a finalizer; errors; `lua_close`,
  also from a finalizer (`os.exit`). `marking` and `promised` only record what has
  been marked and found dead. An incremental cycle may miss an object the
  program has just forgotten, a full one may not. Left out: colours, the freeing
  of the objects, `lua_close` within itself.

## 4. Runs

| run | instance | shows |
|---|---|---|
| `heap` | registry, table `m` with `__gc`, userdata `u`; `GCSWEEPMAX` 1; `MaxFrames` 4; full and emergency collections | all invariants of the core together, with finalizers that nest collections |
| `weak` | weak-keyed table `w` with `w[x]=y`, `w[y]=x`, its own metatable, `x` as basic metatable; or `v` weak values, `z` all weak and finalizable, a string; emergency collections | ephemeron convergence, order of clearing and separation, garbage freed |
| `closures` | two Lua closures, a C closure, a prototype, two cells | barriers of upvalues, closure cache, reference counts |
| `coroutines` | a coroutine and the main thread, two closures, two cells | `twups` and `remarkupvals` |
| `table` | keys 1, 2, the name of a metamethod, an object whose entry a collection may clear; a float equal to 2 | the table is a map under every sequence of operations; chains, free positions, sizes, border, cache and `next` |
| `calls` | seven programs: sets of operations for the main thread and two coroutines | counters, handlers and continuations after every jump; errors reach their protected call |
| `programs` | programs on closures, lists, gotos, and all small boolean expressions in all places of an expression | compiler and machine do what programs mean |
| `library` | calls of each of the nine parts, at the limits | each agrees with its reference and ends |
| `join_self`, `all_weak`, `reader_collects`, `close_collects` | smallest instances | the findings of section 7 |

### What the properties say

Heap. `NoDanglingRef` is memory safety in the strong form that an object the
sweep will keep refers, even weakly, through a cache or from a slot above the top,
only to objects the sweep will keep; `LuaHeapProofs` proves that it implies
`ReachableAllocated`, that what the roots keep alive is allocated. `HeapSound`
conjoins `NoBlackToWhite` and `GrayListed` (the two sentences of lgc.h:14-25), `ListsPartition`,
`SweepPointer`, `SweepRestoresWhite` and `OpenInTwups`, which restate assertions
of the code that lie far from what makes them true, as do `PropagateHasGray` and
`PendingFinalizersCounted`. `OnlyGarbageFinalized`, `WeakValuesCleared`,
`WeakEntriesKept` and `EmergencyFreesGarbage` compare a step with `Reachable`,
the least set closed under strong references with ephemeron semantics.
`EmergencyFreesGarbage` is about programs without the two sources of garbage that
outlives a cycle (`MayFloat`): an object key of a table with weak values, which is
marked before its entry is cleared, and the value of an upvalue touched in an
earlier cycle, in a thread that died since. TLC shows either, in a variant of
`weak` and in `coroutines`, to break the formula without this condition.

Table. `NodesSound` (`ChainsSound` and `NoNestedRehash`) and `FreePositions` are what
the search loops, `getfreepos` and `luaH_resize` rely on; `LengthIsBorder`,
`TMCacheSound` and `NextFindsKey` are promises of comments in ltable.c;
`ImplementsMap` is the refinement.

Calls. `CountersExact` compares `nCcalls`, `nny` and `allowhook`, which five functions
save and restore each in its own way, with the C stack. `ContinuationReady`: a
yield jumps over nothing that cannot be left, and `unroll` finds a continuation.
`HandlerAlive`: `errfunc` belongs to a frame that exists. `OverflowHandled`: handlers
of overflows stay within the extra room, and a stack keeps its extra size only while the frames
that filled it are there. `ImplementsThreads` is the refinement.

Programs. `OutputAgrees` (and bad gotos are rejected), `CompilerSound` (the assertions of the
compiler, and code the machine can run unchecked), `FunctionsCloseUpvalues`,
`Terminates`.

Library. `NumbersExact` (order, arithmetic and loops), `RangesExact`, `SortSafe`
(`SortSound`, `RecursionShallow`), `LoadSound` (`RoundTrip`, `BufferSafe`),
`SearchAgrees`, `DepthCounted`, `StringsSound`, `AuxSound` (`BufferExact`,
`RefsExact`), `FinalizersInOrder` (in reverse order of marking within a cycle, cycle after
cycle, once for each marking, all by the end of `lua_close`), `CallsEnd` (calls and
collections).

Every property has a mutant: a variant of one definition, kept beside it in
the module and named for its fault, under which TLC finds the property violated.

### Bounds

*Heap.* `MaxStack` 2 objects per stack: an operation has at most two object
operands, and the rest can be held by the registry. `MaxFrames` 4 in `heap`
allows step, few, finalizer, and a step or full collection within it.
`FullKinds` chooses which full collections occur. `Writes`, `Metas`, `Vals`,
`Locals`, `Assigned`, `Joins` are the stores the program may do; they include a
cycle in each run. `Exposed` the objects followed above the top. A larger graph
for `heap` (one more table, 5.3 million states) was checked as well and is not
kept among the runs because of its size.

The passing runs exclude what the findings and observations of section 7 are
about, and nothing else: `GCSWEEPMAX` is at least the number of finalizable
objects, an all-weak table has one metatable, `Joins` holds no pair of a closure
with itself.

The `VIEW` of the passing runs identifies states that differ only in which of
the two whites is the current one, and ignores the gray lists outside the mark
phase: `restartcollection` empties them before anything reads them
(lgc.h:23-24), and no action distinguishes the whites otherwise. `closures` and
`coroutines` use symmetry of the two closures and of the two cells, which the
constants treat alike. `weak` is constrained to the tables of one kind at a time:
the two kinds met only in garbage.

*Table.* The hashes make the metamethod's name collide with 1 in every size and
the object with other keys in some; the node part starts with 4 nodes, so that
chains of several keys with free nodes between them occur before the first
rehash, and shrinks to 0, 1 and 2. The array part reaches 2 and holds a list of 2.
Every key may be nil, present, without a value or (the object) dead, in every node
that it can reach, so the reachable states are all, with no bound on the length of
a run. The value of a key is one and nil; two keys share theirs and two others
another one, so that an exchange of entries shows. `LUA_MAXINTEGER` 3 makes the
probe of `unbound_search` reach its overflow branch. The instance with a third
integer, 4, and `LUA_MAXINTEGER` 6 (102473 states) was checked as well and passes.
The `VIEW` leaves out `stored`, which decides nothing.

*Calls.* `LUAI_MAXCCALLS` 5 with 2 extra calls and `MAXFRAMES` 5 with 1 extra
frame, so that both overflows occur, also while an overflow is being handled.
`MaxActs` 14 bounds the activations; it is more than the longest chain that the
other limits allow in these programs. Each program joins the operations whose
interplay is delicate; a program with all of them is out of reach.

*Programs.* `MAXINDEXRK` 3 and `LFIELDS_PER_FLUSH` 2 make constants that need a
register and constructors with several flushes occur in small programs;
`STACKSIZE` 60 is never reached. The boolean expressions are 147 combinations of seven small ones
by `and`, `or` and `==`, and their negations, each in the place of a value, an
argument, a condition and a loop, for three values of the two locals.

*Library.* `W` 4 and `NBM` 2: integers from -8 to 7, floats that are exact up to
4. Table calls have positions and lengths at both ends of the integers; `MaxResults`
6 stands for the stack's limit. Sorts have all arrays of up to five keys and some of eight; `RANLIMIT` 4 and
`IMBALANCE` 1 let large and unbalanced intervals occur there. Pieces of a reader have up
to 2 units. `MAXCCALLS` 4 and `LUA_MAXCAPTURES` 2 are reached by patterns of the
instance. A string table has 4 to 16 chains for five contents. Buffers hold up
to 6 bytes, start with 2, and areas of 8 and 14 make sizes wrap. Six references, three
objects, up to two reserved entries. Two finalizable objects, whose names new
ones take again, and two finalizers within each other; three objects (260471
states for this part alone) were checked as well.

Deadlock is checked in the heap, table and calls runs. `programs` and `library`
stop when the program or the call has ended.

## 5. Fairness

`LuaVM`: `WF_vars(Next)`, since the interpreter is a C loop that goes on; with it
`Terminates`. `LuaLibrary`: `WF` of the next-state relation, since a C function that
runs runs on, and `WF` of `ReaderReturns`: a reader function may step the collector
before it returns, and it does return. With them `CallsEnd`, for every order
function and every way to deliver a chunk. The program chooses none of these
steps. A collection runs on likewise, and a finalizer is taken to return: as
it can mark each object once and the collections within it end, what it does
before is finite. `CallsEnd` says of collections that none of them is the innermost for ever.
It makes an exception for collections within `lua_close` (`close_collects`). No fairness for the collector (`LuaGC`), for calls or for tables:
a new collector step happens only if the program allocates, and a program may
stop calling at any time.

## 6. Proofs

All theorems are for every value of the constants that satisfies the named
assumptions of the modules (kinds disjoint, sets finite, parameters of their
types).

* `LuaHeapProofs`: `TypeCorrect`, `Spec => []TypeOK`. `TypeOK` is inductive as it
  stands. The lemmas follow the modules: marking, freeing, barriers and sweeping
  as operators on well-typed states, then one lemma per group of actions.
* There, `RefcountCorrect`. `RefcountExact` alone is not inductive:
  a closure of an unallocated block could hold a cell, and its creation would
  drop the reference without counting. `RefInv` adds `FreeHoldNothing` (and
  `TypeOK`). The count of a cell changes in four ways: creation, capture, join,
  freeing (a set of closures at a time, lemma `RefFreed`). The assumption
  `NoSelfJoin` is needed: `join_self` shows the theorem false without it.
  `HeldCellInUse` concludes that the cell of an allocated closure is in use.
* There, `PhaseInv` relates the phase to colours and pending
  finalizers: outside a cycle the main thread is white, so that
  `restartcollection` makes it gray; the atomic phase runs only with its
  states; pending finalizers are counted. From it `PropagateCorrect` and
  `PendingCorrect`. `NoDanglingReachable` is a lemma on states.
* `LuaMutatorProofs` and `LuaSafetyProofs`: `MemorySafe` (`NoDanglingRef`) and
  `HeapAlwaysSound` (`HeapSound`), from `SafetyInv` of `LuaSafety`, which is inductive with
  `TypeOK`; see below.
* `LuaTableProofs`: `TableTypeCorrect`, `FreePositionsCorrect`, `NodesAlwaysSound`,
  `CacheAlwaysSound`, `NextAlwaysFindsKey` and `TableIsMap`, from the assumptions on hashes
  and sizes of `LuaTable`; see below.
* `LuaLibraryProofs`: `DepthAlwaysCounted`, `Spec => []DepthCounted`, for every
  subject, pattern, limit and function. `DepthInv` adds that no call of `match`
  waits while the search runs; then each of the four ways an item ends, and each
  return to a frame, is one lemma on the stack.
* `LuaLibraryProofs` again: `AuxAlwaysSound`. For references the invariant needs no order of
  the list of free keys: no two links lead to the same key, none to a reference in
  use, at most one out of the table, and none if the list is empty
  (`LinksApart`, `OneEnd`). It follows that a key after a border, which
  `luaL_ref` takes when the list is empty, is the target of no link, although the
  table has holes; and that running out of memory at any point loses at most a
  key. For buffers the invariant is the shape of the stack and `SpaceOK`; the step
  that matters is `NewSizeFits`: a size that passes the test of
  `luaL_prepbuffsize` has room for what is added, wrapped around or not.

### Memory safety

Two hypotheses exclude what section 7 shows to break it. `OneAllWeakMeta`, about the
stores of the program: a table that gets an all-weak metatable gets no other one
(`all_weak`). `FewPending`, about a state: no more objects wait for their
finalizers than a step sweeps, so that no step ends within `tobefnz` (the first
observation of section 7). The code's `GCSWEEPMAX` is 100; more objects may wait
in a real program, and the theorem says nothing of it.

`NoDanglingRef` is about objects that are kept, and what is kept is decided by
colours, whose meaning changes with the phase. So `SafetyInv` has a part for all
times and one for each phase:

* always: what is kept refers to what is kept (`KeptOK`); free blocks hold no
  references (`FreeOK`); an open upvalue that can be found belongs to a thread that
  is in `twups` (`TwupsOK`) and kept; the threads that have resumed one another form a
  chain from the main thread, each in the stack of the one before (`ThreadsOK`), which
  is why a running coroutine cannot be freed; what lies below the frame of a
  finalizer in the stack stays there (`FramesOK`);
* mark phase: what a black object refers to is not white, but for the value of an
  open upvalue, which is `touched` (`BlackOK`, `UpvalueOK`); each gray object is in one
  list, and an all-weak table is done but for its metatable (`GrayIdleOK`);
* atomic phase: a gray object that is not waiting for a traversal has been visited,
  and the invariant says what a visit leaves undone for each weakness
  (`GrayAtomicOK`); the roots are marked again (`RootsOK`); when a round of
  `convergeephemerons` has marked nothing, no ephemeron has a marked key with a
  white value (`ConvergenceOK`);
* sweep: what has not the current white is ahead of the sweep pointer (`SweepOK2`).

The phases meet in the flip of the current white at the end of `atomic`: the lists of
work are empty, so all that is gray has been visited, the clearing has removed what
weak tables refer to, and what is marked is closed under references
(`AtomicFinishSafe`). From then on to be kept is to be marked or new, and the sweep
frees only what is neither. In the mark phase `KeptOK` costs nothing, as all that is
allocated is kept; there the work is in `BlackOK`: each operation of the program, with
its barrier, restores it, one lemma per operation in `LuaMutatorProofs`.

TLC checked `SafetyInv` on the four instances `heap`, `weak`, `closures` and
`coroutines` (up to 766827 states) before it was proved.

### What the collector clears and finalizes

`GarbageFinalized`, `ValuesCleared` and `EntriesKept` prove the action properties
`OnlyGarbageFinalized`, `WeakValuesCleared` and `WeakEntriesKept`. All rest on one lemma,
`ReachableMarked`: when `convergeephemerons` has converged, the marked objects and the
allocated strings hold the roots and are closed under strong references, the
ephemerons' included, so they include `Reachable`, the least such set; what the next
step clears or separates is white, hence garbage. For the tables among them the
lemma needs that the lists of weak tables tell their mode, which `setmetatable` could
change between two visits: `ModesOK`, inductive with `SafetyInv` and checked by TLC on
the same four instances. A table with weak keys is in `allweak` only if all its
values are marked.

The hypothesis is stronger here, `AllWeakStays`: an all-weak table keeps its metatable. It
stays gray in `allweak` once it was traversed, so that taking the metatable away runs no barrier;
its entries are strong from then on, but `atomic` still clears those with a white half.
No reference dangles (`MemorySafe` admits it), but the program loses entries it can reach:
the other half of the finding `all_weak`.

`GrayAlwaysRevisited` proves `GrayRevisited`, which `all_weak` violates, for programs
in which an all-weak table gets no other metatable.

### Calls

`CountersExact` counts activations on the C stack, and the code restores counters from
values saved before: `luaD_pcall`, `lua_resume`, `GCTM` and `recover` each assume that what they
saved was right and that what lies between may be forgotten. So the invariant must say what
is saved where, and who may be above whom. It is in layers (`LuaStacks`), of which the first two are:

* `CountInv`: each activation was made by one that can make it (`Made`); what it saved is
  the count at its own place (`Saved`); the activations of a thread lie together, from its
  `lua_resume` on (`Together`), so that a long jump leaves no thread; where `nny` is 0, nothing
  but calls that may yield is above the resume (`Yieldable`), which is why `recover` and
  `lua_resume` may set `nny` to 0; the threads below have the counters of their last
  activation, and the others wait with `nny` 1 (`OthersOK`); a suspended `lua_pcallk` was made with hooks
  allowed (`ThreadOK`), for `recover` restores that bit.
* `FrameInv`: the activations of a thread have their frames in order, each is where it
  was when it goes on (`AtFrame`, `Extent`); one of `luaV_execute` has exactly the frames that
  OP_CALL pushed since it was entered, so that CIST_FRESH ends it at the right return;
  the suspended calls are in frames of C functions. So `luaD_poscall` never removes the base
  frame, and an error cuts the list of frames to one that exists.

`LayersInvariant` proves both together for every program, every limit and any number of
coroutines, one lemma per action and layer; from them `CallTypes` and `CountersAlwaysExact`. TLC
checked both layers on the instance of `calls` before they were proved.

The third layer is about what a yield or an error leaves for later (`LuaThreadsProofs`):

* `HandlersInv`: suspended protected calls are older than those on the C stack, and the `errfunc`
  that each saved is of a still older one, or none (`Older`, `ErrfuncOK`); the C function that made a
  suspended call waits in it (`Waits`) or was left by a yield; the function that
  returns next has none pending (`Rests`). So restoring `errfunc`, in whatever order `luaD_pcall`,
  `recover` and `finishCcall` do it, gives a handler that is still there: `HandlerAlwaysAlive`.
* `ReadyInv`: a C function that calls what may yield has a continuation (`MayContinue`), and so
  has each one that is no longer active, except the last, which `lua_resume` lets return
  (`LeftOK`); for those below a suspended call it holds even if they are active, since an error
  leaves them. Hence `ContinuationsAlwaysReady`; that a yield jumps over nothing else is `Yieldable`.
* `RoomInv`: a frame beyond `MAXFRAMES` belongs to a handler that was called when the stack was
  full (`Overflow`), and suspended calls are never there, since a handler cannot yield. So
  cutting the frames to those of a protected call made before the overflow gives the extra room back.
* `LimitInv`: a thread reaches `LUAI_MAXCCALLS + EXTRACCALLS` C calls only with the error that
  `luaD_call` throws there, and calls no handler. With `RoomInv`: `OverflowAlwaysHandled`.

`StacksInvariant` has all of it. `Live` excludes dead coroutines: `lua_resume` leaves the frames and
`errfunc` of a dead one as the error found them, which is harmless because nothing runs in it again.
TLC checked the third layer, too, on the programs of `calls` before it was proved.

`CallsImplementThreads` is the refinement. `LuaThreads` sees of a step of the thread that
runs only how its own stack changes (`OwnAbstract`): the activations below the cut and all other
threads keep their pending calls and their `lua_resume` (`UnmovedAbstract`). So each action
comes down to the number of pending calls per function before and after (`WasPending`,
`IsPending`), which a cut or a push changes by the `luaD_pcall`s in it (`PcallsKept`,
`PcallsAdded`, `PcallsRemoved`) and CIST_YPCALL by one: most steps do nothing (`Quiet`),
`luaD_pcall`, GCTM, the parser and a `lua_pcallk` do `Protect`, their returns and
`finishCcall` do `Unprotect`, `CatchInPcall` and `Recover` do `Caught`. That the call
`luaD_pcall` or `recover` catches in is the innermost of *all* pending calls is where
the layers are needed: frames are in order, suspended calls are older than those on the C
stack (`Older`), and at a `lua_resume` nothing else of the thread is on it (`ResumeFirst`).
`LeaveAbstract` and `StartRefines` are the steps between threads: a coroutine takes its pending
calls with it, all suspended, and finds them again.

The hypothesis is `HooksAvoidMetamethods`: in a coroutine, no hook uses an operator with a
metamethod. Otherwise (the observation of section 7) a call that may yield is
above a hook, `Yieldable` fails, and a yield would jump over the hook with `allowhook` 0.

### Tables

The inductive invariant is `TypeOK /\ Inserting /\ CacheOK /\ TravOK`.

* `FreePositions`, with `TypeOK`: no node changes from a key to none except in a resize, which
  starts all over; `getfreepos` returns the largest free node, so the free ones
  that remain are below, and if it returns none there is none (`LargestMember`).
* `NodesOK` is `ChainsOK` of the keys, the links and the dead nodes, as functions apart from the
  table, so that the three ways of `luaH_newkey` are three lemmas on functions: `TakeChains`,
  `LinkChains`, `MoveChains`. A chain is what no set closed under the links leaves out
  (`Follow`), and what the proofs know of it are nine lemmas (`FollowStart` to `FollowFirst`).
  `ChainsOK` is stronger than `ChainsSound`: every key, with a value or not, is in the chain of its
  main position; no link leads to a free node; a dead node of a key
  comes after the live one (`OneLive`), so that `findindex` meets the live one first. The keys
  without a value must be in their chains because `luaH_newkey` asks a colliding node for
  its main position whatever its value.
* `ArrayOK`: no node holds a key of the array part. So a key has one place.
* `RoomOK`: the keys still to be inserted by a resize that need a node are no more than the
  free nodes, and none occurs twice. It follows from the count of `rehash`
  (`RehashRoom`) and is kept by each insertion (`ReinsertRoom`); hence `NoNestedRehash`.
* `CacheOK`: a bit of the cache is set only for an event whose entry, *counting the pending
  insertions*, is nil. During a resize an entry is neither found nor gone.
* `TravOK`: a traversal with its promise stands at one place, and has seen the keys with a value
  up to that place and no other. A covered assignment changes no key's place (`StoreLayout`).

For `TableIsMap` the contents are what `luaH_get` finds, or the last of the pending insertions.
The heart of it: what `luaH_resize` moves to `todo` is exactly what it
takes from the two parts (`MovedEntries`, `ResizeGet`), and each `Reinsert` trades one pending entry for one
found (`ReinsertContents`, by `SetGet`). `NextMaps` then has one step per action: assignments are
`Map!Assign`, calls of `next` are `Map!Start`, `Map!Visit`, `Map!Finish` or no step
(`NextTraversal`), a cleared entry is `Map!Assign` of nil, and `Reinsert`,
`removeentry` and the cache are invisible. TLC checked the invariant on the instance of `table`.

### The table library

`SortAlwaysSafe` and `RangesAlwaysExact` are about `SortSpec` and `TabSpec`, the calls by
themselves: `LuaLibrary`, where the run `library` checks the same properties of the same
definitions, contains recursive ones. `SortAssumption` and `TabAssumption` give the types of the calls.

*Sort.* `SortSound` says what holds at each comparison; `SortInv` adds why:

* the intervals of the active calls are apart, and each call has at most half of its
  caller's: `2 ^ (k - 1) * (size + 1) <= n + 1` for the `k`th of them (`FramesOK`). This is what the
  choice of the smaller part in `auxsort` gives, by any pivot; `RecursionShallow` follows;
* with an order, the elements of each interval are between those around it (`Apart`), and
  two neighbours in the wrong order are in one interval that is left to do (`Ordered`), so
  an array with none left is sorted;
* `PhaseOK`, per comparison to come: where the pivot is, and the loop invariant of
  `partition`: `a[lo .. i - 1] <= P <= a[j + 1 .. up]` with the pivot's copy at `up - 1` and a smaller
  or equal element at `lo`, which are why neither scan leaves the interval under an order;
  for no order, the two checks for it are why.

That exchanges within an interval change nothing of this for the others is one lemma
(`ShuffledToDo`); what `partition` leaves to do is another (`SplitToDo`). TLC checked `SortInv`
on all arrays up to five keys and some of nine before it was proved.

*Ranges.* `TabInv` says for each loop which part of the result is there
already (`InsertLoop`, `RemoveLoop`, `MoveLoop`, `ReadLoop`, `PackLoop`). The arguments that matter: the
copy of `table.move` never reads an index it has written (`MoveGoesOn`), for the direction
that `Upwards` chooses; its two checks, which do not overflow themselves, are equivalent to the
ones with unbounded arithmetic (`MoveStarts`); the unsigned difference in `unpack` is the
difference (`DifferenceIs`); and where `size + 1` overflows in the checks of `insert` and `remove`,
the call is refused or right whatever the comparison answers (`InsertStarts`, `RemoveStarts`).
TLC checked `TabInv` on the calls of `library` before it was proved.

### Model-checked only

Of the heap: that an emergency collection frees what is garbage, and liveness of a
collection. Of the table: `LengthIsBorder`, for the searches of
`luaH_getn` are recursive functions. What
the compiler, the machine and the library functions compute is compared with
recursive definitions, about which the prover can show nothing. Liveness and
`ENABLED` are out of its reach too.

## 7. Findings

* `join_self`: `lua_upvaluejoin` of an upvalue with itself frees the cell and
  then uses it.
* `all_weak`: an all-weak table that was traversed is gray in a list nobody
  traverses again; a metatable given to it later is freed while in use.
* `reader_collects`: `LoadString` reads a long string into an object that nothing
  refers to; a reader function that steps the collector makes it free the
  string, which is then written to and stored.
* `close_collects`: `lua_close` makes all finalizers pending but leaves `gcfinnum`,
  which may be 0. A finalizer that then steps the collector breaks the assertion of
  `runafewfinalizers`; one that calls `collectgarbage` when `lua_close` came
  in the middle of a cycle, with another finalizer pending, waits for ever in
  `GCScallfin`. A program built from the sources does so: two tables whose `__gc` collects,
  `collectgarbage("stop")`, garbage, some `collectgarbage("step")`, and the end of
  the script. `PendingFinalizersCounted` and `PendingCorrect` are about all states
  before `lua_close`.

Noticed while modelling, without a run of their own:

* `runafewfinalizers` after a step that swept part of `tobefnz` moves the object
  that holds the sweep pointer to `allgc` (lgc.c:788); objects left in `tobefnz`
  then stay black after the sweep, in spite of lgc.h:57-58.
* The assertion at lgc.c:987 fails when a barrier grays a weak table between the
  last propagation step and the atomic phase; harmless without assertions.
* A hook that uses an operator with a metamethod: `luaT_callTM` (ltm.c:115-116)
  decides by `isLua(L->ci)`, which is the hooked function's, that the metamethod may yield.
* `gmatch_aux` does not reset `matchdepth` (lstrlib.c:603): after a caught error
  the iterator has fewer calls left. `DepthCounted` is about all other cases.
* `forlimit` (lvm.c:135) clips a limit that is NaN to the smallest integer when
  the step is negative: the loop runs. An integer loop whose limit is the
  largest integer does not end: its index wraps around.
* `table.insert` and `table.remove` compute the size plus one, which wraps around if
  `__len` answers the largest integer.
* A right shift is a left shift by the negated amount (lvm.c:987, lobject.c:95), which
  overflows for the smallest integer.
* `iscleared` (lgc.c:139) marks a string even if the entry it is in is cleared for
  its other half, so that it survives a cycle; hence the strings in `EmergencyFreesGarbage`.
* `lua_gc` sets `gcrunning` for a step and restores it after (lapi.c:1145-1156), but
  not if a finalizer's error comes through: a stopped collector runs then.
* `lua_close` during the mark phase runs the upvalue barrier on what may be freed
  already (lgc.c:967).

## 8. Not modelled

Section 3 says what each module leaves out; `PROJECT.json` gives it for each
component. No module models: the lexer's tokens, number formatting and parsing, `string.format`,
`pack` and `rep`, `utf8`; line information and the symbolic names of the debug
interface; the freeing of all objects by `lua_close`; the pacing of the collector; `require` and dynamic loading;
files, the operating system, command lines and the terminal. The first two groups
convert or format data, the others are input and output or, in the case of `lua_close` and the
pacing, left for the plan.
