# A TLA+ model of the echo-js runtime

echo-js compiles ECMAScript 6 ahead of time: a compiler written in JavaScript
(`lib/`) emits LLVM IR, and the compiled program is linked with a runtime in C
(`runtime/`) that provides values, objects, the standard library, a garbage
collector and a run loop. This directory models the runtime: the collector and its
allocator, promises and timers on the run loop, generators, objects and proxies,
arrays and typed arrays, maps and sets, weak collections, strings, JSON, regular
expressions and the operators. TLC checks the models on small instances; the
safety of the collector, the page allocator, promises, timers, generators, objects,
proxies, arrays, typed arrays and all collections is proved with TLAPS for every instance.

Contents: [inventory](#inventory), [plan](#plan), [modules](#modules-and-code),
[runs](#runs), [fairness](#fairness), [findings](#findings),
[deviations](#deviations-met-on-the-way),
[proofs](#proofs), [limits](#what-is-not-shown).

## Inventory

| component | code | state | operations | what is hard, and what makes it correct |
|---|---|---|---|---|
| collector | `ejs-gc.c`, `ejs-module.c` | bitmap entry per cell (free bit, two colour bits), `white_mask`/`black_mask`, `root_set`, work list | `_ejs_gc_collect_inner`, `mark_from_roots`, `mark_from_modules`, `mark_thread_stack`, `process_worklist`, `_scan_ejsvalue`, `sweep_heap`, `_ejs_gc_add_root`, `_ejs_gc_remove_root`, `_ejs_gc_shutdown` | colours change meaning at each collection, free cells can be named by stale stack words, one cell is found along many paths; no live cell is freed and no garbage stays |
| page allocator | `ejs-gc.c` | arenas, `heap_pages[]`, `free_pages`, per page bitmap, `num_free_cells`, `bump_ptr`, `los_list` | `_ejs_gc_alloc`, `alloc_from_page`, `alloc_page_from_arena`, `alloc_from_los`, `finalize_object`, `_ejs_finalize_obj` | pages wander between lists and size classes; counts, bitmaps and links agree, a page is reformatted only when empty, every call ends |
| intrusive lists | `ejs-types.c`, `ejs-types.h` | `prev`, `next`, `head`, `tail` | append, prepend, detach, pop_head, and the `EJS_LIST_`/`EJS_SLIST_` macros | one list corrupted by one operation is damaged by a later one |
| promises | `ejs-promise.c` | state, result, two reaction lists, one `alreadyResolved` per pair of resolving functions | constructor, `then`, `catch`, `Promise.resolve`, `Promise.reject`, `all`, `race`, reaction and thenable tasks | user code runs in between; one resolution, final state, handlers once and in order, nothing forgotten |
| run loop (libuv) | `ejs-runloop-libuv.c` | timer handles, one per task | `_ejs_runloop_add_task`, `_ejs_runloop_add_task_timeout`, `_ejs_runloop_remove_task`, `_ejs_runloop_start` | first in first out; a task's destructor runs at most once |
| run loops (noop, darwin) | `ejs-runloop-noop.c`, `ejs-runloop-darwin.m` | none; dispatch queues | the same | platform code |
| timers | `ejs-timers.c` | handle and callback per timer | `setTimeout`, `setInterval`, `clearTimeout`, `clearInterval` | clearing a timer from its own callback or while it is due; memory of fired timers is used again; every timer fires as often as asked |
| generators | `ejs-generator.c`, `ejs-gc.c` | a stack and context per generator, the collector's `generators[256]`, the iterator wrapper | `next`, `throw`, `yield`, `getNextValue`, `getRest` | who is resumed with what when generators call each other; the array matches the nesting; generators are coroutines |
| maps and sets | `ejs-map.c`, `ejs-set.c` | list of entries in insertion order, `next_index` of each iterator | get, set, has, add, delete, clear, size, forEach, iterators | iteration while entries are added and deleted; one entry per key, results and order of an ordered collection |
| weak maps and sets | `ejs-weakmap.c`, `ejs-weakset.c` | entries kept on the key object under a hidden symbol | get, set, has, add, delete, constructors | map, key and value die in any order; a weak collection answers as if it held its entries |
| modules and require | `ejs-module.c`, `ejs-require.c` | the export slots, loaded or not | `_ejs_module_resolve`, `require` | cyclic imports see partly initialised modules |
| objects and property maps | `ejs-object.c` | hash table with insertion order, prototype, extensible | the internal methods, `Object.*`, for-in | long sequences of definitions; the essential invariants of the language |
| proxies and reflection | `ejs-proxy.c`, `ejs-reflect.c` | target and handler | the traps and their checks | a trap changes the target before it answers |
| arrays | `ejs-array.c` | elements, length, allocation; dense or sparse | the methods of Array.prototype | callbacks change the array under the method; fast paths next to generic ones; uninitialised slots |
| typed arrays | `ejs-typedarrays.c` | buffers, windows on buffers, views | constructors, methods, DataView | views of several sizes on the same bytes; bounds; lifetime of the bytes |
| strings and symbols | `ejs-string.c`, `ejs-symbol.c` | flat, rope or dependent, cached hash | flatten, concat, substring, search, split, replace, iterators | flattening in place under strings that share parts; units and answers that must not depend on the representation |
| JSON | `ejs-json.c` | stack, indent, gap, property list | `stringify`, `parse` | callbacks change what is being written |
| regular expressions | `ejs-regexp.c` | `lastIndex`, flags | `exec`, `test`, match, replace, split | loops driven by `lastIndex`, which the program can change |
| operators and values | `ejs-ops.c`, `ejsval.h` | none | conversions, equality, relations, bitwise, `parseInt` | conversions run the program's methods; numeric edges |
| functions, other builtins | `ejs-function.c`, `ejs-date.c`, ... | none to speak of | library functions | mostly sequential |
| start-up and shutdown | `main.c`, `ejs-init.c` | none | init calls, entry module, run loop, collector shutdown | order |
| compiler | `lib/` | scopes, passes | desugaring, closure conversion, code generation | pure transformations of trees |
| bindings | `ejs-llvm/`, `node-llvm/`, `node-compat/`, Objective-C and WebGL | none of their own | wrappers | I/O |

How they interact. Compiled code and every builtin call `_ejs_gc_alloc`; that
call may run a collection, which walks the roots, the modules, the C stack and
through the `Scan` operation of each class every object, the reaction lists of
promises among them. Promises and timers hand tasks to the run loop, which
`main` starts when the entry module has returned; the tasks call user code,
which calls the promise operations again. Methods that take callbacks (sort, forEach,
replace, stringify, conversions) hand control to the program while they hold
indices, lengths, keys and pointers. Everything runs on one thread: what is
concurrent here are the orders in which user code, callbacks, tasks and collections
follow each other.

`PROJECT.json` lists the components with their status, and the hazards, each at
its line with the properties that guard against it.

## Plan

Modelled and checked: what the next section lists. Proved: the safety of the
collector and of the page headers, promises with adoption, timers,
generators with their refinement, objects with their property maps and proxies, Map
and Set with their iterators, forEach and their refinement, the weak collections, the slots,
callbacks and sort of arrays, and the bounds and lifetime of the bytes of typed arrays.
Next, in this order:

1. **Promise combinators**: `Promise.all` and `Promise.race`, once their element
   functions count (see deviations).
2. **Addresses**: `find_page_and_cell` as integer arithmetic over arenas, and the
   segmented work list as a refinement of the stack of EjsGC.
3. **Composition of collector and pages**: EjsGCPages refines the free set of
   EjsGC, as long as no page is on two lists.
4. **Modules** and cyclic imports; **compiler**: exitable scopes and import
   resolution as operators checked against reference definitions.

## Modules and code

### EjsGC: the collector

Obj is the set of cells; `freeCell` and `color` are the bits of the page
bitmaps, `white_mask` and `black_mask` the two masks that trade places at the
end of each collection. `fields[o]` is what the `Scan` operation of `o` visits.
`root_set` counts the entries for a root variable, since
`_ejs_gc_add_root` does not look for duplicates and `_ejs_gc_remove_root`
detaches the first one.

The mutator is any program: it holds references in stack slots (`locals`) and
reads, writes and drops references that it can reach. A collection is a sequence
of steps, one for each iteration of each loop of `_ejs_gc_collect_inner`:
`mark_from_roots`, `mark_from_modules`, `mark_thread_stack`, then
`process_worklist` and `_scan_ejsvalue`, `sweep_heap`, and the exchange of the
masks in `EndCollect`. `pending` is what the current loop has still to visit,
visited in any order. The mutator does not run in between; the steps are there so
that the invariants are checked at each of them.

Abstractions.

- The stack scan yields any set of words that includes the live locals: stale
  and accidental words are arbitrary, and include words that name free cells. On
  X86 and AArch64 `MARK_REGISTERS` is empty, so that a live reference is found at
  all rests on the compiler having spilled it; this is an assumption of the model.
- A reference to the inside of an object is a reference to the object.
- Cells in pages and large objects are treated alike: both have a bitmap entry.
- `_ejs_gc_shutdown` is called by `main` only when `GC_ON_SHUTDOWN` is set, which
  it is not by default; the action is there since the function is.

### EjsList and EjsGCPages: the page allocator

EjsList translates the list operations assignment by assignment over a record of
links, so that they also do to a damaged list what the C code does. EjsGCPages
has the pages of one arena (all arenas are searched in turn, so a larger arena
stands for several), their header fields, the lists, the large object store and
the request in progress. `_ejs_gc_alloc` starts a request, possibly with a
collection first; `AllocFromPages` and `alloc_from_los` are the body after
`retry_allocation`; `sweep_heap` visits one page at a time and frees any set of
its cells. A size is its class, the number of its power of two. An index outside
`heap_pages[]` leads to the phase "undefined", in which nothing more happens and of
which `AllocReturns` claims nothing; it is what the retry of an object of up to 64 bytes
comes to (see deviations). mmap may fail at any time.

### EjsPromise: promises and the task queue

A promise is its number in the sequence `promise`; its record has the state, the
result, the two lists of reactions and the `alreadyResolved` flag of every pair
of resolving functions made for it. A pair is named by the promise and its index.
Reactions are numbered in the order they are malloced, and `freed` are those
that `reaction_arg_dtor` has freed. `tasks` is the queue of libuv timers with
timeout 0; `current` is what is on the C stack: the script, a task, or nothing.

User code (the script, a handler, a foreign `then` method) makes up to `MaxOps`
calls, in any order and with any promise or pair it has got: `new Promise`,
`then` and `catch`, resolve and reject functions, `Promise.resolve`,
`Promise.reject`. The tasks are the two closures of the C code,
`PromiseReactionTask` and `PromiseResolveThenableTask`. Values are plain values,
promises, foreign thenables, and objects whose `then` getter throws.

Abstractions: a TypeError is the value `undefined`; the handlers of `then` are
user functions or the identity and thrower defaults; subclassing (a constructor
other than Promise) is left out. `task->repeats` is not initialised by
`_ejs_runloop_add_task`, so whether a finished task runs its destructor is a free
choice from the constant `Repeats`. Rejections are with plain values only.

### EjsMapSet and OrderedCollection: Map and Set

The two classes have the same code twice, except for delete, so one module models
both and `kind` says which it is; their operations are separate actions. `entries`
is the list from `head_insert` to `tail_insert`. Nothing is ever unlinked: delete
and clear write the magic value `Empty` over an entry. An iterator keeps
`next_index`, and `returned` is the history of the entries it has given out. A
`forEach` call is on the stack `loops` while its callback runs; the callback may
call any operation, another `forEach` included, return or throw. `res` is the
last operation with its result.

OrderedCollection is what a program may rely on: a list of items without
duplicate keys, and the result of each operation. The mapping `Abstract` leaves
the erased entries out and turns -0 into +0.

Abstractions. Keys are objects, `undefined`, `null` and the two zeros; numbers
other than zero compare like objects. Strings and booleans are left out: compared
with a value of another type, `SameValueZero` reads the payload of one as that of
the other, which is undefined (see the [deviations](#deviations-met-on-the-way)). A constructor with an iterable is a
series of adds. An entry of a Set has the value `undefined`. `_ejs_map_delete` is a
stub: the steps are comments, it changes nothing and returns false. OrderedCollection
deletes, so with the constant `MapDeletes`, by which a program may delete a key that its
Map has, the code does not implement it (see [findings](#findings)); without it, deleting
an absent key is right to change nothing.

### EjsPropertyMap, EjsObject and EjsProxy: objects

EjsPropertyMap is the hash table pointer by pointer: buckets, the links of the
chains and of the insertion order, growth through the list of primes. Its operations
are operators from map to map, so that EjsObject can use several in one step.

EjsObject has the descriptor conversions, every internal method of ordinary objects
as an operator on the heap that yields a status and a new heap, and one action for each
call a program makes: create, define, set (with any receiver), delete, relink
prototypes, freeze, seal, preventExtensions. `Object.assign` is a cursor over a live
property list: between two entries a getter runs, and the program may do any of these.

EjsProxy has the proxy's methods for a proxy of an ordinary object. A trap is code of
the program: it may change the target and return anything, so the methods are
operators of the heap after the trap and of its result, and `ProxyHonest` is checked for
all results in all reachable heaps.

Own keys are sorted by the difference of their numbers as ints of `Word` values, which is
what `string_index_compare` computes, and `qsort` is any sort that is right when there is an
order to sort by.

Abstractions: values have identity only; two objects and six names, with hashes
that collide; getters and setters are functions that the model calls by returning a
value. The names that are numbers are the constant `Index`, for any strings that
`ToNumber` takes to an integer, and several may have the same number.

### EjsArray and EjsTypedArray

EjsArray has one array with its length, allocation and slots; a slot is a value, the
magic hole or `Garbage`, what malloc returned. The edits (push, pop, shift, unshift,
splice, reverse, fill, concat, slice, copyWithin) exist on the fast path of dense arrays
and as the generic algorithm; methods with callbacks, and the sort with its stack of
ranges, proceed by one callback or comparison at a time, and the program may change the
array in between. Growth is by the constants `Slack` and `GrowBy`.

EjsTypedArray has buffers, windows (the slices of a buffer), typed arrays and data
views over the bytes of independent buffers. A number is stored by conversion to
bytes and read back from bytes, in either byte order. `Walk` is the way from a window to
the buffer that has the bytes. `Collect` frees what the scans do not reach. Bytes have three values, so that a two-byte element still wraps.

### EjsGenerator and Coroutine, EjsTimers, EjsWeak

EjsGenerator: fields and stack of each generator, the context that runs, the
collector's array. All C code between two pieces of JavaScript is one step, the
switch of context and what the other side does on waking included. Coroutine is what a
program may rely on, a stack of routines; `ImplementsCoroutines` is the refinement. The
iterator wrapper that the compiler uses for array destructuring is part of the model.

EjsTimers: the blocks of memory that hold libuv's timers, which malloc may hand out
again, and the timer objects of the program. libuv is external: timers due at the same time fire
in the order they were started, a repeating one is started again before its callback is
called. The program acts in the main script and in callbacks.

EjsWeak: the inverted representation, in which each key holds a Map from weak maps
to values; the collector frees exactly what is not reachable. Deleting from a weak map
is the stub `_ejs_map_delete` (`ejs-weakmap.c:62`), deleting from a weak set erases;
`WeakMapDeletes` says whether programs delete entries that a weak map has. `asked` is the
history of what was put in, and `WeakExact` compares the answers with it.

### EjsString, EjsJSON, EjsRegExp and EjsOps

EjsString: a heap of primitive strings, flat, rope or slice, older ones referred to
by newer ones. Flattening rewrites a string in place with the code's own loops over
offsets. `meant` is a history: the sequence of code units the language assigns to each string,
computed by a reference definition for each method. Any string may be flattened
or iterated at any time. Hashes are not modelled: they do depend on the representation
(see deviations), and what relies on them is the property map, which has its own.

EjsJSON: one frame per activation of SerializeJSONObject and SerializeJSONArray, with
the keys or the length it read on entry; `toJSON` and replacer may change the graph
between two steps. A text is a sequence of tokens; characters are escaped one by one.

EjsRegExp: the RegExp's `lastIndex` and flags, and the loops of match, replace and
split step by step. pcre is external: a pattern is any function from a position to the end
of the match there. `exec` is found by its name, so the program's own may answer
anything, and the replacement function may use the same RegExp.

EjsOps: an operator yields a value and the methods it has called, in order; ints have
`Bits` bits.

Definitions marked "Fault" in the modules are deviations of single definitions
from the code, of the kind a mistake in the code would make; no specification
uses them. Each shows that a property is able to detect such a mistake.

## Runs

| run | configuration | checks | bounds, and why they are enough |
|---|---|---|---|
| gc | MCEjsGC.cfg | `TypeOK`, no dangling reference, `ColoursConsistent` (masks, work list, free cells), marking = reachability, `OnlyGarbageFreed` (nothing that references reach is freed, and nothing else is left), `CollectionEnds`; `AllocReturns` | 2 cells, 1 root variable that may be registered twice, 1 module: cycles, shared and dead cells, cells reused across any number of collections. The theorems below cover all sizes; no symmetry, since it is unsound for liveness. The second part is EjsGCPages with 2 pages and objects of 128 and 256 bytes: one whose retry goes on with the list of the smallest class, and one for the large object store |
| pages_safety | MCEjsGCPages.cfg | `HeadersExact`: types, `NumFreeIsExact`, `BumpRegionIsFree` | 2 pages, classes of 3 and 2 cells and one large object: full, partly full and empty pages, reuse for the other class, out of memory |
| promise_safety | MCEjsPromise.cfg | `TypeOK`, `OneResolver`, `HandlersOnceInOrder`, `SettledIsFinal` | 4 calls of user code, a single value: chains of three promises, nested adoption, two handlers on one promise, late handlers. No throwing `then` getter, see deviations; `Repeats = {FALSE}`, so every reaction is freed, which is the harder case |
| promise_values | MCEjsPromiseValues.cfg | `ValuesFlow` (handlers and adopting promises get the result), `DerivedResolves` | 3 calls, two values, a throwing getter, both values of `Repeats` |
| collections | MCEjsMapSet.cfg | `TypeOK`, `KeysUnique`, `IteratorInOrder`, `ForEachVisitsAll`, `Implements` | `MapDeletes` = FALSE: Map.delete is called for absent keys only, Set.delete for any. 4 entries ever added, keys +0, -0 and two objects, 2 values, 1 iterator, 1 forEach: enough to delete or clear before and behind the point of iteration and to add a deleted key again |
| map_delete | MCEjsMapDelete.cfg | `Implements`, violated: see findings | as collections, `MapDeletes` = TRUE |
| objects | MCEjsObject.cfg | `TypeOK`, `ObjectsSound`, `KeysExact`, `ProxyHonest`, `PromisesKept` | 2 objects, 3 indices of which one wraps as an int, two strings and a symbol, 4 calls: a table that grows while it has collisions, strings that keep the order they were created in, data and accessor properties converted both ways, freezing and then changing |
| arrays | MCEjsArray.cfg | `ElementsInitialised`, `MethodsExact`, `CallbacksExact` | length 3, values 1 and 2, 3 calls, growth by 2: reallocation, holes, elements equal and not, a change under a running sort or visit. The invariants try every argument on every array reached. `MethodsExact` compares the fast paths with the generic ones but for holes, slice for 0 <= start <= end, and leaves copyWithin out (see deviations) |
| typed_arrays | MCEjsTypedArray.cfg | `ViewsSafe`, `AccessExact` | buffers of 4 bytes, 3 buffers, 2 views, 3 calls: elements of one and two bytes that overlap at odd offsets, windows of windows |
| services | MCEjsServices.cfg | `GeneratorsExact`, `ImplementsCoroutines`; `TimersConsistent`, `FiresAsAsked`, `TimersFire`; `WeakCollections` | 3 generators nested to the full depth, 2 values to send and yield; 3 timers on 2 blocks, so that memory is used again; 3 keys, 2 weak maps and a weak set, 4 calls, with and without a prototype among the keys, `WeakMapDeletes` = FALSE. The three parts share no state, and each behaviour is of one part |
| text | MCEjsText.cfg | `StringsExact`, `JsonExact`, `RegExpExact`, `LoopsEnd`, `OperatorsAgree` | 2 literals, thresholds 3 and 2 in place of 32, 3 calls: ropes of slices and slices of ropes; graphs of 3 objects, one change by a callback, depth 3; every pattern on subjects of 0 and 2 units, 2 calls; ints of 4 bits and all pairs of operands of every type. Again each behaviour is of one part |
| string_slice | MCEjsTextSlice.cfg | `FlattenExact`, violated: see findings | as text, strings only |

The properties named here are conjunctions of smaller ones where these belong
together; each part has its own name and comment in the module:
`ObjectsSound` has `PrototypesEnd`, `OneKind`, `IntegrityReached`, `AssignedIsRead` and
`DescriptorRoundTrip`; `KeysExact` has `KeysInOrder`, `OrderKept` and `ForInComplete`;
`StringsExact` has `FlattenExact`, `UnitsExact`, `AnswersExact`, `IteratorExact`, `ReplaceFits`; and so on. Type invariants of the
smaller modules are parts of them.

Deadlock is not checked anywhere: a program may exit, the queue of the run loop
may be empty for good, the bounded user code may have made all its calls, and a
runtime that has aborted has no next step.

With the list damage described below, EjsGCPages can reach states in which a page
is on two lists; `HeadersExact` holds in those states too, and in every arena
(see proofs): it is about what a header says of its own page.

## Fairness

- `WF(CollectorStep)`, `WF(AllocStep \/ SweepStep)`: the collector and the
  allocator are plain C calls that nothing interrupts.
- `WF(_ejs_runloop_start)`, `WF(TaskStep)`: `main` calls the run loop after the
  entry module, and `uv_run` goes on until no timer is left. It includes that the
  script and the handlers return; one that loops for ever blocks the thread, and
  then nothing is promised. No fairness is assumed of the calls user code makes.
- `TimerFairness`: the loop is started, time passes, `uv_run` calls a timer that is
  due, and callbacks return. libuv orders due timers by time and then by start, so no
  timer can be overtaken for ever; that is part of the model, not of the fairness.
- `ReFairness`: the loops of match, replace and split are C code that runs on; the
  program's own exec returns.

## Findings

**A slice inside a rope** (run string_slice). `flatten_dep` (`ejs-string.c:2264`)
adds the offset of a slice that is a part of a rope, but does not limit the copy to
the slice's length. A substring that reaches from the slice into the next part of the
rope takes the units that follow the slice in the string it was cut from, while the
comment at `ejs-string.c:849` says that the result contains the characters of the
string between the two indices. The run text makes the same calls except those on a
rope that holds a slice (constant `Defects`).

**Map.delete** (run map_delete). `_ejs_map_delete` (`ejs-map.c:76`) returns false and
erases nothing, whatever the Map holds; its steps are comments: "i. Set p.[[key]] to
empty.", "iii. Return true." (`ejs-map.c:71-73`). In the run a Map that has a key is asked to
delete it, and OrderedCollection, where that answers true, is not implemented.
`WeakMap.prototype.delete` relies on it (`ejs-weakmap.c:62`) and deletes nothing either.

## Deviations met on the way

Modelling means comparing the code with its comments and with the language. What
follows is what the models contain as it is, or exclude by a named constant or a
precondition of a property; a reader who changes the code will want to know it.

Lists and pages. `_ejs_list_pop_head` (`ejs-types.c:98`) leaves the `prev` of the new
head as it was, which `ejs-types.h:122` says is NULL. `alloc_from_page` moves full
pages to the end of their list with it; when a sweep later empties the page that became
head, detaching it goes through the stale `prev`, the page stays on the list of its class
and is also put on `free_pages`, and `alloc_page_from_arena` (`ejs-gc.c:422`) later
formats it with live cells on it, although `ejs-gc.c:664` says "the page is empty". It
takes three pages. After a collection forced by a failed page allocation,
`goto retry_allocation` subtracts `OBJECT_SIZE_LOW_LIMIT_BITS` from `bucket` again
(`ejs-gc.c:1365`), so the retry of an object of up to 64 bytes looks in front of the array, and that of one of
128 bytes at the list of the smallest class, of which it may return a cell. A 256-byte object goes to
the large object store, since `ffs` counts from 1. A word that points to
the page behind the last passes `page_index > num_pages` (`ejs-gc.c:500`).

Promises. A `then` getter that throws leaves the promise pending for ever
(`ejs-promise.c:235`): `alreadyResolved` has been set before; `OneResolver` is checked
without such getters. `RejectPromise` (`ejs-promise.c:137`) clears
`fulfillReactions` twice and `rejectReactions` never, so the Scan of promises
walks reactions that have been freed. `resolve_element` (`ejs-promise.c:658`) never
counts down, so `Promise.all` of a non-empty iterable is never fulfilled; it is not
modelled.

Maps and sets. `_ejs_map_delete` is a stub (see findings). The index of an
iterator counts returned entries while `next` (`ejs-set.c:473`) counts live ones: after a delete
the entry behind the current one is skipped. forEach is not affected. `SameValueZero`
(`ejs-ops.c:539`) joins two tests by `&&`, so `undefined` and `null` equal every object;
the run has neither as a key.

Objects. `FromPropertyDescriptor` guards "set" by `has_getter` (276); a new property
given `writable` only reads as 0; a property that is neither data nor accessor
swallows assignments and makes freeze throw; a rejected `setPrototypeOf` aborts (1022);
`getOwnPropertyNames` skips properties that are not enumerable (1080); for-in compares symbols
as strings; the keys that come first, "in ascending numeric index order" by the comment
at 2485, are all strings that are non-negative integers to `ToNumber` ("01", "1e3", "" and
"Infinity" too), and the difference they are sorted by (2463) wraps from 2^31 on; more than 3074 properties abort (517).

Proxies. `get` checks nothing (step 12); `setPrototypeOf` step 16 (`ejs-proxy.c:208`), `set`
step 14 (510) and `deleteProperty` step 15 (639) test the opposite of what their comments
say; `ownKeys` (808-824) has no checks (20-24); for these five `ProxyHonest` claims nothing; `Reflect.isExtensible` reads the proxy's own flag; a walk of prototypes
that meets a proxy in `setPrototypeOf` does not end.

Arrays. forEach on a dense array reads the length again at each step; the array that
map returns (`ejs-array.c:1195`), and those of Array.from (2334), splice and the generic slice,
have their full length from the start and what malloc returned below it: holes leave it so
for good, and a collection in a callback scans it (`_ejs_array_specop_scan`, 3034);
`ElementsInitialised` is not about these arrays; `every` takes falsy values that
are not booleans for true; the fast slice ignores negative indices; pop and shift
return the hole itself; `copyWithin` counts with `to += to + direction`, where the comment at 574 says "to +
direction", and an unsigned count; `reduceRight` without an initial value always throws; the default sort puts
holes first; a write to a sparse array aborts.

Typed arrays. The index `length` passes the test of `specop_get`; `slice` of a buffer takes its
arguments as length and offset, and is a window; an offset behind the buffer makes the size negative, and views
over such a window go out of bounds (excluded in `ViewsSafe`), and one from 2^31 on is a negative int; in the range test of a view,
`byteOffset + byteLength` wraps (both excluded by `Fits` in the proof); Uint8Clamped clamps only from above; DataView has no
bounds check; construction from a typed array and `set` between types abort.

Generators, timers, weak collections. next() on a running or finished generator resumes
frames that are gone (constant `Misuse`); an exception that leaves the body ends the
process; throw() into a new generator raises at a later next; `generators[]` has 256
places and is not checked. Clearing a timer that has fired uses a freed block (constant
`StaleClears`); `invoke_task` frees a handle without `uv_close`; a removed task is
leaked. Entries of weak maps are inherited along the key's prototypes and are lost on
keys that are not extensible, so `WeakExact` is about extensible keys outside each other's
chains; `WeakMap.prototype.delete` deletes nothing and returns false (constant `WeakMapDeletes`); a live key keeps the map and the value alive.

Strings and JSON. A replacement drops a tail of one unit, surrogates are decoded
wrongly (both in `Defects`); the empty string is found nowhere. In a replacement with `$0`, pass two writes "$00"
(`ejs-string.c:501-505`) where pass one counts two units (451-452), one more than the buffer has; `$1` to
`$9` copy from `captures[n-1]`, which nobody has written or measured; two digits are skipped by pass two and
counted by pass one, so the buffer is too large (constant `Defects`, "template"). `ucs2_hash` (60) hashes the unit
behind the string too, for each part of a rope and behind a slice, so equal strings hash
differently by their representation; it multiplies by the first byte of each unit and starts at 0, so that
the hash of any Latin-1 string is 0, which hides this except for larger units.
`strrstr` may read the unit before the start; "$`" is not supported. `hexdigits` lacks a
4, and the buffer for quoted strings is too small for control characters; there is no
test for cycles (237), a cyclic graph recurses until the stack ends, hence `MaxDepth`.

Regular expressions. An error of pcre other than "no match" is not looked at: `lastIndex` behind the
end, as after an empty match at the end, uses offsets nobody wrote; the model stops
there ("crashed"). Sticky is not anchored; a global match may report an empty
match twice; split cuts where it asked and not where the match begins, and aborts
with captures; more than 19 captures overflow `ovec`.

Operators. `0 === -0` is false and `SameValue(0, 0)` too; `_ejs_op_add` looks at the
operands instead of their primitives; `ToNumber(null)` aborts; `typeof null` is "null"; parseInt does
not skip white space. C leaves the order of `ToDouble(lhs) - ToDouble(rhs)` open.

## Proofs

Eight modules hold theorems. Each has one inductive invariant, checked by TLC on a small
instance before it was proved; one lemma per action, and where several actions use the
same C function, one lemma for that function. Every theorem is for all values of the
constants that satisfy the named assumptions of its module.

### The collector

`EjsGC_proofs` proves, for every set of cells, root variables and modules and
every bound on registrations:

| theorem | statement |
|---|---|
| TypeCorrect | `Spec => []TypeOK` |
| HeapSafety | `Spec => []NoDangling` |
| ColoursCorrect | `Spec => []ColoursConsistent` |
| ShutdownCorrect | `Spec => []ShutdownFreesAll` |
| MarkingExact | `Spec => []MarkIsReachability` |
| FreesOnlyGarbage | `Spec => OnlyGarbageFreed`: until shutdown no freed cell was reachable, and what a collection leaves is |

The only assumptions are those of EjsGC: Null is not a cell and the bound is a
natural number.

The inductive invariant of EjsGC is `IInv`. `NoDangling` alone is not inductive: that a
sweep frees no live cell depends on how far marking had come when it ended. So
the invariant follows the collection phase by phase. `RootsDone`, `ModulesDone`
and `StackDone` say that whatever a loop has visited is no longer white and stays
so; `TriColor` says that a black cell refers to no white cell except those that
the Scan in progress has still to visit; `WorkListIsGray` turns the empty work
list at the end of marking into "nothing is grey"; together, `SweptIsBlack`: in
the sweep, everything that a live reference names is black, and what black cells
refer to is black. `MutatorSeesWhite` starts the next round, and
`FreeCellsUnmarked` is needed because `PushAndGray` does not look at the free
bit: that the cells it is given are allocated is `PendingAllocated`.
The facts about the two steps that touch the work list, `PushAndGrayLemma` and
`PopLemma`, are stated once and used by all marking steps.

`MarkingExact` needs a second invariant, `MarkedReachable`: whatever is grey,
black or about to be scanned is in the least closed set that contains the
starting cells. `TriColor` gives the other inclusion. `FreesOnlyGarbage` takes both through the sweep, where cells disappear one by one:
whatever a chain of references reaches from a live local, a root, a module or a word the stack scan
has seen is black until the sweep ends (`ReachableIsMarked`), and the black cells that are then left
are all reachable.

### The page allocator

`EjsGCPages_proofs` proves `HeadersAlwaysExact`: `Spec => []HeadersExact`, for every number
of pages, set of classes and number of cells (two at least) on a page. Nil is no integer.

`PagesInv` is the invariant. A header is exact on its own (`HeaderInv`: the free bits are
cells of the class, their number is the count, the cells from the bump pointer on are
free and two or more), and `TakeCell` shows that `alloc_from_page` keeps it so and that
its two assertions hold; sweeping adds cells that were not free. Which page is taken
depends on the lists, and these can be damaged (see deviations); the proof needs of them
only that no link leaves the pages that have been handed out (`LinksInv`), and there is one
lemma for each list operation. The invariant also has to say that a page never gets
a large class: the sweep would look for its list outside `heap_pages[]`. That is so although
the retry computes the bucket twice, because a large bucket is not touched by it
(`CallInv`). That a page is on one list at a time is not claimed, and not true.

### Promises

`EjsPromise_proofs`, for all values, thenables and numbers of calls:

| theorem | statement |
|---|---|
| PromisesKeepInv | `Spec => []PromiseInv`, the inductive invariant |
| PromiseTypes | `Spec => []TypeOK` |
| OneResolutionAlways | `Spec => []OneResolution` |
| OneResolverAlways | `Spec => []OneResolver`, if no `then` getter throws (`BadThen = {}`) |
| HandlersInOrder | `Spec => []HandlersOnceInOrder` |
| HandlersGetResults | `Spec => []HandlerGetsResult` |
| ValuesAlwaysFlow | `Spec => []ValuesFlow` |
| SettledForGood | `Spec => SettledIsFinal` |

The hypothesis of OneResolverAlways is needed: a throwing getter uses up the pair and settles
nothing (see deviations).

A call of user code is a composition of a few operations of the C code (set a flag, settle,
add a reaction, add a task, make a promise), so the invariant `Inv` takes promises, reactions,
freed reactions, queue and current task as parameters, and there is one lemma for each
operation on them. Its parts: `ReactionsInv`, a capability is the first pair of its promise and all
reactions with one capability belong to one promise, while the pairs that adoption makes
are later ones; `OneInv`, at most one open pair or thenable task for a promise and none
for a settled one; `ListsInv`, the lists of a pending promise are in the order of the calls,
name no freed reaction, and every capability in them is still open; `QueueInv`, the same
of the tasks, with the promise settled and its result as argument. `HeldInv` is what
makes it inductive: user code never holds the pair of a capability, so it cannot use up
what a waiting reaction needs. Neither `OneResolution` nor `HandlersOnceInOrder` is
inductive by itself: running a task resolves a capability, and that this touches no other
waiting reaction is `ReactionsInv` and `ListsInv` together.

`ValuesFlow` adds that a promise resolved with another one ends as that one does. Its
invariant `Adopted` says where the twin reactions of an adopting promise are: both waiting
while the other promise is pending, one task behind it once it is settled, and then the
pair used and both promises alike. That the task settles the right promise with the right
value needs `PromiseInv`, and that nobody else settles it is `OneResolution`. The
assumption `ValueAssumption` keeps the three kinds of values apart: a plain value
is no thenable and no promise.

### Timers and generators

`EjsServices_proofs` proves `TimersAlwaysConsistent` (`TimerSpec => []TimersConsistent`) and
`TimersFireAsAsked` (`TimerSpec => FiresAsAsked`), for any timers, blocks and delays and with
`StaleClears` either way. `TimerInv`: no two used blocks belong to one timer, a used block's
callback is a root, and an armed block is the one its timer points to, of a timer that is not cleared
and, if it is to fire once, has not fired. The last part is why a stale clear can
silence a timer that was given the same memory but revive none.

`EjsServices_proofs` proves `GeneratorsAlwaysExact` (`GenSpec => []GeneratorsExact`), and, under
`~Misuse`, `GeneratorsAreCoroutines` (`GenSpec => ImplementsCoroutines`), for any generators, values,
calls and depth. `GenInv`: the collector's array is the chain of saved callers (`Chain`), which is
what makes popping it in `yield` and at the end of a body right; saved contexts match
the frames (`Contexts`); the wrapper of a generator that is not done can go on (`Wrapped`). The
refinement maps each switch of context to a step of Coroutine; its stack is the array. Without
`~Misuse` it is false, since a finished generator can be resumed.

### Objects and proxies

`EjsObject_proofs` proves, for any names with any hashes, list of primes, objects, values,
functions and descriptor objects, and any order of calls:

| theorem | statement |
|---|---|
| ObjectsInvariant | `Spec => []ObjectInv`, the inductive invariant |
| TypesAlwaysOK | `Spec => []TypeOK`, which says that property maps are well formed |
| PromisesAlwaysKept | `Spec => PromisesKept` |
| ObjectsAlwaysSound | `Spec => []ObjectsSound` |
| KeysAlwaysExact | `Spec => KeysExact` |
| ProxiesAlwaysHonest | `Spec => []ProxyHonest` |

The assumptions: names and objects are finite sets, which pointers in a finite heap are; the
primes increase; the numbers of indices are natural numbers and `Word` is one that is not 0; descriptor objects have the
fields of descriptors; NULL, null and the two errors are none of the values they are compared with.

`MapInv` is the invariant of one map: the insertion links are a list without repetition (`Lists`)
of exactly the names that have an entry, and so are the links of each bucket, of the
names that hash to it. `FollowIs` turns a list into what a walk along its links finds, so
a lookup finds what is there, and insertion, removal and rehash have one lemma each. `HeapInv`
adds that a property has one kind and that prototypes exist, and `Ends` that the chain of
every object is a finite list without repetition (`ProtoList`). `Ends` is kept by
`SetPrototype` because the object is on no chain of its new prototype; TLC's instance has
few objects, where a chain that loops is short, the theorem has chains of any length.

`PromisesKept` is about one step, but a step may define many properties (`freeze`,
`defineProperties`) and may abort in the middle; so what a step keeps (`HeapKeeps`) is
transitive, each single definition keeps it (`Kept` for each of the branches of
ValidateAndApplyPropertyDescriptor), and `SealAll` carries it through the loop of
SetIntegrityLevel together with "all names so far are sealed".

`ObjectsSound` and the enumerations of `KeysExact` are about results, not only about states: the invariant gives
the table and the chains, and the results follow by induction along a list. `KeepIs` says what a
selection from a list is, `QsortIs` that sorting rearranges it and puts it in order if differences do not wrap
(`RemainderIs`, `CompareIs`), `KeysAre` that the three parts
of the own keys come one after the other, and `CollectIs` that for-in lists the enumerable names
of a chain, each once. That induction is on an interval of integers and on sets (`Recursion`,
`BoundedInduction`), since the library's schemes take operators as parameters. `OrderKept` is about steps:
`OrderedMap` says that a map whose insertion list has got one name more at its end, or one name less, keeps the
order of the others, and `HeapGrows` carries it through the steps that define many properties. The proxy theorem
rests on the same facts: a method that consults its target cannot be lied to by the trap,
because the result of each check is what the target's own method says. It covers getPrototypeOf,
isExtensible, preventExtensions, getOwnProperty, has and defineProperty, the six whose checks are there.

### Maps and sets

`EjsMapSet_proofs` proves, for all sets of keys, values and iterators and all
bounds:

| theorem | statement |
|---|---|
| KeysAreUnique | `Spec => []KeysUnique` |
| IteratorsGoForward | `Spec => []IteratorInOrder` |
| MapSetTypes | `Spec => []TypeOK` |
| ForEachLeavesNoneOut | `Spec => ForEachVisitsAll` |
| CollectionsAreOrdered | `Spec => Implements`, if neither `undefined` nor `null` is a key, and Map.delete is called for absent keys only (`~MapDeletes`) |

The assumptions are that the classes are Map and Set, that Empty is not a key and that the
zeros differ from each other and from `undefined` and `null`. `KeysUnique` is inductive once the types of
the entries are known. `IteratorInOrder` is not: an iterator finds its next entry
by counting, so one must know that the count lands behind the entry returned last.
`IterInv` says that fewer than `next_index` live entries come before that one;
delete and clear only lower the number, adding appends behind, and the entry that
`next` finds has exactly `next_index` live entries before it. (The same inequality,
when it is strict by more than one, is why iterators skip entries.) `LoopsInv` says that a
forEach call, at any depth of nesting, has visited every live entry up to the one it is at;
the entry it goes to next is the least live one behind. The first four theorems hold with `undefined` and `null` as keys too: a key that is wrongly found is not added.

The refinement maps the list of entries to `Items`, the live ones in order. `Items` is defined by
recursion along the list; `ItemsAre` describes it by the positions of the live entries (`Lined`), and that
such a list of positions exists is an invariant. Each operation then moves positions: a key that is added
goes behind the last one, an erased entry drops out, and an entry that gets another value keeps its
place. `MatchesIs` says that the search finds the entry of the key if there is one, which fails when
`undefined` or `null` is a key, so the hypothesis is needed, and so is the other one: run map_delete. Keys are
objects and numbers; strings, booleans, symbols and NaN are not modelled.

### Arrays

For all values, lengths, growth and argument lists and any callbacks,
`EjsArray_proofs` proves `ArraysAlwaysInitialised` (`Spec => []ElementsInitialised`) and
`CallbacksAlwaysExact` (`Spec => CallbacksExact`).

The assumptions: the bounds and growth are numbers, and arrays grow by at least one slot; values
are numbers and different from the magic ones; argument lists are no longer than the bound on
lengths; Nil is none of the records that stand for a running sort.

What is proved of slots is about the program's array, the one filter builds and the ranges of a running sort; the
arrays that map, splice, slice and Array.from return are not initialised while they run (see deviations).

`ElementsInv` says that below its length a dense array is written and allocated (`Written`), that
the array filter is building is as long as what it has kept and free of holes (`FilterInv`), and
that the ranges a sort has still to look at are written (`SortInv`). The third is what a comparefn
can break by cutting the array, for the sort goes on with the indices it started with: it
holds because no operation takes a written slot away (`Keeps`; `After(a)` is the set of arrays that a
may become). That has one lemma for each method, and for a method that loops one for its loop. Loops are
functions along an interval; `Recursion` gives their equations, `PutsRun`, `MovesRun`,
`DeletesRun` and `ReverseRun` the induction.

The sort needs `OrderInv`: the ranges on the stack and the one being
partitioned do not meet (`Apart`), two elements that are in no common range are in order
(`OrderedAround`), the array is the one before the sort with elements exchanged
(`Rearranged`, by counting each value), and what has been looked at is on its side of the pivot
(`Partitioned`). `AroundExchanged` says that an exchange within a range leaves the order to the outside
alone, `HalvesOrdered` that a partitioned range may be replaced by its halves; with no range left,
everything is in order. That nobody changes the array meanwhile is because a sort without comparefn
never calls the program (`InCallback`). `VisitInv` is for the other methods: `NextIndexIs` finds an
index on the right side of the last one, and all but forEach and Array.from keep to the length they read.
TLC checked both invariants on its instance, and `OrderInv` on arrays of length 5, where ranges are pushed
on both sides of a pivot.

### Typed arrays

`EjsTypedArray_proofs` proves `ViewsAlwaysSafe` (`Fits => (Spec => []ViewsSafe)`): no bytes are freed under a view that the program can
reach, and every typed array addresses bytes inside the buffer at the bottom if no window on the way there has a negative size, for any numbers,
indices, windows, spans, methods and sizes of buffers.

The assumptions: the size of a buffer fits in an int; a byte has at least two values; the numbers of
the program are ints, and its arrays fit in a buffer; Nil, Garbage and `undefined` are
no numbers, and the bytes of a buffer are not Freed. The hypothesis `Fits` is about the arguments: no window starts at a
negative offset, and the end of no view wraps in 32 bits. Data views check no bounds, so nothing is claimed of theirs. Without it the code itself lets a view reach past its buffer
(see deviations), so the theorem would be false.

`BytesInv` is the invariant. A window lies in the buffer under it, which is older, unless one of the two has
a negative size (`OkBuffer`), and a typed array lies in its buffer (`OkView`); a method that waits for a
callback keeps within its array (`IsCall`). For the lifetime, there is a set `K` of buffers
that has with a window the buffer under it, of which no bytes are freed (`Kept`), and that holds what
the program or the running method refers to (`Holds`). A new window or view adds to `K`; a collection takes
for `K` what it has marked, since `MarkedIs` says that the least closed set has with a view its buffer,
and with a window the buffer under it. It is here that a forgotten field in a Scan operation breaks the proof.

`ViewsSafe` follows the way from a buffer down to the bytes: the way ends (`WalkEnds`), because the
buffer under a window is older; it does not leave `K` (`WalkStays`); and offsets add up to a place within the
last buffer (`WalkInside`). Stores change bytes only, never the shape of a buffer (`Stored`), and loops of
stores are functions along an interval (`AllAlong`). TLC checked `BytesInv` and `Fits` on the instance of `EjsTypedArray`.

### Weak collections

`EjsServices_proofs` proves `WeakCollectionsExact` (`WeakSpec => []WeakCollections`, if `~WeakMapDeletes`) and,
without the hypothesis, `WeakValuesAlwaysLive` (types and `WeakValuesLive`), for any
objects, prototypes and collections; the sets of the three kinds are disjoint. `WeakInv`: an entry is
in a Map that its key owns (`KeyKeeps`); whatever a live object refers to is alive
(`AliveClosed`), which a collection preserves because it keeps exactly the least closed set; nothing is
left of a freed collection (`DeadAreEmpty`), so one made in its place starts empty; and a key
that is alone and extensible holds what was asked for (`OwnEntries`, which is where the hypothesis is used). `SearchFinds` is the fact
about `_ejs_object_getprop` that all of them need: it finds an owner that is as alive as the
key, and for a key without prototypes only the key itself. The search and the reach of the
collector are defined as least sets, not by recursion, so that this can be proved.

## What is not shown

Model-checked only: liveness (`CollectionEnds`, `AllocReturns`, `DerivedResolves`,
`TimersFire`, `LoopsEnd`), which the prover does not support under fairness;
what the methods of arrays return (`MethodsExact`), what typed arrays store and return
(`AccessExact`), and text. Many of these
compare a recursive function with a reference definition over all inputs of an instance, and what a
recursive definition computes for every input is out of the prover's reach. EjsString, EjsJSON and EjsOps use recursive operators and EjsOps the
Bitwise module, so they are for TLC alone.

Not modelled, of the modelled components: several arenas at a time, the arithmetic from
addresses to cells, the segments of the work list, the stacks of suspended generators
as roots (a collection while a generator runs scans from the base of the main stack to
a frame on a malloced stack), heap statistics and logging; `Promise.all`,
`Promise.race`, promise subclasses; the iterable argument of the Map and Set
constructors; array iterators and sparse arrays; `a[-1] = v`, which writes before the buffer;
floating point elements of typed arrays and the specops of ArrayBuffer; hashes of strings; functional replace of
strings, match and search, wrapper objects, text with an embedded NUL; proxies of proxies and of functions;
arithmetic on doubles and NaN boxing. Undefined behaviour after an index out of range or a use of
freed memory is a final state or excluded by a constant, never guessed at.

Not modelled at all, and why: the compiler and the LLVM bindings (passes over trees whose
state ends with the call); the noop and darwin run loops, the Objective-C and WebGL bridges and
node compatibility (platform code and I/O); functions and exceptions (unwinding through the C++ ABI);
modules (a table written by the compiler; the Scan of a module is in EjsGC); start-up; Date, Math, Number
formatting, console and the other sequential builtins.
