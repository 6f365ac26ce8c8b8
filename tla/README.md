# A verification project for CScript

CScript is a typed, JavaScript-like language with its own lexer, type checker,
bytecode compiler, virtual machine, JIT, garbage collector and standard library,
written in C (`src/`, `include/`) with a library in the language itself
(`library/`). This directory holds TLA+ modules that model the parts of the
program where order, interleaving and failure decide whether it is right, the
TLC configurations that check them on small instances, and theorems about them
that TLAPS checks for every value of the constants. Paths below are relative to
the repository.

## 1. Inventory

The program has one thread. What makes it hard is not preemption but the
number of ways in which control can leave a piece of code and come back: a
microtask, a timer, an `await`, a `yield`, an `import()`, a throw, a collection.

| Component | State it keeps | Operations | Talks to | What makes it correct |
| --- | --- | --- | --- | --- |
| Promises (`runtime/object_new.c`, `native/native_promise.c`) | promise: state, value, reaction list, `handled`; combinators: counters and results | `settle`, `csPromiseFulfill` (adopts), `csPromiseAddReaction`, `.then` `.catch` `.finally`, `all` `race` `allSettled` `any` | queues microtasks; feeds the watchdog | an outcome never changes; each listener is told once, in order, the true outcome; a derived promise is settled by exactly one route; combinators count right |
| Microtasks, timers, event loop (`runtime/vm_event.c`) | `vm.microtasks` with a moving head, `vm.timers` sorted, `vm.unhandled`, the timer that is firing | `drainMicrotasks`, `runMicrotask`, `runCombine`, `csVMRunEventLoop`, `scheduleTimer`, `clearTimeoutNative`, `reportUnhandledRejections` | calls program code, resumes fibers | timers only between drained queues; a cleared timer stays cleared; nobody starves; no silent rejection |
| Async calls (`runtime/vm_fiber.c`, `OP_AWAIT`) | fiber: state and promise; the chain of running fibers | `callAsyncFunction`, await, `csVMResumeFiber`, `finishFiber` | registers reactions; resumed by the loop | a suspended call has exactly one wakeup |
| Generators (`runtime/vm_fiber.c`, `native/native_generator.c`, `OP_YIELD`) | `done`, `running`, `yielded`, `pendingResult`, a fiber | `next`, `return`, yield, await, end, throw | nested drives on the C stack; resumed by the loop | a body is entered once at a time; the k-th answer is the k-th item; every `next()` is answered |
| Module loader (`runtime/module.c`, `vm.c`, `vm_call.inc`) | registry with `loading`, `vm.pending`, `executed`, `namespaceView` | load, queue, run the queue, `import()`, top-level await, `buildNamespace` | runs bodies, runs the event loop under a body | once each, dependencies first, no false cycle, no lost entry |
| Exceptions and upvalues (`vm_throw.inc`, `vm_upvalue.inc`, `vm_state.inc`) | handler stack, frames, open upvalues sorted by slot | throw, unwind, capture, close, reset | every call and return; fibers have their own | a captured variable has one home; a handler sees the stack it was pushed on |
| Collector (`memory.c`, `object_gc.c`) | object list, marks, gray stack, temp roots, weak tables | mark roots, trace, ephemerons, sweep, allocate | any allocation may collect | nothing reachable is freed; weak entries go exactly when their keys do |
| Shapes and caches (`shape.c`, `vm_cache_miss.inc`, `vm_property.inc`) | shape tree, dictionary objects, per-site caches | add, delete, redefine, get, set | interpreter and JIT | a cache hit is what a full lookup would find |
| Map, Set, WeakMap, WeakSet (`native/native_map.c`) | dense entries in order of insertion, an open-addressed index from hash to entry, `liveCount` | set, get, delete, clear, `forEach`; rehash, growth; pruning by the collector | any allocation may collect; `forEach` calls program code | a lookup finds what was set; order survives deletion; a walk meets each entry once; a weak entry lives as long as its key |
| Tables and property bags (`table.c`, `object_bag.c`) | open-addressed tables with tombstones | get, set, delete, grow | strings, globals, dictionary objects | a table is the map its calls describe |
| Interpreter (`vm.c`, `vm_ops_*.inc`) | value stack and frames | some 120 opcodes | all of the above | the operand stack discipline the compiler promises |
| Bytecode compiler (`compiler/compiler*.c`) | code so far, locals, scopes, loops, tries | one function per statement; scopes, captures, jumps | runs before anything else | what the code does is what the statements mean, whichever way control leaves a block |
| Lexer, parser, type checker (`compiler/`) | tokens, tree, types | lex, parse, check | runs before the compiler | sound narrowing |
| JIT (`jit/`) | call counters, assumptions, compiled code | consider, compile, enter, leave, replay | reads observed types and globals | compiled code runs only while its assumptions hold |
| Natives (`native/`), bigint, regex, JSON, date | arguments and results | one function each | called by the interpreter | each computes what it says |
| Synchronisation (`library/sync/sync.cx`), in CScript | `Semaphore` and `Mutex`: permits and waiters; `WaitGroup`: count and waiters; `Channel`: queue, receivers, senders, `closed` | `acquire`, `release`, `add`, `done`, `wait`, `send`, `receive`, `close` | only through promises and timers | permits are kept and handed over in turn; values arrive once and in order; nobody is forgotten |
| Rest of the standard library (`library/*.cx`) | caches, timers, collections, text | functions and async functions over promises | only through promises and timers | each computes what it says |
| `main.c`, REPL, CLI, editors, benches | — | argument handling, I/O | — | — |

`PROJECT.json` lists each of them with its sources and its status, and under
`hazards` what in them is hard to test, at its line.

## 2. Plan

The order puts what every program depends on first: the loop, then what runs
on it.

1. **`Promises`, `EventLoop`** (done): the promise heap as operators, the loop
   as a state machine around them; `PromiseContract` as the abstract
   specification; proofs in `EventLoopProofs`.
2. **`ModuleLoader`** (done, proved in `ModuleLoaderProofs`).
3. **`Generators`** over **`IteratorContract`** (done, proved in `GeneratorsProofs`).
4. **`Sync`** (done, proved in `SyncProofs`): semaphore, mutex, wait group and
   channel of `library/sync`.
5. **`OrderedMap`** over **`KeyedCollection`** (done, proved in `OrderedMapProofs`): the keyed
   collections of `native_map.c`, their callbacks and collections.
6. **`Heap`** over **`PropertyBags`** (done, proved in `HeapProofs`): shapes, inline
   caches and the collector together, since each bites where the other two meet.
7. **`Statements`, `ControlFlow`, `Machine`**, composed in **`Unwinding`** with
   **`Meaning`** as what they are compared with (done, model-checked;
   `ListsInOrder` proved in `MachineProofs`).
8. **`Tables`** over **`TableContract`** (done, proved in `TablesProofs`): the hash table of
   `table.c` with its tombstones, and the pointers into it that sites keep.
9. Left: getters, what a setter runs, and the prototype chain in `Heap`, where a setter or
   a read-only property is a guarded name for now, and stores to symbol keys.
10. Left: the machine of a fiber, which has a stack, frames and handlers of its
   own, so that `Machine` and `EventLoop` compose.
11. The rest of the modules of 7 recurses over statements and stays with TLC.

## 3. Modules

### Promises and the event loop

`Promises.tla` has no variables. It defines the heap (promises, combinator
states, the microtask queue, the watchdog's list) as a record, and each C
function as an operator from a heap to a heap, so that an action that makes
several calls is their composition. `settle`, `csPromiseAddReaction`,
`csPromiseFulfill`, `csPromiseReject`, `runCombine`, `csVMQueueMicrotask` keep
their names. A reaction or microtask carries what the C structs carry; whether
it has a handler is a Boolean, because what a handler does belongs to the
program. The number of a listener (`id`, `listeners`) and the promise a task came
from (`src`) are not in the code; the properties need them to say *which* call a
task answers.

`EventLoop.tla` is one run of a program: its top level (plain, or an async body
when it awaits), then the loop. `phase` says who has the thread: program code at
the top level, in a microtask or in a timer callback, or the loop. Program code
is the most general client. While it runs it may make any call of the interface
with any arguments, call async functions to any depth, await, and return or
throw. `running` is the chain `vm.currentFiber` → enclosing; `ToCaller` says who
has the thread after a fiber leaves it. The loop's actions are `RunTask`,
`csVMResumeFiber`, `reportUnhandledRejections`, `FireTimer` and `LoopEnds`, in
the order the C loop tries them. A timer's `left` is `dueMs - now`; time passes
when the loop sleeps (`FireTimer`) and while program code runs (`Slow`).
`combinatorInput` takes a combinator's inputs one step at a time; nothing else
can happen in between (`adding`).

`PromiseContract.tla` is what a program relies on: outcomes, how many listeners
each promise had, and who is still waiting. `KeepsContract` checks that every
step of `EventLoop` is one step of it, or none, under the mapping written there.

`MCPromises` (promises and combinators) and `MCEventLoop` (async calls, await,
timers) are two clients of the same module.

### Module loader

`ModuleLoader.tla` keeps the C stack (`stack`) as frames of three kinds: a load
(`csModuleLoadResolved` walking a file's imports), a loop over the queue
(`csVMRunPendingModules` for the program, or `importAtRuntime` for an
`import()`), and a body. All share `vm.pending`, which is why they can hurt each
other. A program is data: the static imports of each file, which top levels
await, and what becomes of reading and checking each file. A body is the most
general one: any `import()`, caught or not, any number of times, then its end.

### Generators

`Generators.tla` keeps each generator's flags, its fiber's state, the stack of
bodies being driven (`active`) and the reactions that name a fiber (`wakeups`).
`IteratorContract.tla` is what the caller sees: the answers of `next()`, in
order. `Client` says what a program does beyond what `for-of` and `for-await`
do; the passing run has none of it, `generators_escape` has one of its two liberties, and
the other is under *Known divergences* in section 4.

### Synchronisation primitives

`Sync.tla` is `library/sync/sync.cx`: workers, each one async call, around one
semaphore (a `Mutex` is one of a single permit), one wait group and one channel.
The library keeps promises in its queues and awaits each at once, so a queue is
modelled as the workers waiting in it. `settle` appends to `ready`, the microtask
queue, whoever the promise's only listener is, with the outcome; `resume` takes the
head of it. `running` is the stack of async calls under way: a call that
starts another (`start`) gets the thread back when that one first awaits or ends
(`ToCaller`). `acquire`, `release`, `add`, `done`, `wait`, `send`, `receive`,
`close` and `sleep` are the methods, each with its early returns; program code
calls them in any order, with one restriction that the library's own users
keep: a worker holds at most one permit at a time and returns only what it
took (`withPermit`, `withLock`). Value k is the k-th value sent, and `sent`,
`refused`, `got` and `askers` are histories that only the properties read.

### Maps and sets

`OrderedMap.tla` is the one structure behind `Map`, `Set`, `WeakMap` and `WeakSet`:
entries in a dense sequence, and an index of places probed from the hash of a
key on. Hashes are chosen with the initial state, so keys collide in every way.
A call is cut where the code allocates: `csMapSet` into a rehash of an empty or
overfull index and the growth of the entries, `csMapDelete` into the removal and
the new index. `op` is the call that is about to allocate; `collect` may come
between, whichever allocation it is, as `pruneWeakReferences` followed by
`csMapReindexInPlace`, and between any two calls. `die` is the program's letting go
of a key. `forEach` is a loop of the model: `eachCall` enters the callback, in which
the program may do anything `Running` allows, and `eachReturn` or `eachThrow` leaves
it. `keys`, `values`, `entries` and the constructors are loops over the same array or
over `set`. One `forEach` is under way at a time.

No tombstone is modelled: wherever the code makes one it compacts the array
before it allocates. `did`, `owed`, `spoilt` and `astray` are histories. `did` is what
has just taken effect as far as a program sees: the call and its key, and the answer
if it was a lookup. `owed` is what a walk has yet to meet; `spoilt` says that its
callback took out an entry that it had passed, which moves the others from under its
counter; `astray` that `csMapSet` recorded an entry at a place that a collection had
made another. Nothing is left out of the
passing run for these two: the properties say what still holds, a walk that is spoilt
meets no entry twice, and nothing goes astray but in a weak collection, by a
collection at exactly that allocation.

`KeyedCollection.tla` is what a program relies on, without index, slots or
collections: an ordered list of pairs. Its steps are calls: one entry changes or goes
by the call that names its key (`Put`, `Remove`), all go by `Clear`, a lookup answers
what is there (`Ask`), a walk meets what it owes in order, and of itself only a weak
collection loses entries, those whose keys are dead (`Forget`). `did` is shared with
`OrderedMap`, so that an entry lost on any other occasion, or a wrong answer, is no
step of it. `KeepsCollection` is the refinement, until an entry is astray.

### Objects, shapes, caches and the collector

`Heap.tla` has cells for objects and shapes. An object in shape mode names a
shape, which lists its keys; one in dictionary mode lists its own. `csObjectPut`
is cut at its allocations, and `op.at` names the one that comes next: the child
shape (`AllocateChild`, then `RecordEdge`), room for the slot (`Adopt`), the tables
of a dictionary (`Convert`, `PutOwn`). Between any two of them, and between calls,
`csCollectGarbage` may run: it keeps what the stack, the temporary roots and the
empty shape lead to, prunes the weak edges from shape to shape and the weak
caches of the sites, and frees the rest. A freed cell may be used again at
once, which is what makes a stale reference visible. `Read`, `Write`, `IndexStore`,
`Assign`, `Delete`, `Define`, `Freeze`, `Relink`, `New` and `Drop` are what a program
does. A C caller may hold what it puts in no other place (`held'` in `Assign` and
`Delete`).

The code stores to a property by ways that look at different things, and the model
has each of them. `way` names the one under way, or the last.

| Way | Code | Looks at `frozen` | Looks at read-only names and setters |
| --- | --- | --- | --- |
| `site`: `Write` that misses | `propertyWriteSlow` | yes | yes |
| `cache`: `Write` that hits | `OP_SET_PROPERTY`, `csVMStoreCached` | no | no |
| `index`: `IndexStore` | `OP_SET_INDEX`, `o[k] = v` | yes | no |
| `assign`: `Assign` | `Object.assign`, natives and literals that fill an object | no | no |
| `define`: `Define` | `Object.defineProperty` | yes | makes the name read-only |
| `delete`: `Delete` | `OP_DELETE_PROPERTY` | yes | no |

A name is guarded in an object when it is read-only or when a prototype has a
setter for it; the two refuse a store in the same place. `Definable` and `Settable`
bound the names that can become so. A store to a key that is a symbol
(`csObjectPutPrivate`, `vm_ops_iterate.inc:329`) looks at nothing, like `assign`, but
no site names such a key, and it has no action of its own. `MaxSlots` and
`FirstSlots` are 64 and 4 in the code. Strings as cells, closures, modules and
fibers are left out, and so is the gray stack: marking is the closure it computes.

In dictionary mode a deletion moves up what came after the key (`MovedUp`).

`PropertyBags.tla` is what a program may rely on: lists of named properties that
only its own stores change, and objects that are there as long as the program has
a way to them. `Reached` says what it has a way to as the least set that holds its
stack and what the members refer to, which is how `Marked` says what marking
reaches. `KeepsBags` is the refinement: layouts, caches and collections are
steps that change nothing there, except that they may take what nobody can reach.

A `Store` of the contract is refused by a frozen object and a guarded name except on
the ways of the table that do not look. `way` is shared, so a store that looks in
the code and stored all the same would be no step of the contract. What the documents
say is stricter, and fails: `heap_frozen` shows one case and *Known divergences* in
section 4 the others. The passing run leaves nothing out for it.

### Hash tables

`Tables.tla` is `table.c`: one array of entries, probed linearly from the hash of a
key, with tombstones for what was deleted. `use` says what the table is for, because
that decides what can happen to it: the `globals` of a module are only added and
assigned, and the sites that read or assign one keep a pointer to its entry
(`cache`, the `GlobalCache` of `chunk.h`); the properties of an `object` are deleted
too; the `pool` of strings is entered only after a search for the same characters,
and loses strings to the collector. `csTableSet` is the call that finds room;
`adjustCapacity`, a `MoveEntry` for each place and `EntriesMoved` are the call that
does not. `growing` is what that call has in its C locals. Only a collection can
come in between, at the allocation of the new array (`csTableRemoveWhite` while
`growing.at` is 0). `findEntry` is the place the loop of the code returns, written
as the first that satisfies it; that there is one at all is `ProbesEnd`.

`TableContract.tla` is a map, from which only an object's properties are removed one by
one and only the pool forgets. `KeepsContract` is the refinement: `map` is what
`csTableGet` answers for each key, so a step that moves, buries or reuses places
must change no answer but its own. For the globals it covers the stores that
sites make through their pointers.

### Statements, their code and the machine

`Statements.tla` is the tree: fifteen or so kinds of statement as records.
`ControlFlow.tla` is the compiler: an operator per compile function, from the
state of a compiler (code, locals, scopes, loops, tries) to the next.
`Machine.tla` is the part of the interpreter that moves control: frames, the
handler stack, open upvalues, the interpreter loops that natives nest on the C
stack, and `resetStack` after a throw that escaped. `Unwinding.tla` puts the two
together and compares what the machine does with `Meaning.tla`, a recursive
definition of what each statement does in JavaScript, which `docs/JAVASCRIPT.md`
promises.

A condition is the next answer of a tape, which is part of the program, so an
execution is deterministic and each program is one initial state. An expression is
what matters to control flow and to captures: a constant, a local, a call,
directly or through a native, a closure that is kept. The jobs of a program are
called one after the other, as the event loop calls handlers.

`MCUnwinding` lists the programs in families: `tries` (a try in a try in a loop,
every way out at every level), `captures` (a loop in a loop, each of four kinds,
whose variables are captured and which is left in five ways), `calls` (throws
through frames and natives that have captured locals) and `targets` (switches
and labels left from inside a try). The other families are one program each that
the code does not do justice to; *Known divergences* in section 4 says which.

## 4. Runs

| Run | Checks | Bounds | Outcome |
| --- | --- | --- | --- |
| `promises` | `TasksCarryOutcome`, `OneSettler`, `CombinatorOwes`, `HandlersInOrder`, `NoSilentRejection`, `KeepsContract` | 3 promises, 4 calls, combinators of up to 2 inputs | holds, 1.1 M states |
| `event_loop` | `OneWakeup`, `TimersInOrder`, `ClearedStaysCleared`, `EveryListenerAnswered`, `EveryTimerGetsItsTurn` | 2 promises, 2 async calls, 4 calls, 2 timers, delays 0 and 2 | holds, 260 k states |
| `modules` | `RunsOnce`, `StaticOrder`, `NothingSkipped`, `NoFalseCycle`, `LoaderEnds` | all programs of 3 files with at most one bad file, 2 `import()` calls | holds, 438 k states |
| `generators` | `EnteredOnce`, `WakeupsMatchAwaits`, `KeepsIteratorContract`, `EveryNextAnswered` | 2 generators and an async one, 3 `next()`, 2 yields, 2 awaits each | holds, 54 k states |
| `sync` | `PermitsKept`, `OneWayBack`, `NobodyWaitsInVain`, `DeliveredInOrder`, `ServedInTurn`, `WaitMeansDone`, `EveryAskerServed` | 3 workers; a mutex and a channel of one place, or two permits and an unbounded channel; 2 values | holds, 386 k states |
| `ordered_map` | `LookupFinds`, `KeepsCollection`, `WalkMeetsEach` | 4 keys with hashes 0 or 3, 2 values, first sizes 4 and 2 | holds, 130 k states |
| `heap` | `NoDangling`, `CachesTellTruth`, `OneShapePerLayout`, `KeepsBags` | 2 objects, 3 cells for shapes, 3 keys, a site that reads and one that writes, 6 calls | holds, 292 k states |
| `unwinding` | `ListsInOrder`, `SaysWhatItMeans`, `ClosuresKeepTheirVariables` | 4070 programs of four families | holds, 131 k states |
| `tables` | `ProbesEnd`, `PointersGood`, `KeepsContract` | 4 keys of two hashes, 2 sites, capacities 4 and 8, 4 deletions and growths | holds, 81 k states |
| `modules_order` | `ImportsReady` | as `modules` | violated |
| `generators_escape` | `NextSettled` | as `generators`, a rejection nobody catches | violated |
| `heap_frozen` | `FastPathSparesFrozen` | as `heap`, one more cell for a shape and 7 calls | violated |

Why the bounds are enough. Three promises are a promise, one that adopts or
derives from it and a combinator over both; four calls are enough to create,
listen early, listen late and settle twice. Two async calls give a nested call,
an await of the other's promise and both resumed in either order; two timers
give an interval against a timeout, a timer that clears the other and one that
clears itself, and `TimersMax` is reached. Three files give every shape of
diamond-free graph, chains, cycles of two and three and self-import at run time;
two `import()` calls nest one in the other. One yield and one await on each side
of another are the sequences a generator can tell apart. Three workers are one
that holds, one that waits and one that comes late, which is what a hand-over
can go wrong between; two values are the fewest that have an order, and one more
than the channel's single place. With four keys in an index of four places and
an array of two both have to grow, and entries are moved, collide and wrap round
the end; the code starts both at 8, which only takes more keys to fill. Two
objects share a layout or refer to each other, three shapes are the root and one
more than a collection can free under a call, a shape of two slots is full with
two of the three keys, and six calls build a layout, cache it, drop it, have it
collected and build it again; `heap_frozen`, which stops at a violation, is given a seventh. Four keys fill a table of four places, counting tombstones, and grow it;
their hashes 3 and 7 are one place in a table of four and two in a table of
eight, and both probes run over the end of the array; four changes of version are two growths and
two deletions, or a growth and three. The two values are those that tell a tombstone
from a place never used. Three levels of nesting, a loop with two tries in it,
are the least in which a jump has a handler to end, one to skip and one to keep.

Bounds that are ours, not the code's: `MaxPromises`, `MaxFibers`, `MaxInputs`,
`MaxCalls` (EventLoop); `MaxImports` (ModuleLoader); `MaxNext`, `MaxYields`,
`MaxAwaits` (Generators), `MaxSends` (Sync), `MaxCalls`, `Definable` and `Settable` (Heap),
`MaxStack` (Machine; 65536 in the code, and no program comes near it), and the
first sizes `IndexMin` and `EntriesMin` (OrderedMap) and `FirstCapacity` (Tables), which
are 8 in the code, `MaxCapacity`, `MaxVersion` and `MaxStrings` (Tables). `TimersMax` and `ModulesMax` are the code's
`CS_TIMERS_MAX` and `CS_MODULES_MAX`.

### Fairness

- `EventLoop`: weak fairness of the loop's step, since it is the only code that
  runs when the program's has returned; and of program code giving the thread
  back, since the loop never preempts it and a program that spins for ever in
  one callback is outside what the loop can promise.
- `ModuleLoader`: weak fairness of the loader's and the code's steps together,
  for the same two reasons.
- `Generators`: weak fairness of bodies reaching their next stop and of the event
  loop resuming; what a body awaits settles in the end, because an await of a
  promise that never settles is owed nothing.

- `Sync`: weak fairness of the loop (`resume`, `wakeup`); strong fairness, for each
  worker, of the code that has the thread reaching its next await or its end. It
  is strong because each async call the code makes on the way takes the thread
  from it for a while. Deadlock is not checked in this run: a program in which
  everyone waits for a permit nobody returns really stops.
- `OrderedMap` states no fairness; nothing in it waits. Deadlock is not checked,
  because a program that has let go of every key of a weak map has nothing left
  to do with it.
- `Heap` states none for the same reason; deadlock is not checked, because a program
  has no calls left after `MaxCalls`.
- `Tables` states none: nothing waits. Deadlock is not checked, because a table that
  may not grow further (`MaxCapacity`) has nothing left to do.
- `Machine` states none: nothing in it waits. Its last step, `Done`, repeats for ever,
  so a program that gets stuck on an instruction is a deadlock and is reported.

### What the violated runs show

Each was reproduced with the built program.

- **A module can start before its dependency has finished** (`modules_order`).
  `vm.c` says "everything a module imports has already run by the time it
  starts". `import()` runs the queue in the middle of a body; a module queued
  then, which statically imports the module under way, finds it marked
  `executed` and starts, and takes a namespace with what is defined so far.
  `ImportsReady` fails without a start out of order as well: a module that calls
  `import()` of itself has its namespace built and kept while it runs (`buildNamespace`),
  and one that imports it statically after it has finished is given that one.
- **A rejection that escapes an async generator** (`generators_escape`). After
  an await the body runs under `csVMResumeFiber`, which ends the fiber without
  settling `pendingResult`; the promise of `next()` never settles and the program
  exits without a word.
- **A frozen object changes** (`heap_frozen`). Freezing keeps the shape, and a store
  that hits the cache of its site looks at the shape alone. It takes a site that
  has stored to any object of that shape before.

### Known divergences

These too were reproduced with the built program. No run of the project shows
them, to keep one for each question; each line says how to see it in the model, where
the named property is then checked alone. The properties are defined in the modules
and say what a document or a comment of the code promises. The passing runs leave out
the first (by `Client`) and the families of `MCUnwinding`; the others are behaviour that
the passing runs have, whose properties say what holds in spite of it. The last but
one stops the compiler, and the model's with it, so TLC cannot show it.

| What the code does | Where | To see it |
| --- | --- | --- |
| A second `next()` on an async generator whose body awaits drives the body out of the await, and the first call's promise is forgotten | `vm_fiber.c:304` | in `MCGenerators.cfg` give `Client` the value `{"overlap"}` and check `AwaitGetsItsOutcome`, or `NextSettled` |
| A callback of `forEach` that deletes an entry already met makes the walk miss the one after it: `csMapDelete` compacts the array whose positions `mapForEach` counts, although its comment says that the order of what follows is undisturbed | `native_map.c:187-197`, `:360` | `MCOrderedMap.cfg`, the PROPERTY `WalkUndisturbed` |
| A collection at the allocation that doubles the entries of a weak map rebuilds the index after `csMapSet` has looked its place up; the entry just set cannot be found, although its key is held | `native_map.c:153-176` | `MCOrderedMap.cfg`, the INVARIANT `HeldKeysStay` |
| A namespace object taken while its module runs lacks the later exports for ever | `vm_property.inc:103` | `MCModules.cfg`, the INVARIANT `NamespaceWhole` |
| `Object.assign` stores to a frozen object and to a read-only property, although `native_object.c:130-132` says that a frozen object refuses every write | `native_object.c:183` | `MCHeap.cfg`, the PROPERTY `FrozenRefuses` |
| `p["y"] = 4` stores to a read-only property, and past a setter, where `p.y = 4` does not; `docs/JAVASCRIPT.md:390` says that writing to a read-only property is refused | `vm_ops_iterate.inc:344` | `MCHeap.cfg`, the PROPERTY `GuardedRefuses` |
| A cached add ignores a setter that a prototype got after the site was cached, if the object has room for one more slot | `vm_throw.inc:117` | in `MCHeap.cfg` give `MaxCalls` the value 7 and `Definable` the value `{}`, and check `SettersTakeWrites` |
| A throw out of a catch skips the statement's finally: `compileTry` puts no handler over the catch, although `docs/GRAMMAR.md:1193-1194` says that the finally covers it as well as the body | `compiler_statement.c:433` | family `rethrow`; `FinallyAlwaysRuns` says it |
| A local of a finally that a return or a throw has reached takes the slot of the value on its way out | `compiler_node_statement.c:196-204`, `compiler_statement.c:455` | family `bound` |
| A `break` in a `try` that is the whole body of a loop, without a block, skips the finally and leaves the handler | `compiler_statement.c:51` | family `bare` |
| An unlabelled `break` in a labelled block leaves the block, not the loop around it | `compiler.c:329-333` | family `nearest` |
| `continue` in a `for` whose body has a closure pops the copy of the variable twice | `compiler_node_statement.c:90-91`, `compiler_statement.c:271-284` | family `skip` |
| A closure inside a `try`, a `throw` or a labelled statement of a `for` does not give each iteration its own variable | `compiler_function.c:22-91` | family `hidden` |
| A `break` before the closure that captures a local pops it without closing it | `compiler_statement.c:28` | family `early` |
| A closure kept by a job that then throws reads a slot that is used again | `vm_state.inc:21` | family `escaped` |
| A `return` or `break` in a finally has the compiler compile that finally for ever | `compiler_statement.c:49-55` | not in a family: `CompileNode` does not end either |
| The pool of strings grows with the strings ever made, not with those there are: `csTableSet` counts tombstones when it decides to double, nothing shrinks the pool, and `csTableRemoveWhite` walks all of it at each collection. A loop that makes short-lived strings takes 29 MB after a million of them and 1.7 GB after fifty, although `docs/ARCHITECTURE.md:194-195` says that what a collection costs does not depend on how much is allocated | `table.c:95` | in `MCTables.cfg` give `Hash` the value `PoolHash`, `MaxStrings` the value 2 and check `SizeFollowsKeys` |

For a family, give `Families` the set of its name in `MCUnwinding.cfg`. In `MCTables` the table
is then bigger than the passing run has.

One thing more is modelled and has no run of its own: the room for waiting modules is
tested on the way down the import graph (`Refused`) and taken on the way up, so
a chain of imports longer than `ModulesMax` queues more modules than the limit
its message names.

## 5. Proofs

`EventLoopProofs.tla` starts with lemmas about the operators of `Promises`: each
keeps `HeapOK` and each leaves a heap that `Follows` the one before. They are stated
for an arbitrary heap and cited by name. Then come one lemma per action and the
theorems

- `Invariance`: `Spec => []IInv`;
- `TypeCorrect`, `TasksCarryCorrect`, `ReactionsMoved`, `WatchdogComplete`: the
  invariants that follow from it;
- `OutcomesStand`: `Spec => SettledOnce`;
- `TimersOrdered`: `Spec => []TimersInOrder`, and `ClearedForGood`:
  `Spec => ClearedStaysCleared`.

They hold for any number of promises, fibers, calls, inputs and timers.
Assumptions: `PromisesAssumption` (bounds are naturals; plain values are not
numbers, which here name promises) and `EventLoopAssumption` (bounds are
naturals, the queue of timers has room for one). TLC evaluates both. `IInv` holds in the states of `event_loop` and `sync` as well; to see
it, add it as an INVARIANT to their `.cfg` files.

`SyncProofs.tla` proves, for any finite set of workers and any number of permits,
places and values (`SyncAssumption`, which TLC evaluates),

- `Invariance` of its `IInv`, and from it
- `PermitsAreKept`: permits held, on their way and free are never more, or fewer,
  than the semaphore was made with;
- `NobodyIsLost`: a suspended worker has exactly one way back;
- `NoWaitIsInVain`: nobody waits for what is there to be taken;
- `DeliveryIsInOrder`: what was received is the beginning of what was sent;
- `WaitingMeansDone`: whoever `wait()` lets go has seen the count at zero;
- `FirstComeFirstServed`: a permit goes to the first of those who asked and have not
  gone on yet (`ServedInTurn`), whoever else is woken in between.

It starts with lemmas on sequences and on the two views of a queue, who is in it
and how often; then one on each kind of move (a worker joins a queue, leaves it
for `ready`, leaves `ready`), and one on each action. The count of permits survives
a hand-over only if the worker woken is counted once (`OneWayBack`) and does not
hold a permit already (`OnStack`); delivery stays in order only because a value
is handed to a receiver directly when nothing is queued and no sender waits
(`NobodyWaitsInVain`). That is why these facts are proved together.

`ServedInTurn` speaks of the order of asking, which is in no variable of the code, so
its proof needs a second invariant, `InTurn`: the askers are those that await a
permit, each once, and they stand in the order of asking on one line, made of the
workers woken and of the semaphore's queue behind them (`PermitLine`). A hand-over
takes the head of the queue to the end of the woken and leaves that line as it is
(`HeadMovesOver`); an `acquire()` with a permit free may go straight to the woken
only because nobody is in the queue then (`PermitsKept`); what other primitives
settle comes in between and changes nobody's order (`OrderWithMore`); and who is
resumed is the first of the line, hence the first who asked (`FirstAskerEnters`).
`InTurn`, too, holds in the states of `sync`.

None of the four safety properties of the loop is inductive alone. A microtask carries the
true outcome only if the promise it came from is allocated and stays settled; a
reaction can be moved to the queue with a true outcome only if it was on the
list of a promise that was pending; an async call settles an existing promise
only if a call under way always has one; and a step that retires the head of
the queue needs to know there is one. `IInv` is the conjunction of the type
invariant, `HeapOK` (references go to allocated promises, tasks carry the true
outcome, nobody waits on a settled promise), `NoSilentRejection` and `Control`
(fibers, running task, combinator in progress). The proof of `Invariance` has one step
for each action, and one under it for each conjunct the action can disturb.

The two theorems on timers rest on `TimersTidy`, which adds to `TimersInOrder` that
every identifier on the list, and that of the timer that fires, was given out
before: without it a new timer might get the identifier of one that was cleared,
or of the one whose callback runs. Four lemmas say that the list stays tidy when a
timer is put in its place, taken off, brought nearer or fired; each also says which
identifiers the new list can have, which is all `ClearedStaysCleared` asks.

The module goes on to prove `ImplementsContract`, `Spec => KeepsContract`, from the
same two assumptions: the loop refines `PromiseContract`. The contract speaks of
listeners as a set; the heap has them on lists, in the queue, and moves them. What
has to be invariant beside `IInv` is therefore `Numbered`: the listeners of a
promise have the numbers up to its count, and each stands in one place, once on
the promise's list or once in the queue. Without it a microtask that retires could
leave a second one for the same listener behind, and the contract's listener
would be answered while the heap's still waits. `Numbered` does not hold in the middle
of a step: an adoption or a `.finally` puts a copy of the head at the end of the
queue before the head retires. `RequeueSteps` therefore takes the two together, as a
rotation of the queue. The lemmas go by what an operation does to listeners:
`Alike` (nothing: allocating, filling a combinator, forgetting the watchdog's
list), `Turns` (one promise may settle, one listener may come), `Steps` (that,
and the head's listener is answered) and `Stops` (a fatal error, in the middle of
an answer or not); `TurnAllowed`, `FailAllowed` and `FinishAllowed` map them to the
contract's actions.

It ends by proving, again for any number of promises, async calls, inputs,
timers and calls, who waits for whom:

- `WaitedInvariant`: `Spec => [](IInv /\ Waited)`, and from it
- `WokenOnce`: `Spec => []OneWakeup`;
- `SettledByOne`: `Spec => []OneSettler`;
- `CombinatorsCount`: `Spec => []CombinatorOwes`;
- `HandlersQueuedInOrder`: `Spec => []HandlersInOrder`.

Every reaction and microtask has a `Route`: the async call it wakes, the promise it
settles or the combinator and input it feeds. `Once` and `Nowhere` say how many
entries of the lists and the queue lead into a set of routes, without counting. None
of the four properties is inductive alone. A queued wakeup stays the only one only
if an entry that wakes a call does nothing else (`LineKinds`, `QueueKinds`); a resumed
call is still named by the head of the queue, so `Thread` has to say which call
has the thread and that no call has it twice; what a combinator counts holds only
once its inputs are registered, so `Combiners` says of the one being fed how far it is;
and handlers stand in the queue in order only because they stood in order on the list
they came from (`LinesInOrder`). `Moves` says what an operation does to all routes at once:
the head of the queue stays, at most one entry comes (`A`), these promises settle
(`S`). `Goes` adds the task that retires (`B`), which is why a requeued head counts as
the same waiter. Each step of the program is then one fact of this form and says
only whom it names; `WakeupsExcept`, `SettlersExcept` and `CombinersExcept` give the
rest. `OneWakeup` and the other two count: the last lemmas turn `Once` into a set
with one element, and what a combinator is owed into the inputs it has not heard from.
From `Wakeups` follows that the branch of `csVMResumeFiber` for a fiber that is
not suspended is never taken (`HeadWakes`).

`MachineProofs.tla` proves `ListsStayInOrder`, `Spec => []ListsInOrder`, for any code
at all, compiled by this compiler or not, any depth of calls and callbacks and
any stack (`MachineAssumption`). The list of open upvalues stays in strict order
because `captureUpvalue` inserts where it stopped searching and
`closeUpvalues` only takes from the head. Handlers stay in order because a handler
is pushed by the innermost frame and `OP_RETURN` takes those of the frame it
leaves; that needs `HandlersOK` and `LoopsOK`, which say where each interpreter
loop began: a throw that stops at `baseFrame` leaves frames above it on the list,
and only the loop below may take them off. The proof has a lemma for returning, one
for throwing, and one for each kind of step.

`ModuleLoaderProofs.tla` proves, for any set of files, any imports, any verdicts and
any limit on the queue (`ModuleLoaderAssumption`, which TLC evaluates),

- `Invariance` of `IInv`, and from it, whatever `import()` calls the program makes,
- `BodiesRunOnce`: `Spec => []RunsOnce`;
- `CyclesAreReal`: `Spec => []NoFalseCycle`;
- `StaticInvariance` of `IInv /\ IStatic`, and from it, for a program that has not
  called `import()`,
- `ImportsRunFirst`: `Spec => []StaticOrder`;
- `EntryHasRun`: `Spec => []NothingSkipped`.

`IInv` describes the C stack: loads stand on loads or on a loop, bodies on a loop,
each module marked as loading has exactly one load there, and a body that was
entered has its flag. For the order of the bodies that is not enough. `IStatic`
adds what holds while `calls = 0`: the only loop is the program's own, so no body
runs before the loads are over; unless a load under way has failed already, what
a load has been through is in the queue or loading right above it (`LoadedSoFar`);
hence each file is queued behind all it imports (`InOrder`), and the loop finds
them finished when it comes to the file. A load that failed makes its askers fail, one after
the other, down to the program's loop, which then never starts: that is why the
order may be lost in the meantime. `import()` breaks both steps of the argument,
since it runs a loop inside a body and goes on after a failed load, and `modules_order`
shows that the order is then really lost.

`TablesProofs.tla` proves, for any keys, any hashes, any capacity that doubles from
`FirstCapacity` and any number of sites (`TablesAssumption`, which TLC evaluates),

- `Invariance` of its `IInv`, and from it
- `ProbesAlwaysEnd`: `Spec => []ProbesEnd`;
- `PointersStayGood`: `Spec => []PointersGood`;
- `ImplementsContract`: `Spec => KeepsContract`, the refinement.

`IInv` says that the array is `Whole`: each key is in it once, at a place its probe
comes to before one that was never used; the count is the number of places that
were ever used, tombstones among them; and that is at most three quarters of the
capacity. From the count follows that a probe ends, and from that what it finds
(`Searching`). A deletion keeps the key that lies behind it reachable because a
tombstone is not `Empty`, and the count right because it is not lowered; an
entry put in a tombstone does not raise it. Of a table that is growing, `Moving`
says what the larger array has: the entries before `growing.at`, no others, and no
tombstones. It must allow for a collection that has left the old array with a tombstone
since the growth was decided. `CachesOK` says that no kept pointer is valid while
the entries move: the version goes up before the first one does. The proof has
lemmas on arrays alone (entering, deleting and looking up), one lemma for each action, and
one more fact per action, what it does to the map (`Sets`, `Keeps` or
`Loses`), from which the refinement is read off.

`GeneratorsProofs.tla` proves, for any generators and any number of calls, yields and
awaits (`GeneratorsAssumption`, which TLC evaluates), as long as nobody asks an async
generator for a second thing while it owes the first (`Orderly`, which is what
for-await does and what `Client` without `"overlap"` says),

- `Invariance` of its `IInv`, and from it
- `BodiesEnteredOnce`: `Spec => []EnteredOnce`;
- `AwaitsAreMatched`: `Spec => []WakeupsMatchAwaits`;
- `ImplementsIterator`: `Spec => KeepsIteratorContract`, the refinement.

`Good` is what `IInv` says of one generator. A body on the C stack owes exactly one
answer, the last; so does one at an await, which is why nothing but the outcome
it waits for can move it; and a generator that is not over has answered every
other call by an item, so that `yields` is the number of the item to come. For an
async one the answer it owes is the promise in `pendingResult`. The event loop resumes
only on an empty stack, and the fiber it resumes is suspended where the wakeup
says. Without `Orderly` all of this is lost (section 4): `return()` at an await leaves
a wakeup behind, a second `next()` takes over `pendingResult`. The theorems
cover the `"escape"` of a rejection: it breaks a promise of liveness, not of order.

`HeapProofs.tla` proves, for any finite set of cells for objects, any cells for shapes,
keys, values and sites, any limit on slots and any first capacity (`HeapAssumption`,
which TLC evaluates: the kinds of cells are disjoint, and `None` is none of them),

- `Invariance` of its `IInv`, and from it
- `TypeCorrect`;
- `NoReferenceDangles`: `Spec => []NoDangling`;
- `CachesAreTrue`: `Spec => []CachesTellTruth`;
- `LayoutsAreShared`: `Spec => []OneShapePerLayout`;
- `BagsAreKept`: `Spec => KeepsBags`, the refinement;
- `FrozenObjectsStay`: `Spec => FrozenChangesTwoWays`, what a frozen object holds is changed
  by a cached store or by `Object.assign` and by nothing else;
- `GuardedNamesStay`: `Spec => SitesSpareGuarded`, a site that misses its cache never
  stores under a guarded name, and a deletion of others moves no value there.

None has a premise beside `HeapAssumption`: objects in shape mode are frozen, prototypes
get setters and every way to store is open. The exceptions that the last two name are
those of the code (the table of ways in section 3), and none of them is only
possible: `heap_frozen`, `FrozenRefuses`, `GuardedRefuses` and `SettersTakeWrites` show them
(section 4). Their content is in what they do not except,
the calls that look and then stop for an allocation before they store: an object that
is frozen, or a name that is guarded, at the store is so because it was when the call
looked, since nothing but the collector runs in between. No run checks the two, since
`KeepsBags` implies them.

None of the four invariants is inductive. What a collection frees is decided by
references that the next step has not written yet: `csShapeTransition` allocates
before it records the edge, and `csObjectPut` makes room before the object adopts
the shape. `IInv` therefore has `CallOK`, which says of a call at each of its stops
what it has found out and which roots it has pushed (`Pinned`); that is what keeps
the shape it is about to record or to adopt. `ShapesOK` says that each shape is its
parent's and one key more, and that its parent leads to it but for the one just made;
from that follows that a layout is never made twice, although edges are weak: an edge
is only pruned when its child is freed, and a shape's parent is never freed before
it. `CachesOK` says what a site remembers, for overwrites and for adds, and survives
a collection because an entry is given up as a whole; `ObjectsOK` that an object has
as many slots as its layout counts and refers to objects that are there.

The refinement has a lemma for each action of `PropertyBags` on the mapped state, one
for each action of `Heap`, and `ReachedMarked` for the collection: whatever
a path of properties leads to from the stack is marked, since a set closed under
what cells keep is closed under what bags refer to.

`OrderedMapProofs.tla` proves, for any keys, any hashes, any first sizes of index and
array and any number of entries (`OrderedMapAssumption`, which TLC evaluates),

- `Invariance` of its `IInv`, and from it
- `EveryLookupFinds`: `Spec => []LookupFinds`;
- `WalksMeetEach`: `Spec => WalkMeetsEach`;
- `ImplementsCollection`: `Spec => KeepsCollection`, the refinement;
- `StrongIsCollection`: `Kinds = {"strong"} => (Spec => Contract!Spec)`, the contract of a
  Map or a Set without any exception.

None but the last has a premise: collections come at every allocation, the growth of the
entries included, and callbacks take out what they like. What the code then loses is
in the properties themselves. They say what holds until an entry is `astray`, and that only
a weak collection can get there, by a collection between finding a place and using
it that changed the place; and that a walk leaves out only what it may once it is
`spoilt`, by a deletion of an entry it had passed.

`Sound` says what an index over the first entries is: each of them stands in one place,
the probe for its key comes there past places that are used, and nothing else stands
anywhere. It is what lets a search stop at the first free place. Since the load is
bounded (`Roomy`) there are more places than entries, so by the pigeonhole principle
one is free, and a search for a key that is not in comes to an end (`FindsFree`) at the
one place where entering it keeps the index sound (`Entering`). A deletion and a
collection rebuild the index (`Indexing`), since a gap would cut off what lies behind
it. `CallOK` carries this across the allocations of a call: what `csMapSet` knows when it
goes on after a collection is that its key is still out and that its new index has
room, and, when the array grows, that its place still waits for the key (`Waits`),
unless a collection has struck since, which is when an entry can go astray. `Owes`
says that a walk has yet to meet exactly what follows its place, and of a spoilt one
that it owes at least that.

The two loops of the code, over the entries for the index and to move them together,
are recursive functions (`Indexed`, `Without`). Proofs by induction over their
argument are made with sets: `UpTheSet` says that a set that has 0, and has e when it has
e - 1, has all up to the last, and follows from `LeastOf`. That a recursive function
is one (`BuildingUp`, `GatheringUp`) is proved the same way.

Only model-checked: `LoaderEnds`, what `Unwinding` says of the compiler (`Meaning` and
`ControlFlow` recurse over statements),
and all liveness. Liveness under fairness, ENABLED, and induction over data are
out of the prover's reach and stay with TLC.

## 6. Not modelled

Each component with status `not_modelled` in `PROJECT.json` says why, and section 2 says
what comes next. Inside the modelled ones these are left out: the operand stack
and frames of a fiber (a body is any sequence of calls), the values a combinator
collects (only which inputs are in), messages, where a module file is looked for,
and, outside `Heap` and `OrderedMap`, the collector, which any of these functions may call. In
`EventLoop`, resolve functions belong to `new Promise` only, and a runtime error
in a handler ends the run as the C code does. In `Generators`, an async body
that the loop resumed and that calls its own `next()` leaves the model in the
phase `crossed`: two fibers then share one execution state and what runs is no
longer the program's text. In `Sync`, `add` counts one at a time, `drain`,
`withLock` and `withPermit` appear as the calls they are made of, and a runtime
error that skips a `finally` is left out. In `OrderedMap` a value never leads to
a key, so the ephemeron rule of the collector is not reached, and a key's
hash and equality are one function, fixed for each key. `Heap` and `Unwinding`
say above what they leave out.
