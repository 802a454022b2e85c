# A verification project for js-ffi-cross

js-ffi-cross lets JavaScript call native functions and lets native code call
JavaScript ones.  Its own logic is `src/src/*.cc` (the addon, on libffi, libuv
and N-API) and `src/lib/**` (the types, the call proxies, the library loader).
These modules model its components, TLC checks small instances of them, and
TLAPS proves every safety invariant of the passing runs, and more, for every instance.

Every name of an action is that of the function, or of the step of a function,
that it models; `PROJECT.json` gives the lines of each definition.

## Inventory

| Component | Code | State | Operations | Talks to |
|---|---|---|---|---|
| Threaded callback dispatch | `callback_info.cc`, `threaded_callback_invokation.cc`, `callback.js` | `data->queue`, `data->mutex`, one mutex and condition per invocation, the async handle and its hold on the loop | `Invoke` on any thread, `WatcherCallback` and `DispatchToV8` on the main one | native threads, libuv's loop, JavaScript |
| Asynchronous calls | `ffi.cc` 281-354, `_foreign_function.js` 71-118 | one request per call, libuv's pool | `func.async`, `FFICallAsync`, `AsyncFFICall`, `FinishAsyncFFICall` | the pool, the dispatch (closures called from the pool) |
| ArrayBuffer registry | `ref-napi.cc` 46-127 | `pointer_to_orig_buffer`: weak reference and finalizer count per address | register, look up or create, unregister | every operation that takes or returns a Buffer, the garbage collector |
| Closure lifetime | `callback_info.cc` 16-21 and 83-140, `callback.js` 80 | the libffi closure, its function references, its cif | `Callback`, `closure_pointer_cb` | registry, collector, dispatch |
| Pointers and attached references | `ref-napi.cc` 190-330, `ref.js` 500-670 | which object keeps which alive | `writePointer`, `_attach`, `writeObject`, `reinterpret`, `readPointer` | registry, collector |
| Type system | `ref.js` 186-407 | type objects, their prototypes and `indirection` | `refType`, `derefType`, `coerceType`, `getType`, `get`, `set`, `alloc` | all of `lib/` |
| Codec | `ref.js` 668-910, `buffer.js` | none | readers and writers of integers, 64-bit values, BigInt | types |
| Struct, union, array layout | `struct.js`, `union.js`, `array.js`, `type.js` | fields, offsets, size, alignment, the cached `ffi_type` | `defineProperty`, `recalc`, instances, `Type` | type system, libffi |
| Variadic functions | `foreign_function_var.js`, `cif_var.js` | the cache of prepared functions, type ids | generate a function for some argument types | cif, proxies |
| Synchronous calls and cifs | `foreign_function.js`, `_foreign_function.js`, `cif.js`, `ffi.cc` 186-269 | cif buffers | prepare, call | libffi, dispatch |
| Function type | `function.js` | none | `toPointer`, `toFunction`, `get`, `set` | callbacks, proxies |
| Dynamic libraries | `dynamic_library.js`, `library.js`, `errno.js`, `win32-dlfcn.cc` | the handle, the last error | open (with the linker-script retry), `get`, `close`, `Library` | calls |
| Initialisation and teardown | `ffi.cc` 14-60, `callback_info.cc` 190-209 | `InstanceData` | `Initialize`, `Dispose` | dispatch, registry |

What makes them hard:

* **Dispatch.**  Native threads and the main thread share a queue, two kinds of
  mutexes taken in opposite orders, condition variables without a predicate,
  coalescing wakeups, and a handle count that no lock protects.  Correct means:
  the function has run when the native call returns; no dangling pointer is in
  the queue; no invocation and no signal is lost; no circular wait; the loop
  stays open exactly as long as needed; every call returns.
* **Asynchronous calls.**  The pool is bounded, its threads may all be blocked
  in closures, and results come back in the order of completion.  Correct means:
  one answer per call, the right one, and before the loop ends.
* **Registry.**  Weak references are cleared at collection, finalizers run later,
  and addresses are reused in between.  Correct means: one live ArrayBuffer per
  address (Node.js aborts otherwise), exact counts, no leak.
* **Lifetimes, layout, variadic cache, libraries.**  Sequences of legal calls
  that leave stale or dangling state behind: closures that outlive their cif,
  types that grow after they were measured or fail half-way, keys that collide, functions of a
  closed library.  `PROJECT.json` lists each hazard at its line.

## Modules

| Module | Role |
|---|---|
| `CallbackHandoff` | abstract: what a native caller is promised |
| `CallbackDispatch` | `Invoke` and `WatcherCallback`, step by step; refines `CallbackHandoff` |
| `CallbackDispatchProofs` | its theorems |
| `AsyncCalls` | asynchronous calls; extends `CallbackDispatch`, whose native threads are then the pool's |
| `AsyncCallsProofs` | its theorems, and that it implements `CallbackDispatch` |
| `ArrayBufferRegistry`, `ArrayBufferRegistryProofs` | the table of ArrayBuffers and its theorems |
| `CompoundTypes`, `CompoundTypesProofs` | structs, unions and arrays: layout, instances, descriptions for libffi; its theorems |
| `BufferMemory`, `BufferMemoryProofs` | Buffers, pointers, attachments, closures and the collector; its theorems |
| `ByteCodec` | the readers and writers of `buffer.js`, as pure operators |
| `TypedMemory`, `TypedMemoryProofs` | the predefined types over `ByteCodec`: getters, setters, `ffi_type`, results of calls; the theorems of both |
| `VariadicFunctions` | type ids, keys and the cache of prepared variadic functions |
| `DynamicLibraries` | opening, using and closing libraries from several environments |
| `ForeignLibraryProofs` | the theorems of `VariadicFunctions`, `DynamicLibraries` and their common instance |
| `RecursionTheorems` | that recursive functions exist, for the proofs about layouts, keys and codecs |
| `MC*` | the instances for TLC |

Definitions marked `Mutant` in comments are what a bug would make of the
definition after them; nothing uses them except the check that each property
notices its mutant.

### CallbackDispatch

`pc[t]` is the point of `Invoke` that native thread `t` has reached, `main` the
point of `WatcherCallback` (or of the loop: `poll`) the main thread has.
A thread has one invocation at a time, so the `ThreadedCallbackInvokation` of
`t` is named `t`: `live` says which exist, `invLock[t]` is the owner of its
`m_mutex`, `pc[t] = "waiting"` that it is in the wait set of its `m_cond`.
`mutex` and `queue` are `data->mutex` and `data->queue`, `asyncPending` is an
`uv_async_send` that the loop has not seen.  `outcome[t]` records what the
JavaScript function did.

Each step another thread can observe is an action.  The constructor's lock
(`Create`), the queue's lock (`LockQueue`), `Push` with its unlock, `Send`,
`Wait`, `Reacquire` and the destructor (`Destroy`) are separate; so are
`SignalLock` and `SignalAndUnlock`.  A push and the unlock after it are one
step, since nothing reads the queue without the mutex.

`uv_ref` and `uv_unref` are called from several threads outside any lock.  In
libuv they test a flag of the handle, change it, and change a counter of the
loop: three steps (`RefTest`, `RefSet`, `RefStore`), the counter read in the
second and written in the third, so that updates can be lost.  The counter is
unsigned and wraps at `CounterSize`.  That is a data race, undefined behaviour in
C; the model gives it these outcomes.  `work` stands for whatever else keeps the
loop alive (a timer, a server).

The main thread also runs JavaScript that calls closures directly (`DirectCall`,
nested up to `MaxNest`) and synchronous native functions that wait for a native
thread (`Join`).  `DispatchToV8` is `Finish`: its outcome is a value or an error,
and both signal the thread.

Three constants choose what the environment does:

| Constant | TRUE | Why it is a constant |
|---|---|---|
| `SpuriousWakeups` | `uv_cond_wait` may return without a signal, as its manual says | most properties are false then: that is a finding |
| `SyncJoins` | JavaScript makes blocking calls that wait for a native thread | a deadlock by design (the README advises against it), which would hide everything else in liveness |
| `SerialRefs` | `uv_ref` and `uv_unref` do not overlap | what the hold on the loop is worth apart from the admitted race |

### AsyncCalls

Calls are `Jobs`, with `stage[j]` from `new` over `queued`, `running` and
`finished` to `delivered`.  `Submit` is `proxy.async` down to `uv_queue_work`; `Reject`
is its `catch`, answered by `Tick` (`process.nextTick`).  `Take` hands the oldest
request to a pool thread, `CallClosure` lets the native function call a closure
through `CallbackDispatch!Enter`, `Complete` ends `AsyncFFICall`, and `Deliver` is
`FinishAsyncFFICall`.  Requests are active handles of libuv, so `AsyncLoopExit`
is `LoopExit` with the requests in its guard.

### ArrayBufferRegistry

An address has at most one entry: `registered`, `weak` (the cleared reference is
`NoBuffer`) and `count`.  `GetBufferData` and `WrapKnown`/`WrapNew` are the two ways
into the table; `AddEntry` and `Unregister` are its two updates.  `Collect` clears
the weak references and frees the memory an ArrayBuffer owns, `Finalize` runs
its finalizer later, and the allocators reuse addresses in between.
A view of a larger ArrayBuffer is not modelled: the table is keyed by the start
of the ArrayBuffer.  `WrapPointer(nullptr)` does not reach the table and is left out.

`FreeWhileWrapped` lets native code free memory that a live Buffer still wraps.
With it `NoDuplicates` is false: the freed address can become that of a JavaScript
Buffer while the entry still refers to the old one, so the new one is never
registered.  No document promises otherwise (the program already holds a
dangling Buffer then), so the instance and the theorem assume it does not happen.

### CompoundTypes

Compound types are numbered, and a type embeds only types before it: that leaves out
no acyclic use, since an empty struct can exist as early as one likes.  `kind` is chosen at the
start and constant.  A field type is a primitive or compound type or a pointer to one
(`refType`), as a record `[base, ptr]`.  `fields`, `offset`, `size`, `alignment`, `created`
(`_instanceCreated`) and `ffi_type` are the properties of the type objects.

`DefineProperty` is the whole of `defineProperty`, with `recalc` and the exception it
may end in: a type with `PrimAlign = 0` stands for a custom type object without
`alignment`, on which the assertion "offset should align" fails in a struct that is not
packed; the field is recorded by then (`accessors` lacks its name), and a later definition
of the same name replaces it.  `Keys` is `Object.keys`.  `DefineArray` reads the element
type's size and alignment once.  `GetField` makes instances of embedded types where
the assertion on the buffer's length allows.  `Describe` is `Type()` with its recursion; the
elements of an `ffi_type` are primitives, 0 for `pointer`, or the number of the nested
type, whose own elements never change once cached.  `FfiLayout` is libffi's
`initialize_aggregate`, translated from its source; `CLayout` is an independent
definition of the C layout, field by field, with arrays as a whole.

What the code computes is compared with C and libffi only where it can agree.
`Settled` asks that what a type cached is what it would compute now.  `Plain` and
`PlainToFfi` name what is laid out otherwise; each is a fact about the code, and TLC shows
it when the condition is removed (the instance has no arrays of arrays, the last of them):

* a type that grows after another one was laid out around it leaves that one stale, until the
  outer type is extended itself (`struct.js:228`); likewise its `ffi_type`, for good (`type.js:109`);
* a fixed array of pointers has the alignment of what they point to (`array.js:141`);
* a pointer to a fixed array inherits `fixedLength` and takes the room of the array
  (`struct.js:262`), and its setter writes a pointer there: only these break `FieldsDisjoint`;
* a packed struct is aligned to its least aligned field (`struct.js:250`), C aligns it to 1;
* fields with names like array indexes come first (`struct.js:239`);
* unions and packed structs are described to libffi as plain structs (`type.js:58`), and an
  array of arrays as pointers (`type.js:53`).

Left out: `void` (no size, no alignment) as a member of a union, and types that embed themselves.

### BufferMemory

A view is a Buffer object, a block a piece of memory: `view[v]` is where `v` points and whether
its ArrayBuffer owns the memory (`own`; one that `WrapPointer` made around an address does not).
`memory` holds pointers, closures' references to their cif, and the weak references of
`writeObject`.  `attached` is `kAttachedRefs` and `callback._cif`; `pinned` are the persistent
references that `WritePointer` in `ref-napi.cc` creates, which only the finalizer of the view
that was written deletes.  A block is freed when no live view owns it.

The actions are what a program can do with Buffers: `Alloc` (also at an offset, as in Node's
pool), `Slice` (also of structs and arrays inside others), `Reinterpret`, `WritePointer` and its
relatives `WriteNull`, `WriteNew` (`CString.set`, `setRef`, arguments) and `SetNested`,
`ReadPointer`, `WriteObject`, `CopyStruct`, `Callback`, and an asynchronous call, whose callback
captures the argument list.  `Function.set` is `Callback` and `WritePointer`.  The program may
drop any Buffer at any time, so `Collect` may take any set of views that nothing outside it
refers to by a pin, an attachment or the call in flight; a model of the roots would only make it
take fewer.  `Finalize` comes later.

The program uses every Buffer it likes but none whose memory was freed; the properties say when
that cannot happen.  `stray` is a history variable: the views without a claim to their memory.
What the code does not keep alive, each reached by the run:

* `ref.get` and `readPointer` do not attach what they return; a pointer to the start of an
  owned ArrayBuffer finds it in the registry, any other one gives a stray Buffer;
* a slice of a reinterpreted Buffer loses its attachment (`ref.js:633` attaches to the Buffer object);
* a setter of a struct or an array inside another one (`array.js:182`, `struct.js:172`) attaches
  to the slice that it writes through and drops: the pointee goes while the outer memory
  still points to it;
* `struct.set` of an instance copies bytes and attaches nothing;
* a closure that is reached by a second Buffer outlives the cif, which is attached to the first (`callback.js:80`);
* a target that was overwritten stays pinned until the view that was written is collected, and
  two Buffers that point to each other are never collected.

`CopyStruct` leaves out structs with objects in them (the copied weak reference would be used
twice).  Native code that keeps pointers is not in the module: nothing in the code protects it.

### ByteCodec and TypedMemory

`ByteCodec` is `buffer.js`: one operator per family of readers or writers, with the width and the byte
order as arguments, `checkInt`, `checkIntBI` and the bounds checks.  A byte has
`ByteValues` values, a double `DoubleBits` significant bits, a float `FloatBits`.  JavaScript values are
records of a kind and an integer; fractions are left out.  Floating point keeps its sign,
exponent, fraction, rounding to even, infinities and NaN.  The exponents have no bias, so the least
positive float, which stands for the least subnormal one, is 1; a pattern means what it means in IEEE 754 times a
constant, and the numbers are those below 2^`NumberBits` (2098 = 1024 + 1074 for doubles).  `-0` is left out
with the fractions.

`TypedMemory` has a Buffer in which variables lie side by side, and `Store`: any setter of a variable's
type with any value.  `value[i]` is history: what the program stored.  `Size`, `IsUnsigned` and
`MaxSizeIs8` are what `createCType` computes from the name of a type; `Set`, `Get` and the numeric
variants are the functions it generates, with their overrides.  `ResultSize` is the Buffer that
`_foreign_function.js` makes for a result, `Returned` what libffi writes to it.  `Meaning` says what a variable
holds after a setter did not throw: the integer that the value is, or for `set` of a float that number rounded
once (`ToFloat`).  `RoundTrip` and `FloatRoundTrip` compare the getters with it.

The assumptions: a byte has an even number of values; both float formats fill their bytes with a sign, whole
exponent bits and a fraction (`FormatAssumption`), and a JavaScript number is a double; the sizes
of the types are those that C allows them (`HostsAssumption`); a Buffer has less than
`Weight[4]` bytes, so that `offset >>> 0` is the offset; inputs are the values a program can pass.
TLC takes bytes of 4 values, the theorems any, 256 among them, with 24 and 53 bits.

Facts about the code that the model has, and that surprise:

* `BigInt.asUintN(val, bits)` has its arguments swapped (`ref.js:734`), so `setBigInt` always throws for
  types narrower than 8 bytes; `set` uses it for `long` and `size_t` even where they have 4 bytes,
  where they cannot be set at all;
* the setter override for `Object` is assigned to the getters and lost, and no writer has the width of a
  `Napi::Reference`: `set` throws (the type is left out of the module);
* `getNumber` and `setNumber` of `float` and `double` use the bytes of an integer;
* `set` of `bool` takes `val | 0` (`ref.js:785`), so a number counts by its low 32 bits and 2^32 is false: what `set`
  refuses is said by `ProperAccepted` for the other types only, and for `bool` of `setNumeric`; NaN is stored as 0 in integers;
* the getters of 8-byte integers give BigInts, although `README.md:107` promises strings (a finding below);
* `char` refuses codes from 128, which `get` returns for negative bytes;
* a result of 4 bytes is given 4 bytes where `long` has 4, although libffi writes 8 on 64-bit
  Windows (`_foreign_function.js:23`), and on a big-endian host a small result is read from the wrong end.

### VariadicFunctions

`id`, `counter` and `cache` are those of `foreign_function_var.js`; an id string is the sequence of its digits
to base `Base`, after `% Wrap` for the truncation to 32 bits.  `Generate` is the whole generator,
`PatchReturnType` the assignment its comment invites.  `CachedSignature` is what lines 17-18 say of the
cache.  It holds only while each id is one digit and four zeros, that is for 16 type objects: with more, the
strings are no prefix code.  For instance the types with the ids `10000` and `0` together have the key of
the one with the id `100000`, so that a call with one variable argument is given the function for two.
Ids repeat after 65536 types.  Strings such as `"int *"` make a new type object each time they are
coerced, so such types use up ids and never hit the cache.  A function made after the return type was
patched has a cif for the original one.

### DynamicLibraries

Each environment (the main thread, workers) runs its own JavaScript to the end; between them only the loader
(`loads`) and, on Windows, `lastError` are shared.  The constructor of `DynamicLibrary` is `New`, `Dlopen` and
`OpenError`, since other threads can run between `dlopen` and `dlerror`; a linker script goes
back to `Dlopen` with its target.  `Get` is `get` and what `Library` does with the symbol, `Close` is `close`.

A script is followed only where both patterns of the constructor match (`Follows`).  The one of line 66 wants the
loader's message to begin with a name that contains `.so` and no space or parenthesis: glibc's begins with the name
of the file, those of macOS and musl with other words.  So the hosts are `glibc`, `posix` (the others without shared errors) and
`win32`, and `Matches` says of a name that it has that form.  The one of line 69 wants a `GROUP(...)` in the
text: a file is an object, a `script` with one, an `other` text, or `unreadable`.  All else ends in an exception
(`Failure`): "Dynamic Linking Error", the one of `readFileSync` where a name matches and the file cannot be
read (a missing `libx.so` gives ENOENT in place of the loader's message), or a TypeError from `err.match` where
the message is gone.  So a script with a space in its path is reported as an error about the script itself.
The message is taken to be about the file given to `dlopen`; the loader may also name a library that this one
needs, which is not modelled.

`ScriptsFollowed` says which object is opened, the one to which followable scripts lead from the file asked for
(on every host), and which file an exception of the constructor is about: the first on this way that does
not open and leads nowhere.  `LeadsTo` says this as the least
closed set, apart from the order of the code's steps.  What it says of exceptions, and `ErrorIsOwn`, exclude Windows, where
both fail: another thread's failure replaces the error or takes it away.  Facts that no property is about:
`path()` gives the target of a script although line 129 says the path originally passed; a `Library` that lacks one
of its symbols throws and leaves its handle open; `close` may be called twice and then takes
the load of another object of the same file.  A script that names itself recurses for ever (the model
can do that too).

## Runs

| Run | Instance | Shows |
|---|---|---|
| `callback_live` | 2 threads, 2 calls each, nesting 1; no spurious wakeups, no joins, serial refs | the function has run before the call returns; no dangling or lost invocation, no lost signal, no circular wait; the hold is released; every call returns; refinement of `CallbackHandoff` |
| `callback_hostile` | 3 threads, 1 call each; spurious wakeups, joins, racing refs; symmetric threads | even so, the queue has one user at a time and a queued invocation is always going to be drained |
| `callback_spurious` | as `callback_live`, with spurious wakeups | **violation**: `Invoke` returns before the function has run |
| `callback_hold` | 2 threads, 1 call each, serial refs | **violation**: the loop ends while a thread is inside `Invoke` |
| `background` | 2 pool threads, 3 calls, the third may fail early or late; racing refs.  Or 3 ArrayBuffers, 2 addresses | one answer per call, the right one; the loop outlives pool threads.  Exact counts, lookups find the registered buffer, no duplicates, entries go away |
| `async_live` | 2 pool threads, 2 calls | all calls are answered, with all pool threads in closures |
| `layout` | 3 types in 4 combinations of kinds, 2 fields each, arrays of 0 and 2; `char`, `int`, a custom type | layouts are those of C and libffi where they can be, fields do not overlap, sealed types stay as they are |
| `memory` | 3 Buffers, 3 blocks of 2 slots, 5 calls of the program; symmetric | pointees, attached objects, cifs and arguments are kept; no Buffer shows freed memory, strays excepted |
| `codec` | each type on three hosts (64-bit little endian with `long` of 8 and of 4 bytes, 32-bit big endian), a second variable behind it, 4 byte values, 13 and 5 bits of precision | integers and floats that are stored are read back, C sees the integers, neighbours are untouched, `set` takes the proper values of a type and refuses all other numbers (but for `set` of `bool`), results fit |
| `codec_strings` | the same as `codec` | **violation**: an 8-byte integer is not a string |
| `calls` | 4 type objects, base 3, wrap 8, 2 requests with up to 2 variable arguments; 2 environments, 3 library objects; an object, a script, a script to that script, one with a space in its name, another text and a missing file; glibc, other POSIX systems, Windows | a prepared function has the signature asked for; functions stay mapped, errors are about the right file, the object opened is the one that followable scripts lead to |
| `layout_alignment` | the same as `layout` | **violation**: a type without `alignment` breaks the struct it is put in |

Why the bounds are enough: two threads suffice for every pairwise interleaving
of `Invoke`, and two calls each for a thread to meet what its first call left
behind; the third thread of `callback_hostile` gives a queue with an entry behind
the one in service while another is pushed.  In `background` there are more calls than
pool threads.  In its registry an address can be reused twice before its first
finalizer runs, so an entry counts up to three.  `CounterSize = 4` is enough for the counter
to wrap below zero and to stay apart from the values it should have.
In `layout` the third type embeds the second and the second the
first, so that a change has a type between it and the one it makes stale; two fields with sizes
1, 4 and 8 need padding before, between and after.
In `memory` five calls make a chain of three Buffers, write it, read it back and start a call; every
gap listed above needs no more.  In `codec` the values are the limits of every width, and those beyond
them, as Number (rounded to 13 bits, so that 8-byte limits are not exact) and BigInt;
bytes of four values keep all widths apart, since a width matters by its limits only, and the
integers fit into TLC's.  In `calls`, base 3 and wrap 8 put the
loss of the prefix code (more than three ids) and the sign bit within reach, just beyond the condition of the property;
a script that leads to a script needs two retries;
three library objects let one close twice, one stay open and one belong to the other environment.
`MCForeignLibrary` and `MCBackground` put two modules that share no state into one run: a behaviour is of one or the other.
`MaxCalls`, `MaxNest`, `CounterSize`, `MaxFields`, `MaxVariable`, `MaxRequests` and the two closes per library
are the only bounds in guards or arithmetic.
Deadlock checking is off where the program may end: all calls made, the loop over.

### Fairness

* Native threads: weak fairness of their steps; strong fairness of `LockQueue`,
  that is, the mutex is not withheld for ever from a thread that wants it.
* Main thread: weak fairness of the drain, strong of `LockDrain` and `Poll` (the loop returns to
  its poll again and again) and of `FinishAny` (a JavaScript function ends, though it may
  call closures itself any number of times).  `DirectReturn`, `JoinReturn` and
  `WorkStore` are weakly fair.  Nothing forces a call to start, the other work
  to end, or the loop to exit.
* `AsyncCalls`: pool threads take work and native functions return; `Deliver` and
  the tick queue are reached again and again, as libuv and Node.js do.
* Registry: garbage that stays garbage is collected, and finalizers run.

## Findings

1. **The hold on the event loop is not counted** (`callback_info.cc:182`).  The
   comment at line 162 says "hold the event loop open while this is executing".
   `uv_ref` sets one flag of one handle, so of two threads in `Invoke` the first to
   finish clears it.  The run keeps `uv_ref` and `uv_unref` from overlapping, so this is
   not the race the TODO admits.  `LoopOutlivesCalls` shows where it does not bite:
   under an asynchronous call the request itself holds the loop open.
2. **`WaitForExecution` has no predicate** (`threaded_callback_invokation.cc:28`).
   The comment at `ffi.h:101-104` and the tutorial (line 257) promise that the caller
   waits; after a spurious wakeup it does not.  The invocation is destroyed while
   the queue still refers to it.
3. **A type's alignment is not optional** (`struct.js:277`).  `docs/ref.md:370` says that it
   is, and defaults to the size.  In a struct the definition throws, and leaves the struct
   with a field that makes every later definition throw too.
4. **64-bit integers are not strings** (`ref.js:708`).  `README.md:107` says that the methods for 64-bit
   integers return strings and accept them.  `get` returns a BigInt, as the comment at `ref.js:701` and
   `types/index.d.ts:188` have it, and `set` throws for a string.  `RoundTrip` states what the code does.

## Proofs

All theorems are for any set of threads, jobs, buffers, addresses, views, blocks, types, hosts, libraries and files
(buffers and libraries: finite), and any bounds, under the named assumptions of the modules only:
the main thread is not a native one, `NoOne`, `NoJob`, `NoBuffer`, `None` are none of the objects they stand
beside, offsets and bounds are naturals, scripts lead to files, and those of the codec above.  The hypotheses that a theorem
adds are the constants that choose an environment (`~SpuriousWakeups`, `SerialRefs`, no `FreeWhileWrapped`), for
`LayoutAsInC` alone `AlignedAsInC`, and for `LoopHeldForOne` alone `OneCaller` and a `CounterSize` above 2.

`CallbackDispatchProofs`
: *In every mode*: `TypeCorrect`; `QueueIsExclusive` (from `MutexInv`: who is at a
  point inside the critical section owns `data->mutex`); `NoInvocationForgotten`
  (`QueueWillBeDrained` is inductive with it).
: *If there are no spurious wakeups*: `WaitsForExecution`, `NoDanglingInvocation`,
  `NoLostSignal`, `LockOrderIsSafe`, `ImplementsHandoff`.  None of these is
  inductive.  `HandoffInv` strengthens them all at once: `ObjectInv` says when an
  invocation exists and who owns its mutex; `QueueInv` that a thread is in the
  queue at most once and only between its push and its signal; `ServeInv` the same
  of the one in service; `OutcomeInv` that a thread has no outcome before its
  turn and has one after.  The refinement then follows action by action: `Push` is
  `Ask`, `Pop` is `Start`, `Finish` is `Finish`, `Destroy` is `Return`, all others stutter.
: *If `uv_ref` and `uv_unref` are serial*: `LoopReleased`.  `HoldInv` says that one actor at a time is inside an
  update, that the counter is then what the actor has read, and else 1 or 0 (plus the other work) as
  the flag says, and that a set flag has a thread that is going to clear it.  It needs no
  assumption on spurious wakeups and holds for every width of the counter.  `LoopHeldForOne` is the other side of
  the first finding: as long as calls of native threads do not overlap (`OneCaller`), the loop does not end
  while one is inside, for any number of threads and a counter that can tell 0, 1 and 2.  So overlapping calls are all that
  `callback_hold` needs, and without them there is no violation.

`AsyncCallsProofs`
: `AsyncImplementsDispatch`: `AsyncSpec => Spec`, so every theorem above holds for
  pool threads, and `PoolKeepsPromise` with it.  `CallsInv` (a pool thread's
  call is running, different threads have different calls, the queues hold
  different calls at their stage, after the exit none is in flight) gives
  `CallbackOnce` and `LoopIsHeldOpen`, the latter in every mode.

`ArrayBufferRegistryProofs`
: `TableInv` (the three properties and that a valid entry refers to a live buffer
  with a finalizer) gives `TypeCorrect`, `CountIsExact` and `RegisteredIsFound`; with
  the ownership of memory it gives `NoDuplicatesWhileOwned` if native code frees
  nothing that is wrapped.

`BufferMemoryProofs`
: All five properties of the run.  None but the type is inductive.  `Cells` says that content
  whose `via` is set is protected: what it refers to is pinned by (or attached to) that view, and still at
  the place that was written.  `Holds` says that what is pinned or attached exists.  `NoStaleView` needs most: a
  borrowed view is kept by another one, which may be borrowed as well, so the chain must end at an
  owner.  `Rooted` says so without a chain: every set of borrowed views has a member that is
  kept by a view outside the set.  Then the borrowed views of a block that lost its last owner would
  be such a set without one.  All calls of the program only add (`GrowthKeeps`), so the
  invariant is shown once for them and once each for `Collect` and `Finalize`.

`ForeignLibraryProofs`
: `LibInv` (an environment between two steps has the pending error of its last one; handles are
  objects) gives `OwnErrors`; `ChainInv`, that what an environment is opening lies on the way from the file it was asked
  for, and `ErrorInv`, that outside Windows the pending error is about the file that was just tried, give
  `ScriptsAreFollowed`: a script is opened further exactly where `Follows`, the two patterns, says so.  `CountInv`, that `loads` is the number of open and unclosed
  objects of a file of which none was closed twice, gives `FunctionsMapped`; `LoadsInv`, that no file is counted more often
  than objects were opened of it, gives `LibTypeCorrect` without that condition.  Both are about
  cardinalities, hence the finite set of libraries.
: `VariadicInv`: ids are different numbers below the counter (`VariadicTypeCorrect`), and whatever is cached is cached under
  the key of the signature it was made for.  While every id is one digit before its zeros, ids are a prefix code,
  so a key can be cut into ids in one way, and equal keys come from equal signatures (`SignaturesAreKept`).  Ids that
  were given stay, which keeps old keys valid.

`CompoundTypesProofs`
: `LayoutInv` says that field names stay distinct, union offsets 0, and that a type embeds types before it that
  had been defined.  It gives `TypeCorrect`, `Sealed` (an action property: what `_instanceCreated` protects
  stays, since all records below a sealed type are sealed and arrays are written once) and, with a walk
  along the fields that `recalc` lays out, `Disjoint`.
: `LayoutAsInC`: by induction over the numbers of types, a settled plain type has the layout of `CLayout`; on each
  level the walk of `recalc`, which meets an array item by item and a nested type through its cached size and
  alignment, is compared with that of `CLayout` field by field.  The items of an array need no padding between them
  if the size is a multiple of the alignment; the end of a packed struct, which `recalc` pads to the least alignment
  of its fields, needs none if that divides all sizes.  `AlignedAsInC` says both, and neither can be dropped: for an array of two items
  of size 3 and alignment 2, or a packed struct of types of size and alignment 4 and 6, `recalc` and C differ.  C has only powers of two, and sizes that are multiples of them.
  `OpenArraysAre` keeps arrays without a length apart, which are pointers to anyone who embeds them.
: `FfiLayoutAgrees` needs no such hypothesis: `initialize_aggregate` walks the same elements as `recalc`.
  `FfiInv` says that the elements of a description are of types before it, which makes `FfiLayout` well defined.

`TypedMemoryProofs`
: `Kept`: the variables lie side by side, and where the program stored something, the bytes are those of an integer
  that is in the range of the type (or is the pattern of the float).  A writer changes the bytes of its variable
  alone, so the neighbours keep theirs.  From `Kept` follow `IntegersComeBack`, `FloatsComeBack`, `CalleesSeeIntegers`, `ResultsAreRead`,
  `ProperValuesAreAccepted` and `MemoryTypeCorrect`.  The lemmas under it: the digits of an integer to base `ByteValues`
  determine it modulo `Weight[w]`; two's complement is undone by `Signed`; a rounded number is normal,
  its pattern below that of infinity exactly if it is in range, and `FloatValue` undoes `FloatPattern`.

`RecursionTheorems`
: The values of `recalc`, `CLayout`, `FfiLayout`, keys, weights and powers are recursive functions over intervals of
  numbers.  What one computes can be used in a proof once a function that satisfies its equations is
  known to exist: `StepRecursion` (the value at `i` depends on that at `i - 1`) and `Recursion` (on all before).
  The step is given as a function, so that no theorem has an operator parameter; inductions
  go by the least counterexample, as a well-founded order has one.

Only model-checked: the liveness properties (`CallReturns`, `AllAnswered`, `EntriesGoAway`), since TLAPS does not do
liveness under fairness, and the four violations.  Every invariant and every other action property of the passing runs is a theorem.

## Plan

What is left, in this order:

1. The condition under which a definition never fails: a struct whose members all have alignments.  (A custom type without
   one is not the only exception: an array of pointers to an empty struct has the alignment 0, and an array of such
   arrays cannot be a field.)
2. A refinement for the codec: a Buffer of variables implements an array of independent cells.
3. `CachedSignature` for keys with a separator between the ids, without the condition on single digits.
4. `TypeSystem`: type strings, `coerceType`, `refType` and `derefType` as inverses.
5. Arrays closed by zeros (`untilZeros`, `reinterpretUntilZeros` by contents).

## Not modelled

* libffi, libuv, N-API and V8 are external: their calls are steps with the effects
  the code relies on.
* `Dispose`: it runs when an environment ends, destroys the mutex and deletes the instance data while
  native threads may be anywhere in `Invoke`.  What they do then is undefined, and nothing is
  promised: a model would say no more than this sentence.
* Native code that keeps a pointer or a closure after the program dropped its Buffer.
* The parsing of type strings, `inspect`, `toString`, `toObject`, `toArray`; arrays closed by zeros.
* Fractions, and the type `Object`, which `set` cannot store and `get` only reads where native code put one.
* Windows: `Invoke` compares thread ids instead of `uv_thread_equal`, which changes nothing here.
* Debug output, error texts and argument checks that throw before any state changes.
