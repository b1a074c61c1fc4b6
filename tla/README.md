# GoScript in TLA+

GoScript compiles Go packages to TypeScript (`src/compiler/`) and runs them on a
TypeScript runtime (`src/gs/`).  A goroutine becomes an async function: it runs
without interruption until it awaits a promise, and the event loop decides who runs
next.  Channels, `select`, locks, contexts, timers and pipes are therefore ordinary
objects with lists of pending promises, and their correctness depends on what other
goroutines do between the moment a waiter leaves a list and the moment its promise is
settled.  The rest of the runtime rebuilds Go's sequential library on JavaScript's
numbers, strings and arrays, where the hazards are widths, aliasing, boundaries and
errors half way.  The compiler itself shares a cache between processes, computes which
functions are async, and runs test packages in parallel.

## 1. Inventory

| part | source | state | operations | what is hard |
|---|---|---|---|---|
| channels | `gs/builtin/channel.ts` | `buffer`, `closed`, `senders`, `receivers`, `receiversWithOk` | send, receive, receiveWithOk, close, nil channels | hand-off in microtasks, wakeups in timers, several waiting lists |
| select | `gs/builtin/channel.ts` | one task per case in the lists of several channels, an AbortController | fast path, default, blocking, race, abort | a second case served before the abort, a rejected race |
| Mutex, Cond, RWMutex, Once, WaitGroup | `gs/sync/sync.ts` | flags, counters, queues | Lock, Unlock, Wait, Signal, RLock, Do, Add, Go, ... | hand-over while a microtask is pending; test, await, test again |
| sync.Map, Pool, OnceFunc | `gs/sync/sync.ts` | a map behind an RWMutex; a list | Load, Store, Swap, CompareAndSwap, Range, ... | keys equal for Go, distinct for JavaScript; a Range under way |
| atomic | `gs/sync/atomic` | a cell | Load, Store, Add, And, Or, ... | widths and signs |
| context | `gs/context/context.ts` | `err`, `children`, `doneChannel`, `timer` | WithCancel, WithDeadline, cancel, AfterFunc | cancellation tree, timer against cancel |
| timers | `gs/time/time.ts` | a host timeout, a channel of capacity one | Stop, Reset, After, Tick | stop and reset against fire |
| HTTP client | `gs/net/http/index.ts` | request, fetch, watcher, body | RoundTrip, Read, Close | answer, cancellation and close at the same time |
| defer, panic | `gs/builtin/defer.ts`, `panic.ts`, emitted frames | a stack, the recovering panic | defer, dispose, recover | a deferred call that throws or awaits |
| io.Pipe, readers, writers | `gs/io/io.ts` | pending reads and writes; offsets | Read, Write, Copy, Seek, two closes | split writes, short writes, data with EOF |
| slices, buffers, reflect values | `gs/builtin/slice.ts`, `gs/bytes`, `gs/reflect` | backing arrays, cells, offsets | append, copy, reslice, Set, Read | aliasing, copies beside the original |
| types and type objects | `gs/builtin/type.ts`, `gs/reflect/type.ts` | a registry | identity, assertion, layout, promotion | recursion, declared types, embedding |
| text, paths, trees | `gs/strings`, `gs/bytes`, `gs/path`, `gs/io/fs` | none | search, split, replace, Clean, Match, Walk, Glob | boundaries, links, broken UTF-8 |
| numbers, times, encodings | `gs/builtin/builtin.ts`, `gs/math/bits`, `gs/time`, `gs/encoding`, cryptobyte, protobuf | builders | arithmetic, dates, encode, decode | every width's edge |
| errors, testing, sort, positions | `gs/errors`, `gs/testing`, `gs/slices`, `gs/sort`, `gs/go/token` | trees, suites, files | Is, As, Run, Cleanup, Sort, Position | order of failures and cleanups |
| compiler cache, compile service | `compiler/compiler-cache.go`, `service.go` | blobs, manifests on disk | Entries, Replay, Emit, Store | kills, failed writes, concurrent compilers |
| semantic model | `compiler/semantic-model.go` | the set of async functions, a work list | Build | fixed point over recursive calls |
| test runner | `compiler/gotest/runner.go` | results, a semaphore, a context | compile, type-check, run | cancellation against slots |

How they interact: compiled code calls `chanSend`, `chanRecv`, `selectStatement` and
the `sync` classes, always with `await`; a `go` statement is lowered to
`queueMicrotask(async () => ...)`.  Context and timers use channels (`doneChannel`,
`Timer.C`); Once and sync.Map use the mutexes; the HTTP client waits for a context's
Done channel; everything shares one microtask queue and one timer queue.  What
`AsyncColour` computes is what makes the calls awaited.

`PROJECT.json` lists every component with its status and, under `hazards`, the lines
where the difficulties bite.

## 2. Modules

### Machines

| module | models | remarks |
|---|---|---|
| `GoChannel` | abstract: a Go channel as one line of values | what `Channel` implements |
| `Channel` | `BufferedChannel` and the nil-channel helpers | `chan`, `micro`, `timers`, `pc`, `op`, `done`, histories |
| `Select` (extends `Channel`) | `selectStatement`, `trySelect*`, `selectSend`, `selectReceive` | plus `stmt`, `registering` |
| `Mutex`, `Once` (extends it), `RWMutex`, `WaitGroup` | package sync | queues, microtasks, program counters |
| `Context` | contexts as a forest with host timers and watchers | the continuation of a watcher is any later step: that it comes is `ServedContinues` of `Channel` |
| `Timers` | Timer, Ticker, After, AfterFunc | host timers with identities, so that a stale one can be told |
| `HTTPFetch` | `Transport.RoundTrip`, the fetch context, the response body | one request against cancel, network and Close |
| `Defer` | `DisposableStack`, `AsyncDisposableStack`, `panic.ts`, emitted frames | goroutines as stacks of frames |
| `Pipe` | `pipeState` | bytes are numbered, so a byte names its place |
| `SyncMap` | `Map`, `Pool`, `OnceFunc` | beside a map keyed by Go equality |
| `Slices`, `Buffers`, `ReflectValues` | storage with aliases | beside what Go prescribes for the same calls |
| `CompilerCache` | compilers over one cache directory | a file's contents are the inputs it was made from; a digest is what is digested |
| `AsyncColour` | the work list of `Build` and the keywords of `lowering.go` | any order of the work list |
| `TestRunner` | `Runner.Run` | one worker per package, a semaphore, a context |
| `ChannelProofs`, `SelectProofs`, `SyncProofs`, `RuntimeProofs`, `CompilerProofs`, `DeferProofs`, `ObjectProofs` | theorems | section 5 |
| `SequenceFacts` | lemmas about sequences and least numbers | used by the proofs |

### Algorithms

`Paths` (with the operations on trees of files), `Text`, `Words`, `TimeValues`,
`BinaryEncoding`, `ProtoWire`, `Streams`, `HTTPMessages`, `Types`,
`Collections`, `Errors`, `Testing` and `Positions` are the code's functions as
operators, each with promises (`...Promise`) that compare it with a definition of what
Go says.  `MCLibrary` ranges over all inputs of a bounded size: a behaviour asks one
question, and the step that asks it must find the answer's promise kept (`...Agree`,
properties of that step: an action property reads only `probe'`).

Widths are scaled down and not left out: words have 8 bits, of which JavaScript's bit
operators keep 4 and its numbers are exact to 100; the bytes of `BinaryEncoding` have 2
bits, or 4 where it models cryptobyte, and those of `ProtoWire` 4, so a length of one
byte overflows at 8 or 16 elements; a day has 32 units, and years are those of the
Gregorian calendar.

### Composition

`MCSync`, `MCRuntime`, `MCCompiler` and `MCLibrary` put several machines into one
specification; `part` says which one a behaviour is about, and the others keep their
initial values.  They do not interact there.  `MCLibrary` extends `Slices`, `SyncMap`,
`Buffers`, `ReflectValues`, `Pipe` and `Defer`, so that a run checks the very definitions
section 5 proves, and takes the others as instances.  Where parts do interact they are one
module (`Select` on `Channel`, `Once` on `Mutex`) or one states the property the other
relies on (`Context` on `Channel`, `SyncMap` on `RWMutex`).

### The event loop

One action is one uninterrupted piece of JavaScript: a call up to its await, one
microtask, one timer, or the continuation of an await.

* `micro` is the list of callbacks passed to `queueMicrotask`, run in order.
* `timers` holds the callbacks of `setTimeout(_, 0)` in `scheduleClosedChannelWake`.
  Timers of equal delay expire in order, and only when no microtask is left.
* A promise settled by a microtask is put in `done[g]`, and the goroutine continues
  later (`Resume`).  How many engine microtasks that takes depends on how deep the
  promise is wrapped in async functions; the model lets it happen at any point before
  the next timer.  This over-approximates the engine, so the invariants hold for every
  engine order.  For the violations section 6 says which real order shows them.
* A timer settles one promise when nothing else is queued, so the continuation is part
  of the timer's action.
* In `Mutex`, `RWMutex` and `WaitGroup` the microtask that resolves a waiter also moves
  it on: from then on the waiter owns what it waited for, whenever its code continues.

Values are numbered in the order of the sends, so a value names its send; 0 is the
element type's zero value, which only a closed channel yields.  Registering the cases
of a blocking select is one piece of JavaScript, taken case by case (`RegisterCase`); no
other action is enabled meanwhile (`Idle`).

### Programs

The models leave open what the compiled program does: a goroutine that is not blocked
may start any operation.  `Mutex` and `RWMutex` assume what Go asks of programs: only a
holder unlocks, and Cond.Wait is called with the lock held (`UnlockPanics` is the
exception the code tests for).  `WaitGroup` also has programs that call Done once too
often (`DoneTooOften`), since Add changes the counter before it throws; after two, the
Add of `Go` throws too and its task never starts (`LaunchThrows`).  `Slices` runs
programs that index within bounds; `Context` programs cancel in any order and twice.

## 3. Runs

| run | instance | shows |
|---|---|---|
| `channel` | 3 goroutines, 2 operations each, capacities 0 and 1 | `QueueDiscipline`, `NoLostWakeup`, `NoLoss`, `Rendezvous`; `ImplementsGoChannel`, the refinement of `GoChannel`; `ServedContinues` |
| `select` | 3 goroutines, 2 operations each, five kinds of statement | `SelectNotForgotten`, `ReceivedInOrder`, `PanickedSendDeliversNothing` |
| `select_stop` | a data channel and a stop channel that is only closed | `SelectCommitsOneCase`, `NoLoss`, `ServedSelectEnds` |
| `sync` | 4 goroutines with 2 calls each; 3 may write and 3 read; 3 tasks, 2 waiters, two misuses | `MutualExclusion`, `HandOverInOrder`, `OnceAgrees`, `NobodyStranded`, `WaitCovers`, `EveryCallReturns` |
| `runtime` | 3 contexts below Background, deadlines within and beyond the clock; one timer started twice; one request with two reads of its body | `TreeConsistent`, `CauseInherited`, `DeadlineExact`, `StopIsFinal`, `CancellationArrives`; `FiresWhenDue`; `RequestReleased`, `CancelledReturns` |
| `compiler` | 2 compilers, 2 packages and an override, one edit, one fault; all programs of 3 functions and a method; 3 test packages, 2 at a time | `CompiledFresh`, `ColoursAgree`, `VerdictsTrue` |
| `library` | see section 2; lengths and alphabets in `MCLibrary` | `StringsAgree`, `NumbersAgree`, `StreamsAgree`, `ValuesAgree`, `SlicesAgree`, `BuffersAgree`, `StoresArrive`, `SyncMapAgrees`, `PipeAgrees`, `RecoveredOnce`, `DeferredRun` |
| five violations | | section 6 |

What the properties of the composed runs say:

* `OnceAgrees`: f is called once, and a Do that had to lock returns after f has ended.
* `NobodyStranded`: who waits for a Mutex, a Cond or an RWMutex waits for a holder, a
  chosen writer or a queued microtask, and `_readers` is exact.
* `WaitCovers`: Wait returns only after every task launched before it; nobody stays
  behind; the counter is exact between Go and the start of its task.
* `TreeConsistent`: the children of a context are its live registered descendants, and
  no live context hangs below a cancelled one once watchers have run.  `CauseInherited`:
  a cause travels down and is never replaced.  `DeadlineExact`: a context expires at the
  earliest deadline above it, not before.  `StopIsFinal`: a `stop()` that answered true
  kept f from running.
* `FiresWhenDue`: a callback runs when its delay is over, never after Stop or for an
  earlier start.
* `RequestReleased`, `CancelledReturns`: the request's body is closed once, unless
  RoundTrip throws before it has read it (then nothing was sent; section 6), the error
  names the cancellation, and no watcher outlives the request.
* `CompiledFresh`: after kills, failed writes and damaged blobs, a compilation that
  reports success leaves files made from the sources as they are, as far as a digest
  covers them: a package and what it imports.  Exactly what one without a cache would
  leave, when it has compiled or nothing else has changed.  Its inputs hold still while a
  compiler runs; section 6 says what happens otherwise.
* `ColoursAgree`: every call that yields a promise is awaited, every body that awaits is
  async; nothing is async without a reason: the async functions lie within every set that
  has those that wait and all that follows from it.  The exceptions are those the code
  makes: `Error() string` counts as synchronous, and a function of a recursion may be
  missed when it calls one that reads a lazily initialized variable.
* `VerdictsTrue`: passed means that every chunk of the package ran and passed; a failure
  has an owner, except that of a package the cancellation kept from being compiled.
* `DeferredRun`: a frame that is left has run its deferred functions, latest first, up
  to one that threw; the return statement of a frame that may recover and has unnamed
  results (`ReturnBare`) is what `defer_return` is about.  `RecoveredOnce`: a panic is
  recovered by its own goroutine, once.
* `SlicesAgree`: every variable has Go's length, capacity and elements, and two elements are
  one variable exactly when they are in Go.
* `BuffersAgree`: the bytes of a `bytes.Buffer` are those written and not yet read, however
  they were moved; a reader hands out the text from where it was last put.
* `StoresArrive`: what is stored through reflect.Values is where Go puts it, and a Value
  reads what its variable holds until the variable is written past it.  Go's side of
  `Set` copies what the variable of its argument holds, the code's what the argument
  carries; `Set` from a Value written past is left out (`StaleSet = FALSE`; section 6).
* `SyncMapAgrees`: sync.Map answers as Go's, also under a Range; Pool and OnceFunc too.
* `PipeAgrees`: what is read is a prefix of what was written, in order; nobody waits
  beside someone who could serve; a close answers everyone.

Bounds.  `MaxOps` bounds the operations a goroutine starts; queues, jobs and histories are
finite because of it.  Three goroutines with two operations make it possible that two
parties wait while a third acts, that a buffer is refilled from a blocked sender while
another sender blocks, and that a close meets two waiters.  Four goroutines in the lock
models allow an owner, a woken waiter, a queued waiter and a newcomer at once. Three
contexts make a chain and a fork; deadlines of 1 and 4 with a longest delay of 2 and a
clock of 1 put deadlines before and after the end, and one beyond what the host can wait
for.  A timer's delays of 0, 1 and 4 with a longest delay of 3 and a clock of 4 do the
same.  Two compilers with one edit and one fault interleave a store with a replay, with a
kill between blob and manifest.  Three functions and one interface method make every
recursion and every promotion of length three.  The inputs of `MCLibrary` are all strings
of the length at which each algorithm has entered every branch: paths of six elements,
patterns of four, texts of seven.  Symmetry under permutations of goroutines is used in
`select` and, for deferred calls and pipes, in `library`, which check no liveness;
goroutines are model values there and no definition names one.  Deadlock is not checked: a
program may stop, a goroutine may block for ever, and a probe ends with its answer.

Fairness.  `RunMicrotask`, `RunTimer` and `Resume` are weakly fair because the event loop
runs every queued callback; so is `EventLoop` in `Context` and `HTTPFetch` (timers that
are due, watchers whose channel is closed, promises the host has settled - but not the
network, which may never answer).  Nothing forces a goroutine to start an operation.  The
lock models add that a holder unlocks, `Once` that f ends, `WaitGroup` that a task ends:
the program's duty, without which no lock returns.

Refinement.  `Channel!Go` maps a channel to the line made of its buffer followed by the
values of its blocked senders.  `GoChannel` knows one line per channel and no event loop:
a send joins the line or, when it is empty, passes its value to a receiver; a receive
takes the head; closing keeps the first `Capacity` values; blocked select cases may
withdraw.  `Slices`, `Buffers`, `ReflectValues` and `SyncMap` are checked against their
abstraction in lock step: the module holds both states, every call acts on both, and the
invariant says that they agree.

## 4. Mutants

Every property of a passing run has a mutant, an operator next to the definition it
replaces, marked "Mutant" in the modules: the close that forgets a list, the
acknowledgement that is not sent, the lock that is free during the hand-over, the reader
that is not counted, the child registered with a dead parent, the timer started after
the cancellation, the digest that leaves out the imports, the good suffix that skips too
far, the copy that runs forward over an overlap.  A property that joins several parts has
further ones, for the other parts: `ReleaseForgets` (`NobodyStranded` for the Mutex),
`UsableUnchecked` (`CompiledFresh`), and in the library `CleanForgetsDotDot`,
`HostWalkGoesOn`, `DecodeRuneOneByte`, `HeaderAddRaw` and those beside the definitions of
`Words`, `TimeValues`, `BinaryEncoding`, `ProtoWire`, `Types`, `Collections`,
`Testing`, `Positions`, `Buffers`, `SyncMap`, `Pipe` and `Defer`.  None of
them is part of a specification.

## 5. Proofs

TLC shows a property for the instances of section 3; the theorems below hold for every
value of the constants.  Each invariant comes from an inductive one, with a lemma per
action and a temporal step at the end.

`ChannelProofs` (module `Channel`): `ChannelTypeCorrect`, `ChannelQueueDiscipline`,
`ChannelImplementsGo` (the refinement of `GoChannel`), `ChannelLosesNoWakeup`,
`ChannelLosesNoValue`, `ChannelRendezvous`, `ChannelPanickedSend`,
`ChannelReceivedInOrder`.  The discipline of the lists is inductive with `TypeOK`,
because an action replaces one channel by a function of its old value; the refinement
follows from it, action by action.  The others need to know where a promise and a value
are.  `ChannelInv` gives every pending promise a token that names its place: a list, a
job or the settled results.  `Shape` says what each place may hold, `Awaited` that a
blocked operation has exactly one token and any other operation none, `Values` what the
history says of the value in each place.  The order of reception follows from the order
in which values leave a channel and the order in which settled receivers continue.

`SelectProofs` (module `Select`): `SelectTypeCorrect`, `SelectQueueDiscipline`,
`SelectImplementsGo`, `SelectForgetsNobody`, `SelectCommitsOnce`.  The first three are
those of the channel, again with the tasks of select cases in its lists and the aborts
that take them out: what `SelectSeq` leaves is a subsequence, and one that keeps every
task of another operation (`Remaining`).  `SelectForgetsNobody` is inductive together with
`OneAddressee`: an acknowledgement in a microtask and the wakeup a close leaves in a timer
settle the promise of the goroutine they were made for, so serving a task moves one case
and leaves those of all others where they are.  `SelectCommitsOnce` assumes
`OneSendChan` (a statement has at most one case on a channel that anybody sends on, the
others wait for a close, as in the constants of `select_stop`); in general it is false,
which is the finding `select_two_receives`.
`OneCaseInv` says where cases may be: senders only on channels that are sent on, and
microtasks and settled promises only for a case there, which a statement has only one of.
The other cases are woken by a timer, and then nothing else is queued.

`SyncProofs` has two parts.  Of module `Mutex`: `MutexTypeCorrect`,
`MutexMutualExclusion`, `MutexAccounted`, `MutexHandsOverInOrder`.  Exclusion alone is
not inductive, since a microtask moves whomever it holds.  `IInv` adds `Places`: those
in `_waitQueue` are queued, those in `_waiters` parked, each only once; the goroutine of
an Unlock microtask is chosen and there is one such microtask at most; those of Signal
and Broadcast microtasks are waking and no two microtasks share one.

Of module `MCSync`: `SyncMutualExclusion`, `OnceKeepsItsPromise`, `SyncStrandsNobody`,
`WaitGroupWaits`.  `SyncInv` joins `IInv`, the places of a Once, of an RWMutex (`RWPlaces`:
a waiter stands in one queue or one microtask; `ReadersExact`) and of a WaitGroup (the
counter is the number of launched tasks, a waiter's resolver is in one place).  Counters
are cardinalities of sets of goroutines and tasks.

`RuntimeProofs` (modules `Context` and `MCRuntime`): `ContextTreeConsistent`,
`ContextDeadlineExact`, `ContextStopIsFinal`, `ContextCauseInherited`.  `Sound` says of
the forest that it is `Shaped` (parents are older), `Registered` (a registered context
is registered with its nearest cancellable ancestor), a `Tree` (a context keeps exactly
its live registered descendants, and none once it is over) and `Timed` (`Deadline` is
the earliest above, and who has exceeded his deadline had one that was due).  What the
code finds by walking up the parents is a recursive function here; facts about it hold
because a context for which one fails would have an older one for which it fails.  What
`cancel` reaches is the least set closed under children, so a set that is closed
contains it.  `RuntimeHasContexts` carries these theorems to `MCRuntime`, where
contexts, timers and requests share a host; there the module adds `TimersFireWhenDue`
(`TimersInv`: an object's host timer carries its last start, its delay and its identity)
and `RequestIsReleased`.

`DeferProofs` (module `Defer`): `PanicsRecoveredOnce`, `DeferredFunctionsRun`
(`DeferredRun`, with its exception for the plain return statement).  That a panic is
recovered once, by its own goroutine, is not inductive: `recover()` reads one variable,
`activeRecoverPanic`, that all goroutines share, and the scopes of `withRecoveringPanic`
set and restore it.  `DeferInv` says of each goroutine (`Sound`) that a frame which called
another or which an error reaches runs its body or a deferred function (`InsideOut`); that
the errors of its frames are its own panics and only a frame that has a `recover` holds a
recovered one (`Errors`); that a panic is in one place (`Apart`); and that scopes belong
to such frames while they unwind, and restore the panic of a scope further out
(`Scopes`).  Of the shared state it says that scopes are open only in the goroutine that
runs and that one of them set the variable (`OpenScopes`), that a panic is recovered only
by who raised it (`ByOwner`), and that the stack of panics holds exactly those nobody has
recovered, each once (`Stacked`).

`ObjectProofs` has five parts.  Of module `Pipe`: `PipeIsAStream`, which is `PipeAgrees`
for any goroutines, calls and bytes.  `PipeInv` says that the pending writes tile the
numbers that follow the bytes already read, so that the next byte a read takes is the next
one written; that the two lists hold exactly the goroutines that wait, each once; that a
closed end leaves nobody; and that one of the lists is empty whenever a call has ended.
The last needs the loop of `drain()`: its rounds are a recursive function of the number of
rounds left, and each keeps what is said of bytes and waiters and shortens a list.

Of module `Slices`: `SlicesAreGos`, which is `SlicesAgree` for any variables, capacities and
sequences of calls, if no `append(s, t...)` spreads a t that begins before the end of s and
ends behind it (`Overlap = FALSE`; section 6).  `SliceInv` says that headers and element
references are the same on both sides and that the arrays are, where the code has
written.  The loop of `append` is a recursive function of its rounds; the proof takes the
first round after which it would have read an element that it had overwritten.

Of module `SyncMap`: `SyncMapIsAMap`, which is `SyncMapAgrees` for any keys and
sequences of calls without a Swap of keys that are equal and distinct objects
(`SwapEqual = FALSE`; section 6).  `MapInv` says that no two entries have keys that are
equal for Go and that the entries are those of Go's map; that what a Range has visited, and
what it has left, has no key twice and covers the keys that stayed; that a pool holds an
object once and never one that is held; and that a OnceFunc has one outcome.

Of module `ReflectValues`: `ReflectStoresArrive`, which is `StoresArrive` for any Values and
sequences of calls in which Set takes no Value whose variable was written past it
(`StaleSet = FALSE`).  What such a Value carries is what its variable holds, so Set stores
what Go does.  `ReflectInv` adds that a Value which stands for a variable has that
variable's kind and that every other one is an int or invalid, so that a setter
writes a variable of the kind it accepts, and a map is stored into where Go stores.

Of module `Buffers`: `BuffersHandOut`, which is `BuffersAgree` for any sizes, if runes are
read only where runes begin (`Garbage = FALSE`; section 6).  `BufferInv` says element by
element that the array holds the bytes passed and then the unread ones, and which of them
the last rune is.  The lemma that the writes share is `Roomy`: whichever of its ways
`grow` takes (reset, reslice, first allocation, slide, new array), the unread bytes stand
behind an offset that is kept or zero.  `ReaderInv` says that what was handed out is the
part of the text between the last seek and the index.

`CompilerProofs` (module `MCCompiler`):

* `CacheNeverStale`: `CompiledFresh` if inputs change only between compilations
  (`EditAnytime = FALSE`; `cache_stale` shows what happens otherwise).  `CacheInv`: every
  manifest is the one that belongs to its key; what a compiler has read is what is there;
  a file of its output is right or still to be written.  The lemma `KeyNamesContents`
  carries it: inputs with the same key give files made from the same sources, and the same
  files as long as nothing has changed that no digest covers.  That part (`Rest`: colours
  and type descriptions that depend on packages which are not imported, the metadata of
  overrides) is exact only when the compiler compiled; `GraphFresh` in section 6.
* `ColouringAgrees`: `ColoursAgree` for programs without a range over a channel
  (`OtherOps \cap Unknown = {}`; `async_range` shows the others).  `ColourInv`: whatever
  is async and called is queued or has made its callers async, and nothing is async
  outside a closed set.  What the lowering finds of lazy variables is any set that the
  order of its questions can give (`LazyFound`), and the statement holds for each.
* `RunnerVerdictsTrue`: `VerdictsTrue` for any number of packages and workers.
  `RunnerInv` says for each stage which packages may lack a verdict and who still owes it.

Assumptions on constants, each evaluated by TLC in the runs: `CapacityAssumption`,
`SendChansAssumption`, `MaxOpsAssumption`, `MutexMaxOps`, `PartsAssumption`,
`RolesAssumption`, `WaitGroupAssumption`, `ContextAssumption`, `TimersAssumption`,
`CompilerAssumption`, `DeferBounds`, `PipeBounds`, `SliceBounds`, `MapBounds`,
`BufferBounds`, `ReflectBounds`, `StmtsAssumption`, `NilAssumption`.  They say that sizes
and times are natural numbers, that `Null` is no time and no error, that `Free` is no
goroutine, that there are finitely many functions, none of which is an interface method,
and at least one file in a package.  Seven theorems have a hypothesis besides.  A finding
shows what happens without that of `SelectCommitsOnce`, `CacheNeverStale` and
`ColouringAgrees`, section 6 what happens without that of `SlicesAreGos`, `SyncMapIsAMap`,
`BuffersHandOut` and `ReflectStoresArrive`.

Only model-checked:

* liveness (`ServedContinues`, `ServedSelectEnds`, `EveryCallReturns`,
  `CancellationArrives`, `CancelledReturns`): fairness and ENABLED are beyond the prover;
* `NoLoss`, `ReceivedInOrder` and `PanickedSendDeliversNothing` in `select` and
  `select_stop`: they are proved for channels without select (`ChannelProofs`);
* the algorithms of `MCLibrary`: most are recursive over their data, and what a recursive
  definition computes for every input takes an induction that the installed provers cannot
  apply.  They are what `StringsAgree`, `NumbersAgree`, `StreamsAgree` and `ValuesAgree`
  state, `DeepEqual` among them.

## 6. Where code and documents disagree

Shown by a run:

* `select_two_receives`: a select blocked on two channels has a task in both.  Two sends
  that run before the continuation of `Promise.race` each take one of them; both senders
  return, one value is dropped.  Real order: one goroutine does `a <- 1` and another
  `b <- 2` in the same turn of the event loop.
* `rwmutex_exclusion`: `_wakeUpWaiters` takes the readers out of the queue and counts them
  in a microtask.  `mu.Unlock(); mu.Lock()` without an await of another promise in between
  gets the lock before they are counted, and then the readers get it too.
* `cache_stale`: the compiler reads the sources to compile them and again to compute the
  digests.  A file saved in between gives old output the key of the new source, and every
  later compilation replays it.
* `async_range`: a range over a channel does not colour its function, but its lowering
  awaits.  A function whose only wait is such a loop is emitted without `async`.
* `defer_return`: a function that defers and may recover is emitted as a `try` whose last
  statement is `__defer.dispose()`, beside a `const __defer`.  A `return` inside it is
  emitted as it is unless the results are named (`lowering.go:5740-5777`), so it leaves
  the function and the deferred functions never run: `defer mu.Unlock()` next to a
  recovering defer keeps the lock.

Of the channel and lock models, without a run of their own: a rejected `Promise.race`
leaves `selectStatement` before `abort.abort()` (`channel.ts:293`), so a program that
recovers the panic has a dead receiver in the other channel's list.  The comment on
`Channel.receive` (`channel.ts:65`) says that it throws on a closed channel; it returns
the zero value, as Go does.  A select that sends and receives on the same unbuffered
channel serves itself (no statement of the runs does; only `Select` has the step).
`_done` is set before f is awaited (`sync.ts:255`), so a Do that starts while f runs
returns before f has ended.

Properties that the modules state and that do not hold of the code, each quoted from
the comment or from Go's documentation beside the operator; no run checks them:

| property | module | what happens |
|---|---|---|
| `TicksDropped` | `Timers` | ticks nobody reads queue up as blocked senders (`time.ts:1109`); also `Timer.Stop` answers true after the timer has fired |
| `BodyAlwaysClosed` | `HTTPFetch` | a header that the host refuses, or a body whose Read panics, leaves the request's body open (`index.ts:1355`, `1364`) |
| `GraphFresh` | `CompilerCache` | digests cover a package and its imports, but a method that begins to wait in a package that is not imported colours calls through its interface, and the first import of reflect adds type descriptions everywhere (`semantic-model.go:1696`, `service.go:204`, `compiler-cache.go:360`) |
| `NothingExcepted` | `AsyncColour` | an `Error` that waits is called without await; a method promoted from an interface does not follow an implementation that reads a lazy variable; recursions around one may await in a body that is not async (`lowering.go:12507`) |
| `ReplacerWorks` | `Text` | `new byteStringReplacer` fills all its replacements, so `build` never finds one missing and lists no old string; `Replace` then changes nothing (`strings/replace.ts:141`) |
| `SkipAllStops` | `Paths` | a walk goes on after SkipAll (`filepath/path.ts:634`, `693`) |
| `DecodePromise` | `Text` | `utf8.DecodeRune` of bytes that open with an invalid one (`utf8.ts:67`) |
| `DecodeInverts` | `BinaryEncoding` | a negative int32 is decoded as unsigned (`encoding/binary/index.ts:1164`) |
| `MultiPromise` | `Streams` | data that comes together with EOF is given out, the next reader's first read too, in the same buffer (`io.ts:721`) |
| `ChunksComeBack` | `HTTPMessages` | chunk sizes count UTF-16 units, not bytes |
| `NilAsserts` | `Types` | a nil of a type that is no pointer does not assert (`type.ts:1403`) |
| `ReadsCurrent`, `BytesArrive`, `WordsKept` | `ReflectValues` | a Value keeps what it was made with; `SetBytes` reaches only the Value; 64-bit words become numbers |
| `DeepEqualAnswers` | `Types` | a cycle is followed for ever (`deepequal.ts:48`) |
| `ValueTyped` | `Words` | `Value.Store` takes any type |
| `PullInOrder` | `Collections` | `iter.Pull` runs its sequence again for each value (`iter.ts:18`) |
| `UnwrapsOne` | `Errors` | `Unwrap` of a joined error answers the first of them |
| `FailedIsNotSkipped` | `Testing` | a test that fails and then skips is reported as skipped |
| `AddExact`, `NanosecondExact`, `DurationParses` | `TimeValues` | parts of a millisecond are rounded; `ParseDuration` refuses what `String` prints |

`Garbage = TRUE` and `Overlap = TRUE` let TLC look at two more: runes read from the middle
of one, and `append(s, t...)` where t overlaps the room behind s (`slice.ts:1366`).
`SwapEqual = TRUE` shows that `sync.Map.Swap` does not find a key that is equal but
another object.  `StaleSet = TRUE` shows that `reflect.Value.Set` stores what its argument
was made with and not what the argument's variable holds now (`type.ts:996`).  An
override's `meta.json` is in no key of the cache either.  The zero Time is the Unix epoch
(`time.ts:644`), not year 1.

`SelectCommitsOneCase` and `NoLoss` hold in `select_stop`, the idiom in which the other
case waits for a channel that is only closed: `close` wakes by timer, so the continuation
of the race runs first.  The mutant that wakes by microtask breaks it.

## 7. Plan

Done: channels, select, sync, context, timers, the HTTP client, defer, pipes, the cache,
the colouring, the test runner, and the library's algorithms.  Next:

1. Proofs: what a select does to values (`NoLoss`, `ReceivedInOrder`), from the tokens of
   `ChannelProofs` extended by the cases of a statement.
2. An abstract cache (a function from inputs to outputs) that `CompilerCache` implements.
3. The composition of `Context` with the select that waits for its Done channel.
4. reflect's channel operations, `strconv`, layouts of time.

## 8. Not modelled

The directional `ChannelRef` wrappers delegate.  `len` and `cap` read one field.
`clone` methods return fresh objects.  The `onSelected` handlers are program code.
Printing, formatting (`fmt`, layouts of time, `strconv`), host I/O and the wrappers of
host functions (JSON, hashes, ciphers) produce what the host produces.  The compiler's
translation is taken as given apart from the awaits, the frames of deferred calls and the
boxes of interface values: 20000 lines that follow the syntax.  The TypeScript workspace
writes files and runs tools.  Stack traces and the wording of errors are left out.
