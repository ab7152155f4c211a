# gv8 in TLA+

gv8 embeds V8 in Go. This directory holds TLA+ models of the parts of gv8 that
carry its correctness: who may use an isolate, who owns a native handle, what
happens when calls, callbacks, `Close`, `Dispose`, watchdogs and the Go scheduler
interleave. TLC checks the models on small instances; TLAPS proves every safety
property of theirs for every number of goroutines, threads, values, functions,
frames, modules and builders, and for every width of an integer.

    tlc -config MCHandles_race.cfg MCHandles     # one run
    tlapm HandlesProofs.tla                      # one proof module

`PROJECT.json` lists every run, the mutants that each property must catch, the
source lines each definition stands for, findings, hazards and theorems.

## The system

| component | state it keeps | operations | interacts with |
|---|---|---|---|
| isolate guard (`isolate.go`) | `ptr`, `ownerThread`, `depth`, `isolateRefs` | `enter`, `mustEnter`, `leave`, `Dispose`; unguarded: `TerminateExecution`, `CancelTerminateExecution`, `NewContext`, `Context.Close`, `HeapStatistics` and the two memory notifications | every other component enters through it; pins goroutines to OS threads |
| contexts and values (`context.go`, `value.go`, `global.go`, `primitives.go`) | `closed`, `ptr`, `liveValues`, `hostFnIDs`, `ctxRefs`; `v.ptr` and the native `gv8_value` behind it | constructors, accessors, retain, `Release`, `Close` | guard around native calls, `c.mu` around its maps, no lock across both |
| host function registry (`host.go`) | `hostFnRefs`, `hostFnSeq` | `NewFunction`, lookup, unregister | `Close`, callbacks from JavaScript |
| host callbacks (`host.go`, `HostFunctionCallback` in `gv8.cc`) | frames on the goroutine's stack, lent arguments, handed over results | call, return, error | run inside a script, call gv8 again |
| promises and termination (`promise.go`, `isolate.go`) | promise state, microtasks, `i.terminating` and V8's own request, watchdog goroutine | `Await`, `TerminateOnContextDone`, `TerminateExecution`, `CancelTerminateExecution` | pump (host code), `Close`, timers |
| errors and observability (`result.go`, `isolate.go`) | three counters, three hooks | `newJSError`, `observeJSError`, `note*`, setters, under `i.obMu` | every call that runs JavaScript |
| modules and resolvers (`module.go`) | resolvers by script id and resource name, V8's module status | compile, instantiate, evaluate, two resolve callbacks | contexts, observability; resolvers are host code |
| unbound scripts (`script.go`) | one native handle | compile, run, release | guard |
| snapshots (`snapshot.go`) | the builder's context and `built`, the isolate each thread has entered, the copy of the data | run, build, release; an isolate from data | V8's per-thread state; no guard |
| conversions | none | sizes, integers and texts between Go, C and V8 | all of the above |

What is hard here: ownership is an OS thread id while Go moves goroutines between
threads; three locks protect overlapping state and `Close` takes only two of them;
pointers are checked before a call enters and read again after it; host code runs
in the middle of native code, which reads its pointers again afterwards; the
termination flag exists twice; host functions return handles that were only lent
to them; resolvers run in the middle of linking; a size is an `int`, a `uint32`, a
C `int` and a `size_t` on one way through.

What makes each component correct:

* guard: one active caller, no wait for a busy isolate, balanced pinning, a
  single native dispose;
* contexts and values: what a guarded call finds valid is live, `Close` reaches every value and
  every registration, nothing is freed twice;
* callbacks: nothing dangles after a callback, nothing is left without an owner;
* `Await`: the outcome tells what happened, and it comes when it has to;
* errors: every exception is an error, the exception count is exact, hooks run
  without gv8's locks;
* modules: the resolver that was given is the one that is asked, and a module said
  to be linked is linked;
* snapshots: no call on a used-up builder reaches V8, nor does data that gv8 can
  recognise as bad, the data outlives its reader, entered isolates are left in
  order;
* conversions: what arrives is what was sent, or less in a known way.

## Modules

Each is named after what it models; `MC*.tla` add only what TLC
needs: symmetry sets and the table of resource names.

* **Guard** is the abstract specification: a reentrant try-lock on goroutines
  (`Take`, `Give`, `Destroy`). `IsolateGuard` implements it; `Handles` is built on
  it, so that the details of threads need not be checked again there.
* **IsolateGuard** models `enter` and `leave` with the scheduler: `Schedule` and
  `Park` move goroutines, `LockOSThread` pins them, `AcquireFree`, `AcquireAgain`
  and `AcquireBusy` are the three outcomes of the critical section, `Leave` may
  panic. Reads of `i.ptr` outside `i.mu` are steps of their own. A goroutine may
  nest guarded calls (`frames`), as host callbacks do. `Dispose` unregisters,
  frees and clears in three steps. The calls that reach the native isolate without
  the guard are there too: statistics, notifications, termination and `NewContext`
  through `i.ptr`, `Context.Close` through the context's own handles (`contexts`
  counts the open ones). Two history variables: `careless` is set when Dispose
  overlaps another call, `leftOpen` when it frees an isolate with an open context.
  A refused `mustEnter` panics in the code; a host that recovers is where a host with an
  error is, so the model has one step for both.
* **Handles** models one context with its values and host functions. One critical
  section is one step: registration under `hostFnMu`, tracking under `c.mu`, the
  guard, the native call, and the six parts of `Close`. `Release` frees the native
  handle and clears `v.ptr` in two steps, because `valid()` reads `v.ptr` without
  the guard and may run between them. Operations are grouped by
  what they do to handles: *create* (from `c.ptr`), *derive* and *use* (from
  `v.ptr`), *retain*, *release*, *function*, *close*. `fault` records what the
  process would die of. `careless` is a history variable: a `Close` has met
  another call. `Recovers` says whether the host recovers the panic of a refused
  call. With `Recovers = TRUE` the invariant `CloseInvalidates` fails: `Release`
  untracks its value before the guard refuses it, and `Close` then misses it.
* **HostCallback** models everything that runs JavaScript on one goroutine:
  scripts, functions, methods (lookup, then call), getters and setters,
  microtasks, and the host functions they call. A frame of the stack records what
  native code reads when the JavaScript has returned (`reads`), the temporaries
  made for Go arguments (`temps`), and for a callback the lent arguments and the
  result on its way to C++. Native handles are lent, handed over or owned by a Go
  wrapper; `Object.CallMethod` leaves one for the method behind (`abandoned`). The
  error of `gv8FunctionCallback` for an id that it does not find is left out: only a
  `Close` of another goroutine, between unregistering the functions and freeing the
  context, leads there, and this model has one goroutine.
* **Await** models `Promise.Await` statement by statement, the watchdog's select
  and its two writes, `Close` from the pump (one step, same goroutine) or from
  another goroutine (two steps), then `stop()`, `CancelTerminateExecution` (two
  writes) and another script. `quiet` is a history variable. V8's part is modelled
  from its use: a pending request is consumed by the next JavaScript that runs,
  and drops the microtask queue.
* **Errors** models how exceptions become errors and counts through nested calls,
  callbacks and hooks, and how promise events are counted: V8 reports a rejection, a
  handler that comes later, and each further attempt to settle a settled promise, of
  whatever state and any number of times. Reading a hook under `i.obMu` is a frame
  of its own, so that what runs while the lock is held can be seen. The text of an
  exception is abstracted to empty or not, which is all `CopyString` tests.
* **Modules** models the two resolver tables, V8's linking as far as its callbacks
  show it, and dynamic imports. Calls and resolvers in progress form a stack, so a
  resolver may compile, instantiate, run scripts, release and close before it
  answers. Two things a host does not do in the model, because V8 leaves their
  outcome open: instantiate a module that is being linked, and answer one that an
  outer `Instantiate` is linking. A failed evaluation leaves the module and any of
  the linked modules errored, since V8 marks those between it and the one that
  threw. `lied` is a history variable for the attempts that failed without an
  exception.
* **Snapshot** models builders with the isolate that V8 takes for current on each
  thread, and an isolate that starts from data. `open` and `careless` are history
  variables: which builders live, and whether the goroutine moved or released them
  out of order. Data is of seven kinds: none, the result of a Build, fewer than 8
  bytes, a bad flag, another V8's, a good flag with the rest of V8's header cut off,
  and a good header over corrupt contents. gv8 stops the third, fourth and fifth;
  with the last two (`Unchecked`) V8 may refuse, go on or die.
* **Conversions** has operators for each conversion and checks them against
  references on every input of a scaled-down machine: a C `int` of 3 bits, a double
  of 5, an `int64` of 8, in the order of the real 32, 53 and 64.
* **IsolateGuardProofs**, **HandlesProofs**, **HostCallbackProofs**,
  **AwaitProofs**, **ErrorsProofs**, **ModulesProofs**, **SnapshotProofs** and
  **ConversionsProofs** hold the theorems about the module they are named after.

V8 is modelled from how `gv8.cc` uses it and from what its headers promise; the
map names the header lines where they say it (module status and linking,
`SnapshotCreator`, `Enter` and `Exit`, termination, `NewFromUtf8`).

Definitions named like a bug (`ReadThreadOnly`, `TrackValueAnyway`, ...) precede
the definition they are a wrong version of. No specification uses them: they are
the mutants of `PROJECT.json`, each making one property fail.

## Runs

| run | instance | shows |
|---|---|---|
| guard_contended | 2 goroutines, 2 threads, nesting 3, 1 context, fairness | mutual exclusion, balanced pins, no panic in `leave`, one dispose, with Dispose at any time; `ImplementsGuard`; `enter` returns; after a Dispose that met no other call nothing that goes through `i.ptr` uses freed memory, and `Context.Close` does not if every context was closed before |
| handles_race | 2 goroutines, 2 values, 2 functions, fairness | registries and pointers stay consistent in every interleaving with `Close`; `valid()` can be trusted inside the guard; `Close` empties the registry in the presence of `NewFunction`; colliding calls are memory-safe as long as `Close` ran alone |
| callback_reclaim | 5 frames, 5 handles | apart from the exceptions below nothing is used or freed twice; no wrapper dangles, every live handle has an owner, no temporary outlives its call |
| await_pump | every pump move or none, deadline, watchdog, `Close` by anyone at any step, fairness | justified outcomes; Cancel restores the isolate; the watchdog ends any Await; after a `Close` by anyone a pending Await returns an error, except in a looping microtask or in the gap named below |
| errors_counts | 4 calls, 5 frames, 2 promises, 3 promise events | the exception count is exact; no host code runs while its goroutine holds `i.obMu` |
| modules_linking | 3 modules (2 import, 2 share a name), 2 resolvers (1 dynamic), 4 frames | imports go to the resolver of their `Instantiate`; a module said to be linked is; static and dynamic resolution agree |
| snapshot_builders | 3 builders, 2 threads, 7 kinds of data | calls in any order are safe, V8 dies only of data that gv8 cannot recognise as bad, data lives as long as its isolate, entries are sound under the discipline |
| conversions_crossing | all 8-bit integers, sizes to 40, texts to 9 | what arrives whole, what is cut, what panics, what aborts |

Runs that end with a counterexample; each is a finding:

| run | what TLC shows |
|---|---|
| callback_released | a host function releases the function it was called through: `GV8ValueCall` reads the freed handle |
| await_reuse | the watchdog's second write lands after `CancelTerminateExecution`: the next script is terminated |
| errors_thrown | `throw ""`: neither a value nor an error |
| modules_errored | a resolver that keeps its modules answers one whose evaluation failed: V8 is asked for the script id of an errored module |

More that the models show; each is a named exception of a property, a value of
`fault` or a case that a property spells out:

* a host function that closes the context of the script that called it, or a
  `Close` with microtasks pending, leaves native frames with freed memory; so does
  a getter that releases the object or an argument of the `CallMethod` it runs for
  (`ReentrantCallsAreSafe`);
* an argument released before the call is a nil pointer in C (`nilArg`);
* a context that is closed after its isolate was disposed resets handles of a freed
  isolate (`closeAfterDispose`, if `leftOpen`), and `NewContext` after `Dispose`
  gives C a nil isolate (`nilIsolate`);
* between `value.go:58` and `value.go:59` `valid()`, which takes no lock, is true of
  a freed handle; `ValidIsLive` is about guarded callers, who read `v.ptr` again;
* a `Close` of another goroutine between `valid()` and the C call that relies on it
  (`promise.go:85-90`, `promise.go:94-99`) gives C a nil pointer (outcome `crash`).
  `promise_test.go:361-388` closes from another goroutine and expects an error: that
  is what happens everywhere but in this gap (`PastItsCheck` in `CloseFailsAwait`);
* a rejection that is handled later counts twice, and so does every attempt to settle
  a settled promise: `noteUnhandledPromiseRejection` counts all of V8's events
  alike;
* snapshot data with the header cut off behind the flag, or corrupt under a good
  header, reaches V8, although the comment at `internal/gv8.cc:100-101` says that
  invalid data never reaches a fatal check (`Unchecked`);
* `NewArray` of a length above the greatest C `int` makes an empty array
  (`internal/gv8.cc:622`); a text that is too long gives no value, a name that is too
  long aborts the process (`ToLocalChecked`);
* the error value made for a failed module resolution lives until `Close`
  (`module.go:173`);
* a resolver that answers a released module makes `Instantiate` return nil for a
  module that is not linked (`lied`), and one that answers nil without an error is
  dereferenced (`nilModule`);
* modules with one resource name share one dynamic resolver, the last one bound
  (`StaticAndDynamicAgree` excludes them);
* a builder released on another thread, or before a younger one, leaves V8 with a
  current isolate that is gone (`EntriesAreSound` holds only for the others);
* `Bytes` of a buffer above 2 GiB panics or is cut; names end at a NUL.

Bounds. Every conflict in the guard is between an owner and one other caller, and
with two threads each of them can be moved, by trading places or while the other
waits; three nested calls tell first entry, reentry and return to an outer call apart. In `Handles` a race needs
two goroutines on one value or one function id. The proofs remove both bounds. Five
frames are a call, its callback, another call, its callback and a script; five
handles serve the callee, an argument, a temporary, a lent argument and a result.
Two importing modules and a leaf make chains, cycles and shared imports; four
frames are a link, its resolver, a second link or a script inside it, and the
resolver of that. Three overlapping builders have an oldest, a youngest and one in
between. The widths of `Conversions` are small enough for every input and large
enough for each number to overflow the next narrower type several times over. The
proofs remove all of these bounds; what the runs add to them is liveness, mutants
and a check of the invariants before anything was proved.
`Await` has no bound, `Errors` those of its counters: five frames are a call, a host
function, a call that fails and two frames of its hook; three events are
a rejection of each promise and one more, or one promise that is settled again
and again.

Deadlock is not checked: in every model a closed context, a finished scenario or a
dead process is the end of a behaviour. That callers are not stuck is stated by the
liveness properties instead.

Fairness. `IsolateGuard`: a goroutine that waits for a thread gets one, and one
that is scheduled again and again in `enter` makes its step (strong fairness,
because it may be preempted); nothing about scripts or host code. `Handles`: a
`Close` and a registration that have begun go on, as they only take mutexes held
for a bounded time. `Await`: the awaiting goroutine and the watchdog are
scheduled and the pump returns; nothing makes a context done or closes one, and a
looping microtask only ends by termination.

## Proofs

Every invariant and action property of a passing run is a theorem, for every value
of the constants and under the assumptions that the modules name. Most say that the
special values are not members of the sets they stand apart from, that bounds are
naturals and switches are Booleans. The others:

* `ConversionConstants`: the order of the widths, and that three times the longest
  string fits an `int`, as it does in V8;
* `PowersGrow`: powers of two grow with their exponents, as far as exponents occur.
  It is true of all widths; it has to be assumed because the provers know no law of
  `^` and cannot do induction with one.

Each proof module has its inductive invariant, part by part, and a lemma per action
or per group of actions that do the same to the state.

* **Guard.** `OneActiveCaller` is not inductive: `enter` compares thread ids. The
  invariant adds that two goroutines are never on one thread, that a pinned
  goroutine keeps the thread whose id it read, that the goroutine inside owns the
  isolate and its frames are the depth, that `i.ptr` outlives the native isolate only
  inside `Dispose` (`FreedIsBeingCleared`), and that the registration is gone before
  the isolate (`UnregisteredFirst`). From it follow the type invariant,
  `OneActiveCaller`, `LeaveNeverPanics`, `PinsMatchFrames`, `DisposedOnce`,
  `NoUseAfterDispose` (a call that a lone Dispose did not meet
  finds `i.ptr` cleared; `Context.Close` does not look at it, hence the condition
  that no context was left open), the action property `OwnerIsStable`, and the refinement
  `ImplementsGuard`: the abstract holder is the goroutine with frames.
* **Handles.** The invariant has parts: where each operation can be
  (`ShapeInv`), at most one caller between `enter` and `leave` (`HolderInv`), a single
  closer whose progress the context's fields follow
  (`CloserInv`), an owner for each registration (`FnInv`), live pointers while
  the context is open, but for the one value that the caller inside is releasing
  (`ValueInv`), every pointer tracked or on its way out
  (`TrackedInv`, without recovered panics) and, as long as `Close` ran alone, nothing
  dangling in anyone's hands (`QuietInv`). Proved: type, `NoHostFunctionLeak`,
  `FunctionStaysCallable`, `ValidIsLive`, `ContextFreedOnce`, `CloseInvalidates`
  (unless the host recovers), `MemorySafe`.
* **Await.** Past the top of the loop the handle is valid unless another goroutine
  closed the context (`ValidPastCheck`), and the flag and the request appear in
  order (`TerminationOrder`). Proved: type, `OutcomeIsJustified`,
  `CancelRestoresExecution`.

* **HostCallback.** That no wrapper dangles depends on who frees what, so the
  invariant (`CInv`) says who owns each handle. A frame answers for what it lends,
  made or hands over (`Own`); no two frames answer for one handle (`OwnerInv`); what
  is lent lives and is not recorded in the context, so neither `Release` nor `Close`
  reaches it (`LentInv`); when a callback has returned nobody in Go can use what C++
  is about to free (`ReturnInv`); what the context records lives and is in
  `liveValues` if its wrapper is usable (`TrackedInv`). `NoOrphans` is strengthened
  to `HeldInv`: a frame that merely reads a handle does not count. Every action
  keeps some of the frames and replaces at most the one above them, so one lemma
  (`StackStep`) carries the stack and the rest goes handle by handle. Proved: type,
  `ReentrantCallsAreSafe`, `WrappersAreLive`, `NoOrphans`,
  `TemporariesAreReclaimed`.
* **Errors.** A push or pop changes the number of frames of a kind by one or not at
  all (`CountPush`, `CountPop`). A read lock on `i.obMu` belongs to the innermost frame
  only (`OnlyTopReads`), so none is held below a hook or a host function. Proved:
  `ExceptionCountIsExact`, `HooksRunUnlocked`, and that no
  more exceptions are counted than JSErrors made, nor JSErrors made than calls fail
  (`CountersNest`).
* **Modules.** A resolver in the middle of a link may start another, with another
  resolver. The invariant says that links in progress own disjoint sets of modules,
  all with status linking (`LinkInv`), and that the module whose import is asked for
  next is bound to its link's resolver (`BoundInv`); as only `Instantiate` and the
  answers of resolvers bind, and the host gives them no module that another link
  owns, no inner call rebinds it. After `Close` the tables stay empty and nobody is
  asked any more (`ClosedInv`). Tables
  agree for modules that are yet to be compiled too (`AgreeInv`). Proved: type,
  `ResolverIsTheOneGiven`, `ToldIsLinked`, `StaticAndDynamicAgree`.
* **Snapshot.** `EntriesAreSound` says what is current; what `Release` makes current
  next is in `saved`. `NestingInv` adds that `saved` links the open builders in
  order. Proved: type, `SnapshotCallsAreSafe` (calls in any order, and no death but of
  `Unchecked` data), `DataFollowsIsolate`,
  `EntriesAreSound`.
* **Conversions.** No induction is needed; the work is in the lemmas about the
  operators: a cast to `int` never adds (`CIntFacts`), the step between doubles is 1
  as far as the significand reaches and beyond it smaller than the number
  (`StepFacts`, from the least element of a set of naturals), rounding moves by half
  a step at most (`ToDoubleFacts`). TLC tries 3, 5 and 8 bits; the theorems hold for
  32, 53 and 64. Proved: `SizesAgree`, `IntegerRoundTrip`, `TextsArriveWhole`.

`OwnerIsStable` and `CountersNest` are proved and not in a run; what the former says
of goroutines is part of `ImplementsGuard`.

Only model-checked: the liveness properties (`EnterReturns`, `RegistryDrains`,
`DeadlineEndsAwait`, `CloseFailsAwait`), which are out of the prover's reach. That the
four properties of the violation runs fail is, of course, a matter of TLC's
counterexamples.

## Not modelled, and the plan

No safety property of a run is left without a proof. What remains worth doing is to
state more of what the invariants already contain as action properties (a handle
that was freed stays unreachable, a module that is linked is never unlinked, the
promise of a settled Await does not change).

Left out, and why:

* V8 itself. The repository carries about 33,000 lines of V8 headers and 1,450
  lines of its own C++ (`internal/gv8.cc`); the headers are declarations of a
  third-party library, of which only the few calls that gv8 makes are modelled. Of
  gv8's own code nearly every function with state has a counterpart here.
* Two contexts on one isolate, and values of one passed to the other: V8 decides
  what happens to them.
* Two goroutines on one snapshot builder, which has no guard.
* The module-resolution-failure hook as host code; it runs where the exception hook
  of `Errors` does, with nothing of gv8's left to do but make the error value.
* The referrer that a resolver gets, whose native part is on the C++ stack.
* Heap statistics and limits, JSON, UTF-8 decoding, positions of scripts: values
  that gv8 passes through.
* The cgo and build setup: no state.
