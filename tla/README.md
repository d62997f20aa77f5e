# A TLA+ verification of LuaJIT's runtime core

This directory holds TLA+ modules translated from the C sources of this
repository (a LuaJIT with a Lua 5.4 compatibility build, `LJ_54`), TLC
configurations that check them on small instances, and TLAPS proofs for every
instance. Line numbers refer to the files of `src/` next to the modules.

The modules cover the parts of the runtime where several actors interleave or
where a long history decides what is right: the garbage collector (incremental,
generational, weak tables), tables, to-be-closed variables with errors and
coroutines, and the trace compiler with dispatch, hooks, profiler and machine
code areas.

## 1. The system

### Components

| Component | State | Operations | Interacts with |
|---|---|---|---|
| Incremental collector `lj_gc.c` | `gc.state`, `currentwhite`, color bits, `gray`, `grayagain`, weak lists, `sweep`/`sweepstr` cursors, `mmudata` | `gc_onestep`, `lj_gc_step`, `lj_gc_fullgc`, barriers, finalizer calls | every allocation calls `lj_gc_check`; every store of a reference has a barrier; `__gc` calls back into the VM |
| Generational collector `lj_gc.c` (`LJ_54`) | ages, root list boundaries `gensurvival`, `genold1`, `genreallyold`, `genfirstold1` | `gc_gen_minor54`, `gc_gen_major54`, `gc_gen_enter54`, `lj_gc_gen_whitelist54` | the same barriers with aging; `lua_gc` switches modes |
| Closures and upvalues `lj_func.c` | open upvalue list per thread, global list `uvhead` | `func_finduv`, `lj_func_newL_gc`, `lj_func_closeuv` | collector colors; thread release |
| String interning `lj_str.c` | hash chains, `str.num`, secondary hashes | intern, resize, rechain, free | resurrects dead strings; swept in its own phase |
| States and coroutines `lj_state.c`, `lib_base.c` | stack, `status`, `cframe` | new, resume, yield, close | collector, to-be-closed variables |
| Tables `lj_tab.c` | array part, hash part, `freetop`, `nomm` cache | get, set, newkey, rehash, next | back barrier, weak clearing |
| To-be-closed variables `lj_close.c` | list of marked slots | mark, close, unwind | errors, coroutines |
| Errors `lj_err.c` | frames, status | throw, unwind, protected call | to-be-closed variables, JIT state |
| Trace compiler `lj_trace.c`, `lj_record.c` | `J->state`, trace table, penalties, patched bytecode | hot counters, start, record, stop, abort, flush | dispatch, collector (`jit_base`), machine code |
| Machine code `lj_mcode.c` | area, protection, free range | reserve, commit, abort, patch, free | trace compiler |
| Dispatch and hooks `lj_dispatch.c` | dispatch table, `hookmask`, `dispatchmode` | update, hooks, `luaJIT_setmode` | collector (`HOOK_GC`), profiler, recorder |
| Profiler `lj_profile.c` | timer, samples, hook bits | signal, hook enter/leave, callback | dispatch |
| FFI callbacks `lj_ccallback.c` | slots, callback page | new, enter, leave, free | coroutines, JIT |
| IR, optimizer, assemblers | IR arrays, snapshots | per trace | trace compiler |
| Lexer, parser, bytecode, FFI types, number conversion, libraries, allocator, build tools | local to a call, or third-party | sequential | |

`PROJECT.json` lists them all with their sources and what is modelled.

### What is hard

* The program runs between any two collector steps. A store it makes can hide
  an object from a marking in progress; a barrier must undo that, in each of
  six collector states, with the right one of two whites.
* An object that is dead but not swept can come back: an interned string found
  by its contents, an open upvalue found by its slot, a table or userdata
  through its finalizer.
* Finalizers run in the middle of `lj_gc_step` and `lj_gc_fullgc`, can do what
  the program can do, and can see objects that wait for their own finalizer.
* A full collection can be requested in any state of the running cycle.
* Stacks have no barriers. Threads and open upvalues therefore must never be
  black, and a coroutine can die before the upvalues on its stack.
* In generational mode an object's age, color, list and position on the root
  list must agree; two functions advance ages in one collection; closing an
  upvalue changes its kind.
* `atomic()` marks, clears and separates in an order in which every step has a
  reason, while the program may have changed the mode of a table in between.
* A deleted key stays in its node as a dead key. It still leads a traversal on,
  its string may be freed and the address reused, and insertion moves other
  keys around it.
* Three different machines run `__close` handlers (bytecode, continuations of
  the interpreter, a loop in C), chosen by the frames an error meets. Handlers
  yield, fail and close other threads in the middle.
* A recording is aborted, retried, flushed or switched off in every state and
  from handlers, while instructions are unpatched for the recorder; flushed
  traces may still be on the stack.
* The dispatch table is rewritten in parts, from a mode stored earlier, and a
  timer signal asks for another mode at any time.

The hazards with their lines, and the properties aimed at them, are in
`PROJECT.json`. A hazard with a note is covered in part, or not at all: the note names the cases that
are known to fail (section 4), or not modelled.

### What makes each component correct

* Collector: nothing reachable is freed; what is not in use is freed in the
  end; `__gc` is called at most once per arming and not for what is in use;
  cycles end; the assertions in the code hold.
* Closures: a closed upvalue keeps its value, an open one is its stack slot;
  two closures of one variable share it.
* Strings: equal short strings are one object for as long as either is used.
* Tables: a key that was set is found, traversal visits each key once.
* To-be-closed variables: each marked slot is closed once, in reverse order,
  whatever errors occur. Coroutines: legal status changes only.
* Trace compiler: bytecode is patched exactly while a root trace exists,
  aborts restore it. Machine code: never writable and executable at once.
* Dispatch and profiler: no hook runs while hooks are disabled, hook bits are
  restored on every path.

## 2. Modules

| Module | Contents |
|---|---|
| `GcInc` | The incremental collector and the mutator: one action per function of `lj_gc.c`, `lj_func.c` and of the API that moves a reference |
| `GcPromise` | What a collector promises: what is in use stays as it is. No colors, lists, phases. `GcInc` implements it (`KeepsPromise`) |
| `GcGen` | Generational mode: ages, segments of the root list, minor and full collections |
| `GcWeak` | Weak tables and ephemerons, entry by entry, through `atomic()` |
| `LuaTab` | `lj_tab.c`: array part, nodes and chains, insertion, rehash, traversal, length |
| `LuaMap` | What a table promises: a map, and a traversal that returns each key once. `LuaTab` implements it (`IsMap`) |
| `LuaTabTrace` | `LuaTab` with a compiled trace that holds the position of a node |
| `Close` | One thread: frames, marked slots, errors, the three machines that run `__close`, and coroutine operations from outside |
| `Dispatch` | Mode and dispatch table, `lj_dispatch_update` and its interruption by a signal |
| `Trace` | The trace compiler, machine code areas, execution of traces, events, hooks, profiler and the collection of traces, on top of `Dispatch` |
| `GcInc_proofs` | Proofs: the invariants of the incremental collector; `GcInc` implements `GcPromise` |
| `GcWeak_proofs` | Proofs: the properties of `GcWeak`, and what marking through entries computes |
| `LuaTab_proofs` | Proofs: chains, relinking, rehash, length and traversal of a table; the properties of `LuaTab`; `LuaTab` implements `LuaMap` |
| `NatLemmas` | Proofs: induction, bounded recursion, least and greatest numbers, prefixes and removal from sequences |
| `GcGen_proofs` | Proofs: what generational mode keeps for every program, and that it frees nothing in use without closures and finalizers |
| `Close_proofs` | Proofs: what operations do to the stack of frames and to the list of variables; the properties of `Close` |
| `Trace_heap` | Proofs: what flushing, collecting, adding and entering traces does to chains, links and slots |
| `Trace_invariant` | Proofs: the dispatch table is the one of its mode; the inductive invariant of the trace compiler and the properties of `Trace` |
| `MC_*` | Constants and symmetry sets for the TLC runs |

### How `GcInc` stands for the code

An object is a constant of one of six kinds, because kinds differ in how they
are marked: tables (back barrier), closures and prototypes (forward barrier),
userdata (black at once), strings (leaves with a sweep of their own), upvalues
and threads. `refs[o]` is the set of objects `o` refers to: field names, array
slots and stack positions do not matter to a collector, only whether a
reference exists. The stack of the main thread is `refs[Main]`; the program
can use what is there and load, store, push and pop from there.

`color[o]` is the color bits of `o->marked`, with `"free"` for memory that holds
no object. `gray` and `grayagain` are the lists as sets, `unswept` is what lies
ahead of the sweep cursors. So the order of propagation and sweep is any order;
it is more general than the code's list order. `owner[uv]` says whose open
list an upvalue is on.

A collector action is one case of `gc_onestep`: `MarkStart`, `Propagate`,
`PropagateDone`, `Atomic`, `SweepString`, `Sweep`, `Finalize`, `FinalizeDone`.
`Atomic` contains all of `atomic()`: remarking of open upvalues, `grayagain`,
separation, marking of the separated objects, and the flip of the white.
`SweepString` sweeps any set of strings (a hash chain). `Sweep` handles one
object of the root list, and with a thread its open upvalues, as `gc_sweep`
recurses. `Finalize` puts the object back on the root list and starts its
`__gc`; until `FinReturn` no collector step runs, since `gc_call_finalizer`
sets the threshold to `LJ_MAX_MEM` and `lua_gc` refuses under `HOOK_GC`.

`FullGC` is `lj_gc_fullgc` up to the point where finalizers are called; the
finalizers then run one by one under `full`, while the program waits.

Where a code path may or may not fire a barrier (`lj_gc_anybarriert` for every
black table, `lj_gc_barriert` for white values only), the action allows both
when both exist.

### How `GcGen` stands for the code

`age` is the age field, `seg` the part of the root list between two of the
boundary pointers where an object is linked. A minor collection is one action up
to its finalizers, because `gc_gen_minor54` runs without interruption: mark
from what is listed (`MinorRoots`), separate, sweep the nursery and the survival
segment, age, correct the gray list (`MinorSweep`). A full collection is
`Full` (whitelist and a full cycle), its finalizers, and `Enter`
(`gc_gen_enter54`). As the white is flipped and everything with the other
white is freed within one action, one white stands for both.

Behaviors end where freed memory is within reach (`Sound`) of the main thread or of a
table that has, or waits for, its finalizer, because what the program and the collector do from there on is undefined.

### How `GcWeak` stands for the code

`ent` is the set of entries `[t, k, v]` of all tables; a table's `mode` says
which of its keys and values are weak. `lists` has the five lists that use
`gclist`. `Traversed` is `gc_traverse_tab` with the re-linking of
`propagatemark`; `AtomicPhase` is `atomic()` step by step: weak tables again (their
mode may have changed), ephemerons to a fixpoint, `grayagain`, ephemerons again,
weak values cleared, separation, marking of what was separated, ephemerons, weak keys and
once more weak values. The sweep, which `GcInc` has in steps, is part of this action:
what is white then is out of reach. A full collection is two steps, so that a property
can speak of the state just before its atomic phase.

No cycle starts while finalizers are pending, and none is armed again while it is
pending. Userdata and 64-bit integer objects in weak tables are left out.

### How `LuaTab` stands for the code

`tab` has the array part, the nodes with `key`, `val` and `next`, and `freetop`; integer
keys in the array part are found there first. `NewKey` is `lj_tab_newkey` with the
re-chaining of keys whose main node was taken (`Rechain`) and the
rehash that counts keys and chooses the sizes (`Resize`). Lookups come in two kinds: the
C functions pass over dead nodes, the chain walks of the interpreter and of
compiled code do not; both must find the same. `Recycle` is what the collector does: the
string of dead keys is freed and another one may get its address. `content` is a history
variable with the last assignment to every key, which the refinement maps to
`LuaMap`.

`LuaTabTrace` adds `IR_HREFK`: a recorded trace holds a node's position and guards only the
size of the hash part and the key in that node.

### How `Close` stands for the code

`frames` is the stack of frames of one thread, by kind: Lua functions, `pcall`, `lua_call` and
`lua_pcall` from C, metamethod continuations, and the closers: `after_error` and
`on_return` are the continuation frames of the interpreter, `scope` is the bytecode at the end
of a block, `unwind` is the loop in C. A marked slot is a frame and the number of a
variable in it. `Unwind` is `err_unwind` up to the next frame that has something to do;
`Deferred` is the landing pad, which decides by what called `pcall`. `status`, `cframe`, `fresh` and
`errobj` are the fields that `lua_resume`, `coroutine.status` and `lua_closethread` look at.

Left out by constants, since the code is known to fail there (section 4): a `pcall` that a
metamethod or another `pcall` calls where it could yield (`Callers`), handlers of
a coroutine that have variables to close themselves (`OwnTbc`), and
`coroutine.close` after `coroutine.resume` has popped the error (`By`).

### How `Dispatch` and `Trace` stand for the code

`Dispatch` has no state of its own. `Mode` is the mode computed from hooks and
trace compiler, `Table` what this mode wants in the table, `Rewritten` what
`lj_dispatch_update` writes when the mode changes.

`J` is `jit_State` with the bytecode and prototypes it patches. `at` says where control is: in the
interpreter, in machine code, in `trace_state`, or in the handler of an event. The states of
`J.state` are those of the code. Instructions are only those where a trace can begin: loops, `ITERN`,
function headers, returns and calls of C functions that are stitched. The
recorder may meet any of them next (`Recorded`): what it does at each decides how the trace
ends. `TraceStop`, `Abort`, the flushes, `Penalty` and `Blacklist`, side traces, stitched traces and returns to
their continuation follow the code. A side trace that comes back to its own start is linked to itself or, without
loop optimization, to its root (`StopAtSelf`). If no machine code can be allocated at all, the abort first switches the
compiler off, with an update of the dispatch table of its own, and then flushes (`Aborted`). Machine code is an area that is there or not and
writable or executable.

Abstracted: hot counts and penalties (a loop gets hot, or is blacklisted, at any time),
snapshots and the IR (assembly may fail in each way it can). Every trace has one exit. Fields of `J` that are set
before they are read are reset when the compiler becomes idle. The trace table has its
final size. Left out: handlers of the events `record` and `texit`, handlers that do more than switch the
compiler, flush or set hooks, finalizers inside handlers, `lua_sethook` from a signal
handler, and the collection of traces that a recording in progress extends (section 4 says what
happens in some of these cases).

### Not in these modules

* The collector's pacing (`threshold`, `debt`, `estimate`, `stepmul`) and the options of
  `lua_gc`; cdata finalizers; the ARM64 `fin_check` window; `lj_gc_freeall`; userdata and
  weak tables in `GcGen`. The modules of the collector share no state with
  `Trace`; `CollectTrace` stands for it there.
* In tables: floating-point and object keys, colocated arrays, the metamethod cache, `lj_tab_dup`,
  failing allocations.
* In `Close`: results of functions, `lua_closeslot`, hooks on return, error handlers of `xpcall`,
  memory errors, more than one coroutine.
* FFI (types, conversions, callbacks), the lexer and parser, libraries, number
  conversion, buffers, the optimizer and the assemblers are sequential
  translations with much data and little control; they make up most of the 114 thousand lines of
  this repository, together with build tools and the interpreters' assembler
  sources. What of them matters to the modelled parts appears as a choice of an action.
* Memory is unbounded except for the number of objects of each kind; a freed
  object can be allocated again, so reuse of addresses is covered.

## 3. What the runs check

Every property of a passing run is shown to depend on the code by a mutant
(`PROJECT.json`): a plausible error in one definition that makes TLC report the
property violated. Distinct states are in parentheses.

| Run | Instance | Result |
|---|---|---|
| `gc_heap` | 1 table, 1 userdata, 1 string, main thread | `TypeOK`, `NoDangling`, `TriColor`, `KeepsPromise` hold (119k) |
| `gc_upvalues` | 1 closure, 1 upvalue, main thread and a coroutine | `IInv`, `KeepsPromise`, `CyclesEnd`, `GarbageGoes` hold under `FairSpec` (29k) |
| `gc_weak` | a table that is an ephemeron or strong, one with weak values or weak in both, a strong one that may have `__gc`, 1 string; 2 entries | `TypeOK`, `NoDangling`, `EntriesRight`, `FullExact` hold (651k) |
| `gen_tables` | 2 tables, 1 string | `TypeOK`, `NoDangling`, `OldToYoung`, `TouchedListed`, `OldSegment` hold (55k) |
| `gen_mix` | 1 table with `__gc`, 1 closure, 1 upvalue | `StacksKept`, `PendingKept` hold (96k) |
| `gen_closed` | 1 table, 1 closure, 1 upvalue | `NoDangling` is violated |
| `tab_map` | 4 strings in two groups that collide and 3 integers | `TypeOK`, `IsAssigned`, `ChainsEnd`, `LenIsBorder`, `NextKnowsKey`, `IsMap` hold (218k) |
| `tab_hrefk` | 3 strings, 1 integer, one recorded reference | `HrefkIsKey` is violated |
| `close_thread` | 3 values, 2 errors, up to 6 frames | `TypeOK`, `NoneOutlives`, `ClosedOnce`, `ErrorsAreErrors`, `StatusAgrees`, `LastMarkedFirst`, `ErrorKept` hold (468k) |
| `trace_life` | a loop, an `ITERN`, a recursive function with its return, a stitched call; 2 traces; handlers of abort and of new functions | `TypeOK`, `PatchedIsLive`, `ChainExact`, `JumpsLive`, `StateClean`, `NoJitNoTrace` hold (1.8M) |
| `trace_dispatch` | a recursive function and a stitched call; 2 traces; hooks, profiler, finalizers, handlers of stop and abort | `DispatchAgrees`, `Executable` hold (1.2M) |
| `trace_signal` | a loop, the profiler, signals inside `lj_dispatch_update` | `ProfhookArmed` is violated |

### Bounds, and why they are enough to be useful

`GcInc` and `GcGen` bound only the number of objects: any number of cycles, steps,
allocations and frees. A violation of the marking invariant needs an owner, a
value hidden behind it and a root: two objects and the main thread. Upvalue
errors need a thread, a closure, its upvalue and a value (the closure itself
can be the value, and a thread can). `GcInc`'s invariants are moreover proved for every
instance (section 5), as are those of `GcWeak`, `Close`, `Trace` and `GcGen`, each under the assumptions given there. `gen_tables` has no
upvalues, since with them `NoDangling` fails (`gen_closed`), and one thread, since a second one and a string
together exceed what can be enumerated; the proofs cover any number of both.

`GcWeak` bounds the entries (`MaxEntries`) and which table may refer to which
(`Fields`). Two entries are enough for a chain of an ephemeron and a weak table, or
for a value that is resurrected through the strong table and is in a weak one; the
fixpoint over ephemerons in more than two rounds is not reached by the run, but by the proofs (section 5).

`LuaTab` bounds the keys that are used together (`Groups`): four strings in two chains that
grow into each other, or one string and three integers, so that the array part grows
at the cost of the hash part. One value other than nil is enough, since stores of the same value
to different keys are told apart by `content`.

`Close` bounds frames and values. Six frames hold a handler that runs in a handler,
each under its own protected call. Three values are needed for one that is
left after two handlers have failed.

`Trace` bounds instructions and traces. With two traces a third recording finds the
table full and flushes; a side trace and its root, or a stitched trace and its
continuation, use both. What three traces add is covered by the proofs (section 5), which found one thing
that two traces cannot show: a stitched trace that is flushed while its frame is on the stack may be
linked to itself, and is not entered through that link (`JumpsLive`). The instance of `trace_dispatch` has fewer kinds of instructions and those
in which dispatch matters most: function headers and calls.

Deadlock is checked except in `gen_mix` and `gen_closed`, where behaviors end when freed memory
is within reach, and `close_thread`, where they end with the program.

### Liveness and fairness

`FairSpec` of `GcInc` assumes weak fairness of `OneStep` and of `FinReturn`. The first
stands for allocation: `lj_gc_check` runs a step whenever the threshold is
reached, every step advances the threshold by a bounded amount, and a program that
neither allocates nor calls the collector has no new garbage. It is not
justified after `collectgarbage("stop")`. The second assumes that `__gc`
callbacks return. No fairness is assumed of `FullGC` or of the program. The other
modules state no liveness: nothing in them must happen without a program that
asks for it.

## 4. What the runs found

Three runs end in a violation, and the code behaves that way: `gen_closed`, `tab_hrefk`, `trace_signal`. Each
was seen in a build of this repository with a script that follows the
counterexample.

* `gen_closed` (`lj_gc.c:1823`). An open upvalue that becomes new when it is closed is freed by the second
  minor collection although an old closure uses it.
* `tab_hrefk` (`lj_record.c:2547`). A trace recorded while a key is dead keeps the dead node. After the key is
  inserted in another node the guards still hold and the trace reads nil.
* `trace_signal` (`lj_dispatch.c:132`). `SIGPROF` inside `lj_dispatch_update` leaves the profiler hook in the
  table for ever.

The following were met on the way. The models exclude them by a bound or a guard that
says so, since nothing else could be checked behind them.

Collector:

* Objects on `mmudata` are black. A finalizer that stores into such a table
  calls `lj_gc_barrierback` in `GCSfinalize`, against its assertion (`lj_gc.c:1773`).
  `GcInc` states it as `BarrierBackInCycle`.
* A full collection with finalizers pending separates an armed table that is
  reachable only through a pending one, and finalizes it in use
  (`FinalizeUnreachable`). It also clears weak values that only a pending table holds.
* A second way to free an object in use in generational mode: an old table aged twice
  in one minor collection (`TouchedTwice` in `GcGen`). A third: `gc_gen_has_gclist54`
  (`lj_gc.c:143`) leaves out closed upvalues, so one that just became old is not visited again.
* In generational mode a table with `__gc` stays white; if only old objects
  refer to it, a minor collection finalizes it while in use.
* A userdata that was finalized, or resurrected without a `__gc`, and is in use again is dropped from weak values
  at every collection (`gc_mayclear`, `lj_gc.c:1138`).

Tables and closing:

* If key 0 is cleared during a traversal, `next` raises "invalid key to 'next'".
* An allocation error in `lj_tab_resize` (`lj_tab.c:430`) hides integer keys.
* In a coroutine, an error caught by a `pcall` that a metamethod or another `pcall` called leaves the
  variables of the failed call unclosed (`vm_x64.dasc:745`).
* `coroutine.close` after a failed `coroutine.resume` gives a handler some stack slot as the
  error (`lj_api.c:3320`).

Trace compiler, dispatch and profiler:

* `lua_sethook` from a signal handler frees the machine code that the signal interrupted
  (`lj_dispatch.c:352`), though a comment (`lj_record.c:4579`) recommends it.
* With a handler of `bc`, a request of the profiler that is pending when the handler is called is
  lost until the mode changes for another reason.
* Function headers keep counting with call or count hooks set (`lj_dispatch.c:840`), and
  compiled code bypasses the hooks.
* `jit.flush(n)` in a C function called from a stitched trace, with a collection before the next recording ends,
  dereferences a null trace (`lj_trace.c:551`).
* A `texit` handler that runs compiled code overwrites `J->parent` and `J->exitno` (`lj_trace.c:926`).
* Recording pauses while variables to be closed are pending (`lj_dispatch.c:635`), but side and
  stitched traces start all the same and miss instructions.
* `jit.flush()` in a handler of `record` or `texit` crashes.

Suspected from the code and not reproduced: a flush or `debug.sethook` in a handler of the start of a
trace; `jit.off(f)` in a handler of abort before a loop of returns is recorded;
`cont_stitch` starts a recording after `jit.off()`; a profiler callback that calls
`debug.sethook` loses the hook; hooks set in a finalizer leave the traces.

## 5. What is proved

`GcInc_proofs` proves, for all finite or infinite sets of objects of each kind
(the only assumption is `KindAssumption`: the kinds are disjoint, the main
thread is a thread, `Nil` is not an object):

| theorem | statement | what it says of the code |
|---|---|---|
| `TypeCorrect` | `Spec => []TypeOK` | the kinds and ranges of the collector's state |
| `Invariance` | `Spec => []IInv` | the inductive invariant below |
| `Safety` | `Spec => []NoDangling` | no reachable object is freed |
| `FrontierHolds` | `Spec => []TriColor` | the write barriers keep the frontier |
| `LiveRefersToLive` | `Spec => []LiveClosed` | no live object refers to a dead or freed one |
| `ListsExact` | `Spec => []GrayListed` | gray objects are on one list, once |
| `OpenUpvaluesValid` | `Spec => []OpenOnStack` | an open upvalue points into an allocated stack |
| `StacksNeverBlack` | `Spec => []NeverBlack` | stack stores need no barrier |
| `DeadIsUnswept` | `Spec => []DeadUnswept` | nothing dead survives a cycle |
| `WhiteAtStart` | `Spec => []WhiteBetweenCycles` | a cycle starts with a white heap |

**The argument.** `NoDangling` says nothing about colors, so it is not
inductive. `IInv` adds what the collector relies on, and every conjunct is there
for an action that would break another one without it:

- `LiveClosed` is what makes sweeping safe: a freed object was dead, and a live
  object refers to no dead one. It gives `NoDangling`, since the least closed set
  from the main thread and the pending objects (`LeastClosedLeast`) stays within
  the objects that are not dead, if its roots do: `MainLive`, `PendingLive`.
- `Atomic` makes `LiveClosed` true again when it flips the white: objects that
  were white and are not marked become dead. It needs that no marked object
  refers to an unmarked one: `TriColor` for the black ones, and for the gray ones
  that they are among the roots of the atomic marking: `GrayListed` for those
  with a link, `GrayKinds` for the rest, which are strings (they hold nothing:
  `LeafStrings`) and open upvalues (`gc_mark_uv` marks their values; their owner's
  stack holds them too: `OpenOnStack`).
- `TriColor` is kept by stack stores because threads and open upvalues are not
  black (`NeverBlack`), by table, closure and upvalue stores because of the
  barriers, by `MarkStart` because nothing is black then: `ColorWhere` and
  `SweepOnly` say that an object that is not current-white is unswept, pending or
  in the marking of this cycle, and `PendingLive` that nothing is pending.
- `ColorWhere` with `SweepOnly` and `PendingLive` gives `DeadUnswept` and
  `WhiteBetweenCycles`.

`GcMark` and `TraceFrom` are least sets closed under references. The proofs use
only three facts about them (`LeastClosedContains`, `LeastClosedClosed`,
`LeastClosedLeast`), from which `GcMarkSpec`, `TraceSpec` and `FullMarked` say what
marking one object, propagating to the end and a whole collection do. Each
action has a lemma `<Action>Keeps`; `Invariance` puts them together.

**Dispatch.** `Trace_invariant` proves `TableFollowsMode`: if no signal arrives inside
`lj_dispatch_update` (`~Interrupts`), `vm.disp = Table(vm.mode)` in every state of `Trace`, for any
bytecode, number of traces, handlers and hook masks (`TableExact`, the second half of
`DispatchAgrees`). The core is `RewrittenIsTable`: of the table of one mode, the parts that
`lj_dispatch_update` does not write are the same in the table of the next mode. `Exact` is the
inductive invariant; the actions that touch dispatch fields do it through
`Updated` or only change hook bits, and each has a step in `StepExact`. `trace_signal`
shows that the assumption is needed.

The whole of it is `DispatchFollows`: `Spec => []DispatchAgrees` under `Undisturbed`, that is without
signals inside `lj_dispatch_update` and without a profiler together with a handler of `bc` (whose return restores
the profiler's bit although nothing records and no update follows: section 4). `DispatchAgrees` speaks only of the
states in which bytecode or machine code runs next, and the code does not update the mode at every change
of what it depends on. The invariant `Followed` says what holds in between: which bits handlers and finalizers may have
taken away and will restore (`HookBits`), from which states the interpreter may be next without another update
(`Waits`: a recording that goes on, one that is started again on a loop of returns after its abort, a handler of `bc`),
and that there the mode is the one of the hooks as they will be restored (`Asks`, `HooksOf`).

**The promise.** `GcInc_proofs` proves `ImplementsPromise`, that is `Spec => KeepsPromise`: every step of the program
and of the collector is a step of `GcPromise` or a stutter. Every step of `GcPromise` speaks of what is
in use, a least set; `FreedHoldsNothing` (`Spec => []FreeEmpty`) is needed where freed memory is
allocated again, so that the new object brings no references along. Steps of the collector stutter because
they only change colors and lists, and a sweep frees nothing in use (`Safety`).

**Generational mode.** `GcGen_proofs` proves, for any objects of any kind (`GenAssumption`: the kinds are disjoint, `Armable`
are tables):

| theorem | statement | under |
|---|---|---|
| `TypeCorrect` | `Spec => []TypeOK` | |
| `KeptHolds` | `Spec => []KeptInv` | |
| `StacksStay` | `Spec => []StacksKept` | |
| `PendingStay` | `Spec => []PendingKept` | |
| `OnlyMinorFrees` | `Spec => [][NoDangling /\ ~NoDangling' => Minor]_vars` | |
| `TouchedAreListed` | `Spec => []TouchedListed` | |
| `GenerationsHold` | `Spec => []GenInv` | `OnlyTables` |
| `MinorIsSafe` | `Spec => []NoDangling` | `OnlyTables` |
| `OldIsRemembered` | `Spec => []OldToYoung` | `OnlyTables` |
| `SegmentsByAge` | `Spec => []OldSegment` | `OnlyTables` |

Generational mode does free objects in use (section 4), so the first six say what holds all the same. `KeptInv` has to survive the
very step that frees too much: either nothing in reach was freed (`Sound`), or the stacks of the threads in use and
the pending objects are still there. For that a minor collection must start from all threads (`ThreadsListed` in `StackInv`: a thread
is on `grayagain` or white and young), and `gc_mark_mmudata` must mark what pending objects hold.

`OnlyTables == Funcs = {} /\ Uvs = {} /\ Armable = {}` leaves tables, strings and coroutines, any number of each. Each kind
that it leaves out has a counterexample in section 4: upvalues that close, closures whose forward barrier makes a
table age twice, tables with `__gc` that stay white. Without them `GenInv` is inductive: color and segment of an
object go with its age (`Matched`), the heap is closed under references, and a white object in an old table was
already seen by one minor collection, by the table that now is `"old1"` or `"touched2"`, or else the table is listed as touched (`Remembers`).
So the roots of a minor collection (touched tables, `"old1"` ones, threads) hold everything young that an old object refers to
(`RootsOrOld`), what stays unmarked has nobody left who refers to it, and the survivors are old enough at the next collection for
the tables that are no longer looked at. `MinorAges` says what the many steps of a minor collection do to one object.

**To-be-closed variables.** `Close_proofs` proves, for any number of frames, values and errors:

| theorem | statement | under |
|---|---|---|
| `ThreadTyped` | `Spec => []TypeOK` | |
| `ErrorsAreKept` | `Spec => ErrorKept` | |
| `StatusMatchesResume` | `Spec => []StatusAgrees` | |
| `VariablesAttended` | `Spec => []NoneOutlives` | `Careful` |
| `ClosedExactlyOnce` | `Spec => ClosedOnce` | `Careful` |
| `LastMarkedIsFirst` | `Spec => LastMarkedFirst` | `Careful` |
| `ErrorsStayErrors` | `Spec => []ErrorsAreErrors` | `Careful`, no `coroutine.resume` before `coroutine.close` |

`Careful == Callers \subseteq {"lua"} /\ ~OwnTbc` is the case in which the code is right: section 4 has a
counterexample for a `pcall` that a metamethod or another `pcall` calls, and one for `coroutine.close` after a failed
`coroutine.resume`; a handler with variables of its own adds marks above a closer. `close_thread` checks
the same instance. The argument has three layers. `BaseInv` holds for any callers: which frames a stack consists of and what is in
them (`TypedShape`), that the list has each open value once (`Listed`), and that a thread whose
function was not called yet has no frames, no error and status ok. `CareInv` adds that the variables of a function are
neighbours on the list, in the order of their slots and above those of its callers (`Numbered`: else a new mark could
take a slot that is in use, and a closer a variable of another frame), that every open value is listed, and `Attended`: every
marked slot is in a Lua frame that is there or dead, and for every dead frame there is a closer above that will
unwind it (`Stack`). That an error gets to the right closer takes two facts about frames of a coroutine that has no C code on its
stack: its `pcall`s are called by Lua code or by closers (`CalledAt`), and no closer is below a marked slot (`PlainBelow`).
A step then shortens the list only by its last mark, which gives `ClosedExactlyOnce` and `LastMarkedIsFirst`. `ProperInv` adds that no
error is a stack slot taken for one.

**Traces.** `Trace_invariant` proves, for any bytecode, number of traces, handlers and hook masks, with or without a profiler
and wherever its signals arrive:

| theorem | statement | what it says of the code |
|---|---|---|
| `InvariantHolds` | `Spec => []IInv` | the inductive invariant below |
| `TraceTyped` | `Spec => []TypeOK` | the states of `jit_State` and of the hook bits |
| `BytecodeIsLive` | `Spec => []PatchedIsLive` | patched bytecode leads to a live root trace that begins there |
| `ChainsAreExact` | `Spec => []ChainExact` | `lj_trace_flushproto` finds all traces of a prototype |
| `MachineCodeIsLive` | `Spec => []JumpsLive` | what machine code can jump to was not flushed or collected |
| `NothingLeftBehind` | `Spec => []StateClean` | a recording leaves no slot, patch or parent behind |
| `AreasAreExecutable` | `Spec => []Executable` | machine code areas can be executed whenever they may be |
| `OffMeansOff` | `Spec => []NoJitNoTrace` | `jit.off(f)` leaves no trace of `f`, and none is made later |

The only assumption is `TraceAssumption` (the bytecode is well-formed: instructions belong to prototypes and
are of known kinds; there is a trace number; event masks consist of events). `IInv` consists of

- `Linked`: a prototype's chain of `nextroot` references visits exactly the root traces its bytecode leads to, each once
  (`Path`). `FlushRoot` needs it to unlink a trace in the middle, and `FlushProto` to reach every trace
  before it forgets the chain.
- `Live`: there is a set of traces that the collector's marking stays in (`Kept`: chains, links, `nextroot`,
  `nextside`), and a set that machine code stays in (`Enterable`: links, exits, the trace that
  runs), both of traces that exist. The two differ, since the collector does not follow exits; `Wired` says why
  what is entered is kept all the same: the trace at an exit is in the list of side traces of its root
  (`OnSides`), and links lead to root traces. `JumpsLive` alone is not inductive, since a collection keeps what is marked, not
  what can be entered.
- `Slots`: the slot of the recording is the only one marked as such, and none below `freetrace` is free.
- `Phase`: what the recorder relies on between the steps of a recording: which parent or stitched trace
  exists when it starts (`CanStart`), while it records (`Active`), when it was switched off before it started, and in
  the handlers of stop and abort. `LinkRight` says that a complete trace is linked to itself, to its own root, or to a root trace that a
  chain still has; a flush in between aborts the recording, which is why it holds in `asm`.
- `Areas`: machine code areas are executable unless the assembler has just failed in the middle.

Flushes of all traces of a prototype, or of all traces, are recursive functions in the model. What they
compute is proved by the least index at which a claim about a prefix would fail (`LeastExists`), since no
induction theorem can be used (below). `Trace_heap` has a lemma per operation on traces; `Trace_invariant` has one
per action, and `StepGood` puts them together.

**Weak tables.** `GcWeak_proofs` proves all properties of `GcWeak`, for any tables and strings (finitely many), entries and modes
(`WeakAssumption`):

| theorem | statement | what it says of the code |
|---|---|---|
| `TypeCorrect` | `Spec => []TypeOK` | gray tables, and no others, are on one list each |
| `Invariance` | `Spec => []IInv` | the inductive invariant below |
| `NothingDangles` | `Spec => []NoDangling` | no entry, weak or not, refers to a freed object |
| `InUseIsKept` | `Spec => EntriesRight` | nothing in use is freed or cleared, and no weak table has a value that is being finalized |
| `FullIsExact` | `Spec => FullExact` | a full collection computes the definition of the manual |

`IInv` is `Typed`, `Colored` (white, black or on one list), `NoDangling`, `BlackDone` and `PhaseInv`. `BlackDone` says that a
black table refers to nothing white, by weak keys and values either: a table that was traversed as a strong one may become
weak without a barrier, and is not looked at again. `PhaseInv` says of a full collection that has marked that its black tables are
strong and that it marked nothing but what is in use, which `FullExact` needs.

The atomic phase is one action of many loops. `Progress` says what all of them keep, and it is a preorder
(`ProgressSelf`, `ProgressChain`), so it holds of a loop if it holds of one turn. That a loop is done after as
many turns as there are tables, or objects, is induction over the turns: every turn makes a finite set smaller (`Todo` for
`gc_propagate_gray`, the white objects for ephemerons). `Settled` is the state after each: nothing gray, and no marked key with a white
value. What is marked then is closed in the sense of the manual (`SettledClosed`), so it contains the least such set, what is
in use; for a full collection it is contained in it too (`Bounded`). `AtomicFacts` has what is known of the three
marking phases and the separation between them, `UnreferredFacts` what is left after the entries are cleared.

**Tables.** `LuaTab_proofs` proves all properties of `LuaTab`, for any keys, hash values, groups of keys and sizes
(`KeyAssumption`: keys are natural numbers or strings, hash values are natural numbers, nil and the marks of the model
are neither):

| theorem | statement | what it says of the code |
|---|---|---|
| `Invariance` | `Spec => []IInv` | the inductive invariant below |
| `TypeCorrect` | `Spec => []TypeOK` | the shape of the parts |
| `NoKeyIsLost` | `Spec => []IsAssigned` | both kinds of lookup find what was last assigned |
| `ChainsAreFinite` | `Spec => []ChainsEnd` | no chain becomes a ring |
| `LengthIsBorder` | `Spec => []LenIsBorder` | the length is a border, whatever the hint |
| `TraversalGoesOn` | `Spec => []NextKnowsKey`, if `0 \notin Ints` | `next` knows the key it has just returned |
| `ImplementsMap` | `Spec => IsMap` | the table is a map, a traversal returns each key once |

`TraversalGoesOn` and the run leave out the key 0, since `lj_tab_keyindex` refuses it once it is cleared (section 4); that
no other key is refused, also in tables that have a key 0, is the lemma `OnlyZeroUnknown`. All other theorems hold with it.

`IInv` speaks of the table, of `content` and of the cursor. The table part says of the chains: a rank decreases along
them (`Ends`), no node has two predecessors (`OnePred`), unused nodes are in no chain, and all nodes from
`freetop` on have a key, so that a free node is found below. Of the keys: live ones are
distinct, the integers of the array part are not in the hash part, and every live node is reached from the main node
of its key before any other node with that key (`Reached`). The last one is what makes the lookups
agree: a dead node keeps its key, so that the same key may be in a live node and in dead ones, and those that do not look
at the value stop at the first. `Maps` ties live nodes and array slots to `content`. `Walks` says of a traversal
that it has returned exactly the keys that lie before the cursor and are still there.

When the main node of a new key is taken by a key of another chain, `MakeWay` moves that key to a free node and `Rechain`
repairs the rest of its old chain. In the middle of it some keys may not be found. `Phase` says which: every live node outside of `Q`,
the rest of the chain behind the node passed last, is reached (`Outside`), and those in `Q` whose main node is in `Q` too are
reached within `Q` (`Inside`), to which only the node passed last leads (`Entry`). As long as no key of the freed main node was met, only keys
of that node are missing. A round passes or moves one node of `Q`, and with `Q` empty all are reached. A
rank with room between any two values (`Even`, `Odd`) shows that relinking leaves the chains finite.

`Resize` puts the keys back one by one into new parts. That it never lacks a node is a count: `Rehash` counts the keys per
power of two, the new hash part has room for all that the array part does not take, plus the new one (`Holding`, `Refilled`); so
`Put` does not have to rehash again in the middle. `Bisect` and `Widen` keep a border between their two bounds, and `Widen`
ends because every doubling has found one more node.

**Only model-checked**: liveness (`CyclesEnd`, `GarbageGoes`), which is out of the prover's reach. The library's induction theorems take an operator as a
parameter and cannot be instantiated; `NatLemmas` has induction for a set in place of a property (`SetInduction`), and from it
that a loop of a bounded number of turns has a result (`RoundsExist`), which is what the proofs about loops use.

## 6. Plan

Models: `GcPacing` (`lj_gc_step`, the options of `lua_gc` with `GCSize` arithmetic of small
width; a stopped collector stays stopped, a cycle starts again), weak lists in `GcGen`, userdata in
`GcWeak`, `Callback` (slots and nesting of FFI callbacks), `StrTab` (hash chains and resize of
the string table), and the composition of `Close` with `Trace`.
