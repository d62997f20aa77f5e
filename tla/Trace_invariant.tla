--------------------------- MODULE Trace_invariant ---------------------------
(***************************************************************************)
(* The inductive invariant of the trace compiler: what is known of traces  *)
(* in every state (Trace_heap), and what the recorder relies on in every   *)
(* phase of a recording.  Every step keeps it, and it says all that the    *)
(* properties of module Trace say about traces, bytecode and machine code. *)
(***************************************************************************)
EXTENDS Trace_heap

-----------------------------------------------------------------------------
(* lj_dispatch_update rewrites only the parts of the dispatch table that   *)
(* depend on a changed mode bit.  This is enough in every interleaving of  *)
(* the trace compiler, hooks, handlers, finalizers and the profiler, as    *)
(* long as no signal arrives inside of an update.                          *)

Modes == [jit : BOOLEAN, rec : BOOLEAN, prof : BOOLEAN,
          ins : BOOLEAN, call : BOOLEAN, ret : BOOLEAN]

\* States of the dispatch fields whose table is the one of their mode.
Exact ==
  {w \in [hooks : SUBSET Hooks, mode : Modes, disp : {Table(m) : m \in Modes},
          ev : SUBSET Hooks, fin : SUBSET Hooks] : w.disp = Table(w.mode)}

\* Every mode that is asked for is a record of flags.
LEMMA ModeType ==
  ASSUME NEW on, NEW state, NEW hooks
  PROVE  Mode(on, state, hooks) \in Modes
BY DEF Mode, Modes

\* The partial rewrite of the table of one mode gives the table of the other one.
LEMMA RewrittenIsTable ==
  ASSUME NEW old \in Modes, NEW new \in Modes
  PROVE  Rewritten(Table(old), old, new) = Table(new)
<1> DEFINE r == Rewritten(Table(old), old, new)
<1>1. r.static = Table(new).static
  BY DEF Rewritten
<1>2. r.loop = Table(new).loop
  BY DEF Rewritten, InsChanged, Table, Modes
<1>3. r.ret = Table(new).ret
  BY DEF Rewritten, InsChanged, Table, Modes
<1>4. r.ins = Table(new).ins
  BY DEF Rewritten, InsChanged, Table, Modes
<1>5. r.funcf = Table(new).funcf
  BY DEF Rewritten, InsChanged, Table, Modes
<1>6. r.funcc = Table(new).funcc
  BY DEF Rewritten, InsChanged, Table, Modes
<1> QED
  BY <1>1, <1>2, <1>3, <1>4, <1>5, <1>6 DEF Rewritten, Table

\* An update keeps the table exact, whatever mode is asked for.
LEMMA UpdatedExact ==
  ASSUME NEW w \in Exact, NEW on, NEW state
  PROVE  Updated(w, on, state) \in Exact
<1> DEFINE new == Mode(on, state, w.hooks)
<1>1. new \in Modes
  BY ModeType
<1>2. Rewritten(w.disp, w.mode, new) = Table(new)
  BY <1>1, RewrittenIsTable DEF Exact
<1> HIDE DEF new
<1>3. [w EXCEPT !.mode = new, !.disp = Table(new)] \in Exact
  BY <1>1 DEF Exact
<1> QED
  BY <1>2, <1>3 DEF Updated, new

\* What handlers, finalizers and hooks do to the bits of hookmask leaves it exact.
LEMMA HooksExact ==
  ASSUME NEW w \in Exact, NEW h \in SUBSET Hooks, NEW e \in SUBSET Hooks
  PROVE  /\ [w EXCEPT !.hooks = h] \in Exact
         /\ [w EXCEPT !.hooks = h, !.ev = e] \in Exact
         /\ [w EXCEPT !.hooks = h, !.fin = e] \in Exact
BY DEF Exact

\* Without a signal in the middle, the only outcome of lj_dispatch_update.
LEMMA NoInterrupt ==
  ASSUME NEW w, NEW on, NEW state, ~Interrupts,
         vm' \in DispatchUpdate(w, on, state, Interrupts)
  PROVE  vm' = Updated(w, on, state)
BY DEF DispatchUpdate

-----------------------------------------------------------------------------
\* The steps.  Only Init, the ends and aborts of recordings, handlers, hooks,
\* finalizers, the timer and the profiler hook change dispatch fields.

LEMMA InitExact ==
  ASSUME Init
  PROVE  vm \in Exact
<1>1. Mode(TRUE, "idle", {}) \in Modes
  BY ModeType
<1> QED
  BY <1>1 DEF Init, Exact

\* Back to the interpreter, with the state w of the dispatch fields.
LEMMA ToIdleExact ==
  ASSUME NEW j, NEW w \in Exact, ~Interrupts, ToIdle(j, w)
  PROVE  vm' \in Exact
<1>1. vm' = Updated(w, j.on, "idle")
  BY NoInterrupt DEF ToIdle
<1> QED
  BY <1>1, UpdatedExact

\* A handler is called.
LEMMA ToHandlerExact ==
  ASSUME vm \in Exact, NEW e, NEW j, ToHandler(e, j)
  PROVE  vm' \in Exact
<1>1. vm.hooks \in SUBSET Hooks /\ vm.ev \in SUBSET Hooks
  BY DEF Exact
<1>2. /\ vm.hooks \cup {"vmevent"} \in SUBSET Hooks
      /\ vm.ev \cup (vm.hooks \cap {"profile"}) \in SUBSET Hooks
  BY <1>1 DEF Hooks
<1> QED
  BY <1>2, HooksExact DEF ToHandler

\* It returns.
LEMMA AfterHandlerExact ==
  ASSUME NEW w \in Exact
  PROVE  AfterHandler(w) \in Exact
<1>1. w.hooks \in SUBSET Hooks /\ w.ev \in SUBSET Hooks
  BY DEF Exact
<1>2. /\ (w.hooks \ {"vmevent", "profile"}) \cup w.ev \in SUBSET Hooks
      /\ {} \in SUBSET Hooks
  BY <1>1
<1> QED
  BY <1>2, HooksExact DEF AfterHandler

\* A recording is aborted.
LEMMA AbortedExact ==
  ASSUME NEW j, NEW w \in Exact, ~Interrupts, Aborted(j, w)
  PROVE  vm' \in Exact
<1>1. CASE vm' = w
  BY <1>1
<1>2. ASSUME NEW k, NEW v, ToIdle(FlushAll(k), v),
             v = w \/ v \in DispatchUpdate(w, k.on, k.state, Interrupts)
      PROVE  vm' \in Exact
  <2>1. v = w \/ v = Updated(w, k.on, k.state)
    BY <1>2 DEF DispatchUpdate
  <2>2. v \in Exact
    BY <2>1, UpdatedExact
  <2> QED
    BY <1>2, <2>2, ToIdleExact
<1>3. CASE ToIdle(j, w)
  BY <1>3, ToIdleExact
<1>4. CASE j.err = "mcodeal"
  <2> DEFINE k == [j EXCEPT !.on = @ /\ j.mcarea]
  <2>1. \E v : /\ ToIdle(FlushAll(k), v)
               /\ v = w \/ v \in DispatchUpdate(w, k.on, k.state, Interrupts)
    BY <1>4, Zenon DEF Aborted
  <2> QED
    BY <1>2, <2>1
<1> QED
  BY <1>1, <1>3, <1>4 DEF Aborted

\* The steps that change dispatch fields: the ends and aborts of recordings, handlers,
\* hooks, finalizers, the timer and the profiler hook.
LEMMA DispatchSteps ==
  ASSUME [Next]_vars
  PROVE  \/ Start \/ Asm \/ Abort \/ HandlerReturns \/ SetEngine \/ Finalizer
         \/ FinalizerReturns \/ Load \/ Timer \/ ProfileHook \/ UNCHANGED vm
         \/ \E m \in HookMasks : SetHook(m)
<1>1. CASE Record \/ End \/ Jump \/ CallC \/ Leave
  BY <1>1 DEF Record, End, Jump, CallC, Leave
<1>2. CASE HotSide \/ StitchReturn
  BY <1>2 DEF HotSide, StitchReturn, Begin
<1>3. CASE Flush \/ HookCalled \/ Notice
  BY <1>3 DEF Flush, HookCalled, Notice
<1>4. CASE \E p \in Pcs : Hot(p) \/ Enter(p)
  BY <1>4 DEF Hot, Enter, Begin
<1>5. CASE \E f \in Protos : SetProto(f)
  BY <1>5 DEF SetProto
<1>6. CASE \E n \in Traces : CollectTrace(n)
  BY <1>6 DEF CollectTrace
<1>7. CASE UNCHANGED vars
  BY <1>7 DEF vars
<1> QED
  BY <1>1, <1>2, <1>3, <1>4, <1>5, <1>6, <1>7 DEF Next

\* Every step of trace compiler, program, collector and timer keeps it.
LEMMA StepExact ==
  ASSUME TraceAssumption, ~Interrupts, vm \in Exact, [Next]_vars
  PROVE  vm' \in Exact
<1>1. vm.hooks \in SUBSET Hooks /\ vm.fin \in SUBSET Hooks
  BY DEF Exact
<1>2. CASE Start
  <2>1. PICK j : vm' = vm \/ vm' \in DispatchUpdate(vm, j.on, j.state, Interrupts)
    BY <1>2 DEF Start
  <2> QED
    BY <2>1, NoInterrupt, UpdatedExact
<1>3. CASE Asm
  <2>1. CASE vm' = vm
    BY <2>1
  <2>2. CASE \E k : ToHandler("stop", TraceStop(k))
    BY <2>2, ToHandlerExact
  <2>3. CASE \E k : ToIdle(TraceStop(k), vm)
    BY <2>3, ToIdleExact
  <2> QED
    BY <1>3, <2>1, <2>2, <2>3 DEF Asm
<1>4. CASE Abort
  <2>1. CASE vm' = vm
    BY <2>1
  <2>2. CASE \E l : ToHandler("abort", l)
    BY <2>2, ToHandlerExact
  <2>3. CASE \E k : Aborted(k, vm)
    BY <2>3, AbortedExact
  <2> QED
    BY <1>4, <2>1, <2>2, <2>3 DEF Abort
<1>5. CASE HandlerReturns
  <2>1. AfterHandler(vm) \in Exact
    BY AfterHandlerExact
  <2>2. CASE ToIdle(J, AfterHandler(vm))
    BY <2>1, <2>2, ToIdleExact
  <2>3. CASE \E j : Aborted(j, AfterHandler(vm))
    BY <2>1, <2>3, AbortedExact
  <2>4. CASE vm' = AfterHandler(vm)
    BY <2>1, <2>4
  <2> QED
    BY <1>5, <2>2, <2>3, <2>4 DEF HandlerReturns
<1>6. CASE SetEngine
  <2>1. PICK on, state : vm' \in DispatchUpdate(vm, on, state, Interrupts)
    BY <1>6 DEF SetEngine
  <2> QED
    BY <2>1, NoInterrupt, UpdatedExact
<1>7. ASSUME NEW mask \in HookMasks, SetHook(mask)
      PROVE  vm' \in Exact
  <2> DEFINE w == [vm EXCEPT !.hooks = (@ \ Events) \cup mask]
  <2>1. (vm.hooks \ Events) \cup mask \in SUBSET Hooks
    BY <1>1, <1>7 DEF TraceAssumption, Hooks
  <2>2. w \in Exact
    BY <2>1, HooksExact
  <2>3. vm' \in DispatchUpdate(w, J.on, J'.state, Interrupts)
    BY <1>7 DEF SetHook
  <2> HIDE DEF w
  <2> QED
    BY <2>2, <2>3, NoInterrupt, UpdatedExact
<1>8. CASE Finalizer
  <2> DEFINE w == [vm EXCEPT !.hooks = (@ \cup {"gc"}) \ {"profile"},
                             !.fin = vm.hooks \cap {"profile"}]
  <2>1. /\ (vm.hooks \cup {"gc"}) \ {"profile"} \in SUBSET Hooks
        /\ vm.hooks \cap {"profile"} \in SUBSET Hooks
    BY <1>1 DEF Hooks
  <2>2. w \in Exact
    BY <2>1, HooksExact
  <2>3. vm' = w \/ vm' = Updated(w, J.on, J'.state)
    BY <1>8 DEF Finalizer
  <2> HIDE DEF w
  <2> QED
    BY <2>2, <2>3, UpdatedExact
<1>9. CASE FinalizerReturns
  <2> DEFINE w == [vm EXCEPT !.hooks = (@ \ {"gc", "profile"}) \cup vm.fin, !.fin = {}]
  <2>1. /\ (vm.hooks \ {"gc", "profile"}) \cup vm.fin \in SUBSET Hooks
        /\ {} \in SUBSET Hooks
    BY <1>1
  <2>2. w \in Exact
    BY <2>1, HooksExact
  <2>3. vm' = w \/ vm' = Updated(w, J.on, J.state)
    BY <1>9 DEF FinalizerReturns
  <2> HIDE DEF w
  <2> QED
    BY <2>2, <2>3, UpdatedExact
<1>10. CASE Load
  BY <1>10, ToHandlerExact DEF Load
<1>11. CASE Timer
  <2> DEFINE w == [vm EXCEPT !.hooks = @ \cup {"profile"}]
  <2>1. vm.hooks \cup {"profile"} \in SUBSET Hooks
    BY <1>1 DEF Hooks
  <2>2. w \in Exact
    BY <2>1, HooksExact
  <2>3. vm' = Updated(w, J.on, J.state)
    BY <1>11 DEF Timer, Triggered
  <2> HIDE DEF w
  <2> QED
    BY <2>2, <2>3, UpdatedExact
<1>12. CASE ProfileHook
  <2> DEFINE mask == vm.hooks \ {"profile"}
             cb == Updated([vm EXCEPT !.hooks = {"vmevent"}], J.on, J.state)
             w == [(IF "vmevent" \in mask THEN vm ELSE cb) EXCEPT !.hooks = mask]
  <2>1. mask \in SUBSET Hooks /\ {"vmevent"} \in SUBSET Hooks
    BY <1>1 DEF Hooks
  <2>2. [vm EXCEPT !.hooks = {"vmevent"}] \in Exact
    BY <2>1, HooksExact
  <2>3. cb \in Exact
    BY <2>2, UpdatedExact
  <2> HIDE DEF cb
  <2>4. w \in Exact
    BY <2>1, <2>3, HooksExact
  <2>5. vm' = Updated(w, J.on, J.state)
    BY <1>12 DEF ProfileHook, cb
  <2> HIDE DEF w
  <2> QED
    BY <2>4, <2>5, UpdatedExact
<1>13. CASE UNCHANGED vm
  BY <1>13
<1>14. \/ Start \/ Asm \/ Abort \/ HandlerReturns \/ SetEngine \/ Finalizer
       \/ FinalizerReturns \/ Load \/ Timer \/ ProfileHook \/ UNCHANGED vm
       \/ \E m \in HookMasks : SetHook(m)
  BY DispatchSteps
<1> QED
  BY <1>2, <1>3, <1>4, <1>5, <1>6, <1>7, <1>8, <1>9, <1>10, <1>11, <1>12, <1>13, <1>14

\* The dispatch table is the one that dispatchmode stands for in every state, for
\* any bytecode, any number of traces, any handlers and hooks, unless a signal
\* arrives inside of lj_dispatch_update, although the code rewrites it in parts.
THEOREM TableFollowsMode ==
  ASSUME ~Interrupts
  PROVE  Spec => []TableExact
<1>1. Init => vm \in Exact
  BY InitExact
<1>2. vm \in Exact /\ [Next]_vars => (vm \in Exact)'
  BY TraceAssumption, StepExact
<1>3. vm \in Exact => TableExact
  BY DEF Exact, TableExact
<1> QED
  BY <1>1, <1>2, <1>3, PTL DEF Spec

-----------------------------------------------------------------------------
\* What the recorder relies on, by the phase of a recording.

\* The trace that a side trace continues, and its root.
ParentOK(j) == /\ j.parent \in Saved(j) /\ Rt(j, j.parent) \in Saved(j)
               /\ j.trace[Rt(j, j.parent)].root = 0
AtPc(j, kinds) == j.pc \in Pcs /\ j.pt = Proto[j.pc] /\ Kind[j.pc] \in kinds

Idle(j) == j.state = "idle" /\ j.no = 0 /\ j.parent = 0 /\ j.exitno = 0 /\ j.patch = Nil

\* A side trace, a stitched trace or a root trace can start.
CanStart(j) ==
  /\ j.no = 0 /\ j.patch = Nil
  /\ \/ j.parent # 0 /\ j.exitno = 0 /\ ParentOK(j)
     \/ j.parent = 0 /\ j.exitno \in Saved(j) /\ AtPc(j, {"call"})
     \/ /\ j.parent = 0 /\ j.exitno = 0 /\ AtPc(j, Kinds \ {"call"})
        /\ ~IsJit(j, j.pc) \/ j.pt \notin j.nojit

\* A loop of returns waits to be recorded.
DownRec(j) == j.err = "downrec" => /\ AtPc(j, {"ret"}) /\ j.pt \notin j.nojit
                                   /\ j.cur.op \in {"ret", "call"}

CurOK(j) ==
  /\ j.cur.op \in Kinds \cup {"jmp"}
  /\ j.cur.op \in Kinds => /\ j.cur.pc \in Pcs /\ Kind[j.cur.pc] = j.cur.op
                           /\ j.cur.root = 0
  /\ j.cur.op = "jmp" => j.cur.root # 0
  /\ j.cur.nextroot = 0 /\ j.cur.nextside = 0 /\ j.cur.exit = 0

\* The trace that is recorded continues another one, or begins where no trace does.
Grounded(j) ==
  /\ j.parent # 0 => j.cur.op = "jmp" /\ ParentOK(j) /\ j.cur.root = Rt(j, j.parent)
  /\ j.exitno # 0 => j.cur.op = "call" /\ j.exitno \in Saved(j) /\ j.parent = 0
  /\ j.parent = 0 /\ j.exitno = 0 =>
       /\ j.cur.op \in Kinds \ {"call"} /\ ~IsJit(j, j.cur.pc)
       /\ Proto[j.cur.pc] \notin j.nojit
       /\ j.patch # Nil => j.patch.pc # j.cur.pc

\* It is linked to itself, to its root or to a root trace that is in use once it is
\* complete.
LinkRight(j) ==
  \/ j.cur.link \in {0, j.no}
  \/ j.cur.link = j.cur.root
  \/ \E f \in Protos : j.cur.link \in Owned(j, f)

Active(j) ==
  /\ j.no # 0 /\ CurOK(j) /\ Grounded(j)
  /\ j.state \in {"first", "record", "end", "asm", "err", "off"}
  /\ j.patch # Nil => j.state \in {"record", "end", "err", "off"}
  /\ j.state \in {"first", "record", "off"} => j.cur.link = 0
  /\ j.state \in {"end", "asm"} \/ (j.state = "err" /\ j.err = "mcodelm") => LinkRight(j)
  /\ j.state = "err" => DownRec(j)

\* The trace that was to be started there is not.
NotStarted(j) ==
  /\ j.state = "off" /\ j.no = 0 /\ j.patch = Nil /\ j.parent = 0 /\ j.exitno = 0
  /\ CurOK(j) /\ j.cur.op \in {"call", "ret"}

Stopped(j) == j.state \in {"asm", "off"} /\ j.no = 0 /\ j.patch = Nil
Aborting(j) ==
  /\ j.state \in {"err", "off"} /\ j.patch = Nil /\ CurOK(j) /\ j.cur.link = 0
  /\ DownRec(j)

Phase(j, a) ==
  \/ a \in {"interp", "mcode", "bc"} /\ Idle(j)
  \/ a = "jit" /\ j.state = "start" /\ CanStart(j)
  \/ a = "jit" /\ Active(j)
  \/ a = "interp" /\ Active(j) /\ j.state \in {"record", "off"}
  \/ a = "jit" /\ NotStarted(j)
  \/ a = "stop" /\ Stopped(j)
  \/ a = "abort" /\ Aborting(j)

\* Machine code areas are executable unless the assembler has just failed.
Areas(j, a) == j.prot = "run" \/ (a = "jit" /\ j.state = "err" /\ j.mcarea)

\* Trace numbers, bytecode, recording and machine code fit together.
Good(j, a, r) ==
  /\ j \in JRec /\ a \in {"interp", "mcode", "jit"} \cup Handlers
  /\ r \in Numbers /\ (r # 0 <=> a = "mcode")
  /\ Heap(j, r) /\ Phase(j, a) /\ Areas(j, a)

IInv == Good(J, at, run)
-----------------------------------------------------------------------------
\* A trace is finished (trace_stop).

\* All that is set then.
SetStop(j, x, c, ch, v) ==
  [j EXCEPT !.trace = x, !.cur = c, !.chain = ch, !.ins = v, !.prot = "run", !.no = 0]

\* The rest of the state.
StopElse(i, j) ==
  /\ i.state = j.state /\ i.patch = j.patch /\ i.held = j.held /\ i.freetrace = j.freetrace
  /\ i.nojit = j.nojit /\ i.mcarea = j.mcarea /\ i.prot = "run" /\ i.no = 0

\* What trace_stop assigns.
LEMMA SetStopFacts ==
  ASSUME TraceAssumption, NEW j \in JRec, NEW x \in [Traces -> TraceRecs \cup {Nil, Cur}],
         NEW c \in TraceRecs, NEW ch \in [Protos -> Numbers], NEW v \in [Pcs -> Inses],
         NEW i, i = SetStop(j, x, c, ch, v)
  PROVE  i \in JRec /\ i.trace = x /\ i.chain = ch /\ i.ins = v /\ StopElse(i, j)
<1>1. i \in JRec
  <2>1. /\ x \in [Traces -> TraceRecs \cup {Nil, Cur}] /\ c \in TraceRecs
        /\ ch \in [Protos -> Numbers] /\ v \in [Pcs -> Inses] /\ 0 \in Numbers
    BY TraceNumbers
  <2> QED
    BY <2>1, Zenon DEF JRec, SetStop
<1>2. i.trace = x /\ i.chain = ch /\ i.ins = v /\ StopElse(i, j)
  BY DEF JRec, SetStop, StopElse
<1> QED
  BY <1>1, <1>2

\* The slot of the recording holds a trace now.
LEMMA AddedSlots ==
  ASSUME TraceAssumption, NEW j \in JRec, Slots(j), NEW n, n = j.no, n # 0,
         NEW i, i.no = 0, i.freetrace = j.freetrace, i.trace[n] \in TraceRecs,
         \A m \in Traces : m # n => \/ i.trace[m] = j.trace[m]
                                    \/ m \in Saved(j) /\ i.trace[m] \in TraceRecs
  PROVE  /\ Slots(i) /\ Saved(i) = Saved(j) \cup {n}
         /\ n \in Traces \ Saved(j) /\ j.trace[n] = Cur
<1>1. n \in Traces /\ j.trace[n] = Cur
  BY TraceNumbers DEF JRec, Slots
<1>2. {Nil, Cur} \cap TraceRecs = {} /\ Nil # Cur
  BY DEF TraceAssumption
<1>3. \A m \in Saved(j) : m \in Traces /\ j.trace[m] \in TraceRecs
  BY SavedIsRecord
<1>4. n \notin Saved(j) /\ Saved(i) = Saved(j) \cup {n}
  BY <1>1, <1>2, <1>3 DEF Saved
<1>5. \A m \in Traces : i.trace[m] # Cur
  BY <1>1, <1>2, <1>3 DEF Slots
<1>6. \A m \in Traces : m < i.freetrace => i.trace[m] # Nil
  BY <1>1, <1>2 DEF Slots
<1> QED
  BY <1>1, <1>4, <1>5, <1>6, TraceNumbers DEF Slots

\* What follows for the heap in all cases.
StopHeap(i, j, r) == i \in JRec /\ Heap(i, r) /\ StopElse(i, j)

\* The traces are as they should be after trace_stop.
LEMMA StopHeapFacts ==
  ASSUME TraceAssumption, NEW i \in JRec, NEW j \in JRec, NEW r, Heap(j, r), j.mcarea,
         StopElse(i, j), Linked(i), Live(i, r), Slots(i),
         \A f \in j.nojit : i.chain[f] = j.chain[f]
  PROVE  StopHeap(i, j, r)
<1>1. i.nojit = j.nojit /\ i.mcarea
  BY DEF StopElse
<1>2. \A f \in i.nojit : i.chain[f] = 0
  BY <1>1 DEF Heap
<1> QED
  BY <1>1, <1>2 DEF StopHeap, Heap

\* What the recorder has chosen as link is a link of the new trace.
LEMMA NewLink ==
  ASSUME TraceAssumption, NEW j, LinkRight(j), NEW i, i.trace[j.no].link = j.cur.link
  PROVE  \/ i.trace[j.no].link \in {0, j.no}
         \/ \E f \in Protos : i.trace[j.no].link \in Owned(j, f)
         \/ i.trace[j.no].link = j.cur.root
BY DEF LinkRight

\* A side trace is attached to the exit of its parent.
LEMMA StopSide ==
  ASSUME TraceAssumption, NEW j \in JRec, NEW r, Heap(j, r), Active(j), LinkRight(j),
         j.mcarea, j.cur.op = "jmp", j.parent # 0, NEW i, i = TraceStop(j)
  PROVE  StopHeap(i, j, r)
<1> DEFINE n == j.no
           p == j.parent
           t == j.cur.root
           c == [j.cur EXCEPT !.nextside = j.trace[t].nextside]
           Ex(a) == [a EXCEPT !.exit = n]
           Sd(a) == [a EXCEPT !.nextside = n]
           y == [j.trace EXCEPT ![p] = Ex(j.trace[p])]
           z == [y EXCEPT ![t] = Sd(y[t])]
           x == [z EXCEPT ![n] = c]
<1>1. /\ n # 0 /\ n \in Traces /\ n \in Numbers /\ j.trace[n] = Cur
      /\ p \in Saved(j) /\ t = Rt(j, p) /\ t \in Saved(j) /\ j.trace[t].root = 0 /\ t # 0
      /\ j.cur.nextroot = 0 /\ j.cur.nextside = 0 /\ j.cur.exit = 0
  BY TraceNumbers DEF Active, Grounded, ParentOK, CurOK, Heap, Slots, JRec
<1>2. /\ p \in Traces /\ j.trace[p] \in TraceRecs /\ t \in Traces /\ j.trace[t] \in TraceRecs
      /\ n # p /\ n # t /\ j.trace[t].nextside \in Numbers
  <2>1. p \in Traces /\ j.trace[p] \in TraceRecs /\ t \in Traces /\ j.trace[t] \in TraceRecs
    BY <1>1, SavedIsRecord
  <2> QED
    BY <1>1, <2>1 DEF Saved, TraceRecs, Numbers
<1>3. /\ c \in TraceRecs /\ c.link = j.cur.link /\ c.nextside = j.trace[t].nextside
      /\ c.nextroot = 0 /\ c.exit = 0 /\ c.root = t
  BY <1>1, <1>2 DEF JRec, TraceRecs, Numbers
<1>4. i = SetStop(j, x, c, j.chain, j.ins)
  <2>1. TraceRef(j, t) = j.trace[t]
    BY <1>1 DEF TraceRef, Saved
  <2> DEFINE side == [j EXCEPT !.trace[p].exit = n, !.cur.nextside = TraceRef(j, t).nextside,
                               !.trace[t].nextside = n]
             k == [side EXCEPT !.prot = "run"]
  <2>2. j.cur.op = "jmp" /\ i = [k EXCEPT !.trace[n] = k.cur, !.no = 0]
    BY DEF TraceStop, McodeCommit
  <2>3. side = [j EXCEPT !.trace = z, !.cur = c]
    <3> DEFINE a == [j EXCEPT !.trace[p].exit = n]
               b == [a EXCEPT !.cur.nextside = j.trace[t].nextside]
    <3>1. side = [b EXCEPT !.trace[t].nextside = n]
      BY <2>1
    <3>2. a = [j EXCEPT !.trace = y]
      OBVIOUS
    <3> HIDE DEF side, y, a
    <3>3. a.trace = y /\ a.cur = j.cur
      BY <3>2 DEF JRec
    <3>4. b = [a EXCEPT !.cur = c]
      BY <3>3
    <3> HIDE DEF b, c
    <3>5. b = [j EXCEPT !.trace = y, !.cur = c] /\ b.trace = y
      BY <3>2, <3>4 DEF JRec
    <3>6. side = [b EXCEPT !.trace = z]
      BY <3>1, <3>5
    <3> HIDE DEF z
    <3> QED
      BY <3>5, <3>6 DEF JRec
  <2> HIDE DEF side, z
  <2>4. k.trace = z /\ k.cur = c
    BY <2>3 DEF JRec
  <2> HIDE DEF k
  <2>5. i = [k EXCEPT !.trace = x, !.no = 0]
    BY <2>2, <2>4
  <2> HIDE DEF x, c
  <2> QED
    BY <2>3, <2>5, Zenon DEF SetStop, k, JRec
<1> HIDE DEF c
<1>5. ASSUME NEW a \in TraceRecs
      PROVE  /\ Ex(a) \in TraceRecs /\ Sd(a) \in TraceRecs
             /\ Ex(a).exit = n /\ Sd(a).nextside = n
             /\ Ex(a).nextside = a.nextside
             /\ Sd(a).exit = a.exit
             /\ Ex(a).pc = a.pc /\ Sd(a).pc = a.pc
             /\ Ex(a).root = a.root /\ Sd(a).root = a.root
             /\ Ex(a).link = a.link /\ Sd(a).link = a.link
             /\ Ex(a).nextroot = a.nextroot
             /\ Sd(a).nextroot = a.nextroot
  BY <1>1 DEF TraceRecs, Numbers
<1> HIDE DEF Ex, Sd
<1>6. /\ y \in [Traces -> TraceRecs \cup {Nil, Cur}]
      /\ y[p] = Ex(j.trace[p]) /\ \A m \in Traces \ {p} : y[m] = j.trace[m]
  BY <1>2, <1>5 DEF JRec
<1> HIDE DEF y
<1>7. y[t] \in TraceRecs
  BY <1>2, <1>5, <1>6
<1>8. /\ z \in [Traces -> TraceRecs \cup {Nil, Cur}]
      /\ z[t] = Sd(y[t]) /\ \A m \in Traces \ {t} : z[m] = y[m]
  BY <1>2, <1>5, <1>6, <1>7
<1> HIDE DEF z
<1>9. /\ x \in [Traces -> TraceRecs \cup {Nil, Cur}]
      /\ x[n] = c /\ \A m \in Traces \ {n} : x[m] = z[m]
  BY <1>1, <1>3, <1>8
<1> HIDE DEF x
<1>10. ASSUME NEW m \in Saved(j)
       PROVE  /\ x[m] \in TraceRecs /\ x[m].root = j.trace[m].root /\ x[m].pc = j.trace[m].pc
              /\ x[m].link = j.trace[m].link /\ x[m].nextroot = j.trace[m].nextroot
              /\ x[m].nextside = IF m = t THEN n ELSE j.trace[m].nextside
              /\ x[m].exit = IF m = p THEN n ELSE j.trace[m].exit
  <2>1. m \in Traces /\ m # n /\ j.trace[m] \in TraceRecs
    BY <1>1, SavedIsRecord DEF Saved
  <2>2. /\ y[m] \in TraceRecs /\ y[m].root = j.trace[m].root /\ y[m].pc = j.trace[m].pc
        /\ y[m].link = j.trace[m].link /\ y[m].nextroot = j.trace[m].nextroot
        /\ y[m].nextside = j.trace[m].nextside
        /\ y[m].exit = IF m = p THEN n ELSE j.trace[m].exit
    BY <1>5, <1>6, <2>1
  <2>3. /\ z[m] \in TraceRecs /\ z[m].root = y[m].root /\ z[m].pc = y[m].pc
        /\ z[m].link = y[m].link /\ z[m].nextroot = y[m].nextroot
        /\ z[m].exit = y[m].exit
        /\ z[m].nextside = IF m = t THEN n ELSE y[m].nextside
    BY <1>5, <1>8, <2>1, <2>2
  <2>4. x[m] = z[m]
    BY <1>9, <2>1
  <2> QED
    BY <2>2, <2>3, <2>4
<1>11. /\ i \in JRec /\ i.trace = x /\ i.chain = j.chain /\ i.ins = j.ins /\ StopElse(i, j)
  <2>1. j.chain \in [Protos -> Numbers] /\ j.ins \in [Pcs -> Inses]
    BY DEF JRec
  <2> QED
    BY <1>3, <1>4, <1>9, <2>1, SetStopFacts
<1>12. i.held = j.held /\ i.patch = j.patch /\ i.no = 0 /\ i.freetrace = j.freetrace
  BY <1>11 DEF StopElse
<1>13. Linked(j) /\ Live(j, r) /\ Slots(j)
  BY DEF Heap
<1>14. /\ Slots(i) /\ Saved(i) = Saved(j) \cup {n} /\ n \in Traces \ Saved(j)
  <2>1. ASSUME NEW m \in Traces, m # n
        PROVE  i.trace[m] = j.trace[m] \/ (m \in Saved(j) /\ i.trace[m] \in TraceRecs)
    BY <1>1, <1>6, <1>8, <1>9, <1>10, <1>11, <2>1
  <2>2. i.trace[n] \in TraceRecs
    BY <1>3, <1>9, <1>11
  <2> HIDE DEF n
  <2> QED
    BY <1>1, <1>12, <1>13, <2>1, <2>2, AddedSlots DEF n
<1>15. /\ i.trace[n].root = t /\ i.trace[n].nextroot = 0 /\ i.trace[n].exit = 0
       /\ i.trace[n].nextside = j.trace[t].nextside /\ i.trace[n].link = j.cur.link
  BY <1>3, <1>9, <1>11
<1>16. Added(i, j, n, 0)
  <2>1. \/ i.trace[n].link \in {0, n}
        \/ \E f \in Protos : i.trace[n].link \in Owned(j, f)
        \/ i.trace[n].link = t
    BY <1>15, NewLink
  <2>2. i.trace[n].link = t => LinkedToRoot(i, j, n)
    BY <1>1, <1>15 DEF LinkedToRoot
  <2> QED
    BY <1>10, <1>11, <1>12, <1>14, <1>15, <2>1, <2>2 DEF Added
<1>17. Live(i, r)
  <2>1. \A m \in Saved(j) :
          /\ i.trace[m].nextside = IF m = t THEN n ELSE j.trace[m].nextside
          /\ i.trace[m].exit = IF m = p THEN n ELSE j.trace[m].exit
    BY <1>10, <1>11
  <2> HIDE DEF n, p, t
  <2> QED
    BY <1>1, <1>11, <1>13, <1>15, <1>16, <2>1, LiveStopSide
<1>18. Linked(i)
  <2>1. ASSUME NEW f \in Protos, NEW m \in Owned(j, f)
        PROVE  /\ m \in Saved(i) /\ i.trace[m].pc = j.trace[m].pc
               /\ i.trace[m].root = j.trace[m].root /\ i.trace[m].nextroot = j.trace[m].nextroot
    BY <1>10, <1>11, <1>13, <1>14, OwnedSaved
  <2>2. \A m \in Saved(i) : i.trace[m].root = 0 => i.trace[m].pc \in Pcs
    BY <1>1, <1>10, <1>11, <1>13, <1>14, <1>15 DEF Linked
  <2> QED
    BY <1>11, <1>12, <1>13, <2>1, <2>2, LinkedSame
<1> QED
  BY <1>11, <1>14, <1>17, <1>18, StopHeapFacts

\* A stitched trace: the one that called the C function is linked to it.
LEMMA StopStitch ==
  ASSUME TraceAssumption, NEW j \in JRec, NEW r, Heap(j, r), Active(j), LinkRight(j),
         j.mcarea, j.cur.op = "call", NEW i, i = TraceStop(j)
  PROVE  StopHeap(i, j, r)
<1> DEFINE n == j.no
           s == j.exitno
           Ln(a) == [a EXCEPT !.link = n]
           z == [j.trace EXCEPT ![s] = Ln(j.trace[s])]
           x == [z EXCEPT ![n] = j.cur]
<1>1. /\ n # 0 /\ n \in Traces /\ n \in Numbers /\ j.trace[n] = Cur
      /\ s \in Saved(j) /\ j.cur.root = 0 /\ j.cur.pc \in Pcs
      /\ j.cur.nextroot = 0 /\ j.cur.nextside = 0 /\ j.cur.exit = 0 /\ j.cur \in TraceRecs
  BY TraceNumbers DEF Active, Grounded, CurOK, Heap, Slots, JRec, Kinds
<1>2. s \in Traces /\ j.trace[s] \in TraceRecs /\ n # s
  BY <1>1, SavedIsRecord DEF Saved
<1>3. i = SetStop(j, x, j.cur, j.chain, j.ins)
  <2> DEFINE side == [j EXCEPT !.trace[s].link = n]
             k == [side EXCEPT !.prot = "run"]
  <2>1. i = [k EXCEPT !.trace[n] = k.cur, !.no = 0]
    BY DEF TraceStop, McodeCommit
  <2>2. side = [j EXCEPT !.trace = z]
    OBVIOUS
  <2> HIDE DEF side, z
  <2>3. k.trace = z /\ k.cur = j.cur
    BY <2>2 DEF JRec
  <2> HIDE DEF k
  <2>4. i = [k EXCEPT !.trace = x, !.no = 0]
    BY <2>1, <2>3
  <2> HIDE DEF x
  <2> QED
    BY <2>2, <2>4, Zenon DEF SetStop, k, JRec
<1>4. ASSUME NEW a \in TraceRecs
      PROVE  /\ Ln(a) \in TraceRecs /\ Ln(a).link = n /\ Ln(a).nextside = a.nextside
             /\ Ln(a).exit = a.exit /\ Ln(a).pc = a.pc /\ Ln(a).root = a.root
             /\ Ln(a).nextroot = a.nextroot
  BY <1>1 DEF TraceRecs, Numbers
<1> HIDE DEF Ln
<1>5. /\ z \in [Traces -> TraceRecs \cup {Nil, Cur}]
      /\ z[s] = Ln(j.trace[s]) /\ \A m \in Traces \ {s} : z[m] = j.trace[m]
  BY <1>2, <1>4 DEF JRec
<1> HIDE DEF z
<1>6. /\ x \in [Traces -> TraceRecs \cup {Nil, Cur}]
      /\ x[n] = j.cur /\ \A m \in Traces \ {n} : x[m] = z[m]
  BY <1>1, <1>5
<1> HIDE DEF x
<1>7. ASSUME NEW m \in Saved(j)
      PROVE  /\ x[m] \in TraceRecs /\ x[m].root = j.trace[m].root /\ x[m].pc = j.trace[m].pc
             /\ x[m].link = IF m = s THEN n ELSE j.trace[m].link
             /\ x[m].nextroot = j.trace[m].nextroot
             /\ x[m].nextside = j.trace[m].nextside /\ x[m].exit = j.trace[m].exit
  <2>1. m \in Traces /\ m # n /\ j.trace[m] \in TraceRecs
    BY <1>1, SavedIsRecord DEF Saved
  <2> QED
    BY <1>4, <1>5, <1>6, <2>1
<1>8. /\ i \in JRec /\ i.trace = x /\ i.chain = j.chain /\ i.ins = j.ins /\ StopElse(i, j)
  <2>1. j.chain \in [Protos -> Numbers] /\ j.ins \in [Pcs -> Inses]
    BY DEF JRec
  <2> QED
    BY <1>1, <1>3, <1>6, <2>1, SetStopFacts
<1>9. i.held = j.held /\ i.patch = j.patch /\ i.no = 0 /\ i.freetrace = j.freetrace
  BY <1>8 DEF StopElse
<1>10. Linked(j) /\ Live(j, r) /\ Slots(j)
  BY DEF Heap
<1>11. /\ Slots(i) /\ Saved(i) = Saved(j) \cup {n} /\ n \in Traces \ Saved(j)
  <2>1. ASSUME NEW m \in Traces, m # n
        PROVE  i.trace[m] = j.trace[m] \/ (m \in Saved(j) /\ i.trace[m] \in TraceRecs)
    BY <1>1, <1>5, <1>6, <1>7, <1>8, <2>1
  <2>2. i.trace[n] \in TraceRecs
    BY <1>1, <1>6, <1>8
  <2> HIDE DEF n
  <2> QED
    BY <1>1, <1>9, <1>10, <2>1, <2>2, AddedSlots DEF n
<1>12. /\ i.trace[n].root = 0 /\ i.trace[n].nextroot = 0 /\ i.trace[n].exit = 0
       /\ i.trace[n].nextside = 0 /\ i.trace[n].link = j.cur.link
       /\ i.trace[n].pc \in Pcs /\ i.trace[s].link = n
  BY <1>1, <1>6, <1>7, <1>8
<1>13. Added(i, j, n, s)
  <2>1. \/ i.trace[n].link \in {0, n}
        \/ \E f \in Protos : i.trace[n].link \in Owned(j, f)
    BY <1>1, <1>12, NewLink
  <2> QED
    BY <1>7, <1>8, <1>9, <1>11, <1>12, <2>1 DEF Added
<1>14. Live(i, r)
  <2>1. \A m \in Saved(j) : /\ i.trace[m].nextside = j.trace[m].nextside
                            /\ i.trace[m].exit = j.trace[m].exit
    BY <1>7, <1>8
  <2>2. \A f \in Protos : i.chain[f] \in {n, j.chain[f]}
    BY <1>8
  <2> HIDE DEF n, s
  <2> QED
    BY <1>8, <1>10, <1>12, <1>13, <2>1, <2>2, LiveStopRoot
<1>15. Linked(i)
  <2>1. ASSUME NEW f \in Protos, NEW m \in Owned(j, f)
        PROVE  /\ m \in Saved(i) /\ i.trace[m].pc = j.trace[m].pc
               /\ i.trace[m].root = j.trace[m].root /\ i.trace[m].nextroot = j.trace[m].nextroot
    BY <1>7, <1>8, <1>10, <1>11, OwnedSaved
  <2>2. \A m \in Saved(i) : i.trace[m].root = 0 => i.trace[m].pc \in Pcs
    BY <1>7, <1>8, <1>10, <1>11, <1>12 DEF Linked
  <2> QED
    BY <1>8, <1>9, <1>10, <2>1, <2>2, LinkedSame
<1> QED
  BY <1>8, <1>11, <1>14, <1>15, StopHeapFacts

\* A root trace: its first instruction is patched, and it is put in front of the chain.
LEMMA StopRoot ==
  ASSUME TraceAssumption, NEW j \in JRec, NEW r, Heap(j, r), Active(j), LinkRight(j),
         j.mcarea, j.cur.op \notin {"jmp", "call"}, j.patch = Nil, NEW i, i = TraceStop(j)
  PROVE  StopHeap(i, j, r)
<1> DEFINE n == j.no
           q == j.cur.pc
           g == Proto[q]
           c == [j.cur EXCEPT !.nextroot = j.chain[g]]
           x == [j.trace EXCEPT ![n] = c]
           ch == [j.chain EXCEPT ![g] = n]
           v == [j.ins EXCEPT ![q] = Jit(n)]
<1>1. /\ n # 0 /\ n \in Traces /\ n \in Numbers /\ j.trace[n] = Cur
      /\ q \in Pcs /\ g \in Protos /\ Kind[q] # "call" /\ ~IsJit(j, q) /\ g \notin j.nojit
      /\ j.cur.nextside = 0 /\ j.cur.exit = 0 /\ j.cur.root = 0
      /\ j.cur \in TraceRecs /\ j.chain \in [Protos -> Numbers] /\ j.ins \in [Pcs -> Inses]
  <2>1. j.parent = 0 /\ j.exitno = 0
    BY DEF Active, Grounded
  <2> QED
    BY <2>1, TraceNumbers DEF Active, Grounded, CurOK, Heap, Slots, JRec, Protos
<1>2. /\ c \in TraceRecs /\ c.link = j.cur.link /\ c.nextside = 0
      /\ c.nextroot = j.chain[g] /\ c.exit = 0 /\ c.root = 0 /\ c.pc = q
  <2>1. j.chain[g] \in Numbers
    BY <1>1
  <2> QED
    BY <1>1, <2>1 DEF TraceRecs, Numbers
<1>3. i = SetStop(j, x, c, ch, v)
  <2> DEFINE root == [j EXCEPT !.ins[q] = Jit(n), !.cur.nextroot = j.chain[g], !.chain[g] = n]
             k == [root EXCEPT !.prot = "run"]
  <2>1. i = [k EXCEPT !.trace[n] = k.cur, !.no = 0]
    BY DEF TraceStop, McodeCommit
  <2>2. root = [j EXCEPT !.ins = v, !.cur = c, !.chain = ch]
    OBVIOUS
  <2> HIDE DEF root, v, c, ch
  <2>3. k.trace = j.trace /\ k.cur = c
    BY <2>2 DEF JRec
  <2> HIDE DEF k
  <2>4. i = [k EXCEPT !.trace = x, !.no = 0]
    BY <2>1, <2>3
  <2> HIDE DEF x
  <2> QED
    BY <2>2, <2>4, Zenon DEF SetStop, k, JRec
<1> HIDE DEF c
<1>4. /\ x \in [Traces -> TraceRecs \cup {Nil, Cur}]
      /\ x[n] = c /\ \A m \in Traces \ {n} : x[m] = j.trace[m]
  BY <1>1, <1>2 DEF JRec
<1>5. ch \in [Protos -> Numbers] /\ ch[g] = n /\ \A f \in Protos \ {g} : ch[f] = j.chain[f]
  BY <1>1
<1>6. /\ v \in [Pcs -> Inses] /\ v[q] = Jit(n) /\ \A p \in Pcs \ {q} : v[p] = j.ins[p]
  BY <1>1 DEF Inses, Jit
<1> HIDE DEF x, ch, v
<1>7. \A m \in Saved(j) : m # n /\ x[m] = j.trace[m] /\ x[m] \in TraceRecs
  BY <1>1, <1>4, SavedIsRecord DEF Saved
<1>8. /\ i \in JRec /\ i.trace = x /\ i.chain = ch /\ i.ins = v /\ StopElse(i, j)
  BY <1>2, <1>3, <1>4, <1>5, <1>6, SetStopFacts
<1>9. i.held = j.held /\ i.patch = j.patch /\ i.no = 0 /\ i.freetrace = j.freetrace
  BY <1>8 DEF StopElse
<1>10. Linked(j) /\ Live(j, r) /\ Slots(j)
  BY DEF Heap
<1>11. /\ Slots(i) /\ Saved(i) = Saved(j) \cup {n} /\ n \in Traces \ Saved(j)
  <2>1. ASSUME NEW m \in Traces, m # n
        PROVE  i.trace[m] = j.trace[m] \/ (m \in Saved(j) /\ i.trace[m] \in TraceRecs)
    BY <1>4, <1>8, <2>1
  <2>2. i.trace[n] \in TraceRecs
    BY <1>2, <1>4, <1>8
  <2> HIDE DEF n
  <2> QED
    BY <1>1, <1>9, <1>10, <2>1, <2>2, AddedSlots DEF n
<1>12. /\ i.trace[n].root = 0 /\ i.trace[n].nextroot = j.chain[g] /\ i.trace[n].exit = 0
       /\ i.trace[n].nextside = 0 /\ i.trace[n].link = j.cur.link /\ i.trace[n].pc = q
  BY <1>2, <1>4, <1>8
<1>13. Added(i, j, n, 0)
  <2>1. \/ i.trace[n].link \in {0, n}
        \/ \E f \in Protos : i.trace[n].link \in Owned(j, f)
    BY <1>1, <1>12, NewLink
  <2> QED
    BY <1>7, <1>8, <1>9, <1>11, <1>12, <2>1 DEF Added
<1>14. Live(i, r)
  <2>1. \A m \in Saved(j) : /\ i.trace[m].nextside = j.trace[m].nextside
                            /\ i.trace[m].exit = j.trace[m].exit
    BY <1>7, <1>8
  <2>2. \A f \in Protos : i.chain[f] \in {n, j.chain[f]}
    BY <1>5, <1>8
  <2>3. i.trace[n].nextroot = 0 \/ \E f \in Protos : i.trace[n].nextroot = j.chain[f]
    BY <1>1, <1>12
  <2>4. 0 \notin Saved(j)
    BY SavedIsRecord
  <2> HIDE DEF n, g
  <2> QED
    BY <1>10, <1>12, <1>13, <2>1, <2>2, <2>3, <2>4, LiveStopRoot
<1>15. Linked(i)
  <2>1. IsJit(i, q) /\ i.ins[q].d = n /\ \A p \in Pcs \ {q} : i.ins[p] = j.ins[p]
    BY <1>6, <1>8 DEF IsJit, Jit
  <2>2. \A f \in Protos : Owned(i, f) = IF f = g THEN Owned(j, f) \cup {n} ELSE Owned(j, f)
    BY <1>1, <1>9, <2>1 DEF Owned, IsJit
  <2>3. ASSUME NEW p \in Pcs, IsJit(i, p)
        PROVE  Begins(i, i.ins[p].d, p) /\ Kind[p] # "call"
    <3>1. CASE p = q
      BY <1>1, <1>11, <1>12, <2>1, <3>1 DEF Begins
    <3>2. CASE p # q
      <4>1. Begins(j, j.ins[p].d, p) /\ Kind[p] # "call" /\ i.ins[p].d = j.ins[p].d
        BY <1>10, <2>1, <2>3, <3>2 DEF Linked, IsJit
      <4> QED
        BY <1>7, <1>8, <1>11, <4>1 DEF Begins
    <3> QED
      BY <3>1, <3>2
  <2>4. \A p \in Pcs : ~IsJit(i, p) => i.ins[p].d = 0
    BY <1>10, <2>1 DEF Linked, IsJit
  <2>5. \A m \in Saved(i) : i.trace[m].root = 0 => i.trace[m].pc \in Pcs
    BY <1>1, <1>7, <1>8, <1>10, <1>11, <1>12 DEF Linked
  <2>6. ASSUME NEW f \in Protos
        PROVE  Path(Owned(i, f), i.chain[f], NextRoot(i))
    <3>1. Path(Owned(j, f), j.chain[f], NextRoot(j))
      BY <1>10 DEF Linked
    <3>2. \A m \in Owned(j, f) : m \in Saved(j) /\ m \in Traces
      BY <1>10, OwnedSaved
    <3>3. \A m \in Owned(j, f) : NextRoot(i)[m] = NextRoot(j)[m]
      BY <1>7, <1>8, <1>11, <3>2 DEF NextRoot
    <3>4. CASE f = g
      <4>1. NextRoot(i)[n] = j.chain[f] /\ n \notin Owned(j, f) /\ 0 \notin Owned(j, f)
        BY <1>11, <1>12, <3>2, <3>4, TraceNumbers DEF NextRoot
      <4>2. i.chain[f] = n
        BY <1>5, <1>8, <3>4
      <4>3. Path(Owned(j, f) \cup {n}, n, NextRoot(i))
        BY <1>1, <3>1, <3>3, <4>1, PathWithNew
      <4> QED
        BY <2>2, <3>4, <4>2, <4>3
    <3>5. CASE f # g
      <4>1. i.chain[f] = j.chain[f]
        BY <1>5, <1>8, <3>5
      <4>2. Path(Owned(j, f), j.chain[f], NextRoot(i))
        BY <3>1, <3>3, PathAgree
      <4> QED
        BY <2>2, <3>5, <4>1, <4>2
    <3> QED
      BY <3>4, <3>5
  <2>7. i.patch = Nil
    BY <1>9
  <2> QED
    BY <2>3, <2>4, <2>5, <2>6, <2>7 DEF Linked
<1>16. \A f \in j.nojit : i.chain[f] = j.chain[f]
  BY <1>1, <1>5, <1>8 DEF JRec
<1> QED
  BY <1>8, <1>11, <1>14, <1>15, <1>16, StopHeapFacts

\* trace_stop, for all three kinds of traces.
LEMMA TraceStopFacts ==
  ASSUME TraceAssumption, NEW j \in JRec, NEW r, Heap(j, r), Active(j), LinkRight(j),
         j.mcarea, j.patch = Nil, NEW i, i = TraceStop(j)
  PROVE  StopHeap(i, j, r)
<1>1. CASE j.cur.op = "jmp"
  <2>1. j.parent # 0
    BY <1>1 DEF Active, Grounded, Kinds
  <2> QED
    BY <1>1, <2>1, StopSide
<1>2. CASE j.cur.op = "call"
  BY <1>2, StopStitch
<1> QED
  BY <1>1, <1>2, StopRoot

-----------------------------------------------------------------------------
\* The state of the recorder changes, and the heap stays as it is.

\* All that the recorder sets of its own state.
SetRecording(j, s, e, c, pc, pt, p, x) ==
  [j EXCEPT !.state = s, !.err = e, !.cur = c, !.pc = pc, !.pt = pt, !.parent = p,
            !.exitno = x]
\* The compiler's switch, the state of the machine code areas and the frame.
SetAreas(j, on, mc, prot, held) ==
  [j EXCEPT !.on = on, !.mcarea = mc, !.prot = prot, !.held = held]

\* Traces and bytecode are the same.
SameTraces(i, j) ==
  /\ i.trace = j.trace /\ i.chain = j.chain /\ i.no = j.no /\ i.freetrace = j.freetrace
  /\ i.nojit = j.nojit /\ i.ins = j.ins /\ i.patch = j.patch /\ i.iloop = j.iloop
SameAreas(i, j) ==
  i.on = j.on /\ i.mcarea = j.mcarea /\ i.prot = j.prot /\ i.held = j.held
SameParent(i, j) ==
  i.parent = j.parent /\ i.exitno = j.exitno
SameStart(i, j) ==
  i.pc = j.pc /\ i.pt = j.pt /\ i.err = j.err

\* The values have the right types.
Values(s, e, c, pc, pt, p, x) ==
  /\ s \in JStates /\ e \in Errors /\ c \in TraceRecs /\ pc \in Pcs \cup {Nil}
  /\ pt \in Protos \cup {Nil} /\ p \in Numbers /\ x \in Numbers

\* The fields of a recording are set.
LEMMA SetRecordingFacts ==
  ASSUME NEW j \in JRec, NEW s, NEW e, NEW c, NEW pc, NEW pt, NEW p, NEW x,
         Values(s, e, c, pc, pt, p, x),
         NEW i, i = SetRecording(j, s, e, c, pc, pt, p, x)
  PROVE  /\ i \in JRec /\ SameTraces(i, j) /\ SameAreas(i, j)
         /\ i.state = s /\ i.err = e /\ i.cur = c /\ i.pc = pc /\ i.pt = pt
         /\ i.parent = p /\ i.exitno = x
<1>1. i \in JRec
  <2>1. /\ s \in JStates /\ e \in Errors /\ c \in TraceRecs /\ pc \in Pcs \cup {Nil}
        /\ pt \in Protos \cup {Nil} /\ p \in Numbers /\ x \in Numbers
    BY DEF Values
  <2> QED
    BY <2>1, Zenon DEF JRec, SetRecording
<1>2. /\ SameTraces(i, j) /\ SameAreas(i, j)
      /\ i.state = s /\ i.err = e /\ i.cur = c /\ i.pc = pc /\ i.pt = pt
      /\ i.parent = p /\ i.exitno = x
  BY DEF JRec, SetRecording, SameTraces, SameAreas
<1> QED
  BY <1>1, <1>2

Flags(on, mc, prot, held) ==
  /\ on \in BOOLEAN /\ mc \in BOOLEAN /\ prot \in {"run", "gen"}
  /\ held \in Numbers \cup {Nil}

\* The fields of the machine code areas are set.
LEMMA SetAreasFacts ==
  ASSUME NEW j \in JRec, NEW on, NEW mc, NEW prot, NEW held, Flags(on, mc, prot, held),
         NEW i, i = SetAreas(j, on, mc, prot, held)
  PROVE  /\ i \in JRec /\ SameTraces(i, j) /\ SameParent(i, j) /\ SameStart(i, j)
         /\ i.state = j.state /\ i.cur = j.cur
         /\ i.on = on /\ i.mcarea = mc /\ i.prot = prot /\ i.held = held
<1>1. i \in JRec
  <2> DEFINE a == [j EXCEPT !.on = on]
             b == [a EXCEPT !.mcarea = mc]
             k == [b EXCEPT !.prot = prot]
  <2>1. a \in JRec
    BY DEF JRec, Flags
  <2> HIDE DEF a
  <2>2. b \in JRec
    BY <2>1 DEF JRec, Flags
  <2> HIDE DEF b
  <2>3. k \in JRec
    BY <2>2 DEF JRec, Flags
  <2>4. i = [k EXCEPT !.held = held]
    BY DEF SetAreas, a, b
  <2> HIDE DEF k
  <2> QED
    BY <2>3, <2>4 DEF JRec, Flags
<1>2. /\ SameTraces(i, j) /\ SameParent(i, j) /\ SameStart(i, j)
      /\ i.state = j.state /\ i.cur = j.cur
      /\ i.on = on /\ i.mcarea = mc /\ i.prot = prot /\ i.held = held
  BY DEF JRec, SetAreas, SameTraces, SameParent, SameStart
<1> QED
  BY <1>1, <1>2

\* A change of these fields does not concern traces.
LEMMA SameTracesHeap ==
  ASSUME TraceAssumption, NEW i, NEW j, NEW r, Heap(j, r), SameTraces(i, j),
         i.held = j.held, j.mcarea => i.mcarea
  PROVE  Heap(i, r) /\ (\A f \in Protos : Owned(i, f) = Owned(j, f)) /\ Saved(i) = Saved(j)
<1>1. SameHeap(i, j) /\ i.ins = j.ins /\ i.patch = j.patch
  BY DEF SameTraces, SameHeap
<1>2. Saved(i) = Saved(j)
  BY DEF SameTraces, Saved
<1> QED
  BY <1>1, <1>2, HeapKept

\* The frame holds another trace, or none.
LEMMA HeldHeap ==
  ASSUME TraceAssumption, NEW i \in JRec, NEW j \in JRec, NEW r, NEW s, Heap(j, r),
         SameTraces(i, j), j.mcarea => i.mcarea, Live(i, s)
  PROVE  Heap(i, s) /\ Saved(i) = Saved(j)
<1>1. /\ i.trace = j.trace /\ i.chain = j.chain /\ i.no = j.no /\ i.freetrace = j.freetrace
      /\ i.nojit = j.nojit /\ i.ins = j.ins /\ i.patch = j.patch
  BY DEF SameTraces
<1>2. Saved(i) = Saved(j)
  BY <1>1 DEF Saved
<1>3. Linked(i)
  <2>1. ASSUME NEW f \in Protos, NEW n \in Owned(j, f)
        PROVE  n \in Saved(i)
    BY <1>2, OwnedSaved DEF Heap
  <2>2. \A n \in Saved(i) : i.trace[n].root = 0 => i.trace[n].pc \in Pcs
    BY <1>1, <1>2 DEF Heap, Linked
  <2> QED
    BY <1>1, <2>1, <2>2, LinkedSame DEF Heap
<1>4. Slots(i)
  <2>1. /\ \A n \in Traces : j.trace[n] = Cur <=> j.no = n
        /\ \A n \in Traces : n < j.freetrace => j.trace[n] # Nil
    BY DEF Heap, Slots
  <2> QED
    BY <1>1, <2>1 DEF Slots
<1>5. \A f \in i.nojit : i.chain[f] = 0
  BY <1>1 DEF Heap
<1>6. Saved(i) # {} => i.mcarea
  BY <1>2, Zenon DEF Heap
<1> QED
  BY <1>2, <1>3, <1>4, <1>5, <1>6 DEF Heap

-----------------------------------------------------------------------------
\* A recording goes on.

\* What does not change while it does.
SameCur(i, j) ==
  /\ i.cur.op = j.cur.op /\ i.cur.pc = j.cur.pc /\ i.cur.root = j.cur.root
  /\ i.cur.nextroot = j.cur.nextroot /\ i.cur.nextside = j.cur.nextside
  /\ i.cur.exit = j.cur.exit

Recording(j) == j.no # 0 /\ CurOK(j) /\ Grounded(j)

\* A recording depends on its parent, its root and its own bytecode.
LEMMA RecordingKept ==
  ASSUME NEW i, NEW j, Recording(j), i.no = j.no, SameParent(i, j), SameCur(i, j),
         i.nojit \subseteq j.nojit,
         \A m \in {j.parent, j.exitno, j.cur.root} :
           m \in Saved(j) => m \in Saved(i) /\ i.trace[m].root = j.trace[m].root,
         j.parent = 0 /\ j.exitno = 0 =>
           ~IsJit(i, j.cur.pc) /\ (i.patch # Nil => i.patch.pc # j.cur.pc)
  PROVE  Recording(i)
<1>1. CurOK(i)
  BY DEF Recording, CurOK, SameCur
<1>2. ASSUME i.parent # 0
      PROVE  i.cur.op = "jmp" /\ ParentOK(i) /\ i.cur.root = Rt(i, i.parent)
  <2>1. j.cur.op = "jmp" /\ ParentOK(j) /\ j.cur.root = Rt(j, j.parent) /\ i.parent = j.parent
    BY <1>2 DEF Recording, Grounded, SameParent
  <2>2. j.parent \in Saved(j) /\ j.cur.root \in Saved(j) /\ j.trace[j.cur.root].root = 0
    BY <2>1 DEF ParentOK
  <2>3. /\ j.parent \in Saved(i) /\ i.trace[j.parent].root = j.trace[j.parent].root
        /\ j.cur.root \in Saved(i) /\ i.trace[j.cur.root].root = 0
    BY <2>2
  <2>4. Rt(i, i.parent) = j.cur.root
    BY <2>1, <2>3 DEF Rt
  <2> QED
    BY <2>1, <2>3, <2>4 DEF ParentOK, SameCur
<1>3. ASSUME i.exitno # 0
      PROVE  i.cur.op = "call" /\ i.exitno \in Saved(i) /\ i.parent = 0
  BY <1>3 DEF Recording, Grounded, SameParent, SameCur
<1>4. ASSUME i.parent = 0, i.exitno = 0
      PROVE  /\ i.cur.op \in Kinds \ {"call"} /\ ~IsJit(i, i.cur.pc)
             /\ Proto[i.cur.pc] \notin i.nojit
             /\ i.patch # Nil => i.patch.pc # i.cur.pc
  BY <1>4 DEF Recording, Grounded, SameParent, SameCur
<1> QED
  BY <1>1, <1>2, <1>3, <1>4 DEF Recording, Grounded

\* Only the recorder's own state changes.
LEMMA RecordingSame ==
  ASSUME NEW i, NEW j, Recording(j), SameTraces(i, j), SameParent(i, j), SameCur(i, j)
  PROVE  Recording(i)
<1>1. i.no = j.no /\ i.trace = j.trace /\ i.ins = j.ins /\ i.patch = j.patch
      /\ i.nojit = j.nojit /\ Saved(i) = Saved(j)
  BY DEF SameTraces, Saved
<1>2. j.parent = 0 /\ j.exitno = 0 =>
        ~IsJit(i, j.cur.pc) /\ (i.patch # Nil => i.patch.pc # j.cur.pc)
  BY <1>1 DEF Recording, Grounded, IsJit
<1> QED
  BY <1>1, <1>2, RecordingKept

\* A J instruction is unpatched for the recorder, or put back.
LEMMA RecordingRebound ==
  ASSUME NEW i, NEW j, Recording(j), Rebound(i, j),
         i.patch # Nil => IsJit(j, i.patch.pc) \/ (j.patch # Nil /\ i.patch.pc = j.patch.pc)
  PROVE  Recording(i) /\ (LinkRight(j) => LinkRight(i))
<1>1. /\ i.no = j.no /\ i.trace = j.trace /\ i.nojit = j.nojit /\ i.cur = j.cur
      /\ SameParent(i, j) /\ Saved(i) = Saved(j)
  BY DEF Rebound, SameRest, SameParent, Saved
<1>2. ASSUME j.parent = 0, j.exitno = 0
      PROVE  ~IsJit(i, j.cur.pc) /\ (i.patch # Nil => i.patch.pc # j.cur.pc)
  <2>1. /\ j.cur.op \in Kinds /\ ~IsJit(j, j.cur.pc) /\ (j.patch # Nil => j.patch.pc # j.cur.pc)
    BY <1>2 DEF Recording, Grounded
  <2>2. j.cur.pc \in Pcs
    BY <2>1 DEF Recording, CurOK
  <2> QED
    BY <2>1, <2>2 DEF Rebound
<1>3. SameCur(i, j)
  BY <1>1 DEF SameCur
<1>4. Recording(i)
  BY <1>1, <1>2, <1>3, RecordingKept
<1>5. LinkRight(j) => LinkRight(i)
  BY <1>1 DEF LinkRight, Rebound
<1> QED
  BY <1>4, <1>5

\* A trace that has nothing to do with it is flushed.
LEMMA RecordingShrunk ==
  ASSUME NEW i, NEW j, Recording(j), j.patch = Nil, Shrunk(i, j)
  PROVE  Recording(i)
<1>1. /\ i.no = j.no /\ i.nojit = j.nojit /\ i.cur = j.cur /\ i.patch = Nil
      /\ SameParent(i, j) /\ Saved(i) = Saved(j)
  BY DEF Shrunk, SameElse, SameRecording, SameParent
<1>2. \A m \in Saved(j) : i.trace[m].root = j.trace[m].root
  BY DEF Shrunk, SameTrace
<1>3. ASSUME j.parent = 0, j.exitno = 0
      PROVE  ~IsJit(i, j.cur.pc)
  <2>1. j.cur.op \in Kinds /\ ~IsJit(j, j.cur.pc)
    BY <1>3 DEF Recording, Grounded
  <2>2. j.cur.pc \in Pcs
    BY <2>1 DEF Recording, CurOK
  <2> QED
    BY <2>1, <2>2 DEF Shrunk, IsJit, Orig
<1>4. SameCur(i, j)
  BY <1>1 DEF SameCur
<1> QED
  BY <1>1, <1>2, <1>3, <1>4, RecordingKept

-----------------------------------------------------------------------------
\* What the recorder may do with an instruction.

\* A recording that may go on, end or fail.
Goes(i, j) ==
  /\ i \in JRec /\ Heap(i, 0) /\ Active(i) /\ SameAreas(i, j)
  /\ i.state \in {"record", "end", "err"}

\* What RecordStop sets in the trace.
Linking(c, l, n) == [c EXCEPT !.linktype = l, !.link = n]

\* The recorder sets link and linktype of the current trace.
LEMMA CurFields ==
  ASSUME TraceAssumption, NEW c \in TraceRecs, NEW l \in LinkTypes, NEW n \in Numbers,
         NEW d, d = Linking(c, l, n)
  PROVE  /\ d \in TraceRecs /\ d.link = n /\ d.linktype = l
         /\ d.op = c.op /\ d.pc = c.pc /\ d.root = c.root /\ d.nextroot = c.nextroot
         /\ d.nextside = c.nextside /\ d.exit = c.exit
BY DEF TraceRecs, Numbers, Linking

\* An error is thrown by recorder or assembler.
LEMMA ThrowFacts ==
  ASSUME TraceAssumption, NEW j \in JRec, NEW r, Heap(j, r), Recording(j), NEW e \in Errors,
         NEW i, i = Throw(j, e), e # "downrec", e = "mcodelm" => LinkRight(j)
  PROVE  /\ i \in JRec /\ Heap(i, r) /\ Active(i) /\ SameAreas(i, j) /\ i.state = "err"
         /\ i.err = e
<1>1. i = SetRecording(j, "err", e, j.cur, j.pc, j.pt, j.parent, j.exitno)
  BY DEF Throw, SetRecording, JRec
<1>2. /\ i \in JRec /\ SameTraces(i, j) /\ SameAreas(i, j) /\ i.state = "err" /\ i.err = e
      /\ i.cur = j.cur /\ i.parent = j.parent /\ i.exitno = j.exitno
  <2>1. Values("err", e, j.cur, j.pc, j.pt, j.parent, j.exitno)
    BY DEF JRec, JStates, Values
  <2> QED
    BY <1>1, <2>1, SetRecordingFacts
<1>3. Heap(i, r) /\ \A f \in Protos : Owned(i, f) = Owned(j, f)
  BY <1>2, SameTracesHeap DEF SameAreas
<1>4. Recording(i)
  BY <1>2, RecordingSame DEF SameParent, SameCur
<1>5. LinkRight(j) => LinkRight(i)
  <2>1. i.no = j.no
    BY <1>2 DEF SameTraces
  <2> QED
    BY <1>2, <1>3, <2>1 DEF LinkRight
<1> QED
  BY <1>2, <1>3, <1>4, <1>5 DEF Active, Recording, DownRec

\* lj_record_stop.
LEMMA RecordStopFacts ==
  ASSUME TraceAssumption, NEW j \in JRec, Heap(j, 0), Recording(j), NEW l \in LinkTypes,
         NEW n, n \in {0, j.no, j.cur.root} \/ \E f \in Protos : n \in Owned(j, f),
         NEW i, i = RecordStop(j, l, n)
  PROVE  Goes(i, j) /\ i.state = "end" /\ i.patch = j.patch /\ i.ins = j.ins
<1> DEFINE d == Linking(j.cur, l, n)
<1>1. i = SetRecording(j, "end", j.err, d, j.pc, j.pt, j.parent, j.exitno)
  BY DEF RecordStop, SetRecording, JRec, Linking
<1>2. n \in Numbers
  <2>1. j.no \in Numbers /\ j.cur.root \in Numbers
    <3>1. j.no \in Numbers /\ j.cur \in TraceRecs
      BY DEF JRec
    <3> QED
      BY <3>1 DEF TraceRecs, Numbers
  <2>2. \A f \in Protos : n \in Owned(j, f) => n \in Numbers
    BY OwnedSaved, TraceNumbers DEF Heap
  <2> QED
    BY <2>1, <2>2, TraceNumbers
<1>3. /\ d \in TraceRecs /\ d.link = n
      /\ d.op = j.cur.op /\ d.pc = j.cur.pc /\ d.root = j.cur.root
      /\ d.nextroot = j.cur.nextroot /\ d.nextside = j.cur.nextside /\ d.exit = j.cur.exit
  <2>1. j.cur \in TraceRecs
    BY DEF JRec
  <2> QED
    BY <1>2, <2>1, CurFields
<1> HIDE DEF d
<1>4. /\ i \in JRec /\ SameTraces(i, j) /\ SameAreas(i, j) /\ i.state = "end"
      /\ i.cur = d /\ i.parent = j.parent /\ i.exitno = j.exitno
  <2>1. Values("end", j.err, d, j.pc, j.pt, j.parent, j.exitno)
    BY <1>3 DEF JRec, JStates, Values
  <2> QED
    BY <1>1, <1>3, <2>1, SetRecordingFacts
<1>5. Heap(i, 0) /\ \A f \in Protos : Owned(i, f) = Owned(j, f)
  BY <1>4, SameTracesHeap DEF SameAreas
<1>6. Recording(i)
  BY <1>3, <1>4, RecordingSame DEF SameParent, SameCur
<1>7. i.no = j.no /\ i.patch = j.patch /\ i.ins = j.ins
  BY <1>4 DEF SameTraces
<1>8. LinkRight(i)
  BY <1>3, <1>4, <1>5, <1>7 DEF LinkRight
<1>9. Active(i)
  BY <1>4, <1>6, <1>8 DEF Active, Recording
<1> QED
  BY <1>4, <1>5, <1>7, <1>9 DEF Goes

\* An instruction is unpatched, and the recording goes on behind it.
LEMMA UnpatchForGoes ==
  ASSUME TraceAssumption, NEW j \in JRec, Heap(j, 0), Active(j), j.patch = Nil,
         j.state \in {"record", "end"}, NEW p \in Pcs, IsJit(j, p), NEW skip \in BOOLEAN,
         NEW i, i = UnpatchFor(j, p, skip)
  PROVE  Goes(i, j)
<1>1. i \in JRec /\ Linked(i) /\ Rebound(i, j) /\ i.patch # Nil /\ i.patch.pc = p
  BY UnpatchForFacts DEF Heap
<1>2. Heap(i, 0)
  BY <1>1, HeapRebound
<1>3. Recording(j) /\ (j.state = "end" => LinkRight(j)) /\ (j.state = "record" => j.cur.link = 0)
  BY DEF Active, Recording
<1>4. Recording(i) /\ (LinkRight(j) => LinkRight(i))
  BY <1>1, <1>3, RecordingRebound
<1>5. i.state = j.state /\ i.cur = j.cur /\ SameAreas(i, j)
  BY <1>1 DEF Rebound, SameRest, SameAreas
<1>6. Active(i)
  BY <1>3, <1>4, <1>5 DEF Active, Recording
<1> QED
  BY <1>1, <1>2, <1>5, <1>6 DEF Goes

\* A trace that only returns is called too deep: it is flushed.
LEMMA FlushGoes ==
  ASSUME TraceAssumption, NEW j \in JRec, Heap(j, 0), Recording(j), j.patch = Nil,
         NEW n \in Traces, NEW i, i = Throw(FlushTrace(j, n), "other")
  PROVE  Goes(i, j)
<1> DEFINE k == FlushTrace(j, n)
<1>1. CurBegins(j)
  BY DEF CurBegins, Recording, CurOK, Grounded
<1>2. k \in JRec /\ Heap(k, 0) /\ Shrunk(k, j)
  BY <1>1, FlushesHeap
<1> HIDE DEF k
<1>3. Recording(k)
  BY <1>2, RecordingShrunk
<1>4. SameAreas(k, j)
  BY <1>2 DEF Shrunk, SameElse, SameRecording, SameAreas
<1>5. "other" \in Errors
  BY DEF Errors
<1>6. i \in JRec /\ Heap(i, 0) /\ Active(i) /\ SameAreas(i, k) /\ i.state = "err"
  BY <1>2, <1>3, <1>5, ThrowFacts DEF k
<1> QED
  BY <1>4, <1>6 DEF Goes, SameAreas

\* Loops of returns.
LEMMA DownRecGoes ==
  ASSUME TraceAssumption, NEW j \in JRec, Heap(j, 0), Active(j), j.state = "record",
         NEW p \in Pcs, Kind[p] = "ret", Proto[p] \notin j.nojit,
         j.cur.op \in {"ret", "call"},
         NEW i, i = Throw([j EXCEPT !.pc = p, !.pt = Proto[p]], "downrec")
  PROVE  Goes(i, j)
<1>1. i = SetRecording(j, "err", "downrec", j.cur, p, Proto[p], j.parent, j.exitno)
  BY DEF Throw, SetRecording, JRec
<1>2. /\ i \in JRec /\ SameTraces(i, j) /\ SameAreas(i, j) /\ i.state = "err"
      /\ i.err = "downrec" /\ i.pc = p /\ i.pt = Proto[p]
      /\ i.cur = j.cur /\ i.parent = j.parent /\ i.exitno = j.exitno
  <2>1. Values("err", "downrec", j.cur, p, Proto[p], j.parent, j.exitno)
    BY DEF JRec, JStates, Errors, Protos, Values
  <2> QED
    BY <1>1, <2>1, SetRecordingFacts
<1>3. Heap(i, 0)
  BY <1>2, SameTracesHeap DEF SameAreas
<1>4. Recording(i)
  BY <1>2, RecordingSame DEF SameParent, SameCur, Active, Recording
<1>5. i.nojit = j.nojit
  BY <1>2 DEF SameTraces
<1>6. DownRec(i)
  BY <1>2, <1>5 DEF DownRec, AtPc
<1>7. Active(i)
  BY <1>2, <1>4, <1>6 DEF Active, Recording
<1> QED
  BY <1>2, <1>3, <1>7 DEF Goes

\* Whatever instruction is recorded, the recording goes on, ends or fails.
LEMMA RecordedGoes ==
  ASSUME TraceAssumption, NEW j \in JRec, Heap(j, 0), Active(j), j.state = "record",
         NEW first, NEW i \in Recorded(j, first)
  PROVE  Goes(i, j)
<1>1. Recording(j) /\ j.cur.link = 0 /\ SameAreas(j, j) /\ Goes(j, j)
  BY DEF Active, Recording, SameAreas, Goes
<1>2. {"none", "root", "loop", "rec", "downrec", "stitch", "return", "interp"} = LinkTypes
  BY DEF LinkTypes
<1>3. "other" \in Errors
  BY DEF Errors
<1>4. ASSUME NEW l \in LinkTypes
      PROVE  /\ Goes(RecordStop(j, l, 0), j) /\ Goes(RecordStop(j, l, j.no), j)
             /\ \A k \in StopAtSelf(j, l) :
                  Goes(k, j) /\ k.state = "end" /\ k.patch = j.patch /\ k.ins = j.ins
  <2>1. Goes(RecordStop(j, l, 0), j) /\ Goes(RecordStop(j, l, j.no), j)
    BY <1>1, RecordStopFacts
  <2>2. ASSUME NEW k \in StopAtSelf(j, l)
        PROVE  Goes(k, j) /\ k.state = "end" /\ k.patch = j.patch /\ k.ins = j.ins
    <3>1. PICK n \in {j.no, j.cur.root} : k = RecordStop(j, l, n)
      BY <2>2 DEF StopAtSelf
    <3> QED
      BY <1>1, <3>1, RecordStopFacts
  <2> QED
    BY <2>1, <2>2
<1>5. Goes(Throw(j, "other"), j)
  <2> DEFINE k == Throw(j, "other")
  <2>1. k \in JRec /\ Heap(k, 0) /\ Active(k) /\ SameAreas(k, j) /\ k.state = "err"
    BY <1>1, <1>3, ThrowFacts
  <2> QED
    BY <2>1 DEF Goes
<1>6. CASE i \in RecOther(j)
  BY <1>1, <1>2, <1>4, <1>5, <1>6 DEF RecOther
<1>7. CASE i \in RecLoopInterp(j, first)
  BY <1>2, <1>4, <1>7 DEF RecLoopInterp
<1>8. ASSUME j.patch = Nil, i \in RecCompiled(j)
      PROVE  Goes(i, j)
  <2>1. PICK p \in Pcs : /\ IsJit(j, p)
                         /\ i \in IF Kind[p] = "func" THEN RecFuncJit(j, p) ELSE RecLoopJit(j, p)
    BY <1>8 DEF RecCompiled
  <2> DEFINE d == j.ins[p].d
  <2>2. Proto[p] \in Protos /\ d \in Owned(j, Proto[p]) /\ d \in Traces
    <3>1. Proto[p] \in Protos /\ d \in Owned(j, Proto[p])
      BY <2>1 DEF Owned, Protos
    <3> QED
      BY <3>1, OwnedSaved DEF Heap
  <2>3. Goes(RecordStop(j, "root", d), j)
    BY <1>1, <1>2, <2>2, RecordStopFacts
  <2>4. ASSUME i \in RecLoopJit(j, p)
        PROVE  Goes(i, j)
    BY <1>2, <1>4, <2>3, <2>4 DEF RecLoopJit
  <2>5. ASSUME i \in RecFuncJit(j, p)
        PROVE  Goes(i, j)
    <3> DEFINE own == IF j.parent # 0 THEN StopAtSelf(j, "rec") ELSE {}
    <3>1. \/ i \in {UnpatchFor(k, p, FALSE) : k \in {j} \cup own}
          \/ i = Throw(FlushTrace(j, d), "other")
          \/ i = RecordStop(j, "root", d)
          \/ i \in StopAtSelf(j, "rec")
      BY <2>5 DEF RecFuncJit
    <3>2. CASE i = UnpatchFor(j, p, FALSE)
      BY <1>8, <2>1, <3>2, UnpatchForGoes
    <3>3. ASSUME NEW k \in StopAtSelf(j, "rec"), i = UnpatchFor(k, p, FALSE)
          PROVE  Goes(i, j)
      <4>1. Goes(k, j) /\ k.state = "end" /\ k.patch = j.patch /\ k.ins = j.ins
        BY <1>2, <1>4
      <4>2. /\ k \in JRec /\ Heap(k, 0) /\ Active(k) /\ k.patch = Nil /\ IsJit(k, p)
            /\ SameAreas(k, j)
        BY <1>8, <2>1, <4>1 DEF Goes, IsJit
      <4>3. Goes(i, k)
        BY <3>3, <4>1, <4>2, UnpatchForGoes
      <4> QED
        BY <4>2, <4>3 DEF Goes, SameAreas
    <3>4. CASE i = Throw(FlushTrace(j, d), "other")
      BY <1>1, <1>8, <2>2, <3>4, FlushGoes
    <3> QED
      BY <1>2, <1>4, <2>3, <3>1, <3>2, <3>3, <3>4
  <2> QED
    BY <2>1, <2>4, <2>5
<1>9. CASE i \in RecCall(j)
  BY <1>2, <1>4, <1>9 DEF RecCall
<1>10. CASE i \in RecReturn(j)
  <2>1. j.cur.root = 0 /\ (IsRoot(j) => j.cur.op = "ret")
    BY <1>10 DEF RecReturn
  <2>2. PICK p \in Pcs : /\ Kind[p] = "ret" /\ Proto[p] \notin j.nojit
                         /\ \/ i = RecordStop(j, "downrec", j.no)
                            \/ i = Throw([j EXCEPT !.pc = p, !.pt = Proto[p]], "downrec")
    BY <1>10 DEF RecReturn
  <2>3. j.cur.op \in {"ret", "call"}
    BY <1>1, <2>1 DEF IsRoot, Recording, CurOK, Grounded
  <2> QED
    BY <1>2, <1>4, <2>2, <2>3, DownRecGoes
<1> QED
  BY <1>6, <1>7, <1>8, <1>9, <1>10 DEF Recorded

-----------------------------------------------------------------------------
\* Steps of the recorder

\* Only the state is set.
LEMMA SetStateFacts ==
  ASSUME NEW j \in JRec, NEW s \in JStates, NEW i, i = [j EXCEPT !.state = s]
  PROVE  /\ i \in JRec /\ SameTraces(i, j) /\ SameAreas(i, j) /\ SameParent(i, j)
         /\ SameStart(i, j) /\ i.cur = j.cur /\ i.state = s
<1>1. i \in JRec
  BY DEF JRec
<1> QED
  BY <1>1 DEF JRec, SameTraces, SameAreas, SameParent, SameStart

\* The same, for the state of a recording.
LEMMA SetStateRecording ==
  ASSUME TraceAssumption, NEW j \in JRec, NEW r, Heap(j, r), Recording(j), NEW s \in JStates,
         NEW i, i = [j EXCEPT !.state = s]
  PROVE  /\ i \in JRec /\ Heap(i, r) /\ Recording(i) /\ SameAreas(i, j) /\ SameParent(i, j)
         /\ SameStart(i, j) /\ i.cur = j.cur /\ i.state = s /\ i.patch = j.patch
         /\ (LinkRight(j) => LinkRight(i)) /\ i.no = j.no /\ i.nojit = j.nojit
<1>1. /\ i \in JRec /\ SameTraces(i, j) /\ SameAreas(i, j) /\ SameParent(i, j)
      /\ SameStart(i, j) /\ i.cur = j.cur /\ i.state = s
  BY SetStateFacts
<1>2. i.no = j.no /\ i.nojit = j.nojit /\ i.patch = j.patch
  BY <1>1 DEF SameTraces
<1>3. Heap(i, r) /\ \A f \in Protos : Owned(i, f) = Owned(j, f)
  BY <1>1, SameTracesHeap DEF SameAreas
<1>4. Recording(i)
  BY <1>1, RecordingSame DEF SameCur
<1>5. LinkRight(j) => LinkRight(i)
  BY <1>1, <1>2, <1>3 DEF LinkRight
<1> QED
  BY <1>1, <1>2, <1>3, <1>4, <1>5

\* A J instruction is put back in the middle of a recording.
LEMMA PendPatchRecording ==
  ASSUME TraceAssumption, NEW j \in JRec, Heap(j, 0), Recording(j), NEW force \in BOOLEAN,
         NEW i, i = PendPatch(j, force)
  PROVE  /\ i \in JRec /\ Heap(i, 0) /\ Recording(i) /\ (LinkRight(j) => LinkRight(i))
         /\ SameRest(i, j) /\ (force => i.patch = Nil) /\ (i.patch # Nil => j.patch # Nil)
<1>1. /\ i \in JRec /\ Linked(i) /\ Rebound(i, j)
      /\ (force => i.patch = Nil)
      /\ (i.patch # Nil => j.patch # Nil /\ i.patch.pc = j.patch.pc)
  BY PendPatchFacts DEF Heap
<1>2. Heap(i, 0)
  BY <1>1, HeapRebound
<1>3. Recording(i) /\ (LinkRight(j) => LinkRight(i))
  BY <1>1, RecordingRebound
<1> QED
  BY <1>1, <1>2, <1>3 DEF Rebound

\* Back to the interpreter, nothing is left of the recording.
LEMMA ForgetFacts ==
  ASSUME TraceAssumption, NEW j \in JRec, Heap(j, 0), j.no = 0, j.patch = Nil,
         j.state = "idle", NEW i, i = Forget(j)
  PROVE  i \in JRec /\ Heap(i, 0) /\ Idle(i) /\ SameAreas(i, j)
<1>1. i = SetRecording(j, "idle", "none", NoTrace, Nil, Nil, 0, 0)
  BY DEF Forget, SetRecording, JRec
<1>2. Values("idle", "none", NoTrace, Nil, Nil, 0, 0)
  <2>1. 0 \in 0..MaxTrace /\ "none" \in LinkTypes
    BY TraceNumbers DEF Numbers, LinkTypes
  <2>2. NoTrace \in TraceRecs
    BY <2>1 DEF NoTrace, TraceRecs
  <2> QED
    BY <2>1, <2>2 DEF Values, JStates, Errors, Numbers
<1>3. /\ i \in JRec /\ SameTraces(i, j) /\ SameAreas(i, j) /\ i.state = "idle"
      /\ i.parent = 0 /\ i.exitno = 0
  BY <1>1, <1>2, SetRecordingFacts
<1>4. Heap(i, 0)
  BY <1>3, SameTracesHeap DEF SameAreas
<1>5. i.no = 0 /\ i.patch = Nil
  BY <1>3 DEF SameTraces
<1> QED
  BY <1>3, <1>4, <1>5 DEF Idle

\* trace_state returns, or goes on.
LEMMA ThenGood ==
  ASSUME TraceAssumption, NEW j \in JRec, Heap(j, 0), Then(j),
         (j.state = "idle" /\ j.no = 0 /\ j.patch = Nil) \/ Active(j),
         j.prot = "run" \/ (j.state = "err" /\ j.mcarea)
  PROVE  Good(J', at', run')
<1>1. run' = 0 /\ 0 \in Numbers
  BY TraceNumbers DEF Then
<1>2. CASE j.state = "idle"
  <2>1. J' = Forget(j) /\ at' = "interp"
    BY <1>2 DEF Then
  <2>2. j.no = 0 /\ j.patch = Nil /\ j.prot = "run"
    BY <1>2 DEF Active
  <2>3. J' \in JRec /\ Heap(J', 0) /\ Idle(J') /\ SameAreas(J', j)
    BY <1>2, <2>1, <2>2, ForgetFacts
  <2>4. Phase(J', at') /\ Areas(J', at')
    BY <2>1, <2>2, <2>3 DEF Phase, Areas, SameAreas
  <2> QED
    BY <1>1, <2>1, <2>3, <2>4 DEF Good
<1>3. CASE j.state # "idle"
  <2>1. J' = j /\ Active(j)
    BY <1>3 DEF Then
  <2>2. \/ at' = "jit" /\ j.state \notin {"record", "off"}
        \/ at' = "interp" /\ j.state \in {"record", "off"}
    BY <1>3 DEF Then
  <2>3. Phase(J', at')
    BY <2>1, <2>2 DEF Phase
  <2>4. Areas(J', at')
    BY <2>1, <2>2 DEF Areas
  <2>5. at' \in {"interp", "jit"}
    BY <2>2
  <2> QED
    BY <1>1, <2>1, <2>3, <2>4, <2>5 DEF Good
<1> QED
  BY <1>2, <1>3

\* A recording, as the trace compiler works on it.
LEMMA ActiveState ==
  ASSUME TraceAssumption, IInv,
         \/ at = "jit" /\ J.state \in {"first", "record", "end", "asm"}
         \/ at = "interp" /\ J.state = "record"
  PROVE  J \in JRec /\ run = 0 /\ Heap(J, 0) /\ Active(J) /\ Recording(J) /\ J.prot = "run"
<1>1. J \in JRec /\ run = 0 /\ Heap(J, 0)
  BY DEF IInv, Good
<1>2. J.prot = "run"
  BY DEF IInv, Good, Areas
<1>3. Active(J)
  BY DEF IInv, Good, Phase, Idle, NotStarted
<1> QED
  BY <1>1, <1>2, <1>3 DEF Active, Recording

\* An instruction is recorded.
LEMMA RecordStep ==
  ASSUME TraceAssumption, IInv, Record
  PROVE  IInv'
<1> DEFINE a == [J EXCEPT !.state = "record"]
           b == PendPatch(a, FALSE)
<1>1. J.state \in {"first", "record"} /\ (at = "jit" \/ (at = "interp" /\ J.state = "record"))
  BY DEF Record
<1>2. /\ J \in JRec /\ Heap(J, 0) /\ Active(J) /\ Recording(J) /\ J.prot = "run"
  BY <1>1, ActiveState
<1>3. J.cur.link = 0 /\ "record" \in JStates
  BY <1>1, <1>2 DEF Active, JStates
<1>4. /\ a \in JRec /\ Heap(a, 0) /\ Recording(a) /\ a.state = "record" /\ a.cur = J.cur
      /\ a.prot = "run"
  BY <1>2, <1>3, SetStateRecording DEF SameAreas
<1>5. PICK k \in Recorded(b, J.state = "first") : Then(k)
  BY DEF Record
<1> HIDE DEF a
<1>6. /\ b \in JRec /\ Heap(b, 0) /\ Recording(b) /\ b.state = "record" /\ b.cur.link = 0
      /\ b.prot = "run"
  <2>1. FALSE \in BOOLEAN
    OBVIOUS
  <2>2. b \in JRec /\ Heap(b, 0) /\ Recording(b) /\ SameRest(b, a)
    BY <1>4, <2>1, PendPatchRecording, Zenon DEF b
  <2> QED
    BY <1>3, <1>4, <2>2 DEF SameRest
<1> HIDE DEF b
<1>7. Active(b)
  BY <1>6 DEF Active, Recording
<1>8. Goes(k, b)
  BY <1>5, <1>6, <1>7, RecordedGoes
<1>9. k \in JRec /\ Heap(k, 0) /\ Active(k) /\ k.prot = "run"
  BY <1>6, <1>8 DEF Goes, SameAreas
<1>10. Good(J', at', run')
  BY <1>5, <1>9, ThenGood
<1> QED
  BY <1>10 DEF IInv

\* The recording has ended and is optimized.
LEMMA EndStep ==
  ASSUME TraceAssumption, IInv, End
  PROVE  IInv'
<1> DEFINE j == PendPatch(J, TRUE)
<1>1. /\ J \in JRec /\ Heap(J, 0) /\ Active(J) /\ Recording(J) /\ J.prot = "run"
      /\ J.state = "end"
  BY ActiveState DEF End
<1>2. LinkRight(J)
  BY <1>1 DEF Active
<1>3. /\ j \in JRec /\ Heap(j, 0) /\ Recording(j) /\ LinkRight(j) /\ j.patch = Nil
      /\ j.prot = "run"
  <2>1. TRUE \in BOOLEAN
    OBVIOUS
  <2>2. /\ j \in JRec /\ Heap(j, 0) /\ Recording(j) /\ LinkRight(j) /\ j.patch = Nil
        /\ SameRest(j, J)
    BY <1>1, <1>2, <2>1, PendPatchRecording, Zenon
  <2> QED
    BY <1>1, <2>2 DEF SameRest
<1>4. \/ Then([j EXCEPT !.state = "asm"])
      \/ Then(Throw(j, "other"))
      \/ Then([j EXCEPT !.state = "record", !.cur.link = 0, !.cur.linktype = "none"])
  BY DEF End
<1> HIDE DEF j
<1>5. ASSUME Then([j EXCEPT !.state = "asm"])
      PROVE  Good(J', at', run')
  <2> DEFINE k == [j EXCEPT !.state = "asm"]
  <2>1. "asm" \in JStates
    BY DEF JStates
  <2>2. /\ k \in JRec /\ Heap(k, 0) /\ Recording(k) /\ k.state = "asm" /\ LinkRight(k)
        /\ k.prot = "run" /\ k.patch = Nil
    BY <1>3, <2>1, SetStateRecording DEF SameAreas
  <2> HIDE DEF k
  <2>3. Active(k)
    BY <2>2 DEF Active, Recording
  <2> QED
    BY <1>5, <2>2, <2>3, ThenGood DEF k
<1>6. ASSUME Then(Throw(j, "other"))
      PROVE  Good(J', at', run')
  <2> DEFINE k == Throw(j, "other")
  <2>1. "other" \in Errors
    BY DEF Errors
  <2>2. /\ k \in JRec /\ Heap(k, 0) /\ Active(k) /\ k.prot = "run"
    BY <1>3, <2>1, ThrowFacts DEF SameAreas
  <2> HIDE DEF k
  <2> QED
    BY <1>6, <2>2, ThenGood DEF k
<1>7. ASSUME Then([j EXCEPT !.state = "record", !.cur.link = 0, !.cur.linktype = "none"])
      PROVE  Good(J', at', run')
  <2> DEFINE d == Linking(j.cur, "none", 0)
             k == SetRecording(j, "record", j.err, d, j.pc, j.pt, j.parent, j.exitno)
  <2>1. k = [j EXCEPT !.state = "record", !.cur.link = 0, !.cur.linktype = "none"]
    <3> DEFINE c == [j.cur EXCEPT !.link = 0, !.linktype = "none"]
    <3>1. [j EXCEPT !.state = "record", !.cur.link = 0, !.cur.linktype = "none"]
            = [j EXCEPT !.state = "record", !.cur = c]
      BY <1>3 DEF JRec
    <3>2. c = d
      BY <1>3 DEF Linking, JRec, TraceRecs
    <3> HIDE DEF c, d
    <3>3. [j EXCEPT !.state = "record", !.cur = d] = k
      BY <1>3 DEF SetRecording, JRec
    <3> QED
      BY <3>1, <3>2, <3>3
  <2>2. /\ d \in TraceRecs /\ d.link = 0
        /\ d.op = j.cur.op /\ d.pc = j.cur.pc /\ d.root = j.cur.root
        /\ d.nextroot = j.cur.nextroot /\ d.nextside = j.cur.nextside /\ d.exit = j.cur.exit
    <3>1. j.cur \in TraceRecs /\ "none" \in LinkTypes /\ 0 \in Numbers
      BY <1>3, TraceNumbers DEF JRec, LinkTypes
    <3> QED
      BY <3>1, CurFields
  <2> HIDE DEF d
  <2>3. Values("record", j.err, d, j.pc, j.pt, j.parent, j.exitno)
    BY <1>3, <2>2 DEF JRec, JStates, Values
  <2>4. /\ k \in JRec /\ SameTraces(k, j) /\ SameAreas(k, j) /\ k.state = "record"
        /\ k.cur = d /\ SameParent(k, j)
    BY <1>3, <2>3, SetRecordingFacts DEF SameParent
  <2> HIDE DEF k
  <2>5. Heap(k, 0)
    BY <1>3, <2>4, SameTracesHeap DEF SameAreas
  <2>6. Recording(k)
    BY <1>3, <2>2, <2>4, RecordingSame DEF SameCur
  <2>7. k.patch = Nil /\ k.prot = "run"
    BY <1>3, <2>4 DEF SameTraces, SameAreas
  <2>8. Active(k)
    BY <2>2, <2>4, <2>6, <2>7 DEF Active, Recording
  <2>9. Then(k)
    BY <1>7, <2>1
  <2> QED
    BY <2>4, <2>5, <2>7, <2>8, <2>9, ThenGood
<1> QED
  BY <1>4, <1>5, <1>6, <1>7 DEF IInv

-----------------------------------------------------------------------------
\* The end of a trace

\* Nothing is recorded any more, and machine code is executable.
Over(j) == j.no = 0 /\ j.patch = Nil /\ j.prot = "run"

\* Back to the interpreter.
LEMMA ToIdleGood ==
  ASSUME TraceAssumption, NEW j \in JRec, Heap(j, 0), Over(j), NEW w, ToIdle(j, w)
  PROVE  Good(J', at', run')
<1> DEFINE k == [j EXCEPT !.state = "idle"]
<1>1. Then(k)
  BY DEF ToIdle
<1>2. "idle" \in JStates
  BY DEF JStates
<1>3. k \in JRec /\ SameTraces(k, j) /\ SameAreas(k, j) /\ k.state = "idle"
  BY <1>2, SetStateFacts
<1> HIDE DEF k
<1>4. Heap(k, 0)
  BY <1>3, SameTracesHeap DEF SameAreas
<1>5. k.no = 0 /\ k.patch = Nil /\ k.prot = "run"
  BY <1>3 DEF SameTraces, SameAreas, Over
<1> QED
  BY <1>1, <1>3, <1>4, <1>5, ThenGood

\* A handler is called.
LEMMA ToHandlerGood ==
  ASSUME TraceAssumption, NEW e \in Handlers, NEW j \in JRec, Heap(j, 0), j.prot = "run",
         Phase(j, e), ToHandler(e, j)
  PROVE  Good(J', at', run')
<1>1. J' = j /\ at' = e /\ run' = 0 /\ 0 \in Numbers
  BY TraceNumbers DEF ToHandler
<1>2. e # "mcode"
  BY DEF TraceAssumption, VmEvents
<1> QED
  BY <1>1, <1>2 DEF Good, Areas

\* An area gets its memory, is made writable or executable.
LEMMA SetAreasRecording ==
  ASSUME TraceAssumption, NEW j \in JRec, NEW r, Heap(j, r), Recording(j),
         NEW mc, NEW prot, Flags(j.on, mc, prot, j.held), j.mcarea => mc,
         NEW i, i = SetAreas(j, j.on, mc, prot, j.held)
  PROVE  /\ i \in JRec /\ Heap(i, r) /\ Recording(i) /\ i.state = j.state /\ i.cur = j.cur
         /\ (LinkRight(j) => LinkRight(i)) /\ i.patch = j.patch /\ i.mcarea = mc
         /\ i.prot = prot /\ SameParent(i, j) /\ SameStart(i, j) /\ i.no = j.no
         /\ i.nojit = j.nojit /\ i.held = j.held /\ i.on = j.on /\ Saved(i) = Saved(j)
<1>2. /\ i \in JRec /\ SameTraces(i, j) /\ SameParent(i, j) /\ SameStart(i, j)
      /\ i.state = j.state /\ i.cur = j.cur
      /\ i.on = j.on /\ i.mcarea = mc /\ i.prot = prot /\ i.held = j.held
  BY SetAreasFacts
<1>3. Heap(i, r) /\ (\A f \in Protos : Owned(i, f) = Owned(j, f)) /\ Saved(i) = Saved(j)
  BY <1>2, SameTracesHeap
<1>4. Recording(i)
  BY <1>2, RecordingSame DEF SameCur
<1>5. i.no = j.no /\ i.patch = j.patch /\ i.nojit = j.nojit
  BY <1>2 DEF SameTraces
<1>6. LinkRight(j) => LinkRight(i)
  BY <1>2, <1>3, <1>5 DEF LinkRight
<1> QED
  BY <1>2, <1>3, <1>4, <1>5, <1>6

\* The assembler has an area, or fails.
Assembling(i) ==
  /\ i \in JRec /\ Heap(i, 0) /\ Active(i) /\ i.patch = Nil
  /\ \/ i.state = "asm" /\ LinkRight(i) /\ i.mcarea
     \/ i.state = "err" /\ i.err # "downrec" /\ (i.prot = "run" \/ i.mcarea)

\* The assembler fails.
LEMMA ThrowAssembling ==
  ASSUME TraceAssumption, NEW j \in JRec, Heap(j, 0), Recording(j), LinkRight(j),
         j.patch = Nil, j.prot = "run" \/ j.mcarea, NEW e \in {"other", "mcodeal", "mcodelm"}
  PROVE  Assembling(Throw(j, e)) /\ Throw(j, e).state = "err"
<1> DEFINE k == Throw(j, e)
<1>1. e \in Errors /\ e # "downrec"
  BY DEF Errors
<1>2. /\ k \in JRec /\ Heap(k, 0) /\ Active(k) /\ SameAreas(k, j) /\ k.state = "err"
      /\ k.err # "downrec"
  BY <1>1, ThrowFacts
<1>3. k.patch = Nil
  BY DEF Throw, JRec
<1> HIDE DEF k
<1> QED
  BY <1>2, <1>3 DEF Assembling, SameAreas, k

\* The assembler has an area when it succeeds.
LEMMA AssembledFacts ==
  ASSUME TraceAssumption, NEW j \in JRec, Heap(j, 0), Active(j), LinkRight(j),
         j.state = "asm", j.patch = Nil, j.prot = "run", NEW i \in Assembled(j)
  PROVE  Assembling(i)
<1>1. Recording(j)
  BY DEF Active, Recording
<1>2. PICK k \in Reserve(j) :
        \/ k.state = "err" /\ i = k
        \/ k.state # "err" /\ i \in {k, Throw(k, "other")} \cup LimitErr(k)
  BY DEF Assembled
<1> DEFINE a == SetAreas(j, j.on, TRUE, "gen", j.held)
<1>3. k = a \/ k = Throw(j, "mcodeal")
  <2>1. CASE j.mcarea
    <3>1. k = [j EXCEPT !.prot = "gen"]
      BY <1>2, <2>1 DEF Reserve
    <3>2. j.mcarea = TRUE
      BY <2>1 DEF JRec
    <3> QED
      BY <3>1, <3>2 DEF SetAreas, JRec
  <2>2. CASE ~j.mcarea
    <3>1. k = [j EXCEPT !.mcarea = TRUE, !.prot = "gen"] \/ k = Throw(j, "mcodeal")
      BY <1>2, <2>2 DEF Reserve
    <3> QED
      BY <3>1 DEF SetAreas, JRec
  <2> QED
    BY <2>1, <2>2
<1>4. CASE k = Throw(j, "mcodeal")
  <2>1. Assembling(Throw(j, "mcodeal")) /\ Throw(j, "mcodeal").state = "err"
    BY <1>1, ThrowAssembling
  <2> QED
    BY <1>2, <1>4, <2>1
<1>5. CASE k = a
  <2>1. /\ k \in JRec /\ Heap(k, 0) /\ Recording(k) /\ LinkRight(k) /\ k.state = "asm"
        /\ k.patch = Nil /\ k.mcarea = TRUE
    <3> DEFINE mc == TRUE
    <3>1. Flags(j.on, mc, "gen", j.held) /\ (j.mcarea => mc)
      BY DEF JRec, Flags
    <3>2. k = SetAreas(j, j.on, mc, "gen", j.held)
      BY <1>5
    <3> HIDE DEF mc, a
    <3>3. /\ k \in JRec /\ Heap(k, 0) /\ Recording(k) /\ (LinkRight(j) => LinkRight(k))
          /\ k.state = j.state /\ k.patch = j.patch /\ k.mcarea = mc
      BY <1>1, <3>1, <3>2, SetAreasRecording
    <3> QED
      BY <3>3 DEF mc
  <2>2. Assembling(k)
    BY <2>1 DEF Assembling, Active, Recording
  <2>3. /\ Assembling(Throw(k, "other")) /\ Assembling(Throw(k, "mcodelm"))
    BY <2>1, ThrowAssembling
  <2> DEFINE b == [k EXCEPT !.prot = "run"]
  <2>4. b = SetAreas(k, k.on, k.mcarea, "run", k.held)
    BY <2>1 DEF SetAreas, JRec
  <2>5. /\ b \in JRec /\ Heap(b, 0) /\ Recording(b) /\ LinkRight(b) /\ b.patch = Nil
        /\ b.prot = "run"
    <3> DEFINE mc == k.mcarea
    <3>1. Flags(k.on, mc, "run", k.held) /\ (k.mcarea => mc)
      BY <2>1 DEF JRec, Flags
    <3>2. b = SetAreas(k, k.on, mc, "run", k.held)
      BY <2>4
    <3> HIDE DEF b, mc
    <3>3. /\ b \in JRec /\ Heap(b, 0) /\ Recording(b) /\ (LinkRight(k) => LinkRight(b))
          /\ b.patch = k.patch /\ b.prot = "run"
      BY <2>1, <3>1, <3>2, SetAreasRecording
    <3> QED
      BY <2>1, <3>3
  <2> HIDE DEF b
  <2>6. Assembling(Throw(b, "other")) /\ Assembling(Throw(b, "mcodeal"))
    BY <2>5, ThrowAssembling
  <2>7. LimitErr(k) = {Throw(b, "other"), Throw(b, "mcodeal"), Throw(k, "mcodelm")}
    BY DEF LimitErr, b
  <2> QED
    BY <1>2, <2>1, <2>2, <2>3, <2>6, <2>7
<1> QED
  BY <1>3, <1>4, <1>5

\* The trace is assembled.
LEMMA AsmStep ==
  ASSUME TraceAssumption, IInv, Asm
  PROVE  IInv'
<1>1. /\ J \in JRec /\ Heap(J, 0) /\ Active(J) /\ J.prot = "run" /\ J.state = "asm"
  BY ActiveState DEF Asm
<1>2. LinkRight(J) /\ J.patch = Nil
  BY <1>1 DEF Active
<1>3. PICK k \in Assembled(J) :
        IF k.state = "err" THEN Then(k) /\ UNCHANGED vm
        ELSE IF "stop" \in Handlers THEN ToHandler("stop", TraceStop(k))
        ELSE ToIdle(TraceStop(k), vm)
  BY DEF Asm
<1>4. Assembling(k)
  BY <1>1, <1>2, <1>3, AssembledFacts
<1>5. CASE k.state = "err"
  <2>1. Then(k)
    BY <1>3, <1>5
  <2>2. k \in JRec /\ Heap(k, 0) /\ Active(k) /\ (k.prot = "run" \/ k.mcarea)
    BY <1>4, <1>5 DEF Assembling
  <2> QED
    BY <1>5, <2>1, <2>2, ThenGood DEF IInv
<1>6. CASE k.state # "err"
  <2> DEFINE i == TraceStop(k)
  <2>1. /\ k \in JRec /\ Heap(k, 0) /\ Active(k) /\ LinkRight(k) /\ k.mcarea
        /\ k.patch = Nil /\ k.state = "asm"
    BY <1>4, <1>6 DEF Assembling
  <2>2. StopHeap(i, k, 0)
    BY <2>1, TraceStopFacts
  <2>3. \/ "stop" \in Handlers /\ ToHandler("stop", i)
        \/ ToIdle(i, vm)
    BY <1>3, <1>6
  <2> HIDE DEF i
  <2>4. i \in JRec /\ Heap(i, 0) /\ Over(i) /\ i.state = "asm"
    BY <2>1, <2>2 DEF StopHeap, StopElse, Over
  <2>5. ASSUME "stop" \in Handlers, ToHandler("stop", i)
        PROVE  IInv'
    <3>1. Phase(i, "stop")
      BY <2>4 DEF Phase, Stopped, Over
    <3> QED
      BY <2>4, <2>5, <3>1, ToHandlerGood DEF IInv, Over
  <2>6. ASSUME ToIdle(i, vm)
        PROVE  IInv'
    BY <2>4, <2>6, ToIdleGood DEF IInv
  <2> QED
    BY <2>3, <2>5, <2>6
<1> QED
  BY <1>5, <1>6

-----------------------------------------------------------------------------
\* The start of a trace

\* What can be recorded, apart from the slot.
Startable(j) ==
  \/ j.parent # 0 /\ j.exitno = 0 /\ ParentOK(j)
  \/ j.parent = 0 /\ j.exitno \in Saved(j) /\ j.pc \in Pcs /\ Kind[j.pc] = "call"
  \/ /\ j.parent = 0 /\ j.exitno = 0 /\ j.pc \in Pcs /\ Kind[j.pc] # "call"
     /\ ~IsJit(j, j.pc) /\ Proto[j.pc] \notin j.nojit

\* The trace as trace_start sets it up.
Fresh(j, c) ==
  /\ c \in TraceRecs /\ c.link = 0 /\ c.nextroot = 0 /\ c.nextside = 0 /\ c.exit = 0
  /\ j.parent # 0 => c.op = "jmp" /\ c.root = Rt(j, j.parent)
  /\ j.parent = 0 => c.op = Kind[j.pc] /\ c.pc = j.pc /\ c.root = 0

\* It has begun.
Begun(i, j) ==
  /\ i \in JRec /\ Heap(i, 0) /\ Active(i) /\ i.patch = Nil /\ SameAreas(i, j)
  /\ SameParent(i, j) /\ (i.state = "err" => i.err # "downrec")

\* The current trace is set up for what is recorded.
LEMMA FreshBegins ==
  ASSUME TraceAssumption, NEW j \in JRec, Heap(j, 0), j.no # 0, j.patch = Nil, Startable(j),
         NEW c, Fresh(j, c), NEW s \in {"record", "first", "end", "err"},
         NEW e \in Errors, e = "other" \/ s # "err",
         NEW i, i = SetRecording(j, s, e, c, j.pc, j.pt, j.parent, j.exitno)
  PROVE  Begun(i, j) /\ i.state = s
<1>1. Values(s, e, c, j.pc, j.pt, j.parent, j.exitno)
  BY DEF JRec, JStates, Values, Fresh
<1>2. /\ i \in JRec /\ SameTraces(i, j) /\ SameAreas(i, j) /\ i.state = s /\ i.err = e
      /\ i.cur = c /\ SameParent(i, j)
  BY <1>1, SetRecordingFacts DEF SameParent
<1>3. Heap(i, 0) /\ Saved(i) = Saved(j)
  BY <1>2, SameTracesHeap DEF SameAreas
<1>4. /\ i.no = j.no /\ i.trace = j.trace /\ i.nojit = j.nojit /\ i.ins = j.ins
      /\ i.patch = Nil
  BY <1>2 DEF SameTraces
<1>5. i.parent = j.parent /\ i.exitno = j.exitno
  BY <1>2 DEF SameParent
<1>6. CurOK(i)
  <2>1. CASE j.parent # 0
    <3>1. c.op = "jmp" /\ c.root = Rt(j, j.parent) /\ j.parent \in Saved(j)
      BY <2>1 DEF Fresh, Startable, ParentOK
    <3>2. c.root # 0
      BY <3>1, RootNumber
    <3> QED
      BY <1>2, <3>1, <3>2 DEF CurOK, Fresh, Kinds
  <2>2. CASE j.parent = 0
    <3>1. c.op = Kind[j.pc] /\ c.pc = j.pc /\ c.root = 0 /\ j.pc \in Pcs
      BY <2>2 DEF Fresh, Startable
    <3>2. Kind[j.pc] \in Kinds
      BY <3>1 DEF TraceAssumption
    <3> QED
      BY <1>2, <3>1, <3>2 DEF CurOK, Fresh, Kinds
  <2> QED
    BY <2>1, <2>2
<1>7. Grounded(i)
  <2>1. ASSUME i.parent # 0
        PROVE  i.cur.op = "jmp" /\ ParentOK(i) /\ i.cur.root = Rt(i, i.parent)
    <3>1. c.op = "jmp" /\ c.root = Rt(j, j.parent) /\ ParentOK(j)
      BY <1>5, <2>1 DEF Fresh, Startable
    <3>2. Rt(i, i.parent) = Rt(j, j.parent)
      BY <1>4, <1>5 DEF Rt
    <3> QED
      BY <1>2, <1>3, <1>4, <1>5, <3>1, <3>2 DEF ParentOK
  <2>2. ASSUME i.exitno # 0
        PROVE  i.cur.op = "call" /\ i.exitno \in Saved(i) /\ i.parent = 0
    BY <1>2, <1>3, <1>5, <2>2 DEF Fresh, Startable
  <2>3. ASSUME i.parent = 0, i.exitno = 0
        PROVE  /\ i.cur.op \in Kinds \ {"call"} /\ ~IsJit(i, i.cur.pc)
               /\ Proto[i.cur.pc] \notin i.nojit
    <3>1. /\ c.op = Kind[j.pc] /\ c.pc = j.pc /\ j.pc \in Pcs
          /\ Kind[j.pc] # "call" /\ ~IsJit(j, j.pc) /\ Proto[j.pc] \notin j.nojit
      <4>1. 0 \notin Saved(j)
        BY SavedIsRecord
      <4> QED
        BY <1>5, <2>3, <4>1 DEF Fresh, Startable
    <3>2. Kind[j.pc] \in Kinds
      BY <3>1 DEF TraceAssumption
    <3> QED
      BY <1>2, <1>4, <3>1, <3>2 DEF IsJit
  <2> QED
    BY <1>4, <2>1, <2>2, <2>3 DEF Grounded
<1>8. LinkRight(i) /\ i.cur.link = 0
  BY <1>2 DEF LinkRight, Fresh
<1>9. Active(i)
  BY <1>2, <1>4, <1>6, <1>7, <1>8 DEF Active, DownRec
<1> QED
  BY <1>2, <1>3, <1>4, <1>9 DEF Begun

\* lj_record_setup.
LEMMA SetupFacts ==
  ASSUME TraceAssumption, NEW j \in JRec, Heap(j, 0), j.no # 0, j.patch = Nil, Startable(j),
         j.state = "record", NEW i \in Setup(j)
  PROVE  Begun(i, j) /\ i.state # "idle"
<1>1. /\ "other" \in Errors /\ j.err \in Errors /\ 0 \in 0..MaxTrace /\ 0 \notin Saved(j)
      /\ {"none", "interp"} \subseteq LinkTypes
  BY TraceNumbers, SavedIsRecord DEF JRec, Errors, Numbers, LinkTypes
<1>2. CASE j.parent # 0
  <2> DEFINE root == Rt(j, j.parent)
             c == [NoTrace EXCEPT !.op = "jmp", !.root = root]
             d == [c EXCEPT !.linktype = "interp"]
             k == [j EXCEPT !.cur = c]
  <2>1. j.parent \in Saved(j)
    BY <1>2 DEF Startable, ParentOK
  <2>2. root \in 0..MaxTrace
    BY <2>1, RootNumber, TraceNumbers DEF Numbers
  <2>3. Fresh(j, c) /\ Fresh(j, d)
    BY <1>1, <1>2, <2>2 DEF Fresh, NoTrace, TraceRecs
  <2>4. i \in {k, Throw(k, "other"), [k EXCEPT !.state = "end", !.cur.linktype = "interp"]}
    <3>1. TraceRef(j, j.parent) = j.trace[j.parent]
      BY <2>1 DEF TraceRef, Saved
    <3>2. root = IF TraceRef(j, j.parent).root # 0 THEN TraceRef(j, j.parent).root ELSE j.parent
      BY <3>1 DEF Rt
    <3> QED
      BY <1>2, <3>2 DEF Setup
  <2> HIDE DEF root, c
  <2>5. \/ i = SetRecording(j, "record", j.err, c, j.pc, j.pt, j.parent, j.exitno)
        \/ i = SetRecording(j, "err", "other", c, j.pc, j.pt, j.parent, j.exitno)
        \/ i = SetRecording(j, "end", j.err, d, j.pc, j.pt, j.parent, j.exitno)
    <3>1. [k EXCEPT !.state = "end", !.cur.linktype = "interp"]
            = [j EXCEPT !.cur = d, !.state = "end"]
      BY DEF JRec
    <3> HIDE DEF d
    <3>2. [j EXCEPT !.cur = d, !.state = "end"]
            = SetRecording(j, "end", j.err, d, j.pc, j.pt, j.parent, j.exitno)
      BY DEF SetRecording, JRec
    <3>3. k = SetRecording(j, "record", j.err, c, j.pc, j.pt, j.parent, j.exitno)
      BY DEF SetRecording, JRec
    <3>4. Throw(k, "other")
            = SetRecording(j, "err", "other", c, j.pc, j.pt, j.parent, j.exitno)
      BY DEF SetRecording, JRec, Throw
    <3> QED
      BY <2>4, <3>1, <3>2, <3>3, <3>4
  <2> HIDE DEF d, k
  <2> QED
    BY <1>1, <2>3, <2>5, FreshBegins
<1>3. CASE j.parent = 0
  <2> DEFINE c == [NoTrace EXCEPT !.pc = j.pc, !.op = Kind[j.pc]]
             k == [j EXCEPT !.cur = c]
  <2>1. j.pc \in Pcs /\ Kind[j.pc] \in Kinds
    BY <1>3 DEF Startable, TraceAssumption
  <2>2. Fresh(j, c)
    BY <1>1, <1>3, <2>1 DEF Fresh, NoTrace, TraceRecs
  <2>3. i \in {k, [k EXCEPT !.state = "first"], Throw(k, "other")}
    BY <1>3 DEF Setup
  <2> HIDE DEF c
  <2>4. \/ i = SetRecording(j, "record", j.err, c, j.pc, j.pt, j.parent, j.exitno)
        \/ i = SetRecording(j, "first", j.err, c, j.pc, j.pt, j.parent, j.exitno)
        \/ i = SetRecording(j, "err", "other", c, j.pc, j.pt, j.parent, j.exitno)
    <3>1. k = SetRecording(j, "record", j.err, c, j.pc, j.pt, j.parent, j.exitno)
      BY DEF SetRecording, JRec
    <3>2. [k EXCEPT !.state = "first"]
            = SetRecording(j, "first", j.err, c, j.pc, j.pt, j.parent, j.exitno)
      BY DEF SetRecording, JRec
    <3>3. Throw(k, "other")
            = SetRecording(j, "err", "other", c, j.pc, j.pt, j.parent, j.exitno)
      BY DEF SetRecording, JRec, Throw
    <3> QED
      BY <2>3, <3>1, <3>2, <3>3
  <2> HIDE DEF k
  <2> QED
    BY <1>1, <2>2, <2>4, FreshBegins
<1> QED
  BY <1>2, <1>3

\* A trace starts, or it is not started.
StartResult(i, j) ==
  /\ i \in JRec /\ Heap(i, 0) /\ i.prot = j.prot /\ i.patch = Nil /\ SameParent(i, j)
  /\ i.on = j.on
  /\ \/ i.state = "idle" /\ i.no = 0 /\ i.cur = j.cur
     \/ i.state # "idle" /\ Active(i) /\ (i.state = "err" => i.err # "downrec")

\* trace_start: a recording, or none.
LEMMA TraceStartFacts ==
  ASSUME TraceAssumption, NEW j \in JRec, Heap(j, 0), CanStart(j), j.state = "record",
         NEW i \in TraceStart(j)
  PROVE  StartResult(i, j)
<1> DEFINE n == FindFree(j)
           idle == [j EXCEPT !.state = "idle"]
<1>1. j.no = 0 /\ j.patch = Nil
  BY DEF CanStart
<1>2. /\ idle \in JRec /\ SameTraces(idle, j) /\ SameAreas(idle, j) /\ SameParent(idle, j)
      /\ idle.cur = j.cur /\ idle.state = "idle"
  <2>1. "idle" \in JStates
    BY DEF JStates
  <2> QED
    BY <2>1, SetStateFacts
<1>3. \/ j.pt \in j.nojit /\ i = ToILoop(idle, j.pc) /\ IsRoot(j)
      \/ i = idle
      \/ i = FlushAll(idle)
      \/ /\ j.pt \notin j.nojit /\ ~(j.parent = 0 /\ IsJit(j, j.pc)) /\ n # 0
         /\ i \in Setup(Taken(j, n))
  BY DEF TraceStart, Taken
<1> HIDE DEF idle, n
<1>4. Heap(idle, 0) /\ idle.no = 0 /\ idle.patch = Nil /\ idle.prot = j.prot /\ idle.on = j.on
  BY <1>1, <1>2, SameTracesHeap DEF SameTraces, SameAreas
<1>5. CASE i = idle
  BY <1>2, <1>4, <1>5 DEF StartResult
<1>6. CASE j.pt \in j.nojit /\ i = ToILoop(idle, j.pc) /\ IsRoot(j)
  <2>1. j.pc \in Pcs /\ ~IsJit(j, j.pc)
    <3>1. 0 \notin Saved(j)
      BY SavedIsRecord
    <3> QED
      BY <1>6, <3>1 DEF CanStart, IsRoot, AtPc
  <2>2. ~IsJit(idle, j.pc)
    BY <1>2, <2>1 DEF SameTraces, IsJit
  <2>3. i \in JRec /\ Linked(i) /\ Rebound(i, idle) /\ i.patch = Nil
    BY <1>2, <1>4, <1>6, <2>1, <2>2, ToILoopFacts DEF Heap
  <2>4. Heap(i, 0)
    BY <1>4, <2>3, HeapRebound
  <2>5. /\ i.state = "idle" /\ i.no = 0 /\ i.cur = j.cur /\ i.prot = j.prot
        /\ i.parent = j.parent /\ i.exitno = j.exitno /\ i.on = j.on
    BY <1>2, <1>4, <2>3 DEF Rebound, SameRest, SameParent
  <2> QED
    BY <2>3, <2>4, <2>5 DEF StartResult, SameParent
<1>7. CASE i = FlushAll(idle)
  <2>1. CurBegins(idle)
    <3>1. \A m \in Traces : idle.trace[m] # Cur
      BY <1>4, TraceNumbers DEF Heap, Slots
    <3> QED
      BY <3>1 DEF CurBegins
  <2>2. i \in JRec /\ Heap(i, 0) /\ SameRecording(i, idle) /\ i.no = 0
    BY <1>2, <1>4, <1>7, <2>1, FlushesHeap
  <2> QED
    BY <1>2, <1>4, <2>2 DEF StartResult, SameRecording, SameParent
<1>8. CASE /\ j.pt \notin j.nojit /\ ~(j.parent = 0 /\ IsJit(j, j.pc)) /\ n # 0
           /\ i \in Setup(Taken(j, n))
  <2> DEFINE k == Taken(j, n)
  <2>1. k \in JRec /\ SameOthers(k, j) /\ Heap(k, 0) /\ k.no = n
    BY <1>1, <1>8, TakeSlot DEF n
  <2> HIDE DEF k
  <2>2. /\ k.state = "record" /\ k.parent = j.parent /\ k.exitno = j.exitno /\ k.pc = j.pc
        /\ k.pt = j.pt /\ k.nojit = j.nojit /\ k.ins = j.ins /\ k.patch = Nil
        /\ k.prot = j.prot /\ k.on = j.on /\ Saved(k) = Saved(j)
        /\ \A m \in Saved(j) : k.trace[m] = j.trace[m]
    BY <1>1, <2>1 DEF SameOthers, SameRecording
  <2>3. Startable(k)
    <3>1. CASE j.parent # 0 /\ j.exitno = 0 /\ ParentOK(j)
      BY <2>2, <3>1 DEF Startable, ParentOK, Rt
    <3>2. CASE j.parent = 0 /\ j.exitno \in Saved(j) /\ AtPc(j, {"call"})
      BY <2>2, <3>2 DEF Startable, AtPc
    <3>3. CASE j.parent = 0 /\ j.exitno = 0 /\ AtPc(j, Kinds \ {"call"})
      BY <1>8, <2>2, <3>3 DEF Startable, AtPc, IsJit
    <3> QED
      BY <3>1, <3>2, <3>3 DEF CanStart
  <2>4. Begun(i, k) /\ i.state # "idle"
    BY <1>8, <2>1, <2>2, <2>3, SetupFacts DEF k
  <2>5. SameParent(i, j) /\ i.prot = j.prot /\ i.on = j.on
    BY <2>2, <2>4 DEF Begun, SameParent, SameAreas
  <2> QED
    BY <2>4, <2>5 DEF StartResult, Begun
<1> QED
  BY <1>3, <1>5, <1>6, <1>7, <1>8

\* A recording is started.
LEMMA StartStep ==
  ASSUME TraceAssumption, IInv, Start
  PROVE  IInv'
<1> DEFINE a == [J EXCEPT !.state = "record"]
<1>1. J \in JRec /\ run = 0 /\ Heap(J, 0) /\ at = "jit" /\ J.state = "start"
  BY TraceAssumption DEF IInv, Good, Start
<1>2. J.prot = "run" /\ CanStart(J)
  BY <1>1 DEF IInv, Good, Areas, Phase, Active, NotStarted
<1>3. PICK i \in TraceStart(a) : \E j \in ExitPatched(i) : Then(j)
  BY DEF Start
<1> PICK j \in ExitPatched(i) : Then(j)
  BY <1>3
<1>4. a \in JRec /\ SameTraces(a, J) /\ SameAreas(a, J) /\ SameParent(a, J) /\ SameStart(a, J)
      /\ a.state = "record"
  <2>1. "record" \in JStates
    BY DEF JStates
  <2> QED
    BY <1>1, <2>1, SetStateFacts
<1> HIDE DEF a
<1>5. Heap(a, 0) /\ Saved(a) = Saved(J) /\ a.prot = "run"
  BY <1>1, <1>2, <1>4, SameTracesHeap DEF SameAreas
<1>6. CanStart(a)
  <2>1. /\ a.no = J.no /\ a.patch = J.patch /\ a.parent = J.parent /\ a.exitno = J.exitno
        /\ a.pc = J.pc /\ a.pt = J.pt /\ a.nojit = J.nojit /\ a.trace = J.trace
        /\ a.ins = J.ins
    BY <1>4 DEF SameTraces, SameParent, SameStart
  <2>2. ParentOK(J) => ParentOK(a)
    BY <1>5, <2>1 DEF ParentOK, Rt
  <2> QED
    BY <1>2, <1>5, <2>1, <2>2 DEF CanStart, AtPc, IsJit
<1>7. StartResult(i, a)
  BY <1>3, <1>4, <1>5, <1>6, TraceStartFacts
<1>8. /\ i \in JRec /\ Heap(i, 0) /\ i.prot = "run" /\ i.patch = Nil
      /\ \/ i.state = "idle" /\ i.no = 0
         \/ i.state # "idle" /\ Active(i)
  BY <1>5, <1>7 DEF StartResult
<1>9. CASE j = i
  BY <1>3, <1>8, <1>9, ThenGood DEF IInv
<1>10. CASE j # i
  <2>1. /\ i.state = "record" /\ \E p \in Pcs : IsJit(i, p) /\ j = UnpatchFor(i, p, TRUE)
    BY <1>3, <1>10 DEF ExitPatched
  <2>2. PICK p \in Pcs : IsJit(i, p) /\ j = UnpatchFor(i, p, TRUE)
    BY <2>1
  <2> DEFINE skip == TRUE
  <2>3. skip \in BOOLEAN /\ j = UnpatchFor(i, p, skip)
    BY <2>2
  <2> HIDE DEF skip
  <2>4. Goes(j, i)
    BY <1>8, <2>1, <2>2, <2>3, UnpatchForGoes
  <2> QED
    BY <1>3, <1>8, <2>4, ThenGood DEF IInv, Goes, SameAreas
<1> QED
  BY <1>9, <1>10

-----------------------------------------------------------------------------
\* The abort of a trace

\* The rest of trace_abort, once the slot is cleared.
LEMMA AbortedGood ==
  ASSUME TraceAssumption, NEW j \in JRec, Heap(j, 0), Over(j), CurOK(j), DownRec(j),
         NEW w, Aborted(j, w)
  PROVE  Good(J', at', run')
<1>1. CASE j.err = "downrec"
  <2> DEFINE a == [j EXCEPT !.parent = 0, !.exitno = 0, !.state = "record"]
  <2>1. /\ \E k \in TraceStart(a) :
             /\ J' = [k EXCEPT !.state = IF @ = "idle" THEN "off" ELSE @]
             /\ at' = "jit"
        /\ run' = 0
    BY <1>1 DEF Aborted
  <2>2. PICK k \in TraceStart(a) :
          J' = [k EXCEPT !.state = IF k.state = "idle" THEN "off" ELSE k.state]
    BY <2>1
  <2>3. a = SetRecording(j, "record", j.err, j.cur, j.pc, j.pt, 0, 0)
    BY DEF SetRecording, JRec
  <2> HIDE DEF a
  <2>4. /\ a \in JRec /\ SameTraces(a, j) /\ SameAreas(a, j) /\ a.state = "record"
        /\ a.cur = j.cur /\ a.pc = j.pc /\ a.pt = j.pt /\ a.parent = 0 /\ a.exitno = 0
    <3>1. Values("record", j.err, j.cur, j.pc, j.pt, 0, 0)
      BY TraceNumbers DEF Values, JRec, JStates
    <3> QED
      BY <2>3, <3>1, SetRecordingFacts
  <2>5. Heap(a, 0)
    BY <2>4, SameTracesHeap DEF SameAreas
  <2>6. a.no = 0 /\ a.patch = Nil /\ a.nojit = j.nojit /\ a.prot = "run"
    BY <2>4 DEF SameTraces, SameAreas, Over
  <2>7. CanStart(a)
    BY <1>1, <2>4, <2>6 DEF CanStart, DownRec, AtPc, Kinds
  <2>8. StartResult(k, a)
    BY <2>2, <2>4, <2>5, <2>7, TraceStartFacts
  <2>9. CASE k.state = "idle"
    <3>1. /\ k \in JRec /\ Heap(k, 0) /\ k.no = 0 /\ k.cur = j.cur /\ k.patch = Nil
          /\ k.prot = "run" /\ k.parent = 0 /\ k.exitno = 0
      BY <2>4, <2>6, <2>8, <2>9 DEF StartResult, SameParent, Active
    <3>2. J' = [k EXCEPT !.state = "off"] /\ "off" \in JStates
      BY <2>2, <2>9 DEF JStates
    <3>3. /\ J' \in JRec /\ SameTraces(J', k) /\ SameAreas(J', k) /\ SameParent(J', k)
          /\ J'.cur = k.cur /\ J'.state = "off"
      BY <3>1, <3>2, SetStateFacts
    <3>4. Heap(J', 0)
      BY <3>1, <3>3, SameTracesHeap DEF SameAreas
    <3>5. CurOK(J') /\ J'.cur.op \in {"call", "ret"}
      BY <1>1, <3>1, <3>3 DEF CurOK, DownRec
    <3>6. NotStarted(J') /\ J'.prot = "run"
      BY <3>1, <3>3, <3>5 DEF NotStarted, SameTraces, SameAreas, SameParent
    <3> QED
      BY <2>1, <3>3, <3>4, <3>6, TraceNumbers DEF Good, Phase, Areas
  <2>10. CASE k.state # "idle"
    <3>1. k \in JRec /\ Heap(k, 0) /\ Active(k) /\ k.prot = "run"
      BY <2>6, <2>8, <2>10 DEF StartResult
    <3>2. J' = k
      BY <2>2, <2>10, <3>1 DEF JRec
    <3> QED
      BY <2>1, <3>1, <3>2, TraceNumbers DEF Good, Phase, Areas
  <2> QED
    BY <2>9, <2>10
<1>2. CASE j.err = "mcodeal"
  <2> DEFINE on == j.on /\ j.mcarea
             a == [j EXCEPT !.on = on]
             b == FlushAll(a)
  <2>1. PICK v : /\ ToIdle(b, v)
                 /\ v = w \/ v \in DispatchUpdate(w, a.on, a.state, Interrupts)
    BY <1>2, Zenon DEF Aborted
  <2>2. /\ a \in JRec /\ SameTraces(a, j) /\ a.held = j.held /\ a.mcarea = j.mcarea
        /\ a.prot = j.prot
    <3>1. on \in BOOLEAN
      BY DEF JRec
    <3> HIDE DEF on
    <3> QED
      BY <3>1 DEF JRec, SameTraces
  <2> HIDE DEF a
  <2>3. Heap(a, 0) /\ a.no = 0 /\ a.patch = Nil /\ a.prot = "run"
    BY <2>2, SameTracesHeap DEF SameTraces, Over
  <2>4. CurBegins(a)
    <3>1. \A m \in Traces : a.trace[m] # Cur
      BY <2>3, TraceNumbers DEF Heap, Slots
    <3> QED
      BY <3>1 DEF CurBegins
  <2>5. b \in JRec /\ Heap(b, 0) /\ SameRecording(b, a) /\ b.no = 0
    BY <2>2, <2>3, <2>4, FlushesHeap
  <2> HIDE DEF b
  <2>6. Over(b)
    BY <2>3, <2>5 DEF Over, SameRecording
  <2> QED
    BY <2>1, <2>5, <2>6, ToIdleGood
<1>3. CASE j.err \notin {"downrec", "mcodeal"}
  <2>1. ToIdle(j, w)
    BY <1>3 DEF Aborted
  <2> QED
    BY <2>1, ToIdleGood
<1> QED
  BY <1>1, <1>2, <1>3

\* What trace_abort starts from: a recording, or none where none was started.
Failed(j) ==
  /\ j \in JRec /\ Heap(j, 0) /\ j.patch = Nil /\ j.prot = "run" /\ CurOK(j) /\ DownRec(j)
  /\ j.state \in {"err", "off"}
  /\ \/ Recording(j) /\ (j.err = "mcodelm" => LinkRight(j))
     \/ NotStarted(j) /\ j.err = "other"

\* The error is known, and the area is executable again.
Failing(j, e) == McodeAbort([j EXCEPT !.err = e])

\* The error is noted and the areas are protected again.
LEMMA FailingFacts ==
  ASSUME NEW j \in JRec, NEW e \in Errors, j.prot = "run" \/ j.mcarea,
         NEW i, i = Failing(j, e)
  PROVE  /\ i \in JRec /\ SameTraces(i, j) /\ SameParent(i, j) /\ i.cur = j.cur
         /\ i.state = j.state /\ i.err = e /\ i.pc = j.pc /\ i.pt = j.pt /\ i.prot = "run"
         /\ i.held = j.held /\ (j.mcarea => i.mcarea) /\ i.on = j.on
<1> DEFINE k == [j EXCEPT !.err = e]
<1>1. /\ k \in JRec /\ SameTraces(k, j) /\ SameParent(k, j) /\ k.cur = j.cur
      /\ k.state = j.state /\ k.err = e /\ k.pc = j.pc /\ k.pt = j.pt /\ k.prot = j.prot
      /\ k.held = j.held /\ (j.mcarea => k.mcarea) /\ (k.prot = "run" \/ k.mcarea)
      /\ k.on = j.on
  <2>1. k \in JRec
    BY DEF JRec
  <2>2. /\ SameTraces(k, j) /\ SameParent(k, j) /\ k.cur = j.cur
        /\ k.state = j.state /\ k.err = e /\ k.pc = j.pc /\ k.pt = j.pt /\ k.prot = j.prot
        /\ k.held = j.held /\ k.on = j.on
    BY DEF JRec, SameTraces, SameParent
  <2>3. (j.mcarea => k.mcarea) /\ (k.prot = "run" \/ k.mcarea)
    BY DEF JRec
  <2> QED
    BY <2>1, <2>2, <2>3
<1>2. i = [k EXCEPT !.prot = IF k.mcarea THEN "run" ELSE k.prot]
  BY DEF Failing, McodeAbort
<1> HIDE DEF k
<1> DEFINE prot == IF k.mcarea THEN "run" ELSE k.prot
<1>3. prot = "run"
  BY <1>1
<1> HIDE DEF prot
<1>4. i = [k EXCEPT !.prot = prot]
  BY <1>2 DEF prot
<1>5. i \in JRec
  BY <1>1, <1>3, <1>4 DEF JRec
<1>6. /\ SameTraces(i, k) /\ SameParent(i, k) /\ i.cur = k.cur
      /\ i.state = k.state /\ i.err = k.err /\ i.pc = k.pc /\ i.pt = k.pt /\ i.prot = "run"
      /\ i.held = k.held /\ i.on = k.on
  BY <1>1, <1>3, <1>4 DEF JRec, SameTraces, SameParent
<1>7. k.mcarea => i.mcarea
  BY <1>1, <1>4 DEF JRec
<1>8. SameTraces(i, j) /\ SameParent(i, j)
  BY <1>1, <1>6 DEF SameTraces, SameParent
<1> QED
  BY <1>1, <1>5, <1>6, <1>7, <1>8

\* trace_abort finds a recording, or what is left of one.
LEMMA AbortBegins ==
  ASSUME TraceAssumption, IInv, at = "jit", J.state \in {"err", "off"}
  PROVE  Failed(Failing(PendPatch(J, TRUE),
                        IF J.state = "off" THEN "other" ELSE PendPatch(J, TRUE).err))
<1> DEFINE b == PendPatch(J, TRUE)
           e == IF J.state = "off" THEN "other" ELSE b.err
           j == Failing(b, e)
<1>1. J \in JRec /\ Heap(J, 0) /\ (J.prot = "run" \/ J.mcarea)
  <2>1. at # "mcode"
    OBVIOUS
  <2> QED
    BY <2>1 DEF IInv, Good, Areas
<1>2. /\ b \in JRec /\ Heap(b, 0) /\ b.patch = Nil /\ SameRest(b, J)
      /\ \/ Recording(b) /\ (J.state = "err" /\ J.err = "mcodelm" => LinkRight(b))
         \/ NotStarted(b) /\ J.state = "off"
      /\ J.state = "err" => DownRec(J)
  <2>1. Active(J) \/ NotStarted(J)
    BY DEF IInv, Good, Phase, Idle
  <2>2. CASE Active(J)
    <3>1. Recording(J) /\ (J.state = "err" /\ J.err = "mcodelm" => LinkRight(J))
      BY <2>2 DEF Active, Recording
    <3>2. TRUE \in BOOLEAN
      OBVIOUS
    <3>3. /\ b \in JRec /\ Heap(b, 0) /\ Recording(b) /\ (LinkRight(J) => LinkRight(b))
          /\ b.patch = Nil /\ SameRest(b, J)
      BY <1>1, <3>1, <3>2, PendPatchRecording, Zenon
    <3>4. J.state = "err" => DownRec(J)
      BY <2>2 DEF Active
    <3> QED
      BY <3>1, <3>3, <3>4
  <2>3. CASE NotStarted(J)
    <3>1. b = J /\ J.state = "off"
      BY <2>3 DEF NotStarted, PendPatch
    <3> QED
      BY <1>1, <2>3, <3>1 DEF NotStarted, SameRest
  <2> QED
    BY <2>1, <2>2, <2>3
<1>3. e \in Errors /\ (e = IF J.state = "off" THEN "other" ELSE J.err)
  BY <1>1, <1>2 DEF SameRest, JRec, Errors
<1> HIDE DEF b, e
<1>8. /\ j \in JRec /\ SameTraces(j, b) /\ SameParent(j, b) /\ j.cur = b.cur
      /\ j.state = b.state /\ j.err = e /\ j.pc = b.pc /\ j.pt = b.pt /\ j.prot = "run"
      /\ j.held = b.held /\ (b.mcarea => j.mcarea)
  <2>1. b.prot = "run" \/ b.mcarea
    BY <1>1, <1>2 DEF SameRest
  <2> QED
    BY <1>2, <1>3, <2>1, FailingFacts
<1> HIDE DEF j
<1>9. Heap(j, 0) /\ \A f \in Protos : Owned(j, f) = Owned(b, f)
  BY <1>2, <1>8, SameTracesHeap
<1>10. /\ j.no = b.no /\ j.patch = Nil /\ j.nojit = b.nojit
  BY <1>2, <1>8 DEF SameTraces
<1>11. b.state = J.state /\ b.cur = J.cur /\ b.pc = J.pc /\ b.pt = J.pt /\ b.nojit = J.nojit
  BY <1>2 DEF SameRest
<1>12. DownRec(j)
  BY <1>2, <1>3, <1>8, <1>10, <1>11 DEF DownRec, AtPc
<1>13. \/ Recording(j) /\ (j.err = "mcodelm" => LinkRight(j))
       \/ NotStarted(j) /\ j.err = "other"
  <2>1. CASE Recording(b) /\ (J.state = "err" /\ J.err = "mcodelm" => LinkRight(b))
    <3>1. Recording(j)
      BY <1>8, <2>1, RecordingSame DEF SameCur
    <3>2. LinkRight(b) => LinkRight(j)
      BY <1>8, <1>9, <1>10 DEF LinkRight
    <3> QED
      BY <1>3, <1>8, <1>11, <2>1, <3>1, <3>2
  <2>2. CASE NotStarted(b) /\ J.state = "off"
    BY <1>3, <1>8, <1>10, <2>2 DEF NotStarted, CurOK, SameParent
  <2> QED
    BY <1>2, <2>1, <2>2
<1>14. CurOK(j)
  BY <1>13 DEF Recording, NotStarted
<1>15. Failed(j)
  BY <1>8, <1>9, <1>10, <1>11, <1>12, <1>13, <1>14 DEF Failed
<1> QED
  BY <1>15 DEF j, e, b

\* What a penalty leaves alone.
SameFailure(i, j) ==
  /\ i.no = j.no /\ i.patch = j.patch /\ i.prot = j.prot /\ i.cur = j.cur /\ i.err = j.err
  /\ i.pc = j.pc /\ i.pt = j.pt /\ i.nojit = j.nojit /\ i.state = j.state /\ i.on = j.on

\* The bytecode or the stitched trace is penalized.
LEMMA PenaltyFacts ==
  ASSUME TraceAssumption, NEW j, Failed(j), NEW i \in Penalty(j)
  PROVE  i \in JRec /\ Heap(i, 0) /\ SameFailure(i, j)
<1>1. j \in JRec /\ Heap(j, 0) /\ j.patch = Nil /\ CurOK(j)
  BY DEF Failed
<1>2. \/ i = j
      \/ /\ j.parent = 0 /\ j.exitno = 0 /\ j.cur.op # "ret" /\ i \in Penalize(j, j.cur.pc)
      \/ j.parent = 0 /\ j.exitno # 0 /\ i = SelfLink(j, j.exitno)
  BY DEF Penalty, SelfLink
<1>3. CASE i = j
  BY <1>1, <1>3 DEF SameFailure
<1>4. CASE /\ j.parent = 0 /\ j.exitno = 0 /\ j.cur.op # "ret"
           /\ i \in Penalize(j, j.cur.pc)
  <2>1. j.cur.pc \in Pcs /\ ~IsJit(j, j.cur.pc)
    <3>1. CASE Recording(j)
      BY <1>4, <3>1 DEF Recording, Grounded, CurOK
    <3>2. CASE NotStarted(j)
      <4>1. j.cur.op = "call"
        BY <1>4, <3>2 DEF NotStarted
      <4>2. j.cur.pc \in Pcs /\ Kind[j.cur.pc] = "call"
        BY <1>1, <4>1 DEF CurOK, Kinds
      <4> QED
        BY <1>1, <4>2 DEF Heap, Linked
    <3> QED
      BY <3>1, <3>2 DEF Failed
  <2>2. i \in JRec /\ Linked(i) /\ Rebound(i, j) /\ i.patch = Nil
    BY <1>1, <1>4, <2>1, PenalizeFacts DEF Heap
  <2>3. Heap(i, 0)
    BY <1>1, <2>2, HeapRebound
  <2> QED
    BY <1>1, <2>2, <2>3 DEF SameFailure, Rebound, SameRest
<1>5. CASE j.parent = 0 /\ j.exitno # 0 /\ i = SelfLink(j, j.exitno)
  <2>1. j.exitno \in Saved(j)
    BY <1>5 DEF Failed, NotStarted, Recording, Grounded
  <2>2. i \in JRec /\ SameElse(i, j) /\ Heap(i, 0)
    BY <1>1, <1>5, <2>1, SelfLinked
  <2> QED
    BY <2>2 DEF SameFailure, SameElse, SameRecording
<1> QED
  BY <1>2, <1>3, <1>4, <1>5

\* The link of the aborted trace is cleared.
Unlink(j) == [j EXCEPT !.cur.link = 0, !.cur.linktype = "none"]

\* Nothing refers to the aborted trace before the event.
LEMMA UnlinkFacts ==
  ASSUME TraceAssumption, NEW j \in JRec, Heap(j, 0), CurOK(j), DownRec(j), j.patch = Nil,
         j.state \in {"err", "off"}, NEW i, i = Unlink(j)
  PROVE  /\ i \in JRec /\ Heap(i, 0) /\ Aborting(i) /\ i.prot = j.prot /\ i.no = j.no
         /\ i.on = j.on /\ i.err = j.err
<1> DEFINE d == Linking(j.cur, "none", 0)
           k == SetRecording(j, j.state, j.err, d, j.pc, j.pt, j.parent, j.exitno)
<1>1. i = k
  <2> DEFINE c == [j.cur EXCEPT !.link = 0, !.linktype = "none"]
  <2>1. i = [j EXCEPT !.cur = c]
    BY DEF Unlink
  <2>2. c = d
    BY DEF Linking, JRec, TraceRecs
  <2> HIDE DEF c, d
  <2>3. [j EXCEPT !.cur = d] = k
    BY DEF SetRecording, JRec
  <2> QED
    BY <2>1, <2>2, <2>3
<1>2. /\ d \in TraceRecs /\ d.link = 0
      /\ d.op = j.cur.op /\ d.pc = j.cur.pc /\ d.root = j.cur.root
      /\ d.nextroot = j.cur.nextroot /\ d.nextside = j.cur.nextside /\ d.exit = j.cur.exit
  <2>1. j.cur \in TraceRecs /\ "none" \in LinkTypes /\ 0 \in Numbers
    BY TraceNumbers DEF JRec, LinkTypes
  <2> QED
    BY <2>1, CurFields
<1> HIDE DEF d
<1>3. Values(j.state, j.err, d, j.pc, j.pt, j.parent, j.exitno)
  BY <1>2 DEF JRec, Values
<1>4. /\ i \in JRec /\ SameTraces(i, j) /\ SameAreas(i, j) /\ i.state = j.state
      /\ i.cur = d /\ i.err = j.err /\ i.pc = j.pc /\ i.pt = j.pt
  BY <1>1, <1>3, SetRecordingFacts
<1> HIDE DEF k
<1>5. Heap(i, 0)
  BY <1>4, SameTracesHeap DEF SameAreas
<1>6. i.patch = Nil /\ i.no = j.no /\ i.nojit = j.nojit /\ i.prot = j.prot /\ i.on = j.on
  BY <1>4 DEF SameTraces, SameAreas
<1>7. Aborting(i)
  BY <1>2, <1>4, <1>6 DEF Aborting, CurOK, DownRec, AtPc
<1> QED
  BY <1>4, <1>5, <1>6, <1>7

\* After the event, the slot is cleared.
LEMMA DroppedGood ==
  ASSUME TraceAssumption, NEW j \in JRec, Heap(j, 0), CurOK(j), DownRec(j), j.patch = Nil,
         j.prot = "run", NEW w,
         j.no = 0 => Aborted(j, w),
         j.no # 0 => Aborted(Drop(j, j.no), w)
  PROVE  Good(J', at', run')
<1>1. CASE j.no = 0
  BY <1>1, AbortedGood DEF Over
<1>2. CASE j.no # 0
  <2> DEFINE n == j.no
             i == Drop(j, n)
  <2>1. n # 0 /\ Aborted(i, w)
    BY <1>2
  <2>2. n = j.no
    OBVIOUS
  <2> HIDE DEF n
  <2>3. i \in JRec /\ SameOthers(i, j) /\ Heap(i, 0) /\ i.no = 0
    BY <2>1, <2>2, DropFacts
  <2> HIDE DEF i
  <2>4. /\ i.patch = Nil /\ i.prot = "run" /\ i.cur = j.cur /\ i.err = j.err /\ i.pc = j.pc
        /\ i.pt = j.pt /\ i.nojit = j.nojit
    BY <2>3 DEF SameOthers, SameRecording
  <2>5. Over(i) /\ CurOK(i) /\ DownRec(i)
    BY <2>3, <2>4 DEF Over, CurOK, DownRec, AtPc
  <2> QED
    BY <2>1, <2>3, <2>5, AbortedGood
<1> QED
  BY <1>1, <1>2

\* A recording is aborted.
LEMMA AbortStep ==
  ASSUME TraceAssumption, IInv, Abort
  PROVE  IInv'
<1> DEFINE b == PendPatch(J, TRUE)
           e == IF J.state = "off" THEN "other" ELSE b.err
           j == Failing(b, e)
<1>1. Failed(j)
  BY AbortBegins DEF Abort
<1>2. \/ j.err = "mcodelm" /\ Then([j EXCEPT !.state = "asm"])
      \/ \E k \in Penalty(j) :
           \/ k.no = 0 /\ Aborted(k, vm)
           \/ k.no # 0 /\ "abort" \in Handlers /\ ToHandler("abort", Unlink(k))
           \/ k.no # 0 /\ Aborted(Drop(Unlink(k), k.no), vm)
  BY DEF Abort, Failing, Unlink
<1> HIDE DEF j
<1>3. j \in JRec /\ Heap(j, 0) /\ j.patch = Nil /\ j.prot = "run" /\ CurOK(j) /\ DownRec(j)
  BY <1>1 DEF Failed
<1>4. CASE j.err = "mcodelm" /\ Then([j EXCEPT !.state = "asm"])
  <2> DEFINE k == [j EXCEPT !.state = "asm"]
  <2>1. Recording(j) /\ LinkRight(j) /\ "asm" \in JStates
    BY <1>1, <1>4 DEF Failed, JStates
  <2>2. /\ k \in JRec /\ Heap(k, 0) /\ Recording(k) /\ k.state = "asm" /\ LinkRight(k)
        /\ k.prot = "run" /\ k.patch = Nil
    BY <1>3, <2>1, SetStateRecording DEF SameAreas
  <2> HIDE DEF k
  <2>3. Active(k)
    BY <2>2 DEF Active, Recording
  <2> QED
    BY <1>4, <2>2, <2>3, ThenGood DEF k, IInv
<1>5. ASSUME NEW k \in Penalty(j),
             \/ k.no = 0 /\ Aborted(k, vm)
             \/ k.no # 0 /\ "abort" \in Handlers /\ ToHandler("abort", Unlink(k))
             \/ k.no # 0 /\ Aborted(Drop(Unlink(k), k.no), vm)
      PROVE  Good(J', at', run')
  <2>1. k \in JRec /\ Heap(k, 0) /\ SameFailure(k, j)
    BY <1>1, PenaltyFacts
  <2>2. /\ CurOK(k) /\ DownRec(k) /\ k.patch = Nil /\ k.prot = "run"
        /\ k.state \in {"err", "off"}
    BY <1>1, <1>3, <2>1 DEF SameFailure, CurOK, DownRec, AtPc, Failed
  <2>3. CASE k.no = 0 /\ Aborted(k, vm)
    BY <2>1, <2>2, <2>3, AbortedGood DEF Over
  <2> DEFINE l == Unlink(k)
  <2>4. l \in JRec /\ Heap(l, 0) /\ Aborting(l) /\ l.prot = "run" /\ l.no = k.no
    BY <2>1, <2>2, UnlinkFacts
  <2>5. CASE "abort" \in Handlers /\ ToHandler("abort", l)
    <3> HIDE DEF l
    <3>1. Phase(l, "abort")
      BY <2>4 DEF Phase
    <3> QED
      BY <2>4, <2>5, <3>1, ToHandlerGood
  <2>6. CASE k.no # 0 /\ Aborted(Drop(l, k.no), vm)
    <3> HIDE DEF l
    <3>1. l.no # 0 /\ Aborted(Drop(l, l.no), vm)
      BY <2>4, <2>6
    <3> QED
      BY <2>4, <3>1, DroppedGood DEF Aborting
  <2> QED
    BY <1>5, <2>3, <2>5, <2>6
<1> QED
  BY <1>2, <1>4, <1>5 DEF IInv

\* A handler returns.
LEMMA HandlerReturnsStep ==
  ASSUME TraceAssumption, IInv, HandlerReturns
  PROVE  IInv'
<1> DEFINE w == AfterHandler(vm)
<1>1. \/ at = "stop" /\ ToIdle(J, w)
      \/ at = "abort" /\ Aborted(IF J.no = 0 THEN J ELSE Drop(J, J.no), w)
      \/ at = "bc" /\ at' = "interp" /\ J' = J /\ run' = run
  BY DEF HandlerReturns
<1> HIDE DEF w
<1>2. J \in JRec
  BY DEF IInv, Good
<1>3. CASE at = "stop" /\ ToIdle(J, w)
  <2>1. Heap(J, 0) /\ Over(J)
    BY <1>3 DEF IInv, Good, Phase, Areas, Stopped, Over
  <2> QED
    BY <1>2, <1>3, <2>1, ToIdleGood DEF IInv
<1>4. CASE at = "abort" /\ Aborted(IF J.no = 0 THEN J ELSE Drop(J, J.no), w)
  <2>1. Heap(J, 0) /\ J.prot = "run" /\ Aborting(J)
    BY <1>4 DEF IInv, Good, Phase, Areas
  <2>2. /\ J.no = 0 => Aborted(J, w)
        /\ J.no # 0 => Aborted(Drop(J, J.no), w)
    BY <1>4
  <2>3. CurOK(J) /\ DownRec(J) /\ J.patch = Nil
    BY <2>1 DEF Aborting
  <2> QED
    BY <1>2, <2>1, <2>2, <2>3, DroppedGood DEF IInv
<1>5. CASE at = "bc" /\ at' = "interp" /\ J' = J /\ run' = run
  BY <1>5 DEF IInv, Good, Phase, Areas
<1> QED
  BY <1>1, <1>3, <1>4, <1>5

-----------------------------------------------------------------------------
\* A trace is to be started, and machine code is entered and left.

\* Nothing is recorded in the interpreter and in machine code unless the state says so.
LEMMA IdleState ==
  ASSUME TraceAssumption, IInv, at = "mcode" \/ (at = "interp" /\ J.state = "idle")
  PROVE  J \in JRec /\ Heap(J, run) /\ Idle(J) /\ J.prot = "run"
<1>1. J \in JRec /\ Heap(J, run) /\ Phase(J, at) /\ Areas(J, at)
  BY DEF IInv, Good
<1>2. Idle(J)
  <2>1. at # "stop" /\ at # "abort" /\ at # "jit"
    OBVIOUS
  <2> QED
    BY <1>1, <2>1 DEF Phase, Active
<1> QED
  BY <1>1, <1>2 DEF Areas

\* The recorder is entered.
LEMMA BeginGood ==
  ASSUME TraceAssumption, NEW j \in JRec, Heap(j, 0), CanStart(j), j.prot = "run", Begin(j)
  PROVE  Good(J', at', run')
<1> DEFINE k == [j EXCEPT !.state = "start"]
<1>1. J' = k /\ at' = "jit" /\ run' = 0 /\ 0 \in Numbers
  BY TraceNumbers DEF Begin
<1>2. "start" \in JStates
  BY DEF JStates
<1>3. /\ k \in JRec /\ SameTraces(k, j) /\ SameAreas(k, j) /\ SameParent(k, j)
      /\ SameStart(k, j) /\ k.state = "start"
  BY <1>2, SetStateFacts
<1> HIDE DEF k
<1>4. Heap(k, 0) /\ Saved(k) = Saved(j)
  BY <1>3, SameTracesHeap DEF SameAreas
<1>5. CanStart(k)
  BY <1>3, <1>4 DEF CanStart, SameTraces, SameParent, SameStart, ParentOK, Rt, AtPc, IsJit
<1>6. k.prot = "run"
  BY <1>3 DEF SameAreas
<1> QED
  BY <1>1, <1>3, <1>4, <1>5, <1>6 DEF Good, Phase, Areas

\* Where and for what a trace is to be started.
LEMMA StartingPoint ==
  ASSUME TraceAssumption, NEW j \in JRec, NEW r, Heap(j, r), Idle(j), j.prot = "run",
         NEW pc \in Pcs \cup {Nil}, NEW pt \in Protos \cup {Nil}, NEW p \in Numbers,
         NEW x \in Numbers,
         NEW i, i = SetRecording(j, j.state, j.err, j.cur, pc, pt, p, x)
  PROVE  /\ i \in JRec /\ Heap(i, r) /\ i.prot = "run" /\ i.no = 0 /\ i.patch = Nil
         /\ i.trace = j.trace /\ Saved(i) = Saved(j) /\ i.ins = j.ins
         /\ i.pc = pc /\ i.pt = pt /\ i.parent = p /\ i.exitno = x
<1>1. Values(j.state, j.err, j.cur, pc, pt, p, x)
  BY DEF JRec, Values
<1>2. /\ i \in JRec /\ SameTraces(i, j) /\ SameAreas(i, j)
      /\ i.pc = pc /\ i.pt = pt /\ i.parent = p /\ i.exitno = x
  BY <1>1, SetRecordingFacts
<1>3. Heap(i, r) /\ Saved(i) = Saved(j)
  BY <1>2, SameTracesHeap DEF SameAreas
<1> QED
  BY <1>2, <1>3 DEF SameTraces, SameAreas, Idle

\* A loop, a function or an iteration is hot.
LEMMA HotStep ==
  ASSUME TraceAssumption, IInv, NEW p \in Pcs, Hot(p)
  PROVE  IInv'
<1>1. /\ J \in JRec /\ Heap(J, run) /\ Idle(J) /\ J.prot = "run" /\ run = 0
  BY IdleState DEF Hot, IInv, Good
<1>2. Proto[p] \in Protos /\ Kind[p] \in Kinds \ {"call"} /\ ~IsJit(J, p) /\ 0 \in Numbers
  BY TraceNumbers DEF Hot, Protos, Kinds, IsJit, Orig
<1> DEFINE i == SetRecording(J, J.state, J.err, J.cur, p, Proto[p], 0, 0)
<1>3. Begin(i)
  <2>1. [J EXCEPT !.parent = 0, !.exitno = 0, !.pc = p, !.pt = Proto[p]] = i
    BY <1>1 DEF SetRecording, JRec
  <2> QED
    BY <2>1 DEF Hot
<1>4. /\ i \in JRec /\ Heap(i, 0) /\ i.prot = "run" /\ i.no = 0 /\ i.patch = Nil
      /\ i.ins = J.ins /\ i.pc = p /\ i.pt = Proto[p] /\ i.parent = 0 /\ i.exitno = 0
  BY <1>1, <1>2, StartingPoint
<1> HIDE DEF i
<1>5. CanStart(i)
  BY <1>2, <1>4 DEF CanStart, AtPc, IsJit
<1> QED
  BY <1>3, <1>4, <1>5, BeginGood DEF IInv

\* An exit is hot.
LEMMA HotSideStep ==
  ASSUME TraceAssumption, IInv, HotSide
  PROVE  IInv'
<1>1. at = "mcode"
  BY DEF HotSide
<1>2. J \in JRec /\ Heap(J, run) /\ Idle(J) /\ J.prot = "run"
  BY <1>1, IdleState
<1>3. run \in Traces /\ run \in Numbers /\ run # 0 /\ 0 \in Numbers
  BY <1>1, TraceNumbers DEF IInv, Good
<1>4. PICK f \in Protos : Begin([J EXCEPT !.parent = run, !.exitno = 0, !.pt = f])
  BY DEF HotSide
<1> DEFINE i == SetRecording(J, J.state, J.err, J.cur, J.pc, f, run, 0)
<1>5. Begin(i)
  <2>1. [J EXCEPT !.parent = run, !.exitno = 0, !.pt = f] = i
    BY <1>2 DEF SetRecording, JRec
  <2> QED
    BY <1>4, <2>1
<1>6. J.pc \in Pcs \cup {Nil} /\ f \in Protos \cup {Nil}
  BY <1>2 DEF JRec
<1>7. /\ i \in JRec /\ Heap(i, run) /\ i.prot = "run" /\ i.no = 0 /\ i.patch = Nil
      /\ i.trace = J.trace /\ Saved(i) = Saved(J) /\ i.parent = run /\ i.exitno = 0
  <2>1. i = SetRecording(J, J.state, J.err, J.cur, J.pc, f, run, 0)
    OBVIOUS
  <2> HIDE DEF i
  <2> QED
    BY <1>2, <1>3, <1>6, <2>1, StartingPoint
<1> HIDE DEF i
<1>8. Live(i, run)
  BY <1>7 DEF Heap
<1>9. ParentOK(i)
  BY <1>3, <1>7, <1>8, LiveRunning DEF ParentOK
<1>10. CanStart(i)
  BY <1>3, <1>7, <1>9 DEF CanStart
<1>11. Heap(i, 0)
  <2>1. Live(i, 0)
    BY <1>8, LiveLeave
  <2> QED
    BY <1>7, <2>1 DEF Heap
<1> QED
  BY <1>5, <1>7, <1>10, <1>11, BeginGood DEF IInv

\* A compiled trace is entered from bytecode.
LEMMA EnterStep ==
  ASSUME TraceAssumption, IInv, NEW p \in Pcs, Enter(p)
  PROVE  IInv'
<1>1. J \in JRec /\ Heap(J, run) /\ Idle(J) /\ J.prot = "run"
  BY IdleState DEF Enter
<1> DEFINE n == J.ins[p].d
<1>2. J' = J /\ at' = "mcode" /\ run' = n /\ IsJit(J, p)
  BY DEF Enter
<1>3. n \in Owned(J, Proto[p]) /\ Proto[p] \in Protos
  BY <1>2 DEF Owned, Protos
<1> HIDE DEF n
<1>4. n \in Traces /\ n # 0 /\ n \in Numbers
  BY <1>1, <1>3, OwnedSaved, TraceNumbers DEF Heap
<1>5. Live(J, n)
  BY <1>1, <1>3, LiveEnter DEF Heap
<1>6. Heap(J, n)
  BY <1>1, <1>5 DEF Heap
<1> QED
  BY <1>1, <1>2, <1>4, <1>6 DEF IInv, Good, Phase, Areas

\* Machine code goes on with another trace.
LEMMA JumpStep ==
  ASSUME TraceAssumption, IInv, Jump
  PROVE  IInv'
<1>1. at = "mcode" /\ J' = J /\ at' = at
  BY DEF Jump
<1>2. J \in JRec /\ Heap(J, run) /\ Idle(J) /\ J.prot = "run"
  BY <1>1, IdleState
<1>3. run \in Traces
  BY <1>1, TraceNumbers DEF IInv, Good
<1>4. run \in Saved(J)
  BY <1>2, <1>3, LiveRunning DEF Heap
<1>5. J.trace[run] # Cur
  BY <1>4 DEF Saved
<1>6. run' \in {J.trace[run].link, J.trace[run].exit} /\ run' # 0
  BY <1>5 DEF Jump, JumpsTo, TraceRef
<1>7. run' \in Numbers
  <2>1. J.trace[run] \in TraceRecs
    BY <1>2, <1>4, SavedIsRecord
  <2> QED
    BY <1>6, <2>1 DEF TraceRecs, Numbers
<1> DEFINE s == run'
<1>8. Live(J, s)
  BY <1>2, <1>3, <1>6, LiveJump DEF Heap
<1>9. Heap(J, s)
  BY <1>2, <1>8 DEF Heap
<1> QED
  BY <1>1, <1>2, <1>6, <1>7, <1>9 DEF IInv, Good, Phase, Areas

\* The frame of a stitched trace, and what becomes of it.
LEMMA SetHeld ==
  ASSUME NEW j \in JRec, NEW h \in Numbers \cup {Nil}, NEW i, i = [j EXCEPT !.held = h]
  PROVE  /\ i \in JRec /\ SameTraces(i, j) /\ i.mcarea = j.mcarea /\ i.prot = j.prot
         /\ i.held = h /\ (Idle(j) => Idle(i)) /\ i.state = j.state
<1>1. i = SetAreas(j, j.on, j.mcarea, j.prot, h)
  BY DEF SetAreas, JRec
<1>2. Flags(j.on, j.mcarea, j.prot, h)
  BY DEF Flags, JRec
<1>3. /\ i \in JRec /\ SameTraces(i, j) /\ SameParent(i, j) /\ i.state = j.state
      /\ i.mcarea = j.mcarea /\ i.prot = j.prot /\ i.held = h
  BY <1>1, <1>2, SetAreasFacts
<1> QED
  BY <1>3 DEF Idle, SameTraces, SameParent

\* A stitched trace calls a C function.
LEMMA CallCStep ==
  ASSUME TraceAssumption, IInv, CallC
  PROVE  IInv'
<1>1. at = "mcode" /\ J.held = Nil /\ J' = [J EXCEPT !.held = run] /\ at' = "interp" /\ run' = 0
  BY DEF CallC
<1>2. J \in JRec /\ Heap(J, run) /\ Idle(J) /\ J.prot = "run"
  BY <1>1, IdleState
<1>3. run \in Traces /\ run \in Numbers /\ 0 \in Numbers
  BY <1>1, TraceNumbers DEF IInv, Good
<1> DEFINE i == J'
<1>4. /\ i \in JRec /\ SameTraces(i, J) /\ i.mcarea = J.mcarea /\ i.prot = J.prot
      /\ i.held = run /\ Idle(i)
  BY <1>1, <1>2, <1>3, SetHeld
<1> HIDE DEF i
<1>5. Live(i, 0)
  BY <1>1, <1>2, <1>3, <1>4, LiveHold DEF Heap, SameTraces
<1>6. Heap(i, 0)
  BY <1>2, <1>4, <1>5, HeldHeap
<1> QED
  BY <1>1, <1>2, <1>3, <1>4, <1>6 DEF IInv, Good, Phase, Areas, i

\* Machine code returns to the interpreter.
LEMMA LeaveStep ==
  ASSUME TraceAssumption, IInv, Leave
  PROVE  IInv'
<1>1. at = "mcode" /\ J' = J /\ at' = "interp" /\ run' = 0
  BY DEF Leave
<1>2. J \in JRec /\ Heap(J, run) /\ Idle(J) /\ J.prot = "run"
  BY <1>1, IdleState
<1>3. Heap(J, 0) /\ 0 \in Numbers
  BY <1>2, LiveLeave, TraceNumbers DEF Heap
<1> QED
  BY <1>1, <1>2, <1>3 DEF IInv, Good, Phase, Areas

\* The C function that a stitched trace has called returns.
LEMMA StitchReturnStep ==
  ASSUME TraceAssumption, IInv, StitchReturn
  PROVE  IInv'
<1>1. at = "interp" /\ J.state = "idle" /\ J.held # Nil /\ run = 0 /\ 0 \in Numbers
  BY TraceNumbers DEF StitchReturn, IInv, Good
<1>2. J \in JRec /\ Heap(J, 0) /\ Idle(J) /\ J.prot = "run"
  BY <1>1, IdleState
<1> DEFINE h == J.held
           i == [J EXCEPT !.held = Nil]
           link == IF h = 0 THEN 0 ELSE TraceRef(J, h).link
<1>3. /\ i \in JRec /\ SameTraces(i, J) /\ i.mcarea = J.mcarea /\ i.prot = J.prot
      /\ i.held = Nil /\ Idle(i)
  BY <1>2, SetHeld
<1>4. /\ Live(i, 0)
      /\ h \in Traces /\ J.trace[h].link # h => Live(i, J.trace[h].link)
  BY <1>2, <1>3, LiveReturn DEF Heap, SameTraces
<1>5. h \in Numbers /\ (h # 0 => h \in Traces)
  BY <1>1, <1>2, TraceNumbers DEF JRec
<1>6. h # 0 => h \in Saved(J) /\ link = J.trace[h].link /\ link \in Numbers
  <2> SUFFICES ASSUME h # 0
               PROVE  h \in Saved(J) /\ link = J.trace[h].link /\ link \in Numbers
    OBVIOUS
  <2>1. h \in Saved(J)
    BY <1>2, <1>5, HeldSaved DEF Heap
  <2>2. J.trace[h] # Cur
    BY <2>1 DEF Saved
  <2>3. J.trace[h].link \in Numbers
    BY <1>2, <2>1, RootNumber
  <2> QED
    BY <2>1, <2>2, <2>3 DEF TraceRef
<1>7. \/ link = h /\ J' = i /\ at' = at /\ run' = run
      \/ link # h /\ link # 0 /\ J' = i /\ at' = "mcode" /\ run' = link
      \/ link # h /\ link = 0 /\ J' = i /\ at' = at /\ run' = run
      \/ /\ link # h /\ link = 0
         /\ \E p \in {q \in Pcs : Kind[q] = "call"} :
              Begin([i EXCEPT !.parent = 0, !.exitno = h, !.pc = p, !.pt = Proto[p]])
  BY DEF StitchReturn
<1>8. Heap(i, 0) /\ Saved(i) = Saved(J)
  BY <1>2, <1>3, <1>4, HeldHeap
<1>9. link # h /\ link # 0 => h # 0
  OBVIOUS
<1>10. link # h /\ link = 0 => h # 0
  OBVIOUS
<1> HIDE DEF i, link, h
<1>11. CASE J' = i /\ at' = at /\ run' = run
  BY <1>1, <1>2, <1>3, <1>8, <1>11 DEF IInv, Good, Phase, Areas
<1>12. CASE link # h /\ link # 0 /\ J' = i /\ at' = "mcode" /\ run' = link
  <2>1. link \in Numbers /\ Live(i, link)
    BY <1>4, <1>5, <1>6, <1>9, <1>12
  <2>2. Heap(i, link)
    BY <1>2, <1>3, <2>1, HeldHeap
  <2> QED
    BY <1>2, <1>3, <1>12, <2>1, <2>2 DEF IInv, Good, Phase, Areas
<1>13. ASSUME NEW p \in Pcs, Kind[p] = "call", h # 0,
              Begin([i EXCEPT !.parent = 0, !.exitno = h, !.pc = p, !.pt = Proto[p]])
       PROVE  IInv'
  <2> DEFINE k == SetRecording(i, i.state, i.err, i.cur, p, Proto[p], 0, h)
  <2>1. Begin(k)
    <3>1. [i EXCEPT !.parent = 0, !.exitno = h, !.pc = p, !.pt = Proto[p]] = k
      BY <1>3 DEF SetRecording, JRec
    <3> QED
      BY <1>13, <3>1
  <2>2. Proto[p] \in Protos
    BY DEF Protos
  <2>3. /\ k \in JRec /\ Heap(k, 0) /\ k.prot = "run" /\ k.no = 0 /\ k.patch = Nil
        /\ Saved(k) = Saved(i) /\ k.pc = p /\ k.pt = Proto[p] /\ k.parent = 0
        /\ k.exitno = h
    BY <1>1, <1>2, <1>3, <1>5, <1>8, <2>2, StartingPoint
  <2> HIDE DEF k
  <2>4. CanStart(k)
    BY <1>6, <1>8, <1>13, <2>3 DEF CanStart, AtPc
  <2> QED
    BY <2>1, <2>3, <2>4, BeginGood DEF IInv
<1> QED
  BY <1>7, <1>10, <1>11, <1>12, <1>13

-----------------------------------------------------------------------------
\* What the program does in the interpreter and in handlers of events

\* Nothing is recorded, a trace was just finished, or a recording is given up.
Resting(j, a) ==
  /\ j \in JRec /\ a \in Handlers \cup {"interp"} /\ Heap(j, 0) /\ Phase(j, a)
  /\ j.patch = Nil /\ j.prot = "run" /\ (a = "interp" => j.state = "idle")

\* The program rests whenever it may call a function of the library.
LEMMA CallingRests ==
  ASSUME TraceAssumption, IInv, at \in Handlers \/ (at = "interp" /\ J.state = "idle")
  PROVE  Resting(J, at) /\ run = 0
<1>1. at # "mcode" /\ at # "jit"
  BY DEF TraceAssumption, VmEvents
<1>2. J \in JRec /\ run = 0 /\ Heap(J, 0) /\ Phase(J, at) /\ J.prot = "run"
  BY <1>1 DEF IInv, Good, Areas
<1>3. at = "interp" => Idle(J)
  <2>1. at = "interp" => J.state = "idle"
    BY DEF TraceAssumption, VmEvents
  <2> QED
    BY <1>2, <2>1 DEF Phase, Active
<1>4. J.patch = Nil
  BY <1>1, <1>2, <1>3 DEF Phase, Idle, Stopped, Aborting
<1> QED
  BY <1>2, <1>3, <1>4 DEF Resting, Idle

\* A step that leaves the program resting keeps the invariant.
LEMMA RestingGood ==
  ASSUME TraceAssumption, run = 0, Resting(J', at), UNCHANGED <<at, run>>
  PROVE  IInv'
<1>1. at # "mcode" /\ 0 \in Numbers
  BY TraceNumbers DEF TraceAssumption, VmEvents, Resting
<1> QED
  BY <1>1 DEF Resting, IInv, Good, Areas

\* The trace that is given up still knows where it begins.
LEMMA RestingBegins ==
  ASSUME TraceAssumption, NEW j, NEW a, Resting(j, a)
  PROVE  CurBegins(j)
<1>1. j \in JRec /\ Slots(j)
  BY DEF Resting, Heap
<1>2. CASE j.no = 0
  <2>1. \A n \in Traces : j.trace[n] # Cur
    BY <1>1, <1>2, TraceNumbers DEF Slots
  <2> QED
    BY <2>1 DEF CurBegins
<1>3. CASE j.no # 0
  <2>1. a # "mcode" /\ a # "jit"
    BY DEF Resting, TraceAssumption, VmEvents
  <2>2. Aborting(j)
    BY <1>3, <2>1 DEF Resting, Phase, Idle, Stopped, Active
  <2>3. j.cur.root = 0 => j.cur.pc \in Pcs
    BY <2>2 DEF Aborting, CurOK
  <2> QED
    BY <2>3 DEF CurBegins
<1> QED
  BY <1>2, <1>3

\* What the phase of a recording that is over depends on.
LEMMA RestingKept ==
  ASSUME TraceAssumption, NEW j, NEW a, Resting(j, a), NEW i \in JRec, Heap(i, 0),
         i.state = j.state, i.patch = j.patch, SameParent(i, j), SameStart(i, j),
         i.cur = j.cur, i.prot = j.prot, i.no \in {0, j.no},
         i.nojit \subseteq j.nojit \/ ~(a = "abort" /\ j.err = "downrec")
  PROVE  Resting(i, a)
<1>1. /\ a # "mcode" /\ a # "jit" /\ a \in Handlers \cup {"interp"} /\ Phase(j, a)
      /\ (a = "interp" => j.state = "idle")
  BY DEF Resting, TraceAssumption, VmEvents
<1>2. ASSUME Idle(j)
      PROVE  Idle(i)
  BY <1>2 DEF Idle, SameParent
<1>3. ASSUME Stopped(j)
      PROVE  Stopped(i)
  BY <1>3 DEF Stopped
<1>4. ASSUME Aborting(j), a = "abort"
      PROVE  Aborting(i)
  BY <1>4 DEF Aborting, CurOK, DownRec, AtPc, SameStart
<1>5. ~(a = "interp" /\ Active(j))
  BY <1>1 DEF Active
<1>6. Phase(i, a)
  BY <1>1, <1>2, <1>3, <1>4, <1>5 DEF Phase
<1> QED
  BY <1>1, <1>6 DEF Resting

\* The calls cancel a recording first.
LEMMA CancelRests ==
  ASSUME TraceAssumption, NEW j, NEW a, Resting(j, a), NEW i, i = Cancel(j)
  PROVE  /\ Resting(i, a) /\ SameTraces(i, j) /\ SameAreas(i, j) /\ SameStart(i, j)
<1> DEFINE s == IF j.state = "idle" THEN "idle" ELSE "off"
<1>1. j \in JRec /\ s \in JStates
  BY DEF Resting, JStates
<1>2. i = [j EXCEPT !.state = s]
  BY DEF Cancel
<1>3. s = "idle" => j.state = "idle"
  OBVIOUS
<1>4. s # "idle" => s = "off" /\ j.state # "idle"
  OBVIOUS
<1> HIDE DEF s
<1>5. /\ i \in JRec /\ SameTraces(i, j) /\ SameAreas(i, j) /\ SameParent(i, j)
      /\ SameStart(i, j) /\ i.cur = j.cur /\ i.state = s
  BY <1>1, <1>2, SetStateFacts
<1>6. Heap(i, 0)
  BY <1>5, SameTracesHeap DEF Resting, SameAreas
<1>7. i.patch = j.patch /\ i.no = j.no /\ i.nojit = j.nojit /\ i.prot = j.prot
  BY <1>5 DEF SameTraces, SameAreas
<1>8. CASE s = "idle"
  BY <1>3, <1>5, <1>6, <1>7, <1>8, RestingKept
<1>9. CASE s = "off" /\ j.state # "idle"
  <2>1. /\ a # "mcode" /\ a # "jit" /\ a \in Handlers \cup {"interp"} /\ Phase(j, a)
        /\ (a = "interp" => j.state = "idle")
    BY DEF Resting, TraceAssumption, VmEvents
  <2>2. ~Idle(j) /\ a # "interp"
    BY <1>9, <2>1 DEF Idle
  <2>3. ASSUME Stopped(j)
        PROVE  Stopped(i)
    BY <1>5, <1>7, <1>9, <2>3 DEF Stopped
  <2>4. ASSUME Aborting(j)
        PROVE  Aborting(i)
    BY <1>5, <1>7, <1>9, <2>4 DEF Aborting, CurOK, DownRec, AtPc, SameStart
  <2>5. Phase(i, a)
    BY <2>1, <2>2, <2>3, <2>4 DEF Phase
  <2> QED
    BY <1>5, <1>6, <1>7, <2>1, <2>2, <2>5 DEF Resting
<1> QED
  BY <1>4, <1>5, <1>8, <1>9

\* Flushing while nothing is recorded.
LEMMA FlushesRest ==
  ASSUME TraceAssumption, NEW j, NEW a, Resting(j, a)
  PROVE  /\ \A n \in Traces : Resting(FlushTrace(j, n), a)
         /\ \A f \in Protos : Resting(FlushProto(j, f), a)
         /\ Resting(FlushAll(j), a)
<1>1. j \in JRec /\ Heap(j, 0) /\ j.patch = Nil /\ CurBegins(j)
  BY RestingBegins DEF Resting
<1>2. ASSUME NEW i \in JRec, Heap(i, 0), SameRecording(i, j), i.no \in {0, j.no}
      PROVE  Resting(i, a)
  <2>1. /\ i.state = j.state /\ i.patch = j.patch /\ SameParent(i, j) /\ SameStart(i, j)
        /\ i.cur = j.cur /\ i.prot = j.prot /\ i.nojit \subseteq j.nojit
    BY <1>2 DEF SameRecording, SameParent, SameStart
  <2> QED
    BY <1>2, <2>1, RestingKept
<1>3. ASSUME NEW n \in Traces
      PROVE  Resting(FlushTrace(j, n), a)
  <2> DEFINE i == FlushTrace(j, n)
  <2>1. i \in JRec /\ Heap(i, 0) /\ Shrunk(i, j)
    BY <1>1, FlushesHeap
  <2> HIDE DEF i
  <2>2. SameRecording(i, j) /\ i.no \in {0, j.no}
    BY <2>1 DEF Shrunk, SameElse
  <2>3. Resting(i, a)
    BY <1>2, <2>1, <2>2
  <2> QED
    BY <2>3 DEF i
<1>4. ASSUME NEW f \in Protos
      PROVE  Resting(FlushProto(j, f), a)
  <2> DEFINE i == FlushProto(j, f)
  <2>1. i \in JRec /\ Heap(i, 0) /\ Shrunk(i, j)
    BY <1>1, FlushesHeap
  <2> HIDE DEF i
  <2>2. SameRecording(i, j) /\ i.no \in {0, j.no}
    BY <2>1 DEF Shrunk, SameElse
  <2>3. Resting(i, a)
    BY <1>2, <2>1, <2>2
  <2> QED
    BY <2>3 DEF i
<1>5. Resting(FlushAll(j), a)
  <2> DEFINE i == FlushAll(j)
  <2>1. i \in JRec /\ Heap(i, 0) /\ SameRecording(i, j) /\ i.no = 0
    BY <1>1, FlushesHeap
  <2> HIDE DEF i
  <2>2. Resting(i, a)
    BY <1>2, <2>1
  <2> QED
    BY <2>2 DEF i
<1> QED
  BY <1>3, <1>4, <1>5

\* jit.on() and jit.off().
LEMMA SetEngineStep ==
  ASSUME TraceAssumption, IInv, SetEngine
  PROVE  IInv'
<1>1. Resting(J, at) /\ run = 0 /\ UNCHANGED <<at, run>>
  BY CallingRests DEF SetEngine, SettingMode, Calling
<1>2. PICK on \in BOOLEAN : J' = [Cancel(J) EXCEPT !.on = on]
  BY DEF SetEngine
<1> DEFINE c == Cancel(J)
<1>3. Resting(c, at)
  BY <1>1, CancelRests
<1>4. J' = [c EXCEPT !.on = on]
  BY <1>2
<1> HIDE DEF c
<1>5. c \in JRec /\ Heap(c, 0)
  BY <1>3 DEF Resting
<1> DEFINE i == SetAreas(c, on, c.mcarea, c.prot, c.held)
<1>6. J' = i
  BY <1>4, <1>5 DEF SetAreas, JRec
<1>7. Flags(on, c.mcarea, c.prot, c.held)
  BY <1>5 DEF Flags, JRec
<1>8. /\ i \in JRec /\ SameTraces(i, c) /\ SameParent(i, c) /\ SameStart(i, c)
      /\ i.state = c.state /\ i.cur = c.cur
      /\ i.mcarea = c.mcarea /\ i.prot = c.prot /\ i.held = c.held
  BY <1>5, <1>7, SetAreasFacts
<1> HIDE DEF i
<1>9. Heap(i, 0)
  BY <1>5, <1>8, SameTracesHeap
<1>10. i.patch = c.patch /\ i.no = c.no /\ i.nojit \subseteq c.nojit
  BY <1>8 DEF SameTraces
<1>11. Resting(i, at)
  BY <1>3, <1>8, <1>9, <1>10, RestingKept
<1> QED
  BY <1>1, <1>6, <1>11, RestingGood

\* jit.flush().
LEMMA FlushStep ==
  ASSUME TraceAssumption, IInv, Flush
  PROVE  IInv'
<1>1. Resting(J, at) /\ run = 0 /\ UNCHANGED <<at, run>>
  BY CallingRests DEF Flush, SettingMode, Calling
<1> DEFINE c == Cancel(J)
<1>2. Resting(c, at)
  BY <1>1, CancelRests
<1>3. \/ J' = FlushAll(c)
      \/ \E n \in Traces : J' = FlushTrace(c, n)
      \/ \E f \in Protos : J' = FlushProto(c, f)
  BY DEF Flush
<1> HIDE DEF c
<1>4. Resting(J', at)
  BY <1>2, <1>3, FlushesRest
<1> QED
  BY <1>1, <1>4, RestingGood

\* debug.sethook.
LEMMA SetHookStep ==
  ASSUME TraceAssumption, IInv, NEW mask, SetHook(mask)
  PROVE  IInv'
<1>1. Resting(J, at) /\ run = 0 /\ UNCHANGED <<at, run>>
  BY CallingRests DEF SetHook, Calling
<1>2. J' = Cancel(J) \/ J' = Cancel(FlushAll(J))
  BY DEF SetHook
<1>3. Resting(FlushAll(J), at)
  BY <1>1, FlushesRest
<1>4. Resting(J', at)
  BY <1>1, <1>2, <1>3, CancelRests
<1> QED
  BY <1>1, <1>4, RestingGood

\* Prototypes are switched on and off.
LEMMA SetNojit ==
  ASSUME NEW j \in JRec, NEW x \in SUBSET Protos, NEW i, i = [j EXCEPT !.nojit = x]
  PROVE  /\ i \in JRec /\ i.trace = j.trace /\ i.chain = j.chain /\ i.held = j.held
         /\ i.no = j.no /\ i.freetrace = j.freetrace /\ i.nojit = x
         /\ i.mcarea = j.mcarea /\ i.ins = j.ins /\ i.patch = j.patch /\ i.prot = j.prot
         /\ i.state = j.state /\ i.cur = j.cur /\ SameParent(i, j) /\ SameStart(i, j)
         /\ i.on = j.on
<1>1. i \in JRec
  BY DEF JRec
<1> QED
  BY <1>1 DEF JRec, SameParent, SameStart

\* jit.on(f) and jit.off(f).
LEMMA SetProtoStep ==
  ASSUME TraceAssumption, IInv, NEW f \in Protos, SetProto(f)
  PROVE  IInv'
<1>1. Resting(J, at) /\ run = 0 /\ UNCHANGED <<at, run>>
  BY CallingRests DEF SetProto, SettingMode, Calling
<1> DEFINE c == Cancel(J)
<1>2. Resting(c, at) /\ SameStart(c, J)
  BY <1>1, CancelRests
<1>3. ~(at = "abort" /\ c.err = "downrec")
  BY <1>2 DEF SetProto, SameStart
<1>4. \/ J' = Reenable([c EXCEPT !.nojit = @ \ {f}], f)
      \/ J' = FlushProto([c EXCEPT !.nojit = @ \cup {f}], f)
  BY DEF SetProto
<1> HIDE DEF c
<1>5. c \in JRec /\ Heap(c, 0) /\ c.patch = Nil
  BY <1>2 DEF Resting
<1>6. CASE J' = Reenable([c EXCEPT !.nojit = @ \ {f}], f)
  <2> DEFINE x == c.nojit \ {f}
             k == [c EXCEPT !.nojit = x]
  <2>1. x \in SUBSET Protos /\ x \subseteq c.nojit
    BY <1>5 DEF JRec
  <2>2. J' = Reenable(k, f)
    BY <1>6
  <2> HIDE DEF x
  <2>3. /\ k \in JRec /\ k.trace = c.trace /\ k.chain = c.chain /\ k.held = c.held
        /\ k.no = c.no /\ k.freetrace = c.freetrace /\ k.nojit = x
        /\ k.mcarea = c.mcarea /\ k.ins = c.ins /\ k.patch = c.patch /\ k.prot = c.prot
        /\ k.state = c.state /\ k.cur = c.cur /\ SameParent(k, c) /\ SameStart(k, c)
    BY <1>5, <2>1, SetNojit
  <2> HIDE DEF k
  <2>4. SameHeap(k, c)
    BY <2>1, <2>3 DEF SameHeap
  <2>5. Heap(k, 0)
    BY <1>5, <2>3, <2>4, HeapKept
  <2>6. Linked(k) /\ k.patch = Nil
    BY <1>5, <2>3, <2>5 DEF Heap
  <2> DEFINE i == Reenable(k, f)
  <2>7. i \in JRec /\ Linked(i) /\ Rebound(i, k) /\ i.patch = Nil
    BY <2>3, <2>6, ReenableFacts
  <2>8. J' = i
    BY <2>2
  <2> HIDE DEF i
  <2>9. Heap(i, 0)
    BY <2>5, <2>7, HeapRebound
  <2>10. /\ i.state = k.state /\ i.prot = k.prot /\ i.cur = k.cur /\ i.no = k.no
         /\ SameParent(i, k) /\ SameStart(i, k)
    BY <2>7 DEF Rebound, SameRest, SameParent, SameStart
  <2>11. /\ i.state = c.state /\ i.prot = c.prot /\ i.cur = c.cur /\ i.no = c.no
         /\ SameParent(i, c) /\ SameStart(i, c) /\ i.patch = c.patch
    BY <1>5, <2>3, <2>7, <2>10 DEF SameParent, SameStart
  <2>12. Resting(i, at)
    BY <1>2, <1>3, <2>7, <2>9, <2>11, RestingKept
  <2> QED
    BY <1>1, <2>8, <2>12, RestingGood
<1>7. CASE J' = FlushProto([c EXCEPT !.nojit = @ \cup {f}], f)
  <2> DEFINE x == c.nojit \cup {f}
             k == [c EXCEPT !.nojit = x]
             i == FlushProto(k, f)
  <2>1. x \in SUBSET Protos
    BY <1>5 DEF JRec
  <2>2. J' = i
    BY <1>7
  <2>3. i \in JRec /\ Heap(i, 0) /\ SameElse(i, k)
    <3>1. k = [c EXCEPT !.nojit = @ \cup {f}]
      OBVIOUS
    <3> HIDE DEF k
    <3> QED
      BY <1>5, <3>1, FlushOffHeap
  <2> HIDE DEF x, i
  <2>4. /\ k \in JRec /\ k.no = c.no /\ k.patch = c.patch /\ k.prot = c.prot
        /\ k.state = c.state /\ k.cur = c.cur /\ SameParent(k, c) /\ SameStart(k, c)
    BY <1>5, <2>1, SetNojit
  <2> HIDE DEF k
  <2>5. /\ i.state = c.state /\ i.prot = c.prot /\ i.cur = c.cur /\ i.no = c.no
        /\ SameParent(i, c) /\ SameStart(i, c) /\ i.patch = c.patch
    BY <2>3, <2>4 DEF SameElse, SameRecording, SameParent, SameStart
  <2>6. Resting(i, at)
    BY <1>2, <1>3, <2>3, <2>5, RestingKept
  <2> QED
    BY <1>1, <2>2, <2>6, RestingGood
<1> QED
  BY <1>4, <1>6, <1>7

-----------------------------------------------------------------------------
\* Hooks, finalizers and the collector

\* The interpreter runs, between recorded instructions or without a recording.
LEMMA InterpState ==
  ASSUME TraceAssumption, IInv, at = "interp"
  PROVE  /\ J \in JRec /\ run = 0 /\ Heap(J, 0) /\ J.prot = "run"
         /\ Idle(J) \/ (Active(J) /\ J.state \in {"record", "off"})
<1>1. J \in JRec /\ run = 0 /\ Heap(J, 0) /\ Phase(J, at) /\ J.prot = "run"
  BY DEF IInv, Good, Areas
<1>2. Idle(J) \/ (Active(J) /\ J.state \in {"record", "off"})
  BY <1>1 DEF Phase
<1> QED
  BY <1>1, <1>2

\* A recording that is cancelled there is noticed later.
LEMMA CancelStep ==
  ASSUME TraceAssumption, IInv, at = "interp", J' = Cancel(J), UNCHANGED <<at, run>>
  PROVE  IInv'
<1>1. /\ J \in JRec /\ run = 0 /\ Heap(J, 0) /\ J.prot = "run"
      /\ Idle(J) \/ (Active(J) /\ J.state \in {"record", "off"})
  BY InterpState
<1>2. CASE Idle(J)
  <2>1. J.state = "idle"
    BY <1>2 DEF Idle
  <2>2. Resting(J, at)
    BY <2>1, CallingRests
  <2>3. Resting(J', at)
    BY <2>2, CancelRests
  <2> QED
    BY <1>1, <2>3, RestingGood
<1>3. CASE Active(J) /\ J.state \in {"record", "off"}
  <2> DEFINE i == [J EXCEPT !.state = "off"]
  <2>1. J' = i
    BY <1>3 DEF Cancel
  <2>2. Recording(J) /\ "off" \in JStates
    BY <1>3 DEF Active, Recording, JStates
  <2>3. /\ i \in JRec /\ Heap(i, 0) /\ Recording(i) /\ SameAreas(i, J)
        /\ i.cur = J.cur /\ i.state = "off" /\ i.patch = J.patch
    BY <1>1, <2>2, SetStateRecording
  <2> HIDE DEF i
  <2>4. J.cur.link = 0
    BY <1>3 DEF Active
  <2>5. Active(i)
    BY <2>3, <2>4 DEF Active, Recording
  <2>6. Phase(i, "interp") /\ Areas(i, "interp")
    BY <1>1, <2>3, <2>5 DEF Phase, Areas, SameAreas
  <2> QED
    BY <1>1, <2>1, <2>3, <2>6 DEF IInv, Good
<1> QED
  BY <1>1, <1>2, <1>3

\* A function is loaded and the handler of the event is called.
LEMMA LoadStep ==
  ASSUME TraceAssumption, IInv, Load
  PROVE  IInv'
<1>1. J \in JRec /\ Heap(J, 0) /\ Idle(J) /\ J.prot = "run"
  BY IdleState, InterpState DEF Load
<1>2. Phase(J, "bc")
  BY <1>1 DEF Phase
<1>3. "bc" \in Handlers /\ ToHandler("bc", J)
  BY DEF Load
<1> QED
  BY <1>1, <1>2, <1>3, ToHandlerGood DEF IInv

\* The cancelled recording is noticed.
LEMMA NoticeStep ==
  ASSUME TraceAssumption, IInv, Notice
  PROVE  IInv'
<1>1. at = "interp" /\ J.state = "off" /\ J' = J /\ at' = "jit" /\ run' = run
  BY DEF Notice
<1>2. /\ J \in JRec /\ run = 0 /\ Heap(J, 0) /\ J.prot = "run"
      /\ Idle(J) \/ (Active(J) /\ J.state \in {"record", "off"})
  BY <1>1, InterpState
<1>3. Phase(J, "jit") /\ Areas(J, "jit")
  BY <1>1, <1>2 DEF Phase, Areas, Idle
<1> QED
  BY <1>1, <1>2, <1>3, TraceNumbers DEF IInv, Good

\* A trace is collected.
LEMMA CollectStep ==
  ASSUME TraceAssumption, IInv, NEW n, CollectTrace(n)
  PROVE  IInv'
<1>1. at \notin {"jit", "mcode"} /\ n \in Saved(J) \ Reachable(J) /\ UNCHANGED <<at, run>>
  BY DEF CollectTrace
<1>2. J.state # "idle" => n # J.parent /\ n # J.exitno /\ n # J.cur.root
  BY DEF CollectTrace
<1>3. J \in JRec /\ run = 0 /\ Heap(J, 0) /\ J.prot = "run"
  BY <1>1 DEF IInv, Good, Areas
<1> DEFINE i == Swept(J, n)
<1>4. J' = i
  BY DEF CollectTrace, Swept
<1>5. /\ i \in JRec /\ SameRecording(i, J) /\ i.no = J.no /\ Heap(i, 0) /\ i.ins = J.ins
      /\ Saved(i) = Saved(J) \ {n} /\ \A m \in Saved(i) : i.trace[m] = J.trace[m]
  BY <1>1, <1>3, CollectFacts
<1> HIDE DEF i
<1>6. /\ i.state = J.state /\ i.patch = J.patch /\ SameParent(i, J) /\ SameStart(i, J)
      /\ i.cur = J.cur /\ i.prot = J.prot /\ i.nojit = J.nojit
  BY <1>5 DEF SameRecording, SameParent, SameStart
<1>7. CASE at \in Handlers \/ (at = "interp" /\ J.state = "idle")
  <2>1. Resting(J, at)
    BY <1>7, CallingRests
  <2>2. Resting(i, at)
    BY <1>5, <1>6, <2>1, RestingKept
  <2> QED
    BY <1>1, <1>3, <1>4, <2>2, RestingGood
<1>8. CASE at = "interp" /\ J.state # "idle"
  <2>1. Active(J) /\ J.state \in {"record", "off"}
    BY <1>8, InterpState DEF Idle
  <2>2. Recording(J)
    BY <2>1 DEF Active, Recording
  <2>3. \A m \in {J.parent, J.exitno, J.cur.root} :
          m \in Saved(J) => m \in Saved(i) /\ i.trace[m].root = J.trace[m].root
    BY <1>2, <1>5, <1>8
  <2>4. J.parent = 0 /\ J.exitno = 0 =>
          ~IsJit(i, J.cur.pc) /\ (i.patch # Nil => i.patch.pc # J.cur.pc)
    BY <1>5, <1>6, <2>2 DEF Recording, Grounded, IsJit
  <2>5. SameCur(i, J) /\ i.nojit \subseteq J.nojit
    BY <1>6 DEF SameCur
  <2>6. Recording(i)
    BY <1>5, <1>6, <2>2, <2>3, <2>4, <2>5, RecordingKept
  <2>7. J.cur.link = 0
    BY <2>1 DEF Active
  <2>8. Active(i)
    BY <1>6, <2>1, <2>6, <2>7 DEF Active, Recording
  <2>9. Phase(i, "interp") /\ Areas(i, "interp")
    BY <1>3, <1>6, <2>1, <2>8 DEF Phase, Areas
  <2> QED
    BY <1>1, <1>3, <1>4, <1>5, <1>8, <2>9, TraceNumbers DEF IInv, Good
<1>9. at \in {"interp", "mcode", "jit"} \cup Handlers
  BY DEF IInv, Good
<1> QED
  BY <1>1, <1>7, <1>8, <1>9

-----------------------------------------------------------------------------
\* The invariant

\* At first there are no traces.
LEMMA InitGood ==
  ASSUME TraceAssumption, Init
  PROVE  IInv
<1>1. /\ at = "interp" /\ run = 0 /\ J.state = "idle" /\ J.no = 0 /\ J.parent = 0
      /\ J.exitno = 0 /\ J.patch = Nil /\ J.trace = [n \in Traces |-> Nil] /\ J.held = Nil
      /\ J.ins = [p \in Pcs |-> Orig] /\ J.chain = [f \in Protos |-> 0] /\ J.nojit = {}
      /\ J.freetrace = 0 /\ J.prot = "run"
  BY DEF Init
<1>2. J \in JRec
  <2>1. /\ 0 \in Numbers /\ 0 \in 0..(MaxTrace + 1) /\ 0 \in 0..MaxTrace
    BY DEF TraceAssumption, Numbers
  <2>2. NoTrace \in TraceRecs
    BY <2>1 DEF NoTrace, TraceRecs, LinkTypes, Kinds
  <2>3. Orig \in Inses
    BY <2>1 DEF Orig, Inses
  <2>4. /\ [n \in Traces |-> Nil] \in [Traces -> TraceRecs \cup {Nil, Cur}]
        /\ [p \in Pcs |-> Orig] \in [Pcs -> Inses]
        /\ [f \in Protos |-> 0] \in [Protos -> Numbers]
    BY <2>1, <2>3
  <2>5. "idle" \in JStates /\ "none" \in Errors
    BY DEF JStates, Errors
  <2> QED
    BY <2>1, <2>2, <2>4, <2>5 DEF Init, JRec
<1>3. Saved(J) = {} /\ \A p \in Pcs : ~IsJit(J, p) /\ J.ins[p].d = 0
  BY <1>1 DEF Saved, IsJit, Orig
<1>4. \A f \in Protos : Owned(J, f) = {} /\ J.chain[f] = 0
  BY <1>1, <1>3 DEF Owned
<1>5. Linked(J)
  BY <1>1, <1>3, <1>4 DEF Linked, Path
<1>6. Live(J, 0)
  <2>1. {} \in SUBSET Traces /\ Kept(J, {}) /\ Enterable(J, 0, {}) /\ Wired(J, {})
    BY <1>1, <1>3, <1>4 DEF Kept, Enterable, Wired
  <2> QED
    BY <1>3, <2>1 DEF Live
<1>7. Slots(J)
  <2>1. Nil # Cur /\ 0 \notin Traces /\ \A n \in Traces : ~(n < 0)
    BY DEF TraceAssumption, Traces
  <2> QED
    BY <1>1, <2>1 DEF Slots
<1>8. Heap(J, 0)
  BY <1>1, <1>3, <1>5, <1>6, <1>7 DEF Heap
<1>9. Idle(J)
  BY <1>1 DEF Idle
<1> QED
  BY <1>1, <1>2, <1>8, <1>9, TraceNumbers DEF IInv, Good, Phase, Areas

\* Every step keeps it.
LEMMA StepGood ==
  ASSUME TraceAssumption, IInv, [Next]_vars
  PROVE  IInv'
<1>1. CASE Start
  BY <1>1, StartStep
<1>2. CASE Record
  BY <1>2, RecordStep
<1>3. CASE End
  BY <1>3, EndStep
<1>4. CASE Asm
  BY <1>4, AsmStep
<1>5. CASE Abort
  BY <1>5, AbortStep
<1>6. CASE HandlerReturns
  BY <1>6, HandlerReturnsStep
<1>7. CASE Jump
  BY <1>7, JumpStep
<1>8. CASE CallC
  BY <1>8, CallCStep
<1>9. CASE Leave
  BY <1>9, LeaveStep
<1>10. CASE HotSide
  BY <1>10, HotSideStep
<1>11. CASE StitchReturn
  BY <1>11, StitchReturnStep
<1>12. CASE SetEngine
  BY <1>12, SetEngineStep
<1>13. CASE Flush
  BY <1>13, FlushStep
<1>14. CASE HookCalled
  BY <1>14, CancelStep DEF HookCalled
<1>15. CASE Load
  BY <1>15, LoadStep
<1>16. CASE Finalizer
  BY <1>16, CancelStep DEF Finalizer
<1>17. CASE Notice
  BY <1>17, NoticeStep
<1>18. CASE FinalizerReturns \/ Timer \/ ProfileHook \/ UNCHANGED vars
  <2>1. UNCHANGED <<J, at, run>>
    BY <1>18 DEF FinalizerReturns, Timer, ProfileHook, vars
  <2> QED
    BY <2>1 DEF IInv
<1>19. ASSUME NEW p \in Pcs, Hot(p) \/ Enter(p)
       PROVE  IInv'
  BY <1>19, HotStep, EnterStep
<1>20. ASSUME NEW f \in Protos, SetProto(f)
       PROVE  IInv'
  BY <1>20, SetProtoStep
<1>21. ASSUME NEW m \in HookMasks, SetHook(m)
       PROVE  IInv'
  BY <1>21, SetHookStep
<1>22. ASSUME NEW n \in Traces, CollectTrace(n)
       PROVE  IInv'
  BY <1>22, CollectStep
<1> QED
  BY <1>1, <1>2, <1>3, <1>4, <1>5, <1>6, <1>7, <1>8, <1>9, <1>10, <1>11, <1>12, <1>13, <1>14,
     <1>15, <1>16, <1>17, <1>18, <1>19, <1>20, <1>21, <1>22 DEF Next

-----------------------------------------------------------------------------
\* The dispatch fields, only as far as their types go.

Shaped(w) ==
  w \in [hooks : SUBSET Hooks, mode : {w.mode}, disp : {w.disp}, ev : SUBSET Hooks,
         fin : SUBSET Hooks]

\* An update, also an interrupted one, only sets the request of the profiler.
LEMMA SetHooksShaped ==
  ASSUME NEW w, Shaped(w), NEW h \in SUBSET Hooks, NEW e \in SUBSET Hooks
  PROVE  /\ Shaped([w EXCEPT !.hooks = h])
         /\ Shaped([w EXCEPT !.hooks = h, !.ev = e])
         /\ Shaped([w EXCEPT !.hooks = h, !.fin = e])
BY DEF Shaped

\* Mode and table are of no importance here.
LEMMA SetModeShaped ==
  ASSUME NEW w, Shaped(w), NEW m, NEW d
  PROVE  /\ Shaped([w EXCEPT !.mode = m, !.disp = d]) /\ Shaped([w EXCEPT !.mode = m])
BY DEF Shaped

\* lj_dispatch_update without a signal.
LEMMA UpdatedShaped ==
  ASSUME NEW w, Shaped(w), NEW on, NEW state
  PROVE  Shaped(Updated(w, on, state))
BY SetModeShaped DEF Updated

\* The signal of the profiler.
LEMMA TriggeredShaped ==
  ASSUME NEW w, Shaped(w), NEW on, NEW state
  PROVE  Shaped(Triggered(w, on, state))
<1> DEFINE h == w.hooks \cup {"profile"}
           k == [w EXCEPT !.hooks = h]
<1>1. h \in SUBSET Hooks
  BY Zenon DEF Shaped, Hooks
<1> HIDE DEF h
<1>2. Shaped(k)
  BY <1>1, SetHooksShaped
<1>3. Triggered(w, on, state) = Updated(k, on, state)
  BY DEF Triggered, h
<1> HIDE DEF k
<1> QED
  BY <1>2, <1>3, UpdatedShaped

\* lj_dispatch_update, whether or not a signal arrives inside.
LEMMA DispatchShaped ==
  ASSUME NEW w, Shaped(w), NEW on, NEW state, NEW signals,
         NEW v \in DispatchUpdate(w, on, state, signals)
  PROVE  Shaped(v)
<1> DEFINE new == Mode(on, state, w.hooks)
           late == Triggered([w EXCEPT !.mode = new], on, state)
           early == Triggered(w, on, state)
<1>1. \/ v = Updated(w, on, state)
      \/ \E m, d : v = [early EXCEPT !.mode = m, !.disp = d]
      \/ \E m, d : v = [late EXCEPT !.mode = m, !.disp = d]
  BY DEF DispatchUpdate, Interrupted
<1>2. Shaped(early)
  BY TriggeredShaped
<1>3. Shaped(late)
  <2> DEFINE k == [w EXCEPT !.mode = new]
  <2>1. Shaped(k)
    BY SetModeShaped
  <2> HIDE DEF k
  <2>2. Shaped(Triggered(k, on, state))
    BY <2>1, TriggeredShaped
  <2> QED
    BY <2>2 DEF k
<1>4. Shaped(Updated(w, on, state))
  BY UpdatedShaped
<1> HIDE DEF early, late
<1>5. ASSUME NEW m, NEW d
      PROVE  Shaped([early EXCEPT !.mode = m, !.disp = d])
  BY <1>2, SetModeShaped
<1>6. ASSUME NEW m, NEW d
      PROVE  Shaped([late EXCEPT !.mode = m, !.disp = d])
  BY <1>3, SetModeShaped
<1>7. CASE \E m, d : v = [early EXCEPT !.mode = m, !.disp = d]
  <2>1. PICK m, d : v = [early EXCEPT !.mode = m, !.disp = d]
    BY <1>7
  <2>2. Shaped([early EXCEPT !.mode = m, !.disp = d])
    BY <1>5
  <2> QED
    BY <2>1, <2>2, Zenon
<1>8. CASE \E m, d : v = [late EXCEPT !.mode = m, !.disp = d]
  <2>1. PICK m, d : v = [late EXCEPT !.mode = m, !.disp = d]
    BY <1>8
  <2>2. Shaped([late EXCEPT !.mode = m, !.disp = d])
    BY <1>6
  <2> QED
    BY <2>1, <2>2, Zenon
<1> QED
  BY <1>1, <1>4, <1>7, <1>8, Zenon

\* The ends of recordings and handlers.
LEMMA EndsShaped ==
  ASSUME NEW w, Shaped(w), NEW j
  PROVE  /\ Shaped(AfterHandler(w))
         /\ ToIdle(j, w) => Shaped(vm')
         /\ Aborted(j, w) => Shaped(vm')
<1>1. Shaped(AfterHandler(w))
  <2>1. (w.hooks \ {"vmevent", "profile"}) \cup w.ev \in SUBSET Hooks /\ {} \in SUBSET Hooks
    BY DEF Shaped
  <2> QED
    BY <2>1, SetHooksShaped DEF AfterHandler
<1>2. ASSUME NEW k, NEW v, Shaped(v), ToIdle(k, v)
      PROVE  Shaped(vm')
  BY <1>2, DispatchShaped DEF ToIdle
<1>3. ASSUME Aborted(j, w)
      PROVE  Shaped(vm')
  <2>1. PICK v : /\ vm' = v \/ \E k : ToIdle(k, v)
                 /\ v = w \/ \E on, state : v \in DispatchUpdate(w, on, state, Interrupts)
    BY <1>3, Zenon DEF Aborted
  <2>2. Shaped(v)
    BY <2>1, DispatchShaped
  <2> QED
    BY <1>2, <2>1, <2>2, Zenon
<1> QED
  BY <1>1, <1>2, <1>3, Zenon

\* A handler is called.
LEMMA HandlerShaped ==
  ASSUME Shaped(vm), NEW e, NEW j, ToHandler(e, j)
  PROVE  Shaped(vm')
<1>1. /\ vm.hooks \cup {"vmevent"} \in SUBSET Hooks
      /\ vm.ev \cup (vm.hooks \cap {"profile"}) \in SUBSET Hooks
  BY Zenon DEF Shaped, Hooks
<1> QED
  BY <1>1, SetHooksShaped DEF ToHandler

\* Every step.
LEMMA StepShaped ==
  ASSUME TraceAssumption, Shaped(vm), [Next]_vars
  PROVE  Shaped(vm')
<1>1. vm.hooks \in SUBSET Hooks /\ vm.fin \in SUBSET Hooks
  BY DEF Shaped
<1>2. CASE Start
  <2>1. vm' = vm \/ \E j : vm' \in DispatchUpdate(vm, j.on, j.state, Interrupts)
    BY <1>2 DEF Start
  <2> QED
    BY <2>1, DispatchShaped
<1>3. CASE Asm
  <2>1. \/ vm' = vm \/ \E k : ToHandler("stop", TraceStop(k))
        \/ \E k : ToIdle(TraceStop(k), vm)
    BY <1>3 DEF Asm
  <2> QED
    BY <2>1, EndsShaped, HandlerShaped
<1>4. CASE Abort
  <2>1. vm' = vm \/ (\E l : ToHandler("abort", l)) \/ \E k : Aborted(k, vm)
    BY <1>4 DEF Abort
  <2> QED
    BY <2>1, EndsShaped, HandlerShaped
<1>5. CASE HandlerReturns
  <2> DEFINE w == AfterHandler(vm)
  <2>1. vm' = w \/ ToIdle(J, w) \/ \E j : Aborted(j, w)
    BY <1>5 DEF HandlerReturns
  <2>2. Shaped(w)
    BY EndsShaped
  <2> HIDE DEF w
  <2> QED
    BY <2>1, <2>2, EndsShaped
<1>6. CASE SetEngine
  <2>1. PICK on, state : vm' \in DispatchUpdate(vm, on, state, Interrupts)
    BY <1>6 DEF SetEngine
  <2> QED
    BY <2>1, DispatchShaped
<1>7. ASSUME NEW mask \in HookMasks, SetHook(mask)
      PROVE  Shaped(vm')
  <2> DEFINE h == (vm.hooks \ Events) \cup mask
             w == [vm EXCEPT !.hooks = h]
  <2>1. h \in SUBSET Hooks
    BY <1>1, <1>7, Zenon DEF TraceAssumption, Hooks
  <2>2. vm' \in DispatchUpdate(w, J.on, J'.state, Interrupts)
    BY <1>7 DEF SetHook
  <2> HIDE DEF h
  <2>3. Shaped(w)
    BY <2>1, SetHooksShaped
  <2> HIDE DEF w
  <2> QED
    BY <2>2, <2>3, DispatchShaped
<1>8. CASE Finalizer
  <2> DEFINE h == (vm.hooks \cup {"gc"}) \ {"profile"}
             f == vm.hooks \cap {"profile"}
             w == [vm EXCEPT !.hooks = h, !.fin = f]
  <2>1. h \in SUBSET Hooks /\ f \in SUBSET Hooks
    BY <1>1, Zenon DEF Hooks
  <2>2. vm' = w \/ vm' = Updated(w, J.on, J'.state)
    BY <1>8 DEF Finalizer
  <2> HIDE DEF h, f
  <2>3. Shaped(w)
    BY <2>1, SetHooksShaped
  <2> HIDE DEF w
  <2> QED
    BY <2>2, <2>3, UpdatedShaped
<1>9. CASE FinalizerReturns
  <2> DEFINE h == (vm.hooks \ {"gc", "profile"}) \cup vm.fin
             w == [vm EXCEPT !.hooks = h, !.fin = {}]
  <2>1. h \in SUBSET Hooks /\ {} \in SUBSET Hooks
    BY <1>1, Zenon
  <2>2. vm' = w \/ vm' = Updated(w, J.on, J.state)
    BY <1>9 DEF FinalizerReturns
  <2> HIDE DEF h
  <2>3. Shaped(w)
    BY <2>1, SetHooksShaped
  <2> HIDE DEF w
  <2> QED
    BY <2>2, <2>3, UpdatedShaped
<1>10. CASE Load
  BY <1>10, HandlerShaped DEF Load
<1>11. CASE Timer
  BY <1>11, TriggeredShaped DEF Timer
<1>12. CASE ProfileHook
  <2> DEFINE mask == vm.hooks \ {"profile"}
             cb == Updated([vm EXCEPT !.hooks = {"vmevent"}], J.on, J.state)
             v == IF "vmevent" \in mask THEN vm ELSE cb
             w == [v EXCEPT !.hooks = mask]
  <2>1. mask \in SUBSET Hooks /\ {"vmevent"} \in SUBSET Hooks
    BY <1>1, Zenon DEF Hooks
  <2>2. vm' = Updated(w, J.on, J.state)
    BY <1>12 DEF ProfileHook
  <2>3. Shaped(cb)
    BY <2>1, SetHooksShaped, UpdatedShaped
  <2> HIDE DEF cb
  <2>4. Shaped(v)
    BY <2>3
  <2> HIDE DEF v, mask
  <2>5. Shaped(w)
    BY <2>1, <2>4, SetHooksShaped
  <2> HIDE DEF w
  <2> QED
    BY <2>2, <2>5, UpdatedShaped
<1>13. CASE UNCHANGED vm
  BY <1>13
<1>14. \/ Start \/ Asm \/ Abort \/ HandlerReturns \/ SetEngine \/ Finalizer
       \/ FinalizerReturns \/ Load \/ Timer \/ ProfileHook \/ UNCHANGED vm
       \/ \E m \in HookMasks : SetHook(m)
  BY DispatchSteps
<1> QED
  BY <1>2, <1>3, <1>4, <1>5, <1>6, <1>7, <1>8, <1>9, <1>10, <1>11, <1>12, <1>13, <1>14

-----------------------------------------------------------------------------
\* What the invariant says about the properties

\* The chains are what the patched bytecode says.
LEMMA GoodChains ==
  ASSUME TraceAssumption, IInv
  PROVE  PatchedIsLive /\ ChainExact
<1>1. J \in JRec /\ Linked(J)
  BY DEF IInv, Good, Heap
<1>2. PatchedIsLive
  BY <1>1 DEF PatchedIsLive, Linked, Begins
<1>3. ASSUME NEW f \in Protos
      PROVE  ChainOf(J, f) = Owned(J, f)
  BY <1>1, <1>3, LinkedChain
<1> QED
  BY <1>2, <1>3 DEF ChainExact, Owned

\* What is entered from a set that is closed under entering stays in it.
LEMMA GoodJumps ==
  ASSUME TraceAssumption, IInv
  PROVE  JumpsLive
<1>1. J \in JRec /\ Linked(J) /\ Live(J, run) /\ run \in Numbers
  BY DEF IInv, Good, Heap
<1>2. PICK A \in SUBSET Traces : Enterable(J, run, A)
  BY <1>1 DEF Live
<1> DEFINE h == IF J.held \in Saved(J) THEN {J.trace[J.held].link} \ {J.held} ELSE {}
           S == ({run} \cup h \cup {J.ins[p].d : p \in Pcs}) \ {0}
           next == [n \in Traces |-> IF n \in Saved(J) THEN JumpsTo(J.trace[n]) \ {0} ELSE {}]
<1>3. ASSUME NEW p \in Pcs
      PROVE  J.ins[p].d \in A \cup {0}
  <2>1. CASE IsJit(J, p)
    <3>1. J.ins[p].d \in Owned(J, Proto[p]) /\ Proto[p] \in Protos
      BY <2>1 DEF Owned, Protos
    <3>2. Owned(J, Proto[p]) \subseteq A
      BY <1>1, <1>2, <3>1, OwnedFound DEF Enterable
    <3> QED
      BY <3>1, <3>2
  <2>2. CASE ~IsJit(J, p)
    BY <1>1, <2>2 DEF Linked
  <2> QED
    BY <2>1, <2>2
<1>4. S \subseteq A
  BY <1>2, <1>3 DEF Enterable
<1>5. ASSUME NEW m \in A
      PROVE  next[m] \subseteq A
  <2>1. J.trace[m].link \in A \cup {0} /\ J.trace[m].exit \in A \cup {0}
    BY <1>2 DEF Enterable
  <2> QED
    BY <2>1 DEF JumpsTo
<1>6. Closure(S, next) \subseteq A
  <2> HIDE DEF S, next
  <2> QED
    BY <1>4, <1>5, ClosureLeast
<1>7. A \subseteq Saved(J)
  BY <1>2 DEF Enterable
<1>8. {J.held} \ {0, Nil} \subseteq Saved(J)
  <2>1. J.held \in {0, Nil} \/ J.held \in Traces
    BY <1>1, TraceNumbers DEF JRec
  <2> QED
    BY <1>1, <2>1, HeldSaved
<1> QED
  BY <1>6, <1>7, <1>8 DEF JumpsLive, Entered

\* Only recordings that are complete, or go on, refer to traces.
LEMMA RefersToNone ==
  ASSUME TraceAssumption, IInv, at # "jit"
  PROVE  J.no = 0 \/ Refs(J.cur) = {}
<1>1. Phase(J, at)
  BY DEF IInv, Good
<1>2. J.no = 0 \/ (Active(J) /\ J.state \in {"record", "off"}) \/ Aborting(J)
  BY <1>1 DEF Phase, Idle, Stopped
<1>3. J.no = 0 \/ (CurOK(J) /\ J.cur.link = 0)
  BY <1>2 DEF Active, Aborting
<1> QED
  BY <1>3 DEF CurOK, Refs

\* The marked traces exist, so that the slot of a recording is not among them.
LEMMA GoodMarks ==
  ASSUME TraceAssumption, IInv, at # "jit"
  PROVE  Reachable(J) \subseteq Saved(J)
<1>1. J \in JRec /\ Live(J, run)
  BY DEF IInv, Good, Heap
<1>2. PICK M \in SUBSET Traces : Kept(J, M)
  BY <1>1 DEF Live
<1> DEFINE S == ({J.chain[f] : f \in Protos} \cup {J.held}
                 \cup (IF J.no # 0 THEN Refs(J.cur) ELSE {})) \ {0, Nil}
           next == [n \in Traces |-> IF J.trace[n] = Nil THEN {} ELSE Refs(TraceRef(J, n))]
<1>3. S \subseteq M
  BY <1>2, RefersToNone DEF Kept
<1>4. ASSUME NEW m \in M
      PROVE  next[m] \subseteq M
  <2>1. m \in Traces /\ m \in Saved(J)
    BY <1>2 DEF Kept
  <2>2. TraceRef(J, m) = J.trace[m]
    BY <2>1 DEF TraceRef, Saved
  <2>3. Refs(J.trace[m]) \subseteq M
    BY <1>2 DEF Kept, Refs
  <2> QED
    BY <2>1, <2>2, <2>3
<1>5. Closure(S, next) \subseteq M
  <2> HIDE DEF S, next
  <2> QED
    BY <1>3, <1>4, ClosureLeast
<1>6. M \subseteq Saved(J)
  BY <1>2 DEF Kept
<1> QED
  BY <1>5, <1>6 DEF Reachable

\* Slots and recordings match.
LEMMA GoodState ==
  ASSUME TraceAssumption, IInv
  PROVE  StateClean
<1>1. J \in JRec /\ Slots(J) /\ Phase(J, at)
  BY DEF IInv, Good, Heap
<1>2. {n \in Traces : J.trace[n] = Cur} = {J.no} \ {0}
  <2>1. J.no \in Numbers
    BY <1>1 DEF JRec
  <2> QED
    BY <1>1, <2>1, TraceNumbers DEF Slots
<1>3. J.state = "record" /\ at = "interp" => J.no # 0
  BY <1>1 DEF Phase, Idle, Active
<1>4. J.state = "idle" => Idle(J)
  BY <1>1 DEF Phase, Active, NotStarted, Stopped, Aborting
<1>5. ASSUME at # "jit"
      PROVE  J.no \notin Reachable(J)
  <2>1. Reachable(J) \subseteq Saved(J)
    BY <1>5, GoodMarks
  <2>2. J.no \notin Saved(J)
    BY <1>1 DEF Slots, Saved
  <2> QED
    BY <2>1, <2>2
<1> QED
  BY <1>1, <1>2, <1>3, <1>4, <1>5 DEF StateClean, Slots, Idle

\* Machine code is executable, and switched off where it should be.
LEMMA GoodAreas ==
  ASSUME TraceAssumption, IInv
  PROVE  Executable /\ NoJitNoTrace
<1>1. /\ Areas(J, at) /\ (Saved(J) # {} => J.mcarea) /\ \A f \in J.nojit : J.chain[f] = 0
  BY Zenon DEF IInv, Good, Heap
<1>2. at # "jit" => J.prot = "run"
  BY <1>1 DEF Areas
<1> QED
  BY <1>1, <1>2 DEF Executable, NoJitNoTrace

\* Types, as far as the run checks them.
LEMMA GoodTypes ==
  ASSUME TraceAssumption, IInv, Shaped(vm)
  PROVE  TypeOK
<1>1. /\ J \in JRec /\ at \in {"interp", "mcode", "jit"} \cup Handlers
      /\ run \in Numbers /\ (run # 0 <=> at = "mcode")
  BY DEF IInv, Good
<1>2. /\ J.state \in {"idle", "off", "start", "first", "record", "end", "asm", "err"}
      /\ J.no \in 0..MaxTrace /\ J.freetrace \in 0..(MaxTrace + 1)
  BY <1>1 DEF JRec, JStates, Numbers
<1>3. ASSUME NEW p \in Pcs
      PROVE  J.ins[p].op \in {"orig", "iloop", "iterc", "jit"}
  BY <1>1, <1>3 DEF JRec, Inses
<1>4. vm.hooks \subseteq Hooks
  BY DEF Shaped
<1> QED
  BY <1>1, <1>2, <1>3, <1>4 DEF TypeOK, Numbers

\* At first.
LEMMA InitShaped ==
  ASSUME Init
  PROVE  Shaped(vm)
BY DEF Init, Shaped

-----------------------------------------------------------------------------
\* Theorems, for any bytecode, any number of traces, any handlers and hooks, with or
\* without a profiler, wherever its signals arrive.

\* Trace numbers, bytecode, recording and machine code always fit together.
THEOREM InvariantHolds == Spec => []IInv
<1>1. Init => IInv
  BY TraceAssumption, InitGood
<1>2. IInv /\ [Next]_vars => IInv'
  BY TraceAssumption, StepGood
<1> QED
  BY <1>1, <1>2, PTL DEF Spec

\* The state machine of lj_trace.c, the bytecode and hookmask stay in their types.
THEOREM TraceTyped == Spec => []TypeOK
<1>1. Init => Shaped(vm)
  BY InitShaped
<1>2. Shaped(vm) /\ [Next]_vars => Shaped(vm)'
  BY TraceAssumption, StepShaped
<1>3. IInv /\ Shaped(vm) => TypeOK
  BY TraceAssumption, GoodTypes
<1> QED
  BY <1>1, <1>2, <1>3, InvariantHolds, PTL DEF Spec

\* Patched bytecode, also what is unpatched for the recorder, leads to a live root
\* trace that begins there.
THEOREM BytecodeIsLive == Spec => []PatchedIsLive
<1>1. IInv => PatchedIsLive
  BY TraceAssumption, GoodChains
<1> QED
  BY <1>1, InvariantHolds, PTL

\* lj_trace_flushproto finds all traces of a prototype, and no others.
THEOREM ChainsAreExact == Spec => []ChainExact
<1>1. IInv => ChainExact
  BY TraceAssumption, GoodChains
<1> QED
  BY <1>1, InvariantHolds, PTL

\* No machine code that can be entered or jumped to belongs to a trace that was
\* collected or flushed, although the collector marks other references than
\* machine code follows.
THEOREM MachineCodeIsLive == Spec => []JumpsLive
<1>1. IInv => JumpsLive
  BY TraceAssumption, GoodJumps
<1> QED
  BY <1>1, InvariantHolds, PTL

\* A recording holds exactly one slot, which the collector does not find, and leaves
\* nothing behind, however it ends.
THEOREM NothingLeftBehind == Spec => []StateClean
<1>1. IInv => StateClean
  BY TraceAssumption, GoodState
<1> QED
  BY <1>1, InvariantHolds, PTL

\* Machine code areas are executable whenever machine code may run.
THEOREM AreasAreExecutable == Spec => []Executable
<1>1. IInv => Executable
  BY TraceAssumption, GoodAreas
<1> QED
  BY <1>1, InvariantHolds, PTL

\* jit.off(f) leaves no trace of f, and none is made later.
THEOREM OffMeansOff == Spec => []NoJitNoTrace
<1>1. IInv => NoJitNoTrace
  BY TraceAssumption, GoodAreas
<1> QED
  BY <1>1, InvariantHolds, PTL

-----------------------------------------------------------------------------
\* The mode of dispatch.  lj_dispatch_update is not called at every change of what
\* the mode depends on: handlers restore bits of hookmask, and a loop of returns is
\* recorded after its abort without going back to the interpreter.

\* Mode m is the one asked for, or will be once the recording is over.
Asks(j, h, m) ==
  \/ m = Mode(j.on, j.state, h)
  \/ j.state # "idle" /\ m = Mode(j.on, j.state, h \ {"profile"})

\* The hooks when the handler has returned.
Restored(w) == (w.hooks \ {"vmevent", "profile"}) \cup w.ev
HooksOf(a, w) == IF a \in Handlers THEN Restored(w) ELSE w.hooks

\* The interpreter may be next without an update of the mode.
Waits(j, a) ==
  \/ a \in {"interp", "mcode", "bc"}
  \/ a = "jit" /\ \/ j.state \in {"first", "record", "end"}
                  \/ j.state = "err" /\ j.err = "downrec"
  \/ a = "abort" /\ j.err = "downrec"

\* The bits that handlers and finalizers take away, save and restore.
HookBits(a, w) ==
  /\ "gc" \in w.hooks => "profile" \notin w.hooks \cup w.ev
  /\ a \notin Handlers => w.ev = {}
  /\ a \in Handlers => /\ "vmevent" \in w.hooks /\ w.ev \subseteq {"profile"}
                       /\ w.hooks \cap {"profile"} \subseteq w.ev
  /\ w.fin \subseteq {"profile"}
  /\ ~Profiler => "profile" \notin w.hooks \cup w.ev \cup w.fin

Followed(j, a, w) ==
  w \in Exact /\ HookBits(a, w) /\ (Waits(j, a) => Asks(j, HooksOf(a, w), w.mode))

\* What the theorem is about: no signal inside of lj_dispatch_update, and no profiler
\* together with a handler for new functions.
Undisturbed == ~Interrupts /\ ("bc" \notin Handlers \/ ~Profiler)

SameBits(h, g) == h \cap Events = g \cap Events /\ ("profile" \in h <=> "profile" \in g)
SameBusy(i, j) == i.on = j.on /\ (i.state = "idle" <=> j.state = "idle")

\* What a mode depends on.
LEMMA ModeSame ==
  ASSUME NEW on, NEW s, NEW t, s = "idle" <=> t = "idle", NEW h, NEW g, SameBits(h, g)
  PROVE  Mode(on, s, h) = Mode(on, t, g)
<1>1. h \cap {"call", "line"} = g \cap {"call", "line"}
  BY DEF SameBits, Events
<1>2. h \cap {"profile", "line", "count"} = g \cap {"profile", "line", "count"}
  BY DEF SameBits, Events
<1>3. "ret" \in h <=> "ret" \in g
  BY DEF SameBits, Events
<1> QED
  BY <1>1, <1>2, <1>3 DEF Mode, SameBits

\* A change of anything else.
LEMMA AsksSame ==
  ASSUME NEW i, NEW j, SameBusy(i, j), NEW h, NEW g, SameBits(h, g), NEW m, Asks(j, h, m)
  PROVE  Asks(i, g, m)
<1>1. Mode(j.on, j.state, h) = Mode(i.on, i.state, g)
  BY ModeSame DEF SameBusy
<1>2. SameBits(h \ {"profile"}, g \ {"profile"})
  BY DEF SameBits, Events
<1>3. Mode(j.on, j.state, h \ {"profile"}) = Mode(i.on, i.state, g \ {"profile"})
  BY <1>2, ModeSame DEF SameBusy
<1> QED
  BY <1>1, <1>3 DEF Asks, SameBusy

\* Handlers are neither the interpreter, machine code nor the trace compiler.
LEMMA NoHandler ==
  ASSUME TraceAssumption
  PROVE  {"interp", "mcode", "jit"} \cap Handlers = {}
BY DEF TraceAssumption, VmEvents

\* An update of the mode.
LEMMA UpdatedMode ==
  ASSUME NEW w \in Exact, NEW on, NEW s, NEW v, v = Updated(w, on, s)
  PROVE  /\ v \in Exact /\ v.mode = Mode(on, s, w.hooks)
         /\ v.hooks = w.hooks /\ v.ev = w.ev /\ v.fin = w.fin
<1>1. v \in Exact
  BY UpdatedExact
<1> DEFINE new == Mode(on, s, w.hooks)
           d == Rewritten(w.disp, w.mode, new)
<1>2. v = IF new = w.mode THEN w ELSE [w EXCEPT !.mode = new, !.disp = d]
  BY DEF Updated
<1> HIDE DEF new, d
<1>3. v.mode = new /\ v.hooks = w.hooks /\ v.ev = w.ev /\ v.fin = w.fin
  BY <1>2 DEF Exact
<1> QED
  BY <1>1, <1>3 DEF new

\* It settles what the interpreter goes on with.
LEMMA UpdatedFollows ==
  ASSUME TraceAssumption, NEW a \in {"interp", "mcode", "jit"}, NEW w \in Exact,
         HookBits(a, w), NEW on, NEW s, NEW v, v = Updated(w, on, s),
         NEW j, j.on = on, j.state = s
  PROVE  Followed(j, a, v)
<1>1. /\ v \in Exact /\ v.mode = Mode(on, s, w.hooks)
      /\ v.hooks = w.hooks /\ v.ev = w.ev /\ v.fin = w.fin
  BY UpdatedMode
<1>2. HookBits(a, v)
  BY <1>1 DEF HookBits
<1>3. HooksOf(a, v) = w.hooks
  BY <1>1, NoHandler DEF HooksOf
<1> QED
  BY <1>1, <1>2, <1>3 DEF Followed, Asks

\* An update in a handler counts with the bits that it restores, but for a request
\* of the profiler that was answered in the handler of an abort.
LEMMA HandlerFollows ==
  ASSUME TraceAssumption, NEW a \in Handlers, NEW w \in Exact, HookBits(a, w),
         NEW on, NEW s, w.mode = Mode(on, s, w.hooks), NEW j, j.on = on, j.state = s,
         Waits(j, a) => s # "idle" \/ "profile" \notin w.ev
  PROVE  Followed(j, a, w)
<1>1. SUFFICES ASSUME Waits(j, a)
               PROVE  Asks(j, Restored(w), w.mode)
  BY DEF Followed, HooksOf
<1>2. w.ev \subseteq {"profile"} /\ ("profile" \in w.hooks => "profile" \in w.ev)
  BY DEF HookBits
<1>3. Restored(w) \cap Events = w.hooks \cap Events
  BY <1>2 DEF Restored, Events
<1>4. CASE "profile" \in w.hooks \/ "profile" \notin w.ev
  <2>1. SameBits(w.hooks, Restored(w))
    BY <1>2, <1>3, <1>4 DEF SameBits, Restored
  <2>2. Asks(j, w.hooks, w.mode)
    BY DEF Asks
  <2> QED
    BY <2>1, <2>2, AsksSame DEF SameBusy
<1>5. CASE "profile" \notin w.hooks /\ "profile" \in w.ev
  <2>1. SameBits(w.hooks, Restored(w) \ {"profile"})
    BY <1>3, <1>5 DEF SameBits, Events
  <2>2. w.mode = Mode(on, s, Restored(w) \ {"profile"})
    BY <2>1, ModeSame
  <2> QED
    BY <1>1, <1>5, <2>2 DEF Asks
<1> QED
  BY <1>4, <1>5

\* Nothing of it is concerned.
LEMMA KeptFollows ==
  ASSUME NEW i, NEW j, NEW a, NEW b, NEW w, Followed(j, a, w), SameBusy(i, j),
         b \in Handlers <=> a \in Handlers, Waits(i, b) => Waits(j, a)
  PROVE  Followed(i, b, w)
<1>1. HookBits(b, w) /\ HooksOf(b, w) = HooksOf(a, w)
  BY DEF Followed, HookBits, HooksOf
<1>2. SameBits(HooksOf(a, w), HooksOf(b, w))
  BY <1>1 DEF SameBits
<1> QED
  BY <1>1, <1>2, AsksSame DEF Followed

\* trace_state goes on with the same mode.
LEMMA ThenFollows ==
  ASSUME TraceAssumption, NEW j, NEW i, Then(j), j.state # "idle", SameBusy(j, i),
         NEW a \in {"interp", "jit"}, Followed(i, a, vm), vm' = vm,
         \/ Waits(i, a)
         \/ j.state \in {"asm", "start"}
         \/ j.state = "err" /\ j.err # "downrec"
  PROVE  Followed(J', at', vm')
<1>1. J' = j /\ at' \in {"interp", "jit"}
  BY DEF Then
<1>2. at' \in Handlers <=> a \in Handlers
  BY <1>1, NoHandler
<1>3. Waits(j, at') => Waits(i, a)
  <2>1. j.state \in {"asm", "start", "err"} => at' = "jit"
    BY DEF Then
  <2> QED
    BY <2>1 DEF Waits
<1> QED
  BY <1>1, <1>2, <1>3, KeptFollows

\* Back to the interpreter.
LEMMA ToIdleFollows ==
  ASSUME TraceAssumption, ~Interrupts, NEW j \in JRec, NEW w \in Exact,
         HookBits("interp", w), ToIdle(j, w)
  PROVE  Followed(J', at', vm')
<1> DEFINE k == [j EXCEPT !.state = "idle"]
<1>1. k.on = j.on /\ k.state = "idle"
  BY DEF JRec
<1>2. Forget(k).on = k.on /\ Forget(k).state = k.state
  BY DEF Forget, JRec
<1>3. Then(k)
  BY DEF ToIdle
<1> HIDE DEF k
<1>4. J' = Forget(k) /\ at' = "interp"
  BY <1>1, <1>3 DEF Then
<1>5. vm' = Updated(w, j.on, "idle")
  BY NoInterrupt DEF ToIdle
<1>6. J'.on = j.on /\ J'.state = "idle"
  BY <1>1, <1>2, <1>4
<1> QED
  BY <1>4, <1>5, <1>6, UpdatedFollows

\* A handler is called, and the bits that it restores are those before the call.
LEMMA ToHandlerFollows ==
  ASSUME TraceAssumption, NEW i, NEW a \in {"interp", "jit"}, Followed(i, a, vm),
         NEW e \in Handlers, NEW j, SameBusy(j, i), ToHandler(e, j),
         Waits(j, e) => Waits(i, a)
  PROVE  Followed(J', at', vm')
<1> DEFINE h == vm.hooks \cup {"vmevent"}
           v == vm.ev \cup (vm.hooks \cap {"profile"})
<1>1. vm \in Exact /\ HookBits(a, vm) /\ a \notin Handlers
  BY NoHandler DEF Followed
<1>2. vm.ev = {}
  BY <1>1 DEF HookBits
<1>3. J' = j /\ at' = e /\ vm' = [vm EXCEPT !.hooks = h, !.ev = v]
  BY DEF ToHandler
<1>4. vm' \in Exact
  BY <1>1, ToHandlerExact
<1>5. vm'.hooks = h /\ vm'.ev = v /\ vm'.fin = vm.fin /\ vm'.mode = vm.mode
  BY <1>1, <1>3 DEF Exact
<1>6. HookBits(e, vm')
  BY <1>1, <1>2, <1>5 DEF HookBits
<1>7. SameBits(vm.hooks, Restored(vm'))
  BY <1>2, <1>5 DEF SameBits, Restored, Events
<1>8. Waits(j, e) => Asks(i, vm.hooks, vm.mode)
  BY <1>1 DEF Followed, HooksOf
<1>9. Waits(j, e) => Asks(j, Restored(vm'), vm'.mode)
  BY <1>5, <1>7, <1>8, AsksSame
<1> QED
  BY <1>3, <1>4, <1>6, <1>9 DEF Followed, HooksOf

\* It returns.
LEMMA ReturnBits ==
  ASSUME TraceAssumption, NEW a \in Handlers, NEW v \in Exact, HookBits(a, v),
         NEW w, w = AfterHandler(v)
  PROVE  /\ w \in Exact /\ HookBits("interp", w) /\ w.hooks = Restored(v) /\ w.mode = v.mode
<1>1. w \in Exact
  BY AfterHandlerExact
<1> DEFINE h == Restored(v)
<1>2. w = [v EXCEPT !.hooks = h, !.ev = {}]
  BY DEF AfterHandler, Restored
<1>3. "gc" \in h => "profile" \notin h
  BY DEF HookBits, Restored
<1>4. ~Profiler => "profile" \notin h
  BY DEF HookBits, Restored
<1> HIDE DEF h
<1>5. w.hooks = h /\ w.ev = {} /\ w.fin = v.fin /\ w.mode = v.mode
  BY <1>2 DEF Exact
<1>6. HookBits("interp", w)
  BY <1>3, <1>4, <1>5, NoHandler DEF HookBits
<1> QED
  BY <1>1, <1>5, <1>6 DEF h

\* The rest of trace_abort.
LEMMA AbortedFollows ==
  ASSUME TraceAssumption, ~Interrupts, NEW j \in JRec, Heap(j, 0), Over(j), CurOK(j),
         DownRec(j), j.state # "idle", NEW w \in Exact, HookBits("interp", w),
         j.err = "downrec" => Asks(j, w.hooks, w.mode), Aborted(j, w)
  PROVE  Followed(J', at', vm')
<1>1. CASE j.err = "downrec"
  <2> DEFINE a == [j EXCEPT !.parent = 0, !.exitno = 0, !.state = "record"]
  <2>1. /\ \E k \in TraceStart(a) :
             /\ J' = [k EXCEPT !.state = IF @ = "idle" THEN "off" ELSE @]
             /\ at' = "jit"
        /\ vm' = w
    BY <1>1 DEF Aborted
  <2>2. PICK k \in TraceStart(a) :
          J' = [k EXCEPT !.state = IF k.state = "idle" THEN "off" ELSE k.state]
    BY <2>1
  <2>3. a = SetRecording(j, "record", j.err, j.cur, j.pc, j.pt, 0, 0)
    BY DEF SetRecording, JRec
  <2> HIDE DEF a
  <2>4. /\ a \in JRec /\ SameTraces(a, j) /\ SameAreas(a, j) /\ a.state = "record"
        /\ a.pc = j.pc /\ a.pt = j.pt /\ a.parent = 0 /\ a.exitno = 0
    <3>1. Values("record", j.err, j.cur, j.pc, j.pt, 0, 0)
      BY TraceNumbers DEF Values, JRec, JStates
    <3> QED
      BY <2>3, <3>1, SetRecordingFacts
  <2>5. Heap(a, 0)
    BY <2>4, SameTracesHeap DEF SameAreas
  <2>6. a.no = 0 /\ a.patch = Nil /\ a.nojit = j.nojit /\ a.on = j.on
    BY <2>4 DEF SameTraces, SameAreas, Over
  <2>7. CanStart(a)
    BY <1>1, <2>4, <2>6 DEF CanStart, DownRec, AtPc, Kinds
  <2>8. k \in JRec /\ k.on = a.on
    BY <2>2, <2>4, <2>5, <2>7, TraceStartFacts DEF StartResult
  <2> DEFINE s == IF k.state = "idle" THEN "off" ELSE k.state
  <2>9. s # "idle"
    OBVIOUS
  <2> HIDE DEF s
  <2>10. J'.on = k.on /\ J'.state = s
    BY <2>2, <2>8 DEF JRec, s
  <2>11. SameBusy(J', j)
    BY <2>6, <2>8, <2>9, <2>10 DEF SameBusy
  <2>12. Asks(J', w.hooks, w.mode)
    BY <1>1, <2>11, AsksSame DEF SameBits
  <2>13. HookBits("jit", w) /\ HooksOf("jit", w) = w.hooks
    BY NoHandler DEF HookBits, HooksOf
  <2> QED
    BY <2>1, <2>12, <2>13 DEF Followed
<1>2. CASE j.err = "mcodeal"
  <2> DEFINE on == j.on /\ j.mcarea
             a == [j EXCEPT !.on = on]
             b == FlushAll(a)
  <2>1. PICK v : /\ ToIdle(b, v)
                 /\ v = w \/ v \in DispatchUpdate(w, a.on, a.state, Interrupts)
    BY <1>2, Zenon DEF Aborted
  <2>2. /\ a \in JRec /\ SameTraces(a, j) /\ a.held = j.held /\ a.mcarea = j.mcarea
        /\ a.prot = j.prot
    <3>1. on \in BOOLEAN
      BY DEF JRec
    <3> HIDE DEF on
    <3> QED
      BY <3>1 DEF JRec, SameTraces
  <2> HIDE DEF a
  <2>3. Heap(a, 0) /\ a.no = 0 /\ a.patch = Nil /\ a.prot = "run"
    BY <2>2, SameTracesHeap DEF SameTraces, Over
  <2>4. CurBegins(a)
    <3>1. \A m \in Traces : a.trace[m] # Cur
      BY <2>3, TraceNumbers DEF Heap, Slots
    <3> QED
      BY <3>1 DEF CurBegins
  <2>5. b \in JRec
    BY <2>2, <2>3, <2>4, FlushesHeap
  <2> HIDE DEF b
  <2>6. v = w \/ v = Updated(w, a.on, a.state)
    BY <2>1 DEF DispatchUpdate
  <2>7. v \in Exact /\ v.hooks = w.hooks /\ v.ev = w.ev /\ v.fin = w.fin
    BY <2>6, UpdatedMode
  <2>8. HookBits("interp", v)
    BY <2>7 DEF HookBits
  <2> QED
    BY <2>1, <2>5, <2>7, <2>8, ToIdleFollows
<1>3. CASE j.err \notin {"downrec", "mcodeal"}
  <2>1. ToIdle(j, w)
    BY <1>3 DEF Aborted
  <2> QED
    BY <2>1, ToIdleFollows
<1> QED
  BY <1>1, <1>2, <1>3

\* After the event, the slot is cleared.
LEMMA DroppedFollows ==
  ASSUME TraceAssumption, ~Interrupts, NEW j \in JRec, Heap(j, 0), CurOK(j), DownRec(j),
         j.patch = Nil, j.prot = "run", j.state # "idle",
         NEW w \in Exact, HookBits("interp", w),
         j.err = "downrec" => Asks(j, w.hooks, w.mode),
         j.no = 0 => Aborted(j, w),
         j.no # 0 => Aborted(Drop(j, j.no), w)
  PROVE  Followed(J', at', vm')
<1>1. CASE j.no = 0
  BY <1>1, AbortedFollows DEF Over
<1>2. CASE j.no # 0
  <2> DEFINE n == j.no
             i == Drop(j, n)
  <2>1. n # 0 /\ Aborted(i, w)
    BY <1>2
  <2>2. n = j.no
    OBVIOUS
  <2> HIDE DEF n
  <2>3. i \in JRec /\ SameOthers(i, j) /\ Heap(i, 0) /\ i.no = 0
    BY <2>1, <2>2, DropFacts
  <2> HIDE DEF i
  <2>4. /\ i.patch = Nil /\ i.prot = "run" /\ i.cur = j.cur /\ i.err = j.err /\ i.pc = j.pc
        /\ i.pt = j.pt /\ i.nojit = j.nojit /\ i.on = j.on /\ i.state = j.state
    BY <2>3 DEF SameOthers, SameRecording
  <2>5. Over(i) /\ CurOK(i) /\ DownRec(i)
    BY <2>3, <2>4 DEF Over, CurOK, DownRec, AtPc
  <2>6. i.err = "downrec" => Asks(i, w.hooks, w.mode)
    BY <2>4 DEF Asks
  <2> QED
    BY <2>1, <2>3, <2>4, <2>5, <2>6, AbortedFollows
<1> QED
  BY <1>1, <1>2

\* Nothing waits for an update that is still to come.
LEMMA RestFollows ==
  ASSUME TraceAssumption, NEW j, NEW a \in {"interp", "mcode", "jit"}, NEW w,
         Followed(j, a, w), NEW i, NEW b \in {"interp", "mcode", "jit"}, ~Waits(i, b)
  PROVE  Followed(i, b, w)
BY NoHandler DEF Followed, HookBits

\* A recording is started.
LEMMA StartFollows ==
  ASSUME TraceAssumption, ~Interrupts, IInv, Followed(J, at, vm), Start
  PROVE  Followed(J', at', vm')
<1> DEFINE a == [J EXCEPT !.state = "record"]
<1>1. J \in JRec /\ Heap(J, 0) /\ at = "jit" /\ J.state = "start"
  BY TraceAssumption DEF IInv, Good, Start
<1>2. CanStart(J)
  BY <1>1 DEF IInv, Good, Phase, Active, NotStarted
<1>3. PICK i \in TraceStart(a) : \E j \in ExitPatched(i) :
        /\ Then(j)
        /\ IF j.state = "err" THEN UNCHANGED vm
           ELSE vm' \in DispatchUpdate(vm, j.on, j.state, Interrupts)
  BY DEF Start
<1> PICK j \in ExitPatched(i) :
        /\ Then(j)
        /\ IF j.state = "err" THEN UNCHANGED vm
           ELSE vm' \in DispatchUpdate(vm, j.on, j.state, Interrupts)
  BY <1>3
<1>4. a \in JRec /\ SameTraces(a, J) /\ SameAreas(a, J) /\ SameParent(a, J) /\ SameStart(a, J)
      /\ a.state = "record"
  <2>1. "record" \in JStates
    BY DEF JStates
  <2> QED
    BY <1>1, <2>1, SetStateFacts
<1> HIDE DEF a
<1>5. Heap(a, 0) /\ Saved(a) = Saved(J)
  BY <1>1, <1>4, SameTracesHeap DEF SameAreas
<1>6. CanStart(a)
  <2>1. /\ a.no = J.no /\ a.patch = J.patch /\ a.parent = J.parent /\ a.exitno = J.exitno
        /\ a.pc = J.pc /\ a.pt = J.pt /\ a.nojit = J.nojit /\ a.trace = J.trace
        /\ a.ins = J.ins
    BY <1>4 DEF SameTraces, SameParent, SameStart
  <2>2. ParentOK(J) => ParentOK(a)
    BY <1>5, <2>1 DEF ParentOK, Rt
  <2> QED
    BY <1>2, <1>5, <2>1, <2>2 DEF CanStart, AtPc, IsJit
<1>7. /\ i \in JRec /\ Linked(i) /\ i.patch = Nil
      /\ (i.state = "err" => i.err # "downrec")
  BY <1>3, <1>4, <1>5, <1>6, TraceStartFacts DEF StartResult, Heap
<1>8. j \in JRec /\ (j.state = "err" => j.err # "downrec")
  <2>1. CASE j = i
    BY <1>7, <2>1
  <2>2. CASE j # i
    <3>1. i.state = "record" /\ \E p \in Pcs : IsJit(i, p) /\ j = UnpatchFor(i, p, TRUE)
      BY <1>3, <2>2 DEF ExitPatched
    <3>2. PICK p \in Pcs : IsJit(i, p) /\ j = UnpatchFor(i, p, TRUE)
      BY <3>1
    <3> DEFINE skip == TRUE
    <3>3. skip \in BOOLEAN /\ j = UnpatchFor(i, p, skip)
      BY <3>2
    <3> HIDE DEF skip
    <3>4. j \in JRec /\ Rebound(j, i)
      BY <1>7, <3>2, <3>3, UnpatchForFacts
    <3> QED
      BY <3>1, <3>4 DEF Rebound, SameRest
  <2> QED
    BY <2>1, <2>2
<1>9. CASE j.state = "err"
  <2>1. J' = j /\ at' = "jit" /\ vm' = vm
    BY <1>3, <1>9 DEF Then
  <2>2. ~Waits(J', at')
    BY <1>8, <1>9, <2>1 DEF Waits
  <2> QED
    BY <1>1, <2>1, <2>2, RestFollows
<1>10. CASE j.state # "err"
  <2>1. vm' = Updated(vm, j.on, j.state)
    BY <1>3, <1>10, NoInterrupt
  <2>2. J'.on = j.on /\ J'.state = j.state /\ at' \in {"interp", "jit"}
    BY <1>3, <1>8 DEF Then, Forget, JRec
  <2>3. HookBits(at', vm)
    BY <1>1, <2>2, NoHandler DEF Followed, HookBits
  <2> QED
    BY <2>1, <2>2, <2>3, UpdatedFollows DEF Followed
<1> QED
  BY <1>9, <1>10

\* The next instruction is recorded.
LEMMA RecordFollows ==
  ASSUME TraceAssumption, IInv, Followed(J, at, vm), Record
  PROVE  Followed(J', at', vm')
<1> DEFINE a == [J EXCEPT !.state = "record"]
           b == PendPatch(a, FALSE)
<1>1. /\ J.state \in {"first", "record"} /\ (at = "jit" \/ (at = "interp" /\ J.state = "record"))
      /\ vm' = vm
  BY DEF Record
<1>2. J \in JRec /\ Heap(J, 0) /\ Active(J) /\ Recording(J)
  BY <1>1, ActiveState
<1>3. J.cur.link = 0 /\ "record" \in JStates
  BY <1>1, <1>2 DEF Active, JStates
<1>4. a \in JRec /\ Heap(a, 0) /\ Recording(a) /\ a.state = "record" /\ a.cur = J.cur /\ a.on = J.on
  BY <1>2, <1>3, SetStateRecording DEF SameAreas
<1>5. PICK k \in Recorded(b, J.state = "first") : Then(k)
  BY DEF Record
<1> HIDE DEF a
<1>6. /\ b \in JRec /\ Heap(b, 0) /\ Recording(b) /\ b.state = "record" /\ b.cur.link = 0
      /\ b.on = J.on
  <2>1. FALSE \in BOOLEAN
    OBVIOUS
  <2>2. b \in JRec /\ Heap(b, 0) /\ Recording(b) /\ SameRest(b, a)
    BY <1>4, <2>1, PendPatchRecording, Zenon DEF b
  <2> QED
    BY <1>3, <1>4, <2>2 DEF SameRest
<1> HIDE DEF b
<1>7. Active(b)
  BY <1>6 DEF Active, Recording
<1>8. Goes(k, b)
  BY <1>5, <1>6, <1>7, RecordedGoes
<1>9. SameBusy(k, J) /\ k.state # "idle"
  BY <1>1, <1>6, <1>8 DEF Goes, SameAreas, SameBusy
<1>10. Waits(J, at)
  BY <1>1 DEF Waits
<1> QED
  BY <1>1, <1>5, <1>9, <1>10, ThenFollows

\* The recording ends, or the loop is unrolled once more.
LEMMA EndFollows ==
  ASSUME TraceAssumption, IInv, Followed(J, at, vm), End
  PROVE  Followed(J', at', vm')
<1> DEFINE j == PendPatch(J, TRUE)
<1>1. J \in JRec /\ Heap(J, 0) /\ Recording(J) /\ at = "jit" /\ J.state = "end" /\ vm' = vm
  BY ActiveState DEF End
<1>2. j \in JRec /\ j.on = J.on
  <2>1. TRUE \in BOOLEAN
    OBVIOUS
  <2>2. j \in JRec /\ SameRest(j, J)
    BY <1>1, <2>1, PendPatchRecording, Zenon
  <2> QED
    BY <2>2 DEF SameRest
<1>3. PICK k : /\ Then(k)
               /\ \/ k = [j EXCEPT !.state = "asm"]
                  \/ k = Throw(j, "other")
                  \/ k = [j EXCEPT !.state = "record", !.cur.link = 0, !.cur.linktype = "none"]
  BY DEF End
<1> HIDE DEF j
<1>4. k.on = J.on /\ k.state \in {"asm", "err", "record"}
  BY <1>2, <1>3 DEF JRec, Throw
<1>5. SameBusy(k, J) /\ k.state # "idle" /\ Waits(J, at)
  BY <1>1, <1>4 DEF SameBusy, Waits
<1> QED
  BY <1>1, <1>3, <1>5, ThenFollows

\* The trace is assembled.
LEMMA AsmFollows ==
  ASSUME TraceAssumption, ~Interrupts, IInv, Followed(J, at, vm), Asm
  PROVE  Followed(J', at', vm')
<1>1. /\ J \in JRec /\ Heap(J, 0) /\ Active(J) /\ J.prot = "run" /\ J.state = "asm"
      /\ at = "jit"
  BY ActiveState DEF Asm
<1>2. LinkRight(J) /\ J.patch = Nil
  BY <1>1 DEF Active
<1>3. PICK k \in Assembled(J) :
        IF k.state = "err" THEN Then(k) /\ UNCHANGED vm
        ELSE IF "stop" \in Handlers THEN ToHandler("stop", TraceStop(k))
        ELSE ToIdle(TraceStop(k), vm)
  BY DEF Asm
<1>4. Assembling(k)
  BY <1>1, <1>2, <1>3, AssembledFacts
<1>5. CASE k.state = "err"
  <2>1. J' = k /\ at' = "jit" /\ vm' = vm /\ k.err # "downrec"
    BY <1>3, <1>4, <1>5 DEF Then, Assembling
  <2>2. ~Waits(J', at')
    BY <1>5, <2>1 DEF Waits
  <2> QED
    BY <1>1, <2>1, <2>2, RestFollows
<1>6. CASE k.state # "err"
  <2> DEFINE i == TraceStop(k)
  <2>1. /\ k \in JRec /\ Heap(k, 0) /\ Active(k) /\ LinkRight(k) /\ k.mcarea
        /\ k.patch = Nil /\ k.state = "asm"
    BY <1>4, <1>6 DEF Assembling
  <2>2. StopHeap(i, k, 0)
    BY <2>1, TraceStopFacts
  <2>3. \/ "stop" \in Handlers /\ ToHandler("stop", i)
        \/ ToIdle(i, vm)
    BY <1>3, <1>6
  <2> HIDE DEF i
  <2>4. i \in JRec /\ i.state = "asm"
    BY <2>1, <2>2 DEF StopHeap, StopElse
  <2>5. ASSUME "stop" \in Handlers, ToHandler("stop", i)
        PROVE  Followed(J', at', vm')
    <3>1. ~Waits(i, "stop") /\ SameBusy(i, i)
      BY DEF Waits, SameBusy
    <3>2. Followed(i, at, vm)
      <4>1. ~Waits(i, at)
        BY <1>1, <2>4 DEF Waits
      <4> QED
        BY <1>1, <4>1, RestFollows
    <3> QED
      BY <1>1, <2>5, <3>1, <3>2, ToHandlerFollows
  <2>6. ASSUME ToIdle(i, vm)
        PROVE  Followed(J', at', vm')
    <3>1. vm \in Exact /\ HookBits("interp", vm)
      BY <1>1, NoHandler DEF Followed, HookBits
    <3> QED
      BY <2>4, <2>6, <3>1, ToIdleFollows
  <2> QED
    BY <2>3, <2>5, <2>6
<1> QED
  BY <1>5, <1>6

\* A recording is aborted.
LEMMA AbortFollows ==
  ASSUME TraceAssumption, ~Interrupts, IInv, Followed(J, at, vm), Abort
  PROVE  Followed(J', at', vm')
<1> DEFINE b == PendPatch(J, TRUE)
           e == IF J.state = "off" THEN "other" ELSE b.err
           j == Failing(b, e)
<1>1. at = "jit" /\ J.state \in {"err", "off"} /\ J \in JRec /\ Heap(J, 0)
  BY DEF Abort, IInv, Good
<1>2. Failed(j)
  BY <1>1, AbortBegins
<1>3. j.on = J.on /\ j.err = e /\ b.err = J.err /\ j.state = J.state
  <2>1. TRUE \in BOOLEAN
    OBVIOUS
  <2>2. b \in JRec /\ Rebound(b, J)
    BY <1>1, <2>1, PendPatchFacts, Zenon DEF Heap
  <2>3. e \in Errors /\ b.on = J.on /\ b.err = J.err /\ b.state = J.state
        /\ (b.prot = "run" \/ b.mcarea)
    <3>1. J.prot = "run" \/ J.mcarea
      BY <1>1 DEF IInv, Good, Areas
    <3> QED
      BY <2>2, <3>1 DEF JRec, Errors, Rebound, SameRest
  <2> HIDE DEF b, e
  <2> QED
    BY <2>2, <2>3, FailingFacts
<1>4. \/ j.err = "mcodelm" /\ Then([j EXCEPT !.state = "asm"]) /\ vm' = vm
      \/ \E k \in Penalty(j) :
           \/ k.no = 0 /\ Aborted(k, vm)
           \/ k.no # 0 /\ "abort" \in Handlers /\ ToHandler("abort", Unlink(k))
           \/ k.no # 0 /\ Aborted(Drop(Unlink(k), k.no), vm)
  BY DEF Abort, Failing, Unlink
<1>5. j.err = "downrec" => Waits(J, at)
  BY <1>1, <1>3 DEF Waits
<1> HIDE DEF j
<1>6. j \in JRec /\ j.patch = Nil /\ j.prot = "run" /\ CurOK(j) /\ DownRec(j)
  BY <1>2 DEF Failed
<1>7. CASE j.err = "mcodelm" /\ Then([j EXCEPT !.state = "asm"]) /\ vm' = vm
  <2>1. J' = [j EXCEPT !.state = "asm"] /\ at' = "jit"
    BY <1>6, <1>7 DEF Then, JRec
  <2>2. ~Waits(J', at')
    BY <1>6, <2>1 DEF Waits, JRec
  <2> QED
    BY <1>1, <1>7, <2>1, <2>2, RestFollows
<1>8. ASSUME NEW k \in Penalty(j),
             \/ k.no = 0 /\ Aborted(k, vm)
             \/ k.no # 0 /\ "abort" \in Handlers /\ ToHandler("abort", Unlink(k))
             \/ k.no # 0 /\ Aborted(Drop(Unlink(k), k.no), vm)
      PROVE  Followed(J', at', vm')
  <2>1. k \in JRec /\ Heap(k, 0) /\ SameFailure(k, j)
    BY <1>2, PenaltyFacts
  <2>2. /\ CurOK(k) /\ DownRec(k) /\ k.patch = Nil /\ k.prot = "run"
        /\ k.state \in {"err", "off"}
    BY <1>2, <1>6, <2>1 DEF SameFailure, CurOK, DownRec, AtPc, Failed
  <2>3. SameBusy(k, J) /\ k.err = j.err
    BY <1>1, <1>3, <2>1 DEF SameFailure, SameBusy
  <2>4. vm \in Exact /\ HookBits("interp", vm) /\ (k.err = "downrec" => Asks(J, vm.hooks, vm.mode))
    BY <1>1, <1>5, <2>3, NoHandler DEF Followed, HookBits, HooksOf
  <2>5. SameBits(vm.hooks, vm.hooks)
    BY DEF SameBits
  <2>6. CASE k.no = 0 /\ Aborted(k, vm)
    <3>1. k.err = "downrec" => Asks(k, vm.hooks, vm.mode)
      BY <2>3, <2>4, <2>5, AsksSame
    <3> QED
      BY <2>1, <2>2, <2>4, <2>6, <3>1, AbortedFollows DEF Over
  <2> DEFINE l == Unlink(k)
  <2>7. /\ l \in JRec /\ Heap(l, 0) /\ Aborting(l) /\ l.prot = "run" /\ l.no = k.no
        /\ l.on = k.on /\ l.err = k.err
    BY <2>1, <2>2, UnlinkFacts
  <2> HIDE DEF l
  <2>8. SameBusy(l, J)
    BY <1>1, <2>3, <2>7 DEF SameBusy, Aborting
  <2>9. CASE "abort" \in Handlers /\ ToHandler("abort", l)
    <3>1. Waits(l, "abort") => Waits(J, at)
      BY <1>5, <2>3, <2>7 DEF Waits
    <3> QED
      BY <1>1, <2>8, <2>9, <3>1, ToHandlerFollows
  <2>10. CASE k.no # 0 /\ Aborted(Drop(l, k.no), vm)
    <3>1. l.no # 0 /\ Aborted(Drop(l, l.no), vm)
      BY <2>7, <2>10
    <3>2. l.err = "downrec" => Asks(l, vm.hooks, vm.mode)
      BY <2>4, <2>5, <2>7, <2>8, AsksSame
    <3> QED
      BY <2>4, <2>7, <3>1, <3>2, DroppedFollows DEF Aborting
  <2> QED
    BY <1>8, <2>6, <2>9, <2>10 DEF l
<1> QED
  BY <1>4, <1>7, <1>8

\* A handler returns.
LEMMA HandlerReturnsFollows ==
  ASSUME TraceAssumption, ~Interrupts, IInv, Followed(J, at, vm), HandlerReturns
  PROVE  Followed(J', at', vm')
<1> DEFINE w == AfterHandler(vm)
<1>1. \/ at = "stop" /\ ToIdle(J, w)
      \/ at = "abort" /\ Aborted(IF J.no = 0 THEN J ELSE Drop(J, J.no), w)
      \/ at = "bc" /\ at' = "interp" /\ J' = J /\ vm' = w
  BY DEF HandlerReturns
<1>2. at \in {"stop", "abort", "bc"} /\ at \in Handlers /\ J \in JRec
  BY <1>1 DEF IInv, Good
<1>3. /\ w \in Exact /\ HookBits("interp", w) /\ w.hooks = Restored(vm) /\ w.mode = vm.mode
  BY <1>2, ReturnBits DEF Followed
<1> HIDE DEF w
<1>4. Waits(J, at) => Asks(J, w.hooks, w.mode)
  BY <1>2, <1>3 DEF Followed, HooksOf
<1>5. CASE at = "stop" /\ ToIdle(J, w)
  BY <1>2, <1>3, <1>5, ToIdleFollows
<1>6. CASE at = "abort" /\ Aborted(IF J.no = 0 THEN J ELSE Drop(J, J.no), w)
  <2>1. Heap(J, 0) /\ Aborting(J) /\ J.prot = "run"
    BY <1>6 DEF IInv, Good, Phase, Areas
  <2>2. J.err = "downrec" => Asks(J, w.hooks, w.mode)
    BY <1>4, <1>6 DEF Waits
  <2>3. /\ J.no = 0 => Aborted(J, w)
        /\ J.no # 0 => Aborted(Drop(J, J.no), w)
    BY <1>6
  <2> QED
    BY <1>2, <1>3, <2>1, <2>2, <2>3, DroppedFollows DEF Aborting
<1>7. CASE at = "bc" /\ at' = "interp" /\ J' = J /\ vm' = w
  <2>1. Asks(J, w.hooks, w.mode)
    BY <1>4, <1>7 DEF Waits
  <2>2. HooksOf("interp", w) = w.hooks
    BY NoHandler DEF HooksOf
  <2> QED
    BY <1>3, <1>7, <2>1, <2>2 DEF Followed
<1> QED
  BY <1>1, <1>5, <1>6, <1>7

\* A recording is given up when its abort is reported.
LEMMA AbortBusy ==
  ASSUME TraceAssumption, NEW j, NEW r, Good(j, "abort", r)
  PROVE  j.state # "idle"
BY DEF Good, Phase, Aborting

\* The mode is updated in the interpreter or in a handler.
LEMMA ChangedFollows ==
  ASSUME TraceAssumption, Undisturbed, Good(J', at, run'), at \in {"interp"} \cup Handlers,
         NEW w \in Exact, HookBits(at, w), vm' = Updated(w, J'.on, J'.state), at' = at
  PROVE  Followed(J', at', vm')
<1>1. CASE at = "interp"
  <2> DEFINE on == J'.on
             s == J'.state
             v == vm'
             j == J'
  <2>1. v = Updated(w, on, s) /\ j.on = on /\ j.state = s
    OBVIOUS
  <2> HIDE DEF on, s, v, j
  <2>2. Followed(j, "interp", v)
    BY <1>1, <2>1, UpdatedFollows
  <2> QED
    BY <1>1, <2>2 DEF j, v
<1>2. CASE at \in Handlers
  <2> DEFINE on == J'.on
             s == J'.state
             v == vm'
             j == J'
  <2>1. v = Updated(w, on, s) /\ j.on = on /\ j.state = s
    OBVIOUS
  <2>2. Good(j, at, run')
    OBVIOUS
  <2> HIDE DEF on, s, v, j
  <2>3. /\ v \in Exact /\ v.mode = Mode(on, s, w.hooks)
        /\ v.hooks = w.hooks /\ v.ev = w.ev /\ v.fin = w.fin
    BY <2>1, UpdatedMode
  <2>4. HookBits(at, v)
    BY <2>3 DEF HookBits
  <2>5. Waits(j, at) => s # "idle" \/ "profile" \notin v.ev
    <3>1. CASE at = "abort"
      BY <2>1, <2>2, <3>1, AbortBusy
    <3>2. CASE at = "bc"
      BY <1>2, <2>4, <3>2 DEF Undisturbed, HookBits
    <3>3. CASE at \notin {"abort", "bc"}
      BY <1>2, <3>3, NoHandler DEF Waits
    <3> QED
      BY <3>1, <3>2, <3>3
  <2>6. v.mode = Mode(on, s, v.hooks)
    BY <2>3
  <2>7. Followed(j, at, v)
    BY <1>2, <2>1, <2>3, <2>4, <2>5, <2>6, HandlerFollows
  <2> QED
    BY <2>7 DEF j, v
<1> QED
  BY <1>1, <1>2

\* jit.on() and jit.off().
LEMMA SetEngineFollows ==
  ASSUME TraceAssumption, Undisturbed, IInv, Followed(J, at, vm), SetEngine
  PROVE  Followed(J', at', vm')
<1>1. Good(J', at, run') /\ at' = at /\ at \in {"interp"} \cup Handlers
  BY SetEngineStep DEF IInv, SetEngine, SettingMode, Calling
<1>2. PICK on \in BOOLEAN : /\ J' = [Cancel(J) EXCEPT !.on = on]
                            /\ vm' \in DispatchUpdate(vm, on, J'.state, Interrupts)
  BY DEF SetEngine
<1>3. J'.on = on
  <2>1. J \in JRec
    BY DEF IInv, Good
  <2>2. "on" \in DOMAIN Cancel(J)
    BY <2>1 DEF JRec, Cancel
  <2> QED
    BY <1>2, <2>2
<1>4. vm' = Updated(vm, on, J'.state)
  BY <1>2, NoInterrupt DEF Undisturbed
<1>5. vm' = Updated(vm, J'.on, J'.state)
  BY <1>3, <1>4
<1> QED
  BY <1>1, <1>5, ChangedFollows DEF Followed

\* debug.sethook.
LEMMA SetHookFollows ==
  ASSUME TraceAssumption, Undisturbed, IInv, Followed(J, at, vm), NEW mask \in HookMasks,
         SetHook(mask)
  PROVE  Followed(J', at', vm')
<1>1. Good(J', at, run') /\ at' = at /\ at \in {"interp"} \cup Handlers /\ Resting(J, at)
  BY SetHookStep, CallingRests DEF IInv, SetHook, Calling
<1>2. J' = Cancel(J) \/ J' = Cancel(FlushAll(J))
  BY DEF SetHook
<1>3. J'.on = J.on
  <2>1. J \in JRec /\ FlushAll(J) \in JRec /\ FlushAll(J).on = J.on
    <3>1. J \in JRec /\ Heap(J, 0) /\ J.patch = Nil /\ CurBegins(J)
      BY <1>1, RestingBegins DEF Resting
    <3> QED
      BY <3>1, FlushesHeap DEF SameRecording
  <2>2. \A j \in JRec : Cancel(j).on = j.on
    BY DEF Cancel, JRec
  <2> QED
    BY <1>2, <2>1, <2>2
<1> DEFINE h == (vm.hooks \ Events) \cup mask
           w == [vm EXCEPT !.hooks = h]
<1>4. vm' \in DispatchUpdate(w, J.on, J'.state, Interrupts)
  BY DEF SetHook
<1>5. vm \in Exact /\ HookBits(at, vm) /\ mask \subseteq Events
  BY DEF Followed, TraceAssumption
<1>6. h \in SUBSET Hooks
  BY <1>5 DEF Exact, Hooks
<1>7. h \ Events = vm.hooks \ Events
  BY <1>5
<1>8. {"gc", "profile", "vmevent"} \cap Events = {}
  BY DEF Events
<1> HIDE DEF h
<1>9. w \in Exact /\ w.hooks = h /\ w.ev = vm.ev /\ w.fin = vm.fin
  BY <1>5, <1>6 DEF Exact
<1>10. HookBits(at, w)
  BY <1>5, <1>7, <1>8, <1>9 DEF HookBits
<1> HIDE DEF w
<1>11. vm' = Updated(w, J.on, J'.state)
  BY <1>4, NoInterrupt DEF Undisturbed
<1>12. vm' = Updated(w, J'.on, J'.state)
  BY <1>3, <1>11
<1> QED
  BY <1>1, <1>9, <1>10, <1>12, ChangedFollows

\* The callback of the profiler.
LEMMA ProfileHookFollows ==
  ASSUME TraceAssumption, Undisturbed, IInv, Followed(J, at, vm), ProfileHook
  PROVE  Followed(J', at', vm')
<1> DEFINE mask == vm.hooks \ {"profile"}
           c == {"vmevent"}
           x == [vm EXCEPT !.hooks = c]
           cb == Updated(x, J.on, J.state)
           y == IF "vmevent" \in mask THEN vm ELSE cb
           w == [y EXCEPT !.hooks = mask]
<1>1. /\ at \in {"interp"} \cup Handlers /\ UNCHANGED <<J, at, run>>
      /\ vm' = Updated(w, J.on, J.state)
  BY DEF ProfileHook
<1>2. Good(J', at, run')
  BY <1>1 DEF IInv
<1>3. vm \in Exact /\ HookBits(at, vm)
  BY DEF Followed
<1>4. mask \in SUBSET Hooks /\ c \in SUBSET Hooks
  BY <1>3 DEF Exact, Hooks
<1>5. /\ "profile" \notin mask /\ mask \subseteq vm.hooks
      /\ "vmevent" \in vm.hooks => "vmevent" \in mask
  OBVIOUS
<1> HIDE DEF mask, c
<1>6. x \in Exact /\ x.ev = vm.ev /\ x.fin = vm.fin
  BY <1>3, <1>4 DEF Exact
<1> HIDE DEF x
<1>7. cb \in Exact /\ cb.ev = vm.ev /\ cb.fin = vm.fin
  BY <1>6, UpdatedMode
<1> HIDE DEF cb
<1>8. y \in Exact /\ y.ev = vm.ev /\ y.fin = vm.fin
  BY <1>3, <1>7
<1> HIDE DEF y
<1>9. w \in Exact /\ w.hooks = mask /\ w.ev = vm.ev /\ w.fin = vm.fin
  BY <1>4, <1>8 DEF Exact
<1> HIDE DEF w
<1>10. HookBits(at, w)
  <2>1. "gc" \in mask => "profile" \notin mask \cup vm.ev
    BY <1>3, <1>5 DEF HookBits
  <2>2. at \in Handlers => "vmevent" \in mask /\ mask \cap {"profile"} \subseteq vm.ev
    BY <1>3, <1>5 DEF HookBits
  <2>3. ~Profiler => "profile" \notin mask \cup vm.ev \cup vm.fin
    BY <1>3, <1>5 DEF HookBits
  <2>4. (at \notin Handlers => vm.ev = {}) /\ vm.fin \subseteq {"profile"}
    BY <1>3 DEF HookBits
  <2>5. at \in Handlers => vm.ev \subseteq {"profile"}
    BY <1>3 DEF HookBits
  <2> QED
    BY <1>9, <2>1, <2>2, <2>3, <2>4, <2>5 DEF HookBits
<1>11. vm' = Updated(w, J'.on, J'.state)
  BY <1>1
<1> QED
  BY <1>1, <1>2, <1>9, <1>10, <1>11, ChangedFollows

\* The timer does not ask for the profiler hook in handlers and finalizers.
LEMMA TimerFollows ==
  ASSUME TraceAssumption, IInv, Followed(J, at, vm), Timer
  PROVE  Followed(J', at', vm')
<1> DEFINE h == vm.hooks \cup {"profile"}
           w == [vm EXCEPT !.hooks = h]
<1>1. /\ Profiler /\ "vmevent" \notin vm.hooks /\ "gc" \notin vm.hooks
      /\ vm' = Updated(w, J.on, J.state) /\ UNCHANGED <<J, at, run>>
  BY DEF Timer, MayTrigger, Triggered
<1>2. vm \in Exact /\ HookBits(at, vm)
  BY DEF Followed
<1>3. at \in {"interp", "mcode", "jit"} /\ vm.ev = {}
  BY <1>1, <1>2 DEF HookBits, IInv, Good
<1>4. h \in SUBSET Hooks /\ "gc" \notin h
  BY <1>1, <1>2 DEF Exact, Hooks
<1> HIDE DEF h
<1>5. w \in Exact /\ w.hooks = h /\ w.ev = {} /\ w.fin = vm.fin
  BY <1>2, <1>3, <1>4 DEF Exact
<1> HIDE DEF w
<1>6. HookBits(at, w)
  BY <1>1, <1>2, <1>3, <1>4, <1>5, NoHandler DEF HookBits
<1>7. J'.on = J.on /\ J'.state = J.state /\ at' = at
  BY <1>1
<1> QED
  BY <1>1, <1>3, <1>5, <1>6, <1>7, UpdatedFollows

\* A change of the bits that finalizers take away and restore, with an update unless
\* the profiler is not concerned.
LEMMA BitsFollow ==
  ASSUME TraceAssumption, Followed(J, "interp", vm), NEW w \in Exact, HookBits("interp", w),
         at = "interp", at' = at, SameBusy(J', J),
         \/ vm' = w /\ w.mode = vm.mode /\ SameBits(vm.hooks, w.hooks)
         \/ vm' = Updated(w, J'.on, J'.state)
  PROVE  Followed(J', at', vm')
<1>1. CASE vm' = w /\ w.mode = vm.mode /\ SameBits(vm.hooks, w.hooks)
  <2>1. HooksOf("interp", w) = w.hooks /\ HooksOf("interp", vm) = vm.hooks
    BY NoHandler DEF HooksOf
  <2>2. Asks(J, vm.hooks, vm.mode)
    BY <2>1 DEF Followed, Waits
  <2>3. Asks(J', w.hooks, w.mode)
    BY <1>1, <2>2, AsksSame
  <2> QED
    BY <1>1, <2>1, <2>3 DEF Followed
<1>2. CASE vm' = Updated(w, J'.on, J'.state)
  BY <1>2, UpdatedFollows
<1> QED
  BY <1>1, <1>2

\* A finalizer is called.
LEMMA FinalizerFollows ==
  ASSUME TraceAssumption, IInv, Followed(J, at, vm), Finalizer
  PROVE  Followed(J', at', vm')
<1> DEFINE h == (vm.hooks \cup {"gc"}) \ {"profile"}
           f == vm.hooks \cap {"profile"}
           w == [vm EXCEPT !.hooks = h, !.fin = f]
<1>1. /\ at = "interp" /\ at' = at /\ J' = Cancel(J)
      /\ vm' = IF w.fin = {} THEN w ELSE Updated(w, J.on, J'.state)
  BY DEF Finalizer
<1>2. vm \in Exact /\ HookBits("interp", vm) /\ J \in JRec
  BY <1>1 DEF Followed, IInv, Good
<1>3. h \in SUBSET Hooks /\ f \in SUBSET Hooks /\ "profile" \notin h
  BY <1>2 DEF Exact, Hooks
<1>4. f = {} => SameBits(vm.hooks, h)
  BY DEF SameBits, Events
<1>5. f \subseteq {"profile"} /\ (~Profiler => "profile" \notin f)
  BY <1>2 DEF HookBits
<1>6. vm.ev = {}
  BY <1>2, NoHandler DEF HookBits
<1> HIDE DEF h, f
<1>7. w \in Exact /\ w.hooks = h /\ w.ev = {} /\ w.fin = f /\ w.mode = vm.mode
  BY <1>2, <1>3, <1>6 DEF Exact
<1> HIDE DEF w
<1>8. HookBits("interp", w)
  BY <1>3, <1>5, <1>7, NoHandler DEF HookBits
<1>9. SameBusy(J', J)
  BY <1>1, <1>2 DEF Cancel, JRec, SameBusy
<1>10. \/ vm' = w /\ w.mode = vm.mode /\ SameBits(vm.hooks, w.hooks)
       \/ vm' = Updated(w, J'.on, J'.state)
  BY <1>1, <1>4, <1>7, <1>9 DEF SameBusy
<1> QED
  BY <1>1, <1>7, <1>8, <1>9, <1>10, BitsFollow

\* It returns.
LEMMA FinalizerReturnsFollows ==
  ASSUME TraceAssumption, IInv, Followed(J, at, vm), FinalizerReturns
  PROVE  Followed(J', at', vm')
<1> DEFINE h == (vm.hooks \ {"gc", "profile"}) \cup vm.fin
           f == {}
           w == [vm EXCEPT !.hooks = h, !.fin = f]
<1>1. /\ at = "interp" /\ at' = at /\ J' = J /\ "gc" \in vm.hooks
      /\ vm' = IF vm.fin = {} THEN w ELSE Updated(w, J.on, J.state)
  BY DEF FinalizerReturns
<1>2. vm \in Exact /\ HookBits("interp", vm)
  BY <1>1 DEF Followed
<1>3. "profile" \notin vm.hooks /\ vm.ev = {}
  BY <1>1, <1>2, NoHandler DEF HookBits
<1>4. h \in SUBSET Hooks /\ f \in SUBSET Hooks
  BY <1>2 DEF Exact
<1>5. vm.fin = {} => SameBits(vm.hooks, h)
  BY <1>3 DEF SameBits, Events
<1>6. ~Profiler => "profile" \notin h
  BY <1>2 DEF HookBits
<1>7. "gc" \in h => "profile" \notin h
  BY <1>2, <1>3 DEF HookBits
<1> HIDE DEF h
<1>8. w \in Exact /\ w.hooks = h /\ w.ev = {} /\ w.fin = {} /\ w.mode = vm.mode
  BY <1>2, <1>3, <1>4 DEF Exact
<1> HIDE DEF w
<1>9. HookBits("interp", w)
  BY <1>6, <1>7, <1>8, NoHandler DEF HookBits
<1>10. SameBusy(J', J)
  BY <1>1 DEF SameBusy
<1>11. \/ vm' = w /\ w.mode = vm.mode /\ SameBits(vm.hooks, w.hooks)
       \/ vm' = Updated(w, J'.on, J'.state)
  BY <1>1, <1>5, <1>8
<1> QED
  BY <1>1, <1>8, <1>9, <1>10, <1>11, BitsFollow

\* Steps that leave the dispatch fields alone, in the interpreter and in handlers.
LEMMA RestingFollows ==
  ASSUME Followed(J, at, vm), SameBusy(J', J), J'.err = J.err, UNCHANGED <<at, vm>>,
         at # "jit"
  PROVE  Followed(J', at', vm')
<1>1. Waits(J', at) => Waits(J, at)
  BY DEF Waits
<1> QED
  BY <1>1, KeptFollows

\* The library is called: the mode does not change, nor does what it depends on.
LEMMA FlushFollows ==
  ASSUME TraceAssumption, IInv, Followed(J, at, vm), Flush
  PROVE  Followed(J', at', vm')
<1>1. Resting(J, at) /\ at # "jit" /\ UNCHANGED <<at, vm>>
  BY CallingRests, NoHandler DEF Flush, SettingMode, Calling
<1> DEFINE c == Cancel(J)
<1>2. Resting(c, at) /\ SameAreas(c, J) /\ SameStart(c, J)
  BY <1>1, CancelRests
<1>3. c.state = "idle" <=> J.state = "idle"
  BY <1>1 DEF Cancel, Resting, JRec
<1>4. \/ J' = FlushAll(c)
      \/ \E n \in Traces : J' = FlushTrace(c, n)
      \/ \E f \in Protos : J' = FlushProto(c, f)
  BY DEF Flush
<1> HIDE DEF c
<1>5. c \in JRec /\ Heap(c, 0) /\ c.patch = Nil /\ CurBegins(c)
  BY <1>2, RestingBegins DEF Resting
<1>6. SameRecording(J', c)
  BY <1>4, <1>5, FlushesHeap DEF Shrunk, SameElse
<1>7. SameBusy(J', J) /\ J'.err = J.err
  BY <1>2, <1>3, <1>6 DEF SameRecording, SameBusy, SameAreas, SameStart
<1> QED
  BY <1>1, <1>7, RestingFollows

LEMMA SetProtoFollows ==
  ASSUME TraceAssumption, IInv, Followed(J, at, vm), NEW f \in Protos, SetProto(f)
  PROVE  Followed(J', at', vm')
<1>1. Resting(J, at) /\ at # "jit" /\ UNCHANGED <<at, vm>>
  BY CallingRests, NoHandler DEF SetProto, SettingMode, Calling
<1> DEFINE c == Cancel(J)
<1>2. Resting(c, at) /\ SameAreas(c, J) /\ SameStart(c, J)
  BY <1>1, CancelRests
<1>3. c.state = "idle" <=> J.state = "idle"
  BY <1>1 DEF Cancel, Resting, JRec
<1>4. \/ J' = Reenable([c EXCEPT !.nojit = @ \ {f}], f)
      \/ J' = FlushProto([c EXCEPT !.nojit = @ \cup {f}], f)
  BY DEF SetProto
<1> HIDE DEF c
<1>5. c \in JRec /\ Heap(c, 0) /\ c.patch = Nil
  BY <1>2 DEF Resting
<1>6. J'.on = c.on /\ J'.state = c.state /\ J'.err = c.err
  <2>1. CASE J' = Reenable([c EXCEPT !.nojit = @ \ {f}], f)
    <3> DEFINE x == c.nojit \ {f}
               k == [c EXCEPT !.nojit = x]
    <3>1. x \in SUBSET Protos /\ x \subseteq c.nojit
      BY <1>5 DEF JRec
    <3>2. J' = Reenable(k, f)
      BY <2>1
    <3> HIDE DEF x
    <3>3. /\ k \in JRec /\ k.trace = c.trace /\ k.chain = c.chain /\ k.held = c.held
          /\ k.no = c.no /\ k.freetrace = c.freetrace /\ k.nojit = x
          /\ k.mcarea = c.mcarea /\ k.ins = c.ins /\ k.patch = c.patch
          /\ k.state = c.state /\ k.on = c.on /\ SameStart(k, c)
      BY <1>5, <3>1, SetNojit
    <3> HIDE DEF k
    <3>4. SameHeap(k, c)
      BY <3>1, <3>3 DEF SameHeap
    <3>5. Heap(k, 0)
      BY <1>5, <3>3, <3>4, HeapKept
    <3>6. Linked(k) /\ k.patch = Nil
      BY <1>5, <3>3, <3>5 DEF Heap
    <3> DEFINE i == Reenable(k, f)
    <3>7. Rebound(i, k)
      BY <3>3, <3>6, ReenableFacts
    <3> HIDE DEF i
    <3>8. i.on = c.on /\ i.state = c.state /\ i.err = c.err
      BY <3>3, <3>7 DEF Rebound, SameRest, SameStart
    <3> QED
      BY <3>2, <3>8 DEF i
  <2>2. CASE J' = FlushProto([c EXCEPT !.nojit = @ \cup {f}], f)
    <3> DEFINE x == c.nojit \cup {f}
               k == [c EXCEPT !.nojit = x]
               i == FlushProto(k, f)
    <3>1. x \in SUBSET Protos
      BY <1>5 DEF JRec
    <3>2. SameElse(i, k)
      <4>1. k = [c EXCEPT !.nojit = @ \cup {f}]
        OBVIOUS
      <4> HIDE DEF k
      <4> QED
        BY <1>5, <4>1, FlushOffHeap
    <3>3. J' = i
      BY <2>2
    <3> HIDE DEF x, i
    <3>4. k = [c EXCEPT !.nojit = x]
      OBVIOUS
    <3> HIDE DEF k
    <3>5. k.state = c.state /\ k.on = c.on /\ SameStart(k, c)
      BY <1>5, <3>1, <3>4, SetNojit
    <3>6. i.on = c.on /\ i.state = c.state /\ i.err = c.err
      BY <3>2, <3>5 DEF SameElse, SameRecording, SameStart
    <3> QED
      BY <3>3, <3>6
  <2> QED
    BY <1>4, <2>1, <2>2
<1>7. SameBusy(J', J) /\ J'.err = J.err
  BY <1>2, <1>3, <1>6 DEF SameBusy, SameAreas, SameStart
<1> QED
  BY <1>1, <1>7, RestingFollows

\* A hook or the collector runs.
LEMMA CancelFollows ==
  ASSUME TraceAssumption, IInv, Followed(J, at, vm), HookCalled
  PROVE  Followed(J', at', vm')
<1>1. at = "interp" /\ J' = Cancel(J) /\ J \in JRec /\ UNCHANGED <<at, vm>>
  BY DEF HookCalled, IInv, Good
<1>2. SameBusy(J', J) /\ J'.err = J.err
  BY <1>1 DEF Cancel, JRec, SameBusy
<1> QED
  BY <1>1, <1>2, RestingFollows

LEMMA CollectFollows ==
  ASSUME TraceAssumption, IInv, Followed(J, at, vm), NEW n, CollectTrace(n)
  PROVE  Followed(J', at', vm')
<1>1. at \notin {"jit", "mcode"} /\ J \in JRec /\ UNCHANGED <<at, vm>>
  BY DEF CollectTrace, IInv, Good
<1> DEFINE x == [J.trace EXCEPT ![n] = Nil]
           h == IF n < J.freetrace THEN n ELSE J.freetrace
<1>2. J' = [J EXCEPT !.trace = x, !.freetrace = h]
  BY <1>1 DEF CollectTrace, JRec
<1> HIDE DEF x, h
<1>3. SameBusy(J', J) /\ J'.err = J.err
  BY <1>1, <1>2 DEF JRec, SameBusy
<1> QED
  BY <1>1, <1>3, RestingFollows

\* Compiled traces run, or a recording is about to start.
LEMMA RunFollows ==
  ASSUME TraceAssumption, IInv, Followed(J, at, vm),
         \/ Jump \/ CallC \/ Leave \/ HotSide \/ StitchReturn
         \/ \E p \in Pcs : Hot(p) \/ Enter(p)
  PROVE  Followed(J', at', vm')
<1>1. at \in {"interp", "mcode"} /\ J \in JRec
  BY DEF Jump, CallC, Leave, HotSide, StitchReturn, Hot, Enter, IInv, Good
<1>2. ASSUME SameBusy(J', J), at' \in {"interp", "mcode"}, vm' = vm
      PROVE  Followed(J', at', vm')
  <2>1. Waits(J, at) /\ (at' \in Handlers <=> at \in Handlers)
    BY <1>1, <1>2, NoHandler DEF Waits
  <2> QED
    BY <1>2, <2>1, KeptFollows
<1>3. ASSUME J'.state = "start", at' = "jit", vm' = vm
      PROVE  Followed(J', at', vm')
  <2>1. ~Waits(J', at')
    BY <1>3 DEF Waits
  <2> QED
    BY <1>1, <1>3, <2>1, RestFollows
<1>4. CASE Jump \/ CallC \/ Leave
  <2>1. J' = J \/ J' = [J EXCEPT !.held = run]
    BY <1>4 DEF Jump, CallC, Leave
  <2>2. SameBusy(J', J)
    BY <1>1, <2>1 DEF JRec, SameBusy
  <2> QED
    BY <1>1, <1>2, <1>4, <2>2 DEF Jump, CallC, Leave
<1>5. CASE HotSide
  <2>1. PICK f \in Protos : Begin([J EXCEPT !.parent = run, !.exitno = 0, !.pt = f])
    BY <1>5 DEF HotSide
  <2>2. J'.state = "start" /\ at' = "jit" /\ vm' = vm
    BY <1>1, <2>1 DEF Begin, JRec
  <2> QED
    BY <1>3, <2>2
<1>6. CASE StitchReturn
  <2> DEFINE j == [J EXCEPT !.held = Nil]
  <2>1. \/ J' = j /\ at' \in {"interp", "mcode"} /\ vm' = vm
        \/ \E p \in Pcs :
             Begin([j EXCEPT !.parent = 0, !.exitno = J.held, !.pc = p, !.pt = Proto[p]])
    BY <1>1, <1>6 DEF StitchReturn
  <2>2. CASE J' = j /\ at' \in {"interp", "mcode"} /\ vm' = vm
    <3>1. SameBusy(J', J)
      BY <1>1, <2>2 DEF JRec, SameBusy
    <3> QED
      BY <1>2, <2>2, <3>1
  <2>3. ASSUME NEW p \in Pcs,
               Begin([j EXCEPT !.parent = 0, !.exitno = J.held, !.pc = p, !.pt = Proto[p]])
        PROVE  Followed(J', at', vm')
    <3>1. J'.state = "start" /\ at' = "jit" /\ vm' = vm
      BY <1>1, <2>3 DEF Begin, JRec
    <3> QED
      BY <1>3, <3>1
  <2> QED
    BY <2>1, <2>2, <2>3
<1>7. ASSUME NEW p \in Pcs, Hot(p)
      PROVE  Followed(J', at', vm')
  <2>1. J'.state = "start" /\ at' = "jit" /\ vm' = vm
    BY <1>1, <1>7 DEF Hot, Begin, JRec
  <2> QED
    BY <1>3, <2>1
<1>8. ASSUME NEW p \in Pcs, Enter(p)
      PROVE  Followed(J', at', vm')
  <2>1. SameBusy(J', J) /\ at' = "mcode" /\ vm' = vm
    BY <1>8 DEF Enter, SameBusy
  <2> QED
    BY <1>2, <2>1
<1> QED
  BY <1>4, <1>5, <1>6, <1>7, <1>8

\* Every step keeps it.
LEMMA StepFollows ==
  ASSUME TraceAssumption, Undisturbed, IInv, Followed(J, at, vm), [Next]_vars
  PROVE  Followed(J', at', vm')
<1>1. ~Interrupts
  BY DEF Undisturbed
<1>2. CASE Start
  BY <1>1, <1>2, StartFollows
<1>3. CASE Record \/ End
  BY <1>3, RecordFollows, EndFollows
<1>4. CASE Asm
  BY <1>1, <1>4, AsmFollows
<1>5. CASE Abort
  BY <1>1, <1>5, AbortFollows
<1>6. CASE HandlerReturns
  BY <1>1, <1>6, HandlerReturnsFollows
<1>7. CASE \/ Jump \/ CallC \/ Leave \/ HotSide \/ StitchReturn
           \/ \E p \in Pcs : Hot(p) \/ Enter(p)
  BY <1>7, RunFollows
<1>8. CASE SetEngine
  BY <1>8, SetEngineFollows
<1>9. CASE Flush \/ HookCalled
  BY <1>9, FlushFollows, CancelFollows
<1>10. CASE Load
  <2>1. at = "interp" /\ "bc" \in Handlers /\ ToHandler("bc", J)
    BY <1>10 DEF Load
  <2>2. SameBusy(J, J) /\ Waits(J, at)
    BY <2>1 DEF SameBusy, Waits
  <2> QED
    BY <2>1, <2>2, ToHandlerFollows
<1>11. CASE Finalizer \/ FinalizerReturns
  BY <1>11, FinalizerFollows, FinalizerReturnsFollows
<1>12. CASE Notice
  <2>1. at = "interp" /\ at' = "jit" /\ J' = J /\ vm' = vm /\ J.state = "off"
    BY <1>12 DEF Notice
  <2>2. ~Waits(J', at')
    BY <2>1 DEF Waits
  <2> QED
    BY <2>1, <2>2, RestFollows
<1>13. CASE Timer \/ ProfileHook
  BY <1>13, TimerFollows, ProfileHookFollows
<1>14. ASSUME NEW f \in Protos, SetProto(f)
       PROVE  Followed(J', at', vm')
  BY <1>14, SetProtoFollows
<1>15. ASSUME NEW m \in HookMasks, SetHook(m)
       PROVE  Followed(J', at', vm')
  BY <1>15, SetHookFollows
<1>16. ASSUME NEW n \in Traces, CollectTrace(n)
       PROVE  Followed(J', at', vm')
  BY <1>16, CollectFollows
<1>17. CASE UNCHANGED vars
  BY <1>17 DEF vars
<1> QED
  BY <1>2, <1>3, <1>4, <1>5, <1>6, <1>7, <1>8, <1>9, <1>10, <1>11, <1>12, <1>13, <1>14,
     <1>15, <1>16, <1>17 DEF Next

\* At first nothing is hooked and nothing is recorded.
LEMMA InitFollows ==
  ASSUME TraceAssumption, Init
  PROVE  Followed(J, at, vm)
<1>1. vm \in Exact /\ at = "interp"
  BY InitExact DEF Init
<1>2. vm.hooks = {} /\ vm.ev = {} /\ vm.fin = {} /\ vm.mode = Mode(J.on, J.state, {})
  BY DEF Init
<1>3. HookBits(at, vm) /\ HooksOf(at, vm) = {}
  BY <1>1, <1>2, NoHandler DEF HookBits, HooksOf
<1> QED
  BY <1>1, <1>2, <1>3 DEF Followed, Asks

\* Dispatch is in the mode that hooks and trace compiler ask for whenever the
\* interpreter or a trace runs, with the table of that mode: for any bytecode, any
\* handlers and hooks, unless a signal arrives inside of lj_dispatch_update or the
\* profiler runs together with a handler for new functions.
THEOREM DispatchFollows ==
  ASSUME Undisturbed
  PROVE  Spec => []DispatchAgrees
<1>1. Init => Followed(J, at, vm)
  BY TraceAssumption, InitFollows
<1>2. IInv /\ Followed(J, at, vm) /\ [Next]_vars => Followed(J, at, vm)'
  BY TraceAssumption, StepFollows
<1>3. Followed(J, at, vm) => DispatchAgrees
  <2>1. SUFFICES ASSUME Followed(J, at, vm)
                 PROVE  DispatchAgrees
    OBVIOUS
  <2>2. TableExact
    BY <2>1 DEF Followed, Exact, TableExact
  <2>3. ASSUME at \in {"interp", "mcode"}
        PROVE  \/ vm.mode = Mode(J.on, J.state, vm.hooks)
               \/ J.state # "idle" /\ vm.mode = Mode(J.on, J.state, vm.hooks \ {"profile"})
    <3>1. HooksOf(at, vm) = vm.hooks /\ Waits(J, at)
      BY <2>3, TraceAssumption, NoHandler DEF HooksOf, Waits
    <3> QED
      BY <2>1, <3>1 DEF Followed, Asks
  <2> QED
    BY <2>2, <2>3 DEF DispatchAgrees
<1> QED
  BY <1>1, <1>2, <1>3, InvariantHolds, PTL DEF Spec
=============================================================================
