------------------------------- MODULE Trace --------------------------------
(***************************************************************************)
(* The trace compiler as a state machine (lj_trace.c), with what the       *)
(* recorder decides about loops, calls and returns (lj_record.c), machine  *)
(* code areas (lj_mcode.c), dispatch and hooks (lj_dispatch.c), the life   *)
(* of traces in the collector (lj_gc.c) and execution of compiled traces.  *)
(*                                                                         *)
(* Bytecode is a set of instructions where a trace may begin; a recording  *)
(* meets them in any order.  A trace has one exit, which is hot whenever   *)
(* it likes to be.                                                         *)
(***************************************************************************)
EXTENDS Naturals, Dispatch

CONSTANTS Pcs,         \* instructions where a trace may begin
          Kind,        \* of each: "loop", "itern", "func", "ret" or "call"
          Proto,       \* of each: the function prototype it is in
          Nil, Cur,    \* no trace; &J->cur
          MaxTrace,    \* the parameter maxtrace
          Handlers,    \* VM events with a handler, out of VmEvents
          HookMasks,   \* bound: masks passed to debug.sethook
          Profiler,    \* is the profiler on?
          Interrupts   \* may its signal arrive inside lj_dispatch_update?

Kinds == {"loop", "itern", "func", "ret", "call"}
\* A trace is finished, a trace is aborted, a function is loaded.
VmEvents == {"stop", "abort", "bc"}

Traces == 1..MaxTrace
Protos == {Proto[p] : p \in Pcs}

\* GCtrace, and an instruction that is unpatched for the recorder (J->patchpc).
LinkTypes == {"none", "root", "loop", "rec", "downrec", "stitch", "return", "interp"}
TraceRecs == [pc : Pcs \cup {Nil}, op : Kinds \cup {"none", "jmp"}, root : 0..MaxTrace,
              link : 0..MaxTrace, linktype : LinkTypes, nextroot : 0..MaxTrace,
              nextside : 0..MaxTrace, exit : 0..MaxTrace]
Patches == [pc : Pcs, d : Traces, skip : BOOLEAN]

ASSUME TraceAssumption ==
  /\ Kind \in [Pcs -> Kinds] /\ DOMAIN Proto = Pcs
  /\ Nil # Cur /\ Nil \notin Nat
  /\ {Nil, Cur} \cap TraceRecs = {} /\ Nil \notin Patches
  /\ MaxTrace \in Nat \ {0}
  /\ Handlers \subseteq VmEvents
  /\ HookMasks \subseteq SUBSET Events
  /\ {Profiler, Interrupts} \subseteq BOOLEAN

VARIABLES
  J,    \* jit_State, with the bytecode and the prototypes it patches
  at,   \* "interp", "mcode", "jit" (in trace_state), or the event whose handler runs
  run,  \* the trace that runs in machine code, or 0
  vm    \* hookmask, dispatch mode and table, what event and finalizer restore

vars == <<J, at, run, vm>>

\* An instruction as compiled, or a J instruction with the number of its trace.
Orig == [op |-> "orig", d |-> 0]
Jit(n) == [op |-> "jit", d |-> n]
IsJit(j, p) == j.ins[p].op = "jit"

NoTrace == [pc |-> Nil, op |-> "none", root |-> 0, link |-> 0, linktype |-> "none",
            nextroot |-> 0, nextside |-> 0, exit |-> 0]

TraceRef(j, n) == IF j.trace[n] = Cur THEN j.cur ELSE j.trace[n]
Saved(j) == {n \in Traces : j.trace[n] \notin {Nil, Cur}}
\* The least set of traces that has S and what its members lead to.
Closure(S, next) ==
  {n \in Traces : \A T \in SUBSET Traces :
     S \subseteq T /\ (\A m \in T : next[m] \subseteq T) => n \in T}

\* A root trace in the sense of the recorder: not a side trace, not stitched.
IsRoot(j) == j.parent = 0 /\ j.exitno = 0

Throw(j, e) == [j EXCEPT !.state = "err", !.err = e]
\* lj_trace_abort: the state machine notices at the next instruction.
Cancel(j) == [j EXCEPT !.state = IF @ = "idle" THEN "idle" ELSE "off"]

-----------------------------------------------------------------------------
\* Flushing and patched bytecode

FindFree(j) ==
  LET free == {n \in Traces : n >= j.freetrace /\ j.trace[n] = Nil}
  IN IF free = {} THEN 0 ELSE CHOOSE n \in free : \A m \in free : n <= m

\* Mutant: JFUNCF is forgotten.
Unpatch_NotFunc(j, t) ==
  IF IsJit(j, t.pc) /\ Kind[t.pc] # "func" THEN [j EXCEPT !.ins[t.pc] = Orig] ELSE j
Unpatch(j, t) == IF IsJit(j, t.pc) THEN [j EXCEPT !.ins[t.pc] = Orig] ELSE j

ChainOf(j, f) ==
  Closure({j.chain[f]} \ {0},
          [n \in Traces |-> IF n \in Saved(j) THEN {j.trace[n].nextroot} \ {0} ELSE {}])

FlushRoot(j, n) ==
  LET t == TraceRef(j, n)
      f == Proto[t.pc]
      before == {m \in ChainOf(j, f) : TraceRef(j, m).nextroot = n}
  IN IF j.chain[f] = n THEN Unpatch([j EXCEPT !.chain[f] = t.nextroot], t)
     ELSE IF before = {} THEN j
     ELSE Unpatch([j EXCEPT !.trace[CHOOSE m \in before : TRUE].nextroot = t.nextroot], t)

FlushTrace(j, n) ==
  IF j.trace[n] # Nil /\ TraceRef(j, n).root = 0 THEN FlushRoot(j, n) ELSE j

FlushProto(j, f) ==
  LET Fl[k \in 0..MaxTrace] == IF k = 0 THEN j
                               ELSE IF Fl[k - 1].chain[f] = 0 THEN Fl[k - 1]
                               ELSE FlushRoot(Fl[k - 1], Fl[k - 1].chain[f])
  IN Fl[MaxTrace]

\* Mutant: the number of a flushed trace stays, and so does the one of the recording.
FlushAll_NumbersStay(j) ==
  LET Fl[k \in 0..MaxTrace] ==
        IF k = 0 THEN j
        ELSE LET i == Fl[k - 1]
                 n == MaxTrace + 1 - k
             IN IF i.trace[n] = Nil THEN i ELSE [FlushTrace(i, n) EXCEPT !.trace[n] = Nil]
  IN [Fl[MaxTrace] EXCEPT !.freetrace = 0, !.mcarea = FALSE]
\* From the highest number down.  The object of a flushed trace stays until it is
\* collected; its number and its link are cleared for cont_stitch.
FlushAll(j) ==
  LET Fl[k \in 0..MaxTrace] ==
        IF k = 0 THEN j
        ELSE LET i == Fl[k - 1]
                 n == MaxTrace + 1 - k
             IN IF i.trace[n] = Nil THEN i
                ELSE [FlushTrace(i, n) EXCEPT !.trace[n] = Nil,
                                              !.held = IF @ = n THEN 0 ELSE @]
  IN [Fl[MaxTrace] EXCEPT !.no = 0, !.freetrace = 0, !.mcarea = FALSE]

Reenable(j, f) ==
  IF f \notin j.iloop THEN j
  ELSE [j EXCEPT !.iloop = @ \ {f},
                 !.ins = [p \in Pcs |-> IF Proto[p] = f /\ @[p].op = "iloop"
                                        THEN Orig ELSE @[p]]]

ToILoop(j, p) ==
  [j EXCEPT !.ins[p] = [Orig EXCEPT !.op = "iloop"], !.iloop = @ \cup {Proto[p]}]
Blacklist(j, p) ==
  IF Kind[p] = "itern" THEN [j EXCEPT !.ins[p] = [Orig EXCEPT !.op = "iterc"]]
  ELSE ToILoop(j, p)
\* After an unknown number of aborts.
Penalize(j, p) == {j, Blacklist(j, p)}

\* A J instruction that was unpatched for the recorder is put back, at once or
\* after one more instruction.
PendPatch(j, force) ==
  IF j.patch = Nil THEN j
  ELSE IF ~force /\ j.patch.skip THEN [j EXCEPT !.patch.skip = FALSE]
  ELSE [j EXCEPT !.ins[j.patch.pc] = Jit(j.patch.d), !.patch = Nil]
UnpatchFor(j, p, skip) ==
  [j EXCEPT !.patch = [pc |-> p, d |-> j.ins[p].d, skip |-> skip], !.ins[p] = Orig]

-----------------------------------------------------------------------------
\* Starting a trace

Setup(j) ==
  IF j.parent # 0
  THEN LET t == TraceRef(j, j.parent)
           root == IF t.root # 0 THEN t.root ELSE j.parent
           k == [j EXCEPT !.cur = [NoTrace EXCEPT !.op = "jmp", !.root = root]]
       IN {k, Throw(k, "other"), [k EXCEPT !.state = "end", !.cur.linktype = "interp"]}
  ELSE LET k == [j EXCEPT !.cur = [NoTrace EXCEPT !.pc = j.pc, !.op = Kind[j.pc]]]
       IN {IF Kind[j.pc] = "itern" THEN [k EXCEPT !.state = "first"] ELSE k,
           Throw(k, "other")}

\* Mutant: jit.off(f) is not looked at.
TraceStart_NoJitCheck(j) ==
  LET n == FindFree(j)
      idle == [j EXCEPT !.state = "idle"]
  IN IF j.parent = 0 /\ IsJit(j, j.pc) THEN {idle}
     ELSE IF n = 0 THEN {FlushAll(idle)}
     ELSE Setup([j EXCEPT !.trace[n] = Cur, !.no = n, !.freetrace = n + 1])
TraceStart(j) ==
  LET n == FindFree(j)
      idle == [j EXCEPT !.state = "idle"]
  IN IF j.pt \in j.nojit
     THEN {IF IsRoot(j) /\ Kind[j.pc] # "itern" THEN ToILoop(idle, j.pc) ELSE idle}
     ELSE IF j.parent = 0 /\ IsJit(j, j.pc) THEN {idle}
     ELSE IF n = 0 THEN {FlushAll(idle)}
     ELSE Setup([j EXCEPT !.trace[n] = Cur, !.no = n, !.freetrace = n + 1])

\* What is never read before it is set again.
Forget(j) == [j EXCEPT !.parent = 0, !.exitno = 0, !.pc = Nil, !.pt = Nil,
                       !.cur = NoTrace, !.err = "none"]

\* trace_state returns to its caller unless the state is above "record".
Then(j) ==
  /\ J' = IF j.state = "idle" THEN Forget(j) ELSE j
  /\ at' = IF j.state \in {"idle", "record", "off"} THEN "interp" ELSE "jit"
  /\ run' = 0

Begin(j) == J' = [j EXCEPT !.state = "start"] /\ at' = "jit" /\ run' = 0 /\ UNCHANGED vm

\* In finalizers and handlers.
NoTracing == vm.hooks \cap {"gc", "vmevent"} # {}

\* Calls count even with event hooks on: the call dispatch only asks whether the
\* compiler is on.
Counted(p) ==
  IF Kind[p] = "func" THEN \/ vm.disp.funcf = "hot"
                           \/ vm.disp.funcf = "callhook" /\ J.on
  ELSE vm.disp.loop = "hot" \/ (vm.disp.loop = "inshook" /\ vm.disp.static = "hot")

Hot(p) ==
  /\ at = "interp" /\ J.state = "idle" /\ ~NoTracing
  /\ Kind[p] \in {"loop", "itern", "func"} /\ J.ins[p] = Orig /\ Counted(p)
  /\ Begin([J EXCEPT !.parent = 0, !.exitno = 0, !.pc = p, !.pt = Proto[p]])

\* At the end of lj_trace_exit, a side trace that starts at a compiled return or
\* ITERN gets the original instruction for one round.
ExitPatched(j) ==
  {j} \cup IF j.parent = 0 \/ j.state # "record" THEN {}
           ELSE {UnpatchFor(j, p, TRUE) :
                   p \in {q \in Pcs : IsJit(j, q) /\ Kind[q] \in {"itern", "ret"}}}

Start ==
  /\ at = "jit" /\ J.state = "start"
  /\ \E i \in TraceStart([J EXCEPT !.state = "record"]) : \E j \in ExitPatched(i) :
       /\ Then(j)
       /\ IF j.state = "err" THEN UNCHANGED vm
          ELSE vm' \in DispatchUpdate(vm, j.on, j.state, Interrupts)

-----------------------------------------------------------------------------
\* Recording

RecordStop(j, linktype, n) ==
  [j EXCEPT !.state = "end", !.cur.linktype = linktype, !.cur.link = n]
\* A side trace comes back to its own start.  Without loop optimization, a jump at
\* the same stack level goes to its root instead.
StopAtSelf(j, linktype) == {RecordStop(j, linktype, n) : n \in {j.no, j.cur.root}}

\* Back at its own start: the trace loops.  ITERN is recorded at the start, too,
\* and must come round once.
RecLoopInterp(j, first) ==
  IF IsRoot(j) /\ j.cur.op \in {"loop", "itern"} /\ j.ins[j.cur.pc] = Orig /\ ~first
  THEN {RecordStop(j, "loop", j.no)} ELSE {}

\* A side trace ends at a compiled loop, or at its own start.  A root trace does
\* not, unless the loop begins with a check of its own (JFORI).
RecLoopJit(j, p) ==
  (IF IsRoot(j) /\ Kind[p] # "loop" THEN {} ELSE {RecordStop(j, "root", j.ins[p].d)})
  \cup (IF j.parent # 0 THEN StopAtSelf(j, "loop") ELSE {})

\* A function that has a trace: go on through it if the trace only returns, until
\* that recurses too deep.
RecFuncJit(j, p) ==
  LET own == IF j.parent # 0 THEN StopAtSelf(j, "rec") ELSE {}
  IN IF Proto[p] \in j.nojit THEN {}
     ELSE IF TraceRef(j, j.ins[p].d).linktype = "return"
     THEN {UnpatchFor(k, p, FALSE) : k \in {j} \cup own}
          \cup {Throw(FlushTrace(j, j.ins[p].d), "other")}
     ELSE {RecordStop(j, "root", j.ins[p].d)} \cup own

RecCompiled(j) ==
  UNION {IF Kind[p] = "func" THEN RecFuncJit(j, p) ELSE RecLoopJit(j, p) :
           p \in {q \in Pcs : IsJit(j, q)}}

\* Recursion of the function where the trace begins.
RecCall(j) == IF j.cur.op = "func" /\ j.ins[j.cur.pc] = Orig
              THEN {RecordStop(j, "rec", j.no)} ELSE {}

\* A return below the frame where the trace begins: loops of returns get a trace
\* of their own.
RecReturn(j) ==
  IF j.cur.root # 0 \/ (IsRoot(j) /\ j.cur.op # "ret") THEN {}
  ELSE {IF p = j.cur.pc THEN RecordStop(j, "downrec", j.no)
        ELSE Throw([j EXCEPT !.pc = p, !.pt = Proto[p]], "downrec") :
          p \in {q \in Pcs : Kind[q] = "ret" /\ j.ins[q] = Orig /\ Proto[q] \notin j.nojit}}

\* Anything else: go on, give up, stitch across a C function that cannot be
\* recorded, or return to the interpreter.
RecOther(j) ==
  {j, Throw(j, "other")} \cup {RecordStop(j, l, 0) : l \in {"stitch", "return"}}

\* The next instruction, or a function header, is sent to the recorder.
ToRecorder == vm.disp.ins = "record" \/ (vm.disp.funcf = "callhook" /\ ~NoTracing)

\* The instruction that was unpatched for the exit comes first.
Recorded(j, first) ==
  RecOther(j) \cup IF j.patch # Nil THEN {}
                   ELSE RecLoopInterp(j, first) \cup RecCompiled(j)
                        \cup RecCall(j) \cup RecReturn(j)

Record ==
  /\ \/ at = "jit" /\ J.state \in {"first", "record"}
     \/ at = "interp" /\ J.state = "record" /\ ToRecorder
  /\ \E k \in Recorded(PendPatch([J EXCEPT !.state = "record"], FALSE),
                       J.state = "first") : Then(k)
  /\ UNCHANGED vm

\* Loop optimization may fail: the recorder unrolls the loop once more.
End ==
  /\ at = "jit" /\ J.state = "end"
  /\ LET j == PendPatch(J, TRUE)
     IN \/ Then([j EXCEPT !.state = "asm"])
        \/ Then(Throw(j, "other"))
        \/ /\ j.cur.link = j.no /\ j.cur.linktype \in {"loop", "rec"}
           /\ Then([j EXCEPT !.state = "record", !.cur.link = 0, !.cur.linktype = "none"])
  /\ UNCHANGED vm

-----------------------------------------------------------------------------
\* Machine code areas and the end of a trace

\* The current area is writable or executable as a whole.
Reserve(j) ==
  IF j.mcarea THEN {[j EXCEPT !.prot = "gen"]}
  ELSE {[j EXCEPT !.mcarea = TRUE, !.prot = "gen"], Throw(j, "mcodeal")}

\* The trace does not fit: too long for any area, no room for another area, or
\* once more in a new area.
LimitErr(j) ==
  LET k == [j EXCEPT !.prot = "run"]
  IN {Throw(k, "other"), Throw(k, "mcodeal"), Throw(j, "mcodelm")}

Assembled(j) ==
  UNION {IF k.state = "err" THEN {k} ELSE {k, Throw(k, "other")} \cup LimitErr(k) :
           k \in Reserve(j)}

McodeCommit(j) == [j EXCEPT !.prot = "run"]
\* Mutant: the area stays writable after an error.
McodeAbort_StaysWritable(j) == j
McodeAbort(j) == [j EXCEPT !.prot = IF j.mcarea THEN "run" ELSE @]

\* Mutant: the new root trace is not linked to the others of the prototype.
TraceStop_ChainLost(j) ==
  LET n == j.no
      c == j.cur
      side == [j EXCEPT !.trace[j.parent].exit = n, !.cur.nextside = TraceRef(j, c.root).nextside,
                        !.trace[c.root].nextside = n]
      root == [j EXCEPT !.ins[c.pc] = Jit(n), !.chain[Proto[c.pc]] = n]
      k == McodeCommit(IF c.op = "jmp" THEN side
                       ELSE IF c.op = "call" THEN [j EXCEPT !.trace[j.exitno].link = n]
                       ELSE root)
  IN [k EXCEPT !.trace[n] = k.cur, !.no = 0]
\* Patch bytecode, exit or link, commit, save.
TraceStop(j) ==
  LET n == j.no
      c == j.cur
      side == [j EXCEPT !.trace[j.parent].exit = n, !.cur.nextside = TraceRef(j, c.root).nextside,
                        !.trace[c.root].nextside = n]
      root == [j EXCEPT !.ins[c.pc] = Jit(n), !.cur.nextroot = j.chain[Proto[c.pc]],
                        !.chain[Proto[c.pc]] = n]
      k == McodeCommit(IF c.op = "jmp" THEN side
                       ELSE IF c.op = "call" THEN [j EXCEPT !.trace[j.exitno].link = n]
                       ELSE root)
  IN [k EXCEPT !.trace[n] = k.cur, !.no = 0]

\* Back to the interpreter.
ToIdle(j, w) ==
  /\ Then([j EXCEPT !.state = "idle"])
  /\ vm' \in DispatchUpdate(w, j.on, "idle", Interrupts)

\* lj_vmevent_call saves the bits of hookmask that are not event hooks and restores
\* them when the handler returns.
ToHandler(e, j) ==
  /\ at' = e /\ run' = 0
  /\ J' = j
  /\ vm' = [vm EXCEPT !.hooks = @ \cup {"vmevent"}, !.ev = @ \cup (vm.hooks \cap {"profile"})]
AfterHandler(w) == [w EXCEPT !.hooks = (@ \ {"vmevent", "profile"}) \cup w.ev, !.ev = {}]

Asm ==
  /\ at = "jit" /\ J.state = "asm"
  /\ \E k \in Assembled(J) :
       IF k.state = "err" THEN Then(k) /\ UNCHANGED vm
       ELSE IF "stop" \in Handlers THEN ToHandler("stop", TraceStop(k))
       ELSE ToIdle(TraceStop(k), vm)

\* An immediate retry is free.  A trace that was stitched to another one links that
\* one to itself, and it is not tried again.
Penalty(j) ==
  IF j.parent # 0 \/ j.cur.op = "ret" THEN {j}
  ELSE IF j.exitno = 0 THEN {j} \cup Penalize(j, j.cur.pc)
  ELSE {[j EXCEPT !.trace[j.exitno].link = j.exitno]}

\* The slot of the trace is cleared after the event.
Drop(j, n) ==
  [j EXCEPT !.trace[n] = Nil, !.no = 0,
            !.freetrace = IF n < @ THEN n ELSE @]

\* The rest of trace_abort.  A loop of returns is recorded from the return on,
\* without going back to the interpreter.  Without any area the compiler is switched
\* off first, with an update of its own.
Aborted(j, w) ==
  CASE j.err = "downrec" ->
         /\ \E k \in TraceStart([j EXCEPT !.parent = 0, !.exitno = 0, !.state = "record"]) :
              /\ J' = [k EXCEPT !.state = IF @ = "idle" THEN "off" ELSE @]
              /\ at' = "jit"
         /\ run' = 0 /\ vm' = w
    [] j.err = "mcodeal" ->
         LET k == [j EXCEPT !.on = @ /\ j.mcarea]
         IN \E v \in IF j.mcarea THEN {w} ELSE DispatchUpdate(w, k.on, k.state, Interrupts) :
              ToIdle(FlushAll(k), v)
    [] OTHER -> ToIdle(j, w)

\* An asynchronous abort is an error of its own.
Abort ==
  /\ at = "jit" /\ J.state \in {"err", "off"}
  /\ LET i == PendPatch(J, TRUE)
         j == McodeAbort([i EXCEPT !.err = IF J.state = "off" THEN "other" ELSE @])
     IN IF j.err = "mcodelm" THEN Then([j EXCEPT !.state = "asm"]) /\ UNCHANGED vm
        ELSE \E k \in Penalty(j) :
               IF k.no = 0 THEN Aborted(k, vm)
               ELSE LET l == [k EXCEPT !.cur.link = 0, !.cur.linktype = "none"]
                    IN IF "abort" \in Handlers THEN ToHandler("abort", l)
                       ELSE Aborted(Drop(l, k.no), vm)

HandlerReturns ==
  LET w == AfterHandler(vm)
  IN \/ at = "stop" /\ ToIdle(J, w)
     \/ at = "abort" /\ Aborted(IF J.no = 0 THEN J ELSE Drop(J, J.no), w)
     \/ at = "bc" /\ at' = "interp" /\ vm' = w /\ UNCHANGED <<J, run>>

-----------------------------------------------------------------------------
\* Running compiled traces

\* Recording stops before a J instruction is executed, or unpatches it.  Function
\* headers have a dispatch of their own.
Enter(p) ==
  /\ at = "interp" /\ J.state = "idle" /\ IsJit(J, p)
  /\ Kind[p] = "func" \/ vm.disp.ins # "profhook"
  /\ at' = "mcode" /\ run' = J.ins[p].d
  /\ UNCHANGED <<J, vm>>

\* Machine code jumps from a patched exit, or at the end of the trace.
JumpsTo(t) == {t.exit} \cup (IF t.linktype \in {"stitch", "return", "interp"} THEN {}
                            ELSE {t.link})

Jump ==
  /\ at = "mcode"
  /\ run' \in JumpsTo(TraceRef(J, run)) \ {0, run}
  /\ UNCHANGED <<J, at, vm>>

\* A stitched trace calls a C function with a frame that holds the trace.
CallC ==
  /\ at = "mcode" /\ TraceRef(J, run).linktype = "stitch" /\ J.held = Nil
  /\ J' = [J EXCEPT !.held = run]
  /\ at' = "interp" /\ run' = 0
  /\ UNCHANGED vm

\* Mutant: the exit leaves the trace number set.
Leave_RunStays ==
  /\ at = "mcode"
  /\ \/ TraceRef(J, run).exit = 0
     \/ TraceRef(J, run).linktype \in {"return", "interp"}
  /\ at' = "interp"
  /\ UNCHANGED <<J, run, vm>>
\* The end of the trace, or an exit that is not recorded.
Leave ==
  /\ at = "mcode"
  /\ \/ TraceRef(J, run).exit = 0
     \/ TraceRef(J, run).linktype \in {"return", "interp"}
  /\ at' = "interp" /\ run' = 0
  /\ UNCHANGED <<J, vm>>

\* A hot exit, out of a trace that may have inlined any function.
HotSide ==
  /\ at = "mcode" /\ TraceRef(J, run).exit = 0
  /\ J.on /\ J.state = "idle" /\ ~NoTracing /\ "profile" \notin vm.hooks
  /\ \E f \in Protos : Begin([J EXCEPT !.parent = run, !.exitno = 0, !.pt = f])

\* The C function returns: cont_stitch finds the trace in the frame.  A flushed
\* or blacklisted trace has a link to itself.
StitchReturn ==
  /\ at = "interp" /\ J.state = "idle" /\ J.held # Nil
  /\ LET j == [J EXCEPT !.held = Nil]
         link == IF J.held = 0 THEN 0 ELSE TraceRef(J, J.held).link
     IN IF link = J.held THEN J' = j /\ UNCHANGED <<at, run, vm>>
        ELSE IF link # 0
        THEN J' = j /\ at' = "mcode" /\ run' = link /\ UNCHANGED vm
        ELSE IF NoTracing THEN J' = j /\ UNCHANGED <<at, run, vm>>
        ELSE \E p \in {q \in Pcs : Kind[q] = "call"} :
               Begin([j EXCEPT !.parent = 0, !.exitno = J.held, !.pc = p, !.pt = Proto[p]])

-----------------------------------------------------------------------------
\* What the program, its hooks and finalizers, the collector and the timer do

\* jit.* and debug.sethook while nothing is recorded, or in a handler.
Calling == at \in Handlers \/ (at = "interp" /\ J.state = "idle")
\* luaJIT_setmode is refused in a finalizer.
SettingMode == Calling /\ "gc" \notin vm.hooks

SetEngine ==
  /\ SettingMode
  /\ \E on \in BOOLEAN :
       /\ J' = [Cancel(J) EXCEPT !.on = on]
       /\ vm' \in DispatchUpdate(vm, on, J'.state, Interrupts)
  /\ UNCHANGED <<at, run>>

Flush ==
  /\ SettingMode
  /\ \/ J' = FlushAll(Cancel(J))
     \/ \E n \in Traces : J' = FlushTrace(Cancel(J), n)
     \/ \E f \in Protos : J' = FlushProto(Cancel(J), f)
  /\ UNCHANGED <<at, run, vm>>

\* jit.off(f) is not called between the abort of a loop of returns and the
\* recording of that loop.
SetProto(f) ==
  /\ SettingMode /\ ~(at = "abort" /\ J.err = "downrec")
  /\ \/ J' = Reenable([Cancel(J) EXCEPT !.nojit = @ \ {f}], f)
     \/ J' = FlushProto([Cancel(J) EXCEPT !.nojit = @ \cup {f}], f)
  /\ UNCHANGED <<at, run, vm>>

\* lua_sethook: a new hook discards all traces, but not in a finalizer.  It is called
\* by C and Lua code, and never from a signal handler.
SetHook(mask) ==
  /\ Calling
  /\ J' = Cancel(IF mask = {} \/ "gc" \in vm.hooks THEN J ELSE FlushAll(J))
  /\ vm' \in DispatchUpdate([vm EXCEPT !.hooks = (@ \ Events) \cup mask],
                             J.on, J'.state, Interrupts)
  /\ UNCHANGED <<at, run>>

\* callhook, for an event between two recorded instructions.
HookCalled ==
  /\ at = "interp" /\ J.state = "record" /\ vm.hooks \cap Events # {}
  /\ J' = Cancel(J)
  /\ UNCHANGED <<at, run, vm>>

\* gc_call_finalizer: the bit of the profiler is taken away and restored.
Finalizer ==
  /\ at = "interp" /\ "gc" \notin vm.hooks
  /\ J' = Cancel(J)
  /\ LET w == [vm EXCEPT !.hooks = (@ \cup {"gc"}) \ {"profile"},
                         !.fin = vm.hooks \cap {"profile"}]
     IN vm' = IF w.fin = {} THEN w ELSE Updated(w, J.on, J'.state)
  /\ UNCHANGED <<at, run>>
FinalizerReturns ==
  /\ at = "interp" /\ "gc" \in vm.hooks
  /\ LET w == [vm EXCEPT !.hooks = (@ \ {"gc", "profile"}) \cup vm.fin, !.fin = {}]
     IN vm' = IF vm.fin = {} THEN w ELSE Updated(w, J.on, J.state)
  /\ UNCHANGED <<J, at, run>>

\* load, with a handler for new functions.
Load ==
  /\ "bc" \in Handlers /\ at = "interp" /\ J.state = "idle"
  /\ ToHandler("bc", J)

\* The next instruction after a recording was cancelled enters trace_state.
Notice ==
  /\ at = "interp" /\ J.state = "off" /\ ToRecorder
  /\ at' = "jit" /\ UNCHANGED <<J, run, vm>>

\* Mutant: side traces are not marked.
Refs_NoSides(t) == {t.link, t.nextroot} \ {0}
\* What the collector marks: the traces in the chains of prototypes, those of
\* stitching frames on the stack, and what traces refer to.
Refs(t) == {t.link, t.nextroot, t.nextside} \ {0}

Reachable(j) ==
  Closure(({j.chain[f] : f \in Protos} \cup {j.held}
           \cup (IF j.no # 0 THEN Refs(j.cur) ELSE {})) \ {0, Nil},
          [n \in Traces |-> IF j.trace[n] = Nil THEN {} ELSE Refs(TraceRef(j, n))])

\* The atomic phase never runs below machine code; what is swept there was dead
\* before.  Bound: the traces that a recording extends are spared.
CollectTrace(n) ==
  /\ at \notin {"jit", "mcode"} /\ "gc" \notin vm.hooks
  /\ n \in Saved(J) \ Reachable(J)
  /\ J.state # "idle" => n \notin {J.parent, J.exitno, J.cur.root}
  /\ J' = [J EXCEPT !.trace[n] = Nil, !.freetrace = IF n < @ THEN n ELSE @]
  /\ UNCHANGED <<at, run, vm>>

\* The timer, and the profiler hook that it asks for.
Timer ==
  /\ Profiler /\ MayTrigger(vm)
  /\ vm' = Triggered(vm, J.on, J.state)
  /\ UNCHANGED <<J, at, run>>

\* The callback is invoked with all event hooks masked, and not in a handler.
ProfileHook ==
  /\ at \in {"interp"} \cup Handlers /\ vm.disp.ins = "profhook"
  /\ LET mask == vm.hooks \ {"profile"}
         cb == Updated([vm EXCEPT !.hooks = {"vmevent"}], J.on, J.state)
     IN vm' = Updated([(IF "vmevent" \in mask THEN vm ELSE cb) EXCEPT !.hooks = mask],
                      J.on, J.state)
  /\ UNCHANGED <<J, at, run>>

-----------------------------------------------------------------------------
Init ==
  /\ J = [state |-> "idle", pc |-> Nil, pt |-> Nil, parent |-> 0, exitno |-> 0,
          err |-> "none", cur |-> NoTrace, no |-> 0, freetrace |-> 0, patch |-> Nil,
          trace |-> [n \in Traces |-> Nil], held |-> Nil,
          ins |-> [p \in Pcs |-> Orig], chain |-> [f \in Protos |-> 0],
          nojit |-> {}, iloop |-> {}, on |-> TRUE, mcarea |-> FALSE, prot |-> "run"]
  /\ at = "interp" /\ run = 0
  /\ vm = LET m == Mode(TRUE, "idle", {}) IN 
              [hooks |-> {}, mode |-> m, disp |-> Table(m), ev |-> {}, fin |-> {}]

Next ==
  \/ Start \/ Record \/ End \/ Asm \/ Abort \/ HandlerReturns
  \/ Jump \/ CallC \/ Leave \/ HotSide \/ StitchReturn
  \/ SetEngine \/ Flush \/ HookCalled \/ Load \/ Finalizer \/ FinalizerReturns \/ Notice
  \/ Timer \/ ProfileHook
  \/ \E p \in Pcs : Hot(p) \/ Enter(p)
  \/ \E f \in Protos : SetProto(f)
  \/ \E m \in HookMasks : SetHook(m)
  \/ \E n \in Traces : CollectTrace(n)

Spec == Init /\ [][Next]_vars

-----------------------------------------------------------------------------
\* Properties

TypeOK ==
  /\ J.state \in {"idle", "off", "start", "first", "record", "end", "asm", "err"}
  /\ at \in {"interp", "mcode", "jit"} \cup Handlers
  /\ run \in 0..MaxTrace /\ (run # 0 <=> at = "mcode")
  /\ J.no \in 0..MaxTrace /\ J.freetrace \in 0..(MaxTrace + 1)
  /\ \A p \in Pcs : J.ins[p].op \in {"orig", "iloop", "iterc", "jit"}
  /\ vm.hooks \subseteq Hooks

\* A J instruction, also one that is unpatched for the recorder, names a live root
\* trace that begins there, and can be compiled at all.
PatchedIsLive ==
  LET Begins(n, p) == n \in Saved(J) /\ J.trace[n].pc = p /\ J.trace[n].root = 0
  IN /\ \A p \in Pcs : IsJit(J, p) => Begins(J.ins[p].d, p) /\ Kind[p] # "call"
     /\ J.patch # Nil => Begins(J.patch.d, J.patch.pc)

\* The chain of a prototype holds exactly the traces its bytecode is patched to.
ChainExact ==
  \A f \in Protos :
    ChainOf(J, f) = {J.ins[p].d : p \in {q \in Pcs : Proto[q] = f /\ IsJit(J, q)}}
                    \cup (IF J.patch # Nil /\ Proto[J.patch.pc] = f THEN {J.patch.d} ELSE {})

\* The trace that runs, those that bytecode or a stitching frame goes on with, and
\* all they jump to.  cont_stitch goes nowhere with a trace that is linked to itself.
Entered(j) ==
  LET held == IF j.held \in Saved(j) THEN {j.trace[j.held].link} \ {j.held} ELSE {}
  IN Closure(({run} \cup held \cup {j.ins[p].d : p \in Pcs}) \ {0},
             [n \in Traces |-> IF n \in Saved(j) THEN JumpsTo(j.trace[n]) \ {0} ELSE {}])

\* Machine code that runs, or may be entered, belongs to a trace that exists, and a
\* stitching frame holds one that does.
JumpsLive == Entered(J) \cup ({J.held} \ {0, Nil}) \subseteq Saved(J)

\* The slot of the recording, which the collector does not find, nothing left behind
\* when there is none, and no number that is free but below the hint where the next
\* search starts.
StateClean ==
  /\ {n \in Traces : J.trace[n] = Cur} = {J.no} \ {0}
  /\ J.state = "record" /\ at = "interp" => J.no # 0
  /\ J.state = "idle" => J.no = 0 /\ J.patch = Nil
  /\ at # "jit" => J.no \notin Reachable(J)
  /\ \A n \in Traces : n < J.freetrace => J.trace[n] # Nil

\* The table is the one of the mode, although it is only ever rewritten in parts.
TableExact == vm.disp = Table(vm.mode)

\* Dispatch is in the mode that hooks and trace compiler ask for, and the table is
\* the one of that mode, however it was reached.  A request of the profiler that a
\* handler's return restores in the middle of a recording waits for its end.
DispatchAgrees ==
  /\ at \in {"interp", "mcode"} =>
       \/ vm.mode = Mode(J.on, J.state, vm.hooks)
       \/ J.state # "idle" /\ vm.mode = Mode(J.on, J.state, vm.hooks \ {"profile"})
  /\ TableExact

\* Instructions are sent to the profiler hook only as long as it is asked for.
ProfhookArmed == vm.disp.ins = "profhook" => "profile" \in vm.hooks

\* Traces can be run: their code is in areas, and the areas are executable.
Executable ==
  /\ at \in {"interp", "mcode"} /\ J.mcarea => J.prot = "run"
  /\ Saved(J) # {} => J.mcarea

\* No trace for a function after jit.off.
NoJitNoTrace == \A f \in J.nojit : J.chain[f] = 0
=============================================================================
