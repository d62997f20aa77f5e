------------------------------ MODULE Dispatch ------------------------------
(***************************************************************************)
(* The instruction dispatch table of the interpreter (lj_dispatch.c): what *)
(* mode the hooks and the trace compiler ask for, what lj_dispatch_update  *)
(* writes when the mode changes, and what becomes of an update that the    *)
(* SIGPROF handler of the profiler interrupts.                             *)
(***************************************************************************)
EXTENDS FiniteSets

\* The bits of hookmask.  HOOK_ACTIVE only keeps hooks from nesting.
Events == {"call", "ret", "line", "count"}
Hooks == Events \cup {"profile", "vmevent", "gc"}

\* Event hooks take the JIT mode away, a recording adds the recording mode.
Mode(on, state, hooks) ==
  [jit  |-> on /\ hooks \cap Events = {},
   rec  |-> state # "idle",
   prof |-> "profile" \in hooks,
   ins  |-> state # "idle" \/ hooks \cap {"profile", "line", "count"} # {},
   call |-> state # "idle" \/ hooks \cap {"call", "line"} # {},
   ret  |-> "ret" \in hooks]

\* What a mode wants in the table: for counting loops (in the static and in
\* the dynamic part), returns, all other instructions, function headers that
\* count, and headers of C functions.
Table(m) ==
  LET count == IF m.jit /\ ~m.rec THEN "hot" ELSE "cold"
      hook == IF m.prof THEN "profhook" ELSE IF m.rec THEN "record" ELSE "inshook"
  IN [static |-> count,
      loop   |-> IF m.ins THEN hook ELSE count,
      ret    |-> IF m.ins THEN hook ELSE IF m.ret THEN "rethook" ELSE "plain",
      ins    |-> IF m.ins THEN hook ELSE "plain",
      funcf  |-> IF m.call THEN "callhook" ELSE count,
      funcc  |-> IF m.call THEN "callhook" ELSE "plain"]

\* Mutant: the recording mode does not decide between the recorder and the hooks.
InsChanged_NoRec(old, new) == <<old.prof, old.ins>> # <<new.prof, new.ins>>
\* A whole part is written only when one of the modes it depends on changes.
InsChanged(old, new) ==
  <<old.prof, old.rec, old.ins>> # <<new.prof, new.rec, new.ins>>
Rewritten(disp, old, new) ==
  LET t == Table(new)
      all == InsChanged(old, new)
      calls == old.call # new.call
  IN [static |-> t.static,
      loop   |-> IF all \/ ~new.ins THEN t.loop ELSE disp.loop,
      ret    |-> IF all \/ ~new.ins THEN t.ret ELSE disp.ret,
      ins    |-> IF all THEN t.ins ELSE disp.ins,
      funcf  |-> IF calls \/ ~new.call THEN t.funcf ELSE disp.funcf,
      funcc  |-> IF calls THEN t.funcc ELSE disp.funcc]

\* vm: hookmask, dispatchmode and the table.
Updated(vm, on, state) ==
  LET new == Mode(on, state, vm.hooks)
  IN IF new = vm.mode THEN vm
     ELSE [vm EXCEPT !.mode = new, !.disp = Rewritten(vm.disp, vm.mode, new)]

\* profile_trigger, in the handler of SIGPROF.
MayTrigger(vm) == vm.hooks \cap {"profile", "vmevent", "gc"} = {}
Triggered(vm, on, state) ==
  Updated([vm EXCEPT !.hooks = @ \cup {"profile"}], on, state)

\* The signal arrives inside lj_dispatch_update: after the mode was computed, or
\* after it was stored.  The update goes on with what it has read before.
Interrupted(vm, on, state) ==
  LET new == Mode(on, state, vm.hooks)
      After(w, mode) == [w EXCEPT !.mode = mode,
                                  !.disp = Rewritten(w.disp, vm.mode, new)]
      early == Triggered(vm, on, state)
      late == Triggered([vm EXCEPT !.mode = new], on, state)
  IN IF new = vm.mode \/ ~MayTrigger(vm) THEN {}
     ELSE {After(early, new), After(late, late.mode)}

\* lj_dispatch_update.
DispatchUpdate(vm, on, state, signals) ==
  {Updated(vm, on, state)} \cup (IF signals THEN Interrupted(vm, on, state) ELSE {})
=============================================================================
