------------------------------- MODULE GcInc -------------------------------
(***************************************************************************)
(* The incremental tri-color mark & sweep collector of lj_gc.c together    *)
(* with the mutator that runs between two of its steps: loads, stores with *)
(* their write barriers, closures and open/closed upvalues, coroutine      *)
(* stacks, string interning, __gc arming and finalizer calls.              *)
(*                                                                         *)
(* One action is one C function (or one case of gc_onestep).  Gray lists   *)
(* and the sweep cursor are sets: the order in which gray objects are      *)
(* propagated and live objects swept is left open.                         *)
(***************************************************************************)
EXTENDS Naturals, FiniteSets

CONSTANTS
  Tabs,       \* tables
  Funcs,      \* closures and prototypes: forward barrier, gray list link
  Udatas,     \* userdata: marked black at once, never on a gray list
  Strs,       \* interned strings: leaves, swept in their own phase
  Uvs,        \* upvalue objects
  Threads,    \* coroutines
  Main,       \* the main thread: the mark root
  Nil         \* "no owner": the upvalue is closed

Obj == Tabs \cup Funcs \cup Udatas \cup Strs \cup Uvs \cup Threads

ASSUME KindAssumption ==
  /\ Main \in Threads
  /\ Nil \notin Obj
  /\ Tabs \cap (Funcs \cup Udatas \cup Strs \cup Uvs \cup Threads) = {}
  /\ Funcs \cap (Udatas \cup Strs \cup Uvs \cup Threads) = {}
  /\ Udatas \cap (Strs \cup Uvs \cup Threads) = {}
  /\ Strs \cap (Uvs \cup Threads) = {}
  /\ Uvs \cap Threads = {}

VARIABLES
  refs,       \* refs[o]: the objects o holds a reference to
  owner,      \* owner[uv]: thread whose openupval list holds uv, Nil once closed
  color,      \* color bits of o->marked, "free" for memory that holds no object
  curwhite,   \* gc.currentwhite
  gcstate,    \* gc.state
  gray,       \* gc.gray
  grayagain,  \* gc.grayagain
  unswept,    \* objects the sweep cursors have not passed yet
  armed,      \* LJ_TAB_HAS_GC tables, userdata with __gc that are not LJ_GC_FINALIZED
  finalized,  \* userdata with LJ_GC_FINALIZED
  mmudata,    \* gc.mmudata: separated objects waiting for their finalizer
  infin,      \* a __gc callback is running (HOOK_GC)
  full        \* lj_gc_fullgc is running the finalizers of its cycle

mutvars == <<refs, owner>>
gcvars  == <<color, curwhite, gcstate, gray, grayagain, unswept>>
finvars == <<armed, finalized, mmudata, infin, full>>
vars    == <<mutvars, gcvars, finvars>>

Whites == {"white0", "white1"}
Colors == Whites \cup {"gray", "black", "free"}
States == {"pause", "propagate", "atomic", "sweepstring", "sweep", "finalize"}

\* Object kinds that have a gclist field and go through the gray lists.
Listable == Tabs \cup Funcs \cup Threads

\* Allocated: on gc.root, a string chain, an openupval list or gc.mmudata.
heap == {o \in Obj : color[o] # "free"}

OtherWhite == IF curwhite = "white0" THEN "white1" ELSE "white0"
IsWhite(o) == color[o] \in Whites
IsBlack(o) == color[o] = "black"
IsDead(o)  == color[o] = OtherWhite
IsOpen(uv) == uv \in Uvs /\ owner[uv] # Nil
Marking    == gcstate \in {"propagate", "atomic"}
Sweeping   == gcstate \in {"sweepstring", "sweep"}

OpenUvsOf(th) == {uv \in Uvs : owner[uv] = th}
(* Values of stack slots an open upvalue points to: not to be popped first. *)
Captured(th) == UNION {refs[uv] : uv \in OpenUvsOf(th)}

-----------------------------------------------------------------------------
(* Marking *)

(* The least set that holds S and every white object a member of Via in it *)
(* refers to.                                                              *)
LeastClosed(S, Via, W) ==
  Obj \ UNION {Obj \ T : T \in {U \in SUBSET Obj :
                 S \subseteq U /\ \A o \in U \cap Via : refs[o] \cap W \subseteq U}}

WhiteSet == {o \in Obj : IsWhite(o)}

(* gc_mark applied to the white members of S: it follows a userdata or an  *)
(* upvalue at once and leaves every other kind to the gray list.           *)
GcMark(S) == LeastClosed(S \cap WhiteSet, Udatas \cup Uvs, WhiteSet)

(* Transitive marking, as propagating until the gray list is empty does.   *)
TraceFrom(S) == LeastClosed(S, Obj, WhiteSet)

(* Color gc_mark gives: a userdata and a closed upvalue are never gray.    *)
MarkColor(o) ==
  IF o \in Udatas \/ (o \in Uvs /\ ~IsOpen(o)) THEN "black" ELSE "gray"

(* Color an object has once it is traversed.  Threads are never black.     *)
DoneColor(o) ==
  IF o \in Threads \cup Strs \/ IsOpen(o) THEN "gray" ELSE "black"

(* Values computed from a state are bound by \E x \in {e}: TLC evaluates   *)
(* e once.                                                                 *)
Mark(S) ==
  \E M \in {GcMark(S)} :
    /\ color' = [o \in Obj |-> IF o \in M THEN MarkColor(o) ELSE color[o]]
    /\ gray' = gray \cup (M \cap Listable)

-----------------------------------------------------------------------------
(* Write barriers *)

(* lj_gc_barrierf and lj_gc_barrieruv, for a black o that now refers to v. *)
BarrierForward(o, v) ==
  IF IsBlack(o) /\ IsWhite(v)
  THEN IF Marking
       THEN Mark({v})
       ELSE color' = [color EXCEPT ![o] = curwhite] /\ UNCHANGED gray
  ELSE UNCHANGED <<color, gray>>

(* lj_gc_barrierback: the table is gray again and goes to the second list. *)
BarrierBack(t) ==
  /\ color' = [color EXCEPT ![t] = "gray"]
  /\ grayagain' = grayagain \cup {t}

-----------------------------------------------------------------------------
(* The mutator.  Values it can use are those on the main stack; the stack  *)
(* of a coroutine is reached through the coroutine object.                 *)

Stack == refs[Main]
Stacks == {Main} \cup (Stack \cap Threads)

Push(th, o) == [refs EXCEPT ![th] = @ \cup {o}]

(* lj_mem_newgco: the object is current-white and linked at the root.      *)
New(o) ==
  /\ o \in Obj \ (heap \cup Uvs)
  /\ refs' = [refs EXCEPT ![o] = {}, ![Main] = @ \cup {o}]
  /\ color' = [color EXCEPT ![o] = curwhite]
  /\ UNCHANGED <<owner, curwhite, gcstate, gray, grayagain, unswept, finvars>>

(* lj_str_newx finds the string in its chain: a dead one is resurrected.   *)
Intern(s) ==
  /\ s \in Strs \cap heap
  /\ refs' = Push(Main, s)
  /\ color' = [color EXCEPT ![s] = IF IsDead(s) THEN curwhite ELSE @]
  /\ UNCHANGED <<owner, curwhite, gcstate, gray, grayagain, unswept, finvars>>

(* FNEW with a local of the parent: func_finduv creates the open upvalue   *)
(* for the stack slot that holds x.                                        *)
NewClosure(f, uv, th, x) ==
  /\ th \in Stacks /\ x \in refs[th]
  /\ f \in Funcs \ heap /\ uv \in Uvs \ heap
  /\ x \notin Uvs
  /\ owner' = [owner EXCEPT ![uv] = th]
  /\ refs' = [refs EXCEPT ![f] = {uv}, ![uv] = {x}, ![th] = @ \cup {f}]
  /\ color' = [color EXCEPT ![f] = curwhite, ![uv] = curwhite]
  /\ UNCHANGED <<curwhite, gcstate, gray, grayagain, unswept, finvars>>

(* FNEW where func_finduv finds the open upvalue of the slot (a dead one   *)
(* is resurrected), or where the parent's upvalue is inherited.            *)
ShareClosure(f, uv, th) ==
  /\ th \in Stacks
  /\ f \in Funcs \ heap /\ uv \in Uvs \cap heap
  /\ owner[uv] = th \/ \E p \in Stack \cap Funcs : uv \in refs[p]
  /\ refs' = [refs EXCEPT ![f] = {uv}, ![th] = @ \cup {f}]
  /\ color' = [color EXCEPT ![f] = curwhite, ![uv] = IF IsDead(uv) THEN curwhite ELSE @]
  /\ UNCHANGED <<owner, curwhite, gcstate, gray, grayagain, unswept, finvars>>

(* Read a field, an upvalue or another stack.                              *)
Load(o, x) ==
  /\ o \in Stack
  /\ x \in refs[o] \ Uvs \/ \E uv \in refs[o] \cap Uvs : x \in refs[uv]
  /\ refs' = Push(Main, x)
  /\ UNCHANGED <<owner, gcvars, finvars>>

(* A stack slot is overwritten or popped: no barrier, threads are gray.    *)
Pop(th, x) ==
  /\ th \in Stacks /\ x \in refs[th] \ Captured(th)
  /\ refs' = [refs EXCEPT ![th] = @ \ {x}]
  /\ UNCHANGED <<owner, gcvars, finvars>>

(* lua_xmove, resume arguments: a value goes to a coroutine's stack.       *)
PushTo(th, x) ==
  /\ th \in Stacks /\ x \in Stack
  /\ refs' = Push(th, x)
  /\ UNCHANGED <<owner, gcvars, finvars>>

TabStore_NoBarrier(t, old, v) ==
  /\ t \in Stack \cap Tabs /\ v \in Stack /\ old \in refs[t] \cup {Nil}
  /\ refs' = [refs EXCEPT ![t] = (@ \ {old}) \cup {v}]
  /\ UNCHANGED <<owner, gcvars, finvars>>

(* A table store.  lj_gc_anybarriert fires for every black table,          *)
(* lj_gc_barriert only when the value is white.                            *)
TabStore(t, old, v) ==
  /\ t \in Stack \cap Tabs /\ v \in Stack /\ old \in refs[t] \cup {Nil}
  /\ refs' = [refs EXCEPT ![t] = (@ \ {old}) \cup {v}]
  /\ \/ IsBlack(t) /\ BarrierBack(t)
     \/ ~(IsBlack(t) /\ IsWhite(v)) /\ UNCHANGED <<color, grayagain>>
  /\ UNCHANGED <<owner, curwhite, gcstate, gray, unswept, finvars>>

(* nil is stored: lua_rawset has its barrier then, too.                    *)
TabClear(t, old) ==
  /\ t \in Stack \cap Tabs /\ old \in refs[t]
  /\ refs' = [refs EXCEPT ![t] = @ \ {old}]
  /\ \/ IsBlack(t) /\ BarrierBack(t)
     \/ UNCHANGED <<color, grayagain>>
  /\ UNCHANGED <<owner, curwhite, gcstate, gray, unswept, finvars>>

(* lua_setupvalue of a C function, lua_setfenv, userdata metatable: the    *)
(* forward barrier.  A userdata refers to tables only.                     *)
ForwardStore(o, old, v) ==
  /\ o \in Stack \cap (Funcs \cup Udatas) /\ v \in Stack
  /\ o \in Udatas => v \in Tabs
  /\ old \in (refs[o] \ Uvs) \cup {Nil}
  /\ refs' = [refs EXCEPT ![o] = (@ \ {old}) \cup {v}]
  /\ BarrierForward(o, v)
  /\ UNCHANGED <<owner, curwhite, gcstate, grayagain, unswept, finvars>>

(* USETx: store to an upvalue of a function on the stack.  An open upvalue *)
(* is a slot of its owner's stack; a closed one needs lj_gc_barrieruv.     *)
SetUv(uv, old, v) ==
  /\ \E f \in Stack \cap Funcs : uv \in refs[f] \cap Uvs
  /\ v \in Stack /\ old \in refs[uv] \cup {Nil}
  /\ IF IsOpen(uv)
     THEN /\ old \notin UNION {refs[u] : u \in OpenUvsOf(owner[uv]) \ {uv}}
          /\ refs' = [refs EXCEPT ![uv] = {v}, ![owner[uv]] = (@ \ {old}) \cup {v}]
          /\ UNCHANGED <<color, gray>>
     ELSE /\ refs' = [refs EXCEPT ![uv] = {v}]
          /\ BarrierForward(uv, v)
  /\ UNCHANGED <<owner, curwhite, gcstate, grayagain, unswept, finvars>>

(* lj_func_closeuv and lj_gc_closeuv for one upvalue.  A dead upvalue is   *)
(* freed; a gray one is made black and its value marked while marking,     *)
(* or made white while sweeping.                                           *)
CloseUv(uv) ==
  /\ uv \in Uvs \cap heap /\ owner[uv] \in Stacks
  /\ owner' = [owner EXCEPT ![uv] = Nil]
  /\ unswept' = unswept \ {uv}
  /\ IF IsDead(uv)
     THEN /\ refs' = [refs EXCEPT ![uv] = {}]
          /\ color' = [color EXCEPT ![uv] = "free"]
          /\ UNCHANGED gray
     ELSE /\ UNCHANGED refs
          /\ IF IsWhite(uv) THEN UNCHANGED <<color, gray>>
             ELSE IF ~Marking
             THEN color' = [color EXCEPT ![uv] = curwhite] /\ UNCHANGED gray
             ELSE \E M \in {GcMark(refs[uv])} :
                    /\ color' = [o \in Obj |-> IF o = uv THEN "black"
                                               ELSE IF o \in M THEN MarkColor(o) ELSE color[o]]
                    /\ gray' = gray \cup (M \cap Listable)
  /\ UNCHANGED <<curwhite, gcstate, grayagain, finvars>>

(* setmetatable with a __gc field.  A userdata can be armed only once.     *)
Arm(o) ==
  /\ o \in Stack \cap (Tabs \cup Udatas)
  /\ o \notin finalized
  /\ armed' = armed \cup {o}
  /\ UNCHANGED <<mutvars, gcvars, finalized, mmudata, infin, full>>

(* The __gc callback returns: gc_call_finalizer restores hooks, threshold. *)
FinReturn ==
  /\ infin
  /\ infin' = FALSE
  /\ UNCHANGED <<mutvars, gcvars, armed, finalized, mmudata, full>>

Mutator ==
  \/ \E o \in Obj \ Uvs : New(o)
  \/ \E s \in Strs : Intern(s)
  \/ \E f \in Funcs, uv \in Uvs, th \in Threads :
       \/ ShareClosure(f, uv, th)
       \/ \E x \in Obj : NewClosure(f, uv, th, x)
  \/ \E o, x \in Obj : Load(o, x)
  \/ \E th \in Threads, x \in Obj : Pop(th, x) \/ PushTo(th, x)
  \/ \E t \in Tabs, old \in Obj \cup {Nil} :
       TabClear(t, old) \/ \E v \in Obj : TabStore(t, old, v)
  \/ \E o \in Funcs \cup Udatas, v \in Obj, old \in Obj \cup {Nil} : ForwardStore(o, old, v)
  \/ \E uv \in Uvs : CloseUv(uv) \/ \E v \in Obj, old \in Obj \cup {Nil} : SetUv(uv, old, v)
  \/ \E o \in Tabs \cup Udatas : Arm(o)
  \/ FinReturn

-----------------------------------------------------------------------------
(* The collector.  No step runs while a finalizer does: the threshold is   *)
(* LJ_MAX_MEM then and lua_gc refuses under HOOK_GC.                       *)

MarkStart_KeepGrayAgain ==
  /\ gcstate = "pause"
  /\ \E M \in {GcMark({Main})} :
       /\ color' = [o \in Obj |-> IF o \in M THEN MarkColor(o) ELSE color[o]]
       /\ gray' = M \cap Listable
  /\ gcstate' = "propagate"
  /\ UNCHANGED <<mutvars, curwhite, grayagain, unswept, finvars>>

(* GCSpause: gc_mark_start.                                                *)
MarkStart ==
  /\ gcstate = "pause"
  /\ \E M \in {GcMark({Main})} :
       /\ color' = [o \in Obj |-> IF o \in M THEN MarkColor(o) ELSE color[o]]
       /\ gray' = M \cap Listable
  /\ grayagain' = {}
  /\ gcstate' = "propagate"
  /\ UNCHANGED <<mutvars, curwhite, unswept, finvars>>

Propagate_NoKindTest(o) ==
  /\ gcstate = "propagate" /\ o \in gray
  /\ \E M \in {GcMark(refs[o])} :
       /\ gray' = (gray \ {o}) \cup M
       /\ color' = [x \in Obj |-> IF x = o THEN DoneColor(o)
                                  ELSE IF x \in M THEN MarkColor(x) ELSE color[x]]
  /\ grayagain' = IF o \in Threads THEN grayagain \cup {o} ELSE grayagain
  /\ UNCHANGED <<mutvars, curwhite, gcstate, unswept, finvars>>

Propagate_KeepLinked(o) ==
  /\ gcstate = "propagate" /\ o \in gray
  /\ \E M \in {GcMark(refs[o])} :
       /\ gray' = gray \cup (M \cap Listable)
       /\ color' = [x \in Obj |-> IF x = o THEN DoneColor(o)
                                  ELSE IF x \in M THEN MarkColor(x) ELSE color[x]]
  /\ grayagain' = IF o \in Threads THEN grayagain \cup {o} ELSE grayagain
  /\ UNCHANGED <<mutvars, curwhite, gcstate, unswept, finvars>>

(* GCSpropagate: propagatemark of one gray object.                         *)
Propagate(o) ==
  /\ gcstate = "propagate" /\ o \in gray
  /\ \E M \in {GcMark(refs[o])} :
       /\ gray' = (gray \ {o}) \cup (M \cap Listable)
       /\ color' = [x \in Obj |-> IF x = o THEN DoneColor(o)
                                  ELSE IF x \in M THEN MarkColor(x) ELSE color[x]]
  /\ grayagain' = IF o \in Threads THEN grayagain \cup {o} ELSE grayagain
  /\ UNCHANGED <<mutvars, curwhite, gcstate, unswept, finvars>>

PropagateDone ==
  /\ gcstate = "propagate" /\ gray = {}
  /\ gcstate' = "atomic"
  /\ UNCHANGED <<mutvars, color, curwhite, gray, grayagain, unswept, finvars>>

GrayUvValues_None == {}

(* gc_mark_uv: values of the open upvalues that are gray.                  *)
GrayUvValues == UNION {refs[uv] : uv \in {u \in Uvs \cap heap : IsOpen(u) /\ color[u] = "gray"}}

FinalMark_PendingOnly(M1, F) == M1 \cup F

(* gc_mark_mmudata and the propagation after it: what M1 and the separated *)
(* objects reach.                                                          *)
FinalMark(M1, F) == TraceFrom(M1 \cup F)

(* lj_gc_separateudata: the armed objects that are not marked.             *)
Separated(M) == {o \in armed \ M : IsWhite(o)}

(* GCSatomic: atomic().  Finish marking, separate the armed objects that   *)
(* are still white, mark them with all they hold, flip the current white.  *)
Atomic ==
  /\ gcstate = "atomic"
  /\ \E M1 \in {TraceFrom(gray \cup grayagain \cup (WhiteSet \cap (GrayUvValues \cup {Main})))} :
     \E F \in {Separated(M1)} :
     \E M2 \in {FinalMark(M1, F)} :
       /\ mmudata' = mmudata \cup F
       /\ armed' = armed \ F
       /\ finalized' = finalized \cup {u \in Udatas \ M1 : IsWhite(u)}
       /\ color' = [o \in Obj |-> IF o \in M2 THEN DoneColor(o) ELSE color[o]]
       /\ grayagain' = M2 \cap Threads
       /\ unswept' = heap \ (mmudata \cup F)
  /\ gray' = {}
  /\ curwhite' = OtherWhite
  /\ gcstate' = IF heap \cap Strs = {} THEN "sweep" ELSE "sweepstring"
  /\ UNCHANGED <<mutvars, infin, full>>

SweepSet_NoCloseUv(S) ==
  LET Freed == {o \in S : IsDead(o)}
  IN /\ refs' = [o \in Obj |-> IF o \in Freed THEN {} ELSE refs[o]]
     /\ owner' = [uv \in Uvs |-> IF uv \in Freed THEN Nil ELSE owner[uv]]
     /\ color' = [o \in Obj |-> IF o \in Freed THEN "free"
                                ELSE IF o \in S THEN curwhite ELSE color[o]]
     /\ unswept' = unswept \ S
     /\ armed' = armed \ Freed
     /\ finalized' = finalized \ Freed
     /\ UNCHANGED <<mmudata, infin, full>>

(* gc_sweep / gc_sweepstr over the objects S: dead ones are freed, live    *)
(* ones made current-white.  A thread that is freed closes the upvalues    *)
(* that outlive it.                                                        *)
SweepSet(S) ==
  LET Freed == {o \in S : IsDead(o)}
  IN /\ refs' = [o \in Obj |-> IF o \in Freed THEN {} ELSE refs[o]]
     /\ owner' = [uv \in Uvs |-> IF uv \in Freed \/ owner[uv] \in Freed THEN Nil ELSE owner[uv]]
     /\ color' = [o \in Obj |-> IF o \in Freed THEN "free"
                                ELSE IF o \in S THEN curwhite ELSE color[o]]
     /\ unswept' = unswept \ S
     /\ armed' = armed \ Freed
     /\ finalized' = finalized \ Freed
     /\ UNCHANGED <<mmudata, infin, full>>

(* GCSsweepstring: one chain of the string table.                          *)
SweepString(S) ==
  /\ gcstate = "sweepstring"
  /\ S # {} /\ S \subseteq unswept \cap Strs
  /\ SweepSet(S)
  /\ gcstate' = IF unswept \cap Strs = S THEN "sweep" ELSE gcstate
  /\ UNCHANGED <<curwhite, gray, grayagain>>

(* GCSsweep: one object of the root list; with a thread, its upvalues.     *)
Sweep(o) ==
  /\ gcstate = "sweep"
  /\ o \in unswept /\ ~IsOpen(o)
  /\ SweepSet({o} \cup OpenUvsOf(o))
  /\ gcstate' = IF unswept \subseteq {o} \cup OpenUvsOf(o)
                THEN IF mmudata # {} THEN "finalize" ELSE "pause"
                ELSE gcstate
  /\ UNCHANGED <<curwhite, gray, grayagain>>

(* GCSfinalize: gc_finalize puts the object back on the root list, white,  *)
(* and calls its __gc if the metatable still has one.                      *)
Finalize(o) ==
  /\ gcstate = "finalize" /\ ~infin
  /\ o \in mmudata
  /\ mmudata' = mmudata \ {o}
  /\ color' = [color EXCEPT ![o] = curwhite]
  /\ \/ infin' = TRUE /\ refs' = Push(Main, o)
     \/ UNCHANGED <<infin, refs>>
  /\ UNCHANGED <<owner, curwhite, gcstate, gray, grayagain, unswept, armed, finalized, full>>

FinalizeDone ==
  /\ gcstate = "finalize" /\ ~infin
  /\ mmudata = {}
  /\ gcstate' = "pause" /\ full' = FALSE
  /\ UNCHANGED <<mutvars, color, curwhite, gray, grayagain, unswept, armed, finalized, mmudata, infin>>

(* The cycle of lj_gc_fullgc: what is marked before (M1) and after (M2)    *)
(* separation, the separated objects F and what is kept.                   *)
FullCycle(M1, F, M2, Kept) ==
  /\ refs' = [o \in Obj |-> IF o \in Kept THEN refs[o] ELSE {}]
  /\ owner' = [uv \in Uvs |-> IF {uv, owner[uv]} \subseteq Kept THEN owner[uv] ELSE Nil]
  /\ color' = [o \in Obj |-> IF o \in mmudata \cup F THEN "black"
                             ELSE IF o \in Kept THEN OtherWhite ELSE "free"]
  /\ grayagain' = M2 \cap Threads
  /\ mmudata' = mmudata \cup F
  /\ armed' = (armed \cap Kept) \ F
  /\ finalized' = (finalized \cup (Udatas \ M1)) \cap Kept
  /\ full' = (mmudata \cup F # {})
  /\ gcstate' = IF mmudata \cup F # {} THEN "finalize" ELSE "pause"

(* lj_gc_fullgc: finish or undo the running cycle, then a whole new one up *)
(* to its finalizers, which Finalize then calls.  An object pending from   *)
(* an earlier cycle is followed only by gc_mark_mmudata, unless a barrier  *)
(* made it white again.                                                    *)
FullGC ==
  /\ ~infin /\ ~full
  /\ \E M1 \in {LeastClosed({Main}, Obj \ (mmudata \ WhiteSet), Obj)} :
     \E F \in {{o \in (armed \cap heap) \ (M1 \cup mmudata) : ~IsDead(o)}} :
     \E M2 \in {LeastClosed(M1 \cup mmudata \cup F, Obj, Obj)} :
     \E Kept \in {{o \in M2 \cap heap : ~IsDead(o)}} :
       FullCycle(M1, F, M2, Kept)
  /\ curwhite' = OtherWhite
  /\ gray' = {} /\ unswept' = {}
  /\ UNCHANGED infin

OneStep ==
  \/ MarkStart \/ PropagateDone \/ Atomic \/ FinalizeDone
  \/ \E o \in Listable : Propagate(o)
  \/ \E S \in SUBSET Strs : SweepString(S)
  \/ \E o \in Obj : Sweep(o)
  \/ \E o \in Tabs \cup Udatas : Finalize(o)

Collector == OneStep \/ FullGC

Init ==
  /\ refs = [o \in Obj |-> {}]
  /\ owner = [uv \in Uvs |-> Nil]
  /\ color = [o \in Obj |-> IF o = Main THEN "white0" ELSE "free"]
  /\ curwhite = "white0"
  /\ gcstate = "pause"
  /\ gray = {} /\ grayagain = {} /\ unswept = {}
  /\ armed = {} /\ finalized = {} /\ mmudata = {}
  /\ infin = FALSE /\ full = FALSE

(* The program waits for lj_gc_fullgc, but for the finalizers it calls.    *)
Next ==
  \/ (full => infin) /\ Mutator
  \/ Collector

Spec == Init /\ [][Next]_vars

-----------------------------------------------------------------------------
(* Properties *)

(* The kinds and ranges of the collector's state.                          *)
TypeOK ==
  /\ refs \in [Obj -> SUBSET Obj]
  /\ owner \in [Uvs -> Threads \cup {Nil}]
  /\ color \in [Obj -> Colors]
  /\ curwhite \in Whites
  /\ gcstate \in States
  /\ gray \subseteq Listable /\ grayagain \subseteq Listable
  /\ unswept \subseteq Obj
  /\ armed \subseteq Tabs \cup Udatas
  /\ finalized \subseteq Udatas
  /\ mmudata \subseteq Tabs \cup Udatas
  /\ infin \in BOOLEAN /\ full \in BOOLEAN

(* Objects the program can still get at, those its finalizers will be      *)
(* called with included.                                                   *)
Reachable == LeastClosed({Main} \cup mmudata, Obj, Obj)

(* Whatever the mutator does between two collector steps, no reachable     *)
(* object has been freed.                                                  *)
NoDangling == Reachable \subseteq heap

(* An object that is not dead refers to no freed and no dead object, so    *)
(* sweeping the dead ones in any order leaves no dangling reference.       *)
LiveClosed ==
  \A o \in heap : ~IsDead(o) => \A x \in refs[o] : x \in heap /\ ~IsDead(x)

(* While marking, a black object refers to no white one: the write         *)
(* barriers of lj_gc.c keep the frontier.  Open upvalues are gray and      *)
(* marked again by gc_mark_uv.                                             *)
TriColor ==
  Marking => \A o \in heap : IsBlack(o) => \A x \in refs[o] : ~IsWhite(x)

(* While marking, the gray objects that have a gclist are those on the     *)
(* lists, and each is on one list only: a second link would cut the first. *)
GrayListed ==
  Marking => /\ gray \cap grayagain = {}
             /\ gray \cup grayagain = {o \in Listable : color[o] = "gray"}

(* Dead objects exist only where the sweep still has to go.                *)
DeadUnswept == \A o \in heap : IsDead(o) => Sweeping /\ o \in unswept

(* Between cycles all objects on the root list are current-white, which    *)
(* gc_mark_start and the "mark of non-white object" assertion rely on.     *)
WhiteBetweenCycles ==
  gcstate \in {"pause", "finalize"} => \A o \in heap \ mmudata : color[o] = curwhite

(* Threads and open upvalues are never black: stack stores need no barrier *)
(* (assertion "bad black upvalue" of lj_func_closeuv).                     *)
NeverBlack == \A o \in heap : o \in Threads \/ IsOpen(o) => ~IsBlack(o)

(* An open upvalue's value is on the stack of a thread that is allocated.  *)
OpenOnStack ==
  \A uv \in Uvs : IsOpen(uv) => uv \in heap /\ owner[uv] \in heap /\ refs[uv] \subseteq refs[owner[uv]]

-----------------------------------------------------------------------------
(* The inductive invariant behind NoDangling.                              *)

(* The main thread is never dead.  Strings hold no references.             *)
MainLive == Main \in heap /\ ~IsDead(Main)

LeafStrings == \A s \in Strs : refs[s] = {}

(* Separated objects are alive and out of the sweep's way, and no marking  *)
(* starts while some are pending, except within lj_gc_fullgc.              *)
PendingLive ==
  /\ \A o \in mmudata : o \in heap /\ ~IsDead(o) /\ o \notin unswept
  /\ gcstate \in {"pause", "propagate", "atomic"} => mmudata = {}

(* The sweep cursors stand on allocated objects, and only while sweeping.  *)
SweepOnly == unswept \subseteq heap /\ (~Sweeping => unswept = {})

(* An object that is not current-white is yet to be swept, pending, or in  *)
(* the marking of this cycle.                                              *)
ColorWhere ==
  \A o \in heap : \/ color[o] = curwhite
                  \/ o \in unswept \cup mmudata
                  \/ Marking /\ ~IsDead(o)

(* Gray objects without a gclist are strings and open upvalues.            *)
GrayKinds ==
  Marking => \A o \in heap : color[o] = "gray" => o \in Listable \cup Strs \/ IsOpen(o)

IInv ==
  /\ TypeOK /\ MainLive /\ LeafStrings /\ PendingLive /\ SweepOnly /\ ColorWhere
  /\ OpenOnStack /\ NeverBlack /\ GrayListed /\ GrayKinds /\ TriColor /\ LiveClosed

-----------------------------------------------------------------------------
(* The collector and the barriers implement the promise of GcPromise.      *)

Promise == INSTANCE GcPromise WITH
  Root <- Main, Findable <- Strs \cup Uvs, Shared <- Threads,
  alloc <- heap, pending <- mmudata

(* No collection is visible to the program: a step frees or changes no     *)
(* object in use, and separates none for finalization but what is in use   *)
(* only by way of an object that waits for its own finalizer.              *)
KeepsPromise == Promise!Spec

(* A finalizer is called "when the Lua table is collected" (TODO.md:281):  *)
(* what a collection separates is not reachable by the program.            *)
FinalizeUnreachable ==
  [][(mmudata' \ mmudata) \cap LeastClosed({Main}, Obj, Obj) = {}]_vars

-----------------------------------------------------------------------------
(* The assertion of lj_gc_barrierback ("bad GC state"): a table is turned  *)
(* gray again only inside a cycle, never in GCSfinalize or GCSpause.       *)
BarrierBackInCycle ==
  [][\A t \in Tabs : color[t] = "black" /\ color'[t] = "gray"
                     => gcstate \notin {"finalize", "pause"}]_vars

-----------------------------------------------------------------------------
(* Allocation drives the collector (lj_gc_check) as long as the program    *)
(* allocates and has not stopped it; a finalizer returns.                  *)
Fairness == WF_vars(OneStep) /\ WF_vars(FinReturn)

FairSpec == Spec /\ Fairness

(* Cycles end: the mutator cannot keep the collector marking or sweeping.  *)
CyclesEnd == []<>(gcstate = "pause")

(* No object stays allocated and unreachable for ever, whatever barriers   *)
(* and finalizers do to it: floating garbage goes in a later cycle.        *)
GarbageGoes == \A o \in Obj : []<>(o \in heap => o \in Reachable)

=============================================================================
