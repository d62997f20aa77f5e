---------------------------- MODULE GcInc_proofs ----------------------------
(***************************************************************************)
(* Proofs about GcInc: type correctness and the safety of the incremental  *)
(* collector for every set of objects.  IInv is the inductive invariant;   *)
(* <Action>Keeps says why the action keeps it.                             *)
(*                                                                         *)
(* The second half shows that GcInc implements GcPromise: the program sees *)
(* nothing of the collector but that memory it cannot reach goes away and  *)
(* that finalizers are called.  A mutator action is a step Run of the      *)
(* promise, the atomic phase, the sweep and lj_gc_fullgc are steps         *)
(* Collect, gc_finalize is a step Call, and all the rest of the marking is *)
(* not visible.                                                            *)
(***************************************************************************)
EXTENDS GcInc, TLAPS

(* LeastClosed contains the set it starts from.                            *)
LEMMA LeastClosedContains ==
  ASSUME NEW S, NEW Via, NEW W
  PROVE  /\ LeastClosed(S, Via, W) \subseteq Obj
         /\ S \cap Obj \subseteq LeastClosed(S, Via, W)
  BY DEF LeastClosed

(* LeastClosed is closed: what a member of Via in it refers to is in it,   *)
(* as far as it is in W.                                                   *)
LEMMA LeastClosedClosed ==
  ASSUME NEW S, NEW Via, NEW W,
         NEW o \in LeastClosed(S, Via, W) \cap Via, NEW x \in refs[o] \cap W, x \in Obj
  PROVE  x \in LeastClosed(S, Via, W)
  BY DEF LeastClosed

(* LeastClosed is the least such set.                                      *)
LEMMA LeastClosedLeast ==
  ASSUME NEW S, NEW Via, NEW W, NEW T \in SUBSET Obj, S \subseteq T,
         \A o \in T \cap Via : refs[o] \cap W \subseteq T
  PROVE  LeastClosed(S, Via, W) \subseteq T
  BY DEF LeastClosed

(* The kinds are disjoint sets of objects.                                 *)
LEMMA Kinds ==
  /\ Tabs \subseteq Obj /\ Funcs \subseteq Obj /\ Udatas \subseteq Obj
  /\ Strs \subseteq Obj /\ Uvs \subseteq Obj /\ Threads \subseteq Obj
  /\ Listable = Tabs \cup Funcs \cup Threads
  /\ Main \in Threads /\ Main \in Obj /\ Nil \notin Obj
  BY KindAssumption DEF Obj, Listable

(* Every object is of one of the kinds.                                    *)
LEMMA KindCover ==
  Obj = Tabs \cup Funcs \cup Udatas \cup Strs \cup Uvs \cup Threads
  BY DEF Obj

(* What LeastClosed returns is a set of objects.                           *)
LEMMA MarkedAreObjects ==
  ASSUME NEW S
  PROVE  GcMark(S) \subseteq Obj /\ TraceFrom(S) \subseteq Obj
  BY LeastClosedContains DEF GcMark, TraceFrom

(* Type correctness of the collector.                                      *)
THEOREM TypeCorrect == Spec => []TypeOK
<1>1. Init => TypeOK
  BY KindAssumption DEF Init, TypeOK, Obj, Colors, Whites, States
<1>2. TypeOK /\ [Next]_vars => TypeOK'
  <2> SUFFICES ASSUME TypeOK, [Next]_vars PROVE TypeOK'
    OBVIOUS
  <2> USE Kinds DEF mutvars, gcvars, finvars, Whites, Colors, States, OtherWhite
  <2>1. ASSUME NEW o \in Obj \ Uvs, New(o) PROVE TypeOK'
    BY <2>1 DEF TypeOK, New
  <2>2. ASSUME NEW s \in Strs, Intern(s) PROVE TypeOK'
    BY <2>2 DEF TypeOK, Intern, Push, IsDead
  <2>3. ASSUME NEW f \in Funcs, NEW uv \in Uvs, NEW th \in Threads,
               ShareClosure(f, uv, th)
        PROVE  TypeOK'
    BY <2>3 DEF TypeOK, ShareClosure
  <2>4. ASSUME NEW f \in Funcs, NEW uv \in Uvs, NEW th \in Threads, NEW x \in Obj,
               NewClosure(f, uv, th, x)
        PROVE  TypeOK'
    BY <2>4 DEF TypeOK, NewClosure
  <2>5. ASSUME NEW o \in Obj, NEW x \in Obj, Load(o, x) PROVE TypeOK'
    BY <2>5 DEF TypeOK, Load, Push
  <2>6. ASSUME NEW th \in Threads, NEW x \in Obj, Pop(th, x) PROVE TypeOK'
    BY <2>6 DEF TypeOK, Pop
  <2>7. ASSUME NEW th \in Threads, NEW x \in Obj, PushTo(th, x) PROVE TypeOK'
    BY <2>7 DEF TypeOK, PushTo, Push
  <2>8. ASSUME NEW t \in Tabs, NEW old \in Obj \cup {Nil},
               TabClear(t, old)
        PROVE  TypeOK'
    BY <2>8 DEF TypeOK, TabClear, BarrierBack
  <2>9. ASSUME NEW t \in Tabs, NEW old \in Obj \cup {Nil}, NEW v \in Obj,
               TabStore(t, old, v)
        PROVE  TypeOK'
    BY <2>9 DEF TypeOK, TabStore, BarrierBack
  <2>10. ASSUME NEW o \in Funcs \cup Udatas, NEW v \in Obj, NEW old \in Obj \cup {Nil},
                ForwardStore(o, old, v)
         PROVE  TypeOK'
    BY MarkedAreObjects, <2>10 DEF TypeOK, ForwardStore, BarrierForward,
       Mark, MarkColor
  <2>11. ASSUME NEW uv \in Uvs, CloseUv(uv) PROVE TypeOK'
    BY MarkedAreObjects, <2>11 DEF TypeOK, CloseUv, MarkColor
  <2>12. ASSUME NEW uv \in Uvs, NEW v \in Obj, NEW old \in Obj \cup {Nil},
                SetUv(uv, old, v)
         PROVE  TypeOK'
    BY MarkedAreObjects, <2>12 DEF TypeOK, SetUv, BarrierForward, Mark,
       MarkColor, IsOpen
  <2>13. ASSUME NEW o \in Tabs \cup Udatas, Arm(o) PROVE TypeOK'
    BY <2>13 DEF TypeOK, Arm
  <2>14. ASSUME FinReturn PROVE TypeOK'
    BY <2>14 DEF TypeOK, FinReturn
  <2>15. ASSUME MarkStart PROVE TypeOK'
    BY MarkedAreObjects, <2>15 DEF TypeOK, MarkStart, MarkColor
  <2>16. ASSUME PropagateDone PROVE TypeOK'
    BY <2>16 DEF TypeOK, PropagateDone
  <2>17. ASSUME Atomic PROVE TypeOK'
    BY MarkedAreObjects, <2>17 DEF TypeOK, Atomic, DoneColor, FinalMark, Separated, heap
  <2>18. ASSUME FinalizeDone PROVE TypeOK'
    BY <2>18 DEF TypeOK, FinalizeDone
  <2>19. ASSUME NEW o \in Listable, Propagate(o) PROVE TypeOK'
    BY MarkedAreObjects, <2>19 DEF TypeOK, Propagate, MarkColor, DoneColor
  <2>20. ASSUME NEW S \in SUBSET Strs, SweepString(S) PROVE TypeOK'
    BY <2>20 DEF TypeOK, SweepString, SweepSet
  <2>21. ASSUME NEW o \in Obj, Sweep(o) PROVE TypeOK'
    BY <2>21 DEF TypeOK, Sweep, SweepSet, OpenUvsOf
  <2>22. ASSUME NEW o \in Tabs \cup Udatas, Finalize(o) PROVE TypeOK'
    <3>1. infin' \in BOOLEAN /\ full' \in BOOLEAN
      BY <2>22, Zenon DEF TypeOK, Finalize
    <3>2. refs' \in [Obj -> SUBSET Obj]
      BY <2>22 DEF TypeOK, Finalize, Push
    <3> QED
      BY <2>22, <3>1, <3>2 DEF TypeOK, Finalize
  <2>23. ASSUME FullGC PROVE TypeOK'
    BY LeastClosedContains, <2>23 DEF TypeOK, FullGC, FullCycle
  <2>24. CASE UNCHANGED vars
    BY <2>24 DEF TypeOK, vars, mutvars, gcvars, finvars
  <2> QED
    BY <2>1, <2>2, <2>3, <2>4, <2>5, <2>6, <2>7, <2>8, <2>9, <2>10, <2>11,
       <2>12, <2>13, <2>14, <2>15, <2>16, <2>17, <2>18, <2>19, <2>20, <2>21,
       <2>22, <2>23, <2>24 DEF Next, Mutator, Collector, OneStep
<1> QED
  BY <1>1, <1>2, PTL DEF Spec

-----------------------------------------------------------------------------
(* What marking does.                                                      *)

(* gc_mark marks white objects only, among them the white ones it is       *)
(* given, and follows userdata and upvalues.                               *)
LEMMA GcMarkSpec ==
  ASSUME TypeOK, NEW S \in SUBSET Obj
  PROVE  /\ GcMark(S) \subseteq WhiteSet
         /\ S \cap WhiteSet \subseteq GcMark(S)
         /\ \A o \in GcMark(S) : o \in Udatas \cup Uvs =>
              \A x \in refs[o] : IsWhite(x) => x \in GcMark(S)
<1>1. GcMark(S) \subseteq WhiteSet
  <2>1. WhiteSet \in SUBSET Obj
    BY DEF WhiteSet
  <2>2. \A o \in WhiteSet \cap (Udatas \cup Uvs) : refs[o] \cap WhiteSet \subseteq WhiteSet
    OBVIOUS
  <2> QED
    BY <2>1, <2>2, LeastClosedLeast DEF GcMark
<1>2. S \cap WhiteSet \subseteq GcMark(S)
  BY LeastClosedContains DEF GcMark
<1>3. ASSUME NEW o \in GcMark(S), o \in Udatas \cup Uvs, NEW x \in refs[o], IsWhite(x)
      PROVE  x \in GcMark(S)
  <2>1. o \in Obj /\ x \in Obj
    BY <1>1, <1>3 DEF WhiteSet, TypeOK
  <2> QED
    BY <1>3, <2>1, LeastClosedClosed DEF GcMark, WhiteSet
<1> QED
  BY <1>1, <1>2, <1>3

(* Transitive marking adds white objects only, and leaves no white object  *)
(* that a marked one refers to.                                            *)
LEMMA TraceSpec ==
  ASSUME TypeOK, NEW S \in SUBSET Obj
  PROVE  /\ S \subseteq TraceFrom(S)
         /\ TraceFrom(S) \subseteq S \cup WhiteSet
         /\ \A o \in TraceFrom(S) : \A x \in refs[o] : IsWhite(x) => x \in TraceFrom(S)
<1>1. S \subseteq TraceFrom(S)
  BY LeastClosedContains DEF TraceFrom
<1>2. TraceFrom(S) \subseteq S \cup WhiteSet
  <2>1. S \cup WhiteSet \in SUBSET Obj
    BY DEF WhiteSet
  <2>2. \A o \in (S \cup WhiteSet) \cap Obj : refs[o] \cap WhiteSet \subseteq S \cup WhiteSet
    OBVIOUS
  <2> QED
    BY <2>1, <2>2, LeastClosedLeast DEF TraceFrom
<1>3. ASSUME NEW o \in TraceFrom(S), NEW x \in refs[o], IsWhite(x)
      PROVE  x \in TraceFrom(S)
  <2>1. o \in Obj /\ x \in Obj
    BY <1>2, <1>3 DEF WhiteSet, TypeOK
  <2> QED
    BY <1>3, <2>1, LeastClosedClosed DEF TraceFrom, WhiteSet
<1> QED
  BY <1>1, <1>2, <1>3

(* What lj_gc_fullgc keeps: marking from the main thread, from pending     *)
(* and from separated objects F stays among the objects that are not       *)
(* dead, and is closed.                                                    *)
LEMMA FullMarked ==
  ASSUME IInv, NEW F \in SUBSET Obj, \A o \in F : o \in heap /\ ~IsDead(o)
  PROVE  LET M1 == LeastClosed({Main}, Obj \ (mmudata \ WhiteSet), Obj)
             M2 == LeastClosed(M1 \cup mmudata \cup F, Obj, Obj)
             Live == {o \in heap : ~IsDead(o)}
         IN  /\ M1 \subseteq M2 /\ mmudata \cup F \subseteq M2 /\ Main \in M1
             /\ M2 \subseteq Live
             /\ \A o \in M2 : refs[o] \subseteq M2
<1> DEFINE M1 == LeastClosed({Main}, Obj \ (mmudata \ WhiteSet), Obj)
           M2 == LeastClosed(M1 \cup mmudata \cup F, Obj, Obj)
           Live == {o \in heap : ~IsDead(o)}
<1> USE Kinds
<1>1. Live \in SUBSET Obj /\ mmudata \cup F \cup {Main} \subseteq Live
  BY DEF IInv, heap, PendingLive, MainLive
<1>2. \A o \in Live : refs[o] \subseteq Live
  BY DEF IInv, LiveClosed
<1>3. M1 \subseteq Live
  BY <1>1, <1>2, LeastClosedLeast
<1>4. M2 \subseteq Live
  <2>1. M1 \cup mmudata \cup F \subseteq Live
    BY <1>1, <1>3
  <2>2. \A o \in Live \cap Obj : refs[o] \cap Obj \subseteq Live
    BY <1>2
  <2> HIDE DEF M1, Live
  <2> QED
    BY <1>1, <2>1, <2>2, LeastClosedLeast
<1>5. Main \in M1 /\ M1 \cup mmudata \cup F \subseteq M2
  BY <1>1, <1>3, LeastClosedContains
<1>6. ASSUME NEW o \in M2, NEW x \in refs[o] PROVE x \in M2
  <2>1. o \in Obj /\ x \in Obj
    BY <1>1, <1>2, <1>4
  <2> QED
    BY <2>1, LeastClosedClosed
<1> QED
  BY <1>4, <1>5, <1>6

-----------------------------------------------------------------------------
(* The invariant holds initially and every action keeps it.                *)

(* At first there is the main thread only, white and with an empty stack.  *)
LEMMA InitHolds ==
  ASSUME Init
  PROVE  IInv
<1> USE Kinds, KindAssumption
        DEF Init, Whites, Colors, States, OtherWhite, Marking, Sweeping,
            heap, IsDead, IsOpen, IsBlack, IsWhite
<1>1. TypeOK
  BY DEF TypeOK
<1>2. MainLive /\ LeafStrings /\ PendingLive /\ SweepOnly /\ ColorWhere
  BY DEF MainLive, LeafStrings, PendingLive, SweepOnly, ColorWhere
<1>3. OpenOnStack /\ NeverBlack
  BY DEF OpenOnStack, NeverBlack
<1>4. GrayListed /\ GrayKinds /\ TriColor /\ LiveClosed
  BY DEF GrayListed, GrayKinds, TriColor, LiveClosed
<1> QED
  BY <1>1, <1>2, <1>3, <1>4 DEF IInv

(* A new object is current-white and refers to nothing; only the main      *)
(* stack, of a thread that is never black, refers to it.                   *)
LEMMA NewKeeps ==
  ASSUME IInv, TypeOK', NEW o \in Obj \ Uvs,
         New(o)
  PROVE  IInv'
<1> USE Kinds, KindAssumption
        DEF Whites, Colors, States, OtherWhite, Marking, Sweeping,
            mutvars, gcvars, finvars
<1> QED
  BY SMTT(30) DEF IInv, TypeOK, MainLive, LeafStrings, PendingLive,
     SweepOnly, ColorWhere, OpenOnStack, NeverBlack, GrayListed, GrayKinds,
     TriColor, LiveClosed, New, heap, IsDead, IsOpen, IsWhite, IsBlack

(* An interned string that was dead is current-white again before the      *)
(* stack refers to it.                                                     *)
LEMMA InternKeeps ==
  ASSUME IInv, TypeOK', NEW s \in Strs,
         Intern(s)
  PROVE  IInv'
<1> USE Kinds, KindAssumption
        DEF Whites, Colors, States, OtherWhite, Marking, Sweeping,
            mutvars, gcvars, finvars
<1> QED
  BY SMTT(30) DEF IInv, TypeOK, MainLive, LeafStrings, PendingLive,
     SweepOnly, ColorWhere, OpenOnStack, NeverBlack, GrayListed, GrayKinds,
     TriColor, LiveClosed, Intern, heap, IsDead, IsOpen, IsWhite, IsBlack,
     Push

(* A dead upvalue a new closure shares is made current-white; the closure  *)
(* is white, so no black object refers to it.                              *)
LEMMA ShareClosureKeeps ==
  ASSUME IInv, TypeOK', NEW f \in Funcs, NEW uv \in Uvs, NEW th \in Threads,
         ShareClosure(f, uv, th)
  PROVE  IInv'
<1> USE Kinds, KindAssumption
        DEF Whites, Colors, States, OtherWhite, Marking, Sweeping,
            mutvars, gcvars, finvars
<1> QED
  BY SMTT(30) DEF IInv, TypeOK, MainLive, LeafStrings, PendingLive,
     SweepOnly, ColorWhere, OpenOnStack, NeverBlack, GrayListed, GrayKinds,
     TriColor, LiveClosed, ShareClosure, heap, IsDead, IsOpen, IsWhite,
     IsBlack, Stack, Stacks

(* A new open upvalue is white and refers to a value on the stack of its   *)
(* owner, which is not dead.                                               *)
LEMMA NewClosureKeeps ==
  ASSUME IInv, TypeOK', NEW f \in Funcs, NEW uv \in Uvs, NEW th \in Threads, NEW x \in Obj,
         NewClosure(f, uv, th, x)
  PROVE  IInv'
<1> USE Kinds, KindAssumption
        DEF Whites, Colors, States, OtherWhite, Marking, Sweeping,
            mutvars, gcvars, finvars
<1> QED
  BY SMTT(30) DEF IInv, TypeOK, MainLive, LeafStrings, PendingLive,
     SweepOnly, ColorWhere, OpenOnStack, NeverBlack, GrayListed, GrayKinds,
     TriColor, LiveClosed, NewClosure, heap, IsDead, IsOpen, IsWhite,
     IsBlack, Stack, Stacks

(* A loaded value is referred to by an object that is not dead, so it is   *)
(* not dead either, and threads are not black.                             *)
LEMMA LoadKeeps ==
  ASSUME IInv, TypeOK', NEW o \in Obj, NEW x \in Obj,
         Load(o, x)
  PROVE  IInv'
<1> USE Kinds, KindAssumption
        DEF Whites, Colors, States, OtherWhite, Marking, Sweeping,
            mutvars, gcvars, finvars
<1> QED
  BY SMTT(30) DEF IInv, MainLive, LeafStrings, PendingLive, SweepOnly,
     ColorWhere, OpenOnStack, NeverBlack, GrayListed, GrayKinds, TriColor,
     LiveClosed, Load, heap, IsDead, IsOpen, IsWhite, IsBlack, Push, Stack

(* A slot an open upvalue points to is not popped first.                   *)
LEMMA PopKeeps ==
  ASSUME IInv, TypeOK', NEW th \in Threads, NEW x \in Obj,
         Pop(th, x)
  PROVE  IInv'
<1> USE Kinds, KindAssumption
        DEF Whites, Colors, States, OtherWhite, Marking, Sweeping,
            mutvars, gcvars, finvars
<1> QED
  BY SMTT(30) DEF IInv, MainLive, LeafStrings, PendingLive, SweepOnly,
     ColorWhere, OpenOnStack, NeverBlack, GrayListed, GrayKinds, TriColor,
     LiveClosed, Pop, heap, IsDead, IsOpen, IsWhite, IsBlack, Captured,
     OpenUvsOf

(* The stack of a coroutine is written without a barrier: no thread is     *)
(* black.                                                                  *)
LEMMA PushToKeeps ==
  ASSUME IInv, TypeOK', NEW th \in Threads, NEW x \in Obj,
         PushTo(th, x)
  PROVE  IInv'
<1> USE Kinds, KindAssumption
        DEF Whites, Colors, States, OtherWhite, Marking, Sweeping,
            mutvars, gcvars, finvars
<1> QED
  BY SMTT(30) DEF IInv, MainLive, LeafStrings, PendingLive, SweepOnly,
     ColorWhere, OpenOnStack, NeverBlack, GrayListed, GrayKinds, TriColor,
     LiveClosed, PushTo, heap, IsDead, IsOpen, IsWhite, IsBlack, Push, Stack

(* A table that lost a reference stays where it was or is gray again.      *)
LEMMA TabClearKeeps ==
  ASSUME IInv, TypeOK', NEW t \in Tabs, NEW old \in Obj \cup {Nil},
         TabClear(t, old)
  PROVE  IInv'
<1> USE Kinds, KindAssumption
        DEF Whites, Colors, States, OtherWhite, Marking, Sweeping,
            mutvars, gcvars, finvars
<1> QED
  BY SMTT(30) DEF IInv, TypeOK, MainLive, LeafStrings, PendingLive,
     SweepOnly, ColorWhere, OpenOnStack, NeverBlack, GrayListed, GrayKinds,
     TriColor, LiveClosed, TabClear, heap, IsDead, IsOpen, IsWhite, IsBlack,
     BarrierBack

(* A black table is gray and on the second list before a white value is    *)
(* in it.                                                                  *)
LEMMA TabStoreKeeps ==
  ASSUME IInv, TypeOK', NEW t \in Tabs, NEW old \in Obj \cup {Nil}, NEW v \in Obj,
         TabStore(t, old, v)
  PROVE  IInv'
<1> USE Kinds, KindAssumption
        DEF Whites, Colors, States, OtherWhite, Marking, Sweeping,
            mutvars, gcvars, finvars
<1>1. MainLive' /\ LeafStrings' /\ PendingLive' /\ SweepOnly' /\ ColorWhere'
  BY SMTT(30) DEF IInv, TypeOK, MainLive, LeafStrings, PendingLive,
     SweepOnly, ColorWhere, TabStore, heap, IsDead, IsBlack, BarrierBack
<1>2. OpenOnStack' /\ NeverBlack'
  BY SMTT(30) DEF IInv, TypeOK, OpenOnStack, NeverBlack, TabStore, heap,
     IsOpen, IsBlack, BarrierBack
<1>3. GrayListed' /\ GrayKinds'
  BY SMTT(30) DEF IInv, TypeOK, GrayListed, GrayKinds, TabStore, heap,
     IsOpen, IsBlack, BarrierBack
<1>4. TriColor' /\ LiveClosed'
  BY SMTT(30) DEF IInv, TypeOK, MainLive, TriColor, LiveClosed, TabStore,
     heap, IsDead, IsWhite, IsBlack, BarrierBack, Stack
<1> QED
  BY <1>1, <1>2, <1>3, <1>4 DEF IInv

(* The forward barrier marks the value while marking, else makes the       *)
(* object current-white.                                                   *)
LEMMA ForwardStoreKeeps ==
  ASSUME IInv, TypeOK', NEW o \in Funcs \cup Udatas, NEW v \in Obj, NEW old \in Obj \cup {Nil},
         ForwardStore(o, old, v)
  PROVE  IInv'
<1> USE Kinds, KindAssumption
        DEF Whites, Colors, States, OtherWhite, Marking, Sweeping,
            mutvars, gcvars, finvars
<1>1. MainLive' /\ LeafStrings' /\ PendingLive' /\ SweepOnly' /\ ColorWhere'
  BY GcMarkSpec, SMTT(30) DEF IInv, TypeOK, MainLive, LeafStrings,
     PendingLive, SweepOnly, ColorWhere, ForwardStore, heap, IsDead,
     BarrierForward, Mark, MarkColor
<1>2. OpenOnStack' /\ NeverBlack'
  BY GcMarkSpec, SMTT(30) DEF IInv, TypeOK, OpenOnStack, NeverBlack,
     ForwardStore, heap, IsOpen, IsBlack, BarrierForward, Mark, MarkColor
<1>3. GrayListed'
  <2>1. CASE Marking /\ IsBlack(o) /\ IsWhite(v)
    <3>1. PICK M \in {GcMark({v})} :
            /\ color' = [x \in Obj |-> IF x \in M THEN MarkColor(x) ELSE color[x]]
            /\ gray' = gray \cup (M \cap Listable)
      BY <2>1 DEF ForwardStore, BarrierForward, Mark
    <3>2. M \subseteq WhiteSet
      BY GcMarkSpec DEF IInv
    <3>3. \A x \in Listable : color'[x] = "gray" <=> color[x] = "gray" \/ x \in M
      BY <3>1, <3>2 DEF MarkColor, WhiteSet, IsWhite
    <3>4. M \cap (gray \cup grayagain) = {} /\ grayagain' = grayagain /\ gcstate' = gcstate
      BY <2>1, <3>2 DEF IInv, GrayListed, WhiteSet, IsWhite, ForwardStore
    <3> QED
      BY <2>1, <3>1, <3>3, <3>4 DEF IInv, GrayListed
  <2>2. CASE ~(Marking /\ IsBlack(o) /\ IsWhite(v))
    BY <2>2 DEF IInv, TypeOK, GrayListed, ForwardStore, BarrierForward, IsBlack
  <2> QED
    BY <2>1, <2>2
<1>4. GrayKinds'
  BY GcMarkSpec, KindCover, SMTT(30) DEF IInv, TypeOK, LiveClosed,
     GrayKinds, ForwardStore, heap, IsDead, IsOpen, IsWhite, IsBlack,
     WhiteSet, BarrierForward, Mark, MarkColor, Stack
<1>5. TriColor' /\ LiveClosed'
  BY GcMarkSpec, SMTT(30) DEF IInv, TypeOK, MainLive, PendingLive,
     SweepOnly, ColorWhere, TriColor, LiveClosed, ForwardStore, heap,
     IsDead, IsWhite, IsBlack, WhiteSet, BarrierForward, Mark, MarkColor,
     Stack
<1> QED
  BY <1>1, <1>2, <1>3, <1>4, <1>5 DEF IInv

(* A closed upvalue is black only once its value is marked; a dead one,    *)
(* which only dead objects refer to, is freed.                             *)
LEMMA CloseUvKeeps ==
  ASSUME IInv, TypeOK', NEW uv \in Uvs,
         CloseUv(uv)
  PROVE  IInv'
<1> USE Kinds, KindAssumption
        DEF Whites, Colors, States, OtherWhite, Marking, Sweeping,
            mutvars, gcvars, finvars
<1>1. MainLive' /\ LeafStrings' /\ PendingLive' /\ SweepOnly' /\ ColorWhere'
  BY GcMarkSpec, SMTT(30) DEF IInv, TypeOK, MainLive, LeafStrings,
     PendingLive, SweepOnly, ColorWhere, CloseUv, heap, IsDead, IsWhite,
     MarkColor
<1>2. OpenOnStack' /\ NeverBlack'
  BY GcMarkSpec, SMTT(30) DEF IInv, TypeOK, OpenOnStack, NeverBlack,
     CloseUv, heap, IsOpen, IsBlack, MarkColor
<1>3. GrayListed' /\ GrayKinds'
  BY GcMarkSpec, KindCover, SMTT(30) DEF IInv, PendingLive, SweepOnly,
     ColorWhere, GrayListed, GrayKinds, LiveClosed, CloseUv, heap, IsDead,
     IsOpen, IsWhite, WhiteSet, MarkColor
<1>4. TriColor' /\ LiveClosed'
  BY GcMarkSpec, SMTT(30) DEF IInv, TypeOK, PendingLive, SweepOnly,
     ColorWhere, TriColor, LiveClosed, CloseUv, heap, IsDead, IsWhite,
     IsBlack, WhiteSet, MarkColor
<1> QED
  BY <1>1, <1>2, <1>3, <1>4 DEF IInv

(* An open upvalue is a slot of its owner's stack; a closed one has its    *)
(* forward barrier.                                                        *)
LEMMA SetUvKeeps ==
  ASSUME IInv, TypeOK', NEW uv \in Uvs, NEW v \in Obj, NEW old \in Obj \cup {Nil},
         SetUv(uv, old, v)
  PROVE  IInv'
<1> USE Kinds, KindAssumption
        DEF Whites, Colors, States, OtherWhite, Marking, Sweeping,
            mutvars, gcvars, finvars
<1>1. MainLive' /\ LeafStrings' /\ PendingLive' /\ SweepOnly' /\ ColorWhere'
  BY GcMarkSpec, SMTT(30) DEF IInv, TypeOK, MainLive, LeafStrings,
     PendingLive, SweepOnly, ColorWhere, SetUv, heap, IsDead,
     BarrierForward, Mark, MarkColor
<1>2. OpenOnStack' /\ NeverBlack'
  BY GcMarkSpec, SMTT(30) DEF IInv, TypeOK, OpenOnStack, NeverBlack, SetUv,
     heap, IsOpen, IsBlack, BarrierForward, Mark, MarkColor, OpenUvsOf
<1>3. GrayListed'
  <2>0. CASE IsOpen(uv)
    BY <2>0 DEF IInv, TypeOK, GrayListed, SetUv
  <2>1. CASE ~IsOpen(uv) /\ Marking /\ IsBlack(uv) /\ IsWhite(v)
    <3>1. PICK M \in {GcMark({v})} :
            /\ color' = [x \in Obj |-> IF x \in M THEN MarkColor(x) ELSE color[x]]
            /\ gray' = gray \cup (M \cap Listable)
      BY <2>1 DEF SetUv, BarrierForward, Mark
    <3>2. M \subseteq WhiteSet
      BY GcMarkSpec DEF IInv
    <3>3. \A x \in Listable : color'[x] = "gray" <=> color[x] = "gray" \/ x \in M
      BY <3>1, <3>2 DEF MarkColor, WhiteSet, IsWhite
    <3>4. M \cap (gray \cup grayagain) = {} /\ grayagain' = grayagain /\ gcstate' = gcstate
      BY <2>1, <3>2 DEF IInv, GrayListed, WhiteSet, IsWhite, SetUv
    <3> QED
      BY <2>1, <3>1, <3>3, <3>4 DEF IInv, GrayListed
  <2>2. CASE ~IsOpen(uv) /\ ~(Marking /\ IsBlack(uv) /\ IsWhite(v))
    BY <2>2 DEF IInv, TypeOK, GrayListed, SetUv, BarrierForward, IsBlack
  <2> QED
    BY <2>0, <2>1, <2>2
<1>4. GrayKinds'
  BY GcMarkSpec, KindCover, SMTT(30) DEF IInv, TypeOK, LiveClosed,
     GrayKinds, SetUv, heap, IsDead, IsOpen, IsWhite, IsBlack, WhiteSet,
     BarrierForward, Mark, MarkColor, Stack
<1>5. TriColor' /\ LiveClosed'
  BY GcMarkSpec, SMTT(30) DEF IInv, TypeOK, MainLive, PendingLive,
     SweepOnly, ColorWhere, NeverBlack, TriColor, LiveClosed, SetUv, heap,
     IsDead, IsWhite, IsBlack, WhiteSet, BarrierForward, Mark, MarkColor,
     Stack
<1> QED
  BY <1>1, <1>2, <1>3, <1>4, <1>5 DEF IInv

(* Arming an object for finalization moves and recolors nothing.           *)
LEMMA ArmKeeps ==
  ASSUME IInv, TypeOK', NEW o \in Tabs \cup Udatas,
         Arm(o)
  PROVE  IInv'
<1> USE Kinds, KindAssumption
        DEF Whites, Colors, States, OtherWhite, Marking, Sweeping,
            mutvars, gcvars, finvars
<1> QED
  BY SMTT(30) DEF IInv, MainLive, LeafStrings, PendingLive, SweepOnly,
     ColorWhere, OpenOnStack, NeverBlack, GrayListed, GrayKinds, TriColor,
     LiveClosed, Arm, heap, IsDead, IsOpen, IsWhite, IsBlack

(* The return of a finalizer moves and recolors nothing.                   *)
LEMMA FinReturnKeeps ==
  ASSUME IInv, TypeOK', FinReturn
  PROVE  IInv'
<1> USE Kinds, KindAssumption
        DEF Whites, Colors, States, OtherWhite, Marking, Sweeping,
            mutvars, gcvars, finvars
<1> QED
  BY SMTT(30) DEF IInv, MainLive, LeafStrings, PendingLive, SweepOnly,
     ColorWhere, OpenOnStack, NeverBlack, GrayListed, GrayKinds, TriColor,
     LiveClosed, FinReturn, heap, IsDead, IsOpen, IsWhite, IsBlack

(* When a cycle starts every object is current-white, so what is black is  *)
(* what gc_mark blackened, with all it refers to marked.                   *)
LEMMA MarkStartKeeps ==
  ASSUME IInv, TypeOK', MarkStart
  PROVE  IInv'
<1> USE Kinds, KindAssumption
        DEF Whites, Colors, States, OtherWhite, Marking, Sweeping,
            mutvars, gcvars, finvars
<1>1. MainLive' /\ LeafStrings' /\ PendingLive' /\ SweepOnly' /\ ColorWhere'
  BY GcMarkSpec, SMTT(30) DEF IInv, MainLive, LeafStrings, PendingLive,
     SweepOnly, ColorWhere, MarkStart, heap, IsDead, MarkColor
<1>2. OpenOnStack' /\ NeverBlack'
  BY GcMarkSpec, SMTT(30) DEF IInv, OpenOnStack, NeverBlack, MarkStart,
     heap, IsOpen, IsBlack, MarkColor
<1>3. GrayListed' /\ GrayKinds'
  BY GcMarkSpec, KindCover, SMTT(30) DEF IInv, TypeOK, PendingLive,
     SweepOnly, ColorWhere, GrayListed, GrayKinds, MarkStart, heap, IsOpen,
     MarkColor
<1>4. TriColor'
  BY GcMarkSpec, SMTT(30) DEF IInv, PendingLive, SweepOnly, ColorWhere,
     TriColor, LiveClosed, MarkStart, heap, IsDead, IsWhite, IsBlack,
     WhiteSet, MarkColor
<1>5. LiveClosed'
  BY GcMarkSpec, SMTT(30) DEF IInv, PendingLive, SweepOnly, ColorWhere,
     LiveClosed, MarkStart, heap, IsDead, IsWhite, WhiteSet, MarkColor
<1> QED
  BY <1>1, <1>2, <1>3, <1>4, <1>5 DEF IInv

(* The gray list is empty: the cycle is about to become atomic.            *)
LEMMA PropagateDoneKeeps ==
  ASSUME IInv, TypeOK', PropagateDone
  PROVE  IInv'
<1> USE Kinds, KindAssumption
        DEF Whites, Colors, States, OtherWhite, Marking, Sweeping,
            mutvars, gcvars, finvars
<1> QED
  BY SMTT(30) DEF IInv, MainLive, LeafStrings, PendingLive, SweepOnly,
     ColorWhere, OpenOnStack, NeverBlack, GrayListed, GrayKinds, TriColor,
     LiveClosed, PropagateDone, heap, IsDead, IsOpen, IsWhite, IsBlack

(* After the atomic phase no marked object refers to a white one, so once  *)
(* the whites flip no live object refers to a dead one.                    *)
LEMMA AtomicKeeps ==
  ASSUME IInv, TypeOK', Atomic
  PROVE  IInv'
<1> USE Kinds, KindAssumption
        DEF Whites, Colors, States, OtherWhite, Marking, Sweeping,
            mutvars, gcvars, finvars
<1>1. MainLive' /\ LeafStrings' /\ PendingLive' /\ SweepOnly' /\ ColorWhere'
  BY TraceSpec, SMTT(30) DEF IInv, TypeOK, MainLive, LeafStrings,
     PendingLive, SweepOnly, ColorWhere, GrayListed, Atomic, heap, IsDead,
     IsWhite, WhiteSet, DoneColor, FinalMark, GrayUvValues, Separated
<1>2. OpenOnStack' /\ NeverBlack'
  BY TraceSpec, SMTT(30) DEF IInv, OpenOnStack, NeverBlack, Atomic, heap,
     IsOpen, IsBlack, DoneColor, FinalMark, GrayUvValues, Separated
<1>3. GrayListed' /\ GrayKinds'
  BY TraceSpec, SMTT(30) DEF IInv, GrayListed, GrayKinds, Atomic, DoneColor,
     FinalMark, GrayUvValues, Separated
<1>4. TriColor' /\ LiveClosed'
  BY TraceSpec, SMTT(60) DEF IInv, TypeOK, MainLive, LeafStrings,
     PendingLive, SweepOnly, ColorWhere, OpenOnStack, NeverBlack,
     GrayListed, GrayKinds, TriColor, LiveClosed, Atomic, heap, IsDead,
     IsOpen, IsWhite, IsBlack, WhiteSet, DoneColor, FinalMark, GrayUvValues,
     Separated
<1> QED
  BY <1>1, <1>2, <1>3, <1>4 DEF IInv

(* No object is pending when the cycle ends.                               *)
LEMMA FinalizeDoneKeeps ==
  ASSUME IInv, TypeOK', FinalizeDone
  PROVE  IInv'
<1> USE Kinds, KindAssumption
        DEF Whites, Colors, States, OtherWhite, Marking, Sweeping,
            mutvars, gcvars, finvars
<1> QED
  BY SMTT(30) DEF IInv, MainLive, LeafStrings, PendingLive, SweepOnly,
     ColorWhere, OpenOnStack, NeverBlack, GrayListed, GrayKinds, TriColor,
     LiveClosed, FinalizeDone, heap, IsDead, IsOpen, IsBlack

(* A traversed object has all it refers to marked; one that got gray is    *)
(* put on the list if it has a link.                                       *)
LEMMA PropagateKeeps ==
  ASSUME IInv, TypeOK', NEW o \in Listable,
         Propagate(o)
  PROVE  IInv'
<1> USE Kinds, KindAssumption
        DEF Whites, Colors, States, OtherWhite, Marking, Sweeping,
            mutvars, gcvars, finvars
<1>1. MainLive' /\ LeafStrings' /\ PendingLive' /\ SweepOnly' /\ ColorWhere'
  BY GcMarkSpec, SMTT(30) DEF IInv, MainLive, LeafStrings, PendingLive,
     SweepOnly, ColorWhere, Propagate, heap, IsDead, MarkColor, DoneColor
<1>2. OpenOnStack' /\ NeverBlack'
  BY GcMarkSpec, SMTT(30) DEF IInv, OpenOnStack, NeverBlack, Propagate,
     heap, IsOpen, IsBlack, MarkColor, DoneColor
<1>3. GrayListed' /\ GrayKinds'
  BY GcMarkSpec, KindCover, SMTT(30) DEF IInv, GrayListed, GrayKinds,
     LiveClosed, Propagate, heap, IsDead, IsOpen, IsWhite, WhiteSet,
     MarkColor, DoneColor
<1>4. TriColor' /\ LiveClosed'
  BY GcMarkSpec, SMTT(30) DEF IInv, PendingLive, SweepOnly, ColorWhere,
     GrayListed, TriColor, LiveClosed, Propagate, heap, IsDead, IsWhite,
     IsBlack, WhiteSet, MarkColor, DoneColor
<1> QED
  BY <1>1, <1>2, <1>3, <1>4 DEF IInv

(* Freed strings were dead, so no object that stays refers to them.        *)
LEMMA SweepStringKeeps ==
  ASSUME IInv, TypeOK', NEW S \in SUBSET Strs,
         SweepString(S)
  PROVE  IInv'
<1> USE Kinds, KindAssumption
        DEF Whites, Colors, States, OtherWhite, Marking, Sweeping,
            mutvars, gcvars, finvars
<1> QED
  BY SMTT(30) DEF IInv, TypeOK, MainLive, LeafStrings, PendingLive,
     SweepOnly, ColorWhere, OpenOnStack, NeverBlack, GrayListed, GrayKinds,
     TriColor, LiveClosed, SweepString, heap, IsDead, IsOpen, IsBlack,
     SweepSet

(* A freed object was dead, so no object that stays refers to it; the      *)
(* upvalues a freed thread leaves are closed.                              *)
LEMMA SweepKeeps ==
  ASSUME IInv, TypeOK', NEW o \in Obj,
         Sweep(o)
  PROVE  IInv'
<1> USE Kinds, KindAssumption
        DEF Whites, Colors, States, OtherWhite, Marking, Sweeping,
            mutvars, gcvars, finvars
<1>1. MainLive' /\ LeafStrings' /\ PendingLive' /\ SweepOnly' /\ ColorWhere'
  BY SMTT(30) DEF IInv, TypeOK, MainLive, LeafStrings, PendingLive,
     SweepOnly, ColorWhere, Sweep, heap, IsDead, SweepSet
<1>2. OpenOnStack' /\ NeverBlack'
  BY SMTT(30) DEF IInv, TypeOK, OpenOnStack, NeverBlack, Sweep, heap,
     IsOpen, IsBlack, SweepSet
<1>3. GrayListed' /\ GrayKinds'
  BY SMTT(30) DEF IInv, GrayListed, GrayKinds, Sweep, SweepSet
<1>4. TriColor' /\ LiveClosed'
  BY SMTT(30) DEF IInv, TypeOK, SweepOnly, OpenOnStack, TriColor,
     LiveClosed, Sweep, heap, IsDead, IsOpen, SweepSet, OpenUvsOf
<1> QED
  BY <1>1, <1>2, <1>3, <1>4 DEF IInv

(* The object to finalize was alive and is current-white when the stack    *)
(* refers to it.                                                           *)
LEMMA FinalizeKeeps ==
  ASSUME IInv, TypeOK', NEW o \in Tabs \cup Udatas,
         Finalize(o)
  PROVE  IInv'
<1> USE Kinds, KindAssumption
        DEF Whites, Colors, States, OtherWhite, Marking, Sweeping,
            mutvars, gcvars, finvars
<1> QED
  BY SMTT(30) DEF IInv, TypeOK, MainLive, LeafStrings, PendingLive,
     SweepOnly, ColorWhere, OpenOnStack, NeverBlack, GrayListed, GrayKinds,
     TriColor, LiveClosed, Finalize, heap, IsDead, IsOpen, IsBlack, Push

(* lj_gc_fullgc keeps what is reachable, in one color, and frees the       *)
(* rest.                                                                   *)
LEMMA FullGCKeeps ==
  ASSUME IInv, TypeOK', FullGC
  PROVE  IInv'
<1> USE Kinds DEF Whites, OtherWhite, Marking, Sweeping
<1>1. PICK M1, F, M2, Kept :
        /\ M1 = LeastClosed({Main}, Obj \ (mmudata \ WhiteSet), Obj)
        /\ F = {o \in (armed \cap heap) \ (M1 \cup mmudata) : ~IsDead(o)}
        /\ M2 = LeastClosed(M1 \cup mmudata \cup F, Obj, Obj)
        /\ Kept = {o \in M2 \cap heap : ~IsDead(o)}
        /\ FullCycle(M1, F, M2, Kept)
  BY DEF FullGC
<1>2. F \in SUBSET Obj /\ \A o \in F : o \in heap /\ ~IsDead(o)
  BY <1>1 DEF heap
<1>3. /\ mmudata \cup F \subseteq M2 /\ Main \in M1 /\ M1 \subseteq M2
      /\ Kept = M2 /\ \A o \in M2 : refs[o] \subseteq M2
  BY <1>1, <1>2, FullMarked
<1>4. /\ gcstate' \in {"pause", "finalize"} /\ unswept' = {} /\ curwhite' = OtherWhite
      /\ heap' = Kept /\ mmudata' = mmudata \cup F
      /\ \A o \in heap' : color'[o] = curwhite' \/ o \in mmudata'
      /\ \A o \in heap' : ~IsDead(o)' /\ refs'[o] = refs[o]
  <2>1. /\ gcstate' \in {"pause", "finalize"} /\ unswept' = {}
        /\ curwhite' = OtherWhite /\ mmudata' = mmudata \cup F
    BY <1>1 DEF FullGC, FullCycle
  <2>2. Kept \subseteq Obj /\ mmudata \cup F \subseteq Kept
    BY <1>1, <1>3 DEF heap
  <2>3. \A o \in Obj : /\ o \in mmudata \cup F => color'[o] = "black"
                       /\ o \in Kept \ (mmudata \cup F) => color'[o] = OtherWhite
                       /\ o \notin Kept => color'[o] = "free"
                       /\ o \in Kept => refs'[o] = refs[o]
    BY <1>1, <2>2 DEF FullCycle
  <2>4. OtherWhite \in Whites /\ OtherWhite \notin {"free", "black"}
    OBVIOUS
  <2> HIDE DEF OtherWhite, Whites
  <2>5. heap' = Kept
    <3>1. ASSUME NEW o \in Obj PROVE color'[o] # "free" <=> o \in Kept
      <4>1. CASE o \in mmudata \cup F
        BY <2>2, <2>3, <4>1
      <4>2. CASE o \in Kept \ (mmudata \cup F)
        BY <2>3, <2>4, <4>2
      <4>3. CASE o \notin Kept
        BY <2>3, <4>3
      <4> QED
        BY <4>1, <4>2, <4>3
    <3> QED
      BY <2>2, <3>1 DEF heap
  <2>6. \A o \in Kept : \/ o \in mmudata \cup F /\ color'[o] = "black"
                       \/ color'[o] = OtherWhite
    BY <2>2, <2>3
  <2>7. \A o \in Kept : refs'[o] = refs[o]
    BY <2>2, <2>3
  <2>8. \A o \in heap' : color'[o] = curwhite' \/ o \in mmudata'
    BY <2>1, <2>5, <2>6
  <2>9. \A o \in heap' : ~IsDead(o)'
    <3>1. (OtherWhite)' \notin {"black", curwhite'}
      BY DEF OtherWhite
    <3> QED
      BY <2>1, <2>5, <2>6, <3>1 DEF IsDead
  <2> QED
    BY <2>1, <2>5, <2>7, <2>8, <2>9
<1>5. MainLive' /\ SweepOnly' /\ ColorWhere' /\ GrayListed' /\ GrayKinds' /\ TriColor'
  BY <1>3, <1>4 DEF MainLive, SweepOnly, ColorWhere, GrayListed, GrayKinds,
       TriColor
<1>6. LeafStrings'
  BY <1>1 DEF IInv, TypeOK, LeafStrings, FullCycle
<1>7. PendingLive'
  BY <1>1, <1>3, <1>4 DEF PendingLive, FullCycle
<1>8. OpenOnStack'
  <2> SUFFICES ASSUME NEW uv \in Uvs, owner'[uv] # Nil
               PROVE  /\ uv \in heap' /\ owner'[uv] \in heap'
                      /\ refs'[uv] \subseteq refs'[owner'[uv]]
    BY DEF OpenOnStack, IsOpen
  <2>1. {uv, owner[uv]} \subseteq Kept /\ owner'[uv] = owner[uv]
    BY <1>1 DEF FullCycle
  <2>2. refs[uv] \subseteq refs[owner[uv]]
    BY <2>1, KindAssumption DEF IInv, OpenOnStack, IsOpen
  <2> QED
    BY <1>4, <2>1, <2>2
<1>9. NeverBlack'
  BY <1>1, <1>2, <1>4, KindAssumption DEF IInv, TypeOK, NeverBlack, FullCycle,
       IsBlack, IsOpen
<1>10. LiveClosed'
  BY <1>3, <1>4 DEF LiveClosed
<1> QED
  BY <1>5, <1>6, <1>7, <1>8, <1>9, <1>10 DEF IInv

-----------------------------------------------------------------------------
(* Theorems                                                                *)

(* The inductive invariant holds in every state: the colors of lj_gc.c,    *)
(* its lists and its sweep cursors agree with each other after any         *)
(* interleaving of mutator and collector steps.                            *)
THEOREM Invariance == Spec => []IInv
<1>1. Init => IInv
  BY InitHolds
<1>2. IInv /\ TypeOK' /\ [Next]_vars => IInv'
  <2> SUFFICES ASSUME IInv, TypeOK', [Next]_vars PROVE IInv'
    OBVIOUS
  <2>1. ASSUME Mutator PROVE IInv'
    BY <2>1, NewKeeps, InternKeeps, ShareClosureKeeps, NewClosureKeeps, LoadKeeps,
       PopKeeps, PushToKeeps, TabClearKeeps, TabStoreKeeps,
       ForwardStoreKeeps, CloseUvKeeps, SetUvKeeps, ArmKeeps, FinReturnKeeps
       DEF Mutator
  <2>2. ASSUME Collector PROVE IInv'
    BY <2>2, MarkStartKeeps, PropagateDoneKeeps, AtomicKeeps, FinalizeDoneKeeps,
       PropagateKeeps, SweepStringKeeps, SweepKeeps, FinalizeKeeps,
       FullGCKeeps
       DEF Collector, OneStep
  <2>3. CASE UNCHANGED vars
    BY <2>3 DEF IInv, TypeOK, MainLive, LeafStrings, PendingLive, SweepOnly,
         ColorWhere, OpenOnStack, NeverBlack, GrayListed, GrayKinds, TriColor,
         LiveClosed, vars, mutvars, gcvars, finvars, heap, IsDead, OtherWhite,
         IsOpen, IsWhite, IsBlack, Marking, Sweeping
  <2> QED
    BY <2>1, <2>2, <2>3 DEF Next
<1> QED
  BY <1>1, <1>2, TypeCorrect, PTL DEF Spec

(* No reachable object is ever freed, whatever the program does between    *)
(* two steps of the collector, finalizers and resurrected strings and      *)
(* upvalues included.                                                      *)
THEOREM Safety == Spec => []NoDangling
<1>1. IInv => NoDangling
  <2> SUFFICES ASSUME IInv PROVE NoDangling
    OBVIOUS
  <2> DEFINE Live == {o \in heap : ~IsDead(o)}
  <2>1. Live \in SUBSET Obj /\ {Main} \cup mmudata \subseteq Live
    BY DEF IInv, heap, MainLive, PendingLive
  <2>2. \A o \in Live \cap Obj : refs[o] \cap Obj \subseteq Live
    BY DEF IInv, LiveClosed
  <2> HIDE DEF Live
  <2>3. Reachable \subseteq Live
    BY <2>1, <2>2, LeastClosedLeast DEF Reachable
  <2> QED
    BY <2>3 DEF Live, NoDangling
<1> QED
  BY <1>1, Invariance, PTL

(* The write barriers keep the frontier: while marking, no black object    *)
(* refers to a white one.                                                  *)
THEOREM FrontierHolds == Spec => []TriColor
<1>1. IInv => TriColor
  BY DEF IInv
<1> QED
  BY <1>1, Invariance, PTL

(* No live object refers to a freed or a dead one, so that the sweep may   *)
(* free dead objects in any order and stop after any of them.              *)
THEOREM LiveRefersToLive == Spec => []LiveClosed
<1>1. IInv => LiveClosed
  BY DEF IInv
<1> QED
  BY <1>1, Invariance, PTL

(* While marking, the gray lists hold exactly the gray objects that have   *)
(* a link, each once: no barrier relinks an object that is on a list.      *)
THEOREM ListsExact == Spec => []GrayListed
<1>1. IInv => GrayListed
  BY DEF IInv
<1> QED
  BY <1>1, Invariance, PTL

(* An open upvalue points to a value on the stack of an allocated thread:  *)
(* a thread that is freed has closed its upvalues.                         *)
THEOREM OpenUpvaluesValid == Spec => []OpenOnStack
<1>1. IInv => OpenOnStack
  BY DEF IInv
<1> QED
  BY <1>1, Invariance, PTL

(* Threads and open upvalues are never black, so that stack stores need    *)
(* no write barrier.                                                       *)
THEOREM StacksNeverBlack == Spec => []NeverBlack
<1>1. IInv => NeverBlack
  BY DEF IInv
<1> QED
  BY <1>1, Invariance, PTL

(* A dead object is one the sweep has not reached: nothing dead survives   *)
(* a cycle.                                                                *)
THEOREM DeadIsUnswept == Spec => []DeadUnswept
<1>1. IInv => DeadUnswept
  BY DEF IInv, TypeOK, DeadUnswept, ColorWhere, PendingLive, SweepOnly, IsDead,
       OtherWhite, Whites
<1> QED
  BY <1>1, Invariance, PTL

(* A cycle starts with every object on the root list current-white.        *)
THEOREM WhiteAtStart == Spec => []WhiteBetweenCycles
<1>1. IInv => WhiteBetweenCycles
  BY DEF IInv, WhiteBetweenCycles, ColorWhere, SweepOnly, Sweeping, Marking
<1> QED
  BY <1>1, Invariance, PTL

-----------------------------------------------------------------------------
(* What can be reached.                                                    *)

(* Through contains the set it starts from and is closed.                  *)
LEMMA ThroughClosed ==
  ASSUME TypeOK, NEW S \in SUBSET Obj, NEW Via
  PROVE  /\ Promise!Through(S, Via) \subseteq Obj
         /\ S \subseteq Promise!Through(S, Via)
         /\ \A o \in Promise!Through(S, Via) \cap Via :
              refs[o] \subseteq Promise!Through(S, Via)
<1> \A o \in Obj : refs[o] \subseteq Obj
  BY DEF TypeOK
<1> QED
  BY DEF Promise!Through

(* It is the least such set.                                               *)
LEMMA ThroughLeast ==
  ASSUME NEW S, NEW Via, NEW T \in SUBSET Obj, S \subseteq T,
         \A o \in T \cap Via : refs[o] \subseteq T
  PROVE  Promise!Through(S, Via) \subseteq T
  BY DEF Promise!Through

Live == {o \in heap : ~IsDead(o)}

(* Nothing that is dead can be reached.                                    *)
LEMMA ReachLive ==
  ASSUME IInv, NEW S \in SUBSET Live
  PROVE  Promise!Reach({Main} \cup S) \subseteq Live
<1>1. Live \in SUBSET Obj /\ {Main} \cup S \subseteq Live
  BY DEF Live, IInv, MainLive, heap
<1>2. \A o \in Live \cap Obj : refs[o] \subseteq Live
  BY DEF Live, IInv, LiveClosed
<1> HIDE DEF Live
<1> QED
  BY <1>1, <1>2, ThroughLeast DEF Promise!Reach

(* The values of the stacks the mutator works on, and all they refer to,   *)
(* are in use.                                                             *)
LEMMA UsableClosed ==
  ASSUME TypeOK
  PROVE  /\ Main \in Promise!Usable
         /\ Promise!Usable \subseteq Obj
         /\ \A o \in Promise!Usable : refs[o] \subseteq Promise!Usable
         /\ Stack \subseteq Promise!Usable
         /\ \A th \in Stacks : refs[th] \subseteq Promise!Usable
<1> USE Kinds
<1>1. {Main} \in SUBSET Obj
  OBVIOUS
<1>2. /\ Main \in Promise!Usable
      /\ Promise!Usable \subseteq Obj
      /\ \A o \in Promise!Usable \cap Obj : refs[o] \subseteq Promise!Usable
  BY <1>1, ThroughClosed DEF Promise!Usable, Promise!Reach
<1> HIDE DEF Promise!Usable
<1> QED
  BY <1>2 DEF Stack, Stacks

-----------------------------------------------------------------------------
(* Freed memory refers to nothing.                                         *)

FreeEmpty == \A o \in Obj \ heap : refs[o] = {}

(* Every reference a step adds is held by an allocated object, and what is *)
(* freed loses its references in the same step.                            *)
LEMMA MutatorKeepsFreeEmpty ==
  ASSUME IInv, FreeEmpty, Mutator
  PROVE  FreeEmpty'
<1> USE Kinds, KindAssumption DEF IInv, TypeOK, FreeEmpty, heap, Whites, Colors, OtherWhite,
        mutvars, gcvars, finvars
<1>1. ASSUME NEW o \in Obj \ Uvs, New(o) PROVE FreeEmpty'
  BY <1>1 DEF New, MainLive
<1>2. ASSUME NEW s \in Strs, Intern(s) PROVE FreeEmpty'
  BY <1>2 DEF Intern, Push, IsDead, MainLive
<1> DEFINE OnStack(th) == th \in Threads /\ color[th] # "free"
<1>3. \A th \in Stacks : OnStack(th)
  BY DEF Stacks, Stack, MainLive, LiveClosed
<1>4. \A o \in Stack : color[o] # "free"
  BY DEF Stack, MainLive, LiveClosed
<1>5. ASSUME NEW f \in Funcs, NEW uv \in Uvs, NEW th \in Threads,
             ShareClosure(f, uv, th)
      PROVE  FreeEmpty'
  BY <1>3, <1>5 DEF ShareClosure, IsDead
<1>6. ASSUME NEW f \in Funcs, NEW uv \in Uvs, NEW th \in Threads, NEW x \in Obj,
             NewClosure(f, uv, th, x)
      PROVE  FreeEmpty'
  BY <1>3, <1>6 DEF NewClosure
<1>7. ASSUME NEW o \in Obj, NEW x \in Obj, Load(o, x) PROVE FreeEmpty'
  BY <1>7 DEF Load, Push, MainLive
<1>8. ASSUME NEW th \in Threads, NEW x \in Obj, Pop(th, x) PROVE FreeEmpty'
  BY <1>8 DEF Pop
<1>9. ASSUME NEW th \in Threads, NEW x \in Obj, PushTo(th, x) PROVE FreeEmpty'
  BY <1>3, <1>9 DEF PushTo, Push
<1>10. ASSUME NEW t \in Tabs, NEW old \in Obj \cup {Nil}, TabClear(t, old) PROVE FreeEmpty'
  BY <1>10 DEF TabClear, BarrierBack
<1>11. ASSUME NEW t \in Tabs, NEW old \in Obj \cup {Nil}, NEW v \in Obj,
              TabStore(t, old, v)
       PROVE  FreeEmpty'
  BY <1>4, <1>11 DEF TabStore, BarrierBack
<1>12. ASSUME NEW o \in Funcs \cup Udatas, NEW v \in Obj, NEW old \in Obj \cup {Nil},
              ForwardStore(o, old, v)
       PROVE  FreeEmpty'
  BY <1>4, <1>12, GcMarkSpec DEF ForwardStore, BarrierForward, Mark, MarkColor, WhiteSet, IsWhite
<1>13. ASSUME NEW uv \in Uvs, CloseUv(uv) PROVE FreeEmpty'
  BY <1>13, GcMarkSpec DEF CloseUv, MarkColor, WhiteSet, IsWhite
<1>14. ASSUME NEW uv \in Uvs, NEW v \in Obj, NEW old \in Obj \cup {Nil}, SetUv(uv, old, v)
       PROVE  FreeEmpty'
  <2>1. color[uv] # "free"
    BY <1>14 DEF SetUv, Stack, MainLive, LiveClosed
  <2>2. IsOpen(uv) => color[owner[uv]] # "free"
    BY DEF OpenOnStack
  <2>3. \A o \in Obj : color'[o] = "free" <=> color[o] = "free"
    <3>1. CASE IsOpen(uv)
      BY <1>14, <3>1 DEF SetUv
    <3>2. CASE ~IsOpen(uv)
      <4>1. BarrierForward(uv, v)
        BY <1>14, <3>2 DEF SetUv
      <4> QED
        BY <4>1, <2>1, GcMarkSpec DEF BarrierForward, Mark, MarkColor, WhiteSet, IsWhite
    <3> QED
      BY <3>1, <3>2
  <2> QED
    BY <1>14, <2>1, <2>2, <2>3 DEF SetUv, IsOpen
<1>15. ASSUME NEW o \in Tabs \cup Udatas, Arm(o) PROVE FreeEmpty'
  BY <1>15 DEF Arm
<1>16. ASSUME FinReturn PROVE FreeEmpty'
  BY <1>16 DEF FinReturn
<1> QED
  BY <1>1, <1>2, <1>5, <1>6, <1>7, <1>8, <1>9, <1>10, <1>11, <1>12, <1>13, <1>14, <1>15, <1>16
     DEF Mutator

(* The sweep and lj_gc_fullgc clear what they free.                        *)
LEMMA CollectorKeepsFreeEmpty ==
  ASSUME IInv, FreeEmpty, Collector
  PROVE  FreeEmpty'
<1> USE Kinds, KindAssumption DEF IInv, TypeOK, FreeEmpty, heap, Whites, Colors, OtherWhite,
        mutvars, gcvars, finvars
<1>1. ASSUME MarkStart PROVE FreeEmpty'
  BY <1>1, GcMarkSpec DEF MarkStart, MarkColor, WhiteSet, IsWhite
<1>2. ASSUME PropagateDone PROVE FreeEmpty'
  BY <1>2 DEF PropagateDone
<1>3. ASSUME Atomic PROVE FreeEmpty'
  BY <1>3 DEF Atomic, DoneColor
<1>4. ASSUME FinalizeDone PROVE FreeEmpty'
  BY <1>4 DEF FinalizeDone
<1>5. ASSUME NEW o \in Listable, Propagate(o) PROVE FreeEmpty'
  BY <1>5, GcMarkSpec DEF Propagate, MarkColor, DoneColor, WhiteSet, IsWhite
<1>6. ASSUME NEW S \in SUBSET Strs, SweepString(S) PROVE FreeEmpty'
  BY <1>6 DEF SweepString, SweepSet
<1>7. ASSUME NEW o \in Obj, Sweep(o) PROVE FreeEmpty'
  BY <1>7 DEF Sweep, SweepSet
<1>8. ASSUME NEW o \in Tabs \cup Udatas, Finalize(o) PROVE FreeEmpty'
  BY <1>8 DEF Finalize, Push, MainLive, PendingLive
<1>9. ASSUME FullGC PROVE FreeEmpty'
  BY <1>9 DEF FullGC, FullCycle
<1> QED
  BY <1>1, <1>2, <1>3, <1>4, <1>5, <1>6, <1>7, <1>8, <1>9 DEF Collector, OneStep

(* The memory of a freed object holds no reference.                        *)
THEOREM FreedHoldsNothing == Spec => []FreeEmpty
<1>1. Init => FreeEmpty
  BY DEF Init, FreeEmpty
<1>2. IInv /\ FreeEmpty /\ [Next]_vars => FreeEmpty'
  BY MutatorKeepsFreeEmpty, CollectorKeepsFreeEmpty
     DEF Next, vars, mutvars, gcvars, finvars, FreeEmpty, heap
<1> QED
  BY <1>1, <1>2, Invariance, PTL DEF Spec

-----------------------------------------------------------------------------
(* The mutator's actions are steps of the program, or not visible.         *)

(* A step that allocates nothing new, frees nothing and redirects          *)
(* references of what is in use, or of a stack, to what is in use or to    *)
(* what can be found.                                                      *)
LEMMA RunStep ==
  ASSUME heap' = heap, mmudata' = mmudata,
         \A o \in Obj : refs'[o] # refs[o] => o \in Promise!Usable \cup Threads,
         \A o \in Obj : refs'[o] \ refs[o]
                          \subseteq Promise!Usable \cup (heap \cap (Strs \cup Uvs))
  PROVE  Promise!Run
<1> HIDE DEF Promise!Usable, Promise!Reach
<1> QED
  BY DEF Promise!Run

LEMMA AllocStepsMap ==
  ASSUME IInv
  PROVE  /\ \A o \in Obj \ Uvs : New(o) => Promise!Run
         /\ \A f \in Funcs, uv \in Uvs, th \in Threads :
              /\ ShareClosure(f, uv, th) => Promise!Run
              /\ \A x \in Obj : NewClosure(f, uv, th, x) => Promise!Run
<1> USE Kinds, KindAssumption, UsableClosed
        DEF IInv, TypeOK, Whites, mutvars, gcvars, finvars, OtherWhite
<1> HIDE DEF Promise!Usable, Promise!Reach
<1>1. ASSUME NEW o \in Obj \ Uvs, New(o) PROVE Promise!Run
  <2>1. o \in Obj \ heap /\ heap' = heap \cup {o} /\ mmudata' = mmudata
    BY <1>1 DEF New, heap
  <2>2. \A p \in Obj : refs'[p] # refs[p] => p \in Threads \cup {o}
    BY <1>1 DEF New
  <2>3. \A p \in Obj : refs'[p] \subseteq refs[p] \cup {o}
    BY <1>1 DEF New
  <2> QED
    BY <2>1, <2>2, <2>3 DEF Promise!Run
<1>2. ASSUME NEW f \in Funcs, NEW uv \in Uvs, NEW th \in Threads, ShareClosure(f, uv, th)
      PROVE  Promise!Run
  <2>1. f \notin heap /\ uv \in heap /\ heap' = heap \cup {f} /\ mmudata' = mmudata
    BY <1>2 DEF ShareClosure, heap, IsDead
  <2>2. \A p \in Obj : refs'[p] # refs[p] => p \in Threads \cup {f}
    BY <1>2 DEF ShareClosure
  <2>3. \A p \in Obj : refs'[p] \subseteq refs[p] \cup {f, uv}
    BY <1>2 DEF ShareClosure
  <2> QED
    BY <2>1, <2>2, <2>3 DEF Promise!Run
<1>3. ASSUME NEW f \in Funcs, NEW uv \in Uvs, NEW th \in Threads, NEW x \in Obj,
             NewClosure(f, uv, th, x)
      PROVE  Promise!Run
  <2>1. {f, uv} \cap heap = {} /\ heap' = heap \cup {f, uv} /\ mmudata' = mmudata
    BY <1>3 DEF NewClosure, heap
  <2>2. \A p \in Obj : refs'[p] # refs[p] => p \in Threads \cup {f, uv}
    BY <1>3 DEF NewClosure
  <2>3. \A p \in Obj : refs'[p] \subseteq refs[p] \cup {f, uv, x}
    BY <1>3 DEF NewClosure
  <2>4. x \in Promise!Usable
    BY <1>3 DEF NewClosure
  <2> QED
    BY <2>1, <2>2, <2>3, <2>4 DEF Promise!Run
<1> QED
  BY <1>1, <1>2, <1>3

LEMMA AccessStepsMap ==
  ASSUME IInv
  PROVE  /\ \A s \in Strs : Intern(s) => Promise!Run
         /\ \A o, x \in Obj : Load(o, x) => Promise!Run
         /\ \A th \in Threads, x \in Obj : Pop(th, x) \/ PushTo(th, x) => Promise!Run
<1> USE Kinds, KindAssumption, UsableClosed
        DEF IInv, TypeOK, Whites, mutvars, gcvars, finvars, OtherWhite
<1> HIDE DEF Promise!Usable, Promise!Reach
<1>1. ASSUME NEW s \in Strs, Intern(s) PROVE Promise!Run
  BY <1>1, RunStep DEF Intern, Push, heap, IsDead
<1>2. ASSUME NEW o \in Obj, NEW x \in Obj, Load(o, x) PROVE Promise!Run
  <2>1. x \in Promise!Usable
    BY <1>2 DEF Load
  <2> QED
    BY <1>2, <2>1, RunStep DEF Load, Push, heap
<1>3. ASSUME NEW th \in Threads, NEW x \in Obj, Pop(th, x) PROVE Promise!Run
  BY <1>3, RunStep DEF Pop, heap
<1>4. ASSUME NEW th \in Threads, NEW x \in Obj, PushTo(th, x) PROVE Promise!Run
  BY <1>4, RunStep DEF PushTo, Push, heap
<1> QED
  BY <1>1, <1>2, <1>3, <1>4

(* A barrier frees nothing and makes nothing.                              *)
LEMMA BarrierKeepsHeap ==
  ASSUME IInv, NEW o \in heap, NEW v \in Obj, BarrierForward(o, v)
  PROVE  heap' = heap
<1> USE GcMarkSpec DEF IInv, TypeOK, Whites, BarrierForward, heap
<1>1. CASE IsBlack(o) /\ IsWhite(v) /\ Marking
  BY <1>1 DEF Mark, MarkColor, WhiteSet, IsWhite
<1>2. CASE IsBlack(o) /\ IsWhite(v) /\ ~Marking
  BY <1>2
<1>3. CASE ~(IsBlack(o) /\ IsWhite(v))
  BY <1>3
<1> QED
  BY <1>1, <1>2, <1>3

LEMMA StoreStepsMap ==
  ASSUME IInv
  PROVE  \A old \in Obj \cup {Nil} :
           /\ \A t \in Tabs : TabClear(t, old) => Promise!Run
           /\ \A t \in Tabs, v \in Obj : TabStore(t, old, v) => Promise!Run
           /\ \A o \in Funcs \cup Udatas, v \in Obj : ForwardStore(o, old, v) => Promise!Run
           /\ \A uv \in Uvs, v \in Obj : SetUv(uv, old, v) => Promise!Run
<1> USE Kinds, KindAssumption, UsableClosed
        DEF IInv, TypeOK, Whites, mutvars, gcvars, finvars, OtherWhite
<1> HIDE DEF Promise!Usable, Promise!Reach
<1> SUFFICES ASSUME NEW old \in Obj \cup {Nil}
             PROVE  /\ \A t \in Tabs : TabClear(t, old) => Promise!Run
                    /\ \A t \in Tabs, v \in Obj : TabStore(t, old, v) => Promise!Run
                    /\ \A o \in Funcs \cup Udatas, v \in Obj :
                         ForwardStore(o, old, v) => Promise!Run
                    /\ \A uv \in Uvs, v \in Obj : SetUv(uv, old, v) => Promise!Run
  OBVIOUS
<1>1. \A o \in Stack : o \in heap
  BY DEF Stack, MainLive, LiveClosed
<1>2. ASSUME NEW t \in Tabs, TabClear(t, old) PROVE Promise!Run
  <2>1. heap' = heap
    BY <1>2 DEF TabClear, BarrierBack, heap, IsBlack
  <2> QED
    BY <1>2, <2>1, RunStep DEF TabClear
<1>3. ASSUME NEW t \in Tabs, NEW v \in Obj, TabStore(t, old, v) PROVE Promise!Run
  <2>1. heap' = heap
    BY <1>3 DEF TabStore, BarrierBack, heap, IsBlack
  <2> QED
    BY <1>3, <2>1, RunStep DEF TabStore
<1>4. ASSUME NEW o \in Funcs \cup Udatas, NEW v \in Obj, ForwardStore(o, old, v)
      PROVE  Promise!Run
  <2>1. heap' = heap
    BY <1>1, <1>4, BarrierKeepsHeap DEF ForwardStore
  <2> QED
    BY <1>4, <2>1, RunStep DEF ForwardStore
<1>5. ASSUME NEW uv \in Uvs, NEW v \in Obj, SetUv(uv, old, v) PROVE Promise!Run
  <2>1. uv \in heap /\ uv \in Promise!Usable
    BY <1>5 DEF SetUv, Stack, MainLive, LiveClosed
  <2>2. v \in Promise!Usable /\ mmudata' = mmudata
    BY <1>5 DEF SetUv
  <2>3. CASE IsOpen(uv)
    <3>1. owner[uv] \in Threads
      BY <2>3 DEF IsOpen
    <3>2. refs' = [refs EXCEPT ![uv] = {v}, ![owner[uv]] = (@ \ {old}) \cup {v}] /\ heap' = heap
      BY <1>5, <2>3 DEF SetUv, heap
    <3> QED
      BY <2>1, <2>2, <3>1, <3>2, RunStep
  <2>4. CASE ~IsOpen(uv)
    <3>1. refs' = [refs EXCEPT ![uv] = {v}] /\ BarrierForward(uv, v)
      BY <1>5, <2>4 DEF SetUv
    <3>2. heap' = heap
      BY <2>1, <3>1, BarrierKeepsHeap
    <3> QED
      BY <2>1, <2>2, <3>1, <3>2, RunStep
  <2> QED
    BY <2>3, <2>4
<1> QED
  BY <1>2, <1>3, <1>4, <1>5

(* lj_func_closeuv frees an upvalue only if it is dead, so that neither    *)
(* the program nor a finalizer can reach it.                               *)
LEMMA CloseUvMaps ==
  ASSUME IInv, NEW uv \in Uvs, CloseUv(uv)
  PROVE  Promise!Run
<1> USE Kinds, KindAssumption
        DEF IInv, TypeOK, Whites, mutvars, gcvars, finvars, OtherWhite
<1> HIDE DEF Promise!Usable, Promise!Reach
<1>1. uv \in heap /\ mmudata' = mmudata
  BY DEF CloseUv
<1>2. CASE IsDead(uv)
  <2>1. refs' = [refs EXCEPT ![uv] = {}] /\ heap' = heap \ {uv}
    BY <1>2 DEF CloseUv, heap
  <2>2. mmudata \in SUBSET Live
    BY DEF PendingLive, Live
  <2>3. uv \notin Promise!Reach({Main} \cup mmudata)
    BY <1>2, <2>2, ReachLive DEF Live
  <2> QED
    BY <1>1, <2>1, <2>3 DEF Promise!Run
<1>3. CASE ~IsDead(uv)
  <2>1. refs' = refs
    BY <1>3 DEF CloseUv
  <2>2. heap' = heap
    <3>1. CASE IsWhite(uv) \/ ~Marking
      BY <1>1, <1>3, <3>1 DEF CloseUv, heap
    <3>2. CASE ~IsWhite(uv) /\ Marking
      BY <1>1, <1>3, <3>2, GcMarkSpec DEF CloseUv, heap, MarkColor, WhiteSet, IsWhite
    <3> QED
      BY <3>1, <3>2
  <2> QED
    BY <1>1, <2>1, <2>2, RunStep
<1> QED
  BY <1>2, <1>3

-----------------------------------------------------------------------------
(* The collector's actions are collections, finalizer calls, or not        *)
(* visible.                                                                *)

(* Marking and the end of a phase change no object, no reference and       *)
(* nothing that is pending.                                                *)
LEMMA MarkingStutters ==
  ASSUME IInv
  PROVE  /\ MarkStart => UNCHANGED Promise!vars
         /\ PropagateDone => UNCHANGED Promise!vars
         /\ FinalizeDone => UNCHANGED Promise!vars
         /\ \A o \in Listable : Propagate(o) => UNCHANGED Promise!vars
<1> USE GcMarkSpec, Kinds
        DEF IInv, TypeOK, Whites, mutvars, gcvars, finvars, OtherWhite, heap, Promise!vars
<1>1. ASSUME MarkStart PROVE UNCHANGED Promise!vars
  BY <1>1 DEF MarkStart, MarkColor, WhiteSet, IsWhite
<1>2. ASSUME PropagateDone PROVE UNCHANGED Promise!vars
  BY <1>2 DEF PropagateDone
<1>3. ASSUME FinalizeDone PROVE UNCHANGED Promise!vars
  BY <1>3 DEF FinalizeDone
<1>4. ASSUME NEW o \in Listable, Propagate(o) PROVE UNCHANGED Promise!vars
  <2>1. o \in heap
    <3>1. color[o] = "gray"
      BY <1>4 DEF Propagate, GrayListed, Marking
    <3> QED
      BY <3>1
  <2>2. \A x \in Obj : color'[x] = "free" <=> color[x] = "free"
    BY <1>4, <2>1 DEF Propagate, MarkColor, DoneColor, WhiteSet, IsWhite
  <2> QED
    BY <1>4, <2>2 DEF Propagate
<1> QED
  BY <1>1, <1>2, <1>3, <1>4

(* A collection that frees dead objects only.                              *)
LEMMA SweepCollects ==
  ASSUME IInv, FreeEmpty, NEW S \in SUBSET heap, SweepSet(S)
  PROVE  Promise!Collect
<1> USE DEF IInv, TypeOK
<1> HIDE DEF Promise!Reach, Promise!Through
<1> DEFINE Freed == {o \in S : IsDead(o)}
<1>1. S \subseteq heap
  OBVIOUS
<1>2. heap' = heap \ Freed /\ mmudata' = mmudata
  BY <1>1 DEF SweepSet, heap, Whites
<1>3. Live \subseteq heap'
  BY <1>2 DEF Live
<1>4. mmudata \in SUBSET Live
  BY DEF PendingLive, Live
<1>5. Promise!Reach({Main} \cup mmudata) \subseteq heap'
  BY <1>3, <1>4, ReachLive
<1>6. refs' = [o \in Obj |-> IF o \in heap' THEN refs[o] ELSE {}]
  <2>1. refs' = [o \in Obj |-> IF o \in Freed THEN {} ELSE refs[o]]
    BY DEF SweepSet
  <2>2. \A o \in Obj \ heap : refs[o] = {}
    BY DEF FreeEmpty
  <2> HIDE DEF Freed, heap
  <2> QED
    BY <1>2, <2>1, <2>2
<1> HIDE DEF heap, Freed
<1>7. mmudata \subseteq heap' /\ heap' \subseteq heap
  BY <1>2, <1>3, <1>4
<1> QED
  BY <1>2, <1>5, <1>6, <1>7 DEF Promise!Collect

(* What atomic() separates for finalization is not in use: all that the    *)
(* main thread reaches is marked by then.                                  *)
LEMMA AtomicMaps ==
  ASSUME IInv, FreeEmpty, Atomic
  PROVE  Promise!Collect
<1> USE Kinds, KindAssumption DEF IInv, TypeOK
<1> HIDE DEF Promise!Reach, Promise!Through
<1> DEFINE M1 == TraceFrom(gray \cup grayagain \cup (WhiteSet \cap (GrayUvValues \cup {Main})))
           F == Separated(M1)
           M2 == FinalMark(M1, F)
<1>1. /\ M1 = TraceFrom(gray \cup grayagain \cup (WhiteSet \cap (GrayUvValues \cup {Main})))
      /\ F = Separated(M1) /\ M2 = FinalMark(M1, F)
      /\ mmudata' = mmudata \cup F
      /\ color' = [o \in Obj |-> IF o \in M2 THEN DoneColor(o) ELSE color[o]]
  BY DEF Atomic
<1> HIDE DEF M1, F, M2
<1> DEFINE T == {o \in Live : IsWhite(o) => o \in M1}
<1>2. mmudata = {} /\ Live = heap /\ unswept = {} /\ refs' = refs /\ Marking
  BY DEF Atomic, PendingLive, Live, ColorWhere, SweepOnly, Sweeping, Marking, mutvars, IsDead,
         OtherWhite, Whites
<1>3. gray \cup grayagain \cup (WhiteSet \cap (GrayUvValues \cup {Main})) \in SUBSET Obj
  BY DEF WhiteSet
<1>4. /\ gray \cup grayagain \cup (WhiteSet \cap (GrayUvValues \cup {Main})) \subseteq M1
      /\ \A o \in M1 : \A x \in refs[o] : IsWhite(x) => x \in M1
  BY <1>1, <1>3, TraceSpec
<1>5. Main \in T /\ T \in SUBSET Obj
  BY <1>4 DEF MainLive, Live, heap, WhiteSet
<1>6. ASSUME NEW o \in T, NEW x \in refs[o] PROVE x \in T
  <2>1. o \in heap /\ x \in heap /\ x \in Live
    BY <1>2 DEF LiveClosed, Live
  <2>2. CASE o \in M1
    BY <1>4, <2>1, <2>2
  <2>3. CASE IsBlack(o)
    BY <1>2, <2>1, <2>3 DEF TriColor
  <2>4. CASE o \notin M1 /\ color[o] = "gray"
    <3>1. o \notin Listable
      BY <1>2, <1>4, <2>1, <2>4 DEF GrayListed
    <3>2. o \notin Strs
      BY <1>6 DEF LeafStrings
    <3>3. IsOpen(o) /\ o \in Uvs
      BY <1>2, <2>1, <2>4, <3>1, <3>2 DEF GrayKinds, IsOpen
    <3>4. x \in GrayUvValues
      BY <2>1, <2>4, <3>3, <1>6 DEF GrayUvValues
    <3> QED
      BY <1>4, <2>1, <3>4 DEF WhiteSet, heap
  <2>5. \/ o \in M1
        \/ IsBlack(o)
        \/ color[o] = "gray"
    BY <2>1 DEF heap, IsWhite, IsBlack, Colors
  <2> QED
    BY <2>2, <2>3, <2>4, <2>5
<1>7. F \subseteq heap /\ F \cap T = {}
  BY <1>1 DEF Separated, heap, IsWhite, Whites
<1> HIDE DEF T
<1>8. Promise!Through({Main}, Obj \ mmudata) \subseteq T
  BY <1>5, <1>6, ThroughLeast
<1>9. heap' = heap
  <2>1. M2 \subseteq heap
    <3>1. M1 \in SUBSET Obj /\ M1 \subseteq heap
      BY <1>1, <1>2, <1>3, TraceSpec DEF GrayListed, heap, WhiteSet, IsWhite, Whites
    <3>2. M1 \cup F \in SUBSET Obj /\ M1 \cup F \subseteq heap
      BY <3>1, <1>7 DEF heap
    <3>3. M2 \subseteq (M1 \cup F) \cup WhiteSet
      BY <1>1, <3>2, TraceSpec DEF FinalMark
    <3> QED
      BY <3>2, <3>3 DEF WhiteSet, heap, IsWhite, Whites
  <2> QED
    BY <1>1, <2>1 DEF heap, DoneColor
<1>10. Promise!Reach({Main} \cup mmudata') \subseteq heap'
  BY <1>1, <1>2, <1>7, <1>9, ReachLive DEF Live
<1>11. refs' = [o \in Obj |-> IF o \in heap' THEN refs[o] ELSE {}]
  BY <1>2, <1>9 DEF FreeEmpty
<1> HIDE DEF heap
<1> QED
  BY <1>1, <1>2, <1>7, <1>8, <1>9, <1>10, <1>11 DEF Promise!Collect

(* lj_gc_fullgc separates what it has not marked from the main thread, and *)
(* keeps what the main thread and pending objects reach.                   *)
LEMMA FullGCMaps ==
  ASSUME IInv, FreeEmpty, FullGC
  PROVE  Promise!Collect
<1> USE Kinds, KindAssumption DEF IInv, TypeOK
<1> HIDE DEF Promise!Reach, Promise!Through
<1>1. PICK M1, F, M2, Kept :
        /\ M1 = LeastClosed({Main}, Obj \ (mmudata \ WhiteSet), Obj)
        /\ F = {o \in (armed \cap heap) \ (M1 \cup mmudata) : ~IsDead(o)}
        /\ M2 = LeastClosed(M1 \cup mmudata \cup F, Obj, Obj)
        /\ Kept = {o \in M2 \cap heap : ~IsDead(o)}
        /\ FullCycle(M1, F, M2, Kept)
  BY DEF FullGC
<1>2. F \in SUBSET Obj /\ \A o \in F : o \in heap /\ ~IsDead(o)
  BY <1>1 DEF heap
<1>3. /\ mmudata \cup F \subseteq M2 /\ Main \in M1 /\ M1 \subseteq M2
      /\ Kept = M2 /\ Kept \subseteq heap /\ \A o \in M2 : refs[o] \subseteq M2
  BY <1>1, <1>2, FullMarked
<1>4. mmudata' = mmudata \cup F /\ refs' = [o \in Obj |-> IF o \in Kept THEN refs[o] ELSE {}]
  BY <1>1 DEF FullCycle
<1>5. heap' = Kept
  <2>1. OtherWhite # "free"
    BY DEF OtherWhite
  <2>2. \A o \in Obj : color'[o] # "free" <=> o \in Kept
    BY <1>1, <1>3, <2>1 DEF FullCycle
  <2> QED
    BY <1>3, <2>2 DEF heap
<1>6. Kept \in SUBSET Obj /\ {Main} \cup mmudata' \subseteq Kept
  BY <1>3, <1>4 DEF heap
<1>7. Promise!Reach({Main} \cup mmudata') \subseteq Kept
  BY <1>3, <1>6, ThroughLeast DEF Promise!Reach
<1>8. Promise!Through({Main}, Obj \ mmudata) \subseteq M1
  <2>1. M1 \in SUBSET Obj /\ {Main} \subseteq M1
    BY <1>1, <1>3, LeastClosedContains
  <2>2. ASSUME NEW o \in M1 \cap (Obj \ mmudata), NEW x \in refs[o] PROVE x \in M1
    BY <1>1, <2>1, LeastClosedClosed
  <2> HIDE DEF Promise!Through
  <2> QED
    BY <2>1, <2>2, ThroughLeast
<1>9. F \cap M1 = {}
  BY <1>1
<1> HIDE DEF heap
<1> QED
  BY <1>3, <1>4, <1>5, <1>6, <1>7, <1>8, <1>9 DEF Promise!Collect

(* gc_finalize gives the object back to the program and to its finalizer.  *)
LEMMA FinalizeMaps ==
  ASSUME IInv, NEW o \in Tabs \cup Udatas, Finalize(o)
  PROVE  Promise!Call
<1>1. heap' = heap
  BY Kinds DEF IInv, TypeOK, Finalize, heap, PendingLive, Whites
<1>2. o \in mmudata /\ mmudata' = mmudata \ {o}
  BY DEF Finalize
<1>3. refs' \in {refs, [refs EXCEPT ![Main] = @ \cup {o}]}
  BY Zenon DEF Finalize, Push
<1> HIDE DEF heap
<1> QED
  BY <1>1, <1>2, <1>3 DEF Promise!Call

-----------------------------------------------------------------------------
(* The collector keeps its promise: whatever is marked, swept, resurrected *)
(* or finalized when, a step frees or changes no object in use, and        *)
(* separates none that is.                                                 *)
THEOREM ImplementsPromise == Spec => KeepsPromise
<1> HIDE DEF Promise!Run, Promise!Collect, Promise!Call
<1>1. Init => Promise!Init
  BY Kinds DEF Init, Promise!Init, heap
<1>2. IInv /\ FreeEmpty /\ [Next]_vars => [Promise!Next]_(Promise!vars)
  <2> SUFFICES ASSUME IInv, FreeEmpty, [Next]_vars PROVE [Promise!Next]_(Promise!vars)
    OBVIOUS
  <2>1. CASE Mutator
    <3>1. \A o \in Tabs \cup Udatas : Arm(o) => UNCHANGED Promise!vars
      BY DEF Arm, mutvars, gcvars, Promise!vars, heap
    <3>2. FinReturn => UNCHANGED Promise!vars
      BY DEF FinReturn, mutvars, gcvars, Promise!vars, heap
    <3> HIDE DEF Promise!vars
    <3> QED
      BY <2>1, <3>1, <3>2, AllocStepsMap, AccessStepsMap, StoreStepsMap, CloseUvMaps
         DEF Mutator, Promise!Next
  <2>2. CASE Collector
    <3>1. ASSUME NEW S \in SUBSET Strs, SweepString(S) PROVE Promise!Collect
      BY <3>1, SweepCollects DEF SweepString, IInv, SweepOnly
    <3>2. ASSUME NEW o \in Obj, Sweep(o) PROVE Promise!Collect
      <4>1. {o} \cup OpenUvsOf(o) \in SUBSET heap /\ SweepSet({o} \cup OpenUvsOf(o))
        BY <3>2, Kinds DEF Sweep, OpenUvsOf, IInv, SweepOnly, OpenOnStack, IsOpen
      <4> QED
        BY <4>1, SweepCollects
    <3> HIDE DEF Promise!vars
    <3> QED
      BY <2>2, <3>1, <3>2, MarkingStutters, AtomicMaps, FullGCMaps, FinalizeMaps
         DEF Collector, OneStep, Promise!Next
  <2>3. CASE UNCHANGED vars
    BY <2>3 DEF vars, mutvars, gcvars, finvars, Promise!vars, heap
  <2> QED
    BY <2>1, <2>2, <2>3 DEF Next
<1> QED
  BY <1>1, <1>2, Invariance, FreedHoldsNothing, PTL DEF Spec, KeepsPromise, Promise!Spec

=============================================================================
