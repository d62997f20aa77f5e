------------------------------- MODULE GcGen -------------------------------
(***************************************************************************)
(* Generational mode of lj_gc.c (LJ_54): object ages, the segments of the  *)
(* root list, the aging write barriers, minor collections with the         *)
(* finalizers they run, and the full collection that makes all objects old *)
(* (gc_gen_enter54).                                                       *)
(*                                                                         *)
(* gc.state is GCSpropagate between collections.  A minor collection marks *)
(* and sweeps at once, so all white objects have the current white and one *)
(* "white" stands for both.  Lists are sets, and seg tells between which   *)
(* boundaries (gensurvival, genold1, genreallyold) an object is linked.    *)
(***************************************************************************)
EXTENDS Naturals, FiniteSets

CONSTANTS
  Tabs, Funcs, Strs, Uvs, Threads,  \* objects by kind
  Main,       \* the main thread
  Armable,    \* tables the program gives a __gc metatable to
  Nil         \* "no owner": the upvalue is closed

Obj == Tabs \cup Funcs \cup Strs \cup Uvs \cup Threads

ASSUME GenAssumption ==
  /\ Main \in Threads /\ Nil \notin Obj /\ Armable \subseteq Tabs
  /\ Tabs \cap (Funcs \cup Strs \cup Uvs \cup Threads) = {}
  /\ Funcs \cap (Strs \cup Uvs \cup Threads) = {}
  /\ Strs \cap (Uvs \cup Threads) = {} /\ Uvs \cap Threads = {}

VARIABLES
  refs,       \* refs[o]: the objects o holds a reference to
  owner,      \* owner[uv]: thread whose openupval list holds uv, Nil once closed
  color,      \* color bits of o->marked, "free" for memory that holds no object
  age,        \* o->age
  seg,        \* segment of the root list, "off" for objects not on it
  gray,       \* gc.gray
  grayagain,  \* gc.grayagain
  armed,      \* tables with LJ_TAB_HAS_GC
  mmudata,    \* gc.mmudata
  infin,      \* a __gc callback is running
  phase       \* "idle" between collections, else whose finalizers are run

heapvars == <<refs, owner>>
gcvars   == <<color, age, seg, gray, grayagain>>
finvars  == <<armed, mmudata, infin, phase>>
vars     == <<heapvars, gcvars, finvars>>

Colors == {"white", "gray", "black", "free"}
Ages   == {"new", "survival", "old0", "old1", "old", "touched1", "touched2"}
Segs   == {"nursery", "survival", "old1", "old", "off"}
Phases == {"idle", "minor", "full"}

heap       == {o \in Obj : color[o] # "free"}
IsWhite(o) == color[o] = "white"
IsBlack(o) == color[o] = "black"
IsOld(o)   == age[o] \notin {"new", "survival"}
IsOpen(uv) == uv \in Uvs /\ owner[uv] # Nil

\* gc_gen_has_gclist54
HasGcList == Tabs \cup Funcs \cup Threads

OpenUvsOf(th) == {uv \in Uvs : owner[uv] = th}
Captured(th)  == UNION {refs[uv] : uv \in OpenUvsOf(th)}

-----------------------------------------------------------------------------
(* Marking *)

(* The least set with S and what its members in Via refer to within W.     *)
LeastClosed(S, Via, W) ==
  Obj \ UNION {Obj \ T : T \in {U \in SUBSET Obj :
                 S \subseteq U /\ \A o \in U \cap Via : refs[o] \cap W \subseteq U}}

WhiteSet == {o \in Obj : IsWhite(o)}

GcMark(S)    == LeastClosed(S \cap WhiteSet, Uvs, WhiteSet)
TraceFrom(S) == LeastClosed(S, Obj, WhiteSet)

(* Colors given by gc_mark, and by the end of the atomic phase.            *)
MarkColor(o) == IF o \in Uvs /\ ~IsOpen(o) THEN "black" ELSE "gray"
DoneColor(o) == IF o \in Threads \cup Strs \/ IsOpen(o) THEN "gray" ELSE "black"

-----------------------------------------------------------------------------
(* Write barriers *)

(* lj_gc_barrierf, lj_gc_barrieruv: what an old object now refers to is    *)
(* marked and becomes "old0".                                              *)
BarrierForward(o, v) ==
  IF IsBlack(o) /\ IsWhite(v)
  THEN IF phase # "full"
       THEN \E M \in {GcMark({v})} :
              /\ color' = [x \in Obj |-> IF x \in M THEN MarkColor(x) ELSE color[x]]
              /\ gray' = gray \cup (M \cap HasGcList)
              /\ age' = [age EXCEPT ![v] = IF IsOld(o) /\ ~IsOld(v) THEN "old0" ELSE @]
       ELSE color' = [color EXCEPT ![o] = "white"] /\ UNCHANGED <<age, gray>>
  ELSE UNCHANGED <<color, age, gray>>

BarrierBack_NoTouched2(t) ==
  /\ color' = [color EXCEPT ![t] = "gray"]
  /\ age' = [age EXCEPT ![t] = IF IsOld(t) /\ @ # "touched2" THEN "touched1" ELSE @]
  /\ grayagain' = grayagain \cup {t}

(* lj_gc_barrierback: an old table is touched and goes to grayagain; one   *)
(* that is still there since the last minor collection is not linked again.*)
BarrierBack(t) ==
  /\ color' = [color EXCEPT ![t] = "gray"]
  /\ age' = [age EXCEPT ![t] = IF IsOld(t) THEN "touched1" ELSE @]
  /\ grayagain' = IF age[t] = "touched2" THEN grayagain ELSE grayagain \cup {t}

-----------------------------------------------------------------------------
(* The mutator, as in GcInc.                                               *)

Stack == refs[Main]
Stacks == {Main} \cup (Stack \cap Threads)

Push(th, o) == [refs EXCEPT ![th] = @ \cup {o}]

(* lj_mem_newgco and the string table: age "new", at the root's head.      *)
New(o) ==
  /\ o \in Obj \ (heap \cup Uvs)
  /\ refs' = [refs EXCEPT ![o] = {}, ![Main] = @ \cup {o}]
  /\ color' = [color EXCEPT ![o] = "white"]
  /\ age' = [age EXCEPT ![o] = "new"]
  /\ seg' = [seg EXCEPT ![o] = IF o \in Strs THEN "off" ELSE "nursery"]
  /\ UNCHANGED <<owner, gray, grayagain, finvars>>

(* lj_str_newx finds the string: none is dead between collections.         *)
Intern(s) ==
  /\ s \in Strs \cap heap
  /\ refs' = Push(Main, s)
  /\ UNCHANGED <<owner, gcvars, finvars>>

(* FNEW: a closure with an open upvalue for the slot of th that holds x.   *)
NewClosure(f, uv, th, x) ==
  /\ th \in Stacks /\ x \in refs[th] \ Uvs
  /\ f \in Funcs \ heap /\ uv \in Uvs \ heap
  /\ owner' = [owner EXCEPT ![uv] = th]
  /\ refs' = [refs EXCEPT ![f] = {uv}, ![uv] = {x}, ![th] = @ \cup {f}]
  /\ color' = [color EXCEPT ![f] = "white", ![uv] = "white"]
  /\ age' = [age EXCEPT ![f] = "new", ![uv] = "new"]
  /\ seg' = [seg EXCEPT ![f] = "nursery"]
  /\ UNCHANGED <<gray, grayagain, finvars>>

(* FNEW with an upvalue that exists: open in th or inherited.              *)
ShareClosure(f, uv, th) ==
  /\ th \in Stacks
  /\ f \in Funcs \ heap /\ uv \in Uvs \cap heap
  /\ owner[uv] = th \/ \E p \in Stack \cap Funcs : uv \in refs[p]
  /\ refs' = [refs EXCEPT ![f] = {uv}, ![th] = @ \cup {f}]
  /\ color' = [color EXCEPT ![f] = "white"]
  /\ age' = [age EXCEPT ![f] = "new"]
  /\ seg' = [seg EXCEPT ![f] = "nursery"]
  /\ UNCHANGED <<owner, gray, grayagain, finvars>>

Load(o, x) ==
  /\ o \in Stack
  /\ x \in refs[o] \ Uvs \/ \E uv \in refs[o] \cap Uvs : x \in refs[uv]
  /\ refs' = Push(Main, x)
  /\ UNCHANGED <<owner, gcvars, finvars>>

Pop(th, x) ==
  /\ th \in Stacks /\ x \in refs[th] \ Captured(th)
  /\ refs' = [refs EXCEPT ![th] = @ \ {x}]
  /\ UNCHANGED <<owner, gcvars, finvars>>

PushTo(th, x) ==
  /\ th \in Stacks /\ x \in Stack
  /\ refs' = Push(th, x)
  /\ UNCHANGED <<owner, gcvars, finvars>>

TabStore(t, old, v) ==
  /\ t \in Stack \cap Tabs /\ v \in Stack /\ old \in refs[t] \cup {Nil}
  /\ refs' = [refs EXCEPT ![t] = (@ \ {old}) \cup {v}]
  /\ \/ IsBlack(t) /\ BarrierBack(t)
     \/ ~(IsBlack(t) /\ IsWhite(v)) /\ UNCHANGED <<color, age, grayagain>>
  /\ UNCHANGED <<owner, seg, gray, finvars>>

TabClear(t, old) ==
  /\ t \in Stack \cap Tabs /\ old \in refs[t]
  /\ refs' = [refs EXCEPT ![t] = @ \ {old}]
  /\ \/ IsBlack(t) /\ BarrierBack(t)
     \/ UNCHANGED <<color, age, grayagain>>
  /\ UNCHANGED <<owner, seg, gray, finvars>>

(* lua_setupvalue, lua_setfenv of a function: the forward barrier.         *)
FuncStore(f, old, v) ==
  /\ f \in Stack \cap Funcs /\ v \in Stack
  /\ old \in (refs[f] \ Uvs) \cup {Nil}
  /\ refs' = [refs EXCEPT ![f] = (@ \ {old}) \cup {v}]
  /\ BarrierForward(f, v)
  /\ UNCHANGED <<owner, seg, grayagain, finvars>>

SetUv(uv, old, v) ==
  /\ \E f \in Stack \cap Funcs : uv \in refs[f] \cap Uvs
  /\ v \in Stack /\ old \in refs[uv] \cup {Nil}
  /\ IF IsOpen(uv)
     THEN /\ old \notin UNION {refs[u] : u \in OpenUvsOf(owner[uv]) \ {uv}}
          /\ refs' = [refs EXCEPT ![uv] = {v}, ![owner[uv]] = (@ \ {old}) \cup {v}]
          /\ UNCHANGED <<color, age, gray>>
     ELSE /\ refs' = [refs EXCEPT ![uv] = {v}]
          /\ BarrierForward(uv, v)
  /\ UNCHANGED <<owner, seg, grayagain, finvars>>

(* lj_gc_closeuv: the upvalue becomes a "new" object of the root list; a   *)
(* gray one is made black and its value marked.                            *)
CloseUv(uv) ==
  /\ uv \in Uvs \cap heap /\ owner[uv] \in Stacks
  /\ owner' = [owner EXCEPT ![uv] = Nil]
  /\ seg' = [seg EXCEPT ![uv] = "nursery"]
  /\ age' = [age EXCEPT ![uv] = "new"]
  /\ IF IsWhite(uv) THEN UNCHANGED <<color, gray>>
     ELSE \E M \in {GcMark(refs[uv])} :
            /\ color' = [o \in Obj |-> IF o = uv THEN "black"
                                       ELSE IF o \in M THEN MarkColor(o) ELSE color[o]]
            /\ gray' = gray \cup (M \cap HasGcList)
  /\ UNCHANGED <<refs, grayagain, finvars>>

(* setmetatable with a __gc field sets LJ_TAB_HAS_GC.                      *)
Arm(t) ==
  /\ t \in Stack \cap Armable
  /\ armed' = armed \cup {t}
  /\ UNCHANGED <<heapvars, gcvars, mmudata, infin, phase>>

FinReturn ==
  /\ infin
  /\ infin' = FALSE
  /\ UNCHANGED <<heapvars, gcvars, armed, mmudata, phase>>

Mutator ==
  \/ \E o \in Obj \ Uvs : New(o)
  \/ \E s \in Strs : Intern(s)
  \/ \E f \in Funcs, uv \in Uvs, th \in Threads :
       ShareClosure(f, uv, th) \/ \E x \in Obj : NewClosure(f, uv, th, x)
  \/ \E o, x \in Obj : Load(o, x)
  \/ \E th \in Threads, x \in Obj : Pop(th, x) \/ PushTo(th, x)
  \/ \E t \in Tabs, old \in Obj \cup {Nil} :
       TabClear(t, old) \/ \E v \in Obj : TabStore(t, old, v)
  \/ \E f \in Funcs, old \in Obj \cup {Nil}, v \in Obj : FuncStore(f, old, v)
  \/ \E uv \in Uvs : CloseUv(uv) \/ (\E old \in Obj \cup {Nil}, v \in Obj : SetUv(uv, old, v))
  \/ \E t \in Armable : Arm(t)
  \/ FinReturn

-----------------------------------------------------------------------------
(* Minor collections *)

(* gc_gen_markold_range54: the "old1" objects of the root list.            *)
OldOnes == {o \in heap : age[o] = "old1" /\ seg[o] \in {"nursery", "survival", "old1"}}

Revisited_FirstOnly ==
  {o \in OldOnes : o \in HasGcList /\ IsBlack(o) /\ seg[o] = "survival"}

(* gc_gen_link_gray54 puts those with a gray list link on gc.gray.         *)
Revisited == {o \in OldOnes : o \in HasGcList /\ IsBlack(o)}

GrayUvValues == UNION {refs[uv] : uv \in {u \in Uvs \cap heap : IsOpen(u) /\ color[u] = "gray"}}

(* All that atomic() starts from.  Objects past it are not looked at.      *)
MinorRoots ==
  gray \cup Revisited \cup grayagain \cup (WhiteSet \cap (GrayUvValues \cup {Main}))

(* Ages after the mark phase: propagatemark ends the touched state of the  *)
(* tables that have been touched before the previous collection.           *)
MarkedAge(M) ==
  [o \in Obj |-> IF o \in OldOnes \/ (o \in M \cap Tabs /\ age[o] = "touched2")
                 THEN "old" ELSE age[o]]

(* gc_gen_keep_touched_gray54: these stay gray, on grayagain.              *)
KeptGray(M) == {t \in M \cap Tabs : age[t] = "touched1"}

(* gc_sweepgen54 looks at the nursery, the survivors of the last minor     *)
(* collection and the threads' open upvalues there, gc_sweepstrgen54 at    *)
(* all strings.                                                            *)
SweptBy(F) ==
  LET Young == {o \in heap \ F : seg[o] \in {"nursery", "survival"}}
  IN Young \cup (Strs \cap heap) \cup {uv \in Uvs : owner[uv] \in Young}

NextAge_NoOld1(a) ==
  CASE a = "new" -> "survival"
    [] a = "touched1" -> "touched2"
    [] OTHER -> "old"

(* gc_gen_age_survivor54 *)
NextAge(a) ==
  CASE a = "new" -> "survival"
    [] a \in {"survival", "old0"} -> "old1"
    [] a = "touched1" -> "touched2"
    [] OTHER -> "old"

NextSeg_SkipSurvival(s) ==
  CASE s \in {"nursery", "survival"} -> "old1"
    [] s = "old1" -> "old"
    [] OTHER -> s

(* The boundaries gc_sweepgen54 sets: what was swept as nursery is swept   *)
(* once more.                                                              *)
NextSeg(s) ==
  CASE s = "nursery" -> "survival"
    [] s = "survival" -> "old1"
    [] s = "old1" -> "old"
    [] OTHER -> s

(* gc_gen_age_survivor54: tables with __gc never age, other "new" objects  *)
(* become white survivors, the rest keeps its mark.                        *)
SurvivorAge(o, a) == IF o \in armed THEN "new" ELSE NextAge(a)
SurvivorColor(o, a) ==
  IF o \in armed \/ a = "new" THEN "white" ELSE DoneColor(o)

(* gc_gen_minor54 up to its finalizers, with M1 and M2 marked before and   *)
(* after the separation of F, the objects Freed and the survivors Kept of  *)
(* those swept.  A thread that is freed closes its upvalues: those that    *)
(* are kept gray become black and their values are marked.                 *)
MinorSweep(F, M2, a, Freed, Kept) ==
  LET closed == {uv \in Kept \cap Uvs : owner[uv] \in Freed}
      c == [o \in Obj |->
              IF o \in Freed THEN "free"
              ELSE IF o \in Kept THEN SurvivorColor(o, a[o])
              ELSE IF o \in KeptGray(M2) THEN "gray"
              ELSE IF o \in M2 THEN DoneColor(o) ELSE color[o]]
      b == [o \in Obj |->
              IF o \in closed THEN "new"
              ELSE IF o \in Kept THEN SurvivorAge(o, a[o]) ELSE a[o]]
      blackened == {uv \in closed : c[uv] = "gray"}
      remarked == {x \in UNION {refs[uv] : uv \in blackened} : c[x] = "white"}
      again == {o \in (M2 \cap Threads) \cup KeptGray(M2) : c[o] \notin {"free", "white"}}
  IN \* gc_correctgraygen54
     /\ color' = [o \in Obj |->
                    IF o \in blackened \/ (o \in again \ Threads) THEN "black"
                    ELSE IF o \in remarked THEN MarkColor(o) ELSE c[o]]
     /\ age' = [o \in Obj |->
                  IF o \in again /\ b[o] = "touched1" THEN "touched2"
                  ELSE IF o \in again /\ b[o] = "touched2" THEN "old" ELSE b[o]]
     /\ grayagain' = {o \in again : o \in Threads \/ b[o] = "touched1"}
     /\ gray' = remarked \cap HasGcList
     /\ seg' = [o \in Obj |->
                  IF o \in Freed \cup F THEN "off"
                  ELSE IF o \in closed THEN "survival" ELSE NextSeg(seg[o])]
     /\ refs' = [o \in Obj |-> IF o \in Freed THEN {} ELSE refs[o]]
     /\ owner' = [uv \in Uvs |-> IF {uv, owner[uv]} \cap Freed # {} THEN Nil ELSE owner[uv]]

FinalMark_PendingOnly(M1, F) == M1 \cup F

(* gc_mark_mmudata and the propagation after it.                           *)
FinalMark(M1, F) == TraceFrom(M1 \cup F)

(* lj_gc_separateudata: the armed tables that are not marked.              *)
Separated(M) == {t \in armed \ M : IsWhite(t)}

(* gc_gen_minor54 up to its finalizers.                                    *)
Minor ==
  /\ phase = "idle" /\ ~infin
  /\ \E M1 \in {TraceFrom(MinorRoots)} :
     \E F \in {Separated(M1)} :
     \E M2 \in {FinalMark(M1, F)} :
     \E S \in {SweptBy(F)} :
     \E Freed \in {{o \in S \ M2 : IsWhite(o) /\ ~IsOld(o)}} :
       /\ MinorSweep(F, M2, MarkedAge(M2), Freed, S \ Freed)
       /\ armed' = armed \ (F \cup Freed)
       /\ mmudata' = F
  /\ phase' = "minor"
  /\ UNCHANGED infin

(* gc_finalize: the object is relinked at the root's head, "new" and white.*)
Finalize(o) ==
  /\ phase # "idle" /\ ~infin
  /\ o \in mmudata
  /\ mmudata' = mmudata \ {o}
  /\ color' = [color EXCEPT ![o] = "white"]
  /\ age' = [age EXCEPT ![o] = "new"]
  /\ seg' = [seg EXCEPT ![o] = "nursery"]
  /\ \/ infin' = TRUE /\ refs' = Push(Main, o)
     \/ UNCHANGED <<infin, refs>>
  /\ UNCHANGED <<owner, gray, grayagain, armed, phase>>

MinorDone ==
  /\ phase = "minor" /\ mmudata = {} /\ ~infin
  /\ phase' = "idle"
  /\ UNCHANGED <<heapvars, gcvars, armed, mmudata, infin>>

-----------------------------------------------------------------------------
(* lj_gc_fullgc in generational mode: lj_gc_gen_whitelist54 makes all      *)
(* objects new and white, an incremental cycle frees the unreachable ones  *)
(* and runs the finalizers of those separated.                             *)
Full ==
  /\ phase = "idle" /\ ~infin
  /\ \E M1 \in {LeastClosed({Main}, Obj, Obj)} :
     \E F \in {(armed \cap heap) \ M1} :
     \E Kept \in {LeastClosed(M1 \cup F, Obj, Obj)} :
       /\ refs' = [o \in Obj |-> IF o \in Kept THEN refs[o] ELSE {}]
       /\ owner' = [uv \in Uvs |-> IF {uv, owner[uv]} \subseteq Kept THEN owner[uv] ELSE Nil]
       /\ color' = [o \in Obj |-> IF o \in F THEN "black"
                                  ELSE IF o \in Kept THEN "white" ELSE "free"]
       /\ age' = [o \in Obj |-> "new"]
       /\ seg' = [o \in Obj |-> "off"]
       /\ grayagain' = Kept \cap Threads
       /\ armed' = armed \cap M1
       /\ mmudata' = F
  /\ gray' = {} /\ phase' = "full"
  /\ UNCHANGED infin

Enter_RelinkAll ==
  /\ phase = "full" /\ mmudata = {} /\ ~infin
  /\ phase' = "idle"
  /\ age' = [o \in Obj |-> IF o \in heap \ armed THEN "old" ELSE "new"]
  /\ color' = [o \in Obj |-> IF o \notin heap THEN "free"
                               ELSE IF o \in armed THEN "white"
                               ELSE IF o \in Threads \/ IsOpen(o) THEN "gray"
                               ELSE "black"]
  /\ seg' = [o \in Obj |-> IF o \in heap \ Strs /\ ~IsOpen(o) THEN "old" ELSE "off"]
  /\ gray' = {} /\ grayagain' = heap
  /\ UNCHANGED <<heapvars, armed, mmudata, infin>>

Enter_BlackThreads ==
  /\ phase = "full" /\ mmudata = {} /\ ~infin
  /\ phase' = "idle"
  /\ age' = [o \in Obj |-> IF o \in heap \ armed THEN "old" ELSE "new"]
  /\ color' = [o \in Obj |-> IF o \notin heap THEN "free"
                               ELSE IF o \in armed THEN "white"
                               ELSE IF IsOpen(o) THEN "gray"
                               ELSE "black"]
  /\ seg' = [o \in Obj |-> IF o \in heap \ Strs /\ ~IsOpen(o) THEN "old" ELSE "off"]
  /\ gray' = {} /\ grayagain' = {}
  /\ UNCHANGED <<heapvars, armed, mmudata, infin>>

(* gc_gen_enter54: what is left is old and black, or gray if it is never   *)
(* black.  Tables with __gc stay new.                                      *)
Enter ==
  /\ phase = "full" /\ mmudata = {} /\ ~infin
  /\ phase' = "idle"
  /\ age' = [o \in Obj |-> IF o \in heap \ armed THEN "old" ELSE "new"]
  /\ color' = [o \in Obj |-> IF o \notin heap THEN "free"
                               ELSE IF o \in armed THEN "white"
                               ELSE IF o \in Threads \/ IsOpen(o) THEN "gray"
                               ELSE "black"]
  /\ seg' = [o \in Obj |-> IF o \in heap \ Strs /\ ~IsOpen(o) THEN "old" ELSE "off"]
  /\ gray' = {} /\ grayagain' = Threads \cap heap
  /\ UNCHANGED <<heapvars, armed, mmudata, infin>>

Collector == Minor \/ MinorDone \/ Full \/ Enter \/ \E o \in Tabs : Finalize(o)

Init ==
  /\ refs = [o \in Obj |-> {}]
  /\ owner = [uv \in Uvs |-> Nil]
  /\ color = [o \in Obj |-> IF o = Main THEN "gray" ELSE "free"]
  /\ age = [o \in Obj |-> IF o = Main THEN "old" ELSE "new"]
  /\ seg = [o \in Obj |-> IF o = Main THEN "old" ELSE "off"]
  /\ gray = {} /\ grayagain = {Main}
  /\ armed = {} /\ mmudata = {} /\ infin = FALSE /\ phase = "idle"

(* Objects the program or a finalizer, pending or to come, can get at.     *)
Reachable == LeastClosed({Main} \cup mmudata \cup armed, Obj, Obj)

(* While a collection runs, only its finalizers execute code.  A behavior  *)
(* ends where freed memory is within reach: what the program does then is  *)
(* undefined.                                                              *)
Sound == Reachable \subseteq heap

Next ==
  \/ Sound /\ (phase = "idle" \/ infin) /\ Mutator
  \/ Sound /\ Collector

Spec == Init /\ [][Next]_vars

-----------------------------------------------------------------------------
(* Properties *)

TypeOK ==
  /\ refs \in [Obj -> SUBSET Obj] /\ owner \in [Uvs -> Threads \cup {Nil}]
  /\ color \in [Obj -> Colors] /\ age \in [Obj -> Ages] /\ seg \in [Obj -> Segs]
  /\ gray \subseteq HasGcList /\ grayagain \subseteq HasGcList
  /\ armed \subseteq Armable /\ mmudata \subseteq Armable
  /\ infin \in BOOLEAN /\ phase \in Phases

(* A minor collection frees no object that is reachable.                   *)
NoDangling == Sound

(* What is reachable from the program's stacks is not finalized.           *)
FinalizeUnreachable ==
  [][\A t \in Tabs : t \in mmudata' \ mmudata => t \notin LeastClosed({Main}, Obj, Obj)]_vars

(* Whatever refers to a white object is looked at by the next minor        *)
(* collection: it is white too, listed, or an "old1" object to revisit.    *)
OldToYoung ==
  phase = "idle" =>
    \A o \in heap : ~IsWhite(o) => \/ o \in MinorRoots \/ IsOpen(o)
                                   \/ \A x \in refs[o] : ~IsWhite(x)

(* A touched table is on grayagain: gray if it was touched since the last  *)
(* minor collection, black if before it.  The barrier relies on this when  *)
(* it does not link a "touched2" table again.                              *)
TouchedListed ==
  \A t \in Tabs \cap heap :
    /\ age[t] = "touched1" => t \in grayagain /\ color[t] = "gray"
    /\ age[t] = "touched2" => t \in grayagain /\ color[t] = "black"

(* A separated object stays, with what it refers to, until its finalizer   *)
(* is called.                                                              *)
PendingKept == \A o \in mmudata : o \in heap /\ refs[o] \subseteq heap

(* Whatever a minor collection does, the values on the stacks of the       *)
(* threads in use stay: a thread is on grayagain as long as it is gray.    *)
StacksKept == \A th \in Stacks : th \in heap /\ refs[th] \subseteq heap

(* Objects past the swept segments are old: none can become garbage that   *)
(* only a minor collection was expected to free.                           *)
OldSegment == \A o \in heap : phase = "idle" /\ seg[o] \in {"old1", "old"} => IsOld(o)

(* A table touched between two collections is scanned by the next two:     *)
(* "touched1 -> touched2 -> old" (TODO.md:378).                            *)
TouchedTwice ==
  [][\A t \in Tabs : age[t] = "touched1" /\ phase' = "minor" /\ phase = "idle" => age'[t] = "touched2"]_vars

=============================================================================
