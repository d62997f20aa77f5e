---------------------------- MODULE GcGen_proofs ----------------------------
(***************************************************************************)
(* Proofs about GcGen, for every set of objects.                           *)
(*                                                                         *)
(* Whatever the program does, the collector keeps the stacks and the       *)
(* objects whose finalizers it is going to call, and only a minor          *)
(* collection frees something that is in use.  Without closures, upvalues  *)
(* and finalizers none does.                                               *)
(***************************************************************************)
EXTENDS GcGen, TLAPS

(* LeastClosed contains the set it starts from.                            *)
LEMMA LeastClosedContains ==
  ASSUME NEW S, NEW Via, NEW W
  PROVE  /\ LeastClosed(S, Via, W) \subseteq Obj
         /\ S \cap Obj \subseteq LeastClosed(S, Via, W)
  BY DEF LeastClosed

(* LeastClosed is closed: what a member of Via in it refers to is in it,   *)
(* as far as it is in W.                                                   *)
LEMMA LeastClosedClosed ==
  ASSUME NEW S, NEW Via, NEW W,
         NEW o \in LeastClosed(S, Via, W) \cap Via, NEW x \in refs[o] \cap W, x \in Obj
  PROVE  x \in LeastClosed(S, Via, W)
  BY DEF LeastClosed

(* LeastClosed is the least such set.                                      *)
LEMMA LeastClosedLeast ==
  ASSUME NEW S, NEW Via, NEW W, NEW T \in SUBSET Obj, S \subseteq T,
         \A o \in T \cap Via : refs[o] \cap W \subseteq T
  PROVE  LeastClosed(S, Via, W) \subseteq T
  BY DEF LeastClosed

(* The kinds are disjoint sets of objects.                                 *)
LEMMA Kinds ==
  /\ Tabs \subseteq Obj /\ Funcs \subseteq Obj /\ Strs \subseteq Obj
  /\ Uvs \subseteq Obj /\ Threads \subseteq Obj /\ Armable \subseteq Tabs
  /\ HasGcList = Tabs \cup Funcs \cup Threads
  /\ Main \in Threads /\ Main \in Obj /\ Nil \notin Obj
  BY GenAssumption DEF Obj, HasGcList

(* Marking returns objects.                                                *)
LEMMA MarkedAreObjects ==
  ASSUME NEW S
  PROVE  GcMark(S) \subseteq Obj /\ TraceFrom(S) \subseteq Obj
  BY LeastClosedContains DEF GcMark, TraceFrom

(* Transitive marking adds white objects only, and leaves no white object  *)
(* that a marked one refers to.                                            *)
LEMMA TraceSpec ==
  ASSUME TypeOK, NEW S \in SUBSET Obj
  PROVE  /\ S \subseteq TraceFrom(S)
         /\ TraceFrom(S) \subseteq S \cup WhiteSet
         /\ \A o \in TraceFrom(S) : \A x \in refs[o] : IsWhite(x) => x \in TraceFrom(S)
<1>1. S \subseteq TraceFrom(S)
  BY LeastClosedContains DEF TraceFrom
<1>2. TraceFrom(S) \subseteq S \cup WhiteSet
  <2>1. S \cup WhiteSet \in SUBSET Obj
    BY DEF WhiteSet
  <2>2. \A o \in (S \cup WhiteSet) \cap Obj : refs[o] \cap WhiteSet \subseteq S \cup WhiteSet
    OBVIOUS
  <2> QED
    BY <2>1, <2>2, LeastClosedLeast DEF TraceFrom
<1>3. ASSUME NEW o \in TraceFrom(S), NEW x \in refs[o], IsWhite(x)
      PROVE  x \in TraceFrom(S)
  <2>1. o \in Obj /\ x \in Obj
    BY <1>2, <1>3 DEF WhiteSet, TypeOK
  <2> QED
    BY <1>3, <2>1, LeastClosedClosed DEF TraceFrom, WhiteSet
<1> QED
  BY <1>1, <1>2, <1>3

(* gc_mark marks white objects only, among them those it is given.         *)
LEMMA GcMarkSpec ==
  ASSUME TypeOK, NEW S \in SUBSET Obj
  PROVE  GcMark(S) \subseteq WhiteSet /\ S \cap WhiteSet \subseteq GcMark(S)
<1>1. WhiteSet \in SUBSET Obj
  BY DEF WhiteSet
<1>2. \A o \in WhiteSet \cap Uvs : refs[o] \cap WhiteSet \subseteq WhiteSet
  OBVIOUS
<1> QED
  BY <1>1, <1>2, LeastClosedLeast, LeastClosedContains DEF GcMark

-----------------------------------------------------------------------------
(* A minor collection                                                      *)

\* What the sweep of a minor collection starts from: the objects marked, separated,
\* freed and kept.
Marked(F, M, Freed, Kept) ==
  /\ F \subseteq armed /\ F \subseteq M /\ MinorRoots \subseteq M /\ M \subseteq Obj
  /\ M \subseteq MinorRoots \cup F \cup WhiteSet
  /\ \A t \in F : IsWhite(t)
  /\ \A o \in M : \A x \in refs[o] : IsWhite(x) => x \in M
  /\ Freed = {o \in SweptBy(F) \ M : IsWhite(o) /\ ~IsOld(o)}
  /\ Kept = SweptBy(F) \ Freed

(* The roots of a minor collection are objects.                            *)
LEMMA RootsAreObjects ==
  ASSUME TypeOK
  PROVE  MinorRoots \subseteq Obj /\ SweptBy({}) \subseteq Obj
<1> USE Kinds
<1>1. gray \cup grayagain \subseteq Obj
  BY DEF TypeOK
<1>2. Revisited \subseteq Obj
  BY DEF Revisited, OldOnes, heap
<1>3. WhiteSet \subseteq Obj /\ SweptBy({}) \subseteq Obj
  BY DEF WhiteSet, SweptBy, heap
<1> QED
  BY <1>1, <1>2, <1>3 DEF MinorRoots

(* A minor collection marks, separates and sweeps as Marked says.          *)
LEMMA MinorParts ==
  ASSUME TypeOK, Minor
  PROVE  \E F, M, Freed, Kept \in SUBSET Obj :
           /\ Marked(F, M, Freed, Kept)
           /\ MinorSweep(F, M, MarkedAge(M), Freed, Kept)
           /\ armed' = armed \ (F \cup Freed) /\ mmudata' = F
           /\ phase = "idle" /\ phase' = "minor" /\ infin' = infin
<1> USE Kinds
<1>1. PICK F, M, S, Freed :
        /\ F = Separated(TraceFrom(MinorRoots))
        /\ M = FinalMark(TraceFrom(MinorRoots), F)
        /\ S = SweptBy(F)
        /\ Freed = {o \in S \ M : IsWhite(o) /\ ~IsOld(o)}
        /\ MinorSweep(F, M, MarkedAge(M), Freed, S \ Freed)
        /\ armed' = armed \ (F \cup Freed) /\ mmudata' = F
        /\ phase = "idle" /\ phase' = "minor" /\ infin' = infin
  BY DEF Minor
<1> DEFINE M1 == TraceFrom(MinorRoots)
<1>2. MinorRoots \in SUBSET Obj
  BY RootsAreObjects
<1>3. MinorRoots \subseteq M1 /\ M1 \subseteq MinorRoots \cup WhiteSet
  BY <1>2, TraceSpec
<1>4. F \subseteq armed /\ F \subseteq Obj /\ \A t \in F : IsWhite(t)
  BY <1>1 DEF Separated, TypeOK
<1>5. M1 \cup F \in SUBSET Obj
  BY <1>4, MarkedAreObjects
<1>6. M = TraceFrom(M1 \cup F)
  BY <1>1 DEF FinalMark
<1> HIDE DEF M1
<1>7. /\ M1 \cup F \subseteq M /\ M \subseteq M1 \cup F \cup WhiteSet
      /\ \A o \in M : \A x \in refs[o] : IsWhite(x) => x \in M
  BY <1>5, <1>6, TraceSpec
<1>8. M \subseteq Obj /\ S \subseteq Obj
  <2>1. S \subseteq Obj
    BY <1>1 DEF SweptBy, heap
  <2> QED
    BY <2>1, <1>6, MarkedAreObjects
<1>9. Marked(F, M, Freed, S \ Freed)
  BY <1>1, <1>3, <1>4, <1>7, <1>8 DEF Marked
<1> QED
  BY <1>1, <1>4, <1>8, <1>9

(* What the sweep of a minor collection does to each object: the color c   *)
(* and the age b that the sweep gives it, and then the correction of the   *)
(* gray lists.                                                             *)
SweptColor(M, Freed, Kept) ==
  [o \in Obj |->
     IF o \in Freed THEN "free"
     ELSE IF o \in Kept THEN SurvivorColor(o, MarkedAge(M)[o])
     ELSE IF o \in KeptGray(M) THEN "gray"
     ELSE IF o \in M THEN DoneColor(o) ELSE color[o]]

Orphans(Freed, Kept) == {uv \in Kept \cap Uvs : owner[uv] \in Freed}

SweptAge(M, Freed, Kept) ==
  [o \in Obj |->
     IF o \in Orphans(Freed, Kept) THEN "new"
     ELSE IF o \in Kept THEN SurvivorAge(o, MarkedAge(M)[o]) ELSE MarkedAge(M)[o]]

Blackened(M, Freed, Kept) ==
  {uv \in Orphans(Freed, Kept) : SweptColor(M, Freed, Kept)[uv] = "gray"}

Remarked(M, Freed, Kept) ==
  {x \in UNION {refs[uv] : uv \in Blackened(M, Freed, Kept)} :
     SweptColor(M, Freed, Kept)[x] = "white"}

Again(M, Freed, Kept) ==
  {o \in (M \cap Threads) \cup KeptGray(M) :
     SweptColor(M, Freed, Kept)[o] \notin {"free", "white"}}

(* MinorSweep in these words.                                              *)
LEMMA SweepParts ==
  ASSUME NEW F, NEW M, NEW Freed, NEW Kept,
         MinorSweep(F, M, MarkedAge(M), Freed, Kept)
  PROVE  /\ color' = [o \in Obj |->
                        IF o \in Blackened(M, Freed, Kept)
                           \/ (o \in Again(M, Freed, Kept) \ Threads) THEN "black"
                        ELSE IF o \in Remarked(M, Freed, Kept) THEN MarkColor(o)
                        ELSE SweptColor(M, Freed, Kept)[o]]
         /\ age' = [o \in Obj |->
                      IF o \in Again(M, Freed, Kept)
                         /\ SweptAge(M, Freed, Kept)[o] = "touched1" THEN "touched2"
                      ELSE IF o \in Again(M, Freed, Kept)
                              /\ SweptAge(M, Freed, Kept)[o] = "touched2" THEN "old"
                      ELSE SweptAge(M, Freed, Kept)[o]]
         /\ grayagain' = {o \in Again(M, Freed, Kept) :
                            o \in Threads \/ SweptAge(M, Freed, Kept)[o] = "touched1"}
         /\ gray' = Remarked(M, Freed, Kept) \cap HasGcList
         /\ seg' = [o \in Obj |->
                      IF o \in Freed \cup F THEN "off"
                      ELSE IF o \in Orphans(Freed, Kept) THEN "survival" ELSE NextSeg(seg[o])]
         /\ refs' = [o \in Obj |-> IF o \in Freed THEN {} ELSE refs[o]]
         /\ owner' = [uv \in Uvs |-> IF {uv, owner[uv]} \cap Freed # {} THEN Nil ELSE owner[uv]]
  BY DEF MinorSweep, SweptColor, SweptAge, Orphans, Blackened, Remarked, Again

\* The state before a sweep and the sets it works with.
Sweeping(F, M, Freed, Kept) ==
  /\ TypeOK /\ phase = "idle"
  /\ F \in SUBSET Obj /\ M \in SUBSET Obj /\ Freed \in SUBSET Obj /\ Kept \in SUBSET Obj
  /\ Marked(F, M, Freed, Kept)
  /\ MinorSweep(F, M, MarkedAge(M), Freed, Kept)

(* The colors of the sweep, object by object.                              *)
LEMMA SweptColors ==
  ASSUME NEW F, NEW M, NEW Freed, NEW Kept, Sweeping(F, M, Freed, Kept), NEW o \in Obj
  PROVE  LET c == SweptColor(M, Freed, Kept)[o]
         IN  /\ c \in Colors
             /\ o \in Freed => c = "free"
             /\ o \notin Freed /\ color[o] # "free" => c # "free"
             /\ o \in Kept => c = SurvivorColor(o, MarkedAge(M)[o])
             /\ o \notin Freed \cup Kept /\ o \in KeptGray(M) => c = "gray"
             /\ o \notin Freed \cup Kept \cup KeptGray(M) =>
                  c = IF o \in M THEN DoneColor(o) ELSE color[o]
<1>1. Freed \cap Kept = {}
  BY DEF Sweeping, Marked
<1>2. SurvivorColor(o, MarkedAge(M)[o]) \in Colors \ {"free"}
  BY DEF SurvivorColor, DoneColor, Colors
<1>3. DoneColor(o) \in Colors \ {"free"} /\ color[o] \in Colors
  BY DEF DoneColor, Colors, Sweeping, TypeOK
<1> QED
  BY <1>1, <1>2, <1>3 DEF SweptColor, Colors

(* A minor collection leaves memory that was not freed allocated.          *)
LEMMA SweepFrees ==
  ASSUME NEW F, NEW M, NEW Freed, NEW Kept, Sweeping(F, M, Freed, Kept), NEW o \in Obj
  PROVE  /\ color'[o] \in Colors
         /\ o \in Freed => color'[o] = "free"
         /\ o \notin Freed /\ color[o] # "free" => color'[o] # "free"
         /\ refs'[o] = IF o \in Freed THEN {} ELSE refs[o]
<1> DEFINE c == SweptColor(M, Freed, Kept)
<1>1. /\ color'[o] = IF o \in Blackened(M, Freed, Kept)
                        \/ (o \in Again(M, Freed, Kept) \ Threads) THEN "black"
                     ELSE IF o \in Remarked(M, Freed, Kept) THEN MarkColor(o)
                     ELSE c[o]
      /\ refs'[o] = IF o \in Freed THEN {} ELSE refs[o]
  BY SweepParts DEF Sweeping
<1>2. /\ c[o] \in Colors
      /\ o \in Freed => c[o] = "free"
      /\ o \notin Freed /\ color[o] # "free" => c[o] # "free"
  BY SweptColors
<1>3. c[o] = "free" => /\ o \notin Blackened(M, Freed, Kept)
                       /\ o \notin Again(M, Freed, Kept)
                       /\ o \notin Remarked(M, Freed, Kept)
  BY DEF Blackened, Again, Remarked
<1>4. MarkColor(o) \in {"black", "gray"}
  BY DEF MarkColor
<1> HIDE DEF c
<1> QED
  BY <1>1, <1>2, <1>3, <1>4 DEF Colors

(* The ages of the mark phase and of the sweep.                            *)
LEMMA SweptAges ==
  ASSUME NEW F, NEW M, NEW Freed, NEW Kept, Sweeping(F, M, Freed, Kept), NEW o \in Obj
  PROVE  /\ MarkedAge(M)[o] \in Ages
         /\ o \in OldOnes \/ (o \in M \cap Tabs /\ age[o] = "touched2") => MarkedAge(M)[o] = "old"
         /\ ~(o \in OldOnes \/ (o \in M \cap Tabs /\ age[o] = "touched2")) =>
              MarkedAge(M)[o] = age[o]
         /\ SweptAge(M, Freed, Kept)[o] \in Ages
         /\ o \in Orphans(Freed, Kept) => SweptAge(M, Freed, Kept)[o] = "new"
         /\ o \notin Orphans(Freed, Kept) /\ o \in Kept =>
              SweptAge(M, Freed, Kept)[o] = SurvivorAge(o, MarkedAge(M)[o])
         /\ o \notin Orphans(Freed, Kept) /\ o \notin Kept =>
              SweptAge(M, Freed, Kept)[o] = MarkedAge(M)[o]
<1>1. age[o] \in Ages
  BY DEF Sweeping, TypeOK
<1>2. MarkedAge(M)[o] \in Ages
  BY <1>1 DEF MarkedAge, Ages
<1>3. SurvivorAge(o, MarkedAge(M)[o]) \in Ages
  BY DEF SurvivorAge, NextAge, Ages
<1> QED
  BY <1>1, <1>2, <1>3 DEF MarkedAge, SweptAge, Ages

(* The ages that gc_gen_age_survivor54 gives.                              *)
LEMMA NextAges ==
  ASSUME NEW a \in Ages
  PROVE  NextAge(a) = IF a = "new" THEN "survival"
                      ELSE IF a \in {"survival", "old0"} THEN "old1"
                      ELSE IF a = "touched1" THEN "touched2" ELSE "old"
  BY Zenon DEF NextAge

(* The boundaries that gc_sweepgen54 moves.                                *)
LEMMA NextSegs ==
  ASSUME NEW s \in Segs
  PROVE  NextSeg(s) = IF s = "nursery" THEN "survival"
                      ELSE IF s = "survival" THEN "old1"
                      ELSE IF s = "old1" THEN "old" ELSE s
  BY Zenon DEF NextSeg

(* Type correctness of minor collections.                                  *)
LEMMA MinorTyped ==
  ASSUME TypeOK, Minor
  PROVE  TypeOK'
<1> USE Kinds
<1>1. PICK F, M, Freed, Kept \in SUBSET Obj :
        /\ Marked(F, M, Freed, Kept)
        /\ MinorSweep(F, M, MarkedAge(M), Freed, Kept)
        /\ armed' = armed \ (F \cup Freed) /\ mmudata' = F
        /\ phase = "idle" /\ phase' = "minor" /\ infin' = infin
  BY MinorParts
<1>2. Sweeping(F, M, Freed, Kept)
  BY <1>1 DEF Sweeping
<1>3. color' \in [Obj -> Colors] /\ refs' \in [Obj -> SUBSET Obj]
  <2>1. DOMAIN color' = Obj /\ DOMAIN refs' = Obj
    BY <1>1, SweepParts
  <2>2. color' = [o \in Obj |-> color'[o]] /\ refs' = [o \in Obj |-> refs'[o]]
    BY <1>1, <2>1, SweepParts
  <2>3. \A o \in Obj : color'[o] \in Colors /\ refs'[o] \in SUBSET Obj
    BY <1>2, SweepFrees DEF TypeOK
  <2> QED
    BY <2>2, <2>3
<1>4. age' \in [Obj -> Ages]
  <2>1. \A o \in Obj : SweptAge(M, Freed, Kept)[o] \in Ages
    BY <1>2, SweptAges
  <2> QED
    BY <1>1, <2>1, SweepParts DEF Ages
<1>5. seg' \in [Obj -> Segs]
  <2>1. \A o \in Obj : NextSeg(seg[o]) \in Segs
    BY NextSegs DEF TypeOK, Segs
  <2> QED
    BY <1>1, <2>1, SweepParts DEF Segs
<1>6. owner' \in [Uvs -> Threads \cup {Nil}]
  BY <1>1, SweepParts DEF TypeOK
<1>7. gray' \subseteq HasGcList /\ grayagain' \subseteq HasGcList
  BY <1>1, SweepParts DEF Again, KeptGray
<1>8. /\ armed' \subseteq Armable /\ mmudata' \subseteq Armable
      /\ infin' \in BOOLEAN /\ phase' \in Phases
  BY <1>1 DEF Marked, TypeOK, Phases
<1> QED
  BY <1>3, <1>4, <1>5, <1>6, <1>7, <1>8 DEF TypeOK

(* The kinds and ranges of the state.                                      *)
THEOREM TypeCorrect == Spec => []TypeOK
<1> USE Kinds DEF heapvars, gcvars, finvars, Colors, Ages, Segs, Phases
<1>1. ASSUME Init PROVE TypeOK
  <2>1. /\ refs \in [Obj -> SUBSET Obj] /\ owner \in [Uvs -> Threads \cup {Nil}]
        /\ color \in [Obj -> Colors] /\ age \in [Obj -> Ages] /\ seg \in [Obj -> Segs]
    BY <1>1 DEF Init
  <2>2. /\ gray \subseteq HasGcList /\ grayagain \subseteq HasGcList
        /\ armed \subseteq Armable /\ mmudata \subseteq Armable
    BY <1>1 DEF Init
  <2>3. infin \in BOOLEAN /\ phase \in Phases
    BY <1>1 DEF Init
  <2> QED
    BY <2>1, <2>2, <2>3 DEF TypeOK
<1>2. TypeOK /\ [Next]_vars => TypeOK'
  <2> SUFFICES ASSUME TypeOK, [Next]_vars PROVE TypeOK'
    OBVIOUS
  <2>1. ASSUME NEW o \in Obj \ Uvs, New(o) PROVE TypeOK'
    BY <2>1 DEF TypeOK, New
  <2>2. ASSUME NEW s \in Strs, Intern(s) PROVE TypeOK'
    BY <2>2 DEF TypeOK, Intern, Push
  <2>3. ASSUME NEW f \in Funcs, NEW uv \in Uvs, NEW th \in Threads, ShareClosure(f, uv, th)
        PROVE  TypeOK'
    BY <2>3 DEF TypeOK, ShareClosure
  <2>4. ASSUME NEW f \in Funcs, NEW uv \in Uvs, NEW th \in Threads, NEW x \in Obj,
               NewClosure(f, uv, th, x)
        PROVE  TypeOK'
    BY <2>4 DEF TypeOK, NewClosure
  <2>5. ASSUME NEW o \in Obj, NEW x \in Obj, Load(o, x) PROVE TypeOK'
    BY <2>5 DEF TypeOK, Load, Push
  <2>6. ASSUME NEW th \in Threads, NEW x \in Obj, Pop(th, x) PROVE TypeOK'
    BY <2>6 DEF TypeOK, Pop
  <2>7. ASSUME NEW th \in Threads, NEW x \in Obj, PushTo(th, x) PROVE TypeOK'
    BY <2>7 DEF TypeOK, PushTo, Push
  <2>8. ASSUME NEW t \in Tabs, NEW old \in Obj \cup {Nil}, TabClear(t, old) PROVE TypeOK'
    BY <2>8 DEF TypeOK, TabClear, BarrierBack
  <2>9. ASSUME NEW t \in Tabs, NEW old \in Obj \cup {Nil}, NEW v \in Obj, TabStore(t, old, v)
        PROVE  TypeOK'
    BY <2>9 DEF TypeOK, TabStore, BarrierBack
  <2>10. ASSUME NEW f \in Funcs, NEW v \in Obj, NEW old \in Obj \cup {Nil},
                FuncStore(f, old, v)
         PROVE  TypeOK'
    <3>1. color' \in [Obj -> Colors] /\ gray' \subseteq HasGcList /\ age' \in [Obj -> Ages]
      BY MarkedAreObjects, <2>10 DEF TypeOK, FuncStore, BarrierForward, MarkColor
    <3> QED
      BY <2>10, <3>1 DEF TypeOK, FuncStore
  <2>11. ASSUME NEW uv \in Uvs, CloseUv(uv) PROVE TypeOK'
    BY MarkedAreObjects, <2>11 DEF TypeOK, CloseUv, MarkColor
  <2>12. ASSUME NEW uv \in Uvs, NEW v \in Obj, NEW old \in Obj \cup {Nil}, SetUv(uv, old, v)
         PROVE  TypeOK'
    <3>1. color' \in [Obj -> Colors] /\ gray' \subseteq HasGcList /\ age' \in [Obj -> Ages]
      BY MarkedAreObjects, <2>12 DEF TypeOK, SetUv, BarrierForward, MarkColor
    <3>2. refs' \in [Obj -> SUBSET Obj]
      BY <2>12 DEF TypeOK, SetUv, IsOpen
    <3> QED
      BY <2>12, <3>1, <3>2 DEF TypeOK, SetUv
  <2>13. ASSUME NEW t \in Armable, Arm(t) PROVE TypeOK'
    BY <2>13 DEF TypeOK, Arm
  <2>14. ASSUME FinReturn PROVE TypeOK'
    BY <2>14 DEF TypeOK, FinReturn
  <2>15. ASSUME Minor PROVE TypeOK'
    BY <2>15, MinorTyped
  <2>16. ASSUME MinorDone PROVE TypeOK'
    BY <2>16 DEF TypeOK, MinorDone
  <2>17. ASSUME Full PROVE TypeOK'
    <3>1. /\ age' \in [Obj -> Ages] /\ seg' \in [Obj -> Segs] /\ color' \in [Obj -> Colors]
          /\ refs' \in [Obj -> SUBSET Obj] /\ owner' \in [Uvs -> Threads \cup {Nil}]
      BY <2>17 DEF TypeOK, Full
    <3>2. /\ gray' \subseteq HasGcList /\ grayagain' \subseteq HasGcList
          /\ armed' \subseteq Armable /\ mmudata' \subseteq Armable
      BY <2>17 DEF TypeOK, Full
    <3>3. infin' \in BOOLEAN /\ phase' \in Phases
      BY <2>17 DEF TypeOK, Full
    <3> QED
      BY <3>1, <3>2, <3>3 DEF TypeOK
  <2>18. ASSUME Enter PROVE TypeOK'
    <3>1. color' \in [Obj -> Colors] /\ age' \in [Obj -> Ages] /\ seg' \in [Obj -> Segs]
      BY <2>18 DEF Enter
    <3> QED
      BY <2>18, <3>1 DEF TypeOK, Enter
  <2>19. ASSUME NEW o \in Tabs, Finalize(o) PROVE TypeOK'
    <3>1. infin' \in BOOLEAN
      BY <2>19, Zenon DEF TypeOK, Finalize
    <3>2. refs' \in [Obj -> SUBSET Obj]
      BY <2>19 DEF TypeOK, Finalize, Push
    <3> QED
      BY <2>19, <3>1, <3>2 DEF TypeOK, Finalize
  <2>20. CASE UNCHANGED vars
    BY <2>20 DEF TypeOK, vars
  <2> QED
    BY <2>1, <2>2, <2>3, <2>4, <2>5, <2>6, <2>7, <2>8, <2>9, <2>10, <2>11, <2>12,
       <2>13, <2>14, <2>15, <2>16, <2>17, <2>18, <2>19, <2>20
       DEF Next, Mutator, Collector
<1> QED
  BY <1>1, <1>2, PTL DEF Spec

-----------------------------------------------------------------------------
(* What is in use                                                          *)

Young(o) == age[o] \in {"new", "survival"}

\* A thread that is not white is on a list that the next minor collection looks at.
ThreadsListed ==
  \A th \in Threads \cap heap : IF IsWhite(th) THEN Young(th) ELSE th \in gray \cup grayagain

\* An open upvalue holds a value of the stack it points into.
OpenOnStack ==
  \A uv \in Uvs : owner[uv] # Nil =>
    {uv, owner[uv]} \subseteq heap /\ refs[uv] \subseteq refs[owner[uv]]

LeafStrings == \A s \in Strs : refs[s] = {}

StackInv == Main \in heap /\ ThreadsListed /\ OpenOnStack /\ LeafStrings

(* What is reachable is allocated, and closed under references.            *)
LEMMA InUse ==
  ASSUME TypeOK, Sound
  PROVE  /\ Reachable \subseteq heap /\ Reachable \subseteq Obj
         /\ {Main} \cup mmudata \cup armed \subseteq Reachable
         /\ \A o \in Reachable : refs[o] \subseteq Reachable
<1> USE Kinds
<1> DEFINE S == {Main} \cup mmudata \cup armed
<1>1. S \subseteq Obj
  BY DEF TypeOK
<1> HIDE DEF S
<1>2. S \subseteq LeastClosed(S, Obj, Obj) /\ LeastClosed(S, Obj, Obj) \subseteq Obj
  BY <1>1, LeastClosedContains
<1>3. \A o \in LeastClosed(S, Obj, Obj) : refs[o] \subseteq LeastClosed(S, Obj, Obj)
  <2> SUFFICES ASSUME NEW o \in LeastClosed(S, Obj, Obj), NEW x \in refs[o]
               PROVE  x \in LeastClosed(S, Obj, Obj)
    OBVIOUS
  <2>1. x \in Obj /\ o \in Obj
    BY <1>2 DEF TypeOK
  <2> QED
    BY <2>1, LeastClosedClosed
<1>4. Reachable = LeastClosed(S, Obj, Obj)
  BY DEF Reachable, S
<1> QED
  BY <1>2, <1>3, <1>4 DEF Sound, S

(* A set of allocated objects that holds the roots and is closed under     *)
(* references holds all that is reachable.                                 *)
LEMMA StaysSound ==
  ASSUME NEW T \in SUBSET Obj, {Main} \cup mmudata' \cup armed' \subseteq T,
         \A o \in T : refs'[o] \subseteq T /\ color'[o] # "free"
  PROVE  Sound'
<1>1. T \in {U \in SUBSET Obj : /\ {Main} \cup mmudata' \cup armed' \subseteq U
                                /\ \A o \in U \cap Obj : refs'[o] \cap Obj \subseteq U}
  OBVIOUS
<1>2. Reachable' \subseteq T
  BY <1>1 DEF Reachable, LeastClosed
<1> QED
  BY <1>2 DEF Sound, heap

(* The stacks of the threads in use and what they hold are reachable.      *)
LEMMA StacksInUse ==
  ASSUME TypeOK, Sound
  PROVE  /\ Stacks \subseteq Reachable
         /\ \A th \in Stacks : refs[th] \subseteq Reachable
  BY InUse DEF Stacks, Stack

(* Sound is enough for the stacks and the pending objects.                 *)
LEMMA SoundKeeps ==
  ASSUME TypeOK, Sound
  PROVE  StacksKept /\ PendingKept
  BY InUse, StacksInUse DEF StacksKept, PendingKept

(* New objects.                                                            *)
LEMMA NewKeeps ==
  ASSUME TypeOK, Sound, StackInv, NEW o \in Obj \ Uvs, New(o)
  PROVE  Sound' /\ StackInv'
<1> USE Kinds DEF finvars
<1>1. /\ o \notin heap /\ owner' = owner /\ gray' = gray /\ grayagain' = grayagain
      /\ armed' = armed /\ mmudata' = mmudata
      /\ color' = [color EXCEPT ![o] = "white"] /\ age' = [age EXCEPT ![o] = "new"]
      /\ refs' = [refs EXCEPT ![o] = {}, ![Main] = @ \cup {o}]
  BY DEF New
<1>2. Main # o /\ refs'[o] = {} /\ refs'[Main] = refs[Main] \cup {o}
      /\ \A x \in Obj \ {o, Main} : refs'[x] = refs[x]
  BY <1>1 DEF TypeOK, StackInv
<1>3. \A x \in Obj : color'[x] = IF x = o THEN "white" ELSE color[x]
  BY <1>1 DEF TypeOK
<1>4. \A x \in Obj : age'[x] = IF x = o THEN "new" ELSE age[x]
  BY <1>1 DEF TypeOK
<1>5. Sound'
  <2>1. Reachable \cup {o} \in SUBSET Obj
    BY InUse
  <2>2. {Main} \cup mmudata' \cup armed' \subseteq Reachable \cup {o}
    BY <1>1, InUse
  <2>3. \A x \in Reachable \cup {o} :
          refs'[x] \subseteq Reachable \cup {o} /\ color'[x] # "free"
    BY <1>2, <1>3, InUse DEF heap
  <2> QED
    BY <2>1, <2>2, <2>3, StaysSound
<1>6. heap' = heap \cup {o}
  BY <1>3 DEF heap
<1>7. ThreadsListed'
  BY <1>1, <1>3, <1>4 DEF StackInv, ThreadsListed, IsWhite, Young, heap
<1>9. LeafStrings'
  BY <1>2, GenAssumption DEF StackInv, LeafStrings
<1>8. OpenOnStack'
  <2> SUFFICES ASSUME NEW uv \in Uvs, owner[uv] # Nil
               PROVE  {uv, owner[uv]} \subseteq heap' /\ refs'[uv] \subseteq refs'[owner[uv]]
    BY <1>1 DEF OpenOnStack
  <2>1. /\ uv \in heap /\ owner[uv] \in heap /\ refs[uv] \subseteq refs[owner[uv]]
        /\ uv # Main /\ uv # o /\ owner[uv] # o /\ owner[uv] \in Obj
    BY <1>1, GenAssumption DEF StackInv, OpenOnStack, TypeOK
  <2> QED
    BY <1>2, <1>6, <2>1
<1> QED
  BY <1>5, <1>6, <1>7, <1>8, <1>9 DEF StackInv

(* A step of the program keeps what is in use if it makes only references  *)
(* to reachable and to new objects N, marks no thread without listing it,  *)
(* and keeps the values of open upvalues on their stacks.                  *)
LEMMA UsedKeeps ==
  ASSUME TypeOK, Sound, StackInv, NEW N \in SUBSET Obj,
         mmudata' \cup armed' \subseteq Reachable \cup N,
         \A x \in Reachable : refs'[x] \subseteq Reachable \cup N,
         \A x \in N : refs'[x] \subseteq Reachable \cup N,
         \A x \in heap \cup N : color'[x] # "free",
         \A th \in Threads : \/ color'[th] = color[th] /\ age'[th] = age[th]
                             \/ color'[th] = "gray" /\ th \in gray',
         gray \cup grayagain \subseteq gray' \cup grayagain',
         \A uv \in Uvs : owner'[uv] # Nil =>
           {uv, owner'[uv]} \subseteq heap \cup N /\ refs'[uv] \subseteq refs'[owner'[uv]],
         \A s \in Strs : refs'[s] = {}
  PROVE  Sound' /\ StackInv'
<1> USE Kinds
<1>1. Sound'
  <2>1. Reachable \cup N \in SUBSET Obj /\ {Main} \cup mmudata' \cup armed' \subseteq Reachable \cup N
    BY InUse
  <2>2. \A x \in Reachable \cup N : refs'[x] \subseteq Reachable \cup N /\ color'[x] # "free"
    BY InUse
  <2> QED
    BY <2>1, <2>2, StaysSound
<1>2. heap \cup N \subseteq heap'
  BY DEF heap
<1>3. Main \in heap' /\ OpenOnStack'
  BY <1>2 DEF StackInv, OpenOnStack
<1>4. ThreadsListed'
  BY DEF StackInv, ThreadsListed, IsWhite, Young, heap
<1> QED
  BY <1>1, <1>3, <1>4 DEF StackInv, LeafStrings

(* A step that only changes references.                                    *)
LEMMA RefsKeep ==
  ASSUME TypeOK, Sound, StackInv, UNCHANGED <<owner, gcvars, mmudata>>,
         armed' \subseteq armed \cup Reachable,
         \A x \in Reachable : refs'[x] \subseteq Reachable,
         \A uv \in Uvs : owner[uv] # Nil => refs'[uv] \subseteq refs'[owner[uv]],
         \A s \in Strs : refs'[s] = {}
  PROVE  Sound' /\ StackInv'
<1>1. mmudata' \cup armed' \subseteq Reachable \cup {}
  BY InUse
<1>2. \A uv \in Uvs : owner'[uv] # Nil =>
        {uv, owner'[uv]} \subseteq heap \cup {} /\ refs'[uv] \subseteq refs'[owner'[uv]]
  BY DEF StackInv, OpenOnStack
<1>3. \A x \in heap \cup {} : color'[x] # "free"
  BY DEF gcvars, heap
<1> QED
  BY <1>1, <1>2, <1>3, UsedKeeps DEF gcvars

(* Values of a stack that grows are still on it.                           *)
LEMMA PushKeeps ==
  ASSUME TypeOK, Sound, StackInv, UNCHANGED <<owner, gcvars, mmudata, armed>>,
         NEW th \in Threads, NEW x \in Reachable, refs' = Push(th, x)
  PROVE  Sound' /\ StackInv'
<1> USE Kinds
<1>1. \A o \in Obj : refs'[o] = IF o = th THEN refs[o] \cup {x} ELSE refs[o]
  BY DEF TypeOK, Push
<1>2. \A uv \in Uvs : owner[uv] # Nil => refs'[uv] \subseteq refs'[owner[uv]]
  <2> SUFFICES ASSUME NEW uv \in Uvs, owner[uv] # Nil
               PROVE  refs'[uv] \subseteq refs'[owner[uv]]
    OBVIOUS
  <2>1. refs[uv] \subseteq refs[owner[uv]] /\ uv # th /\ owner[uv] \in Obj
    BY GenAssumption DEF StackInv, OpenOnStack, TypeOK
  <2> QED
    BY <1>1, <2>1
<1>3. \A o \in Reachable : refs'[o] \subseteq Reachable
  BY <1>1, InUse
<1>4. \A s \in Strs : refs'[s] = {}
  BY <1>1, GenAssumption DEF StackInv, LeafStrings
<1> QED
  BY <1>2, <1>3, <1>4, RefsKeep

(* What is loaded from a reachable object is reachable.                    *)
LEMMA LoadKeeps ==
  ASSUME TypeOK, Sound, StackInv, NEW o \in Obj, NEW x \in Obj, Load(o, x)
  PROVE  Sound' /\ StackInv'
<1>1. o \in Reachable
  BY StacksInUse DEF Load, Stacks, Stack
<1>2. x \in Reachable
  BY <1>1, InUse DEF Load
<1> QED
  BY <1>2, Kinds, PushKeeps DEF Load, gcvars, finvars

(* A value of the main stack is reachable.                                 *)
LEMMA PushToKeeps ==
  ASSUME TypeOK, Sound, StackInv, NEW th \in Threads, NEW x \in Obj, PushTo(th, x)
  PROVE  Sound' /\ StackInv'
<1>1. x \in Reachable
  BY StacksInUse DEF PushTo, Stacks, Stack
<1> QED
  BY <1>1, PushKeeps DEF PushTo, gcvars, finvars

(* A value that an open upvalue of the stack captures is not removed.      *)
LEMMA PopKeeps ==
  ASSUME TypeOK, Sound, StackInv, NEW th \in Threads, NEW x \in Obj, Pop(th, x)
  PROVE  Sound' /\ StackInv'
<1> USE Kinds
<1>1. \A o \in Obj : refs'[o] = IF o = th THEN refs[o] \ {x} ELSE refs[o]
  BY DEF TypeOK, Pop
<1>2. \A uv \in Uvs : owner[uv] # Nil => refs'[uv] \subseteq refs'[owner[uv]]
  <2> SUFFICES ASSUME NEW uv \in Uvs, owner[uv] # Nil
               PROVE  refs'[uv] \subseteq refs'[owner[uv]]
    OBVIOUS
  <2>1. refs[uv] \subseteq refs[owner[uv]] /\ uv # th /\ owner[uv] \in Obj
    BY GenAssumption DEF StackInv, OpenOnStack, TypeOK
  <2>2. owner[uv] = th => x \notin refs[uv]
    BY DEF Pop, Captured, OpenUvsOf
  <2> QED
    BY <1>1, <2>1, <2>2
<1>3. \A o \in Reachable : refs'[o] \subseteq Reachable
  BY <1>1, InUse
<1>4. \A s \in Strs : refs'[s] = {}
  BY <1>1, GenAssumption DEF StackInv, LeafStrings
<1> QED
  BY <1>2, <1>3, <1>4, RefsKeep DEF Pop, gcvars, finvars

(* What gets a finalizer is reachable.                                     *)
LEMMA ArmKeeps ==
  ASSUME TypeOK, Sound, StackInv, NEW t \in Armable, Arm(t)
  PROVE  Sound' /\ StackInv'
<1>1. t \in Reachable
  BY StacksInUse DEF Arm, Stacks, Stack
<1>2. /\ refs' = refs /\ owner' = owner /\ UNCHANGED gcvars /\ mmudata' = mmudata
      /\ armed' \subseteq armed \cup Reachable
  BY <1>1 DEF Arm, heapvars
<1>3. \A uv \in Uvs : owner[uv] # Nil => refs'[uv] \subseteq refs'[owner[uv]]
  BY <1>2 DEF StackInv, OpenOnStack
<1> QED
  BY <1>2, <1>3, InUse, RefsKeep DEF StackInv, LeafStrings

(* A string that is found holds nothing.                                   *)
LEMMA InternKeeps ==
  ASSUME TypeOK, Sound, StackInv, NEW s \in Strs, Intern(s)
  PROVE  Sound' /\ StackInv'
<1> USE Kinds DEF gcvars, finvars
<1>1. /\ \A o \in Obj : refs'[o] = IF o = Main THEN refs[o] \cup {s} ELSE refs[o]
      /\ UNCHANGED <<owner, color, age, gray, grayagain, armed, mmudata>> /\ s \in heap
  BY DEF TypeOK, Intern, Push
<1>2. \A x \in Strs : refs'[x] = {}
  BY <1>1, GenAssumption DEF StackInv, LeafStrings
<1>3. \A uv \in Uvs : owner'[uv] # Nil =>
        {uv, owner'[uv]} \subseteq heap /\ refs'[uv] \subseteq refs'[owner'[uv]]
  <2> SUFFICES ASSUME NEW uv \in Uvs, owner[uv] # Nil
               PROVE  {uv, owner[uv]} \subseteq heap /\ refs'[uv] \subseteq refs'[owner[uv]]
    BY <1>1
  <2>1. /\ {uv, owner[uv]} \subseteq heap /\ refs[uv] \subseteq refs[owner[uv]]
        /\ uv # Main /\ owner[uv] \in Obj
    BY GenAssumption DEF StackInv, OpenOnStack, TypeOK
  <2> QED
    BY <1>1, <2>1
<1> DEFINE N == {s}
<1>4. \A x \in Reachable : refs'[x] \subseteq Reachable \cup N
  BY <1>1, InUse
<1>5. \A x \in N : refs'[x] \subseteq Reachable \cup N
  BY <1>2
<1>6. \A x \in heap \cup N : color'[x] # "free"
  BY <1>1 DEF heap
<1>7. mmudata' \cup armed' \subseteq Reachable \cup N
  BY <1>1, InUse
<1>8. \A uv \in Uvs : owner'[uv] # Nil =>
        {uv, owner'[uv]} \subseteq heap \cup N /\ refs'[uv] \subseteq refs'[owner'[uv]]
  BY <1>3
<1>9. N \in SUBSET Obj
  OBVIOUS
<1> HIDE DEF N
<1> QED
  BY <1>1, <1>2, <1>4, <1>5, <1>6, <1>7, <1>8, <1>9, UsedKeeps

(* An upvalue that a new closure shares is open on a stack in use or       *)
(* reachable.                                                              *)
LEMMA ShareClosureKeeps ==
  ASSUME TypeOK, Sound, StackInv, NEW f \in Funcs, NEW uv \in Uvs, NEW th \in Threads,
         ShareClosure(f, uv, th)
  PROVE  Sound' /\ StackInv'
<1> USE Kinds DEF finvars
<1>1. /\ th \in Stacks /\ f \notin heap /\ uv \in heap
      /\ owner[uv] = th \/ \E p \in Stack \cap Funcs : uv \in refs[p]
      /\ UNCHANGED <<owner, gray, grayagain, armed, mmudata>>
      /\ color' = [color EXCEPT ![f] = "white"] /\ age' = [age EXCEPT ![f] = "new"]
      /\ refs' = [refs EXCEPT ![f] = {uv}, ![th] = @ \cup {f}]
  BY DEF ShareClosure
<1>2. f \notin Threads /\ f \notin Uvs /\ f \notin Strs /\ uv \notin Threads /\ uv \notin Strs
      /\ f # th /\ uv # th /\ uv # f /\ th \notin Strs /\ f \in Obj /\ uv \in Obj /\ th \in Obj
  BY GenAssumption
<1>3. /\ refs'[f] = {uv} /\ refs'[th] = refs[th] \cup {f}
      /\ \A x \in Obj \ {f, th} : refs'[x] = refs[x]
  BY <1>1, <1>2 DEF TypeOK
<1>4. \A x \in Obj \ {f} : color'[x] = color[x] /\ age'[x] = age[x]
  BY <1>1 DEF TypeOK
<1>5. color'[f] = "white"
  BY <1>1, <1>2 DEF TypeOK
<1>6. th \in Reachable /\ refs[uv] \subseteq Reachable
  <2>1. th \in Reachable /\ refs[th] \subseteq Reachable
    BY <1>1, StacksInUse
  <2>2. CASE owner[uv] = th
    BY <2>1, <2>2, <1>2 DEF StackInv, OpenOnStack
  <2>3. CASE \E p \in Stack \cap Funcs : uv \in refs[p]
    <3>1. Stack \subseteq Reachable
      BY StacksInUse DEF Stacks, Stack
    <3> QED
      BY <2>1, <2>3, <3>1, InUse
  <2> QED
    BY <1>1, <2>1, <2>2, <2>3
<1> DEFINE N == {f, uv}
<1>7. \A u \in Uvs : owner'[u] # Nil =>
        {u, owner'[u]} \subseteq heap \cup N /\ refs'[u] \subseteq refs'[owner'[u]]
  <2> SUFFICES ASSUME NEW u \in Uvs, owner[u] # Nil
               PROVE  {u, owner[u]} \subseteq heap \cup N /\ refs'[u] \subseteq refs'[owner[u]]
    BY <1>1
  <2>1. /\ {u, owner[u]} \subseteq heap /\ refs[u] \subseteq refs[owner[u]]
        /\ owner[u] \in Threads /\ u # f /\ u # th /\ owner[u] # f
    BY <1>2, GenAssumption DEF StackInv, OpenOnStack, TypeOK
  <2> QED
    BY <1>3, <2>1
<1>8. \A s \in Strs : refs'[s] = {}
  BY <1>2, <1>3 DEF StackInv, LeafStrings
<1>9. \A x \in Reachable : refs'[x] \subseteq Reachable \cup N
  BY <1>2, <1>3, InUse
<1>10. \A x \in N : refs'[x] \subseteq Reachable \cup N
  BY <1>2, <1>3, <1>6
<1>11. \A x \in heap \cup N : color'[x] # "free"
  BY <1>1, <1>2, <1>4, <1>5 DEF heap
<1>12. mmudata' \cup armed' \subseteq Reachable \cup N
  BY <1>1, InUse
<1>13. N \in SUBSET Obj
  BY <1>2
<1>14. \A t \in Threads : color'[t] = color[t] /\ age'[t] = age[t]
  BY <1>2, <1>4
<1>15. gray \cup grayagain \subseteq gray' \cup grayagain'
  BY <1>1
<1> HIDE DEF N
<1> QED
  BY <1>7, <1>8, <1>9, <1>10, <1>11, <1>12, <1>13, <1>14, <1>15, UsedKeeps

(* A new open upvalue holds a value of the stack it points into.           *)
LEMMA NewClosureKeeps ==
  ASSUME TypeOK, Sound, StackInv, NEW f \in Funcs, NEW uv \in Uvs, NEW th \in Threads,
         NEW x \in Obj, NewClosure(f, uv, th, x)
  PROVE  Sound' /\ StackInv'
<1> USE Kinds DEF finvars
<1>1. /\ th \in Stacks /\ f \notin heap /\ uv \notin heap /\ x \in refs[th]
      /\ UNCHANGED <<gray, grayagain, armed, mmudata>>
      /\ owner' = [owner EXCEPT ![uv] = th]
      /\ color' = [color EXCEPT ![f] = "white", ![uv] = "white"]
      /\ age' = [age EXCEPT ![f] = "new", ![uv] = "new"]
      /\ refs' = [refs EXCEPT ![f] = {uv}, ![uv] = {x}, ![th] = @ \cup {f}]
  BY DEF NewClosure
<1>2. f \notin Threads /\ f \notin Uvs /\ f \notin Strs /\ uv \notin Threads /\ uv \notin Strs
      /\ f # th /\ uv # th /\ uv # f /\ th \notin Strs /\ f \in Obj /\ uv \in Obj /\ th \in Obj
  BY GenAssumption
<1>3. /\ refs'[f] = {uv} /\ refs'[uv] = {x} /\ refs'[th] = refs[th] \cup {f}
      /\ \A o \in Obj \ {f, uv, th} : refs'[o] = refs[o]
  BY <1>1, <1>2 DEF TypeOK
<1>4. \A o \in Obj \ {f, uv} : color'[o] = color[o] /\ age'[o] = age[o]
  BY <1>1 DEF TypeOK
<1>5. color'[f] = "white" /\ color'[uv] = "white"
  BY <1>1, <1>2 DEF TypeOK
<1>6. th \in Reachable /\ x \in Reachable
  BY <1>1, StacksInUse
<1> DEFINE N == {f, uv}
<1>7. \A u \in Uvs : owner'[u] # Nil =>
        {u, owner'[u]} \subseteq heap \cup N /\ refs'[u] \subseteq refs'[owner'[u]]
  <2> SUFFICES ASSUME NEW u \in Uvs, owner'[u] # Nil
               PROVE  {u, owner'[u]} \subseteq heap \cup N /\ refs'[u] \subseteq refs'[owner'[u]]
    OBVIOUS
  <2>1. CASE u = uv
    <3>1. owner'[u] = th
      BY <1>1, <2>1 DEF TypeOK
    <3>2. th \in heap
      BY <1>6, InUse
    <3> QED
      BY <2>1, <3>1, <3>2, <1>1, <1>2, <1>3
  <2>2. CASE u # uv
    <3>1. owner'[u] = owner[u]
      BY <1>1, <2>2 DEF TypeOK
    <3>2. /\ {u, owner[u]} \subseteq heap /\ refs[u] \subseteq refs[owner[u]]
          /\ owner[u] \in Threads /\ u # f /\ u # th
      BY <1>2, <3>1, GenAssumption DEF StackInv, OpenOnStack, TypeOK
    <3> QED
      BY <1>2, <1>3, <2>2, <3>1, <3>2
  <2> QED
    BY <2>1, <2>2
<1>8. \A s \in Strs : refs'[s] = {}
  BY <1>2, <1>3 DEF StackInv, LeafStrings
<1>9. \A o \in Reachable : refs'[o] \subseteq Reachable \cup N
  BY <1>1, <1>2, <1>3, <1>6, InUse
<1>10. \A o \in N : refs'[o] \subseteq Reachable \cup N
  BY <1>2, <1>3, <1>6
<1>11. \A o \in heap \cup N : color'[o] # "free"
  BY <1>1, <1>2, <1>4, <1>5 DEF heap
<1>12. mmudata' \cup armed' \subseteq Reachable \cup N
  BY <1>1, InUse
<1>13. N \in SUBSET Obj
  BY <1>2
<1>14. \A t \in Threads : color'[t] = color[t] /\ age'[t] = age[t]
  BY <1>2, <1>4
<1>15. gray \cup grayagain \subseteq gray' \cup grayagain'
  BY <1>1
<1> HIDE DEF N
<1> QED
  BY <1>7, <1>8, <1>9, <1>10, <1>11, <1>12, <1>13, <1>14, <1>15, UsedKeeps

(* Only a white thread is marked by gc_mark, and then it is gray.          *)
LEMMA MarkedThreads ==
  ASSUME TypeOK, NEW S \in SUBSET Obj, NEW th \in Threads, th \in GcMark(S)
  PROVE  MarkColor(th) = "gray" /\ th \in HasGcList
<1>1. th \notin Uvs
  BY GenAssumption
<1> QED
  BY <1>1, Kinds DEF MarkColor

(* The back barrier makes nothing free and keeps threads alone.            *)
LEMMA BackBarrier ==
  ASSUME TypeOK, NEW t \in Tabs,
         BarrierBack(t) \/ UNCHANGED <<color, age, grayagain>>
  PROVE  /\ \A x \in heap : color'[x] # "free"
         /\ \A th \in Threads : color'[th] = color[th] /\ age'[th] = age[th]
         /\ grayagain \subseteq grayagain'
<1>1. \A th \in Threads : th # t
  BY GenAssumption
<1>2. CASE BarrierBack(t)
  BY <1>1, <1>2, Kinds DEF BarrierBack, TypeOK, heap
<1>3. CASE UNCHANGED <<color, age, grayagain>>
  BY <1>3 DEF heap
<1> QED
  BY <1>2, <1>3

(* The forward barrier makes nothing free and lists the threads it marks.  *)
LEMMA ForwardBarrier ==
  ASSUME TypeOK, NEW o \in Obj \ Threads, NEW v \in Obj, BarrierForward(o, v)
  PROVE  /\ \A x \in heap : color'[x] # "free"
         /\ \A th \in Threads : \/ color'[th] = color[th] /\ age'[th] = age[th]
                                \/ color'[th] = "gray" /\ th \in gray'
         /\ gray \subseteq gray'
<1> USE Kinds
<1>1. CASE IsBlack(o) /\ IsWhite(v) /\ phase # "full"
  <2>1. PICK M : /\ M = GcMark({v})
                 /\ color' = [x \in Obj |-> IF x \in M THEN MarkColor(x) ELSE color[x]]
                 /\ gray' = gray \cup (M \cap HasGcList)
                 /\ age' = [age EXCEPT ![v] = IF IsOld(o) /\ ~IsOld(v) THEN "old0" ELSE @]
    BY <1>1 DEF BarrierForward
  <2>2. v \in M
    BY <1>1, <2>1, GcMarkSpec DEF WhiteSet
  <2>3. \A th \in Threads : th \in M => MarkColor(th) = "gray" /\ th \in HasGcList
    BY <2>1, MarkedThreads
  <2>4. \A th \in Threads : th # v => age'[th] = age[th]
    BY <2>1 DEF TypeOK
  <2>5. \A x \in Obj : color'[x] = IF x \in M THEN MarkColor(x) ELSE color[x]
    BY <2>1
  <2>6. \A x \in Obj : MarkColor(x) # "free"
    BY DEF MarkColor
  <2>7. heap \subseteq Obj /\ \A x \in heap : color[x] # "free"
    BY DEF heap
  <2>8. gray' = gray \cup (M \cap HasGcList)
    BY <2>1
  <2>9. \A x \in heap : color'[x] # "free"
    BY <2>5, <2>6, <2>7
  <2>10. ASSUME NEW th \in Threads
         PROVE  \/ color'[th] = color[th] /\ age'[th] = age[th]
                \/ color'[th] = "gray" /\ th \in gray'
    BY <2>2, <2>3, <2>4, <2>5, <2>8
  <2> QED
    BY <2>8, <2>9, <2>10
<1>2. CASE IsBlack(o) /\ IsWhite(v) /\ phase = "full"
  <2>1. color' = [color EXCEPT ![o] = "white"] /\ UNCHANGED <<age, gray>>
    BY <1>2 DEF BarrierForward
  <2> QED
    BY <2>1 DEF TypeOK, heap
<1>3. CASE ~(IsBlack(o) /\ IsWhite(v))
  BY <1>3 DEF BarrierForward, heap
<1> QED
  BY <1>1, <1>2, <1>3

(* Stores into tables and functions.                                       *)
LEMMA StoreKeeps ==
  ASSUME TypeOK, Sound, StackInv, NEW o \in Tabs \cup Funcs, NEW Stored, Stored \subseteq Reachable,
         UNCHANGED <<owner, armed, mmudata>>,
         \A x \in Obj \ {o} : refs'[x] = refs[x],
         refs'[o] \subseteq refs[o] \cup Stored,
         \A x \in heap : color'[x] # "free",
         \A th \in Threads : \/ color'[th] = color[th] /\ age'[th] = age[th]
                             \/ color'[th] = "gray" /\ th \in gray',
         gray \cup grayagain \subseteq gray' \cup grayagain'
  PROVE  Sound' /\ StackInv'
<1> USE Kinds
<1> DEFINE N == {}
<1>1. \A x \in Reachable : refs'[x] \subseteq Reachable \cup N
  BY InUse
<1>2. \A u \in Uvs : owner'[u] # Nil =>
        {u, owner'[u]} \subseteq heap \cup N /\ refs'[u] \subseteq refs'[owner'[u]]
  <2> SUFFICES ASSUME NEW u \in Uvs, owner[u] # Nil
               PROVE  {u, owner[u]} \subseteq heap /\ refs'[u] \subseteq refs'[owner[u]]
    OBVIOUS
  <2>1. /\ {u, owner[u]} \subseteq heap /\ refs[u] \subseteq refs[owner[u]]
        /\ u # o /\ owner[u] # o /\ owner[u] \in Obj
    BY GenAssumption DEF StackInv, OpenOnStack, TypeOK
  <2> QED
    BY <2>1
<1>3. \A s \in Strs : refs'[s] = {}
  BY GenAssumption DEF StackInv, LeafStrings
<1>4. mmudata' \cup armed' \subseteq Reachable \cup N
  BY InUse
<1>5. N \in SUBSET Obj /\ (\A x \in N : refs'[x] \subseteq Reachable \cup N)
      /\ \A x \in heap \cup N : color'[x] # "free"
  OBVIOUS
<1> HIDE DEF N
<1> QED
  BY <1>1, <1>2, <1>3, <1>4, <1>5, UsedKeeps

(* A table store with its barrier.                                         *)
LEMMA TabStoreKeeps ==
  ASSUME TypeOK, Sound, StackInv, NEW t \in Tabs, NEW old \in Obj \cup {Nil}, NEW v \in Obj,
         TabStore(t, old, v)
  PROVE  Sound' /\ StackInv'
<1> USE Kinds
<1>1. {v} \subseteq Reachable
  BY StacksInUse DEF TabStore, Stacks, Stack
<1>2. /\ \A x \in Obj \ {t} : refs'[x] = refs[x]
      /\ refs'[t] \subseteq refs[t] \cup {v}
  BY DEF TabStore, TypeOK
<1>3. /\ \A x \in heap : color'[x] # "free"
      /\ \A th \in Threads : color'[th] = color[th] /\ age'[th] = age[th]
      /\ grayagain \subseteq grayagain'
  BY BackBarrier DEF TabStore
<1>4. gray' = gray /\ UNCHANGED <<owner, armed, mmudata>>
  BY DEF TabStore, finvars
<1> QED
  BY <1>1, <1>2, <1>3, <1>4, StoreKeeps

(* Clearing an entry.                                                      *)
LEMMA TabClearKeeps ==
  ASSUME TypeOK, Sound, StackInv, NEW t \in Tabs, NEW old \in Obj \cup {Nil}, TabClear(t, old)
  PROVE  Sound' /\ StackInv'
<1> USE Kinds
<1>1. /\ \A x \in Obj \ {t} : refs'[x] = refs[x]
      /\ refs'[t] \subseteq refs[t] \cup {}
  BY DEF TabClear, TypeOK
<1>2. /\ \A x \in heap : color'[x] # "free"
      /\ \A th \in Threads : color'[th] = color[th] /\ age'[th] = age[th]
      /\ grayagain \subseteq grayagain'
  BY BackBarrier DEF TabClear
<1>3. gray' = gray /\ UNCHANGED <<owner, armed, mmudata>>
  BY DEF TabClear, finvars
<1> QED
  BY <1>1, <1>2, <1>3, StoreKeeps

(* A store into a function with the forward barrier.                       *)
LEMMA FuncStoreKeeps ==
  ASSUME TypeOK, Sound, StackInv, NEW f \in Funcs, NEW old \in Obj \cup {Nil}, NEW v \in Obj,
         FuncStore(f, old, v)
  PROVE  Sound' /\ StackInv'
<1> USE Kinds
<1>1. {v} \subseteq Reachable
  BY StacksInUse DEF FuncStore, Stacks, Stack
<1>2. /\ \A x \in Obj \ {f} : refs'[x] = refs[x]
      /\ refs'[f] \subseteq refs[f] \cup {v}
  BY DEF FuncStore, TypeOK
<1>3. f \in Obj \ Threads /\ BarrierForward(f, v)
  BY GenAssumption DEF FuncStore
<1>4. /\ \A x \in heap : color'[x] # "free"
      /\ \A th \in Threads : \/ color'[th] = color[th] /\ age'[th] = age[th]
                             \/ color'[th] = "gray" /\ th \in gray'
      /\ gray \subseteq gray'
  BY <1>3, ForwardBarrier
<1>5. grayagain' = grayagain /\ UNCHANGED <<owner, armed, mmudata>>
  BY DEF FuncStore, finvars
<1> QED
  BY <1>1, <1>2, <1>4, <1>5, StoreKeeps

(* An upvalue is set: the slot it points into if it is open, itself with   *)
(* the forward barrier if it is closed.                                    *)
LEMMA SetUvKeeps ==
  ASSUME TypeOK, Sound, StackInv, NEW uv \in Uvs, NEW old \in Obj \cup {Nil}, NEW v \in Obj,
         SetUv(uv, old, v)
  PROVE  Sound' /\ StackInv'
<1> USE Kinds
<1> DEFINE N == {}
<1>1. uv \in Reachable /\ v \in Reachable
  <2>1. Stack \subseteq Reachable
    BY StacksInUse DEF Stacks, Stack
  <2> QED
    BY <2>1, InUse DEF SetUv
<1>2. uv \in Obj \ Threads /\ uv \notin Strs
  BY GenAssumption
<1>3. UNCHANGED <<owner, grayagain, armed, mmudata>>
  BY DEF SetUv, finvars
<1>4. /\ \A x \in heap : color'[x] # "free"
      /\ \A th \in Threads : \/ color'[th] = color[th] /\ age'[th] = age[th]
                             \/ color'[th] = "gray" /\ th \in gray'
      /\ gray \cup grayagain \subseteq gray' \cup grayagain'
  <2>1. CASE IsOpen(uv)
    BY <2>1, <1>3 DEF SetUv, heap
  <2>2. CASE ~IsOpen(uv)
    BY <2>2, <1>2, <1>3, ForwardBarrier DEF SetUv
  <2> QED
    BY <2>1, <2>2
<1>5. /\ \A x \in Reachable : refs'[x] \subseteq Reachable
      /\ \A u \in Uvs : owner[u] # Nil => refs'[u] \subseteq refs'[owner[u]]
      /\ \A s \in Strs : refs'[s] = {}
  <2>1. CASE IsOpen(uv)
    <3> DEFINE th == owner[uv]
    <3>1. th \in Threads /\ th # uv /\ th \in Obj /\ th # Nil
      BY <2>1, GenAssumption DEF IsOpen, TypeOK
    <3>2. /\ refs' = [refs EXCEPT ![uv] = {v}, ![th] = (@ \ {old}) \cup {v}]
          /\ \A u \in OpenUvsOf(th) \ {uv} : old \notin refs[u]
      BY <2>1 DEF SetUv
    <3> HIDE DEF th
    <3>3. /\ refs'[uv] = {v} /\ refs'[th] = (refs[th] \ {old}) \cup {v}
          /\ \A x \in Obj \ {uv, th} : refs'[x] = refs[x]
      BY <1>2, <3>1, <3>2 DEF TypeOK
    <3>4. ASSUME NEW u \in Uvs, owner[u] # Nil
          PROVE  refs'[u] \subseteq refs'[owner[u]]
      <4>1. /\ refs[u] \subseteq refs[owner[u]] /\ owner[u] \in Threads
            /\ u # th /\ owner[u] # uv
        BY <3>4, <3>1, GenAssumption DEF StackInv, OpenOnStack, TypeOK
      <4>2. CASE u = uv
        BY <4>2, <3>3 DEF th
      <4>3. CASE u # uv /\ owner[u] = th
        <5>1. old \notin refs[u]
          BY <4>3, <3>2 DEF OpenUvsOf
        <5> QED
          BY <4>1, <4>3, <5>1, <3>3
      <4>4. CASE u # uv /\ owner[u] # th
        BY <4>1, <4>4, <3>3
      <4> QED
        BY <4>2, <4>3, <4>4
    <3>5. \A x \in Reachable : refs'[x] \subseteq Reachable
      BY <1>1, <3>3, InUse
    <3>6. \A s \in Strs : refs'[s] = {}
      BY <1>2, <3>1, <3>3, GenAssumption DEF StackInv, LeafStrings
    <3> QED
      BY <3>4, <3>5, <3>6
  <2>2. CASE ~IsOpen(uv)
    <3>1. refs' = [refs EXCEPT ![uv] = {v}] /\ owner[uv] = Nil
      BY <2>2 DEF SetUv, IsOpen
    <3>2. refs'[uv] = {v} /\ \A x \in Obj \ {uv} : refs'[x] = refs[x]
      BY <1>2, <3>1 DEF TypeOK
    <3>3. \A u \in Uvs : owner[u] # Nil => refs'[u] \subseteq refs'[owner[u]]
      BY <1>2, <3>1, <3>2, GenAssumption DEF StackInv, OpenOnStack, TypeOK
    <3>4. \A x \in Reachable : refs'[x] \subseteq Reachable
      BY <1>1, <3>2, InUse
    <3> QED
      BY <1>2, <3>2, <3>3, <3>4 DEF StackInv, LeafStrings
  <2> QED
    BY <2>1, <2>2
<1>6. /\ \A x \in Reachable : refs'[x] \subseteq Reachable \cup N
      /\ \A x \in heap \cup N : color'[x] # "free"
      /\ N \in SUBSET Obj /\ \A x \in N : refs'[x] \subseteq Reachable \cup N
  BY <1>4, <1>5
<1>7. mmudata' \cup armed' \subseteq Reachable \cup N
  BY <1>3, InUse
<1>8. \A u \in Uvs : owner'[u] # Nil =>
        {u, owner'[u]} \subseteq heap \cup N /\ refs'[u] \subseteq refs'[owner'[u]]
  BY <1>3, <1>5 DEF StackInv, OpenOnStack
<1> HIDE DEF N
<1> QED
  BY <1>4, <1>5, <1>6, <1>7, <1>8, UsedKeeps

(* An upvalue is closed.                                                   *)
LEMMA CloseUvKeeps ==
  ASSUME TypeOK, Sound, StackInv, NEW uv \in Uvs, CloseUv(uv)
  PROVE  Sound' /\ StackInv'
<1> USE Kinds
<1> DEFINE N == {}
<1>1. UNCHANGED <<refs, grayagain, armed, mmudata>> /\ owner' = [owner EXCEPT ![uv] = Nil]
      /\ age' = [age EXCEPT ![uv] = "new"]
  BY DEF CloseUv, finvars
<1>2. \A th \in Threads : th # uv /\ age'[th] = age[th]
  BY <1>1, GenAssumption DEF TypeOK
<1>3. /\ \A x \in heap : color'[x] # "free"
      /\ \A th \in Threads : color'[th] = color[th] \/ (color'[th] = "gray" /\ th \in gray')
      /\ gray \subseteq gray'
  <2>1. CASE IsWhite(uv)
    BY <2>1 DEF CloseUv, heap
  <2>2. CASE ~IsWhite(uv)
    <3>1. PICK M : /\ M = GcMark(refs[uv])
                   /\ color' = [o \in Obj |-> IF o = uv THEN "black"
                                              ELSE IF o \in M THEN MarkColor(o) ELSE color[o]]
                   /\ gray' = gray \cup (M \cap HasGcList)
      BY <2>2 DEF CloseUv
    <3>2. \A th \in Threads : th \in M => MarkColor(th) = "gray" /\ th \in HasGcList
      BY <3>1, MarkedThreads DEF TypeOK
    <3>3. \A x \in Obj : MarkColor(x) # "free"
      BY DEF MarkColor
    <3>4. \A x \in Obj : color'[x] = IF x = uv THEN "black"
                                     ELSE IF x \in M THEN MarkColor(x) ELSE color[x]
      BY <3>1
    <3>5. heap \subseteq Obj /\ \A x \in heap : color[x] # "free"
      BY DEF heap
    <3>6. gray' = gray \cup (M \cap HasGcList)
      BY <3>1
    <3> QED
      BY <1>2, <3>2, <3>3, <3>4, <3>5, <3>6
  <2> QED
    BY <2>1, <2>2
<1>4. /\ \A x \in Reachable : refs'[x] \subseteq Reachable \cup N
      /\ \A x \in heap \cup N : color'[x] # "free"
      /\ N \in SUBSET Obj /\ \A x \in N : refs'[x] \subseteq Reachable \cup N
      /\ mmudata' \cup armed' \subseteq Reachable \cup N
  BY <1>1, <1>3, InUse
<1>5. \A u \in Uvs : owner'[u] # Nil =>
        {u, owner'[u]} \subseteq heap \cup N /\ refs'[u] \subseteq refs'[owner'[u]]
  <2>1. \A u \in Uvs : owner'[u] = IF u = uv THEN Nil ELSE owner[u]
    BY <1>1 DEF TypeOK
  <2> QED
    BY <1>1, <2>1 DEF StackInv, OpenOnStack
<1>6. \A s \in Strs : refs'[s] = {}
  BY <1>1 DEF StackInv, LeafStrings
<1>7. /\ gray \cup grayagain \subseteq gray' \cup grayagain'
      /\ \A th \in Threads : \/ color'[th] = color[th] /\ age'[th] = age[th]
                             \/ color'[th] = "gray" /\ th \in gray'
  BY <1>1, <1>2, <1>3
<1> HIDE DEF N
<1> QED
  BY <1>4, <1>5, <1>6, <1>7, UsedKeeps

(* Whatever the program does, what it can reach stays allocated.           *)
LEMMA MutatorKeeps ==
  ASSUME TypeOK, Sound, StackInv, Mutator
  PROVE  Sound' /\ StackInv'
<1>1. CASE FinReturn
  <2>1. UNCHANGED <<refs, owner, gcvars, armed, mmudata>>
    BY <1>1 DEF FinReturn, heapvars
  <2>2. armed' \subseteq armed \cup Reachable /\ \A x \in Reachable : refs'[x] \subseteq Reachable
    BY <2>1, InUse
  <2>3. /\ \A uv \in Uvs : owner[uv] # Nil => refs'[uv] \subseteq refs'[owner[uv]]
        /\ \A s \in Strs : refs'[s] = {}
    BY <2>1 DEF StackInv, OpenOnStack, LeafStrings
  <2> QED
    BY <2>1, <2>2, <2>3, RefsKeep
<1> QED
  BY <1>1, NewKeeps, InternKeeps, ShareClosureKeeps, NewClosureKeeps, LoadKeeps, PopKeeps,
     PushToKeeps, TabClearKeeps, TabStoreKeeps, FuncStoreKeeps, CloseUvKeeps, SetUvKeeps,
     ArmKeeps DEF Mutator

(* A finalizer is called with a table that is in use already.              *)
LEMMA FinalizeKeeps ==
  ASSUME TypeOK, Sound, StackInv, NEW o \in Tabs, Finalize(o)
  PROVE  Sound' /\ StackInv'
<1> USE Kinds
<1> DEFINE N == {}
<1>1. /\ o \in mmudata /\ mmudata' = mmudata \ {o} /\ UNCHANGED <<owner, gray, grayagain, armed>>
      /\ color' = [color EXCEPT ![o] = "white"] /\ age' = [age EXCEPT ![o] = "new"]
      /\ refs' = Push(Main, o) \/ refs' = refs
  BY DEF Finalize
<1>2. o \in Reachable /\ o \notin Threads
  BY <1>1, InUse, GenAssumption
<1>3. /\ \A x \in Obj \ {Main} : refs'[x] = refs[x]
      /\ refs[Main] \subseteq refs'[Main] /\ refs'[Main] \subseteq refs[Main] \cup {o}
  BY <1>1 DEF Push, TypeOK
<1>4. \A x \in Obj : color'[x] = (IF x = o THEN "white" ELSE color[x])
  BY <1>1 DEF TypeOK
<1>5. \A th \in Threads : color'[th] = color[th] /\ age'[th] = age[th]
  BY <1>1, <1>2 DEF TypeOK
<1>6. /\ \A x \in Reachable : refs'[x] \subseteq Reachable \cup N
      /\ \A x \in heap \cup N : color'[x] # "free"
      /\ N \in SUBSET Obj /\ \A x \in N : refs'[x] \subseteq Reachable \cup N
      /\ mmudata' \cup armed' \subseteq Reachable \cup N
  BY <1>1, <1>2, <1>3, <1>4, InUse DEF heap
<1>7. \A u \in Uvs : owner'[u] # Nil =>
        {u, owner'[u]} \subseteq heap \cup N /\ refs'[u] \subseteq refs'[owner'[u]]
  <2> SUFFICES ASSUME NEW u \in Uvs, owner[u] # Nil
               PROVE  {u, owner[u]} \subseteq heap /\ refs'[u] \subseteq refs'[owner[u]]
    BY <1>1
  <2>1. /\ {u, owner[u]} \subseteq heap /\ refs[u] \subseteq refs[owner[u]]
        /\ u # Main /\ owner[u] \in Obj
    BY GenAssumption DEF StackInv, OpenOnStack, TypeOK
  <2> QED
    BY <1>3, <2>1
<1>8. \A s \in Strs : refs'[s] = {}
  BY <1>3, GenAssumption DEF StackInv, LeafStrings
<1> HIDE DEF N
<1> QED
  BY <1>1, <1>5, <1>6, <1>7, <1>8, UsedKeeps

(* Nothing moves when a minor collection ends.                             *)
LEMMA MinorDoneKeeps ==
  ASSUME TypeOK, Sound, StackInv, MinorDone
  PROVE  Sound' /\ StackInv'
<1>1. UNCHANGED <<refs, owner, gcvars, armed, mmudata>>
  BY DEF MinorDone, heapvars
<1>2. armed' \subseteq armed \cup Reachable /\ \A x \in Reachable : refs'[x] \subseteq Reachable
  BY <1>1, InUse
<1>3. /\ \A uv \in Uvs : owner[uv] # Nil => refs'[uv] \subseteq refs'[owner[uv]]
      /\ \A s \in Strs : refs'[s] = {}
  BY <1>1 DEF StackInv, OpenOnStack, LeafStrings
<1> QED
  BY <1>1, <1>2, <1>3, RefsKeep

\* What a full collection does, with the objects marked, separated and kept.
FullFrom(M1, F, Kept) ==
  /\ refs' = [o \in Obj |-> IF o \in Kept THEN refs[o] ELSE {}]
  /\ owner' = [uv \in Uvs |-> IF {uv, owner[uv]} \subseteq Kept THEN owner[uv] ELSE Nil]
  /\ color' = [o \in Obj |-> IF o \in F THEN "black"
                             ELSE IF o \in Kept THEN "white" ELSE "free"]
  /\ age' = [o \in Obj |-> "new"]
  /\ seg' = [o \in Obj |-> "off"]
  /\ grayagain' = Kept \cap Threads
  /\ armed' = armed \cap M1
  /\ mmudata' = F

(* A full collection keeps what it marks, and that is closed.              *)
LEMMA FullKeeps ==
  ASSUME TypeOK, StackInv, Full
  PROVE  Sound' /\ StackInv'
<1> USE Kinds
<1> DEFINE M1 == LeastClosed({Main}, Obj, Obj)
           F == (armed \cap heap) \ M1
           Kept == LeastClosed(M1 \cup F, Obj, Obj)
<1>0. M1 = LeastClosed({Main}, Obj, Obj) /\ F = (armed \cap heap) \ M1
      /\ Kept = LeastClosed(M1 \cup F, Obj, Obj)
  OBVIOUS
<1>1. FullFrom(M1, F, Kept)
  <2>1. \E m \in {LeastClosed({Main}, Obj, Obj)} :
        \E f \in {(armed \cap heap) \ m} :
        \E k \in {LeastClosed(m \cup f, Obj, Obj)} : FullFrom(m, f, k)
    BY DEF Full, FullFrom
  <2> QED
    BY <2>1
<1> HIDE DEF M1, F, Kept
<1>2. M1 \cup F \subseteq Kept /\ Kept \subseteq Obj /\ Main \in M1
  BY <1>0, LeastClosedContains DEF heap
<1>3. \A o \in Kept : refs[o] \subseteq Kept
  <2> SUFFICES ASSUME NEW o \in Kept, NEW x \in refs[o] PROVE x \in Kept
    OBVIOUS
  <2>1. o \in Obj /\ x \in Obj
    BY <1>2 DEF TypeOK
  <2> QED
    BY <1>0, <2>1, LeastClosedClosed
<1>4. \A o \in Obj : /\ refs'[o] = (IF o \in Kept THEN refs[o] ELSE {})
                     /\ color'[o] = "free" <=> o \notin Kept
                     /\ o \in Threads => color'[o] \in {"white", "free"}
                     /\ age'[o] = "new"
  <2>1. \A o \in F : o \in Kept /\ o \notin Threads
    BY <1>0, <1>2, GenAssumption DEF TypeOK
  <2> QED
    BY <1>1, <2>1 DEF FullFrom
<1>5. Sound'
  <2>1. Kept \in SUBSET Obj /\ {Main} \cup mmudata' \cup armed' \subseteq Kept
    BY <1>1, <1>2 DEF FullFrom
  <2>2. \A o \in Kept : refs'[o] \subseteq Kept /\ color'[o] # "free"
    BY <1>2, <1>3, <1>4
  <2> QED
    BY <2>1, <2>2, StaysSound
<1>6. heap' = Kept
  BY <1>2, <1>4 DEF heap
<1>7. ThreadsListed' /\ Main \in heap'
  BY <1>2, <1>4, <1>6 DEF ThreadsListed, heap, IsWhite, Young
<1>8. OpenOnStack' /\ LeafStrings'
  <2>1. \A uv \in Uvs : owner'[uv] # Nil => {uv, owner[uv]} \subseteq Kept /\ owner'[uv] = owner[uv]
    BY <1>1 DEF FullFrom
  <2> QED
    BY <1>2, <1>4, <1>6, <2>1 DEF OpenOnStack, LeafStrings, StackInv
<1> QED
  BY <1>5, <1>7, <1>8 DEF StackInv

(* Entering generational mode lists all threads.                           *)
LEMMA EnterKeeps ==
  ASSUME TypeOK, Sound, StackInv, Enter
  PROVE  Sound' /\ StackInv'
<1> USE Kinds
<1>1. /\ UNCHANGED <<refs, owner, armed, mmudata>> /\ grayagain' = Threads \cap heap
      /\ \A o \in Obj : /\ o \in heap => color'[o] # "free"
                        /\ o \notin heap => color'[o] = "free"
                        /\ o \in Threads \cap heap => color'[o] = "gray"
  BY GenAssumption DEF Enter, heapvars, TypeOK
<1>2. heap' = heap
  BY <1>1 DEF heap
<1>3. Sound'
  <2>1. Reachable \in SUBSET Obj /\ {Main} \cup mmudata' \cup armed' \subseteq Reachable
    BY <1>1, InUse
  <2>2. \A x \in Reachable : refs'[x] \subseteq Reachable /\ color'[x] # "free"
    BY <1>1, InUse
  <2> QED
    BY <2>1, <2>2, StaysSound
<1>4. ThreadsListed'
  BY <1>1, <1>2 DEF ThreadsListed, IsWhite
<1>5. OpenOnStack' /\ LeafStrings'
  BY <1>1, <1>2 DEF StackInv, OpenOnStack, LeafStrings
<1> QED
  BY <1>2, <1>3, <1>4, <1>5 DEF StackInv

(* Every thread that is not white is marked, and what a marked object      *)
(* refers to is not freed.                                                 *)
LEMMA MarkedStay ==
  ASSUME NEW F, NEW M, NEW Freed, NEW Kept, Sweeping(F, M, Freed, Kept), StackInv
  PROVE  /\ \A th \in Threads \cap heap : ~IsWhite(th) => th \in M
         /\ Main \in M /\ F \subseteq M
         /\ \A o \in M : o \notin Freed /\ refs[o] \cap Freed = {}
<1>1. MinorRoots \subseteq M /\ F \subseteq M
  BY DEF Sweeping, Marked
<1>2. \A th \in Threads \cap heap : ~IsWhite(th) => th \in M
  BY <1>1 DEF StackInv, ThreadsListed, MinorRoots
<1>3. Main \in M
  BY <1>1, <1>2, Kinds DEF StackInv, MinorRoots, WhiteSet
<1>4. \A o \in M : o \notin Freed /\ refs[o] \cap Freed = {}
  BY DEF Sweeping, Marked
<1> QED
  BY <1>1, <1>2, <1>3, <1>4

(* After a minor collection, too, every thread is young and white or       *)
(* listed.                                                                 *)
LEMMA MinorListsThreads ==
  ASSUME NEW F, NEW M, NEW Freed, NEW Kept, Sweeping(F, M, Freed, Kept), StackInv
  PROVE  ThreadsListed'
<1> USE Kinds
<1> DEFINE c == SweptColor(M, Freed, Kept)
           b == SweptAge(M, Freed, Kept)
<1> SUFFICES ASSUME NEW th \in Threads, color'[th] # "free"
             PROVE  IF color'[th] = "white" THEN age'[th] \in {"new", "survival"}
                    ELSE th \in gray' \cup grayagain'
  BY DEF ThreadsListed, IsWhite, Young, heap
<1>1. th \in Obj /\ th \notin Tabs \cup Uvs \cup Strs /\ th \notin armed /\ th \in HasGcList
  BY GenAssumption DEF Sweeping, TypeOK
<1>2. /\ th \notin Blackened(M, Freed, Kept) /\ th \notin Orphans(Freed, Kept)
      /\ th \notin KeptGray(M)
  BY <1>1 DEF Blackened, Orphans, KeptGray
<1>3. /\ color'[th] = IF th \in Remarked(M, Freed, Kept) THEN MarkColor(th) ELSE c[th]
      /\ age'[th] = IF th \in Again(M, Freed, Kept) /\ b[th] = "touched1" THEN "touched2"
                    ELSE IF th \in Again(M, Freed, Kept) /\ b[th] = "touched2" THEN "old"
                    ELSE b[th]
      /\ Again(M, Freed, Kept) \cap Threads \subseteq grayagain'
      /\ Remarked(M, Freed, Kept) \cap HasGcList \subseteq gray'
  BY <1>1, <1>2, SweepParts DEF Sweeping
<1>4. th \in Again(M, Freed, Kept) <=> th \in M /\ c[th] \notin {"free", "white"}
  BY <1>2 DEF Again
<1>5. MarkColor(th) = "gray" /\ DoneColor(th) = "gray"
  BY <1>1 DEF MarkColor, DoneColor
<1>6. /\ c[th] \in Colors
      /\ th \in Freed => c[th] = "free"
      /\ th \in Kept => c[th] = SurvivorColor(th, MarkedAge(M)[th])
      /\ th \notin Freed \cup Kept => c[th] = IF th \in M THEN DoneColor(th) ELSE color[th]
  BY <1>1, <1>2, SweptColors
<1>7. /\ MarkedAge(M)[th] \in Ages
      /\ th \in Kept => b[th] = SurvivorAge(th, MarkedAge(M)[th])
      /\ th \notin Kept => b[th] = MarkedAge(M)[th]
      /\ th \notin OldOnes => MarkedAge(M)[th] = age[th]
  BY <1>1, <1>2, SweptAges
<1>8. \A x \in Kept : x \in heap \/ x \in Uvs
  BY DEF Sweeping, Marked, SweptBy
<1>9. th \in heap /\ IsWhite(th) => age[th] \in {"new", "survival"} /\ th \notin OldOnes
  BY DEF StackInv, ThreadsListed, Young, OldOnes
<1>10. th \in heap /\ ~IsWhite(th) => th \in M
  BY MarkedStay
<1>11. th \in Kept /\ IsWhite(th) /\ th \in heap => th \in M
  BY <1>9 DEF Sweeping, Marked, IsOld
<1> HIDE DEF c, b
<1>12. CASE th \in Remarked(M, Freed, Kept)
  BY <1>1, <1>3, <1>5, <1>12
<1>13. CASE th \notin Remarked(M, Freed, Kept) /\ th \in Kept
  <2>1. CASE MarkedAge(M)[th] = "new"
    <3>1. c[th] = "white"
      BY <1>6, <1>13, <2>1 DEF SurvivorColor
    <3>2. b[th] = "survival"
      BY <1>1, <1>7, <1>13, <2>1, NextAges DEF SurvivorAge
    <3> QED
      BY <1>3, <1>4, <1>13, <3>1, <3>2
  <2>2. CASE MarkedAge(M)[th] # "new"
    <3>1. c[th] = "gray" /\ th \in M
      BY <1>1, <1>5, <1>6, <1>8, <1>10, <1>11, <1>13, <2>2 DEF SurvivorColor
    <3> QED
      BY <1>3, <1>4, <1>13, <3>1
  <2> QED
    BY <2>1, <2>2
<1>14. CASE th \notin Remarked(M, Freed, Kept) /\ th \notin Kept
  <2>1. th \notin Freed /\ color'[th] = c[th]
    BY <1>3, <1>6, <1>14
  <2>2. CASE th \in M
    BY <1>3, <1>4, <1>5, <1>6, <1>14, <2>1, <2>2
  <2>3. CASE th \notin M
    <3>1. c[th] = color[th]
      BY <1>6, <1>14, <2>1, <2>3
    <3>2. th \in heap
      BY <1>1, <2>1, <3>1 DEF heap
    <3>3. color[th] = "white" /\ age'[th] \in {"new", "survival"}
      BY <1>3, <1>4, <1>7, <1>9, <1>10, <1>14, <2>3, <3>2 DEF IsWhite
    <3> QED
      BY <2>1, <3>1, <3>3
  <2> QED
    BY <2>2, <2>3
<1> QED
  BY <1>12, <1>13, <1>14

(* A minor collection keeps the stacks, what is on them, and the objects   *)
(* it separates.                                                           *)
LEMMA MinorKeeps ==
  ASSUME TypeOK, Sound, StackInv, Minor
  PROVE  StackInv' /\ StacksKept' /\ PendingKept'
<1> USE Kinds
<1>1. PICK F, M, Freed, Kept \in SUBSET Obj :
        /\ Marked(F, M, Freed, Kept)
        /\ MinorSweep(F, M, MarkedAge(M), Freed, Kept)
        /\ armed' = armed \ (F \cup Freed) /\ mmudata' = F
        /\ phase = "idle" /\ phase' = "minor" /\ infin' = infin
  BY MinorParts
<1>2. Sweeping(F, M, Freed, Kept)
  BY <1>1 DEF Sweeping
<1>3. \A o \in Obj : /\ refs'[o] = IF o \in Freed THEN {} ELSE refs[o]
                     /\ o \notin Freed /\ o \in heap => o \in heap'
  BY <1>2, SweepFrees DEF heap
<1>4. /\ \A th \in Threads \cap heap : ~IsWhite(th) => th \in M
      /\ Main \in M /\ F \subseteq M
      /\ \A o \in M : o \notin Freed /\ refs[o] \cap Freed = {}
  BY <1>2, MarkedStay
<1>5. Stacks' = Stacks /\ \A th \in Stacks : th \in M
  <2>1. refs'[Main] = refs[Main]
    BY <1>3, <1>4
  <2>2. \A th \in Stacks : th \in Threads \cap heap
    BY InUse, StacksInUse DEF Stacks
  <2>3. \A x \in refs[Main] : IsWhite(x) => x \in M
    BY <1>1, <1>4 DEF Marked
  <2> QED
    BY <1>4, <2>1, <2>2, <2>3 DEF Stacks, Stack
<1>6. ASSUME NEW o \in M \cap Reachable
      PROVE  o \in heap' /\ refs'[o] \subseteq heap'
  <2>1. o \in heap /\ refs[o] \subseteq heap /\ heap \subseteq Obj
    BY InUse DEF heap
  <2> QED
    BY <1>3, <1>4, <2>1
<1>7. StacksKept'
  BY <1>5, <1>6, StacksInUse DEF StacksKept
<1>8. PendingKept'
  <2>1. F \subseteq Reachable
    BY <1>1, InUse DEF Marked
  <2> QED
    BY <1>1, <1>4, <1>6, <2>1 DEF PendingKept
<1>9. OpenOnStack' /\ LeafStrings'
  <2>1. \A uv \in Uvs : owner'[uv] # Nil => {uv, owner[uv]} \cap Freed = {} /\ owner'[uv] = owner[uv]
    BY <1>1, SweepParts
  <2>2. \A uv \in Uvs : owner[uv] # Nil => owner[uv] \in Obj
    BY DEF TypeOK
  <2>3. OpenOnStack'
    BY <1>3, <2>1, <2>2 DEF OpenOnStack, StackInv
  <2>4. LeafStrings'
    BY <1>3 DEF LeafStrings, StackInv
  <2> QED
    BY <2>3, <2>4
<1>10. Main \in heap' /\ ThreadsListed'
  BY <1>2, <1>4, <1>3, MinorListsThreads DEF StackInv
<1> QED
  BY <1>7, <1>8, <1>9, <1>10 DEF StackInv

(* At first there is the main thread only.                                 *)
LEMMA InitKept ==
  ASSUME Init
  PROVE  Sound /\ StackInv
<1> USE Kinds
<1>1. /\ \A o \in Obj : refs[o] = {} /\ (color[o] = IF o = Main THEN "gray" ELSE "free")
      /\ \A uv \in Uvs : owner[uv] = Nil
      /\ mmudata = {} /\ armed = {} /\ grayagain = {Main}
  BY DEF Init
<1>2. heap = {Main}
  BY <1>1 DEF heap
<1>3. Reachable \subseteq {Main}
  <2> DEFINE S == {Main}
  <2>1. {Main} \cup mmudata \cup armed = S
    BY <1>1
  <2>2. S \in SUBSET Obj /\ \A o \in S \cap Obj : refs[o] \cap Obj \subseteq S
    BY <1>1
  <2> HIDE DEF S
  <2>3. LeastClosed(S, Obj, Obj) \subseteq S
    BY <2>2, LeastClosedLeast
  <2> QED
    BY <2>1, <2>3 DEF Reachable, S
<1>4. ThreadsListed
  BY <1>1, <1>2 DEF ThreadsListed, IsWhite
<1> QED
  BY <1>1, <1>2, <1>3, <1>4 DEF Sound, StackInv, OpenOnStack, LeafStrings

(* All steps but minor collections keep what is in use.                    *)
LEMMA StepKeeps ==
  ASSUME TypeOK, StackInv, Sound, [Next]_vars, ~Minor
  PROVE  Sound' /\ StackInv'
<1>1. CASE UNCHANGED vars
  <2>1. UNCHANGED <<refs, owner, gcvars, armed, mmudata>>
    BY <1>1 DEF vars, heapvars, finvars
  <2>2. armed' \subseteq armed \cup Reachable /\ \A x \in Reachable : refs'[x] \subseteq Reachable
    BY <2>1, InUse
  <2>3. /\ \A uv \in Uvs : owner[uv] # Nil => refs'[uv] \subseteq refs'[owner[uv]]
        /\ \A s \in Strs : refs'[s] = {}
    BY <2>1 DEF StackInv, OpenOnStack, LeafStrings
  <2> QED
    BY <2>1, <2>2, <2>3, RefsKeep
<1> QED
  BY <1>1, MutatorKeeps, MinorDoneKeeps, FullKeeps, EnterKeeps, FinalizeKeeps
     DEF Next, Collector

\* The inductive invariant that holds for every program, whatever minor collections free.
KeptInv == TypeOK /\ StackInv /\ (Sound \/ (StacksKept /\ PendingKept))

(* It is kept by every step, also by one that frees too much.              *)
LEMMA KeptStep ==
  ASSUME KeptInv, [Next]_vars, TypeOK'
  PROVE  KeptInv'
<1>1. CASE ~Sound
  <2>1. UNCHANGED vars
    BY <1>1 DEF Next
  <2>2. UNCHANGED <<refs, owner, color, age, gray, grayagain, mmudata>>
    BY <2>1 DEF vars, heapvars, gcvars, finvars
  <2>3. Main \in heap' /\ ThreadsListed' /\ OpenOnStack' /\ LeafStrings'
    BY <2>2 DEF KeptInv, StackInv, ThreadsListed, OpenOnStack, LeafStrings, heap, IsWhite, Young
  <2>4. StacksKept' /\ PendingKept'
    BY <1>1, <2>2 DEF KeptInv, StacksKept, PendingKept, Stacks, Stack, heap
  <2> QED
    BY <2>3, <2>4 DEF KeptInv, StackInv
<1>2. CASE Sound /\ ~Minor
  BY <1>2, StepKeeps DEF KeptInv
<1>3. CASE Sound /\ Minor
  BY <1>3, MinorKeeps DEF KeptInv
<1> QED
  BY <1>1, <1>2, <1>3

(* What the program does and whatever a minor collection frees, KeptInv    *)
(* holds.                                                                  *)
THEOREM KeptHolds == Spec => []KeptInv
<1>1. Init /\ TypeOK => KeptInv
  BY InitKept DEF KeptInv
<1>2. KeptInv /\ [Next]_vars /\ TypeOK' => KeptInv'
  BY KeptStep
<1> QED
  BY <1>1, <1>2, TypeCorrect, PTL DEF Spec

(* The values on the stacks of the threads in use are never freed          *)
(* (lj_gc.c marks the stacks in every collection).                         *)
THEOREM StacksStay == Spec => []StacksKept
<1>1. KeptInv => StacksKept
  BY SoundKeeps DEF KeptInv
<1> QED
  BY <1>1, KeptHolds, PTL

(* A table whose finalizer is due is not freed before, nor what it refers  *)
(* to.                                                                     *)
THEOREM PendingStay == Spec => []PendingKept
<1>1. KeptInv => PendingKept
  BY SoundKeeps DEF KeptInv
<1> QED
  BY <1>1, KeptHolds, PTL

(* If something is freed that is in use, a minor collection did it: no     *)
(* store, no change of upvalues, no finalizer call, full collection or     *)
(* change of mode does.                                                    *)
THEOREM OnlyMinorFrees == Spec => [][NoDangling /\ ~NoDangling' => Minor]_vars
<1>1. KeptInv /\ [Next]_vars => [NoDangling /\ ~NoDangling' => Minor]_vars
  BY StepKeeps DEF KeptInv, NoDangling
<1> QED
  BY <1>1, KeptHolds, PTL DEF Spec

-----------------------------------------------------------------------------
(* Touched tables                                                          *)

Touched == {"touched1", "touched2"}

(* A step that leaves touched tables alone and drops nothing from          *)
(* grayagain.                                                              *)
LEMMA TouchedQuiet ==
  ASSUME TouchedListed, grayagain \subseteq grayagain',
         \A t \in Tabs : \/ color'[t] = color[t] /\ age'[t] = age[t]
                         \/ age'[t] \notin Touched
  PROVE  TouchedListed'
  BY DEF TouchedListed, heap, Touched

(* A white table is not touched.                                           *)
LEMMA WhiteUntouched ==
  ASSUME TouchedListed, NEW t \in Tabs, color[t] = "white"
  PROVE  age[t] \notin Touched
  BY Kinds DEF TouchedListed, heap, Touched

(* The back barrier lists what it touches.                                 *)
LEMMA BarrierTouches ==
  ASSUME TypeOK, TouchedListed, NEW t \in Tabs \cap heap, BarrierBack(t)
  PROVE  TouchedListed'
<1> USE Kinds
<1>1. /\ color' = [color EXCEPT ![t] = "gray"]
      /\ age' = [age EXCEPT ![t] = IF IsOld(t) THEN "touched1" ELSE @]
      /\ grayagain \subseteq grayagain' /\ (age[t] # "touched2" => t \in grayagain')
  BY DEF BarrierBack
<1>2. t \in grayagain' /\ color'[t] = "gray"
  BY <1>1 DEF TouchedListed, TypeOK
<1>3. age'[t] # "touched2"
  BY <1>1 DEF IsOld, TypeOK
<1>4. \A x \in Tabs \ {t} : color'[x] = color[x] /\ age'[x] = age[x]
  BY <1>1 DEF TypeOK
<1> QED
  BY <1>1, <1>2, <1>3, <1>4 DEF TouchedListed, heap

(* The forward barrier touches no table.                                   *)
LEMMA ForwardTouches ==
  ASSUME TypeOK, TouchedListed, NEW o \in Obj \ Tabs, NEW v \in Obj, BarrierForward(o, v)
  PROVE  \A t \in Tabs : \/ color'[t] = color[t] /\ age'[t] = age[t]
                         \/ age'[t] \notin Touched
<1> USE Kinds
<1> SUFFICES ASSUME NEW t \in Tabs
             PROVE  (color'[t] = color[t] /\ age'[t] = age[t]) \/ age'[t] \notin Touched
  OBVIOUS
<1>1. CASE IsBlack(o) /\ IsWhite(v) /\ phase # "full"
  <2>1. PICK M : /\ M = GcMark({v})
                 /\ color' = [x \in Obj |-> IF x \in M THEN MarkColor(x) ELSE color[x]]
                 /\ age' = [age EXCEPT ![v] = IF IsOld(o) /\ ~IsOld(v) THEN "old0" ELSE @]
    BY <1>1 DEF BarrierForward
  <2>2. t \in M => color[t] = "white"
    BY <2>1, GcMarkSpec DEF WhiteSet, IsWhite
  <2>3. color[v] = "white"
    BY <1>1 DEF IsWhite
  <2>4. t \in M \cup {v} => age[t] \notin Touched
    BY <2>2, <2>3, WhiteUntouched
  <2>5. age'[t] = age[t] \/ (t = v /\ age'[t] = "old0")
    BY <2>1 DEF TypeOK
  <2>6. t \notin M => color'[t] = color[t]
    BY <2>1
  <2> QED
    BY <2>4, <2>5, <2>6 DEF Touched
<1>2. CASE IsBlack(o) /\ IsWhite(v) /\ phase = "full"
  <2>1. color' = [color EXCEPT ![o] = "white"] /\ UNCHANGED <<age, gray>>
    BY <1>2 DEF BarrierForward
  <2> QED
    BY <2>1 DEF TypeOK
<1>3. CASE ~(IsBlack(o) /\ IsWhite(v))
  BY <1>3 DEF BarrierForward
<1> QED
  BY <1>1, <1>2, <1>3

(* Closing an upvalue touches no table.                                    *)
LEMMA CloseTouches ==
  ASSUME TypeOK, TouchedListed, NEW uv \in Uvs, CloseUv(uv)
  PROVE  TouchedListed'
<1> USE Kinds
<1>1. grayagain' = grayagain /\ \A t \in Tabs : t # uv /\ age'[t] = age[t]
  BY GenAssumption DEF CloseUv, TypeOK
<1>2. ASSUME NEW t \in Tabs
      PROVE  color'[t] = color[t] \/ age[t] \notin Touched
  <2>1. CASE IsWhite(uv)
    BY <2>1 DEF CloseUv
  <2>2. CASE ~IsWhite(uv)
    <3>1. PICK M : /\ M = GcMark(refs[uv])
                   /\ color' = [o \in Obj |-> IF o = uv THEN "black"
                                              ELSE IF o \in M THEN MarkColor(o) ELSE color[o]]
      BY <2>2 DEF CloseUv
    <3>2. t \in M => color[t] = "white"
      BY <3>1, GcMarkSpec DEF WhiteSet, IsWhite, TypeOK
    <3> QED
      BY <1>1, <3>1, <3>2, WhiteUntouched
  <2> QED
    BY <2>1, <2>2
<1> QED
  BY <1>1, <1>2, TouchedQuiet

(* A minor collection turns tables from "touched1" to "touched2" on        *)
(* grayagain, and from there to "old".                                     *)
LEMMA MinorTouches ==
  ASSUME TypeOK, TouchedListed, Minor
  PROVE  TouchedListed'
<1> USE Kinds
<1>1. PICK F, M, Freed, Kept \in SUBSET Obj :
        /\ Marked(F, M, Freed, Kept)
        /\ MinorSweep(F, M, MarkedAge(M), Freed, Kept)
        /\ phase = "idle"
  BY MinorParts
<1>2. Sweeping(F, M, Freed, Kept)
  BY <1>1 DEF Sweeping
<1> DEFINE c == SweptColor(M, Freed, Kept)
           b == SweptAge(M, Freed, Kept)
<1> SUFFICES ASSUME NEW t \in Tabs, color'[t] # "free"
             PROVE  /\ age'[t] # "touched1"
                    /\ age'[t] = "touched2" => t \in grayagain' /\ color'[t] = "black"
  BY DEF TouchedListed, heap
<1>3. t \in Obj /\ t \notin Threads \cup Uvs /\ t \notin Strs
  BY GenAssumption
<1>4. t \notin Blackened(M, Freed, Kept) /\ t \notin Orphans(Freed, Kept)
  BY <1>3 DEF Blackened, Orphans
<1>5. /\ color'[t] = IF t \in Again(M, Freed, Kept) THEN "black"
                     ELSE IF t \in Remarked(M, Freed, Kept) THEN MarkColor(t) ELSE c[t]
      /\ age'[t] = IF t \in Again(M, Freed, Kept) /\ b[t] = "touched1" THEN "touched2"
                   ELSE IF t \in Again(M, Freed, Kept) /\ b[t] = "touched2" THEN "old"
                   ELSE b[t]
      /\ t \in Again(M, Freed, Kept) /\ b[t] = "touched1" => t \in grayagain'
  BY <1>1, <1>3, <1>4, SweepParts
<1>6. t \in Again(M, Freed, Kept) <=> t \in KeptGray(M) /\ c[t] \notin {"free", "white"}
  BY <1>3 DEF Again
<1>7. t \in KeptGray(M) <=> t \in M /\ age[t] = "touched1"
  BY DEF KeptGray
<1>8. /\ c[t] \in Colors
      /\ t \in Freed => c[t] = "free"
      /\ t \in Kept => c[t] = SurvivorColor(t, MarkedAge(M)[t])
      /\ t \notin Freed \cup Kept /\ t \in KeptGray(M) => c[t] = "gray"
      /\ t \notin Freed \cup Kept \cup KeptGray(M) => c[t] = IF t \in M THEN DoneColor(t) ELSE color[t]
  BY <1>2, <1>3, SweptColors
<1>9. /\ MarkedAge(M)[t] \in Ages
      /\ t \in Kept => b[t] = SurvivorAge(t, MarkedAge(M)[t])
      /\ t \notin Kept => b[t] = MarkedAge(M)[t]
      /\ (t \in OldOnes \/ (t \in M /\ age[t] = "touched2")) => MarkedAge(M)[t] = "old"
      /\ ~(t \in OldOnes \/ (t \in M /\ age[t] = "touched2")) => MarkedAge(M)[t] = age[t]
  BY <1>2, <1>3, <1>4, SweptAges
<1>10. t \in heap /\ age[t] \in Touched => t \in M
  BY <1>1 DEF TouchedListed, MinorRoots, Touched, Marked
<1>11. t \in OldOnes => age[t] = "old1"
  BY DEF OldOnes
<1>12. t \in Kept => t \in heap
  BY <1>1, <1>3 DEF Marked, SweptBy
<1>13. t \in Freed => color'[t] = "free"
  BY <1>2, <1>3, SweepFrees
<1>14. t \in heap \/ (t \notin M => c[t] = "free")
  BY <1>3, <1>6, <1>7, <1>8, <1>12, <1>13 DEF heap
<1>15. MarkColor(t) \in {"gray", "black"} /\ DoneColor(t) = "black"
  BY <1>3 DEF MarkColor, DoneColor, IsOpen
<1>16. t \in Remarked(M, Freed, Kept) => c[t] = "white"
  BY DEF Remarked
<1> HIDE DEF c, b
<1>17. t \notin Freed
  BY <1>13
<1>18. age[t] \in Touched /\ t \notin M => color'[t] = "free"
  BY <1>3, <1>5, <1>6, <1>7, <1>8, <1>10, <1>12, <1>14, <1>16, <1>17
<1>19. CASE t \in Kept
  <2>1. CASE MarkedAge(M)[t] = "touched1"
    <3>1. age[t] = "touched1" /\ t \in KeptGray(M)
      BY <1>7, <1>9, <1>18, <2>1 DEF Touched
    <3>2. t \in armed => b[t] = "new"
      BY <1>9, <1>19 DEF SurvivorAge
    <3>3. t \notin armed => b[t] = "touched2" /\ c[t] = "black"
      BY <1>8, <1>9, <1>15, <1>19, <2>1, NextAges DEF SurvivorAge, SurvivorColor
    <3> QED
      BY <1>5, <1>6, <3>1, <3>2, <3>3
  <2>2. CASE MarkedAge(M)[t] # "touched1"
    <3>1. b[t] \notin Touched
      BY <1>9, <1>19, <2>2, NextAges DEF SurvivorAge, Touched, Ages
    <3> QED
      BY <1>5, <3>1 DEF Touched
  <2> QED
    BY <2>1, <2>2
<1>20. CASE t \notin Kept
  <2>1. b[t] = MarkedAge(M)[t] /\ b[t] # "touched2"
    BY <1>9, <1>18, <1>20 DEF Touched
  <2>2. CASE b[t] = "touched1"
    <3>1. age[t] = "touched1" /\ t \in KeptGray(M)
      BY <1>7, <1>9, <1>18, <2>1, <2>2 DEF Touched
    <3>2. t \in Again(M, Freed, Kept)
      BY <1>6, <1>8, <1>17, <1>20, <3>1
    <3> QED
      BY <1>5, <2>2, <3>2
  <2>3. CASE b[t] # "touched1"
    BY <1>5, <2>1, <2>3
  <2> QED
    BY <2>2, <2>3
<1> QED
  BY <1>19, <1>20

(* Every step keeps the touched tables listed.                             *)
LEMMA TouchedStep ==
  ASSUME TypeOK, TouchedListed, [Next]_vars
  PROVE  TouchedListed'
<1> USE Kinds
<1>1. CASE UNCHANGED vars
  BY <1>1, TouchedQuiet DEF vars, gcvars
<1>2. CASE Sound /\ Mutator
  <2>1. ASSUME NEW o \in Obj \ Uvs, New(o) PROVE TouchedListed'
    BY <2>1, TouchedQuiet DEF New, TypeOK, Touched
  <2>2. ASSUME NEW f \in Funcs, NEW uv \in Uvs, NEW th \in Threads, ShareClosure(f, uv, th)
        PROVE  TouchedListed'
    BY <2>2, TouchedQuiet DEF ShareClosure, TypeOK, Touched
  <2>3. ASSUME NEW f \in Funcs, NEW uv \in Uvs, NEW th \in Threads, NEW x \in Obj,
               NewClosure(f, uv, th, x)
        PROVE  TouchedListed'
    BY <2>3, TouchedQuiet DEF NewClosure, TypeOK, Touched
  <2>4. ASSUME UNCHANGED gcvars PROVE TouchedListed'
    BY <2>4, TouchedQuiet DEF gcvars
  <2>5. ASSUME NEW t \in Tabs, NEW old \in Obj \cup {Nil},
               TabClear(t, old) \/ \E v \in Obj : TabStore(t, old, v)
        PROVE  TouchedListed'
    <3>1. t \in heap
      BY <1>2, <2>5, InUse, StacksInUse DEF TabClear, TabStore, Stacks, Stack
    <3>2. CASE BarrierBack(t)
      BY <3>1, <3>2, BarrierTouches
    <3>3. CASE UNCHANGED <<color, age, grayagain>>
      BY <3>3, TouchedQuiet
    <3> QED
      BY <2>5, <3>2, <3>3 DEF TabClear, TabStore
  <2>6. ASSUME NEW f \in Funcs, NEW old \in Obj \cup {Nil}, NEW v \in Obj, FuncStore(f, old, v)
        PROVE  TouchedListed'
    <3>1. f \in Obj \ Tabs /\ BarrierForward(f, v) /\ grayagain' = grayagain
      BY <2>6, GenAssumption DEF FuncStore
    <3> QED
      BY <3>1, ForwardTouches, TouchedQuiet
  <2>7. ASSUME NEW uv \in Uvs, NEW old \in Obj \cup {Nil}, NEW v \in Obj, SetUv(uv, old, v)
        PROVE  TouchedListed'
    <3>1. grayagain' = grayagain /\ uv \in Obj \ Tabs
      BY <2>7, GenAssumption DEF SetUv
    <3>2. CASE IsOpen(uv)
      BY <2>7, <3>1, <3>2, TouchedQuiet DEF SetUv
    <3>3. CASE ~IsOpen(uv)
      <4>1. BarrierForward(uv, v)
        BY <2>7, <3>3 DEF SetUv
      <4> QED
        BY <3>1, <4>1, ForwardTouches, TouchedQuiet
    <3> QED
      BY <3>2, <3>3
  <2>8. ASSUME NEW uv \in Uvs, CloseUv(uv) PROVE TouchedListed'
    BY <2>8, CloseTouches
  <2>9. FinReturn => UNCHANGED gcvars
    BY DEF FinReturn
  <2>10. \A s \in Strs : Intern(s) => UNCHANGED gcvars
    BY DEF Intern
  <2>11. \A o, x \in Obj : Load(o, x) => UNCHANGED gcvars
    BY DEF Load
  <2>12. \A th \in Threads, x \in Obj : Pop(th, x) \/ PushTo(th, x) => UNCHANGED gcvars
    BY DEF Pop, PushTo
  <2>13. \A t \in Armable : Arm(t) => UNCHANGED gcvars
    BY DEF Arm
  <2> QED
    BY <1>2, <2>1, <2>2, <2>3, <2>4, <2>5, <2>6, <2>7, <2>8, <2>9, <2>10, <2>11, <2>12, <2>13
       DEF Mutator
<1>3. CASE Collector
  <2>1. CASE Minor
    BY <2>1, MinorTouches
  <2>2. CASE MinorDone
    BY <2>2, TouchedQuiet DEF MinorDone, gcvars
  <2>3. CASE Full
    <3>1. \A t \in Tabs : age'[t] \notin Touched
      BY <2>3 DEF Full, Touched
    <3> QED
      BY <3>1 DEF TouchedListed, Touched
  <2>4. CASE Enter
    <3>1. \A t \in Tabs : age'[t] \notin Touched
      BY <2>4 DEF Enter, Touched
    <3> QED
      BY <3>1 DEF TouchedListed, Touched
  <2>5. ASSUME NEW o \in Tabs, Finalize(o) PROVE TouchedListed'
    BY <2>5, TouchedQuiet DEF Finalize, TypeOK, Touched
  <2> QED
    BY <1>3, <2>1, <2>2, <2>3, <2>4, <2>5 DEF Collector
<1> QED
  BY <1>1, <1>2, <1>3 DEF Next

(* The touched list is exact: a table is on grayagain as long as its age   *)
(* says that it was touched, gray for the first minor collection and       *)
(* black for the second.  lj_gc_barrierback relies on it.                  *)
THEOREM TouchedAreListed == Spec => []TouchedListed
<1>1. Init => TouchedListed
  BY Kinds DEF Init, TouchedListed
<1>2. TypeOK /\ TouchedListed /\ [Next]_vars => TouchedListed'
  BY TouchedStep
<1> QED
  BY <1>1, <1>2, TypeCorrect, PTL DEF Spec

-----------------------------------------------------------------------------
(* Tables, strings and coroutines                                          *)

\* No closures, upvalues or finalizers: the case in which no minor collection frees
\* something in use.
OnlyTables == Funcs = {} /\ Uvs = {} /\ Armable = {}

HeapClosed == \A o \in heap : refs[o] \subseteq heap

\* Color and segment of an object between minor collections, from its age.
Matched(o) ==
  /\ IsWhite(o) <=> Young(o)
  /\ age[o] # "old0"
  /\ o \in Tabs \/ age[o] \notin Touched
  /\ o \in Threads => color[o] # "black"
  /\ o \in Strs => seg[o] = "off"
  /\ o \notin Strs => /\ seg[o] # "off"
                      /\ seg[o] = "nursery" <=> age[o] = "new"
                      /\ seg[o] = "survival" <=> age[o] = "survival"
                      /\ age[o] = "old1" => seg[o] = "old1"

\* A white object that an old table refers to has been seen by a minor collection, which
\* will not find it white again, unless the table is listed as touched.
Remembers(t, x) ==
  IsWhite(x) => \/ age[t] = "touched1"
                \/ age[t] \in {"old1", "touched2"} /\ age[x] = "survival"

OldTable(t) ==
  IsOld(t) => /\ IsBlack(t) <=> age[t] # "touched1"
              /\ \A x \in refs[t] : Remembers(t, x)

Generations == /\ gray = {}
               /\ \A o \in heap : Matched(o)
               /\ \A t \in Tabs \cap heap : OldTable(t)

\* The inductive invariant.
GenInv ==
  /\ TypeOK /\ StackInv /\ TouchedListed
  /\ HeapClosed /\ ~infin /\ grayagain \subseteq heap
  /\ phase # "full" => Generations

(* With a closed heap nothing is in reach that is not allocated.           *)
LEMMA ClosedIsSound ==
  ASSUME OnlyTables, GenInv
  PROVE  Sound
<1> DEFINE S == {Main} \cup mmudata \cup armed
<1>1. S \subseteq heap /\ heap \in SUBSET Obj
  BY DEF OnlyTables, GenInv, TypeOK, StackInv, heap
<1>2. \A o \in heap \cap Obj : refs[o] \cap Obj \subseteq heap
  BY DEF GenInv, HeapClosed
<1> HIDE DEF S
<1>3. LeastClosed(S, Obj, Obj) \subseteq heap
  BY <1>1, <1>2, LeastClosedLeast
<1> QED
  BY <1>3 DEF Sound, Reachable, S

(* What refers to a white object is a root of the next minor collection.   *)
LEMMA RootsOrOld ==
  ASSUME OnlyTables, GenInv, phase # "full", NEW o \in heap, ~IsWhite(o)
  PROVE  o \in MinorRoots \/ \A x \in refs[o] : ~IsWhite(x)
<1> USE Kinds
<1>1. o \in Obj /\ Matched(o) /\ Generations /\ age[o] \in Ages
  BY DEF GenInv, Generations, heap, TypeOK
<1>2. CASE o \in Strs
  BY <1>2 DEF GenInv, StackInv, LeafStrings
<1>3. CASE o \in Threads
  BY <1>3 DEF GenInv, StackInv, ThreadsListed, MinorRoots
<1>4. CASE o \in Tabs
  <2>1. IsOld(o) /\ OldTable(o) /\ age[o] # "old0"
    BY <1>1, <1>4 DEF Matched, Young, IsOld, Generations
  <2>2. CASE age[o] \in Touched
    BY <1>4, <2>2 DEF GenInv, TouchedListed, Touched, MinorRoots
  <2>3. CASE age[o] = "old1"
    <3>1. o \notin Strs
      BY <1>4, GenAssumption
    <3>2. seg[o] = "old1" /\ IsBlack(o)
      BY <1>1, <2>1, <2>3, <3>1 DEF Matched, OldTable
    <3> QED
      BY <1>4, <2>3, <3>2 DEF MinorRoots, Revisited, OldOnes
  <2>4. CASE age[o] = "old"
    BY <2>1, <2>4 DEF OldTable, Remembers
  <2> QED
    BY <1>1, <2>1, <2>2, <2>3, <2>4 DEF Ages, Touched, IsOld
<1> QED
  BY <1>1, <1>2, <1>3, <1>4 DEF OnlyTables, Obj

\* The age after a minor collection.
Aged(a) ==
  IF a = "new" THEN "survival" ELSE IF a = "survival" THEN "old1"
  ELSE IF a = "touched1" THEN "touched2" ELSE "old"

(* A minor collection frees what is white, young and unmarked, and ages    *)
(* the rest.                                                               *)
LEMMA MinorAges ==
  ASSUME OnlyTables, GenInv, Minor
  PROVE  \E M, Freed \in SUBSET Obj :
           /\ MinorRoots \subseteq M
           /\ \A o \in M : \A x \in refs[o] : IsWhite(x) => x \in M
           /\ Freed = {o \in heap : IsWhite(o) /\ o \notin M}
           /\ heap' = heap \ Freed /\ gray' = {} /\ grayagain' \subseteq heap'
           /\ phase' = "minor" /\ infin' = infin
           /\ \A o \in heap \ Freed :
                /\ age'[o] = Aged(age[o])
                /\ color'[o] = IF age[o] = "new" THEN "white" ELSE DoneColor(o)
                /\ seg'[o] = NextSeg(seg[o]) /\ refs'[o] = refs[o]
<1> USE Kinds
<1>1. PICK F, M, Freed, Kept \in SUBSET Obj :
        /\ Marked(F, M, Freed, Kept)
        /\ MinorSweep(F, M, MarkedAge(M), Freed, Kept)
        /\ armed' = armed \ (F \cup Freed) /\ mmudata' = F
        /\ phase = "idle" /\ phase' = "minor" /\ infin' = infin
  BY MinorParts DEF GenInv
<1>2. Sweeping(F, M, Freed, Kept)
  BY <1>1 DEF Sweeping, GenInv
<1> DEFINE c == SweptColor(M, Freed, Kept)
           b == SweptAge(M, Freed, Kept)
<1>3. F = {} /\ armed = {} /\ Uvs = {} /\ Funcs = {}
  BY <1>1 DEF Marked, OnlyTables, GenInv, TypeOK
<1>4. Generations /\ gray = {} /\ grayagain \subseteq heap
  BY <1>1 DEF GenInv, Generations
<1>5. /\ Orphans(Freed, Kept) = {} /\ Blackened(M, Freed, Kept) = {}
      /\ Remarked(M, Freed, Kept) = {}
  BY <1>3 DEF Orphans, Blackened, Remarked
<1>6. M \subseteq heap
  <2>1. MinorRoots \subseteq heap
    BY <1>4 DEF MinorRoots, Revisited, OldOnes, WhiteSet, heap, IsWhite
  <2>2. WhiteSet \subseteq heap
    BY DEF WhiteSet, heap, IsWhite
  <2> QED
    BY <1>1, <1>3, <2>1, <2>2 DEF Marked
<1>7. \A o \in heap : Matched(o) /\ age[o] \in Ages /\ seg[o] \in Segs /\ o \in Obj
  BY <1>4 DEF Generations, GenInv, TypeOK, heap
<1>8. \A o \in heap : o \in SweptBy(F) <=> o \in Strs \/ Young(o)
  BY <1>3, <1>7 DEF SweptBy, Matched, Young
<1>9. SweptBy(F) \subseteq heap
  BY <1>3 DEF SweptBy
<1>10. Freed = {o \in heap : IsWhite(o) /\ o \notin M}
  <2>1. \A o \in heap : IsWhite(o) => o \in SweptBy(F) /\ ~IsOld(o)
    BY <1>7, <1>8 DEF Matched, Young, IsOld
  <2> QED
    BY <1>1, <1>9, <2>1 DEF Marked
<1>11. \A o \in heap : o \in Kept <=> o \notin Freed /\ (o \in Strs \/ Young(o))
  BY <1>1, <1>8 DEF Marked
<1>12. ASSUME NEW o \in heap \ Freed
       PROVE  /\ age'[o] = Aged(age[o])
              /\ color'[o] = IF age[o] = "new" THEN "white" ELSE DoneColor(o)
              /\ seg'[o] = NextSeg(seg[o]) /\ refs'[o] = refs[o]
  <2>1. /\ o \in Obj /\ Matched(o) /\ age[o] \in Ages /\ color[o] \in Colors
        /\ o \in Tabs \/ o \in Strs \/ o \in Threads
    BY <1>3, <1>7 DEF Obj, GenInv, TypeOK
  <2>2. /\ color'[o] = IF o \in Again(M, Freed, Kept) \ Threads THEN "black" ELSE c[o]
        /\ age'[o] = IF o \in Again(M, Freed, Kept) /\ b[o] = "touched1" THEN "touched2"
                     ELSE IF o \in Again(M, Freed, Kept) /\ b[o] = "touched2" THEN "old"
                     ELSE b[o]
        /\ seg'[o] = NextSeg(seg[o]) /\ refs'[o] = refs[o]
    BY <1>1, <1>3, <1>5, <2>1, SweepParts
  <2>3. /\ o \in Kept => c[o] = SurvivorColor(o, MarkedAge(M)[o])
        /\ o \notin Kept /\ o \in KeptGray(M) => c[o] = "gray"
        /\ o \notin Kept \cup KeptGray(M) => c[o] = IF o \in M THEN DoneColor(o) ELSE color[o]
    BY <1>2, <2>1, SweptColors
  <2>4. /\ o \in OldOnes \/ (o \in M \cap Tabs /\ age[o] = "touched2") => MarkedAge(M)[o] = "old"
        /\ ~(o \in OldOnes \/ (o \in M \cap Tabs /\ age[o] = "touched2")) =>
             MarkedAge(M)[o] = age[o]
        /\ o \in Kept => b[o] = SurvivorAge(o, MarkedAge(M)[o])
        /\ o \notin Kept => b[o] = MarkedAge(M)[o]
    BY <1>2, <1>5, <2>1, SweptAges
  <2>5. o \in Again(M, Freed, Kept) <=>
          (o \in M \cap Threads \/ o \in KeptGray(M)) /\ c[o] \notin {"free", "white"}
    BY DEF Again
  <2>6. o \in KeptGray(M) <=> o \in M \cap Tabs /\ age[o] = "touched1"
    BY DEF KeptGray
  <2>7. o \in OldOnes <=> age[o] = "old1" /\ seg[o] \in {"nursery", "survival", "old1"}
    BY DEF OldOnes
  <2>8. age[o] \in Touched => o \in M \cap Tabs
    BY <1>1, <2>1 DEF GenInv, TouchedListed, Touched, Marked, MinorRoots, Matched
  <2>9. SurvivorAge(o, MarkedAge(M)[o]) = NextAge(MarkedAge(M)[o])
        /\ (SurvivorColor(o, MarkedAge(M)[o]) =
              IF MarkedAge(M)[o] = "new" THEN "white" ELSE DoneColor(o))
    BY <1>3 DEF SurvivorAge, SurvivorColor
  <2>10. o \in Tabs => DoneColor(o) = "black" /\ o \notin Threads \cup Strs
    BY <1>3, GenAssumption DEF DoneColor, IsOpen
  <2>11. o \in Threads \cup Strs => DoneColor(o) = "gray"
    BY DEF DoneColor
  <2> HIDE DEF c, b
  <2>12. CASE o \in Strs \/ Young(o)
    <3>1. o \in Kept /\ age[o] \notin Touched /\ age[o] # "old0"
      <4>1. o \in Strs => o \notin Tabs
        BY GenAssumption
      <4> QED
        BY <1>11, <2>1, <2>12, <4>1 DEF Matched, Young, Touched
    <3>2. MarkedAge(M)[o] = age[o]
      <4>1. o \notin OldOnes
        BY <2>1, <2>7, <2>12 DEF Matched, Young
      <4> QED
        BY <2>4, <3>1, <4>1 DEF Touched
    <3>3. b[o] = Aged(age[o]) /\ b[o] \notin Touched
      <4>1. b[o] = NextAge(age[o])
        BY <2>4, <2>9, <3>1, <3>2
      <4> QED
        BY <2>1, <3>1, <4>1, NextAges DEF Aged, Ages, Touched
    <3>4. c[o] = IF age[o] = "new" THEN "white" ELSE DoneColor(o)
      BY <2>3, <2>9, <3>1, <3>2
    <3>5. o \notin KeptGray(M)
      BY <2>6, <3>1 DEF Touched
    <3>6. o \notin Again(M, Freed, Kept) \ Threads
      BY <2>5, <3>5
    <3> QED
      BY <2>2, <3>3, <3>4, <3>6 DEF Touched
  <2>13. CASE ~(o \in Strs \/ Young(o))
    <3>1. o \notin Kept /\ age[o] \notin {"new", "survival", "old0"} /\ color[o] # "white"
      BY <1>11, <2>1, <2>13 DEF Matched, Young, IsWhite
    <3>2. CASE age[o] = "touched1"
      <4>1. o \in KeptGray(M) /\ c[o] = "gray" /\ o \in Tabs
        BY <2>3, <2>6, <2>8, <3>1, <3>2 DEF Touched
      <4>2. o \in Again(M, Freed, Kept) /\ b[o] = "touched1"
        BY <2>4, <2>5, <2>7, <3>1, <3>2, <4>1
      <4> QED
        BY <2>2, <2>10, <3>2, <4>1, <4>2 DEF Aged
    <3>3. CASE age[o] # "touched1"
      <4>1. o \notin KeptGray(M)
        BY <2>6, <3>3
      <4>2. MarkedAge(M)[o] = "old" /\ b[o] = "old"
        <5>1. age[o] = "old1" => o \in OldOnes
          BY <2>1, <2>7, <2>13 DEF Matched
        <5> QED
          BY <2>1, <2>4, <2>8, <3>1, <3>3, <5>1 DEF Ages, Touched
      <4>3. c[o] = DoneColor(o)
        <5>1. color[o] = DoneColor(o)
          <6>1. o \in Tabs => color[o] = "black"
            BY <1>4, <2>1, <3>1, <3>3 DEF Generations, OldTable, IsOld, IsBlack
          <6>2. o \in Threads => color[o] = "gray"
            BY <2>1, <3>1 DEF Matched, Colors, heap
          <6> QED
            BY <2>1, <2>10, <2>11, <2>13, <6>1, <6>2
        <5> QED
          BY <2>3, <3>1, <4>1, <5>1
      <4>4. o \notin Again(M, Freed, Kept) \ Threads
        BY <2>5, <4>1
      <4> QED
        BY <2>2, <3>1, <3>3, <4>2, <4>3, <4>4 DEF Aged
    <3> QED
      BY <3>2, <3>3
  <2> QED
    BY <2>12, <2>13
<1>13. heap' = heap \ Freed
  <2>1. \A o \in Obj : color'[o] # "free" <=> o \in heap \ Freed
    <3> SUFFICES ASSUME NEW o \in Obj PROVE color'[o] # "free" <=> o \in heap \ Freed
      OBVIOUS
    <3>1. o \in Freed => color'[o] = "free"
      BY <1>2, SweepFrees
    <3>2. o \in heap \ Freed => color'[o] # "free"
      BY <1>2, SweepFrees DEF heap
    <3>3. o \notin heap => color'[o] = "free"
      <4> SUFFICES ASSUME o \notin heap PROVE color'[o] = "free"
        OBVIOUS
      <4>1. o \notin M /\ o \notin Kept /\ o \notin Freed /\ color[o] = "free"
        BY <1>1, <1>6, <1>9, <1>10 DEF Marked, heap
      <4>2. o \notin Again(M, Freed, Kept)
        BY <4>1 DEF Again, KeptGray
      <4>3. c[o] = "free"
        BY <1>2, <4>1, SweptColors DEF KeptGray
      <4> QED
        BY <1>1, <1>5, <4>2, <4>3, SweepParts
    <3> QED
      BY <3>1, <3>2, <3>3
  <2> QED
    BY <2>1 DEF heap
<1>14. gray' = {} /\ grayagain' \subseteq heap'
  <2>1. gray' = {} /\ grayagain' \subseteq Again(M, Freed, Kept)
    BY <1>1, <1>5, SweepParts
  <2>2. Again(M, Freed, Kept) \subseteq M /\ \A o \in Again(M, Freed, Kept) : c[o] # "free"
    BY DEF Again, KeptGray
  <2>3. \A o \in Obj : o \in Freed => c[o] = "free"
    BY <1>2, SweptColors
  <2> QED
    BY <1>1, <1>6, <1>13, <2>1, <2>2, <2>3
<1> QED
  BY <1>1, <1>10, <1>12, <1>13, <1>14 DEF Marked

(* Minor collections keep the generations apart.                           *)
LEMMA MinorGenerations ==
  ASSUME OnlyTables, GenInv, Minor, TypeOK', StackInv', TouchedListed'
  PROVE  GenInv'
<1> USE Kinds
<1>1. PICK M, Freed \in SUBSET Obj :
        /\ MinorRoots \subseteq M
        /\ \A o \in M : \A x \in refs[o] : IsWhite(x) => x \in M
        /\ Freed = {o \in heap : IsWhite(o) /\ o \notin M}
        /\ heap' = heap \ Freed /\ gray' = {} /\ grayagain' \subseteq heap'
        /\ phase' = "minor" /\ infin' = infin
        /\ \A o \in heap \ Freed :
             /\ age'[o] = Aged(age[o])
             /\ color'[o] = IF age[o] = "new" THEN "white" ELSE DoneColor(o)
             /\ seg'[o] = NextSeg(seg[o]) /\ refs'[o] = refs[o]
  BY MinorAges
<1>2. phase # "full" /\ Generations
  BY DEF Minor, GenInv
<1>3. \A o \in heap : /\ Matched(o) /\ age[o] \in Ages /\ seg[o] \in Segs /\ o \in Obj
                      /\ refs[o] \subseteq heap
  BY <1>2 DEF Generations, GenInv, TypeOK, heap, HeapClosed
<1>4. HeapClosed'
  <2> SUFFICES ASSUME NEW o \in heap \ Freed, NEW x \in refs[o] PROVE x \notin Freed
    BY <1>1, <1>3 DEF HeapClosed
  <2>1. x \in Freed => IsWhite(x) /\ x \notin M
    BY <1>1
  <2>2. CASE IsWhite(o)
    BY <1>1, <2>1, <2>2
  <2>3. CASE ~IsWhite(o)
    BY <1>1, <1>2, <2>1, <2>3, RootsOrOld
  <2> QED
    BY <2>2, <2>3
<1>5. \A o \in Tabs : DoneColor(o) = "black"
  BY GenAssumption DEF DoneColor, IsOpen, OnlyTables
<1>6. \A o \in Obj : DoneColor(o) # "white" /\ (o \in Threads => DoneColor(o) = "gray")
  BY DEF DoneColor
<1>7. ASSUME NEW o \in heap' PROVE Matched(o)'
  <2>1. /\ Matched(o) /\ age[o] \in Ages /\ seg[o] \in Segs /\ o \in Obj
        /\ age'[o] = Aged(age[o])
        /\ color'[o] = IF age[o] = "new" THEN "white" ELSE DoneColor(o)
        /\ seg'[o] = NextSeg(seg[o])
    BY <1>1, <1>3, <1>7
  <2>2. color'[o] = "white" <=> age'[o] \in {"new", "survival"}
    BY <1>6, <2>1 DEF Aged
  <2>3. age'[o] # "old0" /\ (o \in Tabs \/ age'[o] \notin Touched)
    BY <2>1 DEF Aged, Matched, Touched
  <2>4. o \in Threads => color'[o] # "black"
    BY <1>6, <2>1
  <2>5. /\ o \in Strs => seg'[o] = "off"
        /\ o \notin Strs => /\ seg'[o] # "off"
                            /\ seg'[o] = "nursery" <=> age'[o] = "new"
                            /\ seg'[o] = "survival" <=> age'[o] = "survival"
                            /\ age'[o] = "old1" => seg'[o] = "old1"
    BY <2>1, NextSegs DEF Aged, Matched, Segs
  <2> QED
    BY <2>2, <2>3, <2>4, <2>5 DEF Matched, IsWhite, Young
<1>8. ASSUME NEW t \in Tabs, t \in heap' PROVE OldTable(t)'
  <2>1. /\ t \in heap /\ OldTable(t) /\ Matched(t) /\ age[t] \in Ages
        /\ age'[t] = Aged(age[t]) /\ refs'[t] = refs[t]
        /\ color'[t] = IF age[t] = "new" THEN "white" ELSE DoneColor(t)
    BY <1>1, <1>2, <1>3, <1>8 DEF Generations
  <2> SUFFICES ASSUME age[t] # "new"
               PROVE  /\ color'[t] = "black" <=> age'[t] # "touched1"
                      /\ \A x \in refs[t] : color'[x] = "white" =>
                           \/ age'[t] = "touched1"
                           \/ age'[t] \in {"old1", "touched2"} /\ age'[x] = "survival"
    BY <2>1 DEF OldTable, IsOld, IsBlack, Remembers, IsWhite, Aged
  <2>2. color'[t] = "black" /\ age'[t] # "touched1"
    BY <1>5, <2>1 DEF Aged
  <2>3. ASSUME NEW x \in refs[t], color'[x] = "white"
        PROVE  age'[t] \in {"old1", "touched2"} /\ age'[x] = "survival"
    <3>1. x \in heap \ Freed
      BY <1>1, <1>4, <1>8, <2>1 DEF HeapClosed
    <3>2. x \in Obj /\ age[x] = "new" /\ age'[x] = "survival" /\ IsWhite(x)
      BY <1>1, <1>3, <1>6, <2>3, <3>1 DEF Aged, Matched, Young
    <3>3. age[t] \in {"survival", "touched1"}
      BY <2>1, <3>2 DEF OldTable, Remembers, IsOld
    <3> QED
      BY <2>1, <3>2, <3>3 DEF Aged
  <2> QED
    BY <2>2, <2>3
<1> QED
  BY <1>1, <1>4, <1>7, <1>8 DEF GenInv, Generations

(* A full collection keeps a closed set.                                   *)
LEMMA FullGenerations ==
  ASSUME OnlyTables, GenInv, Full, TypeOK', StackInv', TouchedListed'
  PROVE  GenInv'
<1> USE Kinds
<1> DEFINE M1 == LeastClosed({Main}, Obj, Obj)
           F == (armed \cap heap) \ M1
           Kept == LeastClosed(M1 \cup F, Obj, Obj)
<1>0. Kept = LeastClosed(M1 \cup F, Obj, Obj) /\ F \subseteq Obj /\ M1 \subseteq Obj
  BY LeastClosedContains DEF heap
<1>1. FullFrom(M1, F, Kept) /\ phase' = "full" /\ infin' = infin
  <2>1. \E m \in {LeastClosed({Main}, Obj, Obj)} :
        \E f \in {(armed \cap heap) \ m} :
        \E k \in {LeastClosed(m \cup f, Obj, Obj)} : FullFrom(m, f, k)
    BY DEF Full, FullFrom
  <2>2. FullFrom(M1, F, Kept)
    BY <2>1
  <2>3. phase' = "full" /\ infin' = infin
    BY DEF Full
  <2> QED
    BY <2>2, <2>3
<1> HIDE DEF M1, F, Kept
<1>2. Kept \subseteq Obj /\ M1 \cup F \subseteq Kept
  BY <1>0, LeastClosedContains
<1>3. \A o \in Kept : refs[o] \subseteq Kept
  <2> SUFFICES ASSUME NEW o \in Kept, NEW x \in refs[o] PROVE x \in Kept
    OBVIOUS
  <2>1. o \in Obj /\ x \in Obj
    BY <1>2 DEF GenInv, TypeOK
  <2> QED
    BY <1>0, <2>1, LeastClosedClosed
<1>4. heap' = Kept
  BY <1>1, <1>2 DEF FullFrom, heap
<1>5. HeapClosed' /\ grayagain' \subseteq heap'
  BY <1>1, <1>2, <1>3, <1>4 DEF HeapClosed, FullFrom
<1> QED
  BY <1>1, <1>5 DEF GenInv

(* Entering generational mode makes everything old.                        *)
LEMMA EnterGenerations ==
  ASSUME OnlyTables, GenInv, Enter, TypeOK', StackInv', TouchedListed'
  PROVE  GenInv'
<1> USE Kinds
<1>1. /\ armed = {} /\ Uvs = {} /\ UNCHANGED <<refs, infin>> /\ phase' = "idle"
      /\ gray' = {} /\ grayagain' = Threads \cap heap
  BY DEF Enter, OnlyTables, GenInv, TypeOK, heapvars
<1>2. \A o \in Obj :
        /\ o \in heap => age'[o] = "old"
        /\ color'[o] = IF o \notin heap THEN "free" ELSE IF o \in Threads THEN "gray" ELSE "black"
        /\ o \in heap => seg'[o] = IF o \in Strs THEN "off" ELSE "old"
  BY <1>1 DEF Enter, IsOpen
<1>3. heap' = heap /\ heap \subseteq Obj
  BY <1>2 DEF heap
<1>4. HeapClosed' /\ grayagain' \subseteq heap'
  BY <1>1, <1>3 DEF GenInv, HeapClosed
<1>5. \A o \in heap : Matched(o)'
  BY <1>2, <1>3, GenAssumption DEF Matched, IsWhite, Young, Touched
<1>6. \A t \in Tabs \cap heap : OldTable(t)'
  <2> SUFFICES ASSUME NEW t \in Tabs \cap heap PROVE OldTable(t)'
    OBVIOUS
  <2>1. color'[t] = "black" /\ age'[t] = "old"
    BY <1>2, GenAssumption
  <2>2. \A x \in refs'[t] : color'[x] # "white"
    BY <1>1, <1>2, <1>3 DEF GenInv, HeapClosed
  <2> QED
    BY <2>1, <2>2 DEF OldTable, IsBlack, Remembers, IsWhite
<1> QED
  BY <1>1, <1>3, <1>4, <1>5, <1>6 DEF GenInv, Generations

(* A step that only moves references to objects in use between stacks.     *)
LEMMA QuietGenerations ==
  ASSUME GenInv, UNCHANGED <<color, age, seg, gray, grayagain, infin>>,
         phase # "full" \/ phase' = "full",
         \A o \in heap : refs'[o] \subseteq heap,
         \A t \in Tabs \cap heap : refs'[t] = refs[t],
         TypeOK', StackInv', TouchedListed'
  PROVE  GenInv'
<1>1. heap' = heap
  BY DEF heap
<1>2. HeapClosed' /\ grayagain' \subseteq heap' /\ ~infin'
  BY <1>1 DEF GenInv, HeapClosed
<1>3. ASSUME Generations PROVE Generations'
  <2>1. \A o \in heap : Matched(o) => Matched(o)'
    BY DEF Matched, IsWhite, Young
  <2>2. \A t \in Tabs \cap heap : OldTable(t) => OldTable(t)'
    BY DEF OldTable, IsOld, IsBlack, Remembers, IsWhite
  <2> QED
    BY <1>1, <1>3, <2>1, <2>2 DEF Generations
<1> QED
  BY <1>2, <1>3 DEF GenInv

(* A new object is in no table yet.                                        *)
LEMMA NewGenerations ==
  ASSUME OnlyTables, GenInv, phase # "full", NEW o, New(o),
         TypeOK', StackInv', TouchedListed'
  PROVE  GenInv'
<1> USE Kinds
<1>1. /\ o \in Obj /\ o \notin heap /\ heap \subseteq Obj /\ Main \in heap /\ o # Main
      /\ UNCHANGED <<gray, grayagain, infin, phase>>
  BY DEF New, GenInv, StackInv, heap, finvars
<1>2. /\ color'[o] = "white" /\ age'[o] = "new" /\ refs'[o] = {}
      /\ seg'[o] = IF o \in Strs THEN "off" ELSE "nursery"
      /\ refs'[Main] = refs[Main] \cup {o}
      /\ \A x \in Obj \ {o} : /\ color'[x] = color[x] /\ age'[x] = age[x] /\ seg'[x] = seg[x]
                              /\ x # Main => refs'[x] = refs[x]
  BY <1>1 DEF New, GenInv, TypeOK
<1>3. heap' = heap \cup {o}
  BY <1>1, <1>2 DEF heap
<1>4. HeapClosed' /\ grayagain' \subseteq heap' /\ ~infin'
  BY <1>1, <1>2, <1>3 DEF GenInv, HeapClosed
<1>5. Generations /\ \A x \in heap : refs[x] \subseteq heap
  BY DEF GenInv, HeapClosed
<1>6. ASSUME NEW x \in heap' PROVE Matched(x)'
  <2>1. CASE x = o
    BY <1>2, <2>1 DEF Matched, IsWhite, Young, Touched
  <2>2. CASE x # o
    <3>1. Matched(x) /\ color'[x] = color[x] /\ age'[x] = age[x] /\ seg'[x] = seg[x]
      BY <1>1, <1>2, <1>3, <1>5, <1>6, <2>2 DEF Generations
    <3> QED
      BY <3>1 DEF Matched, IsWhite, Young
  <2> QED
    BY <2>1, <2>2
<1>7. ASSUME NEW t \in Tabs \cap heap' PROVE OldTable(t)'
  <2>1. CASE t = o
    BY <1>2, <2>1 DEF OldTable, IsOld
  <2>2. CASE t # o
    <3>1. t # Main
      BY GenAssumption
    <3>2. /\ OldTable(t) /\ color'[t] = color[t] /\ age'[t] = age[t] /\ refs'[t] = refs[t]
          /\ refs[t] \subseteq heap
      BY <1>1, <1>2, <1>3, <1>5, <1>7, <2>2, <3>1 DEF Generations
    <3>3. \A x \in refs[t] : color'[x] = color[x] /\ age'[x] = age[x]
      BY <1>1, <1>2, <3>2
    <3> QED
      BY <3>2, <3>3 DEF OldTable, IsOld, IsBlack, Remembers, IsWhite
  <2> QED
    BY <2>1, <2>2
<1> QED
  BY <1>1, <1>4, <1>5, <1>6, <1>7 DEF GenInv, Generations

(* A change of a table, with the barrier's decision.                       *)
LEMMA StoreGenerations ==
  ASSUME GenInv, phase # "full", NEW t \in Tabs \cap heap, NEW R \in SUBSET heap,
         refs' = [refs EXCEPT ![t] = R],
         \/ IsBlack(t) /\ BarrierBack(t)
         \/ /\ \A x \in R \ refs[t] : ~(IsBlack(t) /\ IsWhite(x))
            /\ UNCHANGED <<color, age, grayagain>>,
         UNCHANGED <<seg, gray, infin, phase>>, TypeOK', StackInv', TouchedListed'
  PROVE  GenInv'
<1> USE Kinds
<1>1. t \in Obj /\ t \notin Strs /\ t \notin Threads /\ Generations /\ heap \subseteq Obj
  BY GenAssumption DEF GenInv, heap
<1>2. refs'[t] = R /\ \A o \in Obj \ {t} : refs'[o] = refs[o]
  BY <1>1 DEF GenInv, TypeOK
<1>3. Matched(t) /\ OldTable(t)
  BY <1>1 DEF Generations
<1>4. CASE IsBlack(t) /\ BarrierBack(t)
  <2>1. ~IsWhite(t) /\ ~Young(t) /\ IsOld(t)
    BY <1>3, <1>4 DEF Matched, IsBlack, IsWhite, Young, IsOld
  <2>2. /\ color'[t] = "gray" /\ age'[t] = "touched1"
        /\ \A o \in Obj \ {t} : color'[o] = color[o] /\ age'[o] = age[o]
        /\ grayagain' \subseteq grayagain \cup {t}
    BY <1>1, <1>4, <2>1 DEF BarrierBack, GenInv, TypeOK
  <2>3. heap' = heap
    BY <1>1, <2>2 DEF heap
  <2>4. HeapClosed' /\ grayagain' \subseteq heap' /\ ~infin'
    BY <1>1, <1>2, <2>2, <2>3 DEF GenInv, HeapClosed
  <2>5. \A o \in heap : Matched(o)'
    <3>1. Matched(t)'
      BY <1>1, <1>3, <2>1, <2>2 DEF Matched, IsWhite, Young
    <3>2. \A o \in heap \ {t} : Matched(o)'
      BY <1>1, <2>2 DEF Generations, Matched, IsWhite, Young
    <3> QED
      BY <3>1, <3>2
  <2>6. ASSUME NEW u \in Tabs \cap heap PROVE OldTable(u)'
    <3>1. CASE u = t
      BY <2>2, <3>1 DEF OldTable, IsBlack, Remembers
    <3>2. CASE u # t
      <4>1. OldTable(u) /\ color'[u] = color[u] /\ age'[u] = age[u] /\ refs'[u] = refs[u]
        BY <1>1, <1>2, <2>2, <3>2 DEF Generations
      <4>2. \A x \in refs[u] : color'[x] = "white" => color[x] = "white" /\ age'[x] = age[x]
        BY <1>1, <2>2 DEF GenInv, TypeOK
      <4> QED
        BY <4>1, <4>2 DEF OldTable, IsOld, IsBlack, Remembers, IsWhite
    <3> QED
      BY <3>1, <3>2
  <2> QED
    BY <1>1, <2>3, <2>4, <2>5, <2>6 DEF GenInv, Generations
<1>5. CASE /\ \A x \in R \ refs[t] : ~(IsBlack(t) /\ IsWhite(x))
           /\ UNCHANGED <<color, age, grayagain>>
  <2>1. heap' = heap
    BY <1>5 DEF heap
  <2>2. HeapClosed' /\ grayagain' \subseteq heap' /\ ~infin'
    BY <1>1, <1>2, <1>5, <2>1 DEF GenInv, HeapClosed
  <2>3. \A o \in heap : Matched(o)'
    BY <1>1, <1>5 DEF Generations, Matched, IsWhite, Young
  <2>4. ASSUME NEW u \in Tabs \cap heap PROVE OldTable(u)'
    <3>1. OldTable(u) /\ (u # t => refs'[u] = refs[u])
      BY <1>1, <1>2 DEF Generations
    <3>2. u = t => \A x \in refs'[t] : x \notin refs[t] => ~(IsBlack(t) /\ IsWhite(x))
      BY <1>2, <1>5
    <3> QED
      BY <1>5, <3>1, <3>2 DEF OldTable, IsOld, IsBlack, Remembers, IsWhite
  <2> QED
    BY <1>1, <2>1, <2>2, <2>3, <2>4 DEF GenInv, Generations
<1> QED
  BY <1>4, <1>5

(* The program keeps the generations apart.                                *)
LEMMA MutatorGenerations ==
  ASSUME OnlyTables, GenInv, phase # "full", Mutator, TypeOK', StackInv', TouchedListed'
  PROVE  GenInv'
<1> USE Kinds
<1>1. /\ Main \in heap /\ Stack \subseteq heap /\ heap \subseteq Obj
      /\ refs \in [Obj -> SUBSET Obj]
      /\ \A o \in heap : refs[o] \subseteq heap
  BY DEF GenInv, StackInv, HeapClosed, Stack, heap, TypeOK
<1>2. Funcs = {} /\ Uvs = {} /\ Armable = {} /\ ~infin
  BY DEF OnlyTables, GenInv
<1>3. ASSUME NEW th \in Threads, NEW x \in heap,
             refs' = Push(th, x) \/ refs' = [refs EXCEPT ![th] = @ \ {x}],
             UNCHANGED <<owner, gcvars, finvars>>
      PROVE  GenInv'
  <2>1. \A o \in heap : refs'[o] \subseteq heap
    BY <1>1, <1>3 DEF Push
  <2>2. \A t \in Tabs : refs'[t] = refs[t]
    BY <1>1, <1>3, GenAssumption DEF Push
  <2> QED
    BY <1>3, <2>1, <2>2, QuietGenerations DEF gcvars, finvars
<1>4. ASSUME NEW o \in Obj \ Uvs, New(o) PROVE GenInv'
  BY <1>4, NewGenerations
<1>5. ASSUME NEW s \in Strs, Intern(s) PROVE GenInv'
  BY <1>3, <1>5 DEF Intern
<1>6. ASSUME NEW o \in Obj, NEW x \in Obj, Load(o, x) PROVE GenInv'
  <2>1. x \in heap
    BY <1>1, <1>2, <1>6 DEF Load
  <2> QED
    BY <1>3, <1>6, <2>1 DEF Load
<1>7. ASSUME NEW th \in Threads, NEW x \in Obj, Pop(th, x) \/ PushTo(th, x) PROVE GenInv'
  <2>1. Stacks \subseteq heap
    BY <1>1 DEF Stacks
  <2>2. x \in heap
    BY <1>1, <1>7, <2>1 DEF Pop, PushTo
  <2> QED
    BY <1>3, <1>7, <2>2 DEF Pop, PushTo
<1>8. ASSUME NEW t \in Tabs, NEW old \in Obj \cup {Nil}, TabClear(t, old) PROVE GenInv'
  <2>1. /\ t \in heap /\ refs[t] \ {old} \in SUBSET heap
        /\ refs' = [refs EXCEPT ![t] = refs[t] \ {old}]
        /\ UNCHANGED <<seg, gray, infin, phase>>
        /\ (IsBlack(t) /\ BarrierBack(t)) \/ UNCHANGED <<color, age, grayagain>>
    BY <1>1, <1>8 DEF TabClear, finvars
  <2> QED
    BY <2>1, StoreGenerations
<1>9. ASSUME NEW t \in Tabs, NEW old \in Obj \cup {Nil}, NEW v \in Obj, TabStore(t, old, v)
      PROVE  GenInv'
  <2> DEFINE R == (refs[t] \ {old}) \cup {v}
  <2>1. /\ t \in heap /\ R \in SUBSET heap
        /\ refs' = [refs EXCEPT ![t] = R]
        /\ UNCHANGED <<seg, gray, infin, phase>>
        /\ \/ IsBlack(t) /\ BarrierBack(t)
           \/ ~(IsBlack(t) /\ IsWhite(v)) /\ UNCHANGED <<color, age, grayagain>>
    BY <1>1, <1>9 DEF TabStore, finvars
  <2>2. \A x \in R \ refs[t] : x = v
    OBVIOUS
  <2> HIDE DEF R
  <2>3. \/ IsBlack(t) /\ BarrierBack(t)
        \/ /\ \A x \in R \ refs[t] : ~(IsBlack(t) /\ IsWhite(x))
           /\ UNCHANGED <<color, age, grayagain>>
    BY <2>1, <2>2
  <2> QED
    BY <2>1, <2>3, StoreGenerations
<1> QED
  BY <1>2, <1>4, <1>5, <1>6, <1>7, <1>8, <1>9 DEF Mutator, FinReturn

(* Every step keeps GenInv.                                                *)
LEMMA GenStep ==
  ASSUME OnlyTables, GenInv, [Next]_vars, TypeOK'
  PROVE  GenInv'
<1>1. Sound
  BY ClosedIsSound
<1>2. StackInv' /\ TouchedListed'
  <2>1. StackInv'
    BY <1>1, StepKeeps, MinorKeeps DEF GenInv
  <2> QED
    BY <2>1, TouchedStep DEF GenInv
<1>3. CASE UNCHANGED vars
  <2>1. UNCHANGED <<refs, color, age, seg, gray, grayagain, infin, phase>>
    BY <1>3 DEF vars, heapvars, gcvars, finvars
  <2>2. \A o \in heap : refs'[o] \subseteq heap
    BY <2>1 DEF GenInv, HeapClosed
  <2> QED
    BY <1>2, <2>1, <2>2, QuietGenerations
<1>4. CASE (phase = "idle" \/ infin) /\ Mutator
  BY <1>2, <1>4, MutatorGenerations DEF GenInv
<1>5. CASE MinorDone
  <2>1. UNCHANGED <<refs, color, age, seg, gray, grayagain, infin>> /\ phase = "minor"
    BY <1>5 DEF MinorDone, heapvars, gcvars
  <2>2. \A o \in heap : refs'[o] \subseteq heap
    BY <2>1 DEF GenInv, HeapClosed
  <2> QED
    BY <1>2, <2>1, <2>2, QuietGenerations
<1>6. ASSUME NEW o \in Tabs, Finalize(o) PROVE FALSE
  BY <1>6 DEF Finalize, OnlyTables, GenInv, TypeOK
<1> QED
  BY <1>2, <1>3, <1>4, <1>5, <1>6, MinorGenerations, FullGenerations, EnterGenerations
     DEF Next, Collector

(* The state the collector starts from, in generational mode.              *)
LEMMA InitGenerations ==
  ASSUME OnlyTables, Init, TypeOK
  PROVE  GenInv
<1> USE Kinds
<1>1. heap = {Main} /\ color[Main] = "gray" /\ age[Main] = "old" /\ seg[Main] = "old"
  BY DEF Init, heap
<1>2. StackInv
  BY InitKept
<1>3. Main \notin Tabs /\ Main \notin Strs
  BY GenAssumption
<1>4. Matched(Main)
  BY <1>1, <1>3 DEF Matched, IsWhite, Young, Touched
<1>5. TouchedListed /\ HeapClosed /\ ~infin /\ grayagain \subseteq heap /\ gray = {}
  BY <1>1, <1>3 DEF Init, TouchedListed, HeapClosed
<1> QED
  BY <1>1, <1>2, <1>3, <1>4, <1>5 DEF GenInv, Generations

(* Without closures, upvalues and finalizers the generations stay apart:   *)
(* the color and the segment of an object go with its age, and what is     *)
(* white in an old table has been seen once.                               *)
THEOREM GenerationsHold == ASSUME OnlyTables PROVE Spec => []GenInv
<1>1. Init /\ TypeOK => GenInv
  BY InitGenerations
<1>2. GenInv /\ [Next]_vars /\ TypeOK' => GenInv'
  BY GenStep
<1> QED
  BY <1>1, <1>2, TypeCorrect, PTL DEF Spec

(* Then a minor collection frees nothing that is in use: the age bits, the *)
(* back barrier and the revisit of the "old1" objects find every reference *)
(* from an old object to a young one (gc_gen_minor54).                     *)
THEOREM MinorIsSafe == ASSUME OnlyTables PROVE Spec => []NoDangling
<1>1. GenInv => NoDangling
  BY ClosedIsSound DEF NoDangling
<1> QED
  BY <1>1, GenerationsHold, PTL

(* Then whatever refers to a white object is a root of the next minor      *)
(* collection.                                                             *)
THEOREM OldIsRemembered == ASSUME OnlyTables PROVE Spec => []OldToYoung
<1>1. GenInv => OldToYoung
  BY RootsOrOld DEF OldToYoung
<1> QED
  BY <1>1, GenerationsHold, PTL

(* Then the objects past the swept segments are old.                       *)
THEOREM SegmentsByAge == ASSUME OnlyTables PROVE Spec => []OldSegment
<1>1. ASSUME GenInv, NEW o \in heap, phase = "idle", seg[o] \in {"old1", "old"}
      PROVE  IsOld(o)
  <2>1. Matched(o) /\ age[o] \in Ages /\ o \in Obj
    BY <1>1 DEF GenInv, Generations, TypeOK, heap
  <2> QED
    BY <1>1, <2>1 DEF Matched, IsOld, Young
<1>2. GenInv => OldSegment
  BY <1>1 DEF OldSegment
<1> QED
  BY <1>2, GenerationsHold, PTL

====
