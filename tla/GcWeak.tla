------------------------------- MODULE GcWeak -------------------------------
(***************************************************************************)
(* Weak tables and ephemerons in the incremental collector of lj_gc.c: how *)
(* tables are marked entry by entry, which list a weak table waits on, and *)
(* the order of the phases in atomic(), with the separation of tables that *)
(* have a finalizer in between.                                            *)
(*                                                                         *)
(* The objects are tables with entries, and strings.  GcInc has the other  *)
(* kinds, the sweep and its barriers: here the sweep is part of the atomic *)
(* step, since what is dead after it is out of reach.  The thread has been *)
(* traversed when the cycle starts, and once more in the atomic phase.     *)
(***************************************************************************)
EXTENDS Naturals, FiniteSets

CONSTANTS Tabs, Strs,
          Modes,       \* bound: for every table the values its __mode may have
          Armable,     \* bound: tables that may get a metatable with __gc
          Fields,      \* bound: the entries [t, k, v] that a store can make
          MaxEntries   \* bound: entries of all tables together

Objs == Tabs \cup Strs

ASSUME WeakAssumption ==
  /\ Tabs \cap Strs = {} /\ IsFiniteSet(Objs)
  /\ \A t \in Tabs : Modes[t] # {} /\ Modes[t] \subseteq SUBSET {"k", "v"}
  /\ Armable \subseteq Tabs /\ MaxEntries \in Nat
  /\ Fields \subseteq [t : Tabs, k : Objs, v : Objs]

VARIABLES
  ent,      \* entries of the tables: [t, k, v]
  mode,     \* which of keys and values are weak, by the table's metatable
  stack,    \* tables on the stack
  armed,    \* LJ_TAB_HAS_GC
  live,     \* allocated objects
  gcstate,  \* "pause", "propagate", or "full" in the middle of lj_gc_fullgc
  mmudata,  \* gc.mmudata: separated tables that wait for their finalizer
  white,    \* white objects
  black,    \* black tables and marked strings; what is neither is gray
  lists     \* by name, the tables linked on a list through their gclist

mutvars == <<ent, mode, stack, armed, live>>
vars == <<mutvars, gcstate, mmudata, white, black, lists>>

WeakLists == {"weak", "ephemeron", "allweak"}
Lists == WeakLists \cup {"gray", "grayagain"}
Unlinked == [l \in Lists |-> {}]
On(s, ls) == UNION {s.lists[l] : l \in ls}

\* gc_isweakkey: strings are not weak keys (nor weak values).
IsWeakKey(k) == k \in Tabs

\* What the program can get hold of: a weak table gives it both key and value.
Accessible ==
  LET Go[n \in 0..Cardinality(Tabs)] ==
        IF n = 0 THEN stack
        ELSE LET S == Go[n - 1] IN S \cup UNION {{e.k, e.v} : e \in {d \in ent : d.t \in S}}
  IN Go[Cardinality(Tabs)]

-----------------------------------------------------------------------------
\* Marking.  s holds what a collection changes: white, black, lists, ent, armed,
\* mmudata.

\* gc_mark of the objects in S: strings are done at once, tables become gray.
Mark(s, S) ==
  LET W == S \cap s.white
  IN [s EXCEPT !.white = @ \ W, !.black = @ \cup (W \cap Strs),
               !.lists.gray = @ \cup (W \cap Tabs)]

ListOf(m) == CASE m = {"k"} -> "ephemeron" [] m = {"v"} -> "weak" [] OTHER -> "allweak"

\* Off the gray list and black, or gray again and on the list of its kind.
Linked_Black(s, t) ==
  LET off == [s EXCEPT !.lists.gray = @ \ {t}, !.black = @ \cup {t}]
  IN IF mode[t] = {} THEN off ELSE [off EXCEPT !.lists[ListOf(mode[t])] = @ \cup {t}]
Linked(s, t) ==
  LET off == [s EXCEPT !.lists.gray = @ \ {t}]
  IN IF mode[t] = {} THEN [off EXCEPT !.black = @ \cup {t}]
     ELSE [off EXCEPT !.lists[ListOf(mode[t])] = @ \cup {t}]

\* gc_isreachable_weakkey.
KeyReachable(s, k) == ~(IsWeakKey(k) /\ k \in s.white)

Traversed_StrongKey(s, t) ==
  LET es == {e \in s.ent : e.t = t}
      keys == IF "k" \in mode[t] THEN {} ELSE {e.k : e \in es}
      vals == IF "v" \in mode[t] THEN {} ELSE {e.v : e \in es}
  IN Mark(Linked(s, t), keys \cup vals)
\* gc_traverse_tab in propagatemark.  The value of a weak key that is not marked
\* yet waits, too.
Traversed(s, t) ==
  LET es == {e \in s.ent : e.t = t}
      keys == IF "k" \in mode[t] THEN {} ELSE {e.k : e \in es}
      vals == IF "v" \in mode[t] THEN {}
              ELSE {e.v : e \in {d \in es : "k" \in mode[t] => KeyReachable(s, d.k)}}
  IN Mark(Linked(s, t), keys \cup vals)

\* gc_propagate_gray.  A table is gray once only: no more steps than tables.
PropagateAll(s) ==
  LET P[n \in 0..Cardinality(Tabs)] ==
        IF n = 0 THEN s
        ELSE LET p == P[n - 1]
             IN IF p.lists.gray = {} THEN p
                ELSE Traversed(p, CHOOSE t \in p.lists.gray : TRUE)
  IN P[Cardinality(Tabs)]

\* What gc_mark_ephemeron marks in one pass over the list of ephemeron tables.
EphemeronValues(s) ==
  {e.v : e \in {d \in s.ent : d.t \in s.lists.ephemeron /\ KeyReachable(s, d.k)}} \cap s.white

\* while (gc_mark_ephemeron(...)) gc_propagate_gray(...).
Ephemerons(s) ==
  LET E[n \in 0..Cardinality(Objs)] ==
        IF n = 0 THEN s
        ELSE LET e == E[n - 1]
                 vals == EphemeronValues(e)
             IN IF vals = {} THEN e ELSE PropagateAll(Mark(e, vals))
  IN E[Cardinality(Objs)]

-----------------------------------------------------------------------------
\* Clearing and separation

\* gc_mayclear: a string is kept, and marked for that.
MayClear(s, o, val) == o \in Tabs /\ (o \in s.white \/ (val /\ o \in s.mmudata))

ClearValues(s, ls) ==
  LET es == {e \in s.ent : e.t \in On(s, ls)}
      clear == {e \in es : MayClear(s, e.v, TRUE)}
  IN [Mark(s, {e.v : e \in es \ clear} \cap Strs) EXCEPT !.ent = @ \ clear]

ClearKeys(s, ls) ==
  LET es == {e \in s.ent : e.t \in On(s, ls)}
      clear == {e \in es : MayClear(s, e.k, FALSE)}
  IN [Mark(s, {e.k : e \in es \ clear} \cap Strs) EXCEPT !.ent = @ \ clear]

\* lj_gc_separateudata.
Separated(s) ==
  LET sep == s.armed \cap s.white
  IN [s EXCEPT !.armed = @ \ sep, !.mmudata = @ \cup sep]

\* What is on these lists goes to the gray list.
Relinked(s, ls) ==
  [s EXCEPT !.lists = [l \in Lists |-> IF l = "gray" THEN @[l] \cup On(s, ls)
                                       ELSE IF l \in ls THEN {} ELSE @[l]]]

\* The rest of the cycle: what is white is freed, everything else is white again.
Swept(s) ==
  /\ ent' = {e \in s.ent : e.t \notin s.white}
  /\ live' = live \ s.white /\ white' = live'
  /\ black' = {} /\ lists' = Unlinked
  /\ armed' = s.armed /\ mmudata' = s.mmudata
  /\ gcstate' = "pause"
  /\ UNCHANGED <<mode, stack>>

AtomicPhase_NoSecondClear(s) ==
  \E first \in {Ephemerons(PropagateAll(Relinked(s, WeakLists)))} :
  \E second \in {Ephemerons(PropagateAll(Mark(Relinked(first, {"grayagain"}), stack)))} :
  \E apart \in {Separated(ClearValues(second, {"weak", "allweak"}))} :
  \E third \in {Ephemerons(PropagateAll(Mark(apart, apart.mmudata)))} :
    Swept(ClearKeys(third, {"ephemeron", "allweak"}))
\* atomic(): weak tables are traversed again, for their mode may have changed; then
\* what is on grayagain.  Weak values are cleared before tables are separated, weak
\* keys, and the values in weak tables that are resurrected, at the end.
AtomicPhase(s) ==
  \E first \in {Ephemerons(PropagateAll(Relinked(s, WeakLists)))} :
  \E second \in {Ephemerons(PropagateAll(Mark(Relinked(first, {"grayagain"}), stack)))} :
  \E apart \in {Separated(ClearValues(second, {"weak", "allweak"}))} :
  \E third \in {Ephemerons(PropagateAll(Mark(apart, apart.mmudata)))} :
    Swept(ClearValues(ClearKeys(third, {"ephemeron", "allweak"}), {"weak", "allweak"}))

Now == [ent |-> ent, white |-> white, black |-> black, lists |-> lists,
        armed |-> armed, mmudata |-> mmudata]
\* lj_gc_fullgc resets colors and lists of a cycle that it finds under way.
Reset == [Now EXCEPT !.white = live, !.black = {}, !.lists = Unlinked]

Marked(s) == white' = s.white /\ black' = s.black /\ lists' = s.lists

-----------------------------------------------------------------------------
\* The collector.  No cycle starts before all finalizers have been called: a full
\* collection may, and is left out then (GcInc has it).

MarkStart ==
  /\ gcstate = "pause" /\ mmudata = {}
  /\ gcstate' = "propagate"
  /\ Marked(Mark(Reset, stack))
  /\ UNCHANGED <<mutvars, mmudata>>

Propagate(t) ==
  /\ gcstate = "propagate" /\ t \in lists.gray
  /\ \E s \in {Traversed(Now, t)} : Marked(s)
  /\ UNCHANGED <<mutvars, gcstate, mmudata>>

Atomic ==
  /\ gcstate \in {"propagate", "full"} /\ lists.gray = {}
  /\ AtomicPhase(Now)

\* lj_gc_fullgc up to its atomic phase, which follows at once.
FullGC ==
  /\ gcstate # "full" /\ mmudata = {}
  /\ gcstate' = "full"
  /\ \E s \in {PropagateAll(Mark(Reset, stack))} : Marked(s)
  /\ UNCHANGED <<mutvars, mmudata>>

\* gc_finalize: the table goes to its __gc.
Finalize(t) ==
  /\ gcstate = "pause" /\ t \in mmudata
  /\ mmudata' = mmudata \ {t} /\ stack' = stack \cup {t}
  /\ UNCHANGED <<ent, mode, armed, live, gcstate, white, black, lists>>

-----------------------------------------------------------------------------
\* The program

\* A table, with the metatable that it is given at once.
New(t, m) ==
  /\ t \in Tabs \ live /\ m \in Modes[t]
  /\ live' = live \cup {t} /\ white' = white \cup {t}
  /\ mode' = [mode EXCEPT ![t] = m]
  /\ stack' = stack \cup {t}
  /\ UNCHANGED <<ent, armed, gcstate, mmudata, black, lists>>

Push(t) ==
  /\ t \in Accessible \ stack
  /\ stack' = stack \cup {t}
  /\ UNCHANGED <<ent, mode, armed, live, gcstate, mmudata, white, black, lists>>

Pop(t) ==
  /\ t \in stack
  /\ stack' = stack \ {t}
  /\ UNCHANGED <<ent, mode, armed, live, gcstate, mmudata, white, black, lists>>

\* lj_gc_barrierback.
BarrierBack(t) ==
  /\ t \in black
  /\ black' = black \ {t}
  /\ lists' = [lists EXCEPT !.grayagain = @ \cup {t}]
NoBarrier == UNCHANGED <<black, lists>>

Put(e) ==
  /\ {e.t, e.k, e.v} \subseteq Accessible \cup Strs
  /\ ent' = {d \in ent : d.t # e.t \/ d.k # e.k} \cup {e}
  /\ Cardinality(ent') <= MaxEntries
  /\ live' = live \cup {e.k, e.v}
  /\ white' = white \cup ({e.k, e.v} \ live)
  /\ UNCHANGED <<mode, stack, armed, gcstate, mmudata>>

Store_NoBarrier(e) == Put(e) /\ NoBarrier
\* A store with key and value from anywhere; a string is interned if need be.  The
\* barrier tests the table, in some places also the color of what is stored.
Store(e) ==
  /\ Put(e)
  /\ \/ BarrierBack(e.t)
     \/ ~(e.t \in black /\ {e.k, e.v} \cap white' # {}) /\ NoBarrier

\* nil is stored.
Clear(e) ==
  /\ e \in ent /\ e.t \in Accessible
  /\ ent' = ent \ {e}
  /\ BarrierBack(e.t) \/ NoBarrier
  /\ UNCHANGED <<mode, stack, armed, live, gcstate, mmudata, white>>

\* setmetatable: with another __mode, or with a __gc.  The barrier depends on the
\* color of the metatable.
SetMode(t, m) ==
  /\ t \in Accessible /\ m \in Modes[t] \ {mode[t]}
  /\ mode' = [mode EXCEPT ![t] = m]
  /\ BarrierBack(t) \/ NoBarrier
  /\ UNCHANGED <<ent, stack, armed, live, gcstate, mmudata, white>>

Arm(t) ==
  /\ t \in (Accessible \cap Armable) \ armed
  /\ armed' = armed \cup {t}
  /\ BarrierBack(t) \/ NoBarrier
  /\ UNCHANGED <<ent, mode, stack, live, gcstate, mmudata, white>>

-----------------------------------------------------------------------------
Init ==
  /\ ent = {} /\ stack = {} /\ armed = {} /\ mmudata = {} /\ live = {}
  /\ mode \in {m \in [Tabs -> SUBSET {"k", "v"}] : \A t \in Tabs : m[t] \in Modes[t]}
  /\ gcstate = "pause"
  /\ white = {} /\ black = {} /\ lists = Unlinked

Program ==
  \/ \E t \in Tabs :
       \/ Push(t) \/ Pop(t) \/ Arm(t)
       \/ \E m \in Modes[t] : New(t, m) \/ SetMode(t, m)
  \/ \E e \in Fields : Store(e)
  \/ \E e \in ent : Clear(e)

Collector ==
  \/ MarkStart \/ Atomic \/ FullGC
  \/ \E t \in Tabs : Propagate(t) \/ Finalize(t)

Next == (gcstate # "full" /\ Program) \/ Collector

Spec == Init /\ [][Next]_vars

-----------------------------------------------------------------------------
\* Properties

\* The kinds and ranges of the state; every gray table, and no other, is linked, on
\* one list only, since it has one gclist.
TypeOK ==
  /\ \A e \in ent : e.t \in Tabs /\ e.k \in Objs /\ e.v \in Objs
  /\ \A e, f \in ent : e.t = f.t /\ e.k = f.k => e = f
  /\ \A t \in Tabs : mode[t] \in Modes[t]
  /\ stack \subseteq Tabs /\ armed \cup mmudata \subseteq Armable
  /\ gcstate \in {"pause", "propagate", "full"}
  /\ white \cup black \subseteq live /\ white \cap black = {}
  /\ UNION {lists[l] : l \in Lists} = (live \cap Tabs) \ (white \cup black)
  /\ \A l, m \in Lists : l # m => lists[l] \cap lists[m] = {}

\* No entry of a table, weak or not, no stack slot and no table that waits for its
\* finalizer refers to a freed object.
NoDangling ==
  stack \cup mmudata \cup armed \cup UNION {{e.t, e.k, e.v} : e \in ent} \subseteq live

\* The definition of the manual: the least set that has the roots, what strong
\* tables refer to, and the values of ephemerons whose keys are in it.
InUse(roots) ==
  LET Closed(S) ==
        \A e \in ent : e.t \in S =>
          /\ "k" \notin mode[e.t] => e.k \in S
          /\ "v" \notin mode[e.t] /\ ("k" \in mode[e.t] /\ IsWeakKey(e.k) => e.k \in S)
               => e.v \in S
  IN {o \in Objs : \A S \in SUBSET Objs : roots \subseteq S /\ Closed(S) => o \in S}

\* A collection frees nothing that is in use and clears no entry whose table, key
\* and value are, whatever the program did since the cycle started; a table that
\* waits for its finalizer is no value of a weak table, but may still be a key.
EntriesRight ==
  [][gcstate # "pause" /\ gcstate' = "pause" =>
       LET used == InUse(stack)
       IN /\ \A o \in used : o \in live'
          /\ \A e \in ent : /\ e.t \in used
                            /\ e.k \in used \cup Strs /\ e.v \in used \cup Strs
                            => e \in ent'
          /\ \A e \in ent' : "v" \in mode[e.t] => e.v \notin mmudata']_vars

\* A full collection finds exactly what the definition says: tables in use or
\* resurrected stay and no others, tables with __gc are separated if they are not
\* in use, and of the entries those remain that have what they need.
FullExact ==
  [][gcstate = "full" =>
       LET used == InUse(stack)
           kept == InUse(stack \cup mmudata')
           ValueStays(e) == IF e.t \in used THEN e.v \in used ELSE e.v \in kept \ mmudata'
       IN /\ mmudata' = armed \ used
          /\ live' \cap Tabs = kept \cap Tabs
          /\ ent' = {e \in ent : /\ e.t \in kept
                                 /\ "k" \in mode[e.t] => e.k \in kept \cup Strs
                                 /\ "v" \in mode[e.t] => e.v \in Strs \/ ValueStays(e)}]_vars
=============================================================================
