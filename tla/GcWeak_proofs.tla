--------------------------- MODULE GcWeak_proofs ---------------------------
(***************************************************************************)
(* Proofs about GcWeak: what marking through entries computes, that no     *)
(* collection frees or clears anything in use, and that a full collection  *)
(* finds exactly what the definition of weak tables says, for any tables   *)
(* and strings.                                                            *)
(***************************************************************************)
EXTENDS GcWeak, NatLemmas

Ents == [t : Tabs, k : Objs, v : Objs]
WeakModes == SUBSET {"k", "v"}

\* What a collection works on.
Heap == [ent : SUBSET Ents, white : SUBSET Objs, black : SUBSET Objs,
         lists : [Lists -> SUBSET Tabs], armed : SUBSET Objs, mmudata : SUBSET Objs]

-----------------------------------------------------------------------------
\* The inductive invariant.

\* Every live table is white, black or on one list.
Colored(s) ==
  /\ s \in Heap
  /\ s.white \cup s.black \subseteq live /\ s.white \cap s.black = {}
  /\ \A t \in Tabs : (\E l \in Lists : t \in s.lists[l]) <=> t \in live \ (s.white \cup s.black)
  /\ \A l, m \in Lists : l # m => s.lists[l] \cap s.lists[m] = {}

\* A black table refers to nothing white, by keys and values, weak or not.
BlackDone(s) == \A e \in ent : e.t \in s.black => e.k \notin s.white /\ e.v \notin s.white

\* Tables on the weak lists are there for their mode, with strong keys marked.
Waiting(s) ==
  /\ \A l \in WeakLists : \A t \in s.lists[l] : mode[t] # {} /\ l = ListOf(mode[t])
  /\ \A e \in ent : e.t \in s.lists["weak"] => e.k \notin s.white

\* Entries are cleared in tables with weak values that were marked.
Cleared(s) ==
  /\ s.ent \subseteq ent
  /\ \A e \in ent \ s.ent : e.t \in s.lists["weak"] \cup s.lists["allweak"]

\* Black tables are strong, except for these.
Fresh(s, B) == \A t \in Tabs \cap s.black : mode[t] = {} \/ t \in B

\* A set that has what its tables refer to, as far as their mode goes.
ClosedSet(S) ==
  \A e \in ent : e.t \in S =>
    /\ "k" \notin mode[e.t] => e.k \in S
    /\ "v" \notin mode[e.t] /\ ("k" \in mode[e.t] /\ IsWeakKey(e.k) => e.k \in S)
         => e.v \in S

\* No table is marked but those in U.
Bounded(s, U) == (live \cap Tabs) \ s.white \subseteq U

Typed ==
  /\ ent \subseteq Ents /\ live \subseteq Objs
  /\ mode \in [Tabs -> WeakModes] /\ \A t \in Tabs : mode[t] \in Modes[t]
  /\ \A e, f \in ent : e.t = f.t /\ e.k = f.k => e = f
  /\ stack \subseteq Tabs /\ armed \cup mmudata \subseteq Armable
  /\ gcstate \in {"pause", "propagate", "full"}

PhaseInv ==
  /\ gcstate = "pause" => black = {} /\ lists = Unlinked
  /\ gcstate # "pause" => mmudata = {}
  /\ gcstate = "full" =>
       lists["gray"] = {} /\ Fresh(Now, {}) /\ Bounded(Now, InUse(stack))

IInv == Typed /\ Colored(Now) /\ NoDangling /\ BlackDone(Now) /\ PhaseInv

-----------------------------------------------------------------------------
\* Colors and lists.

LEMMA ListNames ==
  /\ WeakLists = {"weak", "ephemeron", "allweak"}
  /\ Lists = {"weak", "ephemeron", "allweak", "gray", "grayagain"}
BY DEF WeakLists, Lists

\* The list of a weak table.
LEMMA ListOfFacts ==
  ASSUME NEW m \in WeakModes, m # {}
  PROVE  /\ ListOf(m) \in WeakLists
         /\ ListOf(m) = "weak" <=> "k" \notin m
         /\ ListOf(m) = "ephemeron" <=> "v" \notin m
<1>1. CASE m = {"k"}
  <2>1. ListOf(m) = "ephemeron"
    BY <1>1 DEF ListOf
  <2> QED
    BY <1>1, <2>1 DEF WeakLists
<1>2. CASE m = {"v"}
  <2>1. ListOf(m) = "weak"
    BY <1>2 DEF ListOf
  <2> QED
    BY <1>2, <2>1 DEF WeakLists
<1>3. CASE m # {"k"} /\ m # {"v"}
  <2>1. ListOf(m) = "allweak"
    BY <1>3 DEF ListOf
  <2>2. m = {"k", "v"}
    BY <1>3 DEF WeakModes
  <2> QED
    BY <2>1, <2>2 DEF WeakLists
<1> QED
  BY <1>1, <1>2, <1>3

\* One field is written.
WithList(s, l, X) == [s EXCEPT !.lists[l] = X]
WithColors(s, W, B) == [s EXCEPT !.white = W, !.black = B]

LEMMA Relisted ==
  ASSUME NEW s \in Heap, NEW l \in Lists, NEW X \in SUBSET Tabs,
         NEW r, r = WithList(s, l, X)
  PROVE  /\ r \in Heap /\ r.white = s.white /\ r.black = s.black
         /\ r.ent = s.ent /\ r.armed = s.armed /\ r.mmudata = s.mmudata
         /\ r.lists[l] = X /\ \A m \in Lists \ {l} : r.lists[m] = s.lists[m]
<1>1. /\ r.white = s.white /\ r.black = s.black
      /\ r.ent = s.ent /\ r.armed = s.armed /\ r.mmudata = s.mmudata
      /\ r.lists = [s.lists EXCEPT ![l] = X]
  BY DEF Heap, WithList
<1>2. s.lists \in [Lists -> SUBSET Tabs]
  BY DEF Heap
<1>3. r.lists \in [Lists -> SUBSET Tabs]
  BY <1>1, <1>2
<1>4. r \in Heap
  <2>1. r = [ent |-> s.ent, white |-> s.white, black |-> s.black, lists |-> r.lists,
             armed |-> s.armed, mmudata |-> s.mmudata]
    BY DEF Heap, WithList
  <2> QED
    BY <1>3, <2>1 DEF Heap
<1> QED
  BY <1>1, <1>2, <1>4

LEMMA Recolored ==
  ASSUME NEW s \in Heap, NEW W \in SUBSET Objs, NEW B \in SUBSET Objs,
         NEW r, r = WithColors(s, W, B)
  PROVE  /\ r \in Heap /\ r.white = W /\ r.black = B /\ r.lists = s.lists
         /\ r.ent = s.ent /\ r.armed = s.armed /\ r.mmudata = s.mmudata
BY DEF Heap, WithColors

\* gc_mark.
LEMMA MarkFacts ==
  ASSUME WeakAssumption, NEW s, Colored(s), NEW S \in SUBSET Objs, NEW r, r = Mark(s, S)
  PROVE  /\ Colored(r)
         /\ r.white = s.white \ S /\ r.black = s.black \cup (S \cap s.white \cap Strs)
         /\ r.lists["gray"] = s.lists["gray"] \cup (S \cap s.white \cap Tabs)
         /\ \A l \in Lists \ {"gray"} : r.lists[l] = s.lists[l]
         /\ r.ent = s.ent /\ r.armed = s.armed /\ r.mmudata = s.mmudata
<1> DEFINE W == S \cap s.white
<1>1. s \in Heap /\ W \subseteq Objs /\ W \subseteq s.white
  BY DEF Colored, Heap
<1>2. r = [s EXCEPT !.white = @ \ W, !.black = @ \cup (W \cap Strs),
                    !.lists.gray = @ \cup (W \cap Tabs)]
  BY DEF Mark
<1>3. "gray" \in Lists /\ Objs = Tabs \cup Strs /\ Tabs \cap Strs = {}
  BY DEF Lists, Objs, WeakAssumption
<1> HIDE DEF W
<1>4. /\ r \in Heap /\ r.white = s.white \ W /\ r.black = s.black \cup (W \cap Strs)
      /\ r.lists["gray"] = s.lists["gray"] \cup (W \cap Tabs)
      /\ \A l \in Lists \ {"gray"} : r.lists[l] = s.lists[l]
      /\ r.ent = s.ent /\ r.armed = s.armed /\ r.mmudata = s.mmudata
  <2> DEFINE q == [s EXCEPT !.white = @ \ W, !.black = @ \cup (W \cap Strs)]
             G == s.lists["gray"] \cup (W \cap Tabs)
  <2>1. s.white \ W \in SUBSET Objs /\ s.black \cup (W \cap Strs) \in SUBSET Objs
    BY <1>1 DEF Heap
  <2>2. q = WithColors(s, s.white \ W, s.black \cup (W \cap Strs))
    BY DEF WithColors
  <2>3. r = WithList(q, "gray", G)
    BY <1>1, <1>2 DEF Heap, WithList
  <2> HIDE DEF q
  <2>4. /\ q \in Heap /\ q.white = s.white \ W /\ q.black = s.black \cup (W \cap Strs)
        /\ q.lists = s.lists
        /\ q.ent = s.ent /\ q.armed = s.armed /\ q.mmudata = s.mmudata
    BY <1>1, <2>1, <2>2, Recolored
  <2>5. G \in SUBSET Tabs
    BY <1>1, <1>3 DEF Heap
  <2> HIDE DEF G
  <2>6. /\ r \in Heap /\ r.white = q.white /\ r.black = q.black
        /\ r.ent = q.ent /\ r.armed = q.armed /\ r.mmudata = q.mmudata
        /\ r.lists["gray"] = G /\ \A m \in Lists \ {"gray"} : r.lists[m] = q.lists[m]
    BY <1>3, <2>3, <2>4, <2>5, Relisted
  <2> QED
    BY <2>4, <2>6 DEF G
<1>5. /\ r.lists["gray"] = s.lists["gray"] \cup (W \cap Tabs)
      /\ \A l \in Lists \ {"gray"} : r.lists[l] = s.lists[l]
  BY <1>4
<1>6. Colored(r)
  <2>1. r.white \cup r.black \subseteq live /\ r.white \cap r.black = {}
    BY <1>1, <1>3, <1>4 DEF Colored
  <2>2. ASSUME NEW t \in Tabs
        PROVE  (\E l \in Lists : t \in r.lists[l]) <=> t \in live \ (r.white \cup r.black)
    <3>1. (\E l \in Lists : t \in r.lists[l])
             <=> (\E l \in Lists : t \in s.lists[l]) \/ t \in W
      BY <1>3, <1>5
    <3>2. (\E l \in Lists : t \in s.lists[l]) <=> t \in live \ (s.white \cup s.black)
      BY DEF Colored
    <3>3. t \in W => t \in live /\ t \notin s.black
      BY <1>1 DEF Colored
    <3> QED
      BY <1>1, <1>3, <1>4, <3>1, <3>2, <3>3
  <2>3. ASSUME NEW l \in Lists, NEW m \in Lists, l # m
        PROVE  r.lists[l] \cap r.lists[m] = {}
    <3>1. \A k \in Lists : r.lists[k] \cap W \cap Tabs = {} \/ k = "gray"
      <4>1. \A k \in Lists : \A t \in Tabs : t \in s.lists[k] => t \notin s.white
        BY DEF Colored
      <4> QED
        BY <1>1, <1>5, <4>1
    <3>2. s.lists[l] \cap s.lists[m] = {}
      BY <2>3 DEF Colored
    <3> QED
      BY <1>3, <1>5, <2>3, <3>1, <3>2
  <2> QED
    BY <1>4, <2>1, <2>2, <2>3 DEF Colored
<1> QED
  BY <1>4, <1>5, <1>6 DEF W

\* A gray table that is traversed.
LEMMA LinkedFacts ==
  ASSUME WeakAssumption, NEW s, Colored(s), NEW t \in s.lists["gray"],
         mode \in [Tabs -> WeakModes], NEW r, r = Linked(s, t)
  PROVE  /\ Colored(r) /\ t \in Tabs
         /\ r.white = s.white
         /\ r.black = s.black \cup (IF mode[t] = {} THEN {t} ELSE {})
         /\ r.lists["gray"] = s.lists["gray"] \ {t}
         /\ r.lists["grayagain"] = s.lists["grayagain"]
         /\ \A l \in WeakLists :
              r.lists[l] = s.lists[l] \cup
                           (IF mode[t] # {} /\ l = ListOf(mode[t]) THEN {t} ELSE {})
         /\ r.ent = s.ent /\ r.armed = s.armed /\ r.mmudata = s.mmudata
<1>1. s \in Heap /\ "gray" \in Lists /\ t \in Tabs /\ t \in Objs /\ mode[t] \in WeakModes
  BY DEF Colored, Heap, Lists, Objs
<1>2. \A l \in Lists \ {"gray"} : t \notin s.lists[l]
  BY <1>1 DEF Colored
<1>3. t \in live \ (s.white \cup s.black)
  BY <1>1 DEF Colored
<1> DEFINE off == [s EXCEPT !.lists.gray = @ \ {t}]
<1> HIDE DEF off
<1>6. /\ off \in Heap /\ off.white = s.white /\ off.black = s.black
      /\ off.ent = s.ent /\ off.armed = s.armed /\ off.mmudata = s.mmudata
      /\ off.lists["gray"] = s.lists["gray"] \ {t}
      /\ \A l \in Lists \ {"gray"} : off.lists[l] = s.lists[l]
  <2>1. s.lists["gray"] \ {t} \in SUBSET Tabs
    BY <1>1 DEF Heap
  <2>2. off = WithList(s, "gray", s.lists["gray"] \ {t})
    BY <1>1 DEF Heap, off, WithList
  <2> QED
    BY <1>1, <2>1, <2>2, Relisted
<1>4. CASE mode[t] = {}
  <2>1. r = [off EXCEPT !.black = @ \cup {t}]
    BY <1>4 DEF Linked, off
  <2>2. /\ r \in Heap /\ r.white = s.white /\ r.black = s.black \cup {t}
        /\ r.lists = off.lists
        /\ r.ent = s.ent /\ r.armed = s.armed /\ r.mmudata = s.mmudata
    <3>1. off.white \in SUBSET Objs /\ off.black \cup {t} \in SUBSET Objs
      BY <1>1, <1>6 DEF Heap
    <3>2. r = WithColors(off, off.white, off.black \cup {t})
      BY <1>6, <2>1 DEF Heap, WithColors
    <3>3. /\ r \in Heap /\ r.white = off.white /\ r.black = off.black \cup {t}
          /\ r.lists = off.lists
          /\ r.ent = off.ent /\ r.armed = off.armed /\ r.mmudata = off.mmudata
      BY <1>6, <3>1, <3>2, Recolored
    <3> QED
      BY <1>6, <3>3
  <2>3. /\ r.lists["gray"] = s.lists["gray"] \ {t}
        /\ \A l \in Lists \ {"gray"} : r.lists[l] = s.lists[l]
    BY <1>6, <2>2
  <2>4. r.white \cup r.black \subseteq live /\ r.white \cap r.black = {}
    BY <1>3, <2>2 DEF Colored
  <2>5. ASSUME NEW x \in Tabs
        PROVE  (\E l \in Lists : x \in r.lists[l]) <=> x \in live \ (r.white \cup r.black)
    <3>1. (\E l \in Lists : x \in r.lists[l]) <=> (\E l \in Lists : x \in s.lists[l]) /\ x # t
      BY <1>2, <2>3
    <3>2. (\E l \in Lists : x \in s.lists[l]) <=> x \in live \ (s.white \cup s.black)
      BY DEF Colored
    <3> QED
      BY <2>2, <3>1, <3>2
  <2>6. ASSUME NEW l \in Lists, NEW m \in Lists, l # m
        PROVE  r.lists[l] \cap r.lists[m] = {}
    BY <2>3, <2>6 DEF Colored
  <2>7. Colored(r)
    BY <2>2, <2>4, <2>5, <2>6 DEF Colored
  <2> QED
    BY <1>1, <1>4, <2>2, <2>3, <2>7, ListNames
<1>5. CASE mode[t] # {}
  <2> DEFINE w == ListOf(mode[t])
  <2>1. w \in WeakLists /\ w \in Lists /\ w # "gray" /\ w # "grayagain"
    <3>1. w \in WeakLists
      BY <1>1, <1>5, ListOfFacts
    <3> QED
      BY <3>1, ListNames
  <2>2. r = [off EXCEPT !.lists[w] = @ \cup {t}]
    BY <1>5 DEF Linked, off
  <2> HIDE DEF w
  <2>9. r = WithList(off, w, off.lists[w] \cup {t})
    BY <1>6, <2>1, <2>2 DEF Heap, WithList
  <2>10. off.lists[w] \cup {t} \in SUBSET Tabs
    BY <1>1, <1>6, <2>1 DEF Heap
  <2>3. /\ r \in Heap /\ r.white = off.white /\ r.black = off.black
        /\ r.ent = off.ent /\ r.armed = off.armed /\ r.mmudata = off.mmudata
        /\ r.lists[w] = off.lists[w] \cup {t}
        /\ \A m \in Lists \ {w} : r.lists[m] = off.lists[m]
    BY <1>6, <2>1, <2>9, <2>10, Relisted
  <2>4. /\ r.lists["gray"] = s.lists["gray"] \ {t} /\ r.lists[w] = s.lists[w] \cup {t}
        /\ \A l \in Lists \ {"gray", w} : r.lists[l] = s.lists[l]
    BY <1>1, <1>6, <2>1, <2>3
  <2>5. ASSUME NEW x \in Tabs
        PROVE  (\E l \in Lists : x \in r.lists[l]) <=> x \in live \ (r.white \cup r.black)
    <3>1. (\E l \in Lists : x \in r.lists[l]) <=> (\E l \in Lists : x \in s.lists[l])
      BY <1>1, <1>2, <2>1, <2>4
    <3>2. (\E l \in Lists : x \in s.lists[l]) <=> x \in live \ (s.white \cup s.black)
      BY DEF Colored
    <3> QED
      BY <1>6, <2>3, <3>1, <3>2
  <2>6. ASSUME NEW l \in Lists, NEW m \in Lists, l # m
        PROVE  r.lists[l] \cap r.lists[m] = {}
    <3>1. s.lists[l] \cap s.lists[m] = {}
      BY <2>6 DEF Colored
    <3> QED
      BY <1>2, <2>4, <2>6, <3>1
  <2>7. Colored(r)
    BY <1>6, <2>3, <2>5, <2>6 DEF Colored
  <2>8. \A l \in WeakLists : l \in Lists /\ l # "gray"
    BY ListNames
  <2>11. "grayagain" \in Lists /\ "grayagain" # "gray"
    BY ListNames
  <2> QED
    BY <1>1, <1>5, <1>6, <2>1, <2>3, <2>4, <2>7, <2>8, <2>11 DEF w
<1> QED
  BY <1>4, <1>5

-----------------------------------------------------------------------------
\* What a collection has still to traverse, and what its steps keep.

Todo(s) == (s.white \cap Tabs) \cup s.lists["gray"]

Progress(s, r) ==
  /\ Colored(r) /\ Cleared(r)
  /\ r.ent = s.ent /\ r.armed = s.armed /\ r.mmudata = s.mmudata
  /\ r.white \subseteq s.white
  /\ r.lists["grayagain"] = s.lists["grayagain"]
  /\ BlackDone(s) => BlackDone(r)
  /\ Waiting(s) => Waiting(r)
  /\ \A B : Fresh(s, B) => Fresh(r, B)
  /\ \A U \in SUBSET Objs : ClosedSet(U) /\ Bounded(s, U) => Bounded(r, U)

LEMMA ProgressSelf ==
  ASSUME NEW s, Colored(s), Cleared(s)
  PROVE  Progress(s, s)
BY DEF Progress

LEMMA ProgressChain ==
  ASSUME NEW s, NEW q, NEW r, Progress(s, q), Progress(q, r)
  PROVE  Progress(s, r)
<1>1. r.white \subseteq s.white
  BY DEF Progress
<1> QED
  BY <1>1 DEF Progress

\* Facts of the state that marking relies on.
Ready == WeakAssumption /\ mode \in [Tabs -> WeakModes] /\ ent \subseteq Ents /\ NoDangling

LEMMA EntryTypes ==
  ASSUME Ready, NEW e \in ent
  PROVE  /\ e.t \in Tabs /\ e.k \in Objs /\ e.v \in Objs /\ e.t \notin Strs
         /\ e.t \in live /\ e.k \in live /\ e.v \in live
<1>1. e \in Ents
  BY DEF Ready
<1>2. e.t \in Tabs /\ e.k \in Objs /\ e.v \in Objs
  BY <1>1 DEF Ents
<1>3. {e.t, e.k, e.v} \subseteq live
  BY DEF Ready, NoDangling
<1> QED
  BY <1>2, <1>3 DEF Ready, WeakAssumption

\* Marking more keeps what is there.
LEMMA MarkProgress ==
  ASSUME Ready, NEW s, Colored(s), Cleared(s), NEW S \in SUBSET Objs,
         NEW r, r = Mark(s, S),
         \A U \in SUBSET Objs : ClosedSet(U) /\ Bounded(s, U) => S \cap Tabs \subseteq U
  PROVE  Progress(s, r)
<1>1. /\ Colored(r)
      /\ r.white = s.white \ S /\ r.black = s.black \cup (S \cap s.white \cap Strs)
      /\ \A l \in Lists \ {"gray"} : r.lists[l] = s.lists[l]
      /\ r.ent = s.ent /\ r.armed = s.armed /\ r.mmudata = s.mmudata
  BY MarkFacts DEF Ready
<1>2. \A l \in WeakLists \cup {"grayagain"} : r.lists[l] = s.lists[l]
  BY <1>1, ListNames
<1>3. Cleared(r)
  BY <1>1, <1>2, ListNames DEF Cleared
<1>4. BlackDone(s) => BlackDone(r)
  BY <1>1, EntryTypes DEF BlackDone
<1>5. Waiting(s) => Waiting(r)
  BY <1>1, <1>2, ListNames DEF Waiting
<1>6. \A B : Fresh(s, B) => Fresh(r, B)
  BY <1>1 DEF Fresh, Ready, WeakAssumption
<1>7. ASSUME NEW U \in SUBSET Objs, ClosedSet(U), Bounded(s, U)
      PROVE  Bounded(r, U)
  BY <1>1, <1>7 DEF Bounded
<1> QED
  BY <1>1, <1>2, <1>3, <1>4, <1>5, <1>6, <1>7 DEF Progress

\* gc_traverse_tab of a gray table.
LEMMA TraversedFacts ==
  ASSUME Ready, NEW s, Colored(s), Cleared(s), NEW t \in s.lists["gray"],
         NEW r, r = Traversed(s, t)
  PROVE  Progress(s, r) /\ Todo(r) = Todo(s) \ {t} /\ t \in Todo(s)
<1> DEFINE q == Linked(s, t)
           es == {e \in s.ent : e.t = t}
           keys == IF "k" \in mode[t] THEN {} ELSE {e.k : e \in es}
           vals == IF "v" \in mode[t] THEN {}
                   ELSE {e.v : e \in {d \in es : "k" \in mode[t] => KeyReachable(s, d.k)}}
<1>0. r = Mark(q, keys \cup vals)
  BY DEF Traversed
<1>1. /\ Colored(q) /\ t \in Tabs
      /\ q.white = s.white
      /\ q.black = s.black \cup (IF mode[t] = {} THEN {t} ELSE {})
      /\ q.lists["gray"] = s.lists["gray"] \ {t}
      /\ q.lists["grayagain"] = s.lists["grayagain"]
      /\ \A l \in WeakLists :
           q.lists[l] = s.lists[l] \cup
                        (IF mode[t] # {} /\ l = ListOf(mode[t]) THEN {t} ELSE {})
      /\ q.ent = s.ent /\ q.armed = s.armed /\ q.mmudata = s.mmudata
  <2> HIDE DEF q
  <2>1. q = Linked(s, t)
    BY DEF q
  <2> QED
    BY <2>1, LinkedFacts DEF Ready
<1> HIDE DEF q
<1>2. \A e \in es : e \in ent /\ e.t = t
  BY DEF Cleared
<1>3. keys \cup vals \in SUBSET Objs
  BY <1>2, EntryTypes
<1>4. mode[t] \in WeakModes
  BY <1>1 DEF Ready
<1>5. \A e \in es : "k" \notin mode[t] => e.k \in keys
  OBVIOUS
<1>6. \A e \in es : "v" \notin mode[t] /\ "k" \notin mode[t] => e.v \in vals
  OBVIOUS
<1>7. \A o \in keys : "k" \notin mode[t] /\ \E e \in es : o = e.k
  OBVIOUS
<1>8. \A o \in vals : "v" \notin mode[t] /\ \E e \in es : o = e.v /\ ("k" \in mode[t] => KeyReachable(s, e.k))
  OBVIOUS
<1>9. \A e \in ent : e.t = t => e \in es
  <2>1. ASSUME NEW e \in ent \ s.ent
        PROVE  e.t # t
    <3>1. e.t \in s.lists["weak"] \cup s.lists["allweak"]
      BY DEF Cleared
    <3>2. \A l \in {"weak", "allweak"} : s.lists[l] \cap s.lists["gray"] = {}
      BY ListNames DEF Colored
    <3> QED
      BY <3>1, <3>2
  <2> QED
    BY <2>1
<1> HIDE DEF keys, vals, es
<1> DEFINE S == keys \cup vals
<1>10. S \in SUBSET Objs
  BY <1>3
<1>11. r = Mark(q, S)
  BY <1>0
<1> HIDE DEF S
<1>12. /\ Colored(r)
       /\ r.white = q.white \ S /\ r.black = q.black \cup (S \cap q.white \cap Strs)
       /\ r.lists["gray"] = q.lists["gray"] \cup (S \cap q.white \cap Tabs)
       /\ \A l \in Lists \ {"gray"} : r.lists[l] = q.lists[l]
       /\ r.ent = q.ent /\ r.armed = q.armed /\ r.mmudata = q.mmudata
  BY <1>1, <1>10, <1>11, MarkFacts DEF Ready
<1>13. \A l \in WeakLists :
         r.lists[l] = s.lists[l] \cup
                      (IF mode[t] # {} /\ l = ListOf(mode[t]) THEN {t} ELSE {})
  BY <1>1, <1>12, ListNames
<1>14. r.lists["grayagain"] = s.lists["grayagain"]
  BY <1>1, <1>12, ListNames
<1>15. Cleared(r)
  BY <1>1, <1>12, <1>13, ListNames DEF Cleared
<1>16. ASSUME BlackDone(s)
       PROVE  BlackDone(r)
  <2> SUFFICES ASSUME NEW e \in ent, e.t \in r.black
               PROVE  e.k \notin r.white /\ e.v \notin r.white
    BY DEF BlackDone
  <2>1. e.t \in s.black \/ (e.t = t /\ mode[t] = {})
    BY <1>1, <1>12, EntryTypes
  <2>2. CASE e.t \in s.black
    BY <1>1, <1>12, <1>16, <2>2 DEF BlackDone
  <2>3. CASE e.t = t /\ mode[t] = {}
    <3>1. e \in es
      BY <1>9, <2>3
    <3>2. e.k \in S /\ e.v \in S
      BY <1>5, <1>6, <2>3, <3>1 DEF S
    <3> QED
      BY <1>12, <3>2
  <2> QED
    BY <2>1, <2>2, <2>3
<1>17. ASSUME Waiting(s)
       PROVE  Waiting(r)
  <2>1. ASSUME NEW l \in WeakLists, NEW x \in r.lists[l]
        PROVE  mode[x] # {} /\ l = ListOf(mode[x])
    BY <1>13, <1>17 DEF Waiting
  <2>2. ASSUME NEW e \in ent, e.t \in r.lists["weak"]
        PROVE  e.k \notin r.white
    <3>1. CASE e.t \in s.lists["weak"]
      BY <1>1, <1>12, <1>17, <3>1 DEF Waiting
    <3>2. CASE e.t = t /\ mode[t] # {} /\ ListOf(mode[t]) = "weak"
      <4>1. "k" \notin mode[t] /\ e \in es
        BY <1>4, <1>9, <3>2, ListOfFacts
      <4>2. e.k \in S
        BY <1>5, <4>1 DEF S
      <4> QED
        BY <1>12, <4>2
    <3> QED
      BY <1>13, <2>2, <3>1, <3>2, ListNames
  <2> QED
    BY <2>1, <2>2 DEF Waiting
<1>18. \A B : Fresh(s, B) => Fresh(r, B)
  BY <1>1, <1>12 DEF Fresh, Ready, WeakAssumption
<1>19. ASSUME NEW U \in SUBSET Objs, ClosedSet(U), Bounded(s, U)
       PROVE  Bounded(r, U)
  <2>1. t \in live /\ t \notin s.white /\ t \in U
    <3>1. t \in live /\ t \notin s.white
      BY <1>1, ListNames DEF Colored
    <3> QED
      BY <1>1, <1>19, <3>1 DEF Bounded
  <2>2. ASSUME NEW o \in S
        PROVE  o \in U
    <3>1. CASE o \in keys
      <4>1. PICK e \in es : o = e.k /\ "k" \notin mode[t]
        BY <1>7, <3>1
      <4> QED
        BY <1>2, <1>19, <2>1, <4>1 DEF ClosedSet
    <3>2. CASE o \in vals
      <4>1. PICK e \in es : o = e.v /\ "v" \notin mode[t]
                            /\ ("k" \in mode[t] => KeyReachable(s, e.k))
        BY <1>8, <3>2
      <4>2. e \in ent /\ e.t = t
        BY <1>2
      <4>3. "k" \in mode[t] /\ IsWeakKey(e.k) => e.k \in U
        BY <1>19, <4>1, <4>2, EntryTypes DEF KeyReachable, Bounded, IsWeakKey
      <4> QED
        BY <1>19, <2>1, <4>1, <4>2, <4>3 DEF ClosedSet
    <3> QED
      BY <3>1, <3>2 DEF S
  <2> QED
    BY <1>1, <1>12, <1>19, <2>2 DEF Bounded
<1>20. Progress(s, r)
  <2>1. r.white \subseteq s.white
    BY <1>1, <1>12
  <2> QED
    BY <1>1, <1>12, <1>14, <1>15, <1>16, <1>17, <1>18, <1>19, <2>1 DEF Progress
<1>21. t \notin s.white
  BY <1>1, ListNames DEF Colored
<1>22. Todo(r) = Todo(s) \ {t}
  BY <1>1, <1>12, <1>21 DEF Todo
<1> QED
  BY <1>20, <1>22 DEF Todo

-----------------------------------------------------------------------------
\* gc_propagate_gray and the loop over ephemerons.

PropStep(p) == IF p.lists["gray"] = {} THEN p
               ELSE Traversed(p, CHOOSE t \in p.lists["gray"] : TRUE)

PropRun(s) ==
  CHOOSE P : P = [n \in 0..Cardinality(Tabs) |-> IF n = 0 THEN s ELSE PropStep(P[n - 1])]

LEMMA PropStepFacts ==
  ASSUME Ready, NEW s, Colored(s), Cleared(s), NEW r, r = PropStep(s)
  PROVE  /\ Progress(s, r)
         /\ s.lists["gray"] = {} => r = s
         /\ s.lists["gray"] # {} => \E t \in Todo(s) : Todo(r) = Todo(s) \ {t}
<1>1. CASE s.lists["gray"] = {}
  BY <1>1, ProgressSelf DEF PropStep
<1>2. CASE s.lists["gray"] # {}
  <2> DEFINE t == CHOOSE x \in s.lists["gray"] : TRUE
  <2>1. t \in s.lists["gray"]
    BY <1>2
  <2>2. r = Traversed(s, t)
    BY <1>2 DEF PropStep
  <2> HIDE DEF t
  <2> QED
    BY <1>2, <2>1, <2>2, TraversedFacts
<1> QED
  BY <1>1, <1>2

\* A set of tables has a size, and fewer without one of them.
LEMMA Sizes ==
  ASSUME WeakAssumption
  PROVE  /\ IsFiniteSet(Tabs) /\ IsFiniteSet(Objs)
         /\ Cardinality(Tabs) \in Nat /\ Cardinality(Objs) \in Nat
<1>1. Tabs \subseteq Objs /\ IsFiniteSet(Objs)
  BY DEF Objs, WeakAssumption
<1>2. IsFiniteSet(Tabs)
  BY <1>1, FS_Subset
<1> QED
  BY <1>1, <1>2, FS_CardinalityType

\* Marking ends: nothing is gray afterwards.
LEMMA PropagateAllFacts ==
  ASSUME Ready, NEW s, Colored(s), Cleared(s), NEW r, r = PropagateAll(s)
  PROVE  Progress(s, r) /\ r.lists["gray"] = {}
<1> DEFINE C == Cardinality(Tabs)
           D == {q \in Heap : Progress(s, q)}
           step == [q \in D |-> PropStep(q)]
<1>0. C \in Nat /\ IsFiniteSet(Tabs)
  BY Sizes DEF Ready
<1>1. s \in D
  BY ProgressSelf DEF Colored
<1>2. ASSUME NEW q \in D
      PROVE  PropStep(q) \in D
  <2>1. Colored(q) /\ Cleared(q)
    BY DEF Progress
  <2>2. Progress(q, PropStep(q))
    BY <2>1, PropStepFacts
  <2>3. Progress(s, PropStep(q))
    BY <2>2, ProgressChain
  <2>4. PropStep(q) \in Heap
    BY <2>2 DEF Progress, Colored
  <2> QED
    BY <2>3, <2>4
<1> HIDE DEF D
<1>3. step \in [D -> D]
  BY <1>2
<1>4. PICK F \in [0..C -> D] : RoundsOf(F, step, s, C)
  <2> HIDE DEF step, C
  <2> QED
    BY <1>0, <1>1, <1>3, RoundsExist
<1>5. ASSUME NEW k \in 0..C
      PROVE  F[k] = IF k = 0 THEN s ELSE PropStep(F[k - 1])
  <2>1. k # 0 => k - 1 \in 0..C
    BY <1>0
  <2>2. k # 0 => F[k - 1] \in D
    BY <1>4, <2>1
  <2>3. F[k] = IF k = 0 THEN s ELSE step[F[k - 1]]
    BY <1>4 DEF RoundsOf
  <2> QED
    BY <2>2, <2>3
<1>6. F = [n \in 0..C |-> IF n = 0 THEN s ELSE PropStep(F[n - 1])]
  BY <1>4, <1>5 DEF RoundsOf
<1>7. PropRun(s) = [n \in 0..C |-> IF n = 0 THEN s ELSE PropStep(PropRun(s)[n - 1])]
  BY <1>6, Zenon DEF PropRun
<1>8. PropagateAll(s) = PropRun(s)[C]
  BY DEF PropagateAll, PropRun, PropStep
<1> DEFINE P == PropRun(s)
           S == {n \in Nat : n <= C =>
                  P[n] \in D /\ (P[n].lists["gray"] = {} \/ Cardinality(Todo(P[n])) <= C - n)}
<1> HIDE DEF step, P
<1>9. P = [n \in 0..C |-> IF n = 0 THEN s ELSE PropStep(P[n - 1])]
  BY <1>7 DEF P
<1>10. ASSUME NEW q \in D
       PROVE  Todo(q) \subseteq Tabs /\ IsFiniteSet(Todo(q)) /\ Cardinality(Todo(q)) \in Nat
                /\ Cardinality(Todo(q)) <= C
  <2>1. Todo(q) \subseteq Tabs
    BY ListNames DEF D, Heap, Todo
  <2>2. IsFiniteSet(Todo(q)) /\ Cardinality(Todo(q)) <= C
    BY <1>0, <2>1, FS_Subset
  <2> QED
    BY <2>1, <2>2, FS_CardinalityType
<1>11. 0 \in S
  <2>1. P[0] = s
    BY <1>0, <1>9
  <2> QED
    BY <1>0, <1>1, <1>10, <2>1
<1>12. ASSUME NEW n \in Nat, n \in S
       PROVE  n + 1 \in S
  <2> SUFFICES ASSUME n + 1 <= C
               PROVE  P[n + 1] \in D /\ (P[n + 1].lists["gray"] = {}
                        \/ Cardinality(Todo(P[n + 1])) <= C - (n + 1))
    OBVIOUS
  <2>1. n <= C /\ n + 1 \in 0..C /\ n + 1 # 0 /\ (n + 1) - 1 = n
    BY <1>0
  <2>2. P[n + 1] = PropStep(P[n])
    BY <1>9, <2>1
  <2>3. P[n] \in D /\ (P[n].lists["gray"] = {} \/ Cardinality(Todo(P[n])) <= C - n)
    BY <1>12, <2>1
  <2> DEFINE q == P[n]
             p == P[n + 1]
  <2>4. q \in D /\ p \in D /\ p = PropStep(q)
    BY <1>2, <2>2, <2>3
  <2>5. q.lists["gray"] = {} \/ Cardinality(Todo(q)) <= C - n
    BY <2>3
  <2> HIDE DEF q, p
  <2>6. Colored(q) /\ Cleared(q)
    BY <2>4 DEF D, Progress
  <2>7. CASE q.lists["gray"] = {}
    <3>1. p = q
      BY <2>4, <2>6, <2>7, PropStepFacts
    <3> QED
      BY <2>4, <2>7, <3>1 DEF p
  <2>8. CASE q.lists["gray"] # {}
    <3>1. PICK t \in Todo(q) : Todo(p) = Todo(q) \ {t}
      BY <2>4, <2>6, <2>8, PropStepFacts
    <3>2. Cardinality(Todo(p)) = Cardinality(Todo(q)) - 1
      BY <1>10, <2>4, <3>1, FS_RemoveElement
    <3>3. Cardinality(Todo(q)) \in Nat /\ Cardinality(Todo(q)) <= C - n
      BY <1>10, <2>4, <2>5, <2>8
    <3>4. Cardinality(Todo(p)) <= C - (n + 1)
      BY <1>0, <3>2, <3>3
    <3> QED
      BY <2>4, <3>4 DEF p
  <2> QED
    BY <2>7, <2>8
<1> HIDE DEF S
<1>13. Nat \subseteq S
  BY <1>11, <1>12, SetInduction
<1>14. P[C] \in D /\ (P[C].lists["gray"] = {} \/ Cardinality(Todo(P[C])) <= 0)
  BY <1>0, <1>13 DEF S
<1>15. r = P[C]
  BY <1>8 DEF P
<1>16. r.lists["gray"] = {}
  <2>1. CASE Cardinality(Todo(r)) <= 0
    <3>1. Cardinality(Todo(r)) = 0 /\ IsFiniteSet(Todo(r))
      BY <1>10, <1>14, <1>15, <2>1
    <3>2. Todo(r) = {}
      BY <3>1, FS_EmptySet
    <3> QED
      BY <3>2 DEF Todo
  <2> QED
    BY <1>14, <1>15, <2>1
<1> QED
  BY <1>14, <1>15, <1>16 DEF D

EphStep(e) == IF EphemeronValues(e) = {} THEN e
              ELSE PropagateAll(Mark(e, EphemeronValues(e)))

EphRun(s) ==
  CHOOSE E : E = [n \in 0..Cardinality(Objs) |-> IF n = 0 THEN s ELSE EphStep(E[n - 1])]

\* A round marks something white, if there is anything to mark.
LEMMA EphStepFacts ==
  ASSUME Ready, NEW s, Colored(s), Cleared(s), Waiting(s), s.lists["gray"] = {},
         NEW r, r = EphStep(s)
  PROVE  /\ Progress(s, r) /\ r.lists["gray"] = {}
         /\ EphemeronValues(s) = {} => r = s
         /\ EphemeronValues(s) # {} => r.white \subseteq s.white /\ r.white # s.white
<1> DEFINE V == EphemeronValues(s)
<1>1. CASE V = {}
  BY <1>1, ProgressSelf DEF EphStep
<1>2. CASE V # {}
  <2> DEFINE q == Mark(s, V)
  <2>1. r = PropagateAll(q)
    BY <1>2 DEF EphStep
  <2>2. V \subseteq s.white /\ V \in SUBSET Objs
    BY DEF EphemeronValues, Colored, Heap
  <2>3. ASSUME NEW U \in SUBSET Objs, ClosedSet(U), Bounded(s, U)
        PROVE  V \cap Tabs \subseteq U
    <3> SUFFICES ASSUME NEW e \in s.ent, e.t \in s.lists["ephemeron"], KeyReachable(s, e.k)
                 PROVE  e.v \in U
      BY DEF EphemeronValues
    <3>1. e \in ent
      BY DEF Cleared
    <3>2. mode[e.t] # {} /\ ListOf(mode[e.t]) = "ephemeron"
      BY ListNames DEF Waiting
    <3>3. "v" \notin mode[e.t]
      BY <3>1, <3>2, EntryTypes, ListOfFacts DEF Ready
    <3>4. e.t \in live /\ e.t \notin s.white
      BY <3>1, EntryTypes, ListNames DEF Colored
    <3>5. e.t \in U
      BY <2>3, <3>1, <3>4, EntryTypes DEF Bounded
    <3>6. IsWeakKey(e.k) => e.k \in U
      BY <2>3, <3>1, EntryTypes DEF KeyReachable, Bounded, IsWeakKey
    <3> QED
      BY <2>3, <3>1, <3>3, <3>5, <3>6 DEF ClosedSet
  <2> HIDE DEF V
  <2>4. Progress(s, q)
    BY <2>2, <2>3, MarkProgress
  <2>5. q.white = s.white \ V
    BY <2>2, MarkFacts DEF Ready
  <2> HIDE DEF q
  <2>6. Progress(q, r) /\ r.lists["gray"] = {}
    BY <2>1, <2>4, PropagateAllFacts DEF Progress
  <2>7. Progress(s, r)
    BY <2>4, <2>6, ProgressChain
  <2>8. r.white \subseteq s.white \ V
    BY <2>5, <2>6 DEF Progress
  <2> QED
    BY <1>2, <2>2, <2>6, <2>7, <2>8 DEF V
<1> QED
  BY <1>1, <1>2

\* The loop ends when no value of a marked key is white.
LEMMA EphemeronsFacts ==
  ASSUME Ready, NEW s, Colored(s), Cleared(s), Waiting(s), s.lists["gray"] = {},
         NEW r, r = Ephemerons(s)
  PROVE  Progress(s, r) /\ r.lists["gray"] = {} /\ EphemeronValues(r) = {}
<1> DEFINE C == Cardinality(Objs)
           D == {q \in Heap : Progress(s, q) /\ q.lists["gray"] = {}}
           step == [q \in D |-> EphStep(q)]
<1>0. C \in Nat /\ IsFiniteSet(Objs)
  BY Sizes DEF Ready
<1>1. s \in D
  BY ProgressSelf DEF Colored
<1>2. ASSUME NEW q \in D
      PROVE  Colored(q) /\ Cleared(q) /\ Waiting(q)
  BY DEF Progress
<1>3. ASSUME NEW q \in D
      PROVE  EphStep(q) \in D
  <2>1. Progress(q, EphStep(q)) /\ EphStep(q).lists["gray"] = {}
    BY <1>2, EphStepFacts
  <2>2. Progress(s, EphStep(q))
    BY <2>1, ProgressChain
  <2>3. EphStep(q) \in Heap
    BY <2>1 DEF Progress, Colored
  <2> QED
    BY <2>1, <2>2, <2>3
<1> HIDE DEF D
<1>4. step \in [D -> D]
  BY <1>3
<1>5. PICK F \in [0..C -> D] : RoundsOf(F, step, s, C)
  <2> HIDE DEF step, C
  <2> QED
    BY <1>0, <1>1, <1>4, RoundsExist
<1>6. ASSUME NEW k \in 0..C
      PROVE  F[k] = IF k = 0 THEN s ELSE EphStep(F[k - 1])
  <2>1. k # 0 => k - 1 \in 0..C
    BY <1>0
  <2>2. k # 0 => F[k - 1] \in D
    BY <1>5, <2>1
  <2>3. F[k] = IF k = 0 THEN s ELSE step[F[k - 1]]
    BY <1>5 DEF RoundsOf
  <2> QED
    BY <2>2, <2>3
<1>7. F = [n \in 0..C |-> IF n = 0 THEN s ELSE EphStep(F[n - 1])]
  BY <1>5, <1>6 DEF RoundsOf
<1>8. EphRun(s) = [n \in 0..C |-> IF n = 0 THEN s ELSE EphStep(EphRun(s)[n - 1])]
  BY <1>7, Zenon DEF EphRun
<1>9. Ephemerons(s) = EphRun(s)[C]
  BY DEF Ephemerons, EphRun, EphStep
<1> DEFINE E == EphRun(s)
           S == {n \in Nat : n <= C =>
                  E[n] \in D /\ (EphemeronValues(E[n]) = {} \/ Cardinality(E[n].white) <= C - n)}
<1> HIDE DEF step, E
<1>10. E = [n \in 0..C |-> IF n = 0 THEN s ELSE EphStep(E[n - 1])]
  BY <1>8 DEF E
<1>11. ASSUME NEW q \in D
       PROVE  /\ IsFiniteSet(q.white) /\ Cardinality(q.white) \in Nat
              /\ Cardinality(q.white) <= C
  <2>1. q.white \subseteq Objs
    BY DEF D, Heap
  <2>2. IsFiniteSet(q.white) /\ Cardinality(q.white) <= C
    BY <1>0, <2>1, FS_Subset
  <2> QED
    BY <2>2, FS_CardinalityType
<1>12. 0 \in S
  <2>1. E[0] = s
    BY <1>0, <1>10
  <2> QED
    BY <1>0, <1>1, <1>11, <2>1
<1>13. ASSUME NEW n \in Nat, n \in S
       PROVE  n + 1 \in S
  <2> SUFFICES ASSUME n + 1 <= C
               PROVE  E[n + 1] \in D /\ (EphemeronValues(E[n + 1]) = {}
                        \/ Cardinality(E[n + 1].white) <= C - (n + 1))
    OBVIOUS
  <2>1. n <= C /\ n + 1 \in 0..C /\ n + 1 # 0 /\ (n + 1) - 1 = n
    BY <1>0
  <2>2. E[n + 1] = EphStep(E[n])
    BY <1>10, <2>1
  <2>3. E[n] \in D /\ (EphemeronValues(E[n]) = {} \/ Cardinality(E[n].white) <= C - n)
    BY <1>13, <2>1
  <2> DEFINE q == E[n]
             p == E[n + 1]
  <2>4. q \in D /\ p \in D /\ p = EphStep(q)
    BY <1>3, <2>2, <2>3
  <2>5. EphemeronValues(q) = {} \/ Cardinality(q.white) <= C - n
    BY <2>3
  <2> HIDE DEF q, p
  <2>6. Colored(q) /\ Cleared(q) /\ Waiting(q) /\ q.lists["gray"] = {}
    BY <1>2, <2>4 DEF D
  <2>7. CASE EphemeronValues(q) = {}
    <3>1. p = q
      BY <2>4, <2>6, <2>7, EphStepFacts
    <3> QED
      BY <2>4, <2>7, <3>1 DEF p
  <2>8. CASE EphemeronValues(q) # {}
    <3>1. p.white \subseteq q.white /\ p.white # q.white
      BY <2>4, <2>6, <2>8, EphStepFacts
    <3>2. Cardinality(p.white) < Cardinality(q.white)
      BY <1>11, <2>4, <3>1, FS_Subset
    <3>3. /\ Cardinality(q.white) \in Nat /\ Cardinality(q.white) <= C - n
          /\ Cardinality(p.white) \in Nat
      BY <1>11, <2>4, <2>5, <2>8
    <3>4. Cardinality(p.white) <= C - (n + 1)
      BY <1>0, <3>2, <3>3
    <3> QED
      BY <2>4, <3>4 DEF p
  <2> QED
    BY <2>7, <2>8
<1> HIDE DEF S
<1>14. Nat \subseteq S
  BY <1>12, <1>13, SetInduction
<1>15. E[C] \in D /\ (EphemeronValues(E[C]) = {} \/ Cardinality(E[C].white) <= 0)
  <2> HIDE DEF C
  <2>1. C \in S /\ C <= C /\ C - C = 0
    BY <1>0, <1>14
  <2> QED
    BY <2>1 DEF S
<1>16. r = E[C]
  BY <1>9 DEF E
<1>17. EphemeronValues(r) = {}
  <2>1. CASE Cardinality(r.white) <= 0
    <3>1. Cardinality(r.white) = 0 /\ IsFiniteSet(r.white)
      BY <1>11, <1>15, <1>16, <2>1
    <3>2. r.white = {}
      BY <3>1, FS_EmptySet
    <3> QED
      BY <3>2 DEF EphemeronValues
  <2> QED
    BY <1>15, <1>16, <2>1
<1> QED
  BY <1>15, <1>16, <1>17 DEF D

-----------------------------------------------------------------------------
\* Relinking, clearing and separation.

\* Lists other than the gray one become part of it.
LEMMA RelinkedFacts ==
  ASSUME NEW s, Colored(s), NEW ls \in SUBSET (Lists \ {"gray"}), NEW r, r = Relinked(s, ls)
  PROVE  /\ Colored(r) /\ r.white = s.white /\ r.black = s.black
         /\ r.lists["gray"] = s.lists["gray"] \cup On(s, ls)
         /\ \A l \in Lists \ {"gray"} : r.lists[l] = IF l \in ls THEN {} ELSE s.lists[l]
         /\ r.ent = s.ent /\ r.armed = s.armed /\ r.mmudata = s.mmudata
<1> DEFINE L == [l \in Lists |-> IF l = "gray" THEN s.lists[l] \cup On(s, ls)
                                 ELSE IF l \in ls THEN {} ELSE s.lists[l]]
<1>1. s \in Heap /\ "gray" \in Lists /\ s.lists \in [Lists -> SUBSET Tabs]
  BY ListNames DEF Colored, Heap
<1>2. On(s, ls) \subseteq Tabs
  BY <1>1 DEF On
<1>3. \A t : t \in On(s, ls) <=> \E l \in ls : t \in s.lists[l]
  BY DEF On
<1>4. r = [s EXCEPT !.lists = L]
  BY DEF Relinked
<1>5. L \in [Lists -> SUBSET Tabs]
  BY <1>1, <1>2
<1>6. /\ L["gray"] = s.lists["gray"] \cup On(s, ls)
      /\ \A l \in Lists \ {"gray"} : L[l] = IF l \in ls THEN {} ELSE s.lists[l]
  BY <1>1
<1> HIDE DEF L
<1>7. /\ r.white = s.white /\ r.black = s.black /\ r.lists = L
      /\ r.ent = s.ent /\ r.armed = s.armed /\ r.mmudata = s.mmudata
      /\ r \in Heap
  BY <1>1, <1>4, <1>5 DEF Heap
<1>8. ASSUME NEW t \in Tabs
      PROVE  (\E l \in Lists : t \in r.lists[l]) <=> (\E l \in Lists : t \in s.lists[l])
  BY <1>1, <1>3, <1>6, <1>7
<1>9. ASSUME NEW l \in Lists, NEW m \in Lists, l # m
      PROVE  r.lists[l] \cap r.lists[m] = {}
  <2>1. \A j, k \in Lists : j # k => s.lists[j] \cap s.lists[k] = {}
    BY DEF Colored
  <2> QED
    BY <1>1, <1>3, <1>6, <1>7, <1>9, <2>1
<1>10. Colored(r)
  BY <1>7, <1>8, <1>9 DEF Colored
<1> QED
  BY <1>6, <1>7, <1>10

\* What clearing leaves alone.
Same(s, r) ==
  /\ Colored(r) /\ r.ent \subseteq s.ent /\ r.lists = s.lists
  /\ r.white \subseteq s.white /\ r.white \cap Tabs = s.white \cap Tabs
  /\ r.black \cap Tabs = s.black \cap Tabs

SameFinal(s, r) == r.armed = s.armed /\ r.mmudata = s.mmudata

LEMMA SameKeeps ==
  ASSUME Ready, NEW s, Colored(s), NEW r, Same(s, r)
  PROVE  /\ BlackDone(s) => BlackDone(r)
         /\ Waiting(s) => Waiting(r)
         /\ \A B : Fresh(s, B) => Fresh(r, B)
         /\ EphemeronValues(s) = {} => EphemeronValues(r) = {}
         /\ \A U : Bounded(s, U) => Bounded(r, U)
<1>1. BlackDone(s) => BlackDone(r)
  BY EntryTypes DEF BlackDone, Same
<1>2. Waiting(s) => Waiting(r)
  BY DEF Waiting, Same
<1>3. \A B : Fresh(s, B) => Fresh(r, B)
  BY DEF Fresh, Same
<1>4. \A k : KeyReachable(r, k) => KeyReachable(s, k)
  BY DEF KeyReachable, IsWeakKey, Same
<1>5. EphemeronValues(s) = {} => EphemeronValues(r) = {}
  BY <1>4 DEF EphemeronValues, Same
<1>6. \A U : Bounded(s, U) => Bounded(r, U)
  BY DEF Bounded, Same
<1> QED
  BY <1>1, <1>2, <1>3, <1>5, <1>6

\* Strings are marked and entries go.
WithEnt(s, X) == [s EXCEPT !.ent = X]

LEMMA ClearedFacts ==
  ASSUME Ready, NEW s, Colored(s), s.ent \subseteq ent, NEW S \in SUBSET Strs,
         NEW X \in SUBSET s.ent, NEW q, q = Mark(s, S), NEW r, r = WithEnt(q, X)
  PROVE  /\ Same(s, r) /\ r.ent = X /\ r.white = s.white \ S
         /\ SameFinal(s, r)
<1>1. S \in SUBSET Objs /\ S \cap Tabs = {} /\ Objs = Tabs \cup Strs
  BY DEF Objs, Ready, WeakAssumption
<1>2. /\ Colored(q)
      /\ q.white = s.white \ S /\ q.black = s.black \cup (S \cap s.white \cap Strs)
      /\ q.lists["gray"] = s.lists["gray"] \cup (S \cap s.white \cap Tabs)
      /\ \A l \in Lists \ {"gray"} : q.lists[l] = s.lists[l]
      /\ q.ent = s.ent /\ q.armed = s.armed /\ q.mmudata = s.mmudata
  BY <1>1, MarkFacts DEF Ready
<1>3. \A l \in Lists : q.lists[l] = s.lists[l]
  BY <1>1, <1>2, ListNames
<1>4. q.lists \in [Lists -> SUBSET Tabs] /\ s.lists \in [Lists -> SUBSET Tabs]
  BY <1>2 DEF Colored, Heap
<1>5. q.lists = s.lists
  BY <1>3, <1>4
<1>6. X \in SUBSET Ents /\ q \in Heap
  BY <1>2 DEF Colored, Heap
<1>7. /\ r \in Heap /\ r.ent = X /\ r.white = q.white /\ r.black = q.black
      /\ r.lists = q.lists /\ r.armed = q.armed /\ r.mmudata = q.mmudata
  BY <1>6 DEF Heap, WithEnt
<1>8. Colored(r)
  BY <1>2, <1>7 DEF Colored
<1> QED
  BY <1>1, <1>2, <1>5, <1>7, <1>8 DEF Same, SameFinal

\* gc_clear_weakvalues, gc_clear_weakkeys
LEMMA ClearValuesFacts ==
  ASSUME Ready, NEW s, Colored(s), s.ent \subseteq ent, NEW ls, NEW r, r = ClearValues(s, ls)
  PROVE  /\ Same(s, r)
         /\ \A e : e \in r.ent <=> e \in s.ent /\ ~(e.t \in On(s, ls) /\ MayClear(s, e.v, TRUE))
         /\ \A e \in r.ent : e.t \in On(s, ls) /\ e.v \in Strs => e.v \notin r.white
         /\ SameFinal(s, r)
<1> DEFINE es == {e \in s.ent : e.t \in On(s, ls)}
           clear == {e \in es : MayClear(s, e.v, TRUE)}
           S == {e.v : e \in es \ clear} \cap Strs
           X == s.ent \ clear
           q == Mark(s, S)
<1>1. r = [q EXCEPT !.ent = @ \ clear]
  BY DEF ClearValues
<1>2. S \in SUBSET Strs /\ X \in SUBSET s.ent
  OBVIOUS
<1>3. \A e \in X : e.t \in On(s, ls) /\ e.v \in Strs => e.v \in S
  OBVIOUS
<1>4. \A e : e \in X <=> e \in s.ent /\ ~(e.t \in On(s, ls) /\ MayClear(s, e.v, TRUE))
  OBVIOUS
<1>5. S \in SUBSET Objs
  BY <1>2 DEF Objs
<1> HIDE DEF S
<1>6. q \in Heap /\ q.ent = s.ent
  <2> HIDE DEF q
  <2>1. q = Mark(s, S)
    BY DEF q
  <2> QED
    BY <1>5, <2>1, MarkFacts DEF Ready, Colored
<1> HIDE DEF q
<1>7. r = WithEnt(q, X)
  BY <1>1, <1>6 DEF Heap, WithEnt
<1> HIDE DEF X
<1>8. /\ Same(s, r) /\ r.ent = X /\ r.white = s.white \ S
      /\ SameFinal(s, r)
  BY <1>2, <1>7, ClearedFacts DEF q
<1> QED
  BY <1>3, <1>4, <1>8

LEMMA ClearKeysFacts ==
  ASSUME Ready, NEW s, Colored(s), s.ent \subseteq ent, NEW ls, NEW r, r = ClearKeys(s, ls)
  PROVE  /\ Same(s, r)
         /\ \A e : e \in r.ent <=> e \in s.ent /\ ~(e.t \in On(s, ls) /\ MayClear(s, e.k, FALSE))
         /\ \A e \in r.ent : e.t \in On(s, ls) /\ e.k \in Strs => e.k \notin r.white
         /\ SameFinal(s, r)
<1> DEFINE es == {e \in s.ent : e.t \in On(s, ls)}
           clear == {e \in es : MayClear(s, e.k, FALSE)}
           S == {e.k : e \in es \ clear} \cap Strs
           X == s.ent \ clear
           q == Mark(s, S)
<1>1. r = [q EXCEPT !.ent = @ \ clear]
  BY DEF ClearKeys
<1>2. S \in SUBSET Strs /\ X \in SUBSET s.ent
  OBVIOUS
<1>3. \A e \in X : e.t \in On(s, ls) /\ e.k \in Strs => e.k \in S
  OBVIOUS
<1>4. \A e : e \in X <=> e \in s.ent /\ ~(e.t \in On(s, ls) /\ MayClear(s, e.k, FALSE))
  OBVIOUS
<1>5. S \in SUBSET Objs
  BY <1>2 DEF Objs
<1> HIDE DEF S
<1>6. q \in Heap /\ q.ent = s.ent
  <2> HIDE DEF q
  <2>1. q = Mark(s, S)
    BY DEF q
  <2> QED
    BY <1>5, <2>1, MarkFacts DEF Ready, Colored
<1> HIDE DEF q
<1>7. r = WithEnt(q, X)
  BY <1>1, <1>6 DEF Heap, WithEnt
<1> HIDE DEF X
<1>8. /\ Same(s, r) /\ r.ent = X /\ r.white = s.white \ S
      /\ SameFinal(s, r)
  BY <1>2, <1>7, ClearedFacts DEF q
<1> QED
  BY <1>3, <1>4, <1>8

\* lj_gc_separateudata
LEMMA SeparatedFacts ==
  ASSUME NEW s, Colored(s), NEW r, r = Separated(s)
  PROVE  /\ Same(s, r) /\ r.ent = s.ent
         /\ r.armed = s.armed \ s.white /\ r.mmudata = s.mmudata \cup (s.armed \cap s.white)
<1>1. s \in Heap
  BY DEF Colored
<1>2. /\ r \in Heap /\ r.ent = s.ent /\ r.white = s.white /\ r.black = s.black
      /\ r.lists = s.lists
      /\ r.armed = s.armed \ (s.armed \cap s.white)
      /\ r.mmudata = s.mmudata \cup (s.armed \cap s.white)
  BY <1>1 DEF Heap, Separated
<1>3. Colored(r)
  BY <1>2 DEF Colored
<1> QED
  BY <1>2, <1>3 DEF Same

-----------------------------------------------------------------------------
\* The least set of the manual.

LEMMA InUseLeast ==
  ASSUME NEW roots, NEW S \in SUBSET Objs, roots \subseteq S, ClosedSet(S)
  PROVE  InUse(roots) \subseteq S
BY DEF InUse, ClosedSet

LEMMA InUseClosed ==
  ASSUME Ready, NEW roots \in SUBSET Objs
  PROVE  InUse(roots) \in SUBSET Objs /\ roots \subseteq InUse(roots) /\ ClosedSet(InUse(roots))
<1>1. InUse(roots) = {o \in Objs : \A S \in SUBSET Objs : roots \subseteq S /\ ClosedSet(S) => o \in S}
  BY DEF InUse, ClosedSet
<1>2. ASSUME NEW e \in ent, e.t \in InUse(roots)
      PROVE  /\ "k" \notin mode[e.t] => e.k \in InUse(roots)
             /\ "v" \notin mode[e.t] /\ ("k" \in mode[e.t] /\ IsWeakKey(e.k) => e.k \in InUse(roots))
                  => e.v \in InUse(roots)
  <2>1. ASSUME NEW S \in SUBSET Objs, roots \subseteq S, ClosedSet(S)
        PROVE  /\ "k" \notin mode[e.t] => e.k \in S
               /\ "v" \notin mode[e.t] /\ ("k" \in mode[e.t] /\ IsWeakKey(e.k) => e.k \in InUse(roots))
                    => e.v \in S
    <3>1. e.t \in S /\ (e.k \in InUse(roots) => e.k \in S)
      BY <1>1, <1>2, <2>1
    <3> QED
      BY <2>1, <3>1 DEF ClosedSet
  <2> HIDE DEF InUse
  <2>2. e.k \in Objs /\ e.v \in Objs
    BY EntryTypes
  <2> QED
    BY <1>1, <2>1, <2>2
<1>3. ClosedSet(InUse(roots))
  BY <1>2 DEF ClosedSet
<1> QED
  BY <1>1, <1>3

-----------------------------------------------------------------------------
\* The atomic phase.

\* Nothing is left to traverse, and no marked key has a white value.
Settled(s) ==
  /\ Colored(s) /\ Cleared(s) /\ BlackDone(s) /\ Waiting(s)
  /\ s.lists["gray"] = {} /\ s.lists["grayagain"] = {} /\ EphemeronValues(s) = {}

\* A marked table is black, or on the list for its mode.
LEMMA SettledTables ==
  ASSUME Ready, NEW s, Settled(s), NEW t \in live \cap Tabs, t \notin s.white
  PROVE  \/ t \in s.black
         \/ mode[t] # {} /\ t \in s.lists[ListOf(mode[t])] /\ mode[t] \in WeakModes
<1>1. ASSUME t \notin s.black
      PROVE  mode[t] # {} /\ t \in s.lists[ListOf(mode[t])]
  <2>1. PICK l \in Lists : t \in s.lists[l]
    BY <1>1 DEF Settled, Colored
  <2>2. l \in WeakLists
    BY <2>1, ListNames DEF Settled
  <2> QED
    BY <2>1, <2>2 DEF Settled, Waiting
<1> QED
  BY <1>1 DEF Ready

\* What is marked is closed in the sense of the manual.
LEMMA SettledClosed ==
  ASSUME Ready, NEW s, Settled(s)
  PROVE  ClosedSet(live \ s.white)
<1> SUFFICES ASSUME NEW e \in ent, e.t \in live \ s.white
             PROVE  /\ "k" \notin mode[e.t] => e.k \in live \ s.white
                    /\ "v" \notin mode[e.t] /\ ("k" \in mode[e.t] /\ IsWeakKey(e.k)
                                                  => e.k \in live \ s.white)
                         => e.v \in live \ s.white
  BY DEF ClosedSet
<1>1. e.t \in live \cap Tabs /\ e.k \in live /\ e.v \in live
  BY EntryTypes
<1>2. CASE e.t \in s.black
  BY <1>1, <1>2 DEF Settled, BlackDone
<1>3. CASE mode[e.t] # {} /\ e.t \in s.lists[ListOf(mode[e.t])] /\ mode[e.t] \in WeakModes
  <2>1. "k" \notin mode[e.t] => e.k \notin s.white
    BY <1>3, ListOfFacts DEF Settled, Waiting
  <2>2. ASSUME "v" \notin mode[e.t], IsWeakKey(e.k) => e.k \notin s.white
        PROVE  e.v \notin s.white
    <3>1. e.t \in s.lists["ephemeron"]
      BY <1>3, <2>2, ListOfFacts
    <3>2. e \in s.ent
      <4>1. \A l \in {"weak", "allweak"} : s.lists[l] \cap s.lists["ephemeron"] = {}
        BY ListNames DEF Settled, Colored
      <4> QED
        BY <3>1, <4>1 DEF Settled, Cleared
    <3>3. KeyReachable(s, e.k)
      BY <2>2 DEF KeyReachable
    <3> QED
      BY <3>1, <3>2, <3>3 DEF Settled, EphemeronValues
  <2>3. "k" \in mode[e.t] \/ "v" \in mode[e.t]
    BY <1>3 DEF WeakModes
  <2>4. ASSUME "v" \notin mode[e.t],
               "k" \in mode[e.t] /\ IsWeakKey(e.k) => e.k \in live \ s.white
        PROVE  e.v \in live \ s.white
    BY <1>1, <2>2, <2>3, <2>4
  <2> QED
    BY <1>1, <2>1, <2>4
<1> QED
  BY <1>1, <1>2, <1>3, SettledTables

\* Everything is marked from what is on these lists and in this set.
LEMMA SettleFacts ==
  ASSUME Ready, NEW s, Colored(s), Cleared(s), BlackDone(s), Waiting(s),
         s.lists["grayagain"] = {}, NEW S \in SUBSET Objs,
         NEW r, r = Ephemerons(PropagateAll(Mark(s, S)))
  PROVE  /\ Settled(r) /\ S \cap r.white = {} /\ r.white \subseteq s.white
         /\ r.ent = s.ent /\ r.armed = s.armed /\ r.mmudata = s.mmudata
         /\ \A B : Fresh(s, B) => Fresh(r, B)
         /\ \A U \in SUBSET Objs : ClosedSet(U) /\ Bounded(s, U) /\ S \subseteq U => Bounded(r, U)
<1> DEFINE m == Mark(s, S)
           p == PropagateAll(m)
<1>1. r = Ephemerons(p)
  OBVIOUS
<1>2. /\ Colored(m)
      /\ m.white = s.white \ S /\ m.black = s.black \cup (S \cap s.white \cap Strs)
      /\ \A l \in Lists \ {"gray"} : m.lists[l] = s.lists[l]
      /\ m.ent = s.ent /\ m.armed = s.armed /\ m.mmudata = s.mmudata
  <2> HIDE DEF m
  <2>1. m = Mark(s, S)
    BY DEF m
  <2> QED
    BY <2>1, MarkFacts DEF Ready
<1>3. p = PropagateAll(m)
  OBVIOUS
<1> HIDE DEF m, p
<1>4. \A l \in WeakLists \cup {"grayagain"} : m.lists[l] = s.lists[l]
  BY <1>2, ListNames
<1>5. Cleared(m) /\ BlackDone(m) /\ Waiting(m) /\ (\A B : Fresh(s, B) => Fresh(m, B))
  <2>1. Cleared(m)
    BY <1>2, <1>4, ListNames DEF Cleared
  <2>2. BlackDone(m)
    BY <1>2, EntryTypes DEF BlackDone
  <2>3. Waiting(m)
    BY <1>2, <1>4, ListNames DEF Waiting
  <2>4. \A B : Fresh(s, B) => Fresh(m, B)
    BY <1>2 DEF Fresh, Ready, WeakAssumption
  <2> QED
    BY <2>1, <2>2, <2>3, <2>4
<1>6. Progress(m, p) /\ p.lists["gray"] = {}
  BY <1>2, <1>3, <1>5, PropagateAllFacts
<1>7. Progress(p, r) /\ r.lists["gray"] = {} /\ EphemeronValues(r) = {}
  BY <1>1, <1>5, <1>6, EphemeronsFacts DEF Progress
<1>8. Progress(m, r)
  BY <1>6, <1>7, ProgressChain
<1>9. Settled(r)
  BY <1>4, <1>5, <1>7, <1>8 DEF Settled, Progress
<1>10. r.white \subseteq m.white
  BY <1>8 DEF Progress
<1>11. ASSUME NEW U \in SUBSET Objs, ClosedSet(U), Bounded(s, U), S \subseteq U
       PROVE  Bounded(r, U)
  <2>1. Bounded(m, U)
    BY <1>2, <1>11 DEF Bounded
  <2> QED
    BY <1>8, <1>11, <2>1 DEF Progress
<1> QED
  BY <1>2, <1>5, <1>8, <1>9, <1>10, <1>11 DEF Progress

\* The steps of atomic() up to the sweep.
Second(s) ==
  LET first == Ephemerons(PropagateAll(Relinked(s, WeakLists)))
  IN Ephemerons(PropagateAll(Mark(Relinked(first, {"grayagain"}), stack)))
Apart(s) == Separated(ClearValues(s, {"weak", "allweak"}))
Third(s) == Ephemerons(PropagateAll(Mark(s, s.mmudata)))
Unreferred(s) == ClearValues(ClearKeys(s, {"ephemeron", "allweak"}), {"weak", "allweak"})

LEMMA AtomicSteps ==
  ASSUME NEW s, AtomicPhase(s)
  PROVE  \E a, b, c, d : /\ a = Second(s) /\ b = Apart(a) /\ c = Third(b) /\ d = Unreferred(c)
                         /\ Swept(d)
BY DEF AtomicPhase, Second, Apart, Third, Unreferred

\* What holds when the atomic phase starts.
Starts(s) ==
  /\ Colored(s) /\ BlackDone(s) /\ s.lists["gray"] = {}
  /\ s.ent = ent /\ s.armed = armed /\ s.mmudata = {}
  /\ stack \subseteq Tabs /\ armed \subseteq Tabs

LEMMA SecondFacts ==
  ASSUME Ready, NEW s, Starts(s), NEW r, r = Second(s)
  PROVE  /\ Settled(r) /\ stack \cap r.white = {} /\ r.white \subseteq s.white
         /\ r.ent = ent /\ r.armed = armed /\ r.mmudata = {}
         /\ \A B : Fresh(s, B) => Fresh(r, B)
         /\ \A U \in SUBSET Objs : ClosedSet(U) /\ Bounded(s, U) /\ stack \subseteq U => Bounded(r, U)
<1> DEFINE f0 == Relinked(s, WeakLists)
           f1 == PropagateAll(f0)
           f2 == Ephemerons(f1)
           f3 == Relinked(f2, {"grayagain"})
<1>0. /\ r = Ephemerons(PropagateAll(Mark(f3, stack)))
      /\ f0 = Relinked(s, WeakLists) /\ f1 = PropagateAll(f0) /\ f2 = Ephemerons(f1)
      /\ f3 = Relinked(f2, {"grayagain"})
  BY DEF Second
<1> HIDE DEF f0, f1, f2, f3
<1>1. /\ Colored(f0) /\ f0.white = s.white /\ f0.black = s.black
      /\ \A l \in WeakLists : f0.lists[l] = {}
      /\ f0.ent = s.ent /\ f0.armed = s.armed /\ f0.mmudata = s.mmudata
  <2>1. WeakLists \in SUBSET (Lists \ {"gray"})
    BY ListNames
  <2>2. /\ Colored(f0) /\ f0.white = s.white /\ f0.black = s.black
        /\ \A l \in Lists \ {"gray"} : f0.lists[l] = IF l \in WeakLists THEN {} ELSE s.lists[l]
        /\ f0.ent = s.ent /\ f0.armed = s.armed /\ f0.mmudata = s.mmudata
    BY <1>0, <2>1, RelinkedFacts DEF Starts
  <2> QED
    BY <2>1, <2>2
<1>2. /\ Cleared(f0) /\ BlackDone(f0) /\ Waiting(f0) /\ (\A B : Fresh(s, B) => Fresh(f0, B))
      /\ \A U : Bounded(s, U) => Bounded(f0, U)
  BY <1>1, ListNames DEF Starts, Cleared, BlackDone, Waiting, Fresh, Bounded
<1>3. Progress(f0, f1) /\ f1.lists["gray"] = {}
  BY <1>0, <1>1, <1>2, PropagateAllFacts
<1>4. Progress(f1, f2) /\ f2.lists["gray"] = {}
  BY <1>0, <1>2, <1>3, EphemeronsFacts DEF Progress
<1>5. Progress(f0, f2)
  BY <1>3, <1>4, ProgressChain
<1>6. /\ Colored(f2) /\ f2.white \subseteq s.white /\ BlackDone(f2) /\ Waiting(f2)
      /\ f2.ent = ent /\ f2.armed = armed /\ f2.mmudata = {}
      /\ \A B : Fresh(s, B) => Fresh(f2, B)
      /\ \A U \in SUBSET Objs : ClosedSet(U) /\ Bounded(s, U) => Bounded(f2, U)
  BY <1>1, <1>2, <1>5 DEF Progress, Starts
<1>7. /\ Colored(f3) /\ f3.white = f2.white /\ f3.black = f2.black
      /\ f3.lists["grayagain"] = {}
      /\ \A l \in WeakLists : f3.lists[l] = f2.lists[l]
      /\ f3.ent = f2.ent /\ f3.armed = f2.armed /\ f3.mmudata = f2.mmudata
  <2>1. {"grayagain"} \in SUBSET (Lists \ {"gray"})
    BY ListNames
  <2>2. /\ Colored(f3) /\ f3.white = f2.white /\ f3.black = f2.black
        /\ \A l \in Lists \ {"gray"} : f3.lists[l] = IF l \in {"grayagain"} THEN {} ELSE f2.lists[l]
        /\ f3.ent = f2.ent /\ f3.armed = f2.armed /\ f3.mmudata = f2.mmudata
    BY <1>0, <1>6, <2>1, RelinkedFacts
  <2> QED
    BY <2>1, <2>2, ListNames
<1>8. /\ Cleared(f3) /\ BlackDone(f3) /\ Waiting(f3) /\ (\A B : Fresh(s, B) => Fresh(f3, B))
      /\ \A U \in SUBSET Objs : ClosedSet(U) /\ Bounded(s, U) => Bounded(f3, U)
  BY <1>6, <1>7, ListNames DEF Cleared, BlackDone, Waiting, Fresh, Bounded
<1>9. stack \in SUBSET Objs
  BY DEF Starts, Objs
<1>10. /\ Settled(r) /\ stack \cap r.white = {} /\ r.white \subseteq f3.white
       /\ r.ent = f3.ent /\ r.armed = f3.armed /\ r.mmudata = f3.mmudata
       /\ \A B : Fresh(f3, B) => Fresh(r, B)
       /\ \A U \in SUBSET Objs : ClosedSet(U) /\ Bounded(f3, U) /\ stack \subseteq U => Bounded(r, U)
  BY <1>0, <1>7, <1>8, <1>9, SettleFacts
<1> QED
  BY <1>6, <1>7, <1>8, <1>10

\* Weak values are cleared, and tables with a finalizer separated.
LEMMA ApartFacts ==
  ASSUME Ready, NEW a, Settled(a), a.ent = ent, a.mmudata = {}, a.armed = armed,
         armed \subseteq Tabs, NEW b, b = Apart(a)
  PROVE  /\ Colored(b) /\ Cleared(b) /\ BlackDone(b) /\ Waiting(b)
         /\ b.lists["grayagain"] = {} /\ b.white \cap Tabs = a.white \cap Tabs
         /\ b.white \subseteq a.white
         /\ b.armed = armed \ a.white /\ b.mmudata = armed \cap a.white
         /\ b.ent = {e \in ent : ~(e.t \in On(a, {"weak", "allweak"}) /\ e.v \in Tabs \cap a.white)}
         /\ \A B : Fresh(a, B) => Fresh(b, B)
         /\ \A U : Bounded(a, U) => Bounded(b, U)
<1> DEFINE ls == {"weak", "allweak"}
           v == ClearValues(a, ls)
<1>1. b = Separated(v) /\ v = ClearValues(a, ls)
  BY DEF Apart
<1> HIDE DEF ls, v
<1>2. /\ Same(a, v)
      /\ \A e : e \in v.ent <=> e \in a.ent /\ ~(e.t \in On(a, ls) /\ MayClear(a, e.v, TRUE))
      /\ v.armed = a.armed /\ v.mmudata = a.mmudata
  BY <1>1, ClearValuesFacts DEF Settled, Cleared, SameFinal
<1>3. /\ Same(v, b) /\ b.ent = v.ent
      /\ b.armed = v.armed \ v.white /\ b.mmudata = v.mmudata \cup (v.armed \cap v.white)
  BY <1>1, <1>2, SeparatedFacts DEF Same
<1>4. Same(a, b)
  <2>1. b.white \subseteq a.white /\ b.ent \subseteq a.ent
    BY <1>2, <1>3 DEF Same
  <2> QED
    BY <1>2, <1>3, <2>1 DEF Same
<1>5. /\ BlackDone(b) /\ Waiting(b) /\ (\A B : Fresh(a, B) => Fresh(b, B))
      /\ \A U : Bounded(a, U) => Bounded(b, U)
  BY <1>4, SameKeeps DEF Settled
<1>6. b.ent = {e \in ent : ~(e.t \in On(a, ls) /\ e.v \in Tabs \cap a.white)}
  BY <1>2, <1>3 DEF MayClear
<1>7. Cleared(b)
  BY <1>4, <1>6 DEF Cleared, On, Same, ls
<1>8. b.armed = armed \ a.white /\ b.mmudata = armed \cap a.white
  <2>1. v.white \cap Tabs = a.white \cap Tabs
    BY <1>2 DEF Same
  <2> QED
    BY <1>2, <1>3, <2>1
<1> QED
  BY <1>4, <1>5, <1>6, <1>7, <1>8 DEF Same, Settled, ls

\* What is separated is kept, with what it refers to.
LEMMA ThirdFacts ==
  ASSUME Ready, NEW b, Colored(b), Cleared(b), BlackDone(b), Waiting(b),
         b.lists["grayagain"] = {}, NEW c, c = Third(b)
  PROVE  /\ Settled(c) /\ b.mmudata \cap c.white = {} /\ c.white \subseteq b.white
         /\ c.ent = b.ent /\ c.armed = b.armed /\ c.mmudata = b.mmudata
         /\ \A B : Fresh(b, B) => Fresh(c, B)
         /\ \A U \in SUBSET Objs : ClosedSet(U) /\ Bounded(b, U) /\ b.mmudata \subseteq U
                                   => Bounded(c, U)
<1> DEFINE M == b.mmudata
<1>1. M \in SUBSET Objs
  BY DEF Colored, Heap
<1>2. c = Ephemerons(PropagateAll(Mark(b, M)))
  BY DEF Third
<1> HIDE DEF M
<1>3. /\ Settled(c) /\ M \cap c.white = {} /\ c.white \subseteq b.white
      /\ c.ent = b.ent /\ c.armed = b.armed /\ c.mmudata = b.mmudata
      /\ \A B : Fresh(b, B) => Fresh(c, B)
      /\ \A U \in SUBSET Objs : ClosedSet(U) /\ Bounded(b, U) /\ M \subseteq U => Bounded(c, U)
  BY <1>1, <1>2, SettleFacts
<1> QED
  BY <1>3 DEF M

\* Afterwards no marked table refers to anything white.
LEMMA UnreferredFacts ==
  ASSUME Ready, NEW c, Settled(c), NEW d, d = Unreferred(c)
  PROVE  /\ Colored(d) /\ d.armed = c.armed /\ d.mmudata = c.mmudata
         /\ d.white \cap Tabs = c.white \cap Tabs /\ d.white \subseteq c.white
         /\ d.ent = {e \in c.ent :
                       /\ ~(e.t \in On(c, {"ephemeron", "allweak"}) /\ e.k \in Tabs \cap c.white)
                       /\ ~(e.t \in On(c, {"weak", "allweak"})
                              /\ e.v \in Tabs \cap (c.white \cup c.mmudata))}
         /\ \A e \in d.ent : e.t \notin d.white => e.k \notin d.white /\ e.v \notin d.white
<1> DEFINE ks == {"ephemeron", "allweak"}
           ls == {"weak", "allweak"}
           q == ClearKeys(c, ks)
<1>1. d = ClearValues(q, ls) /\ q = ClearKeys(c, ks)
  BY DEF Unreferred
<1>2. /\ \A t : t \in On(c, ks) <=> t \in c.lists["ephemeron"] \/ t \in c.lists["allweak"]
      /\ \A t : t \in On(c, ls) <=> t \in c.lists["weak"] \/ t \in c.lists["allweak"]
  BY DEF On
<1> HIDE DEF ks, ls, q
<1>3. /\ Same(c, q)
      /\ \A e : e \in q.ent <=> e \in c.ent /\ ~(e.t \in On(c, ks) /\ MayClear(c, e.k, FALSE))
      /\ \A e \in q.ent : e.t \in On(c, ks) /\ e.k \in Strs => e.k \notin q.white
      /\ SameFinal(c, q)
  BY <1>1, ClearKeysFacts DEF Settled, Cleared
<1>4. q.ent \subseteq ent /\ Colored(q)
  BY <1>3 DEF Same, Settled, Cleared
<1>5. /\ Same(q, d)
      /\ \A e : e \in d.ent <=> e \in q.ent /\ ~(e.t \in On(q, ls) /\ MayClear(q, e.v, TRUE))
      /\ \A e \in d.ent : e.t \in On(q, ls) /\ e.v \in Strs => e.v \notin d.white
      /\ SameFinal(q, d)
  <2>1. d = ClearValues(q, ls)
    BY <1>1
  <2>2. Ready /\ Colored(q) /\ q.ent \subseteq ent
    BY <1>4
  <2> QED
    BY <2>1, <2>2, ClearValuesFacts
<1>6. On(q, ls) = On(c, ls)
  BY <1>3 DEF On, Same
<1>7. /\ q.white \cap Tabs = c.white \cap Tabs /\ d.white \cap Tabs = c.white \cap Tabs
      /\ q.white \subseteq c.white /\ d.white \subseteq q.white
  BY <1>3, <1>5 DEF Same
<1>8. d.ent = {e \in c.ent :
                 /\ ~(e.t \in On(c, ks) /\ e.k \in Tabs \cap c.white)
                 /\ ~(e.t \in On(c, ls) /\ e.v \in Tabs \cap (c.white \cup c.mmudata))}
  BY <1>3, <1>5, <1>6, <1>7 DEF MayClear, SameFinal
<1>9. ASSUME NEW e \in d.ent, e.t \notin d.white
      PROVE  e.k \notin d.white /\ e.v \notin d.white
  <2>1. e \in c.ent /\ e \in q.ent /\ e \in ent
    BY <1>5, <1>8 DEF Settled, Cleared
  <2>2. e.t \in live \cap Tabs /\ e.k \in Objs /\ e.v \in Objs /\ e.t \notin c.white
    BY <1>7, <1>9, <2>1, EntryTypes
  <2>3. /\ e.t \in On(c, ks) => e.k \notin d.white
        /\ e.t \in On(c, ls) => e.v \notin d.white
    BY <1>3, <1>5, <1>6, <1>7, <1>8, <1>9, <2>1, <2>2 DEF Objs
  <2>4. CASE e.t \in c.black
    BY <1>7, <2>1, <2>4 DEF Settled, BlackDone
  <2>5. CASE mode[e.t] # {} /\ e.t \in c.lists[ListOf(mode[e.t])] /\ mode[e.t] \in WeakModes
    <3>1. ListOf(mode[e.t]) \in {"weak", "ephemeron", "allweak"}
      BY <2>5, ListOfFacts, ListNames
    <3>2. CASE e.t \in c.lists["weak"]
      <4>1. e.k \notin c.white
        BY <2>1, <3>2 DEF Settled, Waiting
      <4> QED
        BY <1>2, <1>7, <2>3, <3>2, <4>1
    <3>3. CASE e.t \in c.lists["allweak"]
      BY <1>2, <2>3, <3>3
    <3>4. CASE e.t \in c.lists["ephemeron"]
      <4>1. KeyReachable(c, e.k)
        BY <1>2, <1>8, <1>9, <3>4 DEF KeyReachable, IsWeakKey
      <4>2. e.v \notin c.white
        BY <2>1, <3>4, <4>1 DEF Settled, EphemeronValues
      <4> QED
        BY <1>2, <1>7, <2>3, <3>4, <4>2
    <3> QED
      BY <2>5, <3>1, <3>2, <3>3, <3>4
  <2> QED
    BY <2>2, <2>4, <2>5, SettledTables
<1> QED
  BY <1>3, <1>5, <1>7, <1>8, <1>9 DEF Same, SameFinal, ks, ls

\* The atomic phase as a whole.
LEMMA AtomicFacts ==
  ASSUME Ready, NEW s, Starts(s), AtomicPhase(s)
  PROVE  \E a, c, d :
           /\ Settled(a) /\ a.ent = ent /\ stack \cap a.white = {} /\ a.white \subseteq s.white
           /\ Settled(c) /\ c.white \subseteq a.white /\ c.mmudata = armed \cap a.white
           /\ c.mmudata \cap c.white = {} /\ c.armed = armed \ a.white
           /\ c.ent = {e \in ent : ~(e.t \in On(a, {"weak", "allweak"}) /\ e.v \in Tabs \cap a.white)}
           /\ d = Unreferred(c) /\ Swept(d)
           /\ \A B : Fresh(s, B) => Fresh(a, B)
           /\ \A B : Fresh(a, B) => Fresh(c, B)
           /\ \A U \in SUBSET Objs :
                ClosedSet(U) /\ Bounded(s, U) /\ stack \subseteq U =>
                  Bounded(a, U) /\ (c.mmudata \subseteq U => Bounded(c, U))
<1>1. PICK a, b, c, d : /\ a = Second(s) /\ b = Apart(a) /\ c = Third(b) /\ d = Unreferred(c)
                        /\ Swept(d)
  BY AtomicSteps
<1>2. /\ Settled(a) /\ stack \cap a.white = {} /\ a.white \subseteq s.white
      /\ a.ent = ent /\ a.armed = armed /\ a.mmudata = {}
      /\ \A B : Fresh(s, B) => Fresh(a, B)
      /\ \A U \in SUBSET Objs : ClosedSet(U) /\ Bounded(s, U) /\ stack \subseteq U => Bounded(a, U)
  BY <1>1, SecondFacts
<1>3. armed \subseteq Tabs
  BY DEF Starts
<1>4. /\ Colored(b) /\ Cleared(b) /\ BlackDone(b) /\ Waiting(b)
      /\ b.lists["grayagain"] = {} /\ b.white \cap Tabs = a.white \cap Tabs
      /\ b.white \subseteq a.white
      /\ b.armed = armed \ a.white /\ b.mmudata = armed \cap a.white
      /\ b.ent = {e \in ent : ~(e.t \in On(a, {"weak", "allweak"}) /\ e.v \in Tabs \cap a.white)}
      /\ \A B : Fresh(a, B) => Fresh(b, B)
      /\ \A U : Bounded(a, U) => Bounded(b, U)
  BY <1>1, <1>2, <1>3, ApartFacts
<1>5. /\ Settled(c) /\ b.mmudata \cap c.white = {} /\ c.white \subseteq b.white
      /\ c.ent = b.ent /\ c.armed = b.armed /\ c.mmudata = b.mmudata
      /\ \A B : Fresh(b, B) => Fresh(c, B)
      /\ \A U \in SUBSET Objs : ClosedSet(U) /\ Bounded(b, U) /\ b.mmudata \subseteq U
                                => Bounded(c, U)
  BY <1>1, <1>4, ThirdFacts
<1>6. ASSUME NEW U \in SUBSET Objs, ClosedSet(U), Bounded(s, U), stack \subseteq U
      PROVE  Bounded(a, U) /\ (c.mmudata \subseteq U => Bounded(c, U))
  BY <1>2, <1>4, <1>5, <1>6
<1>7. c.white \subseteq a.white
  BY <1>4, <1>5
<1> QED
  BY <1>1, <1>2, <1>4, <1>5, <1>6, <1>7

-----------------------------------------------------------------------------
\* The actions keep the invariant.

LEMMA InvReady ==
  ASSUME WeakAssumption, IInv
  PROVE  /\ Ready /\ Now.white = white /\ Now.black = black /\ Now.lists = lists
         /\ Now.ent = ent /\ Now.armed = armed /\ Now.mmudata = mmudata
         /\ Colored(Now) /\ Cleared(Now) /\ BlackDone(Now)
BY DEF IInv, Typed, Ready, Now, Cleared

\* What the program gets hold of is there.
LEMMA AccessibleLive ==
  ASSUME WeakAssumption, IInv
  PROVE  Accessible \subseteq live
<1> DEFINE C == Cardinality(Tabs)
           More(S) == S \cup UNION {{e.k, e.v} : e \in {d \in ent : d.t \in S}}
           D == SUBSET live
           step == [S \in D |-> More(S)]
           G == CHOOSE Go : Go = [n \in 0..C |-> IF n = 0 THEN stack ELSE More(Go[n - 1])]
<1>0. C \in Nat
  BY Sizes
<1>1. stack \in D
  BY DEF IInv, NoDangling
<1>2. ASSUME NEW S \in D
      PROVE  More(S) \in D
  <2>1. ASSUME NEW e \in ent
        PROVE  {e.k, e.v} \subseteq live
    BY InvReady, EntryTypes
  <2> QED
    BY <2>1
<1>3. Accessible = G[C]
  BY DEF Accessible
<1> HIDE DEF More, D
<1>4. step \in [D -> D]
  BY <1>2
<1>5. PICK F \in [0..C -> D] : RoundsOf(F, step, stack, C)
  <2> HIDE DEF step, C
  <2> QED
    BY <1>0, <1>1, <1>4, RoundsExist
<1>6. ASSUME NEW k \in 0..C
      PROVE  F[k] = IF k = 0 THEN stack ELSE More(F[k - 1])
  <2>1. k # 0 => k - 1 \in 0..C
    BY <1>0
  <2>2. k # 0 => F[k - 1] \in D
    BY <1>5, <2>1
  <2>3. F[k] = IF k = 0 THEN stack ELSE step[F[k - 1]]
    BY <1>5 DEF RoundsOf
  <2> QED
    BY <2>2, <2>3
<1>7. F = [n \in 0..C |-> IF n = 0 THEN stack ELSE More(F[n - 1])]
  BY <1>5, <1>6 DEF RoundsOf
<1>8. G = [n \in 0..C |-> IF n = 0 THEN stack ELSE More(G[n - 1])]
  BY <1>7, Zenon
<1> DEFINE S == {n \in Nat : n <= C => G[n] \in D}
<1> HIDE DEF step, G, C
<1>9. 0 \in S
  BY <1>0, <1>1, <1>8
<1>10. ASSUME NEW n \in Nat, n \in S
       PROVE  n + 1 \in S
  <2> SUFFICES ASSUME n + 1 <= C
               PROVE  G[n + 1] \in D
    OBVIOUS
  <2>1. n <= C /\ n + 1 \in 0..C /\ n + 1 # 0 /\ (n + 1) - 1 = n
    BY <1>0
  <2>2. G[n + 1] = More(G[n])
    BY <1>8, <2>1
  <2> QED
    BY <1>2, <1>10, <2>1, <2>2
<1> HIDE DEF S
<1>11. Nat \subseteq S
  BY <1>9, <1>10, SetInduction
<1>12. C <= C
  BY <1>0
<1>13. G[C] \in D
  BY <1>0, <1>11, <1>12 DEF S
<1> QED
  BY <1>3, <1>13 DEF D

\* What the parts of the invariant depend on.
LEMMA HeapSame ==
  ASSUME IInv, UNCHANGED <<ent, mode, live, white, black, lists>>,
         stack' \subseteq live \cap Tabs, armed' \cup mmudata' \subseteq Armable \cap live,
         gcstate' \in {"pause", "propagate"}, gcstate' = gcstate,
         gcstate # "pause" => mmudata' = {}, WeakAssumption
  PROVE  IInv'
<1>1. Typed'
  BY DEF IInv, Typed
<1>2. Colored(Now)'
  BY DEF IInv, Colored, Now, Heap, Objs, Ents, WeakAssumption
<1>3. NoDangling'
  BY DEF IInv, NoDangling
<1>4. BlackDone(Now)'
  BY DEF IInv, BlackDone, Now
<1>5. PhaseInv'
  BY DEF IInv, PhaseInv
<1> QED
  BY <1>1, <1>2, <1>3, <1>4, <1>5 DEF IInv

LEMMA InitInv ==
  ASSUME WeakAssumption, Init
  PROVE  IInv
<1>1. \A l \in Lists : lists[l] = {}
  BY DEF Init, Unlinked
<1>2. lists \in [Lists -> SUBSET Tabs]
  BY DEF Init, Unlinked
<1>3. Typed
  BY DEF Init, Typed, WeakModes
<1>4. Colored(Now)
  BY <1>1, <1>2 DEF Init, Colored, Now, Heap
<1>5. NoDangling
  BY DEF Init, NoDangling
<1>6. BlackDone(Now)
  BY DEF Init, BlackDone
<1>7. PhaseInv
  BY DEF Init, PhaseInv
<1> QED
  BY <1>3, <1>4, <1>5, <1>6, <1>7 DEF IInv

\* The start of a cycle: everything is white, and the stack is marked.
LEMMA StartFacts ==
  ASSUME WeakAssumption, IInv, NEW m, m = Mark(Reset, stack)
  PROVE  /\ Colored(m) /\ Cleared(m) /\ BlackDone(m) /\ Fresh(m, {})
         /\ m.ent = ent /\ m.armed = armed /\ m.mmudata = mmudata
         /\ Bounded(m, InUse(stack))
<1> DEFINE z == Reset
<1>1. z = [Now EXCEPT !.white = live, !.black = {}, !.lists = Unlinked]
  BY DEF Reset
<1>2. Unlinked \in [Lists -> SUBSET Tabs] /\ \A l \in Lists : Unlinked[l] = {}
  BY DEF Unlinked
<1>3. Now \in Heap /\ live \subseteq Objs /\ stack \in SUBSET Objs
  BY DEF IInv, Colored, Typed, Objs
<1> HIDE DEF z
<1>4. /\ z \in Heap /\ z.white = live /\ z.black = {} /\ z.lists = Unlinked
      /\ z.ent = ent /\ z.armed = armed /\ z.mmudata = mmudata
  BY <1>1, <1>2, <1>3 DEF Heap, Now
<1>5. Colored(z)
  BY <1>2, <1>4 DEF Colored
<1>6. m = Mark(z, stack)
  BY DEF z
<1>7. /\ Colored(m)
      /\ m.white = z.white \ stack /\ m.black = z.black \cup (stack \cap z.white \cap Strs)
      /\ m.ent = z.ent /\ m.armed = z.armed /\ m.mmudata = z.mmudata
  BY <1>3, <1>5, <1>6, MarkFacts
<1>8. m.black \subseteq Strs
  BY <1>4, <1>7
<1>9. BlackDone(m) /\ Fresh(m, {})
  BY <1>8, EntryTypes, InvReady DEF BlackDone, Fresh, WeakAssumption
<1>10. Cleared(m)
  BY <1>4, <1>7 DEF Cleared
<1>11. stack \subseteq InUse(stack)
  BY <1>3, InvReady, InUseClosed
<1>12. Bounded(m, InUse(stack))
  BY <1>4, <1>7, <1>11 DEF Bounded
<1> QED
  BY <1>4, <1>7, <1>9, <1>10, <1>12

\* Marking changes colors and lists only.
LEMMA MarkedInv ==
  ASSUME WeakAssumption, IInv, NEW s, Marked(s), Colored(s), s.ent = ent, BlackDone(s),
         UNCHANGED <<mutvars, mmudata>>, gcstate' \in {"propagate", "full"}, mmudata = {},
         gcstate' = "full" => /\ s.lists["gray"] = {} /\ Fresh(s, {}) /\ Bounded(s, InUse(stack))
  PROVE  IInv'
<1>1. /\ white' = s.white /\ black' = s.black /\ lists' = s.lists
      /\ UNCHANGED <<ent, mode, stack, armed, live, mmudata>>
  BY DEF Marked, mutvars
<1>2. Typed'
  BY <1>1 DEF IInv, Typed
<1>3. Colored(Now)'
  BY <1>1 DEF IInv, Colored, Now, Heap, Typed, Objs, WeakAssumption
<1>4. NoDangling'
  BY <1>1 DEF IInv, NoDangling
<1>5. BlackDone(Now)'
  BY <1>1 DEF BlackDone, Now
<1>6. InUse(stack)' = InUse(stack)
  BY <1>1 DEF InUse
<1>7. ASSUME gcstate' = "full"
      PROVE  lists'["gray"] = {} /\ Fresh(Now, {})' /\ Bounded(Now, InUse(stack))'
  BY <1>1, <1>6, <1>7 DEF Fresh, Bounded, Now
<1>8. PhaseInv'
  BY <1>1, <1>7 DEF PhaseInv
<1> QED
  BY <1>2, <1>3, <1>4, <1>5, <1>8 DEF IInv

LEMMA MarkStartKeeps ==
  ASSUME WeakAssumption, IInv, MarkStart
  PROVE  IInv'
<1> DEFINE m == Mark(Reset, stack)
<1>1. m = Mark(Reset, stack) /\ Marked(m)
  BY DEF MarkStart
<1> HIDE DEF m
<1>2. Colored(m) /\ BlackDone(m) /\ m.ent = ent
  BY <1>1, StartFacts
<1> QED
  BY <1>1, <1>2, MarkedInv DEF MarkStart

LEMMA PropagateKeeps ==
  ASSUME WeakAssumption, IInv, NEW t \in Tabs, Propagate(t)
  PROVE  IInv'
<1> DEFINE r == Traversed(Now, t)
<1>1. r = Traversed(Now, t) /\ Marked(r)
  BY DEF Propagate
<1>2. t \in Now.lists["gray"]
  BY InvReady DEF Propagate
<1> HIDE DEF r
<1>3. Progress(Now, r)
  BY <1>1, <1>2, InvReady, TraversedFacts
<1>4. Colored(r) /\ r.ent = ent /\ BlackDone(r)
  BY <1>3, InvReady DEF Progress
<1>5. mmudata = {} /\ gcstate' = "propagate" /\ UNCHANGED <<mutvars, mmudata>>
  BY DEF Propagate, IInv, PhaseInv
<1> QED
  BY <1>1, <1>4, <1>5, MarkedInv

LEMMA FullGCKeeps ==
  ASSUME WeakAssumption, IInv, FullGC
  PROVE  IInv'
<1> DEFINE m == Mark(Reset, stack)
           r == PropagateAll(m)
<1>1. m = Mark(Reset, stack) /\ r = PropagateAll(m) /\ Marked(r)
  BY DEF FullGC
<1> HIDE DEF m, r
<1>2. /\ Colored(m) /\ Cleared(m) /\ BlackDone(m) /\ Fresh(m, {}) /\ m.ent = ent
      /\ Bounded(m, InUse(stack))
  BY <1>1, StartFacts
<1>3. Progress(m, r) /\ r.lists["gray"] = {}
  BY <1>1, <1>2, InvReady, PropagateAllFacts
<1>4. InUse(stack) \in SUBSET Objs /\ ClosedSet(InUse(stack))
  <2>1. stack \in SUBSET Objs
    BY DEF IInv, Typed, Objs
  <2> QED
    BY <2>1, InvReady, InUseClosed
<1>5. Colored(r) /\ r.ent = ent /\ BlackDone(r) /\ Fresh(r, {}) /\ Bounded(r, InUse(stack))
  BY <1>2, <1>3, <1>4 DEF Progress
<1>6. mmudata = {} /\ gcstate' = "full" /\ UNCHANGED <<mutvars, mmudata>>
  BY DEF FullGC
<1> QED
  BY <1>1, <1>3, <1>5, <1>6, MarkedInv

LEMMA AtomicStarts ==
  ASSUME WeakAssumption, IInv, Atomic
  PROVE  Starts(Now) /\ AtomicPhase(Now)
<1>1. lists["gray"] = {} /\ mmudata = {}
  BY DEF Atomic, IInv, PhaseInv
<1>2. stack \subseteq Tabs /\ armed \subseteq Tabs
  BY DEF IInv, Typed, WeakAssumption
<1> QED
  BY <1>1, <1>2, InvReady DEF Starts, Atomic

LEMMA AtomicKeeps ==
  ASSUME WeakAssumption, IInv, Atomic
  PROVE  IInv'
<1>1. PICK a, c, d :
        /\ stack \cap a.white = {} /\ c.white \subseteq a.white
        /\ Settled(c) /\ c.mmudata = armed \cap a.white
        /\ c.mmudata \cap c.white = {} /\ c.armed = armed \ a.white
        /\ d = Unreferred(c) /\ Swept(d)
  BY AtomicStarts, InvReady, AtomicFacts
<1>2. /\ Colored(d) /\ d.armed = c.armed /\ d.mmudata = c.mmudata
      /\ d.white \subseteq c.white /\ d.ent \subseteq c.ent
      /\ \A e \in d.ent : e.t \notin d.white => e.k \notin d.white /\ e.v \notin d.white
  BY <1>1, InvReady, UnreferredFacts
<1>3. /\ ent' = {e \in d.ent : e.t \notin d.white} /\ live' = live \ d.white /\ white' = live'
      /\ black' = {} /\ lists' = Unlinked /\ armed' = d.armed /\ mmudata' = d.mmudata
      /\ gcstate' = "pause" /\ mode' = mode /\ stack' = stack
  BY <1>1 DEF Swept
<1>4. ent' \subseteq ent /\ c.ent \subseteq ent
  BY <1>1, <1>2, <1>3 DEF Settled, Cleared
<1>5. armed' \subseteq armed /\ mmudata' \subseteq armed
  BY <1>1, <1>2, <1>3
<1>6. Typed'
  BY <1>3, <1>4, <1>5 DEF IInv, Typed
<1>7. lists' \in [Lists -> SUBSET Tabs] /\ \A l \in Lists : lists'[l] = {}
  BY <1>3 DEF Unlinked
<1>8. Colored(Now)'
  BY <1>3, <1>4, <1>5, <1>7 DEF IInv, Colored, Now, Heap, Typed, Objs, WeakAssumption
<1>9. NoDangling'
  <2>1. stack' \cup mmudata' \cup armed' \subseteq live'
    BY <1>1, <1>2, <1>3 DEF IInv, NoDangling
  <2>2. ASSUME NEW e \in ent'
        PROVE  {e.t, e.k, e.v} \subseteq live'
    BY <1>2, <1>3, <1>4, InvReady, EntryTypes
  <2> QED
    BY <2>1, <2>2 DEF NoDangling
<1>10. BlackDone(Now)'
  BY <1>3 DEF BlackDone, Now
<1>11. PhaseInv'
  BY <1>3 DEF PhaseInv
<1> QED
  BY <1>6, <1>8, <1>9, <1>10, <1>11 DEF IInv

\* Between collections of a full one the program runs: what it may have changed on
\* the side of the collector.
LEMMA BarrierFacts ==
  ASSUME WeakAssumption, IInv, NEW t \in Tabs, BarrierBack(t) \/ NoBarrier,
         live \subseteq live', live' \ live \subseteq Strs, white' = white \cup (live' \ live)
  PROVE  /\ black' \subseteq black /\ lists' \in [Lists -> SUBSET Tabs]
         /\ white' \cup black' \subseteq live' /\ white' \cap black' = {}
         /\ \A x \in Tabs : (\E l \in Lists : x \in lists'[l]) <=> x \in live' \ (white' \cup black')
         /\ \A l, m \in Lists : l # m => lists'[l] \cap lists'[m] = {}
         /\ black = {} => black' = {} /\ lists' = lists
<1>1. /\ white \subseteq live /\ black \subseteq live /\ white \cap black = {}
      /\ lists \in [Lists -> SUBSET Tabs]
      /\ \A x \in Tabs : (\E l \in Lists : x \in lists[l]) <=> x \in live \ (white \cup black)
      /\ \A l, m \in Lists : l # m => lists[l] \cap lists[m] = {}
  BY InvReady DEF Colored, Heap
<1>2. Tabs \cap Strs = {}
  BY DEF WeakAssumption
<1>3. \A x \in Tabs : (x \in live' <=> x \in live) /\ (x \in white' <=> x \in white)
  BY <1>2
<1>4. white' \cap black = {}
  BY <1>1
<1>5. CASE NoBarrier
  BY <1>1, <1>3, <1>4, <1>5 DEF NoBarrier
<1>6. CASE BarrierBack(t)
  <2>1. /\ t \in black /\ black' = black \ {t}
        /\ lists'["grayagain"] = lists["grayagain"] \cup {t}
        /\ \A l \in Lists \ {"grayagain"} : lists'[l] = lists[l]
        /\ lists' \in [Lists -> SUBSET Tabs] /\ "grayagain" \in Lists
    <3>1. "grayagain" \in Lists
      BY ListNames
    <3> QED
      BY <1>1, <1>6, <3>1 DEF BarrierBack
  <2>2. \A l \in Lists : t \notin lists[l]
    BY <1>1, <2>1
  <2>3. \A x \in Tabs : (\E l \in Lists : x \in lists'[l]) <=> x = t \/ (\E l \in Lists : x \in lists[l])
    BY <2>1
  <2>4. ASSUME NEW x \in Tabs
        PROVE  (\E l \in Lists : x \in lists'[l]) <=> x \in live' \ (white' \cup black')
    <3>1. (\E l \in Lists : x \in lists[l]) <=> x \in live \ (white \cup black)
      BY <1>1
    <3> QED
      BY <1>1, <1>3, <2>1, <2>3, <3>1
  <2>5. ASSUME NEW l \in Lists, NEW m \in Lists, l # m
        PROVE  lists'[l] \cap lists'[m] = {}
    <3>1. lists[l] \cap lists[m] = {}
      BY <1>1, <2>5
    <3> QED
      BY <2>1, <2>2, <2>5, <3>1
  <2> QED
    BY <1>1, <1>4, <2>1, <2>4, <2>5
<1> QED
  BY <1>5, <1>6

\* A step of the program that keeps what the entries refer to.
LEMMA ProgramInv ==
  ASSUME WeakAssumption, IInv, gcstate # "full", gcstate' = gcstate,
         NEW t \in Tabs, BarrierBack(t) \/ NoBarrier,
         live \subseteq live', live' \ live \subseteq Strs, white' = white \cup (live' \ live),
         stack' = stack, mmudata' = mmudata, armed \subseteq armed',
         Typed', NoDangling', BlackDone(Now)'
  PROVE  IInv'
<1>1. /\ black' \subseteq black /\ lists' \in [Lists -> SUBSET Tabs]
      /\ white' \cup black' \subseteq live' /\ white' \cap black' = {}
      /\ \A x \in Tabs : (\E l \in Lists : x \in lists'[l]) <=> x \in live' \ (white' \cup black')
      /\ \A l, m \in Lists : l # m => lists'[l] \cap lists'[m] = {}
      /\ black = {} => black' = {} /\ lists' = lists
  BY BarrierFacts
<1>2. Colored(Now)'
  <2>1. /\ ent' \subseteq Ents /\ live' \subseteq Objs /\ armed' \subseteq Objs /\ mmudata' \subseteq Objs
    BY DEF Typed, WeakAssumption, Objs
  <2> QED
    BY <1>1, <2>1 DEF Colored, Now, Heap
<1>3. PhaseInv'
  BY <1>1 DEF IInv, PhaseInv
<1> QED
  BY <1>2, <1>3 DEF IInv

LEMMA StackKeeps ==
  ASSUME WeakAssumption, IInv, NEW t \in Tabs,
         Finalize(t) \/ (gcstate # "full" /\ (Push(t) \/ Pop(t)))
  PROVE  IInv'
<1>1. t \in live \/ Pop(t)
  BY AccessibleLive DEF Finalize, Push, IInv, NoDangling
<1>2. stack \subseteq live \cap Tabs /\ armed \cup mmudata \subseteq Armable \cap live
  BY DEF IInv, Typed, NoDangling
<1>3. /\ UNCHANGED <<ent, mode, live, white, black, lists, armed, gcstate>>
      /\ mmudata' \subseteq mmudata /\ (Pop(t) => stack' \subseteq stack)
      /\ stack' \subseteq stack \cup {t}
  BY DEF Finalize, Push, Pop
<1>4. gcstate' \in {"pause", "propagate"}
  BY <1>3 DEF Finalize, IInv, Typed
<1>5. gcstate # "pause" => mmudata' = {}
  BY <1>3 DEF IInv, PhaseInv
<1>6. stack' \subseteq live \cap Tabs /\ armed' \cup mmudata' \subseteq Armable \cap live
  BY <1>1, <1>2, <1>3
<1> QED
  BY <1>3, <1>4, <1>5, <1>6, HeapSame

LEMMA NewKeeps ==
  ASSUME WeakAssumption, IInv, gcstate # "full", NEW t \in Tabs, NEW m \in Modes[t], New(t, m)
  PROVE  IInv'
<1>1. /\ t \notin live /\ live' = live \cup {t} /\ white' = white \cup {t}
      /\ mode' = [mode EXCEPT ![t] = m] /\ stack' = stack \cup {t}
      /\ UNCHANGED <<ent, armed, gcstate, mmudata, black, lists>>
  BY DEF New
<1>2. Typed'
  <2>1. m \in WeakModes /\ t \in Objs
    BY DEF WeakAssumption, WeakModes, Objs
  <2>2. mode' \in [Tabs -> WeakModes] /\ \A x \in Tabs : mode'[x] \in Modes[x]
    BY <1>1, <2>1 DEF IInv, Typed
  <2> QED
    BY <1>1, <2>1, <2>2 DEF IInv, Typed
<1>3. Colored(Now)'
  <2>1. Now' = [Now EXCEPT !.white = white \cup {t}]
    BY <1>1 DEF Now
  <2>2. /\ white \cup black \subseteq live /\ white \cap black = {} /\ Now \in Heap
        /\ \A x \in Tabs : (\E l \in Lists : x \in lists[l]) <=> x \in live \ (white \cup black)
        /\ \A l, n \in Lists : l # n => lists[l] \cap lists[n] = {}
    BY InvReady DEF Colored
  <2>3. Now' \in Heap
    BY <1>1, <2>2 DEF Now, Heap, Objs
  <2> QED
    BY <1>1, <2>2, <2>3 DEF Colored, Now
<1>4. NoDangling'
  BY <1>1 DEF IInv, NoDangling
<1>5. BlackDone(Now)'
  <2> SUFFICES ASSUME NEW e \in ent, e.t \in black
               PROVE  e.k \notin white' /\ e.v \notin white'
    BY <1>1 DEF BlackDone, Now
  <2>1. e.k \in live /\ e.v \in live
    BY InvReady, EntryTypes
  <2> QED
    BY <1>1, <2>1, InvReady DEF BlackDone
<1>6. PhaseInv'
  BY <1>1 DEF IInv, PhaseInv
<1> QED
  BY <1>2, <1>3, <1>4, <1>5, <1>6 DEF IInv

LEMMA SetModeKeeps ==
  ASSUME WeakAssumption, IInv, gcstate # "full", NEW t \in Tabs, NEW m \in Modes[t], SetMode(t, m)
  PROVE  IInv'
<1>1. /\ mode' = [mode EXCEPT ![t] = m] /\ (BarrierBack(t) \/ NoBarrier)
      /\ UNCHANGED <<ent, stack, armed, live, gcstate, mmudata, white>>
  BY DEF SetMode
<1>2. Typed'
  <2>1. m \in WeakModes
    BY DEF WeakAssumption, WeakModes
  <2>2. mode' \in [Tabs -> WeakModes] /\ \A x \in Tabs : mode'[x] \in Modes[x]
    BY <1>1, <2>1 DEF IInv, Typed
  <2> QED
    BY <1>1, <2>2 DEF IInv, Typed
<1>3. NoDangling'
  BY <1>1 DEF IInv, NoDangling
<1>4. black' \subseteq black
  BY <1>1 DEF BarrierBack, NoBarrier
<1>5. BlackDone(Now)'
  BY <1>1, <1>4 DEF IInv, BlackDone, Now
<1> QED
  BY <1>1, <1>2, <1>3, <1>5, ProgramInv

LEMMA ArmKeeps ==
  ASSUME WeakAssumption, IInv, gcstate # "full", NEW t \in Tabs, Arm(t)
  PROVE  IInv'
<1>1. /\ t \in Accessible /\ t \in Armable /\ armed' = armed \cup {t} /\ (BarrierBack(t) \/ NoBarrier)
      /\ UNCHANGED <<ent, mode, stack, live, gcstate, mmudata, white>>
  BY DEF Arm
<1>2. Typed'
  BY <1>1 DEF IInv, Typed
<1>3. NoDangling'
  BY <1>1, AccessibleLive DEF IInv, NoDangling
<1>4. black' \subseteq black
  BY <1>1 DEF BarrierBack, NoBarrier
<1>5. BlackDone(Now)'
  BY <1>1, <1>4 DEF IInv, BlackDone, Now
<1> QED
  BY <1>1, <1>2, <1>3, <1>5, ProgramInv

LEMMA ClearKeeps ==
  ASSUME WeakAssumption, IInv, gcstate # "full", NEW e \in ent, Clear(e)
  PROVE  IInv'
<1>1. /\ ent' = ent \ {e} /\ (BarrierBack(e.t) \/ NoBarrier)
      /\ UNCHANGED <<mode, stack, armed, live, gcstate, mmudata, white>>
  BY DEF Clear
<1>2. Typed'
  BY <1>1 DEF IInv, Typed
<1>3. NoDangling'
  BY <1>1 DEF IInv, NoDangling
<1>4. black' \subseteq black
  BY <1>1 DEF BarrierBack, NoBarrier
<1>5. BlackDone(Now)'
  BY <1>1, <1>4 DEF IInv, BlackDone, Now
<1>6. e.t \in Tabs
  BY DEF IInv, Typed, Ents
<1> QED
  BY <1>1, <1>2, <1>3, <1>5, <1>6, ProgramInv

LEMMA StoreKeeps ==
  ASSUME WeakAssumption, IInv, gcstate # "full", NEW e \in Fields, Store(e)
  PROVE  IInv'
<1>1. /\ {e.t, e.k, e.v} \subseteq Accessible \cup Strs
      /\ ent' = {d \in ent : d.t # e.t \/ d.k # e.k} \cup {e}
      /\ live' = live \cup {e.k, e.v} /\ white' = white \cup ({e.k, e.v} \ live)
      /\ UNCHANGED <<mode, stack, armed, gcstate, mmudata>>
      /\ BarrierBack(e.t) \/ (NoBarrier /\ ~(e.t \in black /\ {e.k, e.v} \cap white' # {}))
  BY DEF Store, Put
<1>2. e \in Ents /\ e.t \in Tabs /\ e.k \in Objs /\ e.v \in Objs
  BY DEF WeakAssumption, Ents
<1>3. e.t \in live /\ live \subseteq live' /\ live' \ live \subseteq Strs
  BY <1>1, <1>2, AccessibleLive DEF WeakAssumption
<1>4. Typed'
  <2>1. \A d, f \in ent' : d.t = f.t /\ d.k = f.k => d = f
    BY <1>1 DEF IInv, Typed
  <2>2. ent' \subseteq Ents /\ live' \subseteq Objs
    BY <1>1, <1>2 DEF IInv, Typed
  <2> QED
    BY <1>1, <2>1, <2>2 DEF IInv, Typed
<1>5. NoDangling'
  <2>1. ASSUME NEW d \in ent'
        PROVE  {d.t, d.k, d.v} \subseteq live'
    <3>1. d \in ent => {d.t, d.k, d.v} \subseteq live
      BY DEF IInv, NoDangling
    <3> QED
      BY <1>1, <1>3, <3>1
  <2> QED
    BY <1>1, <2>1 DEF IInv, NoDangling
<1>6. BlackDone(Now)'
  <2> SUFFICES ASSUME NEW d \in ent', d.t \in black'
               PROVE  d.k \notin white' /\ d.v \notin white'
    BY DEF BlackDone, Now
  <2>1. black' \subseteq black /\ (BarrierBack(e.t) => e.t \notin black')
    BY <1>1 DEF BarrierBack, NoBarrier
  <2>2. CASE d = e
    BY <1>1, <2>1, <2>2
  <2>3. CASE d \in ent
    <3>1. d.k \in live /\ d.v \in live /\ d.k \notin white /\ d.v \notin white
      BY <2>1, <2>3, InvReady, EntryTypes DEF BlackDone
    <3> QED
      BY <1>1, <3>1
  <2> QED
    BY <1>1, <2>2, <2>3
<1>7. white' = white \cup (live' \ live)
  BY <1>1
<1>8. BarrierBack(e.t) \/ NoBarrier
  BY <1>1
<1> QED
  BY <1>1, <1>2, <1>3, <1>4, <1>5, <1>6, <1>7, <1>8, ProgramInv

\* Every step keeps it.
LEMMA NextKeeps ==
  ASSUME WeakAssumption, IInv, [Next]_vars
  PROVE  IInv'
<1>1. CASE UNCHANGED vars
  <2>1. UNCHANGED <<ent, mode, stack, armed, live, gcstate, mmudata, white, black, lists>>
    BY <1>1 DEF vars, mutvars
  <2>2. Now' = Now /\ InUse(stack)' = InUse(stack)
    BY <2>1 DEF Now, InUse
  <2>3. Typed' /\ NoDangling'
    BY <2>1 DEF IInv, Typed, NoDangling
  <2>4. Colored(Now)' /\ BlackDone(Now)'
    BY <2>1, <2>2 DEF IInv, Colored, BlackDone
  <2>5. PhaseInv'
    BY <2>1, <2>2 DEF IInv, PhaseInv, Fresh, Bounded
  <2> QED
    BY <2>3, <2>4, <2>5 DEF IInv
<1>2. CASE Collector
  BY <1>2, MarkStartKeeps, AtomicKeeps, FullGCKeeps, PropagateKeeps, StackKeeps DEF Collector
<1>3. CASE gcstate # "full" /\ Program
  BY <1>3, StackKeeps, ArmKeeps, NewKeeps, SetModeKeeps, StoreKeeps, ClearKeeps DEF Program
<1> QED
  BY <1>1, <1>2, <1>3 DEF Next

\* The invariant, whatever the tables, strings and weak modes.
THEOREM Invariance == Spec => []IInv
<1>1. Init => IInv
  BY WeakAssumption, InitInv
<1>2. IInv /\ [Next]_vars => IInv'
  BY WeakAssumption, NextKeeps
<1> QED
  BY <1>1, <1>2, PTL DEF Spec

\* Colors and lists agree, and no entry has an unknown object, in every state.
THEOREM TypeCorrect == Spec => []TypeOK
<1>1. ASSUME IInv
      PROVE  TypeOK
  <2>1. Colored(Now) /\ Now.lists = lists /\ Now.white = white /\ Now.black = black
    BY <1>1, WeakAssumption, InvReady
  <2>2. UNION {lists[l] : l \in Lists} = (live \cap Tabs) \ (white \cup black)
    BY <2>1 DEF Colored, Heap
  <2>3. white \cup black \subseteq live /\ white \cap black = {}
    BY <2>1 DEF Colored
  <2>4. \A l, m \in Lists : l # m => lists[l] \cap lists[m] = {}
    BY <2>1 DEF Colored
  <2>5. \A e \in ent : e.t \in Tabs /\ e.k \in Objs /\ e.v \in Objs
    BY <1>1 DEF IInv, Typed, Ents
  <2> QED
    BY <1>1, <2>2, <2>3, <2>4, <2>5 DEF TypeOK, IInv, Typed
<1> QED
  BY <1>1, Invariance, PTL

\* A collection frees nothing that the stack, a table waiting for its finalizer or
\* an entry refers to, weak or not: what an atomic phase leaves white has been
\* cleared from every table that stays.
THEOREM NothingDangles == Spec => []NoDangling
<1>1. IInv => NoDangling
  BY DEF IInv
<1> QED
  BY <1>1, Invariance, PTL

-----------------------------------------------------------------------------
\* What a collection keeps and clears.

\* What is in use has been marked before weak values are cleared.
LEMMA UsedMarked ==
  ASSUME WeakAssumption, IInv, NEW a, Settled(a), stack \cap a.white = {}
  PROVE  InUse(stack) \subseteq live \ a.white
<1>1. live \ a.white \in SUBSET Objs /\ stack \subseteq live \ a.white
  BY DEF IInv, Typed, NoDangling
<1>2. ClosedSet(live \ a.white)
  BY InvReady, SettledClosed
<1> QED
  BY <1>1, <1>2, InUseLeast

\* The entries after the atomic phase.
LEMMA EntriesLeft ==
  ASSUME WeakAssumption, IInv, NEW c, Settled(c), NEW d, d = Unreferred(c), Swept(d)
  PROVE  \A e : e \in ent' <=>
           /\ e \in c.ent /\ e.t \notin c.white
           /\ ~(e.t \in On(c, {"ephemeron", "allweak"}) /\ e.k \in Tabs \cap c.white)
           /\ ~(e.t \in On(c, {"weak", "allweak"}) /\ e.v \in Tabs \cap (c.white \cup c.mmudata))
<1>1. /\ d.white \cap Tabs = c.white \cap Tabs
      /\ d.ent = {e \in c.ent :
                    /\ ~(e.t \in On(c, {"ephemeron", "allweak"}) /\ e.k \in Tabs \cap c.white)
                    /\ ~(e.t \in On(c, {"weak", "allweak"})
                           /\ e.v \in Tabs \cap (c.white \cup c.mmudata))}
  BY InvReady, UnreferredFacts
<1>2. ent' = {e \in d.ent : e.t \notin d.white}
  BY DEF Swept
<1>3. \A e \in c.ent : e.t \in Tabs
  BY DEF IInv, Typed, Ents, Settled, Cleared
<1> QED
  BY <1>1, <1>2, <1>3

LEMMA AtomicEntries ==
  ASSUME WeakAssumption, IInv, Atomic, NEW used, used = InUse(stack)
  PROVE  /\ \A o \in used : o \in live'
         /\ \A e \in ent : /\ e.t \in used
                           /\ e.k \in used \cup Strs /\ e.v \in used \cup Strs
                           => e \in ent'
         /\ \A e \in ent' : "v" \in mode[e.t] => e.v \notin mmudata'
<1>1. PICK a, c, d :
        /\ Settled(a) /\ stack \cap a.white = {}
        /\ Settled(c) /\ c.white \subseteq a.white /\ c.mmudata = armed \cap a.white
        /\ c.ent = {e \in ent : ~(e.t \in On(a, {"weak", "allweak"}) /\ e.v \in Tabs \cap a.white)}
        /\ d = Unreferred(c) /\ Swept(d)
        /\ \A B : Fresh(a, B) => Fresh(c, B)
  BY AtomicStarts, InvReady, AtomicFacts
<1>2. used \subseteq live \ a.white
  BY <1>1, UsedMarked
<1>3. d.white \subseteq c.white /\ d.white \cap Tabs = c.white \cap Tabs /\ d.mmudata = c.mmudata
  BY <1>1, InvReady, UnreferredFacts
<1>4. live' = live \ d.white /\ mmudata' = c.mmudata
  BY <1>1, <1>3 DEF Swept
<1>5. \A e : e \in ent' <=>
        /\ e \in c.ent /\ e.t \notin c.white
        /\ ~(e.t \in On(c, {"ephemeron", "allweak"}) /\ e.k \in Tabs \cap c.white)
        /\ ~(e.t \in On(c, {"weak", "allweak"}) /\ e.v \in Tabs \cap (c.white \cup c.mmudata))
  BY <1>1, EntriesLeft
<1>6. Tabs \cap Strs = {}
  BY DEF WeakAssumption
<1>7. ASSUME NEW e \in ent, e.t \in used, e.k \in used \cup Strs, e.v \in used \cup Strs
      PROVE  e \in ent'
  <2>1. e.t \notin c.white /\ e.k \notin Tabs \cap c.white /\ e.v \notin Tabs \cap a.white
    BY <1>1, <1>2, <1>6, <1>7
  <2>2. e.v \notin Tabs \cap (c.white \cup c.mmudata) /\ e \in c.ent
    BY <1>1, <2>1
  <2> QED
    BY <1>5, <2>1, <2>2
<1>8. ASSUME NEW e \in ent', "v" \in mode[e.t]
      PROVE  e.v \notin mmudata'
  <2>1. e \in ent /\ e \in c.ent /\ e.t \notin c.white
    BY <1>1, <1>5
  <2>2. e.t \in live \cap Tabs
    BY <2>1, InvReady, EntryTypes
  <2>3. c.mmudata \subseteq Tabs
    BY <1>1 DEF IInv, Typed, WeakAssumption
  <2>4. CASE e.t \in c.black
    <3>1. e.t \in a.black
      <4>1. Fresh(a, a.black)
        BY DEF Fresh
      <4>2. Fresh(c, a.black)
        BY <1>1, <4>1
      <4> QED
        BY <1>8, <2>2, <2>4, <4>2 DEF Fresh
    <3>2. e.v \notin a.white
      BY <1>1, <2>1, <3>1 DEF Settled, BlackDone
    <3> QED
      BY <1>1, <1>4, <3>2
  <2>5. CASE mode[e.t] # {} /\ e.t \in c.lists[ListOf(mode[e.t])] /\ mode[e.t] \in WeakModes
    <3>1. ListOf(mode[e.t]) \in {"weak", "allweak"}
      BY <1>8, <2>5, ListOfFacts, ListNames
    <3>2. e.t \in On(c, {"weak", "allweak"})
      BY <2>5, <3>1 DEF On
    <3> QED
      BY <1>4, <1>5, <2>3, <3>2
  <2> QED
    BY <1>1, <2>1, <2>2, <2>4, <2>5, InvReady, SettledTables
<1>9. \A o \in used : o \in live'
  BY <1>1, <1>2, <1>3, <1>4
<1> QED
  BY <1>7, <1>8, <1>9

\* Whatever the program stored, cleared or made weak while the collector marked, a
\* collection frees nothing in use, clears no entry that is, and leaves no table that
\* is about to be finalized as the value of a weak table.
THEOREM InUseIsKept == Spec => EntriesRight
<1>1. ASSUME IInv, [Next]_vars, gcstate # "pause", gcstate' = "pause"
      PROVE  Atomic
  <2>1. ~UNCHANGED vars
    BY <1>1 DEF vars
  <2>2. ~Program
    BY <1>1 DEF Program, Push, Pop, Arm, New, SetMode, Store, Put, Clear
  <2>3. Collector
    BY <1>1, <2>1, <2>2 DEF Next
  <2> QED
    BY <1>1, <2>3 DEF Collector, MarkStart, FullGC, Propagate, Finalize
<1>2. IInv /\ [Next]_vars =>
        [gcstate # "pause" /\ gcstate' = "pause" =>
           LET used == InUse(stack)
           IN /\ \A o \in used : o \in live'
              /\ \A e \in ent : /\ e.t \in used
                                /\ e.k \in used \cup Strs /\ e.v \in used \cup Strs
                                => e \in ent'
              /\ \A e \in ent' : "v" \in mode[e.t] => e.v \notin mmudata']_vars
  BY <1>1, WeakAssumption, AtomicEntries
<1> QED
  BY <1>2, Invariance, PTL DEF Spec, EntriesRight

\* If black tables are strong, the lists say what is weak.
LEMMA SettledLists ==
  ASSUME Ready, NEW s, Settled(s), Fresh(s, {}), NEW t \in live \cap Tabs, t \notin s.white
  PROVE  /\ t \in On(s, {"ephemeron", "allweak"}) <=> "k" \in mode[t]
         /\ t \in On(s, {"weak", "allweak"}) <=> "v" \in mode[t]
<1>1. /\ t \in On(s, {"ephemeron", "allweak"})
           <=> t \in s.lists["ephemeron"] \/ t \in s.lists["allweak"]
      /\ t \in On(s, {"weak", "allweak"}) <=> t \in s.lists["weak"] \/ t \in s.lists["allweak"]
  BY DEF On
<1>2. \A l \in WeakLists : t \in s.lists[l] => mode[t] # {} /\ l = ListOf(mode[t])
  BY DEF Settled, Waiting
<1>3. CASE mode[t] = {}
  BY <1>1, <1>2, <1>3, ListNames
<1>4. CASE mode[t] # {}
  <2>1. t \in s.lists[ListOf(mode[t])] /\ mode[t] \in WeakModes
    BY <1>4, SettledTables DEF Fresh
  <2>2. /\ ListOf(mode[t]) \in WeakLists
        /\ ListOf(mode[t]) = "weak" <=> "k" \notin mode[t]
        /\ ListOf(mode[t]) = "ephemeron" <=> "v" \notin mode[t]
    BY <1>4, <2>1, ListOfFacts
  <2>3. \A l \in WeakLists : t \in s.lists[l] <=> l = ListOf(mode[t])
    BY <1>2, <2>1
  <2> QED
    BY <1>1, <2>2, <2>3, ListNames
<1> QED
  BY <1>3, <1>4

\* The atomic phase of a full collection marks what the definition says, no more.
LEMMA FullSets ==
  ASSUME WeakAssumption, IInv, gcstate = "full", Atomic
  PROVE  \E a, c, d :
           /\ Settled(a) /\ Fresh(a, {}) /\ Settled(c) /\ Fresh(c, {})
           /\ c.white \subseteq a.white
           /\ c.ent = {e \in ent : ~(e.t \in On(a, {"weak", "allweak"}) /\ e.v \in Tabs \cap a.white)}
           /\ d = Unreferred(c) /\ Swept(d)
           /\ mmudata' = armed \cap a.white /\ c.mmudata = mmudata'
           /\ live' \cap Tabs = (live \cap Tabs) \ c.white
           /\ InUse(stack) \cap Tabs = (live \cap Tabs) \ a.white
           /\ InUse(stack \cup mmudata') \cap Tabs = (live \cap Tabs) \ c.white
<1>1. PICK a, c, d :
        /\ Settled(a) /\ stack \cap a.white = {}
        /\ Settled(c) /\ c.white \subseteq a.white /\ c.mmudata = armed \cap a.white
        /\ c.mmudata \cap c.white = {}
        /\ c.ent = {e \in ent : ~(e.t \in On(a, {"weak", "allweak"}) /\ e.v \in Tabs \cap a.white)}
        /\ d = Unreferred(c) /\ Swept(d)
        /\ \A B : Fresh(Now, B) => Fresh(a, B)
        /\ \A B : Fresh(a, B) => Fresh(c, B)
        /\ \A U \in SUBSET Objs :
             ClosedSet(U) /\ Bounded(Now, U) /\ stack \subseteq U =>
               Bounded(a, U) /\ (c.mmudata \subseteq U => Bounded(c, U))
  BY AtomicStarts, InvReady, AtomicFacts
<1>2. Fresh(a, {}) /\ Fresh(c, {})
  BY <1>1 DEF IInv, PhaseInv
<1>3. d.white \cap Tabs = c.white \cap Tabs /\ d.mmudata = c.mmudata
  BY <1>1, InvReady, UnreferredFacts
<1>4. live' = live \ d.white /\ mmudata' = c.mmudata
  BY <1>1, <1>3 DEF Swept
<1> DEFINE used == InUse(stack)
           kept == InUse(stack \cup mmudata')
<1>5. mmudata' \in SUBSET Objs /\ mmudata' \subseteq live /\ stack \in SUBSET Objs
  BY <1>1, <1>4 DEF IInv, Typed, NoDangling, Objs
<1>6. used \in SUBSET Objs /\ stack \subseteq used /\ ClosedSet(used)
  BY <1>5, InvReady, InUseClosed
<1>7. kept \in SUBSET Objs /\ stack \cup mmudata' \subseteq kept /\ ClosedSet(kept)
  BY <1>5, InvReady, InUseClosed
<1>8. Bounded(Now, used)
  BY DEF IInv, PhaseInv
<1>9. used \subseteq live \ a.white
  BY <1>1, UsedMarked
<1>10. used \subseteq kept
  BY <1>7, InUseLeast
<1>11. kept \subseteq live \ c.white
  <2>1. live \ c.white \in SUBSET Objs /\ stack \cup mmudata' \subseteq live \ c.white
    BY <1>1, <1>4, <1>5 DEF IInv, Typed, NoDangling
  <2>2. ClosedSet(live \ c.white)
    BY <1>1, InvReady, SettledClosed
  <2> QED
    BY <2>1, <2>2, InUseLeast
<1> HIDE DEF used, kept
<1>12. Bounded(a, used)
  BY <1>1, <1>6, <1>8
<1>13. Bounded(c, kept)
  <2>1. Bounded(Now, kept)
    BY <1>8, <1>10 DEF Bounded
  <2> QED
    BY <1>1, <1>4, <1>7, <2>1
<1>14. used \cap Tabs = (live \cap Tabs) \ a.white
  BY <1>9, <1>12 DEF Bounded
<1>15. kept \cap Tabs = (live \cap Tabs) \ c.white
  BY <1>11, <1>13 DEF Bounded
<1>16. live' \cap Tabs = (live \cap Tabs) \ c.white
  BY <1>3, <1>4
<1> QED
  BY <1>1, <1>2, <1>4, <1>14, <1>15, <1>16 DEF used, kept

\* What FullExact says a collection leaves.
FullyLeft(used, kept) ==
  /\ mmudata' = armed \ used
  /\ live' \cap Tabs = kept \cap Tabs
  /\ \A e : e \in ent' <=>
       /\ e \in ent /\ e.t \in kept
       /\ "k" \in mode[e.t] => e.k \in kept \cup Strs
       /\ "v" \in mode[e.t] =>
            e.v \in Strs \/ (IF e.t \in used THEN e.v \in used ELSE e.v \in kept \ mmudata')

LEMMA FullEntries ==
  ASSUME WeakAssumption, IInv, gcstate = "full", Atomic,
         NEW used, used = InUse(stack), NEW kept, kept = InUse(stack \cup mmudata')
  PROVE  FullyLeft(used, kept)
<1>1. PICK a, c, d :
        /\ Settled(a) /\ Fresh(a, {}) /\ Settled(c) /\ Fresh(c, {})
        /\ c.white \subseteq a.white
        /\ c.ent = {e \in ent : ~(e.t \in On(a, {"weak", "allweak"}) /\ e.v \in Tabs \cap a.white)}
        /\ d = Unreferred(c) /\ Swept(d)
        /\ mmudata' = armed \cap a.white /\ c.mmudata = mmudata'
        /\ live' \cap Tabs = (live \cap Tabs) \ c.white
        /\ used \cap Tabs = (live \cap Tabs) \ a.white
        /\ kept \cap Tabs = (live \cap Tabs) \ c.white
  BY FullSets
<1>2. armed \subseteq live \cap Tabs /\ Tabs \cap Strs = {}
  BY DEF IInv, Typed, NoDangling, WeakAssumption
<1>3. mmudata' = armed \ used
  BY <1>1, <1>2
<1>4. \A e : e \in ent' <=>
        /\ e \in c.ent /\ e.t \notin c.white
        /\ ~(e.t \in On(c, {"ephemeron", "allweak"}) /\ e.k \in Tabs \cap c.white)
        /\ ~(e.t \in On(c, {"weak", "allweak"}) /\ e.v \in Tabs \cap (c.white \cup c.mmudata))
  BY <1>1, EntriesLeft
<1>5. c.ent \subseteq ent
  BY <1>1
<1>6. ASSUME NEW e \in ent
      PROVE  e \in ent' <=>
              /\ e.t \in kept
              /\ "k" \in mode[e.t] => e.k \in kept \cup Strs
              /\ "v" \in mode[e.t] =>
                   e.v \in Strs \/ (IF e.t \in used THEN e.v \in used ELSE e.v \in kept \ mmudata')
  <2>1. /\ e.t \in live \cap Tabs /\ e.k \in live /\ e.v \in live
        /\ e.k \in Tabs \cup Strs /\ e.v \in Tabs \cup Strs
    BY InvReady, EntryTypes DEF Objs
  <2>2. /\ e.t \in kept <=> e.t \notin c.white
        /\ e.t \in used <=> e.t \notin a.white
        /\ e.k \in kept \cup Strs <=> e.k \notin Tabs \cap c.white
        /\ e.v \in Tabs => /\ e.v \in used <=> e.v \notin a.white
                           /\ e.v \in kept \ mmudata' <=> e.v \notin c.white \cup c.mmudata
    BY <1>1, <1>2, <2>1
  <2>3. e.t \notin c.white =>
          /\ e.t \in On(c, {"ephemeron", "allweak"}) <=> "k" \in mode[e.t]
          /\ e.t \in On(c, {"weak", "allweak"}) <=> "v" \in mode[e.t]
    BY <1>1, <2>1, InvReady, SettledLists
  <2>4. e.t \in On(a, {"weak", "allweak"}) <=> e.t \notin a.white /\ "v" \in mode[e.t]
    <3>1. e.t \in On(a, {"weak", "allweak"}) => e.t \notin a.white
      <4>1. \A l \in Lists : e.t \in a.lists[l] => e.t \notin a.white
        BY <1>1, <2>1 DEF Settled, Colored
      <4> QED
        BY <4>1, ListNames DEF On
    <3> QED
      BY <1>1, <2>1, <3>1, InvReady, SettledLists
  <2>5. e \in c.ent <=> ~(e.t \notin a.white /\ "v" \in mode[e.t] /\ e.v \in Tabs \cap a.white)
    BY <1>1, <2>4
  <2>6. e.t \notin c.white =>
          (e \in ent' <=>
             /\ ~(e.t \in used /\ "v" \in mode[e.t] /\ e.v \in Tabs \cap a.white)
             /\ ~("k" \in mode[e.t] /\ e.k \in Tabs \cap c.white)
             /\ ~("v" \in mode[e.t] /\ e.v \in Tabs \cap (c.white \cup c.mmudata)))
    BY <1>4, <2>2, <2>3, <2>5
  <2>7. c.white \cup c.mmudata \subseteq a.white
    BY <1>1
  <2>8. CASE e.t \in c.white
    BY <1>4, <2>2, <2>8
  <2>9. CASE e.t \notin c.white /\ e.v \in Strs
    BY <1>2, <2>2, <2>6, <2>9
  <2>10. CASE e.t \notin c.white /\ e.v \in Tabs
    <3>1. e.v \notin Strs
      BY <1>2, <2>10
    <3> QED
      BY <2>2, <2>6, <2>7, <2>10, <3>1
  <2> QED
    BY <2>1, <2>8, <2>9, <2>10
<1> QED
  BY <1>1, <1>3, <1>4, <1>5, <1>6 DEF FullyLeft

\* A full collection finds what the definition of weak tables and ephemerons says,
\* neither more nor less, although the code computes it by lists and passes: the
\* tables that stay, those that are separated, and the entries of both.
THEOREM FullIsExact == Spec => FullExact
<1>1. ASSUME IInv, [Next]_vars, gcstate = "full"
      PROVE  Atomic \/ UNCHANGED vars
  BY <1>1 DEF Next, Collector, MarkStart, FullGC, Propagate, Finalize
<1>2. ASSUME IInv, [Next]_vars, gcstate = "full", vars' # vars
      PROVE  LET used == InUse(stack)
                 kept == InUse(stack \cup mmudata')
                 ValueStays(e) == IF e.t \in used THEN e.v \in used ELSE e.v \in kept \ mmudata'
             IN /\ mmudata' = armed \ used
                /\ live' \cap Tabs = kept \cap Tabs
                /\ ent' = {e \in ent : /\ e.t \in kept
                                       /\ "k" \in mode[e.t] => e.k \in kept \cup Strs
                                       /\ "v" \in mode[e.t] => e.v \in Strs \/ ValueStays(e)}
  <2> DEFINE used == InUse(stack)
             kept == InUse(stack \cup mmudata')
  <2>1. Atomic
    BY <1>1, <1>2
  <2>2. used = InUse(stack) /\ kept = InUse(stack \cup mmudata')
    OBVIOUS
  <2> HIDE DEF used, kept
  <2>3. FullyLeft(used, kept)
    BY <1>2, <2>1, <2>2, WeakAssumption, FullEntries
  <2> QED
    BY <2>3 DEF used, kept, FullyLeft
<1>3. IInv /\ [Next]_vars =>
        [gcstate = "full" =>
           LET used == InUse(stack)
               kept == InUse(stack \cup mmudata')
               ValueStays(e) == IF e.t \in used THEN e.v \in used ELSE e.v \in kept \ mmudata'
           IN /\ mmudata' = armed \ used
              /\ live' \cap Tabs = kept \cap Tabs
              /\ ent' = {e \in ent : /\ e.t \in kept
                                     /\ "k" \in mode[e.t] => e.k \in kept \cup Strs
                                     /\ "v" \in mode[e.t] => e.v \in Strs \/ ValueStays(e)}]_vars
  BY <1>2
<1> QED
  BY <1>3, Invariance, PTL DEF Spec, FullExact
=============================================================================
