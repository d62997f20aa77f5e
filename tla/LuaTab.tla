------------------------------- MODULE LuaTab -------------------------------
(***************************************************************************)
(* lj_tab.c: one table with its array part and its hash part.  The hash    *)
(* part is an array of nodes with chains of next pointers through it; a    *)
(* node whose value is nil keeps its key (a dead key) and its place in the *)
(* chain.  A key is a string object, with the hash its sid gives it, or an *)
(* integer.                                                                *)
(***************************************************************************)
EXTENDS Integers, Sequences, SequencesExt, FiniteSetsExt

CONSTANTS Strs,        \* string objects used as keys
          Ints,        \* integer keys, a set of natural numbers
          Hash,        \* [Strs \cup Ints -> Nat], the unmasked hash
          Vals,        \* values other than nil
          Groups,      \* bound: the sets of keys that are used together
          MaxReasize,  \* bound: largest array a store of results asks for
          Nil, Stale,  \* no value, key or node; an address nobody uses
          All          \* a traversal has returned all keys

Keys == Strs \cup Ints

ASSUME KeyAssumption ==
  /\ Ints \subseteq Nat /\ Strs \cap Nat = {} /\ MaxReasize \in Nat
  /\ \A k \in Keys : Hash[k] \in Nat
  /\ {Nil, Stale} \cap (Strs \cup Nat \cup Vals) = {} /\ Nil # Stale
  /\ Nil # All /\ \A S \in SUBSET Keys : S \notin {Nil, All}

VARIABLES tab,     \* array: 0..asize-1, node: 0..hsize-1 (hsize is hmask+1, or 0
                   \* for the shared nil node), and freetop
          cursor,  \* a traversal by next(): last key returned, keys returned
          content  \* history: the value last assigned to every key

vars == <<tab, cursor, content>>

Idle == [at |-> Nil, seen |-> Nil]
Traversing == cursor.seen \notin {Nil, All}
FreeNode == [key |-> Nil, val |-> Nil, next |-> Nil]

\* 2^b, as a function that is defined step by step.
Pow2(b) == LET P[i \in 0 .. b] == IF i = 0 THEN 1 ELSE 2 * P[i - 1] IN P[b]

NewTab_FreetopBehind(asize, hbits) ==
  LET hsize == IF hbits = 0 THEN 0 ELSE Pow2(hbits)
  IN  [asize |-> asize, array |-> [i \in 0 .. asize - 1 |-> Nil],
       hsize |-> hsize, node |-> [n \in 0 .. hsize - 1 |-> FreeNode],
       freetop |-> hsize + 1]

NewTab(asize, hbits) ==
  LET hsize == IF hbits = 0 THEN 0 ELSE Pow2(hbits)
  IN  [asize |-> asize, array |-> [i \in 0 .. asize - 1 |-> Nil],
       hsize |-> hsize, node |-> [n \in 0 .. hsize - 1 |-> FreeNode],
       freetop |-> hsize]

Log2(n) == Max({b \in 0 .. n : Pow2(b) <= n})

-----------------------------------------------------------------------------
(* Lookup.                                                                  *)

Main(t, k) == Hash[k] % t.hsize

\* The first node of S from n on, in chain order.
FirstIn(t, n, S) ==
  LET W[x \in DOMAIN t.node \cup {Nil}] ==
        IF x \in S \cup {Nil} THEN x ELSE W[t.node[x].next]
  IN  W[n]

\* The C getters and setters pass over dead nodes, the chain walks of the
\* interpreter and of compiled code do not.
Find(t, k, deadToo) ==
  LET Found(n) == t.node[n].key = k /\ (deadToo \/ t.node[n].val # Nil)
  IN  IF t.hsize = 0 \/ k \notin Keys THEN Nil
      ELSE FirstIn(t, Main(t, k), {n \in DOMAIN t.node : Found(n)})

FindLive(t, k) == Find(t, k, FALSE)
FindAny(t, k) == Find(t, k, TRUE)

At(t, n) == IF n = Nil THEN Nil ELSE t.node[n].val

Get(t, k) == IF k \in DOMAIN t.array THEN t.array[k] ELSE At(t, FindLive(t, k))

-----------------------------------------------------------------------------
(* Inserting a key: lj_tab_newkey.                                          *)

\* Move node nn, which follows f, behind node m.
Rechained(node, f, nn, m) ==
  [node EXCEPT ![f].next = node[nn].next,
               ![nn].next = node[m].next,
               ![m].next = nn]

Rechain_Not(t, f, n) == t

\* Behind f, the first key that belongs to the freed main node n starts it, and
\* from there on every key in a foreign position goes into its own chain.  A node
\* is passed or moved in every round.
Rechain(t, f, n) ==
  LET R[i \in 0 .. t.hsize] ==
        IF i = 0 THEN [node |-> t.node, at |-> f, found |-> FALSE]
        ELSE LET r == R[i - 1]
                 nn == r.node[r.at].next
                 m == Main(t, r.node[nn].key)
             IN  IF nn = Nil THEN r
                 ELSE IF r.node[nn].val # Nil /\ IF r.found THEN m \notin {r.at, nn} ELSE m = n
                 THEN [r EXCEPT !.node = Rechained(@, r.at, nn, m), !.found = TRUE]
                 ELSE [r EXCEPT !.at = nn]
  IN  [t EXCEPT !.node = R[t.hsize].node]

Unused(t) == {n \in 0 .. t.freetop - 1 : t.node[n].key = Nil}

Room(t, k) == /\ t.hsize > 0
              /\ t.node[Main(t, k)].val = Nil \/ Unused(t) # {}

\* The node before n in the chain from m.
Predecessor(t, m, n) == FirstIn(t, m, {x \in DOMAIN t.node : t.node[x].next = n})

Place_LinkedToItself(t, k, v) ==
  LET n == Main(t, k)
      f == Max(Unused(t)) IN
  IF t.node[n].val = Nil
  THEN [t EXCEPT !.node[n].key = k, !.node[n].val = v]
  ELSE [t EXCEPT !.freetop = f,
                 !.node = [@ EXCEPT ![f] = [key |-> k, val |-> v, next |-> f],
                                    ![n].next = f]]

\* Brent's variation: a colliding node that is not in its own main position
\* makes way, otherwise the new key goes to the free node.
Place(t, k, v) ==
  LET n == Main(t, k)
      f == Max(Unused(t))
      collide == Main(t, t.node[n].key)
      pred == Predecessor(t, collide, n)
  IN  IF t.node[n].val = Nil
      THEN [t EXCEPT !.node[n].key = k, !.node[n].val = v]
      ELSE IF collide # n
      THEN LET moved == [t EXCEPT
                 !.freetop = f,
                 !.node = [@ EXCEPT ![pred].next = f, ![f] = t.node[n],
                                    ![n].val = Nil, ![n].next = Nil]]
           IN  [Rechain(moved, f, n) EXCEPT !.node[n].key = k,
                                            !.node[n].val = v]
      ELSE [t EXCEPT
              !.freetop = f,
              !.node = [@ EXCEPT
                 ![f] = [key |-> k, val |-> v, next |-> t.node[n].next],
                 ![n].next = f]]

\* A store through lj_tab_set, lj_tab_setinth or lj_tab_setstr with Room.
Put(t, k, v) ==
  LET n == FindLive(t, k) IN
  IF k \in DOMAIN t.array THEN [t EXCEPT !.array[k] = v]
  ELSE IF n # Nil THEN [t EXCEPT !.node[n].val = v]
  ELSE Place(t, k, v)

-----------------------------------------------------------------------------
(* Resizing and rehashing.                                                  *)

ArrayKeys(t) == {i \in DOMAIN t.array : t.array[i] # Nil}
LiveNodes(t) == {n \in DOMAIN t.node : t.node[n].val # Nil}

\* The old contents go into the new parts, array slots first, in order.
Resize(t, asize, hbits) ==
  LET new == [NewTab(asize, hbits) EXCEPT !.array =
                [i \in DOMAIN @ |-> IF i < t.asize THEN t.array[i] ELSE Nil]]
      leftover == [i \in 1 .. Max({0, t.asize - asize}) |->
                     <<asize + i - 1, t.array[asize + i - 1]>>]
      nodes == [i \in 1 .. t.hsize |-> <<t.node[i - 1].key, t.node[i - 1].val>>]
      items == leftover \o nodes
      U[i \in 0 .. Len(items)] ==
        IF i = 0 THEN new
        ELSE LET u == U[i - 1]
             IN  IF items[i][2] = Nil THEN u ELSE Put(u, items[i][1], items[i][2])
  IN  U[Len(items)]

\* Integer keys 2^b+1 .. 2^(b+1) are counted in bin b, with 0 and 1 in bin 0.
Bin(k) == IF k <= 2 THEN 0 ELSE Log2(k - 1)

\* Largest array more than half of which would be in use.
BestAsize(ints) ==
  LET below(b) == Cardinality({k \in ints : Bin(k) <= b})
      good == {b \in {Bin(k) : k \in ints} :
                 /\ 2 * Cardinality(ints) > Pow2(b)
                 /\ 2 * below(b) > Pow2(b)}
  IN  IF good = {} THEN [size |-> 0, used |-> 0]
      ELSE [size |-> Pow2(Max(good) + 1) + 1, used |-> below(Max(good))]

HsizeToBits(s) == IF s <= 1 THEN s ELSE 1 + Log2(s - 1)

\* rehashtab: make room for the extra key ek.
Rehash(t, ek) ==
  LET keys == ArrayKeys(t) \cup {t.node[n].key : n \in LiveNodes(t)} \cup {ek}
      best == BestAsize(keys \cap Ints)
  IN  Resize(t, best.size, HsizeToBits(Cardinality(keys) - best.used))

NewKey(t, k, v) == IF Room(t, k) THEN Place(t, k, v) ELSE Put(Rehash(t, k), k, v)

-----------------------------------------------------------------------------
(* Traversal and length.                                                    *)

KeyIndex_LiveOnly(t, k) ==
  IF k = Nil THEN 0
  ELSE IF k \in DOMAIN t.array THEN k + 1
  ELSE IF FindLive(t, k) = Nil THEN -1 ELSE t.asize + FindLive(t, k) + 1

KeyIndex_OffByOne(t, k) ==
  IF k = Nil THEN 0
  ELSE IF k \in DOMAIN t.array THEN k + 1
  ELSE IF FindAny(t, k) = Nil THEN -1 ELSE t.asize + FindAny(t, k) + 2

\* lj_tab_keyindex: where a traversal goes on after key k, -1 for no such key.
KeyIndex(t, k) ==
  IF k = Nil THEN 0
  ELSE IF k \in DOMAIN t.array
  THEN IF k = 0 /\ t.array[0] = Nil THEN -1 ELSE k + 1
  ELSE IF FindAny(t, k) = Nil THEN -1 ELSE t.asize + FindAny(t, k) + 1

\* The traversal positions that hold something, from index i on.
Ahead(t, i) == {j \in ArrayKeys(t) \cup {t.asize + n : n \in LiveNodes(t)} : j >= i}

KeyAt(t, j) == IF j < t.asize THEN j ELSE t.node[j - t.asize].key

\* Between lo with a value and hi without one, which come closer in every round.
Bisect(t, lo, hi) ==
  LET B[i \in 0 .. hi] ==
        IF i = 0 THEN [lo |-> lo, hi |-> hi]
        ELSE LET r == B[i - 1]
                 mid == (r.lo + r.hi) \div 2
             IN  IF r.hi - r.lo <= 1 THEN r
                 ELSE IF Get(t, mid) # Nil THEN [r EXCEPT !.lo = mid] ELSE [r EXCEPT !.hi = mid]
  IN  B[hi].lo

\* tab_len_slow: double hi until it has no value.  Every one has a node of its own.
Widen(t, lo, hi) ==
  LET W[i \in 0 .. t.hsize] ==
        IF i = 0 THEN [lo |-> lo, hi |-> hi]
        ELSE LET r == W[i - 1]
             IN  IF Get(t, r.hi) = Nil THEN r ELSE [lo |-> r.hi, hi |-> 2 * r.hi]
  IN  Bisect(t, W[t.hsize].lo, W[t.hsize].hi)

TabLen(t) == LET hi == Max({0, t.asize - 1}) IN
  IF hi > 0 /\ t.array[hi] = Nil THEN Bisect(t, 0, hi)
  ELSE IF t.hsize > 0 THEN Widen(t, hi, hi + 1) ELSE hi

LenHint_NoHashTest(t, hint) ==
  IF \/ hint + 1 < t.asize /\ t.array[hint] # Nil /\ t.array[hint + 1] = Nil
     \/ hint + 1 = t.asize /\ t.array[hint] # Nil
  THEN hint ELSE TabLen(t)

\* lj_tab_len_hint: the hint of a compiled loop, verified.
LenHint(t, hint) ==
  IF \/ hint + 1 < t.asize /\ t.array[hint] # Nil /\ t.array[hint + 1] = Nil
     \/ hint + 1 = t.asize /\ t.hsize = 0 /\ t.array[hint] # Nil
  THEN hint ELSE TabLen(t)

-----------------------------------------------------------------------------
(* The operations on the table.                                             *)

Init == /\ tab = NewTab(0, 0)
        /\ cursor = Idle
        /\ content = [k \in Keys |-> Nil]

\* Assigning to an absent field ends what a traversal may rely on.
Assigned(k, v) ==
  /\ content' = [content EXCEPT ![k] = v]
  /\ cursor' = IF content[k] = Nil THEN Idle ELSE cursor

\* The keys that are or were in the table stay within a group.
Within(k) == LET keys == {tab.node[n].key : n \in DOMAIN tab.node} \cup DOMAIN tab.array
             IN  \E g \in Groups : (keys \cap Keys) \cup {k} \subseteq g

\* lua_rawset, lj_meta_tset: lj_tab_set and a store.
TabSet(k, v) ==
  /\ Within(k)
  /\ tab' = IF k \in DOMAIN tab.array \/ FindLive(tab, k) # Nil
            THEN Put(tab, k, v) ELSE NewKey(tab, k, v)
  /\ Assigned(k, v)

\* BC_TSETS and IR_HREF with IR_NEWREF: a node with the key is used again,
\* dead or not.
VmSet(k, v) ==
  LET n == FindAny(tab, k) IN
  /\ Within(k)
  /\ tab' = IF n # Nil THEN [tab EXCEPT !.node[n].val = v] ELSE NewKey(tab, k, v)
  /\ Assigned(k, v)

\* BC_TSETM: grow the array part to hold n results.
Reasize(n) ==
  /\ n + 1 > tab.asize
  /\ tab' = Resize(tab, n + 1, HsizeToBits(tab.hsize))
  /\ cursor' = Idle
  /\ UNCHANGED content

\* lj_tab_clear
TabClear ==
  /\ tab' = NewTab(tab.asize, HsizeToBits(tab.hsize))
  /\ cursor' = Idle
  /\ content' = [k \in Keys |-> Nil]

\* The collector frees the string k1, of which only dead keys are left; the
\* string k2 gets its address (Nil: no string does).
Recycle(k1, k2) ==
  LET dead(k) == {n \in DOMAIN tab.node : tab.node[n].key = k} IN
  /\ dead(k1) # {} /\ k1 # k2
  /\ k2 \in Keys => Within(k2)
  /\ cursor.at \notin {k1, k2} \ {Nil}
  /\ \A n \in dead(k1) \cup dead(k2) : tab.node[n].val = Nil
  /\ tab' = [tab EXCEPT !.node = [n \in DOMAIN @ |->
               IF n \in dead(k1) THEN [@[n] EXCEPT !.key = IF k2 = Nil THEN Stale ELSE k2]
               ELSE IF n \in dead(k2) /\ k2 # Nil THEN [@[n] EXCEPT !.key = Stale]
               ELSE @[n]]]
  /\ UNCHANGED <<cursor, content>>

NextStart == /\ ~Traversing
             /\ cursor' = [at |-> Nil, seen |-> {}]
             /\ UNCHANGED <<tab, content>>

\* lj_tab_next
TabNext ==
  LET i == KeyIndex(tab, cursor.at) IN
  /\ Traversing
  /\ i # -1
  /\ IF Ahead(tab, i) = {} THEN cursor' = [at |-> Nil, seen |-> All]
     ELSE LET k == KeyAt(tab, Min(Ahead(tab, i)))
          IN  cursor' = [at |-> k, seen |-> cursor.seen \cup {k}]
  /\ UNCHANGED <<tab, content>>

Operation ==
  \/ \E k \in Keys, v \in Vals \cup {Nil} : TabSet(k, v)
  \/ \E k \in Strs, v \in Vals \cup {Nil} : VmSet(k, v)
  \/ \E n \in 1 .. MaxReasize : Reasize(n)
  \/ TabClear \/ NextStart \/ TabNext

Next == Operation \/ \E k1 \in Strs, k2 \in Strs \cup {Nil} : Recycle(k1, k2)

Spec == Init /\ [][Next]_vars

-----------------------------------------------------------------------------
(* Properties.                                                              *)

\* The parts have the shape the code relies on and every chain ends.
TypeOK ==
  LET nodes == 0 .. tab.hsize - 1 IN
  /\ tab.hsize = 0 \/ \E b \in 1 .. tab.hsize : tab.hsize = Pow2(b)
  /\ tab.freetop \in 0 .. tab.hsize
  /\ content \in [Keys -> Vals \cup {Nil}]
  /\ tab.array \in [0 .. tab.asize - 1 -> Vals \cup {Nil}]
  /\ tab.node \in [nodes -> [key : Keys \cup {Nil, Stale}, val : Vals \cup {Nil},
                             next : nodes \cup {Nil}]]

\* A lookup gives what was last assigned, by the C getters and by the chain
\* walks of the interpreter alike: no key is lost or doubled when nodes move
\* and chains are relinked, no integer key is hidden by the array part, no
\* dead node of a key lies before its live one.
IsAssigned ==
  \A k \in Keys :
    /\ Get(tab, k) = content[k]
    /\ k \notin DOMAIN tab.array => At(tab, FindAny(tab, k)) = content[k]

\* No chain runs into itself: no set of nodes only leads to itself.
ChainsEnd ==
  \A ring \in (SUBSET DOMAIN tab.node) \ {{}} :
    \E n \in ring : tab.node[n].next \notin ring

\* The length is a border of the sequence, whatever hint a trace gives.
Border(n) == /\ n = 0 \/ Get(tab, n) # Nil
             /\ Get(tab, n + 1) = Nil

LenIsBorder == /\ Border(TabLen(tab))
               /\ \A hint \in DOMAIN tab.array : Border(LenHint(tab, hint))

\* A traversal in which fields are only cleared or overwritten can always go
\* on: its last key is known, also when the field was cleared.
NextKnowsKey == Traversing => KeyIndex(tab, cursor.at) # -1

\* The table is a map, and a traversal visits each key once.
Map == INSTANCE LuaMap WITH seen <- cursor.seen
IsMap == Map!Spec

=============================================================================
