--------------------------- MODULE LuaTab_proofs ----------------------------
(***************************************************************************)
(* Proofs about LuaTab: a table is a map, for any keys and hash values.    *)
(* Nodes that make way, chains that are relinked and merged, dead keys     *)
(* that come to life in a foreign chain and resizes lose no key and double *)
(* none, and every chain ends.                                             *)
(***************************************************************************)
EXTENDS LuaTab, NatLemmas

Slots(h) == [key : Keys \cup {Nil, Stale}, val : Vals \cup {Nil},
             next : (0 .. h - 1) \cup {Nil}]
Hashes(h) == [0 .. h - 1 -> Slots(h)]
Arrays(a) == [0 .. a - 1 -> Vals \cup {Nil}]

-----------------------------------------------------------------------------
\* Chains.  g is the hash part, h the number of its nodes.

\* A rank that gets smaller along the chains, so that they end.
Ranked(g, h, r) == \A x \in 0 .. h - 1 : g[x].next # Nil => r[g[x].next] < r[x]
Ends(g, h) == \E b \in Nat : \E r \in [0 .. h - 1 -> 0 .. b] : Ranked(g, h, r)

\* From m the chain leads to p, through nodes in S only.
Way(g, m, p, S) == p \notin S /\ m \in S \cup {p} /\ \A x \in S : g[x].next \in S \cup {p}

\* A node of the hash part.
LEMMA SlotOf ==
  ASSUME NEW h \in Nat, NEW g \in Hashes(h), NEW x \in 0 .. h - 1
  PROVE  /\ g[x] \in Slots(h) /\ g[x].key \in Keys \cup {Nil, Stale}
         /\ g[x].val \in Vals \cup {Nil} /\ g[x].next \in (0 .. h - 1) \cup {Nil}
BY DEF Hashes, Slots

\* What FirstIn computes.
FirstOf(W, g, h, S) ==
  W = [x \in (0 .. h - 1) \cup {Nil} |-> IF x \in S \cup {Nil} THEN x ELSE W[g[x].next]]

\* The recursive function that FirstIn uses exists: by induction over ranks.
LEMMA FirstExists ==
  ASSUME KeyAssumption, NEW h \in Nat, NEW g \in Hashes(h), Ends(g, h),
         NEW S \in SUBSET (0 .. h - 1)
  PROVE  \E W \in [(0 .. h - 1) \cup {Nil} -> S \cup {Nil}] : FirstOf(W, g, h, S)
<1> DEFINE D == (0 .. h - 1) \cup {Nil}
<1>0. PICK b \in Nat : \E r \in [0 .. h - 1 -> 0 .. b] : Ranked(g, h, r)
  BY DEF Ends
<1>1. PICK r \in [0 .. h - 1 -> 0 .. b] : Ranked(g, h, r)
  BY <1>0
<1> DEFINE Below(k) == {x \in 0 .. h - 1 : r[x] < k} \cup {Nil}
           Part(k) == \E W \in [Below(k) -> S \cup {Nil}] :
                        \A x \in Below(k) : W[x] = IF x \in S \cup {Nil} THEN x ELSE W[g[x].next]
           T == {k \in Nat : Part(k)}
<1>2. Nil \notin 0 .. h - 1
  BY DEF KeyAssumption
<1>3. \A k \in Nat : \A x \in Below(k + 1) : x # Nil => g[x].next \in Below(k)
  <2> SUFFICES ASSUME NEW k \in Nat, NEW x \in 0 .. h - 1, r[x] < k + 1, g[x].next # Nil
               PROVE  g[x].next \in 0 .. h - 1 /\ r[g[x].next] < k
    OBVIOUS
  <2>1. g[x].next \in 0 .. h - 1
    BY SlotOf
  <2>2. r[g[x].next] < r[x] /\ r[x] \in Nat /\ r[g[x].next] \in Nat
    BY <1>1, <2>1 DEF Ranked
  <2> QED
    BY <2>1, <2>2
<1>4. 0 \in T
  <2>1. Below(0) = {Nil}
    BY <1>1
  <2>2. [x \in {Nil} |-> Nil] \in [Below(0) -> S \cup {Nil}]
    BY <2>1
  <2> QED
    BY <2>1, <2>2
<1>5. ASSUME NEW k \in Nat, k \in T
      PROVE  k + 1 \in T
  <2>1. PICK W \in [Below(k) -> S \cup {Nil}] :
          \A x \in Below(k) : W[x] = IF x \in S \cup {Nil} THEN x ELSE W[g[x].next]
    BY <1>5
  <2> DEFINE V == [x \in Below(k + 1) |-> IF x \in S \cup {Nil} THEN x ELSE W[g[x].next]]
  <2>2. V \in [Below(k + 1) -> S \cup {Nil}]
    BY <1>3, <2>1
  <2>30. \A x \in Below(k) : x \in Below(k + 1)
    BY <1>1
  <2>31. \A x \in Below(k + 1) : V[x] = IF x \in S \cup {Nil} THEN x ELSE W[g[x].next]
    OBVIOUS
  <2>3. \A x \in Below(k) : x \in Below(k + 1) /\ V[x] = W[x]
    <3> HIDE DEF V, Below
    <3> QED
      BY <2>1, <2>30, <2>31
  <2>4. \A x \in Below(k + 1) : V[x] = IF x \in S \cup {Nil} THEN x ELSE V[g[x].next]
    BY <1>3, <2>3
  <2>5. Part(k + 1)
    BY <2>2, <2>4
  <2> HIDE DEF Part
  <2> QED
    BY <2>5
<1> HIDE DEF T
<1>6. Nat \subseteq T
  BY <1>4, <1>5, SetInduction
<1>7. Part(b + 1)
  <2> HIDE DEF Part
  <2>1. b + 1 \in T
    BY <1>6
  <2> QED
    BY <2>1 DEF T
<1>8. Below(b + 1) = D
  BY <1>1
<1>9. PICK W \in [D -> S \cup {Nil}] :
        \A x \in D : W[x] = IF x \in S \cup {Nil} THEN x ELSE W[g[x].next]
  BY <1>7, <1>8
<1>10. FirstOf(W, g, h, S)
  BY <1>9 DEF FirstOf
<1> QED
  BY <1>9, <1>10

\* A chain leads to a member or to its end; to the first member that it meets.
LEMMA FirstFacts ==
  ASSUME KeyAssumption, NEW h \in Nat, NEW t, t.node \in Hashes(h), Ends(t.node, h),
         NEW S \in SUBSET (0 .. h - 1), NEW n \in (0 .. h - 1) \cup {Nil}
  PROVE  /\ FirstIn(t, n, S) \in S \cup {Nil}
         /\ n \in S \cup {Nil} => FirstIn(t, n, S) = n
         /\ n \notin S \cup {Nil} => FirstIn(t, n, S) = FirstIn(t, t.node[n].next, S)
<1> DEFINE g == t.node
           D == (0 .. h - 1) \cup {Nil}
           F == CHOOSE W : W = [x \in DOMAIN g \cup {Nil} |->
                                  IF x \in S \cup {Nil} THEN x ELSE W[g[x].next]]
<1>1. \A m : FirstIn(t, m, S) = F[m]
  BY DEF FirstIn
<1>2. DOMAIN g = 0 .. h - 1 /\ g \in Hashes(h) /\ Ends(g, h)
  BY DEF Hashes
<1>3. F = CHOOSE W : FirstOf(W, g, h, S)
  BY <1>2 DEF FirstOf
<1> HIDE DEF F, g
<1>4. \E W \in [D -> S \cup {Nil}] : FirstOf(W, g, h, S)
  BY <1>2, FirstExists
<1>5. FirstOf(F, g, h, S)
  BY <1>3, <1>4, Zenon
<1>6. \A x \in D : F[x] = IF x \in S \cup {Nil} THEN x ELSE F[g[x].next]
  BY <1>5 DEF FirstOf
<1>7. F[n] \in S \cup {Nil}
  <2>0. PICK b \in Nat : \E r \in [0 .. h - 1 -> 0 .. b] : Ranked(g, h, r)
    BY <1>2 DEF Ends
  <2>1. PICK r \in [0 .. h - 1 -> 0 .. b] : Ranked(g, h, r)
    BY <2>0
  <2> DEFINE T == {k \in Nat : \A x \in 0 .. h - 1 : r[x] < k => F[x] \in S \cup {Nil}}
  <2>2. 0 \in T
    BY <2>1
  <2>3. ASSUME NEW k \in Nat, k \in T
        PROVE  k + 1 \in T
    <3> SUFFICES ASSUME NEW x \in 0 .. h - 1, r[x] < k + 1
                 PROVE  F[x] \in S \cup {Nil}
      OBVIOUS
    <3>1. CASE x \in S
      BY <1>6, <3>1
    <3>2. CASE x \notin S /\ g[x].next = Nil
      BY <1>6, <3>2
    <3>3. CASE x \notin S /\ g[x].next # Nil
      <4>1. g[x].next \in 0 .. h - 1
        BY <1>2, <3>3, SlotOf
      <4>2. r[g[x].next] < r[x] /\ r[x] \in Nat /\ r[g[x].next] \in Nat
        BY <2>1, <3>3, <4>1 DEF Ranked
      <4>3. F[g[x].next] \in S \cup {Nil}
        BY <2>3, <4>1, <4>2
      <4> QED
        BY <1>6, <3>3, <4>3
    <3> QED
      BY <3>1, <3>2, <3>3
  <2> HIDE DEF T
  <2>4. Nat \subseteq T
    BY <2>2, <2>3, SetInduction
  <2>5. n # Nil => r[n] < b + 1 /\ b + 1 \in Nat
    BY <2>1
  <2> QED
    BY <1>6, <2>4, <2>5 DEF T
<1>8. n \notin S \cup {Nil} => F[n] = F[g[n].next]
  BY <1>6
<1>9. n \in S \cup {Nil} => F[n] = n
  BY <1>6
<1> QED
  BY <1>1, <1>7, <1>8, <1>9 DEF g

\* In a set of nodes one leads out of it, as chains end, and to one none leads.
LEMMA LeadsOut ==
  ASSUME NEW h \in Nat, NEW g, Ends(g, h), NEW P \in SUBSET (0 .. h - 1), P # {}, Nil \notin P
  PROVE  /\ \E n \in P : g[n].next \notin P
         /\ \E n \in P : \A x \in P : g[x].next # n
<1>0. PICK b \in Nat : \E r \in [0 .. h - 1 -> 0 .. b] : Ranked(g, h, r)
  BY DEF Ends
<1>1. PICK r \in [0 .. h - 1 -> 0 .. b] : Ranked(g, h, r)
  BY <1>0
<1> DEFINE T == {r[x] : x \in P}
<1>3. \A x \in P : r[x] \in T /\ r[x] \in Nat
  OBVIOUS
<1>2. T \in SUBSET Nat /\ T \in SUBSET (0 .. b) /\ T # {}
  <2>1. T \in SUBSET (0 .. b)
    OBVIOUS
  <2> HIDE DEF T
  <2> QED
    <3>1. PICK x \in P : TRUE
      OBVIOUS
    <3>2. r[x] \in T
      BY <1>3
    <3>3. \A y \in 0 .. b : y \in Nat
      OBVIOUS
    <3> QED
      BY <2>1, <3>2, <3>3, Zenon
<1>4. \A y \in T : \E x \in P : r[x] = y
  OBVIOUS
<1> HIDE DEF T
<1>5. PICK m \in T : \A y \in T : m <= y
  BY <1>2, LeastExists
<1>6. PICK n \in P : r[n] = m
  BY <1>4, <1>5
<1>7. g[n].next \notin P
  <2> SUFFICES ASSUME g[n].next \in P
               PROVE  FALSE
    OBVIOUS
  <2>1. r[g[n].next] < r[n] /\ r[g[n].next] \in T /\ r[g[n].next] \in Nat /\ r[n] \in Nat
    BY <1>1, <1>3 DEF Ranked
  <2> QED
    BY <1>5, <1>6, <2>1
<1>8. Max(T) \in T /\ \A y \in T : y <= Max(T)
  BY <1>2, MaxIsGreatest
<1>9. PICK l \in P : r[l] = Max(T)
  BY <1>4, <1>8
<1>10. ASSUME NEW x \in P, g[x].next = l
       PROVE  FALSE
  <2>1. r[l] < r[x] /\ r[x] \in T /\ r[x] \in Nat /\ r[l] \in Nat
    BY <1>1, <1>3, <1>10 DEF Ranked
  <2> QED
    BY <1>8, <1>9, <2>1
<1> QED
  BY <1>7, <1>10

\* Nothing in a set of nodes leads out of it.
Shut(g, Q) == \A x \in Q : g[x].next # Nil => g[x].next \in Q

\* A way to a node outside a set that nothing leads out of does not go through it.
LEMMA WayOutside ==
  ASSUME KeyAssumption, NEW h \in Nat, NEW g, Ends(g, h), NEW Q \in SUBSET (0 .. h - 1), Shut(g, Q),
         NEW p \in 0 .. h - 1, p \notin Q, NEW S \in SUBSET (0 .. h - 1),
         NEW m, Way(g, m, p, S)
  PROVE  S \cap Q = {}
<1> SUFFICES ASSUME S \cap Q # {}
             PROVE  FALSE
  OBVIOUS
<1>0. Nil \notin 0 .. h - 1
  BY DEF KeyAssumption
<1>1. S \cap Q \in SUBSET (0 .. h - 1) /\ Nil \notin S \cap Q
  BY <1>0
<1>2. PICK n \in S \cap Q : g[n].next \notin S \cap Q
  BY <1>1, LeadsOut
<1>3. g[n].next \in S \cup {p}
  BY DEF Way
<1>4. g[n].next \in Q
  BY <1>0, <1>3 DEF Shut
<1> QED
  BY <1>2, <1>3, <1>4

\* The last node of a way leads to its end.
LEMMA WayEnds ==
  ASSUME KeyAssumption, NEW h \in Nat, NEW g, Ends(g, h), NEW p \in 0 .. h - 1,
         NEW S \in SUBSET (0 .. h - 1), NEW m, Way(g, m, p, S), m # p
  PROVE  \E x \in S : g[x].next = p
<1>1. m \in S /\ p \notin S /\ \A x \in S : g[x].next \in S \cup {p}
  BY DEF Way
<1>2. Nil \notin S
  BY DEF KeyAssumption
<1>3. \E n \in S : g[n].next \notin S
  BY <1>1, <1>2, LeadsOut
<1> QED
  BY <1>1, <1>3

Apart(S, X) == S \cap X = {}

\* A walk stops at the member that a way without members leads to, ...
LEMMA FirstMeets ==
  ASSUME KeyAssumption, NEW h \in Nat, NEW t, t.node \in Hashes(h), Ends(t.node, h),
         NEW X \in SUBSET (0 .. h - 1), NEW p \in X, NEW S \in SUBSET (0 .. h - 1),
         Apart(S, X), NEW m, Way(t.node, m, p, S)
  PROVE  FirstIn(t, m, X) = p
<1> DEFINE P == {x \in S \cup {p} : FirstIn(t, x, X) # p}
<1> SUFFICES ASSUME P # {}
             PROVE  FALSE
  BY DEF Way
<1>0. Nil \notin 0 .. h - 1
  BY DEF KeyAssumption
<1>1. P \in SUBSET (0 .. h - 1) /\ Nil \notin P
  BY <1>0
<1> HIDE DEF P
<1>2. PICK n \in P : t.node[n].next \notin P
  BY <1>1, LeadsOut
<1>3. n \in S \cup {p} /\ FirstIn(t, n, X) # p
  BY DEF P
<1>4. n # p
  BY <1>3, FirstFacts
<1>5. n \in S /\ t.node[n].next \in S \cup {p}
  BY <1>3, <1>4 DEF Way
<1>6. FirstIn(t, t.node[n].next, X) = p
  BY <1>2, <1>5 DEF P
<1>7. n \notin X \cup {Nil} /\ n \in 0 .. h - 1
  BY <1>0, <1>5 DEF Apart
<1>8. FirstIn(t, n, X) = FirstIn(t, t.node[n].next, X)
  BY <1>7, FirstFacts
<1> QED
  BY <1>3, <1>6, <1>8

\* ... and goes to the member where it stops through no other one.
LEMMA FirstWay ==
  ASSUME KeyAssumption, NEW h \in Nat, NEW t, t.node \in Hashes(h), Ends(t.node, h),
         NEW X \in SUBSET (0 .. h - 1), NEW m \in 0 .. h - 1, FirstIn(t, m, X) # Nil
  PROVE  /\ FirstIn(t, m, X) \in X
         /\ \E S \in SUBSET (0 .. h - 1) : Apart(S, X) /\ Way(t.node, m, FirstIn(t, m, X), S)
<1> DEFINE p == FirstIn(t, m, X)
           S == {x \in (0 .. h - 1) \ X : FirstIn(t, x, X) = p}
<1>0. Nil \notin 0 .. h - 1
  BY DEF KeyAssumption
<1>1. p \in X
  <2>1. FirstIn(t, m, X) \in X \cup {Nil}
    BY FirstFacts
  <2> QED
    BY <2>1
<1>2. ASSUME NEW x \in 0 .. h - 1, FirstIn(t, x, X) = p
      PROVE  x \in S \cup {p}
  <2>1. x \in X => x = p
    BY <1>2, FirstFacts
  <2> QED
    BY <1>2, <2>1
<1>3. ASSUME NEW x \in S
      PROVE  t.node[x].next \in S \cup {p}
  <2> DEFINE y == t.node[x].next
  <2>1. x \in 0 .. h - 1 /\ x \notin X /\ FirstIn(t, x, X) = p
    OBVIOUS
  <2>2. y \in (0 .. h - 1) \cup {Nil}
    BY <2>1, SlotOf
  <2> HIDE DEF y, S
  <2>3. FirstIn(t, y, X) = p
    BY <1>0, <2>1, FirstFacts DEF y
  <2>4. y # Nil
    BY <1>0, <1>1, <2>3, FirstFacts, ZenonT(40)
  <2>5. y \in S \cup {p}
    BY <1>2, <2>2, <2>3, <2>4
  <2> QED
    BY <2>5 DEF y
<1>4. m \in S \cup {p}
  BY <1>2
<1>5. p \notin S
  BY <1>1
<1>6. S \in SUBSET (0 .. h - 1) /\ Apart(S, X)
  BY DEF Apart
<1> HIDE DEF S
<1>7. Way(t.node, m, p, S)
  BY <1>3, <1>4, <1>5 DEF Way
<1> QED
  BY <1>1, <1>6, <1>7

Home(h, k) == Hash[k] % h

\* The home of a key is a node.
LEMMA HomeType ==
  ASSUME KeyAssumption, NEW h \in Nat, h # 0, NEW k \in Keys
  PROVE  Home(h, k) \in 0 .. h - 1
BY DEF KeyAssumption, Home

\* Nil is no node.
LEMMA NilApart ==
  ASSUME KeyAssumption
  PROVE  \A h \in Nat : \A x \in 0 .. h - 1 : x # Nil
BY DEF KeyAssumption

\* Node p is found from the home of its key, and no node before it has the key.
Reached(g, h, p) ==
  \E S \in SUBSET (0 .. h - 1) :
    Way(g, Home(h, g[p].key), p, S) /\ \A x \in S : g[x].key # g[p].key

\* One node leads to a node; a node that is not used yet is not in a chain; the
\* keys of the nodes with a value are keys of K and differ.
OnePred(g, h) == \A x, y \in 0 .. h - 1 : g[x].next # Nil /\ g[x].next = g[y].next => x = y
Linked(g, h) == \A x \in 0 .. h - 1 : g[x].next # Nil => g[g[x].next].key # Nil
Blank(g, h) == \A x \in 0 .. h - 1 : g[x].key = Nil => g[x].next = Nil /\ g[x].val = Nil
Own(g, h, K) == \A x \in 0 .. h - 1 : g[x].val # Nil => g[x].key \in K
Distinct(g, h) == \A x, y \in 0 .. h - 1 :
                    g[x].val # Nil /\ g[y].val # Nil /\ g[x].key = g[y].key => x = y

Frame(g, h, K) == /\ g \in Hashes(h) /\ Ends(g, h) /\ OnePred(g, h) /\ Linked(g, h)
                  /\ Blank(g, h) /\ Own(g, h, K) /\ Distinct(g, h)
Sound(g, h, K) == /\ Frame(g, h, K)
                  /\ \A p \in 0 .. h - 1 : g[p].val # Nil => Reached(g, h, p)

\* No node with a value has the key k.
Absent(g, h, k) == \A x \in 0 .. h - 1 : g[x].val # Nil => g[x].key # k

-----------------------------------------------------------------------------
\* Chains that are the same lead to the same nodes.
LEMMA SameChains ==
  ASSUME NEW h \in Nat, NEW g, NEW g2, \A x \in 0 .. h - 1 : g2[x].next = g[x].next
  PROVE  /\ Ends(g, h) => Ends(g2, h)
         /\ OnePred(g, h) => OnePred(g2, h)
         /\ \A m, p : \A S \in SUBSET (0 .. h - 1) : Way(g, m, p, S) => Way(g2, m, p, S)
<1>1. \A r : Ranked(g, h, r) => Ranked(g2, h, r)
  BY DEF Ranked
<1>2. Ends(g, h) => Ends(g2, h)
  BY <1>1 DEF Ends
<1>3. OnePred(g, h) => OnePred(g2, h)
  BY DEF OnePred
<1>4. \A m, p : \A S \in SUBSET (0 .. h - 1) : Way(g, m, p, S) => Way(g2, m, p, S)
  BY DEF Way
<1> QED
  BY <1>2, <1>3, <1>4

\* A key takes over its home, in which no value is left.
HomeTaken(g, g2, h, n, k, v) ==
  /\ g2 \in Hashes(h) /\ g2[n].key = k /\ g2[n].val = v
  /\ \A x \in 0 .. h - 1 : g2[x].next = g[x].next
  /\ \A x \in 0 .. h - 1 : x # n => g2[x].key = g[x].key /\ g2[x].val = g[x].val

\* A key goes to the free node that is its home.
LEMMA TakeHome ==
  ASSUME KeyAssumption, NEW h \in Nat, NEW K \in SUBSET Keys, NEW g, Sound(g, h, K),
         NEW k \in K, Absent(g, h, k), NEW n \in 0 .. h - 1, n = Home(h, k), NEW v,
         g[n].val = Nil, NEW g2, HomeTaken(g, g2, h, n, k, v)
  PROVE  Sound(g2, h, K)
<1> USE DEF HomeTaken
<1>0. Frame(g, h, K) /\ k # Nil
  BY DEF Sound, KeyAssumption, Keys
<1>1. Ends(g2, h) /\ OnePred(g2, h)
  BY <1>0, SameChains DEF Frame
<1>2. Linked(g2, h)
  <2> SUFFICES ASSUME NEW x \in 0 .. h - 1, g2[x].next # Nil
               PROVE  g2[g2[x].next].key # Nil
    BY DEF Linked
  <2>1. g[x].next \in 0 .. h - 1 /\ g[g[x].next].key # Nil
    BY <1>0, SlotOf DEF Frame, Linked
  <2> QED
    BY <1>0, <2>1
<1>3. Blank(g2, h)
  BY <1>0 DEF Frame, Blank
<1>4. Own(g2, h, K)
  BY <1>0 DEF Frame, Own
<1>5. Distinct(g2, h)
  BY <1>0 DEF Frame, Distinct, Absent
<1>6. ASSUME NEW p \in 0 .. h - 1, g2[p].val # Nil
      PROVE  Reached(g2, h, p)
  <2>1. CASE p = n
    <3>1. Way(g2, n, n, {})
      BY DEF Way
    <3> QED
      BY <2>1, <3>1 DEF Reached
  <2>2. CASE p # n
    <3>1. g[p].val # Nil /\ g2[p].key = g[p].key
      BY <1>6, <2>2
    <3>2. PICK S \in SUBSET (0 .. h - 1) :
            Way(g, Home(h, g[p].key), p, S) /\ \A x \in S : g[x].key # g[p].key
      BY <3>1 DEF Sound, Reached
    <3>3. Way(g2, Home(h, g[p].key), p, S)
      BY <3>2, SameChains
    <3>4. \A x \in S : g2[x].key # g[p].key
      BY <3>1, <3>2 DEF Absent
    <3> QED
      BY <3>1, <3>3, <3>4 DEF Reached
  <2> QED
    BY <2>1, <2>2
<1> QED
  BY <1>1, <1>2, <1>3, <1>4, <1>5, <1>6 DEF Sound, Frame

\* Ranks that leave room for one more between them.
Even(i) == 2 * i + 2
Odd(i) == 2 * i + 1

\* The order and the range of the nodes that even and odd sums stand for.
LEMMA EvenOdd ==
  /\ \A i, j \in Nat : i < j => Even(i) < Even(j) /\ Even(i) < Odd(j)
  /\ \A i \in Nat : Odd(i) < Even(i) /\ Even(i) \in Nat
  /\ \A b \in Nat : \A i \in 0 .. b : Even(i) \in 0 .. Even(b) /\ Odd(i) \in 0 .. Even(b)
BY DEF Even, Odd

\* Node f comes behind node n in the chain.
LEMMA InsertedEnds ==
  ASSUME KeyAssumption, NEW h \in Nat, NEW g \in Hashes(h), Ends(g, h),
         NEW n \in 0 .. h - 1, NEW f \in 0 .. h - 1, n # f,
         \A x \in 0 .. h - 1 : g[x].next # f,
         NEW g2 \in Hashes(h), g2[f].next = g[n].next, g2[n].next = f,
         \A x \in 0 .. h - 1 : x \notin {f, n} => g2[x].next = g[x].next
  PROVE  Ends(g2, h)
<1>0. PICK b \in Nat : \E r \in [0 .. h - 1 -> 0 .. b] : Ranked(g, h, r)
  BY DEF Ends
<1>1. PICK r \in [0 .. h - 1 -> 0 .. b] : Ranked(g, h, r)
  BY <1>0
<1> DEFINE q == [x \in 0 .. h - 1 |-> IF x = f THEN Odd(r[n]) ELSE Even(r[x])]
<1>2. q \in [0 .. h - 1 -> 0 .. Even(b)] /\ Even(b) \in Nat
  <2>1. \A x \in 0 .. h - 1 : r[x] \in 0 .. b
    BY <1>1
  <2>2. \A x \in 0 .. h - 1 : Even(r[x]) \in 0 .. Even(b) /\ Odd(r[x]) \in 0 .. Even(b)
    BY <2>1, EvenOdd
  <2>3. Even(b) \in Nat
    BY EvenOdd
  <2>4. \A x \in 0 .. h - 1 : (IF x = f THEN Odd(r[n]) ELSE Even(r[x])) \in 0 .. Even(b)
    BY <2>2
  <2> QED
    BY <2>3, <2>4, Zenon
<1>3. /\ q[f] = Odd(r[n])
      /\ \A x \in 0 .. h - 1 : x # f => q[x] = Even(r[x])
      /\ \A x \in 0 .. h - 1 : r[x] \in Nat
  BY <1>1
<1> HIDE DEF q
<1>4. Ranked(g2, h, q)
  <2> SUFFICES ASSUME NEW x \in 0 .. h - 1, g2[x].next # Nil
               PROVE  q[g2[x].next] < q[x]
    BY DEF Ranked
  <2>1. g2[x].next \in 0 .. h - 1
    BY SlotOf
  <2>2. CASE x = f
    <3>1. g[n].next \in 0 .. h - 1 /\ g[n].next # f /\ r[g[n].next] < r[n]
      BY <1>1, <2>1, <2>2 DEF Ranked
    <3>2. q[g[n].next] = Even(r[g[n].next]) /\ r[g[n].next] \in Nat /\ r[n] \in Nat
      BY <1>3, <3>1
    <3>3. Even(r[g[n].next]) < Odd(r[n])
      BY <3>1, <3>2, EvenOdd
    <3>4. q[g[n].next] < q[f]
      BY <1>3, <3>2, <3>3
    <3> QED
      BY <2>2, <3>4
  <2>3. CASE x = n
    <3>1. q[n] = Even(r[n]) /\ r[n] \in Nat
      BY <1>3
    <3> QED
      BY <1>3, <2>3, <3>1, EvenOdd
  <2>4. CASE x \notin {f, n}
    <3>1. g[x].next \in 0 .. h - 1 /\ g[x].next # f /\ r[g[x].next] < r[x]
      BY <1>1, <2>1, <2>4 DEF Ranked
    <3>2. /\ q[g[x].next] = Even(r[g[x].next]) /\ r[g[x].next] \in Nat
          /\ q[x] = Even(r[x]) /\ r[x] \in Nat
      BY <1>3, <2>4, <3>1
    <3>3. Even(r[g[x].next]) < Even(r[x])
      BY <3>1, <3>2, EvenOdd
    <3>4. q[g[x].next] < q[x]
      BY <3>2, <3>3
    <3> QED
      BY <2>4, <3>4
  <2> QED
    BY <2>2, <2>3, <2>4
<1> QED
  BY <1>2, <1>4 DEF Ends

\* A key goes to a free node behind its home, which is the home of its own key.
PutBehind(g, g2, h, n, f, k, v) ==
  /\ g2 \in Hashes(h) /\ g2[f].key = k /\ g2[f].val = v /\ g2[f].next = g[n].next
  /\ g2[n].key = g[n].key /\ g2[n].val = g[n].val /\ g2[n].next = f
  /\ \A x \in 0 .. h - 1 : x \notin {f, n} => g2[x] = g[x]

\* A key goes to a free node behind the node in its home.
LEMMA GoBehind ==
  ASSUME KeyAssumption, NEW h \in Nat, NEW K \in SUBSET Keys, NEW g, Sound(g, h, K),
         NEW k \in K, Absent(g, h, k), NEW n \in 0 .. h - 1, n = Home(h, k), NEW v,
         NEW f \in 0 .. h - 1, g[f].key = Nil, g[n].val # Nil,
         NEW g2, PutBehind(g, g2, h, n, f, k, v)
  PROVE  Sound(g2, h, K)
<1> USE DEF PutBehind
<1>0. Frame(g, h, K) /\ k # Nil /\ g \in Hashes(h) /\ Ends(g, h)
  BY DEF Sound, KeyAssumption, Keys, Frame
<1>1. g[f].next = Nil /\ g[f].val = Nil /\ n # f
  BY <1>0 DEF Frame, Blank
<1>2. \A x \in 0 .. h - 1 : g[x].next # f
  BY <1>0 DEF Frame, Linked, KeyAssumption
<1>3. Ends(g2, h)
  BY <1>0, <1>1, <1>2, InsertedEnds
<1>4. OnePred(g2, h)
  BY <1>0, <1>1, <1>2 DEF Frame, OnePred
<1>5. Linked(g2, h)
  <2> SUFFICES ASSUME NEW x \in 0 .. h - 1, g2[x].next # Nil
               PROVE  g2[g2[x].next].key # Nil
    BY DEF Linked
  <2>1. \A y \in 0 .. h - 1 : g[y].next # Nil => g[y].next \in 0 .. h - 1 /\ g[g[y].next].key # Nil
    BY <1>0, SlotOf DEF Frame, Linked
  <2> QED
    BY <1>0, <1>1, <1>2, <2>1
<1>6. Blank(g2, h) /\ Own(g2, h, K)
  BY <1>0, <1>1 DEF Frame, Blank, Own
<1>7. Distinct(g2, h)
  BY <1>0, <1>1 DEF Frame, Distinct, Absent
<1>8. ASSUME NEW p \in 0 .. h - 1, g2[p].val # Nil
      PROVE  Reached(g2, h, p)
  <2>1. CASE p = f
    <3>1. Way(g2, n, f, {n})
      BY <1>1 DEF Way
    <3>2. g2[n].key # k
      BY DEF Absent
    <3> QED
      BY <2>1, <3>1, <3>2 DEF Reached
  <2>2. CASE p # f
    <3>1. g[p].val # Nil /\ g2[p].key = g[p].key /\ g[p].key # k
      BY <1>8, <2>2 DEF Absent
    <3>2. PICK S \in SUBSET (0 .. h - 1) :
            Way(g, Home(h, g[p].key), p, S) /\ \A x \in S : g[x].key # g[p].key
      BY <3>1 DEF Sound, Reached
    <3>3. p \notin S /\ Home(h, g[p].key) \in S \cup {p} /\ \A x \in S : g[x].next \in S \cup {p}
      BY <3>2 DEF Way
    <3>4. f \notin S
      <4>1. Nil \notin S \cup {p}
        BY NilApart
      <4> QED
        BY <1>1, <3>3, <4>1
    <3>5. CASE n \in S
      <4>1. Way(g2, Home(h, g[p].key), p, S \cup {f})
        BY <1>1, <2>2, <3>3, <3>4, <3>5 DEF Way
      <4>2. \A x \in S \cup {f} : g2[x].key # g[p].key
        BY <3>1, <3>2, <3>4
      <4>3. S \cup {f} \in SUBSET (0 .. h - 1)
        OBVIOUS
      <4> QED
        BY <3>1, <4>1, <4>2, <4>3 DEF Reached
    <3>6. CASE n \notin S
      <4>1. Way(g2, Home(h, g[p].key), p, S)
        BY <3>3, <3>4, <3>6 DEF Way
      <4>2. \A x \in S : g2[x].key # g[p].key
        BY <3>2, <3>4, <3>6
      <4> QED
        BY <3>1, <4>1, <4>2 DEF Reached
    <3> QED
      BY <3>5, <3>6
  <2> QED
    BY <2>1, <2>2
<1> QED
  BY <1>3, <1>4, <1>5, <1>6, <1>7, <1>8 DEF Sound, Frame

\* Nothing leads from the nodes Q out of them, and into them only node at does.
Entry(g, h, at, Q) ==
  /\ Q \in SUBSET (0 .. h - 1) /\ Shut(g, Q) /\ at \in (0 .. h - 1) \ Q
  /\ g[at].next \in Q \cup {Nil}
  /\ \A x \in (0 .. h - 1) \ Q : g[x].next \in Q => x = at
  /\ \A q \in Q : q # g[at].next => \E x \in Q : g[x].next = q

\* A node in the home of another one has another key.
Homes(g, h) ==
  \A p \in 0 .. h - 1 : g[p].val # Nil /\ Home(h, g[p].key) # p
                          => g[Home(h, g[p].key)].key \notin {Nil, g[p].key}

ReachedIn(g, h, p, Q) ==
  \E S \in SUBSET Q : Way(g, Home(h, g[p].key), p, S) /\ \A x \in S : g[x].key # g[p].key

\* What is not in Q is found; what is in Q and whose home is in Q, within Q.
Outside(g, h, Q) == \A p \in (0 .. h - 1) \ Q : g[p].val # Nil => Reached(g, h, p)
Inside(g, h, Q) == \A q \in Q : g[q].val # Nil /\ Home(h, g[q].key) \in Q => ReachedIn(g, h, q, Q)

\* The first node of Q is passed.
LEMMA RechainPass ==
  ASSUME KeyAssumption, NEW h \in Nat, NEW K \in SUBSET Keys, NEW g, Frame(g, h, K),
         NEW Q, NEW at, Entry(g, h, at, Q), Outside(g, h, Q), Inside(g, h, Q),
         NEW nn, nn = g[at].next, nn # Nil, g[nn].val # Nil => Reached(g, h, nn)
  PROVE  /\ nn \in Q /\ Entry(g, h, nn, Q \ {nn})
         /\ Outside(g, h, Q \ {nn}) /\ Inside(g, h, Q \ {nn})
<1>1. nn \in Q /\ nn \in 0 .. h - 1 /\ Nil \notin 0 .. h - 1 /\ at \notin Q /\ at \in 0 .. h - 1
  BY NilApart DEF Entry
<1>2. g \in Hashes(h) /\ Ends(g, h) /\ OnePred(g, h)
  BY DEF Frame
<1>3. g[nn].next # nn
  <2>1. {nn} \in SUBSET (0 .. h - 1) /\ Nil \notin {nn} /\ {nn} # {}
    BY <1>1
  <2>2. \E x \in {nn} : g[x].next \notin {nn}
    BY <1>2, <2>1, LeadsOut
  <2> QED
    BY <2>2
<1>4. \A x \in Q : g[x].next # nn
  BY <1>1, <1>2 DEF OnePred, Entry
<1>5. Entry(g, h, nn, Q \ {nn})
  <2>1. Q \ {nn} \in SUBSET (0 .. h - 1) /\ nn \in (0 .. h - 1) \ (Q \ {nn})
    BY <1>1 DEF Entry
  <2>2. Shut(g, Q \ {nn})
    BY <1>4 DEF Entry, Shut
  <2>3. g[nn].next \in (Q \ {nn}) \cup {Nil}
    BY <1>1, <1>3 DEF Entry, Shut
  <2>4. \A x \in (0 .. h - 1) \ (Q \ {nn}) : g[x].next \in Q \ {nn} => x = nn
    BY DEF Entry
  <2>5. \A q \in Q \ {nn} : q # g[nn].next => \E x \in Q \ {nn} : g[x].next = q
    BY DEF Entry
  <2> QED
    BY <2>1, <2>2, <2>3, <2>4, <2>5 DEF Entry
<1>6. Outside(g, h, Q \ {nn})
  BY DEF Outside
<1>7. Inside(g, h, Q \ {nn})
  <2> SUFFICES ASSUME NEW q \in Q \ {nn}, g[q].val # Nil, Home(h, g[q].key) \in Q \ {nn}
               PROVE  ReachedIn(g, h, q, Q \ {nn})
    BY DEF Inside
  <2>1. PICK S \in SUBSET Q : Way(g, Home(h, g[q].key), q, S) /\ \A x \in S : g[x].key # g[q].key
    BY DEF Inside, ReachedIn
  <2>2. Way(g, Home(h, g[q].key), q, S \ {nn})
    BY <1>4, <2>1 DEF Way
  <2>3. S \ {nn} \in SUBSET (Q \ {nn})
    OBVIOUS
  <2> QED
    BY <2>1, <2>2, <2>3 DEF ReachedIn
<1> QED
  BY <1>1, <1>5, <1>6, <1>7

\* The chains when node nn, which follows node at, goes behind node m.
MovedBehind(g, g2, h, at, nn, m) ==
  /\ g2 \in Hashes(h)
  /\ g2[at].next = g[nn].next /\ g2[nn].next = g[m].next /\ g2[m].next = nn
  /\ \A x \in 0 .. h - 1 : x \notin {at, nn, m} => g2[x].next = g[x].next
  /\ \A x \in 0 .. h - 1 : g2[x].key = g[x].key /\ g2[x].val = g[x].val

\* Moving a node behind its home makes no ring.
LEMMA MovedEnds ==
  ASSUME KeyAssumption, NEW h \in Nat, NEW g \in Hashes(h), Ends(g, h), OnePred(g, h),
         NEW at \in 0 .. h - 1, NEW nn \in 0 .. h - 1, NEW m \in 0 .. h - 1,
         g[at].next = nn, m \notin {at, nn}, at # nn,
         NEW g2, MovedBehind(g, g2, h, at, nn, m)
  PROVE  Ends(g2, h)
<1>0. PICK b \in Nat : \E r \in [0 .. h - 1 -> 0 .. b] : Ranked(g, h, r)
  BY DEF Ends
<1>1. PICK r \in [0 .. h - 1 -> 0 .. b] : Ranked(g, h, r)
  BY <1>0
<1> DEFINE q == [x \in 0 .. h - 1 |-> IF x = nn THEN Odd(r[m]) ELSE Even(r[x])]
<1>2. q \in [0 .. h - 1 -> 0 .. Even(b)] /\ Even(b) \in Nat
  <2>1. \A x \in 0 .. h - 1 : r[x] \in 0 .. b
    BY <1>1
  <2>2. \A x \in 0 .. h - 1 : Even(r[x]) \in 0 .. Even(b) /\ Odd(r[x]) \in 0 .. Even(b)
    BY <2>1, EvenOdd
  <2>3. Even(b) \in Nat
    BY EvenOdd
  <2>4. \A x \in 0 .. h - 1 : (IF x = nn THEN Odd(r[m]) ELSE Even(r[x])) \in 0 .. Even(b)
    BY <2>2
  <2> QED
    BY <2>3, <2>4, Zenon
<1>3. /\ q[nn] = Odd(r[m])
      /\ \A x \in 0 .. h - 1 : x # nn => q[x] = Even(r[x])
      /\ \A x \in 0 .. h - 1 : r[x] \in Nat
  BY <1>1
<1> HIDE DEF q
<1>4. \A x \in 0 .. h - 1 : g[x].next = nn => x = at
  BY NilApart DEF OnePred
<1>5. \A x \in 0 .. h - 1 : g[x].next # Nil => g[x].next \in 0 .. h - 1 /\ r[g[x].next] < r[x]
  BY <1>1, SlotOf DEF Ranked
<1>6. Ranked(g2, h, q)
  <2> SUFFICES ASSUME NEW x \in 0 .. h - 1, g2[x].next # Nil
               PROVE  q[g2[x].next] < q[x]
    BY DEF Ranked
  <2>0. nn # Nil
    BY NilApart
  <2>1. CASE x = at
    <3>1. g[nn].next \in 0 .. h - 1 /\ r[g[nn].next] < r[nn] /\ r[nn] < r[at] /\ g[nn].next # nn
      BY <1>4, <1>5, <2>0, <2>1 DEF MovedBehind
    <3>2. /\ q[g[nn].next] = Even(r[g[nn].next]) /\ q[at] = Even(r[at])
          /\ r[g[nn].next] \in Nat /\ r[nn] \in Nat /\ r[at] \in Nat
      BY <1>3, <3>1
    <3>3. r[g[nn].next] < r[at]
      BY <3>1, <3>2
    <3>4. Even(r[g[nn].next]) < Even(r[at])
      BY <3>2, <3>3, EvenOdd
    <3>5. q[g[nn].next] < q[at]
      BY <3>2, <3>4
    <3> QED
      BY <2>1, <3>5 DEF MovedBehind
  <2>2. CASE x = nn
    <3>1. g[m].next \in 0 .. h - 1 /\ r[g[m].next] < r[m] /\ g[m].next # nn
      BY <1>4, <1>5, <2>2 DEF MovedBehind
    <3>2. q[g[m].next] = Even(r[g[m].next]) /\ r[g[m].next] \in Nat /\ r[m] \in Nat
      BY <1>3, <3>1
    <3>3. Even(r[g[m].next]) < Odd(r[m])
      BY <3>1, <3>2, EvenOdd
    <3>4. q[g[m].next] < q[nn]
      BY <1>3, <3>2, <3>3
    <3> QED
      BY <2>2, <3>4 DEF MovedBehind
  <2>3. CASE x = m
    <3>1. q[m] = Even(r[m]) /\ r[m] \in Nat
      BY <1>3
    <3>2. q[nn] < q[m]
      BY <1>3, <3>1, EvenOdd
    <3> QED
      BY <2>3, <3>2 DEF MovedBehind
  <2>4. CASE x \notin {at, nn, m}
    <3>1. g2[x].next = g[x].next
      BY <2>4 DEF MovedBehind
    <3>2. g[x].next \in 0 .. h - 1 /\ r[g[x].next] < r[x] /\ g[x].next # nn
      BY <1>4, <1>5, <2>4, <3>1
    <3>3. /\ q[g[x].next] = Even(r[g[x].next]) /\ q[x] = Even(r[x])
          /\ r[g[x].next] \in Nat /\ r[x] \in Nat
      BY <1>3, <2>4, <3>2
    <3>4. q[g[x].next] < q[x]
      BY <3>2, <3>3, EvenOdd, ZenonT(40)
    <3> QED
      BY <3>1, <3>4
  <2> QED
    BY <2>1, <2>2, <2>3, <2>4
<1> QED
  BY <1>2, <1>6 DEF Ends

\* The first node of Q goes behind its home, which is not in Q.
LEMMA RechainMove ==
  ASSUME KeyAssumption, NEW h \in Nat, NEW K \in SUBSET Keys, NEW g, Frame(g, h, K),
         NEW Q, NEW at, Entry(g, h, at, Q), Outside(g, h, Q), Inside(g, h, Q), Homes(g, h),
         NEW nn, nn = g[at].next, nn # Nil, g[nn].val # Nil,
         NEW m \in 0 .. h - 1, m = Home(h, g[nn].key), m \notin {at, nn},
         NEW g2, MovedBehind(g, g2, h, at, nn, m)
  PROVE  /\ Frame(g2, h, K) /\ Entry(g2, h, at, Q \ {nn})
         /\ Outside(g2, h, Q \ {nn}) /\ Inside(g2, h, Q \ {nn}) /\ Homes(g2, h)
<1>1. nn \in Q /\ nn \in 0 .. h - 1 /\ Nil \notin 0 .. h - 1 /\ at \notin Q /\ at \in 0 .. h - 1
      /\ at # nn
  BY NilApart DEF Entry
<1>2. g \in Hashes(h) /\ Ends(g, h) /\ OnePred(g, h)
  BY DEF Frame
<1>3. \A x \in 0 .. h - 1 : g[x].next = nn => x = at
  BY <1>1, <1>2 DEF OnePred
<1>4. \A x \in Q : g[x].next # nn
  BY <1>1, <1>3 DEF Entry
<1>5. m \notin Q
  <2> SUFFICES ASSUME m \in Q
               PROVE  FALSE
    OBVIOUS
  <2>1. PICK S \in SUBSET Q : Way(g, m, nn, S)
    BY <1>1 DEF Inside, ReachedIn
  <2>2. S \in SUBSET (0 .. h - 1)
    BY DEF Entry
  <2>3. \E x \in S : g[x].next = nn
    BY <1>1, <1>2, <2>1, <2>2, WayEnds
  <2> QED
    BY <1>4, <2>1, <2>3
<1>6. /\ g2 \in Hashes(h)
      /\ g2[at].next = g[nn].next /\ g2[nn].next = g[m].next /\ g2[m].next = nn
      /\ \A x \in 0 .. h - 1 : x \notin {at, nn, m} => g2[x].next = g[x].next
      /\ \A x \in 0 .. h - 1 : g2[x].key = g[x].key /\ g2[x].val = g[x].val
  BY DEF MovedBehind
<1>7. Frame(g2, h, K)
  <2>1. Ends(g2, h)
    BY <1>1, <1>2, MovedEnds
  <2>2. OnePred(g2, h)
    <3> SUFFICES ASSUME NEW x \in 0 .. h - 1, NEW y \in 0 .. h - 1,
                        g2[x].next # Nil, g2[x].next = g2[y].next
                 PROVE  x = y
      BY DEF OnePred
    <3> DEFINE o(z) == IF z = at THEN nn ELSE IF z = nn THEN m ELSE IF z = m THEN at ELSE z
    <3>1. \A z \in 0 .. h - 1 : o(z) \in 0 .. h - 1 /\ g2[z].next = g[o(z)].next
      BY <1>1, <1>6
    <3>2. o(x) = o(y)
      <4> DEFINE i == o(x)
                 j == o(y)
      <4>1. i \in 0 .. h - 1 /\ j \in 0 .. h - 1 /\ g[i].next # Nil /\ g[i].next = g[j].next
        BY <3>1
      <4>2. OnePred(g, h)
        BY <1>2 DEF Frame
      <4> HIDE DEF i, j
      <4>3. i = j
        BY <4>1, <4>2 DEF OnePred
      <4> QED
        BY <4>3 DEF i, j
    <3> QED
      BY <1>1, <3>2
  <2>3. Linked(g2, h)
    <3> SUFFICES ASSUME NEW x \in 0 .. h - 1, g2[x].next # Nil
                 PROVE  g2[g2[x].next].key # Nil
      BY DEF Linked
    <3>1. \A y \in 0 .. h - 1 : g[y].next # Nil => g[y].next \in 0 .. h - 1 /\ g[g[y].next].key # Nil
      BY <1>2, SlotOf DEF Frame, Linked
    <3>2. \E y \in 0 .. h - 1 : g2[x].next = g[y].next
      BY <1>1, <1>6
    <3> QED
      BY <1>6, <3>1, <3>2
  <2>4. g[m].key # Nil
    BY <1>1 DEF Homes
  <2>5. g[at].key # Nil /\ g[nn].key # Nil
    BY <1>1 DEF Frame, Blank
  <2>6. Blank(g2, h)
    BY <1>6, <2>4, <2>5 DEF Frame, Blank
  <2>7. Own(g2, h, K) /\ Distinct(g2, h)
    BY <1>6 DEF Frame, Own, Distinct
  <2> QED
    BY <1>6, <2>1, <2>2, <2>3, <2>6, <2>7 DEF Frame
<1>8. \A x \in Q \ {nn} : g2[x].next = g[x].next
  BY <1>1, <1>5, <1>6 DEF Entry
<1>9. g[nn].next # nn
  BY <1>1, <1>3
<1>10. Entry(g2, h, at, Q \ {nn})
  <2>1. Q \ {nn} \in SUBSET (0 .. h - 1) /\ at \in (0 .. h - 1) \ (Q \ {nn})
    BY <1>1 DEF Entry
  <2>2. Shut(g2, Q \ {nn})
    BY <1>4, <1>8 DEF Entry, Shut
  <2>3. g2[at].next \in (Q \ {nn}) \cup {Nil}
    BY <1>1, <1>6, <1>9 DEF Entry, Shut
  <2>4. \A x \in (0 .. h - 1) \ (Q \ {nn}) : g2[x].next \in Q \ {nn} => x = at
    BY <1>1, <1>5, <1>6 DEF Entry
  <2>5. \A q \in Q \ {nn} : q # g2[at].next => \E x \in Q \ {nn} : g2[x].next = q
    <3> SUFFICES ASSUME NEW q \in Q \ {nn}, q # g[nn].next
                 PROVE  \E x \in Q \ {nn} : g2[x].next = q
      BY <1>6
    <3>1. PICK x \in Q : g[x].next = q
      BY DEF Entry
    <3> QED
      BY <1>8, <3>1
  <2> QED
    BY <2>1, <2>2, <2>3, <2>4, <2>5 DEF Entry
<1>11. Outside(g2, h, Q \ {nn})
  <2> SUFFICES ASSUME NEW p \in (0 .. h - 1) \ (Q \ {nn}), g2[p].val # Nil
               PROVE  Reached(g2, h, p)
    BY DEF Outside
  <2>1. CASE p = nn
    <3>1. Way(g2, m, nn, {m})
      BY <1>6 DEF Way
    <3>2. g2[nn].key = g[nn].key /\ g2[m].key # g[nn].key
      BY <1>1, <1>6 DEF Homes
    <3> QED
      BY <2>1, <3>1, <3>2 DEF Reached
  <2>2. CASE p # nn
    <3>1. p \notin Q /\ g[p].val # Nil /\ g2[p].key = g[p].key
      BY <1>6, <2>2
    <3>2. PICK S \in SUBSET (0 .. h - 1) :
            Way(g, Home(h, g[p].key), p, S) /\ \A x \in S : g[x].key # g[p].key
      BY <3>1 DEF Outside, Reached
    <3>3. p \notin S /\ Home(h, g[p].key) \in S \cup {p} /\ \A x \in S : g[x].next \in S \cup {p}
      BY <3>2 DEF Way
    <3>4. S \cap Q = {}
      <4>1. Q \in SUBSET (0 .. h - 1) /\ Shut(g, Q)
        BY DEF Entry
      <4> QED
        BY <1>2, <3>1, <3>2, <4>1, WayOutside
    <3>5. nn \notin S /\ at \notin S
      BY <1>1, <3>3, <3>4, <2>2
    <3>6. CASE m \in S
      <4>1. Way(g2, Home(h, g[p].key), p, S \cup {nn})
        <5>1. \A x \in S : x # m => g2[x].next = g[x].next
          BY <1>6, <3>5
        <5>2. g2[m].next = nn /\ g2[nn].next = g[m].next
          BY <1>6
        <5> QED
          BY <2>2, <3>3, <3>6, <5>1, <5>2 DEF Way
      <4>2. \A x \in S \cup {nn} : g2[x].key # g[p].key
        <5>1. g[nn].key # g[p].key
          BY <1>1, <2>2, <3>1 DEF Frame, Distinct
        <5> QED
          BY <1>1, <1>6, <3>2, <5>1
      <4>3. S \cup {nn} \in SUBSET (0 .. h - 1)
        BY <1>1
      <4> QED
        BY <3>1, <4>1, <4>2, <4>3 DEF Reached
    <3>7. CASE m \notin S
      <4>1. \A x \in S : g2[x].next = g[x].next
        BY <1>6, <3>5, <3>7
      <4>2. Way(g2, Home(h, g[p].key), p, S)
        BY <3>3, <4>1 DEF Way
      <4>3. \A x \in S : g2[x].key # g[p].key
        BY <1>6, <3>2
      <4> QED
        BY <3>1, <4>2, <4>3 DEF Reached
    <3> QED
      BY <3>6, <3>7
  <2> QED
    BY <2>1, <2>2
<1>12. Inside(g2, h, Q \ {nn})
  <2> SUFFICES ASSUME NEW q \in Q \ {nn}, g2[q].val # Nil, Home(h, g2[q].key) \in Q \ {nn}
               PROVE  ReachedIn(g2, h, q, Q \ {nn})
    BY DEF Inside
  <2>0. q \in 0 .. h - 1 /\ g2[q].key = g[q].key /\ g[q].val # Nil
    BY <1>6 DEF Entry
  <2>1. PICK S \in SUBSET Q : Way(g, Home(h, g[q].key), q, S) /\ \A x \in S : g[x].key # g[q].key
    BY <2>0 DEF Inside, ReachedIn
  <2>2. Way(g2, Home(h, g[q].key), q, S \ {nn})
    BY <1>4, <1>8, <2>0, <2>1 DEF Way
  <2>3. S \ {nn} \in SUBSET (Q \ {nn})
    OBVIOUS
  <2>4. \A x \in S \ {nn} : g2[x].key # g[q].key
    BY <1>6, <2>1 DEF Entry
  <2> QED
    BY <2>0, <2>2, <2>3, <2>4 DEF ReachedIn
<1>13. Homes(g2, h)
  <2> SUFFICES ASSUME NEW p \in 0 .. h - 1, g2[p].val # Nil, Home(h, g2[p].key) # p
               PROVE  g2[Home(h, g2[p].key)].key \notin {Nil, g2[p].key}
    BY DEF Homes
  <2>1. g2[p].key = g[p].key /\ g[p].val # Nil /\ g[p].key \in Keys
    BY <1>6 DEF Frame, Own
  <2>2. Home(h, g[p].key) \in 0 .. h - 1
    <3>1. h # 0
      OBVIOUS
    <3> QED
      BY <2>1, <3>1, HomeType
  <2> QED
    BY <1>6, <2>1, <2>2 DEF Homes
<1> QED
  BY <1>1, <1>5, <1>7, <1>10, <1>11, <1>12, <1>13

\* The nodes behind n.
LEMMA NodesBehind ==
  ASSUME KeyAssumption, NEW h \in Nat, NEW g \in Hashes(h), Ends(g, h), OnePred(g, h),
         NEW n \in 0 .. h - 1
  PROVE  \E Q : Entry(g, h, n, Q)
<1> DEFINE Start(C) == C \in SUBSET (0 .. h - 1) /\ Shut(g, C)
                       /\ (g[n].next # Nil => g[n].next \in C)
           Q == {x \in 0 .. h - 1 : g[n].next # Nil /\ \A C \in SUBSET (0 .. h - 1) : Start(C) => x \in C}
<1>0. Nil \notin 0 .. h - 1 /\ \A x \in 0 .. h - 1 : g[x].next \in (0 .. h - 1) \cup {Nil}
  BY NilApart, SlotOf
<1>1. \A C : Start(C) => Q \subseteq C
  OBVIOUS
<1>2. g[n].next # Nil => g[n].next \in Q
  BY <1>0
<1>3. Q \in SUBSET (0 .. h - 1)
  OBVIOUS
<1>4. Shut(g, Q)
  <2> SUFFICES ASSUME NEW x \in Q, g[x].next # Nil
               PROVE  g[x].next \in Q
    BY DEF Shut
  <2>1. g[x].next \in 0 .. h - 1
    BY <1>0
  <2>2. ASSUME NEW C \in SUBSET (0 .. h - 1), Start(C)
        PROVE  g[x].next \in C
    BY <2>2 DEF Shut
  <2> QED
    BY <2>1, <2>2
<1>5. n \notin Q
  <2>0. PICK b \in Nat : \E r \in [0 .. h - 1 -> 0 .. b] : Ranked(g, h, r)
    BY DEF Ends
  <2>1. PICK r \in [0 .. h - 1 -> 0 .. b] : Ranked(g, h, r)
    BY <2>0
  <2> DEFINE C == {x \in 0 .. h - 1 : r[x] < r[n]}
  <2>2. n \notin C
    OBVIOUS
  <2>3. C \in SUBSET (0 .. h - 1)
    OBVIOUS
  <2>4. ASSUME NEW x \in 0 .. h - 1, g[x].next # Nil
        PROVE  g[x].next \in 0 .. h - 1 /\ r[g[x].next] < r[x]
    BY <1>0, <2>1, <2>4 DEF Ranked
  <2>5. \A x \in 0 .. h - 1 : r[x] \in Nat
    BY <2>1
  <2>6. Shut(g, C)
    <3> SUFFICES ASSUME NEW x \in C, g[x].next # Nil
                 PROVE  g[x].next \in C
      BY DEF Shut
    <3>1. x \in 0 .. h - 1 /\ r[x] < r[n]
      OBVIOUS
    <3>2. g[x].next \in 0 .. h - 1 /\ r[g[x].next] < r[x]
      BY <2>4, <3>1
    <3>3. r[g[x].next] < r[n]
      BY <2>5, <3>1, <3>2
    <3> QED
      BY <3>2, <3>3
  <2>7. g[n].next # Nil => g[n].next \in C
    BY <2>4
  <2> HIDE DEF C, Q
  <2> QED
    BY <1>1, <2>2, <2>3, <2>6, <2>7
<1>6. \A q \in Q : q # g[n].next => \E x \in Q : g[x].next = q
  <2> SUFFICES ASSUME NEW q \in Q, q # g[n].next, \A x \in Q : g[x].next # q
               PROVE  FALSE
    OBVIOUS
  <2> HIDE DEF Q
  <2>1. Q \ {q} \in SUBSET (0 .. h - 1)
    BY <1>3
  <2>2. Shut(g, Q \ {q})
    BY <1>4 DEF Shut
  <2>3. g[n].next # Nil => g[n].next \in Q \ {q}
    BY <1>2
  <2>4. Q \subseteq Q \ {q}
    BY <1>1, <2>1, <2>2, <2>3
  <2> QED
    BY <2>4
<1> HIDE DEF Q
<1>7. \A x \in (0 .. h - 1) \ Q : g[x].next \in Q => x = n
  <2> SUFFICES ASSUME NEW x \in (0 .. h - 1) \ Q, g[x].next \in Q
               PROVE  x = n
    OBVIOUS
  <2>1. g[x].next # Nil
    BY <1>0, <1>3
  <2>2. CASE g[x].next = g[n].next
    BY <2>1, <2>2 DEF OnePred
  <2>3. CASE g[x].next # g[n].next
    <3>1. PICK y \in Q : g[y].next = g[x].next
      BY <1>6, <2>3
    <3> QED
      BY <1>3, <2>1, <3>1 DEF OnePred
  <2> QED
    BY <2>2, <2>3
<1>8. g[n].next \in Q \cup {Nil}
  BY <1>2
<1>9. Entry(g, h, n, Q)
  BY <1>3, <1>4, <1>5, <1>6, <1>7, <1>8 DEF Entry
<1> QED
  BY <1>9

\* A node that is found from a home in a set that is not left is found within it.
LEMMA FoundWithin ==
  ASSUME KeyAssumption, NEW h \in Nat, NEW g, NEW Q \in SUBSET (0 .. h - 1), Shut(g, Q),
         NEW q \in Q, Reached(g, h, q), Home(h, g[q].key) \in Q
  PROVE  ReachedIn(g, h, q, Q)
<1>1. PICK S \in SUBSET (0 .. h - 1) :
        Way(g, Home(h, g[q].key), q, S) /\ \A x \in S : g[x].key # g[q].key
  BY DEF Reached
<1>2. Nil \notin S \cup {q}
  BY NilApart
<1>3. Way(g, Home(h, g[q].key), q, S \cap Q)
  BY <1>1, <1>2 DEF Way, Shut
<1>4. S \cap Q \in SUBSET Q
  OBVIOUS
<1> QED
  BY <1>1, <1>3, <1>4 DEF ReachedIn

\* Node n has moved to node f, which takes its place in the chain.
MadeWay(g, g1, h, pred, f, n) ==
  /\ g1 \in Hashes(h)
  /\ g1[f].key = g[n].key /\ g1[f].val = g[n].val /\ g1[f].next = g[n].next
  /\ g1[n].key = g[n].key /\ g1[n].val = Nil /\ g1[n].next = Nil
  /\ g1[pred].key = g[pred].key /\ g1[pred].val = g[pred].val /\ g1[pred].next = f
  /\ \A x \in 0 .. h - 1 : x \notin {f, n, pred} => g1[x] = g[x]

\* A node that makes way leaves no ring.
LEMMA MadeWayEnds ==
  ASSUME KeyAssumption, NEW h \in Nat, NEW g \in Hashes(h), Ends(g, h), OnePred(g, h),
         NEW n \in 0 .. h - 1, NEW f \in 0 .. h - 1, NEW pred \in 0 .. h - 1,
         g[pred].next = n, f \notin {n, pred}, n # pred, \A x \in 0 .. h - 1 : g[x].next # f,
         NEW g1, MadeWay(g, g1, h, pred, f, n)
  PROVE  Ends(g1, h)
<1>0. PICK b \in Nat : \E r \in [0 .. h - 1 -> 0 .. b] : Ranked(g, h, r)
  BY DEF Ends
<1>1. PICK r \in [0 .. h - 1 -> 0 .. b] : Ranked(g, h, r)
  BY <1>0
<1> DEFINE q == [x \in 0 .. h - 1 |-> IF x = f THEN r[n] ELSE r[x]]
<1>2. q \in [0 .. h - 1 -> 0 .. b]
  BY <1>1
<1>3. q[f] = r[n] /\ \A x \in 0 .. h - 1 : x # f => q[x] = r[x]
  BY <1>1
<1> HIDE DEF q
<1>4. n # Nil /\ \A x \in 0 .. h - 1 : g[x].next = n => x = pred
  BY NilApart DEF OnePred
<1>5. \A x \in 0 .. h - 1 : g[x].next # Nil => g[x].next \in 0 .. h - 1 /\ r[g[x].next] < r[x]
  BY <1>1, SlotOf DEF Ranked
<1>6. Ranked(g1, h, q)
  <2> SUFFICES ASSUME NEW x \in 0 .. h - 1, g1[x].next # Nil
               PROVE  q[g1[x].next] < q[x]
    BY DEF Ranked
  <2>1. CASE x = f
    <3>1. g[n].next \in 0 .. h - 1 /\ r[g[n].next] < r[n] /\ g[n].next # f
      BY <1>5, <2>1 DEF MadeWay
    <3> QED
      BY <1>3, <2>1, <3>1 DEF MadeWay
  <2>2. CASE x = pred
    <3>1. r[n] < r[pred]
      BY <1>4, <1>5
    <3> QED
      BY <1>3, <2>2, <3>1 DEF MadeWay
  <2>3. CASE x \notin {f, pred}
    <3>1. x # n /\ g1[x].next = g[x].next
      BY <2>3 DEF MadeWay
    <3>2. g[x].next \in 0 .. h - 1 /\ r[g[x].next] < r[x] /\ g[x].next # f
      BY <1>5, <3>1
    <3> QED
      BY <1>3, <2>3, <3>1, <3>2
  <2> QED
    BY <2>1, <2>2, <2>3
<1> QED
  BY <1>2, <1>6 DEF Ends

\* A node that collides away from its home makes way: all keys are found then but
\* those whose home it was in, which are behind it.
LEMMA MakeWay ==
  ASSUME KeyAssumption, NEW h \in Nat, NEW K \in SUBSET Keys, NEW g, Sound(g, h, K),
         NEW n \in 0 .. h - 1, g[n].val # Nil, Home(h, g[n].key) # n,
         NEW f \in 0 .. h - 1, g[f].key = Nil, NEW pred \in 0 .. h - 1, g[pred].next = n,
         NEW g1, MadeWay(g, g1, h, pred, f, n)
  PROVE  /\ Frame(g1, h, K) /\ Homes(g1, h)
         /\ \A p \in 0 .. h - 1 : g1[p].val # Nil /\ Home(h, g1[p].key) # n => Reached(g1, h, p)
         /\ \E Q : n \notin Q /\ Entry(g1, h, f, Q) /\ Outside(g1, h, Q) /\ Inside(g1, h, Q)
<1>0. Frame(g, h, K) /\ g \in Hashes(h) /\ Ends(g, h) /\ OnePred(g, h) /\ Nil \notin 0 .. h - 1
  BY NilApart DEF Sound, Frame
<1>1. g[f].next = Nil /\ g[f].val = Nil /\ f # n
  BY <1>0 DEF Frame, Blank
<1>2. \A x \in 0 .. h - 1 : g[x].next # f
  BY <1>0 DEF Frame, Linked
<1>3. \A x \in 0 .. h - 1 : g[x].next = n => x = pred
  BY <1>0 DEF OnePred
<1>4. pred # f
  BY <1>0, <1>1
<1>5. \A x \in 0 .. h - 1 : g[x].next # x
  <2> SUFFICES ASSUME NEW x \in 0 .. h - 1, g[x].next = x
               PROVE  FALSE
    OBVIOUS
  <2>1. {x} \in SUBSET (0 .. h - 1) /\ Nil \notin {x} /\ {x} # {}
    BY <1>0
  <2>2. \E y \in {x} : g[y].next \notin {x}
    BY <1>0, <2>1, LeadsOut
  <2> QED
    BY <2>2
<1>6. n # pred
  BY <1>5
<1>7. /\ g1 \in Hashes(h)
      /\ g1[f].key = g[n].key /\ g1[f].val = g[n].val /\ g1[f].next = g[n].next
      /\ g1[n].key = g[n].key /\ g1[n].val = Nil /\ g1[n].next = Nil
      /\ g1[pred].key = g[pred].key /\ g1[pred].val = g[pred].val /\ g1[pred].next = f
      /\ \A x \in 0 .. h - 1 : x \notin {f, n, pred} => g1[x] = g[x]
  BY DEF MadeWay
<1>8. \A x \in 0 .. h - 1 : x \notin {f, n} => g1[x].key = g[x].key /\ g1[x].val = g[x].val
  BY <1>7
<1>9. \A x \in 0 .. h - 1 : x \notin {f, n, pred} => g1[x].next = g[x].next
  BY <1>7
<1>10. g[n].key # Nil /\ \A x \in 0 .. h - 1 : g[x].next # Nil =>
         g[x].next \in 0 .. h - 1 /\ g[g[x].next].key # Nil
  BY <1>0, SlotOf DEF Frame, Linked, Blank
<1>11. Frame(g1, h, K)
  <2>1. Ends(g1, h)
    BY <1>0, <1>1, <1>2, <1>4, <1>6, MadeWayEnds
  <2>2. OnePred(g1, h)
    <3> SUFFICES ASSUME NEW x \in 0 .. h - 1, NEW y \in 0 .. h - 1,
                        g1[x].next # Nil, g1[x].next = g1[y].next
                 PROVE  x = y
      BY DEF OnePred
    <3>1. CASE x = pred \/ y = pred
      BY <1>0, <1>2, <1>7, <1>9, <3>1
    <3>2. CASE x # pred /\ y # pred
      <4>1. x # n /\ y # n
        BY <1>7
      <4> DEFINE o(z) == IF z = f THEN n ELSE z
      <4>2. o(x) = o(y)
        BY <1>0, <1>7, <1>9, <3>2, <4>1 DEF OnePred
      <4> QED
        BY <4>1, <4>2
    <3> QED
      BY <3>1, <3>2
  <2>3. Linked(g1, h)
    <3> SUFFICES ASSUME NEW x \in 0 .. h - 1, g1[x].next # Nil
                 PROVE  g1[g1[x].next].key # Nil
      BY DEF Linked
    <3>1. \A y \in 0 .. h - 1 : g[y].key # Nil => g1[y].key # Nil
      BY <1>7, <1>8, <1>10
    <3>2. g1[x].next = f \/ \E y \in 0 .. h - 1 : g1[x].next = g[y].next
      BY <1>7, <1>9
    <3> QED
      BY <1>7, <1>10, <3>1, <3>2
  <2>4. Blank(g1, h)
    BY <1>0, <1>7, <1>8, <1>9, <1>10 DEF Frame, Blank
  <2>5. Own(g1, h, K)
    BY <1>0, <1>7, <1>8 DEF Frame, Own
  <2>6. Distinct(g1, h)
    BY <1>0, <1>1, <1>7, <1>8 DEF Frame, Distinct
  <2> QED
    BY <1>7, <2>1, <2>2, <2>3, <2>4, <2>5, <2>6 DEF Frame
\* The node of g that has become node p.
<1> DEFINE o(p) == IF p = f THEN n ELSE p
<1>12. ASSUME NEW p \in 0 .. h - 1, g1[p].val # Nil
       PROVE  /\ o(p) \in 0 .. h - 1 /\ g[o(p)].val # Nil /\ g[o(p)].key = g1[p].key
              /\ Home(h, g1[p].key) \in 0 .. h - 1 /\ p # n
  <2>1. o(p) \in 0 .. h - 1 /\ g[o(p)].val # Nil /\ g[o(p)].key = g1[p].key /\ p # n
    BY <1>7, <1>8, <1>12
  <2>2. g1[p].key \in Keys /\ h # 0
    BY <1>0, <2>1 DEF Frame, Own
  <2> QED
    BY <2>1, <2>2, HomeType
<1>13. Homes(g1, h)
  <2> SUFFICES ASSUME NEW p \in 0 .. h - 1, g1[p].val # Nil, Home(h, g1[p].key) # p
               PROVE  g1[Home(h, g1[p].key)].key \notin {Nil, g1[p].key}
    BY DEF Homes
  <2> DEFINE y == Home(h, g1[p].key)
             k == g1[p].key
  <2>1. o(p) \in 0 .. h - 1 /\ g[o(p)].val # Nil /\ g[o(p)].key = k /\ y \in 0 .. h - 1 /\ p # n
    BY <1>12
  <2>2. CASE y = f
    <3>1. k # g[n].key
      BY <1>0, <2>1, <2>2 DEF Frame, Distinct
    <3> QED
      BY <1>7, <1>10, <2>2, <3>1
  <2>3. CASE y # f
    <3>1. y # o(p)
      BY <2>1
    <3>2. PICK S \in SUBSET (0 .. h - 1) : Way(g, y, o(p), S) /\ \A x \in S : g[x].key # k
      BY <2>1 DEF Sound, Reached
    <3>3. y \in S /\ g[y].next \in S \cup {o(p)}
      BY <3>1, <3>2 DEF Way
    <3>4. g[y].next # Nil
      BY <1>0, <2>1, <3>3
    <3>5. g[y].key # Nil /\ g[y].key # k
      BY <1>0, <2>1, <3>2, <3>3, <3>4 DEF Frame, Blank
    <3>6. g1[y].key = g[y].key
      BY <1>7, <1>8, <2>1, <2>3
    <3> QED
      BY <3>5, <3>6
  <2> QED
    BY <2>2, <2>3
<1>14. ASSUME NEW p \in 0 .. h - 1, g1[p].val # Nil, Home(h, g1[p].key) # n
       PROVE  Reached(g1, h, p)
  <2> DEFINE m == Home(h, g1[p].key)
             k == g1[p].key
  <2>1. o(p) \in 0 .. h - 1 /\ g[o(p)].val # Nil /\ g[o(p)].key = k /\ m \in 0 .. h - 1 /\ p # n
    BY <1>12, <1>14
  <2>2. PICK S \in SUBSET (0 .. h - 1) : Way(g, m, o(p), S) /\ \A x \in S : g[x].key # k
    BY <2>1 DEF Sound, Reached
  <2>3. o(p) \notin S /\ m \in S \cup {o(p)} /\ \A x \in S : g[x].next \in S \cup {o(p)}
    BY <2>2 DEF Way
  <2>4. f \notin S
    BY <1>0, <1>1, <2>1, <2>3
  <2>5. CASE p = f
    <3>1. n \notin S /\ m \in S
      BY <1>14, <2>3, <2>5
    <3>2. \A x \in S : g1[x].next \in S \cup {f}
      BY <1>3, <1>7, <1>9, <2>3, <2>4, <2>5, <3>1
    <3>3. Way(g1, m, f, S)
      BY <2>4, <3>1, <3>2 DEF Way
    <3>4. \A x \in S : g1[x].key # k
      BY <1>8, <2>2, <2>4, <3>1
    <3> QED
      BY <2>5, <3>3, <3>4 DEF Reached
  <2>6. CASE p # f /\ n \in S
    <3> DEFINE T == (S \ {n}) \cup {f}
    <3>1. T \in SUBSET (0 .. h - 1) /\ p \notin T /\ m \in T \cup {p}
      BY <1>14, <2>3, <2>6
    <3>2. ASSUME NEW x \in T
          PROVE  g1[x].next \in T \cup {p}
      <4>1. CASE x = f
        <5>1. g[n].next \in S \cup {p} /\ g[n].next # n
          BY <1>5, <2>3, <2>6
        <5> QED
          BY <1>7, <4>1, <5>1
      <4>2. CASE x = pred
        BY <1>7, <4>2
      <4>3. CASE x \notin {f, pred}
        <5>1. x \in S /\ x # n /\ g[x].next # n
          BY <1>3, <4>3
        <5> QED
          BY <1>9, <2>3, <2>6, <4>3, <5>1
      <4> QED
        BY <4>1, <4>2, <4>3
    <3>3. Way(g1, m, p, T)
      BY <3>1, <3>2 DEF Way
    <3>4. g[n].key # k
      BY <2>2, <2>6
    <3>5. \A x \in T : g1[x].key # k
      BY <1>7, <1>8, <2>2, <2>4, <3>4
    <3> HIDE DEF T
    <3> QED
      BY <3>1, <3>3, <3>5 DEF Reached
  <2>7. CASE p # f /\ n \notin S
    <3>1. \A x \in S : g[x].next # n
      BY <2>1, <2>3, <2>7
    <3>2. pred \notin S
      BY <3>1
    <3>3. \A x \in S : g1[x].next = g[x].next /\ g1[x].key = g[x].key
      BY <1>8, <1>9, <2>4, <2>7, <3>2
    <3>4. Way(g1, m, p, S)
      BY <2>3, <2>7, <3>3 DEF Way
    <3> QED
      BY <2>2, <3>3, <3>4 DEF Reached
  <2> QED
    BY <2>5, <2>6, <2>7
<1>15. PICK Q : Entry(g, h, n, Q)
  BY <1>0, NodesBehind
<1>16. /\ Q \in SUBSET (0 .. h - 1) /\ Shut(g, Q) /\ n \notin Q /\ g[n].next \in Q \cup {Nil}
       /\ \A x \in (0 .. h - 1) \ Q : g[x].next \in Q => x = n
       /\ \A q \in Q : q # g[n].next => \E x \in Q : g[x].next = q
  BY <1>15 DEF Entry
<1>17. f \notin Q /\ pred \notin Q
  <2>1. f \notin Q
    BY <1>2, <1>16
  <2>2. pred \in Q => n \in Q
    BY <1>0, <1>16 DEF Shut
  <2> QED
    BY <1>16, <2>1, <2>2
<1>18. \A x \in Q : g1[x].next = g[x].next
  BY <1>9, <1>16, <1>17
<1>19. Shut(g1, Q)
  BY <1>16, <1>18 DEF Shut
<1>20. Entry(g1, h, f, Q)
  <2>1. \A x \in (0 .. h - 1) \ Q : g1[x].next \in Q => x = f
    <3> SUFFICES ASSUME NEW x \in (0 .. h - 1) \ Q, g1[x].next \in Q, x # f
                 PROVE  FALSE
      OBVIOUS
    <3>1. Nil \notin Q
      BY <1>0, <1>16
    <3>2. x \notin {f, n, pred}
      BY <1>7, <1>17, <3>1
    <3> QED
      BY <1>9, <1>16, <3>2
  <2>2. \A q \in Q : q # g1[f].next => \E x \in Q : g1[x].next = q
    BY <1>7, <1>16, <1>18
  <2> QED
    BY <1>7, <1>16, <1>17, <1>19, <2>1, <2>2 DEF Entry
<1>21. Outside(g1, h, Q)
  <2> SUFFICES ASSUME NEW p \in (0 .. h - 1) \ Q, g1[p].val # Nil, Home(h, g1[p].key) = n
               PROVE  FALSE
    BY <1>14 DEF Outside
  <2>1. o(p) \in 0 .. h - 1 /\ g[o(p)].val # Nil /\ g[o(p)].key = g1[p].key /\ p # n
    BY <1>12
  <2>2. p # f
    BY <1>7
  <2>3. PICK S \in SUBSET (0 .. h - 1) : Way(g, n, p, S)
    BY <2>1, <2>2 DEF Sound, Reached
  <2>4. n \in S /\ g[n].next \in S \cup {p}
    BY <2>1, <2>3 DEF Way
  <2>5. S \cap Q = {}
    BY <1>0, <1>16, <2>3, WayOutside
  <2> QED
    BY <1>0, <1>16, <2>4, <2>5
<1>22. Inside(g1, h, Q)
  <2> SUFFICES ASSUME NEW q \in Q, g1[q].val # Nil, Home(h, g1[q].key) \in Q
               PROVE  ReachedIn(g1, h, q, Q)
    BY DEF Inside
  <2>1. Reached(g1, h, q)
    BY <1>14, <1>16
  <2> QED
    BY <1>16, <1>19, <2>1, FoundWithin
<1> QED
  BY <1>11, <1>13, <1>14, <1>16, <1>20, <1>21, <1>22

\* One round of Rechain.
RechainRound(t, n, r) ==
  LET nn == r.node[r.at].next
      m == Main(t, r.node[nn].key)
  IN  IF nn = Nil THEN r
      ELSE IF r.node[nn].val # Nil /\ IF r.found THEN m \notin {r.at, nn} ELSE m = n
      THEN [r EXCEPT !.node = Rechained(@, r.at, nn, m), !.found = TRUE]
      ELSE [r EXCEPT !.at = nn]

RechainFirst(t, f) == [node |-> t.node, at |-> f, found |-> FALSE]

RechainLoop(R, t, f, n) ==
  R = [i \in 0 .. t.hsize |-> IF i = 0 THEN RechainFirst(t, f) ELSE RechainRound(t, n, R[i - 1])]

RechainRuns(R, t, f, n) == /\ Rechain(t, f, n) = [t EXCEPT !.node = R[t.hsize].node]
                           /\ R[0] = RechainFirst(t, f)
                           /\ \A i \in 1 .. t.hsize : R[i] = RechainRound(t, n, R[i - 1])

\* The rounds of Rechain exist.
LEMMA RechainRounds ==
  ASSUME NEW t, t.hsize \in Nat, NEW f, NEW n
  PROVE  \E R : RechainRuns(R, t, f, n)
<1> DEFINE Part(k) == \E R : R = [i \in 0 .. k |-> IF i = 0 THEN RechainFirst(t, f)
                                                  ELSE RechainRound(t, n, R[i - 1])]
           T == {k \in Nat : Part(k)}
<1>1. 0 \in T
  <2> DEFINE R == [i \in 0 .. 0 |-> RechainFirst(t, f)]
  <2>1. R = [i \in 0 .. 0 |-> IF i = 0 THEN RechainFirst(t, f) ELSE RechainRound(t, n, R[i - 1])]
    OBVIOUS
  <2>2. Part(0)
    BY <2>1
  <2> QED
    BY <2>2
<1>2. ASSUME NEW k \in Nat, k \in T
      PROVE  k + 1 \in T
  <2>1. PICK R : R = [i \in 0 .. k |-> IF i = 0 THEN RechainFirst(t, f)
                                       ELSE RechainRound(t, n, R[i - 1])]
    BY <1>2
  <2> DEFINE V == [i \in 0 .. k + 1 |-> IF i = 0 THEN RechainFirst(t, f)
                                        ELSE RechainRound(t, n, R[i - 1])]
  <2>2. \A i \in 0 .. k : R[i] = IF i = 0 THEN RechainFirst(t, f) ELSE RechainRound(t, n, R[i - 1])
    BY <2>1
  <2>3. \A i \in 0 .. k + 1 : V[i] = IF i = 0 THEN RechainFirst(t, f) ELSE RechainRound(t, n, R[i - 1])
    OBVIOUS
  <2>4. V = [i \in 0 .. k + 1 |-> V[i]]
    OBVIOUS
  <2> HIDE DEF V
  <2>5. \A i \in 0 .. k : V[i] = R[i]
    BY <2>2, <2>3
  <2>6. ASSUME NEW i \in 0 .. k + 1
        PROVE  V[i] = IF i = 0 THEN RechainFirst(t, f) ELSE RechainRound(t, n, V[i - 1])
    <3>1. i # 0 => i - 1 \in 0 .. k
      OBVIOUS
    <3>2. i # 0 => V[i - 1] = R[i - 1]
      BY <2>5, <3>1
    <3> QED
      BY <2>3, <3>2
  <2>7. V = [i \in 0 .. k + 1 |-> IF i = 0 THEN RechainFirst(t, f) ELSE RechainRound(t, n, V[i - 1])]
    BY <2>4, <2>6
  <2>8. Part(k + 1)
    BY <2>7
  <2> HIDE DEF Part
  <2> QED
    BY <2>8
<1>3. Part(t.hsize)
  <2> HIDE DEF T
  <2>1. Nat \subseteq T
    BY <1>1, <1>2, SetInduction
  <2> HIDE DEF Part
  <2> QED
    BY <2>1 DEF T
<1>4. \E R : RechainLoop(R, t, f, n)
  BY <1>3 DEF RechainLoop
<1> DEFINE C == CHOOSE R : RechainLoop(R, t, f, n)
<1>5. RechainLoop(C, t, f, n)
  BY <1>4, Zenon
<1>6. Rechain(t, f, n) = [t EXCEPT !.node = C[t.hsize].node]
  BY DEF Rechain, RechainLoop, RechainRound, RechainFirst
<1> HIDE DEF C
<1>7. C = [i \in 0 .. t.hsize |-> IF i = 0 THEN RechainFirst(t, f) ELSE RechainRound(t, n, C[i - 1])]
  BY <1>5 DEF RechainLoop
<1>8. C[0] = RechainFirst(t, f) /\ \A i \in 1 .. t.hsize : C[i] = RechainRound(t, n, C[i - 1])
  BY <1>7
<1> QED
  BY <1>6, <1>8 DEF RechainRuns

\* Between two rounds: g1 is the hash part before the first, at the node that was
\* passed last, Q the nodes to come, n the node that has become free.
Phase(g1, g, h, K, n, at, found, Q) ==
  /\ Frame(g, h, K) /\ Homes(g, h) /\ Entry(g, h, at, Q) /\ Outside(g, h, Q) /\ Inside(g, h, Q)
  /\ at # n /\ n \notin Q /\ n \in 0 .. h - 1 /\ found \in BOOLEAN
  /\ \A x \in 0 .. h - 1 : g[x].key = g1[x].key /\ g[x].val = g1[x].val
  /\ ~found => \A p \in 0 .. h - 1 : g[p].val # Nil /\ Home(h, g[p].key) # n => Reached(g, h, p)

\* What moving a node behind another one changes.
LEMMA RechainedIs ==
  ASSUME KeyAssumption, NEW h \in Nat, NEW g \in Hashes(h), NEW at \in 0 .. h - 1, NEW nn \in 0 .. h - 1,
         NEW m \in 0 .. h - 1, m \notin {at, nn}, at # nn
  PROVE  MovedBehind(g, Rechained(g, at, nn, m), h, at, nn, m)
<1> DEFINE g2 == Rechained(g, at, nn, m)
<1>1. \A x \in 0 .. h - 1 : g[x] \in [key : Keys \cup {Nil, Stale}, val : Vals \cup {Nil},
                                      next : (0 .. h - 1) \cup {Nil}]
  BY DEF Hashes, Slots
<1>2. DOMAIN g = 0 .. h - 1
  BY DEF Hashes
<1>3. /\ g2[at] = [g[at] EXCEPT !.next = g[nn].next]
      /\ g2[nn] = [g[nn] EXCEPT !.next = g[m].next]
      /\ g2[m] = [g[m] EXCEPT !.next = nn]
      /\ \A x \in 0 .. h - 1 : x \notin {at, nn, m} => g2[x] = g[x]
      /\ g2 = [x \in 0 .. h - 1 |-> g2[x]]
  BY <1>2 DEF Rechained
<1> HIDE DEF g2
<1>4. \A x \in 0 .. h - 1 : g2[x] \in Slots(h)
  BY <1>1, <1>3 DEF Slots
<1>5. g2 \in Hashes(h)
  BY <1>3, <1>4 DEF Hashes
<1>6. \A x \in 0 .. h - 1 : g2[x].key = g[x].key /\ g2[x].val = g[x].val
  BY <1>1, <1>3
<1>7. g2[at].next = g[nn].next /\ g2[nn].next = g[m].next /\ g2[m].next = nn
  BY <1>1, <1>3
<1>8. \A x \in 0 .. h - 1 : x \notin {at, nn, m} => g2[x].next = g[x].next
  BY <1>3
<1>9. MovedBehind(g, g2, h, at, nn, m)
  BY <1>5, <1>6, <1>7, <1>8 DEF MovedBehind
<1> QED
  BY <1>9 DEF g2

\* The next phase; the first node of Q is passed or moved, or no node was left.
NextPhase(t, g1, h, K, n, Q, r, Q2) ==
  /\ \E g, at, found : /\ RechainRound(t, n, r) = [node |-> g, at |-> at, found |-> found]
                       /\ Phase(g1, g, h, K, n, at, found, Q2)
  /\ Q2 # {} => \E nn \in Q : Q2 = Q \ {nn}

\* One round of Rechain: the rest of the chain gets shorter by the node it passed or moved.
LEMMA RechainStep ==
  ASSUME KeyAssumption, NEW t, NEW h \in Nat, t.hsize = h, NEW K \in SUBSET Keys, NEW n,
         NEW g1, NEW g, NEW at, NEW found, NEW Q, Phase(g1, g, h, K, n, at, found, Q),
         NEW r, r = [node |-> g, at |-> at, found |-> found]
  PROVE  \E Q2 : NextPhase(t, g1, h, K, n, Q, r, Q2)
<1> DEFINE nn == g[at].next
           m == Home(h, g[nn].key)
           Cond == g[nn].val # Nil /\ IF found THEN m \notin {at, nn} ELSE m = n
<1>1. RechainRound(t, n, r) =
        IF nn = Nil THEN r
        ELSE IF Cond THEN [node |-> Rechained(g, at, nn, m), at |-> at, found |-> TRUE]
        ELSE [node |-> g, at |-> nn, found |-> found]
  <2>1. r.node = g /\ r.at = at /\ r.found = found
    OBVIOUS
  <2>2. \A x : [r EXCEPT !.node = x, !.found = TRUE] = [node |-> x, at |-> at, found |-> TRUE]
    <3>1. \A x, y, z : [[node |-> x, at |-> at, found |-> z] EXCEPT !.found = y]
                         = [node |-> x, at |-> at, found |-> y]
      OBVIOUS
    <3>2. \A x : [r EXCEPT !.node = x] = [node |-> x, at |-> at, found |-> found]
      OBVIOUS
    <3>3. ASSUME NEW x
          PROVE  [[r EXCEPT !.node = x] EXCEPT !.found = TRUE] = [node |-> x, at |-> at, found |-> TRUE]
      BY <3>1, <3>2, Zenon
    <3> QED
      BY <3>3, Zenon
  <2>3. \A x : [r EXCEPT !.at = x] = [node |-> g, at |-> x, found |-> found]
    OBVIOUS
  <2>4. RechainRound(t, n, r) =
          IF r.node[r.at].next = Nil THEN r
          ELSE IF /\ r.node[r.node[r.at].next].val # Nil
                  /\ IF r.found THEN Main(t, r.node[r.node[r.at].next].key) \notin {r.at, r.node[r.at].next}
                     ELSE Main(t, r.node[r.node[r.at].next].key) = n
          THEN [r EXCEPT !.node = Rechained(r.node, r.at, r.node[r.at].next, Main(t, r.node[r.node[r.at].next].key)),
                         !.found = TRUE]
          ELSE [r EXCEPT !.at = r.node[r.at].next]
    BY Zenon DEF RechainRound
  <2>5. Main(t, g[nn].key) = m
    BY DEF Main, Home
  <2> HIDE DEF m
  <2> QED
    BY <2>1, <2>2, <2>3, <2>4, <2>5, Zenon
<1>2. /\ Frame(g, h, K) /\ Homes(g, h) /\ Entry(g, h, at, Q) /\ Outside(g, h, Q) /\ Inside(g, h, Q)
      /\ at # n /\ n \notin Q /\ n \in 0 .. h - 1 /\ found \in BOOLEAN
      /\ \A x \in 0 .. h - 1 : g[x].key = g1[x].key /\ g[x].val = g1[x].val
      /\ ~found => \A p \in 0 .. h - 1 : g[p].val # Nil /\ Home(h, g[p].key) # n => Reached(g, h, p)
  BY DEF Phase
<1>20. /\ Frame(g, h, K) /\ Homes(g, h) /\ Entry(g, h, at, Q) /\ Outside(g, h, Q) /\ Inside(g, h, Q)
  BY <1>2, Zenon
<1>3. g \in Hashes(h) /\ Ends(g, h) /\ at \in 0 .. h - 1 /\ at \notin Q /\ Q \in SUBSET (0 .. h - 1)
      /\ Nil \notin 0 .. h - 1
  BY <1>2, NilApart DEF Frame, Entry
<1>4. CASE nn = Nil
  <2>1. Q = {}
    <3> SUFFICES ASSUME Q # {}
                 PROVE  FALSE
      OBVIOUS
    <3>1. Nil \notin Q
      BY <1>3
    <3>2. \E q \in Q : \A x \in Q : g[x].next # q
      BY <1>3, <3>1, LeadsOut
    <3> QED
      BY <1>2, <1>4, <3>1, <3>2 DEF Entry
  <2>2. RechainRound(t, n, r) = [node |-> g, at |-> at, found |-> found]
    BY <1>1, <1>4
  <2> QED
    BY <2>1, <2>2 DEF NextPhase
<1>5. CASE nn # Nil
  <2>1. nn \in Q /\ nn \in 0 .. h - 1 /\ nn # at /\ nn # n
    BY <1>2, <1>3, <1>5 DEF Entry
  <2>2. g[nn].val # Nil => m \in 0 .. h - 1
    <3>1. g[nn].val # Nil => g[nn].key \in Keys
      BY <1>2, <2>1 DEF Frame, Own
    <3> QED
      BY <2>1, <3>1, HomeType
  <2>3. CASE Cond
    <3> DEFINE g2 == Rechained(g, at, nn, m)
    <3>1. m \in 0 .. h - 1 /\ m \notin {at, nn} /\ g[nn].val # Nil
      BY <1>2, <2>1, <2>2, <2>3
    <3>2. MovedBehind(g, g2, h, at, nn, m)
      BY <1>3, <2>1, <3>1, RechainedIs
    <3>3. RechainRound(t, n, r) = [node |-> g2, at |-> at, found |-> TRUE]
      BY <1>1, <1>5, <2>3
    <3> HIDE DEF g2, nn, m, Cond
    <3>4. nn = g[at].next /\ m = Home(h, g[nn].key)
      BY DEF nn, m
    <3>5. /\ Frame(g2, h, K) /\ Entry(g2, h, at, Q \ {nn})
          /\ Outside(g2, h, Q \ {nn}) /\ Inside(g2, h, Q \ {nn}) /\ Homes(g2, h)
      BY <1>20, <1>5, <3>1, <3>2, <3>4, RechainMove
    <3>6. \A x \in 0 .. h - 1 : g2[x].key = g1[x].key /\ g2[x].val = g1[x].val
      BY <1>2, <3>2 DEF MovedBehind
    <3>7. Phase(g1, g2, h, K, n, at, TRUE, Q \ {nn})
      BY <1>2, <3>5, <3>6 DEF Phase
    <3> QED
      BY <2>1, <3>3, <3>7 DEF NextPhase
  <2>4. CASE ~Cond
    <3>1. RechainRound(t, n, r) = [node |-> g, at |-> nn, found |-> found]
      BY <1>1, <1>5, <2>4
    <3>2. g[nn].val # Nil => Reached(g, h, nn)
      <4> SUFFICES ASSUME g[nn].val # Nil
                   PROVE  Reached(g, h, nn)
        OBVIOUS
      <4>1. CASE ~found
        BY <1>2, <2>1, <2>4, <4>1
      <4>2. CASE found /\ m = nn
        <5>1. Way(g, m, nn, {})
          BY <4>2 DEF Way
        <5> QED
          BY <5>1 DEF Reached
      <4>3. CASE found /\ m = at
        <5>1. Way(g, m, nn, {at})
          BY <2>1, <4>3 DEF Way
        <5>2. g[at].key # g[nn].key
          BY <1>2, <2>1, <4>3 DEF Homes
        <5> QED
          BY <1>3, <5>1, <5>2 DEF Reached
      <4> QED
        BY <1>2, <2>4, <4>1, <4>2, <4>3
    <3> HIDE DEF nn, m, Cond
    <3>3. nn = g[at].next
      BY DEF nn
    <3>4. Entry(g, h, nn, Q \ {nn}) /\ Outside(g, h, Q \ {nn}) /\ Inside(g, h, Q \ {nn})
      BY <1>20, <1>5, <3>2, <3>3, RechainPass
    <3>5. Phase(g1, g, h, K, n, nn, found, Q \ {nn})
      BY <1>2, <2>1, <3>4 DEF Phase
    <3> QED
      BY <2>1, <3>1, <3>5 DEF NextPhase
  <2> QED
    BY <2>3, <2>4
<1> QED
  BY <1>4, <1>5

\* Behind a free node all keys are found again.
RechainDone(t, f, n, h, K, g) ==
  /\ Rechain(t, f, n) = [t EXCEPT !.node = g]
  /\ Sound(g, h, K)
  /\ \A x \in 0 .. h - 1 : g[x].key = t.node[x].key /\ g[x].val = t.node[x].val

\* All rounds: no node is left, so every key is found from its home.
LEMMA RechainFinds ==
  ASSUME KeyAssumption, NEW t, NEW h \in Nat, t.hsize = h, NEW K \in SUBSET Keys,
         NEW f, NEW n, NEW Q0, Phase(t.node, t.node, h, K, n, f, FALSE, Q0)
  PROVE  \E g : RechainDone(t, f, n, h, K, g)
<1>0. t.hsize \in Nat
  OBVIOUS
<1>01. PICK R : RechainRuns(R, t, f, n)
  BY <1>0, RechainRounds
<1>1. /\ Rechain(t, f, n) = [t EXCEPT !.node = R[t.hsize].node]
      /\ R[0] = RechainFirst(t, f)
      /\ \A i \in 1 .. t.hsize : R[i] = RechainRound(t, n, R[i - 1])
  BY <1>01 DEF RechainRuns
<1> DEFINE State(i, g, at, found, Q) ==
             /\ R[i] = [node |-> g, at |-> at, found |-> found]
             /\ Phase(t.node, g, h, K, n, at, found, Q)
             /\ IsFiniteSet(Q) /\ Cardinality(Q) \in Nat /\ Cardinality(Q) <= h - i
           Done(i) == \E g, at, found, Q : State(i, g, at, found, Q)
           T == {i \in Nat : i <= h => Done(i)}
<1>2. 0 \in T
  <2>1. R[0] = [node |-> t.node, at |-> f, found |-> FALSE]
    BY <1>1 DEF RechainFirst
  <2>2. Q0 \in SUBSET (0 .. h - 1)
    BY DEF Phase, Entry
  <2>3. IsFiniteSet(0 .. h - 1) /\ Cardinality(0 .. h - 1) = h
    BY FS_Interval
  <2>40. IsFiniteSet(Q0) /\ Cardinality(Q0) <= Cardinality(0 .. h - 1)
    BY <2>2, <2>3, FS_Subset, Zenon
  <2>4. IsFiniteSet(Q0) /\ Cardinality(Q0) <= h
    BY <2>3, <2>40, Zenon
  <2>5. Cardinality(Q0) \in Nat
    BY <2>4, FS_CardinalityType
  <2>6. State(0, t.node, f, FALSE, Q0)
    <3>1. h - 0 = h
      OBVIOUS
    <3> QED
      BY <2>1, <2>4, <2>5, <3>1, Zenon
  <2> HIDE DEF State
  <2> QED
    BY <2>6
<1>3. ASSUME NEW i \in Nat, i \in T
      PROVE  i + 1 \in T
  <2> SUFFICES ASSUME i + 1 <= h
               PROVE  Done(i + 1)
    BY SMTT(20)
  <2>1. Done(i)
    <3> HIDE DEF Done
    <3>1. i <= h
      OBVIOUS
    <3> QED
      BY <1>3, <3>1
  <2>2. PICK g, at, found, Q : State(i, g, at, found, Q)
    BY <2>1
  <2>30. R[i] = [node |-> g, at |-> at, found |-> found] /\ Phase(t.node, g, h, K, n, at, found, Q)
    BY <2>2
  <2>31. PICK Q2 : NextPhase(t, t.node, h, K, n, Q, R[i], Q2)
    BY <2>30, RechainStep
  <2>3. PICK g2, at2, found2 :
          /\ RechainRound(t, n, R[i]) = [node |-> g2, at |-> at2, found |-> found2]
          /\ Phase(t.node, g2, h, K, n, at2, found2, Q2)
    BY <2>31 DEF NextPhase
  <2>32. Q2 = {} \/ \E nn \in Q : Q2 = Q \ {nn}
    BY <2>31 DEF NextPhase
  <2>4. R[i + 1] = RechainRound(t, n, R[i])
    <3>1. i + 1 \in 1 .. t.hsize /\ (i + 1) - 1 = i
      OBVIOUS
    <3> QED
      BY <1>1, <3>1
  <2>5. IsFiniteSet(Q2) /\ Cardinality(Q2) \in Nat /\ Cardinality(Q2) <= h - (i + 1)
    <3>1. CASE Q2 = {}
      BY <3>1, FS_EmptySet
    <3>2. CASE \E nn \in Q : Q2 = Q \ {nn}
      <4>1. PICK nn \in Q : Q2 = Q \ {nn}
        BY <3>2
      <4>2. IsFiniteSet(Q2) /\ Cardinality(Q2) = Cardinality(Q) - 1
        BY <2>2, <4>1, FS_RemoveElement
      <4>3. Cardinality(Q2) \in Nat
        BY <4>2, FS_CardinalityType
      <4> QED
        BY <2>2, <4>2, <4>3
    <3> QED
      BY <2>32, <3>1, <3>2
  <2>6. State(i + 1, g2, at2, found2, Q2)
    BY <2>3, <2>4, <2>5
  <2> HIDE DEF State
  <2> QED
    BY <2>6
<1>4. Done(h)
  <2> HIDE DEF T
  <2>1. Nat \subseteq T
    BY <1>2, <1>3, SetInduction
  <2> HIDE DEF Done
  <2> QED
    BY <2>1 DEF T
<1>5. PICK g, at, found, Q : State(h, g, at, found, Q)
  BY <1>4
<1>6. Q = {}
  <2>1. Cardinality(Q) = 0 /\ IsFiniteSet(Q)
    BY <1>5
  <2> QED
    BY <2>1, FS_EmptySet
<1>7. R[h].node = g
  BY <1>5
<1>8. Sound(g, h, K)
  BY <1>5, <1>6 DEF Phase, Outside, Sound
<1>9. \A x \in 0 .. h - 1 : g[x].key = t.node[x].key /\ g[x].val = t.node[x].val
  BY <1>5 DEF Phase
<1> QED
  BY <1>1, <1>7, <1>8, <1>9, SMTT(20) DEF RechainDone

Tabs(a, h) == [asize : {a}, array : Arrays(a), hsize : {h}, node : Hashes(h), freetop : 0 .. h]

\* The parts of a table.
LEMMA TabFacts ==
  ASSUME NEW a \in Nat, NEW h \in Nat, NEW t \in Tabs(a, h)
  PROVE  /\ t.asize = a /\ t.hsize = h /\ t.freetop \in 0 .. h
         /\ t.array \in Arrays(a) /\ DOMAIN t.array = 0 .. a - 1
         /\ t.node \in Hashes(h) /\ DOMAIN t.node = 0 .. h - 1
BY DEF Tabs, Arrays, Hashes

\* A table with other parts; a node with another value, and with another key too.
WithNodes(t, g) == [t EXCEPT !.node = g]
WithFreetop(t, f) == [t EXCEPT !.freetop = f]
WithElement(t, k, v) == [t EXCEPT !.array[k] = v]
WithVal(t, n, v) == [t EXCEPT !.node[n].val = v]
WithKey(t, n, k) == [t EXCEPT !.node[n].key = k]
WithKeyVal(t, n, k, v) == [t EXCEPT !.node[n].key = k, !.node[n].val = v]

\* Assigning the parts of a table one by one.
LEMMA NodesSet ==
  ASSUME NEW a \in Nat, NEW h \in Nat, NEW t \in Tabs(a, h), NEW g \in Hashes(h)
  PROVE  /\ WithNodes(t, g) \in Tabs(a, h) /\ WithNodes(t, g).array = t.array
         /\ WithNodes(t, g).node = g /\ WithNodes(t, g).freetop = t.freetop
BY DEF Tabs, WithNodes

\* ... freetop,
LEMMA FreetopSet ==
  ASSUME NEW a \in Nat, NEW h \in Nat, NEW t \in Tabs(a, h), NEW f \in 0 .. h
  PROVE  /\ WithFreetop(t, f) \in Tabs(a, h) /\ WithFreetop(t, f).array = t.array
         /\ WithFreetop(t, f).node = t.node /\ WithFreetop(t, f).freetop = f
BY DEF Tabs, WithFreetop

\* ... an array slot,
LEMMA ElementSet ==
  ASSUME NEW a \in Nat, NEW h \in Nat, NEW t \in Tabs(a, h), NEW k \in 0 .. a - 1, NEW v \in Vals \cup {Nil}
  PROVE  /\ WithElement(t, k, v) \in Tabs(a, h)
         /\ WithElement(t, k, v).array = [t.array EXCEPT ![k] = v]
         /\ WithElement(t, k, v).node = t.node /\ WithElement(t, k, v).freetop = t.freetop
<1>1. [t.array EXCEPT ![k] = v] \in Arrays(a)
  BY DEF Tabs, Arrays
<1> QED
  BY <1>1 DEF Tabs, WithElement

\* ... the value of a node,
LEMMA ValSet ==
  ASSUME NEW a \in Nat, NEW h \in Nat, NEW t \in Tabs(a, h), NEW n \in 0 .. h - 1,
         NEW v \in Vals \cup {Nil}, NEW u, u = WithVal(t, n, v)
  PROVE  /\ u \in Tabs(a, h) /\ u.array = t.array /\ u.freetop = t.freetop
         /\ u.node[n].key = t.node[n].key /\ u.node[n].val = v /\ u.node[n].next = t.node[n].next
         /\ \A x \in 0 .. h - 1 : x # n => u.node[x] = t.node[x]
<1> DEFINE s == [t.node[n] EXCEPT !.val = v]
           g == [t.node EXCEPT ![n] = s]
<1>1. t.node \in Hashes(h) /\ DOMAIN t.node = 0 .. h - 1
  BY TabFacts
<1>2. s \in Slots(h) /\ s.key = t.node[n].key /\ s.val = v /\ s.next = t.node[n].next
  BY <1>1 DEF Hashes, Slots
<1> HIDE DEF s
<1>3. g \in Hashes(h)
  BY <1>1, <1>2 DEF Hashes
<1>4. u = WithNodes(t, g)
  BY DEF s, WithNodes, WithVal
<1>5. g[n] = s /\ \A x \in 0 .. h - 1 : x # n => g[x] = t.node[x]
  BY <1>1
<1> HIDE DEF g
<1>6. u \in Tabs(a, h) /\ u.array = t.array /\ u.freetop = t.freetop /\ u.node = g
  BY <1>3, <1>4, NodesSet
<1> QED
  BY <1>2, <1>5, <1>6

\* ... its key,
LEMMA KeySet ==
  ASSUME NEW a \in Nat, NEW h \in Nat, NEW t \in Tabs(a, h), NEW n \in 0 .. h - 1,
         NEW k \in Keys, NEW u, u = WithKey(t, n, k)
  PROVE  /\ u \in Tabs(a, h) /\ u.array = t.array /\ u.freetop = t.freetop
         /\ u.node[n].key = k /\ u.node[n].val = t.node[n].val /\ u.node[n].next = t.node[n].next
         /\ \A x \in 0 .. h - 1 : x # n => u.node[x] = t.node[x]
<1> DEFINE s == [t.node[n] EXCEPT !.key = k]
           g == [t.node EXCEPT ![n] = s]
<1>1. t.node \in Hashes(h) /\ DOMAIN t.node = 0 .. h - 1
  BY TabFacts
<1>2. s \in Slots(h) /\ s.key = k /\ s.val = t.node[n].val /\ s.next = t.node[n].next
  BY <1>1 DEF Hashes, Slots
<1> HIDE DEF s
<1>3. g \in Hashes(h)
  BY <1>1, <1>2 DEF Hashes
<1>4. u = WithNodes(t, g)
  BY DEF s, WithNodes, WithKey
<1>5. g[n] = s /\ \A x \in 0 .. h - 1 : x # n => g[x] = t.node[x]
  BY <1>1
<1> HIDE DEF g
<1>6. u \in Tabs(a, h) /\ u.array = t.array /\ u.freetop = t.freetop /\ u.node = g
  BY <1>3, <1>4, NodesSet
<1> QED
  BY <1>2, <1>5, <1>6

\* ... or both.
LEMMA KeyValSet ==
  ASSUME NEW a \in Nat, NEW h \in Nat, NEW t \in Tabs(a, h), NEW n \in 0 .. h - 1,
         NEW k \in Keys, NEW v \in Vals \cup {Nil}, NEW u, u = WithKeyVal(t, n, k, v)
  PROVE  /\ u \in Tabs(a, h) /\ u.array = t.array /\ u.freetop = t.freetop
         /\ u.node[n].key = k /\ u.node[n].val = v /\ u.node[n].next = t.node[n].next
         /\ \A x \in 0 .. h - 1 : x # n => u.node[x] = t.node[x]
<1> DEFINE w == WithKey(t, n, k)
<1>1. u = WithVal(w, n, v)
  BY DEF WithKey, WithVal, WithKeyVal
<1>3. /\ w \in Tabs(a, h) /\ w.array = t.array /\ w.freetop = t.freetop
      /\ w.node[n].key = k /\ w.node[n].val = t.node[n].val /\ w.node[n].next = t.node[n].next
      /\ \A x \in 0 .. h - 1 : x # n => w.node[x] = t.node[x]
  BY KeySet
<1> HIDE DEF w
<1>4. /\ u \in Tabs(a, h) /\ u.array = w.array /\ u.freetop = w.freetop
      /\ u.node[n].key = w.node[n].key /\ u.node[n].val = v /\ u.node[n].next = w.node[n].next
      /\ \A x \in 0 .. h - 1 : x # n => u.node[x] = w.node[x]
  BY <1>1, <1>3, ValSet
<1> QED
  BY <1>3, <1>4

\* A table with an array part of size a and a hash part of size h: from freetop on
\* no node is free, and the array holds values of integer keys only.
Built(t, a, h) ==
  /\ t \in Tabs(a, h)
  /\ Sound(t.node, h, Keys \ (0 .. a - 1))
  /\ \A n \in 0 .. h - 1 : n >= t.freetop => t.node[n].key # Nil
  /\ \A i \in 0 .. a - 1 : t.array[i] # Nil => i \in Ints

Holds(g, h, k, v) == \E x \in 0 .. h - 1 : g[x].key = k /\ g[x].val = v

\* No key is dead.
Fresh(g, h) == \A x \in 0 .. h - 1 : g[x].key # Nil => g[x].val # Nil

\* Table u is table t with the value v for the key k, which t does not have.
Added(t, u, a, h, k, v) ==
  /\ Built(u, a, h) /\ u.array = t.array
  /\ \A x \in Keys, w \in Vals : Holds(u.node, h, x, w) <=> (Holds(t.node, h, x, w) \/ (x = k /\ w = v))
  /\ v # Nil /\ Fresh(t.node, h) => Fresh(u.node, h)

\* What a built table consists of.
LEMMA ShapeFacts ==
  ASSUME NEW a \in Nat, NEW h \in Nat, NEW t, Built(t, a, h)
  PROVE  /\ t.asize = a /\ t.hsize = h /\ DOMAIN t.array = 0 .. a - 1
         /\ t.node \in Hashes(h) /\ DOMAIN t.node = 0 .. h - 1 /\ Ends(t.node, h)
<1>1. t \in Tabs(a, h)
  BY DEF Built
<1>2. Ends(t.node, h)
  BY DEF Built, Sound, Frame
<1> QED
  BY <1>1, <1>2, TabFacts

\* ... and that its nodes are sound.
LEMMA BuiltFacts ==
  ASSUME KeyAssumption, NEW a \in Nat, NEW h \in Nat, NEW t, Built(t, a, h)
  PROVE  /\ t \in Tabs(a, h) /\ t.asize = a /\ t.hsize = h /\ t.freetop \in 0 .. h
         /\ t.array \in Arrays(a) /\ DOMAIN t.array = 0 .. a - 1
         /\ t.node \in Hashes(h) /\ DOMAIN t.node = 0 .. h - 1
         /\ Ends(t.node, h) /\ Sound(t.node, h, Keys \ (0 .. a - 1))
         /\ Keys \ (0 .. a - 1) \in SUBSET Keys
<1>1. t \in Tabs(a, h)
  BY DEF Built
<1>2. /\ t.asize = a /\ t.hsize = h /\ t.freetop \in 0 .. h
      /\ t.array \in Arrays(a) /\ DOMAIN t.array = 0 .. a - 1
      /\ t.node \in Hashes(h) /\ DOMAIN t.node = 0 .. h - 1
  BY <1>1, TabFacts
<1>3. Sound(t.node, h, Keys \ (0 .. a - 1)) /\ Ends(t.node, h)
  BY DEF Built, Sound, Frame
<1> QED
  BY <1>1, <1>2, <1>3

\* Place, with a free node in the home of the key.
LEMMA PlaceHome ==
  ASSUME KeyAssumption, NEW a \in Nat, NEW h \in Nat, NEW t, Built(t, a, h),
         NEW k \in Keys \ (0 .. a - 1), Absent(t.node, h, k), NEW v \in Vals \cup {Nil},
         NEW n \in 0 .. h - 1, n = Home(h, k), t.node[n].val = Nil,
         NEW u, u = WithKeyVal(t, n, k, v)
  PROVE  Added(t, u, a, h, k, v)
<1> DEFINE K == Keys \ (0 .. a - 1)
<1>1. /\ t \in Tabs(a, h) /\ t.freetop \in 0 .. h /\ Sound(t.node, h, K) /\ K \in SUBSET Keys
  BY BuiltFacts
<1>2. k \in Keys /\ k \in K /\ k # Nil
  BY DEF KeyAssumption, Keys
<1>3. /\ u \in Tabs(a, h) /\ u.array = t.array /\ u.freetop = t.freetop
      /\ u.node[n].key = k /\ u.node[n].val = v /\ u.node[n].next = t.node[n].next
      /\ \A x \in 0 .. h - 1 : x # n => u.node[x] = t.node[x]
  BY <1>1, <1>2, KeyValSet
<1>4. u.node \in Hashes(h)
  BY <1>3, TabFacts
<1>5. /\ \A x \in 0 .. h - 1 : u.node[x].next = t.node[x].next
      /\ \A x \in 0 .. h - 1 : x # n => u.node[x].key = t.node[x].key /\ u.node[x].val = t.node[x].val
  BY <1>3
<1>6. Sound(u.node, h, K)
  <2>1. HomeTaken(t.node, u.node, h, n, k, v)
    BY <1>3, <1>4, <1>5 DEF HomeTaken
  <2> HIDE DEF K
  <2> QED
    BY <1>1, <1>2, <2>1, TakeHome
<1>7. \A x \in 0 .. h - 1 : x >= u.freetop => u.node[x].key # Nil
  BY <1>2, <1>3, <1>5 DEF Built
<1>8. Built(u, a, h)
  BY <1>3, <1>6, <1>7 DEF Built
<1>9. ASSUME NEW x \in Keys, NEW w \in Vals
      PROVE  Holds(u.node, h, x, w) <=> (Holds(t.node, h, x, w) \/ (x = k /\ w = v))
  <2>1. w # Nil
    BY DEF KeyAssumption
  <2> QED
    BY <1>3, <1>5, <2>1 DEF Holds
<1>10. v # Nil /\ Fresh(t.node, h) => Fresh(u.node, h)
  BY <1>3, <1>5 DEF Fresh
<1> QED
  BY <1>3, <1>8, <1>9, <1>10 DEF Added

\* The greatest free node below freetop.
LEMMA FreeNodes ==
  ASSUME KeyAssumption, NEW a \in Nat, NEW h \in Nat, NEW t, Built(t, a, h), Unused(t) # {},
         NEW f, f = Max(Unused(t))
  PROVE  /\ f \in 0 .. h - 1 /\ f \in 0 .. h /\ t.node[f].key = Nil
         /\ \A x \in 0 .. h - 1 : x >= f /\ x # f => t.node[x].key # Nil
<1>1. t.freetop \in 0 .. h
  BY BuiltFacts
<1>2. Unused(t) \in SUBSET (0 .. h)
  BY <1>1 DEF Unused
<1>3. f \in Unused(t) /\ \A x \in Unused(t) : x <= f
  BY <1>2, MaxIsGreatest
<1>4. f \in 0 .. t.freetop - 1 /\ t.node[f].key = Nil
  BY <1>3 DEF Unused
<1>5. ASSUME NEW x \in 0 .. h - 1, x >= f, x # f, t.node[x].key = Nil
      PROVE  FALSE
  <2>1. ~(x >= t.freetop)
    BY <1>5 DEF Built
  <2>2. x \in Unused(t)
    BY <1>1, <1>5, <2>1 DEF Unused
  <2>3. x <= f
    BY <1>3, <2>2
  <2> QED
    BY <1>1, <1>4, <1>5, <2>3
<1> QED
  BY <1>1, <1>4, <1>5

\* The nodes when the new key is behind its home.
Behind(g, n, f, k, v) ==
  [g EXCEPT ![f] = [key |-> k, val |-> v, next |-> g[n].next], ![n].next = f]

\* The hash part after Place has put the key into a free node.
LEMMA BehindIs ==
  ASSUME NEW h \in Nat, NEW g \in Hashes(h), NEW n \in 0 .. h - 1, NEW f \in 0 .. h - 1, n # f,
         NEW k \in Keys, NEW v \in Vals \cup {Nil}, NEW g2, g2 = Behind(g, n, f, k, v)
  PROVE  /\ g2 \in Hashes(h) /\ g2[f].key = k /\ g2[f].val = v /\ g2[f].next = g[n].next
         /\ g2[n].key = g[n].key /\ g2[n].val = g[n].val /\ g2[n].next = f
         /\ \A x \in 0 .. h - 1 : x \notin {f, n} => g2[x] = g[x]
<1>1. \A x \in 0 .. h - 1 : g[x] \in [key : Keys \cup {Nil, Stale}, val : Vals \cup {Nil},
                                      next : (0 .. h - 1) \cup {Nil}]
  BY DEF Hashes, Slots
<1>2. DOMAIN g = 0 .. h - 1
  BY DEF Hashes
<1>3. /\ g2[f] = [key |-> k, val |-> v, next |-> g[n].next]
      /\ g2[n] = [g[n] EXCEPT !.next = f]
      /\ \A x \in 0 .. h - 1 : x \notin {f, n} => g2[x] = g[x]
      /\ g2 = [x \in 0 .. h - 1 |-> g2[x]]
  BY <1>2 DEF Behind
<1> HIDE DEF Behind
<1>4. \A x \in 0 .. h - 1 : g2[x] \in Slots(h)
  BY <1>1, <1>3 DEF Slots
<1>5. g2 \in Hashes(h)
  BY <1>3, <1>4 DEF Hashes
<1>6. g2[f].key = k /\ g2[f].val = v /\ g2[f].next = g[n].next
  BY <1>3
<1>7. g2[n].key = g[n].key /\ g2[n].val = g[n].val /\ g2[n].next = f
  BY <1>1, <1>3
<1> QED
  BY <1>3, <1>5, <1>6, <1>7

\* Place, with a node in the home of the key that belongs there.
LEMMA PlaceBehind ==
  ASSUME KeyAssumption, NEW a \in Nat, NEW h \in Nat, NEW t, Built(t, a, h),
         NEW k \in Keys \ (0 .. a - 1), Absent(t.node, h, k), NEW v \in Vals \cup {Nil},
         NEW n \in 0 .. h - 1, n = Home(h, k), t.node[n].val # Nil, Unused(t) # {},
         NEW f, f = Max(Unused(t)),
         NEW u, u = WithNodes(WithFreetop(t, f), Behind(t.node, n, f, k, v))
  PROVE  Added(t, u, a, h, k, v)
<1> DEFINE K == Keys \ (0 .. a - 1)
           g == t.node
           g2 == Behind(t.node, n, f, k, v)
<1>1. /\ t \in Tabs(a, h) /\ Sound(g, h, K) /\ K \in SUBSET Keys /\ g \in Hashes(h)
  BY BuiltFacts
<1>2. k \in Keys /\ k \in K /\ k # Nil
  BY DEF KeyAssumption, Keys
<1>3. /\ f \in 0 .. h - 1 /\ f \in 0 .. h /\ g[f].key = Nil
      /\ \A x \in 0 .. h - 1 : x >= f /\ x # f => g[x].key # Nil
  BY FreeNodes
<1>4. n # f /\ g[f].val = Nil
  BY <1>1, <1>3 DEF Sound, Frame, Blank
<1>5. /\ g2 \in Hashes(h) /\ g2[f].key = k /\ g2[f].val = v /\ g2[f].next = g[n].next
      /\ g2[n].key = g[n].key /\ g2[n].val = g[n].val /\ g2[n].next = f
      /\ \A x \in 0 .. h - 1 : x \notin {f, n} => g2[x] = g[x]
  BY <1>1, <1>2, <1>3, <1>4, BehindIs
<1> HIDE DEF g2, g
<1>6. Sound(g2, h, K)
  <2> HIDE DEF K
  <2>1. g[n].val # Nil /\ Absent(g, h, k)
    BY DEF g
  <2>2. PutBehind(g, g2, h, n, f, k, v)
    BY <1>5 DEF PutBehind
  <2> QED
    BY <1>1, <1>2, <1>3, <2>1, <2>2, GoBehind
<1>7. /\ WithFreetop(t, f) \in Tabs(a, h) /\ WithFreetop(t, f).array = t.array
      /\ WithFreetop(t, f).freetop = f
  BY <1>1, <1>3, FreetopSet, SMTT(20)
<1>8. u \in Tabs(a, h) /\ u.array = t.array /\ u.node = g2 /\ u.freetop = f
  BY <1>5, <1>7, NodesSet DEF g2
<1>9. \A x \in 0 .. h - 1 : x # f => g2[x].key = g[x].key /\ g2[x].val = g[x].val
  BY <1>5
<1>10. \A x \in 0 .. h - 1 : x >= f => g2[x].key # Nil
  BY <1>2, <1>3, <1>5, <1>9
<1>11. Built(u, a, h)
  BY <1>6, <1>8, <1>10 DEF Built
<1>12. ASSUME NEW x \in Keys, NEW w \in Vals
       PROVE  Holds(g2, h, x, w) <=> (Holds(g, h, x, w) \/ (x = k /\ w = v))
  <2>1. w # Nil
    BY DEF KeyAssumption
  <2> QED
    BY <1>3, <1>4, <1>5, <1>9, <2>1 DEF Holds
<1>13. v # Nil /\ Fresh(g, h) => Fresh(g2, h)
  BY <1>5, <1>9 DEF Fresh
<1> QED
  BY <1>8, <1>11, <1>12, <1>13 DEF Added, g

\* The node before a node that is not in its home.
LEMMA PredecessorFound ==
  ASSUME KeyAssumption, NEW a \in Nat, NEW h \in Nat, NEW t, Built(t, a, h),
         NEW n \in 0 .. h - 1, t.node[n].val # Nil, NEW m, m = Home(h, t.node[n].key), m # n
  PROVE  /\ Predecessor(t, m, n) \in 0 .. h - 1
         /\ t.node[Predecessor(t, m, n)].next = n
<1> DEFINE g == t.node
           X == {x \in 0 .. h - 1 : g[x].next = n}
<1>1. g \in Hashes(h) /\ DOMAIN g = 0 .. h - 1 /\ Ends(g, h) /\ Sound(g, h, Keys \ (0 .. a - 1))
  BY BuiltFacts
<1>2. Predecessor(t, m, n) = FirstIn(t, m, X)
  BY <1>1 DEF Predecessor
<1>3. PICK S \in SUBSET (0 .. h - 1) : Way(g, m, n, S)
  BY <1>1 DEF Sound, Reached
<1>4. n \notin S /\ m \in S /\ \A x \in S : g[x].next \in S \cup {n}
  BY <1>3 DEF Way
<1>50. \E x \in S : g[x].next = n
  <2> HIDE DEF g
  <2>1. Ends(g, h)
    BY <1>1
  <2>2. \A mm, SS : SS \in SUBSET (0 .. h - 1) /\ Way(g, mm, n, SS) /\ mm # n => \E x \in SS : g[x].next = n
    BY <2>1, WayEnds
  <2> QED
    BY <1>3, <2>2
<1>5. PICK p \in S : g[p].next = n
  BY <1>50
<1>6. \A x \in 0 .. h - 1 : g[x].next = n => x = p
  BY <1>1, <1>5, NilApart DEF Sound, Frame, OnePred
<1>7. Way(g, m, p, S \ {p})
  BY <1>4, <1>5, <1>6 DEF Way
<1>8. X \in SUBSET (0 .. h - 1) /\ p \in X /\ (S \ {p}) \cap X = {} /\ S \ {p} \in SUBSET (0 .. h - 1)
  BY <1>5, <1>6
<1>9. FirstIn(t, m, X) = p
  <2>1. t.node \in Hashes(h) /\ Ends(t.node, h) /\ Way(t.node, m, p, S \ {p})
        /\ Apart(S \ {p}, X)
    BY <1>1, <1>7, <1>8 DEF Apart
  <2> HIDE DEF X, g
  <2> QED
    BY <1>8, <2>1, FirstMeets
<1> QED
  BY <1>2, <1>5, <1>9

\* The nodes when node n has made way.
WayMade(g, pred, f, n) ==
  [g EXCEPT ![pred].next = f, ![f] = g[n], ![n].val = Nil, ![n].next = Nil]

\* The hash part after a node was moved to a free one.
LEMMA WayMadeIs ==
  ASSUME NEW h \in Nat, NEW g \in Hashes(h), NEW n \in 0 .. h - 1, NEW f \in 0 .. h - 1,
         NEW pred \in 0 .. h - 1, f \notin {n, pred}, n # pred
  PROVE  MadeWay(g, WayMade(g, pred, f, n), h, pred, f, n)
<1> DEFINE g1 == WayMade(g, pred, f, n)
<1>1. \A x \in 0 .. h - 1 : g[x] \in [key : Keys \cup {Nil, Stale}, val : Vals \cup {Nil},
                                      next : (0 .. h - 1) \cup {Nil}]
  BY DEF Hashes, Slots
<1>2. DOMAIN g = 0 .. h - 1
  BY DEF Hashes
<1>3. /\ g1[f] = g[n]
      /\ g1[n] = [[g[n] EXCEPT !.val = Nil] EXCEPT !.next = Nil]
      /\ g1[pred] = [g[pred] EXCEPT !.next = f]
      /\ \A x \in 0 .. h - 1 : x \notin {f, n, pred} => g1[x] = g[x]
      /\ g1 = [x \in 0 .. h - 1 |-> g1[x]]
  BY <1>2 DEF WayMade
<1> HIDE DEF g1
<1>4. g1[n].key = g[n].key /\ g1[n].val = Nil /\ g1[n].next = Nil /\ g1[n] \in Slots(h)
  BY <1>1, <1>3 DEF Slots
<1>50. g1[f] \in Slots(h) /\ g1[pred] \in Slots(h)
  BY <1>1, <1>3 DEF Slots
<1>5. \A x \in 0 .. h - 1 : g1[x] \in Slots(h)
  <2>1. \A x \in 0 .. h - 1 : g[x] \in Slots(h)
    BY <1>1 DEF Slots
  <2> QED
    BY <1>3, <1>4, <1>50, <2>1
<1>6. g1 \in Hashes(h)
  BY <1>3, <1>5 DEF Hashes
<1>7. g1[pred].key = g[pred].key /\ g1[pred].val = g[pred].val /\ g1[pred].next = f
  BY <1>1, <1>3
<1>8. MadeWay(g, g1, h, pred, f, n)
  BY <1>3, <1>4, <1>6, <1>7 DEF MadeWay
<1> QED
  BY <1>8 DEF g1

\* Place, with a node in the home of the key that makes way.
LEMMA PlaceMoved ==
  ASSUME KeyAssumption, NEW a \in Nat, NEW h \in Nat, NEW t, Built(t, a, h),
         NEW k \in Keys \ (0 .. a - 1), Absent(t.node, h, k), NEW v \in Vals \cup {Nil},
         NEW n \in 0 .. h - 1, n = Home(h, k), t.node[n].val # Nil, Unused(t) # {},
         Home(h, t.node[n].key) # n, NEW f, f = Max(Unused(t)),
         NEW pred, pred = Predecessor(t, Home(h, t.node[n].key), n),
         NEW s, s = WithNodes(WithFreetop(t, f), WayMade(t.node, pred, f, n)),
         NEW u, u = WithKeyVal(Rechain(s, f, n), n, k, v)
  PROVE  Added(t, u, a, h, k, v)
<1> DEFINE K == Keys \ (0 .. a - 1)
           g == t.node
           g1 == WayMade(t.node, pred, f, n)
<1>1. /\ t \in Tabs(a, h) /\ Sound(g, h, K) /\ K \in SUBSET Keys /\ g \in Hashes(h)
  BY BuiltFacts
<1>2. k \in Keys /\ k \in K /\ k # Nil
  BY DEF KeyAssumption, Keys
<1>3. /\ f \in 0 .. h - 1 /\ f \in 0 .. h /\ g[f].key = Nil
      /\ \A x \in 0 .. h - 1 : x >= f /\ x # f => g[x].key # Nil
  BY FreeNodes
<1>4. n # f /\ g[f].val = Nil /\ g[f].next = Nil
  BY <1>1, <1>3 DEF Sound, Frame, Blank
<1>5. pred \in 0 .. h - 1 /\ g[pred].next = n
  BY PredecessorFound
<1>6. pred # f /\ pred # n
  <2>1. Nil \notin 0 .. h - 1
    BY NilApart
  <2>2. {n} \in SUBSET (0 .. h - 1) /\ Nil \notin {n} /\ {n} # {} /\ Ends(g, h)
    BY <1>1, <2>1 DEF Sound, Frame
  <2>3. \E y \in {n} : g[y].next \notin {n}
    BY <2>2, LeadsOut
  <2> QED
    BY <1>4, <1>5, <2>1, <2>3
<1>7. MadeWay(g, g1, h, pred, f, n)
  BY <1>1, <1>3, <1>4, <1>5, <1>6, WayMadeIs
<1> HIDE DEF g1, g
<1>8. /\ g1 \in Hashes(h)
      /\ g1[f].key = g[n].key /\ g1[f].val = g[n].val /\ g1[f].next = g[n].next
      /\ g1[n].key = g[n].key /\ g1[n].val = Nil /\ g1[n].next = Nil
      /\ \A x \in 0 .. h - 1 : x \notin {f, n} => g1[x].key = g[x].key /\ g1[x].val = g[x].val
  BY <1>7 DEF MadeWay
<1>9. /\ Frame(g1, h, K) /\ Homes(g1, h)
      /\ \A p \in 0 .. h - 1 : g1[p].val # Nil /\ Home(h, g1[p].key) # n => Reached(g1, h, p)
      /\ \E Q : n \notin Q /\ Entry(g1, h, f, Q) /\ Outside(g1, h, Q) /\ Inside(g1, h, Q)
  <2>1. g[n].val # Nil /\ Home(h, g[n].key) # n
    BY DEF g
  <2> HIDE DEF K
  <2> QED
    BY <1>1, <1>3, <1>5, <1>7, <2>1, MakeWay
<1>10. PICK Q : n \notin Q /\ Entry(g1, h, f, Q) /\ Outside(g1, h, Q) /\ Inside(g1, h, Q)
  BY <1>9
<1>11. Phase(g1, g1, h, K, n, f, FALSE, Q)
  BY <1>4, <1>9, <1>10 DEF Phase
<1>12. /\ s \in Tabs(a, h) /\ s.array = t.array /\ s.node = g1 /\ s.freetop = f /\ s.hsize = h
  <2>1. /\ WithFreetop(t, f) \in Tabs(a, h) /\ WithFreetop(t, f).array = t.array
        /\ WithFreetop(t, f).freetop = f
    BY <1>1, <1>3, FreetopSet, SMTT(20)
  <2>2. s \in Tabs(a, h) /\ s.array = t.array /\ s.node = g1 /\ s.freetop = f
    BY <1>8, <2>1, NodesSet DEF g1
  <2> QED
    BY <2>2, TabFacts
<1>130. \E g2 : RechainDone(s, f, n, h, K, g2)
  <2> HIDE DEF K
  <2>1. Phase(s.node, s.node, h, K, n, f, FALSE, Q) /\ s.hsize = h
    BY <1>11, <1>12
  <2> QED
    BY <1>1, <1>12, <2>1, RechainFinds
<1>131. PICK g2 : RechainDone(s, f, n, h, K, g2)
  BY <1>130
<1>132. /\ Rechain(s, f, n) = WithNodes(s, g2) /\ Sound(g2, h, K)
        /\ \A x \in 0 .. h - 1 : g2[x].key = s.node[x].key /\ g2[x].val = s.node[x].val
  BY <1>131 DEF RechainDone, WithNodes
<1>13. /\ Rechain(s, f, n) = WithNodes(s, g2) /\ Sound(g2, h, K)
       /\ \A x \in 0 .. h - 1 : g2[x].key = g1[x].key /\ g2[x].val = g1[x].val
  BY <1>12, <1>132
<1> DEFINE w == Rechain(s, f, n)
<1>14. g2 \in Hashes(h)
  BY <1>13 DEF Sound, Frame
<1>15. w \in Tabs(a, h) /\ w.array = t.array /\ w.node = g2 /\ w.freetop = f
  <2>1. w = WithNodes(s, g2)
    BY <1>13
  <2> QED
    BY <1>12, <1>14, <2>1, NodesSet
<1> HIDE DEF w
<1>16. g2[n].val = Nil /\ \A x \in 0 .. h - 1 : x \notin {f, n} => g2[x].key = g[x].key /\ g2[x].val = g[x].val
  BY <1>8, <1>13
<1>17. g2[f].key = g[n].key /\ g2[f].val = g[n].val
  BY <1>3, <1>8, <1>13
<1>18. Absent(g2, h, k)
  BY <1>16, <1>17 DEF Absent, g
<1>19. \A x \in 0 .. h - 1 : x >= f => g2[x].key # Nil
  <2>1. g[n].key # Nil
    BY <1>1 DEF Sound, Frame, Blank, g
  <2>2. g2[n].key = g[n].key
    BY <1>8, <1>13
  <2> QED
    BY <1>3, <1>16, <1>17, <2>1, <2>2
<1>20. Built(w, a, h)
  BY <1>13, <1>15, <1>19 DEF Built
<1>21. Added(w, u, a, h, k, v)
  <2>1. w.node[n].val = Nil /\ Absent(w.node, h, k) /\ u = WithKeyVal(w, n, k, v)
    BY <1>15, <1>16, <1>18 DEF w
  <2> QED
    BY <1>20, <2>1, PlaceHome
<1>22. ASSUME NEW x \in Keys, NEW z \in Vals
       PROVE  Holds(g2, h, x, z) <=> Holds(g, h, x, z)
  <2>1. z # Nil
    BY DEF KeyAssumption
  <2>2. ASSUME NEW y \in 0 .. h - 1, g2[y].key = x, g2[y].val = z
        PROVE  Holds(g, h, x, z)
    <3>1. CASE y = f
      BY <1>17, <2>2, <3>1 DEF Holds
    <3>2. CASE y # f
      <4>1. y # n
        BY <1>16, <2>1, <2>2
      <4> QED
        BY <1>16, <2>2, <3>2, <4>1 DEF Holds
    <3> QED
      BY <3>1, <3>2
  <2>3. ASSUME NEW y \in 0 .. h - 1, g[y].key = x, g[y].val = z
        PROVE  Holds(g2, h, x, z)
    <3>1. CASE y = n
      BY <1>3, <1>17, <2>3, <3>1 DEF Holds
    <3>2. CASE y # n
      <4>1. y # f
        BY <1>4, <2>1, <2>3
      <4> QED
        BY <1>16, <2>3, <3>2, <4>1 DEF Holds
    <3> QED
      BY <3>1, <3>2
  <2> QED
    BY <2>2, <2>3 DEF Holds
<1>23. v # Nil /\ Fresh(g, h) => Fresh(u.node, h)
  <2> SUFFICES ASSUME v # Nil, Fresh(g, h), NEW x \in 0 .. h - 1, u.node[x].key # Nil
               PROVE  u.node[x].val # Nil
    BY DEF Fresh
  <2>1. /\ u.node[n].val = v
        /\ \A y \in 0 .. h - 1 : y # n => u.node[y] = w.node[y]
    <3>1. u = WithKeyVal(w, n, k, v)
      BY DEF w
    <3> QED
      BY <1>2, <1>15, <3>1, KeyValSet
  <2>2. CASE x = n
    BY <2>1, <2>2
  <2>3. CASE x = f
    BY <1>15, <1>17, <1>4, <2>1, <2>3 DEF g
  <2>4. CASE x \notin {f, n}
    <3>1. g[x].key # Nil /\ u.node[x].val = g[x].val
      BY <1>15, <1>16, <2>1, <2>4
    <3> QED
      BY <3>1 DEF Fresh
  <2> QED
    BY <2>2, <2>3, <2>4
<1> QED
  BY <1>15, <1>21, <1>22, <1>23 DEF Added, g

\* A new key is found where it is placed, and so are all others.
LEMMA PlaceAdds ==
  ASSUME KeyAssumption, NEW a \in Nat, NEW h \in Nat, NEW t, Built(t, a, h),
         NEW k \in Keys \ (0 .. a - 1), Absent(t.node, h, k), NEW v \in Vals \cup {Nil}, Room(t, k)
  PROVE  Added(t, Place(t, k, v), a, h, k, v)
<1> DEFINE n == Main(t, k)
           f == Max(Unused(t))
           c == Main(t, t.node[n].key)
           p == Predecessor(t, c, n)
           s == WithNodes(WithFreetop(t, f), WayMade(t.node, p, f, n))
<1>1. t \in Tabs(a, h) /\ t.hsize = h /\ h > 0 /\ t.node \in Hashes(h) /\ Sound(t.node, h, Keys \ (0 .. a - 1))
  <2>1. t \in Tabs(a, h) /\ t.hsize = h /\ t.node \in Hashes(h) /\ Sound(t.node, h, Keys \ (0 .. a - 1))
    BY BuiltFacts
  <2>2. t.hsize > 0
    BY DEF Room
  <2> QED
    BY <2>1, <2>2
<1>3. \A x : Main(t, x) = Home(h, x)
  BY <1>1 DEF Main, Home
<1>2. n \in 0 .. h - 1 /\ n = Home(h, k) /\ c = Home(h, t.node[n].key)
  BY <1>1, <1>3, HomeType
<1>4. Place(t, k, v) =
        IF t.node[n].val = Nil THEN WithKeyVal(t, n, k, v)
        ELSE IF c # n THEN WithKeyVal(Rechain([t EXCEPT !.freetop = f,
                                                       !.node = [@ EXCEPT ![p].next = f, ![f] = t.node[n],
                                                                          ![n].val = Nil, ![n].next = Nil]], f, n), n, k, v)
        ELSE [t EXCEPT !.freetop = f,
                       !.node = [@ EXCEPT ![f] = [key |-> k, val |-> v, next |-> t.node[n].next],
                                          ![n].next = f]]
  BY DEF Place, WithKeyVal
<1>5. CASE t.node[n].val = Nil
  <2>1. Place(t, k, v) = WithKeyVal(t, n, k, v)
    BY <1>4, <1>5
  <2> QED
    BY <1>2, <1>5, <2>1, PlaceHome
<1>6. ASSUME t.node[n].val # Nil
      PROVE  Unused(t) # {} /\ f \in 0 .. h /\ WithFreetop(t, f).node = t.node
  <2>1. Unused(t) # {}
    BY <1>6 DEF Room
  <2>2. f \in 0 .. h
    BY <2>1, FreeNodes
  <2> QED
    BY <1>1, <2>1, <2>2, FreetopSet
<1>7. CASE t.node[n].val # Nil /\ c # n
  <2>1. Place(t, k, v) = WithKeyVal(Rechain(s, f, n), n, k, v)
    <3>1. Place(t, k, v) =
            WithKeyVal(Rechain([t EXCEPT !.freetop = f,
                                         !.node = [@ EXCEPT ![p].next = f, ![f] = t.node[n],
                                                            ![n].val = Nil, ![n].next = Nil]], f, n), n, k, v)
      BY <1>4, <1>7, Zenon
    <3>2. WithFreetop(t, f).node = t.node
      BY <1>6, <1>7
    <3> HIDE DEF n, f, c, p
    <3>3. s = [t EXCEPT !.freetop = f,
                         !.node = [@ EXCEPT ![p].next = f, ![f] = t.node[n],
                                            ![n].val = Nil, ![n].next = Nil]]
      BY <3>2, Zenon DEF WithNodes, WithFreetop, WayMade
    <3> QED
      BY <3>1, <3>3, Zenon
  <2>2. Unused(t) # {}
    BY <1>6, <1>7
  <2> HIDE DEF s, p, f, n
  <2>3. p = Predecessor(t, Home(h, t.node[n].key), n) /\ f = Max(Unused(t)) /\ n = Home(h, k)
        /\ s = WithNodes(WithFreetop(t, f), WayMade(t.node, p, f, n))
    BY <1>2 DEF s, p, f
  <2> QED
    BY <1>2, <1>7, <2>1, <2>2, <2>3, PlaceMoved
<1>8. CASE t.node[n].val # Nil /\ c = n
  <2>1. Place(t, k, v) = WithNodes(WithFreetop(t, f), Behind(t.node, n, f, k, v))
    <3>1. Place(t, k, v) =
            [t EXCEPT !.freetop = f,
                       !.node = [@ EXCEPT ![f] = [key |-> k, val |-> v, next |-> t.node[n].next],
                                          ![n].next = f]]
      BY <1>4, <1>8, Zenon
    <3>2. WithFreetop(t, f).node = t.node
      BY <1>6, <1>8
    <3> HIDE DEF n, f, c, p
    <3> QED
      BY <3>1, <3>2, Zenon DEF WithNodes, WithFreetop, Behind
  <2>2. Unused(t) # {}
    BY <1>6, <1>8
  <2> QED
    BY <1>2, <1>8, <2>1, <2>2, PlaceBehind
<1> QED
  BY <1>5, <1>7, <1>8

\* What a lookup finds: the node of a key with a value; the C getters no other
\* node, the other lookups perhaps a dead one, which is found as well.
LEMMA FindFacts ==
  ASSUME KeyAssumption, NEW a \in Nat, NEW h \in Nat, NEW t, Built(t, a, h), NEW k \in Keys
  PROVE  /\ \A p \in 0 .. h - 1 : t.node[p].key = k /\ t.node[p].val # Nil
                                    => FindLive(t, k) = p /\ FindAny(t, k) = p
         /\ FindLive(t, k) # Nil => /\ FindLive(t, k) \in 0 .. h - 1
                                    /\ t.node[FindLive(t, k)].key = k
                                    /\ t.node[FindLive(t, k)].val # Nil
         /\ FindAny(t, k) # Nil => /\ FindAny(t, k) \in 0 .. h - 1
                                   /\ t.node[FindAny(t, k)].key = k
                                   /\ Reached(t.node, h, FindAny(t, k))
<1> DEFINE m == Home(h, k)
           X(d) == {n \in 0 .. h - 1 : t.node[n].key = k /\ (d \/ t.node[n].val # Nil)}
<1>1. t.hsize = h /\ t.node \in Hashes(h) /\ DOMAIN t.node = 0 .. h - 1 /\ Ends(t.node, h)
      /\ Sound(t.node, h, Keys \ (0 .. a - 1)) /\ Nil \notin 0 .. h - 1
  <2>1. t.hsize = h /\ t.node \in Hashes(h) /\ DOMAIN t.node = 0 .. h - 1 /\ Ends(t.node, h)
    BY ShapeFacts
  <2>2. Sound(t.node, h, Keys \ (0 .. a - 1))
    BY DEF Built
  <2>3. Nil \notin 0 .. h - 1
    BY NilApart
  <2> QED
    BY <2>1, <2>2, <2>3
<1>2. /\ FindLive(t, k) = IF h = 0 THEN Nil ELSE FirstIn(t, m, X(FALSE))
      /\ FindAny(t, k) = IF h = 0 THEN Nil ELSE FirstIn(t, m, X(TRUE))
  BY <1>1 DEF FindLive, FindAny, Find, Main, Home
<1>3. CASE h = 0
  BY <1>2, <1>3
<1>4. CASE h # 0
  <2> DEFINE L == X(FALSE)
             A == X(TRUE)
  <2>0. m \in 0 .. h - 1
    BY <1>4, HomeType
  <2>1. L \in SUBSET (0 .. h - 1) /\ A \in SUBSET (0 .. h - 1) /\ L \subseteq A
    OBVIOUS
  <2>2. /\ \A x \in L : t.node[x].key = k /\ t.node[x].val # Nil
        /\ \A x \in A : t.node[x].key = k
        /\ \A x \in 0 .. h - 1 : t.node[x].key = k => x \in A /\ (t.node[x].val # Nil => x \in L)
    OBVIOUS
  <2>3. FindLive(t, k) = FirstIn(t, m, L) /\ FindAny(t, k) = FirstIn(t, m, A)
    BY <1>2, <1>4
  <2> HIDE DEF L, A, m
  <2>4. ASSUME NEW p \in 0 .. h - 1, t.node[p].key = k, t.node[p].val # Nil
        PROVE  FirstIn(t, m, L) = p /\ FirstIn(t, m, A) = p
    <3>1. PICK S \in SUBSET (0 .. h - 1) : Way(t.node, m, p, S) /\ \A x \in S : t.node[x].key # k
      BY <1>1, <2>4 DEF Sound, Reached, m
    <3>2. Apart(S, L) /\ Apart(S, A) /\ p \in L /\ p \in A
      BY <2>1, <2>2, <2>4, <3>1 DEF Apart
    <3>3. FirstIn(t, m, L) = p
      BY <1>1, <2>1, <3>1, <3>2, FirstMeets, SMTT(20)
    <3>4. FirstIn(t, m, A) = p
      BY <1>1, <2>1, <3>1, <3>2, FirstMeets, SMTT(20)
    <3> QED
      BY <3>3, <3>4
  <2>5. ASSUME FirstIn(t, m, L) # Nil
        PROVE  FirstIn(t, m, L) \in L
    <3>1. m \in (0 .. h - 1) \cup {Nil}
      BY <2>0
    <3>2. FirstIn(t, m, L) \in L \cup {Nil}
      BY <1>1, <2>1, <3>1, FirstFacts
    <3> QED
      BY <2>5, <3>2
  <2>6. ASSUME FirstIn(t, m, A) # Nil
        PROVE  FirstIn(t, m, A) \in A /\ Reached(t.node, h, FirstIn(t, m, A))
    <3> DEFINE p == FirstIn(t, m, A)
    <3>1. p \in A /\ \E S \in SUBSET (0 .. h - 1) : Apart(S, A) /\ Way(t.node, m, p, S)
      BY <1>1, <2>0, <2>1, <2>6, FirstWay
    <3>2. PICK S \in SUBSET (0 .. h - 1) : Apart(S, A) /\ Way(t.node, m, p, S)
      BY <3>1
    <3> HIDE DEF p
    <3>3. t.node[p].key = k
      BY <2>2, <3>1
    <3>4. \A x \in S : t.node[x].key # k
      BY <2>2, <3>2 DEF Apart
    <3>5. Reached(t.node, h, p)
      BY <3>2, <3>3, <3>4 DEF Reached, m
    <3> QED
      BY <3>1, <3>5 DEF p
  <2> QED
    BY <2>1, <2>2, <2>3, <2>4, <2>5, <2>6
<1> QED
  BY <1>3, <1>4

\* A key is absent if the getters do not find it.
LEMMA AbsentIs ==
  ASSUME KeyAssumption, NEW a \in Nat, NEW h \in Nat, NEW t, Built(t, a, h), NEW k \in Keys
  PROVE  Absent(t.node, h, k) <=> FindLive(t, k) = Nil
<1>1. Nil \notin 0 .. h - 1
  BY NilApart
<1> QED
  BY <1>1, FindFacts DEF Absent

-----------------------------------------------------------------------------
\* The table as a map.

Contents == [Keys -> Vals \cup {Nil}]

Maps(t, a, h, c) ==
  \A k \in Keys : /\ k \in 0 .. a - 1 => c[k] = t.array[k]
                  /\ k \notin 0 .. a - 1 => \A w \in Vals : Holds(t.node, h, k, w) <=> c[k] = w

\* What a lookup gives.
LEMMA Lookup ==
  ASSUME KeyAssumption, NEW a \in Nat, NEW h \in Nat, NEW t, Built(t, a, h), NEW c \in Contents,
         Maps(t, a, h, c), NEW k \in Keys
  PROVE  /\ Get(t, k) = c[k]
         /\ k \notin 0 .. a - 1 => /\ At(t, FindLive(t, k)) = c[k] /\ At(t, FindAny(t, k)) = c[k]
                                   /\ FindLive(t, k) = Nil <=> c[k] = Nil
         /\ k \in 0 .. a - 1 => FindLive(t, k) = Nil
         /\ Absent(t.node, h, k) <=> (k \notin 0 .. a - 1 => c[k] = Nil)
<1>1. DOMAIN t.array = 0 .. a - 1 /\ t.node \in Hashes(h) /\ Own(t.node, h, Keys \ (0 .. a - 1))
      /\ Nil \notin 0 .. h - 1
  BY BuiltFacts, NilApart DEF Sound, Frame
<1>2. \A p \in 0 .. h - 1 : t.node[p].val \in Vals \cup {Nil}
  BY <1>1, SlotOf
<1>3. c[k] \in Vals \cup {Nil} /\ Nil \notin Vals
  BY DEF Contents, KeyAssumption
<1>4. CASE k \in 0 .. a - 1
  <2>1. Get(t, k) = c[k]
    BY <1>1, <1>4 DEF Get, Maps
  <2>2. Absent(t.node, h, k)
    BY <1>1, <1>4 DEF Absent, Own
  <2> QED
    BY <1>4, <2>1, <2>2, AbsentIs
<1>5. CASE k \notin 0 .. a - 1
  <2>1. \A w \in Vals : Holds(t.node, h, k, w) <=> c[k] = w
    BY <1>5 DEF Maps
  <2>2. CASE Absent(t.node, h, k)
    <3>1. c[k] = Nil
      BY <1>3, <2>1, <2>2 DEF Absent, Holds
    <3>2. FindLive(t, k) = Nil
      BY <2>2, AbsentIs
    <3>3. At(t, FindLive(t, k)) = Nil
      BY <3>2 DEF At
    <3>4. At(t, FindAny(t, k)) = Nil
      <4>1. FindAny(t, k) # Nil => t.node[FindAny(t, k)].val = Nil
        BY <2>2, FindFacts DEF Absent
      <4> QED
        BY <4>1 DEF At
    <3> QED
      BY <1>1, <1>5, <2>2, <3>1, <3>2, <3>3, <3>4 DEF Get
  <2>3. CASE ~Absent(t.node, h, k)
    <3>1. PICK p \in 0 .. h - 1 : t.node[p].val # Nil /\ t.node[p].key = k
      BY <2>3 DEF Absent
    <3>2. FindLive(t, k) = p /\ FindAny(t, k) = p /\ p # Nil
      <4>1. \A q \in 0 .. h - 1 : t.node[q].key = k /\ t.node[q].val # Nil
                                  => FindLive(t, k) = q /\ FindAny(t, k) = q
        BY FindFacts
      <4> QED
        BY <1>1, <3>1, <4>1
    <3>3. c[k] = t.node[p].val
      BY <1>2, <2>1, <3>1 DEF Holds
    <3> QED
      BY <1>1, <1>5, <2>3, <3>1, <3>2, <3>3 DEF Get, At
  <2> QED
    BY <2>2, <2>3
<1> QED
  BY <1>4, <1>5

\* A value is stored in the array part; ...
LEMMA StoreElement ==
  ASSUME KeyAssumption, NEW a \in Nat, NEW h \in Nat, NEW t, Built(t, a, h), NEW c \in Contents,
         Maps(t, a, h, c), NEW k \in Keys \cap (0 .. a - 1), NEW v \in Vals \cup {Nil},
         NEW u, u = WithElement(t, k, v)
  PROVE  Built(u, a, h) /\ Maps(u, a, h, [c EXCEPT ![k] = v]) /\ u.node = t.node
<1>1. /\ t \in Tabs(a, h) /\ t.array \in Arrays(a) /\ DOMAIN t.array = 0 .. a - 1
  BY BuiltFacts
<1>2. /\ u \in Tabs(a, h) /\ u.array = [t.array EXCEPT ![k] = v]
      /\ u.node = t.node /\ u.freetop = t.freetop
  BY <1>1, ElementSet
<1>3. k \in Ints
  <2>1. k \in Nat
    OBVIOUS
  <2> QED
    BY <2>1 DEF KeyAssumption, Keys
<1>4. u.array[k] = v /\ \A i \in 0 .. a - 1 : i # k => u.array[i] = t.array[i]
  BY <1>1, <1>2
<1>5. Built(u, a, h)
  BY <1>2, <1>3, <1>4 DEF Built
<1> DEFINE d == [c EXCEPT ![k] = v]
<1>6. d[k] = v /\ \A x \in Keys : x # k => d[x] = c[x]
  BY DEF Contents
<1> HIDE DEF d
<1>7. Maps(u, a, h, d)
  BY <1>2, <1>4, <1>6 DEF Maps
<1> QED
  BY <1>2, <1>5, <1>7 DEF d

Settable(t, h, n, k) == t.node[n].val # Nil \/ Absent(t.node, h, k)

\* ... in a node that is found as the first one with its key; ...
LEMMA StoreNode ==
  ASSUME KeyAssumption, NEW a \in Nat, NEW h \in Nat, NEW t, Built(t, a, h), NEW c \in Contents,
         Maps(t, a, h, c), NEW k \in Keys \ (0 .. a - 1), NEW v \in Vals \cup {Nil},
         NEW n \in 0 .. h - 1, t.node[n].key = k, Reached(t.node, h, n),
         Settable(t, h, n, k), NEW u, u = WithVal(t, n, v)
  PROVE  /\ Built(u, a, h) /\ Maps(u, a, h, [c EXCEPT ![k] = v])
         /\ u.array = t.array /\ u.freetop = t.freetop
         /\ \A x \in 0 .. h - 1 : u.node[x].key = t.node[x].key /\ u.node[x].next = t.node[x].next
         /\ \A x \in 0 .. h - 1 : x # n => u.node[x].val = t.node[x].val
<1> DEFINE K == Keys \ (0 .. a - 1)
<1>1. t \in Tabs(a, h) /\ Sound(t.node, h, K)
  BY BuiltFacts
<1>2. /\ u \in Tabs(a, h) /\ u.array = t.array /\ u.freetop = t.freetop
      /\ u.node[n].key = t.node[n].key /\ u.node[n].val = v /\ u.node[n].next = t.node[n].next
      /\ \A x \in 0 .. h - 1 : x # n => u.node[x] = t.node[x]
  <2>1. t \in Tabs(a, h)
    BY <1>1
  <2> HIDE DEF K
  <2> QED
    BY <2>1, ValSet
<1>3. /\ \A x \in 0 .. h - 1 : u.node[x].key = t.node[x].key /\ u.node[x].next = t.node[x].next
      /\ \A x \in 0 .. h - 1 : x # n => u.node[x].val = t.node[x].val
  BY <1>2
<1>4. u.node \in Hashes(h)
  BY <1>2, TabFacts
<1>5. \A x \in 0 .. h - 1 : t.node[x].val # Nil /\ t.node[x].key = k => x = n
  BY <1>1 DEF Settable, Sound, Frame, Distinct, Absent
<1>6. k # Nil
  BY DEF KeyAssumption, Keys
<1>7. Sound(u.node, h, K)
  <2>1. Ends(u.node, h) /\ OnePred(u.node, h)
    BY <1>1, <1>3, SameChains DEF Sound, Frame
  <2>2. Linked(u.node, h)
    <3> SUFFICES ASSUME NEW x \in 0 .. h - 1, u.node[x].next # Nil
                 PROVE  u.node[u.node[x].next].key # Nil
      BY DEF Linked
    <3>1. u.node[x].next \in 0 .. h - 1 /\ u.node[x].next = t.node[x].next
      BY <1>3, <1>4, SlotOf
    <3> QED
      BY <1>1, <1>3, <3>1 DEF Sound, Frame, Linked
  <2>3. Blank(u.node, h)
    BY <1>1, <1>2, <1>3, <1>6 DEF Sound, Frame, Blank
  <2>4. Own(u.node, h, K)
    BY <1>1, <1>3 DEF Sound, Frame, Own
  <2>5. Distinct(u.node, h)
    <3> SUFFICES ASSUME NEW x \in 0 .. h - 1, NEW y \in 0 .. h - 1, u.node[x].val # Nil,
                        u.node[y].val # Nil, u.node[x].key = u.node[y].key
                 PROVE  x = y
      BY DEF Distinct
    <3>1. x # n => t.node[x].val # Nil
      BY <1>3
    <3>2. y # n => t.node[y].val # Nil
      BY <1>3
    <3>3. t.node[x].key = t.node[y].key
      BY <1>3
    <3> QED
      BY <1>1, <1>5, <3>1, <3>2, <3>3 DEF Sound, Frame, Distinct
  <2>6. ASSUME NEW p \in 0 .. h - 1, u.node[p].val # Nil
        PROVE  Reached(u.node, h, p)
    <3>1. Reached(t.node, h, p)
      BY <1>1, <1>3, <2>6 DEF Sound
    <3>2. PICK S \in SUBSET (0 .. h - 1) :
            Way(t.node, Home(h, t.node[p].key), p, S) /\ \A x \in S : t.node[x].key # t.node[p].key
      BY <3>1 DEF Reached
    <3>3. Way(u.node, Home(h, t.node[p].key), p, S)
      BY <1>3, <3>2, SameChains, ZenonT(40)
    <3>4. u.node[p].key = t.node[p].key /\ \A x \in S : u.node[x].key # t.node[p].key
      BY <1>3, <3>2
    <3> QED
      BY <3>3, <3>4 DEF Reached
  <2> QED
    BY <1>4, <2>1, <2>2, <2>3, <2>4, <2>5, <2>6 DEF Sound, Frame
<1>8. Built(u, a, h)
  BY <1>2, <1>3, <1>7 DEF Built
<1> DEFINE d == [c EXCEPT ![k] = v]
<1>9. d[k] = v /\ \A x \in Keys : x # k => d[x] = c[x]
  BY DEF Contents
<1> HIDE DEF d
<1>10. Maps(u, a, h, d)
  <2> SUFFICES ASSUME NEW x \in Keys
               PROVE  /\ x \in 0 .. a - 1 => d[x] = u.array[x]
                      /\ x \notin 0 .. a - 1 => \A w \in Vals : Holds(u.node, h, x, w) <=> d[x] = w
    BY DEF Maps
  <2>1. x \in 0 .. a - 1 => d[x] = u.array[x]
    BY <1>2, <1>9 DEF Maps
  <2>2. ASSUME x \notin 0 .. a - 1, NEW w \in Vals
        PROVE  Holds(u.node, h, x, w) <=> d[x] = w
    <3>0. w # Nil
      BY DEF KeyAssumption
    <3>1. CASE x = k
      BY <1>2, <1>3, <1>5, <1>9, <3>0, <3>1 DEF Holds
    <3>2. CASE x # k
      <4>1. Holds(u.node, h, x, w) <=> Holds(t.node, h, x, w)
        BY <1>3, <3>2 DEF Holds
      <4> QED
        BY <1>9, <2>2, <3>2, <4>1 DEF Maps
    <3> QED
      BY <3>1, <3>2
  <2> QED
    BY <2>1, <2>2
<1> QED
  BY <1>2, <1>3, <1>8, <1>10 DEF d

\* ... or in a node for a new key.
LEMMA AddedMaps ==
  ASSUME KeyAssumption, NEW a \in Nat, NEW h \in Nat, NEW t, NEW c \in Contents, Maps(t, a, h, c),
         NEW k \in Keys \ (0 .. a - 1), c[k] = Nil, NEW v \in Vals \cup {Nil},
         NEW u, Added(t, u, a, h, k, v)
  PROVE  Maps(u, a, h, [c EXCEPT ![k] = v])
<1> DEFINE d == [c EXCEPT ![k] = v]
<1>1. d[k] = v /\ \A x \in Keys : x # k => d[x] = c[x]
  BY DEF Contents
<1> HIDE DEF d
<1>2. Maps(u, a, h, d)
  <2> SUFFICES ASSUME NEW x \in Keys
               PROVE  /\ x \in 0 .. a - 1 => d[x] = u.array[x]
                      /\ x \notin 0 .. a - 1 => \A w \in Vals : Holds(u.node, h, x, w) <=> d[x] = w
    BY DEF Maps
  <2>1. x \in 0 .. a - 1 => d[x] = u.array[x]
    BY <1>1 DEF Maps, Added
  <2>2. ASSUME x \notin 0 .. a - 1, NEW w \in Vals
        PROVE  Holds(u.node, h, x, w) <=> d[x] = w
    <3>1. Holds(u.node, h, x, w) <=> (Holds(t.node, h, x, w) \/ (x = k /\ w = v))
      BY DEF Added
    <3>2. Holds(t.node, h, x, w) <=> c[x] = w
      BY <2>2 DEF Maps
    <3>3. w # Nil
      BY DEF KeyAssumption
    <3> QED
      BY <1>1, <3>1, <3>2, <3>3
  <2> QED
    BY <2>1, <2>2
<1> QED
  BY <1>2 DEF d

\* A store through the C setters, with room for a new key.
LEMMA PutFacts ==
  ASSUME KeyAssumption, NEW a \in Nat, NEW h \in Nat, NEW t, Built(t, a, h), NEW c \in Contents,
         Maps(t, a, h, c), NEW k \in Keys, NEW v \in Vals \cup {Nil},
         k \notin 0 .. a - 1 /\ c[k] = Nil => Room(t, k)
  PROVE  /\ Built(Put(t, k, v), a, h) /\ Maps(Put(t, k, v), a, h, [c EXCEPT ![k] = v])
         /\ v # Nil /\ Fresh(t.node, h) => Fresh(Put(t, k, v).node, h)
<1> DEFINE n == FindLive(t, k)
           u == Put(t, k, v)
<1>1. DOMAIN t.array = 0 .. a - 1
  BY BuiltFacts
<1>2. u = IF k \in 0 .. a - 1 THEN WithElement(t, k, v)
          ELSE IF n # Nil THEN WithVal(t, n, v) ELSE Place(t, k, v)
  BY <1>1 DEF Put, WithElement, WithVal
<1>3. CASE k \in 0 .. a - 1
  <2>1. u = WithElement(t, k, v)
    BY <1>2, <1>3
  <2> HIDE DEF u, n
  <2>3. k \in Keys \cap (0 .. a - 1)
    BY <1>3
  <2>2. Built(u, a, h) /\ Maps(u, a, h, [c EXCEPT ![k] = v]) /\ u.node = t.node
    <3>1. \A w : w = WithElement(t, k, v)
                   => Built(w, a, h) /\ Maps(w, a, h, [c EXCEPT ![k] = v]) /\ w.node = t.node
      BY <2>3, StoreElement
    <3> QED
      BY <2>1, <3>1, Zenon
  <2> QED
    BY <2>2 DEF u
<1>4. CASE k \notin 0 .. a - 1 /\ n # Nil
  <2>0. u = WithVal(t, n, v) /\ k \in Keys \ (0 .. a - 1)
    BY <1>2, <1>4
  <2>1. n \in 0 .. h - 1 /\ t.node[n].key = k /\ t.node[n].val # Nil
    BY <1>4, FindFacts
  <2>2. Reached(t.node, h, n)
    BY <2>1, BuiltFacts DEF Sound
  <2> HIDE DEF u, n
  <2>3. /\ Built(u, a, h) /\ Maps(u, a, h, [c EXCEPT ![k] = v])
        /\ \A x \in 0 .. h - 1 : u.node[x].key = t.node[x].key /\ u.node[x].next = t.node[x].next
        /\ \A x \in 0 .. h - 1 : x # n => u.node[x].val = t.node[x].val
        /\ u.node[n].val = v
    <3>1. /\ Built(u, a, h) /\ Maps(u, a, h, [c EXCEPT ![k] = v])
          /\ \A x \in 0 .. h - 1 : u.node[x].key = t.node[x].key /\ u.node[x].next = t.node[x].next
          /\ \A x \in 0 .. h - 1 : x # n => u.node[x].val = t.node[x].val
      BY <2>0, <2>1, <2>2, StoreNode, SMTT(20) DEF Settable
    <3>2. t \in Tabs(a, h)
      BY DEF Built
    <3>3. u.node[n].val = v
      BY <2>0, <2>1, <3>2, ValSet
    <3> QED
      BY <3>1, <3>3
  <2>4. v # Nil /\ Fresh(t.node, h) => Fresh(u.node, h)
    BY <2>1, <2>3 DEF Fresh
  <2> QED
    BY <2>3, <2>4 DEF u
<1>5. CASE k \notin 0 .. a - 1 /\ n = Nil
  <2>0. u = Place(t, k, v) /\ k \in Keys \ (0 .. a - 1)
    BY <1>2, <1>5
  <2>1. Absent(t.node, h, k)
    BY <1>5, AbsentIs
  <2>2. c[k] = Nil
    BY <1>5, Lookup
  <2>3. Added(t, u, a, h, k, v)
    BY <1>5, <2>0, <2>1, <2>2, PlaceAdds
  <2> HIDE DEF u
  <2>4. Maps(u, a, h, [c EXCEPT ![k] = v])
    BY <2>0, <2>2, <2>3, AddedMaps
  <2> QED
    BY <2>3, <2>4 DEF Added, u
<1> QED
  BY <1>3, <1>4, <1>5

-----------------------------------------------------------------------------
\* New tables.

PowTo(P, b) == P = [i \in 0 .. b |-> IF i = 0 THEN 1 ELSE 2 * P[i - 1]]

\* The function that Pow2 uses exists.
LEMMA PowExists ==
  ASSUME NEW b \in Nat
  PROVE  \E P \in [0 .. b -> Nat] : PowTo(P, b)
<1> DEFINE T == {n \in Nat : \E P \in [0 .. n -> Nat] : PowTo(P, n)}
<1>1. 0 \in T
  <2>1. [i \in 0 .. 0 |-> 1] \in [0 .. 0 -> Nat] /\ PowTo([i \in 0 .. 0 |-> 1], 0)
    BY DEF PowTo
  <2> QED
    BY <2>1
<1>2. ASSUME NEW n \in Nat, n \in T
      PROVE  n + 1 \in T
  <2>1. PICK P \in [0 .. n -> Nat] : PowTo(P, n)
    BY <1>2
  <2> DEFINE Q == [i \in 0 .. n + 1 |-> IF i = 0 THEN 1 ELSE 2 * P[i - 1]]
  <2>2. \A i \in 0 .. n : P[i] = IF i = 0 THEN 1 ELSE 2 * P[i - 1]
    BY <2>1 DEF PowTo
  <2>3. \A i \in 0 .. n : Q[i] = P[i]
    BY <2>2
  <2>4. \A i \in 0 .. n + 1 : i # 0 => i - 1 \in 0 .. n
    OBVIOUS
  <2>5. \A i \in 0 .. n + 1 : Q[i] = IF i = 0 THEN 1 ELSE 2 * Q[i - 1]
    BY <2>3, <2>4
  <2>6. Q \in [0 .. n + 1 -> Nat]
    BY <2>4
  <2>7. Q = [i \in 0 .. n + 1 |-> Q[i]]
    OBVIOUS
  <2> HIDE DEF Q
  <2>8. PowTo(Q, n + 1)
    BY <2>5, <2>7 DEF PowTo
  <2> QED
    BY <2>6, <2>8
<1> HIDE DEF T
<1>3. Nat \subseteq T
  BY <1>1, <1>2, SetInduction
<1> QED
  BY <1>3 DEF T

\* What Pow2 computes, step by step.
LEMMA Pow2Is ==
  ASSUME NEW b \in Nat
  PROVE  \E P \in [0 .. b -> Nat] : /\ Pow2(b) = P[b] /\ P[0] = 1
                                    /\ \A i \in 1 .. b : P[i] = 2 * P[i - 1]
<1> DEFINE P == CHOOSE F : F = [i \in 0 .. b |-> IF i = 0 THEN 1 ELSE 2 * F[i - 1]]
<1>1. Pow2(b) = P[b]
  BY DEF Pow2
<1>2. P = CHOOSE F : PowTo(F, b)
  BY DEF PowTo
<1> HIDE DEF P
<1>3. \E F \in [0 .. b -> Nat] : PowTo(F, b)
  BY PowExists
<1>4. PowTo(P, b)
  BY <1>2, <1>3, Zenon
<1>5. \A i \in 0 .. b : P[i] = IF i = 0 THEN 1 ELSE 2 * P[i - 1]
  BY <1>4 DEF PowTo
<1>6. PICK F \in [0 .. b -> Nat] : PowTo(F, b)
  BY <1>3
<1>7. \A i \in 0 .. b : F[i] = IF i = 0 THEN 1 ELSE 2 * F[i - 1]
  BY <1>6 DEF PowTo
<1> DEFINE T == {i \in Nat : i <= b => P[i] = F[i]}
<1>8. Nat \subseteq T
  <2>1. 0 \in T
    BY <1>5, <1>7
  <2>2. ASSUME NEW n \in Nat, n \in T
        PROVE  n + 1 \in T
    <3> SUFFICES ASSUME n + 1 <= b
                 PROVE  P[n + 1] = F[n + 1]
      OBVIOUS
    <3>1. P[n] = F[n] /\ n + 1 \in 0 .. b /\ n + 1 # 0 /\ (n + 1) - 1 = n
      BY <2>2
    <3> QED
      BY <1>5, <1>7, <3>1
  <2> HIDE DEF T
  <2> QED
    BY <2>1, <2>2, SetInduction
<1>9. \A i \in 0 .. b : P[i] = F[i]
  BY <1>8
<1>10. \A i \in 1 .. b : F[i] = 2 * F[i - 1]
  <2> SUFFICES ASSUME NEW i \in 1 .. b
               PROVE  F[i] = 2 * F[i - 1]
    OBVIOUS
  <2>1. i \in 0 .. b /\ i # 0
    OBVIOUS
  <2> QED
    BY <1>7, <2>1
<1>11. F[0] = 1
  BY <1>7
<1> QED
  BY <1>1, <1>9, <1>10, <1>11, SMTT(20)

\* The powers of two: two powers agree on the way to the smaller one.
LEMMA Pow2Facts ==
  /\ Pow2(0) = 1
  /\ \A b \in Nat : Pow2(b) \in Nat /\ Pow2(b + 1) = 2 * Pow2(b) /\ b < Pow2(b)
<1>1. Pow2(0) = 1
  BY Pow2Is
<1>2. ASSUME NEW b \in Nat
      PROVE  Pow2(b) \in Nat /\ Pow2(b + 1) = 2 * Pow2(b)
  <2>1. PICK P \in [0 .. b -> Nat] : /\ Pow2(b) = P[b] /\ P[0] = 1
                                     /\ \A i \in 1 .. b : P[i] = 2 * P[i - 1]
    BY Pow2Is
  <2>2. PICK Q \in [0 .. b + 1 -> Nat] : /\ Pow2(b + 1) = Q[b + 1] /\ Q[0] = 1
                                         /\ \A i \in 1 .. b + 1 : Q[i] = 2 * Q[i - 1]
    <3>1. \A d \in Nat : \E Q \in [0 .. d -> Nat] : /\ Pow2(d) = Q[d] /\ Q[0] = 1
                                                      /\ \A i \in 1 .. d : Q[i] = 2 * Q[i - 1]
      BY Pow2Is
    <3>2. b + 1 \in Nat
      OBVIOUS
    <3> QED
      BY <3>1, <3>2, Zenon
  <2> DEFINE T == {i \in Nat : i <= b => P[i] = Q[i]}
  <2>3. 0 \in T
    BY <2>1, <2>2
  <2>4. ASSUME NEW n \in Nat, n \in T
        PROVE  n + 1 \in T
    <3> SUFFICES ASSUME n + 1 <= b
                 PROVE  P[n + 1] = Q[n + 1]
      OBVIOUS
    <3>1. P[n] = Q[n] /\ n + 1 \in 1 .. b /\ n + 1 \in 1 .. b + 1 /\ (n + 1) - 1 = n
      BY <2>4
    <3> QED
      BY <2>1, <2>2, <3>1
  <2> HIDE DEF T
  <2>5. Nat \subseteq T
    BY <2>3, <2>4, SetInduction
  <2>6. P[b] = Q[b]
    BY <2>5 DEF T
  <2>7. b + 1 \in 1 .. b + 1 /\ (b + 1) - 1 = b /\ b \in 0 .. b
    OBVIOUS
  <2>8. Q[b + 1] = 2 * Q[b]
    BY <2>2, <2>7
  <2> QED
    BY <2>1, <2>2, <2>6, <2>7, <2>8
<1> DEFINE T == {b \in Nat : b < Pow2(b)}
<1>3. 0 \in T
  BY <1>1
<1>4. ASSUME NEW n \in Nat, n \in T
      PROVE  n + 1 \in T
  <2>1. n < Pow2(n) /\ Pow2(n) \in Nat /\ Pow2(n + 1) = 2 * Pow2(n)
    BY <1>2, <1>4
  <2>2. n + 1 < Pow2(n + 1)
    BY <2>1
  <2> QED
    BY <2>2
<1> HIDE DEF T
<1>5. Nat \subseteq T
  BY <1>3, <1>4, SetInduction
<1> QED
  BY <1>1, <1>2, <1>5 DEF T

\* Powers of two grow.
LEMMA Pow2Mono ==
  ASSUME NEW b \in Nat, NEW d \in Nat, b <= d
  PROVE  Pow2(b) <= Pow2(d)
<1> DEFINE T == {i \in Nat : b <= i => Pow2(b) <= Pow2(i)}
<1>1. 0 \in T
  BY Pow2Facts
<1>2. ASSUME NEW n \in Nat, n \in T
      PROVE  n + 1 \in T
  <2>1. Pow2(n) \in Nat /\ Pow2(n + 1) = 2 * Pow2(n) /\ Pow2(b) \in Nat
    BY Pow2Facts
  <2>2. CASE b <= n
    <3>1. Pow2(b) <= Pow2(n)
      BY <1>2, <2>2
    <3>2. Pow2(b) <= Pow2(n + 1)
      BY <2>1, <3>1
    <3> QED
      BY <3>2
  <2>3. CASE ~(b <= n)
    <3>1. b <= n + 1 => b = n + 1
      BY <2>3
    <3> QED
      BY <2>1, <3>1
  <2> QED
    BY <2>2, <2>3
<1> HIDE DEF T
<1>3. Nat \subseteq T
  BY <1>1, <1>2, SetInduction
<1> QED
  BY <1>3 DEF T

\* The logarithm, rounded down.
LEMMA Log2Facts ==
  ASSUME NEW n \in Nat, n # 0
  PROVE  Log2(n) \in Nat /\ Pow2(Log2(n)) <= n /\ n < Pow2(Log2(n) + 1)
<1> DEFINE S == {b \in 0 .. n : Pow2(b) <= n}
           l == Max(S)
<1>1. 0 \in S /\ S \in SUBSET (0 .. n)
  BY Pow2Facts
<1>2. \A b \in 0 .. n : b \notin S => n < Pow2(b)
  <2>1. \A b \in Nat : Pow2(b) \in Nat
    BY Pow2Facts
  <2> QED
    BY <2>1
<1>3. \A b \in S : Pow2(b) <= n
  OBVIOUS
<1>4. Log2(n) = l
  BY DEF Log2
<1> HIDE DEF S
<1>5. l \in S /\ \A x \in S : x <= l
  BY <1>1, MaxIsGreatest
<1>6. l \in 0 .. n /\ l \in Nat
  <2>1. l \in 0 .. n
    BY <1>1, <1>5, Zenon
  <2> QED
    BY <2>1
<1> HIDE DEF l
<1>7. n < Pow2(l + 1)
  <2>1. CASE l + 1 \in 0 .. n
    <3>1. l + 1 \notin S
      BY <1>5, <1>6
    <3> QED
      BY <1>2, <2>1, <3>1
  <2>2. CASE l + 1 \notin 0 .. n
    <3>1. l + 1 \in Nat /\ n < l + 1
      BY <1>6, <2>2
    <3>2. l + 1 < Pow2(l + 1) /\ Pow2(l + 1) \in Nat
      BY <3>1, Pow2Facts
    <3> QED
      BY <3>1, <3>2
  <2> QED
    BY <2>1, <2>2
<1> QED
  BY <1>3, <1>4, <1>5, <1>6, <1>7

\* A size that a hash part can have; the one for a number of bits.
Sizes == {0} \cup {Pow2(b) : b \in Nat \ {0}}

HashSize(b) == IF b = 0 THEN 0 ELSE Pow2(b)

\* A hash part has room for as many nodes as were asked for.
LEMMA HashSizes ==
  ASSUME NEW s \in Nat
  PROVE  /\ HsizeToBits(s) \in Nat /\ HashSize(HsizeToBits(s)) \in Sizes
         /\ HashSize(HsizeToBits(s)) \in Nat /\ s <= HashSize(HsizeToBits(s))
<1>1. CASE s = 0
  BY <1>1 DEF HsizeToBits, HashSize, Sizes
<1>2. CASE s = 1
  <2>1. HsizeToBits(s) = 1 /\ HashSize(1) = Pow2(1)
    BY <1>2 DEF HsizeToBits, HashSize
  <2>2. Pow2(1) \in Nat /\ 1 < Pow2(1)
    BY Pow2Facts
  <2>3. Pow2(1) \in Sizes
    BY DEF Sizes
  <2> QED
    BY <1>2, <2>1, <2>2, <2>3
<1>3. CASE s > 1
  <2> DEFINE b == Log2(s - 1) + 1
  <2>1. Log2(s - 1) \in Nat /\ s - 1 < Pow2(b)
    BY <1>3, Log2Facts
  <2>2. HsizeToBits(s) = b /\ b \in Nat \ {0}
    BY <1>3, <2>1 DEF HsizeToBits
  <2> HIDE DEF b
  <2>3. Pow2(b) \in Nat /\ Pow2(b) \in Sizes
    BY <2>2, Pow2Facts DEF Sizes
  <2>4. HashSize(b) = Pow2(b)
    BY <2>2 DEF HashSize
  <2>5. s <= Pow2(b)
    BY <2>1, <2>3
  <2> QED
    BY <2>2, <2>3, <2>4, <2>5
<1> QED
  BY <1>1, <1>2, <1>3

\* The keys in the bins up to b are at most 2^(b+1).
LEMMA BinFacts ==
  ASSUME NEW k \in Nat
  PROVE  Bin(k) \in Nat /\ \A b \in Nat : Bin(k) <= b => k < Pow2(b + 1) + 1
<1>1. CASE k <= 2
  <2>1. Bin(k) = 0
    BY <1>1 DEF Bin
  <2>2. ASSUME NEW b \in Nat
        PROVE  k < Pow2(b + 1) + 1
    <3>1. Pow2(1) <= Pow2(b + 1) /\ Pow2(1) = 2 * Pow2(0) /\ Pow2(b + 1) \in Nat /\ Pow2(0) = 1
      BY Pow2Mono, Pow2Facts, SMTT(20)
    <3> QED
      BY <1>1, <3>1
  <2> QED
    BY <2>1, <2>2
<1>2. CASE ~(k <= 2)
  <2>1. k - 1 \in Nat /\ k - 1 # 0 /\ Bin(k) = Log2(k - 1)
    BY <1>2 DEF Bin
  <2>2. Log2(k - 1) \in Nat /\ k - 1 < Pow2(Log2(k - 1) + 1)
    BY <2>1, Log2Facts
  <2>3. ASSUME NEW b \in Nat, Bin(k) <= b
        PROVE  k < Pow2(b + 1) + 1
    <3>1. Log2(k - 1) + 1 \in Nat /\ b + 1 \in Nat /\ Log2(k - 1) + 1 <= b + 1
      BY <2>1, <2>2, <2>3
    <3>2. Pow2(Log2(k - 1) + 1) <= Pow2(b + 1)
      BY <3>1, Pow2Mono
    <3>3. Pow2(b + 1) \in Nat /\ Pow2(Log2(k - 1) + 1) \in Nat
      BY <3>1, Pow2Facts
    <3> QED
      BY <2>2, <3>2, <3>3
  <2> QED
    BY <2>1, <2>2, <2>3
<1> QED
  BY <1>1, <1>2

\* The keys that are counted for the array part fit into it.
LEMMA BestFits ==
  ASSUME NEW ints \in SUBSET Nat, IsFiniteSet(ints)
  PROVE  /\ BestAsize(ints).size \in Nat
         /\ \E B \in SUBSET ints : /\ BestAsize(ints).used = Cardinality(B)
                                   /\ \A k \in B : k < BestAsize(ints).size
<1> DEFINE below(b) == Cardinality({k \in ints : Bin(k) <= b})
           good == {b \in {Bin(k) : k \in ints} :
                      /\ 2 * Cardinality(ints) > Pow2(b)
                      /\ 2 * below(b) > Pow2(b)}
           m == Max(good)
<1>1. BestAsize(ints) = IF good = {} THEN [size |-> 0, used |-> 0]
                        ELSE [size |-> Pow2(Max(good) + 1) + 1, used |-> below(Max(good))]
  BY DEF BestAsize
<1>2. CASE good = {}
  <2>1. BestAsize(ints).size = 0 /\ BestAsize(ints).used = 0
    BY <1>1, <1>2
  <2>2. Cardinality({}) = 0 /\ {} \in SUBSET ints
    BY FS_EmptySet
  <2>3. \A k \in {} : k < BestAsize(ints).size
    OBVIOUS
  <2> QED
    BY <2>1, <2>2, <2>3
<1>3. CASE good # {}
  <2> DEFINE c == Cardinality(ints)
  <2>1. c \in Nat
    BY FS_CardinalityType
  <2>2. \A b \in good : (\E k \in ints : b = Bin(k)) /\ 2 * c > Pow2(b)
    OBVIOUS
  <2>3. BestAsize(ints).size = Pow2(m + 1) + 1 /\ BestAsize(ints).used = below(m)
    <3>1. BestAsize(ints) = [size |-> Pow2(m + 1) + 1, used |-> below(m)]
      <4> HIDE DEF good
      <4> QED
        BY <1>1, <1>3, Zenon
    <3> HIDE DEF m, below
    <3> QED
      BY <3>1
  <2> HIDE DEF good, c
  <2>4. \A b \in good : b \in 0 .. 2 * c
    <3> SUFFICES ASSUME NEW b \in good
                 PROVE  b \in 0 .. 2 * c
      OBVIOUS
    <3>1. b \in Nat
      BY <2>2, BinFacts
    <3>2. b < Pow2(b) /\ Pow2(b) \in Nat /\ 2 * c > Pow2(b)
      BY <2>2, <3>1, Pow2Facts
    <3> QED
      BY <2>1, <3>1, <3>2
  <2>5. m \in good
    <3>1. good \in SUBSET (0 .. 2 * c) /\ 2 * c \in Nat
      BY <2>1, <2>4
    <3> QED
      BY <1>3, <3>1, MaxIsGreatest
  <2>6. m \in Nat
    BY <2>1, <2>4, <2>5
  <2> DEFINE B == {k \in ints : Bin(k) <= m}
  <2>7. BestAsize(ints).used = Cardinality(B) /\ B \in SUBSET ints
    BY <2>3
  <2> HIDE DEF m
  <2>8. \A k \in B : k < BestAsize(ints).size
    BY <2>3, <2>6, BinFacts
  <2>9. BestAsize(ints).size \in Nat
    BY <2>3, <2>6, Pow2Facts
  <2> QED
    BY <2>7, <2>8, <2>9
<1> QED
  BY <1>2, <1>3

\* A table whose hash part is new.
Emptied(t, a, h) ==
  t \in Tabs(a, h) /\ t.node = [n \in 0 .. h - 1 |-> FreeNode] /\ t.freetop = h

\* A new hash part is sound.
LEMMA EmptyHash ==
  ASSUME KeyAssumption, NEW a \in Nat, NEW h \in Nat, NEW t, Emptied(t, a, h),
         \A i \in 0 .. a - 1 : t.array[i] # Nil => i \in Ints
  PROVE  /\ Built(t, a, h) /\ Fresh(t.node, h)
         /\ \A k, w : Holds(t.node, h, k, w) => w = Nil
<1>1. /\ t.node \in Hashes(h) /\ t.freetop = h
      /\ \A n \in 0 .. h - 1 : t.node[n].key = Nil /\ t.node[n].val = Nil /\ t.node[n].next = Nil
      /\ t \in Tabs(a, h)
  <2>1. \A n \in 0 .. h - 1 : t.node[n] = FreeNode
    BY DEF Emptied
  <2>2. FreeNode.key = Nil /\ FreeNode.val = Nil /\ FreeNode.next = Nil
    BY DEF FreeNode
  <2> QED
    BY <2>1, <2>2, TabFacts DEF Emptied
<1>2. Ends(t.node, h)
  <2>1. [x \in 0 .. h - 1 |-> 0] \in [0 .. h - 1 -> 0 .. 0] /\ Ranked(t.node, h, [x \in 0 .. h - 1 |-> 0])
    BY <1>1 DEF Ranked
  <2> QED
    BY <2>1 DEF Ends
<1>3. Frame(t.node, h, Keys \ (0 .. a - 1))
  BY <1>1, <1>2 DEF Frame, OnePred, Linked, Blank, Own, Distinct
<1>4. Sound(t.node, h, Keys \ (0 .. a - 1))
  BY <1>1, <1>3 DEF Sound
<1>5. Built(t, a, h)
  BY <1>1, <1>4 DEF Built
<1> QED
  BY <1>1, <1>5 DEF Fresh, Holds

\* Without dead keys there is room for a key as long as fewer keys than nodes are used.
LEMMA RoomFor ==
  ASSUME KeyAssumption, NEW a \in Nat, NEW h \in Nat, NEW t, Built(t, a, h), Fresh(t.node, h),
         NEW H, IsFiniteSet(H), Cardinality(H) <= h, NEW k \in H,
         \A x \in 0 .. h - 1 : t.node[x].val # Nil => t.node[x].key \in H \ {k}
  PROVE  Room(t, k)
<1> SUFFICES ASSUME ~Room(t, k)
             PROVE  FALSE
  OBVIOUS
<1>1. t.hsize = h /\ t.freetop \in 0 .. h /\ Sound(t.node, h, Keys \ (0 .. a - 1))
  BY BuiltFacts
<1>2. Cardinality(H) \in Nat /\ IsFiniteSet(H \ {k}) /\ Cardinality(H \ {k}) = Cardinality(H) - 1
      /\ Cardinality(H \ {k}) \in Nat
  BY FS_CardinalityType, FS_RemoveElement
<1>3. h > 0
  BY <1>2
<1>4. Unused(t) = {}
  BY <1>1, <1>3 DEF Room
<1>5. ASSUME NEW x \in 0 .. h - 1
      PROVE  t.node[x].val # Nil /\ t.node[x].key \in H \ {k}
  <2>1. t.node[x].key # Nil
    <3>1. CASE x >= t.freetop
      BY <3>1 DEF Built
    <3>2. CASE ~(x >= t.freetop)
      <4>1. x \in 0 .. t.freetop - 1
        BY <1>1, <3>2
      <4> QED
        BY <1>4, <4>1 DEF Unused
    <3> QED
      BY <3>1, <3>2
  <2> QED
    BY <2>1 DEF Fresh
<1>6. \A x, y \in 0 .. h - 1 : t.node[x].key = t.node[y].key => x = y
  BY <1>1, <1>5 DEF Sound, Frame, Distinct
<1> DEFINE T == 0 .. h - 1
           f == [x \in T |-> t.node[x].key]
<1>7. IsFiniteSet(T) /\ Cardinality(T) = h
  <2>1. IsFiniteSet(0 .. h - 1) /\ Cardinality(0 .. h - 1) = IF 0 > h - 1 THEN 0 ELSE h - 1 - 0 + 1
    BY FS_Interval
  <2> QED
    BY <1>3, <2>1
<1>8. f \in [T -> H \ {k}]
  BY <1>5
<1>9. \A x, y \in T : f[x] = f[y] => x = y
  BY <1>6
<1> HIDE DEF T, f
<1>10. Cardinality(H \ {k}) < Cardinality(T)
  BY <1>2, <1>7
<1>11. \E x, y \in T : x # y /\ f[x] = f[y]
  BY <1>2, <1>7, <1>8, <1>10, FS_PigeonHole
<1> QED
  BY <1>9, <1>11

-----------------------------------------------------------------------------
\* A resize.  items are the keys and values that go into the new parts.

Refill(U, items, N, new) ==
  U = [i \in 0 .. N |-> IF i = 0 THEN new
                        ELSE IF items[i][2] = Nil THEN U[i - 1]
                        ELSE Put(U[i - 1], items[i][1], items[i][2])]

\* The items are contents of the table, and all that is not in D.
Listing(items, N, c, D) ==
  /\ \A i \in 1 .. N : items[i][2] # Nil => items[i][1] \in Keys /\ c[items[i][1]] = items[i][2]
  /\ \A k \in Keys : c[k] # Nil /\ k \notin D => \E i \in 1 .. N : items[i][2] # Nil /\ items[i][1] = k

Moved(items, i, k) == \E j \in 1 .. i : items[j][2] # Nil /\ items[j][1] = k

\* The contents that are in D and those that are moved with the first i items.
Partial(items, c, D, i) ==
  [k \in Keys |-> IF k \in D \/ Moved(items, i, k) THEN c[k] ELSE Nil]

\* H has the keys that go into the hash part.
Holding(c, a, H) == \A k \in Keys : c[k] # Nil /\ k \notin 0 .. a - 1 => k \in H

Refilled(u, a, h, c) == Built(u, a, h) /\ Fresh(u.node, h) /\ Maps(u, a, h, c)

\* The rounds that put the old contents into a new table exist.
LEMMA RefillExists ==
  ASSUME NEW items, NEW N \in Nat, NEW new
  PROVE  \E U : Refill(U, items, N, new)
<1> DEFINE Step(u, i) == IF items[i][2] = Nil THEN u ELSE Put(u, items[i][1], items[i][2])
           Def(F, n) == F = [i \in 0 .. n |-> IF i = 0 THEN new ELSE Step(F[i - 1], i)]
           T == {n \in Nat : \E F : Def(F, n)}
<1>1. 0 \in T
  <2>1. Def([i \in 0 .. 0 |-> new], 0)
    OBVIOUS
  <2> QED
    BY <2>1
<1>2. ASSUME NEW n \in Nat, n \in T
      PROVE  n + 1 \in T
  <2>1. PICK F : Def(F, n)
    BY <1>2
  <2> HIDE DEF Step
  <2> DEFINE G == [i \in 0 .. n + 1 |-> IF i = n + 1 THEN Step(F[n], n + 1) ELSE F[i]]
  <2>2. \A i \in 0 .. n : F[i] = IF i = 0 THEN new ELSE Step(F[i - 1], i)
    BY <2>1
  <2>3. \A i \in 0 .. n : G[i] = F[i]
    OBVIOUS
  <2>4. G[n + 1] = Step(G[n], n + 1)
    BY <2>3
  <2>5. ASSUME NEW i \in 0 .. n + 1
        PROVE  G[i] = IF i = 0 THEN new ELSE Step(G[i - 1], i)
    <3> HIDE DEF G
    <3>1. CASE i = n + 1
      BY <2>4, <3>1
    <3>2. CASE i # n + 1 /\ i # 0
      <4>1. i \in 0 .. n /\ i - 1 \in 0 .. n
        BY <3>2
      <4> QED
        BY <2>2, <2>3, <3>2, <4>1
    <3>3. CASE i = 0
      <4>1. i \in 0 .. n
        BY <3>3
      <4> QED
        BY <2>2, <2>3, <3>3, <4>1
    <3> QED
      BY <3>1, <3>2, <3>3
  <2>6. G = [i \in 0 .. n + 1 |-> G[i]]
    OBVIOUS
  <2> HIDE DEF G
  <2>7. Def(G, n + 1)
    BY <2>5, <2>6
  <2> QED
    BY <2>7
<1> HIDE DEF T
<1>3. Nat \subseteq T
  BY <1>1, <1>2, SetInduction
<1>4. \E F : Def(F, N)
  BY <1>3 DEF T
<1> QED
  BY <1>4 DEF Refill

\* One round.
LEMMA RefillPuts ==
  ASSUME KeyAssumption, NEW a \in Nat, NEW h \in Nat, NEW c \in Contents, NEW D, NEW items, NEW N \in Nat,
         Listing(items, N, c, D), NEW H, IsFiniteSet(H), Cardinality(H) <= h, Holding(c, a, H),
         NEW i \in 1 .. N, items[i][2] # Nil, NEW k, k = items[i][1], NEW u,
         Refilled(u, a, h, Partial(items, c, D, i - 1))
  PROVE  Refilled(Put(u, k, items[i][2]), a, h, Partial(items, c, D, i))
<1> DEFINE d == Partial(items, c, D, i - 1)
           e == Partial(items, c, D, i)
<1>1. k \in Keys /\ c[k] = items[i][2] /\ c[k] # Nil /\ c[k] \in Vals \cup {Nil}
  BY DEF Listing, Contents
<1>2. \A x \in Keys : d[x] = IF x \in D \/ Moved(items, i - 1, x) THEN c[x] ELSE Nil
  BY DEF Partial
<1>3. \A x \in Keys : e[x] = IF x \in D \/ Moved(items, i, x) THEN c[x] ELSE Nil
  BY DEF Partial
<1>4. d \in Contents /\ e \in Contents
  BY DEF Partial, Contents
<1>5. \A x : Moved(items, i, x) <=> Moved(items, i - 1, x) \/ x = k
  <2>1. \A j \in 1 .. i : j = i \/ j \in 1 .. i - 1
    OBVIOUS
  <2>2. \A j \in 1 .. i - 1 : j \in 1 .. i
    OBVIOUS
  <2>3. i \in 1 .. i
    OBVIOUS
  <2> QED
    BY <2>1, <2>2, <2>3 DEF Moved
<1>6. e = [d EXCEPT ![k] = c[k]]
  <2>1. \A x \in Keys : e[x] = IF x = k THEN c[k] ELSE d[x]
    BY <1>2, <1>3, <1>5
  <2> HIDE DEF d, e
  <2> QED
    BY <1>1, <1>4, <2>1 DEF Contents
<1> HIDE DEF d, e
<1>7. Built(u, a, h) /\ Fresh(u.node, h) /\ Maps(u, a, h, d)
  BY DEF Refilled, d
<1>8. ASSUME k \notin 0 .. a - 1, d[k] = Nil
      PROVE  Room(u, k)
  <2>1. k \in H
    BY <1>1, <1>8 DEF Holding
  <2>2. ASSUME NEW x \in 0 .. h - 1, u.node[x].val # Nil
        PROVE  u.node[x].key \in H \ {k}
    <3>1. u.node[x].key \in Keys \ (0 .. a - 1)
      BY <1>7, <2>2, BuiltFacts DEF Sound, Frame, Own
    <3>2. u.node[x].val \in Vals
      <4>1. u.node \in Hashes(h)
        BY <1>7, BuiltFacts
      <4> QED
        BY <2>2, <4>1, SlotOf
    <3>3. d[u.node[x].key] = u.node[x].val
      BY <1>7, <3>1, <3>2 DEF Maps, Holds
    <3>4. c[u.node[x].key] # Nil
      BY <1>2, <2>2, <3>1, <3>3
    <3>5. u.node[x].key \in H
      BY <3>1, <3>4 DEF Holding
    <3> QED
      BY <1>8, <2>2, <3>3, <3>5
  <2> QED
    BY <1>7, <2>1, <2>2, RoomFor
<1>9. /\ Built(Put(u, k, c[k]), a, h) /\ Maps(Put(u, k, c[k]), a, h, [d EXCEPT ![k] = c[k]])
      /\ c[k] # Nil /\ Fresh(u.node, h) => Fresh(Put(u, k, c[k]).node, h)
  BY <1>1, <1>4, <1>7, <1>8, PutFacts
<1> QED
  BY <1>1, <1>6, <1>7, <1>9 DEF Refilled, e

\* After i rounds the table has the first i items.
LEMMA RefillRounds ==
  ASSUME KeyAssumption, NEW a \in Nat, NEW h \in Nat, NEW c \in Contents, NEW D, NEW items, NEW N \in Nat,
         Listing(items, N, c, D), NEW H, IsFiniteSet(H), Cardinality(H) <= h, Holding(c, a, H),
         NEW new, Refilled(new, a, h, Partial(items, c, D, 0)), NEW U, Refill(U, items, N, new)
  PROVE  Refilled(U[N], a, h, Partial(items, c, D, N))
<1> DEFINE T == {i \in Nat : i <= N => Refilled(U[i], a, h, Partial(items, c, D, i))}
<1>1. \A i \in 0 .. N : U[i] = IF i = 0 THEN new
                               ELSE IF items[i][2] = Nil THEN U[i - 1]
                               ELSE Put(U[i - 1], items[i][1], items[i][2])
  BY DEF Refill
<1>2. 0 \in T
  <2>1. U[0] = new
    BY <1>1
  <2> QED
    BY <2>1
<1>3. ASSUME NEW n \in Nat, n \in T
      PROVE  n + 1 \in T
  <2> SUFFICES ASSUME n + 1 <= N
               PROVE  Refilled(U[n + 1], a, h, Partial(items, c, D, n + 1))
    OBVIOUS
  <2>1. /\ n + 1 \in 0 .. N /\ n + 1 \in 1 .. N /\ n + 1 # 0 /\ (n + 1) - 1 = n
        /\ Refilled(U[n], a, h, Partial(items, c, D, n))
    BY <1>3
  <2>2. U[n + 1] = IF items[n + 1][2] = Nil THEN U[n]
                   ELSE Put(U[n], items[n + 1][1], items[n + 1][2])
    BY <1>1, <2>1
  <2>3. CASE items[n + 1][2] = Nil
    <3>1. \A x : Moved(items, n + 1, x) <=> Moved(items, n, x)
      <4>1. \A j \in 1 .. n + 1 : j = n + 1 \/ j \in 1 .. n
        OBVIOUS
      <4>2. \A j \in 1 .. n : j \in 1 .. n + 1
        OBVIOUS
      <4> QED
        BY <2>3, <4>1, <4>2 DEF Moved
    <3>2. Partial(items, c, D, n + 1) = Partial(items, c, D, n)
      BY <3>1 DEF Partial
    <3> QED
      BY <2>1, <2>2, <2>3, <3>2
  <2>4. CASE items[n + 1][2] # Nil
    <3> DEFINE i == n + 1
    <3>1. i \in 1 .. N /\ items[i][2] # Nil /\ i - 1 = n
      BY <2>1, <2>4
    <3>2. Refilled(U[n], a, h, Partial(items, c, D, i - 1))
      BY <2>1, <3>1
    <3> HIDE DEF i
    <3>3. Refilled(Put(U[n], items[i][1], items[i][2]), a, h, Partial(items, c, D, i))
      BY <3>1, <3>2, RefillPuts
    <3> QED
      BY <2>2, <2>4, <3>3 DEF i
  <2> QED
    BY <2>3, <2>4
<1> HIDE DEF T
<1>4. Nat \subseteq T
  BY <1>2, <1>3, SetInduction
<1>5. N \in T
  BY <1>4
<1> QED
  BY <1>5 DEF T

\* A difference, or 0.
LEMMA MaxWithZero ==
  ASSUME NEW x \in Int
  PROVE  Max({0, x}) = IF x > 0 THEN x ELSE 0
<1> DEFINE m == IF x > 0 THEN x ELSE 0
<1>1. m \in {0, x} /\ \A y \in {0, x} : m >= y
  OBVIOUS
<1>2. Max({0, x}) \in {0, x} /\ \A y \in {0, x} : Max({0, x}) >= y
  BY <1>1, Zenon DEF Max
<1> QED
  BY <1>2

Joined(s, f, g, L, M) ==
  Len(s) = L + M /\ \A i \in 1 .. L + M : s[i] = IF i <= L THEN f[i] ELSE g[i - L]

\* The elements of a concatenation.
LEMMA JoinedIs ==
  ASSUME NEW S, NEW f \in Seq(S), NEW g \in Seq(S)
  PROVE  Joined(f \o g, f, g, Len(f), Len(g))
BY DEF Joined

\* What moves at a resize to an array part of size a2.
Leftover(t, a2) == [i \in 1 .. Max({0, t.asize - a2}) |-> <<a2 + i - 1, t.array[a2 + i - 1]>>]
Nodes(t) == [i \in 1 .. t.hsize |-> <<t.node[i - 1].key, t.node[i - 1].val>>]
Items(t, a2) == Leftover(t, a2) \o Nodes(t)
Count(a, h, a2) == (IF a > a2 THEN a - a2 ELSE 0) + h

ItemList(items, N, t, a, h, a2) ==
  /\ Len(items) = N
  /\ \A j \in 1 .. N : \/ \E x \in 0 .. a - 1 : x >= a2 /\ items[j] = <<x, t.array[x]>>
                       \/ \E n \in 0 .. h - 1 : items[j] = <<t.node[n].key, t.node[n].val>>
  /\ \A x \in 0 .. a - 1 : x >= a2 => \E j \in 1 .. N : items[j] = <<x, t.array[x]>>
  /\ \A n \in 0 .. h - 1 : \E j \in 1 .. N : items[j] = <<t.node[n].key, t.node[n].val>>

\* Which items the old contents consist of.
LEMMA ItemFacts ==
  ASSUME KeyAssumption, NEW a \in Nat, NEW h \in Nat, NEW t, t.asize = a, t.hsize = h, NEW a2 \in Nat
  PROVE  ItemList(Items(t, a2), Count(a, h, a2), t, a, h, a2)
<1> DEFINE L == IF a > a2 THEN a - a2 ELSE 0
           f == Leftover(t, a2)
           g == Nodes(t)
           items == Items(t, a2)
           S == {f[i] : i \in 1 .. L} \cup {g[i] : i \in 1 .. h}
<1>1. L \in Nat /\ \A i \in 1 .. L : a2 + i - 1 \in 0 .. a - 1 /\ a2 + i - 1 >= a2
  OBVIOUS
<1>2. \A x \in 0 .. a - 1 : x >= a2 => x - a2 + 1 \in 1 .. L /\ a2 + (x - a2 + 1) - 1 = x
  OBVIOUS
<1>30. Max({0, t.asize - a2}) = L
  <2>1. a - a2 \in Int /\ (a - a2 > 0 <=> a > a2)
    OBVIOUS
  <2>2. Max({0, a - a2}) = IF a - a2 > 0 THEN a - a2 ELSE 0
    BY <2>1, MaxWithZero
  <2> QED
    BY <2>1, <2>2
<1>3. f = [i \in 1 .. L |-> f[i]] /\ \A i \in 1 .. L : f[i] = <<a2 + i - 1, t.array[a2 + i - 1]>>
  BY <1>30 DEF Leftover
<1>4. g = [i \in 1 .. h |-> g[i]] /\ \A i \in 1 .. h : g[i] = <<t.node[i - 1].key, t.node[i - 1].val>>
  BY DEF Nodes
<1>5. \A n \in 0 .. h - 1 : n + 1 \in 1 .. h /\ (n + 1) - 1 = n
  OBVIOUS
<1>6. Count(a, h, a2) = L + h /\ items = f \o g
  BY DEF Count, Items
<1> HIDE DEF L, f, g, items
<1>7. f \in [1 .. L -> S] /\ g \in [1 .. h -> S]
  BY <1>3, <1>4
<1> HIDE DEF S
<1>8. /\ Len(items) = L + h /\ \A i \in 1 .. L : items[i] = f[i]
      /\ \A i \in 1 .. h : items[L + i] = g[i]
  <2>1. f \in Seq(S) /\ g \in Seq(S) /\ Len(f) = L /\ Len(g) = h
    BY <1>1, <1>7
  <2>2. Joined(f \o g, f, g, Len(f), Len(g))
    BY <2>1, JoinedIs
  <2>3. Len(items) = L + h /\ \A i \in 1 .. L + h : items[i] = IF i <= L THEN f[i] ELSE g[i - L]
    BY <1>6, <2>1, <2>2 DEF Joined
  <2>4. \A i \in 1 .. L : i \in 1 .. L + h /\ i <= L
    BY <1>1
  <2>5. \A i \in 1 .. h : L + i \in 1 .. L + h /\ ~(L + i <= L) /\ (L + i) - L = i
    BY <1>1
  <2> QED
    BY <2>3, <2>4, <2>5
<1>9. ASSUME NEW j \in 1 .. L + h
      PROVE  \/ \E x \in 0 .. a - 1 : x >= a2 /\ items[j] = <<x, t.array[x]>>
             \/ \E n \in 0 .. h - 1 : items[j] = <<t.node[n].key, t.node[n].val>>
  <2>1. CASE j <= L
    <3>1. j \in 1 .. L
      BY <1>1, <2>1
    <3>2. items[j] = <<a2 + j - 1, t.array[a2 + j - 1]>>
      BY <1>3, <1>8, <3>1
    <3> QED
      BY <1>1, <3>1, <3>2
  <2>2. CASE ~(j <= L)
    <3> DEFINE i == j - L
    <3>1. i \in 1 .. h /\ L + i = j /\ i - 1 \in 0 .. h - 1
      BY <1>1, <2>2
    <3> HIDE DEF i
    <3>2. items[j] = <<t.node[i - 1].key, t.node[i - 1].val>>
      BY <1>4, <1>8, <3>1
    <3> QED
      BY <3>1, <3>2
  <2> QED
    BY <2>1, <2>2
<1>10. ASSUME NEW x \in 0 .. a - 1, x >= a2
       PROVE  \E j \in 1 .. L + h : items[j] = <<x, t.array[x]>>
  <2> DEFINE j == x - a2 + 1
  <2>1. j \in 1 .. L /\ a2 + j - 1 = x
    BY <1>2, <1>10
  <2> HIDE DEF j
  <2>2. items[j] = <<x, t.array[x]>>
    BY <1>3, <1>8, <2>1
  <2>3. j \in 1 .. L + h
    BY <1>1, <2>1
  <2> QED
    BY <2>2, <2>3
<1>11. ASSUME NEW n \in 0 .. h - 1
       PROVE  \E j \in 1 .. L + h : items[j] = <<t.node[n].key, t.node[n].val>>
  <2> DEFINE j == n + 1
  <2>1. j \in 1 .. h /\ j - 1 = n
    BY <1>5
  <2> HIDE DEF j
  <2>2. items[L + j] = <<t.node[n].key, t.node[n].val>>
    BY <1>4, <1>8, <2>1
  <2>3. L + j \in 1 .. L + h
    BY <1>1, <2>1
  <2> QED
    BY <2>2, <2>3
<1> QED
  BY <1>6, <1>8, <1>9, <1>10, <1>11, ZenonT(40) DEF ItemList, items

\* The part of the array that stays in the array.
Staying(a, a2) == {x \in 0 .. a - 1 : x < a2}

\* Every key is in the list of items once.
LEMMA ItemsListed ==
  ASSUME KeyAssumption, NEW a \in Nat, NEW h \in Nat, NEW t, Built(t, a, h), NEW c \in Contents,
         Maps(t, a, h, c), NEW a2 \in Nat
  PROVE  Listing(Items(t, a2), Count(a, h, a2), c, Staying(a, a2))
<1> DEFINE N == Count(a, h, a2)
           items == Items(t, a2)
<1>0. /\ t.node \in Hashes(h) /\ Own(t.node, h, Keys \ (0 .. a - 1))
      /\ \A x \in 0 .. a - 1 : t.array[x] # Nil => x \in Ints
  BY BuiltFacts DEF Sound, Frame, Built
<1>1. ItemList(items, N, t, a, h, a2)
  <2>1. t.asize = a /\ t.hsize = h
    BY BuiltFacts
  <2> QED
    BY <2>1, ItemFacts
<1> HIDE DEF N, items
<1>2. ASSUME NEW n \in 0 .. h - 1, t.node[n].val # Nil
      PROVE  t.node[n].key \in Keys /\ c[t.node[n].key] = t.node[n].val
  <2>1. t.node[n].val \in Vals /\ t.node[n].key \in Keys \ (0 .. a - 1)
    <3>1. t.node[n].val \in Vals \cup {Nil}
      BY <1>0, SlotOf
    <3> QED
      BY <1>0, <1>2, <3>1 DEF Own
  <2> QED
    BY <2>1 DEF Maps, Holds
<1>3. ASSUME NEW x \in 0 .. a - 1, t.array[x] # Nil
      PROVE  x \in Keys /\ c[x] = t.array[x]
  BY <1>0, <1>3 DEF Maps, Keys
<1>4. ASSUME NEW j \in 1 .. N, items[j][2] # Nil
      PROVE  items[j][1] \in Keys /\ c[items[j][1]] = items[j][2]
  <2>1. CASE \E x \in 0 .. a - 1 : x >= a2 /\ items[j] = <<x, t.array[x]>>
    <3>1. PICK x \in 0 .. a - 1 : items[j] = <<x, t.array[x]>>
      BY <2>1
    <3>2. items[j][1] = x /\ items[j][2] = t.array[x]
      BY <3>1
    <3> QED
      BY <1>3, <1>4, <3>2
  <2>2. CASE \E n \in 0 .. h - 1 : items[j] = <<t.node[n].key, t.node[n].val>>
    <3>1. PICK n \in 0 .. h - 1 : items[j] = <<t.node[n].key, t.node[n].val>>
      BY <2>2
    <3>2. items[j][1] = t.node[n].key /\ items[j][2] = t.node[n].val
      BY <3>1
    <3> QED
      BY <1>2, <1>4, <3>2
  <2> QED
    BY <1>1, <2>1, <2>2 DEF ItemList
<1>5. ASSUME NEW k \in Keys, c[k] # Nil, k \notin Staying(a, a2)
      PROVE  \E j \in 1 .. N : items[j][2] # Nil /\ items[j][1] = k
  <2>1. CASE k \in 0 .. a - 1
    <3>1. k >= a2
      BY <1>5, <2>1 DEF Staying
    <3>2. PICK j \in 1 .. N : items[j] = <<k, t.array[k]>>
      BY <1>1, <2>1, <3>1 DEF ItemList
    <3>3. items[j][1] = k /\ items[j][2] = t.array[k]
      BY <3>2
    <3> QED
      BY <1>5, <2>1, <3>3 DEF Maps
  <2>2. CASE k \notin 0 .. a - 1
    <3>1. c[k] \in Vals
      BY <1>5 DEF Contents
    <3>2. PICK n \in 0 .. h - 1 : t.node[n].key = k /\ t.node[n].val = c[k]
      BY <2>2, <3>1 DEF Maps, Holds
    <3>3. PICK j \in 1 .. N : items[j] = <<t.node[n].key, t.node[n].val>>
      BY <1>1 DEF ItemList
    <3>4. items[j][1] = k /\ items[j][2] = c[k]
      BY <3>2, <3>3
    <3> QED
      BY <1>5, <3>4
  <2> QED
    BY <2>1, <2>2
<1>6. Listing(items, N, c, Staying(a, a2))
  BY <1>4, <1>5 DEF Listing
<1> QED
  BY <1>6 DEF N, items

\* The new table before anything is moved.
LEMMA NewTabIs ==
  ASSUME KeyAssumption, NEW a \in Nat, NEW b \in Nat, NEW h, h = HashSize(b)
  PROVE  /\ h \in Nat /\ Emptied(NewTab(a, b), a, h)
         /\ \A i \in 0 .. a - 1 : NewTab(a, b).array[i] = Nil
<1> DEFINE t == NewTab(a, b)
<1>1. h \in Nat
  BY Pow2Facts DEF HashSize
<1>2. t = [asize |-> a, array |-> [i \in 0 .. a - 1 |-> Nil], hsize |-> h,
           node |-> [n \in 0 .. h - 1 |-> FreeNode], freetop |-> h]
  BY DEF NewTab, HashSize
<1>3. [i \in 0 .. a - 1 |-> Nil] \in Arrays(a)
  BY DEF Arrays
<1>4. [n \in 0 .. h - 1 |-> FreeNode] \in Hashes(h)
  BY DEF Hashes, FreeNode, Slots
<1>5. h \in 0 .. h
  BY <1>1
<1> QED
  BY <1>1, <1>2, <1>3, <1>4, <1>5 DEF Tabs, Emptied

Bigger(t, a2, b) ==
  [NewTab(a2, b) EXCEPT !.array = [i \in DOMAIN @ |-> IF i < t.asize THEN t.array[i] ELSE Nil]]

\* The array part of the new table.
LEMMA BiggerIs ==
  ASSUME KeyAssumption, NEW a \in Nat, NEW h \in Nat, NEW t, Built(t, a, h), NEW c \in Contents,
         Maps(t, a, h, c), NEW a2 \in Nat, NEW b \in Nat, NEW h2, h2 = HashSize(b), NEW items,
         NEW new, new = Bigger(t, a2, b)
  PROVE  Refilled(new, a2, h2, Partial(items, c, Staying(a, a2), 0))
<1> DEFINE N == NewTab(a2, b)
           ar == [i \in 0 .. a2 - 1 |-> IF i < a THEN t.array[i] ELSE Nil]
           d == Partial(items, c, Staying(a, a2), 0)
<1>0. h2 \in Nat /\ Emptied(N, a2, h2)
  BY NewTabIs
<1>1. /\ h2 \in Nat /\ N \in Tabs(a2, h2) /\ N.node = [n \in 0 .. h2 - 1 |-> FreeNode] /\ N.freetop = h2
      /\ DOMAIN N.array = 0 .. a2 - 1
  BY <1>0, TabFacts DEF Emptied
<1>20. t.asize = a
  BY BuiltFacts
<1>2. t.array \in Arrays(a) /\ \A i \in 0 .. a - 1 : t.array[i] # Nil => i \in Ints
  BY BuiltFacts DEF Built
<1>3. ar \in Arrays(a2) /\ \A i \in 0 .. a2 - 1 : ar[i] # Nil => i \in Ints
  BY <1>2 DEF Arrays
<1>4. new = [N EXCEPT !.array = ar]
  <2>1. DOMAIN N.array = 0 .. a2 - 1
    BY <1>1
  <2> HIDE DEF N
  <2>2. new = [N EXCEPT !.array = [i \in DOMAIN @ |-> IF i < t.asize THEN t.array[i] ELSE Nil]]
    BY DEF Bigger, N
  <2> QED
    BY <1>20, <2>1, <2>2
<1>5. \A i \in 0 .. a2 - 1 : ar[i] = IF i < a THEN t.array[i] ELSE Nil
  OBVIOUS
<1> HIDE DEF N, ar
<1>6. new \in Tabs(a2, h2) /\ new.node = N.node /\ new.freetop = N.freetop /\ new.array = ar
  BY <1>1, <1>3, <1>4 DEF Tabs
<1>7. /\ Built(new, a2, h2) /\ Fresh(new.node, h2) /\ \A k, w : Holds(new.node, h2, k, w) => w = Nil
  <2>1. Emptied(new, a2, h2)
    BY <1>1, <1>6 DEF Emptied
  <2>2. \A i \in 0 .. a2 - 1 : new.array[i] # Nil => i \in Ints
    BY <1>3, <1>6
  <2> QED
    BY <1>1, <2>1, <2>2, EmptyHash
<1>8. \A k \in Keys : d[k] = IF k \in Staying(a, a2) THEN c[k] ELSE Nil
  BY DEF Partial, Moved
<1> HIDE DEF d
<1>9. ASSUME NEW k \in Keys
      PROVE  /\ k \in 0 .. a2 - 1 => d[k] = new.array[k]
             /\ k \notin 0 .. a2 - 1 => \A w \in Vals : Holds(new.node, h2, k, w) <=> d[k] = w
  <2>1. CASE k \in 0 .. a2 - 1
    <3>1. new.array[k] = IF k < a THEN t.array[k] ELSE Nil
      BY <1>5, <1>6, <2>1
    <3>2. k \in Staying(a, a2) <=> k < a
      BY <2>1 DEF Staying
    <3>3. k < a => k \in 0 .. a - 1
      BY <2>1
    <3>4. k < a => c[k] = t.array[k]
      BY <3>3 DEF Maps
    <3> QED
      BY <1>8, <2>1, <3>1, <3>2, <3>4
  <2>2. CASE k \notin 0 .. a2 - 1
    <3>1. k \notin Staying(a, a2)
      BY <2>2 DEF Staying
    <3>2. \A w \in Vals : w # Nil
      BY DEF KeyAssumption
    <3> QED
      BY <1>7, <1>8, <2>2, <3>1, <3>2
  <2> QED
    BY <2>1, <2>2
<1>10. Maps(new, a2, h2, d)
  BY <1>9 DEF Maps
<1> QED
  BY <1>7, <1>10 DEF Refilled, d

\* A resize keeps the contents if there is a node for each key outside the array.
LEMMA ResizeFacts ==
  ASSUME KeyAssumption, NEW a \in Nat, NEW h \in Nat, NEW t, Built(t, a, h), NEW c \in Contents,
         Maps(t, a, h, c), NEW a2 \in Nat, NEW b \in Nat, NEW h2, h2 = HashSize(b),
         NEW H, IsFiniteSet(H), Cardinality(H) <= h2, Holding(c, a2, H)
  PROVE  h2 \in Nat /\ Refilled(Resize(t, a2, b), a2, h2, c)
<1> DEFINE new == Bigger(t, a2, b)
           items == Items(t, a2)
           N == Count(a, h, a2)
           D == Staying(a, a2)
           F == CHOOSE U : U = [i \in 0 .. Len(items) |->
                                  IF i = 0 THEN new
                                  ELSE IF items[i][2] = Nil THEN U[i - 1]
                                  ELSE Put(U[i - 1], items[i][1], items[i][2])]
<1>1. t.asize = a /\ t.hsize = h
  BY BuiltFacts
<1>3. Resize(t, a2, b) = F[Len(items)]
  BY Zenon DEF Resize, Bigger, Items, Leftover, Nodes
<1>4. Len(items) = N
  BY <1>1, ItemFacts DEF ItemList
<1>5. F = CHOOSE U : Refill(U, items, N, new)
  BY <1>4 DEF Refill
<1>6. N \in Nat
  BY DEF Count
<1>7. Listing(items, N, c, D)
  BY ItemsListed
<1>8. Refilled(new, a2, h2, Partial(items, c, D, 0))
  BY BiggerIs
<1>9. h2 \in Nat
  BY NewTabIs
<1> HIDE DEF F, items, N, new, D
<1>10. \E U : Refill(U, items, N, new)
  BY <1>6, RefillExists
<1>11. Refill(F, items, N, new)
  BY <1>5, <1>10, Zenon
<1>12. Refilled(F[N], a2, h2, Partial(items, c, D, N))
  BY <1>6, <1>7, <1>8, <1>9, <1>11, RefillRounds
<1>13. \A k \in Keys : Partial(items, c, D, N)[k] = c[k]
  BY <1>7 DEF Listing, Partial, Moved
<1>14. Partial(items, c, D, N) = c
  <2>1. Partial(items, c, D, N) \in Contents
    BY DEF Contents, Partial
  <2> QED
    BY <1>13, <2>1 DEF Contents
<1> QED
  BY <1>3, <1>4, <1>9, <1>12, <1>14

\* A table as the code builds it, and one with these contents.
Good(t) == t.asize \in Nat /\ t.hsize \in Nat /\ t.hsize \in Sizes /\ Built(t, t.asize, t.hsize)

State(t, c) == Good(t) /\ c \in Contents /\ Maps(t, t.asize, t.hsize, c)

\* A table that is built and has the contents c.
LEMMA StateIs ==
  ASSUME KeyAssumption, NEW a \in Nat, NEW h \in Nat, h \in Sizes, NEW t, Built(t, a, h),
         NEW c \in Contents, Maps(t, a, h, c)
  PROVE  State(t, c)
<1>1. t.asize = a /\ t.hsize = h
  BY BuiltFacts
<1> QED
  BY <1>1 DEF State, Good

\* What is in a table is in its array or in a live node.
LEMMA ContentsInNodes ==
  ASSUME KeyAssumption, NEW a \in Nat, NEW h \in Nat, NEW t, Built(t, a, h), NEW c \in Contents,
         Maps(t, a, h, c), NEW k \in Keys
  PROVE  /\ c[k] # Nil /\ k \notin 0 .. a - 1
              => \E n \in 0 .. h - 1 : t.node[n].val # Nil /\ t.node[n].key = k
         /\ c[k] # Nil /\ k \in 0 .. a - 1 => t.array[k] # Nil
         /\ \A n \in 0 .. h - 1 : t.node[n].val # Nil /\ t.node[n].key = k => c[k] # Nil
<1>1. c[k] # Nil => c[k] \in Vals
  BY DEF Contents
<1>2. /\ t.node \in Hashes(h) /\ Own(t.node, h, Keys \ (0 .. a - 1))
  BY BuiltFacts DEF Sound, Frame
<1>3. c[k] # Nil /\ k \notin 0 .. a - 1
        => \E n \in 0 .. h - 1 : t.node[n].val # Nil /\ t.node[n].key = k
  BY <1>1 DEF Maps, Holds
<1>4. ASSUME NEW n \in 0 .. h - 1, t.node[n].val # Nil, t.node[n].key = k
      PROVE  c[k] # Nil
  <2>1. k \notin 0 .. a - 1
    BY <1>2, <1>4 DEF Own
  <2>2. t.node[n].val \in Vals
    BY <1>2, <1>4, SlotOf
  <2>3. c[k] = t.node[n].val
    BY <1>4, <2>1, <2>2 DEF Maps, Holds
  <2> QED
    BY <1>4, <2>3
<1> QED
  BY <1>3, <1>4 DEF Maps

\* The array part grows: the hash part has room for the keys of its nodes.
LEMMA ReasizeKeeps ==
  ASSUME KeyAssumption, NEW t, NEW c, State(t, c), NEW n \in Nat, n + 1 > t.asize
  PROVE  State(Resize(t, n + 1, HsizeToBits(t.hsize)), c)
<1> DEFINE a == t.asize
           h == t.hsize
           b == HsizeToBits(h)
           H == {t.node[x].key : x \in 0 .. h - 1}
<1>1. a \in Nat /\ h \in Nat /\ Built(t, a, h) /\ c \in Contents /\ Maps(t, a, h, c) /\ n + 1 \in Nat
  BY DEF State, Good
<1>2. /\ b \in Nat /\ HashSize(b) \in Sizes /\ HashSize(b) \in Nat /\ h <= HashSize(b)
  BY <1>1, HashSizes
<1>3. IsFiniteSet(H) /\ Cardinality(H) <= h
  <2> DEFINE T == 0 .. h - 1
             f == [x \in T |-> t.node[x].key]
  <2>1. IsFiniteSet(T) /\ Cardinality(T) = h
    <3>1. IsFiniteSet(0 .. h - 1) /\ Cardinality(0 .. h - 1) = IF 0 > h - 1 THEN 0 ELSE h - 1 - 0 + 1
      <4>1. 0 \in Int /\ h - 1 \in Int
        BY <1>1
      <4> HIDE DEF h
      <4> QED
        BY <4>1, FS_Interval
    <3> QED
      BY <1>1, <3>1
  <2>2. f \in Surjection(T, H)
    BY DEF Surjection
  <2> HIDE DEF T, f, H
  <2>3. IsFiniteSet(H) /\ Cardinality(H) <= Cardinality(T)
    BY <2>1, <2>2, FS_Surjection
  <2> QED
    BY <2>1, <2>3
<1>4. Cardinality(H) <= HashSize(b)
  <2>1. Cardinality(H) \in Nat
    BY <1>3, FS_CardinalityType
  <2> QED
    BY <1>1, <1>2, <1>3, <2>1
<1>5. \A x \in 0 .. h - 1 : t.node[x].key \in H
  OBVIOUS
<1> HIDE DEF a, h, b, H
<1>6. Holding(c, n + 1, H)
  <2> SUFFICES ASSUME NEW k \in Keys, c[k] # Nil, k \notin 0 .. (n + 1) - 1
               PROVE  k \in H
    BY DEF Holding
  <2>1. k \notin 0 .. a - 1
    BY <1>1 DEF a
  <2>2. PICK x \in 0 .. h - 1 : t.node[x].key = k
    BY <1>1, <2>1, ContentsInNodes
  <2> QED
    BY <1>5, <2>2
<1> DEFINE h2 == HashSize(b)
           r == Resize(t, n + 1, b)
<1>7. h2 = HashSize(b) /\ h2 \in Nat /\ h2 \in Sizes /\ Cardinality(H) <= h2
  BY <1>2, <1>4
<1> HIDE DEF h2
<1>8. Refilled(r, n + 1, h2, c)
  BY <1>1, <1>2, <1>3, <1>6, <1>7, ResizeFacts
<1> HIDE DEF r
<1>9. State(r, c)
  BY <1>1, <1>7, <1>8, StateIs DEF Refilled
<1> QED
  BY <1>9 DEF r, b, h

\* After a rehash for a new key there is room for it.
LEMMA RehashKeeps ==
  ASSUME KeyAssumption, NEW t, NEW c, State(t, c), NEW k \in Keys, c[k] = Nil
  PROVE  /\ State(Rehash(t, k), c)
         /\ k \notin 0 .. Rehash(t, k).asize - 1 => Room(Rehash(t, k), k)
<1> DEFINE a == t.asize
           h == t.hsize
           live == {t.node[n].key : n \in LiveNodes(t)}
           all == ArrayKeys(t) \cup live \cup {k}
           best == BestAsize(all \cap Ints)
           b == HsizeToBits(Cardinality(all) - best.used)
           a2 == best.size
<1>1. a \in Nat /\ h \in Nat /\ Built(t, a, h) /\ c \in Contents /\ Maps(t, a, h, c)
  BY DEF State, Good
<1>2. DOMAIN t.array = 0 .. a - 1 /\ DOMAIN t.node = 0 .. h - 1
  BY <1>1, ShapeFacts
<1>3. Rehash(t, k) = Resize(t, a2, b)
  BY DEF Rehash
<1>4. /\ \A i : i \in ArrayKeys(t) <=> i \in 0 .. a - 1 /\ t.array[i] # Nil
      /\ \A n : n \in LiveNodes(t) <=> n \in 0 .. h - 1 /\ t.node[n].val # Nil
  BY <1>2 DEF ArrayKeys, LiveNodes
<1>5. \A n \in 0 .. h - 1 : t.node[n].val # Nil => t.node[n].key \in live
  BY <1>4
<1>6. IsFiniteSet(all)
  <2>1. IsFiniteSet(0 .. a - 1) /\ IsFiniteSet(0 .. h - 1)
    <3>1. 0 \in Int /\ h - 1 \in Int /\ a - 1 \in Int
      BY <1>1
    <3> HIDE DEF a, h
    <3> QED
      BY <3>1, FS_Interval
  <2>2. ArrayKeys(t) \in SUBSET (0 .. a - 1) /\ LiveNodes(t) \in SUBSET (0 .. h - 1)
    BY <1>4
  <2>3. IsFiniteSet(ArrayKeys(t)) /\ IsFiniteSet(LiveNodes(t))
    BY <2>1, <2>2, FS_Subset
  <2> DEFINE L == LiveNodes(t)
             f == [x \in L |-> t.node[x].key]
  <2>4. f \in Surjection(L, live)
    BY DEF Surjection
  <2> HIDE DEF L, f, live
  <2>5. IsFiniteSet(live)
    BY <2>3, <2>4, FS_Surjection DEF L
  <2>6. IsFiniteSet(ArrayKeys(t) \cup live)
    BY <2>3, <2>5, FS_Union
  <2> QED
    BY <2>6, FS_AddElement
<1>7. k \in all /\ (\A i \in ArrayKeys(t) : i \in all) /\ \A x \in live : x \in all
  OBVIOUS
<1> HIDE DEF all, live
<1>8. IsFiniteSet(all \cap Ints) /\ all \cap Ints \in SUBSET Nat
  BY <1>6, FS_Intersection DEF KeyAssumption
<1>9. /\ a2 \in Nat
      /\ \E B \in SUBSET (all \cap Ints) : best.used = Cardinality(B) /\ \A x \in B : x < a2
  BY <1>8, BestFits
<1>10. PICK B \in SUBSET (all \cap Ints) : best.used = Cardinality(B) /\ \A x \in B : x < a2
  BY <1>9
<1> DEFINE H == all \ B
<1>11. IsFiniteSet(H) /\ Cardinality(H) \in Nat /\ Cardinality(H) = Cardinality(all) - best.used
  <2>1. all \cap B = B
    BY <1>10
  <2>2. IsFiniteSet(all \ B) /\ Cardinality(all \ B) = Cardinality(all) - Cardinality(all \cap B)
    BY <1>6, FS_Difference
  <2> QED
    BY <1>10, <2>1, <2>2, FS_CardinalityType
<1>12. \A x \in all : x \notin 0 .. a2 - 1 => x \in H
  <2>1. \A x \in B : x \in 0 .. a2 - 1
    BY <1>8, <1>9, <1>10
  <2> QED
    BY <2>1
<1> HIDE DEF best, H, a2
<1> DEFINE h2 == HashSize(b)
           r == Resize(t, a2, b)
<1>13. b \in Nat /\ h2 \in Nat /\ h2 \in Sizes /\ h2 = HashSize(b) /\ Cardinality(H) <= h2
  <2>1. b = HsizeToBits(Cardinality(H))
    BY <1>11
  <2> HIDE DEF b
  <2> QED
    BY <1>11, <2>1, HashSizes
<1>14. Holding(c, a2, H)
  <2> SUFFICES ASSUME NEW x \in Keys, c[x] # Nil, x \notin 0 .. a2 - 1
               PROVE  x \in H
    BY DEF Holding
  <2>1. CASE x \in 0 .. a - 1
    <3>1. t.array[x] # Nil
      BY <1>1, <2>1, ContentsInNodes
    <3>2. x \in all
      BY <1>4, <1>7, <2>1, <3>1
    <3> QED
      BY <1>12, <3>2
  <2>2. CASE x \notin 0 .. a - 1
    <3>1. PICK n \in 0 .. h - 1 : t.node[n].val # Nil /\ t.node[n].key = x
      BY <1>1, <2>2, ContentsInNodes
    <3>2. x \in all
      BY <1>5, <1>7, <3>1
    <3> QED
      BY <1>12, <3>2
  <2> QED
    BY <2>1, <2>2
<1> HIDE DEF h2, b, a, h
<1>15. Refilled(r, a2, h2, c)
  BY <1>1, <1>9, <1>11, <1>13, <1>14, ResizeFacts
<1>16. r = Rehash(t, k)
  BY <1>3
<1> HIDE DEF r
<1>17. Built(r, a2, h2) /\ Fresh(r.node, h2) /\ Maps(r, a2, h2, c)
  BY <1>15 DEF Refilled
<1>18. State(r, c)
  BY <1>1, <1>9, <1>13, <1>17, StateIs
<1>19. r.asize = a2
  BY <1>9, <1>13, <1>17, BuiltFacts
<1>20. ASSUME k \notin 0 .. a2 - 1
       PROVE  Room(r, k)
  <2>1. k \in H
    BY <1>7, <1>12, <1>20
  <2>2. ASSUME NEW n \in 0 .. h2 - 1, r.node[n].val # Nil
        PROVE  r.node[n].key \in H \ {k}
    <3>1. r.node[n].key \in Keys \ (0 .. a2 - 1)
      BY <1>9, <1>13, <1>17, <2>2, BuiltFacts DEF Sound, Frame, Own
    <3>2. c[r.node[n].key] # Nil
      BY <1>1, <1>9, <1>13, <1>17, <2>2, <3>1, ContentsInNodes
    <3>3. r.node[n].key \in H
      BY <1>14, <3>1, <3>2 DEF Holding
    <3> QED
      BY <3>2, <3>3
  <2> QED
    BY <1>9, <1>11, <1>13, <1>17, <2>1, <2>2, RoomFor
<1> QED
  BY <1>16, <1>18, <1>19, <1>20

\* A new key is added, with or without a rehash.
LEMMA NewKeyKeeps ==
  ASSUME KeyAssumption, NEW t, NEW c, State(t, c), NEW k \in Keys, k \notin 0 .. t.asize - 1,
         c[k] = Nil, NEW v \in Vals \cup {Nil}
  PROVE  State(NewKey(t, k, v), [c EXCEPT ![k] = v])
<1> DEFINE a == t.asize
           h == t.hsize
           d == [c EXCEPT ![k] = v]
<1>1. a \in Nat /\ h \in Nat /\ h \in Sizes /\ Built(t, a, h) /\ c \in Contents /\ Maps(t, a, h, c)
  BY DEF State, Good
<1>2. d \in Contents
  BY <1>1 DEF Contents
<1>3. CASE Room(t, k)
  <2>1. NewKey(t, k, v) = Place(t, k, v) /\ k \in Keys \ (0 .. a - 1)
    BY <1>3 DEF NewKey
  <2> HIDE DEF a, h
  <2>2. Absent(t.node, h, k)
    BY <1>1, <2>1, Lookup
  <2> DEFINE u == Place(t, k, v)
  <2>3. Added(t, u, a, h, k, v)
    BY <1>1, <1>3, <2>1, <2>2, PlaceAdds
  <2> HIDE DEF u
  <2>4. Maps(u, a, h, [c EXCEPT ![k] = v])
    BY <1>1, <2>1, <2>3, AddedMaps
  <2>5. Built(u, a, h)
    BY <2>3 DEF Added
  <2> HIDE DEF d
  <2>6. Maps(u, a, h, d)
    BY <2>4 DEF d
  <2>7. State(u, d)
    BY <1>1, <1>2, <2>5, <2>6, StateIs
  <2> QED
    BY <2>1, <2>7 DEF d, u
<1>4. CASE ~Room(t, k)
  <2> DEFINE r == Rehash(t, k)
             u == Put(r, k, v)
             a2 == r.asize
             h2 == r.hsize
  <2>1. NewKey(t, k, v) = u
    BY <1>4 DEF NewKey
  <2>2. State(r, c) /\ (k \notin 0 .. a2 - 1 => Room(r, k))
    BY RehashKeeps
  <2> HIDE DEF r
  <2>3. a2 \in Nat /\ h2 \in Nat /\ h2 \in Sizes /\ Built(r, a2, h2) /\ Maps(r, a2, h2, c)
    BY <2>2 DEF State, Good
  <2> HIDE DEF a2, h2
  <2>4. Built(Put(r, k, v), a2, h2) /\ Maps(Put(r, k, v), a2, h2, [c EXCEPT ![k] = v])
    BY <1>1, <2>2, <2>3, PutFacts
  <2>5. Built(u, a2, h2) /\ Maps(u, a2, h2, d)
    BY <2>4
  <2> HIDE DEF u, d
  <2>6. State(u, d)
    BY <1>2, <2>3, <2>5, StateIs
  <2> QED
    BY <2>1, <2>6 DEF d
<1> QED
  BY <1>3, <1>4

\* Tables whose nodes are linked alike, with the key k in the same nodes.
Alike(t, u, h, k) ==
  \A x \in 0 .. h - 1 : /\ u.node[x].next = t.node[x].next
                        /\ u.node[x].key = k <=> t.node[x].key = k

\* A key is found in the same node if links and nodes with the key stay.
LEMMA FindAlike ==
  ASSUME KeyAssumption, NEW a \in Nat, NEW h \in Nat, NEW t, Built(t, a, h), NEW u, Built(u, a, h),
         NEW k \in Keys, Alike(t, u, h, k), FindAny(t, k) # Nil
  PROVE  FindAny(u, k) = FindAny(t, k)
<1> DEFINE m == Home(h, k)
           X == {n \in 0 .. h - 1 : t.node[n].key = k}
           p == FindAny(t, k)
<1>1. /\ t.hsize = h /\ t.node \in Hashes(h) /\ DOMAIN t.node = 0 .. h - 1 /\ Ends(t.node, h)
      /\ u.hsize = h /\ u.node \in Hashes(h) /\ DOMAIN u.node = 0 .. h - 1 /\ Ends(u.node, h)
  <2>1. t.hsize = h /\ t.node \in Hashes(h) /\ DOMAIN t.node = 0 .. h - 1 /\ Ends(t.node, h)
    BY ShapeFacts
  <2>2. u.hsize = h /\ u.node \in Hashes(h) /\ DOMAIN u.node = 0 .. h - 1 /\ Ends(u.node, h)
    BY ShapeFacts
  <2> QED
    BY <2>1, <2>2
<1>2. FindAny(t, k) = IF h = 0 THEN Nil ELSE FirstIn(t, m, {n \in 0 .. h - 1 : t.node[n].key = k})
  BY <1>1 DEF FindAny, Find, Main, Home
<1>3. FindAny(u, k) = IF h = 0 THEN Nil ELSE FirstIn(u, m, {n \in 0 .. h - 1 : u.node[n].key = k})
  BY <1>1 DEF FindAny, Find, Main, Home
<1>4. {n \in 0 .. h - 1 : u.node[n].key = k} = X
  BY DEF Alike
<1>5. h # 0 /\ FindAny(t, k) = FirstIn(t, m, X) /\ FindAny(u, k) = FirstIn(u, m, X)
  <2>1. h # 0
    BY <1>2
  <2> HIDE DEF m
  <2>2. FindAny(t, k) = FirstIn(t, m, X)
    BY <1>2, <2>1
  <2>3. FindAny(u, k) = FirstIn(u, m, X)
    BY <1>3, <1>4, <2>1
  <2> QED
    BY <2>1, <2>2, <2>3
<1>6. m \in 0 .. h - 1 /\ X \in SUBSET (0 .. h - 1)
  BY <1>5, HomeType
<1> HIDE DEF m, X
<1>7. p = FirstIn(t, m, X) /\ p # Nil
  BY <1>5
<1> HIDE DEF p
<1>8. p \in X /\ \E S \in SUBSET (0 .. h - 1) : Apart(S, X) /\ Way(t.node, m, p, S)
  <2>1. FirstIn(t, m, X) # Nil
    BY <1>7
  <2>2. /\ FirstIn(t, m, X) \in X
        /\ \E S \in SUBSET (0 .. h - 1) : Apart(S, X) /\ Way(t.node, m, FirstIn(t, m, X), S)
    BY <1>1, <1>6, <2>1, FirstWay
  <2> QED
    BY <1>7, <2>2
<1>9. PICK S \in SUBSET (0 .. h - 1) : Apart(S, X) /\ Way(t.node, m, p, S)
  BY <1>8
<1>10. Way(u.node, m, p, S)
  <2>1. \A x \in 0 .. h - 1 : u.node[x].next = t.node[x].next
    BY DEF Alike
  <2> QED
    BY <1>9, <2>1, SameChains
<1>11. FirstIn(u, m, X) = p
  <2>1. u.node \in Hashes(h) /\ Ends(u.node, h) /\ X \in SUBSET (0 .. h - 1) /\ p \in X
    BY <1>1, <1>6, <1>8
  <2>2. Apart(S, X) /\ Way(u.node, m, p, S)
    BY <1>9, <1>10
  <2> HIDE <1>1, <1>8
  <2> QED
    BY <2>1, <2>2, FirstMeets
<1> QED
  BY <1>5, <1>7, <1>11

-----------------------------------------------------------------------------
\* Traversals: what is before the cursor has been returned, nothing else has.

Alive(t) == ArrayKeys(t) \cup {t.asize + n : n \in LiveNodes(t)}

Index(t, k) == IF k = Nil THEN 0 ELSE IF k \in DOMAIN t.array THEN k + 1
               ELSE t.asize + FindAny(t, k) + 1

Walks(t, at, seen) ==
  /\ seen \in SUBSET Keys /\ at \in Keys \cup {Nil}
  /\ at # Nil /\ at \notin DOMAIN t.array => FindAny(t, at) # Nil
  /\ \A j \in Alive(t) : j < Index(t, at) <=> KeyAt(t, j) \in seen

\* Table u has nothing that t does not have at the same place.
Less(t, u, a, h, at) ==
  /\ Alike(t, u, h, at)
  /\ \A i \in 0 .. a - 1 : u.array[i] # Nil => t.array[i] # Nil
  /\ \A n \in 0 .. h - 1 : u.node[n].val # Nil => t.node[n].val # Nil /\ u.node[n].key = t.node[n].key

\* The places of a table.
LEMMA AliveIs ==
  ASSUME KeyAssumption, NEW a \in Nat, NEW h \in Nat, NEW t, Built(t, a, h), NEW j
  PROVE  j \in Alive(t) <=> \/ j \in 0 .. a - 1 /\ t.array[j] # Nil
                            \/ \E n \in 0 .. h - 1 : t.node[n].val # Nil /\ j = a + n
<1>1. DOMAIN t.array = 0 .. a - 1 /\ DOMAIN t.node = 0 .. h - 1 /\ t.asize = a
  BY ShapeFacts
<1> QED
  BY <1>1 DEF Alive, ArrayKeys, LiveNodes

\* The key at a traversal position.
LEMMA KeyAtIs ==
  ASSUME KeyAssumption, NEW a \in Nat, NEW h \in Nat, NEW t, Built(t, a, h)
  PROVE  /\ \A j \in 0 .. a - 1 : KeyAt(t, j) = j
         /\ \A n \in 0 .. h - 1 : KeyAt(t, a + n) = t.node[n].key
<1>1. t.asize = a
  BY BuiltFacts
<1>2. \A j \in 0 .. a - 1 : j < a
  OBVIOUS
<1>3. \A n \in 0 .. h - 1 : ~(a + n < a) /\ (a + n) - a = n
  OBVIOUS
<1> QED
  BY <1>1, <1>2, <1>3 DEF KeyAt

\* A traversal goes on if nothing moves and nothing is added.
LEMMA WalksOn ==
  ASSUME KeyAssumption, NEW a \in Nat, NEW h \in Nat, NEW t, Built(t, a, h), NEW u, Built(u, a, h),
         NEW at, NEW seen, Walks(t, at, seen), Less(t, u, a, h, at)
  PROVE  Walks(u, at, seen)
<1>1. DOMAIN t.array = 0 .. a - 1 /\ DOMAIN u.array = 0 .. a - 1 /\ t.asize = a /\ u.asize = a
  BY BuiltFacts
<1>2. at # Nil /\ at \notin 0 .. a - 1 => FindAny(t, at) # Nil /\ FindAny(u, at) = FindAny(t, at)
  <2> SUFFICES ASSUME at # Nil, at \notin 0 .. a - 1
               PROVE  FindAny(t, at) # Nil /\ FindAny(u, at) = FindAny(t, at)
    OBVIOUS
  <2>1. FindAny(t, at) # Nil /\ at \in Keys
    BY <1>1 DEF Walks
  <2> QED
    BY <2>1, FindAlike DEF Less
<1>3. Index(u, at) = Index(t, at)
  BY <1>1, <1>2 DEF Index
<1>4. ASSUME NEW j \in Alive(u)
      PROVE  j \in Alive(t) /\ KeyAt(u, j) = KeyAt(t, j)
  <2>1. CASE j \in 0 .. a - 1 /\ u.array[j] # Nil
    <3>1. t.array[j] # Nil
      BY <2>1 DEF Less
    <3>2. j \in Alive(t)
      BY <2>1, <3>1, AliveIs
    <3>3. KeyAt(u, j) = j /\ KeyAt(t, j) = j
      BY <2>1, KeyAtIs
    <3> QED
      BY <3>2, <3>3
  <2>2. CASE \E n \in 0 .. h - 1 : u.node[n].val # Nil /\ j = a + n
    <3>1. PICK n \in 0 .. h - 1 : u.node[n].val # Nil /\ j = a + n
      BY <2>2
    <3>2. t.node[n].val # Nil /\ u.node[n].key = t.node[n].key
      BY <3>1 DEF Less
    <3>3. j \in Alive(t)
      BY <3>1, <3>2, AliveIs
    <3>4. KeyAt(u, j) = u.node[n].key /\ KeyAt(t, j) = t.node[n].key
      BY <3>1, KeyAtIs
    <3> QED
      BY <3>2, <3>3, <3>4
  <2>3. j \in Alive(u) <=> \/ j \in 0 .. a - 1 /\ u.array[j] # Nil
                           \/ \E n \in 0 .. h - 1 : u.node[n].val # Nil /\ j = a + n
    BY AliveIs
  <2> QED
    BY <1>4, <2>1, <2>2, <2>3
<1> QED
  BY <1>1, <1>2, <1>3, <1>4 DEF Walks

\* A store into a field that exists.
LEMMA StoreOld ==
  ASSUME KeyAssumption, NEW t, NEW c, State(t, c), NEW k \in Keys, c[k] # Nil, NEW v \in Vals \cup {Nil},
         NEW at, NEW seen
  PROVE  Walks(t, at, seen) => Walks(Put(t, k, v), at, seen)
<1> SUFFICES ASSUME Walks(t, at, seen)
             PROVE  Walks(Put(t, k, v), at, seen)
  OBVIOUS
<1> DEFINE a == t.asize
           h == t.hsize
           n == FindLive(t, k)
           u == Put(t, k, v)
<1>1. a \in Nat /\ h \in Nat /\ Built(t, a, h) /\ c \in Contents /\ Maps(t, a, h, c)
  BY DEF State, Good
<1> HIDE DEF a, h, u, n
<1>2. DOMAIN t.array = 0 .. a - 1 /\ t \in Tabs(a, h)
  BY <1>1, BuiltFacts
<1>3. u = IF k \in 0 .. a - 1 THEN WithElement(t, k, v)
          ELSE IF n # Nil THEN WithVal(t, n, v) ELSE Place(t, k, v)
  BY <1>2 DEF Put, WithElement, WithVal, u, n
<1>4. k \notin 0 .. a - 1 => n # Nil
  BY <1>1, Lookup DEF n
<1>5. Built(u, a, h)
  <2>1. k \notin 0 .. a - 1 /\ c[k] = Nil => Room(t, k)
    OBVIOUS
  <2> QED
    BY <1>1, <2>1, PutFacts DEF u
<1>6. CASE k \in 0 .. a - 1
  <2>1. u = WithElement(t, k, v)
    BY <1>3, <1>6
  <2>2. WithElement(t, k, v).array = [t.array EXCEPT ![k] = v] /\ WithElement(t, k, v).node = t.node
    BY <1>1, <1>2, <1>6, ElementSet
  <2>3. \A i \in 0 .. a - 1 : i # k => u.array[i] = t.array[i]
    BY <1>2, <2>1, <2>2
  <2>4. t.array[k] # Nil
    BY <1>1, <1>6 DEF Maps
  <2>5. Less(t, u, a, h, at)
    BY <2>1, <2>2, <2>3, <2>4 DEF Less, Alike
  <2> QED
    BY <1>1, <1>5, <2>5, WalksOn DEF u
<1>7. CASE k \notin 0 .. a - 1
  <2>1. u = WithVal(t, n, v)
    BY <1>3, <1>4, <1>7
  <2>2. n \in 0 .. h - 1 /\ t.node[n].val # Nil
    BY <1>1, <1>4, <1>7, FindFacts DEF n
  <2>3. /\ u.array = t.array /\ u.node[n].key = t.node[n].key /\ u.node[n].next = t.node[n].next
        /\ \A x \in 0 .. h - 1 : x # n => u.node[x] = t.node[x]
    BY <1>1, <1>2, <2>1, <2>2, ValSet
  <2>4. Less(t, u, a, h, at)
    BY <2>2, <2>3 DEF Less, Alike
  <2> QED
    BY <1>1, <1>5, <2>4, WalksOn DEF u
<1> QED
  BY <1>6, <1>7

\* The store through the C setters.
LEMMA PutKeeps ==
  ASSUME KeyAssumption, NEW t, NEW c, State(t, c), NEW k \in Keys, NEW v \in Vals \cup {Nil},
         k \in DOMAIN t.array \/ FindLive(t, k) # Nil
  PROVE  State(Put(t, k, v), [c EXCEPT ![k] = v])
<1> DEFINE a == t.asize
           h == t.hsize
           d == [c EXCEPT ![k] = v]
           u == Put(t, k, v)
<1>1. a \in Nat /\ h \in Nat /\ h \in Sizes /\ Built(t, a, h) /\ c \in Contents /\ Maps(t, a, h, c)
  BY DEF State, Good
<1>2. d \in Contents
  BY <1>1 DEF Contents
<1> HIDE DEF a, h
<1>3. k \notin 0 .. a - 1 => c[k] # Nil
  <2>1. DOMAIN t.array = 0 .. a - 1
    BY <1>1, BuiltFacts
  <2>2. k \notin 0 .. a - 1 => (FindLive(t, k) = Nil <=> c[k] = Nil)
    BY <1>1, Lookup
  <2> QED
    BY <2>1, <2>2
<1>4. k \notin 0 .. a - 1 /\ c[k] = Nil => Room(t, k)
  BY <1>3
<1>5. Built(Put(t, k, v), a, h) /\ Maps(Put(t, k, v), a, h, [c EXCEPT ![k] = v])
  BY <1>1, <1>4, PutFacts
<1>6. Built(u, a, h) /\ Maps(u, a, h, d)
  BY <1>5
<1> HIDE DEF u, d
<1>7. State(u, d)
  BY <1>1, <1>2, <1>6, StateIs
<1> QED
  BY <1>7 DEF u, d

\* The store of the interpreter: the first node with the key is used again.
LEMMA ReuseKeeps ==
  ASSUME KeyAssumption, NEW t, NEW c, State(t, c), NEW k \in Strs, NEW v \in Vals \cup {Nil},
         FindAny(t, k) # Nil, NEW u, u = WithVal(t, FindAny(t, k), v)
  PROVE  /\ State(u, [c EXCEPT ![k] = v])
         /\ \A at, seen : c[k] # Nil /\ Walks(t, at, seen) => Walks(u, at, seen)
<1> DEFINE a == t.asize
           h == t.hsize
           n == FindAny(t, k)
           d == [c EXCEPT ![k] = v]
<1>1. a \in Nat /\ h \in Nat /\ h \in Sizes /\ Built(t, a, h) /\ c \in Contents /\ Maps(t, a, h, c)
  BY DEF State, Good
<1>2. d \in Contents
  BY <1>1 DEF Contents
<1>3. k \in Keys /\ k \in Keys \ (0 .. a - 1)
  <2>1. k \notin Nat
    BY DEF KeyAssumption
  <2> QED
    BY <1>1, <2>1 DEF Keys
<1> HIDE DEF a, h
<1>4. n \in 0 .. h - 1 /\ t.node[n].key = k /\ Reached(t.node, h, n) /\ t \in Tabs(a, h)
  <2>1. t \in Tabs(a, h)
    BY <1>1 DEF Built
  <2>2. n \in 0 .. h - 1 /\ t.node[n].key = k /\ Reached(t.node, h, n)
    BY <1>1, <1>3, FindFacts
  <2> QED
    BY <2>1, <2>2
<1>5. u = WithVal(t, n, v)
  OBVIOUS
<1> HIDE DEF n
<1>6. t.node[n].val # Nil \/ Absent(t.node, h, k)
  <2>1. CASE Absent(t.node, h, k)
    BY <2>1
  <2>2. CASE ~Absent(t.node, h, k)
    <3>1. PICK p \in 0 .. h - 1 : t.node[p].val # Nil /\ t.node[p].key = k
      BY <2>2 DEF Absent
    <3>2. \A q \in 0 .. h - 1 : t.node[q].key = k /\ t.node[q].val # Nil
                                  => FindLive(t, k) = q /\ FindAny(t, k) = q
      BY <1>1, <1>3, FindFacts
    <3> QED
      BY <3>1, <3>2 DEF n
  <2> QED
    BY <2>1, <2>2
<1>7. /\ Built(u, a, h) /\ Maps(u, a, h, [c EXCEPT ![k] = v]) /\ u.array = t.array
      /\ \A x \in 0 .. h - 1 : u.node[x].key = t.node[x].key /\ u.node[x].next = t.node[x].next
      /\ \A x \in 0 .. h - 1 : x # n => u.node[x].val = t.node[x].val
  <2>1. k \in Keys \ (0 .. a - 1) /\ n \in 0 .. h - 1 /\ t.node[n].key = k /\ Reached(t.node, h, n)
    BY <1>3, <1>4
  <2> HIDE DEF d
  <2>2. /\ Built(u, a, h) /\ Maps(u, a, h, [c EXCEPT ![k] = v])
        /\ u.array = t.array /\ u.freetop = t.freetop
        /\ \A x \in 0 .. h - 1 : u.node[x].key = t.node[x].key /\ u.node[x].next = t.node[x].next
        /\ \A x \in 0 .. h - 1 : x # n => u.node[x].val = t.node[x].val
    <3>1. Settable(t, h, n, k)
      BY <1>6 DEF Settable
    <3> QED
      BY <1>1, <1>5, <2>1, <3>1, StoreNode, SMTT(20)
  <2> QED
    BY <2>2
<1>8. Maps(u, a, h, d)
  BY <1>7
<1> HIDE DEF d
<1>9. State(u, d)
  BY <1>1, <1>2, <1>7, <1>8, StateIs
<1>10. ASSUME c[k] # Nil, NEW at, NEW seen, Walks(t, at, seen)
       PROVE  Walks(u, at, seen)
  <2>1. ~Absent(t.node, h, k)
    BY <1>1, <1>3, <1>10, Lookup
  <2>2. Less(t, u, a, h, at)
    BY <1>6, <1>7, <2>1 DEF Less, Alike
  <2> QED
    BY <1>1, <1>7, <1>10, <2>2, WalksOn
<1> QED
  BY <1>9, <1>10 DEF d

Nothing == [k \in Keys |-> Nil]

\* A new table is empty.
LEMMA NewIsEmpty ==
  ASSUME KeyAssumption, NEW a \in Nat, NEW b \in Nat, HashSize(b) \in Sizes
  PROVE  State(NewTab(a, b), Nothing)
<1> DEFINE h == HashSize(b)
           t == NewTab(a, b)
<1>1. h \in Nat /\ Emptied(t, a, h) /\ \A i \in 0 .. a - 1 : t.array[i] = Nil
  BY NewTabIs
<1>2. h \in Sizes
  OBVIOUS
<1> HIDE DEF h, t
<1>3. Built(t, a, h) /\ \A k, w : Holds(t.node, h, k, w) => w = Nil
  BY <1>1, EmptyHash
<1>4. Nothing \in Contents /\ \A k \in Keys : Nothing[k] = Nil
  BY DEF Nothing, Contents
<1>5. Maps(t, a, h, Nothing)
  <2>1. \A w \in Vals : w # Nil
    BY DEF KeyAssumption
  <2> QED
    BY <1>1, <1>3, <1>4, <2>1 DEF Maps
<1> QED
  BY <1>1, <1>2, <1>3, <1>4, <1>5, StateIs DEF t

\* A dead node of the string k1 gets the key k2, or nobody's; of k2, nobody's.
Renamed(s, k1, k2) ==
  IF s.key = k1 THEN [s EXCEPT !.key = IF k2 = Nil THEN Stale ELSE k2]
  ELSE IF s.key = k2 /\ k2 # Nil THEN [s EXCEPT !.key = Stale]
  ELSE s

Recycled(t, k1, k2) == [t EXCEPT !.node = [n \in DOMAIN @ |-> Renamed(@[n], k1, k2)]]

DeadKeys(t, h, k1, k2) ==
  \A n \in 0 .. h - 1 : t.node[n].key \in {k1, k2} => t.node[n].val = Nil

\* A node whose dead key is renamed.
LEMMA RenamedIs ==
  ASSUME KeyAssumption, NEW h \in Nat, NEW s \in Slots(h), NEW k1 \in Strs, NEW k2 \in Strs \cup {Nil}
  PROVE  /\ Renamed(s, k1, k2) \in Slots(h)
         /\ Renamed(s, k1, k2).val = s.val /\ Renamed(s, k1, k2).next = s.next
         /\ Renamed(s, k1, k2).key = IF s.key = k1 THEN IF k2 = Nil THEN Stale ELSE k2
                                     ELSE IF s.key = k2 /\ k2 # Nil THEN Stale ELSE s.key
<1>1. Stale \in Keys \cup {Nil, Stale} /\ (k2 # Nil => k2 \in Keys)
  BY DEF Keys
<1> QED
  BY <1>1 DEF Renamed, Slots

\* The nodes of u are those of t with other dead keys.
OtherDead(t, u, h, k1, k2) ==
  \A n \in 0 .. h - 1 :
    /\ u.node[n].val = t.node[n].val /\ u.node[n].next = t.node[n].next
    /\ u.node[n].key = IF t.node[n].key = k1 THEN IF k2 = Nil THEN Stale ELSE k2
                       ELSE IF t.node[n].key = k2 /\ k2 # Nil THEN Stale ELSE t.node[n].key

\* A table whose dead keys are renamed.
LEMMA RecycledIs ==
  ASSUME KeyAssumption, NEW a \in Nat, NEW h \in Nat, NEW t \in Tabs(a, h),
         NEW k1 \in Strs, NEW k2 \in Strs \cup {Nil}, NEW u, u = Recycled(t, k1, k2)
  PROVE  /\ u \in Tabs(a, h) /\ u.array = t.array /\ u.freetop = t.freetop
         /\ OtherDead(t, u, h, k1, k2)
<1>1. t.node \in Hashes(h) /\ DOMAIN t.node = 0 .. h - 1
  BY TabFacts
<1> DEFINE g == [n \in 0 .. h - 1 |-> Renamed(t.node[n], k1, k2)]
<1>2. \A n \in 0 .. h - 1 :
        /\ g[n] \in Slots(h) /\ g[n].val = t.node[n].val /\ g[n].next = t.node[n].next
        /\ g[n].key = IF t.node[n].key = k1 THEN IF k2 = Nil THEN Stale ELSE k2
                      ELSE IF t.node[n].key = k2 /\ k2 # Nil THEN Stale ELSE t.node[n].key
  <2> TAKE n \in 0 .. h - 1
  <2>1. t.node[n] \in Slots(h) /\ g[n] = Renamed(t.node[n], k1, k2)
    BY <1>1 DEF Hashes
  <2> HIDE DEF g
  <2> QED
    BY <2>1, RenamedIs, SMTT(20)
<1>3. g \in Hashes(h)
  BY <1>2 DEF Hashes
<1>4. u = WithNodes(t, g)
  BY <1>1 DEF Recycled, WithNodes
<1> HIDE DEF g
<1>5. u \in Tabs(a, h) /\ u.array = t.array /\ u.node = g /\ u.freetop = t.freetop
  BY <1>3, <1>4, NodesSet
<1> QED
  BY <1>2, <1>5 DEF OtherDead

\* Dead keys are renamed: nothing is lost, and a traversal goes on.
LEMMA RecycleKeeps ==
  ASSUME KeyAssumption, NEW t, NEW c, State(t, c), NEW k1 \in Strs, NEW k2 \in Strs \cup {Nil},
         DeadKeys(t, t.hsize, k1, k2), NEW u, u = Recycled(t, k1, k2)
  PROVE  /\ State(u, c)
         /\ \A at, seen : at # k1 /\ (at # k2 \/ k2 = Nil) /\ Walks(t, at, seen) => Walks(u, at, seen)
<1> DEFINE a == t.asize
           h == t.hsize
           K == Keys \ (0 .. a - 1)
           g == t.node
           g2 == u.node
<1>1. /\ a \in Nat /\ h \in Nat /\ h \in Sizes /\ Built(t, a, h) /\ c \in Contents /\ Maps(t, a, h, c)
      /\ DeadKeys(t, h, k1, k2)
  BY DEF State, Good
<1> HIDE DEF a, h
<1>2. t \in Tabs(a, h) /\ Sound(g, h, K) /\ K \in SUBSET Keys /\ g \in Hashes(h)
  BY <1>1, BuiltFacts
<1>3. /\ u \in Tabs(a, h) /\ u.array = t.array /\ u.freetop = t.freetop
      /\ \A n \in 0 .. h - 1 :
           /\ g2[n].val = g[n].val /\ g2[n].next = g[n].next
           /\ g2[n].key = IF g[n].key = k1 THEN IF k2 = Nil THEN Stale ELSE k2
                          ELSE IF g[n].key = k2 /\ k2 # Nil THEN Stale ELSE g[n].key
  <2>1. t \in Tabs(a, h)
    BY <1>2
  <2>2. /\ u \in Tabs(a, h) /\ u.array = t.array /\ u.freetop = t.freetop
        /\ OtherDead(t, u, h, k1, k2)
    BY <1>1, <2>1, RecycledIs
  <2> QED
    BY <2>2 DEF OtherDead
<1>4. g2 \in Hashes(h)
  BY <1>3, TabFacts, <1>1
<1>5. k1 \in Keys /\ k1 # Nil /\ k1 # Stale /\ k2 # Stale /\ Nil # Stale /\ Stale \notin Keys /\ Nil \notin Keys
  <2>1. \A x \in Keys : x \in Strs \/ x \in Nat
    BY DEF KeyAssumption, Keys
  <2>2. \A x : x \in Strs \/ x \in Nat => x # Nil /\ x # Stale
    BY DEF KeyAssumption
  <2>3. Nil # Stale /\ k1 \in Keys
    BY DEF KeyAssumption, Keys
  <2> QED
    BY <2>1, <2>2, <2>3
<1> HIDE DEF g, g2, K
<1>6. /\ \A n \in 0 .. h - 1 : g2[n].key = Nil <=> g[n].key = Nil
      /\ \A n \in 0 .. h - 1 : g[n].val # Nil => g2[n].key = g[n].key /\ g[n].key \notin {k1, k2}
  BY <1>1, <1>3, <1>5 DEF DeadKeys, g
<1>7. \A n \in 0 .. h - 1 : g2[n].val = g[n].val /\ g2[n].next = g[n].next
  BY <1>3
<1>70. /\ Ends(g, h) => Ends(g2, h)
       /\ OnePred(g, h) => OnePred(g2, h)
       /\ \A m, p : \A S \in SUBSET (0 .. h - 1) : Way(g, m, p, S) => Way(g2, m, p, S)
  <2>1. \A x \in 0 .. h - 1 : g2[x].next = g[x].next
    BY <1>7
  <2> QED
    BY <1>1, <2>1, SameChains
<1>8. Sound(g2, h, K)
  <2>1. Ends(g2, h) /\ OnePred(g2, h)
    BY <1>2, <1>70 DEF Sound, Frame
  <2>2. Linked(g2, h)
    <3> SUFFICES ASSUME NEW x \in 0 .. h - 1, g2[x].next # Nil
                 PROVE  g2[g2[x].next].key # Nil
      BY DEF Linked
    <3>1. g2[x].next \in 0 .. h - 1 /\ g2[x].next = g[x].next
      BY <1>4, <1>7, SlotOf, <1>1
    <3> QED
      BY <1>2, <1>6, <3>1 DEF Sound, Frame, Linked
  <2>3. Blank(g2, h) /\ Own(g2, h, K) /\ Distinct(g2, h)
    BY <1>2, <1>6, <1>7 DEF Sound, Frame, Blank, Own, Distinct
  <2>4. ASSUME NEW p \in 0 .. h - 1, g2[p].val # Nil
        PROVE  Reached(g2, h, p)
    <3>1. g[p].val # Nil /\ g2[p].key = g[p].key /\ g[p].key \notin {k1, k2}
      BY <1>6, <1>7, <2>4
    <3>2. Reached(g, h, p) /\ g[p].key \in Keys
      BY <1>2, <3>1 DEF Sound, Frame, Own
    <3>3. PICK S \in SUBSET (0 .. h - 1) :
            Way(g, Home(h, g[p].key), p, S) /\ \A x \in S : g[x].key # g[p].key
      BY <3>2 DEF Reached
    <3>4. Way(g2, Home(h, g[p].key), p, S)
      BY <1>70, <3>3
    <3>5. \A x \in S : g2[x].key # g[p].key
      BY <1>3, <1>5, <3>1, <3>2, <3>3
    <3> QED
      BY <3>1, <3>4, <3>5 DEF Reached
  <2> QED
    BY <1>4, <2>1, <2>2, <2>3, <2>4 DEF Sound, Frame
<1>9. Built(u, a, h)
  <2>1. \A n \in 0 .. h - 1 : n >= u.freetop => g2[n].key # Nil
    BY <1>1, <1>3, <1>6 DEF Built, g
  <2>2. \A i \in 0 .. a - 1 : u.array[i] # Nil => i \in Ints
    BY <1>1, <1>3 DEF Built
  <2> QED
    BY <1>3, <1>8, <2>1, <2>2 DEF Built, K, g2
<1>10. Maps(u, a, h, c)
  <2>1. \A k \in Keys, w \in Vals : Holds(g2, h, k, w) <=> Holds(g, h, k, w)
    <3>1. \A w \in Vals : w # Nil
      BY DEF KeyAssumption
    <3> QED
      BY <1>6, <1>7, <3>1 DEF Holds
  <2> QED
    BY <1>1, <1>3, <2>1 DEF Maps, g, g2
<1>11. State(u, c)
  BY <1>1, <1>9, <1>10, StateIs
<1>12. ASSUME NEW at, NEW seen, at # k1, at # k2 \/ k2 = Nil, Walks(t, at, seen)
       PROVE  Walks(u, at, seen)
  <2>1. at \in Keys \cup {Nil}
    BY <1>12 DEF Walks
  <2>2. ASSUME NEW x \in 0 .. h - 1
        PROVE  g2[x].key = at <=> g[x].key = at
    BY <1>3, <1>5, <1>12, <2>1
  <2>3. Less(t, u, a, h, at)
    BY <1>3, <1>6, <1>7, <2>2 DEF Less, Alike, g, g2
  <2> QED
    BY <1>1, <1>9, <1>12, <2>3, WalksOn
<1> QED
  BY <1>11, <1>12

\* The least member of a set of numbers.
LEMMA MinIsLeast ==
  ASSUME NEW S \in SUBSET Nat, S # {}
  PROVE  Min(S) \in S /\ \A x \in S : Min(S) <= x
<1>1. \E m \in S : \A x \in S : m <= x
  BY LeastExists
<1> QED
  BY <1>1, Zenon DEF Min

\* Places and keys: each key that is present has one place.
LEMMA Places ==
  ASSUME KeyAssumption, NEW t, NEW c, State(t, c)
  PROVE  /\ Alive(t) \in SUBSET Nat
         /\ \A k \in Keys : c[k] # Nil => \E j \in Alive(t) : KeyAt(t, j) = k
         /\ \A j \in Alive(t) : /\ KeyAt(t, j) \in Keys /\ c[KeyAt(t, j)] # Nil
                                /\ Index(t, KeyAt(t, j)) = j + 1
                                /\ KeyAt(t, j) \notin DOMAIN t.array => FindAny(t, KeyAt(t, j)) # Nil
<1> DEFINE a == t.asize
           h == t.hsize
<1>1. a \in Nat /\ h \in Nat /\ Built(t, a, h) /\ c \in Contents /\ Maps(t, a, h, c)
  BY DEF State, Good
<1>a. a = t.asize
  OBVIOUS
<1> HIDE DEF a, h
<1>2. DOMAIN t.array = 0 .. a - 1 /\ Own(t.node, h, Keys \ (0 .. a - 1)) /\ Nil \notin 0 .. h - 1
      /\ \A i \in 0 .. a - 1 : t.array[i] # Nil => i \in Keys
  BY <1>1, BuiltFacts, NilApart DEF Sound, Frame, Built, Keys
<1>3. Nil \notin Keys
  <2>1. \A x \in Keys : x \in Strs \/ x \in Nat
    BY DEF KeyAssumption, Keys
  <2> QED
    BY <2>1 DEF KeyAssumption
<1>4. \A j : j \in Alive(t) <=> \/ j \in 0 .. a - 1 /\ t.array[j] # Nil
                                \/ \E n \in 0 .. h - 1 : t.node[n].val # Nil /\ j = a + n
  BY <1>1, AliveIs
<1>5. /\ \A j \in 0 .. a - 1 : KeyAt(t, j) = j
      /\ \A n \in 0 .. h - 1 : KeyAt(t, a + n) = t.node[n].key
  BY <1>1, KeyAtIs
<1>6. Alive(t) \in SUBSET Nat
  BY <1>1, <1>4
<1>7. ASSUME NEW k \in Keys, c[k] # Nil
      PROVE  \E j \in Alive(t) : KeyAt(t, j) = k
  <2>1. CASE k \in 0 .. a - 1
    <3>1. t.array[k] # Nil
      BY <1>1, <1>7, <2>1, ContentsInNodes
    <3> QED
      BY <1>4, <1>5, <2>1, <3>1
  <2>2. CASE k \notin 0 .. a - 1
    <3>1. PICK n \in 0 .. h - 1 : t.node[n].val # Nil /\ t.node[n].key = k
      BY <1>1, <1>7, <2>2, ContentsInNodes
    <3>2. a + n \in Alive(t)
      BY <1>4, <3>1
    <3>3. KeyAt(t, a + n) = k
      BY <1>5, <3>1
    <3> QED
      BY <3>2, <3>3
  <2> QED
    BY <2>1, <2>2
<1>8. ASSUME NEW j \in Alive(t)
      PROVE  /\ KeyAt(t, j) \in Keys /\ c[KeyAt(t, j)] # Nil
             /\ Index(t, KeyAt(t, j)) = j + 1
             /\ KeyAt(t, j) \notin DOMAIN t.array => FindAny(t, KeyAt(t, j)) # Nil
  <2>1. CASE j \in 0 .. a - 1 /\ t.array[j] # Nil
    <3>1. KeyAt(t, j) = j /\ j \in Keys
      BY <1>2, <1>5, <2>1
    <3>2. c[j] # Nil
      BY <1>1, <2>1, <3>1 DEF Maps
    <3> QED
      BY <1>2, <1>3, <2>1, <3>1, <3>2 DEF Index
  <2>2. CASE \E n \in 0 .. h - 1 : t.node[n].val # Nil /\ j = a + n
    <3>1. PICK n \in 0 .. h - 1 : t.node[n].val # Nil /\ j = a + n
      BY <2>2
    <3> DEFINE k == t.node[n].key
    <3>2. KeyAt(t, j) = k
      BY <1>5, <3>1
    <3>3. k \in Keys /\ k \notin 0 .. a - 1
      BY <1>2, <3>1 DEF Own
    <3>30. t.node[n].key = k
      OBVIOUS
    <3> HIDE DEF k
    <3>4. c[k] # Nil
      BY <1>1, <3>1, <3>3, <3>30, ContentsInNodes
    <3>5. FindAny(t, k) = n
      <4>1. \A p \in 0 .. h - 1 : t.node[p].key = k /\ t.node[p].val # Nil
                                    => FindLive(t, k) = p /\ FindAny(t, k) = p
        BY <1>1, <3>3, FindFacts
      <4> QED
        BY <3>1, <3>30, <4>1
    <3>6. Index(t, k) = a + n + 1
      BY <1>2, <1>3, <3>3, <3>5, <1>a DEF Index
    <3>7. n # Nil
      BY <1>2
    <3> QED
      BY <3>1, <3>2, <3>3, <3>4, <3>5, <3>6, <3>7
  <2> QED
    BY <1>4, <1>8, <2>1, <2>2
<1> QED
  BY <1>6, <1>7, <1>8

\* A step of a traversal ends it or returns a key that it has not returned.
\* All keys present were returned; k is one that was not.
Returned(c, seen) == \A k \in Keys : c[k] # Nil => k \in seen
Unseen(c, seen, k) == k \in Keys /\ c[k] # Nil /\ k \notin seen

\* lj_tab_next returns a new key, or all of them were returned.
LEMMA Visits ==
  ASSUME KeyAssumption, NEW t, NEW c, State(t, c), NEW at, NEW seen, Walks(t, at, seen),
         KeyIndex(t, at) # -1, NEW P, P = Ahead(t, KeyIndex(t, at))
  PROVE  /\ P = {} => Returned(c, seen)
         /\ P # {} => /\ Unseen(c, seen, KeyAt(t, Min(P)))
                      /\ Walks(t, KeyAt(t, Min(P)), seen \cup {KeyAt(t, Min(P))})
<1> DEFINE i == Index(t, at)
<1>1. KeyIndex(t, at) = i
  BY DEF KeyIndex, Index
<1>2. P = {j \in Alive(t) : j >= i}
  BY <1>1 DEF Ahead, Alive
<1>3. /\ Alive(t) \in SUBSET Nat
      /\ \A k \in Keys : c[k] # Nil => \E j \in Alive(t) : KeyAt(t, j) = k
      /\ \A j \in Alive(t) : /\ KeyAt(t, j) \in Keys /\ c[KeyAt(t, j)] # Nil
                             /\ Index(t, KeyAt(t, j)) = j + 1
                             /\ KeyAt(t, j) \notin DOMAIN t.array => FindAny(t, KeyAt(t, j)) # Nil
  BY Places
<1>4. /\ seen \in SUBSET Keys
      /\ \A j \in Alive(t) : j < i <=> KeyAt(t, j) \in seen
  BY DEF Walks
<1>40. i \in Int
  <2>1. CASE at = Nil
    BY <2>1 DEF Index
  <2> DEFINE a == t.asize
             h == t.hsize
  <2>2. a \in Nat /\ h \in Nat /\ Built(t, a, h)
    BY DEF State, Good
  <2>3. CASE at # Nil /\ at \in DOMAIN t.array
    <3>1. DOMAIN t.array = 0 .. a - 1
      BY <2>2, BuiltFacts
    <3>2. at \in Int
      BY <2>3, <3>1
    <3> QED
      BY <2>3, <3>2 DEF Index
  <2>4. CASE at # Nil /\ at \notin DOMAIN t.array
    <3>1. at \in Keys /\ FindAny(t, at) # Nil
      BY <2>4 DEF Walks
    <3> HIDE DEF a, h
    <3>2. FindAny(t, at) \in 0 .. h - 1
      BY <2>2, <3>1, FindFacts
    <3>3. FindAny(t, at) \in Int
      BY <2>2, <3>2
    <3>4. i = t.asize + FindAny(t, at) + 1
      BY <2>4 DEF Index
    <3> QED
      BY <2>2, <3>3, <3>4 DEF a
  <2> QED
    BY <2>1, <2>3, <2>4
<1> HIDE DEF i
<1>5. ASSUME P = {}, NEW k \in Keys, c[k] # Nil
      PROVE  k \in seen
  <2>1. PICK j \in Alive(t) : KeyAt(t, j) = k
    BY <1>3, <1>5
  <2>2. j < i
    BY <1>2, <1>3, <1>5, <1>40, <2>1
  <2> QED
    BY <1>4, <2>1, <2>2
<1>6. ASSUME P # {}, NEW k, k = KeyAt(t, Min(P))
      PROVE  k \in Keys /\ c[k] # Nil /\ k \notin seen /\ Walks(t, k, seen \cup {k})
  <2> DEFINE m == Min(P)
  <2>0. P \in SUBSET Nat
    BY <1>2, <1>3
  <2>1. m \in P /\ \A x \in P : m <= x
    BY <1>6, <2>0, MinIsLeast
  <2> HIDE DEF m
  <2>2. m \in Alive(t) /\ m >= i /\ m \in Nat
    BY <1>2, <1>3, <2>1
  <2>3. k = KeyAt(t, m)
    BY <1>6 DEF m
  <2>4. /\ k \in Keys /\ c[k] # Nil /\ Index(t, k) = m + 1
        /\ k \notin DOMAIN t.array => FindAny(t, k) # Nil
    BY <1>3, <2>2, <2>3
  <2>5. k \notin seen
    BY <1>4, <1>40, <2>2, <2>3
  <2>6. ASSUME NEW j \in Alive(t)
        PROVE  j < m + 1 <=> KeyAt(t, j) \in seen \cup {k}
    <3>0. j \in Nat /\ Index(t, KeyAt(t, j)) = j + 1
      BY <1>3
    <3>1. KeyAt(t, j) = k <=> j = m
      BY <2>2, <2>3, <2>4, <3>0
    <3>2. j < i \/ j >= m
      BY <1>2, <1>40, <2>1, <3>0
    <3>3. j < i <=> KeyAt(t, j) \in seen
      BY <1>4
    <3> QED
      BY <1>40, <2>2, <3>0, <3>1, <3>2, <3>3
  <2>7. Walks(t, k, seen \cup {k})
    BY <1>4, <2>4, <2>6 DEF Walks
  <2> QED
    BY <2>4, <2>5, <2>7
<1> QED
  BY <1>5, <1>6 DEF Returned, Unseen

\* A border of the sequence in table t.
Edge(t, n) == (n = 0 \/ Get(t, n) # Nil) /\ Get(t, n + 1) = Nil

\* Searching for one between lo and hi.
Between(t, r) == /\ r.lo \in Nat /\ r.hi \in Nat /\ r.lo < r.hi
                 /\ r.lo = 0 \/ Get(t, r.lo) # Nil
                 /\ Get(t, r.hi) = Nil

Halved(t, r) ==
  LET mid == (r.lo + r.hi) \div 2
  IN  IF r.hi - r.lo <= 1 THEN r
      ELSE IF Get(t, mid) # Nil THEN [r EXCEPT !.lo = mid] ELSE [r EXCEPT !.hi = mid]

Ranges == [lo : Nat, hi : Nat]

\* One round of Bisect.
LEMMA HalvedIs ==
  ASSUME NEW t, NEW r \in Ranges, Between(t, r)
  PROVE  /\ Between(t, Halved(t, r))
         /\ Halved(t, r).hi - Halved(t, r).lo <= 1
              \/ Halved(t, r).hi - Halved(t, r).lo < r.hi - r.lo
<1> DEFINE mid == (r.lo + r.hi) \div 2
           s == Halved(t, r)
<1>1. r.lo \in Nat /\ r.hi \in Nat /\ r.lo < r.hi
  BY DEF Ranges, Between
<1>2. CASE r.hi - r.lo <= 1
  BY <1>2 DEF Halved
<1>3. CASE ~(r.hi - r.lo <= 1)
  <2>1. mid \in Nat /\ r.lo < mid /\ mid < r.hi
    BY <1>1, <1>3
  <2>2. s = IF Get(t, mid) # Nil THEN [r EXCEPT !.lo = mid] ELSE [r EXCEPT !.hi = mid]
    BY <1>3 DEF Halved
  <2> HIDE DEF mid, s
  <2>3. CASE Get(t, mid) # Nil
    <3>1. s.lo = mid /\ s.hi = r.hi
      BY <2>2, <2>3 DEF Ranges
    <3>2. Between(t, s)
      BY <1>1, <2>1, <2>3, <3>1 DEF Between
    <3> QED
      BY <1>1, <2>1, <3>1, <3>2 DEF s
  <2>4. CASE Get(t, mid) = Nil
    <3>1. s.lo = r.lo /\ s.hi = mid
      BY <2>2, <2>4 DEF Ranges
    <3>2. Between(t, s)
      BY <1>1, <2>1, <2>4, <3>1 DEF Between
    <3> QED
      BY <1>1, <2>1, <3>1, <3>2 DEF s
  <2> QED
    BY <2>3, <2>4
<1> QED
  BY <1>2, <1>3

\* The rounds of Bisect stay in their type.
LEMMA HalvedType ==
  ASSUME NEW t, NEW r \in Ranges
  PROVE  Halved(t, r) \in Ranges
<1> DEFINE mid == (r.lo + r.hi) \div 2
<1>1. mid \in Nat
  BY DEF Ranges
<1> HIDE DEF mid
<1>2. [r EXCEPT !.lo = mid] \in Ranges /\ [r EXCEPT !.hi = mid] \in Ranges
  BY <1>1 DEF Ranges
<1> QED
  BY <1>2 DEF Halved, mid

\* B is the search in N rounds.
Search(B, t, lo, hi, N) ==
  B = [i \in 0 .. N |-> IF i = 0 THEN [lo |-> lo, hi |-> hi] ELSE Halved(t, B[i - 1])]

\* They exist.
LEMMA SearchExists ==
  ASSUME NEW t, NEW lo \in Nat, NEW hi \in Nat, NEW N \in Nat
  PROVE  \E B : Search(B, t, lo, hi, N)
<1> DEFINE step == [r \in Ranges |-> Halved(t, r)]
           x == [lo |-> lo, hi |-> hi]
<1>1. step \in [Ranges -> Ranges] /\ x \in Ranges
  BY HalvedType DEF Ranges
<1>2. \A r \in Ranges : step[r] = Halved(t, r)
  OBVIOUS
<1> HIDE DEF step, x
<1>3. PICK F \in [0 .. N -> Ranges] : RoundsOf(F, step, x, N)
  BY <1>1, RoundsExist
<1>4. \A i \in 0 .. N : F[i] = IF i = 0 THEN x ELSE step[F[i - 1]]
  BY <1>3 DEF RoundsOf
<1>5. \A i \in 0 .. N : i # 0 => i - 1 \in 0 .. N
  OBVIOUS
<1>6. \A i \in 0 .. N : F[i] = IF i = 0 THEN x ELSE Halved(t, F[i - 1])
  BY <1>2, <1>4, <1>5
<1>7. F = [i \in 0 .. N |-> F[i]]
  OBVIOUS
<1>8. Search(F, t, lo, hi, N)
  BY <1>6, <1>7 DEF Search, x
<1> QED
  BY <1>8

\* Bisect finds a border.
LEMMA BisectIs ==
  ASSUME NEW t, NEW lo \in Nat, NEW hi \in Nat, lo < hi, lo = 0 \/ Get(t, lo) # Nil, Get(t, hi) = Nil
  PROVE  Edge(t, Bisect(t, lo, hi))
<1> DEFINE F == CHOOSE B : Search(B, t, lo, hi, hi)
           x == [lo |-> lo, hi |-> hi]
<1>1. Bisect(t, lo, hi) = F[hi].lo
  BY DEF Bisect, Search, Halved
<1>2. Search(F, t, lo, hi, hi)
  BY SearchExists, Zenon
<1> HIDE DEF F
<1>3. \A i \in 0 .. hi : F[i] = IF i = 0 THEN x ELSE Halved(t, F[i - 1])
  BY <1>2 DEF Search
<1>4. x \in Ranges /\ x.lo = lo /\ x.hi = hi /\ Between(t, x)
  BY DEF Ranges, Between
<1> HIDE DEF x
<1> DEFINE T == {i \in Nat : i <= hi => /\ F[i] \in Ranges /\ Between(t, F[i])
                                        /\ F[i].hi - F[i].lo <= 1 \/ F[i].hi - F[i].lo <= hi - i}
<1>5. 0 \in T
  BY <1>3, <1>4
<1>6. ASSUME NEW n \in Nat, n \in T
      PROVE  n + 1 \in T
  <2> DEFINE r == F[n]
             s == F[n + 1]
  <2> SUFFICES ASSUME n + 1 <= hi
               PROVE  /\ s \in Ranges /\ Between(t, s)
                      /\ s.hi - s.lo <= 1 \/ s.hi - s.lo <= hi - (n + 1)
    OBVIOUS
  <2>1. r \in Ranges /\ Between(t, r) /\ (r.hi - r.lo <= 1 \/ r.hi - r.lo <= hi - n)
    BY <1>6
  <2>2. s = Halved(t, r)
    BY <1>3
  <2> HIDE DEF r, s
  <2>3. s \in Ranges /\ Between(t, s) /\ (s.hi - s.lo <= 1 \/ s.hi - s.lo < r.hi - r.lo)
    BY <2>1, <2>2, HalvedType, HalvedIs
  <2>4. s.hi \in Nat /\ s.lo \in Nat /\ r.hi \in Nat /\ r.lo \in Nat
    BY <2>1, <2>3 DEF Ranges
  <2> QED
    BY <2>1, <2>3, <2>4
<1> HIDE DEF T
<1>7. hi \in T
  BY <1>5, <1>6, SetInduction
<1> DEFINE e == F[hi]
<1>8. e \in Ranges /\ Between(t, e) /\ (e.hi - e.lo <= 1 \/ e.hi - e.lo <= hi - hi)
  BY <1>7 DEF T
<1> HIDE DEF e
<1>9. e.lo \in Nat /\ e.hi = e.lo + 1
  BY <1>8 DEF Between
<1>10. Edge(t, e.lo)
  BY <1>8, <1>9 DEF Edge, Between
<1> QED
  BY <1>1, <1>10 DEF e

\* Behind the array part, a key with a value has a node.
LEMMA BehindArray ==
  ASSUME KeyAssumption, NEW a \in Nat, NEW h \in Nat, NEW t, Built(t, a, h), NEW k \in Nat, k >= a,
         Get(t, k) # Nil
  PROVE  \E n \in 0 .. h - 1 : t.node[n].key = k
<1>1. DOMAIN t.array = 0 .. a - 1
  BY BuiltFacts
<1>2. k \notin 0 .. a - 1
  OBVIOUS
<1>3. At(t, FindLive(t, k)) # Nil
  BY <1>1, <1>2 DEF Get
<1>4. FindLive(t, k) # Nil
  BY <1>3 DEF At
<1>5. k \in Keys
  BY <1>4 DEF FindLive, Find
<1>6. FindLive(t, k) \in 0 .. h - 1 /\ t.node[FindLive(t, k)].key = k
  BY <1>4, <1>5, FindFacts
<1> QED
  BY <1>6

Doubled(t, r) == IF Get(t, r.hi) = Nil THEN r ELSE [lo |-> r.hi, hi |-> 2 * r.hi]

Doubling(W, t, lo, hi, N) ==
  W = [i \in 0 .. N |-> IF i = 0 THEN [lo |-> lo, hi |-> hi] ELSE Doubled(t, W[i - 1])]

\* The rounds of Widen exist.
LEMMA DoublingExists ==
  ASSUME NEW t, NEW lo \in Nat, NEW hi \in Nat, NEW N \in Nat
  PROVE  \E W : Doubling(W, t, lo, hi, N)
<1> DEFINE step == [r \in Ranges |-> Doubled(t, r)]
           x == [lo |-> lo, hi |-> hi]
<1>1. step \in [Ranges -> Ranges] /\ x \in Ranges
  BY DEF Ranges, Doubled
<1>2. \A r \in Ranges : step[r] = Doubled(t, r)
  OBVIOUS
<1> HIDE DEF step, x
<1>3. PICK F \in [0 .. N -> Ranges] : RoundsOf(F, step, x, N)
  BY <1>1, RoundsExist
<1>4. \A i \in 0 .. N : F[i] = IF i = 0 THEN x ELSE step[F[i - 1]]
  BY <1>3 DEF RoundsOf
<1>5. \A i \in 0 .. N : i # 0 => i - 1 \in 0 .. N
  OBVIOUS
<1>6. \A i \in 0 .. N : F[i] = IF i = 0 THEN x ELSE Doubled(t, F[i - 1])
  BY <1>2, <1>4, <1>5
<1>7. F = [i \in 0 .. N |-> F[i]]
  OBVIOUS
<1>8. Doubling(F, t, lo, hi, N)
  BY <1>6, <1>7 DEF Doubling, x
<1> QED
  BY <1>8

\* Nodes in which i keys are smaller than hi.
Below(t, h, i, hi) ==
  \E P \in SUBSET (0 .. h - 1) :
    IsFiniteSet(P) /\ Cardinality(P) = i /\ \A n \in P : t.node[n].key \in Nat /\ t.node[n].key < hi

Widened(t, a, h, i, r) ==
  /\ r \in Ranges /\ r.lo < r.hi /\ r.hi >= a /\ (r.lo = 0 \/ Get(t, r.lo) # Nil)
  /\ Get(t, r.hi) = Nil \/ Below(t, h, i, r.hi)

\* One round of Widen: one more node has a key below hi.
LEMMA DoubledIs ==
  ASSUME KeyAssumption, NEW a \in Nat, NEW h \in Nat, NEW t, Built(t, a, h), NEW i \in Nat,
         NEW r, Widened(t, a, h, i, r)
  PROVE  Widened(t, a, h, i + 1, Doubled(t, r))
<1>1. /\ r \in Ranges /\ r.lo \in Nat /\ r.hi \in Nat /\ r.lo < r.hi /\ r.hi >= a
      /\ Get(t, r.hi) = Nil \/ Below(t, h, i, r.hi)
  BY DEF Widened, Ranges
<1>2. CASE Get(t, r.hi) = Nil
  <2>1. Doubled(t, r) = r
    BY <1>2 DEF Doubled
  <2> QED
    BY <1>2, <2>1 DEF Widened
<1>3. CASE Get(t, r.hi) # Nil
  <2> DEFINE s == Doubled(t, r)
             k == r.hi
  <2>1. s = [lo |-> k, hi |-> 2 * k]
    BY <1>3 DEF Doubled
  <2>2. s \in Ranges /\ s.lo = k /\ s.hi = 2 * k
    BY <1>1, <2>1 DEF Ranges
  <2>3. k \in Nat /\ k >= a /\ k > 0 /\ Get(t, k) # Nil /\ Below(t, h, i, k)
    BY <1>1, <1>3
  <2> HIDE DEF s, k
  <2>4. PICK n \in 0 .. h - 1 : t.node[n].key = k
    BY <2>3, BehindArray
  <2>5. PICK P \in SUBSET (0 .. h - 1) :
          IsFiniteSet(P) /\ Cardinality(P) = i /\ \A x \in P : t.node[x].key \in Nat /\ t.node[x].key < k
    BY <2>3 DEF Below
  <2>6. n \notin P
    BY <2>3, <2>4, <2>5
  <2>7. IsFiniteSet(P \cup {n}) /\ Cardinality(P \cup {n}) = i + 1
    BY <2>5, <2>6, FS_AddElement
  <2>8. \A x \in P \cup {n} : t.node[x].key \in Nat /\ t.node[x].key < 2 * k
    BY <2>3, <2>4, <2>5
  <2>9. P \cup {n} \in SUBSET (0 .. h - 1)
    BY <2>4, <2>5
  <2>10. Below(t, h, i + 1, 2 * k)
    BY <2>7, <2>8, <2>9 DEF Below
  <2>11. k < 2 * k /\ 2 * k >= a
    BY <2>3
  <2> QED
    BY <2>2, <2>3, <2>10, <2>11 DEF Widened, s
<1> QED
  BY <1>2, <1>3

\* Widen finds a border: there are no more nodes than rounds.
LEMMA WidenIs ==
  ASSUME KeyAssumption, NEW a \in Nat, NEW h \in Nat, NEW t, Built(t, a, h), NEW lo \in Nat,
         lo + 1 >= a, lo = 0 \/ Get(t, lo) # Nil
  PROVE  Edge(t, Widen(t, lo, lo + 1))
<1> DEFINE hi == lo + 1
           F == CHOOSE W : Doubling(W, t, lo, hi, t.hsize)
           x == [lo |-> lo, hi |-> hi]
<1>1. Widen(t, lo, hi) = Bisect(t, F[t.hsize].lo, F[t.hsize].hi)
  BY DEF Widen, Doubling, Doubled
<1>2. t.hsize = h
  BY BuiltFacts
<1>3. Doubling(F, t, lo, hi, h)
  <2>1. hi \in Nat
    OBVIOUS
  <2> HIDE DEF hi
  <2>2. \E W : Doubling(W, t, lo, hi, h)
    BY <2>1, DoublingExists
  <2> QED
    BY <1>2, <2>2, Zenon
<1> HIDE DEF F
<1>4. \A i \in 0 .. h : F[i] = IF i = 0 THEN x ELSE Doubled(t, F[i - 1])
  BY <1>3 DEF Doubling
<1>5. Widened(t, a, h, 0, x)
  <2>1. x \in Ranges /\ x.lo = lo /\ x.hi = lo + 1
    BY DEF Ranges
  <2>2. Below(t, h, 0, lo + 1)
    <3>1. {} \in SUBSET (0 .. h - 1) /\ IsFiniteSet({}) /\ Cardinality({}) = 0
      BY FS_EmptySet
    <3>2. \A n \in {} : t.node[n].key \in Nat /\ t.node[n].key < lo + 1
      OBVIOUS
    <3> QED
      BY <3>1, <3>2 DEF Below
  <2> HIDE DEF x
  <2> QED
    BY <2>1, <2>2 DEF Widened
<1> HIDE DEF x, hi
<1> DEFINE T == {i \in Nat : i <= h => Widened(t, a, h, i, F[i])}
<1>6. 0 \in T
  BY <1>4, <1>5
<1>7. ASSUME NEW n \in Nat, n \in T
      PROVE  n + 1 \in T
  <2> SUFFICES ASSUME n + 1 <= h
               PROVE  Widened(t, a, h, n + 1, F[n + 1])
    OBVIOUS
  <2>1. Widened(t, a, h, n, F[n])
    BY <1>7
  <2>2. F[n + 1] = Doubled(t, F[n])
    BY <1>4
  <2> QED
    BY <2>1, <2>2, DoubledIs
<1> HIDE DEF T
<1>8. h \in T
  BY <1>6, <1>7, SetInduction
<1> DEFINE r == F[h]
<1>9. Widened(t, a, h, h, r)
  BY <1>8 DEF T
<1> HIDE DEF r
<1>10. /\ r.lo \in Nat /\ r.hi \in Nat /\ r.lo < r.hi /\ r.hi >= a
       /\ r.lo = 0 \/ Get(t, r.lo) # Nil
  BY <1>9 DEF Widened, Ranges
<1>11. Get(t, r.hi) = Nil
  <2> SUFFICES ASSUME Get(t, r.hi) # Nil
               PROVE  FALSE
    OBVIOUS
  <2>1. PICK P \in SUBSET (0 .. h - 1) :
          IsFiniteSet(P) /\ Cardinality(P) = h
          /\ \A n \in P : t.node[n].key \in Nat /\ t.node[n].key < r.hi
    BY <1>9 DEF Widened, Below
  <2> DEFINE D == 0 .. h - 1
  <2>2. IsFiniteSet(D) /\ Cardinality(D) = h
    <3>1. 0 \in Int /\ h - 1 \in Int
      OBVIOUS
    <3>2. IsFiniteSet(0 .. h - 1) /\ Cardinality(0 .. h - 1) = IF 0 > h - 1 THEN 0 ELSE h - 1 - 0 + 1
      BY <3>1, FS_Interval
    <3> QED
      BY <3>2
  <2>3. P \in SUBSET D
    OBVIOUS
  <2> HIDE DEF D
  <2>4. P = D
    BY <2>1, <2>2, <2>3, FS_Subset
  <2>5. PICK n \in 0 .. h - 1 : t.node[n].key = r.hi
    BY <1>10, BehindArray
  <2>6. n \in P
    BY <2>4, <2>5 DEF D
  <2> QED
    BY <1>10, <2>1, <2>5, <2>6
<1>12. Edge(t, Bisect(t, r.lo, r.hi))
  BY <1>10, <1>11, BisectIs
<1> QED
  BY <1>1, <1>2, <1>12 DEF r, hi

\* The length is a border.
LEMMA LengthIs ==
  ASSUME KeyAssumption, NEW a \in Nat, NEW h \in Nat, NEW t, Built(t, a, h)
  PROVE  /\ Edge(t, TabLen(t))
         /\ \A hint \in DOMAIN t.array : Edge(t, LenHint(t, hint))
<1>1. t.asize = a /\ t.hsize = h /\ DOMAIN t.array = 0 .. a - 1
  BY BuiltFacts
<1> DEFINE hi == IF a - 1 > 0 THEN a - 1 ELSE 0
<1>2. Max({0, t.asize - 1}) = hi
  BY <1>1, MaxWithZero
<1>3. TabLen(t) = IF hi > 0 /\ t.array[hi] = Nil THEN Bisect(t, 0, hi)
                  ELSE IF h > 0 THEN Widen(t, hi, hi + 1) ELSE hi
  BY <1>1, <1>2 DEF TabLen
<1>4. /\ hi \in Nat /\ hi + 1 >= a /\ (hi > 0 => hi \in 0 .. a - 1)
  OBVIOUS
<1> HIDE DEF hi
<1>5. \A k \in 0 .. a - 1 : Get(t, k) = t.array[k]
  BY <1>1 DEF Get
<1>6. ASSUME h = 0, NEW k \in Nat, k >= a
      PROVE  Get(t, k) = Nil
  <2> SUFFICES ASSUME Get(t, k) # Nil
               PROVE  FALSE
    OBVIOUS
  <2>1. \E n \in 0 .. h - 1 : t.node[n].key = k
    BY <1>6, BehindArray
  <2> QED
    BY <1>6, <2>1
<1>7. Edge(t, TabLen(t))
  <2>1. CASE hi > 0 /\ t.array[hi] = Nil
    <3>1. Get(t, hi) = Nil /\ 0 \in Nat /\ 0 < hi
      BY <1>4, <1>5, <2>1
    <3>2. Edge(t, Bisect(t, 0, hi))
      BY <1>4, <3>1, BisectIs
    <3> QED
      BY <1>3, <2>1, <3>2
  <2>2. CASE ~(hi > 0 /\ t.array[hi] = Nil)
    <3>1. hi = 0 \/ Get(t, hi) # Nil
      BY <1>4, <1>5, <2>2
    <3>2. CASE h > 0
      <4>1. Edge(t, Widen(t, hi, hi + 1))
        BY <1>4, <3>1, WidenIs
      <4> QED
        BY <1>3, <2>2, <3>2, <4>1
    <3>3. CASE ~(h > 0)
      <4>1. h = 0 /\ hi + 1 \in Nat
        BY <1>4, <3>3
      <4>2. Get(t, hi + 1) = Nil
        BY <1>4, <1>6, <4>1
      <4> QED
        BY <1>3, <2>2, <3>1, <3>3, <4>2 DEF Edge
    <3> QED
      BY <3>2, <3>3
  <2> QED
    BY <2>1, <2>2
<1>8. ASSUME NEW hint \in 0 .. a - 1
      PROVE  Edge(t, LenHint(t, hint))
  <2>1. CASE hint + 1 < a /\ t.array[hint] # Nil /\ t.array[hint + 1] = Nil
    <3>1. LenHint(t, hint) = hint
      BY <1>1, <2>1 DEF LenHint
    <3>2. hint + 1 \in 0 .. a - 1
      BY <2>1
    <3> QED
      BY <1>5, <2>1, <3>1, <3>2 DEF Edge
  <2>2. CASE hint + 1 = a /\ h = 0 /\ t.array[hint] # Nil
    <3>1. LenHint(t, hint) = hint
      BY <1>1, <2>2 DEF LenHint
    <3>2. Get(t, hint + 1) = Nil
      BY <1>6, <2>2
    <3> QED
      BY <1>5, <2>2, <3>1, <3>2 DEF Edge
  <2>3. CASE ~(hint + 1 < a /\ t.array[hint] # Nil /\ t.array[hint + 1] = Nil)
             /\ ~(hint + 1 = a /\ h = 0 /\ t.array[hint] # Nil)
    <3>1. LenHint(t, hint) = TabLen(t)
      BY <1>1, <2>3 DEF LenHint
    <3> QED
      BY <1>7, <3>1
  <2> QED
    BY <2>1, <2>2, <2>3
<1> QED
  BY <1>1, <1>7, <1>8

\* The inductive invariant: the parts are built as described above, they have
\* what was assigned, and a traversal has returned what is before its cursor.
CursorInv == Traversing => Walks(tab, cursor.at, cursor.seen)

IInv == State(tab, content) /\ CursorInv

\* The invariant holds initially.
LEMMA InitInv ==
  ASSUME KeyAssumption, Init
  PROVE  IInv
<1>1. HashSize(0) = 0 /\ 0 \in Sizes
  BY DEF HashSize, Sizes
<1>2. State(NewTab(0, 0), Nothing)
  BY <1>1, NewIsEmpty
<1>3. State(tab, content)
  BY <1>2 DEF Init, Nothing
<1>4. ~Traversing
  BY DEF Init, Idle, Traversing
<1> QED
  BY <1>3, <1>4 DEF IInv, CursorInv

\* What an assignment does to the table.
LEMMA SetKeeps ==
  ASSUME KeyAssumption, NEW t, NEW c, State(t, c), NEW k \in Keys, NEW v \in Vals \cup {Nil},
         NEW u, u = IF k \in DOMAIN t.array \/ FindLive(t, k) # Nil
                    THEN Put(t, k, v) ELSE NewKey(t, k, v)
  PROVE  /\ State(u, [c EXCEPT ![k] = v])
         /\ \A at, seen : c[k] # Nil /\ Walks(t, at, seen) => Walks(u, at, seen)
<1> DEFINE a == t.asize
           h == t.hsize
<1>1. a \in Nat /\ h \in Nat /\ Built(t, a, h) /\ c \in Contents /\ Maps(t, a, h, c)
  BY DEF State, Good
<1>2. DOMAIN t.array = 0 .. a - 1
  <2> HIDE DEF a, h
  <2> QED
    BY <1>1, BuiltFacts
<1>3. k \notin 0 .. a - 1 => (FindLive(t, k) = Nil <=> c[k] = Nil)
  <2> HIDE DEF a, h
  <2> QED
    BY <1>1, Lookup
<1>4. CASE k \in DOMAIN t.array \/ FindLive(t, k) # Nil
  <2>1. u = Put(t, k, v)
    BY <1>4
  <2>2. State(Put(t, k, v), [c EXCEPT ![k] = v])
    BY <1>4, PutKeeps
  <2>3. \A at, seen : c[k] # Nil /\ Walks(t, at, seen) => Walks(Put(t, k, v), at, seen)
    BY StoreOld
  <2> QED
    BY <2>1, <2>2, <2>3
<1>5. CASE ~(k \in DOMAIN t.array \/ FindLive(t, k) # Nil)
  <2>1. u = NewKey(t, k, v)
    BY <1>5
  <2>2. k \notin 0 .. t.asize - 1 /\ c[k] = Nil
    BY <1>2, <1>3, <1>5
  <2>3. State(NewKey(t, k, v), [c EXCEPT ![k] = v])
    BY <2>2, NewKeyKeeps
  <2> QED
    BY <2>1, <2>2, <2>3
<1> QED
  BY <1>4, <1>5

\* What an assignment by the interpreter or by compiled code does to the table.
LEMMA VmSetKeeps ==
  ASSUME KeyAssumption, NEW t, NEW c, State(t, c), NEW k \in Strs, NEW v \in Vals \cup {Nil},
         NEW u, u = IF FindAny(t, k) # Nil THEN WithVal(t, FindAny(t, k), v) ELSE NewKey(t, k, v)
  PROVE  /\ State(u, [c EXCEPT ![k] = v])
         /\ \A at, seen : c[k] # Nil /\ Walks(t, at, seen) => Walks(u, at, seen)
<1> DEFINE a == t.asize
           h == t.hsize
<1>1. a \in Nat /\ h \in Nat /\ Built(t, a, h) /\ c \in Contents /\ Maps(t, a, h, c)
  BY DEF State, Good
<1>2. k \in Keys /\ k \notin 0 .. a - 1
  <2>1. k \notin Nat
    BY DEF KeyAssumption
  <2> QED
    BY <1>1, <2>1 DEF Keys
<1>3. CASE FindAny(t, k) # Nil
  <2>1. u = WithVal(t, FindAny(t, k), v)
    BY <1>3
  <2> QED
    BY <1>3, <2>1, ReuseKeeps
<1>4. CASE FindAny(t, k) = Nil
  <2>1. u = NewKey(t, k, v)
    BY <1>4
  <2>2. c[k] = Nil
    <3> HIDE DEF a, h
    <3>1. At(t, FindAny(t, k)) = c[k]
      BY <1>1, <1>2, Lookup
    <3> QED
      BY <1>4, <3>1 DEF At
  <2>3. State(NewKey(t, k, v), [c EXCEPT ![k] = v])
    BY <1>2, <2>2, NewKeyKeeps
  <2> QED
    BY <2>1, <2>2, <2>3
<1> QED
  BY <1>3, <1>4

\* An assignment keeps a traversal going or ends what it may rely on.
LEMMA AssignedInv ==
  ASSUME CursorInv, NEW k, NEW v, Assigned(k, v), State(tab', [content EXCEPT ![k] = v]),
         \A at, seen : content[k] # Nil /\ Walks(tab, at, seen) => Walks(tab', at, seen)
  PROVE  IInv'
<1>1. content' = [content EXCEPT ![k] = v] /\ cursor' = IF content[k] = Nil THEN Idle ELSE cursor
  BY DEF Assigned
<1>2. State(tab', content')
  BY <1>1
<1>3. CursorInv'
  <2>1. CASE content[k] = Nil
    BY <1>1, <2>1 DEF CursorInv, Traversing, Idle
  <2>2. CASE content[k] # Nil
    <3>1. cursor' = cursor
      BY <1>1, <2>2
    <3> QED
      BY <2>2, <3>1 DEF CursorInv, Traversing
  <2> QED
    BY <2>1, <2>2
<1> QED
  BY <1>2, <1>3 DEF IInv

\* Assignments keep the invariant.
LEMMA SetInv ==
  ASSUME KeyAssumption, IInv, NEW v \in Vals \cup {Nil}
  PROVE  /\ \A k \in Keys : TabSet(k, v) => IInv'
         /\ \A k \in Strs : VmSet(k, v) => IInv'
<1>1. ASSUME NEW k \in Keys, TabSet(k, v)
      PROVE  IInv'
  <2>1. State(tab, content) /\ CursorInv /\ Assigned(k, v)
    BY <1>1 DEF IInv, TabSet
  <2>2. tab' = IF k \in DOMAIN tab.array \/ FindLive(tab, k) # Nil
               THEN Put(tab, k, v) ELSE NewKey(tab, k, v)
    BY <1>1 DEF TabSet
  <2>3. /\ State(tab', [content EXCEPT ![k] = v])
        /\ \A at, seen : content[k] # Nil /\ Walks(tab, at, seen) => Walks(tab', at, seen)
    BY <2>1, <2>2, SetKeeps
  <2> QED
    BY <2>1, <2>3, AssignedInv
<1>2. ASSUME NEW k \in Strs, VmSet(k, v)
      PROVE  IInv'
  <2>1. State(tab, content) /\ CursorInv /\ Assigned(k, v)
    BY <1>2 DEF IInv, VmSet
  <2>2. tab' = IF FindAny(tab, k) # Nil THEN WithVal(tab, FindAny(tab, k), v) ELSE NewKey(tab, k, v)
    BY <1>2 DEF VmSet, WithVal
  <2>3. /\ State(tab', [content EXCEPT ![k] = v])
        /\ \A at, seen : content[k] # Nil /\ Walks(tab, at, seen) => Walks(tab', at, seen)
    BY <2>1, <2>2, VmSetKeeps
  <2> QED
    BY <2>1, <2>3, AssignedInv
<1> QED
  BY <1>1, <1>2

\* Resizing and clearing keep it.
LEMMA SizeInv ==
  ASSUME KeyAssumption, IInv
  PROVE  /\ \A n \in 1 .. MaxReasize : Reasize(n) => IInv'
         /\ TabClear => IInv'
<1>1. ASSUME NEW n \in 1 .. MaxReasize, Reasize(n)
      PROVE  IInv'
  <2>1. n \in Nat
    BY DEF KeyAssumption
  <2>2. State(tab, content) /\ n + 1 > tab.asize
    BY <1>1 DEF IInv, Reasize
  <2>3. tab' = Resize(tab, n + 1, HsizeToBits(tab.hsize)) /\ cursor' = Idle /\ content' = content
    BY <1>1 DEF Reasize
  <2>4. State(tab', content')
    BY <2>1, <2>2, <2>3, ReasizeKeeps
  <2> QED
    BY <2>3, <2>4 DEF IInv, CursorInv, Traversing, Idle
<1>2. ASSUME TabClear
      PROVE  IInv'
  <2>1. /\ tab' = NewTab(tab.asize, HsizeToBits(tab.hsize)) /\ cursor' = Idle
        /\ content' = Nothing
    BY <1>2 DEF TabClear, Nothing
  <2>2. tab.asize \in Nat /\ tab.hsize \in Nat
    BY DEF IInv, State, Good
  <2>3. HsizeToBits(tab.hsize) \in Nat /\ HashSize(HsizeToBits(tab.hsize)) \in Sizes
    BY <2>2, HashSizes
  <2>4. State(tab', content')
    BY <2>1, <2>2, <2>3, NewIsEmpty
  <2> QED
    BY <2>1, <2>4 DEF IInv, CursorInv, Traversing, Idle
<1> QED
  BY <1>1, <1>2

\* The nodes of a table.
LEMMA NodesOf ==
  ASSUME KeyAssumption, NEW t, NEW c, State(t, c)
  PROVE  DOMAIN t.node = 0 .. t.hsize - 1
<1> DEFINE a == t.asize
           h == t.hsize
<1>1. a \in Nat /\ h \in Nat /\ Built(t, a, h)
  BY DEF State, Good
<1> HIDE DEF a, h
<1>2. DOMAIN t.node = 0 .. h - 1
  BY <1>1, ShapeFacts
<1> QED
  BY <1>2 DEF h

\* Recycling a string keeps it.
LEMMA RecycleInv ==
  ASSUME KeyAssumption, IInv, NEW k1 \in Strs, NEW k2 \in Strs \cup {Nil}, Recycle(k1, k2)
  PROVE  IInv'
<1> DEFINE dead(k) == {n \in DOMAIN tab.node : tab.node[n].key = k}
           h == tab.hsize
<1>1. State(tab, content) /\ CursorInv
  BY DEF IInv
<1>2. DOMAIN tab.node = 0 .. h - 1
  BY <1>1, NodesOf
<1>3. /\ \A n \in dead(k1) \cup dead(k2) : tab.node[n].val = Nil
      /\ cursor.at \notin {k1, k2} \ {Nil} /\ UNCHANGED <<cursor, content>>
  BY DEF Recycle
<1>4. DeadKeys(tab, h, k1, k2)
  BY <1>2, <1>3 DEF DeadKeys
<1>5. tab' = Recycled(tab, k1, k2)
  <2> DEFINE g == [n \in DOMAIN tab.node |->
                     IF n \in dead(k1) THEN [tab.node[n] EXCEPT !.key = IF k2 = Nil THEN Stale ELSE k2]
                     ELSE IF n \in dead(k2) /\ k2 # Nil THEN [tab.node[n] EXCEPT !.key = Stale]
                     ELSE tab.node[n]]
             g2 == [n \in DOMAIN tab.node |-> Renamed(tab.node[n], k1, k2)]
  <2>1. tab' = [tab EXCEPT !.node = g]
    BY DEF Recycle
  <2>2. g = g2
    BY DEF Renamed
  <2>3. Recycled(tab, k1, k2) = [tab EXCEPT !.node = g2]
    BY DEF Recycled
  <2> QED
    BY <2>1, <2>2, <2>3
<1> HIDE DEF h
<1>6. k1 # Nil
  BY DEF KeyAssumption
<1>7. /\ State(tab', content)
      /\ \A at, seen : at # k1 /\ (at # k2 \/ k2 = Nil) /\ Walks(tab, at, seen) => Walks(tab', at, seen)
  BY <1>1, <1>4, <1>5, RecycleKeeps DEF h
<1>8. State(tab', content')
  BY <1>3, <1>7
<1>9. cursor.at # k1 /\ (cursor.at # k2 \/ k2 = Nil) /\ cursor' = cursor
  BY <1>3, <1>6
<1>10. CursorInv'
  BY <1>1, <1>7, <1>9 DEF CursorInv, Traversing
<1> QED
  BY <1>8, <1>10 DEF IInv

\* Traversing keeps it.
LEMMA NextInv ==
  ASSUME KeyAssumption, IInv
  PROVE  /\ NextStart => IInv'
         /\ TabNext => IInv'
<1>1. State(tab, content) /\ CursorInv
  BY DEF IInv
<1>2. ASSUME NextStart
      PROVE  IInv'
  <2>1. tab' = tab /\ content' = content /\ cursor' = [at |-> Nil, seen |-> {}]
    BY <1>2 DEF NextStart
  <2>2. Alive(tab) \in SUBSET Nat
    BY <1>1, Places
  <2>3. Walks(tab, Nil, {})
    BY <2>2 DEF Walks, Index
  <2>4. cursor'.at = Nil /\ cursor'.seen = {}
    BY <2>1
  <2>5. CursorInv'
    BY <2>1, <2>3, <2>4 DEF CursorInv
  <2> QED
    BY <1>1, <2>1, <2>5 DEF IInv
<1>3. ASSUME TabNext
      PROVE  IInv'
  <2> DEFINE P == Ahead(tab, KeyIndex(tab, cursor.at))
  <2>1. /\ Traversing /\ KeyIndex(tab, cursor.at) # -1 /\ tab' = tab /\ content' = content
        /\ cursor' = IF P = {} THEN [at |-> Nil, seen |-> All]
                     ELSE [at |-> KeyAt(tab, Min(P)), seen |-> cursor.seen \cup {KeyAt(tab, Min(P))}]
    BY <1>3 DEF TabNext
  <2>2. Walks(tab, cursor.at, cursor.seen)
    BY <1>1, <2>1 DEF CursorInv
  <2>3. P # {} => Walks(tab, KeyAt(tab, Min(P)), cursor.seen \cup {KeyAt(tab, Min(P))})
    BY <1>1, <2>1, <2>2, Visits
  <2> HIDE DEF P
  <2>4. CASE P = {}
    <3>1. cursor'.seen = All
      BY <2>1, <2>4
    <3>2. CursorInv'
      BY <3>1 DEF CursorInv, Traversing
    <3> QED
      BY <1>1, <2>1, <3>2 DEF IInv
  <2>5. CASE P # {}
    <3> DEFINE k == KeyAt(tab, Min(P))
    <3>1. cursor'.at = k /\ cursor'.seen = cursor.seen \cup {k}
      BY <2>1, <2>5
    <3>2. Walks(tab, k, cursor.seen \cup {k})
      BY <2>3, <2>5
    <3> HIDE DEF k
    <3>3. CursorInv'
      BY <2>1, <3>1, <3>2 DEF CursorInv
    <3> QED
      BY <1>1, <2>1, <3>3 DEF IInv
  <2> QED
    BY <2>4, <2>5
<1> QED
  BY <1>2, <1>3

\* The parts, the contents and the traversal, in every state.
THEOREM Invariance == Spec => []IInv
<1>1. Init => IInv
  BY KeyAssumption, InitInv
<1>2. IInv /\ [Next]_vars => IInv'
  <2> SUFFICES ASSUME IInv, [Next]_vars
               PROVE  IInv'
    OBVIOUS
  <2> USE KeyAssumption
  <2>1. ASSUME NEW k \in Keys, NEW v \in Vals \cup {Nil}, TabSet(k, v)
        PROVE  IInv'
    BY <2>1, SetInv
  <2>2. ASSUME NEW k \in Strs, NEW v \in Vals \cup {Nil}, VmSet(k, v)
        PROVE  IInv'
    BY <2>2, SetInv
  <2>3. ASSUME NEW n \in 1 .. MaxReasize, Reasize(n)
        PROVE  IInv'
    BY <2>3, SizeInv
  <2>4. CASE TabClear
    BY <2>4, SizeInv
  <2>5. CASE NextStart \/ TabNext
    BY <2>5, NextInv
  <2>6. ASSUME NEW k1 \in Strs, NEW k2 \in Strs \cup {Nil}, Recycle(k1, k2)
        PROVE  IInv'
    BY <2>6, RecycleInv
  <2>7. CASE UNCHANGED vars
    BY <2>7 DEF vars, IInv, State, CursorInv, Traversing
  <2> QED
    BY <2>1, <2>2, <2>3, <2>4, <2>5, <2>6, <2>7 DEF Next, Operation
<1> QED
  BY <1>1, <1>2, PTL DEF Spec

-----------------------------------------------------------------------------
(* What the invariant says of the properties.                              *)

\* The parts have the shape the code relies on, lj_tab.c newhpart and
\* lj_tab_newkey: TypeOK in every state.
THEOREM TypeCorrect == Spec => []TypeOK
<1>1. IInv => TypeOK
  <2> SUFFICES ASSUME IInv
               PROVE  TypeOK
    OBVIOUS
  <2> USE KeyAssumption
  <2> DEFINE a == tab.asize
             h == tab.hsize
  <2>1. /\ a \in Nat /\ h \in Nat /\ h \in Sizes /\ Built(tab, a, h) /\ content \in Contents
    BY DEF IInv, State, Good
  <2>2. h = 0 \/ \E b \in 1 .. h : h = Pow2(b)
    <3>1. CASE h # 0
      <4>1. PICK b \in Nat \ {0} : h = Pow2(b)
        BY <2>1, <3>1 DEF Sizes
      <4>2. b < Pow2(b)
        BY <4>1, Pow2Facts
      <4> HIDE DEF h
      <4>3. b \in 1 .. h
        BY <2>1, <4>1, <4>2
      <4> QED
        BY <4>1, <4>3
    <3> QED
      BY <3>1
  <2> HIDE DEF a, h
  <2>3. tab.freetop \in 0 .. h /\ tab.array \in Arrays(a) /\ tab.node \in Hashes(h)
    BY <2>1, BuiltFacts
  <2> QED
    BY <2>1, <2>2, <2>3 DEF TypeOK, a, h, Arrays, Hashes, Slots, Contents
<1> QED
  BY <1>1, Invariance, PTL

\* lj_tab_get and the chain walks of the interpreter and of compiled code find
\* what was last assigned, after lj_tab_newkey has moved nodes and relinked
\* chains and rehashtab and lj_tab_resize have moved keys: IsAssigned.
THEOREM NoKeyIsLost == Spec => []IsAssigned
<1>1. IInv => IsAssigned
  <2> SUFFICES ASSUME IInv, NEW k \in Keys
               PROVE  /\ Get(tab, k) = content[k]
                      /\ k \notin DOMAIN tab.array => At(tab, FindAny(tab, k)) = content[k]
    BY DEF IsAssigned
  <2> USE KeyAssumption
  <2> DEFINE a == tab.asize
             h == tab.hsize
  <2>1. /\ a \in Nat /\ h \in Nat /\ Built(tab, a, h) /\ content \in Contents
        /\ Maps(tab, a, h, content)
    BY DEF IInv, State, Good
  <2> HIDE DEF a, h
  <2>2. DOMAIN tab.array = 0 .. a - 1
    BY <2>1, BuiltFacts
  <2> QED
    BY <2>1, <2>2, Lookup
<1> QED
  BY <1>1, Invariance, PTL

\* The relinking of lj_tab_newkey makes no chain a ring: ChainsEnd.
THEOREM ChainsAreFinite == Spec => []ChainsEnd
<1>1. IInv => ChainsEnd
  <2> SUFFICES ASSUME IInv, NEW ring \in (SUBSET DOMAIN tab.node) \ {{}}
               PROVE  \E n \in ring : tab.node[n].next \notin ring
    BY DEF ChainsEnd
  <2> USE KeyAssumption
  <2> DEFINE a == tab.asize
             h == tab.hsize
             g == tab.node
  <2>1. a \in Nat /\ h \in Nat /\ Built(tab, a, h)
    BY DEF IInv, State, Good
  <2> HIDE DEF a, h
  <2>2. Ends(tab.node, h) /\ DOMAIN tab.node = 0 .. h - 1
    BY <2>1, BuiltFacts
  <2>a. Nil \notin 0 .. h - 1
    BY <2>1, NilApart
  <2>3. ring \in SUBSET (0 .. h - 1) /\ ring # {} /\ Nil \notin ring
    BY <2>2, <2>a
  <2> HIDE DEF g
  <2>4. Ends(g, h)
    BY <2>2 DEF g
  <2>5. \E n \in ring : g[n].next \notin ring
    BY <2>1, <2>3, <2>4, LeadsOut
  <2> QED
    BY <2>5 DEF g
<1> QED
  BY <1>1, Invariance, PTL

\* lj_tab_len, its search behind the array part and lj_tab_len_hint return a
\* border of the sequence: LenIsBorder.
THEOREM LengthIsBorder == Spec => []LenIsBorder
<1>1. IInv => LenIsBorder
  <2> SUFFICES ASSUME IInv
               PROVE  LenIsBorder
    OBVIOUS
  <2> USE KeyAssumption
  <2> DEFINE a == tab.asize
             h == tab.hsize
  <2>1. a \in Nat /\ h \in Nat /\ Built(tab, a, h)
    BY DEF IInv, State, Good
  <2> HIDE DEF a, h
  <2>2. Edge(tab, TabLen(tab)) /\ \A hint \in DOMAIN tab.array : Edge(tab, LenHint(tab, hint))
    BY <2>1, LengthIs
  <2>3. \A n : Edge(tab, n) <=> Border(n)
    BY DEF Edge, Border
  <2> QED
    BY <2>2, <2>3 DEF LenIsBorder
<1> QED
  BY <1>1, Invariance, PTL

\* lj_tab_keyindex knows the last key of a traversal in which fields are only
\* cleared or overwritten, unless that is the integer 0.
LEMMA OnlyZeroUnknown ==
  ASSUME KeyAssumption, IInv, Traversing, KeyIndex(tab, cursor.at) = -1
  PROVE  cursor.at = 0 /\ 0 \in Ints
<1> DEFINE at == cursor.at
           a == tab.asize
           h == tab.hsize
<1>1. /\ a \in Nat /\ h \in Nat /\ Built(tab, a, h) /\ Walks(tab, at, cursor.seen)
      /\ KeyIndex(tab, at) = -1
  BY DEF IInv, State, Good, CursorInv
<1>2. a = tab.asize
  OBVIOUS
<1> HIDE DEF at, a, h
<1>3. DOMAIN tab.array = 0 .. a - 1
  BY <1>1, BuiltFacts
<1>4. at \in Keys \cup {Nil} /\ (at # Nil /\ at \notin DOMAIN tab.array => FindAny(tab, at) # Nil)
  BY <1>1 DEF Walks
<1>5. at # Nil
  BY <1>1 DEF KeyIndex
<1>6. at \in DOMAIN tab.array
  <2>1. CASE at \notin DOMAIN tab.array
    <3>1. FindAny(tab, at) \in 0 .. h - 1 /\ at \in Keys
      BY <1>1, <1>4, <1>5, <2>1, FindFacts
    <3>2. KeyIndex(tab, at) = tab.asize + FindAny(tab, at) + 1
      BY <1>4, <1>5, <2>1 DEF KeyIndex
    <3> QED
      BY <1>1, <1>2, <3>1, <3>2
  <2> QED
    BY <2>1
<1>7. at = 0
  BY <1>1, <1>3, <1>5, <1>6 DEF KeyIndex
<1>8. 0 \in Ints
  BY <1>4, <1>5, <1>7 DEF KeyAssumption, Keys
<1> QED
  BY <1>7, <1>8 DEF at

\* lj_tab_next can go on after any key of a table that 0 is no key of, also when
\* the field was cleared, overwritten or moved to a dead node: NextKnowsKey.
THEOREM TraversalGoesOn ==
  ASSUME 0 \notin Ints
  PROVE  Spec => []NextKnowsKey
<1>1. IInv => NextKnowsKey
  BY KeyAssumption, OnlyZeroUnknown DEF NextKnowsKey
<1> QED
  BY <1>1, Invariance, PTL

-----------------------------------------------------------------------------
(* The table implements the map.                                           *)

\* The first table is the empty map.
LEMMA InitMaps ==
  ASSUME Init
  PROVE  Map!Init
BY DEF Init, Map!Init, Idle

\* Assigning to a field is assigning to the key of the map.
LEMMA AssignMaps ==
  ASSUME NEW k \in Keys, NEW v \in Vals \cup {Nil}, Assigned(k, v)
  PROVE  Map!Next
<1>1. /\ content' = [content EXCEPT ![k] = v]
      /\ cursor' = IF content[k] = Nil THEN Idle ELSE cursor
  BY DEF Assigned
<1>2. k \in Map!Present <=> content[k] # Nil
  BY DEF Map!Present
<1>3. cursor'.seen = IF k \in Map!Present THEN cursor.seen ELSE Nil
  BY <1>1, <1>2 DEF Idle
<1>4. Map!Assign(k, v)
  BY <1>1, <1>3 DEF Map!Assign
<1> QED
  BY <1>4 DEF Map!Next

\* Resizing, clearing and starting a traversal are steps of the map.
LEMMA OtherMaps ==
  /\ \A n \in 1 .. MaxReasize : Reasize(n) => Map!Next
  /\ TabClear => Map!Next
  /\ NextStart => Map!Next
<1>1. ASSUME NEW n \in 1 .. MaxReasize, Reasize(n)
      PROVE  Map!Next
  BY <1>1 DEF Reasize, Idle, Map!Grow, Map!Next
<1>2. TabClear => Map!Next
  BY DEF TabClear, Idle, Map!Wipe, Map!Next
<1>3. NextStart => Map!Next
  BY DEF NextStart, Traversing, Map!Start, Map!Next
<1> QED
  BY <1>1, <1>2, <1>3

\* A step of a traversal returns a key that is new or ends it.
LEMMA NextMaps ==
  ASSUME KeyAssumption, IInv, TabNext
  PROVE  Map!Next
<1> DEFINE i == KeyIndex(tab, cursor.at)
           P == Ahead(tab, i)
           k == KeyAt(tab, Min(P))
<1>1. /\ cursor.seen \notin {Nil, All} /\ i # -1 /\ content' = content
      /\ P = {} => cursor' = [at |-> Nil, seen |-> All]
      /\ P # {} => cursor' = [at |-> k, seen |-> cursor.seen \cup {k}]
  BY DEF TabNext, Traversing
<1>2. State(tab, content) /\ Walks(tab, cursor.at, cursor.seen)
  BY <1>1 DEF IInv, CursorInv, Traversing
<1>3. (P = {} => Returned(content, cursor.seen)) /\ (P # {} => Unseen(content, cursor.seen, k))
  BY <1>1, <1>2, Visits
<1> HIDE DEF P, k
<1>4. CASE P = {}
  BY <1>1, <1>3, <1>4 DEF Returned, Map!Finish, Map!Present, Map!Next
<1>5. CASE P # {}
  <2>1. Map!Visit(k)
    BY <1>1, <1>3, <1>5 DEF Unseen, Map!Visit, Map!Present
  <2> QED
    BY <1>3, <1>5, <2>1 DEF Unseen, Map!Next
<1> QED
  BY <1>4, <1>5

\* Table and traversal implement LuaMap: a map whose keys a traversal returns
\* once each, and all that stay, however lj_tab_newkey, rehashtab and
\* lj_tab_resize place them: IsMap.
THEOREM ImplementsMap == Spec => IsMap
<1>1. Init => Map!Init
  BY InitMaps
<1>2. IInv /\ [Next]_vars => [Map!Next]_(<<content, cursor.seen>>)
  <2> SUFFICES ASSUME IInv, [Next]_vars
               PROVE  [Map!Next]_(<<content, cursor.seen>>)
    OBVIOUS
  <2> USE KeyAssumption
  <2>1. ASSUME NEW k \in Keys, NEW v \in Vals \cup {Nil}, TabSet(k, v)
        PROVE  Map!Next
    BY <2>1, AssignMaps DEF TabSet
  <2>2. ASSUME NEW k \in Strs, NEW v \in Vals \cup {Nil}, VmSet(k, v)
        PROVE  Map!Next
    <3>1. k \in Keys /\ Assigned(k, v)
      BY <2>2 DEF VmSet, Keys
    <3> QED
      BY <3>1, AssignMaps
  <2>3. CASE TabNext
    BY <2>3, NextMaps
  <2>4. ASSUME NEW k1 \in Strs, NEW k2 \in Strs \cup {Nil}, Recycle(k1, k2)
        PROVE  UNCHANGED <<content, cursor.seen>>
    BY <2>4 DEF Recycle
  <2>5. CASE UNCHANGED vars
    BY <2>5 DEF vars
  <2> HIDE DEF Map!Next
  <2> QED
    BY <2>1, <2>2, <2>3, <2>4, <2>5, OtherMaps DEF Next, Operation
<1> QED
  BY <1>1, <1>2, Invariance, PTL DEF Spec, IsMap, Map!Spec

=============================================================================
