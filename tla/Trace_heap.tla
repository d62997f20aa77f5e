----------------------------- MODULE Trace_heap ------------------------------
(***************************************************************************)
(* Traces, the bytecode that is patched to them and the references between *)
(* them: what flushing, collecting, adding and entering traces does to the *)
(* chains of prototypes, to lists of side traces, links and exits, and to  *)
(* the slots of jit_State.                                                 *)
(***************************************************************************)
EXTENDS Trace, NatLemmas

-----------------------------------------------------------------------------
\* Lists linked by numbers.  D is the set of members, h the first, nx[m] the member
\* after m, and 0 the end.  The last conjunct says that all of D is on the list.

Path(D, h, nx) ==
  /\ h \in D \cup {0}
  /\ \A m \in D : nx[m] \in D \cup {0} /\ (nx[m] = h => h = 0)
  /\ \A m, n \in D : nx[m] = nx[n] => m = n \/ nx[m] = 0
  /\ \A T \in SUBSET D : h \in T \cup {0} /\ (\A m \in T : nx[m] \in T \cup {0}) => T = D

\* A list only depends on the links of its members.
LEMMA PathAgree ==
  ASSUME NEW D, NEW h, NEW nx, NEW ny, Path(D, h, nx), \A m \in D : nx[m] = ny[m]
  PROVE  Path(D, h, ny)
<1>1. ASSUME NEW T \in SUBSET D, h \in T \cup {0}, \A m \in T : ny[m] \in T \cup {0}
      PROVE  T = D
  BY <1>1 DEF Path
<1> QED
  BY <1>1 DEF Path

\* Every member but the first comes after another one.
LEMMA PathPredecessor ==
  ASSUME NEW D, NEW h, NEW nx, Path(D, h, nx), NEW n \in D, n # h
  PROVE  \E b \in D : nx[b] = n
<1> SUFFICES ASSUME \A b \in D : nx[b] # n
             PROVE  FALSE
  OBVIOUS
<1>1. h \in (D \ {n}) \cup {0}
  BY DEF Path
<1>2. \A m \in D \ {n} : nx[m] \in (D \ {n}) \cup {0}
  BY DEF Path
<1>3. D \ {n} = D
  BY <1>1, <1>2 DEF Path
<1> QED
  BY <1>3

\* The first member is removed.
LEMMA PathWithoutFirst ==
  ASSUME NEW D, NEW h \in D, NEW nx, Path(D, h, nx), 0 \notin D
  PROVE  Path(D \ {h}, nx[h], nx)
<1>1. ASSUME NEW m \in D
      PROVE  nx[m] \in (D \ {h}) \cup {0}
  BY DEF Path
<1>2. ASSUME NEW m \in D \ {h}, nx[m] = nx[h]
      PROVE  nx[m] = 0
  BY <1>2 DEF Path
<1>3. ASSUME NEW T \in SUBSET (D \ {h}), nx[h] \in T \cup {0},
             \A m \in T : nx[m] \in T \cup {0}
      PROVE  T = D \ {h}
  <2>1. T \cup {h} \in SUBSET D /\ h \in (T \cup {h}) \cup {0}
    OBVIOUS
  <2>2. \A m \in T \cup {h} : nx[m] \in (T \cup {h}) \cup {0}
    BY <1>3
  <2>3. T \cup {h} = D
    BY <2>1, <2>2 DEF Path
  <2> QED
    BY <2>3
<1>4. \A m, n \in D \ {h} : nx[m] = nx[n] => m = n \/ nx[m] = 0
  BY DEF Path
<1> QED
  BY <1>1, <1>2, <1>3, <1>4 DEF Path

\* Member n, which comes after b, is removed.
LEMMA PathWithout ==
  ASSUME NEW D, NEW h, NEW nx, NEW ny, Path(D, h, nx), 0 \notin D,
         NEW n \in D, NEW b \in D, n # h, nx[b] = n,
         ny[b] = nx[n], \A m \in D \ {b} : ny[m] = nx[m]
  PROVE  b # n /\ Path(D \ {n}, h, ny)
<1>1. \A m \in D : nx[m] = n => m = b
  BY DEF Path
<1>2. b # n
  <2> SUFFICES ASSUME b = n
               PROVE  FALSE
    OBVIOUS
  <2>1. h \in (D \ {n}) \cup {0} /\ \A m \in D \ {n} : nx[m] \in (D \ {n}) \cup {0}
    BY <1>1 DEF Path
  <2>2. D \ {n} = D
    BY <2>1 DEF Path
  <2> QED
    BY <2>2
<1>3. nx[n] # n
  BY <1>1, <1>2
<1>4. h \in (D \ {n}) \cup {0}
  BY DEF Path
<1>5. ASSUME NEW m \in D \ {n}
      PROVE  ny[m] \in (D \ {n}) \cup {0} /\ (ny[m] = h => h = 0)
  BY <1>1, <1>3 DEF Path
<1>6. ASSUME NEW m \in D \ {n}, NEW k \in D \ {n}, ny[m] = ny[k]
      PROVE  m = k \/ ny[m] = 0
  BY <1>6 DEF Path
<1>7. ASSUME NEW T \in SUBSET (D \ {n}), h \in T \cup {0},
             \A m \in T : ny[m] \in T \cup {0}
      PROVE  T = D \ {n}
  <2>1. CASE b \in T
    <3>1. T \cup {n} \in SUBSET D /\ h \in (T \cup {n}) \cup {0}
      BY <1>7
    <3>2. \A m \in T \cup {n} : nx[m] \in (T \cup {n}) \cup {0}
      BY <1>7, <2>1
    <3>3. T \cup {n} = D
      BY <3>1, <3>2 DEF Path
    <3> QED
      BY <3>3
  <2>2. CASE b \notin T
    <3>1. \A m \in T : nx[m] \in T \cup {0}
      BY <1>7, <2>2
    <3>2. T = D
      BY <1>7, <3>1 DEF Path
    <3> QED
      BY <2>2, <3>2
  <2> QED
    BY <2>1, <2>2
<1> QED
  BY <1>2, <1>4, <1>5, <1>6, <1>7 DEF Path

\* Member n is put in front.
LEMMA PathWithNew ==
  ASSUME NEW D, NEW h, NEW nx, NEW ny, Path(D, h, nx), 0 \notin D,
         NEW n, n # 0, n \notin D, ny[n] = h, \A m \in D : ny[m] = nx[m]
  PROVE  Path(D \cup {n}, n, ny)
<1>1. \A m \in D \cup {n} : ny[m] \in D \cup {0} /\ ny[m] # n
  BY DEF Path
<1>2. \A m, k \in D \cup {n} : ny[m] = ny[k] => m = k \/ ny[m] = 0
  BY DEF Path
<1>3. ASSUME NEW T \in SUBSET (D \cup {n}), n \in T \cup {0},
             \A m \in T : ny[m] \in T \cup {0}
      PROVE  T = D \cup {n}
  <2>1. T \ {n} \in SUBSET D /\ n \in T
    BY <1>3
  <2>2. h \in (T \ {n}) \cup {0}
    BY <1>1, <1>3, <2>1
  <2>3. \A m \in T \ {n} : nx[m] \in (T \ {n}) \cup {0}
    BY <1>1, <1>3, <2>1
  <2>4. T \ {n} = D
    BY <2>1, <2>2, <2>3 DEF Path
  <2> QED
    BY <2>1, <2>4
<1> QED
  BY <1>1, <1>2, <1>3 DEF Path

-----------------------------------------------------------------------------
\* Closure(S, next) is the least set of traces that contains S and is closed.

\* A closure lies in every set that has what it starts from and is closed.
LEMMA ClosureLeast ==
  ASSUME NEW S, NEW next, NEW T \in SUBSET Traces, S \subseteq T,
         \A m \in T : next[m] \subseteq T
  PROVE  Closure(S, next) \subseteq T
BY DEF Closure

\* It has what it starts from.
LEMMA ClosureContains ==
  ASSUME NEW S \in SUBSET Traces, NEW next
  PROVE  S \subseteq Closure(S, next)
BY DEF Closure

\* It is closed.
LEMMA ClosureClosed ==
  ASSUME NEW S, NEW next, NEW m \in Closure(S, next), next[m] \subseteq Traces
  PROVE  next[m] \subseteq Closure(S, next)
BY DEF Closure

\* The members of a list are what is found by going along it.
LEMMA PathClosure ==
  ASSUME NEW D \in SUBSET Traces, NEW h, NEW nx, Path(D, h, nx), 0 \notin D,
         NEW next, \A m \in D : next[m] = {nx[m]} \ {0}
  PROVE  Closure({h} \ {0}, next) = D
<1> DEFINE C == Closure({h} \ {0}, next)
<1>1. C \subseteq D
  <2>1. {h} \ {0} \subseteq D /\ \A m \in D : next[m] \subseteq D
    BY DEF Path
  <2> QED
    BY <2>1, ClosureLeast
<1>2. {h} \ {0} \subseteq C
  <2>1. {h} \ {0} \in SUBSET Traces
    BY DEF Path
  <2> QED
    BY <2>1, ClosureContains
<1>3. ASSUME NEW m \in C
      PROVE  nx[m] \in C \cup {0}
  <2>1. m \in D /\ next[m] = {nx[m]} \ {0}
    BY <1>1
  <2>2. nx[m] \in D \cup {0}
    BY <2>1 DEF Path
  <2>3. next[m] \subseteq Traces
    BY <2>1, <2>2
  <2>4. next[m] \subseteq C
    BY <2>3, ClosureClosed
  <2> QED
    BY <2>1, <2>4
<1> HIDE DEF C
<1>4. C = D
  BY <1>1, <1>2, <1>3 DEF Path
<1> QED
  BY <1>4 DEF C

-----------------------------------------------------------------------------
\* The type of jit_State, and its part that flushing is about.

JStates == {"idle", "off", "start", "first", "record", "end", "asm", "err"}
Errors == {"none", "other", "downrec", "mcodeal", "mcodelm"}
Numbers == 0..MaxTrace
Inses == [op : {"orig", "iloop", "iterc", "jit"}, d : Numbers]
JRec ==
  [state : JStates, pc : Pcs \cup {Nil}, pt : Protos \cup {Nil}, parent : Numbers,
   exitno : Numbers, err : Errors, cur : TraceRecs, no : Numbers,
   freetrace : 0..(MaxTrace + 1), patch : Patches \cup {Nil},
   trace : [Traces -> TraceRecs \cup {Nil, Cur}], held : Numbers \cup {Nil},
   ins : [Pcs -> Inses], chain : [Protos -> Numbers],
   nojit : SUBSET Protos, iloop : SUBSET Protos,
   on : BOOLEAN, mcarea : BOOLEAN, prot : {"run", "gen"}]

\* What flushing does not touch.
SameRecording(i, j) ==
  /\ i.state = j.state /\ i.pc = j.pc /\ i.pt = j.pt /\ i.parent = j.parent
  /\ i.exitno = j.exitno /\ i.err = j.err /\ i.cur = j.cur /\ i.patch = j.patch
  /\ i.nojit = j.nojit /\ i.iloop = j.iloop /\ i.on = j.on /\ i.prot = j.prot

SameElse(i, j) ==
  /\ SameRecording(i, j) /\ i.no = j.no /\ i.freetrace = j.freetrace
  /\ i.mcarea = j.mcarea /\ i.held = j.held

\* The root traces that the bytecode of a prototype is patched to.
Owned(j, f) ==
  {j.ins[p].d : p \in {q \in Pcs : Proto[q] = f /\ IsJit(j, q)}}
  \cup (IF j.patch # Nil /\ Proto[j.patch.pc] = f THEN {j.patch.d} ELSE {})

NextRoot(j) == [n \in Traces |-> IF n \in Saved(j) THEN j.trace[n].nextroot ELSE 0]

Begins(j, n, p) == n \in Saved(j) /\ j.trace[n].pc = p /\ j.trace[n].root = 0

\* Bytecode, root traces and chains agree.
Linked(j) ==
  /\ \A p \in Pcs : IsJit(j, p) => Begins(j, j.ins[p].d, p) /\ Kind[p] # "call"
  /\ \A p \in Pcs : ~IsJit(j, p) => j.ins[p].d = 0
  /\ j.patch # Nil => /\ Begins(j, j.patch.d, j.patch.pc) /\ Kind[j.patch.pc] # "call"
                      /\ j.ins[j.patch.pc] = Orig
  /\ \A n \in Saved(j) : j.trace[n].root = 0 => j.trace[n].pc \in Pcs
  /\ \A f \in Protos : Path(Owned(j, f), j.chain[f], NextRoot(j))

\* Bytecode is patched to root traces that exist and begin there.
LEMMA OwnedSaved ==
  ASSUME TraceAssumption, NEW j \in JRec, Linked(j), NEW f, NEW n \in Owned(j, f)
  PROVE  /\ n \in Saved(j) /\ n \in Traces /\ n # 0 /\ j.trace[n] \in TraceRecs
         /\ j.trace[n].root = 0
         /\ j.trace[n].pc \in Pcs /\ Proto[j.trace[n].pc] = f /\ f \in Protos
         /\ \/ IsJit(j, j.trace[n].pc) /\ j.ins[j.trace[n].pc].d = n
            \/ j.patch # Nil /\ j.patch.d = n /\ j.patch.pc = j.trace[n].pc
<1>1. n \in Saved(j) => n \in Traces /\ n # 0 /\ j.trace[n] \in TraceRecs
  BY DEF Saved, JRec, Traces
<1>2. CASE \E p \in Pcs : Proto[p] = f /\ IsJit(j, p) /\ n = j.ins[p].d
  BY <1>1, <1>2 DEF Linked, Begins, Protos
<1>3. CASE j.patch # Nil /\ Proto[j.patch.pc] = f /\ n = j.patch.d
  <2>1. j.patch \in Patches
    BY <1>3 DEF JRec
  <2>2. j.patch.pc \in Pcs
    BY <2>1 DEF Patches
  <2> QED
    BY <1>1, <1>3, <2>2 DEF Linked, Begins, Protos
<1> QED
  BY <1>2, <1>3 DEF Owned

\* So the code finds a prototype's traces along its chain.
LEMMA LinkedChain ==
  ASSUME TraceAssumption, NEW j \in JRec, Linked(j), NEW f \in Protos
  PROVE  ChainOf(j, f) = Owned(j, f)
<1>1. Owned(j, f) \in SUBSET Traces /\ Owned(j, f) \subseteq Saved(j) /\ 0 \notin Owned(j, f)
  BY OwnedSaved
<1> DEFINE next == [n \in Traces |-> IF n \in Saved(j) THEN {j.trace[n].nextroot} \ {0} ELSE {}]
<1>2. \A m \in Owned(j, f) : next[m] = {NextRoot(j)[m]} \ {0}
  BY <1>1 DEF NextRoot
<1>3. Path(Owned(j, f), j.chain[f], NextRoot(j))
  BY DEF Linked
<1> HIDE DEF next
<1>4. Closure({j.chain[f]} \ {0}, next) = Owned(j, f)
  BY <1>1, <1>2, <1>3, PathClosure
<1> QED
  BY <1>4 DEF ChainOf, next

-----------------------------------------------------------------------------
\* Flushing one root trace

\* The rest of a trace object stays as it is.
SameTrace(t, u) ==
  /\ t.pc = u.pc /\ t.op = u.op /\ t.root = u.root /\ t.link = u.link
  /\ t.linktype = u.linktype /\ t.nextside = u.nextside /\ t.exit = u.exit

\* State i is state j after trace n was taken out of the chain it is in, if any.
Unchained(i, j, n) ==
  /\ SameElse(i, j)
  /\ \A m \in Traces : m \notin Saved(j) => i.trace[m] = j.trace[m]
  /\ \A m \in Saved(j) :
       /\ i.trace[m] \in TraceRecs /\ SameTrace(i.trace[m], j.trace[m])
       /\ i.trace[m].nextroot # j.trace[m].nextroot =>
            /\ n \in Saved(j) /\ j.trace[m].nextroot = n
            /\ i.trace[m].nextroot = j.trace[n].nextroot
  /\ \A f \in Protos :
       i.chain[f] # j.chain[f] =>
         n \in Saved(j) /\ j.chain[f] = n /\ i.chain[f] = j.trace[n].nextroot
  /\ \A p \in Pcs : i.ins[p] # j.ins[p] => IsJit(j, p) /\ i.ins[p] = Orig
  /\ \A f \in Protos : Owned(i, f) = Owned(j, f) \ {n}

\* The slots of finished traces hold trace objects, the others none.
LEMMA SavedIsRecord ==
  ASSUME TraceAssumption, NEW j \in JRec
  PROVE  /\ \A n \in Saved(j) : n \in Traces /\ n # 0 /\ j.trace[n] \in TraceRecs
         /\ \A n \in Traces : j.trace[n] \in TraceRecs => n \in Saved(j)
         /\ \A n \in Traces : n \notin Saved(j) => j.trace[n] \in {Nil, Cur}
BY DEF TraceAssumption, Saved, JRec, Traces

\* Taking a trace from its chain frees no slot.
LEMMA UnchainedSaved ==
  ASSUME TraceAssumption, NEW i \in JRec, NEW j \in JRec, NEW n, Unchained(i, j, n)
  PROVE  Saved(i) = Saved(j)
<1>1. \A m \in Saved(j) : m \in Saved(i)
  BY SavedIsRecord DEF Unchained
<1>2. \A m \in Traces : m \notin Saved(j) => m \notin Saved(i)
  BY DEF Unchained, Saved
<1> QED
  BY <1>1, <1>2 DEF Saved

\* One instruction is unpatched, and its trace n is taken out of the chain of f.
TakenOut(i, j, f, n) ==
  /\ j.patch = Nil /\ i.patch = Nil
  /\ i.ins = [j.ins EXCEPT ![j.trace[n].pc] = Orig]
  /\ Saved(i) = Saved(j)
  /\ \A m \in Saved(j) : i.trace[m].pc = j.trace[m].pc /\ i.trace[m].root = j.trace[m].root
  /\ Path(Owned(j, f) \ {n}, i.chain[f], NextRoot(i))
  /\ \A g \in Protos \ {f} :
       /\ i.chain[g] = j.chain[g]
       /\ \A m \in Owned(j, g) : NextRoot(i)[m] = NextRoot(j)[m]

\* A trace is taken from its chain, and its bytecode is restored.
LEMMA Unlinked ==
  ASSUME TraceAssumption, NEW j \in JRec, Linked(j), NEW f \in Protos,
         NEW n \in Owned(j, f), NEW i \in JRec, TakenOut(i, j, f, n)
  PROVE  /\ Linked(i)
         /\ \A g \in Protos : Owned(i, g) = Owned(j, g) \ {n}
<1> USE DEF TakenOut
<1> DEFINE pc == j.trace[n].pc
<1>1. /\ n \in Saved(j) /\ pc \in Pcs /\ Proto[pc] = f /\ IsJit(j, pc) /\ j.ins[pc].d = n
  BY OwnedSaved
<1> HIDE DEF pc
<1>2. \A p \in Pcs : i.ins[p] = IF p = pc THEN Orig ELSE j.ins[p]
  BY DEF JRec, pc
<1>3. \A p \in Pcs : IsJit(i, p) <=> IsJit(j, p) /\ p # pc
  BY <1>2 DEF IsJit, Orig
<1>4. \A p \in Pcs : IsJit(j, p) /\ j.ins[p].d = n => p = pc
  BY DEF Linked, Begins, pc
<1>5. ASSUME NEW g \in Protos
      PROVE  Owned(i, g) = Owned(j, g) \ {n}
  BY <1>1, <1>2, <1>3, <1>4 DEF Owned
<1>6. \A g \in Protos \ {f} : Owned(i, g) = Owned(j, g)
  <2>1. ASSUME NEW g \in Protos, n \in Owned(j, g)
        PROVE  g = f
    BY <1>1, <2>1, OwnedSaved DEF pc
  <2>2. ASSUME NEW g \in Protos \ {f}
        PROVE  Owned(i, g) = Owned(j, g)
    <3>1. n \notin Owned(j, g) /\ Owned(i, g) = Owned(j, g) \ {n}
      BY <1>5, <2>1
    <3> QED
      BY <3>1
  <2> QED
    BY <2>2
<1>7. \A g \in Protos : Path(Owned(i, g), i.chain[g], NextRoot(i))
  <2>1. ASSUME NEW g \in Protos \ {f}
        PROVE  Path(Owned(i, g), i.chain[g], NextRoot(i))
    <3>1. Path(Owned(j, g), j.chain[g], NextRoot(j))
      BY DEF Linked
    <3>2. \A m \in Owned(j, g) : NextRoot(j)[m] = NextRoot(i)[m]
      OBVIOUS
    <3>3. Path(Owned(j, g), j.chain[g], NextRoot(i))
      BY <3>1, <3>2, PathAgree
    <3> QED
      BY <1>6, <3>3
  <2> QED
    BY <1>5, <2>1
<1>8. \A p \in Pcs : IsJit(i, p) => Begins(i, i.ins[p].d, p) /\ Kind[p] # "call"
  BY <1>2, <1>3 DEF Linked, Begins
<1>9. \A p \in Pcs : ~IsJit(i, p) => i.ins[p].d = 0
  BY <1>2, <1>3 DEF Linked, Orig
<1>10. \A m \in Saved(i) : i.trace[m].root = 0 => i.trace[m].pc \in Pcs
  BY DEF Linked
<1> QED
  BY <1>5, <1>7, <1>8, <1>9, <1>10 DEF Linked

\* Single fields are set.
LEMMA SetChain ==
  ASSUME NEW j \in JRec, NEW x \in [Protos -> Numbers], NEW i, i = [j EXCEPT !.chain = x]
  PROVE  i \in JRec /\ SameElse(i, j) /\ i.chain = x /\ i.ins = j.ins /\ i.trace = j.trace
BY DEF JRec, SameElse, SameRecording

\* Only the bytecode is changed.
LEMMA SetIns ==
  ASSUME NEW j \in JRec, NEW x \in [Pcs -> Inses], NEW i, i = [j EXCEPT !.ins = x]
  PROVE  i \in JRec /\ SameElse(i, j) /\ i.ins = x /\ i.chain = j.chain /\ i.trace = j.trace
BY DEF JRec, SameElse, SameRecording

\* Only trace objects are changed.
LEMMA SetTrace ==
  ASSUME NEW j \in JRec, NEW x \in [Traces -> TraceRecs \cup {Nil, Cur}],
         NEW i, i = [j EXCEPT !.trace = x]
  PROVE  i \in JRec /\ SameElse(i, j) /\ i.trace = x /\ i.chain = j.chain /\ i.ins = j.ins
BY DEF JRec, SameElse, SameRecording

\* trace_flushroot takes trace n from its chain and unpatches its bytecode.
LEMMA FlushRootFacts ==
  ASSUME TraceAssumption, NEW j \in JRec, Linked(j), j.patch = Nil, NEW n \in Traces,
         j.trace[n] # Nil, TraceRef(j, n).root = 0, TraceRef(j, n).pc \in Pcs,
         NEW i, i = FlushRoot(j, n)
  PROVE  i \in JRec /\ Linked(i) /\ Unchained(i, j, n)
<1> DEFINE t == TraceRef(j, n)
           f == Proto[t.pc]
           before == {m \in ChainOf(j, f) : TraceRef(j, m).nextroot = n}
<1>1. f \in Protos
  BY DEF Protos
<1>2. ChainOf(j, f) = Owned(j, f)
  BY <1>1, LinkedChain
<1>3. ASSUME NEW m \in Owned(j, f)
      PROVE  TraceRef(j, m).nextroot = NextRoot(j)[m]
  <2>1. m \in Saved(j) /\ m \in Traces
    BY OwnedSaved
  <2> QED
    BY <2>1 DEF TraceRef, NextRoot, Saved
<1>4. Path(Owned(j, f), j.chain[f], NextRoot(j))
  BY <1>1 DEF Linked
<1>5. i = IF j.chain[f] = n THEN Unpatch([j EXCEPT !.chain[f] = t.nextroot], t)
          ELSE IF before = {} THEN j
          ELSE Unpatch([j EXCEPT !.trace[CHOOSE m \in before : TRUE].nextroot = t.nextroot], t)
  BY DEF FlushRoot
<1>6. before = {m \in Owned(j, f) : NextRoot(j)[m] = n}
  BY <1>2, <1>3
<1>7. n # 0 /\ 0 \notin Owned(j, f)
  BY OwnedSaved DEF Traces
<1>8. CASE n \notin Owned(j, f)
  <2>1. j.chain[f] # n
    BY <1>4, <1>7, <1>8 DEF Path
  <2>2. before = {}
    BY <1>4, <1>6, <1>7, <1>8 DEF Path
  <2>3. i = j
    BY <1>5, <2>1, <2>2
  <2>4. ASSUME NEW g \in Protos, n \in Owned(j, g)
        PROVE  FALSE
    <3>1. n \in Saved(j) /\ Proto[j.trace[n].pc] = g
      BY <2>4, OwnedSaved
    <3>2. g = f
      BY <3>1 DEF TraceRef, Saved
    <3> QED
      BY <1>8, <2>4, <3>2
  <2>5. \A m \in Saved(j) : j.trace[m] \in TraceRecs
    BY SavedIsRecord
  <2> QED
    BY <2>3, <2>4, <2>5 DEF Unchained, SameTrace, SameElse, SameRecording
<1>9. CASE n \in Owned(j, f)
  <2>1. /\ n \in Saved(j) /\ j.trace[n] \in TraceRecs /\ j.trace[n].pc \in Pcs
        /\ IsJit(j, j.trace[n].pc)
    BY <1>9, OwnedSaved
  <2>2. t = j.trace[n]
    BY <2>1 DEF TraceRef, Saved
  <2>3. t.nextroot \in Numbers /\ t.nextroot = NextRoot(j)[n]
    BY <2>1, <2>2 DEF TraceRecs, NextRoot, Numbers
  <2> HIDE DEF t, f, before
  <2>4. Orig \in Inses
    BY TraceAssumption DEF Orig, Inses, Numbers, TraceAssumption
  <2>5. CASE j.chain[f] = n
    <3> DEFINE k == [j EXCEPT !.chain[f] = t.nextroot]
    <3>1. i = Unpatch(k, t)
      BY <1>5, <2>5
    <3> DEFINE ch == [j.chain EXCEPT ![f] = t.nextroot]
               is == [k.ins EXCEPT ![t.pc] = Orig]
    <3>a. ch \in [Protos -> Numbers] /\ k = [j EXCEPT !.chain = ch]
      BY <1>1, <2>3 DEF JRec
    <3>d. ch = [j.chain EXCEPT ![f] = t.nextroot]
      OBVIOUS
    <3> HIDE DEF ch, k
    <3>b. /\ k \in JRec /\ SameElse(k, j) /\ k.chain = ch
          /\ k.ins = j.ins /\ k.trace = j.trace
      BY <3>a, SetChain
    <3>2. i = [k EXCEPT !.ins = is]
      BY <2>1, <2>2, <3>1, <3>b DEF Unpatch, IsJit
    <3>c. is \in [Pcs -> Inses] /\ is = [j.ins EXCEPT ![t.pc] = Orig]
      BY <2>4, <3>b DEF JRec
    <3> HIDE DEF is
    <3>3. /\ i \in JRec /\ SameElse(i, j) /\ i.trace = j.trace
          /\ i.chain = [j.chain EXCEPT ![f] = t.nextroot]
          /\ i.ins = [j.ins EXCEPT ![j.trace[n].pc] = Orig]
      <4>1. /\ i \in JRec /\ SameElse(i, k) /\ i.trace = k.trace /\ i.chain = k.chain
            /\ i.ins = is
        BY <3>2, <3>b, <3>c, SetIns
      <4> QED
        BY <2>2, <3>b, <3>c, <3>d, <4>1 DEF SameElse, SameRecording
    <3>4. Saved(i) = Saved(j) /\ NextRoot(i) = NextRoot(j)
      BY <3>3 DEF Saved, NextRoot
    <3>5. Path(Owned(j, f) \ {n}, i.chain[f], NextRoot(i))
      <4>1. Path(Owned(j, f) \ {n}, NextRoot(j)[n], NextRoot(j))
        BY <1>4, <1>7, <1>9, <2>5, PathWithoutFirst
      <4>2. i.chain[f] = NextRoot(j)[n]
        BY <1>1, <2>3, <3>3 DEF JRec
      <4> QED
        BY <3>4, <4>1, <4>2
    <3>6. \A g \in Protos \ {f} : i.chain[g] = j.chain[g]
      BY <3>3 DEF JRec
    <3>7. i.patch = Nil
      BY <3>3 DEF SameElse, SameRecording
    <3>8. Linked(i) /\ \A g \in Protos : Owned(i, g) = Owned(j, g) \ {n}
      <4>1. \A g \in Protos \ {f} :
              /\ i.chain[g] = j.chain[g]
              /\ \A m \in Owned(j, g) : NextRoot(i)[m] = NextRoot(j)[m]
        BY <3>4, <3>6
      <4>2. \A m \in Saved(j) : i.trace[m].pc = j.trace[m].pc /\ i.trace[m].root = j.trace[m].root
        BY <3>3
      <4>3. /\ i \in JRec /\ i.ins = [j.ins EXCEPT ![j.trace[n].pc] = Orig] /\ Saved(i) = Saved(j)
        BY <3>3, <3>4
      <4>4. TakenOut(i, j, f, n)
        BY <3>5, <3>7, <4>1, <4>2, <4>3 DEF TakenOut
      <4> QED
        BY <1>1, <1>9, <4>3, <4>4, Unlinked
    <3>9. \A m \in Saved(j) : j.trace[m] \in TraceRecs
      BY SavedIsRecord
    <3>10. \A p \in Pcs : i.ins[p] # j.ins[p] => IsJit(j, p) /\ i.ins[p] = Orig
      BY <2>1, <2>2, <3>3 DEF JRec
    <3>11. \A g \in Protos : i.chain[g] # j.chain[g] =>
             n \in Saved(j) /\ j.chain[g] = n /\ i.chain[g] = j.trace[n].nextroot
      BY <1>1, <2>1, <2>2, <2>5, <3>3 DEF JRec
    <3> QED
      BY <3>3, <3>8, <3>9, <3>10, <3>11 DEF Unchained, SameTrace, SameElse
  <2>6. CASE j.chain[f] # n
    <3>1. PICK m \in Owned(j, f) : NextRoot(j)[m] = n
      BY <1>4, <1>9, <2>6, PathPredecessor
    <3>2. before # {}
      BY <1>6, <3>1
    <3> DEFINE b == CHOOSE m2 \in before : TRUE
    <3>3. b \in Owned(j, f) /\ NextRoot(j)[b] = n
      BY <1>6, <3>2
    <3> DEFINE k == [j EXCEPT !.trace[b].nextroot = t.nextroot]
    <3>4. i = Unpatch(k, t)
      BY <1>5, <2>6, <3>2
    <3> HIDE DEF b
    <3>5. b \in Saved(j) /\ b \in Traces /\ j.trace[b] \in TraceRecs
      BY <3>3, OwnedSaved
    <3> DEFINE tr == [j.trace EXCEPT ![b] = [j.trace[b] EXCEPT !.nextroot = t.nextroot]]
    <3>6. k = [j EXCEPT !.trace = tr]
      OBVIOUS
    <3>7. [j.trace[b] EXCEPT !.nextroot = t.nextroot] \in TraceRecs
      BY <2>3, <3>5 DEF TraceRecs, Numbers
    <3>8. tr \in [Traces -> TraceRecs \cup {Nil, Cur}]
      BY <3>5, <3>7 DEF JRec
    <3>9. \A x \in Traces : tr[x] = IF x = b THEN [j.trace[b] EXCEPT !.nextroot = t.nextroot] ELSE j.trace[x]
      BY DEF JRec
    <3>10. SameTrace(tr[b], j.trace[b]) /\ tr[b].nextroot = t.nextroot /\ tr[b] \in TraceRecs
      BY <3>5, <3>7, <3>9 DEF SameTrace, TraceRecs
    <3> HIDE DEF tr, k
    <3>a. /\ k \in JRec /\ SameElse(k, j) /\ k.trace = tr /\ k.ins = j.ins
          /\ k.chain = j.chain
      BY <3>6, <3>8, SetTrace
    <3> DEFINE is == [k.ins EXCEPT ![t.pc] = Orig]
    <3>11. i = [k EXCEPT !.ins = is]
      BY <2>1, <2>2, <3>4, <3>a DEF Unpatch, IsJit
    <3>c. is \in [Pcs -> Inses] /\ is = [j.ins EXCEPT ![t.pc] = Orig]
      BY <2>4, <3>a DEF JRec
    <3> HIDE DEF is
    <3>12. /\ i \in JRec /\ SameElse(i, j) /\ i.trace = tr /\ i.chain = j.chain
           /\ i.ins = [j.ins EXCEPT ![j.trace[n].pc] = Orig]
      <4>1. /\ i \in JRec /\ SameElse(i, k) /\ i.trace = k.trace /\ i.chain = k.chain
            /\ i.ins = is
        BY <3>11, <3>a, <3>c, SetIns
      <4> QED
        BY <2>2, <3>a, <3>c, <4>1 DEF SameElse, SameRecording
    <3>13. \A x \in Saved(j) : tr[x] \in TraceRecs /\ SameTrace(tr[x], j.trace[x])
      BY <3>9, <3>10, SavedIsRecord DEF SameTrace
    <3>14. \A x \in Traces : x \notin Saved(j) => tr[x] = j.trace[x]
      BY <3>5, <3>9
    <3>15. Saved(i) = Saved(j)
      <4>1. \A x \in Saved(j) : x \in Saved(i)
        BY <3>12, <3>13, SavedIsRecord
      <4> QED
        BY <3>12, <3>14, <4>1 DEF Saved
    <3>16. /\ NextRoot(i)[b] = NextRoot(j)[n]
           /\ \A x \in Traces \ {b} : NextRoot(i)[x] = NextRoot(j)[x]
      BY <2>3, <3>5, <3>9, <3>10, <3>12, <3>15 DEF NextRoot
    <3>17. Owned(j, f) \subseteq Traces
      BY OwnedSaved
    <3>18. Path(Owned(j, f) \ {n}, i.chain[f], NextRoot(i))
      BY <1>4, <1>7, <1>9, <2>6, <3>3, <3>12, <3>16, <3>17, PathWithout
    <3>19. ASSUME NEW g \in Protos \ {f}, NEW x \in Owned(j, g)
           PROVE  NextRoot(i)[x] = NextRoot(j)[x]
      <4>1. Proto[j.trace[x].pc] = g /\ x \in Traces
        BY OwnedSaved
      <4>2. Proto[j.trace[b].pc] = f
        BY <3>3, OwnedSaved
      <4> QED
        BY <3>16, <4>1, <4>2
    <3>20. i.patch = Nil
      BY <3>12 DEF SameElse, SameRecording
    <3>21. \A x \in Saved(j) : i.trace[x].pc = j.trace[x].pc /\ i.trace[x].root = j.trace[x].root
      BY <3>12, <3>13 DEF SameTrace
    <3>22. Linked(i) /\ \A g \in Protos : Owned(i, g) = Owned(j, g) \ {n}
      <4>1. \A g \in Protos \ {f} :
              /\ i.chain[g] = j.chain[g]
              /\ \A a \in Owned(j, g) : NextRoot(i)[a] = NextRoot(j)[a]
        BY <3>12, <3>19
      <4>2. /\ i \in JRec /\ i.ins = [j.ins EXCEPT ![j.trace[n].pc] = Orig]
        BY <3>12
      <4>4. TakenOut(i, j, f, n)
        BY <3>15, <3>18, <3>20, <3>21, <4>1, <4>2 DEF TakenOut
      <4> QED
        BY <1>1, <1>9, <4>2, <4>4, Unlinked
    <3>23. \A p \in Pcs : i.ins[p] # j.ins[p] => IsJit(j, p) /\ i.ins[p] = Orig
      BY <2>1, <2>2, <3>12 DEF JRec
    <3>24. \A x \in Saved(j) : i.trace[x].nextroot # j.trace[x].nextroot =>
              /\ n \in Saved(j) /\ j.trace[x].nextroot = n
              /\ i.trace[x].nextroot = j.trace[n].nextroot
      BY <2>1, <2>2, <3>3, <3>5, <3>9, <3>10, <3>12, SavedIsRecord DEF NextRoot
    <3> QED
      BY <3>12, <3>13, <3>14, <3>22, <3>23, <3>24 DEF Unchained, SameElse
  <2> QED
    BY <2>5, <2>6
<1> QED
  BY <1>8, <1>9

-----------------------------------------------------------------------------
\* What all flushes have in common: chains get shorter, nothing is added.

Shrunk(i, j) ==
  /\ SameElse(i, j)
  /\ Saved(i) = Saved(j)
  /\ \A m \in Traces : m \notin Saved(j) => i.trace[m] = j.trace[m]
  /\ \A m \in Saved(j) : SameTrace(i.trace[m], j.trace[m])
  /\ \A p \in Pcs : i.ins[p] # j.ins[p] => IsJit(j, p) /\ i.ins[p] = Orig
  /\ \A f \in Protos : Owned(i, f) \subseteq Owned(j, f)
  /\ \A W \in SUBSET Traces :
       (\A m \in W : NextRoot(j)[m] \in W \cup {0}) =>
         /\ \A m \in Traces : NextRoot(j)[m] \in W \cup {0} => NextRoot(i)[m] \in W \cup {0}
         /\ \A f \in Protos : j.chain[f] \in W \cup {0} => i.chain[f] \in W \cup {0}

\* Nothing is flushed.
LEMMA ShrunkSelf ==
  ASSUME NEW j
  PROVE  Shrunk(j, j)
BY DEF Shrunk, SameElse, SameRecording, SameTrace

\* Flushing goes on.
LEMMA ShrunkTwice ==
  ASSUME NEW i, NEW j, NEW k, Shrunk(i, j), Shrunk(j, k)
  PROVE  Shrunk(i, k)
<1>1. SameElse(i, k) /\ Saved(i) = Saved(k)
  BY DEF Shrunk, SameElse, SameRecording
<1>2. /\ \A m \in Traces : m \notin Saved(k) => i.trace[m] = k.trace[m]
      /\ \A m \in Saved(k) : SameTrace(i.trace[m], k.trace[m])
  BY DEF Shrunk, SameTrace
<1>3. \A p \in Pcs : i.ins[p] # k.ins[p] => IsJit(k, p) /\ i.ins[p] = Orig
  BY DEF Shrunk, IsJit, Orig
<1>4. \A f \in Protos : Owned(i, f) \subseteq Owned(k, f)
  BY DEF Shrunk
<1>5. ASSUME NEW W \in SUBSET Traces, \A m \in W : NextRoot(k)[m] \in W \cup {0}
      PROVE  /\ \A m \in Traces :
                  NextRoot(k)[m] \in W \cup {0} => NextRoot(i)[m] \in W \cup {0}
             /\ \A f \in Protos : k.chain[f] \in W \cup {0} => i.chain[f] \in W \cup {0}
  <2>1. /\ \A m \in Traces :
             NextRoot(k)[m] \in W \cup {0} => NextRoot(j)[m] \in W \cup {0}
        /\ \A f \in Protos : k.chain[f] \in W \cup {0} => j.chain[f] \in W \cup {0}
    BY <1>5 DEF Shrunk
  <2>3. \A m \in W : NextRoot(j)[m] \in W \cup {0}
    BY <1>5, <2>1
  <2>2. /\ \A m \in Traces :
             NextRoot(j)[m] \in W \cup {0} => NextRoot(i)[m] \in W \cup {0}
        /\ \A f \in Protos : j.chain[f] \in W \cup {0} => i.chain[f] \in W \cup {0}
    BY <2>3 DEF Shrunk
  <2> QED
    BY <2>1, <2>2
<1> QED
  BY <1>1, <1>2, <1>3, <1>4, <1>5 DEF Shrunk

\* Taking one trace from its chain is a kind of flushing.
LEMMA UnchainedShrunk ==
  ASSUME TraceAssumption, NEW i \in JRec, NEW j \in JRec, NEW n, Unchained(i, j, n)
  PROVE  Shrunk(i, j)
<1>1. Saved(i) = Saved(j)
  BY UnchainedSaved
<1>2. \A m \in Saved(j) : m \in Traces
  BY SavedIsRecord
<1>3. ASSUME NEW W \in SUBSET Traces, \A m \in W : NextRoot(j)[m] \in W \cup {0}
      PROVE  /\ \A m \in Traces :
                  NextRoot(j)[m] \in W \cup {0} => NextRoot(i)[m] \in W \cup {0}
             /\ \A f \in Protos : j.chain[f] \in W \cup {0} => i.chain[f] \in W \cup {0}
  <2>1. n \in Saved(j) /\ n \in W => j.trace[n].nextroot \in W \cup {0}
    BY <1>2, <1>3 DEF NextRoot
  <2>2. ASSUME NEW m \in Traces, NextRoot(j)[m] \in W \cup {0}
        PROVE  NextRoot(i)[m] \in W \cup {0}
    <3>1. CASE m \notin Saved(j)
      BY <1>1, <3>1 DEF NextRoot
    <3>2. CASE m \in Saved(j)
      <4>1. NextRoot(i)[m] = i.trace[m].nextroot /\ NextRoot(j)[m] = j.trace[m].nextroot
        BY <1>1, <3>2 DEF NextRoot
      <4>3. 0 \notin Traces
        BY DEF Traces
      <4>2. i.trace[m].nextroot # j.trace[m].nextroot =>
               /\ n \in Saved(j) /\ j.trace[m].nextroot = n
               /\ i.trace[m].nextroot = j.trace[n].nextroot
        BY <3>2 DEF Unchained
      <4> QED
        BY <1>2, <2>1, <2>2, <4>1, <4>2, <4>3
    <3> QED
      BY <3>1, <3>2
  <2>3. ASSUME NEW f \in Protos, j.chain[f] \in W \cup {0}
        PROVE  i.chain[f] \in W \cup {0}
    <3>1. 0 \notin Traces
      BY DEF Traces
    <3>2. i.chain[f] # j.chain[f] =>
            n \in Saved(j) /\ j.chain[f] = n /\ i.chain[f] = j.trace[n].nextroot
      BY DEF Unchained
    <3> QED
      BY <1>2, <2>1, <2>3, <3>1, <3>2
  <2> QED
    BY <2>2, <2>3
<1>4. \A f \in Protos : Owned(i, f) \subseteq Owned(j, f)
  BY DEF Unchained
<1> QED
  BY <1>1, <1>3, <1>4 DEF Unchained, Shrunk

-----------------------------------------------------------------------------
\* jit.flush(n)

\* The trace that is being recorded begins somewhere, unless it is a side trace.
CurBegins(j) == (\E n \in Traces : j.trace[n] = Cur) /\ j.cur.root = 0 => j.cur.pc \in Pcs

\* lj_trace_flush, for any trace number.
LEMMA FlushTraceFacts ==
  ASSUME TraceAssumption, NEW j \in JRec, Linked(j), j.patch = Nil, CurBegins(j),
         NEW n \in Traces, NEW i, i = FlushTrace(j, n)
  PROVE  i \in JRec /\ Linked(i) /\ Unchained(i, j, n) /\ Shrunk(i, j)
<1>1. CASE j.trace[n] # Nil /\ TraceRef(j, n).root = 0
  <2>1. TraceRef(j, n).pc \in Pcs
    BY <1>1 DEF TraceRef, CurBegins, Linked, Saved
  <2>2. i = FlushRoot(j, n)
    BY <1>1 DEF FlushTrace
  <2>3. i \in JRec /\ Linked(i) /\ Unchained(i, j, n)
    BY <1>1, <2>1, <2>2, FlushRootFacts
  <2> QED
    BY <2>3, UnchainedShrunk
<1>2. CASE ~(j.trace[n] # Nil /\ TraceRef(j, n).root = 0)
  <2>1. i = j
    BY <1>2 DEF FlushTrace
  <2>2. ASSUME NEW f \in Protos
        PROVE  n \notin Owned(j, f)
    BY <1>2, OwnedSaved DEF TraceRef, Saved
  <2>3. \A f \in Protos : Owned(j, f) = Owned(j, f) \ {n}
    BY <2>2
  <2>4. \A m \in Saved(j) : j.trace[m] \in TraceRecs
    BY SavedIsRecord
  <2>5. Unchained(j, j, n)
    BY <2>3, <2>4 DEF Unchained, SameTrace, SameElse, SameRecording
  <2> QED
    BY <2>1, <2>5, ShrunkSelf
<1> QED
  BY <1>1, <1>2

-----------------------------------------------------------------------------
\* lj_trace_flushproto

ProtoStep(i, f) == IF i.chain[f] = 0 THEN i ELSE FlushRoot(i, i.chain[f])

ProtoRun(j, f) ==
  CHOOSE F : F = [k \in 0..MaxTrace |-> IF k = 0 THEN j ELSE ProtoStep(F[k - 1], f)]

\* The loop is a function of the number of its rounds.
LEMMA ProtoRounds ==
  ASSUME TraceAssumption, NEW j, NEW f
  PROVE  ProtoRun(j, f) =
           [k \in 0..MaxTrace |-> IF k = 0 THEN j ELSE ProtoStep(ProtoRun(j, f)[k - 1], f)]
<1> DEFINE Rounds(n) == \E F : F = [k \in 0..n |-> IF k = 0 THEN j ELSE ProtoStep(F[k - 1], f)]
           S == {n \in Nat : ~Rounds(n)}
<1>1. S = {}
  <2> SUFFICES ASSUME S # {}
               PROVE  FALSE
    OBVIOUS
  <2>1. PICK m \in S : \A x \in S : m <= x
    <3> HIDE DEF S
    <3>1. S \in SUBSET Nat
      BY DEF S
    <3> QED
      BY <3>1, LeastExists
  <2>2. m \in Nat /\ ~Rounds(m)
    BY <2>1
  <2>3. CASE m = 0
    <3>1. [k \in 0..0 |-> j] = [k \in 0..0 |-> IF k = 0 THEN j ELSE ProtoStep([x \in 0..0 |-> j][k - 1], f)]
      OBVIOUS
    <3>2. Rounds(0)
      BY <3>1
    <3> QED
      BY <2>2, <2>3, <3>2
  <2>4. CASE m # 0
    <3>1. m - 1 \in Nat /\ ~(m <= m - 1)
      BY <2>2, <2>4
    <3>2. Rounds(m - 1)
      BY <2>1, <3>1
    <3>3. PICK F : F = [k \in 0..m - 1 |-> IF k = 0 THEN j ELSE ProtoStep(F[k - 1], f)]
      BY <3>2
    <3> DEFINE G == [k \in 0..m |-> IF k = m THEN ProtoStep(F[m - 1], f) ELSE F[k]]
    <3>4. ASSUME NEW k \in 0..m
          PROVE  G[k] = IF k = 0 THEN j ELSE ProtoStep(G[k - 1], f)
      <4>1. CASE k = m
        <5>1. k - 1 \in 0..m /\ k - 1 # m /\ k # 0
          BY <2>2, <2>4, <4>1
        <5>2. G[k - 1] = F[m - 1]
          BY <4>1, <5>1
        <5>3. G[k] = ProtoStep(F[m - 1], f)
          BY <4>1
        <5> HIDE DEF G
        <5> QED
          BY <5>1, <5>2, <5>3
      <4>2. CASE k # m
        <5>1. k \in 0..m - 1
          BY <2>2, <4>2
        <5>2. G[k] = F[k]
          BY <4>2
        <5>3. F[k] = IF k = 0 THEN j ELSE ProtoStep(F[k - 1], f)
          BY <3>3, <5>1
        <5>4. CASE k = 0
          BY <5>2, <5>3, <5>4
        <5>5. CASE k # 0
          <6>1. k - 1 \in 0..m /\ k - 1 # m
            BY <2>2, <4>2, <5>5
          <6>2. G[k - 1] = F[k - 1]
            BY <6>1
          <6> HIDE DEF G
          <6> QED
            BY <5>2, <5>3, <5>5, <6>2
        <5> QED
          BY <5>4, <5>5
      <4> QED
        BY <4>1, <4>2
    <3>5. G = [k \in 0..m |-> G[k]]
      OBVIOUS
    <3> HIDE DEF G
    <3>6. G = [k \in 0..m |-> IF k = 0 THEN j ELSE ProtoStep(G[k - 1], f)]
      BY <3>4, <3>5
    <3>7. Rounds(m)
      BY <3>6
    <3> QED
      BY <2>2, <3>7
  <2> QED
    BY <2>3, <2>4
<1>2. Rounds(MaxTrace)
  BY <1>1 DEF TraceAssumption
<1> QED
  BY <1>2, Zenon DEF ProtoRun

\* lj_trace_flushproto leaves the chain of the prototype empty.
LEMMA FlushProtoFacts ==
  ASSUME TraceAssumption, NEW j \in JRec, Linked(j), j.patch = Nil, NEW f \in Protos,
         NEW i, i = FlushProto(j, f)
  PROVE  i \in JRec /\ Linked(i) /\ Shrunk(i, j) /\ i.chain[f] = 0
<1> DEFINE Fl == ProtoRun(j, f)
<1>1. Fl = [k \in 0..MaxTrace |-> IF k = 0 THEN j ELSE ProtoStep(Fl[k - 1], f)]
  BY ProtoRounds
<1>2. i = Fl[MaxTrace]
  BY DEF FlushProto, ProtoRun, ProtoStep
<1> HIDE DEF Fl
<1>3. MaxTrace \in Nat
  BY DEF TraceAssumption
<1> DEFINE Good(k) == /\ Fl[k] \in JRec /\ Linked(Fl[k]) /\ Shrunk(Fl[k], j)
                      /\ \/ Fl[k].chain[f] = 0
                         \/ Cardinality(Owned(Fl[k], f)) <= MaxTrace - k
           S == {k \in 0..MaxTrace : ~Good(k)}
<1>4. \A g \in JRec : Linked(g) => /\ Owned(g, f) \subseteq Traces
                                  /\ IsFiniteSet(Owned(g, f))
                                  /\ Cardinality(Owned(g, f)) \in Nat
                                  /\ Cardinality(Owned(g, f)) <= MaxTrace
  <2> SUFFICES ASSUME NEW g \in JRec, Linked(g)
               PROVE  /\ Owned(g, f) \subseteq Traces
                      /\ IsFiniteSet(Owned(g, f))
                      /\ Cardinality(Owned(g, f)) \in Nat
                      /\ Cardinality(Owned(g, f)) <= MaxTrace
    OBVIOUS
  <2>1. Owned(g, f) \subseteq Traces
    BY OwnedSaved
  <2>2. IsFiniteSet(Traces) /\ Cardinality(Traces) = MaxTrace
    BY <1>3, FS_Interval DEF Traces
  <2> QED
    BY <2>1, <2>2, FS_Subset, FS_CardinalityType
<1>5. Good(0)
  <2>1. Fl[0] = j
    BY <1>1, <1>3
  <2> QED
    BY <1>3, <1>4, <2>1, ShrunkSelf
<1>6. ASSUME NEW k \in 1..MaxTrace, Good(k - 1)
      PROVE  Good(k)
  <2> DEFINE g == Fl[k - 1]
  <2>1. Fl[k] = ProtoStep(g, f)
    BY <1>1, <1>3
  <2>2. g \in JRec /\ Linked(g) /\ Shrunk(g, j) /\ g.patch = Nil
    BY <1>6 DEF Shrunk, SameElse, SameRecording
  <2>3. g.chain[f] = 0 \/ Cardinality(Owned(g, f)) <= MaxTrace - (k - 1)
    BY <1>6
  <2> HIDE DEF g
  <2>4. CASE g.chain[f] = 0
    BY <2>1, <2>2, <2>4 DEF ProtoStep
  <2>5. CASE g.chain[f] # 0
    <3> DEFINE n == g.chain[f]
    <3>1. n \in Owned(g, f)
      BY <2>2, <2>5 DEF Linked, Path
    <3>2. /\ n \in Traces /\ g.trace[n] # Nil /\ TraceRef(g, n).root = 0
          /\ TraceRef(g, n).pc \in Pcs
      BY <2>2, <3>1, OwnedSaved DEF TraceRef, Saved
    <3>3. Fl[k] = FlushRoot(g, n)
      BY <2>1, <2>5 DEF ProtoStep
    <3> HIDE DEF n
    <3>4. Fl[k] \in JRec /\ Linked(Fl[k]) /\ Unchained(Fl[k], g, n)
      BY <2>2, <3>2, <3>3, FlushRootFacts
    <3>5. Shrunk(Fl[k], j)
      BY <2>2, <3>4, UnchainedShrunk, ShrunkTwice
    <3>6. Owned(Fl[k], f) = Owned(g, f) \ {n}
      BY <3>4 DEF Unchained
    <3>7. Cardinality(Owned(Fl[k], f)) = Cardinality(Owned(g, f)) - 1
      <4>1. IsFiniteSet(Owned(g, f))
        BY <1>4, <2>2
      <4>2. Cardinality(Owned(g, f) \ {n})
              = IF n \in Owned(g, f) THEN Cardinality(Owned(g, f)) - 1
                ELSE Cardinality(Owned(g, f))
        BY <4>1, FS_RemoveElement, Zenon
      <4> QED
        BY <3>1, <3>6, <4>2
    <3>8. Cardinality(Owned(g, f)) \in Nat
      BY <1>4, <2>2
    <3>9. Cardinality(Owned(Fl[k], f)) <= MaxTrace - k
      BY <1>3, <2>3, <2>5, <3>7, <3>8
    <3> QED
      BY <3>4, <3>5, <3>9
  <2> QED
    BY <2>4, <2>5
<1>7. S = {}
  <2> SUFFICES ASSUME S # {}
               PROVE  FALSE
    OBVIOUS
  <2> HIDE DEF Good
  <2>1. PICK m \in S : \A x \in S : m <= x
    <3>1. S \in SUBSET Nat
      OBVIOUS
    <3> HIDE DEF S
    <3> QED
      BY <3>1, LeastExists
  <2>2. m \in 1..MaxTrace
    BY <1>3, <1>5
  <2>3. Good(m - 1)
    BY <1>3, <2>1, <2>2
  <2> QED
    BY <1>6, <2>2, <2>3
<1>8. Good(MaxTrace)
  <2> HIDE DEF Good
  <2> QED
    BY <1>3, <1>7
<1>9. i \in JRec /\ Linked(i) /\ Shrunk(i, j)
  BY <1>2, <1>8
<1>10. i.chain[f] = 0
  <2>1. CASE Cardinality(Owned(i, f)) <= 0
    <3>1. Owned(i, f) = {}
      BY <1>4, <1>9, <2>1, FS_EmptySet
    <3> QED
      BY <1>9, <3>1 DEF Linked, Path
  <2> QED
    BY <1>2, <1>3, <1>8, <2>1
<1> QED
  BY <1>9, <1>10

-----------------------------------------------------------------------------
\* lj_trace_flushall

\* Objects outside of the chains, and what else is in a trace object, do not matter.
LEMMA LinkedSame ==
  ASSUME TraceAssumption, NEW j \in JRec, Linked(j), NEW i \in JRec,
         i.ins = j.ins, i.chain = j.chain, i.patch = j.patch,
         \A f \in Protos : \A n \in Owned(j, f) :
           /\ n \in Saved(i) /\ i.trace[n].pc = j.trace[n].pc
           /\ i.trace[n].root = j.trace[n].root /\ i.trace[n].nextroot = j.trace[n].nextroot,
         \A n \in Saved(i) : i.trace[n].root = 0 => i.trace[n].pc \in Pcs
  PROVE  Linked(i) /\ \A f \in Protos : Owned(i, f) = Owned(j, f)
<1>1. \A f \in Protos : Owned(i, f) = Owned(j, f)
  BY DEF Owned, IsJit
<1>2. ASSUME NEW f \in Protos
      PROVE  Path(Owned(i, f), i.chain[f], NextRoot(i))
  <2>1. \A m \in Owned(j, f) : NextRoot(j)[m] = NextRoot(i)[m]
    BY OwnedSaved DEF NextRoot
  <2>2. Path(Owned(j, f), j.chain[f], NextRoot(j))
    BY DEF Linked
  <2>3. Path(Owned(j, f), j.chain[f], NextRoot(i))
    BY <2>1, <2>2, PathAgree
  <2> QED
    BY <1>1, <2>3
<1>3. ASSUME NEW p \in Pcs, IsJit(i, p)
      PROVE  Begins(i, i.ins[p].d, p) /\ Kind[p] # "call"
  <2>1. IsJit(j, p) /\ i.ins[p].d = j.ins[p].d /\ Proto[p] \in Protos
    BY <1>3 DEF IsJit, Protos
  <2>2. j.ins[p].d \in Owned(j, Proto[p])
    BY <2>1 DEF Owned
  <2> QED
    BY <2>1, <2>2 DEF Linked, Begins
<1>4. ASSUME i.patch # Nil
      PROVE  /\ Begins(i, i.patch.d, i.patch.pc) /\ Kind[i.patch.pc] # "call"
             /\ i.ins[i.patch.pc] = Orig
  <2>1. i.patch.pc \in Pcs
    BY <1>4 DEF JRec, Patches
  <2>2. Proto[j.patch.pc] \in Protos /\ j.patch.d \in Owned(j, Proto[j.patch.pc])
    BY <1>4, <2>1 DEF Owned, Protos
  <2> QED
    BY <1>4, <2>2 DEF Linked, Begins
<1>5. \A p \in Pcs : ~IsJit(i, p) => i.ins[p].d = 0
  BY DEF Linked, IsJit
<1> QED
  BY <1>1, <1>2, <1>3, <1>4, <1>5 DEF Linked

\* A slot is cleared, with the frame that holds its trace.
LEMMA SetTraceHeld ==
  ASSUME NEW j \in JRec, NEW x \in [Traces -> TraceRecs \cup {Nil, Cur}],
         NEW h \in Numbers \cup {Nil}, NEW i, i = [j EXCEPT !.trace = x, !.held = h]
  PROVE  i \in JRec
BY Zenon DEF JRec

\* What lj_trace_flushall resets at the end.
LEMMA SetEmpty ==
  ASSUME NEW j \in JRec, 0 \in Numbers, 0 \in 0..(MaxTrace + 1),
         NEW i, i = [j EXCEPT !.no = 0, !.freetrace = 0, !.mcarea = FALSE]
  PROVE  i \in JRec
<1>1. FALSE \in BOOLEAN
  OBVIOUS
<1> QED
  BY <1>1, Zenon DEF JRec

AllStep(i, n) ==
  IF i.trace[n] = Nil THEN i
  ELSE [FlushTrace(i, n) EXCEPT !.trace[n] = Nil, !.held = IF @ = n THEN 0 ELSE @]

AllRun(j) ==
  CHOOSE F : F = [k \in 0..MaxTrace |-> IF k = 0 THEN j ELSE AllStep(F[k - 1], MaxTrace + 1 - k)]

\* The loop is a function of the number of its rounds.
LEMMA AllRounds ==
  ASSUME TraceAssumption, NEW j
  PROVE  AllRun(j) =
           [k \in 0..MaxTrace |->
              IF k = 0 THEN j ELSE AllStep(AllRun(j)[k - 1], MaxTrace + 1 - k)]
<1> DEFINE Rounds(n) == \E F : F = [k \in 0..n |-> IF k = 0 THEN j ELSE AllStep(F[k - 1], MaxTrace + 1 - k)]
           S == {n \in Nat : ~Rounds(n)}
<1>1. S = {}
  <2> SUFFICES ASSUME S # {}
               PROVE  FALSE
    OBVIOUS
  <2>1. PICK m \in S : \A x \in S : m <= x
    <3> HIDE DEF S
    <3>1. S \in SUBSET Nat
      BY DEF S
    <3> QED
      BY <3>1, LeastExists
  <2>2. m \in Nat /\ ~Rounds(m)
    BY <2>1
  <2>3. CASE m = 0
    <3>1. [k \in 0..0 |-> j] = [k \in 0..0 |-> 
           IF k = 0 THEN j ELSE AllStep([x \in 0..0 |-> j][k - 1], MaxTrace + 1 - k)]
      OBVIOUS
    <3>2. Rounds(0)
      BY <3>1
    <3> QED
      BY <2>2, <2>3, <3>2
  <2>4. CASE m # 0
    <3>1. m - 1 \in Nat /\ ~(m <= m - 1)
      BY <2>2, <2>4
    <3>2. Rounds(m - 1)
      BY <2>1, <3>1
    <3>3. PICK F : F = [k \in 0..m - 1 |-> IF k = 0 THEN j ELSE AllStep(F[k - 1], MaxTrace + 1 - k)]
      BY <3>2
    <3> DEFINE G == [k \in 0..m |-> IF k = m THEN AllStep(F[m - 1], MaxTrace + 1 - m) ELSE F[k]]
    <3>4. ASSUME NEW k \in 0..m
          PROVE  G[k] = IF k = 0 THEN j ELSE AllStep(G[k - 1], MaxTrace + 1 - k)
      <4>1. CASE k = m
        <5>1. k - 1 \in 0..m /\ k - 1 # m /\ k # 0
          BY <2>2, <2>4, <4>1
        <5>2. G[k - 1] = F[m - 1]
          BY <4>1, <5>1
        <5>3. G[k] = AllStep(F[m - 1], MaxTrace + 1 - m)
          BY <4>1
        <5> HIDE DEF G
        <5>4. G[m] = AllStep(G[m - 1], MaxTrace + 1 - m)
          BY <4>1, <5>2, <5>3
        <5> QED
          BY <4>1, <5>1, <5>4
      <4>2. CASE k # m
        <5>1. k \in 0..m - 1
          BY <2>2, <4>2
        <5>2. G[k] = F[k]
          BY <4>2
        <5>3. F[k] = IF k = 0 THEN j ELSE AllStep(F[k - 1], MaxTrace + 1 - k)
          BY <3>3, <5>1
        <5>4. CASE k = 0
          BY <5>2, <5>3, <5>4
        <5>5. CASE k # 0
          <6>1. k - 1 \in 0..m /\ k - 1 # m
            BY <2>2, <4>2, <5>5
          <6>2. G[k - 1] = F[k - 1]
            BY <6>1
          <6> HIDE DEF G
          <6> QED
            BY <5>2, <5>3, <5>5, <6>2
        <5> QED
          BY <5>4, <5>5
      <4> QED
        BY <4>1, <4>2
    <3>5. G = [k \in 0..m |-> G[k]]
      OBVIOUS
    <3> HIDE DEF G
    <3>6. G = [k \in 0..m |-> IF k = 0 THEN j ELSE AllStep(G[k - 1], MaxTrace + 1 - k)]
      BY <3>4, <3>5
    <3>7. Rounds(m)
      BY <3>6
    <3> QED
      BY <2>2, <3>7
  <2> QED
    BY <2>3, <2>4
<1>2. Rounds(MaxTrace)
  BY <1>1 DEF TraceAssumption
<1> QED
  BY <1>2, Zenon DEF AllRun

\* One round of the loop, for trace n.
Cleared(i, g, n) ==
  /\ SameRecording(i, g) /\ i.no = g.no /\ i.freetrace = g.freetrace /\ i.mcarea = g.mcarea
  /\ i.held = IF g.held = n /\ g.trace[n] # Nil THEN 0 ELSE g.held
  /\ i.trace[n] = Nil
  /\ \A m \in Traces \ {n} :
       /\ m \in Saved(i) <=> m \in Saved(g)
       /\ m \notin Saved(g) => i.trace[m] = g.trace[m]
  /\ \A p \in Pcs : i.ins[p] # g.ins[p] => IsJit(g, p) /\ i.ins[p] = Orig

\* One round of lj_trace_flushall.
LEMMA AllStepFacts ==
  ASSUME TraceAssumption, NEW g \in JRec, Linked(g), g.patch = Nil, CurBegins(g),
         NEW n \in Traces, NEW i, i = AllStep(g, n)
  PROVE  i \in JRec /\ Linked(i) /\ Cleared(i, g, n)
<1>1. CASE g.trace[n] = Nil
  <2>1. i = g
    BY <1>1 DEF AllStep
  <2> QED
    BY <1>1, <2>1 DEF Cleared, SameRecording
<1>2. CASE g.trace[n] # Nil
  <2> DEFINE h == FlushTrace(g, n)
  <2>1. h \in JRec /\ Linked(h) /\ Unchained(h, g, n) /\ Shrunk(h, g)
    BY FlushTraceFacts
  <2>2. i = [h EXCEPT !.trace[n] = Nil, !.held = IF @ = n THEN 0 ELSE @]
    BY <1>2 DEF AllStep
  <2> HIDE DEF h
  <2>3. /\ i = [h EXCEPT !.trace = [h.trace EXCEPT ![n] = Nil], !.held = IF h.held = n THEN 0 ELSE h.held]
        /\ [h.trace EXCEPT ![n] = Nil] \in [Traces -> TraceRecs \cup {Nil, Cur}]
        /\ (IF h.held = n THEN 0 ELSE h.held) \in Numbers \cup {Nil}
        /\ \A m \in Traces : [h.trace EXCEPT ![n] = Nil][m] = IF m = n THEN Nil ELSE h.trace[m]
    BY <2>1, <2>2 DEF JRec, Numbers, TraceAssumption
  <2> DEFINE tr == [h.trace EXCEPT ![n] = Nil]
             he == IF h.held = n THEN 0 ELSE h.held
  <2>4. he = IF h.held = n THEN 0 ELSE h.held
    OBVIOUS
  <2> HIDE DEF tr, he
  <2>5. i = [h EXCEPT !.trace = tr, !.held = he]
    BY <2>3 DEF tr, he
  <2>6. tr \in [Traces -> TraceRecs \cup {Nil, Cur}] /\ he \in Numbers \cup {Nil}
    BY <2>3 DEF tr, he
  <2>7. /\ i \in JRec /\ SameRecording(i, h) /\ i.no = h.no /\ i.freetrace = h.freetrace
        /\ i.mcarea = h.mcarea /\ i.ins = h.ins /\ i.chain = h.chain
        /\ i.trace = tr /\ i.held = he
    <3>1. i \in JRec
      BY <2>1, <2>5, <2>6, SetTraceHeld
    <3>2. /\ SameRecording(i, h) /\ i.no = h.no /\ i.freetrace = h.freetrace
          /\ i.mcarea = h.mcarea /\ i.ins = h.ins /\ i.chain = h.chain
      BY <2>1, <2>5 DEF JRec, SameRecording
    <3>3. i.trace = tr /\ i.held = he
      BY <2>1, <2>5 DEF JRec
    <3> QED
      BY <3>1, <3>2, <3>3
  <2>8. \A m \in Traces : i.trace[m] = IF m = n THEN Nil ELSE h.trace[m]
    BY <2>3, <2>7 DEF tr
  <2>9. Saved(h) = Saved(g) /\ \A m \in Traces : m \notin Saved(g) => h.trace[m] = g.trace[m]
    BY <2>1 DEF Shrunk
  <2>10. \A m \in Traces \ {n} : m \in Saved(i) <=> m \in Saved(h)
    BY <2>8 DEF Saved
  <2>11. Linked(i)
    <3>1. ASSUME NEW f \in Protos, NEW m \in Owned(h, f)
          PROVE  m \in Traces \ {n} /\ m \in Saved(h)
      <4>1. Owned(h, f) = Owned(g, f) \ {n}
        BY <2>1 DEF Unchained
      <4> QED
        BY <2>1, <4>1, OwnedSaved
    <3>2. \A f \in Protos : \A m \in Owned(h, f) :
            /\ m \in Saved(i) /\ i.trace[m].pc = h.trace[m].pc
            /\ i.trace[m].root = h.trace[m].root /\ i.trace[m].nextroot = h.trace[m].nextroot
      BY <2>8, <2>10, <3>1
    <3>3. \A m \in Saved(i) : i.trace[m].root = 0 => i.trace[m].pc \in Pcs
      BY <2>1, <2>8, <2>10 DEF Linked, Saved
    <3>4. i.ins = h.ins /\ i.chain = h.chain /\ i.patch = h.patch
      BY <2>7 DEF SameRecording
    <3> QED
      BY <2>1, <2>7, <3>2, <3>3, <3>4, LinkedSame
  <2>12. SameElse(h, g) /\ \A p \in Pcs : h.ins[p] # g.ins[p] => IsJit(g, p) /\ h.ins[p] = Orig
    BY <2>1 DEF Unchained
  <2>13. SameRecording(i, g)
    BY <2>7, <2>12 DEF SameElse, SameRecording
  <2>14. i.no = g.no /\ i.freetrace = g.freetrace /\ i.mcarea = g.mcarea /\ h.held = g.held
    BY <2>7, <2>12 DEF SameElse
  <2> QED
    BY <1>2, <2>4, <2>7, <2>8, <2>9, <2>10, <2>11, <2>12, <2>13, <2>14 DEF Cleared
<1> QED
  BY <1>1, <1>2

\* What is left of j: no trace, and no bytecode that is patched.
Emptied(i, j) ==
  /\ SameRecording(i, j) /\ i.no = 0 /\ i.freetrace = 0 /\ i.mcarea = FALSE
  /\ i.held = IF j.held \in Traces THEN 0 ELSE j.held
  /\ \A n \in Traces : i.trace[n] = Nil
  /\ \A f \in Protos : i.chain[f] = 0
  /\ \A p \in Pcs : i.ins[p] = IF IsJit(j, p) THEN Orig ELSE j.ins[p]

\* lj_trace_flushall leaves no trace and no patched bytecode.
LEMMA FlushAllFacts ==
  ASSUME TraceAssumption, NEW j \in JRec, Linked(j), j.patch = Nil, CurBegins(j),
         j.held \in Traces => j.held \in Saved(j), NEW i, i = FlushAll(j)
  PROVE  i \in JRec /\ Linked(i) /\ Emptied(i, j)
<1> DEFINE Fl == AllRun(j)
<1>1. Fl = [k \in 0..MaxTrace |-> IF k = 0 THEN j ELSE AllStep(Fl[k - 1], MaxTrace + 1 - k)]
  BY AllRounds
<1>2. i = [Fl[MaxTrace] EXCEPT !.no = 0, !.freetrace = 0, !.mcarea = FALSE]
  BY DEF FlushAll, AllRun, AllStep
<1> HIDE DEF Fl
<1>3. MaxTrace \in Nat
  BY DEF TraceAssumption
<1> DEFINE Good(l, k) ==
             /\ l \in JRec /\ Linked(l) /\ SameRecording(l, j)
             /\ \A m \in Traces : m > MaxTrace - k => l.trace[m] = Nil
             /\ \A m \in Traces : m <= MaxTrace - k =>
                   /\ m \in Saved(l) <=> m \in Saved(j)
                   /\ m \notin Saved(j) => l.trace[m] = j.trace[m]
             /\ l.held = IF j.held \in Traces /\ j.held > MaxTrace - k THEN 0 ELSE j.held
             /\ \A p \in Pcs : l.ins[p] # j.ins[p] => IsJit(j, p) /\ l.ins[p] = Orig
           S == {k \in 0..MaxTrace : ~Good(Fl[k], k)}
<1>4. Good(Fl[0], 0)
  <2>1. Fl[0] = j
    BY <1>1, <1>3
  <2>2. \A m \in Traces : m <= MaxTrace /\ ~(m > MaxTrace)
    BY <1>3 DEF Traces
  <2> QED
    BY <1>3, <2>1, <2>2 DEF SameRecording
<1>5. ASSUME NEW k \in 1..MaxTrace, Good(Fl[k - 1], k - 1)
      PROVE  Good(Fl[k], k)
  <2> DEFINE g == Fl[k - 1]
             n == MaxTrace + 1 - k
             l == Fl[k]
  <2>1. l = AllStep(g, n)
    BY <1>1, <1>3
  <2>2. n \in Traces /\ n \in Nat /\ MaxTrace - k = n - 1 /\ MaxTrace - (k - 1) = n
    BY <1>3 DEF Traces
  <2>3. /\ g \in JRec /\ Linked(g) /\ SameRecording(g, j)
        /\ \A m \in Traces : m > n => g.trace[m] = Nil
        /\ \A m \in Traces : m <= n =>
              /\ m \in Saved(g) <=> m \in Saved(j)
              /\ m \notin Saved(j) => g.trace[m] = j.trace[m]
        /\ g.held = IF j.held \in Traces /\ j.held > n THEN 0 ELSE j.held
        /\ \A p \in Pcs : g.ins[p] # j.ins[p] => IsJit(j, p) /\ g.ins[p] = Orig
    BY <1>5, <2>2
  <2>4. \A m \in Traces : m \in Nat /\ m # 0
    BY DEF Traces
  <2> HIDE DEF g, n, l
  <2>5. g.patch = Nil /\ CurBegins(g)
    <3>1. \A m \in Traces : g.trace[m] = Cur => j.trace[m] = Cur
      BY <2>2, <2>3, <2>4 DEF Saved, TraceAssumption
    <3> QED
      BY <2>3, <3>1 DEF CurBegins, SameRecording
  <2>6. l \in JRec /\ Linked(l) /\ Cleared(l, g, n)
    BY <2>1, <2>2, <2>3, <2>5, AllStepFacts
  <2>c. \A m \in Traces \ {n} :
          /\ m \in Saved(l) <=> m \in Saved(g)
          /\ m \notin Saved(g) => l.trace[m] = g.trace[m]
    BY <2>6 DEF Cleared
  <2>7. SameRecording(l, j)
    BY <2>3, <2>6 DEF Cleared, SameRecording
  <2>8. \A m \in Traces : m > n - 1 => l.trace[m] = Nil
    <3>1. \A m \in Traces : m > n => m \notin Saved(g) /\ l.trace[m] = g.trace[m]
      <4>1. ASSUME NEW m \in Traces, m > n
            PROVE  m \notin Saved(g) /\ l.trace[m] = g.trace[m]
        <5>1. m \in Traces \ {n} /\ g.trace[m] = Nil
          BY <2>2, <2>3, <2>4, <4>1
        <5>2. m \notin Saved(g)
          BY <5>1 DEF Saved
        <5> QED
          BY <2>c, <5>1, <5>2
      <4> QED
        BY <4>1
    <3>2. \A m \in Traces : m > n - 1 => m = n \/ m > n
      BY <2>2, <2>4
    <3> QED
      BY <2>3, <2>6, <3>1, <3>2 DEF Cleared
  <2>9. \A m \in Traces : m <= n - 1 =>
          /\ m \in Saved(l) <=> m \in Saved(j)
          /\ m \notin Saved(j) => l.trace[m] = j.trace[m]
    <3>1. \A m \in Traces : m <= n - 1 => m \in Traces \ {n} /\ m <= n
      BY <2>2, <2>4
    <3>2. ASSUME NEW m \in Traces, m <= n - 1
          PROVE  /\ m \in Saved(l) <=> m \in Saved(j)
                 /\ m \notin Saved(j) => l.trace[m] = j.trace[m]
      <4>1. m \in Traces \ {n} /\ m <= n
        BY <3>1, <3>2
      <4>2. /\ m \in Saved(l) <=> m \in Saved(g)
            /\ m \notin Saved(g) => l.trace[m] = g.trace[m]
        BY <2>c, <4>1
      <4> QED
        BY <2>3, <4>1, <4>2
    <3> QED
      BY <3>2
  <2>10. l.held = IF j.held \in Traces /\ j.held > n - 1 THEN 0 ELSE j.held
    <3>1. l.held = IF g.held = n /\ g.trace[n] # Nil THEN 0 ELSE g.held
      BY <2>6 DEF Cleared
    <3>2. CASE j.held = n
      <4>1. n \in Saved(g) /\ g.held = n
        BY <2>2, <2>3, <3>2
      <4> QED
        BY <2>2, <3>1, <3>2, <4>1 DEF Saved
    <3>3. CASE j.held # n
      <4>1. g.held # n
        BY <2>2, <2>3, <2>4, <3>3
      <4> QED
        <5>1. l.held = g.held
          BY <3>1, <4>1
        <5>2. ASSUME NEW m \in Traces, m # n
              PROVE  m > n <=> m > n - 1
          <6>1. m \in Nat /\ n \in Nat
            BY <2>2, <2>4
          <6> QED
            BY <5>2, <6>1
        <5> QED
          BY <2>3, <3>3, <5>1, <5>2
    <3> QED
      BY <3>2, <3>3
  <2>11. \A p \in Pcs : l.ins[p] # j.ins[p] => IsJit(j, p) /\ l.ins[p] = Orig
    BY <2>3, <2>6 DEF Cleared, IsJit, Orig
  <2>12. Good(l, k)
    BY <2>2, <2>6, <2>7, <2>8, <2>9, <2>10, <2>11
  <2> HIDE DEF Good
  <2> QED
    BY <2>12 DEF l
<1>6. S = {}
  <2> SUFFICES ASSUME S # {}
               PROVE  FALSE
    OBVIOUS
  <2> HIDE DEF Good
  <2>1. PICK m \in S : \A x \in S : m <= x
    <3>1. S \in SUBSET Nat
      OBVIOUS
    <3> HIDE DEF S
    <3> QED
      BY <3>1, LeastExists
  <2>2. m \in 1..MaxTrace
    BY <1>3, <1>4
  <2>3. Good(Fl[m - 1], m - 1)
    BY <1>3, <2>1, <2>2
  <2> QED
    BY <1>5, <2>2, <2>3
<1> DEFINE l == Fl[MaxTrace]
<1>7. /\ l \in JRec /\ Linked(l) /\ SameRecording(l, j)
      /\ \A m \in Traces : l.trace[m] = Nil
      /\ l.held = IF j.held \in Traces THEN 0 ELSE j.held
      /\ \A p \in Pcs : l.ins[p] # j.ins[p] => IsJit(j, p) /\ l.ins[p] = Orig
  <2>1. Good(Fl[MaxTrace], MaxTrace)
    <3> HIDE DEF Good
    <3> QED
      BY <1>3, <1>6
  <2>2. \A m \in Traces : m > MaxTrace - MaxTrace
    BY <1>3 DEF Traces
  <2> QED
    BY <2>1, <2>2
<1> HIDE DEF l
<1>8. i = [l EXCEPT !.no = 0, !.freetrace = 0, !.mcarea = FALSE]
  BY <1>2 DEF l
<1>9. /\ i \in JRec /\ SameRecording(i, l) /\ i.no = 0 /\ i.freetrace = 0 /\ i.mcarea = FALSE
      /\ i.trace = l.trace /\ i.chain = l.chain /\ i.ins = l.ins /\ i.held = l.held
  <2>1. 0 \in Numbers /\ 0 \in 0..(MaxTrace + 1)
    BY <1>3 DEF Numbers
  <2>2. i \in JRec
    BY <1>7, <1>8, <2>1, SetEmpty
  <2>3. SameRecording(i, l)
    BY <1>7, <1>8 DEF JRec, SameRecording
  <2>4. /\ i.no = 0 /\ i.freetrace = 0 /\ i.mcarea = FALSE
        /\ i.trace = l.trace /\ i.chain = l.chain /\ i.ins = l.ins /\ i.held = l.held
    BY <1>7, <1>8 DEF JRec
  <2> QED
    BY <2>2, <2>3, <2>4
<1>10. Saved(i) = {} /\ Saved(l) = {}
  BY <1>7, <1>9 DEF Saved
<1>11. \A f \in Protos : Owned(l, f) = {}
  BY <1>7, <1>10, OwnedSaved
<1>12. i.patch = l.patch
  BY <1>9 DEF SameRecording
<1>13. Linked(i)
  BY <1>7, <1>9, <1>10, <1>11, <1>12, LinkedSame
<1>14. \A f \in Protos : l.chain[f] = 0
  BY <1>7, <1>11 DEF Linked, Path
<1>15. \A p \in Pcs : ~IsJit(l, p)
  BY <1>7, <1>10 DEF Linked, Begins
<1>16. \A p \in Pcs : l.ins[p] = IF IsJit(j, p) THEN Orig ELSE j.ins[p]
  BY <1>7, <1>15 DEF IsJit
<1>17. SameRecording(i, j)
  BY <1>7, <1>9 DEF SameRecording
<1> QED
  BY <1>7, <1>9, <1>13, <1>14, <1>16, <1>17 DEF Emptied

-----------------------------------------------------------------------------
\* What is known of trace objects.

Rt(j, n) == IF j.trace[n].root = 0 THEN n ELSE j.trace[n].root

\* All that is marked from the chains and the frame exists.
Kept(j, M) ==
  /\ \A f \in Protos : j.chain[f] \in M \cup {0}
  /\ j.held \in M \cup {0, Nil}
  /\ \A n \in M : /\ n \in Saved(j)
                  /\ j.trace[n].link \in M \cup {0}
                  /\ j.trace[n].nextroot \in M \cup {0}
                  /\ j.trace[n].nextside \in M \cup {0}

\* All that can be entered from the chains, the frame and the running trace r exists,
\* and so does what it belongs to.
Enterable(j, r, A) ==
  /\ \A f \in Protos : j.chain[f] \in A \cup {0}
  /\ r \in A \cup {0}
  /\ j.held \in Saved(j) => j.trace[j.held].link \in A \cup {0, j.held}
  /\ \A n \in A : /\ n \in Saved(j)
                  /\ j.trace[n].link \in A \cup {0}
                  /\ j.trace[n].nextroot \in A \cup {0}
                  /\ j.trace[n].nextside \in A \cup {0}
                  /\ j.trace[n].root \in A \cup {0}
                  /\ j.trace[n].exit \in A \cup {0}

\* Trace e is in the list of side traces of root trace r.
OnSides(j, A, r, e) ==
  \A T \in SUBSET A : r \in T /\ (\A m \in T : j.trace[m].nextside \in T \cup {0}) => e \in T

LinkOK(j, n) == \/ j.trace[n].link \in {0, n}
                \/ j.trace[j.trace[n].link].root = 0

\* These traces refer to each other as they should: links and chains lead to root
\* traces, lists of side traces and exits to traces of the same root.
Wired(j, A) ==
  \A n \in A :
    /\ LinkOK(j, n)
    /\ j.trace[n].nextroot # 0 => j.trace[j.trace[n].nextroot].root = 0
    /\ j.trace[n].nextside # 0 => j.trace[j.trace[n].nextside].root = Rt(j, n)
    /\ j.trace[n].root # 0 => j.trace[j.trace[n].root].root = 0
    /\ j.trace[n].exit # 0 => OnSides(j, A, Rt(j, n), j.trace[n].exit)

Live(j, r) ==
  /\ \E M \in SUBSET Traces : Kept(j, M)
  /\ \E A \in SUBSET Traces : Enterable(j, r, A) /\ Wired(j, A)
  /\ j.held \in Saved(j) => LinkOK(j, j.held)

\* The slot of the recording, and no free one below the hint.
Slots(j) ==
  /\ \A n \in Traces : j.trace[n] = Cur <=> j.no = n
  /\ \A n \in Traces : n < j.freetrace => j.trace[n] # Nil

Heap(j, r) ==
  /\ Linked(j) /\ Live(j, r) /\ Slots(j)
  /\ \A f \in j.nojit : j.chain[f] = 0
  /\ Saved(j) # {} => j.mcarea


-----------------------------------------------------------------------------
\* What is live stays live.

\* Trace numbers are neither 0 nor Nil.
LEMMA TraceNumbers ==
  ASSUME TraceAssumption
  PROVE  /\ 0 \notin Traces /\ Nil \notin Traces /\ 0 \in Numbers
         /\ \A n \in Traces : n \in Numbers /\ n # 0 /\ n # Nil
         /\ \A n \in Numbers : n # 0 => n \in Traces
BY DEF Traces, Numbers, TraceAssumption

\* The root of a trace that exists is a trace.
LEMMA RootNumber ==
  ASSUME TraceAssumption, NEW j \in JRec, NEW n \in Saved(j)
  PROVE  /\ Rt(j, n) \in Traces /\ n \in Traces /\ n # 0 /\ Rt(j, n) # 0
         /\ j.trace[n].root \in Numbers /\ j.trace[n].link \in Numbers
<1>1. n \in Traces /\ n # 0 /\ j.trace[n] \in TraceRecs
  BY SavedIsRecord
<1>2. j.trace[n].root \in Numbers /\ j.trace[n].link \in Numbers
  BY <1>1 DEF TraceRecs, Numbers
<1> QED
  BY <1>1, <1>2, TraceNumbers DEF Rt

\* A frame holds a trace that exists.
LEMMA HeldSaved ==
  ASSUME TraceAssumption, NEW j, NEW r, Live(j, r), j.held \in Traces
  PROVE  j.held \in Saved(j)
BY TraceNumbers DEF Live, Kept

\* The traces that may be entered are as well connected in state i as in state j.
LEMMA WiredSame ==
  ASSUME NEW i, NEW j, NEW r, NEW A, Enterable(j, r, A), Wired(j, A),
         \A n \in A : i.trace[n] = j.trace[n]
  PROVE  Wired(i, A)
<1> SUFFICES ASSUME NEW n \in A
             PROVE  /\ LinkOK(i, n)
                    /\ i.trace[n].nextroot # 0 => i.trace[i.trace[n].nextroot].root = 0
                    /\ i.trace[n].nextside # 0 =>
                         i.trace[i.trace[n].nextside].root = Rt(i, n)
                    /\ i.trace[n].root # 0 => i.trace[i.trace[n].root].root = 0
                    /\ i.trace[n].exit # 0 => OnSides(i, A, Rt(i, n), i.trace[n].exit)
  BY DEF Wired
<1>1. i.trace[n] = j.trace[n] /\ Rt(i, n) = Rt(j, n)
  BY DEF Rt
<1>2. /\ j.trace[n].link \in A \cup {0} /\ j.trace[n].nextroot \in A \cup {0}
      /\ j.trace[n].nextside \in A \cup {0} /\ j.trace[n].root \in A \cup {0}
  BY DEF Enterable
<1>3. \A e : OnSides(j, A, Rt(j, n), e) => OnSides(i, A, Rt(j, n), e)
  BY DEF OnSides
<1>4. LinkOK(i, n)
  BY <1>1, <1>2 DEF Wired, LinkOK
<1> QED
  BY <1>1, <1>2, <1>3, <1>4 DEF Wired

\* Only slots of other traces differ.
LEMMA LiveSame ==
  ASSUME TraceAssumption, NEW i, NEW j, NEW r, Live(j, r),
         i.chain = j.chain, i.held = j.held,
         \A n \in Saved(j) : n \in Saved(i) /\ i.trace[n] = j.trace[n]
  PROVE  Live(i, r)
<1>1. PICK M \in SUBSET Traces : Kept(j, M)
  BY DEF Live
<1>2. PICK A \in SUBSET Traces : Enterable(j, r, A) /\ Wired(j, A)
  BY DEF Live
<1>3. Kept(i, M)
  BY <1>1 DEF Kept
<1>4. i.held \in Saved(i) => i.held \in Saved(j)
  BY HeldSaved DEF Saved
<1>5. Enterable(i, r, A)
  BY <1>2, <1>4 DEF Enterable
<1>6. Wired(i, A)
  <2>1. \A n \in A : i.trace[n] = j.trace[n]
    BY <1>2 DEF Enterable
  <2> QED
    BY <1>2, <2>1, WiredSame
<1>7. i.held \in Saved(i) => LinkOK(i, i.held)
  <2>1. SUFFICES ASSUME i.held \in Saved(i)
                 PROVE  LinkOK(i, i.held)
    OBVIOUS
  <2>2. LinkOK(j, i.held) /\ i.trace[i.held] = j.trace[i.held]
    BY <1>4, <2>1 DEF Live
  <2>3. j.trace[i.held].link \in A \cup {0, i.held}
    BY <1>2, <1>4, <2>1 DEF Enterable
  <2>4. \A n \in A : i.trace[n] = j.trace[n]
    BY <1>2 DEF Enterable
  <2> QED
    BY <2>2, <2>3, <2>4 DEF LinkOK
<1> QED
  BY <1>3, <1>5, <1>6, <1>7 DEF Live

\* Chains get shorter.
LEMMA LiveShrunk ==
  ASSUME TraceAssumption, NEW i \in JRec, NEW j \in JRec, NEW r, Live(j, r), Shrunk(i, j)
  PROVE  Live(i, r)
<1>1. PICK M \in SUBSET Traces : Kept(j, M)
  BY DEF Live
<1>2. PICK A \in SUBSET Traces : Enterable(j, r, A) /\ Wired(j, A)
  BY DEF Live
<1>3. Saved(i) = Saved(j) /\ i.held = j.held
  BY DEF Shrunk, SameElse
<1>4. ASSUME NEW n \in Saved(j)
      PROVE  /\ SameTrace(i.trace[n], j.trace[n]) /\ n \in Traces
             /\ NextRoot(i)[n] = i.trace[n].nextroot /\ NextRoot(j)[n] = j.trace[n].nextroot
  BY <1>3 DEF Shrunk, Saved, NextRoot
<1>5. ASSUME NEW W \in SUBSET Traces, \A m \in W : NextRoot(j)[m] \in W \cup {0}
      PROVE  /\ \A m \in Traces : NextRoot(j)[m] \in W \cup {0} => NextRoot(i)[m] \in W \cup {0}
             /\ \A f \in Protos : j.chain[f] \in W \cup {0} => i.chain[f] \in W \cup {0}
  BY <1>5 DEF Shrunk
<1>6. Kept(i, M)
  <2>1. \A n \in M : n \in Saved(j) /\ NextRoot(j)[n] \in M \cup {0}
    BY <1>1, <1>4 DEF Kept
  <2>2. /\ \A n \in M : NextRoot(i)[n] \in M \cup {0}
        /\ \A f \in Protos : j.chain[f] \in M \cup {0} => i.chain[f] \in M \cup {0}
    BY <2>1, <1>5
  <2> QED
    BY <1>1, <1>3, <1>4, <2>1, <2>2 DEF Kept, SameTrace
<1>7. \A n \in A : n \in Saved(j) /\ NextRoot(j)[n] \in A \cup {0}
  BY <1>2, <1>4 DEF Enterable
<1>8. Enterable(i, r, A)
  <2>1. /\ \A n \in A : NextRoot(i)[n] \in A \cup {0}
        /\ \A f \in Protos : j.chain[f] \in A \cup {0} => i.chain[f] \in A \cup {0}
    BY <1>7, <1>5
  <2> QED
    BY <1>2, <1>3, <1>4, <1>7, <2>1 DEF Enterable, SameTrace
<1>9. \A n \in Saved(j) : Rt(i, n) = Rt(j, n) /\ i.trace[n].link = j.trace[n].link
                          /\ i.trace[n].root = j.trace[n].root
                          /\ i.trace[n].nextside = j.trace[n].nextside
                          /\ i.trace[n].exit = j.trace[n].exit
  BY <1>4 DEF Rt, SameTrace
<1>10. \A n : LinkOK(j, n) /\ n \in Saved(j) /\ (j.trace[n].link \in A \cup {0, n}) => LinkOK(i, n)
  BY <1>7, <1>9 DEF LinkOK
<1>11. Wired(i, A)
  <2> SUFFICES ASSUME NEW n \in A
               PROVE  /\ LinkOK(i, n)
                      /\ i.trace[n].nextroot # 0 => i.trace[i.trace[n].nextroot].root = 0
                      /\ i.trace[n].nextside # 0 =>
                           i.trace[i.trace[n].nextside].root = Rt(i, n)
                      /\ i.trace[n].root # 0 => i.trace[i.trace[n].root].root = 0
                      /\ i.trace[n].exit # 0 => OnSides(i, A, Rt(i, n), i.trace[n].exit)
    BY DEF Wired
  <2>1. /\ n \in Saved(j) /\ j.trace[n].link \in A \cup {0}
        /\ j.trace[n].nextside \in A \cup {0} /\ j.trace[n].root \in A \cup {0}
    BY <1>2 DEF Enterable
  <2>2. LinkOK(i, n)
    BY <1>2, <1>10, <2>1 DEF Wired
  <2>3. i.trace[n].nextroot # 0 => i.trace[i.trace[n].nextroot].root = 0
    <3> DEFINE W == {m \in A : j.trace[m].root = 0}
    <3>1. \A m \in A : NextRoot(j)[m] \in W \cup {0}
      BY <1>2, <1>4, <1>7 DEF Wired
    <3>2. W \in SUBSET Traces
      OBVIOUS
    <3>3. \A m \in W : NextRoot(j)[m] \in W \cup {0}
      BY <3>1
    <3>4. NextRoot(i)[n] \in W \cup {0}
      <4> HIDE DEF W
      <4> QED
        BY <1>5, <3>1, <3>2, <3>3
    <3> QED
      BY <1>4, <1>7, <1>9, <2>1, <3>4
  <2>4. \A e : OnSides(j, A, Rt(j, n), e) => OnSides(i, A, Rt(j, n), e)
    BY <1>7, <1>9 DEF OnSides
  <2>5. i.trace[n].nextside # 0 => i.trace[i.trace[n].nextside].root = Rt(i, n)
    BY <1>2, <1>7, <1>9, <2>1 DEF Wired
  <2>6. i.trace[n].root # 0 => i.trace[i.trace[n].root].root = 0
    BY <1>2, <1>7, <1>9, <2>1 DEF Wired
  <2>7. i.trace[n].exit # 0 => OnSides(i, A, Rt(i, n), i.trace[n].exit)
    BY <1>2, <1>9, <2>1, <2>4 DEF Wired
  <2> QED
    BY <2>2, <2>3, <2>5, <2>6, <2>7
<1>12. i.held \in Saved(i) => LinkOK(i, i.held)
  BY <1>2, <1>3, <1>10 DEF Live, Enterable
<1> QED
  BY <1>6, <1>8, <1>11, <1>12 DEF Live

\* Nothing is left.
LEMMA LiveEmptied ==
  ASSUME TraceAssumption, NEW i, NEW j \in JRec, Emptied(i, j)
  PROVE  Live(i, 0)
<1>1. i.held \in {0, Nil}
  BY TraceNumbers DEF Emptied, JRec
<1>2. i.held \notin Saved(i)
  BY <1>1, TraceNumbers DEF Saved
<1>3. Kept(i, {}) /\ Enterable(i, 0, {}) /\ Wired(i, {})
  BY <1>1, <1>2 DEF Kept, Enterable, Wired, Emptied
<1> QED
  BY <1>2, <1>3 DEF Live


-----------------------------------------------------------------------------
\* Machine code is entered and left.

\* What starts from patched bytecode is found along the chains.
LEMMA OwnedFound ==
  ASSUME TraceAssumption, NEW j \in JRec, Linked(j), NEW f \in Protos,
         NEW W, j.chain[f] \in W \cup {0},
         \A m \in W : m \in Saved(j) /\ j.trace[m].nextroot \in W \cup {0}
  PROVE  Owned(j, f) \subseteq W
<1>1. Path(Owned(j, f), j.chain[f], NextRoot(j))
  BY DEF Linked
<1> DEFINE T == Owned(j, f) \cap W
<1>2. T \in SUBSET Owned(j, f)
  OBVIOUS
<1>3. j.chain[f] \in T \cup {0}
  BY <1>1 DEF Path
<1>4. ASSUME NEW m \in T
      PROVE  NextRoot(j)[m] \in T \cup {0}
  <2>1. m \in Saved(j) /\ m \in Traces
    BY OwnedSaved
  <2>2. NextRoot(j)[m] = j.trace[m].nextroot
    BY <2>1 DEF NextRoot
  <2> QED
    BY <1>1, <2>2 DEF Path
<1> HIDE DEF T
<1>5. T = Owned(j, f)
  BY <1>1, <1>2, <1>3, <1>4 DEF Path
<1> QED
  BY <1>5 DEF T

\* A trace that bytecode is patched to may be entered.
LEMMA LiveEnter ==
  ASSUME TraceAssumption, NEW j \in JRec, Linked(j), NEW r, Live(j, r),
         NEW f \in Protos, NEW n \in Owned(j, f)
  PROVE  Live(j, n)
<1>1. PICK A \in SUBSET Traces : Enterable(j, r, A) /\ Wired(j, A)
  BY DEF Live
<1>2. n \in A
  BY <1>1, OwnedFound DEF Enterable
<1>3. Enterable(j, n, A)
  BY <1>1, <1>2 DEF Enterable
<1> QED
  BY <1>1, <1>3 DEF Live

\* Machine code is left.
LEMMA LiveLeave ==
  ASSUME NEW j, NEW r, Live(j, r)
  PROVE  Live(j, 0)
BY DEF Live, Enterable

\* A link or an exit is followed.
LEMMA LiveJump ==
  ASSUME TraceAssumption, NEW j, NEW r \in Traces, Live(j, r),
         NEW s \in {j.trace[r].link, j.trace[r].exit}
  PROVE  Live(j, s)
<1>1. PICK A \in SUBSET Traces : Enterable(j, r, A) /\ Wired(j, A)
  BY DEF Live
<1>2. s \in A \cup {0}
  BY <1>1, TraceNumbers DEF Enterable
<1>3. Enterable(j, s, A)
  BY <1>1, <1>2 DEF Enterable
<1> QED
  BY <1>1, <1>3 DEF Live

\* The trace that runs exists, and so does its root.
LEMMA LiveRunning ==
  ASSUME TraceAssumption, NEW j, NEW r \in Traces, Live(j, r)
  PROVE  r \in Saved(j) /\ Rt(j, r) \in Saved(j) /\ j.trace[Rt(j, r)].root = 0
<1>1. PICK A \in SUBSET Traces : Enterable(j, r, A) /\ Wired(j, A)
  BY DEF Live
<1>2. r \in A
  BY <1>1, TraceNumbers DEF Enterable
<1> QED
  BY <1>1, <1>2 DEF Enterable, Wired, Rt

\* A stitched trace calls a C function.
LEMMA LiveHold ==
  ASSUME TraceAssumption, NEW i, NEW j, NEW r \in Traces, Live(j, r),
         i.trace = j.trace, i.chain = j.chain, j.held = Nil, i.held = r
  PROVE  Live(i, 0)
<1>1. PICK M \in SUBSET Traces : Kept(j, M)
  BY DEF Live
<1>2. PICK A \in SUBSET Traces : Enterable(j, r, A) /\ Wired(j, A)
  BY DEF Live
<1>3. r \in A
  BY <1>2, TraceNumbers DEF Enterable
<1>4. Saved(i) = Saved(j)
  BY DEF Saved
<1>5. Kept(i, M \cup A)
  BY <1>1, <1>2, <1>3, <1>4 DEF Kept, Enterable
<1>6. Enterable(i, 0, A)
  BY <1>2, <1>3, <1>4 DEF Enterable
<1>7. Wired(i, A)
  BY <1>2, WiredSame
<1>8. LinkOK(i, r)
  BY <1>2, <1>3 DEF Wired, LinkOK
<1> QED
  BY <1>5, <1>6, <1>7, <1>8 DEF Live

\* It returns: cont_stitch goes on with the trace that the one in the frame links to.
LEMMA LiveReturn ==
  ASSUME TraceAssumption, NEW i, NEW j, Live(j, 0),
         i.trace = j.trace, i.chain = j.chain, i.held = Nil
  PROVE  /\ Live(i, 0)
         /\ j.held \in Traces /\ j.trace[j.held].link # j.held => Live(i, j.trace[j.held].link)
<1>1. PICK M \in SUBSET Traces : Kept(j, M)
  BY DEF Live
<1>2. PICK A \in SUBSET Traces : Enterable(j, 0, A) /\ Wired(j, A)
  BY DEF Live
<1>3. Saved(i) = Saved(j) /\ Nil \notin Saved(j)
  BY TraceNumbers DEF Saved
<1>4. Kept(i, M)
  BY <1>1, <1>3 DEF Kept
<1>5. Wired(i, A)
  BY <1>2, WiredSame
<1>6. ASSUME NEW s \in A \cup {0}
      PROVE  Enterable(i, s, A)
  BY <1>2, <1>3 DEF Enterable
<1>7. j.held \in Traces => j.trace[j.held].link \in A \cup {0, j.held}
  BY <1>2, HeldSaved DEF Enterable
<1>8. \A s \in A \cup {0} : Live(i, s)
  BY <1>3, <1>4, <1>5, <1>6 DEF Live
<1> QED
  BY <1>7, <1>8

\* A stitched trace is linked to itself.
LEMMA LiveSelf ==
  ASSUME TraceAssumption, NEW i, NEW j, NEW r, Live(j, r), NEW n \in Saved(j),
         i.chain = j.chain, i.held = j.held, Saved(i) = Saved(j),
         \A m \in Saved(j) :
           /\ i.trace[m].link = IF m = n THEN n ELSE j.trace[m].link
           /\ i.trace[m].nextroot = j.trace[m].nextroot
           /\ i.trace[m].nextside = j.trace[m].nextside
           /\ i.trace[m].root = j.trace[m].root /\ i.trace[m].exit = j.trace[m].exit
  PROVE  Live(i, r)
<1>1. PICK M \in SUBSET Traces : Kept(j, M)
  BY DEF Live
<1>2. PICK A \in SUBSET Traces : Enterable(j, r, A) /\ Wired(j, A)
  BY DEF Live
<1>3. Kept(i, M)
  BY <1>1 DEF Kept
<1>4. Enterable(i, r, A)
  BY <1>2 DEF Enterable
<1>5. \A m \in Saved(j) : Rt(i, m) = Rt(j, m)
  BY DEF Rt
<1>6. \A m \in A : m \in Saved(j)
  BY <1>2 DEF Enterable
<1>7. ASSUME NEW m \in Saved(j), LinkOK(j, m), j.trace[m].link \in A \cup {0, m}
      PROVE  LinkOK(i, m)
  BY <1>6, <1>7 DEF LinkOK
<1>8. Wired(i, A)
  <2> SUFFICES ASSUME NEW m \in A
               PROVE  /\ LinkOK(i, m)
                      /\ i.trace[m].nextroot # 0 => i.trace[i.trace[m].nextroot].root = 0
                      /\ i.trace[m].nextside # 0 =>
                           i.trace[i.trace[m].nextside].root = Rt(i, m)
                      /\ i.trace[m].root # 0 => i.trace[i.trace[m].root].root = 0
                      /\ i.trace[m].exit # 0 => OnSides(i, A, Rt(i, m), i.trace[m].exit)
    BY DEF Wired
  <2>1. /\ j.trace[m].link \in A \cup {0} /\ j.trace[m].nextroot \in A \cup {0}
        /\ j.trace[m].nextside \in A \cup {0} /\ j.trace[m].root \in A \cup {0}
    BY <1>2 DEF Enterable
  <2>2. LinkOK(i, m)
    BY <1>2, <1>6, <1>7, <2>1 DEF Wired
  <2>3. \A e : OnSides(j, A, Rt(j, m), e) => OnSides(i, A, Rt(j, m), e)
    BY <1>6 DEF OnSides
  <2>4. m \in Saved(j) /\ Rt(i, m) = Rt(j, m)
    BY <1>5, <1>6
  <2>5. /\ i.trace[m].nextroot # 0 => i.trace[i.trace[m].nextroot].root = 0
        /\ i.trace[m].nextside # 0 => i.trace[i.trace[m].nextside].root = Rt(i, m)
        /\ i.trace[m].root # 0 => i.trace[i.trace[m].root].root = 0
    BY <1>2, <1>6, <2>1, <2>4 DEF Wired
  <2>6. i.trace[m].exit # 0 => OnSides(i, A, Rt(i, m), i.trace[m].exit)
    BY <1>2, <2>3, <2>4 DEF Wired
  <2> QED
    BY <2>2, <2>5, <2>6
<1>9. i.held \in Saved(i) => LinkOK(i, i.held)
  BY <1>2, <1>7 DEF Live, Enterable
<1> QED
  BY <1>3, <1>4, <1>8, <1>9 DEF Live


-----------------------------------------------------------------------------
\* The collector takes what is not marked.

\* A trace that is not marked may go: what can be entered is marked.
LEMMA LiveCollect ==
  ASSUME TraceAssumption, NEW i, NEW j \in JRec, Live(j, 0), Linked(j),
         NEW R \in SUBSET Traces,
         \A f \in Protos : j.chain[f] \in R \cup {0},
         j.held \in R \cup {0, Nil},
         \A m \in R : m \in Saved(j) =>
           /\ j.trace[m].link \in R \cup {0} /\ j.trace[m].nextroot \in R \cup {0}
           /\ j.trace[m].nextside \in R \cup {0},
         NEW n \in Traces \ R, i.chain = j.chain, i.held = j.held,
         Saved(i) = Saved(j) \ {n}, \A m \in Saved(i) : i.trace[m] = j.trace[m]
  PROVE  Live(i, 0)
<1>1. PICK M \in SUBSET Traces : Kept(j, M)
  BY DEF Live
<1>2. PICK A \in SUBSET Traces : Enterable(j, 0, A) /\ Wired(j, A)
  BY DEF Live
<1>3. Kept(i, M \cap R)
  BY <1>1 DEF Kept
<1> DEFINE B == {m \in A : m \in R /\ Rt(j, m) \in R}
<1>4. ASSUME NEW m \in B
      PROVE  /\ m \in A /\ m \in R /\ Rt(j, m) \in R /\ m \in Saved(j) /\ m \in Saved(i)
             /\ m # 0 /\ Rt(j, m) # 0 /\ i.trace[m] = j.trace[m] /\ Rt(i, m) = Rt(j, m)
  <2>1. m \in A /\ m \in R /\ Rt(j, m) \in R /\ m \in Saved(j)
    BY <1>2 DEF Enterable
  <2>2. m \in Saved(i) /\ i.trace[m] = j.trace[m]
    BY <2>1
  <2> QED
    BY <2>1, <2>2, RootNumber DEF Rt
<1>5. ASSUME NEW m \in A, m \in R, j.trace[m].root = 0
      PROVE  m \in B
  BY <1>5 DEF Rt
<1>6. ASSUME NEW m \in A, m \in R, NEW k \in B, j.trace[m].root = Rt(j, k)
      PROVE  m \in B
  BY <1>4, <1>6 DEF Rt
<1>7. B \in SUBSET Traces /\ B \subseteq A
  OBVIOUS
<1> HIDE DEF B
<1>8. ASSUME NEW f \in Protos
      PROVE  j.chain[f] \in B \cup {0}
  <2>1. j.chain[f] \in A \cup {0} /\ j.chain[f] \in R \cup {0}
    BY <1>2 DEF Enterable
  <2>2. j.chain[f] \in Owned(j, f) \cup {0}
    BY DEF Linked, Path
  <2>3. j.chain[f] # 0 => j.trace[j.chain[f]].root = 0
    BY <2>2, OwnedSaved
  <2> QED
    BY <1>5, <2>1, <2>3
<1>9. ASSUME NEW h \in Saved(j), h \in B \/ h = j.held
      PROVE  /\ j.trace[h].link \in B \cup {0, h}
             /\ LinkOK(j, h)
  <2>1. j.trace[h].link \in A \cup {0, h} /\ LinkOK(j, h)
    BY <1>2, <1>4, <1>9 DEF Live, Enterable, Wired
  <2>2. h \in R /\ j.trace[h].link \in R \cup {0}
    BY <1>4, <1>9, TraceNumbers DEF Saved
  <2> QED
    BY <1>5, <2>1, <2>2 DEF LinkOK
<1>10. ASSUME NEW m \in B
       PROVE  /\ j.trace[m].nextroot \in B \cup {0}
              /\ j.trace[m].nextside \in B \cup {0}
              /\ j.trace[m].root \in B \cup {0}
  <2>1. /\ j.trace[m].nextroot \in A \cup {0} /\ j.trace[m].nextside \in A \cup {0}
        /\ j.trace[m].root \in A \cup {0}
    BY <1>2, <1>4 DEF Enterable
  <2>2. j.trace[m].nextroot \in R \cup {0} /\ j.trace[m].nextside \in R \cup {0}
    BY <1>4
  <2>3. j.trace[m].nextroot \in B \cup {0}
    BY <1>2, <1>4, <1>5, <2>1, <2>2 DEF Wired
  <2>4. j.trace[m].nextside \in B \cup {0}
    BY <1>2, <1>4, <1>6, <2>1, <2>2 DEF Wired
  <2>5. j.trace[m].root \in B \cup {0}
    BY <1>2, <1>4, <1>5, <2>1 DEF Wired, Rt
  <2> QED
    BY <2>3, <2>4, <2>5
<1>11. ASSUME NEW m \in B, j.trace[m].exit # 0
       PROVE  j.trace[m].exit \in B
  <2> DEFINE T == {k \in B : Rt(j, k) = Rt(j, m)}
  <2>1. T \in SUBSET A
    BY <1>7
  <2>2. Rt(j, m) \in T
    <3>1. Rt(j, m) \in B
      BY <1>4, <1>10 DEF Rt
    <3>2. j.trace[Rt(j, m)].root = 0
      BY <1>2, <1>4 DEF Wired, Rt
    <3> QED
      BY <3>1, <3>2 DEF Rt
  <2>3. ASSUME NEW k \in T
        PROVE  j.trace[k].nextside \in T \cup {0}
    <3>1. k \in B /\ Rt(j, k) = Rt(j, m)
      OBVIOUS
    <3>2. j.trace[k].nextside \in B \cup {0} /\ k \in A /\ Rt(j, k) # 0
      BY <1>4, <1>10, <3>1
    <3>3. j.trace[k].nextside # 0 => j.trace[j.trace[k].nextside].root = Rt(j, k)
      BY <1>2, <3>2 DEF Wired
    <3> QED
      BY <3>1, <3>2, <3>3 DEF Rt
  <2>4. OnSides(j, A, Rt(j, m), j.trace[m].exit)
    BY <1>2, <1>4, <1>11 DEF Wired
  <2>5. T \subseteq B
    OBVIOUS
  <2> HIDE DEF T
  <2> QED
    BY <2>1, <2>2, <2>3, <2>4, <2>5 DEF OnSides
<1>12. i.held \in Saved(i) => i.held \in Saved(j) /\ i.trace[i.held] = j.trace[i.held]
  OBVIOUS
<1>13. Enterable(i, 0, B)
  BY <1>4, <1>8, <1>9, <1>10, <1>11, <1>12 DEF Enterable
<1>14. Wired(j, B)
  <2> SUFFICES ASSUME NEW m \in B
               PROVE  /\ LinkOK(j, m)
                      /\ j.trace[m].nextroot # 0 => j.trace[j.trace[m].nextroot].root = 0
                      /\ j.trace[m].nextside # 0 =>
                           j.trace[j.trace[m].nextside].root = Rt(j, m)
                      /\ j.trace[m].root # 0 => j.trace[j.trace[m].root].root = 0
                      /\ j.trace[m].exit # 0 => OnSides(j, B, Rt(j, m), j.trace[m].exit)
    BY DEF Wired
  <2>1. m \in A
    BY <1>4
  <2>2. \A e : OnSides(j, A, Rt(j, m), e) => OnSides(j, B, Rt(j, m), e)
    BY <1>7 DEF OnSides
  <2> QED
    BY <1>2, <2>1, <2>2 DEF Wired
<1>15. Wired(i, B)
  <2>1. Enterable(j, 0, B)
    BY <1>4, <1>8, <1>9, <1>10, <1>11 DEF Enterable
  <2>2. \A m \in B : i.trace[m] = j.trace[m]
    BY <1>4
  <2> QED
    BY <1>14, <2>1, <2>2, WiredSame
<1>16. i.held \in Saved(i) => LinkOK(i, i.held)
  <2>1. SUFFICES ASSUME i.held \in Saved(i)
                 PROVE  LinkOK(i, i.held)
    OBVIOUS
  <2>2. /\ j.trace[i.held].link \in B \cup {0, i.held} /\ LinkOK(j, i.held)
        /\ i.trace[i.held] = j.trace[i.held]
    BY <1>9, <1>12, <2>1
  <2>3. \A m \in B : i.trace[m] = j.trace[m]
    BY <1>4
  <2> QED
    BY <2>2, <2>3 DEF LinkOK
<1>17. M \cap R \in SUBSET Traces
  OBVIOUS
<1> QED
  BY <1>3, <1>7, <1>13, <1>15, <1>16, <1>17 DEF Live


-----------------------------------------------------------------------------
\* A trace is added.

\* A side trace that jumps to the start of its root.
LinkedToRoot(i, j, n) ==
  /\ i.trace[n].link = i.trace[n].root /\ i.trace[n].link \in Saved(j)
  /\ j.trace[i.trace[n].link].root = 0

\* Trace n is new in state i, and all that was there in state j has kept its root,
\* and its link unless it is s.
Added(i, j, n, s) ==
  /\ n \in Traces \ Saved(j) /\ Saved(i) = Saved(j) \cup {n} /\ i.held = j.held
  /\ i.trace[n].exit = 0
  /\ \/ i.trace[n].link \in {0, n} \/ \E f \in Protos : i.trace[n].link \in Owned(j, f)
     \/ LinkedToRoot(i, j, n)
  /\ \A m \in Saved(j) :
       /\ i.trace[m].root = j.trace[m].root /\ i.trace[m].nextroot = j.trace[m].nextroot
       /\ m # s => i.trace[m].link = j.trace[m].link

\* What the new trace is linked to can be entered already, or is its root.
LEMMA AddedLink ==
  ASSUME TraceAssumption, NEW j \in JRec, Linked(j), NEW i, NEW n, NEW s, Added(i, j, n, s),
         NEW W, \A f \in Protos : j.chain[f] \in W \cup {0},
         \A m \in W : m \in Saved(j) /\ j.trace[m].nextroot \in W \cup {0}
  PROVE  /\ i.trace[n].link \in W \cup {0, n, i.trace[n].root}
         /\ i.trace[n].link \in {0, n} \/ i.trace[i.trace[n].link].root = 0
<1>1. CASE i.trace[n].link \in {0, n}
  BY <1>1
<1>2. ASSUME NEW f \in Protos, i.trace[n].link \in Owned(j, f)
      PROVE  i.trace[n].link \in W /\ i.trace[i.trace[n].link].root = 0
  <2>1. Owned(j, f) \subseteq W
    BY OwnedFound
  <2>2. j.trace[i.trace[n].link].root = 0 /\ i.trace[n].link \in Saved(j)
    BY <1>2, OwnedSaved
  <2> QED
    BY <1>2, <2>1, <2>2 DEF Added
<1>3. LinkedToRoot(i, j, n) => /\ i.trace[n].link = i.trace[n].root
                               /\ i.trace[i.trace[n].link].root = 0
  BY DEF Added, LinkedToRoot
<1> QED
  BY <1>1, <1>2, <1>3 DEF Added

\* The trace in the frame is linked as it was.
LEMMA AddedHeld ==
  ASSUME TraceAssumption, NEW j \in JRec, NEW r, Live(j, r), NEW i, NEW n, NEW s,
         Added(i, j, n, s), i.held \in Saved(i), i.held # s
  PROVE  /\ i.held \in Saved(j) /\ i.trace[i.held].link = j.trace[j.held].link
         /\ LinkOK(i, i.held)
<1>1. j.held \in Saved(j)
  <2>1. j.held \in Traces
    BY DEF Added, Saved
  <2> QED
    BY <2>1, HeldSaved
<1>2. i.trace[i.held].link = j.trace[j.held].link
  BY <1>1 DEF Added
<1>3. LinkOK(j, j.held)
  BY <1>1 DEF Live
<1>4. PICK A \in SUBSET Traces : Enterable(j, r, A)
  BY DEF Live
<1>5. j.trace[j.held].link \in Saved(j) \cup {0, j.held}
  BY <1>1, <1>4 DEF Enterable
<1> QED
  BY <1>1, <1>2, <1>3, <1>5 DEF Added, LinkOK

\* A side trace of parent p, with root t.
LEMMA LiveStopSide ==
  ASSUME TraceAssumption, NEW j \in JRec, Linked(j), NEW r, Live(j, r), NEW i, NEW n,
         Added(i, j, n, 0), NEW p \in Saved(j), NEW t \in Saved(j), t = Rt(j, p),
         j.trace[t].root = 0, i.chain = j.chain,
         i.trace[n].root = t, i.trace[n].nextroot = 0,
         i.trace[n].nextside = j.trace[t].nextside,
         \A m \in Saved(j) :
           /\ i.trace[m].nextside = IF m = t THEN n ELSE j.trace[m].nextside
           /\ i.trace[m].exit = IF m = p THEN n ELSE j.trace[m].exit
  PROVE  Live(i, r)
<1>0. /\ n \in Traces /\ n \notin Saved(j) /\ Saved(i) = Saved(j) \cup {n} /\ i.held = j.held
      /\ i.trace[n].exit = 0 /\ 0 \notin Saved(j) /\ n # 0 /\ t # 0 /\ t # n
      /\ \A m \in Saved(j) :
           /\ i.trace[m].root = j.trace[m].root /\ i.trace[m].nextroot = j.trace[m].nextroot
           /\ i.trace[m].link = j.trace[m].link
  BY TraceNumbers DEF Added, Saved
<1>1. PICK M \in SUBSET Traces : Kept(j, M)
  BY DEF Live
<1>2. PICK A \in SUBSET Traces : Enterable(j, r, A) /\ Wired(j, A)
  BY DEF Live
<1>3. /\ i.trace[n].link \in M \cup {0, n, i.trace[n].root}
      /\ i.trace[n].link \in A \cup {0, n, i.trace[n].root}
      /\ i.trace[n].link \in {0, n} \/ i.trace[i.trace[n].link].root = 0
  <2>1. /\ \A f \in Protos : j.chain[f] \in M \cup {0} /\ j.chain[f] \in A \cup {0}
        /\ \A m \in M : m \in Saved(j) /\ j.trace[m].nextroot \in M \cup {0}
        /\ \A m \in A : m \in Saved(j) /\ j.trace[m].nextroot \in A \cup {0}
    BY <1>1, <1>2 DEF Kept, Enterable
  <2>2. i.trace[n].link \in M \cup {0, n, i.trace[n].root}
    BY <2>1, AddedLink, Zenon
  <2>3. i.trace[n].link \in A \cup {0, n, i.trace[n].root}
    BY <2>1, AddedLink, Zenon
  <2>4. i.trace[n].link \in {0, n} \/ i.trace[i.trace[n].link].root = 0
    BY <2>1, AddedLink
  <2> QED
    BY <2>2, <2>3, <2>4, Zenon
<1>4. \E N \in SUBSET Traces : Kept(i, N)
  <2>1. CASE t \in M
    <3>1. Kept(i, M \cup {n})
      BY <1>0, <1>1, <1>3, <2>1 DEF Kept
    <3> QED
      BY <1>0, <3>1
  <2>2. CASE t \notin M
    <3>1. Kept(i, M)
      BY <1>0, <1>1, <2>2 DEF Kept
    <3> QED
      BY <3>1
  <2> QED
    BY <2>1, <2>2
<1>5. i.held \in Saved(i) =>
        /\ i.held \in Saved(j) /\ i.trace[i.held].link = j.trace[j.held].link
        /\ LinkOK(i, i.held)
  BY <1>0, AddedHeld
<1>6. \A m \in Saved(j) : Rt(i, m) = Rt(j, m)
  BY <1>0 DEF Rt
<1>7. Rt(i, n) = t
  BY <1>0 DEF Rt
<1>8. ASSUME NEW m \in A
      PROVE  /\ m \in Saved(j) /\ j.trace[m].link \in A \cup {0}
             /\ j.trace[m].nextroot \in A \cup {0} /\ j.trace[m].nextside \in A \cup {0}
             /\ j.trace[m].root \in A \cup {0} /\ j.trace[m].exit \in A \cup {0}
             /\ i.trace[m].link = j.trace[m].link
             /\ i.trace[m].root = j.trace[m].root /\ i.trace[m].nextroot = j.trace[m].nextroot
             /\ i.trace[m].nextside = IF m = t THEN n ELSE j.trace[m].nextside
             /\ i.trace[m].exit = IF m = p THEN n ELSE j.trace[m].exit
             /\ Rt(i, m) = Rt(j, m)
  <2>1. /\ m \in Saved(j) /\ j.trace[m].link \in A \cup {0}
        /\ j.trace[m].nextroot \in A \cup {0} /\ j.trace[m].nextside \in A \cup {0}
        /\ j.trace[m].root \in A \cup {0} /\ j.trace[m].exit \in A \cup {0}
    BY <1>2 DEF Enterable
  <2> QED
    BY <1>0, <1>6, <2>1
<1>9. p \in A => t \in A
  BY <1>8 DEF Rt
<1>10. ASSUME NEW m \in A
       PROVE  /\ LinkOK(i, m)
              /\ i.trace[m].nextroot # 0 => i.trace[i.trace[m].nextroot].root = 0
              /\ i.trace[m].nextside # 0 => i.trace[i.trace[m].nextside].root = Rt(i, m)
              /\ i.trace[m].root # 0 => i.trace[i.trace[m].root].root = 0
  <2>1. LinkOK(i, m)
    BY <1>2, <1>8 DEF Wired, LinkOK
  <2>2. i.trace[m].nextroot # 0 => i.trace[i.trace[m].nextroot].root = 0
    BY <1>2, <1>8 DEF Wired
  <2>3. i.trace[m].nextside # 0 => i.trace[i.trace[m].nextside].root = Rt(i, m)
    <3>1. CASE m = t
      BY <1>8, <3>1 DEF Rt
    <3>2. CASE m # t
      BY <1>2, <1>8, <3>2 DEF Wired
    <3> QED
      BY <3>1, <3>2
  <2>4. i.trace[m].root # 0 => i.trace[i.trace[m].root].root = 0
    BY <1>2, <1>8 DEF Wired
  <2> QED
    BY <2>1, <2>2, <2>3, <2>4
<1>11. CASE t \in A
  <2> DEFINE B == A \cup {n}
  <2>1. Enterable(i, r, B)
    <3>1. \A m \in B : /\ m \in Saved(i) /\ i.trace[m].link \in B \cup {0}
                       /\ i.trace[m].nextroot \in B \cup {0}
                       /\ i.trace[m].nextside \in B \cup {0}
                       /\ i.trace[m].root \in B \cup {0} /\ i.trace[m].exit \in B \cup {0}
      BY <1>0, <1>3, <1>8, <1>11
    <3>2. i.held \in Saved(i) => i.trace[i.held].link \in B \cup {0, i.held}
      BY <1>0, <1>2, <1>5 DEF Enterable
    <3> QED
      BY <1>2, <3>1, <3>2 DEF Enterable
  <2>2. ASSUME NEW T \in SUBSET B, \A m \in T : i.trace[m].nextside \in T \cup {0}
        PROVE  \A m \in T \ {n} : j.trace[m].nextside \in (T \ {n}) \cup {0}
    <3>1. ASSUME NEW m \in T \ {n}
          PROVE  j.trace[m].nextside \in (T \ {n}) \cup {0}
      <4>1. m \in A /\ j.trace[m].nextside # n
        BY <1>0, <1>8
      <4>2. CASE m = t
        <5>1. i.trace[m].nextside = n
          BY <1>8, <4>1, <4>2
        <5>2. n \in T
          BY <1>0, <2>2, <5>1
        <5>3. i.trace[n].nextside \in T \cup {0}
          BY <2>2, <5>2
        <5> QED
          BY <4>1, <4>2, <5>3
      <4>3. CASE m # t
        BY <1>8, <2>2, <4>1, <4>3
      <4> QED
        BY <4>2, <4>3
    <3> QED
      BY <3>1
  <2>3. ASSUME NEW s \in A, NEW e, OnSides(j, A, s, e)
        PROVE  OnSides(i, B, s, e)
    <3> SUFFICES ASSUME NEW T \in SUBSET B, s \in T,
                        \A m \in T : i.trace[m].nextside \in T \cup {0}
                 PROVE  e \in T
      BY DEF OnSides
    <3>1. T \ {n} \in SUBSET A /\ s \in T \ {n}
      BY <1>0, <1>8
    <3>2. \A m \in T \ {n} : j.trace[m].nextside \in (T \ {n}) \cup {0}
      BY <2>2
    <3> QED
      BY <2>3, <3>1, <3>2 DEF OnSides
  <2>4. OnSides(i, B, t, n)
    BY <1>0, <1>8, <1>11 DEF OnSides
  <2>5. ASSUME NEW m \in A, i.trace[m].exit # 0
        PROVE  OnSides(i, B, Rt(i, m), i.trace[m].exit)
    <3>1. Rt(j, m) \in A /\ Rt(i, m) = Rt(j, m)
      BY <1>8 DEF Rt
    <3>2. CASE m = p
      BY <1>8, <2>4, <3>1, <3>2
    <3>3. CASE m # p
      <4>1. i.trace[m].exit = j.trace[m].exit /\ j.trace[m].exit # 0
        BY <1>8, <2>5, <3>3
      <4>2. OnSides(j, A, Rt(j, m), j.trace[m].exit)
        BY <1>2, <4>1 DEF Wired
      <4> QED
        BY <2>3, <3>1, <4>1, <4>2
    <3> QED
      BY <3>2, <3>3
  <2>6. /\ LinkOK(i, n)
        /\ i.trace[n].nextside # 0 => i.trace[i.trace[n].nextside].root = Rt(i, n)
        /\ i.trace[n].root # 0 => i.trace[i.trace[n].root].root = 0
    <3>1. LinkOK(i, n)
      BY <1>3 DEF LinkOK
    <3>2. i.trace[n].nextside # 0 => i.trace[i.trace[n].nextside].root = t
      <4> DEFINE q == j.trace[t].nextside
      <4>1. q \in A \cup {0}
        BY <1>8, <1>11
      <4>2. q # 0 => j.trace[q].root = Rt(j, t)
        BY <1>2, <1>11 DEF Wired
      <4>3. Rt(j, t) = t
        BY DEF Rt
      <4>4. q # 0 => i.trace[q].root = j.trace[q].root
        BY <1>8, <4>1
      <4> QED
        BY <4>2, <4>3, <4>4
    <3>3. i.trace[t].root = 0
      BY <1>0
    <3> QED
      BY <1>7, <3>1, <3>2, <3>3
  <2>7. Wired(i, B)
    BY <1>0, <1>10, <2>5, <2>6 DEF Wired
  <2>8. B \in SUBSET Traces
    BY <1>0
  <2> QED
    BY <1>4, <1>5, <2>1, <2>7, <2>8 DEF Live
<1>12. CASE t \notin A
  <2>1. Enterable(i, r, A)
    <3>1. i.held \in Saved(i) => i.trace[i.held].link \in A \cup {0, i.held}
      BY <1>0, <1>2, <1>5 DEF Enterable
    <3>2. \A m \in A : /\ m \in Saved(i) /\ i.trace[m].link \in A \cup {0}
                       /\ i.trace[m].nextroot \in A \cup {0}
                       /\ i.trace[m].nextside \in A \cup {0}
                       /\ i.trace[m].root \in A \cup {0} /\ i.trace[m].exit \in A \cup {0}
      BY <1>0, <1>8, <1>9, <1>12
    <3> QED
      BY <1>2, <3>1, <3>2 DEF Enterable
  <2>2. \A s, e : OnSides(j, A, s, e) => OnSides(i, A, s, e)
    BY <1>8, <1>12 DEF OnSides
  <2>3. \A m \in A : i.trace[m].exit # 0 => OnSides(i, A, Rt(i, m), i.trace[m].exit)
    BY <1>2, <1>8, <1>9, <1>12, <2>2 DEF Wired
  <2>4. Wired(i, A)
    BY <1>10, <2>3 DEF Wired
  <2> QED
    BY <1>4, <1>5, <2>1, <2>4 DEF Live
<1> QED
  BY <1>11, <1>12


\* A root trace, put in front of a chain, or a stitched trace, to which s is linked.
LEMMA LiveStopRoot ==
  ASSUME TraceAssumption, NEW j \in JRec, Linked(j), NEW r, Live(j, r), NEW i, NEW n,
         NEW s, Added(i, j, n, s), s \in Saved(j) => i.trace[s].link = n,
         i.trace[n].root = 0, i.trace[n].nextside = 0,
         i.trace[n].nextroot = 0 \/ \E f \in Protos : i.trace[n].nextroot = j.chain[f],
         \A f \in Protos : i.chain[f] \in {n, j.chain[f]},
         \A m \in Saved(j) : /\ i.trace[m].nextside = j.trace[m].nextside
                             /\ i.trace[m].exit = j.trace[m].exit
  PROVE  Live(i, r)
<1>0. /\ n \in Traces /\ n \notin Saved(j) /\ Saved(i) = Saved(j) \cup {n} /\ i.held = j.held
      /\ i.trace[n].exit = 0 /\ 0 \notin Saved(j) /\ n # 0
      /\ \A m \in Saved(j) :
           /\ i.trace[m].root = j.trace[m].root /\ i.trace[m].nextroot = j.trace[m].nextroot
           /\ i.trace[m].link = IF m = s THEN n ELSE j.trace[m].link
  BY TraceNumbers DEF Added, Saved
<1>1. PICK M \in SUBSET Traces : Kept(j, M)
  BY DEF Live
<1>2. PICK A \in SUBSET Traces : Enterable(j, r, A) /\ Wired(j, A)
  BY DEF Live
<1>3. /\ i.trace[n].link \in M \cup {0, n, i.trace[n].root}
      /\ i.trace[n].link \in A \cup {0, n, i.trace[n].root}
      /\ i.trace[n].link \in {0, n} \/ i.trace[i.trace[n].link].root = 0
  <2>1. /\ \A f \in Protos : j.chain[f] \in M \cup {0} /\ j.chain[f] \in A \cup {0}
        /\ \A m \in M : m \in Saved(j) /\ j.trace[m].nextroot \in M \cup {0}
        /\ \A m \in A : m \in Saved(j) /\ j.trace[m].nextroot \in A \cup {0}
    BY <1>1, <1>2 DEF Kept, Enterable
  <2>2. i.trace[n].link \in M \cup {0, n, i.trace[n].root}
    BY <2>1, AddedLink, Zenon
  <2>3. i.trace[n].link \in A \cup {0, n, i.trace[n].root}
    BY <2>1, AddedLink, Zenon
  <2>4. i.trace[n].link \in {0, n} \/ i.trace[i.trace[n].link].root = 0
    BY <2>1, AddedLink
  <2> QED
    BY <2>2, <2>3, <2>4, Zenon
<1>4. Kept(i, M \cup {n})
  <2>1. i.trace[n].nextroot \in M \cup {0}
    BY <1>1 DEF Kept
  <2>2. ASSUME NEW m \in M
        PROVE  /\ m \in Saved(i) /\ i.trace[m].link \in M \cup {n, 0}
               /\ i.trace[m].nextroot \in M \cup {0} /\ i.trace[m].nextside \in M \cup {0}
    BY <1>0, <1>1 DEF Kept
  <2>3. /\ \A f \in Protos : i.chain[f] \in M \cup {n, 0}
        /\ i.held \in M \cup {0, Nil}
    BY <1>0, <1>1 DEF Kept
  <2> QED
    BY <1>0, <1>3, <2>1, <2>2, <2>3 DEF Kept
<1>5. i.held \in Saved(i) /\ i.held # s =>
        /\ i.held \in Saved(j) /\ i.trace[i.held].link = j.trace[j.held].link
        /\ LinkOK(i, i.held)
  BY AddedHeld
<1>6. i.held \in Saved(i) => i.held \in Saved(j)
  <2>1. i.held \in Saved(i) => j.held \in Traces
    BY <1>0 DEF Saved
  <2> QED
    BY <1>0, <2>1, HeldSaved
<1>7. i.held \in Saved(i) => LinkOK(i, i.held)
  BY <1>0, <1>5, <1>6 DEF LinkOK
<1>8. ASSUME NEW m \in A
      PROVE  /\ m \in Saved(j) /\ j.trace[m].link \in A \cup {0}
             /\ j.trace[m].nextroot \in A \cup {0} /\ j.trace[m].nextside \in A \cup {0}
             /\ j.trace[m].root \in A \cup {0} /\ j.trace[m].exit \in A \cup {0}
             /\ i.trace[m].link = IF m = s THEN n ELSE j.trace[m].link
             /\ i.trace[m].root = j.trace[m].root /\ i.trace[m].nextroot = j.trace[m].nextroot
             /\ i.trace[m].nextside = j.trace[m].nextside
             /\ i.trace[m].exit = j.trace[m].exit
             /\ Rt(i, m) = Rt(j, m)
  <2>1. /\ m \in Saved(j) /\ j.trace[m].link \in A \cup {0}
        /\ j.trace[m].nextroot \in A \cup {0} /\ j.trace[m].nextside \in A \cup {0}
        /\ j.trace[m].root \in A \cup {0} /\ j.trace[m].exit \in A \cup {0}
    BY <1>2 DEF Enterable
  <2> QED
    BY <1>0, <2>1 DEF Rt
<1> DEFINE B == A \cup {n}
<1>9. Enterable(i, r, B)
  <2>1. i.trace[n].nextroot \in A \cup {0}
    BY <1>2 DEF Enterable
  <2>2. \A m \in B : /\ m \in Saved(i) /\ i.trace[m].link \in B \cup {0}
                     /\ i.trace[m].nextroot \in B \cup {0}
                     /\ i.trace[m].nextside \in B \cup {0}
                     /\ i.trace[m].root \in B \cup {0} /\ i.trace[m].exit \in B \cup {0}
    BY <1>0, <1>3, <1>8, <2>1
  <2>3. i.held \in Saved(i) => i.trace[i.held].link \in B \cup {0, i.held}
    BY <1>0, <1>2, <1>5, <1>6 DEF Enterable
  <2>4. /\ \A f \in Protos : i.chain[f] \in B \cup {0}
        /\ r \in B \cup {0}
    BY <1>2 DEF Enterable
  <2> QED
    BY <2>2, <2>3, <2>4 DEF Enterable
<1>10. ASSUME NEW m \in A
       PROVE  /\ LinkOK(i, m)
              /\ i.trace[m].nextroot # 0 => i.trace[i.trace[m].nextroot].root = 0
              /\ i.trace[m].nextside # 0 => i.trace[i.trace[m].nextside].root = Rt(i, m)
              /\ i.trace[m].root # 0 => i.trace[i.trace[m].root].root = 0
  <2>1. LinkOK(i, m)
    BY <1>2, <1>8 DEF Wired, LinkOK
  <2>2. i.trace[m].nextroot # 0 => i.trace[i.trace[m].nextroot].root = 0
    BY <1>2, <1>8 DEF Wired
  <2>3. i.trace[m].nextside # 0 => i.trace[i.trace[m].nextside].root = Rt(i, m)
    BY <1>2, <1>8 DEF Wired
  <2>4. i.trace[m].root # 0 => i.trace[i.trace[m].root].root = 0
    BY <1>2, <1>8 DEF Wired
  <2> QED
    BY <2>1, <2>2, <2>3, <2>4
<1>11. ASSUME NEW m \in A, i.trace[m].exit # 0
       PROVE  OnSides(i, B, Rt(i, m), i.trace[m].exit)
  <2>1. OnSides(j, A, Rt(j, m), j.trace[m].exit)
    BY <1>2, <1>8, <1>11 DEF Wired
  <2>2. Rt(j, m) \in A /\ Rt(i, m) = Rt(j, m) /\ i.trace[m].exit = j.trace[m].exit
    BY <1>8 DEF Rt
  <2> SUFFICES ASSUME NEW T \in SUBSET B, Rt(j, m) \in T,
                      \A k \in T : i.trace[k].nextside \in T \cup {0}
               PROVE  j.trace[m].exit \in T
    BY <2>2 DEF OnSides
  <2>3. T \ {n} \in SUBSET A /\ Rt(j, m) \in T \ {n}
    BY <1>0, <1>8, <2>2
  <2>4. \A k \in T \ {n} : j.trace[k].nextside \in (T \ {n}) \cup {0}
    BY <1>0, <1>8
  <2> QED
    BY <2>1, <2>3, <2>4 DEF OnSides
<1>12. /\ LinkOK(i, n)
       /\ i.trace[n].nextroot # 0 => i.trace[i.trace[n].nextroot].root = 0
  <2>1. LinkOK(i, n)
    BY <1>3 DEF LinkOK
  <2>2. ASSUME NEW f \in Protos, j.chain[f] # 0
        PROVE  i.trace[j.chain[f]].root = 0
    <3>1. j.chain[f] \in Owned(j, f)
      BY <2>2 DEF Linked, Path
    <3>2. j.chain[f] \in Saved(j) /\ j.trace[j.chain[f]].root = 0
      BY <3>1, OwnedSaved
    <3> QED
      BY <1>0, <3>2
  <2> QED
    BY <2>1, <2>2
<1>13. Wired(i, B)
  BY <1>0, <1>10, <1>11, <1>12 DEF Wired
<1>14. B \in SUBSET Traces /\ M \cup {n} \in SUBSET Traces
  BY <1>0
<1> HIDE DEF B
<1> QED
  BY <1>4, <1>7, <1>9, <1>13, <1>14 DEF Live


-----------------------------------------------------------------------------
\* Bytecode that is patched for the recorder, blacklisted and enabled again

\* All but the bytecode and what is known of it is the same.
SameRest(i, j) ==
  /\ i.state = j.state /\ i.pc = j.pc /\ i.pt = j.pt /\ i.parent = j.parent
  /\ i.exitno = j.exitno /\ i.err = j.err /\ i.cur = j.cur /\ i.no = j.no
  /\ i.freetrace = j.freetrace /\ i.trace = j.trace /\ i.held = j.held
  /\ i.chain = j.chain /\ i.nojit = j.nojit /\ i.on = j.on
  /\ i.mcarea = j.mcarea /\ i.prot = j.prot

\* The same traces, bound to the same instructions.
Rebound(i, j) ==
  /\ SameRest(i, j)
  /\ \A f \in Protos : Owned(i, f) = Owned(j, f)
  /\ \A p \in Pcs : IsJit(i, p) => IsJit(j, p) \/ (j.patch # Nil /\ p = j.patch.pc)

\* Nothing is patched.
LEMMA ReboundSelf ==
  ASSUME NEW j
  PROVE  Rebound(j, j)
BY DEF Rebound, SameRest

\* Linked only depends on what is bound and on the traces.
LEMMA LinkedRebound ==
  ASSUME NEW j, Linked(j), NEW i, i.trace = j.trace, i.chain = j.chain,
         \A f \in Protos : Owned(i, f) = Owned(j, f),
         \A p \in Pcs : IsJit(i, p) => Begins(j, i.ins[p].d, p) /\ Kind[p] # "call",
         \A p \in Pcs : ~IsJit(i, p) => i.ins[p].d = 0,
         i.patch # Nil => /\ Begins(j, i.patch.d, i.patch.pc) /\ Kind[i.patch.pc] # "call"
                          /\ i.ins[i.patch.pc] = Orig
  PROVE  Linked(i)
<1>1. Saved(i) = Saved(j) /\ NextRoot(i) = NextRoot(j)
  BY DEF Saved, NextRoot
<1>2. \A n, p : Begins(j, n, p) => Begins(i, n, p)
  BY <1>1 DEF Begins
<1>3. \A f \in Protos : Path(Owned(i, f), i.chain[f], NextRoot(i))
  BY <1>1 DEF Linked
<1>4. \A n \in Saved(i) : i.trace[n].root = 0 => i.trace[n].pc \in Pcs
  BY <1>1 DEF Linked
<1> QED
  BY <1>2, <1>3, <1>4 DEF Linked

\* Bytecode, and what is known of it, is set.
SetIns3(j, v, y, z) == [j EXCEPT !.ins = v, !.patch = y, !.iloop = z]

\* Only the bytecode, and what is known of it, is changed.
LEMMA SetBytecode ==
  ASSUME NEW j \in JRec, NEW v \in [Pcs -> Inses], NEW y \in Patches \cup {Nil},
         NEW z \in SUBSET Protos, NEW i, i = SetIns3(j, v, y, z)
  PROVE  i \in JRec /\ SameRest(i, j) /\ i.ins = v /\ i.patch = y /\ i.iloop = z
<1>1. i \in JRec
  <2>1. v \in [Pcs -> Inses] /\ y \in Patches \cup {Nil} /\ z \in SUBSET Protos
    OBVIOUS
  <2> QED
    BY <2>1, Zenon DEF JRec, SetIns3
<1>2. SameRest(i, j) /\ i.ins = v /\ i.patch = y /\ i.iloop = z
  BY DEF JRec, SameRest, SetIns3
<1> QED
  BY <1>1, <1>2

\* lj_record puts a J instruction back.
LEMMA PendPatchFacts ==
  ASSUME TraceAssumption, NEW j \in JRec, Linked(j), NEW force \in BOOLEAN,
         NEW i, i = PendPatch(j, force)
  PROVE  /\ i \in JRec /\ Linked(i) /\ Rebound(i, j) /\ i.iloop = j.iloop
         /\ force => i.patch = Nil
         /\ i.patch # Nil => j.patch # Nil /\ i.patch.pc = j.patch.pc
<1>1. CASE i = j /\ j.patch = Nil
  BY <1>1, ReboundSelf
<1>2. CASE j.patch # Nil /\ i = [j EXCEPT !.patch.skip = FALSE] /\ ~force
  <2> DEFINE x == [j.patch EXCEPT !.skip = FALSE]
  <2>1. j.patch \in Patches
    BY <1>2 DEF JRec
  <2>2. x \in Patches /\ x.pc = j.patch.pc /\ x.d = j.patch.d
    BY <2>1 DEF Patches
  <2>3. i = [j EXCEPT !.patch = x]
    BY <1>2
  <2> HIDE DEF x
  <2>4. i \in JRec /\ SameRest(i, j) /\ i.patch = x /\ i.iloop = j.iloop /\ i.ins = j.ins
    BY <2>2, <2>3 DEF JRec, SameRest
  <2>5. x # Nil
    BY <2>2 DEF TraceAssumption
  <2>6. \A f \in Protos : Owned(i, f) = Owned(j, f)
    <3>1. i.patch # Nil /\ j.patch # Nil /\ i.patch.pc = j.patch.pc /\ i.patch.d = j.patch.d
      BY <1>2, <2>2, <2>4, <2>5
    <3> QED
      BY <2>4, <3>1 DEF Owned, IsJit
  <2>7. \A p \in Pcs : IsJit(i, p) <=> IsJit(j, p)
    BY <2>4 DEF IsJit
  <2>8. Linked(i)
    <3>1. i.trace = j.trace /\ i.chain = j.chain
      BY <2>4 DEF SameRest
    <3>2. i.patch.d = j.patch.d /\ i.patch.pc = j.patch.pc /\ j.patch # Nil
      BY <1>2, <2>2, <2>4
    <3>3. \A p \in Pcs : IsJit(i, p) => Begins(j, i.ins[p].d, p) /\ Kind[p] # "call"
      BY <2>4, <2>7 DEF Linked
    <3>4. \A p \in Pcs : ~IsJit(i, p) => i.ins[p].d = 0
      BY <2>4, <2>7 DEF Linked
    <3>5. /\ Begins(j, i.patch.d, i.patch.pc) /\ Kind[i.patch.pc] # "call"
          /\ i.ins[i.patch.pc] = Orig
      BY <2>4, <3>2 DEF Linked
    <3> QED
      BY <2>6, <3>1, <3>3, <3>4, <3>5, LinkedRebound
  <2> QED
    BY <1>2, <2>2, <2>4, <2>6, <2>7, <2>8 DEF Rebound
<1>3. CASE j.patch # Nil /\ i = [j EXCEPT !.ins[j.patch.pc] = Jit(j.patch.d), !.patch = Nil]
  <2>1. /\ i \in JRec /\ SameRest(i, j) /\ i.iloop = j.iloop /\ i.patch = Nil
        /\ j.patch.pc \in Pcs
        /\ \A p \in Pcs : i.ins[p] = IF p = j.patch.pc THEN Jit(j.patch.d) ELSE j.ins[p]
    <3>1. j.patch.pc \in Pcs /\ j.patch.d \in Traces
      BY <1>3 DEF JRec, Patches
    <3>2. Jit(j.patch.d) \in Inses
      BY <3>1, TraceNumbers DEF Inses, Jit
    <3> DEFINE x == [j.ins EXCEPT ![j.patch.pc] = Jit(j.patch.d)]
    <3>3. j.ins \in [Pcs -> Inses]
      BY DEF JRec
    <3>4. /\ x \in [Pcs -> Inses]
          /\ \A p \in Pcs : x[p] = IF p = j.patch.pc THEN Jit(j.patch.d) ELSE j.ins[p]
      BY <3>1, <3>2, <3>3
    <3>5. i = [j EXCEPT !.ins = x, !.patch = Nil]
      BY <1>3
    <3> HIDE DEF x
    <3>6. i = SetIns3(j, x, Nil, j.iloop)
      <4>1. [j EXCEPT !.ins = x, !.patch = Nil]
              = [j EXCEPT !.ins = x, !.patch = Nil, !.iloop = j.iloop]
        BY Zenon DEF JRec
      <4> QED
        BY <3>5, <4>1, Zenon DEF SetIns3
    <3>7. j.iloop \in SUBSET Protos
      BY DEF JRec
    <3>8. /\ i \in JRec /\ SameRest(i, j) /\ i.ins = x /\ i.patch = Nil
          /\ i.iloop = j.iloop
      BY <3>4, <3>6, <3>7, SetBytecode
    <3> QED
      BY <3>1, <3>4, <3>8
  <2>2. /\ Begins(j, j.patch.d, j.patch.pc) /\ Kind[j.patch.pc] # "call"
        /\ ~IsJit(j, j.patch.pc)
    BY <1>3 DEF Linked, IsJit, Orig
  <2>3. \A p \in Pcs : IsJit(i, p) <=> IsJit(j, p) \/ p = j.patch.pc
    BY <2>1, <2>2 DEF IsJit, Jit
  <2>4. i.ins[j.patch.pc].d = j.patch.d /\ \A p \in Pcs : p # j.patch.pc => i.ins[p] = j.ins[p]
    BY <2>1 DEF Jit
  <2>5. \A f \in Protos : Owned(i, f) = Owned(j, f)
    BY <1>3, <2>1, <2>2, <2>3, <2>4 DEF Owned
  <2>6. Linked(i)
    <3>1. i.trace = j.trace /\ i.chain = j.chain
      BY <2>1 DEF SameRest
    <3>3. \A p \in Pcs : IsJit(i, p) => Begins(j, i.ins[p].d, p) /\ Kind[p] # "call"
      BY <2>2, <2>3, <2>4 DEF Linked
    <3>4. \A p \in Pcs : ~IsJit(i, p) => i.ins[p].d = 0
      BY <2>3, <2>4 DEF Linked
    <3> QED
      BY <2>1, <2>5, <3>1, <3>3, <3>4, LinkedRebound
  <2> QED
    BY <1>3, <2>1, <2>3, <2>5, <2>6 DEF Rebound
<1> QED
  BY <1>1, <1>2, <1>3 DEF PendPatch


\* A J instruction is unpatched for the recorder.
LEMMA UnpatchForFacts ==
  ASSUME TraceAssumption, NEW j \in JRec, Linked(j), j.patch = Nil, NEW p \in Pcs,
         IsJit(j, p), NEW skip \in BOOLEAN, NEW i, i = UnpatchFor(j, p, skip)
  PROVE  i \in JRec /\ Linked(i) /\ Rebound(i, j) /\ i.patch # Nil /\ i.patch.pc = p
<1> DEFINE y == [pc |-> p, d |-> j.ins[p].d, skip |-> skip]
<1>1. Begins(j, j.ins[p].d, p) /\ Kind[p] # "call" /\ j.ins[p].d \in Traces
  BY DEF Linked, Begins, Saved
<1>2. y \in Patches /\ y.pc = p /\ y.d = j.ins[p].d /\ y # Nil
  BY <1>1 DEF Patches, TraceAssumption
<1>3. Orig \in Inses
  BY TraceNumbers DEF Inses, Orig
<1>4. i = [j EXCEPT !.patch = y, !.ins[p] = Orig]
  BY DEF UnpatchFor
<1>5. j.iloop \in SUBSET Protos /\ j.ins \in [Pcs -> Inses]
  BY DEF JRec
<1> DEFINE v == [j.ins EXCEPT ![p] = Orig]
<1>c. /\ v \in [Pcs -> Inses]
      /\ \A q \in Pcs : v[q] = IF q = p THEN Orig ELSE j.ins[q]
  BY <1>3, <1>5
<1>d. i = [j EXCEPT !.patch = y, !.ins = v]
  BY <1>4
<1> HIDE DEF y, v
<1>6. i = SetIns3(j, v, y, j.iloop)
  BY <1>d DEF JRec, SetIns3
<1>7. /\ i \in JRec /\ SameRest(i, j) /\ i.patch = y
      /\ \A q \in Pcs : i.ins[q] = IF q = p THEN Orig ELSE j.ins[q]
  <2>1. y \in Patches \cup {Nil}
    BY <1>2
  <2>2. i \in JRec /\ SameRest(i, j) /\ i.ins = v /\ i.patch = y
    BY <1>c, <1>5, <1>6, <2>1, SetBytecode
  <2> QED
    BY <1>c, <2>2
<1>8. \A q \in Pcs : IsJit(i, q) <=> IsJit(j, q) /\ q # p
  BY <1>7 DEF IsJit, Orig
<1>9. \A q \in Pcs : q # p => i.ins[q] = j.ins[q]
  BY <1>7
<1>10. \A f \in Protos : Owned(i, f) = Owned(j, f)
  BY <1>2, <1>7, <1>8, <1>9 DEF Owned
<1>11. Linked(i)
  <2>1. i.trace = j.trace /\ i.chain = j.chain
    BY <1>7 DEF SameRest
  <2>2. \A q \in Pcs : IsJit(i, q) => Begins(j, i.ins[q].d, q) /\ Kind[q] # "call"
    BY <1>8, <1>9 DEF Linked
  <2>3. \A q \in Pcs : ~IsJit(i, q) => i.ins[q].d = 0
    BY <1>7, <1>8, <1>9 DEF Linked, Orig
  <2>4. /\ Begins(j, i.patch.d, i.patch.pc) /\ Kind[i.patch.pc] # "call"
        /\ i.ins[i.patch.pc] = Orig
    BY <1>1, <1>2, <1>7
  <2> QED
    BY <1>10, <2>1, <2>2, <2>3, <2>4, LinkedRebound
<1> QED
  BY <1>2, <1>7, <1>8, <1>10, <1>11 DEF Rebound

\* An instruction where no trace begins is set to another one of that kind.
PlainSet(i, j, p) ==
  /\ i \in JRec /\ SameRest(i, j) /\ i.patch = j.patch
  /\ \A q \in Pcs : q # p => i.ins[q] = j.ins[q]
  /\ i.ins[p].op # "jit" /\ i.ins[p].d = 0

\* An instruction that is not a J instruction is blacklisted or restored.
LEMMA PlainSetFacts ==
  ASSUME TraceAssumption, NEW j \in JRec, Linked(j), j.patch = Nil, NEW p \in Pcs,
         ~IsJit(j, p), NEW i, PlainSet(i, j, p)
  PROVE  i \in JRec /\ Linked(i) /\ Rebound(i, j) /\ i.patch = Nil
<1>1. \A q \in Pcs : IsJit(i, q) <=> IsJit(j, q)
  BY DEF PlainSet, IsJit
<1>2. \A q \in Pcs : IsJit(j, q) => i.ins[q] = j.ins[q]
  BY DEF PlainSet
<1>3. \A f \in Protos : Owned(i, f) = Owned(j, f)
  BY <1>1, <1>2 DEF Owned, PlainSet
<1>4. Linked(i)
  <2>1. i.trace = j.trace /\ i.chain = j.chain
    BY DEF PlainSet, SameRest
  <2>2. \A q \in Pcs : IsJit(i, q) => Begins(j, i.ins[q].d, q) /\ Kind[q] # "call"
    BY <1>1, <1>2 DEF Linked
  <2>3. \A q \in Pcs : ~IsJit(i, q) => i.ins[q].d = 0
    BY <1>1 DEF Linked, PlainSet
  <2> QED
    BY <1>3, <2>1, <2>2, <2>3, LinkedRebound DEF PlainSet
<1> QED
  BY <1>1, <1>3, <1>4 DEF Rebound, PlainSet

\* It gets another opcode.
LEMMA SetPlain ==
  ASSUME TraceAssumption, NEW j \in JRec, NEW p \in Pcs, NEW o \in {"iloop", "iterc"},
         NEW z \in SUBSET Protos,
         NEW i, i = SetIns3(j, [j.ins EXCEPT ![p] = [Orig EXCEPT !.op = o]], j.patch, z)
  PROVE  PlainSet(i, j, p)
<1> DEFINE x == [Orig EXCEPT !.op = o]
           v == [j.ins EXCEPT ![p] = x]
<1>1. x \in Inses /\ x.op # "jit" /\ x.d = 0
  BY TraceNumbers DEF Inses, Orig
<1>2. i = SetIns3(j, v, j.patch, z)
  OBVIOUS
<1> HIDE DEF x
<1>3. v \in [Pcs -> Inses] /\ v[p] = x /\ \A q \in Pcs : q # p => v[q] = j.ins[q]
  BY <1>1 DEF JRec
<1> HIDE DEF v
<1>4. j.patch \in Patches \cup {Nil}
  BY DEF JRec
<1>5. i \in JRec /\ SameRest(i, j) /\ i.ins = v /\ i.patch = j.patch
  BY <1>2, <1>3, <1>4, SetBytecode
<1> QED
  BY <1>1, <1>3, <1>5 DEF PlainSet

\* A function or loop is blacklisted.
LEMMA ToILoopFacts ==
  ASSUME TraceAssumption, NEW j \in JRec, Linked(j), j.patch = Nil, NEW p \in Pcs,
         ~IsJit(j, p), NEW i, i = ToILoop(j, p)
  PROVE  i \in JRec /\ Linked(i) /\ Rebound(i, j) /\ i.patch = Nil
<1> DEFINE z == j.iloop \cup {Proto[p]}
<1>1. z \in SUBSET Protos
  BY DEF JRec, Protos
<1>2. i = SetIns3(j, [j.ins EXCEPT ![p] = [Orig EXCEPT !.op = "iloop"]], j.patch, z)
  BY DEF ToILoop, SetIns3, JRec
<1> HIDE DEF z
<1>3. PlainSet(i, j, p)
  BY <1>1, <1>2, SetPlain
<1> QED
  BY <1>3, PlainSetFacts

\* A penalty blacklists the bytecode, or not.
LEMMA PenalizeFacts ==
  ASSUME TraceAssumption, NEW j \in JRec, Linked(j), j.patch = Nil, NEW p \in Pcs,
         ~IsJit(j, p), NEW i \in Penalize(j, p)
  PROVE  i \in JRec /\ Linked(i) /\ Rebound(i, j) /\ i.patch = Nil
<1>1. CASE i = j
  BY <1>1, ReboundSelf
<1>2. CASE i = ToILoop(j, p)
  BY <1>2, ToILoopFacts
<1>3. CASE i = [j EXCEPT !.ins[p] = [Orig EXCEPT !.op = "iterc"]]
  <2>1. j.iloop \in SUBSET Protos
    BY DEF JRec
  <2>2. i = SetIns3(j, [j.ins EXCEPT ![p] = [Orig EXCEPT !.op = "iterc"]], j.patch, j.iloop)
    BY <1>3 DEF SetIns3, JRec
  <2>3. PlainSet(i, j, p)
    BY <2>1, <2>2, SetPlain
  <2> QED
    BY <2>3, PlainSetFacts
<1> QED
  BY <1>1, <1>2, <1>3 DEF Penalize, Blacklist

\* jit.on(f)
LEMMA ReenableFacts ==
  ASSUME TraceAssumption, NEW j \in JRec, Linked(j), j.patch = Nil, NEW f,
         NEW i, i = Reenable(j, f)
  PROVE  i \in JRec /\ Linked(i) /\ Rebound(i, j) /\ i.patch = Nil
<1>1. CASE f \notin j.iloop
  BY <1>1, ReboundSelf DEF Reenable
<1>2. CASE f \in j.iloop
  <2> DEFINE x == [p \in Pcs |-> IF Proto[p] = f /\ j.ins[p].op = "iloop"
                                 THEN Orig ELSE j.ins[p]]
             z == j.iloop \ {f}
  <2>1. x \in [Pcs -> Inses]
    BY TraceNumbers DEF JRec, Inses, Orig
  <2>2. z \in SUBSET Protos
    BY DEF JRec
  <2>3. i = [j EXCEPT !.iloop = z, !.ins = x]
    BY <1>2 DEF Reenable, JRec
  <2>4. /\ \A p \in Pcs : x[p].op = "jit" <=> IsJit(j, p)
        /\ \A p \in Pcs : IsJit(j, p) => x[p] = j.ins[p]
        /\ \A p \in Pcs : x[p] = j.ins[p] \/ (x[p] = Orig /\ j.ins[p].op = "iloop")
    BY DEF IsJit, Orig
  <2> HIDE DEF x, z
  <2>a. i = SetIns3(j, x, j.patch, z)
    BY <2>3 DEF JRec, SetIns3
  <2>b. j.patch \in Patches \cup {Nil}
    OBVIOUS
  <2>5. i \in JRec /\ SameRest(i, j) /\ i.patch = j.patch /\ i.ins = x
    BY <2>1, <2>2, <2>a, <2>b, SetBytecode
  <2>6. SameRest(i, j) /\ i.patch = Nil /\ i.ins = x
    BY <2>5
  <2>7. \A p \in Pcs : IsJit(i, p) <=> IsJit(j, p)
    BY <2>4, <2>6 DEF IsJit
  <2>8. \A g \in Protos : Owned(i, g) = Owned(j, g)
    BY <2>4, <2>6, <2>7 DEF Owned
  <2>9. Linked(i)
    <3>1. i.trace = j.trace /\ i.chain = j.chain
      BY <2>6 DEF SameRest
    <3>2. \A q \in Pcs : IsJit(i, q) => Begins(j, i.ins[q].d, q) /\ Kind[q] # "call"
      BY <2>4, <2>6, <2>7 DEF Linked
    <3>3. \A q \in Pcs : ~IsJit(i, q) => i.ins[q].d = 0
      BY <2>4, <2>6, <2>7 DEF Linked, Orig
    <3> QED
      BY <2>6, <2>8, <3>1, <3>2, <3>3, LinkedRebound
  <2> QED
    BY <2>5, <2>6, <2>7, <2>8, <2>9 DEF Rebound
<1> QED
  BY <1>1, <1>2


-----------------------------------------------------------------------------
\* All about the heap at once

\* What is known of traces, and nothing else, is the same.
SameHeap(i, j) ==
  /\ i.trace = j.trace /\ i.chain = j.chain /\ i.held = j.held /\ i.no = j.no
  /\ i.freetrace = j.freetrace /\ i.nojit \subseteq j.nojit
  /\ j.mcarea => i.mcarea

\* Only fields that have nothing to do with traces differ.
LEMMA HeapSame ==
  ASSUME TraceAssumption, NEW i, NEW j, NEW r, Heap(j, r), Linked(i), SameHeap(i, j)
  PROVE  Heap(i, r)
<1>1. Saved(i) = Saved(j)
  BY DEF Saved, SameHeap
<1>2. Live(i, r)
  <2>1. \A n \in Saved(j) : n \in Saved(i) /\ i.trace[n] = j.trace[n]
    BY <1>1 DEF SameHeap
  <2> QED
    BY <2>1, LiveSame DEF Heap, SameHeap
<1>3. /\ i.trace = j.trace /\ i.no = j.no /\ i.freetrace = j.freetrace
      /\ i.chain = j.chain /\ i.nojit \subseteq j.nojit
  BY DEF SameHeap
<1>4. Slots(i)
  <2>1. Slots(j)
    BY DEF Heap
  <2> QED
    BY <1>3, <2>1, Zenon DEF Slots
<1>5. \A f \in i.nojit : i.chain[f] = 0
  BY <1>3 DEF Heap
<1>6. Saved(i) # {} => i.mcarea
  BY <1>1, Zenon DEF Heap, SameHeap
<1> QED
  BY <1>2, <1>4, <1>5, <1>6 DEF Heap

\* Nor is the bytecode touched.
LEMMA HeapKept ==
  ASSUME TraceAssumption, NEW i, NEW j, NEW r, Heap(j, r), SameHeap(i, j),
         i.ins = j.ins, i.patch = j.patch
  PROVE  Heap(i, r) /\ \A f \in Protos : Owned(i, f) = Owned(j, f)
<1>1. \A f \in Protos : Owned(i, f) = Owned(j, f)
  BY DEF Owned, IsJit
<1>2. Linked(i)
  <2>1. i.trace = j.trace /\ i.chain = j.chain
    BY DEF SameHeap
  <2>2. \A q \in Pcs : IsJit(i, q) => Begins(j, i.ins[q].d, q) /\ Kind[q] # "call"
    BY DEF Linked, Heap, IsJit
  <2>3. \A q \in Pcs : ~IsJit(i, q) => i.ins[q].d = 0
    BY DEF Linked, Heap, IsJit
  <2>4. i.patch # Nil => /\ Begins(j, i.patch.d, i.patch.pc) /\ Kind[i.patch.pc] # "call"
                         /\ i.ins[i.patch.pc] = Orig
    BY DEF Linked, Heap
  <2> QED
    BY <1>1, <2>1, <2>2, <2>3, <2>4, LinkedRebound DEF Heap
<1> QED
  BY <1>1, <1>2, HeapSame

\* Bytecode is unpatched for the recorder, or put back.
LEMMA HeapRebound ==
  ASSUME TraceAssumption, NEW i, NEW j, NEW r, Heap(j, r), Linked(i), Rebound(i, j)
  PROVE  Heap(i, r)
<1>1. SameHeap(i, j)
  BY DEF Rebound, SameRest, SameHeap
<1> QED
  BY <1>1, HeapSame

\* Traces are flushed one by one.
LEMMA HeapShrunk ==
  ASSUME TraceAssumption, NEW i \in JRec, NEW j \in JRec, NEW r, Live(j, r), Slots(j),
         Saved(j) # {} => j.mcarea, \A f \in j.nojit : j.chain[f] = 0 \/ i.chain[f] = 0,
         Linked(i), Shrunk(i, j)
  PROVE  Heap(i, r)
<1>1. /\ Saved(i) = Saved(j) /\ i.no = j.no /\ i.freetrace = j.freetrace
      /\ i.nojit = j.nojit /\ i.mcarea = j.mcarea
  BY DEF Shrunk, SameElse, SameRecording
<1>2. Live(i, r)
  BY LiveShrunk
<1>3. ASSUME NEW n \in Traces
      PROVE  /\ i.trace[n] = Cur <=> j.trace[n] = Cur
             /\ i.trace[n] = Nil <=> j.trace[n] = Nil
  <2>1. CASE n \in Saved(j)
    <3>1. n \in Saved(i)
      BY <1>1, <2>1
    <3> QED
      BY <2>1, <3>1 DEF Saved
  <2>2. CASE n \notin Saved(j)
    BY <2>2 DEF Shrunk
  <2> QED
    BY <2>1, <2>2
<1>4. Slots(i)
  BY <1>1, <1>3 DEF Slots
<1>5. ASSUME NEW f \in i.nojit
      PROVE  i.chain[f] = 0
  <2>1. f \in Protos /\ (j.chain[f] = 0 \/ i.chain[f] = 0)
    BY <1>1 DEF JRec
  <2>2. \A m \in {} : NextRoot(j)[m] \in {} \cup {0}
    OBVIOUS
  <2>3. j.chain[f] \in {} \cup {0} => i.chain[f] \in {} \cup {0}
    BY <2>1, <2>2 DEF Shrunk
  <2> QED
    BY <2>1, <2>3
<1> QED
  BY <1>1, <1>2, <1>4, <1>5 DEF Heap

\* All traces are flushed.
LEMMA HeapEmptied ==
  ASSUME TraceAssumption, NEW i \in JRec, NEW j \in JRec, Linked(i), Emptied(i, j)
  PROVE  Heap(i, 0)
<1>1. Live(i, 0)
  BY LiveEmptied
<1>2. Saved(i) = {}
  BY DEF Emptied, Saved
<1>3. Slots(i)
  <2>1. \A n \in Traces : i.trace[n] = Nil /\ n # 0 /\ i.no = 0
    BY TraceNumbers DEF Emptied
  <2>2. i.freetrace = 0 /\ \A n \in Traces : ~(n < 0)
    BY DEF Emptied, Traces
  <2> QED
    BY <2>1, <2>2 DEF Slots, TraceAssumption
<1>4. \A f \in i.nojit : i.chain[f] = 0
  BY DEF Emptied, JRec
<1> QED
  BY <1>1, <1>2, <1>3, <1>4 DEF Heap

\* The three ways to flush, as the program calls them.
LEMMA FlushesHeap ==
  ASSUME TraceAssumption, NEW j \in JRec, NEW r, Heap(j, r), j.patch = Nil, CurBegins(j)
  PROVE  /\ \A n \in Traces : /\ FlushTrace(j, n) \in JRec /\ Heap(FlushTrace(j, n), r)
                              /\ Shrunk(FlushTrace(j, n), j)
         /\ \A f \in Protos : /\ FlushProto(j, f) \in JRec /\ Heap(FlushProto(j, f), r)
                              /\ Shrunk(FlushProto(j, f), j)
         /\ /\ FlushAll(j) \in JRec /\ Heap(FlushAll(j), 0)
            /\ SameRecording(FlushAll(j), j) /\ FlushAll(j).no = 0
<1>0. Linked(j)
  BY DEF Heap
<1>1. ASSUME NEW n \in Traces, NEW i, i = FlushTrace(j, n)
      PROVE  i \in JRec /\ Heap(i, r) /\ Shrunk(i, j)
  BY <1>0, <1>1, FlushTraceFacts, HeapShrunk DEF Heap
<1>2. ASSUME NEW f \in Protos, NEW i, i = FlushProto(j, f)
      PROVE  i \in JRec /\ Heap(i, r) /\ Shrunk(i, j)
  BY <1>0, <1>2, FlushProtoFacts, HeapShrunk DEF Heap
<1>3. ASSUME NEW i, i = FlushAll(j)
      PROVE  i \in JRec /\ Heap(i, 0) /\ SameRecording(i, j) /\ i.no = 0
  <2>1. j.held \in Traces => j.held \in Saved(j)
    BY HeldSaved DEF Heap
  <2>2. i \in JRec /\ Linked(i) /\ Emptied(i, j)
    BY <1>0, <1>3, <2>1, FlushAllFacts
  <2> QED
    BY <2>2, HeapEmptied DEF Emptied
<1> QED
  BY <1>1, <1>2, <1>3


\* jit.off(f): the prototype is excluded, and its traces are flushed.
LEMMA FlushOffHeap ==
  ASSUME TraceAssumption, NEW j \in JRec, NEW r, Heap(j, r), j.patch = Nil,
         NEW f \in Protos, NEW k, k = [j EXCEPT !.nojit = @ \cup {f}],
         NEW i, i = FlushProto(k, f)
  PROVE  i \in JRec /\ Heap(i, r) /\ SameElse(i, k)
<1>1. k \in JRec
  <2>1. j.nojit \cup {f} \in SUBSET Protos
    BY DEF JRec
  <2> QED
    BY <2>1 DEF JRec
<1>2. /\ k.trace = j.trace /\ k.chain = j.chain /\ k.held = j.held /\ k.no = j.no
      /\ k.freetrace = j.freetrace /\ k.mcarea = j.mcarea /\ k.ins = j.ins
      /\ k.patch = j.patch /\ k.nojit = j.nojit \cup {f}
  BY DEF JRec
<1>3. Saved(k) = Saved(j)
  BY <1>2 DEF Saved
<1>4. Linked(k)
  <2>1. \A g \in Protos : Owned(k, g) = Owned(j, g)
    BY <1>2 DEF Owned, IsJit
  <2>2. /\ \A q \in Pcs : IsJit(k, q) => Begins(j, k.ins[q].d, q) /\ Kind[q] # "call"
        /\ \A q \in Pcs : ~IsJit(k, q) => k.ins[q].d = 0
    BY <1>2 DEF Linked, Heap, IsJit
  <2>3. Linked(j) /\ k.patch = Nil
    BY <1>2 DEF Heap
  <2> QED
    BY <1>2, <2>1, <2>2, <2>3, LinkedRebound
<1>5. Live(k, r)
  <2>1. \A n \in Saved(j) : n \in Saved(k) /\ k.trace[n] = j.trace[n]
    BY <1>2, <1>3
  <2> QED
    BY <1>2, <2>1, LiveSame DEF Heap
<1>6. Slots(k)
  <2>1. Slots(j) /\ k.trace = j.trace /\ k.no = j.no /\ k.freetrace = j.freetrace
    BY <1>2 DEF Heap
  <2> QED
    BY <2>1, Zenon DEF Slots
<1>7. Saved(k) # {} => k.mcarea
  BY <1>2, <1>3, Zenon DEF Heap
<1>8. i \in JRec /\ Linked(i) /\ Shrunk(i, k) /\ i.chain[f] = 0
  BY <1>1, <1>2, <1>4, FlushProtoFacts
<1>9. \A g \in k.nojit : k.chain[g] = 0 \/ i.chain[g] = 0
  BY <1>2, <1>8 DEF Heap
<1> QED
  BY <1>1, <1>5, <1>6, <1>7, <1>8, <1>9, HeapShrunk DEF Shrunk


-----------------------------------------------------------------------------
\* Slots are taken and given back.

\* The slots and the hint where the search for the next one starts.
SetSlot(j, x, n, h) == [j EXCEPT !.trace = x, !.no = n, !.freetrace = h]

\* What the slot of the recording does not matter to.
SameOthers(i, j) ==
  /\ SameRecording(i, j) /\ i.ins = j.ins /\ i.chain = j.chain /\ i.held = j.held
  /\ i.mcarea = j.mcarea
  /\ Saved(i) = Saved(j) /\ \A m \in Saved(j) : i.trace[m] = j.trace[m]

\* A slot, the number of the recording and the hint are set.
LEMMA SetSlotFacts ==
  ASSUME NEW j \in JRec, NEW x \in [Traces -> TraceRecs \cup {Nil, Cur}],
         NEW n \in Numbers, NEW h \in 0..(MaxTrace + 1), NEW i, i = SetSlot(j, x, n, h)
  PROVE  /\ i \in JRec /\ i.trace = x /\ i.no = n /\ i.freetrace = h
         /\ SameRecording(i, j) /\ i.ins = j.ins /\ i.chain = j.chain /\ i.held = j.held
         /\ i.mcarea = j.mcarea
<1>1. i \in JRec
  <2>1. x \in [Traces -> TraceRecs \cup {Nil, Cur}] /\ n \in Numbers /\ h \in 0..(MaxTrace + 1)
    OBVIOUS
  <2> QED
    BY <2>1, Zenon DEF JRec, SetSlot
<1>2. /\ i.trace = x /\ i.no = n /\ i.freetrace = h
      /\ SameRecording(i, j) /\ i.ins = j.ins /\ i.chain = j.chain /\ i.held = j.held
      /\ i.mcarea = j.mcarea
  BY DEF JRec, SetSlot, SameRecording
<1> QED
  BY <1>1, <1>2

\* A slot that does not hold a finished trace does not matter.
LEMMA HeapOthers ==
  ASSUME TraceAssumption, NEW i \in JRec, NEW j \in JRec, NEW r, Heap(j, r),
         SameOthers(i, j), Slots(i)
  PROVE  Heap(i, r) /\ \A f \in Protos : Owned(i, f) = Owned(j, f)
<1>1. /\ i.ins = j.ins /\ i.chain = j.chain /\ i.held = j.held /\ i.patch = j.patch
      /\ i.mcarea = j.mcarea /\ i.nojit = j.nojit
      /\ Saved(i) = Saved(j) /\ \A m \in Saved(j) : i.trace[m] = j.trace[m]
  BY DEF SameOthers, SameRecording
<1>2. Linked(i) /\ \A f \in Protos : Owned(i, f) = Owned(j, f)
  <2>1. ASSUME NEW f \in Protos, NEW n \in Owned(j, f)
        PROVE  /\ n \in Saved(i) /\ i.trace[n].pc = j.trace[n].pc
               /\ i.trace[n].root = j.trace[n].root /\ i.trace[n].nextroot = j.trace[n].nextroot
    BY <1>1, OwnedSaved DEF Heap
  <2>2. \A n \in Saved(i) : i.trace[n].root = 0 => i.trace[n].pc \in Pcs
    BY <1>1 DEF Heap, Linked
  <2> QED
    BY <1>1, <2>1, <2>2, LinkedSame DEF Heap
<1>3. Live(i, r)
  BY <1>1, LiveSame DEF Heap
<1>4. \A f \in i.nojit : i.chain[f] = 0
  BY <1>1 DEF Heap
<1>5. Saved(i) # {} => i.mcarea
  BY <1>1, Zenon DEF Heap
<1> QED
  BY <1>2, <1>3, <1>4, <1>5 DEF Heap

\* trace_findfree
LEMMA FindFreeFacts ==
  ASSUME TraceAssumption, NEW j \in JRec, Slots(j), NEW n, n = FindFree(j), n # 0
  PROVE  /\ n \in Traces /\ j.trace[n] = Nil
         /\ \A m \in Traces : m < n => j.trace[m] # Nil
<1> DEFINE free == {m \in Traces : m >= j.freetrace /\ j.trace[m] = Nil}
<1>1. n = IF free = {} THEN 0 ELSE CHOOSE m \in free : \A k \in free : m <= k
  BY DEF FindFree
<1>2. free # {} /\ free \in SUBSET Nat
  BY <1>1 DEF Traces
<1> HIDE DEF free
<1>3. \E m \in free : \A k \in free : m <= k
  BY <1>2, LeastExists
<1>4. n \in free /\ \A k \in free : n <= k
  BY <1>1, <1>2, <1>3
<1>5. ASSUME NEW m \in Traces, m < n, j.trace[m] = Nil
      PROVE  FALSE
  <2>1. m \notin free
    BY <1>2, <1>4, <1>5 DEF Traces
  <2>2. m \in Nat /\ j.freetrace \in Nat
    BY DEF Traces, JRec
  <2>3. ~(m >= j.freetrace)
    BY <1>5, <2>1 DEF free
  <2> QED
    BY <1>5, <2>2, <2>3 DEF Slots
<1> QED
  BY <1>4, <1>5 DEF free

\* Slot n is taken for a recording.
Taken(j, n) == [j EXCEPT !.trace[n] = Cur, !.no = n, !.freetrace = n + 1]

\* trace_findfree and the start of a recording.
LEMMA TakeSlot ==
  ASSUME TraceAssumption, NEW j \in JRec, NEW r, Heap(j, r), j.no = 0,
         NEW n, n = FindFree(j), n # 0,
         NEW i, i = Taken(j, n)
  PROVE  /\ i \in JRec /\ SameOthers(i, j) /\ Heap(i, r) /\ i.no = n
         /\ \A f \in Protos : Owned(i, f) = Owned(j, f)
<1>1. /\ n \in Traces /\ j.trace[n] = Nil
      /\ \A m \in Traces : m < n => j.trace[m] # Nil
  BY FindFreeFacts DEF Heap
<1> DEFINE x == [j.trace EXCEPT ![n] = Cur]
           h == n + 1
<1>2. x \in [Traces -> TraceRecs \cup {Nil, Cur}]
  BY <1>1 DEF JRec
<1>3. \A m \in Traces : x[m] = IF m = n THEN Cur ELSE j.trace[m]
  BY <1>1 DEF JRec
<1>4. i = SetSlot(j, x, n, h)
  BY DEF SetSlot, Taken
<1>5. n \in Numbers /\ h \in 0..(MaxTrace + 1) /\ n \in Nat
  BY <1>1 DEF Traces, Numbers, TraceAssumption
<1> HIDE DEF x, h
<1>6. /\ i \in JRec /\ i.trace = x /\ i.no = n /\ i.freetrace = h
      /\ SameRecording(i, j) /\ i.ins = j.ins /\ i.chain = j.chain /\ i.held = j.held
      /\ i.mcarea = j.mcarea
  BY <1>2, <1>4, <1>5, SetSlotFacts
<1>7. n \notin Saved(j) /\ n \notin Saved(i)
  BY <1>1, <1>3, <1>6 DEF Saved
<1>8. Saved(i) = Saved(j) /\ \A m \in Saved(j) : i.trace[m] = j.trace[m]
  BY <1>3, <1>6, <1>7 DEF Saved
<1>9. SameOthers(i, j)
  BY <1>6, <1>8 DEF SameOthers
<1>10. Slots(i)
  <2>1. \A m \in Traces : j.trace[m] # Cur
    BY TraceNumbers DEF Heap, Slots
  <2>2. \A m \in Traces : i.trace[m] = Cur <=> i.no = m
    BY <1>3, <1>6, <2>1
  <2>3. ASSUME NEW m \in Traces, m < i.freetrace
        PROVE  i.trace[m] # Nil
    <3>1. m < n \/ m = n
      BY <1>5, <1>6, <2>3 DEF Traces, h
    <3> QED
      BY <1>1, <1>3, <1>6, <3>1 DEF TraceAssumption
  <2> QED
    BY <2>2, <2>3 DEF Slots
<1> QED
  BY <1>6, <1>9, <1>10, HeapOthers

\* The slot of an aborted recording is cleared.
LEMMA DropFacts ==
  ASSUME TraceAssumption, NEW j \in JRec, NEW r, Heap(j, r), NEW n, n = j.no, n # 0,
         NEW i, i = Drop(j, n)
  PROVE  /\ i \in JRec /\ SameOthers(i, j) /\ Heap(i, r) /\ i.no = 0
         /\ \A f \in Protos : Owned(i, f) = Owned(j, f)
<1>1. n \in Traces /\ j.trace[n] = Cur /\ n \in Nat /\ j.freetrace \in 0..(MaxTrace + 1)
  BY TraceNumbers DEF JRec, Heap, Slots, Traces
<1> DEFINE x == [j.trace EXCEPT ![n] = Nil]
           h == IF n < j.freetrace THEN n ELSE j.freetrace
<1>2. x \in [Traces -> TraceRecs \cup {Nil, Cur}]
  BY <1>1 DEF JRec
<1>3. \A m \in Traces : x[m] = IF m = n THEN Nil ELSE j.trace[m]
  BY <1>1 DEF JRec
<1>4. i = SetSlot(j, x, 0, h)
  BY DEF SetSlot, Drop, JRec
<1>5. h \in 0..(MaxTrace + 1) /\ h <= n /\ h <= j.freetrace
  BY <1>1 DEF Traces, TraceAssumption
<1> HIDE DEF x, h
<1>6. /\ i \in JRec /\ i.trace = x /\ i.no = 0 /\ i.freetrace = h
      /\ SameRecording(i, j) /\ i.ins = j.ins /\ i.chain = j.chain /\ i.held = j.held
      /\ i.mcarea = j.mcarea
  BY <1>2, <1>4, <1>5, TraceNumbers, SetSlotFacts
<1>7. n \notin Saved(j) /\ n \notin Saved(i)
  BY <1>1, <1>3, <1>6 DEF Saved
<1>8. Saved(i) = Saved(j) /\ \A m \in Saved(j) : i.trace[m] = j.trace[m]
  BY <1>3, <1>6, <1>7 DEF Saved
<1>9. SameOthers(i, j)
  BY <1>6, <1>8 DEF SameOthers
<1>10. Slots(i)
  <2>1. \A m \in Traces : i.trace[m] # Cur
    BY <1>1, <1>3, <1>6 DEF Heap, Slots, TraceAssumption
  <2>2. \A m \in Traces : i.trace[m] = Cur <=> i.no = m
    BY <1>6, <2>1, TraceNumbers
  <2>3. ASSUME NEW m \in Traces, m < i.freetrace
        PROVE  i.trace[m] # Nil
    <3>1. m # n /\ m < j.freetrace
      BY <1>1, <1>5, <1>6, <2>3 DEF Traces
    <3> QED
      BY <1>3, <1>6, <3>1 DEF Heap, Slots
  <2> QED
    BY <2>2, <2>3 DEF Slots
<1> QED
  BY <1>6, <1>9, <1>10, HeapOthers


-----------------------------------------------------------------------------
\* A stitched trace is linked to itself, and a trace is collected.

SelfLink(j, n) == [j EXCEPT !.trace[n].link = n]
\* A stitched trace that is not tried again.
LEMMA SelfLinked ==
  ASSUME TraceAssumption, NEW j \in JRec, NEW r, Heap(j, r), NEW n \in Saved(j),
         NEW i, i = SelfLink(j, n)
  PROVE  /\ i \in JRec /\ SameElse(i, j) /\ Heap(i, r) /\ Saved(i) = Saved(j) /\ i.ins = j.ins
         /\ \A m \in Saved(j) : i.trace[m].root = j.trace[m].root
<1>1. n \in Traces /\ j.trace[n] \in TraceRecs /\ n \in Numbers
  BY SavedIsRecord, TraceNumbers
<1> DEFINE t == [j.trace[n] EXCEPT !.link = n]
           x == [j.trace EXCEPT ![n] = t]
<1>2. /\ t \in TraceRecs /\ t.link = n /\ t.nextroot = j.trace[n].nextroot
      /\ t.nextside = j.trace[n].nextside /\ t.root = j.trace[n].root
      /\ t.exit = j.trace[n].exit /\ t.pc = j.trace[n].pc
  BY <1>1 DEF TraceRecs, Numbers
<1>3. i = [j EXCEPT !.trace = x]
  BY DEF SelfLink
<1> HIDE DEF t
<1>4. x \in [Traces -> TraceRecs \cup {Nil, Cur}]
  BY <1>1, <1>2 DEF JRec
<1>5. \A m \in Traces : x[m] = IF m = n THEN t ELSE j.trace[m]
  BY <1>1 DEF JRec
<1> HIDE DEF x
<1>6. i \in JRec /\ SameElse(i, j) /\ i.trace = x /\ i.chain = j.chain /\ i.ins = j.ins
  BY <1>3, <1>4, SetTrace
<1>7. Saved(i) = Saved(j)
  <2>1. t \notin {Nil, Cur}
    BY <1>2 DEF TraceAssumption
  <2> QED
    BY <1>5, <1>6, <2>1 DEF Saved
<1>8. \A m \in Saved(j) :
        /\ i.trace[m].link = IF m = n THEN n ELSE j.trace[m].link
        /\ i.trace[m].nextroot = j.trace[m].nextroot
        /\ i.trace[m].nextside = j.trace[m].nextside
        /\ i.trace[m].root = j.trace[m].root /\ i.trace[m].exit = j.trace[m].exit
        /\ i.trace[m].pc = j.trace[m].pc
  BY <1>2, <1>5, <1>6, SavedIsRecord
<1>9. /\ i.held = j.held /\ i.patch = j.patch /\ i.no = j.no /\ i.freetrace = j.freetrace
      /\ i.nojit = j.nojit /\ i.mcarea = j.mcarea
  BY <1>6 DEF SameElse, SameRecording
<1>10. Live(i, r)
  <2>1. Live(j, r)
    BY DEF Heap
  <2>2. i.chain = j.chain /\ i.held = j.held
    BY <1>6, <1>9
  <2> QED
    BY <1>7, <1>8, <2>1, <2>2, LiveSelf
<1>11. Linked(i)
  <2>1. ASSUME NEW f \in Protos, NEW m \in Owned(j, f)
        PROVE  /\ m \in Saved(i) /\ i.trace[m].pc = j.trace[m].pc
               /\ i.trace[m].root = j.trace[m].root /\ i.trace[m].nextroot = j.trace[m].nextroot
    <3>1. m \in Saved(j)
      BY OwnedSaved DEF Heap
    <3> QED
      BY <1>7, <1>8, <3>1
  <2>2. \A m \in Saved(i) : i.trace[m].root = 0 => i.trace[m].pc \in Pcs
    BY <1>7, <1>8 DEF Heap, Linked
  <2> QED
    BY <1>6, <1>9, <2>1, <2>2, LinkedSame DEF Heap
<1>12. Slots(i)
  <2>1. j.trace[n] \notin {Nil, Cur} /\ i.trace[n] \notin {Nil, Cur}
    BY <1>7 DEF Saved
  <2>2. \A m \in Traces : m # n => i.trace[m] = j.trace[m]
    BY <1>5, <1>6
  <2> QED
    BY <1>9, <2>1, <2>2 DEF Heap, Slots
<1>13. /\ \A f \in i.nojit : i.chain[f] = 0
       /\ Saved(i) # {} => i.mcarea
  BY <1>6, <1>7, <1>9 DEF Heap
<1> QED
  BY <1>6, <1>7, <1>8, <1>10, <1>11, <1>12, <1>13 DEF Heap

\* What the collector marks includes the chains and the frame, and what traces refer to.
LEMMA Marked ==
  ASSUME TraceAssumption, NEW j \in JRec
  PROVE  /\ Reachable(j) \in SUBSET Traces
         /\ \A f \in Protos : j.chain[f] \in Reachable(j) \cup {0}
         /\ j.held \in Reachable(j) \cup {0, Nil}
         /\ \A m \in Reachable(j) : m \in Saved(j) =>
              /\ j.trace[m].link \in Reachable(j) \cup {0}
              /\ j.trace[m].nextroot \in Reachable(j) \cup {0}
              /\ j.trace[m].nextside \in Reachable(j) \cup {0}
<1> DEFINE S == ({j.chain[f] : f \in Protos} \cup {j.held}
                 \cup (IF j.no # 0 THEN Refs(j.cur) ELSE {})) \ {0, Nil}
           next == [n \in Traces |-> IF j.trace[n] = Nil THEN {} ELSE Refs(TraceRef(j, n))]
           R == Closure(S, next)
<1>1. R = Reachable(j)
  BY DEF Reachable
<1>2. ASSUME NEW t \in TraceRecs
      PROVE  Refs(t) \subseteq Traces
  <2>1. t.link \in Numbers /\ t.nextroot \in Numbers /\ t.nextside \in Numbers
    BY DEF TraceRecs, Numbers
  <2> QED
    BY <2>1, TraceNumbers DEF Refs
<1>3. S \in SUBSET Traces
  <2>1. \A f \in Protos : j.chain[f] \in Numbers
    BY DEF JRec
  <2>2. j.held \in Numbers \cup {Nil} /\ j.cur \in TraceRecs
    BY DEF JRec
  <2>3. Refs(j.cur) \subseteq Traces
    BY <1>2, <2>2
  <2> QED
    BY <2>1, <2>2, <2>3, TraceNumbers
<1>4. ASSUME NEW m \in Saved(j)
      PROVE  m \in Traces /\ next[m] = Refs(j.trace[m]) /\ next[m] \subseteq Traces
  <2>1. m \in Traces /\ j.trace[m] \in TraceRecs
    BY SavedIsRecord
  <2>2. next[m] = Refs(j.trace[m])
    BY <2>1 DEF TraceRef, Saved
  <2> QED
    BY <1>2, <2>1, <2>2
<1>5. \A f \in Protos : j.chain[f] \in S \cup {0}
  BY TraceNumbers DEF JRec, Numbers
<1>6. j.held \in S \cup {0, Nil}
  OBVIOUS
<1> HIDE DEF S, next
<1>7. S \subseteq R
  BY <1>3, ClosureContains
<1>8. ASSUME NEW m \in R, m \in Saved(j)
      PROVE  /\ j.trace[m].link \in R \cup {0} /\ j.trace[m].nextroot \in R \cup {0}
             /\ j.trace[m].nextside \in R \cup {0}
  <2>1. next[m] \subseteq R
    BY <1>4, <1>8, ClosureClosed
  <2> QED
    BY <1>4, <1>8, <2>1 DEF Refs
<1>9. R \in SUBSET Traces
  BY DEF Closure
<1> HIDE DEF R
<1> QED
  BY <1>1, <1>5, <1>6, <1>7, <1>8, <1>9

\* Trace n is freed.
Swept(j, n) == [j EXCEPT !.trace[n] = Nil, !.freetrace = IF n < @ THEN n ELSE @]

\* lj_trace_free: an unmarked trace is freed.
LEMMA CollectFacts ==
  ASSUME TraceAssumption, NEW j \in JRec, Heap(j, 0), NEW n \in Saved(j) \ Reachable(j),
         NEW i, i = Swept(j, n)
  PROVE  /\ i \in JRec /\ SameRecording(i, j) /\ i.no = j.no /\ Heap(i, 0) /\ i.ins = j.ins
         /\ i.mcarea = j.mcarea
         /\ Saved(i) = Saved(j) \ {n} /\ \A m \in Saved(i) : i.trace[m] = j.trace[m]
<1>1. n \in Traces /\ n \in Nat /\ j.freetrace \in 0..(MaxTrace + 1) /\ j.no \in Numbers
  BY DEF JRec, Saved, Traces
<1> DEFINE x == [j.trace EXCEPT ![n] = Nil]
           h == IF n < j.freetrace THEN n ELSE j.freetrace
<1>2. x \in [Traces -> TraceRecs \cup {Nil, Cur}]
  BY <1>1 DEF JRec
<1>3. \A m \in Traces : x[m] = IF m = n THEN Nil ELSE j.trace[m]
  BY <1>1 DEF JRec
<1>4. i = SetSlot(j, x, j.no, h)
  <2>1. j.no = j.no /\ i = [j EXCEPT !.trace = x, !.no = j.no, !.freetrace = h]
    BY DEF Swept, JRec
  <2> QED
    BY <2>1 DEF SetSlot
<1>5. h \in 0..(MaxTrace + 1) /\ h <= n /\ h <= j.freetrace
  BY <1>1 DEF Traces, TraceAssumption
<1> HIDE DEF x, h
<1>6. /\ i \in JRec /\ i.trace = x /\ i.no = j.no /\ i.freetrace = h
      /\ SameRecording(i, j) /\ i.ins = j.ins /\ i.chain = j.chain /\ i.held = j.held
      /\ i.mcarea = j.mcarea
  BY <1>1, <1>2, <1>4, <1>5, SetSlotFacts
<1>7. Saved(i) = Saved(j) \ {n} /\ \A m \in Saved(i) : i.trace[m] = j.trace[m]
  BY <1>3, <1>6 DEF Saved
<1>8. i.patch = j.patch /\ i.nojit = j.nojit
  BY <1>6 DEF SameRecording
<1>9. Linked(j) /\ Live(j, 0)
  BY DEF Heap
<1>10. Live(i, 0)
  <2>1. n \in Traces \ Reachable(j)
    BY <1>1
  <2> DEFINE R == Reachable(j)
  <2>2. /\ R \in SUBSET Traces
        /\ \A f \in Protos : j.chain[f] \in R \cup {0}
        /\ j.held \in R \cup {0, Nil}
        /\ \A m \in R : m \in Saved(j) =>
             /\ j.trace[m].link \in R \cup {0}
             /\ j.trace[m].nextroot \in R \cup {0}
             /\ j.trace[m].nextside \in R \cup {0}
    BY Marked
  <2> HIDE DEF R
  <2>3. n \in Traces \ R
    BY <2>1 DEF R
  <2>4. i.chain = j.chain /\ i.held = j.held
    BY <1>6
  <2> QED
    BY <1>7, <1>9, <2>2, <2>3, <2>4, LiveCollect
<1>11. \A f \in Protos : n \notin Owned(j, f)
  <2>1. PICK M \in SUBSET Traces : Kept(j, M)
    BY <1>9 DEF Live
  <2> DEFINE W == M \cap Reachable(j)
  <2>2. ASSUME NEW f \in Protos
        PROVE  Owned(j, f) \subseteq W
    <3>1. j.chain[f] \in W \cup {0}
      BY <2>1, Marked DEF Kept
    <3>2. \A m \in W : m \in Saved(j) /\ j.trace[m].nextroot \in W \cup {0}
      BY <2>1, Marked DEF Kept
    <3> HIDE DEF W
    <3> QED
      BY <1>9, <3>1, <3>2, OwnedFound
  <2> QED
    BY <2>2
<1>12. Linked(i)
  <2>1. ASSUME NEW f \in Protos, NEW m \in Owned(j, f)
        PROVE  /\ m \in Saved(i) /\ i.trace[m].pc = j.trace[m].pc
               /\ i.trace[m].root = j.trace[m].root /\ i.trace[m].nextroot = j.trace[m].nextroot
    <3>1. m \in Saved(j)
      BY <1>9, OwnedSaved
    <3> QED
      BY <1>7, <1>11, <3>1
  <2>2. \A m \in Saved(i) : i.trace[m].root = 0 => i.trace[m].pc \in Pcs
    BY <1>7, <1>9 DEF Linked
  <2> QED
    BY <1>6, <1>8, <1>9, <2>1, <2>2, LinkedSame
<1>13. Slots(i)
  <2>1. j.trace[n] # Cur
    BY DEF Saved
  <2>2. \A m \in Traces : i.trace[m] = Cur <=> i.no = m
    BY <1>3, <1>6, <2>1 DEF Heap, Slots, TraceAssumption
  <2>3. ASSUME NEW m \in Traces, m < i.freetrace
        PROVE  i.trace[m] # Nil
    <3>1. m # n /\ m < j.freetrace
      BY <1>1, <1>5, <1>6, <2>3 DEF Traces
    <3> QED
      BY <1>3, <1>6, <3>1 DEF Heap, Slots
  <2> QED
    BY <2>2, <2>3 DEF Slots
<1>14. /\ \A f \in i.nojit : i.chain[f] = 0
       /\ Saved(i) # {} => i.mcarea
  BY <1>6, <1>7, <1>8 DEF Heap
<1> QED
  BY <1>6, <1>7, <1>10, <1>12, <1>13, <1>14 DEF Heap
=============================================================================
