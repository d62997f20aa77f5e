---------------------------- MODULE Close_proofs ----------------------------
(***************************************************************************)
(* Proofs about Close, for any number of values, errors and frames.        *)
(*                                                                         *)
(* What coroutine.status says of a thread agrees with the checks of        *)
(* coroutine.resume.  A closer keeps its error.  And where pcall is called *)
(* by Lua code and the handlers of a coroutine have no variables of their  *)
(* own (Careful), every variable has somebody who closes it, once, newest  *)
(* first, and the errors that are handed on are errors.                    *)
(***************************************************************************)
EXTENDS Close, NatLemmas

-----------------------------------------------------------------------------
(* The stack of a thread, as Close changes it: what a frame that closes    *)
(* variables says about the frames below it, what returns and errors do to *)
(* the stack, and which errors its closers hold.                           *)

\* Frames with errors out of E.
FrameType(E) == [k : Plain \cup Closers, err : E, low : Nat \X Nat, to : Nat]

Unwinders == {"after_error", "unwind"}
InC == {"call", "cpcall", "unwind"}
Catchers == InC \cup {"pcall", "caught"}

UnwinderOK(fs, i) ==
  /\ fs[i].to < i /\ fs[i].low = <<fs[i].to + 1, 1>>
  /\ fs[i].to > 0 => fs[fs[i].to].k \in Catchers /\ fs[i].err # Nil
  /\ fs[i].k = "after_error" => fs[i].to > 0
  /\ \/ \A j \in fs[i].to + 1 .. i - 1 : fs[j].k = "dead"
     \/ fs[i].to = 0

ScopeOK(fs, i) ==
  /\ i > 1 /\ fs[i - 1].k = "lua" /\ fs[i].low[1] = i - 1 /\ fs[i].low[2] >= 1
  /\ fs[i].k = "on_return" => fs[i].low[2] = 1

ShapeTo(fs, c) == \A i \in 1 .. c :
  /\ fs[i].k \in Unwinders => UnwinderOK(fs, i)
  /\ fs[i].k \in {"scope", "on_return"} => ScopeOK(fs, i)
Shape(fs) == ShapeTo(fs, Len(fs))

\* What may happen to a frame below the top: pcall has caught an error, a closer is
\* handed another error.
Alike(a, b) == /\ a.k = b.k \/ (a.k = "pcall" /\ b.k = "caught")
               /\ a.low = b.low /\ a.to = b.to
               /\ a.err # Nil => b.err # Nil
SameUpTo(fs, g, c) == \A i \in 1 .. c : Alike(fs[i], g[i])

\* A prefix of the stack.
LEMMA CutFacts ==
  ASSUME NEW S, NEW fs \in Seq(S), NEW c \in 0 .. Len(fs)
  PROVE  /\ Cut(fs, c) \in Seq(S) /\ Len(Cut(fs, c)) = c
         /\ \A i \in 1 .. c : Cut(fs, c)[i] = fs[i]
BY Prefix DEF Cut

\* A new frame that closes nothing.
LEMMA FrameTyped ==
  ASSUME NEW E, Nil \in E, NEW k \in Plain \cup Closers
  PROVE  Frame(k) \in FrameType(E) /\ Frame(k).k = k
BY DEF Frame, FrameType

\* Deaden keeps the length of the stack and marks what is above frame n.
LEMMA DeadenFacts ==
  ASSUME NEW E, Nil \in E, NEW fs \in Seq(FrameType(E)), NEW n \in Nat
  PROVE  /\ Deaden(fs, n) \in Seq(FrameType(E)) /\ Len(Deaden(fs, n)) = Len(fs)
         /\ \A i \in 1 .. Len(fs) :
              Deaden(fs, n)[i] = IF i > n THEN Frame("dead") ELSE fs[i]
<1>1. Frame("dead") \in FrameType(E)
  BY FrameTyped DEF Plain
<1>2. DOMAIN fs = 1 .. Len(fs) /\ Len(fs) \in Nat
  OBVIOUS
<1>3. \A i \in 1 .. Len(fs) : fs[i] \in FrameType(E)
  OBVIOUS
<1> HIDE DEF FrameType, Frame
<1> QED
  BY <1>1, <1>2, <1>3 DEF Deaden

\* Up to three frames are pushed one by one.
LEMMA PushIsAppend ==
  ASSUME NEW S, NEW s \in Seq(S), NEW a \in S, NEW b \in S, NEW c \in S
  PROVE  /\ s \o <<a>> = Append(s, a)
         /\ s \o <<a, b>> = Append(Append(s, a), b)
         /\ s \o <<a, b, c>> = Append(Append(Append(s, a), b), c)
OBVIOUS

\* A frame is judged by what is below it.
LEMMA ShapeBelow ==
  ASSUME NEW E, NEW fs \in Seq(FrameType(E)), NEW c \in 0 .. Len(fs), ShapeTo(fs, c),
         NEW g, SameUpTo(fs, g, c)
  PROVE  ShapeTo(g, c)
<1>1. ASSUME NEW i \in 1 .. c PROVE fs[i].to \in Nat /\ Alike(fs[i], g[i]) /\ i <= c /\ c \in Nat
  <2>1. fs[i] \in FrameType(E)
    BY ElementOfSeq
  <2> QED
    BY <2>1 DEF FrameType, SameUpTo
<1>2. ASSUME NEW i \in 1 .. c, g[i].k \in Unwinders
      PROVE  UnwinderOK(g, i)
  <2>1. fs[i].k = g[i].k
    BY <1>1, <1>2 DEF Alike, Unwinders
  <2>2. UnwinderOK(fs, i)
    BY <1>2, <2>1 DEF ShapeTo
  <2>3. ASSUME fs[i].to > 0 PROVE g[fs[i].to].k \in Catchers
    BY <1>1, <2>2, <2>3 DEF UnwinderOK, Alike, Catchers
  <2>4. ASSUME NEW j \in fs[i].to + 1 .. i - 1, fs[j].k = "dead"
        PROVE  g[j].k = "dead"
    BY <1>1, <2>4 DEF Alike
  <2> QED
    BY <1>1, <2>1, <2>2, <2>3, <2>4 DEF UnwinderOK, Alike
<1>3. ASSUME NEW i \in 1 .. c, g[i].k \in {"scope", "on_return"}
      PROVE  ScopeOK(g, i)
  <2>1. fs[i].k = g[i].k
    BY <1>1, <1>3 DEF Alike
  <2>2. ScopeOK(fs, i)
    BY <1>3, <2>1 DEF ShapeTo
  <2>3. g[i - 1].k = "lua"
    BY <1>1, <2>2 DEF ScopeOK, Alike
  <2> QED
    BY <1>1, <2>1, <2>2, <2>3 DEF ScopeOK, Alike
<1> QED
  BY <1>2, <1>3 DEF ShapeTo

\* Prefixes, with another error for the last frame.
LEMMA CutAlike ==
  ASSUME NEW E, NEW fs \in Seq(FrameType(E)), NEW c \in 0 .. Len(fs)
  PROVE  /\ SameUpTo(fs, Cut(fs, c), c)
         /\ \A e \in E \ {Nil} : c > 0 =>
              /\ [Cut(fs, c) EXCEPT ![c].err = e] \in Seq(FrameType(E))
              /\ Len([Cut(fs, c) EXCEPT ![c].err = e]) = c
              /\ SameUpTo(fs, [Cut(fs, c) EXCEPT ![c].err = e], c)
<1> DEFINE h == Cut(fs, c)
<1>1. h \in Seq(FrameType(E)) /\ Len(h) = c /\ \A i \in 1 .. c : h[i] = fs[i]
  BY CutFacts
<1> HIDE DEF h
<1>2. SameUpTo(fs, h, c)
  BY <1>1 DEF SameUpTo, Alike
<1>3. ASSUME NEW e \in E \ {Nil}, c > 0
      PROVE  /\ [h EXCEPT ![c].err = e] \in Seq(FrameType(E))
             /\ Len([h EXCEPT ![c].err = e]) = c
             /\ SameUpTo(fs, [h EXCEPT ![c].err = e], c)
  <2> DEFINE f == [h[c] EXCEPT !.err = e]
             g == [h EXCEPT ![c] = f]
  <2>1. h[c] \in FrameType(E)
    BY <1>1, <1>3, ElementOfSeq
  <2>2. f \in FrameType(E) /\ Alike(h[c], f)
    BY <2>1 DEF FrameType, Alike
  <2> HIDE DEF f
  <2>3. /\ g \in Seq(FrameType(E)) /\ Len(g) = c
        /\ \A i \in 1 .. c : g[i] = IF i = c THEN f ELSE h[i]
    BY <1>1, <1>3, <2>2, ExceptSeq
  <2>4. SameUpTo(fs, g, c)
    BY <1>1, <2>2, <2>3 DEF SameUpTo, Alike
  <2> QED
    BY <2>3, <2>4 DEF f
<1> QED
  BY <1>2, <1>3 DEF h

\* A frame that fits goes on top.
LEMMA AppendShape ==
  ASSUME NEW E, NEW fs \in Seq(FrameType(E)), Shape(fs), NEW f \in FrameType(E),
         LET g == Append(fs, f) IN
         /\ f.k \in Unwinders => UnwinderOK(g, Len(g))
         /\ f.k \in {"scope", "on_return"} => ScopeOK(g, Len(g))
  PROVE  Append(fs, f) \in Seq(FrameType(E)) /\ Shape(Append(fs, f))
<1> DEFINE g == Append(fs, f)
<1>1. /\ g \in Seq(FrameType(E)) /\ Len(g) = Len(fs) + 1 /\ Len(fs) \in Nat
      /\ \A i \in 1 .. Len(fs) : g[i] = fs[i]
      /\ g[Len(fs) + 1] = f
  BY AppendProperties
<1>2. SameUpTo(fs, g, Len(fs))
  BY <1>1 DEF SameUpTo, Alike
<1>3. ShapeTo(g, Len(fs))
  BY <1>1, <1>2, ShapeBelow DEF Shape
<1> HIDE DEF g
<1>4. \A i \in 1 .. Len(g) : i \in 1 .. Len(fs) \/ i = Len(g)
  BY <1>1
<1> QED
  BY <1>1, <1>3, <1>4 DEF Shape, ShapeTo, g

\* The closer that ends at frame n, above frames of which nothing is left.
DeadenAbove(fs, n, k, e) == Append(Deaden(fs, n), Closer(k, e, <<n + 1, 1>>, n))

\* What the stack looks like after an unwinder has taken over frames.
LEMMA DeadenAboveFacts ==
  ASSUME NEW E, Nil \in E, NEW fs \in Seq(FrameType(E)), NEW n \in 0 .. Len(fs),
         NEW k \in Unwinders, NEW e \in E
  PROVE  LET g == DeadenAbove(fs, n, k, e)
             f == g[Len(fs) + 1]
         IN  /\ g \in Seq(FrameType(E)) /\ Len(g) = Len(fs) + 1
             /\ \A i \in 1 .. n : g[i] = fs[i]
             /\ \A i \in n + 1 .. Len(fs) : g[i].k = "dead"
             /\ f.k = k /\ f.err = e /\ f.low = <<n + 1, 1>> /\ f.to = n
<1> DEFINE h == Deaden(fs, n)
           top == Closer(k, e, <<n + 1, 1>>, n)
<1>1. Len(fs) \in Nat /\ n \in Nat /\ n <= Len(fs) /\ <<n + 1, 1>> \in Nat \X Nat
  OBVIOUS
<1>2. /\ h \in Seq(FrameType(E)) /\ Len(h) = Len(fs)
      /\ \A i \in 1 .. Len(fs) : h[i] = IF i > n THEN Frame("dead") ELSE fs[i]
  BY <1>1, DeadenFacts
<1>3. k \in Closers
  BY DEF Unwinders, Closers
<1>4. /\ top \in FrameType(E)
      /\ top.k = k /\ top.err = e /\ top.low = <<n + 1, 1>> /\ top.to = n
  BY <1>1, <1>3 DEF Closer, Frame, FrameType
<1>5. Frame("dead").k = "dead"
  BY DEF Frame
<1> HIDE DEF h, top
<1>6. /\ Append(h, top) \in Seq(FrameType(E)) /\ Len(Append(h, top)) = Len(fs) + 1
      /\ \A i \in 1 .. Len(fs) : Append(h, top)[i] = h[i]
      /\ Append(h, top)[Len(fs) + 1] = top
  BY <1>2, <1>4, AppendProperties
<1>7. DeadenAbove(fs, n, k, e) = Append(h, top)
  BY DEF DeadenAbove, h, top
<1>8. ASSUME NEW i \in 1 .. n PROVE Append(h, top)[i] = fs[i]
  BY <1>1, <1>2, <1>6
<1>9. ASSUME NEW i \in n + 1 .. Len(fs) PROVE Append(h, top)[i].k = "dead"
  BY <1>1, <1>2, <1>5, <1>6
<1> QED
  BY <1>4, <1>6, <1>7, <1>8, <1>9

\* It has the shape of a stack.
LEMMA DeadenShape ==
  ASSUME NEW E, Nil \in E, NEW fs \in Seq(FrameType(E)), Shape(fs),
         NEW n \in 0 .. Len(fs), NEW k \in Unwinders, NEW e \in E,
         n > 0 => fs[n].k \in Catchers /\ e # Nil,
         k = "after_error" => n > 0
  PROVE  Shape(DeadenAbove(fs, n, k, e))
<1> DEFINE g == DeadenAbove(fs, n, k, e)
<1>1. /\ g \in Seq(FrameType(E)) /\ Len(g) = Len(fs) + 1
      /\ \A i \in 1 .. n : g[i] = fs[i]
      /\ \A i \in n + 1 .. Len(fs) : g[i].k = "dead"
      /\ LET f == g[Len(fs) + 1] IN f.k = k /\ f.err = e /\ f.low = <<n + 1, 1>> /\ f.to = n
  BY DeadenAboveFacts
<1> HIDE DEF g
<1>2. ShapeTo(g, n)
  <2>1. SameUpTo(fs, g, n)
    BY <1>1 DEF SameUpTo, Alike
  <2>2. ShapeTo(fs, n)
    BY DEF Shape, ShapeTo
  <2> QED
    BY <2>1, <2>2, ShapeBelow
<1>3. UnwinderOK(g, Len(fs) + 1)
  BY <1>1 DEF UnwinderOK
<1>4. \A i \in 1 .. Len(g) : i \in 1 .. n \/ g[i].k = "dead" \/ i = Len(fs) + 1
  BY <1>1
<1> QED
  BY <1>1, <1>2, <1>3, <1>4 DEF Shape, ShapeTo, Unwinders, g

TypedShape(E) == /\ frames \in Seq(FrameType(E)) /\ Shape(frames)
                 /\ throw \in E /\ errobj \in E

\* The stack is cut, and the last frame that stays may be a closer that gets an error.
CutTo(c, e) == \/ frames' = Cut(frames, c)
               \/ /\ c > 0 /\ frames[c].k \in Closers
                  /\ frames' = [Cut(frames, c) EXCEPT ![c].err = e]

\* Where an error lands: the topmost frame that stops it or closes something.
LEMMA LandingFacts ==
  ASSUME NEW S, frames \in Seq(S)
  PROVE  /\ Landing \in 0 .. Top
         /\ Landing > 0 => frames[Landing].k \in {"pcall", "call", "cpcall", "unwind"}
         /\ \A j \in Landing + 1 .. Top : frames[j].k \notin {"pcall", "call", "cpcall", "unwind"}
<1> DEFINE L == {i \in 1 .. Top : frames[i].k \in {"pcall", "call", "cpcall", "unwind"}} \cup {0}
<1>1. Top \in Nat /\ L \in SUBSET (0 .. Top) /\ L # {}
  BY DEF Top
<1>2. Landing = Max(L)
  BY DEF Landing
<1> HIDE DEF L
<1>3. Landing \in L /\ \A x \in L : x <= Landing
  BY <1>1, <1>2, MaxIsGreatest
<1> QED
  BY <1>1, <1>3 DEF L

\* Who gets the results of a pcall: the topmost frame below that is no pcall.
LEMMA ReceiverFacts ==
  ASSUME NEW n \in Nat \ {0}
  PROVE  /\ Receiver(n) \in 0 .. n - 1
         /\ Receiver(n) > 0 => frames[Receiver(n)].k \notin {"pcall", "caught"}
         /\ \A j \in Receiver(n) + 1 .. n - 1 : frames[j].k \in {"pcall", "caught"}
<1> DEFINE L == {i \in 0 .. n - 1 : i = 0 \/ frames[i].k \notin {"pcall", "caught"}}
<1>1. n - 1 \in Nat /\ L \in SUBSET (0 .. n - 1) /\ 0 \in L
  OBVIOUS
<1>2. Receiver(n) = Max(L)
  BY DEF Receiver
<1> HIDE DEF L
<1>3. Receiver(n) \in L /\ \A x \in L : x <= Receiver(n)
  BY <1>1, <1>2, MaxIsGreatest
<1> QED
  BY <1>1, <1>3 DEF L

\* The return of a pcall cuts the stack, down past pcalls and one metamethod only.
LEMMA PcallReturnsMoves ==
  ASSUME NEW S, frames \in Seq(S), NEW n \in 1 .. Top, frames[n].k \in {"pcall", "caught"},
         NEW ok \in BOOLEAN, NEW e, PcallReturns(n, ok, e)
  PROVE  /\ \E c \in 0 .. n - 1 :
              /\ CutTo(c, e) /\ (ok => frames' = Cut(frames, c))
              /\ \A j \in c + 1 .. n : frames[j].k \in {"pcall", "caught", "meta"}
         /\ UNCHANGED <<main, status, fresh, errobj, by>>
<1> DEFINE i == Receiver(n)
<1>0. n \in Nat \ {0} /\ Top \in Nat /\ n <= Top
  BY DEF Top
<1>1. /\ i \in 0 .. n - 1
      /\ \A j \in i + 1 .. n - 1 : frames[j].k \in {"pcall", "caught"}
  BY <1>0, ReceiverFacts
<1>2. \A j \in i + 1 .. n : frames[j].k \in {"pcall", "caught"}
  BY <1>0, <1>1
<1> HIDE DEF i
<1>3. UNCHANGED <<main, status, fresh, errobj, by>>
  BY DEF PcallReturns, Ended, outside
<1>4. CASE i = 0
  <2>1. frames' = Cut(frames, 0)
    BY <1>4, SubSeqEmpty DEF PcallReturns, Ended, Cut, i
  <2> QED
    BY <1>0, <1>2, <1>3, <1>4, <2>1 DEF CutTo
<1>5. CASE i # 0 /\ frames[i].k = "meta"
  <2>1. frames' = Cut(frames, i - 1)
    BY <1>5 DEF PcallReturns, i
  <2>2. i - 1 \in 0 .. n - 1 /\ \A j \in (i - 1) + 1 .. n : j = i \/ j \in i + 1 .. n
    BY <1>0, <1>1, <1>5
  <2> QED
    BY <1>2, <1>3, <1>5, <2>1, <2>2 DEF CutTo
<1>6. CASE i # 0 /\ frames[i].k # "meta"
  <2>1. \/ frames' = Cut(frames, i)
        \/ /\ frames[i].k \in Closers /\ ~ok
           /\ frames' = [Cut(frames, i) EXCEPT ![i].err = e]
    BY <1>6 DEF PcallReturns, i
  <2> QED
    BY <1>0, <1>1, <1>2, <1>3, <1>6, <2>1 DEF CutTo
<1> QED
  BY <1>4, <1>5, <1>6

\* So does the arrival of an error, past pcalls and C calls only.
LEMMA ArrivesMoves ==
  ASSUME NEW S, frames \in Seq(S), NEW n \in 0 .. Top, n > 0 => frames[n].k \in Catchers,
         NEW e, Arrives(n, e)
  PROVE  /\ \E c \in 0 .. n :
              /\ CutTo(c, e)
              /\ \A j \in c + 1 .. n : frames[j].k \in {"pcall", "caught", "meta", "call", "cpcall"}
         /\ throw' \in {Nil, e}
         /\ UNCHANGED <<main, status, fresh, errobj, by>>
<1>0. Top \in Nat /\ n \in Nat /\ n <= Top
  BY DEF Top
<1>1. CASE n = 0
  <2>1. frames' = Cut(frames, 0)
    BY <1>1, SubSeqEmpty DEF Arrives, Ended, Cut
  <2> QED
    BY <1>0, <1>1, <2>1 DEF CutTo, Arrives, Ended
<1>2. CASE n > 0 /\ frames[n].k \in {"call", "cpcall"}
  <2>1. frames' = Cut(frames, n - 1) /\ throw' \in {Nil, e} /\ UNCHANGED outside
    <3>1. CASE frames[n].k = "call"
      BY <1>2, <3>1 DEF Arrives
    <3>2. CASE frames[n].k = "cpcall"
      BY <1>2, <3>2 DEF Arrives
    <3> QED
      BY <1>2, <3>1, <3>2
  <2>2. n - 1 \in 0 .. n /\ \A j \in (n - 1) + 1 .. n : j = n
    BY <1>0, <1>2
  <2> QED
    BY <1>2, <2>1, <2>2 DEF CutTo, outside
<1>3. CASE n > 0 /\ frames[n].k = "unwind"
  <2>1. /\ frames' = [Cut(frames, n) EXCEPT ![n].err = e]
        /\ throw' = Nil /\ UNCHANGED outside
    BY <1>3 DEF Arrives
  <2>2. n \in 0 .. n /\ \A j \in n + 1 .. n : FALSE
    BY <1>0
  <2> QED
    BY <1>3, <2>1, <2>2 DEF CutTo, outside, Closers
<1>4. CASE n > 0 /\ frames[n].k \in {"pcall", "caught"}
  <2>1. throw' = Nil /\ PcallReturns(n, FALSE, e)
    <3>1. n # 0 /\ frames[n].k # "call" /\ frames[n].k # "cpcall" /\ frames[n].k # "unwind"
      BY <1>4
    <3> QED
      BY <3>1, Zenon DEF Arrives
  <2>2. n \in 1 .. Top
    BY <1>0, <1>4
  <2>3. PICK c \in 0 .. n - 1 :
              /\ CutTo(c, e)
              /\ \A j \in c + 1 .. n : frames[j].k \in {"pcall", "caught", "meta"}
    BY <1>4, <2>1, <2>2, PcallReturnsMoves
  <2>4. UNCHANGED <<main, status, fresh, errobj, by>>
    BY <1>4, <2>1, <2>2, PcallReturnsMoves
  <2> QED
    BY <1>0, <2>1, <2>3, <2>4
<1> QED
  BY <1>0, <1>1, <1>2, <1>3, <1>4 DEF Catchers, InC

\* And the return of a function.
LEMMA ReturnsMoves ==
  ASSUME NEW S, frames \in Seq(S), NEW n \in 1 .. Top, Returns(n)
  PROVE  /\ \E c \in 0 .. n - 1 :
              /\ frames' = Cut(frames, c)
              /\ \A j \in c + 1 .. n - 1 : frames[j].k \in {"pcall", "caught", "meta", "call", "cpcall"}
         /\ UNCHANGED <<main, status, fresh, errobj, by>>
<1>0. Top \in Nat /\ n \in Nat /\ n <= Top /\ n >= 1
  BY DEF Top
<1>1. CASE n = 1
  <2>1. frames' = Cut(frames, 0)
    BY <1>1, SubSeqEmpty DEF Returns, Ended, Cut
  <2> QED
    BY <1>0, <1>1, <2>1 DEF Returns, Ended
<1>2. CASE n > 1 /\ frames[n - 1].k = "pcall"
  <2>1. PcallReturns(n - 1, TRUE, Nil)
    <3>1. n # 1
      BY <1>2
    <3> QED
      BY <1>2, <3>1, Zenon DEF Returns
  <2>2. n - 1 \in 1 .. Top
    BY <1>0, <1>2
  <2>3. PICK c \in 0 .. n - 1 - 1 :
              /\ frames' = Cut(frames, c)
              /\ \A j \in c + 1 .. n - 1 : frames[j].k \in {"pcall", "caught", "meta"}
    BY <1>2, <2>1, <2>2, PcallReturnsMoves
  <2>4. UNCHANGED <<main, status, fresh, errobj, by>>
    BY <1>2, <2>1, <2>2, PcallReturnsMoves
  <2> QED
    BY <1>0, <2>3, <2>4
<1>3. CASE n > 1 /\ frames[n - 1].k # "pcall"
  <2>1. /\ frames' = Cut(frames, IF frames[n - 1].k \in {"call", "cpcall"} THEN n - 2 ELSE n - 1)
        /\ UNCHANGED outside
    BY <1>3 DEF Returns
  <2>2. CASE frames[n - 1].k \in {"call", "cpcall"}
    <3>1. n - 2 \in 0 .. n - 1 /\ \A j \in (n - 2) + 1 .. n - 1 : j = n - 1
      BY <1>0, <1>3
    <3> QED
      BY <2>1, <2>2, <3>1 DEF outside
  <2>3. CASE frames[n - 1].k \notin {"call", "cpcall"}
    <3>1. n - 1 \in 0 .. n - 1 /\ \A j \in (n - 1) + 1 .. n - 1 : FALSE
      BY <1>0, <1>3
    <3> QED
      BY <2>1, <2>3, <3>1 DEF outside
  <2> QED
    BY <2>2, <2>3
<1> QED
  BY <1>0, <1>1, <1>2, <1>3

\* A stack that is cut keeps its shape, and its frames are like they were.
LEMMA CutKeepsShape ==
  ASSUME NEW E, frames \in Seq(FrameType(E)), Shape(frames), NEW c \in 0 .. Top, NEW e,
         CutTo(c, e), frames' = Cut(frames, c) \/ e \in E \ {Nil}
  PROVE  /\ frames' \in Seq(FrameType(E)) /\ Shape(frames')
         /\ Len(frames') = c /\ SameUpTo(frames, frames', c)
<1>1. /\ frames' \in Seq(FrameType(E)) /\ Len(frames') = c
      /\ SameUpTo(frames, frames', c)
  <2>1. CASE frames' = Cut(frames, c)
    BY <2>1, CutFacts, CutAlike DEF Top
  <2>2. CASE /\ c > 0 /\ e \in E \ {Nil}
             /\ frames' = [Cut(frames, c) EXCEPT ![c].err = e]
    <3>1. c \in 0 .. Len(frames)
      BY DEF Top
    <3>2. /\ [Cut(frames, c) EXCEPT ![c].err = e] \in Seq(FrameType(E))
          /\ Len([Cut(frames, c) EXCEPT ![c].err = e]) = c
          /\ SameUpTo(frames, [Cut(frames, c) EXCEPT ![c].err = e], c)
      BY <2>2, <3>1, CutAlike, Zenon
    <3> QED
      BY <2>2, <3>2
  <2> QED
    BY <2>1, <2>2 DEF CutTo
<1>2. ShapeTo(frames, c)
  BY DEF Shape, ShapeTo, Top
<1>3. ShapeTo(frames', c)
  BY <1>1, <1>2, ShapeBelow DEF Top
<1> QED
  BY <1>1, <1>3 DEF Shape

\* A frame that closes nothing goes anywhere.
LEMMA PlainShape ==
  ASSUME NEW E, Nil \in E, NEW fs \in Seq(FrameType(E)), Shape(fs), NEW k \in Plain
  PROVE  /\ Append(fs, Frame(k)) \in Seq(FrameType(E))
         /\ Shape(Append(fs, Frame(k)))
<1>1. Frame(k) \in FrameType(E) /\ Frame(k).k = k
  BY FrameTyped
<1>2. k \notin Unwinders /\ k \notin {"scope", "on_return"}
  BY DEF Plain, Unwinders
<1> QED
  BY <1>1, <1>2, AppendShape

\* The frames of a call, a handler, or a protected call.
LEMMA PushShape ==
  ASSUME NEW E, Nil \in E, frames \in Seq(FrameType(E)), Shape(frames),
         NEW a \in Plain, NEW b \in Plain, NEW c \in Plain,
         \/ frames' = frames \o <<Frame(a)>>
         \/ frames' = frames \o <<Frame(a), Frame(b)>>
         \/ frames' = frames \o <<Frame(a), Frame(b), Frame(c)>>
  PROVE  frames' \in Seq(FrameType(E)) /\ Shape(frames')
<1>1. Frame(a) \in FrameType(E) /\ Frame(b) \in FrameType(E) /\ Frame(c) \in FrameType(E)
  BY FrameTyped
<1> DEFINE f == Append(frames, Frame(a))
           g == Append(f, Frame(b))
           h == Append(g, Frame(c))
<1>2. f \in Seq(FrameType(E)) /\ Shape(f)
  BY PlainShape
<1>3. frames' \in {f, g, h}
  BY <1>1, PushIsAppend
<1> HIDE DEF f
<1>4. g \in Seq(FrameType(E)) /\ Shape(g)
  BY <1>2, PlainShape
<1> HIDE DEF g
<1>5. h \in Seq(FrameType(E)) /\ Shape(h)
  BY <1>4, PlainShape
<1> QED
  BY <1>2, <1>3, <1>4, <1>5

\* The empty stack.
LEMMA EmptyShape ==
  ASSUME NEW E
  PROVE  <<>> \in Seq(FrameType(E)) /\ Shape(<<>>)
BY DEF Shape, ShapeTo

\* The arrival of an error keeps the shape of the stack.
LEMMA ArrivesShape ==
  ASSUME NEW E, frames \in Seq(FrameType(E)), Shape(frames), Nil \in E,
         NEW n \in 0 .. Top, NEW e \in E, n > 0 => frames[n].k \in Catchers /\ e # Nil,
         Arrives(n, e)
  PROVE  /\ frames' \in Seq(FrameType(E)) /\ Shape(frames')
         /\ throw' \in E /\ UNCHANGED <<errobj, by>>
<1>0. Top \in Nat /\ n \in Nat /\ n <= Top
  BY DEF Top
<1>1. PICK c \in 0 .. n : CutTo(c, e)
  BY ArrivesMoves
<1>2. throw' \in {Nil, e} /\ UNCHANGED <<errobj, by>>
  BY ArrivesMoves
<1>3. frames' = Cut(frames, c) \/ e \in E \ {Nil}
  BY <1>0, <1>1 DEF CutTo
<1>4. c \in 0 .. Top
  BY <1>0
<1> QED
  BY <1>1, <1>2, <1>3, <1>4, CutKeepsShape

\* The return of a function does.
LEMMA ReturnsShape ==
  ASSUME NEW E, frames \in Seq(FrameType(E)), Shape(frames),
         NEW n \in 1 .. Top, Returns(n)
  PROVE  /\ frames' \in Seq(FrameType(E)) /\ Shape(frames')
         /\ UNCHANGED <<errobj, by>>
<1>0. Top \in Nat /\ n \in Nat /\ n <= Top /\ n >= 1
  BY DEF Top
<1>1. PICK c \in 0 .. n - 1 : frames' = Cut(frames, c)
  BY ReturnsMoves
<1>2. UNCHANGED <<errobj, by>>
  BY ReturnsMoves
<1>3. c \in 0 .. Top /\ CutTo(c, Nil)
  BY <1>0, <1>1 DEF CutTo
<1> QED
  BY <1>1, <1>2, <1>3, CutKeepsShape

\* A scope or a return in the function on top.
LEMMA ScopeShape ==
  ASSUME NEW E, Nil \in E, frames \in Seq(FrameType(E)), Shape(frames),
         frames # <<>>, frames[Top].k = "lua",
         NEW k \in {"scope", "on_return"}, NEW n \in Nat \ {0}, k = "on_return" => n = 1,
         frames' = Append(frames, Closer(k, Nil, <<Top, n>>, 0))
  PROVE  frames' \in Seq(FrameType(E)) /\ Shape(frames')
<1> DEFINE f == Closer(k, Nil, <<Top, n>>, 0)
<1>1. Top \in Nat /\ Top >= 1 /\ <<Top, n>> \in Nat \X Nat
  BY DEF Top
<1>2. f \in FrameType(E) /\ f.k = k /\ f.low = <<Top, n>>
  BY <1>1 DEF Closer, Frame, FrameType, Closers
<1> HIDE DEF f
<1>3. Len(Append(frames, f)) = Top + 1 /\ Append(frames, f)[Top + 1] = f /\ Append(frames, f)[Top] = frames[Top]
  BY <1>1, <1>2, AppendProperties DEF Top
<1>4. ScopeOK(Append(frames, f), Top + 1)
  BY <1>1, <1>2, <1>3 DEF ScopeOK
<1>5. k \notin Unwinders
  BY DEF Unwinders
<1> QED
  BY <1>2, <1>3, <1>4, <1>5, AppendShape DEF f

\* close_unwind for the whole stack of a running thread.
LEMMA StateShape ==
  ASSUME NEW E, Nil \in E, frames \in Seq(FrameType(E)), Shape(frames),
         frames' = Append(frames, Closer("unwind", Nil, <<1, 1>>, 0))
  PROVE  frames' \in Seq(FrameType(E)) /\ Shape(frames')
<1> DEFINE f == Closer("unwind", Nil, <<1, 1>>, 0)
<1>1. Len(frames) \in Nat
  OBVIOUS
<1>2. f \in FrameType(E) /\ f.k = "unwind" /\ f.low = <<1, 1>> /\ f.to = 0
  BY DEF Closer, Frame, FrameType, Closers
<1> HIDE DEF f
<1>3. Len(Append(frames, f)) = Len(frames) + 1 /\ Append(frames, f)[Len(frames) + 1] = f
  BY <1>1, <1>2, AppendProperties
<1>4. UnwinderOK(Append(frames, f), Len(frames) + 1)
  BY <1>1, <1>2, <1>3 DEF UnwinderOK
<1> QED
  BY <1>2, <1>3, <1>4, AppendShape DEF f

\* Everything a running function does keeps it.
LEMMA StepShape ==
  ASSUME NEW E, Nil \in E, Errs \subseteq E, TypedShape(E), Step
  PROVE  TypedShape(E)' /\ UNCHANGED by
<1> USE DEF TypedShape
<1>1. ASSUME NEW a \in Plain, NEW b \in Plain, NEW c \in Plain,
             \/ Push(<<Frame(a)>>) \/ Push(<<Frame(a), Frame(b)>>)
             \/ Push(<<Frame(a), Frame(b), Frame(c)>>)
      PROVE  TypedShape(E)' /\ UNCHANGED by
  <2>1. UNCHANGED <<throw, errobj, by>>
    BY <1>1 DEF Push, outside
  <2>2. frames' \in Seq(FrameType(E)) /\ Shape(frames')
    BY <1>1, PushShape DEF Push
  <2> QED
    BY <2>1, <2>2
<1>2. CASE Call \/ CCall \/ CPcall \/ Pcall \/ PcallPcall \/ MetaPcall
  BY <1>1, <1>2 DEF Call, CCall, CPcall, Pcall, PcallPcall, MetaPcall, Plain
<1>3. CASE \E v \in Vals : Mark(v)
  BY <1>3 DEF Mark, outside
<1>4. ASSUME NEW n \in 1 .. Cardinality(Vals), EndScope(n)
      PROVE  TypedShape(E)' /\ UNCHANGED by
  <2>1. /\ frames # <<>> /\ frames[Top].k = "lua"
        /\ frames' = Append(frames, Closer("scope", Nil, <<Top, n>>, 0))
        /\ UNCHANGED <<throw, errobj, by>>
    BY <1>4 DEF EndScope, Running, outside
  <2>2. n \in Nat \ {0}
    OBVIOUS
  <2>3. frames' \in Seq(FrameType(E)) /\ Shape(frames')
    BY <2>1, <2>2, ScopeShape
  <2> QED
    BY <2>1, <2>3
<1>5. CASE Return
  <2>1. frames # <<>> /\ frames[Top].k = "lua" /\ UNCHANGED throw
    BY <1>5 DEF Return, Running
  <2>2. CASE Returns(Top)
    <3>1. Top \in 1 .. Top
      BY <2>1 DEF Top
    <3> QED
      BY <2>1, <2>2, <3>1, ReturnsShape
  <2>3. CASE /\ frames' = Append(frames, Closer("on_return", Nil, <<Top, 1>>, 0))
             /\ UNCHANGED outside
    <3>1. frames' \in Seq(FrameType(E)) /\ Shape(frames')
      BY <2>1, <2>3, ScopeShape
    <3> QED
      BY <2>1, <2>3, <3>1 DEF outside
  <2> QED
    BY <1>5, <2>2, <2>3 DEF Return
<1>6. CASE Yield
  BY <1>6 DEF Yield
<1>7. CASE StateClose
  BY <1>7, StateShape DEF StateClose, outside
<1>8. CASE \E e \in Errs : Raise(e)
  BY <1>8 DEF Raise, outside
<1> QED
  BY <1>2, <1>3, <1>4, <1>5, <1>6, <1>7, <1>8 DEF Step

\* One step never takes the error from a closer.
Kept == \A i \in 1 .. Len(frames) :
  (i <= Len(frames') /\ frames[i].k \in Closers /\ frames[i].err # Nil /\ frames'[i].k = frames[i].k)
    => frames'[i].err # Nil

\* A stack that is cut keeps the errors of its closers.
LEMMA CutKept ==
  ASSUME NEW E, frames \in Seq(FrameType(E)), NEW c \in 0 .. Top, NEW e,
         CutTo(c, e), frames' = Cut(frames, c) \/ e \in E \ {Nil}
  PROVE  Kept
<1>1. Len(frames') = c /\ SameUpTo(frames, frames', c)
  <2>0. c \in 0 .. Len(frames)
    BY DEF Top
  <2>1. CASE frames' = Cut(frames, c)
    BY <2>0, <2>1, CutFacts, CutAlike
  <2>2. CASE /\ c > 0 /\ e \in E \ {Nil}
             /\ frames' = [Cut(frames, c) EXCEPT ![c].err = e]
    <3>1. /\ [Cut(frames, c) EXCEPT ![c].err = e] \in Seq(FrameType(E))
          /\ Len([Cut(frames, c) EXCEPT ![c].err = e]) = c
          /\ SameUpTo(frames, [Cut(frames, c) EXCEPT ![c].err = e], c)
      BY <2>0, <2>2, CutAlike, Zenon
    <3> QED
      BY <2>2, <3>1
  <2> QED
    BY <2>1, <2>2 DEF CutTo
<1> QED
  BY <1>1 DEF SameUpTo, Alike, Kept

\* So does one that grows,
LEMMA PushKept ==
  ASSUME NEW S, frames \in Seq(S), NEW T, NEW fs \in Seq(T), frames' = frames \o fs
  PROVE  Kept
<1>1. \A i \in 1 .. Len(frames) : frames'[i] = frames[i]
  OBVIOUS
<1> QED
  BY <1>1 DEF Kept

\* by one frame or by more;
LEMMA AppendKept ==
  ASSUME NEW S, frames \in Seq(S), NEW f, frames' = Append(frames, f)
  PROVE  Kept
<1>1. \A i \in 1 .. Len(frames) : frames'[i] = frames[i]
  OBVIOUS
<1> QED
  BY <1>1 DEF Kept

\* one whose frames above n are dead;
LEMMA DeadenKept ==
  ASSUME NEW E, Nil \in E, frames \in Seq(FrameType(E)),
         NEW fs \in Seq(FrameType(E)), Len(fs) = Len(frames),
         NEW n \in 0 .. Len(fs), \A i \in 1 .. n : Alike(frames[i], fs[i]),
         NEW k \in Unwinders, NEW e \in E,
         frames' = DeadenAbove(fs, n, k, e)
  PROVE  Kept
<1>1. /\ \A i \in 1 .. n : frames'[i] = fs[i]
      /\ \A i \in n + 1 .. Len(fs) : frames'[i].k = "dead"
  BY DeadenAboveFacts
<1>2. Len(fs) \in Nat
  OBVIOUS
<1>3. "dead" \notin Closers
  BY DEF Closers
<1> QED
  BY <1>1, <1>2, <1>3 DEF Kept, Alike

\* and one that stays.
LEMMA SameKept ==
  ASSUME UNCHANGED frames
  PROVE  Kept
BY DEF Kept

\* A running function takes no error from a closer.
LEMMA StepKept ==
  ASSUME NEW E, Nil \in E, Errs \subseteq E, TypedShape(E), Step
  PROVE  Kept
<1>0. frames \in Seq(FrameType(E))
  BY DEF TypedShape
<1>1. ASSUME NEW a, NEW b, NEW c,
             \/ Push(<<Frame(a)>>) \/ Push(<<Frame(a), Frame(b)>>)
             \/ Push(<<Frame(a), Frame(b), Frame(c)>>)
      PROVE  Kept
  <2>1. /\ <<Frame(a)>> \in Seq({Frame(a), Frame(b), Frame(c)})
        /\ <<Frame(a), Frame(b)>> \in Seq({Frame(a), Frame(b), Frame(c)})
        /\ <<Frame(a), Frame(b), Frame(c)>> \in Seq({Frame(a), Frame(b), Frame(c)})
    OBVIOUS
  <2> QED
    BY <1>0, <1>1, <2>1, PushKept DEF Push
<1>2. CASE Call \/ CCall \/ CPcall \/ Pcall \/ PcallPcall \/ MetaPcall
  BY <1>1, <1>2 DEF Call, CCall, CPcall, Pcall, PcallPcall, MetaPcall
<1>3. CASE \E v \in Vals : Mark(v)
  BY <1>3, SameKept DEF Mark
<1>4. CASE \E n \in 1 .. Cardinality(Vals) : EndScope(n)
  BY <1>0, <1>4, AppendKept DEF EndScope
<1>5. CASE Return
  <2>1. CASE Returns(Top)
    <3>1. Top \in 1 .. Top
      BY <1>0, <1>5 DEF Return, Running, Top
    <3>2. PICK c \in 0 .. Top - 1 : frames' = Cut(frames, c)
      BY <1>0, <2>1, <3>1, ReturnsMoves
    <3>3. c \in 0 .. Top /\ CutTo(c, Nil)
      BY <3>1, <3>2 DEF CutTo, Top
    <3> QED
      BY <1>0, <3>2, <3>3, CutKept
  <2>2. CASE frames' = Append(frames, Closer("on_return", Nil, <<Top, 1>>, 0))
    BY <1>0, <2>2, AppendKept
  <2> QED
    BY <1>5, <2>1, <2>2 DEF Return
<1>6. CASE Yield
  BY <1>6, SameKept DEF Yield
<1>7. CASE StateClose
  BY <1>0, <1>7, AppendKept DEF StateClose
<1>8. CASE \E e \in Errs : Raise(e)
  BY <1>8, SameKept DEF Raise
<1> QED
  BY <1>2, <1>3, <1>4, <1>5, <1>6, <1>7, <1>8 DEF Step

\* Neither does an error that arrives.
LEMMA ArrivesTyped ==
  ASSUME NEW E, TypedShape(E), Nil \in E,
         NEW n \in 0 .. Top, NEW e \in E, n > 0 => frames[n].k \in Catchers /\ e # Nil,
         Arrives(n, e)
  PROVE  TypedShape(E)' /\ Kept /\ UNCHANGED by
<1>0. Top \in Nat /\ n \in Nat /\ n <= Top /\ frames \in Seq(FrameType(E))
  BY DEF Top, TypedShape
<1>1. PICK c \in 0 .. n : CutTo(c, e)
  BY <1>0, ArrivesMoves
<1>2. frames' = Cut(frames, c) \/ e \in E \ {Nil}
  BY <1>0, <1>1 DEF CutTo
<1>3. c \in 0 .. Top
  BY <1>0
<1>4. Kept
  BY <1>0, <1>1, <1>2, <1>3, CutKept
<1> QED
  BY <1>4, ArrivesShape DEF TypedShape

\* The loop in C takes over the frames above n.
LEMMA CloseInCTyped ==
  ASSUME NEW E, TypedShape(E), Nil \in E, NEW n \in 0 .. Top, NEW e \in E,
         n > 0 => frames[n].k \in Catchers /\ e # Nil,
         CloseInC(n, e)
  PROVE  TypedShape(E)' /\ Kept /\ UNCHANGED by
<1>1. n \in 0 .. Len(frames) /\ frames \in Seq(FrameType(E)) /\ Shape(frames)
  BY DEF Top, TypedShape
<1>2. frames' = DeadenAbove(frames, n, "unwind", e) /\ throw' = Nil /\ UNCHANGED <<errobj, by>>
  BY DEF CloseInC, DeadenAbove, outside
<1>3. "unwind" \in Unwinders
  BY DEF Unwinders
<1>4. frames' \in Seq(FrameType(E)) /\ Shape(frames')
  BY <1>1, <1>2, <1>3, DeadenAboveFacts, DeadenShape
<1>5. \A i \in 1 .. n : Alike(frames[i], frames[i])
  BY DEF Alike
<1>6. Kept
  BY <1>1, <1>2, <1>3, <1>5, DeadenKept
<1> QED
  BY <1>2, <1>4, <1>6 DEF TypedShape

\* The pcall that waits for the error, marked as one that has caught.
Caught(fs, n) == [fs EXCEPT ![n].k = "caught"]

\* Marking a pcall that has caught keeps the shape of the stack.
LEMMA CaughtFacts ==
  ASSUME NEW E, NEW fs \in Seq(FrameType(E)), Shape(fs), NEW n \in 1 .. Len(fs),
         fs[n].k = "pcall"
  PROVE  /\ Caught(fs, n) \in Seq(FrameType(E)) /\ Len(Caught(fs, n)) = Len(fs)
         /\ Shape(Caught(fs, n)) /\ Caught(fs, n)[n].k = "caught"
         /\ \A i \in 1 .. Len(fs) : i # n => Caught(fs, n)[i] = fs[i]
         /\ \A i \in 1 .. Len(fs) : Alike(fs[i], Caught(fs, n)[i])
<1> DEFINE f == [fs[n] EXCEPT !.k = "caught"]
           g == [fs EXCEPT ![n] = f]
<1>1. Len(fs) \in Nat /\ fs[n] \in FrameType(E)
  BY ElementOfSeq
<1>2. f \in FrameType(E) /\ f.k = "caught" /\ Alike(fs[n], f)
  BY <1>1 DEF FrameType, Alike, Plain
<1>3. Caught(fs, n) = g
  BY DEF Caught
<1> HIDE DEF f
<1>4. /\ g \in Seq(FrameType(E)) /\ Len(g) = Len(fs)
      /\ \A i \in 1 .. Len(fs) : g[i] = IF i = n THEN f ELSE fs[i]
  BY <1>2, ExceptSeq
<1>5. \A i \in 1 .. Len(fs) : Alike(fs[i], g[i])
  BY <1>2, <1>4 DEF Alike
<1>6. ShapeTo(g, Len(fs))
  <2>1. SameUpTo(fs, g, Len(fs)) /\ ShapeTo(fs, Len(fs)) /\ Len(fs) \in 0 .. Len(fs)
    BY <1>1, <1>5 DEF SameUpTo, Shape
  <2> HIDE DEF g
  <2> QED
    BY <2>1, ShapeBelow
<1> HIDE DEF g
<1> QED
  BY <1>2, <1>3, <1>4, <1>5, <1>6 DEF Shape

\* The continuation closes above a pcall that has caught.
LEMMA DeferIsDeaden ==
  ASSUME NEW E, Nil \in E, NEW fs \in Seq(FrameType(E)), NEW n \in 1 .. Len(fs)
  PROVE  [Deaden(fs, n) EXCEPT ![n].k = "caught"] = Deaden(Caught(fs, n), n)
<1>1. DOMAIN fs = 1 .. Len(fs) /\ Len(fs) \in Nat /\ n \in DOMAIN fs /\ ~(n > n)
  OBVIOUS
<1> HIDE DEF Frame
<1> QED
  BY <1>1 DEF Deaden, Caught

\* What called a pcall that closes in a continuation is Lua code, or the thread starts
\* with it: the landing pad vm_unwind_ff then finds the error where it looks for it.
DeferringFine ==
  LET n == Landing IN
  (n > 1 /\ frames[n].k = "pcall" /\ CanYield(n) /\ Marked(<<n + 1, 1>>) # {})
    => frames[n - 1].k \in {"lua", "scope"}

\* What the landing pad finds is an error, as long as it is not called by a
\* metamethod or by another pcall.
LEMMA DeferredTyped ==
  ASSUME NEW E, TypedShape(E), Nil \in E, NEW n \in 1 .. Top, NEW e \in E \ {Nil},
         frames[n].k = "pcall", Deferred(n, e),
         \/ Junk \in E \ {Nil}
         \/ n = 1 \/ frames[n - 1].k \in {"lua", "scope"}
  PROVE  TypedShape(E)' /\ Kept /\ UNCHANGED by
<1>0. /\ Top \in Nat /\ n \in 0 .. Top /\ frames \in Seq(FrameType(E))
      /\ n \in 1 .. Len(frames) /\ n \in 0 .. Len(frames) /\ Shape(frames)
      /\ frames[n].k \in Catchers
  BY DEF Top, TypedShape, Catchers
<1>1. CASE n > 1 /\ frames[n - 1].k \in {"lua", "scope"}
  <2>1. /\ throw' = Nil /\ UNCHANGED <<errobj, by>>
        /\ frames' = Append([Deaden(frames, n) EXCEPT ![n].k = "caught"],
                             Closer("after_error", e, <<n + 1, 1>>, n))
    <3>1. n # 1
      BY <1>1
    <3> QED
      BY <1>1, <3>1, Zenon DEF Deferred, outside
  <2>2. frames' = DeadenAbove(Caught(frames, n), n, "after_error", e)
    BY <1>0, <2>1, DeferIsDeaden DEF DeadenAbove
  <2> DEFINE g == Caught(frames, n)
  <2>3. /\ g \in Seq(FrameType(E)) /\ Len(g) = Len(frames)
        /\ Shape(g) /\ g[n].k = "caught"
        /\ \A i \in 1 .. Len(frames) : Alike(frames[i], g[i])
    BY <1>0, CaughtFacts
  <2> HIDE DEF g
  <2>4. "after_error" \in Unwinders /\ g[n].k \in Catchers /\ n \in 0 .. Len(g) /\ n > 0
    BY <1>0, <2>3 DEF Unwinders, Catchers
  <2>5. frames' \in Seq(FrameType(E)) /\ Shape(frames')
    BY <2>2, <2>3, <2>4, DeadenAboveFacts, DeadenShape DEF g
  <2>6. \A i \in 1 .. n : Alike(frames[i], g[i])
    BY <1>0, <2>3
  <2>7. Kept
    BY <1>0, <2>2, <2>3, <2>4, <2>6, DeadenKept DEF g
  <2> QED
    BY <2>1, <2>5, <2>7 DEF TypedShape
<1>2. CASE n = 1
  <2>1. CloseInC(n, e)
    BY <1>2, Zenon DEF Deferred
  <2> QED
    BY <1>0, <2>1, CloseInCTyped
<1>3. CASE n > 1 /\ frames[n - 1].k \notin {"lua", "scope"} /\ Junk \in E \ {Nil}
  <2>1. Arrives(n, Junk) \/ CloseInC(n, e)
    <3>1. n # 1
      BY <1>3
    <3> QED
      BY <1>3, <3>1, Zenon DEF Deferred
  <2> QED
    BY <1>0, <1>3, <2>1, CloseInCTyped, ArrivesTyped
<1> QED
  BY <1>0, <1>1, <1>2, <1>3

\* An error under way.
LEMMA UnwindTyped ==
  ASSUME NEW E, TypedShape(E), Nil \in E, Unwind,
         \/ Junk \in E \ {Nil}
         \/ DeferringFine /\ by # "resume"
  PROVE  TypedShape(E)' /\ Kept /\ UNCHANGED by
<1>0. Top \in Nat /\ frames \in Seq(FrameType(E)) /\ throw \in E \ {Nil}
  BY DEF Top, TypedShape, Unwind
<1>1. /\ Landing \in 0 .. Top
      /\ Landing > 0 => frames[Landing].k \in {"pcall", "call", "cpcall", "unwind"}
  BY <1>0, LandingFacts
<1> DEFINE n == Landing
<1>2. n > 0 => frames[n].k \in Catchers
  BY <1>1 DEF Catchers, InC
<1>3. CASE n = 0 /\ ~main
  <2>1. throw' = Nil /\ frames' = Deaden(frames, 0) /\ errobj' \in ErrorLeft(throw) /\ UNCHANGED by
    BY <1>3 DEF Unwind
  <2>2. errobj' \in E
    BY <1>0, <2>1 DEF ErrorLeft
  <2>3. /\ frames' \in Seq(FrameType(E)) /\ Len(frames') = Len(frames)
        /\ \A i \in 1 .. Len(frames) : frames'[i] = Frame("dead")
    <3>1. Len(frames) \in Nat
      BY <1>0
    <3> HIDE DEF FrameType, Frame
    <3> QED
      BY <1>0, <2>1, <3>1, DeadenFacts
  <2>4. Frame("dead").k = "dead"
    BY DEF Frame
  <2>5. Shape(frames')
    BY <2>3, <2>4 DEF Shape, ShapeTo, Unwinders
  <2>6. Kept
    BY <2>3, <2>4 DEF Kept, Closers
  <2> QED
    BY <2>1, <2>2, <2>3, <2>5, <2>6 DEF TypedShape
<1>4. CASE Arrives(n, throw)
  BY <1>0, <1>1, <1>2, <1>4, ArrivesTyped
<1>5. CASE CloseInC(n, throw)
  BY <1>0, <1>1, <1>2, <1>5, CloseInCTyped
<1>6. CASE /\ Marked(<<n + 1, 1>>) # {} /\ n > 0 /\ frames[n].k = "pcall" /\ CanYield(n)
           /\ Deferred(n, throw)
  <2>1. \/ Junk \in E \ {Nil}
        \/ n = 1 \/ frames[n - 1].k \in {"lua", "scope"}
    BY <1>0, <1>1, <1>6 DEF DeferringFine
  <2>2. n \in 1 .. Top
    BY <1>0, <1>1, <1>6
  <2> HIDE DEF n
  <2> QED
    BY <1>0, <1>6, <2>1, <2>2, DeferredTyped
<1> QED
  BY <1>3, <1>4, <1>5, <1>6, Zenon DEF Unwind

\* The next handler of a closer.
LEMMA CloseNextTyped ==
  ASSUME NEW E, TypedShape(E), Nil \in E, Errs \subseteq E, Nil \notin Errs, CloseNext
  PROVE  TypedShape(E)' /\ Kept /\ UNCHANGED by
<1>0. /\ Top \in Nat /\ frames \in Seq(FrameType(E)) /\ Shape(frames) /\ Top = Len(frames)
      /\ Top \in 1 .. Top /\ UNCHANGED <<throw, errobj, by>>
  BY DEF Top, TypedShape, CloseNext, IsCloser, outside
<1>1. CASE frames' = frames \o <<Frame("lua")>> \/ frames' = frames \o <<Frame("pcall"), Frame("lua")>>
  <2>1. "lua" \in Plain /\ "pcall" \in Plain
    BY DEF Plain
  <2>2. frames' \in Seq(FrameType(E)) /\ Shape(frames')
    BY <1>0, <1>1, <2>1, PushShape
  <2>3. /\ <<Frame("lua")>> \in Seq({Frame("lua"), Frame("pcall")})
        /\ <<Frame("pcall"), Frame("lua")>> \in Seq({Frame("lua"), Frame("pcall")})
    OBVIOUS
  <2>4. Kept
    BY <1>0, <1>1, <2>3, PushKept
  <2> QED
    BY <1>0, <2>2, <2>4 DEF TypedShape
<1>2. ASSUME NEW e \in Errs, frames' = [frames EXCEPT ![Top].err = e]
      PROVE  TypedShape(E)' /\ Kept /\ UNCHANGED by
  <2>1. Cut(frames, Top) = frames
    <3>1. Top \in 0 .. Len(frames)
      BY <1>0
    <3>2. /\ Cut(frames, Top) \in Seq(FrameType(E)) /\ Len(Cut(frames, Top)) = Top
          /\ \A i \in 1 .. Top : Cut(frames, Top)[i] = frames[i]
      BY <1>0, <3>1, CutFacts
    <3> QED
      BY <1>0, <3>2, SeqEqual
  <2>2. frames[Top].k \in Closers
    BY DEF CloseNext, IsCloser
  <2>3. CutTo(Top, e) /\ Top \in 0 .. Top /\ e \in E \ {Nil}
    BY <1>0, <1>2, <2>1, <2>2 DEF CutTo
  <2>4. frames' \in Seq(FrameType(E)) /\ Shape(frames')
    BY <1>0, <2>3, CutKeepsShape
  <2>5. Kept
    BY <1>0, <2>3, CutKept
  <2> QED
    BY <1>0, <2>4, <2>5 DEF TypedShape
<1> QED
  BY <1>1, <1>2 DEF CloseNext

\* The end of a closer.
LEMMA CloseDoneTyped ==
  ASSUME NEW E, TypedShape(E), Nil \in E, CloseDone
  PROVE  TypedShape(E)' /\ Kept /\ UNCHANGED by
<1> DEFINE f == frames[Top]
<1>0. /\ Top \in Nat /\ frames \in Seq(FrameType(E)) /\ Shape(frames) /\ Top = Len(frames)
      /\ Top \in 1 .. Top /\ f.k \in Closers
  BY DEF Top, TypedShape, CloseDone, IsCloser
<1>1. f.to \in Nat /\ f.err \in E
  <2>1. f \in FrameType(E)
    BY <1>0, ElementOfSeq
  <2> QED
    BY <2>1 DEF FrameType
<1>2. CASE f.k \in Unwinders
  <2>1. UnwinderOK(frames, Top)
    BY <1>0, <1>2 DEF Shape, ShapeTo
  <2>2. f.to \in 0 .. Top /\ (f.to > 0 => frames[f.to].k \in Catchers /\ f.err # Nil)
    BY <1>0, <1>1, <2>1 DEF UnwinderOK
  <2>3. Arrives(f.to, f.err)
    BY <1>2, Zenon DEF CloseDone, Unwinders
  <2> QED
    BY <1>1, <2>2, <2>3, ArrivesTyped
<1>3. CASE frames' = Cut(frames, Top - 1) /\ throw' = f.err /\ UNCHANGED outside
  <2>1. Top - 1 \in 0 .. Top /\ CutTo(Top - 1, Nil)
    BY <1>0, <1>3 DEF CutTo
  <2>2. frames' \in Seq(FrameType(E)) /\ Shape(frames')
    BY <1>0, <1>3, <2>1, CutKeepsShape
  <2>3. Kept
    BY <1>0, <1>3, <2>1, CutKept
  <2> QED
    BY <1>1, <1>3, <2>2, <2>3 DEF TypedShape, outside
<1>4. CASE f.k = "on_return" /\ Returns(Top - 1) /\ UNCHANGED throw
  <2>1. ScopeOK(frames, Top)
    BY <1>0, <1>4 DEF Shape, ShapeTo
  <2>2. Top - 1 \in 1 .. Top
    BY <1>0, <2>1 DEF ScopeOK
  <2>3. frames' \in Seq(FrameType(E)) /\ Shape(frames') /\ UNCHANGED <<errobj, by>>
    BY <1>0, <1>4, <2>2, ReturnsShape
  <2>4. PICK c \in 0 .. Top - 1 - 1 : frames' = Cut(frames, c)
    BY <1>0, <1>4, <2>2, ReturnsMoves
  <2>5. c \in 0 .. Top /\ CutTo(c, Nil)
    BY <1>0, <2>4 DEF CutTo
  <2>6. Kept
    BY <1>0, <2>4, <2>5, CutKept
  <2> QED
    BY <1>4, <2>3, <2>6 DEF TypedShape
<1>5. f.k \notin Unwinders => f.k \in {"scope", "on_return"}
  BY <1>0 DEF Closers, Unwinders
<1>6. CASE f.k = "scope"
  BY <1>3, <1>6 DEF CloseDone
<1>7. CASE f.k = "on_return"
  BY <1>3, <1>4, <1>7, Zenon DEF CloseDone
<1> QED
  BY <1>2, <1>5, <1>6, <1>7

\* lua_closethread and resume.
LEMMA OutsideTyped ==
  ASSUME NEW E, TypedShape(E), Nil \in E, CloseThread \/ \E b \in By : Resume(b)
  PROVE  TypedShape(E)' /\ Kept
<1>0. frames \in Seq(FrameType(E)) /\ Shape(frames) /\ Len(frames) \in Nat /\ 0 \in 0 .. Len(frames)
  BY DEF TypedShape
<1>1. CASE CloseThread
  <2> DEFINE e == IF status = "error" THEN errobj ELSE Nil
  <2>1. frames' = DeadenAbove(frames, 0, "unwind", e) /\ errobj' = Nil /\ UNCHANGED throw
    BY <1>1 DEF CloseThread, DeadenAbove
  <2>2. e \in E /\ "unwind" \in Unwinders /\ "unwind" # "after_error"
    BY DEF TypedShape, Unwinders
  <2> HIDE DEF e
  <2>3. frames' \in Seq(FrameType(E)) /\ Shape(frames')
    BY <1>0, <2>1, <2>2, DeadenAboveFacts, DeadenShape
  <2>4. \A i \in 1 .. 0 : Alike(frames[i], frames[i])
    OBVIOUS
  <2>5. Kept
    BY <1>0, <2>1, <2>2, <2>4, DeadenKept
  <2> QED
    BY <2>1, <2>3, <2>5 DEF TypedShape
<1>2. ASSUME NEW b \in By, Resume(b)
      PROVE  TypedShape(E)' /\ Kept
  <2>1. UNCHANGED <<throw, errobj>>
    BY <1>2 DEF Resume
  <2>2. CASE UNCHANGED frames
    BY <2>1, <2>2, SameKept DEF TypedShape
  <2>3. CASE frames' = <<Frame("lua")>> \/ frames' = <<Frame("pcall"), Frame("lua")>>
    <3> DEFINE g == Append(<<>>, Frame("lua"))
               h == Append(Append(<<>>, Frame("pcall")), Frame("lua"))
    <3>1. "lua" \in Plain /\ "pcall" \in Plain
      BY DEF Plain
    <3>2. <<>> \in Seq(FrameType(E)) /\ Shape(<<>>)
      BY EmptyShape
    <3>3. g \in Seq(FrameType(E)) /\ Shape(g)
      BY <3>1, <3>2, PlainShape
    <3>4. Append(<<>>, Frame("pcall")) \in Seq(FrameType(E)) /\ Shape(Append(<<>>, Frame("pcall")))
      BY <3>1, <3>2, PlainShape
    <3>5. h \in Seq(FrameType(E)) /\ Shape(h)
      BY <3>1, <3>4, PlainShape
    <3>6. frames' \in {g, h}
      BY <2>3
    <3>7. \A i \in 1 .. Len(frames') : frames'[i].k \in {"lua", "pcall"}
      BY <2>3 DEF Frame
    <3>8. Kept
      BY <1>0, <3>7 DEF Kept, Closers
    <3> QED
      BY <2>1, <3>3, <3>5, <3>6, <3>8 DEF TypedShape
  <2> QED
    BY <1>2, <2>2, <2>3 DEF Resume
<1> QED
  BY <1>1, <1>2

Rec == [slot : Nat \X (1 .. Cardinality(Vals)), val : Vals]

\* A slot belongs to a function that runs, or did.
Slots(fs, ls) == \A i \in 1 .. Len(ls) :
  /\ ls[i].slot[1] \in 1 .. Len(fs)
  /\ fs[ls[i].slot[1]].k \in {"lua", "dead"}

\* The variables of one function are neighbours, in the order of their slots, above
\* those of the functions below it.
Numbered(ls) == \A i \in 1 .. Len(ls) :
  /\ ls[i].slot[2] \in 1 .. i
  /\ \A j \in i - ls[i].slot[2] + 1 .. i :
       ls[j].slot = <<ls[i].slot[1], ls[i].slot[2] - (i - j)>>
  /\ \A j \in 1 .. i - ls[i].slot[2] : ls[j].slot[1] < ls[i].slot[1]

Yieldable(fs, n) == \A i \in 1 .. n - 1 : fs[i].k \notin InC

CalledAt(m, fs, n) ==
  ~m /\ fs[n].k = "pcall" /\ Yieldable(fs, n) /\ n > 1
    => fs[n - 1].k \in {"lua", "scope", "after_error", "on_return"}

PlainBelow(m, fs, n) ==
  ~m /\ Yieldable(fs, n) => \A j \in 1 .. n - 1 : fs[j].k \notin Closers

CoveredAt(fs, m) ==
  \E i \in m + 1 .. Len(fs) : fs[i].k \in Unwinders /\ fs[i].to < m

Stack(m, fs, ls) ==
  /\ Slots(fs, ls)
  /\ \A n \in 1 .. Len(fs) : CalledAt(m, fs, n)
  /\ \A i \in 1 .. Len(ls) : PlainBelow(m, fs, ls[i].slot[1])
  /\ \A d \in 1 .. Len(fs) : fs[d].k = "dead" => CoveredAt(fs, d)

\* Whether there is C code below a frame depends on the kinds of frames only.
LEMMA YieldableAlike ==
  ASSUME NEW fs, NEW g, NEW c \in Nat, SameUpTo(fs, g, c), NEW n \in 1 .. c + 1
  PROVE  Yieldable(fs, n) <=> Yieldable(g, n)
<1>1. ASSUME NEW i \in 1 .. n - 1
      PROVE  fs[i].k \in InC <=> g[i].k \in InC
  <2>1. i \in 1 .. c
    OBVIOUS
  <2>2. Alike(fs[i], g[i])
    BY <2>1 DEF SameUpTo
  <2> QED
    BY <2>2 DEF Alike, InC
<1> QED
  BY <1>1 DEF Yieldable

\* What is said of a frame is said of what is below it.
LEMMA CalledAlike ==
  ASSUME NEW fs, NEW g, NEW c \in Nat, SameUpTo(fs, g, c), NEW n \in 1 .. c, NEW m,
         CalledAt(m, fs, n)
  PROVE  CalledAt(m, g, n)
<1>1. Yieldable(fs, n) <=> Yieldable(g, n)
  BY YieldableAlike
<1>2. Alike(fs[n], g[n]) /\ (n > 1 => Alike(fs[n - 1], g[n - 1]))
  BY DEF SameUpTo
<1> QED
  BY <1>1, <1>2 DEF CalledAt, Alike

\* So does the absence of handlers.
LEMMA PlainAlike ==
  ASSUME NEW fs, NEW g, NEW c \in Nat, SameUpTo(fs, g, c), NEW n \in 1 .. c, NEW m,
         PlainBelow(m, fs, n)
  PROVE  PlainBelow(m, g, n)
<1>1. Yieldable(fs, n) <=> Yieldable(g, n)
  BY YieldableAlike
<1>2. ASSUME NEW j \in 1 .. n - 1, fs[j].k \notin Closers
      PROVE  g[j].k \notin Closers
  <2>1. Alike(fs[j], g[j])
    BY DEF SameUpTo
  <2> QED
    BY <1>2, <2>1 DEF Alike, Closers
<1> QED
  BY <1>1, <1>2 DEF PlainBelow

\* The stack changes above frame c, where no slot is marked.
LEMMA StackReplaced ==
  ASSUME NEW E, NEW fs \in Seq(FrameType(E)), NEW g \in Seq(FrameType(E)),
         NEW ls \in Seq(Rec), NEW m, Stack(m, fs, ls),
         NEW c \in 0 .. Len(fs), c <= Len(g), SameUpTo(fs, g, c),
         \A i \in 1 .. Len(ls) : ls[i].slot[1] <= c,
         \A i \in c + 1 .. Len(fs) : fs[i].k \in Unwinders => fs[i].to >= c,
         \A i \in c + 1 .. Len(g) : g[i].k # "dead" /\ CalledAt(m, g, i)
  PROVE  Stack(m, g, ls)
<1>0. c \in Nat /\ Len(fs) \in Nat /\ Len(g) \in Nat /\ Len(ls) \in Nat
  OBVIOUS
<1>1. \A i \in 1 .. Len(ls) : ls[i].slot[1] \in 1 .. c
  BY <1>0 DEF Stack, Slots
<1>2. Slots(g, ls)
  <2>1. ASSUME NEW i \in 1 .. Len(ls)
        PROVE  ls[i].slot[1] \in 1 .. Len(g) /\ g[ls[i].slot[1]].k \in {"lua", "dead"}
    <3>1. fs[ls[i].slot[1]].k \in {"lua", "dead"} /\ ls[i].slot[1] \in 1 .. c
      BY <1>1 DEF Stack, Slots
    <3>2. Alike(fs[ls[i].slot[1]], g[ls[i].slot[1]])
      BY <3>1 DEF SameUpTo
    <3> QED
      BY <1>0, <3>1, <3>2 DEF Alike
  <2> QED
    BY <2>1 DEF Slots
<1>3. \A n \in 1 .. Len(g) : CalledAt(m, g, n)
  <2>1. \A n \in 1 .. c : CalledAt(m, g, n)
    BY <1>0, CalledAlike DEF Stack
  <2> QED
    BY <1>0, <2>1
<1>4. \A i \in 1 .. Len(ls) : PlainBelow(m, g, ls[i].slot[1])
  BY <1>0, <1>1, PlainAlike DEF Stack
<1>5. ASSUME NEW d \in 1 .. Len(g), g[d].k = "dead"
      PROVE  CoveredAt(g, d)
  <2>1. d \in 1 .. c
    BY <1>0, <1>5
  <2>2. Alike(fs[d], g[d]) /\ fs[d].k = "dead"
    BY <1>5, <2>1 DEF SameUpTo, Alike
  <2>3. PICK i \in d + 1 .. Len(fs) : fs[i].k \in Unwinders /\ fs[i].to < d
    BY <1>0, <2>1, <2>2 DEF Stack, CoveredAt
  <2>4. fs[i].to \in Nat
    <3>1. fs[i] \in FrameType(E)
      BY <1>0, <2>1, ElementOfSeq
    <3> QED
      BY <3>1 DEF FrameType
  <2>5. i \in 1 .. c
    BY <1>0, <2>1, <2>3, <2>4
  <2>6. g[i].k \in Unwinders /\ g[i].to < d
    <3>1. Alike(fs[i], g[i])
      BY <2>5 DEF SameUpTo
    <3> QED
      BY <2>3, <3>1 DEF Alike, Unwinders
  <2> QED
    BY <1>0, <2>1, <2>5, <2>6 DEF CoveredAt
<1> QED
  BY <1>2, <1>3, <1>4, <1>5 DEF Stack

\* An unwinder takes over everything above frame n.
LEMMA StackDeadened ==
  ASSUME NEW E, NEW fs \in Seq(FrameType(E)), NEW g \in Seq(FrameType(E)),
         NEW ls \in Seq(Rec), NEW m, Slots(fs, ls),
         \A i \in 1 .. Len(fs) : CalledAt(m, fs, i),
         \A i \in 1 .. Len(ls) : PlainBelow(m, fs, ls[i].slot[1]),
         NEW n \in 0 .. Len(fs), SameUpTo(fs, g, n),
         n > 0 => \A d \in 1 .. Len(fs) : fs[d].k = "dead" => CoveredAt(fs, d),
         \A i \in n + 1 .. Len(fs) : fs[i].k \in Unwinders => fs[i].to >= n,
         n > 0 => \A i \in n + 1 .. Len(fs) : fs[i].k \notin InC,
         Len(g) = Len(fs) + 1, \A i \in n + 1 .. Len(fs) : g[i].k = "dead",
         g[Len(g)].k \in Unwinders, g[Len(g)].to = n
  PROVE  Stack(m, g, ls)
<1>0. n \in Nat /\ Len(fs) \in Nat /\ Len(g) \in Nat /\ Len(ls) \in Nat
  OBVIOUS
<1>1. Slots(g, ls)
  <2>1. ASSUME NEW i \in 1 .. Len(ls)
        PROVE  ls[i].slot[1] \in 1 .. Len(g) /\ g[ls[i].slot[1]].k \in {"lua", "dead"}
    <3>1. ls[i].slot[1] \in 1 .. Len(fs) /\ fs[ls[i].slot[1]].k \in {"lua", "dead"}
      BY DEF Slots
    <3>2. CASE ls[i].slot[1] <= n
      BY <1>0, <3>1, <3>2 DEF SameUpTo, Alike
    <3>3. CASE ~(ls[i].slot[1] <= n)
      BY <1>0, <3>1, <3>3
    <3> QED
      BY <3>2, <3>3
  <2> QED
    BY <2>1 DEF Slots
<1>2. ASSUME NEW i \in 1 .. Len(g)
      PROVE  CalledAt(m, g, i)
  <2>1. CASE i <= n
    BY <1>0, <2>1, CalledAlike
  <2>2. CASE ~(i <= n)
    <3>1. g[i].k # "pcall"
      BY <1>0, <2>2 DEF Unwinders
    <3> QED
      BY <3>1 DEF CalledAt
  <2> QED
    BY <2>1, <2>2
<1>3. ASSUME NEW i \in 1 .. Len(ls)
      PROVE  PlainBelow(m, g, ls[i].slot[1])
  <2> DEFINE s == ls[i].slot[1]
  <2>1. s \in 1 .. Len(fs)
    BY DEF Slots
  <2>2. PlainBelow(m, fs, s)
    OBVIOUS
  <2> HIDE DEF s
  <2>3. CASE s <= n
    <3>1. s \in 1 .. n
      BY <1>0, <2>1, <2>3
    <3> QED
      BY <1>0, <2>2, <3>1, PlainAlike DEF s
  <2>4. CASE s > n
    <3>1. ASSUME NEW j \in 1 .. s - 1, g[j].k \in Closers
          PROVE  j <= n /\ fs[j].k \in Closers
      <4>1. j <= n
        BY <1>0, <2>1, <3>1 DEF Closers
      <4> QED
        BY <3>1, <4>1 DEF SameUpTo, Alike, Closers
    <3>2. ASSUME n > 0, Yieldable(g, s)
          PROVE  Yieldable(fs, s)
      <4>1. ASSUME NEW j \in 1 .. s - 1
            PROVE  fs[j].k \notin InC
        <5>1. CASE j <= n
          <6>1. g[j].k \notin InC /\ Alike(fs[j], g[j])
            BY <3>2, <5>1 DEF Yieldable, SameUpTo
          <6> QED
            BY <6>1 DEF Alike, InC
        <5>2. CASE ~(j <= n)
          BY <1>0, <2>1, <3>2, <5>2
        <5> QED
          BY <5>1, <5>2
      <4> QED
        BY <4>1 DEF Yieldable
    <3>3. ASSUME ~m, Yieldable(g, s), NEW j \in 1 .. s - 1, g[j].k \in Closers
          PROVE  FALSE
      <4>1. j <= n /\ fs[j].k \in Closers /\ n > 0
        BY <1>0, <2>1, <3>1, <3>3
      <4>2. Yieldable(fs, s)
        BY <3>2, <3>3, <4>1
      <4> QED
        BY <2>2, <3>3, <4>1, <4>2 DEF PlainBelow
    <3> QED
      BY <3>3 DEF PlainBelow, s
  <2> QED
    BY <1>0, <2>1, <2>3, <2>4 DEF s
<1>4. ASSUME NEW d \in 1 .. Len(g), g[d].k = "dead"
      PROVE  CoveredAt(g, d)
  <2>1. CASE d > n
    <3>1. d \in 1 .. Len(fs) /\ Len(g) \in d + 1 .. Len(g)
      BY <1>0, <1>4 DEF Unwinders
    <3> QED
      BY <2>1, <3>1 DEF CoveredAt
  <2>2. CASE d <= n
    <3>1. Alike(fs[d], g[d]) /\ fs[d].k = "dead"
      BY <1>4, <2>2 DEF SameUpTo, Alike
    <3>0. n > 0 /\ d \in 1 .. Len(fs)
      BY <1>0, <2>2
    <3>2. PICK i \in d + 1 .. Len(fs) : fs[i].k \in Unwinders /\ fs[i].to < d
      BY <3>0, <3>1 DEF CoveredAt
    <3>3. fs[i].to \in Nat
      <4>1. fs[i] \in FrameType(E)
        BY <1>0, ElementOfSeq
      <4> QED
        BY <4>1 DEF FrameType
    <3>4. i \in 1 .. n
      BY <1>0, <2>2, <3>2, <3>3
    <3>5. g[i].k \in Unwinders /\ g[i].to < d
      <4>1. Alike(fs[i], g[i])
        BY <3>4 DEF SameUpTo
      <4> QED
        BY <3>2, <4>1 DEF Alike, Unwinders
    <3> QED
      BY <1>0, <3>4, <3>5 DEF CoveredAt
  <2> QED
    BY <1>0, <2>1, <2>2
<1> QED
  BY <1>1, <1>2, <1>3, <1>4 DEF Stack

-----------------------------------------------------------------------------
(* The invariants                                                          *)

\* A thread whose function has not been called yet has done nothing else either.
Untouched == frames = <<>> /\ throw = Nil /\ ~cframe /\ status = "ok"

StatusInv ==
  /\ status \in {"ok", "yield", "error"}
  /\ fresh => Untouched

\* The return of a function, with pcalls around it, leaves a thread as old as it was.
LEMMA ReturnsKeep ==
  ASSUME NEW n, Returns(n)
  PROVE  UNCHANGED <<fresh, status>>
BY DEF Returns, PcallReturns, Ended, outside

\* So does the arrival of an error.
LEMMA ArrivesKeeps ==
  ASSUME NEW n, NEW e, Arrives(n, e)
  PROVE  UNCHANGED <<fresh, status>>
BY DEF Arrives, PcallReturns, Ended, outside

\* What a running function does.
LEMMA StepKeeps ==
  ASSUME Step
  PROVE  /\ Running \/ frames # <<>>
         /\ UNCHANGED fresh /\ status' \in {status, "yield"}
<1>1. CASE Call \/ CCall \/ CPcall \/ Pcall \/ PcallPcall \/ MetaPcall
  BY <1>1 DEF Call, CCall, CPcall, Pcall, PcallPcall, MetaPcall, Push, outside
<1>2. CASE \E v \in Vals : Mark(v)
  BY <1>2 DEF Mark, outside
<1>3. CASE \E n \in 1 .. Cardinality(Vals) : EndScope(n)
  BY <1>3 DEF EndScope, outside
<1>4. CASE Return
  BY <1>4, ReturnsKeep DEF Return, outside
<1>5. CASE Yield \/ StateClose
  BY <1>5 DEF Yield, StateClose, outside
<1>6. CASE \E e \in Errs : Raise(e)
  BY <1>6 DEF Raise, outside
<1> QED
  BY <1>1, <1>2, <1>3, <1>4, <1>5, <1>6 DEF Step

\* An error on its way.
LEMMA UnwindKeeps ==
  ASSUME Unwind
  PROVE  throw # Nil /\ UNCHANGED fresh /\ status' \in {status, "error"}
<1> SUFFICES UNCHANGED fresh /\ status' \in {status, "error"}
  BY DEF Unwind
<1>1. CASE UNCHANGED fresh /\ status' = "error"
  BY <1>1
<1>2. CASE Arrives(Landing, throw)
  BY <1>2, ArrivesKeeps
<1>3. CASE CloseInC(Landing, throw)
  BY <1>3 DEF CloseInC, outside
<1>4. CASE Deferred(Landing, throw)
  BY <1>4, ArrivesKeeps DEF Deferred, CloseInC, outside
<1> QED
  BY <1>1, <1>2, <1>3, <1>4 DEF Unwind

\* A closer goes on, or ends.
LEMMA CloserKeeps ==
  ASSUME CloseNext \/ CloseDone
  PROVE  frames # <<>> /\ UNCHANGED <<fresh, status>>
<1>1. CASE CloseNext
  BY <1>1 DEF CloseNext, IsCloser, outside
<1>2. CASE CloseDone
  <2>1. frames # <<>> /\ frames[Top].k \in Closers
    BY <1>2 DEF CloseDone, IsCloser
  <2>2. CASE frames[Top].k \in {"after_error", "unwind"}
    BY <1>2, <2>1, <2>2, ArrivesKeeps DEF CloseDone
  <2>3. CASE frames[Top].k = "scope"
    BY <1>2, <2>1, <2>3 DEF CloseDone, outside
  <2>4. CASE frames[Top].k = "on_return"
    BY <1>2, <2>1, <2>4, ReturnsKeep DEF CloseDone, outside
  <2> QED
    BY <2>1, <2>2, <2>3, <2>4 DEF Closers
<1> QED
  BY <1>1, <1>2

\* A thread that has not started is untouched.
LEMMA StatusInvariant ==
  ASSUME StatusInv, [Next]_vars
  PROVE  StatusInv'
<1>1. CASE Step
  BY <1>1, StepKeeps DEF StatusInv, Untouched, Running
<1>2. CASE Unwind
  BY <1>2, UnwindKeeps DEF StatusInv, Untouched
<1>3. CASE CloseNext \/ CloseDone
  BY <1>3, CloserKeeps DEF StatusInv, Untouched
<1>4. CASE CloseThread \/ \E b \in By : Resume(b)
  BY <1>4 DEF StatusInv, CloseThread, Resume
<1>5. CASE UNCHANGED vars
  BY <1>5 DEF StatusInv, Untouched, vars
<1> QED
  BY <1>1, <1>2, <1>3, <1>4, <1>5 DEF Next

\* coroutine_status decides by status, frames and the stack, resume by status, cframe
\* and the stack: they agree on every thread that does not run, also after errors,
\* yields in handlers and coroutine.close.
THEOREM StatusMatchesResume == Spec => []StatusAgrees
<1>1. Init => StatusInv
  <2>1. CASE main
    BY <2>1 DEF Init, StatusInv
  <2>2. CASE ~main
    BY <2>2 DEF Init, StatusInv, Untouched
  <2> QED
    BY <2>1, <2>2
<1>2. StatusInv /\ [Next]_vars => StatusInv'
  BY StatusInvariant
<1>3. StatusInv => StatusAgrees
  BY DEF StatusInv, Untouched, StatusAgrees, Status, CanResume
<1> QED
  BY <1>1, <1>2, <1>3, PTL DEF Spec

Distinct(ls) == \A i, j \in 1 .. Len(ls) : ls[i].val = ls[j].val => i = j

\* The list and the history of the values.
Listed ==
  /\ list \in Seq(Rec) /\ life \in [Vals -> {"new", "open", "closed"}]
  /\ Distinct(list) /\ \A i \in 1 .. Len(list) : life[list[i].val] = "open"

RecTyped(r) == r.slot[1] \in Nat /\ r.slot[2] \in 1 .. Cardinality(Vals) /\ r.slot = <<r.slot[1], r.slot[2]>> /\ r.val \in Vals

\* The parts of a record of the list.
LEMMA RecFields ==
  ASSUME NEW r \in Rec
  PROVE  RecTyped(r)
BY DEF Rec, RecTyped

\* A record is put together from a slot and a value.
LEMMA RecMade ==
  ASSUME NEW a \in Nat, NEW b \in 1 .. Cardinality(Vals), NEW v \in Vals
  PROVE  LET r == [slot |-> <<a, b>>, val |-> v] IN
         r \in Rec /\ r.slot = <<a, b>> /\ r.slot[1] = a /\ r.slot[2] = b /\ r.val = v
BY DEF Rec

\* Removing a record leaves records of other values.
LEMMA RemoveListed ==
  ASSUME NEW ls \in Seq(Rec), Distinct(ls), NEW n \in 1 .. Len(ls)
  PROVE  /\ RemoveAt(ls, n) \in Seq(Rec) /\ Distinct(RemoveAt(ls, n))
         /\ \A i \in 1 .. Len(RemoveAt(ls, n)) :
              \E j \in 1 .. Len(ls) : j # n /\ RemoveAt(ls, n)[i] = ls[j]
<1> DEFINE g == RemoveAt(ls, n)
<1>1. /\ g \in Seq(Rec) /\ Len(g) = Len(ls) - 1
      /\ \A i \in 1 .. Len(ls) - 1 : g[i] = IF i < n THEN ls[i] ELSE ls[i + 1]
  BY RemoveAtFacts
<1>2. Len(ls) \in Nat /\ n \in Nat
  OBVIOUS
<1> HIDE DEF g
<1>3. Distinct(g)
  BY <1>1, <1>2 DEF Distinct
<1>4. ASSUME NEW i \in 1 .. Len(g)
      PROVE  \E j \in 1 .. Len(ls) : j # n /\ g[i] = ls[j]
  <2>1. CASE i < n
    BY <1>1, <1>2, <2>1
  <2>2. CASE ~(i < n)
    <3>1. i + 1 \in 1 .. Len(ls) /\ i + 1 # n /\ g[i] = ls[i + 1]
      BY <1>1, <1>2, <2>2
    <3> QED
      BY <3>1
  <2> QED
    BY <2>1, <2>2
<1> QED
  BY <1>1, <1>3, <1>4 DEF g

\* There are fewer slots of a function than values, as long as a value is new.
LEMMA RoomForOne ==
  ASSUME IsFiniteSet(Vals), Listed, NEW v \in Vals, life[v] = "new", NEW t
  PROVE  LET own == {i \in DOMAIN list : list[i].slot[1] = t} IN
         /\ Cardinality(own) \in Nat
         /\ 1 + Cardinality(own) \in 1 .. Cardinality(Vals)
<1> DEFINE own == {i \in DOMAIN list : list[i].slot[1] = t}
           f == [i \in own |-> list[i].val]
           T == Vals \ {v}
<1>1. DOMAIN list = 1 .. Len(list) /\ \A i \in 1 .. Len(list) : list[i].val \in Vals
  <2>1. \A i \in 1 .. Len(list) : list[i] \in Rec
    BY DEF Listed
  <2> QED
    BY <2>1, RecFields DEF Listed, RecTyped
<1>2. \A i \in own : i \in 1 .. Len(list) /\ list[i].val \in T
  BY <1>1 DEF Listed
<1>3. IsFiniteSet(T) /\ Cardinality(T) = Cardinality(Vals) - 1
  BY FS_RemoveElement
<1> HIDE DEF own, T
<1>4. f \in Injection(own, T)
  BY <1>2 DEF Listed, Distinct, Injection, IsInjective
<1>5. IsFiniteSet(own) /\ Cardinality(own) <= Cardinality(T)
  BY <1>3, <1>4, FS_Injection
<1>6. Cardinality(own) \in Nat /\ Cardinality(T) \in Nat /\ Cardinality(Vals) \in Nat
  BY <1>3, <1>5, FS_CardinalityType
<1> QED
  BY <1>3, <1>5, <1>6 DEF own

\* lj_close_unmark leaves records that were there.
LEMMA UnmarkedFacts ==
  ASSUME Listed, NEW slot
  PROVE  /\ Unmarked(slot) \in Seq(Rec) /\ Distinct(Unmarked(slot))
         /\ \A i \in 1 .. Len(Unmarked(slot)) :
              \E j \in 1 .. Len(list) : Unmarked(slot)[i] = list[j]
<1> DEFINE stale == {i \in DOMAIN list : list[i].slot = slot}
<1>1. DOMAIN list = 1 .. Len(list) /\ Len(list) \in Nat /\ list \in Seq(Rec) /\ Distinct(list)
  BY DEF Listed
<1>2. CASE stale = {}
  <2>1. Unmarked(slot) = list
    BY <1>2 DEF Unmarked
  <2> QED
    BY <1>1, <2>1
<1>3. CASE stale # {}
  <2>1. Unmarked(slot) = RemoveAt(list, Max(stale))
    BY <1>3 DEF Unmarked
  <2>2. stale \in SUBSET (0 .. Len(list)) /\ stale \in SUBSET (1 .. Len(list))
    BY <1>1
  <2> HIDE DEF stale
  <2>3. Max(stale) \in 1 .. Len(list)
    BY <1>1, <1>3, <2>2, MaxIsGreatest
  <2>4. /\ RemoveAt(list, Max(stale)) \in Seq(Rec) /\ Distinct(RemoveAt(list, Max(stale)))
        /\ \A i \in 1 .. Len(RemoveAt(list, Max(stale))) :
             \E j \in 1 .. Len(list) : RemoveAt(list, Max(stale))[i] = list[j]
    BY <1>1, <2>3, RemoveListed
  <2> QED
    BY <2>1, <2>4
<1> QED
  BY <1>2, <1>3

\* Marking a variable keeps the values of the list distinct and open.
LEMMA MarkListed ==
  ASSUME IsFiniteSet(Vals), Listed, Top \in Nat, NEW v \in Vals, Mark(v)
  PROVE  Listed'
<1> DEFINE own == {i \in DOMAIN list : list[i].slot[1] = Top}
           slot == <<Top, 1 + Cardinality(own)>>
           r == [slot |-> slot, val |-> v]
           u == Unmarked(slot)
<1>1. 1 + Cardinality(own) \in 1 .. Cardinality(Vals)
  BY RoomForOne DEF Mark
<1>2. /\ list' = Append(u, r) /\ life[v] = "new" /\ life' = [life EXCEPT ![v] = "open"]
  BY DEF Mark
<1> HIDE DEF own
<1>3. r \in Rec /\ r.val = v
  BY <1>1, RecMade
<1>4. /\ u \in Seq(Rec) /\ Distinct(u)
      /\ \A i \in 1 .. Len(u) : \E j \in 1 .. Len(list) : u[i] = list[j]
  BY UnmarkedFacts
<1> HIDE DEF u, r
<1>5. ASSUME NEW i \in 1 .. Len(u)
      PROVE  life[u[i].val] = "open" /\ u[i].val # v
  <2>1. PICK j \in 1 .. Len(list) : u[i] = list[j]
    BY <1>4
  <2>2. life[list[j].val] = "open"
    BY DEF Listed
  <2> QED
    BY <1>2, <2>1, <2>2
<1>6. /\ list' \in Seq(Rec) /\ Len(list') = Len(u) + 1 /\ Len(u) \in Nat
      /\ \A i \in 1 .. Len(u) : list'[i] = u[i]
      /\ list'[Len(u) + 1] = r
  BY <1>2, <1>3, <1>4, AppendProperties
<1>7. \A i \in 1 .. Len(list') : i = Len(u) + 1 \/ i \in 1 .. Len(u)
  BY <1>6
<1>8. Distinct(list')
  BY <1>3, <1>4, <1>5, <1>6, <1>7 DEF Distinct
<1>9. \A i \in 1 .. Len(list') : life'[list'[i].val] = "open"
  BY <1>2, <1>3, <1>5, <1>6, <1>7 DEF Listed
<1>10. life' \in [Vals -> {"new", "open", "closed"}]
  BY <1>2 DEF Listed
<1> QED
  BY <1>6, <1>8, <1>9, <1>10 DEF Listed

\* The record that is closed next is one of the list.
LEMMA MarkedFacts ==
  ASSUME Listed, NEW low, Marked(low) # {}
  PROVE  Max(Marked(low)) \in 1 .. Len(list) /\ Max(Marked(low)) \in Marked(low)
<1>1. Len(list) \in Nat /\ Marked(low) \in SUBSET (0 .. Len(list)) /\ Marked(low) \subseteq 1 .. Len(list)
  BY DEF Listed, Marked
<1> QED
  BY <1>1, MaxIsGreatest

\* Closing a value takes it from the list.
LEMMA CloseNextListed ==
  ASSUME Listed, CloseNext
  PROVE  Listed'
<1> DEFINE n == Max(Marked(frames[Top].low))
<1>1. /\ list' = RemoveAt(list, n) /\ life' = [life EXCEPT ![list[n].val] = "closed"]
      /\ n \in 1 .. Len(list)
  BY MarkedFacts DEF CloseNext
<1> HIDE DEF n
<1>2. list \in Seq(Rec) /\ Distinct(list)
  BY DEF Listed
<1>3. /\ list' \in Seq(Rec) /\ Distinct(list')
      /\ \A i \in 1 .. Len(list') : \E j \in 1 .. Len(list) : j # n /\ list'[i] = list[j]
  BY <1>1, <1>2, RemoveListed
<1>4. \A j \in 1 .. Len(list) : list[j].val \in Vals
  <2>1. \A i \in 1 .. Len(list) : list[i] \in Rec
    BY <1>2
  <2> QED
    BY <2>1, RecFields DEF RecTyped
<1>5. life' \in [Vals -> {"new", "open", "closed"}]
  BY <1>1, <1>4 DEF Listed
<1>6. ASSUME NEW i \in 1 .. Len(list')
      PROVE  life'[list'[i].val] = "open"
  <2>1. PICK j \in 1 .. Len(list) : j # n /\ list'[i] = list[j]
    BY <1>3
  <2>2. list[j].val # list[n].val
    BY <1>1, <2>1 DEF Listed, Distinct
  <2> QED
    BY <1>1, <1>4, <2>1, <2>2 DEF Listed
<1> QED
  BY <1>3, <1>5, <1>6 DEF Listed

\* Everything else leaves the list alone.
LEMMA ListChanges ==
  ASSUME [Next]_vars
  PROVE  \/ \E v \in Vals : Mark(v)
         \/ CloseNext
         \/ UNCHANGED <<list, life>>
<1>1. CASE Call \/ CCall \/ CPcall \/ Pcall \/ PcallPcall \/ MetaPcall
  BY <1>1 DEF Call, CCall, CPcall, Pcall, PcallPcall, MetaPcall, Push
<1>2. CASE \E n \in 1 .. Cardinality(Vals) : EndScope(n)
  BY <1>2 DEF EndScope
<1>3. CASE Return \/ Yield \/ StateClose \/ \E e \in Errs : Raise(e)
  BY <1>3 DEF Return, Yield, StateClose, Raise
<1>4. CASE Unwind \/ CloseDone
  BY <1>4 DEF Unwind, CloseDone
<1>5. CASE CloseThread \/ \E b \in By : Resume(b)
  BY <1>5 DEF CloseThread, Resume
<1>6. CASE UNCHANGED vars
  BY <1>6 DEF vars
<1> QED
  BY <1>1, <1>2, <1>3, <1>4, <1>5, <1>6 DEF Next, Step

\* The slots of the newest record are above all others.
LEMMA LastIsGreatest ==
  ASSUME NEW ls \in Seq(Rec), Numbered(ls), NEW i \in 1 .. Len(ls)
  PROVE  LET s == ls[i].slot
             z == ls[Len(ls)].slot
         IN  s[1] < z[1] \/ (s[1] = z[1] /\ s[2] <= z[2])
<1> DEFINE n == Len(ls)
           z == ls[n].slot
<1>1. n \in Nat /\ n \in 1 .. n /\ i \in 1 .. n
  OBVIOUS
<1>2. \A j \in 1 .. n : RecTyped(ls[j])
  <2>1. \A j \in 1 .. n : ls[j] \in Rec
    OBVIOUS
  <2> QED
    BY <2>1, RecFields
<1>3. z[2] \in 1 .. n /\ z[1] \in Nat
  BY <1>1, <1>2 DEF Numbered, RecTyped
<1>4. CASE i \in 1 .. n - z[2]
  BY <1>1, <1>4 DEF Numbered
<1>5. CASE ~(i \in 1 .. n - z[2])
  <2>1. i \in n - z[2] + 1 .. n
    BY <1>1, <1>3, <1>5
  <2>2. ls[i].slot = <<z[1], z[2] - (n - i)>>
    BY <1>1, <2>1 DEF Numbered
  <2> QED
    BY <1>1, <1>3, <2>1, <2>2
<1> QED
  BY <1>4, <1>5

\* What is marked from low on ends with the newest record, which goes first.
LEMMA LastMarked ==
  ASSUME Listed, Numbered(list), NEW low \in Nat \X Nat, Marked(low) # {}
  PROVE  /\ Max(Marked(low)) = Len(list) /\ Len(list) \in 1 .. Len(list)
         /\ RemoveAt(list, Max(Marked(low))) = Front(list)
<1>1. list \in Seq(Rec) /\ Len(list) \in Nat /\ DOMAIN list = 1 .. Len(list)
  BY DEF Listed
<1>2. PICK i \in 1 .. Len(list) : AtOrAbove(list[i].slot, low)
  BY <1>1 DEF Marked
<1>3. \A j \in 1 .. Len(list) : RecTyped(list[j])
  <2>1. \A j \in 1 .. Len(list) : list[j] \in Rec
    BY <1>1
  <2> QED
    BY <2>1, RecFields
<1>4. Len(list) \in 1 .. Len(list)
  BY <1>1, <1>2
<1>5. AtOrAbove(list[Len(list)].slot, low)
  <2> DEFINE s == list[i].slot
             z == list[Len(list)].slot
  <2>1. s[1] < z[1] \/ (s[1] = z[1] /\ s[2] <= z[2])
    BY <1>1, LastIsGreatest
  <2>2. /\ s[1] \in Nat /\ s[2] \in 1 .. Cardinality(Vals)
        /\ z[1] \in Nat /\ z[2] \in 1 .. Cardinality(Vals)
    BY <1>3, <1>4 DEF RecTyped
  <2>3. low[1] \in Nat /\ low[2] \in Nat
    OBVIOUS
  <2>4. s[2] \in Int /\ z[2] \in Int
    BY <2>2
  <2> HIDE DEF s, z
  <2>5. AtOrAbove(s, low) => AtOrAbove(z, low)
    BY <2>1, <2>2, <2>3, <2>4 DEF AtOrAbove
  <2> QED
    BY <1>2, <2>5 DEF s, z
<1>6. Len(list) \in Marked(low)
  BY <1>1, <1>4, <1>5 DEF Marked
<1>7. Max(Marked(low)) = Len(list)
  <2>1. Marked(low) \in SUBSET (0 .. Len(list))
    BY <1>1 DEF Marked
  <2>2. Max(Marked(low)) \in Marked(low) /\ \A x \in Marked(low) : x <= Max(Marked(low))
    BY <1>1, <2>1, MaxIsGreatest
  <2> QED
    BY <1>1, <1>6, <2>1, <2>2
<1> QED
  BY <1>1, <1>4, <1>7, RemoveAtFacts

\* The slots of the function on top are numbered from one.
LEMMA OwnSlots ==
  ASSUME Listed, Numbered(list), NEW t \in Nat, \A i \in 1 .. Len(list) : list[i].slot[1] <= t
  PROVE  LET k == Cardinality({i \in DOMAIN list : list[i].slot[1] = t}) IN
         /\ k \in 0 .. Len(list)
         /\ \A i \in Len(list) - k + 1 .. Len(list) : list[i].slot = <<t, i - (Len(list) - k)>>
         /\ \A i \in 1 .. Len(list) - k : list[i].slot[1] < t
<1> DEFINE own == {i \in DOMAIN list : list[i].slot[1] = t}
           k == Cardinality(own)
           n == Len(list)
           z == list[n].slot
<1>1. list \in Seq(Rec) /\ n \in Nat /\ DOMAIN list = 1 .. n
  BY DEF Listed
<1>2. \A j \in 1 .. n : RecTyped(list[j])
  <2>1. \A j \in 1 .. n : list[j] \in Rec
    BY <1>1
  <2> QED
    BY <2>1, RecFields
<1>3. CASE n = 0 \/ (n > 0 /\ z[1] < t)
  <2>1. \A i \in 1 .. n : list[i].slot[1] < t
    <3>1. ASSUME NEW i \in 1 .. n
          PROVE  list[i].slot[1] < t
      <4>1. list[i].slot[1] < z[1] \/ list[i].slot[1] = z[1]
        BY <1>1, LastIsGreatest
      <4>2. list[i].slot[1] \in Nat /\ z[1] \in Nat /\ n > 0
        BY <1>1, <1>2 DEF RecTyped
      <4> QED
        BY <1>3, <4>1, <4>2
    <3> QED
      BY <3>1
  <2>2. \A i \in 1 .. n : list[i].slot[1] \in Nat
    BY <1>2 DEF RecTyped
  <2>3. own = {}
    BY <1>1, <2>1, <2>2
  <2>4. k = 0
    BY <2>3, FS_EmptySet
  <2> HIDE DEF k
  <2>5. /\ k \in 0 .. n
        /\ \A i \in n - k + 1 .. n : list[i].slot = <<t, i - (n - k)>>
        /\ \A i \in 1 .. n - k : list[i].slot[1] < t
    BY <1>1, <2>1, <2>4
  <2> QED
    BY <2>5 DEF k
<1>4. CASE n > 0 /\ z[1] = t
  <2>1. n \in 1 .. n
    BY <1>1, <1>4
  <2>2. /\ z[2] \in 1 .. n
        /\ \A j \in n - z[2] + 1 .. n : list[j].slot = <<t, z[2] - (n - j)>>
        /\ \A j \in 1 .. n - z[2] : list[j].slot[1] < t
    BY <1>4, <2>1 DEF Numbered
  <2> HIDE DEF z
  <2>3. own = n - z[2] + 1 .. n
    <3>1. \A j \in 1 .. n : j \in 1 .. n - z[2] \/ j \in n - z[2] + 1 .. n
      BY <1>1, <2>2
    <3>2. \A j \in n - z[2] + 1 .. n : list[j].slot[1] = t
      BY <2>2
    <3>3. \A j \in 1 .. n - z[2] : list[j].slot[1] # t
      <4>1. \A j \in 1 .. n - z[2] : j \in 1 .. n
        BY <1>1, <2>2
      <4> QED
        BY <1>2, <2>2, <4>1 DEF RecTyped
    <3> HIDE DEF n
    <3> QED
      BY <1>1, <2>2, <3>1, <3>2, <3>3
  <2>4. k = z[2]
    <3>1. n - z[2] + 1 \in Int /\ n \in Int /\ ~(n - z[2] + 1 > n)
      BY <1>1, <2>2
    <3>2. Cardinality(n - z[2] + 1 .. n) = n - (n - z[2] + 1) + 1
      BY <3>1, FS_Interval
    <3> HIDE DEF n, own
    <3> QED
      BY <1>1, <2>2, <2>3, <3>2
  <2>5. \A i \in n - z[2] + 1 .. n : z[2] - (n - i) = i - (n - z[2])
    BY <1>1, <2>2
  <2> HIDE DEF k
  <2>6. /\ k \in 0 .. n
        /\ \A i \in n - k + 1 .. n : list[i].slot = <<t, i - (n - k)>>
        /\ \A i \in 1 .. n - k : list[i].slot[1] < t
    BY <1>1, <2>2, <2>4, <2>5
  <2> QED
    BY <2>6 DEF k
<1>5. n = 0 \/ (n > 0 /\ z[1] < t) \/ (n > 0 /\ z[1] = t)
  <2>1. ASSUME n # 0
        PROVE  n > 0 /\ z[1] \in Nat /\ z[1] <= t
    <3>1. n \in 1 .. n
      BY <1>1, <2>1
    <3> QED
      BY <1>1, <1>2, <3>1 DEF RecTyped
  <2> QED
    BY <1>1, <2>1
<1> QED
  BY <1>3, <1>4, <1>5

\* Marking a variable adds it above the others and drops no record.
LEMMA MarkNumbered ==
  ASSUME IsFiniteSet(Vals), Listed, Numbered(list), Top \in Nat,
         \A i \in 1 .. Len(list) : list[i].slot[1] <= Top,
         NEW v \in Vals, Mark(v)
  PROVE  /\ Numbered(list')
         /\ \E r \in Rec : list' = Append(list, r) /\ r.slot[1] = Top /\ r.val = v
<1> DEFINE k == Cardinality({i \in DOMAIN list : list[i].slot[1] = Top})
           n == Len(list)
           r == [slot |-> <<Top, 1 + k>>, val |-> v]
<1>1. list \in Seq(Rec) /\ n \in Nat /\ DOMAIN list = 1 .. n
  BY DEF Listed
<1>2. /\ k \in 0 .. n
      /\ \A i \in n - k + 1 .. n : list[i].slot = <<Top, i - (n - k)>>
      /\ \A i \in 1 .. n - k : list[i].slot[1] < Top
  BY OwnSlots
<1>3. 1 + k \in 1 .. Cardinality(Vals)
  BY RoomForOne DEF Mark
<1>4. list' = Append(Unmarked(<<Top, 1 + k>>), r)
  BY DEF Mark
<1> HIDE DEF k
<1>5. {i \in DOMAIN list : list[i].slot = <<Top, 1 + k>>} = {}
  <2>1. ASSUME NEW i \in 1 .. n, list[i].slot = <<Top, 1 + k>>
        PROVE  FALSE
    <3>1. list[i].slot[1] = Top /\ list[i].slot[2] = 1 + k
      BY <2>1
    <3>2. i \in n - k + 1 .. n
      BY <1>1, <1>2, <3>1
    <3>3. list[i].slot[2] = i - (n - k)
      BY <1>2, <3>2
    <3> QED
      BY <1>1, <1>2, <3>1, <3>2, <3>3
  <2> QED
    BY <1>1, <2>1
<1>6. list' = Append(list, r)
  BY <1>4, <1>5 DEF Unmarked
<1>7. r \in Rec /\ r.slot = <<Top, 1 + k>> /\ r.slot[1] = Top /\ r.slot[2] = 1 + k /\ r.val = v
  BY <1>3, RecMade
<1> HIDE DEF r
<1>8. /\ Len(list') = n + 1 /\ \A i \in 1 .. n : list'[i] = list[i]
      /\ list'[n + 1] = r
  BY <1>1, <1>6, <1>7, AppendProperties
<1> HIDE DEF n
<1>9. ASSUME NEW i \in 1 .. n
      PROVE  /\ list'[i].slot[2] \in 1 .. i
             /\ \A j \in i - list'[i].slot[2] + 1 .. i :
                  list'[j].slot = <<list'[i].slot[1], list'[i].slot[2] - (i - j)>>
             /\ \A j \in 1 .. i - list'[i].slot[2] : list'[j].slot[1] < list'[i].slot[1]
  <2>1. /\ list[i].slot[2] \in 1 .. i
        /\ \A j \in i - list[i].slot[2] + 1 .. i :
             list[j].slot = <<list[i].slot[1], list[i].slot[2] - (i - j)>>
        /\ \A j \in 1 .. i - list[i].slot[2] : list[j].slot[1] < list[i].slot[1]
    BY DEF Numbered, n
  <2>2. \A j \in 1 .. i : list'[j] = list[j]
    BY <1>1, <1>8
  <2>3. \A x \in 1 .. i : (\A j \in i - x + 1 .. i : j \in 1 .. i) /\ (\A j \in 1 .. i - x : j \in 1 .. i)
    BY <1>1
  <2> QED
    BY <1>8, <2>1, <2>2, <2>3
<1>10. /\ r.slot[2] \in 1 .. n + 1
       /\ \A j \in (n + 1) - r.slot[2] + 1 .. n + 1 :
            list'[j].slot = <<r.slot[1], r.slot[2] - ((n + 1) - j)>>
       /\ \A j \in 1 .. (n + 1) - r.slot[2] : list'[j].slot[1] < r.slot[1]
  <2>1. ASSUME NEW j \in (n + 1) - (1 + k) + 1 .. n + 1
        PROVE  list'[j].slot = <<Top, (1 + k) - ((n + 1) - j)>>
    <3>1. CASE j = n + 1
      BY <1>1, <1>2, <1>7, <1>8, <3>1
    <3>2. CASE j # n + 1
      <4>1. j \in n - k + 1 .. n /\ j \in 1 .. n /\ j - (n - k) = (1 + k) - ((n + 1) - j)
        BY <1>1, <1>2, <3>2
      <4>2. list[j].slot = <<Top, j - (n - k)>>
        BY <1>2, <4>1
      <4> QED
        BY <1>8, <4>1, <4>2
    <3> QED
      BY <3>1, <3>2
  <2>2. ASSUME NEW j \in 1 .. (n + 1) - (1 + k)
        PROVE  list'[j].slot[1] < Top
    <3>1. j \in 1 .. n - k /\ j \in 1 .. n
      BY <1>1, <1>2
    <3> QED
      BY <1>2, <1>8, <3>1
  <2> QED
    BY <1>1, <1>2, <1>7, <2>1, <2>2
<1>11. Numbered(list')
  <2>1. \A i \in 1 .. Len(list') : i \in 1 .. n \/ i = n + 1
    BY <1>1, <1>8
  <2> QED
    BY <1>8, <1>9, <1>10, <2>1 DEF Numbered
<1> QED
  BY <1>6, <1>7, <1>11

\* Without the newest record the slots are still numbered.
LEMMA FrontNumbered ==
  ASSUME NEW ls \in Seq(Rec), Numbered(ls), Len(ls) > 0
  PROVE  /\ Numbered(Front(ls)) /\ Len(Front(ls)) = Len(ls) - 1
         /\ \A i \in 1 .. Len(ls) - 1 : Front(ls)[i] = ls[i]
<1> DEFINE n == Len(ls)
           g == RemoveAt(ls, n)
<1>1. n \in Nat /\ n \in 1 .. n
  OBVIOUS
<1>2. /\ g = Front(ls) /\ Len(g) = n - 1
      /\ \A i \in 1 .. n - 1 : g[i] = IF i < n THEN ls[i] ELSE ls[i + 1]
  BY <1>1, RemoveAtFacts
<1>3. \A i \in 1 .. n - 1 : g[i] = ls[i]
  BY <1>1, <1>2
<1> HIDE DEF g
<1>4. ASSUME NEW i \in 1 .. n - 1
      PROVE  /\ g[i].slot[2] \in 1 .. i
             /\ \A j \in i - g[i].slot[2] + 1 .. i :
                  g[j].slot = <<g[i].slot[1], g[i].slot[2] - (i - j)>>
             /\ \A j \in 1 .. i - g[i].slot[2] : g[j].slot[1] < g[i].slot[1]
  <2>1. /\ ls[i].slot[2] \in 1 .. i
        /\ \A j \in i - ls[i].slot[2] + 1 .. i :
             ls[j].slot = <<ls[i].slot[1], ls[i].slot[2] - (i - j)>>
        /\ \A j \in 1 .. i - ls[i].slot[2] : ls[j].slot[1] < ls[i].slot[1]
    BY <1>1 DEF Numbered
  <2>2. \A j \in 1 .. i : g[j] = ls[j]
    BY <1>1, <1>3
  <2>3. \A x \in 1 .. i : (\A j \in i - x + 1 .. i : j \in 1 .. i) /\ (\A j \in 1 .. i - x : j \in 1 .. i)
    BY <1>1
  <2>4. g[i] = ls[i]
    BY <1>3
  <2> QED
    BY <2>1, <2>2, <2>3, <2>4
<1>5. Numbered(g)
  BY <1>2, <1>4 DEF Numbered
<1> QED
  BY <1>2, <1>3, <1>5

\* A slot that is not marked any more.
LEMMA NoneMarked ==
  ASSUME Listed, NEW n \in Nat, Marked(<<n + 1, 1>>) = {}
  PROVE  \A i \in 1 .. Len(list) : list[i].slot[1] <= n
<1>1. ASSUME NEW i \in 1 .. Len(list), ~(list[i].slot[1] <= n)
      PROVE  FALSE
  <2>1. list[i] \in Rec /\ i \in DOMAIN list
    BY DEF Listed
  <2>2. RecTyped(list[i])
    BY <2>1, RecFields
  <2>3. AtOrAbove(list[i].slot, <<n + 1, 1>>)
    <3>1. /\ list[i].slot[1] \in Nat /\ list[i].slot[2] \in Int /\ list[i].slot[2] >= 1
          /\ <<n + 1, 1>>[1] = n + 1 /\ <<n + 1, 1>>[2] = 1
      BY <2>2 DEF RecTyped
    <3> QED
      BY <1>1, <3>1 DEF AtOrAbove
  <2> QED
    BY <2>1, <2>3 DEF Marked
<1> QED
  BY <1>1

\* Cutting frames without variables leaves every variable attended.
LEMMA CutStack ==
  ASSUME NEW E, TypedShape(E), list \in Seq(Rec), Stack(main, frames, list),
         NEW c \in 0 .. Top, NEW e, CutTo(c, e), frames' = Cut(frames, c) \/ e \in E \ {Nil},
         \A i \in 1 .. Len(list) : list[i].slot[1] <= c,
         \A i \in c + 1 .. Top : frames[i].k \in Unwinders => frames[i].to >= c
  PROVE  Stack(main, frames', list)
<1>0. frames \in Seq(FrameType(E)) /\ Shape(frames) /\ Top = Len(frames) /\ Len(frames) \in Nat
  BY DEF TypedShape, Top
<1>1. frames' \in Seq(FrameType(E)) /\ Len(frames') = c /\ SameUpTo(frames, frames', c)
  BY <1>0, CutKeepsShape
<1>2. /\ c \in 0 .. Len(frames) /\ c <= Len(frames')
      /\ \A i \in c + 1 .. Len(frames') : FALSE
      /\ \A i \in c + 1 .. Len(frames) : frames[i].k \in Unwinders => frames[i].to >= c
  BY <1>0, <1>1
<1> QED
  BY <1>0, <1>1, <1>2, StackReplaced

\* Frames that hold no variable can go.
LEMMA SlotsBelow ==
  ASSUME list \in Seq(Rec), Slots(frames, list), NEW n \in Nat, NEW c \in 0 .. n,
         \A i \in 1 .. Len(list) : list[i].slot[1] <= n,
         \A j \in c + 1 .. n : frames[j].k \notin {"lua", "dead"}
  PROVE  \A i \in 1 .. Len(list) : list[i].slot[1] <= c
<1> SUFFICES ASSUME NEW i \in 1 .. Len(list), ~(list[i].slot[1] <= c)
             PROVE  FALSE
  OBVIOUS
<1>1. list[i].slot[1] \in Nat /\ frames[list[i].slot[1]].k \in {"lua", "dead"}
  BY DEF Slots
<1>2. list[i].slot[1] \in c + 1 .. n
  BY <1>1
<1> QED
  BY <1>1, <1>2

\* An error that arrives at frame n, above which nothing is marked, does that.
LEMMA ArrivesStack ==
  ASSUME NEW E, TypedShape(E), Nil \in E, list \in Seq(Rec), Stack(main, frames, list),
         NEW n \in 0 .. Top, NEW e \in E, n > 0 => frames[n].k \in Catchers /\ e # Nil,
         Arrives(n, e), \A i \in 1 .. Len(list) : list[i].slot[1] <= n,
         \A i \in n + 1 .. Top : frames[i].k \in Unwinders => frames[i].to >= n
  PROVE  Stack(main, frames', list)
<1>0. Top \in Nat /\ n \in Nat /\ n <= Top /\ frames \in Seq(FrameType(E))
  BY DEF Top, TypedShape
<1>1. PICK c \in 0 .. n :
         /\ CutTo(c, e)
         /\ \A j \in c + 1 .. n : frames[j].k \in {"pcall", "caught", "meta", "call", "cpcall"}
  BY <1>0, ArrivesMoves
<1>2. \A i \in 1 .. Len(list) : list[i].slot[1] <= c
  BY <1>0, <1>1, SlotsBelow DEF Stack
<1>3. ASSUME NEW i \in c + 1 .. Top, frames[i].k \in Unwinders
      PROVE  frames[i].to >= c
  <2>1. i \in n + 1 .. Top
    BY <1>0, <1>1, <1>3 DEF Unwinders
  <2>2. frames[i] \in FrameType(E)
    <3>1. i \in 1 .. Len(frames)
      BY <1>0, <2>1 DEF Top
    <3> QED
      BY <1>0, <3>1, ElementOfSeq
  <2>3. frames[i].to >= n /\ frames[i].to \in Nat
    BY <1>3, <2>1, <2>2 DEF FrameType
  <2> QED
    BY <1>0, <2>3
<1>4. c \in 0 .. Top /\ (frames' = Cut(frames, c) \/ e \in E \ {Nil})
  BY <1>0, <1>1 DEF CutTo
<1> QED
  BY <1>1, <1>2, <1>3, <1>4, CutStack

\* And a function that has nothing left to close.
LEMMA ReturnsStack ==
  ASSUME NEW E, TypedShape(E), list \in Seq(Rec), Stack(main, frames, list),
         NEW n \in 1 .. Top, Returns(n),
         \A i \in 1 .. Len(list) : list[i].slot[1] <= n - 1,
         \A i \in n .. Top : frames[i].k \notin Unwinders
  PROVE  Stack(main, frames', list)
<1>0. Top \in Nat /\ n \in Nat /\ n <= Top /\ n >= 1 /\ frames \in Seq(FrameType(E)) /\ n - 1 \in Nat
  BY DEF Top, TypedShape
<1>1. PICK c \in 0 .. n - 1 :
         /\ frames' = Cut(frames, c)
         /\ \A j \in c + 1 .. n - 1 : frames[j].k \in {"pcall", "caught", "meta", "call", "cpcall"}
  BY <1>0, ReturnsMoves
<1>2. \A i \in 1 .. Len(list) : list[i].slot[1] <= c
  BY <1>0, <1>1, SlotsBelow DEF Stack
<1>3. \A i \in c + 1 .. Top : frames[i].k \notin Unwinders
  <2>1. \A i \in c + 1 .. Top : i \in c + 1 .. n - 1 \/ i \in n .. Top
    BY <1>0
  <2> QED
    BY <1>1, <2>1 DEF Unwinders
<1>4. c \in 0 .. Top /\ CutTo(c, Nil)
  BY <1>0, <1>1 DEF CutTo
<1> QED
  BY <1>1, <1>2, <1>3, <1>4, CutStack

\* The stack grows, below which everything stays.
LEMMA GrowStack ==
  ASSUME NEW E, TypedShape(E), list \in Seq(Rec), Stack(main, frames, list),
         frames' \in Seq(FrameType(E)), Len(frames') >= Len(frames),
         \A i \in 1 .. Len(frames) : frames'[i] = frames[i],
         \A i \in Len(frames) + 1 .. Len(frames') :
           frames'[i].k # "dead" /\ CalledAt(main, frames', i)
  PROVE  Stack(main, frames', list)
<1>0. frames \in Seq(FrameType(E)) /\ Len(frames) \in Nat /\ Len(frames) \in 0 .. Len(frames)
  BY DEF TypedShape
<1>1. SameUpTo(frames, frames', Len(frames))
  BY DEF SameUpTo, Alike
<1>2. \A i \in 1 .. Len(list) : list[i].slot[1] <= Len(frames)
  BY <1>0 DEF Stack, Slots
<1>3. \A i \in Len(frames) + 1 .. Len(frames) : FALSE
  BY <1>0
<1> QED
  BY <1>0, <1>1, <1>2, <1>3, StackReplaced

\* What a function or a closer puts on the stack: a pcall is called by Lua code or by a
\* closer that is a continuation or bytecode, or below it is C code.
LEMMA PushStack ==
  ASSUME NEW E, Nil \in E, TypedShape(E), list \in Seq(Rec), Stack(main, frames, list),
         frames # <<>>, frames[Top].k = "lua" \/ frames[Top].k \in Closers,
         NEW a \in Plain, NEW b \in Plain, NEW c \in Plain,
         \/ frames' = frames \o <<Frame(a)>>
         \/ frames' = frames \o <<Frame(a), Frame(b)>>
         \/ frames' = frames \o <<Frame(a), Frame(b), Frame(c)>>,
         a # "dead" /\ b # "dead" /\ c # "dead",
         a = "pcall" => frames[Top].k # "unwind",
         b = "pcall" => main \/ ~Yieldable(frames, Top),
         c # "pcall"
  PROVE  Stack(main, frames', list)
<1> DEFINE n == Len(frames)
<1>0. /\ frames \in Seq(FrameType(E)) /\ Shape(frames) /\ Top = n /\ n \in Nat /\ n >= 1
  BY DEF TypedShape, Top
<1>1. frames' \in Seq(FrameType(E))
  BY <1>0, PushShape
<1>2. /\ n + 1 <= Len(frames') /\ Len(frames') <= n + 3 /\ Len(frames') \in Nat
      /\ \A i \in 1 .. n : frames'[i] = frames[i]
      /\ frames'[n + 1] = Frame(a)
      /\ Len(frames') >= n + 2 => frames'[n + 2] = Frame(b)
      /\ Len(frames') >= n + 3 => frames'[n + 3] = Frame(c)
  <2>1. CASE frames' = frames \o <<Frame(a)>>
    <3> HIDE DEF Frame
    <3> QED
      BY <1>0, <2>1
  <2>2. CASE frames' = frames \o <<Frame(a), Frame(b)>>
    <3> HIDE DEF Frame
    <3> QED
      BY <1>0, <2>2
  <2>3. CASE frames' = frames \o <<Frame(a), Frame(b), Frame(c)>>
    <3> HIDE DEF Frame
    <3> QED
      BY <1>0, <2>3
  <2> QED
    BY <2>1, <2>2, <2>3
<1>3. Frame(a).k = a /\ Frame(b).k = b /\ Frame(c).k = c
  BY DEF Frame
<1>4. CalledAt(main, frames', n + 1)
  <2>1. a = "pcall" => frames'[n].k \in {"lua", "scope", "after_error", "on_return"}
    BY <1>0, <1>2 DEF Closers
  <2> QED
    BY <1>0, <1>2, <1>3, <2>1 DEF CalledAt
<1>5. ASSUME Len(frames') >= n + 2
      PROVE  CalledAt(main, frames', n + 2)
  <2>1. ASSUME ~Yieldable(frames, Top)
        PROVE  ~Yieldable(frames', n + 2)
    <3>1. PICK i \in 1 .. n - 1 : frames[i].k \in InC
      BY <1>0, <2>1 DEF Yieldable
    <3>2. i \in 1 .. (n + 2) - 1 /\ frames'[i].k \in InC
      BY <1>0, <1>2, <3>1
    <3> QED
      BY <3>2 DEF Yieldable
  <2> QED
    BY <1>2, <1>3, <1>5, <2>1 DEF CalledAt
<1>6. Len(frames') >= n + 3 => CalledAt(main, frames', n + 3)
  BY <1>2, <1>3 DEF CalledAt
<1>7. \A i \in n + 1 .. Len(frames') :
        frames'[i].k # "dead" /\ CalledAt(main, frames', i)
  <2>1. \A i \in n + 1 .. Len(frames') : i = n + 1 \/ (i = n + 2 /\ Len(frames') >= n + 2) \/ (i = n + 3 /\ Len(frames') >= n + 3)
    BY <1>0, <1>2
  <2> QED
    BY <1>2, <1>3, <1>4, <1>5, <1>6, <2>1
<1> QED
  BY <1>0, <1>1, <1>2, <1>7, GrowStack

\* A closer on top.
LEMMA CloserStack ==
  ASSUME NEW E, Nil \in E, TypedShape(E), list \in Seq(Rec), Stack(main, frames, list),
         NEW k \in Closers, NEW e, NEW low, NEW to,
         frames' = Append(frames, Closer(k, e, low, to)), frames' \in Seq(FrameType(E))
  PROVE  Stack(main, frames', list)
<1> DEFINE f == Closer(k, e, low, to)
<1>0. frames \in Seq(FrameType(E)) /\ Len(frames) \in Nat
  BY DEF TypedShape
<1>1. f.k = k
  BY DEF Closer, Frame
<1> HIDE DEF f
<1>2. /\ Len(frames') = Len(frames) + 1 /\ frames'[Len(frames) + 1] = f
      /\ \A i \in 1 .. Len(frames) : frames'[i] = frames[i]
  BY <1>0 DEF f
<1>3. k # "dead" /\ k # "pcall"
  BY DEF Closers
<1>4. CalledAt(main, frames', Len(frames) + 1)
  BY <1>1, <1>2, <1>3 DEF CalledAt
<1>5. \A i \in Len(frames) + 1 .. Len(frames') : i = Len(frames) + 1
  BY <1>0, <1>2
<1> QED
  BY <1>0, <1>1, <1>2, <1>3, <1>4, <1>5, GrowStack

\* Above the frame where an error lands, closers end there or above it.
LEMMA AboveLanding ==
  ASSUME NEW E, TypedShape(E)
  PROVE  /\ \A i \in Landing + 1 .. Top : frames[i].k \in Unwinders => frames[i].to >= Landing
         /\ \A i \in Landing + 1 .. Top : frames[i].k \notin InC
<1>0. frames \in Seq(FrameType(E)) /\ Shape(frames) /\ Top = Len(frames) /\ Top \in Nat
  BY DEF TypedShape, Top
<1>1. /\ Landing \in 0 .. Top
      /\ Landing > 0 => frames[Landing].k \in {"pcall", "call", "cpcall", "unwind"}
      /\ \A j \in Landing + 1 .. Top : frames[j].k \notin {"pcall", "call", "cpcall", "unwind"}
  BY <1>0, LandingFacts
<1> DEFINE n == Landing
<1> HIDE DEF n
<1>2. ASSUME NEW i \in n + 1 .. Top, frames[i].k \in Unwinders
      PROVE  frames[i].to >= n
  <2>1. frames[i].k = "after_error"
    BY <1>1, <1>2 DEF Unwinders, n
  <2>2. i \in 1 .. Len(frames)
    BY <1>0, <1>1 DEF n
  <2>3. UnwinderOK(frames, i) /\ frames[i].to \in Nat
    <3>1. frames[i] \in FrameType(E)
      BY <1>0, <2>2, ElementOfSeq
    <3> QED
      BY <1>0, <1>2, <2>2, <3>1 DEF Shape, ShapeTo, FrameType
  <2>4. ASSUME n > 0, frames[i].to < n
        PROVE  FALSE
    <3>1. n \in frames[i].to + 1 .. i - 1
      BY <1>0, <1>1, <2>3, <2>4 DEF n
    <3>2. frames[n].k = "dead"
      BY <2>1, <2>3, <3>1 DEF UnwinderOK
    <3> QED
      BY <1>1, <2>4, <3>2 DEF n
  <2> QED
    BY <1>0, <1>1, <2>3, <2>4 DEF n
<1> QED
  BY <1>1, <1>2 DEF InC, n

\* An unwinder that ends where the error lands attends to what is above.
LEMMA LandStack ==
  ASSUME NEW E, Nil \in E, TypedShape(E), list \in Seq(Rec), Stack(main, frames, list),
         NEW fs \in Seq(FrameType(E)), Len(fs) = Len(frames),
         \A i \in 1 .. Landing : Alike(frames[i], fs[i]),
         NEW k \in Unwinders, NEW e \in E,
         frames' = DeadenAbove(fs, Landing, k, e)
  PROVE  Stack(main, frames', list)
<1>0. frames \in Seq(FrameType(E)) /\ Shape(frames) /\ Top = Len(frames) /\ Top \in Nat
  BY DEF TypedShape, Top
<1>1. Landing \in 0 .. Top
  BY <1>0, LandingFacts
<1> DEFINE n == Landing
<1> HIDE DEF n
<1>2. n \in 0 .. Len(frames) /\ n \in 0 .. Len(fs)
  BY <1>0, <1>1 DEF n
<1>3. /\ frames' \in Seq(FrameType(E)) /\ Len(frames') = Len(frames) + 1
      /\ \A i \in 1 .. n : frames'[i] = fs[i]
      /\ \A i \in n + 1 .. Len(frames) : frames'[i].k = "dead"
      /\ frames'[Len(frames')].k = k /\ frames'[Len(frames')].to = n
  BY <1>2, DeadenAboveFacts DEF n
<1>4. SameUpTo(frames, frames', n)
  BY <1>3 DEF SameUpTo, n
<1>5. /\ \A i \in n + 1 .. Len(frames) : frames[i].k \in Unwinders => frames[i].to >= n
      /\ \A i \in n + 1 .. Len(frames) : frames[i].k \notin InC
  BY <1>0, AboveLanding DEF n
<1> QED
  BY <1>0, <1>2, <1>3, <1>4, <1>5, StackDeadened DEF Stack

\* What the landing pad relies on.
LEMMA DefersToLua ==
  ASSUME NEW E, TypedShape(E), list \in Seq(Rec), Stack(main, frames, list)
  PROVE  DeferringFine
<1> DEFINE n == Landing
<1>0. frames \in Seq(FrameType(E)) /\ Top = Len(frames) /\ Top \in Nat /\ Len(list) \in Nat
  BY DEF TypedShape, Top
<1>1. /\ n \in 0 .. Top
      /\ \A j \in n + 1 .. Top : frames[j].k \notin {"pcall", "call", "cpcall", "unwind"}
  BY <1>0, LandingFacts
<1> HIDE DEF n
<1> SUFFICES ASSUME n > 1, frames[n].k = "pcall", CanYield(n), Marked(<<n + 1, 1>>) # {}
             PROVE  frames[n - 1].k \in {"lua", "scope"}
  BY DEF DeferringFine, n
<1>2. ~main /\ Yieldable(frames, n)
  BY DEF CanYield, Yieldable, InC
<1>3. frames[n - 1].k \in {"lua", "scope", "after_error", "on_return"}
  <2>1. CalledAt(main, frames, n)
    BY <1>0, <1>1 DEF Stack
  <2> QED
    BY <1>2, <2>1 DEF CalledAt
<1>4. PICK i \in 1 .. Len(list) : AtOrAbove(list[i].slot, <<n + 1, 1>>)
  <2>1. DOMAIN list = 1 .. Len(list)
    OBVIOUS
  <2> QED
    BY <2>1 DEF Marked
<1> DEFINE m == list[i].slot[1]
<1>5. m \in 1 .. Top /\ m > n
  <2>1. m \in 1 .. Len(frames)
    BY DEF Stack, Slots
  <2>2. <<n + 1, 1>>[1] = n + 1
    OBVIOUS
  <2> HIDE DEF m
  <2>3. m > n + 1 \/ m = n + 1
    BY <1>4, <2>2 DEF AtOrAbove, m
  <2> QED
    BY <1>0, <1>1, <2>1, <2>3
<1>6. PlainBelow(main, frames, m)
  BY DEF Stack
<1> HIDE DEF m
<1>7. Yieldable(frames, m)
  <2>1. ASSUME NEW j \in 1 .. m - 1
        PROVE  frames[j].k \notin InC
    <3>1. j \in 1 .. n - 1 \/ j = n \/ j \in n + 1 .. Top
      BY <1>0, <1>1, <1>5
    <3> QED
      BY <1>1, <1>2, <3>1 DEF Yieldable, InC
  <2> QED
    BY <2>1 DEF Yieldable
<1>8. n - 1 \in 1 .. m - 1
  BY <1>1, <1>5
<1>9. frames[n - 1].k \notin Closers
  BY <1>2, <1>6, <1>7, <1>8 DEF PlainBelow
<1> QED
  BY <1>3, <1>9 DEF Closers

\* A thread that died from an error keeps its variables until it is closed.
Died == /\ ~cframe /\ throw = Nil /\ Slots(frames, list)
        /\ \A i \in 1 .. Len(frames) : frames[i].k = "dead"

\* Somebody sees to every variable.
Attended == IF status = "error" THEN Died ELSE Stack(main, frames, list)

\* An error under way leaves every variable attended, or the thread dead.
LEMMA UnwindStack ==
  ASSUME NEW E, Nil \in E, TypedShape(E), Listed, status # "error",
         Stack(main, frames, list), Unwind
  PROVE  Attended'
<1>0. /\ frames \in Seq(FrameType(E)) /\ Shape(frames) /\ Top = Len(frames) /\ Top \in Nat
      /\ throw \in E \ {Nil} /\ list \in Seq(Rec) /\ UNCHANGED list
  BY DEF TypedShape, Top, Unwind, Listed
<1> DEFINE n == Landing
<1>1. /\ n \in 0 .. Top /\ n \in 0 .. Len(frames)
      /\ n > 0 => frames[n].k \in {"pcall", "call", "cpcall", "unwind"}
  BY <1>0, LandingFacts
<1>2. \A i \in n + 1 .. Top : frames[i].k \in Unwinders => frames[i].to >= n
  BY AboveLanding
<1>3. n > 0 => frames[n].k \in Catchers
  BY <1>1 DEF Catchers, InC
<1>4. CASE n = 0 /\ ~main
  <2>1. /\ throw' = Nil /\ frames' = Deaden(frames, 0) /\ cframe' = FALSE
        /\ status' = "error"
    BY <1>4 DEF Unwind
  <2>2. Len(frames') = Len(frames) /\ \A i \in 1 .. Len(frames) : frames'[i] = Frame("dead")
    <3>1. Len(frames) \in Nat /\ 0 \in Nat /\ \A i \in 1 .. Len(frames) : i > 0
      BY <1>0
    <3> HIDE DEF FrameType, Frame
    <3> QED
      BY <1>0, <2>1, <3>1, DeadenFacts
  <2>3. Frame("dead").k = "dead"
    BY DEF Frame
  <2>4. Died'
    BY <1>0, <2>1, <2>2, <2>3 DEF Died, Stack, Slots
  <2> QED
    BY <2>1, <2>4 DEF Attended
<1>5. CASE Arrives(n, throw) /\ Marked(<<n + 1, 1>>) = {}
  <2>1. \A i \in 1 .. Len(list) : list[i].slot[1] <= n
    <3>1. n \in Nat
      BY <1>0, <1>1
    <3> HIDE DEF n
    <3> QED
      BY <1>5, <3>1, NoneMarked
  <2>2. Stack(main, frames', list)
    BY <1>0, <1>1, <1>2, <1>3, <1>5, <2>1, ArrivesStack
  <2>3. status' = status /\ main' = main
    BY <1>0, <1>1, <1>3, <1>5, ArrivesMoves
  <2> QED
    BY <1>0, <2>2, <2>3 DEF Attended
<1>6. CASE CloseInC(n, throw)
  <2>1. frames' = DeadenAbove(frames, n, "unwind", throw) /\ UNCHANGED <<main, status>>
    BY <1>6 DEF CloseInC, DeadenAbove, outside
  <2>2. "unwind" \in Unwinders /\ \A i \in 1 .. n : Alike(frames[i], frames[i])
    BY DEF Unwinders, Alike
  <2>3. Stack(main, frames', list)
    BY <1>0, <2>1, <2>2, LandStack
  <2> QED
    BY <1>0, <2>1, <2>3 DEF Attended
<1>7. CASE /\ n > 0 /\ frames[n].k = "pcall" /\ CanYield(n) /\ Marked(<<n + 1, 1>>) # {}
           /\ Deferred(n, throw)
  <2>1. DeferringFine
    BY <1>0, DefersToLua
  <2>2. n = 1 \/ frames[n - 1].k \in {"lua", "scope"}
    <3>1. n = 1 \/ n > 1
      BY <1>0, <1>1, <1>7
    <3>2. n > 1 => frames[n - 1].k \in {"lua", "scope"}
      BY <1>7, <2>1, Zenon DEF DeferringFine
    <3> QED
      BY <3>1, <3>2
  <2>3. CASE n = 1
    <3>1. CloseInC(n, throw)
      BY <1>7, <2>3, Zenon DEF Deferred
    <3> QED
      BY <1>6, <3>1
  <2>4. CASE n # 1 /\ frames[n - 1].k \in {"lua", "scope"}
    <3>1. /\ UNCHANGED <<main, status>>
          /\ frames' = Append([Deaden(frames, n) EXCEPT ![n].k = "caught"],
                               Closer("after_error", throw, <<n + 1, 1>>, n))
      BY <1>7, <2>4, Zenon DEF Deferred, outside
    <3>2. n \in 1 .. Len(frames)
      BY <1>0, <1>1, <1>7
    <3>3. frames' = DeadenAbove(Caught(frames, n), n, "after_error", throw)
      BY <1>0, <3>1, <3>2, DeferIsDeaden DEF DeadenAbove
    <3>4. /\ Caught(frames, n) \in Seq(FrameType(E)) /\ Len(Caught(frames, n)) = Len(frames)
          /\ \A i \in 1 .. Len(frames) : Alike(frames[i], Caught(frames, n)[i])
      BY <1>0, <1>7, <3>2, CaughtFacts
    <3>5. "after_error" \in Unwinders /\ \A i \in 1 .. n : Alike(frames[i], Caught(frames, n)[i])
      BY <1>0, <3>2, <3>4 DEF Unwinders
    <3>6. Stack(main, frames', list)
      BY <1>0, <3>3, <3>4, <3>5, LandStack
    <3> QED
      BY <1>0, <3>1, <3>6 DEF Attended
  <2> QED
    BY <2>2, <2>3, <2>4
<1> QED
  BY <1>4, <1>5, <1>6, <1>7, Zenon DEF Unwind

\* Closing a value: it is the newest, and the others stay attended.
LEMMA CloseNextStack ==
  ASSUME NEW E, Nil \in E, TypedShape(E), Listed, Numbered(list), Stack(main, frames, list),
         Errs \subseteq E, Nil \notin Errs, CloseNext
  PROVE  /\ Numbered(list') /\ Stack(main, frames', list')
         /\ Len(list') = Len(list) - 1 /\ list' = Front(list)
<1>0. /\ frames \in Seq(FrameType(E)) /\ Shape(frames) /\ Top = Len(frames) /\ Top \in Nat
      /\ frames # <<>> /\ frames[Top].k \in Closers /\ Top \in 1 .. Top
      /\ list \in Seq(Rec) /\ Len(list) \in Nat /\ Marked(frames[Top].low) # {}
  BY DEF TypedShape, Top, CloseNext, IsCloser, Listed
<1>1. frames[Top].low \in Nat \X Nat
  <2>1. frames[Top] \in FrameType(E)
    BY <1>0, ElementOfSeq
  <2> QED
    BY <2>1 DEF FrameType
<1>2. list' = RemoveAt(list, Max(Marked(frames[Top].low)))
  BY DEF CloseNext
<1>3. list' = Front(list) /\ Len(list) \in 1 .. Len(list)
  BY <1>0, <1>1, <1>2, LastMarked
<1>4. /\ Numbered(list') /\ Len(list') = Len(list) - 1
      /\ \A i \in 1 .. Len(list) - 1 : list'[i] = list[i]
  BY <1>0, <1>3, FrontNumbered
<1>5. list' \in Seq(Rec)
  BY CloseNextListed DEF Listed
<1>6. Stack(main, frames, list')
  BY <1>0, <1>4 DEF Stack, Slots
<1>7. CASE \/ frames[Top].k = "unwind" /\ frames' = frames \o <<Frame("lua")>>
           \/ frames[Top].k # "unwind" /\ frames' = frames \o <<Frame("pcall"), Frame("lua")>>
  <2>1. "lua" \in Plain /\ "pcall" \in Plain
    BY DEF Plain
  <2>2. frames' \in Seq(FrameType(E)) /\ Shape(frames')
    BY <1>0, <1>7, <2>1, PushShape
  <2>3. CASE frames' = frames \o <<Frame("lua")>>
    <3> DEFINE n == Len(frames)
    <3>1. /\ Len(frames') = n + 1 /\ \A i \in 1 .. n : frames'[i] = frames[i]
          /\ frames'[n + 1] = Frame("lua")
      BY <1>0, <2>3
    <3>2. \A i \in n + 1 .. Len(frames') : frames'[i].k = "lua"
      BY <1>0, <3>1 DEF Frame
    <3>3. \A i \in n + 1 .. Len(frames') : frames'[i].k # "dead" /\ CalledAt(main, frames', i)
      BY <3>2 DEF CalledAt
    <3>4. SameUpTo(frames, frames', n) /\ n \in 0 .. n /\ n <= Len(frames')
      BY <1>0, <3>1 DEF SameUpTo, Alike
    <3>5. /\ \A i \in 1 .. Len(list') : list'[i].slot[1] <= n
          /\ \A i \in n + 1 .. n : FALSE
      BY <1>0, <1>6 DEF Stack, Slots
    <3> QED
      BY <1>0, <1>4, <1>5, <1>3, <1>6, <2>2, <3>3, <3>4, <3>5, StackReplaced
  <2>4. CASE frames[Top].k # "unwind" /\ frames' = frames \o <<Frame("pcall"), Frame("lua")>>
    <3> DEFINE n == Len(frames)
    <3>1. /\ Len(frames') = n + 2 /\ \A i \in 1 .. n : frames'[i] = frames[i]
          /\ frames'[n + 1] = Frame("pcall") /\ frames'[n + 2] = Frame("lua")
      BY <1>0, <2>4
    <3>2. CalledAt(main, frames', n + 1)
      <4>1. frames'[n] = frames[Top]
        BY <1>0, <3>1
      <4> QED
        BY <1>0, <2>4, <4>1 DEF CalledAt, Closers
    <3>3. \A i \in n + 1 .. Len(frames') : frames'[i].k # "dead" /\ CalledAt(main, frames', i)
      <4>1. \A i \in n + 1 .. Len(frames') : i = n + 1 \/ i = n + 2
        BY <1>0, <3>1
      <4>2. frames'[n + 1].k = "pcall" /\ frames'[n + 2].k = "lua"
        BY <3>1 DEF Frame
      <4>3. CalledAt(main, frames', n + 2)
        BY <4>2 DEF CalledAt
      <4> QED
        BY <3>2, <4>1, <4>2, <4>3
    <3>4. SameUpTo(frames, frames', n) /\ n \in 0 .. n /\ n <= Len(frames')
      BY <1>0, <3>1 DEF SameUpTo, Alike
    <3>5. /\ \A i \in 1 .. Len(list') : list'[i].slot[1] <= n
          /\ \A i \in n + 1 .. n : FALSE
      BY <1>0, <1>6 DEF Stack, Slots
    <3> QED
      BY <1>0, <1>4, <1>5, <1>3, <1>6, <2>2, <3>3, <3>4, <3>5, StackReplaced
  <2> QED
    BY <1>3, <1>4, <1>7, <2>3, <2>4
<1>8. ASSUME NEW e \in Errs, frames' = [frames EXCEPT ![Top].err = e]
      PROVE  Stack(main, frames', list')
  <2> DEFINE f == [frames[Top] EXCEPT !.err = e]
             g == [frames EXCEPT ![Top] = f]
  <2>1. frames[Top] \in FrameType(E)
    BY <1>0, ElementOfSeq
  <2>2. f \in FrameType(E) /\ Alike(frames[Top], f)
    BY <2>1 DEF FrameType, Alike
  <2>3. frames' = g
    BY <1>8
  <2> HIDE DEF f
  <2>4. /\ g \in Seq(FrameType(E)) /\ Len(g) = Len(frames)
        /\ \A i \in 1 .. Len(frames) : g[i] = IF i = Top THEN f ELSE frames[i]
    BY <1>0, <2>2, ExceptSeq
  <2>5. SameUpTo(frames, frames', Len(frames))
    BY <1>0, <2>2, <2>3, <2>4 DEF SameUpTo, Alike
  <2>6. /\ frames' \in Seq(FrameType(E)) /\ Len(frames) <= Len(frames') /\ Len(frames) \in 0 .. Len(frames)
        /\ \A i \in Len(frames) + 1 .. Len(frames') : FALSE
        /\ \A i \in Len(frames) + 1 .. Len(frames) : FALSE
    BY <1>0, <2>3, <2>4
  <2>7. \A i \in 1 .. Len(list') : list'[i].slot[1] <= Len(frames)
    BY <1>0, <1>6 DEF Stack, Slots
  <2> QED
    BY <1>0, <1>5, <1>6, <2>5, <2>6, <2>7, StackReplaced
<1>9. Stack(main, frames', list')
  BY <1>7, <1>8 DEF CloseNext
<1> QED
  BY <1>3, <1>4, <1>9

\* A closer that is done leaves nothing behind.
LEMMA CloseDoneStack ==
  ASSUME NEW E, Nil \in E, TypedShape(E), Listed, Stack(main, frames, list), CloseDone
  PROVE  Stack(main, frames', list) /\ UNCHANGED main
<1> DEFINE f == frames[Top]
<1>0. /\ Top \in Nat /\ frames \in Seq(FrameType(E)) /\ Shape(frames) /\ Top = Len(frames)
      /\ Top \in 1 .. Top /\ f.k \in Closers /\ list \in Seq(Rec)
  BY DEF Top, TypedShape, CloseDone, IsCloser, Listed
<1>1. f.to \in Nat /\ f.err \in E
  <2>1. f \in FrameType(E)
    BY <1>0, ElementOfSeq
  <2> QED
    BY <2>1 DEF FrameType
<1>2. CASE f.k \in Unwinders
  <2>1. UnwinderOK(frames, Top)
    BY <1>0, <1>2 DEF Shape, ShapeTo
  <2>2. f.to \in 0 .. Top /\ f.to < Top /\ (f.to > 0 => frames[f.to].k \in Catchers /\ f.err # Nil)
    BY <1>0, <1>1, <2>1 DEF UnwinderOK
  <2>3. Arrives(f.to, f.err)
    BY <1>2, Zenon DEF CloseDone, Unwinders
  <2>4. Marked(<<f.to + 1, 1>>) = {}
    BY <2>1 DEF CloseDone, UnwinderOK
  <2>5. \A i \in 1 .. Len(list) : list[i].slot[1] <= f.to
    BY <1>1, <2>4, NoneMarked
  <2>6. \A i \in f.to + 1 .. Top : frames[i].k \in Unwinders => frames[i].to >= f.to
    <3>1. ASSUME NEW i \in f.to + 1 .. Top, frames[i].k \in Unwinders
          PROVE  frames[i].to >= f.to
      <4>1. CASE i = Top
        BY <1>1, <4>1
      <4>2. CASE i # Top
        <5>1. i \in f.to + 1 .. Top - 1 /\ i \in 1 .. Len(frames)
          BY <1>0, <1>1, <4>2
        <5>2. frames[i].k = "dead" \/ f.to = 0
          BY <2>1, <5>1 DEF UnwinderOK
        <5>3. frames[i].to \in Nat
          <6>1. frames[i] \in FrameType(E)
            BY <1>0, <5>1, ElementOfSeq
          <6> QED
            BY <6>1 DEF FrameType
        <5> QED
          BY <1>1, <3>1, <5>2, <5>3 DEF Unwinders
      <4> QED
        BY <4>1, <4>2
    <3> QED
      BY <3>1
  <2>7. UNCHANGED main
    BY <1>0, <2>2, <2>3, ArrivesMoves
  <2> HIDE DEF f
  <2> QED
    BY <1>0, <1>1, <2>2, <2>3, <2>5, <2>6, <2>7, ArrivesStack
<1>3. CASE f.k \in {"scope", "on_return"} /\ frames' = Cut(frames, Top - 1) /\ UNCHANGED outside
  <2>1. Top - 1 \in 0 .. Top /\ CutTo(Top - 1, Nil)
    BY <1>0, <1>3 DEF CutTo
  <2>2. \A i \in 1 .. Len(list) : list[i].slot[1] <= Top - 1
    <3>1. \A i \in 1 .. Len(list) : list[i].slot[1] <= Top
      BY <1>0 DEF Stack, Slots
    <3>2. \A j \in (Top - 1) + 1 .. Top : frames[j].k \notin {"lua", "dead"}
      BY <1>0, <1>3
    <3>3. Slots(frames, list) /\ Top - 1 \in 0 .. Top
      BY <2>1 DEF Stack
    <3> QED
      BY <1>0, <3>1, <3>2, <3>3, SlotsBelow
  <2>3. \A i \in (Top - 1) + 1 .. Top : frames[i].k \notin Unwinders
    BY <1>0, <1>3 DEF Unwinders
  <2> QED
    BY <1>0, <1>3, <2>1, <2>2, <2>3, CutStack DEF outside
<1>4. CASE f.k = "on_return" /\ Returns(Top - 1)
  <2>1. ScopeOK(frames, Top)
    BY <1>0, <1>4 DEF Shape, ShapeTo
  <2>2. /\ Top - 1 \in 1 .. Top /\ Top - 2 \in Nat /\ (Top - 2) + 1 = Top - 1 /\ frames[Top - 1].k = "lua"
        /\ f.low[1] = Top - 1 /\ f.low[2] = 1
    BY <1>0, <1>4, <2>1 DEF ScopeOK
  <2>3. f.low = <<Top - 1, 1>>
    <3>1. f \in FrameType(E)
      BY <1>0, ElementOfSeq
    <3>2. f.low \in Nat \X Nat
      BY <3>1 DEF FrameType
    <3> QED
      BY <2>2, <3>2
  <2>4. Marked(<<(Top - 2) + 1, 1>>) = {}
    BY <2>2, <2>3 DEF CloseDone
  <2>5. \A i \in 1 .. Len(list) : list[i].slot[1] <= Top - 2
    BY <2>2, <2>4, NoneMarked
  <2>6. \A i \in 1 .. Len(list) : list[i].slot[1] <= (Top - 1) - 1
    BY <1>0, <2>5
  <2>7. \A i \in Top - 1 .. Top : frames[i].k \notin Unwinders
    <3>1. \A i \in Top - 1 .. Top : i = Top - 1 \/ i = Top
      BY <1>0
    <3> QED
      BY <1>4, <2>2, <3>1 DEF Unwinders
  <2>8. UNCHANGED main
    BY <1>0, <1>4, <2>2, ReturnsMoves
  <2> QED
    BY <1>0, <1>4, <2>2, <2>6, <2>7, <2>8, ReturnsStack
<1>5. f.k \notin Unwinders => f.k \in {"scope", "on_return"}
  BY <1>0 DEF Closers, Unwinders
<1>6. CASE f.k = "scope"
  BY <1>3, <1>6 DEF CloseDone
<1>7. CASE f.k = "on_return"
  BY <1>3, <1>4, <1>7, Zenon DEF CloseDone
<1> QED
  BY <1>2, <1>5, <1>6, <1>7

\* A bound of the model: pcall is called by Lua code where it could yield, and handlers
\* have no variables of their own to close there.
Careful == Callers \subseteq {"lua"} /\ ~OwnTbc

\* A variable is marked in the function on top, and its slot is a new one.
LEMMA MarkStack ==
  ASSUME NEW E, TypedShape(E), IsFiniteSet(Vals), Careful, Listed, Numbered(list),
         Stack(main, frames, list), NEW v \in Vals, Mark(v)
  PROVE  /\ Numbered(list') /\ Stack(main, frames, list')
         /\ \E r \in Rec : list' = Append(list, r) /\ r.val = v
<1>0. /\ frames \in Seq(FrameType(E)) /\ Top = Len(frames) /\ Top \in Nat /\ list \in Seq(Rec)
      /\ Len(list) \in Nat /\ Top \in 1 .. Len(frames) /\ frames[Top].k = "lua"
  BY DEF TypedShape, Top, Mark, Running, Listed
<1>1. \A i \in 1 .. Len(list) : list[i].slot[1] <= Top
  BY <1>0 DEF Stack, Slots
<1>2. Numbered(list')
  BY <1>0, <1>1, MarkNumbered
<1>3. PICK r \in Rec : list' = Append(list, r) /\ r.slot[1] = Top /\ r.val = v
  BY <1>0, <1>1, MarkNumbered
<1>4. /\ Len(list') = Len(list) + 1 /\ list'[Len(list) + 1] = r
      /\ \A i \in 1 .. Len(list) : list'[i] = list[i]
  BY <1>0, <1>3, AppendProperties
<1>5. PlainBelow(main, frames, Top)
  <2>1. ~CanYield(Top) \/ \A f \in ToSet(frames) : f.k \notin Closers
    BY DEF Mark, Careful
  <2>2. CanYield(Top) <=> (~main /\ Yieldable(frames, Top))
    BY DEF CanYield, Yieldable, InC
  <2>3. \A j \in 1 .. Top - 1 : frames[j] \in ToSet(frames)
    BY <1>0 DEF ToSet
  <2> QED
    BY <2>1, <2>2, <2>3 DEF PlainBelow
<1>6. \A i \in 1 .. Len(list') : i \in 1 .. Len(list) \/ i = Len(list) + 1
  BY <1>0, <1>4
<1>7. Slots(frames, list')
  <2>1. Slots(frames, list)
    BY DEF Stack
  <2> QED
    BY <1>0, <1>3, <1>4, <1>6, <2>1 DEF Slots
<1>8. \A i \in 1 .. Len(list') : PlainBelow(main, frames, list'[i].slot[1])
  BY <1>3, <1>4, <1>5, <1>6 DEF Stack
<1> QED
  BY <1>2, <1>3, <1>7, <1>8 DEF Stack

\* A running function leaves every variable attended.
LEMMA StepStack ==
  ASSUME NEW E, Nil \in E, Errs \subseteq E, TypedShape(E), Careful, Listed,
         Stack(main, frames, list), Step, UNCHANGED list
  PROVE  Stack(main, frames', list) /\ UNCHANGED main
<1>0. /\ frames \in Seq(FrameType(E)) /\ Shape(frames) /\ Top = Len(frames) /\ Top \in Nat /\ list \in Seq(Rec)
      /\ Len(list) \in Nat /\ frames' \in Seq(FrameType(E))
  BY StepShape DEF TypedShape, Top, Listed
<1>1. CanYield(Top) <=> (~main /\ Yieldable(frames, Top))
  BY DEF CanYield, Yieldable, InC
<1>2. ASSUME NEW a \in Plain, NEW b \in Plain, NEW c \in Plain,
             \/ Push(<<Frame(a)>>) \/ Push(<<Frame(a), Frame(b)>>)
             \/ Push(<<Frame(a), Frame(b), Frame(c)>>),
             a # "dead" /\ b # "dead" /\ c # "dead" /\ c # "pcall",
             b = "pcall" => ~CanYield(Top)
      PROVE  Stack(main, frames', list) /\ UNCHANGED main
  <2>1. /\ frames # <<>> /\ frames[Top].k = "lua" /\ UNCHANGED main
        /\ \/ frames' = frames \o <<Frame(a)>>
           \/ frames' = frames \o <<Frame(a), Frame(b)>>
           \/ frames' = frames \o <<Frame(a), Frame(b), Frame(c)>>
    BY <1>2 DEF Push, Running, outside
  <2>2. b = "pcall" => main \/ ~Yieldable(frames, Top)
    BY <1>1, <1>2
  <2>3. a = "pcall" => frames[Top].k # "unwind"
    BY <2>1
  <2> QED
    BY <1>0, <1>2, <2>1, <2>2, <2>3, PushStack
<1>3. /\ {"lua", "pcall", "meta", "call", "cpcall"} \subseteq Plain
      /\ "pcall" \notin Callers /\ "meta" \notin Callers
  BY DEF Plain, Careful
<1>4. CASE Call \/ CCall \/ CPcall \/ Pcall
  BY <1>2, <1>3, <1>4 DEF Call, CCall, CPcall, Pcall
<1>5. CASE PcallPcall
  BY <1>2, <1>3, <1>5 DEF PcallPcall
<1>6. CASE MetaPcall
  BY <1>2, <1>3, <1>6 DEF MetaPcall
<1>7. CASE (\E v \in Vals : Mark(v)) \/ Yield \/ \E e \in Errs : Raise(e)
  BY <1>7 DEF Mark, Yield, Raise, outside
<1>8. CASE \E n \in 1 .. Cardinality(Vals) : EndScope(n)
  <2>1. PICK n \in 1 .. Cardinality(Vals) : frames' = Append(frames, Closer("scope", Nil, <<Top, n>>, 0))
    BY <1>8 DEF EndScope
  <2>2. "scope" \in Closers /\ UNCHANGED main
    BY <1>8 DEF Closers, EndScope, outside
  <2> QED
    BY <1>0, <2>1, <2>2, CloserStack
<1>9. CASE Return
  <2>0. frames # <<>> /\ frames[Top].k = "lua"
    BY <1>9 DEF Return, Running
  <2>1. CASE Returns(Top) /\ Marked(<<Top, 1>>) = {}
    <3>1. Top \in 1 .. Top /\ Top - 1 \in Nat /\ (Top - 1) + 1 = Top
      BY <1>0, <2>0
    <3>2. \A i \in 1 .. Len(list) : list[i].slot[1] <= Top - 1
      BY <2>1, <3>1, NoneMarked
    <3>3. \A i \in Top .. Top : frames[i].k \notin Unwinders
      BY <1>0, <2>0 DEF Unwinders
    <3>4. UNCHANGED main
      BY <1>0, <2>1, <3>1, ReturnsMoves
    <3> QED
      BY <1>0, <2>1, <3>1, <3>2, <3>3, <3>4, ReturnsStack
  <2>2. CASE frames' = Append(frames, Closer("on_return", Nil, <<Top, 1>>, 0)) /\ UNCHANGED outside
    <3>1. "on_return" \in Closers
      BY DEF Closers
    <3> QED
      BY <1>0, <2>2, <3>1, CloserStack DEF outside
  <2> QED
    BY <1>9, <2>1, <2>2 DEF Return
<1>10. CASE StateClose
  <2>1. "unwind" \in Closers
    BY DEF Closers
  <2> QED
    BY <1>0, <1>10, <2>1, CloserStack DEF StateClose, outside
<1> QED
  BY <1>4, <1>5, <1>6, <1>7, <1>8, <1>9, <1>10 DEF Step

\* lua_closethread attends to the variables of any thread, a dead one too.
LEMMA CloseThreadStack ==
  ASSUME NEW E, Nil \in E, TypedShape(E), Listed, Attended, CloseThread
  PROVE  Stack(main, frames', list) /\ UNCHANGED main /\ status' = "ok"
<1> DEFINE e == IF status = "error" THEN errobj ELSE Nil
<1>0. /\ frames \in Seq(FrameType(E)) /\ Shape(frames) /\ list \in Seq(Rec) /\ Len(frames) \in Nat
      /\ 0 \in 0 .. Len(frames)
  BY DEF TypedShape, Listed
<1>1. /\ Slots(frames, list) /\ \A i \in 1 .. Len(frames) : CalledAt(main, frames, i)
      /\ \A i \in 1 .. Len(list) : PlainBelow(main, frames, list[i].slot[1])
  <2>1. CASE status = "error"
    <3>1. Slots(frames, list) /\ \A i \in 1 .. Len(frames) : frames[i].k = "dead"
      BY <2>1 DEF Attended, Died
    <3>2. \A i \in 1 .. Len(frames) : CalledAt(main, frames, i)
      BY <3>1 DEF CalledAt
    <3>3. ASSUME NEW i \in 1 .. Len(list) PROVE PlainBelow(main, frames, list[i].slot[1])
      <4>1. \A j \in 1 .. list[i].slot[1] - 1 : j \in 1 .. Len(frames)
        BY <1>0, <3>1 DEF Slots
      <4> QED
        BY <3>1, <4>1 DEF PlainBelow, Closers
    <3> QED
      BY <3>1, <3>2, <3>3
  <2>2. CASE status # "error"
    BY <2>2 DEF Attended, Stack
  <2> QED
    BY <2>1, <2>2
<1>2. frames' = DeadenAbove(frames, 0, "unwind", e) /\ UNCHANGED main /\ status' = "ok"
  BY DEF CloseThread, DeadenAbove
<1>3. e \in E /\ "unwind" \in Unwinders
  BY DEF TypedShape, Unwinders
<1> HIDE DEF e
<1>4. /\ frames' \in Seq(FrameType(E)) /\ Len(frames') = Len(frames) + 1
      /\ \A i \in 0 + 1 .. Len(frames) : frames'[i].k = "dead"
      /\ frames'[Len(frames')].k \in Unwinders /\ frames'[Len(frames')].to = 0
  BY <1>0, <1>2, <1>3, DeadenAboveFacts
<1>5. SameUpTo(frames, frames', 0)
  BY DEF SameUpTo
<1>6. \A i \in 0 + 1 .. Len(frames) : frames[i].k \in Unwinders => frames[i].to >= 0
  <2>1. ASSUME NEW i \in 1 .. Len(frames) PROVE frames[i].to >= 0
    <3>1. frames[i] \in FrameType(E)
      BY <1>0, ElementOfSeq
    <3> QED
      BY <3>1 DEF FrameType
  <2> QED
    BY <2>1
<1>7. ~(0 > 0)
  OBVIOUS
<1> QED
  BY <1>0, <1>1, <1>2, <1>4, <1>5, <1>6, <1>7, StackDeadened

\* Resume finds nothing to close in a thread that starts.
LEMMA ResumeStack ==
  ASSUME NEW E, TypedShape(E), Listed, StatusInv, Attended, NEW b, Resume(b)
  PROVE  Stack(main, frames', list) /\ UNCHANGED main /\ status' = "ok"
<1>1. UNCHANGED main /\ status' = "ok" /\ status # "error"
  BY DEF Resume, CanResume
<1>2. Stack(main, frames, list)
  BY <1>1 DEF Attended
<1>3. CASE UNCHANGED frames
  BY <1>1, <1>2, <1>3
<1>4. CASE fresh /\ (frames' = <<Frame("lua")>> \/ frames' = <<Frame("pcall"), Frame("lua")>>)
  <2>1. frames = <<>> /\ Len(list) \in Nat
    BY <1>4 DEF StatusInv, Untouched, Listed
  <2>2. Len(list) = 0
    <3>1. ASSUME Len(list) # 0 PROVE FALSE
      <4>1. 1 \in 1 .. Len(list)
        BY <2>1, <3>1
      <4>2. list[1].slot[1] \in 1 .. Len(frames)
        BY <1>2, <4>1 DEF Stack, Slots
      <4> QED
        BY <2>1, <4>2
    <3> QED
      BY <3>1
  <2>3. \A i \in 1 .. Len(list) : FALSE
    BY <2>2
  <2>4. \A i \in 1 .. Len(frames') : frames'[i].k # "dead" /\ CalledAt(main, frames', i)
    <3>1. \A i \in 1 .. Len(frames') : frames'[i].k \in {"pcall", "lua"} /\ (i > 1 => frames'[i].k = "lua")
      BY <1>4 DEF Frame
    <3> QED
      BY <3>1 DEF CalledAt
  <2> QED
    BY <1>1, <2>3, <2>4 DEF Stack, Slots
<1> QED
  BY <1>3, <1>4 DEF Resume

AnyErr == Errs \cup {Nil, Junk}
Held == Errs \cup {Nil}

Control == /\ main \in BOOLEAN /\ cframe \in BOOLEAN /\ fresh \in BOOLEAN
           /\ by \in By \cup {"none"}

\* What holds whoever calls pcall and whoever resumes.
BaseInv == TypedShape(AnyErr) /\ Listed /\ StatusInv /\ Control

\* Every step keeps the shape of the stack, with errors out of E.
LEMMA ShapeSteps ==
  ASSUME NEW E, Nil \in E, Errs \subseteq E, Nil \notin Errs, TypedShape(E), [Next]_vars,
         Unwind => Junk \in E \ {Nil} \/ (DeferringFine /\ by # "resume")
  PROVE  /\ TypedShape(E)' /\ Kept
         /\ by' = by \/ \E b \in By : Resume(b)
<1>1. CASE Step
  BY <1>1, StepShape, StepKept
<1>2. CASE Unwind
  BY <1>2, UnwindTyped
<1>3. CASE CloseNext
  BY <1>3, CloseNextTyped
<1>4. CASE CloseDone
  BY <1>4, CloseDoneTyped
<1>5. CASE CloseThread
  BY <1>5, OutsideTyped DEF CloseThread
<1>6. CASE \E b \in By : Resume(b)
  BY <1>6, OutsideTyped
<1>7. CASE UNCHANGED vars
  BY <1>7, SameKept DEF vars, TypedShape
<1> QED
  BY <1>1, <1>2, <1>3, <1>4, <1>5, <1>6, <1>7 DEF Next

\* Every step keeps the list and the history of values in agreement.
LEMMA ListedSteps ==
  ASSUME IsFiniteSet(Vals), Listed, Top \in Nat, [Next]_vars
  PROVE  Listed'
<1>1. CASE \E v \in Vals : Mark(v)
  BY <1>1, MarkListed
<1>2. CASE CloseNext
  BY <1>2, CloseNextListed
<1>3. CASE UNCHANGED <<list, life>>
  BY <1>3 DEF Listed
<1> QED
  BY <1>1, <1>2, <1>3, ListChanges

\* The flags of the thread stay flags.
LEMMA ControlSteps ==
  ASSUME NEW E, TypedShape(E), Nil \in E, Control, StatusInv, [Next]_vars
  PROVE  (main \in BOOLEAN /\ cframe \in BOOLEAN /\ fresh \in BOOLEAN)'
<1>1. ASSUME UNCHANGED <<main, fresh>>, cframe' \in {TRUE, FALSE, cframe}
      PROVE  (main \in BOOLEAN /\ cframe \in BOOLEAN /\ fresh \in BOOLEAN)'
  BY <1>1 DEF Control
<1>2. ASSUME NEW n, Returns(n) PROVE UNCHANGED <<main, fresh>> /\ cframe' \in {TRUE, FALSE, cframe}
  BY <1>2 DEF Returns, PcallReturns, Ended, outside
<1>3. ASSUME NEW n, NEW e, Arrives(n, e)
      PROVE  UNCHANGED <<main, fresh>> /\ cframe' \in {TRUE, FALSE, cframe}
  BY <1>3 DEF Arrives, PcallReturns, Ended, outside
<1>4. CASE Step
  <2>1. CASE Return
    BY <1>1, <1>2, <2>1 DEF Return, outside
  <2>2. CASE ~Return
    BY <1>1, <1>4, <2>2 DEF Step, Call, CCall, CPcall, Pcall, PcallPcall, MetaPcall, Push, Mark,
      EndScope, Yield, StateClose, Raise, outside
  <2> QED
    BY <2>1, <2>2
<1>5. CASE Unwind
  <2>1. CASE Arrives(Landing, throw)
    BY <1>1, <1>3, <2>1
  <2>2. CASE Deferred(Landing, throw)
    <3>1. Arrives(Landing, Junk) \/ (UNCHANGED outside)
      BY <2>2 DEF Deferred, CloseInC
    <3> QED
      BY <1>1, <1>3, <3>1 DEF outside
  <2>3. CASE CloseInC(Landing, throw)
    BY <1>1, <2>3 DEF CloseInC, outside
  <2>4. CASE cframe' = FALSE /\ UNCHANGED <<main, fresh>>
    BY <1>1, <2>4
  <2> QED
    BY <1>5, <2>1, <2>2, <2>3, <2>4, Zenon DEF Unwind
<1>6. CASE CloseNext
  BY <1>1, <1>6 DEF CloseNext, outside
<1>7. CASE CloseDone
  <2>1. \/ \E n, e : Arrives(n, e)
        \/ \E n : Returns(n)
        \/ UNCHANGED outside
    <3>1. frames[Top].k \in Closers
      BY <1>7 DEF CloseDone, IsCloser
    <3>2. CASE frames[Top].k \in {"after_error", "unwind"}
      BY <1>7, <3>2, Zenon DEF CloseDone
    <3>3. CASE frames[Top].k = "scope"
      BY <1>7, <3>3 DEF CloseDone
    <3>4. CASE frames[Top].k = "on_return"
      BY <1>7, <3>4, Zenon DEF CloseDone
    <3> QED
      BY <3>1, <3>2, <3>3, <3>4 DEF Closers
  <2> QED
    BY <1>1, <1>2, <1>3, <2>1 DEF outside
<1>8. CASE CloseThread \/ \E b \in By : Resume(b)
  BY <1>8 DEF CloseThread, Resume, Control
<1>9. CASE UNCHANGED vars
  BY <1>1, <1>9 DEF vars
<1> QED
  BY <1>4, <1>5, <1>6, <1>7, <1>8, <1>9 DEF Next

\* A new thread.
LEMMA InitShape ==
  ASSUME NEW E, Nil \in E, Init
  PROVE  TypedShape(E) /\ Listed /\ Len(list) = 0 /\ Stack(main, frames, list)
<1>1. <<>> \in Seq(FrameType(E)) /\ Shape(<<>>)
  BY EmptyShape
<1>2. Append(<<>>, Frame("lua")) \in Seq(FrameType(E)) /\ Shape(Append(<<>>, Frame("lua")))
  <2>1. "lua" \in Plain
    BY DEF Plain
  <2> QED
    BY <1>1, <2>1, PlainShape
<1>3. frames \in {<<>>, Append(<<>>, Frame("lua"))}
  BY DEF Init
<1>4. list = <<>> /\ Len(list) = 0 /\ throw = Nil /\ errobj = Nil /\ life \in [Vals -> {"new", "open", "closed"}]
  BY DEF Init
<1>5. Listed
  <2>1. <<>> \in Seq(Rec)
    OBVIOUS
  <2> QED
    BY <1>4, <2>1 DEF Listed, Distinct
<1>6. Stack(main, frames, list)
  <2>1. \A i \in 1 .. Len(frames) : frames[i].k = "lua"
    BY DEF Init, Frame
  <2> QED
    BY <1>4, <2>1 DEF Stack, Slots, CalledAt
<1> QED
  BY <1>1, <1>2, <1>3, <1>4, <1>5, <1>6 DEF TypedShape

\* The invariant that needs no assumption on callers.
LEMMA BaseInvariant ==
  /\ Init => BaseInv
  /\ BaseInv /\ [Next]_vars => BaseInv' /\ Kept
<1>0. Nil \in AnyErr /\ Errs \subseteq AnyErr /\ Nil \notin Errs /\ Junk \in AnyErr \ {Nil} /\ IsFiniteSet(Vals)
  BY CloseAssumption DEF AnyErr
<1>1. ASSUME Init PROVE BaseInv
  <2>1. TypedShape(AnyErr) /\ Listed
    BY <1>0, <1>1, InitShape
  <2>2. Control
    BY <1>1 DEF Init, Control
  <2>3. StatusInv
    BY <1>1 DEF Init, StatusInv, Untouched
  <2> QED
    BY <2>1, <2>2, <2>3 DEF BaseInv
<1>2. ASSUME BaseInv, [Next]_vars PROVE BaseInv' /\ Kept
  <2>1. TypedShape(AnyErr) /\ Listed /\ StatusInv /\ Control
    BY <1>2 DEF BaseInv
  <2>2. TypedShape(AnyErr)' /\ Kept /\ (by' = by \/ \E b \in By : Resume(b))
    BY <1>0, <1>2, <2>1, ShapeSteps
  <2>3. Top \in Nat
    BY <2>1 DEF TypedShape, Top
  <2>4. Listed'
    BY <1>0, <1>2, <2>1, <2>3, ListedSteps
  <2>5. StatusInv'
    BY <1>2, <2>1, StatusInvariant
  <2>6. by' \in By \cup {"none"}
    BY <2>1, <2>2 DEF Control, Resume
  <2>7. Control'
    BY <1>0, <1>2, <2>1, <2>6, ControlSteps DEF Control
  <2> QED
    BY <2>2, <2>4, <2>5, <2>7 DEF BaseInv
<1> QED
  BY <1>1, <1>2

\* The frames of a thread are of known kinds with errors in them, and lj_close_mark never
\* numbers a slot beyond the variables there are: for any number of values and errors,
\* any callers of pcall, and whoever resumes.
THEOREM ThreadTyped == Spec => []TypeOK
<1>1. ASSUME BaseInv PROVE TypeOK
  <2>1. /\ frames \in Seq(FrameType(AnyErr)) /\ list \in Seq(Rec)
        /\ throw \in AnyErr /\ errobj \in AnyErr
        /\ life \in [Vals -> {"new", "open", "closed"}]
        /\ status \in {"ok", "yield", "error"} /\ Control
    BY <1>1 DEF BaseInv, TypedShape, Listed, StatusInv
  <2>2. \A f \in ToSet(frames) : f \in FrameType(AnyErr)
    BY <2>1 DEF ToSet
  <2>3. \A f \in ToSet(frames) :
          f.k \in Plain \cup Closers /\ f.err \in Errs \cup {Nil, Junk}
    BY <2>2 DEF FrameType, AnyErr
  <2>4. \A r \in ToSet(list) : r \in Rec
    BY <2>1 DEF ToSet
  <2>5. \A r \in ToSet(list) : r.slot \in Nat \X (1 .. Cardinality(Vals))
    BY <2>4 DEF Rec
  <2> QED
    BY <2>1, <2>3, <2>5 DEF TypeOK, Control, AnyErr
<1> QED
  BY <1>1, BaseInvariant, PTL DEF Spec

\* A closer that hands an error on has one until it is done, whatever the handlers do:
\* yields, errors of their own, and lj_close_unwind in C among them.
THEOREM ErrorsAreKept == Spec => ErrorKept
<1>1. ASSUME BaseInv, BaseInv', Kept
      PROVE  \A i \in DOMAIN frames \cap DOMAIN frames' :
               (frames[i].k \in Closers /\ frames[i].err # Nil /\ frames'[i].k = frames[i].k)
                 => frames'[i].err # Nil
  <2>1. /\ DOMAIN frames = 1 .. Len(frames) /\ DOMAIN frames' = 1 .. Len(frames')
        /\ Len(frames) \in Nat /\ Len(frames') \in Nat
    BY <1>1 DEF BaseInv, TypedShape
  <2> QED
    BY <1>1, <2>1 DEF Kept
<1>2. BaseInv /\ [Next]_vars =>
        BaseInv' /\
        [\A i \in DOMAIN frames \cap DOMAIN frames' :
           (frames[i].k \in Closers /\ frames[i].err # Nil /\ frames'[i].k = frames[i].k)
             => frames'[i].err # Nil]_vars
  BY <1>1, BaseInvariant
<1> QED
  BY <1>2, BaseInvariant, PTL DEF Spec, ErrorKept

\* Every value that is open has a record.
AllListed == \A v \in Vals : life[v] = "open" => \E i \in 1 .. Len(list) : list[i].val = v

CareInv == BaseInv /\ Numbered(list) /\ AllListed /\ Attended

\* Together with it, that every variable is attended.
LEMMA CareInvariant ==
  ASSUME Careful
  PROVE  /\ Init => CareInv
         /\ CareInv /\ [Next]_vars => CareInv' /\ (Len(list') < Len(list) => list' = Front(list))
<1> DEFINE E == AnyErr
<1>0. Nil \in E /\ Errs \subseteq E /\ Nil \notin Errs /\ IsFiniteSet(Vals)
  BY CloseAssumption DEF AnyErr
<1> HIDE DEF E
<1>1. ASSUME Init PROVE CareInv
  <2>1. Stack(main, frames, list) /\ Listed /\ Len(list) = 0 /\ BaseInv
    BY <1>0, <1>1, InitShape, BaseInvariant
  <2>2. Numbered(list)
    BY <2>1 DEF Numbered
  <2>3. AllListed /\ status = "ok"
    BY <1>1 DEF Init, AllListed
  <2> QED
    BY <2>1, <2>2, <2>3 DEF CareInv, Attended
<1>2. ASSUME CareInv, [Next]_vars
      PROVE  CareInv' /\ (Len(list') < Len(list) => list' = Front(list))
  <2>0. /\ TypedShape(E) /\ Listed /\ StatusInv /\ Control /\ BaseInv'
        /\ Numbered(list) /\ AllListed /\ Attended
        /\ list \in Seq(Rec) /\ Len(list) \in Nat /\ Listed'
    BY <1>2, BaseInvariant DEF CareInv, BaseInv, E, Listed
  <2>1. ASSUME UNCHANGED <<list, life>>, Attended'
        PROVE  CareInv' /\ (Len(list') < Len(list) => list' = Front(list))
    BY <2>0, <2>1 DEF CareInv, AllListed
  <2>2. ASSUME frames # <<>>, frames[Top].k # "dead" \/ throw # Nil
        PROVE  status # "error" /\ Stack(main, frames, list)
    <3>1. Top \in 1 .. Len(frames)
      BY <2>0, <2>2 DEF TypedShape, Top
    <3> QED
      BY <2>0, <2>2, <3>1 DEF Attended, Died
  <2>3. CASE Step
    <3>1. status # "error" /\ Stack(main, frames, list) /\ status' # "error"
      BY <2>2, <2>3, <2>0, StepKeeps DEF Step, Call, CCall, CPcall, Pcall, PcallPcall, MetaPcall, Push, Mark,
        EndScope, Return, Yield, StateClose, Raise, Running
    <3>2. CASE \E v \in Vals : Mark(v)
      <4>1. PICK v \in Vals : Mark(v)
        BY <3>2
      <4>2. Numbered(list') /\ Stack(main, frames, list')
        BY <1>0, <2>0, <3>1, <4>1, MarkStack
      <4>3. PICK r \in Rec : list' = Append(list, r) /\ r.val = v
        BY <1>0, <2>0, <3>1, <4>1, MarkStack
      <4>4. UNCHANGED <<main, frames>> /\ life' = [life EXCEPT ![v] = "open"]
        BY <4>1 DEF Mark, outside
      <4>5. /\ Len(list') = Len(list) + 1 /\ list'[Len(list) + 1] = r
            /\ \A i \in 1 .. Len(list) : list'[i] = list[i]
        BY <2>0, <4>3, AppendProperties
      <4>6. AllListed'
        <5>1. ASSUME NEW w \in Vals, life'[w] = "open"
              PROVE  \E i \in 1 .. Len(list') : list'[i].val = w
          <6>1. CASE w = v
            BY <2>0, <4>3, <4>5, <6>1
          <6>2. CASE w # v
            <7>1. life[w] = "open"
              BY <2>0, <4>4, <5>1, <6>2 DEF Listed
            <7>2. PICK i \in 1 .. Len(list) : list[i].val = w
              BY <2>0, <7>1 DEF AllListed
            <7> QED
              BY <2>0, <4>5, <7>2
          <6> QED
            BY <6>1, <6>2
        <5> QED
          BY <5>1 DEF AllListed
      <4> QED
        BY <2>0, <3>1, <4>2, <4>4, <4>5, <4>6 DEF CareInv, Attended
    <3>3. CASE UNCHANGED <<list, life>>
      <4>1. Stack(main, frames', list) /\ UNCHANGED main
        BY <1>0, <2>0, <2>3, <3>1, <3>3, StepStack
      <4> QED
        BY <2>1, <3>1, <3>3, <4>1 DEF Attended
    <3>4. ~CloseNext
      <4>1. Running
        BY <2>3 DEF Step, Call, CCall, CPcall, Pcall, PcallPcall, MetaPcall, Push, Mark,
          EndScope, Return, Yield, StateClose, Raise
      <4> QED
        BY <4>1 DEF CloseNext, Running, IsCloser, Closers
    <3> QED
      BY <1>2, <3>2, <3>3, <3>4, ListChanges
  <2>4. CASE Unwind
    <3>1. status # "error" /\ Stack(main, frames, list)
      BY <2>0, <2>4 DEF Unwind, Attended, Died
    <3>2. Attended' /\ UNCHANGED <<list, life>>
      BY <1>0, <2>0, <2>4, <3>1, UnwindStack DEF Unwind
    <3> QED
      BY <2>1, <3>2
  <2>5. CASE CloseNext
    <3>1. /\ status # "error" /\ Stack(main, frames, list) /\ UNCHANGED <<main, status>>
      BY <2>2, <2>5 DEF CloseNext, IsCloser, Closers, outside
    <3>2. /\ Numbered(list') /\ Stack(main, frames', list')
          /\ Len(list') = Len(list) - 1 /\ list' = Front(list)
      BY <1>0, <2>0, <2>5, <3>1, CloseNextStack
    <3>3. AllListed'
      <4> DEFINE n == Max(Marked(frames[Top].low))
      <4>1. frames[Top].low \in Nat \X Nat
        <5>1. Top \in 1 .. Len(frames)
          BY <2>0, <2>5 DEF CloseNext, IsCloser, TypedShape, Top
        <5>2. frames[Top] \in FrameType(E)
          BY <2>0, <5>1, ElementOfSeq DEF TypedShape
        <5> QED
          BY <5>2 DEF FrameType
      <4>2. n = Len(list) /\ Len(list) \in 1 .. Len(list) /\ life' = [life EXCEPT ![list[n].val] = "closed"]
        BY <2>0, <2>5, <4>1, LastMarked DEF CloseNext
      <4>3. \A i \in 1 .. Len(list) - 1 : list'[i] = list[i]
        BY <2>0, <3>2, <4>2, FrontNumbered
      <4> HIDE DEF n
      <4>4. ASSUME NEW w \in Vals, life'[w] = "open"
            PROVE  \E i \in 1 .. Len(list') : list'[i].val = w
        <5>1. life[w] = "open" /\ w # list[Len(list)].val
          BY <2>0, <4>2, <4>4 DEF Listed
        <5>2. PICK i \in 1 .. Len(list) : list[i].val = w
          BY <2>0, <5>1 DEF AllListed
        <5>3. i \in 1 .. Len(list) - 1
          BY <2>0, <5>1, <5>2
        <5> QED
          BY <3>2, <4>3, <5>2, <5>3
      <4> QED
        BY <4>4 DEF AllListed
    <3> QED
      BY <2>0, <3>1, <3>2, <3>3 DEF CareInv, Attended
  <2>6. CASE CloseDone
    <3>1. status # "error" /\ Stack(main, frames, list) /\ UNCHANGED <<list, life>>
      BY <2>2, <2>6 DEF CloseDone, IsCloser, Closers
    <3>2. Stack(main, frames', list) /\ UNCHANGED main
      BY <1>0, <2>0, <2>6, <3>1, CloseDoneStack
    <3>3. UNCHANGED status
      BY <2>6, CloserKeeps
    <3> QED
      BY <2>1, <3>1, <3>2, <3>3 DEF Attended
  <2>7. CASE CloseThread
    <3>1. Stack(main, frames', list) /\ UNCHANGED main /\ status' = "ok"
      BY <1>0, <2>0, <2>7, CloseThreadStack
    <3> QED
      BY <2>1, <2>7, <3>1 DEF Attended, CloseThread
  <2>8. ASSUME NEW b \in By, Resume(b)
        PROVE  CareInv' /\ (Len(list') < Len(list) => list' = Front(list))
    <3>1. Stack(main, frames', list) /\ UNCHANGED main /\ status' = "ok"
      BY <2>0, <2>8, ResumeStack
    <3> QED
      BY <2>1, <2>8, <3>1 DEF Attended, Resume
  <2>9. CASE UNCHANGED vars
    BY <2>0, <2>1, <2>9 DEF vars, Attended, Died
  <2> QED
    BY <1>2, <2>3, <2>4, <2>5, <2>6, <2>7, <2>8, <2>9 DEF Next
<1> QED
  BY <1>1, <1>2

\* No way out of a function - return, error, coroutine.close, the end of a scope -
\* leaves a marked slot behind that no closer above it will reach.
THEOREM VariablesAttended ==
  ASSUME Careful
  PROVE  Spec => []NoneOutlives
<1>1. ASSUME CareInv PROVE NoneOutlives
  <2>0. /\ frames \in Seq(FrameType(AnyErr)) /\ Shape(frames) /\ Top = Len(frames) /\ Top \in Nat
        /\ list \in Seq(Rec) /\ DOMAIN list = 1 .. Len(list)
    BY <1>1 DEF CareInv, BaseInv, TypedShape, Listed, Top
  <2>1. Slots(frames, list)
    BY <1>1 DEF CareInv, Attended, Died, Stack
  <2>2. ASSUME NEW x \in 1 .. Len(list)
        PROVE  LET n == list[x].slot[1] IN
               /\ n <= Top
               /\ \/ frames[n].k = "lua"
                  \/ status = "error"
                  \/ \E i \in n + 1 .. Top : /\ frames[i].k \in Closers
                                             /\ AtOrAbove(list[x].slot, frames[i].low)
    <3> DEFINE s == list[x].slot
               n == s[1]
    <3>1. list[x] \in Rec
      BY <2>0
    <3>2. n \in Nat /\ s[2] \in Int /\ s[2] >= 1
      BY <3>1, RecFields DEF RecTyped
    <3>3. n \in 1 .. Top /\ frames[n].k \in {"lua", "dead"}
      BY <2>0, <2>1 DEF Slots
    <3> HIDE DEF s
    <3>4. ASSUME frames[n].k = "dead", status # "error"
          PROVE  \E i \in n + 1 .. Top : /\ frames[i].k \in Closers
                                         /\ AtOrAbove(s, frames[i].low)
      <4>1. PICK i \in n + 1 .. Top : frames[i].k \in Unwinders /\ frames[i].to < n
        BY <1>1, <2>0, <3>3, <3>4 DEF CareInv, Attended, Stack, CoveredAt
      <4>2. i \in 1 .. Len(frames)
        BY <2>0, <3>3
      <4>3. frames[i].low = <<frames[i].to + 1, 1>> /\ frames[i].to \in Nat
        <5>1. frames[i] \in FrameType(AnyErr)
          BY <2>0, <4>2, ElementOfSeq
        <5> QED
          BY <2>0, <4>1, <4>2, <5>1 DEF Shape, ShapeTo, UnwinderOK, FrameType
      <4>4. frames[i].low[1] = frames[i].to + 1 /\ frames[i].low[2] = 1
        BY <4>3
      <4>5. AtOrAbove(s, frames[i].low)
        BY <3>2, <4>1, <4>3, <4>4 DEF AtOrAbove
      <4>6. frames[i].k \in Closers
        BY <4>1 DEF Unwinders, Closers
      <4> QED
        BY <4>5, <4>6
    <3> QED
      BY <2>0, <3>3, <3>4 DEF s
  <2> QED
    BY <2>0, <2>2 DEF NoneOutlives, ToSet
<1>2. (Init => CareInv) /\ (CareInv /\ [Next]_vars => CareInv')
  BY CareInvariant
<1> QED
  BY <1>1, <1>2, PTL DEF Spec

\* A value is on the list from lj_close_mark until its handler is called, once: no
\* record is lost to lj_close_unmark, and none is found again.
THEOREM ClosedExactlyOnce ==
  ASSUME Careful
  PROVE  Spec => []ClosedOnce
<1>1. ASSUME CareInv PROVE ClosedOnce
  <2>0. Listed /\ AllListed /\ DOMAIN list = 1 .. Len(list)
    BY <1>1 DEF CareInv, BaseInv, Listed
  <2>1. ASSUME NEW v \in Vals
        PROVE  Cardinality({i \in DOMAIN list : list[i].val = v}) = IF life[v] = "open" THEN 1 ELSE 0
    <3> DEFINE S == {i \in DOMAIN list : list[i].val = v}
    <3>1. CASE life[v] = "open"
      <4>1. PICK i \in 1 .. Len(list) : list[i].val = v
        BY <2>0, <3>1 DEF AllListed
      <4>2. S = {i}
        BY <2>0, <4>1 DEF Listed, Distinct
      <4>3. Cardinality({i}) = 1
        BY FS_Singleton
      <4> QED
        BY <3>1, <4>2, <4>3
    <3>2. CASE life[v] # "open"
      <4>1. S = {}
        BY <2>0, <3>2 DEF Listed
      <4>2. Cardinality({}) = 0
        BY FS_EmptySet
      <4> QED
        BY <3>2, <4>1, <4>2
    <3> QED
      BY <3>1, <3>2
  <2> QED
    BY <2>1 DEF ClosedOnce
<1>2. (Init => CareInv) /\ (CareInv /\ [Next]_vars => CareInv')
  BY CareInvariant
<1> QED
  BY <1>1, <1>2, PTL DEF Spec

\* The record that any of the three machines takes next is the newest one.
THEOREM LastMarkedIsFirst ==
  ASSUME Careful
  PROVE  Spec => LastMarkedFirst
<1>1. Init => CareInv
  BY CareInvariant
<1>2. CareInv /\ [Next]_vars =>
        CareInv' /\ [Len(list') < Len(list) => list' = Front(list)]_list
  BY CareInvariant
<1> QED
  BY <1>1, <1>2, PTL DEF Spec, LastMarkedFirst

\* Nobody asks for the error after coroutine.resume has popped it.
ProperInv == CareInv /\ TypedShape(Held) /\ by # "resume"

\* No handler and no pcall gets a stack slot for an error: the landing pad finds the
\* error when pcall is called by Lua code, and coroutine.close does when
\* coroutine.resume has not popped it.
THEOREM ErrorsStayErrors ==
  ASSUME Careful, "resume" \notin By
  PROVE  Spec => []ErrorsAreErrors
<1>0. Nil \in Held /\ Errs \subseteq Held /\ Nil \notin Errs /\ Junk \notin Held
  BY CloseAssumption DEF Held
<1>1. Init => ProperInv
  <2>1. ASSUME Init PROVE ProperInv
    BY <1>0, <2>1, CareInvariant, InitShape DEF ProperInv, Init
  <2> QED
    BY <2>1
<1>2. ProperInv /\ [Next]_vars => ProperInv'
  <2>1. ASSUME ProperInv, [Next]_vars PROVE ProperInv'
    <3>1. CareInv' /\ CareInv /\ TypedShape(Held) /\ by # "resume"
      BY <2>1, CareInvariant DEF ProperInv
    <3>2. Unwind => DeferringFine
      <4>1. ASSUME Unwind PROVE DeferringFine
        <5>1. status # "error" /\ list \in Seq(Rec)
          BY <3>1, <4>1 DEF Unwind, CareInv, BaseInv, Listed, Attended, Died
        <5>2. Stack(main, frames, list)
          BY <3>1, <5>1 DEF CareInv, Attended
        <5> QED
          BY <3>1, <5>1, <5>2, DefersToLua
      <4> QED
        BY <4>1
    <3>3. TypedShape(Held)' /\ (by' = by \/ \E b \in By : Resume(b))
      BY <1>0, <2>1, <3>1, <3>2, ShapeSteps
    <3>4. by' # "resume"
      BY <3>1, <3>3 DEF Resume
    <3> QED
      BY <3>1, <3>3, <3>4 DEF ProperInv
  <2> QED
    BY <2>1
<1>3. ASSUME ProperInv PROVE ErrorsAreErrors
  <2>1. throw \in Held /\ frames \in Seq(FrameType(Held))
    BY <1>3 DEF ProperInv, TypedShape
  <2>2. \A f \in ToSet(frames) : f \in FrameType(Held)
    BY <2>1 DEF ToSet
  <2>3. \A f \in ToSet(frames) : f.err \in Held
    BY <2>2 DEF FrameType
  <2> QED
    BY <1>0, <2>1, <2>3 DEF ErrorsAreErrors
<1> QED
  BY <1>1, <1>2, <1>3, PTL DEF Spec
=============================================================================
