------------------------------ MODULE NatLemmas ------------------------------
(***************************************************************************)
(* Least and greatest elements of sets of natural numbers, and prefixes of *)
(* sequences.  The first lemma stands in for induction: what holds of no   *)
(* least counterexample holds of every number.                             *)
(***************************************************************************)
EXTENDS FiniteSetsExt, SequencesExt, SequenceTheorems, FiniteSetTheorems, TLAPS

\* A set of natural numbers that is not empty has a least element.
LEMMA LeastExists ==
  ASSUME NEW S \in SUBSET Nat, S # {}
  PROVE  \E m \in S : \A x \in S : m <= x
<1> DEFINE R == {ss \in Nat \X Nat : ss[1] < ss[2]}
<1>1. R = OpToRel(<, Nat)
  BY DEF OpToRel
<1>2. IsWellFoundedOn(R, Nat)
  BY <1>1, NatLessThanWellFounded, Zenon
<1>3. ASSUME NEW x \in Nat, NEW m \in Nat, <<x, m>> \notin R
      PROVE  m <= x
  BY <1>3
<1> HIDE DEF R
<1>4. PICK m \in S : \A x \in S : <<x, m>> \notin R
  BY <1>2, WFMin, Zenon
<1> QED
  BY <1>3, <1>4

\* Induction, for a set in place of a property.
LEMMA SetInduction ==
  ASSUME NEW S, 0 \in S, \A n \in Nat : n \in S => n + 1 \in S
  PROVE  Nat \subseteq S
<1> DEFINE T == Nat \ S
<1> SUFFICES ASSUME T # {}
             PROVE  FALSE
  OBVIOUS
<1>1. T \in SUBSET Nat
  OBVIOUS
<1> HIDE DEF T
<1>2. PICK m \in T : \A x \in T : m <= x
  BY <1>1, LeastExists
<1>3. m \in Nat /\ m \notin S
  BY <1>2 DEF T
<1>4. m # 0 /\ m - 1 \in Nat /\ ~(m <= m - 1) /\ (m - 1) + 1 = m
  BY <1>3
<1>5. m - 1 \in S
  BY <1>2, <1>4 DEF T
<1> QED
  BY <1>3, <1>4, <1>5

\* What n rounds of a step on a set do is a function of n.
RoundsOf(F, step, x, N) == F = [k \in 0..N |-> IF k = 0 THEN x ELSE step[F[k - 1]]]

LEMMA RoundsExist ==
  ASSUME NEW D, NEW step \in [D -> D], NEW x \in D, NEW N \in Nat
  PROVE  \E F \in [0..N -> D] : RoundsOf(F, step, x, N)
<1> DEFINE Rounds(n) == \E F \in [0..n -> D] :
                          F = [k \in 0..n |-> IF k = 0 THEN x ELSE step[F[k - 1]]]
           S == {n \in Nat : Rounds(n)}
<1>1. 0 \in S
  <2> DEFINE F == [k \in 0..0 |-> x]
  <2>1. F \in [0..0 -> D] /\ F = [k \in 0..0 |-> IF k = 0 THEN x ELSE step[F[k - 1]]]
    OBVIOUS
  <2>2. Rounds(0)
    BY <2>1
  <2> QED
    BY <2>2
<1>2. ASSUME NEW n \in Nat, n \in S
      PROVE  n + 1 \in S
  <2>1. PICK F \in [0..n -> D] : F = [k \in 0..n |-> IF k = 0 THEN x ELSE step[F[k - 1]]]
    BY <1>2
  <2> DEFINE G == [k \in 0..n + 1 |-> IF k = n + 1 THEN step[F[n]] ELSE F[k]]
  <2>2. G \in [0..n + 1 -> D]
    <3>1. \A k \in 0..n + 1 : k # n + 1 => k \in 0..n
      OBVIOUS
    <3>2. step[F[n]] \in D
      OBVIOUS
    <3> QED
      BY <3>1, <3>2
  <2>3. ASSUME NEW k \in 0..n + 1
        PROVE  G[k] = IF k = 0 THEN x ELSE step[G[k - 1]]
    <3>1. CASE k = n + 1
      <4>1. k - 1 = n /\ n \in 0..n + 1 /\ n # n + 1 /\ k # 0
        BY <3>1
      <4>2. G[n] = F[n] /\ G[k] = step[F[n]]
        BY <3>1, <4>1
      <4> HIDE DEF G
      <4> QED
        BY <4>1, <4>2
    <3>2. CASE k # n + 1
      <4>1. k \in 0..n /\ G[k] = F[k]
        BY <3>2
      <4>2. F[k] = IF k = 0 THEN x ELSE step[F[k - 1]]
        BY <2>1, <4>1
      <4>3. k # 0 => k - 1 \in 0..n + 1 /\ k - 1 # n + 1
        BY <4>1
      <4>4. k # 0 => G[k - 1] = F[k - 1]
        BY <4>3
      <4> HIDE DEF G
      <4> QED
        BY <4>1, <4>2, <4>4
    <3> QED
      BY <3>1, <3>2
  <2>4. G = [k \in 0..n + 1 |-> G[k]]
    OBVIOUS
  <2> HIDE DEF G
  <2>5. G = [k \in 0..n + 1 |-> IF k = 0 THEN x ELSE step[G[k - 1]]]
    BY <2>3, <2>4
  <2>6. Rounds(n + 1)
    BY <2>2, <2>5
  <2>7. n + 1 \in Nat
    OBVIOUS
  <2> HIDE DEF Rounds
  <2> QED
    BY <2>6, <2>7
<1> HIDE DEF S
<1>3. Nat \subseteq S
  BY <1>1, <1>2, SetInduction
<1> QED
  BY <1>3 DEF S, RoundsOf

\* A bounded one has a greatest element, and Max returns it.
LEMMA MaxIsGreatest ==
  ASSUME NEW n \in Nat, NEW S \in SUBSET (0 .. n), S # {}
  PROVE  Max(S) \in S /\ \A x \in S : x <= Max(S)
<1> DEFINE T == {x \in 0 .. n : n - x \in S}
<1>1. T \in SUBSET Nat
  OBVIOUS
<1>2. \A y \in S : n - y \in T
  OBVIOUS
<1>3. T # {}
  BY <1>2
<1> HIDE DEF T
<1>4. PICK m \in T : \A y \in T : m <= y
  BY <1>1, <1>3, LeastExists
<1>5. m \in 0 .. n /\ n - m \in S
  BY <1>4 DEF T
<1>6. \A y \in S : n - m >= y
  BY <1>2, <1>4, <1>5
<1> QED
  BY <1>5, <1>6 DEF Max

\* A prefix of a sequence has the elements of the sequence.
LEMMA Prefix ==
  ASSUME NEW S, NEW s \in Seq(S), NEW n \in 0 .. Len(s)
  PROVE  /\ SubSeq(s, 1, n) \in Seq(S) /\ Len(SubSeq(s, 1, n)) = n
         /\ \A i \in 1 .. n : SubSeq(s, 1, n)[i] = s[i]
<1>1. n \in Nat /\ Len(s) \in Nat
  OBVIOUS
<1>2. \A i \in 1 .. n : s[i] \in S
  BY ElementOfSeq
<1> QED
  BY <1>1, <1>2, SubSeqProperties
\* A sequence without its element n.
LEMMA RemoveAtFacts ==
  ASSUME NEW S, NEW s \in Seq(S), NEW n \in 1 .. Len(s)
  PROVE  /\ RemoveAt(s, n) \in Seq(S) /\ Len(RemoveAt(s, n)) = Len(s) - 1
         /\ \A i \in 1 .. Len(s) - 1 : RemoveAt(s, n)[i] = IF i < n THEN s[i] ELSE s[i + 1]
         /\ RemoveAt(s, Len(s)) = Front(s)
<1>0. n \in Nat /\ Len(s) \in Nat /\ n - 1 \in Int /\ n + 1 \in Int /\ 1 \in Int /\ Len(s) \in Int
  OBVIOUS
<1>1. \A i \in 1 .. Len(s) : s[i] \in S
  BY ElementOfSeq
<1> DEFINE a == SubSeq(s, 1, n - 1)
           b == SubSeq(s, n + 1, Len(s))
<1>2. a \in Seq(S) /\ Len(a) = n - 1 /\ \A i \in 1 .. n - 1 : a[i] = s[i]
  BY <1>0, <1>1, SubSeqProperties
<1>3. /\ b \in Seq(S) /\ Len(b) = Len(s) - n
      /\ \A i \in 1 .. Len(s) - n : b[i] = s[n + i]
  <2>1. \A i \in n + 1 .. Len(s) : s[i] \in S
    BY <1>0, <1>1
  <2>2. /\ b \in Seq(S)
        /\ Len(b) = IF n + 1 <= Len(s) THEN Len(s) - (n + 1) + 1 ELSE 0
        /\ \A i \in 1 .. Len(s) - (n + 1) + 1 : b[i] = s[n + 1 + i - 1]
    BY <1>0, <2>1, SubSeqProperties
  <2> HIDE DEF b
  <2> QED
    BY <1>0, <2>2
<1>4. RemoveAt(s, n) = a \o b
  BY DEF RemoveAt
<1> HIDE DEF a, b
<1>5. /\ a \o b \in Seq(S) /\ Len(a \o b) = Len(a) + Len(b)
      /\ \A i \in 1 .. Len(a) + Len(b) :
           (a \o b)[i] = IF i <= Len(a) THEN a[i] ELSE b[i - Len(a)]
  BY <1>2, <1>3, ConcatProperties
<1>6. ASSUME NEW i \in 1 .. Len(s) - 1
      PROVE  (a \o b)[i] = IF i < n THEN s[i] ELSE s[i + 1]
  <2>1. i \in 1 .. Len(a) + Len(b)
    BY <1>0, <1>2, <1>3
  <2>2. CASE i < n
    BY <1>0, <1>2, <1>5, <2>1, <2>2
  <2>3. CASE ~(i < n)
    <3>1. i - Len(a) \in 1 .. Len(s) - n /\ n + (i - Len(a)) = i + 1 /\ ~(i <= Len(a))
      BY <1>0, <1>2, <2>3
    <3>2. (a \o b)[i] = b[i - Len(a)]
      BY <1>5, <2>1, <3>1
    <3>3. b[i - Len(a)] = s[n + (i - Len(a))]
      BY <1>3, <3>1
    <3> QED
      BY <2>3, <3>1, <3>2, <3>3
  <2> QED
    BY <2>2, <2>3
<1>7. RemoveAt(s, Len(s)) = Front(s)
  <2>1. SubSeq(s, Len(s) + 1, Len(s)) = <<>>
    BY <1>0, SubSeqEmpty
  <2>2. \A i \in 1 .. Len(s) - 1 : s[i] \in S
    BY <1>0, <1>1
  <2>3. Front(s) \in Seq(S)
    BY <1>0, <2>2, SubSeqProperties DEF Front
  <2>4. RemoveAt(s, Len(s)) = Front(s) \o <<>>
    BY <2>1 DEF RemoveAt, Front
  <2> QED
    BY <2>3, <2>4, ConcatEmptySeq
<1> QED
  BY <1>0, <1>2, <1>3, <1>4, <1>5, <1>6, <1>7
=============================================================================
