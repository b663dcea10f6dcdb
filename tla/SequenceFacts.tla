---------------------------- MODULE SequenceFacts ----------------------------
(***************************************************************************)
(* Facts about numbers and sequences that the proofs about the bytes of a  *)
(* connection need, among them induction in a form without an operator     *)
(* parameter: a set of numbers that contains 0 and with every number the   *)
(* next contains them all.                                                 *)
(***************************************************************************)
EXTENDS SequencesExt, SequenceTheorems, WellFoundedInduction, TLAPS

-----------------------------------------------------------------------------
(***************************************************************************)
(* Numbers.                                                                *)
(***************************************************************************)

\* A set of numbers that is not empty has a least one.
LEMMA LeastOf ==
    ASSUME NEW T, T \subseteq Nat, T # {}
    PROVE  \E x \in T : \A y \in T : x <= y
<1> DEFINE R == OpToRel(<, Nat)
<1>1. IsWellFoundedOn(R, Nat)
  BY NatLessThanWellFounded
<1>2. \A x, y \in Nat : x < y => <<x, y>> \in R
  BY DEF OpToRel
<1> HIDE DEF R
<1>3. PICK x \in T : \A y \in T : ~(<<y, x>> \in R)
  BY <1>1, WFMin
<1>4. ASSUME NEW y \in T PROVE x <= y
  <2>1. x \in Nat /\ y \in Nat
    OBVIOUS
  <2>2. ~(y < x)
    BY <1>2, <1>3, <2>1
  <2> QED
    BY <2>1, <2>2
<1> QED
  BY <1>4

\* Induction over the numbers in a set.
LEMMA InductionOver ==
    ASSUME NEW S, 0 \in S, \A n \in Nat : n \in S => n + 1 \in S
    PROVE  Nat \subseteq S
<1> SUFFICES ASSUME ~(Nat \subseteq S) PROVE FALSE
  OBVIOUS
<1> DEFINE T == {n \in Nat : n \notin S}
<1>1. T \subseteq Nat /\ T # {}
  OBVIOUS
<1> HIDE DEF T
<1>2. PICK x \in T : \A y \in T : x <= y
  BY <1>1, LeastOf
<1>3. x \in Nat /\ x \notin S /\ x # 0
  BY DEF T
<1>4. x - 1 \in Nat /\ x - 1 \in S
  <2>1. x - 1 \in Nat /\ ~(x <= x - 1)
    BY <1>3
  <2> QED
    BY <1>2, <2>1 DEF T
<1> QED
  BY <1>3, <1>4

-----------------------------------------------------------------------------
(***************************************************************************)
(* Sequences cut in two.                                                   *)
(***************************************************************************)

\* The two parts of a sequence are sequences, of these lengths, that make it up.
LEMMA CutInTwo ==
    ASSUME NEW S, NEW s \in Seq(S), NEW n \in 0..Len(s)
    PROVE  /\ SubSeq(s, 1, n) \in Seq(S) /\ Len(SubSeq(s, 1, n)) = n
           /\ SubSeq(s, n + 1, Len(s)) \in Seq(S) /\ Len(SubSeq(s, n + 1, Len(s))) = Len(s) - n
           /\ SubSeq(s, 1, n) \o SubSeq(s, n + 1, Len(s)) = s
<1>1. Len(s) \in Nat /\ \A i \in 1..Len(s) : s[i] \in S
  BY LenProperties, ElementOfSeq
<1>2. SubSeq(s, 1, n) \in Seq(S) /\ Len(SubSeq(s, 1, n)) = n
  <2>1. \A i \in 1..n : s[i] \in S
    BY <1>1
  <2> QED
    BY <1>1, <2>1, SubSeqProperties
<1>3. SubSeq(s, n + 1, Len(s)) \in Seq(S) /\ Len(SubSeq(s, n + 1, Len(s))) = Len(s) - n
  <2>1. \A i \in (n + 1)..Len(s) : s[i] \in S
    BY <1>1
  <2> QED
    BY <1>1, <2>1, SubSeqProperties
<1>4. SubSeq(s, 1, n) \o SubSeq(s, n + 1, Len(s)) = s
  <2>1. 1 \in 1..(Len(s) + 1) /\ n \in (1 - 1)..Len(s) /\ Len(s) \in n..Len(s)
    BY <1>1
  <2>2. SubSeq(s, 1, n) \o SubSeq(s, n + 1, Len(s)) = SubSeq(s, 1, Len(s))
    BY <2>1, ConcatAdjacentSubSeq
  <2> QED
    BY <2>2, SubSeqFull
<1> QED
  BY <1>2, <1>3, <1>4

\* What is put behind a sequence does not change a part of it.
LEMMA BehindIsOutside ==
    ASSUME NEW S, NEW s \in Seq(S), NEW t \in Seq(S), NEW m \in Nat, m <= Len(s)
    PROVE  SubSeq(s \o t, m + 1, Len(s) + Len(t)) = SubSeq(s, m + 1, Len(s)) \o t
<1> DEFINE u == SubSeq(s, m + 1, Len(s))
<1>1. /\ Len(s) \in Nat /\ Len(t) \in Nat /\ s \o t \in Seq(S)
      /\ Len(s \o t) = Len(s) + Len(t)
  BY LenProperties, ConcatProperties
<1>2. \A i \in 1..(Len(s) + Len(t)) : (s \o t)[i] = IF i <= Len(s) THEN s[i] ELSE t[i - Len(s)]
  BY ConcatProperties
<1>3. /\ u \in Seq(S) /\ Len(u) = Len(s) - m
      /\ \A i \in 1..(Len(s) - m) : u[i] = s[m + i]
  <2>1. \A i \in (m + 1)..Len(s) : s[i] \in S
    BY <1>1, ElementOfSeq
  <2> QED
    BY <1>1, <2>1, SubSeqProperties
<1> DEFINE v == SubSeq(s \o t, m + 1, Len(s) + Len(t))
<1>4. /\ v \in Seq(S) /\ Len(v) = Len(s) + Len(t) - m
      /\ \A i \in 1..(Len(s) + Len(t) - m) : v[i] = (s \o t)[m + i]
  <2>1. \A i \in (m + 1)..(Len(s) + Len(t)) : (s \o t)[i] \in S
    BY <1>1, ElementOfSeq
  <2> QED
    BY <1>1, <2>1, SubSeqProperties
<1> HIDE DEF u, v
<1>5. /\ u \o t \in Seq(S) /\ Len(u \o t) = Len(s) - m + Len(t)
      /\ \A i \in 1..(Len(s) - m + Len(t)) :
             (u \o t)[i] = IF i <= Len(s) - m THEN u[i] ELSE t[i - (Len(s) - m)]
  <2>1. /\ u \o t \in Seq(S) /\ Len(u \o t) = Len(u) + Len(t)
        /\ \A i \in 1..(Len(u) + Len(t)) :
               (u \o t)[i] = IF i <= Len(u) THEN u[i] ELSE t[i - Len(u)]
    BY <1>3, ConcatProperties
  <2> QED
    BY <1>3, <2>1
<1>6. \A i \in 1..Len(v) : v[i] = (u \o t)[i]
  <2> SUFFICES ASSUME NEW i \in 1..Len(v) PROVE v[i] = (u \o t)[i]
    OBVIOUS
  <2>1. /\ i \in 1..(Len(s) + Len(t) - m) /\ m + i \in 1..(Len(s) + Len(t))
        /\ i \in 1..(Len(s) - m + Len(t))
    BY <1>1, <1>4
  <2>2. CASE i <= Len(s) - m
    BY <1>1, <1>2, <1>3, <1>4, <1>5, <2>1, <2>2
  <2>3. CASE i > Len(s) - m
    <3>1. m + i - Len(s) = i - (Len(s) - m) /\ ~(m + i <= Len(s)) /\ ~(i <= Len(s) - m)
      BY <1>1, <2>1, <2>3
    <3> QED
      BY <1>2, <1>4, <1>5, <2>1, <3>1
  <2>4. i <= Len(s) - m \/ i > Len(s) - m
    BY <1>1, <2>1
  <2> QED
    BY <2>2, <2>3, <2>4
<1>7. v = u \o t
  <2>1. Len(v) = Len(u \o t)
    BY <1>1, <1>4, <1>5
  <2> QED
    BY <1>4, <1>5, <1>6, <2>1, SeqEqual
<1> QED
  BY <1>7 DEF u, v

\* What is put behind a sequence leaves it in front.
LEMMA FrontOfConcat ==
    ASSUME NEW S, NEW s \in Seq(S), NEW t \in Seq(S)
    PROVE  SubSeq(s \o t, 1, Len(s)) = s
<1>1. /\ Len(s) \in Nat /\ Len(t) \in Nat /\ s \o t \in Seq(S)
      /\ Len(s \o t) = Len(s) + Len(t)
  BY LenProperties, ConcatProperties
<1>2. Len(s) \in 0..Len(s \o t)
  BY <1>1
<1> DEFINE u == SubSeq(s \o t, 1, Len(s))
<1>3. u \in Seq(S) /\ Len(u) = Len(s)
  BY <1>1, <1>2, CutInTwo
<1>4. \A i \in 1..Len(s) : u[i] = s[i]
  <2> SUFFICES ASSUME NEW i \in 1..Len(s) PROVE u[i] = s[i]
    OBVIOUS
  <2>1. u[i] = (s \o t)[i]
    BY <1>1
  <2>2. (s \o t)[i] = s[i]
    BY <1>1, ConcatProperties
  <2> QED
    BY <2>1, <2>2
<1> HIDE DEF u
<1>5. u = s
  BY <1>3, <1>4, SeqEqual
<1> QED
  BY <1>5 DEF u

-----------------------------------------------------------------------------
(***************************************************************************)
(* The concatenation of a sequence of sequences (FlattenSeq).              *)
(***************************************************************************)

\* g[i] is the concatenation of the first i sequences of s, as FlattenSeq builds it.
Partial(s, m, g) ==
    /\ g = [i \in 1..m |-> g[i]]
    /\ \A i \in 1..m : g[i] = IF i = 1 THEN s[i] ELSE g[i - 1] \o s[i]

\* There is such a function.
LEMMA PartialExists ==
    ASSUME NEW s, NEW n \in Nat
    PROVE  \E g : Partial(s, n, g)
<1> DEFINE S == {m \in Nat : \E g : Partial(s, m, g)}
<1>1. 0 \in S
  <2> DEFINE g == [i \in 1..0 |-> 0]
  <2>1. 1..0 = {}
    OBVIOUS
  <2>2. Partial(s, 0, g)
    BY <2>1 DEF Partial
  <2> QED
    BY <2>2
<1>2. ASSUME NEW m \in Nat, m \in S PROVE m + 1 \in S
  <2>1. PICK g : Partial(s, m, g)
    BY <1>2
  <2> DEFINE h == [i \in 1..(m + 1) |->
                      IF i <= m THEN g[i] ELSE IF i = 1 THEN s[i] ELSE g[i - 1] \o s[i]]
  <2>2. ASSUME NEW i \in 1..(m + 1)
        PROVE  h[i] = IF i = 1 THEN s[i] ELSE h[i - 1] \o s[i]
    <3>1. i <= m => g[i] = IF i = 1 THEN s[i] ELSE g[i - 1] \o s[i]
      <4>1. \A j \in 1..m : g[j] = IF j = 1 THEN s[j] ELSE g[j - 1] \o s[j]
        BY <2>1, Zenon DEF Partial
      <4> HIDE DEF h
      <4> QED
        BY <4>1
    <3>2. i # 1 => i - 1 \in 1..(m + 1) /\ i - 1 <= m /\ h[i - 1] = g[i - 1]
      OBVIOUS
    <3> QED
      BY <3>1, <3>2
  <2>3. h = [i \in 1..(m + 1) |-> h[i]]
    OBVIOUS
  <2> HIDE DEF h
  <2>4. Partial(s, m + 1, h)
    BY <2>2, <2>3 DEF Partial
  <2> QED
    BY <2>4
<1> HIDE DEF S
<1>3. n \in S
  BY <1>1, <1>2, InductionOver
<1> QED
  BY <1>3 DEF S

\* FlattenSeq is the last of them.
LEMMA FlattenByParts ==
    ASSUME NEW s, Len(s) \in Nat \ {0}
    PROVE  \E g : Partial(s, Len(s), g) /\ FlattenSeq(s) = g[Len(s)]
<1>1. \E g : g = [i \in 1..Len(s) |-> IF i = 1 THEN s[i] ELSE g[i - 1] \o s[i]]
  <2>1. PICK g : Partial(s, Len(s), g)
    BY PartialExists
  <2>2. g = [i \in 1..Len(s) |-> IF i = 1 THEN s[i] ELSE g[i - 1] \o s[i]]
    BY <2>1 DEF Partial
  <2> QED
    BY <2>2
<1> DEFINE f == CHOOSE g : g = [i \in 1..Len(s) |-> IF i = 1 THEN s[i] ELSE g[i - 1] \o s[i]]
<1>2. f = [i \in 1..Len(s) |-> IF i = 1 THEN s[i] ELSE f[i - 1] \o s[i]]
  BY <1>1, Zenon
<1>3. FlattenSeq(s) = f[Len(s)]
  BY DEF FlattenSeq
<1> HIDE DEF f
<1> QED
  BY <1>2, <1>3 DEF Partial

\* A sequence added behind the others comes behind their concatenation.
LEMMA FlattenAppend ==
    ASSUME NEW B, NEW s \in Seq(Seq(B)), NEW e \in Seq(B)
    PROVE  /\ FlattenSeq(s) \in Seq(B)
           /\ FlattenSeq(Append(s, e)) = FlattenSeq(s) \o e
<1> DEFINE t == Append(s, e)
<1>1. /\ t \in Seq(Seq(B)) /\ Len(t) = Len(s) + 1 /\ Len(s) \in Nat /\ t[Len(s) + 1] = e
      /\ \A i \in 1..Len(s) : t[i] = s[i] /\ s[i] \in Seq(B)
  BY AppendProperties, LenProperties, ElementOfSeq
<1> HIDE DEF t
<1>2. PICK h : Partial(t, Len(t), h) /\ FlattenSeq(t) = h[Len(t)]
  BY <1>1, FlattenByParts
<1>3. h[Len(s) + 1] = IF Len(s) + 1 = 1 THEN e ELSE h[Len(s)] \o e
  <2>1. \A i \in 1..Len(t) : h[i] = IF i = 1 THEN t[i] ELSE h[i - 1] \o t[i]
    BY <1>2, Zenon DEF Partial
  <2>2. Len(s) + 1 \in 1..Len(t) /\ Len(s) + 1 - 1 = Len(s)
    BY <1>1
  <2> QED
    BY <1>1, <2>1, <2>2
<1>4. CASE s = <<>>
  <2>1. Len(s) = 0 /\ FlattenSeq(s) = <<>> /\ <<>> \in Seq(B)
    BY <1>4, EmptySeq DEF FlattenSeq
  <2>2. FlattenSeq(t) = e
    BY <1>1, <1>2, <1>3, <2>1
  <2>3. <<>> \o e = e
    BY ConcatEmptySeq
  <2> QED
    BY <2>1, <2>2, <2>3 DEF t
<1>5. CASE s # <<>>
  <2>1. Len(s) \in Nat \ {0}
    BY <1>5, EmptySeq
  <2>2. PICK g : Partial(s, Len(s), g) /\ FlattenSeq(s) = g[Len(s)]
    BY <2>1, FlattenByParts
  <2>3. \A i \in 1..Len(s) : g[i] = IF i = 1 THEN s[i] ELSE g[i - 1] \o s[i]
    BY <2>2, Zenon DEF Partial
  <2>4. \A i \in 1..Len(t) : h[i] = IF i = 1 THEN t[i] ELSE h[i - 1] \o t[i]
    BY <1>2, Zenon DEF Partial
  <2> DEFINE S == {i \in Nat : i \in 1..Len(s) => h[i] = g[i] /\ g[i] \in Seq(B)}
  <2>5. 0 \in S
    OBVIOUS
  <2>6. ASSUME NEW i \in Nat, i \in S PROVE i + 1 \in S
    <3> SUFFICES ASSUME i + 1 \in 1..Len(s) PROVE h[i + 1] = g[i + 1] /\ g[i + 1] \in Seq(B)
      OBVIOUS
    <3>1. /\ i + 1 \in 1..Len(t) /\ i + 1 - 1 = i
          /\ t[i + 1] = s[i + 1] /\ s[i + 1] \in Seq(B)
      BY <1>1
    <3>2. CASE i = 0
      BY <2>3, <2>4, <3>1, <3>2
    <3>3. CASE i # 0
      <4>1. h[i] = g[i] /\ g[i] \in Seq(B)
        BY <2>6, <3>3
      <4>2. h[i + 1] = h[i] \o t[i + 1] /\ g[i + 1] = g[i] \o s[i + 1]
        <5>1. PICK k : k = i + 1
          OBVIOUS
        <5>2. k \in 1..Len(s) /\ k \in 1..Len(t) /\ k # 1 /\ k - 1 = i
          BY <3>1, <3>3, <5>1
        <5>3. h[k] = h[k - 1] \o t[k] /\ g[k] = g[k - 1] \o s[k]
          BY <2>3, <2>4, <5>2
        <5> QED
          BY <5>1, <5>2, <5>3
      <4>3. g[i] \o s[i + 1] \in Seq(B)
        BY <3>1, <4>1, ConcatProperties
      <4> QED
        BY <3>1, <4>1, <4>2, <4>3
    <3> QED
      BY <3>2, <3>3
  <2> HIDE DEF S
  <2>7. Len(s) \in S
    BY <2>1, <2>5, <2>6, InductionOver
  <2>8. h[Len(s)] = g[Len(s)] /\ g[Len(s)] \in Seq(B)
    BY <2>1, <2>7 DEF S
  <2> QED
    BY <1>1, <1>2, <1>3, <2>1, <2>2, <2>8 DEF t
<1> QED
  BY <1>4, <1>5

\* The concatenation begins with the first of them.
LEMMA FlattenHead ==
    ASSUME NEW B, NEW s \in Seq(Seq(B)), s # <<>>
    PROVE  FlattenSeq(s) = Head(s) \o FlattenSeq(Tail(s))
<1>1. \A a, b, e \in Seq(B) : (a \o b) \o e = a \o (b \o e)
  <2> SUFFICES ASSUME NEW a \in Seq(B), NEW b \in Seq(B), NEW e \in Seq(B)
               PROVE  (a \o b) \o e = a \o (b \o e)
    OBVIOUS
  <2> QED
    BY ConcatAssociative
<1> DEFINE P(u) == FlattenSeq(u) = Head(u) \o FlattenSeq(Tail(u))
           S == {n \in Nat : \A u \in Seq(Seq(B)) : u # <<>> /\ Len(u) = n => P(u)}
<1>2. 0 \in S
  BY EmptySeq
<1>3. ASSUME NEW n \in Nat, n \in S PROVE n + 1 \in S
  <2> SUFFICES ASSUME NEW u \in Seq(Seq(B)), u # <<>>, Len(u) = n + 1 PROVE P(u)
    OBVIOUS
  <2>1. PICK v \in Seq(Seq(B)), e \in Seq(B) : u = Append(v, e)
    BY SequenceEmptyOrAppend
  <2>2. Len(v) = n
    <3>1. Len(u) = Len(v) + 1 /\ Len(v) \in Nat
      BY <2>1, AppendProperties, LenProperties
    <3> QED
      BY <3>1
  <2>3. FlattenSeq(u) = FlattenSeq(v) \o e
    BY <2>1, FlattenAppend
  <2>4. /\ Head(u) = IF v = <<>> THEN e ELSE Head(v)
        /\ Tail(u) = IF v = <<>> THEN <<>> ELSE Append(Tail(v), e)
    BY <2>1, HeadTailAppend
  <2>5. FlattenSeq(<<>>) = <<>>
    BY EmptySeq DEF FlattenSeq
  <2>6. CASE v = <<>>
    <3>1. <<>> \o e = e \o <<>>
      BY ConcatEmptySeq
    <3> QED
      BY <2>3, <2>4, <2>5, <2>6, <3>1
  <2>7. CASE v # <<>>
    <3>1. FlattenSeq(v) = Head(v) \o FlattenSeq(Tail(v))
      BY <1>3, <2>2, <2>7
    <3>2. Head(v) \in Seq(B) /\ Tail(v) \in Seq(Seq(B))
      BY <2>7, HeadTailProperties
    <3>3. FlattenSeq(Tail(v)) \in Seq(B) /\ FlattenSeq(Append(Tail(v), e)) = FlattenSeq(Tail(v)) \o e
      BY <3>2, FlattenAppend
    <3>4. (Head(v) \o FlattenSeq(Tail(v))) \o e = Head(v) \o (FlattenSeq(Tail(v)) \o e)
      <4>1. PICK a \in Seq(B), b \in Seq(B) : a = Head(v) /\ b = FlattenSeq(Tail(v))
        BY <3>2, <3>3
      <4> QED
        BY <1>1, <4>1
    <3> QED
      BY <2>3, <2>4, <2>7, <3>1, <3>3, <3>4
  <2> QED
    BY <2>6, <2>7
<1> HIDE DEF S
<1>4. Len(s) \in S
  BY <1>2, <1>3, InductionOver, LenProperties
<1> QED
  BY <1>4 DEF S

\* What is left of a sequence of sequences: its first and the others.
LEMMA FlattenStep ==
    ASSUME NEW B, NEW s \in Seq(Seq(B)), NEW k \in Nat, k < Len(s)
    PROVE  /\ s[k + 1] \in Seq(B) /\ FlattenSeq(SubSeq(s, k + 2, Len(s))) \in Seq(B)
           /\ FlattenSeq(SubSeq(s, k + 1, Len(s))) =
                  s[k + 1] \o FlattenSeq(SubSeq(s, k + 2, Len(s)))
<1>1. Len(s) \in Nat
  BY LenProperties
<1>2. k \in 0..Len(s) /\ k + 1 \in 0..Len(s) /\ k + 1 \in 1..Len(s) /\ k + 1 + 1 = k + 2
  BY <1>1
<1>3. s[k + 1] \in Seq(B)
  BY <1>2, ElementOfSeq
<1> DEFINE u == SubSeq(s, k + 1, Len(s))
           v == SubSeq(s, k + 2, Len(s))
<1>4. u \in Seq(Seq(B)) /\ Len(u) = Len(s) - k
  BY <1>2, CutInTwo
<1>5. v \in Seq(Seq(B)) /\ Len(v) = Len(s) - (k + 1)
  <2>1. PICK m \in 0..Len(s) : m = k + 1
    BY <1>2
  <2>2. SubSeq(s, m + 1, Len(s)) \in Seq(Seq(B)) /\ Len(SubSeq(s, m + 1, Len(s))) = Len(s) - m
    BY CutInTwo
  <2>3. m + 1 = k + 2
    BY <1>2, <2>1
  <2> QED
    BY <2>1, <2>2, <2>3
<1>6. \A i \in 1..(Len(s) - k) : u[i] = s[k + i]
  BY <1>1
<1>7. \A i \in 1..(Len(s) - k - 1) : v[i] = s[k + 1 + i]
  BY <1>1
<1> HIDE DEF u, v
<1>8. u # <<>>
  BY <1>1, <1>4, EmptySeq
<1>9. Head(u) = s[k + 1]
  <2>1. u[1] = s[k + 1]
    BY <1>1, <1>6
  <2> QED
    BY <1>4, <1>8, <2>1
<1>10. Tail(u) = v
  <2>1. /\ Tail(u) \in Seq(Seq(B)) /\ Len(Tail(u)) = Len(u) - 1
        /\ \A i \in 1..(Len(u) - 1) : Tail(u)[i] = u[i + 1]
    BY <1>4, <1>8, HeadTailProperties
  <2>2. Len(Tail(u)) = Len(v)
    BY <1>1, <1>4, <1>5, <2>1
  <2>3. \A i \in 1..Len(v) : Tail(u)[i] = v[i]
    <3> SUFFICES ASSUME NEW i \in 1..Len(v) PROVE Tail(u)[i] = v[i]
      OBVIOUS
    <3>1. PICK j : j = i + 1
      OBVIOUS
    <3>2. i \in 1..(Len(u) - 1) /\ i \in 1..(Len(s) - k - 1) /\ j \in 1..(Len(s) - k)
      BY <1>1, <1>4, <1>5, <3>1
    <3>3. Tail(u)[i] = u[j] /\ u[j] = s[k + j] /\ v[i] = s[k + 1 + i]
      BY <1>6, <1>7, <2>1, <3>1, <3>2
    <3>4. k + j = k + 1 + i
      BY <1>1, <3>1, <3>2
    <3> QED
      BY <3>3, <3>4
  <2> QED
    BY <1>5, <2>1, <2>2, <2>3, SeqEqual
<1>11. FlattenSeq(v) \in Seq(B)
  BY <1>3, <1>5, FlattenAppend
<1>12. FlattenSeq(u) = Head(u) \o FlattenSeq(Tail(u))
  BY <1>4, <1>8, FlattenHead
<1>13. FlattenSeq(u) = s[k + 1] \o FlattenSeq(v)
  BY <1>9, <1>10, <1>12
<1> QED
  BY <1>3, <1>11, <1>13 DEF u, v

\* A sequence put behind the others comes at the end of what is left of them.
LEMMA FlattenLeft ==
    ASSUME NEW B, NEW s \in Seq(Seq(B)), NEW e \in Seq(B), NEW k \in Nat, k <= Len(s)
    PROVE  /\ FlattenSeq(SubSeq(s, k + 1, Len(s))) \in Seq(B)
           /\ FlattenSeq(SubSeq(Append(s, e), k + 1, Len(Append(s, e)))) =
                  FlattenSeq(SubSeq(s, k + 1, Len(s))) \o e
<1> DEFINE t == Append(s, e)
           u == SubSeq(s, k + 1, Len(s))
           v == SubSeq(t, k + 1, Len(t))
<1>1. /\ t \in Seq(Seq(B)) /\ Len(t) = Len(s) + 1 /\ Len(s) \in Nat /\ t[Len(s) + 1] = e
      /\ \A i \in 1..Len(s) : t[i] = s[i]
  BY AppendProperties, LenProperties
<1> HIDE DEF t
<1>2. k \in 0..Len(s) /\ k \in 0..Len(t)
  BY <1>1
<1>3. u \in Seq(Seq(B)) /\ Len(u) = Len(s) - k
  BY <1>2, CutInTwo
<1>4. v \in Seq(Seq(B)) /\ Len(v) = Len(s) - k + 1
  BY <1>1, <1>2, CutInTwo
<1>5. \A i \in 1..(Len(s) - k) : u[i] = s[k + i]
  BY <1>1
<1>6. \A i \in 1..(Len(s) - k + 1) : v[i] = t[k + i]
  BY <1>1
<1> HIDE DEF u, v
<1>7. /\ Append(u, e) \in Seq(Seq(B)) /\ Len(Append(u, e)) = Len(u) + 1
      /\ Append(u, e)[Len(u) + 1] = e /\ \A i \in 1..Len(u) : Append(u, e)[i] = u[i]
  BY <1>3, AppendProperties
<1>8. \A i \in 1..Len(v) : v[i] = Append(u, e)[i]
  <2> SUFFICES ASSUME NEW i \in 1..Len(v) PROVE v[i] = Append(u, e)[i]
    OBVIOUS
  <2>n. Len(s) \in Nat /\ Len(u) = Len(s) - k /\ Len(v) = Len(u) + 1 /\ i \in 1..Len(v)
    BY <1>1, <1>3, <1>4
  <2>1. CASE i = Len(u) + 1
    <3>1. v[i] = t[k + i] /\ k + i = Len(s) + 1
      BY <1>6, <2>n, <2>1
    <3> QED
      BY <1>1, <1>7, <2>1, <3>1
  <2>2. CASE i # Len(u) + 1
    <3>1. i \in 1..Len(u) /\ i \in 1..(Len(s) - k) /\ i \in 1..(Len(s) - k + 1) /\ k + i \in 1..Len(s)
      BY <2>n, <2>2
    <3>2. v[i] = t[k + i] /\ t[k + i] = s[k + i] /\ u[i] = s[k + i]
      BY <1>1, <1>5, <1>6, <3>1
    <3> QED
      BY <1>7, <3>1, <3>2
  <2> QED
    BY <2>1, <2>2
<1>9. v = Append(u, e)
  <2>1. Len(v) = Len(Append(u, e))
    BY <1>1, <1>3, <1>4, <1>7
  <2> QED
    BY <1>4, <1>7, <1>8, <2>1, SeqEqual
<1>10. FlattenSeq(u) \in Seq(B) /\ FlattenSeq(v) = FlattenSeq(u) \o e
  BY <1>3, <1>9, FlattenAppend
<1> QED
  BY <1>10 DEF u, v, t
=============================================================================
