------------------------------ MODULE SdpProofs ------------------------------
(***************************************************************************)
(* What reading, writing and answering session descriptions do with every  *)
(* text and every description.  SdpParser makes descriptions of texts      *)
(* (ParseDescription), and Display texts of descriptions (WriteText); each *)
(* stream of an answer is one that both sides have, with the formats that  *)
(* are common to them, and as long as none is passed over, in its place    *)
(* (AnswerStreams, AnswerMediaFacts).  Last come Display and SdpParser     *)
(* against each other: which descriptions are read back from their text.   *)
(*                                                                         *)
(* Loops over lists are functions on 0 .. the length of the list.  That    *)
(* the function is there, and what holds of its last value, is shown with  *)
(* NatSetInduction: the set of the lengths for which it does.              *)
(***************************************************************************)
EXTENDS Sdp, SequenceTheorems, WellFoundedInduction, TLAPS

(* What holds of 0, and of n + 1 when it holds of n, holds of every number. *)
LEMMA NatSetInduction ==
    ASSUME NEW T, 0 \in T, \A n \in Nat : n \in T => n + 1 \in T
    PROVE  Nat \subseteq T
<1> DEFINE R == {p \in Nat \X Nat : p[1] < p[2]}
           B == {n \in Nat : n \notin T}
<1>1. IsWellFoundedOn(R, Nat)
  BY NatLessThanWellFounded DEF OpToRel
<1>2. SUFFICES ASSUME B # {} PROVE FALSE
  OBVIOUS
<1>3. B \subseteq Nat
  OBVIOUS
<1>4. PICK x \in B : \A y \in B : <<y, x>> \notin R
  <2> HIDE DEF R, B
  <2> QED
    BY <1>1, <1>2, <1>3, WFMin
<1>5. x \in Nat /\ x # 0 /\ x \notin T
  OBVIOUS
<1>6. x - 1 \in Nat /\ <<x - 1, x>> \in R
  BY <1>5
<1>7. x - 1 \in T
  BY <1>4, <1>6
<1> QED
  BY <1>5, <1>6, <1>7

LEMMA Smallest ==
    ASSUME NEW S \in SUBSET Nat, S # {} PROVE Min(S) \in S /\ \A y \in S : Min(S) <= y
<1> DEFINE R == {p \in Nat \X Nat : p[1] < p[2]}
<1>1. IsWellFoundedOn(R, Nat)
  BY NatLessThanWellFounded DEF OpToRel
<1>2. PICK x \in S : \A y \in S : <<y, x>> \notin R
  <2> HIDE DEF R
  <2> QED
    BY <1>1, WFMin
<1>3. ASSUME NEW y \in S PROVE x <= y
  <2>1. x \in Nat /\ y \in Nat
    OBVIOUS
  <2>2. y < x => <<y, x>> \in R
    BY <2>1
  <2> HIDE DEF R
  <2> QED
    BY <1>2, <2>1, <2>2
<1> QED
  BY <1>3 DEF Min

-----------------------------------------------------------------------------
(* Sequences of anything.                                                   *)

LEMMA Elements ==
    ASSUME NEW s, IsSeq(s)
    PROVE  s \in Seq({s[k] : k \in 1..Len(s)}) /\ Len(s) \in Nat /\ DOMAIN s = 1..Len(s)
<1> DEFINE S == {s[k] : k \in 1..Len(s)}
           n == Len(s)
<1>1. n \in Nat /\ s = [k \in 1..n |-> s[k]]
  BY DEF IsSeq
<1>2. s \in [1..n -> S]
  BY <1>1
<1>3. s \in Seq(S)
  BY <1>1, <1>2, SeqDef
<1> QED
  BY <1>1, <1>3

LEMMA IsSeqOf == ASSUME NEW S, NEW s \in Seq(S) PROVE IsSeq(s) /\ \A k \in 1..Len(s) : s[k] \in S
<1>1. Len(s) \in Nat /\ DOMAIN s = 1..Len(s) /\ s \in [1..Len(s) -> S]
  BY LenProperties
<1> QED
  BY <1>1 DEF IsSeq

LEMMA IsSeqMap ==
    ASSUME NEW n \in Nat, NEW f, f = [k \in 1..n |-> f[k]] PROVE IsSeq(f) /\ Len(f) = n
<1> DEFINE S == {f[k] : k \in 1..n}
<1>1. f \in [1..n -> S]
  OBVIOUS
<1>2. f \in Seq(S) /\ Len(f) = n
  BY <1>1, SeqDef, LenProperties
<1> QED
  BY <1>2, IsSeqOf

LEMMA IsSeqEmpty == IsSeq(<<>>) /\ Len(<<>>) = 0
<1>1. <<>> \in Seq({}) /\ Len(<<>>) = 0
  BY EmptySeq
<1> QED
  BY <1>1, IsSeqOf

LEMMA IsSeqAppend ==
    ASSUME NEW s, IsSeq(s), NEW x
    PROVE  /\ IsSeq(Append(s, x)) /\ Len(Append(s, x)) = Len(s) + 1
           /\ \A k \in 1..Len(s) : Append(s, x)[k] = s[k]
           /\ Append(s, x)[Len(s) + 1] = x
<1> DEFINE S == {s[k] : k \in 1..Len(s)} \cup {x}
<1>1. s \in Seq(S) /\ x \in S
  <2>1. s \in Seq({s[k] : k \in 1..Len(s)})
    BY Elements
  <2> QED
    BY <2>1
<1> HIDE DEF S
<1>2. /\ Append(s, x) \in Seq(S) /\ Len(Append(s, x)) = Len(s) + 1
      /\ \A k \in 1..(Len(s) + 1) : Append(s, x)[k] = IF k = Len(s) + 1 THEN x ELSE s[k]
  BY <1>1, AppendProperties
<1>3. IsSeq(Append(s, x)) /\ Len(s) \in Nat
  BY <1>1, <1>2, IsSeqOf DEF IsSeq
<1>4. /\ \A k \in 1..Len(s) : Append(s, x)[k] = s[k]
      /\ Append(s, x)[Len(s) + 1] = x
  BY <1>2, <1>3
<1> QED
  BY <1>2, <1>3, <1>4

LEMMA IsSeqConcat ==
    ASSUME NEW s, IsSeq(s), NEW t, IsSeq(t)
    PROVE  /\ IsSeq(s \o t) /\ Len(s \o t) = Len(s) + Len(t)
           /\ \A k \in 1..Len(s \o t) : \/ \E i \in 1..Len(s) : (s \o t)[k] = s[i]
                                        \/ \E i \in 1..Len(t) : (s \o t)[k] = t[i]
<1> DEFINE A == {s[k] : k \in 1..Len(s)}
           B == {t[k] : k \in 1..Len(t)}
<1>1. s \in Seq(A) /\ t \in Seq(B)
  BY Elements
<1>2. s \in Seq(A \cup B) /\ t \in Seq(A \cup B)
  BY <1>1
<1>3. s \o t \in Seq(A \cup B) /\ Len(s \o t) = Len(s) + Len(t)
  <2> HIDE DEF A, B
  <2> QED
    BY <1>2, ConcatProperties
<1>4. IsSeq(s \o t) /\ \A k \in 1..Len(s \o t) : (s \o t)[k] \in A \cup B
  <2> HIDE DEF A, B
  <2> QED
    BY <1>3, IsSeqOf
<1> QED
  BY <1>3, <1>4

LEMMA IsSeqOne == ASSUME NEW x PROVE IsSeq(<<x>>) /\ Len(<<x>>) = 1 /\ <<x>>[1] = x
<1>1. <<x>> \in Seq({x}) /\ Len(<<x>>) = 1 /\ <<x>>[1] = x
  OBVIOUS
<1> QED
  BY <1>1, IsSeqOf

-----------------------------------------------------------------------------
(* Keep.                                                                    *)

(* Keep, element by element: the function of its definition exists.         *)
LEMMA KeepSteps ==
    ASSUME NEW s, Len(s) \in Nat, NEW S
    PROVE  \E f : /\ Keep(s, S) = f[Len(s)] /\ f[0] = <<>>
                  /\ \A k \in 1..Len(s) :
                       f[k] = IF s[k] \in S THEN Append(f[k - 1], s[k]) ELSE f[k - 1]
<1> DEFINE Step(f, k) == IF k = 0 THEN <<>> ELSE IF s[k] \in S THEN Append(f[k - 1], s[k]) ELSE f[k - 1]
           Is(f, n) == f = [k \in 0..n |-> Step(f, k)]
           T == {n \in Nat : \E f : Is(f, n)}
<1>1. 0 \in T
  <2> DEFINE f == [k \in 0..0 |-> <<>>]
  <2>1. Is(f, 0)
    OBVIOUS
  <2> QED
    BY <2>1
<1>2. ASSUME NEW n \in Nat, n \in T PROVE n + 1 \in T
  <2>1. PICK f : Is(f, n)
    BY <1>2
  <2> DEFINE g == [k \in 0..(n + 1) |-> IF k <= n THEN f[k] ELSE Step(f, n + 1)]
  <2>2. \A k \in 0..n : g[k] = f[k]
    OBVIOUS
  <2>3. \A k \in 0..n : f[k] = Step(f, k)
    <3> HIDE DEF Step, g
    <3> QED
      BY <2>1
  <2>4. ASSUME NEW k \in 0..(n + 1) PROVE g[k] = Step(g, k)
    <3>1. CASE k <= n
      <4>1. k \in 0..n
        BY <3>1
      <4>2. g[k] = f[k] /\ f[k] = Step(f, k)
        BY <2>2, <2>3, <4>1
      <4>3. k # 0 => g[k - 1] = f[k - 1]
        BY <4>1
      <4> HIDE DEF g
      <4> QED
        BY <4>2, <4>3
    <3>2. CASE k = n + 1
      <4>1. g[k] = Step(f, n + 1) /\ g[k - 1] = f[k - 1] /\ k # 0
        BY <3>2
      <4> HIDE DEF g
      <4> QED
        BY <3>2, <4>1
    <3> QED
      BY <3>1, <3>2
  <2>5. g = [k \in 0..(n + 1) |-> g[k]]
    OBVIOUS
  <2> HIDE DEF g
  <2>6. Is(g, n + 1)
    BY <2>4, <2>5
  <2> HIDE DEF Is
  <2> QED
    BY <2>6
<1>3. Len(s) \in T
  <2> HIDE DEF T
  <2> QED
    BY <1>1, <1>2, NatSetInduction
<1> DEFINE kept == CHOOSE f : Is(f, Len(s))
<1>4. Is(kept, Len(s))
  BY <1>3
<1>5. Keep(s, S) = kept[Len(s)]
  BY DEF Keep
<1>6. \A k \in 0..Len(s) : kept[k] = Step(kept, k)
  BY <1>4
<1> HIDE DEF kept
<1> QED
  BY <1>5, <1>6

LEMMA KeepFacts ==
    ASSUME NEW s, IsSeq(s), NEW S
    PROVE  /\ IsSeq(Keep(s, S)) /\ Len(Keep(s, S)) <= Len(s)
           /\ \A x : (\E i \in 1..Len(Keep(s, S)) : Keep(s, S)[i] = x)
                       <=> x \in S /\ \E j \in 1..Len(s) : s[j] = x
           /\ \A k \in 0..Len(s) : (\A j \in 1..k : s[j] \in S) =>
                k <= Len(Keep(s, S)) /\ \A j \in 1..k : Keep(s, S)[j] = s[j]
<1>1. Len(s) \in Nat
  BY DEF IsSeq
<1>2. PICK f : /\ Keep(s, S) = f[Len(s)] /\ f[0] = <<>>
               /\ \A k \in 1..Len(s) : f[k] = IF s[k] \in S THEN Append(f[k - 1], s[k]) ELSE f[k - 1]
  BY <1>1, KeepSteps
<1> DEFINE P(n) == /\ IsSeq(f[n]) /\ Len(f[n]) <= n
                   /\ \A x : (\E i \in 1..Len(f[n]) : f[n][i] = x)
                                <=> x \in S /\ \E j \in 1..n : s[j] = x
                   /\ \A k \in 0..n : (\A j \in 1..k : s[j] \in S) =>
                        k <= Len(f[n]) /\ \A j \in 1..k : f[n][j] = s[j]
           T == {n \in Nat : n <= Len(s) => P(n)}
<1>3. 0 \in T
  BY <1>2, IsSeqEmpty
<1>4. ASSUME NEW n \in Nat, n \in T PROVE n + 1 \in T
  <2> SUFFICES ASSUME n + 1 <= Len(s) PROVE P(n + 1)
    OBVIOUS
  <2>1. P(n) /\ n + 1 \in 1..Len(s) /\ (n + 1) - 1 = n
    BY <1>1, <1>4
  <2>2. f[n + 1] = IF s[n + 1] \in S THEN Append(f[n], s[n + 1]) ELSE f[n]
    BY <1>2, <2>1
  <2> DEFINE g == f[n]
             y == s[n + 1]
             h == f[n + 1]
             m == Len(g)
  <2>3. /\ IsSeq(g) /\ m \in Nat /\ m <= n
        /\ \A x : (\E i \in 1..m : g[i] = x) <=> x \in S /\ \E j \in 1..n : s[j] = x
        /\ \A k \in 0..n : (\A j \in 1..k : s[j] \in S) => k <= m /\ \A j \in 1..k : g[j] = s[j]
    BY <2>1 DEF IsSeq
  <2>4. CASE y \in S
    <3>1. /\ IsSeq(h) /\ Len(h) = m + 1 /\ \A k \in 1..m : h[k] = g[k]
          /\ h[m + 1] = y
      BY <2>2, <2>3, <2>4, IsSeqAppend
    <3> HIDE DEF g, h, m
    <3>2. ASSUME NEW x PROVE (\E i \in 1..Len(h) : h[i] = x) <=> x \in S /\ \E j \in 1..(n + 1) : s[j] = x
      <4>1. (\E i \in 1..Len(h) : h[i] = x) <=> x = y \/ \E i \in 1..m : g[i] = x
        BY <2>3, <3>1
      <4>2. (\E j \in 1..(n + 1) : s[j] = x) <=> x = y \/ \E j \in 1..n : s[j] = x
        OBVIOUS
      <4> QED
        BY <2>3, <2>4, <4>1, <4>2
    <3>3. ASSUME NEW k \in 0..(n + 1), \A j \in 1..k : s[j] \in S
          PROVE  k <= Len(h) /\ \A j \in 1..k : h[j] = s[j]
      <4>1. CASE k <= n
        <5>1. k \in 0..n
          BY <4>1
        <5>2. k <= m /\ \A j \in 1..k : g[j] = s[j]
          BY <2>3, <3>3, <5>1
        <5> QED
          BY <2>3, <3>1, <5>2
      <4>2. CASE k = n + 1
        <5>0. n \in 0..n /\ \A j \in 1..n : s[j] \in S
          BY <3>3, <4>2
        <5>1. n <= m /\ \A j \in 1..n : g[j] = s[j]
          BY <2>3, <5>0
        <5>2. m = n
          BY <2>3, <5>1
        <5> QED
          BY <3>1, <4>2, <5>1, <5>2
      <4> QED
        BY <4>1, <4>2
    <3> QED
      BY <2>3, <3>1, <3>2, <3>3 DEF h
  <2>5. CASE y \notin S
    <3>1. h = g
      BY <2>2, <2>5
    <3> HIDE DEF g, h, m
    <3>2. ASSUME NEW x PROVE (\E i \in 1..m : g[i] = x) <=> x \in S /\ \E j \in 1..(n + 1) : s[j] = x
      <4>1. (\E j \in 1..(n + 1) : s[j] = x) <=> x = y \/ \E j \in 1..n : s[j] = x
        OBVIOUS
      <4> QED
        BY <2>3, <2>5, <4>1
    <3>3. ASSUME NEW k \in 0..(n + 1), \A j \in 1..k : s[j] \in S
          PROVE  k <= m /\ \A j \in 1..k : g[j] = s[j]
      <4>1. k # n + 1
        BY <2>5, <3>3
      <4>2. k \in 0..n
        BY <4>1
      <4> QED
        BY <2>3, <3>3, <4>2
    <3> QED
      BY <2>3, <3>1, <3>2, <3>3 DEF h, m
  <2> QED
    BY <2>4, <2>5
<1>5. Len(s) \in T
  <2> HIDE DEF T
  <2> QED
    BY <1>1, <1>3, <1>4, NatSetInduction
<1>6. P(Len(s))
  BY <1>1, <1>5
<1> QED
  BY <1>1, <1>2, <1>6

-----------------------------------------------------------------------------
(* FlattenSeq, sequence by sequence.                                        *)
LEMMA FlattenSteps ==
    ASSUME NEW ss, NEW len \in Nat, Len(ss) = len + 1
    PROVE  \E f : /\ FlattenSeq(ss) = f[len + 1] /\ f[1] = ss[1]
                  /\ \A k \in 2..(len + 1) : f[k] = f[k - 1] \o ss[k]
<1> DEFINE Step(f, k) == IF k = 1 THEN ss[k] ELSE f[k - 1] \o ss[k]
           Is(f, n) == f = [k \in 1..n |-> Step(f, k)]
           T == {n \in Nat : \E f : Is(f, n)}
<1>1. 0 \in T
  <2> DEFINE f == [k \in 1..0 |-> <<>>]
  <2>1. Is(f, 0)
    OBVIOUS
  <2> QED
    BY <2>1
<1>2. ASSUME NEW n \in Nat, n \in T PROVE n + 1 \in T
  <2>1. PICK f : Is(f, n)
    BY <1>2
  <2> DEFINE g == [k \in 1..(n + 1) |-> IF k <= n THEN f[k] ELSE Step(f, n + 1)]
  <2>2. \A k \in 1..n : g[k] = f[k]
    OBVIOUS
  <2>3. \A k \in 1..n : f[k] = Step(f, k)
    <3> HIDE DEF Step, g
    <3> QED
      BY <2>1
  <2>4. ASSUME NEW k \in 1..(n + 1) PROVE g[k] = Step(g, k)
    <3>1. CASE k <= n
      <4>1. k \in 1..n
        BY <3>1
      <4>2. g[k] = f[k] /\ f[k] = Step(f, k)
        BY <2>2, <2>3, <4>1
      <4>3. k # 1 => g[k - 1] = f[k - 1]
        BY <4>1
      <4> HIDE DEF g
      <4> QED
        BY <4>2, <4>3
    <3>2. CASE k = n + 1
      <4>1. g[k] = Step(f, n + 1) /\ (k # 1 => g[k - 1] = f[k - 1])
        BY <3>2
      <4> HIDE DEF g
      <4> QED
        BY <3>2, <4>1
    <3> QED
      BY <3>1, <3>2
  <2>5. g = [k \in 1..(n + 1) |-> g[k]]
    OBVIOUS
  <2> HIDE DEF g
  <2>6. Is(g, n + 1)
    BY <2>4, <2>5
  <2> HIDE DEF Is
  <2> QED
    BY <2>6
<1>3. len + 1 \in T
  <2> HIDE DEF T
  <2> QED
    BY <1>1, <1>2, NatSetInduction
<1> DEFINE flatten == CHOOSE f : Is(f, len + 1)
<1>4. Is(flatten, len + 1)
  BY <1>3
<1>5. FlattenSeq(ss) = flatten[len + 1]
  BY DEF FlattenSeq
<1>6. \A k \in 1..(len + 1) : flatten[k] = Step(flatten, k)
  BY <1>4
<1> HIDE DEF flatten
<1>7. flatten[1] = ss[1]
  <2>1. 1 \in 1..(len + 1)
    OBVIOUS
  <2> QED
    BY <1>6, <2>1
<1>8. ASSUME NEW k \in 2..(len + 1) PROVE flatten[k] = flatten[k - 1] \o ss[k]
  <2>1. k \in 1..(len + 1) /\ k # 1
    OBVIOUS
  <2> QED
    BY <1>6, <2>1
<1> QED
  BY <1>5, <1>7, <1>8

LEMMA ConcatOver ==
    ASSUME NEW S, NEW s, IsSeq(s), \A k \in 1..Len(s) : s[k] \in S,
           NEW t, IsSeq(t), \A k \in 1..Len(t) : t[k] \in S
    PROVE  IsSeq(s \o t) /\ \A k \in 1..Len(s \o t) : (s \o t)[k] \in S
<1>1. /\ IsSeq(s \o t)
      /\ \A k \in 1..Len(s \o t) : \/ \E i \in 1..Len(s) : (s \o t)[k] = s[i]
                                   \/ \E i \in 1..Len(t) : (s \o t)[k] = t[i]
  BY IsSeqConcat
<1>2. ASSUME NEW k \in 1..Len(s \o t) PROVE (s \o t)[k] \in S
  <2> DEFINE x == (s \o t)[k]
  <2>1. (\E i \in 1..Len(s) : x = s[i]) \/ (\E i \in 1..Len(t) : x = t[i])
    BY <1>1
  <2> HIDE DEF x
  <2>2. x \in S
    BY <2>1
  <2> QED
    BY <2>2 DEF x
<1> QED
  BY <1>1, <1>2

(* What is flattened has the elements that were there.                      *)
LEMMA FlattenOver ==
    ASSUME NEW S, NEW ss, IsSeq(ss),
           \A i \in 1..Len(ss) : IsSeq(ss[i]) /\ \A k \in 1..Len(ss[i]) : ss[i][k] \in S
    PROVE  IsSeq(FlattenSeq(ss)) /\ \A k \in 1..Len(FlattenSeq(ss)) : FlattenSeq(ss)[k] \in S
<1>1. Len(ss) \in Nat
  BY DEF IsSeq
<1>2. CASE Len(ss) = 0
  <2>1. FlattenSeq(ss) = ss
    BY <1>2 DEF FlattenSeq
  <2> QED
    BY <1>2, <2>1
<1>3. CASE Len(ss) # 0
  <2> DEFINE len == Len(ss) - 1
  <2>1. len \in Nat /\ Len(ss) = len + 1
    BY <1>1, <1>3
  <2> HIDE DEF len
  <2>2. PICK f : /\ FlattenSeq(ss) = f[len + 1] /\ f[1] = ss[1]
                 /\ \A k \in 2..(len + 1) : f[k] = f[k - 1] \o ss[k]
    BY <2>1, FlattenSteps
  <2> DEFINE P(t) == IsSeq(t) /\ \A k \in 1..Len(t) : t[k] \in S
             T == {n \in Nat : n <= len => P(f[n + 1])}
  <2>3. \A i \in 1..Len(ss) : P(ss[i])
    OBVIOUS
  <2>4. 0 \in T
    BY <2>1, <2>2, <2>3
  <2>5. ASSUME NEW n \in Nat, n \in T PROVE n + 1 \in T
    <3> SUFFICES ASSUME n + 1 <= len PROVE P(f[n + 2])
      OBVIOUS
    <3>1. P(f[n + 1]) /\ P(ss[n + 2]) /\ f[n + 2] = f[n + 1] \o ss[n + 2]
      <4>1. n + 2 \in 2..(len + 1) /\ n + 2 \in 1..Len(ss) /\ (n + 2) - 1 = n + 1 /\ n <= len
        BY <2>1
      <4> QED
        BY <2>2, <2>3, <2>5, <4>1
    <3>2. ASSUME NEW s, NEW t, P(s), P(t) PROVE P(s \o t)
      BY <3>2, ConcatOver
    <3> HIDE DEF P
    <3> QED
      BY <3>1, <3>2
  <2>6. len \in T
    <3> HIDE DEF T
    <3> QED
      BY <2>1, <2>4, <2>5, NatSetInduction
  <2>7. P(FlattenSeq(ss))
    BY <2>1, <2>2, <2>6
  <2> QED
    BY <2>7
<1> QED
  BY <1>2, <1>3

-----------------------------------------------------------------------------
(* Texts.                                                                   *)

LEMMA ConcatText == ASSUME NEW s, IsText(s), NEW t, IsText(t) PROVE IsText(s \o t)
<1> DEFINE S == {s[k] : k \in 1..Len(s)} \cup {t[k] : k \in 1..Len(t)}
<1>1. IsSeq(s) /\ \A k \in 1..Len(s) : s[k] \in S
  BY DEF IsText
<1>2. IsSeq(t) /\ \A k \in 1..Len(t) : t[k] \in S
  BY DEF IsText
<1>3. \A l \in S : IsLine(l)
  BY DEF IsText
<1> HIDE DEF S
<1>4. IsSeq(s \o t) /\ \A k \in 1..Len(s \o t) : (s \o t)[k] \in S
  BY <1>1, <1>2, ConcatOver
<1> QED
  BY <1>3, <1>4 DEF IsText

LEMMA FlattenText ==
    ASSUME NEW ss, IsSeq(ss), \A i \in 1..Len(ss) : IsText(ss[i]) PROVE IsText(FlattenSeq(ss))
<1> DEFINE S == {ss[p[1]][p[2]] : p \in {q \in (1..Len(ss)) \X Nat : q[2] \in 1..Len(ss[q[1]])}}
<1>1. \A i \in 1..Len(ss) : IsSeq(ss[i]) /\ \A k \in 1..Len(ss[i]) : IsLine(ss[i][k])
  BY DEF IsText
<1>2. ASSUME NEW i \in 1..Len(ss), NEW k \in 1..Len(ss[i]) PROVE ss[i][k] \in S
  <2>1. <<i, k>> \in {q \in (1..Len(ss)) \X Nat : q[2] \in 1..Len(ss[q[1]])}
    OBVIOUS
  <2> QED
    BY <2>1
<1>3. ASSUME NEW x \in S PROVE IsLine(x)
  BY <1>1
<1> HIDE DEF S
<1>4. IsSeq(FlattenSeq(ss)) /\ \A k \in 1..Len(FlattenSeq(ss)) : FlattenSeq(ss)[k] \in S
  BY <1>1, <1>2, FlattenOver
<1> QED
  BY <1>3, <1>4 DEF IsText

LEMMA EachText == ASSUME NEW f, f # "m", NEW xs, IsSeq(xs) PROVE IsText(Each(f, xs))
<1> DEFINE e == Each(f, xs)
<1>1. Len(xs) \in Nat /\ DOMAIN xs = 1..Len(xs)
  BY Elements
<1>2. e = [k \in 1..Len(xs) |-> Line(f, xs[k])]
  BY <1>1 DEF Each
<1>3. e = [k \in 1..Len(xs) |-> e[k]] /\ \A k \in 1..Len(xs) : e[k] = Line(f, xs[k])
  BY <1>2
<1> HIDE DEF e
<1>4. IsSeq(e) /\ Len(e) = Len(xs)
  BY <1>1, <1>3, IsSeqMap
<1>5. \A k \in 1..Len(e) : IsLine(e[k])
  BY <1>3, <1>4 DEF IsLine, Line
<1>6. IsText(e)
  BY <1>4, <1>5 DEF IsText
<1> QED
  BY <1>6 DEF e

LEMMA NoText == IsText(<<>>)
  BY IsSeqEmpty DEF IsText
LEMMA OneText == ASSUME NEW l, IsLine(l) PROVE IsText(<<l>>)
<1> DEFINE s == <<l>>
<1>1. IsSeq(s) /\ Len(s) = 1 /\ s[1] = l
  BY IsSeqOne
<1> HIDE DEF s
<1>2. IsText(s)
  BY <1>1 DEF IsText
<1> QED
  BY <1>2 DEF s
LEMMA OptText == ASSUME NEW r, NEW f, f # "m" PROVE IsText(Opt(r, f))
<1>1. IsLine(Line(f, r[f]))
  BY DEF IsLine, Line
<1>2. IsText(<<Line(f, r[f])>>)
  BY <1>1, OneText
<1> QED
  BY <1>2, NoText DEF Opt

LEMMA TimeLinesText ==
    ASSUME NEW ts, IsSeq(ts), \A k \in 1..Len(ts) : IsSeq(ts[k].r) PROVE IsText(TimeLines(ts))
<1> DEFINE Of(k) == <<Line("t", ts[k].t)>> \o Each("r", ts[k].r)
           ss == [k \in DOMAIN ts |-> Of(k)]
<1>1. Len(ts) \in Nat /\ DOMAIN ts = 1..Len(ts)
  BY Elements
<1>2. ASSUME NEW k \in 1..Len(ts) PROVE IsText(Of(k))
  <2>1. IsText(Each("r", ts[k].r))
    BY EachText
  <2>2. IsText(<<Line("t", ts[k].t)>>)
    BY OneText DEF IsLine, Line
  <2> QED
    BY <2>1, <2>2, ConcatText
<1> HIDE DEF Of
<1>3. ss = [k \in 1..Len(ts) |-> ss[k]] /\ \A k \in 1..Len(ts) : ss[k] = Of(k)
  BY <1>1
<1>4. TimeLines(ts) = FlattenSeq(ss)
  BY DEF TimeLines, Of
<1> HIDE DEF ss
<1>5. IsSeq(ss) /\ Len(ss) = Len(ts)
  BY <1>1, <1>3, IsSeqMap
<1>6. IsText(FlattenSeq(ss))
  BY <1>2, <1>3, <1>5, FlattenText
<1> QED
  BY <1>4, <1>6

LEMMA MediaLinesText == ASSUME NEW m, IsMedium(m) PROVE IsText(MediaLines(m))
<1> DEFINE l == [f |-> "m", type |-> m.type, port |-> m.port, proto |-> m.proto, fmts |-> m.fmts]
           title == IF "i" \in DOMAIN m THEN <<Line("t", m.i)>> ELSE <<>>
           A == <<l>>
           C == Opt(m, "c")
           E == Each("a", m.a)
<1>1. IsText(A)
  <2>1. IsLine(l)
    BY DEF IsLine, IsMedium
  <2> HIDE DEF l
  <2> QED
    BY <2>1, OneText
<1>2. IsText(title)
  <2>1. IsText(<<Line("t", m.i)>>)
    BY OneText DEF IsLine, Line
  <2> QED
    BY <2>1, NoText
<1>3. IsText(C)
  BY OptText
<1>4. IsText(E)
  BY EachText DEF IsMedium
<1>5. MediaLines(m) = A \o title \o C \o E
  BY DEF MediaLines
<1> HIDE DEF A, C, E, title
<1>6. IsText(A \o title)
  BY <1>1, <1>2, ConcatText
<1>7. IsText(A \o title \o C)
  BY <1>3, <1>6, ConcatText
<1> QED
  BY <1>4, <1>5, <1>7, ConcatText

(* What Display writes of a description is a text.                          *)
LEMMA WriteText == ASSUME NEW sd, IsDescription(sd) PROVE IsText(Write(sd))
<1> DEFINE A == <<Line("v", "0"), Line("o", sd.o), Line("s", sd.s)>>
           T == TimeLines(sd.t)
           E == Each("a", sd.a)
           ss == [k \in DOMAIN sd.media |-> MediaLines(sd.media[k])]
           M == FlattenSeq(ss)
<1>1. IsText(A)
  <2>1. /\ Len(A) = 3 /\ A[1] = Line("v", "0") /\ A[2] = Line("o", sd.o) /\ A[3] = Line("s", sd.s)
        /\ A = [k \in 1..3 |-> A[k]]
    OBVIOUS
  <2> HIDE DEF A
  <2> QED
    BY <2>1 DEF IsText, IsSeq, IsLine, Line
<1>2. IsText(T)
  <2>1. IsSeq(sd.t) /\ \A k \in 1..Len(sd.t) : IsSeq(sd.t[k].r)
    BY DEF IsDescription, IsTime
  <2> QED
    BY <2>1, TimeLinesText
<1>3. IsText(E)
  BY EachText DEF IsDescription
<1>4. IsText(M)
  <2>1. IsSeq(sd.media) /\ \A k \in 1..Len(sd.media) : IsMedium(sd.media[k])
    BY DEF IsDescription
  <2>2. Len(sd.media) \in Nat /\ DOMAIN sd.media = 1..Len(sd.media)
    BY <2>1, Elements
  <2>3. ss = [k \in 1..Len(sd.media) |-> ss[k]]
        /\ \A k \in 1..Len(sd.media) : ss[k] = MediaLines(sd.media[k])
    BY <2>2
  <2> HIDE DEF ss
  <2>4. IsSeq(ss) /\ Len(ss) = Len(sd.media)
    BY <2>2, <2>3, IsSeqMap
  <2> QED
    BY <2>1, <2>3, <2>4, MediaLinesText, FlattenText
<1> DEFINE I == Opt(sd, "i")
           U == Opt(sd, "u")
           X == Opt(sd, "e")
           P == Opt(sd, "p")
           C == Opt(sd, "c")
<1>5. IsText(I) /\ IsText(U) /\ IsText(X) /\ IsText(P) /\ IsText(C)
  BY OptText
<1>6. Write(sd) = A \o I \o U \o X \o P \o C \o T \o E \o M
  BY DEF Write
<1> HIDE DEF A, I, U, X, P, C, T, E, M
<1>7. IsText(A \o I)
  BY <1>1, <1>5, ConcatText
<1>8. IsText(A \o I \o U)
  BY <1>5, <1>7, ConcatText
<1>9. IsText(A \o I \o U \o X)
  BY <1>5, <1>8, ConcatText
<1>10. IsText(A \o I \o U \o X \o P)
  BY <1>5, <1>9, ConcatText
<1>11. IsText(A \o I \o U \o X \o P \o C)
  BY <1>5, <1>10, ConcatText
<1>12. IsText(A \o I \o U \o X \o P \o C \o T)
  BY <1>2, <1>11, ConcatText
<1>13. IsText(A \o I \o U \o X \o P \o C \o T \o E)
  BY <1>3, <1>12, ConcatText
<1> QED
  BY <1>4, <1>6, <1>13, ConcatText

-----------------------------------------------------------------------------
(* Parse.                                                                   *)

(* Reading, line by line: the function of its definition exists.            *)
LEMMA ReadSteps ==
    ASSUME NEW S, NEW text, Len(text) \in Nat
    PROVE  \E f : /\ ReadFrom(S, text) = f[Len(text)] /\ f[0] = S
                  /\ \A k \in 1..Len(text) : f[k] = Round(f[k - 1], text[k])
<1> DEFINE Step(f, k) == IF k = 0 THEN S ELSE Round(f[k - 1], text[k])
           Is(f, n) == f = [k \in 0..n |-> Step(f, k)]
           T == {n \in Nat : \E f : Is(f, n)}
<1>1. 0 \in T
  <2> DEFINE f == [k \in 0..0 |-> S]
  <2>1. Is(f, 0)
    OBVIOUS
  <2> QED
    BY <2>1
<1>2. ASSUME NEW n \in Nat, n \in T PROVE n + 1 \in T
  <2>1. PICK f : Is(f, n)
    BY <1>2
  <2> DEFINE g == [k \in 0..(n + 1) |-> IF k <= n THEN f[k] ELSE Step(f, n + 1)]
  <2>2. \A k \in 0..n : g[k] = f[k]
    OBVIOUS
  <2>3. \A k \in 0..n : f[k] = Step(f, k)
    <3> HIDE DEF Step, g
    <3> QED
      BY <2>1
  <2>4. ASSUME NEW k \in 0..(n + 1) PROVE g[k] = Step(g, k)
    <3>1. CASE k <= n
      <4>1. k \in 0..n
        BY <3>1
      <4>2. g[k] = f[k] /\ f[k] = Step(f, k)
        BY <2>2, <2>3, <4>1
      <4>3. k # 0 => g[k - 1] = f[k - 1]
        BY <4>1
      <4> HIDE DEF g
      <4> QED
        BY <4>2, <4>3
    <3>2. CASE k = n + 1
      <4>1. g[k] = Step(f, n + 1) /\ g[k - 1] = f[k - 1] /\ k # 0
        BY <3>2
      <4> HIDE DEF g
      <4> QED
        BY <3>2, <4>1
    <3> QED
      BY <3>1, <3>2
  <2>5. g = [k \in 0..(n + 1) |-> g[k]]
    OBVIOUS
  <2> HIDE DEF g
  <2>6. Is(g, n + 1)
    BY <2>4, <2>5
  <2> HIDE DEF Is
  <2> QED
    BY <2>6
<1>3. Len(text) \in T
  <2> HIDE DEF T
  <2> QED
    BY <1>1, <1>2, NatSetInduction
<1> DEFINE read == CHOOSE f : Is(f, Len(text))
<1>4. Is(read, Len(text))
  BY <1>3
<1>5. ReadFrom(S, text) = read[Len(text)]
  BY DEF ReadFrom
<1>6. \A k \in 0..Len(text) : read[k] = Step(read, k)
  BY <1>4
<1> HIDE DEF read
<1>7. read[0] = S
  <2>1. 0 \in 0..Len(text)
    OBVIOUS
  <2> QED
    BY <1>6, <2>1
<1>8. ASSUME NEW k \in 1..Len(text) PROVE read[k] = Round(read[k - 1], text[k])
  <2>1. k \in 0..Len(text) /\ k # 0
    OBVIOUS
  <2> QED
    BY <1>6, <2>1
<1> QED
  BY <1>5, <1>7, <1>8

(* A record whose fields are those of a description.                        *)
LEMMA SameFields ==
    ASSUME NEW sd, IsDescription(sd),
           NEW r, DOMAIN r = DOMAIN sd, r = [f \in DOMAIN r |-> r[f]],
           r.o = sd.o, "c" \in DOMAIN r => r.c = sd.c,
           IsSeq(r.t), \A k \in 1..Len(r.t) : IsTime(r.t[k]),
           IsSeq(r.a), IsSeq(r.media), \A k \in 1..Len(r.media) : IsMedium(r.media[k])
    PROVE  IsDescription(r)
  BY DEF IsDescription, HasFields

LEMMA DefaultDescription == IsDescription(Default)
<1>1. Default = [f \in DOMAIN Default |-> Default[f]]
  BY DEF Default
<1>2. IsSeq(Default.t) /\ Len(Default.t) = 0 /\ IsSeq(Default.a)
      /\ IsSeq(Default.media) /\ Len(Default.media) = 0
  BY IsSeqEmpty DEF Default
<1>3. DOMAIN Default = {"o", "s", "t", "a", "media"} /\ Default.o \in Addresses
  BY ValuesAssumption DEF Default
<1>4. HasFields(Default, {"o", "s", "t", "a", "media"}, {"i", "u", "e", "p", "c"})
  BY <1>1, <1>3 DEF HasFields
<1> QED
  BY <1>2, <1>3, <1>4 DEF IsDescription

LEMMA PutDescription ==
    ASSUME NEW sd, IsDescription(sd), NEW f \in {"o", "s", "i", "u", "e", "p", "c"},
           NEW x, f \in {"o", "c"} => x \in Addresses
    PROVE  IsDescription(Put(sd, f, x))
<1> DEFINE r == Put(sd, f, x)
<1>1. /\ DOMAIN r = DOMAIN sd \cup {f} /\ r = [g \in DOMAIN r |-> r[g]]
      /\ r[f] = x /\ \A g \in DOMAIN sd \ {f} : r[g] = sd[g]
  BY DEF Put
<1> HIDE DEF r
<1>2. /\ {"o", "s", "t", "a", "media"} \subseteq DOMAIN sd
      /\ DOMAIN sd \subseteq {"o", "s", "t", "a", "media"} \cup {"i", "u", "e", "p", "c"}
  BY DEF IsDescription, HasFields
<1>3. r.t = sd.t /\ r.a = sd.a /\ r.media = sd.media
  BY <1>1, <1>2
<1>4. HasFields(r, {"o", "s", "t", "a", "media"}, {"i", "u", "e", "p", "c"})
  BY <1>1, <1>2 DEF HasFields
<1>5. r.o \in Addresses /\ ("c" \in DOMAIN r => r.c \in Addresses)
  BY <1>1, <1>2 DEF IsDescription
<1>6. IsDescription(r)
  BY <1>3, <1>4, <1>5 DEF IsDescription
<1> QED
  BY <1>6 DEF r

LEMMA AttributesDescription ==
    ASSUME NEW sd, IsDescription(sd), NEW a, IsSeq(a), NEW r, r = [sd EXCEPT !.a = a]
    PROVE  IsDescription(r)
<1>1. {"o", "s", "t", "a", "media"} \subseteq DOMAIN sd
  BY DEF IsDescription, HasFields
<1>2. /\ DOMAIN r = DOMAIN sd /\ r = [f \in DOMAIN r |-> r[f]]
      /\ r.o = sd.o /\ ("c" \in DOMAIN r => r.c = sd.c)
      /\ r.t = sd.t /\ r.a = a /\ r.media = sd.media
  BY <1>1
<1> QED
  BY <1>2, SameFields DEF IsDescription

LEMMA MediaDescription ==
    ASSUME NEW sd, IsDescription(sd),
           NEW media, IsSeq(media), \A k \in 1..Len(media) : IsMedium(media[k]),
           NEW r, r = [sd EXCEPT !.media = media]
    PROVE  IsDescription(r)
<1>1. {"o", "s", "t", "a", "media"} \subseteq DOMAIN sd
  BY DEF IsDescription, HasFields
<1>2. /\ DOMAIN r = DOMAIN sd /\ r = [f \in DOMAIN r |-> r[f]]
      /\ r.o = sd.o /\ ("c" \in DOMAIN r => r.c = sd.c)
      /\ r.t = sd.t /\ r.a = sd.a /\ r.media = media
  BY <1>1
<1> QED
  BY <1>2, SameFields DEF IsDescription

LEMMA TimesDescription ==
    ASSUME NEW sd, IsDescription(sd),
           NEW ts, IsSeq(ts), \A k \in 1..Len(ts) : IsTime(ts[k]),
           NEW r, r = [sd EXCEPT !.t = ts]
    PROVE  IsDescription(r)
<1>1. {"o", "s", "t", "a", "media"} \subseteq DOMAIN sd
  BY DEF IsDescription, HasFields
<1>2. /\ DOMAIN r = DOMAIN sd /\ r = [f \in DOMAIN r |-> r[f]]
      /\ r.o = sd.o /\ ("c" \in DOMAIN r => r.c = sd.c)
      /\ r.t = ts /\ r.a = sd.a /\ r.media = sd.media
  BY <1>1
<1> QED
  BY <1>2, SameFields DEF IsDescription

LEMMA AddMedium ==
    ASSUME NEW m, IsMedium(m), NEW f \in {"i", "c", "a"}, NEW x, f = "c" => x \in Addresses
    PROVE  IsMedium(Add(m, f, x))
<1> DEFINE r == Add(m, f, x)
           must == {"type", "port", "proto", "fmts", "a"}
<1>0. must \subseteq DOMAIN m /\ DOMAIN m \subseteq must \cup {"i", "c"}
  BY DEF IsMedium, HasFields
<1>1. CASE f = "a"
  <2>1. /\ DOMAIN r = DOMAIN m /\ r = [g \in DOMAIN r |-> r[g]]
        /\ r.proto = m.proto /\ ("c" \in DOMAIN r => r.c = m.c)
        /\ r.fmts = m.fmts /\ r.a = Append(m.a, x)
    BY <1>0, <1>1 DEF Add
  <2>2. IsSeq(Append(m.a, x))
    BY IsSeqAppend DEF IsMedium
  <2> HIDE DEF r
  <2>3. IsMedium(r)
    BY <2>1, <2>2 DEF IsMedium, HasFields
  <2> QED
    BY <2>3 DEF r
<1>2. CASE f # "a"
  <2>1. /\ DOMAIN r = DOMAIN m \cup {f} /\ r = [g \in DOMAIN r |-> r[g]]
        /\ r[f] = x /\ \A g \in DOMAIN m \ {f} : r[g] = m[g]
    BY <1>2 DEF Add, Put
  <2> HIDE DEF r
  <2>2. r.fmts = m.fmts /\ r.a = m.a /\ r.proto = m.proto
    BY <1>0, <1>2, <2>1
  <2>3. HasFields(r, must, {"i", "c"})
    BY <1>0, <1>2, <2>1 DEF HasFields
  <2>4. "c" \in DOMAIN r => r.c \in Addresses
    BY <2>1 DEF IsMedium
  <2>5. IsMedium(r)
    BY <2>2, <2>3, <2>4 DEF IsMedium
  <2> QED
    BY <2>5 DEF r
<1> QED
  BY <1>1, <1>2

LEMMA BelowDescription ==
    ASSUME NEW sd, IsDescription(sd), NEW f \in {"i", "c", "a"}, NEW x, f = "c" => x \in Addresses
    PROVE  IsDescription(Below(sd, f, x))
<1>1. CASE sd.media = <<>>
  <2>1. CASE f = "a"
    <3>1. Below(sd, f, x) = [sd EXCEPT !.a = Append(sd.a, x)]
      BY <1>1, <2>1 DEF Below, Add
    <3>2. IsSeq(Append(sd.a, x))
      BY IsSeqAppend DEF IsDescription
    <3> QED
      BY <3>1, <3>2, AttributesDescription
  <2>2. CASE f # "a"
    <3>1. Below(sd, f, x) = Put(sd, f, x)
      BY <1>1, <2>2 DEF Below, Add
    <3> QED
      BY <2>2, <3>1, PutDescription
  <2> QED
    BY <2>1, <2>2
<1>2. CASE sd.media # <<>>
  <2> DEFINE n == Len(sd.media)
             media == [sd.media EXCEPT ![n] = Add(sd.media[n], f, x)]
  <2>1. Below(sd, f, x) = [sd EXCEPT !.media = media]
    BY <1>2 DEF Below
  <2>2. IsSeq(sd.media) /\ \A k \in 1..n : IsMedium(sd.media[k])
    BY DEF IsDescription
  <2>3. /\ IsSeq(media) /\ Len(media) = n
        /\ \A k \in 1..n : media[k] = IF k = n THEN Add(sd.media[n], f, x) ELSE sd.media[k]
    <3> DEFINE y == Add(sd.media[n], f, x)
    <3>1. n \in Nat /\ DOMAIN sd.media = 1..n
      BY <2>2, Elements
    <3> HIDE DEF y
    <3>2. media = [sd.media EXCEPT ![n] = y]
      BY DEF y
    <3>3. media = [k \in 1..n |-> media[k]] /\ \A k \in 1..n : media[k] = IF k = n THEN y ELSE sd.media[k]
      BY <3>1, <3>2
    <3> HIDE DEF media
    <3>4. IsSeq(media) /\ Len(media) = n
      BY <3>1, <3>3, IsSeqMap
    <3> QED
      BY <3>3, <3>4 DEF y
  <2>4. \A k \in 1..n : IsMedium(media[k])
    <3> HIDE DEF media, n
    <3> QED
      BY <2>2, <2>3, AddMedium
  <2> HIDE DEF media
  <2> QED
    BY <2>1, <2>3, <2>4, MediaDescription
<1> QED
  BY <1>1, <1>2

LEMMA NewTime == ASSUME NEW x \in Times PROVE IsTime([t |-> x, r |-> <<>>])
<1> DEFINE y == [t |-> x, r |-> <<>>]
<1>1. HasFields(y, {"t", "r"}, {}) /\ y.t = x /\ y.r = <<>>
  BY DEF HasFields
<1> HIDE DEF y
<1>2. IsTime(y)
  BY <1>1, IsSeqEmpty DEF IsTime
<1> QED
  BY <1>2 DEF y

LEMMA TimeDescription ==
    ASSUME NEW sd, IsDescription(sd), NEW x \in Times
    PROVE  IsDescription([sd EXCEPT !.t = Append(sd.t, [t |-> x, r |-> <<>>])])
<1> DEFINE y == [t |-> x, r |-> <<>>]
           ts == Append(sd.t, y)
<1>1. IsTime(y)
  BY NewTime
<1>2. IsSeq(sd.t) /\ \A k \in 1..Len(sd.t) : IsTime(sd.t[k])
  BY DEF IsDescription
<1> HIDE DEF y
<1>3. /\ IsSeq(ts) /\ Len(ts) = Len(sd.t) + 1 /\ Len(sd.t) \in Nat
      /\ \A k \in 1..Len(sd.t) : ts[k] = sd.t[k]
      /\ ts[Len(sd.t) + 1] = y
  BY <1>2, IsSeqAppend DEF IsSeq
<1> HIDE DEF ts
<1>4. \A k \in 1..Len(ts) : IsTime(ts[k])
  BY <1>1, <1>2, <1>3
<1>5. IsDescription([sd EXCEPT !.t = ts])
  BY <1>3, <1>4, TimesDescription
<1> QED
  BY <1>5 DEF ts, y

LEMMA RepeatDescription ==
    ASSUME NEW sd, IsDescription(sd), NEW x \in Times
    PROVE  IsDescription([sd EXCEPT !.t[Len(sd.t)].r = Append(@, x)])
<1> DEFINE n == Len(sd.t)
           y == [sd.t[n] EXCEPT !.r = Append(sd.t[n].r, x)]
           ts == [sd.t EXCEPT ![n] = y]
<1>1. IsSeq(sd.t) /\ n \in Nat /\ \A k \in 1..n : IsTime(sd.t[k])
  BY DEF IsDescription, IsSeq
<1>2. IsSeq(ts) /\ Len(ts) = n /\ \A k \in 1..n : ts[k] = IF k = n THEN y ELSE sd.t[k]
  <2> HIDE DEF y
  <2>1. DOMAIN sd.t = 1..n
    BY <1>1, Elements
  <2>2. ts = [k \in 1..n |-> ts[k]] /\ \A k \in 1..n : ts[k] = IF k = n THEN y ELSE sd.t[k]
    BY <2>1
  <2> HIDE DEF ts
  <2>3. IsSeq(ts) /\ Len(ts) = n
    BY <1>1, <2>2, IsSeqMap
  <2> QED
    BY <2>2, <2>3
<1>3. n \in 1..n => IsTime(y)
  <2> SUFFICES ASSUME n \in 1..n PROVE IsTime(y)
    OBVIOUS
  <2> DEFINE z == sd.t[n]
             rs == Append(z.r, x)
  <2>1. IsTime(z)
    BY <1>1
  <2>2. y = [z EXCEPT !.r = rs]
    OBVIOUS
  <2> HIDE DEF z, y
  <2>3. HasFields(y, {"t", "r"}, {}) /\ y.t = z.t /\ y.r = rs
    BY <2>1, <2>2 DEF IsTime, HasFields
  <2>4. IsSeq(z.r) /\ \A k \in 1..Len(z.r) : z.r[k] \in Times
    BY <2>1 DEF IsTime
  <2>5. /\ IsSeq(rs) /\ Len(rs) = Len(z.r) + 1 /\ Len(z.r) \in Nat
        /\ \A k \in 1..Len(z.r) : rs[k] = z.r[k]
        /\ rs[Len(z.r) + 1] = x
    BY <2>4, IsSeqAppend DEF IsSeq
  <2> HIDE DEF rs
  <2>6. \A k \in 1..Len(rs) : rs[k] \in Times
    BY <2>4, <2>5
  <2> QED
    BY <2>1, <2>3, <2>5, <2>6 DEF IsTime
<1> HIDE DEF ts, y
<1>4. \A k \in 1..n : IsTime(ts[k])
  <2> HIDE DEF n
  <2> QED
    BY <1>1, <1>2, <1>3
<1>5. IsDescription([sd EXCEPT !.t = ts])
  BY <1>2, <1>4, TimesDescription
<1> QED
  BY <1>5 DEF ts, y

(* What a line makes of a description is one again.                         *)
LEMMA FieldDescription ==
    ASSUME NEW sd, IsDescription(sd), NEW l, IsLine(l), NEW r \in Field(sd, l)
    PROVE  IsDescription(r)
<1>1. CASE l.f = "m"
  <2>1. PICK m \in Media(l) : r = [sd EXCEPT !.media = Append(sd.media, m)]
    BY <1>1 DEF Field
  <2>2. m = [type |-> l.type, port |-> l.port, proto |-> l.proto, fmts |-> l.fmts, a |-> <<>>]
    BY DEF Media, When
  <2>3. IsMedium(m)
    <3>1. l.proto \in Transports
      BY DEF Media, When
    <3>2. /\ HasFields(m, {"type", "port", "proto", "fmts", "a"}, {"i", "c"}) /\ "c" \notin DOMAIN m
          /\ m.proto = l.proto /\ m.fmts = l.fmts /\ m.a = <<>>
      BY <2>2 DEF HasFields
    <3> QED
      BY <1>1, <3>1, <3>2, IsSeqEmpty DEF IsMedium, IsLine
  <2> DEFINE media == Append(sd.media, m)
  <2>4. /\ IsSeq(sd.media) /\ \A k \in 1..Len(sd.media) : IsMedium(sd.media[k])
    BY DEF IsDescription
  <2>5. /\ IsSeq(media) /\ Len(media) = Len(sd.media) + 1 /\ Len(sd.media) \in Nat
        /\ \A k \in 1..Len(sd.media) : media[k] = sd.media[k]
        /\ media[Len(sd.media) + 1] = m
    BY <2>4, IsSeqAppend DEF IsSeq
  <2> HIDE DEF media
  <2>6. \A k \in 1..Len(media) : IsMedium(media[k])
    BY <2>3, <2>4, <2>5
  <2>7. IsDescription([sd EXCEPT !.media = media])
    BY <2>5, <2>6, MediaDescription
  <2> QED
    BY <2>1, <2>7 DEF media
<1>2. CASE l.f # "m"
  <2> DEFINE Then ==
               CASE l.f \in {"o", "s", "u", "e", "p"} -> Put(sd, l.f, l.x)
                 [] l.f \in {"i", "c", "a"} -> Below(sd, l.f, l.x)
                 [] l.f = "t" -> [sd EXCEPT !.t = Append(@, [t |-> l.x, r |-> <<>>])]
                 [] l.f = "r" -> [sd EXCEPT !.t[Len(sd.t)].r = Append(@, l.x)]
                 [] OTHER -> sd
  <2>1. r = Then /\ Readable(l)
    BY <1>2 DEF Field, When
  <2>2. CASE l.f \in {"o", "s", "u", "e", "p"}
    <3>1. r = Put(sd, l.f, l.x)
      BY <2>1, <2>2
    <3>2. l.f \in {"o", "c"} => l.x \in Addresses
      BY <2>1 DEF Readable
    <3> QED
      BY <2>2, <3>1, <3>2, PutDescription
  <2>3. CASE l.f \in {"i", "c", "a"}
    <3>1. r = Below(sd, l.f, l.x)
      BY <2>1, <2>3
    <3>2. l.f = "c" => l.x \in Addresses
      BY <2>1 DEF Readable
    <3> QED
      BY <2>3, <3>1, <3>2, BelowDescription
  <2>4. CASE l.f = "t"
    <3>1. r = [sd EXCEPT !.t = Append(sd.t, [t |-> l.x, r |-> <<>>])]
      BY <2>1, <2>4
    <3>2. l.x \in Times
      BY <2>1, <2>4 DEF Readable
    <3> QED
      BY <3>1, <3>2, TimeDescription
  <2>5. CASE l.f = "r"
    <3>1. r = [sd EXCEPT !.t[Len(sd.t)].r = Append(@, l.x)]
      BY <2>1, <2>5
    <3>2. l.x \in Times
      BY <2>1, <2>5 DEF Readable
    <3> QED
      BY <3>1, <3>2, RepeatDescription
  <2>6. CASE l.f \notin {"o", "s", "u", "e", "p", "i", "c", "a", "t", "r"}
    <3>1. r = sd
      BY <2>1, <2>6
    <3> QED
      BY <3>1
  <2> QED
    BY <2>2, <2>3, <2>4, <2>5, <2>6
<1> QED
  BY <1>1, <1>2

(* What SdpParser reads in a text is a description.                         *)
THEOREM ParseDescription ==
    ASSUME NEW text, IsText(text) PROVE \A sd \in Parse(text) : IsDescription(sd)
<1>1. Len(text) \in Nat /\ \A k \in 1..Len(text) : IsLine(text[k])
  BY DEF IsText, IsSeq
<1>2. PICK f : /\ Parse(text) = f[Len(text)] /\ f[0] = {Default}
               /\ \A k \in 1..Len(text) : f[k] = Round(f[k - 1], text[k])
  BY <1>1, ReadSteps DEF Parse
<1> DEFINE P(n) == \A sd \in f[n] : IsDescription(sd)
           T == {n \in Nat : n <= Len(text) => P(n)}
<1>3. 0 \in T
  BY <1>2, DefaultDescription
<1>4. ASSUME NEW n \in Nat, n \in T PROVE n + 1 \in T
  <2> SUFFICES ASSUME n + 1 <= Len(text) PROVE P(n + 1)
    OBVIOUS
  <2>1. n + 1 \in 1..Len(text) /\ P(n) /\ (n + 1) - 1 = n
    BY <1>1, <1>4
  <2>2. f[n + 1] = Round(f[n], text[n + 1])
    BY <1>2, <2>1
  <2> SUFFICES ASSUME NEW r \in f[n + 1] PROVE IsDescription(r)
    OBVIOUS
  <2>3. PICK sd \in f[n] : r \in Field(sd, text[n + 1])
    BY <2>2 DEF Round
  <2> QED
    BY <1>1, <2>1, <2>3, FieldDescription
<1>5. Len(text) \in T
  <2> HIDE DEF T
  <2> QED
    BY <1>1, <1>3, <1>4, NatSetInduction
<1> QED
  BY <1>1, <1>2, <1>5

-----------------------------------------------------------------------------
(* create_offer.                                                            *)

LEMMA OfferMedium ==
    ASSUME NEW stream, stream.proto \in Transports, IsSeq(stream.codecs), NEW last \in BOOLEAN, NEW direction
    PROVE  IsMedium(OfferMedia(stream, last, direction))
<1> DEFINE Of(k) == IF stream.codecs[k] = "101" THEN <<"rtpmap", "fmtp">> ELSE <<"rtpmap">>
           ss == [k \in DOMAIN stream.codecs |-> Of(k)]
           A == FlattenSeq(ss)
           B == IF last THEN <<"ptime", "maxptime", direction>> ELSE <<>>
           m == OfferMedia(stream, last, direction)
<1>1. Len(stream.codecs) \in Nat /\ DOMAIN stream.codecs = 1..Len(stream.codecs)
  BY Elements
<1>2. \A k \in 1..Len(stream.codecs) : IsSeq(Of(k)) /\ \A j \in 1..Len(Of(k)) : Of(k)[j] \in {"rtpmap", "fmtp"}
  BY DEF IsSeq
<1> HIDE DEF Of
<1>3. ss = [k \in 1..Len(stream.codecs) |-> ss[k]] /\ \A k \in 1..Len(stream.codecs) : ss[k] = Of(k)
  BY <1>1
<1>4. /\ HasFields(m, {"type", "port", "proto", "fmts", "a"}, {"i", "c"})
      /\ "c" \notin DOMAIN m /\ m.proto \in Transports
      /\ m.fmts = stream.codecs /\ m.a = A \o B
  BY DEF OfferMedia, Of, HasFields
<1> HIDE DEF ss, m
<1>5. IsSeq(ss) /\ Len(ss) = Len(stream.codecs)
  BY <1>1, <1>3, IsSeqMap
<1>6. IsSeq(A)
  <2> DEFINE S == {"rtpmap", "fmtp"}
  <2>1. \A i \in 1..Len(ss) : IsSeq(ss[i]) /\ \A k \in 1..Len(ss[i]) : ss[i][k] \in S
    BY <1>2, <1>3, <1>5
  <2> HIDE DEF S
  <2> QED
    BY <1>5, <2>1, FlattenOver
<1>7. IsSeq(B)
  BY DEF IsSeq
<1> HIDE DEF A, B
<1>8. IsSeq(A \o B)
  BY <1>6, <1>7, IsSeqConcat
<1>9. IsMedium(m)
  BY <1>4, <1>8 DEF IsMedium
<1> QED
  BY <1>9 DEF m

(* An offer of SdpOfferParams is a description.                             *)
LEMMA OfferDescription ==
    ASSUME NEW params, params.ip \in Addresses, IsSeq(params.streams),
           \A k \in 1..Len(params.streams) :
             params.streams[k].proto \in Transports /\ IsSeq(params.streams[k].codecs)
    PROVE  IsDescription(CreateOffer(params))
<1> DEFINE n == Len(params.streams)
           y == [t |-> "0 0", r |-> <<>>]
           ts == <<y>>
           Of(k) == OfferMedia(params.streams[k], k = n, params.direction)
           media == [k \in 1..n |-> Of(k)]
           sd == CreateOffer(params)
<1>1. n \in Nat
  BY DEF IsSeq
<1>2. IsTime(y)
  BY NewTime, ValuesAssumption
<1>3. \A k \in 1..n : IsMedium(Of(k))
  BY OfferMedium
<1>4. /\ HasFields(sd, {"o", "s", "t", "a", "media"}, {"i", "u", "e", "p", "c"})
      /\ sd.o = params.ip /\ sd.c = params.ip /\ sd.t = ts /\ sd.a = <<>> /\ sd.media = media
  BY DEF CreateOffer, HasFields
<1> HIDE DEF y, Of, sd
<1>5. IsSeq(ts) /\ Len(ts) = 1 /\ ts[1] = y
  BY IsSeqOne
<1>6. media = [k \in 1..n |-> media[k]] /\ \A k \in 1..n : media[k] = Of(k)
  OBVIOUS
<1> HIDE DEF media, ts, n
<1>7. IsSeq(media) /\ Len(media) = n
  BY <1>1, <1>6, IsSeqMap
<1>8. IsSeq(sd.t) /\ \A k \in 1..Len(sd.t) : IsTime(sd.t[k])
  BY <1>2, <1>4, <1>5
<1>9. IsSeq(sd.media) /\ \A k \in 1..Len(sd.media) : IsMedium(sd.media[k])
  BY <1>3, <1>4, <1>6, <1>7
<1>10. IsSeq(sd.a)
  BY <1>4, IsSeqEmpty
<1>11. IsDescription(sd)
  BY <1>4, <1>8, <1>9, <1>10 DEF IsDescription
<1> QED
  BY <1>11 DEF sd

-----------------------------------------------------------------------------
(* create_answer.                                                           *)

(* The direction of a medium is one, or none; it is the first there is.     *)
LEMMA DirectionFacts ==
    ASSUME NEW m, IsSeq(m.a)
    PROVE  /\ DirectionOf(m) \in Directions \cup {"none"}
           /\ \A n \in Nat : (/\ n + 1 \in 1..Len(m.a) /\ m.a[n + 1] \in Directions
                              /\ \A j \in 1..n : m.a[j] \notin Directions)
                                => DirectionOf(m) = m.a[n + 1]
<1> DEFINE I == {i \in 1..Len(m.a) : m.a[i] \in Directions}
           i0 == IF I # {} THEN Min(I) ELSE 0
<1>1. Len(m.a) \in Nat /\ I \in SUBSET Nat
  BY DEF IsSeq
<1>2. DirectionOf(m) = IF i0 = 0 THEN "none" ELSE m.a[i0]
  BY DEF DirectionOf, SelectInSeq
<1>3. I # {} => Min(I) \in I /\ \A y \in I : Min(I) <= y
  <2> HIDE DEF I
  <2> QED
    BY <1>1, Smallest
<1>4. DirectionOf(m) \in Directions \cup {"none"}
  BY <1>1, <1>2, <1>3
<1>5. ASSUME NEW n \in Nat, n + 1 \in 1..Len(m.a), m.a[n + 1] \in Directions,
             \A j \in 1..n : m.a[j] \notin Directions
      PROVE  DirectionOf(m) = m.a[n + 1]
  <2>1. n + 1 \in I
    BY <1>5
  <2>2. PICK q \in I : q = Min(I) /\ q <= n + 1
    BY <1>3, <2>1
  <2>3. i0 = q
    BY <2>2
  <2>4. q = n + 1
    <3>1. q \in Nat /\ 1 <= q /\ m.a[q] \in Directions
      BY <1>1
    <3> HIDE DEF I
    <3>2. q \notin 1..n
      BY <1>5, <3>1
    <3> QED
      BY <2>2, <3>1, <3>2
  <2>5. q # 0
    BY <1>1
  <2> HIDE DEF I, i0
  <2> QED
    BY <1>2, <2>3, <2>4, <2>5
<1> QED
  BY <1>4, <1>5

LEMMA KeepSet ==
    ASSUME NEW s, IsSeq(s), NEW S
    PROVE  IsSeq(Keep(s, S)) /\ ToSet(Keep(s, S)) = ToSet(s) \cap S
<1> DEFINE t == Keep(s, S)
<1>1. IsSeq(t) /\ \A x : (\E i \in 1..Len(t) : t[i] = x) <=> x \in S /\ \E j \in 1..Len(s) : s[j] = x
  <2>1. /\ IsSeq(Keep(s, S)) /\ Len(Keep(s, S)) <= Len(s)
        /\ \A x : (\E i \in 1..Len(Keep(s, S)) : Keep(s, S)[i] = x)
                     <=> x \in S /\ \E j \in 1..Len(s) : s[j] = x
        /\ \A k \in 0..Len(s) : (\A j \in 1..k : s[j] \in S) =>
             k <= Len(Keep(s, S)) /\ \A j \in 1..k : Keep(s, S)[j] = s[j]
    BY KeepFacts
  <2> QED
    BY <2>1
<1> HIDE DEF t
<1>2. DOMAIN t = 1..Len(t) /\ DOMAIN s = 1..Len(s)
  BY <1>1, Elements
<1>3. ToSet(t) = ToSet(s) \cap S
  BY <1>1, <1>2 DEF ToSet
<1> QED
  BY <1>1, <1>3 DEF t

(* As long as the elements of s are in S, Keep leaves them where they are.  *)
KeepsPrefix(s, S) ==
    \A k \in 0..Len(s) : (\A j \in 1..k : s[j] \in S) =>
        k <= Len(Keep(s, S)) /\ \A j \in 1..k : Keep(s, S)[j] = s[j]
LEMMA KeepPrefix ==
    ASSUME NEW s, IsSeq(s), NEW S PROVE Len(Keep(s, S)) <= Len(s) /\ KeepsPrefix(s, S)
<1>1. /\ IsSeq(Keep(s, S)) /\ Len(Keep(s, S)) <= Len(s)
      /\ \A x : (\E i \in 1..Len(Keep(s, S)) : Keep(s, S)[i] = x)
                   <=> x \in S /\ \E j \in 1..Len(s) : s[j] = x
      /\ \A k \in 0..Len(s) : (\A j \in 1..k : s[j] \in S) =>
           k <= Len(Keep(s, S)) /\ \A j \in 1..k : Keep(s, S)[j] = s[j]
  BY KeepFacts
<1> QED
  BY <1>1 DEF KeepsPrefix

LEMMA EmptySet == ASSUME NEW s, IsSeq(s) PROVE s = <<>> <=> ToSet(s) = {}
<1>1. Len(s) \in Nat /\ DOMAIN s = 1..Len(s) /\ s = [k \in 1..Len(s) |-> s[k]]
  BY Elements DEF IsSeq
<1>2. s = <<>> <=> Len(s) = 0
  BY <1>1, IsSeqEmpty
<1>3. Len(s) = 0 <=> ToSet(s) = {}
  <2>1. ASSUME Len(s) # 0 PROVE ToSet(s) # {}
    <3>1. 1 \in DOMAIN s
      BY <1>1, <2>1
    <3>2. s[1] \in ToSet(s)
      BY <3>1 DEF ToSet
    <3> QED
      BY <3>2
  <2>2. ASSUME Len(s) = 0 PROVE ToSet(s) = {}
    <3>1. DOMAIN s = {}
      BY <1>1, <2>2
    <3> QED
      BY <3>1 DEF ToSet
  <2> QED
    BY <2>1, <2>2
<1> QED
  BY <1>2, <1>3

LEMMA AnswerDirectionFacts ==
    ASSUME NEW rd \in Directions \cup {"none"}, NEW ld \in Directions \cup {"none"}
    PROVE  /\ AnswerDirection(rd, ld) \in Directions \cup {"none"}
           /\ AnswerDirection(rd, ld) = "none" <=> rd = "none"
  BY DEF AnswerDirection, Willing, Directions

(* The formats that are left, and the direction that is written.            *)
LEMMA AnswerMediaFacts ==
    ASSUME NEW local, IsMedium(local), NEW remote, IsMedium(remote)
    PROVE  LET m == AnswerMedia(local, remote)
               d == AnswerDirection(DirectionOf(remote), DirectionOf(local))
           IN  /\ IsMedium(m)
               /\ m.fmts = <<>> <=> ToSet(local.fmts) \cap ToSet(remote.fmts) = {}
               /\ DirectionOf(m) = IF DirectionOf(remote) = "none" THEN DirectionOf(local) ELSE d
<1> DEFINE m == AnswerMedia(local, remote)
           rd == DirectionOf(remote)
           ld == DirectionOf(local)
           d == AnswerDirection(rd, ld)
           S == ToSet(remote.fmts)
           fmts == Keep(local.fmts, S)
           kept == Keep(local.a, ToSet(local.a) \ Directions)
           a == IF d = "none" THEN local.a ELSE Append(kept, d)
<1>1. /\ DOMAIN m = DOMAIN local /\ m = [f \in DOMAIN m |-> m[f]]
      /\ m.proto = local.proto /\ ("c" \in DOMAIN m => m.c = local.c)
      /\ m.fmts = fmts /\ m.a = a
  BY DEF AnswerMedia, IsMedium, HasFields
<1>2. IsSeq(local.fmts) /\ IsSeq(local.a) /\ IsSeq(remote.fmts) /\ IsSeq(remote.a)
  BY DEF IsMedium
<1>3. rd \in Directions \cup {"none"} /\ ld \in Directions \cup {"none"}
  BY <1>2, DirectionFacts
<1>4. d \in Directions \cup {"none"} /\ (d = "none" <=> rd = "none")
  <2> HIDE DEF rd, ld
  <2> QED
    BY <1>3, AnswerDirectionFacts
<1>5. IsSeq(fmts) /\ ToSet(fmts) = ToSet(local.fmts) \cap S
  <2> HIDE DEF S
  <2> QED
    BY <1>2, KeepSet
<1>6. IsSeq(kept) /\ ToSet(kept) \cap Directions = {}
  <2> DEFINE R == ToSet(local.a) \ Directions
  <2>1. IsSeq(kept) /\ ToSet(kept) = ToSet(local.a) \cap R
    <3>1. kept = Keep(local.a, R)
      OBVIOUS
    <3> HIDE DEF R, kept
    <3> QED
      BY <1>2, <3>1, KeepSet
  <2> HIDE DEF kept
  <2> QED
    BY <2>1
<1>7. m.fmts = <<>> <=> ToSet(local.fmts) \cap S = {}
  <2> HIDE DEF m, fmts, S
  <2> QED
    BY <1>1, <1>5, EmptySet
<1>8. IsSeq(a) /\ DirectionOf(m) = IF rd = "none" THEN ld ELSE d
  <2>1. CASE d = "none"
    <3>1. m.a = local.a
      BY <1>1, <2>1
    <3>2. DirectionOf(m) = ld
      BY <3>1 DEF DirectionOf
    <3> QED
      BY <1>2, <1>4, <2>1, <3>2
  <2>2. CASE d # "none"
    <3>1. a = Append(kept, d) /\ m.a = a /\ d \in Directions
      BY <1>1, <1>4, <2>2
    <3> HIDE DEF a, kept, m, d
    <3>2. /\ IsSeq(a) /\ Len(a) = Len(kept) + 1 /\ Len(kept) \in Nat
          /\ \A k \in 1..Len(kept) : a[k] = kept[k]
          /\ a[Len(kept) + 1] = d
      BY <1>6, <3>1, IsSeqAppend DEF IsSeq
    <3>3. \A k \in 1..Len(kept) : kept[k] \notin Directions
      <4>1. DOMAIN kept = 1..Len(kept)
        BY <1>6, Elements
      <4> QED
        BY <1>6, <4>1 DEF ToSet
    <3> DEFINE n == Len(kept)
    <3>4. /\ n \in Nat /\ n + 1 \in 1..Len(m.a) /\ m.a[n + 1] = d
          /\ \A j \in 1..n : m.a[j] \notin Directions
      BY <3>1, <3>2, <3>3
    <3> HIDE DEF n
    <3>5. DirectionOf(m) = d
      BY <3>1, <3>2, <3>4, DirectionFacts
    <3> QED
      BY <1>4, <2>2, <3>2, <3>5
  <2> QED
    BY <2>1, <2>2
<1>9. IsMedium(m)
  <2> HIDE DEF m, fmts, a
  <2> QED
    BY <1>1, <1>5, <1>8 DEF IsMedium, HasFields
<1> QED
  BY <1>7, <1>8, <1>9

LEMMA PairedRange ==
    ASSUME NEW x, IsSeq(x.media), NEW y, IsSeq(y.media)
    PROVE  \E n \in Nat : /\ Paired(x, y) = 1..n /\ n <= Len(x.media) /\ n <= Len(y.media)
                          /\ (n = Len(x.media) \/ n = Len(y.media))
<1> DEFINE S == {Len(x.media), Len(y.media)}
<1>1. S \in SUBSET Nat /\ S # {}
  BY DEF IsSeq
<1>2. Min(S) \in S /\ \A k \in S : Min(S) <= k
  <2> HIDE DEF S
  <2> QED
    BY <1>1, Smallest
<1>3. PICK n \in S : n = Min(S) /\ \A k \in S : n <= k
  BY <1>2
<1>4. Paired(x, y) = 1..n
  BY <1>3 DEF Paired
<1> QED
  BY <1>1, <1>3, <1>4

(* The streams of an answer are those of pairs that are active; as long as  *)
(* every pair is, each is where it was.                                     *)
LEMMA AnswerStreams ==
    ASSUME NEW local, IsDescription(local), NEW remote, IsDescription(remote)
    PROVE  LET media == Answer(local, remote).media IN
           /\ IsSeq(media) /\ Len(media) <= Len(remote.media)
           /\ \A j \in 1..Len(media) : \E k \in Paired(local, remote) :
                media[j] = AnswerMedia(local.media[k], remote.media[k])
           /\ \A k \in Paired(local, remote) : (\A j \in 1..k : Active(local, remote, j)) =>
                k <= Len(media) /\ media[k] = AnswerMedia(local.media[k], remote.media[k])
           /\ \A k \in Nat : k > Len(local.media) => k > Len(media)
<1> DEFINE L == local.media
           R == remote.media
           id == [k \in Paired(local, remote) |-> k]
           S == ActivePairs(local, remote)
           kept == Keep(id, S)
           Of(k) == AnswerMedia(L[k], R[k])
           media == [j \in DOMAIN kept |-> Of(kept[j])]
<1>1. IsSeq(L) /\ IsSeq(R)
  BY DEF IsDescription
<1>2. PICK n \in Nat : /\ Paired(local, remote) = 1..n /\ n <= Len(L) /\ n <= Len(R)
                       /\ (n = Len(L) \/ n = Len(R))
  <2>1. \E n \in Nat : /\ Paired(local, remote) = 1..n /\ n <= Len(local.media) /\ n <= Len(remote.media)
                       /\ (n = Len(local.media) \/ n = Len(remote.media))
    BY <1>1, PairedRange
  <2> QED
    BY <2>1
<1>3. S = {k \in 1..n : Active(local, remote, k)}
  BY <1>2 DEF ActivePairs
<1>4. Answer(local, remote).media = media
  <2>1. "media" \in DOMAIN local
    BY DEF IsDescription, HasFields
  <2> QED
    BY <2>1 DEF Answer
<1>5. IsSeq(id) /\ Len(id) = n /\ \A k \in 1..n : id[k] = k
  <2>1. id = [k \in 1..n |-> id[k]] /\ \A k \in 1..n : id[k] = k
    BY <1>2
  <2> HIDE DEF id
  <2> QED
    BY <2>1, IsSeqMap
<1> HIDE DEF id, S, Of
<1>6. /\ IsSeq(kept) /\ Len(kept) <= n
      /\ \A j \in 1..Len(kept) : kept[j] \in S
      /\ \A k \in 0..n : (\A j \in 1..k : j \in S) => k <= Len(kept) /\ \A j \in 1..k : kept[j] = j
  <2>1. /\ IsSeq(kept) /\ ToSet(kept) = ToSet(id) \cap S
        /\ Len(kept) <= n /\ KeepsPrefix(id, S)
    <3>1. IsSeq(kept) /\ ToSet(kept) = ToSet(id) \cap S
      BY <1>5, KeepSet
    <3>2. Len(kept) <= Len(id) /\ KeepsPrefix(id, S)
      BY <1>5, KeepPrefix
    <3> QED
      BY <1>5, <3>1, <3>2
  <2>2. \A j \in 1..Len(kept) : kept[j] \in S
    <3> HIDE DEF kept
    <3>1. DOMAIN kept = 1..Len(kept)
      BY <2>1, Elements
    <3> QED
      BY <2>1, <3>1 DEF ToSet
  <2>3. ASSUME NEW k \in 0..n, \A j \in 1..k : j \in S
        PROVE  k <= Len(kept) /\ \A j \in 1..k : kept[j] = j
    <3>1. \A j \in 1..k : j \in 1..n
      OBVIOUS
    <3>2. \A j \in 1..k : id[j] = j
      BY <1>5, <3>1
    <3>3. k \in 0..Len(id) /\ \A j \in 1..k : id[j] \in S
      BY <1>5, <2>3, <3>2
    <3>4. k <= Len(kept) /\ \A j \in 1..k : kept[j] = id[j]
      BY <2>1, <3>3 DEF KeepsPrefix
    <3> QED
      BY <3>2, <3>4
  <2> QED
    BY <2>1, <2>2, <2>3
<1> HIDE DEF kept
<1>7. Len(kept) \in Nat /\ DOMAIN kept = 1..Len(kept)
  BY <1>6, Elements
<1>8. media = [j \in 1..Len(kept) |-> media[j]] /\ \A j \in 1..Len(kept) : media[j] = Of(kept[j])
  BY <1>7
<1> HIDE DEF media
<1>9. IsSeq(media) /\ Len(media) = Len(kept)
  BY <1>7, <1>8, IsSeqMap
<1>10. Len(media) <= Len(R) /\ \A k \in Nat : k > Len(L) => k > Len(media)
  <2>1. Len(L) \in Nat /\ Len(R) \in Nat
    BY <1>1 DEF IsSeq
  <2> HIDE DEF L, R
  <2> QED
    BY <1>2, <1>6, <1>7, <1>9, <2>1
<1>11. ASSUME NEW j \in 1..Len(media) PROVE \E k \in Paired(local, remote) : media[j] = Of(k)
  BY <1>2, <1>3, <1>6, <1>8, <1>9
<1>12. ASSUME NEW k \in Paired(local, remote), \A j \in 1..k : Active(local, remote, j)
       PROVE  k <= Len(media) /\ media[k] = Of(k)
  <2>1. k \in 1..n
    BY <1>2
  <2>2. \A j \in 1..k : j \in S
    BY <1>3, <1>12, <2>1
  <2>3. k \in 0..n /\ k \in 1..k
    BY <2>1
  <2>4. k <= Len(kept) /\ kept[k] = k
    BY <1>6, <2>2, <2>3
  <2>5. k \in 1..Len(kept)
    BY <1>7, <2>1, <2>4
  <2> QED
    BY <1>8, <1>9, <2>4, <2>5
<1> QED
  BY <1>4, <1>9, <1>10, <1>11, <1>12 DEF Of

LEMMA AnswerDescription ==
    ASSUME NEW local, IsDescription(local), NEW remote, IsDescription(remote)
    PROVE  IsDescription(Answer(local, remote))
<1> DEFINE sd == Answer(local, remote)
           media == sd.media
<1>1. IsSeq(media) /\ \A j \in 1..Len(media) : \E k \in Paired(local, remote) :
                         media[j] = AnswerMedia(local.media[k], remote.media[k])
  BY AnswerStreams
<1>2. ASSUME NEW k \in Paired(local, remote)
      PROVE  IsMedium(AnswerMedia(local.media[k], remote.media[k]))
  <2>1. /\ IsSeq(local.media) /\ \A i \in 1..Len(local.media) : IsMedium(local.media[i])
        /\ IsSeq(remote.media) /\ \A i \in 1..Len(remote.media) : IsMedium(remote.media[i])
    BY DEF IsDescription
  <2>2. k \in 1..Len(local.media) /\ k \in 1..Len(remote.media)
    <3>1. Len(local.media) \in Nat /\ Len(remote.media) \in Nat
      BY <2>1 DEF IsSeq
    <3>2. PICK n \in Nat : Paired(local, remote) = 1..n /\ n <= Len(local.media) /\ n <= Len(remote.media)
      BY <2>1, PairedRange
    <3> QED
      BY <3>1, <3>2
  <2> QED
    BY <2>1, <2>2, AnswerMediaFacts
<1>3. \A j \in 1..Len(media) : IsMedium(media[j])
  BY <1>1, <1>2
<1>4. /\ DOMAIN sd = DOMAIN local /\ sd = [f \in DOMAIN sd |-> sd[f]]
      /\ sd.o = local.o /\ ("c" \in DOMAIN sd => sd.c = local.c)
      /\ sd.t = remote.t /\ sd.a = local.a
  BY DEF Answer, IsDescription, HasFields
<1> HIDE DEF sd
<1>5. IsDescription(sd)
  BY <1>1, <1>3, <1>4, SameFields DEF IsDescription
<1> QED
  BY <1>5 DEF sd

-----------------------------------------------------------------------------
(***************************************************************************)
(* Which descriptions are read back.                                       *)
(*                                                                         *)
(* Forwards, a text is read part by part (ReadConcat, ReadParts) and line  *)
(* by line (ReadChain), and what has been read after each line is known:   *)
(* With(sd, D, ts, attrs, ms), where D are the fields that have been read  *)
(* and ts, attrs and ms the lists as far as they have been.  Backwards,    *)
(* the media that a text can bring (MediaIn) are kept by every line:       *)
(* before the title of the session there are none, and after it no line    *)
(* is a title.                                                             *)
(***************************************************************************)

(* Reading a text part by part.                                             *)

(* The rounds of a text, if they are known.                                 *)
LEMMA ReadAlong ==
    ASSUME NEW text, Len(text) \in Nat, NEW g, NEW S, g[0] = S,
           \A k \in 1..Len(text) : g[k] = Round(g[k - 1], text[k])
    PROVE  ReadFrom(S, text) = g[Len(text)]
<1>1. PICK f : /\ ReadFrom(S, text) = f[Len(text)] /\ f[0] = S
               /\ \A k \in 1..Len(text) : f[k] = Round(f[k - 1], text[k])
  BY ReadSteps
<1> DEFINE T == {n \in Nat : n <= Len(text) => f[n] = g[n]}
<1>2. 0 \in T
  BY <1>1
<1>3. ASSUME NEW n \in Nat, n \in T PROVE n + 1 \in T
  <2> SUFFICES ASSUME n + 1 <= Len(text) PROVE f[n + 1] = g[n + 1]
    OBVIOUS
  <2>1. n + 1 \in 1..Len(text) /\ f[n] = g[n] /\ (n + 1) - 1 = n
    BY <1>3
  <2>2. f[n + 1] = Round(f[n], text[n + 1])
    BY <1>1, <2>1
  <2>3. g[n + 1] = Round(g[n], text[n + 1])
    BY <2>1
  <2> QED
    BY <2>1, <2>2, <2>3
<1>4. Len(text) \in T
  <2> HIDE DEF T
  <2> QED
    BY <1>2, <1>3, NatSetInduction
<1> QED
  BY <1>1, <1>4

LEMMA ReadNone == ASSUME NEW S PROVE ReadFrom(S, <<>>) = S
<1> DEFINE text == <<>>
<1>1. Len(text) = 0
  OBVIOUS
<1> HIDE DEF text
<1>2. PICK f : ReadFrom(S, text) = f[Len(text)] /\ f[0] = S
  BY <1>1, ReadSteps
<1>3. ReadFrom(S, text) = S
  BY <1>1, <1>2
<1> QED
  BY <1>3 DEF text

LEMMA ReadOne == ASSUME NEW S, NEW l PROVE ReadFrom(S, <<l>>) = Round(S, l)
<1> DEFINE text == <<l>>
<1>1. Len(text) = 1 /\ text[1] = l
  OBVIOUS
<1> HIDE DEF text
<1>2. PICK f : /\ ReadFrom(S, text) = f[Len(text)] /\ f[0] = S
               /\ \A k \in 1..Len(text) : f[k] = Round(f[k - 1], text[k])
  BY <1>1, ReadSteps
<1>3. 1 \in 1..Len(text) /\ 1 - 1 = 0
  BY <1>1
<1>4. f[1] = Round(f[0], text[1])
  BY <1>2, <1>3
<1>5. ReadFrom(S, text) = Round(S, l)
  BY <1>1, <1>2, <1>4
<1> QED
  BY <1>5 DEF text

LEMMA ConcatElements ==
    ASSUME NEW s, IsSeq(s), NEW t, IsSeq(t)
    PROVE  /\ \A k \in 1..Len(s) : (s \o t)[k] = s[k]
           /\ \A k \in 1..Len(t) : (s \o t)[Len(s) + k] = t[k]
<1> DEFINE A == {s[k] : k \in 1..Len(s)}
           B == {t[k] : k \in 1..Len(t)}
<1>1. s \in Seq(A) /\ t \in Seq(B)
  BY Elements
<1>2. s \in Seq(A \cup B) /\ t \in Seq(A \cup B)
  BY <1>1
<1>3. Len(s) \in Nat /\ Len(t) \in Nat
  BY DEF IsSeq
<1> HIDE DEF A, B
<1>4. \A i \in 1..Len(s) + Len(t) : (s \o t)[i] = IF i <= Len(s) THEN s[i] ELSE t[i - Len(s)]
  BY <1>2, ConcatProperties
<1>5. ASSUME NEW k \in 1..Len(s) PROVE (s \o t)[k] = s[k]
  <2>1. k \in 1..Len(s) + Len(t) /\ k <= Len(s)
    BY <1>3
  <2> QED
    BY <1>4, <2>1
<1>6. ASSUME NEW k \in 1..Len(t) PROVE (s \o t)[Len(s) + k] = t[k]
  <2>1. Len(s) + k \in 1..Len(s) + Len(t) /\ ~(Len(s) + k <= Len(s)) /\ (Len(s) + k) - Len(s) = k
    BY <1>3
  <2> QED
    BY <1>4, <2>1
<1> QED
  BY <1>5, <1>6

(* Reading goes on where it was.                                            *)
LEMMA ReadConcat ==
    ASSUME NEW S, NEW s, IsSeq(s), NEW t, IsSeq(t)
    PROVE  ReadFrom(S, s \o t) = ReadFrom(ReadFrom(S, s), t)
<1> DEFINE M == ReadFrom(S, s)
           w == s \o t
           p == Len(s)
           q == Len(t)
<1>1. p \in Nat /\ q \in Nat /\ Len(w) = p + q /\ Len(w) \in Nat
  BY IsSeqConcat DEF IsSeq
<1>2. PICK f : M = f[p] /\ f[0] = S /\ \A k \in 1..p : f[k] = Round(f[k - 1], s[k])
  BY <1>1, ReadSteps
<1> HIDE DEF M
<1>3. PICK g : ReadFrom(M, t) = g[q] /\ g[0] = M /\ \A k \in 1..q : g[k] = Round(g[k - 1], t[k])
  BY <1>1, ReadSteps
<1> DEFINE h == [k \in 0..(p + q) |-> IF k <= p THEN f[k] ELSE g[k - p]]
<1>4. /\ \A k \in 1..p : w[k] = s[k]
      /\ \A k \in 1..q : w[p + k] = t[k]
  BY ConcatElements
<1> HIDE DEF w, p, q
<1>5. ASSUME NEW k \in 1..(p + q) PROVE h[k] = Round(h[k - 1], w[k])
  <2>1. CASE k <= p
    <3>1. k \in 1..p /\ h[k] = f[k] /\ h[k - 1] = f[k - 1]
      BY <1>1, <2>1
    <3> HIDE DEF h
    <3> QED
      BY <1>2, <1>4, <3>1
  <2>2. CASE k > p
    <3> DEFINE j == k - p
    <3>1. j \in 1..q /\ k = p + j /\ h[k] = g[j]
      BY <1>1, <2>2
    <3>2. h[k - 1] = g[j - 1]
      <4>1. CASE j = 1
        <5>1. k - 1 = p /\ j - 1 = 0 /\ p \in 0..(p + q)
          BY <1>1, <4>1
        <5>2. h[p] = f[p] /\ f[p] = M
          BY <1>1, <1>2, <5>1
        <5> QED
          BY <1>3, <5>1, <5>2
      <4>2. CASE j # 1
        <5>1. k - 1 \in 0..(p + q) /\ ~(k - 1 <= p) /\ (k - 1) - p = j - 1
          BY <1>1, <3>1, <4>2
        <5> QED
          BY <5>1
      <4> QED
        BY <4>1, <4>2
    <3>3. g[j] = Round(g[j - 1], t[j]) /\ w[k] = t[j]
      BY <1>3, <1>4, <3>1
    <3> HIDE DEF h, j
    <3> QED
      BY <3>1, <3>2, <3>3
  <2> QED
    BY <1>1, <2>1, <2>2
<1>6. h[0] = S
  BY <1>1, <1>2
<1>7. h[p + q] = g[q]
  <2>1. CASE q = 0
    <3>1. h[p + q] = f[p] /\ f[p] = M /\ g[q] = M
      BY <1>1, <1>2, <1>3, <2>1
    <3> QED
      BY <3>1
  <2>2. CASE q # 0
    <3>1. p + q \in 0..(p + q) /\ ~(p + q <= p) /\ (p + q) - p = q
      BY <1>1, <2>2
    <3> QED
      BY <3>1
  <2> QED
    BY <2>1, <2>2
<1> HIDE DEF h
<1>8. ReadFrom(S, w) = h[p + q]
  BY <1>1, <1>5, <1>6, ReadAlong
<1> QED
  BY <1>3, <1>7, <1>8 DEF M, w

(* A text of parts is read part by part.                                    *)
LEMMA ReadFlatten ==
    ASSUME NEW ss, IsSeq(ss), \A i \in 1..Len(ss) : IsSeq(ss[i]),
           NEW g, \A i \in 1..Len(ss) : g[i] = ReadFrom(g[i - 1], ss[i]), NEW S, g[0] = S
    PROVE  ReadFrom(S, FlattenSeq(ss)) = g[Len(ss)]
<1>1. Len(ss) \in Nat
  BY DEF IsSeq
<1>2. CASE Len(ss) = 0
  <2>1. FlattenSeq(ss) = ss
    BY <1>2 DEF FlattenSeq
  <2>2. PICK f : ReadFrom(S, ss) = f[Len(ss)] /\ f[0] = S
    BY <1>1, ReadSteps
  <2> QED
    BY <1>2, <2>1, <2>2
<1>3. CASE Len(ss) # 0
  <2> DEFINE len == Len(ss) - 1
  <2>1. len \in Nat /\ Len(ss) = len + 1
    BY <1>1, <1>3
  <2> HIDE DEF len
  <2>2. PICK f : /\ FlattenSeq(ss) = f[len + 1] /\ f[1] = ss[1]
                 /\ \A k \in 2..(len + 1) : f[k] = f[k - 1] \o ss[k]
    BY <2>1, FlattenSteps
  <2> DEFINE P(n) == IsSeq(f[n]) /\ ReadFrom(S, f[n]) = g[n]
             T == {n \in Nat : n <= len => P(n + 1)}
  <2>3. 0 \in T
    <3>1. 1 \in 1..Len(ss) /\ 1 - 1 = 0
      BY <2>1
    <3>2. g[1] = ReadFrom(g[0], ss[1]) /\ IsSeq(ss[1])
      BY <3>1
    <3>3. P(1)
      BY <2>2, <3>2
    <3> HIDE DEF P
    <3> QED
      BY <3>3
  <2>4. ASSUME NEW n \in Nat, n \in T PROVE n + 1 \in T
    <3> SUFFICES ASSUME n + 1 <= len PROVE P(n + 2)
      OBVIOUS
    <3>1. n + 2 \in 2..(len + 1) /\ n + 2 \in 1..Len(ss) /\ (n + 2) - 1 = n + 1 /\ n <= len
      BY <2>1
    <3>2. P(n + 1) /\ IsSeq(ss[n + 2]) /\ f[n + 2] = f[n + 1] \o ss[n + 2]
      BY <2>2, <2>4, <3>1
    <3>3. g[n + 2] = ReadFrom(g[n + 1], ss[n + 2])
      BY <3>1
    <3>4. IsSeq(f[n + 1] \o ss[n + 2])
      BY <3>2, IsSeqConcat
    <3>5. ReadFrom(S, f[n + 1] \o ss[n + 2]) = ReadFrom(ReadFrom(S, f[n + 1]), ss[n + 2])
      BY <3>2, ReadConcat
    <3> QED
      BY <3>2, <3>3, <3>4, <3>5
  <2>5. len \in T
    <3> HIDE DEF T
    <3> QED
      BY <2>1, <2>3, <2>4, NatSetInduction
  <2>6. P(len + 1)
    BY <2>1, <2>5
  <2> QED
    BY <2>1, <2>2, <2>6
<1> QED
  BY <1>2, <1>3

(* One line, read from one description.                                     *)
LEMMA ReadLine == ASSUME NEW x, NEW l PROVE ReadFrom({x}, <<l>>) = Field(x, l)
<1>1. ReadFrom({x}, <<l>>) = Round({x}, l)
  BY ReadOne
<1>2. Round({x}, l) = Field(x, l)
  BY DEF Round
<1> QED
  BY <1>1, <1>2

LEMMA ReadVersion == ASSUME NEW sd PROVE Field(sd, Line("v", "0")) = {sd}
BY DEF Field, When, Line, Readable
LEMMA ReadPut ==
    ASSUME NEW sd, NEW f \in {"o", "s", "u", "e", "p"}, NEW x, f = "o" => x \in Addresses
    PROVE  Field(sd, Line(f, x)) = {Put(sd, f, x)}
BY DEF Field, When, Line, Readable
LEMMA ReadBelow ==
    ASSUME NEW sd, NEW f \in {"i", "c", "a"}, NEW x, f = "c" => x \in Addresses
    PROVE  Field(sd, Line(f, x)) = {Below(sd, f, x)}
BY DEF Field, When, Line, Readable
LEMMA ReadTime ==
    ASSUME NEW sd, NEW x \in Times
    PROVE  Field(sd, Line("t", x)) = {[sd EXCEPT !.t = Append(@, [t |-> x, r |-> <<>>])]}
BY DEF Field, When, Line, Readable
LEMMA ReadRepeat ==
    ASSUME NEW sd, NEW x \in Times, sd.t # <<>>
    PROVE  Field(sd, Line("r", x)) = {[sd EXCEPT !.t[Len(sd.t)].r = Append(@, x)]}
BY DEF Field, When, Line, Readable
LEMMA ReadMedium ==
    ASSUME NEW sd, NEW l, l.f = "m", l.type \in MediaTypes, l.proto \in Transports,
           "ports" \notin DOMAIN l, l.fmts # <<>>
    PROVE  Field(sd, l) = {[sd EXCEPT !.media = Append(@, [type |-> l.type, port |-> l.port,
                               proto |-> l.proto, fmts |-> l.fmts, a |-> <<>>])]}
BY DEF Field, Media, When

-----------------------------------------------------------------------------
(* What has been read of a description.                                     *)

Upto(s, k) == [j \in 1..k |-> s[j]]

LEMMA SameSeq ==
    ASSUME NEW s, IsSeq(s), NEW t, IsSeq(t), Len(s) = Len(t), \A k \in 1..Len(s) : s[k] = t[k]
    PROVE  s = t
BY DEF IsSeq

LEMMA UptoSeq ==
    ASSUME NEW s, NEW k \in Nat PROVE IsSeq(Upto(s, k)) /\ Len(Upto(s, k)) = k
<1> DEFINE u == Upto(s, k)
<1>1. u = [j \in 1..k |-> u[j]]
  BY DEF Upto
<1> HIDE DEF u
<1>2. IsSeq(u) /\ Len(u) = k
  BY <1>1, IsSeqMap
<1> QED
  BY <1>2 DEF u

LEMMA UptoNone == ASSUME NEW s PROVE Upto(s, 0) = <<>>
BY UptoSeq DEF Upto, IsSeq

LEMMA UptoAll == ASSUME NEW s, IsSeq(s) PROVE Upto(s, Len(s)) = s
BY DEF Upto, IsSeq

LEMMA UptoNext ==
    ASSUME NEW s, NEW k \in Nat, NEW x, x = s[k + 1] PROVE Append(Upto(s, k), x) = Upto(s, k + 1)
<1> DEFINE u == Upto(s, k)
           v == Upto(s, k + 1)
           w == Append(u, x)
<1>1. IsSeq(u) /\ Len(u) = k /\ IsSeq(v) /\ Len(v) = k + 1
  BY UptoSeq
<1>2. /\ \A j \in 1..k : u[j] = s[j]
      /\ \A j \in 1..(k + 1) : v[j] = s[j]
  BY DEF Upto
<1> HIDE DEF u, v
<1>3. /\ IsSeq(w) /\ Len(w) = k + 1
      /\ \A j \in 1..k : w[j] = u[j]
      /\ w[k + 1] = x
  BY <1>1, IsSeqAppend
<1> HIDE DEF w
<1>4. ASSUME NEW j \in 1..(k + 1) PROVE w[j] = v[j]
  <2>1. CASE j = k + 1
    BY <1>2, <1>3, <2>1
  <2>2. CASE j # k + 1
    <3>1. j \in 1..k
      BY <2>2
    <3> QED
      BY <1>2, <1>3, <3>1
  <2> QED
    BY <2>1, <2>2
<1>5. w = v
  BY <1>1, <1>3, <1>4, SameSeq
<1> QED
  BY <1>5 DEF u, v, w

(* The description of which the fields in D and these lists have been read. *)
With(sd, D, ts, attrs, ms) ==
    [f \in D |-> IF f = "t" THEN ts ELSE IF f = "a" THEN attrs ELSE IF f = "media" THEN ms ELSE sd[f]]
Must == {"o", "s", "t", "a", "media"}

LEMMA WithAll ==
    ASSUME NEW sd, IsDescription(sd) PROVE With(sd, DOMAIN sd, sd.t, sd.a, sd.media) = sd
BY DEF With, IsDescription, HasFields

LEMMA ReadHeader ==
    ASSUME NEW sd, IsDescription(sd)
    PROVE  ReadFrom({Default}, <<Line("v", "0"), Line("o", sd.o), Line("s", sd.s)>>)
             = {With(sd, Must, <<>>, <<>>, <<>>)}
<1> DEFINE text == <<Line("v", "0"), Line("o", sd.o), Line("s", sd.s)>>
           x == Put(Default, "o", sd.o)
           y == Put(x, "s", sd.s)
           g == [k \in 0..3 |-> IF k <= 1 THEN {Default} ELSE IF k = 2 THEN {x} ELSE {y}]
<1>1. Field(Default, Line("v", "0")) = {Default}
  BY ReadVersion
<1>2. Field(Default, Line("o", sd.o)) = {x}
  BY ReadPut DEF IsDescription
<1>3. Field(x, Line("s", sd.s)) = {y}
  <2> HIDE DEF x
  <2> QED
    BY ReadPut
<1>4. y = With(sd, Must, <<>>, <<>>, <<>>)
  <2>1. /\ DOMAIN x = Must /\ x.o = sd.o /\ x.t = <<>> /\ x.a = <<>> /\ x.media = <<>>
    BY DEF Put, Default, Must
  <2> HIDE DEF x
  <2>2. /\ y = [f \in Must |-> y[f]] /\ y.o = sd.o /\ y.s = sd.s
        /\ y.t = <<>> /\ y.a = <<>> /\ y.media = <<>>
    BY <2>1 DEF Put, Must
  <2> HIDE DEF y
  <2>3. \A f \in Must : y[f] = With(sd, Must, <<>>, <<>>, <<>>)[f]
    BY <2>2 DEF Must, With
  <2> QED
    BY <2>2, <2>3 DEF With
<1> HIDE DEF x, y
<1>5. \A z, l : Round({z}, l) = Field(z, l)
  BY DEF Round
<1>6. Len(text) = 3 /\ text[1] = Line("v", "0") /\ text[2] = Line("o", sd.o) /\ text[3] = Line("s", sd.s)
  OBVIOUS
<1>7. g[0] = {Default} /\ g[1] = {Default} /\ g[2] = {x} /\ g[3] = {y}
  OBVIOUS
<1> HIDE DEF g, text
<1>8. ASSUME NEW k \in 1..3 PROVE g[k] = Round(g[k - 1], text[k])
  <2>1. CASE k = 1
    BY <1>1, <1>5, <1>6, <1>7, <2>1
  <2>2. CASE k = 2
    BY <1>2, <1>5, <1>6, <1>7, <2>2
  <2>3. CASE k = 3
    BY <1>3, <1>5, <1>6, <1>7, <2>3
  <2> QED
    BY <2>1, <2>2, <2>3
<1>9. ReadFrom({Default}, text) = {y}
  <2> DEFINE S == {Default}
  <2>1. g[0] = S /\ g[Len(text)] = {y} /\ Len(text) \in Nat
    BY <1>6, <1>7
  <2>2. \A k \in 1..Len(text) : g[k] = Round(g[k - 1], text[k])
    BY <1>6, <1>8
  <2> HIDE DEF S
  <2>3. ReadFrom(S, text) = g[Len(text)]
    BY <2>1, <2>2, ReadAlong
  <2> QED
    BY <2>1, <2>3 DEF S
<1> QED
  BY <1>4, <1>9 DEF text

LEMMA ReadOpt ==
    ASSUME NEW sd, IsDescription(sd), NEW D, Must \subseteq D, NEW f \in {"i", "u", "e", "p", "c"},
           NEW S, S = {With(sd, D, <<>>, <<>>, <<>>)}, NEW t, t = Opt(sd, f),
           NEW all, all = D \cup ({f} \cap DOMAIN sd)
    PROVE  ReadFrom(S, t) = {With(sd, all, <<>>, <<>>, <<>>)}
<1> DEFINE x == With(sd, D, <<>>, <<>>, <<>>)
<1>1. CASE f \notin DOMAIN sd
  <2>1. t = <<>> /\ all = D
    BY <1>1 DEF Opt
  <2> QED
    BY <2>1, ReadNone
<1>2. CASE f \in DOMAIN sd
  <2> DEFINE y == With(sd, D \cup {f}, <<>>, <<>>, <<>>)
             l == Line(f, sd[f])
  <2>1. t = <<l>> /\ all = D \cup {f}
    BY <1>2 DEF Opt
  <2>2. x.media = <<>>
    BY DEF With, Must
  <2>3. Put(x, f, sd[f]) = y
    BY DEF Put, With
  <2> HIDE DEF x, y
  <2>4. Field(x, l) = {y}
    <3>1. CASE f \in {"u", "e", "p"}
      BY <2>3, <3>1, ReadPut
    <3>2. CASE f \in {"i", "c"}
      <4> DEFINE w == sd[f]
      <4>1. f \in {"i", "c", "a"} /\ (f = "c" => w \in Addresses)
        BY <1>2, <3>2 DEF IsDescription
      <4> HIDE DEF w
      <4>2. Field(x, Line(f, w)) = {Below(x, f, w)}
        <5>1. CASE f = "i"
          BY <4>1, <5>1, ReadBelow
        <5>2. CASE f = "c"
          <6>1. w \in Addresses
            BY <4>1, <5>2
          <6> QED
            BY <4>1, <5>2, <6>1, ReadBelow
        <5> QED
          BY <3>2, <5>1, <5>2
      <4>3. Below(x, f, sd[f]) = Put(x, f, sd[f])
        BY <2>2, <3>2 DEF Below, Add
      <4> QED
        BY <2>3, <4>2, <4>3 DEF w
    <3> QED
      BY <3>1, <3>2
  <2> HIDE DEF l
  <2>5. ReadFrom({x}, <<l>>) = {y}
    BY <2>4, ReadLine
  <2>6. ReadFrom(S, <<l>>) = {y}
    BY <2>5 DEF x
  <2> QED
    BY <2>1, <2>6 DEF y
<1> QED
  BY <1>1, <1>2

LEMMA IsSeqOpt == ASSUME NEW r, NEW f PROVE IsSeq(Opt(r, f))
BY IsSeqEmpty, IsSeqOne DEF Opt

(* The text s is read as the fields of sd in D.                             *)
ReadsTo(sd, D, s) ==
    Must \subseteq D /\ IsSeq(s) /\ ReadFrom({Default}, s) = {With(sd, D, <<>>, <<>>, <<>>)}

LEMMA ReadsOpt ==
    ASSUME NEW sd, IsDescription(sd), NEW D, NEW s, ReadsTo(sd, D, s),
           NEW f \in {"i", "u", "e", "p", "c"}
    PROVE  ReadsTo(sd, D \cup ({f} \cap DOMAIN sd), s \o Opt(sd, f))
<1> DEFINE S == {With(sd, D, <<>>, <<>>, <<>>)}
           t == Opt(sd, f)
           w == s \o t
           E == D \cup ({f} \cap DOMAIN sd)
<1>1. IsSeq(t) /\ IsSeq(s) /\ Must \subseteq D
  BY IsSeqOpt DEF ReadsTo
<1>3. ReadFrom({Default}, s) = S
  BY DEF ReadsTo
<1>0. S = {With(sd, D, <<>>, <<>>, <<>>)} /\ t = Opt(sd, f) /\ E = D \cup ({f} \cap DOMAIN sd)
  OBVIOUS
<1>6. Must \subseteq E
  BY <1>1
<1> HIDE DEF S, t, E
<1>2. ReadFrom(S, t) = {With(sd, E, <<>>, <<>>, <<>>)}
  BY <1>0, <1>1, ReadOpt
<1>4. IsSeq(w) /\ ReadFrom({Default}, w) = ReadFrom(S, t)
  BY <1>1, <1>3, ReadConcat, IsSeqConcat
<1> HIDE DEF w
<1>5. ReadsTo(sd, E, w)
  BY <1>1, <1>2, <1>4, <1>6 DEF ReadsTo
<1> QED
  BY <1>5 DEF w, t, E

(* What Write has before the times.                                         *)
Header(sd) ==
    <<Line("v", "0"), Line("o", sd.o), Line("s", sd.s)>> \o
    Opt(sd, "i") \o Opt(sd, "u") \o Opt(sd, "e") \o Opt(sd, "p") \o Opt(sd, "c")

LEMMA ReadHeaders ==
    ASSUME NEW sd, IsDescription(sd) PROVE ReadsTo(sd, DOMAIN sd, Header(sd))
<1> DEFINE A == <<Line("v", "0"), Line("o", sd.o), Line("s", sd.s)>>
           B == A \o Opt(sd, "i")
           C == B \o Opt(sd, "u")
           D == C \o Opt(sd, "e")
           E == D \o Opt(sd, "p")
           F == E \o Opt(sd, "c")
           In(f) == {f} \cap DOMAIN sd
<1>1. ReadsTo(sd, Must, A)
  <2>1. ReadFrom({Default}, A) = {With(sd, Must, <<>>, <<>>, <<>>)}
    BY ReadHeader
  <2>2. IsSeq(A)
    BY DEF IsSeq
  <2> HIDE DEF A
  <2> QED
    BY <2>1, <2>2 DEF ReadsTo
<1> HIDE DEF A
<1>2. ReadsTo(sd, Must \cup In("i"), B)
  BY <1>1, ReadsOpt
<1> HIDE DEF B
<1>3. ReadsTo(sd, Must \cup In("i") \cup In("u"), C)
  BY <1>2, ReadsOpt
<1> HIDE DEF C
<1>4. ReadsTo(sd, Must \cup In("i") \cup In("u") \cup In("e"), D)
  BY <1>3, ReadsOpt
<1> HIDE DEF D
<1>5. ReadsTo(sd, Must \cup In("i") \cup In("u") \cup In("e") \cup In("p"), E)
  BY <1>4, ReadsOpt
<1> HIDE DEF E
<1>6. ReadsTo(sd, Must \cup In("i") \cup In("u") \cup In("e") \cup In("p") \cup In("c"), F)
  BY <1>5, ReadsOpt
<1>7. Must \cup In("i") \cup In("u") \cup In("e") \cup In("p") \cup In("c") = DOMAIN sd
  BY DEF IsDescription, HasFields, Must
<1>8. Header(sd) = F
  BY DEF Header, A, B, C, D, E
<1> HIDE DEF F, In
<1> QED
  BY <1>6, <1>7, <1>8

(* The changes that a line makes, by name.                                  *)
Changed(s, k, x) == [s EXCEPT ![k] = x]
WithField(r, f, x) == [r EXCEPT ![f] = x]
Time(v, rs) == [t |-> v, r |-> rs]
Repeated(sd, x) == [sd EXCEPT !.t[Len(sd.t)].r = Append(@, x)]

LEMMA LastChanged ==
    ASSUME NEW b, IsSeq(b), NEW u, NEW v
    PROVE  /\ Append(b, u)[Len(Append(b, u))] = u /\ Append(b, u) # <<>>
           /\ Changed(Append(b, u), Len(Append(b, u)), v) = Append(b, v)
<1> DEFINE s == Append(b, u)
           n == Len(s)
           t == Append(b, v)
           w == Changed(s, n, v)
<1>1. /\ IsSeq(s) /\ n = Len(b) + 1 /\ \A k \in 1..Len(b) : s[k] = b[k]
      /\ s[n] = u
  BY IsSeqAppend
<1>2. /\ IsSeq(t) /\ Len(t) = n /\ \A k \in 1..Len(b) : t[k] = b[k]
      /\ t[n] = v
  BY <1>1, IsSeqAppend
<1> HIDE DEF s
<1>3. n \in Nat /\ n # 0 /\ DOMAIN s = 1..n
  BY <1>1, Elements DEF IsSeq
<1>4. w = [k \in 1..n |-> w[k]] /\ w[n] = v /\ \A k \in 1..n : k # n => w[k] = s[k]
  <2>1. w = [k \in DOMAIN s |-> IF k = n THEN v ELSE s[k]]
    BY DEF Changed
  <2> HIDE DEF w, t, n
  <2>2. n \in 1..n
    BY <1>3
  <2> QED
    BY <1>3, <2>1, <2>2
<1> HIDE DEF t, w
<1>5. IsSeq(w) /\ Len(w) = n
  BY <1>3, <1>4, IsSeqMap
<1>6. ASSUME NEW k \in 1..n PROVE w[k] = t[k]
  <2>1. CASE k = n
    BY <1>2, <1>4, <2>1
  <2>2. CASE k # n
    <3>1. k \in 1..Len(b)
      BY <1>1, <1>3, <2>2 DEF IsSeq
    <3> QED
      BY <1>1, <1>2, <1>4, <2>2, <3>1
  <2> QED
    BY <2>1, <2>2
<1>7. w = t
  BY <1>2, <1>5, <1>6, SameSeq
<1>8. s # <<>>
  BY <1>3, IsSeqEmpty
<1> QED
  BY <1>1, <1>7, <1>8 DEF s, t, w

LEMMA WithTimes ==
    ASSUME NEW sd, NEW D, Must \subseteq D, NEW ts, NEW attrs, NEW ms, NEW us
    PROVE  /\ With(sd, D, ts, attrs, ms).t = ts
           /\ WithField(With(sd, D, ts, attrs, ms), "t", us) = With(sd, D, us, attrs, ms)
BY DEF With, WithField, Must
LEMMA WithAttributes ==
    ASSUME NEW sd, NEW D, Must \subseteq D, NEW ts, NEW attrs, NEW ms, NEW us
    PROVE  /\ With(sd, D, ts, attrs, ms).a = attrs
           /\ WithField(With(sd, D, ts, attrs, ms), "a", us) = With(sd, D, ts, us, ms)
BY DEF With, WithField, Must
LEMMA WithMedia ==
    ASSUME NEW sd, NEW D, Must \subseteq D, NEW ts, NEW attrs, NEW ms, NEW us
    PROVE  /\ With(sd, D, ts, attrs, ms).media = ms
           /\ WithField(With(sd, D, ts, attrs, ms), "media", us) = With(sd, D, ts, attrs, us)
BY DEF With, WithField, Must

LEMMA RepeatedTime ==
    ASSUME NEW x, NEW y, NEW s, s = x.t
    PROVE  Repeated(x, y) = WithField(x, "t",
               Changed(s, Len(s), WithField(s[Len(s)], "r", Append(s[Len(s)].r, y))))
BY DEF Repeated, WithField, Changed
LEMMA LongerTime ==
    ASSUME NEW v, NEW rs, NEW xs
    PROVE  Time(v, rs).r = rs /\ WithField(Time(v, rs), "r", xs) = Time(v, xs)
BY DEF Time, WithField

(* As ReadAlong, where every round leaves one description.                  *)
LEMMA ReadChain ==
    ASSUME NEW text, IsSeq(text), NEW x,
           \A k \in 1..Len(text) : Field(x[k - 1], text[k]) = {x[k]}, NEW S, S = {x[0]}
    PROVE  ReadFrom(S, text) = {x[Len(text)]}
<1> DEFINE n == Len(text)
           g == [k \in 0..n |-> {x[k]}]
<1>1. n \in Nat
  BY DEF IsSeq
<1>2. \A k \in 0..n : g[k] = {x[k]}
  OBVIOUS
<1> HIDE DEF g
<1>3. g[0] = S /\ g[n] = {x[n]}
  BY <1>1, <1>2
<1>4. ASSUME NEW k \in 1..n PROVE g[k] = Round(g[k - 1], text[k])
  <2>1. k \in 0..n /\ k - 1 \in 0..n
    BY <1>1
  <2>2. g[k] = {x[k]} /\ g[k - 1] = {x[k - 1]}
    BY <1>2, <2>1
  <2>3. Round({x[k - 1]}, text[k]) = Field(x[k - 1], text[k])
    BY DEF Round
  <2> QED
    BY <2>2, <2>3
<1>5. ReadFrom(S, text) = g[n]
  BY <1>1, <1>3, <1>4, ReadAlong
<1> QED
  BY <1>3, <1>5


LEMMA WithRepeat ==
    ASSUME NEW sd, NEW D, Must \subseteq D, NEW b, IsSeq(b), NEW v, NEW rs, NEW y \in Times,
           NEW attrs, NEW ms
    PROVE  Field(With(sd, D, Append(b, Time(v, rs)), attrs, ms), Line("r", y))
             = {With(sd, D, Append(b, Time(v, Append(rs, y))), attrs, ms)}
<1> DEFINE old == Time(v, rs)
           new == Time(v, Append(rs, y))
           s == Append(b, old)
           n == Len(s)
           x == With(sd, D, s, attrs, ms)
<1>1. s[n] = old /\ s # <<>> /\ Changed(s, n, new) = Append(b, new)
  <2> HIDE DEF new, old
  <2> QED
    BY LastChanged
<1>2. x.t = s /\ \A us : WithField(x, "t", us) = With(sd, D, us, attrs, ms)
  <2>1. x = With(sd, D, s, attrs, ms)
    OBVIOUS
  <2> HIDE DEF s, x, n
  <2> QED
    BY <2>1, WithTimes
<1>3. old.r = rs /\ \A xs : WithField(old, "r", xs) = Time(v, xs)
  BY LongerTime
<1>4. new = Time(v, Append(rs, y))
  OBVIOUS
<1> HIDE DEF old, new, s, x
<1>6. Field(x, Line("r", y)) = {Repeated(x, y)}
  BY <1>1, <1>2, ReadRepeat DEF Repeated
<1>7. Repeated(x, y) = WithField(x, "t", Changed(s, n, WithField(s[n], "r", Append(s[n].r, y))))
  BY <1>2, RepeatedTime
<1>8. WithField(s[n], "r", Append(s[n].r, y)) = new
  BY <1>1, <1>3, <1>4
<1>9. Repeated(x, y) = With(sd, D, Append(b, new), attrs, ms)
  BY <1>1, <1>2, <1>7, <1>8
<1> QED
  BY <1>6, <1>9 DEF x, s, old, new

LEMMA ReadRepeats ==
    ASSUME NEW sd, NEW D, Must \subseteq D, NEW b, IsSeq(b), NEW v, NEW attrs, NEW ms,
           NEW rs, IsSeq(rs), \A k \in 1..Len(rs) : rs[k] \in Times
    PROVE  /\ IsSeq(Each("r", rs))
           /\ ReadFrom({With(sd, D, Append(b, Time(v, <<>>)), attrs, ms)}, Each("r", rs))
                = {With(sd, D, Append(b, Time(v, rs)), attrs, ms)}
<1> DEFINE n == Len(rs)
           text == Each("r", rs)
           X(u) == With(sd, D, Append(b, Time(v, u)), attrs, ms)
           x == [k \in 0..n |-> X(Upto(rs, k))]
<1>1. n \in Nat /\ DOMAIN rs = 1..n
  BY Elements
<1>2. text = [k \in 1..n |-> text[k]] /\ \A k \in 1..n : text[k] = Line("r", rs[k])
  BY <1>1 DEF Each
<1> HIDE DEF text
<1>3. IsSeq(text) /\ n = Len(text)
  <2> HIDE DEF n
  <2> QED
    BY <1>1, <1>2, IsSeqMap
<1>4. \A u, y : y \in Times => Field(X(u), Line("r", y)) = {X(Append(u, y))}
  BY WithRepeat
<1> HIDE DEF X
<1>5. ASSUME NEW k \in 1..n PROVE Field(X(Upto(rs, k - 1)), text[k]) = {X(Upto(rs, k))}
  <2>1. k - 1 \in Nat /\ (k - 1) + 1 = k
    BY <1>1
  <2>2. Append(Upto(rs, k - 1), rs[k]) = Upto(rs, k)
    BY <2>1, UptoNext
  <2>3. rs[k] \in Times /\ text[k] = Line("r", rs[k])
    BY <1>2
  <2> QED
    BY <1>4, <2>2, <2>3
<1>6. Upto(rs, 0) = <<>> /\ Upto(rs, n) = rs
  BY UptoNone, UptoAll
<1>7. \A k \in 0..n : x[k] = X(Upto(rs, k))
  OBVIOUS
<1> HIDE DEF x, n
<1>8. x[0] = X(<<>>) /\ x[n] = X(rs)
  BY <1>1, <1>6, <1>7
<1>9. \A k \in 1..n : Field(x[k - 1], text[k]) = {x[k]}
  <2> SUFFICES ASSUME NEW k \in 1..n PROVE Field(x[k - 1], text[k]) = {x[k]}
    OBVIOUS
  <2>1. k \in 0..n /\ k - 1 \in 0..n
    BY <1>1
  <2> QED
    BY <1>5, <1>7, <2>1
<1> DEFINE S == {X(<<>>)}
<1>10. S = {x[0]}
  BY <1>8
<1> HIDE DEF S
<1>11. ReadFrom(S, text) = {x[n]}
  <2>1. \A k \in 1..Len(text) : Field(x[k - 1], text[k]) = {x[k]}
    BY <1>3, <1>9
  <2>2. ReadFrom(S, text) = {x[Len(text)]}
    BY <1>3, <1>10, <2>1, ReadChain
  <2> QED
    BY <1>3, <2>2
<1> QED
  BY <1>3, <1>8, <1>11 DEF S, X, text

LEMMA ReadTwo ==
    ASSUME NEW s, IsSeq(s), NEW t, IsSeq(t), NEW S, NEW M, ReadFrom(S, s) = M,
           NEW N, ReadFrom(M, t) = N
    PROVE  IsSeq(s \o t) /\ ReadFrom(S, s \o t) = N
BY IsSeqConcat, ReadConcat

(* As ReadFlatten, where every part leaves one description.                 *)
LEMMA ReadParts ==
    ASSUME NEW ss, IsSeq(ss), \A i \in 1..Len(ss) : IsSeq(ss[i]), NEW x,
           \A i \in 1..Len(ss) : ReadFrom({x[i - 1]}, ss[i]) = {x[i]}, NEW S, S = {x[0]}
    PROVE  ReadFrom(S, FlattenSeq(ss)) = {x[Len(ss)]}
<1> DEFINE n == Len(ss)
           g == [k \in 0..n |-> {x[k]}]
<1>1. n \in Nat
  BY DEF IsSeq
<1>2. \A k \in 0..n : g[k] = {x[k]}
  OBVIOUS
<1> HIDE DEF g
<1>3. g[0] = S /\ g[n] = {x[n]}
  BY <1>1, <1>2
<1>4. ASSUME NEW i \in 1..Len(ss) PROVE g[i] = ReadFrom(g[i - 1], ss[i])
  <2>1. i \in 0..n /\ i - 1 \in 0..n
    BY <1>1
  <2>2. g[i] = {x[i]} /\ g[i - 1] = {x[i - 1]}
    BY <1>2, <2>1
  <2> QED
    BY <2>2
<1>5. ReadFrom(S, FlattenSeq(ss)) = g[Len(ss)]
  BY <1>3, <1>4, ReadFlatten
<1> QED
  BY <1>3, <1>5

(* The times.                                                               *)
LEMMA WithTime ==
    ASSUME NEW sd, NEW D, Must \subseteq D, NEW b, NEW v \in Times, NEW attrs, NEW ms
    PROVE  Field(With(sd, D, b, attrs, ms), Line("t", v))
             = {With(sd, D, Append(b, Time(v, <<>>)), attrs, ms)}
<1> DEFINE x == With(sd, D, b, attrs, ms)
<1>1. x.t = b /\ \A us : WithField(x, "t", us) = With(sd, D, us, attrs, ms)
  <2>1. x = With(sd, D, b, attrs, ms)
    OBVIOUS
  <2> HIDE DEF x
  <2> QED
    BY <2>1, WithTimes
<1> HIDE DEF x
<1>2. Field(x, Line("t", v)) = {WithField(x, "t", Append(x.t, Time(v, <<>>)))}
  BY ReadTime DEF WithField, Time
<1> QED
  BY <1>1, <1>2 DEF x

LEMMA TimeAgain == ASSUME NEW t, IsTime(t) PROVE Time(t.t, t.r) = t
BY DEF Time, IsTime, HasFields

TimeBlock(t) == <<Line("t", t.t)>> \o Each("r", t.r)
LEMMA ReadTimeBlock ==
    ASSUME NEW sd, NEW D, Must \subseteq D, NEW b, IsSeq(b), NEW attrs, NEW ms, NEW t, IsTime(t)
    PROVE  /\ IsSeq(TimeBlock(t))
           /\ ReadFrom({With(sd, D, b, attrs, ms)}, TimeBlock(t))
                = {With(sd, D, Append(b, t), attrs, ms)}
<1> DEFINE A == <<Line("t", t.t)>>
           B == Each("r", t.r)
           X(ts) == With(sd, D, ts, attrs, ms)
           S == {X(b)}
           M == {X(Append(b, Time(t.t, <<>>)))}
<1>1. t.t \in Times /\ IsSeq(t.r) /\ \A k \in 1..Len(t.r) : t.r[k] \in Times
  BY DEF IsTime
<1>2. Field(X(b), Line("t", t.t)) = M
  BY <1>1, WithTime
<1>3. ReadFrom(S, A) = M
  <2> HIDE DEF M, X
  <2> QED
    BY <1>2, ReadLine
<1>4. IsSeq(B) /\ ReadFrom(M, B) = {X(Append(b, Time(t.t, t.r)))}
  BY <1>1, ReadRepeats
<1>5. IsSeq(A)
  BY IsSeqOne
<1>6. Time(t.t, t.r) = t
  BY TimeAgain
<1> DEFINE N == {X(Append(b, t))}
<1>7. ReadFrom(M, B) = N
  BY <1>4, <1>6
<1> HIDE DEF A, B, M, S, N
<1>8. IsSeq(A \o B) /\ ReadFrom(S, A \o B) = N
  BY <1>3, <1>4, <1>5, <1>7, ReadTwo
<1> QED
  BY <1>8 DEF TimeBlock, A, B, S, N, X

LEMMA ReadTimes ==
    ASSUME NEW sd, NEW D, Must \subseteq D, NEW attrs, NEW ms,
           NEW ts, IsSeq(ts), \A k \in 1..Len(ts) : IsTime(ts[k])
    PROVE  ReadFrom({With(sd, D, <<>>, attrs, ms)}, TimeLines(ts)) = {With(sd, D, ts, attrs, ms)}
<1> DEFINE n == Len(ts)
           X(u) == With(sd, D, u, attrs, ms)
           x == [k \in 0..n |-> X(Upto(ts, k))]
           ss == [k \in DOMAIN ts |-> TimeBlock(ts[k])]
           S == {X(<<>>)}
<1>1. n \in Nat /\ DOMAIN ts = 1..n
  BY Elements
<1>2. ss = [k \in 1..n |-> ss[k]] /\ \A k \in 1..n : ss[k] = TimeBlock(ts[k])
  BY <1>1
<1>3. TimeLines(ts) = FlattenSeq(ss)
  BY DEF TimeLines, TimeBlock
<1> HIDE DEF ss
<1>4. IsSeq(ss) /\ Len(ss) = n
  <2> HIDE DEF n
  <2> QED
    BY <1>1, <1>2, IsSeqMap
<1>5. \A u, t : IsSeq(u) /\ IsTime(t) =>
        IsSeq(TimeBlock(t)) /\ ReadFrom({X(u)}, TimeBlock(t)) = {X(Append(u, t))}
  BY ReadTimeBlock
<1> HIDE DEF X
<1>6. \A k \in 1..n : IsSeq(ss[k])
  BY <1>2, <1>5, IsSeqEmpty
<1>7. ASSUME NEW k \in 1..n PROVE ReadFrom({X(Upto(ts, k - 1))}, ss[k]) = {X(Upto(ts, k))}
  <2>1. k - 1 \in Nat /\ (k - 1) + 1 = k
    BY <1>1
  <2>2. Append(Upto(ts, k - 1), ts[k]) = Upto(ts, k) /\ IsSeq(Upto(ts, k - 1))
    BY <2>1, UptoNext, UptoSeq
  <2>3. IsTime(ts[k]) /\ ss[k] = TimeBlock(ts[k])
    BY <1>2
  <2> QED
    BY <1>5, <2>2, <2>3
<1>8. Upto(ts, 0) = <<>> /\ Upto(ts, n) = ts
  BY UptoNone, UptoAll
<1>9. \A k \in 0..n : x[k] = X(Upto(ts, k))
  OBVIOUS
<1> HIDE DEF x, n
<1>10. x[0] = X(<<>>) /\ x[n] = X(ts)
  BY <1>1, <1>8, <1>9
<1>11. \A k \in 1..Len(ss) : ReadFrom({x[k - 1]}, ss[k]) = {x[k]}
  <2> SUFFICES ASSUME NEW k \in 1..n PROVE ReadFrom({x[k - 1]}, ss[k]) = {x[k]}
    BY <1>4
  <2>1. k \in 0..n /\ k - 1 \in 0..n
    BY <1>1
  <2> QED
    BY <1>7, <1>9, <2>1
<1>12. S = {x[0]}
  BY <1>10
<1> HIDE DEF S
<1>13. ReadFrom(S, FlattenSeq(ss)) = {x[n]}
  <2>1. \A k \in 1..Len(ss) : IsSeq(ss[k])
    BY <1>4, <1>6
  <2>2. ReadFrom(S, FlattenSeq(ss)) = {x[Len(ss)]}
    BY <1>4, <1>11, <1>12, <2>1, ReadParts
  <2> QED
    BY <1>4, <2>2
<1> QED
  BY <1>3, <1>10, <1>13 DEF S, X

(* Reading xs line by line, each with the letter f, makes x[k] of x[k - 1]. *)
LeadsTo(x, f, xs) == \A k \in 1..Len(xs) : Field(x[k - 1], Line(f, xs[k])) = {x[k]}
LEMMA ReadEach ==
    ASSUME NEW f, NEW xs, IsSeq(xs), NEW x, LeadsTo(x, f, xs), NEW S, S = {x[0]}
    PROVE  IsSeq(Each(f, xs)) /\ ReadFrom(S, Each(f, xs)) = {x[Len(xs)]}
<1> DEFINE n == Len(xs)
           text == Each(f, xs)
<1>1. n \in Nat /\ DOMAIN xs = 1..n
  BY Elements
<1>2. text = [k \in 1..n |-> text[k]] /\ \A k \in 1..n : text[k] = Line(f, xs[k])
  BY <1>1 DEF Each
<1> HIDE DEF text
<1>3. IsSeq(text) /\ n = Len(text)
  <2> HIDE DEF n
  <2> QED
    BY <1>1, <1>2, IsSeqMap
<1>4. \A k \in 1..Len(text) : Field(x[k - 1], text[k]) = {x[k]}
  BY <1>2, <1>3 DEF LeadsTo
<1>5. ReadFrom(S, text) = {x[Len(text)]}
  BY <1>3, <1>4, ReadChain
<1> QED
  BY <1>3, <1>5 DEF text

(* The attributes of the session.                                           *)
LEMMA WithAttribute ==
    ASSUME NEW sd, NEW D, Must \subseteq D, NEW ts, NEW u, NEW y
    PROVE  Field(With(sd, D, ts, u, <<>>), Line("a", y)) = {With(sd, D, ts, Append(u, y), <<>>)}
<1> DEFINE x == With(sd, D, ts, u, <<>>)
<1>1. /\ x.a = u /\ x.media = <<>>
      /\ \A us : WithField(x, "a", us) = With(sd, D, ts, us, <<>>)
  <2> DEFINE none == <<>>
  <2>1. x = With(sd, D, ts, u, none) /\ none = <<>>
    OBVIOUS
  <2> HIDE DEF x, none
  <2>2. x.a = u /\ \A us : WithField(x, "a", us) = With(sd, D, ts, us, none)
    BY <2>1, WithAttributes
  <2>3. x.media = none
    BY <2>1, WithMedia
  <2> QED
    BY <2>1, <2>2, <2>3
<1> HIDE DEF x
<1>2. Field(x, Line("a", y)) = {Below(x, "a", y)}
  BY ReadBelow
<1>3. Below(x, "a", y) = WithField(x, "a", Append(x.a, y))
  BY <1>1 DEF Below, Add, WithField
<1> QED
  BY <1>1, <1>2, <1>3 DEF x

LEMMA ReadAttributes ==
    ASSUME NEW sd, NEW D, Must \subseteq D, NEW ts, NEW xs, IsSeq(xs)
    PROVE  /\ IsSeq(Each("a", xs))
           /\ ReadFrom({With(sd, D, ts, <<>>, <<>>)}, Each("a", xs)) = {With(sd, D, ts, xs, <<>>)}
<1> DEFINE n == Len(xs)
           X(u) == With(sd, D, ts, u, <<>>)
           x == [k \in 0..n |-> X(Upto(xs, k))]
           S == {X(<<>>)}
<1>1. n \in Nat
  BY DEF IsSeq
<1>2. \A u, y : Field(X(u), Line("a", y)) = {X(Append(u, y))}
  BY WithAttribute
<1> HIDE DEF X
<1>3. Upto(xs, 0) = <<>> /\ Upto(xs, n) = xs
  BY UptoNone, UptoAll
<1>4. \A k \in 0..n : x[k] = X(Upto(xs, k))
  OBVIOUS
<1> HIDE DEF x
<1>5. ASSUME NEW k \in 1..n PROVE Field(x[k - 1], Line("a", xs[k])) = {x[k]}
  <2>1. k - 1 \in Nat /\ (k - 1) + 1 = k /\ k \in 0..n /\ k - 1 \in 0..n
    BY <1>1
  <2>2. Append(Upto(xs, k - 1), xs[k]) = Upto(xs, k)
    BY <2>1, UptoNext
  <2>3. Field(X(Upto(xs, k - 1)), Line("a", xs[k])) = {X(Upto(xs, k))}
    BY <1>2, <2>2
  <2> QED
    BY <1>4, <2>1, <2>3
<1>6. S = {x[0]} /\ x[n] = X(xs)
  BY <1>1, <1>3, <1>4
<1> HIDE DEF S
<1>7. LeadsTo(x, "a", xs)
  BY <1>5 DEF LeadsTo
<1>8. IsSeq(Each("a", xs)) /\ ReadFrom(S, Each("a", xs)) = {x[Len(xs)]}
  BY <1>6, <1>7, ReadEach
<1> QED
  BY <1>6, <1>8 DEF S, X

-----------------------------------------------------------------------------
(* The media.                                                               *)

(* A line below the last medium.                                            *)
LEMMA BelowLast ==
    ASSUME NEW sd, NEW D, Must \subseteq D, NEW ts, NEW attrs, NEW b, IsSeq(b), NEW m,
           NEW f \in {"i", "c", "a"}, NEW y, f = "c" => y \in Addresses
    PROVE  Field(With(sd, D, ts, attrs, Append(b, m)), Line(f, y))
             = {With(sd, D, ts, attrs, Append(b, Add(m, f, y)))}
<1> DEFINE s == Append(b, m)
           x == With(sd, D, ts, attrs, s)
           new == Add(m, f, y)
<1>1. s[Len(s)] = m /\ s # <<>> /\ Changed(s, Len(s), new) = Append(b, new)
  <2> HIDE DEF new
  <2> QED
    BY LastChanged
<1>2. x.media = s /\ \A us : WithField(x, "media", us) = With(sd, D, ts, attrs, us)
  <2>1. x = With(sd, D, ts, attrs, s)
    OBVIOUS
  <2> HIDE DEF s, x
  <2> QED
    BY <2>1, WithMedia
<1> HIDE DEF s, x
<1>3. Field(x, Line(f, y)) = {Below(x, f, y)}
  BY ReadBelow
<1>4. Below(x, f, y) = WithField(x, "media", Changed(s, Len(s), Add(s[Len(s)], f, y)))
  BY <1>1, <1>2 DEF Below, WithField, Changed
<1>5. Below(x, f, y) = With(sd, D, ts, attrs, Append(b, new))
  BY <1>1, <1>2, <1>4
<1> QED
  BY <1>3, <1>5 DEF x, s, new

MediumMust == {"type", "port", "proto", "fmts", "a"}
\* The medium of which the fields in E and these attributes have been read.
Medium(m, E, xs) == [f \in E |-> IF f = "a" THEN xs ELSE m[f]]

LEMMA MediumAgain == ASSUME NEW m, IsMedium(m) PROVE Medium(m, DOMAIN m, m.a) = m
BY DEF Medium, IsMedium, HasFields
LEMMA MediumAttribute ==
    ASSUME NEW m, NEW E, MediumMust \subseteq E, NEW xs, NEW y
    PROVE  Add(Medium(m, E, xs), "a", y) = Medium(m, E, Append(xs, y))
BY DEF Medium, Add, MediumMust
LEMMA MediumAddress ==
    ASSUME NEW m, NEW E, NEW xs
    PROVE  Add(Medium(m, E, xs), "c", m.c) = Medium(m, E \cup {"c"}, xs)
BY DEF Medium, Add, Put

LEMMA ReadMediumAttributes ==
    ASSUME NEW sd, NEW D, Must \subseteq D, NEW ts, NEW attrs, NEW b, IsSeq(b),
           NEW m, NEW E, MediumMust \subseteq E, NEW xs, IsSeq(xs)
    PROVE  /\ IsSeq(Each("a", xs))
           /\ ReadFrom({With(sd, D, ts, attrs, Append(b, Medium(m, E, <<>>)))}, Each("a", xs))
                = {With(sd, D, ts, attrs, Append(b, Medium(m, E, xs)))}
<1> DEFINE n == Len(xs)
           X(u) == With(sd, D, ts, attrs, Append(b, Medium(m, E, u)))
           x == [k \in 0..n |-> X(Upto(xs, k))]
           S == {X(<<>>)}
<1>1. n \in Nat
  BY DEF IsSeq
<1>2. ASSUME NEW u, NEW y PROVE Field(X(u), Line("a", y)) = {X(Append(u, y))}
  <2>1. Field(X(u), Line("a", y))
          = {With(sd, D, ts, attrs, Append(b, Add(Medium(m, E, u), "a", y)))}
    BY BelowLast
  <2>2. Add(Medium(m, E, u), "a", y) = Medium(m, E, Append(u, y))
    BY MediumAttribute
  <2> QED
    BY <2>1, <2>2
<1> HIDE DEF X
<1>3. Upto(xs, 0) = <<>> /\ Upto(xs, n) = xs
  BY UptoNone, UptoAll
<1>4. \A k \in 0..n : x[k] = X(Upto(xs, k))
  OBVIOUS
<1> HIDE DEF x
<1>5. ASSUME NEW k \in 1..n PROVE Field(x[k - 1], Line("a", xs[k])) = {x[k]}
  <2>1. k - 1 \in Nat /\ (k - 1) + 1 = k /\ k \in 0..n /\ k - 1 \in 0..n
    BY <1>1
  <2>2. Append(Upto(xs, k - 1), xs[k]) = Upto(xs, k)
    BY <2>1, UptoNext
  <2>3. Field(X(Upto(xs, k - 1)), Line("a", xs[k])) = {X(Upto(xs, k))}
    BY <1>2, <2>2
  <2> QED
    BY <1>4, <2>1, <2>3
<1>6. S = {x[0]} /\ x[n] = X(xs)
  BY <1>1, <1>3, <1>4
<1> HIDE DEF S
<1>7. LeadsTo(x, "a", xs)
  BY <1>5 DEF LeadsTo
<1>8. IsSeq(Each("a", xs)) /\ ReadFrom(S, Each("a", xs)) = {x[Len(xs)]}
  BY <1>6, <1>7, ReadEach
<1> QED
  BY <1>6, <1>8 DEF S, X

MediumLine(m) == [f |-> "m", type |-> m.type, port |-> m.port, proto |-> m.proto, fmts |-> m.fmts]

LEMMA WithMedium ==
    ASSUME NEW sd, NEW D, Must \subseteq D, NEW ts, NEW attrs, NEW b,
           NEW m, m.type \in MediaTypes, m.proto \in Transports, m.fmts # <<>>
    PROVE  Field(With(sd, D, ts, attrs, b), MediumLine(m))
             = {With(sd, D, ts, attrs, Append(b, Medium(m, MediumMust, <<>>)))}
<1> DEFINE x == With(sd, D, ts, attrs, b)
           l == MediumLine(m)
           new == [type |-> l.type, port |-> l.port, proto |-> l.proto, fmts |-> l.fmts, a |-> <<>>]
<1>1. x.media = b /\ \A us : WithField(x, "media", us) = With(sd, D, ts, attrs, us)
  <2>1. x = With(sd, D, ts, attrs, b)
    OBVIOUS
  <2> HIDE DEF x
  <2> QED
    BY <2>1, WithMedia
<1>2. /\ l.f = "m" /\ l.type = m.type /\ l.proto = m.proto /\ "ports" \notin DOMAIN l
      /\ l.fmts = m.fmts
  BY DEF MediumLine
<1>3. new = Medium(m, MediumMust, <<>>)
  BY DEF Medium, MediumMust, MediumLine
<1> HIDE DEF x, l
<1>4. Field(x, l) = {WithField(x, "media", Append(x.media, new))}
  BY <1>2, ReadMedium DEF WithField
<1> HIDE DEF new
<1>5. Field(x, l) = {With(sd, D, ts, attrs, Append(b, new))}
  BY <1>1, <1>4
<1> QED
  BY <1>3, <1>5 DEF x, l

LEMMA ReadMediumOpt ==
    ASSUME NEW sd, NEW D, Must \subseteq D, NEW ts, NEW attrs, NEW b, IsSeq(b),
           NEW m, IsMedium(m), "i" \notin DOMAIN m
    PROVE  ReadFrom({With(sd, D, ts, attrs, Append(b, Medium(m, MediumMust, <<>>)))}, Opt(m, "c"))
             = {With(sd, D, ts, attrs, Append(b, Medium(m, DOMAIN m, <<>>)))}
<1> DEFINE X(E) == With(sd, D, ts, attrs, Append(b, Medium(m, E, <<>>)))
<1>1. MediumMust \subseteq DOMAIN m /\ DOMAIN m \subseteq MediumMust \cup {"c"}
  BY DEF IsMedium, HasFields, MediumMust
<1>2. CASE "c" \notin DOMAIN m
  <2>1. Opt(m, "c") = <<>> /\ DOMAIN m = MediumMust
    BY <1>1, <1>2 DEF Opt
  <2> QED
    BY <2>1, ReadNone
<1>3. CASE "c" \in DOMAIN m
  <2>1. Opt(m, "c") = <<Line("c", m.c)>> /\ DOMAIN m = MediumMust \cup {"c"}
    BY <1>1, <1>3 DEF Opt
  <2>2. m.c \in Addresses
    BY <1>3 DEF IsMedium
  <2>3. Field(X(MediumMust), Line("c", m.c))
          = {With(sd, D, ts, attrs, Append(b, Add(Medium(m, MediumMust, <<>>), "c", m.c)))}
    BY <2>2, BelowLast
  <2>4. Add(Medium(m, MediumMust, <<>>), "c", m.c) = Medium(m, DOMAIN m, <<>>)
    BY <2>1, MediumAddress
  <2>5. Field(X(MediumMust), Line("c", m.c)) = {X(DOMAIN m)}
    BY <2>3, <2>4
  <2> HIDE DEF X
  <2>6. ReadFrom({X(MediumMust)}, <<Line("c", m.c)>>) = {X(DOMAIN m)}
    BY <2>5, ReadLine
  <2> QED
    BY <2>1, <2>6 DEF X
<1> QED
  BY <1>2, <1>3

LEMMA ReadMediaLines ==
    ASSUME NEW sd, NEW D, Must \subseteq D, NEW ts, NEW attrs, NEW b, IsSeq(b),
           NEW m, IsMedium(m), m.type \in MediaTypes, "i" \notin DOMAIN m, m.fmts # <<>>
    PROVE  /\ IsSeq(MediaLines(m))
           /\ ReadFrom({With(sd, D, ts, attrs, b)}, MediaLines(m))
                = {With(sd, D, ts, attrs, Append(b, m))}
<1> DEFINE A == <<MediumLine(m)>>
           I == <<>>
           C == Opt(m, "c")
           E == Each("a", m.a)
           S == {With(sd, D, ts, attrs, b)}
           M == {With(sd, D, ts, attrs, Append(b, Medium(m, MediumMust, <<>>)))}
           N == {With(sd, D, ts, attrs, Append(b, Medium(m, DOMAIN m, <<>>)))}
           O == {With(sd, D, ts, attrs, Append(b, m))}
<1>1. m.proto \in Transports /\ IsSeq(m.a) /\ MediumMust \subseteq DOMAIN m
  BY DEF IsMedium, HasFields, MediumMust
<1>2. Field(With(sd, D, ts, attrs, b), MediumLine(m)) = M
  BY <1>1, WithMedium
<1>3. ReadFrom(S, A) = M
  <2> HIDE DEF M
  <2> QED
    BY <1>2, ReadLine
<1>4. ReadFrom(M, I) = M
  BY ReadNone
<1>5. ReadFrom(M, C) = N
  BY ReadMediumOpt
<1>6. ReadFrom(N, E) = O
  <2>1. ReadFrom(N, E) = {With(sd, D, ts, attrs, Append(b, Medium(m, DOMAIN m, m.a)))}
    BY <1>1, ReadMediumAttributes
  <2>2. Medium(m, DOMAIN m, m.a) = m
    BY MediumAgain
  <2> QED
    BY <2>1, <2>2
<1>7. IsSeq(A) /\ IsSeq(I) /\ IsSeq(C) /\ IsSeq(E)
  <2>1. IsSeq(A) /\ IsSeq(I)
    BY IsSeqOne, IsSeqEmpty
  <2>2. IsSeq(C)
    BY IsSeqOpt
  <2>3. IsSeq(E)
    BY <1>1, ReadMediumAttributes, IsSeqEmpty
  <2> QED
    BY <2>1, <2>2, <2>3
<1>8. MediaLines(m) = A \o I \o C \o E
  BY DEF MediaLines, MediumLine
<1> HIDE DEF A, I, C, E, S, M, N, O
<1>9. IsSeq(A \o I) /\ ReadFrom(S, A \o I) = M
  BY <1>3, <1>4, <1>7, ReadTwo
<1>10. IsSeq(A \o I \o C) /\ ReadFrom(S, A \o I \o C) = N
  BY <1>5, <1>7, <1>9, ReadTwo
<1>11. IsSeq(A \o I \o C \o E) /\ ReadFrom(S, A \o I \o C \o E) = O
  BY <1>6, <1>7, <1>10, ReadTwo
<1> QED
  BY <1>8, <1>11 DEF S, O

LEMMA ReadMedia ==
    ASSUME NEW sd, NEW D, Must \subseteq D, NEW ts, NEW attrs,
           NEW media, IsSeq(media), \A k \in 1..Len(media) : IsMedium(media[k]),
           \A k \in 1..Len(media) : Legible(media[k]),
           NEW ss, ss = [k \in DOMAIN media |-> MediaLines(media[k])]
    PROVE  ReadFrom({With(sd, D, ts, attrs, <<>>)}, FlattenSeq(ss)) = {With(sd, D, ts, attrs, media)}
<1> DEFINE n == Len(media)
           X(u) == With(sd, D, ts, attrs, u)
           x == [k \in 0..n |-> X(Upto(media, k))]
           S == {X(<<>>)}
<1>1. n \in Nat /\ DOMAIN media = 1..n
  BY Elements
<1>2. ss = [k \in 1..n |-> ss[k]] /\ \A k \in 1..n : ss[k] = MediaLines(media[k])
  BY <1>1
<1>4. IsSeq(ss) /\ Len(ss) = n
  <2> HIDE DEF n
  <2> QED
    BY <1>1, <1>2, IsSeqMap
<1>5. ASSUME NEW u, IsSeq(u), NEW k \in 1..n
      PROVE  IsSeq(ss[k]) /\ ReadFrom({X(u)}, ss[k]) = {X(Append(u, media[k]))}
  <2> DEFINE m == media[k]
  <2>1. IsMedium(m) /\ m.type \in MediaTypes /\ "i" \notin DOMAIN m /\ m.fmts # <<>>
    BY DEF Legible
  <2> HIDE DEF m
  <2>2. IsSeq(MediaLines(m)) /\ ReadFrom({X(u)}, MediaLines(m)) = {X(Append(u, m))}
    BY <1>5, <2>1, ReadMediaLines
  <2> QED
    BY <1>2, <2>2 DEF m
<1> HIDE DEF X
<1>6. \A k \in 1..n : IsSeq(ss[k])
  BY <1>5, IsSeqEmpty
<1>7. ASSUME NEW k \in 1..n PROVE ReadFrom({X(Upto(media, k - 1))}, ss[k]) = {X(Upto(media, k))}
  <2>1. k - 1 \in Nat /\ (k - 1) + 1 = k
    BY <1>1
  <2>2. Append(Upto(media, k - 1), media[k]) = Upto(media, k) /\ IsSeq(Upto(media, k - 1))
    BY <2>1, UptoNext, UptoSeq
  <2> QED
    BY <1>5, <2>2
<1>8. Upto(media, 0) = <<>> /\ Upto(media, n) = media
  BY UptoNone, UptoAll
<1>9. \A k \in 0..n : x[k] = X(Upto(media, k))
  OBVIOUS
<1> HIDE DEF x, n
<1>10. x[0] = X(<<>>) /\ x[n] = X(media)
  BY <1>1, <1>8, <1>9
<1>11. \A k \in 1..Len(ss) : ReadFrom({x[k - 1]}, ss[k]) = {x[k]}
  <2> SUFFICES ASSUME NEW k \in 1..n PROVE ReadFrom({x[k - 1]}, ss[k]) = {x[k]}
    BY <1>4
  <2>1. k \in 0..n /\ k - 1 \in 0..n
    BY <1>1
  <2> QED
    BY <1>7, <1>9, <2>1
<1>12. S = {x[0]}
  BY <1>10
<1> HIDE DEF S
<1>13. ReadFrom(S, FlattenSeq(ss)) = {x[n]}
  <2>1. \A k \in 1..Len(ss) : IsSeq(ss[k])
    BY <1>4, <1>6
  <2>2. ReadFrom(S, FlattenSeq(ss)) = {x[Len(ss)]}
    BY <1>4, <1>11, <1>12, <2>1, ReadParts
  <2> QED
    BY <1>4, <2>2
<1> QED
  BY <1>10, <1>13 DEF S, X

LEMMA MediaText ==
    ASSUME NEW media, IsSeq(media), \A k \in 1..Len(media) : IsMedium(media[k]),
           NEW ss, ss = [k \in DOMAIN media |-> MediaLines(media[k])]
    PROVE  IsText(FlattenSeq(ss))
<1>1. Len(media) \in Nat /\ DOMAIN media = 1..Len(media)
  BY Elements
<1>2. ss = [k \in 1..Len(media) |-> ss[k]] /\ \A k \in 1..Len(media) : ss[k] = MediaLines(media[k])
  BY <1>1
<1>3. IsSeq(ss) /\ Len(ss) = Len(media)
  BY <1>1, <1>2, IsSeqMap
<1>4. \A k \in 1..Len(ss) : IsText(ss[k])
  BY <1>2, <1>3, MediaLinesText
<1> QED
  BY <1>3, <1>4, FlattenText

LEMMA ReadBack ==
    ASSUME NEW sd, IsDescription(sd), \A k \in 1..Len(sd.media) : Legible(sd.media[k])
    PROVE  Parse(Write(sd)) = {sd}
<1> DEFINE H == Header(sd)
           T == TimeLines(sd.t)
           E == Each("a", sd.a)
           ss == [k \in DOMAIN sd.media |-> MediaLines(sd.media[k])]
           G == FlattenSeq(ss)
           X(ts, attrs, ms) == {With(sd, DOMAIN sd, ts, attrs, ms)}
           S == {Default}
<1>1. /\ IsSeq(sd.t) /\ \A k \in 1..Len(sd.t) : IsTime(sd.t[k])
      /\ IsSeq(sd.a) /\ IsSeq(sd.media) /\ \A k \in 1..Len(sd.media) : IsMedium(sd.media[k])
  BY DEF IsDescription
<1>2. Must \subseteq DOMAIN sd /\ IsSeq(H) /\ ReadFrom(S, H) = X(<<>>, <<>>, <<>>)
  BY ReadHeaders DEF ReadsTo
<1>3. ReadFrom(X(<<>>, <<>>, <<>>), T) = X(sd.t, <<>>, <<>>)
  BY <1>1, <1>2, ReadTimes
<1>4. IsSeq(E) /\ ReadFrom(X(sd.t, <<>>, <<>>), E) = X(sd.t, sd.a, <<>>)
  BY <1>1, <1>2, ReadAttributes
<1>5. ReadFrom(X(sd.t, sd.a, <<>>), G) = X(sd.t, sd.a, sd.media)
  <2>1. ss = [k \in DOMAIN sd.media |-> MediaLines(sd.media[k])]
    OBVIOUS
  <2> HIDE DEF ss
  <2> QED
    BY <1>1, <1>2, <2>1, ReadMedia
<1>6. IsSeq(T)
  <2>1. \A k \in 1..Len(sd.t) : IsSeq(sd.t[k].r)
    BY <1>1 DEF IsTime
  <2>2. IsText(T)
    BY <1>1, <2>1, TimeLinesText
  <2> QED
    BY <2>2 DEF IsText
<1>7. IsSeq(G)
  <2>1. ss = [k \in DOMAIN sd.media |-> MediaLines(sd.media[k])]
    OBVIOUS
  <2> HIDE DEF ss
  <2>2. IsText(G)
    BY <1>1, <2>1, MediaText
  <2> QED
    BY <2>2 DEF IsText
<1>8. X(sd.t, sd.a, sd.media) = {sd}
  BY WithAll
<1>9. Write(sd) = H \o T \o E \o G
  BY DEF Write, Header
<1> HIDE DEF H, T, E, G, X, S
<1>10. IsSeq(H \o T) /\ ReadFrom(S, H \o T) = X(sd.t, <<>>, <<>>)
  BY <1>2, <1>3, <1>6, ReadTwo
<1>11. IsSeq(H \o T \o E) /\ ReadFrom(S, H \o T \o E) = X(sd.t, sd.a, <<>>)
  BY <1>4, <1>10, ReadTwo
<1>12. ReadFrom(S, H \o T \o E \o G) = X(sd.t, sd.a, sd.media)
  BY <1>5, <1>7, <1>11, ReadTwo
<1>13. Parse(Write(sd)) = ReadFrom(S, Write(sd))
  BY DEF Parse, S
<1> QED
  BY <1>8, <1>9, <1>12, <1>13

-----------------------------------------------------------------------------
(* What is not read back.                                                   *)

(* The media have these types and fields, and a format.                     *)
Has(m, Ts, Fs) == m.type \in Ts /\ DOMAIN m \subseteq Fs /\ m.fmts # <<>>
MediaIn(sd, Ts, Fs) ==
    /\ IsDescription(sd)
    /\ \A k \in 1..Len(sd.media) : Has(sd.media[k], Ts, Fs)

(* What the text does not bring, the media do not have.                     *)
Brings(l, Ts, Fs) ==
    /\ IsLine(l)
    /\ l.f = "m" => MediaTypes \subseteq Ts /\ MediumMust \subseteq Fs
    /\ l.f \in {"i", "c"} => Ts = {} \/ l.f \in Fs

LEMMA AddFields ==
    ASSUME NEW m, IsMedium(m), NEW f \in {"i", "c", "a"}, NEW x, NEW Fs, DOMAIN m \subseteq Fs,
           f \in {"i", "c"} => f \in Fs
    PROVE  /\ Add(m, f, x).type = m.type /\ DOMAIN Add(m, f, x) \subseteq Fs
           /\ Add(m, f, x).fmts = m.fmts
BY DEF IsMedium, HasFields, Add, Put

LEMMA BelowMedia ==
    ASSUME NEW sd, NEW Ts, NEW Fs, MediaIn(sd, Ts, Fs), NEW f \in {"i", "c", "a"}, NEW x,
           f = "c" => x \in Addresses, f \in {"i", "c"} => Ts = {} \/ f \in Fs
    PROVE  MediaIn(Below(sd, f, x), Ts, Fs)
<1> DEFINE r == Below(sd, f, x)
           n == Len(sd.media)
           y == Add(sd.media[n], f, x)
<1>1. IsDescription(r) /\ IsDescription(sd)
  BY BelowDescription DEF MediaIn
<1>2. {"o", "s", "t", "a", "media"} \subseteq DOMAIN sd /\ IsSeq(sd.media)
      /\ \A k \in 1..n : IsMedium(sd.media[k])
  BY <1>1 DEF IsDescription, HasFields
<1>3. n \in Nat /\ DOMAIN sd.media = 1..n
  BY <1>2, Elements
<1>4. CASE sd.media = <<>>
  <2>1. r.media = sd.media
    BY <1>2, <1>4 DEF Below, Add, Put
  <2> HIDE DEF r
  <2>2. MediaIn(r, Ts, Fs)
    BY <1>1, <2>1 DEF MediaIn
  <2> QED
    BY <2>2 DEF r
<1>5. CASE sd.media # <<>>
  <2>1. r.media = [k \in 1..n |-> IF k = n THEN y ELSE sd.media[k]]
    BY <1>2, <1>3, <1>5 DEF Below
  <2> HIDE DEF y
  <2>2. Len(r.media) = n
    <3> HIDE DEF r, n
    <3>1. r.media = [k \in 1..n |-> r.media[k]]
      BY <2>1
    <3> QED
      BY <1>3, <3>1, IsSeqMap
  <2>3. ASSUME NEW k \in 1..n PROVE Has(r.media[k], Ts, Fs)
    <3>1. Has(sd.media[k], Ts, Fs)
      BY DEF MediaIn
    <3>2. CASE k # n
      <4>1. r.media[k] = sd.media[k]
        BY <2>1, <3>2
      <4> QED
        BY <3>1, <4>1
    <3>3. CASE k = n
      <4>1. r.media[k] = y
        BY <2>1, <3>3
      <4>2. Ts # {}
        BY <3>1 DEF Has
      <4>3. y.type = sd.media[k].type /\ DOMAIN y \subseteq Fs /\ y.fmts = sd.media[k].fmts
        BY <1>2, <3>1, <3>3, <4>2, AddFields DEF y, Has
      <4> QED
        BY <3>1, <4>1, <4>3 DEF Has
    <3> QED
      BY <3>2, <3>3
  <2> HIDE DEF r
  <2>4. MediaIn(r, Ts, Fs)
    BY <1>1, <2>2, <2>3 DEF MediaIn
  <2> QED
    BY <2>4 DEF r
<1> QED
  BY <1>4, <1>5

LEMMA FieldMedia ==
    ASSUME NEW sd, NEW Ts, NEW Fs, MediaIn(sd, Ts, Fs), NEW l, Brings(l, Ts, Fs),
           NEW r \in Field(sd, l)
    PROVE  MediaIn(r, Ts, Fs)
<1>1. IsDescription(sd) /\ IsLine(l)
  BY DEF MediaIn, Brings
<1>2. IsDescription(r)
  BY <1>1, FieldDescription
<1>3. {"o", "s", "t", "a", "media"} \subseteq DOMAIN sd /\ IsSeq(sd.media)
  BY <1>1 DEF IsDescription, HasFields
<1>4. CASE l.f = "m"
  <2>1. PICK m \in Media(l) : r = [sd EXCEPT !.media = Append(sd.media, m)]
    BY <1>4 DEF Field
  <2>2. m.type \in MediaTypes /\ DOMAIN m = MediumMust /\ m.fmts # <<>>
    BY DEF Media, When, MediumMust
  <2>3. Has(m, Ts, Fs)
    BY <1>4, <2>2 DEF Brings, Has
  <2>4. r.media = Append(sd.media, m)
    BY <1>3, <2>1
  <2>5. /\ Len(r.media) = Len(sd.media) + 1 /\ Len(sd.media) \in Nat
        /\ \A k \in 1..Len(sd.media) : r.media[k] = sd.media[k]
        /\ r.media[Len(sd.media) + 1] = m
    BY <1>3, <2>4, IsSeqAppend DEF IsSeq
  <2>6. ASSUME NEW k \in 1..Len(r.media) PROVE Has(r.media[k], Ts, Fs)
    <3>1. CASE k = Len(sd.media) + 1
      BY <2>3, <2>5, <3>1
    <3>2. CASE k # Len(sd.media) + 1
      <4>1. k \in 1..Len(sd.media)
        BY <2>5, <3>2
      <4>2. r.media[k] = sd.media[k]
        BY <2>5, <4>1
      <4> QED
        BY <4>1, <4>2 DEF MediaIn
    <3> QED
      BY <3>1, <3>2
  <2> QED
    BY <1>2, <2>6 DEF MediaIn
<1>5. CASE l.f # "m"
  <2> DEFINE Then ==
               CASE l.f \in {"o", "s", "u", "e", "p"} -> Put(sd, l.f, l.x)
                 [] l.f \in {"i", "c", "a"} -> Below(sd, l.f, l.x)
                 [] l.f = "t" -> [sd EXCEPT !.t = Append(@, [t |-> l.x, r |-> <<>>])]
                 [] l.f = "r" -> [sd EXCEPT !.t[Len(sd.t)].r = Append(@, l.x)]
                 [] OTHER -> sd
  <2>1. r = Then /\ Readable(l)
    BY <1>5 DEF Field, When
  <2>2. CASE l.f \in {"i", "c", "a"}
    <3>1. r = Below(sd, l.f, l.x)
      BY <2>1, <2>2
    <3>2. l.f = "c" => l.x \in Addresses
      BY <2>1 DEF Readable
    <3>3. l.f \in {"i", "c"} => Ts = {} \/ l.f \in Fs
      BY DEF Brings
    <3> QED
      BY <2>2, <3>1, <3>2, <3>3, BelowMedia
  <2>3. CASE l.f \notin {"i", "c", "a"}
    <3>1. r.media = sd.media
      <4>1. CASE l.f \in {"o", "s", "u", "e", "p"}
        <5>1. r = Put(sd, l.f, l.x)
          BY <2>1, <4>1
        <5> QED
          BY <1>3, <4>1, <5>1 DEF Put
      <4>2. CASE l.f = "t"
        <5>1. r = [sd EXCEPT !.t = Append(sd.t, [t |-> l.x, r |-> <<>>])]
          BY <2>1, <4>2
        <5> QED
          BY <1>3, <5>1
      <4>3. CASE l.f = "r"
        <5>1. r = [sd EXCEPT !.t[Len(sd.t)].r = Append(@, l.x)]
          BY <2>1, <4>3
        <5> QED
          BY <1>3, <5>1
      <4>4. CASE l.f \notin {"o", "s", "u", "e", "p", "i", "c", "a", "t", "r"}
        <5>1. r = sd
          BY <2>1, <4>4
        <5> QED
          BY <5>1
      <4> QED
        BY <2>3, <4>1, <4>2, <4>3, <4>4
    <3> QED
      BY <1>2, <3>1 DEF MediaIn
  <2> QED
    BY <2>2, <2>3
<1> QED
  BY <1>4, <1>5

AllIn(S, Ts, Fs) == \A sd \in S : MediaIn(sd, Ts, Fs)
AllBring(text, Ts, Fs) == IsSeq(text) /\ \A k \in 1..Len(text) : Brings(text[k], Ts, Fs)

LEMMA ReadMediaIn ==
    ASSUME NEW text, NEW Ts, NEW Fs, AllBring(text, Ts, Fs), NEW S, AllIn(S, Ts, Fs)
    PROVE  AllIn(ReadFrom(S, text), Ts, Fs)
<1>1. Len(text) \in Nat
  BY DEF AllBring, IsSeq
<1>2. PICK f : /\ ReadFrom(S, text) = f[Len(text)] /\ f[0] = S
               /\ \A k \in 1..Len(text) : f[k] = Round(f[k - 1], text[k])
  BY <1>1, ReadSteps
<1> DEFINE P(n) == AllIn(f[n], Ts, Fs)
           T == {n \in Nat : n <= Len(text) => P(n)}
<1>3. 0 \in T
  BY <1>2
<1>4. ASSUME NEW n \in Nat, n \in T PROVE n + 1 \in T
  <2> SUFFICES ASSUME n + 1 <= Len(text) PROVE P(n + 1)
    OBVIOUS
  <2>1. n + 1 \in 1..Len(text) /\ P(n) /\ (n + 1) - 1 = n
    BY <1>1, <1>4
  <2>2. f[n + 1] = Round(f[n], text[n + 1])
    BY <1>2, <2>1
  <2> SUFFICES ASSUME NEW r \in f[n + 1] PROVE MediaIn(r, Ts, Fs)
    BY DEF AllIn
  <2>3. PICK sd \in f[n] : r \in Field(sd, text[n + 1])
    BY <2>2 DEF Round
  <2> QED
    BY <2>1, <2>3, FieldMedia DEF AllIn, AllBring
<1>5. Len(text) \in T
  <2> HIDE DEF T
  <2> QED
    BY <1>1, <1>3, <1>4, NatSetInduction
<1> QED
  BY <1>1, <1>2, <1>5

(* A text without the title of anything.                                    *)
Untitled(s) == IsText(s) /\ \A k \in 1..Len(s) : s[k].f # "i"

LEMMA ConcatUntitled ==
    ASSUME NEW s, Untitled(s), NEW t, Untitled(t) PROVE Untitled(s \o t)
<1>1. IsText(s \o t)
  BY ConcatText DEF Untitled
<1>2. \A k \in 1..Len(s \o t) : \/ \E i \in 1..Len(s) : (s \o t)[k] = s[i]
                                \/ \E i \in 1..Len(t) : (s \o t)[k] = t[i]
  BY IsSeqConcat DEF Untitled, IsText
<1>3. ASSUME NEW k \in 1..Len(s \o t) PROVE (s \o t)[k].f # "i"
  <2> DEFINE l == (s \o t)[k]
  <2>1. (\E i \in 1..Len(s) : l = s[i]) \/ (\E i \in 1..Len(t) : l = t[i])
    BY <1>2
  <2> HIDE DEF l
  <2>2. l.f # "i"
    BY <2>1 DEF Untitled
  <2> QED
    BY <2>2 DEF l
<1> QED
  BY <1>1, <1>3 DEF Untitled

LEMMA FlattenUntitled ==
    ASSUME NEW ss, IsSeq(ss), \A i \in 1..Len(ss) : Untitled(ss[i]) PROVE Untitled(FlattenSeq(ss))
<1> DEFINE S == {ss[p[1]][p[2]] : p \in {q \in (1..Len(ss)) \X Nat : q[2] \in 1..Len(ss[q[1]])}}
<1>1. \A i \in 1..Len(ss) : IsSeq(ss[i]) /\ \A k \in 1..Len(ss[i]) : ss[i][k].f # "i"
  BY DEF Untitled, IsText
<1>2. ASSUME NEW i \in 1..Len(ss), NEW k \in 1..Len(ss[i]) PROVE ss[i][k] \in S
  <2>1. <<i, k>> \in {q \in (1..Len(ss)) \X Nat : q[2] \in 1..Len(ss[q[1]])}
    OBVIOUS
  <2> QED
    BY <2>1
<1>3. ASSUME NEW x \in S PROVE x.f # "i"
  BY <1>1
<1> HIDE DEF S
<1>4. \A k \in 1..Len(FlattenSeq(ss)) : FlattenSeq(ss)[k] \in S
  BY <1>1, <1>2, FlattenOver
<1>5. IsText(FlattenSeq(ss))
  BY FlattenText DEF Untitled
<1> QED
  BY <1>3, <1>4, <1>5 DEF Untitled

LEMMA EachUntitled ==
    ASSUME NEW f, f \notin {"m", "i"}, NEW xs, IsSeq(xs) PROVE Untitled(Each(f, xs))
<1> DEFINE e == Each(f, xs)
<1>1. Len(xs) \in Nat /\ DOMAIN xs = 1..Len(xs)
  BY Elements
<1>2. e = [k \in 1..Len(xs) |-> e[k]] /\ \A k \in 1..Len(xs) : e[k] = Line(f, xs[k])
  BY <1>1 DEF Each
<1>3. IsText(e)
  BY EachText
<1> HIDE DEF e
<1>4. Len(e) = Len(xs)
  BY <1>1, <1>2, IsSeqMap
<1>5. \A k \in 1..Len(e) : e[k].f # "i"
  BY <1>2, <1>4 DEF Line
<1>6. Untitled(e)
  BY <1>3, <1>5 DEF Untitled
<1> QED
  BY <1>6 DEF e

LEMMA NoneUntitled == Untitled(<<>>)
<1> DEFINE s == <<>>
<1>1. IsText(s) /\ Len(s) = 0
  BY NoText
<1> HIDE DEF s
<1>2. Untitled(s)
  BY <1>1 DEF Untitled
<1> QED
  BY <1>2 DEF s
LEMMA OneUntitled == ASSUME NEW l, IsLine(l), l.f # "i" PROVE Untitled(<<l>>)
<1> DEFINE s == <<l>>
<1>1. IsText(s) /\ Len(s) = 1 /\ s[1] = l
  BY OneText, IsSeqOne
<1> HIDE DEF s
<1>2. Untitled(s)
  BY <1>1 DEF Untitled
<1> QED
  BY <1>2 DEF s
LEMMA OptUntitled == ASSUME NEW r, NEW f, f \notin {"m", "i"} PROVE Untitled(Opt(r, f))
<1>1. IsLine(Line(f, r[f])) /\ Line(f, r[f]).f # "i"
  BY DEF IsLine, Line
<1>2. Untitled(<<Line(f, r[f])>>)
  BY <1>1, OneUntitled
<1> QED
  BY <1>2, NoneUntitled DEF Opt

LEMMA TimesUntitled ==
    ASSUME NEW ts, IsSeq(ts), \A k \in 1..Len(ts) : IsSeq(ts[k].r) PROVE Untitled(TimeLines(ts))
<1> DEFINE ss == [k \in DOMAIN ts |-> TimeBlock(ts[k])]
<1>1. Len(ts) \in Nat /\ DOMAIN ts = 1..Len(ts)
  BY Elements
<1>2. ASSUME NEW k \in 1..Len(ts) PROVE Untitled(TimeBlock(ts[k]))
  <2>1. Untitled(Each("r", ts[k].r))
    BY EachUntitled
  <2>2. Untitled(<<Line("t", ts[k].t)>>)
    BY OneUntitled DEF IsLine, Line
  <2> QED
    BY <2>1, <2>2, ConcatUntitled DEF TimeBlock
<1>3. ss = [k \in 1..Len(ts) |-> ss[k]] /\ \A k \in 1..Len(ts) : ss[k] = TimeBlock(ts[k])
  BY <1>1
<1>4. TimeLines(ts) = FlattenSeq(ss)
  BY DEF TimeLines, TimeBlock
<1> HIDE DEF ss
<1>5. IsSeq(ss) /\ Len(ss) = Len(ts)
  BY <1>1, <1>3, IsSeqMap
<1>6. Untitled(FlattenSeq(ss))
  BY <1>2, <1>3, <1>5, FlattenUntitled
<1> QED
  BY <1>4, <1>6

\* The title of a medium is not written as one.
LEMMA MediumUntitled == ASSUME NEW m, IsMedium(m) PROVE Untitled(MediaLines(m))
<1> DEFINE l == MediumLine(m)
           title == IF "i" \in DOMAIN m THEN <<Line("t", m.i)>> ELSE <<>>
           A == <<l>>
           C == Opt(m, "c")
           E == Each("a", m.a)
<1>1. Untitled(A)
  <2>1. IsLine(l) /\ l.f # "i"
    BY DEF IsLine, IsMedium, MediumLine
  <2> HIDE DEF l
  <2> QED
    BY <2>1, OneUntitled
<1>2. Untitled(title)
  <2>1. Untitled(<<Line("t", m.i)>>)
    BY OneUntitled DEF IsLine, Line
  <2> QED
    BY <2>1, NoneUntitled
<1>3. Untitled(C)
  BY OptUntitled
<1>4. Untitled(E)
  BY EachUntitled DEF IsMedium
<1>5. MediaLines(m) = A \o title \o C \o E
  BY DEF MediaLines, MediumLine
<1> HIDE DEF A, C, E, title
<1>6. Untitled(A \o title)
  BY <1>1, <1>2, ConcatUntitled
<1>7. Untitled(A \o title \o C)
  BY <1>3, <1>6, ConcatUntitled
<1> QED
  BY <1>4, <1>5, <1>7, ConcatUntitled

LEMMA MediaUntitled ==
    ASSUME NEW media, IsSeq(media), \A k \in 1..Len(media) : IsMedium(media[k]),
           NEW ss, ss = [k \in DOMAIN media |-> MediaLines(media[k])]
    PROVE  Untitled(FlattenSeq(ss))
<1>1. Len(media) \in Nat /\ DOMAIN media = 1..Len(media)
  BY Elements
<1>2. ss = [k \in 1..Len(media) |-> ss[k]] /\ \A k \in 1..Len(media) : ss[k] = MediaLines(media[k])
  BY <1>1
<1>3. IsSeq(ss) /\ Len(ss) = Len(media)
  BY <1>1, <1>2, IsSeqMap
<1>4. \A k \in 1..Len(ss) : Untitled(ss[k])
  BY <1>2, <1>3, MediumUntitled
<1> QED
  BY <1>3, <1>4, FlattenUntitled

(* What can be written and read again of the media.                         *)
Again == MediumMust \cup {"c"}
Seen(s) == IsSeq(s) /\ AllIn(ReadFrom({Default}, s), MediaTypes, Again)

LEMMA SeenMore == ASSUME NEW s, Seen(s), NEW t, Untitled(t) PROVE Seen(s \o t)
<1>1. AllBring(t, MediaTypes, Again)
  BY DEF Untitled, IsText, AllBring, Brings, Again
<1> DEFINE S == {Default}
<1>2. IsSeq(s) /\ AllIn(ReadFrom(S, s), MediaTypes, Again) /\ IsSeq(t)
  BY DEF Seen, Untitled, IsText
<1> HIDE DEF S
<1>3. AllIn(ReadFrom(ReadFrom(S, s), t), MediaTypes, Again)
  BY <1>1, <1>2, ReadMediaIn
<1>4. IsSeq(s \o t) /\ ReadFrom(S, s \o t) = ReadFrom(ReadFrom(S, s), t)
  BY <1>2, ReadConcat, IsSeqConcat
<1> QED
  BY <1>3, <1>4 DEF Seen, S

(* The lines up to the title of the session have no media.                  *)
LEMMA SeenTitle ==
    ASSUME NEW sd PROVE Seen(<<Line("v", "0"), Line("o", sd.o), Line("s", sd.s)>> \o Opt(sd, "i"))
<1> DEFINE A == <<Line("v", "0"), Line("o", sd.o), Line("s", sd.s)>>
           I == Opt(sd, "i")
           S == {Default}
<1>1. IsSeq(A) /\ AllBring(A, {}, {})
  <2>1. /\ Len(A) = 3 /\ A[1] = Line("v", "0") /\ A[2] = Line("o", sd.o) /\ A[3] = Line("s", sd.s)
        /\ A = [k \in 1..3 |-> A[k]]
    OBVIOUS
  <2> HIDE DEF A
  <2>2. IsSeq(A)
    BY <2>1 DEF IsSeq
  <2>3. \A k \in 1..3 : Brings(A[k], {}, {})
    BY <2>1 DEF Brings, IsLine, Line
  <2> QED
    BY <2>1, <2>2, <2>3 DEF AllBring
<1>2. IsSeq(I) /\ AllBring(I, {}, {})
  <2>1. Brings(Line("i", sd.i), {}, {})
    BY DEF Brings, IsLine, Line
  <2>2. AllBring(<<>>, {}, {})
    BY IsSeqEmpty DEF AllBring
  <2>3. AllBring(<<Line("i", sd.i)>>, {}, {})
    <3> DEFINE l == Line("i", sd.i)
               s == <<l>>
    <3>1. IsSeq(s) /\ Len(s) = 1 /\ s[1] = l
      BY IsSeqOne
    <3> HIDE DEF s, l
    <3>2. AllBring(s, {}, {})
      BY <2>1, <3>1 DEF AllBring, l
    <3> QED
      BY <3>2 DEF s, l
  <2>4. AllBring(I, {}, {})
    BY <2>2, <2>3 DEF Opt
  <2> QED
    BY <2>4 DEF AllBring
<1>3. AllIn(S, {}, {})
  <2>1. IsDescription(Default) /\ Len(Default.media) = 0
    BY DefaultDescription, IsSeqEmpty DEF Default
  <2> QED
    BY <2>1 DEF AllIn, MediaIn
<1> DEFINE None == {}
<1> HIDE DEF A, I, S, None
<1>4. AllIn(ReadFrom(S, A), None, None)
  BY <1>1, <1>3, ReadMediaIn DEF None
<1>5. AllIn(ReadFrom(ReadFrom(S, A), I), None, None)
  BY <1>2, <1>4, ReadMediaIn DEF None
<1>6. IsSeq(A \o I) /\ ReadFrom(S, A \o I) = ReadFrom(ReadFrom(S, A), I)
  BY <1>1, <1>2, ReadConcat, IsSeqConcat
<1>7. AllIn(ReadFrom(S, A \o I), MediaTypes, Again)
  BY <1>5, <1>6 DEF AllIn, MediaIn, Has, None
<1> QED
  BY <1>6, <1>7 DEF Seen, A, I, S

LEMMA WriteSeen == ASSUME NEW sd, IsDescription(sd) PROVE Seen(Write(sd))
<1> DEFINE A == <<Line("v", "0"), Line("o", sd.o), Line("s", sd.s)>> \o Opt(sd, "i")
           U == Opt(sd, "u")
           X == Opt(sd, "e")
           P == Opt(sd, "p")
           C == Opt(sd, "c")
           T == TimeLines(sd.t)
           E == Each("a", sd.a)
           ss == [k \in DOMAIN sd.media |-> MediaLines(sd.media[k])]
           G == FlattenSeq(ss)
<1>1. Seen(A)
  BY SeenTitle
<1>2. Untitled(U) /\ Untitled(X) /\ Untitled(P) /\ Untitled(C)
  BY OptUntitled
<1>3. Untitled(T)
  <2>1. IsSeq(sd.t) /\ \A k \in 1..Len(sd.t) : IsSeq(sd.t[k].r)
    BY DEF IsDescription, IsTime
  <2> QED
    BY <2>1, TimesUntitled
<1>4. Untitled(E)
  BY EachUntitled DEF IsDescription
<1>5. Untitled(G)
  <2>1. IsSeq(sd.media) /\ \A k \in 1..Len(sd.media) : IsMedium(sd.media[k])
    BY DEF IsDescription
  <2>2. ss = [k \in DOMAIN sd.media |-> MediaLines(sd.media[k])]
    OBVIOUS
  <2> HIDE DEF ss
  <2> QED
    BY <2>1, <2>2, MediaUntitled
<1>6. Write(sd) = A \o U \o X \o P \o C \o T \o E \o G
  BY DEF Write
<1> HIDE DEF A, U, X, P, C, T, E, G
<1>7. Seen(A \o U)
  BY <1>1, <1>2, SeenMore
<1>8. Seen(A \o U \o X)
  BY <1>2, <1>7, SeenMore
<1>9. Seen(A \o U \o X \o P)
  BY <1>2, <1>8, SeenMore
<1>10. Seen(A \o U \o X \o P \o C)
  BY <1>2, <1>9, SeenMore
<1>11. Seen(A \o U \o X \o P \o C \o T)
  BY <1>3, <1>10, SeenMore
<1>12. Seen(A \o U \o X \o P \o C \o T \o E)
  BY <1>4, <1>11, SeenMore
<1>13. Seen(A \o U \o X \o P \o C \o T \o E \o G)
  BY <1>5, <1>12, SeenMore
<1> QED
  BY <1>6, <1>13

(* A description is read back from its text as the same description if, and *)
(* only if, its media have no title, are not an application and have a      *)
(* format: Display of SessionDescription and SdpParser against each other.  *)
THEOREM WrittenIsReadBack ==
    ASSUME NEW sd, IsDescription(sd)
    PROVE  (Parse(Write(sd)) = {sd}) <=> \A k \in DOMAIN sd.media : Legible(sd.media[k])
<1>1. DOMAIN sd.media = 1..Len(sd.media)
  BY Elements DEF IsDescription
<1>2. ASSUME \A k \in 1..Len(sd.media) : Legible(sd.media[k])
      PROVE  Parse(Write(sd)) = {sd}
  BY <1>2, ReadBack
<1>3. ASSUME Parse(Write(sd)) = {sd}, NEW k \in 1..Len(sd.media)
      PROVE  Legible(sd.media[k])
  <2>1. AllIn(Parse(Write(sd)), MediaTypes, Again)
    BY WriteSeen DEF Seen, Parse
  <2>2. MediaIn(sd, MediaTypes, Again)
    BY <1>3, <2>1 DEF AllIn
  <2>3. "i" \notin Again
    BY DEF Again, MediumMust
  <2> QED
    BY <2>2, <2>3 DEF MediaIn, Has, Legible
<1> QED
  BY <1>1, <1>2, <1>3

================================================================================
