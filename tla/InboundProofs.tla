--------------------------- MODULE InboundProofs ---------------------------
(***************************************************************************)
(* What holds of the stream from a peer to the users of the transport for  *)
(* every set of messages, every length of the stream and every cut of it.  *)
(* The inductive invariant says what the text that is not taken in yet is  *)
(* made of; the rest is what the decoder finds at the front of such text.  *)
(***************************************************************************)
EXTENDS Inbound, SequenceTheorems, TLAPS

(* Texts by their atoms. *)
LEMMA Ends ==
    /\ CRLF \in Text /\ Len(CRLF) = 2 /\ CRLF[1] = "\r" /\ CRLF[2] = "\n"
    /\ Ping \in Text /\ Len(Ping) = 4
    /\ Ping[1] = "\r" /\ Ping[2] = "\n" /\ Ping[3] = "\r" /\ Ping[4] = "\n"
<1>1. CRLF \in Text
  BY AtomAssumption DEF CRLF, NewLine, Text
<1>2. Len(CRLF) = 2 /\ CRLF[1] = "\r" /\ CRLF[2] = "\n"
  BY DEF CRLF
<1>3. /\ CRLF \o CRLF \in Text /\ Len(CRLF \o CRLF) = 4
      /\ \A i \in 1..4 : (CRLF \o CRLF)[i] = IF i <= 2 THEN CRLF[i] ELSE CRLF[i - 2]
  <2>1. /\ CRLF \o CRLF \in Text /\ Len(CRLF \o CRLF) = Len(CRLF) + Len(CRLF)
        /\ \A i \in 1..(Len(CRLF) + Len(CRLF)) :
             (CRLF \o CRLF)[i] = IF i <= Len(CRLF) THEN CRLF[i] ELSE CRLF[i - Len(CRLF)]
    BY <1>1, ConcatProperties DEF Text
  <2> QED
    BY <1>2, <2>1
<1>4. /\ (CRLF \o CRLF)[1] = CRLF[1] /\ (CRLF \o CRLF)[2] = CRLF[2]
      /\ (CRLF \o CRLF)[3] = CRLF[1] /\ (CRLF \o CRLF)[4] = CRLF[2]
  BY <1>3
<1> QED
  BY <1>1, <1>2, <1>3, <1>4 DEF Ping

(* A part of a text, atom by atom.                                          *)
LEMMA PartOf ==
    ASSUME NEW s \in Text, NEW i \in 1..(Len(s) + 1), NEW j \in 0..Len(s), i <= j + 1
    PROVE  /\ SubSeq(s, i, j) \in Text /\ Len(SubSeq(s, i, j)) = j - i + 1
           /\ \A k \in 1..(j - i + 1) : SubSeq(s, i, j)[k] = s[i + k - 1]
<1>1. \A k \in i..j : s[k] \in Atom
  BY ElementOfSeq DEF Text
<1> QED
  BY <1>1, SubSeqProperties DEF Text

(* Two texts, one behind the other.                                         *)
LEMMA Joined ==
    ASSUME NEW s \in Text, NEW t \in Text
    PROVE  /\ s \o t \in Text /\ Len(s \o t) = Len(s) + Len(t)
           /\ \A k \in 1..Len(s) : (s \o t)[k] = s[k]
           /\ \A k \in 1..Len(t) : (s \o t)[Len(s) + k] = t[k]
BY ConcatProperties, LenProperties DEF Text

(* Texts of the same atoms are equal.                                       *)
LEMMA SameText ==
    ASSUME NEW s \in Text, NEW t \in Text, Len(s) = Len(t), \A k \in 1..Len(s) : s[k] = t[k]
    PROVE  s = t
BY SeqEqual DEF Text

(* Only the empty text has no atoms.                                        *)
LEMMA TextLen == ASSUME NEW s \in Text PROVE Len(s) \in Nat /\ (s = <<>> <=> Len(s) = 0)
<1>1. Len(s) \in Nat
  BY LenProperties DEF Text
<1>2. s = <<>> => Len(s) = 0
  BY EmptySeq
<1>3. s # <<>> => Len(s) # 0
  BY EmptySeq DEF Text
<1> QED
  BY <1>1, <1>2, <1>3

(* A text begins with a line end, has an empty line at i, begins with a    *)
(* ping: what its atoms are.                                                *)
LEMMA StartsPong ==
    ASSUME NEW s \in Text
    PROVE  Starts(s, Pong) <=> Len(s) >= 2 /\ s[1] = "\r" /\ s[2] = "\n"
<1>1. ASSUME Len(s) >= 2 PROVE SubSeq(s, 1, 2) = CRLF <=> s[1] = "\r" /\ s[2] = "\n"
  <2>1. /\ SubSeq(s, 1, 2) \in Text /\ Len(SubSeq(s, 1, 2)) = 2
        /\ \A k \in 1..2 : SubSeq(s, 1, 2)[k] = s[k]
    BY <1>1, PartOf, TextLen
  <2>2. SubSeq(s, 1, 2)[1] = s[1] /\ SubSeq(s, 1, 2)[2] = s[2]
    BY <2>1
  <2>3. ASSUME s[1] = "\r", s[2] = "\n" PROVE SubSeq(s, 1, 2) = CRLF
    <3> DEFINE t == SubSeq(s, 1, 2)
    <3>1. t \in Text /\ Len(t) = 2 /\ t[1] = CRLF[1] /\ t[2] = CRLF[2]
      BY <2>1, <2>2, <2>3, Ends
    <3> HIDE DEF t
    <3>2. \A k \in 1..2 : t[k] = CRLF[k]
      BY <3>1
    <3>3. t = CRLF
      BY <3>1, <3>2, Ends, SameText
    <3> QED
      BY <3>3 DEF t
  <2> QED
    BY <2>2, <2>3, Ends
<1> QED
  BY <1>1, Ends DEF Starts, Pong

LEMMA EmptyLine ==
    ASSUME NEW s \in Text, NEW i \in 1..Len(s)
    PROVE  EmptyAt(s, i) <=> /\ i + 3 <= Len(s)
                             /\ s[i] = "\r" /\ s[i + 1] = "\n" /\ s[i + 2] = "\r" /\ s[i + 3] = "\n"
<1>1. ASSUME i + 3 <= Len(s)
      PROVE SubSeq(s, i, i + 3) = Ping <=> s[i] = "\r" /\ s[i + 1] = "\n" /\ s[i + 2] = "\r" /\ s[i + 3] = "\n"
  <2> DEFINE t == SubSeq(s, i, i + 3)
  <2>1. /\ t \in Text /\ Len(t) = 4
        /\ \A k \in 1..4 : t[k] = s[i + k - 1]
    BY <1>1, PartOf, TextLen
  <2>2. t[1] = s[i] /\ t[2] = s[i + 1] /\ t[3] = s[i + 2] /\ t[4] = s[i + 3]
    BY <2>1, TextLen
  <2> HIDE DEF t
  <2>3. ASSUME s[i] = "\r", s[i + 1] = "\n", s[i + 2] = "\r", s[i + 3] = "\n" PROVE t = Ping
    BY <2>1, <2>2, <2>3, Ends, SameText
  <2>4. t = Ping => s[i] = "\r" /\ s[i + 1] = "\n" /\ s[i + 2] = "\r" /\ s[i + 3] = "\n"
    BY <2>2, Ends
  <2> QED
    BY <2>3, <2>4 DEF t
<1> QED
  BY <1>1 DEF EmptyAt

LEMMA StartsPing ==
    ASSUME NEW s \in Text, Starts(s, Ping)
    PROVE  Len(s) >= 4 /\ s[1] = "\r" /\ s[2] = "\n" /\ s[3] = "\r" /\ s[4] = "\n"
<1>1. Len(s) \in Nat /\ Len(s) >= 4 /\ SubSeq(s, 1, 4) = Ping
  BY Ends, TextLen DEF Starts
<1>2. EmptyAt(s, 1)
  BY <1>1 DEF EmptyAt
<1> QED
  BY <1>1, <1>2, EmptyLine

(* What is left of a text.                                                  *)
LEMMA DropFacts ==
    ASSUME NEW s \in Text, NEW n \in 0..Len(s)
    PROVE  /\ Drop(s, n) \in Text /\ Len(Drop(s, n)) = Len(s) - n
           /\ \A k \in 1..(Len(s) - n) : Drop(s, n)[k] = s[n + k]
<1>1. n + 1 \in 1..(Len(s) + 1) /\ Len(s) \in 0..Len(s) /\ n + 1 <= Len(s) + 1
  BY TextLen
<1>2. /\ SubSeq(s, n + 1, Len(s)) \in Text /\ Len(SubSeq(s, n + 1, Len(s))) = Len(s) - (n + 1) + 1
      /\ \A k \in 1..(Len(s) - (n + 1) + 1) : SubSeq(s, n + 1, Len(s))[k] = s[n + 1 + k - 1]
  BY <1>1, PartOf
<1>3. Len(s) - (n + 1) + 1 = Len(s) - n /\ \A k \in 1..(Len(s) - n) : n + 1 + k - 1 = n + k
  BY TextLen
<1> QED
  BY <1>2, <1>3 DEF Drop

(* Two texts are told apart again where the first one ends.                 *)
LEMMA Behind ==
    ASSUME NEW s \in Text, NEW t \in Text
    PROVE  /\ Drop(s \o t, Len(s)) = t
           /\ SubSeq(s \o t, 1, Len(s)) = s
<1>1. Len(s) \in Nat /\ Len(t) \in Nat
  BY TextLen
<1> DEFINE j == s \o t
<1>2. /\ j \in Text /\ Len(j) = Len(s) + Len(t)
      /\ \A k \in 1..Len(s) : j[k] = s[k]
      /\ \A k \in 1..Len(t) : j[Len(s) + k] = t[k]
  BY Joined
<1> HIDE DEF j
<1>3. Len(s) \in 0..Len(j) /\ Len(j) - Len(s) = Len(t)
  BY <1>1, <1>2
<1>4. /\ Drop(j, Len(s)) \in Text /\ Len(Drop(j, Len(s))) = Len(j) - Len(s)
      /\ \A k \in 1..(Len(j) - Len(s)) : Drop(j, Len(s))[k] = j[Len(s) + k]
  BY <1>2, <1>3, DropFacts
<1>5. Drop(j, Len(s)) = t
  <2>1. /\ Drop(j, Len(s)) \in Text /\ Len(Drop(j, Len(s))) = Len(t)
        /\ \A k \in 1..Len(t) : Drop(j, Len(s))[k] = t[k]
    BY <1>2, <1>3, <1>4
  <2> QED
    BY <2>1, SameText
<1>6. 1 \in 1..(Len(j) + 1) /\ 1 <= Len(s) + 1
  BY <1>1, <1>2
<1>7. /\ SubSeq(j, 1, Len(s)) \in Text /\ Len(SubSeq(j, 1, Len(s))) = Len(s) - 1 + 1
      /\ \A k \in 1..(Len(s) - 1 + 1) : SubSeq(j, 1, Len(s))[k] = j[1 + k - 1]
  BY <1>2, <1>3, <1>6, PartOf
<1>8. SubSeq(j, 1, Len(s)) = s
  <2>1. /\ SubSeq(j, 1, Len(s)) \in Text /\ Len(SubSeq(j, 1, Len(s))) = Len(s)
        /\ \A k \in 1..Len(s) : SubSeq(j, 1, Len(s))[k] = s[k]
    BY <1>1, <1>2, <1>7
  <2> QED
    BY <2>1, SameText
<1> QED
  BY <1>5, <1>8 DEF j

(* What is taken from the front of the buffer is taken from the front of   *)
(* the buffer and the text behind it.                                       *)
LEMMA DropFromFront ==
    ASSUME NEW b \in Text, NEW r \in Text, NEW n \in 0..Len(b)
    PROVE  /\ Drop(b, n) \o r = Drop(b \o r, n)
           /\ SubSeq(b \o r, 1, n) = SubSeq(b, 1, n)
<1>1. Len(b) \in Nat /\ Len(r) \in Nat
  BY TextLen
<1> DEFINE j == b \o r
           d == Drop(b, n)
<1>2. /\ j \in Text /\ Len(j) = Len(b) + Len(r)
      /\ \A k \in 1..Len(b) : j[k] = b[k]
      /\ \A k \in 1..Len(r) : j[Len(b) + k] = r[k]
  BY Joined
<1>3. /\ d \in Text /\ Len(d) = Len(b) - n
      /\ \A k \in 1..(Len(b) - n) : d[k] = b[n + k]
  BY DropFacts
<1> HIDE DEF j, d
<1>4. /\ d \o r \in Text /\ Len(d \o r) = Len(d) + Len(r)
      /\ \A k \in 1..Len(d) : (d \o r)[k] = d[k]
      /\ \A k \in 1..Len(r) : (d \o r)[Len(d) + k] = r[k]
  BY <1>3, Joined
<1>5. n \in 0..Len(j)
  BY <1>1, <1>2
<1>6. /\ Drop(j, n) \in Text /\ Len(Drop(j, n)) = Len(j) - n
      /\ \A k \in 1..(Len(j) - n) : Drop(j, n)[k] = j[n + k]
  BY <1>2, <1>5, DropFacts
<1>7. d \o r = Drop(j, n)
  <2>1. Len(d \o r) = Len(Drop(j, n))
    BY <1>1, <1>2, <1>3, <1>4, <1>6
  <2>2. ASSUME NEW k \in 1..Len(d \o r) PROVE (d \o r)[k] = Drop(j, n)[k]
    <3>1. Drop(j, n)[k] = j[n + k]
      BY <1>6, <2>1
    <3>2. CASE k <= Len(b) - n
      <4>1. k \in 1..Len(d) /\ k \in 1..(Len(b) - n) /\ n + k \in 1..Len(b)
        BY <1>1, <1>3, <3>2
      <4>2. (d \o r)[k] = d[k]
        BY <1>4, <4>1
      <4>3. d[k] = b[n + k]
        BY <1>3, <4>1
      <4>4. j[n + k] = b[n + k]
        BY <1>2, <4>1
      <4> QED
        BY <3>1, <4>2, <4>3, <4>4
    <3>3. CASE ~(k <= Len(b) - n)
      <4> DEFINE i == k - (Len(b) - n)
      <4>1. i \in 1..Len(r) /\ k = Len(d) + i /\ n + k = Len(b) + i
        BY <1>1, <1>3, <1>4, <3>3
      <4> HIDE DEF i
      <4>2. (d \o r)[Len(d) + i] = r[i]
        BY <1>4, <4>1
      <4>3. j[Len(b) + i] = r[i]
        BY <1>2, <4>1
      <4> QED
        BY <3>1, <4>1, <4>2, <4>3
    <3> QED
      BY <3>2, <3>3
  <2> QED
    BY <1>4, <1>6, <2>1, <2>2, SameText
<1>8. 1 \in 1..(Len(b) + 1) /\ 1 \in 1..(Len(j) + 1) /\ n \in 0..Len(b) /\ 1 <= n + 1
  BY <1>1, <1>2
<1>9. /\ SubSeq(j, 1, n) \in Text /\ Len(SubSeq(j, 1, n)) = n - 1 + 1
      /\ \A k \in 1..(n - 1 + 1) : SubSeq(j, 1, n)[k] = j[1 + k - 1]
  BY <1>2, <1>5, <1>8, PartOf
<1>10. /\ SubSeq(b, 1, n) \in Text /\ Len(SubSeq(b, 1, n)) = n - 1 + 1
       /\ \A k \in 1..(n - 1 + 1) : SubSeq(b, 1, n)[k] = b[1 + k - 1]
  BY <1>8, PartOf
<1>11. SubSeq(j, 1, n) = SubSeq(b, 1, n)
  <2>1. Len(SubSeq(j, 1, n)) = Len(SubSeq(b, 1, n)) /\ Len(SubSeq(j, 1, n)) = n
    BY <1>9, <1>10
  <2>2. ASSUME NEW k \in 1..n PROVE SubSeq(j, 1, n)[k] = SubSeq(b, 1, n)[k]
    <3>1. k \in 1..(n - 1 + 1) /\ k \in 1..Len(b) /\ 1 + k - 1 = k
      BY <1>1
    <3> QED
      BY <1>2, <1>9, <1>10, <3>1
  <2> QED
    BY <1>9, <1>10, <2>1, <2>2, SameText
<1> QED
  BY <1>7, <1>11 DEF j, d

-----------------------------------------------------------------------------
(* What is still to be taken in: a text, the messages it is made of, and    *)
(* the line ends between them.  The least set that is closed under putting  *)
(* a line end or a message in front.                                        *)
Frames == {text \in StreamItems : Framed(text)}
Closed(C) ==
    /\ <<<<>>, <<>>, 0>> \in C
    /\ \A x \in C : <<CRLF \o x[1], x[2], x[3] + 1>> \in C
    /\ \A x \in C, m \in Frames : <<m \o x[1], <<m>> \o x[2], x[3]>> \in C
Anything == Text \X Seq(Text) \X Nat
Streams == {x \in Anything : \A C \in SUBSET Anything : Closed(C) => x \in C}

(* A message is a text, and the three ways to put texts in a row.           *)
LEMMA Assoc ==
    ASSUME NEW s \in Text, NEW t \in Text, NEW u \in Text PROVE (s \o t) \o u = s \o (t \o u)
BY ConcatAssociative DEF Text

LEMMA JoinedText == ASSUME NEW s \in Text, NEW t \in Text PROVE s \o t \in Text
BY Joined
LEMMA AppendOne ==
    ASSUME NEW a \in Seq(Text), NEW m \in Text PROVE Append(a, m) = a \o <<m>>
<1> DEFINE S == Text
<1>1. a \in Seq(S) /\ m \in S
  OBVIOUS
<1> HIDE DEF S
<1> QED
  BY <1>1, AppendIsConcat

LEMMA FrameText == Frames \subseteq Text /\ \A m \in Frames : <<m>> \in Seq(Text)
<1>1. Frames \subseteq Text
  BY DEF Frames, Framed
<1>2. \A m \in Text : <<m>> \in Seq(Text)
  OBVIOUS
<1> QED
  BY <1>1, <1>2

LEMMA EmptyText == <<>> \in Text /\ <<>> \in Seq(Text) /\ Len(<<>>) = 0
BY EmptySeq DEF Text

(* The streams are the least closed set of texts, messages and counts.      *)
LEMMA AnythingClosed == Closed(Anything)
<1>1. <<<<>>, <<>>, 0>> \in Anything
  BY EmptyText DEF Anything
<1>2. ASSUME NEW x \in Anything PROVE <<CRLF \o x[1], x[2], x[3] + 1>> \in Anything
  <2>1. x[1] \in Text /\ x[2] \in Seq(Text) /\ x[3] \in Nat
    BY DEF Anything
  <2>2. CRLF \o x[1] \in Text
    BY <2>1, Ends, Joined
  <2>3. x[3] + 1 \in Nat
    BY <2>1
  <2> QED
    BY <2>1, <2>2, <2>3 DEF Anything
<1>3. ASSUME NEW x \in Anything, NEW m \in Frames PROVE <<m \o x[1], <<m>> \o x[2], x[3]>> \in Anything
  <2>1. x[1] \in Text /\ x[2] \in Seq(Text) /\ x[3] \in Nat
    BY DEF Anything
  <2>2. m \in Text /\ <<m>> \in Seq(Text)
    BY FrameText
  <2>3. m \o x[1] \in Text
    BY <2>1, <2>2, Joined
  <2>4. <<m>> \o x[2] \in Seq(Text)
    BY <2>1, <2>2, ConcatProperties
  <2> QED
    BY <2>1, <2>3, <2>4 DEF Anything
<1> QED
  BY <1>1, <1>2, <1>3 DEF Closed

LEMMA StreamsClosed == Closed(Streams) /\ Streams \subseteq Anything
<1>1. Streams \subseteq Anything
  BY DEF Streams
<1>2. <<<<>>, <<>>, 0>> \in Streams
  BY AnythingClosed DEF Streams, Closed
<1>3. ASSUME NEW x \in Streams PROVE <<CRLF \o x[1], x[2], x[3] + 1>> \in Streams
  BY <1>1, AnythingClosed DEF Streams, Closed
<1>4. ASSUME NEW x \in Streams, NEW m \in Frames PROVE <<m \o x[1], <<m>> \o x[2], x[3]>> \in Streams
  BY <1>1, AnythingClosed DEF Streams, Closed
<1> QED
  BY <1>1, <1>2, <1>3, <1>4 DEF Closed

LEMMA StreamsLeast == ASSUME NEW C \in SUBSET Streams, Closed(C) PROVE C = Streams
BY StreamsClosed DEF Streams

(* How a stream begins. *)
LEMMA StreamBegins ==
    ASSUME NEW x \in Streams
    PROVE  \/ x = <<<<>>, <<>>, 0>>
           \/ \E y \in Streams : x = <<CRLF \o y[1], y[2], y[3] + 1>>
           \/ \E y \in Streams, m \in Frames : x = <<m \o y[1], <<m>> \o y[2], y[3]>>
<1> DEFINE B(z) == \/ z = <<<<>>, <<>>, 0>>
                   \/ \E y \in Streams : z = <<CRLF \o y[1], y[2], y[3] + 1>>
                   \/ \E y \in Streams, m \in Frames : z = <<m \o y[1], <<m>> \o y[2], y[3]>>
           C == {z \in Streams : B(z)}
<1>1. <<<<>>, <<>>, 0>> \in C
  BY StreamsClosed DEF Closed
<1>2. ASSUME NEW z \in C PROVE <<CRLF \o z[1], z[2], z[3] + 1>> \in C
  BY StreamsClosed DEF Closed
<1>3. ASSUME NEW z \in C, NEW m \in Frames PROVE <<m \o z[1], <<m>> \o z[2], z[3]>> \in C
  BY StreamsClosed DEF Closed
<1> HIDE DEF B
<1>4. C = Streams
  <2> HIDE DEF C
  <2>1. Closed(C)
    BY <1>1, <1>2, <1>3 DEF Closed
  <2>2. C \in SUBSET Streams
    BY DEF C
  <2> QED
    BY <2>1, <2>2, StreamsLeast
<1> QED
  BY <1>4 DEF B

(* What is written comes at the end of the stream. *)
LEMMA StreamGrows ==
    ASSUME NEW x \in Streams
    PROVE  /\ <<x[1] \o CRLF, x[2], x[3] + 1>> \in Streams
           /\ \A m \in Frames : <<x[1] \o m, Append(x[2], m), x[3]>> \in Streams
<1> DEFINE G(z) == /\ <<z[1] \o CRLF, z[2], z[3] + 1>> \in Streams
                   /\ \A m \in Frames : <<z[1] \o m, Append(z[2], m), z[3]>> \in Streams
           C == {z \in Streams : G(z)}
<1>0. \A z \in Streams : z[1] \in Text /\ z[2] \in Seq(Text) /\ z[3] \in Nat
  BY StreamsClosed DEF Anything
<1>1. <<<<>>, <<>>, 0>> \in C
  <2> DEFINE z == <<<<>>, <<>>, 0>>
  <2>1. z \in Streams /\ z[1] = <<>> /\ z[2] = <<>> /\ z[3] = 0
    BY StreamsClosed DEF Closed
  <2>2. <<>> \o CRLF = CRLF \o <<>>
    BY Ends, ConcatEmptySeq DEF Text
  <2>3. ASSUME NEW m \in Frames PROVE <<>> \o m = m \o <<>> /\ Append(<<>>, m) = <<m>> \o <<>>
    <3>1. m \in Text /\ <<m>> \in Seq(Text)
      BY FrameText
    <3>2. Append(<<>>, m) = <<>> \o <<m>>
      BY <3>1, AppendIsConcat, EmptyText
    <3> QED
      BY <3>1, <3>2, ConcatEmptySeq DEF Text
  <2>4. <<CRLF \o <<>>, <<>>, 0 + 1>> \in Streams
    BY <2>1, StreamsClosed DEF Closed
  <2>5. ASSUME NEW m \in Frames PROVE <<m \o <<>>, <<m>> \o <<>>, 0>> \in Streams
    BY <2>1, StreamsClosed DEF Closed
  <2> HIDE DEF z
  <2> QED
    BY <2>1, <2>2, <2>3, <2>4, <2>5 DEF z
<1>2. ASSUME NEW z \in C PROVE <<CRLF \o z[1], z[2], z[3] + 1>> \in C
  <2> DEFINE u == <<CRLF \o z[1], z[2], z[3] + 1>>
  <2>1. z \in Streams /\ G(z)
    OBVIOUS
  <2> HIDE DEF C
  <2>2. u \in Streams /\ u[1] = CRLF \o z[1] /\ u[2] = z[2] /\ u[3] = z[3] + 1
    BY <2>1, StreamsClosed DEF Closed
  <2>3. (CRLF \o z[1]) \o CRLF = CRLF \o (z[1] \o CRLF)
    <3>1. CRLF \in Text /\ z[1] \in Text
      BY <2>1, <1>0, Ends
    <3> QED
      BY <3>1, Assoc
  <2>4. <<CRLF \o (z[1] \o CRLF), z[2], z[3] + 1 + 1>> \in Streams
    <3> DEFINE v == <<z[1] \o CRLF, z[2], z[3] + 1>>
    <3>1. v \in Streams /\ v[1] = z[1] \o CRLF /\ v[2] = z[2] /\ v[3] = z[3] + 1
      BY <2>1
    <3> HIDE DEF v, u
    <3> QED
      BY <3>1, StreamsClosed DEF Closed
  <2>5. ASSUME NEW m \in Frames PROVE <<(CRLF \o z[1]) \o m, Append(z[2], m), z[3] + 1>> \in Streams
    <3> DEFINE v == <<z[1] \o m, Append(z[2], m), z[3]>>
    <3>1. v \in Streams /\ v[1] = z[1] \o m /\ v[2] = Append(z[2], m) /\ v[3] = z[3]
      BY <2>1
    <3>2. (CRLF \o z[1]) \o m = CRLF \o (z[1] \o m)
      <4>1. CRLF \in Text /\ z[1] \in Text /\ m \in Text
        BY <2>1, <1>0, Ends, FrameText
      <4> QED
        BY <4>1, Assoc
    <3>3. <<CRLF \o v[1], v[2], v[3] + 1>> \in Streams
      BY <3>1, StreamsClosed DEF Closed
    <3> HIDE DEF v, u
    <3> QED
      BY <3>1, <3>2, <3>3
  <2> HIDE DEF u
  <2>6. G(u)
    BY <2>2, <2>3, <2>4, <2>5
  <2> QED
    BY <2>2, <2>6 DEF C, u
<1>3. ASSUME NEW z \in C, NEW m \in Frames PROVE <<m \o z[1], <<m>> \o z[2], z[3]>> \in C
  <2> DEFINE u == <<m \o z[1], <<m>> \o z[2], z[3]>>
  <2>1. z \in Streams /\ G(z)
    OBVIOUS
  <2> HIDE DEF C
  <2>2. u \in Streams /\ u[1] = m \o z[1] /\ u[2] = <<m>> \o z[2] /\ u[3] = z[3]
    BY <2>1, StreamsClosed DEF Closed
  <2>3. m \in Text /\ <<m>> \in Seq(Text)
    BY FrameText
  <2>4. <<(m \o z[1]) \o CRLF, <<m>> \o z[2], z[3] + 1>> \in Streams
    <3> DEFINE v == <<z[1] \o CRLF, z[2], z[3] + 1>>
    <3>1. v \in Streams /\ v[1] = z[1] \o CRLF /\ v[2] = z[2] /\ v[3] = z[3] + 1
      BY <2>1
    <3>2. (m \o z[1]) \o CRLF = m \o (z[1] \o CRLF)
      <4>1. CRLF \in Text /\ z[1] \in Text /\ m \in Text
        BY <2>1, <2>3, <1>0, Ends
      <4> QED
        BY <4>1, Assoc
    <3>3. <<m \o v[1], <<m>> \o v[2], v[3]>> \in Streams
      BY <3>1, StreamsClosed DEF Closed
    <3> HIDE DEF v, u
    <3> QED
      BY <3>1, <3>2, <3>3
  <2>5. ASSUME NEW k \in Frames PROVE <<(m \o z[1]) \o k, Append(<<m>> \o z[2], k), z[3]>> \in Streams
    <3> DEFINE v == <<z[1] \o k, Append(z[2], k), z[3]>>
    <3>1. v \in Streams /\ v[1] = z[1] \o k /\ v[2] = Append(z[2], k) /\ v[3] = z[3]
      BY <2>1
    <3>2. (m \o z[1]) \o k = m \o (z[1] \o k)
      <4>1. k \in Text /\ z[1] \in Text /\ m \in Text
        BY <2>1, <2>3, <1>0, FrameText
      <4> QED
        BY <4>1, Assoc
    <3>3. Append(<<m>> \o z[2], k) = <<m>> \o Append(z[2], k)
      <4>1. k \in Text /\ <<k>> \in Seq(Text) /\ z[2] \in Seq(Text)
        BY <2>1, <1>0, FrameText
      <4>2. <<m>> \o z[2] \in Seq(Text)
        BY <2>3, <4>1, ConcatProperties
      <4> QED
        BY <2>3, <4>1, <4>2, AppendIsConcat, ConcatAssociative
    <3>4. <<m \o v[1], <<m>> \o v[2], v[3]>> \in Streams
      BY <3>1, StreamsClosed DEF Closed
    <3> HIDE DEF v, u
    <3> QED
      BY <3>1, <3>2, <3>3, <3>4
  <2> HIDE DEF u
  <2>6. G(u)
    BY <2>2, <2>4, <2>5
  <2> QED
    BY <2>2, <2>6 DEF C, u
<1> HIDE DEF G
<1>4. C = Streams
  <2> HIDE DEF C
  <2>1. Closed(C)
    BY <1>1, <1>2, <1>3 DEF Closed
  <2>2. C \in SUBSET Streams
    BY DEF C
  <2> QED
    BY <2>1, <2>2, StreamsLeast
<1> QED
  BY <1>4 DEF G

-----------------------------------------------------------------------------
(* What is at the front of a stream.                                        *)

(* A message does not begin with a line end, and its first empty line and   *)
(* its length say where it ends.                                            *)
LEMMA FrameHead ==
    ASSUME NEW m \in Frames
    PROVE  /\ m \in Text /\ ~Starts(m, Pong)
           /\ \E end \in HeadEnd(m) :
                /\ end \in 1..Len(m) /\ EmptyAt(m, end)
                /\ \A j \in 1..Len(m) : EmptyAt(m, j) => end <= j
                /\ \A n \in LengthIn(m, end) : Len(m) = end + 3 + n
BY DEF Frames, Framed, HeadEnd

LEMMA FrameLen == ASSUME NEW m \in Frames PROVE Len(m) \in Nat /\ Len(m) >= 4
<1>1. PICK end \in 1..Len(m) : EmptyAt(m, end)
  BY FrameHead
<1> QED
  BY <1>1, FrameHead, TextLen DEF EmptyAt

(* A stream that begins with a line end has one more to be counted.         *)
LEMMA EndsFirst ==
    ASSUME NEW x \in Streams, Len(x[1]) >= 2, x[1][1] = "\r", x[1][2] = "\n"
    PROVE  x[3] \in Nat /\ x[3] > 0 /\ <<Drop(x[1], 2), x[2], x[3] - 1>> \in Streams
<1>0. \A y \in Streams : y \in Anything /\ y[1] \in Text /\ y[2] \in Seq(Text) /\ y[3] \in Nat
  BY StreamsClosed DEF Anything
<1>1. x # <<<<>>, <<>>, 0>>
  BY EmptyText
<1>2. ASSUME NEW y \in Streams, x = <<CRLF \o y[1], y[2], y[3] + 1>>
      PROVE  x[3] \in Nat /\ x[3] > 0 /\ <<Drop(x[1], 2), x[2], x[3] - 1>> \in Streams
  <2>1. x[1] = CRLF \o y[1] /\ x[2] = y[2] /\ x[3] = y[3] + 1
    BY <1>2
  <2>2. Drop(CRLF \o y[1], 2) = y[1]
    <3>1. CRLF \in Text /\ y[1] \in Text
      BY <1>0, Ends
    <3>2. Drop(CRLF \o y[1], Len(CRLF)) = y[1]
      BY <3>1, Behind
    <3> QED
      BY <3>2, Ends
  <2>3. y[3] \in Nat /\ x[3] - 1 = y[3] /\ x[3] \in Nat /\ x[3] > 0
    BY <1>0, <2>1
  <2>4. y = <<y[1], y[2], y[3]>>
    BY <1>0 DEF Anything
  <2> QED
    BY <2>1, <2>2, <2>3, <2>4
<1>3. ASSUME NEW y \in Streams, NEW m \in Frames, x = <<m \o y[1], <<m>> \o y[2], y[3]>> PROVE FALSE
  <2>1. x[1] = m \o y[1]
    BY <1>3
  <2>2. m \in Text /\ Len(m) \in Nat /\ Len(m) >= 4 /\ y[1] \in Text
    BY <1>0, FrameHead, FrameLen
  <2>3. m[1] = x[1][1] /\ m[2] = x[1][2]
    BY <2>1, <2>2, Joined
  <2> QED
    BY <2>2, <2>3, FrameHead, StartsPong
<1> QED
  BY <1>1, <1>2, <1>3, StreamBegins

(* A stream that begins otherwise begins with a message.                    *)
LEMMA MessageFirst ==
    ASSUME NEW x \in Streams, x[1] # <<>>, ~Starts(x[1], Pong)
    PROVE  \E y \in Streams, m \in Frames : x = <<m \o y[1], <<m>> \o y[2], y[3]>>
<1>1. x # <<<<>>, <<>>, 0>>
  OBVIOUS
<1>2. ASSUME NEW y \in Streams, x = <<CRLF \o y[1], y[2], y[3] + 1>> PROVE FALSE
  <2>1. x[1] = CRLF \o y[1] /\ y[1] \in Text
    BY <1>2, StreamsClosed DEF Anything
  <2>2. x[1] \in Text /\ Len(x[1]) >= 2 /\ x[1][1] = "\r" /\ x[1][2] = "\n"
    <3>1. CRLF \in Text /\ Len(y[1]) \in Nat
      BY <2>1, TextLen, Ends
    <3>2. /\ CRLF \o y[1] \in Text /\ Len(CRLF \o y[1]) = Len(CRLF) + Len(y[1])
          /\ \A k \in 1..Len(CRLF) : (CRLF \o y[1])[k] = CRLF[k]
      BY <2>1, <3>1, Joined
    <3>3. 1 \in 1..Len(CRLF) /\ 2 \in 1..Len(CRLF)
      BY Ends
    <3>4. (CRLF \o y[1])[1] = CRLF[1] /\ (CRLF \o y[1])[2] = CRLF[2]
      BY <3>2, <3>3
    <3>5. Len(CRLF \o y[1]) >= 2
      BY <3>1, <3>2, Ends
    <3> QED
      BY <2>1, <3>2, <3>4, <3>5, Ends
  <2> QED
    BY <2>2, StartsPong
<1> QED
  BY <1>1, <1>2, StreamBegins

(* A stream without text has neither messages nor line ends.                *)
LEMMA NothingLeft ==
    ASSUME NEW q, NEW n, <<<<>>, q, n>> \in Streams PROVE q = <<>> /\ n = 0
<1> DEFINE x == <<<<>>, q, n>>
<1>0. \A y \in Streams : y[1] \in Text
  BY StreamsClosed DEF Anything
<1>1. ASSUME NEW y \in Streams, x = <<CRLF \o y[1], y[2], y[3] + 1>> PROVE FALSE
  <2>1. <<>> = CRLF \o y[1]
    BY <1>1
  <2>2. CRLF \in Text /\ y[1] \in Text /\ Len(y[1]) \in Nat
    BY <1>0, Ends, TextLen
  <2>3. Len(CRLF \o y[1]) = Len(CRLF) + Len(y[1])
    BY <2>2, Joined
  <2> QED
    BY <2>1, <2>2, <2>3, Ends, EmptyText
<1>2. ASSUME NEW y \in Streams, NEW m \in Frames, x = <<m \o y[1], <<m>> \o y[2], y[3]>> PROVE FALSE
  <2>1. <<>> = m \o y[1]
    BY <1>2
  <2>2. Len(m \o y[1]) = Len(m) + Len(y[1]) /\ Len(y[1]) \in Nat
    BY <1>0, FrameText, Joined, TextLen
  <2> QED
    BY <2>1, <2>2, FrameLen, EmptyText
<1>3. x = <<<<>>, <<>>, 0>>
  BY <1>1, <1>2, StreamBegins
<1> QED
  BY <1>3

-----------------------------------------------------------------------------
(* What the decoder finds: a buffer is a part of the stream from its front. *)

(* The lengths are read above the empty line only.                          *)
LEMMA SameLines ==
    ASSUME NEW b, NEW m, NEW end \in Nat, \A i \in 1..end : b[i] = m[i]
    PROVE  LengthIn(b, end) = LengthIn(m, end)
<1>1. LengthLines(b, end) = LengthLines(m, end)
  <2>1. {i \in 1..(end - 3) : /\ i = 1 \/ b[i - 1] = "\n"
                              /\ b[i] \in LengthNames /\ b[i + 1] = ":"}
      = {i \in 1..(end - 3) : /\ i = 1 \/ m[i - 1] = "\n"
                              /\ m[i] \in LengthNames /\ m[i + 1] = ":"}
    <3>1. ASSUME NEW i \in 1..(end - 3)
          PROVE  b[i] = m[i] /\ b[i + 1] = m[i + 1] /\ (i # 1 => b[i - 1] = m[i - 1])
      OBVIOUS
    <3> QED
      BY <3>1
  <2> DEFINE starts == {i \in 1..(end - 3) : /\ i = 1 \/ m[i - 1] = "\n"
                              /\ m[i] \in LengthNames /\ m[i + 1] = ":"}
             Counts(t, l) == \E j \in (l[1] + 2)..(end - 1), k \in (l[1] + 3)..end :
                                /\ j < k /\ t[j] = ToString(l[2]) /\ t[k] = "\r"
                                /\ \A c \in ((l[1] + 2)..(k - 1)) \ {j} : t[c] \in Blank
  <2>2. ASSUME NEW l \in starts \X (0..MaxLength) PROVE Counts(b, l) <=> Counts(m, l)
    <3>1. l[1] \in 1..(end - 3)
      OBVIOUS
    <3>2. ASSUME NEW j \in (l[1] + 2)..(end - 1), NEW k \in (l[1] + 3)..end, j < k
          PROVE  /\ b[j] = m[j] /\ b[k] = m[k]
                 /\ \A c \in ((l[1] + 2)..(k - 1)) \ {j} : b[c] = m[c]
      BY <3>1
    <3> HIDE DEF starts
    <3> QED
      BY <3>2
  <2>3. LengthLines(b, end) = {l \in starts \X (0..MaxLength) : Counts(b, l)}
    BY <2>1 DEF LengthLines
  <2>4. LengthLines(m, end) = {l \in starts \X (0..MaxLength) : Counts(m, l)}
    BY DEF LengthLines
  <2> HIDE DEF starts, Counts
  <2> QED
    BY <2>2, <2>3, <2>4
<1> QED
  BY <1>1 DEF LengthIn

(* Whatever of a stream is in the buffer, a message that the decoder finds  *)
(* in it is the whole first message of the stream, and no more.             *)
THEOREM WholeMessage ==
    ASSUME NEW m \in Frames, NEW b \in Text, NEW r \in Text, NEW s \in Text, b \o r = m \o s,
           Message(b).kind = "message"
    PROVE  Message(b).n = Len(m) /\ Len(m) <= Len(b)
<1>1. PICK e \in HeadEnd(m) :
        /\ e \in 1..Len(m) /\ EmptyAt(m, e)
        /\ \A j \in 1..Len(m) : EmptyAt(m, j) => e <= j
        /\ \A n \in LengthIn(m, e) : Len(m) = e + 3 + n
  BY FrameHead
<1>2. m \in Text /\ Len(m) \in Nat /\ Len(b) \in Nat /\ Len(r) \in Nat /\ Len(s) \in Nat
  BY FrameHead, TextLen
<1>3. \A i \in 1..Len(b) : i <= Len(m) => b[i] = m[i]
  <2>1. \A i \in 1..Len(b) : (b \o r)[i] = b[i]
    BY Joined
  <2>2. \A i \in 1..Len(m) : (m \o s)[i] = m[i]
    BY <1>2, Joined
  <2> QED
    BY <1>2, <2>1, <2>2
<1>4. e + 3 <= Len(m) /\ e \in Nat
  BY <1>1, <1>2 DEF EmptyAt
<1>5. HeadEnd(b) # {} /\ Sizes(b) # {} /\ \A n \in Sizes(b) : ~(Len(b) < n)
  BY DEF Message, Frame
<1>6. PICK h \in 1..Len(b) : h \in HeadEnd(b) /\ EmptyAt(b, h) /\ \A j \in 1..Len(b) : EmptyAt(b, j) => h <= j
  BY <1>5 DEF HeadEnd
<1>7. h = e
  <2>1. h + 3 <= Len(b) /\ b[h] = "\r" /\ b[h + 1] = "\n" /\ b[h + 2] = "\r" /\ b[h + 3] = "\n"
    BY <1>6, EmptyLine
  <2>2. m[e] = "\r" /\ m[e + 1] = "\n" /\ m[e + 2] = "\r" /\ m[e + 3] = "\n"
    BY <1>1, <1>2, EmptyLine
  <2>3. ASSUME h < e PROVE FALSE
    <3>1. h + 3 <= Len(m) /\ h \in 1..Len(m)
      BY <1>2, <1>4, <2>3
    <3>2. ASSUME NEW k \in {h, h + 1, h + 2, h + 3} PROVE k \in 1..Len(b) /\ k <= Len(m)
      BY <1>2, <2>1, <3>1
    <3>3. m[h] = b[h] /\ m[h + 1] = b[h + 1] /\ m[h + 2] = b[h + 2] /\ m[h + 3] = b[h + 3]
      BY <1>3, <3>2
    <3>4. EmptyAt(m, h)
      BY <1>2, <2>1, <3>1, <3>3, EmptyLine
    <3> QED
      BY <1>1, <1>4, <2>3, <3>1, <3>4
  <2>4. ASSUME e < h PROVE FALSE
    <3>1. e + 3 <= Len(b) /\ e \in 1..Len(b)
      BY <1>2, <1>4, <2>1, <2>4, <1>1
    <3>2. ASSUME NEW k \in {e, e + 1, e + 2, e + 3} PROVE k \in 1..Len(b) /\ k <= Len(m)
      BY <1>2, <1>4, <3>1
    <3>3. m[e] = b[e] /\ m[e + 1] = b[e + 1] /\ m[e + 2] = b[e + 2] /\ m[e + 3] = b[e + 3]
      BY <1>3, <3>2
    <3>4. EmptyAt(b, e)
      BY <2>2, <3>1, <3>3, EmptyLine
    <3> QED
      BY <1>4, <1>6, <2>4, <3>1, <3>4
  <2> QED
    BY <1>4, <2>3, <2>4
<1>8. HeadEnd(b) = {e}
  <2>1. ASSUME NEW g \in HeadEnd(b) PROVE g = e
    <3>1. g \in 1..Len(b) /\ EmptyAt(b, g) /\ \A j \in 1..Len(b) : EmptyAt(b, j) => g <= j
      BY DEF HeadEnd
    <3> QED
      BY <1>6, <1>7, <3>1
  <2> QED
    BY <1>6, <1>7, <2>1
<1>9. LengthIn(b, e) = LengthIn(m, e)
  <2>1. e <= Len(b)
    BY <1>6, <1>7
  <2>2. \A i \in 1..e : b[i] = m[i]
    BY <1>2, <1>3, <1>4, <2>1
  <2> QED
    BY <1>4, <2>2, SameLines
<1>10. Sizes(b) = {e + 3 + n : n \in LengthIn(m, e)}
  BY <1>8, <1>9 DEF Sizes
<1>11. Sizes(b) = {Len(m)}
  BY <1>1, <1>5, <1>10
<1>12. Message(b) = Frame("message", CHOOSE n \in Sizes(b) : TRUE)
  BY <1>5 DEF Message
<1>13. (CHOOSE n \in Sizes(b) : TRUE) = Len(m)
  BY <1>11
<1> QED
  BY <1>2, <1>5, <1>11, <1>12, <1>13 DEF Frame

(* Two line ends are taken one after the other.                             *)
LEMMA DropTwice ==
    ASSUME NEW s \in Text, Len(s) >= 4 PROVE Drop(Drop(s, 2), 2) = Drop(s, 4)
<1>1. Len(s) \in Nat /\ 2 \in 0..Len(s) /\ 4 \in 0..Len(s)
  BY TextLen
<1> DEFINE t == Drop(s, 2)
<1>2. /\ t \in Text /\ Len(t) = Len(s) - 2
      /\ \A k \in 1..(Len(s) - 2) : t[k] = s[2 + k]
  BY <1>1, DropFacts
<1>3. /\ Drop(s, 4) \in Text /\ Len(Drop(s, 4)) = Len(s) - 4
      /\ \A k \in 1..(Len(s) - 4) : Drop(s, 4)[k] = s[4 + k]
  BY <1>1, DropFacts
<1> HIDE DEF t
<1>4. 2 \in 0..Len(t)
  BY <1>1, <1>2
<1>5. /\ Drop(t, 2) \in Text /\ Len(Drop(t, 2)) = Len(t) - 2
      /\ \A k \in 1..(Len(t) - 2) : Drop(t, 2)[k] = t[2 + k]
  BY <1>2, <1>4, DropFacts
<1>6. ASSUME NEW k \in 1..(Len(s) - 4) PROVE Drop(t, 2)[k] = Drop(s, 4)[k]
  <2>1. k \in 1..(Len(t) - 2) /\ 2 + k \in 1..(Len(s) - 2) /\ 2 + (2 + k) = 4 + k
    BY <1>1, <1>2
  <2>2. Drop(t, 2)[k] = t[2 + k]
    BY <1>5, <2>1
  <2>3. t[2 + k] = s[2 + (2 + k)]
    BY <1>2, <2>1
  <2> QED
    BY <1>3, <2>1, <2>2, <2>3
<1>7. Len(Drop(t, 2)) = Len(Drop(s, 4)) /\ Len(Drop(s, 4)) = Len(s) - 4
  BY <1>1, <1>2, <1>3, <1>5
<1> QED
  BY <1>3, <1>5, <1>6, <1>7, SameText DEF t

(* The buffer is the front of the buffer and the text behind it.            *)
LEMMA Front ==
    ASSUME NEW b \in Text, NEW r \in Text, NEW k \in 1..Len(b)
    PROVE  (b \o r)[k] = b[k] /\ b \o r \in Text /\ Len(b \o r) >= Len(b)
BY Joined, TextLen

(* A line end at the front of the buffer is one of the stream's.            *)
LEMMA OneEnd ==
    ASSUME NEW b \in Text, NEW r \in Text, NEW q, NEW n, <<b \o r, q, n>> \in Streams, Starts(b, Pong)
    PROVE  /\ n \in Nat /\ n >= 1 /\ Drop(b, 2) \in Text
           /\ <<Drop(b, 2) \o r, q, n - 1>> \in Streams
<1>1. Len(b) \in Nat /\ Len(b) >= 2 /\ b[1] = "\r" /\ b[2] = "\n"
  BY StartsPong, TextLen
<1>2. 1 \in 1..Len(b) /\ 2 \in 1..Len(b) /\ 2 \in 0..Len(b)
  BY <1>1
<1>3. (b \o r)[1] = b[1] /\ (b \o r)[2] = b[2] /\ Len(b \o r) >= Len(b) /\ b \o r \in Text
  BY <1>2, Front
<1>4. Len(b \o r) >= 2
  BY <1>1, <1>3, TextLen
<1> DEFINE x == <<b \o r, q, n>>
<1>5. x \in Streams /\ x[1] = b \o r /\ x[2] = q /\ x[3] = n
  OBVIOUS
<1> HIDE DEF x
<1>6. x[3] \in Nat /\ x[3] > 0 /\ <<Drop(x[1], 2), x[2], x[3] - 1>> \in Streams
  BY <1>1, <1>3, <1>4, <1>5, EndsFirst
<1>7. Drop(b, 2) \o r = Drop(b \o r, 2) /\ Drop(b, 2) \in Text
  BY <1>2, DropFromFront, DropFacts
<1>8. n \in Nat /\ n > 0
  BY <1>5, <1>6
<1>9. <<Drop(b \o r, 2), q, n - 1>> \in Streams
  BY <1>5, <1>6
<1>10. n >= 1
  BY <1>8
<1> QED
  BY <1>7, <1>8, <1>9, <1>10

(* A ping at the front of the buffer is two line ends of the stream.        *)
LEMMA TwoEnds ==
    ASSUME NEW b \in Text, NEW r \in Text, NEW q, NEW n, <<b \o r, q, n>> \in Streams, Starts(b, Ping)
    PROVE  /\ n \in Nat /\ n >= 2 /\ Drop(b, 4) \in Text
           /\ <<Drop(b, 4) \o r, q, n - 2>> \in Streams
<1>1. Len(b) \in Nat /\ Len(b) >= 4 /\ b[1] = "\r" /\ b[2] = "\n" /\ b[3] = "\r" /\ b[4] = "\n"
  BY StartsPing, TextLen
<1>2. Starts(b, Pong)
  BY <1>1, StartsPong
<1> DEFINE d == Drop(b, 2)
<1>3. n \in Nat /\ n >= 1 /\ d \in Text /\ <<d \o r, q, n - 1>> \in Streams
  BY <1>2, OneEnd
<1>4. 2 \in 0..Len(b) /\ 4 \in 0..Len(b)
  BY <1>1
<1>5. Len(d) = Len(b) - 2 /\ \A k \in 1..(Len(b) - 2) : d[k] = b[2 + k]
  BY <1>4, DropFacts
<1>6. 1 \in 1..(Len(b) - 2) /\ 2 \in 1..(Len(b) - 2)
  BY <1>1
<1>7. d[1] = b[3] /\ d[2] = b[4] /\ Len(d) >= 2
  BY <1>1, <1>5, <1>6
<1>8. Drop(d, 2) = Drop(b, 4) /\ Drop(b, 4) \in Text
  BY <1>1, <1>4, DropTwice, DropFacts
<1> HIDE DEF d
<1>9. Starts(d, Pong)
  BY <1>1, <1>3, <1>7, StartsPong
<1>10. n - 1 \in Nat /\ n - 1 >= 1 /\ <<Drop(d, 2) \o r, q, (n - 1) - 1>> \in Streams
  BY <1>3, <1>9, OneEnd
<1>11. (n - 1) - 1 = n - 2 /\ n >= 2
  BY <1>3, <1>10
<1> QED
  BY <1>3, <1>8, <1>10, <1>11

(* A message found in the buffer is the next one of the stream.             *)
Ahead(b, k, r, q, n) ==
    \E m \in Frames, p \in Seq(Text) :
      /\ SubSeq(b, 1, k) = m /\ q = <<m>> \o p
      /\ <<Drop(b, k) \o r, p, n>> \in Streams

LEMMA OneMessage ==
    ASSUME NEW b \in Text, NEW r \in Text, NEW q, NEW n, <<b \o r, q, n>> \in Streams,
           ~Starts(b, Pong), Message(b).kind = "message", NEW k, k = Message(b).n
    PROVE  k \in 0..Len(b) /\ Drop(b, k) \in Text /\ Ahead(b, k, r, q, n)
<1>1. HeadEnd(b) # {}
  BY DEF Message, Frame
<1>2. PICK h \in 1..Len(b) : EmptyAt(b, h)
  BY <1>1 DEF HeadEnd
<1>3. Len(b) \in Nat /\ Len(b) >= 4
  BY <1>2, TextLen DEF EmptyAt
<1>4. 1 \in 1..Len(b) /\ 2 \in 1..Len(b)
  BY <1>3
<1>5. (b \o r)[1] = b[1] /\ (b \o r)[2] = b[2] /\ Len(b \o r) >= Len(b) /\ b \o r \in Text
  BY <1>4, Front
<1>6. b \o r # <<>> /\ ~Starts(b \o r, Pong)
  <2> DEFINE j == b \o r
  <2>1. j \in Text /\ Len(j) >= Len(b) /\ j[1] = b[1] /\ j[2] = b[2]
    BY <1>5
  <2> HIDE DEF j
  <2>2. Len(j) \in Nat /\ (j = <<>> <=> Len(j) = 0)
    BY <2>1, TextLen
  <2>3. Starts(j, Pong) => Starts(b, Pong)
    BY <1>3, <2>1, StartsPong
  <2>4. j # <<>>
    BY <1>3, <2>1, <2>2
  <2> QED
    BY <2>3, <2>4 DEF j
<1> DEFINE x == <<b \o r, q, n>>
<1>7. x \in Streams /\ x[1] = b \o r /\ x[2] = q /\ x[3] = n
  OBVIOUS
<1> HIDE DEF x
<1>8. PICK y \in Streams, m \in Frames : x = <<m \o y[1], <<m>> \o y[2], y[3]>>
  BY <1>6, <1>7, MessageFirst
<1>9. b \o r = m \o y[1] /\ q = <<m>> \o y[2] /\ n = y[3]
  BY <1>7, <1>8
<1>10. y \in Anything /\ y[1] \in Text /\ y[2] \in Seq(Text) /\ y = <<y[1], y[2], y[3]>>
  BY StreamsClosed DEF Anything
<1>11. m \in Text /\ Len(m) \in Nat
  BY FrameLen, FrameText
<1>12. k = Len(m) /\ Len(m) <= Len(b)
  BY <1>9, <1>10, WholeMessage
<1>13. k \in 0..Len(b)
  BY <1>3, <1>11, <1>12
<1>14. /\ Drop(b, k) \o r = Drop(b \o r, k) /\ SubSeq(b \o r, 1, k) = SubSeq(b, 1, k)
       /\ Drop(b, k) \in Text
  BY <1>13, DropFromFront, DropFacts
<1>15. Drop(m \o y[1], Len(m)) = y[1] /\ SubSeq(m \o y[1], 1, Len(m)) = m
  BY <1>10, <1>11, Behind
<1>16. Drop(b, k) \o r = y[1] /\ SubSeq(b, 1, k) = m
  BY <1>9, <1>12, <1>14, <1>15
<1>17. <<Drop(b, k) \o r, y[2], n>> \in Streams
  BY <1>9, <1>10, <1>16
<1> QED
  BY <1>9, <1>10, <1>13, <1>14, <1>16, <1>17 DEF Ahead

-----------------------------------------------------------------------------
(* The inductive invariant.  Over TCP the text in the buffer and on its way *)
(* is made of the messages and line ends that are not taken in yet; over    *)
(* UDP there is at most the one datagram.                                   *)
Types ==
    /\ carrier \in {"tcp", "udp"} /\ open \in BOOLEAN
    /\ sent \in Seq(Text) /\ got \in Seq(Text)
    /\ pipe \in Text /\ buf \in Text
    /\ ends \in Nat /\ gotEnds \in Nat /\ pongs \in Nat
    /\ 2 * pongs <= gotEnds /\ gotEnds <= ends
Unread(q) == sent = got \o q /\ <<buf \o pipe, q, ends - gotEnds>> \in Streams
OnStream == carrier = "tcp" => \E q \in Seq(Text) : Unread(q)
Datagram ==
    carrier = "udp" =>
        /\ open = TRUE
        /\ sent = <<>> => got = <<>>
        /\ pipe # <<>> => /\ got = <<>> /\ gotEnds = 0 /\ pongs = 0
                          /\ sent = With(<<>>, KindOf(pipe), pipe)
                          /\ ends = LineEnds(KindOf(pipe))
InboundInv == Types /\ OnStream /\ Datagram

(* Nothing is sent yet.                                                     *)
LEMMA InboundInit == Idle => InboundInv
<1> SUFFICES ASSUME Idle PROVE InboundInv
  OBVIOUS
<1>1. Types
  BY EmptyText DEF Idle, Types
<1>2. OnStream
  <2>1. sent = got \o <<>> /\ buf \o pipe = <<>> /\ ends - gotEnds = 0
    BY EmptyText, ConcatEmptySeq DEF Idle
  <2>2. Unread(<<>>)
    BY <2>1, StreamsClosed DEF Unread, Closed
  <2> QED
    BY <2>2, EmptyText DEF OnStream
<1>3. Datagram
  BY DEF Idle, Datagram
<1> QED
  BY <1>1, <1>2, <1>3 DEF InboundInv

(* A ping is longer than a pong.                                            *)
LEMMA PingNotPong == Ping # Pong
<1>1. Len(Ping) # Len(Pong)
  BY Ends DEF Pong
<1> QED
  BY <1>1

(* What is put into a stream is a ping, a pong or a message.                *)
LEMMA WhatIsSent ==
    ASSUME NEW text \in StreamItems \cup Datagrams
    PROVE  /\ text \in Text
           /\ \/ text = Ping /\ KindOf(text) = "ping"
              \/ text = Pong /\ KindOf(text) = "pong"
              \/ KindOf(text) = "message" /\ (text \in StreamItems => text \in Frames)
<1>1. text \in Text
  BY StreamAssumption, DatagramAssumption, Ends DEF Framed, Pong
<1> QED
  BY <1>1, PingNotPong, StreamAssumption DEF KindOf, Frames

(* What a text adds to the messages and line ends.                          *)
LEMMA Counted ==
    /\ LineEnds("ping") = 2 /\ LineEnds("pong") = 1 /\ LineEnds("message") = 0
    /\ \A messages, text : /\ With(messages, "ping", text) = messages
                           /\ With(messages, "pong", text) = messages
                           /\ With(messages, "message", text) = Append(messages, text)
BY DEF LineEnds, With

(* What is sent comes at the end of the stream.                             *)
LEMMA SendSame ==
    ASSUME InboundInv, NEW text \in StreamItems \cup Datagrams, Send(text) PROVE InboundInv'
<1>0. Types /\ OnStream /\ Datagram
  BY DEF InboundInv
<1> DEFINE kind == KindOf(text)
<1>1. /\ text \in Text
      /\ \/ text = Ping /\ kind = "ping"
         \/ text = Pong /\ kind = "pong"
         \/ kind = "message" /\ (text \in StreamItems => text \in Frames)
  BY WhatIsSent
<1>2. /\ open /\ sent' = With(sent, kind, text) /\ ends' = ends + LineEnds(kind) /\ pipe' = pipe \o text
      /\ UNCHANGED <<carrier, buf, got, gotEnds, pongs, open>>
      /\ carrier = "tcp" => text \in StreamItems
      /\ carrier = "udp" => sent = <<>> /\ ends = 0
  BY <1>0 DEF Send, Types
<1> HIDE DEF kind
<1>3. LineEnds(kind) \in Nat /\ sent' \in Seq(Text)
  <2>1. sent \in Seq(Text) /\ Append(sent, text) \in Seq(Text)
    BY <1>0, <1>1, AppendProperties DEF Types
  <2>2. CASE kind = "ping"
    BY <1>2, <2>1, <2>2, Counted
  <2>3. CASE kind = "pong"
    BY <1>2, <2>1, <2>3, Counted
  <2>4. CASE kind = "message"
    <3>1. LineEnds(kind) = 0 /\ With(sent, kind, text) = Append(sent, text)
      BY <2>4, Counted
    <3> QED
      BY <1>2, <2>1, <3>1
  <2> QED
    BY <1>1, <2>2, <2>3, <2>4
<1>4. pipe' \in Text
  BY <1>0, <1>1, <1>2, Joined DEF Types
<1>5. Types'
  BY <1>0, <1>2, <1>3, <1>4 DEF Types
<1>6. OnStream'
  <2> SUFFICES ASSUME carrier = "tcp" PROVE \E q \in Seq(Text) : Unread(q)'
    BY <1>2 DEF OnStream
  <2>1. PICK q \in Seq(Text) : Unread(q)
    BY <1>0 DEF OnStream
  <2>2. sent = got \o q /\ <<buf \o pipe, q, ends - gotEnds>> \in Streams
    BY <2>1 DEF Unread
  <2> DEFINE x == <<buf \o pipe, q, ends - gotEnds>>
  <2>3. x \in Streams /\ x[1] = buf \o pipe /\ x[2] = q /\ x[3] = ends - gotEnds
    BY <2>2
  <2> HIDE DEF x
  <2>4. buf \o pipe' = x[1] \o text
    <3>1. buf \in Text /\ pipe \in Text
      BY <1>0 DEF Types
    <3>2. (buf \o pipe) \o text = buf \o (pipe \o text)
      BY <1>1, <3>1, Assoc
    <3> QED
      BY <1>2, <2>3, <3>2
  <2>5. CASE kind = "ping"
    <3>1. text = CRLF \o CRLF /\ CRLF \in Text /\ x[1] \in Text
      BY <1>1, <2>3, <2>5, StreamsClosed, Ends DEF Ping, Anything
    <3> DEFINE z == <<x[1] \o CRLF, x[2], x[3] + 1>>
    <3>2. z \in Streams /\ z[1] = x[1] \o CRLF /\ z[2] = x[2] /\ z[3] = x[3] + 1
      BY <2>3, StreamGrows
    <3> HIDE DEF z
    <3>3. <<z[1] \o CRLF, z[2], z[3] + 1>> \in Streams
      BY <3>2, StreamGrows
    <3>4. (x[1] \o CRLF) \o CRLF = x[1] \o text
      BY <3>1, Assoc
    <3>5. ends' - gotEnds' = x[3] + 1 + 1
      BY <1>0, <1>2, <2>3, <2>5, Counted DEF Types
    <3>6. <<buf' \o pipe', q, ends' - gotEnds'>> \in Streams
      BY <1>2, <2>3, <2>4, <3>2, <3>3, <3>4, <3>5
    <3>7. sent' = got' \o q
      BY <1>2, <2>2, <2>5, Counted
    <3> QED
      BY <3>6, <3>7 DEF Unread
  <2>6. CASE kind = "pong"
    <3>1. text = CRLF
      BY <1>1, <2>6 DEF Pong
    <3>2. <<x[1] \o CRLF, x[2], x[3] + 1>> \in Streams
      BY <2>3, StreamGrows
    <3>3. ends' - gotEnds' = x[3] + 1
      BY <1>0, <1>2, <2>3, <2>6, Counted DEF Types
    <3>4. <<buf' \o pipe', q, ends' - gotEnds'>> \in Streams
      BY <1>2, <2>3, <2>4, <3>1, <3>2, <3>3
    <3>5. sent' = got' \o q
      BY <1>2, <2>2, <2>6, Counted
    <3> QED
      BY <3>4, <3>5 DEF Unread
  <2>7. CASE kind = "message"
    <3>1. text \in Frames
      BY <1>1, <1>2, <2>7
    <3>2. <<x[1] \o text, Append(x[2], text), x[3]>> \in Streams
      BY <2>3, <3>1, StreamGrows
    <3>3. ends' - gotEnds' = x[3]
      <4>1. LineEnds(kind) = 0
        BY <2>7, Counted
      <4>2. ends' = ends /\ gotEnds' = gotEnds
        BY <1>0, <1>2, <4>1 DEF Types
      <4> QED
        BY <2>3, <4>2
    <3>4. <<buf' \o pipe', Append(q, text), ends' - gotEnds'>> \in Streams
      BY <1>2, <2>3, <2>4, <3>2, <3>3
    <3>5. Append(got \o q, text) = got \o Append(q, text) /\ Append(q, text) \in Seq(Text)
      <4>1. got \in Seq(Text) /\ q \in Seq(Text) /\ <<text>> \in Seq(Text) /\ text \in Text
        BY <1>0, <1>1 DEF Types
      <4>2. got \o q \in Seq(Text)
        BY <4>1, ConcatProperties
      <4>3. Append(got \o q, text) = (got \o q) \o <<text>> /\ Append(q, text) = q \o <<text>>
        BY <4>1, <4>2, AppendIsConcat
      <4> QED
        BY <4>1, <4>3, ConcatAssociative, AppendProperties
    <3>6. sent' = got' \o Append(q, text)
      BY <1>2, <2>2, <2>7, <3>5, Counted
    <3> QED
      BY <3>4, <3>5, <3>6 DEF Unread
  <2> QED
    BY <1>1, <2>5, <2>6, <2>7
<1>7. Datagram'
  <2> SUFFICES ASSUME carrier = "udp" PROVE Datagram'
    BY <1>2 DEF Datagram
  <2>1. sent = <<>> /\ ends = 0 /\ got = <<>> /\ gotEnds = 0 /\ pongs = 0 /\ open = TRUE
    BY <1>0, <1>2 DEF Datagram, Types
  <2>2. pipe = <<>>
    <3> SUFFICES ASSUME pipe # <<>> PROVE FALSE
      OBVIOUS
    <3>1. sent = With(<<>>, KindOf(pipe), pipe) /\ ends = LineEnds(KindOf(pipe))
      BY <1>0 DEF Datagram
    <3>2. KindOf(pipe) \in {"ping", "pong", "message"}
      BY DEF KindOf
    <3>3. KindOf(pipe) = "message"
      BY <2>1, <3>1, <3>2, Counted
    <3>4. sent = Append(<<>>, pipe)
      BY <3>1, <3>3, Counted
    <3>5. Len(sent) = 1
      BY <1>0, <3>4, EmptyText, AppendProperties DEF Types
    <3> QED
      BY <2>1, <3>5, EmptyText
  <2>3. <<>> \o text = text
    BY <1>1, ConcatEmptySeq DEF Text
  <2>4. pipe' = text
    BY <1>2, <2>2, <2>3
  <2>5. sent' = With(<<>>, KindOf(text), text) /\ ends' = LineEnds(KindOf(text))
    BY <1>2, <1>3, <2>1 DEF kind
  <2>6. pipe' # <<>> => /\ got' = <<>> /\ gotEnds' = 0 /\ pongs' = 0
                        /\ sent' = With(<<>>, KindOf(pipe'), pipe')
                        /\ ends' = LineEnds(KindOf(pipe'))
    BY <1>2, <2>1, <2>4, <2>5
  <2> QED
    BY <1>2, <2>1, <2>6 DEF Datagram
<1> QED
  BY <1>5, <1>6, <1>7 DEF InboundInv

(* What arrives moves from the pipe to the buffer.                          *)
LEMMA ArriveSame == ASSUME InboundInv, Arrive PROVE InboundInv'
<1>0. Types /\ OnStream /\ Datagram
  BY DEF InboundInv
<1>1. PICK n \in 1..Len(pipe) : buf' = buf \o SubSeq(pipe, 1, n) /\ pipe' = Drop(pipe, n)
  BY DEF Arrive, Cuts
<1>2. carrier = "tcp" /\ UNCHANGED <<carrier, sent, ends, got, gotEnds, pongs, open>>
  BY DEF Arrive
<1>3. buf \in Text /\ pipe \in Text /\ Len(pipe) \in Nat /\ n \in 0..Len(pipe)
  BY <1>0, TextLen DEF Types
<1>4. 1 \in 1..(Len(pipe) + 1) /\ 1 <= n + 1
  BY <1>3
<1>5. SubSeq(pipe, 1, n) \in Text /\ Drop(pipe, n) \in Text
  BY <1>3, <1>4, PartOf, DropFacts
<1>6. SubSeq(pipe, 1, n) \o Drop(pipe, n) = pipe
  <2> DEFINE a == SubSeq(pipe, 1, n)
             d == Drop(pipe, n)
  <2>1. /\ a \in Text /\ Len(a) = n - 1 + 1
        /\ \A k \in 1..(n - 1 + 1) : a[k] = pipe[1 + k - 1]
    BY <1>3, <1>4, PartOf
  <2>2. /\ d \in Text /\ Len(d) = Len(pipe) - n
        /\ \A k \in 1..(Len(pipe) - n) : d[k] = pipe[n + k]
    BY <1>3, DropFacts
  <2> HIDE DEF a, d
  <2>3. /\ a \o d \in Text /\ Len(a \o d) = Len(a) + Len(d)
        /\ \A k \in 1..Len(a) : (a \o d)[k] = a[k]
        /\ \A k \in 1..Len(d) : (a \o d)[Len(a) + k] = d[k]
    BY <2>1, <2>2, Joined
  <2>4. Len(a \o d) = Len(pipe) /\ Len(a) = n
    BY <1>3, <2>1, <2>2, <2>3
  <2>5. ASSUME NEW k \in 1..Len(pipe) PROVE (a \o d)[k] = pipe[k]
    <3>1. CASE k <= n
      <4>1. k \in 1..Len(a) /\ k \in 1..(n - 1 + 1) /\ 1 + k - 1 = k
        BY <1>3, <2>4, <3>1
      <4> QED
        BY <2>1, <2>3, <4>1
    <3>2. CASE ~(k <= n)
      <4> DEFINE i == k - n
      <4>1. i \in 1..Len(d) /\ i \in 1..(Len(pipe) - n) /\ k = n + i
        BY <1>3, <2>2, <3>2
      <4> HIDE DEF i
      <4> QED
        BY <2>2, <2>3, <2>4, <4>1
    <3> QED
      BY <3>1, <3>2
  <2> QED
    BY <1>3, <2>3, <2>4, <2>5, SameText DEF a, d
<1>7. buf' \o pipe' = buf \o pipe /\ buf' \in Text /\ pipe' \in Text
  <2> DEFINE a == SubSeq(pipe, 1, n)
             d == Drop(pipe, n)
  <2>1. a \in Text /\ d \in Text /\ a \o d = pipe
    BY <1>5, <1>6
  <2>2. buf' = buf \o a /\ pipe' = d
    BY <1>1
  <2> HIDE DEF a, d
  <2>3. (buf \o a) \o d = buf \o (a \o d)
    BY <1>3, <2>1, Assoc
  <2>4. buf \o a \in Text
    BY <1>3, <2>1, JoinedText
  <2> QED
    BY <2>1, <2>2, <2>3, <2>4
<1>8. Types'
  BY <1>0, <1>2, <1>7 DEF Types
<1>9. OnStream'
  <2>1. PICK q \in Seq(Text) : Unread(q)
    BY <1>0, <1>2 DEF OnStream
  <2>2. Unread(q)'
    BY <1>2, <1>7, <2>1 DEF Unread
  <2> QED
    BY <2>2 DEF OnStream
<1>10. Datagram'
  BY <1>2 DEF Datagram
<1> QED
  BY <1>8, <1>9, <1>10 DEF InboundInv

(* What a step of tcp_read takes out of the buffer.                         *)
LEMMA Taken ==
    ASSUME TakeFrame
    PROVE  /\ carrier = "tcp" /\ open /\ UNCHANGED <<carrier, sent, ends, pipe>>
           /\ \/ /\ Starts(buf, Ping)
                 /\ buf' = Drop(buf, 4) /\ got' = got /\ gotEnds' = gotEnds + 2
                 /\ \/ pongs' = pongs + 1 /\ open' = open
                    \/ pongs' = pongs /\ open' = FALSE
              \/ /\ Starts(buf, Pong)
                 /\ buf' = Drop(buf, 2) /\ got' = got /\ gotEnds' = gotEnds + 1
                 /\ pongs' = pongs + 0 /\ open' = open
              \/ /\ ~Starts(buf, Pong) /\ Message(buf).kind = "message"
                 /\ buf' = Drop(buf, Message(buf).n)
                 /\ got' = Append(got, SubSeq(buf, 1, Message(buf).n)) /\ gotEnds' = gotEnds + 0
                 /\ pongs' = pongs + 0 /\ open' = open
<1> DEFINE f == Decode(buf)
           part == SubSeq(buf, 1, f.n)
<1>1. /\ carrier = "tcp" /\ open /\ UNCHANGED <<carrier, sent, ends, pipe>>
      /\ f.kind \in {"ping", "pong", "message"} /\ buf' = Drop(buf, f.n)
      /\ got' = With(got, f.kind, part) /\ gotEnds' = gotEnds + LineEnds(f.kind)
      /\ \/ pongs' = pongs + (IF f.kind = "ping" THEN 1 ELSE 0) /\ open' = open
         \/ f.kind = "ping" /\ pongs' = pongs /\ open' = FALSE
  BY DEF TakeFrame, TakeIn
<1>2. CASE Starts(buf, Ping)
  <2>1. f.kind = "ping" /\ f.n = 4
    BY <1>2 DEF Decode, Frame
  <2> HIDE DEF f, part
  <2> QED
    BY <1>1, <1>2, <2>1 DEF With, LineEnds
<1>3. CASE ~Starts(buf, Ping) /\ Starts(buf, Pong)
  <2>1. f.kind = "pong" /\ f.n = 2
    BY <1>3 DEF Decode, Frame
  <2> HIDE DEF f, part
  <2> QED
    BY <1>1, <1>3, <2>1 DEF With, LineEnds
<1>4. CASE ~Starts(buf, Ping) /\ ~Starts(buf, Pong)
  <2>1. f = Message(buf)
    BY <1>4 DEF Decode
  <2>2. f.kind \notin {"ping", "pong"}
    BY <2>1 DEF Message, Frame
  <2>3. f.kind = "message"
    BY <1>1, <2>2
  <2>4. part = SubSeq(buf, 1, f.n)
    OBVIOUS
  <2> HIDE DEF f, part
  <2>5. got' = Append(got, part) /\ gotEnds' = gotEnds + 0 /\ pongs' = pongs + 0 /\ open' = open
    BY <1>1, <2>3 DEF With, LineEnds
  <2> QED
    BY <1>1, <1>4, <2>1, <2>3, <2>4, <2>5
<1> QED
  BY <1>2, <1>3, <1>4

(* A message taken out of the buffer is the next one of those that were     *)
(* sent and not handed over.                                                *)
LEMMA MessageTaken ==
    ASSUME InboundInv, carrier = "tcp", ~Starts(buf, Pong), Message(buf).kind = "message"
    PROVE  /\ Drop(buf, Message(buf).n) \in Text
           /\ \E m \in Text, p \in Seq(Text) :
                /\ SubSeq(buf, 1, Message(buf).n) = m
                /\ sent = got \o (<<m>> \o p)
                /\ sent = Append(got, m) \o p
                /\ <<Drop(buf, Message(buf).n) \o pipe, p, ends - gotEnds>> \in Streams
<1>1. buf \in Text /\ pipe \in Text /\ got \in Seq(Text)
  BY DEF InboundInv, Types
<1>2. PICK q \in Seq(Text) : sent = got \o q /\ <<buf \o pipe, q, ends - gotEnds>> \in Streams
  BY DEF InboundInv, OnStream, Unread
<1> DEFINE k == Message(buf).n
           n == ends - gotEnds
<1>3. <<buf \o pipe, q, n>> \in Streams
  BY <1>2
<1>4. Drop(buf, k) \in Text /\ Ahead(buf, k, pipe, q, n)
  <2>1. k = Message(buf).n
    OBVIOUS
  <2>2. Message(buf).kind = "message" /\ ~Starts(buf, Pong)
    OBVIOUS
  <2> HIDE DEF k, n
  <2> QED
    BY <1>1, <1>3, <2>1, <2>2, OneMessage
<1> HIDE DEF k, n
<1>5. PICK m \in Frames, p \in Seq(Text) :
        SubSeq(buf, 1, k) = m /\ q = <<m>> \o p /\ <<Drop(buf, k) \o pipe, p, n>> \in Streams
  BY <1>4 DEF Ahead
<1>6. m \in Text /\ <<m>> \in Seq(Text)
  BY FrameText
<1>7. got \o (<<m>> \o p) = (got \o <<m>>) \o p
  BY <1>1, <1>6, ConcatAssociative
<1>8. Append(got, m) = got \o <<m>>
  BY <1>1, <1>6, AppendOne
<1>9. sent = got \o (<<m>> \o p) /\ sent = Append(got, m) \o p
  BY <1>2, <1>5, <1>7, <1>8
<1> QED
  BY <1>4, <1>5, <1>6, <1>9 DEF k, n

(* What is taken in is the front of the stream.                             *)
LEMMA TakeFrameSame == ASSUME InboundInv, TakeFrame PROVE InboundInv'
<1>0. Types /\ OnStream /\ Datagram
  BY DEF InboundInv
<1>1. carrier = "tcp" /\ open = TRUE /\ UNCHANGED <<carrier, sent, ends, pipe>>
  BY <1>0, Taken DEF Types
<1>2. buf \in Text /\ pipe \in Text /\ got \in Seq(Text)
  BY <1>0 DEF Types
<1>3. PICK q \in Seq(Text) : sent = got \o q /\ <<buf \o pipe, q, ends - gotEnds>> \in Streams
  BY <1>0, <1>1 DEF OnStream, Unread
<1> DEFINE n == ends - gotEnds
<1>4. <<buf \o pipe, q, n>> \in Streams
  BY <1>3
<1>5. Datagram'
  BY <1>1 DEF Datagram
<1>6. CASE /\ Starts(buf, Ping)
           /\ buf' = Drop(buf, 4) /\ got' = got /\ gotEnds' = gotEnds + 2
           /\ \/ pongs' = pongs + 1 /\ open' = open
              \/ pongs' = pongs /\ open' = FALSE
  <2> HIDE DEF n
  <2>1. n \in Nat /\ n >= 2 /\ Drop(buf, 4) \in Text /\ <<Drop(buf, 4) \o pipe, q, n - 2>> \in Streams
    BY <1>2, <1>4, <1>6, TwoEnds
  <2>2. n = ends - gotEnds
    BY DEF n
  <2>3. ends' - gotEnds' = n - 2 /\ gotEnds' <= ends' /\ gotEnds' \in Nat
    BY <1>0, <1>1, <1>6, <2>1, <2>2 DEF Types
  <2>4. Types'
    <3>1. pongs' = pongs + 1 \/ pongs' = pongs
      BY <1>6
    <3>2. pongs' \in Nat /\ 2 * pongs' <= gotEnds'
      BY <1>0, <1>6, <3>1 DEF Types
    <3>3. open' \in BOOLEAN
      BY <1>1, <1>6
    <3> QED
      BY <1>0, <1>1, <1>6, <2>1, <2>3, <3>2, <3>3 DEF Types
  <2>5. Unread(q)'
    BY <1>1, <1>3, <1>6, <2>1, <2>3 DEF Unread
  <2> QED
    BY <1>5, <2>4, <2>5 DEF InboundInv, OnStream
<1>7. CASE /\ Starts(buf, Pong)
           /\ buf' = Drop(buf, 2) /\ got' = got /\ gotEnds' = gotEnds + 1
           /\ pongs' = pongs + 0 /\ open' = open
  <2> HIDE DEF n
  <2>1. n \in Nat /\ n >= 1 /\ Drop(buf, 2) \in Text /\ <<Drop(buf, 2) \o pipe, q, n - 1>> \in Streams
    BY <1>2, <1>4, <1>7, OneEnd
  <2>2. n = ends - gotEnds
    BY DEF n
  <2>3. ends' - gotEnds' = n - 1 /\ gotEnds' <= ends' /\ gotEnds' \in Nat
    BY <1>0, <1>1, <1>7, <2>1, <2>2 DEF Types
  <2>4. Types'
    BY <1>0, <1>1, <1>7, <2>1, <2>3 DEF Types
  <2>5. Unread(q)'
    BY <1>1, <1>3, <1>7, <2>1, <2>3 DEF Unread
  <2> QED
    BY <1>5, <2>4, <2>5 DEF InboundInv, OnStream
<1>8. CASE /\ ~Starts(buf, Pong) /\ Message(buf).kind = "message"
           /\ buf' = Drop(buf, Message(buf).n)
           /\ got' = Append(got, SubSeq(buf, 1, Message(buf).n)) /\ gotEnds' = gotEnds + 0
           /\ pongs' = pongs + 0 /\ open' = open
  <2> DEFINE k == Message(buf).n
  <2>1. /\ Drop(buf, k) \in Text
        /\ \E m \in Text, p \in Seq(Text) :
             /\ SubSeq(buf, 1, k) = m
             /\ sent = got \o (<<m>> \o p) /\ sent = Append(got, m) \o p
             /\ <<Drop(buf, k) \o pipe, p, ends - gotEnds>> \in Streams
    BY <1>1, <1>8, MessageTaken
  <2>2. buf' = Drop(buf, k) /\ got' = Append(got, SubSeq(buf, 1, k))
    BY <1>8
  <2> HIDE DEF k, n
  <2>3. PICK m \in Text, p \in Seq(Text) :
             /\ SubSeq(buf, 1, k) = m
             /\ sent = got \o (<<m>> \o p) /\ sent = Append(got, m) \o p
             /\ <<Drop(buf, k) \o pipe, p, ends - gotEnds>> \in Streams
    BY <2>1
  <2>4. got' = Append(got, m) /\ got' \in Seq(Text)
    BY <1>2, <2>2, <2>3, AppendProperties
  <2>5. gotEnds' = gotEnds /\ pongs' = pongs
    BY <1>0, <1>8 DEF Types
  <2>6. Types'
    <3>1. open' \in BOOLEAN /\ buf' \in Text
      BY <1>1, <1>8, <2>1, <2>2
    <3> QED
      BY <1>0, <1>1, <2>4, <2>5, <3>1 DEF Types
  <2>7. Unread(p)'
    BY <1>1, <2>2, <2>3, <2>4, <2>5 DEF Unread
  <2> QED
    BY <1>5, <2>6, <2>7 DEF InboundInv, OnStream
<1> QED
  BY <1>6, <1>7, <1>8, Taken

(* The one datagram is taken in whole.                                      *)
LEMMA TakeDatagramSame == ASSUME InboundInv, TakeDatagram PROVE InboundInv'
<1>0. Types /\ OnStream /\ Datagram
  BY DEF InboundInv
<1> DEFINE kind == KindOf(pipe)
<1>1. /\ carrier = "udp" /\ pipe # <<>> /\ pipe' = <<>>
      /\ got' = With(got, kind, pipe) /\ gotEnds' = gotEnds + LineEnds(kind)
      /\ pongs' \in {pongs, pongs + (IF pipe = Ping THEN 1 ELSE 0)}
      /\ UNCHANGED <<carrier, sent, ends, buf, open>>
  BY DEF TakeDatagram, TakeIn
<1>2. /\ got = <<>> /\ gotEnds = 0 /\ pongs = 0 /\ open = TRUE
      /\ sent = With(<<>>, kind, pipe) /\ ends = LineEnds(kind)
  BY <1>0, <1>1 DEF Datagram
<1>3. got' = sent /\ gotEnds' = ends
  BY <1>0, <1>1, <1>2 DEF Types
<1>4. pongs' \in Nat /\ 2 * pongs' <= gotEnds'
  <2>1. CASE pipe = Ping
    <3>1. kind = "ping"
      BY <2>1, PingNotPong DEF KindOf
    <3>2. ends = LineEnds("ping")
      BY <1>2, <3>1
    <3>3. ends = 2
      BY <3>2, Counted
    <3>4. pongs' = 0 \/ pongs' = 1
      BY <1>1, <1>2, <2>1
    <3> QED
      BY <1>3, <3>3, <3>4
  <2>2. CASE pipe # Ping
    BY <1>0, <1>1, <1>2, <1>3, <2>2 DEF Types
  <2> QED
    BY <2>1, <2>2
<1> HIDE DEF kind
<1>5. Types'
  BY <1>0, <1>1, <1>3, <1>4, EmptyText DEF Types
<1>6. OnStream' /\ Datagram'
  BY <1>1, <1>2, <1>3 DEF OnStream, Datagram
<1> QED
  BY <1>5, <1>6 DEF InboundInv

(* Every step keeps the invariant.                                          *)
LEMMA InboundStep == ASSUME InboundInv, [Transfer]_inbound PROVE InboundInv'
<1>1. ASSUME GiveUp PROVE InboundInv'
  BY <1>1 DEF GiveUp, InboundInv, Types, OnStream, Unread, Datagram
<1>2. ASSUME Lose PROVE InboundInv'
  BY <1>2, EmptyText DEF Lose, InboundInv, Types, OnStream, Unread, Datagram
<1>3. ASSUME UNCHANGED inbound PROVE InboundInv'
  BY <1>3 DEF inbound, InboundInv, Types, OnStream, Unread, Datagram
<1> QED
  BY <1>1, <1>2, <1>3, SendSame, ArriveSame, TakeFrameSame, TakeDatagramSame DEF Transfer, Reading

LEMMA Always == InboundSpec => []InboundInv
BY InboundInit, InboundStep, PTL DEF InboundSpec

-----------------------------------------------------------------------------
(* No keep-alive is lost in a message, and no more are answered than came:  *)
(* a stream of which nothing is left has no line end left.                  *)
THEOREM KeepalivesKept == InboundSpec => []KeepalivesConserved
<1>1. InboundInv => KeepalivesConserved
  <2> SUFFICES ASSUME InboundInv PROVE KeepalivesConserved
    OBVIOUS
  <2>1. 2 * pongs <= ends /\ gotEnds <= ends
    BY DEF InboundInv, Types
  <2>2. ASSUME carrier = "tcp", pipe = <<>>, buf = <<>> PROVE gotEnds = ends
    <3>1. PICK q \in Seq(Text) : <<buf \o pipe, q, ends - gotEnds>> \in Streams
      BY <2>2 DEF InboundInv, OnStream, Unread
    <3>2. buf \o pipe = <<>>
      BY <2>2, EmptyText, ConcatEmptySeq
    <3>3. ends - gotEnds = 0
      BY <3>1, <3>2, NothingLeft
    <3> QED
      BY <3>3 DEF InboundInv, Types
  <2> QED
    BY <2>1, <2>2 DEF KeepalivesConserved
<1> QED
  BY <1>1, Always, PTL

(* Two lists of messages, one behind the other.                             *)
LEMMA JoinedLists ==
    ASSUME NEW a \in Seq(Text), NEW b \in Seq(Text)
    PROVE  /\ a \o b \in Seq(Text) /\ Len(a \o b) = Len(a) + Len(b)
           /\ \A i \in 1..(Len(a) + Len(b)) : (a \o b)[i] = IF i <= Len(a) THEN a[i] ELSE b[i - Len(a)]
<1> DEFINE S == Text
<1>1. a \in Seq(S) /\ b \in Seq(S)
  OBVIOUS
<1> HIDE DEF S
<1>2. /\ a \o b \in Seq(S) /\ Len(a \o b) = Len(a) + Len(b)
      /\ \A i \in 1..(Len(a) + Len(b)) : (a \o b)[i] = IF i <= Len(a) THEN a[i] ELSE b[i - Len(a)]
  BY <1>1, ConcatProperties
<1> QED
  BY <1>2 DEF S

(* The next one of the messages that were sent and not handed over.         *)
LEMMA NextOne ==
    ASSUME NEW a \in Seq(Text), NEW m \in Text, NEW p \in Seq(Text)
    PROVE  Len(a) < Len(a \o (<<m>> \o p)) /\ (a \o (<<m>> \o p))[Len(a) + 1] = m
<1>1. <<m>> \in Seq(Text) /\ Len(<<m>>) = 1 /\ <<m>>[1] = m
  OBVIOUS
<1> DEFINE b == <<m>> \o p
<1>2. b \in Seq(Text) /\ Len(b) = 1 + Len(p) /\ b[1] = m
  BY <1>1, ConcatProperties, LenProperties
<1> HIDE DEF b
<1>3. Len(a) \in Nat /\ Len(b) \in Nat /\ Len(p) \in Nat
  BY <1>2, LenProperties
<1>4. /\ Len(a \o b) = Len(a) + Len(b)
      /\ \A i \in 1..(Len(a) + Len(b)) : (a \o b)[i] = IF i <= Len(a) THEN a[i] ELSE b[i - Len(a)]
  BY <1>2, JoinedLists
<1>5. Len(a) + 1 \in 1..(Len(a) + Len(b)) /\ ~(Len(a) + 1 <= Len(a)) /\ (Len(a) + 1) - Len(a) = 1
  BY <1>2, <1>3
<1>6. (a \o b)[Len(a) + 1] = b[1]
  BY <1>4, <1>5
<1>7. Len(a) < Len(a \o b)
  BY <1>2, <1>3, <1>4
<1> QED
  BY <1>2, <1>6, <1>7 DEF b

(* Every step of the carriers and the decoder is one the message stream     *)
(* allows: what is handed over is the next message the peer wrote.          *)
LEMMA FramingStep ==
    ASSUME InboundInv, [Transfer]_inbound
    PROVE  [Stream!Next]_<<sent, got, open>>
<1>0. Types /\ OnStream /\ Datagram
  BY DEF InboundInv
<1>1. ASSUME NEW text \in StreamItems \cup Datagrams, Send(text)
      PROVE  Stream!Write \/ UNCHANGED <<sent, got, open>>
  <2>1. /\ sent' = With(sent, KindOf(text), text)
        /\ got' = got /\ open' = open
    BY <1>1 DEF Send
  <2>2. CASE KindOf(text) = "message"
    <3>1. text \in Messages
      BY <2>2 DEF Messages
    <3>2. sent' = Append(sent, text)
      BY <2>1, <2>2 DEF With
    <3> QED
      BY <2>1, <3>1, <3>2 DEF Stream!Write
  <2>3. CASE KindOf(text) # "message"
    BY <2>1, <2>3 DEF With
  <2> QED
    BY <2>2, <2>3
<1>2. ASSUME TakeFrame PROVE Stream!HandOver \/ Stream!GiveUp \/ UNCHANGED <<sent, got, open>>
  <2>1. carrier = "tcp" /\ open = TRUE /\ sent' = sent
    BY <1>0, <1>2, Taken DEF Types
  <2>2. ASSUME got' = got, open' = open \/ open' = FALSE
        PROVE  Stream!GiveUp \/ UNCHANGED <<sent, got, open>>
    BY <2>1, <2>2 DEF Stream!GiveUp
  <2>3. ASSUME ~Starts(buf, Pong), Message(buf).kind = "message",
               got' = Append(got, SubSeq(buf, 1, Message(buf).n)), open' = open
        PROVE  Stream!HandOver
    <3>1. PICK m \in Text, p \in Seq(Text) :
            SubSeq(buf, 1, Message(buf).n) = m /\ sent = got \o (<<m>> \o p)
      BY <2>1, <2>3, MessageTaken
    <3>2. Len(got) < Len(sent) /\ sent[Len(got) + 1] = m
      BY <1>0, <3>1, NextOne DEF Types
    <3>3. got' = Append(got, sent[Len(got) + 1])
      BY <2>3, <3>1, <3>2
    <3> QED
      BY <2>1, <2>3, <3>2, <3>3 DEF Stream!HandOver
  <2> QED
    BY <1>2, <2>2, <2>3, Taken
<1>3. ASSUME TakeDatagram PROVE Stream!HandOver \/ UNCHANGED <<sent, got, open>>
  <2>1. /\ carrier = "udp" /\ pipe # <<>> /\ got' = With(got, KindOf(pipe), pipe)
        /\ sent' = sent /\ open' = open
    BY <1>3 DEF TakeDatagram, TakeIn
  <2>2. open = TRUE /\ got = <<>> /\ sent = With(<<>>, KindOf(pipe), pipe)
    BY <1>0, <2>1 DEF Datagram
  <2>3. CASE KindOf(pipe) = "message"
    <3>1. sent = Append(<<>>, pipe) /\ got' = Append(<<>>, pipe)
      BY <2>1, <2>2, <2>3 DEF With
    <3>2. Len(got) = 0 /\ Len(sent) = 1 /\ sent[1] = pipe
      BY <1>0, <2>2, <3>1, EmptyText, AppendProperties DEF Types
    <3>3. Len(got) + 1 = 1
      BY <3>2
    <3>4. Len(got) < Len(sent)
      BY <3>2
    <3>5. got' = Append(got, sent[Len(got) + 1])
      BY <2>2, <3>1, <3>2, <3>3
    <3> QED
      BY <2>1, <2>2, <3>4, <3>5 DEF Stream!HandOver
  <2>4. CASE KindOf(pipe) # "message"
    BY <2>1, <2>4 DEF With
  <2> QED
    BY <2>3, <2>4
<1>4. ASSUME Arrive \/ Lose \/ UNCHANGED inbound PROVE UNCHANGED <<sent, got, open>>
  BY <1>4 DEF Arrive, Lose, inbound
<1>5. ASSUME GiveUp PROVE Stream!GiveUp
  BY <1>5 DEF GiveUp, Stream!GiveUp
<1> QED
  BY <1>1, <1>2, <1>3, <1>4, <1>5 DEF Transfer, Reading, Stream!Next

(* The carriers and the frame decoder implement the message stream: what    *)
(* the peer wrote is handed over whole, in order and once, however the      *)
(* stream is cut, until the connection is given up.                         *)
THEOREM FramingHolds == InboundSpec => Framing
<1>1. Idle => Stream!Init
  BY DEF Idle, Stream!Init
<1> QED
  BY <1>1, FramingStep, Always, PTL DEF InboundSpec, Framing, Stream!Spec

=============================================================================
