---------------------------- MODULE RoutesProofs ----------------------------
(***************************************************************************)
(* What holds of route sets for every request and whatever else is sent.   *)
(* Removing a header and inserting one are the same relation, InsertedAt,  *)
(* read in two directions; what is there before process_route_set is       *)
(* followed through both (LaterIn, BeforeIn) and back.                     *)
(***************************************************************************)
EXTENDS Routes, SequenceTheorems, WellFoundedInduction, TLAPS

(* Which position a search returns: one of those that it looks for.         *)
LEMMA Least == ASSUME NEW S \in SUBSET Nat, S # {} PROVE Min(S) \in S
<1> DEFINE R == {p \in Nat \X Nat : p[1] < p[2]}
<1>1. IsWellFoundedOn(R, Nat)
  BY NatLessThanWellFounded DEF OpToRel
<1>2. PICK x \in S : \A y \in S : <<y, x>> \notin R
  <2> HIDE DEF R
  <2> QED
    BY <1>1, WFMin
<1>3. ASSUME NEW y \in S PROVE x <= y
  <2>1. x \in Nat /\ y \in Nat
    OBVIOUS
  <2>2. y < x => <<y, x>> \in R
    BY <2>1
  <2> HIDE DEF R
  <2> QED
    BY <1>2, <2>1, <2>2
<1> QED
  BY <1>3 DEF Min

LEMMA Greatest == ASSUME NEW n \in Nat, NEW S \in SUBSET (1..n), S # {} PROVE Max(S) \in S
<1> DEFINE R == {p \in Nat \X Nat : p[1] < p[2]}
           T == {n - x : x \in S}
<1>1. IsWellFoundedOn(R, Nat)
  BY NatLessThanWellFounded DEF OpToRel
<1>2. T \in SUBSET Nat /\ T # {}
  <2>1. ASSUME NEW x \in S PROVE n - x \in Nat
    OBVIOUS
  <2> QED
    BY <2>1
<1>3. PICK y \in T : \A z \in T : <<z, y>> \notin R
  <2> HIDE DEF R, T
  <2> QED
    BY <1>1, <1>2, WFMin
<1>4. PICK x \in S : y = n - x
  OBVIOUS
<1>5. ASSUME NEW z \in S PROVE z <= x
  <2>1. n - z \in T /\ <<n - z, y>> \notin R
    BY <1>3
  <2>2. x \in 1..n /\ z \in 1..n
    OBVIOUS
  <2>3. ~(n - z < n - x)
    BY <1>4, <2>1, <2>2
  <2> QED
    BY <2>2, <2>3
<1> QED
  BY <1>5 DEF Max

-----------------------------------------------------------------------------
(* Lists with one more element.                                             *)

(* t is s with e put in at p.                                               *)
InsertedAt(t, s, p, e) ==
    /\ p \in 1..(Len(s) + 1) /\ Len(s) \in Nat /\ Len(t) = Len(s) + 1
    /\ DOMAIN s = 1..Len(s) /\ DOMAIN t = 1..Len(t)
    /\ \A k \in 1..Len(s) : k < p => t[k] = s[k]
    /\ \A k \in 1..Len(s) : k >= p => t[k + 1] = s[k]
    /\ t[p] = e

(* A list is a function on its positions.                                   *)
LEMMA SeqFacts ==
    ASSUME NEW S, NEW s \in Seq(S)
    PROVE  Len(s) \in Nat /\ DOMAIN s = 1..Len(s) /\ \A k \in 1..Len(s) : s[k] \in S
BY LenProperties

(* A part of a list, by its elements.                                       *)
LEMMA Parts ==
    ASSUME NEW S, NEW s \in Seq(S), NEW i \in 1..(Len(s) + 1), NEW j \in 0..Len(s), i <= j + 1
    PROVE  /\ SubSeq(s, i, j) \in Seq(S) /\ Len(SubSeq(s, i, j)) = j - i + 1
           /\ \A k \in 1..(j - i + 1) : SubSeq(s, i, j)[k] = s[i + k - 1]
<1>1. \A k \in i..j : s[k] \in S
  BY SeqFacts
<1> QED
  BY <1>1, SeqFacts, SubSeqProperties

(* r is s with t behind it.                                                 *)
Joined(r, s, t) ==
    /\ Len(s) \in Nat /\ Len(t) \in Nat
    /\ Len(r) = Len(s) + Len(t) /\ DOMAIN r = 1..Len(r)
    /\ \A k \in 1..Len(s) : r[k] = s[k]
    /\ \A k \in 1..Len(t) : r[Len(s) + k] = t[k]

(* Two lists, one behind the other.                                         *)
LEMMA Concat ==
    ASSUME NEW S, NEW s \in Seq(S), NEW t \in Seq(S)
    PROVE  s \o t \in Seq(S) /\ Joined(s \o t, s, t)
<1>1. /\ s \o t \in Seq(S) /\ Len(s \o t) = Len(s) + Len(t)
      /\ \A k \in 1..Len(s) : (s \o t)[k] = s[k]
      /\ \A k \in 1..Len(t) : (s \o t)[Len(s) + k] = t[k]
  BY ConcatProperties, LenProperties
<1> QED
  BY <1>1, SeqFacts DEF Joined

(* RemoveAt takes out the element at i, and nothing else.                   *)
LEMMA Removed ==
    ASSUME NEW S, NEW s \in Seq(S), NEW i \in 1..Len(s)
    PROVE  RemoveAt(s, i) \in Seq(S) /\ InsertedAt(s, RemoveAt(s, i), i, s[i])
<1> DEFINE a == SubSeq(s, 1, i - 1)
           b == SubSeq(s, i + 1, Len(s))
           t == a \o b
<1>1. Len(s) \in Nat /\ DOMAIN s = 1..Len(s) /\ i \in 1..Len(s)
  BY SeqFacts
<1>2. /\ a \in Seq(S) /\ Len(a) = i - 1
      /\ \A k \in 1..(i - 1) : a[k] = s[k]
  <2>1. /\ a \in Seq(S) /\ Len(a) = i - 1 - 1 + 1
        /\ \A k \in 1..(i - 1 - 1 + 1) : a[k] = s[1 + k - 1]
    BY <1>1, Parts
  <2> HIDE DEF a
  <2> QED
    BY <1>1, <2>1
<1>3. /\ b \in Seq(S) /\ Len(b) = Len(s) - i
      /\ \A k \in 1..(Len(s) - i) : b[k] = s[i + k]
  <2>1. i + 1 \in 1..(Len(s) + 1) /\ Len(s) \in 0..Len(s) /\ i + 1 <= Len(s) + 1
    BY <1>1
  <2>2. /\ b \in Seq(S) /\ Len(b) = Len(s) - (i + 1) + 1
        /\ \A k \in 1..(Len(s) - (i + 1) + 1) : b[k] = s[i + 1 + k - 1]
    BY <2>1, Parts
  <2> HIDE DEF b
  <2>3. Len(s) - (i + 1) + 1 = Len(s) - i
    BY <1>1
  <2>4. ASSUME NEW k \in 1..(Len(s) - i) PROVE b[k] = s[i + k]
    <3>1. i + 1 + k - 1 = i + k
      BY <1>1
    <3> QED
      BY <2>2, <2>3, <3>1
  <2> QED
    BY <2>2, <2>3, <2>4
<1> HIDE DEF a, b
<1>4. t \in Seq(S) /\ Joined(t, a, b)
  BY <1>2, <1>3, Concat
<1>5. RemoveAt(s, i) = t
  BY DEF RemoveAt, a, b
<1> HIDE DEF t
<1>6. Len(t) = Len(s) - 1 /\ DOMAIN t = 1..Len(t)
  BY <1>1, <1>2, <1>3, <1>4 DEF Joined
<1>7. ASSUME NEW k \in 1..Len(t), k < i PROVE s[k] = t[k]
  BY <1>1, <1>2, <1>4, <1>6, <1>7 DEF Joined
<1>8. ASSUME NEW k \in 1..Len(t), k >= i PROVE s[k + 1] = t[k]
  <2> DEFINE j == k - (i - 1)
  <2>1. j \in 1..Len(b) /\ k = Len(a) + j /\ i + j = k + 1
    BY <1>1, <1>2, <1>3, <1>6, <1>8
  <2> HIDE DEF j
  <2> QED
    BY <1>3, <1>4, <2>1 DEF Joined
<1> QED
  BY <1>1, <1>4, <1>5, <1>6, <1>7, <1>8 DEF InsertedAt

(* InsertAt puts one in at i.                                               *)
LEMMA Inserted ==
    ASSUME NEW S, NEW s \in Seq(S), NEW i \in 1..Len(s), NEW e \in S
    PROVE  InsertAt(s, i, e) \in Seq(S) /\ InsertedAt(InsertAt(s, i, e), s, i, e)
<1> DEFINE a == SubSeq(s, 1, i - 1)
           b == SubSeq(s, i, Len(s))
           one == <<e>>
           c == a \o one
           t == c \o b
<1>1. Len(s) \in Nat /\ DOMAIN s = 1..Len(s) /\ i \in 1..Len(s)
  BY SeqFacts
<1>2. /\ a \in Seq(S) /\ Len(a) = i - 1
      /\ \A k \in 1..(i - 1) : a[k] = s[k]
  <2>1. /\ a \in Seq(S) /\ Len(a) = i - 1 - 1 + 1
        /\ \A k \in 1..(i - 1 - 1 + 1) : a[k] = s[1 + k - 1]
    BY <1>1, Parts
  <2> HIDE DEF a
  <2> QED
    BY <1>1, <2>1
<1>3. /\ b \in Seq(S) /\ Len(b) = Len(s) - i + 1
      /\ \A k \in 1..(Len(s) - i + 1) : b[k] = s[i + k - 1]
  <2>1. i \in 1..(Len(s) + 1) /\ Len(s) \in 0..Len(s) /\ i <= Len(s) + 1
    BY <1>1
  <2> QED
    BY <2>1, Parts
<1>4. one \in Seq(S) /\ Len(one) = 1 /\ one[1] = e
  OBVIOUS
<1>5. InsertAt(s, i, e) = t
  BY DEF InsertAt
<1> HIDE DEF a, b, one
<1>6. c \in Seq(S) /\ Joined(c, a, one)
  BY <1>2, <1>4, Concat
<1> HIDE DEF c
<1>7. t \in Seq(S) /\ Joined(t, c, b)
  BY <1>3, <1>6, Concat
<1> HIDE DEF t
<1>8. /\ Len(c) = i /\ c[i] = e
      /\ \A k \in 1..(i - 1) : c[k] = s[k]
  <2>1. c[Len(a) + 1] = e
    BY <1>4, <1>6 DEF Joined
  <2> QED
    BY <1>1, <1>2, <1>4, <1>6, <2>1 DEF Joined
<1>9. Len(t) = Len(s) + 1 /\ DOMAIN t = 1..Len(t) /\ t[i] = e
  BY <1>1, <1>3, <1>7, <1>8 DEF Joined
<1>10. ASSUME NEW k \in 1..Len(s), k < i PROVE t[k] = s[k]
  BY <1>1, <1>7, <1>8, <1>10 DEF Joined
<1>11. ASSUME NEW k \in 1..Len(s), k >= i PROVE t[k + 1] = s[k]
  <2> DEFINE j == k - i + 1
  <2>1. j \in 1..Len(b) /\ k + 1 = Len(c) + j /\ i + j - 1 = k
    BY <1>1, <1>3, <1>8, <1>11
  <2> HIDE DEF j
  <2> QED
    BY <1>3, <1>7, <2>1 DEF Joined
<1> QED
  BY <1>1, <1>5, <1>7, <1>9, <1>10, <1>11 DEF InsertedAt

(* Append puts one in behind the last.                                      *)
LEMMA Appended ==
    ASSUME NEW S, NEW s \in Seq(S), NEW e \in S
    PROVE  Append(s, e) \in Seq(S) /\ InsertedAt(Append(s, e), s, Len(s) + 1, e)
<1>1. Len(s) \in Nat /\ DOMAIN s = 1..Len(s)
  BY SeqFacts
<1>2. /\ Append(s, e) \in Seq(S) /\ Len(Append(s, e)) = Len(s) + 1
      /\ \A k \in 1..Len(s) : Append(s, e)[k] = s[k]
      /\ Append(s, e)[Len(s) + 1] = e
  BY AppendProperties
<1>3. DOMAIN Append(s, e) = 1..Len(Append(s, e))
  BY <1>2, SeqFacts
<1> QED
  BY <1>1, <1>2, <1>3 DEF InsertedAt

(* PutBack puts the route in somewhere, whatever else is there.             *)
LEMMA PutsBack ==
    ASSUME NEW S, NEW s \in Seq(S), NEW e \in S
    PROVE  \E p \in 1..(Len(s) + 1) : InsertedAt(PutBack(s, e), s, p, e)
<1> DEFINE I == {k \in 1..Len(s) : IsRoute(s[k])}
<1>1. Len(s) \in Nat
  BY SeqFacts
<1>2. CASE I = {}
  <2>1. SelectLastInSeq(s, IsRoute) = 0
    BY <1>2 DEF SelectLastInSeq
  <2> QED
    BY <1>1, <2>1, Appended DEF PutBack
<1>3. CASE I # {}
  <2> DEFINE last == Max(I)
  <2>1. last \in I
    BY <1>1, <1>3, Greatest
  <2>2. SelectLastInSeq(s, IsRoute) = last
    BY <1>3 DEF SelectLastInSeq
  <2> HIDE DEF last
  <2>3. last \in 1..Len(s) /\ last # 0
    BY <1>1, <2>1
  <2>4. PutBack(s, e) = InsertAt(s, last, e)
    BY <2>2, <2>3 DEF PutBack
  <2> QED
    BY <1>1, <2>3, <2>4, Inserted
<1> QED
  BY <1>2, <1>3

-----------------------------------------------------------------------------
(* What a route set names, and in which order.                             *)

(* It names one more hop.                                                   *)
LEMMA NamedInserted ==
    ASSUME NEW t, NEW s, NEW p, NEW e, InsertedAt(t, s, p, e), IsRoute(e)
    PROVE  Named(t) = Named(s) \cup {Address(e)}
<1>1. ASSUME NEW k \in RoutesOf(s) PROVE Address(s[k]) \in Named(t)
  <2> DEFINE j == IF k < p THEN k ELSE k + 1
  <2>1. j \in DOMAIN t /\ t[j] = s[k]
    BY DEF InsertedAt, RoutesOf
  <2> HIDE DEF j
  <2> QED
    BY <2>1 DEF RoutesOf, Named
<1>2. p \in RoutesOf(t) /\ t[p] = e
  BY DEF InsertedAt, RoutesOf
<1>3. ASSUME NEW k \in RoutesOf(t) PROVE Address(t[k]) \in Named(s) \cup {Address(e)}
  <2>1. CASE k = p
    BY <1>2, <2>1
  <2>2. CASE k # p
    <3> DEFINE j == IF k < p THEN k ELSE k - 1
    <3>1. j \in DOMAIN s /\ t[k] = s[j]
      <4>1. k \in 1..(Len(s) + 1) /\ p \in 1..(Len(s) + 1) /\ Len(s) \in Nat
        BY DEF InsertedAt, RoutesOf
      <4>2. CASE k < p
        BY <4>1, <4>2 DEF InsertedAt
      <4>3. CASE ~(k < p)
        <5>1. k - 1 \in 1..Len(s) /\ k - 1 >= p /\ k - 1 + 1 = k
          BY <2>2, <4>1, <4>3
        <5>2. t[k - 1 + 1] = s[k - 1]
          BY <5>1 DEF InsertedAt
        <5> QED
          BY <4>3, <5>1, <5>2 DEF InsertedAt
      <4> QED
        BY <4>2, <4>3
    <3> HIDE DEF j
    <3> QED
      BY <3>1 DEF RoutesOf, Named
  <2> QED
    BY <2>1, <2>2
<1>4. Named(s) \cup {Address(e)} \subseteq Named(t)
  BY <1>1, <1>2 DEF Named
<1>5. Named(t) \subseteq Named(s) \cup {Address(e)}
  BY <1>3 DEF Named
<1> QED
  BY <1>4, <1>5

(* Where a header of s is in t, and one of t, but for e, in s.              *)
Later(k, p) == IF k < p THEN k ELSE k + 1
Before(k, p) == IF k < p THEN k ELSE k - 1

(* Every header of s is in t, not in the place of e.                        *)
LEMMA LaterIn ==
    ASSUME NEW t, NEW s, NEW p, NEW e, InsertedAt(t, s, p, e), NEW k \in DOMAIN s
    PROVE  /\ Later(k, p) \in DOMAIN t /\ t[Later(k, p)] = s[k]
           /\ Later(k, p) # p /\ Before(Later(k, p), p) = k
BY DEF InsertedAt, Later, Before

(* Every header of t is in s, but for the one at p.                         *)
LEMMA BeforeIn ==
    ASSUME NEW t, NEW s, NEW p, NEW e, InsertedAt(t, s, p, e), NEW k \in DOMAIN t, k # p
    PROVE  /\ Before(k, p) \in DOMAIN s /\ s[Before(k, p)] = t[k]
           /\ Later(Before(k, p), p) = k
<1>1. k \in 1..(Len(s) + 1) /\ p \in 1..(Len(s) + 1) /\ Len(s) \in Nat
  BY DEF InsertedAt
<1>2. CASE k < p
  BY <1>1, <1>2 DEF InsertedAt, Later, Before
<1>3. CASE ~(k < p)
  <2>1. k - 1 \in 1..Len(s) /\ k - 1 >= p /\ k - 1 + 1 = k
    BY <1>1, <1>3
  <2>2. t[k - 1 + 1] = s[k - 1]
    BY <2>1 DEF InsertedAt
  <2> QED
    BY <1>1, <1>3, <2>1, <2>2 DEF InsertedAt, Later, Before
<1> QED
  BY <1>2, <1>3

(* The places keep their order.                                             *)
LEMMA LaterInOrder ==
    ASSUME NEW p \in Int, NEW j \in Int, NEW k \in Int, j < k
    PROVE  /\ Later(j, p) < Later(k, p)
           /\ j # p /\ k # p => Before(j, p) < Before(k, p)
BY DEF Later, Before

(* One route that is not loose is taken out of hs, and one that leads to uri *)
(* is put in.                                                               *)
LEMMA LooseAfter ==
    ASSUME NEW hs, NEW ls, NEW i, InsertedAt(hs, ls, i, hs[i]), Strict(hs[i]),
           NEW ns, NEW p, NEW e, InsertedAt(ns, ls, p, e), NEW uri, Address(e) = uri
    PROVE  LooseKept(hs, ns, uri)
<1> DEFINE f == [k \in LooseOf(hs) |-> Later(Before(k, i), p)]
<1>1. ASSUME NEW k \in LooseOf(hs)
      PROVE  /\ k \in DOMAIN hs /\ k # i /\ Before(k, i) \in DOMAIN ls
             /\ f[k] \in LooseOf(ns) /\ ns[f[k]] = hs[k] /\ k \in Int
  <2>1. k \in DOMAIN hs /\ IsRoute(hs[k]) /\ ~Strict(hs[k]) /\ k # i /\ k \in Int
    BY DEF LooseOf, RoutesOf, InsertedAt
  <2>2. Before(k, i) \in DOMAIN ls /\ ls[Before(k, i)] = hs[k]
    BY <2>1, BeforeIn
  <2>3. /\ Later(Before(k, i), p) \in DOMAIN ns
        /\ ns[Later(Before(k, i), p)] = ls[Before(k, i)]
    BY <2>2, LaterIn
  <2> QED
    BY <2>1, <2>2, <2>3 DEF LooseOf, RoutesOf
<1>2. f \in [LooseOf(hs) -> LooseOf(ns)]
  BY <1>1
<1>3. i \in Int /\ p \in Int /\ DOMAIN ls \subseteq Int
  BY DEF InsertedAt
<1>4. ASSUME NEW j \in LooseOf(hs), NEW k \in LooseOf(hs), j < k PROVE f[j] < f[k]
  <2>1. Before(j, i) < Before(k, i)
    BY <1>1, <1>3, <1>4, LaterInOrder
  <2>2. Before(j, i) \in Int /\ Before(k, i) \in Int
    BY <1>1, <1>3
  <2> QED
    BY <1>3, <2>1, <2>2, LaterInOrder
<1>5. ASSUME NEW k \in LooseOf(ns), k # p PROVE k \in {f[l] : l \in LooseOf(hs)}
  <2>1. k \in DOMAIN ns /\ IsRoute(ns[k]) /\ ~Strict(ns[k])
    BY DEF LooseOf, RoutesOf
  <2> DEFINE j == Before(k, p)
             l == Later(j, i)
  <2>2. j \in DOMAIN ls /\ ls[j] = ns[k] /\ Later(j, p) = k
    BY <1>5, <2>1, BeforeIn
  <2> HIDE DEF j
  <2>3. l \in DOMAIN hs /\ hs[l] = ls[j] /\ Before(l, i) = j
    BY <2>2, LaterIn
  <2> HIDE DEF l
  <2>4. l \in LooseOf(hs)
    BY <2>1, <2>2, <2>3 DEF LooseOf, RoutesOf
  <2>5. f[l] = k
    BY <2>2, <2>3, <2>4
  <2> QED
    BY <2>4, <2>5
<1>6. Address(ns[p]) = uri
  BY DEF InsertedAt
<1> HIDE DEF f
<1>7. \A j, k \in LooseOf(ns) \ {f[l] : l \in LooseOf(hs)} : j = k /\ Address(ns[k]) = uri
  BY <1>5, <1>6
<1>8. \A k \in LooseOf(hs) : ns[f[k]] = hs[k]
  BY <1>1
<1> QED
  BY <1>2, <1>4, <1>7, <1>8 DEF LooseKept

(* Nothing is lost where nothing is done.                                   *)
LEMMA LooseSame == ASSUME NEW hs, DOMAIN hs \subseteq Int, NEW uri PROVE LooseKept(hs, hs, uri)
<1> DEFINE f == [k \in LooseOf(hs) |-> k]
<1>1. f \in [LooseOf(hs) -> LooseOf(hs)] /\ \A k \in LooseOf(hs) : f[k] = k
  OBVIOUS
<1> HIDE DEF f
<1>2. {f[l] : l \in LooseOf(hs)} = LooseOf(hs)
  BY <1>1
<1>3. \A j, k \in LooseOf(hs) : j < k => f[j] < f[k]
  BY <1>1
<1> QED
  BY <1>1, <1>2, <1>3 DEF LooseKept

-----------------------------------------------------------------------------
(* process_route_set.                                                       *)
RouteTo(u) == Field("Route", [uri |-> [addr |-> u], params |-> <<>>])

(* The route that is made of the request-URI.                               *)
LEMMA ItsRoute == ASSUME NEW u PROVE IsRoute(RouteTo(u)) /\ Address(RouteTo(u)) = u
BY DEF RouteTo, Field, IsRoute, Address

(* Without a strict route, or with one.                                     *)
LEMMA RoutedNone ==
    ASSUME NEW m, NEW n \in Nat, Len(m.headers) = n,
           \A k \in 1..n : ~Strict(m.headers[k])
    PROVE  Routed(m).m = m /\ Routed(m).target = m.uri
<1>1. SelectInSeq(m.headers, Strict) = 0
  BY DEF SelectInSeq
<1> QED
  BY <1>1 DEF Routed

(* The first strict route is taken out, and the request-URI put back.       *)
LEMMA RoutedOne ==
    ASSUME NEW m, IsRequest(m), NEW l \in 1..Len(m.headers), Strict(m.headers[l])
    PROVE  \E i \in 1..Len(m.headers) :
              /\ Strict(m.headers[i])
              /\ Routed(m).target = Address(m.headers[i])
              /\ Routed(m).m.uri = m.uri
              /\ Routed(m).m.headers = PutBack(RemoveAt(m.headers, i), RouteTo(m.uri))
<1> DEFINE I == {k \in 1..Len(m.headers) : Strict(m.headers[k])}
           i == Min(I)
           hs == PutBack(RemoveAt(m.headers, i), RouteTo(m.uri))
<1>1. I \in SUBSET Nat /\ I # {}
  OBVIOUS
<1>2. i \in I
  <2> HIDE DEF I
  <2> QED
    BY <1>1, Least
<1>3. SelectInSeq(m.headers, Strict) = i
  BY <1>1 DEF SelectInSeq
<1> HIDE DEF i
<1>4. i \in 1..Len(m.headers) /\ Strict(m.headers[i]) /\ i # 0
  BY <1>2
<1>5. Routed(m) = [m |-> [m EXCEPT !.headers = hs], target |-> Address(m.headers[i])]
  BY <1>3, <1>4 DEF Routed, RouteTo
<1> HIDE DEF hs
<1>6. Routed(m).m = [m EXCEPT !.headers = hs] /\ Routed(m).target = Address(m.headers[i])
  BY <1>5
<1>7. [m EXCEPT !.headers = hs].uri = m.uri /\ [m EXCEPT !.headers = hs].headers = hs
  BY DEF IsRequest
<1> QED
  BY <1>4, <1>6, <1>7 DEF hs

(* Either way no hop is lost.                                               *)
LEMMA RoutedKeeps ==
    ASSUME NEW m, IsRequest(m)
    PROVE  RouteKept(m, Routed(m).m, Resolve(Routed(m).target))
<1> DEFINE hs == m.headers
<1>1. Len(hs) \in Nat /\ DOMAIN hs = 1..Len(hs)
  BY SeqFacts DEF IsRequest
<1>2. CASE \A k \in 1..Len(hs) : ~Strict(hs[k])
  <2>1. Routed(m).m = m /\ Routed(m).target = m.uri
    BY <1>1, <1>2, RoutedNone
  <2>2. LooseKept(m.headers, m.headers, m.uri)
    BY <1>1, LooseSame
  <2>3. LooseOf(m.headers) = RoutesOf(m.headers)
    BY <1>1, <1>2 DEF LooseOf, RoutesOf
  <2>4. RouteKept(m, m, Resolve(m.uri))
    BY <2>2, <2>3 DEF RouteKept
  <2> QED
    BY <2>1, <2>4
<1>3. CASE \E k \in 1..Len(hs) : Strict(hs[k])
  <2> DEFINE e == RouteTo(m.uri)
  <2>1. PICK i \in 1..Len(m.headers) :
              /\ Strict(m.headers[i])
              /\ Routed(m).target = Address(m.headers[i])
              /\ Routed(m).m.uri = m.uri
              /\ Routed(m).m.headers = PutBack(RemoveAt(m.headers, i), RouteTo(m.uri))
    BY <1>3, RoutedOne
  <2> DEFINE S == ToSet(hs) \cup {e}
             ls == RemoveAt(hs, i)
             ns == PutBack(ls, e)
             hop == Address(hs[i])
  <2>2. hs \in Seq(S) /\ e \in S
    BY DEF IsRequest
  <2> HIDE DEF S
  <2>3. ls \in Seq(S) /\ InsertedAt(hs, ls, i, hs[i])
    BY <2>2, Removed
  <2> HIDE DEF ls
  <2>4. PICK p \in 1..(Len(ls) + 1) : InsertedAt(ns, ls, p, e)
    BY <2>2, <2>3, PutsBack
  <2>5. IsRoute(e) /\ Address(e) = m.uri
    BY ItsRoute
  <2>6. IsRoute(hs[i])
    BY <2>1 DEF Strict
  <2> HIDE DEF e, ns
  <2>7. Named(hs) = Named(ls) \cup {hop}
    BY <2>3, <2>6, NamedInserted
  <2>8. Named(ns) = Named(ls) \cup {m.uri}
    BY <2>4, <2>5, NamedInserted
  <2>9. LooseKept(hs, ns, m.uri)
    BY <2>1, <2>3, <2>4, <2>5, LooseAfter
  <2>10. Routed(m).m.headers = ns
    BY <2>1 DEF ns, ls, e
  <2>11. /\ Named(hs) \cup {m.uri} = Named(ns) \cup {m.uri, hop}
         /\ hop \in Named(hs) \cup {m.uri} /\ m.uri \in Named(ns)
    BY <2>7, <2>8
  <2> HIDE DEF hop
  <2>12. Resolve(Routed(m).target) = Resolve(hop)
    BY <2>1 DEF hop
  <2> QED
    BY <2>1, <2>9, <2>10, <2>11, <2>12 DEF RouteKept
<1> QED
  BY <1>2, <1>3

(* What may become of out when a message is forwarded, or another message  *)
(* is written: the parser, the carrier and the peer are left open.         *)
WriteNext ==
    \/ \E m, text : IsRequest(m) /\ Forward(m, text)
    \/ \E kind, of, m, text, to : kind # "request" /\ Emit(kind, of, m, text, to)
Writing == out = Nothing /\ [][WriteNext]_out

(* Whatever requests the endpoint sends along their route sets, none of     *)
(* them loses a hop (process_route_set).                                    *)
THEOREM RoutesKept == Writing => []NoRouteLost
<1>1. out = Nothing => NoRouteLost
  BY DEF NoRouteLost
<1>2. NoRouteLost /\ [WriteNext]_out => NoRouteLost'
  <2> SUFFICES ASSUME NoRouteLost, [WriteNext]_out PROVE NoRouteLost'
    OBVIOUS
  <2>1. ASSUME NEW m, NEW text, IsRequest(m), Forward(m, text) PROVE NoRouteLost'
    <3>1. RouteKept(m, Routed(m).m, Resolve(Routed(m).target))
      BY <2>1, RoutedKeeps
    <3>2. /\ out'.of = m /\ out'.m = Routed(m).m
          /\ out'.to = Resolve(Routed(m).target)
      BY <2>1 DEF Forward, Emit
    <3> QED
      BY <2>1, <3>1, <3>2 DEF NoRouteLost
  <2>2. ASSUME NEW kind, NEW of, NEW m, NEW text, NEW to, kind # "request",
               Emit(kind, of, m, text, to)
        PROVE  NoRouteLost'
    BY <2>2 DEF Emit, NoRouteLost
  <2>3. CASE UNCHANGED out
    BY <2>3 DEF NoRouteLost
  <2> QED
    BY <2>1, <2>2, <2>3 DEF WriteNext
<1> QED
  BY <1>1, <1>2, PTL DEF Writing
=============================================================================
