----------------------------- MODULE StreamProofs -----------------------------
(***************************************************************************)
(* Proofs about StreamDecoder, for any texts and any cut of them into      *)
(* chunks: the content is the text from where the reasoning ends, in its   *)
(* order, nothing lost and nothing doubled.                                *)
(*                                                                         *)
(* The argument keeps, beside the struct of the decoder, where in the text *)
(* it is: what is left in the buffer is the text from some place on, what  *)
(* has been emitted is the text up to that place, or up to the block that  *)
(* is being read.  (AnswerProofs has the lemma on least numbers.)          *)
(***************************************************************************)
EXTENDS StreamDecoder, AnswerProofs

-----------------------------------------------------------------------------
(* Texts and their parts *)

Pieces == Seq(STRING)

LEMMA TagLengths == Len(Eos) = 2 /\ Len(ThinkEnd) = 2 /\ Len(Think) = 2 /\ Len(ToolStart) = 2
BY DEF Eos, ThinkEnd, Think, ToolStart, Tag

LEMMA Appended ==
    ASSUME NEW u \in Pieces, NEW w \in Pieces
    PROVE  /\ u \o w \in Pieces /\ Len(u \o w) = Len(u) + Len(w)
           /\ \A i \in 1..Len(u) : (u \o w)[i] = u[i]
           /\ \A k \in 1..Len(w) : (u \o w)[Len(u) + k] = w[k]
BY DEF Pieces

\* u is what is left of t after its first n pieces.
Left(t, u, n) == t \in Pieces /\ n \in 0..Len(t) /\ u = From(t, n + 1)

LEMMA LeftIs ==
    ASSUME NEW t, NEW u, NEW n, Left(t, u, n)
    PROVE  /\ t \in Pieces /\ u \in Pieces /\ n \in Nat /\ Len(t) \in Nat /\ Len(u) = Len(t) - n
           /\ \A i \in 1..Len(u) : u[i] = t[n + i]
BY DEF Left, From, Pieces

\* What is left of what is left; and the pieces in between.
LEMMA LeftOfLeft ==
    ASSUME NEW t, NEW u, NEW v, NEW n, NEW m, Left(t, u, n), Left(u, v, m)
    PROVE  Left(t, v, n + m) /\ SubSeq(u, 1, m) = SubSeq(t, n + 1, n + m)
<1> DEFINE w == From(t, n + m + 1)
           a == SubSeq(u, 1, m)
           b == SubSeq(t, n + 1, n + m)
<1>1. /\ t \in Pieces /\ u \in Pieces /\ n \in Nat /\ Len(t) \in Nat /\ Len(u) = Len(t) - n
      /\ \A i \in 1..Len(u) : u[i] = t[n + i]
    BY LeftIs
<1>2. /\ v \in Pieces /\ m \in Nat /\ Len(v) = Len(u) - m /\ \A i \in 1..Len(v) : v[i] = u[m + i]
    BY LeftIs
<1>3. n + m \in 0..Len(t) /\ m <= Len(u) /\ n + m <= Len(t)
    BY <1>1, <1>2 DEF Left
<1>4. w \in Pieces /\ Len(w) = Len(t) - (n + m) /\ \A i \in 1..Len(w) : w[i] = t[n + m + i]
  <2> DEFINE k == n + m
  <2> HIDE DEF k
  <2>1. k \in 0..Len(t) /\ Len(t) \in Nat
    BY <1>1, <1>3 DEF k
  <2>2. /\ From(t, k + 1) \in Pieces /\ Len(From(t, k + 1)) = Len(t) - k
        /\ \A i \in 1..Len(From(t, k + 1)) : From(t, k + 1)[i] = t[k + i]
    BY SMTT(30), <1>1, <2>1 DEF From, Pieces
  <2> QED
    BY <2>2 DEF k
<1>5. ASSUME NEW i \in 1..Len(v) PROVE v[i] = w[i]
  <2>1. m + i \in 1..Len(u) /\ i \in 1..Len(w) /\ n + (m + i) = n + m + i
    BY <1>1, <1>2, <1>4
  <2>2. u[m + i] = t[n + (m + i)]
    BY <1>1, <2>1
  <2> HIDE DEF w
  <2> QED
    BY <1>2, <1>4, <2>1, <2>2
<1>6. Len(v) = Len(w)
  <2> HIDE DEF w
  <2> QED
    BY <1>1, <1>2, <1>4
<1>7. v = w
  <2> HIDE DEF w
  <2> QED
    BY <1>2, <1>4, <1>5, <1>6 DEF Pieces
<1>8. a \in Pieces /\ Len(a) = m /\ \A i \in 1..m : a[i] = u[i]
    BY <1>1, <1>2, <1>3 DEF Pieces
<1>9. b \in Pieces /\ Len(b) = m /\ \A i \in 1..m : b[i] = t[n + i]
    BY <1>1, <1>2, <1>3 DEF Pieces
<1>10. a = b
  <2>1. \A i \in 1..m : i \in 1..Len(u)
    BY <1>2, <1>3
  <2>2. \A i \in 1..m : a[i] = b[i]
    BY <1>1, <1>8, <1>9, <2>1
  <2> HIDE DEF a, b
  <2> QED
    BY <1>2, <1>8, <1>9, <2>2 DEF Pieces
<1> QED
    BY <1>1, <1>3, <1>7, <1>10 DEF Left

\* Two parts of a text, side by side.
Between(t, p, a, b) == t \in Pieces /\ a \in 0..Len(t) /\ b \in 0..Len(t) /\ a <= b /\ p = SubSeq(t, a + 1, b)

LEMMA Beside ==
    ASSUME NEW t, NEW p, NEW q, NEW a, NEW b, NEW c, Between(t, p, a, b), Between(t, q, b, c)
    PROVE  Between(t, p \o q, a, c) /\ p \in Pieces /\ q \in Pieces
<1>1. t \in Pieces /\ Len(t) \in Nat /\ a \in Nat /\ b \in Nat /\ c \in Nat /\ a <= b /\ b <= c /\ c <= Len(t)
    BY DEF Between, Pieces
<1>2. p \in Pieces /\ Len(p) = b - a /\ \A i \in 1..(b - a) : p[i] = t[a + i]
    BY <1>1 DEF Between, Pieces
<1>3. q \in Pieces /\ Len(q) = c - b /\ \A i \in 1..(c - b) : q[i] = t[b + i]
    BY <1>1 DEF Between, Pieces
<1> DEFINE r == SubSeq(t, a + 1, c)
           s == p \o q
<1>4. r \in Pieces /\ Len(r) = c - a /\ \A i \in 1..(c - a) : r[i] = t[a + i]
    BY <1>1 DEF Pieces
<1>5. s \in Pieces /\ Len(s) = c - a
  <2>1. s \in Pieces /\ Len(s) = Len(p) + Len(q)
    BY <1>2, <1>3, Appended
  <2> HIDE DEF s
  <2> QED
    BY <1>1, <1>2, <1>3, <2>1
<1>6. ASSUME NEW i \in 1..(c - a) PROVE s[i] = r[i]
  <2>1. CASE i <= b - a
    <3>1. i \in 1..Len(p) /\ i \in 1..(b - a)
        BY <1>1, <1>2, <2>1
    <3>2. s[i] = p[i]
        BY <1>2, <1>3, <3>1, Appended
    <3> HIDE DEF s, r
    <3> QED
        BY <1>2, <1>4, <3>1, <3>2
  <2>2. CASE i > b - a
    <3> DEFINE k == i - (b - a)
    <3>1. k \in 1..(c - b) /\ b + k = a + i /\ k \in 1..Len(q) /\ Len(p) + k = i
        BY <1>1, <1>2, <1>3, <2>2
    <3>2. s[Len(p) + k] = q[k]
      <4> HIDE DEF k
      <4> QED
        BY <1>2, <1>3, <3>1, Appended
    <3> HIDE DEF s, r, k
    <3> QED
        BY <1>3, <1>4, <3>1, <3>2
  <2> HIDE DEF r, s
  <2> QED
    BY <1>1, <2>1, <2>2
<1>7. s = r
  <2> HIDE DEF s, r
  <2> QED
    BY <1>1, <1>4, <1>5, <1>6 DEF Pieces
<1> QED
    BY SMTT(30), <1>1, <1>2, <1>3, <1>7 DEF Between

\* A text that grows keeps its parts.
LEMMA Longer ==
    ASSUME NEW t \in Pieces, NEW w \in Pieces
    PROVE  /\ t \o w \in Pieces /\ Len(t \o w) = Len(t) + Len(w)
           /\ \A u, n : Left(t, u, n) => Left(t \o w, u \o w, n)
           /\ \A p, a, b : Between(t, p, a, b) => Between(t \o w, p, a, b)
<1> DEFINE l == t \o w
<1>1. l \in Pieces /\ Len(l) = Len(t) + Len(w) /\ \A i \in 1..Len(t) : l[i] = t[i]
    BY DEF Pieces
<1>2. Len(t) \in Nat /\ Len(w) \in Nat /\ \A i \in 1..Len(w) : l[Len(t) + i] = w[i]
    BY DEF Pieces
<1>3. ASSUME NEW u, NEW n, Left(t, u, n) PROVE Left(l, u \o w, n)
  <2>1. u \in Pieces /\ n \in Nat /\ Len(u) = Len(t) - n /\ \A i \in 1..Len(u) : u[i] = t[n + i]
    BY <1>3, LeftIs
  <2> DEFINE x == u \o w
             y == From(l, n + 1)
  <2>2. n <= Len(t)
    BY <1>3, <1>2 DEF Left
  <2>3. x \in Pieces /\ Len(x) = Len(u) + Len(w)
    BY <2>1, Appended
  <2>4. y \in Pieces /\ Len(y) = Len(l) - n /\ \A i \in 1..Len(y) : y[i] = l[n + i]
    <3> HIDE DEF l
    <3> QED
        BY <1>1, <1>2, <2>1, <2>2 DEF From, Pieces
  <2>5. Len(x) = Len(y)
    BY <1>1, <1>2, <2>1, <2>3, <2>4
  <2>6. ASSUME NEW i \in 1..Len(x) PROVE x[i] = y[i]
    <3>0. Len(u) \in Nat /\ i \in 1..Len(y)
        BY <2>1, <2>2, <1>2, <2>5
    <3>1. CASE i <= Len(u)
      <4>1. x[i] = u[i]
        BY <2>1, <2>3, <3>0, <3>1 DEF Pieces
      <4>2. i \in 1..Len(u) /\ n + i \in 1..Len(t)
        BY <1>2, <2>1, <2>2, <3>0, <3>1
      <4> HIDE DEF x, y, l
      <4> QED
        BY <1>1, <2>1, <2>4, <3>0, <4>1, <4>2
    <3>2. CASE i > Len(u)
      <4> DEFINE k == i - Len(u)
      <4>1. k \in 1..Len(w) /\ n + i = Len(t) + k /\ Len(u) + k = i
        BY <1>2, <2>1, <2>2, <2>3, <3>0, <3>2
      <4>2. x[Len(u) + k] = w[k]
        <5> HIDE DEF k
        <5> QED
          BY <2>1, <4>1, Appended
      <4> HIDE DEF x, y, l, k
      <4> QED
        BY <1>2, <2>4, <3>0, <4>1, <4>2
    <3> QED
        BY <3>0, <3>1, <3>2
  <2>7. x = y
    <3> HIDE DEF x, y
    <3> QED
        BY <2>3, <2>4, <2>5, <2>6 DEF Pieces
  <2>8. n \in 0..Len(l)
    BY <1>1, <1>2, <2>1, <2>2
  <2> QED
    BY <1>1, <2>7, <2>8 DEF Left
<1>4. ASSUME NEW p, NEW a, NEW b, Between(t, p, a, b) PROVE Between(l, p, a, b)
  <2>1. a \in Nat /\ b \in Nat /\ a <= b /\ b <= Len(t) /\ p = SubSeq(t, a + 1, b)
    BY <1>4, <1>2 DEF Between
  <2> DEFINE q == SubSeq(l, a + 1, b)
  <2>2. p \in Pieces /\ Len(p) = b - a /\ \A i \in 1..(b - a) : p[i] = t[a + i]
    BY <1>2, <2>1 DEF Pieces
  <2>3. q \in Pieces /\ Len(q) = b - a /\ \A i \in 1..(b - a) : q[i] = l[a + i]
    <3> HIDE DEF l
    <3> QED
        BY <1>1, <1>2, <2>1 DEF Pieces
  <2>4. \A i \in 1..(b - a) : p[i] = q[i]
    <3>1. \A i \in 1..(b - a) : a + i \in 1..Len(t)
        BY <1>2, <2>1
    <3> HIDE DEF l, q
    <3> QED
        BY <1>1, <2>2, <2>3, <3>1
  <2>5. p = q
    <3> HIDE DEF q
    <3> QED
        BY <2>2, <2>3, <2>4 DEF Pieces
  <2> QED
    BY <1>1, <1>2, <2>1, <2>5 DEF Between
<1> QED
    BY <1>1, <1>3, <1>4

LEMMA PartIs ==
    ASSUME NEW t, NEW p, NEW a, NEW b, Between(t, p, a, b)
    PROVE  /\ t \in Pieces /\ a \in Nat /\ b \in Nat /\ a <= b /\ b <= Len(t) /\ Len(t) \in Nat
           /\ p \in Pieces /\ Len(p) = b - a /\ \A i \in 1..(b - a) : p[i] = t[a + i]
<1>1. t \in Pieces /\ Len(t) \in Nat /\ a \in Nat /\ b \in Nat /\ a <= b /\ b <= Len(t)
    BY DEF Between, Pieces
<1>2. p \in Pieces /\ Len(p) = b - a /\ \A i \in 1..(b - a) : p[i] = t[a + i]
    BY <1>1 DEF Between, Pieces
<1> QED
    BY <1>1, <1>2

\* A part of what is left is a part of the whole.
LEMMA Within ==
    ASSUME NEW t, NEW u, NEW n, NEW p, NEW a, NEW b, Left(t, u, n), Between(u, p, a, b)
    PROVE  Between(t, p, n + a, n + b)
<1>1. /\ t \in Pieces /\ u \in Pieces /\ n \in Nat /\ Len(t) \in Nat /\ Len(u) = Len(t) - n
      /\ \A i \in 1..Len(u) : u[i] = t[n + i]
    BY LeftIs
<1>2. /\ a \in Nat /\ b \in Nat /\ a <= b /\ b <= Len(u) /\ n <= Len(t)
      /\ p \in Pieces /\ Len(p) = b - a /\ \A i \in 1..(b - a) : p[i] = u[a + i]
    BY <1>1, PartIs DEF Left
<1> DEFINE q == SubSeq(t, n + a + 1, n + b)
<1>4. q \in Pieces /\ Len(q) = b - a /\ \A i \in 1..(b - a) : q[i] = t[n + a + i]
  <2> DEFINE k == n + a
             l == n + b
  <2> HIDE DEF k, l
  <2>1. k \in Nat /\ l \in Nat /\ k <= l /\ l <= Len(t) /\ l - k = b - a
    BY <1>1, <1>2 DEF k, l
  <2>2. /\ SubSeq(t, k + 1, l) \in Pieces /\ Len(SubSeq(t, k + 1, l)) = l - k
        /\ \A i \in 1..(l - k) : SubSeq(t, k + 1, l)[i] = t[k + i]
    BY <1>1, <2>1 DEF Pieces
  <2> QED
    BY <2>1, <2>2 DEF k, l
<1>5. ASSUME NEW i \in 1..(b - a) PROVE p[i] = q[i]
  <2>1. a + i \in 1..Len(u) /\ n + (a + i) = n + a + i
    BY <1>1, <1>2
  <2>2. u[a + i] = t[n + (a + i)]
    BY <1>1, <2>1
  <2> HIDE DEF q
  <2> QED
    BY <1>2, <1>4, <2>1, <2>2
<1>6. p = q
  <2> HIDE DEF q
  <2> QED
    BY <1>2, <1>4, <1>5 DEF Pieces
<1>7. n + a \in 0..Len(t) /\ n + b \in 0..Len(t) /\ n + a <= n + b
    BY <1>1, <1>2
<1> QED
    BY <1>1, <1>6, <1>7 DEF Between

-----------------------------------------------------------------------------
(* What the operators of Markup return *)

\* Where a tag stands: nowhere, or there.
LEMMA AtIs ==
    ASSUME NEW t \in Pieces, NEW p, NEW k \in Nat, Len(p) = k
    PROVE  /\ At(t, p) \in Nat
           /\ At(t, p) > 0 => /\ At(t, p) + k <= Len(t) + 1
                              /\ SubSeq(t, At(t, p), At(t, p) + k - 1) = p
           /\ \A i \in 1..(Len(t) - k + 1) :
                 SubSeq(t, i, i + k - 1) = p => At(t, p) > 0 /\ At(t, p) <= i
<1> DEFINE hits == {i \in 1..(Len(t) - Len(p) + 1) : SubSeq(t, i, i + Len(p) - 1) = p}
<1>1. Len(t) \in Nat /\ At(t, p) = IF hits = {} THEN 0 ELSE CHOOSE i \in hits : \A j \in hits : i <= j
    BY DEF At, Pieces
<1>0. /\ \A i \in 1..(Len(t) - k + 1) : SubSeq(t, i, i + k - 1) = p => i \in hits
      /\ \A i \in hits : i \in 1..(Len(t) - k + 1) /\ SubSeq(t, i, i + k - 1) = p
    OBVIOUS
<1>2. CASE hits = {}
  <2>1. At(t, p) = 0
    <3> HIDE DEF hits
    <3> QED
        BY <1>1, <1>2
  <2>2. \A i \in 1..(Len(t) - k + 1) : SubSeq(t, i, i + k - 1) # p
    BY <1>2
  <2>3. At(t, p) \in Nat /\ ~(At(t, p) > 0)
    BY <2>1
  <2> QED
    BY <2>2, <2>3, Zenon
<1>3. CASE hits # {}
  <2>1. hits \subseteq Nat
    BY <1>1
  <2>2. \E i \in hits : \A j \in hits : i <= j
    <3> HIDE DEF hits
    <3> QED
        BY <1>3, <2>1, LeastNat
  <2>3. At(t, p) \in hits /\ \A j \in hits : At(t, p) <= j
    <3> HIDE DEF hits
    <3> QED
        BY <1>1, <1>3, <2>2
  <2>4. /\ At(t, p) \in 1..(Len(t) - k + 1) /\ SubSeq(t, At(t, p), At(t, p) + k - 1) = p
    BY <1>0, <2>3
  <2>5. \A i \in 1..(Len(t) - k + 1) : SubSeq(t, i, i + k - 1) = p => At(t, p) <= i
    <3> HIDE DEF hits
    <3> QED
        BY <1>0, <2>3
  <2> DEFINE a == At(t, p)
  <2>6. a \in Nat /\ a > 0 /\ a + k <= Len(t) + 1
    <3>1. a \in 1..(Len(t) - k + 1)
        BY <2>4
    <3> HIDE DEF a
    <3> QED
        BY <1>1, <3>1
  <2> QED
    BY <2>4, <2>5, <2>6
<1> QED
    BY <1>2, <1>3

LEMMA AtTag ==
    ASSUME NEW t \in Pieces, NEW p, Len(p) = 2
    PROVE  At(t, p) \in Nat
<1> DEFINE k == 2
<1>1. Len(p) = k /\ k \in Nat
    OBVIOUS
<1> HIDE DEF k
<1> QED
    BY <1>1, AtIs

\* The text behind a tag that stands in it, and the one in front.
LEMMA AtParts ==
    ASSUME NEW t \in Pieces, NEW p, Len(p) = 2, At(t, p) > 0
    PROVE  /\ At(t, p) + 1 \in 0..Len(t) /\ At(t, p) - 1 \in 0..Len(t) /\ At(t, p) \in 1..Len(t)
           /\ Between(t, p, At(t, p) - 1, At(t, p) + 1)
           /\ UpTo(t, p) = SubSeq(t, 1, At(t, p) - 1)
           /\ Left(t, After(t, p), At(t, p) + 1)
<1> DEFINE a == At(t, p)
<1>1. a \in Nat /\ a + 2 <= Len(t) + 1 /\ SubSeq(t, a, a + 2 - 1) = p /\ a > 0
  <2> DEFINE k == 2
  <2>1. k \in Nat /\ Len(p) = k
    OBVIOUS
  <2> HIDE DEF k
  <2>2. /\ At(t, p) \in Nat
        /\ At(t, p) > 0 => /\ At(t, p) + k <= Len(t) + 1
                           /\ SubSeq(t, At(t, p), At(t, p) + k - 1) = p
    BY <2>1, AtIs
  <2> QED
    BY <2>2 DEF k
<1>7. Len(t) \in Nat
    BY DEF Pieces
<1>2. After(t, p) = From(t, a + 2) /\ UpTo(t, p) = SubSeq(t, 1, a - 1)
  <2>1. At(t, p) # 0
    BY <1>1
  <2> QED
    BY <2>1 DEF After, UpTo
<1> HIDE DEF a
<1>3. a + 1 \in 0..Len(t) /\ a - 1 \in 0..Len(t) /\ a + 2 - 1 = a + 1 /\ (a - 1) + 1 = a /\ (a + 1) + 1 = a + 2
    BY <1>1, <1>7
<1>4. Between(t, p, a - 1, a + 1) /\ Left(t, After(t, p), a + 1)
    BY <1>1, <1>2, <1>3 DEF Between, Left
<1> QED
  <2>1. a \in 1..Len(t)
    BY <1>1, <1>7
  <2> QED
    BY <1>2, <1>3, <1>4, <2>1 DEF a

\* A tag at the beginning.
LEMMA PrefixIs ==
    ASSUME NEW t \in Pieces, NEW p, NEW k \in Nat, Len(p) = k, IsPrefix(p, t)
    PROVE  k <= Len(t) /\ Left(t, From(t, k + 1), k) /\ k \in 0..Len(t)
BY DEF IsPrefix, Left, Pieces

LEMMA PrefixAt ==
    ASSUME NEW t \in Pieces, NEW p, p = SubSeq(p, 1, Len(p)), Len(p) = 2, IsPrefix(p, t)
    PROVE  At(t, p) > 0
<1>1. Len(t) \in Nat /\ 1 \in 1..(Len(t) - 2 + 1) /\ SubSeq(t, 1, 1 + 2 - 1) = p
    BY DEF IsPrefix, Pieces
<1> QED
    BY <1>1, AtIs

\* White space in front.
LEMMA SkipIs ==
    ASSUME NEW t \in Pieces
    PROVE  /\ \E n \in 0..Len(t) : Left(t, Skip(t), n)
           /\ Skip(t) \in Pieces
           /\ Skip(t) = <<>> => Blank(t)
<1>0. Len(t) \in Nat /\ t = From(t, 1)
    BY DEF Pieces, From
<1>1. CASE Blank(t)
  <2>1. Skip(t) = <<>> /\ <<>> = From(t, Len(t) + 1)
    BY <1>0, <1>1 DEF Skip, From, Pieces
  <2>2. Left(t, Skip(t), Len(t)) /\ Len(t) \in 0..Len(t)
    BY <1>0, <2>1 DEF Left
  <2> QED
    BY <1>1, <2>2, LeftIs
<1>2. CASE ~Blank(t)
  <2> DEFINE S == {i \in DOMAIN t : t[i] # "nl"}
             i0 == CHOOSE i \in DOMAIN t : t[i] # "nl" /\ Blank(SubSeq(t, 1, i - 1))
  <2>1. DOMAIN t = 1..Len(t) /\ S # {} /\ S \subseteq Nat
    BY <1>0, <1>2 DEF Blank, Pieces
  <2>2. PICK i \in S : \A j \in S : i <= j
    <3> HIDE DEF S
    <3> QED
        BY <2>1, LeastNat
  <2>3. Blank(SubSeq(t, 1, i - 1))
    <3> DEFINE h == SubSeq(t, 1, i - 1)
    <3>1. i \in 1..Len(t) /\ \A j \in 1..(i - 1) : j \in DOMAIN t /\ t[j] = "nl"
        BY <1>0, <2>1, <2>2
    <3>2. DOMAIN h = 1..(i - 1) /\ \A j \in 1..(i - 1) : h[j] = t[j]
        BY <1>0, <3>1 DEF Pieces
    <3> HIDE DEF h
    <3>3. Blank(h)
        BY <3>1, <3>2 DEF Blank
    <3> QED
        BY <3>3 DEF h
  <2>4. i0 \in DOMAIN t
    BY <2>2, <2>3
  <2>5. Skip(t) = From(t, i0)
    BY <1>2 DEF Skip
  <2> HIDE DEF i0
  <2>6. i0 - 1 \in 0..Len(t) /\ (i0 - 1) + 1 = i0
    BY <1>0, <2>1, <2>4
  <2>7. Left(t, Skip(t), i0 - 1)
    BY <2>5, <2>6 DEF Left
  <2>8. Len(Skip(t)) = Len(t) - (i0 - 1) /\ Skip(t) \in Pieces
    BY <2>7, LeftIs
  <2>9. Skip(t) # <<>>
    BY <1>0, <2>1, <2>4, <2>8
  <2> QED
    BY <2>6, <2>7, <2>8, <2>9
<1> QED
    BY <1>1, <1>2

LEMMA BlockStartIs ==
    ASSUME NEW t \in Pieces, BlockStart(t).found
    PROVE  BlockStart(t).raw - 1 \in 0..Len(t) /\ BlockStart(t).implicit \in BOOLEAN
<1> DEFINE w == At(t, ToolStart)
           bare == {i \in DOMAIN t : HasTagPrefix(From(t, i), InvokeStart)}
           hits == (IF w = 0 THEN {} ELSE {w}) \cup bare
           start == CHOOSE i \in hits : \A j \in hits : i <= j
           raw == IF start > 2 /\ SubSeq(t, start - 2, start - 1) = <<"nl", "nl">>
                      THEN start - 2 ELSE start
<1>1. Len(t) \in Nat /\ DOMAIN t = 1..Len(t)
    BY DEF Pieces
<1>2. w \in Nat /\ (w # 0 => w \in 1..Len(t))
  <2>1. Len(ToolStart) = 2 /\ 2 \in Nat
    BY TagLengths
  <2>2. w \in Nat
    BY <2>1, AtIs
  <2>3. w > 0 => w \in 1..Len(t)
    BY <2>1, AtParts
  <2> HIDE DEF w
  <2> QED
    BY <2>2, <2>3
<1>3. BlockStart(t) = IF hits = {} THEN [found |-> FALSE]
                      ELSE [found |-> TRUE, start |-> start, implicit |-> start # w, raw |-> raw]
    BY DEF BlockStart
<1>4. hits \subseteq 1..Len(t)
  <2> HIDE DEF w
  <2> QED
    BY <1>1, <1>2
<1>5. hits # {}
  <2> HIDE DEF start, w, hits, raw
  <2> QED
    BY <1>3
<1>6. start \in hits
  <2>1. \E i \in hits : \A j \in hits : i <= j
    <3> HIDE DEF hits
    <3>1. hits \subseteq Nat
        BY <1>4
    <3> QED
        BY <1>5, <3>1, LeastNat
  <2> HIDE DEF hits
  <2> QED
    BY <2>1
<1>7. start \in 1..Len(t)
    BY <1>4, <1>6
<1> HIDE DEF start, w, hits
<1>8. BlockStart(t).raw = raw /\ BlockStart(t).implicit = (start # w)
  <2> HIDE DEF raw
  <2> QED
    BY <1>3, <1>5
<1>9. raw - 1 \in 0..Len(t)
    BY <1>1, <1>7
<1> QED
    BY <1>8, <1>9

\* A non-empty set of numbers up to n has a greatest.
LEMMA Greatest ==
    ASSUME NEW n \in Nat, NEW S, S \subseteq 0..n, S # {}
    PROVE  \E x \in S : \A y \in S : y <= x
<1> DEFINE T == {n - y : y \in S}
<1>1. T \subseteq Nat /\ T # {} /\ \A y \in S : n - y \in T
  <2>1. \A y \in S : n - y \in Nat /\ n - y \in T
    OBVIOUS
  <2>2. T # {}
    BY <2>1
  <2> QED
    BY <2>1, <2>2
<1>2. PICK z \in T : \A y \in T : z <= y
  <2> HIDE DEF T
  <2> QED
    BY <1>1, LeastNat
<1>3. PICK x \in S : z = n - x
    BY <1>2
<1>4. ASSUME NEW y \in S PROVE y <= x
  <2>1. n - x <= n - y
    BY <1>1, <1>2, <1>3
  <2> QED
    BY <2>1
<1> QED
    BY <1>4

LEMMA SafeContentLenIs ==
    ASSUME NEW x, x.buf \in Pieces, Margin \in Nat
    PROVE  SafeContentLen(x) \in 0..Len(x.buf)
<1> DEFINE n == Len(x.buf)
           marks == {i \in (n - Margin + 1)..n : x.buf[i] \in Angles \cup {"nl"}}
           last == CHOOSE i \in marks : \A j \in marks : j <= i
<1>1. n \in Nat
    BY DEF Pieces
<1>2. SafeContentLen(x) =
        IF x.finalPass THEN n
        ELSE IF n <= Margin THEN 0
        ELSE IF marks = {} THEN n - Margin
        ELSE IF x.buf[last] # "nl" /\ last > 2 /\ SubSeq(x.buf, last - 2, last - 1) = <<"nl", "nl">>
             THEN last - 3 ELSE last - 1
    BY DEF SafeContentLen
<1>3. n > Margin => marks \subseteq 1..n
  <2> HIDE DEF n
  <2> QED
    BY <1>1
<1>4. CASE n > Margin /\ marks # {}
  <2>1. last \in marks
    <3>1. marks \subseteq 0..n
        BY <1>3, <1>4, <1>1
    <3>2. \E i \in marks : \A j \in marks : j <= i
        <4> HIDE DEF marks, n
        <4> QED
            BY <1>1, <1>4, <3>1, Greatest
    <3> HIDE DEF marks
    <3> QED
        BY <3>2
  <2>2. last \in 1..n
    BY <1>3, <1>4, <2>1
  <2> HIDE DEF last, marks
  <2>3. SafeContentLen(x) \in {n, last - 3, last - 1} /\ (SafeContentLen(x) = last - 3 => last > 2 \/ n = last - 3)
    <3> HIDE DEF n
    <3> QED
        BY <1>1, <1>2, <1>4, <2>2
  <2> DEFINE l == SafeContentLen(x)
  <2>4. l \in 0..n
    <3> HIDE DEF n, l
    <3>1. l \in {n, last - 3, last - 1} /\ (l = last - 3 => last > 2 \/ n = last - 3)
        BY <2>3 DEF l
    <3> QED
        BY <1>1, <2>2, <3>1
  <2> QED
    BY <2>4 DEF l, n
<1>5. CASE ~(n > Margin /\ marks # {})
  <2> HIDE DEF last, marks, n
  <2>1. SafeContentLen(x) \in 0..n
    BY <1>1, <1>2, <1>5
  <2> QED
    BY <2>1 DEF n
<1> QED
    BY <1>4, <1>5

-----------------------------------------------------------------------------
(* The decoder's state *)

InBlock == {"toolCalls", "invoke", "invokeBody", "param", "paramValue", "checkEnd", "glmName", "glmKey",
            "glmValue", "afterCall", "qwenFn", "qwenParam", "qwenValue", "qwenAfterFn"}
States == InBlock \cup {"thinking", "content", "raw", "done"}
Fields == {"syntax", "thinking", "buf", "fullText", "finalPass", "state", "seenToolCallsOp", "implicitBlock",
           "rawBlockStart", "pending", "toolBlockClosed", "thinkStanza", "reasoning", "content", "tools"}
PendingFields == {"calls", "args", "open", "key", "string"}

IsList(s) == \E C : s \in Seq(C)

IsPending(p) == PendingFields \subseteq DOMAIN p /\ IsList(p.calls)

\* The struct, as far as the text needs it.
Struct(x) ==
    /\ Fields \subseteq DOMAIN x /\ IsPending(x.pending)
    /\ x.syntax \in {"dsml", "glm", "qwen"} /\ x.state \in States
    /\ x.buf \in Pieces /\ x.fullText \in Pieces /\ x.content \in Pieces
    /\ x.rawBlockStart \in Nat /\ IsList(x.tools)

\* The text, what has been emitted and where the block began are the same.
KeepsText(x, z) ==
    /\ z.fullText = x.fullText /\ z.content = x.content /\ z.thinking = x.thinking
    /\ z.rawBlockStart = x.rawBlockStart /\ z.tools = x.tools /\ z.syntax = x.syntax
    /\ z.finalPass = x.finalPass

\* A step inside a block: bytes of the buffer are consumed, none is emitted.
Passed(x, z) == Struct(x) /\ Struct(z) /\ KeepsText(x, z) /\ \E n : Left(x.buf, z.buf, n)
Same(x, z) == z.toolBlockClosed = x.toolBlockClosed

LEMMA LeftAll == ASSUME NEW t \in Pieces PROVE Left(t, t, 0)
BY DEF Left, From, Pieces

LEMMA PassedTwice ==
    ASSUME NEW x, NEW y, NEW z, Passed(x, y), Passed(y, z)
    PROVE  Passed(x, z)
<1>1. PICK n : Left(x.buf, y.buf, n)
    BY DEF Passed
<1>2. PICK m : Left(y.buf, z.buf, m)
    BY DEF Passed
<1>3. Left(x.buf, z.buf, n + m)
    BY <1>1, <1>2, LeftOfLeft
<1> QED
    BY <1>3 DEF Passed, KeepsText

\* The buffer is cut.
LEMMA BufPasses ==
    ASSUME NEW x, Struct(x), NEW u, NEW n, Left(x.buf, u, n)
    PROVE  LET z == [x EXCEPT !.buf = u]
           IN  Passed(x, z) /\ z.state = x.state /\ z.pending = x.pending /\ Same(x, z) /\ z.buf = u
<1>1. u \in Pieces
    BY LeftIs
<1> QED
    BY <1>1 DEF Passed, Struct, KeepsText, Fields, Same

LEMMA DropPasses ==
    ASSUME NEW x, Struct(x), NEW n \in 0..Len(x.buf)
    PROVE  LET z == Drop(x, n)
           IN  Passed(x, z) /\ z.state = x.state /\ z.pending = x.pending /\ Same(x, z)
               /\ z.buf = From(x.buf, n + 1)
<1>1. Left(x.buf, From(x.buf, n + 1), n)
    BY DEF Left, Struct
<1> QED
    BY <1>1, BufPasses DEF Drop

LEMMA SkipPasses ==
    ASSUME NEW x, Struct(x)
    PROVE  LET z == Skipped(x)
           IN  Passed(x, z) /\ z.state = x.state /\ z.pending = x.pending /\ Same(x, z)
               /\ z.buf = Skip(x.buf)
<1>1. \E n \in 0..Len(x.buf) : Left(x.buf, Skip(x.buf), n)
    BY SkipIs DEF Struct
<1> QED
    BY <1>1, BufPasses DEF Skipped

LEMMA ToPasses ==
    ASSUME NEW x, Struct(x), NEW s \in States
    PROVE  LET z == To(x, s)
           IN  Passed(x, z) /\ z.state = s /\ z.pending = x.pending /\ Same(x, z) /\ z.buf = x.buf
<1>1. Left(x.buf, x.buf, 0)
    BY LeftAll DEF Struct
<1> QED
    BY <1>1 DEF To, Passed, Struct, KeepsText, Fields, Same

LEMMA Stays ==
    ASSUME NEW x, Struct(x)
    PROVE  Passed(x, x) /\ Same(x, x)
<1>1. Left(x.buf, x.buf, 0)
    BY LeftAll DEF Struct
<1> QED
    BY <1>1 DEF Passed, KeepsText, Same

\* The call at work changes, and the state.
Works(x, p, s, z) == z = [x EXCEPT !.pending = p, !.state = s]

LEMMA PendingPasses ==
    ASSUME NEW x, Struct(x), NEW s \in States, NEW p, IsPending(p),
           NEW z, Works(x, p, s, z)
    PROVE  Passed(x, z) /\ z.state = s /\ z.pending = p /\ Same(x, z) /\ z.buf = x.buf
<1>1. Left(x.buf, x.buf, 0)
    BY LeftAll DEF Struct
<1> QED
    BY <1>1 DEF Works, Passed, Struct, KeepsText, Fields, Same

LEMMA OpensPasses ==
    ASSUME NEW x, Struct(x), NEW s \in States
    PROVE  LET z == Opens(x, s) IN Passed(x, z) /\ z.state = s /\ Same(x, z) /\ z.buf = x.buf
<1> DEFINE p == [x.pending EXCEPT !.args = <<>>, !.open = TRUE]
<1>1. IsPending(p)
    BY DEF Struct, IsPending, PendingFields
<1>2. Opens(x, s) = [x EXCEPT !.pending = p, !.state = s]
    BY DEF Opens, Struct, Fields
<1> DEFINE z == Opens(x, s)
<1>3. Works(x, p, s, z)
    BY <1>2 DEF Works
<1> HIDE DEF p, z
<1>4. Passed(x, z) /\ z.state = s /\ z.pending = p /\ Same(x, z) /\ z.buf = x.buf
    BY <1>1, <1>3, PendingPasses
<1> QED
    BY <1>1, <1>4 DEF z

LEMMA Lists ==
    /\ IsList(<<>>)
    /\ \A s, v : IsList(s) => IsList(Append(s, v)) /\ Append(s, v) # <<>>
    /\ \A s, t : IsList(s) /\ IsList(t) => IsList(s \o t) /\ (t # <<>> \/ s # <<>> => s \o t # <<>>)
<1>1. IsList(<<>>)
  <2>1. <<>> \in Seq({})
    OBVIOUS
  <2> QED
    BY <2>1 DEF IsList
<1>2. ASSUME NEW s, NEW v, IsList(s) PROVE IsList(Append(s, v)) /\ Append(s, v) # <<>>
  <2>1. PICK C : s \in Seq(C)
    BY <1>2 DEF IsList
  <2> DEFINE D == C \cup {v}
  <2>2. s \in Seq(D) /\ v \in D
    BY <2>1
  <2> HIDE DEF D
  <2>3. Append(s, v) \in Seq(D) /\ Len(Append(s, v)) = Len(s) + 1 /\ Len(s) \in Nat
    BY <2>2
  <2>4. Append(s, v) # <<>>
    BY <2>3
  <2> QED
    BY <2>3, <2>4 DEF IsList
<1>3. ASSUME NEW s, NEW t, IsList(s), IsList(t)
      PROVE  IsList(s \o t) /\ (t # <<>> \/ s # <<>> => s \o t # <<>>)
  <2>1. PICK C : s \in Seq(C)
    BY <1>3 DEF IsList
  <2>2. PICK D : t \in Seq(D)
    BY <1>3 DEF IsList
  <2> DEFINE E == C \cup D
  <2>3. s \in Seq(E) /\ t \in Seq(E)
    BY <2>1, <2>2
  <2> HIDE DEF E
  <2>4. s \o t \in Seq(E) /\ Len(s \o t) = Len(s) + Len(t)
    BY <2>3
  <2>5. t # <<>> \/ s # <<>> => s \o t # <<>>
    BY <2>3, <2>4
  <2> QED
    BY <2>4, <2>5 DEF IsList
<1> QED
    BY <1>1, <1>2, <1>3

LEMMA CompletesPasses ==
    ASSUME NEW x, Struct(x), NEW s \in States
    PROVE  LET z == Completes(x, s)
           IN  Passed(x, z) /\ z.state = s /\ Same(x, z) /\ z.buf = x.buf /\ z.pending.calls # <<>>
<1> DEFINE p == [NoPending EXCEPT !.calls = Append(x.pending.calls, x.pending.args)]
<1>1. IsPending(p) /\ p.calls # <<>>
  <2>1. IsList(Append(x.pending.calls, x.pending.args)) /\ Append(x.pending.calls, x.pending.args) # <<>>
    BY Lists DEF Struct, IsPending
  <2>2. p.calls = Append(x.pending.calls, x.pending.args) /\ PendingFields \subseteq DOMAIN p
    BY DEF NoPending, PendingFields
  <2> QED
    BY <2>1, <2>2 DEF IsPending
<1>2. Completes(x, s) = [x EXCEPT !.pending = p, !.state = s]
    BY DEF Completes
<1> DEFINE z == Completes(x, s)
<1>3. Works(x, p, s, z)
    BY <1>2 DEF Works
<1> HIDE DEF p, z
<1>4. Passed(x, z) /\ z.state = s /\ z.pending = p /\ Same(x, z) /\ z.buf = x.buf
    BY <1>1, <1>3, PendingPasses
<1> QED
    BY <1>1, <1>4 DEF z

-----------------------------------------------------------------------------
(* The inductive invariant of the stream *)

\* The content runs from s, where it begins, to e.
BeginsAt(x, s) == IF x.thinking THEN Between(x.fullText, ThinkEnd, s - 2, s) ELSE s = 0
Runs(x, s, e) == s \in Nat /\ BeginsAt(x, s) /\ Between(x.fullText, x.content, s, e)
WasRead(x) == x.tools # <<>> \/ x.toolBlockClosed
Ended(x, e) == Between(x.fullText, Eos, e, e + 2) \/ (e = x.rawBlockStart /\ WasRead(x))

\* What has been emitted when c pieces of the text have been consumed: in a block,
\* what stood in front of it.
Emitted(x, c) ==
    CASE x.state = "thinking" -> x.thinking /\ x.content = <<>>
      [] x.state \in {"content", "raw"} -> \E s : Runs(x, s, c)
      [] x.state \in InBlock -> x.rawBlockStart <= c /\ \E s : Runs(x, s, x.rawBlockStart)
      [] x.state = "done" -> \E s, e : Runs(x, s, e) /\ Ended(x, e)

\* A block that is about to end has been read.
Ready(x) ==
    /\ x.state = "afterCall" => x.pending.calls # <<>>
    /\ x.state = "checkEnd" => x.toolBlockClosed

Open(x) == Struct(x) /\ Ready(x) /\ \E c : Left(x.fullText, x.buf, c) /\ Emitted(x, c)

\* What a handler inside a block comes to: another place in it, its replay, its end.
Moves(x, y) ==
    \E z : /\ Passed(x, z)
           /\ \/ y = z /\ z.state \in InBlock /\ Ready(z)
              \/ y = EnterRawMode(z)
              \/ y = To(CompleteToolBlock(z), "done") /\ WasRead(y)

LEMMA StatesApart ==
    /\ "thinking" \notin InBlock /\ "content" \notin InBlock /\ "raw" \notin InBlock /\ "done" \notin InBlock
    /\ InBlock \subseteq States /\ {"thinking", "content", "raw", "done"} \subseteq States
BY DEF InBlock, States

LEMMA RunsOn ==
    ASSUME NEW x, NEW y, NEW s, NEW e, Runs(x, s, e),
           y.fullText = x.fullText, y.thinking = x.thinking, y.content = x.content
    PROVE  Runs(y, s, e)
BY DEF Runs, BeginsAt

LEMMA RunsFurther ==
    ASSUME NEW x, NEW y, NEW s, NEW b, NEW e, NEW p, Runs(x, s, b), Between(x.fullText, p, b, e),
           y.fullText = x.fullText, y.thinking = x.thinking, y.content = x.content \o p
    PROVE  Runs(y, s, e) /\ y.content \in Pieces
<1>1. Between(x.fullText, x.content, s, b)
    BY DEF Runs
<1>2. Between(x.fullText, x.content \o p, s, e)
    BY <1>1, Beside
<1>3. x.content \o p \in Pieces
    BY <1>2, PartIs
<1> QED
    BY <1>2, <1>3 DEF Runs, BeginsAt

LEMMA EmittedBy ==
    ASSUME NEW x, NEW c
    PROVE  /\ x.state = "thinking" => (Emitted(x, c) <=> x.thinking /\ x.content = <<>>)
           /\ x.state \in {"content", "raw"} => (Emitted(x, c) <=> \E s : Runs(x, s, c))
           /\ x.state \in InBlock =>
                 (Emitted(x, c) <=> x.rawBlockStart <= c /\ \E s : Runs(x, s, x.rawBlockStart))
           /\ x.state = "done" => (Emitted(x, c) <=> \E s, e : Runs(x, s, e) /\ Ended(x, e))
<1>1. CASE x.state = "thinking"
    BY <1>1, StatesApart DEF Emitted
<1>2. CASE x.state \in {"content", "raw"}
    BY <1>2, StatesApart DEF Emitted
<1>3. CASE x.state \in InBlock
    BY <1>3, StatesApart DEF Emitted
<1>4. CASE x.state = "done"
    BY <1>4, StatesApart DEF Emitted
<1> QED
    BY <1>1, <1>2, <1>3, <1>4

LEMMA ConsumedIs ==
    ASSUME NEW x, NEW c, Left(x.fullText, x.buf, c)
    PROVE  Consumed(x) = c /\ c \in Nat
<1>1. Len(x.buf) = Len(x.fullText) - c /\ c \in Nat /\ Len(x.fullText) \in Nat
    BY LeftIs
<1> QED
    BY <1>1 DEF Consumed

\* A block that fails is replayed.
LEMMA EntersRaw ==
    ASSUME NEW x, Struct(x), NEW c, Left(x.fullText, x.buf, c), NEW s, Runs(x, s, x.rawBlockStart),
           x.rawBlockStart <= c, NEW y, y = EnterRawMode(x)
    PROVE  Open(y)
<1> DEFINE p == SubSeq(x.fullText, x.rawBlockStart + 1, c)
<1>1. Consumed(x) = c /\ c \in Nat
    BY ConsumedIs
<1>2. Between(x.fullText, p, x.rawBlockStart, c)
  <2>1. x.rawBlockStart \in 0..Len(x.fullText)
    BY DEF Runs, Between
  <2>2. c \in 0..Len(x.fullText)
    BY DEF Left
  <2> QED
    BY <2>1, <2>2 DEF Between, Struct
<1>3. y = [x EXCEPT !.content = @ \o p, !.state = "raw", !.pending = NoPending, !.toolBlockClosed = FALSE,
                    !.seenToolCallsOp = FALSE, !.implicitBlock = FALSE]
  <2> DEFINE e == [x EXCEPT !.content = @ \o p]
  <2>1. Replayed(x) = e
    BY <1>1 DEF Replayed, EmitContent
  <2> QED
    BY <2>1 DEF EnterRawMode
<1> HIDE DEF p
<1>4. /\ Fields \subseteq DOMAIN y /\ y.fullText = x.fullText /\ y.thinking = x.thinking
      /\ y.content = x.content \o p /\ y.buf = x.buf /\ y.state = "raw" /\ y.syntax = x.syntax
      /\ y.tools = x.tools /\ y.rawBlockStart = x.rawBlockStart /\ y.pending = NoPending
    BY <1>3 DEF Struct, Fields
<1>5. IsPending(NoPending)
    BY Lists DEF IsPending, NoPending, PendingFields
<1>6. Runs(y, s, c) /\ y.content \in Pieces
    BY <1>2, <1>4, RunsFurther
<1>7. Struct(y) /\ Ready(y)
    BY <1>4, <1>5, <1>6 DEF Struct, Ready, States
<1>8. Emitted(y, c) /\ Left(y.fullText, y.buf, c)
    BY <1>4, <1>6, EmittedBy
<1> QED
    BY <1>7, <1>8 DEF Open

LEMMA CompletesBlock ==
    ASSUME NEW x, Struct(x)
    PROVE  LET y == CompleteToolBlock(x) IN
           /\ Struct(y) /\ y.state = "content" /\ y.fullText = x.fullText /\ y.thinking = x.thinking
           /\ y.content = x.content /\ y.buf = x.buf /\ y.rawBlockStart = x.rawBlockStart
           /\ y.tools = x.tools \o x.pending.calls /\ y.toolBlockClosed = x.toolBlockClosed
           /\ (x.pending.calls # <<>> \/ x.toolBlockClosed => WasRead(y))
<1> DEFINE y == CompleteToolBlock(x)
<1>1. /\ Fields \subseteq DOMAIN y /\ y.state = "content" /\ y.fullText = x.fullText
      /\ y.thinking = x.thinking /\ y.content = x.content /\ y.buf = x.buf /\ y.rawBlockStart = x.rawBlockStart
      /\ y.tools = x.tools \o x.pending.calls /\ y.toolBlockClosed = x.toolBlockClosed
      /\ y.pending = NoPending /\ y.syntax = x.syntax
    BY DEF CompleteToolBlock, Struct, Fields
<1> HIDE DEF y
<1>2. IsPending(NoPending)
    BY Lists DEF IsPending, NoPending, PendingFields
<1>3. IsList(y.tools) /\ (x.pending.calls # <<>> => y.tools # <<>>)
    BY <1>1, Lists DEF Struct, IsPending
<1>4. Struct(y)
    BY <1>1, <1>2, <1>3 DEF Struct, States
<1>5. x.pending.calls # <<>> \/ x.toolBlockClosed => WasRead(y)
    BY <1>1, <1>3 DEF WasRead
<1> QED
    BY <1>1, <1>4, <1>5 DEF y

LEMMA BlockMoves ==
    ASSUME NEW x, Open(x), x.state \in InBlock, NEW y, Moves(x, y)
    PROVE  Open(y)
<1>1. PICK c : Left(x.fullText, x.buf, c) /\ Emitted(x, c)
    BY DEF Open
<1>2. x.rawBlockStart <= c /\ \E s : Runs(x, s, x.rawBlockStart)
    BY <1>1, EmittedBy
<1>3. PICK s : Runs(x, s, x.rawBlockStart)
    BY <1>2
<1>4. PICK z : /\ Passed(x, z)
               /\ \/ y = z /\ z.state \in InBlock /\ Ready(z)
                  \/ y = EnterRawMode(z)
                  \/ y = To(CompleteToolBlock(z), "done") /\ WasRead(y)
    BY DEF Moves
<1>5. PICK n : Left(x.buf, z.buf, n)
    BY <1>4 DEF Passed
<1>6. /\ Struct(z) /\ z.fullText = x.fullText /\ z.content = x.content /\ z.thinking = x.thinking
      /\ z.rawBlockStart = x.rawBlockStart
    BY <1>4 DEF Passed, KeepsText
<1>7. Left(z.fullText, z.buf, c + n)
    BY <1>1, <1>5, <1>6, LeftOfLeft
<1>8. x.rawBlockStart <= c + n
  <2>1. c \in Nat /\ n \in Nat /\ x.rawBlockStart \in Nat
    BY <1>1, <1>5, LeftIs DEF Open, Struct
  <2> QED
    BY <1>2, <2>1
<1>9. Runs(z, s, z.rawBlockStart)
    BY <1>3, <1>6, RunsOn
<1>10. CASE y = z /\ z.state \in InBlock /\ Ready(z)
  <2>1. Emitted(z, c + n)
    BY <1>6, <1>8, <1>9, <1>10, EmittedBy
  <2> QED
    BY <1>6, <1>7, <1>10, <2>1 DEF Open
<1>11. CASE y = EnterRawMode(z)
    BY <1>6, <1>7, <1>8, <1>9, <1>11, EntersRaw
<1>12. CASE y = To(CompleteToolBlock(z), "done") /\ WasRead(y)
  <2> DEFINE w == CompleteToolBlock(z)
  <2>1. /\ Struct(w) /\ w.fullText = z.fullText /\ w.thinking = z.thinking
        /\ w.content = z.content /\ w.buf = z.buf /\ w.rawBlockStart = z.rawBlockStart
    BY <1>6, CompletesBlock
  <2> HIDE DEF w
  <2>2. Passed(w, To(w, "done")) /\ To(w, "done").state = "done" /\ To(w, "done").buf = w.buf
    BY <2>1, ToPasses DEF States
  <2>3. /\ Struct(y) /\ y.state = "done" /\ y.fullText = z.fullText /\ y.thinking = z.thinking
        /\ y.content = z.content /\ y.buf = z.buf /\ y.rawBlockStart = z.rawBlockStart
    BY <1>12, <2>1, <2>2 DEF w, Passed, KeepsText
  <2>4. Runs(y, s, z.rawBlockStart) /\ Ended(y, z.rawBlockStart)
    BY <1>9, <1>12, <2>3, RunsOn DEF Ended
  <2>5. Emitted(y, c + n) /\ Left(y.fullText, y.buf, c + n) /\ Ready(y)
    BY <1>7, <2>3, <2>4, EmittedBy DEF Ready
  <2> QED
    BY <2>3, <2>5 DEF Open
<1> QED
    BY <1>4, <1>10, <1>11, <1>12

-----------------------------------------------------------------------------
(* The handlers inside a block *)

LEMMA Goes ==
    ASSUME NEW x, NEW z, Passed(x, z)
    PROVE  /\ z.state \in InBlock /\ Ready(z) => Moves(x, z)
           /\ Moves(x, EnterRawMode(z))
           /\ z.pending.calls # <<>> \/ z.toolBlockClosed => Moves(x, To(CompleteToolBlock(z), "done"))
<1>1. z.state \in InBlock /\ Ready(z) => Moves(x, z)
    BY DEF Moves
<1>2. Moves(x, EnterRawMode(z))
    BY DEF Moves
<1>3. ASSUME z.pending.calls # <<>> \/ z.toolBlockClosed
      PROVE  Moves(x, To(CompleteToolBlock(z), "done"))
  <2> DEFINE w == CompleteToolBlock(z)
             y == To(w, "done")
  <2>1. Struct(w) /\ WasRead(w)
    BY <1>3, CompletesBlock DEF Passed
  <2> HIDE DEF w
  <2>2. y.tools = w.tools /\ y.toolBlockClosed = w.toolBlockClosed
    BY <2>1 DEF To, Struct, Fields
  <2>3. WasRead(y)
    <3> HIDE DEF y
    <3> QED
        BY <2>1, <2>2 DEF WasRead
  <2> QED
    BY <2>3 DEF w, Moves
<1> QED
    BY <1>1, <1>2, <1>3

LEMMA StaysThere ==
    ASSUME NEW x, Open(x), x.state \in InBlock
    PROVE  Moves(x, x) /\ Moves(x, EnterRawMode(x)) /\ Struct(x) /\ x.buf \in Pieces /\ Ready(x)
BY Stays, Goes DEF Open, Struct

LEMMA PieceLengths ==
    /\ Len(<<">">>) = 1 /\ Len(InvokeStart) = 1 /\ Len(ParamStart) = 1 /\ Len(FnStart) = 1 /\ Len(QParamStart) = 1
    /\ Len(ToolEnd) = 2 /\ Len(InvokeEnd) = 2 /\ Len(ParamEnd) = 2 /\ Len(CallStart) = 2 /\ Len(CallEnd) = 2
    /\ Len(KeyStart) = 2 /\ Len(KeyEnd) = 2 /\ Len(ValueStart) = 2 /\ Len(ValueEnd) = 2
    /\ Len(FnEnd) = 2 /\ Len(QParamEnd) = 2
BY DEF InvokeStart, ParamStart, FnStart, QParamStart, ToolEnd, InvokeEnd, ParamEnd, CallStart, CallEnd,
       KeyStart, KeyEnd, ValueStart, ValueEnd, FnEnd, QParamEnd, Tag

LEMMA Opener ==
    /\ Len(ToolStart) \in Nat
    /\ Len(<<"nl", "nl">> \o ToolStart) \in Nat
BY DEF ToolStart, Tag

\* Two pieces less, or n of them.
LEMMA DropsTag ==
    ASSUME NEW x, Struct(x), NEW p, NEW k \in Nat, Len(p) = k, IsPrefix(p, x.buf), NEW z, z = Drop(x, k)
    PROVE  Passed(x, z) /\ z.state = x.state /\ z.pending = x.pending /\ Same(x, z)
<1>1. k \in 0..Len(x.buf)
    BY PrefixIs DEF Struct
<1> QED
    BY <1>1, DropPasses

LEMMA ClosesPasses ==
    ASSUME NEW x, Struct(x), NEW z, z = [x EXCEPT !.toolBlockClosed = TRUE, !.state = "checkEnd"]
    PROVE  Passed(x, z) /\ Struct(z) /\ z.state = "checkEnd" /\ z.toolBlockClosed /\ z.buf = x.buf
<1>1. Left(x.buf, x.buf, 0)
    BY LeftAll DEF Struct
<1> QED
    BY <1>1 DEF Passed, Struct, KeepsText, Fields, States, InBlock

LEMMA ToolCallsMove ==
    ASSUME NEW x0, Open(x0), x0.state = "toolCalls"
    PROVE  Moves(x0, ProcessInToolCalls(x0))
<1> DEFINE opener == IF IsPrefix(<<"nl", "nl">>, x0.buf) THEN <<"nl", "nl">> \o ToolStart ELSE ToolStart
           x == Skipped(x0)
           closes == [x EXCEPT !.toolBlockClosed = TRUE, !.state = "checkEnd"]
           seen == [x0 EXCEPT !.seenToolCallsOp = TRUE]
           y == ProcessInToolCalls(x0)
<1>1. y = CASE ~x0.seenToolCallsOp ->
                 IF IsPrefix(opener, x0.buf) THEN Drop(seen, Len(opener)) ELSE EnterRawMode(x0)
            [] x0.seenToolCallsOp /\ x.buf = <<>> -> x
            [] x0.seenToolCallsOp /\ x.buf # <<>> ->
                 IF ~x.implicitBlock /\ IsPrefix(ToolEnd, x.buf) THEN Drop(closes, 2)
                 ELSE IF Classify(x.buf, InvokeStart) = "yes" THEN To(x, "invoke")
                 ELSE IF Classify(x.buf, InvokeStart) = "partial" /\ ~x.finalPass THEN x
                 ELSE IF ~x.implicitBlock /\ ~x.finalPass /\ Partial(x.buf, ToolEnd) THEN x
                 ELSE IF x.implicitBlock /\ x.pending.calls # <<>> THEN closes
                 ELSE EnterRawMode(x)
    BY DEF ProcessInToolCalls
<1>2. Struct(x0) /\ x0.state \in InBlock /\ Moves(x0, EnterRawMode(x0))
    BY StaysThere DEF InBlock, Open
<1>3. Passed(x0, x) /\ x.state = "toolCalls" /\ Struct(x)
    BY <1>2, SkipPasses DEF Passed
<1>4. Moves(x0, x) /\ Moves(x0, EnterRawMode(x))
    BY <1>3, Goes DEF InBlock, Ready
<1>5. Moves(x0, closes)
  <2> DEFINE c == closes
  <2>1. Passed(x, c) /\ c.state = "checkEnd" /\ c.toolBlockClosed
    <3> HIDE DEF x
    <3> QED
        BY <1>3, ClosesPasses
  <2> HIDE DEF x, c
  <2> QED
    BY <1>3, <2>1, PassedTwice, Goes DEF InBlock, Ready, c
<1>6. Moves(x0, To(x, "invoke"))
  <2> DEFINE c == To(x, "invoke")
  <2>1. Passed(x, c) /\ c.state = "invoke"
    <3> HIDE DEF x
    <3> QED
        BY <1>3, ToPasses DEF States, InBlock
  <2> HIDE DEF x, c
  <2> QED
    BY <1>3, <2>1, PassedTwice, Goes DEF InBlock, Ready, c
<1>7. IsPrefix(ToolEnd, x.buf) => Moves(x0, Drop(closes, 2))
  <2> SUFFICES ASSUME IsPrefix(ToolEnd, x.buf) PROVE Moves(x0, Drop(closes, 2))
    OBVIOUS
  <2> DEFINE c == closes
             z == Drop(c, 2)
  <2>1. Passed(x, c) /\ Struct(c) /\ c.state = "checkEnd" /\ c.toolBlockClosed /\ c.buf = x.buf
    <3> HIDE DEF x
    <3> QED
        BY <1>3, ClosesPasses
  <2> HIDE DEF x, c
  <2>2. Passed(c, z) /\ z.state = c.state /\ Same(c, z)
    <3>1. IsPrefix(ToolEnd, c.buf) /\ Len(ToolEnd) = 2 /\ Struct(c)
        BY <2>1, PieceLengths
    <3> HIDE DEF z
    <3>2. z = Drop(c, 2)
        BY DEF z
    <3> QED
        BY <3>1, <3>2, DropsTag
  <2> HIDE DEF z
  <2>3. Passed(x0, z)
    BY <1>3, <2>1, <2>2, PassedTwice
  <2> QED
    BY <2>1, <2>2, <2>3, Goes DEF InBlock, Ready, Same, c, z
<1>8. IsPrefix(opener, x0.buf) => Moves(x0, Drop(seen, Len(opener)))
  <2> SUFFICES ASSUME IsPrefix(opener, x0.buf) PROVE Moves(x0, Drop(seen, Len(opener)))
    OBVIOUS
  <2> DEFINE z == Drop(seen, Len(opener))
             s == seen
  <2>1. Struct(s) /\ s.buf = x0.buf /\ s.state = "toolCalls" /\ KeepsText(x0, s)
    BY <1>2 DEF Struct, Fields, KeepsText
  <2>2. Passed(x0, s)
    <3> HIDE DEF s
    <3> QED
        BY <1>2, <2>1, LeftAll DEF Passed, Struct
  <2>3. Len(opener) \in Nat
    BY Opener
  <2> HIDE DEF s, opener
  <2>4. Passed(s, z) /\ z.state = s.state
    <3> DEFINE k == Len(opener)
    <3>1. IsPrefix(opener, s.buf) /\ k \in Nat /\ Len(opener) = k /\ z = Drop(s, k)
        BY <2>1, <2>3 DEF s
    <3> HIDE DEF k, z
    <3> QED
        BY <2>1, <3>1, DropsTag
  <2> HIDE DEF z
  <2>5. Passed(x0, z)
    BY <2>2, <2>4, PassedTwice
  <2> QED
    BY <2>1, <2>4, <2>5, Goes DEF InBlock, Ready, z, s
<1> HIDE DEF x, y, closes, seen, opener
<1> QED
    BY <1>1, <1>2, <1>4, <1>5, <1>6, <1>7, <1>8 DEF y

LEMMA UptoAngle ==
    ASSUME NEW t \in Pieces
    PROVE  At(t, <<">">>) \in 0..Len(t)
<1> DEFINE p == <<">">>
           k == 1
<1>1. Len(p) = k /\ k \in Nat
    OBVIOUS
<1> HIDE DEF p, k
<1>2. At(t, p) \in Nat /\ (At(t, p) > 0 => At(t, p) + k <= Len(t) + 1)
    BY <1>1, AtIs
<1> DEFINE a == At(t, p)
<1>3. a \in Nat /\ (a > 0 => a + 1 <= Len(t) + 1) /\ Len(t) \in Nat
    BY <1>2 DEF k, Pieces
<1> HIDE DEF a
<1>4. a \in 0..Len(t)
    BY <1>3
<1> QED
    BY <1>4 DEF a, p

LEMMA InvokeMoves ==
    ASSUME NEW x, Open(x), x.state = "invoke"
    PROVE  Moves(x, ProcessInInvoke(x))
<1> DEFINE n == At(x.buf, <<">">>)
           z == Drop(x, n)
           w == Opens(z, "invokeBody")
<1>1. Struct(x) /\ x.state \in InBlock /\ Moves(x, EnterRawMode(x)) /\ Moves(x, x)
    BY StaysThere DEF InBlock, Open
<1>2. n \in 0..Len(x.buf)
    BY <1>1, UptoAngle DEF Struct
<1>3. Passed(x, z) /\ Struct(z)
    BY <1>1, <1>2, DropPasses DEF Passed
<1> HIDE DEF z
<1>4. Passed(z, w) /\ w.state = "invokeBody"
    BY <1>3, OpensPasses DEF States, InBlock
<1> HIDE DEF w
<1>5. Moves(x, w)
    BY <1>3, <1>4, PassedTwice, Goes DEF InBlock, Ready
<1>6. ProcessInInvoke(x) \in {x, EnterRawMode(x), w}
    BY DEF ProcessInInvoke, w, z
<1> QED
    BY <1>1, <1>5, <1>6

LEMMA ParameterMoves ==
    ASSUME NEW x, Open(x), x.state = "param"
    PROVE  Moves(x, ProcessInParameter(x))
<1> DEFINE n == At(x.buf, <<">">>)
           p == [x.pending EXCEPT !.key = <<"k">>, !.string = IsString(x.buf)]
           w == [x EXCEPT !.pending.key = <<"k">>, !.pending.string = IsString(x.buf), !.state = "paramValue"]
           z == Drop(w, n)
<1>1. Struct(x) /\ x.state \in InBlock /\ Moves(x, EnterRawMode(x)) /\ Moves(x, x)
    BY StaysThere DEF InBlock, Open
<1>2. IsPending(p)
    BY <1>1 DEF Struct, IsPending, PendingFields
<1>3. Works(x, p, "paramValue", w)
    BY <1>1 DEF Works, Struct, Fields
<1> HIDE DEF p, w
<1>4. Passed(x, w) /\ w.state = "paramValue" /\ w.buf = x.buf
    BY <1>1, <1>2, <1>3, PendingPasses DEF States, InBlock
<1>5. n \in 0..Len(w.buf)
    BY <1>1, <1>4, UptoAngle DEF Struct
<1>6. Passed(w, z) /\ z.state = "paramValue"
    BY <1>4, <1>5, DropPasses DEF Passed
<1> HIDE DEF z
<1>7. Moves(x, z)
    BY <1>4, <1>6, PassedTwice, Goes DEF InBlock, Ready
<1>8. ProcessInParameter(x) \in {x, EnterRawMode(x), z}
    BY DEF ProcessInParameter, w, z
<1> QED
    BY <1>1, <1>7, <1>8

LEMMA InvokeBodyMoves ==
    ASSUME NEW x0, Open(x0), x0.state = "invokeBody"
    PROVE  Moves(x0, ProcessInInvokeBody(x0))
<1> DEFINE x == Skipped(x0)
           z == Drop(x, 2)
           w == Completes(z, "toolCalls")
           v == To(x, "param")
<1>1. Struct(x0)
    BY DEF Open
<1>2. Passed(x0, x) /\ x.state = "invokeBody" /\ Struct(x)
    BY <1>1, SkipPasses DEF Passed
<1> HIDE DEF x
<1>3. Moves(x0, x) /\ Moves(x0, EnterRawMode(x))
    BY <1>2, Goes DEF InBlock, Ready
<1>4. Passed(x, v) /\ v.state = "param"
    BY <1>2, ToPasses DEF States, InBlock
<1> HIDE DEF v
<1>5. Moves(x0, v)
    BY <1>2, <1>4, PassedTwice, Goes DEF InBlock, Ready
<1>6. IsPrefix(InvokeEnd, x.buf) => Moves(x0, CompleteInvoke(z))
  <2> SUFFICES ASSUME IsPrefix(InvokeEnd, x.buf) PROVE Moves(x0, CompleteInvoke(z))
    OBVIOUS
  <2>1. Passed(x, z) /\ Struct(z)
    BY <1>2, DropsTag, PieceLengths DEF Passed
  <2> HIDE DEF z
  <2>2. Passed(z, w) /\ w.state = "toolCalls"
    BY <2>1, CompletesPasses DEF States, InBlock
  <2> HIDE DEF w
  <2>3. Passed(x0, z)
    BY <1>2, <2>1, PassedTwice
  <2>4. Passed(x0, w)
    BY <2>2, <2>3, PassedTwice
  <2>5. Moves(x0, w) /\ Moves(x0, EnterRawMode(z))
    BY <2>2, <2>3, <2>4, Goes DEF InBlock, Ready
  <2> QED
    BY <2>5 DEF CompleteInvoke, w
<1>7. /\ ProcessInInvokeBody(x0) \in {x, EnterRawMode(x), v, CompleteInvoke(z)}
      /\ ProcessInInvokeBody(x0) \in {x, EnterRawMode(x), v} \/ IsPrefix(InvokeEnd, x.buf)
    BY DEF ProcessInInvokeBody, x, z, v
<1> HIDE DEF z
<1> QED
    BY <1>3, <1>5, <1>6, <1>7

LEMMA ParameterValueMoves ==
    ASSUME NEW x, Open(x), x.state = "paramValue"
    PROVE  Moves(x, ProcessInParameterValue(x))
<1> DEFINE i == At(x.buf, ParamEnd)
           a == Put(x.pending.args, x.pending.key, UpTo(x.buf, ParamEnd), x.pending.string)
           p == [x.pending EXCEPT !.args = a]
           w == [x EXCEPT !.pending.args = a, !.state = "invokeBody"]
           z == Drop(w, i + 1)
<1>1. Struct(x) /\ x.state \in InBlock /\ Moves(x, EnterRawMode(x)) /\ Moves(x, x)
    BY StaysThere DEF InBlock, Open
<1>2. i \in Nat
    BY <1>1, AtTag, PieceLengths DEF Struct
<1>3. i # 0 => Moves(x, z)
  <2> SUFFICES ASSUME i # 0 PROVE Moves(x, z)
    OBVIOUS
  <2>1. i + 1 \in 0..Len(x.buf)
    BY <1>1, <1>2, AtParts, PieceLengths DEF Struct
  <2>2. IsPending(p)
    BY <1>1 DEF Struct, IsPending, PendingFields
  <2>3. Works(x, p, "invokeBody", w)
    BY <1>1 DEF Works, Struct, Fields
  <2> HIDE DEF a, p, w, i
  <2>4. Passed(x, w) /\ w.state = "invokeBody" /\ w.buf = x.buf
    BY <1>1, <2>2, <2>3, PendingPasses DEF States, InBlock
  <2>5. Passed(w, z) /\ z.state = "invokeBody"
    BY <2>1, <2>4, DropPasses DEF Passed
  <2> HIDE DEF z
  <2> QED
    BY <2>4, <2>5, PassedTwice, Goes DEF InBlock, Ready
<1>4. ProcessInParameterValue(x) = IF i = 0 THEN IF x.finalPass THEN EnterRawMode(x) ELSE x ELSE z
    BY DEF ProcessInParameterValue
<1> HIDE DEF i, z
<1> QED
    BY <1>1, <1>3, <1>4

LEMMA LeftAgain ==
    ASSUME NEW t, NEW u, NEW v, \E n : Left(t, u, n), \E n : Left(u, v, n)
    PROVE  \E n : Left(t, v, n)
BY LeftOfLeft

LEMMA AfterTag ==
    ASSUME NEW v, NEW t \in Pieces, \E n : Left(v, t, n), NEW p, Len(p) = 2, IsPrefix(p, t)
    PROVE  \E n : Left(v, From(t, 3), n)
<1> DEFINE k == 2
<1>1. k \in Nat /\ Len(p) = k /\ k + 1 = 3
    OBVIOUS
<1> HIDE DEF k
<1>2. Left(t, From(t, k + 1), k)
    BY <1>1, PrefixIs
<1>3. Left(t, From(t, 3), k)
    BY <1>1, <1>2
<1> QED
    BY <1>3, LeftAgain

LEMMA RawState ==
    ASSUME NEW x, Struct(x)
    PROVE  EnterRawMode(x).state = "raw"
BY DEF EnterRawMode, Replayed, EmitContent, Struct, Fields

LEMMA TagsAreSequences ==
    /\ KeyStart = SubSeq(KeyStart, 1, Len(KeyStart))
    /\ ValueStart = SubSeq(ValueStart, 1, Len(ValueStart))
BY DEF KeyStart, ValueStart, Tag

\* The buffer is cut, and the key of the next value is known.
LEMMA CutsWithKey ==
    ASSUME NEW x, Struct(x), NEW u, \E n : Left(x.buf, u, n), NEW key, NEW s \in {"glmValue", "qwenValue"}
    PROVE  Moves(x, [x EXCEPT !.pending.key = key, !.buf = u, !.state = s])
<1> DEFINE y == [x EXCEPT !.pending.key = key, !.buf = u, !.state = s]
           p == [x.pending EXCEPT !.key = key]
           w == [x EXCEPT !.pending.key = key, !.state = s]
<1>1. IsPending(p)
    BY DEF Struct, IsPending, PendingFields
<1>2. Works(x, p, s, w)
    BY DEF Works, Struct, Fields
<1>3. y = [w EXCEPT !.buf = u]
    BY DEF Struct, Fields
<1> HIDE DEF p, w
<1>4. Passed(x, w) /\ w.state = s /\ w.buf = x.buf /\ Struct(w)
    BY <1>1, <1>2, PendingPasses DEF States, InBlock, Passed
<1>5. Passed(w, y) /\ y.state = s
    BY SMTT(30), <1>3, <1>4, BufPasses
<1> HIDE DEF y
<1>6. Moves(x, y)
    BY <1>4, <1>5, PassedTwice, Goes DEF InBlock, Ready
<1> QED
    BY <1>6 DEF y

LEMMA CheckEndMoves ==
    ASSUME NEW x0, Open(x0), x0.state = "checkEnd"
    PROVE  /\ Moves(x0, ProcessCheckingToolBlockEnd(x0))
           /\ x0.finalPass /\ ProcessCheckingToolBlockEnd(x0).state = "checkEnd"
                => ProcessCheckingToolBlockEnd(x0).buf = <<>>
<1> DEFINE x == Skipped(x0)
           z == Drop(x, 2)
           y == ProcessCheckingToolBlockEnd(x0)
<1>1. Struct(x0) /\ x0.toolBlockClosed
    BY DEF Open, Ready
<1>2. Passed(x0, x) /\ x.state = "checkEnd" /\ Struct(x) /\ x.toolBlockClosed /\ x.finalPass = x0.finalPass
    BY <1>1, SkipPasses DEF Passed, Same, KeepsText
<1> HIDE DEF x
<1>3. Moves(x0, x) /\ Moves(x0, EnterRawMode(x))
    BY <1>2, Goes DEF InBlock, Ready
<1>4. IsPrefix(Eos, x.buf) => Moves(x0, To(CompleteToolBlock(z), "done")) /\ To(CompleteToolBlock(z), "done").state = "done"
  <2> SUFFICES ASSUME IsPrefix(Eos, x.buf)
               PROVE  Moves(x0, To(CompleteToolBlock(z), "done")) /\ To(CompleteToolBlock(z), "done").state = "done"
    OBVIOUS
  <2>0. Passed(x, z) /\ Same(x, z)
    BY <1>2, DropsTag, TagLengths
  <2>1. Passed(x, z) /\ Struct(z) /\ z.toolBlockClosed
    BY <1>2, <2>0 DEF Passed, Same
  <2> HIDE DEF z
  <2>2. Passed(x0, z)
    BY <1>2, <2>1, PassedTwice
  <2> DEFINE w == CompleteToolBlock(z)
  <2>3. Struct(w)
    BY <2>1, CompletesBlock
  <2> HIDE DEF w
  <2>4. To(w, "done").state = "done"
    BY <2>3, ToPasses DEF States
  <2> QED
    BY <2>1, <2>2, <2>4, Goes DEF w
<1>5. y = IF x.buf = <<>> THEN x
          ELSE IF IsPrefix(Eos, x.buf) THEN To(CompleteToolBlock(z), "done")
          ELSE IF ~x.finalPass /\ Partial(x.buf, Eos) THEN x
          ELSE EnterRawMode(x)
    BY DEF ProcessCheckingToolBlockEnd, x
<1>6. EnterRawMode(x).state = "raw"
    BY <1>2, RawState
<1> HIDE DEF z, y
<1> QED
    BY <1>2, <1>3, <1>4, <1>5, <1>6 DEF y

-----------------------------------------------------------------------------
(* GLM *)

LEMMA GLMNameMoves ==
    ASSUME NEW x, Open(x), x.state = "glmName"
    PROVE  Moves(x, ProcessGLMName(x))
<1> DEFINE lt == CHOOSE i \in FirstAngle(x.buf) : TRUE
           z == Drop(x, lt - 1)
           w == Opens(z, "glmKey")
<1>1. Struct(x) /\ x.state \in InBlock /\ Moves(x, EnterRawMode(x)) /\ Moves(x, x)
    BY StaysThere DEF InBlock, Open
<1>2. FirstAngle(x.buf) # {} => Moves(x, w)
  <2> SUFFICES ASSUME FirstAngle(x.buf) # {} PROVE Moves(x, w)
    OBVIOUS
  <2>1. lt - 1 \in 0..Len(x.buf)
    <3> DEFINE F == FirstAngle(x.buf)
               l == Len(x.buf)
    <3>1. x.buf \in Seq(STRING)
        BY <1>1 DEF Struct, Pieces
    <3>2. DOMAIN x.buf = 1..l /\ l \in Nat
        BY ONLY <3>1, LenProperties
    <3>3. F \subseteq DOMAIN x.buf
        BY DEF FirstAngle
    <3>4. lt \in F
        BY ONLY FirstAngle(x.buf) # {}
    <3> HIDE DEF lt, F, l
    <3>5. lt \in 1..l
        BY <3>2, <3>3, <3>4
    <3>6. lt - 1 \in 0..l
        BY <3>2, <3>5
    <3> QED
        BY <3>6 DEF l
  <2> HIDE DEF lt
  <2>2. Passed(x, z) /\ Struct(z)
    BY <1>1, <2>1, DropPasses DEF Passed
  <2> HIDE DEF z
  <2>3. Passed(z, w) /\ w.state = "glmKey"
    BY <2>2, OpensPasses DEF States, InBlock
  <2> HIDE DEF w
  <2> QED
    BY <2>2, <2>3, PassedTwice, Goes DEF InBlock, Ready
<1>3. ProcessGLMName(x) \in {x, EnterRawMode(x)} \/ (FirstAngle(x.buf) # {} /\ ProcessGLMName(x) = w)
    BY DEF ProcessGLMName
<1> HIDE DEF w
<1> QED
    BY <1>1, <1>2, <1>3

LEMMA GLMArgKeyMoves ==
    ASSUME NEW x, Open(x), x.state = "glmKey"
    PROVE  Moves(x, ProcessGLMArgKey(x))
<1> DEFINE body == After(x.buf, KeyStart)
           rest0 == After(body, KeyEnd)
           value == Skip(rest0)
           u == After(value, ValueStart)
           key == Trim(UpTo(body, KeyEnd))
           z == Drop(x, 2)
           w == Completes(z, "afterCall")
           v == [x EXCEPT !.pending.key = key, !.buf = u, !.state = "glmValue"]
<1>1. Struct(x) /\ x.state \in InBlock /\ Moves(x, EnterRawMode(x)) /\ Moves(x, x)
    BY StaysThere DEF InBlock, Open
<1>2. IsPrefix(CallEnd, x.buf) => Moves(x, w)
  <2> SUFFICES ASSUME IsPrefix(CallEnd, x.buf) PROVE Moves(x, w)
    OBVIOUS
  <2>1. Passed(x, z) /\ Struct(z)
    BY <1>1, DropsTag, PieceLengths DEF Passed
  <2> HIDE DEF z
  <2>2. Passed(z, w) /\ w.state = "afterCall" /\ w.pending.calls # <<>>
    BY <2>1, CompletesPasses DEF States, InBlock
  <2> HIDE DEF w
  <2> QED
    BY <2>1, <2>2, PassedTwice, Goes DEF InBlock, Ready
<1>3. IsPrefix(KeyStart, x.buf) /\ At(body, KeyEnd) # 0 /\ IsPrefix(ValueStart, value) => Moves(x, v)
  <2> SUFFICES ASSUME IsPrefix(KeyStart, x.buf), At(body, KeyEnd) # 0, IsPrefix(ValueStart, value)
               PROVE  Moves(x, v)
    OBVIOUS
  <2>1. Left(x.buf, body, At(x.buf, KeyStart) + 1)
    BY <1>1, PrefixAt, AtParts, PieceLengths, TagsAreSequences DEF Struct
  <2>2. body \in Pieces
    BY <2>1, LeftIs
  <2> HIDE DEF body
  <2>3. Left(body, rest0, At(body, KeyEnd) + 1)
    <3> DEFINE a == At(body, KeyEnd)
    <3>0. a \in Nat
        BY <2>2, AtTag, PieceLengths
    <3>1. a > 0
        BY <3>0
    <3> QED
        BY <2>2, <3>1, AtParts, PieceLengths
  <2>4. rest0 \in Pieces
    BY <2>3, LeftIs
  <2> HIDE DEF rest0
  <2>5. value \in Pieces /\ \E n \in 0..Len(rest0) : Left(rest0, value, n)
    BY <2>4, SkipIs
  <2> HIDE DEF value
  <2>6. Left(value, u, At(value, ValueStart) + 1)
    BY <2>5, PrefixAt, AtParts, PieceLengths, TagsAreSequences
  <2> HIDE DEF u
  <2>7. \E n : Left(x.buf, u, n)
    <3>1. \E n : Left(x.buf, rest0, n)
        BY <2>1, <2>3, LeftAgain
    <3>2. \E n : Left(x.buf, value, n)
        BY <2>5, <3>1, LeftAgain
    <3> QED
        BY <2>6, <3>2, LeftAgain
  <2> QED
    BY <1>1, <2>7, CutsWithKey
<1>4. \/ ProcessGLMArgKey(x) \in {x, EnterRawMode(x)}
      \/ IsPrefix(CallEnd, x.buf) /\ ProcessGLMArgKey(x) = w
      \/ IsPrefix(KeyStart, x.buf) /\ At(body, KeyEnd) # 0 /\ IsPrefix(ValueStart, value) /\ ProcessGLMArgKey(x) = v
  <2> HIDE DEF u
  <2> QED
    BY DEF ProcessGLMArgKey, u
<1> HIDE DEF w, v, value, body
<1> QED
    BY <1>1, <1>2, <1>3, <1>4

\* What all handlers of a value do.
LEMMA ValueMoves ==
    ASSUME NEW x, Open(x), x.state \in InBlock, NEW p, Len(p) = 2, At(x.buf, p) # 0, NEW a,
           NEW s \in {"glmKey", "qwenParam"}
    PROVE  Moves(x, Drop([x EXCEPT !.pending.args = a, !.state = s], At(x.buf, p) + 1))
<1> DEFINE i == At(x.buf, p)
           q == [x.pending EXCEPT !.args = a]
           w == [x EXCEPT !.pending.args = a, !.state = s]
           z == Drop(w, i + 1)
<1>1. Struct(x)
    BY DEF Open
<1>2. i \in Nat
    BY <1>1, AtTag DEF Struct
<1>3. i + 1 \in 0..Len(x.buf)
    BY <1>1, <1>2, AtParts DEF Struct
<1>4. IsPending(q)
    BY <1>1 DEF Struct, IsPending, PendingFields
<1>5. Works(x, q, s, w)
    BY <1>1 DEF Works, Struct, Fields
<1> HIDE DEF q, w, i
<1>6. Passed(x, w) /\ w.state = s /\ w.buf = x.buf
    BY <1>1, <1>4, <1>5, PendingPasses DEF States, InBlock
<1>7. Passed(w, z) /\ z.state = s
    BY <1>3, <1>6, DropPasses DEF Passed
<1> HIDE DEF z
<1>8. Moves(x, z)
    BY <1>6, <1>7, PassedTwice, Goes DEF InBlock, Ready
<1> QED
    BY <1>8 DEF z, w, i

LEMMA GLMArgValueMoves ==
    ASSUME NEW x, Open(x), x.state = "glmValue"
    PROVE  Moves(x, ProcessGLMArgValue(x))
<1> DEFINE i == At(x.buf, ValueEnd)
           a == Put(x.pending.args, x.pending.key, UpTo(x.buf, ValueEnd), TRUE)
           z == Drop([x EXCEPT !.pending.args = a, !.state = "glmKey"], i + 1)
<1>1. x.state \in InBlock /\ Moves(x, x)
    BY StaysThere DEF InBlock
<1>2. i # 0 => Moves(x, z)
  <2> HIDE DEF a
  <2> QED
    BY <1>1, ValueMoves, PieceLengths
<1>3. ProcessGLMArgValue(x) = IF i = 0 THEN x ELSE z
    BY DEF ProcessGLMArgValue
<1> HIDE DEF i, z
<1> QED
    BY <1>1, <1>2, <1>3

LEMMA AfterCallMoves ==
    ASSUME NEW x, Open(x), x.state = "afterCall"
    PROVE  /\ Moves(x, ProcessAfterCall(x))
           /\ x.finalPass /\ ProcessAfterCall(x).state = "afterCall" => Blank(ProcessAfterCall(x).buf)
<1> DEFINE t == Skip(x.buf)
           at == [x EXCEPT !.buf = t]
           s == IF x.syntax = "glm" THEN "glmName" ELSE "qwenFn"
           n == To(at, s)
           m == Drop(n, 2)
           z == Drop(at, 2)
           w == CompleteToolBlock(z)
           y == ProcessAfterCall(x)
<1>1. Struct(x) /\ x.state \in InBlock /\ Moves(x, EnterRawMode(x)) /\ Moves(x, x) /\ x.pending.calls # <<>>
    BY StaysThere DEF InBlock, Open, Ready
<1>2. Passed(x, at) /\ at.state = "afterCall" /\ at.pending = x.pending /\ at.buf = t /\ Struct(at)
  <2>1. at = Skipped(x)
    BY DEF Skipped
  <2> QED
    BY <1>1, <2>1, SkipPasses DEF Passed
<1>3. t = <<>> => Blank(x.buf)
    BY <1>1, SkipIs DEF Struct
<1> HIDE DEF t, at
<1>4. IsPrefix(CallStart, t) => Moves(x, m) /\ m.state = s
  <2> SUFFICES ASSUME IsPrefix(CallStart, t) PROVE Moves(x, m) /\ m.state = s
    OBVIOUS
  <2>0. s \in {"glmName", "qwenFn"}
    OBVIOUS
  <2> HIDE DEF s
  <2>1. Passed(at, n) /\ n.state = s /\ n.buf = t /\ Struct(n)
    BY <1>2, <2>0, ToPasses DEF States, InBlock, Passed
  <2> HIDE DEF n
  <2>2. Passed(n, m) /\ m.state = s
    BY <2>1, DropsTag, PieceLengths
  <2> HIDE DEF m
  <2>3. Passed(x, m)
    BY <1>2, <2>1, <2>2, PassedTwice
  <2> QED
    BY <2>0, <2>2, <2>3, Goes DEF InBlock, Ready
<1>5. IsPrefix(Eos, t) => Moves(x, To(w, "done")) /\ To(w, "done").state = "done"
  <2> SUFFICES ASSUME IsPrefix(Eos, t) PROVE Moves(x, To(w, "done")) /\ To(w, "done").state = "done"
    OBVIOUS
  <2>0. Passed(at, z) /\ z.pending = at.pending
    BY <1>2, DropsTag, TagLengths
  <2> HIDE DEF z
  <2>1. Struct(z) /\ z.pending.calls # <<>>
    BY <1>1, <1>2, <2>0 DEF Passed
  <2>2. Passed(x, z)
    BY <1>2, <2>0, PassedTwice
  <2>3. Struct(w)
    BY <2>1, CompletesBlock
  <2>4. To(w, "done").state = "done"
    <3> HIDE DEF w
    <3> QED
        BY <2>3, ToPasses DEF States
  <2> QED
    BY <2>1, <2>2, <2>4, Goes
<1>6. y = IF IsPrefix(CallStart, t) THEN m
          ELSE IF IsPrefix(Eos, t) THEN To(w, "done")
          ELSE IF t = <<>> \/ (~x.finalPass /\ (Partial(t, CallStart) \/ Partial(t, Eos))) THEN x
          ELSE EnterRawMode(x)
    BY DEF ProcessAfterCall, t, at
<1>7. EnterRawMode(x).state = "raw" /\ s \in {"glmName", "qwenFn"}
    BY <1>1, RawState
<1> HIDE DEF m, w, y, s
<1> QED
    BY <1>1, <1>3, <1>4, <1>5, <1>6, <1>7 DEF y

-----------------------------------------------------------------------------
(* Qwen *)

\* What follows an opening that ends with a name.
LEMMA WithNameMoves ==
    ASSUME NEW x, Open(x), x.state \in InBlock, NEW t, \E n : Left(x.buf, t, n), NEW p, Len(p) = 1, IsPrefix(p, t),
           NEW next, \A u : (\E n : Left(x.buf, u, n)) => Moves(x, [next EXCEPT !.buf = u])
    PROVE  Moves(x, WithName(x, t, next))
<1> DEFINE name == From(t, 2)
           u == After(name, <<">">>)
<1>1. Moves(x, x) /\ Moves(x, EnterRawMode(x))
    BY StaysThere
<1>2. t \in Pieces
    BY LeftIs
<1>3. Left(t, name, 1)
  <2> DEFINE k == 1
  <2>1. k \in Nat /\ Len(p) = k /\ k + 1 = 2
    OBVIOUS
  <2> HIDE DEF k
  <2>2. Left(t, From(t, k + 1), k)
    BY <1>2, <2>1, PrefixIs
  <2> QED
    BY <2>2 DEF k
<1>4. name \in Pieces
    BY <1>3, LeftIs
<1> HIDE DEF name
<1>5. Left(name, u, At(name, <<">">>))
    BY <1>4, UptoAngle DEF Left, After
<1> HIDE DEF u
<1>6. \E n : Left(x.buf, u, n)
  <2>1. \E n : Left(x.buf, name, n)
    BY <1>3, LeftAgain
  <2> QED
    BY <1>5, <2>1, LeftAgain
<1>7. Moves(x, [next EXCEPT !.buf = u])
    BY <1>6
<1>8. WithName(x, t, next) \in {x, EnterRawMode(x), [next EXCEPT !.buf = u]}
    BY DEF WithName, name, u
<1> QED
    BY <1>1, <1>7, <1>8

LEMMA QwenFnMoves ==
    ASSUME NEW x, Open(x), x.state = "qwenFn"
    PROVE  Moves(x, ProcessQwenFn(x))
<1> DEFINE t == Skip(x.buf)
           next == Opens(x, "qwenParam")
<1>1. Struct(x) /\ x.state \in InBlock /\ Moves(x, EnterRawMode(x)) /\ Moves(x, x)
    BY StaysThere DEF InBlock, Open
<1>2. \E n : Left(x.buf, t, n)
    BY <1>1, SkipIs DEF Struct
<1> HIDE DEF t
<1>3. Passed(x, next) /\ next.state = "qwenParam" /\ next.buf = x.buf /\ Struct(next)
    BY <1>1, OpensPasses DEF States, InBlock, Passed
<1> HIDE DEF next
<1>4. ASSUME NEW u, \E n : Left(x.buf, u, n) PROVE Moves(x, [next EXCEPT !.buf = u])
  <2> DEFINE z == [next EXCEPT !.buf = u]
  <2>1. Passed(next, z) /\ z.state = "qwenParam"
    BY <1>3, <1>4, BufPasses
  <2> HIDE DEF z
  <2>2. Moves(x, z)
    BY <1>3, <2>1, PassedTwice, Goes DEF InBlock, Ready
  <2> QED
    BY <2>2 DEF z
<1>5. IsPrefix(FnStart, t) => Moves(x, WithName(x, t, next))
    BY <1>1, <1>2, <1>4, WithNameMoves, PieceLengths
<1>6. ProcessQwenFn(x) = IF IsPrefix(FnStart, t) THEN WithName(x, t, next)
                         ELSE IF t = <<>> THEN x ELSE EnterRawMode(x)
    BY DEF ProcessQwenFn, t, next
<1> QED
    BY <1>1, <1>5, <1>6

LEMMA QwenParamMoves ==
    ASSUME NEW x, Open(x), x.state = "qwenParam"
    PROVE  Moves(x, ProcessQwenParam(x))
<1> DEFINE t == Skip(x.buf)
           key == Trim(NameOf(From(t, 2)))
           next == [To(x, "qwenValue") EXCEPT !.pending.key = key]
           z == [To(x, "qwenAfterFn") EXCEPT !.buf = From(t, 3)]
<1>1. Struct(x) /\ x.state \in InBlock /\ Moves(x, EnterRawMode(x)) /\ Moves(x, x)
    BY StaysThere DEF InBlock, Open
<1>2. (\E n : Left(x.buf, t, n)) /\ t \in Pieces
    BY <1>1, SkipIs DEF Struct
<1> HIDE DEF t
<1>3. IsPrefix(FnEnd, t) => Moves(x, z)
  <2> SUFFICES ASSUME IsPrefix(FnEnd, t) PROVE Moves(x, z)
    OBVIOUS
  <2> DEFINE w == To(x, "qwenAfterFn")
             u == From(t, 3)
  <2>1. \E n : Left(x.buf, u, n)
    BY <1>2, AfterTag, PieceLengths
  <2> HIDE DEF u
  <2>2. Passed(x, w) /\ w.state = "qwenAfterFn" /\ w.buf = x.buf /\ Struct(w)
    BY <1>1, ToPasses DEF States, InBlock, Passed
  <2> HIDE DEF w
  <2>3. z = [w EXCEPT !.buf = u]
    BY DEF w, u
  <2> HIDE DEF z
  <2>4. Passed(w, z) /\ z.state = "qwenAfterFn"
    BY <2>1, <2>2, <2>3, BufPasses
  <2> QED
    BY <2>2, <2>4, PassedTwice, Goes DEF InBlock, Ready
<1>4. ASSUME NEW u, \E n : Left(x.buf, u, n) PROVE Moves(x, [next EXCEPT !.buf = u])
  <2> HIDE DEF key
  <2>1. Moves(x, [x EXCEPT !.pending.key = key, !.buf = u, !.state = "qwenValue"])
    BY <1>1, <1>4, CutsWithKey
  <2>2. [next EXCEPT !.buf = u] = [x EXCEPT !.pending.key = key, !.buf = u, !.state = "qwenValue"]
    BY <1>1 DEF To, Struct, Fields
  <2> QED
    BY <2>1, <2>2
<1> HIDE DEF next
<1>5. IsPrefix(QParamStart, t) => Moves(x, WithName(x, t, next))
    BY <1>1, <1>2, <1>4, WithNameMoves, PieceLengths
<1>6. ProcessQwenParam(x) = IF IsPrefix(FnEnd, t) THEN z
                            ELSE IF IsPrefix(QParamStart, t) THEN WithName(x, t, next)
                            ELSE IF t = <<>> \/ Partial(t, FnEnd) THEN x ELSE EnterRawMode(x)
    BY DEF ProcessQwenParam, t, next
<1> HIDE DEF z
<1> QED
    BY <1>1, <1>3, <1>5, <1>6

LEMMA QwenValueMoves ==
    ASSUME NEW x, Open(x), x.state = "qwenValue"
    PROVE  Moves(x, ProcessQwenParamValue(x))
<1> DEFINE i == At(x.buf, QParamEnd)
           a == QwenPut(x.pending.args, x.pending.key, UpTo(x.buf, QParamEnd))
           z == Drop([x EXCEPT !.pending.args = a, !.state = "qwenParam"], i + 1)
<1>1. Struct(x) /\ x.state \in InBlock /\ Moves(x, x)
    BY SMTT(30), StaysThere DEF InBlock
<1>2. i # 0 => Moves(x, z)
  <2> HIDE DEF a
  <2> QED
    BY <1>1, ValueMoves, PieceLengths
<1>3. ProcessQwenParamValue(x) = IF i = 0 THEN x ELSE z
  <2> DEFINE b == QwenPut(x.pending.args, x.pending.key, UpTo(x.buf, QParamEnd))
  <2> HIDE DEF b
  <2>1. [x EXCEPT !.pending.args = QwenPut(@, x.pending.key, UpTo(x.buf, QParamEnd)), !.state = "qwenParam"]
          = [x EXCEPT !.pending.args = a, !.state = "qwenParam"]
    BY <1>1 DEF Struct, Fields, IsPending, PendingFields
  <2> QED
    BY <2>1 DEF ProcessQwenParamValue
<1> HIDE DEF i, z
<1> QED
    BY <1>1, <1>2, <1>3

LEMMA QwenAfterFnMoves ==
    ASSUME NEW x, Open(x), x.state = "qwenAfterFn"
    PROVE  Moves(x, ProcessQwenAfterFn(x))
<1> DEFINE t == Skip(x.buf)
           u == From(t, 3)
           z == [x EXCEPT !.buf = u]
           w == Completes(z, "afterCall")
<1>1. Struct(x) /\ x.state \in InBlock /\ Moves(x, EnterRawMode(x)) /\ Moves(x, x)
    BY StaysThere DEF InBlock, Open
<1>2. (\E n : Left(x.buf, t, n)) /\ t \in Pieces
    BY <1>1, SkipIs DEF Struct
<1> HIDE DEF t
<1>3. IsPrefix(CallEnd, t) => Moves(x, w)
  <2> SUFFICES ASSUME IsPrefix(CallEnd, t) PROVE Moves(x, w)
    OBVIOUS
  <2>1. \E n : Left(x.buf, u, n)
    BY <1>2, AfterTag, PieceLengths
  <2> HIDE DEF u
  <2>2. Passed(x, z) /\ Struct(z)
    BY <1>1, <2>1, BufPasses DEF Passed
  <2> HIDE DEF z
  <2>3. Passed(z, w) /\ w.state = "afterCall" /\ w.pending.calls # <<>>
    BY <2>2, CompletesPasses DEF States, InBlock
  <2> HIDE DEF w
  <2> QED
    BY <2>2, <2>3, PassedTwice, Goes DEF InBlock, Ready
<1>4. ProcessQwenAfterFn(x) = IF IsPrefix(CallEnd, t) THEN w
                              ELSE IF t = <<>> \/ Partial(t, CallEnd) THEN x ELSE EnterRawMode(x)
    BY DEF ProcessQwenAfterFn, t
<1> HIDE DEF w
<1> QED
    BY <1>1, <1>3, <1>4

-----------------------------------------------------------------------------
(* The handlers outside a block *)

\* n pieces of the buffer go out as content.
LEMMA Emits ==
    ASSUME NEW x, Struct(x), NEW c, Left(x.fullText, x.buf, c), NEW s, Runs(x, s, c), NEW n \in 0..Len(x.buf),
           NEW y, y = Drop(EmitContent(x, SubSeq(x.buf, 1, n)), n)
    PROVE  /\ Struct(y) /\ Left(y.fullText, y.buf, c + n) /\ Runs(y, s, c + n)
           /\ y.state = x.state /\ y.rawBlockStart = x.rawBlockStart /\ y.buf = From(x.buf, n + 1)
           /\ y.fullText = x.fullText /\ y.thinking = x.thinking /\ y.tools = x.tools
           /\ y.toolBlockClosed = x.toolBlockClosed
<1> DEFINE p == SubSeq(x.buf, 1, n)
           u == From(x.buf, n + 1)
           e == EmitContent(x, p)
<1>1. Left(x.buf, u, n)
    BY DEF Left, Struct
<1>2. Left(x.fullText, u, c + n)
    BY <1>1, LeftOfLeft
<1>3. Between(x.fullText, p, c, c + n)
  <2>1. Between(x.buf, p, 0, n) /\ c \in Nat
    BY LeftIs DEF Between, Struct, Pieces
  <2> HIDE DEF p
  <2>2. Between(x.fullText, p, c + 0, c + n)
    BY <2>1, Within
  <2> QED
    BY <2>1, <2>2
<1>4. u \in Pieces
    BY <1>1, LeftIs
<1>5. /\ Fields \subseteq DOMAIN e /\ e.content = x.content \o p /\ e.buf = x.buf
      /\ e.fullText = x.fullText /\ e.thinking = x.thinking /\ e.state = x.state
      /\ e.rawBlockStart = x.rawBlockStart /\ e.tools = x.tools /\ e.syntax = x.syntax /\ e.pending = x.pending
      /\ e.toolBlockClosed = x.toolBlockClosed
    BY DEF EmitContent, Struct, Fields
<1> HIDE DEF p, u, e
<1>6. /\ Fields \subseteq DOMAIN y /\ y.content = x.content \o p /\ y.buf = u
      /\ y.fullText = x.fullText /\ y.thinking = x.thinking /\ y.state = x.state
      /\ y.rawBlockStart = x.rawBlockStart /\ y.tools = x.tools /\ y.syntax = x.syntax /\ y.pending = x.pending
      /\ y.toolBlockClosed = x.toolBlockClosed
    BY <1>5 DEF Drop, Fields, u, e, p
<1>7. Runs(y, s, c + n) /\ y.content \in Pieces
    BY <1>3, <1>6, RunsFurther
<1>8. Struct(y)
    BY <1>4, <1>6, <1>7 DEF Struct
<1> QED
    BY <1>2, <1>6, <1>7, <1>8 DEF u

LEMMA EmitsSafely ==
    ASSUME Margin \in Nat, NEW x, Open(x), x.state \in {"content", "raw"}
    PROVE  Open(EmitSafe(x))
<1> DEFINE n == SafeContentLen(x)
           y == EmitSafe(x)
<1>1. PICK c : Left(x.fullText, x.buf, c) /\ Emitted(x, c)
    BY DEF Open
<1>2. PICK s : Runs(x, s, c)
    BY <1>1, EmittedBy
<1>3. Struct(x)
    BY DEF Open
<1>4. n \in 0..Len(x.buf)
    BY <1>3, SafeContentLenIs DEF Struct
<1>5. y = Drop(EmitContent(x, SubSeq(x.buf, 1, n)), n)
    BY DEF EmitSafe
<1> HIDE DEF n, y
<1>6. Struct(y) /\ Left(y.fullText, y.buf, c + n) /\ Runs(y, s, c + n) /\ y.state = x.state
    BY SMTT(30), <1>1, <1>2, <1>3, <1>4, <1>5, Emits
<1>7. Emitted(y, c + n) /\ Ready(y)
    BY <1>6, EmittedBy DEF Ready
<1> QED
    BY <1>6, <1>7 DEF Open, y

LEMMA EndsOpen ==
    ASSUME NEW x, Open(x), x.state \in {"content", "raw"}, AtEos(x.buf)
    PROVE  Open(Ends(x))
<1> DEFINE a == At(x.buf, Eos)
           n == a - 1
           e == EmitContent(x, SubSeq(x.buf, 1, n))
           v == Drop(e, n)
           y == Ends(x)
<1>1. PICK c : Left(x.fullText, x.buf, c) /\ Emitted(x, c)
    BY DEF Open
<1>2. PICK s : Runs(x, s, c)
    BY <1>1, EmittedBy
<1>3. Struct(x)
    BY DEF Open
<1>4. /\ n \in 0..Len(x.buf) /\ a + 1 \in 0..Len(x.buf) /\ Between(x.buf, Eos, n, a + 1)
      /\ UpTo(x.buf, Eos) = SubSeq(x.buf, 1, n)
    BY <1>3, AtParts, TagLengths DEF AtEos, Struct
<1>5. Between(x.fullText, Eos, c + n, c + (a + 1))
    BY <1>1, <1>4, Within
<1>6. c + (a + 1) = (c + n) + 2 /\ (a + 1) + 1 = a + 2
  <2>1. c \in Nat /\ a + 1 \in Nat /\ a \in Nat
    BY <1>1, <1>3, <1>4, LeftIs, AtTag, TagLengths DEF Struct
  <2> HIDE DEF a
  <2> QED
    BY <2>1
<1>7. y = Drop(To(e, "done"), a + 1)
    BY <1>4 DEF Ends
<1>8. Left(x.buf, From(x.buf, (a + 1) + 1), a + 1)
    BY <1>3, <1>4 DEF Left, Struct
<1>9. Left(x.fullText, From(x.buf, (a + 1) + 1), c + (a + 1))
    BY <1>1, <1>8, LeftOfLeft
<1> HIDE DEF a, n
<1>10. /\ Struct(v) /\ Runs(v, s, c + n) /\ v.fullText = x.fullText /\ v.rawBlockStart = x.rawBlockStart
       /\ v.thinking = x.thinking /\ v.content = e.content
  <2>1. v = Drop(EmitContent(x, SubSeq(x.buf, 1, n)), n)
    OBVIOUS
  <2>2. v.content = e.content
    BY <1>3 DEF Drop, EmitContent, Struct, Fields
  <2>3. n \in 0..Len(x.buf)
    BY <1>4
  <2> HIDE DEF v, e
  <2>4. Struct(v) /\ Left(v.fullText, v.buf, c + n) /\ Runs(v, s, c + n) /\ v.rawBlockStart = x.rawBlockStart
    BY <1>1, <1>2, <1>3, <2>1, <2>3, Emits
  <2>5. v.fullText = x.fullText /\ v.thinking = x.thinking
    BY <1>1, <1>2, <1>3, <2>1, <2>3, Emits
  <2> QED
    BY <2>2, <2>4, <2>5
<1>11. /\ Fields \subseteq DOMAIN e /\ e.buf = x.buf /\ e.fullText = x.fullText /\ e.thinking = x.thinking
       /\ e.rawBlockStart = x.rawBlockStart /\ e.syntax = x.syntax /\ e.tools = x.tools /\ e.pending = x.pending
    BY <1>3 DEF EmitContent, Struct, Fields
<1> HIDE DEF e, v
<1>12. /\ Fields \subseteq DOMAIN y /\ y.buf = From(x.buf, (a + 1) + 1) /\ y.fullText = x.fullText
       /\ y.thinking = x.thinking /\ y.rawBlockStart = x.rawBlockStart /\ y.syntax = x.syntax /\ y.tools = x.tools
       /\ y.pending = x.pending /\ y.content = v.content /\ y.state = "done"
    BY <1>7, <1>10, <1>11 DEF Drop, To, Fields
<1> HIDE DEF y
<1>13. y.buf \in Pieces
    BY <1>8, <1>12, LeftIs
<1>14. Struct(y)
    BY <1>3, <1>10, <1>12, <1>13 DEF Struct, States
<1>15. Runs(y, s, c + n) /\ Ended(y, c + n)
  <2>1. Runs(y, s, c + n)
    BY <1>10, <1>12, RunsOn
  <2> QED
    BY <1>5, <1>6, <1>12, <2>1 DEF Ended
<1>16. Emitted(y, c + (a + 1)) /\ Ready(y) /\ Left(y.fullText, y.buf, c + (a + 1))
    BY <1>9, <1>12, <1>15, EmittedBy DEF Ready
<1> QED
    BY <1>14, <1>16 DEF Open, y

\* A block begins behind what has just been emitted.
LEMMA BlockOpens ==
    ASSUME NEW x, Struct(x), NEW c, Left(x.fullText, x.buf, c), NEW s, Runs(x, s, c),
           NEW y, Fields \subseteq DOMAIN y, y.buf = x.buf, y.fullText = x.fullText, y.thinking = x.thinking,
           y.content = x.content, y.syntax = x.syntax, y.tools = x.tools, y.pending = x.pending,
           y.rawBlockStart = Consumed(x), y.state \in {"toolCalls", "glmName", "qwenFn"}
    PROVE  Open(y)
<1>1. Consumed(x) = c /\ c \in Nat
    BY ConsumedIs
<1>2. y.state \in InBlock /\ Ready(y)
    BY DEF InBlock, Ready
<1>3. Struct(y)
    BY <1>1, <1>2, StatesApart DEF Struct
<1>4. Runs(y, s, c)
    BY RunsOn
<1>5. Emitted(y, c)
    BY <1>1, <1>2, <1>4, EmittedBy
<1> QED
    BY <1>2, <1>3, <1>5 DEF Open

LEMMA ContentOpens ==
    ASSUME Margin \in Nat, NEW x, Open(x), x.state = "content"
    PROVE  Open(ProcessContent(x))
<1> DEFINE b == BlockStart(x.buf)
           n == b.raw - 1
           at == Drop(EmitContent(x, SubSeq(x.buf, 1, n)), n)
           w == [at EXCEPT !.implicitBlock = b.implicit, !.seenToolCallsOp = b.implicit,
                           !.rawBlockStart = Consumed(at), !.state = "toolCalls"]
<1>1. Struct(x)
    BY DEF Open
<1>2. b.found => Open(w)
  <2> SUFFICES ASSUME b.found PROVE Open(w)
    OBVIOUS
  <2>1. PICK c : Left(x.fullText, x.buf, c) /\ Emitted(x, c)
    BY DEF Open
  <2>2. PICK s : Runs(x, s, c)
    BY <2>1, EmittedBy
  <2>3. n \in 0..Len(x.buf)
    BY <1>1, BlockStartIs DEF Struct
  <2> HIDE DEF n, b
  <2>4. Struct(at) /\ Left(at.fullText, at.buf, c + n) /\ Runs(at, s, c + n)
    <3> DEFINE y == at
    <3>1. y = Drop(EmitContent(x, SubSeq(x.buf, 1, n)), n)
        OBVIOUS
    <3> HIDE DEF y
    <3>2. Struct(y) /\ Left(y.fullText, y.buf, c + n) /\ Runs(y, s, c + n)
        BY <1>1, <2>1, <2>2, <2>3, <3>1, Emits
    <3> QED
        BY <3>2 DEF y
  <2> HIDE DEF at
  <2>5. /\ Fields \subseteq DOMAIN w /\ w.buf = at.buf /\ w.fullText = at.fullText /\ w.thinking = at.thinking
        /\ w.content = at.content /\ w.syntax = at.syntax /\ w.tools = at.tools /\ w.pending = at.pending
        /\ w.rawBlockStart = Consumed(at) /\ w.state = "toolCalls"
    BY <2>4 DEF Struct, Fields
  <2> HIDE DEF w
  <2> QED
    BY <2>4, <2>5, BlockOpens
<1>3. ProcessContent(x) = IF b.found /\ (~AtEos(x.buf) \/ b.raw < At(x.buf, Eos)) THEN w
                          ELSE IF AtEos(x.buf) THEN Ends(x) ELSE EmitSafe(x)
    BY DEF ProcessContent
<1> HIDE DEF w, b
<1> QED
    BY <1>2, <1>3, EndsOpen, EmitsSafely

LEMMA XMLContentOpens ==
    ASSUME Margin \in Nat, NEW x, Open(x), x.state = "content", NEW next \in {"glmName", "qwenFn"}
    PROVE  Open(ProcessXMLContent(x, next))
<1> DEFINE a == At(x.buf, CallStart)
           n == a - 1
           at == Drop(EmitContent(x, SubSeq(x.buf, 1, n)), n)
           w == [at EXCEPT !.rawBlockStart = Consumed(at), !.state = next]
           y == Drop(w, 2)
<1>1. Struct(x)
    BY DEF Open
<1>2. a > 0 => Open(y)
  <2> SUFFICES ASSUME a > 0 PROVE Open(y)
    OBVIOUS
  <2>1. PICK c : Left(x.fullText, x.buf, c) /\ Emitted(x, c)
    BY DEF Open
  <2>2. PICK s : Runs(x, s, c)
    BY <2>1, EmittedBy
  <2>3. n \in 0..Len(x.buf) /\ a + 1 \in 0..Len(x.buf) /\ a \in 1..Len(x.buf) /\ Len(x.buf) \in Nat
    BY <1>1, AtParts, PieceLengths DEF Struct, Pieces
  <2>4. n + 2 <= Len(x.buf)
    <3> HIDE DEF a
    <3> QED
        BY <2>3
  <2> HIDE DEF n, a
  <2>5. Struct(at) /\ Left(at.fullText, at.buf, c + n) /\ Runs(at, s, c + n) /\ at.buf = From(x.buf, n + 1)
    <3> DEFINE z == at
    <3>1. z = Drop(EmitContent(x, SubSeq(x.buf, 1, n)), n) /\ n \in 0..Len(x.buf)
        BY <2>3
    <3> HIDE DEF z
    <3>2. Struct(z) /\ Left(z.fullText, z.buf, c + n) /\ Runs(z, s, c + n) /\ z.buf = From(x.buf, n + 1)
        BY <1>1, <2>1, <2>2, <3>1, Emits
    <3> QED
        BY <3>2 DEF z
  <2> HIDE DEF at
  <2>6. 2 \in 0..Len(at.buf)
    <3>1. Left(x.buf, at.buf, n)
        BY <1>1, <2>3, <2>5 DEF Left, Struct
    <3>2. Len(at.buf) = Len(x.buf) - n
        BY <3>1, LeftIs
    <3> QED
        BY <2>3, <2>4, <3>2
  <2>7. /\ Fields \subseteq DOMAIN w /\ w.buf = at.buf /\ w.fullText = at.fullText /\ w.thinking = at.thinking
        /\ w.content = at.content /\ w.syntax = at.syntax /\ w.tools = at.tools /\ w.pending = at.pending
        /\ w.rawBlockStart = Consumed(at) /\ w.state = next
    BY <2>5 DEF Struct, Fields
  <2> HIDE DEF w
  <2>8. Open(w)
    BY <2>5, <2>7, BlockOpens
  <2>9. Passed(w, y) /\ y.state = w.state
    BY <2>6, <2>7, <2>8, DropPasses DEF Open
  <2> HIDE DEF y
  <2>10. Moves(w, y) /\ w.state \in InBlock
    BY <2>7, <2>9, Goes DEF InBlock, Ready
  <2> QED
    BY <2>8, <2>10, BlockMoves
<1>3. ProcessXMLContent(x, next) = IF a > 0 /\ (~AtEos(x.buf) \/ a < At(x.buf, Eos)) THEN y
                                   ELSE IF AtEos(x.buf) THEN Ends(x) ELSE EmitSafe(x)
    BY DEF ProcessXMLContent
<1> HIDE DEF y, a
<1> QED
    BY <1>2, <1>3, EndsOpen, EmitsSafely

LEMMA RawOpens ==
    ASSUME Margin \in Nat, NEW x, Open(x), x.state = "raw"
    PROVE  Open(ProcessRaw(x))
BY EndsOpen, EmitsSafely DEF ProcessRaw

LEMMA LeftNone ==
    ASSUME NEW t \in Pieces
    PROVE  Left(t, <<>>, Len(t)) /\ Len(t) \in Nat
BY DEF Left, From, Pieces

LEMMA DoneOpens ==
    ASSUME NEW x, Open(x), x.state = "done"
    PROVE  Open([x EXCEPT !.buf = <<>>])
<1> DEFINE y == [x EXCEPT !.buf = <<>>]
<1>1. Struct(x)
    BY DEF Open
<1>2. PICK s, e : Runs(x, s, e) /\ Ended(x, e)
    BY EmittedBy DEF Open
<1>3. Left(x.fullText, <<>>, Len(x.fullText))
    BY <1>1, LeftNone DEF Struct
<1>4. /\ Struct(y) /\ y.fullText = x.fullText /\ y.content = x.content /\ y.thinking = x.thinking /\ y.buf = <<>>
      /\ y.state = "done" /\ y.rawBlockStart = x.rawBlockStart /\ y.tools = x.tools
      /\ y.toolBlockClosed = x.toolBlockClosed
  <2>1. <<>> \in Pieces
    BY DEF Pieces
  <2> QED
    BY <1>1, <2>1 DEF Struct, Fields
<1> HIDE DEF y
<1>5. Runs(y, s, e) /\ Ended(y, e)
  <2>1. Runs(y, s, e)
    BY <1>2, <1>4, RunsOn
  <2> QED
    BY <1>2, <1>4, <2>1 DEF Ended, WasRead
<1>6. Emitted(y, Len(x.fullText)) /\ Left(y.fullText, y.buf, Len(x.fullText)) /\ Ready(y)
    BY <1>3, <1>4, <1>5, EmittedBy DEF Ready
<1> QED
    BY <1>4, <1>6 DEF Open, y

\* While it thinks, the decoder only drops bytes.
LEMMA Thinks ==
    ASSUME NEW x, Open(x), x.state = "thinking", NEW y, Fields \subseteq DOMAIN y,
           \E n : Left(x.buf, y.buf, n), y.fullText = x.fullText, y.thinking = x.thinking,
           y.content = x.content, y.syntax = x.syntax, y.tools = x.tools, y.pending = x.pending,
           y.rawBlockStart = x.rawBlockStart, y.state = "thinking"
    PROVE  Open(y)
<1>1. PICK c : Left(x.fullText, x.buf, c) /\ Emitted(x, c)
    BY DEF Open
<1>2. PICK n : Left(x.buf, y.buf, n)
    OBVIOUS
<1>3. Left(y.fullText, y.buf, c + n) /\ y.buf \in Pieces
  <2>1. Left(x.fullText, y.buf, c + n)
    BY <1>1, <1>2, LeftOfLeft
  <2> QED
    BY <2>1, LeftIs
<1>4. Struct(y) /\ Ready(y)
    BY <1>3 DEF Struct, Open, Ready
<1>5. Emitted(y, c + n)
    BY <1>1, EmittedBy
<1> QED
    BY <1>3, <1>4, <1>5 DEF Open

LEMMA NothingBetween ==
    ASSUME NEW t \in Pieces, NEW k \in 0..Len(t)
    PROVE  Between(t, <<>>, k, k)
BY DEF Between, Pieces

LEMMA Reasons ==
    ASSUME NEW x, Open(x), x.state = "thinking", NEW p, NEW n \in 0..Len(x.buf)
    PROVE  Open(Drop(EmitReasoning(x, p), n))
<1> DEFINE e == EmitReasoning(x, p)
           y == Drop(e, n)
           u == From(x.buf, n + 1)
<1>1. Struct(x)
    BY DEF Open
<1>2. Left(x.buf, u, n)
    BY <1>1 DEF Left, Struct
<1>3. /\ Fields \subseteq DOMAIN e /\ e.buf = x.buf /\ e.fullText = x.fullText /\ e.thinking = x.thinking
      /\ e.content = x.content /\ e.syntax = x.syntax /\ e.tools = x.tools /\ e.pending = x.pending
      /\ e.rawBlockStart = x.rawBlockStart /\ e.state = x.state
    BY <1>1 DEF EmitReasoning, Struct, Fields
<1> HIDE DEF e
<1>4. /\ Fields \subseteq DOMAIN y /\ y.buf = u /\ y.fullText = x.fullText /\ y.thinking = x.thinking
      /\ y.content = x.content /\ y.syntax = x.syntax /\ y.tools = x.tools /\ y.pending = x.pending
      /\ y.rawBlockStart = x.rawBlockStart /\ y.state = x.state
    BY <1>3 DEF Drop, Fields
<1> HIDE DEF y, u
<1>5. Open(y)
    BY <1>2, <1>4, Thinks
<1> QED
    BY <1>5 DEF y, e

LEMMA ThinkingOpens ==
    ASSUME NEW x0, Open(x0), x0.state = "thinking"
    PROVE  Open(ProcessThinking(x0))
<1> DEFINE stanza == x0.thinkStanza \/ At(x0.fullText, IF x0.syntax = "dsml" THEN ToolStart ELSE CallStart) > 0
           x1 == [x0 EXCEPT !.thinkStanza = stanza]
           x == IF IsPrefix(Think, x1.buf) THEN Drop(x1, 2) ELSE x1
           n == Len(x.buf)
           a == At(x.buf, ThinkEnd)
           y1 == Drop(To(EmitReasoning(x, UpTo(x.buf, ThinkEnd)), "content"), a + 1)
           y2 == Drop(EmitReasoning(x, x.buf), n)
           y3 == Drop(EmitReasoning(x, SubSeq(x.buf, 1, n - 2)), n - 2)
<1>1. Struct(x0)
    BY DEF Open
<1> HIDE DEF stanza
<1>2. Struct(x1) /\ x1.buf = x0.buf /\ x1.state = "thinking" /\ Passed(x0, x1)
  <2>1. Left(x0.buf, x0.buf, 0)
    BY <1>1, LeftAll DEF Struct
  <2> QED
    BY <1>1, <2>1 DEF Struct, Fields, Passed, KeepsText
<1> HIDE DEF x1
<1>3. Passed(x0, x) /\ x.state = "thinking" /\ x.pending = x1.pending
  <2>1. CASE IsPrefix(Think, x1.buf)
    <3> DEFINE z == Drop(x1, 2)
    <3>1. Passed(x1, z) /\ z.state = x1.state /\ z.pending = x1.pending
        BY <1>2, <2>1, DropsTag, TagLengths
    <3>2. x = z
        BY <2>1
    <3> HIDE DEF x, z
    <3> QED
        BY <1>2, <3>1, <3>2, PassedTwice
  <2>2. CASE ~IsPrefix(Think, x1.buf)
    BY <1>2, <2>2
  <2> QED
    BY <2>1, <2>2
<1>4. ProcessThinking(x0) = IF a > 0 THEN y1 ELSE IF x.finalPass THEN y2
                            ELSE IF n > Len(ThinkEnd) THEN y3 ELSE x
    BY DEF ProcessThinking, x1, stanza
<1> HIDE DEF x
<1>5. Struct(x) /\ Open(x)
  <2>1. PICK c : Left(x0.fullText, x0.buf, c) /\ Emitted(x0, c)
    BY DEF Open
  <2>2. PICK m : Left(x0.buf, x.buf, m)
    BY <1>3 DEF Passed
  <2>3. Struct(x) /\ KeepsText(x0, x)
    BY <1>3 DEF Passed
  <2>4. Left(x0.fullText, x.buf, c + m)
    BY <2>1, <2>2, LeftOfLeft
  <2>5. Emitted(x, c + m)
    BY <1>3, <2>1, <2>3, EmittedBy DEF KeepsText
  <2> QED
    BY <1>3, <2>3, <2>4, <2>5 DEF Open, Ready, KeepsText
<1>6. a > 0 => Open(y1)
  <2> SUFFICES ASSUME a > 0 PROVE Open(y1)
    OBVIOUS
  <2>1. PICK c : Left(x.fullText, x.buf, c) /\ Emitted(x, c)
    BY <1>5 DEF Open
  <2>2. /\ a + 1 \in 0..Len(x.buf) /\ a - 1 \in 0..Len(x.buf) /\ a \in 1..Len(x.buf)
        /\ Between(x.buf, ThinkEnd, a - 1, a + 1)
    BY <1>5, AtParts, TagLengths DEF Struct
  <2> DEFINE k == c + (a + 1)
             u == From(x.buf, (a + 1) + 1)
  <2>3. Between(x.fullText, ThinkEnd, c + (a - 1), k)
    BY <2>1, <2>2, Within
  <2>4. Left(x.buf, u, a + 1)
    BY <1>5, <2>2 DEF Left, Struct
  <2>5. Left(x.fullText, u, k) /\ u \in Pieces
    BY <2>1, <2>4, LeftOfLeft, LeftIs
  <2>6. c + (a - 1) = k - 2 /\ k \in Nat
    <3>1. c \in Nat /\ a \in Nat
        BY <1>5, <2>1, LeftIs, AtTag, TagLengths DEF Struct
    <3> HIDE DEF a
    <3> QED
        BY <3>1
  <2> HIDE DEF k, u
  <2>7. x.thinking /\ x.content = <<>>
    BY <1>3, <2>1, EmittedBy
  <2>8. Between(x.fullText, <<>>, k, k)
    BY <1>5, <2>5, NothingBetween DEF Struct, Left
  <2> DEFINE e == EmitReasoning(x, UpTo(x.buf, ThinkEnd))
             v == To(e, "content")
  <2>9. /\ Fields \subseteq DOMAIN e /\ e.buf = x.buf /\ e.fullText = x.fullText /\ e.thinking = x.thinking
        /\ e.content = x.content /\ e.syntax = x.syntax /\ e.tools = x.tools /\ e.pending = x.pending
        /\ e.rawBlockStart = x.rawBlockStart
    BY <1>5 DEF EmitReasoning, Struct, Fields
  <2>10. y1 = Drop(v, a + 1)
    OBVIOUS
  <2> HIDE DEF e
  <2>11. /\ Fields \subseteq DOMAIN v /\ v.buf = x.buf /\ v.fullText = x.fullText /\ v.thinking = x.thinking
         /\ v.content = x.content /\ v.syntax = x.syntax /\ v.tools = x.tools /\ v.pending = x.pending
         /\ v.rawBlockStart = x.rawBlockStart /\ v.state = "content"
    BY <2>9 DEF To, Fields
  <2> HIDE DEF v, y1, a
  <2>12. /\ Fields \subseteq DOMAIN y1 /\ y1.buf = u /\ y1.fullText = x.fullText /\ y1.thinking = x.thinking
         /\ y1.content = x.content /\ y1.syntax = x.syntax /\ y1.tools = x.tools /\ y1.pending = x.pending
         /\ y1.rawBlockStart = x.rawBlockStart /\ y1.state = "content"
    BY <2>10, <2>11 DEF Drop, Fields, u
  <2>13. Struct(y1) /\ Ready(y1)
    BY <1>5, <2>5, <2>7, <2>12 DEF Struct, States, Ready
  <2>14. Runs(y1, k, k)
    BY <2>3, <2>6, <2>7, <2>8, <2>12 DEF Runs, BeginsAt
  <2>15. Emitted(y1, k) /\ Left(y1.fullText, y1.buf, k)
    BY <2>5, <2>12, <2>14, EmittedBy
  <2> QED
    BY <2>13, <2>15 DEF Open
<1>7. n \in Nat /\ (n > Len(ThinkEnd) => n - 2 \in 0..n)
    BY <1>5, TagLengths DEF Struct, Pieces
<1>8. Open(y2)
    BY <1>3, <1>5, <1>7, Reasons
<1>9. n > Len(ThinkEnd) => Open(y3)
  <2> SUFFICES ASSUME n > Len(ThinkEnd) PROVE Open(y3)
    OBVIOUS
  <2> DEFINE m == n - 2
             p == SubSeq(x.buf, 1, m)
  <2>1. m \in 0..Len(x.buf)
    BY <1>7
  <2> HIDE DEF m, p
  <2>2. Open(Drop(EmitReasoning(x, p), m))
    BY <1>3, <1>5, <2>1, Reasons
  <2> QED
    BY <2>2 DEF m, p
<1> HIDE DEF y1, y2, y3, a, n
<1> QED
    BY <1>4, <1>5, <1>6, <1>8, <1>9

-----------------------------------------------------------------------------
(* A handler, a chunk, the end *)

\* What the last handler has left, when the text is at its end.
Settled(x) ==
    /\ x.state = "afterCall" => Blank(x.buf)
    /\ x.state = "checkEnd" => x.buf = <<>>

LEMMA HandledMoves ==
    ASSUME NEW x, Open(x), x.state \in InBlock
    PROVE  /\ Moves(x, Handled(x))
           /\ x.finalPass /\ Handled(x).state = x.state => Settled(Handled(x))
<1>1. CASE x.state = "toolCalls"
    BY <1>1, ToolCallsMove DEF Handled, Settled
<1>2. CASE x.state = "invoke"
    BY <1>2, InvokeMoves DEF Handled, Settled
<1>3. CASE x.state = "invokeBody"
    BY <1>3, InvokeBodyMoves DEF Handled, Settled
<1>4. CASE x.state = "param"
    BY <1>4, ParameterMoves DEF Handled, Settled
<1>5. CASE x.state = "paramValue"
    BY <1>5, ParameterValueMoves DEF Handled, Settled
<1>6. CASE x.state = "checkEnd"
    BY <1>6, CheckEndMoves DEF Handled, Settled
<1>7. CASE x.state = "glmName"
    BY <1>7, GLMNameMoves DEF Handled, Settled
<1>8. CASE x.state = "glmKey"
    BY <1>8, GLMArgKeyMoves DEF Handled, Settled
<1>9. CASE x.state = "glmValue"
    BY <1>9, GLMArgValueMoves DEF Handled, Settled
<1>10. CASE x.state = "afterCall"
    BY <1>10, AfterCallMoves DEF Handled, Settled
<1>11. CASE x.state = "qwenFn"
    BY <1>11, QwenFnMoves DEF Handled, Settled
<1>12. CASE x.state = "qwenParam"
    BY <1>12, QwenParamMoves DEF Handled, Settled
<1>13. CASE x.state = "qwenValue"
    BY <1>13, QwenValueMoves DEF Handled, Settled
<1>14. CASE x.state = "qwenAfterFn"
    BY <1>14, QwenAfterFnMoves DEF Handled, Settled
<1> QED
    BY <1>1, <1>2, <1>3, <1>4, <1>5, <1>6, <1>7, <1>8, <1>9, <1>10, <1>11, <1>12, <1>13, <1>14 DEF InBlock

LEMMA HandledOpens ==
    ASSUME Margin \in Nat, NEW x, Open(x)
    PROVE  /\ Open(Handled(x))
           /\ x.finalPass /\ Handled(x).state = x.state => Settled(Handled(x))
<1>1. CASE x.state \in InBlock
    BY <1>1, HandledMoves, BlockMoves
<1>2. CASE x.state = "thinking"
    BY <1>2, ThinkingOpens DEF Handled, Settled
<1>3. CASE x.state = "content"
  <2>1. CASE x.syntax = "dsml"
    BY <1>3, <2>1, ContentOpens DEF Handled, Settled
  <2>2. CASE x.syntax = "glm"
    BY <1>3, <2>2, XMLContentOpens DEF Handled, Settled
  <2>3. CASE x.syntax = "qwen"
    BY <1>3, <2>3, XMLContentOpens DEF Handled, Settled
  <2> QED
    BY <2>1, <2>2, <2>3 DEF Open, Struct
<1>4. CASE x.state = "raw"
    BY <1>4, RawOpens DEF Handled, Settled
<1>5. CASE x.state = "done"
    BY <1>5, DoneOpens DEF Handled, Settled
<1> QED
    BY <1>1, <1>2, <1>3, <1>4, <1>5 DEF Open, Struct, States

LEMMA GrowsOpen ==
    ASSUME NEW x, Open(x), NEW w \in Pieces
    PROVE  Open([x EXCEPT !.buf = @ \o w, !.fullText = @ \o w])
<1> DEFINE y == [x EXCEPT !.buf = @ \o w, !.fullText = @ \o w]
           t == x.fullText
           l == t \o w
           u == x.buf
           v == u \o w
<1>1. Struct(x) /\ Ready(x)
    BY DEF Open
<1>2. PICK c : Left(t, u, c) /\ Emitted(x, c)
    BY DEF Open
<1>3. t \in Pieces
    BY <1>1 DEF Struct
<1>4. /\ Fields \subseteq DOMAIN y /\ y.buf = v /\ y.fullText = l /\ y.thinking = x.thinking
      /\ y.content = x.content /\ y.syntax = x.syntax /\ y.tools = x.tools /\ y.pending = x.pending
      /\ y.rawBlockStart = x.rawBlockStart /\ y.state = x.state /\ y.toolBlockClosed = x.toolBlockClosed
    BY <1>1 DEF Struct, Fields
<1> HIDE DEF t, u
<1>5. /\ l \in Pieces /\ Left(l, v, c)
      /\ \A p, a, b : Between(t, p, a, b) => Between(l, p, a, b)
    BY <1>2, <1>3, Longer
<1> HIDE DEF y, l, v
<1>6. v \in Pieces
    BY <1>5, LeftIs
<1>7. Struct(y) /\ Ready(y)
    BY <1>1, <1>4, <1>5, <1>6 DEF Struct, Ready
<1>8. ASSUME NEW s, NEW e, Runs(x, s, e) PROVE Runs(y, s, e)
    BY <1>4, <1>5, <1>8 DEF Runs, BeginsAt, t
<1>9. ASSUME NEW e, Ended(x, e) PROVE Ended(y, e)
    BY <1>4, <1>5, <1>9 DEF Ended, WasRead, t
<1>10. Emitted(y, c)
  <2>1. CASE x.state = "thinking"
    BY <1>2, <1>4, <2>1, EmittedBy
  <2>2. CASE x.state \in {"content", "raw"}
    BY <1>2, <1>4, <1>8, <2>2, EmittedBy
  <2>3. CASE x.state \in InBlock
    BY <1>2, <1>4, <1>8, <2>3, EmittedBy
  <2>4. CASE x.state = "done"
    BY <1>2, <1>4, <1>8, <1>9, <2>4, EmittedBy
  <2> QED
    BY <1>1, <2>1, <2>2, <2>3, <2>4 DEF Struct, States
<1>11. Left(y.fullText, y.buf, c)
    BY <1>4, <1>5
<1>12. Open(y)
    BY <1>7, <1>10, <1>11 DEF Open
<1> QED
    BY <1>12 DEF y

\* ContentIsText, of any state of the struct.
TextOf(x) ==
    IF x.state = "thinking" THEN x.content = <<>>
    ELSE \E s, e, b \in 0..Len(x.fullText) :
            /\ IF x.thinking THEN s > 1 /\ SubSeq(x.fullText, s - 1, s) = ThinkEnd ELSE s = 0
            /\ s <= e /\ e <= b
            /\ \/ e = Len(x.fullText)
               \/ x.state = "done" /\ IsPrefix(Eos, From(x.fullText, e + 1))
               \/ x.state \in {"done", "content"} /\ e = x.rawBlockStart /\ (x.tools # <<>> \/ x.toolBlockClosed)
            /\ Blank(From(x.fullText, b + 1))
            /\ x.content = SubSeq(x.fullText, s + 1, e) \o From(x.fullText, b + 1)

\* What stands at e is a prefix of the text from there.
LEMMA PrefixFrom ==
    ASSUME NEW t, NEW u, NEW p, NEW e, NEW k \in Nat, Len(p) = k, Between(t, p, e, e + k),
           u \in Pieces, Len(u) = Len(t) - e, \A i \in 1..Len(u) : u[i] = t[e + i]
    PROVE  IsPrefix(p, u)
<1> DEFINE b == e + k
<1>1. /\ e \in Nat /\ b <= Len(t) /\ Len(t) \in Nat /\ p \in Pieces
      /\ \A i \in 1..(b - e) : p[i] = t[e + i]
  <2> HIDE DEF b
  <2>1. Between(t, p, e, b)
    BY DEF b
  <2> QED
    BY <2>1, PartIs
<1>2. b - e = k /\ k <= Len(u)
    BY <1>1
<1>3. \A i \in 1..k : p[i] = u[i]
    BY <1>1, <1>2
<1> HIDE DEF b
<1> QED
    BY <1>1, <1>2, <1>3 DEF IsPrefix, Pieces

LEMMA TextIs ==
    ASSUME NEW y, NEW s, NEW e, NEW b, NEW p, NEW q, s \in Nat, BeginsAt(y, s), Between(y.fullText, p, s, e),
           Left(y.fullText, q, b), e <= b, Blank(q), y.content = p \o q, y.state # "thinking",
           \/ e = Len(y.fullText)
           \/ y.state = "done" /\ Between(y.fullText, Eos, e, e + 2)
           \/ y.state \in {"done", "content"} /\ e = y.rawBlockStart /\ WasRead(y)
    PROVE  TextOf(y)
<1> DEFINE t == y.fullText
<1>1. t \in Pieces /\ s \in 0..Len(t) /\ e \in 0..Len(t) /\ s <= e /\ p = SubSeq(t, s + 1, e)
    BY DEF Between
<1>2. b \in 0..Len(t) /\ q = From(t, b + 1)
    BY DEF Left
<1>3. y.thinking => s > 1 /\ SubSeq(t, s - 1, s) = ThinkEnd
  <2> SUFFICES ASSUME y.thinking PROVE s > 1 /\ SubSeq(t, s - 1, s) = ThinkEnd
    OBVIOUS
  <2>1. Between(t, ThinkEnd, s - 2, s)
    BY DEF BeginsAt
  <2>2. s - 2 \in 0..Len(t) /\ ThinkEnd = SubSeq(t, (s - 2) + 1, s) /\ Len(t) \in Nat
    BY <2>1 DEF Between, Pieces
  <2>3. s > 1 /\ (s - 2) + 1 = s - 1
    BY <2>2
  <2> QED
    BY <2>2, <2>3
<1>4. ~y.thinking => s = 0
    BY DEF BeginsAt
<1>5. Between(t, Eos, e, e + 2) => IsPrefix(Eos, From(t, e + 1))
  <2> SUFFICES ASSUME Between(t, Eos, e, e + 2) PROVE IsPrefix(Eos, From(t, e + 1))
    OBVIOUS
  <2> DEFINE u == From(t, e + 1)
             tag == Eos
             k == 2
  <2>1. Left(t, u, e)
    BY <1>1 DEF Left
  <2>2. Len(tag) = k /\ k \in Nat
    BY TagLengths
  <2> HIDE DEF tag, u, t, k
  <2>3. u \in Pieces /\ Len(u) = Len(t) - e /\ \A i \in 1..Len(u) : u[i] = t[e + i]
    BY <2>1, LeftIs
  <2>4. Between(t, tag, e, e + k)
    BY DEF tag, k, t
  <2>5. IsPrefix(tag, u)
    BY <2>2, <2>3, <2>4, PrefixFrom
  <2> QED
    BY <2>5 DEF u, tag
<1> QED
    BY <1>1, <1>2, <1>3, <1>4, <1>5 DEF TextOf, WasRead

\* Nothing stands behind the content.
LEMMA TextRuns ==
    ASSUME NEW y, NEW s, NEW e, Runs(y, s, e), y.state # "thinking",
           \/ e = Len(y.fullText)
           \/ y.state = "done" /\ Between(y.fullText, Eos, e, e + 2)
           \/ y.state \in {"done", "content"} /\ e = y.rawBlockStart /\ WasRead(y)
    PROVE  TextOf(y)
<1> DEFINE t == y.fullText
           p == y.content
           b == Len(t)
           q == <<>>
<1>1. Between(t, p, s, e) /\ BeginsAt(y, s) /\ s \in Nat
    BY DEF Runs
<1>2. Left(t, q, b) /\ e <= b
    BY <1>1, PartIs, LeftNone DEF Between, Pieces
<1>3. Blank(q)
    BY DEF Blank
<1>4. p = p \o q
  <2>1. p \in Pieces
    BY <1>1, PartIs
  <2> HIDE DEF p
  <2> QED
    BY <2>1 DEF Pieces
<1> HIDE DEF q, b
<1> QED
    BY <1>1, <1>2, <1>3, <1>4, TextIs

LEMMA FlushesText ==
    ASSUME NEW x, Open(x), Settled(x)
    PROVE  TextOf([Flushed(x) EXCEPT !.buf = <<>>])
<1> DEFINE f == Flushed(x)
           y == [f EXCEPT !.buf = <<>>]
           t == x.fullText
           u == x.buf
           r == x.rawBlockStart
<1>1. Struct(x) /\ Ready(x)
    BY DEF Open
<1>2. PICK c : Left(t, u, c) /\ Emitted(x, c)
    BY DEF Open
<1>3. t \in Pieces /\ u \in Pieces /\ c \in Nat /\ Len(t) \in Nat /\ c <= Len(t) /\ u = From(t, c + 1)
    BY <1>2, LeftIs DEF Left
<1>4. Between(t, u, c, Len(t))
    BY <1>3 DEF Between, From
<1>5. CASE x.state = "thinking"
  <2>1. x.content = <<>>
    BY <1>2, <1>5, EmittedBy
  <2>2. f = EmitReasoning(x, u)
    BY <1>5 DEF Flushed
  <2>3. y.content = <<>> /\ y.state = "thinking"
    BY <1>1, <1>5, <2>1, <2>2 DEF EmitReasoning, Struct, Fields
  <2> HIDE DEF y
  <2>4. TextOf(y)
    BY <2>3 DEF TextOf
  <2> QED
    BY <2>4 DEF y
<1>6. CASE x.state \in {"content", "raw"}
  <2>1. PICK s : Runs(x, s, c)
    BY <1>2, <1>6, EmittedBy
  <2>2. f = EmitContent(x, u)
    BY <1>6 DEF Flushed
  <2>3. y.content = x.content \o u /\ y.fullText = t /\ y.thinking = x.thinking /\ y.state = x.state
    BY <1>1, <2>2 DEF EmitContent, Struct, Fields
  <2> HIDE DEF y, u
  <2>4. Runs(y, s, Len(t))
    BY <1>4, <2>1, <2>3, RunsFurther
  <2>5. TextOf(y)
    BY <1>6, <2>3, <2>4, TextRuns
  <2> QED
    BY <2>5 DEF y
<1>7. CASE x.state = "done"
  <2>1. PICK s, e : Runs(x, s, e) /\ Ended(x, e)
    BY <1>2, <1>7, EmittedBy
  <2>2. f = x
    BY <1>7 DEF Flushed
  <2>3. /\ y.content = x.content /\ y.fullText = t /\ y.thinking = x.thinking /\ y.state = x.state
        /\ y.rawBlockStart = r /\ y.tools = x.tools /\ y.toolBlockClosed = x.toolBlockClosed
    BY <1>1, <2>2 DEF Struct, Fields
  <2> HIDE DEF y
  <2>4. Runs(y, s, e)
    BY <2>1, <2>3, RunsOn
  <2>5. Between(y.fullText, Eos, e, e + 2) \/ (e = y.rawBlockStart /\ WasRead(y))
    BY <2>1, <2>3 DEF Ended, WasRead
  <2>6. TextOf(y)
    BY <1>7, <2>3, <2>4, <2>5, TextRuns
  <2> QED
    BY <2>6 DEF y
<1>8. ASSUME x.state \in InBlock PROVE r <= c /\ \E s : Runs(x, s, r)
    BY <1>2, <1>8, EmittedBy
<1>9. CASE x.state \in InBlock \ {"checkEnd", "afterCall"}
  <2>1. PICK s : Runs(x, s, r)
    BY <1>8, <1>9
  <2> DEFINE p == SubSeq(t, r + 1, c)
             g == Replayed(x)
  <2>2. f = EmitContent(g, u)
    BY <1>9, StatesApart DEF Flushed
  <2>3. Between(t, p, r, c)
    <3>1. r \in Nat /\ r <= c
        BY <1>1, <1>8, <1>9 DEF Struct
    <3> QED
        BY <1>3, <3>1 DEF Between
  <2>4. Consumed(x) = c
    BY <1>2, ConsumedIs
  <2>5. /\ Fields \subseteq DOMAIN g /\ g.content = x.content \o p /\ g.fullText = t /\ g.thinking = x.thinking
        /\ g.state = x.state
    BY <1>1, <2>4 DEF Replayed, EmitContent, Struct, Fields
  <2> HIDE DEF g, p
  <2>6. y.content = g.content \o u /\ y.fullText = t /\ y.thinking = x.thinking /\ y.state = x.state
    BY <2>2, <2>5 DEF EmitContent, Fields
  <2> HIDE DEF y, u
  <2>7. Runs(g, s, c)
    BY <2>1, <2>3, <2>5, RunsFurther
  <2>8. Runs(y, s, Len(t))
    BY <1>4, <2>5, <2>6, <2>7, RunsFurther
  <2>9. TextOf(y)
    BY <1>9, <2>6, <2>8, StatesApart, TextRuns
  <2> QED
    BY <2>9 DEF y
<1>10. CASE x.state = "checkEnd"
  <2>1. PICK s : Runs(x, s, r)
    BY <1>8, <1>10 DEF InBlock
  <2> DEFINE g == CompleteToolBlock(x)
  <2>2. u = <<>> /\ Blank(u)
    BY <1>10 DEF Settled, Blank
  <2>3. f = g
    BY <1>10, <2>2 DEF Flushed
  <2>4. /\ Struct(g) /\ g.state = "content" /\ g.fullText = t /\ g.thinking = x.thinking
        /\ g.content = x.content /\ g.rawBlockStart = r /\ WasRead(g)
    BY <1>1, <1>10, CompletesBlock DEF Ready
  <2> HIDE DEF g
  <2>5. /\ y.state = "content" /\ y.fullText = t /\ y.thinking = x.thinking
        /\ y.content = x.content /\ y.rawBlockStart = r /\ WasRead(y)
    BY <2>3, <2>4 DEF Struct, Fields, WasRead
  <2> HIDE DEF y
  <2>6. Runs(y, s, r)
    BY <2>1, <2>5, RunsOn
  <2>7. TextOf(y)
    BY <2>5, <2>6, TextRuns
  <2> QED
    BY <2>7 DEF y
<1>11. CASE x.state = "afterCall"
  <2>1. r <= c /\ \E s : Runs(x, s, r)
    BY <1>8, <1>11 DEF InBlock
  <2>2. PICK s : Runs(x, s, r)
    BY <2>1
  <2> DEFINE g == CompleteToolBlock(x)
  <2>3. Blank(u)
    BY <1>11 DEF Settled
  <2>4. f = EmitContent(g, u)
    BY <1>11 DEF Flushed
  <2>5. /\ Struct(g) /\ g.state = "content" /\ g.fullText = t /\ g.thinking = x.thinking
        /\ g.content = x.content /\ g.rawBlockStart = r /\ WasRead(g)
    BY <1>1, <1>11, CompletesBlock DEF Ready
  <2> HIDE DEF g
  <2>6. /\ y.state = "content" /\ y.fullText = t /\ y.thinking = x.thinking
        /\ y.content = x.content \o u /\ y.rawBlockStart = r /\ WasRead(y)
    BY <2>4, <2>5 DEF EmitContent, Struct, Fields, WasRead
  <2> HIDE DEF y, u
  <2>7. BeginsAt(y, s) /\ Between(t, x.content, s, r) /\ s \in Nat
    BY <2>2, <2>6 DEF Runs, BeginsAt
  <2>8. TextOf(y)
    BY <1>2, <2>1, <2>3, <2>6, <2>7, TextIs
  <2> QED
    BY <2>8 DEF y
<1> HIDE DEF y
<1> QED
    BY <1>1, <1>5, <1>6, <1>7, <1>9, <1>10, <1>11 DEF Struct, States, y

StreamIInv ==
    /\ phase \in {"wait", "process", "flush", "closed"} /\ rest \in Pieces
    /\ phase # "closed" => Open(d)
    /\ phase = "flush" => Settled(d)
    /\ ContentIsText

LEMMA ContentIs == ContentIsText <=> (phase = "closed" => TextOf(d))
BY DEF ContentIsText, TextOf, Begins, Stops

LEMMA InitStreamIInv ==
    ASSUME Inputs \subseteq [syntax : {"dsml", "glm", "qwen"}, thinking : BOOLEAN, text : Seq(STRING)], StreamInit
    PROVE  StreamIInv
<1>1. PICK input \in Inputs : d = NewStreamDecoder(input) /\ rest = input.text /\ phase = "wait"
    BY DEF StreamInit
<1>2. /\ Fields \subseteq DOMAIN d /\ d.syntax \in {"dsml", "glm", "qwen"} /\ d.thinking = input.thinking
      /\ d.buf = <<>> /\ d.fullText = <<>> /\ d.content = <<>> /\ d.tools = <<>> /\ d.rawBlockStart = 0
      /\ d.state = (IF input.thinking THEN "thinking" ELSE "content") /\ d.pending = NoPending
    BY <1>1 DEF NewStreamDecoder, Fields
<1>3. IsPending(NoPending) /\ IsList(<<>>)
    BY Lists DEF IsPending, NoPending, PendingFields
<1>4. <<>> \in Pieces /\ rest \in Pieces
    BY <1>1 DEF Pieces
<1>5. Struct(d) /\ Ready(d)
    BY <1>2, <1>3, <1>4 DEF Struct, Ready, States
<1>6. Left(<<>>, <<>>, 0) /\ Between(<<>>, <<>>, 0, 0)
  <2> DEFINE t == <<>>
  <2>1. t \in Pieces /\ 0 \in 0..Len(t)
    BY <1>4
  <2> HIDE DEF t
  <2>2. Left(t, t, 0) /\ Between(t, t, 0, 0)
    BY <2>1, LeftAll, NothingBetween DEF t
  <2> QED
    BY <2>2 DEF t
<1>7. Emitted(d, 0)
  <2>1. CASE input.thinking
    BY <1>2, <2>1, EmittedBy
  <2>2. CASE ~input.thinking
    <3>1. Runs(d, 0, 0)
        BY <1>2, <1>6, <2>2 DEF Runs, BeginsAt
    <3> QED
        BY <1>2, <2>2, <3>1, EmittedBy
  <2> QED
    BY <2>1, <2>2
<1>8. Open(d)
    BY <1>2, <1>5, <1>6, <1>7 DEF Open
<1> QED
    BY <1>1, <1>4, <1>8, ContentIs DEF StreamIInv

LEMMA NextStreamIInv ==
    ASSUME Margin \in Nat, StreamIInv, [StreamNext]_streamVars
    PROVE  StreamIInv'
<1>0. ContentIsText' <=> (phase' = "closed" => TextOf(d'))
    BY DEF ContentIsText, TextOf, Begins, Stops
<1>1. CASE Write
  <2>1. PICK n \in DOMAIN rest :
          /\ d' = [d EXCEPT !.buf = @ \o SubSeq(rest, 1, n), !.fullText = @ \o SubSeq(rest, 1, n)]
          /\ rest' = From(rest, n + 1)
    BY <1>1 DEF Write
  <2>2. phase' = "process" /\ Open(d) /\ rest \in Pieces
    BY <1>1 DEF Write, StreamIInv
  <2> DEFINE w == SubSeq(rest, 1, n)
  <2>3. w \in Pieces /\ rest' \in Pieces
    BY <2>1, <2>2 DEF From, Pieces
  <2> HIDE DEF w
  <2>4. d' = [d EXCEPT !.buf = @ \o w, !.fullText = @ \o w]
    BY <2>1 DEF w
  <2>5. Open(d')
    BY <2>2, <2>3, <2>4, GrowsOpen
  <2> QED
    BY <2>2, <2>3, <2>5, <1>0, ContentIs DEF StreamIInv
<1>2. CASE Process
  <2>1. d' = Handled(d) /\ rest' = rest /\ Open(d)
    BY <1>2 DEF Process, StreamIInv
  <2>2. Open(d') /\ (d.finalPass /\ d'.state = d.state => Settled(d'))
    BY <2>1, HandledOpens
  <2>3. phase' \in {"process", "flush", "wait"} /\ (phase' = "flush" => d.finalPass /\ d'.state = d.state)
    BY <1>2 DEF Process
  <2> QED
    BY <2>1, <2>2, <2>3, <1>0, ContentIs DEF StreamIInv
<1>3. CASE Close
  <2>1. d' = [d EXCEPT !.finalPass = TRUE] /\ rest' = rest /\ Open(d) /\ phase' = "process"
    BY <1>3 DEF Close, StreamIInv
  <2>2. Open(d')
    <3>1. PICK c : Left(d.fullText, d.buf, c) /\ Emitted(d, c)
        BY <2>1 DEF Open
    <3>2. Struct(d) /\ Ready(d)
        BY <2>1 DEF Open
    <3>3. /\ Fields \subseteq DOMAIN d' /\ d'.buf = d.buf /\ d'.fullText = d.fullText
          /\ d'.thinking = d.thinking /\ d'.content = d.content /\ d'.syntax = d.syntax /\ d'.tools = d.tools
          /\ d'.pending = d.pending /\ d'.rawBlockStart = d.rawBlockStart /\ d'.state = d.state
          /\ d'.toolBlockClosed = d.toolBlockClosed
        BY <2>1, <3>2 DEF Struct, Fields
    <3>4. Struct(d') /\ Ready(d')
        BY <3>2, <3>3 DEF Struct, Ready
    <3>5. Emitted(d', c)
        BY <3>1, <3>3 DEF Emitted, Runs, BeginsAt, Ended, WasRead
    <3> QED
        BY <3>1, <3>3, <3>4, <3>5 DEF Open
  <2> QED
    BY <2>1, <2>2, <1>0, ContentIs DEF StreamIInv
<1>4. CASE Flush
  <2>1. Open(d) /\ Settled(d) /\ d' = [Flushed(d) EXCEPT !.buf = <<>>] /\ rest' = rest /\ phase' = "closed"
    BY <1>4 DEF Flush, StreamIInv
  <2>2. TextOf(d')
    BY <2>1, FlushesText
  <2> QED
    BY <2>1, <2>2, <1>0, ContentIs DEF StreamIInv
<1>5. CASE UNCHANGED streamVars
  <2>1. d' = d /\ rest' = rest /\ phase' = phase
    BY <1>5 DEF streamVars
  <2> QED
    BY <2>1, <1>0, ContentIs DEF StreamIInv
<1> QED
    BY <1>1, <1>2, <1>3, <1>4, <1>5 DEF StreamNext

\* ContentIsText, for any texts, cut anywhere into chunks or ended anywhere, in
\* the three syntaxes: what goes out as content is what the completion says from
\* the end of the reasoning, in order, nothing lost and nothing doubled, until
\* the sentence ends or a block of calls has been read (decode.go, glm.go, qwen.go).
THEOREM ContentIsTextTheorem ==
    ASSUME Margin \in Nat,
           Inputs \subseteq [syntax : {"dsml", "glm", "qwen"}, thinking : BOOLEAN, text : Seq(STRING)]
    PROVE  StreamSpec => []ContentIsText
<1>1. StreamInit => StreamIInv
    BY InitStreamIInv
<1>2. StreamIInv /\ [StreamNext]_streamVars => StreamIInv'
    BY NextStreamIInv
<1>3. StreamIInv => ContentIsText
    BY DEF StreamIInv
<1> QED
    BY <1>1, <1>2, <1>3, PTL DEF StreamSpec
===============================================================================
