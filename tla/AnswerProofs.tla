---------------------------- MODULE AnswerProofs ----------------------------
(***************************************************************************)
(* Proofs about answers that depend on their input alone, for every input: *)
(* the merge of shards (GGUFMerge), the read and edit tools                *)
(* (WorkspaceFiles), the blocks that are replayed (ReplayStore), the texts *)
(* within the tags of a call (ToolText), and the list of models of one     *)
(* download command (DownloadPlan).                                        *)
(*                                                                         *)
(* They are by induction, which comes first, in a form without operator    *)
(* parameters.                                                             *)
(***************************************************************************)
EXTENDS GGUFMerge, WorkspaceFiles, ReplayStore, ToolText, DownloadPlan, Integers, FiniteSetTheorems,
        SequenceTheorems, TLAPS

-----------------------------------------------------------------------------
(* Induction and recursion over the natural numbers *)

\* Every non-empty set of natural numbers has a least element: strict inclusion
\* of finite sets is well-founded, and 0..x is within 0..y for x <= y.
LEMMA LeastNat ==
    ASSUME NEW S, S \subseteq Nat, S # {}
    PROVE  \E x \in S : \A y \in S : x <= y
<1> DEFINE Up(n) == {i \in Nat : i <= n}
           Ups == {Up(n) : n \in S}
<1>1. Ups # {} /\ Ups \subseteq FiniteSubsetsOf(Nat)
  <2>1. ASSUME NEW n \in S PROVE IsFiniteSet(Up(n))
    <3>1. IsFiniteSet(0..n) /\ Up(n) = 0..n
        BY FS_Interval
    <3> HIDE DEF Up
    <3> QED
        BY <3>1
  <2> QED
    BY <2>1 DEF FiniteSubsetsOf
<1>2. IsWellFoundedOn(StrictSubsetOrdering(Nat), FiniteSubsetsOf(Nat))
    BY FS_StrictSubsetOrderingWellFounded
<1>3. PICK T \in Ups : \A U \in Ups : <<U, T>> \notin StrictSubsetOrdering(Nat)
  <2> HIDE DEF Ups
  <2> QED
    BY <1>1, <1>2, WFMin
<1>4. PICK x \in S : T = Up(x)
    OBVIOUS
<1>5. ASSUME NEW y \in S, y < x PROVE FALSE
  <2>1. Up(y) \subseteq T /\ x \in T /\ x \notin Up(y)
    BY <1>4, <1>5
  <2>2. Up(y) \in Ups /\ T \subseteq Nat /\ Up(y) \subseteq Nat
    BY <1>4
  <2> QED
    BY <2>1, <2>2, <1>3 DEF StrictSubsetOrdering
<1> QED
    BY <1>5

\* Induction up to n, over the set of the numbers that have the property.
LEMMA Induction ==
    ASSUME NEW n \in Nat, NEW P, 0 \in P, \A i \in 0..(n - 1) : i \in P => i + 1 \in P
    PROVE  0..n \subseteq P
<1> DEFINE B == {i \in 0..n : i \notin P}
<1> SUFFICES ASSUME B # {} PROVE FALSE
    OBVIOUS
<1>1. PICK x \in B : \A y \in B : x <= y
  <2>1. B \subseteq Nat
    OBVIOUS
  <2> HIDE DEF B
  <2> QED
    BY <2>1, LeastNat
<1>2. x # 0 /\ x - 1 \in 0..(n - 1) /\ x - 1 \in P
    BY <1>1
<1> QED
    BY <1>1, <1>2

\* What each of n steps makes of a value is a value.
Steps(steps, n, X) == \A i \in 1..n, x \in X : steps[i][x] \in X

\* Recursion over 0..n: steps is what each step makes of the value before it.
LEMMA Recursion ==
    ASSUME NEW n \in Nat, NEW X, NEW a \in X, NEW steps, Steps(steps, n, X)
    PROVE  \E f \in [0..n -> X] :
              f[0] = a /\ \A i \in 1..n : f[i] = steps[i][f[i - 1]]
<1> DEFINE Good(m, f) == f[0] = a /\ \A i \in 1..m : f[i] = steps[i][f[i - 1]]
           P == {m \in 0..n : \E f \in [0..m -> X] : Good(m, f)}
<1>1. 0 \in P
  <2> DEFINE g == [i \in 0..0 |-> a]
  <2>1. g \in [0..0 -> X] /\ g[0] = a /\ 1..0 = {}
    OBVIOUS
  <2>2. Good(0, g)
    BY <2>1
  <2> HIDE DEF g, Good
  <2> QED
    BY <2>1, <2>2
<1>2. ASSUME NEW m \in 0..(n - 1), m \in P PROVE m + 1 \in P
  <2>1. PICK f \in [0..m -> X] : Good(m, f)
    BY <1>2
  <2> DEFINE g == [i \in 0..(m + 1) |-> IF i = m + 1 THEN steps[m + 1][f[m]] ELSE f[i]]
  <2>2. m + 1 \in 1..n /\ f[m] \in X /\ steps[m + 1][f[m]] \in X
    BY DEF Steps
  <2>3. g \in [0..(m + 1) -> X]
    BY <2>2
  <2>4. ASSUME NEW i \in 1..(m + 1) PROVE g[i] = steps[i][g[i - 1]]
    <3>1. CASE i = m + 1
        BY <3>1
    <3>2. CASE i # m + 1
      <4>1. i \in 1..m /\ i - 1 # m + 1 /\ i - 1 \in 0..(m + 1) /\ i \in 0..(m + 1)
        BY <3>2
      <4>2. g[i] = f[i] /\ g[i - 1] = f[i - 1]
        BY <4>1, <3>2
      <4>3. f[i] = steps[i][f[i - 1]]
        BY <2>1, <4>1
      <4> QED
        BY <4>2, <4>3
    <3> QED
        BY <3>1, <3>2
  <2>5. Good(m + 1, g)
    BY <2>1, <2>4
  <2> HIDE DEF g, Good
  <2> QED
    BY <2>2, <2>3, <2>5
<1>3. 0..n \subseteq P
  <2> HIDE DEF P
  <2> QED
    BY <1>1, <1>2, Induction
<1> QED
    BY <1>3

-----------------------------------------------------------------------------
(* FlattenSeq *)

\* A row of n sequences.
Rows(q, n, X) == q \in [1..n -> Seq(X)]

\* What has been appended after each of n sequences.
Parts(F, q, n, X) ==
    F \in [0..n -> Seq(X)] /\ F[0] = <<>> /\ \A i \in 1..n : F[i] = F[i - 1] \o q[i]

\* FlattenSeq appends its sequences one after another.
LEMMA FlattenSteps ==
    ASSUME NEW X, NEW n \in Nat, NEW q, Rows(q, n, X)
    PROVE  \E F : Parts(F, q, n, X) /\ FlattenSeq(q) = F[n]
<1> q \in [1..n -> Seq(X)]
    BY DEF Rows
<1>1. q \in Seq(Seq(X)) /\ Len(q) = n
    OBVIOUS
<1> DEFINE steps == [i \in 1..n |-> [s \in Seq(X) |-> s \o q[i]]]
<1>a. \A i \in 1..n, s \in Seq(X) : steps[i][s] = s \o q[i]
    OBVIOUS
<1>2. Steps(steps, n, Seq(X))
    BY <1>a DEF Steps
<1> HIDE DEF steps
<1>b. <<>> \in Seq(X)
    OBVIOUS
<1>c. \E F \in [0..n -> Seq(X)] : F[0] = <<>> /\ \A i \in 1..n : F[i] = steps[i][F[i - 1]]
  <2> DEFINE Y == Seq(X)
             e == <<>>
  <2>1. Steps(steps, n, Y) /\ e \in Y
    BY <1>2, <1>b
  <2>2. \E F \in [0..n -> Y] : F[0] = e /\ \A i \in 1..n : F[i] = steps[i][F[i - 1]]
    <3> HIDE DEF Y, e
    <3> QED
        BY <2>1, Recursion
  <2> QED
    BY <2>2
<1>3. PICK F \in [0..n -> Seq(X)] : F[0] = <<>> /\ \A i \in 1..n : F[i] = steps[i][F[i - 1]]
    BY <1>c
<1>4. ASSUME NEW i \in 1..n PROVE F[i] = F[i - 1] \o q[i]
  <2>1. i - 1 \in 0..n
    OBVIOUS
  <2>2. F[i - 1] \in Seq(X)
    BY <2>1
  <2> QED
    BY <1>3, <1>a, <2>2
<1>d. ASSUME 0 < n PROVE F[1] = q[1]
  <2>1. 1 \in 1..n /\ 1 - 1 = 0
    BY <1>d
  <2>2. F[1] = F[0] \o q[1] /\ q[1] \in Seq(X)
    BY <1>4, <2>1
  <2> QED
    BY <1>3, <2>2
<1>5. CASE n = 0
  <2>1. q = <<>>
    BY <1>1, <1>5
  <2> QED
    BY <1>3, <1>4, <1>5, <1>1, <2>1 DEF FlattenSeq, Parts
<1>6. CASE n # 0
  <2> DEFINE C == CHOOSE C : C = [i \in 1..n |-> IF i = 1 THEN q[i] ELSE C[i - 1] \o q[i]]
             R == [i \in 1..n |-> F[i]]
  <2>1. R = [i \in 1..n |-> IF i = 1 THEN q[i] ELSE R[i - 1] \o q[i]]
    <3>1. F[1] = q[1]
        BY <1>d, <1>6
    <3>2. ASSUME NEW i \in 1..n, i # 1 PROVE F[i] = R[i - 1] \o q[i]
      <4>1. i - 1 \in 1..n
        BY <3>2
      <4> QED
        BY <1>4, <4>1
    <3> QED
        BY <3>1, <3>2
  <2>2. C = [i \in 1..n |-> IF i = 1 THEN q[i] ELSE C[i - 1] \o q[i]]
    <3> HIDE DEF R
    <3> QED
        BY <2>1
  <2>3. FlattenSeq(q) = C[n]
    BY <1>1, <1>6 DEF FlattenSeq
  <2> HIDE DEF C
  <2> DEFINE P == {m \in 0..n : m = 0 \/ C[m] = F[m]}
  <2>4. 0 \in P
    OBVIOUS
  <2>5. ASSUME NEW m \in 0..(n - 1), m \in P PROVE m + 1 \in P
    <3>1. m + 1 \in 1..n /\ (m + 1) - 1 = m /\ (m + 1 = 1 <=> m = 0) /\ m + 1 \in 0..n
        OBVIOUS
    <3>2. C[m + 1] = IF m = 0 THEN q[m + 1] ELSE C[m] \o q[m + 1]
        BY ONLY <2>2, <3>1
    <3>3. F[m + 1] = F[m] \o q[m + 1]
        BY <1>4, <3>1
    <3>4. C[m + 1] = F[m + 1]
      <4>1. CASE m = 0
        BY <1>6, <4>1, <3>1, <3>2, <1>d
      <4>2. CASE m # 0
        BY <2>5, <4>2, <3>2, <3>3
      <4> QED
        BY <4>1, <4>2
    <3> QED
        BY <3>1, <3>4
  <2>6. 0..n \subseteq P
    <3> HIDE DEF P
    <3> QED
        BY <2>4, <2>5, Induction
  <2>7. C[n] = F[n]
    BY <2>6, <1>6
  <2> QED
    BY <1>3, <1>4, <2>3, <2>7 DEF Parts
<1> QED
    BY <1>5, <1>6

\* u is s and then t, and what that says of its elements.
Joined(s, t, u) == u = s \o t
Grown(s, t, u) ==
    /\ Len(s) \in Nat /\ Len(t) \in Nat /\ Len(u) = Len(s) + Len(t)
    /\ \A k \in 1..Len(s) : k \in 1..Len(u) /\ u[k] = s[k]
    /\ \A k \in 1..Len(t) : Len(s) + k \in 1..Len(u) /\ u[Len(s) + k] = t[k]

LEMMA JoinedAt ==
    ASSUME NEW X, NEW s \in Seq(X), NEW t \in Seq(X), NEW u, Joined(s, t, u)
    PROVE  u \in Seq(X) /\ Grown(s, t, u)
BY DEF Joined, Grown

\* One more sequence.
LEMMA PartStep ==
    ASSUME NEW X, NEW n \in Nat, NEW q, Rows(q, n, X), NEW F, Parts(F, q, n, X), NEW i \in 1..n
    PROVE  Grown(F[i - 1], q[i], F[i])
<1> DEFINE s == F[i - 1]
           t == q[i]
           u == F[i]
<1>1. i - 1 \in 0..n
    OBVIOUS
<1>2. s \in Seq(X) /\ t \in Seq(X) /\ Joined(s, t, u)
    BY <1>1 DEF Parts, Rows, Joined
<1> HIDE DEF s, t, u
<1>3. Grown(s, t, u)
    BY <1>2, JoinedAt
<1> QED
    BY <1>3 DEF s, t, u

\* Element j of sequence i stays where the sequence was appended.
Kept(F, q, i, j, m) ==
    Len(F[i - 1]) + j \in 1..Len(F[m]) /\ F[m][Len(F[i - 1]) + j] = q[i][j]

LEMMA PartAt ==
    ASSUME NEW X, NEW n \in Nat, NEW q, Rows(q, n, X), NEW F, Parts(F, q, n, X),
           NEW i \in 1..n, NEW j \in 1..Len(q[i]), NEW m \in i..n
    PROVE  Kept(F, q, i, j, m)
<1> DEFINE at == Len(F[i - 1]) + j
           P == {l \in 0..n : l >= i => at \in 1..Len(F[l]) /\ F[l][at] = q[i][j]}
<1>1. 0 \in P
    OBVIOUS
<1>2. ASSUME NEW l \in 0..(n - 1), l \in P PROVE l + 1 \in P
  <2>1. l + 1 \in 1..n /\ (l + 1) - 1 = l /\ l + 1 \in 0..n
    OBVIOUS
  <2>2. Grown(F[l], q[l + 1], F[l + 1])
    <3> DEFINE k == l + 1
    <3>1. k \in 1..n /\ k - 1 = l
        BY <2>1
    <3> HIDE DEF k
    <3>2. Grown(F[k - 1], q[k], F[k])
        BY <3>1, PartStep
    <3> QED
        BY <3>1, <3>2 DEF k
  <2>4. CASE l + 1 = i
    <3>0. l = i - 1
        BY <2>4
    <3>1. j \in 1..Len(q[l + 1])
        BY <2>4
    <3> QED
        BY <3>0, <3>1, <2>2, <2>4, <2>1 DEF Grown
  <2>5. CASE l >= i
    <3>1. at \in 1..Len(F[l]) /\ F[l][at] = q[i][j]
        BY <2>5, <1>2
    <3> HIDE DEF at
    <3> QED
        BY <3>1, <2>2, <2>1 DEF Grown
  <2> QED
    BY <2>4, <2>5, <2>1
<1>3. 0..n \subseteq P
  <2> HIDE DEF P
  <2> QED
    BY <1>1, <1>2, Induction
<1> QED
    BY <1>3 DEF Kept

\* What is appended only grows.
LEMMA PartsGrow ==
    ASSUME NEW X, NEW n \in Nat, NEW q, Rows(q, n, X), NEW F, Parts(F, q, n, X),
           NEW i \in 0..n, NEW m \in i..n
    PROVE  Len(F[i]) \in Nat /\ Len(F[m]) \in Nat /\ Len(F[i]) <= Len(F[m])
<1>0. \A l \in 0..n : Len(F[l]) \in Nat
  <2> SUFFICES ASSUME NEW l \in 0..n PROVE Len(F[l]) \in Nat
    OBVIOUS
  <2>1. F[l] \in Seq(X)
    BY DEF Parts
  <2> QED
    BY <2>1
<1> DEFINE P == {l \in 0..n : l >= i => Len(F[i]) <= Len(F[l])}
<1>1. 0 \in P
    BY <1>0
<1>2. ASSUME NEW l \in 0..(n - 1), l \in P PROVE l + 1 \in P
  <2> DEFINE k == l + 1
  <2>1. k \in 1..n /\ k - 1 = l /\ k \in 0..n
    OBVIOUS
  <2>2. Grown(F[k - 1], q[k], F[k])
    <3> HIDE DEF k
    <3> QED
        BY <2>1, PartStep
  <2>3. Len(F[l]) <= Len(F[k])
    <3> DEFINE u == Len(F[k])
               v == Len(F[k - 1])
               x == Len(q[k])
    <3>1. u = v + x /\ x \in Nat /\ v \in Nat
        BY <2>2 DEF Grown
    <3>2. v <= u
      <4> HIDE DEF u, v, x
      <4> QED
        BY <3>1
    <3> QED
        BY <3>2, <2>1
  <2>4. k >= i => Len(F[i]) <= Len(F[k])
    <3>1. CASE k = i
        BY <3>1, <1>0
    <3>2. CASE l >= i
      <4>1. Len(F[i]) <= Len(F[l])
        BY <3>2, <1>2
      <4> QED
        BY <4>1, <2>3, <1>0, <2>1
    <3> QED
        BY <3>1, <3>2
  <2> QED
    BY <2>1, <2>4
<1>3. 0..n \subseteq P
  <2> HIDE DEF P
  <2> QED
    BY <1>1, <1>2, Induction
<1> QED
    BY <1>0, <1>3

\* From b on, B climbs by the lengths of the sequences of q.
Climbs(B, b, q, l) ==
    /\ \A i \in 0..l : B[b + i] \in Nat
    /\ \A i \in 1..l : B[b + i] = B[b + (i - 1)] + Len(q[i])

Along(B, b, F, l) == \A i \in 0..l : B[b + i] = B[b] + Len(F[i])

\* Then it is as far as they have been appended.
LEMMA ClimbsAlong ==
    ASSUME NEW X, NEW l \in Nat, NEW q, Rows(q, l, X), NEW F, Parts(F, q, l, X),
           NEW B, NEW b \in Nat, Climbs(B, b, q, l)
    PROVE  Along(B, b, F, l)
<1> DEFINE P == {i \in 0..l : B[b + i] = B[b] + Len(F[i])}
<1>1. 0 \in P
  <2>1. Len(F[0]) = 0 /\ b + 0 = b
    BY DEF Parts
  <2>2. B[b] \in Nat
    BY <2>1 DEF Climbs
  <2> QED
    BY <2>1, <2>2
<1>2. ASSUME NEW i \in 0..(l - 1), i \in P PROVE i + 1 \in P
  <2> DEFINE k == i + 1
             u == B[b + k]
             v == B[b + (k - 1)]
             x == B[b]
             e == Len(F[k - 1])
             f == Len(F[k])
             g == Len(q[k])
  <2>1. k \in 1..l /\ k - 1 = i /\ k \in 0..l /\ k - 1 \in 0..l /\ 0 \in 0..l /\ b + 0 = b
    OBVIOUS
  <2>2. Grown(F[k - 1], q[k], F[k])
    <3> HIDE DEF k
    <3> QED
        BY <2>1, PartStep
  <2>3. f = e + g /\ e \in Nat /\ g \in Nat
    BY <2>2 DEF Grown
  <2>4. u = v + g /\ x \in Nat
    <3> HIDE DEF k
    <3> QED
        BY <2>1 DEF Climbs
  <2>5. v = x + e
    BY <2>1, <1>2
  <2>6. u = x + f
    <3> HIDE DEF u, v, x, e, f, g
    <3> QED
        BY <2>3, <2>4, <2>5
  <2> QED
    BY <2>1, <2>6
<1>3. 0..l \subseteq P
  <2> HIDE DEF P
  <2> QED
    BY <1>1, <1>2, Induction
<1> QED
    BY <1>3 DEF Along

\* The sums of w over the elements of s.
Sums(B, s, w) ==
    B \in [0..Len(s) -> Nat] /\ B[0] = 0 /\ \A p \in 1..Len(s) : B[p] = B[p - 1] + w[s[p]]

\* For each element of the rows T a cell, as long as w says, and the rows of them.
Cells(C, T, n, w, Y) ==
    \A k \in 1..n : /\ Rows(C[k], Len(T[k]), Y)
                    /\ \A i \in 1..Len(T[k]) : Len(C[k][i]) = w[T[k][i]]
Flat(R, C, n) == R = [k \in 1..n |-> FlattenSeq(C[k])]

\* The sums over the elements of all the rows climb by the cells of each.
LEMMA SumsClimb ==
    ASSUME NEW X, NEW Y, NEW n \in Nat, NEW T, Rows(T, n, X), NEW F, Parts(F, T, n, X),
           NEW w, NEW C, Cells(C, T, n, w, Y), NEW B, Sums(B, F[n], w), NEW k \in 1..n
    PROVE  Climbs(B, Len(F[k - 1]), C[k], Len(T[k]))
<1>1. Grown(F[k - 1], T[k], F[k])
    BY PartStep
<1>2. k \in 0..n /\ n \in k..n
    OBVIOUS
<1>3. Len(F[k]) \in Nat /\ Len(F[n]) \in Nat /\ Len(F[k]) <= Len(F[n])
    BY <1>2, PartsGrow
<1> DEFINE b == Len(F[k - 1])
           l == Len(T[k])
           N == Len(F[n])
<1>4. b \in Nat /\ l \in Nat /\ N \in Nat /\ b + l <= N
    BY <1>1, <1>3 DEF Grown
<1>5. \A i \in 0..l : B[b + i] \in Nat
  <2>1. B \in [0..N -> Nat]
    BY DEF Sums
  <2> HIDE DEF b, l, N
  <2> QED
    BY <1>4, <2>1
<1>6. ASSUME NEW i \in 1..l PROVE B[b + i] = B[b + (i - 1)] + Len(C[k][i])
  <2>1. b + i \in 1..N /\ F[n][b + i] = T[k][i]
    <3>1. Kept(F, T, k, i, n)
        BY <1>2, PartAt
    <3> QED
        BY <3>1 DEF Kept
  <2>2. Len(C[k][i]) = w[T[k][i]]
    BY DEF Cells
  <2>3. (b + i) - 1 = b + (i - 1)
    <3> HIDE DEF b, l
    <3> QED
        BY <1>4
  <2> DEFINE p == b + i
  <2>4. B[p] = B[p - 1] + w[F[n][p]]
    <3> HIDE DEF p
    <3> QED
        BY <2>1 DEF Sums, p
  <2> QED
    BY <2>1, <2>2, <2>3, <2>4
<1> QED
    BY <1>5, <1>6 DEF Climbs

\* Cell i of row k, at the sum of what is before it.
Placed(Q, B, F, T, C, n) ==
    \A k \in 1..n : \A i \in 1..Len(T[k]) : \A j \in 1..Len(C[k][i]) :
        LET at == B[Len(F[k - 1]) + (i - 1)] + j
        IN  at \in 1..Len(Q) /\ Q[at] = C[k][i][j]

\* Rows of cells, flattened: every cell is where the sums of w over the elements
\* of all the rows say, and the whole is as long as they say.
LEMMA Layout ==
    ASSUME NEW X, NEW Y, NEW n \in Nat, NEW T, Rows(T, n, X), NEW F, Parts(F, T, n, X),
           NEW w, NEW C, Cells(C, T, n, w, Y), NEW R, Flat(R, C, n),
           NEW B, Sums(B, F[n], w)
    PROVE  /\ FlattenSeq(R) \in Seq(Y) /\ Len(FlattenSeq(R)) = B[Len(F[n])]
           /\ Placed(FlattenSeq(R), B, F, T, C, n)
<1>1. ASSUME NEW k \in 1..n
      PROVE  \E E : Parts(E, C[k], Len(T[k]), Y) /\ R[k] = E[Len(T[k])] /\ Len(T[k]) \in Nat
  <2>1. Rows(C[k], Len(T[k]), Y) /\ R[k] = FlattenSeq(C[k])
    BY DEF Cells, Flat
  <2>2. Len(T[k]) \in Nat
    <3>1. Grown(F[k - 1], T[k], F[k])
        BY PartStep
    <3> QED
        BY <3>1 DEF Grown
  <2> QED
    BY <2>1, <2>2, FlattenSteps
<1>2. Rows(R, n, Y)
  <2>1. ASSUME NEW k \in 1..n PROVE R[k] \in Seq(Y)
    <3>1. PICK E : Parts(E, C[k], Len(T[k]), Y) /\ R[k] = E[Len(T[k])] /\ Len(T[k]) \in Nat
        BY <1>1
    <3>2. Len(T[k]) \in 0..Len(T[k])
        BY <3>1
    <3> QED
        BY <3>1, <3>2 DEF Parts
  <2> QED
    BY <2>1 DEF Rows, Flat
<1>3. PICK H : Parts(H, R, n, Y) /\ FlattenSeq(R) = H[n]
    BY <1>2, FlattenSteps
<1>4. ASSUME NEW k \in 1..n, NEW E, Parts(E, C[k], Len(T[k]), Y)
      PROVE  Along(B, Len(F[k - 1]), E, Len(T[k]))
  <2> DEFINE b == Len(F[k - 1])
             l == Len(T[k])
             q == C[k]
  <2>1. Grown(F[k - 1], T[k], F[k])
    BY PartStep
  <2>2. b \in Nat /\ l \in Nat
    BY <2>1 DEF Grown
  <2>3. Rows(q, l, Y)
    BY DEF Cells
  <2>4. Climbs(B, b, q, l)
    BY SumsClimb
  <2>5. Parts(E, q, l, Y)
    BY <1>4
  <2> HIDE DEF b, l, q
  <2>6. Along(B, b, E, l)
    BY ONLY <2>2, <2>3, <2>4, <2>5, ClimbsAlong
  <2> QED
    BY <2>6 DEF b, l
<1>5. \A k \in 0..n : Len(H[k]) = B[Len(F[k])]
  <2> DEFINE P == {k \in 0..n : Len(H[k]) = B[Len(F[k])]}
  <2>1. 0 \in P
    BY SMTT(30), <1>3 DEF Parts, Sums
  <2>2. ASSUME NEW m \in 0..(n - 1), m \in P PROVE m + 1 \in P
    <3> DEFINE k == m + 1
    <3>1. k \in 1..n /\ k - 1 = m /\ k \in 0..n
        OBVIOUS
    <3> HIDE DEF k
    <3>2. PICK E : Parts(E, C[k], Len(T[k]), Y) /\ R[k] = E[Len(T[k])] /\ Len(T[k]) \in Nat
        BY <1>1, <3>1
    <3>3. Grown(F[k - 1], T[k], F[k]) /\ Grown(H[k - 1], R[k], H[k])
        BY <1>2, <1>3, <3>1, PartStep
    <3>4. B[Len(F[k - 1]) + Len(T[k])] = B[Len(F[k - 1])] + Len(R[k])
      <4>1. Along(B, Len(F[k - 1]), E, Len(T[k]))
        BY <1>4, <3>1, <3>2
      <4>2. Len(T[k]) \in 0..Len(T[k])
        BY <3>2
      <4> QED
        BY <4>1, <4>2, <3>2 DEF Along
    <3>5. Len(F[k]) = Len(F[k - 1]) + Len(T[k]) /\ Len(H[k]) = Len(H[k - 1]) + Len(R[k])
        BY <3>3 DEF Grown
    <3>6. Len(H[k - 1]) = B[Len(F[k - 1])]
        BY <2>2, <3>1
    <3>7. k \in P
        BY <3>1, <3>4, <3>5, <3>6
    <3> QED
        BY <3>7 DEF k
  <2>3. 0..n \subseteq P
    <3> HIDE DEF P
    <3> QED
        BY <2>1, <2>2, Induction
  <2> QED
    BY <2>3
<1>6. ASSUME NEW k \in 1..n, NEW i \in 1..Len(T[k]), NEW j \in 1..Len(C[k][i])
      PROVE  LET at == B[Len(F[k - 1]) + (i - 1)] + j
             IN  at \in 1..Len(H[n]) /\ H[n][at] = C[k][i][j]
  <2>1. PICK E : Parts(E, C[k], Len(T[k]), Y) /\ R[k] = E[Len(T[k])] /\ Len(T[k]) \in Nat
    BY <1>1
  <2> DEFINE l == Len(T[k])
             q == C[k]
             p == Len(E[i - 1]) + j
  <2>2. Rows(q, l, Y) /\ Parts(E, q, l, Y) /\ R[k] = E[l] /\ l \in Nat
    BY <2>1 DEF Cells
  <2>3. i \in 1..l /\ l \in i..l /\ i - 1 \in 0..l /\ j \in 1..Len(q[i])
    BY <2>1
  <2>4. p \in 1..Len(R[k]) /\ R[k][p] = C[k][i][j]
    <3>1. Kept(E, q, i, j, l)
      <4> HIDE DEF l, q
      <4> QED
        BY <2>2, <2>3, PartAt
    <3> QED
        BY <3>1, <2>2 DEF Kept
  <2>5. Len(H[k - 1]) + p \in 1..Len(H[n]) /\ H[n][Len(H[k - 1]) + p] = R[k][p]
    <3>1. n \in k..n
        OBVIOUS
    <3> HIDE DEF p
    <3>2. Kept(H, R, k, p, n)
        BY <3>1, <2>4, <1>2, <1>3, PartAt
    <3> QED
        BY <3>2 DEF Kept
  <2>6. Len(H[k - 1]) + p = B[Len(F[k - 1]) + (i - 1)] + j
    <3> DEFINE u == B[Len(F[k - 1]) + (i - 1)]
               v == B[Len(F[k - 1])]
               x == Len(E[i - 1])
               e == Len(H[k - 1])
    <3>1. u = v + x
        BY <1>4, <2>1, <2>3 DEF Along
    <3>2. e = v
      <4>1. k - 1 \in 0..n
        OBVIOUS
      <4> QED
        BY <4>1, <1>5
    <3>3. e \in Nat
      <4>1. Grown(H[k - 1], R[k], H[k])
        BY <1>2, <1>3, PartStep
      <4> QED
        BY <4>1 DEF Grown
    <3>4. x \in Nat
      <4>1. E[i - 1] \in Seq(Y)
        BY <2>2, <2>3 DEF Parts
      <4> QED
        BY <4>1
    <3>5. j \in Int
        OBVIOUS
    <3>6. e + (x + j) = u + j
      <4> HIDE DEF u, v, x, e
      <4> QED
        BY <3>1, <3>2, <3>3, <3>4, <3>5
    <3> QED
        BY <3>6
  <2> QED
    BY <2>4, <2>5, <2>6
<1>7. Len(H[n]) = B[Len(F[n])]
  <2>1. n \in 0..n
    OBVIOUS
  <2> QED
    BY <1>5, <2>1
<1>8. H[n] \in Seq(Y)
  <2>1. n \in 0..n
    OBVIOUS
  <2> QED
    BY <1>3, <2>1 DEF Parts
<1> QED
    BY <1>3, <1>6, <1>7, <1>8 DEF Placed

-----------------------------------------------------------------------------
(* GGUFMerge *)

\* B[k] is what the first k tensors take.
Adds(B, ts, n, a) ==
    B \in [0..n -> Nat] /\ B[0] = 0 /\ \A k \in 1..n : B[k] = B[k - 1] + Aligned(ts[k].size, a)

\* Such a B exists, and Before says the same.
LEMMA AddsExists ==
    ASSUME NEW ts, NEW n \in Nat, NEW a \in {1, 2, 4}, \A k \in 1..n : ts[k].size \in Nat
    PROVE  \E B : Adds(B, ts, n, a)
<1>0. \A k \in 1..n : Aligned(ts[k].size, a) \in Nat
    BY DEF Aligned
<1> DEFINE steps == [k \in 1..n |-> [x \in Nat |-> x + Aligned(ts[k].size, a)]]
           Y == Nat
           e == 0
<1>1. \A k \in 1..n, x \in Nat : steps[k][x] = x + Aligned(ts[k].size, a)
    OBVIOUS
<1>2. Steps(steps, n, Y) /\ e \in Y
    BY <1>0, <1>1 DEF Steps
<1> HIDE DEF steps
<1>3. PICK B \in [0..n -> Y] : B[0] = e /\ \A k \in 1..n : B[k] = steps[k][B[k - 1]]
  <2> HIDE DEF Y, e
  <2> QED
    BY <1>2, Recursion
<1>4. ASSUME NEW k \in 1..n PROVE B[k] = B[k - 1] + Aligned(ts[k].size, a)
  <2>1. k - 1 \in 0..n
    OBVIOUS
  <2> QED
    BY <1>3, <1>1, <2>1
<1> QED
    BY <1>3, <1>4 DEF Adds

LEMMA BeforeAdds ==
    ASSUME NEW ts, NEW n \in Nat, NEW a, NEW B, Adds(B, ts, n, a), NEW i \in 1..(n + 1)
    PROVE  Before(ts, a, i) = B[i - 1]
<1> DEFINE C == CHOOSE C : C = [k \in 0..(i - 1) |->
                  IF k = 0 THEN 0 ELSE C[k - 1] + Aligned(ts[k].size, a)]
           R == [k \in 0..(i - 1) |-> B[k]]
<1>1. R = [k \in 0..(i - 1) |-> IF k = 0 THEN 0 ELSE R[k - 1] + Aligned(ts[k].size, a)]
  <2>1. ASSUME NEW k \in 0..(i - 1), k # 0 PROVE B[k] = R[k - 1] + Aligned(ts[k].size, a)
    <3>1. k \in 1..n /\ k - 1 \in 0..(i - 1)
        BY <2>1
    <3> QED
        BY <3>1 DEF Adds
  <2> QED
    BY <2>1 DEF Adds
<1>2. C = [k \in 0..(i - 1) |-> IF k = 0 THEN 0 ELSE C[k - 1] + Aligned(ts[k].size, a)]
  <2> HIDE DEF R
  <2> QED
    BY <1>1
<1>3. Before(ts, a, i) = C[i - 1]
    BY DEF Before
<1> HIDE DEF C
<1> DEFINE P == {k \in 0..(i - 1) : C[k] = B[k]}
<1>4. 0 \in P
    BY <1>2 DEF Adds
<1>5. ASSUME NEW k \in 0..((i - 1) - 1), k \in P PROVE k + 1 \in P
  <2>1. k + 1 \in 1..n /\ (k + 1) - 1 = k /\ k + 1 \in 0..(i - 1) /\ k + 1 # 0
    OBVIOUS
  <2>2. C[k + 1] = C[k] + Aligned(ts[k + 1].size, a)
    BY ONLY <1>2, <2>1
  <2>3. B[k + 1] = B[k] + Aligned(ts[k + 1].size, a)
    BY <2>1 DEF Adds
  <2> QED
    BY <1>5, <2>1, <2>2, <2>3
<1>6. 0..(i - 1) \subseteq P
  <2>1. i - 1 \in Nat
    OBVIOUS
  <2> HIDE DEF P
  <2> QED
    BY <1>4, <1>5, <2>1, Induction
<1> QED
    BY <1>3, <1>6

\* The shards readGGUF may be asked to read: files with split metadata of any
\* numbers and with tensors of any names.
Tensors(Names) == [name : Names, offset : Nat, size : Nat]
Shards(Names) ==
    [split : UNION {[S -> Nat] : S \in SUBSET Split}, entries : Nat, alignment : Nat,
     tensors : Seq(Tensors(Names)), length : Nat]

\* Padding a length to an alignment does not shorten it.
LEMMA AlignedFits ==
    ASSUME NEW l \in Nat PROVE Aligned(l, 4) \in Nat /\ l <= Aligned(l, 4)
BY DEF Aligned

\* mergeGGUF writes what ggufPlan announces: whatever shards are accepted, however
\* many and however long, the merged file is one readGGUF reads, it is as long as
\* planned, and the data of every tensor of every shard are at the tensor's
\* planned offset.
THEOREM MergeReadsBackTheorem ==
    ASSUME NEW Names, NEW shards \in Seq(Shards(Names)), shards # <<>>
    PROVE  MergeReadsBack(shards)
<1> SUFFICES ASSUME \A k \in DOMAIN shards : Readable(shards[k]), Plannable(shards)
             PROVE  LET f == Merged(shards)
                        units == Written(shards)
                    IN  /\ Readable(f) /\ Len(units) = f.length
                        /\ \A k \in DOMAIN shards : \A i \in DOMAIN shards[k].tensors :
                             LET t == shards[k].tensors[i] IN
                             \E m \in DOMAIN f.tensors :
                                /\ f.tensors[m].name = t.name
                                /\ \A j \in 1..t.size :
                                     units[DataStart(f) + f.tensors[m].offset + j]
                                         = <<k, DataStart(shards[k]) + t.offset + j>>
    BY DEF MergeReadsBack
<1> DEFINE X == Tensors(Names)
           Y == Nat \X Nat
           n == Len(shards)
           T == [k \in 1..n |-> shards[k].tensors]
           ts == AllTensors(shards)
           N == Len(ts)
           w == [x \in X |-> Aligned(x.size, 4)]
           Cell(k, i) == [j \in 1..Aligned(shards[k].tensors[i].size, 4) |->
                            IF j <= shards[k].tensors[i].size
                            THEN <<k, DataStart(shards[k]) + shards[k].tensors[i].offset + j>>
                            ELSE <<0, 0>>]
           C == [k \in 1..n |-> [i \in 1..Len(T[k]) |-> Cell(k, i)]]
           R == [k \in 1..n |-> FlattenSeq(C[k])]
           head == Aligned(Fixed + shards[1].entries + N, 4)
           f == Merged(shards)
           units == Written(shards)
<1>1. n \in Nat \ {0} /\ DOMAIN shards = 1..n /\ \A k \in 1..n : shards[k] \in Shards(Names)
    OBVIOUS
<1>2. ASSUME NEW k \in 1..n
      PROVE  /\ T[k] = shards[k].tensors /\ T[k] \in Seq(X) /\ Len(T[k]) \in Nat
             /\ DOMAIN T[k] = 1..Len(T[k]) /\ DataStart(shards[k]) \in Nat
             /\ \A i \in 1..Len(T[k]) : T[k][i] \in X
  <2>1. shards[k] \in Shards(Names)
    BY <1>1
  <2>2. T[k] = shards[k].tensors /\ T[k] \in Seq(X)
    BY <2>1 DEF Shards
  <2>3. DataStart(shards[k]) \in Nat
    <3>1. PICK S \in SUBSET Split : shards[k].split \in [S -> Nat]
        BY <2>1 DEF Shards
    <3>2. IsFiniteSet(S) /\ Cardinality(S) \in Nat
      <4>1. IsFiniteSet(Split)
        <5>1. IsFiniteSet({}) /\ Split = (({} \cup {"no"}) \cup {"count"}) \cup {"total"}
            BY FS_EmptySet DEF Split
        <5>2. IsFiniteSet({} \cup {"no"})
            BY <5>1, FS_AddElement
        <5>3. IsFiniteSet(({} \cup {"no"}) \cup {"count"})
            BY <5>2, FS_AddElement
        <5> QED
            BY <5>1, <5>3, FS_AddElement
      <4>2. IsFiniteSet(S)
        BY <4>1, FS_Subset
      <4> QED
        BY <4>2, FS_CardinalityType
    <3>3. Cardinality(DOMAIN shards[k].split) \in Nat
      <4>1. DOMAIN shards[k].split = S
        BY <3>1
      <4> QED
        BY <4>1, <3>2
    <3>4. Len(shards[k].tensors) \in Nat /\ shards[k].entries \in Nat
        BY SMTT(30), <2>1, <2>2 DEF Shards
    <3>5. HeaderLength(shards[k]) \in Nat
      <4> DEFINE c == Cardinality(DOMAIN shards[k].split)
                 e == shards[k].entries
                 l == Len(shards[k].tensors)
      <4>1. HeaderLength(shards[k]) = 3 + c + e + l
        BY DEF HeaderLength, Fixed
      <4>2. c \in Nat /\ e \in Nat /\ l \in Nat
        BY <3>3, <3>4
      <4> HIDE DEF c, e, l
      <4> QED
        BY <4>1, <4>2
    <3>6. shards[k].alignment \in {1, 2, 4}
        BY <1>1 DEF Readable, Alignment
    <3> QED
        BY <3>5, <3>6 DEF DataStart, Aligned
  <2> QED
    BY <2>2, <2>3
<1>3. Rows(T, n, X)
    BY <1>2 DEF Rows
<1>4. PICK F : Parts(F, T, n, X) /\ ts = F[n]
  <2>1. ts = FlattenSeq(T)
    <3>1. T = [k \in DOMAIN shards |-> shards[k].tensors]
        BY <1>1
    <3> QED
        BY <3>1 DEF AllTensors
  <2> HIDE DEF X, T, n, ts
  <2> QED
    BY <1>1, <1>3, <2>1, FlattenSteps
<1>5. ts \in Seq(X) /\ N \in Nat /\ DOMAIN ts = 1..N /\ \A i \in 1..N : ts[i] \in X /\ ts[i].size \in Nat
  <2>1. ts \in Seq(X)
    <3>1. n \in 0..n
        BY <1>1
    <3> HIDE DEF X, n, ts
    <3> QED
        BY <1>4, <3>1 DEF Parts
  <2>2. \A x \in X : x.size \in Nat
    BY DEF Tensors
  <2> HIDE DEF X, ts
  <2> QED
    BY <2>1, <2>2
<1>6. PICK B : Adds(B, ts, N, 4)
  <2> HIDE DEF X, ts, N
  <2> QED
    BY <1>5, AddsExists
<1>7. Sums(B, F[n], w)
  <2>1. \A i \in 1..N : w[ts[i]] = Aligned(ts[i].size, 4)
    BY <1>5
  <2> HIDE DEF w, ts
  <2> QED
    BY <1>4, <1>6, <2>1 DEF Sums, Adds
<1>8. Cells(C, T, n, w, Y)
  <2> SUFFICES ASSUME NEW k \in 1..n
               PROVE  /\ Rows(C[k], Len(T[k]), Y)
                      /\ \A i \in 1..Len(T[k]) : Len(C[k][i]) = w[T[k][i]]
    BY DEF Cells
  <2>1. ASSUME NEW i \in 1..Len(T[k])
        PROVE  Cell(k, i) \in Seq(Y) /\ Len(Cell(k, i)) = w[T[k][i]]
    <3>1. shards[k].tensors[i] = T[k][i] /\ T[k][i] \in X
        BY <1>2
    <3>2. T[k][i].size \in Nat /\ T[k][i].offset \in Nat
        BY <3>1 DEF Tensors
    <3> DEFINE a == Aligned(T[k][i].size, 4)
               from == DataStart(shards[k]) + T[k][i].offset
               c == [j \in 1..a |-> IF j <= T[k][i].size THEN <<k, from + j>> ELSE <<0, 0>>]
    <3>3. a \in Nat /\ w[T[k][i]] = a
        BY <3>1, <3>2, AlignedFits
    <3>4. from \in Nat
        BY <3>2, <1>2
    <3>5. c \in Seq(Y) /\ Len(c) = a
      <4>1. k \in Nat
        BY <1>1
      <4> HIDE DEF a, from
      <4> QED
        BY <3>3, <3>4, <4>1
    <3>6. Cell(k, i) = c
        BY <3>1
    <3> QED
        BY <3>3, <3>5, <3>6
  <2>2. C[k] = [i \in 1..Len(T[k]) |-> Cell(k, i)]
    OBVIOUS
  <2> HIDE DEF Cell, T, Y, w, C, n
  <2> QED
    BY <2>1, <2>2 DEF Rows
<1>9. FlattenSeq(R) \in Seq(Y) /\ Len(FlattenSeq(R)) = B[N] /\ Placed(FlattenSeq(R), B, F, T, C, n)
  <2>1. Flat(R, C, n)
    BY DEF Flat
  <2> HIDE DEF X, Y, n, T, ts, w, C, R
  <2> QED
    BY <1>1, <1>3, <1>4, <1>7, <1>8, <2>1, Layout
<1>10. /\ f.split = <<>> /\ f.entries = shards[1].entries /\ f.alignment = 4
       /\ f.length = head + Before(ts, 4, N + 1)
       /\ f.tensors = [i \in 1..N |-> [ts[i] EXCEPT !.offset = Before(ts, 4, i)]]
    BY <1>5 DEF Merged, Alignment
<1>11. \A i \in 1..(N + 1) : Before(ts, 4, i) = B[i - 1]
  <2> HIDE DEF X, ts, N
  <2> QED
    BY <1>5, <1>6, BeforeAdds
<1>12. /\ DOMAIN f.tensors = 1..N /\ Len(f.tensors) = N
       /\ \A i \in 1..N : /\ f.tensors[i].name = ts[i].name /\ f.tensors[i].size = ts[i].size
                          /\ f.tensors[i].offset = B[i - 1]
  <2>1. \A i \in 1..N : i \in 1..(N + 1) /\ ts[i] \in X
    BY <1>5
  <2>2. ASSUME NEW i \in 1..N
        PROVE  f.tensors[i] = [ts[i] EXCEPT !.offset = B[i - 1]]
    <3>1. Before(ts, 4, i) = B[i - 1]
        BY <1>11, <2>1
    <3>2. f.tensors[i] = [ts[i] EXCEPT !.offset = Before(ts, 4, i)]
        BY <1>10
    <3> QED
        BY <3>1, <3>2
  <2>4. DOMAIN f.tensors = 1..N /\ Len(f.tensors) = N
    <3> HIDE DEF ts, N, f
    <3> QED
        BY <1>5, <1>10
  <2>3. \A x \in X : \A b :
           /\ [x EXCEPT !.offset = b].name = x.name
           /\ [x EXCEPT !.offset = b].size = x.size
           /\ [x EXCEPT !.offset = b].offset = b
    BY DEF Tensors
  <2>5. ASSUME NEW i \in 1..N
        PROVE  /\ f.tensors[i].name = ts[i].name /\ f.tensors[i].size = ts[i].size
               /\ f.tensors[i].offset = B[i - 1]
    <3> DEFINE x == ts[i]
               b == B[i - 1]
    <3>1. x \in X /\ f.tensors[i] = [x EXCEPT !.offset = b]
        BY <2>1, <2>2
    <3> HIDE DEF X, x, b, f
    <3>2. /\ [x EXCEPT !.offset = b].name = x.name
          /\ [x EXCEPT !.offset = b].size = x.size
          /\ [x EXCEPT !.offset = b].offset = b
        BY <3>1, <2>3
    <3> QED
        BY <3>1, <3>2 DEF x, b
  <2> HIDE DEF X, ts, N, f
  <2> QED
    BY <2>4, <2>5
<1>13. Adds(B, f.tensors, N, 4)
  <2> HIDE DEF ts, N, f
  <2> QED
    BY <1>6, <1>12 DEF Adds
<1>14. \A i \in 1..(N + 1) : Before(f.tensors, 4, i) = B[i - 1]
  <2> DEFINE fts == f.tensors
  <2>1. Adds(B, fts, N, 4)
    BY <1>13
  <2>2. \A i \in 1..(N + 1) : Before(fts, 4, i) = B[i - 1]
    <3> HIDE DEF ts, N, fts
    <3> QED
        BY <1>5, <2>1, BeforeAdds
  <2> QED
    BY <2>2
<1>15. head \in Nat /\ DataStart(f) = head
  <2>1. shards[1].entries \in Nat
    BY <1>1 DEF Shards
  <2>2. Cardinality(DOMAIN f.split) = 0
    <3>1. DOMAIN f.split = {}
        BY <1>10
    <3> QED
        BY <3>1, FS_EmptySet
  <2>3. HeaderLength(f) = Fixed + shards[1].entries + N /\ HeaderLength(f) \in Nat
    <3> DEFINE c == Cardinality(DOMAIN f.split)
               e == f.entries
               l == Len(f.tensors)
    <3>1. HeaderLength(f) = 3 + c + e + l
        BY DEF HeaderLength, Fixed
    <3>2. c = 0 /\ e = shards[1].entries /\ l = N /\ e \in Nat /\ l \in Nat
        BY <1>5, <1>10, <1>12, <2>1, <2>2
    <3> HIDE DEF c, e, l, f, N
    <3> QED
        BY <3>1, <3>2 DEF Fixed
  <2> HIDE DEF N, f
  <2> QED
    BY <1>10, <2>3, AlignedFits DEF DataStart
<1>16. f.length = head + B[N] /\ B[N] \in Nat
  <2>1. N + 1 \in 1..(N + 1) /\ (N + 1) - 1 = N /\ N \in 0..N
    BY <1>5
  <2> HIDE DEF N, ts, f, head
  <2> QED
    BY <1>6, <1>10, <1>11, <2>1 DEF Adds
<1>17. Readable(f)
  <2>1. N + 1 \in 1..(N + 1) /\ (N + 1) - 1 = N /\ 1..N \subseteq 1..(N + 1)
    BY <1>5
  <2>2. f.alignment \in {1, 2, Alignment}
    BY <1>10 DEF Alignment
  <2>3. \A i \in DOMAIN f.tensors : f.tensors[i].offset = Before(f.tensors, f.alignment, i)
    <3> HIDE DEF f, N, ts
    <3> QED
        BY <1>10, <1>12, <1>14, <2>1
  <2>4. DataStart(f) + Before(f.tensors, f.alignment, Len(f.tensors) + 1) = f.length
    <3> HIDE DEF f, N, ts, head
    <3> QED
        BY <1>10, <1>12, <1>14, <1>15, <1>16, <2>1
  <2> QED
    BY <2>2, <2>3, <2>4 DEF Readable
<1>18. Grown([i \in 1..head |-> <<0, 0>>], FlattenSeq(R), units)
  <2> DEFINE Hd == [i \in 1..head |-> <<0, 0>>]
             Q == FlattenSeq(R)
  <2>1. units = Hd \o Q
    <3>1. ASSUME NEW k \in 1..n
          PROVE  C[k] = [i \in DOMAIN shards[k].tensors |-> Cell(k, i)]
        BY <1>2
    <3>2. R = [k \in DOMAIN shards |->
                  FlattenSeq([i \in DOMAIN shards[k].tensors |-> Cell(k, i)])]
        BY <1>1, <3>1
    <3>3. units = [i \in 1..head |-> <<0, 0>>] \o
              FlattenSeq([k \in DOMAIN shards |->
                  FlattenSeq([i \in DOMAIN shards[k].tensors |-> Cell(k, i)])])
        BY DEF Written, Alignment
    <3> QED
        BY <3>2, <3>3
  <2>2. Hd \in Seq(Y)
    <3> HIDE DEF head
    <3> QED
        BY <1>15
  <2>3. Q \in Seq(Y)
    BY <1>9
  <2> HIDE DEF Hd, Q, Y, units
  <2>4. Joined(Hd, Q, units)
    BY <2>1 DEF Joined
  <2>5. Grown(Hd, Q, units)
    BY ONLY <2>2, <2>3, <2>4, JoinedAt
  <2> QED
    BY <2>5 DEF Hd, Q
<1>19. Len(units) = f.length
  <2>1. Len([i \in 1..head |-> <<0, 0>>]) = head
    <3> HIDE DEF head
    <3> QED
        BY <1>15
  <2> HIDE DEF units, f, head, R, N
  <2> QED
    BY <1>9, <1>16, <1>18, <2>1 DEF Grown
<1>20. ASSUME NEW k \in DOMAIN shards, NEW i \in DOMAIN shards[k].tensors
       PROVE  LET t == shards[k].tensors[i] IN
              \E m \in DOMAIN f.tensors :
                 /\ f.tensors[m].name = t.name
                 /\ \A j \in 1..t.size :
                      units[DataStart(f) + f.tensors[m].offset + j]
                          = <<k, DataStart(shards[k]) + t.offset + j>>
  <2> DEFINE t == shards[k].tensors[i]
             b == Len(F[k - 1])
             m == b + i
             l == Len(T[k])
             Q == FlattenSeq(R)
             Hd == [x \in 1..head |-> <<0, 0>>]
  <2>1. k \in 1..n /\ i \in 1..l /\ T[k] = shards[k].tensors /\ T[k][i] = t /\ t \in X
        /\ n \in k..n
    BY <1>1, <1>2
  <2>2. Kept(F, T, k, i, n)
    <3> HIDE DEF T, n, X
    <3> QED
        BY <1>1, <1>3, <1>4, <2>1, PartAt
  <2>3. m \in 1..N /\ ts[m] = t
    <3> HIDE DEF T, ts, t
    <3> QED
        BY <1>4, <2>1, <2>2 DEF Kept
  <2>4. b \in Nat /\ i \in Nat /\ m - 1 = b + (i - 1)
    <3>1. Grown(F[k - 1], T[k], F[k])
      <4> HIDE DEF T, n, X
      <4> QED
        BY <1>1, <1>3, <1>4, <2>1, PartStep
    <3>2. b \in Nat
        BY <3>1 DEF Grown
    <3> HIDE DEF b, l
    <3> QED
        BY <3>2, <2>1
  <2>5. m \in DOMAIN f.tensors /\ f.tensors[m].name = t.name /\ f.tensors[m].offset = B[m - 1]
    <3> HIDE DEF m, f, N, ts, t
    <3> QED
        BY <1>12, <2>3
  <2>6. ASSUME NEW j \in 1..t.size
        PROVE  units[DataStart(f) + B[m - 1] + j] = <<k, DataStart(shards[k]) + t.offset + j>>
    <3> DEFINE a == Aligned(t.size, 4)
               at == B[b + (i - 1)] + j
    <3>1. t.size \in Nat /\ a \in Nat /\ j \in 1..a /\ j <= t.size
      <4>1. t.size \in Nat
        BY <2>1 DEF Tensors
      <4> DEFINE s == t.size
      <4>2. s \in Nat /\ j \in 1..s
        BY <4>1
      <4>3. Aligned(s, 4) \in Nat /\ j \in 1..Aligned(s, 4) /\ j <= s
        <5> HIDE DEF s
        <5> QED
          <6>1. Aligned(s, 4) \in Nat /\ s <= Aligned(s, 4)
            BY <4>2, AlignedFits
          <6> QED
            BY <4>2, <6>1
      <4> QED
        BY <4>1, <4>3
    <3>2. C[k][i] = [x \in 1..a |-> IF x <= t.size
                                   THEN <<k, DataStart(shards[k]) + t.offset + x>> ELSE <<0, 0>>]
        BY <2>1
    <3>3. j \in 1..Len(C[k][i]) /\ C[k][i][j] = <<k, DataStart(shards[k]) + t.offset + j>>
      <4> HIDE DEF C, t, a
      <4> QED
        BY <3>1, <3>2
    <3>4. at \in 1..Len(Q) /\ Q[at] = C[k][i][j]
      <4> HIDE DEF C, t, Q, T, n
      <4> QED
        BY <1>9, <2>1, <3>3 DEF Placed, Q
    <3>5. units[head + at] = Q[at]
      <4>1. Len(Hd) = head
        <5> HIDE DEF head
        <5> QED
            BY <1>15
      <4>2. Grown(Hd, Q, units)
        BY <1>18
      <4> HIDE DEF Hd, Q, units, head, at
      <4> QED
        BY <3>4, <4>1, <4>2 DEF Grown
    <3>6. DataStart(f) + B[m - 1] + j = head + at
      <4> DEFINE u == B[m - 1]
      <4>1. u \in Nat /\ u = B[b + (i - 1)]
        <5>1. m - 1 \in 0..N
          <6> HIDE DEF m, N
          <6> QED
            BY <1>5, <2>3
        <5>2. B[m - 1] \in Nat
          <6> HIDE DEF m, N
          <6> QED
            BY <1>6, <5>1 DEF Adds
        <5> QED
            BY <5>2, <2>4
      <4>2. j \in Int
        BY <3>1
      <4>3. DataStart(f) + u + j = head + (u + j)
        <5> HIDE DEF u, f, head
        <5> QED
            BY <1>15, <4>1, <4>2
      <4> QED
        BY <4>1, <4>3
    <3> QED
        BY <3>3, <3>4, <3>5, <3>6
  <2> QED
    BY <2>5, <2>6
<1> QED
    BY <1>17, <1>19, <1>20

-----------------------------------------------------------------------------
(* Reading on *)

LEMMA MinOfTwo ==
    ASSUME NEW a \in Nat, NEW b \in Nat
    PROVE  Min({a, b}) = IF a <= b THEN a ELSE b
BY DEF Min

More == {NoMore} \cup [valid : {TRUE}, next : Nat, raw : BOOLEAN]
Sessions == [more : More, from : Nat \ {0}, seen : Seq(Nat), cleared : BOOLEAN]

Numbered(lines, from) == \A i \in 1..Len(lines) : lines[i] = from + i - 1

\* What a read answers that begins at line start: the lines from there, each
\* once, and more to read exactly when a line is left.
Shows(r, file, start) ==
    /\ r.more \in More
    /\ r.shown \in Seq(Nat) /\ Numbered(r.shown, start)
    /\ start <= Len(file) => Len(r.shown) > 0
    /\ r.more.valid => r.more.next = start + Len(r.shown) /\ r.more.next <= Len(file)
    /\ Len(r.shown) > 0 => (r.more.valid <=> start + Len(r.shown) <= Len(file))

LEMMA ReadRangeShows ==
    ASSUME NEW file \in Seq(Nat), NEW start \in Nat \ {0}, NEW max \in Nat \ {0},
           NEW raw \in BOOLEAN, NEW limit, ReadRange(file, start, max, raw, limit).ok
    PROVE  Shows(ReadRange(file, start, max, raw, limit), file, start)
<1> DEFINE last == Min({start + max - 1, Len(file)})
           looked == SubSeq(file, 1, Min({start + max, Len(file)}))
           wanted == SubSeq(file, start, last)
           shown == [i \in 1..Len(wanted) |-> start + i - 1]
           more == IF start + max <= Len(file) THEN [valid |-> TRUE, next |-> start + Len(wanted), raw |-> raw]
                   ELSE NoMore
           bad == Range(looked) \cap {Nul, Huge} # {} \/ Bytes(wanted, raw) > limit
           r == [ok |-> TRUE, shown |-> shown, more |-> more]
<1>1. ReadRange(file, start, max, raw, limit) = r
  <2>1. ReadRange(file, start, max, raw, limit) = IF bad THEN Refused(FALSE) ELSE r
    BY DEF ReadRange
  <2>2. ~Refused(FALSE).ok
    BY DEF Refused
  <2> HIDE DEF bad, r
  <2> QED
    BY <2>1, <2>2
<1> HIDE DEF bad
<1>2. last = IF start + max - 1 <= Len(file) THEN start + max - 1 ELSE Len(file)
    BY MinOfTwo
<1>3. last \in Nat /\ last <= Len(file)
    BY <1>2
<1>4. Len(wanted) = IF start <= last THEN last - start + 1 ELSE 0
  <2> HIDE DEF last
  <2> QED
    BY <1>3
<1> DEFINE n == Len(wanted)
<1> HIDE DEF last, wanted
<1>5. n \in Nat
    BY <1>3, <1>4
<1>6. shown \in Seq(Nat) /\ Len(shown) = n /\ \A i \in 1..n : shown[i] = start + i - 1
    BY <1>5
<1>7. start <= Len(file) => n > 0
    BY <1>2, <1>4
<1>8. more.valid <=> start + max <= Len(file)
    BY DEF NoMore
<1>9. start + max <= Len(file) => more.next = start + n /\ n = max
    BY <1>2, <1>4
<1>10. n > 0 => (start + max <= Len(file) <=> start + n <= Len(file))
    BY <1>2, <1>4
<1>12. more \in More
    BY <1>5 DEF More
<1>11. r.shown = shown /\ r.more = more
    OBVIOUS
<1> HIDE DEF n, shown, more, r
<1> QED
    BY <1>1, <1>5, <1>6, <1>7, <1>8, <1>9, <1>10, <1>11, <1>12 DEF Shows, Numbered

LEMMA ReadWholeShows ==
    ASSUME NEW file \in Seq(Nat), NEW raw \in BOOLEAN, NEW limit, ReadWhole(file, raw, limit).ok
    PROVE  Shows(ReadWhole(file, raw, limit), file, 1)
<1> DEFINE shown == [i \in 1..Len(file) |-> i]
           bad == Range(file) \cap {Nul, Huge} # {} \/ Bytes(file, TRUE) > limit
           long == ~raw /\ Heading + Bytes(file, FALSE) > limit
           r == [ok |-> TRUE, shown |-> shown, more |-> NoMore]
<1>1. ReadWhole(file, raw, limit) = r
  <2>1. ReadWhole(file, raw, limit) = IF bad THEN Refused(FALSE) ELSE IF long THEN Refused(TRUE) ELSE r
    BY DEF ReadWhole
  <2>2. ~Refused(FALSE).ok /\ ~Refused(TRUE).ok
    BY DEF Refused
  <2> HIDE DEF bad, long, r
  <2> QED
    BY <2>1, <2>2
<1>2. shown \in Seq(Nat) /\ Len(shown) = Len(file) /\ \A i \in 1..Len(file) : shown[i] = 1 + i - 1
    OBVIOUS
<1>3. r.shown = shown /\ r.more = NoMore /\ ~NoMore.valid
    BY DEF NoMore
<1>4. NoMore \in More
    BY DEF More
<1> HIDE DEF shown, r
<1> QED
    BY <1>1, <1>2, <1>3, <1>4 DEF Shows, Numbered

\* What holds of a session after every call.
Reading(s, file) ==
    /\ s \in Sessions
    /\ Numbered(s.seen, s.from)
    /\ s.more.valid => s.more.next = s.from + Len(s.seen) /\ s.more.next <= Len(file)
    /\ Len(s.seen) > 0 => (s.more.valid <=> s.from + Len(s.seen) <= Len(file) /\ ~s.cleared)

\* A read from the start, or from where the lines seen end.
LEMMA AnsweredReads ==
    ASSUME NEW file \in Seq(Nat), NEW s, Reading(s, file), NEW from \in Nat \ {0},
           NEW seen \in Seq(Nat), Numbered(seen, from),
           NEW start, start = from + Len(seen), Len(seen) > 0 => start <= Len(file),
           NEW r, r.ok => Shows(r, file, start)
    PROVE  Reading(Answered(s, from, seen, r), file)
<1> DEFINE a == Answered(s, from, seen, r)
           all == seen \o r.shown
<1>1. CASE ~r.ok /\ ~r.clears
    BY <1>1 DEF Answered
<1>3. CASE ~r.ok /\ r.clears
  <2>1. a = [more |-> NoMore, from |-> s.from, seen |-> s.seen, cleared |-> TRUE]
    BY <1>3 DEF Answered, Reading, Sessions
  <2>2. NoMore \in More /\ ~NoMore.valid
    BY DEF More, NoMore
  <2>3. a \in Sessions
    BY <2>1, <2>2 DEF Reading, Sessions
  <2>4. a.more = NoMore /\ a.from = s.from /\ a.seen = s.seen /\ a.cleared
    BY <2>1
  <2> HIDE DEF a
  <2> QED
    BY <2>2, <2>3, <2>4 DEF Reading, a
<1>2. CASE r.ok
  <2>1. a.more = r.more /\ a.from = from /\ a.seen = all /\ ~a.cleared
    BY <1>2 DEF Answered
  <2>2. r.shown \in Seq(Nat) /\ r.more \in More /\ Shows(r, file, start)
    BY <1>2 DEF Shows
  <2>3. all \in Seq(Nat) /\ Len(all) = Len(seen) + Len(r.shown)
    BY <2>2
  <2>4. ASSUME NEW i \in 1..Len(all) PROVE all[i] = from + i - 1
    <3>1. CASE i <= Len(seen)
        BY <2>2, <3>1 DEF Numbered
    <3>2. CASE i > Len(seen)
      <4> DEFINE k == i - Len(seen)
                 x == r.shown
      <4>1. k \in 1..Len(x)
        BY <2>2, <2>3, <3>2
      <4>2. all[i] = x[k]
        BY <2>2, <2>3, <3>2
      <4>3. x[k] = start + k - 1
        <5> HIDE DEF k
        <5> QED
            BY <2>2, <4>1 DEF Shows, Numbered
      <4> QED
        BY <4>2, <4>3
    <3> QED
        BY <3>1, <3>2
  <2> DEFINE n == Len(seen)
             m == Len(r.shown)
             l == Len(all)
             e == Len(file)
  <2>5. n \in Nat /\ m \in Nat /\ l = n + m /\ e \in Nat
    BY <2>2, <2>3
  <2>6. r.more.valid => r.more.next = (from + n) + m /\ r.more.next <= e
    BY <2>2 DEF Shows
  <2>7. m > 0 => (r.more.valid <=> (from + n) + m <= e)
    BY <2>2 DEF Shows
  <2>8. from + n <= e => m > 0
    BY <2>2 DEF Shows
  <2>9. n > 0 => from + n <= e
    OBVIOUS
  <2>10. (from + n) + m = from + l
    <3> HIDE DEF n, m, l, e
    <3> QED
        BY <2>5
  <2>11. l > 0 => (r.more.valid <=> from + l <= e)
    <3> HIDE DEF n, m, l, e
    <3> QED
        BY <2>5, <2>7, <2>8, <2>9, <2>10
  <2>12. r.more.valid => r.more.next = from + l /\ r.more.next <= e
    BY <2>6, <2>10
  <2>13. a \in Sessions
    <3>1. a = [more |-> r.more, from |-> from, seen |-> all, cleared |-> FALSE]
        BY <1>2 DEF Answered
    <3> QED
        BY <3>1, <2>2, <2>3 DEF Sessions
  <2> HIDE DEF a, all
  <2> QED
    BY <2>1, <2>3, <2>4, <2>11, <2>12, <2>13 DEF Reading, Numbered, a
<1> QED
    BY <1>1, <1>2, <1>3

\* The calls of the tools, with the counts and starts that clampInt lets pass.
CallsOfTools ==
    [tool : {"more"}, count : Nat \ {0}]
    \cup [tool : {"read"}, start : Nat \ {0}, count : Nat \ {0}, raw : BOOLEAN]
    \cup [tool : {"whole"}, raw : BOOLEAN]

LEMMA CalledReads ==
    ASSUME NEW file \in Seq(Nat), NEW limit, NEW s, Reading(s, file), NEW c \in CallsOfTools
    PROVE  Reading(Called(s, c, file, limit), file)
<1>0. c.tool \in {"more", "read", "whole"}
    BY DEF CallsOfTools
<1>1. CASE c.tool = "more"
  <2>1. c.count \in Nat \ {0}
    BY <1>1 DEF CallsOfTools
  <2>2. CASE ~s.more.valid
    BY <1>1, <2>2 DEF Called
  <2>3. CASE s.more.valid
    <3> DEFINE from == s.from
               seen == s.seen
               start == from + Len(seen)
               raw == s.more.raw
               r == ReadRange(file, s.more.next, c.count, raw, limit)
    <3>1. Called(s, c, file, limit) = Answered(s, from, seen, r)
        BY <1>1, <2>3 DEF Called
    <3>2. from \in Nat \ {0} /\ seen \in Seq(Nat) /\ Numbered(seen, from)
        BY DEF Reading, Sessions
    <3>3. s.more.next = start /\ start <= Len(file)
        BY <2>3 DEF Reading
    <3>4. start \in Nat \ {0}
        BY <3>2
    <3>6. raw \in BOOLEAN
      <4>1. s.more \in More /\ s.more # NoMore
        BY <2>3 DEF Reading, Sessions, NoMore
      <4> QED
        BY <4>1 DEF More
    <3>5. r.ok => Shows(r, file, start)
      <4> HIDE DEF start, raw
      <4> QED
        BY <2>1, <3>3, <3>4, <3>6, ReadRangeShows
    <3> HIDE DEF from, seen, r
    <3> QED
        BY <3>1, <3>2, <3>3, <3>5, AnsweredReads
  <2> QED
    BY <2>2, <2>3
<1>2. ASSUME NEW from \in Nat \ {0}, NEW r, r.ok => Shows(r, file, from)
      PROVE  Reading(Answered(s, from, <<>>, r), file)
  <2> DEFINE seen == <<>>
  <2>1. seen \in Seq(Nat) /\ Len(seen) = 0 /\ 1..Len(seen) = {} /\ from = from + Len(seen)
    OBVIOUS
  <2>c. Numbered(seen, from)
    BY <2>1 DEF Numbered
  <2>d. Len(seen) > 0 => from <= Len(file)
    BY <2>1
  <2> HIDE DEF seen
  <2>2. Reading(Answered(s, from, seen, r), file)
    BY <1>2, <2>c, <2>d, <2>1, AnsweredReads
  <2> QED
    BY <2>2 DEF seen
<1>3. CASE c.tool = "read"
  <2>1. c.count \in Nat \ {0} /\ c.start \in Nat \ {0} /\ c.raw \in BOOLEAN
    BY <1>3 DEF CallsOfTools
  <2> DEFINE r == ReadRange(file, c.start, c.count, c.raw, limit)
  <2>2. Called(s, c, file, limit) = Answered(s, c.start, <<>>, r)
    BY <1>3 DEF Called
  <2>3. r.ok => Shows(r, file, c.start)
    BY <2>1, ReadRangeShows
  <2> HIDE DEF r
  <2> QED
    BY <2>1, <2>2, <2>3, <1>2
<1>4. CASE c.tool = "whole"
  <2> DEFINE r == ReadWhole(file, c.raw, limit)
  <2>2. Called(s, c, file, limit) = Answered(s, 1, <<>>, r)
    BY <1>4 DEF Called
  <2>1. c.raw \in BOOLEAN
    BY <1>4 DEF CallsOfTools
  <2>3. r.ok => Shows(r, file, 1)
    BY <2>1, ReadWholeShows
  <2> HIDE DEF r
  <2> QED
    BY <2>2, <2>3, <1>2
<1> QED
    BY <1>0, <1>1, <1>3, <1>4

\* Whatever every call keeps holds of the session after all of them.
LEMMA SessionsAfterIn ==
    ASSUME NEW file, NEW limit, NEW calls, NEW n \in Nat, n = Len(calls), NEW X, Fresh \in X,
           \A i \in 1..n, s \in X : Called(s, calls[i], file, limit) \in X
    PROVE  SessionsAfter(file, calls, limit)[n] \in X
<1> DEFINE steps == [i \in 1..n |-> [s \in X |-> Called(s, calls[i], file, limit)]]
           S == SessionsAfter(file, calls, limit)
           Is(f) == f = [k \in 0..n |-> IF k = 0 THEN Fresh ELSE Called(f[k - 1], calls[k], file, limit)]
<1>1. Steps(steps, n, X)
    BY DEF Steps
<1>2. PICK f \in [0..n -> X] : f[0] = Fresh /\ \A i \in 1..n : f[i] = steps[i][f[i - 1]]
  <2> HIDE DEF steps
  <2> QED
    BY <1>1, Recursion
<1>3. Is(f)
  <2>1. ASSUME NEW k \in 0..n, k # 0 PROVE f[k] = Called(f[k - 1], calls[k], file, limit)
    <3>1. k \in 1..n /\ k - 1 \in 0..n
        BY <2>1
    <3>2. f[k - 1] \in X
        BY <3>1
    <3> QED
        BY <3>1, <3>2, <1>2
  <2> QED
    BY <2>1, <1>2
<1>4. Is(S)
  <2>1. S = CHOOSE g : Is(g)
    BY DEF SessionsAfter
  <2> HIDE DEF Is, S
  <2> QED
    BY <1>3, <2>1
<1> HIDE DEF S
<1> DEFINE P == {k \in 0..n : S[k] \in X}
<1>5. 0 \in P
    BY <1>4
<1>6. ASSUME NEW k \in 0..(n - 1), k \in P PROVE k + 1 \in P
  <2>1. k + 1 \in 1..n /\ k + 1 \in 0..n /\ (k + 1) - 1 = k /\ k + 1 # 0
    OBVIOUS
  <2>2. S[k + 1] = Called(S[k], calls[k + 1], file, limit)
    BY <1>4, <2>1
  <2> QED
    BY <1>6, <2>1, <2>2
<1>7. 0..n \subseteq P
  <2> HIDE DEF P
  <2> QED
    BY <1>5, <1>6, Induction
<1> QED
    BY <1>7 DEF S

\* However the calls of more cut a file up, and whichever of them fail, they show
\* each line from the start once and in order, and more is there to call as long
\* as a line is left, but after a whole read that was refused late
\* (workspacetool/read.go): for every file, every limit and every sequence of calls.
THEOREM ReadsOnTheorem ==
    ASSUME NEW file \in Seq(Nat), NEW limit, NEW calls \in Seq(CallsOfTools)
    PROVE  ReadsOn(file, calls, limit)
<1> DEFINE n == Len(calls)
           X == {s \in Sessions : Reading(s, file)}
           session == SessionsAfter(file, calls, limit)[n]
<1>1. Fresh \in X
  <2>1. Fresh.more = NoMore /\ Fresh.from = 1 /\ Fresh.seen = <<>> /\ ~NoMore.valid /\ NoMore \in More
    BY DEF Fresh, NoMore, More
  <2>2. Fresh \in Sessions
    BY <2>1 DEF Fresh, Sessions
  <2>3. Len(Fresh.seen) = 0 /\ 1..Len(Fresh.seen) = {}
    BY <2>1
  <2> QED
    BY <2>1, <2>2, <2>3 DEF Reading, Numbered
<1>2. ASSUME NEW i \in 1..n, NEW s \in X PROVE Called(s, calls[i], file, limit) \in X
  <2>1. calls[i] \in CallsOfTools /\ Reading(s, file)
    OBVIOUS
  <2>2. Reading(Called(s, calls[i], file, limit), file)
    BY <2>1, CalledReads
  <2> QED
    BY <2>2 DEF Reading
<1>3. session \in X
  <2>1. n \in Nat /\ n = Len(calls)
    OBVIOUS
  <2> HIDE DEF n, X
  <2> QED
    BY <2>1, <1>1, <1>2, SessionsAfterIn
<1>4. Reading(session, file)
    BY <1>3
<1> HIDE DEF X, session
<1>5. session.seen \in Seq(Nat)
    BY <1>4 DEF Reading, Sessions
<1>6. DOMAIN session.seen = 1..Len(session.seen) /\ (session.seen # <<>> => Len(session.seen) > 0)
    BY <1>5
<1> QED
    BY <1>4, <1>6 DEF Reading, Numbered, ReadsOn, session

-----------------------------------------------------------------------------
(* Editing *)

\* Where a needle occurs after some place is where it occurs from there on.
LEMMA SubSeqAfter ==
    ASSUME NEW X, NEW text \in Seq(X), NEW c \in 0..Len(text), NEW r \in Nat, NEW k \in Nat,
           c + r + k <= Len(text)
    PROVE  /\ Len(Past(text, c)) = Len(text) - c
           /\ SubSeq(Past(text, c), r + 1, r + k) = SubSeq(text, c + r + 1, c + r + k)
<1> DEFINE a == Past(text, c)
           u == SubSeq(a, r + 1, r + k)
           v == SubSeq(text, c + r + 1, c + r + k)
<1>1. a \in Seq(X) /\ Len(a) = Len(text) - c /\ \A i \in 1..Len(a) : a[i] = text[c + i]
    BY DEF Past
<1>2. v \in Seq(X) /\ Len(v) = k /\ \A i \in 1..k : v[i] = text[c + r + i]
    OBVIOUS
<1> HIDE DEF a
<1>3. u \in Seq(X) /\ Len(u) = k /\ \A i \in 1..k : u[i] = a[r + i]
    BY <1>1
<1>4. ASSUME NEW i \in 1..k PROVE u[i] = v[i]
  <2>1. r + i \in 1..Len(a) /\ c + (r + i) = c + r + i
    BY <1>1
  <2>2. a[r + i] = text[c + (r + i)]
    BY <1>1, <2>1
  <2> QED
    BY <1>2, <1>3, <2>1, <2>2
<1> HIDE DEF u, v
<1>5. u = v
    BY <1>2, <1>3, <1>4
<1> QED
    BY <1>1, <1>5 DEF a, u, v

Shifted(P, Q, c) == \A r : r \in Q <=> r \in Nat /\ c + r \in P

LEMMA OccursAfter ==
    ASSUME NEW X, NEW text \in Seq(X), NEW needle \in Seq(X), NEW c \in 0..Len(text)
    PROVE  Shifted(Occurs(text, needle), Occurs(Past(text, c), needle), c)
<1> DEFINE a == Past(text, c)
           k == Len(needle)
           n == Len(text)
<1>0. k \in Nat /\ n \in Nat
    OBVIOUS
<1>1. Len(a) = n - c
    BY DEF Past
<1>2. SUFFICES ASSUME NEW r \in Nat PROVE r \in Occurs(a, needle) <=> c + r \in Occurs(text, needle)
  <2>1. \A r : r \in Occurs(a, needle) => r \in Nat
    BY DEF Occurs
  <2> HIDE DEF a
  <2> QED
    BY <2>1 DEF Shifted, a
<1>3. CASE c + r + k <= n
  <2>1. SubSeq(a, r + 1, r + k) = SubSeq(text, c + r + 1, c + r + k)
    <3>1. k \in Nat /\ c + r + k <= Len(text)
        BY <1>0, <1>3
    <3> HIDE DEF k
    <3> QED
        BY <3>1, SubSeqAfter, ZenonT(40)
  <2>2. r + k <= Len(a) /\ r \in 0..Len(a) /\ c + r \in 0..n
    <3> HIDE DEF a, k, n
    <3> QED
        BY <1>0, <1>1, <1>3
  <2> HIDE DEF a
  <2> QED
    BY <1>3, <2>1, <2>2 DEF Occurs
<1>4. CASE ~(c + r + k <= n)
  <2>1. ~(r + k <= Len(a))
    <3> HIDE DEF a, k, n
    <3> QED
        BY <1>0, <1>1, <1>4
  <2> HIDE DEF a
  <2> QED
    BY <1>4, <2>1 DEF Occurs
<1> QED
    BY <1>3, <1>4

\* What FindUnique finds: the one place there is, and nothing when there is none
\* or when two do not overlap.
Sole(P, p) == P = {p}
Apart(P, k) == \E p, q \in P : p + k <= q

LEMMA FindUniqueFinds ==
    ASSUME NEW X, NEW text \in Seq(X), NEW needle \in Seq(X), NEW p, Sole(Occurs(text, needle), p), needle # <<>>
    PROVE  FindUnique(text, needle) = {p}
<1> DEFINE c == p + Len(needle)
           P == Occurs(text, needle)
           Q == Occurs(Past(text, c), needle)
<1>1. p \in P /\ p \in Nat /\ c \in 0..Len(text) /\ Len(needle) > 0
    BY DEF Sole, Occurs
<1>2. Shifted(P, Q, c)
  <2> HIDE DEF c
  <2> QED
    BY <1>1, OccursAfter
<1>3. Q = {}
  <2> SUFFICES ASSUME NEW r \in Q PROVE FALSE
    OBVIOUS
  <2>1. r \in Nat /\ c + r = p
    BY <1>2 DEF Shifted, Sole
  <2> QED
    BY <1>1, <2>1
<1>4. FindUnique(text, needle) = {x \in P : (\A q \in P : x <= q) /\ Occurs(Past(text, x + Len(needle)), needle) = {}}
    BY DEF FindUnique
<1> HIDE DEF P, Q
<1> QED
    BY <1>1, <1>3, <1>4 DEF Sole, P, Q

LEMMA FindUniqueFails ==
    ASSUME NEW X, NEW text \in Seq(X), NEW needle \in Seq(X),
           Occurs(text, needle) = {} \/ Apart(Occurs(text, needle), Len(needle))
    PROVE  FindUnique(text, needle) = {}
<1> SUFFICES ASSUME NEW x \in FindUnique(text, needle) PROVE FALSE
    OBVIOUS
<1> DEFINE P == Occurs(text, needle)
           k == Len(needle)
           c == x + k
           Q == Occurs(Past(text, c), needle)
<1>1. x \in P /\ (\A q \in P : x <= q) /\ Q = {}
    BY DEF FindUnique
<1>2. PICK p, q \in P : p + k <= q
    BY <1>1 DEF Apart
<1>3. k \in Nat /\ x \in Nat /\ p \in Nat /\ q \in Nat /\ c \in 0..Len(text)
    BY <1>1 DEF Occurs
<1>4. Shifted(P, Q, c)
  <2> HIDE DEF c
  <2> QED
    BY <1>3, OccursAfter
<1>5. q - c \in Nat /\ c + (q - c) = q
  <2> HIDE DEF k, P
  <2> QED
    BY <1>1, <1>2, <1>3
<1>6. q - c \in Q
  <2> HIDE DEF P, Q, c
  <2> QED
    BY <1>2, <1>4, <1>5 DEF Shifted
<1> QED
    BY <1>1, <1>6

FromOn(T, P, e) == T = {t \in P : t >= e}

LEMMA ShiftedShape ==
    ASSUME NEW P, P \subseteq Nat, NEW Q, NEW e \in Nat, Shifted(P, Q, e), NEW k \in Nat,
           NEW T, FromOn(T, P, e)
    PROVE  /\ T = {} => Q = {}
           /\ Apart(T, k) => Apart(Q, k)
           /\ \A t : Sole(T, t) => Sole(Q, t - e)
<1>1. \A r \in Q : r \in Nat /\ e + r \in T
    BY DEF Shifted, FromOn
<1>2. \A t \in T : t \in Nat /\ t - e \in Nat /\ e + (t - e) = t /\ t - e \in Q
    BY DEF Shifted, FromOn
<1>3. T = {} => Q = {}
    BY <1>1
<1>4. ASSUME Apart(T, k) PROVE Apart(Q, k)
  <2>1. PICK t, u \in T : t + k <= u
    BY <1>4 DEF Apart
  <2>2. (t - e) + k <= u - e
    BY <2>1, <1>2
  <2> QED
    BY <2>1, <2>2, <1>2 DEF Apart
<1>5. ASSUME NEW t, Sole(T, t) PROVE Sole(Q, t - e)
  <2>1. t \in T /\ t - e \in Q
    BY <1>2, <1>5 DEF Sole
  <2>2. ASSUME NEW r \in Q PROVE r = t - e
    <3>1. e + r = t /\ r \in Nat
        BY <1>1, <1>5, <2>2 DEF Sole
    <3> QED
        BY <3>1
  <2> QED
    BY <2>1, <2>2 DEF Sole
<1> QED
    BY <1>3, <1>4, <1>5

LEMMA SoleMin ==
    ASSUME NEW P, NEW n \in Nat, P \subseteq 0..n, Cardinality(P) = 1
    PROVE  Sole(P, Min(P))
<1>1. IsFiniteSet(P)
  <2>1. IsFiniteSet(0..n)
    BY FS_Interval
  <2> QED
    BY <2>1, FS_Subset
<1>2. PICK x : P = {x}
    BY <1>1, FS_Singleton
<1>3. x \in Nat
    BY <1>2
<1>4. Min(P) = x
    BY <1>2, <1>3 DEF Min
<1> QED
    BY <1>2, <1>4 DEF Sole

LEMMA EditKeeps ==
    ASSUME NEW data, NEW old, NEW new, old = <<>> \/ FindEditSpan(data, old) = {}
    PROVE  Edit(data, old, new) = data
BY DEF Edit

Span(spans, p, q) == spans = {<<p, q>>}
Replaces(result, data, new, p, q) == result = SubSeq(data, 1, p) \o new \o Past(data, q)

LEMMA EditReplaces ==
    ASSUME NEW data, NEW old, NEW new, old # <<>>,
           NEW p, NEW q, Span(FindEditSpan(data, old), p, q)
    PROVE  Replaces(Edit(data, old, new), data, new, p, q)
<1> DEFINE spans == {<<p, q>>}
           s == CHOOSE s \in spans : TRUE
<1>1. s = <<p, q>> /\ s[1] = p /\ s[2] = q /\ spans # {}
    OBVIOUS
<1> HIDE DEF spans
<1>2. Edit(data, old, new) = SubSeq(data, 1, s[1]) \o new \o Past(data, s[2])
    BY <1>1 DEF Edit, Span, spans
<1> HIDE DEF s
<1> QED
    BY <1>1, <1>2 DEF Replaces

LEMMA MinMaxIn ==
    ASSUME NEW n \in Nat, NEW S, S \subseteq 0..n, S # {}
    PROVE  Min(S) \in S /\ Max(S) \in S
<1>1. \E x \in S : \A y \in S : x <= y
  <2>1. S \subseteq Nat
    OBVIOUS
  <2> QED
    BY <2>1, LeastNat
<1>2. \E x \in S : \A y \in S : x >= y
  <2> DEFINE T == {n - y : y \in S}
  <2>1. T \subseteq Nat /\ T # {}
    <3>1. \A y \in S : n - y \in Nat /\ n - y \in T
        OBVIOUS
    <3> QED
        BY <3>1
  <2>2. PICK z \in T : \A y \in T : z <= y
    <3> HIDE DEF T
    <3> QED
        BY <2>1, LeastNat
  <2>3. PICK x \in S : z = n - x
    BY <2>2
  <2>4. ASSUME NEW y \in S PROVE x >= y
    <3>1. n - y \in T
        OBVIOUS
    <3>2. n - x <= n - y
        BY <2>2, <2>3, <3>1
    <3> QED
        BY <3>2
  <2> QED
    BY <2>4
<1>3. Min(S) \in S
    BY <1>1 DEF Min
<1>4. Max(S) \in S
    BY <1>2 DEF Max
<1> QED
    BY <1>3, <1>4

\* The two halves of a text with a marker are texts.
LEMMA HeadAndTail ==
    ASSUME NEW X, NEW old \in Seq(X), Upto \in Range(old)
    PROVE  HeadOf(old) \in Seq(X) /\ TailOf(old) \in Seq(X)
<1> DEFINE I == {i \in 1..Len(old) : old[i] = Upto}
           k == SelectInSeq(old, LAMBDA x : x = Upto)
<1>1. I # {} /\ I \subseteq 0..Len(old)
    BY DEF Range
<1>2. k = Min(I)
    BY <1>1 DEF SelectInSeq
<1>3. Min(I) \in I
  <2>1. Len(old) \in Nat
    OBVIOUS
  <2> HIDE DEF I
  <2> QED
    BY <1>1, <2>1, MinMaxIn
<1>4. k \in 1..Len(old)
    BY <1>2, <1>3
<1> DEFINE head == HeadOf(old)
           text == Past(old, Len(head) + 1)
<1>5. head = SubSeq(old, 1, k - 1)
    BY DEF HeadOf
<1> HIDE DEF k
<1>6. head \in Seq(X) /\ Len(head) = k - 1
    BY <1>4, <1>5
<1>7. text \in Seq(X)
  <2>1. Len(head) + 1 = k
    BY <1>4, <1>6
  <2> HIDE DEF head
  <2> QED
    BY <1>4, <2>1 DEF Past
<1> DEFINE N == {n \in 0..Len(text) : NewLines(SubSeq(text, 1, n))}
<1>8. Max(N) \in 0..Len(text)
  <2> HIDE DEF text
  <2>1. SubSeq(text, 1, 0) = <<>> /\ 0 \in 0..Len(text) /\ Len(text) \in Nat
    BY <1>7
  <2>2. NewLines(<<>>)
    BY DEF NewLines, Range
  <2>3. N # {} /\ N \subseteq 0..Len(text)
    BY <2>1, <2>2
  <2> HIDE DEF N
  <2> QED
    BY <2>1, <2>3, MinMaxIn
<1>9. TailOf(old) = Past(text, Max(N))
    BY DEF TailOf, TrimLeft
<1>10. Past(text, Max(N)) \in Seq(X)
  <2> HIDE DEF text, N
  <2> QED
    BY <1>7, <1>8 DEF Past
<1> QED
    BY <1>6, <1>9, <1>10

\* "Replace exactly one old text match" (workspacetool/edit.go), for all texts: an
\* edit replaces the text there is just one of, and does nothing when there is none
\* or when there are two that do not overlap, with a marker or without.
THEOREM EditsTheMatchTheorem ==
    ASSUME NEW X, NEW data \in Seq(X), NEW old \in Seq(X), NEW new \in Seq(X)
    PROVE  EditsTheMatch(data, old, new)
<1> DEFINE places == Occurs(data, old)
           result == Edit(data, old, new)
           Replaced(p, n) == SubSeq(data, 1, p) \o new \o Past(data, p + n)
           head == HeadOf(old)
           tail == TailOf(old)
           heads == Occurs(data, head)
           EndOf(h) == h + Len(head)
           tails(h) == {t \in Occurs(data, tail) : t >= EndOf(h)}
           spans == FindEditSpan(data, old)
<1>1. CASE old = <<>>
    BY <1>1, EditKeeps DEF EditsTheMatch
<1>2. CASE old # <<>> /\ Upto \notin Range(old)
  <2>1. spans = {<<p, p + Len(old)>> : p \in FindUnique(data, old)}
    BY <1>2 DEF FindEditSpan
  <2>2. ASSUME Cardinality(places) = 1 PROVE result = Replaced(Min(places), Len(old))
    <3>1. Sole(places, Min(places))
      <4>1. places \subseteq 0..Len(data) /\ Len(data) \in Nat
        BY DEF Occurs
      <4> HIDE DEF places
      <4> QED
        BY <2>2, <4>1, SoleMin
    <3>2. FindUnique(data, old) = {Min(places)}
        BY <1>2, <3>1, FindUniqueFinds
    <3>3. spans = {<<Min(places), Min(places) + Len(old)>>}
        BY <2>1, <3>2
    <3> DEFINE p == Min(places)
               q == p + Len(old)
    <3>4. Span(spans, p, q)
        BY <3>3 DEF Span
    <3> HIDE DEF p, q
    <3>5. Replaces(result, data, new, p, q)
        BY <1>2, <3>4, EditReplaces
    <3> QED
        BY <3>5 DEF Replaces, p, q
  <2>3. ASSUME places = {} \/ Apart(places, Len(old)) PROVE result = data
    <3>1. FindUnique(data, old) = {}
        BY <2>3, FindUniqueFails
    <3>2. spans = {}
        BY <2>1, <3>1
    <3> QED
        BY <3>2, EditKeeps
  <2> HIDE DEF places, result
  <2> QED
    BY <1>2, <2>2, <2>3 DEF EditsTheMatch, Apart, places, result
<1>3. CASE old # <<>> /\ Upto \in Range(old)
  <2> DEFINE bad == Upto \in Range(tail) \/ NewLines(head) \/ NewLines(tail)
             Inner(h) == FindUnique(Past(data, EndOf(h)), tail)
  <2>0. head \in Seq(X) /\ tail \in Seq(X)
    BY <1>3, HeadAndTail
  <2>1. bad => spans = {}
    BY <1>3 DEF FindEditSpan
  <2>2. ~bad => spans = UNION {{<<h, EndOf(h) + t + Len(tail)>> : t \in Inner(h)} : h \in FindUnique(data, head)}
    BY <1>3 DEF FindEditSpan
  <2>3. spans = {} => result = data
    BY EditKeeps
  <2>4. ASSUME Apart(heads, Len(head)) PROVE spans = {}
    <3>1. FindUnique(data, head) = {}
      <4> HIDE DEF head
      <4> QED
        BY <2>0, <2>4, FindUniqueFails
    <3> QED
        BY <2>1, <2>2, <3>1
  <2> HIDE DEF head, tail, spans, result, bad
  <2>a. (bad <=> Upto \in Range(tail) \/ NewLines(head) \/ NewLines(tail)) /\ (~bad => head # <<>> /\ tail # <<>>)
    BY DEF bad, NewLines, Range
  <2>5. ASSUME NEW h \in heads, Cardinality(heads) = 1, ~bad
        PROVE  /\ h \in Nat /\ EndOf(h) \in 0..Len(data) /\ Len(tail) \in Nat
               /\ spans = {<<h, EndOf(h) + t + Len(tail)>> : t \in Inner(h)}
               /\ Shifted(Occurs(data, tail), Occurs(Past(data, EndOf(h)), tail), EndOf(h))
    <3>1. Sole(heads, h)
      <4>1. heads \subseteq 0..Len(data) /\ Len(data) \in Nat
        BY DEF Occurs
      <4>2. Sole(heads, Min(heads))
        <5> HIDE DEF heads
        <5> QED
            BY <2>5, <4>1, SoleMin
      <4> QED
        BY <2>5, <4>2 DEF Sole
    <3>2. h \in Nat /\ EndOf(h) \in 0..Len(data) /\ Len(tail) \in Nat
        BY <2>0 DEF Occurs
    <3>3. FindUnique(data, head) = {h}
        BY <2>0, <2>a, <2>5, <3>1, FindUniqueFinds
    <3>4. spans = {<<h, EndOf(h) + t + Len(tail)>> : t \in Inner(h)}
        BY <2>2, <2>5, <3>3
    <3>5. Shifted(Occurs(data, tail), Occurs(Past(data, EndOf(h)), tail), EndOf(h))
      <4> DEFINE c == EndOf(h)
      <4> HIDE DEF c
      <4> QED
        BY <2>0, <3>2, OccursAfter DEF c
    <3> QED
        BY <3>2, <3>4, <3>5
  <2>6. ASSUME NEW h \in heads, Cardinality(heads) = 1, tails(h) = {} \/ Apart(tails(h), Len(tail))
        PROVE  spans = {}
    <3>1. CASE bad
        BY <2>1, <3>1
    <3>2. CASE ~bad
      <4> DEFINE e == EndOf(h)
                 P == Occurs(data, tail)
                 Q == Occurs(Past(data, e), tail)
                 T == tails(h)
                 a == Past(data, e)
      <4>a. P \subseteq Nat
        BY DEF Occurs
      <4>b. e \in 0..Len(data) /\ Len(tail) \in Nat /\ Shifted(P, Q, e)
        BY <2>5, <2>6, <3>2
      <4>1. /\ P \subseteq Nat /\ e \in Nat /\ e \in 0..Len(data)
            /\ Len(tail) \in Nat /\ Shifted(P, Q, e) /\ FromOn(T, P, e)
        BY <4>a, <4>b DEF FromOn
      <4>c. T = {} \/ Apart(T, Len(tail))
        BY <2>6
      <4> DEFINE k == Len(tail)
      <4>2. Q = {} \/ Apart(Q, Len(tail))
        <5> HIDE DEF P, Q, T, e, k
        <5>1. k \in Nat /\ (T = {} \/ Apart(T, k))
            BY <4>1, <4>c DEF k
        <5>2. (T = {} => Q = {}) /\ (Apart(T, k) => Apart(Q, k))
            BY ONLY <5>1, <4>1, ShiftedShape
        <5> QED
            BY <5>1, <5>2 DEF k
      <4>3. a \in Seq(X)
        <5> HIDE DEF e
        <5> QED
            BY <4>1 DEF Past
      <4>4. FindUnique(a, tail) = {}
        <5> HIDE DEF a
        <5> QED
            BY <2>0, <4>2, <4>3, FindUniqueFails DEF a
      <4>5. Inner(h) = {}
        BY <4>4
      <4> QED
        BY <2>5, <2>6, <3>2, <4>5
    <3> QED
        BY <3>1, <3>2
  <2>7. ASSUME NEW h \in heads, Cardinality(heads) = 1, Cardinality(tails(h)) = 1, ~bad, NEW t \in tails(h)
        PROVE  result = Replaced(h, t + Len(tail) - h)
    <3> DEFINE e == EndOf(h)
               P == Occurs(data, tail)
               a == Past(data, e)
               Q == Occurs(a, tail)
               T == tails(h)
               r == t - e
    <3>a. P \subseteq 0..Len(data)
        BY DEF Occurs
    <3>b. h \in Nat /\ e \in 0..Len(data) /\ Len(tail) \in Nat /\ Shifted(P, Q, e)
        BY <2>5, <2>7
    <3>1. /\ P \subseteq 0..Len(data) /\ e \in Nat /\ e \in 0..Len(data) /\ h \in Nat
          /\ Len(tail) \in Nat /\ Shifted(P, Q, e) /\ FromOn(T, P, e)
        BY <3>a, <3>b DEF FromOn
    <3>2. Sole(T, t)
      <4>1. T \subseteq 0..Len(data) /\ Len(data) \in Nat
        BY <3>1
      <4>2. Sole(T, Min(T))
        <5> HIDE DEF T
        <5> QED
            BY <2>7, <4>1, SoleMin DEF T
      <4> QED
        BY <2>7, <4>2 DEF Sole
    <3>3. Sole(Q, r) /\ t \in Nat /\ t >= e
      <4>1. P \subseteq Nat
        BY <3>1
      <4>2. t \in Nat /\ t >= e
        BY <2>7, <3>1
      <4> HIDE DEF P, Q, T, e, a
      <4> QED
        BY <3>1, <3>2, <4>1, <4>2, ShiftedShape
    <3>4. a \in Seq(X)
      <4> HIDE DEF e
      <4> QED
        BY <3>1 DEF Past
    <3>5. FindUnique(a, tail) = {r}
      <4> HIDE DEF a, r
      <4> QED
        BY <2>0, <2>a, <2>7, <3>3, <3>4, FindUniqueFinds DEF a
    <3>6. spans = {<<h, e + r + Len(tail)>>}
        BY <2>5, <2>7, <3>5
    <3>7. e + r + Len(tail) = h + (t + Len(tail) - h)
      <4> HIDE DEF e
      <4> QED
        BY <3>1, <3>3
    <3>8. spans = {<<h, h + (t + Len(tail) - h)>>}
      <4> HIDE DEF e, r
      <4> QED
        BY <3>6, <3>7
    <3> DEFINE q == h + (t + Len(tail) - h)
    <3>9. Span(spans, h, q)
        BY <3>8 DEF Span
    <3> HIDE DEF q
    <3>10. Replaces(result, data, new, h, q)
        BY <1>3, <3>9, EditReplaces DEF spans, result
    <3> QED
        BY <3>10 DEF Replaces, q
  <2> HIDE DEF heads
  <2> QED
    BY <1>3, <2>1, <2>3, <2>4, <2>6, <2>7, <2>a DEF EditsTheMatch, Apart, head, tail, heads, result
<1> QED
    BY <1>1, <1>2, <1>3

-----------------------------------------------------------------------------
(* The replay store *)

\* Where the entries of a store come from: entry i is call L[i] of the first k, the
\* last one of its id, in their order; and a call whose id is not in a full store
\* is older than all that is in it.
FromCalls(st, L, calls, k, b) ==
    /\ Len(st) \in 0..b
    /\ L \in [1..Len(st) -> 1..k]
    /\ \A i, j \in 1..Len(st) : i < j => L[i] < L[j]
    /\ \A i \in 1..Len(st) : Counts(calls[L[i]]) /\ st[i] = calls[L[i]]
    /\ \A i \in 1..Len(st), j \in 1..k : Counts(calls[j]) /\ calls[j].id = st[i].id => j <= L[i]
    /\ \A j \in 1..k : Counts(calls[j]) =>
          \/ \E i \in 1..Len(st) : st[i].id = calls[j].id
          \/ Len(st) = b /\ \A i \in 1..Len(st) : j < L[i]

\* No id is there twice.
LEMMA IdsApart ==
    ASSUME NEW st, NEW L, NEW calls, NEW k \in Nat, NEW b \in Nat, FromCalls(st, L, calls, k, b),
           NEW i \in 1..Len(st), NEW j \in 1..Len(st), st[i].id = st[j].id
    PROVE  i = j
<1>1. L[i] \in 1..k /\ L[j] \in 1..k /\ Counts(calls[L[i]]) /\ Counts(calls[L[j]])
    BY DEF FromCalls
<1>2. calls[L[i]].id = calls[L[j]].id /\ st[i] = calls[L[i]] /\ st[j] = calls[L[j]]
    BY DEF FromCalls
<1>3. L[i] <= L[j] /\ L[j] <= L[i]
    BY <1>1, <1>2 DEF FromCalls
<1>4. ~(i < j) /\ ~(j < i)
    BY <1>1, <1>3 DEF FromCalls
<1> QED
    BY <1>4 DEF FromCalls

\* One entry, at p, gives way to the call k + 1 at the back: the one of the same id,
\* or the oldest of a full store.
LEMMA EntryGivesWay ==
    ASSUME NEW st, NEW L, NEW calls, NEW k \in Nat, NEW b \in Nat, FromCalls(st, L, calls, k, b),
           Counts(calls[k + 1]), NEW p \in 1..Len(st),
           \/ st[p].id = calls[k + 1].id
           \/ p = 1 /\ Len(st) = b /\ \A i \in 1..Len(st) : st[i].id # calls[k + 1].id,
           NEW new, Len(new) = Len(st),
           \A i \in 1..Len(st) : new[i] = IF i < p THEN st[i] ELSE
                                          IF i < Len(st) THEN st[i + 1] ELSE calls[k + 1]
    PROVE  \E M : FromCalls(new, M, calls, k + 1, b)
<1> DEFINE n == Len(st)
           M == [i \in 1..n |-> IF i < p THEN L[i] ELSE IF i < n THEN L[i + 1] ELSE k + 1]
<1>0. n \in 0..b /\ L \in [1..n -> 1..k]
    BY DEF FromCalls
<1>1. M \in [1..Len(new) -> 1..(k + 1)]
    BY <1>0
<1>2. \A i, j \in 1..n : i < j => L[i] < L[j]
    BY DEF FromCalls
<1>3. ASSUME NEW i \in 1..n, NEW j \in 1..n, i < j PROVE M[i] < M[j]
  <2>1. PICK q \in 1..n : M[i] = L[q] /\ (i < p => q = i) /\ (~(i < p) => q = i + 1)
    <3>1. i + 1 \in 1..n /\ i < n
        BY <1>0, <1>3
    <3> QED
        BY <3>1
  <2>2. CASE j = n
    <3>1. M[j] = k + 1 \/ (j < p /\ M[j] = L[j])
        BY <2>2
    <3>2. L[q] \in 1..k
        BY <1>0
    <3> QED
        BY <1>0, <2>1, <2>2, <3>1, <3>2
  <2>3. CASE j # n
    <3>1. PICK r \in 1..n : M[j] = L[r] /\ (j < p => r = j) /\ (~(j < p) => r = j + 1)
      <4>1. j + 1 \in 1..n /\ j < n
        BY <1>0, <2>3
      <4> QED
        BY <4>1
    <3>2. q < r
        BY <1>0, <1>3, <2>1, <3>1
    <3> QED
        BY <1>2, <2>1, <3>1, <3>2
  <2> QED
    BY <2>2, <2>3
<1>4. ASSUME NEW i \in 1..n PROVE Counts(calls[M[i]]) /\ new[i] = calls[M[i]]
  <2>1. \A j \in 1..n : Counts(calls[L[j]]) /\ st[j] = calls[L[j]]
    BY DEF FromCalls
  <2>2. CASE i < p
    BY <2>1, <2>2
  <2>3. CASE ~(i < p) /\ i < n
    <3>1. i + 1 \in 1..n
        BY <1>0, <2>3
    <3>2. M[i] = L[i + 1] /\ new[i] = st[i + 1]
        BY <2>3
    <3> QED
        BY <2>1, <3>1, <3>2
  <2>4. CASE ~(i < p) /\ ~(i < n)
    BY <2>4
  <2> QED
    BY <2>2, <2>3, <2>4
<1>5. \A i \in 1..n : i # p => st[i].id # calls[k + 1].id
    BY IdsApart, <1>0
\* The entry that stands at i now stood there or one behind.
<1>6. ASSUME NEW i \in 1..n, i # n PROVE \E m \in 1..n : m # p /\ new[i] = st[m] /\ M[i] = L[m]
  <2>1. CASE i < p
    BY <2>1
  <2>2. CASE ~(i < p)
    <3>1. i + 1 \in 1..n /\ i + 1 # p /\ i < n
        BY <1>0, <1>6, <2>2
    <3> QED
        BY <3>1, <2>2
  <2> QED
    BY <2>1, <2>2
<1>7. n \in 1..n /\ new[n] = calls[k + 1] /\ M[n] = k + 1
    BY <1>0
<1>8. ASSUME NEW i \in 1..n, NEW j \in 1..(k + 1), Counts(calls[j]), calls[j].id = new[i].id
      PROVE  j <= M[i]
  <2>1. CASE i = n
    BY <2>1, <1>7
  <2>2. CASE i # n
    <3>1. PICK m \in 1..n : m # p /\ new[i] = st[m] /\ M[i] = L[m]
        BY <1>6, <2>2
    <3>2. j # k + 1
        BY <3>1, <1>5, <1>8
    <3>3. j \in 1..k
        BY <3>2
    <3> QED
        BY <3>1, <3>3, <1>8 DEF FromCalls
  <2> QED
    BY <2>1, <2>2
\* Every entry but the one at p is still there.
<1>9. ASSUME NEW m \in 1..n, m # p PROVE \E i \in 1..n : new[i] = st[m]
  <2>1. CASE m < p
    BY <2>1
  <2>2. CASE ~(m < p)
    <3>1. m - 1 \in 1..n /\ ~(m - 1 < p) /\ m - 1 < n /\ (m - 1) + 1 = m
        BY <1>0, <1>9, <2>2
    <3>2. new[m - 1] = st[m]
        BY <3>1
    <3> QED
        BY <3>1, <3>2
  <2> QED
    BY <2>1, <2>2
<1>10. ASSUME NEW j \in 1..(k + 1), Counts(calls[j])
       PROVE  \/ \E i \in 1..n : new[i].id = calls[j].id
              \/ n = b /\ \A i \in 1..n : j < M[i]
  <2>1. CASE j = k + 1
    BY <2>1, <1>7
  <2>2. CASE j # k + 1 /\ \E m \in 1..n : st[m].id = calls[j].id
    <3>1. PICK m \in 1..n : st[m].id = calls[j].id
        BY <2>2
    <3>2. CASE m # p
      <4>1. PICK i \in 1..n : new[i] = st[m]
        BY <3>2, <1>9
      <4> QED
        BY <3>1, <4>1
    <3>3. CASE m = p /\ st[p].id = calls[k + 1].id
        BY <3>1, <3>3, <1>7
    <3>4. CASE m = p /\ p = 1 /\ n = b
      <4>1. j \in 1..k
        BY <2>2
      <4>2. j <= L[1]
        BY <3>1, <3>4, <4>1, <1>10 DEF FromCalls
      <4>3. ASSUME NEW i \in 1..n PROVE j < M[i]
        <5>1. CASE i = n
            BY <5>1, <1>7, <4>1
        <5>2. CASE i # n
          <6>1. PICK q \in 1..n : q # p /\ M[i] = L[q]
            BY <1>6, <5>2
          <6>2. L[1] < L[q] /\ L[q] \in 1..k /\ L[1] \in 1..k
            BY <6>1, <3>4, <1>2, <1>0
          <6> QED
            BY <6>1, <6>2, <4>2
        <5> QED
            BY <5>1, <5>2
      <4> QED
        BY <4>3, <3>4
    <3> QED
        BY <3>2, <3>3, <3>4
  <2>3. CASE j # k + 1 /\ ~\E m \in 1..n : st[m].id = calls[j].id
    <3>1. j \in 1..k
        BY <2>3
    <3>2. n = b /\ \A i \in 1..n : j < L[i]
        BY <2>3, <3>1, <1>10 DEF FromCalls
    <3>3. ASSUME NEW i \in 1..n PROVE j < M[i]
      <4>1. CASE i = n
        BY <4>1, <1>7, <3>1
      <4>2. CASE i # n
        BY <4>2, <1>6, <3>2
      <4> QED
        BY <4>1, <4>2
    <3> QED
        BY <3>2, <3>3
  <2> QED
    BY <2>1, <2>2, <2>3
<1>11. FromCalls(new, M, calls, k + 1, b)
  <2> HIDE DEF M
  <2> QED
    BY <1>0, <1>1, <1>3, <1>4, <1>8, <1>10 DEF FromCalls
<1> QED
    BY <1>11

\* There is room for one more.
LEMMA EntryComes ==
    ASSUME NEW st, NEW L, NEW calls, NEW k \in Nat, NEW b \in Nat, FromCalls(st, L, calls, k, b),
           Counts(calls[k + 1]), \A i \in 1..Len(st) : st[i].id # calls[k + 1].id, Len(st) < b,
           NEW new, Len(new) = Len(st) + 1,
           \A i \in 1..(Len(st) + 1) : new[i] = IF i = Len(st) + 1 THEN calls[k + 1] ELSE st[i]
    PROVE  \E M : FromCalls(new, M, calls, k + 1, b)
<1> DEFINE n == Len(st)
           M == [i \in 1..(n + 1) |-> IF i = n + 1 THEN k + 1 ELSE L[i]]
<1>0. n \in 0..b /\ L \in [1..n -> 1..k] /\ n + 1 \in 0..b
    BY DEF FromCalls
<1>1. M \in [1..(n + 1) -> 1..(k + 1)]
    BY <1>0
<1>2. \A i \in 1..(n + 1) : i # n + 1 => i \in 1..n /\ M[i] = L[i] /\ new[i] = st[i]
    BY <1>0
<1>3. n + 1 \in 1..(n + 1) /\ M[n + 1] = k + 1 /\ new[n + 1] = calls[k + 1]
    BY <1>0
<1> HIDE DEF M
<1>4. \A i, j \in 1..(n + 1) : i < j => M[i] < M[j]
  <2>1. \A i, j \in 1..n : i < j => L[i] < L[j]
    BY DEF FromCalls
  <2> QED
    BY <1>0, <1>2, <1>3, <2>1
<1>5. ASSUME NEW i \in 1..(n + 1) PROVE Counts(calls[M[i]]) /\ new[i] = calls[M[i]]
  <2>1. CASE i = n + 1
    BY <2>1, <1>3
  <2>2. CASE i # n + 1
    BY <2>2, <1>2 DEF FromCalls
  <2> QED
    BY <2>1, <2>2
<1>6. ASSUME NEW i \in 1..(n + 1), NEW j \in 1..(k + 1), Counts(calls[j]), calls[j].id = new[i].id
      PROVE  j <= M[i]
  <2>1. CASE i = n + 1
    BY <2>1, <1>3
  <2>2. CASE i # n + 1
    <3>1. i \in 1..n /\ M[i] = L[i] /\ new[i] = st[i]
        BY <2>2, <1>2
    <3>2. j # k + 1
        BY <3>1, <1>6
    <3>3. j \in 1..k
        BY <3>2
    <3> QED
        BY <3>1, <3>3, <1>6 DEF FromCalls
  <2> QED
    BY <2>1, <2>2
<1>7. ASSUME NEW j \in 1..(k + 1), Counts(calls[j]) PROVE \E i \in 1..(n + 1) : new[i].id = calls[j].id
  <2>1. CASE j = k + 1
    BY <2>1, <1>3
  <2>2. CASE j # k + 1
    <3>1. j \in 1..k /\ n # b
        BY <2>2, <1>0
    <3>2. PICK i \in 1..n : st[i].id = calls[j].id
        BY <3>1, <1>7 DEF FromCalls
    <3>3. i \in 1..(n + 1) /\ i # n + 1
        BY <1>0
    <3> QED
        BY <3>2, <3>3, <1>2
  <2> QED
    BY <2>1, <2>2
<1>8. FromCalls(new, M, calls, k + 1, b)
  <2> HIDE DEF n
  <2>1. Len(new) = n + 1
    BY DEF n
  <2>2. n + 1 \in 0..b
    BY <1>0
  <2> QED
    BY <2>1, <2>2, <1>1, <1>4, <1>5, <1>6, <1>7 DEF FromCalls
<1> QED
    BY <1>8
\* What Remember makes of a store.
LEMMA RememberIn ==
    ASSUME NEW C, NEW st \in Seq(C), NEW call \in C, NEW maxIDs \in Int
    PROVE  Remember(st, call, maxIDs) \in Seq(C)
<1>1. CASE ~Counts(call)
    BY <1>1 DEF Remember
<1>2. CASE Counts(call) /\ Known(st, call.id)
  <2>1. RemoveAt(st, Place(st, call.id)) \in Seq(C)
    <3>1. Place(st, call.id) \in 1..Len(st)
        BY <1>2 DEF Known, Place
    <3> QED
        BY <3>1 DEF RemoveAt
  <2> QED
    BY <1>2, <2>1 DEF Remember
<1>3. CASE Counts(call) /\ ~Known(st, call.id)
  <2>1. Append(st, call) \in Seq(C) /\ Append(st, call) # <<>>
    BY AppendProperties
  <2>2. Tail(Append(st, call)) \in Seq(C)
    BY <2>1
  <2> QED
    BY <1>3, <2>1, <2>2 DEF Remember
<1> QED
    BY <1>1, <1>2, <1>3

LEMMA StoreAfterIs ==
    ASSUME NEW C, NEW calls, calls \in Seq(C), NEW maxIDs, maxIDs \in Int
    PROVE  /\ StoreAfter(calls, maxIDs)[0] = <<>>
           /\ \A k \in 0..Len(calls) : StoreAfter(calls, maxIDs)[k] \in Seq(C)
           /\ \A k \in 1..Len(calls) :
                StoreAfter(calls, maxIDs)[k] = Remember(StoreAfter(calls, maxIDs)[k - 1], calls[k], maxIDs)
<1>b. <<>> \in Seq(C)
    BY EmptySeq
<1> DEFINE n == Len(calls)
           X == Seq(C)
           e == <<>>
           steps == [i \in 1..n |-> [s \in X |-> Remember(s, calls[i], maxIDs)]]
           S == StoreAfter(calls, maxIDs)
           Is(f) == f = [k \in 0..n |-> IF k = 0 THEN <<>> ELSE Remember(f[k - 1], calls[k], maxIDs)]
<1>a. n \in Nat
    OBVIOUS
<1>0. n \in Nat /\ e \in X /\ e = <<>>
    BY <1>a, <1>b
<1>1. Steps(steps, n, X)
  <2>1. ASSUME NEW i \in 1..n, NEW s \in X PROVE Remember(s, calls[i], maxIDs) \in X
    <3>1. s \in Seq(C) /\ calls[i] \in C
        OBVIOUS
    <3> QED
        BY ONLY <3>1, maxIDs \in Int, RememberIn
  <2> QED
    BY <2>1 DEF Steps
<1>2. \E f \in [0..n -> X] : f[0] = e /\ \A i \in 1..n : f[i] = steps[i][f[i - 1]]
  <2>1. e \in X
    BY <1>0
  <2>2. Len(calls) \in Nat /\ n = Len(calls)
    OBVIOUS
  <2> HIDE DEF steps, X, e, n, S, Is
  <2>3. n \in Nat
    BY <2>2
  <2> QED
    BY ONLY <1>1, <2>1, <2>3, Recursion
<1>3. PICK f \in [0..n -> X] : f[0] = e /\ \A i \in 1..n : f[i] = steps[i][f[i - 1]]
    BY <1>2
<1>4. Is(f)
  <2>1. ASSUME NEW k \in 0..n, k # 0 PROVE f[k] = Remember(f[k - 1], calls[k], maxIDs)
    <3>1. k \in 1..n /\ k - 1 \in 0..n
        BY <2>1
    <3>2. f[k - 1] \in X
        BY <3>1
    <3> QED
        BY <3>1, <3>2, <1>3
  <2> QED
    BY <2>1, <1>3
<1>5. Is(S)
  <2>1. S = CHOOSE g : Is(g)
    BY DEF StoreAfter
  <2> HIDE DEF Is, S
  <2> QED
    BY <1>4, <2>1
<1> HIDE DEF S
<1>6. S[0] = <<>> /\ \A k \in 1..n : S[k] = Remember(S[k - 1], calls[k], maxIDs)
    BY <1>5
<1> DEFINE P == {k \in 0..n : S[k] \in X}
<1>7. 0 \in P
  <2>1. S[0] \in X
    BY <1>b, <1>6
  <2> QED
    BY <1>a, <2>1
<1>8. ASSUME NEW k \in 0..(n - 1), k \in P PROVE k + 1 \in P
  <2>1. k + 1 \in 1..n /\ k + 1 \in 0..n /\ (k + 1) - 1 = k
    OBVIOUS
  <2>2. S[k + 1] = Remember(S[k], calls[k + 1], maxIDs) /\ S[k] \in Seq(C) /\ calls[k + 1] \in C
    BY <1>6, <1>8, <2>1
  <2>3. S[k + 1] \in X
    BY <2>2, RememberIn
  <2> QED
    BY <2>1, <2>3
<1>9. 0..n \subseteq P
  <2> HIDE DEF P, n
  <2> QED
    BY <1>a, <1>7, <1>8, Induction
<1> QED
    BY <1>6, <1>9 DEF S

LEMMA RememberKeeps ==
    ASSUME NEW C, NEW st \in Seq(C), NEW calls \in Seq(C), NEW maxIDs \in Int,
           NEW k \in 0..(Len(calls) - 1), NEW L, FromCalls(st, L, calls, k, Bound(maxIDs))
    PROVE  \E M : FromCalls(Remember(st, calls[k + 1], maxIDs), M, calls, k + 1, Bound(maxIDs))
<1> DEFINE call == calls[k + 1]
           b == Bound(maxIDs)
           n == Len(st)
           new == Remember(st, call, maxIDs)
<1>1. b \in Nat /\ b > 0 /\ k \in Nat /\ call \in C
    BY DEF Bound
<1>2. CASE ~Counts(call)
  <2>1. new = st
    BY <1>2 DEF Remember
  <2>2. L \in [1..n -> 1..(k + 1)]
    BY <1>1 DEF FromCalls
  <2>3. \A j \in 1..(k + 1) : Counts(calls[j]) => j \in 1..k
    BY <1>1, <1>2
  <2>4. FromCalls(st, L, calls, k + 1, b)
    BY <2>2, <2>3 DEF FromCalls
  <2> QED
    BY <2>1, <2>4
<1>3. CASE Counts(call) /\ Known(st, call.id)
  <2> DEFINE p == Place(st, call.id)
             rest == RemoveAt(st, p)
  <2>1. p \in 1..n /\ st[p].id = call.id
    BY <1>3 DEF Known, Place
  <2>2. new = Append(rest, call)
    BY <1>3 DEF Remember
  <2>3. /\ rest \in Seq(C) /\ Len(rest) = n - 1
        /\ \A i \in 1..(n - 1) : rest[i] = IF i < p THEN st[i] ELSE st[i + 1]
    <3> DEFINE front == SubSeq(st, 1, p - 1)
               back == SubSeq(st, p + 1, n)
    <3>1. front \in Seq(C) /\ Len(front) = p - 1 /\ \A i \in 1..(p - 1) : front[i] = st[i]
        BY <2>1
    <3>2. back \in Seq(C) /\ Len(back) = n - p /\ \A i \in 1..(n - p) : back[i] = st[p + i]
        BY <2>1
    <3>3. rest = front \o back
        BY DEF RemoveAt
    <3>0. n \in Nat
        OBVIOUS
    <3> HIDE DEF front, back, rest, p, n, new, b, call
    <3>4. /\ rest \in Seq(C) /\ Len(rest) = n - 1
          /\ \A i \in 1..(n - 1) : rest[i] = IF i <= Len(front) THEN front[i] ELSE back[i - Len(front)]
      <4>1. Len(front) + Len(back) = n - 1
        BY <2>1, <3>0, <3>1, <3>2
      <4>2. /\ rest \in Seq(C) /\ Len(rest) = Len(front) + Len(back)
            /\ \A i \in 1..(Len(front) + Len(back)) :
                  rest[i] = IF i <= Len(front) THEN front[i] ELSE back[i - Len(front)]
        BY ONLY <3>1, <3>2, <3>3, ConcatProperties
      <4> QED
        BY <4>1, <4>2
    <3>5. ASSUME NEW i \in 1..(n - 1) PROVE rest[i] = IF i < p THEN st[i] ELSE st[i + 1]
      <4>1. CASE i < p
        BY <2>1, <3>0, <3>1, <3>4, <4>1
      <4>2. CASE ~(i < p)
        <5>1. i - (p - 1) \in 1..(n - p) /\ p + (i - (p - 1)) = i + 1 /\ ~(i <= p - 1)
            BY <2>1, <3>0, <4>2
        <5> QED
            BY <4>2, <5>1, <3>1, <3>2, <3>4
      <4> QED
        BY <4>1, <4>2
    <3> QED
        BY <3>4, <3>5
  <2> HIDE DEF rest
  <2>4. /\ Len(new) = n
        /\ \A i \in 1..n : new[i] = IF i < p THEN st[i] ELSE IF i < n THEN st[i + 1] ELSE call
    <3>1. Len(new) = n /\ \A i \in 1..n : new[i] = IF i <= n - 1 THEN rest[i] ELSE call
      <4>1. n \in Nat
        OBVIOUS
      <4> HIDE DEF new, p, n, call, b
      <4>2. /\ Len(new) = Len(rest) + 1 /\ new[Len(rest) + 1] = call
            /\ \A i \in 1..Len(rest) : new[i] = rest[i]
        BY <1>1, <2>2, <2>3, AppendProperties
      <4> QED
        BY <4>1, <2>1, <2>3, <4>2
    <3>2. n \in Nat
        OBVIOUS
    <3> HIDE DEF new, p, n, call, b
    <3> QED
        BY <2>1, <2>3, <3>1, <3>2
  <2> HIDE DEF new, p, b, n, call
  <2>5. \E M : FromCalls(new, M, calls, k + 1, b)
    BY <1>1, <1>3, <2>1, <2>4, EntryGivesWay DEF b, n, call
  <2> QED
    BY <2>5 DEF new, b, call
<1>4. CASE Counts(call) /\ ~Known(st, call.id)
  <2> DEFINE all == Append(st, call)
  <2>1. \A i \in 1..n : st[i].id # call.id
    BY <1>4 DEF Known
  <2>2. Len(all) = n + 1 /\ \A i \in 1..(n + 1) : all[i] = IF i = n + 1 THEN call ELSE st[i]
    BY <1>1
  <2>3. new = IF n + 1 > b THEN Tail(all) ELSE all
    BY <1>4, <2>2 DEF Remember
  <2>4. n \in 0..b
    BY DEF FromCalls
  <2>5. CASE n + 1 > b
    <3>1. n = b /\ 1 \in 1..n
        BY <1>1, <2>4, <2>5
    <3>2. Len(new) = n /\ \A i \in 1..n : new[i] = all[i + 1]
      <4>1. all \in Seq(C) /\ all # <<>> /\ new = Tail(all)
        BY SMTT(30), <1>1, <2>3, <2>5
      <4> HIDE DEF all, new, n
      <4>2. n \in Nat
        BY DEF n
      <4> QED
        BY <2>2, <4>1, <4>2
    <3>3. \A i \in 1..n : new[i] = IF i < 1 THEN st[i] ELSE IF i < n THEN st[i + 1] ELSE call
      <4> HIDE DEF all, new, call
      <4> QED
        BY <2>2, <2>4, <3>2
    <3> HIDE DEF new, b, n, call
    <3>4. \E M : FromCalls(new, M, calls, k + 1, b)
        BY <1>1, <1>4, <2>1, <3>1, <3>2, <3>3, EntryGivesWay DEF b, n, call
    <3> QED
        BY <3>4 DEF new, b, call
  <2>6. CASE ~(n + 1 > b)
    <3>1. new = all /\ n < b
        BY <1>1, <2>3, <2>4, <2>6
    <3> HIDE DEF new, b, n, call, all
    <3>2. \E M : FromCalls(new, M, calls, k + 1, b)
        BY <1>1, <1>4, <2>1, <2>2, <3>1, EntryComes DEF b, n, call
    <3> QED
        BY <3>2 DEF new, b, call
  <2> QED
    BY <2>5, <2>6
<1> QED
    BY <1>2, <1>3, <1>4

LEMMA StoreFromCalls ==
    ASSUME NEW C, NEW calls \in Seq(C), NEW maxIDs \in Int
    PROVE  /\ StoreAfter(calls, maxIDs)[Len(calls)] \in Seq(C)
           /\ \E L : FromCalls(StoreAfter(calls, maxIDs)[Len(calls)], L, calls, Len(calls), Bound(maxIDs))
<1> DEFINE n == Len(calls)
           S == StoreAfter(calls, maxIDs)
           b == Bound(maxIDs)
           P == {k \in 0..n : \E L : FromCalls(S[k], L, calls, k, b)}
<1>0. n \in Nat /\ b \in Nat
    BY DEF Bound
<1>1. 0 \in P
  <2>1. S[0] = <<>>
    BY StoreAfterIs
  <2>2. FromCalls(<<>>, <<>>, calls, 0, b)
    BY <1>0 DEF FromCalls
  <2> QED
    BY <1>0, <2>1, <2>2
<1>2. ASSUME NEW k \in 0..(n - 1), k \in P PROVE k + 1 \in P
  <2>1. k + 1 \in 1..n /\ k + 1 \in 0..n /\ (k + 1) - 1 = k /\ k \in 0..n
    OBVIOUS
  <2>2. S[k + 1] = Remember(S[k], calls[k + 1], maxIDs) /\ S[k] \in Seq(C)
    BY <2>1, StoreAfterIs
  <2>3. PICK L : FromCalls(S[k], L, calls, k, b)
    BY <1>2
  <2> HIDE DEF S
  <2>4. \E M : FromCalls(Remember(S[k], calls[k + 1], maxIDs), M, calls, k + 1, b)
    BY <2>2, <2>3, RememberKeeps
  <2> QED
    BY <2>1, <2>2, <2>4
<1>3. 0..n \subseteq P
  <2> HIDE DEF P, n
  <2> QED
    BY <1>0, <1>1, <1>2, Induction
<1>4. S[n] \in Seq(C)
    BY StoreAfterIs
<1> QED
    BY <1>3, <1>4
\* The last call for an id, and that there is none.
LastOf(calls, id, k) ==
    /\ k \in DOMAIN calls /\ Counts(calls[k]) /\ calls[k].id = id
    /\ \A j \in DOMAIN calls : Counts(calls[j]) /\ calls[j].id = id => j <= k

LEMMA LatestIs ==
    ASSUME NEW C, NEW calls \in Seq(C), NEW id
    PROVE  /\ \A k : LastOf(calls, id, k) => Latest(calls, id) = k
           /\ (\A j \in DOMAIN calls : ~(Counts(calls[j]) /\ calls[j].id = id)) => Latest(calls, id) = 0
           /\ Latest(calls, id) > 0 => LastOf(calls, id, Latest(calls, id))
<1> DEFINE given == {k \in DOMAIN calls : Counts(calls[k]) /\ calls[k].id = id}
           top == CHOOSE x \in {0} \cup given : \A y \in {0} \cup given : x >= y
           n == Len(calls)
<1>0. n \in Nat /\ DOMAIN calls = 1..n /\ given \subseteq 1..n
    OBVIOUS
<1>1. Latest(calls, id) = top
    BY DEF Latest, Max
<1>2. ASSUME NEW k, LastOf(calls, id, k) PROVE top = k
  <2>1. k \in given /\ \A y \in given : y <= k
    BY <1>2 DEF LastOf
  <2> HIDE DEF given
  <2>2. k \in {0} \cup given /\ \A y \in {0} \cup given : k >= y
    BY <1>0, <2>1
  <2>3. top \in {0} \cup given /\ \A y \in {0} \cup given : top >= y
    BY <2>2
  <2> HIDE DEF top
  <2> QED
    BY <1>0, <2>1, <2>2, <2>3
<1>3. ASSUME given = {} PROVE top = 0
    BY <1>3
<1>4. ASSUME given # {} PROVE \E k : LastOf(calls, id, k)
  <2> DEFINE behind == {m \in 0..n : n - m \in given}
  <2>1. behind \subseteq Nat /\ behind # {}
    <3>1. PICK k \in given : TRUE
        BY <1>4
    <3> HIDE DEF given
    <3>2. n - k \in 0..n /\ n - (n - k) = k
        BY <1>0, <3>1
    <3>3. n - k \in behind
        BY <3>1, <3>2
    <3> QED
        BY <3>3
  <2> HIDE DEF behind
  <2>2. PICK m \in behind : \A y \in behind : m <= y
    BY <2>1, LeastNat
  <2>3. m \in 0..n /\ n - m \in given
    BY <2>2 DEF behind
  <2>4. ASSUME NEW y \in given PROVE y <= n - m
    <3> HIDE DEF given
    <3>1. n - y \in 0..n /\ n - (n - y) = y
        BY <1>0
    <3>2. n - y \in behind
        BY <3>1 DEF behind
    <3> QED
        BY <1>0, <2>2, <2>3, <3>1, <3>2
  <2>5. LastOf(calls, id, n - m)
    BY <2>3, <2>4 DEF LastOf
  <2> QED
    BY <2>5
<1>5. CASE given = {}
  <2>1. Latest(calls, id) = 0 /\ ~(0 > 0)
    BY <1>1, <1>3, <1>5
  <2>2. ASSUME NEW k, LastOf(calls, id, k) PROVE FALSE
    BY <1>5, <2>2 DEF LastOf
  <2> QED
    BY <2>1, <2>2
<1>6. CASE given # {}
  <2>1. PICK k : LastOf(calls, id, k)
    BY <1>4, <1>6
  <2>2. Latest(calls, id) = k
    BY <1>1, <1>2, <2>1
  <2>3. \A j : LastOf(calls, id, j) => Latest(calls, id) = j
    BY <1>1, <1>2
  <2>4. ~\A j \in DOMAIN calls : ~(Counts(calls[j]) /\ calls[j].id = id)
    BY <1>6
  <2> QED
    BY <2>1, <2>2, <2>3, <2>4
<1> QED
    BY <1>5, <1>6

\* As many ids as there are entries behind an entry.
LEMMA IdsBehind ==
    ASSUME NEW st, NEW L, NEW calls, NEW k \in Nat, NEW b \in Nat, FromCalls(st, L, calls, k, b),
           NEW m \in 0..Len(st), NEW T, T = {st[i].id : i \in (m + 1)..Len(st)}
    PROVE  IsFiniteSet(T) /\ Cardinality(T) = Len(st) - m
<1> DEFINE n == Len(st)
           f == [i \in 1..(n - m) |-> st[m + i].id]
<1>0. n \in Nat /\ n - m \in Nat
    BY DEF FromCalls
<1>1. \A i \in 1..(n - m) : m + i \in (m + 1)..n /\ m + i \in 1..n
    BY <1>0
<1>2. f \in [1..(n - m) -> T]
    BY <1>1
<1>3. \A i, j \in 1..(n - m) : f[i] = f[j] => i = j
  <2> SUFFICES ASSUME NEW i \in 1..(n - m), NEW j \in 1..(n - m), f[i] = f[j] PROVE i = j
    OBVIOUS
  <2>1. st[m + i].id = st[m + j].id
    OBVIOUS
  <2>2. m + i = m + j
    BY <1>1, <2>1, IdsApart
  <2> QED
    BY <1>0, <2>2
<1>4. \A t \in T : \E i \in 1..(n - m) : f[i] = t
  <2> SUFFICES ASSUME NEW t \in T PROVE \E i \in 1..(n - m) : f[i] = t
    OBVIOUS
  <2>1. PICK j \in (m + 1)..n : t = st[j].id
    OBVIOUS
  <2>2. j - m \in 1..(n - m) /\ m + (j - m) = j
    BY <1>0
  <2> QED
    BY <2>1, <2>2
<1>5. f \in Bijection(1..(n - m), T)
  <2> HIDE DEF f, n
  <2> QED
    BY <1>2, <1>3, <1>4 DEF Bijection, Injection, Surjection, IsInjective
<1>6. ExistsBijection(1..(n - m), T)
    BY <1>5 DEF ExistsBijection
<1> QED
    BY <1>0, <1>6, FS_CountingElements, FS_NatBijection

\* What is kept of the calls is what lives.
LEMMA LivesIsKnown ==
    ASSUME NEW C, NEW calls \in Seq(C), NEW maxIDs \in Int, NEW st \in Seq(C), NEW L,
           FromCalls(st, L, calls, Len(calls), Bound(maxIDs)), NEW id
    PROVE  /\ Lives(calls, id, maxIDs) <=> Known(st, id)
           /\ Known(st, id) => st[Place(st, id)].exact = calls[Latest(calls, id)].exact
<1> DEFINE n == Len(st)
           k == Len(calls)
           b == Bound(maxIDs)
<1>0. n \in Nat /\ k \in Nat /\ b \in Nat /\ b > 0 /\ DOMAIN st = 1..n /\ DOMAIN calls = 1..k /\ n <= b
  <2>1. n \in Nat /\ k \in Nat /\ DOMAIN st = 1..n /\ DOMAIN calls = 1..k
    OBVIOUS
  <2>2. b \in Nat /\ b > 0
    BY DEF Bound
  <2>3. n \in 0..b
    BY DEF FromCalls
  <2> QED
    BY <2>1, <2>2, <2>3
<1>1. CASE Known(st, id)
  <2> DEFINE m == Place(st, id)
  <2>1. m \in 1..n /\ st[m].id = id
    BY <1>0, <1>1 DEF Known, Place
  <2> HIDE DEF m
  <2>2. LastOf(calls, id, L[m])
    BY <1>0, <2>1 DEF LastOf, FromCalls
  <2>3. Latest(calls, id) = L[m] /\ L[m] \in 1..k /\ st[m] = calls[L[m]]
    BY <2>1, <2>2, LatestIs DEF FromCalls
  <2>4. Since(calls, L[m]) = {st[i].id : i \in (m + 1)..n}
    <3>1. ASSUME NEW j \in 1..k, Counts(calls[j]), j > L[m]
          PROVE  \E i \in (m + 1)..n : st[i].id = calls[j].id
      <4>1. PICK i \in 1..n : st[i].id = calls[j].id
        <5>1. ~(j < L[m]) /\ m \in 1..n
            BY <2>1, <2>3, <3>1
        <5> QED
            BY <3>1, <5>1 DEF FromCalls
      <4>2. j <= L[i] /\ L[i] \in 1..k
        BY <3>1, <4>1 DEF FromCalls
      <4>3. L[m] < L[i]
        BY <2>3, <3>1, <4>2
      <4>4. i # m /\ ~(i < m)
        BY <2>1, <2>3, <4>2, <4>3 DEF FromCalls
      <4> QED
        BY <1>0, <2>1, <4>1, <4>4
    <3>2. ASSUME NEW i \in (m + 1)..n
          PROVE  L[i] \in 1..k /\ Counts(calls[L[i]]) /\ L[i] > L[m] /\ calls[L[i]].id = st[i].id
      <4>1. i \in 1..n /\ m < i
        BY <1>0, <2>1
      <4>2. L[m] < L[i] /\ L[i] \in 1..k /\ L[m] \in 1..k
        BY <2>1, <4>1 DEF FromCalls
      <4> QED
        BY <4>1, <4>2 DEF FromCalls
    <3> QED
        BY SMTT(30), <1>0, <3>1, <3>2 DEF Since
  <2>5. Cardinality(Since(calls, L[m])) = n - m
    <3> DEFINE T == {st[i].id : i \in (m + 1)..n}
    <3>1. m \in 0..n /\ FromCalls(st, L, calls, k, b)
        BY <1>0, <2>1
    <3> HIDE DEF T, n, k, b
    <3>2. T = {st[i].id : i \in (m + 1)..n}
        BY DEF T
    <3>3. Cardinality(T) = n - m
        BY <1>0, <3>1, <3>2, IdsBehind DEF n
    <3> QED
        BY <2>4, <3>2, <3>3
  <2>6. n - m < b
    BY <1>0, <2>1
  <2> QED
    BY <1>0, <1>1, <2>3, <2>5, <2>6 DEF Lives, m
<1>2. CASE ~Known(st, id)
  <2> SUFFICES ASSUME Lives(calls, id, maxIDs) PROVE FALSE
    BY <1>2
  <2> DEFINE t == Latest(calls, id)
  <2>1. LastOf(calls, id, t)
    BY LatestIs DEF Lives
  <2> HIDE DEF t
  <2>2. t \in 1..k /\ Counts(calls[t]) /\ calls[t].id = id
    BY <1>0, <2>1 DEF LastOf
  <2>3. n = b /\ \A i \in 1..n : t < L[i]
    BY <1>0, <1>2, <2>2 DEF FromCalls, Known
  <2> DEFINE T == {st[i].id : i \in (0 + 1)..n}
  <2>4. IsFiniteSet(T) /\ Cardinality(T) = n
    <3>1. 0 \in 0..n /\ n - 0 = n
        BY <1>0
    <3> HIDE DEF T, n
    <3>2. T = {st[i].id : i \in (0 + 1)..n}
        BY DEF T
    <3> QED
        BY <1>0, <3>1, <3>2, IdsBehind DEF n
  <2>5. T \subseteq Since(calls, t)
    <3> SUFFICES ASSUME NEW i \in 1..n PROVE st[i].id \in Since(calls, t)
        BY <1>0
    <3>1. L[i] \in 1..k /\ Counts(calls[L[i]]) /\ st[i] = calls[L[i]]
        BY DEF FromCalls
    <3>2. L[i] > t
        BY <2>2, <2>3, <3>1
    <3> QED
        BY <1>0, <3>1, <3>2 DEF Since
  <2>6. IsFiniteSet(Since(calls, t))
    <3> DEFINE U == {j \in 1..k : Counts(calls[j]) /\ j > t}
               g == [j \in U |-> calls[j].id]
    <3>1. IsFiniteSet(U)
      <4>1. IsFiniteSet(1..k) /\ U \in SUBSET (1..k)
        BY <1>0, FS_Interval
      <4> HIDE DEF U
      <4> QED
        BY <4>1, FS_Subset
    <3>2. g \in Surjection(U, Since(calls, t))
      <4>1. Since(calls, t) = {calls[j].id : j \in U}
        BY <1>0 DEF Since
      <4> HIDE DEF U
      <4> QED
        BY <4>1 DEF Surjection
    <3> HIDE DEF U, g
    <3> QED
        BY <3>1, <3>2, FS_Surjection
  <2>7. Cardinality(T) <= Cardinality(Since(calls, t))
    <3> HIDE DEF T
    <3> QED
        BY <2>5, <2>6, FS_Subset
  <2>8. Cardinality(Since(calls, t)) < b
    BY DEF Lives, t
  <2>9. Cardinality(Since(calls, t)) \in Nat
    BY <2>6, FS_CardinalityType
  <2> HIDE DEF T
  <2> QED
    BY <1>0, <2>3, <2>4, <2>7, <2>8, <2>9
<1> QED
    BY <1>1, <1>2

\* What a history is rendered with is the last block that all its ids were given, as
\* long as fewer than maxIDs others were given one since, and nothing else ever
\* (dsml/replay.go): after any sequence of calls, for any ids and any limit.
THEOREM ReplaysTheLastTheorem ==
    ASSUME NEW Ids, NEW Words,
           NEW calls \in Seq([id : Ids, exact : [text : Words, opened : BOOLEAN, closed : BOOLEAN]]),
           NEW ids \in Seq(Ids), NEW maxIDs \in Int
    PROVE  ReplaysTheLast(calls, ids, maxIDs)
<1> DEFINE C == [id : Ids, exact : [text : Words, opened : BOOLEAN, closed : BOOLEAN]]
           n == Len(calls)
           st == StoreAfter(calls, maxIDs)[n]
           alive == \A i \in DOMAIN ids : Lives(calls, ids[i], maxIDs)
           blocks == {calls[Latest(calls, ids[i])].exact :
                         i \in {i \in DOMAIN ids : Lives(calls, ids[i], maxIDs)}}
           found == {Lookup(st, ids[i]) : i \in DOMAIN ids}
<1>1. st \in Seq(C) /\ \E L : FromCalls(st, L, calls, n, Bound(maxIDs))
    BY StoreFromCalls
<1>2. ASSUME NEW id
      PROVE  /\ Lives(calls, id, maxIDs) => Lookup(st, id) = calls[Latest(calls, id)].exact
             /\ ~Lives(calls, id, maxIDs) => Lookup(st, id) = NoBlock
  <2> HIDE DEF st, n, C
  <2>1. calls \in Seq(C) /\ n = Len(calls)
    BY DEF C, n
  <2> QED
    BY <1>1, <2>1, LivesIsKnown DEF Lookup, n
<1> HIDE DEF st, n, C
<1>3. CASE alive
  <2>1. found = blocks
    BY <1>2, <1>3
  <2>2. ASSUME Cardinality(blocks) = 1 PROVE Lookup(st, ids[1]) = CHOOSE x \in blocks : TRUE
    <3>1. ids # <<>>
      <4>1. ids = <<>> => blocks = {}
        OBVIOUS
      <4>2. Cardinality(blocks) # 0
        BY <2>2
      <4> HIDE DEF blocks
      <4> QED
        BY <4>1, <4>2, FS_EmptySet
    <3>2. 1 \in DOMAIN ids
        BY <3>1
    <3>3. Lookup(st, ids[1]) \in blocks
        BY <2>1, <3>2
    <3>4. IsFiniteSet(blocks)
      <4> DEFINE g == [i \in DOMAIN ids |-> calls[Latest(calls, ids[i])].exact]
      <4>1. IsFiniteSet(DOMAIN ids)
        <5>1. DOMAIN ids = 1..Len(ids) /\ Len(ids) \in Nat
            OBVIOUS
        <5> QED
            BY <5>1, FS_Interval
      <4>2. g \in Surjection(DOMAIN ids, blocks)
        BY <1>3 DEF Surjection
      <4> HIDE DEF g, blocks
      <4> QED
        BY <4>1, <4>2, FS_Surjection
    <3>5. \E x : blocks = {x}
      <4> HIDE DEF blocks
      <4> QED
        BY <2>2, <3>4, FS_Singleton
    <3> HIDE DEF blocks
    <3> QED
        BY <3>3, <3>5
  <2>3. LookupBlock(st, ids) = IF Cardinality(blocks) = 1 THEN Lookup(st, ids[1]) ELSE NoBlock
    BY <2>1 DEF LookupBlock
  <2> QED
    BY <1>3, <2>2, <2>3 DEF ReplaysTheLast, st, n
<1>4. CASE ~alive
  <2>1. PICK i \in DOMAIN ids : ~Lives(calls, ids[i], maxIDs)
    BY <1>4
  <2>2. Lookup(st, ids[i]) = NoBlock /\ NoBlock \in found
    BY <1>2, <2>1
  <2>3. 1 \in DOMAIN ids
    OBVIOUS
  <2>4. Lookup(st, ids[1]) \in found
    BY <2>3
  <2>5. ASSUME Cardinality(found) = 1 PROVE Lookup(st, ids[1]) = NoBlock
    <3>1. IsFiniteSet(found)
      <4> DEFINE g == [m \in DOMAIN ids |-> Lookup(st, ids[m])]
      <4>1. IsFiniteSet(DOMAIN ids)
        <5>1. DOMAIN ids = 1..Len(ids) /\ Len(ids) \in Nat
            OBVIOUS
        <5> QED
            BY <5>1, FS_Interval
      <4>2. g \in Surjection(DOMAIN ids, found)
        BY DEF Surjection
      <4> HIDE DEF g, found
      <4> QED
        BY <4>1, <4>2, FS_Surjection
    <3>2. \E x : found = {x}
      <4> HIDE DEF found
      <4> QED
        BY <2>5, <3>1, FS_Singleton
    <3> HIDE DEF found
    <3> QED
        BY <2>2, <2>4, <3>2
  <2>6. LookupBlock(st, ids) = NoBlock
    BY <2>5 DEF LookupBlock
  <2> QED
    BY <1>4, <2>6 DEF ReplaysTheLast, st, n
<1> QED
    BY <1>3, <1>4

-----------------------------------------------------------------------------
(* Text of tools *)

\* The pieces a text is searched for, and those that end an escaped tag.
Signs == {"&", "amp;", "lt;", "<", "/p>"}
Inner == {"amp;", "lt;", "/p>"}

\* The tag stands at i, or with n escapes the escaped tag.
EndAt(s, i) == i + 1 <= Len(s) /\ s[i] = "<" /\ s[i + 1] = "/p>"
EscapedAt(s, i, n) ==
    /\ i + n + 2 <= Len(s) /\ s[i] = "&" /\ \A m \in 1..n : s[i + m] = "amp;"
    /\ s[i + n + 1] = "lt;" /\ s[i + n + 2] = "/p>"
Escaped(s, i) == \E n \in 0..Len(s) : EscapedAt(s, i, n)

\* A text begins with another one piece by piece.
LEMMA PrefixOfFrom ==
    ASSUME NEW X, NEW s \in Seq(X), NEW i \in 1..Len(s), NEW p \in Seq(X)
    PROVE  IsPrefix(p, Tags!From(s, i)) <=>
              i + Len(p) - 1 <= Len(s) /\ \A k \in 1..Len(p) : s[i + k - 1] = p[k]
<1> DEFINE t == SubSeq(s, i, Len(s))
           l == Len(p)
           a == SubSeq(p, 1, l)
           b == SubSeq(t, 1, l)
<1>1. Tags!From(s, i) = t
    BY DEF Tags!From
<1>2. t \in Seq(X) /\ Len(t) = Len(s) - i + 1 /\ \A k \in 1..(Len(s) - i + 1) : t[k] = s[i + k - 1]
    OBVIOUS
<1>3. a = p /\ l \in Nat
    BY SubSeqFull
<1> HIDE DEF t, a, l
<1>4. l <= Len(t) => /\ b \in Seq(X) /\ Len(b) = l
                     /\ \A k \in 1..l : b[k] = t[k]
    BY <1>2, <1>3
<1>5. IsPrefix(p, t) <=> l <= Len(t) /\ p = b
    BY <1>3 DEF IsPrefix, a, l
<1> HIDE DEF b
<1>6. ASSUME IsPrefix(p, t) PROVE i + l - 1 <= Len(s) /\ \A k \in 1..l : s[i + k - 1] = p[k]
  <2>1. l <= Len(t) /\ p = b
    BY <1>5, <1>6
  <2>2. i + l - 1 <= Len(s)
    BY <1>2, <1>3, <2>1
  <2>3. \A k \in 1..l : k \in 1..(Len(s) - i + 1) /\ p[k] = t[k]
    BY <1>2, <1>3, <1>4, <2>1
  <2> QED
    BY <1>2, <2>2, <2>3
<1>7. ASSUME i + l - 1 <= Len(s), \A k \in 1..l : s[i + k - 1] = p[k] PROVE IsPrefix(p, t)
  <2>1. l <= Len(t)
    BY <1>2, <1>3, <1>7
  <2>2. \A k \in 1..l : k \in 1..(Len(s) - i + 1) /\ b[k] = p[k]
    BY SMTT(30), <1>2, <1>3, <1>4, <1>7, <2>1
  <2>3. p = b
    BY <1>3, <1>4, <2>1, <2>2, SeqEqual DEF l
  <2> QED
    BY <1>5, <2>1, <2>3
<1> QED
    BY <1>1, <1>6, <1>7 DEF l

LEMMA OnePiece ==
    ASSUME NEW X, NEW a \in X
    PROVE  <<a>> \in Seq(X) /\ Len(<<a>>) = 1 /\ <<a>>[1] = a
OBVIOUS

LEMMA TwoPieces ==
    ASSUME NEW X, NEW a \in X, NEW b \in X
    PROVE  <<a, b>> \in Seq(X) /\ Len(<<a, b>>) = 2 /\ <<a, b>>[1] = a /\ <<a, b>>[2] = b
OBVIOUS

LEMMA Repeated ==
    ASSUME NEW X, NEW a \in X, NEW n \in Nat
    PROVE  /\ [k \in 1..n |-> a] \in Seq(X) /\ Len([k \in 1..n |-> a]) = n
           /\ \A m \in 1..n : [k \in 1..n |-> a][m] = a
OBVIOUS

\* What an escaped tag begins with.
LEMMA Laid ==
    ASSUME NEW X, NEW a \in X, NEW b \in X, NEW c \in X, NEW d \in X, NEW n \in Nat, NEW q,
           q = <<a>> \o [k \in 1..n |-> b] \o <<c, d>>
    PROVE  /\ q \in Seq(X) /\ Len(q) = n + 3
           /\ q[1] = a /\ (\A m \in 1..n : q[m + 1] = b) /\ q[n + 2] = c /\ q[n + 3] = d
<1> DEFINE u == <<a>>
           v == [k \in 1..n |-> b]
           w == <<c, d>>
           uv == u \o v
<1>1. u \in Seq(X) /\ Len(u) = 1 /\ u[1] = a
    BY OnePiece
<1>2. v \in Seq(X) /\ Len(v) = n /\ \A m \in 1..n : v[m] = b
    BY Repeated
<1>3. w \in Seq(X) /\ Len(w) = 2 /\ w[1] = c /\ w[2] = d
    BY TwoPieces
<1>4. q = uv \o w
    OBVIOUS
<1> HIDE DEF u, v, w
<1>5. uv \in Seq(X) /\ Grown(u, v, uv)
    BY <1>1, <1>2, JoinedAt DEF Joined
<1> HIDE DEF uv
<1>6. q \in Seq(X) /\ Grown(uv, w, q)
    BY <1>3, <1>4, <1>5, JoinedAt DEF Joined
<1>7. Len(uv) = n + 1 /\ Len(q) = n + 3
    BY <1>1, <1>2, <1>3, <1>5, <1>6 DEF Grown
<1>8. \A k \in 1..(n + 1) : q[k] = uv[k]
    BY <1>6, <1>7 DEF Grown
<1>9. uv[1] = a /\ \A m \in 1..n : uv[1 + m] = b
  <2>1. 1 \in 1..Len(u) /\ Len(v) = n
    BY <1>1, <1>2
  <2>2. uv[1] = u[1] /\ \A m \in 1..n : uv[Len(u) + m] = v[m]
    BY <1>5, <2>1 DEF Grown
  <2> QED
    BY <1>1, <1>2, <2>2
<1>10. q[(n + 1) + 1] = c /\ q[(n + 1) + 2] = d
    BY <1>3, <1>6, <1>7 DEF Grown
<1>11. 1 \in 1..(n + 1) /\ (n + 1) + 1 = n + 2 /\ (n + 1) + 2 = n + 3
    OBVIOUS
<1>12. \A m \in 1..n : m + 1 \in 1..(n + 1) /\ m + 1 = 1 + m
    OBVIOUS
<1> QED
    BY <1>6, <1>7, <1>8, <1>9, <1>10, <1>11, <1>12

LEMMA EndIsAt ==
    ASSUME NEW X, Signs \subseteq X, NEW s \in Seq(X), NEW i \in 1..Len(s)
    PROVE  IsPrefix(End, Tags!From(s, i)) <=> EndAt(s, i)
<1>0. "<" \in X /\ "/p>" \in X
    BY DEF Signs
<1>1. End \in Seq(X) /\ Len(End) = 2 /\ End[1] = "<" /\ End[2] = "/p>"
    BY <1>0, TwoPieces DEF End
<1> HIDE DEF End
<1>2. IsPrefix(End, Tags!From(s, i)) <=>
          i + Len(End) - 1 <= Len(s) /\ \A k \in 1..Len(End) : s[i + k - 1] = End[k]
  <2>1. End \in Seq(X)
    BY <1>1
  <2> QED
    BY <2>1, PrefixOfFrom
<1>3. i + Len(End) - 1 = i + 1 /\ i + 1 - 1 = i /\ i + 2 - 1 = i + 1 /\ 1..Len(End) = {1, 2}
    BY <1>1
<1> QED
    BY <1>1, <1>2, <1>3 DEF EndAt

LEMMA EscapedIsAt ==
    ASSUME NEW X, Signs \subseteq X, NEW s \in Seq(X), NEW i \in 1..Len(s)
    PROVE  EscapedClose(Tags!From(s, i)) <=> Escaped(s, i)
<1> DEFINE p(n) == <<"&">> \o [k \in 1..n |-> "amp;"] \o <<"lt;", "/p>">>
           t == Tags!From(s, i)
<1>0. "&" \in X /\ "amp;" \in X /\ "lt;" \in X /\ "/p>" \in X
    BY DEF Signs
<1>1. ASSUME NEW n \in Nat PROVE IsPrefix(p(n), t) <=> EscapedAt(s, i, n)
  <2> DEFINE q == p(n)
  <2>7. /\ q \in Seq(X) /\ Len(q) = n + 3
        /\ q[1] = "&" /\ (\A m \in 1..n : q[m + 1] = "amp;") /\ q[n + 2] = "lt;" /\ q[n + 3] = "/p>"
    <3> DEFINE a == "&"
               b == "amp;"
               c == "lt;"
               d == "/p>"
    <3>1. q = <<a>> \o [k \in 1..n |-> b] \o <<c, d>>
        OBVIOUS
    <3>2. a \in X /\ b \in X /\ c \in X /\ d \in X
        BY <1>0
    <3> HIDE DEF q, a, b, c, d
    <3>3. /\ q \in Seq(X) /\ Len(q) = n + 3
          /\ q[1] = a /\ (\A m \in 1..n : q[m + 1] = b) /\ q[n + 2] = c /\ q[n + 3] = d
        BY <3>1, <3>2, Laid
    <3> QED
        BY <3>3 DEF a, b, c, d
  <2> HIDE DEF p, q
  <2>5. q \in Seq(X)
    BY <2>7
  <2>a. Len(q) = n + 3
    BY <2>7
  <2>8. IsPrefix(q, t) <=> i + (n + 3) - 1 <= Len(s) /\ \A k \in 1..(n + 3) : s[i + k - 1] = q[k]
    <3>1. IsPrefix(q, t) <=> i + Len(q) - 1 <= Len(s) /\ \A k \in 1..Len(q) : s[i + k - 1] = q[k]
        BY <2>5, PrefixOfFrom
    <3> QED
        BY <2>a, <3>1
  <2>9. i + (n + 3) - 1 <= Len(s) <=> i + n + 2 <= Len(s)
    OBVIOUS
  <2>10. ASSUME \A k \in 1..(n + 3) : s[i + k - 1] = q[k]
         PROVE  /\ s[i] = "&" /\ \A m \in 1..n : s[i + m] = "amp;"
                /\ s[i + n + 1] = "lt;" /\ s[i + n + 2] = "/p>"
    <3>1. 1 \in 1..(n + 3) /\ i + 1 - 1 = i
        OBVIOUS
    <3>2. \A m \in 1..n : m + 1 \in 1..(n + 3) /\ i + (m + 1) - 1 = i + m
        OBVIOUS
    <3>3. /\ n + 2 \in 1..(n + 3) /\ i + (n + 2) - 1 = i + n + 1
          /\ n + 3 \in 1..(n + 3) /\ i + (n + 3) - 1 = i + n + 2
        OBVIOUS
    <3> QED
        BY <2>7, <2>10, <3>1, <3>2, <3>3
  <2>11. ASSUME s[i] = "&", \A m \in 1..n : s[i + m] = "amp;", s[i + n + 1] = "lt;", s[i + n + 2] = "/p>",
                NEW k \in 1..(n + 3)
         PROVE  s[i + k - 1] = q[k]
    <3>1. CASE k = 1
      <4>1. i + k - 1 = i
        BY <3>1
      <4> QED
        BY <2>7, <2>11, <3>1, <4>1
    <3>2. CASE k - 1 \in 1..n
      <4>1. i + k - 1 = i + (k - 1) /\ (k - 1) + 1 = k
        OBVIOUS
      <4>2. q[(k - 1) + 1] = "amp;" /\ s[i + (k - 1)] = "amp;"
        BY <2>7, <2>11, <3>2
      <4> QED
        BY <4>1, <4>2
    <3>3. CASE k = n + 2
      <4>1. i + k - 1 = i + n + 1
        BY <3>3
      <4> QED
        BY <2>7, <2>11, <3>3, <4>1
    <3>4. CASE k = n + 3
      <4>1. i + k - 1 = i + n + 2
        BY <3>4
      <4> QED
        BY <2>7, <2>11, <3>4, <4>1
    <3> QED
        BY <3>1, <3>2, <3>3, <3>4
  <2>12. IsPrefix(q, t) <=> EscapedAt(s, i, n)
    BY <2>8, <2>9, <2>10, <2>11 DEF EscapedAt
  <2> QED
    BY <2>12 DEF q
<1>2. EscapedClose(t) <=> \E n \in 0..Len(t) : IsPrefix(p(n), t)
    BY DEF EscapedClose
<1>3. Len(t) = Len(s) - i + 1
    BY DEF Tags!From
<1> HIDE DEF t, p
<1>4. \A n \in 0..Len(t) : n \in 0..Len(s)
    BY <1>3
<1>5. ASSUME NEW n \in 0..Len(s), EscapedAt(s, i, n) PROVE n \in 0..Len(t)
  <2>1. i + n + 2 <= Len(s)
    BY <1>5 DEF EscapedAt
  <2> QED
    BY <1>3, <2>1
<1> QED
    BY <1>1, <1>2, <1>3, <1>4, <1>5 DEF Escaped, t

\* A piece that is written as two.
Twofold(s, i) == EndAt(s, i) \/ Escaped(s, i)

\* e is s escaped, and o[i] is how far it goes after i pieces of s.
SpelledAt(s, e, o, i) ==
    /\ o[i - 1] \in Nat /\ o[i] \in Nat /\ o[i - 1] < o[i] /\ o[i] <= Len(e)
    /\ Twofold(s, i) => /\ o[i] = o[i - 1] + 2 /\ e[o[i - 1] + 1] = "&"
                        /\ e[o[i - 1] + 2] = IF EndAt(s, i) THEN "lt;" ELSE "amp;"
    /\ ~Twofold(s, i) => o[i] = o[i - 1] + 1 /\ e[o[i - 1] + 1] = s[i]
Spelled(s, e, o) ==
    /\ o[0] = 0 /\ o[Len(s)] = Len(e) /\ \A i \in 1..Len(s) : SpelledAt(s, e, o, i)

\* The piece that stands for piece i, or the two.
LEMMA SpelledPiece ==
    ASSUME NEW X, Signs \subseteq X, NEW s \in Seq(X), NEW i \in 1..Len(s), NEW q,
           q = EscapedPiece(s, i)
    PROVE  /\ q \in Seq(X)
           /\ Twofold(s, i) => Len(q) = 2 /\ q[1] = "&" /\ q[2] = IF EndAt(s, i) THEN "lt;" ELSE "amp;"
           /\ ~Twofold(s, i) => Len(q) = 1 /\ q[1] = s[i]
<1>1. IsPrefix(End, Tags!From(s, i)) <=> EndAt(s, i)
    BY EndIsAt
<1>2. EscapedClose(Tags!From(s, i)) <=> Escaped(s, i)
    BY EscapedIsAt
<1>3. ~(EndAt(s, i) /\ Escaped(s, i))
    BY DEF EndAt, Escaped, EscapedAt
<1>4. "&" \in X /\ "lt;" \in X /\ "amp;" \in X
    BY DEF Signs
<1>5. CASE EndAt(s, i)
  <2> DEFINE a == "&"
             b == "lt;"
  <2>1. q = <<a, b>>
    BY <1>1, <1>2, <1>3, <1>5 DEF EscapedPiece
  <2>2. a \in X /\ b \in X
    BY <1>4
  <2> HIDE DEF a, b
  <2>3. q \in Seq(X) /\ Len(q) = 2 /\ q[1] = a /\ q[2] = b
    BY ONLY <2>1, <2>2, TwoPieces
  <2> QED
    BY <2>3, <1>5 DEF Twofold, a, b
<1>6. CASE Escaped(s, i)
  <2> DEFINE a == "&"
             b == "amp;"
  <2>1. q = <<a, b>>
    BY <1>1, <1>2, <1>3, <1>6 DEF EscapedPiece
  <2>2. a \in X /\ b \in X
    BY <1>4
  <2> HIDE DEF a, b
  <2>3. q \in Seq(X) /\ Len(q) = 2 /\ q[1] = a /\ q[2] = b
    BY ONLY <2>1, <2>2, TwoPieces
  <2> QED
    BY <2>3, <1>3, <1>6 DEF Twofold, a, b
<1>7. CASE ~Twofold(s, i)
  <2>1. q = <<s[i]>>
    BY <1>1, <1>2, <1>7 DEF Twofold, EscapedPiece
  <2>2. s[i] \in X
    BY ElementOfSeq
  <2>3. q \in Seq(X) /\ Len(q) = 1 /\ q[1] = s[i]
    BY ONLY <2>1, <2>2, OnePiece
  <2> QED
    BY <2>3, <1>7
<1> QED
    BY <1>5, <1>6, <1>7 DEF Twofold

LEMMA EscapeSpells ==
    ASSUME NEW X, Signs \subseteq X, NEW s \in Seq(X)
    PROVE  escapeToolText(s) \in Seq(X) /\ \E o : Spelled(s, escapeToolText(s), o)
<1> DEFINE n == Len(s)
           q == [i \in 1..n |-> EscapedPiece(s, i)]
           e == escapeToolText(s)
<1>0. n \in Nat /\ DOMAIN s = 1..n
    OBVIOUS
<1>1. e = FlattenSeq(q)
    BY <1>0 DEF escapeToolText
<1>2. ASSUME NEW i \in 1..n
      PROVE  /\ q[i] \in Seq(X)
             /\ Twofold(s, i) => Len(q[i]) = 2 /\ q[i][1] = "&" /\ q[i][2] = IF EndAt(s, i) THEN "lt;" ELSE "amp;"
             /\ ~Twofold(s, i) => Len(q[i]) = 1 /\ q[i][1] = s[i]
  <2> DEFINE x == q[i]
  <2>1. x = EscapedPiece(s, i)
    OBVIOUS
  <2>0. i \in 1..Len(s)
    OBVIOUS
  <2> HIDE DEF x, n, q, e
  <2>2. /\ x \in Seq(X)
        /\ Twofold(s, i) => Len(x) = 2 /\ x[1] = "&" /\ x[2] = IF EndAt(s, i) THEN "lt;" ELSE "amp;"
        /\ ~Twofold(s, i) => Len(x) = 1 /\ x[1] = s[i]
    BY <2>0, <2>1, SpelledPiece
  <2> QED
    BY <2>2 DEF x
<1>a. DOMAIN q = 1..n /\ q = [i \in 1..n |-> q[i]]
    OBVIOUS
<1> HIDE DEF q, e
<1>b. \A i \in 1..n : Len(q[i]) = 1 \/ Len(q[i]) = 2
    BY <1>2
<1>3. Rows(q, n, X)
    BY <1>2, <1>a DEF Rows
<1>4. PICK F : Parts(F, q, n, X) /\ e = F[n]
    BY <1>0, <1>1, <1>3, FlattenSteps
<1> DEFINE o == [i \in 0..n |-> Len(F[i])]
<1>5. e \in Seq(X) /\ o[0] = 0 /\ o[n] = Len(e)
    BY <1>0, <1>4 DEF Parts
<1>6. ASSUME NEW i \in 1..n PROVE SpelledAt(s, e, o, i)
  <2>1. i - 1 \in 0..n /\ i \in 0..n /\ n \in i..n
    BY <1>0
  <2>2. o[i] = Len(F[i]) /\ o[i - 1] = Len(F[i - 1])
    BY <2>1
  <2>3. Grown(F[i - 1], q[i], F[i])
    BY <1>0, <1>3, <1>4, PartStep
  <2>4. o[i - 1] \in Nat /\ o[i] \in Nat /\ o[i] = o[i - 1] + Len(q[i]) /\ o[i - 1] < o[i]
    <3>1. Len(F[i - 1]) \in Nat /\ Len(q[i]) \in Nat /\ Len(F[i]) = Len(F[i - 1]) + Len(q[i])
        BY <2>3 DEF Grown
    <3>2. Len(q[i]) = 1 \/ Len(q[i]) = 2
        BY <1>b
    <3> DEFINE u == Len(F[i - 1])
               v == Len(F[i])
               x == Len(q[i])
    <3>3. u \in Nat /\ v = u + x /\ (x = 1 \/ x = 2)
        BY <3>1, <3>2
    <3> HIDE DEF u, v, x
    <3>4. u \in Nat /\ v \in Nat /\ v = u + x /\ u < v
        BY <3>3
    <3> QED
        BY <2>2, <3>4 DEF u, v, x
  <2>5. o[i] <= Len(e)
    BY <1>0, <1>3, <1>4, <2>1, <2>2, PartsGrow
  <2>6. ASSUME NEW j \in 1..Len(q[i]) PROVE e[o[i - 1] + j] = q[i][j]
    <3>1. Kept(F, q, i, j, n)
        BY <1>0, <1>3, <1>4, <2>1, PartAt
    <3> QED
        BY <1>4, <2>2, <3>1 DEF Kept
  <2> HIDE DEF o
  <2>7. CASE Twofold(s, i)
    <3>1. Len(q[i]) = 2
        BY <1>2, <2>7
    <3>2. 1 \in 1..Len(q[i]) /\ 2 \in 1..Len(q[i])
        BY ONLY <3>1
    <3>3. e[o[i - 1] + 1] = q[i][1] /\ e[o[i - 1] + 2] = q[i][2]
        BY <2>6, <3>2
    <3>4. o[i] = o[i - 1] + 2
        BY ONLY <2>4, <3>1
    <3> QED
        BY <1>2, <2>4, <2>5, <2>7, <3>3, <3>4 DEF SpelledAt
  <2>8. CASE ~Twofold(s, i)
    <3>1. Len(q[i]) = 1
        BY <1>2, <2>8
    <3>2. 1 \in 1..Len(q[i])
        BY ONLY <3>1
    <3>3. e[o[i - 1] + 1] = q[i][1]
        BY <2>6, <3>2
    <3>4. o[i] = o[i - 1] + 1
        BY ONLY <2>4, <3>1
    <3> QED
        BY <1>2, <2>4, <2>5, <2>8, <3>3, <3>4 DEF SpelledAt
  <2> QED
    BY <2>7, <2>8
<1>7. Spelled(s, e, o)
  <2> HIDE DEF o
  <2> QED
    BY <1>5, <1>6 DEF Spelled
<1> QED
    BY <1>5, <1>7 DEF e

\* m of the pieces that follow are such as end an escaped tag.
InnerRun(s, i, m) == i + m <= Len(s) /\ \A l \in 1..m : s[i + l] \in Inner

\* They are written as they are; what was written so was there.
LEMMA InnerIsSpelled ==
    ASSUME NEW X, NEW s \in Seq(X), NEW e, NEW o, Spelled(s, e, o),
           NEW i \in 1..Len(s), NEW m \in Nat, InnerRun(s, i, m)
    PROVE  o[i] + m <= Len(e) /\ \A l \in 1..m : e[o[i] + l] = s[i + l]
<1> USE DEF InnerRun
<1> DEFINE P == {l \in 0..m : o[i + l] = o[i] + l /\ (l > 0 => e[o[i] + l] = s[i + l])}
<1>0. \A k \in 1..Len(s) : SpelledAt(s, e, o, k)
    BY DEF Spelled
<1>1. o[i] \in Nat
    BY <1>0 DEF SpelledAt
<1>2. 0 \in P
  <2>1. i + 0 = i /\ o[i] + 0 = o[i]
    BY <1>1
  <2> QED
    BY <2>1
<1>3. ASSUME NEW l \in 0..(m - 1), l \in P PROVE l + 1 \in P
  <2> DEFINE k == i + (l + 1)
  <2>1. k \in 1..Len(s) /\ k - 1 = i + l /\ l + 1 \in 1..m
    OBVIOUS
  <2>2. s[k] \in Inner
    BY <2>1
  <2>3. ~Twofold(s, k)
    BY <2>2 DEF Twofold, EndAt, Escaped, EscapedAt, Inner
  <2> HIDE DEF k
  <2>4. o[k] = o[k - 1] + 1 /\ e[o[k - 1] + 1] = s[k]
    BY <1>0, <2>1, <2>3 DEF SpelledAt
  <2>5. o[k - 1] = o[i] + l
    BY <1>3, <2>1
  <2>6. (o[i] + l) + 1 = o[i] + (l + 1)
    BY <1>1
  <2>7. o[k] = o[i] + (l + 1) /\ e[o[i] + (l + 1)] = s[k]
    BY <2>4, <2>5, <2>6
  <2> QED
    BY <2>1, <2>7 DEF k
<1>4. 0..m \subseteq P
  <2> HIDE DEF P
  <2> QED
    BY <1>2, <1>3, Induction
<1>5. o[i + m] = o[i] + m
    BY <1>4
<1>6. i + m \in 1..Len(s)
    OBVIOUS
<1>7. o[i + m] <= Len(e)
    BY <1>0, <1>6 DEF SpelledAt
<1> QED
    BY <1>4, <1>5, <1>7

LEMMA InnerWasThere ==
    ASSUME NEW X, NEW s \in Seq(X), NEW e, NEW o, Spelled(s, e, o),
           NEW i \in 1..Len(s), NEW m \in Nat, InnerRun(e, o[i], m)
    PROVE  i + m <= Len(s) /\ \A l \in 1..m : s[i + l] = e[o[i] + l]
<1> USE DEF InnerRun
<1> DEFINE P == {l \in 0..m : i + l <= Len(s) /\ o[i + l] = o[i] + l /\ (l > 0 => s[i + l] = e[o[i] + l])}
<1>0. (\A k \in 1..Len(s) : SpelledAt(s, e, o, k)) /\ o[Len(s)] = Len(e)
    BY DEF Spelled
<1>1. o[i] \in Nat /\ Len(e) \in Nat
  <2>1. Len(s) \in 1..Len(s)
    OBVIOUS
  <2> QED
    BY <1>0, <2>1 DEF SpelledAt
<1>2. 0 \in P
  <2>1. i + 0 = i /\ o[i] + 0 = o[i]
    BY <1>1
  <2> QED
    BY <2>1
<1>3. ASSUME NEW l \in 0..(m - 1), l \in P PROVE l + 1 \in P
  <2> DEFINE k == i + (l + 1)
  <2>1. i + l <= Len(s) /\ o[i + l] = o[i] + l
    BY <1>3
  <2>2. i + l # Len(s)
    <3> SUFFICES ASSUME i + l = Len(s) PROVE FALSE
        OBVIOUS
    <3> DEFINE u == o[i]
               w == Len(e)
    <3>1. u + l = w
        BY <1>0, <2>1
    <3>2. u \in Nat /\ w \in Nat /\ u + m <= w /\ l < m
        BY <1>1
    <3> HIDE DEF u, w
    <3> QED
        BY <3>1, <3>2
  <2>3. k \in 1..Len(s) /\ k - 1 = i + l /\ l + 1 \in 1..m
    BY <2>1, <2>2
  <2> HIDE DEF k
  <2>4. (o[i] + l) + 1 = o[i] + (l + 1)
    <3> DEFINE u == o[i]
    <3>1. u \in Nat
        BY <1>1
    <3> HIDE DEF u
    <3>2. (u + l) + 1 = u + (l + 1)
        BY <3>1
    <3> QED
        BY <3>2 DEF u
  <2>5. e[o[k - 1] + 1] \in Inner /\ e[o[k - 1] + 1] = e[o[i] + (l + 1)]
    BY <2>1, <2>3, <2>4
  <2>6. ~Twofold(s, k)
    <3>1. e[o[k - 1] + 1] # "&"
        BY <2>5 DEF Inner
    <3> QED
        BY <1>0, <2>3, <3>1 DEF SpelledAt
  <2>7. o[k] = o[k - 1] + 1 /\ e[o[k - 1] + 1] = s[k]
    BY <1>0, <2>3, <2>6 DEF SpelledAt
  <2>8. o[k] = o[i] + (l + 1) /\ s[k] = e[o[i] + (l + 1)]
    BY <2>1, <2>3, <2>4, <2>5, <2>7
  <2>9. i + (l + 1) <= Len(s)
    BY <2>3 DEF k
  <2> QED
    BY <2>3, <2>8, <2>9 DEF k
<1>4. 0..m \subseteq P
  <2> HIDE DEF P
  <2> QED
    BY <1>2, <1>3, Induction
<1> QED
    BY <1>4

\* Where a piece of the escaped text comes from.
FromPiece(s, o, p, i) == p = o[i - 1] + 1 \/ (Twofold(s, i) /\ p = o[i - 1] + 2)

LEMMA EveryPieceIsFrom ==
    ASSUME NEW X, NEW s \in Seq(X), NEW e \in Seq(X), NEW o, Spelled(s, e, o), NEW p \in 1..Len(e)
    PROVE  \E i \in 1..Len(s) : FromPiece(s, o, p, i)
<1> DEFINE n == Len(s)
           P == {i \in 0..n : p <= o[i] => \E j \in 1..n : FromPiece(s, o, p, j)}
<1>0. n \in Nat /\ o[0] = 0 /\ o[n] = Len(e) /\ \A i \in 1..n : SpelledAt(s, e, o, i)
    BY DEF Spelled
<1> HIDE DEF n
<1>1. 0 \in P
    BY <1>0
<1>2. ASSUME NEW l \in 0..(n - 1), l \in P PROVE l + 1 \in P
  <2> DEFINE i == l + 1
  <2>1. i \in 1..n /\ i \in 0..n /\ i - 1 = l
    BY <1>0
  <2> HIDE DEF i
  <2>2. SpelledAt(s, e, o, i)
    BY <1>0, <2>1
  <2>3. o[i] \in Nat /\ o[i - 1] \in Nat
    BY <2>2 DEF SpelledAt
  <2>4. ASSUME p <= o[i], ~(p <= o[i - 1]) PROVE FromPiece(s, o, p, i)
    <3> DEFINE u == o[i - 1]
               v == o[i]
    <3>1. u \in Nat /\ v \in Nat /\ p <= v /\ ~(p <= u)
        BY <2>3, <2>4
    <3>2. CASE Twofold(s, i)
      <4>1. v = u + 2
        BY <2>2, <3>2 DEF SpelledAt
      <4> HIDE DEF u, v
      <4>2. p = u + 1 \/ p = u + 2
        BY ONLY <3>1, <4>1, p \in 1..Len(e)
      <4> QED
        BY <3>2, <4>2 DEF FromPiece, u
    <3>3. CASE ~Twofold(s, i)
      <4>1. v = u + 1
        BY <2>2, <3>3 DEF SpelledAt
      <4> HIDE DEF u, v
      <4>2. p = u + 1
        BY ONLY <3>1, <4>1, p \in 1..Len(e)
      <4> QED
        BY <4>2 DEF FromPiece, u
    <3> QED
        BY <3>2, <3>3
  <2>5. p <= o[i - 1] => \E j \in 1..n : FromPiece(s, o, p, j)
    BY <1>2, <2>1
  <2>6. p <= o[i] => \E j \in 1..n : FromPiece(s, o, p, j)
    BY <2>1, <2>4, <2>5
  <2> QED
    BY <2>1, <2>6 DEF i
<1>3. 0..n \subseteq P
  <2> HIDE DEF P
  <2> QED
    BY <1>0, <1>1, <1>2, Induction
<1>4. n \in P /\ p <= o[n]
  <2>1. p <= o[n]
    BY <1>0
  <2>2. n \in 0..n
    BY <1>0
  <2> HIDE DEF P
  <2> QED
    BY <1>3, <2>1, <2>2
<1> QED
    BY <1>4 DEF n

\* What is written as two pieces reads as an escaped tag, and nothing else does.
LEMMA EscapedWhereTwofold ==
    ASSUME NEW X, NEW s \in Seq(X), NEW e \in Seq(X), NEW o, Spelled(s, e, o), NEW i \in 1..Len(s)
    PROVE  Escaped(e, o[i - 1] + 1) <=> Twofold(s, i)
<1> DEFINE p == o[i - 1] + 1
           u == o[i - 1]
           v == o[i]
<1>0. SpelledAt(s, e, o, i)
    BY DEF Spelled
<1>1. u \in Nat /\ v \in Nat /\ Len(e) \in Nat /\ Len(s) \in Nat /\ v <= Len(e)
  <2>1. u \in Nat /\ v \in Nat /\ v <= Len(e)
    BY <1>0 DEF SpelledAt
  <2>2. Len(e) \in Nat /\ Len(s) \in Nat
    BY LenProperties
  <2> QED
    BY <2>1, <2>2
<1>2. ASSUME EndAt(s, i) PROVE Escaped(e, p)
  <2>1. i + 1 <= Len(s) /\ s[i + 1] = "/p>"
    BY <1>2 DEF EndAt
  <2>2. \A l \in 1..1 : s[i + l] \in Inner
    <3>1. \A l \in 1..1 : l = 1
        OBVIOUS
    <3>2. s[i + 1] \in Inner
        BY <2>1 DEF Inner
    <3> QED
        BY <3>1, <3>2
  <2>3. v + 1 <= Len(e) /\ \A l \in 1..1 : e[v + l] = s[i + l]
    BY <2>1, <2>2, InnerIsSpelled DEF InnerRun
  <2>4. e[v + 1] = "/p>"
    BY <2>1, <2>3
  <2>5. v = u + 2 /\ e[u + 1] = "&" /\ e[u + 2] = "lt;"
    BY <1>0, <1>2 DEF SpelledAt, Twofold
  <2> HIDE DEF u, v
  <2>a. v = u + 2 /\ v + 1 <= Len(e)
    BY <2>3, <2>5
  <2>6. /\ (u + 1) + 0 + 1 = u + 2 /\ (u + 1) + 0 + 2 = v + 1 /\ 1..0 = {}
        /\ (u + 1) + 0 + 2 <= Len(e)
    BY ONLY <1>1, <2>a
  <2>7. EscapedAt(e, u + 1, 0)
    BY <2>3, <2>4, <2>5, <2>6 DEF EscapedAt
  <2>8. 0 \in 0..Len(e)
    BY <1>1
  <2> QED
    BY <2>7, <2>8 DEF Escaped, u
<1>3. ASSUME NEW m \in 0..Len(s), EscapedAt(s, i, m), ~EndAt(s, i) PROVE Escaped(e, p)
  <2>1. /\ i + (m + 2) <= Len(s) /\ (\A l \in 1..m : s[i + l] = "amp;")
        /\ s[i + (m + 1)] = "lt;" /\ s[i + (m + 2)] = "/p>"
    <3>1. i + m + 1 = i + (m + 1) /\ i + m + 2 = i + (m + 2)
        BY <1>1
    <3> QED
        BY <1>3, <3>1 DEF EscapedAt
  <2>2. \A l \in 1..(m + 2) : l \in 1..m \/ l = m + 1 \/ l = m + 2
    BY <1>1
  <2>3. \A l \in 1..(m + 2) : s[i + l] \in Inner
    BY <2>1, <2>2 DEF Inner
  <2>b. m + 2 \in Nat
    BY <1>1
  <2>4. v + (m + 2) <= Len(e) /\ \A l \in 1..(m + 2) : e[v + l] = s[i + l]
    <3>1. InnerRun(s, i, m + 2)
        BY <2>1, <2>3 DEF InnerRun
    <3> QED
        BY <2>b, <3>1, InnerIsSpelled
  <2>5. Twofold(s, i)
    BY <1>3 DEF Twofold, Escaped
  <2>6. v = u + 2 /\ e[u + 1] = "&" /\ e[u + 2] = "amp;"
    BY <1>0, <1>3, <2>5 DEF SpelledAt
  <2>c. m \in Nat /\ v = u + 2 /\ v + (m + 2) <= Len(e)
    <3>1. m \in Nat
        BY <1>1
    <3> QED
        BY <2>4, <2>6, <3>1
  <2> HIDE DEF u, v
  <2>7. ASSUME NEW l \in 1..(m + 1) PROVE e[(u + 1) + l] = "amp;"
    <3>1. CASE l = 1
      <4>1. (u + 1) + l = u + 2
        BY <1>1, <3>1
      <4> QED
        BY <2>6, <4>1
    <3>2. CASE l # 1
      <4>1. (u + 1) + l = v + (l - 1) /\ l - 1 \in 1..m /\ l - 1 \in 1..(m + 2)
        BY ONLY <1>1, <2>c, <3>2, l \in 1..(m + 1)
      <4>2. e[v + (l - 1)] = s[i + (l - 1)] /\ s[i + (l - 1)] = "amp;"
        BY <2>1, <2>4, <4>1
      <4> QED
        BY <4>1, <4>2
    <3> QED
        BY <3>1, <3>2
  <2>8. /\ (u + 1) + (m + 1) + 2 <= Len(e)
        /\ (u + 1) + (m + 1) + 1 = v + (m + 1) /\ (u + 1) + (m + 1) + 2 = v + (m + 2)
        /\ m + 1 \in 1..(m + 2) /\ m + 2 \in 1..(m + 2) /\ m + 1 \in 0..Len(e)
    BY ONLY <1>1, <2>c
  <2>9. e[v + (m + 1)] = "lt;" /\ e[v + (m + 2)] = "/p>"
    BY <2>1, <2>4, <2>8
  <2>10. EscapedAt(e, u + 1, m + 1)
    BY <2>6, <2>7, <2>8, <2>9 DEF EscapedAt
  <2> QED
    BY <2>8, <2>10 DEF Escaped, u
<1>4. ASSUME NEW m \in 0..Len(e), EscapedAt(e, p, m), ~Twofold(s, i) PROVE FALSE
  <2>1. v = u + 1 /\ e[u + 1] = s[i]
    BY <1>0, <1>4 DEF SpelledAt
  <2>2. /\ v + (m + 2) <= Len(e) /\ e[v] = "&" /\ (\A l \in 1..m : e[v + l] = "amp;")
        /\ e[v + (m + 1)] = "lt;" /\ e[v + (m + 2)] = "/p>"
    <3>1. p = v
        BY <2>1
    <3> HIDE DEF p, u, v
    <3>2. v + m + 1 = v + (m + 1) /\ v + m + 2 = v + (m + 2)
        BY <1>1
    <3> QED
        BY <1>4, <3>1, <3>2 DEF EscapedAt
  <2> HIDE DEF p, u
  <2>3. \A l \in 1..(m + 2) : l \in 1..m \/ l = m + 1 \/ l = m + 2
    BY <1>1
  <2>4. \A l \in 1..(m + 2) : e[v + l] \in Inner
    BY <2>2, <2>3 DEF Inner
  <2>b. m + 2 \in Nat
    BY <1>1
  <2>5. i + (m + 2) <= Len(s) /\ \A l \in 1..(m + 2) : s[i + l] = e[v + l]
    <3>1. InnerRun(e, o[i], m + 2)
        BY <2>2, <2>4 DEF InnerRun, v
    <3> QED
        BY <2>b, <3>1, InnerWasThere DEF v
  <2> HIDE DEF v
  <2>6. /\ i + m + 1 = i + (m + 1) /\ i + m + 2 = i + (m + 2)
        /\ m + 1 \in 1..(m + 2) /\ m + 2 \in 1..(m + 2) /\ m \in 0..Len(s)
        /\ \A l \in 1..m : l \in 1..(m + 2)
    BY <1>1, <2>5
  <2>7. s[i] = "&"
    BY <2>1, <2>2
  <2>8. EscapedAt(s, i, m)
    BY <2>2, <2>5, <2>6, <2>7 DEF EscapedAt
  <2> QED
    BY <1>4, <2>6, <2>8 DEF Twofold, Escaped
<1>5. Twofold(s, i) => Escaped(e, p)
    BY <1>2, <1>3 DEF Twofold, Escaped
<1>6. Escaped(e, p) => Twofold(s, i)
    BY <1>4 DEF Escaped
<1> QED
    BY <1>5, <1>6

\* Nothing in the escaped text reads as the tag.
LEMMA NoEndWithin ==
    ASSUME NEW X, NEW s \in Seq(X), NEW e \in Seq(X), NEW o, Spelled(s, e, o), NEW p \in 1..Len(e)
    PROVE  ~EndAt(e, p)
<1> SUFFICES ASSUME EndAt(e, p) PROVE FALSE
    OBVIOUS
<1>1. PICK i \in 1..Len(s) : FromPiece(s, o, p, i)
    BY EveryPieceIsFrom
<1>2. SpelledAt(s, e, o, i)
    BY DEF Spelled
<1>3. e[p] = "<" /\ p + 1 <= Len(e) /\ e[p + 1] = "/p>"
    BY DEF EndAt
<1>4. ~Twofold(s, i)
  <2>1. Twofold(s, i) => e[p] = "&" \/ e[p] = "lt;" \/ e[p] = "amp;"
    BY <1>1, <1>2 DEF FromPiece, SpelledAt
  <2> QED
    BY <1>3, <2>1
<1>5. o[i] = p /\ s[i] = "<"
    BY <1>1, <1>2, <1>3, <1>4 DEF FromPiece, SpelledAt
<1>6. \A l \in 1..1 : e[o[i] + l] \in Inner
  <2>1. \A l \in 1..1 : l = 1
    OBVIOUS
  <2>2. e[o[i] + 1] \in Inner
    BY <1>3, <1>5 DEF Inner
  <2> QED
    BY <2>1, <2>2
<1>7. i + 1 <= Len(s) /\ \A l \in 1..1 : s[i + l] = e[o[i] + l]
    BY <1>3, <1>5, <1>6, InnerWasThere DEF InnerRun
<1>8. EndAt(s, i)
    BY <1>3, <1>5, <1>7 DEF EndAt
<1> QED
    BY <1>4, <1>8 DEF Twofold

\* The piece before the one or two that piece i is written as.
LEMMA NotEscapedBefore ==
    ASSUME NEW X, NEW s \in Seq(X), NEW e \in Seq(X), NEW o, Spelled(s, e, o), NEW i \in 1..Len(s),
           o[i - 1] > 0
    PROVE  ~Escaped(e, o[i - 1])
<1> DEFINE j == i - 1
<1>1. o[0] = 0 /\ o[j] > 0
    BY DEF Spelled
<1>2. j # 0
    BY <1>1
<1>3. j \in 1..Len(s)
    BY <1>2
<1> HIDE DEF j
<1>4. SpelledAt(s, e, o, j)
    BY <1>3 DEF Spelled
<1>5. CASE Twofold(s, j)
  <2>1. e[o[j]] = "lt;" \/ e[o[j]] = "amp;"
    BY <1>4, <1>5 DEF SpelledAt
  <2>2. ~Escaped(e, o[j])
    BY <2>1 DEF Escaped, EscapedAt
  <2> QED
    BY <2>2 DEF j
<1>6. CASE ~Twofold(s, j)
  <2>1. o[j] = o[j - 1] + 1
    BY <1>4, <1>6 DEF SpelledAt
  <2>2. Escaped(e, o[j - 1] + 1) <=> Twofold(s, j)
    BY <1>3, EscapedWhereTwofold
  <2>3. ~Escaped(e, o[j])
    BY <1>6, <2>1, <2>2
  <2> QED
    BY <2>3 DEF j
<1> QED
    BY <1>5, <1>6

\* What each piece is read back as.
LEMMA UnescapedPieces ==
    ASSUME NEW X, Signs \subseteq X, NEW s \in Seq(X), NEW e \in Seq(X), NEW o, Spelled(s, e, o),
           NEW i \in 1..Len(s)
    PROVE  /\ UnescapedPiece(e, o[i - 1] + 1) = <<s[i]>>
           /\ Twofold(s, i) => UnescapedPiece(e, o[i - 1] + 2) = <<>>
<1> DEFINE u == o[i - 1]
           p == u + 1
<1>0. SpelledAt(s, e, o, i)
    BY DEF Spelled
<1>1. u \in Nat /\ o[i] \in Nat /\ o[i - 1] < o[i] /\ o[i] <= Len(e)
    BY <1>0 DEF SpelledAt
<1>2. p \in 1..Len(e) /\ (p > 1 => u \in 1..Len(e)) /\ p - 1 = u
  <2> DEFINE v == o[i]
             w == Len(e)
  <2>1. u \in Nat /\ v \in Nat /\ u < v /\ v <= w /\ w \in Nat
    BY <1>1, LenProperties
  <2> HIDE DEF u, v, w
  <2>2. p \in 1..w /\ (p > 1 => u \in 1..w) /\ p - 1 = u
    BY <2>1
  <2> QED
    BY <2>2 DEF w
<1>3. EscapedClose(Tags!From(e, p)) <=> Twofold(s, i)
  <2>1. EscapedClose(Tags!From(e, p)) <=> Escaped(e, p)
    BY <1>2, EscapedIsAt
  <2>2. Escaped(e, p) <=> Twofold(s, i)
    BY EscapedWhereTwofold
  <2> QED
    BY <2>1, <2>2
<1>4. ~(p > 1 /\ EscapedClose(Tags!From(e, p - 1)))
  <2> SUFFICES ASSUME p > 1 PROVE ~EscapedClose(Tags!From(e, p - 1))
    OBVIOUS
  <2>1. u > 0
    BY <1>1
  <2>2. ~Escaped(e, u)
    BY <2>1, NotEscapedBefore
  <2>3. EscapedClose(Tags!From(e, u)) <=> Escaped(e, u)
    BY <1>2, EscapedIsAt
  <2> QED
    BY <1>2, <2>2, <2>3
<1> HIDE DEF p
<1>5. CASE Twofold(s, i)
  <2>1. /\ o[i] = u + 2 /\ e[u + 1] = "&" /\ e[u + 2] = IF EndAt(s, i) THEN "lt;" ELSE "amp;"
    BY <1>0, <1>5 DEF SpelledAt
  <2>a. p + 1 = u + 2 /\ u + 2 > 1 /\ (u + 2) - 1 = p
    <3> HIDE DEF u
    <3> QED
        BY <1>1 DEF p
  <2>2. UnescapedPiece(e, p) = <<OneLevel(e[p + 1])>>
    BY <1>3, <1>4, <1>5 DEF UnescapedPiece
  <2>3. ASSUME EndAt(s, i) PROVE OneLevel(e[p + 1]) = s[i]
    <3>1. e[p + 1] # "amp;" /\ s[i] = "<"
        BY <2>1, <2>a, <2>3 DEF EndAt
    <3> QED
        BY <3>1 DEF OneLevel
  <2>4. ASSUME ~EndAt(s, i) PROVE OneLevel(e[p + 1]) = s[i]
    <3>1. e[p + 1] = "amp;" /\ s[i] = "&"
        BY <1>5, <2>1, <2>a, <2>4 DEF Twofold, Escaped, EscapedAt
    <3> QED
        BY <3>1 DEF OneLevel
  <2>b. u + 2 \in 1..Len(e)
    <3> DEFINE v == o[i]
               w == Len(e)
    <3>1. v = u + 2 /\ v <= w /\ w \in Nat /\ u \in Nat
        BY <1>1, <2>1, LenProperties
    <3> HIDE DEF u, v, w
    <3>2. u + 2 \in 1..w
        BY <3>1
    <3> QED
        BY <3>2 DEF w
  <2>5. ~Escaped(e, u + 2)
    <3>1. e[u + 2] # "&"
        BY <2>1
    <3> QED
        BY <3>1 DEF Escaped, EscapedAt
  <2>6. ~EscapedClose(Tags!From(e, u + 2))
    BY <2>5, <2>b, EscapedIsAt
  <2>7. UnescapedPiece(e, u + 2) = <<>>
    BY <1>3, <1>5, <2>6, <2>a DEF UnescapedPiece
  <2> QED
    BY <2>2, <2>3, <2>4, <2>7 DEF p
<1>6. CASE ~Twofold(s, i)
  <2>1. e[p] = s[i]
    BY <1>0, <1>6 DEF SpelledAt, p
  <2>2. UnescapedPiece(e, p) = <<e[p]>>
    BY <1>3, <1>4, <1>6 DEF UnescapedPiece
  <2> QED
    BY <1>6, <2>1, <2>2 DEF p
<1> QED
    BY <1>5, <1>6

LEMMA UnescapeReads ==
    ASSUME NEW X, Signs \subseteq X, NEW s \in Seq(X), NEW e \in Seq(X), NEW o, Spelled(s, e, o)
    PROVE  unescapeToolText(e) = s
<1> DEFINE n == Len(s)
           l == Len(e)
           r == [p \in 1..l |-> UnescapedPiece(e, p)]
<1>0. n \in Nat /\ l \in Nat /\ o[0] = 0 /\ o[n] = l /\ DOMAIN e = 1..l
    BY LenProperties DEF Spelled
<1>1. unescapeToolText(e) = FlattenSeq(r)
    BY <1>0 DEF unescapeToolText
<1>2. ASSUME NEW i \in 1..n
      PROVE  /\ s[i] \in X /\ o[i - 1] \in Nat /\ o[i] \in Nat /\ o[i] <= l
             /\ o[i - 1] + 1 \in 1..l /\ r[o[i - 1] + 1] = <<s[i]>>
             /\ Twofold(s, i) => /\ o[i] = o[i - 1] + 2 /\ o[i] \in 1..l /\ r[o[i]] = <<>>
             /\ ~Twofold(s, i) => o[i] = o[i - 1] + 1
  <2> DEFINE u == o[i - 1]
             v == o[i]
  <2>1. SpelledAt(s, e, o, i)
    BY DEF Spelled
  <2>2. u \in Nat /\ v \in Nat /\ u < v /\ v <= l
    BY <2>1 DEF SpelledAt
  <2>3. (Twofold(s, i) => v = u + 2) /\ (~Twofold(s, i) => v = u + 1)
    BY <2>1 DEF SpelledAt
  <2>4. UnescapedPiece(e, u + 1) = <<s[i]>> /\ (Twofold(s, i) => UnescapedPiece(e, u + 2) = <<>>)
    BY UnescapedPieces
  <2>5. s[i] \in X
    BY ElementOfSeq
  <2> HIDE DEF u, v, n, l
  <2>6. u + 1 \in 1..l /\ v \in 1..l
    BY <1>0, <2>2
  <2>7. r[u + 1] = <<s[i]>>
    BY <2>4, <2>6
  <2>8. Twofold(s, i) => v = u + 2 /\ r[v] = <<>>
    BY <2>3, <2>4, <2>6
  <2> HIDE DEF r
  <2> QED
    BY <2>2, <2>3, <2>5, <2>6, <2>7, <2>8 DEF u, v
<1> HIDE DEF n, l
<1>3. ASSUME NEW p \in 1..l PROVE r[p] \in Seq(X)
  <2>1. PICK i \in 1..n : FromPiece(s, o, p, i)
    BY EveryPieceIsFrom DEF n, l
  <2> HIDE DEF r
  <2>2. r[p] = <<s[i]>> \/ r[p] = <<>>
    BY <1>2, <2>1 DEF FromPiece
  <2>3. s[i] \in X
    BY <1>2
  <2>4. <<s[i]>> \in Seq(X)
    BY <2>3, OnePiece
  <2>5. <<>> \in Seq(X)
    OBVIOUS
  <2> QED
    BY ONLY <2>2, <2>4, <2>5
<1>4. Rows(r, l, X)
    BY <1>3 DEF Rows
<1> HIDE DEF r
<1>5. PICK F : Parts(F, r, l, X) /\ FlattenSeq(r) = F[l]
    BY <1>0, <1>4, FlattenSteps
<1>6. ASSUME NEW i \in 0..l PROVE F[i] \in Seq(X)
    BY <1>5, <1>6 DEF Parts
<1>7. ASSUME NEW p \in 1..l PROVE Grown(F[p - 1], r[p], F[p])
    BY <1>0, <1>4, <1>5, PartStep
<1> DEFINE P == {i \in 0..n : Len(F[o[i]]) = i /\ \A k \in 1..i : F[o[i]][k] = s[k]}
<1>8. 0 \in P
  <2>1. F[o[0]] = <<>>
    BY <1>0, <1>5 DEF Parts
  <2>2. Len(F[o[0]]) = 0 /\ 1..0 = {}
    BY <2>1
  <2> QED
    BY <1>0, <2>2
<1>9. ASSUME NEW j \in 0..(n - 1), j \in P PROVE j + 1 \in P
  <2> DEFINE i == j + 1
             u == o[i - 1]
             v == o[i]
  <2>1. i \in 1..n /\ i \in 0..n /\ i - 1 = j
    BY <1>0
  <2> HIDE DEF i
  <2>2. Len(F[u]) = j /\ \A k \in 1..j : F[u][k] = s[k]
    BY <1>9, <2>1
  <2>3. /\ u \in Nat /\ u + 1 \in 1..l /\ r[u + 1] = <<s[i]>>
        /\ Twofold(s, i) => v = u + 2 /\ v \in 1..l /\ r[v] = <<>>
        /\ ~Twofold(s, i) => v = u + 1
    BY <1>2, <2>1
  <2> HIDE DEF u, v
  <2>4. (u + 1) - 1 = u
    BY <2>3
  <2>5. Grown(F[u], r[u + 1], F[u + 1])
    BY <1>7, <2>3, <2>4
  <2>6. Len(r[u + 1]) = 1 /\ r[u + 1][1] = s[i]
    BY <2>3
  <2>7. Len(F[u + 1]) = i /\ \A k \in 1..i : F[u + 1][k] = s[k]
    <3>1. Len(F[u + 1]) = j + 1 /\ (\A k \in 1..j : F[u + 1][k] = F[u][k]) /\ F[u + 1][j + 1] = r[u + 1][1]
        BY <2>2, <2>5, <2>6 DEF Grown
    <3>2. \A k \in 1..i : k \in 1..j \/ k = j + 1
        BY <2>1 DEF i
    <3>3. i = j + 1
        BY DEF i
    <3> QED
        BY <2>2, <2>6, <3>1, <3>2, <3>3
  <2>8. Len(F[v]) = i /\ \A k \in 1..i : F[v][k] = s[k]
    <3>1. CASE Twofold(s, i)
      <4>1. v = u + 2 /\ v \in 1..l /\ r[v] = <<>>
        BY <2>3, <3>1
      <4>2. v - 1 = u + 1
        BY ONLY <2>3, <4>1
      <4>3. Grown(F[u + 1], r[v], F[v])
        BY <1>7, <4>1, <4>2
      <4>4. Len(r[v]) = 0
        BY <4>1
      <4>5. Len(F[v]) = Len(F[u + 1]) /\ \A k \in 1..Len(F[u + 1]) : F[v][k] = F[u + 1][k]
        BY <4>3, <4>4 DEF Grown
      <4> QED
        BY <2>7, <4>5
    <3>2. CASE ~Twofold(s, i)
      <4>1. v = u + 1
        BY <2>3, <3>2
      <4> QED
        BY <2>7, <4>1
    <3> QED
        BY <3>1, <3>2
  <2> QED
    BY <2>1, <2>8 DEF i, v
<1>10. 0..n \subseteq P
  <2> HIDE DEF P
  <2> QED
    BY <1>0, <1>8, <1>9, Induction
<1>11. F[l] \in Seq(X) /\ Len(F[l]) = n /\ \A k \in 1..n : F[l][k] = s[k]
  <2>1. n \in P
    <3> HIDE DEF P
    <3> QED
        BY <1>0, <1>10
  <2>2. l \in 0..l
    BY <1>0
  <2> QED
    BY <1>0, <1>6, <2>1, <2>2
<1>12. F[l] = s
  <2> DEFINE f == F[l]
  <2>1. f \in Seq(X) /\ Len(f) = Len(s) /\ \A k \in 1..Len(f) : f[k] = s[k]
    BY <1>11 DEF n
  <2> HIDE DEF f
  <2>2. f = s
    BY <2>1, SeqEqual
  <2> QED
    BY <2>2 DEF f
<1> QED
    BY <1>1, <1>5, <1>12 DEF r

\* A text comes back as it was, and nothing in the escaped text closes the value
\* (dsml/tooltext.go), whatever the text.
THEOREM TextKeptTheorem ==
    ASSUME NEW X, NEW s \in Seq(X)
    PROVE  TextKept(s)
<1> DEFINE Y == X \cup Signs
           e == escapeToolText(s)
<1>1. Signs \subseteq Y /\ s \in Seq(Y)
  <2>1. X \subseteq Y
    OBVIOUS
  <2> QED
    BY <2>1, SeqMonotonic
<1> HIDE DEF Y
<1>2. e \in Seq(Y) /\ \E o : Spelled(s, e, o)
    BY <1>1, EscapeSpells
<1> HIDE DEF e
<1>3. PICK o : Spelled(s, e, o)
    BY <1>2
<1>4. unescapeToolText(e) = s
    BY <1>1, <1>2, <1>3, UnescapeReads
<1>5. Tags!At(e, End) = 0
  <2> DEFINE hits == {i \in 1..(Len(e) - Len(End) + 1) : SubSeq(e, i, i + Len(End) - 1) = End}
  <2>1. Len(End) = 2 /\ End[1] = "<" /\ End[2] = "/p>"
    BY DEF End
  <2>2. ASSUME NEW i \in 1..(Len(e) - 1), SubSeq(e, i, i + 1) = End PROVE FALSE
    <3>1. Len(e) \in Nat
        BY <1>2, LenProperties
    <3>2. i \in 1..Len(e) /\ i + 1 <= Len(e) /\ i + 1 \in 1..Len(e)
        BY <3>1
    <3>3. SubSeq(e, i, i + 1)[1] = e[i] /\ SubSeq(e, i, i + 1)[2] = e[i + 1]
        BY <1>2, <3>2
    <3>4. EndAt(e, i)
        BY <2>1, <2>2, <3>2, <3>3 DEF EndAt
    <3>5. ~EndAt(e, i)
        BY <1>1, <1>2, <1>3, <3>2, NoEndWithin
    <3> QED
        BY <3>4, <3>5
  <2>3. hits = {}
    <3>1. Len(e) \in Nat
        BY <1>2, LenProperties
    <3>2. ASSUME NEW i \in hits PROVE FALSE
      <4>1. Len(e) - Len(End) + 1 = Len(e) - 1 /\ i + Len(End) - 1 = i + 1
        BY <2>1, <3>1
      <4> QED
        BY <2>2, <4>1
    <3> QED
        BY <3>2
  <2> QED
    BY <2>3 DEF Tags!At
<1> QED
    BY <1>4, <1>5 DEF TextKept, e

-----------------------------------------------------------------------------
(* A list of models *)

\* What WithEncoders has, for names in A.
Plans(A) ==
    [requested : SUBSET (A \cup Published), added : Seq(Published), expanded : Seq(A \cup Published)]

\* What WithEncoders has after one more alias is lists of models again.
LEMMA ExpandIn ==
    ASSUME NEW A, NEW acc, acc \in Plans(A), NEW a, a \in A, NEW done
    PROVE  Expand(acc, a, done) \in Plans(A)
<1> DEFINE X == A \cup Published
           e == Encoder(a)
<1>1. acc.requested \in SUBSET X /\ acc.added \in Seq(Published) /\ acc.expanded \in Seq(X)
    BY DEF Plans
<1>2. acc.expanded \o <<a>> \in Seq(X) /\ Append(acc.expanded, a) \in Seq(X) /\ a \in X
  <2>1. a \in X
    OBVIOUS
  <2> HIDE DEF X
  <2>2. <<a>> \in Seq(X)
    BY <2>1, OnePiece
  <2> QED
    BY ONLY <1>1, <2>1, <2>2, ConcatProperties, AppendProperties
<1>3. CASE Brings(acc, a, done)
  <2>1. e \in Published
    BY <1>3 DEF Brings, Encoder
  <2>2. e \in X
    BY <2>1
  <2> HIDE DEF X, e
  <2>3. <<a, e>> \in Seq(X)
    BY <1>2, <2>2, TwoPieces
  <2>4. acc.expanded \o <<a, e>> \in Seq(X)
    BY ONLY <1>1, <2>3, ConcatProperties
  <2>5. Append(acc.added, e) \in Seq(Published)
    BY ONLY <1>1, <2>1, AppendProperties
  <2>6. acc.requested \cup {e} \in SUBSET X
    BY <1>1, <2>2
  <2>7. Expand(acc, a, done) = [requested |-> acc.requested \cup {e}, added |-> Append(acc.added, e),
                                expanded |-> acc.expanded \o <<a, e>>]
    BY <1>3 DEF Expand, e
  <2> QED
    BY <2>4, <2>5, <2>6, <2>7 DEF Plans, X
<1>4. CASE ~Brings(acc, a, done)
  <2>1. Expand(acc, a, done) = [acc EXCEPT !.expanded = Append(@, a)]
    BY <1>4 DEF Expand
  <2> QED
    BY <1>2, <2>1 DEF Plans
<1> QED
    BY <1>3, <1>4

\* The plan after each alias.
LEMMA ExpandedIs ==
    ASSUME NEW A, NEW asked, asked \in Seq(A), NEW done
    PROVE  /\ ExpandedBy(asked, done)[0] = [requested |-> Range(asked), added |-> <<>>, expanded |-> <<>>]
           /\ \A k \in 0..Len(asked) : ExpandedBy(asked, done)[k] \in Plans(A)
           /\ \A k \in 1..Len(asked) :
                ExpandedBy(asked, done)[k] = Expand(ExpandedBy(asked, done)[k - 1], asked[k], done)
<1> DEFINE n == Len(asked)
           X == Plans(A)
           b == [requested |-> Range(asked), added |-> <<>>, expanded |-> <<>>]
           steps == [i \in 1..n |-> [s \in X |-> Expand(s, asked[i], done)]]
           S == ExpandedBy(asked, done)
           Is(f) == f = [k \in 0..n |-> IF k = 0 THEN b ELSE Expand(f[k - 1], asked[k], done)]
<1>a. n \in Nat /\ \A i \in 1..n : asked[i] \in A
    BY LenProperties, ElementOfSeq
<1>b. b \in X
  <2>1. Range(asked) \subseteq A
    BY <1>a DEF Range
  <2>2. \A Y : <<>> \in Seq(Y)
    BY EmptySeq
  <2> QED
    BY <2>1, <2>2 DEF Plans
<1>1. Steps(steps, n, X)
  <2>1. ASSUME NEW i \in 1..n, NEW s \in X PROVE Expand(s, asked[i], done) \in X
    BY <1>a, ExpandIn
  <2> QED
    BY <2>1 DEF Steps
<1>2. \E f \in [0..n -> X] : f[0] = b /\ \A i \in 1..n : f[i] = steps[i][f[i - 1]]
  <2>1. n \in Nat
    BY <1>a
  <2> HIDE DEF steps, X, b, n, S, Is
  <2> QED
    BY ONLY <1>1, <1>b, <2>1, Recursion
<1>3. PICK f \in [0..n -> X] : f[0] = b /\ \A i \in 1..n : f[i] = steps[i][f[i - 1]]
    BY <1>2
<1>4. Is(f)
  <2>1. ASSUME NEW k \in 0..n, k # 0 PROVE f[k] = Expand(f[k - 1], asked[k], done)
    <3>1. k \in 1..n /\ k - 1 \in 0..n
        BY <2>1, <1>a
    <3>2. f[k - 1] \in X
        BY <3>1
    <3> HIDE DEF X, b
    <3> QED
        BY <3>1, <3>2, <1>3
  <2> HIDE DEF b, X, steps, S
  <2> QED
    BY <2>1, <1>3
<1>5. Is(S)
  <2>1. S = CHOOSE g : Is(g)
    BY DEF ExpandedBy
  <2> HIDE DEF Is, S
  <2> QED
    BY <1>4, <2>1
<1> HIDE DEF S, b, X
<1>6. S[0] = b /\ \A k \in 1..n : S[k] = Expand(S[k - 1], asked[k], done)
    BY <1>5, <1>a
<1> DEFINE P == {k \in 0..n : S[k] \in X}
<1>7. 0 \in P
    BY <1>a, <1>b, <1>6
<1>8. ASSUME NEW k \in 0..(n - 1), k \in P PROVE k + 1 \in P
  <2>1. k + 1 \in 1..n /\ k + 1 \in 0..n /\ (k + 1) - 1 = k
    BY <1>a
  <2>2. S[k + 1] = Expand(S[k], asked[k + 1], done) /\ S[k] \in X /\ asked[k + 1] \in A
    BY <1>6, <1>8, <1>a, <2>1
  <2>3. S[k + 1] \in X
    BY <2>2, ExpandIn DEF X
  <2> QED
    BY <2>1, <2>3
<1>9. 0..n \subseteq P
  <2>1. n \in Nat
    BY <1>a
  <2> HIDE DEF P, n
  <2> QED
    BY <2>1, <1>7, <1>8, Induction
<1> QED
    BY <1>6, <1>9 DEF S, b, X

\* What is so of the plan after k aliases: at says where they are in it.
Sorted(at, k) == \A i, j \in 1..k : i < j => at[i] < at[j]
HasPlace(at, k, p) == \E i \in 1..k : at[i] = p
Among(x, s) == \E i \in 1..Len(s) : s[i] = x
PlanSoFar(acc, asked, done, k, at) ==
    /\ acc.requested = Range(asked) \cup Range(acc.added)
    /\ \A i \in 1..Len(acc.added) : acc.added[i] \notin Range(asked) \cup done
    /\ \A i, j \in 1..Len(acc.added) : acc.added[i] = acc.added[j] => i = j
    /\ \A i \in 1..Len(acc.added) : Among(acc.added[i], acc.expanded)
    /\ Len(acc.expanded) = k + Len(acc.added)
    /\ at \in [1..k -> 1..Len(acc.expanded)] /\ Sorted(at, k)
    /\ \A i \in 1..k : acc.expanded[at[i]] = asked[i]
    /\ \A p \in 1..Len(acc.expanded) : ~HasPlace(at, k, p) =>
          /\ HasPlace(at, k, p - 1) /\ Among(acc.expanded[p], acc.added)
          /\ acc.expanded[p] = Encoder(acc.expanded[p - 1])
    /\ \A i \in 1..k : Encoder(asked[i]) \in {NoEncoder} \cup acc.requested \cup done

\* It is so of the plan after one more alias: the alias is put last, and then its
\* encoder where that is neither listed nor installed.
LEMMA PlanGoesOn ==
    ASSUME NEW A, NEW asked, asked \in Seq(A), NEW done, NEW k, k \in 1..Len(asked),
           NEW acc, acc \in Plans(A), NEW at, PlanSoFar(acc, asked, done, k - 1, at)
    PROVE  \E to : PlanSoFar(Expand(acc, asked[k], done), asked, done, k, to)
<1> DEFINE a == asked[k]
           e == Encoder(a)
           x == acc.expanded
           d == acc.added
           l == Len(x)
           m == Len(d)
           X == A \cup Published
           to == [i \in 1..k |-> IF i = k THEN l + 1 ELSE at[i]]
           next == Expand(acc, a, done)
           y == next.expanded
           h == next.added
<1>0. /\ x \in Seq(X) /\ d \in Seq(Published) /\ l \in Nat /\ m \in Nat /\ k \in Nat /\ k >= 1
      /\ a \in A /\ a \in X /\ a \in Range(asked)
  <2>1. x \in Seq(X) /\ d \in Seq(Published)
    BY DEF Plans
  <2>2. Len(asked) \in Nat /\ a \in A /\ DOMAIN asked = 1..Len(asked)
    BY LenProperties, ElementOfSeq
  <2>3. l \in Nat /\ m \in Nat
    BY <2>1, LenProperties
  <2> QED
    BY <2>1, <2>2, <2>3 DEF Range
<1>1. l = (k - 1) + m
    BY DEF PlanSoFar
<1>2. /\ at \in [1..(k - 1) -> 1..l] /\ Sorted(at, k - 1)
      /\ \A i \in 1..(k - 1) : x[at[i]] = asked[i]
    BY DEF PlanSoFar
<1> HIDE DEF a, x, d, l, m, X, next, y, h
\* What both cases append: the alias, and then perhaps its encoder.
<1>3. /\ y \in Seq(X) /\ Len(y) >= l + 1 /\ Len(y) \in Nat /\ h \in Seq(Published) /\ Len(h) \in Nat
      /\ (\A p \in 1..l : y[p] = x[p]) /\ y[l + 1] = a
      /\ \/ ~Brings(acc, a, done) /\ Len(y) = l + 1 /\ h = d /\ next.requested = acc.requested
         \/ /\ Brings(acc, a, done) /\ Len(y) = l + 2 /\ y[l + 2] = e /\ h \in Seq(Published)
            /\ Len(h) = m + 1 /\ (\A i \in 1..m : h[i] = d[i]) /\ h[m + 1] = e
            /\ next.requested = acc.requested \cup {e}
  <2>1. CASE Brings(acc, a, done)
    <3>1. e \in Published
        BY <2>1 DEF Brings, Encoder
    <3>2. e \in X
        BY <3>1 DEF X
    <3>3. /\ y = x \o <<a, e>> /\ h = Append(d, e) /\ next.requested = acc.requested \cup {e}
        BY <2>1 DEF Expand, y, h, next, x, d
    <3> HIDE DEF e
    <3> DEFINE w == <<a, e>>
    <3>4. w \in Seq(X) /\ Len(w) = 2 /\ w[1] = a /\ w[2] = e
        BY <1>0, <3>2, TwoPieces
    <3>5. Joined(x, w, y)
        BY <3>3 DEF Joined
    <3> HIDE DEF w
    <3>6. y \in Seq(X) /\ Grown(x, w, y)
        BY <1>0, <3>4, <3>5, JoinedAt
    <3>7. /\ Len(y) = l + 2 /\ (\A p \in 1..l : y[p] = x[p]) /\ y[l + 1] = a /\ y[l + 2] = e
        BY <3>4, <3>6 DEF Grown, l
    <3>8. h \in Seq(Published) /\ Len(h) = m + 1 /\ (\A i \in 1..m : h[i] = d[i]) /\ h[m + 1] = e
        BY <1>0, <3>1, <3>3, AppendProperties DEF m
    <3> QED
        BY <1>0, <2>1, <3>3, <3>6, <3>7, <3>8
  <2>2. CASE ~Brings(acc, a, done)
    <3>1. y = Append(x, a) /\ h = d /\ next.requested = acc.requested
        BY <2>2 DEF Expand, y, h, next, x, d, Plans
    <3>2. y \in Seq(X) /\ Len(y) = l + 1 /\ (\A p \in 1..l : y[p] = x[p]) /\ y[l + 1] = a
        BY <1>0, <3>1, AppendProperties DEF l
    <3>3. Len(h) = m
        BY <3>1 DEF m
    <3> QED
        BY <1>0, <2>2, <3>1, <3>2, <3>3
  <2> QED
    BY <2>1, <2>2
<1>4. /\ to \in [1..k -> 1..Len(y)] /\ Sorted(to, k)
      /\ \A i \in 1..(k - 1) : to[i] = at[i] /\ at[i] \in 1..l
      /\ to[k] = l + 1
  <2>1. \A i \in 1..k : i = k \/ i \in 1..(k - 1)
    BY <1>0
  <2>2. \A i \in 1..(k - 1) : i \in 1..k /\ i # k
    BY <1>0
  <2>3. k \in 1..k /\ l + 1 \in 1..Len(y) /\ \A p \in 1..l : p \in 1..Len(y) /\ p < l + 1
    BY <1>0, <1>3
  <2>4. \A i \in 1..(k - 1) : to[i] = at[i] /\ at[i] \in 1..l
    BY <1>2, <2>2
  <2>5. to[k] = l + 1
    BY <2>3
  <2>6. \A i, j \in 1..k : i < j => i \in 1..(k - 1)
    BY <1>0
  <2>7. Sorted(to, k)
    BY <1>2, <2>1, <2>3, <2>4, <2>5, <2>6 DEF Sorted
  <2>8. \A i \in 1..k : to[i] \in 1..Len(y)
    BY <2>1, <2>3, <2>4, <2>5
  <2> QED
    BY <2>4, <2>5, <2>7, <2>8
<1> HIDE DEF to
<1>5. \A i \in 1..k : y[to[i]] = asked[i]
  <2>1. \A i \in 1..k : i = k \/ i \in 1..(k - 1)
    BY <1>0
  <2>2. \A i \in 1..(k - 1) : y[to[i]] = asked[i]
    <3>1. \A i \in 1..(k - 1) : to[i] = at[i] /\ at[i] \in 1..l
        BY <1>4
    <3>2. \A p \in 1..l : y[p] = x[p]
        BY <1>3
    <3> QED
        BY <1>2, <3>1, <3>2
  <2>3. y[to[k]] = asked[k]
    BY <1>3, <1>4 DEF a
  <2> QED
    BY <2>1, <2>2, <2>3
<1>6. \A p \in 1..l : HasPlace(at, k - 1, p) => HasPlace(to, k, p)
  <2>1. \A i \in 1..(k - 1) : i \in 1..k
    BY <1>0
  <2> QED
    BY <1>4, <2>1 DEF HasPlace
<1>7. HasPlace(to, k, l + 1)
  <2>1. k \in 1..k
    BY <1>0
  <2> QED
    BY <1>4, <2>1 DEF HasPlace
<1>8. ASSUME NEW z, Among(z, d) PROVE Among(z, h)
  <2>1. PICK i \in 1..m : d[i] = z
    BY <1>8 DEF Among, m
  <2>2. h = d \/ (Len(h) = m + 1 /\ \A j \in 1..m : h[j] = d[j])
    BY <1>3
  <2>3. CASE h = d
    BY <1>8, <2>3
  <2>4. CASE Len(h) = m + 1 /\ \A j \in 1..m : h[j] = d[j]
    <3>1. i \in 1..Len(h) /\ h[i] = z
        BY <1>0, <2>1, <2>4
    <3> QED
        BY <3>1 DEF Among
  <2> QED
    BY <2>2, <2>3, <2>4
<1>9. ASSUME NEW z, Among(z, x) PROVE Among(z, y)
  <2>1. PICK i \in 1..l : x[i] = z
    BY <1>9 DEF Among, l
  <2>2. i \in 1..Len(y) /\ y[i] = z
    BY <1>0, <1>3, <2>1
  <2> QED
    BY <2>2 DEF Among
<1>10. ASSUME NEW p \in 1..Len(y), ~HasPlace(to, k, p)
       PROVE  HasPlace(to, k, p - 1) /\ Among(y[p], h) /\ y[p] = Encoder(y[p - 1])
  <2>1. CASE p \in 1..l
    <3>1. ~HasPlace(at, k - 1, p)
        BY <1>6, <1>10, <2>1
    <3>2. HasPlace(at, k - 1, p - 1) /\ Among(x[p], d) /\ x[p] = Encoder(x[p - 1])
        BY <2>1, <3>1 DEF PlanSoFar, x, d, l
    <3>3. PICK i \in 1..(k - 1) : at[i] = p - 1
        BY <3>2 DEF HasPlace
    <3>4. p - 1 \in 1..l
        BY <1>4, <3>3
    <3> QED
        BY <1>3, <1>6, <1>8, <2>1, <3>2, <3>4
  <2>2. CASE p \notin 1..l
    <3>1. p # l + 1
        BY <1>7, <1>10
    <3>2. Len(y) = l + 2 /\ p = l + 2
      <4>1. Len(y) = l + 1 \/ Len(y) = l + 2
        BY <1>3
      <4> QED
        BY <1>0, <1>3, <2>2, <3>1, <4>1
    <3>3. p - 1 = l + 1
        BY <1>0, <3>2
    <3>4. y[l + 2] = e /\ Len(h) = m + 1 /\ h[m + 1] = e
      <4>1. Len(y) # l + 1
        BY <1>0, <3>2
      <4> QED
        BY <1>3, <4>1
    <3>5. Among(e, h)
      <4>1. m + 1 \in 1..Len(h)
        BY <1>0, <3>4
      <4> QED
        BY <3>4, <4>1 DEF Among
    <3> QED
        BY <1>3, <1>7, <3>2, <3>3, <3>4, <3>5
  <2> QED
    BY <2>1, <2>2
<1>11. /\ next.requested = Range(asked) \cup Range(h)
       /\ \A i \in 1..Len(h) : h[i] \notin Range(asked) \cup done
       /\ \A i, j \in 1..Len(h) : h[i] = h[j] => i = j
       /\ \A i \in 1..Len(h) : Among(h[i], y)
       /\ Len(y) = k + Len(h)
       /\ e \in {NoEncoder} \cup next.requested \cup done
  <2>1. /\ acc.requested = Range(asked) \cup Range(d)
        /\ \A i \in 1..m : d[i] \notin Range(asked) \cup done
        /\ \A i, j \in 1..m : d[i] = d[j] => i = j
        /\ \A i \in 1..m : Among(d[i], x)
    BY DEF PlanSoFar, d, m, x
  <2>2. CASE ~Brings(acc, a, done)
    <3>1. h = d /\ Len(h) = m /\ next.requested = acc.requested /\ Len(y) = l + 1
        BY <1>3, <2>2 DEF m
    <3>2. e \in {NoEncoder} \cup acc.requested \cup done
        BY <2>2 DEF Brings
    <3>3. Len(y) = k + Len(h)
        BY <1>0, <1>1, <3>1
    <3> QED
        BY <1>9, <2>1, <3>1, <3>2, <3>3
  <2>3. CASE Brings(acc, a, done)
    <3>1. /\ Len(y) = l + 2 /\ y[l + 2] = e
          /\ Len(h) = m + 1 /\ (\A i \in 1..m : h[i] = d[i]) /\ h[m + 1] = e
          /\ next.requested = acc.requested \cup {e}
        BY <1>3, <2>3
    <3>2. e \notin acc.requested /\ e \notin done
        BY <2>3 DEF Brings
    <3>3. \A i \in 1..Len(h) : i \in 1..m \/ i = m + 1
        BY <1>0, <3>1
    <3>4. DOMAIN h = 1..(m + 1) /\ DOMAIN d = 1..m
        BY <1>0, <1>3, <3>1, LenProperties DEF m
    <3>5. Range(h) = Range(d) \cup {e}
      <4>1. \A i \in 1..(m + 1) : i \in 1..m \/ i = m + 1
        BY <1>0
      <4>2. m + 1 \in 1..(m + 1) /\ \A i \in 1..m : i \in 1..(m + 1)
        BY <1>0
      <4> HIDE DEF e
      <4> QED
        BY <3>1, <3>4, <4>1, <4>2 DEF Range
    <3>6. \A i \in 1..m : d[i] \in acc.requested
        BY <2>1, <3>4 DEF Range
    <3>7. \A i \in 1..Len(h) : h[i] \notin Range(asked) \cup done
        BY <2>1, <3>1, <3>2, <3>3
    <3>8. \A i, j \in 1..Len(h) : h[i] = h[j] => i = j
        BY <2>1, <3>1, <3>2, <3>3, <3>6
    <3>9. Among(e, y)
      <4>1. l + 2 \in 1..Len(y)
        BY <1>0, <3>1
      <4> QED
        BY <3>1, <4>1 DEF Among
    <3>10. \A i \in 1..Len(h) : Among(h[i], y)
        BY <1>9, <2>1, <3>1, <3>3, <3>9
    <3>11. Len(y) = k + Len(h)
        BY <1>0, <1>1, <3>1
    <3> QED
        BY <2>1, <3>1, <3>5, <3>7, <3>8, <3>10, <3>11
  <2> QED
    BY <2>2, <2>3
<1>12. \A i \in 1..k : Encoder(asked[i]) \in {NoEncoder} \cup next.requested \cup done
  <2>1. \A i \in 1..k : i = k \/ i \in 1..(k - 1)
    BY <1>0
  <2>2. acc.requested \subseteq next.requested
    BY <1>3
  <2>3. \A i \in 1..(k - 1) : Encoder(asked[i]) \in {NoEncoder} \cup acc.requested \cup done
    BY DEF PlanSoFar
  <2> QED
    BY <1>11, <2>1, <2>2, <2>3 DEF a
<1>13. PlanSoFar(next, asked, done, k, to)
    BY <1>4, <1>5, <1>10, <1>11, <1>12 DEF PlanSoFar, y, h
<1> QED
    BY <1>13 DEF next, a

\* It is so of the whole plan.
LEMMA PlanStands ==
    ASSUME NEW A, NEW asked, asked \in Seq(A), NEW done
    PROVE  /\ WithEncoders(asked, done) \in Plans(A)
           /\ \E at : PlanSoFar(WithEncoders(asked, done), asked, done, Len(asked), at)
<1> DEFINE n == Len(asked)
           S == ExpandedBy(asked, done)
           P == {k \in 0..n : \E at : PlanSoFar(S[k], asked, done, k, at)}
<1>0. /\ S[0] = [requested |-> Range(asked), added |-> <<>>, expanded |-> <<>>]
      /\ \A k \in 0..n : S[k] \in Plans(A)
      /\ \A k \in 1..n : S[k] = Expand(S[k - 1], asked[k], done)
    BY ExpandedIs
<1>1. n \in Nat
    BY LenProperties
<1> HIDE DEF S
<1>2. 0 \in P
  <2> DEFINE b == [requested |-> Range(asked), added |-> <<>>, expanded |-> <<>>]
             at == [i \in 1..0 |-> 1]
  <2>1. Len(<<>>) = 0 /\ 1..0 = {} /\ Range(<<>>) = {}
    BY DEF Range
  <2>2. PlanSoFar(b, asked, done, 0, at)
    BY <2>1 DEF PlanSoFar, Sorted, HasPlace, Among
  <2> QED
    BY <1>0, <1>1, <2>2
<1>3. ASSUME NEW k \in 0..(n - 1), k \in P PROVE k + 1 \in P
  <2> DEFINE j == k + 1
  <2>1. j \in 1..n /\ j \in 0..n /\ j - 1 = k /\ k \in 0..n
    BY <1>1
  <2>2. PICK at : PlanSoFar(S[k], asked, done, k, at)
    BY <1>3
  <2> HIDE DEF j
  <2>3. S[j] = Expand(S[k], asked[j], done) /\ S[k] \in Plans(A)
    BY <1>0, <2>1
  <2>4. PlanSoFar(S[k], asked, done, j - 1, at)
    BY <2>1, <2>2
  <2>5. \E to : PlanSoFar(Expand(S[k], asked[j], done), asked, done, j, to)
    BY ONLY <2>1, <2>3, <2>4, asked \in Seq(A), PlanGoesOn
  <2>6. \E to : PlanSoFar(S[j], asked, done, j, to)
    BY <2>3, <2>5
  <2>7. j \in P
    BY <2>1, <2>6
  <2> QED
    BY <2>7 DEF j
<1>4. 0..n \subseteq P
  <2> HIDE DEF P, n
  <2> QED
    BY <1>1, <1>2, <1>3, Induction
<1>5. n \in 0..n
    BY <1>1
<1> QED
    BY <1>0, <1>4, <1>5 DEF WithEncoders, S

\* WithEncoders keeps what was asked for in its order and puts each encoder right
\* after its model, once, and none that is installed.
LEMMA EncodersSlot ==
    ASSUME NEW A, NEW asked, asked \in Seq(A), NEW done
    PROVE  EncodersSlotIn(asked, done, WithEncoders(asked, done))
<1> DEFINE plan == WithEncoders(asked, done)
           n == Len(asked)
<1>1. plan \in Plans(A) /\ \E at : PlanSoFar(plan, asked, done, n, at)
    BY PlanStands
<1> HIDE DEF plan
<1>2. PICK at : PlanSoFar(plan, asked, done, n, at)
    BY <1>1
<1> DEFINE x == plan.expanded
           d == plan.added
<1>3. /\ DOMAIN asked = 1..n /\ DOMAIN x = 1..Len(x) /\ DOMAIN d = 1..Len(d)
      /\ n \in Nat /\ Len(x) \in Nat /\ Len(d) \in Nat
  <2>1. x \in Seq(A \cup Published) /\ d \in Seq(Published)
    BY <1>1 DEF Plans
  <2> HIDE DEF x, d
  <2> QED
    BY <2>1, LenProperties
<1>4. /\ \A i \in 1..Len(d) : d[i] \notin Range(asked) \cup done
      /\ \A i, j \in 1..Len(d) : d[i] = d[j] => i = j
      /\ Len(x) = n + Len(d)
      /\ at \in [1..n -> 1..Len(x)] /\ Sorted(at, n)
      /\ \A i \in 1..n : x[at[i]] = asked[i]
      /\ \A p \in 1..Len(x) : ~HasPlace(at, n, p) =>
            HasPlace(at, n, p - 1) /\ Among(x[p], d) /\ x[p] = Encoder(x[p - 1])
    BY <1>2 DEF PlanSoFar
<1> HIDE DEF x, d, n
<1>5. \A p : HasPlace(at, n, p) <=> p \in Range(at)
    BY <1>4 DEF HasPlace, Range
<1>6. \A z : Among(z, d) => z \in Range(d)
    BY <1>3 DEF Among, Range
<1>7. IsInjective(d) /\ Range(d) \cap (Range(asked) \cup done) = {}
    BY <1>3, <1>4 DEF IsInjective, Range
<1>8. \A i, j \in DOMAIN asked : i < j => at[i] < at[j]
    BY <1>3, <1>4 DEF Sorted
<1>9. \A p \in DOMAIN x \ Range(at) :
          p - 1 \in Range(at) /\ x[p] \in Range(d) /\ x[p] = Encoder(x[p - 1])
  <2> SUFFICES ASSUME NEW p \in DOMAIN x \ Range(at)
               PROVE  p - 1 \in Range(at) /\ x[p] \in Range(d) /\ x[p] = Encoder(x[p - 1])
    OBVIOUS
  <2>1. ~HasPlace(at, n, p) /\ p \in 1..Len(x)
    BY <1>3, <1>5
  <2>2. HasPlace(at, n, p - 1) /\ Among(x[p], d) /\ x[p] = Encoder(x[p - 1])
    BY <1>4, <2>1
  <2> QED
    BY <1>5, <1>6, <2>2
<1>10. at \in [DOMAIN asked -> DOMAIN x] /\ \A i \in DOMAIN asked : x[at[i]] = asked[i]
    BY <1>3, <1>4
<1>11. EncodersSlotIn(asked, done, plan)
    BY <1>4, <1>7, <1>8, <1>9, <1>10 DEF EncodersSlotIn, x, d, n
<1> QED
    BY <1>11 DEF plan

-----------------------------------------------------------------------------
(* What the downloads do to the disk *)

\* The disks there may be, whether or not it is known how much is free.
DiskIs == [done : SUBSET Published, have : [Published -> Nat], free : Nat, told : BOOLEAN]

\* What a model still takes is at most what its download takes in the meantime, at
\* most what the check of the list counts for it and at most what its own check asks
\* for, where these count and ask for enough.
LEMMA Weights ==
    ASSUME CatalogIs, NEW disk \in DiskIs, NEW a \in Published, NEW silent
    PROVE  /\ Rest(a, disk) \in Nat /\ Peak(a, disk) \in Nat /\ Rest(a, disk) <= Peak(a, disk)
           /\ Need(a, disk, silent) \in Nat /\ Lacking(a, disk) \in Nat
           /\ a \in disk.done => Lacking(a, disk) = 0
           /\ Leaves(a) <= Counted(a) /\ a \notin disk.done => Rest(a, disk) <= Lacking(a, disk)
           /\ Asks(a, silent) <= Counted(a) /\ a \notin disk.done =>
                Need(a, disk, silent) <= Lacking(a, disk)
           /\ Leaves(a) <= Asks(a, silent) => Peak(a, disk) <= Need(a, disk, silent)
           /\ Leaves(a) <= Counted(a) => Leaves(a) <= Asks(a, silent)
<1> DEFINE c == Catalog[a]
           l == Leaves(a)
           t == Total(a)
           n == Counted(a)
           q == Asks(a, silent)
           h == disk.have[a]
<1>1. /\ c.kind \in {"plain", "join", "merge"} /\ c.size \in Nat /\ c.scratch \in Nat
      /\ c.listed \in Nat /\ (c.kind = "plain" => c.scratch = 0)
    BY DEF CatalogIs, Kinds
<1>2. h \in Nat
    BY DEF DiskIs
<1>3. /\ l \in Nat /\ t \in Nat /\ n \in Nat /\ q \in Nat /\ l <= t
      /\ q = t \/ (q = n /\ l = t)
  <2> DEFINE s == c.size
             r == c.scratch
             g == c.listed
  <2>1. s \in Nat /\ r \in Nat /\ g \in Nat
    BY <1>1
  <2>2. t = s + r
    BY DEF Total
  <2>3. CASE c.kind = "merge"
    <3>1. l = s + r /\ n = t /\ q = t
        BY <2>3 DEF Leaves, Counted, Asks
    <3> HIDE DEF s, r, g, l, t, n, q
    <3>2. l \in Nat /\ t \in Nat /\ n \in Nat /\ q \in Nat /\ l <= t /\ q = t
        BY <2>1, <2>2, <3>1
    <3> QED
        BY <3>2
  <2>4. CASE c.kind # "merge"
    <3>1. l = s + 0 /\ n = g /\ (q = t \/ (q = g /\ c.kind = "plain"))
        BY <2>4 DEF Leaves, Counted, Asks
    <3>2. c.kind = "plain" => r = 0
        BY <1>1
    <3> HIDE DEF s, r, g, l, t, n, q, c
    <3>3. l \in Nat /\ t \in Nat /\ l <= t /\ (r = 0 => l = t)
        BY <2>1, <2>2, <3>1
    <3> QED
        BY <2>1, <3>1, <3>2, <3>3
  <2> QED
    BY <2>3, <2>4
<1>4. /\ Rest(a, disk) = Positive(l - h) /\ Peak(a, disk) = Positive(t - h)
      /\ Need(a, disk, silent) = Positive(q - h)
      /\ Lacking(a, disk) = IF a \in disk.done THEN 0 ELSE Positive(n - h)
    BY DEF Rest, Peak, Need, Lacking
<1> HIDE DEF c, l, t, n, q, h
<1>5. \A x \in Nat, y \in Nat : x <= y => Positive(x - h) <= Positive(y - h)
    BY <1>2 DEF Positive
<1>6. \A x \in Nat : Positive(x - h) \in Nat
    BY <1>2 DEF Positive
<1>7. /\ Rest(a, disk) \in Nat /\ Peak(a, disk) \in Nat /\ Rest(a, disk) <= Peak(a, disk)
      /\ Need(a, disk, silent) \in Nat /\ Lacking(a, disk) \in Nat
      /\ a \in disk.done => Lacking(a, disk) = 0
    BY <1>3, <1>4, <1>5, <1>6
<1>8. /\ l <= n /\ a \notin disk.done => Rest(a, disk) <= Lacking(a, disk)
      /\ q <= n /\ a \notin disk.done => Need(a, disk, silent) <= Lacking(a, disk)
    BY <1>3, <1>4, <1>5
<1>9. /\ l <= q => t <= q
      /\ l <= n => l <= q
    BY <1>3
<1>10. l <= q => Peak(a, disk) <= Need(a, disk, silent)
    BY <1>3, <1>4, <1>5, <1>9
<1> QED
    BY <1>7, <1>8, <1>9, <1>10 DEF l, n, q

\* What a download that fails leaves is no more than it takes, or than there is.
LEMMA LeastOfThree ==
    ASSUME NEW a \in Nat, NEW b \in Nat, NEW c \in Nat
    PROVE  Min({a, b, c}) \in Nat /\ Min({a, b, c}) <= a /\ Min({a, b, c}) <= b
<1> DEFINE S == {a, b, c}
<1>1. \E x \in S : \A y \in S : x <= y
  <2>1. S \subseteq Nat /\ S # {}
    OBVIOUS
  <2> HIDE DEF S
  <2> QED
    BY <2>1, LeastNat
<1>2. Min(S) \in S /\ \A y \in S : Min(S) <= y
  <2> HIDE DEF S
  <2> QED
    BY <1>1 DEF Min
<1> QED
    BY <1>2

\* What one download may end with.
Errors == {"none", "failed", "space"}

\* One download: what it may do to the disk.
Done(r, a, disk, force, silent) ==
    /\ r.disk \in DiskIs /\ r.error \in Errors /\ r.disk.told = disk.told
    /\ disk.done \subseteq r.disk.done
    /\ r.error = "none" => r.disk.done = disk.done \cup {a}
    /\ r.error # "none" => r.disk.done = disk.done
    /\ r.error = "space" => a \notin disk.done /\ NoRoom(a, disk, force, silent)
    /\ r.error = "none" => \A b \in Published \ r.disk.done : r.disk.have[b] = disk.have[b]
    /\ r.error = "none" => r.disk.free = disk.free - (IF a \in disk.done THEN 0 ELSE Rest(a, disk))
    /\ a \in disk.done \/ r.error = "space" => r.disk = disk
    /\ /\ a \notin disk.done /\ r.error # "space" /\ ~force /\ disk.told
       /\ Leaves(a) <= Asks(a, silent)
       => r.disk.free >= Reserve

\* Download does no more to the disk than that.
LEMMA DownloadDone ==
    ASSUME CatalogIs, NEW disk \in DiskIs, NEW a \in Published, NEW force \in BOOLEAN, NEW net
    PROVE  Done(Download(disk, a, force, net), a, disk, force, net.silent)
<1> DEFINE r == Download(disk, a, force, net)
           e == net.silent
           p == Peak(a, disk)
           q == Rest(a, disk)
           f == disk.free
           need == Need(a, disk, e)
<1>1. p \in Nat /\ q \in Nat /\ q <= p /\ f \in Nat
    BY Weights DEF DiskIs
<1>2. need \in Nat /\ (Leaves(a) <= Asks(a, e) => p <= need)
    BY Weights
<1>3. CASE a \in disk.done
  <2>1. r.disk = disk /\ r.error \in {"none", "failed"}
    BY <1>3 DEF Download
  <2>2. disk.free = disk.free - 0
    BY <1>1
  <2> HIDE DEF r, e
  <2>3. Done(r, a, disk, force, e)
    BY <1>3, <2>1, <2>2 DEF Done, Errors
  <2> QED
    BY <2>3 DEF r, e
<1>4. CASE a \notin disk.done /\ NoRoom(a, disk, force, net.silent)
  <2>1. r.disk = disk /\ r.error = "space"
    BY <1>4 DEF Download
  <2> HIDE DEF r
  <2>2. Done(r, a, disk, force, net.silent)
    BY <1>4, <2>1 DEF Done, Errors
  <2> QED
    BY <2>2 DEF r
<1>5. ASSUME a \notin disk.done, ~NoRoom(a, disk, force, net.silent), ~force, disk.told,
             Leaves(a) <= Asks(a, net.silent)
      PROVE  f >= p + 2
    BY <1>1, <1>2, <1>5 DEF NoRoom, Reserve
<1>6. CASE /\ a \notin disk.done /\ ~NoRoom(a, disk, force, net.silent)
           /\ a \in net.fails \/ disk.free < Peak(a, disk)
  <2> DEFINE m == IF f < p THEN f ELSE 1
             n == Min({q, f, m})
  <2>0. m \in Nat
    BY <1>1
  <2>1. n \in Nat /\ n <= q /\ n <= f
    <3> HIDE DEF m
    <3> QED
        BY <1>1, <2>0, LeastOfThree
  <2>2. r.error = "failed" /\ r.disk = Partly(a, disk)
    BY <1>6 DEF Download
  <2>3. Partly(a, disk) = [disk EXCEPT !.have[a] = @ + n, !.free = @ - n]
    BY DEF Partly
  <2> HIDE DEF m, n, r
  <2>4. disk.have[a] \in Nat
    BY DEF DiskIs
  <2> DEFINE g == f - n
             h == disk.have[a] + n
  <2>5. g \in Nat /\ h \in Nat
    BY <1>1, <2>1, <2>4
  <2>6. r.disk = [disk EXCEPT !.have = [@ EXCEPT ![a] = h], !.free = g]
    BY <2>2, <2>3
  <2>7. ~force /\ disk.told /\ Leaves(a) <= Asks(a, net.silent) => g >= Reserve
    BY <1>1, <1>5, <1>6, <2>1 DEF Reserve
  <2> HIDE DEF g, h
  <2>8. r.disk \in DiskIs /\ r.disk.told = disk.told /\ r.disk.done = disk.done /\ r.disk.free = g
    BY ZenonT(60), <2>5, <2>6 DEF DiskIs
  <2>9. Done(r, a, disk, force, net.silent)
    BY <1>6, <2>2, <2>7, <2>8 DEF Done, Errors
  <2> QED
    BY <2>9 DEF r
<1>7. CASE /\ a \notin disk.done /\ ~NoRoom(a, disk, force, net.silent)
           /\ ~(a \in net.fails \/ disk.free < Peak(a, disk))
  <2>1. r.error = "none" /\ r.disk = Installed(a, disk)
    BY <1>7 DEF Download
  <2>2. Installed(a, disk) = [disk EXCEPT !.done = @ \cup {a}, !.free = @ - q, !.have[a] = 0]
    BY DEF Installed
  <2> DEFINE g == f - q
  <2>3. g \in Nat
    BY <1>1, <1>7
  <2>4. r.disk = [disk EXCEPT !.done = @ \cup {a}, !.free = g, !.have = [@ EXCEPT ![a] = 0]]
    BY <2>1, <2>2
  <2>5. ~force /\ disk.told /\ Leaves(a) <= Asks(a, net.silent) => g >= Reserve
    BY <1>1, <1>5, <1>7 DEF Reserve
  <2>6. g = disk.free - (IF a \in disk.done THEN 0 ELSE Rest(a, disk))
    BY <1>7
  <2> HIDE DEF g, r
  <2>7. /\ r.disk \in DiskIs /\ r.disk.told = disk.told /\ r.disk.done = disk.done \cup {a}
        /\ r.disk.free = g /\ \A b \in Published \ r.disk.done : r.disk.have[b] = disk.have[b]
    <3> DEFINE w == [disk.have EXCEPT ![a] = 0]
    <3>1. w \in [Published -> Nat] /\ \A b \in Published \ {a} : w[b] = disk.have[b]
        BY DEF DiskIs
    <3>2. /\ r.disk = [disk EXCEPT !.done = @ \cup {a}, !.free = g, !.have = w]
        BY <2>4
    <3> HIDE DEF w
    <3>3. /\ r.disk \in DiskIs /\ r.disk.told = disk.told /\ r.disk.done = disk.done \cup {a}
          /\ r.disk.free = g /\ r.disk.have = w
      <4>1. r.disk = [done |-> disk.done \cup {a}, have |-> w, free |-> g, told |-> disk.told]
        BY <3>2 DEF DiskIs
      <4>2. disk.done \cup {a} \in SUBSET Published /\ disk.told \in BOOLEAN
        BY DEF DiskIs
      <4> QED
        BY ONLY <2>3, <3>1, <4>1, <4>2 DEF DiskIs
    <3> QED
        BY <3>1, <3>3
  <2>8. Done(r, a, disk, force, net.silent)
    BY <1>7, <2>1, <2>5, <2>6, <2>7 DEF Done, Errors
  <2> QED
    BY <2>8 DEF r
<1> QED
    BY <1>3, <1>4, <1>6, <1>7

\* What DownloadMany may have when it is past the first checks.
Results == [disk : DiskIs, error : Errors, installed : Seq(Published)]

\* The loop of DownloadMany goes from one result to another.
LEMMA DownloadNextIn ==
    ASSUME CatalogIs, NEW acc, acc \in Results, NEW a \in Published, NEW force \in BOOLEAN, NEW net
    PROVE  DownloadNext(acc, a, force, net) \in Results
<1> DEFINE r == Download(acc.disk, a, force, net)
<1>1. acc.disk \in DiskIs /\ acc.installed \in Seq(Published)
    BY DEF Results
<1>2. Done(r, a, acc.disk, force, net.silent)
    BY <1>1, DownloadDone
<1>3. r.disk \in DiskIs /\ r.error \in Errors
    BY <1>2 DEF Done
<1>4. Append(acc.installed, a) \in Seq(Published)
    BY <1>1, AppendProperties
<1> HIDE DEF r
<1>5. CASE acc.error # "none"
    BY <1>5 DEF DownloadNext
<1>6. CASE acc.error = "none"
  <2> DEFINE s == IF r.error = "none" THEN Append(acc.installed, a) ELSE acc.installed
  <2>1. DownloadNext(acc, a, force, net) = [disk |-> r.disk, error |-> r.error, installed |-> s]
    BY <1>6 DEF DownloadNext, r
  <2>2. s \in Seq(Published)
    BY <1>1, <1>4
  <2> HIDE DEF s
  <2> QED
    BY <1>3, <2>1, <2>2 DEF Results
<1> QED
    BY <1>5, <1>6

\* The result after each model of the list.
LEMMA DownloadsAre ==
    ASSUME CatalogIs, NEW list, list \in Seq(Published), NEW disk \in DiskIs, NEW force \in BOOLEAN, NEW net
    PROVE  /\ Downloads(list, disk, force, net)[0] = Stopped(disk, "none")
           /\ \A k \in 0..Len(list) : Downloads(list, disk, force, net)[k] \in Results
           /\ \A k \in 1..Len(list) :
                Downloads(list, disk, force, net)[k] =
                    DownloadNext(Downloads(list, disk, force, net)[k - 1], list[k], force, net)
<1> DEFINE n == Len(list)
           X == Results
           b == Stopped(disk, "none")
           steps == [i \in 1..n |-> [s \in X |-> DownloadNext(s, list[i], force, net)]]
           S == Downloads(list, disk, force, net)
           Is(f) == f = [k \in 0..n |-> IF k = 0 THEN b ELSE DownloadNext(f[k - 1], list[k], force, net)]
<1>a. n \in Nat /\ \A i \in 1..n : list[i] \in Published
    BY LenProperties, ElementOfSeq
<1>b. b \in X
  <2>1. <<>> \in Seq(Published)
    BY EmptySeq
  <2> QED
    BY <2>1 DEF Results, Stopped, Errors
<1>1. Steps(steps, n, X)
  <2>1. ASSUME NEW i \in 1..n, NEW s \in X PROVE DownloadNext(s, list[i], force, net) \in X
    BY <1>a, DownloadNextIn
  <2> QED
    BY <2>1 DEF Steps
<1>2. \E f \in [0..n -> X] : f[0] = b /\ \A i \in 1..n : f[i] = steps[i][f[i - 1]]
  <2>1. n \in Nat
    BY <1>a
  <2> HIDE DEF steps, X, b, n, S, Is
  <2> QED
    BY ONLY <1>1, <1>b, <2>1, Recursion
<1>3. PICK f \in [0..n -> X] : f[0] = b /\ \A i \in 1..n : f[i] = steps[i][f[i - 1]]
    BY <1>2
<1>4. Is(f)
  <2>1. ASSUME NEW k \in 0..n, k # 0 PROVE f[k] = DownloadNext(f[k - 1], list[k], force, net)
    <3>1. k \in 1..n /\ k - 1 \in 0..n
        BY <2>1, <1>a
    <3>2. f[k - 1] \in X
        BY <3>1
    <3> HIDE DEF X, b
    <3> QED
        BY <3>1, <3>2, <1>3
  <2> HIDE DEF b, X, steps, S
  <2> QED
    BY <2>1, <1>3
<1>5. Is(S)
  <2>1. S = CHOOSE g : Is(g)
    BY DEF Downloads
  <2> HIDE DEF Is, S
  <2> QED
    BY <1>4, <2>1
<1> HIDE DEF S, b, X
<1>6. S[0] = b /\ \A k \in 1..n : S[k] = DownloadNext(S[k - 1], list[k], force, net)
    BY <1>5, <1>a
<1> DEFINE P == {k \in 0..n : S[k] \in X}
<1>7. 0 \in P
    BY <1>a, <1>b, <1>6
<1>8. ASSUME NEW k \in 0..(n - 1), k \in P PROVE k + 1 \in P
  <2>1. k + 1 \in 1..n /\ k + 1 \in 0..n /\ (k + 1) - 1 = k
    BY <1>a
  <2>2. S[k + 1] = DownloadNext(S[k], list[k + 1], force, net) /\ S[k] \in X /\ list[k + 1] \in Published
    BY <1>6, <1>8, <1>a, <2>1
  <2>3. S[k + 1] \in X
    BY <2>2, DownloadNextIn DEF X
  <2> QED
    BY <2>1, <2>3
<1>9. 0..n \subseteq P
  <2>1. n \in Nat
    BY <1>a
  <2> HIDE DEF P, n
  <2> QED
    BY <2>1, <1>7, <1>8, Induction
<1> QED
    BY <1>6, <1>9 DEF S, b, X

\* The sum of what is lacking, model by model.
RunningSums(R, list, disk) ==
    /\ R[0] = 0 /\ \A k \in 0..Len(list) : R[k] \in Nat
    /\ \A k \in 1..Len(list) : R[k] = R[k - 1] + Lacking(list[k], disk)

\* checkCombinedDiskSpace adds up what is lacking of each model.
LEMMA RemainingIs ==
    ASSUME CatalogIs, NEW list, list \in Seq(Published), NEW disk \in DiskIs
    PROVE  RunningSums(Remaining(list, disk), list, disk)
<1> DEFINE n == Len(list)
           steps == [i \in 1..n |-> [s \in Nat |-> s + Lacking(list[i], disk)]]
           S == Remaining(list, disk)
           Is(f) == f = [k \in 0..n |-> IF k = 0 THEN 0 ELSE f[k - 1] + Lacking(list[k], disk)]
<1>a. n \in Nat /\ \A i \in 1..n : list[i] \in Published
    BY LenProperties, ElementOfSeq
<1>b. \A i \in 1..n : Lacking(list[i], disk) \in Nat
  <2> SUFFICES ASSUME NEW i \in 1..n PROVE Lacking(list[i], disk) \in Nat
    OBVIOUS
  <2> QED
    BY <1>a, Weights
<1>1. Steps(steps, n, Nat)
    BY <1>b DEF Steps
<1>2. \E f \in [0..n -> Nat] : f[0] = 0 /\ \A i \in 1..n : f[i] = steps[i][f[i - 1]]
  <2> DEFINE X == Nat
             z == 0
  <2>1. n \in Nat /\ z \in X
    BY <1>a
  <2>2. Steps(steps, n, X)
    BY <1>1
  <2> HIDE DEF steps, n, S, Is, X, z
  <2>3. \E f \in [0..n -> X] : f[0] = z /\ \A i \in 1..n : f[i] = steps[i][f[i - 1]]
    BY ONLY <2>1, <2>2, Recursion
  <2> QED
    BY <2>3 DEF X, z
<1>3. PICK f \in [0..n -> Nat] : f[0] = 0 /\ \A i \in 1..n : f[i] = steps[i][f[i - 1]]
    BY <1>2
<1>4. Is(f)
  <2>1. ASSUME NEW k \in 0..n, k # 0 PROVE f[k] = f[k - 1] + Lacking(list[k], disk)
    <3>1. k \in 1..n /\ k - 1 \in 0..n
        BY <2>1, <1>a
    <3>2. f[k - 1] \in Nat
        BY <3>1
    <3> QED
        BY <3>1, <3>2, <1>3
  <2> HIDE DEF steps, S
  <2> QED
    BY <2>1, <1>3
<1>5. Is(S)
  <2>1. S = CHOOSE g : Is(g)
    BY DEF Remaining
  <2> HIDE DEF Is, S
  <2> QED
    BY <1>4, <2>1
<1> HIDE DEF S
<1>6. S[0] = 0 /\ \A k \in 1..n : S[k] = S[k - 1] + Lacking(list[k], disk)
    BY <1>5, <1>a
<1> DEFINE P == {k \in 0..n : S[k] \in Nat}
<1>7. 0 \in P
    BY <1>a, <1>6
<1>8. ASSUME NEW k \in 0..(n - 1), k \in P PROVE k + 1 \in P
  <2> DEFINE j == k + 1
  <2>1. j \in 1..n /\ j \in 0..n /\ j - 1 = k
    BY <1>a
  <2> HIDE DEF j
  <2>2. S[j] = S[k] + Lacking(list[j], disk) /\ S[k] \in Nat /\ Lacking(list[j], disk) \in Nat
    BY <1>6, <1>8, <1>b, <2>1
  <2>3. S[j] \in Nat
    BY <2>2
  <2>4. j \in P
    BY <2>1, <2>3
  <2> QED
    BY <2>4 DEF j
<1>9. 0..n \subseteq P
  <2>1. n \in Nat
    BY <1>a
  <2> HIDE DEF P, n
  <2> QED
    BY <2>1, <1>7, <1>8, Induction
<1>10. RunningSums(S, list, disk)
    BY <1>6, <1>9 DEF RunningSums
<1> QED
    BY <1>10 DEF S

\* The sum so far is never more than the whole sum.
LEMMA SumsGrow ==
    ASSUME CatalogIs, NEW list, list \in Seq(Published), NEW disk \in DiskIs, NEW R, RunningSums(R, list, disk),
           NEW i, i \in 0..Len(list)
    PROVE  R[i] <= R[Len(list)]
<1> DEFINE n == Len(list)
           P == {k \in 0..n : k >= i => R[i] <= R[k]}
<1>0. n \in Nat /\ (\A k \in 1..n : list[k] \in Published) /\ \A k \in 0..n : R[k] \in Nat
    BY LenProperties, ElementOfSeq DEF RunningSums
<1>1. 0 \in P
    BY <1>0
<1>2. ASSUME NEW k \in 0..(n - 1), k \in P PROVE k + 1 \in P
  <2> DEFINE j == k + 1
  <2>1. j \in 1..n /\ j \in 0..n /\ j - 1 = k /\ k \in 0..n
    BY <1>0
  <2>2. R[j] = R[k] + Lacking(list[j], disk)
    <3> HIDE DEF j
    <3> QED
        BY <2>1 DEF RunningSums
  <2>3. Lacking(list[j], disk) \in Nat
    <3>1. list[j] \in Published
        BY <1>0, <2>1
    <3> QED
        BY <3>1, Weights
  <2>4. R[k] \in Nat /\ R[j] \in Nat /\ R[i] \in Nat
    BY <1>0, <2>1
  <2> DEFINE u == R[k]
             v == R[j]
             w == R[i]
             x == Lacking(list[j], disk)
  <2>5. v = u + x /\ x \in Nat /\ u \in Nat /\ v \in Nat /\ w \in Nat /\ (k >= i => w <= u)
    BY <1>2, <2>2, <2>3, <2>4
  <2>6. k + 1 = i => w = v
    OBVIOUS
  <2>7. CASE k >= i
    <3> HIDE DEF u, v, w, x
    <3>1. w <= v
        BY <2>5, <2>7
    <3> QED
        BY <2>1, <3>1 DEF w, v
  <2>8. CASE k < i
    <3>1. k + 1 >= i => k + 1 = i
        BY <2>8
    <3> HIDE DEF u, v, w, x
    <3>2. k + 1 >= i => w <= v
        BY <2>5, <2>6, <3>1
    <3> QED
        BY <2>1, <3>2 DEF w, v
  <2> QED
    BY <2>7, <2>8
<1>3. 0..n \subseteq P
  <2> HIDE DEF P, n
  <2> QED
    BY <1>0, <1>1, <1>2, Induction
<1>4. n \in P /\ n >= i
  <2>1. n \in 0..n /\ n >= i
    BY <1>0
  <2> HIDE DEF P
  <2> QED
    BY <1>3, <2>1
<1> QED
    BY <1>4

\* A list that was found to fit by a check that counts enough.
Fits(list, disk, silent) ==
    /\ Len(list) > 1 => Combined(list, disk)
    /\ CountsEnough(list, silent)

\* A check that counts enough asks for enough.
LEMMA CountedIsAsked ==
    ASSUME CatalogIs, NEW list, NEW silent, CountsEnough(list, silent), NEW disk \in DiskIs
    PROVE  AsksEnough(list, silent)
<1> SUFFICES ASSUME NEW i \in DOMAIN list, list[i] \in Published
             PROVE  Leaves(list[i]) <= Asks(list[i], silent)
    BY DEF AsksEnough
<1>1. Leaves(list[i]) <= Counted(list[i])
    BY DEF CountsEnough
<1> QED
    BY <1>1, Weights

\* What is so of the result after k models of the list.
ListSoFar(acc, disk, list, k, force, silent, R) ==
    /\ acc.disk.told = disk.told /\ disk.done \subseteq acc.disk.done
    /\ Len(acc.installed) <= k
    /\ \A i \in 1..Len(acc.installed) :
          acc.installed[i] = list[i] /\ acc.installed[i] \in acc.disk.done
    /\ acc.error = "none" => Len(acc.installed) = k
    /\ acc.error # "none" => Len(acc.installed) < k
    /\ \A b \in acc.disk.done \ disk.done : Among(b, acc.installed)
    /\ ~force /\ disk.told /\ acc.disk.done # disk.done /\ AsksEnough(list, silent) =>
          acc.disk.free >= Reserve
    /\ acc.error = "none" => \A b \in Published \ acc.disk.done : acc.disk.have[b] = disk.have[b]
    /\ acc.error = "none" /\ CountsEnough(list, silent) => acc.disk.free >= disk.free - R[k]
    /\ acc.error = "space" => ~force
    /\ acc.error = "space" /\ Fits(list, disk, silent) => acc.disk.done = disk.done

\* Where a list fits, none of its models after the first finds too little space.
LEMMA RoomForTheRest ==
    ASSUME CatalogIs, NEW list, list \in Seq(Published), NEW disk \in DiskIs, NEW R, RunningSums(R, list, disk),
           R = Remaining(list, disk), NEW force \in BOOLEAN, NEW silent, NEW k, k \in 1..Len(list),
           NEW acc, acc \in Results, ListSoFar(acc, disk, list, k - 1, force, silent, R),
           acc.error = "none", Fits(list, disk, silent), list[k] \notin acc.disk.done,
           NoRoom(list[k], acc.disk, force, silent)
    PROVE  acc.disk.done = disk.done
<1> SUFFICES ASSUME acc.disk.done # disk.done PROVE FALSE
    OBVIOUS
<1> DEFINE n == Len(list)
           a == list[k]
           d == acc.disk
           p == Need(a, d, silent)
           l == Lacking(a, disk)
           f == d.free
           g == disk.free
<1>1. n \in Nat /\ a \in Published /\ d \in DiskIs /\ acc.installed \in Seq(Published)
  <2>1. acc.disk \in DiskIs /\ acc.installed \in Seq(Published)
    BY DEF Results
  <2> QED
    BY <2>1, LenProperties, ElementOfSeq
<1>2. ~force /\ d.told /\ f < p + 2
    BY DEF NoRoom, Reserve
<1>3. disk.told /\ f >= 2
  <2>1. AsksEnough(list, silent)
    BY CountedIsAsked DEF Fits
  <2> QED
    BY <1>2, <2>1 DEF ListSoFar, Reserve
<1>4. k >= 2
  <2>1. disk.done \subseteq d.done
    BY DEF ListSoFar
  <2>2. PICK b \in d.done : b \notin disk.done
    BY <2>1
  <2>3. Among(b, acc.installed)
    BY <2>2 DEF ListSoFar
  <2>4. Len(acc.installed) >= 1 /\ Len(acc.installed) \in Nat
    BY <1>1, <2>3, LenProperties DEF Among
  <2>5. Len(acc.installed) <= k - 1
    BY DEF ListSoFar
  <2> QED
    BY <1>1, <2>4, <2>5
<1>5. /\ Combined(list, disk) /\ Asks(a, silent) <= Counted(a)
      /\ CountsEnough(list, silent) /\ AsksEnough(list, silent)
  <2>1. CountsEnough(list, silent) /\ Combined(list, disk)
    BY <1>1, <1>4 DEF Fits
  <2>2. AsksEnough(list, silent)
    BY <2>1, CountedIsAsked
  <2>3. k \in DOMAIN list
    BY <1>1, LenProperties
  <2> QED
    BY <1>1, <1>4, <2>1, <2>2, <2>3 DEF CountsEnough
<1>6. p <= l /\ p \in Nat /\ l \in Nat
  <2>1. a \notin disk.done
    BY DEF ListSoFar
  <2>2. d.have[a] = disk.have[a]
    BY <1>1 DEF ListSoFar
  <2>3. p = Need(a, disk, silent)
    BY <2>2 DEF Need
  <2> QED
    BY <1>1, <1>5, <2>1, <2>3, Weights
<1>7. f >= g - R[k - 1] /\ f \in Nat /\ g \in Nat
    BY <1>1, <1>5 DEF ListSoFar, DiskIs
<1>8. R[k] = R[k - 1] + l /\ R[k] \in Nat /\ R[k - 1] \in Nat /\ R[n] \in Nat
  <2>1. k \in 0..n /\ k - 1 \in 0..n /\ n \in 0..n
    BY <1>1
  <2> QED
    BY <1>6, <2>1 DEF RunningSums
<1>9. R[k] <= R[n]
  <2>1. k \in 0..n
    BY <1>1
  <2> QED
    BY <2>1, SumsGrow
<1>10. R[n] > 0 => g >= R[n] + 2
    BY <1>3, <1>5 DEF Combined, Reserve
<1> DEFINE u == R[k - 1]
           v == R[k]
           w == R[n]
<1> HIDE DEF n, a, d, p, l, f, g, u, v, w
<1>11. /\ f < p + 2 /\ f >= 2 /\ f >= g - u /\ v = u + l /\ p <= l /\ l \in Nat /\ v <= w /\ (w > 0 => g >= w + 2)
       /\ p \in Nat /\ f \in Nat /\ g \in Nat /\ u \in Nat /\ v \in Nat /\ w \in Nat
    BY <1>2, <1>3, <1>6, <1>7, <1>8, <1>9, <1>10 DEF u, v, w
<1> QED
    BY ONLY <1>11

\* It is so of the result after one more model.
LEMMA ListGoesOn ==
    ASSUME CatalogIs, NEW list, list \in Seq(Published), NEW disk \in DiskIs, NEW R, RunningSums(R, list, disk),
           R = Remaining(list, disk), NEW force \in BOOLEAN, NEW net, NEW k, k \in 1..Len(list),
           NEW acc, acc \in Results, ListSoFar(acc, disk, list, k - 1, force, net.silent, R)
    PROVE  ListSoFar(DownloadNext(acc, list[k], force, net), disk, list, k, force, net.silent, R)
<1> DEFINE a == list[k]
           d == acc.disk
           I == acc.installed
           r == Download(d, a, force, net)
           next == DownloadNext(acc, a, force, net)
<1>1. /\ Len(list) \in Nat /\ k \in Nat /\ a \in Published /\ d \in DiskIs
      /\ I \in Seq(Published) /\ Len(I) \in Nat
  <2>1. acc.disk \in DiskIs /\ acc.installed \in Seq(Published)
    BY DEF Results
  <2> QED
    BY <2>1, LenProperties, ElementOfSeq
<1>2. CASE acc.error # "none"
  <2>1. next = acc
    BY <1>2 DEF DownloadNext
  <2> HIDE DEF next
  <2>2. ListSoFar(next, disk, list, k, force, net.silent, R)
    BY <1>1, <1>2, <2>1 DEF ListSoFar
  <2> QED
    BY <2>2 DEF next
<1>3. CASE acc.error = "none"
  <2>1. Done(r, a, d, force, net.silent)
    BY <1>1, DownloadDone
  <2>2. /\ d.told = disk.told /\ disk.done \subseteq d.done /\ Len(I) = k - 1
        /\ \A i \in 1..Len(I) : I[i] = list[i] /\ I[i] \in d.done
        /\ \A b \in d.done \ disk.done : Among(b, I)
        /\ ~force /\ disk.told /\ d.done # disk.done /\ AsksEnough(list, net.silent) => d.free >= Reserve
        /\ \A b \in Published \ d.done : d.have[b] = disk.have[b]
        /\ CountsEnough(list, net.silent) => d.free >= disk.free - R[k - 1]
    BY <1>3 DEF ListSoFar
  <2> DEFINE J == IF r.error = "none" THEN Append(I, a) ELSE I
  <2>3. next.disk = r.disk /\ next.error = r.error /\ next.installed = J
    BY <1>3 DEF DownloadNext
  <2> HIDE DEF next
  <2>4. /\ r.disk.told = d.told /\ d.done \subseteq r.disk.done
        /\ r.error = "none" => r.disk.done = d.done \cup {a}
        /\ r.error # "none" => r.disk.done = d.done
        /\ a \in d.done \/ r.error = "space" => r.disk = d
        /\ /\ a \notin d.done /\ r.error # "space" /\ ~force /\ d.told
           /\ Leaves(a) <= Asks(a, net.silent)
           => r.disk.free >= Reserve
    BY <2>1 DEF Done
  <2> HIDE DEF r
  <2>5. /\ r.error = "none" => Len(J) = k /\ J[k] = a /\ \A i \in 1..(k - 1) : J[i] = I[i]
        /\ r.error # "none" => J = I
    BY <1>1, <2>2, AppendProperties
  <2> HIDE DEF J
  <2>6. /\ Len(J) <= k
        /\ r.error = "none" => Len(J) = k
        /\ r.error # "none" => Len(J) < k
    BY <1>1, <2>2, <2>5
  <2>7. \A i \in 1..Len(J) : J[i] = list[i] /\ J[i] \in r.disk.done
    <3> SUFFICES ASSUME NEW i \in 1..Len(J) PROVE J[i] = list[i] /\ J[i] \in r.disk.done
        OBVIOUS
    <3>1. CASE r.error # "none"
        BY <2>2, <2>4, <2>5, <3>1
    <3>2. CASE r.error = "none" /\ i = k
        BY <2>4, <2>5, <3>2
    <3>3. CASE r.error = "none" /\ i # k
      <4>1. i \in 1..(k - 1)
        BY <1>1, <2>5, <3>3
      <4> QED
        BY <2>2, <2>4, <2>5, <3>3, <4>1
    <3> QED
        BY <3>1, <3>2, <3>3
  <2>8. \A b \in r.disk.done \ disk.done : Among(b, J)
    <3> SUFFICES ASSUME NEW b \in r.disk.done \ disk.done PROVE Among(b, J)
        OBVIOUS
    <3>1. CASE b \in d.done
      <4>1. PICK i \in 1..(k - 1) : I[i] = b
        BY <2>2, <3>1 DEF Among
      <4>2. i \in 1..Len(J) /\ J[i] = b
        BY <1>1, <2>2, <2>5, <4>1
      <4> QED
        BY <4>2 DEF Among
    <3>2. CASE b \notin d.done
      <4>1. r.error = "none" /\ b = a
        BY <2>4, <3>2
      <4>2. k \in 1..Len(J) /\ J[k] = b
        BY <1>1, <2>5, <4>1
      <4> QED
        BY <4>2 DEF Among
    <3> QED
        BY <3>1, <3>2
  <2>9. ~force /\ disk.told /\ r.disk.done # disk.done /\ AsksEnough(list, net.silent) =>
            r.disk.free >= Reserve
    <3> SUFFICES ASSUME ~force, disk.told, r.disk.done # disk.done, AsksEnough(list, net.silent)
                 PROVE  r.disk.free >= Reserve
        OBVIOUS
    <3>1. CASE a \in d.done \/ r.error = "space"
        BY <2>2, <2>4, <3>1
    <3>2. CASE ~(a \in d.done \/ r.error = "space")
      <4>1. Leaves(a) <= Asks(a, net.silent)
        BY <1>1, LenProperties DEF AsksEnough
      <4> QED
        BY <2>2, <2>4, <3>2, <4>1
    <3> QED
        BY <3>1, <3>2
  <2>10. ASSUME r.error = "none"
         PROVE  \A b \in Published \ r.disk.done : r.disk.have[b] = disk.have[b]
    <3>1. \A b \in Published \ r.disk.done : r.disk.have[b] = d.have[b]
        BY <2>1, <2>10 DEF Done
    <3> QED
        BY <2>2, <2>4, <3>1
  <2>13. ASSUME r.error = "none", CountsEnough(list, net.silent)
         PROVE  r.disk.free >= disk.free - R[k]
    <3> DEFINE used == IF a \in d.done THEN 0 ELSE Rest(a, d)
    <3>1. r.disk.free = d.free - used /\ r.disk \in DiskIs
        BY <2>1, <2>13 DEF Done
    <3>3. used <= Lacking(a, disk) /\ used \in Nat /\ Lacking(a, disk) \in Nat
      <4>1. Lacking(a, disk) \in Nat /\ Rest(a, d) \in Nat /\ Rest(a, disk) \in Nat
        BY <1>1, Weights
      <4>2. CASE a \in d.done
        BY <4>1, <4>2
      <4>3. CASE a \notin d.done
        <5>1. a \notin disk.done /\ d.have[a] = disk.have[a]
            BY <1>1, <2>2, <4>3
        <5>2. Rest(a, d) = Rest(a, disk)
            BY <5>1 DEF Rest
        <5>3. Leaves(a) <= Counted(a)
            BY <1>1, <2>13, LenProperties DEF CountsEnough
        <5>4. Rest(a, disk) <= Lacking(a, disk)
            BY <1>1, <5>1, <5>3, Weights
        <5> QED
            BY <4>1, <4>3, <5>2, <5>4
      <4> QED
        BY <4>2, <4>3
    <3> HIDE DEF used
    <3>4. R[k] = R[k - 1] + Lacking(a, disk) /\ R[k - 1] \in Nat /\ R[k] \in Nat
      <4>1. k - 1 \in 0..Len(list) /\ k \in 0..Len(list)
        BY <1>1
      <4> QED
        BY <4>1 DEF RunningSums
    <3> DEFINE u == R[k - 1]
               v == R[k]
               x == used
               y == Lacking(a, disk)
               f == d.free
               g == disk.free
               h == r.disk.free
    <3>5. f \in Nat /\ g \in Nat /\ h \in Nat
        BY <1>1, <3>1 DEF DiskIs
    <3>6. h = f - x /\ x <= y /\ v = u + y /\ f >= g - u
        BY <2>2, <2>13, <3>1, <3>3, <3>4
    <3>7. x \in Nat /\ y \in Nat /\ u \in Nat /\ v \in Nat
        BY <3>3, <3>4
    <3> HIDE DEF u, v, x, y, f, g, h
    <3>8. h >= g - v
        BY ONLY <3>5, <3>6, <3>7
    <3> QED
        BY <3>8 DEF h, g, v
  <2>11. ASSUME r.error = "space", Fits(list, disk, net.silent)
         PROVE  r.disk.done = disk.done
    <3>1. a \notin d.done /\ NoRoom(a, d, force, net.silent) /\ r.disk = d
        BY <2>1, <2>4, <2>11 DEF Done
    <3>2. d.done = disk.done
        BY <1>3, <2>11, <3>1, RoomForTheRest
    <3> QED
        BY <3>1, <3>2
  <2>12. ListSoFar(next, disk, list, k, force, net.silent, R)
    <3>1. /\ r.disk.told = disk.told /\ disk.done \subseteq r.disk.done
          /\ r.error = "space" => ~force
        BY <2>1, <2>2, <2>4 DEF Done, NoRoom
    <3> QED
        BY ONLY <2>3, <2>6, <2>7, <2>8, <2>9, <2>10, <2>11, <2>13, <3>1 DEF ListSoFar
  <2> QED
    BY <2>12 DEF next
<1> QED
    BY <1>2, <1>3

\* It is so of the result of the whole list.
LEMMA ListStands ==
    ASSUME CatalogIs, NEW list, list \in Seq(Published), NEW disk \in DiskIs, NEW force \in BOOLEAN, NEW net
    PROVE  /\ Downloads(list, disk, force, net)[Len(list)] \in Results
           /\ ListSoFar(Downloads(list, disk, force, net)[Len(list)], disk, list, Len(list), force, net.silent,
                        Remaining(list, disk))
<1> DEFINE n == Len(list)
           S == Downloads(list, disk, force, net)
           R == Remaining(list, disk)
           P == {k \in 0..n : ListSoFar(S[k], disk, list, k, force, net.silent, R)}
<1>0. /\ S[0] = Stopped(disk, "none")
      /\ \A k \in 0..n : S[k] \in Results
      /\ \A k \in 1..n : S[k] = DownloadNext(S[k - 1], list[k], force, net)
    BY DownloadsAre
<1>1. n \in Nat /\ RunningSums(R, list, disk)
    BY LenProperties, RemainingIs
<1> HIDE DEF S
<1>2. 0 \in P
  <2> DEFINE b == Stopped(disk, "none")
  <2>1. b.disk = disk /\ b.error = "none" /\ b.installed = <<>>
    BY DEF Stopped
  <2>2. Len(<<>>) = 0 /\ 1..0 = {}
    OBVIOUS
  <2>3. disk.free >= disk.free - R[0]
    <3>1. disk.free \in Nat /\ R[0] = 0
        BY <1>1 DEF DiskIs, RunningSums
    <3> HIDE DEF R
    <3> QED
        BY <3>1
  <2> HIDE DEF b, R
  <2>4. ListSoFar(b, disk, list, 0, force, net.silent, R)
    BY <2>1, <2>2, <2>3 DEF ListSoFar
  <2> QED
    BY <1>0, <1>1, <2>4 DEF b
<1>3. ASSUME NEW k \in 0..(n - 1), k \in P PROVE k + 1 \in P
  <2> DEFINE j == k + 1
  <2>1. j \in 1..n /\ j \in 0..n /\ j - 1 = k /\ k \in 0..n
    BY <1>1
  <2> HIDE DEF j
  <2>2. S[j] = DownloadNext(S[k], list[j], force, net) /\ S[k] \in Results
    BY <1>0, <2>1
  <2>3. ListSoFar(S[k], disk, list, j - 1, force, net.silent, R)
    BY <1>3, <2>1
  <2>4. ListSoFar(DownloadNext(S[k], list[j], force, net), disk, list, j, force, net.silent, R)
    BY <1>1, <2>1, <2>2, <2>3, ListGoesOn
  <2>5. j \in P
    BY <2>1, <2>2, <2>4
  <2> QED
    BY <2>5 DEF j
<1>4. 0..n \subseteq P
  <2> HIDE DEF P, n
  <2> QED
    BY <1>1, <1>2, <1>3, Induction
<1>5. n \in 0..n
    BY <1>1
<1> QED
    BY <1>0, <1>4, <1>5 DEF S

\* What was asked for is in the list, and so are the encoders that were added.
LEMMA PlanCovers ==
    ASSUME NEW A, NEW asked, asked \in Seq(A), NEW done
    PROVE  LET plan == WithEncoders(asked, done) IN
           /\ plan.expanded \in Seq(A \cup Published)
           /\ Range(asked) \subseteq Range(plan.expanded)
           /\ \A a \in Range(asked) : Encoder(a) \in {NoEncoder} \cup Range(plan.expanded) \cup done
<1> DEFINE plan == WithEncoders(asked, done)
           n == Len(asked)
<1>1. plan \in Plans(A) /\ \E at : PlanSoFar(plan, asked, done, n, at)
    BY PlanStands
<1> HIDE DEF plan
<1>2. PICK at : PlanSoFar(plan, asked, done, n, at)
    BY <1>1
<1> DEFINE x == plan.expanded
           d == plan.added
<1>3. x \in Seq(A \cup Published) /\ d \in Seq(Published)
    BY <1>1 DEF Plans
<1>4. /\ plan.requested = Range(asked) \cup Range(d)
      /\ \A i \in 1..Len(d) : Among(d[i], x)
      /\ at \in [1..n -> 1..Len(x)]
      /\ \A i \in 1..n : x[at[i]] = asked[i]
      /\ \A i \in 1..n : Encoder(asked[i]) \in {NoEncoder} \cup plan.requested \cup done
    BY <1>2 DEF PlanSoFar
<1> HIDE DEF x, d, n
<1>5. DOMAIN asked = 1..n /\ DOMAIN x = 1..Len(x) /\ DOMAIN d = 1..Len(d)
    BY <1>3, LenProperties DEF n
<1>6. Range(asked) \subseteq Range(x)
    BY <1>4, <1>5 DEF Range
<1>7. Range(d) \subseteq Range(x)
    BY SMTT(30), <1>4, <1>5 DEF Range, Among
<1>8. \A a \in Range(asked) : \E i \in 1..n : asked[i] = a
    BY <1>5 DEF Range
<1>9. \A a \in Range(asked) : Encoder(a) \in {NoEncoder} \cup Range(x) \cup done
    BY <1>4, <1>6, <1>7, <1>8
<1> QED
    BY <1>3, <1>6, <1>9 DEF plan, x

\* The first m elements of a sequence.
LEMMA FirstOnes ==
    ASSUME NEW S, NEW s, s \in Seq(S), NEW m \in Nat, m <= Len(s)
    PROVE  /\ SubSeq(s, 1, m) \in Seq(S) /\ Len(SubSeq(s, 1, m)) = m
           /\ \A i \in 1..m : SubSeq(s, 1, m)[i] = s[i]
<1>1. m = 0 \/ (1 \in 1..Len(s) /\ m \in 1..Len(s))
    BY LenProperties
<1>2. Len(s) \in Nat
    BY LenProperties
<1> QED
    BY <1>1, <1>2, SubSeqProperties

\* For every catalog, every list that is asked for, in which names may be wrong or
\* come twice, every disk, every choice of downloads that fail and of sizes that
\* the server does not name, one command (WithEncoders, DownloadMany) leaves what
\* ListIsFetched says.
THEOREM ListIsFetchedTheorem ==
    ASSUME CatalogIs, NEW A, NEW asked, asked \in Seq(A), NEW disk \in DiskIs, NEW force \in BOOLEAN,
           NEW net
    PROVE  ListIsFetched(asked, disk, force, net)
<1> DEFINE plan == WithEncoders(asked, disk.done)
           list == plan.expanded
           r == DownloadMany(list, disk, force, net)
           fetched == r.disk.done \ disk.done
           enough == CountsEnough(list, net.silent)
           reserved == AsksEnough(list, net.silent)
<1>1. /\ list \in Seq(A \cup Published) /\ Range(asked) \subseteq Range(list)
      /\ \A a \in Range(asked) : Encoder(a) \in {NoEncoder} \cup Range(list) \cup disk.done
    BY PlanCovers
<1>2. EncodersSlotIn(asked, disk.done, plan)
    BY EncodersSlot
<1> HIDE DEF plan
<1>3. /\ DOMAIN list = 1..Len(list) /\ Len(list) \in Nat
    BY <1>1, LenProperties
<1> DEFINE Holds ==
        /\ r.error = "none" =>
              /\ r.installed = list /\ Range(list) \subseteq r.disk.done
              /\ \A a \in Range(asked) : Encoder(a) \in r.disk.done \cup {NoEncoder}
        /\ r.error # "none" =>
              /\ IsStrictPrefix(r.installed, list) /\ Range(r.installed) \subseteq r.disk.done
        /\ fetched \subseteq Range(r.installed)
        /\ r.error \in {"unknown", "refused"} => r.disk = disk
        /\ ~(Range(asked) \subseteq Published) => r.error = "unknown"
        /\ r.error = "space" /\ enough => fetched = {}
        /\ ~force /\ disk.told /\ fetched # {} /\ reserved => r.disk.free >= Reserve
<1> HIDE DEF list
\* Nothing was begun.
<1>4. ASSUME NEW e \in {"unknown", "refused"}, r = Stopped(disk, e), list # <<>>,
             ~(Range(asked) \subseteq Published) => e = "unknown"
      PROVE  Holds
  <2>1. r.disk = disk /\ r.error = e /\ r.installed = <<>>
    BY <1>4 DEF Stopped
  <2>2. Range(<<>>) = {}
    BY DEF Range
  <2>3. IsStrictPrefix(<<>>, list)
    BY <1>1, <1>4 DEF IsStrictPrefix, IsPrefix
  <2> HIDE DEF r
  <2> QED
    BY <1>4, <2>1, <2>2, <2>3
<1>5. CASE ~(Range(list) \subseteq Published)
  <2>1. r = Stopped(disk, "unknown")
    BY <1>5 DEF DownloadMany
  <2>2. list # <<>>
    BY <1>5 DEF Range
  <2> QED
    BY <1>2, <1>4, <2>1, <2>2 DEF ListIsFetched, list, plan
<1>6. CASE Range(list) \subseteq Published /\ ~force /\ Len(list) > 1 /\ ~Combined(list, disk)
  <2>1. r = Stopped(disk, "refused")
    BY <1>6 DEF DownloadMany
  <2>2. list # <<>> /\ Range(asked) \subseteq Published
    BY <1>1, <1>6
  <2> QED
    BY <1>2, <1>4, <1>6, <2>1, <2>2 DEF ListIsFetched, list, plan
<1>7. CASE Range(list) \subseteq Published /\ ~(~force /\ Len(list) > 1 /\ ~Combined(list, disk))
  <2>1. r = Downloads(list, disk, force, net)[Len(list)]
    BY <1>7 DEF DownloadMany
  <2>2. list \in Seq(Published)
    BY <1>1, <1>3, <1>7, SeqDef DEF Range
  <2> DEFINE R == Remaining(list, disk)
  <2>3. r \in Results /\ ListSoFar(r, disk, list, Len(list), force, net.silent, R)
    BY <2>1, <2>2, ListStands
  <2> HIDE DEF r, R
  <2> DEFINE I == r.installed
  <2>4. I \in Seq(Published) /\ DOMAIN I = 1..Len(I) /\ Len(I) \in Nat /\ r.error \in Errors
    <3>1. I \in Seq(Published) /\ r.error \in Errors
        BY <2>3 DEF Results
    <3> QED
        BY <3>1, LenProperties
  <2>5. /\ disk.done \subseteq r.disk.done /\ Len(I) <= Len(list)
        /\ \A i \in 1..Len(I) : I[i] = list[i] /\ I[i] \in r.disk.done
        /\ r.error = "none" => Len(I) = Len(list)
        /\ r.error # "none" => Len(I) < Len(list)
        /\ \A b \in r.disk.done \ disk.done : Among(b, I)
        /\ ~force /\ disk.told /\ r.disk.done # disk.done /\ reserved => r.disk.free >= Reserve
        /\ r.error = "space" => ~force
        /\ r.error = "space" /\ Fits(list, disk, net.silent) => r.disk.done = disk.done
    BY <2>3 DEF ListSoFar
  <2> HIDE DEF I
  <2>6. Range(I) \subseteq r.disk.done /\ fetched \subseteq Range(I)
    BY <2>4, <2>5 DEF Among, Range
  <2>7. ASSUME r.error = "none"
        PROVE  /\ I = list /\ Range(list) \subseteq r.disk.done
               /\ \A a \in Range(asked) : Encoder(a) \in r.disk.done \cup {NoEncoder}
    <3>1. Len(I) = Len(list)
        BY <2>5, <2>7
    <3>2. \A i \in 1..Len(list) : I[i] = list[i]
        BY <2>5, <3>1
    <3>3. I = list
        BY <2>2, <2>4, <3>1, <3>2, SeqEqual
    <3> QED
        BY <1>1, <2>5, <2>6, <3>3
  <2>8. ASSUME r.error # "none" PROVE IsStrictPrefix(I, list)
    <3>1. Len(I) < Len(list)
        BY <2>5, <2>8
    <3> DEFINE m == Len(I)
    <3>2. SubSeq(I, 1, m) = SubSeq(list, 1, m)
      <4> DEFINE s == SubSeq(I, 1, m)
                 t == SubSeq(list, 1, m)
      <4>1. t \in Seq(Published) /\ Len(t) = m /\ \A i \in 1..m : t[i] = list[i]
        BY <1>3, <2>2, <2>4, <3>1, FirstOnes
      <4>2. s \in Seq(Published) /\ Len(s) = m /\ \A i \in 1..m : s[i] = I[i]
        BY <2>4, FirstOnes
      <4> HIDE DEF s, t
      <4>3. s = t
        BY <2>5, <4>1, <4>2, SeqEqual
      <4> QED
        BY <4>3 DEF s, t
    <3>3. I # list
        BY <2>4, <3>1
    <3> QED
        BY <2>4, <3>1, <3>2, <3>3 DEF IsStrictPrefix, IsPrefix
  <2>9. ASSUME r.error = "space", enough PROVE fetched = {}
    <3>1. ~force
        BY <2>5, <2>9
    <3>2. Fits(list, disk, net.silent)
        BY <1>7, <2>9, <3>1 DEF Fits
    <3> QED
        BY <2>5, <2>9, <3>2
  <2>10. r.error \notin {"unknown", "refused"} /\ Range(asked) \subseteq Published
    BY <1>1, <1>7, <2>4 DEF Errors
  <2>11. Holds
    BY <2>5, <2>6, <2>7, <2>8, <2>9, <2>10 DEF I
  <2> QED
    BY <1>2, <2>11 DEF ListIsFetched, list, plan, r
<1> QED
    BY <1>5, <1>6, <1>7

=============================================================================
