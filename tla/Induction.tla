----------------------------- MODULE Induction -----------------------------
(***************************************************************************)
(* Induction over the natural numbers and recursive definitions, stated of *)
(* sets and functions and not of operators, so that a proof can cite them: *)
(* the set of the numbers that have a property stands for the property,    *)
(* and a function of the index and the value so far for the recursive      *)
(* step.                                                                   *)
(***************************************************************************)
EXTENDS Integers, FiniteSets, Sequences, SequencesExt, SequenceTheorems, WellFoundedInduction, TLAPS

\* The order of the natural numbers as a set of pairs.
NatOrder == {ss \in Nat \X Nat : ss[1] < ss[2]}

\* No number has an endless descent below it.
LEMMA NatOrderWellFounded == IsWellFoundedOn(NatOrder, Nat)
  BY NatLessThanWellFounded DEF OpToRel, NatOrder

\* Numbers have a least one among them.
LEMMA Least ==
  ASSUME NEW S, S \subseteq Nat, S # {}
  PROVE  \E x \in S : \A y \in S : x <= y
<1>1. PICK x \in S : \A y \in S : <<y, x>> \notin NatOrder
  BY WFMin, NatOrderWellFounded
<1>2. ASSUME NEW y \in S  PROVE x <= y
  <2>1. x \in Nat /\ y \in Nat
    OBVIOUS
  <2>2. <<y, x>> \notin NatOrder /\ <<y, x>> \in Nat \X Nat
    BY <1>1, <2>1
  <2>3. ~(<<y, x>>[1] < <<y, x>>[2])
    BY <2>2 DEF NatOrder
  <2> QED  BY <2>1, <2>3
<1> QED  BY <1>2

\* Numbers up to a bound have a greatest one among them.
LEMMA Greatest ==
  ASSUME NEW n \in Nat, NEW S, S \subseteq 0 .. n, S # {}
  PROVE  \E x \in S : \A y \in S : y <= x
<1> DEFINE D == {n - x : x \in S}
<1>1. \A x \in S : x \in Nat /\ n - x \in Nat
  OBVIOUS
<1>2. D \subseteq Nat /\ D # {}
  BY <1>1
<1>3. PICK d \in D : \A e \in D : d <= e
  BY <1>2, Least
<1>4. PICK x \in S : d = n - x
  OBVIOUS
<1>5. \A y \in S : n - x <= n - y
  BY <1>3, <1>4
<1> QED  BY <1>1, <1>5

\* What is true of 0 and goes from a number to the next, up to n, is true up to n.
LEMMA UpTo ==
  ASSUME NEW n \in Nat, NEW P, 0 \in P, \A i \in 0 .. n : i < n /\ i \in P => i + 1 \in P
  PROVE  \A i \in 0 .. n : i \in P
<1> DEFINE Not == {i \in 0 .. n : i \notin P}
<1> SUFFICES ASSUME Not # {}  PROVE FALSE
  OBVIOUS
<1>1. Not \subseteq Nat
  OBVIOUS
<1>2. PICK i \in Not : \A j \in Not : i <= j
  BY <1>1, Least
<1>3. i # 0 /\ i - 1 \in 0 .. n /\ i - 1 < n /\ ~(i <= i - 1)
  OBVIOUS
<1>4. i - 1 \in P
  BY <1>2, <1>3
<1>5. (i - 1) + 1 \in P
  BY <1>3, <1>4
<1> QED  BY <1>3, <1>5

\* A function may be defined by its value at 0 and by how each value follows
\* from the one before.
StepsOf(n, V) == [1 .. n -> [V -> V]]
Unfolds(f, n, base, step) == f = [i \in 0 .. n |-> IF i = 0 THEN base ELSE step[i][f[i - 1]]]

\* For every step there is a function that unfolds by it: what a recursive function
\* definition relies on.
LEMMA Recursion ==
  ASSUME NEW n \in Nat, NEW V, NEW base \in V, NEW step \in StepsOf(n, V)
  PROVE  \E f : f \in [0 .. n -> V] /\ Unfolds(f, n, base, step)
<1> USE DEF StepsOf
<1> DEFINE Good(f, m) == f = [i \in 0 .. m |-> IF i = 0 THEN base ELSE step[i][f[i - 1]]]
           P == {m \in 0 .. n : \E f \in [0 .. m -> V] : Good(f, m)}
<1>1. 0 \in P
  <2> DEFINE f == [i \in 0 .. 0 |-> base]
  <2>1. f \in [0 .. 0 -> V] /\ Good(f, 0)
    OBVIOUS
  <2>2. \E g \in [0 .. 0 -> V] : Good(g, 0)
    BY <2>1
  <2>3. 0 \in 0 .. n
    OBVIOUS
  <2> HIDE DEF Good
  <2> QED  BY <2>2, <2>3
<1>2. ASSUME NEW m \in 0 .. n, m < n, m \in P  PROVE m + 1 \in P
  <2>1. PICK f \in [0 .. m -> V] : Good(f, m)
    BY <1>2
  <2>2. step[m + 1][f[m]] \in V
    <3>1. m + 1 \in 1 .. n /\ m \in 0 .. m
      BY <1>2
    <3>2. step[m + 1] \in [V -> V] /\ f[m] \in V
      BY <3>1
    <3> QED  BY <3>2
  <2> DEFINE g == [i \in 0 .. m + 1 |-> IF i = m + 1 THEN step[m + 1][f[m]] ELSE f[i]]
  <2>3. g \in [0 .. m + 1 -> V]
    BY <2>2
  <2>4. ASSUME NEW i \in 0 .. m + 1  PROVE g[i] = IF i = 0 THEN base ELSE step[i][g[i - 1]]
    <3>1. CASE i = m + 1
      BY <3>1
    <3>2. CASE i # m + 1 /\ i # 0
      <4>1. i \in 0 .. m /\ i - 1 \in 0 .. m + 1 /\ i - 1 # m + 1
        BY <3>2
      <4>2. f[i] = step[i][f[i - 1]]
        BY <2>1, <3>2, <4>1
      <4> QED  BY <3>2, <4>1, <4>2
    <3>3. CASE i = 0
      <4>1. f[0] = base
        BY <2>1
      <4> QED  BY <3>3, <4>1
    <3> QED  BY <3>1, <3>2, <3>3
  <2>5. Good(g, m + 1)
    BY <2>4
  <2>6. m + 1 \in 0 .. n
    BY <1>2
  <2> QED  BY <2>3, <2>5, <2>6
<1> HIDE DEF P
<1>3. \A m \in 0 .. n : m \in P
  BY <1>1, <1>2, UpTo
<1>4. n \in P
  BY <1>3
<1> QED  BY <1>4 DEF P, Unfolds
-----------------------------------------------------------------------------
(* Sequences joined to one.                                                 *)

\* What FlattenSeq does: the first k sequences come to f[k], the first Len(f[k])
\* elements of them all.
Joins(f, seqs) ==
  /\ f[0] = << >> /\ f[Len(seqs)] = FlattenSeq(seqs)
  /\ \A k \in 1 .. Len(seqs) :
       /\ f[k] = f[k - 1] \o seqs[k]
       /\ Len(f[k]) = Len(f[k - 1]) + Len(seqs[k])
       /\ \A p \in 1 .. Len(seqs[k]) : f[k][Len(f[k - 1]) + p] = seqs[k][p]
       /\ \A p \in 1 .. Len(f[k - 1]) : f[k][p] = f[k - 1][p]

\* FlattenSeq's recursion, sequence by sequence, comes to what it returns.
LEMMA FlattenSteps ==
  ASSUME NEW S, NEW seqs \in Seq(Seq(S))
  PROVE  \E f \in [0 .. Len(seqs) -> Seq(S)] : Joins(f, seqs)
<1> DEFINE n == Len(seqs)
           V == Seq(S)
           step == [i \in 1 .. n |-> [v \in V |-> v \o seqs[i]]]
           Is(g) == g = [i \in 1 .. n |-> IF i = 1 THEN seqs[i] ELSE g[i - 1] \o seqs[i]]
<1>1. n \in Nat /\ \A i \in 1 .. n : seqs[i] \in V
  BY LenProperties, ElementOfSeq
<1>2. << >> \in V
  BY EmptySeq
<1>3. step \in StepsOf(n, V)
  <2>1. \A i \in 1 .. n : \A v \in V : v \o seqs[i] \in V
    BY <1>1, ConcatProperties
  <2> HIDE DEF V, n
  <2> QED  BY <2>1 DEF StepsOf
<1> HIDE DEF V, n, step
<1>4. PICK f : f \in [0 .. n -> V] /\ Unfolds(f, n, << >>, step)
  BY <1>1, <1>2, <1>3, Recursion
<1>5. \A i \in 1 .. n : i \in 0 .. n /\ i - 1 \in 0 .. n /\ i # 0
  BY <1>1
<1>6. 0 \in 0 .. n /\ n \in 0 .. n
  BY <1>1
<1>7. f[0] = << >> /\ \A i \in 1 .. n : f[i] = f[i - 1] \o seqs[i]
  <2>1. \A i \in 1 .. n : f[i - 1] \in V
    BY <1>4, <1>5
  <2>2. \A i \in 1 .. n : step[i][f[i - 1]] = f[i - 1] \o seqs[i]
    BY <2>1 DEF step
  <2>3. \A i \in 0 .. n : f[i] = IF i = 0 THEN << >> ELSE step[i][f[i - 1]]
    BY <1>4 DEF Unfolds
  <2> QED  BY <1>5, <1>6, <2>2, <2>3
<1>8. \A i \in 1 .. n : /\ Len(f[i]) = Len(f[i - 1]) + Len(seqs[i])
                        /\ \A p \in 1 .. Len(seqs[i]) : f[i][Len(f[i - 1]) + p] = seqs[i][p]
                        /\ \A p \in 1 .. Len(f[i - 1]) : f[i][p] = f[i - 1][p]
  <2> SUFFICES ASSUME NEW i \in 1 .. n
               PROVE  LET v == f[i - 1] u == seqs[i] IN
                      /\ Len(v \o u) = Len(v) + Len(u)
                      /\ \A p \in 1 .. Len(u) : (v \o u)[Len(v) + p] = u[p]
                      /\ \A p \in 1 .. Len(v) : (v \o u)[p] = v[p]
    BY <1>7
  <2> DEFINE v == f[i - 1]
             u == seqs[i]
  <2>1. v \in Seq(S) /\ u \in Seq(S)
    BY <1>1, <1>4, <1>5 DEF V
  <2> HIDE DEF v, u
  <2>2. Len(v) \in Nat /\ Len(u) \in Nat
    BY <2>1, LenProperties
  <2>3. /\ Len(v \o u) = Len(v) + Len(u)
        /\ \A p \in 1 .. Len(v) + Len(u) : (v \o u)[p] = IF p <= Len(v) THEN v[p] ELSE u[p - Len(v)]
    BY <2>1, ConcatProperties
  <2>4. ASSUME NEW p \in 1 .. Len(u)  PROVE (v \o u)[Len(v) + p] = u[p]
    <3>1. /\ Len(v) + p \in 1 .. Len(v) + Len(u) /\ ~(Len(v) + p <= Len(v))
          /\ (Len(v) + p) - Len(v) = p
      BY <2>2
    <3> QED  BY <2>3, <3>1
  <2>5. ASSUME NEW p \in 1 .. Len(v)  PROVE (v \o u)[p] = v[p]
    BY <2>2, <2>3
  <2> QED  BY <2>3, <2>4, <2>5 DEF v, u
<1>9. FlattenSeq(seqs) = f[n]
  <2>1. CASE n = 0
    <3>1. seqs = << >>
      BY <2>1, EmptySeq DEF n
    <3> QED  BY <1>7, <2>1, <3>1 DEF FlattenSeq, n
  <2>2. CASE n # 0
    <3> DEFINE g == [i \in 1 .. n |-> f[i]]
               After == CHOOSE h : Is(h)
    <3>1. Is(g)
      <4>1. ASSUME NEW i \in 1 .. n  PROVE g[i] = IF i = 1 THEN seqs[i] ELSE g[i - 1] \o seqs[i]
        <5>1. CASE i = 1
          <6>0. 1 \in 1 .. n /\ 1 - 1 = 0
            BY <5>1
          <6>1. f[1] = << >> \o seqs[1] /\ seqs[1] \in Seq(S)
            BY <1>1, <1>7, <6>0 DEF V
          <6> QED  BY <5>1, <6>1, ConcatEmptySeq
        <5>2. CASE i # 1
          <6>1. i - 1 \in 1 .. n
            BY <1>1, <5>2
          <6> QED  BY <1>7, <5>2, <6>1
        <5> QED  BY <5>1, <5>2
      <4> QED  BY <4>1
    <3>2. Is(After)
      <4> HIDE DEF g
      <4> QED  BY <3>1, Zenon
    <3>3. FlattenSeq(seqs) = After[n]
      BY <2>2, Zenon DEF FlattenSeq, n, After
    <3> HIDE DEF After, g
    <3> DEFINE P == {i \in 0 .. n : i # 0 => After[i] = g[i]}
    <3>4. \A i \in 0 .. n : i \in P
      <4>1. 0 \in P
        BY <1>6
      <4>2. ASSUME NEW i \in 0 .. n, i < n, i \in P  PROVE i + 1 \in P
        <5>1. i + 1 \in 1 .. n /\ i + 1 \in 0 .. n /\ (i + 1) - 1 = i
          BY <1>1, <4>2
        <5>2. After[i + 1] = (IF i + 1 = 1 THEN seqs[i + 1] ELSE After[i] \o seqs[i + 1])
          BY <3>2, <5>1
        <5>3. g[i + 1] = (IF i + 1 = 1 THEN seqs[i + 1] ELSE g[i] \o seqs[i + 1])
          BY <3>1, <5>1
        <5> QED  BY <4>2, <5>1, <5>2, <5>3
      <4> HIDE DEF P
      <4> QED  BY <1>1, <4>1, <4>2, UpTo
    <3>5. After[n] = g[n] /\ n \in 1 .. n
      BY <1>1, <1>6, <2>2, <3>4
    <3> QED  BY <3>3, <3>5 DEF g
  <2> QED  BY <2>1, <2>2
<1>10. Joins(f, seqs)
  BY <1>7, <1>8, <1>9 DEF Joins, n
<1> QED  BY <1>4, <1>10 DEF n, V

\* Where the elements of the k-th sequence are in the whole.
Placed(f, seqs) ==
  /\ \A k \in 0 .. Len(seqs) :
       /\ Len(f[k]) \in 0 .. Len(FlattenSeq(seqs))
       /\ \A p \in 1 .. Len(f[k]) : FlattenSeq(seqs)[p] = f[k][p]
  /\ \A k \in 1 .. Len(seqs) : \A p \in 1 .. Len(seqs[k]) :
       /\ Len(f[k - 1]) + p \in 1 .. Len(FlattenSeq(seqs))
       /\ FlattenSeq(seqs)[Len(f[k - 1]) + p] = seqs[k][p]

\* And every element of every sequence is where the lengths before it say.
LEMMA FlattenAt ==
  ASSUME NEW S, NEW seqs \in Seq(Seq(S)), NEW f \in [0 .. Len(seqs) -> Seq(S)], Joins(f, seqs)
  PROVE  FlattenSeq(seqs) \in Seq(S) /\ Placed(f, seqs)
<1> DEFINE n == Len(seqs)
           all == FlattenSeq(seqs)
           Begins(i, j) == /\ Len(f[i]) <= Len(f[j])
                           /\ \A p \in 1 .. Len(f[i]) : f[j][p] = f[i][p]
<1>1. n \in Nat /\ \A i \in 1 .. n : seqs[i] \in Seq(S)
  BY LenProperties, ElementOfSeq
<1>2. \A k \in 0 .. n : f[k] \in Seq(S) /\ Len(f[k]) \in Nat
  <2>1. \A k \in 0 .. n : f[k] \in Seq(S)
    OBVIOUS
  <2> QED  BY <2>1, LenProperties
<1>3. \A k \in 1 .. n : k - 1 \in 0 .. n /\ k \in 0 .. n /\ Len(seqs[k]) \in Nat
  BY <1>1, LenProperties
<1>4. all = f[n] /\ n \in 0 .. n
  BY <1>1 DEF Joins
<1>5. ASSUME NEW k \in 0 .. n  PROVE Begins(k, n)
  <2> DEFINE P == {d \in 0 .. n : d >= k => Begins(k, d)}
  <2>1. 0 \in P
    <3>1. 0 >= k => k = 0
      OBVIOUS
    <3> QED  BY <1>1, <1>2, <3>1
  <2>2. ASSUME NEW d \in 0 .. n, d < n, d \in P  PROVE d + 1 \in P
    <3>0. d + 1 \in 1 .. n /\ d + 1 \in 0 .. n /\ (d + 1) - 1 = d
      BY <1>1, <2>2
    <3>1. /\ Len(f[d + 1]) = Len(f[d]) + Len(seqs[d + 1])
          /\ \A p \in 1 .. Len(f[d]) : f[d + 1][p] = f[d][p]
      <4>1. /\ Len(f[d + 1]) = Len(f[(d + 1) - 1]) + Len(seqs[d + 1])
            /\ \A p \in 1 .. Len(f[(d + 1) - 1]) : f[d + 1][p] = f[(d + 1) - 1][p]
        BY <3>0 DEF Joins
      <4> QED  BY <3>0, <4>1
    <3>2. Len(f[d]) \in Nat /\ Len(seqs[d + 1]) \in Nat /\ Len(f[d + 1]) \in Nat /\ Len(f[k]) \in Nat
      BY <1>2, <1>3, <3>0
    <3>3. CASE d + 1 = k
      BY <3>0, <3>2, <3>3
    <3>4. CASE d >= k
      <4>1. Begins(k, d)
        BY <2>2, <3>4
      <4>2. \A p \in 1 .. Len(f[k]) : p \in 1 .. Len(f[d])
        BY <3>2, <4>1
      <4>3. Begins(k, d + 1)
        BY <3>1, <3>2, <4>1, <4>2
      <4> QED  BY <3>0, <4>3
    <3>5. CASE d + 1 < k
      BY <3>0, <3>5
    <3> QED  BY <3>0, <3>3, <3>4, <3>5
  <2> HIDE DEF P
  <2>3. n \in P
    BY <1>1, <1>4, <2>1, <2>2, UpTo
  <2> QED  BY <1>1, <2>3 DEF P
<1>6. ASSUME NEW k \in 1 .. n, NEW p \in 1 .. Len(seqs[k])
      PROVE  Len(f[k - 1]) + p \in 1 .. Len(all) /\ all[Len(f[k - 1]) + p] = seqs[k][p]
  <2>1. Len(f[k]) = Len(f[k - 1]) + Len(seqs[k]) /\ f[k][Len(f[k - 1]) + p] = seqs[k][p]
    BY DEF Joins
  <2>2. Len(f[k]) \in Nat /\ Len(f[k - 1]) \in Nat /\ Len(seqs[k]) \in Nat /\ Len(f[n]) \in Nat
    BY <1>2, <1>3, <1>4
  <2>3. Len(f[k - 1]) + p \in 1 .. Len(f[k])
    <3>1. \A a, b, c \in Nat : c = a + b => \A q \in 1 .. b : a + q \in 1 .. c
      OBVIOUS
    <3> QED  BY <2>1, <2>2, <3>1
  <2>4. Begins(k, n)
    BY <1>3, <1>5
  <2>5. Len(f[k - 1]) + p \in 1 .. Len(f[n]) /\ f[n][Len(f[k - 1]) + p] = f[k][Len(f[k - 1]) + p]
    BY <2>2, <2>3, <2>4
  <2> QED  BY <1>4, <2>1, <2>5
<1>7. \A k \in 0 .. n : /\ Len(f[k]) \in 0 .. Len(all)
                        /\ \A p \in 1 .. Len(f[k]) : all[p] = f[k][p]
  BY <1>2, <1>4, <1>5
<1>8. all \in Seq(S)
  BY <1>2, <1>4
<1> QED  BY <1>6, <1>7, <1>8 DEF Placed

\* What satisfies FlattenSeq's recursion is what it comes to.
LEMMA FlattenIs ==
  ASSUME NEW S, NEW seqs \in Seq(Seq(S)), NEW g, g[0] = << >>,
         \A k \in 1 .. Len(seqs) : g[k] = g[k - 1] \o seqs[k]
  PROVE  FlattenSeq(seqs) = g[Len(seqs)]
<1> DEFINE n == Len(seqs)
<1>1. PICK f \in [0 .. n -> Seq(S)] : Joins(f, seqs)
  BY FlattenSteps
<1>2. n \in Nat
  BY LenProperties
<1>3. /\ f[0] = << >> /\ f[n] = FlattenSeq(seqs)
      /\ \A k \in 1 .. n : f[k] = f[k - 1] \o seqs[k]
  BY <1>1 DEF Joins
<1>4. \A k \in 1 .. n : g[k] = g[k - 1] \o seqs[k]
  OBVIOUS
<1> HIDE DEF n
<1> DEFINE P == {k \in 0 .. n : f[k] = g[k]}
<1>5. 0 \in P
  BY <1>2, <1>3
<1>6. ASSUME NEW k \in 0 .. n, k < n, k \in P  PROVE k + 1 \in P
  <2>1. k + 1 \in 1 .. n /\ k + 1 \in 0 .. n /\ (k + 1) - 1 = k
    BY <1>2, <1>6
  <2>2. f[k + 1] = f[k] \o seqs[k + 1] /\ g[k + 1] = g[k] \o seqs[k + 1]
    BY <1>3, <1>4, <2>1
  <2> QED  BY <1>6, <2>1, <2>2
<1> HIDE DEF P
<1>7. \A k \in 0 .. n : k \in P
  BY <1>2, <1>5, <1>6, UpTo
<1>8. n \in P
  BY <1>2, <1>7
<1>9. f[n] = g[n]
  BY <1>8 DEF P
<1> QED  BY <1>3, <1>9 DEF n

\* A function on 1 .. n is a sequence.
LEMMA Sequence ==
  ASSUME NEW S, NEW n \in Nat, NEW s \in [1 .. n -> S]
  PROVE  s \in Seq(S) /\ Len(s) = n
<1>1. s \in Seq(S)
  BY SeqDef
<1>2. DOMAIN s = 1 .. n
  OBVIOUS
<1> QED  BY <1>1, <1>2, LenProperties
=============================================================================
