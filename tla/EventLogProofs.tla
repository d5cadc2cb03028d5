--------------------------- MODULE EventLogProofs ---------------------------
(***************************************************************************)
(* Proofs about EventLog: a dump of the log reads as the log, and replays  *)
(* to the PCRs.                                                            *)
(*                                                                         *)
(* The argument follows the bytes.  At(raw, o, s) says that s is in raw at *)
(* offset o; each reader of eventlog.py returns what the writer wrote at   *)
(* the offset it is given, and comes to the offset after it.  Induction    *)
(* over the digests of an event, and over the events, is UpTo's: the       *)
(* invariant itself speaks of no offset.  It says that every PCR is what   *)
(* the log comes to, and that what is on the console spells, whatever has  *)
(* landed in it, the log up to its trailing zeros.                         *)
(***************************************************************************)
EXTENDS EventLog, Induction, SequenceTheorems, TLAPS

-----------------------------------------------------------------------------
(* Sequences of numbers, and where in the log they are.                    *)

\* What the log is made of, and where in it some of it is.
Raw == Seq(Nat)
At(raw, o, s) == o + Len(s) <= Len(raw) /\ \A p \in 1 .. Len(s) : raw[o + p] = s[p]

\* Such a sequence has a length and numbers at its places.
LEMMA RawFacts ==
  ASSUME NEW s \in Raw
  PROVE  Len(s) \in Nat /\ DOMAIN s = 1 .. Len(s) /\ \A p \in 1 .. Len(s) : s[p] \in Nat
<1>1. s \in Seq(Nat)
  BY DEF Raw
<1> QED  BY <1>1, LenProperties, ElementOfSeq

\* One sequence after another: its length, and what is where.
LEMMA JoinFacts ==
  ASSUME NEW s \in Raw, NEW t \in Raw
  PROVE  /\ s \o t \in Raw /\ Len(s \o t) = Len(s) + Len(t)
         /\ \A p \in 1 .. Len(s) : (s \o t)[p] = s[p]
         /\ \A p \in 1 .. Len(t) : (s \o t)[Len(s) + p] = t[p]
<1>1. s \in Seq(Nat) /\ t \in Seq(Nat)
  BY DEF Raw
<1> DEFINE j == s \o t
<1>2. /\ j \in Seq(Nat) /\ Len(j) = Len(s) + Len(t)
      /\ \A p \in 1 .. Len(s) + Len(t) : j[p] = IF p <= Len(s) THEN s[p] ELSE t[p - Len(s)]
  BY <1>1, ConcatProperties
<1> HIDE DEF j
<1>3. Len(s) \in Nat /\ Len(t) \in Nat
  BY RawFacts
<1>4. ASSUME NEW p \in 1 .. Len(t)  PROVE j[Len(s) + p] = t[p]
  <2>1. /\ Len(s) + p \in 1 .. Len(s) + Len(t) /\ ~(Len(s) + p <= Len(s)) /\ (Len(s) + p) - Len(s) = p
    BY <1>3
  <2> QED  BY <1>2, <2>1
<1>5. ASSUME NEW p \in 1 .. Len(s)  PROVE j[p] = s[p]
  BY <1>2, <1>3
<1>6. j \in Raw
  BY <1>2 DEF Raw
<1> QED  BY <1>2, <1>4, <1>5, <1>6 DEF j

\* Concatenation, under a name for the provers.
Join(s, t) == s \o t

\* Their join, as an operator of its own so that the provers keep it whole.
LEMMA JoinRaw ==
  ASSUME NEW s \in Raw, NEW t \in Raw
  PROVE  Join(s, t) \in Raw /\ Len(Join(s, t)) = Len(s) + Len(t)
<1> DEFINE j == s \o t
<1>1. j \in Raw /\ Len(j) = Len(s) + Len(t)
  BY JoinFacts, Zenon
<1>2. Join(s, t) = j
  BY DEF Join
<1> HIDE DEF j
<1> QED  BY <1>1, <1>2

\* Where a join is, its two parts are.
LEMMA AtJoin ==
  ASSUME NEW raw \in Raw, NEW o \in Nat, NEW s \in Raw, NEW t \in Raw, At(raw, o, Join(s, t))
  PROVE  At(raw, o, s) /\ At(raw, o + Len(s), t)
<1> DEFINE j == s \o t
<1>1. /\ Len(j) = Len(s) + Len(t)
      /\ \A p \in 1 .. Len(s) : j[p] = s[p]
      /\ \A p \in 1 .. Len(t) : j[Len(s) + p] = t[p]
  BY JoinFacts
<1>2. o + Len(j) <= Len(raw) /\ \A p \in 1 .. Len(j) : raw[o + p] = j[p]
  BY DEF At, Join
<1> HIDE DEF j
<1>3. Len(s) \in Nat /\ Len(t) \in Nat /\ Len(raw) \in Nat
  BY RawFacts
<1>4. o + Len(s) <= Len(raw) /\ (o + Len(s)) + Len(t) <= Len(raw)
  BY <1>1, <1>2, <1>3
<1>5. ASSUME NEW p \in 1 .. Len(s)  PROVE raw[o + p] = s[p]
  BY <1>1, <1>2, <1>3
<1>6. ASSUME NEW p \in 1 .. Len(t)  PROVE raw[(o + Len(s)) + p] = t[p]
  <2>1. Len(s) + p \in 1 .. Len(j) /\ o + (Len(s) + p) = (o + Len(s)) + p
    BY <1>1, <1>3
  <2>2. raw[o + (Len(s) + p)] = j[Len(s) + p]
    BY <1>2, <2>1
  <2> QED  BY <1>1, <2>1, <2>2
<1> QED  BY <1>4, <1>5, <1>6 DEF At

\* A sequence is at its own start.
LEMMA AtSelf ==
  ASSUME NEW raw \in Raw
  PROVE  At(raw, 0, raw)
<1>1. Len(raw) \in Nat
  BY RawFacts
<1>2. 0 + Len(raw) <= Len(raw) /\ \A p \in 1 .. Len(raw) : 0 + p = p
  BY <1>1
<1> QED  BY <1>2 DEF At

\* Numbers in the log.
LEMMA U16Facts ==
  ASSUME NEW n \in Nat
  PROVE  U16(n) \in Raw /\ Len(U16(n)) = 2 /\ U16(n)[1] = n % 256 /\ U16(n)[2] = n \div 256
<1>1. n % 256 \in Nat /\ n \div 256 \in Nat
  OBVIOUS
<1> DEFINE a == n % 256
           b == n \div 256
<1> HIDE DEF a, b
<1>2. a \in Nat /\ b \in Nat
  BY <1>1 DEF a, b
<1>3. <<a, b>> \in Seq(Nat) /\ Len(<<a, b>>) = 2 /\ <<a, b>>[1] = a /\ <<a, b>>[2] = b
  BY <1>2
<1>4. U16(n) = <<a, b>>
  BY DEF U16, a, b
<1>5. U16(n) \in Raw /\ Len(U16(n)) = 2 /\ U16(n)[1] = a /\ U16(n)[2] = b
  BY <1>3, <1>4 DEF Raw
<1> QED  BY <1>5 DEF a, b

\* A word is four numbers.
LEMMA U32Facts ==
  ASSUME NEW n \in Nat
  PROVE  U32(n) \in Raw /\ Len(U32(n)) = 4
<1>1. n % 65536 \in Nat /\ n \div 65536 \in Nat
  OBVIOUS
<1> DEFINE a == U16(n % 65536)
           b == U16(n \div 65536)
<1>2. a \in Raw /\ b \in Raw /\ Len(a) = 2 /\ Len(b) = 2
  BY <1>1, U16Facts
<1>3. U32(n) = Join(a, b)
  BY DEF U32, Join
<1> HIDE DEF a, b
<1>4. Join(a, b) \in Raw /\ Len(Join(a, b)) = Len(a) + Len(b)
  BY <1>2, JoinRaw
<1> QED  BY <1>2, <1>3, <1>4

\* Where a half word was written, Half reads it back (eventlog.py:20).
LEMMA HalfAt ==
  ASSUME NEW raw, NEW o, NEW n \in Nat, At(raw, o, U16(n))
  PROVE  Half(raw, o) = n
<1>1. raw[o + 1] = n % 256 /\ raw[o + 2] = n \div 256
  <2>1. 1 \in 1 .. 2 /\ 2 \in 1 .. 2
    OBVIOUS
  <2>2. \A p \in 1 .. 2 : raw[o + p] = U16(n)[p]
    BY U16Facts DEF At
  <2> QED  BY <2>1, <2>2, U16Facts
<1>2. (n % 256) + 256 * (n \div 256) = n
  OBVIOUS
<1> QED  BY <1>1, <1>2 DEF Half

\* Where a word was written, Word reads it back (eventlog.py:20).
LEMMA WordAt ==
  ASSUME NEW raw \in Raw, NEW o \in Nat, NEW n \in Nat, At(raw, o, U32(n))
  PROVE  Word(raw, o) = n
<1> DEFINE a == n % 65536
           b == n \div 65536
<1>1. a \in Nat /\ b \in Nat /\ a + 65536 * b = n
  OBVIOUS
<1>2. At(raw, o, Join(U16(a), U16(b)))
  BY DEF U32, Join
<1> HIDE DEF a, b
<1>3. U16(a) \in Raw /\ U16(b) \in Raw /\ Len(U16(a)) = 2
  BY <1>1, U16Facts
<1>4. At(raw, o, U16(a)) /\ At(raw, o + 2, U16(b))
  BY <1>2, <1>3, AtJoin
<1>5. Half(raw, o) = a /\ Half(raw, o + 2) = b
  BY <1>1, <1>4, HalfAt
<1> QED  BY <1>1, <1>5 DEF Word

\* Where a sequence is, the slice of its length is the sequence.
LEMMA SliceAt ==
  ASSUME NEW raw \in Raw, NEW o \in Nat, NEW s \in Raw, At(raw, o, s)
  PROVE  Slice(raw, o, o + Len(s)) = s
<1>1. Len(s) \in Nat /\ Len(raw) \in Nat /\ o + Len(s) <= Len(raw)
  BY RawFacts DEF At
<1> DEFINE c == SubSeq(raw, o + 1, o + Len(s))
<1>2. Slice(raw, o, o + Len(s)) = c
  <2>1. o + Len(s) < Len(raw) \/ o + Len(s) = Len(raw)
    BY <1>1
  <2> QED  BY <2>1 DEF Slice
<1>3. c \in Seq(Nat) /\ Len(c) = Len(s) /\ \A p \in 1 .. Len(s) : c[p] = raw[o + p]
  <2>1. raw \in Seq(Nat) /\ o + 1 \in 1 .. Len(raw) + 1 /\ o + Len(s) \in o + 1 - 1 .. Len(raw)
    BY <1>1 DEF Raw
  <2>2. /\ c \in Seq(Nat)
        /\ Len(c) = IF o + 1 <= o + Len(s) THEN o + Len(s) - (o + 1) + 1 ELSE 0
        /\ \A p \in 1 .. o + Len(s) - (o + 1) + 1 : c[p] = raw[o + 1 + p - 1]
    BY <1>1, <2>1, SubSeqProperties
  <2> HIDE DEF c
  <2>3. Len(c) = Len(s)
    BY <1>1, <2>2
  <2>4. ASSUME NEW p \in 1 .. Len(s)  PROVE c[p] = raw[o + p]
    <3>1. p \in 1 .. o + Len(s) - (o + 1) + 1 /\ o + 1 + p - 1 = o + p
      BY <1>1
    <3> QED  BY <2>2, <3>1
  <2> QED  BY <2>2, <2>3, <2>4
<1> HIDE DEF c
<1>4. s \in Seq(Nat) /\ \A p \in 1 .. Len(s) : c[p] = s[p]
  BY <1>3 DEF At, Raw
<1>5. c = s
  BY <1>3, <1>4, SeqEqual
<1> QED  BY <1>2, <1>5

\* Sequences joined to one, at some offset.
LEMMA FlatAt ==
  ASSUME NEW raw \in Raw, NEW o \in Nat, NEW seqs \in Seq(Raw), NEW f \in [0 .. Len(seqs) -> Raw],
         Joins(f, seqs), At(raw, o, FlattenSeq(seqs))
  PROVE  \A k \in 1 .. Len(seqs) : At(raw, o + Len(f[k - 1]), seqs[k])
<1> DEFINE all == FlattenSeq(seqs)
<1>1. all \in Raw /\ Placed(f, seqs)
  BY FlattenAt DEF Raw
<1>2. SUFFICES ASSUME NEW k \in 1 .. Len(seqs)  PROVE At(raw, o + Len(f[k - 1]), seqs[k])
  OBVIOUS
<1>3. Len(seqs) \in Nat /\ seqs[k] \in Raw /\ Len(raw) \in Nat /\ Len(all) \in Nat
  <2>1. Len(seqs) \in Nat /\ seqs[k] \in Raw
    BY LenProperties, ElementOfSeq
  <2> QED  BY <1>1, <2>1, RawFacts
<1>4. k - 1 \in 0 .. Len(seqs) /\ Len(f[k - 1]) \in Nat /\ Len(seqs[k]) \in Nat
  <2>1. k - 1 \in 0 .. Len(seqs)
    BY <1>3
  <2>2. f[k - 1] \in Raw
    BY <2>1
  <2> QED  BY <1>3, <2>1, <2>2, RawFacts
<1> DEFINE d == Len(f[k - 1])
           s == seqs[k]
<1>5. \A p \in 1 .. Len(s) : d + p \in 1 .. Len(all) /\ all[d + p] = s[p]
  BY <1>1 DEF Placed
<1>6. o + Len(all) <= Len(raw) /\ \A p \in 1 .. Len(all) : raw[o + p] = all[p]
  BY DEF At
<1> HIDE DEF all, d, s
<1>7. ASSUME NEW p \in 1 .. Len(s)  PROVE raw[(o + d) + p] = s[p]
  <2>1. d + p \in 1 .. Len(all) /\ all[d + p] = s[p] /\ o + (d + p) = (o + d) + p
    BY <1>4, <1>5 DEF d, s
  <2> QED  BY <1>6, <2>1
<1>8. (o + d) + Len(s) <= Len(raw)
  <2>1. Len(f[k]) = Len(f[k - 1]) + Len(seqs[k]) /\ Len(f[k]) <= Len(all)
    <3>1. k \in 0 .. Len(seqs)
      BY <1>3
    <3>2. Len(f[k]) = Len(f[k - 1]) + Len(seqs[k])
      BY DEF Joins
    <3>3. Len(f[k]) \in 0 .. Len(FlattenSeq(seqs))
      BY <1>1, <3>1 DEF Placed
    <3> QED  BY <1>3, <3>2, <3>3 DEF all
  <2>2. d + Len(s) <= Len(all)
    BY <2>1 DEF d, s
  <2>3. d \in Nat /\ Len(s) \in Nat
    BY <1>4 DEF d, s
  <2> QED  BY <1>3, <1>6, <2>2, <2>3
<1> QED  BY <1>7, <1>8 DEF At, d, s

-----------------------------------------------------------------------------
(* The dump on the console, and what hex_dump makes of it.                 *)

\* The dump on the console: digits, and what lands among them.
Stretches == {Digits(of) : of \in Raw} \cup {XenLine, Newline}
Ofs(out) == [i \in DOMAIN out |-> out[i].of]

\* A stretch is digits, or has none.
LEMMA StretchFacts ==
  ASSUME NEW s \in Stretches
  PROVE  /\ s.of \in Raw
         /\ s.what = "digits" => s = Digits(s.of)
         /\ s.what \in {"(XEN)", "newline"} => s.of = << >>
<1>1. << >> \in Raw
  BY EmptySeq DEF Raw
<1>2. CASE s \in {Digits(of) : of \in Raw}
  BY <1>2 DEF Digits
<1>3. CASE s \in {XenLine, Newline}
  BY <1>1, <1>3 DEF XenLine, Newline
<1> QED  BY <1>2, <1>3 DEF Stretches

\* The digits of the stretches are a sequence of sequences.
LEMMA OfsFacts ==
  ASSUME NEW out \in Seq(Stretches)
  PROVE  Ofs(out) \in Seq(Raw) /\ Len(Ofs(out)) = Len(out) /\ DOMAIN out = 1 .. Len(out)
<1>1. Len(out) \in Nat /\ DOMAIN out = 1 .. Len(out)
  BY LenProperties
<1>2. \A i \in 1 .. Len(out) : out[i].of \in Raw
  <2>1. \A i \in 1 .. Len(out) : out[i] \in Stretches
    BY ElementOfSeq
  <2> QED  BY <2>1, StretchFacts
<1>3. Ofs(out) \in [1 .. Len(out) -> Raw]
  BY <1>1, <1>2 DEF Ofs
<1> QED  BY <1>1, <1>3, Sequence

\* A line of Xen's splits digits, and adds none.
Split(out, s, i) ==
  SubSeq(out, 1, s - 1)
  \o <<Digits(SubSeq(out[s].of, 1, i)), XenLine, Newline, Digits(SubSeq(out[s].of, i + 1, Len(out[s].of)))>>
  \o SubSeq(out, s + 1, Len(out))

\* What a split stretch is made of, and where the others come to be.
LEMMA SplitAt ==
  ASSUME NEW out \in Seq(Stretches), NEW s \in 1 .. Len(out), NEW i \in Nat,
         i <= Len(out[s].of)
  PROVE  LET x == SubSeq(out[s].of, 1, i)
             y == SubSeq(out[s].of, i + 1, Len(out[s].of))
             new == Split(out, s, i) IN
         /\ x \in Raw /\ y \in Raw /\ x \o y = out[s].of
         /\ new \in Seq(Stretches) /\ Len(new) = Len(out) + 3
         /\ \A k \in 1 .. s - 1 : new[k] = out[k]
         /\ new[s] = Digits(x) /\ new[s + 1] = XenLine
         /\ new[s + 2] = Newline /\ new[s + 3] = Digits(y)
         /\ \A k \in s + 4 .. Len(out) + 3 : new[k] = out[k - 3]
<1> DEFINE of == out[s].of
           n == Len(out)
           x == SubSeq(of, 1, i)
           y == SubSeq(of, i + 1, Len(of))
           P == SubSeq(out, 1, s - 1)
           M == <<Digits(x), XenLine, Newline, Digits(y)>>
           T == SubSeq(out, s + 1, n)
           new == Split(out, s, i)
<1>1. n \in Nat /\ \A k \in 1 .. n : out[k] \in Stretches
  BY LenProperties, ElementOfSeq
<1>2. of \in Raw /\ Len(of) \in Nat /\ i <= Len(of)
  BY SMTT(30), <1>1, StretchFacts, RawFacts
<1>3. x \in Raw /\ y \in Raw /\ x \o y = of
  <2> HIDE DEF of
  <2>1. of \in Seq(Nat) /\ 1 \in 1 .. Len(of) + 1 /\ i \in 1 - 1 .. Len(of) /\ Len(of) \in i .. Len(of)
    BY <1>2 DEF Raw
  <2>2. SubSeq(of, 1, i) \o SubSeq(of, i + 1, Len(of)) = SubSeq(of, 1, Len(of))
    BY <2>1, ConcatAdjacentSubSeq, Zenon
  <2>3. SubSeq(of, 1, Len(of)) = of
    BY <2>1, SubSeqFull
  <2>4. \A k \in 1 .. Len(of) : of[k] \in Nat
    BY <2>1, ElementOfSeq
  <2>5. x \in Seq(Nat)
    <3>1. \A k \in 1 .. i : of[k] \in Nat
      BY <1>2, <2>1, <2>4
    <3> QED  BY <3>1, SubSeqProperties
  <2>6. y \in Seq(Nat)
    <3>1. i + 1 \in Int /\ Len(of) \in Int /\ \A k \in i + 1 .. Len(of) : of[k] \in Nat
      BY <1>2, <2>1, <2>4
    <3> QED  BY <3>1, SubSeqProperties
  <2> QED  BY <2>2, <2>3, <2>5, <2>6 DEF Raw
<1>4. /\ P \in Seq(Stretches) /\ Len(P) = s - 1
      /\ \A k \in 1 .. s - 1 : P[k] = out[k]
  <2>1. 1 \in Int /\ s - 1 \in Int /\ \A k \in 1 .. s - 1 : out[k] \in Stretches
    BY <1>1
  <2>2. /\ P \in Seq(Stretches) /\ Len(P) = IF 1 <= s - 1 THEN s - 1 - 1 + 1 ELSE 0
        /\ \A k \in 1 .. s - 1 - 1 + 1 : P[k] = out[1 + k - 1]
    BY <2>1, SubSeqProperties
  <2> HIDE DEF P
  <2> QED  BY <1>1, <2>2
<1>5. /\ T \in Seq(Stretches) /\ Len(T) = n - s
      /\ \A k \in 1 .. n - s : T[k] = out[s + k]
  <2>1. s + 1 \in Int /\ n \in Int /\ \A k \in s + 1 .. n : out[k] \in Stretches
    BY <1>1
  <2>2. /\ T \in Seq(Stretches) /\ Len(T) = IF s + 1 <= n THEN n - (s + 1) + 1 ELSE 0
        /\ \A k \in 1 .. n - (s + 1) + 1 : T[k] = out[s + 1 + k - 1]
    BY <2>1, SubSeqProperties
  <2> HIDE DEF T
  <2>3. ASSUME NEW k \in 1 .. n - s  PROVE T[k] = out[s + k]
    <3>1. k \in 1 .. n - (s + 1) + 1 /\ s + 1 + k - 1 = s + k
      BY <1>1
    <3> QED  BY <2>2, <3>1
  <2> QED  BY <1>1, <2>2, <2>3
<1> HIDE DEF x, y
<1>6. /\ M \in Seq(Stretches) /\ Len(M) = 4
      /\ M[1] = Digits(x) /\ M[2] = XenLine /\ M[3] = Newline /\ M[4] = Digits(y)
  <2>1. Digits(x) \in Stretches /\ Digits(y) \in Stretches /\ XenLine \in Stretches /\ Newline \in Stretches
    BY <1>3 DEF Stretches
  <2> DEFINE a == Digits(x) b == XenLine c == Newline d == Digits(y)
  <2> HIDE DEF a, b, c, d
  <2>2. /\ <<a, b, c, d>> \in Seq(Stretches) /\ Len(<<a, b, c, d>>) = 4
        /\ <<a, b, c, d>>[1] = a /\ <<a, b, c, d>>[2] = b /\ <<a, b, c, d>>[3] = c /\ <<a, b, c, d>>[4] = d
    BY <2>1 DEF a, b, c, d
  <2> QED  BY <2>2 DEF a, b, c, d
<1>7. new = (P \o M) \o T
  BY DEF Split, x, y
<1> HIDE DEF P, M, T, new, of
<1>8. /\ P \o M \in Seq(Stretches) /\ Len(P \o M) = s + 3
      /\ \A k \in 1 .. s + 3 : (P \o M)[k] = IF k <= s - 1 THEN P[k] ELSE M[k - (s - 1)]
  <2>1. /\ P \o M \in Seq(Stretches) /\ Len(P \o M) = Len(P) + Len(M)
        /\ \A k \in 1 .. Len(P) + Len(M) : (P \o M)[k] = IF k <= Len(P) THEN P[k] ELSE M[k - Len(P)]
    <3>1. P \in Seq(Stretches) /\ M \in Seq(Stretches)
      BY <1>4, <1>6
    <3> QED  BY <3>1, ConcatProperties
  <2>2. Len(P) + Len(M) = s + 3
    BY <1>1, <1>4, <1>6
  <2> QED  BY <1>4, <2>1, <2>2
<1>9. /\ new \in Seq(Stretches) /\ Len(new) = n + 3
      /\ \A k \in 1 .. n + 3 : new[k] = IF k <= s + 3 THEN (P \o M)[k] ELSE T[k - (s + 3)]
  <2> DEFINE Q == P \o M
  <2>1. Q \in Seq(Stretches) /\ Len(Q) = s + 3
    BY <1>8
  <2>2. new = Q \o T
    BY <1>7
  <2> HIDE DEF Q
  <2>3. /\ Q \o T \in Seq(Stretches) /\ Len(Q \o T) = Len(Q) + Len(T)
        /\ \A k \in 1 .. Len(Q) + Len(T) : (Q \o T)[k] = IF k <= Len(Q) THEN Q[k] ELSE T[k - Len(Q)]
    BY ZenonT(30), <1>5, <2>1, ConcatProperties
  <2>4. Len(Q) + Len(T) = n + 3
    BY <1>1, <1>5, <2>1
  <2> QED  BY <2>1, <2>2, <2>3, <2>4 DEF Q
<1>10. ASSUME NEW k \in 1 .. s - 1  PROVE new[k] = out[k]
  <2>1. k \in 1 .. n + 3 /\ k <= s + 3 /\ k \in 1 .. s + 3 /\ k <= s - 1
    BY <1>1
  <2>2. new[k] = P[k]
    BY <1>8, <1>9, <2>1
  <2> QED  BY <1>4, <2>2
<1>11. ASSUME NEW k \in s .. s + 3  PROVE new[k] = M[k - (s - 1)]
  <2>1. k \in 1 .. n + 3 /\ k <= s + 3 /\ k \in 1 .. s + 3 /\ ~(k <= s - 1)
    BY <1>1
  <2> QED  BY <1>8, <1>9, <2>1
<1>12. new[s] = M[1] /\ new[s + 1] = M[2] /\ new[s + 2] = M[3] /\ new[s + 3] = M[4]
  <2>1. s \in s .. s + 3 /\ s + 1 \in s .. s + 3 /\ s + 2 \in s .. s + 3 /\ s + 3 \in s .. s + 3
    OBVIOUS
  <2>2. s - (s - 1) = 1 /\ s + 1 - (s - 1) = 2 /\ s + 2 - (s - 1) = 3 /\ s + 3 - (s - 1) = 4
    OBVIOUS
  <2> QED  BY <1>11, <2>1, <2>2
<1>13. ASSUME NEW k \in s + 4 .. n + 3  PROVE new[k] = out[k - 3]
  <2>1. k \in 1 .. n + 3 /\ ~(k <= s + 3) /\ k - (s + 3) \in 1 .. n - s /\ s + (k - (s + 3)) = k - 3
    BY <1>1
  <2> QED  BY <1>5, <1>9, <2>1
<1> QED  BY <1>3, <1>6, <1>9, <1>10, <1>12, <1>13, Zenon DEF new, x, y, of, n

\* It does not matter which of two joins is made first.
LEMMA RawAssociative ==
  ASSUME NEW s \in Raw, NEW t \in Raw, NEW u \in Raw
  PROVE  (s \o t) \o u = s \o (t \o u)
<1>1. s \in Seq(Nat) /\ t \in Seq(Nat) /\ u \in Seq(Nat)
  BY DEF Raw
<1> QED  BY SMTT(30), <1>1, ConcatAssociative

\* A line that splits a stretch leaves the digits of the dump as they are.
LEMMA SplitSpells ==
  ASSUME NEW out \in Seq(Stretches), NEW s \in 1 .. Len(out), NEW i \in Nat, i <= Len(out[s].of)
  PROVE  /\ Split(out, s, i) \in Seq(Stretches)
         /\ FlattenSeq(Ofs(Split(out, s, i))) = FlattenSeq(Ofs(out))
<1> DEFINE n == Len(out)
           x == SubSeq(out[s].of, 1, i)
           y == SubSeq(out[s].of, i + 1, Len(out[s].of))
           new == Split(out, s, i)
           seqs == Ofs(out)
<1>1. /\ x \in Raw /\ y \in Raw /\ x \o y = out[s].of
      /\ new \in Seq(Stretches) /\ Len(new) = n + 3
      /\ \A k \in 1 .. s - 1 : new[k] = out[k]
      /\ new[s] = Digits(x) /\ new[s + 1] = XenLine
      /\ new[s + 2] = Newline /\ new[s + 3] = Digits(y)
      /\ \A k \in s + 4 .. n + 3 : new[k] = out[k - 3]
  BY SplitAt, Zenon DEF n
<1> HIDE DEF x, y, new
<1>2. n \in Nat /\ seqs \in Seq(Seq(Nat)) /\ Len(seqs) = n /\ \A k \in 1 .. n : seqs[k] = out[k].of
  <2>1. Len(out) \in Nat
    BY LenProperties
  <2> QED  BY <2>1, OfsFacts DEF Raw, Ofs
<1>3. /\ Ofs(new) \in Seq(Seq(Nat)) /\ Len(Ofs(new)) = n + 3
      /\ \A k \in 1 .. n + 3 : Ofs(new)[k] = new[k].of
  BY <1>1, OfsFacts DEF Raw, Ofs
<1> HIDE DEF seqs
<1>4. PICK f \in [0 .. n -> Seq(Nat)] : Joins(f, seqs)
  BY <1>2, FlattenSteps
<1>5. /\ f[0] = << >> /\ f[n] = FlattenSeq(seqs)
      /\ \A k \in 1 .. n : f[k] = f[k - 1] \o out[k].of
  BY <1>2, <1>4 DEF Joins
<1>6. \A k \in 0 .. n : f[k] \in Seq(Nat)
  OBVIOUS
<1> HIDE DEF n
<1> DEFINE v == f[s - 1] \o x
           g == [k \in 0 .. n + 3 |-> IF k < s THEN f[k] ELSE IF k < s + 3 THEN v ELSE f[k - 3]]
<1>7. s \in Nat /\ s >= 1 /\ s <= n /\ s - 1 \in 0 .. n
  BY <1>2 DEF n
<1>8. f[s - 1] \in Seq(Nat) /\ v \in Seq(Nat) /\ v \o y = f[s]
  <2> DEFINE u == f[s - 1]
  <2>1. u \in Seq(Nat) /\ x \in Seq(Nat) /\ y \in Seq(Nat)
    BY <1>1, <1>6, <1>7 DEF Raw
  <2>2. f[s] = u \o (x \o y)
    <3>1. s \in 1 .. n
      BY <1>7
    <3>2. f[s] = f[s - 1] \o out[s].of
      BY <1>5, <3>1
    <3> QED  BY <1>1, <3>2
  <2> HIDE DEF u
  <2>3. u \o x \in Seq(Nat) /\ (u \o x) \o y = u \o (x \o y)
    <3>1. u \o x \in Seq(Nat)
      BY <2>1, ConcatProperties
    <3>2. (u \o x) \o y = u \o (x \o y)
      BY <2>1, RawAssociative, Zenon DEF Raw
    <3> QED  BY <3>1, <3>2
  <2> QED  BY <2>1, <2>2, <2>3 DEF u
<1>9. v \o << >> = v
  BY <1>8, ConcatEmptySeq
<1> HIDE DEF v
<1>10. g[0] = << >>
  BY <1>2, <1>5, <1>7
<1>11. ASSUME NEW k \in 1 .. n + 3  PROVE g[k] = g[k - 1] \o Ofs(new)[k]
  <2>1. k \in 0 .. n + 3 /\ k - 1 \in 0 .. n + 3 /\ Ofs(new)[k] = new[k].of
    BY <1>2, <1>3
  <2>2. CASE k < s
    <3>1. k \in 1 .. s - 1 /\ k \in 1 .. n /\ k - 1 < s
      BY <1>2, <1>7, <2>2
    <3>2. new[k].of = out[k].of /\ g[k] = f[k] /\ g[k - 1] = f[k - 1]
      BY <1>1, <2>1, <2>2, <3>1
    <3> QED  BY <1>5, <2>1, <3>1, <3>2
  <2>3. CASE k = s
    <3>1. new[k].of = x
      BY <1>1, <2>3 DEF Digits
    <3>2. k - 1 < s /\ ~(k < s) /\ k < s + 3
      BY <1>7, <2>3
    <3>3. g[k] = v /\ g[k - 1] = f[s - 1]
      BY <2>1, <2>3, <3>2
    <3> QED  BY <2>1, <3>1, <3>3 DEF v
  <2>4. CASE k = s + 1 \/ k = s + 2
    <3>1. new[k].of = << >>
      BY <1>1, <2>4 DEF XenLine, Newline
    <3>2. ~(k < s) /\ k < s + 3 /\ ~(k - 1 < s) /\ k - 1 < s + 3
      BY <1>7, <2>4
    <3>3. g[k] = v /\ g[k - 1] = v
      BY <2>1, <3>2
    <3> QED  BY <1>9, <2>1, <3>1, <3>3
  <2>5. CASE k = s + 3
    <3>1. new[k].of = y
      BY <1>1, <2>5 DEF Digits
    <3>2. ~(k < s) /\ ~(k < s + 3) /\ ~(k - 1 < s) /\ k - 1 < s + 3 /\ k - 3 = s
      BY <1>7, <2>5
    <3>3. g[k] = f[s] /\ g[k - 1] = v
      BY <2>1, <3>2
    <3> QED  BY <1>8, <2>1, <3>1, <3>3
  <2>6. CASE k > s + 3
    <3>1. /\ k \in s + 4 .. n + 3 /\ k - 3 \in 1 .. n /\ (k - 1) - 3 = (k - 3) - 1
          /\ ~(k < s) /\ ~(k < s + 3) /\ ~(k - 1 < s) /\ ~(k - 1 < s + 3)
      BY <1>2, <1>7, <2>6
    <3>2. new[k].of = out[k - 3].of
      BY <1>1, <3>1
    <3>3. g[k] = f[k - 3] /\ g[k - 1] = f[(k - 3) - 1]
      BY <2>1, <3>1
    <3>4. f[k - 3] = f[(k - 3) - 1] \o out[k - 3].of
      BY <1>5, <3>1
    <3> QED  BY <2>1, <3>2, <3>3, <3>4
  <2> HIDE DEF g
  <2>7. k < s \/ k = s \/ k = s + 1 \/ k = s + 2 \/ k = s + 3 \/ k > s + 3
    BY <1>2, <1>7
  <2> QED  BY <2>2, <2>3, <2>4, <2>5, <2>6, <2>7
<1>12. FlattenSeq(Ofs(new)) = g[n + 3]
  <2> HIDE DEF g
  <2>1. \A k \in 1 .. Len(Ofs(new)) : g[k] = g[k - 1] \o Ofs(new)[k]
    BY <1>3, <1>11
  <2>2. FlattenSeq(Ofs(new)) = g[Len(Ofs(new))]
    BY <1>3, <1>10, <2>1, FlattenIs
  <2> QED  BY <1>3, <2>2
<1>13. g[n + 3] = f[n]
  <2>1. n + 3 \in 0 .. n + 3 /\ ~(n + 3 < s) /\ ~(n + 3 < s + 3) /\ (n + 3) - 3 = n
    BY <1>2, <1>7
  <2> QED  BY <2>1
<1> QED  BY <1>1, <1>5, <1>12, <1>13 DEF new, seqs

\* Pairs of digits spell the bytes they were made of.
LEMMA HexFacts ==
  ASSUME NEW bytes \in Raw
  PROVE  /\ Hex(bytes) \in Raw /\ Len(Hex(bytes)) = 2 * Len(bytes)
         /\ \A i \in 1 .. Len(bytes) : 16 * Hex(bytes)[2 * i - 1] + Hex(bytes)[2 * i] = bytes[i]
<1> DEFINE n == Len(bytes)
           m == 2 * n
<1>1. n \in Nat /\ m \in Nat /\ \A i \in 1 .. n : bytes[i] \in Nat
  BY RawFacts
<1>2. ASSUME NEW b \in Nat
      PROVE  b \div 16 \in Nat /\ b % 16 \in Nat /\ 16 * (b \div 16) + (b % 16) = b
  <2>1. b \div 16 \in Nat /\ b % 16 \in Nat
    OBVIOUS
  <2>2. (b % 16) + 16 * (b \div 16) = b
    OBVIOUS
  <2> DEFINE q == b \div 16
             r == b % 16
  <2>3. q \in Nat /\ r \in Nat /\ r + 16 * q = b
    BY <2>1, <2>2
  <2> HIDE DEF q, r, n, m
  <2>4. 16 * q + r = b
    BY <2>3
  <2> QED  BY <2>3, <2>4, Zenon DEF q, r
<1>3. \A i \in 1 .. m : (i + 1) \div 2 \in 1 .. n
  <2> HIDE DEF n
  <2> QED  BY <1>1
<1>4. Hex(bytes) \in [1 .. m -> Nat]
  <2>1. ASSUME NEW i \in 1 .. m  PROVE (IF i % 2 = 1 THEN bytes[(i + 1) \div 2] \div 16 ELSE bytes[(i + 1) \div 2] % 16) \in Nat
    <3> DEFINE b == bytes[(i + 1) \div 2]
    <3>1. b \in Nat
      BY <1>1, <1>3
    <3> HIDE DEF b
    <3>2. b \div 16 \in Nat /\ b % 16 \in Nat
      BY <1>2, <3>1
    <3> QED  BY <3>2 DEF b
  <2> QED  BY <2>1 DEF Hex
<1>5. Hex(bytes) \in Raw /\ Len(Hex(bytes)) = m
  <2> HIDE DEF m
  <2> QED  BY <1>1, <1>4, Sequence DEF Raw
<1>6. ASSUME NEW i \in 1 .. n
      PROVE  16 * Hex(bytes)[2 * i - 1] + Hex(bytes)[2 * i] = bytes[i]
  <2> HIDE DEF n
  <2>1. /\ 2 * i - 1 \in 1 .. m /\ 2 * i \in 1 .. m
        /\ (2 * i - 1 + 1) \div 2 = i /\ (2 * i + 1) \div 2 = i
        /\ (2 * i - 1) % 2 = 1 /\ (2 * i) % 2 = 0
    BY <1>1
  <2>2. Hex(bytes)[2 * i - 1] = bytes[i] \div 16
    BY <2>1 DEF Hex, n
  <2>3. Hex(bytes)[2 * i] = bytes[i] % 16
    BY <2>1 DEF Hex, n
  <2> QED  BY <1>1, <1>2, <2>2, <2>3
<1> QED  BY <1>5, <1>6

\* hex_dump's substitutions leave the digits, and no newline (console.py:57-58, 75).
LEMMA CleanedFacts ==
  ASSUME NEW out \in Seq(Stretches)
  PROVE  /\ DOMAIN Cleaned(out) = DOMAIN out
         /\ \A i \in DOMAIN out : Cleaned(out)[i].of = out[i].of /\ Cleaned(out)[i].what # "newline"
<1>1. DOMAIN out = 1 .. Len(out) /\ \A i \in 1 .. Len(out) : out[i] \in Stretches
  BY LenProperties, ElementOfSeq
<1>2. Cleaned(out) = [i \in DOMAIN out |-> IF out[i].what \in {"(XEN)", "newline"} THEN Digits(<< >>) ELSE out[i]]
  BY DEF Cleaned, Gone
<1>3. ASSUME NEW i \in DOMAIN out
      PROVE  Cleaned(out)[i].of = out[i].of /\ Cleaned(out)[i].what # "newline"
  <2>1. out[i] \in Stretches
    BY <1>1
  <2>2. CASE out[i].what \in {"(XEN)", "newline"}
    <3>1. Cleaned(out)[i] = Digits(<< >>) /\ out[i].of = << >>
      BY <1>2, <2>1, <2>2, StretchFacts
    <3> QED  BY <3>1 DEF Digits
  <2>3. CASE out[i].what \notin {"(XEN)", "newline"}
    <3>1. Cleaned(out)[i] = out[i] /\ out[i].what # "newline"
      BY <1>2, <2>3
    <3> QED  BY <3>1
  <2> QED  BY <2>2, <2>3
<1> QED  BY <1>2, <1>3

\* Whatever Xen's lines split, the dump reads as what was dumped.
LEMMA HexReads ==
  ASSUME NEW out \in Seq(Stretches), NEW bytes \in Raw, FlattenSeq(Ofs(out)) = Hex(bytes)
  PROVE  HexDump(out) = [refused |-> FALSE, bytes |-> bytes]
<1> DEFINE hex == Cleaned(out)
           digits == FlattenSeq([i \in DOMAIN hex |-> hex[i].of])
           n == Len(bytes)
           read == [i \in 1 .. Len(digits) \div 2 |-> 16 * digits[2 * i - 1] + digits[2 * i]]
<1>1. DOMAIN hex = DOMAIN out /\ \A i \in DOMAIN out : hex[i].of = out[i].of /\ hex[i].what # "newline"
  BY CleanedFacts
<1>2. digits = Hex(bytes)
  <2> HIDE DEF hex
  <2>1. [i \in DOMAIN hex |-> hex[i].of] = Ofs(out)
    BY <1>1 DEF Ofs
  <2> QED  BY <2>1
<1>3. /\ n \in Nat /\ Len(digits) = 2 * n
      /\ \A i \in 1 .. n : 16 * digits[2 * i - 1] + digits[2 * i] = bytes[i]
  BY <1>2, HexFacts, RawFacts
<1>4. (2 * n) % 2 = 0 /\ (2 * n) \div 2 = n
  <2> HIDE DEF n
  <2> QED  BY <1>3
<1> HIDE DEF hex
<1>5. HexDump(out) = [refused |-> FALSE, bytes |-> read]
  <2>1. ~(Len(digits) % 2 = 1)
    <3> HIDE DEF digits, n
    <3> QED  BY <1>3, <1>4
  <2>2. \A i \in DOMAIN hex : hex[i].what # "newline"
    BY <1>1
  <2> QED  BY <2>1, <2>2, Zenon DEF HexDump, hex
<1>6. read = bytes
  <2> HIDE DEF digits
  <2>1. Len(digits) \div 2 = n
    BY <1>3, <1>4
  <2>2. read \in [1 .. n -> Nat]
    <3>1. \A i \in 1 .. n : bytes[i] \in Nat
      BY RawFacts
    <3> QED  BY <1>3, <2>1, <3>1
  <2>3. read \in Seq(Nat) /\ Len(read) = n /\ \A i \in 1 .. n : read[i] = bytes[i]
    <3>1. \A i \in 1 .. n : read[i] = bytes[i]
      BY <1>3, <2>1
    <3> HIDE DEF read, n
    <3> QED  BY <1>3, <2>2, <3>1, Sequence
  <2>4. bytes \in Seq(Nat)
    BY DEF Raw
  <2> HIDE DEF read
  <2> QED  BY <2>3, <2>4, SeqEqual
<1> QED  BY <1>5, <1>6

-----------------------------------------------------------------------------
(* The header.                                                             *)

\* Five sequences, or six, one after the other.
Five(a, b, c, d, e) == a \o b \o c \o d \o e
Six(a, b, c, d, e, f) == Five(a, b, c, d, e) \o f

\* The join of five is a sequence as long as they are together.
LEMMA FiveRaw ==
  ASSUME NEW a \in Raw, NEW b \in Raw, NEW c \in Raw, NEW d \in Raw, NEW e \in Raw
  PROVE  /\ Five(a, b, c, d, e) \in Raw
         /\ Len(Five(a, b, c, d, e)) = Len(a) + Len(b) + Len(c) + Len(d) + Len(e)
<1> DEFINE ab == Join(a, b)
           abc == Join(ab, c)
           abcd == Join(abc, d)
           all == Join(abcd, e)
<1>1. ab \in Raw /\ Len(ab) = Len(a) + Len(b)
  BY JoinRaw
<1>2. abc \in Raw /\ Len(abc) = Len(ab) + Len(c)
  <2> HIDE DEF ab
  <2> QED  BY <1>1, JoinRaw
<1>3. abcd \in Raw /\ Len(abcd) = Len(abc) + Len(d)
  <2> HIDE DEF abc
  <2> QED  BY <1>2, JoinRaw
<1>4. all \in Raw /\ Len(all) = Len(abcd) + Len(e)
  <2> HIDE DEF abcd
  <2> QED  BY <1>3, JoinRaw
<1>5. Five(a, b, c, d, e) = all
  BY DEF Five, Join
<1> HIDE DEF ab, abc, abcd, all
<1> QED  BY <1>1, <1>2, <1>3, <1>4, <1>5

\* Where the five are, each is.
LEMMA FiveAt ==
  ASSUME NEW raw \in Raw, NEW o \in Nat, NEW a \in Raw, NEW b \in Raw, NEW c \in Raw, NEW d \in Raw,
         NEW e \in Raw, At(raw, o, Five(a, b, c, d, e))
  PROVE  /\ At(raw, o, a) /\ At(raw, o + Len(a), b) /\ At(raw, o + Len(a) + Len(b), c)
         /\ At(raw, o + Len(a) + Len(b) + Len(c), d)
         /\ At(raw, o + Len(a) + Len(b) + Len(c) + Len(d), e)
<1> DEFINE ab == Join(a, b)
           abc == Join(ab, c)
           abcd == Join(abc, d)
<1>1. ab \in Raw /\ Len(ab) = Len(a) + Len(b)
  BY JoinRaw
<1>2. abc \in Raw /\ Len(abc) = Len(ab) + Len(c)
  <2> HIDE DEF ab
  <2> QED  BY <1>1, JoinRaw
<1>3. abcd \in Raw /\ Len(abcd) = Len(abc) + Len(d)
  <2> HIDE DEF abc
  <2> QED  BY <1>2, JoinRaw
<1>4. At(raw, o, Join(abcd, e))
  BY DEF Five, Join
<1>5. At(raw, o, abcd) /\ At(raw, o + Len(abcd), e)
  <2> HIDE DEF abcd
  <2> QED  BY <1>3, <1>4, AtJoin
<1>6. At(raw, o, abc) /\ At(raw, o + Len(abc), d)
  <2> HIDE DEF abc
  <2> QED  BY <1>2, <1>5, AtJoin
<1>7. At(raw, o, ab) /\ At(raw, o + Len(ab), c)
  <2> HIDE DEF ab
  <2> QED  BY <1>1, <1>6, AtJoin
<1>8. At(raw, o, a) /\ At(raw, o + Len(a), b)
  BY <1>7, AtJoin
<1> HIDE DEF ab, abc, abcd
<1>9. Len(a) \in Nat /\ Len(b) \in Nat /\ Len(c) \in Nat /\ Len(d) \in Nat
  BY RawFacts
<1>10. /\ o + Len(ab) = o + Len(a) + Len(b)
       /\ o + Len(abc) = o + Len(a) + Len(b) + Len(c)
       /\ o + Len(abcd) = o + Len(a) + Len(b) + Len(c) + Len(d)
  BY <1>1, <1>2, <1>3, <1>9
<1> QED  BY <1>5, <1>6, <1>7, <1>8, <1>10

\* The join of six is a sequence as long as they are together.
LEMMA SixRaw ==
  ASSUME NEW a \in Raw, NEW b \in Raw, NEW c \in Raw, NEW d \in Raw, NEW e \in Raw, NEW f \in Raw
  PROVE  /\ Six(a, b, c, d, e, f) \in Raw
         /\ Len(Six(a, b, c, d, e, f)) = Len(a) + Len(b) + Len(c) + Len(d) + Len(e) + Len(f)
<1> DEFINE all == Five(a, b, c, d, e)
<1>1. all \in Raw /\ Len(all) = Len(a) + Len(b) + Len(c) + Len(d) + Len(e)
  BY FiveRaw
<1>2. Six(a, b, c, d, e, f) = Join(all, f)
  BY DEF Six, Join
<1> HIDE DEF all
<1>3. Join(all, f) \in Raw /\ Len(Join(all, f)) = Len(all) + Len(f)
  BY <1>1, JoinRaw
<1> QED  BY <1>1, <1>2, <1>3

SixParts(raw, o, a, b, c, d, e, f) ==
  /\ At(raw, o, a) /\ At(raw, o + Len(a), b) /\ At(raw, o + Len(a) + Len(b), c)
  /\ At(raw, o + Len(a) + Len(b) + Len(c), d)
  /\ At(raw, o + Len(a) + Len(b) + Len(c) + Len(d), e)
  /\ At(raw, o + Len(a) + Len(b) + Len(c) + Len(d) + Len(e), f)

\* Where the six are, each is.
LEMMA SixAt ==
  ASSUME NEW raw \in Raw, NEW o \in Nat, NEW a \in Raw, NEW b \in Raw, NEW c \in Raw, NEW d \in Raw,
         NEW e \in Raw, NEW f \in Raw, At(raw, o, Six(a, b, c, d, e, f))
  PROVE  SixParts(raw, o, a, b, c, d, e, f)
<1> DEFINE all == Five(a, b, c, d, e)
<1>1. all \in Raw /\ Len(all) = Len(a) + Len(b) + Len(c) + Len(d) + Len(e)
  BY FiveRaw
<1>2. At(raw, o, Join(all, f))
  BY DEF Six, Join
<1> HIDE DEF all
<1>3. At(raw, o, all) /\ At(raw, o + Len(all), f)
  BY <1>1, <1>2, AtJoin
<1>4. /\ At(raw, o, a) /\ At(raw, o + Len(a), b) /\ At(raw, o + Len(a) + Len(b), c)
      /\ At(raw, o + Len(a) + Len(b) + Len(c), d)
      /\ At(raw, o + Len(a) + Len(b) + Len(c) + Len(d), e)
  BY <1>3, FiveAt, Zenon DEF all
<1>5. o + Len(all) = o + Len(a) + Len(b) + Len(c) + Len(d) + Len(e)
  <2>1. Len(a) \in Nat /\ Len(b) \in Nat /\ Len(c) \in Nat /\ Len(d) \in Nat /\ Len(e) \in Nat
    BY RawFacts
  <2> QED  BY <1>1, <2>1
<1> QED  BY <1>3, <1>4, <1>5, Zenon DEF SixParts

\* Zeros are a stretch of the log too.
LEMMA ZerosFacts ==
  ASSUME NEW n \in Nat
  PROVE  Zeros(n) \in Raw /\ Len(Zeros(n)) = n /\ \A p \in 1 .. n : Zeros(n)[p] = 0
<1>1. Zeros(n) \in [1 .. n -> Nat] /\ \A p \in 1 .. n : Zeros(n)[p] = 0
  BY DEF Zeros
<1> QED  BY <1>1, Sequence DEF Raw

\* The banks, their numbers and their names.
LEMMA AlgIdFacts ==
  ASSUME NEW bank \in Banks
  PROVE  AlgId(bank) \in DOMAIN AlgNames /\ AlgId(bank) \in Nat /\ AlgNames[AlgId(bank)] = bank
<1>1. \E id \in DOMAIN AlgNames : AlgNames[id] = bank
  BY Zenon DEF Banks, Range
<1>2. AlgId(bank) \in DOMAIN AlgNames /\ AlgNames[AlgId(bank)] = bank
  BY <1>1, Zenon DEF AlgId
<1>3. DOMAIN AlgNames \subseteq Nat
  BY DEF AlgNames
<1> QED  BY <1>2, <1>3

\* A TPM's banks are one to four of those with a name and a digest size.
LEMMA BanksFacts ==
  ASSUME banks \in Declared
  PROVE  /\ banks \in Seq(Banks) /\ Len(banks) \in 1 .. 4
         /\ ToSet(banks) = {banks[i] : i \in 1 .. Len(banks)}
         /\ \A bank \in ToSet(banks) : bank \in Banks /\ bank \in DOMAIN DigestSize /\ DigestSize[bank] \in Nat
<1>1. /\ banks \in Seq(Banks) /\ Len(banks) \in 1 .. 4
      /\ ToSet(banks) \subseteq DOMAIN DigestSize
  BY DeclaredAssumption
<1>2. ToSet(banks) = {banks[i] : i \in 1 .. Len(banks)} /\ \A i \in 1 .. Len(banks) : banks[i] \in Banks
  BY <1>1, LenProperties, ElementOfSeq DEF ToSet
<1>3. \A bank \in DOMAIN DigestSize : DigestSize[bank] \in Nat
  BY BoundsAssumption
<1> QED  BY <1>1, <1>2, <1>3

\* The header's records of the banks.
BankRecords == [i \in DOMAIN banks |-> U16(AlgId(banks[i])) \o U16(DigestSize[banks[i]])]

\* A bank's record is four bytes: its number and its digest's size.
LEMMA RecordFacts ==
  ASSUME banks \in Declared
  PROVE  /\ BankRecords \in Seq(Raw) /\ Len(BankRecords) = Len(banks)
         /\ \A i \in 1 .. Len(banks) :
              /\ banks[i] \in Banks /\ DigestSize[banks[i]] \in Nat /\ AlgId(banks[i]) \in Nat
              /\ BankRecords[i] = Join(U16(AlgId(banks[i])), U16(DigestSize[banks[i]]))
              /\ BankRecords[i] \in Raw /\ Len(BankRecords[i]) = 4
<1>1. Len(banks) \in Nat /\ DOMAIN banks = 1 .. Len(banks)
  BY BanksFacts, LenProperties
<1>2. ASSUME NEW i \in 1 .. Len(banks)
      PROVE  /\ banks[i] \in Banks /\ DigestSize[banks[i]] \in Nat /\ AlgId(banks[i]) \in Nat
             /\ BankRecords[i] = Join(U16(AlgId(banks[i])), U16(DigestSize[banks[i]]))
             /\ BankRecords[i] \in Raw /\ Len(BankRecords[i]) = 4
  <2>1. banks[i] \in Banks /\ DigestSize[banks[i]] \in Nat
    BY BanksFacts
  <2>2. AlgId(banks[i]) \in Nat
    BY <2>1, AlgIdFacts
  <2> DEFINE a == U16(AlgId(banks[i]))
             b == U16(DigestSize[banks[i]])
  <2>3. a \in Raw /\ b \in Raw /\ Len(a) = 2 /\ Len(b) = 2
    BY <2>1, <2>2, U16Facts
  <2>4. BankRecords[i] = Join(a, b)
    BY <1>1 DEF BankRecords, Join
  <2> HIDE DEF a, b
  <2>5. Join(a, b) \in Raw /\ Len(Join(a, b)) = Len(a) + Len(b)
    BY <2>3, JoinRaw
  <2>6. BankRecords[i] \in Raw /\ Len(BankRecords[i]) = 4
    BY <2>3, <2>4, <2>5
  <2> QED  BY <2>1, <2>2, <2>4, <2>6 DEF a, b
<1>3. BankRecords \in [1 .. Len(banks) -> Raw]
  <2>1. \A i \in 1 .. Len(banks) : BankRecords[i] \in Raw
    BY <1>2
  <2>2. BankRecords = [i \in 1 .. Len(banks) |-> BankRecords[i]]
    BY <1>1 DEF BankRecords
  <2> HIDE DEF BankRecords
  <2> QED  BY <2>1, <2>2
<1>4. BankRecords \in Seq(Raw) /\ Len(BankRecords) = Len(banks)
  BY <1>1, <1>3, Sequence
<1> QED  BY <1>2, <1>4

\* Sequences of one length, joined.
LEMMA EvenFlat ==
  ASSUME NEW seqs \in Seq(Raw), NEW f \in [0 .. Len(seqs) -> Raw], Joins(f, seqs), NEW size \in Nat,
         \A k \in 1 .. Len(seqs) : Len(seqs[k]) = size
  PROVE  /\ \A k \in 0 .. Len(seqs) : Len(f[k]) = size * k
         /\ FlattenSeq(seqs) \in Raw
<1> DEFINE n == Len(seqs)
           P == {k \in 0 .. n : Len(f[k]) = size * k}
<1>1. n \in Nat
  BY LenProperties
<1>2. f[0] = << >> /\ f[n] = FlattenSeq(seqs) /\ \A k \in 1 .. n : Len(f[k]) = Len(f[k - 1]) + size
  BY DEF Joins
<1> HIDE DEF n
<1>3. 0 \in P
  BY <1>1, <1>2
<1>4. ASSUME NEW k \in 0 .. n, k < n, k \in P  PROVE k + 1 \in P
  <2>1. k + 1 \in 1 .. n /\ k + 1 \in 0 .. n /\ (k + 1) - 1 = k /\ size * (k + 1) = size * k + size
    BY <1>1, <1>4
  <2>2. Len(f[k + 1]) = Len(f[k]) + size
    BY <1>2, <2>1
  <2> QED  BY <1>4, <2>1, <2>2
<1> HIDE DEF P
<1>5. \A k \in 0 .. n : k \in P
  BY <1>1, <1>3, <1>4, UpTo
<1>6. f[n] \in Raw
  BY <1>1 DEF n
<1> QED  BY <1>2, <1>5, <1>6 DEF P, n

\* The Spec ID event.
LEMMA SignatureFacts == Signature \in Raw /\ Len(Signature) = 16
<1>1. Signature \in [1 .. 16 -> Nat]
  BY DEF Signature
<1> QED  BY <1>1, Sequence DEF Raw

\* What the Spec ID event has of version and vendor, and its banks' records.
Version == <<0, 2, 0, 2>>
End == <<0>>
Records == FlattenSeq(BankRecords)

\* The version and the end are four bytes and one.
LEMMA SmallFacts == Version \in Raw /\ Len(Version) = 4 /\ Version[2] = 2 /\ End \in Raw /\ Len(End) = 1
  BY DEF Version, End, Raw

\* The Spec ID event is five parts, of a length that follows from the banks alone.
LEMMA SpecIs ==
  ASSUME banks \in Declared
  PROVE  /\ Spec03 = Six(Signature, Zeros(4), Version, U32(Len(banks)), Records, End)
         /\ Len(banks) \in Nat /\ U32(Len(banks)) \in Raw /\ Len(U32(Len(banks))) = 4
         /\ Records \in Raw
         /\ Spec03 \in Raw /\ Len(Spec03) \in Nat /\ Len(Spec03) >= 29
<1>1. Spec03 = Six(Signature, Zeros(4), Version, U32(Len(banks)), Records, End)
  BY DEF Spec03, Six, Five, Version, End, Records, BankRecords
<1>2. Len(banks) \in Nat
  BY BanksFacts
<1>3. U32(Len(banks)) \in Raw /\ Len(U32(Len(banks))) = 4
  BY <1>2, U32Facts
<1>4. Records \in Raw
  <2>1. BankRecords \in Seq(Raw)
    BY RecordFacts
  <2>2. PICK f \in [0 .. Len(BankRecords) -> Raw] : Joins(f, BankRecords)
    BY <2>1, FlattenSteps DEF Raw
  <2>3. \A k \in 1 .. Len(BankRecords) : Len(BankRecords[k]) = 4
    BY RecordFacts
  <2> QED  BY <2>1, <2>2, <2>3, EvenFlat DEF Records
<1> DEFINE six == Six(Signature, Zeros(4), Version, U32(Len(banks)), Records, End)
<1>5. Zeros(4) \in Raw /\ Len(Zeros(4)) = 4
  BY ZerosFacts
<1>6. /\ six \in Raw
      /\ Len(six) = Len(Signature) + Len(Zeros(4)) + Len(Version) + Len(U32(Len(banks))) + Len(Records) + Len(End)
  <2>1. Signature \in Raw /\ Version \in Raw /\ End \in Raw
    BY SignatureFacts, SmallFacts
  <2> DEFINE z == Zeros(4)
             w == U32(Len(banks))
  <2>2. z \in Raw /\ w \in Raw
    BY <1>3, <1>5
  <2> HIDE DEF z, w
  <2>3. /\ Six(Signature, z, Version, w, Records, End) \in Raw
        /\ Len(Six(Signature, z, Version, w, Records, End))
             = Len(Signature) + Len(z) + Len(Version) + Len(w) + Len(Records) + Len(End)
    BY <1>4, <2>1, <2>2, SixRaw
  <2> QED  BY <2>3 DEF z, w
<1>7. Len(Records) \in Nat
  BY <1>4, RawFacts
<1> HIDE DEF six
<1>8. Len(six) \in Nat /\ Len(six) >= 29
  <2>1. Len(Signature) = 16 /\ Len(Version) = 4 /\ Len(End) = 1
    BY SignatureFacts, SmallFacts
  <2>2. Len(six) = 16 + 4 + 4 + 4 + Len(Records) + 1
    BY <1>3, <1>5, <1>6, <2>1
  <2> QED  BY <1>7, <2>2
<1> QED  BY <1>1, <1>2, <1>3, <1>4, <1>6, <1>8, Zenon DEF six

Declares == [i \in 1 .. Len(banks) |-> [alg |-> AlgId(banks[i]), size |-> DigestSize[banks[i]]]]

\* Where its parts are.
LEMMA SpecAt ==
  ASSUME banks \in Declared
  PROVE  /\ At(Spec03, 0, Signature) /\ Word(Spec03, 24) = Len(banks)
         /\ At(Spec03, 28, Records) /\ At(Spec03, 20, Version)
<1> DEFINE z == Zeros(4)
           w == U32(Len(banks))
           spec == Spec03
           sig == Signature
<1>1. /\ spec = Six(sig, z, Version, w, Records, End)
      /\ Len(banks) \in Nat /\ w \in Raw /\ Len(w) = 4 /\ Records \in Raw /\ spec \in Raw
  BY SpecIs
<1>2. z \in Raw /\ Len(z) = 4
  BY ZerosFacts
<1>3. sig \in Raw /\ Len(sig) = 16 /\ Version \in Raw /\ Len(Version) = 4 /\ End \in Raw
  BY SignatureFacts, SmallFacts
<1> HIDE DEF z, w, spec, sig
<1>4. At(spec, 0, Six(sig, z, Version, w, Records, End)) /\ 0 \in Nat
  BY <1>1, AtSelf
<1>5. /\ At(spec, 0, sig) /\ At(spec, 0 + Len(sig), z) /\ At(spec, 0 + Len(sig) + Len(z), Version)
      /\ At(spec, 0 + Len(sig) + Len(z) + Len(Version), w)
      /\ At(spec, 0 + Len(sig) + Len(z) + Len(Version) + Len(w), Records)
      /\ At(spec, 0 + Len(sig) + Len(z) + Len(Version) + Len(w) + Len(Records), End)
  <2>1. spec \in Raw /\ sig \in Raw /\ z \in Raw /\ Version \in Raw /\ w \in Raw /\ Records \in Raw /\ End \in Raw
    BY <1>1, <1>2, <1>3
  <2>2. SixParts(spec, 0, sig, z, Version, w, Records, End)
    BY <1>4, <2>1, SixAt
  <2> QED  BY <2>2, Zenon DEF SixParts
<1>6. /\ 0 + Len(sig) + Len(z) = 20 /\ 0 + Len(sig) + Len(z) + Len(Version) = 24
      /\ 0 + Len(sig) + Len(z) + Len(Version) + Len(w) = 28
  BY <1>1, <1>2, <1>3
<1>7. At(spec, 20, Version) /\ At(spec, 24, w) /\ At(spec, 28, Records)
  BY <1>5, <1>6
<1>8. Word(spec, 24) = Len(banks)
  <2>1. At(spec, 24, U32(Len(banks)))
    BY <1>7 DEF w
  <2> QED  BY <1>1, <2>1, WordAt
<1> QED  BY <1>5, <1>7, <1>8 DEF spec, sig

\* Where a bank's record is.
LEMMA RecordsAt ==
  ASSUME banks \in Declared, NEW i \in 1 .. Len(banks)
  PROVE  /\ Half(Spec03, 28 + 4 * (i - 1)) = AlgId(banks[i])
         /\ Half(Spec03, 30 + 4 * (i - 1)) = DigestSize[banks[i]]
<1> DEFINE spec == Spec03
           o == 28 + 4 * (i - 1)
<1>1. spec \in Raw /\ At(spec, 28, Records)
  BY SpecIs, SpecAt
<1>2. Len(banks) \in Nat
  BY SpecIs
<1>3. BankRecords \in Seq(Raw) /\ Len(BankRecords) = Len(banks)
  BY RecordFacts
<1>4. PICK f \in [0 .. Len(BankRecords) -> Raw] : Joins(f, BankRecords)
  BY <1>3, FlattenSteps DEF Raw
<1> HIDE DEF spec
<1>5. \A k \in 1 .. Len(BankRecords) : At(spec, 28 + Len(f[k - 1]), BankRecords[k])
  <2>1. At(spec, 28, FlattenSeq(BankRecords))
    BY <1>1 DEF Records
  <2> QED  BY <1>1, <1>3, <1>4, <2>1, FlatAt
<1>6. \A k \in 0 .. Len(BankRecords) : Len(f[k]) = 4 * k
  <2>1. \A k \in 1 .. Len(BankRecords) : Len(BankRecords[k]) = 4
    BY RecordFacts
  <2> QED  BY <1>3, <1>4, <2>1, EvenFlat
<1>7. At(spec, o, BankRecords[i])
  <2>1. i \in 1 .. Len(BankRecords) /\ i - 1 \in 0 .. Len(BankRecords)
    BY <1>2, <1>3
  <2>2. Len(f[i - 1]) = 4 * (i - 1)
    BY <1>6, <2>1
  <2> QED  BY <1>5, <2>1, <2>2
<1>8. o \in Nat /\ o + 2 = 30 + 4 * (i - 1)
  BY <1>2
<1> HIDE DEF o
<1> DEFINE a == U16(AlgId(banks[i]))
           b == U16(DigestSize[banks[i]])
<1>9. AlgId(banks[i]) \in Nat /\ DigestSize[banks[i]] \in Nat /\ BankRecords[i] = Join(a, b)
  BY RecordFacts
<1>10. a \in Raw /\ b \in Raw /\ Len(a) = 2
  BY <1>9, U16Facts
<1>11. At(spec, o, Join(a, b))
  BY <1>7, <1>9
<1> HIDE DEF a, b
<1>12. At(spec, o, a) /\ At(spec, o + 2, b)
  BY <1>1, <1>8, <1>10, <1>11, AtJoin
<1>13. Half(spec, o) = AlgId(banks[i]) /\ Half(spec, o + 2) = DigestSize[banks[i]]
  BY <1>9, <1>12, HalfAt DEF a, b
<1> QED  BY <1>8, <1>13 DEF o, spec

\* The header, as eventlog.py reads it.
LEMMA HeaderIs ==
  ASSUME banks \in Declared
  PROVE  /\ Header \in Raw /\ Len(Header) = 32 + Len(Spec03) /\ Len(Header) \in Nat
         /\ \A raw \in Raw : At(raw, 0, Header) =>
              /\ Word(raw, 4) = EV_NO_ACTION /\ Word(raw, 28) = Len(Spec03) /\ At(raw, 32, Spec03)
<1> DEFINE a == U32(0)
           b == U32(EV_NO_ACTION)
           z == Zeros(20)
           w == U32(Len(Spec03))
           spec == Spec03
<1>1. spec \in Raw /\ Len(spec) \in Nat
  BY SpecIs
<1>2. a \in Raw /\ Len(a) = 4 /\ b \in Raw /\ Len(b) = 4 /\ w \in Raw /\ Len(w) = 4
  BY <1>1, U32Facts DEF EV_NO_ACTION
<1>3. z \in Raw /\ Len(z) = 20
  BY ZerosFacts
<1>4. Header = Five(a, b, z, w, spec)
  BY DEF Header, Five
<1> HIDE DEF a, b, z, w, spec
<1>5. Header \in Raw /\ Len(Header) = Len(a) + Len(b) + Len(z) + Len(w) + Len(spec)
  <2>1. a \in Raw /\ b \in Raw /\ z \in Raw /\ w \in Raw /\ spec \in Raw
    BY <1>1, <1>2, <1>3
  <2>2. /\ Five(a, b, z, w, spec) \in Raw
        /\ Len(Five(a, b, z, w, spec)) = Len(a) + Len(b) + Len(z) + Len(w) + Len(spec)
    BY <2>1, FiveRaw
  <2> QED  BY <1>4, <2>2
<1>6. Len(Header) = 32 + Len(spec) /\ Len(Header) \in Nat
  BY <1>1, <1>2, <1>3, <1>5
<1>7. ASSUME NEW raw \in Raw, At(raw, 0, Header)
      PROVE  Word(raw, 4) = EV_NO_ACTION /\ Word(raw, 28) = Len(Spec03) /\ At(raw, 32, Spec03)
  <2>1. At(raw, 0, Five(a, b, z, w, spec)) /\ 0 \in Nat
    BY <1>4, <1>7
  <2>2. /\ At(raw, 0, a) /\ At(raw, 0 + Len(a), b) /\ At(raw, 0 + Len(a) + Len(b), z)
        /\ At(raw, 0 + Len(a) + Len(b) + Len(z), w)
        /\ At(raw, 0 + Len(a) + Len(b) + Len(z) + Len(w), spec)
    <3>1. a \in Raw /\ b \in Raw /\ z \in Raw /\ w \in Raw /\ spec \in Raw
      BY <1>1, <1>2, <1>3
    <3> QED  BY <2>1, <3>1, FiveAt
  <2>3. /\ 0 + Len(a) = 4 /\ 0 + Len(a) + Len(b) + Len(z) = 28
        /\ 0 + Len(a) + Len(b) + Len(z) + Len(w) = 32
    BY <1>2, <1>3
  <2>4. At(raw, 4, b) /\ At(raw, 28, w) /\ At(raw, 32, spec)
    BY <2>2, <2>3
  <2>5. Word(raw, 4) = EV_NO_ACTION
    <3>1. EV_NO_ACTION \in Nat
      BY DEF EV_NO_ACTION
    <3> QED  BY <2>4, <3>1, WordAt DEF b
  <2>6. Word(raw, 28) = Len(Spec03)
    <3>1. At(raw, 28, U32(Len(Spec03))) /\ Len(Spec03) \in Nat
      BY <1>1, <2>4 DEF w, spec
    <3> QED  BY <3>1, WordAt
  <2> QED  BY <2>4, <2>5, <2>6 DEF spec
<1> QED  BY <1>5, <1>6, <1>7 DEF spec

\* _algorithms reads the header's records as the banks and their sizes (eventlog.py:38-51).
LEMMA AlgorithmsRead ==
  ASSUME banks \in Declared, NEW raw \in Raw, At(raw, 0, Header)
  PROVE  Algorithms(raw) = Declares /\ Slice(raw, 32, 48) = Signature
<1>1. Word(raw, 28) = Len(Spec03) /\ At(raw, 32, Spec03)
  BY HeaderIs
<1>2. Spec03 \in Raw /\ Len(Spec03) \in Nat
  BY SpecIs
<1>3. Slice(raw, 32, 32 + Word(raw, 28)) = Spec03
  BY <1>1, <1>2, SliceAt
<1>4. Algorithms(raw) = [i \in 1 .. Word(Spec03, 24) |->
         [alg |-> Half(Spec03, 28 + 4 * (i - 1)), size |-> Half(Spec03, 30 + 4 * (i - 1))]]
  BY <1>3, Zenon DEF Algorithms
<1>5. Algorithms(raw) = Declares
  BY <1>4, SpecAt, RecordsAt DEF Declares
<1>6. Slice(raw, 32, 48) = Signature
  <2> DEFINE spec == Spec03
             sig == Signature
  <2>1. \A p \in 1 .. 16 : spec[0 + p] = sig[p]
    BY SpecAt, SignatureFacts DEF At
  <2>2. Len(spec) >= 29 /\ 32 + Len(spec) <= Len(raw) /\ \A p \in 1 .. Len(spec) : raw[32 + p] = spec[p]
    BY <1>1, SpecIs DEF At
  <2>3. sig \in Raw /\ Len(sig) = 16 /\ Len(spec) \in Nat /\ Len(raw) \in Nat
    BY <1>2, SignatureFacts, RawFacts
  <2> HIDE DEF spec, sig
  <2>4. ASSUME NEW p \in 1 .. Len(sig)  PROVE raw[32 + p] = sig[p]
    <3>1. p \in 1 .. 16 /\ p \in 1 .. Len(spec) /\ 0 + p = p
      BY SMTT(30), <2>2, <2>3
    <3> QED  BY <2>1, <2>2, <3>1
  <2>5. 32 + Len(sig) <= Len(raw)
    BY <2>2, <2>3
  <2>6. At(raw, 32, sig) /\ 32 \in Nat
    BY <2>4, <2>5 DEF At
  <2>7. Slice(raw, 32, 32 + Len(sig)) = sig
    BY <2>3, <2>6, SliceAt
  <2>8. 32 + Len(sig) = 48
    BY <2>3
  <2> QED  BY <2>7, <2>8 DEF sig
<1> QED  BY <1>5, <1>6

-----------------------------------------------------------------------------
(* Events.                                                                 *)

\* What the log holds.
Ins == {in \in Seq(ToSet(banks)) : in # << >>}
Entries ==
  {Logged(Event(pcr, type, Digests(m, in), data), in) :
     pcr \in Pcrs, type \in {EV_NO_ACTION, EV_SLAUNCH}, m \in Measured, in \in Ins, data \in Raw}
EntryOk(x) ==
  /\ x.event.pcr \in Nat /\ x.event.type \in Nat /\ x.event.data \in Raw
  /\ x.event = Event(x.event.pcr, x.event.type, x.event.digests, x.event.data)
  /\ Len(x.in) \in Nat /\ Len(x.in) >= 1 /\ DOMAIN x.in = 1 .. Len(x.in)
  /\ x.event.digests = [bank \in ToSet(x.in) |-> x.event.digests[bank]]
  /\ \A k \in 1 .. Len(x.in) :
       /\ x.in[k] \in ToSet(banks) /\ x.event.digests[x.in[k]] \in Raw
       /\ Len(x.event.digests[x.in[k]]) = DigestSize[x.in[k]]

\* A digest is as many bytes as its bank says.
LEMMA DigestFacts ==
  ASSUME NEW m \in Measured, NEW bank \in DOMAIN DigestSize
  PROVE  m.digest[bank] \in Raw /\ Len(m.digest[bank]) = DigestSize[bank]
<1>1. m.digest[bank] \in Seq(Byte) /\ Len(m.digest[bank]) = DigestSize[bank]
  BY MeasuredAssumption
<1>2. Byte \subseteq Nat
  BY DEF Byte
<1>3. m.digest[bank] \in Seq(Nat)
  BY <1>1, <1>2, SeqMonotonic
<1> QED  BY <1>1, <1>3 DEF Raw

\* Every event the log holds is such an entry.
LEMMA EntryFacts ==
  ASSUME banks \in Declared, NEW x \in Entries
  PROVE  EntryOk(x)
<1>1. PICK pcr \in Pcrs, type \in {EV_NO_ACTION, EV_SLAUNCH}, m \in Measured, in \in Ins, data \in Raw :
        x = Logged(Event(pcr, type, Digests(m, in), data), in)
  BY DEF Entries
<1>2. /\ x.in = in /\ x.event.pcr = pcr /\ x.event.type = type /\ x.event.data = data
      /\ x.event.digests = Digests(m, in)
      /\ x.event = Event(x.event.pcr, x.event.type, x.event.digests, x.event.data)
  <2> DEFINE digests == Digests(m, in)
  <2> HIDE DEF digests
  <2>1. x = [event |-> [pcr |-> pcr, type |-> type, digests |-> digests, data |-> data], in |-> in]
    BY <1>1, Zenon DEF Logged, Event, digests
  <2>2. /\ x.in = in /\ x.event.pcr = pcr /\ x.event.type = type /\ x.event.data = data
        /\ x.event.digests = digests
        /\ x.event = [pcr |-> pcr, type |-> type, digests |-> digests, data |-> data]
    BY <2>1
  <2>3. x.event = Event(x.event.pcr, x.event.type, x.event.digests, x.event.data)
    BY <2>2 DEF Event
  <2> QED  BY <2>2, <2>3 DEF digests
<1>3. pcr \in Nat /\ type \in Nat
  BY BoundsAssumption DEF EV_NO_ACTION, EV_SLAUNCH
<1>4. in \in Seq(ToSet(banks)) /\ Len(in) \in Nat /\ Len(in) >= 1 /\ DOMAIN in = 1 .. Len(in)
  <2>1. in \in Seq(ToSet(banks)) /\ in # << >>
    BY DEF Ins
  <2>2. Len(in) \in Nat \ {0} /\ DOMAIN in = 1 .. Len(in)
    BY <2>1, EmptySeq, LenProperties
  <2> QED  BY <2>1, <2>2
<1>5. \A k \in 1 .. Len(in) : in[k] \in ToSet(banks) /\ in[k] \in ToSet(in) /\ in[k] \in DOMAIN DigestSize
  <2>1. \A k \in 1 .. Len(in) : in[k] \in ToSet(banks)
    BY <1>4, ElementOfSeq
  <2>2. \A k \in 1 .. Len(in) : in[k] \in ToSet(in)
    BY <1>4 DEF ToSet
  <2> QED  BY <2>1, <2>2, BanksFacts
<1>6. Digests(m, in) = [bank \in ToSet(in) |-> Digests(m, in)[bank]]
  BY DEF Digests
<1>7. \A k \in 1 .. Len(in) : Digests(m, in)[in[k]] \in Raw /\ Len(Digests(m, in)[in[k]]) = DigestSize[in[k]]
  <2>1. \A k \in 1 .. Len(in) : Digests(m, in)[in[k]] = m.digest[in[k]]
    BY <1>5 DEF Digests
  <2> QED  BY <1>5, <2>1, DigestFacts
<1>8. /\ x.event.pcr \in Nat /\ x.event.type \in Nat /\ x.event.data \in Raw
      /\ x.event = Event(x.event.pcr, x.event.type, x.event.digests, x.event.data)
      /\ Len(x.in) \in Nat /\ Len(x.in) >= 1 /\ DOMAIN x.in = 1 .. Len(x.in)
  BY <1>2, <1>3, <1>4
<1>9. /\ x.event.digests = [bank \in ToSet(x.in) |-> x.event.digests[bank]]
      /\ \A k \in 1 .. Len(x.in) :
           /\ x.in[k] \in ToSet(banks) /\ x.event.digests[x.in[k]] \in Raw
           /\ Len(x.event.digests[x.in[k]]) = DigestSize[x.in[k]]
  BY <1>2, <1>5, <1>6, <1>7
<1> QED  BY <1>8, <1>9 DEF EntryOk

\* An event's digests, each after its bank's number.
Parts(x) == [i \in DOMAIN x.in |-> U16(AlgId(x.in[i])) \o x.event.digests[x.in[i]]]

\* The parts are one to a digest, each the bank's number and the digest.
LEMMA PartFacts ==
  ASSUME banks \in Declared, NEW x, EntryOk(x)
  PROVE  /\ Parts(x) \in Seq(Raw) /\ Len(Parts(x)) = Len(x.in)
         /\ \A k \in 1 .. Len(x.in) :
              /\ AlgId(x.in[k]) \in Nat
              /\ Parts(x)[k] = Join(U16(AlgId(x.in[k])), x.event.digests[x.in[k]])
              /\ Len(Parts(x)[k]) = 2 + DigestSize[x.in[k]]
<1>1. Len(x.in) \in Nat /\ DOMAIN x.in = 1 .. Len(x.in)
  BY DEF EntryOk
<1>2. ASSUME NEW k \in 1 .. Len(x.in)
      PROVE  /\ AlgId(x.in[k]) \in Nat
             /\ Parts(x)[k] = Join(U16(AlgId(x.in[k])), x.event.digests[x.in[k]])
             /\ Parts(x)[k] \in Raw /\ Len(Parts(x)[k]) = 2 + DigestSize[x.in[k]]
  <2> DEFINE a == U16(AlgId(x.in[k]))
             b == x.event.digests[x.in[k]]
  <2>1. x.in[k] \in ToSet(banks) /\ b \in Raw /\ Len(b) = DigestSize[x.in[k]]
    BY DEF EntryOk
  <2>2. AlgId(x.in[k]) \in Nat
    <3>1. x.in[k] \in Banks
      BY <2>1, BanksFacts
    <3> QED  BY <3>1, AlgIdFacts
  <2>3. a \in Raw /\ Len(a) = 2
    BY <2>2, U16Facts
  <2>4. Parts(x)[k] = Join(a, b)
    BY <1>1 DEF Parts, Join
  <2> HIDE DEF a, b
  <2>5. Join(a, b) \in Raw /\ Len(Join(a, b)) = Len(a) + Len(b)
    BY <2>1, <2>3, JoinRaw
  <2>6. Parts(x)[k] \in Raw /\ Len(Parts(x)[k]) = 2 + DigestSize[x.in[k]]
    BY <2>1, <2>3, <2>4, <2>5
  <2> QED  BY <2>2, <2>4, <2>6 DEF a, b
<1>3. Parts(x) \in [1 .. Len(x.in) -> Raw]
  <2>1. \A k \in 1 .. Len(x.in) : Parts(x)[k] \in Raw
    BY SMTT(30), <1>2
  <2>2. Parts(x) = [k \in 1 .. Len(x.in) |-> Parts(x)[k]]
    BY <1>1 DEF Parts
  <2> HIDE DEF Parts
  <2> QED  BY <2>1, <2>2
<1>4. Parts(x) \in Seq(Raw) /\ Len(Parts(x)) = Len(x.in)
  BY <1>1, <1>3, Sequence
<1> QED  BY <1>2, <1>4

\* An event as bytes, and where its fields are.
Placing(raw, o, x) ==
  /\ At(raw, o, U32(x.event.pcr)) /\ At(raw, o + 4, U32(x.event.type)) /\ At(raw, o + 8, U32(Len(x.in)))
  /\ At(raw, o + 12, FlattenSeq(Parts(x)))
  /\ At(raw, o + 12 + Len(FlattenSeq(Parts(x))), U32(Len(x.event.data)))
  /\ At(raw, o + 16 + Len(FlattenSeq(Parts(x))), x.event.data)

\* An event is six parts, and where it is, each of them is.
LEMMA EncodedIs ==
  ASSUME banks \in Declared, NEW x, EntryOk(x)
  PROVE  /\ FlattenSeq(Parts(x)) \in Raw /\ Len(FlattenSeq(Parts(x))) \in Nat
         /\ Encoded(x) \in Raw /\ Len(Encoded(x)) = 16 + Len(FlattenSeq(Parts(x))) + Len(x.event.data)
         /\ \A raw \in Raw, o \in Nat : At(raw, o, Encoded(x)) => Placing(raw, o, x)
<1> DEFINE a == U32(x.event.pcr)
           b == U32(x.event.type)
           c == U32(Len(x.in))
           d == FlattenSeq(Parts(x))
           e == U32(Len(x.event.data))
           f == x.event.data
<1>1. d \in Raw /\ Len(d) \in Nat
  <2>1. Parts(x) \in Seq(Raw)
    BY PartFacts
  <2>2. PICK g \in [0 .. Len(Parts(x)) -> Raw] : Joins(g, Parts(x))
    BY <2>1, FlattenSteps DEF Raw
  <2>3. d \in Raw
    BY <2>1, <2>2, FlattenAt DEF Raw
  <2> QED  BY <2>3, RawFacts
<1>2. a \in Raw /\ b \in Raw /\ c \in Raw /\ Len(a) = 4 /\ Len(b) = 4 /\ Len(c) = 4
  BY U32Facts DEF EntryOk
<1>3. f \in Raw /\ Len(f) \in Nat
  BY RawFacts DEF EntryOk
<1>4. e \in Raw /\ Len(e) = 4
  BY <1>3, U32Facts
<1>5. Encoded(x) = Six(a, b, c, d, e, f)
  BY DEF Encoded, Six, Five, Parts
<1> HIDE DEF a, b, c, d, e, f
<1>6. a \in Raw /\ b \in Raw /\ c \in Raw /\ d \in Raw /\ e \in Raw /\ f \in Raw
  BY <1>1, <1>2, <1>3, <1>4
<1>7. /\ Six(a, b, c, d, e, f) \in Raw
      /\ Len(Six(a, b, c, d, e, f)) = Len(a) + Len(b) + Len(c) + Len(d) + Len(e) + Len(f)
  BY <1>6, SixRaw
<1>8. Encoded(x) \in Raw /\ Len(Encoded(x)) = 16 + Len(d) + Len(f)
  BY <1>1, <1>2, <1>3, <1>4, <1>5, <1>7
<1>9. ASSUME NEW raw \in Raw, NEW o \in Nat, At(raw, o, Encoded(x))  PROVE Placing(raw, o, x)
  <2>1. SixParts(raw, o, a, b, c, d, e, f)
    BY <1>5, <1>6, <1>9, SixAt
  <2>2. /\ At(raw, o, a) /\ At(raw, o + Len(a), b) /\ At(raw, o + Len(a) + Len(b), c)
        /\ At(raw, o + Len(a) + Len(b) + Len(c), d)
        /\ At(raw, o + Len(a) + Len(b) + Len(c) + Len(d), e)
        /\ At(raw, o + Len(a) + Len(b) + Len(c) + Len(d) + Len(e), f)
    BY <2>1, Zenon DEF SixParts
  <2>3. /\ o + Len(a) = o + 4 /\ o + Len(a) + Len(b) = o + 8 /\ o + Len(a) + Len(b) + Len(c) = o + 12
        /\ o + Len(a) + Len(b) + Len(c) + Len(d) = o + 12 + Len(d)
        /\ o + Len(a) + Len(b) + Len(c) + Len(d) + Len(e) = o + 16 + Len(d)
    BY <1>1, <1>2, <1>4
  <2>4. /\ At(raw, o, a) /\ At(raw, o + 4, b) /\ At(raw, o + 8, c) /\ At(raw, o + 12, d)
        /\ At(raw, o + 12 + Len(d), e) /\ At(raw, o + 16 + Len(d), f)
    BY <2>2, <2>3
  <2> QED  BY <2>4, Zenon DEF Placing, a, b, c, d, e, f
<1> QED  BY <1>1, <1>8, <1>9 DEF d, f

\* A bank's number finds its digest's size, and its name.
SizeOf(bank) == (CHOOSE a \in Range(Declares) : a.alg = AlgId(bank)).size

\* The size a bank's number finds is the one the writer used (eventlog.py:68).
LEMMA SizeFound ==
  ASSUME banks \in Declared, NEW bank \in ToSet(banks)
  PROVE  SizeOf(bank) = DigestSize[bank]
<1> DEFINE a == CHOOSE a \in Range(Declares) : a.alg = AlgId(bank)
<1>1. \A i \in 1 .. Len(banks) : Declares[i].alg = AlgId(banks[i]) /\ Declares[i].size = DigestSize[banks[i]]
  BY DEF Declares
<1>2. DOMAIN Declares = 1 .. Len(banks)
  BY DEF Declares
<1>3. PICK i \in 1 .. Len(banks) : banks[i] = bank
  BY BanksFacts
<1>4. Declares[i] \in Range(Declares) /\ Declares[i].alg = AlgId(bank)
  BY <1>1, <1>2, <1>3, Zenon DEF Range
<1>5. a \in Range(Declares) /\ a.alg = AlgId(bank)
  BY <1>4, Zenon
<1> HIDE DEF a
<1>6. PICK j \in 1 .. Len(banks) : a = Declares[j]
  BY <1>2, <1>5, Zenon DEF Range
<1>7. AlgId(banks[j]) = AlgId(bank) /\ a.size = DigestSize[banks[j]]
  BY <1>1, <1>5, <1>6
<1>8. banks[j] = bank
  <2>1. banks[j] \in Banks /\ bank \in Banks
    BY BanksFacts
  <2>2. AlgNames[AlgId(banks[j])] = banks[j] /\ AlgNames[AlgId(bank)] = bank
    BY <2>1, AlgIdFacts
  <2> QED  BY <1>7, <2>2
<1> QED  BY <1>7, <1>8, Zenon DEF SizeOf, a

\* One digest of an event is read as it was written.
ReadsOne(raw, o, digests, bank, digest) ==
  DigestAt(raw, Declares, [o |-> o, digests |-> digests])
    = [o |-> o + 2 + Len(digest), digests |-> Put(digests, bank, digest)]

\* Where a digest was written after its number, DigestAt reads it (eventlog.py:66-71).
LEMMA DigestRead ==
  ASSUME banks \in Declared, NEW raw \in Raw, NEW o \in Nat, NEW bank \in ToSet(banks), NEW digest \in Raw,
         Len(digest) = DigestSize[bank], NEW digests, At(raw, o, Join(U16(AlgId(bank)), digest))
  PROVE  ReadsOne(raw, o, digests, bank, digest)
<1>1. bank \in Banks
  BY BanksFacts
<1>2. AlgId(bank) \in Nat /\ AlgNames[AlgId(bank)] = bank
  BY <1>1, AlgIdFacts
<1> DEFINE a == U16(AlgId(bank))
<1>3. a \in Raw /\ Len(a) = 2
  BY <1>2, U16Facts
<1>4. At(raw, o, a) /\ At(raw, o + 2, digest)
  <2> HIDE DEF a
  <2>1. At(raw, o, a) /\ At(raw, o + Len(a), digest)
    BY <1>3, AtJoin DEF a
  <2> QED  BY <1>3, <2>1
<1>5. Half(raw, o) = AlgId(bank)
  BY <1>2, <1>4, HalfAt
<1>6. Slice(raw, o + 2, o + 2 + Len(digest)) = digest
  <2>1. o + 2 \in Nat
    OBVIOUS
  <2> QED  BY <1>4, <2>1, SliceAt
<1> HIDE DEF a
<1> DEFINE st == [o |-> o, digests |-> digests]
<1>7. st.o = o /\ st.digests = digests
  OBVIOUS
<1> HIDE DEF st
<1>8. SizeOf(bank) = Len(digest)
  BY SizeFound
<1>9. DigestAt(raw, Declares, st) =
        [o |-> o + 2 + SizeOf(bank),
         digests |-> Put(digests, bank, Slice(raw, o + 2, o + 2 + SizeOf(bank)))]
  BY <1>2, <1>5, <1>7, Zenon DEF DigestAt, SizeOf
<1> QED  BY <1>6, <1>8, <1>9 DEF st, ReadsOne

\* The first digests of an event.
First(x, k) == {x.in[j] : j \in 1 .. k}
Some(x, k) == IF k = 0 THEN << >> ELSE [bank \in First(x, k) |-> x.event.digests[bank]]

\* One more digest makes the next of them.
LEMMA SomeMore ==
  ASSUME NEW x, NEW k \in Nat
  PROVE  Put(Some(x, k), x.in[k + 1], x.event.digests[x.in[k + 1]]) = Some(x, k + 1)
<1> DEFINE bank == x.in[k + 1]
           digest == x.event.digests[bank]
           some == Some(x, k)
<1>1. First(x, k + 1) = First(x, k) \cup {bank}
  BY DEF First
<1>2. DOMAIN some = First(x, k) /\ \A b \in First(x, k) : some[b] = x.event.digests[b]
  <2>1. CASE k = 0
    <3>1. some = << >> /\ First(x, k) = {}
      BY <2>1 DEF Some, First
    <3>2. DOMAIN << >> = {}
      OBVIOUS
    <3> QED  BY <3>1, <3>2
  <2>2. CASE k # 0
    BY <2>2 DEF Some
  <2> QED  BY <2>1, <2>2
<1>3. Some(x, k + 1) = [b \in First(x, k + 1) |-> x.event.digests[b]]
  BY DEF Some
<1> HIDE DEF some
<1>4. Put(some, bank, digest) = [b \in First(x, k) \cup {bank} |-> IF b = bank THEN digest ELSE some[b]]
  BY <1>2 DEF Put
<1>5. ASSUME NEW b \in First(x, k) \cup {bank}
      PROVE  (IF b = bank THEN digest ELSE some[b]) = x.event.digests[b]
  BY <1>2
<1> HIDE DEF bank
<1> QED  BY <1>1, <1>3, <1>4, <1>5 DEF some, bank

\* All an event's digests are read, up to where its data's length is (eventlog.py:65-71).
LEMMA DigestsRead ==
  ASSUME banks \in Declared, NEW raw \in Raw, NEW o \in Nat, NEW x, EntryOk(x),
         At(raw, o, FlattenSeq(Parts(x)))
  PROVE  DigestsAt(raw, Declares, o, Len(x.in))
           = [o |-> o + Len(FlattenSeq(Parts(x))), digests |-> x.event.digests]
<1> DEFINE n == Len(x.in)
           seqs == Parts(x)
           Is(h) == h = [i \in 0 .. n |-> IF i = 0 THEN [o |-> o, digests |-> << >>]
                                          ELSE DigestAt(raw, Declares, h[i - 1])]
           After == CHOOSE h : Is(h)
<1>1. n \in Nat /\ n >= 1 /\ DOMAIN x.in = 1 .. n
  BY DEF EntryOk
<1>2. seqs \in Seq(Raw) /\ Len(seqs) = n
  BY PartFacts
<1>3. PICK f \in [0 .. n -> Raw] : Joins(f, seqs)
  BY <1>2, FlattenSteps DEF Raw
<1>4. \A k \in 1 .. n : At(raw, o + Len(f[k - 1]), seqs[k])
  <2> HIDE DEF seqs
  <2>1. f \in [0 .. Len(seqs) -> Raw] /\ At(raw, o, FlattenSeq(seqs))
    BY <1>2 DEF seqs
  <2>2. \A k \in 1 .. Len(seqs) : At(raw, o + Len(f[k - 1]), seqs[k])
    BY <1>2, <1>3, <2>1, FlatAt
  <2> QED  BY <1>2, <2>2
<1>5. /\ f[0] = << >> /\ f[n] = FlattenSeq(seqs)
      /\ \A k \in 1 .. n : Len(f[k]) = Len(f[k - 1]) + Len(seqs[k])
  BY <1>2, <1>3 DEF Joins
<1>6. \A k \in 0 .. n : Len(f[k]) \in Nat
  <2>1. \A k \in 0 .. n : f[k] \in Raw
    OBVIOUS
  <2> QED  BY <2>1, RawFacts
<1> DEFINE g == [k \in 0 .. n |-> [o |-> o + Len(f[k]), digests |-> Some(x, k)]]
<1>7. ASSUME NEW k \in 1 .. n  PROVE DigestAt(raw, Declares, g[k - 1]) = g[k]
  <2> DEFINE bank == x.in[k]
             digest == x.event.digests[bank]
             p == o + Len(f[k - 1])
             some == Some(x, k - 1)
  <2>1. k \in 0 .. n /\ k - 1 \in 0 .. n /\ k - 1 \in Nat /\ (k - 1) + 1 = k
    BY <1>1
  <2>2. g[k - 1] = [o |-> p, digests |-> some] /\ g[k] = [o |-> o + Len(f[k]), digests |-> Some(x, k)]
    BY <2>1
  <2>3. bank \in ToSet(banks) /\ digest \in Raw /\ Len(digest) = DigestSize[bank]
    BY DEF EntryOk
  <2>4. seqs[k] = Join(U16(AlgId(bank)), digest) /\ Len(seqs[k]) = 2 + Len(digest)
    BY <2>3, PartFacts
  <2>5. p \in Nat /\ At(raw, p, Join(U16(AlgId(bank)), digest))
    <3>1. At(raw, p, seqs[k])
      BY <1>4
    <3>2. Len(f[k - 1]) \in Nat
      BY <1>6, <2>1
    <3>3. p \in Nat
      BY <3>2
    <3> HIDE DEF p, seqs
    <3> QED  BY <2>4, <3>1, <3>3
  <2>6. Put(some, bank, digest) = Some(x, k)
    <3>1. Put(Some(x, k - 1), x.in[(k - 1) + 1], x.event.digests[x.in[(k - 1) + 1]]) = Some(x, (k - 1) + 1)
      BY <2>1, SomeMore
    <3> QED  BY <2>1, <3>1
  <2>7. p + 2 + Len(digest) = o + Len(f[k])
    <3>1. Len(f[k]) = Len(f[k - 1]) + (2 + Len(digest)) /\ Len(f[k - 1]) \in Nat /\ Len(digest) \in Nat
      BY <1>5, <1>6, <2>1, <2>3, <2>4, RawFacts
    <3>2. \A a, b \in Nat : o + a + 2 + b = o + (a + (2 + b))
      OBVIOUS
    <3> DEFINE a == Len(f[k - 1])
               b == Len(digest)
               c == Len(f[k])
    <3>3. a \in Nat /\ b \in Nat /\ c = a + (2 + b)
      BY <3>1
    <3>4. p = o + a
      OBVIOUS
    <3> HIDE DEF a, b, c, p
    <3>5. p + 2 + b = o + c
      BY <3>2, <3>3, <3>4
    <3> QED  BY <3>5 DEF b, c
  <2> HIDE DEF bank, digest, p, some, g, seqs
  <2>8. DigestAt(raw, Declares, [o |-> p, digests |-> some])
          = [o |-> p + 2 + Len(digest), digests |-> Put(some, bank, digest)]
    <3>1. ReadsOne(raw, p, some, bank, digest)
      BY <2>3, <2>5, DigestRead
    <3> QED  BY <3>1, Zenon DEF ReadsOne
  <2> QED  BY <2>2, <2>6, <2>7, <2>8
<1>8. g[0] = [o |-> o, digests |-> << >>]
  <2>1. 0 \in 0 .. n /\ Len(f[0]) = 0
    BY <1>1, <1>5
  <2>2. g[0] = [o |-> o + Len(f[0]), digests |-> Some(x, 0)]
    BY <2>1
  <2>3. o + Len(f[0]) = o /\ Some(x, 0) = << >>
    BY <2>1 DEF Some
  <2> QED  BY <2>2, <2>3
<1>9. g[n] = [o |-> o + Len(FlattenSeq(seqs)), digests |-> x.event.digests]
  <2>1. n \in 0 .. n /\ n # 0
    BY <1>1
  <2>2. First(x, n) = ToSet(x.in)
    BY <1>1 DEF First, ToSet
  <2>3. x.event.digests = [bank \in ToSet(x.in) |-> x.event.digests[bank]]
    BY DEF EntryOk
  <2>4. Some(x, n) = x.event.digests
    BY <2>1, <2>2, <2>3, Zenon DEF Some
  <2>5. g[n] = [o |-> o + Len(f[n]), digests |-> Some(x, n)]
    BY <2>1
  <2> QED  BY <1>5, <2>4, <2>5
<1> HIDE DEF n
<1>10. Is(g)
  <2>1. \A i \in 0 .. n : g[i] = IF i = 0 THEN [o |-> o, digests |-> << >>] ELSE DigestAt(raw, Declares, g[i - 1])
    <3>1. \A i \in 0 .. n : i # 0 => i \in 1 .. n
      BY <1>1
    <3> HIDE DEF g
    <3> QED  BY <1>7, <1>8, <3>1
  <2>2. g = [i \in 0 .. n |-> g[i]]
    OBVIOUS
  <2> HIDE DEF g
  <2>3. g = [i \in 0 .. n |-> IF i = 0 THEN [o |-> o, digests |-> << >>] ELSE DigestAt(raw, Declares, g[i - 1])]
    BY <2>1, <2>2
  <2> QED  BY <2>3
<1> HIDE DEF g
<1>11. Is(After)
  BY <1>10, Zenon
<1>12. DigestsAt(raw, Declares, o, n) = After[n]
  BY Zenon DEF DigestsAt, After, n
<1> DEFINE P == {i \in 0 .. n : After[i] = g[i]}
<1>13. \A i \in 0 .. n : i \in P
  <2> HIDE DEF After
  <2>1. \A i \in 0 .. n : After[i] = IF i = 0 THEN [o |-> o, digests |-> << >>] ELSE DigestAt(raw, Declares, After[i - 1])
    BY <1>11
  <2>2. 0 \in P
    BY <1>1, <1>8, <2>1
  <2>3. ASSUME NEW i \in 0 .. n, i < n, i \in P  PROVE i + 1 \in P
    <3>1. i + 1 \in 1 .. n /\ i + 1 \in 0 .. n /\ i + 1 # 0 /\ (i + 1) - 1 = i
      BY <1>1, <2>3
    <3>2. After[i + 1] = DigestAt(raw, Declares, After[i])
      BY <2>1, <3>1
    <3>3. DigestAt(raw, Declares, g[i]) = g[i + 1]
      BY <1>7, <3>1
    <3> QED  BY <2>3, <3>1, <3>2, <3>3
  <2> HIDE DEF P
  <2> QED  BY <1>1, <2>2, <2>3, UpTo
<1>14. After[n] = g[n]
  <2> HIDE DEF After
  <2>1. n \in P
    BY <1>1, <1>13
  <2> QED  BY <2>1
<1> QED  BY <1>9, <1>12, <1>14 DEF n, seqs

\* An event is read as it was logged.
ReadsEvent(raw, o, x) ==
  /\ EventAt(raw, Declares, o) = [next |-> o + Len(Encoded(x)), event |-> x.event]
  /\ Word(raw, o + 8) = Len(x.in) /\ o + 12 <= Len(raw)

\* Where an event was written, EventAt reads it and the end of it (eventlog.py:58-77).
LEMMA EventRead ==
  ASSUME banks \in Declared, NEW raw \in Raw, NEW o \in Nat, NEW x, EntryOk(x), At(raw, o, Encoded(x))
  PROVE  ReadsEvent(raw, o, x)
<1> DEFINE d == FlattenSeq(Parts(x))
           e == x.event
           data == e.data
           read == DigestsAt(raw, Declares, o + 12, Word(raw, o + 8))
<1>1. /\ d \in Raw /\ Len(d) \in Nat /\ Encoded(x) \in Raw
      /\ Len(Encoded(x)) = 16 + Len(d) + Len(data) /\ Placing(raw, o, x)
  BY EncodedIs
<1>2. /\ e.pcr \in Nat /\ e.type \in Nat /\ data \in Raw /\ Len(x.in) \in Nat
      /\ e = Event(e.pcr, e.type, e.digests, data)
  BY DEF EntryOk
<1>3. Len(data) \in Nat /\ Len(raw) \in Nat
  BY <1>2, RawFacts
<1>4. /\ At(raw, o, U32(e.pcr)) /\ At(raw, o + 4, U32(e.type)) /\ At(raw, o + 8, U32(Len(x.in)))
      /\ At(raw, o + 12, d) /\ At(raw, o + 12 + Len(d), U32(Len(data))) /\ At(raw, o + 16 + Len(d), data)
  BY <1>1, Zenon DEF Placing
<1> HIDE DEF d, e, data
<1>5. Word(raw, o) = e.pcr
  BY <1>2, <1>4, WordAt
<1>6. Word(raw, o + 4) = e.type
  <2>1. o + 4 \in Nat
    OBVIOUS
  <2> QED  BY <1>2, <1>4, <2>1, WordAt
<1>7. Word(raw, o + 8) = Len(x.in)
  <2>1. o + 8 \in Nat
    OBVIOUS
  <2> QED  BY <1>2, <1>4, <2>1, WordAt
<1>8. Word(raw, o + 12 + Len(d)) = Len(data)
  <2>1. o + 12 + Len(d) \in Nat
    BY <1>1
  <2> QED  BY <1>3, <1>4, <2>1, WordAt
<1>9. read = [o |-> o + 12 + Len(d), digests |-> e.digests]
  <2>1. o + 12 \in Nat /\ At(raw, o + 12, FlattenSeq(Parts(x)))
    BY <1>4 DEF d
  <2>2. DigestsAt(raw, Declares, o + 12, Len(x.in))
          = [o |-> o + 12 + Len(FlattenSeq(Parts(x))), digests |-> x.event.digests]
    BY <2>1, DigestsRead
  <2> QED  BY <1>7, <2>2, Zenon DEF d, e
<1>10. Slice(raw, o + 16 + Len(d), o + 16 + Len(d) + Len(data)) = data
  <2>1. o + 16 + Len(d) \in Nat
    BY <1>1
  <2> QED  BY <1>2, <1>4, <2>1, SliceAt
<1> HIDE DEF read
<1>11. read.o = o + 12 + Len(d) /\ read.digests = e.digests /\ read.o + 4 = o + 16 + Len(d)
  BY <1>1, <1>9
<1>12. EventAt(raw, Declares, o) =
         [next |-> read.o + 4 + Word(raw, read.o),
          event |-> Event(Word(raw, o), Word(raw, o + 4), read.digests,
                          Slice(raw, read.o + 4, read.o + 4 + Word(raw, read.o)))]
  BY Zenon DEF EventAt, read
<1>13. EventAt(raw, Declares, o) =
         [next |-> o + 16 + Len(d) + Len(data), event |-> Event(e.pcr, e.type, e.digests, data)]
  <2>1. Word(raw, read.o) = Len(data)
    BY <1>8, <1>11, Zenon
  <2>2. Slice(raw, read.o + 4, read.o + 4 + Word(raw, read.o)) = data
    BY <1>10, <1>11, <2>1, Zenon
  <2> QED  BY <1>5, <1>6, <1>11, <1>12, <2>1, <2>2, Zenon
<1>14. o + 16 + Len(d) + Len(data) = o + Len(Encoded(x))
  <2> DEFINE l == Len(Encoded(x))
             m == Len(d)
             n == Len(data)
  <2>1. m \in Nat /\ n \in Nat /\ l = 16 + m + n
    BY <1>1, <1>3
  <2> HIDE DEF l, m, n
  <2>2. o + 16 + m + n = o + l
    BY <2>1
  <2> QED  BY <2>2 DEF l, m, n
<1>15. o + 12 <= Len(raw)
  <2>1. o + 12 + Len(d) <= Len(raw)
    BY <1>4 DEF At
  <2> QED  BY <1>1, <1>3, <2>1
<1>16. EventAt(raw, Declares, o) = [next |-> o + Len(Encoded(x)), event |-> x.event]
  BY <1>2, <1>13, <1>14, Zenon DEF e
<1> QED  BY <1>7, <1>15, <1>16 DEF ReadsEvent

-----------------------------------------------------------------------------
(* The log as a whole.                                                     *)

\* The log as bytes.
Enc == [i \in DOMAIN log |-> Encoded(log[i])]

\* The events as sequences, none shorter than three words.
LEMMA EncFacts ==
  ASSUME banks \in Declared, log \in Seq(Entries)
  PROVE  /\ Len(log) \in Nat /\ DOMAIN log = 1 .. Len(log)
         /\ Enc \in Seq(Raw) /\ Len(Enc) = Len(log)
         /\ \A i \in 1 .. Len(log) :
              EntryOk(log[i]) /\ Enc[i] = Encoded(log[i]) /\ Enc[i] \in Raw /\ Len(Enc[i]) \in Nat /\ Len(Enc[i]) >= 12
<1>1. Len(log) \in Nat /\ DOMAIN log = 1 .. Len(log)
  BY LenProperties
<1>2. ASSUME NEW i \in 1 .. Len(log)
      PROVE  EntryOk(log[i]) /\ Enc[i] = Encoded(log[i]) /\ Enc[i] \in Raw /\ Len(Enc[i]) \in Nat /\ Len(Enc[i]) >= 12
  <2> DEFINE x == log[i]
             d == FlattenSeq(Parts(x))
             data == x.event.data
  <2>1. EntryOk(x)
    <3>1. x \in Entries
      BY ElementOfSeq
    <3> QED  BY <3>1, EntryFacts
  <2>2. Enc[i] = Encoded(x)
    BY <1>1 DEF Enc
  <2> HIDE DEF x
  <2>3. Len(d) \in Nat /\ Encoded(x) \in Raw /\ Len(Encoded(x)) = 16 + Len(d) + Len(data)
    BY <2>1, EncodedIs
  <2>4. Len(data) \in Nat
    <3>1. data \in Raw
      BY <2>1 DEF EntryOk
    <3> QED  BY <3>1, RawFacts
  <2> HIDE DEF d, data
  <2>5. Len(Encoded(x)) \in Nat /\ Len(Encoded(x)) >= 12
    BY <2>3, <2>4
  <2> QED  BY <2>1, <2>2, <2>3, <2>5 DEF x
<1>3. Enc \in [1 .. Len(log) -> Raw]
  <2>1. \A i \in 1 .. Len(log) : Enc[i] \in Raw
    BY <1>2
  <2>2. Enc = [i \in 1 .. Len(log) |-> Enc[i]]
    BY <1>1 DEF Enc
  <2> HIDE DEF Enc
  <2> QED  BY <2>1, <2>2
<1>4. Enc \in Seq(Raw) /\ Len(Enc) = Len(log)
  BY <1>1, <1>3, Sequence
<1> QED  BY <1>1, <1>2, <1>4

\* The log is its header and the events.
LEMMA WrittenFacts ==
  ASSUME banks \in Declared, log \in Seq(Entries)
  PROVE  /\ FlattenSeq(Enc) \in Raw /\ Len(FlattenSeq(Enc)) \in Nat
         /\ Written = Join(Header, FlattenSeq(Enc))
         /\ Written \in Raw /\ Len(Written) = Len(Header) + Len(FlattenSeq(Enc)) /\ Len(Written) \in Nat
<1> DEFINE b == FlattenSeq(Enc)
           a == Header
<1>1. Enc \in Seq(Raw)
  BY EncFacts
<1>2. PICK g \in [0 .. Len(Enc) -> Raw] : Joins(g, Enc)
  BY <1>1, FlattenSteps DEF Raw
<1>3. b \in Raw
  BY <1>1, <1>2, FlattenAt DEF Raw
<1>4. a \in Raw /\ Len(a) \in Nat /\ Len(b) \in Nat
  BY <1>3, HeaderIs, RawFacts
<1>5. Written = Join(a, b)
  BY DEF Written, Join, Enc
<1> HIDE DEF a, b
<1>6. Join(a, b) \in Raw /\ Len(Join(a, b)) = Len(a) + Len(b)
  BY <1>3, <1>4, JoinRaw
<1>7. Written \in Raw /\ Len(Written) = Len(a) + Len(b) /\ Len(Written) \in Nat
  BY <1>4, <1>5, <1>6
<1> QED  BY <1>3, <1>4, <1>5, <1>7 DEF a, b

\* The region: what was written, and zeros.
Holds(raw) ==
  /\ raw \in Raw /\ At(raw, 0, Written) /\ Len(Written) <= Len(raw)
  /\ \A p \in 1 .. Len(raw) : p > Len(Written) => raw[p] = 0

\* The events read before the k-th.
EventsUpto(k) == [j \in 1 .. k |-> log[j].event]

\* One more event read makes the next of them.
LEMMA OneMoreEvent ==
  ASSUME log \in Seq(Entries), NEW k \in Nat, k + 1 <= Len(log)
  PROVE  Append(EventsUpto(k), log[k + 1].event) = EventsUpto(k + 1)
<1> DEFINE S == {log[j].event : j \in 1 .. Len(log)}
           s == EventsUpto(k)
           t == EventsUpto(k + 1)
           e == log[k + 1].event
<1>1. Len(log) \in Nat
  BY LenProperties
<1>2. s \in [1 .. k -> S] /\ t \in [1 .. k + 1 -> S] /\ e \in S
  BY <1>1 DEF EventsUpto
<1>3. /\ \A j \in 1 .. k : s[j] = t[j]
      /\ t[k + 1] = e
  BY DEF EventsUpto
<1> HIDE DEF S, s, t, e
<1>4. s \in Seq(S) /\ Len(s) = k /\ t \in Seq(S) /\ Len(t) = k + 1
  <2>1. k + 1 \in Nat
    OBVIOUS
  <2> QED  BY <1>2, <2>1, Sequence
<1> DEFINE u == Append(s, e)
<1>5. u \in Seq(S) /\ Len(u) = k + 1 /\ (\A j \in 1 .. k : u[j] = s[j]) /\ u[k + 1] = e
  BY <1>2, <1>4, AppendProperties
<1> HIDE DEF u
<1>6. \A j \in 1 .. k + 1 : u[j] = t[j]
  <2>1. \A j \in 1 .. k + 1 : j \in 1 .. k \/ j = k + 1
    OBVIOUS
  <2> QED  BY <1>3, <1>5, <2>1
<1>7. u = t
  BY <1>4, <1>5, <1>6, SeqEqual
<1> QED  BY <1>7 DEF s, t, u, e

\* An event's encoding comes to the next event, and zeros to none.
LEMMA NextRead ==
  ASSUME banks \in Declared, log \in Seq(Entries), NEW raw, Holds(raw),
         NEW f \in [0 .. Len(log) -> Raw], Joins(f, Enc), NEW k \in 0 .. Len(log)
  PROVE  LET st == [o |-> Len(Header) + Len(f[k]), events |-> EventsUpto(k)] IN
         /\ k < Len(log) =>
              NextEvent(raw, Declares, st) = [o |-> Len(Header) + Len(f[k + 1]), events |-> EventsUpto(k + 1)]
         /\ k = Len(log) => NextEvent(raw, Declares, st) = st
<1> DEFINE n == Len(log)
           o == Len(Header) + Len(f[k])
           st == [o |-> o, events |-> EventsUpto(k)]
<1>1. /\ n \in Nat /\ Enc \in Seq(Raw) /\ Len(Enc) = n
  BY EncFacts
<1>2. raw \in Raw /\ Len(raw) \in Nat
  BY RawFacts DEF Holds
<1>3. Header \in Raw /\ Len(Header) \in Nat /\ Len(Header) >= 32
  BY HeaderIs, SpecIs
<1>4. f[k] \in Raw /\ Len(f[k]) \in Nat
  <2>1. f[k] \in Raw
    OBVIOUS
  <2> QED  BY <2>1, RawFacts
<1>5. o \in Nat
  BY <1>3, <1>4
<1>6. st.o = o /\ st.events = EventsUpto(k)
  OBVIOUS
<1> HIDE DEF st
<1>7. CASE k < n
  <2> DEFINE x == log[k + 1]
             e == EventAt(raw, Declares, o)
  <2>1. k + 1 \in 1 .. n /\ k + 1 <= n /\ k \in Nat /\ (k + 1) - 1 = k
    BY <1>1, <1>7
  <2>2. EntryOk(x) /\ Enc[k + 1] = Encoded(x)
    BY <2>1, EncFacts
  <2>3. Len(x.in) >= 1 /\ Len(x.in) \in Nat
    BY <2>2 DEF EntryOk
  <2>4. At(raw, o, Encoded(x))
    <3> DEFINE all == FlattenSeq(Enc)
               h == Len(Header)
               a == Header
    <3>1. At(raw, 0, Join(a, all)) /\ all \in Raw /\ a \in Raw /\ 0 \in Nat
      BY <1>3, WrittenFacts DEF Holds
    <3> HIDE DEF all, a
    <3>2. At(raw, 0 + Len(a), all)
      BY <1>2, <3>1, AtJoin
    <3>3. 0 + Len(a) = h /\ h \in Nat
      BY <1>3 DEF a
    <3>4. At(raw, h, FlattenSeq(Enc))
      BY <3>2, <3>3 DEF all
    <3> HIDE DEF h
    <3>5. \A j \in 1 .. Len(Enc) : At(raw, h + Len(f[j - 1]), Enc[j])
      <4>1. f \in [0 .. Len(Enc) -> Raw]
        BY <1>1
      <4> QED  BY <1>1, <1>2, <3>3, <3>4, <4>1, FlatAt
    <3>6. At(raw, h + Len(f[(k + 1) - 1]), Enc[k + 1])
      BY <1>1, <2>1, <3>5
    <3> QED  BY <2>1, <2>2, <3>6 DEF h
  <2>5. ReadsEvent(raw, o, x)
    <3> HIDE DEF o, x
    <3> QED  BY <1>2, <1>5, <2>2, <2>4, EventRead
  <2>6. /\ e = [next |-> o + Len(Encoded(x)), event |-> x.event]
        /\ Word(raw, o + 8) = Len(x.in) /\ o + 12 <= Len(raw)
    BY <2>5, Zenon DEF ReadsEvent
  <2>7. ~(o + 12 > Len(raw) \/ Word(raw, o + 8) = 0)
    <3> HIDE DEF o, x, e
    <3> QED  BY <1>2, <1>5, <2>3, <2>6
  <2>8. NextEvent(raw, Declares, st) = [o |-> e.next, events |-> Append(EventsUpto(k), e.event)]
    BY <1>6, <2>7, Zenon DEF NextEvent, e
  <2>9. e.next = Len(Header) + Len(f[k + 1]) /\ e.event = x.event
    <3>1. Len(f[k + 1]) = Len(f[(k + 1) - 1]) + Len(Enc[k + 1])
      BY <1>1, <2>1 DEF Joins
    <3>2. Len(Encoded(x)) \in Nat
      BY <2>1, <2>2, EncFacts
    <3> DEFINE l == Len(Encoded(x))
               h == Len(Header)
               m == Len(f[k])
    <3>3. Len(f[k + 1]) = m + l /\ l \in Nat /\ h \in Nat /\ m \in Nat
      BY <1>3, <1>4, <2>1, <2>2, <3>1, <3>2
    <3>4. e.next = h + m + l /\ e.event = x.event
      BY <2>6
    <3> HIDE DEF l, h, m, e, x
    <3>5. e.next = h + Len(f[k + 1])
      BY <3>3, <3>4
    <3> QED  BY <3>4, <3>5 DEF h
  <2>10. Append(EventsUpto(k), e.event) = EventsUpto(k + 1)
    <3>1. Append(EventsUpto(k), log[k + 1].event) = EventsUpto(k + 1)
      BY <2>1, OneMoreEvent
    <3> QED  BY <2>9, <3>1, Zenon
  <2>11. NextEvent(raw, Declares, st) = [o |-> Len(Header) + Len(f[k + 1]), events |-> EventsUpto(k + 1)]
    BY <2>8, <2>9, <2>10, Zenon
  <2>12. k # n
    BY <1>1, <1>7
  <2> QED  BY <2>11, <2>12 DEF st, o, n
<1>8. CASE k = n
  <2>1. o = Len(Written)
    <3>1. f[n] = FlattenSeq(Enc)
      BY <1>1 DEF Joins
    <3> QED  BY <1>8, <3>1, WrittenFacts
  <2>2. o + 12 > Len(raw) \/ Word(raw, o + 8) = 0
    <3>1. \A p \in 1 .. Len(raw) : p > o => raw[p] = 0
      BY <2>1 DEF Holds
    <3> SUFFICES ASSUME o + 12 <= Len(raw)  PROVE Word(raw, o + 8) = 0
      BY <1>2, <1>5
    <3> HIDE DEF o
    <3>2. raw[o + 8 + 1] = 0 /\ raw[o + 8 + 2] = 0 /\ raw[o + 8 + 2 + 1] = 0 /\ raw[o + 8 + 2 + 2] = 0
      BY <1>2, <1>5, <3>1
    <3> QED  BY <3>2 DEF Word, Half
  <2>3. NextEvent(raw, Declares, st) = st
    BY <1>6, <2>2, Zenon DEF NextEvent
  <2>4. ~(k < n)
    BY <1>1, <1>8
  <2> QED  BY <2>3, <2>4 DEF st, o, n
<1>9. k < n \/ k = n
  BY <1>1
<1> QED  BY <1>7, <1>8, <1>9

\* No event is shorter than its three words, so there are rounds enough for all.
LEMMA RoundsEnough ==
  ASSUME banks \in Declared, log \in Seq(Entries), NEW raw, Holds(raw),
         NEW f \in [0 .. Len(log) -> Raw], Joins(f, Enc)
  PROVE  Len(raw) \div 12 \in Nat /\ Len(log) <= Len(raw) \div 12
<1> DEFINE n == Len(log)
           P == {k \in 0 .. n : Len(f[k]) >= 12 * k}
<1>1. n \in Nat /\ Len(Enc) = n
  BY EncFacts
<1>2. \A k \in 0 .. n : Len(f[k]) \in Nat
  <2>1. \A k \in 0 .. n : f[k] \in Raw
    OBVIOUS
  <2> QED  BY <2>1, RawFacts
<1>3. /\ f[0] = << >> /\ f[n] = FlattenSeq(Enc)
      /\ \A k \in 1 .. n : Len(f[k]) = Len(f[k - 1]) + Len(Enc[k])
  BY <1>1 DEF Joins
<1>4. \A k \in 1 .. n : Len(Enc[k]) \in Nat /\ Len(Enc[k]) >= 12
  BY EncFacts
<1> HIDE DEF n
<1>5. 0 \in P
  <2>1. 0 \in 0 .. n /\ Len(f[0]) \in Nat
    BY <1>1, <1>2
  <2>2. Len(f[0]) >= 12 * 0
    BY <2>1
  <2> QED  BY <2>1, <2>2
<1>6. ASSUME NEW k \in 0 .. n, k < n, k \in P  PROVE k + 1 \in P
  <2>1. k + 1 \in 1 .. n /\ k + 1 \in 0 .. n /\ (k + 1) - 1 = k /\ k \in Nat
    BY <1>1, <1>6
  <2> DEFINE a == Len(f[k])
             b == Len(f[k + 1])
             c == Len(Enc[k + 1])
  <2>2. a \in Nat /\ c \in Nat /\ c >= 12 /\ b = a + c /\ a >= 12 * k
    BY <1>2, <1>3, <1>4, <1>6, <2>1
  <2> HIDE DEF a, b, c
  <2>3. b >= 12 * (k + 1)
    BY <2>1, <2>2
  <2> QED  BY <2>1, <2>3 DEF b
<1> HIDE DEF P
<1>7. \A k \in 0 .. n : k \in P
  BY <1>1, <1>5, <1>6, UpTo
<1>8. n \in P
  BY <1>1, <1>7
<1>9. Len(f[n]) >= 12 * n
  BY <1>8 DEF P
<1>10. Len(raw) \in Nat /\ Len(raw) >= 12 * n
  <2>1. raw \in Raw /\ Len(Written) <= Len(raw)
    BY DEF Holds
  <2>2. Len(raw) \in Nat
    BY <2>1, RawFacts
  <2>3. /\ Len(Written) = Len(Header) + Len(FlattenSeq(Enc)) /\ Len(Header) \in Nat
        /\ Len(Written) \in Nat /\ Len(FlattenSeq(Enc)) \in Nat
    BY WrittenFacts, HeaderIs
  <2> DEFINE a == Len(FlattenSeq(Enc))
             b == Len(Written)
             c == Len(raw)
             h == Len(Header)
  <2>4. a >= 12 * n /\ b = h + a /\ b <= c /\ a \in Nat /\ b \in Nat /\ c \in Nat /\ h \in Nat
    BY <1>3, <1>9, <2>1, <2>2, <2>3
  <2> HIDE DEF a, b, c, h
  <2>5. c >= 12 * n
    BY <1>1, <2>4
  <2> QED  BY <2>4, <2>5 DEF c
<1> DEFINE c == Len(raw)
<1>11. c \in Nat /\ c >= 12 * n
  BY <1>10
<1> HIDE DEF c
<1>12. c \div 12 \in Nat /\ n <= c \div 12
  BY <1>1, <1>11
<1> QED  BY <1>12 DEF c, n

\* Of such a region, the events are read, all of them and in order (eventlog.py:54-78).
LEMMA EventsRead ==
  ASSUME banks \in Declared, log \in Seq(Entries), NEW raw, Holds(raw)
  PROVE  EventsOf(raw, Declares, Len(Header)) = Events
<1> DEFINE n == Len(log)
           N == Len(raw) \div 12
           base == [o |-> Len(Header), events |-> << >>]
           Is(h) == h = [i \in 0 .. N |-> IF i = 0 THEN base ELSE NextEvent(raw, Declares, h[i - 1])]
           Rounds == CHOOSE h : Is(h)
<1>1. n \in Nat /\ Enc \in Seq(Raw) /\ Len(Enc) = n /\ DOMAIN log = 1 .. n
  BY EncFacts
<1>2. PICK f \in [0 .. n -> Raw] : Joins(f, Enc)
  BY <1>1, FlattenSteps DEF Raw
<1>3. N \in Nat /\ n <= N
  BY <1>2, RoundsEnough
<1> DEFINE st(k) == [o |-> Len(Header) + Len(f[k]), events |-> EventsUpto(k)]
           g == [i \in 0 .. N |-> IF i <= n THEN st(i) ELSE st(n)]
<1>4. ASSUME NEW k \in 0 .. n
      PROVE  /\ k < n => NextEvent(raw, Declares, st(k)) = st(k + 1)
             /\ k = n => NextEvent(raw, Declares, st(k)) = st(k)
  <2>1. LET s == [o |-> Len(Header) + Len(f[k]), events |-> EventsUpto(k)] IN
        /\ k < Len(log) =>
             NextEvent(raw, Declares, s) = [o |-> Len(Header) + Len(f[k + 1]), events |-> EventsUpto(k + 1)]
        /\ k = Len(log) => NextEvent(raw, Declares, s) = s
    BY <1>2, NextRead, Zenon
  <2> QED  BY <2>1
<1>5. st(0) = base
  <2>1. f[0] = << >>
    BY <1>2 DEF Joins
  <2>2. Len(Header) + Len(f[0]) = Len(Header)
    BY <2>1, HeaderIs
  <2>3. EventsUpto(0) = << >>
    <3>1. EventsUpto(0) \in [1 .. 0 -> {}]
      BY DEF EventsUpto
    <3>2. EventsUpto(0) \in Seq({}) /\ Len(EventsUpto(0)) = 0
      BY <3>1, Sequence
    <3> QED  BY <3>2, EmptySeq
  <2> QED  BY <2>2, <2>3
<1> HIDE DEF n, N, base, st
<1>6. g[0] = base
  BY <1>1, <1>3, <1>5
<1>7. ASSUME NEW i \in 1 .. N  PROVE g[i] = NextEvent(raw, Declares, g[i - 1])
  <2>1. i \in 0 .. N /\ i - 1 \in 0 .. N
    BY <1>3
  <2>2. CASE i <= n
    <3>1. i - 1 \in 0 .. n /\ i - 1 < n /\ (i - 1) + 1 = i /\ i - 1 <= n
      BY <1>1, <1>3, <2>2
    <3>2. NextEvent(raw, Declares, st(i - 1)) = st((i - 1) + 1)
      BY <1>4, <3>1
    <3>3. g[i] = st(i) /\ g[i - 1] = st(i - 1)
      BY <2>1, <2>2, <3>1
    <3> QED  BY <3>1, <3>2, <3>3
  <2>3. CASE ~(i <= n)
    <3>1. g[i] = st(n) /\ g[i - 1] = st(n)
      <4>1. g[i] = st(n)
        BY <2>1, <2>3
      <4>2. i - 1 <= n => i - 1 = n
        BY <1>1, <1>3, <2>3
      <4>3. g[i - 1] = IF i - 1 <= n THEN st(i - 1) ELSE st(n)
        BY <2>1
      <4> QED  BY <4>1, <4>2, <4>3
    <3>2. NextEvent(raw, Declares, st(n)) = st(n)
      <4>1. n \in 0 .. n
        BY <1>1
      <4> QED  BY <1>4, <4>1
    <3> QED  BY <3>1, <3>2
  <2> QED  BY <2>2, <2>3
<1>8. Is(g)
  <2>1. \A i \in 0 .. N : g[i] = IF i = 0 THEN base ELSE NextEvent(raw, Declares, g[i - 1])
    <3>1. \A i \in 0 .. N : i # 0 => i \in 1 .. N
      BY <1>3
    <3> HIDE DEF g
    <3> QED  BY <1>6, <1>7, <3>1
  <2>2. g = [i \in 0 .. N |-> g[i]]
    OBVIOUS
  <2> HIDE DEF g
  <2>3. g = [i \in 0 .. N |-> IF i = 0 THEN base ELSE NextEvent(raw, Declares, g[i - 1])]
    BY <2>1, <2>2
  <2> QED  BY <2>3
<1>9. g[N].events = Events
  <2>1. N \in 0 .. N
    BY <1>3
  <2>2. g[N] = IF N <= n THEN st(N) ELSE st(n)
    BY <2>1
  <2>3. g[N] = st(n)
    <3>1. N <= n => N = n
      BY <1>1, <1>3
    <3> QED  BY <2>2, <3>1
  <2>4. st(n).events = EventsUpto(n)
    BY DEF st
  <2>5. EventsUpto(n) = Events
    BY <1>1 DEF EventsUpto, Events
  <2> QED  BY <2>3, <2>4, <2>5
<1> HIDE DEF g
<1>10. Is(Rounds)
  BY <1>8, Zenon
<1>11. EventsOf(raw, Declares, Len(Header)) = Rounds[N].events
  BY Zenon DEF EventsOf, Rounds, N, base
<1> HIDE DEF Rounds
<1>12. \A i \in 0 .. N : Rounds[i] = IF i = 0 THEN base ELSE NextEvent(raw, Declares, Rounds[i - 1])
  BY <1>10
<1> DEFINE P == {i \in 0 .. N : Rounds[i] = g[i]}
<1>13. 0 \in P
  <2>1. 0 \in 0 .. N
    BY <1>3
  <2> QED  BY <1>6, <1>12, <2>1
<1>14. ASSUME NEW i \in 0 .. N, i < N, i \in P  PROVE i + 1 \in P
  <2>1. i + 1 \in 1 .. N /\ i + 1 \in 0 .. N /\ i + 1 # 0 /\ (i + 1) - 1 = i
    BY <1>3, <1>14
  <2>2. Rounds[i + 1] = NextEvent(raw, Declares, Rounds[i])
    BY <1>12, <2>1
  <2>3. g[i + 1] = NextEvent(raw, Declares, g[i])
    BY <1>7, <2>1
  <2> QED  BY <1>14, <2>1, <2>2, <2>3
<1> HIDE DEF P
<1>15. \A i \in 0 .. N : i \in P
  BY <1>3, <1>13, <1>14, UpTo
<1>16. N \in P
  BY <1>3, <1>15
<1>17. Rounds[N] = g[N]
  BY <1>16 DEF P
<1> QED  BY <1>9, <1>11, <1>17

-----------------------------------------------------------------------------
(* What is dumped of it.                                                   *)

\* What is dumped, with the bytes parse adds, is the log and zeros.
LEMMA HeaderWritten ==
  ASSUME banks \in Declared, log \in Seq(Entries), NEW raw \in Raw, At(raw, 0, Written)
  PROVE  At(raw, 0, Header)
<1> DEFINE a == Header
           b == FlattenSeq(Enc)
<1>1. a \in Raw /\ b \in Raw /\ At(raw, 0, Join(a, b)) /\ 0 \in Nat
  BY HeaderIs, WrittenFacts
<1> HIDE DEF a, b
<1>2. At(raw, 0, a)
  BY <1>1, AtJoin
<1> QED  BY <1>2 DEF a

\* The header is not all zeros: it declares a version.
LEMMA VersionWritten ==
  ASSUME banks \in Declared, log \in Seq(Entries)
  PROVE  54 <= Len(Written) /\ Written[54] = 2
<1> DEFINE w == Written
           spec == Spec03
<1>1. w \in Raw /\ Len(w) \in Nat /\ At(w, 0, Written)
  BY WrittenFacts, AtSelf
<1>2. At(w, 32, spec) /\ spec \in Raw /\ Len(spec) \in Nat /\ Len(spec) >= 29
  BY <1>1, HeaderWritten, HeaderIs, SpecIs
<1>3. At(spec, 20, Version) /\ Len(Version) = 4 /\ Version[2] = 2
  BY SpecAt, SmallFacts
<1> HIDE DEF w, spec
<1>4. spec[20 + 2] = 2
  <2>1. \A p \in 1 .. Len(Version) : spec[20 + p] = Version[p]
    BY <1>3 DEF At
  <2>2. 2 \in 1 .. Len(Version)
    BY <1>3
  <2> QED  BY <1>3, <2>1, <2>2
<1>5. 32 + Len(spec) <= Len(w) /\ \A p \in 1 .. Len(spec) : w[32 + p] = spec[p]
  BY <1>2 DEF At
<1>6. 22 \in 1 .. Len(spec) /\ 20 + 2 = 22 /\ 32 + 22 = 54
  BY <1>2
<1>7. w[54] = 2
  <2>1. w[32 + 22] = spec[22]
    BY <1>5, <1>6
  <2> QED  BY <1>4, <1>6, <2>1
<1>8. 54 <= Len(w)
  BY <1>1, <1>2, <1>5
<1> QED  BY <1>7, <1>8 DEF w

\* The sequence is the log, up to zeros past it or at its end.
Reaches(bytes) ==
  /\ bytes \in Raw /\ Len(bytes) \in Nat /\ Len(bytes) >= 54 /\ Len(Written) <= Len(bytes) + Padding
  /\ \A p \in 1 .. Len(bytes) : p <= Len(Written) => bytes[p] = Written[p]
  /\ \A p \in 1 .. Len(bytes) : p > Len(Written) => bytes[p] = 0
  /\ \A p \in 1 .. Len(Written) : p > Len(bytes) => Written[p] = 0

\* Zeros past the log are such an ending.
LEMMA TailReaches ==
  ASSUME banks \in Declared, log \in Seq(Entries), NEW n \in Nat
  PROVE  Reaches(Written \o Zeros(n))
<1> DEFINE w == Written
           z == Zeros(n)
           all == w \o z
<1>1. w \in Raw /\ Len(w) \in Nat /\ Len(w) >= 54
  BY WrittenFacts, VersionWritten
<1>2. z \in Raw /\ Len(z) = n /\ \A p \in 1 .. n : z[p] = 0
  BY ZerosFacts
<1> HIDE DEF w, z
<1>3. /\ all \in Raw /\ Len(all) = Len(w) + Len(z)
      /\ \A p \in 1 .. Len(w) : all[p] = w[p]
      /\ \A p \in 1 .. Len(z) : all[Len(w) + p] = z[p]
  BY <1>1, <1>2, JoinFacts
<1> HIDE DEF all
<1>4. Len(all) \in Nat /\ Len(all) >= 54 /\ Len(w) <= Len(all) + Padding /\ Len(all) = Len(w) + n
  BY <1>1, <1>2, <1>3 DEF Padding
<1>5. ASSUME NEW p \in 1 .. Len(all), p <= Len(w)  PROVE all[p] = w[p]
  BY <1>1, <1>3, <1>5
<1>6. ASSUME NEW p \in 1 .. Len(all), p > Len(w)  PROVE all[p] = 0
  <2>1. p - Len(w) \in 1 .. n /\ Len(w) + (p - Len(w)) = p
    BY <1>1, <1>4, <1>6
  <2>2. all[Len(w) + (p - Len(w))] = z[p - Len(w)]
    BY <1>2, <1>3, <2>1
  <2> QED  BY <1>2, <2>1, <2>2
<1>7. \A p \in 1 .. Len(w) : ~(p > Len(all))
  BY <1>1, <1>4
<1> QED  BY <1>3, <1>4, <1>5, <1>6, <1>7 DEF Reaches, w, z, all

\* So is the log without its own last zeros, when they are no more than parse adds.
LEMMA StrippedReaches ==
  ASSUME banks \in Declared, log \in Seq(Entries), Len(Written) <= Len(Stripped(Written)) + Padding
  PROVE  Reaches(Stripped(Written))
<1> DEFINE w == Written
           n == Len(w)
           I == {i \in 1 .. n : w[i] # 0}
           l == SelectLastInSeq(w, LAMBDA b : b # 0)
           s == SubSeq(w, 1, l)
<1>1. w \in Raw /\ n \in Nat /\ n >= 54 /\ w[54] = 2
  BY WrittenFacts, VersionWritten
<1>2. I \subseteq 0 .. n /\ 54 \in I
  <2> HIDE DEF w
  <2> QED  BY <1>1
<1>3. \E x \in I : \A y \in I : y <= x
  <2> HIDE DEF I, n
  <2>1. I # {}
    BY <1>2
  <2> QED  BY <1>1, <1>2, <2>1, Greatest
<1>4. l \in I /\ \A y \in I : y <= l
  <2> DEFINE m == Max(I)
  <2>1. l = IF I # {} THEN m ELSE 0
    BY Zenon DEF SelectLastInSeq, I, n, l, m
  <2>2. I # {}
    BY <1>2
  <2> HIDE DEF I, l
  <2>3. \A x, y \in I : y <= x <=> x >= y
    BY <1>1, <1>2
  <2>4. \E x \in I : \A y \in I : x >= y
    BY <1>3, <2>3
  <2>5. m \in I /\ \A y \in I : m >= y
    BY <2>4, Zenon DEF Max
  <2> HIDE DEF m
  <2>6. l = m
    BY <2>1, <2>2
  <2> QED  BY <2>3, <2>5, <2>6
<1>5. Stripped(w) = s
  BY DEF Stripped
<1> HIDE DEF l
<1>6. l \in 54 .. n /\ \A p \in 1 .. n : p > l => w[p] = 0
  <2> HIDE DEF w, n
  <2>1. l \in 0 .. n /\ l \in Nat
    BY <1>1, <1>2, <1>4
  <2>2. 54 <= l
    BY <1>2, <1>4
  <2>3. ASSUME NEW p \in 1 .. n, p > l  PROVE w[p] = 0
    BY <1>1, <1>4, <2>1, <2>3
  <2> QED  BY <1>1, <2>1, <2>2, <2>3
<1> HIDE DEF w, I
<1>7. s \in Raw /\ Len(s) = l /\ \A p \in 1 .. l : s[p] = w[p]
  <2>1. 1 \in Int /\ l \in Int /\ \A p \in 1 .. l : w[p] \in Nat
    BY <1>1, <1>6, RawFacts
  <2>2. /\ s \in Seq(Nat) /\ Len(s) = IF 1 <= l THEN l - 1 + 1 ELSE 0
        /\ \A p \in 1 .. l - 1 + 1 : s[p] = w[1 + p - 1]
    BY <2>1, SubSeqProperties
  <2> HIDE DEF s
  <2> QED  BY <1>6, <2>2 DEF Raw
<1>8. n <= l + Padding
  <2>1. n <= Len(Stripped(w)) + Padding
    BY DEF w
  <2> QED  BY <1>5, <1>7, <2>1
<1> HIDE DEF s
<1>9. /\ Len(s) \in Nat /\ Len(s) >= 54
      /\ \A p \in 1 .. Len(s) : p <= n => s[p] = w[p]
      /\ \A p \in 1 .. Len(s) : ~(p > n)
      /\ \A p \in 1 .. n : p > Len(s) => w[p] = 0
  BY <1>1, <1>6, <1>7
<1>10. Reaches(s)
  BY <1>7, <1>8, <1>9 DEF Reaches, w, n
<1> QED  BY <1>5, <1>10 DEF w

\* With the zeros parse adds, whatever is dumped is a region with the log in it (eventlog.py:54-56).
LEMMA ReachesHolds ==
  ASSUME banks \in Declared, log \in Seq(Entries), NEW bytes, Reaches(bytes)
  PROVE  Holds(bytes \o Zeros(Padding))
<1> DEFINE w == Written
           z == Zeros(Padding)
           raw == bytes \o z
<1>1. Padding = 16 /\ Padding \in Nat
  BY DEF Padding
<1>2. z \in Raw /\ Len(z) = 16 /\ \A p \in 1 .. 16 : z[p] = 0
  BY <1>1, ZerosFacts
<1>3. w \in Raw /\ Len(w) \in Nat
  BY WrittenFacts
<1>4. /\ bytes \in Raw /\ Len(bytes) \in Nat /\ Len(w) <= Len(bytes) + 16
      /\ \A p \in 1 .. Len(bytes) : p <= Len(w) => bytes[p] = w[p]
      /\ \A p \in 1 .. Len(bytes) : p > Len(w) => bytes[p] = 0
      /\ \A p \in 1 .. Len(w) : p > Len(bytes) => w[p] = 0
  BY <1>1 DEF Reaches
<1> HIDE DEF w, z
<1>5. /\ raw \in Raw /\ Len(raw) = Len(bytes) + Len(z)
      /\ \A p \in 1 .. Len(bytes) : raw[p] = bytes[p]
      /\ \A p \in 1 .. Len(z) : raw[Len(bytes) + p] = z[p]
  BY <1>2, <1>4, JoinFacts
<1> HIDE DEF raw
<1>6. Len(raw) = Len(bytes) + 16 /\ Len(raw) \in Nat /\ Len(w) <= Len(raw)
  BY <1>2, <1>4, <1>5
<1>7. ASSUME NEW p \in 1 .. Len(raw), p > Len(bytes)  PROVE raw[p] = 0
  <2>1. p - Len(bytes) \in 1 .. 16 /\ Len(bytes) + (p - Len(bytes)) = p
    BY SMTT(30), <1>4, <1>6, <1>7
  <2>2. raw[Len(bytes) + (p - Len(bytes))] = z[p - Len(bytes)]
    BY <1>2, <1>5, <2>1
  <2> QED  BY <1>2, <2>1, <2>2
<1>8. ASSUME NEW p \in 1 .. Len(w)  PROVE raw[p] = w[p]
  <2>1. CASE p <= Len(bytes)
    BY <1>3, <1>4, <1>5, <2>1
  <2>2. CASE p > Len(bytes)
    <3>1. p \in 1 .. Len(raw)
      BY <1>3, <1>6
    <3> QED  BY <1>4, <1>7, <2>2, <3>1
  <2> QED  BY <1>3, <1>4, <2>1, <2>2
<1>9. ASSUME NEW p \in 1 .. Len(raw), p > Len(w)  PROVE raw[p] = 0
  <2>1. CASE p <= Len(bytes)
    <3>1. p \in 1 .. Len(bytes)
      BY <1>4, <1>6, <2>1
    <3> QED  BY <1>4, <1>5, <1>9, <3>1
  <2>2. CASE p > Len(bytes)
    BY <1>7, <2>2
  <2> QED  BY <1>4, <1>6, <2>1, <2>2
<1>10. At(raw, 0, w)
  <2>1. 0 + Len(w) <= Len(raw)
    BY <1>3, <1>6
  <2>2. \A p \in 1 .. Len(w) : raw[0 + p] = w[p]
    <3>1. \A p \in 1 .. Len(w) : 0 + p = p
      BY <1>3
    <3> QED  BY <1>8, <3>1
  <2> QED  BY <2>1, <2>2 DEF At
<1> QED  BY <1>5, <1>6, <1>9, <1>10 DEF Holds, w, raw, z

\* The header is there without the added bytes too.
LEMMA HeaderThere ==
  ASSUME banks \in Declared, log \in Seq(Entries), NEW bytes, Reaches(bytes)
  PROVE  IsLog(bytes)
<1> DEFINE w == Written
           sig == Signature
<1>1. /\ bytes \in Raw /\ Len(bytes) \in Nat /\ Len(bytes) >= 54
      /\ \A p \in 1 .. Len(bytes) : p <= Len(w) => bytes[p] = w[p]
  BY DEF Reaches
<1>2. w \in Raw /\ At(w, 0, Header) /\ Len(w) \in Nat /\ Len(w) >= 54
  BY WrittenFacts, AtSelf, HeaderWritten, VersionWritten
<1>3. Word(w, 4) = EV_NO_ACTION /\ At(w, 32, Spec03)
  BY <1>2, HeaderIs
<1>4. sig \in Raw /\ Len(sig) = 16 /\ \A p \in 1 .. Len(sig) : Spec03[0 + p] = sig[p]
  BY SignatureFacts, SpecAt DEF At
<1> HIDE DEF w, sig
<1>5. ASSUME NEW p \in Nat, p >= 1, p <= 54  PROVE bytes[p] = w[p]
  BY <1>1, <1>2, <1>5
<1>6. Word(bytes, 4) = EV_NO_ACTION
  <2>1. /\ bytes[4 + 1] = w[4 + 1] /\ bytes[4 + 2] = w[4 + 2]
        /\ bytes[4 + 2 + 1] = w[4 + 2 + 1] /\ bytes[4 + 2 + 2] = w[4 + 2 + 2]
    BY <1>5
  <2>2. Half(bytes, 4) = Half(w, 4)
    BY <2>1 DEF Half
  <2>3. Half(bytes, 4 + 2) = Half(w, 4 + 2)
    BY <2>1 DEF Half
  <2>4. Word(bytes, 4) = Word(w, 4)
    BY <2>2, <2>3 DEF Word
  <2> QED  BY <1>3, <2>4
<1>7. Slice(bytes, 32, 48) = sig
  <2>1. 32 + Len(Spec03) <= Len(w) /\ \A p \in 1 .. Len(Spec03) : w[32 + p] = Spec03[p]
    BY <1>3 DEF At
  <2>2. Len(Spec03) \in Nat /\ Len(Spec03) >= 29
    BY SpecIs
  <2>3. ASSUME NEW p \in 1 .. Len(sig)  PROVE bytes[32 + p] = sig[p]
    <3>1. p \in 1 .. Len(Spec03) /\ 32 + p \in Nat /\ 32 + p >= 1 /\ 32 + p <= 54 /\ 0 + p = p
      BY SMTT(30), <1>4, <2>2
    <3>2. bytes[32 + p] = w[32 + p]
      BY <1>5, <3>1
    <3>3. w[32 + p] = Spec03[p]
      BY <2>1, <3>1
    <3>4. Spec03[p] = sig[p]
      BY <1>4, <3>1
    <3> QED  BY <3>2, <3>3, <3>4
  <2>4. At(bytes, 32, sig) /\ 32 \in Nat
    <3>1. 32 + Len(sig) <= Len(bytes)
      BY <1>1, <1>4
    <3> QED  BY <2>3, <3>1 DEF At
  <2>5. Slice(bytes, 32, 32 + Len(sig)) = sig
    BY <1>1, <1>4, <2>4, SliceAt
  <2>6. 32 + Len(sig) = 48
    BY <1>4
  <2> QED  BY <2>5, <2>6
<1>8. Len(bytes) >= 32
  BY <1>1
<1> QED  BY <1>6, <1>7, <1>8 DEF IsLog, sig

\* Whatever of the log is dumped reads as what was logged.
LEMMA DumpReads ==
  ASSUME banks \in Declared, log \in Seq(Entries), NEW bytes, Reaches(bytes)
  PROVE  IsLog(bytes) /\ BanksOf(bytes) = banks /\ Parse(bytes) = Events
<1> DEFINE raw == bytes \o Zeros(Padding)
<1>1. Holds(raw)
  BY ReachesHolds
<1> HIDE DEF raw
<1>2. raw \in Raw /\ At(raw, 0, Header)
  BY <1>1, HeaderWritten DEF Holds
<1>3. Algorithms(raw) = Declares /\ Word(raw, 28) = Len(Spec03)
  BY <1>2, AlgorithmsRead, HeaderIs
<1>4. BanksOf(bytes) = banks
  <2>1. BanksOf(bytes) = [i \in DOMAIN Algorithms(raw) |-> AlgNames[Algorithms(raw)[i].alg]]
    BY Zenon DEF BanksOf, raw
  <2>2. DOMAIN Declares = 1 .. Len(banks) /\ \A i \in 1 .. Len(banks) : Declares[i].alg = AlgId(banks[i])
    BY DEF Declares
  <2>3. \A i \in 1 .. Len(banks) : AlgNames[AlgId(banks[i])] = banks[i]
    BY RecordFacts, AlgIdFacts
  <2>4. BanksOf(bytes) = [i \in 1 .. Len(banks) |-> banks[i]]
    BY <1>3, <2>1, <2>2, <2>3
  <2>5. banks \in [1 .. Len(banks) -> Banks]
    BY BanksFacts, LenProperties
  <2> QED  BY <2>4, <2>5
<1>5. Parse(bytes) = Events
  <2>1. Parse(bytes) = EventsOf(raw, Algorithms(raw), 32 + Word(raw, 28))
    BY Zenon DEF Parse, raw
  <2>2. 32 + Word(raw, 28) = Len(Header)
    BY <1>3, HeaderIs
  <2>3. EventsOf(raw, Declares, Len(Header)) = Events
    BY <1>1, EventsRead
  <2> QED  BY <1>3, <2>1, <2>2, <2>3
<1> QED  BY <1>4, <1>5, HeaderThere

-----------------------------------------------------------------------------
(* The PCRs and the log.                                                    *)

\* The log, replayed event by event, comes to v.
Comes(l, pcr, bank, v) ==
  \E V : /\ V[0] = << >> /\ V[Len(l)] = v
         /\ \A i \in 1 .. Len(l) :
              V[i] = IF Extends(l[i].event, pcr, bank) THEN Append(V[i - 1], l[i].event.digests[bank])
                     ELSE V[i - 1]

\* One more event takes the value one step further.
LEMMA ComesMore ==
  ASSUME NEW S, NEW l \in Seq(S), NEW x \in S, NEW pcr, NEW bank, NEW v, Comes(l, pcr, bank, v)
  PROVE  Comes(Append(l, x), pcr, bank,
               IF Extends(x.event, pcr, bank) THEN Append(v, x.event.digests[bank]) ELSE v)
<1> DEFINE n == Len(l)
           more == Append(l, x)
           u == IF Extends(x.event, pcr, bank) THEN Append(v, x.event.digests[bank]) ELSE v
           Ext(i) == Extends(l[i].event, pcr, bank)
<1>1. PICK V : /\ V[0] = << >> /\ V[n] = v
               /\ \A i \in 1 .. n :
                    V[i] = IF Ext(i) THEN Append(V[i - 1], l[i].event.digests[bank]) ELSE V[i - 1]
  BY DEF Comes
<1>2. n \in Nat /\ Len(more) = n + 1 /\ (\A i \in 1 .. n : more[i] = l[i]) /\ more[n + 1] = x
  BY LenProperties, AppendProperties
<1> DEFINE W == [i \in 0 .. n + 1 |-> IF i = n + 1 THEN u ELSE V[i]]
<1> HIDE DEF n, more, u
<1>3. W[0] = << >> /\ W[n + 1] = u
  <2>1. 0 \in 0 .. n + 1 /\ n + 1 \in 0 .. n + 1 /\ 0 # n + 1
    BY <1>2
  <2> QED  BY <1>1, <2>1
<1>4. ASSUME NEW i \in 1 .. n + 1
      PROVE  W[i] = IF Extends(more[i].event, pcr, bank) THEN Append(W[i - 1], more[i].event.digests[bank])
                    ELSE W[i - 1]
  <2>1. i \in 0 .. n + 1 /\ i - 1 \in 0 .. n + 1 /\ i - 1 # n + 1
    BY <1>2
  <2>2. W[i - 1] = V[i - 1]
    BY <2>1
  <2>3. CASE i = n + 1
    <3>1. W[i] = u /\ more[i] = x /\ W[i - 1] = v
      <4>1. i - 1 = n
        BY <1>2, <2>3
      <4> QED  BY <1>1, <1>2, <1>3, <2>2, <2>3, <4>1
    <3> HIDE DEF W
    <3> QED  BY <3>1, Zenon DEF u
  <2>4. CASE i # n + 1
    <3>1. i \in 1 .. n /\ more[i] = l[i] /\ W[i] = V[i]
      BY <1>2, <2>1, <2>4
    <3>2. V[i] = IF Ext(i) THEN Append(V[i - 1], l[i].event.digests[bank]) ELSE V[i - 1]
      BY <1>1, <3>1
    <3> HIDE DEF W
    <3> QED  BY <2>2, <3>1, <3>2, Zenon
  <2> QED  BY <2>3, <2>4
<1> HIDE DEF W
<1>5. \A i \in 1 .. Len(more) :
        W[i] = IF Extends(more[i].event, pcr, bank) THEN Append(W[i - 1], more[i].event.digests[bank])
               ELSE W[i - 1]
  BY <1>2, <1>4
<1>6. W[Len(more)] = u
  BY <1>2, <1>3
<1>7. Comes(more, pcr, bank, u)
  BY <1>3, <1>5, <1>6, Zenon DEF Comes
<1> QED  BY <1>7 DEF more, u

\* What the log comes to is what replay returns (eventlog.py:81-85).
LEMMA ReplayIs ==
  ASSUME NEW pcr, NEW bank, NEW v, Len(log) \in Nat, DOMAIN log = 1 .. Len(log), Comes(log, pcr, bank, v)
  PROVE  Replay(Events, pcr, bank) = v
<1> DEFINE n == Len(log)
           es == Events
           Ext(i) == Extends(es[i], pcr, bank)
           Is(g) == g = [i \in 0 .. Len(es) |->
                           IF i = 0 THEN << >>
                           ELSE IF Ext(i) THEN Append(g[i - 1], es[i].digests[bank]) ELSE g[i - 1]]
           Value == CHOOSE g : Is(g)
<1>1. n \in Nat /\ DOMAIN es = 1 .. n /\ \A i \in 1 .. n : es[i] = log[i].event
  BY DEF Events
<1>2. Len(es) = n
  <2>1. es \in [1 .. n -> {log[i].event : i \in 1 .. n}]
    BY DEF Events
  <2> HIDE DEF es
  <2> QED  BY <1>1, <2>1, Sequence
<1>3. PICK V : /\ V[0] = << >> /\ V[n] = v
               /\ \A i \in 1 .. n :
                    V[i] = IF Extends(log[i].event, pcr, bank) THEN Append(V[i - 1], log[i].event.digests[bank])
                           ELSE V[i - 1]
  BY DEF Comes
<1> HIDE DEF n, es
<1> DEFINE g == [i \in 0 .. n |-> V[i]]
<1>4. ASSUME NEW i \in 1 .. n
      PROVE  g[i] = IF Ext(i) THEN Append(g[i - 1], es[i].digests[bank]) ELSE g[i - 1]
  <2>1. i \in 0 .. n /\ i - 1 \in 0 .. n
    BY <1>1
  <2>2. g[i] = V[i] /\ g[i - 1] = V[i - 1] /\ es[i] = log[i].event
    BY <1>1, <2>1
  <2>3. V[i] = IF Extends(log[i].event, pcr, bank) THEN Append(V[i - 1], log[i].event.digests[bank])
               ELSE V[i - 1]
    BY <1>3
  <2> HIDE DEF g
  <2> QED  BY <2>2, <2>3, Zenon
<1>5. g[0] = << >> /\ g[n] = v
  BY <1>1, <1>3
<1>6. Is(g)
  <2>1. \A i \in 0 .. n : g[i] = IF i = 0 THEN << >>
                                 ELSE IF Ext(i) THEN Append(g[i - 1], es[i].digests[bank]) ELSE g[i - 1]
    <3>1. \A i \in 0 .. n : i # 0 => i \in 1 .. n
      BY <1>1
    <3> HIDE DEF g
    <3> QED  BY <1>4, <1>5, <3>1
  <2>2. g = [i \in 0 .. n |-> g[i]]
    OBVIOUS
  <2> HIDE DEF g
  <2>3. g = [i \in 0 .. n |-> IF i = 0 THEN << >>
                              ELSE IF Ext(i) THEN Append(g[i - 1], es[i].digests[bank]) ELSE g[i - 1]]
    BY <2>1, <2>2
  <2> QED  BY <1>2, <2>3
<1> HIDE DEF g
<1>7. Is(Value)
  BY <1>6, Zenon
<1>8. Replay(es, pcr, bank) = Value[Len(es)]
  BY Zenon DEF Replay, Value
<1> HIDE DEF Value
<1>9. \A i \in 0 .. n : Value[i] = IF i = 0 THEN << >>
                                   ELSE IF Ext(i) THEN Append(Value[i - 1], es[i].digests[bank]) ELSE Value[i - 1]
  BY <1>2, <1>7
<1> DEFINE P == {i \in 0 .. n : Value[i] = g[i]}
<1>10. 0 \in P
  <2>1. 0 \in 0 .. n
    BY <1>1
  <2> QED  BY <1>5, <1>9, <2>1
<1>11. ASSUME NEW i \in 0 .. n, i < n, i \in P  PROVE i + 1 \in P
  <2>1. i + 1 \in 1 .. n /\ i + 1 \in 0 .. n /\ i + 1 # 0 /\ (i + 1) - 1 = i
    BY <1>1, <1>11
  <2>2. Value[i + 1] = IF Ext(i + 1) THEN Append(Value[i], es[i + 1].digests[bank]) ELSE Value[i]
    BY <1>9, <2>1
  <2>3. g[i + 1] = IF Ext(i + 1) THEN Append(g[i], es[i + 1].digests[bank]) ELSE g[i]
    BY <1>4, <2>1
  <2> QED  BY <1>11, <2>1, <2>2, <2>3
<1> HIDE DEF P
<1>12. \A i \in 0 .. n : i \in P
  BY <1>1, <1>10, <1>11, UpTo
<1>13. n \in P
  BY <1>1, <1>12
<1>14. Value[n] = g[n]
  BY <1>13 DEF P
<1> QED  BY <1>2, <1>5, <1>8, <1>14 DEF es

-----------------------------------------------------------------------------
(* The inductive invariant.                                                 *)

LogInv ==
  /\ banks \in Declared /\ log \in Seq(Entries) /\ DOMAIN tpm = ToSet(banks)
  /\ \A bank \in ToSet(banks), pcr \in Pcrs : Comes(log, pcr, bank, tpm[bank][pcr])
DumpInv ==
  /\ at = "dumping" =>
       /\ wire \in Seq(Stretches)
       /\ \E bytes : Reaches(bytes) /\ FlattenSeq(Ofs(wire)) = Hex(bytes)
  /\ at = "read" => \E bytes : Reaches(bytes) /\ dump = [refused |-> FALSE, bytes |-> bytes]
Inv == LogInv /\ DumpInv

\* It holds before anything is logged.
LEMMA InitInv == Init => Inv
<1> SUFFICES ASSUME Init  PROVE Inv
  OBVIOUS
<1>1. banks \in Declared /\ log = << >> /\ at = "launched"
  BY DEF Init
<1>2. log \in Seq(Entries) /\ Len(log) = 0
  <2>1. << >> \in Seq(Entries) /\ Len(<< >>) = 0
    BY EmptySeq
  <2> QED  BY <1>1, <2>1
<1>3. tpm = [bank \in ToSet(banks) |-> [pcr \in Pcrs |-> << >>]]
  BY DEF Init
<1>4. DOMAIN tpm = ToSet(banks)
  BY <1>3
<1>5. ASSUME NEW bank \in ToSet(banks), NEW pcr \in Pcrs  PROVE Comes(log, pcr, bank, tpm[bank][pcr])
  <2>1. tpm[bank][pcr] = << >>
    BY <1>3
  <2> DEFINE V == [i \in {0} |-> << >>]
  <2>2. V[0] = << >> /\ \A i \in 1 .. Len(log) : FALSE
    BY <1>2
  <2> HIDE DEF V
  <2>3. V[Len(log)] = tpm[bank][pcr]
    BY <1>2, <2>1, <2>2
  <2> QED  BY <2>2, <2>3, Zenon DEF Comes
<1> QED  BY <1>1, <1>2, <1>4, <1>5 DEF Inv, LogInv, DumpInv

\* Only the banks and the log say what was written.
LEMMA SameWritten ==
  ASSUME banks' = banks, log' = log
  PROVE  Written' = Written /\ Entries' = Entries
<1>1. BankRecords' = BankRecords
  BY DEF BankRecords
<1>2. Spec03' = Spec03
  BY <1>1 DEF Spec03, BankRecords
<1>3. Header' = Header
  BY <1>2 DEF Header
<1>4. Enc' = Enc
  BY DEF Enc
<1>5. Written' = Written
  BY <1>3, <1>4 DEF Written, Enc
<1>6. Ins' = Ins
  BY DEF Ins
<1>7. Entries' = Entries
  BY <1>6 DEF Entries
<1> QED  BY <1>5, <1>7

\* So what the dump reaches stays reached while nothing is logged.
LEMMA SameReaches ==
  ASSUME banks' = banks, log' = log, NEW bytes, Reaches(bytes)
  PROVE  Reaches(bytes)'
<1>1. Written' = Written
  BY SameWritten
<1> QED  BY <1>1 DEF Reaches

\* And the half about the log stays true.
LEMMA SameLogInv ==
  ASSUME LogInv, banks' = banks, log' = log, tpm' = tpm
  PROVE  LogInv'
<1>1. Entries' = Entries
  BY SameWritten
<1> QED  BY <1>1 DEF LogInv

\* What may be logged depends on the TPM's banks alone.
LEMMA SameEntries ==
  ASSUME banks' = banks
  PROVE  Entries' = Entries
<1>1. Ins' = Ins
  BY DEF Ins
<1> QED  BY <1>1 DEF Entries

\* An order of digests is a sequence of banks, of one at least.
LEMMA OrdersIns ==
  ASSUME banks \in Declared
  PROVE  Orders \subseteq Ins
<1>1. SUFFICES ASSUME NEW in \in Orders  PROVE in \in Ins
  OBVIOUS
<1>2. Len(banks) \in Nat
  BY BanksFacts
<1>3. PICK n \in 1 .. Len(banks) : in \in [1 .. n -> ToSet(banks)]
  BY DEF Orders
<1>4. n \in Nat /\ n >= 1
  BY <1>2
<1>5. in \in Seq(ToSet(banks)) /\ Len(in) = n
  BY <1>3, <1>4, Sequence
<1>6. in # << >>
  BY <1>4, <1>5, EmptySeq
<1> QED  BY <1>5, <1>6 DEF Ins

\* All the banks are one of them.
LEMMA BanksIns ==
  ASSUME banks \in Declared
  PROVE  banks \in Ins
<1>1. Len(banks) \in Nat /\ Len(banks) >= 1 /\ DOMAIN banks = 1 .. Len(banks)
  <2>1. Len(banks) \in 1 .. 4
    BY BanksFacts
  <2>2. banks \in Seq(Banks)
    BY BanksFacts
  <2>3. Len(banks) \in Nat /\ DOMAIN banks = 1 .. Len(banks)
    BY <2>2, LenProperties
  <2> QED  BY <2>1, <2>3
<1>2. banks \in [1 .. Len(banks) -> ToSet(banks)]
  <2>1. banks \in Seq(Banks)
    BY DeclaredAssumption
  <2>2. banks = [i \in 1 .. Len(banks) |-> banks[i]]
    BY <2>1, LenProperties
  <2>3. \A i \in 1 .. Len(banks) : banks[i] \in ToSet(banks)
    BY <1>1 DEF ToSet
  <2> QED  BY <2>2, <2>3
<1>3. banks \in Seq(ToSet(banks))
  BY <1>1, <1>2, Sequence
<1>4. banks # << >>
  BY <1>1, EmptySeq
<1> QED  BY <1>3, <1>4 DEF Ins

\* An event with those is one the log may hold.
LEMMA EntryIs ==
  ASSUME NEW pcr \in Pcrs, NEW type \in {EV_NO_ACTION, EV_SLAUNCH}, NEW m \in Measured, NEW in \in Ins,
         NEW data \in Raw
  PROVE  Logged(Event(pcr, type, Digests(m, in), data), in) \in Entries
BY DEF Entries

\* What is measured is bytes.
LEMMA DataRaw ==
  ASSUME NEW m \in Measured
  PROVE  m.data \in Raw /\ << >> \in Raw
<1>1. m.data \in Seq(Byte) /\ Byte \subseteq Nat
  BY MeasuredAssumption DEF Byte
<1>2. m.data \in Seq(Nat)
  BY <1>1, SeqMonotonic
<1> QED  BY <1>2, EmptySeq DEF Raw

\* Logging an event, with what replay makes of it, keeps the log's half.
Steps(x, p, bank, v) ==
  IF Extends(x.event, p, bank) THEN Append(v, x.event.digests[bank]) ELSE v

\* The step of an event: one entry more, and every PCR as that entry says.
LEMMA LogGrows ==
  ASSUME LogInv, banks' = banks, NEW x \in Entries, log' = Append(log, x),
         DOMAIN tpm' = ToSet(banks),
         \A bank \in ToSet(banks), p \in Pcrs : tpm'[bank][p] = Steps(x, p, bank, tpm[bank][p])
  PROVE  LogInv'
<1>1. banks \in Declared /\ log \in Seq(Entries)
  BY DEF LogInv
<1>2. Entries' = Entries
  BY SameEntries
<1>3. log' \in Seq(Entries)
  BY <1>1, AppendProperties
<1>4. ASSUME NEW bank \in ToSet(banks), NEW p \in Pcrs  PROVE Comes(log', p, bank, tpm'[bank][p])
  <2> DEFINE v == tpm[bank][p]
             w == tpm'[bank][p]
  <2>1. Comes(log, p, bank, v)
    BY DEF LogInv
  <2>2. w = Steps(x, p, bank, v)
    OBVIOUS
  <2> HIDE DEF v, w
  <2>3. Comes(Append(log, x), p, bank,
              IF Extends(x.event, p, bank) THEN Append(v, x.event.digests[bank]) ELSE v)
    BY <1>1, <2>1, ComesMore
  <2>4. Comes(log', p, bank, w)
    BY <2>2, <2>3, Zenon DEF Steps
  <2> QED  BY <2>4 DEF w
<1>5. LogInv' = (/\ banks' \in Declared /\ log' \in Seq(Entries') /\ DOMAIN tpm' = ToSet(banks')
                 /\ \A bank \in ToSet(banks'), p \in Pcrs : Comes(log', p, bank, tpm'[bank][p]))
  BY DEF LogInv, Comes
<1> QED  BY <1>1, <1>2, <1>3, <1>4, <1>5

\* An extend and its event.
LEMMA MeasureInv ==
  ASSUME Inv, Measure
  PROVE  Inv'
<1>1. LogInv /\ banks \in Declared /\ DOMAIN tpm = ToSet(banks)
  BY DEF Inv, LogInv
<1>2. at = "launched" /\ at' = at /\ banks' = banks
  BY DEF Measure
<1>3. PICK pcr \in Pcrs, m \in Measured, in \in Orders :
        /\ tpm' = [bank \in DOMAIN tpm |->
                     [p \in Pcrs |-> IF p = pcr /\ bank \in ToSet(in) THEN Append(tpm[bank][p], m.digest[bank])
                                                                      ELSE tpm[bank][p]]]
        /\ log' = Append(log, Logged(Event(pcr, EV_SLAUNCH, Digests(m, in), m.data), in))
  BY DEF Measure
<1> DEFINE digests == Digests(m, in)
           x == Logged(Event(pcr, EV_SLAUNCH, digests, m.data), in)
<1>4. x \in Entries
  <2>1. in \in Ins /\ m.data \in Raw
    BY <1>1, OrdersIns, DataRaw
  <2>2. EV_SLAUNCH \in {EV_NO_ACTION, EV_SLAUNCH}
    OBVIOUS
  <2> QED  BY <2>1, <2>2, EntryIs, Zenon
<1>5. x.event.pcr = pcr /\ x.event.type = EV_SLAUNCH /\ x.event.digests = digests
  <2> HIDE DEF digests
  <2> QED  BY DEF Logged, Event
<1>6. DOMAIN digests = ToSet(in) /\ \A bank \in ToSet(in) : digests[bank] = m.digest[bank]
  BY DEF Digests
<1>7. log' = Append(log, x)
  BY <1>3
<1> HIDE DEF x, digests
<1>8. DOMAIN tpm' = ToSet(banks)
  BY <1>1, <1>3
<1>9. ASSUME NEW bank \in ToSet(banks), NEW p \in Pcrs
      PROVE  tpm'[bank][p] = Steps(x, p, bank, tpm[bank][p])
  <2>1. tpm'[bank][p] = IF p = pcr /\ bank \in ToSet(in) THEN Append(tpm[bank][p], m.digest[bank])
                                                         ELSE tpm[bank][p]
    BY <1>1, <1>3
  <2>2. EV_SLAUNCH # EV_NO_ACTION
    BY DEF EV_SLAUNCH, EV_NO_ACTION
  <2>3. Extends(x.event, p, bank) <=> p = pcr /\ bank \in ToSet(in)
    BY <1>5, <1>6, <2>2 DEF Extends
  <2>4. bank \in ToSet(in) => x.event.digests[bank] = m.digest[bank]
    BY <1>5, <1>6
  <2> QED  BY <2>1, <2>3, <2>4, Zenon DEF Steps
<1>10. LogInv'
  BY <1>1, <1>2, <1>4, <1>7, <1>8, <1>9, LogGrows
<1>11. DumpInv'
  BY <1>2 DEF DumpInv
<1> QED  BY <1>10, <1>11 DEF Inv

\* A tag.
LEMMA TagInv ==
  ASSUME Inv, Tag
  PROVE  Inv'
<1>1. LogInv /\ banks \in Declared /\ DOMAIN tpm = ToSet(banks)
  BY DEF Inv, LogInv
<1>2. at = "launched" /\ at' = at /\ banks' = banks /\ tpm' = tpm
  BY DEF Tag
<1>3. PICK pcr \in Pcrs, m \in Measured :
        log' = Append(log, Logged(Event(pcr, EV_NO_ACTION, Digests(m, banks), << >>), banks))
  BY DEF Tag
<1> DEFINE digests == Digests(m, banks)
           data == << >>
           x == Logged(Event(pcr, EV_NO_ACTION, digests, data), banks)
<1>4. x \in Entries
  <2>1. banks \in Ins /\ data \in Raw
    BY <1>1, BanksIns, DataRaw
  <2>2. EV_NO_ACTION \in {EV_NO_ACTION, EV_SLAUNCH}
    OBVIOUS
  <2> HIDE DEF data
  <2> QED  BY <2>1, <2>2, EntryIs, Zenon
<1>5. x.event.type = EV_NO_ACTION
  <2> HIDE DEF digests, data
  <2> QED  BY DEF Logged, Event
<1>6. log' = Append(log, x)
  BY <1>3
<1> HIDE DEF x
<1>7. ASSUME NEW bank \in ToSet(banks), NEW p \in Pcrs
      PROVE  tpm'[bank][p] = Steps(x, p, bank, tpm[bank][p])
  <2>1. ~Extends(x.event, p, bank)
    BY <1>5 DEF Extends
  <2> QED  BY <1>2, <2>1, Zenon DEF Steps
<1>8. LogInv'
  BY <1>1, <1>2, <1>4, <1>6, <1>7, LogGrows
<1>9. DumpInv'
  BY <1>2 DEF DumpInv
<1> QED  BY <1>8, <1>9 DEF Inv

\* The dump: its digits are those of the log, up to its end.
LEMMA DumpStep ==
  ASSUME Inv, Dump
  PROVE  Inv'
<1>1. LogInv /\ banks \in Declared /\ log \in Seq(Entries)
  BY DEF Inv, LogInv
<1>2. at' = "dumping" /\ banks' = banks /\ log' = log /\ tpm' = tpm
  BY DEF Dump
<1>3. PICK bytes \in Dumps : wire' = <<Digits(Hex(bytes)), Newline>>
  BY DEF Dump
<1>4. Reaches(bytes)
  <2>1. bytes \in {Written \o Zeros(n) : n \in Tails} \cup {Stripped(Written)}
        /\ Len(Written) <= Len(bytes) + Padding
    BY Zenon DEF Dumps
  <2>2. CASE bytes \in {Written \o Zeros(n) : n \in Tails}
    <3>1. PICK n \in Tails : bytes = Written \o Zeros(n)
      BY <2>2
    <3>2. n \in Nat
      BY BoundsAssumption
    <3>3. Reaches(Written \o Zeros(n))
      BY <1>1, <3>2, TailReaches
    <3> QED  BY <3>1, <3>3, Zenon
  <2>3. CASE bytes = Stripped(Written)
    <3>1. Reaches(Stripped(Written))
      BY <1>1, <2>1, <2>3, StrippedReaches
    <3> QED  BY <2>3, <3>1, Zenon
  <2> QED  BY <2>1, <2>2, <2>3
<1> DEFINE hex == Hex(bytes)
           out == <<Digits(hex), Newline>>
<1>5. hex \in Raw
  BY <1>4, HexFacts DEF Reaches
<1>6. wire' = out
  BY <1>3
<1> HIDE DEF hex
<1>7. out \in Seq(Stretches) /\ Len(out) = 2
  <2>1. Digits(hex) \in Stretches /\ Newline \in Stretches
    BY <1>5 DEF Stretches
  <2> QED  BY <2>1
<1>8. FlattenSeq(Ofs(out)) = hex
  <2> DEFINE seqs == Ofs(out)
             none == << >>
             g == [k \in 0 .. 2 |-> IF k = 0 THEN none ELSE hex]
  <2>1. seqs \in Seq(Raw) /\ Len(seqs) = 2
    BY <1>7, OfsFacts
  <2>2. seqs[1] = hex /\ seqs[2] = none
    <3>1. 1 \in DOMAIN out /\ 2 \in DOMAIN out /\ out[1] = Digits(hex) /\ out[2] = Newline
      OBVIOUS
    <3>2. seqs[1] = out[1].of /\ seqs[2] = out[2].of
      BY <3>1 DEF Ofs
    <3> QED  BY <3>1, <3>2 DEF Digits, Newline
  <2>3. g[0] = none /\ g[1] = hex /\ g[2] = hex
    OBVIOUS
  <2>4. none \o hex = hex /\ hex \o none = hex
    BY <1>5 DEF Raw
  <2> HIDE DEF seqs, g, none
  <2>5. \A k \in 1 .. Len(seqs) : g[k] = g[k - 1] \o seqs[k]
    <3>1. \A k \in 1 .. Len(seqs) : k = 1 \/ k = 2
      BY <2>1
    <3>2. g[1] = g[1 - 1] \o seqs[1] /\ g[2] = g[2 - 1] \o seqs[2]
      <4>1. 1 - 1 = 0 /\ 2 - 1 = 1
        OBVIOUS
      <4> QED  BY <2>2, <2>3, <2>4, <4>1
    <3> QED  BY <3>1, <3>2
  <2>6. g[0] = << >>
    BY <2>3 DEF none
  <2>7. FlattenSeq(seqs) = g[Len(seqs)]
    <3>1. seqs \in Seq(Seq(Nat))
      BY <2>1 DEF Raw
    <3> QED  BY <2>5, <2>6, <3>1, FlattenIs
  <2>8. FlattenSeq(seqs) = hex
    BY <2>1, <2>3, <2>7
  <2> QED  BY <2>8 DEF seqs
<1> HIDE DEF out
<1>9. Reaches(bytes)'
  BY <1>2, <1>4, SameReaches
<1>10. LogInv'
  BY <1>1, <1>2, SameLogInv
<1>11. wire' \in Seq(Stretches) /\ FlattenSeq(Ofs(wire')) = Hex(bytes)
  BY <1>6, <1>7, <1>8 DEF hex
<1>12. DumpInv'
  <2>1. at' # "read"
    BY <1>2
  <2>2. \E b : Reaches(b)' /\ FlattenSeq(Ofs(wire')) = Hex(b)
    BY <1>9, <1>11
  <2> QED  BY <1>11, <2>1, <2>2 DEF DumpInv
<1> QED  BY <1>10, <1>12 DEF Inv

\* A hypervisor line: the digits stay what they were.
LEMMA XenWritesInv ==
  ASSUME Inv, XenWrites
  PROVE  Inv'
<1>1. LogInv /\ DumpInv
  BY DEF Inv
<1>2. at = "dumping" /\ at' = at /\ banks' = banks /\ log' = log /\ tpm' = tpm
  BY DEF XenWrites
<1>3. wire \in Seq(Stretches) /\ \E b : Reaches(b) /\ FlattenSeq(Ofs(wire)) = Hex(b)
  BY <1>1, <1>2 DEF DumpInv
<1>4. PICK bytes : Reaches(bytes) /\ FlattenSeq(Ofs(wire)) = Hex(bytes)
  BY <1>3
<1>5. PICK i \in Cuts, s \in DOMAIN wire : i <= Len(wire[s].of) /\ wire' = Split(wire, s, i)
  BY Zenon DEF XenWrites, Split
<1>6. s \in 1 .. Len(wire) /\ i \in Nat
  BY <1>3, BoundsAssumption, LenProperties
<1>7. wire' \in Seq(Stretches) /\ FlattenSeq(Ofs(wire')) = Hex(bytes)
  <2> DEFINE new == Split(wire, s, i)
  <2>1. new \in Seq(Stretches) /\ FlattenSeq(Ofs(new)) = FlattenSeq(Ofs(wire))
    BY <1>3, <1>5, <1>6, SplitSpells
  <2>2. wire' = new
    BY <1>5
  <2> HIDE DEF new
  <2> QED  BY <1>4, <2>1, <2>2
<1>8. Reaches(bytes)'
  BY <1>2, <1>4, SameReaches
<1>9. LogInv'
  BY <1>1, <1>2, SameLogInv
<1>10. DumpInv'
  <2>1. at' # "read"
    BY <1>2
  <2>2. \E b : Reaches(b)' /\ FlattenSeq(Ofs(wire')) = Hex(b)
    BY <1>7, <1>8
  <2> QED  BY <1>7, <2>1, <2>2 DEF DumpInv
<1> QED  BY <1>9, <1>10 DEF Inv

\* hex_dump: the digits come back as the bytes dumped.
LEMMA ReadInv ==
  ASSUME Inv, Read
  PROVE  Inv'
<1>1. LogInv /\ DumpInv
  BY DEF Inv
<1>2. at = "dumping" /\ at' = "read" /\ dump' = HexDump(wire) /\ banks' = banks /\ log' = log /\ tpm' = tpm
  BY DEF Read
<1>3. wire \in Seq(Stretches) /\ \E b : Reaches(b) /\ FlattenSeq(Ofs(wire)) = Hex(b)
  BY <1>1, <1>2 DEF DumpInv
<1>4. PICK bytes : Reaches(bytes) /\ FlattenSeq(Ofs(wire)) = Hex(bytes)
  BY <1>3
<1>5. bytes \in Raw
  BY <1>4 DEF Reaches
<1>6. dump' = [refused |-> FALSE, bytes |-> bytes]
  <2>1. HexDump(wire) = [refused |-> FALSE, bytes |-> bytes]
    BY <1>3, <1>4, <1>5, HexReads
  <2> QED  BY <1>2, <2>1, Zenon
<1>7. Reaches(bytes)'
  BY <1>2, <1>4, SameReaches
<1>8. LogInv'
  BY <1>1, <1>2, SameLogInv
<1>9. DumpInv'
  <2>1. at' # "dumping"
    BY <1>2
  <2>2. \E b : Reaches(b)' /\ dump' = [refused |-> FALSE, bytes |-> b]
    BY <1>6, <1>7
  <2> QED  BY <2>1, <2>2 DEF DumpInv
<1> QED  BY <1>8, <1>9 DEF Inv

\* Nothing happens.
LEMMA IdleInv ==
  ASSUME Inv, UNCHANGED vars
  PROVE  Inv'
<1>1. LogInv /\ DumpInv
  BY DEF Inv
<1>2. banks' = banks /\ log' = log /\ tpm' = tpm /\ at' = at /\ wire' = wire /\ dump' = dump
  BY DEF vars
<1>3. \A bytes : Reaches(bytes) => Reaches(bytes)'
  BY <1>2, SameReaches
<1>4. LogInv'
  BY <1>1, <1>2, SameLogInv
<1>5. DumpInv'
  BY <1>1, <1>2, <1>3 DEF DumpInv
<1> QED  BY <1>4, <1>5 DEF Inv

\* Every step keeps the invariant.
LEMMA NextInv == Inv /\ [Next]_vars => Inv'
<1> SUFFICES ASSUME Inv, [Next]_vars  PROVE Inv'
  OBVIOUS
<1>1. CASE Measure
  BY <1>1, MeasureInv
<1>2. CASE Tag
  BY <1>2, TagInv
<1>3. CASE Dump
  BY <1>3, DumpStep
<1>4. CASE XenWrites
  BY <1>4, XenWritesInv
<1>5. CASE Read
  BY <1>5, ReadInv
<1>6. CASE Finished \/ UNCHANGED vars
  BY <1>6, IdleInv DEF Finished
<1> QED  BY <1>1, <1>2, <1>3, <1>4, <1>5, <1>6 DEF Next

\* So it always holds.
LEMMA Invariance == Spec => []Inv
<1> QED  BY InitInv, NextInv, PTL DEF Spec

\* What it says of a dump that was read.
LEMMA InvReads == Inv => ReadsBack
<1> SUFFICES ASSUME Inv, at = "read"
             PROVE  /\ ~dump.refused /\ IsLog(dump.bytes)
                    /\ BanksOf(dump.bytes) = banks /\ Parse(dump.bytes) = Events
  BY DEF ReadsBack
<1>1. banks \in Declared /\ log \in Seq(Entries)
  BY DEF Inv, LogInv
<1>2. PICK bytes : Reaches(bytes) /\ dump = [refused |-> FALSE, bytes |-> bytes]
  BY DEF Inv, DumpInv
<1>3. IsLog(bytes) /\ BanksOf(bytes) = banks /\ Parse(bytes) = Events
  BY <1>1, <1>2, DumpReads
<1>4. dump.refused = FALSE /\ dump.bytes = bytes
  BY <1>2
<1> QED  BY <1>3, <1>4, Zenon

\* And of the PCRs.
LEMMA InvReplays == Inv => ReplayIsPcr
<1> SUFFICES ASSUME Inv, at = "read", NEW bank \in ToSet(banks), NEW pcr \in Pcrs
             PROVE  Replay(Parse(dump.bytes), pcr, bank) = tpm[bank][pcr]
  BY Zenon DEF ReplayIsPcr
<1>1. Parse(dump.bytes) = Events
  BY InvReads, Zenon DEF ReadsBack
<1>2. banks \in Declared /\ log \in Seq(Entries) /\ Comes(log, pcr, bank, tpm[bank][pcr])
  BY DEF Inv, LogInv
<1> DEFINE v == tpm[bank][pcr]
<1>3. Len(log) \in Nat /\ DOMAIN log = 1 .. Len(log)
  BY <1>2, LenProperties
<1> HIDE DEF v
<1>4. Comes(log, pcr, bank, v)
  BY <1>2 DEF v
<1>5. Replay(Events, pcr, bank) = v
  BY <1>3, <1>4, ReplayIs
<1> QED  BY <1>1, <1>5, Zenon DEF v

\* For every set of banks, every digest size and content, every number of events
\* and of Xen's lines, and wherever these land, the dump reads as the log that was
\* written (eventlog.py:54-78, console.py:71-78).
THEOREM LogReads == Spec => []ReadsBack
<1> QED  BY Invariance, InvReads, PTL

\* And what it replays to, in every bank, is what the TPM's PCRs read
\* (eventlog.py:81-85).
THEOREM LogReplays == Spec => []ReplayIsPcr
<1> QED  BY Invariance, InvReplays, PTL
=============================================================================
