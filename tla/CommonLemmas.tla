---------------------------- MODULE CommonLemmas ----------------------------
(***************************************************************************)
(* Lemmas that the proofs of several components rest on.                   *)
(*                                                                         *)
(* Sequences of sequences: FlattenSeq, with which the models append pages  *)
(* and columns to each other, gives the elements of the sequences in their *)
(* order.  FlattenSeq is a recursive function; what holds of all its       *)
(* values is shown by the least one of which it does not.                  *)
(*                                                                         *)
(* Pages: how many bytes a bitmap needs, and how many of the rows before   *)
(* one have a value.                                                       *)
(***************************************************************************)
EXTENDS Integers, FiniteSets, SequencesExt, SequenceTheorems, FiniteSetTheorems,
        WellFoundedInduction, TLAPS

-----------------------------------------------------------------------------
(* Sequences of sequences. *)


\* A set of numbers has a least one.
LEMMA Least ==
    ASSUME NEW T \in SUBSET Nat, T # {}
    PROVE  \E x \in T : \A y \in T : x <= y
<1> DEFINE R == OpToRel(<, Nat)
<1>1. IsWellFoundedOn(R, Nat)
  BY NatLessThanWellFounded
<1>2. \A x, y \in Nat : y < x => <<y, x>> \in R
  BY DEF OpToRel
<1> HIDE DEF R
<1>3. PICK x \in T : \A y \in T : ~ (<<y, x>> \in R)
  BY <1>1, WFMin
<1>4. \A y \in T : ~ (y < x)
  BY <1>2, <1>3
<1>5. x \in Nat /\ \A y \in T : y \in Nat
  OBVIOUS
<1>6. \A y \in T : x <= y
  BY <1>4, <1>5
<1> QED
  BY <1>6

\* What holds at the beginning, and after each part if it does before it.
LEMMA Ascend ==
    ASSUME NEW n \in Nat, NEW T, 0 \in T, \A k \in 1 .. n : k - 1 \in T => k \in T
    PROVE  \A k \in 0 .. n : k \in T
<1> DEFINE Bad == {k \in 0 .. n : k \notin T}
<1>1. SUFFICES ASSUME Bad # {} PROVE FALSE
  OBVIOUS
<1>2. PICK k \in Bad : \A j \in Bad : k <= j
  <2>1. Bad \in SUBSET Nat /\ Bad # {}
    BY <1>1
  <2> HIDE DEF Bad
  <2> QED
    BY <2>1, Least
<1>3. k \in 1 .. n /\ k - 1 \in 0 .. n /\ k - 1 \notin Bad
  BY <1>2
<1> QED
  BY <1>2, <1>3

\* The first first[p + 1] elements of all are the first p sequences, one after another.
UpTo(all, first, n) == [p \in 1 .. n |-> [k \in 1 .. first[p + 1] |-> all[k]]]

\* Sequence number p of n follows after element number first[p] of all.
Follow(S, seqs, n, first, all) ==
    /\ n \in Nat \ {0}
    /\ first \in [1 .. n + 1 -> Nat] /\ first[1] = 0 /\ first[n + 1] = Len(all)
    /\ \A p \in 1 .. n :
           /\ seqs[p] \in Seq(S) /\ first[p + 1] = first[p] + Len(seqs[p])
           /\ first[p + 1] <= Len(all)
           /\ \A k \in 1 .. Len(seqs[p]) : seqs[p][k] = all[first[p] + k]

\* Sequences that follow each other in all are all of it when they are flattened.
LEMMA FlattenedIsAll ==
    ASSUME NEW S, NEW all \in Seq(S), NEW seqs, NEW n, NEW first, Follow(S, seqs, n, first, all),
           Len(seqs) = n
    PROVE  FlattenSeq(seqs) = all
<1> DEFINE Def(f) == [i \in 1 .. Len(seqs) |-> IF i = 1 THEN seqs[i] ELSE f[i - 1] \o seqs[i]]
           w == UpTo(all, first, n)
           flatten == CHOOSE f : f = Def(f)
<1>0. /\ n \in Nat \ {0} /\ Len(seqs) = n
      /\ first \in [1 .. n + 1 -> Nat] /\ first[1] = 0 /\ first[n + 1] = Len(all)
      /\ \A p \in 1 .. n :
             /\ seqs[p] \in Seq(S) /\ first[p + 1] = first[p] + Len(seqs[p])
             /\ first[p + 1] <= Len(all)
             /\ \A k \in 1 .. Len(seqs[p]) : seqs[p][k] = all[first[p] + k]
  BY DEF Follow
<1>1. FlattenSeq(seqs) = flatten[n]
  BY <1>0 DEF FlattenSeq
<1>2. ASSUME NEW p \in 1 .. n
      PROVE  /\ w[p] = [k \in 1 .. first[p + 1] |-> all[k]]
             /\ w[p] \in Seq(S) /\ Len(w[p]) = first[p + 1]
             /\ \A k \in 1 .. first[p + 1] : w[p][k] = all[k]
  <2> DEFINE m == first[p + 1]
             v == [k \in 1 .. m |-> all[k]]
  <2>1. m \in Nat /\ m <= Len(all)
    <3>1. n \in Nat /\ p \in 1 .. n
      BY <1>0
    <3>2. p + 1 \in 1 .. (n + 1)
      BY <3>1
    <3> QED
      BY <3>2, <1>0
  <2>2. w[p] = v
    BY DEF UpTo
  <2> HIDE DEF m
  <2>3. \A k \in 1 .. m : k \in 1 .. Len(all)
    BY <2>1
  <2>4. \A k \in 1 .. m : all[k] \in S
    BY <2>3, ElementOfSeq
  <2>5. v \in [1 .. m -> S]
    BY <2>4
  <2>6. v \in Seq(S) /\ Len(v) = m
    BY <2>1, <2>5, SeqDef
  <2> QED
    BY <2>2, <2>6 DEF m
<1>3. ASSUME NEW i \in 1 .. n
      PROVE  w[i] = IF i = 1 THEN seqs[i] ELSE w[i - 1] \o seqs[i]
  <2> DEFINE s == seqs[i]
             m == first[i]
             v == w[i]
  <2>1. s \in Seq(S) /\ Len(s) \in Nat /\ first[i + 1] = m + Len(s) /\ m \in Nat
        /\ \A k \in 1 .. Len(s) : s[k] = all[m + k]
    <3>1. n \in Nat /\ i \in 1 .. n
      BY <1>0
    <3>2. i \in 1 .. (n + 1)
      BY <3>1
    <3>3. s \in Seq(S) /\ first[i + 1] = m + Len(s) /\ m \in Nat
          /\ \A k \in 1 .. Len(s) : s[k] = all[m + k]
      BY <3>2, <1>0
    <3>4. Len(s) \in Nat
      BY <3>3, LenProperties
    <3> QED
      BY <3>3, <3>4
  <2>2. v \in Seq(S) /\ Len(v) = m + Len(s) /\ \A k \in 1 .. (m + Len(s)) : v[k] = all[k]
    BY <1>2, <2>1
  <2>3. CASE i = 1
    <3>1. m = 0
      BY <2>3, <1>0
    <3> HIDE DEF s, m, v, w
    <3>2. Len(v) = Len(s) /\ \A k \in 1 .. Len(v) : v[k] = s[k]
      BY <3>1, <2>1, <2>2
    <3>3. v = s
      BY <3>2, <2>1, <2>2, SeqEqual
    <3> QED
      BY <2>3, <3>3 DEF v, s
  <2>4. CASE i # 1
    <3> DEFINE u == w[i - 1]
    <3>1. i - 1 \in 1 .. n /\ i - 1 + 1 = i
      <4>1. n \in Nat /\ i \in 1 .. n
        BY <1>0
      <4> QED
        BY <4>1, <2>4
    <3>2. u \in Seq(S) /\ Len(u) = m /\ \A k \in 1 .. m : u[k] = all[k]
      BY <3>1, <1>2
    <3> HIDE DEF u, s, m, v, w
    <3>3. u \o s \in Seq(S) /\ Len(u \o s) = Len(u) + Len(s)
          /\ \A k \in 1 .. Len(u) + Len(s) : (u \o s)[k] = IF k <= Len(u) THEN u[k] ELSE s[k - Len(u)]
      <4>1. u \in Seq(S) /\ s \in Seq(S)
        BY <2>1, <3>2
      <4> QED
        BY ONLY <4>1, ConcatProperties, Zenon
    <3>4. ASSUME NEW k \in 1 .. (m + Len(s)) PROVE (u \o s)[k] = all[k]
      <4>1. CASE k <= m
        <5>1. Len(s) \in Nat /\ m \in Nat /\ Len(u) = m
          BY <2>1, <3>2
        <5>2. k \in 1 .. m
          BY <4>1, <5>1
        <5> QED
          BY <5>1, <5>2, <4>1, <3>2, <3>3
      <4>2. CASE ~ (k <= m)
        <5>1. k - m \in 1 .. Len(s) /\ m + (k - m) = k
          <6>1. m \in Nat /\ Len(s) \in Nat
            BY <2>1
          <6> QED
            BY <6>1, <4>2
        <5>2. s[k - m] = all[k]
          BY <5>1, <2>1
        <5> QED
          BY <4>2, <5>2, <3>2, <3>3
      <4> QED
        BY <4>1, <4>2
    <3>5. Len(v) = Len(u \o s) /\ \A k \in 1 .. Len(v) : v[k] = (u \o s)[k]
      BY <3>2, <3>3, <3>4, <2>2
    <3>6. v = u \o s
      BY <3>3, <3>5, <2>2, SeqEqual
    <3> QED
      BY <2>4, <3>6 DEF v, s, u
  <2> QED
    BY <2>3, <2>4
<1>4. w = Def(w)
  <2>1. w = [i \in 1 .. n |-> w[i]]
    BY DEF UpTo
  <2> HIDE DEF w
  <2> QED
    BY <2>1, <1>0, <1>3
<1>5. flatten = Def(flatten)
  <2> HIDE DEF w, Def
  <2>1. \E f : f = Def(f)
    BY <1>4
  <2> QED
    BY <2>1
<1> HIDE DEF flatten
<1>6. \A i \in 1 .. n : flatten[i] = IF i = 1 THEN seqs[i] ELSE flatten[i - 1] \o seqs[i]
  BY <1>0, <1>5
<1> HIDE DEF w
<1>7. \A i \in 1 .. n : flatten[i] = w[i]
  <2> DEFINE Bad == {i \in 1 .. n : flatten[i] # w[i]}
  <2>1. SUFFICES ASSUME Bad # {} PROVE FALSE
    OBVIOUS
  <2>2. Bad \in SUBSET Nat
    OBVIOUS
  <2> HIDE DEF Bad
  <2>3. PICK i \in Bad : \A j \in Bad : i <= j
    BY <2>1, <2>2, Least
  <2>4. i \in 1 .. n /\ flatten[i] # w[i] /\ \A j \in 1 .. n : j < i => flatten[j] = w[j]
    BY <2>2, <2>3 DEF Bad
  <2>5. i # 1 => flatten[i - 1] = w[i - 1]
    <3>1. i # 1 => i - 1 \in 1 .. n /\ i - 1 < i
      <4>1. n \in Nat /\ i \in 1 .. n
        BY <1>0, <2>4
      <4> QED
        BY <4>1
    <3> QED
      BY <2>4, <3>1
  <2>6. w[i] = IF i = 1 THEN seqs[i] ELSE w[i - 1] \o seqs[i]
    BY <2>4, <1>3
  <2>7. flatten[i] = IF i = 1 THEN seqs[i] ELSE flatten[i - 1] \o seqs[i]
    BY <2>4, <1>6
  <2> QED
    BY <2>4, <2>5, <2>6, <2>7
<1>8. n \in 1 .. n
  BY <1>0
<1>9. w[n] = all
  <2>1. w[n] = [k \in 1 .. Len(all) |-> all[k]]
    BY <1>0, <1>2, <1>8
  <2>2. Len(all) \in Nat /\ all \in [1 .. Len(all) -> S]
    BY LenProperties
  <2> QED
    BY <2>1, <2>2
<1> QED
  BY <1>1, <1>7, <1>8, <1>9

-----------------------------------------------------------------------------
(* Any sequences follow each other in some sequence. *)

\* What stands in all is from one of the sequences.
Covers(seqs, n, first, all) ==
    \A j \in 1 .. Len(all) : \E p \in 1 .. n : \E k \in 1 .. Len(seqs[p]) : j = first[p] + k

\* One sequence follows nothing,
LEMMA FollowOne ==
    ASSUME NEW S, NEW seqs, seqs[1] \in Seq(S)
    PROVE  \E first, all : all \in Seq(S) /\ Follow(S, seqs, 1, first, all) /\ Covers(seqs, 1, first, all)
<1> DEFINE s == seqs[1]
           first == [p \in 1 .. 2 |-> IF p = 1 THEN 0 ELSE Len(s)]
<1>1. s \in Seq(S) /\ Len(s) \in Nat
  BY LenProperties
<1>2. first \in [1 .. 1 + 1 -> Nat] /\ first[1] = 0 /\ first[1 + 1] = Len(s)
  BY <1>1
<1> HIDE DEF first
<1>3. Follow(S, seqs, 1, first, s)
  BY <1>1, <1>2 DEF Follow
<1>4. Covers(seqs, 1, first, s)
  <2> SUFFICES ASSUME NEW j \in 1 .. Len(s) PROVE \E p \in 1 .. 1 : \E k \in 1 .. Len(seqs[p]) : j = first[p] + k
    BY DEF Covers
  <2>1. j = first[1] + j /\ 1 \in 1 .. 1
    BY <1>1, <1>2
  <2> QED
    BY <2>1
<1> QED
  BY <1>1, <1>3, <1>4

\* one more follows what has been joined,
LEMMA FollowNext ==
    ASSUME NEW S, NEW seqs, NEW n \in Nat \ {0}, NEW first, NEW all \in Seq(S),
           Follow(S, seqs, n, first, all), Covers(seqs, n, first, all), seqs[n + 1] \in Seq(S)
    PROVE  \E begin, longer : /\ longer \in Seq(S) /\ Follow(S, seqs, n + 1, begin, longer)
                              /\ Covers(seqs, n + 1, begin, longer)
<1> DEFINE s == seqs[n + 1]
           m == Len(all)
           l == Len(s)
           longer == all \o s
           begin == [p \in 1 .. n + 2 |-> IF p = n + 2 THEN m + l ELSE first[p]]
<1>1. s \in Seq(S) /\ l \in Nat /\ m \in Nat
  BY LenProperties
<1>2. /\ longer \in Seq(S) /\ Len(longer) = m + l
      /\ \A k \in 1 .. (m + l) : longer[k] = IF k <= m THEN all[k] ELSE s[k - m]
  <2>1. all \in Seq(S) /\ s \in Seq(S)
    BY <1>1
  <2> QED
    BY ONLY <2>1, ConcatProperties, Zenon
<1>3. /\ first \in [1 .. n + 1 -> Nat] /\ first[1] = 0 /\ first[n + 1] = m
      /\ \A p \in 1 .. n :
            /\ seqs[p] \in Seq(S) /\ first[p + 1] = first[p] + Len(seqs[p])
            /\ first[p + 1] <= m
            /\ \A k \in 1 .. Len(seqs[p]) : seqs[p][k] = all[first[p] + k]
  BY DEF Follow
<1> HIDE DEF s, longer, m, l
<1>4. begin \in [1 .. n + 1 + 1 -> Nat]
  <2>1. ASSUME NEW p \in 1 .. n + 2
        PROVE  (IF p = n + 2 THEN m + l ELSE first[p]) \in Nat
    BY <1>1, <1>3
  <2>2. n + 1 + 1 = n + 2
    OBVIOUS
  <2> QED
    BY <2>1, <2>2
<1>5. begin[n + 1 + 1] = m + l /\ \A p \in 1 .. n + 1 : begin[p] = first[p]
  <2>1. n + 1 + 1 = n + 2 /\ n + 2 \in 1 .. n + 2 /\ \A p \in 1 .. n + 1 : p \in 1 .. n + 2 /\ p # n + 2
    OBVIOUS
  <2> QED
    BY <2>1
<1> HIDE DEF begin
<1>6. ASSUME NEW p \in 1 .. n + 1
      PROVE  /\ seqs[p] \in Seq(S) /\ begin[p + 1] = begin[p] + Len(seqs[p])
             /\ begin[p + 1] <= m + l
             /\ \A k \in 1 .. Len(seqs[p]) : seqs[p][k] = longer[begin[p] + k]
  <2>1. CASE p = n + 1
    <3>1. seqs[p] = s /\ Len(seqs[p]) = l /\ begin[p] = m /\ begin[p + 1] = m + l
      BY <2>1, <1>3, <1>5 DEF s, l
    <3>2. ASSUME NEW k \in 1 .. l PROVE s[k] = longer[m + k]
      <4>1. m + k \in 1 .. (m + l) /\ ~ (m + k <= m) /\ (m + k) - m = k
        BY <1>1
      <4> QED
        BY <4>1, <1>2
    <3> QED
      BY <1>1, <3>1, <3>2
  <2>2. CASE p # n + 1
    <3>1. p \in 1 .. n /\ p + 1 \in 1 .. n + 1
      BY <2>2
    <3>2. begin[p] = first[p] /\ begin[p + 1] = first[p + 1] /\ first[p] \in Nat
      BY <3>1, <1>3, <1>5
    <3>3. seqs[p] \in Seq(S) /\ Len(seqs[p]) \in Nat
      BY <3>1, <1>3, LenProperties
    <3>4. /\ first[p + 1] = first[p] + Len(seqs[p]) /\ first[p + 1] <= m
          /\ \A k \in 1 .. Len(seqs[p]) : seqs[p][k] = all[first[p] + k]
      BY <3>1, <1>3
    <3>5. ASSUME NEW k \in 1 .. Len(seqs[p]) PROVE seqs[p][k] = longer[begin[p] + k]
      <4>1. first[p] + k \in 1 .. (m + l) /\ first[p] + k <= m
        BY <3>2, <3>3, <3>4, <1>1
      <4>2. longer[first[p] + k] = all[first[p] + k]
        BY <4>1, <1>2
      <4> QED
        BY <3>2, <3>4, <4>2
    <3> QED
      BY <1>1, <3>2, <3>3, <3>4, <3>5
  <2> QED
    BY <2>1, <2>2
<1>7. Follow(S, seqs, n + 1, begin, longer)
  <2>1. n + 1 \in Nat \ {0} /\ begin[1] = 0
    BY <1>3, <1>5
  <2> QED
    BY <2>1, <1>2, <1>4, <1>5, <1>6 DEF Follow
<1>8. Covers(seqs, n + 1, begin, longer)
  <2> SUFFICES ASSUME NEW j \in 1 .. (m + l)
               PROVE  \E p \in 1 .. n + 1 : \E k \in 1 .. Len(seqs[p]) : j = begin[p] + k
    BY <1>2 DEF Covers
  <2>1. CASE j <= m
    <3>1. j \in 1 .. m
      BY <2>1, <1>1
    <3>2. PICK p \in 1 .. n : \E k \in 1 .. Len(seqs[p]) : j = first[p] + k
      BY <3>1 DEF Covers, m
    <3>3. p \in 1 .. n + 1
      OBVIOUS
    <3>4. begin[p] = first[p]
      BY <3>3, <1>5
    <3>5. \E k \in 1 .. Len(seqs[p]) : j = begin[p] + k
      BY <3>2, <3>4
    <3> QED
      BY <3>3, <3>5
  <2>2. CASE ~ (j <= m)
    <3>1. j - m \in 1 .. l /\ j = m + (j - m)
      BY <2>2, <1>1
    <3>2. begin[n + 1] = m /\ n + 1 \in 1 .. n + 1
      BY <1>3, <1>5
    <3>3. j - m \in 1 .. Len(seqs[n + 1]) /\ j = begin[n + 1] + (j - m)
      BY <3>1, <3>2 DEF l, s
    <3> QED
      BY <3>2, <3>3
  <2> QED
    BY <2>1, <2>2
<1> QED
  BY <1>2, <1>7, <1>8

\* so any number of them can be.
LEMMA FollowExists ==
    ASSUME NEW S, NEW n \in Nat \ {0}, NEW seqs, \A p \in 1 .. n : seqs[p] \in Seq(S)
    PROVE  \E first, all : all \in Seq(S) /\ Follow(S, seqs, n, first, all) /\ Covers(seqs, n, first, all)
<1> DEFINE Joined(m) == \E first, all : /\ all \in Seq(S) /\ Follow(S, seqs, m, first, all)
                                        /\ Covers(seqs, m, first, all)
           Bad == {m \in 1 .. n : ~ Joined(m)}
<1>1. SUFFICES ASSUME Bad # {} PROVE FALSE
  <2>1. n \in 1 .. n
    OBVIOUS
  <2> HIDE DEF Joined
  <2>2. Bad = {} => Joined(n)
    BY <2>1
  <2> QED
    BY <2>2 DEF Joined
<1>2. Bad \in SUBSET Nat
  OBVIOUS
<1> HIDE DEF Bad
<1>3. PICK m \in Bad : \A i \in Bad : m <= i
  BY <1>1, <1>2, Least
<1> HIDE DEF Joined
<1>4. m \in 1 .. n /\ ~ Joined(m) /\ \A i \in 1 .. n : i < m => Joined(i)
  <2>1. m \in 1 .. n /\ ~ Joined(m)
    BY DEF Bad
  <2>2. ASSUME NEW i \in 1 .. n, i < m, ~ Joined(i) PROVE FALSE
    <3>1. i \in Bad
      BY <2>2 DEF Bad
    <3>2. m <= i
      BY <3>1, <1>3
    <3> QED
      BY <3>2, <2>1, <2>2
  <2> QED
    BY <2>1, <2>2
<1>5. CASE m = 1
  <2>1. seqs[1] \in Seq(S)
    OBVIOUS
  <2>2. Joined(1)
    BY <2>1, FollowOne DEF Joined
  <2> QED
    BY <2>2, <1>4, <1>5
<1>6. CASE m # 1
  <2> DEFINE i == m - 1
  <2>1. i \in Nat \ {0} /\ i \in 1 .. n /\ i < m /\ i + 1 = m
    BY <1>4, <1>6
  <2> HIDE DEF i
  <2>2. Joined(i) /\ seqs[i + 1] \in Seq(S)
    BY <1>4, <2>1
  <2>3. Joined(i + 1)
    <3>1. PICK first, all : all \in Seq(S) /\ Follow(S, seqs, i, first, all) /\ Covers(seqs, i, first, all)
      BY <2>2 DEF Joined
    <3> QED
      BY <2>1, <2>2, <3>1, FollowNext DEF Joined
  <2> QED
    BY <2>1, <2>3, <1>4
<1> QED
  BY <1>5, <1>6

-----------------------------------------------------------------------------
(* Quotients. *)

\* Quotient and remainder.
LEMMA DivMod ==
    ASSUME NEW a \in Nat, NEW d \in Nat \ {0}
    PROVE  /\ a \div d \in Nat
           /\ a % d \in 0 .. (d - 1)
           /\ a = (a \div d) * d + (a % d)
OBVIOUS

\* A product grows with a factor,
LEMMA ProductsAscend ==
    ASSUME NEW a \in Nat, NEW b \in Nat, NEW c \in Nat, a <= b
    PROVE  a * c <= b * c
OBVIOUS

\* by the other factor when that grows by one.
LEMMA OneMore ==
    ASSUME NEW a \in Nat, NEW c \in Nat
    PROVE  (a + 1) * c = a * c + c /\ a * c \in Nat
OBVIOUS

\* A quotient is at least q when the number is at least q * d, and only then.
LEMMA Quotient ==
    ASSUME NEW a \in Nat, NEW d \in Nat \ {0}, NEW q \in Nat
    PROVE  q <= a \div d <=> q * d <= a
<1> DEFINE w == a \div d
           r == a % d
<1>1. w \in Nat /\ r \in 0 .. (d - 1) /\ a = w * d + r
  BY DivMod
<1> HIDE DEF w, r
<1>2. w * d \in Nat /\ q * d \in Nat /\ (w + 1) * d = w * d + d
  BY <1>1
<1>3. ASSUME q <= w PROVE q * d <= a
  <2>1. q * d <= w * d
    BY <1>1, <1>3, ProductsAscend
  <2> QED
    BY <2>1, <1>1, <1>2
<1>4. ASSUME w < q PROVE a < q * d
  <2>1. (w + 1) * d <= q * d
    BY <1>1, <1>4, ProductsAscend
  <2> QED
    BY <2>1, <1>1, <1>2
<1> QED
  BY <1>1, <1>2, <1>3, <1>4 DEF w

\* The quotient, rounded up: the bytes that n bits need, d to a byte.
Ceiling(n, d) == (n + d - 1) \div d

\* d places each take n in Ceiling(n, d) parts, which are no more than needed.
LEMMA CeilingIs ==
    ASSUME NEW n \in Nat, NEW d \in Nat \ {0}
    PROVE  /\ Ceiling(n, d) \in Nat
           /\ n <= Ceiling(n, d) * d
           /\ \A i \in 0 .. (n - 1) : i \div d + 1 \in 1 .. Ceiling(n, d)
           /\ \A q \in Nat : q < Ceiling(n, d) => q * d < n
<1> DEFINE m == Ceiling(n, d)
<1>1. d \in Nat \ {0}
  OBVIOUS
<1>2. m = (n + d - 1) \div d /\ n + d - 1 \in Nat
  BY <1>1 DEF Ceiling
<1>3. m \in Nat
  BY <1>1, <1>2, DivMod
<1>4. \A q \in Nat : q <= m <=> q * d <= n + d - 1
  BY <1>1, <1>2, Quotient
<1> HIDE DEF m
<1>5. \A q \in Nat : q * d \in Nat /\ (q + 1) * d = q * d + d
  BY <1>1
<1>6. n <= m * d
  <2>1. ~ ((m + 1) * d <= n + d - 1)
    BY <1>3, <1>4
  <2> QED
    BY <2>1, <1>1, <1>3, <1>5
<1>7. \A q \in Nat : q < m => q * d < n
  <2> TAKE q \in Nat
  <2>1. q + 1 <= m <=> (q + 1) * d <= n + d - 1
    BY <1>4
  <2> QED
    BY <2>1, <1>1, <1>3, <1>5
<1>8. ASSUME NEW i \in 0 .. (n - 1) PROVE i \div d + 1 \in 1 .. m
  <2>1. i \in Nat /\ i \div d \in Nat /\ (i \div d) * d <= i
    BY <1>1, <1>8, DivMod, Quotient
  <2>2. ~ (m <= i \div d)
    BY <2>1, <1>1, <1>3, <1>5, <1>6, <1>8, Quotient
  <2> QED
    BY <2>1, <2>2, <1>3
<1> QED
  BY <1>3, <1>6, <1>7, <1>8 DEF m

\* One more needs one more part when the last one is full.
LEMMA CeilingOfNext ==
    ASSUME NEW n \in Nat, NEW d \in Nat \ {0}
    PROVE  /\ n \div d \in Nat
           /\ Ceiling(n + 1, d) = n \div d + 1
           /\ \/ Ceiling(n, d) = n \div d + 1
              \/ Ceiling(n, d) = n \div d /\ (n % d) = 0
<1> DEFINE w == n \div d
           r == n % d
<1>1. d \in Nat \ {0}
  OBVIOUS
<1>2. w \in Nat /\ r \in 0 .. (d - 1) /\ n = w * d + r
  BY <1>1, DivMod
<1>3. /\ Ceiling(n + 1, d) \in Nat /\ Ceiling(n, d) \in Nat
      /\ n < Ceiling(n + 1, d) * d
      /\ n <= Ceiling(n, d) * d
      /\ w < Ceiling(n, d) => w * d < n
      /\ w + 1 < Ceiling(n, d) => (w + 1) * d < n
      /\ w + 1 < Ceiling(n + 1, d) => (w + 1) * d < n + 1
  <2>1. n + 1 \in Nat /\ w + 1 \in Nat
    BY <1>2
  <2>2. n + 1 <= Ceiling(n + 1, d) * d
    BY <2>1, CeilingIs
  <2>3. Ceiling(n + 1, d) \in Nat /\ Ceiling(n + 1, d) * d \in Nat
    BY <2>1, <1>1, CeilingIs
  <2> HIDE DEF w
  <2>4. /\ Ceiling(n, d) \in Nat /\ n <= Ceiling(n, d) * d
        /\ \A q \in Nat : q < Ceiling(n, d) => q * d < n
    BY CeilingIs
  <2>5. \A q \in Nat : q < Ceiling(n + 1, d) => q * d < n + 1
    BY <2>1, CeilingIs
  <2> QED
    BY <2>1, <2>2, <2>3, <2>4, <2>5, <1>2
<1> HIDE DEF w, r
<1>4. \A q \in Nat : q * d \in Nat /\ (q + 1) * d = q * d + d
  BY <1>1
<1>5. \A q \in Nat : q <= w => q * d <= w * d
  BY <1>1, <1>2, ProductsAscend
<1>6. Ceiling(n + 1, d) = w + 1
  BY <1>1, <1>2, <1>3, <1>4, <1>5
<1>7. Ceiling(n, d) <= w + 1
  BY <1>1, <1>2, <1>3, <1>4
<1>8. CASE Ceiling(n, d) = w + 1
  BY <1>2, <1>6, <1>8 DEF w
<1>9. CASE Ceiling(n, d) <= w
  <2>1. Ceiling(n, d) * d <= w * d
    BY <1>3, <1>5, <1>9
  <2>2. r = 0
    BY <2>1, <1>1, <1>2, <1>3, <1>4
  <2>3. ~ (Ceiling(n, d) + 1 <= w)
    BY <2>2, <1>1, <1>2, <1>3, <1>4, <1>5
  <2> QED
    BY <2>2, <2>3, <1>2, <1>3, <1>6, <1>9 DEF w, r
<1> QED
  BY <1>2, <1>3, <1>7, <1>8, <1>9

\* More need no less.
LEMMA CeilingGrows ==
    ASSUME NEW m \in Nat, NEW n \in Nat, NEW d \in Nat \ {0}, m <= n
    PROVE  Ceiling(m, d) <= Ceiling(n, d)
<1>1. /\ Ceiling(m, d) \in Nat /\ Ceiling(n, d) \in Nat /\ n <= Ceiling(n, d) * d
      /\ Ceiling(n, d) < Ceiling(m, d) => Ceiling(n, d) * d < m
  BY CeilingIs
<1>2. Ceiling(n, d) * d \in Nat
  BY <1>1
<1> QED
  BY <1>1, <1>2

-----------------------------------------------------------------------------
(* Rows with a value. *)

\* The rows with a value among the first n.
Valid(bits, n) == {m \in 0 .. (n - 1) : m \in bits}
Count(bits, n) == Cardinality(Valid(bits, n))

\* Rows are counted one by one.
LEMMA CountRows ==
    ASSUME NEW bits, NEW n \in Nat
    PROVE  /\ Count(bits, n) \in 0 .. n
           /\ Count(bits, 0) = 0
           /\ Count(bits, n + 1) = IF n \in bits THEN Count(bits, n) + 1 ELSE Count(bits, n)
           /\ Count(bits, n) = n => \A m \in 0 .. (n - 1) : m \in bits
           /\ (\A m \in 0 .. (n - 1) : m \in bits) => Count(bits, n) = n
           /\ \A m \in 0 .. (n - 1) : m \in bits => Count(bits, m) < Count(bits, n)
<1>1. IsFiniteSet(0 .. (n - 1)) /\ Cardinality(0 .. (n - 1)) = n
  BY FS_Interval
<1>2. Valid(bits, n) \in SUBSET (0 .. (n - 1))
  BY DEF Valid
<1>3. /\ IsFiniteSet(Valid(bits, n)) /\ Count(bits, n) <= n
      /\ Count(bits, n) = n => Valid(bits, n) = 0 .. (n - 1)
  BY <1>1, <1>2, FS_Subset DEF Count
<1>4. Count(bits, n) \in Nat
  BY <1>3, FS_CardinalityType DEF Count
<1>5. Count(bits, 0) = 0
  <2>1. Valid(bits, 0) = {}
    BY DEF Valid
  <2> QED
    BY <2>1, FS_EmptySet DEF Count
<1>6. Count(bits, n + 1) = IF n \in bits THEN Count(bits, n) + 1 ELSE Count(bits, n)
  <2>1. n \notin Valid(bits, n)
    BY DEF Valid
  <2>2. CASE n \in bits
    <3>1. Valid(bits, n + 1) = Valid(bits, n) \cup {n}
      BY <2>2 DEF Valid
    <3> QED
      BY <2>1, <2>2, <3>1, <1>3, FS_AddElement DEF Count
  <2>3. CASE n \notin bits
    <3>1. Valid(bits, n + 1) = Valid(bits, n)
      BY <2>3 DEF Valid
    <3> QED
      BY <2>3, <3>1 DEF Count
  <2> QED
    BY <2>2, <2>3
<1>7. (\A m \in 0 .. (n - 1) : m \in bits) => Count(bits, n) = n
  <2>1. (\A m \in 0 .. (n - 1) : m \in bits) => Valid(bits, n) = 0 .. (n - 1)
    BY DEF Valid
  <2> QED
    BY <2>1, <1>1 DEF Count
<1>8. ASSUME NEW m \in 0 .. (n - 1), m \in bits PROVE Count(bits, m) < Count(bits, n)
  <2>1. Valid(bits, m) \in SUBSET Valid(bits, n) /\ m \in Valid(bits, n) /\ m \notin Valid(bits, m)
    BY <1>8 DEF Valid
  <2>2. /\ Count(bits, m) <= Count(bits, n)
        /\ Count(bits, n) = Count(bits, m) => Valid(bits, n) = Valid(bits, m)
        /\ IsFiniteSet(Valid(bits, m))
    BY <2>1, <1>3, FS_Subset DEF Count
  <2>3. Count(bits, m) \in Nat
    BY <2>2, FS_CardinalityType DEF Count
  <2> QED
    BY <2>1, <2>2, <2>3, <1>4
<1> QED
  BY <1>2, <1>3, <1>4, <1>5, <1>6, <1>7, <1>8 DEF Valid

\* The count depends on the rows counted only.
LEMMA CountSame ==
    ASSUME NEW a, NEW b, NEW n \in Nat, \A m \in 0 .. (n - 1) : m \in a <=> m \in b
    PROVE  \A m \in 0 .. n : Count(a, m) = Count(b, m)
<1> SUFFICES ASSUME NEW m \in 0 .. n PROVE Valid(a, m) = Valid(b, m)
  BY DEF Count
<1> QED
  BY DEF Valid
=============================================================================
