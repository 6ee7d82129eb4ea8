--------------------------- MODULE SequenceLemmas ---------------------------
(***************************************************************************)
(* Facts about numbers and sequences that the proofs of several components *)
(* rest on.                                                                *)
(***************************************************************************)
EXTENDS Integers, FiniteSets, SequencesExt, FiniteSetTheorems, SequenceTheorems, TLAPS

\* A set of natural numbers has a least member, and one that is bounded has a
\* greatest.
LEMMA LeastExists ==
  ASSUME NEW S \in SUBSET Nat, S # {}
  PROVE  \E t \in S : \A u \in S : t <= u
<1> DEFINE R == StrictSubsetOrdering(Nat)
           T == {0 .. t : t \in S}
<1>1. T \subseteq FiniteSubsetsOf(Nat) /\ T # {}
  <2>1. ASSUME NEW t \in S PROVE IsFiniteSet(0 .. t) /\ 0 .. t \subseteq Nat
    BY FS_Interval
  <2>2. \A U \in SUBSET Nat : IsFiniteSet(U) => U \in FiniteSubsetsOf(Nat)
    BY DEF FiniteSubsetsOf
  <2> QED
    BY <2>1, <2>2
<1>2. IsWellFoundedOn(R, FiniteSubsetsOf(Nat))
  BY FS_StrictSubsetOrderingWellFounded
<1>3. \E x \in T : \A y \in T : ~ (<<y, x>> \in R)
  <2> HIDE DEF R, T
  <2> QED
    BY <1>1, <1>2, WFMin
<1>4. PICK t \in S : \A u \in S : ~ (<<0 .. u, 0 .. t>> \in R)
  BY <1>3
<1>5. ASSUME NEW u \in S PROVE t <= u
  <2>1. SUFFICES ASSUME u < t PROVE FALSE
    OBVIOUS
  <2>2. 0 .. u \subseteq 0 .. t /\ t \in 0 .. t /\ t \notin 0 .. u
    BY <2>1
  <2>3. 0 .. u # 0 .. t /\ 0 .. u \in SUBSET Nat /\ 0 .. t \in SUBSET Nat
    BY <2>2
  <2> QED
    BY <1>4, <2>2, <2>3 DEF StrictSubsetOrdering
<1> QED
  BY <1>5

LEMMA GreatestExists ==
  ASSUME NEW b \in Nat, NEW S \in SUBSET (0 .. b), S # {}
  PROVE  \E t \in S : \A u \in S : u <= t
<1> DEFINE T == {b - t : t \in S}
<1>1. T \in SUBSET Nat /\ T # {}
  <2>1. \A t \in S : b - t \in Nat
    OBVIOUS
  <2> QED
    BY <2>1
<1>2. \E x \in T : \A y \in T : x <= y
  <2> HIDE DEF T
  <2> QED
    BY <1>1, LeastExists
<1>3. PICK t \in S : \A u \in S : b - t <= b - u
  BY <1>2
<1> QED
  BY <1>3

\* Induction up to n, for a set of numbers.
LEMMA CountingUp ==
  ASSUME NEW n \in Nat, NEW T, 0 \in T, \A m \in 1 .. n : m - 1 \in T => m \in T
  PROVE  \A m \in 0 .. n : m \in T
<1> DEFINE S == {m \in 0 .. n : m \notin T}
<1>1. SUFFICES ASSUME S # {} PROVE FALSE
  OBVIOUS
<1>2. PICK m \in S : \A u \in S : m <= u
  <2> S \in SUBSET Nat
    OBVIOUS
  <2> HIDE DEF S
  <2> QED
    BY <1>1, LeastExists
<1>3. m \in 1 .. n /\ m \notin T
  OBVIOUS
<1>4. m - 1 \in 0 .. n /\ m - 1 \in T
  BY <1>2, <1>3
<1> QED
  BY <1>3, <1>4

\* A function on 0 .. n that is defined by its value before exists.
Follows(h, n, e, step) == h[0] = e /\ \A i \in 1 .. n : h[i] = step[<<i, h[i - 1]>>]

LEMMA RecursionExists ==
  ASSUME NEW S, NEW n \in Nat, NEW e \in S, NEW step \in [(1 .. n) \X S -> S]
  PROVE  \E h \in [0 .. n -> S] : Follows(h, n, e, step)
<1> DEFINE H(m, h) == h \in [0 .. m -> S] /\ h[0] = e /\ \A i \in 1 .. m : h[i] = step[<<i, h[i - 1]>>]
           T == {m \in Nat : \E h : H(m, h)}
<1>1. 0 \in T
  <2>1. H(0, [i \in 0 .. 0 |-> e])
    OBVIOUS
  <2> HIDE DEF H
  <2> QED
    BY <2>1
<1>2. ASSUME NEW m \in 1 .. n, m - 1 \in T PROVE m \in T
  <2>1. PICK h : H(m - 1, h)
    BY <1>2
  <2> DEFINE v == step[<<m, h[m - 1]>>]
             g == [i \in 0 .. m |-> IF i = m THEN v ELSE h[i]]
  <2>2. m - 1 \in 0 .. m - 1 /\ h[m - 1] \in S /\ v \in S /\ m \in Nat
    <3>1. m - 1 \in 0 .. m - 1 /\ m \in Nat
      OBVIOUS
    <3>2. h[m - 1] \in S
      BY <2>1, <3>1
    <3> QED
      BY <3>1, <3>2
  <2>3. g \in [0 .. m -> S]
    <3>1. ASSUME NEW i \in 0 .. m PROVE g[i] \in S
      <4>1. CASE i = m
        BY <2>2, <4>1
      <4>2. CASE i # m
        <5>1. i \in 0 .. m - 1
          BY <2>2, <4>2
        <5> QED
          BY <2>1, <4>2, <5>1
      <4> QED
        BY <4>1, <4>2
    <3> QED
      BY <3>1
  <2>4. \A i \in 0 .. m - 1 : g[i] = h[i]
    BY <2>2
  <2>5. g[0] = e /\ g[m] = v
    <3>1. 0 \in 0 .. m - 1 /\ m \in 0 .. m
      BY <2>2
    <3> QED
      BY <2>1, <2>4, <3>1
  <2> HIDE DEF g
  <2>6. ASSUME NEW i \in 1 .. m PROVE g[i] = step[<<i, g[i - 1]>>]
    <3>1. i - 1 \in 0 .. m - 1 /\ g[i - 1] = h[i - 1]
      BY <2>2, <2>4
    <3>2. CASE i = m
      BY <2>5, <3>1, <3>2
    <3>3. CASE i # m
      <4>1. i \in 0 .. m - 1 /\ i \in 1 .. m - 1
        BY <2>2, <3>3
      <4> QED
        BY <2>1, <2>4, <3>1, <4>1
    <3> QED
      BY <3>2, <3>3
  <2>7. H(m, g)
    BY <2>3, <2>5, <2>6
  <2> HIDE DEF H
  <2> QED
    BY <2>2, <2>7
<1>3. n \in T
  <2>1. \A m \in 0 .. n : m \in T
    <3> HIDE DEF T
    <3> QED
      BY <1>1, <1>2, CountingUp
  <2> QED
    BY <2>1
<1> QED
  BY <1>3 DEF Follows

\* Pushing on the end of a sequence, taking from it and changing it.
LEMMA FrontLast ==
  ASSUME NEW S, NEW q \in Seq(S), q # <<>>
  PROVE  /\ Last(q) \in S /\ Front(q) \in Seq(S) /\ Len(Front(q)) = Len(q) - 1
         /\ Len(q) \in Nat \ {0}
         /\ \A e \in S : LET r == [q EXCEPT ![Len(q)] = e] IN r \in Seq(S) /\ Len(r) = Len(q)
         /\ \A e \in S : Append(q, e) \in Seq(S) /\ Len(Append(q, e)) = Len(q) + 1
<1>1. Len(q) \in Nat \ {0} /\ Last(q) \in S
  BY DEF Last
<1>2. Front(q) \in Seq(S) /\ Len(Front(q)) = Len(q) - 1
  <2>1. \A i \in 1 .. Len(q) - 1 : q[i] \in S
    BY <1>1
  <2>2. /\ SubSeq(q, 1, Len(q) - 1) \in Seq(S)
        /\ Len(SubSeq(q, 1, Len(q) - 1)) = IF 1 <= Len(q) - 1 THEN Len(q) - 1 ELSE 0
    BY <1>1, <2>1, SubSeqProperties
  <2>3. (IF 1 <= Len(q) - 1 THEN Len(q) - 1 ELSE 0) = Len(q) - 1
    <3>1. ASSUME NEW n \in Nat \ {0} PROVE (IF 1 <= n - 1 THEN n - 1 ELSE 0) = n - 1
      OBVIOUS
    <3> QED
      BY <1>1, <3>1
  <2>4. Front(q) = SubSeq(q, 1, Len(q) - 1)
    BY Zenon DEF Front
  <2> QED
    BY <2>2, <2>3, <2>4, Zenon
<1>3. ASSUME NEW e \in S
      PROVE  [q EXCEPT ![Len(q)] = e] \in Seq(S) /\ Len([q EXCEPT ![Len(q)] = e]) = Len(q)
  BY <1>1
<1>4. ASSUME NEW e \in S PROVE Append(q, e) \in Seq(S) /\ Len(Append(q, e)) = Len(q) + 1
  BY <1>1
<1> QED
  BY <1>1, <1>2, <1>3, <1>4

-----------------------------------------------------------------------------
(* FlattenSeq.  Unrolls(h, q) says that h[i] are the first i members of q,  *)
(* one after the other.                                                     *)

Unrolls(h, q) == h[0] = <<>> /\ \A i \in 1 .. Len(q) : h[i] = h[i - 1] \o q[i]

LEMMA FlattenIs ==
  ASSUME NEW S, NEW q \in Seq(Seq(S)), NEW h \in [0 .. Len(q) -> Seq(S)], Unrolls(h, q)
  PROVE  FlattenSeq(q) = h[Len(q)]
<1> DEFINE n == Len(q)
<1>1. n \in Nat /\ h[0] = <<>> /\ \A i \in 1 .. n : h[i] = h[i - 1] \o q[i] /\ q[i] \in Seq(S)
  BY DEF Unrolls
<1>2. CASE n = 0
  <2>1. q = <<>>
    BY <1>2
  <2> QED
    BY <1>1, <1>2, <2>1 DEF FlattenSeq
<1>3. CASE n # 0
  <2> DEFINE Flat(g) == g = [i \in 1 .. n |-> IF i = 1 THEN q[i] ELSE g[i - 1] \o q[i]]
             flatten == CHOOSE g : Flat(g)
  <2>1. FlattenSeq(q) = flatten[n]
    BY <1>3 DEF FlattenSeq
  <2>2. h[1] = q[1]
    <3>1. 1 \in 1 .. n
      BY <1>1, <1>3
    <3>2. h[1] = h[1 - 1] \o q[1] /\ q[1] \in Seq(S)
      BY <1>1, <3>1
    <3>3. 1 - 1 = 0
      OBVIOUS
    <3>4. <<>> \o q[1] = q[1]
      BY <3>2, ConcatEmptySeq
    <3> QED
      BY <1>1, <3>2, <3>3, <3>4
  <2>3. Flat([i \in 1 .. n |-> h[i]])
    <3> DEFINE g == [i \in 1 .. n |-> h[i]]
    <3>1. ASSUME NEW i \in 1 .. n PROVE g[i] = IF i = 1 THEN q[i] ELSE g[i - 1] \o q[i]
      <4> HIDE DEF n
      <4>1. CASE i = 1
        BY <2>2, <4>1
      <4>2. CASE i # 1
        <5>1. i - 1 \in 1 .. n
          BY <1>1, <4>2
        <5> QED
          BY <1>1, <4>2, <5>1
      <4> QED
        BY <4>1, <4>2
    <3>2. g = [i \in 1 .. n |-> g[i]]
      OBVIOUS
    <3> HIDE DEF g, n
    <3> QED
      BY <3>1, <3>2 DEF g
  <2>4. Flat(flatten)
    <3> HIDE DEF Flat
    <3> QED
      BY <2>3
  <2> HIDE DEF flatten
  <2>5. \A i \in 1 .. n : flatten[i] = IF i = 1 THEN q[i] ELSE flatten[i - 1] \o q[i]
    BY <2>4
  <2> HIDE DEF n, Flat
  <2> DEFINE T == {m \in Nat : m = 0 \/ flatten[m] = h[m]}
  <2>6. \A m \in 0 .. n : m \in T
    <3>1. ASSUME NEW m \in 1 .. n, m - 1 \in T PROVE m \in T
      <4>1. m \in Nat /\ (m = 1 \/ m - 1 # 0)
        BY <1>1
      <4>2. CASE m = 1
        <5>1. flatten[1] = q[1]
          BY <2>5, <4>2
        <5> QED
          BY <2>2, <4>2, <5>1
      <4>3. CASE m # 1
        <5>1. flatten[m - 1] = h[m - 1]
          BY <1>1, <3>1, <4>3
        <5>2. flatten[m] = flatten[m - 1] \o q[m]
          BY <2>5, <4>3
        <5>3. h[m] = h[m - 1] \o q[m]
          BY <1>1
        <5> QED
          BY <4>1, <5>1, <5>2, <5>3
      <4> QED
        BY <4>2, <4>3
    <3>2. 0 \in T
      OBVIOUS
    <3> HIDE DEF T
    <3> QED
      BY <1>1, <3>1, <3>2, CountingUp
  <2> QED
    BY <1>1, <1>3, <2>1, <2>6 DEF n
<1> QED
  BY <1>2, <1>3

LEMMA UnrollsExists ==
  ASSUME NEW S, NEW q \in Seq(Seq(S))
  PROVE  \E h \in [0 .. Len(q) -> Seq(S)] : Unrolls(h, q)
<1> DEFINE n == Len(q)
           Steps == (1 .. n) \X Seq(S)
           step == [x \in Steps |-> x[2] \o q[x[1]]]
<1>1. n \in Nat /\ <<>> \in Seq(S)
  OBVIOUS
<1>2. step \in [Steps -> Seq(S)]
  <2>1. ASSUME NEW x \in Steps PROVE x[2] \o q[x[1]] \in Seq(S)
    <3>1. x[2] \in Seq(S) /\ q[x[1]] \in Seq(S)
      OBVIOUS
    <3> QED
      BY <3>1, ConcatProperties
  <2> QED
    BY <2>1
<1>3. PICK h \in [0 .. n -> Seq(S)] : Follows(h, n, <<>>, step)
  <2> HIDE DEF n, step
  <2> QED
    BY <1>1, <1>2, RecursionExists
<1>4. ASSUME NEW i \in 1 .. n PROVE h[i] = h[i - 1] \o q[i]
  <2>1. i - 1 \in 0 .. n
    BY <1>1
  <2>2. <<i, h[i - 1]>> \in Steps
    BY <2>1
  <2>3. step[<<i, h[i - 1]>>] = h[i - 1] \o q[i]
    BY <2>2
  <2> QED
    BY <1>3, <2>3 DEF Follows
<1> QED
  BY <1>3, <1>4 DEF Follows, Unrolls

\* What FlattenSeq returns, of nothing, of one more and of two halves.
LEMMA FlattenType ==
  ASSUME NEW S, NEW q \in Seq(Seq(S))
  PROVE  FlattenSeq(q) \in Seq(S)
<1>1. PICK h \in [0 .. Len(q) -> Seq(S)] : Unrolls(h, q)
  BY UnrollsExists
<1>2. FlattenSeq(q) = h[Len(q)]
  BY <1>1, FlattenIs
<1> QED
  BY <1>2

LEMMA FlattenEmpty == FlattenSeq(<<>>) = <<>>
BY DEF FlattenSeq

LEMMA FlattenAllEmpty ==
  ASSUME NEW S, NEW q \in Seq(Seq(S)), \A i \in 1 .. Len(q) : q[i] = <<>>
  PROVE  FlattenSeq(q) = <<>>
<1> DEFINE h == [i \in 0 .. Len(q) |-> <<>>]
<1>1. <<>> \in Seq(S) /\ <<>> \o <<>> = <<>>
  BY ConcatEmptySeq
<1>2. h \in [0 .. Len(q) -> Seq(S)] /\ h[Len(q)] = <<>>
  BY <1>1
<1>3. Unrolls(h, q)
  <2>1. ASSUME NEW i \in 1 .. Len(q) PROVE h[i] = h[i - 1] \o q[i]
    <3>1. i \in 0 .. Len(q) /\ i - 1 \in 0 .. Len(q)
      OBVIOUS
    <3>2. h[i] = <<>> /\ h[i - 1] = <<>> /\ q[i] = <<>>
      BY <3>1
    <3> HIDE DEF h
    <3> QED
      BY <1>1, <3>2
  <2>2. h[0] = <<>>
    OBVIOUS
  <2> HIDE DEF h
  <2> QED
    BY <2>1, <2>2 DEF Unrolls
<1> HIDE DEF h
<1> QED
  BY <1>2, <1>3, FlattenIs

LEMMA FlattenConcat ==
  ASSUME NEW S, NEW q \in Seq(Seq(S)), NEW r \in Seq(Seq(S))
  PROVE  FlattenSeq(q \o r) = FlattenSeq(q) \o FlattenSeq(r)
<1> DEFINE m == Len(q)
           n == Len(r)
           all == q \o r
<1>1. PICK g \in [0 .. m -> Seq(S)] : Unrolls(g, q)
  BY UnrollsExists
<1>2. PICK h \in [0 .. n -> Seq(S)] : Unrolls(h, r)
  BY UnrollsExists
<1>3. FlattenSeq(q) = g[m] /\ FlattenSeq(r) = h[n]
  BY <1>1, <1>2, FlattenIs
<1>4. /\ all \in Seq(Seq(S)) /\ Len(all) = m + n /\ m \in Nat /\ n \in Nat
      /\ \A i \in 1 .. m + n : all[i] = IF i <= m THEN q[i] ELSE r[i - m]
  BY ConcatProperties
<1>5. /\ \A i \in 1 .. m : q[i] \in Seq(S) /\ g[i] = g[i - 1] \o q[i]
      /\ \A i \in 1 .. n : r[i] \in Seq(S) /\ h[i] = h[i - 1] \o r[i]
      /\ g[0] = <<>> /\ h[0] = <<>>
  <2>1. (\A i \in 1 .. m : q[i] \in Seq(S)) /\ (\A i \in 1 .. n : r[i] \in Seq(S))
    OBVIOUS
  <2>2. (\A i \in 1 .. m : g[i] = g[i - 1] \o q[i]) /\ g[0] = <<>>
    BY <1>1 DEF Unrolls
  <2>3. (\A i \in 1 .. n : h[i] = h[i - 1] \o r[i]) /\ h[0] = <<>>
    BY <1>2 DEF Unrolls
  <2> HIDE DEF m, n
  <2> QED
    BY <2>1, <2>2, <2>3, Zenon
<1> HIDE DEF m, n, all
<1> DEFINE k == [i \in 0 .. m + n |-> IF i <= m THEN g[i] ELSE g[m] \o h[i - m]]
<1>6. g[m] \in Seq(S) /\ \A i \in 0 .. n : h[i] \in Seq(S)
  BY <1>4
<1>7. k \in [0 .. m + n -> Seq(S)]
  <2>1. ASSUME NEW i \in 0 .. m + n PROVE (IF i <= m THEN g[i] ELSE g[m] \o h[i - m]) \in Seq(S)
    <3>1. CASE i <= m
      BY <1>4, <3>1
    <3>2. CASE ~(i <= m)
      <4>1. i - m \in 0 .. n
        BY <1>4, <3>2
      <4> QED
        BY <1>6, <3>2, <4>1, ConcatProperties
    <3> QED
      BY <3>1, <3>2
  <2> QED
    BY <2>1
<1>8. ASSUME NEW i \in 1 .. m + n PROVE k[i] = k[i - 1] \o all[i]
  <2>1. CASE i <= m
    <3>1. i \in 1 .. m /\ i - 1 \in 0 .. m + n /\ i \in 0 .. m + n /\ i - 1 <= m
      BY <1>4, <2>1
    <3>2. k[i] = g[i] /\ k[i - 1] = g[i - 1] /\ all[i] = q[i]
      BY <1>4, <2>1, <3>1
    <3> QED
      BY <1>5, <3>1, <3>2
  <2>2. CASE ~(i <= m)
    <3> DEFINE j == i - m
    <3>1. j \in 1 .. n /\ i - 1 \in 0 .. m + n /\ i \in 0 .. m + n /\ j - 1 \in 0 .. n
      BY <1>4, <2>2
    <3>2. k[i] = g[m] \o h[j] /\ all[i] = r[j]
      BY <1>4, <2>2, <3>1
    <3>3. k[i - 1] = g[m] \o h[j - 1]
      <4>1. CASE i - 1 <= m
        <5>1. i - 1 = m /\ j - 1 = 0
          BY <1>4, <2>2, <4>1
        <5>2. k[i - 1] = g[m] /\ h[j - 1] = <<>>
          BY <1>5, <3>1, <5>1
        <5> QED
          BY <1>6, <5>2, ConcatEmptySeq
      <4>2. CASE ~(i - 1 <= m)
        <5>1. i - 1 - m = j - 1
          BY <1>4
        <5> QED
          BY <3>1, <4>2, <5>1
      <4> QED
        BY <4>1, <4>2
    <3>4. h[j] = h[j - 1] \o r[j] /\ h[j - 1] \in Seq(S) /\ r[j] \in Seq(S)
      BY <1>5, <1>6, <3>1
    <3> HIDE DEF j, k
    <3>5. g[m] \o (h[j - 1] \o r[j]) = (g[m] \o h[j - 1]) \o r[j]
      <4>1. ASSUME NEW a \in Seq(S), NEW b \in Seq(S), NEW c \in Seq(S)
            PROVE  (a \o b) \o c = a \o (b \o c)
        BY ConcatAssociative
      <4> QED
        BY <1>6, <3>4, <4>1, Zenon
    <3> QED
      BY <3>2, <3>3, <3>4, <3>5
  <2> QED
    BY <2>1, <2>2
<1>9. k[0] = <<>> /\ k[m + n] = g[m] \o h[n]
  <2>1. k[0] = <<>>
    BY <1>4, <1>5
  <2>2. CASE n = 0
    BY <1>4, <1>5, <1>6, <2>2, ConcatEmptySeq
  <2>3. CASE n # 0
    <3>1. m + n \in 0 .. m + n /\ ~(m + n <= m) /\ m + n - m = n
      BY <1>4, <2>3
    <3>2. k[m + n] = g[m] \o h[m + n - m]
      BY <1>4, <3>1
    <3> QED
      BY <2>1, <3>1, <3>2
  <2> QED
    BY <2>1, <2>2, <2>3
<1> HIDE DEF k
<1>10. Unrolls(k, all)
  BY <1>4, <1>8, <1>9 DEF Unrolls
<1>11. FlattenSeq(all) = k[m + n]
  BY <1>4, <1>7, <1>10, FlattenIs
<1> QED
  BY <1>3, <1>9, <1>11 DEF all

LEMMA FlattenAppend ==
  ASSUME NEW S, NEW q \in Seq(Seq(S)), NEW x \in Seq(S)
  PROVE  FlattenSeq(Append(q, x)) = FlattenSeq(q) \o x
<1>1. Append(q, x) = q \o <<x>> /\ <<x>> \in Seq(Seq(S))
  BY AppendIsConcat
<1>2. FlattenSeq(<<x>>) = x
  <2> DEFINE h == [i \in 0 .. 1 |-> IF i = 0 THEN <<>> ELSE x]
  <2>1. <<>> \o x = x /\ <<>> \in Seq(S)
    BY ConcatEmptySeq
  <2>2. h \in [0 .. 1 -> Seq(S)] /\ h[0] = <<>> /\ h[1] = x
    BY <2>1
  <2> HIDE DEF h
  <2>3. Len(<<x>>) = 1 /\ <<x>>[1] = x
    OBVIOUS
  <2>4. Unrolls(h, <<x>>)
    <3>1. \A i \in 1 .. 1 : i = 1 /\ i - 1 = 0
      OBVIOUS
    <3>2. ASSUME NEW i \in 1 .. 1 PROVE h[i] = h[i - 1] \o <<x>>[i]
      BY <2>1, <2>2, <2>3, <3>1
    <3> QED
      BY <2>2, <2>3, <3>2 DEF Unrolls
  <2> QED
    BY <1>1, <2>2, <2>3, <2>4, FlattenIs
<1> QED
  BY <1>1, <1>2, FlattenConcat

-----------------------------------------------------------------------------
(* One that goes on, one by one, backwards, and a value for each.           *)

LEMMA Associates == ASSUME NEW S PROVE \A u, v, w \in Seq(S) : (u \o v) \o w = u \o (v \o w)
BY ConcatAssociative

\* r is q, but that p, the last of its sequences that is not empty, goes on with x.
Longer(r, q, p, x) ==
  /\ Len(r) = Len(q) /\ p \in 1 .. Len(q) /\ r[p] = q[p] \o x
  /\ \A i \in 1 .. Len(q) : (i # p => r[i] = q[i]) /\ (i > p => q[i] = <<>>)

LEMMA FlattenLonger ==
  ASSUME NEW S, NEW q \in Seq(Seq(S)), NEW r \in Seq(Seq(S)),
         NEW x \in Seq(S), NEW p, Longer(r, q, p, x)
  PROVE  FlattenSeq(r) = FlattenSeq(q) \o x
<1> DEFINE n == Len(q)
<1>0. \A u, v, w \in Seq(S) : (u \o v) \o w = u \o (v \o w)
  BY Associates
<1>1. PICK h \in [0 .. n -> Seq(S)] : Unrolls(h, q)
  BY UnrollsExists
<1>2. PICK g \in [0 .. Len(r) -> Seq(S)] : Unrolls(g, r)
  BY UnrollsExists
<1>3. n \in Nat /\ p \in 1 .. n /\ p \in Nat /\ g \in [0 .. n -> Seq(S)] /\ Len(r) = n
      /\ \A i \in 1 .. n : q[i] \in Seq(S)
  <2>1. n \in Nat /\ \A i \in 1 .. n : q[i] \in Seq(S)
    OBVIOUS
  <2>2. Len(r) = n /\ p \in 1 .. n
    BY DEF Longer
  <2>3. g \in [0 .. n -> Seq(S)]
    <3>1. g \in [0 .. Len(r) -> Seq(S)]
      BY <1>2
    <3> HIDE DEF n
    <3> QED
      BY <2>2, <3>1
  <2>4. p \in Nat
    BY <2>1, <2>2
  <2> QED
    BY <2>1, <2>2, <2>3, <2>4
<1>4. FlattenSeq(q) = h[n] /\ FlattenSeq(r) = g[n]
  <2>1. FlattenSeq(q) = h[Len(q)]
    BY <1>1, FlattenIs
  <2>2. FlattenSeq(r) = g[Len(r)]
    BY <1>2, FlattenIs
  <2> QED
    BY <1>3, <2>1, <2>2
<1>5. h[0] = <<>> /\ g[0] = <<>>
      /\ \A i \in 1 .. n : h[i] = h[i - 1] \o q[i] /\ g[i] = g[i - 1] \o r[i]
  BY <1>1, <1>2, <1>3 DEF Unrolls
<1>6. /\ r[p] = q[p] \o x
      /\ \A i \in 1 .. n : (i # p => r[i] = q[i]) /\ (i > p => q[i] = <<>>)
  BY DEF Longer
<1> HIDE DEF n
<1> DEFINE Early(m) == g[m] = h[m]
           Late(m) == g[m] = h[m] \o x
           T == {m \in Nat : IF m < p THEN Early(m) ELSE Late(m)}
<1>7. 0 \in T
  <2>1. Early(0) /\ 0 < p
    BY <1>3, <1>5
  <2> HIDE DEF Early, Late
  <2> QED
    BY <1>3, <2>1
<1>8. ASSUME NEW m \in 1 .. n, m - 1 \in T PROVE m \in T
  <2>1. m - 1 \in 0 .. n /\ m \in 0 .. n /\ m \in Nat /\ p \in Nat
    BY <1>3
  <2>2. h[m] = h[m - 1] \o q[m] /\ g[m] = g[m - 1] \o r[m] /\ h[m - 1] \in Seq(S) /\ q[m] \in Seq(S)
    BY <1>1, <1>3, <1>5, <2>1
  <2>3. IF m - 1 < p THEN Early(m - 1) ELSE Late(m - 1)
    BY <1>8
  <2>4. CASE m < p
    <3>1. m - 1 < p /\ m # p
      BY <2>1, <2>4
    <3>2. Early(m - 1) /\ r[m] = q[m]
      BY <1>6, <2>3, <3>1
    <3>3. Early(m)
      BY <2>2, <3>2
    <3> HIDE DEF Early, Late
    <3> QED
      BY <2>1, <2>4, <3>3
  <2>5. CASE m = p
    <3>1. m - 1 < p /\ ~(m < p)
      BY <2>1, <2>5
    <3>2. Early(m - 1) /\ r[m] = q[m] \o x
      BY <1>6, <2>3, <2>5, <3>1
    <3>3. (h[m - 1] \o q[m]) \o x = h[m - 1] \o (q[m] \o x)
      <4> DEFINE a == h[m - 1]
                 b == q[m]
      <4>2. a \in Seq(S) /\ b \in Seq(S)
        BY <2>2
      <4> HIDE DEF a, b
      <4>3. (a \o b) \o x = a \o (b \o x)
        BY <1>0, <4>2
      <4> QED
        BY <4>3 DEF a, b
    <3>4. Late(m)
      BY <2>2, <3>2, <3>3
    <3> HIDE DEF Early, Late
    <3> QED
      BY <2>1, <3>1, <3>4
  <2>6. CASE m > p
    <3>1. ~(m - 1 < p) /\ ~(m < p) /\ m # p
      BY <2>1, <2>6
    <3>2. Late(m - 1) /\ r[m] = <<>> /\ q[m] = <<>>
      BY <1>6, <2>3, <2>6, <3>1
    <3>3. h[m - 1] \o x \in Seq(S)
      BY <2>2, ConcatProperties
    <3>4. g[m] = h[m - 1] \o x /\ h[m] = h[m - 1]
      BY <2>2, <3>2, <3>3, ConcatEmptySeq
    <3>5. Late(m)
      BY <3>4
    <3> HIDE DEF Early, Late
    <3> QED
      BY <2>1, <3>1, <3>5
  <2> HIDE DEF T
  <2> QED
    BY <2>1, <2>4, <2>5, <2>6
<1>9. Late(n)
  <2>1. \A m \in 0 .. n : m \in T
    <3> HIDE DEF T
    <3> QED
      BY <1>3, <1>7, <1>8, CountingUp
  <2>2. n \in 0 .. n /\ ~(n < p)
    BY <1>3
  <2> HIDE DEF Early, Late
  <2> QED
    BY <2>1, <2>2
<1> QED
  BY <1>4, <1>9

LEMMA FlattenOne == ASSUME NEW S, NEW x \in Seq(S) PROVE FlattenSeq(<<x>>) = x
<1>1. <<>> \in Seq(Seq(S)) /\ Append(<<>>, x) = <<x>>
  OBVIOUS
<1>2. FlattenSeq(<<x>>) = FlattenSeq(<<>>) \o x
  BY <1>1, FlattenAppend
<1> QED
  BY <1>2, FlattenEmpty, ConcatEmptySeq

\* One by one.
LEMMA FlattenSingles ==
  ASSUME NEW S, NEW q \in Seq(S)
  PROVE  FlattenSeq([i \in 1 .. Len(q) |-> <<q[i]>>]) = q
<1> DEFINE n == Len(q)
           r == [i \in 1 .. n |-> <<q[i]>>]
           part(m) == [i \in 1 .. m |-> q[i]]
           h == [m \in 0 .. n |-> part(m)]
<1>1. n \in Nat /\ \A i \in 1 .. n : q[i] \in S
  OBVIOUS
<1>2. r \in Seq(Seq(S)) /\ Len(r) = n
  BY <1>1
<1>3. \A m \in 0 .. n : part(m) \in Seq(S) /\ Len(part(m)) = m
  BY <1>1
<1>4. h \in [0 .. n -> Seq(S)]
  BY <1>3
<1>5. ASSUME NEW i \in 1 .. n PROVE h[i] = h[i - 1] \o r[i]
  <2>1. i - 1 \in 0 .. n /\ i \in 0 .. n /\ i - 1 \in Nat
    BY <1>1
  <2>2. h[i] = part(i) /\ h[i - 1] = part(i - 1) /\ r[i] = <<q[i]>>
    BY <2>1
  <2>3. part(i) = Append(part(i - 1), q[i])
    <3>1. Append(part(i - 1), q[i]) \in Seq(S) /\ Len(Append(part(i - 1), q[i])) = i
      BY <1>1, <1>3, <2>1
    <3>2. ASSUME NEW k \in 1 .. i PROVE part(i)[k] = Append(part(i - 1), q[i])[k]
      <4>1. CASE k = i
        <5>1. Append(part(i - 1), q[i])[i] = q[i]
          BY <1>1, <1>3, <2>1
        <5> QED
          BY <4>1, <5>1
      <4>2. CASE k # i
        <5>1. k \in 1 .. i - 1
          BY <4>2
        <5>2. Append(part(i - 1), q[i])[k] = part(i - 1)[k]
          BY <1>1, <1>3, <2>1, <5>1
        <5> QED
          BY <5>1, <5>2
      <4> QED
        BY <4>1, <4>2
    <3>3. part(i) \in Seq(S) /\ Len(part(i)) = i
      BY <1>3, <2>1
    <3> HIDE DEF part
    <3> QED
      BY <3>1, <3>2, <3>3, SeqEqual
  <2>4. part(i) = part(i - 1) \o <<q[i]>>
    <3>1. part(i - 1) \in Seq(S) /\ q[i] \in S
      BY <1>1, <1>3, <2>1
    <3> HIDE DEF part
    <3> QED
      BY <2>3, <3>1, AppendIsConcat
  <2> HIDE DEF part
  <2> QED
    BY <2>2, <2>4
<1>6. h[0] = <<>> /\ h[n] = q
  <2>1. 0 \in 0 .. n /\ n \in 0 .. n
    BY <1>1
  <2>2. part(0) = <<>> /\ part(n) = q
    <3>1. part(n) \in Seq(S) /\ Len(part(n)) = n /\ part(0) \in Seq(S) /\ Len(part(0)) = 0
      BY <1>3, <2>1
    <3> QED
      BY <3>1
  <2> QED
    BY <2>1, <2>2
<1>7. Unrolls(h, r)
  <2> HIDE DEF h
  <2> QED
    BY <1>2, <1>5, <1>6 DEF Unrolls
<1> HIDE DEF h, r, n
<1>8. FlattenSeq(r) = h[n]
  BY <1>2, <1>4, <1>7, FlattenIs
<1> QED
  BY <1>6, <1>8 DEF r, n

LEMMA ReverseType ==
  ASSUME NEW S, NEW q \in Seq(S)
  PROVE  /\ Reverse(q) \in Seq(S) /\ Len(Reverse(q)) = Len(q)
         /\ \A i \in 1 .. Len(q) : Len(q) - i + 1 \in 1 .. Len(q) /\ Reverse(q)[i] = q[Len(q) - i + 1]
<1> DEFINE n == Len(q)
<1>1. n \in Nat /\ \A i \in 1 .. n : q[i] \in S
  OBVIOUS
<1>2. \A i \in 1 .. n : n - i + 1 \in 1 .. n
  BY <1>1
<1>3. Reverse(q) = [i \in 1 .. n |-> q[n - i + 1]]
  BY DEF Reverse
<1> HIDE DEF n
<1>4. Reverse(q) \in Seq(S) /\ Len(Reverse(q)) = n /\ \A i \in 1 .. n : Reverse(q)[i] = q[n - i + 1]
  BY <1>1, <1>2, <1>3
<1> QED
  BY <1>2, <1>4 DEF n

LEMMA ReverseTwice == ASSUME NEW S, NEW q \in Seq(S) PROVE Reverse(Reverse(q)) = q
<1> DEFINE r == Reverse(q)
           n == Len(q)
<1>1. r \in Seq(S) /\ Len(r) = n /\ n \in Nat
      /\ \A i \in 1 .. n : n - i + 1 \in 1 .. n /\ r[i] = q[n - i + 1]
  BY ReverseType
<1> HIDE DEF r, n
<1>2. Reverse(r) \in Seq(S) /\ Len(Reverse(r)) = n /\ \A i \in 1 .. n : Reverse(r)[i] = r[n - i + 1]
  BY <1>1, ReverseType
<1>3. ASSUME NEW i \in 1 .. n PROVE Reverse(r)[i] = q[i]
  <2>1. n - i + 1 \in 1 .. n /\ n - (n - i + 1) + 1 = i
    BY <1>1
  <2>2. r[n - i + 1] = q[n - (n - i + 1) + 1]
    BY <1>1, <2>1
  <2> QED
    BY <1>2, <2>1, <2>2
<1>4. Len(q) = n
  BY DEF n
<1> QED
  BY <1>2, <1>3, <1>4, SeqEqual DEF r

LEMMA ReverseOne == ASSUME NEW S, NEW e \in S PROVE Reverse(<<e>>) = <<e>>
<1>1. <<e>> \in Seq(S) /\ Len(<<e>>) = 1 /\ <<e>>[1] = e /\ 1 - 1 + 1 = 1
  OBVIOUS
<1>2. Reverse(<<e>>) \in Seq(S) /\ Len(Reverse(<<e>>)) = 1 /\ Reverse(<<e>>)[1] = e
  BY <1>1, ReverseType
<1> QED
  BY <1>1, <1>2, SeqEqual

LEMMA ReverseConcat ==
  ASSUME NEW S, NEW q \in Seq(S), NEW r \in Seq(S)
  PROVE  Reverse(q \o r) = Reverse(r) \o Reverse(q)
<1> DEFINE m == Len(q)
           n == Len(r)
           all == q \o r
           left == Reverse(r)
           right == Reverse(q)
<1>1. m \in Nat /\ n \in Nat
  OBVIOUS
<1>2. all \in Seq(S) /\ Len(all) = m + n
      /\ \A i \in 1 .. m + n : all[i] = IF i <= m THEN q[i] ELSE r[i - m]
  BY ConcatProperties
<1>3. /\ left \in Seq(S) /\ Len(left) = n /\ \A i \in 1 .. n : left[i] = r[n - i + 1]
      /\ right \in Seq(S) /\ Len(right) = m /\ \A i \in 1 .. m : right[i] = q[m - i + 1]
  BY ReverseType
<1> HIDE DEF m, n, all, left, right
<1>4. Reverse(all) \in Seq(S) /\ Len(Reverse(all)) = m + n
      /\ \A i \in 1 .. Len(all) : Reverse(all)[i] = all[Len(all) - i + 1]
  BY <1>2, ReverseType
<1>5. left \o right \in Seq(S) /\ Len(left \o right) = n + m
      /\ \A i \in 1 .. n + m : (left \o right)[i] = IF i <= n THEN left[i] ELSE right[i - n]
  BY <1>3, ConcatProperties
<1>6. ASSUME NEW i \in 1 .. m + n PROVE Reverse(all)[i] = (left \o right)[i]
  <2> DEFINE j == m + n - i + 1
  <2>1. i \in 1 .. n + m /\ j \in 1 .. m + n /\ i \in Nat
    BY <1>1
  <2>2. Reverse(all)[i] = all[j] /\ all[j] = (IF j <= m THEN q[j] ELSE r[j - m])
        /\ (left \o right)[i] = (IF i <= n THEN left[i] ELSE right[i - n])
    <3>1. \A k : k = m + n - i + 1 => Reverse(all)[i] = all[k]
      <4>1. i \in 1 .. Len(all)
        BY <1>2
      <4>2. Reverse(all)[i] = all[Len(all) - i + 1]
        BY <1>4, <4>1
      <4>3. Len(all) - i + 1 = m + n - i + 1
        <5> DEFINE l == Len(all)
        <5>1. l = m + n
          BY <1>2
        <5> HIDE DEF l
        <5>2. l - i + 1 = m + n - i + 1
          BY <1>1, <5>1
        <5> QED
          BY <5>2 DEF l
      <4> QED
        BY <4>2, <4>3
    <3>2. Reverse(all)[i] = all[j]
      BY <3>1
    <3> HIDE DEF j
    <3> QED
      BY <1>2, <1>5, <2>1, <3>2
  <2>3. CASE i <= n
    <3>1. i \in 1 .. n /\ ~(j <= m) /\ j - m = n - i + 1
      BY <1>1, <2>3
    <3>2. left[i] = r[n - i + 1]
      BY <1>3, <3>1
    <3> HIDE DEF j
    <3> QED
      BY <2>2, <2>3, <3>1, <3>2
  <2>4. CASE ~(i <= n)
    <3>1. i - n \in 1 .. m /\ j <= m /\ m - (i - n) + 1 = j
      BY <1>1, <2>4
    <3>2. right[i - n] = q[m - (i - n) + 1]
      BY <1>3, <3>1
    <3> HIDE DEF j
    <3> QED
      BY <2>2, <2>4, <3>1, <3>2
  <2> QED
    BY <2>3, <2>4
<1>7. n + m = m + n
  BY <1>1
<1> QED
  BY <1>4, <1>5, <1>6, <1>7, SeqEqual DEF all, left, right

\* A value for each of a sequence.
Mapped(v, q) == [i \in 1 .. Len(q) |-> v[q[i]]]

MapsBoth(v, a, b) == Mapped(v, a \o b) = Mapped(v, a) \o Mapped(v, b)

LEMMA MappedConcat ==
  ASSUME NEW S, NEW T, NEW v \in [S -> T], NEW a \in Seq(S), NEW b \in Seq(S)
  PROVE  /\ Mapped(v, a) \in Seq(T) /\ Len(Mapped(v, a)) = Len(a)
         /\ MapsBoth(v, a, b)
<1>1. \A c \in Seq(S) : Mapped(v, c) \in Seq(T) /\ Len(Mapped(v, c)) = Len(c)
                        /\ \A i \in 1 .. Len(c) : Mapped(v, c)[i] = v[c[i]]
  <2> SUFFICES ASSUME NEW c \in Seq(S)
               PROVE  Mapped(v, c) \in Seq(T) /\ Len(Mapped(v, c)) = Len(c)
                      /\ \A i \in 1 .. Len(c) : Mapped(v, c)[i] = v[c[i]]
    OBVIOUS
  <2>1. \A i \in 1 .. Len(c) : v[c[i]] \in T
    OBVIOUS
  <2> QED
    BY <2>1 DEF Mapped
<1> DEFINE all == a \o b
           left == Mapped(v, a)
           right == Mapped(v, b)
           m == Len(a)
           n == Len(b)
<1>2. m \in Nat /\ n \in Nat /\ all \in Seq(S) /\ Len(all) = m + n
      /\ \A i \in 1 .. m + n : all[i] = IF i <= m THEN a[i] ELSE b[i - m]
  BY ConcatProperties
<1>3. /\ left \in Seq(T) /\ Len(left) = m /\ \A i \in 1 .. m : left[i] = v[a[i]]
      /\ right \in Seq(T) /\ Len(right) = n /\ \A i \in 1 .. n : right[i] = v[b[i]]
  BY <1>1
<1> HIDE DEF all, left, right, m, n
<1>4. left \o right \in Seq(T) /\ Len(left \o right) = m + n
      /\ \A i \in 1 .. m + n : (left \o right)[i] = IF i <= m THEN left[i] ELSE right[i - m]
  <2>1. /\ left \o right \in Seq(T)
        /\ Len(left \o right) = Len(left) + Len(right)
        /\ \A i \in 1 .. Len(left) + Len(right) :
              (left \o right)[i] = IF i <= Len(left) THEN left[i]
                                                    ELSE right[i - Len(left)]
    <3>1. left \in Seq(T) /\ right \in Seq(T)
      BY <1>3
    <3> QED
      BY <3>1, ConcatProperties
  <2>2. Len(left) = m /\ Len(right) = n
    BY <1>3
  <2> QED
    BY <2>1, <2>2
<1>5. Mapped(v, all) \in Seq(T) /\ Len(Mapped(v, all)) = m + n
      /\ \A i \in 1 .. m + n : Mapped(v, all)[i] = v[all[i]]
  <2> DEFINE t == Mapped(v, all)
  <2>1. t \in Seq(T) /\ Len(t) = Len(all) /\ \A i \in 1 .. Len(all) : t[i] = v[all[i]]
    BY <1>1, <1>2
  <2> HIDE DEF t
  <2>2. t \in Seq(T) /\ Len(t) = m + n /\ \A i \in 1 .. m + n : t[i] = v[all[i]]
    BY <1>2, <2>1
  <2> QED
    BY <2>2 DEF t
<1>6. ASSUME NEW i \in 1 .. m + n PROVE Mapped(v, all)[i] = (left \o right)[i]
  <2>1. CASE i <= m
    <3>1. i \in 1 .. m
      BY <1>2, <2>1
    <3> QED
      BY <1>2, <1>3, <1>4, <1>5, <2>1, <3>1
  <2>2. CASE ~(i <= m)
    <3> DEFINE j == i - m
    <3>1. j \in 1 .. n
      BY <1>2, <2>2
    <3>2. all[i] = b[j] /\ (left \o right)[i] = right[j]
      BY <1>2, <1>4, <2>2
    <3> HIDE DEF j
    <3> QED
      BY <1>3, <1>5, <3>1, <3>2
  <2> QED
    BY <2>1, <2>2
<1>7. Mapped(v, all) = left \o right
  BY <1>4, <1>5, <1>6, SeqEqual
<1> QED
  BY <1>3, <1>7 DEF MapsBoth, all, left, right, m

=============================================================================
