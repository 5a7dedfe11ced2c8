--------------------------- MODULE SequenceLemmas ----------------------------
(* Lemmas about data that the proofs share: induction over the natural        *)
(* numbers for sets in the place of predicates, from the theorem on minimal   *)
(* elements of well-founded relations; that a function defined by recursion   *)
(* over 0..N exists; and the concatenation of a sequence of sequences.        *)
EXTENDS Naturals, Sequences, SequencesExt, TLAPS, SequenceTheorems, WellFoundedInduction

------------------------------------------------------------------------------
(* Induction *)

Below == {p \in Nat \X Nat : p[1] < p[2]}

LEMMA BelowWellFounded == IsWellFoundedOn(Below, Nat)
  BY NatLessThanWellFounded, Zenon DEF OpToRel, Below

LEMMA LeastNat ==
  ASSUME NEW T \in SUBSET Nat, T # {}
  PROVE  \E x \in T : \A y \in T : x <= y
<1>1. \E x \in T : \A y \in T : ~(<<y, x>> \in Below)
  BY WFMin, BelowWellFounded, Zenon
<1>2. \A x \in T : \A y \in T : ~(<<y, x>> \in Below) => x <= y
  BY DEF Below
<1> QED BY <1>1, <1>2

\* What holds of 0 and goes on from n to n + 1 holds of all numbers.
LEMMA SetInduction ==
  ASSUME NEW T \in SUBSET Nat, 0 \in T, \A n \in T : n + 1 \in T
  PROVE  T = Nat
<1> SUFFICES ASSUME Nat \ T # {} PROVE FALSE
  OBVIOUS
<1> PICK x \in Nat \ T : \A y \in Nat \ T : x <= y
  BY LeastNat
<1>1. x - 1 \in Nat /\ x - 1 \in T
  OBVIOUS
<1> QED BY <1>1

\* g starts with e and goes on with step, which may depend on the index.
Recurs(g, S, e, N, step) ==
  g \in [0 .. N -> S] /\ g[0] = e /\ \A n \in 1 .. N : g[n] = step[<<n, g[n - 1]>>]
Steps(N, S) == [(1 .. N) \X S -> S]

\* A start and a step make a function.
LEMMA RecursionExists ==
  ASSUME NEW S, NEW e \in S, NEW N \in Nat, NEW step \in Steps(N, S)
  PROVE  \E g : Recurs(g, S, e, N, step)
<1> DEFINE Upto(m) == \E g \in [0 .. m -> S] :
             g[0] = e /\ \A n \in 1 .. m : g[n] = step[<<n, g[n - 1]>>]
           T == {m \in Nat : m <= N => Upto(m)}
<1>1. 0 \in T
  <2> DEFINE g == [i \in 0 .. 0 |-> e]
  <2>1. g \in [0 .. 0 -> S] /\ g[0] = e /\ \A n \in 1 .. 0 : g[n] = step[<<n, g[n - 1]>>]
    OBVIOUS
  <2> HIDE DEF g
  <2> QED BY <2>1
<1> USE DEF Steps
<1>2. ASSUME NEW m \in T PROVE m + 1 \in T
  <2> SUFFICES ASSUME m + 1 <= N PROVE Upto(m + 1)
    OBVIOUS
  <2>1. PICK g \in [0 .. m -> S] :
          g[0] = e /\ \A n \in 1 .. m : g[n] = step[<<n, g[n - 1]>>]
    BY <1>2
  <2> DEFINE v == step[<<m + 1, g[m]>>]
             h == [i \in 0 .. m + 1 |-> IF i <= m THEN g[i] ELSE v]
  <2>2. v \in S
    BY <1>2
  <2> HIDE DEF v
  <2>3. h \in [0 .. m + 1 -> S] /\ h[m + 1] = v /\ \A i \in 0 .. m : h[i] = g[i]
    BY <1>2, <2>2
  <2> HIDE DEF h
  <2>4. \A n \in 1 .. m + 1 : h[n] = step[<<n, h[n - 1]>>]
    <3> SUFFICES ASSUME NEW n \in 1 .. m + 1 PROVE h[n] = step[<<n, h[n - 1]>>]
      OBVIOUS
    <3>1. CASE n = m + 1
      <4>1. h[n - 1] = g[m]
        BY <1>2, <2>3, <3>1
      <4> QED BY <2>3, <3>1, <4>1 DEF v
    <3>2. CASE n \in 1 .. m
      <4>1. h[n] = g[n] /\ h[n - 1] = g[n - 1]
        BY <1>2, <2>3, <3>2
      <4> QED BY <2>1, <3>2, <4>1
    <3> QED BY <1>2, <3>1, <3>2
  <2>5. h[0] = e
    BY <1>2, <2>1, <2>3
  <2> QED BY <2>3, <2>4, <2>5
<1>3. T = Nat
  <2> HIDE DEF T
  <2>1. T \in SUBSET Nat
    BY DEF T
  <2> QED BY <1>1, <1>2, <2>1, SetInduction
<1>4. PICK g \in [0 .. N -> S] : g[0] = e /\ \A n \in 1 .. N : g[n] = step[<<n, g[n - 1]>>]
  BY <1>3
<1> QED BY <1>4 DEF Recurs

------------------------------------------------------------------------------
(* The concatenation of chunks *)

\* g[n] is the concatenation of the first n chunks of q.
Concats(g, q, S) ==
  /\ g \in [0 .. Len(q) -> Seq(S)] /\ g[0] = <<>>
  /\ \A n \in 1 .. Len(q) : g[n] = g[n - 1] \o q[n]

LEMMA ConcatsExists ==
  ASSUME NEW S, NEW q \in Seq(Seq(S))
  PROVE  \E g : Concats(g, q, S)
<1> DEFINE N == Len(q)
           Q == Seq(S)
           e == <<>>
           step == [p \in (1 .. N) \X Q |-> p[2] \o q[p[1]]]
<1>1. N \in Nat /\ e \in Q
  OBVIOUS
<1>2. \A n \in 1 .. N : \A s \in Q : s \o q[n] \in Q
  OBVIOUS
<1>3. step \in Steps(N, Q) /\ \A n \in 1 .. N : \A s \in Q : step[<<n, s>>] = s \o q[n]
  BY <1>2 DEF Steps
<1> HIDE DEF N, Q, e, step
<1>4. PICK g : Recurs(g, Q, e, N, step)
  BY <1>1, <1>3, RecursionExists, Zenon
<1>5. \A n \in 1 .. N : n - 1 \in 0 .. N
  BY <1>1
<1>6. \A n \in 1 .. N : g[n] = g[n - 1] \o q[n]
  BY <1>3, <1>4, <1>5 DEF Recurs
<1> QED BY <1>4, <1>6 DEF Recurs, Concats, N, Q, e

LEMMA ConcatsFirst ==
  ASSUME NEW S, NEW q \in Seq(Seq(S)), NEW g, Concats(g, q, S), 1 \in 1 .. Len(q)
  PROVE  g[1] = q[1]
<1> DEFINE c == q[1]
<1>1. c \in Seq(S)
  BY ElementOfSeq
<1>2. g[0] = <<>> /\ g[1] = g[1 - 1] \o c
  BY Zenon DEF Concats
<1>3. 1 - 1 = 0
  OBVIOUS
<1> HIDE DEF c
<1>4. <<>> \o c = c
  BY <1>1, ConcatEmptySeq
<1> QED BY <1>2, <1>3, <1>4 DEF c

\* Only one function is the concatenation.
LEMMA FlattenConcats ==
  ASSUME NEW S, NEW q \in Seq(Seq(S)), NEW g, Concats(g, q, S)
  PROVE  FlattenSeq(q) = g[Len(q)]
<1> DEFINE N == Len(q)
           Fun(h) == h = [i \in 1 .. N |-> IF i = 1 THEN q[i] ELSE h[i - 1] \o q[i]]
           f == CHOOSE h : Fun(h)
           r == [i \in 1 .. N |-> g[i]]
<1>1. N \in Nat
  OBVIOUS
<1>2. CASE N = 0
  BY <1>2 DEF Concats, FlattenSeq
<1>3. CASE N # 0
  <2>1. Fun(r)
    <3>1. \A i \in 1 .. N : r[i] = IF i = 1 THEN q[i] ELSE r[i - 1] \o q[i]
      <4> TAKE i \in 1 .. N
      <4>1. CASE i = 1
        BY <1>1, <4>1, ConcatsFirst
      <4>2. CASE i # 1
        <5>1. i - 1 \in 1 .. N
          BY <1>1, <4>2
        <5> QED BY <4>2, <5>1 DEF Concats
      <4> QED BY <4>1, <4>2
    <3> QED BY <3>1
  <2>2. Fun(f)
    BY <2>1
  <2>3. FlattenSeq(q) = f[N]
    BY <1>3 DEF FlattenSeq
  <2> HIDE DEF f, r
  <2> DEFINE T == {n \in Nat : n + 1 \in 1 .. N => f[n + 1] = g[n + 1]}
  <2>4. 0 \in T
    <3>1. 1 \in 1 .. N
      BY <1>1, <1>3
    <3>2. g[1] = q[1] /\ f[1] = q[1]
      BY <2>2, <3>1, ConcatsFirst
    <3> QED BY <3>2
  <2>5. ASSUME NEW n \in T PROVE n + 1 \in T
    <3> SUFFICES ASSUME (n + 1) + 1 \in 1 .. N PROVE f[(n + 1) + 1] = g[(n + 1) + 1]
      OBVIOUS
    <3>1. n \in Nat /\ n + 1 \in 1 .. N /\ (n + 1) + 1 # 1 /\ ((n + 1) + 1) - 1 = n + 1
      BY <1>1
    <3>2. f[(n + 1) + 1] = f[n + 1] \o q[(n + 1) + 1]
      BY <2>2, <3>1
    <3>3. g[(n + 1) + 1] = g[n + 1] \o q[(n + 1) + 1]
      BY <3>1 DEF Concats
    <3> QED BY <3>1, <3>2, <3>3
  <2>6. N - 1 \in Nat /\ (N - 1) + 1 \in 1 .. N /\ (N - 1) + 1 = N
    BY <1>1, <1>3
  <2>7. N - 1 \in T
    <3> HIDE DEF T
    <3>1. T \in SUBSET Nat
      BY DEF T
    <3>2. T = Nat
      BY <2>4, <2>5, <3>1, SetInduction
    <3> QED BY <2>6, <3>2
  <2> QED BY <2>3, <2>6, <2>7
<1> QED BY <1>2, <1>3

LEMMA FlattenType ==
  ASSUME NEW S, NEW q \in Seq(Seq(S))
  PROVE  FlattenSeq(q) \in Seq(S)
<1>1. PICK g : Concats(g, q, S)
  BY ConcatsExists
<1>2. FlattenSeq(q) = g[Len(q)]
  BY <1>1, FlattenConcats
<1> QED BY <1>1, <1>2 DEF Concats

LEMMA FlattenEmpty == FlattenSeq(<<>>) = <<>>
  BY DEF FlattenSeq

\* A chunk that is queued comes last.
LEMMA FlattenAppend ==
  ASSUME NEW S, NEW q \in Seq(Seq(S)), NEW c \in Seq(S)
  PROVE  FlattenSeq(Append(q, c)) = FlattenSeq(q) \o c
<1> DEFINE N == Len(q)
           z == Append(q, c)
<1>1. /\ N \in Nat /\ z \in Seq(Seq(S)) /\ Len(z) = N + 1 /\ z[N + 1] = c
      /\ \A n \in 1 .. N : z[n] = q[n]
  OBVIOUS
<1> HIDE DEF z, N
<1>2. PICK g : Concats(g, z, S)
  BY <1>1, ConcatsExists
<1>7. /\ g[0] = <<>> /\ \A n \in 0 .. N : g[n] \in Seq(S)
      /\ \A n \in 1 .. N : g[n] = g[n - 1] \o q[n]
      /\ g[N + 1] = g[N] \o c
  <2>1. g \in [0 .. N + 1 -> Seq(S)] /\ \A n \in 1 .. N + 1 : g[n] = g[n - 1] \o z[n]
    BY <1>1, <1>2 DEF Concats
  <2>2. N + 1 \in 1 .. N + 1 /\ (N + 1) - 1 = N /\ \A n \in 1 .. N : n \in 1 .. N + 1
    BY <1>1
  <2>3. \A n \in 0 .. N : n \in 0 .. N + 1
    BY <1>1
  <2> QED BY <1>1, <1>2, <2>1, <2>2, <2>3 DEF Concats
<1> DEFINE h == [n \in 0 .. N |-> g[n]]
<1>3. Concats(h, q, S)
  <2>1. h \in [0 .. N -> Seq(S)] /\ h[0] = <<>>
    BY <1>1, <1>7
  <2>2. \A n \in 1 .. N : n \in 0 .. N /\ n - 1 \in 0 .. N
    BY <1>1
  <2>3. \A n \in 1 .. N : h[n] = h[n - 1] \o q[n]
    BY <1>7, <2>2
  <2> QED BY <2>1, <2>3 DEF Concats, N
<1>4. FlattenSeq(q) = g[N]
  <2>1. h[N] = g[N]
    BY <1>1
  <2> HIDE DEF h
  <2> QED BY <1>3, <2>1, FlattenConcats DEF N
<1>5. FlattenSeq(z) = g[N + 1]
  BY <1>1, <1>2, FlattenConcats
<1> QED BY <1>4, <1>5, <1>7 DEF z

\* The chunk that is written is the first.
LEMMA FlattenHead ==
  ASSUME NEW S, NEW q \in Seq(Seq(S)), q # <<>>
  PROVE  FlattenSeq(q) = Head(q) \o FlattenSeq(Tail(q))
<1> DEFINE N == Len(q)
           c == Head(q)
           t == Tail(q)
<1>1. /\ N \in Nat /\ N > 0 /\ c \in Seq(S) /\ c = q[1]
      /\ t \in Seq(Seq(S)) /\ Len(t) = N - 1
      /\ \A n \in 1 .. N - 1 : t[n] = q[n + 1]
  OBVIOUS
<1>9. \A n \in 1 .. N : q[n] \in Seq(S)
  OBVIOUS
<1> HIDE DEF c, t, N
<1>2. PICK h : Concats(h, t, S)
  BY <1>1, ConcatsExists
<1>10. /\ h[0] = <<>> /\ \A n \in 0 .. N - 1 : h[n] \in Seq(S)
       /\ \A n \in 1 .. N - 1 : h[n] = h[n - 1] \o q[n + 1]
  BY <1>1, <1>2 DEF Concats
<1> DEFINE g == [n \in 0 .. N |-> IF n = 0 THEN <<>> ELSE c \o h[n - 1]]
<1>3. \A n \in 1 .. N : h[n - 1] \in Seq(S) /\ c \o h[n - 1] \in Seq(S)
  <2>1. \A n \in 1 .. N : n - 1 \in 0 .. N - 1
    BY <1>1
  <2> QED BY <1>1, <1>10, <2>1
<1>4. /\ g[0] = <<>> /\ g \in [0 .. N -> Seq(S)]
      /\ \A n \in 1 .. N : g[n] = c \o h[n - 1]
  <2>1. \A n \in 0 .. N : n # 0 => n \in 1 .. N
    BY <1>1
  <2>2. 0 \in 0 .. N /\ \A n \in 1 .. N : n \in 0 .. N /\ n # 0
    BY <1>1
  <2>3. \A n \in 0 .. N : (IF n = 0 THEN <<>> ELSE c \o h[n - 1]) \in Seq(S)
    BY <1>3, <2>1
  <2> QED BY <2>2, <2>3
<1>6. N \in 1 .. N
  BY <1>1
<1> HIDE DEF g
<1>5. ASSUME NEW n \in 1 .. N PROVE g[n] = g[n - 1] \o q[n]
  <2>1. CASE n = 1
    <3>1. g[1] = c \o h[0] /\ 1 - 1 = 0
      BY <1>4, <2>1
    <3>2. c \o <<>> = c /\ <<>> \o c = c
      BY <1>1
    <3> QED BY <1>1, <1>4, <1>10, <2>1, <3>1, <3>2
  <2>2. CASE n # 1
    <3>1. /\ n - 1 \in 1 .. N /\ n - 1 \in 1 .. N - 1 /\ (n - 1) + 1 = n
          /\ (n - 1) - 1 \in 0 .. N - 1
      BY <1>1, <2>2
    <3> DEFINE u == h[(n - 1) - 1]
    <3>2. u \in Seq(S) /\ q[n] \in Seq(S) /\ h[n - 1] = u \o q[n]
      BY <1>9, <1>10, <3>1
    <3>3. g[n - 1] = c \o u /\ g[n] = c \o h[n - 1]
      BY <1>4, <3>1
    <3> DEFINE v == q[n]
    <3> HIDE DEF u, v
    <3>4. c \in Seq(S) /\ u \in Seq(S) /\ v \in Seq(S)
      BY <1>1, <3>2 DEF v
    <3>5. (c \o u) \o v = c \o (u \o v)
      BY ONLY <3>4
    <3>6. h[n - 1] = u \o v
      BY <3>2 DEF v
    <3>7. g[n] = g[n - 1] \o v
      BY <3>3, <3>5, <3>6, Zenon
    <3> QED BY <3>7 DEF v
  <2> QED BY <2>1, <2>2
<1>7. Concats(g, q, S)
  BY <1>4, <1>5 DEF Concats, N
<1>8. FlattenSeq(q) = g[N] /\ FlattenSeq(t) = h[N - 1]
  BY <1>1, <1>2, <1>7, FlattenConcats DEF N
<1> QED BY <1>4, <1>6, <1>8 DEF c, t
==============================================================================
