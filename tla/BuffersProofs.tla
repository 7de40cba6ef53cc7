----------------------------- MODULE BuffersProofs -----------------------------
(* Theorems about Buffers: for all packets, sizes of the buffers and places    *)
(* where the network cuts the stream or changes a frame, what is read is what  *)
(* was sent.                                                                   *)
EXTENDS Buffers, TLAPS, SequenceTheorems, WellFoundedInduction

-----------------------------------------------------------------------------
(* Induction over a set, and what a recursive function is                      *)

LEMMA Least ==
  ASSUME NEW T, T \subseteq Nat, T # {}
  PROVE  \E n \in T : \A m \in T : n <= m
<1> DEFINE R == OpToRel(<, Nat)
<1>1. IsWellFoundedOn(R, Nat)
  BY NatLessThanWellFounded
<1>2. \A x, y \in Nat : x < y => <<x, y>> \in R
  BY DEF OpToRel
<1> HIDE DEF R
<1>3. PICK x \in T : \A y \in T : ~ (<<y, x>> \in R)
  BY <1>1, WFMin
<1>4. \A y \in T : ~ (y < x)
  BY <1>2, <1>3
<1>5. \A y \in T : x <= y
  <2> SUFFICES ASSUME NEW y \in T PROVE x <= y
    OBVIOUS
  <2>1. x \in Nat /\ y \in Nat /\ ~ (y < x)
    BY <1>4
  <2> QED BY <2>1
<1> QED BY <1>5

LEMMA Induction ==
  ASSUME NEW T, 0 \in T, \A n \in Nat : n \in T => n + 1 \in T
  PROVE  \A n \in Nat : n \in T
<1> SUFFICES ASSUME Nat \ T # {} PROVE FALSE
  OBVIOUS
<1>1. PICK n \in Nat \ T : \A m \in Nat \ T : n <= m
  BY Least
<1>2. n # 0 /\ n - 1 \in Nat
  BY <1>1
<1>3. n - 1 \in T
  BY <1>1, <1>2
<1> QED BY <1>1, <1>2, <1>3

\* A function whose value at n is that of a smaller number, changed.
Descends(d, Z) == \A n \in Nat : n \notin Z => d[n] < n
Recurs(f, Z, B, d, F) == \A n \in Nat : f[n] = IF n \in Z THEN B[n] ELSE F[n][f[d[n]]]

LEMMA Recursion ==
  ASSUME NEW V, NEW Z \in SUBSET Nat, NEW B \in [Nat -> V], NEW d \in [Nat -> Nat],
         NEW F \in [Nat -> [V -> V]], Descends(d, Z)
  PROVE  \E f \in [Nat -> V] : Recurs(f, Z, B, d, F)
<1> USE DEF Descends, Recurs
<1> DEFINE Next_(f, n) == IF n \in Z THEN B[n] ELSE F[n][f[d[n]]]
           Upto(f, m) == \A n \in 0..m : f[n] = Next_(f, n)
           T == {m \in Nat : \E f \in [Nat -> V] : Upto(f, m)}
<1>1. 0 \in T
  <2>1. 0 \in Z
    BY 0 \in Nat
  <2>2. Upto(B, 0)
    BY <2>1
  <2> QED BY <2>2
<1>2. ASSUME NEW m \in Nat, m \in T PROVE m + 1 \in T
  <2>1. PICK f \in [Nat -> V] : Upto(f, m)
    BY <1>2
  <2> DEFINE g == [f EXCEPT ![m + 1] = Next_(f, m + 1)]
  <2>2. Next_(f, m + 1) \in V /\ m + 1 \in Nat
    OBVIOUS
  <2>3. g \in [Nat -> V] /\ g[m + 1] = Next_(f, m + 1) /\ \A n \in 0..m : g[n] = f[n]
    BY <2>2
  <2> HIDE DEF g
  <2>4. \A n \in 0..m + 1 : n \notin Z => d[n] \in 0..m
    OBVIOUS
  <2>5. \A n \in 0..m + 1 : Next_(g, n) = Next_(f, n)
    BY <2>3, <2>4
  <2>6. Upto(g, m + 1)
    <3> HIDE DEF Next_
    <3> SUFFICES ASSUME NEW n \in 0..m + 1 PROVE g[n] = Next_(g, n)
      OBVIOUS
    <3>1. n \in 0..m \/ n = m + 1
      OBVIOUS
    <3> QED BY <2>1, <2>3, <2>5, <3>1
  <2> HIDE DEF Upto
  <2> QED BY <2>2, <2>3, <2>6
<1>3. \A m \in Nat : m \in T
  <2> HIDE DEF T
  <2> QED BY <1>1, <1>2, Induction
<1>4. ASSUME NEW f, NEW g, NEW m \in Nat, NEW l \in Nat, Upto(f, m), Upto(g, l), m <= l
      PROVE  f[m] = g[m]
  <2> DEFINE D == {n \in 0..m : f[n] # g[n]}
  <2>1. SUFFICES ASSUME D # {} PROVE FALSE
    OBVIOUS
  <2>a. D \subseteq Nat
    OBVIOUS
  <2>2. PICK n \in D : \A k \in D : n <= k
    <3> HIDE DEF D
    <3> QED BY <2>1, <2>a, Least
  <2>3. n \in 0..m /\ n \in 0..l /\ n \in Nat
    BY <1>4
  <2>4. f[n] = Next_(f, n) /\ g[n] = Next_(g, n)
    BY <1>4, <2>3
  <2>5. n \notin Z
    BY <2>4
  <2>6. d[n] \in 0..m /\ d[n] < n
    BY <2>3, <2>5
  <2>7. d[n] \notin D
    BY <2>2, <2>3, <2>6
  <2>8. f[d[n]] = g[d[n]]
    BY <2>6, <2>7
  <2> QED BY <2>4, <2>5, <2>8
<1> DEFINE G(m) == CHOOSE f \in [Nat -> V] : Upto(f, m)
<1>5. \A m \in Nat : G(m) \in [Nat -> V] /\ Upto(G(m), m)
  <2> HIDE DEF Upto
  <2> QED BY <1>3
<1> DEFINE h == [m \in Nat |-> G(m)[m]]
<1> HIDE DEF G
<1>6. h \in [Nat -> V]
  BY <1>5
<1>7. ASSUME NEW n \in Nat PROVE h[n] = Next_(h, n)
  <2>1. h[n] = Next_(G(n), n)
    BY <1>5
  <2>2. CASE n \in Z
    BY <2>1, <2>2
  <2>3. CASE n \notin Z
    <3>1. d[n] \in Nat /\ d[n] <= n
      BY <2>3
    <3>2. h[d[n]] = G(n)[d[n]]
      <4> HIDE DEF Upto
      <4> QED BY <3>1, <1>4, <1>5
    <3> QED BY <2>1, <2>3, <3>2
  <2> QED BY <2>2, <2>3
<1> HIDE DEF h
<1> QED BY <1>6, <1>7

\* The special case of recursion by one.
Iterates(f, v, F) == f[0] = v /\ \A n \in Nat \ {0} : f[n] = F[n][f[n - 1]]

LEMMA Iteration ==
  ASSUME NEW V, NEW v \in V, NEW F \in [Nat -> [V -> V]]
  PROVE  \E f \in [Nat -> V] : Iterates(f, v, F)
<1> DEFINE Z == {0}
           B == [n \in Nat |-> v]
           d == [n \in Nat |-> IF n = 0 THEN 0 ELSE n - 1]
<1>1. B \in [Nat -> V] /\ d \in [Nat -> Nat] /\ Descends(d, Z)
  BY DEF Descends
<1>2. \A n \in Nat \ {0} : d[n] = n - 1
  OBVIOUS
<1>3. Z \in SUBSET Nat /\ B[0] = v /\ 0 \in Z /\ \A n \in Nat \ {0} : n \notin Z
  OBVIOUS
<1> HIDE DEF B, d, Z
<1>4. PICK f \in [Nat -> V] : Recurs(f, Z, B, d, F)
  BY <1>1, <1>3, Recursion
<1>5. f[0] = v
  BY <1>3, <1>4 DEF Recurs
<1>6. \A n \in Nat \ {0} : f[n] = F[n][f[n - 1]]
  BY <1>2, <1>3, <1>4 DEF Recurs
<1> QED BY <1>5, <1>6 DEF Iterates

-----------------------------------------------------------------------------
(* Sequences *)

LEMMA ConsFacts ==
  ASSUME NEW S, NEW x \in S, NEW s \in Seq(S)
  PROVE  /\ <<x>> \o s \in Seq(S) /\ Len(<<x>> \o s) = Len(s) + 1
         /\ (<<x>> \o s)[1] = x
         /\ \A i \in 1..Len(s) : (<<x>> \o s)[i + 1] = s[i]
<1>1. <<x>> \in Seq(S) /\ Len(<<x>>) = 1 /\ <<x>>[1] = x
  OBVIOUS
<1>2. /\ <<x>> \o s \in Seq(S) /\ Len(<<x>> \o s) = Len(s) + 1
      /\ \A i \in 1 .. 1 + Len(s) :
           (<<x>> \o s)[i] = IF i <= 1 THEN <<x>>[i] ELSE s[i - 1]
  <2> DEFINE a == <<x>>
  <2>0. a \in Seq(S) /\ Len(a) = 1 /\ a[1] = x
    BY <1>1
  <2> HIDE DEF a
  <2>1. /\ a \o s \in Seq(S) /\ Len(a \o s) = Len(a) + Len(s)
        /\ \A i \in 1 .. Len(a) + Len(s) :
             (a \o s)[i] = IF i <= Len(a) THEN a[i] ELSE s[i - Len(a)]
    BY <2>0, ConcatProperties
  <2>2. Len(s) \in Nat
    BY LenProperties
  <2>3. Len(a \o s) = Len(s) + 1
    BY <2>0, <2>1, <2>2
  <2>4. \A i \in 1 .. 1 + Len(s) : (a \o s)[i] = IF i <= 1 THEN a[i] ELSE s[i - 1]
    BY <2>0, <2>1, <2>2
  <2> QED BY <2>1, <2>3, <2>4 DEF a
<1>3. Len(s) \in Nat
  BY LenProperties
<1>4. (<<x>> \o s)[1] = x
  BY <1>1, <1>2, <1>3
<1>5. ASSUME NEW i \in 1..Len(s) PROVE (<<x>> \o s)[i + 1] = s[i]
  <2>1. i + 1 \in 1 .. 1 + Len(s) /\ ~(i + 1 <= 1) /\ (i + 1) - 1 = i
    BY <1>3
  <2> QED BY <1>2, <2>1
<1> QED BY <1>2, <1>4, <1>5

LEMMA FirstOnes ==
  ASSUME NEW S, NEW s \in Seq(S), NEW n \in 0..Len(s)
  PROVE  /\ SubSeq(s, 1, n) \in Seq(S) /\ Len(SubSeq(s, 1, n)) = n
         /\ \A i \in 1..n : SubSeq(s, 1, n)[i] = s[i]
<1>1. Len(s) \in Nat /\ \A i \in 1..Len(s) : s[i] \in S
  BY LenProperties, ElementOfSeq
<1>2. \A i \in 1..n : s[i] \in S
  BY <1>1
<1>3. /\ SubSeq(s, 1, n) \in Seq(S)
      /\ Len(SubSeq(s, 1, n)) = IF 1 <= n THEN n - 1 + 1 ELSE 0
      /\ \A i \in 1 .. n - 1 + 1 : SubSeq(s, 1, n)[i] = s[1 + i - 1]
  BY <1>1, <1>2, SubSeqProperties
<1>4. n - 1 + 1 = n /\ (IF 1 <= n THEN n - 1 + 1 ELSE 0) = n
  BY <1>1
<1>5. \A i \in 1..n : 1 + i - 1 = i
  BY <1>1, SMTT(40)
<1> QED BY <1>3, <1>4, <1>5

LEMMA LastOnes ==
  ASSUME NEW S, NEW s \in Seq(S), NEW n \in 0..Len(s)
  PROVE  /\ SubSeq(s, n + 1, Len(s)) \in Seq(S)
         /\ Len(SubSeq(s, n + 1, Len(s))) = Len(s) - n
         /\ \A i \in 1 .. Len(s) - n : SubSeq(s, n + 1, Len(s))[i] = s[n + i]
<1>1. Len(s) \in Nat /\ \A i \in 1..Len(s) : s[i] \in S
  BY LenProperties, ElementOfSeq
<1>2. \A i \in n + 1 .. Len(s) : s[i] \in S
  BY <1>1
<1>3. /\ SubSeq(s, n + 1, Len(s)) \in Seq(S)
      /\ Len(SubSeq(s, n + 1, Len(s))) =
           IF n + 1 <= Len(s) THEN Len(s) - (n + 1) + 1 ELSE 0
      /\ \A i \in 1 .. Len(s) - (n + 1) + 1 :
           SubSeq(s, n + 1, Len(s))[i] = s[(n + 1) + i - 1]
  BY <1>1, <1>2, SubSeqProperties
<1>4. Len(s) - (n + 1) + 1 = Len(s) - n
  BY <1>1
<1>5. (IF n + 1 <= Len(s) THEN Len(s) - (n + 1) + 1 ELSE 0) = Len(s) - n
  BY <1>1
<1>6. \A i \in 1 .. Len(s) - n : (n + 1) + i - 1 = n + i
  BY <1>1
<1> QED BY <1>3, <1>4, <1>5, <1>6

LEMMA Splits ==
  ASSUME NEW S, NEW s \in Seq(S), NEW n \in 0..Len(s)
  PROVE  s = SubSeq(s, 1, n) \o SubSeq(s, n + 1, Len(s))
<1> DEFINE a == SubSeq(s, 1, n)
           b == SubSeq(s, n + 1, Len(s))
<1>1. Len(s) \in Nat
  BY LenProperties
<1>2. a \in Seq(S) /\ Len(a) = n /\ \A i \in 1..n : a[i] = s[i]
  BY FirstOnes
<1>3. b \in Seq(S) /\ Len(b) = Len(s) - n /\ \A i \in 1 .. Len(s) - n : b[i] = s[n + i]
  BY LastOnes
<1> HIDE DEF a, b
<1>4. /\ a \o b \in Seq(S) /\ Len(a \o b) = Len(a) + Len(b)
      /\ \A i \in 1 .. Len(a) + Len(b) :
           (a \o b)[i] = IF i <= Len(a) THEN a[i] ELSE b[i - Len(a)]
  BY <1>2, <1>3, ConcatProperties
<1>5. Len(a) + Len(b) = Len(s)
  BY <1>1, <1>2, <1>3
<1>6. \A i \in 1..Len(s) : (a \o b)[i] = s[i]
  <2> SUFFICES ASSUME NEW i \in 1..Len(s) PROVE (a \o b)[i] = s[i]
    OBVIOUS
  <2>1. CASE i <= n
    BY <1>1, <1>2, <1>4, <1>5, <2>1
  <2>2. CASE ~(i <= n)
    <3>1. i - n \in 1 .. Len(s) - n /\ n + (i - n) = i
      BY <1>1, <2>2
    <3> QED BY <1>2, <1>3, <1>4, <1>5, <2>2, <3>1
  <2> QED BY <2>1, <2>2
<1>7. a \o b = s
  BY <1>4, <1>5, <1>6, SeqEqual
<1> QED BY <1>7 DEF a, b

LEMMA Concat ==
  ASSUME NEW S, NEW s \in Seq(S), NEW t \in Seq(S)
  PROVE  /\ s \o t \in Seq(S) /\ Len(s \o t) = Len(s) + Len(t)
         /\ Len(s) \in Nat /\ Len(t) \in Nat
         /\ \A i \in 1..Len(s) : (s \o t)[i] = s[i]
         /\ \A i \in 1..Len(t) : (s \o t)[Len(s) + i] = t[i]
<1>1. Len(s) \in Nat /\ Len(t) \in Nat
  BY LenProperties
<1>2. /\ s \o t \in Seq(S) /\ Len(s \o t) = Len(s) + Len(t)
      /\ \A i \in 1 .. Len(s) + Len(t) :
           (s \o t)[i] = IF i <= Len(s) THEN s[i] ELSE t[i - Len(s)]
  BY ConcatProperties
<1>3. \A i \in 1..Len(s) : (s \o t)[i] = s[i]
  BY <1>1, <1>2
<1>4. ASSUME NEW i \in 1..Len(t) PROVE (s \o t)[Len(s) + i] = t[i]
  <2>1. /\ Len(s) + i \in 1 .. Len(s) + Len(t) /\ ~(Len(s) + i <= Len(s))
        /\ (Len(s) + i) - Len(s) = i
    BY <1>1
  <2> QED BY <1>2, <2>1
<1> QED BY <1>1, <1>2, <1>3, <1>4

LEMMA FunctionIsSeq ==
  ASSUME NEW S, NEW n \in Nat, NEW f \in [1..n -> S]
  PROVE  f \in Seq(S) /\ Len(f) = n /\ DOMAIN f = 1..n
<1>1. f \in Seq(S)
  BY SeqDef
<1>2. DOMAIN f = 1..n /\ DOMAIN f = 1..Len(f) /\ Len(f) \in Nat
  BY <1>1, LenProperties
<1>3. Len(f) = n
  BY <1>2
<1> QED BY <1>1, <1>2, <1>3

LEMMA EmptySequence ==
  ASSUME NEW S, NEW s \in Seq(S)
  PROVE  s = <<>> <=> Len(s) = 0
<1>1. Len(<<>>) = 0 /\ (s # <<>> => Len(s) \in Nat \ {0})
  BY EmptySeq
<1> QED BY <1>1

\* What FlattenSeq computes, prefix by prefix.
Grows(f, ss) == f[0] = <<>> /\ \A i \in 1..Len(ss) : f[i] = f[i - 1] \o ss[i]

LEMMA Flattening ==
  ASSUME NEW S, NEW ss \in Seq(Seq(S))
  PROVE  \E f \in [Nat -> Seq(S)] : Grows(f, ss) /\ FlattenSeq(ss) = f[Len(ss)]
<1> USE DEF Grows
<1> DEFINE n == Len(ss)
           V == Seq(S)
           e == <<>>
           F == [i \in Nat |-> [s \in V |-> IF i \in 1..n THEN s \o ss[i] ELSE s]]
<1>1. n \in Nat /\ \A i \in 1..n : ss[i] \in V
  BY LenProperties, ElementOfSeq
<1>2. e \in V
  OBVIOUS
<1>3. F \in [Nat -> [V -> V]]
  <2> SUFFICES ASSUME NEW i \in Nat, NEW s \in V
               PROVE  (IF i \in 1..n THEN s \o ss[i] ELSE s) \in V
    OBVIOUS
  <2>1. CASE i \in 1..n
    <3>1. ss[i] \in Seq(S)
      BY <1>1, <2>1
    <3>2. s \o ss[i] \in Seq(S)
      BY <3>1, Concat
    <3> QED BY <2>1, <3>2
  <2> QED BY <2>1
<1>4. PICK f \in [Nat -> V] : f[0] = e /\ \A i \in Nat \ {0} : f[i] = F[i][f[i - 1]]
  <2> HIDE DEF F, V, e
  <2>1. \E f \in [Nat -> V] : Iterates(f, e, F)
    BY <1>2, <1>3, Iteration
  <2> QED BY <2>1 DEF Iterates
<1>5. \A i \in 1..n : f[i] = f[i - 1] \o ss[i]
  <2> SUFFICES ASSUME NEW i \in 1..n PROVE f[i] = f[i - 1] \o ss[i]
    OBVIOUS
  <2>1. i \in Nat \ {0} /\ i - 1 \in Nat /\ f[i - 1] \in V
    BY <1>1, <1>4
  <2>2. F[i][f[i - 1]] = f[i - 1] \o ss[i]
    BY <2>1
  <2> QED BY <1>4, <2>1, <2>2
<1>e. f[0] = <<>>
  BY <1>4
<1> HIDE DEF F, n
<1>6. CASE n = 0
  <2>1. FlattenSeq(ss) = <<>>
    BY <1>6, EmptySeq DEF FlattenSeq, n
  <2> QED BY <1>4, <1>e, <1>5, <1>6, <2>1 DEF n
<1>7. CASE n # 0
  <2> DEFINE E(g) == g = [i \in 1..n |-> IF i = 1 THEN ss[i] ELSE g[i - 1] \o ss[i]]
             g0 == [i \in 1..n |-> f[i]]
             g1 == CHOOSE g : E(g)
  <2>1. E(g0)
    <3> SUFFICES ASSUME NEW i \in 1..n
                 PROVE  f[i] = IF i = 1 THEN ss[i] ELSE g0[i - 1] \o ss[i]
      OBVIOUS
    <3>1. CASE i = 1
      <4>0. 1 \in 1..n /\ 1 - 1 = 0
        BY <1>1, <3>1
      <4>1. f[1] = <<>> \o ss[1]
        BY <1>e, <1>5, <4>0
      <4>2. ss[1] \in Seq(S)
        BY <1>1, <3>1
      <4>3. <<>> \o ss[1] = ss[1]
        BY <4>2, ConcatEmptySeq
      <4> QED BY <3>1, <4>1, <4>3
    <3>2. CASE i # 1
      <4>1. i - 1 \in 1..n
        BY <1>1, <3>2
      <4> QED BY <1>5, <3>2, <4>1
    <3> QED BY <3>1, <3>2
  <2>2. E(g1)
    <3> HIDE DEF E, g0
    <3> QED BY <2>1
  <2>3. FlattenSeq(ss) = g1[n]
    BY <1>7 DEF FlattenSeq, n
  <2> HIDE DEF g1
  <2>4. /\ g1[1] = ss[1]
        /\ \A i \in 2..n : g1[i] = g1[i - 1] \o ss[i]
    <3>0. g1 = [i \in 1..n |-> IF i = 1 THEN ss[i] ELSE g1[i - 1] \o ss[i]]
      BY <2>2
    <3>1. 1 \in 1..n /\ \A i \in 2..n : i \in 1..n /\ i # 1
      BY <1>1, <1>7
    <3> QED BY <3>0, <3>1
  <2> DEFINE T == {i \in Nat : i + 1 \in 1..n => g1[i + 1] = f[i + 1]}
  <2>5. 0 \in T
    <3>1. f[1] = <<>> \o ss[1] /\ ss[1] \in Seq(S)
      <4>1. 1 \in 1..n /\ 1 - 1 = 0
        BY <1>1, <1>7
      <4> QED BY <1>1, <1>e, <1>5, <4>1
    <3>2. <<>> \o ss[1] = ss[1]
      BY <3>1, ConcatEmptySeq
    <3> QED BY <2>4, <3>1, <3>2
  <2>6. ASSUME NEW i \in Nat, i \in T PROVE i + 1 \in T
    <3> SUFFICES ASSUME (i + 1) + 1 \in 1..n PROVE g1[(i + 1) + 1] = f[(i + 1) + 1]
      OBVIOUS
    <3>1. i + 1 \in 1..n /\ (i + 1) + 1 \in 2..n /\ ((i + 1) + 1) - 1 = i + 1
      BY <1>1
    <3>2. g1[i + 1] = f[i + 1]
      BY <2>6, <3>1
    <3>3. g1[(i + 1) + 1] = g1[i + 1] \o ss[(i + 1) + 1]
      BY <2>4, <3>1
    <3>4. f[(i + 1) + 1] = f[i + 1] \o ss[(i + 1) + 1]
      BY <1>5, <3>1
    <3> QED BY <3>2, <3>3, <3>4
  <2>7. n - 1 \in T
    <3> HIDE DEF T
    <3>1. \A i \in Nat : i \in T
      BY <2>5, <2>6, Induction
    <3> QED BY <1>1, <1>7, <3>1
  <2>8. g1[n] = f[n]
    BY <1>1, <1>7, <2>7
  <2> QED BY <1>4, <1>e, <1>5, <2>3, <2>8 DEF n
<1> QED BY <1>6, <1>7

LEMMA FlattenOnly ==
  ASSUME NEW S, NEW ss \in Seq(Seq(S)), NEW f, Grows(f, ss)
  PROVE  /\ FlattenSeq(ss) = f[Len(ss)] /\ FlattenSeq(ss) \in Seq(S)
         /\ \A i \in 0..Len(ss) : f[i] \in Seq(S)
<1>1. PICK g \in [Nat -> Seq(S)] : Grows(g, ss) /\ FlattenSeq(ss) = g[Len(ss)]
  BY Flattening
<1>2. Len(ss) \in Nat
  BY LenProperties
<1> DEFINE T == {i \in Nat : i \in 0..Len(ss) => f[i] = g[i]}
<1>3. 0 \in T
  BY <1>1 DEF Grows
<1>4. ASSUME NEW i \in Nat, i \in T PROVE i + 1 \in T
  <2> SUFFICES ASSUME i + 1 \in 0..Len(ss) PROVE f[i + 1] = g[i + 1]
    OBVIOUS
  <2>1. i + 1 \in 1..Len(ss) /\ i \in 0..Len(ss) /\ (i + 1) - 1 = i
    BY <1>2
  <2>2. f[i] = g[i]
    BY <1>4, <2>1
  <2>3. f[i + 1] = f[i] \o ss[i + 1] /\ g[i + 1] = g[i] \o ss[i + 1]
    BY <1>1, <2>1 DEF Grows
  <2> QED BY <2>2, <2>3
<1>5. \A i \in Nat : i \in T
  <2> HIDE DEF T
  <2> QED BY <1>3, <1>4, Induction
<1>6. \A i \in 0..Len(ss) : f[i] = g[i] /\ i \in Nat /\ g[i] \in Seq(S)
  BY <1>1, <1>2, <1>5
<1>7. Len(ss) \in 0..Len(ss)
  BY <1>2
<1> QED BY <1>1, <1>6, <1>7

LEMMA FlattenEmpty == ASSUME NEW S PROVE FlattenSeq(<<>>) = <<>>
<1>1. Len(<<>>) = 0
  BY EmptySeq
<1> QED BY <1>1 DEF FlattenSeq

LEMMA FlattenOne ==
  ASSUME NEW S, NEW s \in Seq(S)
  PROVE  FlattenSeq(<<s>>) = s
<1> DEFINE ss == <<s>>
           f == [i \in Nat |-> IF i = 0 THEN <<>> ELSE s]
<1>1. ss \in Seq(Seq(S)) /\ Len(ss) = 1 /\ ss[1] = s
  OBVIOUS
<1>2. f[0] = <<>> /\ f[1] = s
  OBVIOUS
<1> HIDE DEF ss, f
<1>3. <<>> \o s = s
  BY ConcatEmptySeq
<1>4. Grows(f, ss)
  <2> SUFFICES ASSUME NEW i \in 1..Len(ss) PROVE f[i] = f[i - 1] \o ss[i]
    BY <1>2 DEF Grows
  <2>1. i = 1 /\ i - 1 = 0
    BY <1>1
  <2> QED BY <1>1, <1>2, <1>3, <2>1
<1>5. FlattenSeq(ss) = f[Len(ss)]
  BY <1>1, <1>4, FlattenOnly
<1> QED BY <1>1, <1>2, <1>5 DEF ss

LEMMA FlattenConcat ==
  ASSUME NEW S, NEW ss \in Seq(Seq(S)), NEW tt \in Seq(Seq(S))
  PROVE  FlattenSeq(ss \o tt) = FlattenSeq(ss) \o FlattenSeq(tt)
<1> DEFINE uu == ss \o tt
           n == Len(ss)
           m == Len(tt)
<1>1. /\ uu \in Seq(Seq(S)) /\ Len(uu) = n + m /\ n \in Nat /\ m \in Nat
      /\ (\A i \in 1..n : uu[i] = ss[i]) /\ (\A i \in 1..m : uu[n + i] = tt[i])
  BY Concat
<1>0. n = Len(ss) /\ m = Len(tt)
  OBVIOUS
<1> HIDE DEF uu, n, m
<1>2. PICK f : f \in [Nat -> Seq(S)] /\ Grows(f, uu) /\ FlattenSeq(uu) = f[Len(uu)]
  BY <1>1, Flattening
<1>3. PICK g : g \in [Nat -> Seq(S)] /\ Grows(g, tt) /\ FlattenSeq(tt) = g[m]
  BY <1>0, Flattening
<1>4. Grows(f, ss)
  <2> SUFFICES ASSUME NEW i \in 1..n PROVE f[i] = f[i - 1] \o ss[i]
    BY <1>0, <1>2 DEF Grows
  <2>1. i \in 1..Len(uu)
    BY <1>1
  <2> QED BY <1>1, <1>2, <2>1 DEF Grows
<1>5. FlattenSeq(ss) = f[n]
  BY <1>0, <1>4, FlattenOnly
<1> DEFINE Both(i) == f[n] \o g[i]
<1>a. \A i \in Nat : f[i] \in Seq(S) /\ g[i] \in Seq(S)
  BY <1>2, <1>3
<1>6. Both(0) = f[n + 0]
  <2>1. n + 0 = n /\ f[n] \in Seq(S) /\ g[0] = <<>>
    BY <1>1, <1>3, <1>a DEF Grows
  <2>2. f[n] \o <<>> = f[n]
    BY <2>1, ConcatEmptySeq
  <2> QED BY <2>1, <2>2
<1>7. ASSUME NEW i \in Nat, i + 1 <= m, f[n + i] = Both(i)
      PROVE  f[n + (i + 1)] = Both(i + 1)
  <2> DEFINE a == f[n]
             b == g[i]
             c == tt[i + 1]
  <2>1. /\ n + (i + 1) \in 1..Len(uu) /\ (n + (i + 1)) - 1 = n + i
        /\ i + 1 \in 1..m /\ (i + 1) - 1 = i
    BY <1>1, <1>7
  <2>2. f[n + (i + 1)] = f[n + i] \o c
    BY <1>1, <1>2, <2>1 DEF Grows
  <2>3. g[i + 1] = b \o c
    BY <1>0, <1>3, <2>1 DEF Grows
  <2>4. f[n + i] = a \o b
    BY <1>7
  <2>5. a \in Seq(S) /\ b \in Seq(S)
    BY <1>1, <1>a
  <2>6. c \in Seq(S)
    BY <1>0, <2>1, ElementOfSeq
  <2>7. Both(i + 1) = a \o g[i + 1]
    OBVIOUS
  <2> HIDE DEF a, b, c, Both
  <2>8. (a \o b) \o c = a \o (b \o c)
    BY <2>5, <2>6, ConcatAssociative, SMTT(40)
  <2> QED BY <2>2, <2>3, <2>4, <2>7, <2>8
<1> HIDE DEF Both
<1> DEFINE T == {i \in Nat : i <= m => f[n + i] = Both(i)}
<1>b. 0 \in T
  BY <1>6
<1>c. ASSUME NEW i \in Nat, i \in T PROVE i + 1 \in T
  <2>1. i + 1 <= m => i <= m
    BY <1>1
  <2> QED BY <1>7, <1>c, <2>1
<1>8. m \in T
  <2> HIDE DEF T
  <2>1. \A i \in Nat : i \in T
    BY <1>b, <1>c, Induction
  <2> QED BY <1>1, <2>1
<1>9. f[n + m] = Both(m)
  BY <1>1, <1>8
<1> QED BY <1>1, <1>2, <1>3, <1>5, <1>9 DEF uu, Both

\* To flatten twice is to flatten what was flattened.
LEMMA FlattenTwice ==
  ASSUME NEW S, NEW sss \in Seq(Seq(Seq(S))),
         NEW tt \in Seq(Seq(S)), Len(tt) = Len(sss),
         \A i \in 1..Len(sss) : tt[i] = FlattenSeq(sss[i])
  PROVE  FlattenSeq(FlattenSeq(sss)) = FlattenSeq(tt)
<1>1. PICK f : f \in [Nat -> Seq(Seq(S))] /\ Grows(f, sss) /\ FlattenSeq(sss) = f[Len(sss)]
  BY Flattening
<1> DEFINE g == [i \in Nat |-> FlattenSeq(f[i])]
<1>2. \A i \in Nat : g[i] = FlattenSeq(f[i])
  OBVIOUS
<1> HIDE DEF g
<1>3. Len(sss) \in Nat
  BY LenProperties
<1>4. g[0] = <<>>
  BY <1>1, <1>2, FlattenEmpty DEF Grows
<1>5. ASSUME NEW i \in 1..Len(tt) PROVE g[i] = g[i - 1] \o tt[i]
  <2>1. i \in 1..Len(sss) /\ i \in Nat /\ i - 1 \in Nat
    BY <1>3
  <2>2. f[i] = f[i - 1] \o sss[i]
    BY <1>1, <2>1 DEF Grows
  <2>3. f[i - 1] \in Seq(Seq(S)) /\ sss[i] \in Seq(Seq(S))
    BY <1>1, <2>1, ElementOfSeq
  <2>4. FlattenSeq(f[i - 1] \o sss[i]) = FlattenSeq(f[i - 1]) \o FlattenSeq(sss[i])
    BY <2>3, FlattenConcat
  <2> QED BY <1>2, <2>1, <2>2, <2>4
<1>6. Grows(g, tt)
  BY <1>4, <1>5 DEF Grows
<1>7. FlattenSeq(tt) = g[Len(tt)]
  BY <1>6, FlattenOnly
<1> QED BY <1>1, <1>2, <1>3, <1>7

\* Where each sequence begins in the one they make.
Begins(P, ss) ==
  /\ P[0] = 0
  /\ \A i \in 1..Len(ss) : P[i] = P[i - 1] + Len(ss[i])
  /\ \A a, b \in 0..Len(ss) : a <= b => P[a] <= P[b]
  /\ Len(FlattenSeq(ss)) = P[Len(ss)]
  /\ \A i \in 1..Len(ss) : \A j \in 1..Len(ss[i]) :
       /\ P[i - 1] + j \in 1..Len(FlattenSeq(ss))
       /\ FlattenSeq(ss)[P[i - 1] + j] = ss[i][j]
  /\ \A p \in 1..Len(FlattenSeq(ss)) : \E i \in 1..Len(ss) : p - P[i - 1] \in 1..Len(ss[i])

LEMMA FlattenBegins ==
  ASSUME NEW S, NEW ss \in Seq(Seq(S))
  PROVE  \E P \in [Nat -> Nat] : Begins(P, ss)
<1> DEFINE n == Len(ss)
<1>n. n = Len(ss)
  OBVIOUS
<1>0. n \in Nat /\ \A i \in 1..n : ss[i] \in Seq(S) /\ Len(ss[i]) \in Nat
  BY LenProperties, ElementOfSeq
<1> HIDE DEF n
<1>1. PICK f : f \in [Nat -> Seq(S)] /\ Grows(f, ss) /\ FlattenSeq(ss) = f[n]
  BY <1>n, Flattening
<1> DEFINE P == [i \in Nat |-> Len(f[i])]
<1>2. \A i \in Nat : P[i] = Len(f[i]) /\ P[i] \in Nat
  BY <1>1, LenProperties
<1>3. P \in [Nat -> Nat]
  BY <1>2
<1> HIDE DEF P
<1>4. P[0] = 0
  BY <1>1, <1>2, EmptySeq DEF Grows
<1>5. ASSUME NEW i \in 1..n
      PROVE  /\ P[i] = P[i - 1] + Len(ss[i]) /\ i \in Nat /\ i - 1 \in Nat
             /\ \A j \in 1..P[i - 1] : f[i][j] = f[i - 1][j]
             /\ \A j \in 1..Len(ss[i]) : f[i][P[i - 1] + j] = ss[i][j]
  <2>1. i \in Nat /\ i - 1 \in Nat
    BY <1>0
  <2> DEFINE a == f[i - 1]
             b == ss[i]
             c == f[i]
  <2>2. c = a \o b
    BY <1>n, <1>1 DEF Grows
  <2>3. a \in Seq(S) /\ b \in Seq(S)
    BY <1>0, <1>1, <2>1
  <2>p. P[i - 1] = Len(a) /\ P[i] = Len(c)
    BY <1>2, <2>1
  <2> HIDE DEF a, b, c
  <2>4. /\ Len(c) = Len(a) + Len(b)
        /\ \A j \in 1..Len(a) : c[j] = a[j]
        /\ \A j \in 1..Len(b) : c[Len(a) + j] = b[j]
    BY <2>2, <2>3, Concat
  <2> QED BY <2>1, <2>p, <2>4 DEF a, b, c
<1> DEFINE T == {k \in Nat : k <= n =>
                   /\ \A a \in 0..k : P[a] <= P[k]
                   /\ \A a \in 0..k : \A j \in 1..P[a] : f[k][j] = f[a][j]
                   /\ \A p \in 1..P[k] : \E i \in 1..k : p - P[i - 1] \in 1..Len(ss[i])}
<1>6. 0 \in T
  BY <1>4
<1>7. ASSUME NEW k \in Nat, k \in T PROVE k + 1 \in T
  <2> SUFFICES ASSUME k + 1 <= n
               PROVE  /\ \A a \in 0..k + 1 : P[a] <= P[k + 1]
                      /\ \A a \in 0..k + 1 : \A j \in 1..P[a] : f[k + 1][j] = f[a][j]
                      /\ \A p \in 1..P[k + 1] : \E i \in 1..k + 1 : p - P[i - 1] \in 1..Len(ss[i])
    OBVIOUS
  <2>0. /\ k <= n /\ k + 1 \in 1..n /\ (k + 1) - 1 = k
        /\ \A a \in 0..k + 1 : a \in Nat /\ (a \in 0..k \/ a = k + 1)
    BY <1>0
  <2>1. /\ \A a \in 0..k : P[a] <= P[k]
        /\ \A a \in 0..k : \A j \in 1..P[a] : f[k][j] = f[a][j]
        /\ \A p \in 1..P[k] : \E i \in 1..k : p - P[i - 1] \in 1..Len(ss[i])
    BY <1>7, <2>0
  <2>2. /\ P[k + 1] = P[k] + Len(ss[k + 1])
        /\ \A j \in 1..P[k] : f[k + 1][j] = f[k][j]
    BY <1>5, <2>0
  <2>3. P[k] \in Nat /\ Len(ss[k + 1]) \in Nat /\ P[k + 1] \in Nat
    BY <1>0, <1>2, <2>0
  <2>4. ASSUME NEW a \in 0..k + 1 PROVE P[a] <= P[k + 1]
    <3>1. P[a] \in Nat
      BY <1>2, <2>0
    <3> QED BY <2>0, <2>1, <2>2, <2>3, <3>1, SMTT(40)
  <2>5. ASSUME NEW a \in 0..k + 1, NEW j \in 1..P[a] PROVE f[k + 1][j] = f[a][j]
    <3>1. CASE a \in 0..k
      <4>1. P[a] \in Nat /\ P[a] <= P[k]
        BY <1>2, <2>0, <2>1, <3>1
      <4>2. j \in 1..P[k]
        BY <2>3, <4>1
      <4> QED BY <2>1, <2>2, <3>1, <4>2
    <3>2. CASE a = k + 1
      BY <3>2
    <3> QED BY <2>0, <3>1, <3>2
  <2>6. ASSUME NEW p \in 1..P[k + 1] PROVE \E i \in 1..k + 1 : p - P[i - 1] \in 1..Len(ss[i])
    <3>1. CASE p \in 1..P[k]
      <4>1. PICK i \in 1..k : p - P[i - 1] \in 1..Len(ss[i])
        BY <2>1, <3>1
      <4>2. i \in 1..k + 1
        OBVIOUS
      <4> QED BY <4>1, <4>2
    <3>2. CASE p \notin 1..P[k]
      <4>1. p - P[k] \in 1..Len(ss[k + 1])
        BY <2>2, <2>3, <3>2
      <4>2. k + 1 \in 1..k + 1
        OBVIOUS
      <4> QED BY <2>0, <4>1, <4>2
    <3> QED BY <3>1, <3>2
  <2> QED BY <2>4, <2>5, <2>6
<1>8. \A k \in Nat : k \in T
  <2> HIDE DEF T
  <2> QED BY <1>6, <1>7, Induction
<1>9. Len(FlattenSeq(ss)) = P[n]
  BY <1>0, <1>1, <1>2
<1>10. ASSUME NEW i \in 1..n, NEW j \in 1..Len(ss[i])
       PROVE  P[i - 1] + j \in 1..P[n] /\ f[n][P[i - 1] + j] = ss[i][j]
  <2>1. /\ P[i] = P[i - 1] + Len(ss[i]) /\ i \in 0..n /\ i - 1 \in Nat
        /\ f[i][P[i - 1] + j] = ss[i][j]
    BY <1>0, <1>5, SMTT(40)
  <2>2. P[i - 1] \in Nat /\ Len(ss[i]) \in Nat /\ P[i] \in Nat /\ P[n] \in Nat
    BY <1>0, <1>2, <2>1
  <2>3. P[i] <= P[n] /\ \A l \in 1..P[i] : f[n][l] = f[i][l]
    BY <1>0, <1>8, <2>1
  <2>4. P[i - 1] + j \in 1..P[i] /\ P[i - 1] + j \in 1..P[n]
    <3> DEFINE a == P[i - 1]
               b == Len(ss[i])
               c == P[i]
               d == P[n]
    <3>1. a \in Nat /\ b \in Nat /\ c \in Nat /\ d \in Nat
      BY <2>2
    <3>2. c = a + b
      BY <2>1
    <3>3. c <= d
      BY <2>3
    <3>4. j \in 1..b
      OBVIOUS
    <3> HIDE DEF a, b, c, d
    <3>5. a + j \in 1..c /\ a + j \in 1..d
      BY <3>1, <3>2, <3>3, <3>4
    <3> QED BY <3>5 DEF a, c, d
  <2> QED BY <2>1, <2>3, <2>4
<1>11. ASSUME NEW a \in 0..n, NEW b \in 0..n, a <= b PROVE P[a] <= P[b]
  <2>1. b \in Nat /\ b <= n /\ a \in 0..b
    BY <1>0, <1>11
  <2> QED BY <1>8, <2>1
<1>12. \A p \in 1..P[n] : \E i \in 1..n : p - P[i - 1] \in 1..Len(ss[i])
  <2>1. n \in T /\ n <= n
    BY <1>0, <1>8
  <2> QED BY <2>1
<1>13. Begins(P, ss)
  BY <1>n, <1>1, <1>4, <1>5, <1>9, <1>10, <1>11, <1>12 DEF Begins
<1> QED BY <1>3, <1>13

-----------------------------------------------------------------------------
(* Numbers                                                                     *)

ByteSym == [b : Octet]
Bases == {128, 256}

\* ending[k] is the number that the last k bytes of s make.
Above(x, c, base) == (c.b % base) + base * x
Ends(e, s, base) ==
  e[0] = 0 /\ \A k \in 1..Len(s) : e[k] = Above(e[k - 1], s[Len(s) - k + 1], base)

LEMMA Digits ==
  ASSUME NEW s \in Seq(ByteSym), NEW base \in Bases
  PROVE  /\ \E e \in [Nat -> Nat] : Ends(e, s, base)
         /\ \A e : Ends(e, s, base) => FromDigits(s, base) = e[Len(s)]
<1> DEFINE n == Len(s)
           G(k, x) == Above(x, s[n - k + 1], base)
           F == [k \in Nat |-> [x \in Nat |-> IF k \in 1..n THEN G(k, x) ELSE x]]
<1>n. n = Len(s) /\ n \in Nat
  BY LenProperties
<1>1. \A k \in 1..n : s[n - k + 1].b \in Octet
  <2> SUFFICES ASSUME NEW k \in 1..n PROVE s[n - k + 1].b \in Octet
    OBVIOUS
  <2>1. n - k + 1 \in 1..Len(s)
    BY <1>n
  <2>2. s[n - k + 1] \in ByteSym
    BY <2>1, ElementOfSeq
  <2> QED BY <2>2 DEF ByteSym
<1>G. \A e : Ends(e, s, base) <=> e[0] = 0 /\ \A k \in 1..n : e[k] = G(k, e[k - 1])
  BY DEF Ends
<1> HIDE DEF n
<1>2. ASSUME NEW k \in 1..n, NEW x \in Nat PROVE G(k, x) \in Nat
  <2> DEFINE c == s[n - k + 1].b
  <2>1. c \in 0..255
    BY <1>1 DEF Octet
  <2>2. G(k, x) = (c % base) + base * x
    BY DEF Above
  <2> HIDE DEF c, G
  <2>3. CASE base = 128
    BY <2>1, <2>2, <2>3
  <2>4. CASE base = 256
    BY <2>1, <2>2, <2>4
  <2> QED BY <2>3, <2>4 DEF Bases
<1>g. FromDigits(s, base) =
        (CHOOSE g : g = [k \in 0..n |-> IF k = 0 THEN 0 ELSE G(k, g[k - 1])])[n]
  BY <1>n DEF FromDigits, Above
<1> HIDE DEF G
<1>3. F \in [Nat -> [Nat -> Nat]]
  BY <1>2
<1>4. PICK f \in [Nat -> Nat] : Iterates(f, 0, F)
  <2> HIDE DEF F
  <2>1. 0 \in Nat
    OBVIOUS
  <2> QED BY <1>3, <2>1, Iteration
<1>5. f[0] = 0 /\ \A k \in 1..n : f[k] = G(k, f[k - 1])
  <2> SUFFICES ASSUME NEW k \in 1..n PROVE f[k] = G(k, f[k - 1])
    BY <1>4 DEF Iterates
  <2>1. k \in Nat \ {0} /\ k - 1 \in Nat /\ f[k - 1] \in Nat
    BY <1>n, <1>4, SMTT(40)
  <2>2. f[k] = F[k][f[k - 1]]
    BY <1>4, <2>1 DEF Iterates
  <2> QED BY <2>1, <2>2
<1> DEFINE Eq(g) == g = [k \in 0..n |-> IF k = 0 THEN 0 ELSE G(k, g[k - 1])]
           g0 == [k \in 0..n |-> f[k]]
           g1 == CHOOSE g : Eq(g)
<1>6. Eq(g0)
  <2> SUFFICES ASSUME NEW k \in 0..n
               PROVE  f[k] = IF k = 0 THEN 0 ELSE G(k, g0[k - 1])
    OBVIOUS
  <2>1. CASE k = 0
    BY <1>5, <2>1
  <2>2. CASE k # 0
    <3>1. k \in 1..n /\ k - 1 \in 0..n
      BY <1>n, <2>2
    <3> QED BY <1>5, <2>2, <3>1
  <2> QED BY <2>1, <2>2
<1>7. Eq(g1)
  <2> HIDE DEF Eq, g0
  <2> QED BY <1>6
<1>8. FromDigits(s, base) = g1[n]
  BY <1>g
<1> HIDE DEF g1
<1>9. ASSUME NEW e, Ends(e, s, base) PROVE FromDigits(s, base) = e[Len(s)]
  <2>0. e[0] = 0 /\ \A k \in 1..n : e[k] = G(k, e[k - 1])
    BY <1>9, <1>G
  <2>1. g1[0] = e[0]
    <3>1. 0 \in 0..n
      BY <1>n
    <3> QED BY <1>7, <2>0, <3>1
  <2>2. ASSUME NEW k \in Nat, k + 1 <= n, g1[k] = e[k] PROVE g1[k + 1] = e[k + 1]
    <3>0. n \in Nat /\ k + 1 <= n /\ g1[k] = e[k]
      BY <1>n, <2>2
    <3>1. k + 1 \in 1..n /\ k + 1 \in 0..n /\ k + 1 # 0 /\ (k + 1) - 1 = k
      BY <3>0
    <3>2. g1[k] = e[k]
      BY <3>0
    <3>3. g1[k + 1] = G(k + 1, g1[k])
      <4>1. g1[k + 1] = IF k + 1 = 0 THEN 0 ELSE G(k + 1, g1[(k + 1) - 1])
        BY <1>7, <3>1
      <4> QED BY <3>1, <4>1
    <3>4. e[k + 1] = G(k + 1, e[k])
      BY <2>0, <3>1
    <3> QED BY <3>2, <3>3, <3>4
  <2> DEFINE T == {k \in Nat : k <= n => g1[k] = e[k]}
  <2>3. 0 \in T
    BY <2>1
  <2>4. ASSUME NEW k \in Nat, k \in T PROVE k + 1 \in T
    <3> HIDE DEF Eq, F, g0
    <3>1. k + 1 \in Nat
      OBVIOUS
    <3>2. ASSUME k + 1 <= n PROVE g1[k + 1] = e[k + 1]
      <4>1. k <= n
        BY <1>n, <3>2
      <4>2. g1[k] = e[k]
        BY <2>4, <4>1
      <4> QED BY <2>2, <3>2, <4>2
    <3> QED BY <3>1, <3>2
  <2>5. n \in T
    <3> HIDE DEF T
    <3>1. \A k \in Nat : k \in T
      BY <2>3, <2>4, Induction
    <3> QED BY <1>n, <3>1
  <2> QED BY <1>n, <1>8, <2>5
<1>10. Ends(f, s, base)
  BY <1>5, <1>G
<1> QED BY <1>9, <1>10

LEMMA DigitsOfNone ==
  ASSUME NEW base \in Bases
  PROVE  FromDigits(<<>>, base) = 0
<1>1. <<>> \in Seq(ByteSym) /\ Len(<<>>) = 0
  BY EmptySeq
<1>2. PICK e : Ends(e, <<>>, base)
  BY <1>1, Digits
<1> QED BY <1>1, <1>2, Digits DEF Ends

LEMMA DigitsOfMore ==
  ASSUME NEW s \in Seq(ByteSym), NEW x \in ByteSym, NEW base \in Bases
  PROVE  /\ FromDigits(s, base) \in Nat
         /\ FromDigits(<<x>> \o s, base) = (x.b % base) + base * FromDigits(s, base)
<1> DEFINE t == <<x>> \o s
           n == Len(s)
<1>1. /\ t \in Seq(ByteSym) /\ Len(t) = n + 1 /\ t[1] = x
      /\ \A i \in 1..n : t[i + 1] = s[i]
  BY ConsFacts
<1>2. n = Len(s) /\ n \in Nat
  BY LenProperties
<1>t. t = <<x>> \o s
  OBVIOUS
<1> HIDE DEF t, n
<1>3. PICK e \in [Nat -> Nat] : Ends(e, t, base)
  BY <1>1, Digits
<1>e. \A k \in 1..n + 1 : e[k] = Above(e[k - 1], t[n + 1 - k + 1], base)
  <2>1. \A k \in 1..Len(t) : e[k] = Above(e[k - 1], t[Len(t) - k + 1], base)
    BY <1>3 DEF Ends
  <2> QED BY <1>1, <1>2, <2>1
<1>4. Ends(e, s, base)
  <2> SUFFICES ASSUME NEW k \in 1..n
               PROVE  e[k] = Above(e[k - 1], s[n - k + 1], base)
    BY <1>2, <1>3 DEF Ends
  <2>1. k \in 1..n + 1 /\ n - k + 1 \in 1..n /\ n + 1 - k + 1 = (n - k + 1) + 1
    BY <1>2
  <2> DEFINE j == n - k + 1
  <2>a. j \in 1..n /\ n + 1 - k + 1 = j + 1
    BY <2>1
  <2> HIDE DEF j
  <2>b. t[j + 1] = s[j]
    BY <1>1, <2>a
  <2>2. t[n + 1 - k + 1] = s[n - k + 1]
    BY <2>a, <2>b DEF j
  <2>3. e[k] = Above(e[k - 1], t[n + 1 - k + 1], base)
    BY <1>e, <2>1
  <2> QED BY <2>2, <2>3
<1>5. FromDigits(s, base) = e[n] /\ FromDigits(t, base) = e[n + 1]
  BY <1>1, <1>2, <1>3, <1>4, Digits
<1>6. e[n + 1] = Above(e[n], x, base)
  <2>1. n + 1 \in 1..n + 1 /\ n + 1 - (n + 1) + 1 = 1 /\ (n + 1) - 1 = n
    BY <1>2
  <2> QED BY <1>1, <1>e, <2>1
<1> QED BY <1>2, <1>3, <1>5, <1>6, <1>t DEF Above

LEMMA StrongInduction ==
  ASSUME NEW T, \A n \in Nat : (\A m \in 0..n - 1 : m \in T) => n \in T
  PROVE  \A n \in Nat : n \in T
<1> SUFFICES ASSUME Nat \ T # {} PROVE FALSE
  OBVIOUS
<1>1. PICK n \in Nat \ T : \A m \in Nat \ T : n <= m
  BY Least
<1>2. \A m \in 0..n - 1 : m \in T
  BY <1>1
<1> QED BY <1>1, <1>2

LEMMA OctetsFacts ==
  ASSUME NEW s \in Seq(Octet)
  PROVE  /\ Octets(s) \in Seq(ByteSym) /\ Len(Octets(s)) = Len(s)
         /\ \A i \in 1..Len(s) : Octets(s)[i] = [b |-> s[i]] /\ s[i] \in Octet
<1> DEFINE t == Octets(s)
           n == Len(s)
<1>1. n \in Nat /\ DOMAIN s = 1..n /\ \A i \in 1..n : s[i] \in Octet
  BY LenProperties, ElementOfSeq
<1>2. t = [i \in 1..n |-> [b |-> s[i]]]
  BY <1>1 DEF Octets
<1>n. n = Len(s)
  OBVIOUS
<1> HIDE DEF n, t
<1>3. t \in [1..n -> ByteSym]
  BY <1>1, <1>2 DEF ByteSym
<1>4. t \in Seq(ByteSym) /\ Len(t) = n
  BY <1>1, <1>3, FunctionIsSeq
<1>5. \A i \in 1..n : t[i] = [b |-> s[i]] /\ s[i] \in Octet
  BY <1>1, <1>2
<1> QED BY <1>n, <1>4, <1>5 DEF t

LEMMA OctetsConcat ==
  ASSUME NEW s \in Seq(Octet), NEW t \in Seq(Octet)
  PROVE  Octets(s \o t) = Octets(s) \o Octets(t)
<1> DEFINE u == s \o t
           a == Octets(s)
           b == Octets(t)
           c == Octets(u)
           n == Len(s)
           m == Len(t)
<1>1. /\ u \in Seq(Octet) /\ Len(u) = n + m /\ n \in Nat /\ m \in Nat
      /\ (\A i \in 1..n : u[i] = s[i]) /\ (\A i \in 1..m : u[n + i] = t[i])
  BY Concat
<1>2. a \in Seq(ByteSym) /\ Len(a) = n /\ \A i \in 1..n : a[i] = [b |-> s[i]]
  BY OctetsFacts
<1>3. b \in Seq(ByteSym) /\ Len(b) = m /\ \A i \in 1..m : b[i] = [b |-> t[i]]
  BY OctetsFacts
<1> HIDE DEF u
<1>4. c \in Seq(ByteSym) /\ Len(c) = Len(u) /\ \A i \in 1..Len(u) : c[i] = [b |-> u[i]]
  BY <1>1, OctetsFacts
<1> HIDE DEF a, b, c, n, m
<1> DEFINE d == a \o b
<1>5. /\ d \in Seq(ByteSym) /\ Len(d) = Len(a) + Len(b)
      /\ (\A i \in 1..Len(a) : d[i] = a[i])
      /\ (\A i \in 1..Len(b) : d[Len(a) + i] = b[i])
  <2>1. a \in Seq(ByteSym) /\ b \in Seq(ByteSym)
    BY <1>2, <1>3
  <2> QED BY <2>1, Concat
<1> HIDE DEF d
<1>d. /\ d \in Seq(ByteSym) /\ Len(d) = n + m
      /\ (\A i \in 1..n : d[i] = a[i]) /\ (\A i \in 1..m : d[n + i] = b[i])
  <2>1. Len(a) = n /\ Len(b) = m
    BY <1>2, <1>3
  <2> DEFINE N == Len(a)
             M == Len(b)
  <2>2. /\ d \in Seq(ByteSym) /\ Len(d) = N + M
        /\ (\A i \in 1..N : d[i] = a[i]) /\ (\A i \in 1..M : d[N + i] = b[i])
    BY <1>5
  <2>3. N = n /\ M = m
    BY <2>1
  <2> HIDE DEF N, M
  <2> QED BY <2>2, <2>3
<1>6. \A i \in 1..n + m : c[i] = d[i]
  <2> SUFFICES ASSUME NEW i \in 1..n + m PROVE c[i] = d[i]
    OBVIOUS
  <2>0. c[i] = [b |-> u[i]]
    BY <1>1, <1>4
  <2>1. CASE i \in 1..n
    BY <1>1, <1>2, <1>d, <2>0, <2>1
  <2>2. CASE i \notin 1..n
    <3> DEFINE j == i - n
    <3>1. j \in 1..m /\ i = n + j
      BY <1>1, <2>2
    <3> HIDE DEF j
    <3>2. u[n + j] = t[j] /\ d[n + j] = b[j] /\ b[j] = [b |-> t[j]]
      BY <1>1, <1>3, <1>d, <3>1
    <3> QED BY <2>0, <3>1, <3>2
  <2> QED BY <2>1, <2>2
<1>7. c = d
  BY <1>1, <1>4, <1>6, <1>d, SeqEqual
<1> QED BY <1>7 DEF a, b, c, d, u

LEMMA PrefixOfCons ==
  ASSUME NEW S, NEW x \in S, NEW s \in Seq(S), NEW m \in 0..Len(s)
  PROVE  SubSeq(<<x>> \o s, 1, m + 1) = <<x>> \o SubSeq(s, 1, m)
<1> DEFINE t == <<x>> \o s
           p == SubSeq(s, 1, m)
           q == SubSeq(t, 1, m + 1)
           r == <<x>> \o p
           n == Len(s)
<1>n. n = Len(s) /\ n \in Nat
  BY LenProperties
<1>1. t \in Seq(S) /\ Len(t) = n + 1 /\ t[1] = x /\ \A i \in 1..n : t[i + 1] = s[i]
  BY ConsFacts
<1>2. p \in Seq(S) /\ Len(p) = m /\ \A i \in 1..m : p[i] = s[i]
  BY FirstOnes
<1> HIDE DEF t, p
<1>3. r \in Seq(S) /\ Len(r) = m + 1 /\ r[1] = x /\ \A i \in 1..m : r[i + 1] = p[i]
  BY <1>2, ConsFacts
<1>m. m \in 0..n /\ m + 1 \in 0..Len(t)
  BY <1>n, <1>1
<1> HIDE DEF n, r
<1>4. q \in Seq(S) /\ Len(q) = m + 1 /\ \A i \in 1..m + 1 : q[i] = t[i]
  BY <1>1, <1>m, FirstOnes
<1> HIDE DEF q
<1>5. \A i \in 1..m + 1 : q[i] = r[i]
  <2> SUFFICES ASSUME NEW i \in 1..m + 1 PROVE q[i] = r[i]
    OBVIOUS
  <2>0. q[i] = t[i]
    BY <1>4
  <2>1. CASE i = 1
    BY <1>1, <1>3, <2>0, <2>1
  <2>2. CASE i # 1
    <3> DEFINE j == i - 1
    <3>1. j \in 1..m /\ j \in 1..n /\ i = j + 1
      BY <1>n, <1>m, <2>2
    <3> HIDE DEF j
    <3> QED BY <1>1, <1>2, <1>3, <2>0, <3>1
  <2> QED BY <2>1, <2>2
<1>6. q = r
  BY <1>3, <1>4, <1>5, SeqEqual
<1> QED BY <1>6 DEF q, r, p, t

\* The bytes s of a count n: all but the last have the high bit, and what comes
\* of fewer of them is a smaller number, if it is not the same.
IsVarint(s, n) ==
  /\ s \in Seq(ByteSym) /\ Len(s) \in Nat \ {0}
  /\ s[Len(s)].b < 128 /\ \A i \in 1..Len(s) - 1 : s[i].b >= 128
  /\ Unleb128(s) = n
  /\ \A m \in 0..Len(s) : Unleb128(SubSeq(s, 1, m)) \in 0..n

LEMMA VarintOfOne ==
  ASSUME NEW n \in 0..63
  PROVE  IsVarint(<<[b |-> n]>>, n)
<1> DEFINE x == [b |-> n]
           s == <<x>>
<1>1. x \in ByteSym /\ x.b = n
  BY DEF ByteSym, Octet
<1> HIDE DEF x
<1>2. s \in Seq(ByteSym) /\ Len(s) = 1 /\ s[1] = x
  BY <1>1
<1>3. s = <<x>> \o <<>>
  OBVIOUS
<1>4. <<>> \in Seq(ByteSym) /\ 128 \in Bases
  BY DEF Bases
<1>5. FromDigits(<<>>, 128) = 0
  BY <1>4, DigitsOfNone
<1>6. FromDigits(<<x>> \o <<>>, 128) = (x.b % 128) + 128 * FromDigits(<<>>, 128)
  BY <1>1, <1>4, DigitsOfMore, ZenonT(60)
<1>7. Unleb128(s) = n
  BY <1>1, <1>3, <1>5, <1>6 DEF Unleb128
<1>8. SubSeq(s, 1, 1) = s
  BY <1>2, SubSeqFull
<1>9. SubSeq(s, 1, 0) = <<>>
  BY SubSeqEmpty
<1> HIDE DEF s
<1>a. Unleb128(SubSeq(s, 1, 0)) = 0
  BY <1>5, <1>9 DEF Unleb128
<1>10. ASSUME NEW m \in 0..1 PROVE Unleb128(SubSeq(s, 1, m)) \in 0..n
  <2>1. CASE m = 0
    <3>1. 0 \in 0..n
      OBVIOUS
    <3> QED BY <1>a, <2>1, <3>1
  <2>2. CASE m = 1
    <3>1. n \in 0..n
      OBVIOUS
    <3> QED BY <1>7, <1>8, <2>2, <3>1
  <2> QED BY <2>1, <2>2
<1>11. s[Len(s)].b < 128 /\ \A i \in 1..Len(s) - 1 : s[i].b >= 128
  BY <1>1, <1>2
<1>12. IsVarint(s, n)
  BY <1>2, <1>7, <1>10, <1>11 DEF IsVarint
<1> QED BY <1>12 DEF s, x

LEMMA VarintOfMore ==
  ASSUME NEW n \in Nat, NEW s, IsVarint(s, n \div 128), NEW x \in ByteSym,
         x.b = (n % 128) + 128
  PROVE  IsVarint(<<x>> \o s, n)
<1> DEFINE t == <<x>> \o s
           k == n \div 128
           l == Len(s)
           r == n % 128
           y == x.b
<1>0. k \in Nat /\ n = r + 128 * k /\ r \in 0..127 /\ y % 128 = r /\ y >= 128
  OBVIOUS
<1>1. /\ s \in Seq(ByteSym) /\ l \in Nat \ {0}
      /\ s[l].b < 128 /\ \A i \in 1..l - 1 : s[i].b >= 128
      /\ Unleb128(s) = k
      /\ \A m \in 0..l : Unleb128(SubSeq(s, 1, m)) \in 0..k
  BY DEF IsVarint
<1>l. l = Len(s)
  OBVIOUS
<1> HIDE DEF k, r
<1>2. /\ t \in Seq(ByteSym) /\ Len(t) = l + 1 /\ t[1] = x
      /\ \A i \in 1..l : t[i + 1] = s[i]
  BY <1>1, ConsFacts
<1>b. 128 \in Bases
  BY DEF Bases
<1>3. ASSUME NEW u \in Seq(ByteSym)
      PROVE  Unleb128(u) \in Nat /\ Unleb128(<<x>> \o u) = r + 128 * Unleb128(u)
  <2>1. /\ FromDigits(u, 128) \in Nat
        /\ FromDigits(<<x>> \o u, 128) = (x.b % 128) + 128 * FromDigits(u, 128)
    BY <1>b, DigitsOfMore, SMTT(40)
  <2> QED BY <1>0, <2>1 DEF Unleb128
<1>4. Unleb128(t) = n
  BY <1>0, <1>1, <1>3, ZenonT(60)
<1>t. t = <<x>> \o s
  OBVIOUS
<1> HIDE DEF t, l
<1>5. ASSUME NEW m \in 0..l + 1 PROVE Unleb128(SubSeq(t, 1, m)) \in 0..n
  <2>1. CASE m = 0
    <3>1. SubSeq(t, 1, 0) = <<>>
      BY SubSeqEmpty
    <3>2. Unleb128(<<>>) = 0
      BY <1>b, DigitsOfNone DEF Unleb128
    <3>3. 0 \in 0..n
      OBVIOUS
    <3> QED BY <2>1, <3>1, <3>2, <3>3
  <2>2. CASE m # 0
    <3> DEFINE j == m - 1
               u == SubSeq(s, 1, j)
    <3>1. j \in 0..l /\ m = j + 1
      BY <1>1, <2>2
    <3> HIDE DEF j
    <3>2. SubSeq(t, 1, j + 1) = <<x>> \o u
      BY <1>1, <1>l, <1>t, <3>1, PrefixOfCons
    <3>3. u \in Seq(ByteSym) /\ Unleb128(u) \in 0..k
      BY <1>1, <1>l, <3>1, FirstOnes
    <3> HIDE DEF u
    <3> DEFINE v == Unleb128(u)
    <3>4. Unleb128(<<x>> \o u) = r + 128 * v
      BY <1>3, <3>3
    <3>5. v \in 0..k
      BY <3>3
    <3> HIDE DEF v
    <3>6. r + 128 * v \in 0..n
      BY <1>0, <3>5
    <3> QED BY <3>1, <3>2, <3>4, <3>6
  <2> QED BY <2>1, <2>2
<1>6. t[Len(t)].b < 128
  <2>1. l \in 1..l
    BY <1>1
  <2> QED BY <1>1, <1>2, <2>1
<1>7. \A i \in 1..Len(t) - 1 : t[i].b >= 128
  <2> SUFFICES ASSUME NEW i \in 1..l PROVE t[i].b >= 128
    BY <1>1, <1>2
  <2>1. CASE i = 1
    BY <1>0, <1>2, <2>1
  <2>2. CASE i # 1
    <3> DEFINE j == i - 1
    <3>1. j \in 1..l - 1 /\ j \in 1..l /\ i = j + 1
      BY <1>1, <2>2
    <3> HIDE DEF j
    <3> QED BY <1>1, <1>2, <3>1
  <2> QED BY <2>1, <2>2
<1>8. IsVarint(t, n)
  BY <1>1, <1>2, <1>4, <1>5, <1>6, <1>7 DEF IsVarint
<1> QED BY <1>8, <1>t

LEMMA Leb128Recursion ==
  ASSUME NEW n \in Nat
  PROVE  Leb128[n] = IF n < 64 THEN <<n>> ELSE <<(n % 128) + 128>> \o Leb128[n \div 128]
<1> DEFINE V == Seq(Octet)
           Z == 0..63
           B == [k \in Nat |-> IF k < 64 THEN <<k>> ELSE <<>>]
           d == [k \in Nat |-> k \div 128]
           G(k, s) == <<(k % 128) + 128>> \o s
           F == [k \in Nat |-> [s \in V |-> G(k, s)]]
           Eq(g) == g = [k \in Nat |-> IF k < 64 THEN <<k>> ELSE G(k, g[k \div 128])]
<1>1. Z \in SUBSET Nat /\ d \in [Nat -> Nat] /\ Descends(d, Z)
  BY DEF Descends
<1>2. B \in [Nat -> V]
  <2> SUFFICES ASSUME NEW k \in Nat PROVE (IF k < 64 THEN <<k>> ELSE <<>>) \in V
    OBVIOUS
  <2>1. k < 64 => k \in Octet
    BY DEF Octet
  <2> QED BY <2>1
<1>3. F \in [Nat -> [V -> V]]
  <2> SUFFICES ASSUME NEW k \in Nat, NEW s \in V PROVE G(k, s) \in V
    OBVIOUS
  <2>1. (k % 128) + 128 \in Octet
    BY DEF Octet
  <2> QED BY <2>1, ConsFacts
<1>4. PICK f : f \in [Nat -> V] /\ Recurs(f, Z, B, d, F)
  <2> HIDE DEF V, Z, B, d, F
  <2> QED BY <1>1, <1>2, <1>3, Recursion
<1>5. Eq(f)
  <2>0. DOMAIN f = Nat /\ f = [k \in Nat |-> f[k]]
    BY <1>4
  <2>1. ASSUME NEW k \in Nat PROVE f[k] = IF k < 64 THEN <<k>> ELSE G(k, f[k \div 128])
    <3>1. f[k] = IF k \in Z THEN B[k] ELSE F[k][f[d[k]]]
      BY <1>4 DEF Recurs
    <3>2. k \div 128 \in Nat /\ d[k] = k \div 128
      OBVIOUS
    <3>3. F[k][f[d[k]]] = G(k, f[k \div 128])
      <4>1. f[k \div 128] \in V
        BY <1>4, <3>2
      <4> HIDE DEF G
      <4> QED BY <3>2, <4>1
    <3>4. k \in Z <=> k < 64
      OBVIOUS
    <3> HIDE DEF G, F, d, Z
    <3> QED BY <3>1, <3>3, <3>4
  <2> HIDE DEF G
  <2> QED BY <2>0, <2>1
<1>6. Leb128 = CHOOSE g : Eq(g)
  BY DEF Leb128
<1>7. Eq(Leb128)
  <2> HIDE DEF Eq
  <2> QED BY <1>5, <1>6
<1> QED BY <1>7

LEMMA Leb128Facts ==
  ASSUME NEW n \in Nat
  PROVE  Leb128[n] \in Seq(Octet) /\ IsVarint(Octets(Leb128[n]), n)
<1> DEFINE Good(k) == Leb128[k] \in Seq(Octet) /\ IsVarint(Octets(Leb128[k]), k)
           T == {k \in Nat : Good(k)}
<1>1. ASSUME NEW k \in Nat, \A m \in 0..k - 1 : m \in T PROVE Good(k)
  <2>1. CASE k < 64
    <3>1. Leb128[k] = <<k>>
      BY <2>1, Leb128Recursion
    <3>2. k \in Octet /\ <<k>> \in Seq(Octet)
      BY <2>1 DEF Octet
    <3>3. Octets(<<k>>) = <<[b |-> k]>>
      BY DEF Octets
    <3>4. IsVarint(<<[b |-> k]>>, k)
      <4>1. k \in 0..63
        BY <2>1
      <4> QED BY <4>1, VarintOfOne
    <3> QED BY <3>1, <3>2, <3>3, <3>4
  <2>2. CASE ~(k < 64)
    <3> DEFINE l == Leb128[k \div 128]
               c == (k % 128) + 128
    <3>1. Leb128[k] = <<c>> \o l
      BY <2>2, Leb128Recursion
    <3>2. k \div 128 \in 0..k - 1
      BY <2>2
    <3>3. l \in Seq(Octet) /\ IsVarint(Octets(l), k \div 128)
      BY <1>1, <3>2
    <3>4. c \in Octet /\ c = (k % 128) + 128
      BY DEF Octet
    <3> HIDE DEF l, c
    <3>5. <<c>> \in Seq(Octet) /\ <<c>> \o l \in Seq(Octet)
      BY <3>3, <3>4, ConsFacts
    <3>6. Octets(<<c>> \o l) = Octets(<<c>>) \o Octets(l)
      BY <3>3, <3>5, OctetsConcat
    <3>7. Octets(<<c>>) = <<[b |-> c]>>
      BY DEF Octets
    <3> DEFINE x == [b |-> c]
    <3>8. x \in ByteSym /\ x.b = (k % 128) + 128
      BY <3>4 DEF ByteSym
    <3> HIDE DEF x
    <3>9. IsVarint(<<x>> \o Octets(l), k)
      BY <3>3, <3>8, VarintOfMore
    <3> QED BY <3>1, <3>5, <3>6, <3>7, <3>9 DEF x
  <2> QED BY <2>1, <2>2
<1> HIDE DEF Good
<1>2. \A k \in Nat : k \in T
  <2>1. \A k \in Nat : (\A m \in 0..k - 1 : m \in T) => k \in T
    BY <1>1
  <2> HIDE DEF T
  <2> QED BY <2>1, StrongInduction
<1> QED BY <1>2 DEF Good

LEMMA CapacityRecursion ==
  /\ Capacity[0] = 1
  /\ \A n \in Nat : Capacity[n] \in Nat /\ Capacity[n + 1] = 256 * Capacity[n]
<1> DEFINE F == [n \in Nat |-> [x \in Nat |-> 256 * x]]
           Eq(g) == g = [n \in Nat |-> IF n = 0 THEN 1 ELSE 256 * g[n - 1]]
<1>1. F \in [Nat -> [Nat -> Nat]] /\ 1 \in Nat
  OBVIOUS
<1>2. PICK f : f \in [Nat -> Nat] /\ Iterates(f, 1, F)
  <2> HIDE DEF F
  <2> QED BY <1>1, Iteration
<1>3. Eq(f)
  <2>1. f = [n \in Nat |-> f[n]]
    BY <1>2
  <2>2. ASSUME NEW n \in Nat PROVE f[n] = IF n = 0 THEN 1 ELSE 256 * f[n - 1]
    <3>1. CASE n = 0
      BY <1>2, <3>1 DEF Iterates
    <3>2. CASE n # 0
      <4>1. n \in Nat \ {0} /\ n - 1 \in Nat
        BY <3>2
      <4>2. f[n - 1] \in Nat /\ f[n] = F[n][f[n - 1]]
        BY <1>2, <4>1 DEF Iterates
      <4> QED BY <3>2, <4>1, <4>2
    <3> QED BY <3>1, <3>2
  <2> QED BY <2>1, <2>2
<1>4. Eq(Capacity)
  <2>1. Capacity = CHOOSE g : Eq(g)
    BY DEF Capacity
  <2> HIDE DEF Eq
  <2> QED BY <1>3, <2>1
<1>5. Capacity[0] = 1
  BY <1>4
<1>6. ASSUME NEW n \in Nat PROVE Capacity[n + 1] = 256 * Capacity[n]
  <2>1. n + 1 \in Nat /\ n + 1 # 0 /\ (n + 1) - 1 = n
    OBVIOUS
  <2>2. Capacity[n + 1] = IF n + 1 = 0 THEN 1 ELSE 256 * Capacity[(n + 1) - 1]
    BY <1>4, <2>1
  <2> QED BY <2>1, <2>2
<1>7. \A n \in Nat : Capacity[n] \in Nat
  <2> DEFINE T == {n \in Nat : Capacity[n] \in Nat}
  <2>1. 0 \in T
    BY <1>5
  <2>2. ASSUME NEW n \in Nat, n \in T PROVE n + 1 \in T
    <3>1. Capacity[n] \in Nat /\ Capacity[n + 1] = 256 * Capacity[n]
      BY <1>6, <2>2
    <3> QED BY <3>1
  <2>3. \A n \in Nat : n \in T
    <3> HIDE DEF T
    <3> QED BY <2>1, <2>2, Induction
  <2> QED BY <2>3
<1> QED BY <1>5, <1>6, <1>7

LEMMA LittleEndianRecursion ==
  ASSUME NEW v \in Nat
  PROVE  /\ LittleEndian[0][v] = <<>>
         /\ \A n \in Nat : LittleEndian[n + 1][v] = <<v % 256>> \o LittleEndian[n][v \div 256]
<1> DEFINE V == [Nat -> Seq(Octet)]
           G(g, w) == <<w % 256>> \o g[w \div 256]
           e == [w \in Nat |-> <<>>]
           F == [n \in Nat |-> [g \in V |-> [w \in Nat |-> G(g, w)]]]
           Eq(g) == g = [n \in Nat |-> [w \in Nat |-> IF n = 0 THEN <<>> ELSE G(g[n - 1], w)]]
<1>1. e \in V
  OBVIOUS
<1>2. F \in [Nat -> [V -> V]]
  <2> SUFFICES ASSUME NEW g \in V, NEW w \in Nat PROVE G(g, w) \in Seq(Octet)
    BY ZenonT(60)
  <2>1. w % 256 \in Octet /\ w \div 256 \in Nat
    BY DEF Octet
  <2>2. g[w \div 256] \in Seq(Octet)
    BY <2>1
  <2> QED BY <2>1, <2>2, ConsFacts
<1>3. PICK f : f \in [Nat -> V] /\ Iterates(f, e, F)
  <2> HIDE DEF V, e, F
  <2> QED BY <1>1, <1>2, Iteration
<1>4. Eq(f)
  <2>1. f = [n \in Nat |-> f[n]]
    BY <1>3
  <2>2. ASSUME NEW n \in Nat
        PROVE  f[n] = [w \in Nat |-> IF n = 0 THEN <<>> ELSE G(f[n - 1], w)]
    <3>1. CASE n = 0
      <4>1. f[0] = e
        BY <1>3 DEF Iterates
      <4> HIDE DEF G
      <4> QED BY <3>1, <4>1
    <3>2. CASE n # 0
      <4>1. n \in Nat \ {0} /\ n - 1 \in Nat
        BY <3>2
      <4>2. f[n - 1] \in V /\ f[n] = F[n][f[n - 1]]
        BY <1>3, <4>1 DEF Iterates
      <4> HIDE DEF G, V
      <4>3. f[n] = [w \in Nat |-> G(f[n - 1], w)]
        BY <4>1, <4>2
      <4> QED BY <3>2, <4>3
    <3> QED BY <3>1, <3>2
  <2> HIDE DEF G
  <2> QED BY <2>1, <2>2
<1>5. Eq(LittleEndian)
  <2>1. LittleEndian = CHOOSE g : Eq(g)
    BY DEF LittleEndian
  <2> HIDE DEF Eq
  <2> QED BY <1>4, <2>1
<1>g. \A n \in Nat : G(LittleEndian[n], v) = <<v % 256>> \o LittleEndian[n][v \div 256]
  OBVIOUS
<1> HIDE DEF G
<1>6. LittleEndian[0][v] = <<>>
  BY <1>5
<1>7. ASSUME NEW n \in Nat PROVE LittleEndian[n + 1][v] = G(LittleEndian[n], v)
  <2>1. n + 1 \in Nat /\ n + 1 # 0 /\ (n + 1) - 1 = n
    OBVIOUS
  <2>2. LittleEndian[n + 1] =
          [w \in Nat |-> IF n + 1 = 0 THEN <<>> ELSE G(LittleEndian[(n + 1) - 1], w)]
    BY <1>5, <2>1
  <2> QED BY <2>1, <2>2
<1> QED BY <1>6, <1>7, <1>g, ZenonT(60)

LEMMA LittleEndianFacts ==
  ASSUME NEW n \in Nat, NEW v \in Nat
  PROVE  /\ LittleEndian[n][v] \in Seq(Octet) /\ Len(LittleEndian[n][v]) = n
         /\ v < Capacity[n] => Number_(Octets(LittleEndian[n][v])) = v
<1> DEFINE Good(k, w) == /\ LittleEndian[k][w] \in Seq(Octet)
                         /\ Len(LittleEndian[k][w]) = k
                         /\ w < Capacity[k] => Number_(Octets(LittleEndian[k][w])) = w
           T == {k \in Nat : \A w \in Nat : Good(k, w)}
<1>b. 256 \in Bases
  BY DEF Bases
<1>1. ASSUME NEW w \in Nat PROVE Good(0, w)
  <2>1. LittleEndian[0][w] = <<>> /\ Capacity[0] = 1
    BY LittleEndianRecursion, CapacityRecursion
  <2>2. <<>> \in Seq(Octet) /\ Len(<<>>) = 0
    BY EmptySeq
  <2>3. Octets(<<>>) = <<>>
    BY DEF Octets
  <2>4. Number_(<<>>) = 0
    BY <1>b, DigitsOfNone DEF Number_
  <2>5. w < 1 => w = 0
    OBVIOUS
  <2> QED BY <2>1, <2>2, <2>3, <2>4, <2>5
<1>2. ASSUME NEW k \in Nat, k \in T, NEW w \in Nat PROVE Good(k + 1, w)
  <2> DEFINE c == w % 256
             d == w \div 256
             l == LittleEndian[k][d]
             x == [b |-> c]
             C == Capacity[k]
  <2>1. LittleEndian[k + 1][w] = <<c>> \o l /\ Capacity[k + 1] = 256 * C /\ C \in Nat
    <3>1. LittleEndian[k + 1][w] = <<c>> \o l
      BY LittleEndianRecursion, ZenonT(60)
    <3>2. Capacity[k + 1] = 256 * C /\ C \in Nat
      BY CapacityRecursion
    <3> QED BY <3>1, <3>2
  <2>2. d \in Nat /\ c \in Octet /\ c % 256 = c /\ w = c + 256 * d
    BY DEF Octet
  <2>3. l \in Seq(Octet) /\ Len(l) = k /\ (d < C => Number_(Octets(l)) = d)
    BY <1>2, <2>2
  <2>4. w < 256 * C => d < C
    BY <2>1, <2>2
  <2>x. x = [b |-> c]
    OBVIOUS
  <2> HIDE DEF c, d, l, x, C
  <2>5. <<c>> \in Seq(Octet) /\ <<c>> \o l \in Seq(Octet) /\ Len(<<c>> \o l) = k + 1
    BY <2>2, <2>3, ConsFacts
  <2>6. Octets(<<c>> \o l) = Octets(<<c>>) \o Octets(l)
    BY <2>3, <2>5, OctetsConcat
  <2>7. Octets(<<c>>) = <<x>>
    BY <2>x DEF Octets
  <2>8. x \in ByteSym /\ x.b = c
    BY <2>2, <2>x DEF ByteSym
  <2>9. Octets(l) \in Seq(ByteSym)
    BY <2>3, OctetsFacts
  <2>10. Number_(<<x>> \o Octets(l)) = c + 256 * Number_(Octets(l))
    <3> DEFINE o == Octets(l)
    <3>1. o \in Seq(ByteSym)
      BY <2>9
    <3> HIDE DEF o
    <3>2. FromDigits(<<x>> \o o, 256) = (x.b % 256) + 256 * FromDigits(o, 256)
      BY <1>b, <2>8, <3>1, DigitsOfMore
    <3> QED BY <2>2, <2>8, <3>2 DEF Number_, o
  <2>11. w < Capacity[k + 1] => Number_(Octets(LittleEndian[k + 1][w])) = w
    BY <2>1, <2>2, <2>3, <2>4, <2>6, <2>7, <2>10, ZenonT(60)
  <2> QED BY <2>1, <2>5, <2>11
<1> HIDE DEF Good
<1>3. \A k \in Nat : k \in T
  <2>1. 0 \in T
    BY <1>1
  <2>2. \A k \in Nat : k \in T => k + 1 \in T
    BY <1>2
  <2> HIDE DEF T
  <2> QED BY <2>1, <2>2, Induction
<1> QED BY <1>3 DEF Good

-----------------------------------------------------------------------------
(* Items                                                                       *)

LEMMA ByteIsNumber ==
  ASSUME NEW x \in ByteSym
  PROVE  x.b \in Nat
BY DEF ByteSym, Octet

LEMMA PairOfSequences ==
  ASSUME NEW S, NEW x \in S, NEW y \in S
  PROVE  <<x, y>> = <<x>> \o <<y>>
<1> DEFINE a == <<x>>
           b == <<y>>
           c == <<x, y>>
<1>1. a \in Seq(S) /\ Len(a) = 1 /\ a[1] = x /\ b \in Seq(S) /\ Len(b) = 1 /\ b[1] = y
  OBVIOUS
<1>2. c \in Seq(S) /\ Len(c) = 2 /\ c[1] = x /\ c[2] = y
  OBVIOUS
<1> HIDE DEF a, b
<1>3. /\ a \o b \in Seq(S) /\ Len(a \o b) = 2
      /\ (a \o b)[1] = x /\ (a \o b)[2] = y
  <2>1. /\ a \o b \in Seq(S) /\ Len(a \o b) = Len(a) + Len(b)
        /\ (\A i \in 1..Len(a) : (a \o b)[i] = a[i])
        /\ (\A i \in 1..Len(b) : (a \o b)[Len(a) + i] = b[i])
    BY <1>1, Concat
  <2>2. 1 \in 1..Len(a) /\ 1 \in 1..Len(b) /\ Len(a) + 1 = 2
    BY <1>1
  <2> QED BY <1>1, <2>1, <2>2
<1> DEFINE d == a \o b
<1> HIDE DEF c
<1>4. \A i \in 1..Len(c) : i = 1 \/ i = 2
  BY <1>2
<1>5. c = d
  BY <1>2, <1>3, <1>4, SeqEqual
<1> QED BY <1>5 DEF a, b, c

LEMMA HeadsFacts ==
  ASSUME NEW s \in Seq(ByteSym)
  PROVE  Heads(s) = {i \in 1..Len(s) : s[i].b < 128} /\ Heads(s) \subseteq Nat
<1>1. Len(s) \in Nat /\ DOMAIN s = 1..Len(s) /\ \A i \in 1..Len(s) : s[i] \in ByteSym
  BY LenProperties, ElementOfSeq
<1>2. \A x \in ByteSym : "b" \in DOMAIN x
  BY DEF ByteSym
<1>3. Heads(s) = {i \in 1..Len(s) : s[i].b < 128}
  BY <1>1, <1>2 DEF Heads
<1>4. 1..Len(s) \subseteq Nat
  BY <1>1
<1> QED BY <1>3, <1>4

\* A count is found again in front of whatever follows it.
LEMMA VarintHead ==
  ASSUME NEW n, NEW s, IsVarint(s, n), NEW p \in Seq(ByteSym),
         \A i \in 1..Len(s) : i <= Len(p) => p[i] = s[i]
  PROVE  /\ Heads(p) # {} <=> Len(s) <= Len(p)
         /\ Head_(p) = IF Len(s) <= Len(p) THEN Len(s) ELSE Len(p)
<1> DEFINE l == Len(s)
           m == Len(p)
<1>1. l \in Nat \ {0} /\ s[l].b < 128 /\ \A i \in 1..l - 1 : s[i].b >= 128
  BY DEF IsVarint
<1>2. m \in Nat
  BY LenProperties
<1>3. Heads(p) = {i \in 1..m : p[i].b < 128}
  BY HeadsFacts
<1>4. \A i \in 1..l : i <= m => p[i] = s[i]
  OBVIOUS
<1>5. s \in Seq(ByteSym) /\ \A i \in 1..l : s[i].b \in Nat
  <2>1. s \in Seq(ByteSym)
    BY DEF IsVarint
  <2>2. \A i \in 1..l : s[i] \in ByteSym
    BY <2>1, ElementOfSeq
  <2> QED BY <2>1, <2>2, ByteIsNumber
<1> HIDE DEF l, m
<1>6. \A i \in 1..l - 1 : i \notin Heads(p)
  <2> SUFFICES ASSUME NEW i \in 1..l - 1, i \in Heads(p) PROVE FALSE
    OBVIOUS
  <2>1. i \in 1..m /\ p[i].b < 128 /\ i <= m /\ i \in 1..l
    BY <1>1, <1>2, <1>3
  <2>2. p[i] = s[i] /\ s[i].b \in Nat /\ s[i].b >= 128
    BY <1>1, <1>4, <1>5, <2>1
  <2> QED BY <2>1, <2>2
<1>7. CASE l <= m
  <2>1. l \in Heads(p)
    <3>1. l \in 1..l /\ l \in 1..m
      BY <1>1, <1>2, <1>7
    <3> QED BY <1>1, <1>3, <1>4, <1>7, <3>1
  <2>2. ASSUME NEW j \in Heads(p) PROVE l <= j
    <3>1. j \in 1..m /\ j \notin 1..l - 1
      BY <1>3, <1>6
    <3> QED BY <1>1, <1>2, <3>1
  <2>3. \A i \in Heads(p) : (\A j \in Heads(p) : i <= j) => i = l
    <3> SUFFICES ASSUME NEW i \in Heads(p), \A j \in Heads(p) : i <= j PROVE i = l
      OBVIOUS
    <3>1. i <= l /\ l <= i /\ i \in 1..m
      BY <1>3, <2>1, <2>2
    <3> QED BY <1>1, <1>2, <3>1
  <2>4. Head_(p) = CHOOSE i \in Heads(p) : \A j \in Heads(p) : i <= j
    BY <2>1 DEF Head_
  <2> DEFINE h == CHOOSE i \in Heads(p) : \A j \in Heads(p) : i <= j
  <2>5. h \in Heads(p) /\ \A j \in Heads(p) : h <= j
    BY <2>1, <2>2
  <2>6. h = l
    BY <2>3, <2>5
  <2> QED BY <1>7, <2>1, <2>4, <2>6 DEF l, m
<1>8. CASE ~(l <= m)
  <2>1. Heads(p) = {}
    <3> SUFFICES ASSUME NEW i \in Heads(p) PROVE FALSE
      OBVIOUS
    <3>1. i \in 1..m
      BY <1>3
    <3>2. i \in 1..l - 1
      BY <1>1, <1>2, <1>8, <3>1
    <3> QED BY <1>6, <3>2
  <2> QED BY <1>8, <2>1 DEF Head_, l, m
<1> QED BY <1>7, <1>8

LEMMA PlainFacts ==
  ASSUME NEW w \in Seq(Octet), NEW t \in Seq(ByteSym), Len(t) <= Len(w),
         \A i \in 1..Len(t) : t[i] = [b |-> w[i]]
  PROVE  /\ IsPrefix(Plain_(t), w) /\ Len(Plain_(t)) = Len(t)
         /\ Len(t) = Len(w) => Plain_(t) = w
<1> DEFINE m == Len(t)
           q == Plain_(t)
<1>0. m = Len(t) /\ q = Plain_(t)
  OBVIOUS
<1>1. m \in Nat /\ DOMAIN t = 1..m /\ Len(w) \in Nat /\ m <= Len(w)
  BY LenProperties
<1>2. \A i \in 1..m : t[i] = [b |-> w[i]] /\ w[i] \in Octet
  <2> SUFFICES ASSUME NEW i \in 1..m PROVE w[i] \in Octet
    OBVIOUS
  <2>1. i \in 1..Len(w)
    BY <1>1
  <2> QED BY <2>1, ElementOfSeq
<1>3. q = [i \in 1..m |-> t[i].b]
  BY <1>1 DEF Plain_
<1> HIDE DEF m, q
<1>4. \A i \in 1..m : t[i].b = w[i] /\ w[i] \in Octet
  <2> SUFFICES ASSUME NEW i \in 1..m PROVE t[i].b = w[i] /\ w[i] \in Octet
    OBVIOUS
  <2>1. t[i] = [b |-> w[i]] /\ w[i] \in Octet
    BY <1>2
  <2> QED BY <2>1
<1>5. q \in [1..m -> Octet]
  BY <1>3, <1>4
<1>6. q \in Seq(Octet) /\ Len(q) = m
  BY <1>1, <1>5, FunctionIsSeq
<1>7. \A i \in 1..m : q[i] = w[i]
  BY <1>3, <1>4
<1> DEFINE a == SubSeq(w, 1, m)
<1>8. a \in Seq(Octet) /\ Len(a) = m /\ \A i \in 1..m : a[i] = w[i]
  BY <1>1, FirstOnes
<1>a. a = SubSeq(w, 1, m)
  OBVIOUS
<1> HIDE DEF a
<1>9. q = a
  BY <1>6, <1>7, <1>8, SeqEqual
<1>10. SubSeq(q, 1, Len(q)) = q
  BY <1>6, SubSeqFull
<1>11. IsPrefix(q, w)
  BY <1>1, <1>6, <1>9, <1>10, <1>a DEF IsPrefix
<1>12. m = Len(w) => q = w
  BY <1>6, <1>7, SeqEqual
<1> QED BY <1>0, <1>6, <1>11, <1>12

Encoding(item) == FlattenSeq(Written(item))
Meaning(item) == IF item.k = "fixed" THEN item.v \o [j \in 1..item.n - Len(item.v) |-> 0] ELSE item.v

\* What the reader makes of the first bytes of an item, m of them, when no more come.
Less(item, v) == IF item.k = "varint" THEN v \in Nat /\ v <= item.v
                 ELSE item.k \in {"str", "fixed"} /\ IsPrefix(v, Meaning(item))
Breaks(item, s) == item.k = "int" \/ (item.k \in {"varint", "str"} /\ s = <<>>)

\* e are the bytes of item: they end where the reader thinks they end, mean what
\* was sent, and mean less when the last are missing.
Codes(e, item) ==
  /\ e \in Seq(ByteSym) /\ Len(e) \in Nat \ {0}
  /\ Written(item) \in Seq(Seq(ByteSym))
  /\ \A m \in 1..Len(e) : Whole_(item, SubSeq(e, 1, m)) <=> m = Len(e)
  /\ Value(item, e) = Meaning(item)
  /\ \A m \in 0..Len(e) - 1 :
       Breaks(item, SubSeq(e, 1, m)) \/ Less(item, Value(item, SubSeq(e, 1, m)))

LEMMA VarintCodes ==
  ASSUME NEW item, item.k = "varint", item.v \in Nat
  PROVE  Codes(Encoding(item), item)
<1> DEFINE e == Octets(Leb128[item.v])
           v == item.v
<1>1. Leb128[v] \in Seq(Octet) /\ IsVarint(e, v)
  BY Leb128Facts
<1>v. v = item.v /\ v \in Nat
  OBVIOUS
<1>2. Written(item) = <<e>>
  BY DEF Written
<1> HIDE DEF e, v
<1>3. e \in Seq(ByteSym) /\ Len(e) \in Nat \ {0}
  BY <1>1 DEF IsVarint
<1>4. Encoding(item) = e /\ Written(item) \in Seq(Seq(ByteSym))
  BY <1>2, <1>3, FlattenOne DEF Encoding
<1>5. ASSUME NEW m \in 0..Len(e)
      PROVE  /\ SubSeq(e, 1, m) \in Seq(ByteSym) /\ Len(SubSeq(e, 1, m)) = m
             /\ Heads(SubSeq(e, 1, m)) # {} <=> m = Len(e)
  <2> DEFINE p == SubSeq(e, 1, m)
  <2>1. p \in Seq(ByteSym) /\ Len(p) = m /\ \A i \in 1..m : p[i] = e[i]
    BY <1>3, FirstOnes
  <2> HIDE DEF p
  <2>2. \A i \in 1..Len(e) : i <= Len(p) => p[i] = e[i]
    BY <1>3, <2>1
  <2>3. Heads(p) # {} <=> Len(e) <= Len(p)
    BY <1>1, <2>1, <2>2, VarintHead
  <2>4. Heads(p) # {} <=> m = Len(e)
    BY <1>3, <2>1, <2>3
  <2> QED BY <2>1, <2>4 DEF p
<1>6. ASSUME NEW m \in 1..Len(e) PROVE Whole_(item, SubSeq(e, 1, m)) <=> m = Len(e)
  <2>1. m \in 0..Len(e)
    BY <1>3
  <2> QED BY <1>5, <2>1 DEF Whole_
<1>7. Value(item, e) = Meaning(item)
  BY <1>1, <1>v DEF Value, Meaning, IsVarint
<1>8. ASSUME NEW m \in 0..Len(e) - 1 PROVE Less(item, Value(item, SubSeq(e, 1, m)))
  <2>1. m \in 0..Len(e)
    BY <1>3
  <2>2. Unleb128(SubSeq(e, 1, m)) \in 0..v
    BY <1>1, <2>1 DEF IsVarint
  <2>3. Value(item, SubSeq(e, 1, m)) \in 0..v
    BY <2>2 DEF Value
  <2>4. Value(item, SubSeq(e, 1, m)) \in Nat /\ Value(item, SubSeq(e, 1, m)) <= item.v
    BY <1>v, <2>3
  <2>5. item.k = "varint"
    OBVIOUS
  <2> QED BY <2>4, <2>5 DEF Less
<1> QED BY <1>3, <1>4, <1>6, <1>7, <1>8 DEF Codes

LEMMA IntCodes ==
  ASSUME NEW item, item.k = "int", item.n \in Nat \ {0},
         item.v \in 0 .. Capacity[item.n] - 1
  PROVE  Codes(Encoding(item), item)
<1> DEFINE n == item.n
           v == item.v
           e == Octets(LittleEndian[n][v])
<1>1. n \in Nat \ {0} /\ v \in Nat /\ v < Capacity[n]
  <2>1. Capacity[n] \in Nat
    BY CapacityRecursion
  <2> QED BY <2>1
<1>v. v = item.v /\ n = item.n
  OBVIOUS
<1> HIDE DEF n, v
<1>2. /\ LittleEndian[n][v] \in Seq(Octet) /\ Len(LittleEndian[n][v]) = n
      /\ Number_(e) = v
  BY <1>1, LittleEndianFacts
<1>3. e \in Seq(ByteSym) /\ Len(e) = n
  BY <1>2, OctetsFacts
<1>4. Written(item) = <<e>>
  BY <1>v DEF Written
<1> HIDE DEF e
<1>5. Encoding(item) = e /\ Written(item) \in Seq(Seq(ByteSym))
  BY <1>3, <1>4, FlattenOne DEF Encoding
<1>6. ASSUME NEW m \in 1..Len(e) PROVE Whole_(item, SubSeq(e, 1, m)) <=> m = Len(e)
  <2>1. m \in 0..Len(e)
    BY <1>1, <1>3
  <2>2. Len(SubSeq(e, 1, m)) = m
    BY <1>3, <2>1, FirstOnes
  <2> QED BY <1>3, <1>v, <2>2 DEF Whole_
<1>7. Value(item, e) = Meaning(item)
  BY <1>2, <1>v DEF Value, Meaning
<1>8. \A m \in 0..Len(e) - 1 : Breaks(item, SubSeq(e, 1, m))
  BY DEF Breaks
<1> QED BY <1>1, <1>3, <1>5, <1>6, <1>7, <1>8 DEF Codes

LEMMA FixedCodes ==
  ASSUME NEW item, item.k = "fixed", item.n \in Nat \ {0},
         item.v \in Seq(Octet), Len(item.v) <= item.n
  PROVE  Codes(Encoding(item), item)
<1> DEFINE n == item.n
           z == [j \in 1..n - Len(item.v) |-> 0]
           w == item.v \o z
           e == Octets(w)
<1>1. n \in Nat \ {0} /\ Len(item.v) \in Nat /\ n - Len(item.v) \in Nat
  BY LenProperties
<1>2. z \in Seq(Octet) /\ Len(z) = n - Len(item.v)
  <2>1. z \in [1..n - Len(item.v) -> Octet]
    BY DEF Octet
  <2> HIDE DEF z
  <2> QED BY <1>1, <2>1, FunctionIsSeq
<1> HIDE DEF z
<1>3. w \in Seq(Octet) /\ Len(w) = n
  <2>1. w \in Seq(Octet) /\ Len(w) = Len(item.v) + Len(z)
    BY <1>2, Concat
  <2> QED BY <1>1, <1>2, <2>1
<1>4. Meaning(item) = w
  BY DEF Meaning, z
<1>5. Written(item) = <<e>>
  BY DEF Written, z
<1>n. n = item.n
  OBVIOUS
<1> HIDE DEF n, w
<1>6. e \in Seq(ByteSym) /\ Len(e) = n /\ \A i \in 1..n : e[i] = [b |-> w[i]]
  BY <1>3, OctetsFacts
<1> HIDE DEF e
<1>7. Encoding(item) = e /\ Written(item) \in Seq(Seq(ByteSym))
  BY <1>5, <1>6, FlattenOne DEF Encoding
<1>8. ASSUME NEW m \in 0..n
      PROVE  /\ Len(SubSeq(e, 1, m)) = m
             /\ IsPrefix(Plain_(SubSeq(e, 1, m)), w)
             /\ m = n => Plain_(SubSeq(e, 1, m)) = w
  <2> DEFINE p == SubSeq(e, 1, m)
  <2>1. p \in Seq(ByteSym) /\ Len(p) = m /\ \A i \in 1..m : p[i] = e[i]
    BY <1>6, FirstOnes
  <2> HIDE DEF p
  <2>2. Len(p) <= Len(w) /\ \A i \in 1..Len(p) : p[i] = [b |-> w[i]]
    <3>1. \A i \in 1..m : i \in 1..n
      BY <1>1
    <3> QED BY <1>1, <1>3, <1>6, <2>1, <3>1
  <2>3. IsPrefix(Plain_(p), w) /\ (Len(p) = Len(w) => Plain_(p) = w)
    BY <1>3, <2>1, <2>2, PlainFacts
  <2> QED BY <1>3, <2>1, <2>3 DEF p
<1>9. ASSUME NEW m \in 1..Len(e) PROVE Whole_(item, SubSeq(e, 1, m)) <=> m = Len(e)
  <2>1. m \in 0..n
    BY <1>1, <1>6
  <2> QED BY <1>6, <1>8, <1>n, <2>1 DEF Whole_
<1>10. Value(item, e) = Meaning(item)
  <2>1. SubSeq(e, 1, n) = e
    BY <1>6, SubSeqFull
  <2>2. n \in 0..n
    BY <1>1
  <2> QED BY <1>4, <1>8, <2>1, <2>2 DEF Value
<1>11. ASSUME NEW m \in 0..Len(e) - 1 PROVE Less(item, Value(item, SubSeq(e, 1, m)))
  <2>1. m \in 0..n
    BY <1>1, <1>6
  <2> QED BY <1>4, <1>8, <2>1 DEF Value, Less
<1> QED BY <1>1, <1>6, <1>7, <1>9, <1>10, <1>11 DEF Codes

LEMMA StrCodes ==
  ASSUME NEW item, item.k = "str", item.v \in Seq(Octet)
  PROVE  Codes(Encoding(item), item)
<1> DEFINE w == item.v
           k == Len(w)
           s == Octets(Leb128[k])
           t == Octets(w)
           e == s \o t
           l == Len(s)
<1>1. w \in Seq(Octet) /\ k = Len(w) /\ k \in Nat
  BY LenProperties
<1>w. w = item.v
  OBVIOUS
<1>2. Written(item) = <<s, t>>
  BY DEF Written
<1> HIDE DEF w, k
<1>3. Leb128[k] \in Seq(Octet) /\ IsVarint(s, k)
  BY <1>1, Leb128Facts
<1>4. t \in Seq(ByteSym) /\ Len(t) = k /\ \A i \in 1..k : t[i] = [b |-> w[i]]
  BY <1>1, OctetsFacts
<1> HIDE DEF s, t
<1>5. s \in Seq(ByteSym) /\ l \in Nat \ {0}
  BY <1>3 DEF IsVarint
<1>6. /\ e \in Seq(ByteSym) /\ Len(e) = l + Len(t)
      /\ (\A i \in 1..l : e[i] = s[i]) /\ (\A i \in 1..Len(t) : e[l + i] = t[i])
  <2>1. s \in Seq(ByteSym) /\ t \in Seq(ByteSym)
    BY <1>4, <1>5
  <2> QED BY <2>1, Concat
<1>l. l = Len(s)
  OBVIOUS
<1>7. Encoding(item) = e /\ Written(item) \in Seq(Seq(ByteSym))
  <2>1. <<s>> \in Seq(Seq(ByteSym)) /\ <<t>> \in Seq(Seq(ByteSym))
    BY <1>4, <1>5
  <2>2. <<s, t>> = <<s>> \o <<t>>
    BY <1>4, <1>5, PairOfSequences
  <2>6. <<s>> \o <<t>> \in Seq(Seq(ByteSym))
    BY <2>1, Concat
  <2>3. FlattenSeq(<<s>> \o <<t>>) = FlattenSeq(<<s>>) \o FlattenSeq(<<t>>)
    BY <2>1, FlattenConcat
  <2>4. FlattenSeq(<<s>>) = s
    BY <1>5, FlattenOne
  <2>5. FlattenSeq(<<t>>) = t
    BY <1>4, FlattenOne
  <2> QED BY <1>2, <2>2, <2>3, <2>4, <2>5, <2>6 DEF Encoding
<1> HIDE DEF e, l
<1>8. ASSUME NEW m \in 0..Len(e)
      PROVE  /\ Whole_(item, SubSeq(e, 1, m)) <=> m = Len(e)
             /\ IsPrefix(Value(item, SubSeq(e, 1, m)), w)
             /\ m = Len(e) => Value(item, SubSeq(e, 1, m)) = w
  <2> DEFINE p == SubSeq(e, 1, m)
  <2>0. m \in Nat /\ Len(e) = l + k /\ l \in Nat \ {0} /\ k \in Nat /\ m <= l + k
    BY <1>1, <1>4, <1>5, <1>6
  <2>1. p \in Seq(ByteSym) /\ Len(p) = m /\ \A i \in 1..m : p[i] = e[i]
    BY <1>6, FirstOnes
  <2> HIDE DEF p
  <2>2. \A i \in 1..Len(s) : i <= Len(p) => p[i] = s[i]
    BY <1>6, <1>l, <2>0, <2>1
  <2>3. /\ Heads(p) # {} <=> l <= m
        /\ Head_(p) = IF l <= m THEN l ELSE m
    BY <1>3, <1>l, <2>1, <2>2, VarintHead
  <2>4. CASE ~(l <= m)
    <3>1. Heads(p) = {} /\ Head_(p) = m
      BY <2>3, <2>4
    <3>2. ~Whole_(item, p) /\ m # Len(e)
      BY <2>0, <2>4, <3>1 DEF Whole_
    <3>3. SubSeq(p, m + 1, m) = <<>>
      BY <2>0, SubSeqEmpty
    <3>4. Value(item, p) = Plain_(<<>>)
      BY <2>1, <3>1, <3>3 DEF Value
    <3>5. <<>> \in Seq(ByteSym) /\ Len(<<>>) = 0
      BY EmptySeq
    <3>6. IsPrefix(Plain_(<<>>), w)
      <4> DEFINE o == <<>>
      <4>1. o \in Seq(ByteSym) /\ Len(o) = 0
        BY <3>5
      <4> HIDE DEF o
      <4>2. Len(o) <= Len(w) /\ \A i \in 1..Len(o) : o[i] = [b |-> w[i]]
        BY <1>1, <4>1
      <4>3. IsPrefix(Plain_(o), w)
        BY <1>1, <4>1, <4>2, PlainFacts
      <4> QED BY <4>3 DEF o
    <3> QED BY <3>2, <3>4, <3>6 DEF p
  <2>5. CASE l <= m
    <3> DEFINE q == SubSeq(p, l + 1, m)
    <3>1. Heads(p) # {} /\ Head_(p) = l
      BY <2>3, <2>5
    <3>2. SubSeq(p, 1, l) = s
      <4> DEFINE a == SubSeq(p, 1, l)
      <4>1. l \in 0..Len(p)
        BY <2>0, <2>1, <2>5
      <4>2. a \in Seq(ByteSym) /\ Len(a) = l /\ \A i \in 1..l : a[i] = p[i]
        BY <2>1, <4>1, FirstOnes
      <4> HIDE DEF a
      <4>3. \A i \in 1..Len(a) : a[i] = s[i]
        BY <1>l, <2>0, <2>1, <2>2, <2>5, <4>2
      <4>4. a = s
        BY <1>5, <1>l, <4>2, <4>3, SeqEqual
      <4> QED BY <4>4 DEF a
    <3>3. Whole_(item, p) <=> m = Len(e)
      <4>1. Unleb128(s) = k
        BY <1>3 DEF IsVarint
      <4> QED BY <2>0, <2>1, <3>1, <3>2, <4>1 DEF Whole_
    <3>4. q \in Seq(ByteSym) /\ Len(q) = m - l /\ \A i \in 1..m - l : q[i] = p[l + i]
      <4>1. l \in 0..Len(p)
        BY <2>0, <2>1, <2>5
      <4> QED BY <2>1, <4>1, LastOnes
    <3>5. Value(item, p) = Plain_(q)
      BY <2>1, <3>1 DEF Value
    <3> HIDE DEF q
    <3>6. \A i \in 1..Len(q) : q[i] = [b |-> w[i]]
      <4> SUFFICES ASSUME NEW i \in 1..m - l PROVE q[i] = [b |-> w[i]]
        BY <3>4
      <4>1. i \in 1..k /\ l + i \in 1..m
        BY <2>0, <2>5
      <4>2. p[l + i] = e[l + i] /\ e[l + i] = t[i] /\ t[i] = [b |-> w[i]]
        BY <1>4, <1>6, <2>1, <4>1
      <4> QED BY <3>4, <4>2
    <3>7. Len(q) <= Len(w)
      BY <1>1, <2>0, <2>5, <3>4
    <3>8. IsPrefix(Plain_(q), w) /\ (Len(q) = Len(w) => Plain_(q) = w)
      BY <1>1, <3>4, <3>6, <3>7, PlainFacts, SMTT(40)
    <3>9. m = Len(e) => Len(q) = Len(w)
      BY <1>1, <2>0, <3>4
    <3> QED BY <3>3, <3>5, <3>8, <3>9 DEF p
  <2> QED BY <2>4, <2>5
<1>9. Len(e) \in Nat \ {0}
  BY <1>1, <1>4, <1>5, <1>6
<1>10. Meaning(item) = w
  BY <1>w DEF Meaning
<1>11. \A m \in 1..Len(e) : Whole_(item, SubSeq(e, 1, m)) <=> m = Len(e)
  <2>1. \A m \in 1..Len(e) : m \in 0..Len(e)
    BY <1>9
  <2> QED BY <1>8, <2>1
<1>12. Value(item, e) = Meaning(item)
  <2>1. SubSeq(e, 1, Len(e)) = e
    BY <1>6, SubSeqFull
  <2>2. Len(e) \in 0..Len(e)
    BY <1>9
  <2> QED BY <1>8, <1>10, <2>1, <2>2
<1>13. \A m \in 0..Len(e) - 1 : Less(item, Value(item, SubSeq(e, 1, m)))
  <2>1. \A m \in 0..Len(e) - 1 : m \in 0..Len(e)
    BY <1>9
  <2> QED BY <1>8, <1>10, <2>1 DEF Less
<1> QED BY <1>6, <1>7, <1>9, <1>11, <1>12, <1>13 DEF Codes

\* What BufferedWriter writes of an item, BufferedReader ends where it ends and reads as
\* what was sent; of its first bytes it makes less, or an error.
THEOREM ItemCodes ==
  ASSUME NEW item, Sendable(item)
  PROVE  Codes(Encoding(item), item)
BY VarintCodes, IntCodes, FixedCodes, StrCodes DEF Sendable

-----------------------------------------------------------------------------
(* Places in a sequence                                                        *)

\* x is what y has from r on.
At(x, y, r) == r \in Nat /\ r + Len(x) <= Len(y) /\ \A m \in 1..Len(x) : x[m] = y[r + m]

LEMMA AtConcat ==
  ASSUME NEW S, NEW s \in Seq(S), NEW t \in Seq(S), NEW y, Len(y) \in Nat, NEW r
  PROVE  At(s \o t, y, r) <=> At(s, y, r) /\ At(t, y, r + Len(s))
<1> DEFINE u == s \o t
           n == Len(s)
           k == Len(t)
<1>0. n = Len(s) /\ k = Len(t)
  OBVIOUS
<1>1. /\ u \in Seq(S) /\ Len(u) = n + k /\ n \in Nat /\ k \in Nat
      /\ (\A i \in 1..n : u[i] = s[i]) /\ (\A i \in 1..k : u[n + i] = t[i])
  BY Concat
<1> HIDE DEF u, n, k
<1>2. ASSUME At(u, y, r) PROVE At(s, y, r) /\ At(t, y, r + n)
  <2>1. r \in Nat /\ r + (n + k) <= Len(y) /\ \A m \in 1..n + k : u[m] = y[r + m]
    BY <1>1, <1>2 DEF At
  <2>2. \A m \in 1..n : s[m] = y[r + m]
    BY <1>1, <2>1
  <2>3. ASSUME NEW m \in 1..k PROVE t[m] = y[(r + n) + m]
    <3>1. n + m \in 1..n + k /\ r + (n + m) = (r + n) + m
      BY <1>1, <2>1
    <3> QED BY <1>1, <2>1, <3>1
  <2>4. r + n \in Nat /\ r + n <= Len(y) /\ (r + n) + k <= Len(y)
    BY <1>1, <2>1
  <2> QED BY <1>0, <2>1, <2>2, <2>3, <2>4 DEF At
<1>3. ASSUME At(s, y, r), At(t, y, r + n) PROVE At(u, y, r)
  <2>1. /\ r \in Nat /\ (r + n) + k <= Len(y)
        /\ (\A m \in 1..n : s[m] = y[r + m]) /\ (\A m \in 1..k : t[m] = y[(r + n) + m])
    BY <1>0, <1>3 DEF At
  <2>2. r + (n + k) <= Len(y)
    BY <1>1, <2>1
  <2>3. ASSUME NEW m \in 1..n + k PROVE u[m] = y[r + m]
    <3>1. CASE m \in 1..n
      BY <1>1, <2>1, <3>1
    <3>2. CASE m \notin 1..n
      <4> DEFINE l == m - n
      <4>1. l \in 1..k /\ m = n + l /\ (r + n) + l = r + m
        BY <1>1, <2>1, <3>2
      <4> HIDE DEF l
      <4>2. u[n + l] = t[l] /\ t[l] = y[(r + n) + l]
        BY <1>1, <2>1, <4>1
      <4> QED BY <4>1, <4>2
    <3> QED BY <3>1, <3>2
  <2> QED BY <1>1, <2>1, <2>2, <2>3 DEF At
<1> QED BY <1>0, <1>2, <1>3 DEF u

LEMMA AtSplit ==
  ASSUME NEW S, NEW s \in Seq(S), NEW n \in 0..Len(s), NEW y, Len(y) \in Nat, NEW r
  PROVE  At(s, y, r) <=> /\ At(SubSeq(s, 1, n), y, r)
                         /\ At(SubSeq(s, n + 1, Len(s)), y, r + n)
<1> DEFINE a == SubSeq(s, 1, n)
           b == SubSeq(s, n + 1, Len(s))
<1>1. a \in Seq(S) /\ Len(a) = n
  BY FirstOnes
<1>2. b \in Seq(S)
  BY LastOnes
<1>3. s = a \o b
  BY Splits
<1> HIDE DEF a, b
<1>4. At(a \o b, y, r) <=> At(a, y, r) /\ At(b, y, r + Len(a))
  BY <1>1, <1>2, AtConcat
<1> QED BY <1>1, <1>3, <1>4 DEF a, b

LEMMA AtNothing ==
  ASSUME NEW y, Len(y) \in Nat, NEW r \in 0..Len(y)
  PROVE  At(<<>>, y, r) /\ Len(<<>>) = 0
<1> DEFINE e == <<>>
<1>1. Len(e) = 0
  BY EmptySeq
<1> HIDE DEF e
<1>2. At(e, y, r)
  BY <1>1 DEF At
<1> QED BY <1>1, <1>2 DEF e

LEMMA AtTransitive ==
  ASSUME NEW x, NEW y, NEW z, NEW r, NEW o, Len(x) \in Nat, Len(y) \in Nat, Len(z) \in Nat,
         At(x, y, o), At(y, z, r)
  PROVE  At(x, z, r + o)
<1>1. /\ r \in Nat /\ o \in Nat /\ o + Len(x) <= Len(y) /\ r + Len(y) <= Len(z)
      /\ \A m \in 1..Len(x) : x[m] = y[o + m]
      /\ \A m \in 1..Len(y) : y[m] = z[r + m]
  BY DEF At
<1>2. ASSUME NEW m \in 1..Len(x) PROVE x[m] = z[(r + o) + m]
  <2>1. o + m \in 1..Len(y) /\ r + (o + m) = (r + o) + m
    BY <1>1
  <2> QED BY <1>1, <2>1
<1>3. r + o \in Nat /\ (r + o) + Len(x) <= Len(z)
  BY <1>1
<1> QED BY <1>2, <1>3 DEF At

-----------------------------------------------------------------------------
(* Frames                                                                      *)

\* The symbols, as sent and as changed.
RestSym == [method : Known \cup {"other"}] \cup [size : Int] \cup [raw : Int] \cup [z : Int]
SentSym == ByteSym \cup RestSym \cup [hash : Seq(RestSym)]
Sym     == SentSym \cup UNION {Changed(x) : x \in SentSym}

\* The symbols of a frame, its hash last.
FrameOf(c, data) ==
  /\ c \in Seq(SentSym) /\ Len(c) = Len(data) + 4
  /\ c[2] = [method |-> Method] /\ c[3] = [size |-> 1 + Len(data)] /\ c[4] = [raw |-> Len(data)]
  /\ \A i \in 1..Len(data) : c[i + 4] = [z |-> data[i].b]
  /\ c[1] = [hash |-> Tail(c)] /\ Tail(c) \in Seq(RestSym) /\ Len(Tail(c)) = Len(data) + 3

LEMMA TailOfCons ==
  ASSUME NEW S, NEW x \in S, NEW s \in Seq(S)
  PROVE  Tail(<<x>> \o s) = s
<1> DEFINE c == <<x>> \o s
           t == Tail(c)
<1>1. /\ c \in Seq(S) /\ Len(c) = Len(s) + 1 /\ Len(s) \in Nat
      /\ \A i \in 1..Len(s) : c[i + 1] = s[i]
  BY ConsFacts, LenProperties
<1> HIDE DEF c
<1>2. c # <<>>
  BY <1>1, EmptySequence
<1>3. t \in Seq(S) /\ Len(t) = Len(c) - 1 /\ \A i \in 1..Len(t) : t[i] = c[i + 1]
  BY <1>1, <1>2, HeadTailProperties
<1> HIDE DEF t
<1>4. Len(t) = Len(s) /\ \A i \in 1..Len(t) : t[i] = s[i]
  BY <1>1, <1>3
<1>5. t = s
  BY <1>3, <1>4, SeqEqual
<1> QED BY <1>5 DEF t, c

LEMMA TripleFacts ==
  ASSUME NEW S, NEW x \in S, NEW y \in S, NEW z \in S, NEW s \in Seq(S)
  PROVE  /\ <<x, y, z>> \o s \in Seq(S) /\ Len(<<x, y, z>> \o s) = Len(s) + 3
         /\ (<<x, y, z>> \o s)[1] = x /\ (<<x, y, z>> \o s)[2] = y /\ (<<x, y, z>> \o s)[3] = z
         /\ \A i \in 1..Len(s) : (<<x, y, z>> \o s)[i + 3] = s[i]
<1> DEFINE a == <<x, y, z>>
           c == a \o s
<1>1. a \in Seq(S) /\ Len(a) = 3 /\ a[1] = x /\ a[2] = y /\ a[3] = z
  OBVIOUS
<1> HIDE DEF a
<1>2. /\ c \in Seq(S) /\ Len(c) = Len(a) + Len(s) /\ Len(s) \in Nat
      /\ (\A i \in 1..Len(a) : c[i] = a[i]) /\ (\A i \in 1..Len(s) : c[Len(a) + i] = s[i])
  <2>1. a \in Seq(S)
    BY <1>1
  <2> QED BY <2>1, Concat
<1> HIDE DEF c
<1>3. c[1] = x /\ c[2] = y /\ c[3] = z /\ Len(c) = Len(s) + 3
  BY <1>1, <1>2
<1>4. \A i \in 1..Len(s) : c[i + 3] = s[i]
  <2>1. \A i \in 1..Len(s) : Len(a) + i = i + 3
    BY <1>1, <1>2
  <2> QED BY <1>2, <2>1
<1> QED BY <1>2, <1>3, <1>4 DEF c, a

LEMMA CompressedFacts ==
  ASSUME NEW data \in Seq(ByteSym)
  PROVE  FrameOf(Compressed(data), data)
<1> DEFINE k == Len(data)
           zs == [i \in DOMAIN data |-> [z |-> data[i].b]]
           m == [method |-> Method]
           n == [size |-> 1 + k]
           w == [raw |-> k]
           rest == <<m, n, w>> \o zs
           h == [hash |-> rest]
           c == <<h>> \o rest
<1>1. k \in Nat /\ DOMAIN data = 1..k /\ \A i \in 1..k : data[i].b \in Nat
  <2>1. \A i \in 1..k : data[i] \in ByteSym
    BY ElementOfSeq
  <2> QED BY <2>1, ByteIsNumber, LenProperties
<1>2. zs \in [1..k -> [z : Int]] /\ \A i \in 1..k : zs[i] = [z |-> data[i].b]
  BY <1>1
<1>3. zs \in [1..k -> RestSym]
  BY <1>2 DEF RestSym
<1>4. m \in RestSym /\ n \in RestSym /\ w \in RestSym
  <2>1. m \in [method : Known \cup {"other"}]
    BY DEF Method, Known
  <2>2. n \in [size : Int]
    BY <1>1
  <2>3. w \in [raw : Int]
    BY <1>1
  <2> QED BY <2>1, <2>2, <2>3 DEF RestSym
<1>c. Compressed(data) = c
  BY DEF Compressed
<1>n. m = [method |-> Method] /\ n = [size |-> 1 + k] /\ w = [raw |-> k] /\ k = Len(data)
  OBVIOUS
<1> HIDE DEF zs, m, n, w, k
<1>5. zs \in Seq(RestSym) /\ Len(zs) = k
  BY <1>1, <1>3, FunctionIsSeq
<1>6. /\ rest \in Seq(RestSym) /\ Len(rest) = Len(zs) + 3
      /\ rest[1] = m /\ rest[2] = n /\ rest[3] = w
      /\ \A i \in 1..Len(zs) : rest[i + 3] = zs[i]
  BY <1>4, <1>5, TripleFacts
<1> HIDE DEF rest
<1>7. h \in SentSym /\ rest \in Seq(SentSym)
  <2>1. h \in [hash : Seq(RestSym)]
    BY <1>6
  <2>2. RestSym \subseteq SentSym
    BY DEF SentSym
  <2>3. Len(rest) \in Nat /\ \A i \in 1..Len(rest) : rest[i] \in SentSym
    BY <1>6, <2>2, LenProperties, ElementOfSeq
  <2>4. rest = [i \in 1..Len(rest) |-> rest[i]]
    BY <1>6
  <2>5. rest \in [1..Len(rest) -> SentSym]
    BY <2>3, <2>4
  <2>6. rest \in Seq(SentSym)
    BY <2>3, <2>5, FunctionIsSeq
  <2> QED BY <2>1, <2>6 DEF SentSym
<1>h. h = [hash |-> rest]
  OBVIOUS
<1> HIDE DEF h
<1>8. /\ c \in Seq(SentSym) /\ Len(c) = Len(rest) + 1 /\ c[1] = h
      /\ \A i \in 1..Len(rest) : c[i + 1] = rest[i]
  BY <1>7, ConsFacts
<1>9. Tail(c) = rest
  BY <1>7, TailOfCons
<1> HIDE DEF c
<1>10. Len(c) = k + 4 /\ Len(rest) = k + 3
  BY <1>1, <1>5, <1>6, <1>8
<1>11. c[2] = m /\ c[3] = n /\ c[4] = w
  <2>1. 1 \in 1..Len(rest) /\ 2 \in 1..Len(rest) /\ 3 \in 1..Len(rest)
    BY <1>1, <1>10
  <2>2. c[1 + 1] = rest[1] /\ c[2 + 1] = rest[2] /\ c[3 + 1] = rest[3]
    BY <1>8, <2>1
  <2> QED BY <1>6, <2>2
<1>12. ASSUME NEW i \in 1..k PROVE c[i + 4] = [z |-> data[i].b]
  <2>1. i + 3 \in 1..Len(rest) /\ (i + 3) + 1 = i + 4 /\ i \in 1..Len(zs)
    BY <1>1, <1>5, <1>10
  <2> QED BY <1>2, <1>6, <1>8, <2>1
<1>13. FrameOf(c, data)
  BY <1>6, <1>8, <1>9, <1>10, <1>11, <1>12, <1>h, <1>n DEF FrameOf
<1> QED BY <1>13, <1>c

LEMMA DecompressedFacts ==
  ASSUME NEW data \in Seq(ByteSym)
  PROVE  Decompressed(Compressed(data)) = data
<1> DEFINE c == Compressed(data)
           k == Len(data)
           d == Decompressed(c)
<1>1. Len(c) = k + 4 /\ k \in Nat /\ \A i \in 1..k : c[i + 4] = [z |-> data[i].b]
  BY CompressedFacts, LenProperties DEF FrameOf
<1> HIDE DEF c
<1>2. d = [i \in 1..k |-> [b |-> c[i + 4].z]]
  <2>1. Len(c) - FrameHeader - 1 = k /\ \A i \in 1..k : i + FrameHeader + 1 = i + 4
    BY <1>1 DEF FrameHeader
  <2> QED BY <2>1 DEF Decompressed
<1>3. ASSUME NEW i \in 1..k PROVE d[i] = data[i] /\ data[i] \in ByteSym
  <2>1. data[i] \in ByteSym
    BY ElementOfSeq
  <2>2. data[i] = [b |-> data[i].b]
    BY <2>1 DEF ByteSym
  <2>5. c[i + 4] = [z |-> data[i].b]
    BY <1>1
  <2>3. c[i + 4].z = data[i].b
    BY <2>5
  <2>4. d[i] = [b |-> c[i + 4].z]
    BY <1>2
  <2> QED BY <2>1, <2>2, <2>3, <2>4
<1>4. d \in [1..k -> ByteSym]
  BY <1>2, <1>3
<1>5. d \in Seq(ByteSym) /\ Len(d) = k
  BY <1>1, <1>4, FunctionIsSeq
<1> HIDE DEF d
<1>6. d = data
  BY <1>3, <1>5, SeqEqual
<1> QED BY <1>6 DEF d, c

LEMMA ChangedFacts ==
  /\ \A x \in ByteSym : Changed(x) = {}
  /\ \A x : Changed([hash |-> x]) = {[hash |-> <<>>]}
  /\ Changed([method |-> Method]) = {[method |-> "ZSTD"], [method |-> "other"]}
  /\ \A x : Changed([size |-> x]) = {[size |-> x - 1], [size |-> x + 1]}
<1>1. ASSUME NEW x \in ByteSym PROVE Changed(x) = {}
  <2>1. DOMAIN x = {"b"}
    BY DEF ByteSym
  <2> QED BY <2>1 DEF Changed
<1>2. ASSUME NEW x PROVE Changed([hash |-> x]) = {[hash |-> <<>>]}
  BY DEF Changed
<1>3. Changed([method |-> Method]) = {[method |-> "ZSTD"], [method |-> "other"]}
  BY DEF Changed
<1>4. ASSUME NEW x PROVE Changed([size |-> x]) = {[size |-> x - 1], [size |-> x + 1]}
  <2>1. [size |-> x].size = x
    OBVIOUS
  <2> QED BY <2>1 DEF Changed
<1> QED BY <1>1, <1>2, <1>3, <1>4

\* f is what arrived of c, as changed.
Mangled(f, c, alt) ==
  \A m \in 1..Len(f) : m <= Len(c) => f[m] = c[m] \/ (alt /\ f[m] \in Changed(c[m]))

LEMMA DifferentErrors ==
  /\ NoFailure # "UnknownCompressionMethod" /\ NoFailure # "EOFError"
  /\ NoFailure # "ChecksumDoesntMatchError" /\ NoFailure # "struct.error"
  /\ NoFailure # "OperationalError"
BY Zenon DEF NoFailure

LEMMA FrameErrorCases ==
  ASSUME NEW f
  PROVE  /\ FrameError(f) = "UnknownCompressionMethod" => Len(f) > 1 /\ f[2].method \notin Known
         /\ FrameError(f) \in {"EOFError", NoFailure} => ~ (Len(f) < 3) /\ f[1] = [hash |-> Tail(f)]
         /\ FrameError(f) = "ChecksumDoesntMatchError" => f[1] # [hash |-> Tail(f)]
         /\ FrameError(f) = "EOFError" => Len(f) = 3 + 1
         /\ ~ (Len(f) < 3) => FrameError(f) \in {"UnknownCompressionMethod",
                                                 "ChecksumDoesntMatchError", "EOFError", NoFailure}
BY DifferentErrors DEF FrameError, FrameHeader

\* get_decompressed_data: a frame that has been changed is found out, and no other; a
\* complete one that is not an error is the frame of the block.
THEOREM FrameChecked ==
  ASSUME NEW b \in Seq(ByteSym), b # <<>>, NEW S, NEW f \in Seq(S), NEW alt \in BOOLEAN,
         Mangled(f, Compressed(b), alt)
  PROVE  /\ Len(f) >= 3 => f[3].size \in Nat \ {0} /\ FrameMissing(f) = 3 + f[3].size - Len(f)
         /\ FrameError(f) = NoFailure => f = Compressed(b) /\ FrameMissing(f) = 0
         /\ Len(f) >= 3 /\ FrameMissing(f) = 0 /\ FrameError(f) # NoFailure =>
              alt /\ FrameError(f) \in {"ChecksumDoesntMatchError", "UnknownCompressionMethod"}
         /\ FrameError(f) = "UnknownCompressionMethod" => alt
         /\ ~alt /\ (Len(f) >= 3 => FrameMissing(f) > 0) => Len(f) < Len(Compressed(b))
<1> DEFINE c == Compressed(b)
           k == Len(b)
           l == Len(f)
<1>1. FrameOf(c, b)
  BY CompressedFacts
<1>2. k \in Nat \ {0} /\ l \in Nat
  BY LenProperties, EmptySequence
<1>3. Mangled(f, c, alt)
  OBVIOUS
<1>4. k = Len(b) /\ l = Len(f)
  OBVIOUS
<1> HIDE DEF c, k, l
<1>5. /\ c \in Seq(SentSym) /\ Len(c) = k + 4
      /\ c[2] = [method |-> Method] /\ c[3] = [size |-> 1 + k]
      /\ c[1] = [hash |-> Tail(c)] /\ Tail(c) \in Seq(RestSym) /\ Len(Tail(c)) = k + 3
  BY <1>1, <1>4 DEF FrameOf
<1>6. \A m \in 1..l : m <= k + 4 => f[m] = c[m] \/ (alt /\ f[m] \in Changed(c[m]))
  BY <1>3, <1>4, <1>5 DEF Mangled
<1>7. ASSUME l >= 3 PROVE f[3].size \in {k, 1 + k, 2 + k} /\ (~alt => f[3].size = 1 + k)
  <2>1. 3 \in 1..l /\ 3 <= k + 4
    BY <1>2, <1>7
  <2>2. f[3] = c[3] \/ (alt /\ f[3] \in Changed(c[3]))
    BY <1>6, <2>1
  <2>3. Changed(c[3]) = {[size |-> (1 + k) - 1], [size |-> (1 + k) + 1]}
    BY <1>5, ChangedFacts
  <2>4. (1 + k) - 1 = k /\ (1 + k) + 1 = 2 + k
    BY <1>2
  <2>5. f[3] \in {[size |-> k], [size |-> 1 + k], [size |-> 2 + k]}
    BY <1>5, <2>2, <2>3, <2>4
  <2>6. ~alt => f[3] = [size |-> 1 + k]
    BY <1>5, <2>2
  <2> QED BY <2>5, <2>6
<1>8. ASSUME l >= 3 PROVE f[3].size \in Nat \ {0} /\ FrameMissing(f) = 3 + f[3].size - l
  <2>1. f[3].size \in Nat \ {0}
    BY <1>2, <1>7, <1>8
  <2> QED BY <1>2, <1>4, <1>8, <2>1 DEF FrameMissing, FrameHeader
<1>9. ASSUME FrameError(f) = "UnknownCompressionMethod" PROVE alt
  <2>1. l > 1 /\ f[2].method \notin Known
    BY <1>4, <1>9, FrameErrorCases
  <2>2. 2 \in 1..l /\ 2 <= k + 4
    BY <1>2, <2>1
  <2>3. f[2] = c[2] \/ alt
    BY <1>6, <2>2
  <2>4. c[2].method \in Known
    BY <1>5 DEF Method, Known
  <2> QED BY <2>1, <2>3, <2>4
<1>10. ASSUME FrameError(f) \in {"EOFError", NoFailure} PROVE f = c /\ l = k + 4
  <2>1. l >= 3 /\ f[1] = [hash |-> Tail(f)] /\ f # <<>>
    <3>1. ~ (l < 3) /\ f[1] = [hash |-> Tail(f)]
      BY <1>4, <1>10, FrameErrorCases
    <3> QED BY <1>2, <1>4, <3>1, EmptySeq
  <2>2. Tail(f) \in Seq(S) /\ Len(Tail(f)) = l - 1 /\ \A i \in 1..Len(Tail(f)) : Tail(f)[i] = f[i + 1]
    BY <1>4, <2>1, HeadTailProperties
  <2>3. Tail(f) # <<>>
    BY <1>2, <2>1, <2>2, EmptySeq
  <2>4. 1 \in 1..l /\ 1 <= k + 4
    BY <1>2, <2>1
  <2>5. f[1] = c[1] \/ f[1] = [hash |-> <<>>]
    BY <1>5, <1>6, <2>4, ChangedFacts, ZenonT(60)
  <2>6. Tail(f) = Tail(c)
    <3>1. f[1].hash = Tail(f) /\ c[1].hash = Tail(c)
      BY <1>5, <2>1
    <3>2. f[1] # [hash |-> <<>>]
      BY <2>3, <3>1
    <3> QED BY <2>5, <3>1, <3>2
  <2>7. l = k + 4
    BY <1>2, <1>5, <2>2, <2>6
  <2>8. ASSUME NEW i \in 1..l PROVE f[i] = c[i]
    <3>1. CASE i = 1
      BY <1>5, <2>1, <2>6, <3>1
    <3>2. CASE i # 1
      <4> DEFINE j == i - 1
      <4>1. j \in 1..l - 1 /\ i = j + 1
        BY <1>2, <3>2
      <4> HIDE DEF j
      <4>2. Tail(f)[j] = f[j + 1]
        BY <2>2, <4>1
      <4>3. c # <<>>
        BY <1>2, <1>5, EmptySeq
      <4>4. Tail(c)[j] = c[j + 1]
        <5>1. \A n \in 1..Len(Tail(c)) : Tail(c)[n] = c[n + 1]
          BY <1>5, <4>3, HeadTailProperties
        <5> QED BY <2>2, <2>6, <4>1, <5>1
      <4> QED BY <2>6, <4>1, <4>2, <4>4
    <3> QED BY <3>1, <3>2
  <2>9. Len(f) = Len(c)
    BY <1>4, <1>5, <2>7
  <2>10. f = c
    BY <1>4, <1>5, <2>8, <2>9, SeqEqual
  <2> QED BY <2>7, <2>10
<1>11. FrameMissing(c) = 0
  <2>1. c[3].size = 1 + k
    BY <1>5
  <2> QED BY <1>2, <1>5, <2>1 DEF FrameMissing, FrameHeader
<1>12. ASSUME l >= 3, FrameError(f) # NoFailure
       PROVE  \/ alt /\ FrameError(f) \in {"ChecksumDoesntMatchError", "UnknownCompressionMethod"}
              \/ FrameMissing(f) # 0
  <2> SUFFICES ASSUME FrameMissing(f) = 0
               PROVE  alt /\ FrameError(f) \in {"ChecksumDoesntMatchError", "UnknownCompressionMethod"}
    OBVIOUS
  <2>1. ~ (Len(f) < 3)
    BY <1>2, <1>4, <1>12
  <2>2. FrameError(f) # "EOFError"
    <3> SUFFICES ASSUME FrameError(f) = "EOFError" PROVE FALSE
      OBVIOUS
    <3>1. l = k + 4
      BY <1>10
    <3>2. l = 3 + 1
      BY <1>4, FrameErrorCases
    <3> QED BY <1>2, <3>1, <3>2
  <2>3. FrameError(f) \in {"ChecksumDoesntMatchError", "UnknownCompressionMethod"}
    BY <1>12, <2>1, <2>2, FrameErrorCases
  <2>4. CASE FrameError(f) = "ChecksumDoesntMatchError"
    <3> SUFFICES ASSUME ~alt PROVE FALSE
      BY <2>3
    <3>1. l = k + 4
      <4>1. FrameMissing(f) = 3 + f[3].size - l /\ f[3].size = 1 + k
        BY <1>7, <1>8, <1>12
      <4> QED BY <1>2, <4>1
    <3>2. \A m \in 1..l : f[m] = c[m]
      <4>1. \A m \in 1..l : m <= k + 4
        BY <1>2, <3>1
      <4> QED BY <1>6, <4>1
    <3>3. Len(f) = Len(c)
      BY <1>4, <1>5, <3>1
    <3>4. f = c
      BY <1>4, <1>5, <3>2, <3>3, SeqEqual
    <3>5. f[1] = [hash |-> Tail(f)]
      BY <1>5, <3>4
    <3> QED BY <2>4, <3>5, FrameErrorCases
  <2> QED BY <1>9, <2>3, <2>4
<1>13. ASSUME ~alt, l >= 3 => FrameMissing(f) > 0 PROVE l < k + 4
  <2>1. CASE l >= 3
    BY <1>2, <1>7, <1>8, <1>13, <2>1
  <2>2. CASE ~ (l >= 3)
    BY <1>2, <2>2
  <2> QED BY <2>1, <2>2
<1> QED BY <1>4, <1>5, <1>8, <1>9, <1>10, <1>11, <1>12, <1>13 DEF c

-----------------------------------------------------------------------------
(* What the writer sends                                                       *)

\* Of items, of a packet, of all packets.
Encodings(items) == [i \in DOMAIN items |-> Encoding(items[i])]
BytesOf(items)   == FlattenSeq(Encodings(items))
PacketWire(p, packed) ==
  BytesOf(p.head) \o (IF packed THEN Compressed(BytesOf(p.body)) ELSE BytesOf(p.body))
Wires(s)  == [k \in DOMAIN s.packets |-> PacketWire(s.packets[k], s.packed)]
WireOf(s) == FlattenSeq(Wires(s))

LEMMA SeqSubset ==
  ASSUME NEW T, NEW S \in SUBSET T, NEW s \in Seq(S)
  PROVE  s \in Seq(T)
<1>1. Len(s) \in Nat /\ s \in [1..Len(s) -> S]
  BY LenProperties
<1>2. s \in [1..Len(s) -> T]
  BY <1>1
<1> QED BY <1>1, <1>2, FunctionIsSeq

LEMMA BytesAreSent ==
  ASSUME NEW s \in Seq(ByteSym)
  PROVE  s \in Seq(SentSym)
<1>1. ByteSym \in SUBSET SentSym
  BY DEF SentSym
<1> QED BY <1>1, SeqSubset

LEMMA SentIsSym ==
  ASSUME NEW s \in Seq(SentSym)
  PROVE  s \in Seq(Sym)
<1>1. SentSym \in SUBSET Sym
  BY DEF Sym
<1> QED BY <1>1, SeqSubset

LEMMA FlattenType ==
  ASSUME NEW S, NEW ss \in Seq(Seq(S))
  PROVE  FlattenSeq(ss) \in Seq(S) /\ Len(FlattenSeq(ss)) \in Nat
<1>1. PICK f : f \in [Nat -> Seq(S)] /\ FlattenSeq(ss) = f[Len(ss)]
  BY Flattening
<1>2. Len(ss) \in Nat
  BY LenProperties
<1>3. FlattenSeq(ss) \in Seq(S)
  BY <1>1, <1>2
<1> QED BY <1>3, LenProperties

LEMMA IsSequenceFacts ==
  ASSUME NEW s, IsSequence(s), NEW S, \A i \in 1..Len(s) : s[i] \in S
  PROVE  s \in Seq(S) /\ DOMAIN s = 1..Len(s) /\ Len(s) \in Nat
<1> DEFINE n == Len(s)
<1>1. n \in Nat /\ s = [i \in 1..n |-> s[i]] /\ \A i \in 1..n : s[i] \in S
  BY DEF IsSequence
<1>n. n = Len(s)
  OBVIOUS
<1> HIDE DEF n
<1>2. s \in [1..n -> S]
  BY <1>1
<1> QED BY <1>1, <1>2, <1>n, FunctionIsSeq

LEMMA IsSequenceDomain ==
  ASSUME NEW s, IsSequence(s)
  PROVE  DOMAIN s = 1..Len(s) /\ Len(s) \in Nat
<1> DEFINE n == Len(s)
<1>1. n \in Nat /\ s = [i \in 1..n |-> s[i]]
  BY DEF IsSequence
<1>n. n = Len(s)
  OBVIOUS
<1> HIDE DEF n
<1>2. DOMAIN s = 1..n
  BY <1>1
<1> QED BY <1>1, <1>2, <1>n

PiecesOf(items) == FlattenSeq([i \in DOMAIN items |-> Written(items[i])])

LEMMA EncodingsFacts ==
  ASSUME NEW items, SendableItems(items)
  PROVE  /\ DOMAIN items = 1..Len(items) /\ Len(items) \in Nat
         /\ Encodings(items) \in Seq(Seq(ByteSym)) /\ Len(Encodings(items)) = Len(items)
         /\ \A i \in 1..Len(items) : /\ Encodings(items)[i] = Encoding(items[i])
                                     /\ Codes(Encoding(items[i]), items[i])
         /\ BytesOf(items) \in Seq(ByteSym) /\ Len(BytesOf(items)) \in Nat
         /\ PiecesOf(items) \in Seq(Seq(ByteSym)) /\ FlattenSeq(PiecesOf(items)) = BytesOf(items)
<1> DEFINE n == Len(items)
           ee == Encodings(items)
           ww == [i \in DOMAIN items |-> Written(items[i])]
<1>1. DOMAIN items = 1..n /\ n \in Nat
  BY IsSequenceDomain DEF SendableItems
<1>2. \A i \in 1..n : Sendable(items[i])
  BY <1>1 DEF SendableItems
<1>3. \A i \in 1..n : Codes(Encoding(items[i]), items[i])
  BY <1>2, ItemCodes
<1>n. n = Len(items)
  OBVIOUS
<1>4. ee = [i \in 1..n |-> Encoding(items[i])]
  BY <1>1 DEF Encodings
<1>5. ww = [i \in 1..n |-> Written(items[i])]
  BY <1>1
<1>e. ee = Encodings(items) /\ PiecesOf(items) = FlattenSeq(ww)
  BY DEF PiecesOf
<1> HIDE DEF n, ee, ww
<1>6. \A i \in 1..n : Encoding(items[i]) \in Seq(ByteSym)
  BY <1>3 DEF Codes
<1>7. \A i \in 1..n : Written(items[i]) \in Seq(Seq(ByteSym))
  BY <1>3 DEF Codes
<1>8. ee \in Seq(Seq(ByteSym)) /\ Len(ee) = n /\ \A i \in 1..n : ee[i] = Encoding(items[i])
  <2> DEFINE S == Seq(ByteSym)
  <2>1. ee \in [1..n -> S]
    BY <1>4, <1>6
  <2> HIDE DEF S
  <2>2. ee \in Seq(S) /\ Len(ee) = n
    BY <1>1, <2>1, FunctionIsSeq
  <2> QED BY <1>4, <2>2 DEF S
<1>9. ww \in Seq(Seq(Seq(ByteSym))) /\ Len(ww) = n /\ \A i \in 1..n : ww[i] = Written(items[i])
  <2> DEFINE S == Seq(Seq(ByteSym))
  <2>1. ww \in [1..n -> S]
    BY <1>5, <1>7
  <2> HIDE DEF S
  <2>2. ww \in Seq(S) /\ Len(ww) = n
    BY <1>1, <2>1, FunctionIsSeq
  <2> QED BY <1>5, <2>2 DEF S
<1>10. FlattenSeq(ee) \in Seq(ByteSym) /\ Len(FlattenSeq(ee)) \in Nat
  BY <1>8, FlattenType
<1>11. FlattenSeq(ww) \in Seq(Seq(ByteSym))
  <2> DEFINE S == Seq(ByteSym)
  <2>1. ww \in Seq(Seq(S))
    BY <1>9
  <2> HIDE DEF S
  <2>2. FlattenSeq(ww) \in Seq(S)
    BY <2>1, FlattenType
  <2> QED BY <2>2 DEF S
<1>12. FlattenSeq(FlattenSeq(ww)) = FlattenSeq(ee)
  <2>1. \A i \in 1..Len(ww) : ee[i] = FlattenSeq(ww[i])
    BY <1>8, <1>9 DEF Encoding
  <2>2. Len(ee) = Len(ww)
    BY <1>8, <1>9
  <2>3. ww \in Seq(Seq(Seq(ByteSym))) /\ ee \in Seq(Seq(ByteSym))
    BY <1>8, <1>9
  <2> QED BY <2>1, <2>2, <2>3, FlattenTwice
<1> QED BY <1>1, <1>3, <1>8, <1>10, <1>11, <1>12, <1>e, <1>n DEF BytesOf

LEMMA BytesOfSome ==
  ASSUME NEW items, SendableItems(items), items # <<>>
  PROVE  BytesOf(items) # <<>>
<1> DEFINE n == Len(items)
           ee == Encodings(items)
           w == FlattenSeq(ee)
<1>1. /\ n \in Nat /\ ee \in Seq(Seq(ByteSym)) /\ Len(ee) = n
      /\ \A i \in 1..n : ee[i] = Encoding(items[i]) /\ Codes(Encoding(items[i]), items[i])
  BY EncodingsFacts
<1>2. n # 0
  <2>1. items \in Seq({items[i] : i \in 1..n})
    BY IsSequenceFacts DEF SendableItems
  <2> QED BY <2>1, EmptySequence
<1>w. BytesOf(items) = w
  BY DEF BytesOf
<1> HIDE DEF ee, n
<1>3. PICK P : P \in [Nat -> Nat] /\ Begins(P, ee)
  BY <1>1, FlattenBegins
<1>4. 1 \in 1..n /\ Len(ee[1]) \in Nat \ {0}
  BY <1>1, <1>2 DEF Codes
<1>5. 1 \in 1..Len(ee) /\ 1 \in 1..Len(ee[1])
  BY <1>1, <1>4
<1>6. P[1 - 1] + 1 \in 1..Len(w)
  BY <1>3, <1>5 DEF Begins
<1> HIDE DEF w
<1>7. w = <<>> => Len(w) = 0
  BY EmptySeq
<1>8. P[1 - 1] \in Nat
  BY <1>3
<1> QED BY <1>6, <1>7, <1>8, <1>w

MaySend(s) == SendablePackets(s.packets) /\ s.packed \in BOOLEAN

LEMMA PacketsFacts ==
  ASSUME NEW s, MaySend(s)
  PROVE  /\ DOMAIN s.packets = 1..Len(s.packets) /\ Len(s.packets) \in Nat
         /\ \A k \in 1..Len(s.packets) :
              /\ SendableItems(s.packets[k].head) /\ SendableItems(s.packets[k].body)
              /\ s.packets[k].body # <<>>
<1>1. IsSequence(s.packets)
  BY DEF MaySend, SendablePackets
<1>2. DOMAIN s.packets = 1..Len(s.packets) /\ Len(s.packets) \in Nat
  BY <1>1, IsSequenceDomain
<1> QED BY <1>2 DEF MaySend, SendablePackets

LEMMA PacketWireFacts ==
  ASSUME NEW p, SendableItems(p.head), SendableItems(p.body), NEW packed \in BOOLEAN
  PROVE  PacketWire(p, packed) \in Seq(SentSym)
<1> DEFINE a == BytesOf(p.head)
           b == BytesOf(p.body)
           c == IF packed THEN Compressed(b) ELSE b
<1>1. a \in Seq(ByteSym) /\ b \in Seq(ByteSym)
  BY EncodingsFacts
<1>p. PacketWire(p, packed) = a \o c
  BY DEF PacketWire
<1> HIDE DEF a, b
<1>2. a \in Seq(SentSym) /\ b \in Seq(SentSym)
  BY <1>1, BytesAreSent
<1>3. Compressed(b) \in Seq(SentSym)
  BY <1>1, CompressedFacts DEF FrameOf
<1>4. c \in Seq(SentSym)
  BY <1>2, <1>3
<1> HIDE DEF c
<1>5. a \o c \in Seq(SentSym)
  BY <1>2, <1>4, Concat
<1> QED BY <1>5, <1>p

LEMMA WiresFacts ==
  ASSUME NEW s, MaySend(s)
  PROVE  /\ Wires(s) \in Seq(Seq(SentSym)) /\ Len(Wires(s)) = Len(s.packets)
         /\ \A k \in 1..Len(s.packets) : Wires(s)[k] = PacketWire(s.packets[k], s.packed)
         /\ WireOf(s) \in Seq(SentSym) /\ Len(WireOf(s)) \in Nat
<1> DEFINE n == Len(s.packets)
           w == Wires(s)
           S == Seq(SentSym)
<1>1. DOMAIN s.packets = 1..n /\ n \in Nat
  BY PacketsFacts
<1>2. \A k \in 1..n : SendableItems(s.packets[k].head) /\ SendableItems(s.packets[k].body)
  BY PacketsFacts
<1>3. \A k \in 1..n : PacketWire(s.packets[k], s.packed) \in S
  BY <1>2, PacketWireFacts DEF MaySend
<1>4. w = [k \in 1..n |-> PacketWire(s.packets[k], s.packed)]
  BY <1>1 DEF Wires
<1>n. n = Len(s.packets) /\ w = Wires(s)
  OBVIOUS
<1> HIDE DEF n, w, S
<1>5. w \in [1..n -> S]
  BY <1>3, <1>4
<1>6. w \in Seq(S) /\ Len(w) = n
  BY <1>1, <1>5, FunctionIsSeq
<1>7. w \in Seq(Seq(SentSym))
  BY <1>6 DEF S
<1>8. FlattenSeq(w) \in Seq(SentSym) /\ Len(FlattenSeq(w)) \in Nat
  BY <1>7, FlattenType
<1> QED BY <1>4, <1>6, <1>7, <1>8, <1>n DEF WireOf

\* The items, and which of them are of a head.
Wholes(s)   == [k \in DOMAIN s.packets |-> s.packets[k].head \o s.packets[k].body]
ItemsOf(s)  == FlattenSeq(Wholes(s))
InHead(s)   == [k \in DOMAIN s.packets |->
                 [j \in DOMAIN (s.packets[k].head \o s.packets[k].body) |->
                    j \in DOMAIN s.packets[k].head]]
Framed(s, i) == s.packed /\ ~FlattenSeq(InHead(s))[i]
ItemSet(s)  == {x \in UNION {{s.packets[k].head[j] : j \in 1..Len(s.packets[k].head)}
                             \cup {s.packets[k].body[j] : j \in 1..Len(s.packets[k].body)} :
                             k \in 1..Len(s.packets)} : Sendable(x)}

LEMMA HeadAndBody ==
  ASSUME NEW s, MaySend(s), NEW k \in 1..Len(s.packets)
  PROVE  /\ s.packets[k].head \in Seq(ItemSet(s)) /\ s.packets[k].body \in Seq(ItemSet(s))
         /\ Len(s.packets[k].body) # 0
<1> DEFINE h == s.packets[k].head
           b == s.packets[k].body
           I == ItemSet(s)
<1>1. SendableItems(h) /\ SendableItems(b) /\ b # <<>>
  BY PacketsFacts
<1>2. IsSequence(h) /\ IsSequence(b) /\ DOMAIN h = 1..Len(h) /\ DOMAIN b = 1..Len(b)
  BY <1>1, IsSequenceDomain DEF SendableItems
<1>3. (\A j \in 1..Len(h) : Sendable(h[j])) /\ (\A j \in 1..Len(b) : Sendable(b[j]))
  BY <1>1, <1>2 DEF SendableItems
<1>4. \A j \in 1..Len(h) : h[j] \in I
  BY <1>3 DEF ItemSet
<1>5. \A j \in 1..Len(b) : b[j] \in I
  BY <1>3 DEF ItemSet
<1> HIDE DEF h, b, I
<1>6. h \in Seq(I) /\ b \in Seq(I)
  BY <1>2, <1>4, <1>5, IsSequenceFacts
<1>7. Len(b) # 0
  BY <1>1, <1>6, EmptySequence
<1> QED BY <1>6, <1>7 DEF h, b, I

LEMMA WholesFacts ==
  ASSUME NEW s, MaySend(s)
  PROVE  /\ Wholes(s) \in Seq(Seq(ItemSet(s))) /\ Len(Wholes(s)) = Len(s.packets)
         /\ \A k \in 1..Len(s.packets) : Wholes(s)[k] = s.packets[k].head \o s.packets[k].body
         /\ ItemsOf(s) \in Seq(ItemSet(s)) /\ Len(ItemsOf(s)) \in Nat
<1> DEFINE n == Len(s.packets)
           w == Wholes(s)
           I == ItemSet(s)
           S == Seq(I)
<1>1. DOMAIN s.packets = 1..n /\ n \in Nat
  BY PacketsFacts
<1>3. ASSUME NEW k \in 1..n PROVE s.packets[k].head \o s.packets[k].body \in S
  <2> DEFINE h == s.packets[k].head
             b == s.packets[k].body
  <2>1. h \in Seq(I) /\ b \in Seq(I)
    BY HeadAndBody
  <2> HIDE DEF h, b, I
  <2>2. h \o b \in S
    BY <2>1, Concat
  <2> QED BY <2>2 DEF h, b
<1>4. w = [k \in 1..n |-> s.packets[k].head \o s.packets[k].body]
  BY <1>1 DEF Wholes
<1>n. n = Len(s.packets) /\ w = Wholes(s)
  OBVIOUS
<1> HIDE DEF n, w, S
<1>5. w \in [1..n -> S]
  BY <1>3, <1>4
<1>6. w \in Seq(S) /\ Len(w) = n
  BY <1>1, <1>5, FunctionIsSeq
<1>7. w \in Seq(Seq(I))
  BY <1>6 DEF S
<1> HIDE DEF I
<1>8. FlattenSeq(w) \in Seq(I) /\ Len(FlattenSeq(w)) \in Nat
  BY <1>7, FlattenType
<1> QED BY <1>4, <1>6, <1>7, <1>8, <1>n DEF ItemsOf, I

LEMMA InHeadFacts ==
  ASSUME NEW s, MaySend(s)
  PROVE  /\ InHead(s) \in Seq(Seq(BOOLEAN)) /\ Len(InHead(s)) = Len(s.packets)
         /\ \A k \in 1..Len(s.packets) :
              LET h == Len(s.packets[k].head)
                  b == Len(s.packets[k].body)
              IN  /\ h \in Nat /\ b \in Nat \ {0}
                  /\ Len(InHead(s)[k]) = h + b /\ Len(Wholes(s)[k]) = h + b
                  /\ \A j \in 1..h : /\ InHead(s)[k][j] = TRUE
                                     /\ Wholes(s)[k][j] = s.packets[k].head[j]
                  /\ \A j \in 1..b : /\ InHead(s)[k][h + j] = FALSE
                                     /\ Wholes(s)[k][h + j] = s.packets[k].body[j]
<1> DEFINE n == Len(s.packets)
           w == InHead(s)
           S == Seq(BOOLEAN)
           H(k) == Len(s.packets[k].head)
           B(k) == Len(s.packets[k].body)
<1>1. DOMAIN s.packets = 1..n /\ n \in Nat
  BY PacketsFacts
<1>3. ASSUME NEW k \in 1..n
      PROVE  LET h == s.packets[k].head
                 b == s.packets[k].body
             IN  /\ H(k) \in Nat /\ B(k) \in Nat \ {0} /\ DOMAIN h = 1..H(k)
                 /\ DOMAIN (h \o b) = 1..H(k) + B(k) /\ Len(Wholes(s)[k]) = H(k) + B(k)
                 /\ \A j \in 1..H(k) : Wholes(s)[k][j] = h[j]
                 /\ \A j \in 1..B(k) : Wholes(s)[k][H(k) + j] = b[j]
  <2> DEFINE h == s.packets[k].head
             b == s.packets[k].body
             I == ItemSet(s)
  <2>1. h \in Seq(I) /\ b \in Seq(I) /\ Len(b) # 0
    BY HeadAndBody
  <2>2. Wholes(s)[k] = h \o b /\ H(k) = Len(h) /\ B(k) = Len(b)
    BY WholesFacts
  <2> HIDE DEF h, b, I
  <2>3. /\ h \o b \in Seq(I) /\ Len(h \o b) = Len(h) + Len(b)
        /\ Len(h) \in Nat /\ Len(b) \in Nat
        /\ (\A j \in 1..Len(h) : (h \o b)[j] = h[j])
        /\ (\A j \in 1..Len(b) : (h \o b)[Len(h) + j] = b[j])
    BY <2>1, Concat
  <2>4. DOMAIN (h \o b) = 1..Len(h \o b) /\ DOMAIN h = 1..Len(h)
    BY <2>1, <2>3, LenProperties
  <2> DEFINE c == h \o b
  <2>5. /\ Len(c) = Len(h) + Len(b) /\ DOMAIN c = 1..Len(c) /\ Wholes(s)[k] = c
        /\ (\A j \in 1..Len(h) : c[j] = h[j]) /\ (\A j \in 1..Len(b) : c[Len(h) + j] = b[j])
    BY <2>2, <2>3, <2>4
  <2>c. c = h \o b
    OBVIOUS
  <2> HIDE DEF c, H, B
  <2>6. /\ H(k) \in Nat /\ B(k) \in Nat \ {0} /\ DOMAIN h = 1..H(k)
        /\ DOMAIN c = 1..H(k) + B(k) /\ Len(Wholes(s)[k]) = H(k) + B(k)
        /\ (\A j \in 1..H(k) : Wholes(s)[k][j] = h[j])
        /\ (\A j \in 1..B(k) : Wholes(s)[k][H(k) + j] = b[j])
    BY <2>1, <2>2, <2>3, <2>4, <2>5
  <2> QED BY <2>6, <2>c DEF h, b
<1>4. w = [k \in 1..n |-> [j \in 1..H(k) + B(k) |-> j \in 1..H(k)]]
  BY <1>1, <1>3 DEF InHead
<1>n. /\ n = Len(s.packets) /\ w = InHead(s)
      /\ \A k : H(k) = Len(s.packets[k].head) /\ B(k) = Len(s.packets[k].body)
  OBVIOUS
<1> HIDE DEF n, w, S, H, B
<1>5. ASSUME NEW k \in 1..n
      PROVE  w[k] \in S /\ Len(w[k]) = H(k) + B(k)
             /\ (\A j \in 1..H(k) : w[k][j] = TRUE) /\ (\A j \in 1..B(k) : w[k][H(k) + j] = FALSE)
  <2> DEFINE t == [j \in 1..H(k) + B(k) |-> j \in 1..H(k)]
             l == H(k) + B(k)
  <2>1. H(k) \in Nat /\ B(k) \in Nat
    BY <1>3
  <2>2. t \in [1..l -> BOOLEAN] /\ l \in Nat
    BY <2>1
  <2>b. \A j \in 1..l : t[j] = (j \in 1..H(k))
    OBVIOUS
  <2>t. t = [j \in 1..H(k) + B(k) |-> j \in 1..H(k)]
    OBVIOUS
  <2>l. l = H(k) + B(k)
    OBVIOUS
  <2> HIDE DEF t, l
  <2>3. ASSUME NEW j \in 1..H(k) PROVE t[j] = TRUE
    <3>1. j \in 1..l
      BY <2>1, <2>l
    <3> QED BY <2>b, <3>1
  <2>4. ASSUME NEW j \in 1..B(k) PROVE t[H(k) + j] = FALSE
    <3> DEFINE i == H(k) + j
    <3>1. i \in 1..l /\ ~ (i \in 1..H(k))
      BY <2>1, <2>l
    <3> HIDE DEF i
    <3>2. t[i] = (i \in 1..H(k))
      BY <2>b, <3>1
    <3>3. (i \in 1..H(k)) = FALSE
      BY <3>1
    <3>4. t[i] = FALSE
      BY <3>2, <3>3, Zenon
    <3> QED BY <3>4 DEF i
  <2>5. t \in Seq(BOOLEAN) /\ Len(t) = l
    BY <2>2, FunctionIsSeq
  <2>6. w[k] = t
    BY <1>4, <2>t
  <2> QED BY <2>3, <2>4, <2>5, <2>6, <2>l DEF S
<1>6. w \in [1..n -> S]
  BY <1>4, <1>5
<1>7. w \in Seq(S) /\ Len(w) = n
  BY <1>1, <1>6, FunctionIsSeq
<1>8. w \in Seq(Seq(BOOLEAN))
  BY <1>7 DEF S
<1>9. \A k \in 1..n :
        /\ H(k) \in Nat /\ B(k) \in Nat \ {0}
        /\ Len(w[k]) = H(k) + B(k) /\ Len(Wholes(s)[k]) = H(k) + B(k)
        /\ \A j \in 1..H(k) : w[k][j] = TRUE /\ Wholes(s)[k][j] = s.packets[k].head[j]
        /\ \A j \in 1..B(k) : /\ w[k][H(k) + j] = FALSE
                             /\ Wholes(s)[k][H(k) + j] = s.packets[k].body[j]
  <2> SUFFICES ASSUME NEW k \in 1..n
      PROVE  /\ H(k) \in Nat /\ B(k) \in Nat \ {0}
             /\ Len(w[k]) = H(k) + B(k) /\ Len(Wholes(s)[k]) = H(k) + B(k)
             /\ \A j \in 1..H(k) : w[k][j] = TRUE /\ Wholes(s)[k][j] = s.packets[k].head[j]
             /\ \A j \in 1..B(k) : /\ w[k][H(k) + j] = FALSE
                                  /\ Wholes(s)[k][H(k) + j] = s.packets[k].body[j]
    BY Zenon
  <2>1. /\ H(k) \in Nat /\ B(k) \in Nat \ {0} /\ Len(Wholes(s)[k]) = H(k) + B(k)
        /\ \A j \in 1..H(k) : Wholes(s)[k][j] = s.packets[k].head[j]
        /\ \A j \in 1..B(k) : Wholes(s)[k][H(k) + j] = s.packets[k].body[j]
    BY <1>3, Zenon
  <2>2. /\ Len(w[k]) = H(k) + B(k) /\ (\A j \in 1..H(k) : w[k][j] = TRUE)
        /\ \A j \in 1..B(k) : w[k][H(k) + j] = FALSE
    BY <1>5, Zenon
  <2> QED BY <2>1, <2>2, Zenon
<1> QED BY <1>7, <1>8, <1>9, <1>n, ZenonT(60)

-----------------------------------------------------------------------------
(* Where the items are                                                         *)

Start(ss) == CHOOSE P : P \in [Nat -> Nat] /\ Begins(P, ss)

LEMMA StartFacts ==
  ASSUME NEW S, NEW ss \in Seq(Seq(S))
  PROVE  Start(ss) \in [Nat -> Nat] /\ Begins(Start(ss), ss)
BY FlattenBegins DEF Start

LEMMA AtFlatten ==
  ASSUME NEW S, NEW ss \in Seq(Seq(S)), NEW i \in 1..Len(ss)
  PROVE  /\ At(ss[i], FlattenSeq(ss), Start(ss)[i - 1])
         /\ Start(ss)[i] = Start(ss)[i - 1] + Len(ss[i])
         /\ Start(ss)[i] <= Len(FlattenSeq(ss))
         /\ Start(ss)[i] \in Nat /\ Start(ss)[i - 1] \in Nat
<1> DEFINE P == Start(ss)
           w == FlattenSeq(ss)
           n == Len(ss)
<1>1. P \in [Nat -> Nat] /\ Begins(P, ss)
  BY StartFacts
<1>2. n \in Nat /\ ss[i] \in Seq(S) /\ Len(ss[i]) \in Nat
  BY LenProperties, ElementOfSeq
<1>n. n = Len(ss) /\ w = FlattenSeq(ss)
  OBVIOUS
<1> HIDE DEF P, w, n
<1>3. /\ P[i] = P[i - 1] + Len(ss[i]) /\ Len(w) = P[n]
      /\ (\A a, c \in 0..n : a <= c => P[a] <= P[c])
      /\ \A j \in 1..Len(ss[i]) : w[P[i - 1] + j] = ss[i][j]
  BY <1>1, <1>n DEF Begins
<1>4. i \in 0..n /\ n \in 0..n /\ i <= n /\ i \in Nat /\ i - 1 \in Nat
  BY <1>2, <1>n
<1>5. P[i] <= P[n] /\ P[i] \in Nat /\ P[i - 1] \in Nat /\ P[n] \in Nat
  BY <1>1, <1>2, <1>3, <1>4
<1>6. At(ss[i], w, P[i - 1])
  BY <1>2, <1>3, <1>5 DEF At
<1> QED BY <1>3, <1>5, <1>6, <1>n DEF P

LEMMA SameStart ==
  ASSUME NEW S, NEW T, NEW ss \in Seq(Seq(S)), NEW tt \in Seq(Seq(T)), Len(ss) = Len(tt),
         \A k \in 1..Len(ss) : Len(ss[k]) = Len(tt[k])
  PROVE  \A k \in 0..Len(ss) : Start(ss)[k] = Start(tt)[k]
<1> DEFINE P == Start(ss)
           Q == Start(tt)
           n == Len(ss)
           X == {k \in Nat : k <= n => P[k] = Q[k]}
<1>1. P[0] = 0 /\ \A k \in 1..n : P[k] = P[k - 1] + Len(ss[k])
  BY StartFacts DEF Begins
<1>2. Q[0] = 0 /\ \A k \in 1..n : Q[k] = Q[k - 1] + Len(ss[k])
  <2>1. Q[0] = 0 /\ \A k \in 1..Len(tt) : Q[k] = Q[k - 1] + Len(tt[k])
    BY StartFacts DEF Begins
  <2> QED BY <2>1
<1>3. n \in Nat
  BY LenProperties
<1> HIDE DEF P, Q, n
<1>4. 0 \in X
  BY <1>1, <1>2
<1>5. ASSUME NEW k \in Nat, k \in X PROVE k + 1 \in X
  <2> SUFFICES ASSUME k + 1 <= n PROVE P[k + 1] = Q[k + 1]
    OBVIOUS
  <2>1. k + 1 \in 1..n /\ (k + 1) - 1 = k /\ k <= n
    BY <1>3
  <2>2. P[k + 1] = P[k] + Len(ss[k + 1]) /\ Q[k + 1] = Q[k] + Len(ss[k + 1])
    BY <1>1, <1>2, <2>1
  <2> QED BY <1>5, <2>1, <2>2
<1>6. \A k \in Nat : k \in X
  <2> HIDE DEF X
  <2> QED BY <1>4, <1>5, Induction
<1>7. \A k \in 0..n : k \in Nat /\ k <= n
  BY <1>3
<1> QED BY <1>6, <1>7 DEF P, Q, n

\* Where the items of a head or of a body begin.
Lays(P, items) ==
  /\ P[0] = 0 /\ P[Len(items)] = Len(BytesOf(items))
  /\ \A j \in 1..Len(items) :
       /\ P[j] = P[j - 1] + Len(Encoding(items[j])) /\ P[j - 1] \in Nat
       /\ Len(Encoding(items[j])) \in Nat \ {0} /\ P[j] <= Len(BytesOf(items))
       /\ At(Encoding(items[j]), BytesOf(items), P[j - 1])
       /\ j < Len(items) <=> P[j] < Len(BytesOf(items))

LEMMA LaysOut ==
  ASSUME NEW items, SendableItems(items)
  PROVE  Lays(Start(Encodings(items)), items)
<1> DEFINE n == Len(items)
           ee == Encodings(items)
           P == Start(ee)
           w == FlattenSeq(ee)
<1>1. /\ n \in Nat /\ ee \in Seq(Seq(ByteSym)) /\ Len(ee) = n
      /\ \A i \in 1..n : ee[i] = Encoding(items[i]) /\ Codes(Encoding(items[i]), items[i])
      /\ Len(w) \in Nat
  BY EncodingsFacts DEF BytesOf
<1>w. BytesOf(items) = w /\ n = Len(items)
  BY DEF BytesOf
<1>2. P[0] = 0 /\ P[n] = Len(w)
  BY <1>1, StartFacts DEF Begins
<1>3. ASSUME NEW j \in 1..n
      PROVE  /\ P[j] = P[j - 1] + Len(ee[j]) /\ P[j - 1] \in Nat /\ P[j] \in Nat
             /\ P[j] <= Len(w) /\ At(ee[j], w, P[j - 1]) /\ Len(ee[j]) \in Nat \ {0}
  <2>1. j \in 1..Len(ee)
    BY <1>1
  <2>2. Len(ee[j]) \in Nat \ {0}
    BY <1>1 DEF Codes
  <2> HIDE DEF ee
  <2> QED BY <1>1, <2>1, <2>2, AtFlatten
<1> HIDE DEF P, w, ee, n
<1>4. ASSUME NEW j \in 1..n PROVE j < n <=> P[j] < Len(w)
  <2>1. CASE j < n
    <3>1. j + 1 \in 1..n /\ (j + 1) - 1 = j
      BY <1>1, <2>1
    <3>2. P[j + 1] = P[j] + Len(ee[j + 1]) /\ P[j + 1] <= Len(w) /\ Len(ee[j + 1]) \in Nat \ {0}
      BY <1>3, <3>1
    <3>3. P[j] \in Nat
      BY <1>3
    <3>4. P[j] < Len(w)
      BY <1>1, <3>2, <3>3
    <3> QED BY <2>1, <3>4
  <2>2. CASE ~(j < n)
    <3>1. j = n
      BY <1>1, <2>2
    <3> QED BY <1>1, <1>2, <2>2, <3>1
  <2> QED BY <2>1, <2>2
<1>5. Lays(P, items)
  <2> SUFFICES ASSUME NEW j \in 1..n
      PROVE  /\ P[j] = P[j - 1] + Len(Encoding(items[j])) /\ P[j - 1] \in Nat
             /\ Len(Encoding(items[j])) \in Nat \ {0} /\ P[j] <= Len(w)
             /\ At(Encoding(items[j]), w, P[j - 1])
             /\ j < n <=> P[j] < Len(w)
    BY <1>2, <1>w DEF Lays
  <2>1. ee[j] = Encoding(items[j])
    BY <1>1
  <2> QED BY <1>3, <1>4, <2>1
<1> QED BY <1>5 DEF P, ee

\* The block of a packet, as it is sent.
BlockWire(p, packed) == IF packed THEN Compressed(BytesOf(p.body)) ELSE BytesOf(p.body)

LEMMA BlockWireFacts ==
  ASSUME NEW s, MaySend(s), NEW k \in 1..Len(s.packets)
  PROVE  LET p == s.packets[k]
         IN  /\ BytesOf(p.head) \in Seq(SentSym) /\ BlockWire(p, s.packed) \in Seq(SentSym)
             /\ BytesOf(p.body) \in Seq(ByteSym)
             /\ PacketWire(p, s.packed) = BytesOf(p.head) \o BlockWire(p, s.packed)
<1> DEFINE p == s.packets[k]
           a == BytesOf(p.head)
           b == BytesOf(p.body)
<1>1. SendableItems(p.head) /\ SendableItems(p.body)
  BY PacketsFacts
<1>2. a \in Seq(ByteSym) /\ b \in Seq(ByteSym)
  BY <1>1, EncodingsFacts
<1>3. PacketWire(p, s.packed) = a \o BlockWire(p, s.packed)
  BY DEF PacketWire, BlockWire
<1>w. BlockWire(p, s.packed) = IF s.packed THEN Compressed(b) ELSE b
  BY DEF BlockWire
<1> HIDE DEF a, b
<1>4. a \in Seq(SentSym) /\ b \in Seq(SentSym)
  BY <1>2, BytesAreSent
<1>5. Compressed(b) \in Seq(SentSym)
  BY <1>2, CompressedFacts DEF FrameOf
<1>6. BlockWire(p, s.packed) \in Seq(SentSym)
  BY <1>4, <1>5, <1>w DEF MaySend
<1> HIDE DEF p
<1> QED BY <1>2, <1>3, <1>4, <1>6 DEF a, b, p

LEMMA WirePlaces ==
  ASSUME NEW s, MaySend(s), NEW k \in 1..Len(s.packets)
  PROVE  LET p == s.packets[k]
             q == Start(Wires(s))[k - 1]
             l == Len(BytesOf(p.head))
         IN  /\ q \in Nat /\ l \in Nat /\ Len(BlockWire(p, s.packed)) \in Nat
             /\ Start(Wires(s))[k] = q + l + Len(BlockWire(p, s.packed))
             /\ At(BytesOf(p.head), WireOf(s), q) /\ At(BlockWire(p, s.packed), WireOf(s), q + l)
<1> DEFINE p == s.packets[k]
           ww == Wires(s)
           q == Start(ww)[k - 1]
           a == BytesOf(p.head)
           b == BlockWire(p, s.packed)
           w == WireOf(s)
<1>1. a \in Seq(SentSym) /\ b \in Seq(SentSym) /\ PacketWire(p, s.packed) = a \o b
  BY BlockWireFacts
<1>2. /\ ww \in Seq(Seq(SentSym)) /\ k \in 1..Len(ww) /\ ww[k] = PacketWire(p, s.packed)
      /\ w = FlattenSeq(ww) /\ Len(w) \in Nat
  BY WiresFacts DEF WireOf
<1> HIDE DEF a, b, w, ww, p
<1>3. /\ At(ww[k], FlattenSeq(ww), Start(ww)[k - 1])
      /\ Start(ww)[k] = Start(ww)[k - 1] + Len(ww[k]) /\ Start(ww)[k - 1] \in Nat
  BY <1>2, AtFlatten
<1>4. Len(a \o b) = Len(a) + Len(b) /\ Len(a) \in Nat /\ Len(b) \in Nat
  BY <1>1, Concat
<1>5. At(a \o b, w, q) <=> At(a, w, q) /\ At(b, w, q + Len(a))
  BY <1>1, <1>2, AtConcat
<1>6. At(a, w, q) /\ At(b, w, q + Len(a))
  BY <1>1, <1>2, <1>3, <1>5
<1>7. Start(ww)[k] = q + Len(a) + Len(b)
  BY <1>1, <1>2, <1>3, <1>4
<1> QED BY <1>3, <1>4, <1>6, <1>7 DEF a, b, w, ww, p

HeadPlace(s, k, j) ==
  LET i == Start(Wholes(s))[k - 1] + j
  IN  ItemsOf(s)[i] = s.packets[k].head[j] /\ ~Framed(s, i)
BodyPlace(s, k, j) ==
  LET i == Start(Wholes(s))[k - 1] + Len(s.packets[k].head) + j
  IN  ItemsOf(s)[i] = s.packets[k].body[j] /\ (Framed(s, i) <=> s.packed)

LEMMA ItemPlaces ==
  ASSUME NEW s, MaySend(s), NEW k \in 1..Len(s.packets)
  PROVE  /\ Start(Wholes(s))[k - 1] \in Nat
         /\ Len(s.packets[k].head) \in Nat /\ Len(s.packets[k].body) \in Nat \ {0}
         /\ Start(Wholes(s))[k] = Start(Wholes(s))[k - 1] + Len(s.packets[k].head)
                                  + Len(s.packets[k].body)
         /\ Start(Wholes(s))[k - 1] + Len(s.packets[k].head) + Len(s.packets[k].body)
              <= Len(ItemsOf(s))
         /\ \A j \in 1..Len(s.packets[k].head) : HeadPlace(s, k, j)
         /\ \A j \in 1..Len(s.packets[k].body) : BodyPlace(s, k, j)
<1> DEFINE p == s.packets[k]
           h == Len(p.head)
           b == Len(p.body)
           n == Len(s.packets)
           ww == Wholes(s)
           hh == InHead(s)
           i == Start(ww)[k - 1]
           w == ItemsOf(s)
           u == FlattenSeq(hh)
           I == ItemSet(s)
<1>1. /\ hh \in Seq(Seq(BOOLEAN)) /\ Len(hh) = n
      /\ \A m \in 1..n : Len(hh[m]) = Len(ww[m])
      /\ h \in Nat /\ b \in Nat \ {0} /\ Len(hh[k]) = h + b /\ Len(ww[k]) = h + b
      /\ (\A j \in 1..h : hh[k][j] = TRUE /\ ww[k][j] = p.head[j])
      /\ (\A j \in 1..b : hh[k][h + j] = FALSE /\ ww[k][h + j] = p.body[j])
  <2>1. hh \in Seq(Seq(BOOLEAN)) /\ Len(hh) = n
    BY InHeadFacts
  <2>2. ASSUME NEW m \in 1..n PROVE Len(hh[m]) = Len(ww[m])
    <3>1. Len(hh[m]) = Len(s.packets[m].head) + Len(s.packets[m].body)
      BY InHeadFacts
    <3>2. Len(ww[m]) = Len(s.packets[m].head) + Len(s.packets[m].body)
      BY InHeadFacts
    <3> QED BY <3>1, <3>2
  <2>3. h \in Nat /\ b \in Nat \ {0} /\ Len(hh[k]) = h + b /\ Len(ww[k]) = h + b
    BY InHeadFacts
  <2>4. \A j \in 1..h : hh[k][j] = TRUE /\ ww[k][j] = p.head[j]
    BY InHeadFacts, ZenonT(60)
  <2>5. \A j \in 1..b : hh[k][h + j] = FALSE /\ ww[k][h + j] = p.body[j]
    BY InHeadFacts, ZenonT(60)
  <2> HIDE DEF h, b, hh, ww, n, p
  <2> QED BY <2>1, <2>2, <2>3, <2>4, <2>5
<1>2. ww \in Seq(Seq(I)) /\ Len(ww) = n /\ w = FlattenSeq(ww)
  BY WholesFacts DEF ItemsOf
<1>n. k \in 1..n /\ n \in Nat
  BY PacketsFacts
<1>f. \A m : Framed(s, m) <=> s.packed /\ ~u[m]
  BY DEF Framed
<1> HIDE DEF p, h, b, n, ww, hh, w, u, I
<1>3. k \in 1..Len(ww) /\ k \in 1..Len(hh)
  BY <1>1, <1>2, <1>n
<1>4. /\ At(ww[k], w, i) /\ Start(ww)[k] = i + Len(ww[k])
      /\ Start(ww)[k] <= Len(w) /\ i \in Nat
  BY <1>2, <1>3, AtFlatten
<1>5. At(hh[k], u, Start(hh)[k - 1])
  BY <1>1, <1>3, AtFlatten DEF u
<1>6. Start(hh)[k - 1] = i
  <2>1. \A m \in 0..Len(ww) : Start(ww)[m] = Start(hh)[m]
    <3>1. Len(ww) = Len(hh) /\ \A m \in 1..Len(ww) : Len(ww[m]) = Len(hh[m])
      BY <1>1, <1>2
    <3>2. ww \in Seq(Seq(I)) /\ hh \in Seq(Seq(BOOLEAN))
      BY <1>1, <1>2
    <3> QED BY <3>1, <3>2, SameStart
  <2>2. k - 1 \in 0..Len(ww)
    BY <1>2, <1>n
  <2> QED BY <2>1, <2>2
<1> HIDE DEF i
<1>7. Start(ww)[k] = i + h + b /\ i + h + b <= Len(w)
  BY <1>1, <1>4
<1>8. ASSUME NEW j \in 1..h PROVE w[i + j] = p.head[j] /\ ~Framed(s, i + j)
  <2>1. j \in 1..h + b
    BY <1>1
  <2>2. ww[k][j] = w[i + j]
    BY <1>1, <1>4, <2>1 DEF At
  <2>3. hh[k][j] = u[i + j]
    BY <1>1, <1>5, <1>6, <2>1 DEF At
  <2>4. u[i + j] = TRUE
    BY <1>1, <2>3, Zenon
  <2>5. ~Framed(s, i + j)
    BY <1>f, <2>4
  <2> QED BY <1>1, <2>2, <2>5
<1>9. ASSUME NEW j \in 1..b
      PROVE  w[i + h + j] = p.body[j] /\ (Framed(s, i + h + j) <=> s.packed)
  <2>1. h + j \in 1..h + b /\ i + (h + j) = i + h + j
    BY <1>1, <1>4
  <2>2. ww[k][h + j] = w[i + h + j]
    BY <1>1, <1>4, <2>1 DEF At
  <2>3. hh[k][h + j] = u[i + h + j]
    BY <1>1, <1>5, <1>6, <2>1 DEF At
  <2>4. u[i + h + j] = FALSE
    BY <1>1, <2>3, Zenon
  <2>5. Framed(s, i + h + j) <=> s.packed
    BY <1>f, <2>4
  <2> QED BY <1>1, <2>2, <2>5
<1>10. \A j \in 1..h : HeadPlace(s, k, j)
  BY <1>8 DEF HeadPlace, i, w, p, ww
<1>11. \A j \in 1..b : BodyPlace(s, k, j)
  BY <1>9 DEF BodyPlace, i, w, p, ww, h
<1> QED BY <1>1, <1>4, <1>7, <1>10, <1>11 DEF i, h, b, w, p, ww

\* Item i begins at q on the wire; or its frame does, and it is at o in the block b.
HeadSpot(s, k, j, i, q, o) ==
  LET p == s.packets[k]
  IN  /\ k \in 1..Len(s.packets) /\ j \in 1..Len(p.head)
      /\ i = Start(Wholes(s))[k - 1] + j
      /\ q = Start(Wires(s))[k - 1] + Start(Encodings(p.head))[j - 1] /\ o = 0
BodySpot(s, k, j, i, q, o) ==
  LET p == s.packets[k]
  IN  /\ k \in 1..Len(s.packets) /\ j \in 1..Len(p.body) /\ ~s.packed
      /\ i = Start(Wholes(s))[k - 1] + Len(p.head) + j
      /\ q = Start(Wires(s))[k - 1] + Len(BytesOf(p.head)) + Start(Encodings(p.body))[j - 1]
      /\ o = 0
FrameSpot(s, k, j, i, q, o, b) ==
  LET p == s.packets[k]
  IN  /\ k \in 1..Len(s.packets) /\ j \in 1..Len(p.body) /\ s.packed
      /\ i = Start(Wholes(s))[k - 1] + Len(p.head) + j
      /\ q = Start(Wires(s))[k - 1] + Len(BytesOf(p.head))
      /\ o = Start(Encodings(p.body))[j - 1] /\ b = BytesOf(p.body)
EndSpot(s, i, q, o) == i = Len(ItemsOf(s)) + 1 /\ q = Len(WireOf(s)) /\ o = 0
Spot(s, i, q, o, b) ==
  \/ \E k \in 1..Len(s.packets) :
       \/ \E j \in 1..Len(s.packets[k].head) : HeadSpot(s, k, j, i, q, o)
       \/ \E j \in 1..Len(s.packets[k].body) :
            BodySpot(s, k, j, i, q, o) \/ FrameSpot(s, k, j, i, q, o, b)
  \/ EndSpot(s, i, q, o)

\* The first item of a block, and of a packet.
LEMMA SpotOfBody ==
  ASSUME NEW s, MaySend(s), NEW k \in 1..Len(s.packets)
  PROVE  \E b \in Seq(ByteSym) :
           Spot(s, Start(Wholes(s))[k - 1] + Len(s.packets[k].head) + 1,
                Start(Wires(s))[k - 1] + Len(BytesOf(s.packets[k].head)), 0, b)
<1> DEFINE p == s.packets[k]
           b == BytesOf(p.body)
           i == Start(Wholes(s))[k - 1] + Len(p.head) + 1
           q == Start(Wires(s))[k - 1] + Len(BytesOf(p.head))
<1>1. b \in Seq(ByteSym)
  BY BlockWireFacts
<1>2. 1 \in 1..Len(p.body)
  <2>1. Len(p.body) \in Nat \ {0}
    BY ItemPlaces
  <2> QED BY <2>1
<1>3. Start(Encodings(p.body))[1 - 1] = 0
  <2>1. SendableItems(p.body)
    BY PacketsFacts
  <2> QED BY <2>1, LaysOut DEF Lays
<1>4. CASE s.packed
  <2>1. FrameSpot(s, k, 1, i, q, 0, b)
    BY <1>2, <1>3, <1>4 DEF FrameSpot
  <2>2. Spot(s, i, q, 0, b)
    BY <1>2, <2>1 DEF Spot
  <2> QED BY <1>1, <2>2
<1>5. CASE ~s.packed
  <2>1. q = q + 0
    <3>1. Start(Wires(s))[k - 1] \in Nat /\ Len(BytesOf(p.head)) \in Nat
      BY WirePlaces
    <3> QED BY <3>1
  <2>2. BodySpot(s, k, 1, i, q, 0)
    BY <1>2, <1>3, <1>5, <2>1 DEF BodySpot
  <2>3. Spot(s, i, q, 0, b)
    BY <1>2, <2>2 DEF Spot
  <2> QED BY <1>1, <2>3
<1> QED BY <1>4, <1>5

LEMMA SpotOfPacket ==
  ASSUME NEW s, MaySend(s), NEW k \in 0..Len(s.packets)
  PROVE  \E b \in Seq(ByteSym) : Spot(s, Start(Wholes(s))[k] + 1, Start(Wires(s))[k], 0, b)
<1> DEFINE n == Len(s.packets)
           i == Start(Wholes(s))[k]
           q == Start(Wires(s))[k]
<1>0. n \in Nat /\ n = Len(s.packets)
  BY PacketsFacts
<1>1. CASE k = n
  <2>1. i = Len(ItemsOf(s))
    <3>1. Wholes(s) \in Seq(Seq(ItemSet(s))) /\ Len(Wholes(s)) = n
      BY WholesFacts
    <3> QED BY <1>1, <3>1, StartFacts DEF Begins, ItemsOf
  <2>2. q = Len(WireOf(s))
    <3>1. Wires(s) \in Seq(Seq(SentSym)) /\ Len(Wires(s)) = n
      BY WiresFacts
    <3> QED BY <1>1, <3>1, StartFacts DEF Begins, WireOf
  <2>3. Spot(s, i + 1, q, 0, <<>>)
    BY <2>1, <2>2 DEF Spot, EndSpot
  <2>4. <<>> \in Seq(ByteSym)
    OBVIOUS
  <2> QED BY <2>3, <2>4
<1>2. CASE k # n
  <2> DEFINE m == k + 1
             p == s.packets[m]
  <2>1. m \in 1..n /\ m - 1 = k
    BY <1>0, <1>2
  <2>2. SendableItems(p.head)
    BY <2>1, PacketsFacts
  <2>3. Len(p.head) \in Nat /\ i \in Nat
    <3>1. Len(p.head) \in Nat /\ Start(Wholes(s))[m - 1] \in Nat
      <4> HIDE DEF m
      <4> QED BY <2>1, ItemPlaces
    <3> QED BY <2>1, <3>1
  <2>4. q \in Nat
    BY <2>1, WirePlaces
  <2>5. Lays(Start(Encodings(p.head)), p.head)
    BY <2>2, LaysOut
  <2>6. CASE Len(p.head) = 0
    <3>1. Len(BytesOf(p.head)) = 0
      BY <2>5, <2>6 DEF Lays
    <3>2. i + Len(p.head) + 1 = i + 1 /\ q + Len(BytesOf(p.head)) = q
      BY <2>3, <2>4, <2>6, <3>1
    <3>3. \E b \in Seq(ByteSym) : Spot(s, Start(Wholes(s))[m - 1] + Len(p.head) + 1,
                                       Start(Wires(s))[m - 1] + Len(BytesOf(p.head)), 0, b)
      BY <2>1, SpotOfBody
    <3> QED BY <2>1, <3>2, <3>3
  <2>7. CASE Len(p.head) # 0
    <3>1. 1 \in 1..Len(p.head)
      BY <2>3, <2>7
    <3>2. Start(Encodings(p.head))[1 - 1] = 0 /\ q + 0 = q
      BY <2>4, <2>5 DEF Lays
    <3>3. HeadSpot(s, m, 1, i + 1, q, 0)
      BY <2>1, <3>1, <3>2 DEF HeadSpot
    <3>4. Spot(s, i + 1, q, 0, <<>>)
      BY <2>1, <3>1, <3>3 DEF Spot
    <3>5. <<>> \in Seq(ByteSym)
      OBVIOUS
    <3> QED BY <3>4, <3>5
  <2> QED BY <2>6, <2>7
<1> QED BY <1>1, <1>2

\* What is true of the item at a spot that is not in a frame.
Clear(s, i, q, o) ==
  /\ i \in Nat /\ i <= Len(ItemsOf(s)) /\ ~Framed(s, i) /\ q \in Nat /\ o = 0
  /\ At(Encoding(ItemsOf(s)[i]), WireOf(s), q)
  /\ \E b \in Seq(ByteSym) : Spot(s, i + 1, q + Len(Encoding(ItemsOf(s)[i])), 0, b)

LEMMA HeadSpotMoves ==
  ASSUME NEW s, MaySend(s), NEW k, NEW j, NEW i, NEW q, NEW o, HeadSpot(s, k, j, i, q, o)
  PROVE  Clear(s, i, q, o)
<1> DEFINE p == s.packets[k]
           h == p.head
           w == BytesOf(h)
           P == Start(Encodings(h))
           W == Start(Wholes(s))[k - 1]
           X == Start(Wires(s))[k - 1]
           e == Encoding(h[j])
           z == WireOf(s)
<1>1. k \in 1..Len(s.packets) /\ j \in 1..Len(h) /\ i = W + j /\ q = X + P[j - 1] /\ o = 0
  BY DEF HeadSpot
<1>2. SendableItems(h)
  BY <1>1, PacketsFacts
<1>3. Lays(P, h)
  BY <1>2, LaysOut
<1>4. /\ P[j] = P[j - 1] + Len(e) /\ P[j - 1] \in Nat /\ Len(e) \in Nat \ {0}
      /\ At(e, w, P[j - 1]) /\ P[Len(h)] = Len(w)
  BY <1>1, <1>3 DEF Lays
<1>5. W \in Nat /\ Len(h) \in Nat
  BY <1>1, ItemPlaces
<1>6. W + Len(h) + Len(p.body) <= Len(ItemsOf(s)) /\ Len(p.body) \in Nat
  BY <1>1, ItemPlaces
<1>7. ItemsOf(s)[W + j] = h[j] /\ ~Framed(s, W + j)
  <2>1. HeadPlace(s, k, j)
    BY <1>1, ItemPlaces
  <2> QED BY <2>1 DEF HeadPlace
<1>8. X \in Nat /\ Len(w) \in Nat /\ At(w, z, X)
  BY <1>1, WirePlaces
<1>9. Len(z) \in Nat /\ Len(ItemsOf(s)) \in Nat
  BY WiresFacts, WholesFacts
<1> DEFINE x == P[j - 1]
           y == P[j]
           l == Len(e)
           H == Len(h)
           B == Len(p.body)
           N == Len(ItemsOf(s))
<1>a. /\ j \in 1..H /\ i = W + j /\ q = X + x /\ y = x + l /\ x \in Nat /\ l \in Nat \ {0}
      /\ W \in Nat /\ H \in Nat /\ B \in Nat /\ X \in Nat /\ W + H + B <= N /\ N \in Nat
  BY <1>1, <1>4, <1>5, <1>6, <1>8, <1>9
<1>10. At(e, z, X + P[j - 1])
  <2> HIDE DEF e, w, z, X, P
  <2>1. Len(e) \in Nat
    BY <1>4
  <2> QED BY <1>4, <1>8, <1>9, <2>1, AtTransitive
<1>11. \E b \in Seq(ByteSym) : Spot(s, i + 1, q + Len(e), 0, b)
  <2>1. CASE j = Len(h)
    <3>1. \E b \in Seq(ByteSym) : Spot(s, W + Len(h) + 1, X + Len(w), 0, b)
      BY <1>1, SpotOfBody
    <3>2. W + Len(h) + 1 = i + 1 /\ X + Len(w) = q + Len(e)
      <4>1. Len(w) = y
        BY <1>4, <2>1
      <4>2. j = H
        BY <2>1
      <4> HIDE DEF W, X, x, y, l, H, B, N
      <4>3. W + H + 1 = i + 1 /\ X + y = q + l
        BY <1>a, <4>2
      <4> QED BY <4>1, <4>3 DEF H, l
    <3> QED BY <3>1, <3>2
  <2>2. CASE j # Len(h)
    <3> HIDE DEF e
    <3>1. j + 1 \in 1..Len(h) /\ i + 1 = W + (j + 1) /\ (j + 1) - 1 = j
      <4>1. j # H
        BY <2>2
      <4> HIDE DEF W, X, x, y, l, H, B, N
      <4>2. j + 1 \in 1..H /\ i + 1 = W + (j + 1) /\ (j + 1) - 1 = j
        BY <1>a, <4>1
      <4> QED BY <4>2 DEF H
    <3>2. q + Len(e) = X + P[(j + 1) - 1]
      <4>1. y = P[(j + 1) - 1]
        BY <3>1
      <4> HIDE DEF W, X, x, y, l, H, B, N
      <4>2. q + l = X + y
        BY <1>a
      <4> QED BY <4>1, <4>2 DEF l
    <3>3. HeadSpot(s, k, j + 1, i + 1, q + Len(e), 0)
      BY <1>1, <3>1, <3>2 DEF HeadSpot
    <3>4. Spot(s, i + 1, q + Len(e), 0, <<>>)
      BY <1>1, <3>1, <3>3 DEF Spot
    <3>5. <<>> \in Seq(ByteSym)
      OBVIOUS
    <3> QED BY <3>4, <3>5
  <2> QED BY <2>1, <2>2
<1>12. i \in Nat /\ i <= Len(ItemsOf(s)) /\ q \in Nat
  <2> HIDE DEF W, X, x, y, l, H, B, N
  <2>1. i \in Nat /\ i <= N /\ q \in Nat
    BY <1>a
  <2> QED BY <2>1 DEF N
<1>13. ItemsOf(s)[i] = h[j] /\ ~Framed(s, i)
  BY <1>1, <1>7
<1> HIDE DEF h
<1> QED BY <1>1, <1>10, <1>11, <1>12, <1>13 DEF Clear

LEMMA BodySpotMoves ==
  ASSUME NEW s, MaySend(s), NEW k, NEW j, NEW i, NEW q, NEW o, BodySpot(s, k, j, i, q, o)
  PROVE  Clear(s, i, q, o)
<1> DEFINE p == s.packets[k]
           H == Len(p.head)
           h == p.body
           w == BytesOf(h)
           P == Start(Encodings(h))
           W == Start(Wholes(s))[k - 1]
           X == Start(Wires(s))[k - 1]
           L == Len(BytesOf(p.head))
           e == Encoding(h[j])
           z == WireOf(s)
<1>1. /\ k \in 1..Len(s.packets) /\ j \in 1..Len(h) /\ ~s.packed
      /\ i = W + H + j /\ q = X + L + P[j - 1] /\ o = 0
  BY DEF BodySpot
<1>2. SendableItems(h)
  BY <1>1, PacketsFacts
<1>3. Lays(P, h)
  BY <1>2, LaysOut
<1>4. /\ P[j] = P[j - 1] + Len(e) /\ P[j - 1] \in Nat /\ Len(e) \in Nat \ {0}
      /\ At(e, w, P[j - 1]) /\ P[Len(h)] = Len(w)
  BY <1>1, <1>3 DEF Lays
<1>5. W \in Nat /\ H \in Nat
  BY <1>1, ItemPlaces
<1>6. /\ W + H + Len(h) <= Len(ItemsOf(s)) /\ Len(h) \in Nat
      /\ Start(Wholes(s))[k] = W + H + Len(h)
  BY <1>1, ItemPlaces
<1>7. ItemsOf(s)[W + H + j] = h[j] /\ ~Framed(s, W + H + j)
  <2>1. BodyPlace(s, k, j)
    BY <1>1, ItemPlaces
  <2> QED BY <1>1, <2>1 DEF BodyPlace
<1>w. BlockWire(p, s.packed) = w
  BY <1>1 DEF BlockWire
<1>8. /\ X \in Nat /\ L \in Nat /\ Len(w) \in Nat /\ At(w, z, X + L)
      /\ Start(Wires(s))[k] = X + L + Len(w)
  <2> DEFINE B == BlockWire(p, s.packed)
  <2>1. /\ X \in Nat /\ L \in Nat /\ Len(B) \in Nat /\ At(B, z, X + L)
        /\ Start(Wires(s))[k] = X + L + Len(B)
    BY <1>1, WirePlaces
  <2> HIDE DEF B, w
  <2>2. B = w
    BY <1>w DEF B
  <2> QED BY <2>1, <2>2
<1>9. Len(z) \in Nat /\ Len(ItemsOf(s)) \in Nat
  BY WiresFacts, WholesFacts
<1> DEFINE x == P[j - 1]
           y == P[j]
           l == Len(e)
           B == Len(h)
           N == Len(ItemsOf(s))
           Wk == Start(Wholes(s))[k]
           Xk == Start(Wires(s))[k]
<1>a. /\ j \in 1..B /\ i = W + H + j /\ q = X + L + x /\ y = x + l /\ x \in Nat
      /\ l \in Nat \ {0} /\ W \in Nat /\ H \in Nat /\ B \in Nat /\ X \in Nat /\ L \in Nat
      /\ W + H + B <= N /\ N \in Nat /\ Wk = W + H + B /\ Xk = X + L + Len(w)
  BY <1>1, <1>4, <1>5, <1>6, <1>8, <1>9
<1>10. At(e, z, (X + L) + P[j - 1])
  <2> HIDE DEF e, w, z, X, P, L
  <2>1. Len(e) \in Nat
    BY <1>4
  <2> QED BY <1>4, <1>8, <1>9, <2>1, AtTransitive
<1>11. \E b \in Seq(ByteSym) : Spot(s, i + 1, q + Len(e), 0, b)
  <2>1. CASE j = Len(h)
    <3>1. \E b \in Seq(ByteSym) : Spot(s, Start(Wholes(s))[k] + 1, Start(Wires(s))[k], 0, b)
      <4>1. k \in 0..Len(s.packets)
        BY <1>1, PacketsFacts
      <4> QED BY <4>1, SpotOfPacket
    <3>2. Start(Wholes(s))[k] + 1 = i + 1 /\ Start(Wires(s))[k] = q + Len(e)
      <4>1. Len(w) = y
        BY <1>4, <2>1
      <4>2. j = B
        BY <2>1
      <4> HIDE DEF W, X, x, y, l, H, B, N, L, Wk, Xk, w
      <4>3. Wk + 1 = i + 1 /\ Xk = q + l
        BY <1>a, <4>1, <4>2
      <4> QED BY <4>3 DEF Wk, Xk, l
    <3> QED BY <3>1, <3>2
  <2>2. CASE j # Len(h)
    <3> HIDE DEF e
    <3>1. j + 1 \in 1..Len(h) /\ i + 1 = W + H + (j + 1) /\ (j + 1) - 1 = j
      <4>1. j # B
        BY <2>2
      <4> HIDE DEF W, X, x, y, l, H, B, N, L, Wk, Xk, w
      <4>2. j + 1 \in 1..B /\ i + 1 = W + H + (j + 1) /\ (j + 1) - 1 = j
        BY <1>a, <4>1
      <4> QED BY <4>2 DEF B
    <3>2. q + Len(e) = X + L + P[(j + 1) - 1]
      <4>1. y = P[(j + 1) - 1]
        BY <3>1
      <4> HIDE DEF W, X, x, y, l, H, B, N, L, Wk, Xk, w
      <4>2. q + l = X + L + y
        BY <1>a
      <4> QED BY <4>1, <4>2 DEF l
    <3>3. BodySpot(s, k, j + 1, i + 1, q + Len(e), 0)
      BY <1>1, <3>1, <3>2 DEF BodySpot
    <3>4. Spot(s, i + 1, q + Len(e), 0, <<>>)
      BY <1>1, <3>1, <3>3 DEF Spot
    <3>5. <<>> \in Seq(ByteSym)
      OBVIOUS
    <3> QED BY <3>4, <3>5
  <2> QED BY <2>1, <2>2
<1>12. i \in Nat /\ i <= Len(ItemsOf(s)) /\ q \in Nat
  <2> HIDE DEF W, X, x, y, l, H, B, N, L, Wk, Xk, w
  <2>1. i \in Nat /\ i <= N /\ q \in Nat
    BY <1>a
  <2> QED BY <2>1 DEF N
<1>13. ItemsOf(s)[i] = h[j] /\ ~Framed(s, i)
  BY <1>1, <1>7
<1> HIDE DEF h
<1> QED BY <1>1, <1>10, <1>11, <1>12, <1>13 DEF Clear

\* What is true of the item at a spot in a frame.
Packed(s, i, q, o, b) ==
  /\ i \in Nat /\ i <= Len(ItemsOf(s)) /\ Framed(s, i) /\ q \in Nat /\ o \in Nat
  /\ b \in Seq(ByteSym) /\ b # <<>> /\ At(Compressed(b), WireOf(s), q)
  /\ At(Encoding(ItemsOf(s)[i]), b, o)
  /\ o + Len(Encoding(ItemsOf(s)[i])) < Len(b) =>
       /\ i + 1 <= Len(ItemsOf(s)) /\ Framed(s, i + 1)
       /\ Spot(s, i + 1, q, o + Len(Encoding(ItemsOf(s)[i])), b)
  /\ o + Len(Encoding(ItemsOf(s)[i])) = Len(b) =>
       \E c \in Seq(ByteSym) : Spot(s, i + 1, q + Len(Compressed(b)), 0, c)

LEMMA FrameSpotMoves ==
  ASSUME NEW s, MaySend(s), NEW k, NEW j, NEW i, NEW q, NEW o, NEW b,
         FrameSpot(s, k, j, i, q, o, b)
  PROVE  Packed(s, i, q, o, b)
<1> DEFINE p == s.packets[k]
           H == Len(p.head)
           h == p.body
           w == BytesOf(h)
           P == Start(Encodings(h))
           W == Start(Wholes(s))[k - 1]
           X == Start(Wires(s))[k - 1]
           L == Len(BytesOf(p.head))
           e == Encoding(h[j])
           z == WireOf(s)
           x == P[j - 1]
           y == P[j]
           l == Len(e)
           B == Len(h)
           N == Len(ItemsOf(s))
           Wk == Start(Wholes(s))[k]
           Xk == Start(Wires(s))[k]
           C == Len(Compressed(w))
<1>1. /\ k \in 1..Len(s.packets) /\ j \in 1..B /\ s.packed
      /\ i = W + H + j /\ q = X + L /\ o = x /\ b = w
  BY DEF FrameSpot
<1>2. SendableItems(h) /\ h # <<>>
  BY <1>1, PacketsFacts
<1>3. Lays(P, h)
  BY <1>2, LaysOut
<1>4. /\ y = x + l /\ x \in Nat /\ l \in Nat \ {0}
      /\ At(e, w, x) /\ (j < B <=> y < Len(w))
  BY <1>1, <1>3 DEF Lays
<1>5. W \in Nat /\ H \in Nat
  BY <1>1, ItemPlaces
<1>k. k \in 1..Len(s.packets)
  BY <1>1
<1>6. W + H + B <= N /\ B \in Nat /\ Wk = W + H + B
  <2>1. W + H + B <= N
    BY <1>k, ItemPlaces
  <2>2. B \in Nat
    BY <1>k, ItemPlaces
  <2>3. Wk = W + H + B
    BY <1>k, ItemPlaces
  <2> QED BY <2>1, <2>2, <2>3
<1>7. \A m \in 1..B : ItemsOf(s)[W + H + m] = h[m] /\ Framed(s, W + H + m)
  <2> SUFFICES ASSUME NEW m \in 1..B PROVE ItemsOf(s)[W + H + m] = h[m] /\ Framed(s, W + H + m)
    OBVIOUS
  <2>1. BodyPlace(s, k, m)
    BY <1>k, ItemPlaces
  <2> QED BY <1>1, <2>1 DEF BodyPlace
<1>w. BlockWire(p, s.packed) = Compressed(w)
  BY <1>1 DEF BlockWire
<1>8. X \in Nat /\ L \in Nat /\ C \in Nat /\ At(Compressed(w), z, X + L) /\ Xk = X + L + C
  <2> DEFINE D == BlockWire(p, s.packed)
  <2>1. /\ X \in Nat /\ L \in Nat /\ Len(D) \in Nat /\ At(D, z, X + L) /\ Xk = X + L + Len(D)
    BY <1>1, WirePlaces
  <2>c. C = Len(Compressed(w))
    OBVIOUS
  <2> HIDE DEF D, w, C
  <2>2. D = Compressed(w)
    BY <1>w DEF D
  <2> QED BY <2>1, <2>2, <2>c
<1>9. N \in Nat
  BY WholesFacts
<1>10. w \in Seq(ByteSym) /\ w # <<>> /\ Len(w) \in Nat
  BY <1>2, BytesOfSome, EncodingsFacts
<1>e. ItemsOf(s)[i] = h[j] /\ Framed(s, i)
  BY <1>1, <1>7
<1>v. e = Encoding(h[j]) /\ l = Len(e) /\ N = Len(ItemsOf(s)) /\ C = Len(Compressed(w))
  OBVIOUS
<1> DEFINE M == Len(w)
<1>a. /\ j \in 1..B /\ i = W + H + j /\ q = X + L /\ y = x + l /\ x \in Nat
      /\ l \in Nat \ {0} /\ W \in Nat /\ H \in Nat /\ B \in Nat /\ X \in Nat /\ L \in Nat
      /\ W + H + B <= N /\ N \in Nat /\ Wk = W + H + B /\ Xk = q + C /\ (j < B <=> y < M)
      /\ M \in Nat /\ o = x
  BY <1>1, <1>4, <1>5, <1>6, <1>8, <1>9, <1>10
<1>11. i \in Nat /\ i <= N /\ q \in Nat /\ o \in Nat
  <2> HIDE DEF W, X, x, y, l, H, B, N, L, Wk, Xk, w, M, C
  <2> QED BY <1>a
<1>12. ASSUME o + l < M
       PROVE  i + 1 <= N /\ Framed(s, i + 1) /\ Spot(s, i + 1, q, o + l, w)
  <2>1. /\ j + 1 \in 1..B /\ i + 1 = W + H + (j + 1) /\ (j + 1) - 1 = j /\ i + 1 <= N
        /\ o + l = y
    <3> HIDE DEF W, X, x, y, l, H, B, N, L, Wk, Xk, w, M, C
    <3> QED BY <1>a, <1>12
  <2>2. Framed(s, i + 1)
    BY <1>7, <2>1
  <2>3. o + l = P[(j + 1) - 1]
    BY <2>1
  <2> HIDE DEF l
  <2>4. FrameSpot(s, k, j + 1, i + 1, q, o + l, w)
    BY <1>1, <2>1, <2>3 DEF FrameSpot
  <2>5. Spot(s, i + 1, q, o + l, w)
    BY <1>1, <2>1, <2>4 DEF Spot
  <2> QED BY <2>1, <2>2, <2>5
<1>13. ASSUME o + l = M
       PROVE  \E c \in Seq(ByteSym) : Spot(s, i + 1, q + C, 0, c)
  <2>1. \E c \in Seq(ByteSym) : Spot(s, Wk + 1, Xk, 0, c)
    <3>1. k \in 0..Len(s.packets)
      BY <1>1, PacketsFacts
    <3> QED BY <3>1, SpotOfPacket
  <2>2. Wk + 1 = i + 1 /\ Xk = q + C
    <3> HIDE DEF W, X, x, y, l, H, B, N, L, Wk, Xk, w, M, C
    <3> QED BY <1>a, <1>13
  <2> QED BY <2>1, <2>2
<1>14. At(Compressed(w), z, q) /\ At(e, w, o) /\ b = w /\ M = Len(w)
  BY <1>1, <1>4, <1>8
<1> HIDE DEF W, X, x, y, l, H, B, N, L, Wk, Xk, w, M, C, e, h, P
<1> QED BY <1>10, <1>11, <1>12, <1>13, <1>14, <1>e, <1>v DEF Packed

LEMMA SpotMoves ==
  ASSUME NEW s, MaySend(s), NEW i, NEW q, NEW o, NEW b, Spot(s, i, q, o, b)
  PROVE  \/ Clear(s, i, q, o) \/ Packed(s, i, q, o, b)
         \/ i = Len(ItemsOf(s)) + 1 /\ q = Len(WireOf(s)) /\ o = 0
BY HeadSpotMoves, BodySpotMoves, FrameSpotMoves DEF Spot, EndSpot

LEMMA FirstSpot ==
  ASSUME NEW s, MaySend(s)
  PROVE  \E b \in Seq(ByteSym) : Spot(s, 1, 0, 0, b)
<1>1. \E b \in Seq(ByteSym) : Spot(s, Start(Wholes(s))[0] + 1, Start(Wires(s))[0], 0, b)
  <2>1. 0 \in 0..Len(s.packets)
    BY PacketsFacts
  <2> QED BY <2>1, SpotOfPacket
<1>2. Start(Wholes(s))[0] = 0
  <2>1. Wholes(s) \in Seq(Seq(ItemSet(s)))
    BY WholesFacts
  <2> QED BY <2>1, StartFacts DEF Begins
<1>3. Start(Wires(s))[0] = 0
  <2>1. Wires(s) \in Seq(Seq(SentSym))
    BY WiresFacts
  <2> QED BY <2>1, StartFacts DEF Begins
<1>4. 0 + 1 = 1
  OBVIOUS
<1> QED BY <1>1, <1>2, <1>3, <1>4

-----------------------------------------------------------------------------
(* What has left the writer                                                    *)

CallLists(s) == [k \in DOMAIN s.packets |-> CallsOf(s.packets[k])]
AllCalls(s)  == FlattenSeq(CallLists(s))
CallSet      == [to : {"raw", "body", "finalize"}, data : Seq(ByteSym)]

\* For the raw stream, and what waits for its frame, when so many calls have been made.
EmitSet == Seq(SentSym) \X Seq(ByteSym)
After(x, call, packed) ==
  CASE call.to = "finalize"       -> <<x[1] \o (IF packed THEN Compressed(x[2]) ELSE <<>>), <<>>>>
    [] call.to = "body" /\ packed -> <<x[1], x[2] \o call.data>>
    [] OTHER                      -> <<x[1] \o call.data, x[2]>>
Emits(e, all, packed) ==
  e[0] = <<<<>>, <<>>>> /\ \A c \in 1..Len(all) : e[c] = After(e[c - 1], all[c], packed)
Emission(s) == CHOOSE e : e \in [Nat -> EmitSet] /\ Emits(e, AllCalls(s), s.packed)

LEMMA PiecesTo ==
  ASSUME NEW pieces \in Seq(Seq(ByteSym)), NEW to \in {"raw", "body"}
  PROVE  LET calls_ == [j \in DOMAIN pieces |-> [to |-> to, data |-> pieces[j]]]
         IN  /\ calls_ \in Seq(CallSet) /\ Len(calls_) = Len(pieces) /\ Len(pieces) \in Nat
             /\ \A j \in 1..Len(pieces) : calls_[j] = [to |-> to, data |-> pieces[j]]
<1> DEFINE n == Len(pieces)
           c == [j \in DOMAIN pieces |-> [to |-> to, data |-> pieces[j]]]
<1>1. DOMAIN pieces = 1..n /\ n \in Nat /\ \A j \in 1..n : pieces[j] \in Seq(ByteSym)
  BY LenProperties, ElementOfSeq
<1>2. c = [j \in 1..n |-> [to |-> to, data |-> pieces[j]]]
  BY <1>1
<1>n. n = Len(pieces)
  OBVIOUS
<1> HIDE DEF n, c
<1>3. \A j \in 1..n : [to |-> to, data |-> pieces[j]] \in CallSet
  BY <1>1 DEF CallSet
<1>4. c \in [1..n -> CallSet]
  BY <1>2, <1>3
<1>5. c \in Seq(CallSet) /\ Len(c) = n
  BY <1>1, <1>4, FunctionIsSeq
<1>6. \A j \in 1..n : c[j] = [to |-> to, data |-> pieces[j]]
  BY <1>2
<1> QED BY <1>1, <1>5, <1>6, <1>n DEF c

\* The calls for a packet.
Calls_(cc, p) ==
  LET hp == PiecesOf(p.head)
      bp == PiecesOf(p.body)
  IN  /\ cc \in Seq(CallSet) /\ Len(hp) \in Nat /\ Len(bp) \in Nat
      /\ Len(cc) = Len(hp) + Len(bp) + 1
      /\ \A j \in 1..Len(hp) : cc[j] = [to |-> "raw", data |-> hp[j]]
      /\ \A j \in 1..Len(bp) : cc[Len(hp) + j] = [to |-> "body", data |-> bp[j]]
      /\ cc[Len(hp) + Len(bp) + 1] = [to |-> "finalize", data |-> <<>>]

LEMMA CallsOfFacts ==
  ASSUME NEW p, SendableItems(p.head), SendableItems(p.body)
  PROVE  Calls_(CallsOf(p), p)
<1> DEFINE hp == PiecesOf(p.head)
           bp == PiecesOf(p.body)
           a == [j \in DOMAIN hp |-> [to |-> "raw", data |-> hp[j]]]
           b == [j \in DOMAIN bp |-> [to |-> "body", data |-> bp[j]]]
           f == [to |-> "finalize", data |-> <<>>]
           c == <<f>>
           l == Len(hp)
           m == Len(bp)
<1>1. hp \in Seq(Seq(ByteSym)) /\ bp \in Seq(Seq(ByteSym))
  BY EncodingsFacts
<1>2. CallsOf(p) = (a \o b) \o c
  BY DEF CallsOf, PiecesOf
<1> HIDE DEF hp, bp
<1>3. /\ a \in Seq(CallSet) /\ Len(a) = l /\ l \in Nat
      /\ \A j \in 1..l : a[j] = [to |-> "raw", data |-> hp[j]]
  BY <1>1, PiecesTo
<1>4. /\ b \in Seq(CallSet) /\ Len(b) = m /\ m \in Nat
      /\ \A j \in 1..m : b[j] = [to |-> "body", data |-> bp[j]]
  BY <1>1, PiecesTo
<1>5. c \in Seq(CallSet) /\ Len(c) = 1 /\ c[1] = f
  <2>1. f \in CallSet
    <3>1. <<>> \in Seq(ByteSym)
      OBVIOUS
    <3> QED BY <3>1 DEF CallSet
  <2> HIDE DEF f
  <2> QED BY <2>1
<1>f. f = [to |-> "finalize", data |-> <<>>]
  OBVIOUS
<1> DEFINE d == a \o b
           e == d \o c
<1>n. l = Len(hp) /\ m = Len(bp)
  OBVIOUS
<1> HIDE DEF a, b, c, f, l, m
<1>6. /\ d \in Seq(CallSet) /\ Len(d) = Len(a) + Len(b)
      /\ (\A j \in 1..Len(a) : d[j] = a[j]) /\ (\A j \in 1..Len(b) : d[Len(a) + j] = b[j])
  <2>1. a \in Seq(CallSet) /\ b \in Seq(CallSet)
    BY <1>3, <1>4
  <2> QED BY <2>1, Concat
<1> HIDE DEF d
<1>7. /\ e \in Seq(CallSet) /\ Len(e) = Len(d) + Len(c)
      /\ (\A j \in 1..Len(d) : e[j] = d[j]) /\ (\A j \in 1..Len(c) : e[Len(d) + j] = c[j])
  <2>1. d \in Seq(CallSet) /\ c \in Seq(CallSet)
    BY <1>5, <1>6
  <2> QED BY <2>1, Concat
<1> HIDE DEF e
<1>8. Len(d) = l + m /\ Len(e) = l + m + 1
  BY <1>3, <1>4, <1>5, <1>6, <1>7
<1>9. ASSUME NEW j \in 1..l PROVE e[j] = [to |-> "raw", data |-> hp[j]]
  <2>1. j \in 1..Len(d) /\ j \in 1..Len(a)
    BY <1>3, <1>4, <1>8
  <2> QED BY <1>3, <1>6, <1>7, <2>1
<1>10. ASSUME NEW j \in 1..m PROVE e[l + j] = [to |-> "body", data |-> bp[j]]
  <2>1. l + j \in 1..Len(d) /\ j \in 1..Len(b) /\ Len(a) = l
    BY <1>3, <1>4, <1>8
  <2>2. e[l + j] = d[l + j]
    BY <1>7, <2>1
  <2>3. d[l + j] = b[j]
    BY <1>6, <2>1
  <2> QED BY <1>4, <2>2, <2>3
<1>11. e[l + m + 1] = f
  <2>1. 1 \in 1..Len(c)
    BY <1>5
  <2>2. e[Len(d) + 1] = c[1]
    BY <1>7, <2>1
  <2> QED BY <1>5, <1>8, <2>2
<1>12. CallsOf(p) = e
  BY <1>2 DEF d, e
<1> HIDE DEF e
<1> QED BY <1>3, <1>4, <1>7, <1>8, <1>9, <1>10, <1>11, <1>12, <1>f, <1>n DEF Calls_, hp, bp

LEMMA CallListsFacts ==
  ASSUME NEW s, MaySend(s)
  PROVE  /\ CallLists(s) \in Seq(Seq(CallSet)) /\ Len(CallLists(s)) = Len(s.packets)
         /\ \A k \in 1..Len(s.packets) : Calls_(CallLists(s)[k], s.packets[k])
         /\ AllCalls(s) \in Seq(CallSet) /\ Len(AllCalls(s)) \in Nat
<1> DEFINE n == Len(s.packets)
           w == CallLists(s)
           S == Seq(CallSet)
<1>1. DOMAIN s.packets = 1..n /\ n \in Nat
  BY PacketsFacts
<1>2. \A k \in 1..n : SendableItems(s.packets[k].head) /\ SendableItems(s.packets[k].body)
  BY PacketsFacts
<1>3. \A k \in 1..n : Calls_(CallsOf(s.packets[k]), s.packets[k])
  BY <1>2, CallsOfFacts
<1>4. w = [k \in 1..n |-> CallsOf(s.packets[k])]
  BY <1>1 DEF CallLists
<1>n. n = Len(s.packets) /\ w = CallLists(s)
  OBVIOUS
<1> HIDE DEF n, w
<1>5. \A k \in 1..n : w[k] \in S /\ Calls_(w[k], s.packets[k])
  BY <1>3, <1>4 DEF Calls_
<1> HIDE DEF S
<1>6. w \in [1..n -> S]
  BY <1>4, <1>5
<1>7. w \in Seq(S) /\ Len(w) = n
  BY <1>1, <1>6, FunctionIsSeq
<1>8. w \in Seq(Seq(CallSet))
  BY <1>7 DEF S
<1>9. FlattenSeq(w) \in Seq(CallSet) /\ Len(FlattenSeq(w)) \in Nat
  BY <1>8, FlattenType
<1> QED BY <1>5, <1>7, <1>8, <1>9, <1>n DEF AllCalls

LEMMA AfterFacts ==
  ASSUME NEW x \in EmitSet, NEW call \in CallSet, NEW packed \in BOOLEAN
  PROVE  /\ After(x, call, packed) \in EmitSet
         /\ \E t \in Seq(SentSym) : After(x, call, packed)[1] = x[1] \o t
<1> DEFINE a == x[1]
           b == x[2]
           d == call.data
           c == Compressed(b)
<1>1. /\ a \in Seq(SentSym) /\ b \in Seq(ByteSym) /\ d \in Seq(ByteSym)
      /\ call.to \in {"raw", "body", "finalize"}
  BY DEF EmitSet, CallSet
<1>2. c \in Seq(SentSym)
  BY <1>1, CompressedFacts DEF FrameOf
<1>3. d \in Seq(SentSym) /\ <<>> \in Seq(SentSym) /\ <<>> \in Seq(ByteSym)
  <2>1. d \in Seq(SentSym)
    BY <1>1, BytesAreSent
  <2> QED BY <2>1
<1>4. CASE call.to = "finalize"
  <2> DEFINE t == IF packed THEN c ELSE <<>>
             u == a \o t
  <2>1. t \in Seq(SentSym)
    BY <1>2, <1>3
  <2>2. After(x, call, packed) = <<u, <<>>>>
    BY <1>4 DEF After
  <2>u. u = a \o t
    OBVIOUS
  <2> HIDE DEF a, t, u
  <2>3. u \in Seq(SentSym)
    BY <1>1, <2>1, <2>u, Concat
  <2>4. <<u, <<>>>> \in EmitSet
    BY <1>3, <2>3 DEF EmitSet
  <2>5. <<u, <<>>>>[1] = u
    OBVIOUS
  <2> QED BY <2>1, <2>2, <2>4, <2>5, <2>u DEF a
<1>5. CASE call.to = "body" /\ packed
  <2> DEFINE u == b \o d
  <2>1. After(x, call, packed) = <<a, u>>
    BY <1>5 DEF After
  <2>u. u = b \o d
    OBVIOUS
  <2> HIDE DEF a, b, d, u
  <2>2. u \in Seq(ByteSym)
    BY <1>1, <2>u, Concat
  <2>3. <<a, u>> \in EmitSet
    BY <1>1, <2>2 DEF EmitSet
  <2>4. <<a, u>>[1] = a /\ a \o <<>> = a
    BY <1>1, ConcatEmptySeq
  <2> QED BY <1>3, <2>1, <2>3, <2>4 DEF a
<1>6. CASE call.to # "finalize" /\ ~(call.to = "body" /\ packed)
  <2> DEFINE u == a \o d
  <2>1. After(x, call, packed) = <<u, b>>
    BY <1>1, <1>6 DEF After
  <2>u. u = a \o d
    OBVIOUS
  <2> HIDE DEF a, b, d, u
  <2>2. u \in Seq(SentSym)
    BY <1>1, <1>3, <2>u, Concat
  <2>3. <<u, b>> \in EmitSet
    BY <1>1, <2>2 DEF EmitSet
  <2>4. <<u, b>>[1] = u
    OBVIOUS
  <2> QED BY <1>3, <2>1, <2>3, <2>4, <2>u DEF a
<1> QED BY <1>4, <1>5, <1>6

LEMMA EmissionFacts ==
  ASSUME NEW s, MaySend(s)
  PROVE  Emission(s) \in [Nat -> EmitSet] /\ Emits(Emission(s), AllCalls(s), s.packed)
<1> DEFINE all == AllCalls(s)
           n == Len(all)
           packed == s.packed
           v == <<<<>>, <<>>>>
           F == [c \in Nat |-> [x \in EmitSet |-> IF c \in 1..n THEN After(x, all[c], packed) ELSE x]]
<1>1. all \in Seq(CallSet) /\ n \in Nat /\ packed \in BOOLEAN
  BY CallListsFacts DEF MaySend
<1>2. \A c \in 1..n : all[c] \in CallSet
  BY <1>1, ElementOfSeq
<1>n. n = Len(all)
  OBVIOUS
<1>s. Emission(s) = CHOOSE e : e \in [Nat -> EmitSet] /\ Emits(e, all, packed)
  BY DEF Emission
<1> HIDE DEF all, n, packed
<1>3. v \in EmitSet
  <2>1. <<>> \in Seq(SentSym) /\ <<>> \in Seq(ByteSym)
    OBVIOUS
  <2> QED BY <2>1 DEF EmitSet
<1>4. \A c \in 1..n : \A x \in EmitSet : After(x, all[c], packed) \in EmitSet
  BY <1>1, <1>2, AfterFacts
<1>5. F \in [Nat -> [EmitSet -> EmitSet]]
  BY <1>4
<1>6. \A c \in 1..n : c \in Nat \ {0} /\ \A x \in EmitSet : F[c][x] = After(x, all[c], packed)
  BY <1>1
<1> HIDE DEF F, v
<1>7. PICK e \in [Nat -> EmitSet] : Iterates(e, v, F)
  BY <1>3, <1>5, Iteration
<1>8. Emits(e, all, packed)
  <2>1. e[0] = <<<<>>, <<>>>>
    BY <1>7 DEF Iterates, v
  <2>2. ASSUME NEW c \in 1..n PROVE e[c] = After(e[c - 1], all[c], packed)
    <3>1. c \in Nat \ {0} /\ c - 1 \in Nat
      BY <1>1, <1>6
    <3>2. e[c] = F[c][e[c - 1]] /\ e[c - 1] \in EmitSet
      BY <1>7, <3>1 DEF Iterates
    <3> QED BY <1>6, <3>2
  <2> QED BY <1>n, <2>1, <2>2 DEF Emits
<1>9. \E f : f \in [Nat -> EmitSet] /\ Emits(f, all, packed)
  BY <1>7, <1>8
<1> QED BY <1>9, <1>s DEF all, packed

LEMMA Associates ==
  ASSUME NEW S, NEW x \in Seq(S), NEW g \in Seq(S), NEW d \in Seq(S), NEW h, h = g \o d
  PROVE  (x \o g) \o d = x \o h
BY ConcatAssociative

\* The data of a run of calls with the same receiver: it waits, or it is for the raw stream.
Adds(x, y, g, to, packed) == IF to = "body" /\ packed THEN <<x, y \o g>> ELSE <<x \o g, y>>

\* What a packet is written in; all has the calls for it from c on.
IsPieces(pieces) == pieces \in Seq(Seq(ByteSym))
Passes(all, c, pieces, to) ==
  /\ c + Len(pieces) <= Len(all) /\ Len(all) \in Nat
  /\ \A j \in 1..Len(pieces) : all[c + j] = [to |-> to, data |-> pieces[j]]
IsCall(call, to, data) == call.to = to /\ call.data = data

LEMMA AfterAdds ==
  ASSUME NEW x \in Seq(SentSym), NEW y \in Seq(ByteSym), NEW g \in Seq(ByteSym),
         NEW d \in Seq(ByteSym), NEW to \in {"raw", "body"}, NEW packed \in BOOLEAN,
         NEW call, IsCall(call, to, d)
  PROVE  After(Adds(x, y, g, to, packed), call, packed) = Adds(x, y, g \o d, to, packed)
<1> DEFINE u == x \o g
           v == y \o g
           h == g \o d
<1>h. h = g \o d
  OBVIOUS
<1>1. g \in Seq(SentSym) /\ d \in Seq(SentSym)
  BY BytesAreSent
<1>2. u \o d = x \o h
  BY <1>1, <1>h, Associates
<1>3. v \o d = y \o h
  BY <1>h, Associates
<1>4. call.to = to /\ call.data = d
  BY DEF IsCall
<1>5. Adds(x, y, g, to, packed) = IF to = "body" /\ packed THEN <<x, v>> ELSE <<u, y>>
  BY DEF Adds
<1> HIDE DEF u, v, h
<1> SUFFICES After(Adds(x, y, g, to, packed), call, packed) = Adds(x, y, h, to, packed)
  BY DEF h
<1>6. CASE to = "body" /\ packed
  <2>1. After(<<x, v>>, call, packed) = <<x, v \o d>>
    BY <1>4, <1>6 DEF After
  <2> QED BY <1>3, <1>5, <1>6, <2>1 DEF Adds
<1>7. CASE ~(to = "body" /\ packed)
  <2>1. After(<<u, y>>, call, packed) = <<u \o d, y>>
    BY <1>4, <1>7 DEF After
  <2> QED BY <1>2, <1>5, <1>7, <2>1 DEF Adds
<1> QED BY <1>6, <1>7

Ran(e, c, pieces, to, packed) ==
  e[c + Len(pieces)] = Adds(e[c][1], e[c][2], FlattenSeq(pieces), to, packed)

LEMMA EmitRun ==
  ASSUME NEW e \in [Nat -> EmitSet], NEW all, NEW packed \in BOOLEAN,
         Emits(e, all, packed), NEW c \in Nat, NEW pieces, IsPieces(pieces),
         NEW to \in {"raw", "body"}, Passes(all, c, pieces, to)
  PROVE  Ran(e, c, pieces, to, packed)
<1> DEFINE n == Len(pieces)
           x == e[c][1]
           y == e[c][2]
<1>1. PICK f : f \in [Nat -> Seq(ByteSym)] /\ Grows(f, pieces) /\ FlattenSeq(pieces) = f[n]
  BY Flattening DEF IsPieces
<1>2. n \in Nat /\ \A j \in 1..n : pieces[j] \in Seq(ByteSym)
  BY LenProperties, ElementOfSeq DEF IsPieces
<1>3. e[c] \in EmitSet /\ x \in Seq(SentSym) /\ y \in Seq(ByteSym) /\ e[c] = <<x, y>>
  <2>1. e[c] \in EmitSet
    OBVIOUS
  <2> QED BY <2>1 DEF EmitSet
<1>l. n = Len(pieces) /\ c + n <= Len(all) /\ c \in Nat /\ Len(all) \in Nat
  BY DEF Passes
<1> DEFINE G(j) == Adds(x, y, f[j], to, packed)
           T == {j \in Nat : j <= n => e[c + j] = G(j)}
<1>4. 0 \in T
  <2>1. f[0] = <<>> /\ c + 0 = c
    BY <1>1 DEF Grows
  <2>2. x \o <<>> = x /\ y \o <<>> = y
    BY <1>3, ConcatEmptySeq
  <2> HIDE DEF x, y
  <2>3. e[c + 0] = G(0)
    BY <1>3, <2>1, <2>2 DEF Adds
  <2> HIDE DEF G
  <2> QED BY <2>3
<1>5. ASSUME NEW j \in Nat, j \in T PROVE j + 1 \in T
  <2> SUFFICES ASSUME j + 1 <= n PROVE e[c + (j + 1)] = G(j + 1)
    OBVIOUS
  <2> DEFINE d == pieces[j + 1]
             i == c + (j + 1)
             g == f[j]
             g1 == f[j + 1]
             call == [to |-> to, data |-> d]
  <2>1. j + 1 \in 1..n /\ (j + 1) - 1 = j /\ j <= n /\ i \in 1..Len(all) /\ i - 1 = c + j
    <3>1. n \in Nat /\ j \in Nat /\ j + 1 <= n
      BY <1>2
    <3> HIDE DEF n
    <3> QED BY <1>l, <3>1
  <2>2. e[i - 1] = G(j)
    BY <1>5, <2>1
  <2>3. all[i] = call
    BY <2>1 DEF Passes
  <2>4. e[i] = After(e[i - 1], all[i], packed)
    BY <2>1 DEF Emits
  <2>5. g1 = g \o d
    BY <1>1, <2>1 DEF Grows
  <2>6. g \in Seq(ByteSym) /\ d \in Seq(ByteSym)
    BY <1>1, <1>2, <2>1
  <2>7. IsCall(call, to, d)
    BY DEF IsCall
  <2>8. G(j) = Adds(x, y, g, to, packed) /\ G(j + 1) = Adds(x, y, g1, to, packed)
    OBVIOUS
  <2>9. x \in Seq(SentSym) /\ y \in Seq(ByteSym)
    BY <1>3
  <2> HIDE DEF d, i, g, g1, G, x, y, call
  <2>10. After(Adds(x, y, g, to, packed), call, packed) = Adds(x, y, g \o d, to, packed)
    BY <2>6, <2>7, <2>9, AfterAdds
  <2>11. e[i] = G(j + 1)
    BY <2>2, <2>3, <2>4, <2>5, <2>8, <2>10, Zenon
  <2> QED BY <2>11 DEF i
<1>6. n \in T
  <2> HIDE DEF T
  <2>1. \A j \in Nat : j \in T
    BY <1>4, <1>5, Induction
  <2> QED BY <1>2, <2>1
<1>7. e[c + n] = G(n)
  BY <1>2, <1>6
<1> QED BY <1>1, <1>7 DEF Ran

\* The calls for packet k, where they are among all.
CallPlaces(s, k, c, l, m) ==
  /\ c \in Nat /\ l \in Nat /\ m \in Nat
  /\ l = Len(PiecesOf(s.packets[k].head)) /\ m = Len(PiecesOf(s.packets[k].body))
  /\ Start(CallLists(s))[k] = c + l + m + 1 /\ c + l + m + 1 <= Len(AllCalls(s))
  /\ Passes(AllCalls(s), c, PiecesOf(s.packets[k].head), "raw")
  /\ Passes(AllCalls(s), c + l, PiecesOf(s.packets[k].body), "body")
  /\ AllCalls(s)[c + l + m + 1] = [to |-> "finalize", data |-> <<>>]

LEMMA CallsPlaced ==
  ASSUME NEW s, MaySend(s), NEW k \in 1..Len(s.packets)
  PROVE  \E l, m : CallPlaces(s, k, Start(CallLists(s))[k - 1], l, m)
<1> DEFINE p == s.packets[k]
           hp == PiecesOf(p.head)
           bp == PiecesOf(p.body)
           l == Len(hp)
           m == Len(bp)
           ss == CallLists(s)
           all == AllCalls(s)
           cc == ss[k]
           c == Start(ss)[k - 1]
           f == [to |-> "finalize", data |-> <<>>]
<1>1. /\ ss \in Seq(Seq(CallSet)) /\ Len(ss) = Len(s.packets) /\ all = FlattenSeq(ss)
      /\ Len(all) \in Nat
  BY CallListsFacts DEF AllCalls
<1>2. Calls_(cc, p)
  BY CallListsFacts
<1>3. /\ l \in Nat /\ m \in Nat /\ Len(cc) = l + m + 1
      /\ (\A j \in 1..l : cc[j] = [to |-> "raw", data |-> hp[j]])
      /\ (\A j \in 1..m : cc[l + j] = [to |-> "body", data |-> bp[j]])
      /\ cc[l + m + 1] = f
  BY <1>2 DEF Calls_
<1>n. l = Len(hp) /\ m = Len(bp) /\ hp = PiecesOf(p.head) /\ bp = PiecesOf(p.body)
  OBVIOUS
<1>4. k \in 1..Len(ss)
  BY <1>1
<1> HIDE DEF p, hp, bp, l, m, ss, all, f
<1>5. At(cc, all, c) /\ Start(ss)[k] = c + Len(cc) /\ Start(ss)[k] <= Len(all) /\ c \in Nat
  BY <1>1, <1>4, AtFlatten
<1> HIDE DEF cc, c
<1>6. \A j \in 1..l + m + 1 : all[c + j] = cc[j]
  BY <1>3, <1>5 DEF At
<1>7. Start(ss)[k] = c + l + m + 1 /\ c + l + m + 1 <= Len(all) /\ c + l \in Nat
  BY <1>3, <1>5
<1>8. Passes(all, c, hp, "raw")
  <2>1. \A j \in 1..l : all[c + j] = [to |-> "raw", data |-> hp[j]]
    <3> SUFFICES ASSUME NEW j \in 1..l PROVE all[c + j] = [to |-> "raw", data |-> hp[j]]
      OBVIOUS
    <3>1. j \in 1..l + m + 1
      BY <1>3
    <3> QED BY <1>3, <1>6, <3>1
  <2>2. c + l <= Len(all)
    BY <1>1, <1>3, <1>5, <1>7
  <2> QED BY <1>1, <1>n, <2>1, <2>2 DEF Passes
<1>9. Passes(all, c + l, bp, "body")
  <2>1. \A j \in 1..m : all[(c + l) + j] = [to |-> "body", data |-> bp[j]]
    <3> SUFFICES ASSUME NEW j \in 1..m PROVE all[(c + l) + j] = [to |-> "body", data |-> bp[j]]
      OBVIOUS
    <3>1. l + j \in 1..l + m + 1 /\ (c + l) + j = c + (l + j)
      BY <1>3, <1>5
    <3> QED BY <1>3, <1>6, <3>1
  <2>2. (c + l) + m <= Len(all)
    BY <1>1, <1>3, <1>5, <1>7
  <2> QED BY <1>1, <1>n, <2>1, <2>2 DEF Passes
<1>10. all[c + l + m + 1] = f
  <2>1. l + m + 1 \in 1..l + m + 1 /\ c + (l + m + 1) = c + l + m + 1
    BY <1>3, <1>5
  <2> QED BY <1>3, <1>6, <2>1
<1>11. CallPlaces(s, k, c, l, m)
  BY <1>3, <1>5, <1>7, <1>8, <1>9, <1>10, <1>n DEF CallPlaces, p, ss, all, f
<1> QED BY <1>11 DEF c, ss

LEMMA EmitPacket ==
  ASSUME NEW s, MaySend(s), NEW k \in 1..Len(s.packets), NEW w \in Seq(SentSym),
         Emission(s)[Start(CallLists(s))[k - 1]] = <<w, <<>>>>
  PROVE  Emission(s)[Start(CallLists(s))[k]] =
           <<w \o PacketWire(s.packets[k], s.packed), <<>>>>
<1> DEFINE p == s.packets[k]
           hp == PiecesOf(p.head)
           bp == PiecesOf(p.body)
           h == BytesOf(p.head)
           b == BytesOf(p.body)
           e == Emission(s)
           all == AllCalls(s)
           c == Start(CallLists(s))[k - 1]
           z == BlockWire(p, s.packed)
<1>1. PICK l, m : CallPlaces(s, k, c, l, m)
  BY CallsPlaced
<1>2. /\ c \in Nat /\ l \in Nat /\ m \in Nat /\ l = Len(hp) /\ m = Len(bp)
      /\ Start(CallLists(s))[k] = c + l + m + 1 /\ c + l + m + 1 <= Len(all)
      /\ Passes(all, c, hp, "raw") /\ Passes(all, c + l, bp, "body")
      /\ all[c + l + m + 1] = [to |-> "finalize", data |-> <<>>]
  BY <1>1 DEF CallPlaces
<1>a. c \in Nat /\ l \in Nat /\ m \in Nat
  BY <1>2
<1>3. SendableItems(p.head) /\ SendableItems(p.body) /\ s.packed \in BOOLEAN
  BY PacketsFacts DEF MaySend
<1>4. /\ IsPieces(hp) /\ FlattenSeq(hp) = h /\ IsPieces(bp) /\ FlattenSeq(bp) = b
      /\ h \in Seq(ByteSym) /\ b \in Seq(ByteSym)
  BY <1>3, EncodingsFacts DEF IsPieces
<1>5. PacketWire(p, s.packed) = h \o z /\ z = IF s.packed THEN Compressed(b) ELSE b
  BY DEF PacketWire, BlockWire
<1>6. e \in [Nat -> EmitSet] /\ Emits(e, all, s.packed)
  BY EmissionFacts
<1>7. e[c] = <<w, <<>>>>
  OBVIOUS
<1>8. h \in Seq(SentSym) /\ z \in Seq(SentSym) /\ b \in Seq(SentSym)
  <2>1. h \in Seq(SentSym) /\ z \in Seq(SentSym)
    BY BlockWireFacts
  <2>2. b \in Seq(SentSym)
    BY <1>4, BytesAreSent
  <2> QED BY <2>1, <2>2
<1>w. w \in Seq(SentSym)
  OBVIOUS
<1> DEFINE wh == w \o h
           P == PacketWire(p, s.packed)
           packed == s.packed
           all_ == Len(all)
<1>r. wh \in Seq(SentSym) /\ wh \o z = w \o P
  <2>1. wh \in Seq(SentSym)
    <3> HIDE DEF h
    <3> QED BY <1>8, Concat
  <2>2. P = h \o z
    BY <1>5
  <2> HIDE DEF h, z, P, p
  <2>3. (w \o h) \o z = w \o P
    BY <1>8, <2>2, Associates, SMTT(40)
  <2> QED BY <2>1, <2>3
<1>s. wh = w \o h /\ packed = s.packed /\ packed \in BOOLEAN /\ P = PacketWire(p, s.packed)
  BY <1>3
<1>d. all_ = Len(all)
  OBVIOUS
<1> HIDE DEF p, hp, bp, h, b, e, all, c, z, wh, P, packed, all_
<1>9. e[c + l] = <<wh, <<>>>>
  <2>1. Ran(e, c, hp, "raw", packed)
    <3>1. "raw" \in {"raw", "body"} /\ Passes(all, c, hp, "raw") /\ IsPieces(hp)
      BY <1>2, <1>4
    <3> QED BY <1>6, <1>a, <1>s, <3>1, EmitRun
  <2>2. e[c][1] = w /\ e[c][2] = <<>>
    BY <1>7
  <2>3. e[c + l] = Adds(w, <<>>, h, "raw", packed)
    BY <1>2, <1>4, <2>1, <2>2 DEF Ran
  <2> QED BY <1>s, <2>3 DEF Adds
<1>10. e[(c + l) + m] = IF packed THEN <<wh, b>> ELSE <<wh \o b, <<>>>>
  <2>0. c + l \in Nat
    BY <1>a
  <2>1. Ran(e, c + l, bp, "body", packed)
    <3>1. "body" \in {"raw", "body"} /\ Passes(all, c + l, bp, "body") /\ IsPieces(bp)
      BY <1>2, <1>4
    <3> QED BY <1>6, <1>s, <2>0, <3>1, EmitRun
  <2>2. e[c + l][1] = wh /\ e[c + l][2] = <<>>
    BY <1>9
  <2>3. <<>> \o b = b
    BY <1>4, ConcatEmptySeq
  <2>4. e[(c + l) + m] = Adds(wh, <<>>, b, "body", packed)
    BY <1>2, <1>4, <2>1, <2>2 DEF Ran
  <2> QED BY <2>3, <2>4 DEF Adds
<1>11. e[c + l + m + 1] = After(e[(c + l) + m], all[c + l + m + 1], packed)
  <2>1. c + l + m + 1 \in 1..Len(all) /\ (c + l + m + 1) - 1 = (c + l) + m
    <3>1. all_ \in Nat
      BY <1>2, <1>d DEF Passes
    <3>2. c + l + m + 1 <= all_
      BY <1>2, <1>d
    <3>3. c + l + m + 1 \in 1..all_ /\ (c + l + m + 1) - 1 = (c + l) + m
      BY <1>2, <3>1, <3>2
    <3> QED BY <1>d, <3>3
  <2>2. e[c + l + m + 1] = After(e[(c + l + m + 1) - 1], all[c + l + m + 1], s.packed)
    BY <1>6, <2>1 DEF Emits
  <2> QED BY <1>s, <2>1, <2>2
<1>12. e[c + l + m + 1] = <<wh \o z, <<>>>>
  <2> DEFINE x == e[(c + l) + m]
             call == [to |-> "finalize", data |-> <<>>]
  <2>1. After(x, call, packed) = <<x[1] \o (IF packed THEN Compressed(x[2]) ELSE <<>>), <<>>>>
    <3>1. call.to = "finalize"
      OBVIOUS
    <3> HIDE DEF x, call
    <3> QED BY <3>1 DEF After
  <2>2. CASE packed
    <3>1. x[1] = wh /\ x[2] = b
      BY <1>10, <2>2
    <3> HIDE DEF x
    <3> QED BY <1>2, <1>5, <1>11, <1>s, <2>1, <2>2, <3>1 DEF x
  <2>3. CASE ~packed
    <3> DEFINE u == wh \o b
    <3>1. u \in Seq(SentSym)
      BY <1>8, <1>r, Concat
    <3>2. x = <<u, <<>>>>
      BY <1>10, <2>3
    <3>3. u = wh \o z
      BY <1>5, <1>s, <2>3
    <3> HIDE DEF u
    <3>4. x[1] = u
      <4> HIDE DEF x
      <4> QED BY <3>2
    <3>5. u \o <<>> = u
      BY <3>1, ConcatEmptySeq
    <3>6. After(x, call, packed) = <<u, <<>>>>
      BY <2>1, <2>3, <3>4, <3>5
    <3> QED BY <1>2, <1>11, <3>3, <3>6
  <2> QED BY <1>s, <2>2, <2>3
<1> QED BY <1>2, <1>12, <1>r, <1>s DEF e, p

\* All that the writer sends, and when.
LEMMA EmitAll ==
  ASSUME NEW s, MaySend(s)
  PROVE  Emission(s)[Len(AllCalls(s))] = <<WireOf(s), <<>>>>
<1> DEFINE n == Len(s.packets)
           e == Emission(s)
           ss == CallLists(s)
           P == Start(ss)
           ww == Wires(s)
<1>1. /\ ww \in Seq(Seq(SentSym)) /\ Len(ww) = n /\ WireOf(s) = FlattenSeq(ww)
      /\ \A k \in 1..n : ww[k] = PacketWire(s.packets[k], s.packed)
  BY WiresFacts DEF WireOf
<1>2. ss \in Seq(Seq(CallSet)) /\ Len(ss) = n /\ AllCalls(s) = FlattenSeq(ss)
  BY CallListsFacts DEF AllCalls
<1>3. P[0] = 0 /\ P[n] = Len(AllCalls(s))
  BY <1>2, StartFacts DEF Begins
<1>4. n \in Nat
  BY PacketsFacts
<1>5. e[0] = <<<<>>, <<>>>>
  BY EmissionFacts DEF Emits
<1>6. \A k \in 1..n : \A w \in Seq(SentSym) :
        e[P[k - 1]] = <<w, <<>>>> => e[P[k]] = <<w \o ww[k], <<>>>>
  <2> SUFFICES ASSUME NEW k \in 1..n, NEW w \in Seq(SentSym), e[P[k - 1]] = <<w, <<>>>>
               PROVE  e[P[k]] = <<w \o ww[k], <<>>>>
    OBVIOUS
  <2>1. ww[k] = PacketWire(s.packets[k], s.packed)
    BY <1>1
  <2>2. e[P[k]] = <<w \o PacketWire(s.packets[k], s.packed), <<>>>>
    BY EmitPacket
  <2> QED BY <2>1, <2>2
<1> HIDE DEF n, e, P, ww, ss
<1>7. PICK g : g \in [Nat -> Seq(SentSym)] /\ Grows(g, ww) /\ FlattenSeq(ww) = g[Len(ww)]
  BY <1>1, Flattening
<1> DEFINE T == {k \in Nat : k <= n => e[P[k]] = <<g[k], <<>>>>}
<1>8. 0 \in T
  <2>1. g[0] = <<>>
    BY <1>7 DEF Grows
  <2> QED BY <1>3, <1>5, <2>1
<1>9. ASSUME NEW k \in Nat, k \in T PROVE k + 1 \in T
  <2> SUFFICES ASSUME k + 1 <= n PROVE e[P[k + 1]] = <<g[k + 1], <<>>>>
    OBVIOUS
  <2>1. k + 1 \in 1..n /\ (k + 1) - 1 = k /\ k <= n
    BY <1>4
  <2>2. g[k + 1] = g[k] \o ww[k + 1]
    BY <1>1, <1>7, <2>1 DEF Grows
  <2>3. g[k] \in Seq(SentSym)
    BY <1>7
  <2>4. e[P[(k + 1) - 1]] = <<g[k], <<>>>>
    BY <1>9, <2>1
  <2> QED BY <1>6, <2>1, <2>2, <2>3, <2>4
<1>10. n \in T
  <2> HIDE DEF T
  <2>1. \A k \in Nat : k \in T
    BY <1>8, <1>9, Induction
  <2> QED BY <1>4, <2>1
<1>11. e[P[n]] = <<g[n], <<>>>>
  BY <1>4, <1>10
<1>12. g[n] = WireOf(s)
  BY <1>1, <1>7
<1> QED BY <1>3, <1>11, <1>12 DEF e

LEMMA EmitPrefix ==
  ASSUME NEW s, MaySend(s), NEW c \in 0..Len(AllCalls(s))
  PROVE  /\ Emission(s)[c] \in EmitSet /\ At(Emission(s)[c][1], WireOf(s), 0)
         /\ Len(Emission(s)[c][1]) \in Nat /\ Len(Emission(s)[c][1]) <= Len(WireOf(s))
<1> DEFINE e == Emission(s)
           all == AllCalls(s)
           n == Len(all)
           w == WireOf(s)
           T == {t \in Nat : t <= n => At(e[n - t][1], w, 0)}
<1>1. all \in Seq(CallSet) /\ n \in Nat /\ n = Len(all) /\ s.packed \in BOOLEAN
  BY CallListsFacts DEF MaySend
<1>2. w \in Seq(SentSym) /\ Len(w) \in Nat
  BY WiresFacts
<1>3. e \in [Nat -> EmitSet] /\ Emits(e, all, s.packed)
  BY EmissionFacts
<1>4. e[n] = <<w, <<>>>>
  BY EmitAll
<1>5. c \in 0..n
  OBVIOUS
<1> HIDE DEF e, all, n, w
<1>6. 0 \in T
  <2>1. n - 0 = n /\ e[n][1] = w
    BY <1>1, <1>4
  <2>2. At(w, w, 0)
    BY <1>2 DEF At
  <2> QED BY <2>1, <2>2
<1>7. ASSUME NEW t \in Nat, t \in T PROVE t + 1 \in T
  <2> SUFFICES ASSUME t + 1 <= n PROVE At(e[n - (t + 1)][1], w, 0)
    OBVIOUS
  <2> DEFINE i == n - t
             x == e[i - 1]
  <2>1. i \in 1..n /\ n - (t + 1) = i - 1 /\ i - 1 \in Nat /\ t <= n
    BY <1>1
  <2>2. At(e[i][1], w, 0)
    BY <1>7, <2>1
  <2> HIDE DEF i
  <2>3. e[i] = After(x, all[i], s.packed) /\ all[i] \in CallSet /\ x \in EmitSet
    <3>1. i \in 1..Len(all)
      BY <1>1, <2>1
    <3>2. all[i] \in CallSet
      BY <1>1, <3>1, ElementOfSeq
    <3> QED BY <1>3, <2>1, <3>1, <3>2 DEF Emits
  <2> DEFINE packed == s.packed
  <2>p. packed \in BOOLEAN
    BY <1>1
  <2> HIDE DEF x, packed
  <2>4. PICK u \in Seq(SentSym) : After(x, all[i], packed)[1] = x[1] \o u
    BY <2>3, <2>p, AfterFacts
  <2>5. x[1] \in Seq(SentSym)
    BY <2>3 DEF EmitSet
  <2> DEFINE y == x[1]
  <2>6. At(y \o u, w, 0)
    BY <2>2, <2>3, <2>4 DEF packed
  <2> HIDE DEF y
  <2>7. At(y, w, 0)
    BY <1>2, <2>5, <2>6, AtConcat DEF y
  <2> QED BY <2>1, <2>7 DEF y, x
<1>8. At(e[c][1], w, 0)
  <2>1. n - c \in Nat /\ n - (n - c) = c /\ n - c <= n
    BY <1>1, <1>5
  <2>2. n - c \in T
    <3> HIDE DEF T
    <3>1. \A t \in Nat : t \in T
      BY <1>6, <1>7, Induction
    <3> QED BY <2>1, <3>1
  <2> QED BY <2>1, <2>2
<1>9. e[c] \in EmitSet
  BY <1>1, <1>3, <1>5
<1>10. e[c][1] \in Seq(SentSym)
  BY <1>9 DEF EmitSet
<1>11. Len(e[c][1]) \in Nat /\ Len(e[c][1]) <= Len(w)
  <2>1. Len(e[c][1]) \in Nat
    BY <1>10, LenProperties
  <2>2. 0 + Len(e[c][1]) <= Len(w)
    BY <1>8 DEF At
  <2> QED BY <2>1, <2>2
<1> QED BY <1>8, <1>9, <1>11 DEF e, w

LEMMA LastCall ==
  ASSUME NEW s, MaySend(s), Len(AllCalls(s)) # 0
  PROVE  AllCalls(s)[Len(AllCalls(s))].to = "finalize"
<1> DEFINE n == Len(s.packets)
           ss == CallLists(s)
           P == Start(ss)
<1>1. ss \in Seq(Seq(CallSet)) /\ Len(ss) = n /\ AllCalls(s) = FlattenSeq(ss)
  BY CallListsFacts DEF AllCalls
<1>2. P[0] = 0 /\ P[n] = Len(AllCalls(s))
  BY <1>1, StartFacts DEF Begins
<1>3. n \in Nat /\ n # 0
  BY <1>2, PacketsFacts
<1>4. n \in 1..Len(s.packets)
  BY <1>3
<1>n. n = Len(s.packets)
  OBVIOUS
<1> HIDE DEF n
<1>5. PICK l, m : CallPlaces(s, n, P[n - 1], l, m)
  BY <1>4, CallsPlaced
<1>6. P[n] = P[n - 1] + l + m + 1 /\ AllCalls(s)[P[n - 1] + l + m + 1] = [to |-> "finalize", data |-> <<>>]
  BY <1>5 DEF CallPlaces
<1>7. AllCalls(s)[Len(AllCalls(s))] = [to |-> "finalize", data |-> <<>>]
  BY <1>2, <1>6
<1> QED BY <1>7

-----------------------------------------------------------------------------
(* What is on its way                                                          *)

\* y is the wire as the network leaves it.  From n on it is still to be read: in is
\* at the reader, net on its way and out with the writer, who has written m
\* symbols; what has not left the writer is not changed yet.
Carries(s, m, alt, lost, in, net, out, y, n) ==
  LET z == WireOf(s)
      w == n + Len(in) + Len(net)
  IN  /\ y \in Seq(Sym) /\ Len(y) = Len(z) /\ n \in Nat
      /\ \A k \in 1..Len(z) :
           y[k] = z[k] \/ (alt /\ (lost \/ k <= w) /\ y[k] \in Changed(z[k]))
      /\ At(in, y, n) /\ At(net, y, n + Len(in))
      /\ ~lost => At(out, y, w) /\ w + Len(out) = m

Keeps(y, x, n) == x \in Seq(Sym) /\ Len(x) = Len(y) /\ \A k \in 1..n : k <= Len(y) => x[k] = y[k]

LEMMA CarriesWrite ==
  ASSUME NEW s, MaySend(s), NEW m, NEW alt, NEW lost, ~lost, NEW in \in Seq(Sym),
         NEW net \in Seq(Sym), NEW out \in Seq(Sym), NEW y, NEW n, NEW d \in Seq(Sym),
         Carries(s, m, alt, lost, in, net, out, y, n), At(d, WireOf(s), m)
  PROVE  /\ Carries(s, m + Len(d), alt, lost, in, net, out \o d, y, n)
         /\ Carries(s, m + Len(d), alt, lost, in, net \o (out \o d), <<>>, y, n)
<1> DEFINE z == WireOf(s)
           L == Len(z)
           i == Len(in)
           e == Len(net)
           o == Len(out)
           l == Len(d)
           w == n + i + e
           t == out \o d
           r == net \o t
           v == <<>>
<1>1. L \in Nat /\ i \in Nat /\ e \in Nat /\ o \in Nat /\ l \in Nat
  BY WiresFacts, LenProperties
<1>2. /\ y \in Seq(Sym) /\ Len(y) = L /\ n \in Nat
      /\ \A k \in 1..L : y[k] = z[k] \/ (alt /\ (lost \/ k <= w) /\ y[k] \in Changed(z[k]))
      /\ At(in, y, n) /\ At(net, y, n + i) /\ At(out, y, w) /\ w + o = m
  BY DEF Carries
<1>3. t \in Seq(Sym) /\ Len(t) = o + l
  BY Concat
<1>t. t = out \o d /\ r = net \o t /\ L = Len(z) /\ i = Len(in) /\ e = Len(net) /\ l = Len(d)
  OBVIOUS
<1>v. v \in Seq(Sym) /\ Len(v) = 0
  BY EmptySeq
<1>4. At(d, z, m)
  OBVIOUS
<1>o. o = Len(out) /\ w = n + i + e
  OBVIOUS
<1>z. z = WireOf(s)
  OBVIOUS
<1> HIDE DEF z, L, i, e, o, l, w, t, r, v
<1>a. /\ L \in Nat /\ i \in Nat /\ e \in Nat /\ o \in Nat /\ l \in Nat /\ n \in Nat
      /\ w = n + i + e /\ w + o = m
  BY <1>1, <1>2, <1>o
<1>5. r \in Seq(Sym) /\ Len(r) = e + (o + l)
  BY <1>3, <1>t, Concat
<1>6. At(d, y, w + o)
  <2>1. m \in Nat /\ m + l <= L /\ \A k \in 1..l : d[k] = z[m + k]
    BY <1>4, <1>t DEF At
  <2>0. m \in Nat /\ m + l <= L
    BY <2>1
  <2>2. ASSUME NEW k \in 1..l PROVE d[k] = y[m + k]
    <3>1. m + k \in 1..L /\ ~ (m + k <= w)
      BY <1>a, <2>0
    <3>2. y[m + k] = z[m + k]
      BY <1>2, <3>1
    <3> QED BY <2>1, <3>2
  <2> QED BY <1>2, <1>t, <2>1, <2>2 DEF At
<1>7. At(t, y, w)
  <2>1. Len(y) \in Nat
    BY <1>1, <1>2
  <2> QED BY <1>2, <1>o, <1>t, <1>6, <2>1, AtConcat
<1>8. At(r, y, n + i)
  <2>1. Len(y) \in Nat /\ (n + i) + Len(net) = w
    BY <1>1, <1>2, <1>o, <1>t
  <2> QED BY <1>2, <1>3, <1>7, <1>t, <2>1, AtConcat
<1>9. w + Len(t) = m + l
  BY <1>1, <1>2, <1>3, <1>o
<1>10. Carries(s, m + l, alt, lost, in, net, t, y, n)
  BY <1>2, <1>7, <1>9, <1>o, <1>t, <1>z DEF Carries
<1> DEFINE w1 == n + i + Len(r)
<1>11. w1 = m + l /\ w <= w1 /\ w1 <= L /\ w1 \in Nat
  <2>1. w1 = m + l /\ w <= w1 /\ w1 \in Nat
    <3> DEFINE rr == Len(r)
    <3>1. rr = e + (o + l)
      BY <1>5
    <3> HIDE DEF rr
    <3>2. n + i + rr = m + l /\ w <= n + i + rr /\ n + i + rr \in Nat
      BY <1>a, <3>1
    <3> QED BY <3>2 DEF rr
  <2>2. m + l <= L
    BY <1>4, <1>t DEF At
  <2> QED BY <2>1, <2>2
<1>12. At(v, y, w1) /\ w1 + Len(v) = m + l
  <2>1. w1 \in 0..Len(y) /\ Len(y) \in Nat
    BY <1>1, <1>2, <1>11
  <2>2. At(v, y, w1)
    <3> HIDE DEF w1
    <3> QED BY <2>1, AtNothing DEF v
  <2> QED BY <1>1, <1>2, <1>11, <1>v, <2>2
<1>13. \A k \in 1..L : k <= w => k <= w1
  <2>1. w1 \in Nat /\ w <= w1
    BY <1>11
  <2> HIDE DEF w1
  <2> QED BY <1>a, <2>1
<1>14. \A k \in 1..L : y[k] = z[k] \/ (alt /\ (lost \/ k <= w1) /\ y[k] \in Changed(z[k]))
  <2> HIDE DEF w1
  <2> QED BY <1>2, <1>13
<1>15. Carries(s, m + l, alt, lost, in, r, v, y, n)
  BY <1>2, <1>8, <1>12, <1>14, <1>t, <1>z DEF Carries
<1> QED BY <1>10, <1>15 DEF t, r, v, l

LEMMA CarriesCut ==
  ASSUME NEW s, MaySend(s), NEW m, NEW alt, NEW lost, NEW in \in Seq(Sym),
         NEW net \in Seq(Sym), NEW out \in Seq(Sym), NEW y, NEW n, NEW j \in 0..Len(net),
         Carries(s, m, alt, lost, in, net, out, y, n)
  PROVE  Carries(s, m, alt, TRUE, in, SubSeq(net, 1, j), out, y, n)
<1> DEFINE z == WireOf(s)
           r == SubSeq(net, 1, j)
<1>1. /\ y \in Seq(Sym) /\ Len(y) = Len(z) /\ n \in Nat
      /\ \A k \in 1..Len(z) : y[k] = z[k] \/ (alt /\ y[k] \in Changed(z[k]))
      /\ At(in, y, n) /\ At(net, y, n + Len(in))
  BY DEF Carries
<1>2. Len(y) \in Nat
  BY <1>1, LenProperties
<1>3. At(r, y, n + Len(in))
  BY <1>1, <1>2, AtSplit
<1> HIDE DEF r
<1>4. Carries(s, m, alt, TRUE, in, r, out, y, n)
  BY <1>1, <1>3 DEF Carries
<1> QED BY <1>4 DEF r

LEMMA CarriesMoves ==
  ASSUME NEW s, MaySend(s), NEW m, NEW alt, NEW lost, NEW in \in Seq(Sym),
         NEW net \in Seq(Sym), NEW out \in Seq(Sym), NEW y, NEW n,
         Carries(s, m, alt, lost, in, net, out, y, n)
  PROVE  /\ \A j \in 0..Len(net) : in = <<>> =>
              Carries(s, m, alt, lost, SubSeq(net, 1, j), SubSeq(net, j + 1, Len(net)), out, y, n)
         /\ \A j \in 0..Len(in) :
              /\ Carries(s, m, alt, lost, SubSeq(in, j + 1, Len(in)), net, out, y, n + j)
              /\ At(SubSeq(in, 1, j), y, n)
<1> DEFINE z == WireOf(s)
           w == n + Len(in) + Len(net)
           i == Len(in)
           e == Len(net)
<1>1. /\ y \in Seq(Sym) /\ Len(y) = Len(z) /\ n \in Nat
      /\ \A k \in 1..Len(z) : y[k] = z[k] \/ (alt /\ (lost \/ k <= w) /\ y[k] \in Changed(z[k]))
      /\ At(in, y, n) /\ At(net, y, n + i)
      /\ ~lost => At(out, y, w) /\ w + Len(out) = m
  BY DEF Carries
<1>2. Len(y) \in Nat /\ i \in Nat /\ e \in Nat
  BY <1>1, LenProperties
<1>n. i = Len(in) /\ e = Len(net) /\ w = n + i + e
  OBVIOUS
<1> HIDE DEF z, w, i, e
<1>3. ASSUME NEW j \in 0..e, in = <<>>
      PROVE  Carries(s, m, alt, lost, SubSeq(net, 1, j), SubSeq(net, j + 1, e), out, y, n)
  <2> DEFINE a == SubSeq(net, 1, j)
             b == SubSeq(net, j + 1, e)
  <2>1. j \in 0..Len(net)
    BY <1>n
  <2>2. a \in Seq(Sym) /\ Len(a) = j /\ b \in Seq(Sym) /\ Len(b) = e - j
    BY <1>n, <2>1, FirstOnes, LastOnes
  <2>3. i = 0
    BY <1>3, <1>n, EmptySeq
  <2>4. At(a, y, n) /\ At(b, y, n + j)
    <3>1. At(net, y, n)
      BY <1>1, <2>3
    <3> QED BY <1>2, <1>n, <2>1, <3>1, AtSplit
  <2> HIDE DEF a, b
  <2>5. n + Len(a) + Len(b) = w
    BY <1>1, <1>2, <1>n, <2>2, <2>3
  <2>6. Carries(s, m, alt, lost, a, b, out, y, n)
    BY <1>1, <2>2, <2>4, <2>5 DEF Carries, z
  <2> QED BY <2>6 DEF a, b
<1>4. ASSUME NEW j \in 0..i
      PROVE  /\ Carries(s, m, alt, lost, SubSeq(in, j + 1, i), net, out, y, n + j)
             /\ At(SubSeq(in, 1, j), y, n)
  <2> DEFINE a == SubSeq(in, 1, j)
             b == SubSeq(in, j + 1, i)
  <2>1. j \in 0..Len(in)
    BY <1>n
  <2>2. a \in Seq(Sym) /\ Len(a) = j /\ b \in Seq(Sym) /\ Len(b) = i - j
    BY <1>n, <2>1, FirstOnes, LastOnes
  <2>3. At(a, y, n) /\ At(b, y, n + j)
    BY <1>1, <1>2, <1>n, <2>1, AtSplit
  <2> HIDE DEF a, b
  <2>4. n + j + Len(b) + e = w /\ n + j + Len(b) = n + i /\ n + j \in Nat
    BY <1>1, <1>2, <1>n, <2>2
  <2>5. Carries(s, m, alt, lost, b, net, out, y, n + j)
    BY <1>1, <1>n, <2>2, <2>3, <2>4 DEF Carries, z
  <2> QED BY <2>3, <2>5 DEF a, b
<1> QED BY <1>3, <1>4 DEF i, e

LEMMA CarriesAlter ==
  ASSUME NEW s, MaySend(s), NEW m, NEW alt, ~alt, NEW lost, NEW in \in Seq(Sym),
         NEW net \in Seq(Sym), NEW out \in Seq(Sym), NEW y, NEW n,
         Carries(s, m, alt, lost, in, net, out, y, n),
         NEW j \in 1..Len(net), NEW x \in Changed(net[j])
  PROVE  /\ x \in Sym
         /\ \E u : Carries(s, m, TRUE, lost, in, [net EXCEPT ![j] = x], out, u, n) /\ Keeps(y, u, n)
<1> DEFINE z == WireOf(s)
           L == Len(z)
           i == Len(in)
           e == Len(net)
           p == n + i + j
           w == n + i + e
           u == [y EXCEPT ![p] = x]
           r == [net EXCEPT ![j] = x]
<1>1. L \in Nat /\ i \in Nat /\ e \in Nat /\ z \in Seq(SentSym) /\ j \in 1..e
  BY WiresFacts, LenProperties
<1>2. /\ y \in Seq(Sym) /\ Len(y) = L /\ n \in Nat /\ \A k \in 1..L : y[k] = z[k]
      /\ At(in, y, n) /\ At(net, y, n + i) /\ (~lost => At(out, y, w) /\ w + Len(out) = m)
  BY DEF Carries
<1>n. i = Len(in) /\ e = Len(net) /\ w = n + i + e /\ p = n + i + j /\ L = Len(z) /\ z = WireOf(s)
  OBVIOUS
<1>d. DOMAIN y = 1..L /\ DOMAIN net = 1..e /\ (\A k \in 1..L : y[k] \in Sym) /\ \A k \in 1..e : net[k] \in Sym
  BY <1>2, LenProperties, ElementOfSeq
<1>x. x \in Changed(net[j])
  OBVIOUS
<1>u. u = [y EXCEPT ![p] = x] /\ r = [net EXCEPT ![j] = x]
  OBVIOUS
<1> HIDE DEF z, L, i, e, p, w, u, r
<1>3. (n + i) + e <= L /\ \A k \in 1..e : net[k] = y[(n + i) + k]
  BY <1>2, <1>n DEF At
<1>a. /\ L \in Nat /\ i \in Nat /\ e \in Nat /\ n \in Nat /\ j \in 1..e
      /\ (n + i) + e <= L /\ w = n + i + e /\ p = n + i + j
  BY <1>1, <1>2, <1>3, <1>n
<1>4. p \in 1..L /\ p <= w /\ net[j] = z[p]
  <2>1. p \in 1..L /\ p <= w /\ (n + i) + j = p
    BY <1>a
  <2> QED BY <1>1, <1>2, <1>3, <2>1
<1>5. x \in Sym
  <2>1. z[p] \in SentSym
    BY <1>1, <1>4, <1>n, ElementOfSeq
  <2>2. x \in Changed(z[p])
    BY <1>4, <1>x
  <2> QED BY <2>1, <2>2 DEF Sym
<1>6. /\ u \in Seq(Sym) /\ Len(u) = L /\ u[p] = x
      /\ \A k \in 1..L : k # p => u[k] = y[k]
  <2>1. u = [k \in 1..L |-> IF k = p THEN x ELSE y[k]]
    BY <1>d, <1>u
  <2>2. u \in [1..L -> Sym]
    BY <1>5, <1>d, <2>1
  <2>3. u \in Seq(Sym) /\ Len(u) = L
    BY <1>1, <2>2, FunctionIsSeq
  <2> QED BY <1>4, <2>1, <2>3
<1>7. Len(r) = e /\ r[j] = x /\ \A k \in 1..e : k # j => r[k] = net[k]
  <2>1. r = [k \in 1..e |-> IF k = j THEN x ELSE net[k]]
    BY <1>d, <1>u
  <2>2. r \in [1..e -> Sym]
    BY <1>5, <1>d, <2>1
  <2>3. r \in Seq(Sym) /\ Len(r) = e
    BY <1>1, <2>2, FunctionIsSeq
  <2> QED BY <1>1, <2>1, <2>3
<1>8. At(in, u, n)
  <2>1. n + i <= L /\ \A k \in 1..i : in[k] = y[n + k]
    BY <1>2, <1>n DEF At
  <2>2. ASSUME NEW k \in 1..i PROVE in[k] = u[n + k]
    <3>1. n + k \in 1..L /\ n + k # p
      BY <1>a
    <3> QED BY <1>6, <2>1, <3>1
  <2> QED BY <1>2, <1>6, <1>n, <2>1, <2>2 DEF At
<1>9. At(r, u, n + i)
  <2>1. ASSUME NEW k \in 1..e PROVE r[k] = u[(n + i) + k]
    <3>1. CASE k = j
      BY <1>6, <1>7, <1>n, <3>1
    <3>2. CASE k # j
      <4>1. (n + i) + k \in 1..L /\ (n + i) + k # p
        BY <1>a, <3>2
      <4> QED BY <1>3, <1>6, <1>7, <3>2, <4>1
    <3> QED BY <3>1, <3>2
  <2>2. n + i \in Nat
    BY <1>1, <1>2
  <2> QED BY <1>3, <1>6, <1>7, <2>1, <2>2 DEF At
<1>10. ASSUME ~lost PROVE At(out, u, w) /\ w + Len(out) = m
  <2> DEFINE o == Len(out)
  <2>1. w \in Nat /\ w + o <= L /\ \A k \in 1..o : out[k] = y[w + k]
    BY <1>2, <1>10 DEF At
  <2>o. o \in Nat
    BY LenProperties
  <2> HIDE DEF o
  <2>2. ASSUME NEW k \in 1..o PROVE out[k] = u[w + k]
    <3>1. w + k \in 1..L /\ w + k # p
      BY <1>1, <1>4, <2>1, <2>o
    <3> QED BY <1>6, <2>1, <3>1
  <2> QED BY <1>2, <1>6, <1>10, <2>1, <2>2 DEF At, o
<1>11. \A k \in 1..L : u[k] = z[k] \/ (k <= w /\ u[k] \in Changed(z[k]))
  <2> SUFFICES ASSUME NEW k \in 1..L
               PROVE u[k] = z[k] \/ (k <= w /\ u[k] \in Changed(z[k]))
    OBVIOUS
  <2>1. CASE k = p
    BY <1>4, <1>6, <1>x, <2>1
  <2>2. CASE k # p
    BY <1>2, <1>6, <2>2
  <2> QED BY <2>1, <2>2
<1>12. Carries(s, m, TRUE, lost, in, r, out, u, n)
  BY <1>2, <1>6, <1>7, <1>8, <1>9, <1>10, <1>11, <1>n DEF Carries
<1>13. Keeps(y, u, n)
  <2>1. \A k \in 1..n : k <= L => k \in 1..L /\ k # p
    BY <1>a
  <2> QED BY <1>2, <1>6, <2>1 DEF Keeps
<1> QED BY <1>5, <1>12, <1>13 DEF r

-----------------------------------------------------------------------------
(* What the reader has in hand                                                 *)

\* Item i of what was sent, and its bytes.
ItemAt(s, i) == ItemsOf(s)[i]
CodeAt(s, i) == Encoding(ItemsOf(s)[i])

\* The reader has read up to n: of an item, the first bytes pt; of a frame, the
\* symbols fr; or the whole frame, of whose block b the bytes un are left.
ClearAt(s, i, un, fr, pt, y, n, q) ==
  /\ un = <<>> /\ fr = <<>> /\ Len(pt) < Len(CodeAt(s, i))
  /\ At(pt, y, q) /\ n = q + Len(pt)
BeforeAt(un, fr, pt, y, n, q, o) ==
  /\ un = <<>> /\ pt = <<>> /\ o = 0 /\ (Len(fr) >= 3 => FrameMissing(fr) > 0)
  /\ At(fr, y, q) /\ n = q + Len(fr)
InsideAt(s, i, un, fr, pt, n, q, o, b) ==
  /\ un # <<>> /\ fr = <<>> /\ Len(pt) < Len(CodeAt(s, i))
  /\ At(pt, b, o) /\ At(un, b, o + Len(pt)) /\ o + Len(pt) + Len(un) = Len(b)
  /\ n = q + Len(Compressed(b))
EndAt(un, fr, pt, n, q) == un = <<>> /\ pt = <<>> /\ fr = <<>> /\ n = q

ReadsAt(s, i, un, fr, pt, y, n, q, o, b) ==
  \/ i > Len(ItemsOf(s)) /\ EndAt(un, fr, pt, n, q)
  \/ i <= Len(ItemsOf(s)) /\ ~Framed(s, i) /\ ClearAt(s, i, un, fr, pt, y, n, q)
  \/ i <= Len(ItemsOf(s)) /\ Framed(s, i) /\ BeforeAt(un, fr, pt, y, n, q, o)
  \/ i <= Len(ItemsOf(s)) /\ Framed(s, i) /\ InsideAt(s, i, un, fr, pt, n, q, o, b)

Reader(s, i, un, fr, pt, y, n) ==
  \E q, o, b : Spot(s, i, q, o, b) /\ ReadsAt(s, i, un, fr, pt, y, n, q, o, b)

LEMMA AtKeeps ==
  ASSUME NEW y, NEW u, NEW n \in Nat, Len(y) \in Nat, Keeps(y, u, n), NEW x, Len(x) \in Nat,
         NEW q, At(x, y, q), q + Len(x) <= n
  PROVE  At(x, u, q)
<1> DEFINE l == Len(x)
           L == Len(y)
<1>1. q \in Nat /\ l \in Nat /\ L \in Nat /\ q + l <= L /\ q + l <= n /\ \A k \in 1..l : x[k] = y[q + k]
  BY DEF At
<1>2. Len(u) = L /\ \A k \in 1..n : k <= L => u[k] = y[k]
  BY DEF Keeps
<1>n. l = Len(x)
  OBVIOUS
<1> HIDE DEF l, L
<1>3. ASSUME NEW k \in 1..l PROVE x[k] = u[q + k]
  <2>1. q + k \in 1..n /\ q + k <= L
    BY <1>1
  <2> QED BY <1>1, <1>2, <2>1
<1> QED BY <1>1, <1>2, <1>3, <1>n DEF At

LEMMA ReaderKeeps ==
  ASSUME NEW s, NEW i, NEW un, NEW fr \in Seq(Sym), NEW pt \in Seq(ByteSym), NEW y, NEW n \in Nat,
         Reader(s, i, un, fr, pt, y, n), NEW u, Keeps(y, u, n), Len(y) \in Nat
  PROVE  Reader(s, i, un, fr, pt, u, n)
<1>1. PICK q, o, b : Spot(s, i, q, o, b) /\ ReadsAt(s, i, un, fr, pt, y, n, q, o, b)
  BY DEF Reader
<1>2. Len(fr) \in Nat /\ Len(pt) \in Nat
  BY LenProperties
<1>3. ASSUME ClearAt(s, i, un, fr, pt, y, n, q) PROVE ClearAt(s, i, un, fr, pt, u, n, q)
  <2>1. At(pt, y, q) /\ n = q + Len(pt)
    BY <1>3 DEF ClearAt
  <2>2. q + Len(pt) <= n
    BY <2>1
  <2>3. At(pt, u, q)
    BY <1>2, <2>1, <2>2, AtKeeps
  <2> QED BY <1>3, <2>3 DEF ClearAt
<1>4. ASSUME BeforeAt(un, fr, pt, y, n, q, o) PROVE BeforeAt(un, fr, pt, u, n, q, o)
  <2>1. At(fr, y, q) /\ n = q + Len(fr)
    BY <1>4 DEF BeforeAt
  <2>2. q + Len(fr) <= n
    BY <2>1
  <2>3. At(fr, u, q)
    BY <1>2, <2>1, <2>2, AtKeeps
  <2> QED BY <1>4, <2>3 DEF BeforeAt
<1>5. ReadsAt(s, i, un, fr, pt, u, n, q, o, b)
  BY <1>1, <1>3, <1>4 DEF ReadsAt
<1> QED BY <1>1, <1>5 DEF Reader

LEMMA ItemIsCoded ==
  ASSUME NEW s, MaySend(s), NEW i \in 1..Len(ItemsOf(s))
  PROVE  Sendable(ItemAt(s, i)) /\ Codes(CodeAt(s, i), ItemAt(s, i))
<1>1. ItemsOf(s) \in Seq(ItemSet(s))
  BY WholesFacts
<1>2. ItemAt(s, i) \in ItemSet(s)
  BY <1>1, ElementOfSeq DEF ItemAt
<1>3. Sendable(ItemAt(s, i))
  BY <1>2 DEF ItemSet
<1> QED BY <1>3, ItemCodes DEF CodeAt, ItemAt

\* Where the reader begins with an item that is not within a block.
LEMMA Arrives ==
  ASSUME NEW s, MaySend(s), NEW i \in Nat \ {0}, NEW n, NEW c, Spot(s, i, n, 0, c),
         NEW y, Len(y) \in Nat, n \in 0..Len(y)
  PROVE  Reader(s, i, <<>>, <<>>, <<>>, y, n)
<1> DEFINE v == <<>>
           N == Len(ItemsOf(s))
<1>1. At(v, y, n) /\ Len(v) = 0
  BY AtNothing
<1>2. N \in Nat
  BY WholesFacts
<1>3. \/ i <= N /\ ~Framed(s, i)
      \/ i <= N /\ Framed(s, i)
      \/ i = N + 1
  BY SpotMoves DEF Clear, Packed
<1>n. N = Len(ItemsOf(s)) /\ v = <<>>
  OBVIOUS
<1> HIDE DEF v, N
<1>4. n + Len(v) = n
  BY <1>1
<1>5. CASE i <= N /\ ~Framed(s, i)
  <2>1. Codes(CodeAt(s, i), ItemAt(s, i))
    <3>1. i \in 1..N
      BY <1>2, <1>5
    <3> QED BY <1>n, <3>1, ItemIsCoded
  <2>2. Len(v) < Len(CodeAt(s, i))
    BY <1>1, <2>1 DEF Codes
  <2>3. ClearAt(s, i, v, v, v, y, n, n)
    BY <1>1, <1>4, <1>n, <2>2 DEF ClearAt
  <2> QED BY <1>5, <1>n, <2>3 DEF Reader, ReadsAt
<1>6. CASE i <= N /\ Framed(s, i)
  <2>1. BeforeAt(v, v, v, y, n, n, 0)
    BY <1>1, <1>4, <1>n DEF BeforeAt
  <2> QED BY <1>6, <1>n, <2>1 DEF Reader, ReadsAt
<1>7. CASE i = N + 1
  <2>1. EndAt(v, v, v, n, n) /\ i > N
    BY <1>2, <1>7, <1>n DEF EndAt
  <2> QED BY <1>n, <2>1 DEF Reader, ReadsAt
<1> QED BY <1>3, <1>5, <1>6, <1>7

\* A byte that is not in a frame does not change.
LEMMA ClearBytes ==
  ASSUME NEW s, MaySend(s), NEW m, NEW alt, NEW lost, NEW in, NEW net, NEW out, NEW y, NEW n,
         Carries(s, m, alt, lost, in, net, out, y, n),
         NEW e \in Seq(ByteSym), NEW q, At(e, WireOf(s), q)
  PROVE  At(e, y, q)
<1> DEFINE z == WireOf(s)
           L == Len(z)
           l == Len(e)
<1>1. Len(y) = L /\ \A k \in 1..L : y[k] = z[k] \/ y[k] \in Changed(z[k])
  BY DEF Carries
<1>2. q \in Nat /\ q + l <= L /\ \A k \in 1..l : e[k] = z[q + k]
  BY DEF At
<1>3. L \in Nat /\ l \in Nat /\ \A k \in 1..l : e[k] \in ByteSym
  BY WiresFacts, LenProperties, ElementOfSeq
<1>n. l = Len(e)
  OBVIOUS
<1> HIDE DEF z, L, l
<1>4. ASSUME NEW k \in 1..l PROVE e[k] = y[q + k]
  <2>1. q + k \in 1..L
    BY <1>2, <1>3
  <2>2. Changed(z[q + k]) = {}
    BY <1>2, <1>3, ChangedFacts
  <2> QED BY <1>1, <1>2, <2>1, <2>2
<1> QED BY <1>1, <1>2, <1>4, <1>n DEF At

LEMMA FrameOnItsWay ==
  ASSUME NEW s, MaySend(s), NEW m, NEW alt, NEW lost, NEW in, NEW net, NEW out, NEW y, NEW n,
         Carries(s, m, alt, lost, in, net, out, y, n),
         NEW c, Len(c) \in Nat, NEW q, At(c, WireOf(s), q), NEW f, Len(f) \in Nat, At(f, y, q)
  PROVE  Mangled(f, c, alt)
<1> DEFINE z == WireOf(s)
           L == Len(z)
<1>1. Len(y) = L /\ \A k \in 1..L : y[k] = z[k] \/ (alt /\ y[k] \in Changed(z[k]))
  BY DEF Carries
<1>2. q \in Nat /\ q + Len(c) <= L /\ \A k \in 1..Len(c) : c[k] = z[q + k]
  BY DEF At
<1>3. \A k \in 1..Len(f) : f[k] = y[q + k]
  BY DEF At
<1>4. L \in Nat
  BY WiresFacts
<1> HIDE DEF z, L
<1>5. ASSUME NEW k \in 1..Len(f), k <= Len(c)
      PROVE  f[k] = c[k] \/ (alt /\ f[k] \in Changed(c[k]))
  <2>1. q + k \in 1..L /\ k \in 1..Len(c)
    BY <1>2, <1>4, <1>5
  <2>2. y[q + k] = z[q + k] \/ (alt /\ y[q + k] \in Changed(z[q + k]))
    BY <1>1, <2>1
  <2> QED BY <1>2, <1>3, <2>1, <2>2
<1> QED BY <1>5 DEF Mangled

\* How much of source an item takes, of which p has been read.
SizesOf(item, p, source) == {n \in 1..Len(source) : Whole_(item, p \o SubSeq(source, 1, n))}
SizeOf(item, p, source) ==
  IF SizesOf(item, p, source) = {} THEN Len(source)
  ELSE CHOOSE k \in SizesOf(item, p, source) : \A j \in SizesOf(item, p, source) : k <= j

LEMMA BytesAreSym ==
  ASSUME NEW s \in Seq(ByteSym)
  PROVE  s \in Seq(Sym)
BY BytesAreSent, SentIsSym

LEMMA FirstPart ==
  ASSUME NEW e \in Seq(ByteSym), NEW y, Len(y) \in Nat, NEW q, At(e, y, q),
         NEW p \in Seq(ByteSym), NEW source \in Seq(Sym), At(p, y, q), At(source, y, q + Len(p)),
         NEW j \in 0..Len(source), Len(p) + j <= Len(e)
  PROVE  /\ p \o SubSeq(source, 1, j) = SubSeq(e, 1, Len(p) + j)
         /\ SubSeq(e, 1, Len(p) + j) \in Seq(ByteSym) /\ Len(SubSeq(e, 1, Len(p) + j)) = Len(p) + j
<1> DEFINE l == Len(p)
           a == SubSeq(source, 1, j)
           u == p \o a
           k == l + j
           d == SubSeq(e, 1, k)
<1>1. l \in Nat /\ Len(source) \in Nat /\ Len(e) \in Nat /\ p \in Seq(Sym)
  BY LenProperties, BytesAreSym
<1>2. a \in Seq(Sym) /\ Len(a) = j /\ At(a, y, q + l)
  <2>1. a \in Seq(Sym) /\ Len(a) = j
    BY FirstOnes
  <2>2. At(a, y, q + l)
    BY AtSplit
  <2> QED BY <2>1, <2>2
<1>3. k \in 0..Len(e)
  BY <1>1
<1>n. l = Len(p) /\ u = p \o a /\ k = l + j /\ j \in Nat
  BY <1>1
<1>p. At(p, y, q) /\ At(e, y, q) /\ Len(y) \in Nat
  OBVIOUS
<1> HIDE DEF a, l, u, k
<1>4. d \in Seq(ByteSym) /\ Len(d) = k /\ \A m \in 1..k : d[m] = e[m]
  BY <1>3, FirstOnes
<1>d. d = SubSeq(e, 1, k)
  OBVIOUS
<1> HIDE DEF d
<1>5. u \in Seq(Sym) /\ Len(u) = k
  BY <1>1, <1>2, <1>n, Concat
<1>6. At(u, y, q)
  BY <1>1, <1>2, <1>n, <1>p, AtConcat
<1>7. ASSUME NEW m \in 1..k PROVE u[m] = d[m]
  <2>1. u[m] = y[q + m]
    BY <1>5, <1>6 DEF At
  <2>2. m \in 1..Len(e)
    BY <1>1, <1>3
  <2>3. e[m] = y[q + m]
    BY <1>p, <2>2 DEF At
  <2> QED BY <1>4, <2>1, <2>3
<1>8. d \in Seq(Sym)
  BY <1>4, BytesAreSym
<1>9. u = d
  BY <1>4, <1>5, <1>7, <1>8, SeqEqual
<1> QED BY <1>4, <1>9, <1>d DEF u, a, k, l

\* An item takes what it lacks, or all there is.
LEMMA SizeFacts ==
  ASSUME NEW item, NEW e, Codes(e, item), NEW y, Len(y) \in Nat, NEW q, At(e, y, q),
         NEW p \in Seq(ByteSym), NEW source \in Seq(Sym), source # <<>>,
         At(p, y, q), At(source, y, q + Len(p)), Len(p) < Len(e)
  PROVE  LET j  == SizeOf(item, p, source)
             rd == p \o SubSeq(source, 1, j)
         IN  /\ j \in 1..Len(source) /\ Len(p) + j <= Len(e)
             /\ rd \in Seq(ByteSym) /\ Len(rd) = Len(p) + j
             /\ Whole_(item, rd) <=> Len(p) + j = Len(e)
             /\ Len(p) + j = Len(e) => rd = e
             /\ Len(p) + j # Len(e) => j = Len(source)
<1> DEFINE l == Len(p)
           t == Len(source)
           L == Len(e)
           W == SizesOf(item, p, source)
           k == L - l
           rd(n) == p \o SubSeq(source, 1, n)
<1>1. /\ l \in Nat /\ t \in Nat \ {0} /\ L \in Nat /\ l < L
      /\ e \in Seq(ByteSym) /\ \A m \in 1..L : Whole_(item, SubSeq(e, 1, m)) <=> m = L
  BY LenProperties, EmptySequence DEF Codes
<1>2. ASSUME NEW n \in 0..t, l + n <= L
      PROVE  rd(n) = SubSeq(e, 1, l + n) /\ rd(n) \in Seq(ByteSym) /\ Len(rd(n)) = l + n
  <2>1. e \in Seq(ByteSym) /\ n \in 0..Len(source) /\ Len(p) + n <= Len(e)
    BY <1>1, <1>2
  <2>2. p \o SubSeq(source, 1, n) = SubSeq(e, 1, Len(p) + n)
    BY <2>1, FirstPart
  <2>3. SubSeq(e, 1, Len(p) + n) \in Seq(ByteSym) /\ Len(SubSeq(e, 1, Len(p) + n)) = Len(p) + n
    BY <2>1, FirstPart
  <2> QED BY <2>2, <2>3
<1>n. l = Len(p) /\ t = Len(source) /\ L = Len(e) /\ W = {n \in 1..t : Whole_(item, rd(n))}
  BY DEF SizesOf
<1>j. SizeOf(item, p, source) = IF W = {} THEN t ELSE CHOOSE m \in W : \A j \in W : m <= j
  BY DEF SizeOf
<1> HIDE DEF l, t, L, W, rd
<1>3. ASSUME NEW n \in 1..t, l + n <= L PROVE n \in W <=> n = k
  <2>1. n \in 0..t /\ l + n \in 1..L /\ (l + n = L <=> n = k)
    BY <1>1, <1>3
  <2>2. rd(n) = SubSeq(e, 1, l + n)
    BY <1>2, <1>3, <2>1
  <2>3. Whole_(item, SubSeq(e, 1, l + n)) <=> l + n = L
    BY <1>1, <2>1
  <2> QED BY <1>n, <2>1, <2>2, <2>3
<1> DEFINE j == SizeOf(item, p, source)
<1>4. j \in 1..t /\ l + j <= L /\ (l + j # L => j = t) /\ (Whole_(item, rd(j)) <=> l + j = L)
  <2>1. CASE k <= t
    <3>1. k \in 1..t /\ l + k = L /\ \A n \in 1..t : n < k => l + n <= L /\ n # k
      BY <1>1, <2>1
    <3>2. k \in W
      <4>1. l + k <= L
        BY <1>1, <3>1
      <4> HIDE DEF k
      <4> QED BY <1>3, <3>1, <4>1
    <3>3. \A n \in W : k <= n
      <4> SUFFICES ASSUME NEW n \in W, ~ (k <= n) PROVE FALSE
        OBVIOUS
      <4>1. n \in 1..t
        BY <1>n
      <4>2. l + n <= L /\ n # k
        BY <1>1, <3>1, <4>1
      <4> QED BY <1>3, <4>1, <4>2
    <3>4. \A n \in W : (\A m \in W : n <= m) => n = k
      <4> SUFFICES ASSUME NEW n \in W, n <= k, k <= n PROVE n = k
        BY <3>2, <3>3
      <4>1. n \in 1..t
        BY <1>n
      <4> QED BY <1>1, <4>1
    <3>5. j = k
      <4> HIDE DEF k
      <4> QED BY <1>j, <3>2, <3>3, <3>4
    <3>6. Whole_(item, rd(k))
      BY <1>n, <3>2
    <3> HIDE DEF j, k
    <3> QED BY <1>1, <3>1, <3>5, <3>6
  <2>2. CASE ~ (k <= t)
    <3>1. \A n \in 1..t : l + n <= L /\ n # k
      BY <1>1, <2>2
    <3>2. W = {}
      BY <1>3, <1>n, <3>1
    <3>3. j = t
      BY <1>j, <3>2
    <3>4. t \in 1..t /\ l + t <= L /\ l + t # L
      BY <1>1, <2>2
    <3>5. ~Whole_(item, rd(t))
      BY <1>n, <3>2, <3>4
    <3> HIDE DEF j
    <3> QED BY <3>3, <3>4, <3>5
  <2> QED BY <2>1, <2>2
<1> HIDE DEF j
<1>5. j \in 0..t
  BY <1>1, <1>4
<1>6. rd(j) = SubSeq(e, 1, l + j) /\ rd(j) \in Seq(ByteSym) /\ Len(rd(j)) = l + j
  BY <1>2, <1>4, <1>5
<1>7. l + j = L => rd(j) = e
  BY <1>1, <1>6, <1>n, SubSeqFull
<1> QED BY <1>4, <1>6, <1>7 DEF j, rd, t, l, L

\* The item at hand is taken from the raw stream, or from the block.
LEMMA RawReads ==
  ASSUME NEW s, MaySend(s), NEW m, NEW alt, NEW lost, NEW in \in Seq(Sym),
         NEW net \in Seq(Sym), NEW out \in Seq(Sym), NEW y, NEW n,
         Carries(s, m, alt, lost, in, net, out, y, n),
         NEW i \in 1..Len(ItemsOf(s)), NEW un, NEW fr, NEW pt \in Seq(ByteSym),
         Reader(s, i, un, fr, pt, y, n), ~Framed(s, i), in # <<>>
  PROVE  LET item == ItemAt(s, i)
             j    == SizeOf(item, pt, in)
             rd   == pt \o SubSeq(in, 1, j)
             rest == SubSeq(in, j + 1, Len(in))
         IN  /\ rd \in Seq(ByteSym) /\ rest \in Seq(Sym)
             /\ Carries(s, m, alt, lost, rest, net, out, y, n + j)
             /\ ~Whole_(item, rd) => Reader(s, i, un, fr, rd, y, n + j)
             /\ Whole_(item, rd) => /\ Value(item, rd) = Meaning(item)
                                    /\ Reader(s, i + 1, un, fr, <<>>, y, n + j)
<1> DEFINE item == ItemAt(s, i)
           e    == CodeAt(s, i)
           j    == SizeOf(item, pt, in)
           rd   == pt \o SubSeq(in, 1, j)
           rest == SubSeq(in, j + 1, Len(in))
           N    == Len(ItemsOf(s))
<1>1. PICK q, o, b : Spot(s, i, q, o, b) /\ ReadsAt(s, i, un, fr, pt, y, n, q, o, b)
  BY DEF Reader
<1>2. i \in 1..N /\ N \in Nat
  BY WholesFacts
<1>3. ~ (i > N) /\ ~ (i = N + 1)
  BY <1>2
<1>4. ClearAt(s, i, un, fr, pt, y, n, q)
  BY <1>1, <1>3 DEF ReadsAt
<1>5. Clear(s, i, q, o)
  <2>1. \/ Clear(s, i, q, o) \/ Packed(s, i, q, o, b)
        \/ i = N + 1 /\ q = Len(WireOf(s)) /\ o = 0
    BY <1>1, SpotMoves
  <2> QED BY <1>3, <2>1 DEF Packed
<1>6. q \in Nat /\ At(e, WireOf(s), q) /\ \E c \in Seq(ByteSym) : Spot(s, i + 1, q + Len(e), 0, c)
  BY <1>5 DEF Clear, CodeAt
<1>7. /\ Codes(e, item) /\ e \in Seq(ByteSym) /\ Value(item, e) = Meaning(item)
  BY ItemIsCoded DEF Codes
<1>8. At(e, y, q)
  <2> HIDE DEF e
  <2> QED BY <1>6, <1>7, ClearBytes
<1>9. At(in, y, n) /\ Len(y) \in Nat /\ n \in Nat
  BY LenProperties DEF Carries
<1>10. /\ un = <<>> /\ fr = <<>> /\ Len(pt) < Len(e) /\ At(pt, y, q) /\ n = q + Len(pt)
  BY <1>4 DEF ClearAt
<1> DEFINE l == Len(pt)
           L == Len(e)
           t == Len(in)
<1>11. l \in Nat /\ L \in Nat /\ t \in Nat
  BY <1>7, LenProperties
<1>n. l = Len(pt) /\ L = Len(e) /\ t = Len(in) /\ N = Len(ItemsOf(s))
  OBVIOUS
<1>12. /\ j \in 1..t /\ l + j <= L
       /\ rd \in Seq(ByteSym) /\ Len(rd) = l + j
       /\ Whole_(item, rd) <=> l + j = L
       /\ l + j = L => rd = e
       /\ l + j # L => j = t
  <2>1. in \in Seq(Sym) /\ At(in, y, q + Len(pt)) /\ in # <<>>
    BY <1>9, <1>10
  <2> HIDE DEF e, item
  <2> QED BY <1>7, <1>8, <1>9, <1>10, <2>1, SizeFacts
<1> HIDE DEF e, item, j, l, L, t, N
<1>13. j \in 0..Len(in)
  BY <1>11, <1>12, <1>n
<1>14. /\ Carries(s, m, alt, lost, rest, net, out, y, n + j)
       /\ At(SubSeq(in, 1, j), y, n) /\ rest \in Seq(Sym) /\ SubSeq(in, 1, j) \in Seq(Sym)
  <2>1. Carries(s, m, alt, lost, rest, net, out, y, n + j) /\ At(SubSeq(in, 1, j), y, n)
    BY <1>13, CarriesMoves
  <2> QED BY <1>13, <2>1, FirstOnes, LastOnes
<1> DEFINE a == SubSeq(in, 1, j)
<1>15. At(rd, y, q)
  <2>1. pt \in Seq(Sym)
    BY BytesAreSym
  <2>2. a \in Seq(Sym) /\ At(a, y, q + Len(pt))
    BY <1>10, <1>14
  <2>3. rd = pt \o a
    OBVIOUS
  <2> HIDE DEF a, rd
  <2> QED BY <1>9, <1>10, <2>1, <2>2, <2>3, AtConcat
<1> HIDE DEF rd, rest, a
<1>16. ASSUME ~Whole_(item, rd) PROVE Reader(s, i, un, fr, rd, y, n + j)
  <2>1. Len(rd) < L
    BY <1>11, <1>12, <1>16
  <2>2. n + j = q + Len(rd)
    <3>1. n = q + l /\ Len(rd) = l + j /\ j \in Nat
      BY <1>10, <1>11, <1>12, <1>n
    <3>2. n + j = q + (l + j)
      BY <1>6, <1>11, <3>1
    <3> QED BY <3>1, <3>2
  <2>3. ClearAt(s, i, un, fr, rd, y, n + j, q)
    BY <1>10, <1>15, <1>n, <2>1, <2>2 DEF ClearAt, e
  <2>4. ReadsAt(s, i, un, fr, rd, y, n + j, q, o, b)
    BY <1>2, <1>n, <2>3 DEF ReadsAt
  <2> QED BY <1>1, <2>4 DEF Reader
<1>17. ASSUME Whole_(item, rd)
       PROVE  Value(item, rd) = Meaning(item) /\ Reader(s, i + 1, un, fr, <<>>, y, n + j)
  <2>1. rd = e /\ l + j = L
    BY <1>12, <1>17
  <2>2. n + j = q + L
    <3>1. n = q + l /\ j \in Nat
      BY <1>10, <1>11, <1>12, <1>n
    <3> QED BY <1>6, <1>11, <2>1, <3>1
  <2>3. PICK c : Spot(s, i + 1, n + j, 0, c)
    BY <1>6, <1>n, <2>2
  <2>4. n + j \in 0..Len(y)
    <3>1. q + L <= Len(y) /\ q + L \in Nat
      BY <1>6, <1>8, <1>11, <1>n DEF At
    <3> QED BY <1>9, <2>2, <3>1
  <2>5. i + 1 \in Nat \ {0}
    BY <1>2
  <2> DEFINE k == n + j
             i1 == i + 1
  <2>6. Reader(s, i1, <<>>, <<>>, <<>>, y, k)
    <3>1. Spot(s, i1, k, 0, c) /\ k \in 0..Len(y) /\ i1 \in Nat \ {0}
      BY <2>3, <2>4, <2>5
    <3> HIDE DEF k, i1
    <3> QED BY <1>9, <3>1, Arrives
  <2> QED BY <1>7, <1>10, <2>1, <2>6
<1> QED BY <1>12, <1>14, <1>16, <1>17 DEF item, j, rd, rest

LEMMA BlockReads ==
  ASSUME NEW s, MaySend(s), NEW y, Len(y) \in Nat, NEW n \in 0..Len(y),
         NEW i \in 1..Len(ItemsOf(s)), NEW un \in Seq(ByteSym), NEW fr, NEW pt \in Seq(ByteSym),
         Reader(s, i, un, fr, pt, y, n), Framed(s, i), un # <<>>
  PROVE  LET item == ItemAt(s, i)
             j    == SizeOf(item, pt, un)
             rd   == pt \o SubSeq(un, 1, j)
             rest == SubSeq(un, j + 1, Len(un))
         IN  /\ rest \in Seq(ByteSym)
             /\ Whole_(item, rd) /\ Value(item, rd) = Meaning(item)
             /\ Reader(s, i + 1, rest, fr, <<>>, y, n)
<1> DEFINE item == ItemAt(s, i)
           e    == CodeAt(s, i)
           j    == SizeOf(item, pt, un)
           rd   == pt \o SubSeq(un, 1, j)
           rest == SubSeq(un, j + 1, Len(un))
           N    == Len(ItemsOf(s))
<1>1. PICK q, o, b : Spot(s, i, q, o, b) /\ ReadsAt(s, i, un, fr, pt, y, n, q, o, b)
  BY DEF Reader
<1>2. i \in 1..N /\ N \in Nat
  BY WholesFacts
<1>3. ~ (i > N) /\ ~ (i = N + 1)
  BY <1>2
<1>4. InsideAt(s, i, un, fr, pt, n, q, o, b)
  BY <1>1, <1>3 DEF ReadsAt, BeforeAt
<1>5. Packed(s, i, q, o, b)
  <2>1. \/ Clear(s, i, q, o) \/ Packed(s, i, q, o, b)
        \/ i = N + 1 /\ q = Len(WireOf(s)) /\ o = 0
    BY <1>1, SpotMoves
  <2> QED BY <1>3, <2>1 DEF Clear
<1>6. /\ q \in Nat /\ o \in Nat /\ b \in Seq(ByteSym) /\ At(e, b, o)
      /\ o + Len(e) < Len(b) =>
           i + 1 <= N /\ Framed(s, i + 1) /\ Spot(s, i + 1, q, o + Len(e), b)
      /\ o + Len(e) = Len(b) => \E c \in Seq(ByteSym) : Spot(s, i + 1, q + Len(Compressed(b)), 0, c)
  BY <1>5 DEF Packed, CodeAt
<1>7. Codes(e, item) /\ e \in Seq(ByteSym) /\ Value(item, e) = Meaning(item)
  BY ItemIsCoded DEF Codes
<1>8. /\ fr = <<>> /\ Len(pt) < Len(e) /\ At(pt, b, o) /\ At(un, b, o + Len(pt))
      /\ o + Len(pt) + Len(un) = Len(b) /\ n = q + Len(Compressed(b))
  BY <1>4 DEF InsideAt
<1> DEFINE l == Len(pt)
           L == Len(e)
           t == Len(un)
           B == Len(b)
<1>9. l \in Nat /\ L \in Nat /\ t \in Nat /\ B \in Nat
  BY <1>6, <1>7, LenProperties
<1>n. l = Len(pt) /\ L = Len(e) /\ t = Len(un) /\ N = Len(ItemsOf(s)) /\ B = Len(b)
  OBVIOUS
<1>10. /\ j \in 1..t /\ l + j <= L
       /\ rd \in Seq(ByteSym) /\ Len(rd) = l + j
       /\ Whole_(item, rd) <=> l + j = L
       /\ l + j = L => rd = e
       /\ l + j # L => j = t
  <2>1. un \in Seq(Sym) /\ un # <<>> /\ Len(b) \in Nat
    BY <1>9, BytesAreSym
  <2>2. Codes(e, item) /\ At(e, b, o)
    BY <1>6, <1>7
  <2>3. At(pt, b, o) /\ At(un, b, o + Len(pt)) /\ Len(pt) < Len(e)
    BY <1>8
  <2> HIDE DEF e, item
  <2> QED BY <2>1, <2>2, <2>3, SizeFacts
<1> HIDE DEF e, item, j, l, L, t, N, B, rd
<1>a. /\ o \in Nat /\ l \in Nat /\ L \in Nat /\ t \in Nat /\ B \in Nat /\ j \in 1..t /\ l + j <= L
      /\ o + l + t = B /\ o + L <= B /\ (l + j # L => j = t)
  <2>1. o + L <= B
    BY <1>6, <1>n DEF At
  <2> QED BY <1>6, <1>8, <1>9, <1>10, <1>n, <2>1
<1>11. l + j = L
  BY <1>a
<1>12. Whole_(item, rd) /\ Value(item, rd) = Meaning(item)
  BY <1>7, <1>10, <1>11
<1>13. j \in 0..Len(un)
  BY <1>a, <1>n
<1>14. rest \in Seq(ByteSym) /\ Len(rest) = t - j /\ At(rest, b, (o + l) + j)
  <2>1. rest \in Seq(ByteSym) /\ Len(rest) = t - j
    BY <1>13, <1>n, LastOnes
  <2>2. At(rest, b, (o + l) + j)
    <3>1. At(un, b, o + l) /\ Len(b) \in Nat
      BY <1>8, <1>9, <1>n
    <3> QED BY <1>13, <3>1, AtSplit
  <2> QED BY <2>1, <2>2
<1> HIDE DEF rest
<1> DEFINE o1 == o + L
           v == <<>>
<1>15. /\ (o + l) + j = o1 /\ o1 + Len(rest) = B /\ o1 \in Nat
       /\ (Len(rest) = 0 <=> o1 = B) /\ (Len(rest) # 0 <=> o1 < B)
  <2> DEFINE r == Len(rest)
  <2>1. r = t - j
    BY <1>14
  <2> HIDE DEF r
  <2>2. (o + l) + j = o1 /\ o1 + r = B /\ o1 \in Nat /\ (r = 0 <=> o1 = B) /\ (r # 0 <=> o1 < B)
    BY <1>11, <1>a, <2>1
  <2> QED BY <2>2 DEF r
<1>16. v \in Seq(ByteSym) /\ Len(v) = 0
  BY EmptySeq
<1>17. ASSUME Len(rest) # 0 PROVE Reader(s, i + 1, rest, fr, <<>>, y, n)
  <2>1. i + 1 <= N /\ Framed(s, i + 1) /\ Spot(s, i + 1, q, o1, b)
    BY <1>6, <1>15, <1>17, <1>n
  <2>2. i + 1 \in 1..N
    BY <1>2, <2>1
  <2>3. Len(CodeAt(s, i + 1)) \in Nat \ {0}
    BY <1>n, <2>2, ItemIsCoded DEF Codes
  <2>4. rest # <<>>
    BY <1>17, EmptySeq
  <2>5. At(v, b, o1) /\ o1 + Len(v) = o1
    <3>1. o1 \in 0..Len(b) /\ Len(b) \in Nat
      BY <1>a, <1>n
    <3>2. At(v, b, o1)
      <4> HIDE DEF o1
      <4> QED BY <3>1, AtNothing
    <3> HIDE DEF v
    <3> QED BY <1>15, <1>16, <3>2
  <2> HIDE DEF v, o1
  <2>6. InsideAt(s, i + 1, rest, fr, v, n, q, o1, b)
    BY <1>8, <1>14, <1>15, <1>16, <1>n, <2>3, <2>4, <2>5 DEF InsideAt
  <2>7. ReadsAt(s, i + 1, rest, fr, v, y, n, q, o1, b)
    BY <1>n, <2>1, <2>6 DEF ReadsAt
  <2>8. Reader(s, i + 1, rest, fr, v, y, n)
    BY <2>1, <2>7 DEF Reader
  <2> QED BY <2>8 DEF v
<1>18. ASSUME Len(rest) = 0 PROVE Reader(s, i + 1, rest, fr, <<>>, y, n)
  <2>1. rest = <<>>
    BY <1>14, <1>18, EmptySequence
  <2>2. PICK c : Spot(s, i + 1, n, 0, c)
    BY <1>6, <1>8, <1>15, <1>18, <1>n
  <2>3. i + 1 \in Nat \ {0}
    BY <1>2
  <2>4. Reader(s, i + 1, <<>>, <<>>, <<>>, y, n)
    BY <2>2, <2>3, Arrives
  <2> QED BY <1>8, <2>1, <2>4
<1>19. Reader(s, i + 1, rest, fr, <<>>, y, n)
  BY <1>17, <1>18
<1> QED BY <1>12, <1>14, <1>19 DEF item, j, rd, rest

\* The frame at hand is read on.
LEMMA FrameReads ==
  ASSUME NEW s, MaySend(s), NEW m, NEW alt \in BOOLEAN, NEW lost, NEW in \in Seq(Sym),
         NEW net \in Seq(Sym), NEW out \in Seq(Sym), NEW y, NEW n,
         Carries(s, m, alt, lost, in, net, out, y, n),
         NEW i \in 1..Len(ItemsOf(s)), NEW fr \in Seq(Sym), NEW pt,
         Reader(s, i, <<>>, fr, pt, y, n), Framed(s, i), in # <<>>
  PROVE  LET j    == IF FrameMissing(fr) < Len(in) THEN FrameMissing(fr) ELSE Len(in)
             f    == fr \o SubSeq(in, 1, j)
             done == Len(f) >= 3 /\ FrameMissing(f) = 0
             rest == SubSeq(in, j + 1, Len(in))
         IN  /\ rest \in Seq(Sym) /\ f \in Seq(Sym)
             /\ Carries(s, m, alt, lost, rest, net, out, y, n + j)
             /\ FrameError(f) = "UnknownCompressionMethod" => alt
             /\ done /\ FrameError(f) # NoFailure =>
                  alt /\ FrameError(f) \in {"ChecksumDoesntMatchError", "UnknownCompressionMethod"}
             /\ done /\ FrameError(f) = NoFailure =>
                  /\ Decompressed(f) \in Seq(ByteSym)
                  /\ Reader(s, i, Decompressed(f), <<>>, pt, y, n + j)
             /\ ~done => Reader(s, i, <<>>, f, pt, y, n + j)
<1> DEFINE j == IF FrameMissing(fr) < Len(in) THEN FrameMissing(fr) ELSE Len(in)
           a == SubSeq(in, 1, j)
           f == fr \o a
           done == Len(f) >= 3 /\ FrameMissing(f) = 0
           rest == SubSeq(in, j + 1, Len(in))
           N == Len(ItemsOf(s))
           v == <<>>
<1>1. PICK q, o, b : Spot(s, i, q, o, b) /\ ReadsAt(s, i, <<>>, fr, pt, y, n, q, o, b)
  BY DEF Reader
<1>2. i \in 1..N /\ N \in Nat
  BY WholesFacts
<1>3. ~ (i > N) /\ ~ (i = N + 1) /\ i <= N
  BY <1>2
<1>4. BeforeAt(<<>>, fr, pt, y, n, q, o)
  BY <1>1, <1>3 DEF ReadsAt, InsideAt
<1>5. Packed(s, i, q, o, b)
  <2>1. \/ Clear(s, i, q, o) \/ Packed(s, i, q, o, b)
        \/ i = N + 1 /\ q = Len(WireOf(s)) /\ o = 0
    BY <1>1, SpotMoves
  <2> QED BY <1>3, <2>1 DEF Clear
<1> DEFINE c == Compressed(b)
<1>6. /\ q \in Nat /\ b \in Seq(ByteSym) /\ b # <<>> /\ At(c, WireOf(s), q)
  BY <1>5 DEF Packed
<1>7. Len(c) \in Nat
  <2>1. c \in Seq(SentSym)
    BY <1>6, CompressedFacts DEF FrameOf
  <2> HIDE DEF c
  <2> QED BY <2>1, LenProperties
<1>8. /\ pt = <<>> /\ o = 0 /\ (Len(fr) >= 3 => FrameMissing(fr) > 0)
      /\ At(fr, y, q) /\ n = q + Len(fr)
  BY <1>4 DEF BeforeAt
<1>9. At(in, y, n) /\ Len(y) \in Nat /\ n \in Nat
  BY LenProperties DEF Carries
<1>c. c = Compressed(b)
  OBVIOUS
<1> HIDE DEF c
<1> DEFINE l == Len(fr)
           t == Len(in)
           M == FrameMissing(fr)
           L == Len(f)
<1>10. l \in Nat /\ t \in Nat \ {0}
  BY LenProperties, EmptySequence
<1>11. /\ l >= 3 => fr[3].size \in Nat /\ M = 3 + fr[3].size - l /\ M > 0
       /\ l < 3 => M = 3 - l
  <2>1. Mangled(fr, c, alt)
    BY <1>6, <1>7, <1>8, <1>10, FrameOnItsWay
  <2>2. l >= 3 => fr[3].size \in Nat \ {0} /\ M = 3 + fr[3].size - l
    <3>1. fr \in Seq(Sym) /\ Mangled(fr, Compressed(b), alt) /\ b # <<>> /\ b \in Seq(ByteSym)
      BY <1>6, <1>c, <2>1
    <3> QED BY <3>1, FrameChecked
  <2>3. l < 3 => M = 3 - l
    BY DEF FrameMissing, FrameHeader
  <2> QED BY <1>8, <2>2, <2>3
<1>n. l = Len(fr) /\ t = Len(in) /\ M = FrameMissing(fr) /\ j = (IF M < t THEN M ELSE t) /\ L = Len(f)
  OBVIOUS
<1> DEFINE S == fr[3].size
<1>s. S = fr[3].size
  OBVIOUS
<1> HIDE DEF l, t, M, j, S
<1>12. M \in Nat \ {0} /\ j \in 1..t /\ j <= M
  <2>1. M \in Nat \ {0}
    <3>1. CASE l >= 3
      <4>1. S \in Nat /\ M = 3 + S - l /\ M > 0
        BY <1>11, <1>s, <3>1
      <4> QED BY <1>10, <4>1
    <3>2. CASE ~ (l >= 3)
      BY <1>10, <1>11, <3>2
    <3> QED BY <3>1, <3>2
  <2>2. j = IF M < t THEN M ELSE t
    BY <1>n
  <2> QED BY <1>10, <2>1, <2>2
<1>13. j \in 0..Len(in)
  BY <1>10, <1>12, <1>n
<1>14. /\ Carries(s, m, alt, lost, rest, net, out, y, n + j)
       /\ At(a, y, n) /\ rest \in Seq(Sym) /\ a \in Seq(Sym) /\ Len(a) = j
  <2>1. Carries(s, m, alt, lost, rest, net, out, y, n + j) /\ At(a, y, n)
    BY <1>13, CarriesMoves
  <2> QED BY <1>13, <2>1, FirstOnes, LastOnes
<1>f. f = fr \o a
  OBVIOUS
<1> HIDE DEF a, f, rest
<1>15. f \in Seq(Sym) /\ Len(f) = l + j /\ \A k \in 1..l : f[k] = fr[k]
  BY <1>14, <1>f, <1>n, Concat, ZenonT(60)
<1>16. At(f, y, q)
  BY <1>8, <1>9, <1>14, <1>f, AtConcat
<1>17. Mangled(f, c, alt)
  <2>1. Len(f) \in Nat
    BY <1>15, LenProperties
  <2> QED BY <1>6, <1>7, <1>16, <2>1, FrameOnItsWay
<1>18. /\ Len(f) >= 3 => f[3].size \in Nat \ {0} /\ FrameMissing(f) = 3 + f[3].size - Len(f)
       /\ FrameError(f) = NoFailure => f = c /\ FrameMissing(f) = 0
       /\ Len(f) >= 3 /\ FrameMissing(f) = 0 /\ FrameError(f) # NoFailure =>
            alt /\ FrameError(f) \in {"ChecksumDoesntMatchError", "UnknownCompressionMethod"}
       /\ FrameError(f) = "UnknownCompressionMethod" => alt
  <2>1. f \in Seq(Sym) /\ Mangled(f, Compressed(b), alt) /\ b # <<>> /\ b \in Seq(ByteSym)
    BY <1>6, <1>15, <1>17, <1>c
  <2> QED BY <1>c, <2>1, FrameChecked
<1>19. n + j = q + Len(f)
  <2>1. n = q + l /\ Len(f) = l + j
    BY <1>8, <1>15, <1>n
  <2>2. n + j = q + (l + j)
    BY <1>6, <1>10, <1>12, <2>1
  <2> QED BY <2>1, <2>2
<1>20. ASSUME done, FrameError(f) = NoFailure
       PROVE  /\ Decompressed(f) \in Seq(ByteSym)
              /\ Reader(s, i, Decompressed(f), <<>>, pt, y, n + j)
  <2>1. f = c
    BY <1>18, <1>20
  <2>2. Decompressed(f) = b
    BY <1>6, <1>c, <2>1, DecompressedFacts
  <2> DEFINE B == Len(b)
  <2>3. B \in Nat /\ B = Len(b)
    BY <1>6, LenProperties
  <2>4. Len(v) = 0 /\ At(v, b, 0)
    BY <1>6, <2>3, AtNothing
  <2>5. Len(CodeAt(s, i)) \in Nat \ {0}
    BY ItemIsCoded DEF Codes
  <2>6. 0 + Len(v) = 0 /\ 0 + Len(v) + B = B
    BY <2>3, <2>4
  <2>7. At(b, b, 0)
    BY <2>3 DEF At
  <2>v. v = <<>>
    OBVIOUS
  <2> HIDE DEF v, B
  <2>8. InsideAt(s, i, b, v, v, n + j, q, 0, b)
    BY <1>6, <1>19, <1>c, <2>1, <2>3, <2>4, <2>5, <2>6, <2>7, <2>v DEF InsideAt
  <2>9. Reader(s, i, b, v, v, y, n + j)
    BY <1>1, <1>3, <1>8, <2>8 DEF Reader, ReadsAt, N
  <2> QED BY <1>6, <1>8, <2>2, <2>9, <2>v
<1>21. ASSUME ~done PROVE Reader(s, i, <<>>, f, pt, y, n + j)
  <2>1. Len(f) >= 3 => FrameMissing(f) > 0
    <3> SUFFICES ASSUME Len(f) >= 3 PROVE FrameMissing(f) > 0
      OBVIOUS
    <3> DEFINE F == f[3].size
               G == FrameMissing(f)
    <3>1. F \in Nat \ {0} /\ G = 3 + F - (l + j) /\ G # 0 /\ l + j >= 3
      BY <1>15, <1>18, <1>21
    <3>2. CASE l >= 3
      <4>1. 3 \in 1..l
        BY <1>10, <3>2
      <4>2. F = S /\ M = 3 + S - l
        BY <1>11, <1>15, <1>s, <3>2, <4>1
      <4> HIDE DEF F, G
      <4>3. G > 0
        BY <1>10, <1>12, <3>1, <4>2
      <4> QED BY <4>3 DEF G
    <3>3. CASE ~ (l >= 3)
      <4>1. M = 3 - l
        BY <1>10, <1>11, <3>3
      <4> HIDE DEF F, G
      <4>2. G > 0
        BY <1>10, <1>12, <3>1, <3>3, <4>1
      <4> QED BY <4>2 DEF G
    <3> QED BY <3>2, <3>3
  <2>2. BeforeAt(<<>>, f, pt, y, n + j, q, o)
    BY <1>8, <1>16, <1>19, <2>1 DEF BeforeAt
  <2> QED BY <1>1, <1>3, <2>2 DEF Reader, ReadsAt, N
<1> QED BY <1>14, <1>15, <1>18, <1>20, <1>21 DEF f, a, j, rest, M, t

-----------------------------------------------------------------------------
(* The invariant                                                               *)

Typed ==
  /\ script \in [packets : Scripts, packed : BOOLEAN]
  /\ cut \in BOOLEAN /\ altered \in BOOLEAN /\ over \in BOOLEAN
  /\ body \in Seq(ByteSym) /\ compressor \in Seq(ByteSym)
  /\ unpacked \in Seq(ByteSym) /\ part \in Seq(ByteSym)
  /\ raw \in Seq(Sym) /\ network \in Seq(Sym) /\ inbox \in Seq(Sym) /\ frame \in Seq(Sym)
  /\ IsSequence(got) /\ Len(got) <= Len(Expected)

\* So many calls have been made, and this is what has come of them.
Made == Len(AllCalls(script)) - Len(calls)
WriterInv ==
  /\ Made \in Nat /\ calls = SubSeq(AllCalls(script), Made + 1, Len(AllCalls(script)))
  /\ Made <= Len(AllCalls(script))
  /\ script.packed => Emission(script)[Made][2] = compressor \o body
  /\ calls = <<>> => raw = <<>>

\* The reader is somewhere on the wire, and from there on nothing is missing.
Reads ==
  \E y, n :
    /\ Carries(script, Len(Emission(script)[Made][1]), altered, cut, inbox, network, raw, y, n)
    /\ Reader(script, Len(got) + 1, unpacked, frame, part, y, n)

\* All values are right, or all before the one at which the stream breaks off, and
\* after it there are only empty strings.
Right  == \A i \in 1..Len(got) : got[i] = Sent[i]
Broken ==
  \E k \in 1..Len(got) :
    /\ \A i \in 1..k - 1 : got[i] = Sent[i]
    /\ Less(Expected[k], got[k])
    /\ \A i \in k..Len(got) : ~Framed(script, i)
    /\ \A i \in k + 1..Len(got) : Expected[i].k = "fixed" /\ got[i] = <<>>
Drained == inbox = <<>> /\ unpacked = <<>> /\ part = <<>> /\ frame = <<>>

IInv ==
  /\ Typed /\ WriterInv
  /\ over => cut /\ network = <<>>
  /\ FailsForTheNetwork
  /\ Right \/ (over /\ Broken)
  /\ failure = NoFailure => (Right /\ Reads) \/ (over /\ Broken /\ Drained)

LEMMA ScriptMaySend ==
  ASSUME Typed
  PROVE  MaySend(script)
<1>1. script.packets \in Scripts /\ script.packed \in BOOLEAN
  BY DEF Typed
<1> QED BY <1>1, BuffersAssumption DEF MaySend

\* The names of the model for what the lemmas are about.
LEMMA Links ==
  ASSUME Typed
  PROVE  /\ Expected = ItemsOf(script) /\ Len(Expected) \in Nat /\ Len(got) \in Nat
         /\ (InFrame <=> Framed(script, Len(got) + 1)) /\ Item = ItemAt(script, Len(got) + 1)
         /\ DOMAIN Sent = 1..Len(Expected) /\ DOMAIN Expected = 1..Len(Expected)
         /\ \A i \in 1..Len(Expected) : Sent[i] = Meaning(ItemAt(script, i))
         /\ \A i : Framed(script, i) <=> script.packed /\ ~HeadItems[i]
<1>1. MaySend(script)
  BY ScriptMaySend
<1>2. Expected = ItemsOf(script)
  BY DEF Expected, Items, ItemsOf, Wholes
<1>3. HeadItems = FlattenSeq(InHead(script))
  BY DEF HeadItems, InHead
<1>4. ItemsOf(script) \in Seq(ItemSet(script)) /\ Len(ItemsOf(script)) \in Nat
  BY <1>1, WholesFacts
<1>5. DOMAIN ItemsOf(script) = 1..Len(ItemsOf(script))
  BY <1>4, LenProperties
<1>6. Len(got) \in Nat
  BY DEF Typed, IsSequence
<1>7. InFrame <=> Framed(script, Len(got) + 1)
  BY <1>3 DEF InFrame, Framed
<1>8. Item = ItemAt(script, Len(got) + 1)
  BY <1>2 DEF Item, ItemAt
<1>9. DOMAIN Sent = DOMAIN Expected
  BY DEF Sent
<1>10. ASSUME NEW i \in 1..Len(Expected) PROVE Sent[i] = Meaning(ItemAt(script, i))
  <2>1. i \in DOMAIN Expected
    BY <1>2, <1>5
  <2>2. Sent[i] = Meaning(Expected[i])
    BY <2>1 DEF Sent, Meaning
  <2> QED BY <1>2, <2>2 DEF ItemAt
<1> QED BY <1>2, <1>3, <1>4, <1>5, <1>6, <1>7, <1>8, <1>9, <1>10 DEF Framed

LEMMA AppendAny ==
  ASSUME NEW s, IsSequence(s), NEW v
  PROVE  /\ IsSequence(Append(s, v)) /\ Len(Append(s, v)) = Len(s) + 1 /\ Len(s) \in Nat
         /\ \A i \in 1..Len(s) : Append(s, v)[i] = s[i]
         /\ Append(s, v)[Len(s) + 1] = v
<1> DEFINE n == Len(s)
           S == {s[i] : i \in 1..n} \cup {v}
           a == Append(s, v)
<1>1. \A i \in 1..n : s[i] \in S
  OBVIOUS
<1>2. v \in S
  OBVIOUS
<1> HIDE DEF S
<1>3. s \in Seq(S) /\ n \in Nat
  BY <1>1, IsSequenceFacts
<1>4. a \in Seq(S) /\ Len(a) = n + 1 /\ (\A i \in 1..n : a[i] = s[i]) /\ a[n + 1] = v
  <2> HIDE DEF n
  <2>1. n = Len(s)
    BY DEF n
  <2>2. /\ a \in Seq(S) /\ Len(a) = n + 1
        /\ \A i \in 1..n : a[i] = s[i]
        /\ a[n + 1] = v
    BY <1>2, <1>3, <2>1, AppendProperties
  <2> QED BY <2>2
<1> HIDE DEF a
<1>5. IsSequence(a)
  BY <1>4, LenProperties DEF IsSequence
<1> QED BY <1>3, <1>4, <1>5 DEF a

-----------------------------------------------------------------------------
(* The steps of the writer and of the network                                  *)

LEMMA CallFacts ==
  ASSUME Typed, WriterInv, Call, UNCHANGED script
  PROVE  /\ ~cut /\ Head(calls) \in CallSet
         /\ Made \in Nat /\ Made' = Made + 1 /\ Made' <= Len(AllCalls(script))
         /\ calls' = SubSeq(AllCalls(script), Made' + 1, Len(AllCalls(script)))
         /\ calls' = <<>> => Head(calls).to = "finalize"
         /\ Emission(script)[Made] \in EmitSet /\ Emission(script)[Made + 1] \in EmitSet
         /\ At(Emission(script)[Made + 1][1], WireOf(script), 0)
         /\ Emission(script)[Made + 1] = After(Emission(script)[Made], Head(calls), script.packed)
<1> DEFINE all == AllCalls(script)
           n == Len(all)
           c == Made
           e == Emission(script)
<1>1. MaySend(script)
  BY ScriptMaySend
<1>2. all \in Seq(CallSet) /\ n \in Nat
  BY <1>1, CallListsFacts
<1>3. c \in Nat /\ c <= n /\ calls = SubSeq(all, c + 1, n) /\ calls # <<>> /\ calls' = Tail(calls) /\ ~cut
  BY DEF WriterInv, Call
<1>m. Made' = n - Len(calls') /\ Made = n - Len(calls)
  BY DEF Made
<1>f. e \in [Nat -> EmitSet] /\ Emits(e, all, script.packed)
  BY <1>1, EmissionFacts
<1>l. n # 0 => all[n].to = "finalize"
  BY <1>1, LastCall
<1>e. \A k \in 0..n : e[k] \in EmitSet /\ At(e[k][1], WireOf(script), 0)
  BY <1>1, EmitPrefix
<1>n. n = Len(all)
  OBVIOUS
<1> HIDE DEF all, n, c, e
<1>4. c \in 0..Len(all)
  BY <1>2, <1>3, <1>n
<1>5. calls \in Seq(CallSet) /\ Len(calls) = n - c /\ \A i \in 1..n - c : calls[i] = all[c + i]
  BY <1>2, <1>3, <1>4, <1>n, LastOnes
<1>6. Len(calls) # 0
  BY <1>3, <1>5, EmptySequence
<1>7. c + 1 <= n /\ 1 \in 1..n - c /\ c + 1 \in 1..n
  BY <1>2, <1>3, <1>5, <1>6
<1>8. Head(calls) = all[c + 1]
  <2>1. Head(calls) = calls[1]
    BY <1>3, <1>5, HeadTailProperties
  <2> QED BY <1>5, <1>7, <2>1
<1>9. /\ calls' \in Seq(CallSet) /\ Len(calls') = Len(calls) - 1
      /\ \A i \in 1..Len(calls') : calls'[i] = calls[i + 1]
  BY <1>3, <1>5, HeadTailProperties
<1>10. Made' = c + 1
  BY <1>2, <1>3, <1>5, <1>9, <1>m
<1>11. calls' = SubSeq(all, (c + 1) + 1, n)
  <2> DEFINE t == SubSeq(all, (c + 1) + 1, n)
  <2>1. c + 1 \in 0..Len(all)
    BY <1>2, <1>3, <1>7, <1>n
  <2>2. t \in Seq(CallSet) /\ Len(t) = n - (c + 1) /\ \A i \in 1..n - (c + 1) : t[i] = all[(c + 1) + i]
    BY <1>2, <1>n, <2>1, LastOnes
  <2> HIDE DEF t
  <2>3. Len(calls') = Len(t)
    BY <1>2, <1>3, <1>5, <1>9, <2>2
  <2>4. ASSUME NEW i \in 1..Len(t) PROVE calls'[i] = t[i]
    <3>1. i + 1 \in 1..n - c /\ i \in 1..n - (c + 1) /\ c + (i + 1) = (c + 1) + i
      BY <1>2, <1>3, <1>7, <2>2
    <3>2. calls'[i] = calls[i + 1]
      BY <1>9, <2>3
    <3> QED BY <1>5, <2>2, <3>1, <3>2
  <2>5. calls' = t
    BY <1>9, <2>2, <2>3, <2>4, SeqEqual
  <2> QED BY <2>5 DEF t
<1>12. ASSUME calls' = <<>> PROVE Head(calls).to = "finalize"
  <2>1. Len(calls') = 0
    BY <1>9, <1>12, EmptySequence
  <2>2. c + 1 = n /\ n # 0
    BY <1>2, <1>3, <1>5, <1>7, <1>9, <2>1
  <2> QED BY <1>8, <1>l, <2>2
<1>13. Head(calls) \in CallSet
  BY <1>2, <1>7, <1>8, <1>n, ElementOfSeq
<1>14. e[c + 1] = After(e[c], Head(calls), script.packed)
  <2>1. c + 1 \in 1..Len(all) /\ (c + 1) - 1 = c
    BY <1>3, <1>7, <1>n
  <2> QED BY <1>8, <1>f, <2>1 DEF Emits
<1>15. e[c] \in EmitSet /\ e[c + 1] \in EmitSet /\ At(e[c + 1][1], WireOf(script), 0)
  <2>1. c \in 0..n /\ c + 1 \in 0..n
    BY <1>2, <1>3, <1>7
  <2> QED BY <1>e, <2>1
<1>16. c = Made /\ e = Emission(script) /\ n = Len(AllCalls(script)) /\ all = AllCalls(script)
  BY DEF c, e, n, all
<1>17. Made' = Made + 1 /\ calls' = SubSeq(all, Made' + 1, n) /\ Made' <= n
  BY <1>7, <1>10, <1>11, <1>16
<1> QED BY <1>3, <1>12, <1>13, <1>14, <1>15, <1>16, <1>17

\* What a call adds, by its kind.
LEMMA AfterCases ==
  ASSUME NEW x, NEW call, NEW packed \in BOOLEAN
  PROVE  /\ call.to # "finalize" /\ ~(call.to = "body" /\ packed) =>
              After(x, call, packed)[1] = x[1] \o call.data /\ After(x, call, packed)[2] = x[2]
         /\ call.to = "body" /\ packed =>
              After(x, call, packed)[1] = x[1] /\ After(x, call, packed)[2] = x[2] \o call.data
         /\ call.to = "finalize" =>
              /\ After(x, call, packed)[1] = x[1] \o (IF packed THEN Compressed(x[2]) ELSE <<>>)
              /\ After(x, call, packed)[2] = <<>>
<1> DEFINE a == x[1]
           b == x[2]
           to == call.to
           u == a \o call.data
           v == b \o call.data
           w == a \o (IF packed THEN Compressed(b) ELSE <<>>)
           e == <<>>
<1>1. After(x, call, packed) =
        CASE to = "finalize" -> <<w, e>> [] to = "body" /\ packed -> <<a, v>> [] OTHER -> <<u, b>>
  BY DEF After
<1> HIDE DEF a, b, to, u, v, w, e
<1> DEFINE y == After(x, call, packed)
<1>2. ASSUME to # "finalize", ~(to = "body" /\ packed) PROVE y = <<u, b>>
  <2> HIDE DEF y
  <2> QED BY <1>1, <1>2 DEF y
<1>3. ASSUME to = "body", packed PROVE y = <<a, v>>
  <2>1. to # "finalize"
    BY <1>3
  <2> QED BY <1>1, <1>3, <2>1
<1>4. ASSUME to = "finalize" PROVE y = <<w, e>>
  <2>1. to # "body"
    BY <1>4
  <2> QED BY <1>1, <1>4, <2>1
<1> HIDE DEF y
<1>5. to # "finalize" /\ ~(to = "body" /\ packed) => y[1] = u /\ y[2] = b
  BY <1>2
<1>6. to = "body" /\ packed => y[1] = a /\ y[2] = v
  BY <1>3
<1>7. to = "finalize" => y[1] = w /\ y[2] = e
  BY <1>4
<1> QED BY <1>5, <1>6, <1>7 DEF a, b, to, u, v, w, e, y

\* A call for the raw stream adds to what has been sent.
LEMMA SentMore ==
  ASSUME NEW s, MaySend(s), NEW x \in EmitSet, NEW u \in EmitSet, NEW d \in Seq(SentSym),
         u[1] = x[1] \o d, At(u[1], WireOf(s), 0)
  PROVE  Len(u[1]) = Len(x[1]) + Len(d) /\ At(d, WireOf(s), Len(x[1]))
<1> DEFINE a == x[1]
           w == WireOf(s)
<1>1. a \in Seq(SentSym)
  BY DEF EmitSet
<1>2. Len(w) \in Nat
  BY WiresFacts
<1>3. u[1] = a \o d /\ At(u[1], w, 0)
  OBVIOUS
<1> HIDE DEF a, w
<1>4. Len(a \o d) = Len(a) + Len(d) /\ Len(a) \in Nat
  BY <1>1, Concat
<1>5. At(d, w, 0 + Len(a))
  BY <1>1, <1>2, <1>3, AtConcat
<1>6. 0 + Len(a) = Len(a)
  BY <1>4
<1> QED BY <1>3, <1>4, <1>5, <1>6 DEF a, w

\* What a step of the writer leaves alone.
LEMMA WriterOnly ==
  ASSUME IInv, ~cut, Reading' = Reading, UNCHANGED <<script, cut, altered>>,
         raw' \in Seq(Sym), network' \in Seq(Sym), body' \in Seq(ByteSym),
         compressor' \in Seq(ByteSym), WriterInv', Reads => Reads'
  PROVE  IInv'
<1>1. /\ inbox' = inbox /\ unpacked' = unpacked /\ frame' = frame /\ part' = part
      /\ got' = got /\ over' = over /\ failure' = failure
      /\ script' = script /\ cut' = cut /\ altered' = altered
  BY DEF Reading
<1>2. Expected' = Expected /\ Sent' = Sent
  BY <1>1 DEF Expected, Sent
<1>3. ~over /\ ~over'
  BY <1>1 DEF IInv
<1>4. Typed'
  BY <1>1, <1>2 DEF IInv, Typed
<1>5. FailsForTheNetwork'
  BY <1>1 DEF IInv, FailsForTheNetwork
<1>6. Right'
  BY <1>1, <1>2, <1>3 DEF IInv, Right
<1>7. failure' = NoFailure => Reads'
  BY <1>1, <1>3 DEF IInv
<1> QED BY <1>3, <1>4, <1>5, <1>6, <1>7 DEF IInv

LEMMA WriteRawKeeps ==
  ASSUME IInv, WriteRaw
  PROVE  IInv'
<1> DEFINE d == Head(calls).data
           x == Emission(script)[Made]
           u == Emission(script)[Made + 1]
           m == Len(x[1])
           w == Len(u[1])
           full == raw \o d
<1>1. /\ Call /\ UNCHANGED <<script, body, compressor, cut, altered>> /\ Reading' = Reading
      /\ Head(calls).to = "raw" \/ (Head(calls).to = "body" /\ ~script.packed)
      /\ \/ network' = network \o full /\ raw' = <<>>
         \/ raw' = full /\ network' = network
  BY DEF WriteRaw
<1>2. Typed /\ WriterInv
  BY DEF IInv
<1>3. MaySend(script)
  BY <1>2, ScriptMaySend
<1>4. /\ ~cut /\ Head(calls) \in CallSet /\ Made' = Made + 1 /\ Made \in Nat
      /\ Made' <= Len(AllCalls(script))
      /\ calls' = SubSeq(AllCalls(script), Made' + 1, Len(AllCalls(script)))
      /\ calls' = <<>> => Head(calls).to = "finalize"
      /\ x \in EmitSet /\ u \in EmitSet /\ At(u[1], WireOf(script), 0)
      /\ u = After(x, Head(calls), script.packed)
  BY <1>1, <1>2, CallFacts
<1>5. d \in Seq(ByteSym) /\ raw \in Seq(Sym) /\ network \in Seq(Sym) /\ inbox \in Seq(Sym)
  BY <1>2, <1>4 DEF CallSet, Typed
<1>6. d \in Seq(SentSym) /\ d \in Seq(Sym)
  <2> HIDE DEF d
  <2> QED BY <1>5, BytesAreSent, BytesAreSym
<1>7. calls' # <<>>
  BY <1>1, <1>4
<1>8. Head(calls).to # "finalize" /\ ~(Head(calls).to = "body" /\ script.packed)
  BY <1>1
<1>p. script.packed \in BOOLEAN
  BY <1>2 DEF Typed
<1>9. u[1] = x[1] \o d /\ u[2] = x[2]
  <2> DEFINE c == Head(calls)
             q == script.packed
             v == After(x, c, q)
  <2>1. c.to # "finalize" /\ ~(c.to = "body" /\ q) /\ q \in BOOLEAN /\ u = v
    BY <1>4, <1>8, <1>p
  <2> HIDE DEF c, q, x, u
  <2>2. v[1] = x[1] \o c.data /\ v[2] = x[2]
    BY <2>1, AfterCases
  <2> HIDE DEF v
  <2> QED BY <2>1, <2>2 DEF c
<1>10. full \in Seq(Sym) /\ network \o full \in Seq(Sym)
  <2> HIDE DEF d, full
  <2>1. full \in Seq(Sym)
    BY <1>5, <1>6, Concat DEF full
  <2> QED BY <1>5, <2>1, Concat
<1>11. w = m + Len(d) /\ At(d, WireOf(script), m)
  <2> HIDE DEF d, u, x
  <2> QED BY <1>3, <1>4, <1>6, <1>9, SentMore
<1>12. raw' \in Seq(Sym) /\ network' \in Seq(Sym)
  <2>1. <<>> \in Seq(Sym)
    OBVIOUS
  <2> QED BY <1>1, <1>5, <1>10, <2>1
<1>13. WriterInv'
  <2>1. script' = script /\ body' = body /\ compressor' = compressor
    BY <1>1
  <2>2. AllCalls(script)' = AllCalls(script) /\ (Emission(script)[Made])' = u
    BY <1>4, <2>1
  <2>3. script.packed => u[2] = compressor \o body
    BY <1>2, <1>9 DEF WriterInv
  <2>4. Made' \in Nat
    BY <1>4
  <2> QED BY <1>4, <1>7, <2>1, <2>2, <2>3, <2>4 DEF WriterInv
<1>14. ASSUME Reads PROVE Reads'
  <2>1. PICK y, n : /\ Carries(script, m, altered, cut, inbox, network, raw, y, n)
                    /\ Reader(script, Len(got) + 1, unpacked, frame, part, y, n)
    BY <1>14 DEF Reads
  <2>2. /\ Carries(script, m + Len(d), altered, cut, inbox, network, full, y, n)
        /\ Carries(script, m + Len(d), altered, cut, inbox, network \o full, <<>>, y, n)
    <3> HIDE DEF d, m
    <3> QED BY <1>3, <1>4, <1>5, <1>6, <1>11, <2>1, CarriesWrite
  <2>3. Carries(script, w, altered, cut, inbox, network', raw', y, n)
    BY <1>1, <1>11, <2>2
  <2>4. /\ script' = script /\ altered' = altered /\ cut' = cut /\ inbox' = inbox /\ got' = got
        /\ unpacked' = unpacked /\ frame' = frame /\ part' = part
    BY <1>1 DEF Reading
  <2>5. Len(Emission(script)[Made][1])' = w
    BY <1>4, <2>4
  <2> HIDE DEF w
  <2> QED BY <2>1, <2>3, <2>4, <2>5 DEF Reads
<1>15. body' \in Seq(ByteSym) /\ compressor' \in Seq(ByteSym)
  BY <1>1, <1>2 DEF Typed
<1> QED BY <1>1, <1>4, <1>12, <1>13, <1>14, <1>15, WriterOnly

LEMMA WriteBodyKeeps ==
  ASSUME IInv, WriteBody
  PROVE  IInv'
<1> DEFINE d == Head(calls).data
           x == Emission(script)[Made]
           u == Emission(script)[Made + 1]
           full == body \o d
<1>1. /\ Call /\ UNCHANGED <<script, raw, network, cut, altered>> /\ Reading' = Reading
      /\ Head(calls).to = "body" /\ script.packed
      /\ \/ compressor' = compressor \o full /\ body' = <<>>
         \/ body' = full /\ compressor' = compressor
  BY DEF WriteBody
<1>2. Typed /\ WriterInv
  BY DEF IInv
<1>3. script.packed \in BOOLEAN
  BY <1>2 DEF Typed
<1>4. /\ ~cut /\ Head(calls) \in CallSet /\ Made' = Made + 1 /\ Made \in Nat
      /\ Made' <= Len(AllCalls(script))
      /\ calls' = SubSeq(AllCalls(script), Made' + 1, Len(AllCalls(script)))
      /\ calls' = <<>> => Head(calls).to = "finalize"
      /\ u = After(x, Head(calls), script.packed)
  BY <1>1, <1>2, CallFacts
<1>5. d \in Seq(ByteSym) /\ body \in Seq(ByteSym) /\ compressor \in Seq(ByteSym)
  BY <1>2, <1>4 DEF CallSet, Typed
<1>6. u[1] = x[1] /\ u[2] = x[2] \o d
  <2> DEFINE c == Head(calls)
             q == script.packed
  <2>1. c.to = "body" /\ q /\ q \in BOOLEAN /\ u = After(x, c, q)
    BY <1>1, <1>3, <1>4
  <2>3. q = TRUE
    BY <2>1
  <2> DEFINE b == After(x, c, TRUE)
  <2>4. u = b
    BY <2>1, <2>3
  <2> HIDE DEF c, q, x, u
  <2>2. b[1] = x[1] /\ b[2] = x[2] \o c.data
    BY <2>1, AfterCases, ZenonT(60)
  <2> HIDE DEF b
  <2> QED BY <2>2, <2>4 DEF c
<1>7. calls' # <<>>
  BY <1>1, <1>4
<1>8. full \in Seq(ByteSym) /\ compressor \o full \in Seq(ByteSym)
  <2> HIDE DEF d, full
  <2>1. full \in Seq(ByteSym)
    BY <1>5, Concat DEF full
  <2> QED BY <1>5, <2>1, Concat
<1>9. body' \in Seq(ByteSym) /\ compressor' \in Seq(ByteSym)
  <2>1. <<>> \in Seq(ByteSym)
    OBVIOUS
  <2> QED BY <1>1, <1>5, <1>8, <2>1
<1>10. compressor' \o body' = compressor \o full
  <2> HIDE DEF full
  <2>1. CASE compressor' = compressor \o full /\ body' = <<>>
    <3> DEFINE t == compressor \o full
    <3>1. t \in Seq(ByteSym)
      BY <1>8
    <3> HIDE DEF t
    <3>2. t \o <<>> = t
      BY <3>1, ConcatEmptySeq
    <3> QED BY <2>1, <3>2 DEF t
  <2>2. CASE body' = full /\ compressor' = compressor
    BY <2>2
  <2> QED BY <1>1, <2>1, <2>2
<1>11. u[2] = compressor' \o body'
  <2>1. x[2] = compressor \o body
    BY <1>1, <1>2 DEF WriterInv
  <2>2. compressor \o full = (compressor \o body) \o d
    <3> HIDE DEF d
    <3> QED BY <1>5, Associates
  <2> HIDE DEF d, x, u, full
  <2> QED BY <1>6, <1>10, <2>1, <2>2
<1>12. WriterInv'
  <2>1. script' = script /\ raw' = raw
    BY <1>1
  <2>2. AllCalls(script)' = AllCalls(script) /\ (Emission(script)[Made])' = u
    BY <1>4, <2>1
  <2>3. Made' \in Nat
    BY <1>4
  <2> QED BY <1>4, <1>7, <1>11, <2>1, <2>2, <2>3 DEF WriterInv
<1>13. ASSUME Reads PROVE Reads'
  <2>1. PICK y, n : /\ Carries(script, Len(x[1]), altered, cut, inbox, network, raw, y, n)
                    /\ Reader(script, Len(got) + 1, unpacked, frame, part, y, n)
    BY <1>13 DEF Reads
  <2>4. /\ script' = script /\ altered' = altered /\ cut' = cut /\ inbox' = inbox /\ got' = got
        /\ unpacked' = unpacked /\ frame' = frame /\ part' = part /\ network' = network /\ raw' = raw
    BY <1>1 DEF Reading
  <2>5. Len(Emission(script)[Made][1])' = Len(x[1])
    BY <1>4, <1>6, <2>4
  <2> HIDE DEF x
  <2> QED BY <2>1, <2>4, <2>5 DEF Reads
<1>14. raw' \in Seq(Sym) /\ network' \in Seq(Sym)
  BY <1>1, <1>2 DEF Typed
<1> QED BY <1>1, <1>4, <1>9, <1>12, <1>13, <1>14, WriterOnly

LEMMA FinalizeKeeps ==
  ASSUME IInv, Finalize
  PROVE  IInv'
<1> DEFINE x == Emission(script)[Made]
           u == Emission(script)[Made + 1]
           d == IF script.packed THEN Compressed(x[2]) ELSE <<>>
           m == Len(x[1])
           w == Len(u[1])
           full == raw \o d
<1>1. /\ Call /\ UNCHANGED <<script, cut, altered>> /\ Reading' = Reading
      /\ Head(calls).to = "finalize"
      /\ network' = network \o raw \o (IF script.packed THEN Compressed(compressor \o body) ELSE <<>>)
      /\ raw' = <<>> /\ body' = <<>> /\ compressor' = <<>>
  BY DEF Finalize
<1>2. Typed /\ WriterInv
  BY DEF IInv
<1>3. MaySend(script) /\ script.packed \in BOOLEAN
  BY <1>2, ScriptMaySend DEF MaySend
<1>4. /\ ~cut /\ Made' = Made + 1 /\ Made \in Nat
      /\ Made' <= Len(AllCalls(script))
      /\ calls' = SubSeq(AllCalls(script), Made' + 1, Len(AllCalls(script)))
      /\ x \in EmitSet /\ u \in EmitSet /\ At(u[1], WireOf(script), 0)
      /\ u = After(x, Head(calls), script.packed)
  BY <1>1, <1>2, CallFacts
<1>5. raw \in Seq(Sym) /\ network \in Seq(Sym) /\ inbox \in Seq(Sym)
  BY <1>2 DEF Typed
<1>6. d \in Seq(SentSym) /\ d \in Seq(Sym)
  <2>1. x[2] \in Seq(ByteSym)
    <3> HIDE DEF x
    <3> QED BY <1>4 DEF EmitSet
  <2> HIDE DEF x
  <2>2. Compressed(x[2]) \in Seq(SentSym)
    BY <2>1, CompressedFacts DEF FrameOf
  <2>3. <<>> \in Seq(SentSym)
    OBVIOUS
  <2>4. d \in Seq(SentSym)
    BY <2>2, <2>3
  <2> HIDE DEF d
  <2> QED BY <2>4, SentIsSym
<1>7. d = IF script.packed THEN Compressed(compressor \o body) ELSE <<>>
  BY <1>2 DEF WriterInv
<1>8. u[1] = x[1] \o d /\ u[2] = <<>>
  <2> DEFINE c == Head(calls)
             q == script.packed
             v == After(x, c, q)
  <2>1. c.to = "finalize" /\ q \in BOOLEAN /\ u = v
    BY <1>1, <1>3, <1>4
  <2>2. d = IF q THEN Compressed(x[2]) ELSE <<>>
    OBVIOUS
  <2> HIDE DEF c, q, x, u, d
  <2>3. v[1] = x[1] \o d /\ v[2] = <<>>
    BY <2>1, <2>2, AfterCases
  <2> HIDE DEF v
  <2> QED BY <2>1, <2>3
<1>9. full \in Seq(Sym) /\ network \o full \in Seq(Sym) /\ network' = network \o full
  <2> DEFINE a == network \o raw \o (IF script.packed THEN Compressed(compressor \o body) ELSE <<>>)
  <2>1. a = network \o raw \o d
    BY <1>7
  <2>2. network' = a
    BY <1>1
  <2> HIDE DEF d, full, a
  <2>3. full \in Seq(Sym)
    BY <1>5, <1>6, Concat DEF full
  <2>4. network \o raw \o d = network \o full
    BY <1>5, <1>6, Associates DEF full
  <2> QED BY <1>5, <2>1, <2>2, <2>3, <2>4, Concat
<1>11. w = m + Len(d) /\ At(d, WireOf(script), m)
  <2> HIDE DEF d, u, x
  <2> QED BY <1>3, <1>4, <1>6, <1>8, SentMore, ZenonT(60)
<1>12. raw' \in Seq(Sym) /\ network' \in Seq(Sym)
  <2>1. <<>> \in Seq(Sym)
    OBVIOUS
  <2> QED BY <1>1, <1>9, <2>1
<1>13. WriterInv'
  <2>1. script' = script /\ body' = <<>> /\ compressor' = <<>> /\ raw' = <<>>
    BY <1>1
  <2>2. AllCalls(script)' = AllCalls(script) /\ (Emission(script)[Made])' = u
    BY <1>4, <2>1
  <2>3. u[2] = compressor' \o body'
    <3>1. <<>> \o <<>> = <<>>
      OBVIOUS
    <3> HIDE DEF u
    <3> QED BY <1>8, <2>1, <3>1
  <2>4. Made' \in Nat
    BY <1>4
  <2> QED BY <1>4, <2>1, <2>2, <2>3, <2>4 DEF WriterInv
<1>14. ASSUME Reads PROVE Reads'
  <2>1. PICK y, n : /\ Carries(script, m, altered, cut, inbox, network, raw, y, n)
                    /\ Reader(script, Len(got) + 1, unpacked, frame, part, y, n)
    BY <1>14 DEF Reads
  <2>2. Carries(script, m + Len(d), altered, cut, inbox, network \o full, <<>>, y, n)
    <3> HIDE DEF d, m
    <3> QED BY <1>3, <1>4, <1>5, <1>6, <1>11, <2>1, CarriesWrite
  <2>3. Carries(script, w, altered, cut, inbox, network', raw', y, n)
    <3> HIDE DEF d, m, w, full
    <3> QED BY <1>1, <1>9, <1>11, <2>2
  <2>4. /\ script' = script /\ altered' = altered /\ cut' = cut /\ inbox' = inbox /\ got' = got
        /\ unpacked' = unpacked /\ frame' = frame /\ part' = part
    BY <1>1 DEF Reading
  <2>5. Len(Emission(script)[Made][1])' = w
    BY <1>4, <2>4
  <2> HIDE DEF w
  <2> QED BY <2>1, <2>3, <2>4, <2>5 DEF Reads
<1>15. body' \in Seq(ByteSym) /\ compressor' \in Seq(ByteSym)
  <2>1. <<>> \in Seq(ByteSym)
    OBVIOUS
  <2> QED BY <1>1, <2>1
<1> QED BY <1>1, <1>4, <1>12, <1>13, <1>14, <1>15, WriterOnly

\* What the network does leaves the writer alone.
LEMMA WriterRests ==
  ASSUME WriterInv, UNCHANGED <<script, calls, raw, body, compressor>>
  PROVE  WriterInv' /\ Made' = Made /\ (Emission(script)[Made])' = Emission(script)[Made]
<1>1. Made' = Made
  BY DEF Made
<1> QED BY <1>1 DEF WriterInv

LEMMA ConnectionCutKeeps ==
  ASSUME IInv, ConnectionCut
  PROVE  IInv'
<1> DEFINE m == Len(Emission(script)[Made][1])
<1>1. /\ ~cut /\ cut' = TRUE /\ Reading' = Reading
      /\ UNCHANGED <<script, calls, raw, body, compressor, altered>>
  BY DEF ConnectionCut
<1>2. PICK j \in 0..Len(network) : network' = SubSeq(network, 1, j)
  BY DEF ConnectionCut
<1>3. Typed /\ WriterInv /\ ~over
  BY <1>1 DEF IInv
<1>4. MaySend(script) /\ network \in Seq(Sym) /\ inbox \in Seq(Sym) /\ raw \in Seq(Sym)
  BY <1>3, ScriptMaySend DEF Typed
<1>5. /\ inbox' = inbox /\ unpacked' = unpacked /\ frame' = frame /\ part' = part
      /\ got' = got /\ over' = over /\ failure' = failure
  BY <1>1 DEF Reading
<1>6. network' \in Seq(Sym)
  BY <1>2, <1>4, FirstOnes
<1>7. Expected' = Expected /\ Sent' = Sent
  BY <1>1 DEF Expected, Sent
<1>8. Typed'
  BY <1>1, <1>3, <1>5, <1>6, <1>7 DEF Typed
<1>9. WriterInv' /\ m' = m
  BY <1>1, <1>3, WriterRests
<1>10. ASSUME Reads PROVE Reads'
  <2>1. PICK y, n : /\ Carries(script, m, altered, cut, inbox, network, raw, y, n)
                    /\ Reader(script, Len(got) + 1, unpacked, frame, part, y, n)
    BY <1>10 DEF Reads
  <2>2. Carries(script, m, altered, TRUE, inbox, SubSeq(network, 1, j), raw, y, n)
    <3> HIDE DEF m
    <3> QED BY <1>4, <2>1, CarriesCut
  <2>3. Carries(script, m, altered', cut', inbox', network', raw', y, n)
    BY <1>1, <1>2, <1>5, <2>2
  <2>4. Reader(script', Len(got') + 1, unpacked', frame', part', y, n)
    BY <1>1, <1>5, <2>1
  <2>5. Carries(script', m', altered', cut', inbox', network', raw', y, n)
    BY <1>1, <1>9, <2>3
  <2> QED BY <2>4, <2>5 DEF Reads
<1>11. FailsForTheNetwork'
  BY <1>1, <1>5 DEF IInv, FailsForTheNetwork
<1>12. Right'
  BY <1>3, <1>5, <1>7 DEF IInv, Right
<1>13. failure' = NoFailure => Reads'
  BY <1>3, <1>5, <1>10 DEF IInv
<1> QED BY <1>3, <1>5, <1>8, <1>9, <1>11, <1>12, <1>13 DEF IInv

LEMMA AlterKeeps ==
  ASSUME IInv, Alter
  PROVE  IInv'
<1> DEFINE m == Len(Emission(script)[Made][1])
<1>1. /\ ~altered /\ altered' = TRUE /\ Reading' = Reading
      /\ UNCHANGED <<script, calls, raw, body, compressor, cut>>
  BY DEF Alter
<1>2. PICK j \in DOMAIN network : \E x \in Changed(network[j]) : network' = [network EXCEPT ![j] = x]
  BY DEF Alter
<1>x. PICK x \in Changed(network[j]) : network' = [network EXCEPT ![j] = x]
  BY <1>2
<1>3. Typed /\ WriterInv
  BY DEF IInv
<1>4. MaySend(script) /\ network \in Seq(Sym) /\ inbox \in Seq(Sym) /\ raw \in Seq(Sym)
  BY <1>3, ScriptMaySend DEF Typed
<1>j. j \in 1..Len(network) /\ Len(network) \in Nat
  BY <1>4, LenProperties
<1>o. ~over
  <2>1. network # <<>>
    BY <1>j, EmptySeq
  <2> QED BY <2>1 DEF IInv
<1>5. /\ inbox' = inbox /\ unpacked' = unpacked /\ frame' = frame /\ part' = part
      /\ got' = got /\ over' = over /\ failure' = failure
  BY <1>1 DEF Reading
<1>7. Expected' = Expected /\ Sent' = Sent
  BY <1>1 DEF Expected, Sent
<1>9. WriterInv' /\ m' = m
  BY <1>1, <1>3, WriterRests
<1>10. ASSUME Reads
       PROVE  x \in Sym /\ \E y, n : /\ Carries(script, m, TRUE, cut, inbox, network', raw, y, n)
                                     /\ Reader(script, Len(got) + 1, unpacked, frame, part, y, n)
  <2>1. PICK y, n : /\ Carries(script, m, altered, cut, inbox, network, raw, y, n)
                    /\ Reader(script, Len(got) + 1, unpacked, frame, part, y, n)
    BY <1>10 DEF Reads
  <2>2. x \in Sym
    <3> HIDE DEF m
    <3> QED BY <1>1, <1>4, <1>j, <2>1, CarriesAlter
  <2>3. PICK u : /\ Carries(script, m, TRUE, cut, inbox, [network EXCEPT ![j] = x], raw, u, n)
                 /\ Keeps(y, u, n)
    <3> HIDE DEF m
    <3> QED BY <1>1, <1>4, <1>j, <2>1, CarriesAlter
  <2>4. Len(y) \in Nat /\ n \in Nat /\ frame \in Seq(Sym) /\ part \in Seq(ByteSym)
    BY <1>3, <2>1, LenProperties DEF Carries, Typed
  <2>5. Reader(script, Len(got) + 1, unpacked, frame, part, u, n)
    <3> DEFINE i == Len(got) + 1
    <3>1. Reader(script, i, unpacked, frame, part, y, n)
      BY <2>1
    <3> HIDE DEF i
    <3>2. Reader(script, i, unpacked, frame, part, u, n)
      BY <2>3, <2>4, <3>1, ReaderKeeps
    <3> QED BY <3>2 DEF i
  <2> QED BY <1>x, <2>2, <2>3, <2>5
<1>r. (failure = NoFailure => Reads) /\ Right
  BY <1>o DEF IInv
<1>f. failure = NoFailure
  BY <1>1, <1>o DEF IInv, FailsForTheNetwork
<1>6. network' \in Seq(Sym)
  <2>1. x \in Sym
    BY <1>10, <1>f, <1>r
  <2>2. network' = [k \in 1..Len(network) |-> IF k = j THEN x ELSE network[k]]
    BY <1>4, <1>j, <1>x, LenProperties
  <2>3. \A k \in 1..Len(network) : network[k] \in Sym
    BY <1>4, ElementOfSeq
  <2>4. network' \in [1..Len(network) -> Sym]
    BY <2>1, <2>2, <2>3
  <2> QED BY <1>j, <2>4, FunctionIsSeq
<1>8. Typed'
  BY <1>1, <1>3, <1>5, <1>6, <1>7 DEF Typed
<1>11. Reads'
  <2>1. PICK y, n : /\ Carries(script, m, TRUE, cut, inbox, network', raw, y, n)
                    /\ Reader(script, Len(got) + 1, unpacked, frame, part, y, n)
    BY <1>10, <1>f, <1>r
  <2>2. /\ Carries(script', m', altered', cut', inbox', network', raw', y, n)
        /\ Reader(script', Len(got') + 1, unpacked', frame', part', y, n)
    BY <1>1, <1>5, <1>9, <2>1
  <2> QED BY <2>2 DEF Reads
<1>12. Right'
  BY <1>5, <1>7, <1>r DEF Right
<1>13. FailsForTheNetwork'
  BY <1>5, <1>f DEF FailsForTheNetwork
<1> QED BY <1>5, <1>8, <1>9, <1>11, <1>12, <1>13, <1>o DEF IInv

LEMMA RefillKeeps ==
  ASSUME IInv, Refill
  PROVE  IInv'
<1> DEFINE m == Len(Emission(script)[Made][1])
<1>1. /\ More /\ inbox = <<>> /\ ~over
      /\ UNCHANGED Writing /\ UNCHANGED <<unpacked, frame, part, got, failure>>
  BY DEF Refill
<1>2. /\ UNCHANGED <<script, calls, raw, body, compressor, cut, altered>>
      /\ unpacked' = unpacked /\ frame' = frame /\ part' = part /\ got' = got /\ failure' = failure
  BY <1>1 DEF Writing
<1>3. Typed /\ WriterInv /\ Right /\ Reads /\ failure = NoFailure
  BY <1>1 DEF IInv, More
<1>4. MaySend(script) /\ network \in Seq(Sym) /\ inbox \in Seq(Sym) /\ raw \in Seq(Sym)
  BY <1>3, ScriptMaySend DEF Typed
<1>5. Expected' = Expected /\ Sent' = Sent
  BY <1>2 DEF Expected, Sent
<1>6. WriterInv' /\ m' = m
  BY <1>2, <1>3, WriterRests
<1>7. Right' /\ FailsForTheNetwork'
  BY <1>2, <1>3, <1>5 DEF Right, FailsForTheNetwork
<1>8. PICK y, n : /\ Carries(script, m, altered, cut, inbox, network, raw, y, n)
                  /\ Reader(script, Len(got) + 1, unpacked, frame, part, y, n)
  BY <1>3 DEF Reads
<1>9. Reader(script', Len(got') + 1, unpacked', frame', part', y, n)
  BY <1>2, <1>8
<1>10. ASSUME NEW j \in 1..(IF Len(network) < ReadMax THEN Len(network) ELSE ReadMax),
              inbox' = SubSeq(network, 1, j), network' = SubSeq(network, j + 1, Len(network)),
              over' = over
       PROVE  IInv'
  <2>1. j \in 0..Len(network)
    <3>1. Len(network) \in Nat /\ ReadMax \in Nat
      BY <1>4, LenProperties, BuffersAssumption
    <3> QED BY <3>1
  <2>2. inbox' \in Seq(Sym) /\ network' \in Seq(Sym)
    BY <1>4, <1>10, <2>1, FirstOnes, LastOnes
  <2>3. Typed'
    BY <1>2, <1>3, <1>5, <1>10, <2>2 DEF Typed
  <2>4. Carries(script, m, altered, cut, SubSeq(network, 1, j), SubSeq(network, j + 1, Len(network)), raw, y, n)
    <3> HIDE DEF m
    <3> QED BY <1>1, <1>4, <1>8, <2>1, CarriesMoves
  <2>5. Carries(script', m', altered', cut', inbox', network', raw', y, n)
    BY <1>2, <1>6, <1>10, <2>4
  <2>6. Reads'
    BY <1>9, <2>5 DEF Reads
  <2> QED BY <1>1, <1>6, <1>7, <1>10, <2>3, <2>6 DEF IInv
<1>11. ASSUME network = <<>>, cut, over' = TRUE, inbox' = inbox, network' = network
       PROVE  IInv'
  <2>1. Typed'
    BY <1>2, <1>3, <1>5, <1>11 DEF Typed
  <2>2. Carries(script', m', altered', cut', inbox', network', raw', y, n)
    BY <1>2, <1>6, <1>8, <1>11
  <2>3. Reads'
    BY <1>9, <2>2 DEF Reads
  <2> QED BY <1>2, <1>6, <1>7, <1>11, <2>1, <2>3 DEF IInv
<1> QED BY <1>10, <1>11 DEF Refill

-----------------------------------------------------------------------------
(* The steps of the reader                                                     *)

LEMMA TakingIs ==
  ASSUME NEW source
  PROVE  LET j == SizeOf(Item, part, source)
         IN  /\ Taking(source).read = part \o SubSeq(source, 1, j)
             /\ Taking(source).rest = SubSeq(source, j + 1, Len(source))
<1> DEFINE j == SizeOf(Item, part, source)
           a == part \o SubSeq(source, 1, j)
           b == SubSeq(source, j + 1, Len(source))
<1>1. Taking(source) = [read |-> a, rest |-> b]
  BY DEF Taking, SizeOf, SizesOf
<1> HIDE DEF a, b
<1>2. Taking(source).read = a /\ Taking(source).rest = b
  BY <1>1
<1> QED BY <1>2 DEF a, b

\* The place of the item that is read next.
LEMMA NextItem ==
  ASSUME Typed, More
  PROVE  /\ Len(got) + 1 \in 1..Len(ItemsOf(script)) /\ Len(got) + 1 <= Len(Expected)
         /\ Sent[Len(got) + 1] = Meaning(Item)
         /\ Item = ItemAt(script, Len(got) + 1)
<1>1. /\ Expected = ItemsOf(script) /\ Len(Expected) \in Nat /\ Len(got) \in Nat
      /\ Item = ItemAt(script, Len(got) + 1)
      /\ \A i \in 1..Len(Expected) : Sent[i] = Meaning(ItemAt(script, i))
  BY Links
<1>2. Len(got) < Len(Expected)
  BY DEF More
<1>3. Len(got) + 1 \in 1..Len(Expected) /\ Len(got) + 1 <= Len(Expected)
  BY <1>1, <1>2
<1> QED BY <1>1, <1>3

\* One value more.
LEMMA OneMore ==
  ASSUME Typed, More, NEW v, script' = script, got' = Append(got, v)
  PROVE  /\ IsSequence(got') /\ Len(got') = Len(got) + 1 /\ Len(got') <= Len(Expected)
         /\ Len(got) \in Nat
         /\ \A i \in 1..Len(got) : got'[i] = got[i]
         /\ got'[Len(got) + 1] = v
         /\ Right /\ v = Sent[Len(got) + 1] => Right'
<1>1. IsSequence(got)
  BY DEF Typed
<1>2. /\ IsSequence(got') /\ Len(got') = Len(got) + 1 /\ Len(got) \in Nat
      /\ \A i \in 1..Len(got) : got'[i] = got[i]
      /\ got'[Len(got) + 1] = v
  <2> DEFINE a == Append(got, v)
  <2>1. /\ IsSequence(a) /\ Len(a) = Len(got) + 1 /\ Len(got) \in Nat
        /\ \A i \in 1..Len(got) : a[i] = got[i]
        /\ a[Len(got) + 1] = v
    BY <1>1, AppendAny
  <2>2. got' = a
    OBVIOUS
  <2> HIDE DEF a
  <2> QED BY <2>1, <2>2
<1>3. Len(got') <= Len(Expected)
  BY <1>2, NextItem
<1>4. ASSUME Right, v = Sent[Len(got) + 1] PROVE Right'
  <2>1. Sent' = Sent
    BY DEF Sent, Expected
  <2>2. ASSUME NEW i \in 1..Len(got) + 1 PROVE got'[i] = Sent[i]
    <3>1. CASE i = Len(got) + 1
      BY <1>2, <1>4, <3>1
    <3>2. CASE i # Len(got) + 1
      <4>1. i \in 1..Len(got)
        BY <1>2, <3>2
      <4> QED BY <1>2, <1>4, <4>1 DEF Right
    <3> QED BY <3>1, <3>2
  <2> QED BY <1>2, <2>1, <2>2 DEF Right
<1> QED BY <1>2, <1>3, <1>4

LEMMA ReadRawKeeps ==
  ASSUME IInv, ReadRaw
  PROVE  IInv'
<1> DEFINE m == Len(Emission(script)[Made][1])
           i == Len(got) + 1
           j == SizeOf(Item, part, inbox)
           rd == part \o SubSeq(inbox, 1, j)
           rest == SubSeq(inbox, j + 1, Len(inbox))
<1>1. /\ More /\ ~InFrame /\ inbox # <<>> /\ Keep(Taking(inbox)) /\ inbox' = Taking(inbox).rest
      /\ UNCHANGED Writing /\ UNCHANGED <<network, unpacked, frame, over, failure>>
  BY DEF ReadRaw
<1>2. /\ UNCHANGED <<script, calls, raw, body, compressor, cut, altered>>
      /\ network' = network /\ unpacked' = unpacked /\ frame' = frame /\ over' = over /\ failure' = failure
  BY <1>1 DEF Writing
<1>3. Typed /\ WriterInv /\ Right /\ Reads /\ failure = NoFailure /\ (over => cut /\ network = <<>>)
  BY <1>1 DEF IInv, More, Drained
<1>4. MaySend(script) /\ network \in Seq(Sym) /\ inbox \in Seq(Sym) /\ raw \in Seq(Sym) /\ part \in Seq(ByteSym)
  BY <1>3, ScriptMaySend DEF Typed
<1>5. Expected' = Expected /\ Sent' = Sent
  BY <1>2 DEF Expected, Sent
<1>6. WriterInv' /\ m' = m
  BY <1>2, <1>3, WriterRests
<1>7. PICK y, n : /\ Carries(script, m, altered, cut, inbox, network, raw, y, n)
                  /\ Reader(script, i, unpacked, frame, part, y, n)
  BY <1>3 DEF Reads
<1>8. /\ i \in 1..Len(ItemsOf(script)) /\ Item = ItemAt(script, i) /\ Sent[i] = Meaning(Item)
  BY <1>1, <1>3, NextItem
<1>9. ~Framed(script, i)
  BY <1>1, <1>3, Links
<1> DEFINE item == ItemAt(script, i)
           k == SizeOf(item, part, inbox)
           u == part \o SubSeq(inbox, 1, k)
           v == SubSeq(inbox, k + 1, Len(inbox))
<1>t. /\ u \in Seq(ByteSym) /\ v \in Seq(Sym)
      /\ Carries(script, m, altered, cut, v, network, raw, y, n + k)
      /\ ~Whole_(item, u) => Reader(script, i, unpacked, frame, u, y, n + k)
      /\ Whole_(item, u) => /\ Value(item, u) = Meaning(item)
                             /\ Reader(script, i + 1, unpacked, frame, <<>>, y, n + k)
  <2>1. i \in 1..Len(ItemsOf(script)) /\ ~Framed(script, i) /\ inbox # <<>>
    BY <1>1, <1>8, <1>9
  <2> HIDE DEF i, m
  <2> QED BY <1>4, <1>7, <2>1, RawReads
<1>10. /\ rd \in Seq(ByteSym) /\ rest \in Seq(Sym)
       /\ Carries(script, m, altered, cut, rest, network, raw, y, n + j)
       /\ ~Whole_(Item, rd) => Reader(script, i, unpacked, frame, rd, y, n + j)
       /\ Whole_(Item, rd) => /\ Value(Item, rd) = Meaning(Item)
                              /\ Reader(script, i + 1, unpacked, frame, <<>>, y, n + j)
  <2>1. Item = item
    BY <1>8
  <2>2. k = j
    BY <2>1
  <2> HIDE DEF k
  <2>3. u = rd /\ v = rest
    BY <2>2
  <2> HIDE DEF item, u, v, rd, rest, j, i, m
  <2> QED BY <1>t, <2>1, <2>2, <2>3
<1>11. Taking(inbox).read = rd /\ Taking(inbox).rest = rest
  BY TakingIs
<1> HIDE DEF rd, rest, j, i, m
<1>12. inbox' = rest /\ Keep(Taking(inbox))
  BY <1>1, <1>11
<1>i. i = Len(got) + 1 /\ m = Len(Emission(script)[Made][1])
  BY DEF i, m
<1>13. CASE Whole_(Item, rd)
  <2>1. got' = Append(got, Value(Item, rd)) /\ part' = <<>>
    BY <1>11, <1>12, <1>13 DEF Keep
  <2>2. /\ IsSequence(got') /\ Len(got') = i /\ Len(got') <= Len(Expected)
        /\ Right'
    BY <1>1, <1>2, <1>3, <1>8, <1>10, <1>13, <1>i, <2>1, OneMore
  <2>3. Reader(script', Len(got') + 1, unpacked', frame', part', y, n + j)
    BY <1>2, <1>10, <1>13, <2>1, <2>2
  <2>4. Carries(script', m', altered', cut', inbox', network', raw', y, n + j)
    BY <1>2, <1>6, <1>10, <1>12
  <2>5. Reads'
    BY <2>3, <2>4 DEF Reads, m
  <2>6. part' \in Seq(ByteSym)
    BY <2>1
  <2>7. Typed'
    BY <1>2, <1>3, <1>5, <1>10, <1>12, <2>2, <2>6 DEF Typed
  <2>8. FailsForTheNetwork'
    BY <1>2, <1>3 DEF FailsForTheNetwork
  <2> QED BY <1>2, <1>3, <1>6, <2>2, <2>5, <2>7, <2>8 DEF IInv
<1>14. CASE ~Whole_(Item, rd)
  <2>1. got' = got /\ part' = rd
    BY <1>11, <1>12, <1>14 DEF Keep
  <2>2. Right'
    BY <1>3, <1>5, <2>1 DEF Right
  <2>3. Reader(script', Len(got') + 1, unpacked', frame', part', y, n + j)
    BY <1>2, <1>10, <1>14, <1>i, <2>1
  <2>4. Carries(script', m', altered', cut', inbox', network', raw', y, n + j)
    BY <1>2, <1>6, <1>10, <1>12
  <2>5. Reads'
    BY <2>3, <2>4 DEF Reads, m
  <2>7. Typed'
    BY <1>2, <1>3, <1>5, <1>10, <1>12, <2>1 DEF Typed
  <2>8. FailsForTheNetwork'
    BY <1>2, <1>3 DEF FailsForTheNetwork
  <2> QED BY <1>2, <1>3, <1>6, <2>2, <2>5, <2>7, <2>8 DEF IInv
<1> QED BY <1>13, <1>14

LEMMA ReadUnpackedKeeps ==
  ASSUME IInv, ReadUnpacked
  PROVE  IInv'
<1> DEFINE m == Len(Emission(script)[Made][1])
           i == Len(got) + 1
           j == SizeOf(Item, part, unpacked)
           rd == part \o SubSeq(unpacked, 1, j)
           rest == SubSeq(unpacked, j + 1, Len(unpacked))
<1>1. /\ More /\ InFrame /\ unpacked # <<>> /\ Keep(Taking(unpacked)) /\ unpacked' = Taking(unpacked).rest
      /\ UNCHANGED Writing /\ UNCHANGED <<network, inbox, frame, over, failure>>
  BY DEF ReadUnpacked
<1>2. /\ UNCHANGED <<script, calls, raw, body, compressor, cut, altered>>
      /\ network' = network /\ inbox' = inbox /\ frame' = frame /\ over' = over /\ failure' = failure
  BY <1>1 DEF Writing
<1>3. Typed /\ WriterInv /\ Right /\ Reads /\ failure = NoFailure /\ (over => cut /\ network = <<>>)
  BY <1>1 DEF IInv, More, Drained
<1>4. MaySend(script) /\ unpacked \in Seq(ByteSym) /\ part \in Seq(ByteSym) /\ inbox \in Seq(Sym)
      /\ network \in Seq(Sym)
  BY <1>3, ScriptMaySend DEF Typed
<1>5. Expected' = Expected /\ Sent' = Sent
  BY <1>2 DEF Expected, Sent
<1>6. WriterInv' /\ m' = m
  BY <1>2, <1>3, WriterRests
<1>7. PICK y, n : /\ Carries(script, m, altered, cut, inbox, network, raw, y, n)
                  /\ Reader(script, i, unpacked, frame, part, y, n)
  BY <1>3 DEF Reads
<1>8. /\ i \in 1..Len(ItemsOf(script)) /\ Item = ItemAt(script, i) /\ Sent[i] = Meaning(Item)
  BY <1>1, <1>3, NextItem
<1>9. Framed(script, i)
  BY <1>1, <1>3, Links
<1>n. Len(y) \in Nat /\ n \in 0..Len(y)
  <2> DEFINE L == Len(y)
             a == Len(inbox)
  <2>1. y \in Seq(Sym) /\ n \in Nat /\ n + a <= L
    BY <1>7 DEF Carries, At
  <2>2. L \in Nat /\ a \in Nat
    BY <1>4, <2>1, LenProperties
  <2> HIDE DEF L, a
  <2>3. L \in Nat /\ n \in 0..L
    BY <2>1, <2>2
  <2> QED BY <2>3 DEF L
<1> DEFINE item == ItemAt(script, i)
           k == SizeOf(item, part, unpacked)
           u == part \o SubSeq(unpacked, 1, k)
           v == SubSeq(unpacked, k + 1, Len(unpacked))
<1>t. /\ v \in Seq(ByteSym) /\ Whole_(item, u) /\ Value(item, u) = Meaning(item)
      /\ Reader(script, i + 1, v, frame, <<>>, y, n)
  <2>1. i \in 1..Len(ItemsOf(script)) /\ Framed(script, i) /\ unpacked # <<>>
    BY <1>1, <1>8, <1>9
  <2>2. Reader(script, i, unpacked, frame, part, y, n)
    BY <1>7
  <2> HIDE DEF i
  <2> QED BY <1>4, <1>n, <2>1, <2>2, BlockReads
<1>10. /\ rest \in Seq(ByteSym) /\ Whole_(Item, rd) /\ Value(Item, rd) = Meaning(Item)
       /\ Reader(script, i + 1, rest, frame, <<>>, y, n)
  <2>1. Item = item
    BY <1>8
  <2>2. k = j
    BY <2>1
  <2> HIDE DEF k
  <2>3. u = rd /\ v = rest
    BY <2>2
  <2> HIDE DEF item, u, v, rd, rest, j, i
  <2> QED BY <1>t, <2>1, <2>2, <2>3
<1>11. Taking(unpacked).read = rd /\ Taking(unpacked).rest = rest
  BY TakingIs
<1> HIDE DEF rd, rest, j, i, m
<1>12. unpacked' = rest /\ got' = Append(got, Value(Item, rd)) /\ part' = <<>>
  BY <1>1, <1>10, <1>11 DEF Keep
<1>i. i = Len(got) + 1 /\ m = Len(Emission(script)[Made][1])
  BY DEF i, m
<1>13. /\ IsSequence(got') /\ Len(got') = i /\ Len(got') <= Len(Expected)
       /\ Right'
  BY <1>1, <1>2, <1>3, <1>8, <1>10, <1>12, <1>i, OneMore
<1>14. Reader(script', Len(got') + 1, unpacked', frame', part', y, n)
  BY <1>2, <1>10, <1>12, <1>13
<1>15. Carries(script', m', altered', cut', inbox', network', raw', y, n)
  BY <1>2, <1>6, <1>7
<1>16. Reads'
  BY <1>14, <1>15 DEF Reads, m
<1>17. part' \in Seq(ByteSym)
  BY <1>12
<1>18. Typed'
  BY <1>2, <1>3, <1>5, <1>10, <1>12, <1>13, <1>17 DEF Typed
<1>19. FailsForTheNetwork'
  BY <1>2, <1>3 DEF FailsForTheNetwork
<1> QED BY <1>2, <1>3, <1>6, <1>13, <1>16, <1>18, <1>19 DEF IInv

LEMMA ReadFrameKeeps ==
  ASSUME IInv, ReadFrame
  PROVE  IInv'
<1> DEFINE m == Len(Emission(script)[Made][1])
           i == Len(got) + 1
           j == IF FrameMissing(frame) < Len(inbox) THEN FrameMissing(frame) ELSE Len(inbox)
           f == frame \o SubSeq(inbox, 1, j)
           done == Len(f) >= 3 /\ FrameMissing(f) = 0
           rest == SubSeq(inbox, j + 1, Len(inbox))
           e == IF done \/ FrameError(f) = "UnknownCompressionMethod" THEN FrameError(f) ELSE NoFailure
<1>1. /\ More /\ InFrame /\ unpacked = <<>> /\ inbox # <<>> /\ inbox' = rest /\ failure' = e
      /\ IF done /\ e = NoFailure THEN unpacked' = Decompressed(f) /\ frame' = <<>>
         ELSE frame' = f /\ unpacked' = unpacked
      /\ UNCHANGED Writing /\ UNCHANGED <<network, part, got, over>>
  BY DEF ReadFrame, FrameHeader
<1>2. /\ UNCHANGED <<script, calls, raw, body, compressor, cut, altered>>
      /\ network' = network /\ part' = part /\ got' = got /\ over' = over
  BY <1>1 DEF Writing
<1>3. Typed /\ WriterInv /\ Right /\ Reads /\ failure = NoFailure /\ (over => cut /\ network = <<>>)
  BY <1>1 DEF IInv, More, Drained
<1>4. /\ MaySend(script) /\ network \in Seq(Sym) /\ inbox \in Seq(Sym) /\ raw \in Seq(Sym)
      /\ frame \in Seq(Sym) /\ altered \in BOOLEAN
  BY <1>3, ScriptMaySend DEF Typed
<1>5. Expected' = Expected /\ Sent' = Sent
  BY <1>2 DEF Expected, Sent
<1>6. WriterInv' /\ m' = m
  BY <1>2, <1>3, WriterRests
<1>7. PICK y, n : /\ Carries(script, m, altered, cut, inbox, network, raw, y, n)
                  /\ Reader(script, i, unpacked, frame, part, y, n)
  BY <1>3 DEF Reads
<1>8. i \in 1..Len(ItemsOf(script)) /\ Framed(script, i)
  BY <1>1, <1>3, NextItem, Links
<1>10. /\ rest \in Seq(Sym) /\ f \in Seq(Sym)
       /\ Carries(script, m, altered, cut, rest, network, raw, y, n + j)
       /\ FrameError(f) = "UnknownCompressionMethod" => altered
       /\ done /\ FrameError(f) # NoFailure =>
            altered /\ FrameError(f) \in {"ChecksumDoesntMatchError", "UnknownCompressionMethod"}
       /\ done /\ FrameError(f) = NoFailure =>
            /\ Decompressed(f) \in Seq(ByteSym)
            /\ Reader(script, i, Decompressed(f), <<>>, part, y, n + j)
       /\ ~done => Reader(script, i, <<>>, f, part, y, n + j)
  <2>1. Reader(script, i, <<>>, frame, part, y, n)
    BY <1>1, <1>7
  <2> HIDE DEF i, m
  <2> QED BY <1>1, <1>4, <1>7, <1>8, <2>1, FrameReads, SMTT(40)
<1>e. /\ e # NoFailure => altered /\ e \in {"ChecksumDoesntMatchError", "UnknownCompressionMethod"}
      /\ e = NoFailure /\ done => FrameError(f) = NoFailure
  <2> DEFINE fe == FrameError(f)
  <2> HIDE DEF done, f, fe
  <2>1. /\ fe = "UnknownCompressionMethod" => altered
        /\ done /\ fe # NoFailure =>
             altered /\ fe \in {"ChecksumDoesntMatchError", "UnknownCompressionMethod"}
    BY <1>10 DEF fe
  <2>2. e = IF done \/ fe = "UnknownCompressionMethod" THEN fe ELSE NoFailure
    BY DEF fe
  <2> HIDE DEF e
  <2>3. e = NoFailure /\ done => fe = NoFailure
    BY <2>2
  <2>4. e # NoFailure => altered /\ e \in {"ChecksumDoesntMatchError", "UnknownCompressionMethod"}
    BY <2>1, <2>2
  <2> QED BY <2>3, <2>4 DEF fe
<1> HIDE DEF rest, f, j, i, m, e, done
<1>i. i = Len(got) + 1 /\ m = Len(Emission(script)[Made][1])
  BY DEF i, m
<1>11. FailsForTheNetwork'
  BY <1>1, <1>2, <1>e DEF FailsForTheNetwork
<1>12. Right'
  BY <1>2, <1>3, <1>5 DEF Right
<1>13. /\ unpacked' \in Seq(ByteSym) /\ frame' \in Seq(Sym)
       /\ failure' = NoFailure => Reader(script', Len(got') + 1, unpacked', frame', part', y, n + j)
  <2>1. CASE done /\ e = NoFailure
    <3>1. unpacked' = Decompressed(f) /\ frame' = <<>> /\ FrameError(f) = NoFailure
      BY <1>1, <1>e, <2>1
    <3> QED BY <1>2, <1>10, <1>i, <2>1, <3>1
  <2>2. CASE ~(done /\ e = NoFailure)
    <3>1. unpacked' = unpacked /\ frame' = f /\ (failure' = NoFailure => ~done)
      BY <1>1, <2>2
    <3>2. unpacked \in Seq(ByteSym)
      BY <1>3 DEF Typed
    <3> QED BY <1>1, <1>2, <1>10, <1>i, <3>1, <3>2
  <2> QED BY <2>1, <2>2
<1>14. Carries(script', m', altered', cut', inbox', network', raw', y, n + j)
  BY <1>1, <1>2, <1>6, <1>10
<1>15. failure' = NoFailure => Reads'
  BY <1>13, <1>14 DEF Reads, m
<1>16. Typed'
  BY <1>1, <1>2, <1>3, <1>5, <1>10, <1>13 DEF Typed
<1> QED BY <1>2, <1>3, <1>6, <1>11, <1>12, <1>15, <1>16 DEF IInv

\* A frame that is not complete is an error, and lacks something of the wire.
LEMMA FrameIsPart ==
  ASSUME NEW s, MaySend(s), NEW m, NEW alt \in BOOLEAN, NEW lost, NEW in \in Seq(Sym),
         NEW net \in Seq(Sym), NEW out \in Seq(Sym), NEW y, NEW n,
         Carries(s, m, alt, lost, in, net, out, y, n),
         NEW i \in 1..Len(ItemsOf(s)), NEW fr \in Seq(Sym), NEW pt,
         Reader(s, i, <<>>, fr, pt, y, n), Framed(s, i)
  PROVE  FrameError(fr) # NoFailure /\ (~alt => n < Len(WireOf(s)))
<1> DEFINE N == Len(ItemsOf(s))
<1>1. PICK q, o, b : Spot(s, i, q, o, b) /\ ReadsAt(s, i, <<>>, fr, pt, y, n, q, o, b)
  BY DEF Reader
<1>2. i \in 1..N /\ N \in Nat
  BY WholesFacts
<1>3. ~ (i > N) /\ ~ (i = N + 1) /\ i <= N
  BY <1>2
<1>4. BeforeAt(<<>>, fr, pt, y, n, q, o)
  BY <1>1, <1>3 DEF ReadsAt, InsideAt
<1>5. Packed(s, i, q, o, b)
  <2>1. \/ Clear(s, i, q, o) \/ Packed(s, i, q, o, b)
        \/ i = N + 1 /\ q = Len(WireOf(s)) /\ o = 0
    BY <1>1, SpotMoves
  <2> QED BY <1>3, <2>1 DEF Clear
<1> DEFINE c == Compressed(b)
           w == WireOf(s)
           l == Len(fr)
           M == FrameMissing(fr)
<1>6. b \in Seq(ByteSym) /\ b # <<>> /\ At(c, w, q)
  BY <1>5 DEF Packed
<1>7. Len(c) \in Nat
  <2>1. c \in Seq(SentSym)
    BY <1>6, CompressedFacts DEF FrameOf
  <2> HIDE DEF c
  <2> QED BY <2>1, LenProperties
<1>8. (l >= 3 => M > 0) /\ At(fr, y, q) /\ n = q + l
  BY <1>4 DEF BeforeAt
<1>9. l \in Nat /\ Len(w) \in Nat
  BY LenProperties, WiresFacts
<1>10. Mangled(fr, c, alt)
  <2> HIDE DEF c
  <2> QED BY <1>6, <1>7, <1>8, <1>9, FrameOnItsWay
<1>11. /\ FrameError(fr) = NoFailure => M = 0
       /\ ~alt => l < Len(c)
  <2>1. FrameError(fr) = NoFailure => M = 0
    BY <1>6, <1>10, FrameChecked
  <2>2. ~alt /\ (Len(fr) >= 3 => FrameMissing(fr) > 0) => Len(fr) < Len(Compressed(b))
    BY <1>6, <1>10, FrameChecked
  <2> QED BY <1>8, <2>1, <2>2
<1>12. FrameError(fr) # NoFailure
  <2>1. FrameError(fr) = NoFailure => l >= 3
    <3>1. FrameError(fr) = NoFailure => ~ (Len(fr) < 3)
      BY FrameErrorCases
    <3> HIDE DEF M
    <3> QED BY <1>9, <3>1
  <2> HIDE DEF M, l
  <2> QED BY <1>8, <1>11, <2>1
<1>13. q \in Nat /\ q + Len(c) <= Len(w)
  BY <1>6 DEF At
<1>14. ASSUME ~alt PROVE n < Len(w)
  <2> HIDE DEF c, w, l
  <2> QED BY <1>7, <1>8, <1>9, <1>11, <1>13, <1>14
<1> QED BY <1>12, <1>14

\* An item that is not complete means less, or is an error.
LEMMA ItemIsPart ==
  ASSUME NEW s, MaySend(s), NEW m, NEW alt, NEW lost, NEW in \in Seq(Sym),
         NEW net \in Seq(Sym), NEW out \in Seq(Sym), NEW y, NEW n,
         Carries(s, m, alt, lost, in, net, out, y, n),
         NEW i \in 1..Len(ItemsOf(s)), NEW un, NEW fr, NEW pt \in Seq(ByteSym),
         Reader(s, i, un, fr, pt, y, n), ~Framed(s, i)
  PROVE  /\ un = <<>> /\ fr = <<>> /\ n < Len(WireOf(s))
         /\ Breaks(ItemAt(s, i), pt) \/ Less(ItemAt(s, i), Value(ItemAt(s, i), pt))
<1> DEFINE item == ItemAt(s, i)
           e    == CodeAt(s, i)
           N    == Len(ItemsOf(s))
           w    == WireOf(s)
           l    == Len(pt)
           L    == Len(e)
<1>1. PICK q, o, b : Spot(s, i, q, o, b) /\ ReadsAt(s, i, un, fr, pt, y, n, q, o, b)
  BY DEF Reader
<1>2. i \in 1..N /\ N \in Nat
  BY WholesFacts
<1>3. ~ (i > N) /\ ~ (i = N + 1)
  BY <1>2
<1>4. ClearAt(s, i, un, fr, pt, y, n, q)
  BY <1>1, <1>3 DEF ReadsAt
<1>5. Clear(s, i, q, o)
  <2>1. \/ Clear(s, i, q, o) \/ Packed(s, i, q, o, b)
        \/ i = N + 1 /\ q = Len(WireOf(s)) /\ o = 0
    BY <1>1, SpotMoves
  <2> QED BY <1>3, <2>1 DEF Packed
<1>6. q \in Nat /\ At(e, w, q)
  BY <1>5 DEF Clear, CodeAt
<1>7. /\ e \in Seq(ByteSym)
      /\ \A k \in 0..L - 1 : Breaks(item, SubSeq(e, 1, k)) \/ Less(item, Value(item, SubSeq(e, 1, k)))
  <2>1. Codes(CodeAt(s, i), ItemAt(s, i))
    BY ItemIsCoded
  <2> HIDE DEF e, item
  <2>2. Codes(e, item)
    BY <2>1 DEF e, item
  <2> QED BY <2>2 DEF Codes
<1>8. At(e, y, q)
  <2> HIDE DEF e
  <2> QED BY <1>6, <1>7, ClearBytes
<1>10. /\ un = <<>> /\ fr = <<>> /\ l < L /\ At(pt, y, q) /\ n = q + l
  BY <1>4 DEF ClearAt
<1>11. l \in Nat /\ L \in Nat /\ Len(w) \in Nat
  BY <1>7, LenProperties, WiresFacts
<1>12. n < Len(w)
  <2>1. q + L <= Len(w)
    BY <1>6 DEF At
  <2> HIDE DEF w, l, L
  <2> QED BY <1>6, <1>10, <1>11, <2>1
<1> DEFINE d == SubSeq(e, 1, l)
<1>13. l \in 0..L /\ l \in 0..L - 1
  <2> HIDE DEF l, L
  <2> QED BY <1>10, <1>11
<1>14. d \in Seq(ByteSym) /\ Len(d) = l /\ \A k \in 1..l : d[k] = e[k]
  <2> HIDE DEF e, l
  <2> QED BY <1>7, <1>13, FirstOnes
<1>15. d = pt
  <2> HIDE DEF d, e
  <2>1. ASSUME NEW k \in 1..l PROVE pt[k] = d[k]
    <3>1. pt[k] = y[q + k]
      BY <1>10 DEF At
    <3>2. k \in 1..L
      <4> HIDE DEF l, L
      <4> QED BY <1>11, <1>13
    <3>3. e[k] = y[q + k]
      BY <1>8, <3>2 DEF At
    <3> QED BY <1>14, <3>1, <3>3
  <2>2. pt \in Seq(ByteSym) /\ Len(pt) = Len(d)
    BY <1>14
  <2> QED BY <1>14, <2>1, <2>2, SeqEqual
<1>16. Breaks(item, d) \/ Less(item, Value(item, d))
  BY <1>7, <1>13
<1> HIDE DEF d
<1> QED BY <1>10, <1>12, <1>15, <1>16

\* Behind the value the stream broke off in.
LEMMA BrokenMore ==
  ASSUME Typed, More, NEW v, script' = script, got' = Append(got, v),
         ~Framed(script, Len(got) + 1),
         \/ Right /\ Less(Item, v)
         \/ Broken /\ Item.k = "fixed" /\ v = <<>>
  PROVE  Broken'
<1> DEFINE g == Len(got)
<1>1. /\ g \in Nat /\ Len(got') = g + 1
      /\ \A i \in 1..g : got'[i] = got[i]
      /\ got'[g + 1] = v
  BY OneMore
<1>2. Expected' = Expected /\ Sent' = Sent
  BY DEF Expected, Sent
<1>3. Item = Expected[g + 1] /\ ~Framed(script', g + 1)
  BY DEF Item
<1>4. CASE Right /\ Less(Item, v)
  <2>1. \A i \in 1..g : got'[i] = Sent[i]
    BY <1>1, <1>4 DEF Right
  <2>2. Less(Expected[g + 1], got'[g + 1])
    BY <1>1, <1>3, <1>4
  <2> HIDE DEF g
  <2>3. \A i \in g + 1..g + 1 : ~Framed(script', i)
    <3>1. \A i \in g + 1..g + 1 : i = g + 1
      BY <1>1
    <3> QED BY <1>3, <3>1
  <2>4. (g + 1) - 1 = g /\ g + 1 \in 1..g + 1 /\ \A i : i \notin (g + 1) + 1..g + 1
    BY <1>1
  <2> QED BY <1>1, <1>2, <2>1, <2>2, <2>3, <2>4 DEF Broken
<1>5. CASE Broken /\ Item.k = "fixed" /\ v = <<>>
  <2>1. PICK k \in 1..g :
          /\ \A i \in 1..k - 1 : got[i] = Sent[i]
          /\ Less(Expected[k], got[k])
          /\ \A i \in k..g : ~Framed(script, i)
          /\ \A i \in k + 1..g : Expected[i].k = "fixed" /\ got[i] = <<>>
    BY <1>5 DEF Broken
  <2> HIDE DEF g
  <2>2. k \in 1..g + 1 /\ (\A i \in 1..k - 1 : i \in 1..g) /\ k \in Nat
    BY <1>1
  <2>3. (\A i \in 1..k - 1 : got'[i] = Sent[i]) /\ got'[k] = got[k]
    BY <1>1, <2>1, <2>2
  <2>4. \A i \in k..g + 1 : i \in k..g \/ i = g + 1
    BY <1>1, <2>2
  <2>5. \A i \in k..g + 1 : ~Framed(script', i)
    BY <1>3, <2>1, <2>4
  <2>6. ASSUME NEW i \in k + 1..g + 1 PROVE Expected[i].k = "fixed" /\ got'[i] = <<>>
    <3>1. CASE i = g + 1
      BY <1>1, <1>3, <1>5, <3>1
    <3>2. CASE i # g + 1
      <4>1. i \in k + 1..g /\ i \in 1..g
        BY <1>1, <2>2, <3>2
      <4> QED BY <1>1, <2>1, <4>1
    <3> QED BY <3>1, <3>2
  <2> QED BY <1>1, <1>2, <2>1, <2>2, <2>3, <2>5, <2>6 DEF Broken
<1> QED BY <1>4, <1>5

\* What the reader makes of the end of the stream.
AtEnd(e) ==
  /\ More /\ over /\ inbox = <<>> /\ (InFrame => unpacked = <<>>)
  /\ e = IF InFrame THEN FrameError(frame)
         ELSE IF Item.k = "int" THEN "struct.error"
         ELSE IF Item.k \in {"varint", "str"} /\ part = <<>> THEN "OperationalError"
         ELSE NoFailure
  /\ failure' = e
  /\ got' = IF e = NoFailure THEN Append(got, Value(Item, part)) ELSE got
  /\ part' = <<>>
  /\ UNCHANGED Writing /\ UNCHANGED <<network, inbox, unpacked, frame, over>>

LEMMA PlainOfNothing ==
  ASSUME NEW item, item.k = "fixed"
  PROVE  Value(item, <<>>) = <<>>
<1>1. Value(item, <<>>) = Plain_(<<>>)
  BY DEF Value
<1>2. Plain_(<<>>) = <<>>
  BY DEF Plain_
<1> QED BY <1>1, <1>2

\* The value that is appended at the end of the stream is a part of the item.
LEMMA EndOfItem ==
  ASSUME IInv, NEW e, AtEnd(e), e = NoFailure
  PROVE  /\ ~InFrame
         /\ unpacked = <<>> /\ frame = <<>>
         /\ \/ Right /\ Less(Item, Value(Item, part))
            \/ Broken /\ Item.k = "fixed" /\ Value(Item, part) = <<>>
<1> DEFINE m == Len(Emission(script)[Made][1])
           i == Len(got) + 1
<1>1. /\ More /\ over /\ inbox = <<>> /\ (InFrame => unpacked = <<>>)
      /\ e = IF InFrame THEN FrameError(frame)
             ELSE IF Item.k = "int" THEN "struct.error"
             ELSE IF Item.k \in {"varint", "str"} /\ part = <<>> THEN "OperationalError"
             ELSE NoFailure
  BY DEF AtEnd
<1>2. Typed /\ failure = NoFailure /\ ((Right /\ Reads) \/ (Broken /\ Drained))
  BY <1>1 DEF IInv, More
<1>3. /\ MaySend(script) /\ network \in Seq(Sym) /\ inbox \in Seq(Sym) /\ raw \in Seq(Sym)
      /\ frame \in Seq(Sym) /\ part \in Seq(ByteSym) /\ altered \in BOOLEAN
  BY <1>2, ScriptMaySend DEF Typed
<1>4. /\ i \in 1..Len(ItemsOf(script)) /\ Item = ItemAt(script, i)
      /\ (InFrame <=> Framed(script, i))
  BY <1>1, <1>2, NextItem, Links
<1>5. Sendable(Item)
  <2> HIDE DEF i
  <2>1. Sendable(ItemAt(script, i))
    BY <1>3, <1>4, ItemIsCoded
  <2> QED BY <1>4, <2>1
<1>6. CASE Right /\ Reads
  <2>1. PICK y, n : /\ Carries(script, m, altered, cut, inbox, network, raw, y, n)
                    /\ Reader(script, i, unpacked, frame, part, y, n)
    BY <1>6 DEF Reads
  <2>2. ASSUME InFrame PROVE FALSE
    <3>1. Reader(script, i, <<>>, frame, part, y, n) /\ Framed(script, i)
      BY <1>1, <1>4, <2>1, <2>2
    <3>2. FrameError(frame) # NoFailure
      <4> HIDE DEF i, m
      <4> QED BY <1>3, <1>4, <2>1, <3>1, FrameIsPart
    <3> QED BY <1>1, <2>2, <3>2
  <2>3. ~Framed(script, i)
    BY <1>4, <2>2
  <2> DEFINE item == ItemAt(script, i)
  <2>4. unpacked = <<>> /\ frame = <<>> /\ (Breaks(item, part) \/ Less(item, Value(item, part)))
    <3> HIDE DEF i, m
    <3> QED BY <1>3, <1>4, <2>1, <2>3, ItemIsPart
  <2>5. ~Breaks(Item, part)
    BY <1>1, <2>2, DifferentErrors DEF Breaks
  <2>6. Less(Item, Value(Item, part))
    <3>1. item = Item
      BY <1>4
    <3> HIDE DEF item
    <3> QED BY <2>4, <2>5, <3>1
  <2> QED BY <1>6, <2>2, <2>4, <2>6
<1>7. CASE Broken /\ Drained
  <2>1. frame = <<>> /\ part = <<>> /\ unpacked = <<>>
    BY <1>7 DEF Drained
  <2>2. ~InFrame
    <3>1. FrameError(frame) = NoFailure => ~ (Len(frame) < 3)
      BY FrameErrorCases
    <3>2. Len(frame) < 3
      BY <2>1
    <3> QED BY <1>1, <3>1, <3>2
  <2>3. Item.k = "fixed"
    <3>1. Item.k # "int" /\ Item.k \notin {"varint", "str"}
      BY <1>1, <2>1, <2>2, DifferentErrors
    <3> QED BY <1>5, <3>1 DEF Sendable
  <2>4. Value(Item, part) = <<>>
    BY <2>1, <2>3, PlainOfNothing
  <2> QED BY <1>7, <2>1, <2>2, <2>3, <2>4
<1> QED BY <1>2, <1>6, <1>7

LEMMA ReadAtEndKeeps ==
  ASSUME IInv, ReadAtEnd
  PROVE  IInv'
<1>1. PICK e : AtEnd(e)
  <2> DEFINE e == IF InFrame THEN FrameError(frame)
                  ELSE IF Item.k = "int" THEN "struct.error"
                  ELSE IF Item.k \in {"varint", "str"} /\ part = <<>> THEN "OperationalError"
                  ELSE NoFailure
  <2>1. AtEnd(e)
    BY DEF AtEnd, ReadAtEnd
  <2> QED BY <2>1
<1>2. /\ More /\ over /\ inbox = <<>> /\ failure' = e /\ part' = <<>>
      /\ got' = IF e = NoFailure THEN Append(got, Value(Item, part)) ELSE got
      /\ UNCHANGED <<script, calls, raw, body, compressor, cut, altered>>
      /\ network' = network /\ inbox' = inbox /\ unpacked' = unpacked /\ frame' = frame /\ over' = over
  BY <1>1 DEF AtEnd, Writing
<1>3. Typed /\ WriterInv /\ cut /\ network = <<>> /\ (Right \/ Broken)
  BY <1>2 DEF IInv
<1>4. Expected' = Expected /\ Sent' = Sent /\ part' \in Seq(ByteSym)
  BY <1>2 DEF Expected, Sent
<1>5. WriterInv'
  BY <1>2, <1>3, WriterRests
<1>6. FailsForTheNetwork'
  BY <1>2 DEF FailsForTheNetwork
<1>7. CASE e # NoFailure
  <2>1. got' = got /\ failure' # NoFailure
    BY <1>2, <1>7
  <2>2. Right => Right'
    BY <1>4, <2>1 DEF Right
  <2>3. Broken => Broken'
    BY <1>2, <1>4, <2>1 DEF Broken
  <2>4. Typed'
    BY <1>2, <1>3, <1>4, <2>1 DEF Typed
  <2> QED BY <1>2, <1>3, <1>5, <1>6, <2>1, <2>2, <2>3, <2>4 DEF IInv
<1>8. CASE e = NoFailure
  <2>1. /\ ~InFrame /\ unpacked = <<>> /\ frame = <<>>
        /\ \/ Right /\ Less(Item, Value(Item, part))
           \/ Broken /\ Item.k = "fixed" /\ Value(Item, part) = <<>>
    BY <1>1, <1>8, EndOfItem
  <2>2. got' = Append(got, Value(Item, part))
    BY <1>2, <1>8
  <2>3. ~Framed(script, Len(got) + 1)
    BY <1>3, <2>1, Links
  <2>4. IsSequence(got') /\ Len(got') <= Len(Expected)
    BY <1>2, <1>3, <2>2, OneMore
  <2>5. Broken'
    BY <1>2, <1>3, <2>1, <2>2, <2>3, BrokenMore
  <2>6. Typed'
    BY <1>2, <1>3, <1>4, <2>4 DEF Typed
  <2>7. Drained'
    BY <1>2, <2>1 DEF Drained
  <2> QED BY <1>2, <1>3, <1>5, <1>6, <2>5, <2>6, <2>7 DEF IInv
<1> QED BY <1>7, <1>8

-----------------------------------------------------------------------------
(* The theorems                                                                *)

LEMMA InvariantAtFirst ==
  ASSUME BufInit
  PROVE  IInv
<1>1. PICK s \in [packets : Scripts, packed : BOOLEAN] : BufStarts(s)
  BY DEF BufInit
<1>2. /\ script = s /\ calls = AllCalls(script)
      /\ raw = <<>> /\ body = <<>> /\ compressor = <<>> /\ network = <<>>
      /\ cut = FALSE /\ altered = FALSE
      /\ inbox = <<>> /\ unpacked = <<>> /\ frame = <<>> /\ part = <<>>
      /\ got = <<>> /\ over = FALSE /\ failure = NoFailure
  BY <1>1 DEF BufStarts, AllCalls, CallLists
<1>3. MaySend(script)
  <2>1. script.packets \in Scripts /\ script.packed \in BOOLEAN
    BY <1>2
  <2> QED BY <2>1, BuffersAssumption DEF MaySend
<1> DEFINE z == WireOf(script)
           all == AllCalls(script)
           c == Len(all)
           v == <<>>
<1>4. v \in Seq(Sym) /\ v \in Seq(ByteSym) /\ Len(v) = 0 /\ v \o v = v
  BY EmptySeq
<1>5. z \in Seq(Sym) /\ Len(z) \in Nat /\ all \in Seq(CallSet) /\ c \in Nat
  <2>1. z \in Seq(SentSym) /\ Len(z) \in Nat
    BY <1>3, WiresFacts
  <2> HIDE DEF z
  <2> QED BY <1>3, <2>1, SentIsSym, CallListsFacts
<1>6. Made = 0
  <2> HIDE DEF all
  <2> QED BY <1>2, <1>5 DEF Made, all
<1>7. Emission(script)[Made] = <<<<>>, <<>>>>
  <2>1. Emits(Emission(script), AllCalls(script), script.packed)
    BY <1>3, EmissionFacts
  <2> QED BY <1>6, <2>1 DEF Emits
<1>8. Emission(script)[Made][1] = v /\ Emission(script)[Made][2] = v
  BY <1>7
<1>9. calls = SubSeq(all, Made + 1, c)
  <2>1. SubSeq(all, 1, c) = all
    <3> HIDE DEF all
    <3> QED BY <1>5, SubSeqFull
  <2> QED BY <1>2, <1>6, <2>1
<1>10. IsSequence(got) /\ Len(got) = 0
  <2>1. v = [i \in 1..0 |-> v[i]]
    <3> HIDE DEF v
    <3> QED BY <1>4, LenProperties
  <2> QED BY <1>2, <1>4, <2>1 DEF IsSequence
<1>11. Len(got) <= Len(Expected)
  <2>1. Expected = ItemsOf(script)
    BY DEF Expected, Items, ItemsOf, Wholes
  <2>2. Len(ItemsOf(script)) \in Nat
    BY <1>3, WholesFacts
  <2> QED BY <1>10, <2>1, <2>2
<1>12. Typed
  BY <1>1, <1>2, <1>4, <1>10, <1>11 DEF Typed
<1>13. WriterInv
  <2>1. compressor \o body = v
    BY <1>2, <1>4
  <2> QED BY <1>2, <1>5, <1>6, <1>8, <1>9, <2>1 DEF WriterInv
<1>14. Right
  BY <1>10 DEF Right
<1>15. Carries(script, 0, FALSE, FALSE, v, v, v, z, 0)
  <2> DEFINE L == Len(z)
  <2>1. 0 \in 0..L
    BY <1>5
  <2>2. At(v, z, 0)
    <3> HIDE DEF z
    <3> QED BY <1>5, <2>1, AtNothing
  <2> HIDE DEF v
  <2>3. 0 + Len(v) = 0 /\ 0 + Len(v) + Len(v) = 0
    BY <1>4
  <2> QED BY <1>5, <2>2, <2>3 DEF Carries
<1>16. Reader(script, 1, v, v, v, z, 0)
  <2>1. PICK b \in Seq(ByteSym) : Spot(script, 1, 0, 0, b)
    BY <1>3, FirstSpot
  <2>2. 0 \in 0..Len(z) /\ Len(z) \in Nat /\ 1 \in Nat \ {0}
    BY <1>5
  <2> HIDE DEF z
  <2> QED BY <1>3, <2>1, <2>2, Arrives
<1>17. Reads
  <2>1. Len(got) + 1 = 1 /\ Len(Emission(script)[Made][1]) = 0
    BY <1>4, <1>8, <1>10
  <2> HIDE DEF z
  <2> QED BY <1>2, <1>15, <1>16, <2>1 DEF Reads
<1> QED BY <1>2, <1>12, <1>13, <1>14, <1>17 DEF IInv, FailsForTheNetwork

LEMMA InvariantKept ==
  ASSUME IInv, [BufNext]_bytes
  PROVE  IInv'
<1>1. ASSUME UNCHANGED bytes PROVE IInv'
  <2>1. /\ UNCHANGED <<script, calls, raw, body, compressor, network, cut, altered>>
        /\ UNCHANGED <<inbox, unpacked, frame, part, got, over, failure>>
    BY <1>1 DEF bytes
  <2>2. Expected' = Expected /\ Sent' = Sent /\ Made' = Made
    BY <2>1 DEF Expected, Sent, Made
  <2>3. Typed' = Typed /\ WriterInv' = WriterInv
    BY <2>1, <2>2 DEF Typed, WriterInv
  <2>4. Reads' = Reads /\ Right' = Right /\ Broken' = Broken
    BY <2>1, <2>2 DEF Reads, Right, Broken
  <2>5. Drained' = Drained /\ FailsForTheNetwork' = FailsForTheNetwork
    BY <2>1 DEF Drained, FailsForTheNetwork
  <2> QED BY <2>1, <2>3, <2>4, <2>5 DEF IInv
<1> QED BY <1>1, WriteRawKeeps, WriteBodyKeeps, FinalizeKeeps, ConnectionCutKeeps, AlterKeeps,
           RefillKeeps, ReadRawKeeps, ReadUnpackedKeeps, ReadFrameKeeps, ReadAtEndKeeps DEF BufNext

\* When the writer is done and nothing is on its way, the reader is at the end.
LEMMA ReadToTheEnd ==
  ASSUME IInv
  PROVE  NothingIsStuck
<1> SUFFICES ASSUME calls = <<>>, network = <<>>, inbox = <<>>, ~cut, ~altered,
                    ~More \/ ~InFrame \/ unpacked = <<>>
             PROVE  got = Sent
  BY DEF NothingIsStuck
<1> DEFINE m == Len(Emission(script)[Made][1])
           i == Len(got) + 1
           w == Len(WireOf(script))
<1>1. Typed /\ WriterInv /\ ~over
  BY DEF IInv
<1>2. failure = NoFailure /\ Right /\ Reads
  BY <1>1 DEF IInv, FailsForTheNetwork
<1>3. /\ MaySend(script) /\ network \in Seq(Sym) /\ inbox \in Seq(Sym) /\ raw \in Seq(Sym)
      /\ frame \in Seq(Sym) /\ part \in Seq(ByteSym) /\ altered \in BOOLEAN
  BY <1>1, ScriptMaySend DEF Typed
<1>4. m = w /\ raw = <<>>
  <2>1. Len(AllCalls(script)) \in Nat
    BY <1>3, CallListsFacts
  <2>2. Made = Len(AllCalls(script))
    <3> DEFINE a == Len(AllCalls(script))
    <3>1. Len(calls) = 0
      BY EmptySeq
    <3> QED BY <2>1, <3>1 DEF Made
  <2> DEFINE x == WireOf(script)
  <2>3. Emission(script)[Made] = <<x, <<>>>>
    BY <1>3, <2>2, EmitAll
  <2> HIDE DEF x
  <2>4. Emission(script)[Made][1] = x
    BY <2>3
  <2> QED BY <1>1, <2>4 DEF WriterInv, x
<1>5. PICK y, n : /\ Carries(script, m, altered, cut, inbox, network, raw, y, n)
                  /\ Reader(script, i, unpacked, frame, part, y, n)
  BY <1>2 DEF Reads
<1>6. n = w
  <2>1. n \in Nat /\ n + Len(inbox) + Len(network) + Len(raw) = m
    BY <1>5 DEF Carries
  <2>2. Len(inbox) = 0 /\ Len(network) = 0 /\ Len(raw) = 0
    BY <1>4, EmptySeq
  <2> HIDE DEF m, w
  <2> QED BY <1>4, <2>1, <2>2
<1>7. ~More
  <2> SUFFICES ASSUME More PROVE FALSE
    OBVIOUS
  <2>1. i \in 1..Len(ItemsOf(script)) /\ (InFrame <=> Framed(script, i))
    BY <1>1, NextItem, Links
  <2>w. w \in Nat
    BY <1>3, WiresFacts
  <2>2. CASE InFrame
    <3>1. Reader(script, i, <<>>, frame, part, y, n) /\ Framed(script, i)
      BY <1>5, <2>1, <2>2
    <3>2. n < w
      <4> HIDE DEF i, m
      <4> QED BY <1>3, <1>5, <2>1, <3>1, FrameIsPart
    <3> HIDE DEF w
    <3> QED BY <1>6, <2>w, <3>2
  <2>3. CASE ~InFrame
    <3>1. n < w
      <4> HIDE DEF i, m
      <4> QED BY <1>3, <1>5, <2>1, <2>3, ItemIsPart
    <3> HIDE DEF w
    <3> QED BY <1>6, <2>w, <3>1
  <2> QED BY <2>2, <2>3
<1>8. Len(got) = Len(Expected)
  <2>1. Len(got) \in Nat /\ Len(Expected) \in Nat /\ Len(got) <= Len(Expected)
    BY <1>1, Links DEF Typed
  <2> QED BY <1>2, <1>7, <2>1 DEF More
<1> DEFINE l == Len(got)
<1>9. got = [k \in 1..l |-> got[k]] /\ \A k \in 1..l : got[k] = Sent[k]
  BY <1>1, <1>2 DEF Typed, IsSequence, Right
<1>10. Sent = [k \in 1..l |-> Sent[k]]
  <2>1. DOMAIN Expected = 1..l
    BY <1>1, <1>8, Links
  <2> QED BY <2>1 DEF Sent
<1> HIDE DEF l
<1> QED BY <1>9, <1>10

LEMMA NothingIsLess ==
  ASSUME NEW s, MaySend(s), NEW i \in 1..Len(ItemsOf(s)), ItemAt(s, i).k = "fixed"
  PROVE  IsPrefix(<<>>, Meaning(ItemAt(s, i)))
<1> DEFINE item == ItemAt(s, i)
           e == CodeAt(s, i)
           L == Len(e)
<1>1. /\ e \in Seq(ByteSym) /\ L \in Nat \ {0}
      /\ \A k \in 0..L - 1 : Breaks(item, SubSeq(e, 1, k)) \/ Less(item, Value(item, SubSeq(e, 1, k)))
  <2>1. Codes(CodeAt(s, i), ItemAt(s, i))
    BY ItemIsCoded
  <2> HIDE DEF e, item
  <2>2. Codes(e, item)
    BY <2>1 DEF e, item
  <2> QED BY <2>2 DEF Codes
<1>2. SubSeq(e, 1, 0) = <<>>
  <2> HIDE DEF e
  <2> QED BY <1>1, SubSeqEmpty
<1>3. 0 \in 0..L - 1
  <2> HIDE DEF L
  <2> QED BY <1>1
<1>4. item.k = "fixed"
  OBVIOUS
<1> HIDE DEF item, e, L
<1>5. Value(item, <<>>) = <<>>
  BY <1>4, PlainOfNothing
<1>6. Breaks(item, <<>>) \/ Less(item, Value(item, <<>>))
  BY <1>1, <1>2, <1>3
<1>7. IsPrefix(<<>>, Meaning(item))
  BY <1>4, <1>5, <1>6 DEF Less, Breaks
<1> QED BY <1>7 DEF item

\* What is wrong is behind the place where the stream broke off.
LEMMA ReadsRight ==
  ASSUME IInv
  PROVE  ReadsWhatWasSent
<1> DEFINE wrong == {i \in DOMAIN got : got[i] # Sent[i]}
           shorter(i) == IF Expected[i].k = "varint" THEN got[i] < Sent[i]
                         ELSE Expected[i].k \in {"str", "fixed"} /\ IsPrefix(got[i], Sent[i])
           g == Len(got)
<1> SUFFICES ASSUME NEW i \in wrong
             PROVE  /\ over /\ (HeadItems[i] \/ ~script.packed)
                    /\ shorter(i)
                    /\ (\E j \in wrong : j < i) => Expected[i].k = "fixed" /\ got[i] = <<>>
  BY DEF ReadsWhatWasSent
<1>1. Typed
  BY DEF IInv
<1>2. DOMAIN got = 1..g /\ g \in Nat /\ g <= Len(Expected)
  <2>1. got = [k \in 1..g |-> got[k]] /\ g \in Nat /\ g <= Len(Expected)
    BY <1>1 DEF Typed, IsSequence
  <2> HIDE DEF g
  <2> QED BY <2>1
<1>3. i \in 1..g /\ got[i] # Sent[i]
  BY <1>2
<1>4. over /\ Broken
  <2>1. ~Right
    BY <1>3 DEF Right
  <2> QED BY <2>1 DEF IInv
<1>5. PICK k \in 1..g :
        /\ \A j \in 1..k - 1 : got[j] = Sent[j]
        /\ Less(Expected[k], got[k])
        /\ \A j \in k..g : ~Framed(script, j)
        /\ \A j \in k + 1..g : Expected[j].k = "fixed" /\ got[j] = <<>>
  BY <1>4 DEF Broken
<1> HIDE DEF g
<1>6. \A j \in wrong : j \in k..g
  <2> SUFFICES ASSUME NEW j \in wrong PROVE j \in k..g
    OBVIOUS
  <2>1. j \in 1..g /\ got[j] # Sent[j]
    BY <1>2
  <2>2. j \notin 1..k - 1
    BY <1>5, <2>1
  <2> QED BY <1>2, <2>1, <2>2
<1>7. i \in k..g /\ (i = k \/ i \in k + 1..g)
  <2>1. i \in k..g
    BY <1>6
  <2> QED BY <1>2, <2>1
<1>8. HeadItems[i] \/ ~script.packed
  <2>1. ~Framed(script, i)
    BY <1>5, <1>7
  <2> QED BY <1>1, <2>1, Links
<1>9. /\ i \in 1..Len(ItemsOf(script)) /\ Expected[i] = ItemAt(script, i)
      /\ Sent[i] = Meaning(Expected[i])
  <2>1. Expected = ItemsOf(script) /\ Len(Expected) \in Nat
    BY <1>1, Links
  <2>2. i \in 1..Len(Expected)
    BY <1>2, <1>3, <2>1
  <2>3. Sent[i] = Meaning(ItemAt(script, i))
    BY <1>1, <2>2, Links
  <2> QED BY <2>1, <2>2, <2>3 DEF ItemAt
<1>10. shorter(i)
  <2>1. CASE i = k
    <3>1. Less(Expected[i], got[i])
      BY <1>5, <2>1
    <3>2. CASE Expected[i].k = "varint"
      <4>1. Sent[i] = Expected[i].v /\ got[i] \in Nat /\ got[i] <= Expected[i].v
        BY <1>9, <3>1, <3>2 DEF Less, Meaning
      <4>3. Expected[i].v \in Nat
        <5>1. Sendable(Expected[i])
          BY <1>1, <1>9, ScriptMaySend, ItemIsCoded
        <5> QED BY <3>2, <5>1 DEF Sendable
      <4>2. got[i] < Sent[i]
        BY <1>3, <4>1, <4>3
      <4> QED BY <3>2, <4>2
    <3>3. CASE Expected[i].k # "varint"
      BY <1>9, <3>1, <3>3 DEF Less
    <3> QED BY <3>2, <3>3
  <2>2. CASE i \in k + 1..g
    <3>1. Expected[i].k = "fixed" /\ got[i] = <<>>
      BY <1>5, <2>2
    <3>2. IsPrefix(<<>>, Sent[i])
      BY <1>1, <1>9, <3>1, ScriptMaySend, NothingIsLess
    <3> QED BY <3>1, <3>2
  <2> QED BY <1>7, <2>1, <2>2
<1>11. ASSUME NEW j \in wrong, j < i PROVE Expected[i].k = "fixed" /\ got[i] = <<>>
  <2>1. j \in k..g
    BY <1>6
  <2>2. i # k
    BY <1>2, <1>11, <2>1
  <2> QED BY <1>5, <1>7, <2>2
<1> QED BY <1>4, <1>8, <1>10, <1>11

\* The invariant is one of the specification: the reader is somewhere on the wire
\* and from there on nothing is missing, or the stream broke off in a value.
THEOREM BufInvariant == BufSpec => []IInv
<1>1. BufInit => IInv
  BY InvariantAtFirst
<1>2. IInv /\ [BufNext]_bytes => IInv'
  BY InvariantKept
<1> QED BY <1>1, <1>2, PTL DEF BufSpec

\* However BufferedWriter and BufferedReader cut the stream, the values read are
\* those sent; only where the connection is lost may they be shorter.
THEOREM BufReadsWhatWasSent == BufSpec => []ReadsWhatWasSent
<1>1. IInv => ReadsWhatWasSent
  BY ReadsRight
<1> QED BY <1>1, BufInvariant, PTL

\* BufferedReader and CompressedBufferedReader fail only for what the network did.
THEOREM BufFailsForTheNetwork == BufSpec => []FailsForTheNetwork
<1>1. IInv => FailsForTheNetwork
  BY DEF IInv
<1> QED BY <1>1, BufInvariant, PTL

\* Nothing stays behind in a buffer of BufferedWriter, CompressedBufferedWriter or
\* of the readers once the writer has returned and all has arrived.
THEOREM BufNothingIsStuck == BufSpec => []NothingIsStuck
<1>1. IInv => NothingIsStuck
  BY ReadToTheEnd
<1> QED BY <1>1, BufInvariant, PTL
=============================================================================
