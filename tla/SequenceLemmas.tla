--------------------------- MODULE SequenceLemmas ---------------------------
(* What popping the head of a queue and leaving it in the middle do to its    *)
(* entries: facts about sequences that the proofs of Pool and Session share.   *)
EXTENDS Integers, Sequences, Functions, TLAPS, SequenceTheorems

\* popleft: the rest of a queue.
LEMMA TailProperties ==
  ASSUME NEW S, NEW q \in Seq(S), q # <<>>
  PROVE  /\ Head(q) \in S /\ Head(q) \in Range(q)
         /\ Tail(q) \in Seq(S)
         /\ Len(Tail(q)) = Len(q) - 1
         /\ Range(Tail(q)) \subseteq Range(q)
         /\ IsInjective(q) => /\ IsInjective(Tail(q))
                              /\ Head(q) \notin Range(Tail(q))
<1>1. Len(q) \in Nat \ {0} /\ DOMAIN q = 1..Len(q) /\ Head(q) = q[1]
  BY EmptySeq, LenProperties
<1>2. /\ Head(q) \in S
      /\ Tail(q) \in Seq(S)
      /\ Len(Tail(q)) = Len(q) - 1
      /\ \A i \in 1 .. Len(Tail(q)) : Tail(q)[i] = q[i+1]
  BY HeadTailProperties
<1>3. DOMAIN Tail(q) = 1 .. Len(q) - 1
  BY <1>1, <1>2, LenProperties
<1>4. \A i \in 1 .. Len(q) - 1 : i + 1 \in 1..Len(q)
  BY <1>1
<1>5. Range(Tail(q)) \subseteq Range(q) /\ Head(q) \in Range(q)
  BY <1>1, <1>2, <1>3, <1>4 DEF Range
<1>6. ASSUME IsInjective(q)
      PROVE  IsInjective(Tail(q)) /\ Head(q) \notin Range(Tail(q))
  <2>1. \A i, j \in 1 .. Len(q) - 1 : Tail(q)[i] = Tail(q)[j] => i + 1 = j + 1
    BY <1>1, <1>2, <1>3, <1>4, <1>6 DEF IsInjective
  <2>2. IsInjective(Tail(q))
    BY <1>1, <1>3, <2>1 DEF IsInjective
  <2>3. \A i \in 1 .. Len(q) - 1 : Tail(q)[i] = Head(q) => i + 1 = 1
    BY <1>1, <1>2, <1>3, <1>4, <1>6 DEF IsInjective
  <2> QED BY <1>1, <1>3, <2>2, <2>3 DEF Range
<1> QED BY <1>2, <1>5, <1>6

\* Leaving a sequence at one place keeps its other entries, each once.
LEMMA RemoveProperties ==
  ASSUME NEW S, NEW q \in Seq(S), IsInjective(q), NEW k \in 1..Len(q)
  PROVE  LET r == SubSeq(q, 1, k - 1) \o SubSeq(q, k + 1, Len(q))
         IN  /\ IsInjective(r)
             /\ \A i \in DOMAIN r : \E j \in DOMAIN q : j # k /\ r[i] = q[j]
             /\ \A j \in DOMAIN q : j # k => \E i \in DOMAIN r : r[i] = q[j]
             /\ r \in Seq(S)
<1> DEFINE a == SubSeq(q, 1, k - 1)
           b == SubSeq(q, k + 1, Len(q))
           r == a \o b
           at(i) == IF i < k THEN i ELSE i + 1
<1>1. Len(q) \in Nat /\ DOMAIN q = 1..Len(q) /\ \A i \in 1..Len(q) : q[i] \in S
  BY LenProperties, ElementOfSeq
<1>2. /\ a \in Seq(S) /\ Len(a) = k - 1
      /\ \A i \in 1 .. k - 1 : a[i] = q[i]
  <2>1. 1 \in Int /\ k - 1 \in Int /\ \A i \in 1 .. k - 1 : q[i] \in S
    BY <1>1
  <2>2. /\ a \in Seq(S) /\ Len(a) = IF 1 <= k - 1 THEN (k - 1) - 1 + 1 ELSE 0
        /\ \A i \in 1 .. (k - 1) - 1 + 1 : a[i] = q[1 + i - 1]
    BY <2>1, SubSeqProperties
  <2> HIDE DEF a
  <2>3. (k - 1) - 1 + 1 = k - 1 /\ \A i \in 1 .. k - 1 : 1 + i - 1 = i
    BY <1>1
  <2>4. Len(a) = k - 1
    BY <1>1, <2>2
  <2> QED BY <2>2, <2>3, <2>4
<1>3. /\ b \in Seq(S) /\ Len(b) = Len(q) - k
      /\ \A i \in 1 .. Len(q) - k : b[i] = q[i + k]
  <2>1. k + 1 \in Int /\ Len(q) \in Int
        /\ \A i \in k + 1 .. Len(q) : q[i] \in S
    BY <1>1
  <2>2. /\ b \in Seq(S)
        /\ Len(b) = IF k + 1 <= Len(q) THEN Len(q) - (k + 1) + 1 ELSE 0
        /\ \A i \in 1 .. Len(q) - (k + 1) + 1 : b[i] = q[(k + 1) + i - 1]
    BY <2>1, SubSeqProperties
  <2> HIDE DEF b
  <2>3. /\ Len(q) - (k + 1) + 1 = Len(q) - k
        /\ \A i \in 1 .. Len(q) - k : (k + 1) + i - 1 = i + k
    BY <1>1
  <2>4. Len(b) = Len(q) - k
    <3>1. CASE k + 1 <= Len(q)
      <4>1. Len(b) = Len(q) - (k + 1) + 1
        BY <2>2, <3>1
      <4> QED BY <4>1, <2>3
    <3>2. CASE ~(k + 1 <= Len(q))
      <4>1. Len(b) = 0 /\ k = Len(q)
        <5>1. Len(b) = 0
          BY <2>2, <3>2
        <5>2. Len(q) \in Nat /\ k \in 1..Len(q)
          BY <1>1
        <5>3. k = Len(q)
          BY <5>2, <3>2
        <5> QED BY <5>1, <5>3
      <4> QED BY <4>1, <1>1
    <3> QED BY <3>1, <3>2
  <2> QED BY <2>2, <2>3, <2>4
<1> HIDE DEF a, b
<1>4. /\ r \in Seq(S) /\ Len(r) = Len(q) - 1 /\ DOMAIN r = 1 .. Len(q) - 1
      /\ \A i \in 1 .. Len(q) - 1 : r[i] = IF i <= k - 1 THEN a[i]
                                           ELSE b[i - (k - 1)]
  <2>1. /\ r \in Seq(S) /\ Len(r) = Len(a) + Len(b)
        /\ \A i \in 1 .. Len(a) + Len(b) :
             r[i] = IF i <= Len(a) THEN a[i] ELSE b[i - Len(a)]
    BY <1>2, <1>3, ConcatProperties
  <2>2. Len(a) + Len(b) = Len(q) - 1
    BY <1>1, <1>2, <1>3
  <2> HIDE DEF r
  <2>3. DOMAIN r = 1 .. Len(r)
    BY <2>1, LenProperties
  <2> QED BY <1>2, <2>1, <2>2, <2>3
<1> HIDE DEF r
<1>5. \A i \in 1 .. Len(q) - 1 :
        at(i) \in 1..Len(q) /\ at(i) # k /\ r[i] = q[at(i)]
  <2> SUFFICES ASSUME NEW i \in 1 .. Len(q) - 1
               PROVE  at(i) \in 1..Len(q) /\ at(i) # k /\ r[i] = q[at(i)]
    OBVIOUS
  <2>1. CASE i < k
    <3>1. i \in 1 .. k - 1
      BY <2>1, <1>1
    <3> QED BY <2>1, <3>1, <1>1, <1>2, <1>4
  <2>2. CASE i >= k
    <3>1. i - (k - 1) \in 1 .. Len(q) - k /\ (i - (k - 1)) + k = i + 1
      BY <2>2, <1>1
    <3>2. r[i] = b[i - (k - 1)]
      BY <2>2, <1>1, <1>4
    <3> QED BY <2>2, <3>1, <3>2, <1>1, <1>3
  <2> QED BY <2>1, <2>2, <1>1
<1>6. \A i, j \in 1 .. Len(q) - 1 : at(i) = at(j) => i = j
  BY <1>1
<1> HIDE DEF at
<1>7. IsInjective(r)
  BY <1>1, <1>4, <1>5, <1>6 DEF IsInjective
<1>8. \A i \in DOMAIN r : \E j \in DOMAIN q : j # k /\ r[i] = q[j]
  BY <1>1, <1>4, <1>5
<1>9. \A j \in DOMAIN q : j # k => \E i \in DOMAIN r : r[i] = q[j]
  <2> SUFFICES ASSUME NEW j \in 1..Len(q), j # k
               PROVE  \E i \in 1 .. Len(q) - 1 : r[i] = q[j]
    BY <1>1, <1>4
  <2> DEFINE i == IF j < k THEN j ELSE j - 1
  <2>1. i \in 1 .. Len(q) - 1 /\ at(i) = j
    BY <1>1 DEF at
  <2> QED BY <2>1, <1>5
<1> QED BY <1>4, <1>7, <1>8, <1>9 DEF r, a, b
=============================================================================
