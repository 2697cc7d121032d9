------------------------------- MODULE Lemmas -------------------------------
(***************************************************************************)
(* Facts about least elements and about sequences that the proofs of       *)
(* several components cite.                                                *)
(***************************************************************************)
EXTENDS Integers, SequencesExt, SequenceTheorems, FiniteSetTheorems, WellFoundedInduction, TLAPS

(* The numbers Min and Max choose.                                         *)
LEMMA MinIs ==
  ASSUME NEW S \in SUBSET Int, NEW m \in S, \A y \in S : m <= y
  PROVE  Min(S) = m
<1>1. \A x \in S : (\A y \in S : x <= y) => x = m
  OBVIOUS
<1> QED
  BY <1>1 DEF Min

LEMMA MaxIs ==
  ASSUME NEW S \in SUBSET Int, NEW m \in S, \A y \in S : m >= y
  PROVE  Max(S) = m
<1>1. \A x \in S : (\A y \in S : x >= y) => x = m
  OBVIOUS
<1> QED
  BY <1>1 DEF Max

LEMMA LeastExists ==
  ASSUME NEW S \in SUBSET Nat, S # {}
  PROVE  \E x \in S : \A y \in S : x <= y
<1>1. PICK x \in S : \A y \in S : <<y, x>> \notin OpToRel(<, Nat)
  BY NatLessThanWellFounded, WFMin
<1>2. \A y \in S : ~(y < x)
  BY <1>1 DEF OpToRel
<1> QED
  BY <1>2

LEMMA MinIsLeast ==
  ASSUME NEW S \in SUBSET Nat, S # {}
  PROVE  Min(S) \in S /\ \A y \in S : Min(S) <= y
BY LeastExists DEF Min

(* A recursive function over how many steps have been taken exists.        *)
Stays(step, V, N) == \A x \in V, k \in 1..N : step[<<x, k>>] \in V

Iterates(h, step, V, N, v) ==
  h \in [0..N -> V] /\ h[0] = v /\ \A k \in 1..N : h[k] = step[<<h[k - 1], k>>]

LEMMA IterationExists ==
  ASSUME NEW N \in Nat, NEW V, NEW v \in V, NEW step, Stays(step, V, N)
  PROVE  \E h : Iterates(h, step, V, N, v)
<1> DEFINE Is(h, n) == \A k \in 0..n : h[k] = IF k = 0 THEN v ELSE step[<<h[k - 1], k>>]
           Wrong == {n \in 0..N : ~\E h \in [0..n -> V] : Is(h, n)}
<1>1. ASSUME Wrong # {} PROVE FALSE
  <2>0. Wrong \in SUBSET Nat
    OBVIOUS
  <2>1. PICK n \in Wrong : \A j \in Wrong : n <= j
    <3> HIDE DEF Wrong
    <3> QED
      BY <1>1, <2>0, LeastExists
  <2>2. CASE n = 0
    <3>1. [k \in 0..0 |-> v] \in [0..n -> V] /\ Is([k \in 0..0 |-> v], n)
      BY <2>2
    <3> QED
      BY <2>1, <3>1
  <2>3. CASE n # 0
    <3>0. n \in 0..N /\ n - 1 \in 0..N /\ ~(n <= n - 1)
      BY <2>3
    <3>1. n - 1 \notin Wrong
      <4> HIDE DEF Wrong
      <4> QED
        BY <3>0, <2>1
    <3>2. PICK h \in [0..n - 1 -> V] : Is(h, n - 1)
      BY <3>0, <3>1
    <3> DEFINE g == [k \in 0..n |-> IF k = n THEN step[<<h[n - 1], n>>] ELSE h[k]]
    <3>3. n \in 1..N /\ n - 1 \in 0..n - 1 /\ step[<<h[n - 1], n>>] \in V
      BY <3>0, <3>2, <2>3 DEF Stays
    <3>4. g \in [0..n -> V]
      BY <3>2, <3>3
    <3>5. ASSUME NEW k \in 0..n
          PROVE  g[k] = IF k = 0 THEN v ELSE step[<<g[k - 1], k>>]
      <4>1. CASE k = n
        <5>1. g[k] = step[<<h[n - 1], n>>] /\ g[k - 1] = h[n - 1]
          BY <4>1, <3>3
        <5> QED
          BY <5>1, <4>1, <2>3
      <4>2. CASE k # n
        <5>1. k \in 0..n - 1 /\ g[k] = h[k] /\ (k # 0 => g[k - 1] = h[k - 1])
          BY <4>2, <3>3
        <5> QED
          BY <5>1, <3>2
      <4> QED
        BY <4>1, <4>2
    <3> HIDE DEF g
    <3> QED
      BY <2>1, <3>4, <3>5
  <2> QED
    BY <2>2, <2>3
<1>2. PICK h \in [0..N -> V] : Is(h, N)
  BY <1>1
<1>3. \A k \in 1..N : k \in 0..N /\ k # 0
  OBVIOUS
<1>4. h[0] = v
  <2>1. 0 \in 0..N
    OBVIOUS
  <2> QED
    BY <2>1, <1>2
<1>6. \A k \in 1..N : h[k] = step[<<h[k - 1], k>>]
  BY <1>2, <1>3
<1>5. h \in [0..N -> V]
  BY <1>2
<1> HIDE DEF Is
<1> QED
  BY <1>4, <1>5, <1>6 DEF Iterates

(* What holds of the numbers from 0 to N because each hands it to the next.*)
LEMMA UpTo ==
  ASSUME NEW N \in Nat, NEW G, 0 \in G, \A k \in 1..N : k - 1 \in G => k \in G
  PROVE  \A k \in 0..N : k \in G
<1> DEFINE Wrong == {n \in 0..N : n \notin G}
<1>1. ASSUME Wrong # {} PROVE FALSE
  <2>0. Wrong \in SUBSET Nat
    OBVIOUS
  <2>1. PICK n \in Wrong : \A j \in Wrong : n <= j
    <3> HIDE DEF Wrong
    <3> QED
      BY <1>1, <2>0, LeastExists
  <2>2. n \in 1..N /\ n - 1 \in 0..N /\ n - 1 \notin Wrong
    BY <2>1
  <2> QED
    BY <2>1, <2>2
<1> QED
  BY <1>1

-----------------------------------------------------------------------------
(* Entries a to b of a sequence replaced by one, or taken out.             *)
Spliced(l, a, b, e) == SubSeq(l, 1, a - 1) \o <<e>> \o SubSeq(l, b + 1, Len(l))

IsSpliced(t, l, a, b, e) ==
  /\ Len(t) = Len(l) - (b - a)
  /\ \A k \in 1..Len(l) - (b - a) :
        t[k] = IF k < a THEN l[k] ELSE IF k = a THEN e ELSE l[k + (b - a)]

LEMMA Splice ==
  ASSUME NEW S, NEW l \in Seq(S), NEW a \in 1..Len(l) + 1, NEW b \in a - 1..Len(l), NEW e \in S
  PROVE  /\ Spliced(l, a, b, e) \in Seq(S)
         /\ IsSpliced(Spliced(l, a, b, e), l, a, b, e)
<1> DEFINE t == Spliced(l, a, b, e)
           n == Len(l)
           p == SubSeq(l, 1, a - 1)
           q == SubSeq(l, b + 1, n)
           pe == p \o <<e>>
<1>0. n \in Nat /\ \A k \in 1..n : l[k] \in S
  OBVIOUS
<1> HIDE DEF n, t
<1>1. /\ p \in Seq(S) /\ Len(p) = a - 1
      /\ \A k \in 1..a - 1 : p[k] = l[k]
  <2>1. 1 \in Int /\ a - 1 \in Int /\ \A k \in 1..a - 1 : l[k] \in S
    BY <1>0 DEF n
  <2>2. \A k \in 1..(a - 1) - 1 + 1 : p[k] = l[1 + k - 1]
    BY <2>1, SubSeqProperties
  <2>3. /\ p \in Seq(S)
        /\ Len(p) = IF 1 <= a - 1 THEN (a - 1) - 1 + 1 ELSE 0
    BY <2>1, SubSeqProperties
  <2> QED
    BY <1>0, <2>2, <2>3 DEF n
<1>2. /\ q \in Seq(S) /\ Len(q) = n - b
      /\ \A k \in 1..n - b : q[k] = l[b + k]
  <2>1. b + 1 \in Int /\ n \in Int /\ \A k \in b + 1..n : l[k] \in S
    BY <1>0 DEF n
  <2>2. \A k \in 1..n - (b + 1) + 1 : q[k] = l[(b + 1) + k - 1]
    BY <2>1, SubSeqProperties
  <2>3. /\ q \in Seq(S)
        /\ Len(q) = IF b + 1 <= n THEN n - (b + 1) + 1 ELSE 0
    BY <2>1, SubSeqProperties
  <2> QED
    BY <1>0, <2>2, <2>3 DEF n
<1> HIDE DEF p, q
<1>3. /\ pe \in Seq(S) /\ Len(pe) = a
      /\ \A k \in 1..a : pe[k] = IF k < a THEN l[k] ELSE e
  <2>1. <<e>> \in Seq(S) /\ Len(<<e>>) = 1 /\ <<e>>[1] = e
    OBVIOUS
  <2> DEFINE x == <<e>>
  <2> HIDE DEF x
  <2>2. /\ p \o x \in Seq(S) /\ Len(p \o x) = Len(p) + Len(x)
        /\ \A k \in 1..Len(p) + Len(x) : (p \o x)[k] = IF k <= Len(p) THEN p[k] ELSE x[k - Len(p)]
    BY <1>1, <2>1, ConcatProperties DEF x
  <2>3. Len(p) + Len(x) = a /\ Len(p) = a - 1 /\ a \in Nat
    BY <1>1, <2>1, <1>0 DEF x, n
  <2>4. \A k \in 1..a : (k <= a - 1 <=> k < a) /\ (~(k < a) => k - (a - 1) = 1) /\ (k < a => k \in 1..a - 1)
    BY <2>3
  <2>5. \A k \in 1..a : (p \o x)[k] = IF k < a THEN l[k] ELSE e
    BY <1>1, <2>1, <2>2, <2>3, <2>4 DEF x
  <2> QED
    BY <2>2, <2>3, <2>5 DEF x
<1> HIDE DEF pe
<1>4. /\ t \in Seq(S) /\ Len(t) = a + (n - b)
      /\ \A k \in 1..a + (n - b) : t[k] = IF k <= a THEN pe[k] ELSE q[k - a]
  <2>1. t = pe \o q
    BY DEF t, pe, p, q, n, Spliced
  <2>2. /\ pe \o q \in Seq(S) /\ Len(pe \o q) = Len(pe) + Len(q)
        /\ \A k \in 1..Len(pe) + Len(q) : (pe \o q)[k] = IF k <= Len(pe) THEN pe[k] ELSE q[k - Len(pe)]
    BY <1>2, <1>3, ConcatProperties
  <2> QED
    BY <1>2, <1>3, <2>1, <2>2
<1>5. a + (n - b) = n - (b - a) /\ a \in Nat /\ b \in Int
  BY <1>0 DEF n
<1>6. ASSUME NEW k \in 1..a + (n - b)
      PROVE  t[k] = IF k < a THEN l[k] ELSE IF k = a THEN e ELSE l[k + (b - a)]
  <2>1. CASE k <= a
    <3>1. k \in 1..a /\ (k < a \/ k = a)
      BY <1>0, <1>5, <2>1
    <3> QED
      BY <1>3, <1>4, <2>1, <3>1
  <2>2. CASE ~(k <= a)
    <3>1. k - a \in 1..n - b /\ b + (k - a) = k + (b - a) /\ ~(k < a) /\ k # a
      BY <1>0, <1>5, <2>2
    <3> QED
      BY <1>2, <1>4, <2>2, <3>1
  <2> QED
    BY <2>1, <2>2
<1> QED
  BY <1>4, <1>5, <1>6 DEF n, t, IsSpliced

LEMMA Cut ==
  ASSUME NEW S, NEW l \in Seq(S), NEW i \in 1..Len(l)
  PROVE  /\ RemoveAt(l, i) \in Seq(S)
         /\ Len(RemoveAt(l, i)) = Len(l) - 1
         /\ \A k \in 1..Len(l) - 1 : RemoveAt(l, i)[k] = IF k < i THEN l[k] ELSE l[k + 1]
<1> DEFINE n == Len(l)
           p == SubSeq(l, 1, i - 1)
           q == SubSeq(l, i + 1, n)
           t == p \o q
<1>0. n \in Nat /\ i \in 1..n /\ \A k \in 1..n : l[k] \in S
  OBVIOUS
<1> HIDE DEF n
<1>1. /\ p \in Seq(S) /\ Len(p) = i - 1
      /\ \A k \in 1..i - 1 : p[k] = l[k]
  <2>1. 1 \in Int /\ i - 1 \in Int /\ \A k \in 1..i - 1 : l[k] \in S
    BY <1>0
  <2>2. \A k \in 1..(i - 1) - 1 + 1 : p[k] = l[1 + k - 1]
    BY <2>1, SubSeqProperties
  <2>3. /\ p \in Seq(S)
        /\ Len(p) = IF 1 <= i - 1 THEN (i - 1) - 1 + 1 ELSE 0
    BY <2>1, SubSeqProperties
  <2> QED
    BY <1>0, <2>2, <2>3
<1>2. /\ q \in Seq(S) /\ Len(q) = n - i
      /\ \A k \in 1..n - i : q[k] = l[i + k]
  <2>1. i + 1 \in Int /\ n \in Int /\ \A k \in i + 1..n : l[k] \in S
    BY <1>0
  <2>2. \A k \in 1..n - (i + 1) + 1 : q[k] = l[(i + 1) + k - 1]
    BY <2>1, SubSeqProperties
  <2>3. /\ q \in Seq(S)
        /\ Len(q) = IF i + 1 <= n THEN n - (i + 1) + 1 ELSE 0
    BY <2>1, SubSeqProperties
  <2> QED
    BY <1>0, <2>2, <2>3
<1> HIDE DEF p, q
<1>3. /\ t \in Seq(S) /\ Len(t) = (i - 1) + (n - i)
      /\ \A k \in 1..(i - 1) + (n - i) : t[k] = IF k <= i - 1 THEN p[k] ELSE q[k - (i - 1)]
  <2>1. /\ p \o q \in Seq(S) /\ Len(p \o q) = Len(p) + Len(q)
        /\ \A k \in 1..Len(p) + Len(q) : (p \o q)[k] = IF k <= Len(p) THEN p[k] ELSE q[k - Len(p)]
    BY <1>1, <1>2, ConcatProperties
  <2> QED
    BY <1>1, <1>2, <2>1
<1>4. (i - 1) + (n - i) = n - 1 /\ i \in Nat
  BY <1>0
<1>5. \A k \in 1..n - 1 : /\ k <= i - 1 <=> k < i
                          /\ k < i => k \in 1..i - 1
                          /\ ~(k < i) => k - (i - 1) \in 1..n - i /\ i + (k - (i - 1)) = k + 1
  BY <1>0
<1>6. \A k \in 1..n - 1 : t[k] = IF k < i THEN l[k] ELSE l[k + 1]
  BY <1>1, <1>2, <1>3, <1>4, <1>5
<1> QED
  BY <1>3, <1>4, <1>6 DEF RemoveAt, t, p, q, n
=============================================================================
