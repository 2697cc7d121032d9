---------------------------- MODULE Queues_proofs ----------------------------
(*****************************************************************************)
(* Theorems about the two queues: Fifo for any memory and any data,          *)
(* FixedFifo for every capacity.                                             *)
(*****************************************************************************)
EXTENDS Queues, Lemmas

USE FifoAssumption, FixedFifoAssumption DEF FifoAssumption, FixedFifoAssumption

-----------------------------------------------------------------------------
(* The linked queue.                                                       *)

FieldsNext == [Records -> Records \union {NULL}]

(* s is the list that starts at p and ends at e: it visits different       *)
(* records and follows the links.                                          *)
Chained(p, e, links, s) ==
  /\ s \in Seq(Records)
  /\ p = IF Len(s) = 0 THEN NULL ELSE s[1]
  /\ e = IF Len(s) = 0 THEN NULL ELSE s[Len(s)]
  /\ \A k \in 1..Len(s) : links[s[k]] = IF k = Len(s) THEN NULL ELSE s[k + 1]
  /\ \A j, k \in 1..Len(s) : s[j] = s[k] => j = k

Visited(s) == {s[k] : k \in 1..Len(s)}

(* A list has as many records as steps, and no more than the memory.       *)
LEMMA ListCounts ==
  ASSUME NEW p, NEW e, NEW links, NEW s, Chained(p, e, links, s)
  PROVE  /\ Len(s) \in Nat /\ Cardinality(Records) \in Nat
         /\ Len(s) <= Cardinality(Records)
         /\ Cardinality(Visited(s)) = Len(s)
<1>1. /\ s \in Seq(Records) /\ Len(s) \in Nat
      /\ \A j, k \in 1..Len(s) : s[j] = s[k] => j = k
      /\ \A k \in 1..Len(s) : s[k] \in Records
      /\ s \in [1..Len(s) -> Records]
  BY DEF Chained
<1>2. Visited(s) \subseteq Records
  BY <1>1 DEF Visited
<1>3. s \in Bijection(1..Len(s), Visited(s))
  BY <1>1 DEF Bijection, Injection, Surjection, IsInjective, Visited
<1>4. Cardinality(Records) \in Nat
  BY FS_CardinalityType
<1>5. IsFiniteSet(1..Len(s)) /\ Cardinality(1..Len(s)) = Len(s)
  <2>1. /\ IsFiniteSet(1..Len(s))
        /\ Cardinality(1..Len(s)) = IF 1 > Len(s) THEN 0 ELSE Len(s) - 1 + 1
    <3>1. 1 \in Int /\ Len(s) \in Int
      BY <1>1
    <3> QED
      BY <3>1, FS_Interval
  <2> DEFINE l == Len(s)
  <2> HIDE DEF l
  <2>2. (IF 1 > l THEN 0 ELSE l - 1 + 1) = l
    BY <1>1 DEF l
  <2> QED
    BY <2>1, <2>2 DEF l
<1>6. Cardinality(Visited(s)) = Len(s)
  BY <1>3, <1>5, FS_Bijection DEF ExistsBijection
<1>7. Cardinality(Visited(s)) <= Cardinality(Records)
  BY <1>2, FS_Subset
<1> QED
  BY <1>1, <1>4, <1>6, <1>7

(* The records along the links are those of the list.                      *)
LEMMA AlongIs ==
  ASSUME NEW p, NEW e, NEW links \in FieldsNext, NEW s, Chained(p, e, links, s)
  PROVE  Along(p, links) = s
<1> DEFINE C == Cardinality(Records)
           L == Len(s)
           At(k) == IF k < Len(s) THEN s[k + 1] ELSE NULL
           follow == [r \in Records \union {NULL} |-> IF r = NULL THEN NULL ELSE links[r]]
           Steps(f) == [n \in 0..Cardinality(Records) |-> IF n = 0 THEN p ELSE follow[f[n - 1]]]
           trail == CHOOSE f : f = Steps(f)
           before == {n \in 0..Cardinality(Records) : trail[n] # NULL}
           g == [k \in 0..Cardinality(Records) |-> At(k)]
<1>1. Along(p, links) = [k \in 1..Cardinality(before) |-> trail[k - 1]]
  BY DEF Along
<1>2. /\ s \in Seq(Records) /\ L \in Nat /\ C \in Nat /\ L <= C
      /\ p = IF L = 0 THEN NULL ELSE s[1]
      /\ \A k \in 1..L : s[k] \in Records
      /\ \A k \in 1..L : links[s[k]] = IF k = L THEN NULL ELSE s[k + 1]
  BY ListCounts DEF Chained
<1> HIDE DEF C, L
<1>3. ASSUME NEW k \in 0..C
      PROVE  At(k) = IF k = 0 THEN p ELSE follow[At(k - 1)]
  <2>1. follow[NULL] = NULL /\ \A r \in Records : follow[r] = links[r]
    OBVIOUS
  <2> HIDE DEF follow
  <2>2. CASE k = 0
    BY <1>2, <2>2 DEF L
  <2>3. CASE k # 0 /\ k - 1 < L
    <3>1. k \in 1..L /\ (k - 1) + 1 = k /\ (k < L <=> k # L)
      BY <1>2, <2>3
    <3>2. At(k - 1) = s[k] /\ s[k] \in Records
      BY <1>2, <2>3, <3>1 DEF L
    <3>3. links[s[k]] = IF k = L THEN NULL ELSE s[k + 1]
      BY <1>2, <3>1
    <3> QED
      BY <2>1, <2>3, <3>1, <3>2, <3>3 DEF L
  <2>4. CASE k # 0 /\ ~(k - 1 < L)
    <3>1. ~(k - 1 < L) /\ ~(k < L)
      BY <1>2, <2>4
    <3> QED
      BY <2>1, <2>4, <3>1 DEF L
  <2> QED
    BY <2>2, <2>3, <2>4
<1>4. g = Steps(g)
  <2>1. ASSUME NEW k \in 0..C PROVE g[k] = Steps(g)[k]
    <3>1. k # 0 => k - 1 \in 0..C
      BY <1>2
    <3> HIDE DEF At, follow
    <3>2. g[k] = At(k) /\ (k # 0 => g[k - 1] = At(k - 1))
      BY <3>1 DEF C
    <3>3. Steps(g)[k] = IF k = 0 THEN p ELSE follow[g[k - 1]]
      BY DEF C
    <3> HIDE DEF g, Steps
    <3> QED
      BY <1>3, <3>2, <3>3
  <2> HIDE DEF At, follow
  <2> QED
    BY <2>1 DEF C
<1> HIDE DEF At, g, follow, Steps
<1>5. trail = Steps(trail)
  BY <1>4, Zenon
<1> HIDE DEF trail
<1>6. ASSUME NEW k \in 0..C
      PROVE  trail[k] = IF k = 0 THEN p ELSE follow[trail[k - 1]]
  <2>1. Steps(trail)[k] = IF k = 0 THEN p ELSE follow[trail[k - 1]]
    BY DEF Steps, C
  <2> QED
    BY <1>5, <2>1
<1> DEFINE Wrong == {k \in 0..C : trail[k] # At(k)}
<1>7. Wrong = {}
  <2> SUFFICES ASSUME Wrong # {} PROVE FALSE
    OBVIOUS
  <2>1. PICK k \in Wrong : \A j \in Wrong : k <= j
    <3>1. Wrong \in SUBSET Nat
      BY <1>2
    <3> HIDE DEF Wrong
    <3> QED
      BY <3>1, LeastExists
  <2>2. k \in 0..C /\ trail[k] # At(k)
    BY <2>1
  <2>3. k # 0 => k - 1 \in 0..C /\ ~(k <= k - 1)
    BY <1>2, <2>2
  <2>4. k # 0 => trail[k - 1] = At(k - 1)
    BY <2>1, <2>3
  <2> QED
    BY <1>3, <1>6, <2>2, <2>4
<1>8. \A k \in 0..C : trail[k] = IF k < L THEN s[k + 1] ELSE NULL
  BY <1>7 DEF At, L
<1>9. before = 0..(L - 1)
  <2>1. \A k \in 0..C : trail[k] # NULL <=> k < L
    <3> TAKE k \in 0..C
    <3>1. k < L => k + 1 \in 1..L
      BY <1>2
    <3> QED
      BY <1>2, <1>8, <3>1
  <2>2. \A k : k \in 0..C /\ k < L <=> k \in 0..(L - 1)
    BY <1>2
  <2> QED
    BY <2>1, <2>2 DEF C
<1>10. Cardinality(before) = L
  <2>1. Cardinality(0..(L - 1)) = IF 0 > L - 1 THEN 0 ELSE (L - 1) - 0 + 1
    <3>1. 0 \in Int /\ L - 1 \in Int
      BY <1>2
    <3> QED
      BY <3>1, FS_Interval
  <2>2. (IF 0 > L - 1 THEN 0 ELSE (L - 1) - 0 + 1) = L
    BY <1>2
  <2> QED
    BY <1>9, <2>1, <2>2
<1>11. \A k \in 1..L : trail[k - 1] = s[k]
  <2> TAKE k \in 1..L
  <2>1. k - 1 \in 0..C /\ k - 1 < L /\ (k - 1) + 1 = k
    BY <1>2
  <2> QED
    BY <1>8, <2>1
<1> HIDE DEF before
<1>12. s = [k \in 1..L |-> s[k]]
  BY <1>2 DEF L
<1> QED
  BY <1>1, <1>10, <1>11, <1>12

Appended(links, e, r) ==
  [x \in Records |-> IF x = r THEN NULL ELSE IF x = e THEN r ELSE links[x]]

(* push links a record that is not in the list behind its end.             *)
LEMMA PushChain ==
  ASSUME NEW p, NEW e, NEW links \in FieldsNext, NEW s, Chained(p, e, links, s),
         NEW r \in Records, r \notin Visited(s)
  PROVE  /\ Chained(IF e = NULL THEN r ELSE p, r, Appended(links, e, r), Append(s, r))
         /\ Visited(Append(s, r)) = Visited(s) \union {r}
<1> DEFINE n == Len(s)
           t == Append(s, r)
           after == Appended(links, e, r)
<1>1. /\ s \in Seq(Records) /\ n \in Nat
      /\ p = IF n = 0 THEN NULL ELSE s[1]
      /\ e = IF n = 0 THEN NULL ELSE s[n]
      /\ \A k \in 1..n : s[k] \in Records /\ s[k] # r
      /\ \A k \in 1..n : links[s[k]] = IF k = n THEN NULL ELSE s[k + 1]
      /\ \A j, k \in 1..n : s[j] = s[k] => j = k
  BY DEF Chained, Visited
<1>2. /\ t \in Seq(Records) /\ Len(t) = n + 1 /\ t[n + 1] = r
      /\ \A k \in 1..n : t[k] = s[k]
  BY <1>1, AppendProperties
<1>3. \A x \in Records : after[x] = IF x = r THEN NULL ELSE IF x = e THEN r ELSE links[x]
  BY DEF Appended
<1> HIDE DEF n, t, after
<1>4. \A k \in 1..n + 1 : k \in 1..n \/ k = n + 1
  BY <1>1
<1>5. \A k \in 1..n + 1 : after[t[k]] = IF k = n + 1 THEN NULL ELSE t[k + 1]
  <2> SUFFICES ASSUME NEW k \in 1..n + 1
      PROVE after[t[k]] = IF k = n + 1 THEN NULL ELSE t[k + 1]
    OBVIOUS
  <2>1. CASE k = n + 1
    BY <1>2, <1>3, <2>1
  <2>2. CASE k \in 1..n /\ k = n
    <3>1. n # 0 /\ n \in 1..n /\ n # n + 1 /\ t[k] = s[n] /\ s[n] = e
      BY <1>1, <1>2, <2>2
    <3> QED
      BY <1>1, <1>2, <1>3, <2>2, <3>1
  <2>3. CASE k \in 1..n /\ k # n
    <3>1. k + 1 \in 1..n /\ n \in 1..n /\ n # 0 /\ k # n + 1
      BY <1>1, <2>3
    <3>2. s[k] # e
      BY <1>1, <2>3, <3>1
    <3>3. links[s[k]] = s[k + 1] /\ t[k] = s[k] /\ t[k + 1] = s[k + 1]
      BY <1>1, <1>2, <2>3, <3>1
    <3> QED
      BY <1>1, <1>3, <2>3, <3>1, <3>2, <3>3
  <2> QED
    BY <1>4, <2>1, <2>2, <2>3
<1>6. \A j, k \in 1..n + 1 : t[j] = t[k] => j = k
  BY <1>1, <1>2, <1>4
<1>7. (IF e = NULL THEN r ELSE p) = IF n + 1 = 0 THEN NULL ELSE t[1]
  <2>1. n # 0 => 1 \in 1..n /\ n \in 1..n
    BY <1>1
  <2>2. e = NULL <=> n = 0
    BY <1>1, <2>1
  <2>3. n + 1 # 0 /\ (n = 0 => n + 1 = 1)
    BY <1>1
  <2> QED
    BY <1>1, <1>2, <2>1, <2>2, <2>3
<1>8. r = IF n + 1 = 0 THEN NULL ELSE t[n + 1]
  BY <1>1, <1>2
<1>9. Chained(IF e = NULL THEN r ELSE p, r, after, t)
  BY <1>2, <1>5, <1>6, <1>7, <1>8 DEF Chained
<1>10. Visited(t) = Visited(s) \union {r}
  <2>1. ASSUME NEW k \in 1..n PROVE k \in 1..n + 1
    BY <1>1
  <2>2. n + 1 \in 1..n + 1
    BY <1>1
  <2>3. Visited(s) = {s[k] : k \in 1..n} /\ Visited(t) = {t[k] : k \in 1..n + 1}
    BY <1>2 DEF Visited, n
  <2> QED
    BY <1>2, <1>4, <2>1, <2>2, <2>3
<1> QED
  BY <1>9, <1>10 DEF after, t

OnTop(r, s) == <<r>> \o s
Before(links, p, r) == [links EXCEPT ![r] = p]

(* push_on_top links it before the start.                                  *)
LEMMA TopChain ==
  ASSUME NEW p, NEW e, NEW links \in FieldsNext, NEW s, Chained(p, e, links, s),
         NEW r \in Records, r \notin Visited(s)
  PROVE  /\ Chained(r, IF p = NULL THEN r ELSE e, Before(links, p, r), OnTop(r, s))
         /\ Visited(OnTop(r, s)) = Visited(s) \union {r}
<1> DEFINE n == Len(s)
           t == <<r>> \o s
           after == Before(links, p, r)
<1>1. /\ s \in Seq(Records) /\ n \in Nat
      /\ p = IF n = 0 THEN NULL ELSE s[1]
      /\ e = IF n = 0 THEN NULL ELSE s[n]
      /\ \A k \in 1..n : s[k] \in Records /\ s[k] # r
      /\ \A k \in 1..n : links[s[k]] = IF k = n THEN NULL ELSE s[k + 1]
      /\ \A j, k \in 1..n : s[j] = s[k] => j = k
  BY DEF Chained, Visited
<1>2. /\ t \in Seq(Records) /\ Len(t) = n + 1 /\ t[1] = r
      /\ \A k \in 1..n + 1 : k # 1 => t[k] = s[k - 1]
  <2>1. <<r>> \in Seq(Records) /\ Len(<<r>>) = 1 /\ <<r>>[1] = r
    OBVIOUS
  <2>2. /\ t \in Seq(Records) /\ Len(t) = 1 + n
        /\ \A i \in 1..1 + n : t[i] = IF i <= 1 THEN <<r>>[i] ELSE s[i - 1]
    BY <1>1, <2>1, ConcatProperties
  <2> HIDE DEF t, n
  <2>3. 1 + n = n + 1 /\ 1 \in 1..1 + n
    BY <1>1
  <2>4. \A k \in 1..n + 1 : k # 1 => ~(k <= 1)
    OBVIOUS
  <2> QED
    BY <2>1, <2>2, <2>3, <2>4
<1>3. \A x \in Records : after[x] = IF x = r THEN p ELSE links[x]
  BY DEF FieldsNext, Before
<1> HIDE DEF n, t, after
<1>4. \A k \in 1..n + 1 : k = 1 \/ (k # 1 /\ k - 1 \in 1..n /\ (k - 1) + 1 = k)
  BY <1>1
<1>5. \A k \in 1..n + 1 : after[t[k]] = IF k = n + 1 THEN NULL ELSE t[k + 1]
  <2> SUFFICES ASSUME NEW k \in 1..n + 1
      PROVE after[t[k]] = IF k = n + 1 THEN NULL ELSE t[k + 1]
    OBVIOUS
  <2>1. CASE k = 1
    <3>1. n # 0 => 1 + 1 \in 1..n + 1 /\ 1 + 1 # 1 /\ (1 + 1) - 1 = 1 /\ 1 # n + 1
      BY <1>1
    <3>2. n = 0 => 1 = n + 1
      OBVIOUS
    <3> QED
      BY <1>1, <1>2, <1>3, <2>1, <3>1, <3>2
  <2>2. CASE k # 1
    <3>1. k - 1 \in 1..n /\ (k - 1) + 1 = k /\ t[k] = s[k - 1]
      BY <1>2, <1>4, <2>2
    <3>2. after[t[k]] = IF k - 1 = n THEN NULL ELSE s[k]
      BY <1>1, <1>3, <3>1
    <3>3. k = n + 1 <=> k - 1 = n
      BY <1>1
    <3>4. k # n + 1 => k + 1 \in 1..n + 1 /\ k + 1 # 1 /\ (k + 1) - 1 = k
      BY <1>1
    <3>5. k # n + 1 => t[k + 1] = s[k]
      BY <1>2, <3>4
    <3> QED
      BY <3>2, <3>3, <3>5
  <2> QED
    BY <2>1, <2>2
<1>6. \A j, k \in 1..n + 1 : t[j] = t[k] => j = k
  <2> SUFFICES ASSUME NEW j \in 1..n + 1, NEW k \in 1..n + 1, t[j] = t[k] PROVE j = k
    OBVIOUS
  <2>1. j = 1 \/ (j - 1 \in 1..n /\ t[j] = s[j - 1] /\ s[j - 1] # r)
    BY <1>1, <1>2, <1>4
  <2>2. k = 1 \/ (k - 1 \in 1..n /\ t[k] = s[k - 1] /\ s[k - 1] # r)
    BY <1>1, <1>2, <1>4
  <2>3. j - 1 = k - 1 => j = k
    OBVIOUS
  <2> QED
    BY <1>1, <1>2, <2>1, <2>2, <2>3
<1>7. r = IF n + 1 = 0 THEN NULL ELSE t[1]
  BY <1>1, <1>2
<1>8. (IF p = NULL THEN r ELSE e) = IF n + 1 = 0 THEN NULL ELSE t[n + 1]
  <2>1. n # 0 => 1 \in 1..n /\ n \in 1..n /\ n + 1 \in 1..n + 1 /\ n + 1 # 1 /\ (n + 1) - 1 = n
    BY <1>1
  <2>2. p = NULL <=> n = 0
    BY <1>1, <2>1
  <2>3. n + 1 # 0 /\ (n = 0 => n + 1 = 1)
    BY <1>1
  <2> QED
    BY <1>1, <1>2, <2>1, <2>2, <2>3
<1>9. Chained(r, IF p = NULL THEN r ELSE e, after, t)
  BY <1>2, <1>5, <1>6, <1>7, <1>8 DEF Chained
<1>10. Visited(t) = Visited(s) \union {r}
  <2>1. ASSUME NEW k \in 1..n PROVE k + 1 \in 1..n + 1 /\ t[k + 1] = s[k]
    <3>1. k + 1 \in 1..n + 1 /\ k + 1 # 1 /\ (k + 1) - 1 = k
      BY <1>1
    <3> QED
      BY <1>2, <3>1
  <2>2. 1 \in 1..n + 1
    BY <1>1
  <2>3. Visited(s) = {s[k] : k \in 1..n} /\ Visited(t) = {t[k] : k \in 1..n + 1}
    BY <1>2 DEF Visited, n
  <2>4. \A k \in 1..n + 1 : k = 1 \/ t[k] \in Visited(s)
    BY <1>2, <1>4, <2>3
  <2> QED
    BY <1>2, <2>1, <2>2, <2>3, <2>4
<1> QED
  BY <1>9, <1>10 DEF after, t, OnTop

(* pop follows the link of the first record.                               *)
LEMMA PopChain ==
  ASSUME NEW p, NEW e, NEW links \in FieldsNext, NEW s, Chained(p, e, links, s), p # NULL
  PROVE  /\ s # <<>> /\ p = s[1] /\ p \in Visited(s) /\ p \in Records
         /\ Chained(links[p], IF links[p] = NULL THEN NULL ELSE e, links, Tail(s))
         /\ Visited(Tail(s)) = Visited(s) \ {p}
<1> DEFINE n == Len(s)
           t == Tail(s)
<1>1. /\ s \in Seq(Records) /\ n \in Nat /\ n # 0 /\ s # <<>> /\ p = s[1]
      /\ e = s[n]
      /\ \A k \in 1..n : s[k] \in Records
      /\ \A k \in 1..n : links[s[k]] = IF k = n THEN NULL ELSE s[k + 1]
      /\ \A j, k \in 1..n : s[j] = s[k] => j = k
  BY DEF Chained
<1>2. /\ t \in Seq(Records) /\ Len(t) = n - 1
      /\ \A k \in 1..n - 1 : t[k] = s[k + 1]
  BY <1>1, HeadTailProperties
<1>3. Visited(s) = {s[k] : k \in 1..n} /\ Visited(t) = {t[k] : k \in 1..n - 1}
  BY <1>2 DEF Visited
<1> HIDE DEF n, t
<1>4. 1 \in 1..n /\ n \in 1..n /\ p \in Records /\ p \in Visited(s)
  BY <1>1, <1>3
<1>5. \A k \in 1..n - 1 : links[t[k]] = IF k = n - 1 THEN NULL ELSE t[k + 1]
  <2> SUFFICES ASSUME NEW k \in 1..n - 1
      PROVE links[t[k]] = IF k = n - 1 THEN NULL ELSE t[k + 1]
    OBVIOUS
  <2>1. k + 1 \in 1..n /\ (k = n - 1 <=> k + 1 = n)
        /\ (k # n - 1 => k + 1 \in 1..n - 1)
    BY <1>1
  <2>2. links[s[k + 1]] = IF k + 1 = n THEN NULL ELSE s[(k + 1) + 1]
    BY <1>1, <2>1
  <2> QED
    BY <1>2, <2>1, <2>2
<1>6. \A j, k \in 1..n - 1 : t[j] = t[k] => j = k
  <2> SUFFICES ASSUME NEW j \in 1..n - 1, NEW k \in 1..n - 1, t[j] = t[k] PROVE j = k
    OBVIOUS
  <2>1. j + 1 \in 1..n /\ k + 1 \in 1..n /\ (j + 1 = k + 1 => j = k)
    BY <1>1
  <2>2. s[j + 1] = s[k + 1]
    BY <1>2
  <2> QED
    BY <1>1, <2>1, <2>2
<1>7. links[p] = IF n - 1 = 0 THEN NULL ELSE t[1]
  <2>1. links[s[1]] = IF 1 = n THEN NULL ELSE s[1 + 1]
    BY <1>1, <1>4
  <2>2. n # 1 => 1 \in 1..n - 1
    BY <1>1
  <2>3. n - 1 = 0 <=> 1 = n
    BY <1>1
  <2> QED
    BY <1>1, <1>2, <2>1, <2>2, <2>3
<1>8. (IF links[p] = NULL THEN NULL ELSE e) = IF n - 1 = 0 THEN NULL ELSE t[n - 1]
  <2>1. n - 1 # 0 => 1 \in 1..n - 1 /\ 1 + 1 \in 1..n /\ n - 1 \in 1..n - 1 /\ (n - 1) + 1 = n
    BY <1>1
  <2>2. n - 1 # 0 => t[1] # NULL /\ t[n - 1] = e
    BY <1>1, <1>2, <2>1
  <2> QED
    BY <1>7, <2>2
<1>9. Chained(links[p], IF links[p] = NULL THEN NULL ELSE e, links, t)
  BY <1>2, <1>5, <1>6, <1>7, <1>8 DEF Chained
<1>10. Visited(t) = Visited(s) \ {p}
  <2>1. \A k \in 1..n - 1 : k + 1 \in 1..n /\ k + 1 # 1
    BY <1>1
  <2>2. \A k \in 1..n : k # 1 => k - 1 \in 1..n - 1 /\ (k - 1) + 1 = k
    BY <1>1
  <2>3. ASSUME NEW k \in 1..n - 1 PROVE t[k] \in Visited(s) /\ t[k] # p
    BY <1>1, <1>2, <1>3, <1>4, <2>1
  <2>4. ASSUME NEW k \in 1..n, s[k] # p PROVE s[k] \in Visited(t)
    <3>1. k - 1 \in 1..n - 1 /\ (k - 1) + 1 = k
      BY <1>1, <2>2, <2>4
    <3>2. t[k - 1] = s[k]
      BY <1>2, <3>1
    <3> QED
      BY <1>3, <3>1, <3>2
  <2> QED
    BY <1>3, <2>3, <2>4
<1> QED
  BY <1>1, <1>4, <1>9, <1>10 DEF t
-----------------------------------------------------------------------------
(* The data of a list of records, and what a write and a pop do to it.     *)
Contents(d, s) == [i \in DOMAIN s |-> d[s[i]]]

Put(d, r, v) == [d EXCEPT ![r] = v]

LEMMA ContentsAre ==
  ASSUME NEW d \in [Records -> Data], NEW s \in Seq(Records)
  PROVE  /\ Contents(d, s) \in Seq(Data) /\ Len(Contents(d, s)) = Len(s)
         /\ \A k \in 1..Len(s) : Contents(d, s)[k] = d[s[k]]
<1>1. DOMAIN s = 1..Len(s) /\ Len(s) \in Nat /\ \A k \in 1..Len(s) : s[k] \in Records
  OBVIOUS
<1>2. \A k \in 1..Len(s) : d[s[k]] \in Data
  BY <1>1
<1> QED
  BY <1>1, <1>2 DEF Contents

LEMMA ContentsAppend ==
  ASSUME NEW d \in [Records -> Data], NEW s \in Seq(Records),
         NEW r \in Records, r \notin Visited(s), NEW v \in Data
  PROVE  Contents(Put(d, r, v), Append(s, r)) = Append(Contents(d, s), v)
<1> DEFINE n == Len(s)
           w == Put(d, r, v)
           t == Append(s, r)
           a == Contents(d, s)
           b == Contents(w, t)
           c == Append(a, v)
<1>1. /\ w \in [Records -> Data] /\ w[r] = v /\ \A x \in Records : x # r => w[x] = d[x]
      /\ n \in Nat
  BY DEF Put
<1>2. \A k \in 1..n : s[k] \in Records /\ s[k] # r
  BY DEF Visited
<1>3. /\ t \in Seq(Records) /\ Len(t) = n + 1 /\ t[n + 1] = r
      /\ \A k \in 1..n : t[k] = s[k]
  BY AppendProperties
<1>4. a \in Seq(Data) /\ Len(a) = n /\ \A k \in 1..n : a[k] = d[s[k]]
  BY ContentsAre
<1> HIDE DEF w, t
<1>5. b \in Seq(Data) /\ Len(b) = n + 1 /\ \A k \in 1..n + 1 : b[k] = w[t[k]]
  BY <1>1, <1>3, ContentsAre
<1> HIDE DEF n, a, b
<1>6. /\ c \in Seq(Data) /\ Len(c) = n + 1 /\ c[n + 1] = v
      /\ \A k \in 1..n : c[k] = a[k]
  BY <1>4, AppendProperties
<1> HIDE DEF c
<1>7. \A k \in 1..n + 1 : b[k] = c[k]
  <2> SUFFICES ASSUME NEW k \in 1..n + 1 PROVE b[k] = c[k]
    OBVIOUS
  <2>1. k \in 1..n \/ k = n + 1
    BY <1>1
  <2>2. CASE k \in 1..n
    <3>1. b[k] = w[t[k]] /\ t[k] = s[k] /\ s[k] # r /\ s[k] \in Records
      BY ONLY <1>1, <1>2, <1>3, <1>5, <2>2
    <3>2. w[s[k]] = d[s[k]] /\ c[k] = a[k] /\ a[k] = d[s[k]]
      BY ONLY <1>1, <1>4, <1>6, <2>2, <3>1
    <3> QED
      BY ONLY <3>1, <3>2
  <2>3. CASE k = n + 1
    BY <1>1, <1>3, <1>5, <1>6, <2>3
  <2> QED
    BY <2>1, <2>2, <2>3
<1>8. b = c
  BY <1>5, <1>6, <1>7, SeqEqual
<1> QED
  BY <1>8 DEF a, b, c, w, t

LEMMA ContentsTop ==
  ASSUME NEW d \in [Records -> Data], NEW s \in Seq(Records),
         NEW r \in Records, r \notin Visited(s), NEW v \in Data
  PROVE  Contents(Put(d, r, v), OnTop(r, s)) = OnTop(v, Contents(d, s))
<1> DEFINE n == Len(s)
           w == Put(d, r, v)
           t == <<r>> \o s
           a == Contents(d, s)
           b == Contents(w, t)
           c == <<v>> \o a
<1>1. /\ w \in [Records -> Data] /\ w[r] = v /\ \A x \in Records : x # r => w[x] = d[x]
      /\ n \in Nat
  BY DEF Put
<1>2. \A k \in 1..n : s[k] \in Records /\ s[k] # r
  BY DEF Visited
<1>3. /\ t \in Seq(Records) /\ Len(t) = 1 + n
      /\ \A i \in 1..1 + n : t[i] = IF i <= 1 THEN <<r>>[i] ELSE s[i - 1]
  <2>1. <<r>> \in Seq(Records) /\ Len(<<r>>) = 1
    OBVIOUS
  <2> QED
    BY <2>1, ConcatProperties
<1>4. a \in Seq(Data) /\ Len(a) = n /\ \A k \in 1..n : a[k] = d[s[k]]
  BY ContentsAre
<1> HIDE DEF w, t
<1>5. b \in Seq(Data) /\ Len(b) = 1 + n /\ \A k \in 1..1 + n : b[k] = w[t[k]]
  BY <1>1, <1>3, ContentsAre
<1> HIDE DEF n, a, b
<1>6. /\ c \in Seq(Data) /\ Len(c) = 1 + n
      /\ \A i \in 1..1 + n : c[i] = IF i <= 1 THEN <<v>>[i] ELSE a[i - 1]
  <2>1. <<v>> \in Seq(Data) /\ Len(<<v>>) = 1
    OBVIOUS
  <2> QED
    BY <1>4, <2>1, ConcatProperties
<1> HIDE DEF c
<1>7. \A k \in 1..1 + n : b[k] = c[k]
  <2> SUFFICES ASSUME NEW k \in 1..1 + n PROVE b[k] = c[k]
    OBVIOUS
  <2>1. CASE k = 1
    <3>1. t[k] = r /\ c[k] = v
      BY <1>3, <1>6, <2>1
    <3> QED
      BY <1>1, <1>5, <3>1
  <2>2. CASE k # 1
    <3>1. k - 1 \in 1..n /\ ~(k <= 1)
      BY <1>1, <2>2
    <3>2. t[k] = s[k - 1] /\ c[k] = a[k - 1]
      BY <1>3, <1>6, <3>1
    <3> QED
      BY <1>1, <1>2, <1>4, <1>5, <3>1, <3>2
  <2> QED
    BY <2>1, <2>2
<1>8. b = c
  BY <1>5, <1>6, <1>7, SeqEqual
<1> QED
  BY <1>8 DEF a, b, c, w, t, OnTop

LEMMA ContentsPop ==
  ASSUME NEW d \in [Records -> Data], NEW s \in Seq(Records), s # <<>>
  PROVE  /\ Contents(d, s) # <<>> /\ Head(Contents(d, s)) = d[s[1]]
         /\ Tail(Contents(d, s)) = Contents(d, Tail(s))
<1> DEFINE n == Len(s)
           t == Tail(s)
           a == Contents(d, s)
           b == Contents(d, t)
           c == Tail(a)
<1>1. /\ t \in Seq(Records) /\ Len(t) = n - 1 /\ n \in Nat /\ n # 0
      /\ \A k \in 1..n - 1 : t[k] = s[k + 1]
  BY HeadTailProperties
<1>2. a \in Seq(Data) /\ Len(a) = n /\ \A k \in 1..n : a[k] = d[s[k]]
  BY ContentsAre
<1> HIDE DEF t
<1>3. b \in Seq(Data) /\ Len(b) = n - 1 /\ \A k \in 1..n - 1 : b[k] = d[t[k]]
  BY <1>1, ContentsAre
<1> HIDE DEF n, a, b
<1>4. a # <<>> /\ Head(a) = a[1]
  BY <1>1, <1>2
<1>5. /\ c \in Seq(Data) /\ Len(c) = n - 1
      /\ \A k \in 1..n - 1 : c[k] = a[k + 1]
  BY <1>2, <1>4, HeadTailProperties
<1> HIDE DEF c
<1>6. \A k \in 1..n - 1 : b[k] = c[k]
  <2> SUFFICES ASSUME NEW k \in 1..n - 1 PROVE b[k] = c[k]
    OBVIOUS
  <2>1. k + 1 \in 1..n
    BY <1>1
  <2>2. b[k] = d[t[k]] /\ t[k] = s[k + 1]
    BY <1>1, <1>3
  <2>3. c[k] = a[k + 1] /\ a[k + 1] = d[s[k + 1]]
    BY <1>2, <1>5, <2>1
  <2> QED
    BY <2>2, <2>3
<1>7. b = c
  BY <1>3, <1>5, <1>6, SeqEqual
<1>8. a[1] = d[s[1]]
  BY <1>1, <1>2
<1> QED
  BY <1>4, <1>7, <1>8 DEF a, b, c, t
-----------------------------------------------------------------------------
(* The invariant: there is a list of the records that are held.            *)
FifoInv ==
  /\ FifoTypeOK
  /\ \E s : Chained(first, last, next, s) /\ Visited(s) = held

(* What the refinement mapping of Queue calls content.                     *)
waiting == LET list == List IN [i \in DOMAIN list |-> data[list[i]]]

LEMMA ListIs ==
  ASSUME FifoTypeOK, NEW s, Chained(first, last, next, s)
  PROVE  /\ s \in Seq(Records) /\ data \in [Records -> Data] /\ next \in FieldsNext
         /\ List = s /\ waiting = Contents(data, s)
<1>1. s \in Seq(Records) /\ data \in [Records -> Data] /\ next \in FieldsNext
  BY DEF Chained, FifoTypeOK, FieldsNext
<1>2. List = s
  BY <1>1, AlongIs DEF List
<1> QED
  BY <1>1, <1>2 DEF waiting, Contents

LEMMA NextListIs ==
  ASSUME FifoTypeOK', NEW s, Chained(first', last', next', s)
  PROVE  List' = s /\ waiting' = Contents(data', s)
<1>1. next' \in FieldsNext
  BY DEF FifoTypeOK, FieldsNext
<1>2. List' = s
  BY <1>1, AlongIs DEF List
<1> QED
  BY <1>2 DEF waiting, Contents

LEMMA FifoStart == FifoInit => FifoInv /\ waiting = <<>> /\ popped = Nothing
<1> SUFFICES ASSUME FifoInit PROVE FifoInv /\ waiting = <<>> /\ popped = Nothing
  OBVIOUS
<1>1. FifoTypeOK
  BY DEF FifoInit, FifoTypeOK
<1>2. Chained(first, last, next, <<>>) /\ Visited(<<>>) = held
  BY DEF FifoInit, Chained, Visited
<1>3. waiting = Contents(data, <<>>)
  BY <1>1, <1>2, ListIs
<1>4. Contents(data, <<>>) \in Seq(Data) /\ Len(Contents(data, <<>>)) = 0
  <2>1. <<>> \in Seq(Records) /\ Len(<<>>) = 0 /\ data \in [Records -> Data]
    BY DEF FifoInit
  <2> QED
    BY <2>1, ContentsAre
<1> QED
  BY <1>1, <1>2, <1>3, <1>4 DEF FifoInv, FifoInit

LEMMA PushStep ==
  ASSUME FifoInv, NEW d \in Data, Push(d)
  PROVE  FifoInv' /\ waiting' = Append(waiting, d) /\ popped' = popped
<1>1. PICK r \in Records \ held :
        /\ held' = held \union {r}
        /\ data' = [data EXCEPT ![r] = d]
        /\ next' = Appended(next, last, r)
        /\ last' = r
        /\ first' = IF last = NULL THEN r ELSE first
        /\ popped' = popped
  BY DEF Push, Appended
<1>2. PICK s : Chained(first, last, next, s) /\ Visited(s) = held
  BY DEF FifoInv
<1>3. /\ FifoTypeOK /\ s \in Seq(Records) /\ data \in [Records -> Data] /\ next \in FieldsNext
      /\ waiting = Contents(data, s)
  BY <1>2, ListIs DEF FifoInv
<1>4. Chained(first', last', next', Append(s, r)) /\ Visited(Append(s, r)) = held'
  BY <1>1, <1>2, <1>3, PushChain
<1>5. FifoTypeOK'
  <2>1. next' \in [Records -> Records \union {NULL}]
    BY <1>1, <1>3 DEF Appended, FieldsNext
  <2> QED
    BY <1>1, <1>3, <2>1 DEF FifoTypeOK
<1>6. waiting' = Append(waiting, d)
  <2>1. r \in Records /\ r \notin Visited(s)
    BY <1>1, <1>2
  <2>2. Contents(Put(data, r, d), Append(s, r)) = Append(Contents(data, s), d)
    BY <1>3, <2>1, ContentsAppend
  <2>3. waiting' = Contents(data', Append(s, r))
    <3>1. PICK t : t = Append(s, r)
      OBVIOUS
    <3>2. Chained(first', last', next', t)
      BY <1>4, <3>1
    <3>3. waiting' = Contents(data', t)
      BY ONLY <1>5, <3>2, NextListIs
    <3> QED
      BY <3>1, <3>3
  <2> QED
    BY <1>1, <1>3, <2>2, <2>3 DEF Put
<1> QED
  BY <1>1, <1>4, <1>5, <1>6 DEF FifoInv

LEMMA TopStep ==
  ASSUME FifoInv, NEW d \in Data, PushOnTop(d)
  PROVE  FifoInv' /\ waiting' = <<d>> \o waiting /\ popped' = popped
<1>1. PICK r \in Records \ held :
        /\ held' = held \union {r}
        /\ data' = [data EXCEPT ![r] = d]
        /\ next' = Before(next, first, r)
        /\ first' = r
        /\ last' = IF first = NULL THEN r ELSE last
        /\ popped' = popped
  BY DEF PushOnTop, Before
<1>2. PICK s : Chained(first, last, next, s) /\ Visited(s) = held
  BY DEF FifoInv
<1>3. /\ FifoTypeOK /\ s \in Seq(Records) /\ data \in [Records -> Data] /\ next \in FieldsNext
      /\ waiting = Contents(data, s)
  BY <1>2, ListIs DEF FifoInv
<1>4. Chained(first', last', next', OnTop(r, s)) /\ Visited(OnTop(r, s)) = held'
  <2>1. r \in Records /\ r \notin Visited(s)
    BY <1>1, <1>2
  <2> QED
    BY <1>1, <1>2, <1>3, <2>1, TopChain
<1>5. FifoTypeOK'
  <2>1. next' \in [Records -> Records \union {NULL}]
    BY <1>1, <1>3 DEF FifoTypeOK, Before
  <2> QED
    BY <1>1, <1>3, <2>1 DEF FifoTypeOK
<1>6. waiting' = <<d>> \o waiting
  <2>1. r \in Records /\ r \notin Visited(s)
    BY <1>1, <1>2
  <2>2. Contents(Put(data, r, d), OnTop(r, s)) = OnTop(d, Contents(data, s))
    BY <1>3, <2>1, ContentsTop
  <2>3. waiting' = Contents(data', OnTop(r, s))
    BY ONLY <1>4, <1>5, NextListIs
  <2> QED
    BY <1>1, <1>3, <2>2, <2>3 DEF OnTop, Put
<1> QED
  BY <1>1, <1>4, <1>5, <1>6 DEF FifoInv

LEMMA PopStep ==
  ASSUME FifoInv, PopFirst
  PROVE  /\ FifoInv' /\ waiting # <<>>
         /\ popped' = Head(waiting) /\ waiting' = Tail(waiting)
<1>1. /\ first # NULL /\ popped' = data[first] /\ first' = next[first]
      /\ held' = held \ {first}
      /\ last' = IF next[first] = NULL THEN NULL ELSE last
      /\ next' = next /\ data' = data
  BY DEF PopFirst
<1>2. PICK s : Chained(first, last, next, s) /\ Visited(s) = held
  BY DEF FifoInv
<1>3. /\ FifoTypeOK /\ s \in Seq(Records) /\ data \in [Records -> Data] /\ next \in FieldsNext
      /\ waiting = Contents(data, s)
  BY <1>2, ListIs DEF FifoInv
<1>4. /\ s # <<>> /\ first = s[1] /\ first \in Records
      /\ Chained(first', last', next', Tail(s)) /\ Visited(Tail(s)) = held'
  BY <1>1, <1>2, <1>3, PopChain
<1>5. FifoTypeOK'
  BY <1>1, <1>3, <1>4 DEF FifoTypeOK
<1>6. /\ waiting # <<>> /\ Head(waiting) = data[first]
      /\ Tail(waiting) = Contents(data, Tail(s))
  BY <1>3, <1>4, ContentsPop
<1>7. waiting' = Tail(waiting)
  BY <1>1, <1>4, <1>5, <1>6, NextListIs
<1> QED
  BY <1>1, <1>4, <1>5, <1>6, <1>7 DEF FifoInv

(* An empty list has no first record.                                      *)
LEMMA NothingWaits ==
  ASSUME FifoInv, first = NULL
  PROVE  waiting = <<>>
<1>1. PICK s : Chained(first, last, next, s)
  BY DEF FifoInv
<1>2. s \in Seq(Records) /\ data \in [Records -> Data] /\ waiting = Contents(data, s)
  BY <1>1, ListIs DEF FifoInv
<1>3. Len(s) = 0
  <2>1. Len(s) \in Nat /\ (Len(s) # 0 => 1 \in 1..Len(s))
    BY <1>2
  <2> QED
    BY <1>1, <2>1 DEF Chained
<1>4. waiting \in Seq(Data) /\ Len(waiting) = 0
  BY <1>2, <1>3, ContentsAre
<1> QED
  BY <1>4

LEMMA EmptyStep ==
  ASSUME FifoInv, Empty
  PROVE  FifoInv' /\ waiting' = <<>> /\ popped' = popped
<1>1. /\ held' = held \ {List[i] : i \in DOMAIN List}
      /\ first' = NULL /\ last' = NULL
      /\ next' = next /\ data' = data /\ popped' = popped
  BY DEF Empty
<1>2. PICK s : Chained(first, last, next, s) /\ Visited(s) = held
  BY DEF FifoInv
<1>3. FifoTypeOK /\ s \in Seq(Records) /\ List = s
  BY <1>2, ListIs DEF FifoInv
<1>4. held' = {}
  <2>1. DOMAIN s = 1..Len(s)
    BY <1>3
  <2> QED
    BY <1>1, <1>2, <1>3, <2>1 DEF Visited
<1>5. Chained(first', last', next', <<>>) /\ Visited(<<>>) = held'
  BY <1>1, <1>4 DEF Chained, Visited
<1>6. FifoTypeOK'
  BY <1>1, <1>3, <1>4 DEF FifoTypeOK
<1>7. waiting' = Contents(data', <<>>)
  BY <1>5, <1>6, NextListIs
<1>8. Contents(data', <<>>) \in Seq(Data) /\ Len(Contents(data', <<>>)) = 0
  <2>1. <<>> \in Seq(Records) /\ Len(<<>>) = 0 /\ data' \in [Records -> Data]
    BY <1>6 DEF FifoTypeOK
  <2> QED
    BY <2>1, ContentsAre
<1> QED
  BY <1>1, <1>5, <1>6, <1>7, <1>8 DEF FifoInv

LEMMA FifoStep ==
  FifoInv /\ [FifoNext]_fifoVars => FifoInv' /\ [Queue!Next]_<<waiting, popped>>
<1> SUFFICES ASSUME FifoInv, [FifoNext]_fifoVars
             PROVE  FifoInv' /\ [Queue!Next]_<<waiting, popped>>
  OBVIOUS
<1>1. ASSUME NEW d \in Data, Push(d) PROVE FifoInv' /\ Queue!Push(d)
  BY <1>1, PushStep DEF Queue!Push, waiting
<1>2. ASSUME NEW d \in Data, PushOnTop(d) PROVE FifoInv' /\ Queue!PushOnTop(d)
  BY <1>2, TopStep DEF Queue!PushOnTop, waiting
<1>3. ASSUME PopFirst PROVE FifoInv' /\ Queue!Pop
  BY <1>3, PopStep DEF Queue!Pop, waiting
<1>4. ASSUME PopNothing PROVE FifoInv' /\ Queue!Pop
  <2>1. /\ first = NULL /\ popped' = Nothing
        /\ UNCHANGED <<first, last, next, data, held>>
    BY <1>4 DEF PopNothing
  <2>2. waiting = <<>> /\ waiting' = waiting
    BY <2>1, NothingWaits DEF waiting, List
  <2>3. FifoInv'
    BY <2>1 DEF FifoInv, FifoTypeOK
  <2> QED
    BY <2>1, <2>2, <2>3 DEF Queue!Pop, waiting
<1>5. ASSUME Empty PROVE FifoInv' /\ Queue!Empty
  BY <1>5, EmptyStep DEF Queue!Empty, waiting
<1>6. ASSUME UNCHANGED fifoVars PROVE FifoInv' /\ UNCHANGED <<waiting, popped>>
  BY <1>6 DEF fifoVars, FifoInv, FifoTypeOK, waiting, List
<1> QED
  BY <1>1, <1>2, <1>3, <1>4, <1>5, <1>6 DEF FifoNext, Queue!Next

LEMMA FifoInvIs == FifoInv => FifoTypeOK /\ ListIsMemory
<1> SUFFICES ASSUME FifoInv PROVE FifoTypeOK /\ ListIsMemory
  OBVIOUS
<1>1. PICK s : Chained(first, last, next, s) /\ Visited(s) = held
  BY DEF FifoInv
<1>2. FifoTypeOK /\ s \in Seq(Records) /\ List = s
  BY <1>1, ListIs DEF FifoInv
<1>3. DOMAIN s = 1..Len(s) /\ (Len(s) = 0 <=> s = <<>>)
  BY <1>2
<1>4. Cardinality(Visited(s)) = Len(s)
  BY <1>1, ListCounts
<1>5. {s[i] : i \in DOMAIN s} = held
  BY <1>1, <1>3 DEF Visited
<1>6. last = IF s = <<>> THEN NULL ELSE s[Len(s)]
  BY <1>1, <1>3 DEF Chained
<1> QED
  BY <1>1, <1>2, <1>4, <1>5, <1>6 DEF ListIsMemory

(* Whatever is pushed and popped, the list visits every record the FIFO    *)
(* holds, once, and last is its end: no record leaks, none is linked after *)
(* it has been freed, and a push after the list has become empty does not  *)
(* write through a stale last (gosFIFO.h:47-107).                          *)
THEOREM ListIsTheMemory == FifoSpec => [](FifoTypeOK /\ ListIsMemory)
<1>1. FifoSpec => []FifoInv
  BY FifoStart, FifoStep, PTL DEF FifoSpec
<1> QED
  BY <1>1, FifoInvIs, PTL

(* The list is a queue one can also push in front of, for any memory.      *)
THEOREM FifoIsDeque == FifoSpec => ImplementsDeque
<1>1. FifoInit => Queue!Init
  BY FifoStart DEF Queue!Init, waiting
<1>2. FifoSpec => []FifoInv
  BY FifoStart, FifoStep, PTL DEF FifoSpec
<1> QED
  BY <1>1, <1>2, FifoStep, PTL DEF FifoSpec, ImplementsDeque, Queue!Spec, waiting
-----------------------------------------------------------------------------
(* The queue in a ring of cells.                                           *)

LEMMA IncIsCell == \A i \in Cells : Inc(i) \in Cells
BY DEF Inc, Cells

(* The invariant is inductive as it stands: when the queue is full the two *)
(* positions are the same cell, and a push moves both.                     *)
LEMMA RingStep == RingExact /\ [FixedNext]_fixedVars => RingExact'
<1> SUFFICES ASSUME RingExact, [FixedNext]_fixedVars PROVE RingExact'
  OBVIOUS
<1> USE DEF RingExact, Cells
<1>1. ASSUME NEW v \in Values, PushFull(v) PROVE RingExact'
  <2>1. iPush = iPop
    BY <1>1 DEF PushFull
  <2>2. iPop' = iPush' /\ iPush' \in Cells
    BY <1>1, <2>1 DEF PushFull, Inc
  <2> QED
    BY <1>1, <2>2 DEF PushFull
<1>2. ASSUME NEW v \in Values, PushRoom(v) PROVE RingExact'
  <2>1. iPush' \in Cells /\ iPop' = iPop /\ numElem' = numElem + 1 /\ numElem' \in 0..N
    BY <1>2 DEF PushRoom, Inc
  <2>2. iPush' = iPop' + numElem' \/ iPush' + N = iPop' + numElem'
    BY <1>2, <2>1 DEF PushRoom, Inc
  <2> QED
    BY <1>2, <2>1, <2>2 DEF PushRoom
<1>3. CASE PopFixed
  <2>1. iPop' \in Cells /\ iPush' = iPush /\ numElem' = numElem - 1 /\ numElem' \in 0..N
    BY <1>3 DEF PopFixed, Inc
  <2>2. iPush' = iPop' + numElem' \/ iPush' + N = iPop' + numElem'
    BY <1>3, <2>1 DEF PopFixed, Inc
  <2>3. out' \in Values
    BY <1>3 DEF PopFixed
  <2> QED
    BY <1>3, <2>1, <2>2, <2>3 DEF PopFixed
<1>4. CASE Top \/ FindEmpty \/ Reset
  BY <1>4 DEF Top, FindEmpty, Reset
<1>5. CASE UNCHANGED fixedVars
  BY <1>5 DEF fixedVars
<1> QED
  BY <1>1, <1>2, <1>3, <1>4, <1>5 DEF FixedNext

LEMMA RingInit == FixedInit => RingExact
BY DEF FixedInit, RingExact, Cells

(* The read and the write position are cells whose distance is the number  *)
(* of elements, after any number of turns and for every capacity.          *)
THEOREM PositionsAgree == FixedSpec => []RingExact
BY RingInit, RingStep, PTL DEF FixedSpec
-----------------------------------------------------------------------------
(* The n elements from position p on of an array b, and what a step does   *)
(* to them.                                                                *)
Cell(p, k) == IF p + k - 1 < N THEN p + k - 1 ELSE p + k - 1 - N

Elements(b, p, n) == [k \in 1..n |-> b[Cell(p, k)]]

LEMMA ElementsAreSeq ==
  ASSUME NEW b \in [Cells -> Values], NEW p \in Cells, NEW n \in 0..N
  PROVE  /\ Elements(b, p, n) \in Seq(Values)
         /\ Len(Elements(b, p, n)) = n
         /\ \A k \in 1..n : Elements(b, p, n)[k] = b[Cell(p, k)]
<1>1. \A k \in 1..n : Cell(p, k) \in Cells
  BY DEF Cell, Cells
<1>2. \A k \in 1..n : b[Cell(p, k)] \in Values
  BY <1>1
<1> QED
  BY <1>2 DEF Elements

(* Writing the cell after the last element adds an element.                *)
LEMMA WriteAppends ==
  ASSUME NEW b \in [Cells -> Values], NEW p \in Cells, NEW n \in 0..N - 1,
         NEW c \in Cells, c = p + n \/ c + N = p + n, NEW v \in Values,
         NEW w \in [Cells -> Values],
         w[c] = v, \A i \in Cells : i # c => w[i] = b[i]
  PROVE  Elements(w, p, n + 1) = Append(Elements(b, p, n), v)
<1> DEFINE s == Elements(b, p, n)
           t == Elements(w, p, n + 1)
<1>1. w \in [Cells -> Values] /\ w[c] = v /\ n \in 0..N /\ n + 1 \in 0..N
  OBVIOUS
<1>2. \A k \in 1..n : Cell(p, k) \in Cells /\ Cell(p, k) # c
  BY DEF Cell, Cells
<1>3. \A k \in 1..n : w[Cell(p, k)] = b[Cell(p, k)]
  BY <1>2
<1>4. Cell(p, n + 1) = c
  BY DEF Cell, Cells
<1>5. /\ s \in Seq(Values) /\ Len(s) = n
      /\ \A k \in 1..n : s[k] = b[Cell(p, k)]
  BY <1>1, ElementsAreSeq
<1>6. /\ t \in Seq(Values) /\ Len(t) = n + 1
      /\ \A k \in 1..n + 1 : t[k] = w[Cell(p, k)]
  BY <1>1, ElementsAreSeq
<1> HIDE DEF s, t
<1>7. /\ Append(s, v) \in Seq(Values) /\ Len(Append(s, v)) = n + 1
      /\ \A k \in 1..n : Append(s, v)[k] = s[k]
      /\ Append(s, v)[n + 1] = v
  BY <1>5, AppendProperties
<1>8. ASSUME NEW k \in 1..n + 1 PROVE t[k] = Append(s, v)[k]
  <2>1. CASE k \in 1..n
    BY <2>1, <1>3, <1>5, <1>6, <1>7
  <2>2. CASE k = n + 1
    BY <2>2, <1>1, <1>4, <1>6, <1>7
  <2>3. N \in Nat /\ n \in Nat /\ k \in Nat /\ 1 <= k /\ k <= n + 1
    OBVIOUS
  <2>4. k \in 1..n \/ k = n + 1
    BY <2>3
  <2> QED
    BY <2>1, <2>2, <2>4
<1>9. t = Append(s, v)
  BY <1>6, <1>7, <1>8, SeqEqual
<1> QED
  BY <1>9 DEF s, t

(* Moving the read position drops the oldest element, the one at it.       *)
LEMMA AdvanceDropsOldest ==
  ASSUME NEW b \in [Cells -> Values], NEW p \in Cells, NEW n \in 1..N
  PROVE  /\ Elements(b, p, n) # <<>>
         /\ Head(Elements(b, p, n)) = b[p]
         /\ Tail(Elements(b, p, n)) = Elements(b, Inc(p), n - 1)
<1> DEFINE s == Elements(b, p, n)
           t == Elements(b, Inc(p), n - 1)
<1>1. Inc(p) \in Cells /\ n \in 0..N /\ n - 1 \in 0..N
  BY IncIsCell
<1>2. Cell(p, 1) = p /\ \A k \in 1..n - 1 : Cell(Inc(p), k) = Cell(p, k + 1)
  BY DEF Cell, Cells, Inc
<1>3. /\ s \in Seq(Values) /\ Len(s) = n
      /\ \A k \in 1..n : s[k] = b[Cell(p, k)]
  BY <1>1, ElementsAreSeq
<1>4. /\ t \in Seq(Values) /\ Len(t) = n - 1
      /\ \A k \in 1..n - 1 : t[k] = b[Cell(Inc(p), k)]
  BY <1>1, ElementsAreSeq
<1> HIDE DEF s, t
<1>5. s # <<>> /\ Head(s) = s[1]
  BY <1>3
<1>6. /\ Tail(s) \in Seq(Values) /\ Len(Tail(s)) = n - 1
      /\ \A k \in 1..n - 1 : Tail(s)[k] = s[k + 1]
  BY <1>3, <1>5, HeadTailProperties
<1>7. \A k \in 1..n - 1 : t[k] = Tail(s)[k]
  BY <1>2, <1>3, <1>4, <1>6
<1>8. t = Tail(s)
  BY <1>4, <1>6, <1>7, SeqEqual
<1> QED
  BY <1>2, <1>3, <1>5, <1>8 DEF s, t
-----------------------------------------------------------------------------
(* What the refinement mapping of Window calls content.                    *)
content == [k \in 1..numElem |-> blob[CellOf(k)]]

LEMMA ContentIsElements ==
  /\ content = Elements(blob, iPop, numElem)
  /\ content' = Elements(blob', iPop', numElem')
BY DEF content, Elements, Cell, CellOf

LEMMA WindowInit == FixedInit => Window!Init
<1> SUFFICES ASSUME FixedInit PROVE content = <<>> /\ out = NoValue
  BY DEF Window!Init, content
<1>1. content \in Seq(Values) /\ Len(content) = 0
  BY ContentIsElements, ElementsAreSeq DEF FixedInit, Cells
<1> QED
  BY <1>1 DEF FixedInit

LEMMA WindowStep ==
  RingExact /\ [FixedNext]_fixedVars
    => [Window!Next]_<<content, out>>
<1> SUFFICES ASSUME RingExact, [FixedNext]_fixedVars
             PROVE  [Window!Next]_<<content, out>>
  OBVIOUS
<1>1. /\ blob \in [Cells -> Values] /\ iPop \in Cells /\ numElem \in 0..N
      /\ iPush \in Cells
      /\ iPush = iPop + numElem \/ iPush + N = iPop + numElem
  BY DEF RingExact
<1>2. content \in Seq(Values) /\ Len(content) = numElem
  BY <1>1, ContentIsElements, ElementsAreSeq
<1>3. ASSUME NEW v \in Values, PushRoom(v) PROVE Window!Push(v)
  <2>1. numElem \in 0..N - 1
    BY <1>1, <1>3 DEF PushRoom
  <2>2. content' = Append(content, v)
    <3>1. /\ blob' \in [Cells -> Values] /\ blob'[iPush] = v
          /\ \A i \in Cells : i # iPush => blob'[i] = blob[i]
      BY <1>1, <1>3 DEF PushRoom
    <3>2. Elements(blob', iPop, numElem + 1) = Append(Elements(blob, iPop, numElem), v)
      BY <1>1, <2>1, <3>1, WriteAppends
    <3> QED
      BY <1>3, <3>2, ContentIsElements DEF PushRoom
  <2> QED
    BY <1>2, <1>3, <2>2 DEF Window!Push, content, PushRoom
<1>4. ASSUME NEW v \in Values, PushFull(v) PROVE Window!Push(v)
  <2>1. iPush = iPop /\ numElem = N /\ iPop' = Inc(iPop) /\ numElem' = N
    BY <1>1, <1>4 DEF PushFull, Inc, Cells
  <2>2. Tail(content) = Elements(blob, Inc(iPop), N - 1)
    BY <1>1, <2>1, ContentIsElements, AdvanceDropsOldest
  <2>3. PICK n \in 0..N - 1 : n + 1 = N
    BY FixedFifoAssumption DEF FixedFifoAssumption
  <2>4. /\ blob' \in [Cells -> Values] /\ blob'[iPop] = v
        /\ \A i \in Cells : i # iPop => blob'[i] = blob[i]
    BY <1>1, <1>4, <2>1 DEF PushFull
  <2>5. Elements(blob', Inc(iPop), N) = Append(Tail(content), v)
    <3>1. Inc(iPop) \in Cells /\ n = N - 1
      BY <1>1, <2>3, IncIsCell
    <3>2. iPop = Inc(iPop) + n \/ iPop + N = Inc(iPop) + n
      BY <1>1, <2>3 DEF Inc, Cells
    <3>3. Elements(blob', Inc(iPop), n + 1) = Append(Elements(blob, Inc(iPop), n), v)
      BY <1>1, <2>4, <3>1, <3>2, WriteAppends
    <3> QED
      BY <2>2, <2>3, <3>1, <3>3
  <2>6. content' = Append(Tail(content), v)
    BY <2>1, <2>5, ContentIsElements
  <2> QED
    BY <1>2, <1>4, <2>1, <2>6 DEF Window!Push, content, PushFull
<1>5. ASSUME PopFixed PROVE Window!Pop
  <2>1. numElem \in 1..N
    BY <1>1, <1>5 DEF PopFixed
  <2>2. /\ content # <<>> /\ Head(content) = blob[iPop]
        /\ content' = Tail(content)
    BY <1>1, <1>5, <2>1, ContentIsElements, AdvanceDropsOldest DEF PopFixed
  <2> QED
    BY <1>5, <2>2 DEF Window!Pop, content, PopFixed
<1>6. ASSUME Top PROVE Window!Peek
  <2>1. numElem \in 1..N
    BY <1>1, <1>6 DEF Top
  <2>2. content # <<>> /\ Head(content) = blob[iPop] /\ content' = content
    BY <1>1, <1>6, <2>1, ContentIsElements, AdvanceDropsOldest DEF Top
  <2> QED
    BY <1>6, <2>2 DEF Window!Peek, content, Top
<1>7. ASSUME FindEmpty PROVE Window!Peek
  <2>1. content = <<>> /\ content' = content
    BY <1>2, <1>7, ContentIsElements DEF FindEmpty
  <2> QED
    BY <1>7, <2>1 DEF Window!Peek, content, FindEmpty
<1>8. ASSUME Reset PROVE Window!Clear
  <2>1. content' = Elements(blob, 0, 0)
    BY <1>8, ContentIsElements DEF Reset
  <2>2. content' \in Seq(Values) /\ Len(content') = 0
    BY <1>1, <2>1, ElementsAreSeq, FixedFifoAssumption DEF FixedFifoAssumption, Cells
  <2>3. content' = <<>>
    BY <2>2
  <2> QED
    BY <1>8, <2>3 DEF Window!Clear, content, Reset
<1>9. ASSUME UNCHANGED fixedVars PROVE UNCHANGED <<content, out>>
  BY <1>9, ContentIsElements DEF fixedVars
<1> QED
  BY <1>3, <1>4, <1>5, <1>6, <1>7, <1>8, <1>9 DEF FixedNext, Window!Next

(* For every capacity, the array with its two positions and its counter is *)
(* a queue of the last N elements pushed: a push into a full queue loses   *)
(* exactly the oldest element.                                             *)
THEOREM FixedIsLossyQueue == FixedSpec => ImplementsLossyQueue
<1>1. FixedSpec => []RingExact
  BY PositionsAgree
<1> QED
  BY <1>1, WindowInit, WindowStep, PTL
     DEF FixedSpec, ImplementsLossyQueue, Window!Spec, content
-----------------------------------------------------------------------------
(* Both queues keep their structure, whatever the order of pushes and pops *)
(* (gosFIFO.h, gosFIFOFixedSize.h).                                        *)
THEOREM QueuesAreSound == FifoSpec /\ FixedSpec => []QueuesSound
BY ListIsTheMemory, PositionsAgree, PTL DEF QueuesSound
==============================================================================
