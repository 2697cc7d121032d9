---------------------------- MODULE Ready_proofs -----------------------------
(*****************************************************************************)
(* What is_ready says, for any graph of assets: a resource that is ready     *)
(* stands on resources that are ready, at any depth.  To the invariant of    *)
(* Res2_proofs the proof adds Trust: no counter of children that are not     *)
(* ready is too low.                                                         *)
(*****************************************************************************)
EXTENDS Res2_proofs

(* Children that are not ready.                                            *)

Flags(m, l) == [i \in 1..Len(l) |-> IF IsReady(m, l[i]) THEN 1 ELSE 0]

Unready(m, l) == Occurrences(Flags(m, l), 0)

LEMMA UnreadyIs ==
  ASSUME NEW m, NEW l \in Seq(Res)
  PROVE  /\ Flags(m, l) \in Seq({0, 1}) /\ Len(Flags(m, l)) = Len(l)
         /\ Unready(m, l) = Cardinality({i \in 1..Len(l) : ~IsReady(m, l[i])})
         /\ IsFiniteSet({i \in 1..Len(l) : ~IsReady(m, l[i])}) /\ Unready(m, l) \in Nat
<1>1. PICK n \in Nat : n = Len(l)
  OBVIOUS
<1>2. PICK s : s = Flags(m, l)
  OBVIOUS
<1>3. s = [i \in 1..n |-> IF IsReady(m, l[i]) THEN 1 ELSE 0]
  BY <1>1, <1>2 DEF Flags
<1>4. s \in Seq({0, 1}) /\ Len(s) = n /\ DOMAIN s = 1..n
  <2>1. s \in [1..n -> {0, 1}]
    BY <1>3
  <2> QED
    BY <2>1
<1>5. {i \in DOMAIN s : s[i] = 0} = {i \in 1..n : ~IsReady(m, l[i])}
  BY <1>3, <1>4
<1>6. Occurrences(s, 0) \in Nat /\ IsFiniteSet({i \in DOMAIN s : s[i] = 0})
  BY <1>4, OccurrencesType
<1>7. Occurrences(s, 0) = Cardinality({i \in DOMAIN s : s[i] = 0})
  BY DEF Occurrences
<1> QED
  BY <1>1, <1>2, <1>4, <1>5, <1>6, <1>7 DEF Unready

LEMMA AllReady ==
  ASSUME NEW m, NEW l \in Seq(Res)
  PROVE  /\ Unready(m, l) = 0 => \A c \in Range(l) : IsReady(m, c)
         /\ (\A c \in Range(l) : IsReady(m, c)) => Unready(m, l) = 0
<1> DEFINE I == {i \in 1..Len(l) : ~IsReady(m, l[i])}
<1>1. Unready(m, l) = Cardinality(I) /\ IsFiniteSet(I)
  BY UnreadyIs
<1>2. (Cardinality(I) = 0) <=> (I = {})
  BY <1>1, FS_EmptySet
<1>3. I = {} => \A c \in Range(l) : IsReady(m, c)
  BY DEF Range
<1>4. (\A c \in Range(l) : IsReady(m, c)) => I = {}
  BY DEF Range
<1> HIDE DEF I
<1> QED
  BY <1>1, <1>2, <1>3, <1>4

(* What becomes ready leaves fewer that are not.                           *)
LEMMA UnreadyFalls ==
  ASSUME NEW m, NEW n, NEW l \in Seq(Res), \A x \in Range(l) : IsReady(m, x) => IsReady(n, x)
  PROVE  /\ Unready(n, l) <= Unready(m, l)
         /\ \A c \in Res : ~IsReady(m, c) /\ IsReady(n, c) =>
              Unready(n, l) + Occurrences(l, c) <= Unready(m, l)
<1> DEFINE I(v) == {i \in 1..Len(l) : ~IsReady(v, l[i])}
           O(c) == {i \in DOMAIN l : l[i] = c}
<1>1. \A v : Unready(v, l) = Cardinality(I(v)) /\ IsFiniteSet(I(v)) /\ Unready(v, l) \in Nat
  BY UnreadyIs
<1>2. \A i \in 1..Len(l) : l[i] \in Range(l)
  BY DEF Range
<1>3. I(n) \subseteq I(m)
  BY <1>2
<1>4. Unready(n, l) <= Unready(m, l)
  <2> HIDE DEF I
  <2> QED
    BY <1>1, <1>3, FS_Subset
<1>5. ASSUME NEW c \in Res, ~IsReady(m, c), IsReady(n, c)
      PROVE  Unready(n, l) + Occurrences(l, c) <= Unready(m, l)
  <2>1. Occurrences(l, c) = Cardinality(O(c)) /\ IsFiniteSet(O(c)) /\ Occurrences(l, c) \in Nat
    BY OccurrencesType DEF Occurrences
  <2>2. O(c) \subseteq I(m) /\ I(n) \intersect O(c) = {}
    BY <1>5
  <2> HIDE DEF I, O
  <2>3. /\ Cardinality(I(n) \union O(c)) = Cardinality(I(n)) + Cardinality(O(c)) - Cardinality(I(n) \intersect O(c))
        /\ IsFiniteSet(I(n) \union O(c))
    BY <1>1, <2>1, FS_Union
  <2>4. Cardinality(I(n) \intersect O(c)) = 0
    BY <2>2, FS_EmptySet
  <2>5. Cardinality(I(n) \union O(c)) <= Cardinality(I(m))
    BY <1>1, <1>3, <2>2, FS_Subset
  <2>6. Cardinality(I(n)) \in Nat /\ Cardinality(O(c)) \in Nat /\ Cardinality(I(m)) \in Nat
    BY <1>1, <2>1, FS_CardinalityType
  <2> QED
    BY <1>1, <2>1, <2>3, <2>4, <2>5, <2>6
<1> QED
  BY <1>4, <1>5

LEMMA UnreadyFront ==
  ASSUME NEW m, NEW l \in Seq(Res), NEW c \in Res
  PROVE  Unready(m, <<c>> \o l) = Unready(m, l) + (IF IsReady(m, c) THEN 0 ELSE 1)
<1>1. PICK t : t = <<c>> \o l
  OBVIOUS
<1>2. PICK n \in Nat : n = Len(l)
  OBVIOUS
<1>3. t \in Seq(Res) /\ Len(t) = n + 1 /\ t[1] = c /\ \A k \in 1..n : t[k + 1] = l[k]
  <2> DEFINE o == <<c>>
  <2>1. o \in Seq(Res) /\ Len(o) = 1 /\ o[1] = c
    OBVIOUS
  <2> HIDE DEF o
  <2>2. /\ o \o l \in Seq(Res) /\ Len(o \o l) = Len(o) + Len(l)
        /\ \A k \in 1..Len(o) + Len(l) : (o \o l)[k] = IF k <= Len(o) THEN o[k] ELSE l[k - Len(o)]
    BY <2>1, ConcatProperties
  <2>3. t = o \o l
    BY <1>1 DEF o
  <2> QED
    BY <2>1, <2>2, <2>3, <1>2
<1>4. /\ Flags(m, t) \in Seq({0, 1}) /\ Len(Flags(m, t)) = n + 1
      /\ Flags(m, l) \in Seq({0, 1}) /\ Len(Flags(m, l)) = n
  BY <1>2, <1>3, UnreadyIs
<1>5. /\ \A k \in 1..n + 1 : Flags(m, t)[k] = IF IsReady(m, t[k]) THEN 1 ELSE 0
      /\ \A k \in 1..n : Flags(m, l)[k] = IF IsReady(m, l[k]) THEN 1 ELSE 0
  BY <1>2, <1>3 DEF Flags
<1>6. Without(Flags(m, l), Flags(m, t), 1)
  <2>1. \A k \in 1..n : ~(k < 1) /\ k + 1 \in 1..n + 1
    OBVIOUS
  <2> QED
    BY <2>1, <1>3, <1>4, <1>5 DEF Without
<1>7. 1 \in 1..Len(Flags(m, t)) /\ Flags(m, t)[1] = IF IsReady(m, c) THEN 1 ELSE 0
  BY <1>3, <1>4, <1>5
<1>8. Occurrences(Flags(m, t), 0) = Occurrences(Flags(m, l), 0) + (IF Flags(m, t)[1] = 0 THEN 1 ELSE 0)
  BY <1>4, <1>6, <1>7, OneLess
<1> QED
  BY <1>1, <1>7, <1>8 DEF Unready

LEMMA UnreadyRemoved ==
  ASSUME NEW m, NEW l \in Seq(Res), NEW c \in Range(l)
  PROVE  /\ RemoveFirst(l, c) \in Seq(Res)
         /\ Unready(m, l) = Unready(m, RemoveFirst(l, c)) + (IF IsReady(m, c) THEN 0 ELSE 1)
<1>1. PICK i \in 1..Len(l) : l[i] = c /\ RemoveFirst(l, c) = RemoveAt(l, i)
  BY FirstIs
<1>2. PICK t : t = RemoveAt(l, i)
  OBVIOUS
<1>3. PICK n \in Nat : n = Len(l)
  OBVIOUS
<1>4. t \in Seq(Res) /\ Len(t) = n - 1 /\ \A k \in 1..n - 1 : t[k] = IF k < i THEN l[k] ELSE l[k + 1]
  BY <1>2, <1>3, Cut
<1>5. /\ Flags(m, l) \in Seq({0, 1}) /\ Len(Flags(m, l)) = n
      /\ Flags(m, t) \in Seq({0, 1}) /\ Len(Flags(m, t)) = n - 1
  BY <1>3, <1>4, UnreadyIs
<1>6. /\ \A k \in 1..n : Flags(m, l)[k] = IF IsReady(m, l[k]) THEN 1 ELSE 0
      /\ \A k \in 1..n - 1 : Flags(m, t)[k] = IF IsReady(m, t[k]) THEN 1 ELSE 0
  BY <1>3, <1>4 DEF Flags
<1>7. Without(Flags(m, t), Flags(m, l), i)
  <2>1. \A k \in 1..n - 1 : k \in 1..n /\ k + 1 \in 1..n
    BY <1>3
  <2>2. n = (n - 1) + 1
    BY <1>3
  <2> QED
    BY <2>1, <2>2, <1>4, <1>5, <1>6 DEF Without
<1>8. i \in 1..Len(Flags(m, l)) /\ Flags(m, l)[i] = IF IsReady(m, c) THEN 1 ELSE 0
  BY <1>1, <1>3, <1>5, <1>6
<1>9. Occurrences(Flags(m, l), 0) = Occurrences(Flags(m, t), 0) + (IF Flags(m, l)[i] = 0 THEN 1 ELSE 0)
  BY <1>5, <1>7, <1>8, OneLess
<1> QED
  BY <1>1, <1>2, <1>4, <1>8, <1>9 DEF Unready

LEMMA UnreadyNone ==
  ASSUME NEW m
  PROVE  Unready(m, <<>>) = 0
<1>1. \A c \in Range(<<>>) : IsReady(m, c)
  BY DEF Range
<1>2. <<>> \in Seq(Res)
  OBVIOUS
<1> QED
  BY <1>1, <1>2, AllReady

(* The counters cover the children that are not ready, and D[p] calls that *)
(* will take one off the counter of p.                                     *)
Owes(m, D) == \A p \in Res : Unready(m, m[p].figli) + D[p] <= m[p].notReady

Fades(m, n) == SameButCounts(m, n) /\ \A q \in Res : n[q].notReady <= m[q].notReady

Pays(f, d) ==
  \A m \in Memory, base \in [Res -> Nat], D \in [Res -> Nat], p \in Res :
    Sound(m, base) /\ Owes(m, D) /\ D[p] > 0 /\ Layer[p] >= d
      => Owes(f[<<m, p>>], Fewer(D, p)) /\ Fades(m, f[<<m, p>>])

Plus(D, l) == [q \in Res |-> D[q] + Occurrences(l, q)]

LEMMA PlusIs ==
  ASSUME NEW D \in [Res -> Nat], NEW l \in Seq(Res)
  PROVE  Plus(D, l) \in [Res -> Nat] /\ \A q \in Res : Plus(D, l)[q] = D[q] + Occurrences(l, q)
<1>1. \A q \in Res : Occurrences(l, q) \in Nat
  BY OccurrencesType
<1> QED
  BY <1>1 DEF Plus

LEMMA FewerPlus ==
  ASSUME NEW D \in [Res -> Nat], NEW l \in Seq(Res), NEW c \in Range(l)
  PROVE  /\ c \in Res /\ Plus(D, l)[c] > 0
         /\ Fewer(Plus(D, l), c) = Plus(D, RemoveFirst(l, c))
<1>1. c \in Res
  BY DEF Range
<1>2. /\ RemoveFirst(l, c) \in Seq(Res)
      /\ \A x : Occurrences(l, x) = Occurrences(RemoveFirst(l, c), x) + (IF c = x THEN 1 ELSE 0)
  BY FirstRemoved
<1>3. PICK t \in Seq(Res) : t = RemoveFirst(l, c)
  BY <1>2
<1>4. /\ Plus(D, l) \in [Res -> Nat] /\ \A q \in Res : Plus(D, l)[q] = D[q] + Occurrences(l, q)
      /\ Plus(D, t) \in [Res -> Nat] /\ \A q \in Res : Plus(D, t)[q] = D[q] + Occurrences(t, q)
  BY PlusIs
<1>5. \A q \in Res : Occurrences(l, q) \in Nat /\ Occurrences(t, q) \in Nat /\ D[q] \in Nat
  BY OccurrencesType
<1>6. Plus(D, l)[c] > 0
  <2>1. Occurrences(l, c) = Occurrences(t, c) + 1
    BY <1>2, <1>3
  <2> QED
    BY <2>1, <1>1, <1>4, <1>5
<1>7. PICK b : b = Fewer(Plus(D, l), c)
  OBVIOUS
<1>8. b \in [Res -> Nat] /\ \A x \in Res : b[x] = IF x = c THEN Plus(D, l)[x] - 1 ELSE Plus(D, l)[x]
  BY <1>1, <1>4, <1>6, <1>7, FewerIs
<1>9. ASSUME NEW x \in Res PROVE b[x] = Plus(D, t)[x]
  <2>1. Occurrences(l, x) = Occurrences(t, x) + (IF c = x THEN 1 ELSE 0)
    BY <1>2, <1>3
  <2> QED
    BY <2>1, <1>4, <1>5, <1>8
<1>10. b = Plus(D, t)
  BY <1>4, <1>8, <1>9
<1> QED
  BY <1>1, <1>3, <1>6, <1>7, <1>10

LEMMA FadesTrans ==
  ASSUME NEW m \in Memory, NEW n \in Memory, NEW v \in Memory, Fades(m, n), Fades(n, v)
  PROVE  Fades(m, v)
<1>1. SameButCounts(m, v)
  BY SameButCountsTrans DEF Fades
<1>2. \A q \in Res : m[q].notReady \in Int /\ n[q].notReady \in Int /\ v[q].notReady \in Int
  BY GraphAssumption DEF Memory, ResDescr
<1> QED
  BY <1>1, <1>2 DEF Fades

LEMMA PayAll ==
  ASSUME NEW f, Informs(f), NEW d, Pays(f, d),
         NEW m, NEW base, Sound(m, base), NEW D \in [Res -> Nat],
         NEW l \in Seq(Res), \A c \in Range(l) : Layer[c] >= d, Owes(m, Plus(D, l))
  PROVE  Owes(Each(f, m, l), D) /\ Fades(m, Each(f, m, l))
<1> DEFINE N == Len(l)
           rest(k) == SubSeq(l, k + 1, N)
           P == [k \in 0..N |-> {x \in Memory : Sound(x, base) /\ Fades(m, x) /\ Owes(x, Plus(D, rest(k)))}]
<1>1. m \in Memory /\ base \in [Res -> Nat] /\ N \in Nat
  BY DEF Sound
<1>2. Fades(m, m)
  <2>1. \A q \in Res : m[q].notReady \in Int
    BY <1>1, GraphAssumption DEF Memory, ResDescr
  <2> QED
    BY <1>1, <2>1 DEF Fades, SameButCounts
<1>3. rest(0) = l /\ \A k \in 0..N : rest(k) \in Seq(Res)
  OBVIOUS
<1>4. m \in P[0]
  <2>1. 0 \in 0..N
    BY <1>1
  <2> HIDE DEF rest, N
  <2>2. Owes(m, Plus(D, rest(0)))
    BY <1>3
  <2> QED
    BY <2>1, <2>2, <1>1, <1>2
<1>5. ASSUME NEW k \in 1..N, NEW x \in Memory, x \in P[k - 1]
      PROVE  f[<<x, l[k]>>] \in P[k]
  <2>1. k - 1 \in 0..N /\ k \in 0..N /\ (k - 1) + 1 = k /\ l[k] \in Res
    BY <1>1
  <2>2. Sound(x, base) /\ Fades(m, x) /\ Owes(x, Plus(D, rest(k - 1)))
    BY <1>5, <2>1
  <2>3. PICK s \in Seq(Res) : s = rest(k - 1)
    BY <1>3, <2>1
  <2>4. l[k] \in Range(s) /\ RemoveFirst(s, l[k]) = rest(k)
    BY <2>1, <2>3, HeadRemoved
  <2>5. PICK c : c = l[k]
    OBVIOUS
  <2>6. PICK y : y = f[<<x, c>>]
    OBVIOUS
  <2> HIDE DEF P, rest, N
  <2>7. Plus(D, s)[c] > 0 /\ Fewer(Plus(D, s), c) = Plus(D, rest(k)) /\ Plus(D, s) \in [Res -> Nat]
    <3>1. c \in Range(s) /\ RemoveFirst(s, c) = rest(k)
      BY <2>4, <2>5
    <3>2. Plus(D, s)[c] > 0 /\ Fewer(Plus(D, s), c) = Plus(D, RemoveFirst(s, c))
      BY <3>1, FewerPlus
    <3>3. Plus(D, s) \in [Res -> Nat]
      BY PlusIs
    <3> QED
      BY <3>1, <3>2, <3>3
  <2>8. Layer[c] >= d /\ c \in Res
    BY <2>1, <2>5 DEF Range, N
  <2>9. Owes(y, Fewer(Plus(D, s), c)) /\ Fades(x, y)
    BY <1>1, <2>2, <2>3, <2>6, <2>7, <2>8 DEF Pays
  <2>10. SameButCounts(x, y)
    BY <2>9 DEF Fades
  <2>11. y \in Memory /\ Sound(y, base)
    BY <2>2, <2>10, SoundSame DEF SameButCounts
  <2>12. Fades(m, y)
    BY <1>1, <2>2, <2>9, <2>11, FadesTrans
  <2> QED
    BY <2>1, <2>5, <2>6, <2>7, <2>9, <2>11, <2>12 DEF P
<1>6. \A k \in 1..N, x \in Memory : x \in P[k - 1] => f[<<x, l[k]>>] \in P[k]
  BY <1>5
<1>7. ASSUME NEW x \in P[N] PROVE Owes(x, D) /\ Fades(m, x)
  <2>1. Fades(m, x) /\ Owes(x, Plus(D, rest(N))) /\ x \in Memory
    BY <1>1, <1>7
  <2>2. rest(N) = <<>>
    BY <1>1
  <2>3. <<>> \in Seq(Res) /\ Range(<<>>) = {}
    BY DEF Range
  <2>4. ASSUME NEW q \in Res PROVE Occurrences(<<>>, q) = 0
    <3>1. Occurrences(<<>>, q) \in Nat /\ (Occurrences(<<>>, q) > 0 <=> q \in Range(<<>>))
      BY <2>3, OccurrencesType
    <3> QED
      BY <3>1, <2>3
  <2>5. \A q \in Res : Plus(D, <<>>)[q] = D[q]
    BY <2>4 DEF Plus
  <2> QED
    BY <2>1, <2>2, <2>5 DEF Owes
<1>8. Maps(f, Memory, Res)
  BY InformsMaps
<1> HIDE DEF P
<1>9. Each(f, m, l) \in P[N]
  BY <1>1, <1>4, <1>6, <1>8, EachKeeps DEF N
<1> QED
  BY <1>7, <1>9

(* A resource that counts a child less pays one debt, and incurs those of  *)
(* its parents when it becomes ready.                                      *)
LEMMA PayStep ==
  ASSUME NEW f, Informs(f), NEW d, d \in Int, Pays(f, d)
  PROVE  \A m \in Memory, base \in [Res -> Nat], D \in [Res -> Nat], p \in Res :
           Sound(m, base) /\ Owes(m, D) /\ D[p] > 0 /\ Layer[p] >= d - 1
             => /\ Owes(OnChildrenBecomeReady(m, p, f), Fewer(D, p))
                /\ Fades(m, OnChildrenBecomeReady(m, p, f))
<1> SUFFICES ASSUME NEW m \in Memory, NEW base \in [Res -> Nat], NEW D \in [Res -> Nat], NEW p \in Res,
                    Sound(m, base), Owes(m, D), D[p] > 0, Layer[p] >= d - 1
             PROVE  /\ Owes(OnChildrenBecomeReady(m, p, f), Fewer(D, p))
                    /\ Fades(m, OnChildrenBecomeReady(m, p, f))
  OBVIOUS
<1>1. PICK n : n = [m EXCEPT ![p].notReady = (@ + (NotReadyMod - 1)) % NotReadyMod]
  OBVIOUS
<1>2. SameButCounts(m, n)
  <2>1. NotReadyMod - 1 \in Nat
    BY GraphAssumption
  <2> QED
    BY <2>1, <1>1, Counted
<1>3. \A q \in Res : /\ Unready(m, m[q].figli) \in Nat
                     /\ m[q].notReady \in 0..NotReadyMod - 1 /\ m[q].notReady \in Nat
                     /\ m[q].figli \in Seq(Res) /\ m[q].padri \in Seq(Res)
  <2>1. \A q \in Res : /\ m[q].notReady \in 0..NotReadyMod - 1 /\ m[q].notReady \in Nat
                       /\ m[q].figli \in Seq(Res) /\ m[q].padri \in Seq(Res)
    BY GraphAssumption DEF Memory, ResDescr
  <2> QED
    BY <2>1, UnreadyIs
<1>4. m[p].notReady > 0 /\ D[p] \in Nat
  <2>1. Unready(m, m[p].figli) + D[p] <= m[p].notReady
    BY DEF Owes
  <2> QED
    BY <2>1, <1>3
<1>5. \A q \in Res : n[q].notReady = IF q = p THEN m[q].notReady - 1 ELSE m[q].notReady
  <2>1. PICK v \in 1..NotReadyMod - 1 : v = m[p].notReady
    BY <1>3, <1>4
  <2>2. (v + (NotReadyMod - 1)) % NotReadyMod = v - 1
    BY GraphAssumption
  <2>3. n[p].notReady = v - 1 /\ \A q \in Res : q # p => n[q] = m[q]
    BY <1>1, <2>1, <2>2 DEF Memory, ResDescr
  <2> QED
    BY <2>1, <2>3
<1>6. Fades(m, n)
  BY <1>2, <1>3, <1>5 DEF Fades
<1>7. OnChildrenBecomeReady(m, p, f) =
        IF ~IsReady(m, p) /\ IsReady(n, p) THEN Each(f, n, n[p].padri) ELSE n
  <2>1. m[p].notReady + (NotReadyMod - 1) = m[p].notReady + NotReadyMod - 1
    BY <1>3, GraphAssumption
  <2> QED
    BY <1>1, <2>1 DEF OnChildrenBecomeReady
<1>8. PICK E : E = Fewer(D, p)
  OBVIOUS
<1>9. E \in [Res -> Nat] /\ \A x \in Res : E[x] = IF x = p THEN D[x] - 1 ELSE D[x]
  BY <1>8, FewerIs
<1>10. /\ n \in Memory /\ Sound(n, base)
       /\ \A q \in Res : n[q].figli = m[q].figli /\ n[q].padri = m[q].padri /\ n[q].status = m[q].status
  BY <1>2, SoundSame DEF SameButCounts
<1>11. \A x \in Res : IsReady(m, x) => IsReady(n, x)
  BY <1>3, <1>4, <1>5, <1>10 DEF IsReady
<1>12. ASSUME NEW q \in Res
       PROVE  /\ Unready(n, n[q].figli) <= Unready(m, m[q].figli)
              /\ ~IsReady(m, p) /\ IsReady(n, p) =>
                   Unready(n, n[q].figli) + Occurrences(m[q].figli, p) <= Unready(m, m[q].figli)
              /\ Unready(n, n[q].figli) \in Nat
              /\ Unready(m, m[q].figli) + D[q] <= m[q].notReady /\ D[q] \in Nat
  <2>1. PICK l \in Seq(Res) : l = m[q].figli /\ l = n[q].figli
    BY <1>3, <1>10
  <2>2. \A x \in Range(l) : IsReady(m, x) => IsReady(n, x)
    BY <1>11 DEF Range
  <2>3. /\ Unready(n, l) <= Unready(m, l) /\ Unready(n, l) \in Nat
        /\ ~IsReady(m, p) /\ IsReady(n, p) => Unready(n, l) + Occurrences(l, p) <= Unready(m, l)
    BY <2>2, UnreadyFalls, UnreadyIs
  <2> QED
    BY <2>1, <2>3 DEF Owes
<1>13. CASE ~(~IsReady(m, p) /\ IsReady(n, p))
  <2>1. OnChildrenBecomeReady(m, p, f) = n
    BY <1>7, <1>13
  <2>2. ASSUME NEW q \in Res PROVE Unready(n, n[q].figli) + E[q] <= n[q].notReady
    <3>1. /\ m[q].notReady \in Nat /\ n[q].notReady = IF q = p THEN m[q].notReady - 1 ELSE m[q].notReady
          /\ E[q] = IF q = p THEN D[q] - 1 ELSE D[q]
      BY <1>3, <1>5, <1>9
    <3>2. /\ Unready(n, n[q].figli) <= Unready(m, m[q].figli) /\ Unready(n, n[q].figli) \in Nat
          /\ Unready(m, m[q].figli) + D[q] <= m[q].notReady /\ D[q] \in Nat /\ Unready(m, m[q].figli) \in Nat
      BY <1>3, <1>12
    <3> QED
      BY <3>1, <3>2
  <2> QED
    BY <2>1, <2>2, <1>6, <1>8 DEF Owes
<1>14. CASE ~IsReady(m, p) /\ IsReady(n, p)
  <2>1. PICK l \in Seq(Res) : l = n[p].padri /\ l = m[p].padri
    BY <1>3, <1>10
  <2>2. OnChildrenBecomeReady(m, p, f) = Each(f, n, l)
    BY <1>7, <1>14, <2>1
  <2>3. ASSUME NEW q \in Res PROVE Unready(n, n[q].figli) + Plus(E, l)[q] <= n[q].notReady
    <3>1. Plus(E, l)[q] = E[q] + Occurrences(l, q) /\ Occurrences(l, q) \in Nat
      BY <1>9, PlusIs, OccurrencesType
    <3>2. Occurrences(l, q) <= Occurrences(m[q].figli, p)
      BY <2>1 DEF Sound, ParentsShow
    <3>3. Occurrences(m[q].figli, p) \in Nat
      BY <1>3, OccurrencesType
    <3>4. Unready(n, n[q].figli) + Occurrences(m[q].figli, p) <= Unready(m, m[q].figli)
      BY <1>12, <1>14
    <3>5. /\ m[q].notReady \in Nat /\ n[q].notReady = IF q = p THEN m[q].notReady - 1 ELSE m[q].notReady
          /\ E[q] = IF q = p THEN D[q] - 1 ELSE D[q]
      BY <1>3, <1>5, <1>9
    <3>6. /\ Unready(n, n[q].figli) \in Nat /\ Unready(m, m[q].figli) \in Nat /\ D[q] \in Nat
          /\ Unready(m, m[q].figli) + D[q] <= m[q].notReady
      BY <1>3, <1>12
    <3> QED
      <4>1. PICK o \in Nat : o = Occurrences(l, q)
        BY <3>1
      <4>2. PICK u \in Nat : u = Unready(n, n[q].figli)
        BY <3>6
      <4>3. PICK w \in Nat : w = Unready(m, m[q].figli)
        BY <3>6
      <4>4. u + o <= w
        BY <3>2, <3>3, <3>4, <4>1, <4>2, <4>3
      <4>5. w + D[q] <= m[q].notReady
        BY <3>6, <4>3
      <4>6. u + (E[q] + o) <= n[q].notReady
        <5>1. PICK e \in Nat : e = D[q]
          BY <3>6
        <5>2. PICK v \in Nat : v = m[q].notReady
          BY <3>5
        <5>3. w + e <= v
          BY <4>5, <5>1, <5>2
        <5>4. CASE q = p
          <6>1. E[q] = e - 1 /\ n[q].notReady = v - 1
            BY <5>1, <5>2, <5>4, <3>5
          <6>2. u + ((e - 1) + o) <= v - 1
            BY <4>4, <5>3
          <6> QED
            BY <6>1, <6>2
        <5>5. CASE q # p
          <6>1. E[q] = e /\ n[q].notReady = v
            BY <5>1, <5>2, <5>5, <3>5
          <6>2. u + (e + o) <= v
            BY <4>4, <5>3
          <6> QED
            BY <6>1, <6>2
        <5> QED
          BY <5>4, <5>5
      <4> QED
        BY <4>1, <4>2, <4>6, <3>1
  <2>4. Owes(n, Plus(E, l))
    BY <2>3 DEF Owes
  <2>5. ASSUME NEW c \in Range(l) PROVE Layer[c] >= d
    <3>1. c \in Res /\ c \in Range(n[p].padri)
      BY <2>1 DEF Range
    <3>2. p \in Range(n[c].figli)
      BY <3>1, <1>10, SoundKnows
    <3>3. Layer[p] < Layer[c]
      BY <3>1, <3>2, <1>10 DEF Sound, Layered
    <3>4. Layer[p] \in Int /\ Layer[c] \in Int
      BY <3>1, LayerAssumption, GraphAssumption
    <3> QED
      BY <3>3, <3>4
  <2>6. Owes(Each(f, n, l), E) /\ Fades(n, Each(f, n, l))
    BY <1>9, <1>10, <2>4, <2>5, PayAll
  <2>7. Each(f, n, l) \in Memory
    BY <2>6 DEF Fades, SameButCounts
  <2>8. Fades(m, Each(f, n, l))
    BY <1>6, <1>10, <2>6, <2>7, FadesTrans
  <2> QED
    BY <2>2, <2>6, <2>8, <1>8
<1> QED
  BY <1>13, <1>14

LEMMA InformReadyPays ==
  \A n \in 0..Depth : Pays(InformReady[n], Depth - n)
<1>0. Depth \in Nat /\ Layer \in [Res -> 0..Depth - 1]
  BY GraphAssumption, LayerAssumption
<1> DEFINE G == {n \in 0..Depth : Pays(InformReady[n], Depth - n)}
<1>1. 0 \in G
  <2>1. \A p \in Res : ~(Layer[p] >= Depth - 0)
    BY <1>0
  <2> QED
    BY <2>1, <1>0 DEF Pays
<1>2. ASSUME NEW n \in 1..Depth, n - 1 \in G PROVE n \in G
  <2>1. n \in 0..Depth /\ n # 0 /\ n - 1 \in 0..Depth /\ Depth - (n - 1) \in Int
        /\ (Depth - (n - 1)) - 1 = Depth - n
    BY <1>0
  <2>2. PICK g : g = InformReady[n - 1]
    OBVIOUS
  <2>3. PICK d \in Int : d = Depth - (n - 1)
    BY <2>1
  <2>4. Pays(g, d) /\ Informs(g)
    BY <1>2, <2>1, <2>2, <2>3, InformReadyIs
  <2>5. \A m \in Memory, p \in Res : InformReady[n][<<m, p>>] = OnChildrenBecomeReady(m, p, g)
    <3>1. InformReady[n] = [x \in Memory \X Res |->
                              IF n = 0 THEN x[1] ELSE OnChildrenBecomeReady(x[1], x[2], InformReady[n - 1])]
      BY <2>1, InformReadyIs
    <3>2. InformReady[n] = [x \in Memory \X Res |-> OnChildrenBecomeReady(x[1], x[2], g)]
      BY <3>1, <2>1, <2>2
    <3> QED
      BY <3>2
  <2>6. \A m \in Memory, base \in [Res -> Nat], D \in [Res -> Nat], p \in Res :
           Sound(m, base) /\ Owes(m, D) /\ D[p] > 0 /\ Layer[p] >= d - 1
             => /\ Owes(OnChildrenBecomeReady(m, p, g), Fewer(D, p))
                /\ Fades(m, OnChildrenBecomeReady(m, p, g))
    BY <2>4, PayStep
  <2>7. Pays(InformReady[n], d - 1)
    BY <2>5, <2>6 DEF Pays
  <2> QED
    BY <2>1, <2>3, <2>7
<1>3. \A n \in 1..Depth : n - 1 \in G => n \in G
  BY <1>2
<1>4. \A n \in 0..Depth : n \in G
  <2> HIDE DEF G
  <2> QED
    BY <1>0, <1>1, <1>3, UpTo
<1> QED
  BY <1>4

-----------------------------------------------------------------------------
(* What makes readiness trustworthy: counters that cover the children that *)
(* are not ready, resources T that are on no list, so that adding children *)
(* to them need not be pushed up, and counters with room for another child.*)

Covers(m) == \A p \in Res : Unready(m, m[p].figli) <= m[p].notReady

Unlisted(m, T) == \A t \in T, p \in Res : t \notin Range(m[p].figli)

Room(m, k) ==
  /\ \A s \in Sigs : Known(m, s) => m[s].notReady <= Len(m[s].figli)
  /\ \A a \in Assets : Known(m, a) => m[a].notReady <= k

Blank(m) == \A s \in Sigs : m[s].status = "unloaded" => m[s].figli = <<>>

Honest(m, T, k) == Covers(m) /\ Unlisted(m, T) /\ Room(m, k) /\ Blank(m)

LEMMA NumbersOf ==
  ASSUME NEW m \in Memory, NEW q \in Res
  PROVE  /\ m[q].notReady \in Nat /\ m[q].notReady < NotReadyMod /\ NotReadyMod \in Nat \ {0}
         /\ m[q].figli \in Seq(Res) /\ m[q].padri \in Seq(Res) /\ Unready(m, m[q].figli) \in Nat
<1>1. /\ m[q].notReady \in 0..NotReadyMod - 1 /\ NotReadyMod \in Nat \ {0}
      /\ m[q].figli \in Seq(Res) /\ m[q].padri \in Seq(Res)
  BY GraphAssumption DEF Memory, ResDescr
<1>2. Unready(m, m[q].figli) \in Nat
  BY <1>1, UnreadyIs
<1>3. m[q].notReady \in Nat /\ m[q].notReady < NotReadyMod
  BY <1>1
<1> QED
  BY <1>1, <1>2, <1>3

LEMMA CoversStays ==
  ASSUME NEW m \in Memory, NEW T, NEW k, Honest(m, T, k), NEW n, NEW b, Sound(n, b),
         \A q \in Res : Known(n, q) =>
           /\ n[q].figli = m[q].figli /\ n[q].notReady >= m[q].notReady
           /\ IsReady(m, q) => IsReady(n, q)
  PROVE  Covers(n)
<1>1. n \in Memory
  BY DEF Sound
<1>2. ASSUME NEW p \in Res PROVE Unready(n, n[p].figli) <= n[p].notReady
  <2>0. m[p].notReady \in Nat /\ n[p].notReady \in Nat /\ m[p].figli \in Seq(Res) /\ Unready(m, m[p].figli) \in Nat
    BY <1>1, NumbersOf
  <2>1. CASE ~Known(n, p)
    <3>1. n[p].figli = <<>>
      BY <2>1 DEF Sound, FreeUnused
    <3> QED
      BY <2>0, <3>1, UnreadyNone
  <2>2. CASE Known(n, p)
    <3>1. PICK l \in Seq(Res) : l = m[p].figli /\ l = n[p].figli
      BY <2>0, <2>2
    <3>2. ASSUME NEW x \in Range(l), IsReady(m, x) PROVE IsReady(n, x)
      <4>1. x \in Res /\ x \in Range(n[p].figli)
        BY <3>1 DEF Range
      <4>2. Known(n, x)
        BY <4>1, SoundKnows
      <4> QED
        BY <4>1, <4>2, <3>2
    <3>3. Unready(n, l) <= Unready(m, l) /\ Unready(n, l) \in Nat
      BY <3>2, UnreadyFalls, UnreadyIs
    <3>4. Unready(m, l) <= m[p].notReady
      BY <3>1 DEF Honest, Covers
    <3>5. n[p].notReady >= m[p].notReady /\ Unready(m, l) \in Nat
      BY <2>2, <2>0, <3>1
    <3> QED
      BY <3>1, <3>3, <3>4, <3>5, <2>0
  <2> QED
    BY <2>1, <2>2
<1> QED
  BY <1>2 DEF Covers

LEMMA HonestStays ==
  ASSUME NEW m \in Memory, NEW T, NEW k, k \in Int, Honest(m, T, k), NEW n, NEW b, Sound(n, b), Covers(n),
         \A q \in Res : Known(n, q) =>
           /\ Known(m, q) /\ n[q].figli = m[q].figli /\ n[q].notReady <= m[q].notReady
           /\ n[q].status = "unloaded" => m[q].status = "unloaded"
  PROVE  Honest(n, T, k)
<1>1. n \in Memory /\ Sigs \subseteq Res /\ Assets \subseteq Res
  BY StatusesDiffer DEF Sound
<1>2. \A q \in Res : /\ m[q].notReady \in Nat /\ n[q].notReady \in Nat /\ m[q].figli \in Seq(Res)
                     /\ Len(m[q].figli) \in Nat
  <2>1. \A q \in Res : m[q].notReady \in Nat /\ n[q].notReady \in Nat /\ m[q].figli \in Seq(Res)
    BY <1>1, NumbersOf
  <2> QED
    BY <2>1
<1>3. Unlisted(n, T)
  <2> SUFFICES ASSUME NEW t \in T, NEW p \in Res, t \in Range(n[p].figli) PROVE FALSE
    BY DEF Unlisted
  <2>1. Range(<<>>) = {}
    BY DEF Range
  <2>2. Known(n, p)
    BY <2>1 DEF Sound, FreeUnused
  <2> QED
    BY <2>2 DEF Honest, Unlisted
<1>4. ASSUME NEW s \in Sigs, Known(n, s) PROVE n[s].notReady <= Len(n[s].figli)
  <2>1. s \in Res /\ m[s].notReady <= Len(m[s].figli)
    BY <1>1, <1>4 DEF Honest, Room
  <2> QED
    BY <2>1, <1>2, <1>4
<1>5. ASSUME NEW a \in Assets, Known(n, a) PROVE n[a].notReady <= k
  <2>1. a \in Res /\ m[a].notReady <= k
    BY <1>1, <1>5 DEF Honest, Room
  <2> QED
    BY <2>1, <1>2, <1>5
<1>6. Blank(n)
  <2> SUFFICES ASSUME NEW s \in Sigs, n[s].status = "unloaded" PROVE n[s].figli = <<>>
    BY DEF Blank
  <2>1. Known(n, s) /\ s \in Res
    BY <1>1 DEF Known
  <2> QED
    BY <2>1 DEF Honest, Blank
<1> QED
  BY <1>3, <1>4, <1>5, <1>6 DEF Honest, Room

(* A change that leaves the survivors their children and their counters,   *)
(* and none of them its readiness.                                         *)
LEMMA HonestSame ==
  ASSUME NEW m \in Memory, NEW T, NEW k, k \in Int, Honest(m, T, k), NEW n, NEW b, Sound(n, b),
         \A q \in Res : Known(n, q) =>
           /\ Known(m, q) /\ n[q].figli = m[q].figli /\ n[q].notReady = m[q].notReady
           /\ n[q].status = m[q].status \/ (m[q].status # "ready" /\ n[q].status # "unloaded")
  PROVE  Honest(n, T, k)
<1>1. \A q \in Res : m[q].notReady \in Nat
  BY NumbersOf
<1>2. \A q \in Res : Known(n, q) =>
        /\ n[q].figli = m[q].figli /\ n[q].notReady >= m[q].notReady
        /\ IsReady(m, q) => IsReady(n, q)
  BY <1>1 DEF IsReady
<1>3. Covers(n)
  BY <1>2, CoversStays
<1>4. \A q \in Res : Known(n, q) =>
        /\ Known(m, q) /\ n[q].figli = m[q].figli /\ n[q].notReady <= m[q].notReady
        /\ n[q].status = "unloaded" => m[q].status = "unloaded"
  BY <1>1
<1> QED
  BY <1>3, <1>4, HonestStays

(* A resource that is made has no children and no parents.                 *)
LEMMA HonestNew ==
  ASSUME NEW m, NEW base, Sound(m, base), NEW T, NEW k \in Nat, Honest(m, T, k),
         NEW r \in Res, ~Known(m, r), NEW st, NEW n, NEW b, Sound(n, b),
         n[r] = Reserved(st), \A q \in Res : q # r => n[q] = m[q]
  PROVE  Honest(n, T, k)
<1>1. m \in Memory /\ n \in Memory /\ Sigs \subseteq Res /\ Assets \subseteq Res
  BY StatusesDiffer DEF Sound
<1>2. n[r].figli = <<>> /\ n[r].notReady = 0
  BY DEF Reserved, FreeSlot
<1>3. Len(<<>>) = 0 /\ Range(<<>>) = {}
  BY DEF Range
<1>4. ASSUME NEW p \in Res PROVE Unready(n, n[p].figli) <= n[p].notReady
  <2>0. m[p].notReady \in Nat /\ n[p].notReady \in Nat /\ m[p].figli \in Seq(Res) /\ Unready(m, m[p].figli) \in Nat
    BY <1>1, NumbersOf
  <2>1. CASE p = r
    BY <2>0, <2>1, <1>2, UnreadyNone
  <2>2. CASE p # r
    <3>1. PICK l \in Seq(Res) : l = m[p].figli /\ l = n[p].figli
      BY <2>0, <2>2
    <3>2. ASSUME NEW x \in Range(l), IsReady(m, x) PROVE IsReady(n, x)
      <4>1. x \in Res /\ x \in Range(m[p].figli)
        BY <3>1 DEF Range
      <4>2. Known(m, x)
        BY <4>1, SoundKnows
      <4> QED
        BY <4>1, <4>2, <3>2 DEF IsReady
    <3>3. Unready(n, l) <= Unready(m, l) /\ Unready(n, l) \in Nat /\ Unready(m, l) \in Nat
      BY <3>2, UnreadyFalls, UnreadyIs
    <3>4. Unready(m, l) <= m[p].notReady /\ n[p].notReady = m[p].notReady
      BY <2>2, <3>1 DEF Honest, Covers
    <3> QED
      BY <3>1, <3>3, <3>4, <2>0
  <2> QED
    BY <2>1, <2>2
<1>5. Unlisted(n, T)
  BY <1>2, <1>3 DEF Honest, Unlisted
<1>6. ASSUME NEW s \in Sigs, Known(n, s) PROVE n[s].notReady <= Len(n[s].figli)
  <2>1. s = r \/ (n[s] = m[s] /\ Known(m, s))
    BY <1>1, <1>6 DEF Known
  <2> QED
    BY <2>1, <1>2, <1>3 DEF Honest, Room
<1>7. ASSUME NEW a \in Assets, Known(n, a) PROVE n[a].notReady <= k
  <2>1. a = r \/ (n[a] = m[a] /\ Known(m, a))
    BY <1>1, <1>7 DEF Known
  <2> QED
    BY <2>1, <1>2 DEF Honest, Room
<1>8. Blank(n)
  BY <1>1, <1>2 DEF Honest, Blank
<1> QED
  BY <1>4, <1>5, <1>6, <1>7, <1>8 DEF Honest, Covers, Room

(* change_state(ready) takes one off the counter of each parent.           *)
LEMMA ReadyHonest ==
  ASSUME NEW m, NEW base, Sound(m, base), NEW T, NEW k \in Nat, Honest(m, T, k),
         NEW s \in Res, m[s].status = "loading"
  PROVE  Honest(ChangeState(m, s, "ready"), T, k)
<1> DEFINE D == [q \in Res |-> 0]
<1>1. PICK v : v = [m EXCEPT ![s].status = "ready"]
  OBVIOUS
<1>2. PICK n : n = ChangeState(m, s, "ready")
  OBVIOUS
<1>3. m \in Memory /\ "ready" \in Status /\ Known(m, s) /\ "ready" # "free"
  BY DEF Sound, Status, Known
<1>4. /\ v \in Memory
      /\ \A q \in Res : /\ v[q].status = IF q = s THEN "ready" ELSE m[q].status
                        /\ v[q].figli = m[q].figli /\ v[q].notReady = m[q].notReady
                        /\ v[q].padri = m[q].padri /\ v[q].ref = m[q].ref
  BY <1>1, <1>3 DEF Memory, ResDescr
<1>5. /\ Sound(n, base)
      /\ \A q \in Res : /\ n[q].status = IF q = s THEN "ready" ELSE m[q].status
                        /\ n[q].figli = m[q].figli
  BY <1>2, <1>3, SoundStatus
<1>6. ~IsReady(m, s)
  BY DEF IsReady
<1>7. ASSUME Covers(n), \A q \in Res : n[q].notReady <= m[q].notReady PROVE Honest(n, T, k)
  <2>1. \A q \in Res : Known(n, q) =>
           /\ Known(m, q) /\ n[q].figli = m[q].figli /\ n[q].notReady <= m[q].notReady
           /\ n[q].status = "unloaded" => m[q].status = "unloaded"
    BY <1>5, <1>7, <1>3 DEF Known
  <2> QED
    BY <2>1, <1>3, <1>5, <1>7, HonestStays
<1>8. CASE ~IsReady(v, s)
  <2>1. n = v
    BY <1>1, <1>2, <1>6, <1>8 DEF ChangeState
  <2>2. \A q \in Res : n[q].notReady = m[q].notReady /\ m[q].notReady \in Nat
    BY <1>3, <1>4, <2>1, NumbersOf
  <2>3. \A q \in Res : Known(n, q) => /\ n[q].figli = m[q].figli /\ n[q].notReady >= m[q].notReady
                                      /\ IsReady(m, q) => IsReady(n, q)
    BY <2>2, <1>5, <1>6 DEF IsReady
  <2>4. Covers(n)
    BY <2>3, <1>3, <1>5, CoversStays
  <2>5. \A q \in Res : n[q].notReady <= m[q].notReady
    BY <2>2
  <2> QED
    BY <1>7, <2>4, <2>5, <1>2
<1>9. CASE IsReady(v, s)
  <2>1. PICK l \in Seq(Res) : l = m[s].padri /\ l = v[s].padri
    BY <1>3, <1>4, NumbersOf
  <2>2. n = Each(InformReady[Depth], v, l)
    BY <1>1, <1>2, <1>6, <1>9, <2>1 DEF ChangeState
  <2>3. Sound(v, base)
    <3>1. \A q \in Res : Known(v, q) <=> Known(m, q)
      BY <1>3, <1>4 DEF Known
    <3>2. \A q \in Res : Counts(v, q) = Counts(m, q)
      BY <1>4, SameCounts
    <3>3. RefsExact(v, base) /\ FreeUnused(v, base)
      BY <3>1, <3>2, <1>4 DEF Sound, RefsExact, FreeUnused
    <3>4. ParentsShow(v) /\ Layered(v)
      BY <1>4 DEF Sound, ParentsShow, Layered
    <3> QED
      BY <3>3, <3>4, <1>4 DEF Sound
  <2>4. ASSUME NEW q \in Res PROVE Unready(v, v[q].figli) + Plus(D, l)[q] <= v[q].notReady
    <3>1. PICK f \in Seq(Res) : f = m[q].figli /\ f = v[q].figli
      BY <1>3, <1>4, NumbersOf
    <3>2. \A x \in Range(f) : IsReady(m, x) => IsReady(v, x)
      BY <1>4, <1>9 DEF IsReady, Range
    <3>3. Unready(v, f) + Occurrences(f, s) <= Unready(m, f)
      BY <3>2, <1>6, <1>9, UnreadyFalls
    <3>4. Unready(m, f) <= m[q].notReady /\ Occurrences(l, q) <= Occurrences(f, s)
      BY <3>1, <2>1 DEF Honest, Covers, Sound, ParentsShow
    <3>5. Plus(D, l)[q] = Occurrences(l, q)
      <4>1. D \in [Res -> Nat] /\ D[q] = 0
        OBVIOUS
      <4> HIDE DEF D
      <4>2. Plus(D, l)[q] = D[q] + Occurrences(l, q) /\ Occurrences(l, q) \in Nat
        BY <4>1, PlusIs, OccurrencesType
      <4> QED
        BY <4>1, <4>2
    <3>6. PICK o \in Nat : o = Occurrences(l, q)
      BY OccurrencesType
    <3>7. PICK o2 \in Nat : o2 = Occurrences(f, s)
      BY OccurrencesType
    <3>8. PICK u \in Nat : u = Unready(v, f)
      BY UnreadyIs
    <3>9. PICK u2 \in Nat : u2 = Unready(m, f)
      BY UnreadyIs
    <3>10. PICK x \in Nat : x = m[q].notReady /\ x = v[q].notReady
      BY <1>3, <1>4, NumbersOf
    <3>11. u + o <= x
      BY <3>3, <3>4, <3>6, <3>7, <3>8, <3>9, <3>10
    <3> QED
      BY <3>1, <3>5, <3>6, <3>8, <3>10, <3>11
  <2>5. Owes(v, Plus(D, l)) /\ D \in [Res -> Nat]
    BY <2>4 DEF Owes
  <2>6. PICK g : g = InformReady[Depth]
    OBVIOUS
  <2>7. Informs(g) /\ Pays(g, 0)
    <3>1. Depth \in 0..Depth /\ Depth - Depth = 0
      BY GraphAssumption
    <3> QED
      BY <3>1, <2>6, InformReadyPays, InformReadyIs
  <2>8. \A c \in Range(l) : Layer[c] >= 0
    <3>1. \A c \in Range(l) : c \in Res
      BY DEF Range
    <3> QED
      BY <3>1, LayerAssumption, GraphAssumption
  <2> HIDE DEF D
  <2>9. Owes(Each(g, v, l), D) /\ Fades(v, Each(g, v, l))
    BY <2>3, <2>5, <2>7, <2>8, PayAll
  <2>10. Owes(n, D) /\ Fades(v, n)
    BY <2>2, <2>6, <2>9
  <2>11. Covers(n)
    <3>1. \A q \in Res : Unready(n, n[q].figli) + D[q] <= n[q].notReady /\ D[q] = 0
      BY <2>10 DEF Owes, D
    <3>2. \A q \in Res : Unready(n, n[q].figli) \in Nat
      BY <1>5, NumbersOf DEF Sound
    <3>3. \A q \in Res : Unready(n, n[q].figli) <= n[q].notReady
      BY <3>1, <3>2
    <3> QED
      BY <3>3 DEF Covers
  <2>12. \A q \in Res : n[q].notReady <= m[q].notReady
    BY <2>10, <1>4 DEF Fades
  <2> QED
    BY <1>7, <2>11, <2>12, <1>2
<1> QED
  BY <1>8, <1>9

(* Who can be given a child without its parents hearing of it.             *)
Heedless(m, p) == ~IsReady(m, p) \/ \A q \in Res : p \notin Range(m[q].figli)

LEMMA LinkCounts ==
  ASSUME NEW m, NEW base, Sound(m, base), NEW p \in Res, NEW c \in Res, Known(m, p),
         Layer[c] < Layer[p], Heedless(m, p), m[p].notReady + 1 < NotReadyMod
  PROVE  \A q \in Res : AddChild(m, p, c)[q].notReady =
           IF q = p /\ ~IsReady(m, c) THEN m[q].notReady + 1 ELSE m[q].notReady
<1>0. m \in Memory /\ p # c /\ Depth \in Nat \ {0}
  <2>1. Layer[c] \in Int /\ Layer[p] \in Int
    BY LayerAssumption, GraphAssumption
  <2> QED
    BY <2>1, GraphAssumption DEF Sound
<1>1. PICK f, g : f = <<c>> \o m[p].figli /\ g = <<p>> \o m[c].padri
  OBVIOUS
<1>2. f \in Seq(Res) /\ g \in Seq(Res)
  <2>1. m[p].figli \in Seq(Res) /\ m[c].padri \in Seq(Res)
    BY <1>0, ListsType
  <2> QED
    BY <2>1, <1>1, OneMoreInFront
<1>3. PICK u : u = [m EXCEPT ![p].figli = <<c>> \o @, ![c].padri = <<p>> \o @]
  OBVIOUS
<1>4. u = [m EXCEPT ![p].figli = f, ![c].padri = g]
  BY <1>0, <1>1, <1>3
<1>5. /\ u \in Memory /\ u[p].padri = m[p].padri
      /\ \A q \in Res : u[q].notReady = m[q].notReady /\ u[q].status = m[q].status
  <2>1. \A q \in Res : m[q] \in ResDescr
    BY <1>0 DEF Memory
  <2>2. u \in Memory
    BY <1>0, <1>2, <1>4, <2>1 DEF Memory, ResDescr
  <2>3. /\ u[p].padri = m[p].padri
        /\ \A q \in Res : u[q].notReady = m[q].notReady /\ u[q].status = m[q].status
    BY <1>0, <1>4, <2>1 DEF Memory, ResDescr
  <2> QED
    BY <2>2, <2>3
<1>6. PICK n : n = AddChild(m, p, c)
  OBVIOUS
<1>7. CASE IsReady(m, c)
  <2>1. n = u
    BY <1>3, <1>6, <1>7 DEF AddChild
  <2> QED
    BY <2>1, <1>5, <1>6, <1>7
<1>8. CASE ~IsReady(m, c)
  <2>1. n = InformNotReady[Depth][<<u, p>>]
    BY <1>3, <1>6, <1>8 DEF AddChild
  <2>2. PICK h : h = InformNotReady[Depth - 1]
    OBVIOUS
  <2>3. Depth \in 0..Depth /\ Depth - 1 \in 0..Depth /\ Depth # 0
    BY <1>0
  <2>4. Informs(h)
    BY <2>2, <2>3, InformNotReadyIs
  <2>5. n = OnChildrenBecomeNotReady(u, p, h)
    <3>1. InformNotReady[Depth] = [x \in Memory \X Res |->
            IF Depth = 0 THEN x[1] ELSE OnChildrenBecomeNotReady(x[1], x[2], InformNotReady[Depth - 1])]
      BY <2>3, InformNotReadyIs
    <3>2. InformNotReady[Depth] = [x \in Memory \X Res |-> OnChildrenBecomeNotReady(x[1], x[2], h)]
      BY <3>1, <2>2, <2>3
    <3> QED
      BY <3>2, <2>1, <1>5
  <2>6. PICK v : v = [u EXCEPT ![p].notReady = (@ + 1) % NotReadyMod]
    OBVIOUS
  <2>7. SameButCounts(u, v)
    BY <1>5, <2>6, Counted
  <2>8. \A q \in Res : v[q].notReady = IF q = p THEN m[q].notReady + 1 ELSE m[q].notReady
    <3>1. PICK x \in Nat : x = m[p].notReady /\ x = u[p].notReady /\ x + 1 < NotReadyMod
      BY <1>0, <1>5, NumbersOf
    <3>2. (x + 1) % NotReadyMod = x + 1
      BY <3>1, GraphAssumption
    <3>3. v[p].notReady = x + 1 /\ \A q \in Res : q # p => v[q] = u[q]
      BY <3>1, <3>2, <2>6, <1>5 DEF Memory, ResDescr
    <3> QED
      BY <3>1, <3>3, <1>5
  <2>9. n = v
    <3>1. CASE ~(IsReady(u, p) /\ ~IsReady(v, p))
      BY <3>1, <2>5, <2>6 DEF OnChildrenBecomeNotReady
    <3>2. CASE IsReady(u, p) /\ ~IsReady(v, p)
      <4>1. IsReady(m, p)
        BY <3>2, <1>5 DEF IsReady
      <4>2. m[p].padri = <<>>
        BY <4>1, NoParents DEF Heedless
      <4>3. v[p].padri = <<>> /\ v \in Memory
        BY <4>2, <2>7, <1>5 DEF SameButCounts
      <4>4. n = Each(h, v, <<>>)
        BY <3>2, <4>3, <2>5, <2>6 DEF OnChildrenBecomeNotReady
      <4> QED
        BY <4>3, <4>4, <2>4, InformsMaps, EachOfNone
    <3> QED
      BY <3>1, <3>2
  <2> QED
    BY <2>8, <2>9, <1>6, <1>8
<1> QED
  BY <1>7, <1>8

LEMMA LinkHonest ==
  ASSUME NEW m, NEW base, Sound(m, base), NEW T, NEW k \in Nat, Honest(m, T, k),
         NEW p \in Res, NEW c \in Res, Known(m, p), base[c] > 0, Layer[c] < Layer[p],
         c \notin T, Heedless(m, p), m[p].notReady + 1 < NotReadyMod,
         p \in Assets => m[p].notReady < k, m[p].status # "unloaded"
  PROVE  Honest(AddChild(m, p, c), T, k)
<1>0. m \in Memory /\ Sigs \subseteq Res /\ Assets \subseteq Res /\ Layer[c] \in Int /\ Layer[p] \in Int
  BY StatusesDiffer, LayerAssumption, GraphAssumption DEF Sound
<1>1. PICK n : n = AddChild(m, p, c)
  OBVIOUS
<1>2. /\ n \in Memory
      /\ \A q \in Res : /\ n[q].status = m[q].status
                        /\ n[q].figli = IF q = p THEN <<c>> \o m[q].figli ELSE m[q].figli
  BY <1>1, SoundAddChild DEF Sound
<1>3. \A q \in Res : n[q].notReady = IF q = p /\ ~IsReady(m, c) THEN m[q].notReady + 1 ELSE m[q].notReady
  BY <1>1, LinkCounts
<1>4. ASSUME NEW x \in Res, x # p, IsReady(m, x) PROVE IsReady(n, x)
  BY <1>4, <1>2, <1>3 DEF IsReady
<1>5. ASSUME NEW q \in Res PROVE Unready(n, n[q].figli) <= n[q].notReady
  <2>0. PICK l \in Seq(Res) : l = m[q].figli
    BY <1>0, NumbersOf
  <2>1. /\ m[q].notReady \in Nat /\ n[q].notReady \in Nat /\ Unready(m, l) \in Nat
        /\ Unready(m, l) <= m[q].notReady
    BY <1>0, <1>2, <2>0, NumbersOf DEF Honest, Covers
  <2>2. CASE q # p
    <3>1. ASSUME NEW x \in Range(l), IsReady(m, x) PROVE IsReady(n, x)
      <4>1. x \in Res /\ x \in Range(m[q].figli)
        BY <2>0 DEF Range
      <4>2. x # p
        BY <4>1, <3>1 DEF Heedless
      <4> QED
        BY <4>1, <4>2, <3>1, <1>4
    <3>2. Unready(n, l) <= Unready(m, l) /\ Unready(n, l) \in Nat
      BY <3>1, UnreadyFalls, UnreadyIs
    <3>3. n[q].figli = l /\ n[q].notReady = m[q].notReady
      BY <2>0, <2>2, <1>2, <1>3
    <3> QED
      BY <3>2, <3>3, <2>1
  <2>3. CASE q = p
    <3>1. PICK t : t = <<c>> \o l
      OBVIOUS
    <3>2. t \in Seq(Res) /\ Range(t) = Range(l) \union {c} /\ n[q].figli = t
      <4>1. <<c>> \o l \in Seq(Res) /\ Range(<<c>> \o l) = Range(l) \union {c}
        BY OneMoreInFront
      <4>2. n[q].figli = <<c>> \o l
        BY <2>0, <2>3, <1>2
      <4> QED
        BY <3>1, <4>1, <4>2
    <3>3. ASSUME NEW x \in Range(t), IsReady(m, x) PROVE IsReady(n, x)
      <4>1. x \in Res
        BY <3>2 DEF Range
      <4>2. x = c \/ x \in Range(m[p].figli)
        BY <3>2, <2>0, <2>3
      <4>3. x # p
        BY <4>1, <4>2, <1>0 DEF Sound, Layered
      <4> QED
        BY <4>1, <4>3, <3>3, <1>4
    <3>4. Unready(n, t) <= Unready(m, t) /\ Unready(n, t) \in Nat /\ Unready(m, t) \in Nat
      BY <3>2, <3>3, UnreadyFalls, UnreadyIs
    <3>5. Unready(m, t) = Unready(m, l) + (IF IsReady(m, c) THEN 0 ELSE 1)
      BY <3>1, UnreadyFront
    <3>6. n[q].notReady = IF IsReady(m, c) THEN m[q].notReady ELSE m[q].notReady + 1
      BY <2>3, <1>3
    <3> QED
      BY <3>2, <3>4, <3>5, <3>6, <2>1
  <2> QED
    BY <2>2, <2>3
<1>6. ASSUME NEW t \in T, NEW q \in Res, t \in Range(n[q].figli) PROVE FALSE
  <2>1. t \notin Range(m[q].figli)
    BY DEF Honest, Unlisted
  <2>2. PICK l \in Seq(Res) : l = m[q].figli
    BY <1>0, NumbersOf
  <2>3. Range(<<c>> \o l) = Range(l) \union {c}
    BY OneMoreInFront
  <2> QED
    BY <2>1, <2>2, <2>3, <1>6, <1>2
<1>7. ASSUME NEW s \in Sigs, Known(n, s) PROVE n[s].notReady <= Len(n[s].figli)
  <2>0. PICK l \in Seq(Res) : l = m[s].figli
    BY <1>0, NumbersOf
  <2>1. m[s].notReady <= Len(l) /\ m[s].notReady \in Nat /\ Len(l) \in Nat /\ s \in Res
    BY <1>0, <1>2, <1>7, <2>0, NumbersOf DEF Honest, Room, Known
  <2>2. CASE s # p
    BY <2>0, <2>1, <2>2, <1>2, <1>3
  <2>3. CASE s = p
    <3>1. Len(<<c>> \o l) = Len(l) + 1
      BY ConcatProperties
    <3>2. n[s].figli = <<c>> \o l /\ n[s].notReady <= m[s].notReady + 1
      <4>1. n[s].figli = <<c>> \o l
        BY <2>0, <2>3, <1>2
      <4>2. n[s].notReady = m[s].notReady + 1 \/ n[s].notReady = m[s].notReady
        BY <2>1, <1>3
      <4> QED
        BY <4>1, <4>2, <2>1
    <3>3. n[s].notReady \in Nat
      BY <1>2, <2>1, NumbersOf
    <3> QED
      BY <3>1, <3>2, <3>3, <2>1
  <2> QED
    BY <2>2, <2>3
<1>8. ASSUME NEW a \in Assets, Known(n, a) PROVE n[a].notReady <= k
  <2>1. m[a].notReady <= k /\ m[a].notReady \in Nat /\ a \in Res
    BY <1>0, <1>2, <1>8, NumbersOf DEF Honest, Room, Known
  <2>2. n[a].notReady = m[a].notReady \/ (a = p /\ n[a].notReady = m[a].notReady + 1)
    BY <2>1, <1>3
  <2> QED
    BY <2>1, <2>2
<1>9. Blank(n)
  BY <1>0, <1>2 DEF Honest, Blank
<1> QED
  BY <1>1, <1>5, <1>6, <1>7, <1>8, <1>9 DEF Honest, Covers, Unlisted, Room

LEMMA OneBack ==
  ASSUME NEW N \in Nat \ {0}, NEW v \in 1..N - 1
  PROVE  (v + N - 1) % N = v - 1
<1>1. (v + (N - 1)) % N = v - 1
  OBVIOUS
<1>2. v + (N - 1) = v + N - 1
  OBVIOUS
<1> QED
  BY <1>1, <1>2

(* A child that leaves takes its count with it.                            *)
LEMMA UnlinkHonest ==
  ASSUME NEW m, NEW base, Sound(m, base), NEW T, NEW k \in Nat, Honest(m, T, k),
         NEW p \in Res, p \notin Sigs, NEW c \in Range(m[p].figli)
  PROVE  /\ Honest(RemoveChild(m, p, c), T, k)
         /\ \A q \in Res : RemoveChild(m, p, c)[q].notReady <= m[q].notReady
<1>0. m \in Memory /\ Sigs \subseteq Res /\ Assets \subseteq Res /\ c \in Res
  BY StatusesDiffer, Below DEF Sound
<1>1. PICK n : n = RemoveChild(m, p, c)
  OBVIOUS
<1>2. /\ n \in Memory
      /\ \A q \in Res : /\ n[q].status = m[q].status
                        /\ n[q].figli = IF q = p THEN RemoveFirst(m[p].figli, c) ELSE m[q].figli
  BY <1>1, SoundRemoveChild DEF Sound
<1>3. PICK l \in Seq(Res) : l = m[p].figli
  BY <1>0, NumbersOf
<1>4. PICK t \in Seq(Res) : t = RemoveFirst(l, c) /\ Range(t) \subseteq Range(l)
  BY <1>3, FirstRemoved
<1>5. Unready(m, l) = Unready(m, t) + (IF IsReady(m, c) THEN 0 ELSE 1)
  BY <1>3, <1>4, UnreadyRemoved
<1>6. Unready(m, l) \in Nat /\ Unready(m, t) \in Nat /\ Unready(m, l) <= m[p].notReady /\ m[p].notReady \in Nat
  BY <1>0, <1>3, UnreadyIs, NumbersOf DEF Honest, Covers
<1>7. n[p].notReady = IF IsReady(m, c) THEN m[p].notReady ELSE m[p].notReady - 1
  <2>1. CASE IsReady(m, c)
    BY <2>1, <1>0, <1>1, RemoveChildCounts
  <2>2. CASE ~IsReady(m, c)
    <3>1. n[p].notReady = (m[p].notReady + NotReadyMod - 1) % NotReadyMod
      BY <2>2, <1>0, <1>1, RemoveChildCounts
    <3>2. PICK v \in 1..NotReadyMod - 1 : v = m[p].notReady
      <4>1. m[p].notReady >= 1
        BY <2>2, <1>5, <1>6
      <4> QED
        BY <4>1, <1>0, NumbersOf
    <3>3. (v + NotReadyMod - 1) % NotReadyMod = v - 1
      <4>1. NotReadyMod \in Nat \ {0}
        BY GraphAssumption
      <4> QED
        BY <4>1, OneBack
    <3> QED
      BY <2>2, <3>1, <3>2, <3>3
  <2> QED
    BY <2>1, <2>2
<1>8. ASSUME NEW q \in Res, q # p PROVE n[q].notReady = m[q].notReady
  BY <1>0, <1>1, <1>8, RemoveChildCounts
<1>9. ASSUME NEW q \in Res PROVE m[q].notReady \in Nat /\ n[q].notReady \in Nat /\ n[q].notReady <= m[q].notReady
  <2>1. m[q].notReady \in Nat /\ n[q].notReady \in Nat
    BY <1>0, <1>2, NumbersOf
  <2> QED
    BY <2>1, <1>6, <1>7, <1>8
<1>10. ASSUME NEW x \in Res, IsReady(m, x) PROVE IsReady(n, x)
  <2>1. n[x].status = m[x].status
    BY <1>2
  <2> QED
    BY <2>1, <1>9, <1>10 DEF IsReady
<1>11. ASSUME NEW q \in Res PROVE Unready(n, n[q].figli) <= n[q].notReady
  <2>1. CASE q = p
    <3>1. \A x \in Range(t) : IsReady(m, x) => IsReady(n, x)
      BY <1>10 DEF Range
    <3>2. Unready(n, t) <= Unready(m, t) /\ Unready(n, t) \in Nat
      BY <3>1, UnreadyFalls, UnreadyIs
    <3>3. n[q].figli = t
      BY <2>1, <1>2, <1>3, <1>4
    <3> QED
      BY <2>1, <3>2, <3>3, <1>5, <1>6, <1>7
  <2>2. CASE q # p
    <3>1. PICK f \in Seq(Res) : f = m[q].figli
      BY <1>0, NumbersOf
    <3>2. \A x \in Range(f) : IsReady(m, x) => IsReady(n, x)
      BY <1>10 DEF Range
    <3>3. Unready(n, f) <= Unready(m, f) /\ Unready(n, f) \in Nat /\ Unready(m, f) \in Nat
      BY <3>2, UnreadyFalls, UnreadyIs
    <3>4. n[q].figli = f /\ n[q].notReady = m[q].notReady /\ Unready(m, f) <= m[q].notReady
      BY <2>2, <3>1, <1>2, <1>8 DEF Honest, Covers
    <3> QED
      BY <3>3, <3>4, <1>9
  <2> QED
    BY <2>1, <2>2
<1>12. Unlisted(n, T)
  <2>1. ASSUME NEW x \in T, NEW q \in Res, x \in Range(n[q].figli) PROVE FALSE
    <3>1. x \notin Range(m[q].figli)
      BY DEF Honest, Unlisted
    <3> QED
      BY <3>1, <2>1, <1>2, <1>3, <1>4
  <2> QED
    BY <2>1 DEF Unlisted
<1>13. \A s \in Sigs : Known(n, s) => n[s].notReady <= Len(n[s].figli)
  BY <1>0, <1>2, <1>8 DEF Honest, Room, Known
<1>14. ASSUME NEW a \in Assets, Known(n, a) PROVE n[a].notReady <= k
  <2>1. m[a].notReady <= k /\ a \in Res
    BY <1>0, <1>2, <1>14 DEF Honest, Room, Known
  <2> QED
    BY <2>1, <1>9
<1>15. Blank(n)
  BY <1>0, <1>2 DEF Honest, Blank
<1> QED
  BY <1>1, <1>9, <1>11, <1>12, <1>13, <1>14, <1>15 DEF Honest, Covers, Room

-----------------------------------------------------------------------------
(* Readiness and the functions of the engine: what is asked for, and not   *)
(* yet seen by the loader, has no children.                                *)

FreshLoads(e) == \A x \in Range(e.q1) : x.what = "LOAD" => e.mem[x.descr].figli = <<>>

Trusted(e, T, k) == Honest(e.mem, T, k) /\ FreshLoads(e)

(* v keeps what e has, but for the children of those in S, and asks for    *)
(* loads.                                                                  *)
Adds(e, v, S) ==
  /\ \A q \in Res : Known(e.mem, q) => Known(v.mem, q) /\ (q \notin S => v.mem[q].figli = e.mem[q].figli)
  /\ \A x \in Range(v.q1) : x \in Range(e.q1) \/ x.what = "LOAD"

(* Each counter has room for the children the code gives it.               *)
CountersFit == 2 < NotReadyMod /\ \A s \in Sigs : Len(Binds[s]) < NotReadyMod

LEMMA AddsTrans ==
  ASSUME NEW e, NEW v, NEW w, NEW S, Adds(e, v, S), Adds(v, w, S)
  PROVE  Adds(e, w, S)
BY DEF Adds

LEMMA RequestIs ==
  ASSUME NEW q \in Seq(Request), NEW x \in Range(q)
  PROVE  x.descr \in Sigs /\ x.descr \in Res /\ x \in Request
<1>1. x \in Request
  BY DEF Range
<1> QED
  BY <1>1, StatusesDiffer DEF Request

LEMMA AsksTrusted ==
  ASSUME NEW T, NEW k \in Nat, NEW e, NEW h, NEW away, EngineOK(e, h, away), Trusted(e, T, k),
         NEW v, NEW h2, NEW away2, EngineOK(v, h2, away2), Asks(e, v)
  PROVE  Trusted(v, T, k) /\ Adds(e, v, {})
<1>0. PICK m, n : m = e.mem /\ n = v.mem
  OBVIOUS
<1>1. /\ m \in Memory /\ Sound(n, Base(h2, away2, v.q1)) /\ v.q1 \in Seq(Request)
      /\ Honest(m, T, k)
  BY <1>0 DEF EngineOK, Sound, Trusted
<1>2. \A q \in Res : /\ n[q].figli = m[q].figli /\ n[q].notReady = m[q].notReady
                     /\ n[q].status = m[q].status \/ (m[q].status = "unloaded" /\ n[q].status = "loading")
  BY <1>0 DEF Asks
<1>3. \A q \in Res : Known(n, q) =>
           /\ Known(m, q) /\ n[q].figli = m[q].figli /\ n[q].notReady = m[q].notReady
           /\ n[q].status = m[q].status \/ (m[q].status # "ready" /\ n[q].status # "unloaded")
  BY <1>2 DEF Known
<1>4. Honest(n, T, k)
  BY <1>1, <1>3, HonestSame
<1>5. ASSUME NEW x \in Range(v.q1), x.what = "LOAD" PROVE n[x.descr].figli = <<>>
  <2>1. x.descr \in Sigs /\ x.descr \in Res
    BY <1>1, RequestIs
  <2>2. x \in Range(e.q1) \/ m[x.descr].status = "unloaded"
    BY <1>0 DEF Asks
  <2>3. m[x.descr].figli = <<>>
    BY <2>1, <2>2, <1>0, <1>1, <1>5 DEF Trusted, FreshLoads, Honest, Blank
  <2> QED
    BY <2>1, <2>3, <1>2
<1>6. Trusted(v, T, k)
  BY <1>0, <1>4, <1>5 DEF Trusted, FreshLoads
<1>7. \A q \in Res : Known(m, q) => Known(n, q) /\ n[q].figli = m[q].figli
  BY <1>2 DEF Known
<1>8. \A x \in Range(v.q1) : x \in Range(e.q1) \/ x.what = "LOAD"
  BY DEF Asks
<1> QED
  BY <1>0, <1>6, <1>7, <1>8 DEF Adds

LEMMA SigHonest ==
  ASSUME NEW m, NEW base, Sound(m, base), NEW T, NEW k \in Nat, Honest(m, T, k), NEW s \in Sigs
  PROVE  /\ Honest(GetOrCreateSig(m, s), T, k)
         /\ \A q \in Res : q # s => GetOrCreateSig(m, s)[q].notReady = m[q].notReady
<1>0. s \in Res /\ m \in Memory
  BY StatusesDiffer DEF Sound
<1>1. PICK n : n = GetOrCreateSig(m, s)
  OBVIOUS
<1>2. Sound(n, More(base, s))
  BY <1>1, GetOrCreateSigIs
<1>3. CASE Known(m, s)
  <2>1. n = IncRefCount(m, s)
    BY <1>1, <1>3 DEF GetOrCreateSig
  <2>2. \A q \in Res : n[q].status = m[q].status /\ n[q].figli = m[q].figli /\ n[q].notReady = m[q].notReady
    BY <2>1, <1>0, <1>3, SoundInc
  <2>3. \A q \in Res : Known(n, q) =>
           /\ Known(m, q) /\ n[q].figli = m[q].figli /\ n[q].notReady = m[q].notReady
           /\ n[q].status = m[q].status \/ (m[q].status # "ready" /\ n[q].status # "unloaded")
    BY <2>2 DEF Known
  <2>4. Honest(n, T, k)
    BY <2>3, <1>0, <1>2, HonestSame
  <2> QED
    BY <2>2, <2>4, <1>1
<1>4. CASE ~Known(m, s)
  <2>1. n = [m EXCEPT ![s] = Reserved("unloaded")]
    BY <1>1, <1>4 DEF GetOrCreateSig
  <2>2. n[s] = Reserved("unloaded") /\ \A q \in Res : q # s => n[q] = m[q]
    BY <2>1, <1>0 DEF Memory
  <2>3. Honest(n, T, k)
    BY <2>2, <1>0, <1>2, <1>4, HonestNew
  <2> QED
    BY <2>2, <2>3, <1>1
<1> QED
  BY <1>3, <1>4

LEMMA CreatedTrusted ==
  ASSUME CountersFit, NEW T, T \intersect Sigs = {}, NEW k \in Nat \ {0},
         NEW e, NEW h, NEW away, EngineOK(e, h, away), Trusted(e, T, k),
         NEW a \in Assets, ~Known(e.mem, a), NEW s \in Versions[a]
  PROVE  Trusted(Created(e, a, s), T, k) /\ Adds(e, Created(e, a, s), {})
<1>w. PICK w : w = Created(e, a, s)
  OBVIOUS
<1>0. /\ e.mem \in Memory /\ h \in [Res -> Nat] /\ away \in [Res -> Nat] /\ e.q1 \in Seq(Request)
      /\ Sound(e.mem, Base(h, away, e.q1)) /\ e \in EngineSet
  BY DEF EngineOK, Sound
<1>1. PICK m \in Memory, q \in Seq(Request) : m = e.mem /\ q = e.q1
  BY <1>0
<1>2. PICK b \in [Res -> Nat] : b = Base(h, away, q)
  BY <1>0, BaseType
<1>3. s \in Sigs /\ s \in Res /\ a \in Res /\ s # a /\ Layer[s] < Layer[a]
  BY StatusesDiffer, Res2Assumption, LayerAssumption
<1>4. Sound(m, b) /\ Honest(m, T, k) /\ ~Known(m, a)
  BY <1>0, <1>1, <1>2 DEF Trusted
<1>5. PICK n1 : n1 = [m EXCEPT ![a] = Reserved("ready")]
  OBVIOUS
<1>6. PICK c : c = More(b, a)
  OBVIOUS
<1>7. Sound(n1, c) /\ n1[a] = Reserved("ready") /\ \A p \in Res : p # a => n1[p] = m[p]
  <2>1. "ready" \in Status \ {"free"}
    BY DEF Status
  <2>2. PICK st \in Status \ {"free"} : st = "ready"
    BY <2>1
  <2>3. a \in Res /\ Sound(m, b) /\ ~Known(m, a)
    BY <1>3, <1>4
  <2>4. n1 = [m EXCEPT ![a] = Reserved(st)]
    BY <2>2, <1>5
  <2>5. Sound(n1, c)
    <3>1. Sound([m EXCEPT ![a] = Reserved(st)], More(b, a))
      BY <2>3, SoundNew
    <3> QED
      BY <3>1, <2>4, <1>6
  <2> QED
    BY <2>5, <1>3, <1>5 DEF Memory
<1>8. Honest(n1, T, k)
  BY <1>3, <1>4, <1>7, HonestNew
<1>9. n1[a].status = "ready" /\ n1[a].notReady = 0 /\ n1[a].figli = <<>>
  BY <1>7 DEF Reserved, FreeSlot
<1>10. PICK n2 : n2 = GetOrCreateSig(n1, s)
  OBVIOUS
<1>11. /\ Sound(n2, More(c, s))
       /\ \A p \in Res : /\ n2[p].status = IF p = s /\ ~Known(n1, s) THEN "unloaded" ELSE n1[p].status
                         /\ n2[p].figli = n1[p].figli
  BY <1>3, <1>7, <1>10, GetOrCreateSigIs
<1>12. Honest(n2, T, k) /\ n2[a].notReady = 0
  BY <1>3, <1>7, <1>8, <1>9, <1>10, SigHonest
<1>13. Known(n2, a) /\ n2[a].status = "ready"
  BY <1>3, <1>9, <1>11 DEF Known
<1>14. c \in [Res -> Nat] /\ More(c, s)[s] > 0
  BY <1>3, <1>6, <1>2, MoreIs, FewerOfMore
<1>15. ASSUME NEW p \in Res PROVE a \notin Range(n2[p].figli)
  <2>1. a \notin Range(m[p].figli)
    BY <1>3, <1>4, SoundKnows
  <2>2. Range(<<>>) = {}
    BY DEF Range
  <2> QED
    BY <2>1, <2>2, <1>7, <1>9, <1>11
<1>16. PICK n3 : n3 = AddChild(n2, a, s)
  OBVIOUS
<1>17. Honest(n3, T, k)
  <2>1. s \notin T /\ Heedless(n2, a) /\ n2[a].status # "unloaded" /\ n2[a].notReady < k
        /\ n2[a].notReady + 1 < NotReadyMod
    BY <1>3, <1>12, <1>13, <1>15, GraphAssumption DEF Heedless, CountersFit
  <2> QED
    BY <2>1, <1>3, <1>11, <1>12, <1>13, <1>14, <1>16, LinkHonest
<1>18. \A p \in Res : /\ n3[p].status = n2[p].status
                      /\ n3[p].figli = IF p = a THEN <<s>> \o n2[p].figli ELSE n2[p].figli
  <2>1. PICK d : d = More(c, s)
    OBVIOUS
  <2>2. Sound(n2, d) /\ d[s] > 0
    BY <2>1, <1>11, <1>14
  <2>3. ASSUME NEW p \in Res
        PROVE  /\ AddChild(n2, a, s)[p].status = n2[p].status
               /\ AddChild(n2, a, s)[p].figli = IF p = a THEN <<s>> \o n2[p].figli ELSE n2[p].figli
    BY <2>2, <1>3, <1>13, SoundAddChild
  <2> QED
    BY <2>3, <1>16
<1>19. w.mem = n3 /\ w.q1 = q
  BY <1>0, <1>1, <1>w, <1>5, <1>10, <1>16 DEF EngineSet, Created
<1>20. \A p \in Res : Known(m, p) => Known(n3, p) /\ n3[p].figli = m[p].figli
  <2>1. ASSUME NEW p \in Res, Known(m, p) PROVE Known(n3, p) /\ n3[p].figli = m[p].figli
    <3>1. p # a /\ n1[p] = m[p]
      BY <2>1, <1>4, <1>7
    <3> QED
      BY <2>1, <3>1, <1>11, <1>18 DEF Known
  <2> QED
    BY <2>1
<1>21. ASSUME NEW x \in Range(q), x.what = "LOAD" PROVE n3[x.descr].figli = <<>>
  <2>1. x.descr \in Sigs /\ x.descr \in Res /\ x.descr # a
    BY RequestIs, StatusesDiffer
  <2>2. m[x.descr].figli = <<>>
    BY <1>1, <1>21 DEF Trusted, FreshLoads
  <2> QED
    BY <2>1, <2>2, <1>7, <1>11, <1>18
<1>22. Trusted(w, T, k)
  BY <1>17, <1>19, <1>21 DEF Trusted, FreshLoads
<1>23. Adds(e, w, {})
  BY <1>1, <1>19, <1>20 DEF Adds
<1> QED
  BY <1>22, <1>23, <1>w

LEMMA GetAssetTrusted ==
  ASSUME CountersFit, NEW T, T \intersect Sigs = {}, NEW k \in Nat \ {0},
         NEW e, NEW h, NEW away, EngineOK(e, h, away), Trusted(e, T, k),
         NEW a \in Assets, db[a] \in Versions[a], NEW asap
  PROVE  Trusted(GetOrCreateAsset(e, a, asap), T, k) /\ Adds(e, GetOrCreateAsset(e, a, asap), {})
<1>0. /\ e.mem \in Memory /\ h \in [Res -> Nat] /\ away \in [Res -> Nat] /\ a \in Res
      /\ Sound(e.mem, Base(h, away, e.q1)) /\ Honest(e.mem, T, k) /\ e \in EngineSet /\ k \in Nat
  BY StatusesDiffer DEF EngineOK, Sound, Trusted
<1>1. PICK w : w = GetOrCreateAsset(e, a, asap)
  OBVIOUS
<1>2. EngineOK(w, More(h, a), away)
  BY <1>1, GetOrCreateAssetIs
<1>3. CASE Known(e.mem, a)
  <2>1. PICK n : n = IncRefCount(e.mem, a)
    OBVIOUS
  <2>2. w.mem = n /\ w.q1 = e.q1
    BY <1>0, <1>1, <1>3, <2>1 DEF GetOrCreateAsset, EngineSet
  <2>3. \A q \in Res : n[q].status = e.mem[q].status /\ n[q].figli = e.mem[q].figli
                       /\ n[q].notReady = e.mem[q].notReady
    BY <2>1, <1>0, <1>3, SoundInc
  <2>4. Asks(e, w)
    BY <2>2, <2>3 DEF Asks
  <2> QED
    BY <2>4, <1>1, <1>2, <1>0, AsksTrusted
<1>4. CASE ~Known(e.mem, a)
  <2>1. PICK v : v = Created(e, a, db[a])
    OBVIOUS
  <2>2. EngineOK(v, More(h, a), away)
    BY <2>1, <1>4, CreateAsset
  <2>3. Trusted(v, T, k) /\ Adds(e, v, {})
    BY <2>1, <1>4, CreatedTrusted
  <2>4. PICK z : z = ScheduleLoad[Depth][<<v, a>>]
    OBVIOUS
  <2>5. v \in EngineSet /\ More(h, a) \in [Res -> Nat]
    BY <2>2, EngineOKType
  <2>6. EngineOK(z, More(h, a), away) /\ Asks(v, z)
    BY <2>2, <2>4, <2>5, <1>0, ScheduleLoadIs DEF Schedules
  <2>7. Trusted(z, T, k) /\ Adds(v, z, {})
    BY <2>2, <2>3, <2>6, <1>0, AsksTrusted
  <2>8. w = IF asap THEN z ELSE v
    BY <1>1, <1>4, <2>1, <2>4 DEF GetOrCreateAsset, Created
  <2> QED
    BY <2>3, <2>7, <2>8, <1>1, AddsTrans
<1> QED
  BY <1>3, <1>4

Holds(e, s, d) == Len(e.mem[s].figli) = d

LEMMA BoundTrusted ==
  ASSUME CountersFit, NEW T, T \intersect Sigs = {}, NEW k \in Nat \ {0},
         NEW e, NEW h, NEW away, EngineOK(e, h, away), Trusted(e, T, k), NEW s \in Sigs, away[s] > 0,
         NEW a \in Assets, db[a] \in Versions[a], Layer[a] < Layer[s], a \notin T,
         NEW d \in Nat, d < NotReadyMod, d = Len(e.mem[s].figli) + 1, NEW S, s \in S
  PROVE  /\ Trusted(Bound(e, s, a), T, k) /\ Adds(e, Bound(e, s, a), S)
         /\ Holds(Bound(e, s, a), s, d)
<1>0. /\ e.mem \in Memory /\ h \in [Res -> Nat] /\ away \in [Res -> Nat] /\ s \in Res /\ a \in Res /\ s \notin Assets
      /\ k \in Nat
  BY EngineOKType, StatusesDiffer
<1>1. PICK got : got = GetOrCreateAsset(e, a, TRUE)
  OBVIOUS
<1>2. EngineOK(got, More(h, a), away) /\ Trusted(got, T, k) /\ Adds(e, got, {})
  BY <1>1, GetOrCreateAssetIs, GetAssetTrusted
<1>3. PICK j : j = More(h, a)
  OBVIOUS
<1>4. j \in [Res -> Nat] /\ j[a] > 0 /\ EngineOK(got, j, away)
  BY <1>0, <1>2, <1>3, FewerOfMore
<1>5. got.mem \in Memory /\ got.q1 \in Seq(Request) /\ got \in EngineSet /\ Sound(got.mem, Base(j, away, got.q1))
  BY <1>4 DEF EngineOK, Sound
<1>6. PICK m, q : m \in Memory /\ q \in Seq(Request) /\ m = got.mem /\ q = got.q1 /\ got = [mem |-> m, q1 |-> q]
  BY <1>5 DEF EngineSet
<1>7. PICK b : b = Base(j, away, q)
  OBVIOUS
<1>8. b[a] > 0 /\ Sound(m, b)
  <2>1. Base(j, away, q)[a] > 0
    BY <1>0, <1>4, <1>6, BaseFewer
  <2> QED
    BY <2>1, <1>5, <1>6, <1>7
<1>9. Known(m, s) /\ m[s].status = "loading" /\ Loads(q, s) = 0
  <2>1. LoadsOK(got, j, away)
    BY <1>4, EngineIs
  <2> QED
    BY <2>1, <1>6, AwayExists
<1>10. Known(e.mem, s)
  <2>1. LoadsOK(e, h, away)
    BY EngineIs
  <2> QED
    BY <2>1, AwayExists
<1>11. m[s].figli = e.mem[s].figli
  BY <1>0, <1>2, <1>6, <1>10 DEF Adds
<1>12. PICK l \in Seq(Res) : l = m[s].figli
  BY <1>0, <1>6, NumbersOf
<1>13. m[s].notReady + 1 < NotReadyMod
  <2>1. Room(m, k)
    BY <1>2, <1>6 DEF Trusted, Honest
  <2>2. m[s].notReady \in Nat /\ Len(l) \in Nat
    BY <1>0, <1>6, <1>12, NumbersOf
  <2>3. m[s].notReady <= Len(l)
    BY <2>1, <1>9, <1>12 DEF Room
  <2> QED
    BY <2>2, <2>3, <1>11, <1>12, GraphAssumption
<1>14. PICK n : n = AddChild(m, s, a)
  OBVIOUS
<1>15. Honest(n, T, k)
  <2>1. Heedless(m, s) /\ m[s].status # "unloaded" /\ s \notin Assets /\ Honest(m, T, k)
    BY <1>0, <1>2, <1>6, <1>9 DEF Heedless, IsReady, Trusted
  <2> QED
    BY <2>1, <1>0, <1>8, <1>9, <1>13, <1>14, LinkHonest
<1>16. /\ Sound(n, Fewer(b, a))
       /\ \A p \in Res : /\ n[p].status = m[p].status /\ n[p].ref = m[p].ref
                         /\ n[p].figli = IF p = s THEN <<a>> \o m[p].figli ELSE m[p].figli
  BY <1>0, <1>8, <1>9, <1>14, SoundAddChild
<1>17. PICK w : w = Bound(e, s, a)
  OBVIOUS
<1>18. w.mem = n /\ w.q1 = q
  BY <1>1, <1>6, <1>14, <1>17 DEF Bound
<1>19. ASSUME NEW x \in Range(q), x.what = "LOAD" PROVE n[x.descr].figli = <<>>
  <2>1. x.descr \in Sigs /\ x.descr \in Res
    BY <1>6, RequestIs
  <2>2. m[x.descr].figli = <<>>
    BY <1>2, <1>6, <1>19 DEF Trusted, FreshLoads
  <2>3. x.descr # s
    <3>1. \A i \in 1..Len(q) : ~Carries(q[i], s)
      BY <1>6, <1>9, LoadsType
    <3>2. ~Carries(x, s)
      BY <3>1, <1>6 DEF Range
    <3> QED
      BY <3>2, <1>19 DEF Carries
  <2> QED
    BY <2>1, <2>2, <2>3, <1>16
<1>20. Trusted(w, T, k)
  BY <1>15, <1>18, <1>19 DEF Trusted, FreshLoads
<1>21. Adds(e, w, S)
  <2>1. ASSUME NEW p \in Res, Known(e.mem, p)
        PROVE  Known(n, p) /\ (p \notin S => n[p].figli = e.mem[p].figli)
    <3>1. Known(m, p) /\ m[p].figli = e.mem[p].figli
      BY <2>1, <1>2, <1>6 DEF Adds
    <3> QED
      BY <3>1, <1>16 DEF Known
  <2>2. \A x \in Range(q) : x \in Range(e.q1) \/ x.what = "LOAD"
    BY <1>2, <1>6 DEF Adds
  <2> QED
    BY <2>1, <2>2, <1>18 DEF Adds
<1>22. Len(n[s].figli) = Len(e.mem[s].figli) + 1
  <2>1. Len(<<a>> \o l) = Len(l) + 1
    BY <1>0, ConcatProperties
  <2> QED
    BY <2>1, <1>0, <1>11, <1>12, <1>16
<1> QED
  BY <1>17, <1>18, <1>20, <1>21, <1>22 DEF Holds

(* What on_load binds: s had no children, and gets those its file names.   *)
LEMMA BindAllTrusted ==
  ASSUME CountersFit, NEW T, T \intersect Sigs = {}, NEW k \in Nat \ {0},
         NEW e, NEW h, NEW away, EngineOK(e, h, away), Trusted(e, T, k), NEW s \in Sigs, away[s] > 0,
         \A a \in Assets : db[a] \in Versions[a], \A a \in Range(Binds[s]) : a \notin T, e.mem[s].figli = <<>>,
         NEW Z, s \in Z
  PROVE  Trusted(BindAll(e, s, Binds[s]), T, k) /\ Adds(e, BindAll(e, s, Binds[s]), Z)
<1>1. PICK N \in Nat, l \in Seq(Assets) : l = Binds[s] /\ N = Len(l)
  BY Res2Assumption
<1> DEFINE V == {x \in EngineSet : EngineOK(x, h, away)}
           S == {a \in Assets : Layer[a] < Layer[s] /\ a \notin T}
           f == [x \in EngineSet \X Assets |-> Bound(x[1], s, x[2])]
           P == [j \in 0..N |-> {x \in V : Trusted(x, T, k) /\ Adds(e, x, Z) /\ Len(x.mem[s].figli) = j}]
<1>2. N < NotReadyMod /\ NotReadyMod \in Nat
  BY <1>1, GraphAssumption DEF CountersFit
<1>3. l \in Seq(S)
  <2>1. \A a \in Range(l) : Layer[a] < Layer[s] /\ a \notin T
    BY <1>1, LayerAssumption
  <2>2. \A i \in 1..Len(l) : l[i] \in S
    BY <2>1, <1>1 DEF Range
  <2> QED
    BY <2>2, <1>1
<1>4. e \in V
  BY EngineOKType
<1>5. e \in P[0]
  <2>1. Len(<<>>) = 0 /\ 0 \in 0..N
    BY <1>1
  <2>2. Adds(e, e, Z)
    BY DEF Adds
  <2> QED
    BY <2>1, <2>2, <1>4
<1>6. Maps(f, V, S)
  <2>1. ASSUME NEW x \in V, NEW a \in S PROVE f[<<x, a>>] \in V
    <3>1. f[<<x, a>>] = Bound(x, s, a)
      BY <2>1
    <3>2. EngineOK(Bound(x, s, a), h, away)
      BY <2>1, BindOne
    <3>3. Bound(x, s, a) \in EngineSet
      BY <3>2, EngineOKType
    <3> QED
      BY <3>1, <3>2, <3>3
  <2> QED
    BY <2>1 DEF Maps
<1>7. ASSUME NEW j \in 1..N, NEW x \in V, x \in P[j - 1] PROVE f[<<x, l[j]>>] \in P[j]
  <2>1. j - 1 \in 0..N /\ j \in 0..N /\ j - 1 + 1 = j /\ l[j] \in S
    BY <1>1, <1>3
  <2>2. Trusted(x, T, k) /\ Adds(e, x, Z) /\ Len(x.mem[s].figli) = j - 1 /\ EngineOK(x, h, away) /\ x \in EngineSet
    BY <2>1, <1>7
  <2>3. PICK a \in S : a = l[j]
    BY <2>1
  <2>4. f[<<x, a>>] = Bound(x, s, a) /\ f[<<x, a>>] \in V
    BY <2>2, <2>3, <1>6 DEF Maps
  <2>5. PICK w : w = Bound(x, s, a)
    OBVIOUS
  <2>6. PICK d \in Nat : d = j /\ d < NotReadyMod /\ d = Len(x.mem[s].figli) + 1
    BY <2>2, <2>1, <1>2
  <2>7. Trusted(w, T, k) /\ Adds(x, w, Z) /\ Len(w.mem[s].figli) = d
    <3>1. a \in Assets /\ db[a] \in Versions[a] /\ Layer[a] < Layer[s] /\ a \notin T
      BY <2>3
    <3>2. EngineOK(x, h, away) /\ Trusted(x, T, k)
      BY <2>2
    <3> HIDE DEF V, S, f, P
    <3>3. Trusted(Bound(x, s, a), T, k)
      BY <3>1, <3>2, <2>6, BoundTrusted
    <3>4. Adds(x, Bound(x, s, a), Z)
      BY <3>1, <3>2, <2>6, BoundTrusted
    <3>5. Holds(Bound(x, s, a), s, d)
      BY <3>1, <3>2, <2>6, BoundTrusted
    <3> QED
      BY <3>3, <3>4, <3>5, <2>5 DEF Holds
  <2>8. Adds(e, w, Z)
    BY <2>2, <2>7, AddsTrans
  <2> QED
    BY <2>1, <2>2, <2>3, <2>4, <2>5, <2>6, <2>7, <2>8
<1>8. BindAll(e, s, Binds[s]) = Each(f, e, l)
  BY <1>1 DEF BindAll, Bound
<1>9. Each(f, e, l) \in P[N]
  <2> HIDE DEF V, S, f, P
  <2>1. \A j \in 1..N, x \in V : x \in P[j - 1] => f[<<x, l[j]>>] \in P[j]
    BY <1>7
  <2> QED
    BY <2>1, <1>1, <1>3, <1>4, <1>5, <1>6, EachKeeps
<1>10. PICK w : w = Each(f, e, l)
  OBVIOUS
<1>11. w \in P[N] /\ N \in 0..N
  BY <1>1, <1>9, <1>10
<1>12. Trusted(w, T, k) /\ Adds(e, w, Z)
  BY <1>11
<1> QED
  BY <1>8, <1>10, <1>12

(* Everything keeps its children.                                         *)
SameFigli(m, n) == \A q \in Res : n[q].figli = m[q].figli

(* A load ends.                                                            *)
LEMMA EndTrusted ==
  ASSUME NEW T, NEW k \in Nat, NEW e, NEW h, NEW away, EngineOK(e, h, away), Honest(e.mem, T, k),
         NEW s \in Sigs, away[s] > 0, NEW status \in {"ready", "error"},
         NEW n, n = Ended(e.mem, s, status)
  PROVE  Honest(n, T, k) /\ SameFigli(e.mem, n)
<1>0. s \in Res /\ LoadsOK(e, h, away)
  BY EngineIs, StatusesDiffer
<1>1. PICK m : m = e.mem
  OBVIOUS
<1>2. PICK b : b = Base(h, away, e.q1)
  OBVIOUS
<1>3. m[s].status = "loading" /\ Known(m, s) /\ b[s] > 0
  BY <1>0, <1>1, <1>2, AwayExists
<1>4. Sound(m, b) /\ m \in Memory /\ Honest(m, T, k)
  BY <1>1, <1>2 DEF EngineOK, Sound
<1>5. PICK m1 : m1 = ChangeState(m, s, status)
  OBVIOUS
<1>6. /\ Sound(m1, b)
      /\ \A p \in Res : /\ m1[p].status = IF p = s THEN status ELSE m[p].status
                        /\ m1[p].figli = m[p].figli /\ m1[p].ref = m[p].ref
  <2>1. status \in Status \ {"free"}
    BY DEF Status
  <2> QED
    BY <2>1, <1>0, <1>3, <1>4, <1>5, SoundStatus
<1>7. Honest(m1, T, k)
  <2>1. CASE status = "ready"
    BY <2>1, <1>0, <1>3, <1>4, <1>5, ReadyHonest
  <2>2. CASE status = "error"
    <3>1. status \in Status /\ ~IsReady(m, s) /\ status # "ready"
      BY <2>2, <1>3 DEF Status, IsReady
    <3>2. \A q \in Res : m1[q].notReady = m[q].notReady
      BY <3>1, <1>0, <1>4, <1>5, ChangeStateQuiet
    <3>3. \A q \in Res : Known(m1, q) =>
            /\ Known(m, q) /\ m1[q].figli = m[q].figli /\ m1[q].notReady = m[q].notReady
            /\ m1[q].status = m[q].status \/ (m[q].status # "ready" /\ m1[q].status # "unloaded")
      BY <2>2, <3>2, <1>3, <1>6 DEF Known
    <3> QED
      BY <3>3, <1>4, <1>6, HonestSame
  <2> QED
    BY <2>1, <2>2
<1>8. n = DecRefCount(m1, s)
  BY <1>1, <1>5 DEF Ended
<1>9. /\ Sound(n, Fewer(b, s))
      /\ \A p \in Res : /\ n[p].status = m1[p].status /\ n[p].figli = m1[p].figli
                        /\ n[p].notReady = m1[p].notReady
  BY <1>0, <1>3, <1>6, <1>8, SoundDec
<1>10. \A q \in Res : Known(n, q) =>
        /\ Known(m1, q) /\ n[q].figli = m1[q].figli /\ n[q].notReady = m1[q].notReady
        /\ n[q].status = m1[q].status \/ (m1[q].status # "ready" /\ n[q].status # "unloaded")
  BY <1>9 DEF Known
<1>11. Honest(n, T, k)
  <2>1. m1 \in Memory
    BY <1>6 DEF Sound
  <2> QED
    BY <2>1, <1>7, <1>9, <1>10, HonestSame
<1> QED
  BY <1>1, <1>6, <1>9, <1>11 DEF SameFigli

(* What a release leaves is as it was.                                     *)
LEMMA SparedHonest ==
  ASSUME NEW m, NEW T, NEW k \in Nat, Honest(m, T, k), m \in Memory, NEW n, NEW b, Sound(n, b),
         NEW r, Spares(m, n, r)
  PROVE  Honest(n, T, k)
<1>1. \A q \in Res : Known(n, q) =>
        /\ Known(m, q) /\ n[q].figli = m[q].figli /\ n[q].notReady = m[q].notReady
        /\ n[q].status = m[q].status \/ (m[q].status # "ready" /\ n[q].status # "unloaded")
  BY DEF Spares, Survives, SameHandle
<1> QED
  BY <1>1, HonestSame

(* A message that is on its way names a resource that exists.              *)
LEMMA SentExists ==
  ASSUME NEW e, NEW h, NEW away, EngineOK(e, h, away),
         NEW x, x \in Range(e.q1), x.what # "LOAD_FINISHED"
  PROVE  x.descr \in Sigs /\ x.descr \in Res /\ Known(e.mem, x.descr)
<1>1. PICK q \in Seq(Request) : q = e.q1
  BY DEF EngineOK
<1>2. x.descr \in Sigs /\ x.descr \in Res
  BY <1>1, RequestIs
<1>3. PICK s \in Sigs : s = x.descr
  BY <1>2
<1>4. Loads(q, s) \in Nat /\ Loads(q, s) # 0
  <2>1. PICK i \in 1..Len(q) : q[i] = x
    BY <1>1 DEF Range
  <2>2. Carries(q[i], s)
    BY <2>1, <1>3 DEF Carries
  <2> QED
    BY <2>1, <2>2, <1>1, LoadsType
<1>5. away[s] \in Nat /\ away[s] + Loads(q, s) = IF e.mem[s].status = "loading" THEN 1 ELSE 0
  BY <1>1, <1>3, <1>2 DEF EngineOK, LoadingOnce
<1>6. e.mem[s].status = "loading"
  BY <1>4, <1>5
<1> QED
  BY <1>2, <1>3, <1>6 DEF Known

(* A child is let go of.                                                   *)
LEMMA LetGoHonest ==
  ASSUME NEW m, NEW b, Sound(m, b), NEW T, NEW k \in Nat, Honest(m, T, k),
         NEW p \in Res, p \notin Sigs, NEW old \in Range(m[p].figli),
         NEW n, n = Released[Depth][<<RemoveChild(m, p, old), old>>]
  PROVE  /\ Sound(n, b) /\ Honest(n, T, k) /\ Known(n, p)
         /\ n[p].status = m[p].status /\ n[p].notReady <= m[p].notReady
<1>0. /\ m \in Memory /\ b \in [Res -> Nat] /\ old \in Res /\ old # p /\ Layer[old] < Layer[p]
      /\ Layer[old] \in Nat /\ Layer[p] \in Nat /\ Known(m, p)
  BY Below DEF Sound
<1>1. PICK m1 : m1 = RemoveChild(m, p, old)
  OBVIOUS
<1>2. PICK c : c = More(b, old)
  OBVIOUS
<1>3. /\ Sound(m1, c)
      /\ \A x \in Res : /\ m1[x].status = m[x].status
                        /\ m1[x].figli = IF x = p THEN RemoveFirst(m[p].figli, old) ELSE m[x].figli
  BY <1>1, <1>2, SoundRemoveChild
<1>4. Honest(m1, T, k) /\ m1[p].notReady <= m[p].notReady
  BY <1>1, UnlinkHonest
<1>5. c[old] > 0 /\ Fewer(c, old) = b /\ c \in [Res -> Nat]
  BY <1>0, <1>2, FewerOfMore
<1>6. Layer[old] < Depth
  BY <1>0, LayerAssumption, GraphAssumption
<1>7. Sound(n, Fewer(c, old)) /\ Spares(m1, n, old)
  <2>1. m1 \in Memory
    BY <1>3 DEF Sound
  <2> QED
    BY <2>1, <1>0, <1>1, <1>3, <1>5, <1>6, ReleasedIs DEF Releases
<1>8. Honest(n, T, k)
  <2>1. m1 \in Memory
    BY <1>3 DEF Sound
  <2> QED
    BY <2>1, <1>4, <1>7, SparedHonest
<1>9. n[p].status = m1[p].status /\ n[p].notReady = m1[p].notReady
  BY <1>0, <1>7 DEF Spares, SameHandle
<1>10. n[p].status = m[p].status /\ Known(n, p)
  BY <1>0, <1>3, <1>9 DEF Known
<1> QED
  BY <1>4, <1>5, <1>7, <1>8, <1>9, <1>10

(* The material p hangs c below itself.                                    *)
LEMMA HeldHonest ==
  ASSUME NEW m, NEW b, Sound(m, b), NEW T, NEW k \in Nat, Honest(m, T, k),
         NEW p \in Hands, p \in T, NEW c \in Res, Known(m, p), b[c] > 0, Layer[c] < Layer[p], c \notin T,
         m[p].status = "ready", NEW d \in Nat, m[p].notReady <= d, d + 1 < NotReadyMod,
         NEW n, n = IncRefCount(AddChild(m, p, c), c)
  PROVE  Honest(n, T, k) /\ n[p].notReady <= d + 1 /\ n[p].status = "ready"
<1>0. p \in Res /\ p \notin Assets /\ p \notin Sigs /\ m \in Memory /\ b \in [Res -> Nat] /\ NotReadyMod \in Nat
  BY StatusesDiffer, GraphAssumption DEF Sound
<1>1. m[p].notReady \in Nat
  BY <1>0, NumbersOf
<1>2. Heedless(m, p)
  BY <1>0 DEF Heedless, Honest, Unlisted
<1>3. PICK n1 : n1 = AddChild(m, p, c)
  OBVIOUS
<1>4. m[p].notReady + 1 < NotReadyMod
  BY <1>0, <1>1
<1>5. Honest(n1, T, k)
  BY <1>0, <1>2, <1>3, <1>4, LinkHonest
<1>6. n1[p].notReady = m[p].notReady + 1 \/ n1[p].notReady = m[p].notReady
  BY <1>0, <1>2, <1>3, <1>4, LinkCounts
<1>7. /\ Sound(n1, Fewer(b, c))
      /\ \A q \in Res : /\ n1[q].status = m[q].status
                        /\ n1[q].figli = IF q = p THEN <<c>> \o m[q].figli ELSE m[q].figli
  BY <1>0, <1>3, SoundAddChild
<1>8. Known(n1, c)
  <2>1. Known(m, c)
    BY SoundKnows
  <2> QED
    BY <2>1, <1>7 DEF Known
<1>9. /\ Sound(n, More(Fewer(b, c), c))
      /\ \A q \in Res : /\ n[q].status = n1[q].status /\ n[q].figli = n1[q].figli
                        /\ n[q].notReady = n1[q].notReady
  BY <1>3, <1>7, <1>8, SoundInc
<1>10. \A q \in Res : Known(n, q) =>
        /\ Known(n1, q) /\ n[q].figli = n1[q].figli /\ n[q].notReady = n1[q].notReady
        /\ n[q].status = n1[q].status \/ (n1[q].status # "ready" /\ n[q].status # "unloaded")
  BY <1>9 DEF Known
<1>11. Honest(n, T, k)
  <2>1. n1 \in Memory
    BY <1>7 DEF Sound
  <2> QED
    BY <2>1, <1>5, <1>9, <1>10, HonestSame
<1>12. n[p].notReady <= d + 1 /\ n[p].status = "ready"
  BY <1>0, <1>1, <1>6, <1>7, <1>9
<1> QED
  BY <1>11, <1>12

LEMMA ReplacedHonest ==
  ASSUME NEW m, NEW b, Sound(m, b), NEW T, NEW k \in Nat, Honest(m, T, k),
         NEW p \in Hands, p \in T, b[p] > 0, NEW old \in Range(m[p].figli),
         NEW r \in Res, b[r] > 0, Layer[r] < Layer[p], r \notin T,
         m[p].status = "ready", NEW d \in Nat, m[p].notReady <= d, d + 1 < NotReadyMod,
         NEW n, n = Replaced(m, p, old, r)
  PROVE  Honest(n, T, k) /\ n[p].notReady <= d + 1 /\ n[p].status = "ready"
<1>0. p \in Res /\ p \notin Sigs /\ m \in Memory
  BY StatusesDiffer DEF Sound
<1>1. PICK m2 : m2 = Released[Depth][<<RemoveChild(m, p, old), old>>]
  OBVIOUS
<1>2. /\ Sound(m2, b) /\ Honest(m2, T, k) /\ Known(m2, p)
      /\ m2[p].status = m[p].status /\ m2[p].notReady <= m[p].notReady
  BY <1>0, <1>1, LetGoHonest
<1>3. m2[p].notReady <= d
  <2>1. m2[p].notReady \in Nat /\ m[p].notReady \in Nat
    BY <1>0, <1>2, NumbersOf DEF Sound
  <2> QED
    BY <2>1, <1>2
<1>4. n = IncRefCount(AddChild(m2, p, r), r)
  BY <1>1 DEF Replaced
<1> QED
  BY <1>2, <1>3, <1>4, HeldHonest

(* One of the two updates of a material.                                   *)
LEMMA SetHonest ==
  ASSUME NEW m, NEW tgt, NEW b, Sound(m, b), NEW T, NEW k \in Nat, Honest(m, T, k),
         NEW p \in Hands, p \in T, b[p] > 0, NEW slot,
         NEW r, r # None => r \in Res /\ b[r] > 0 /\ Layer[r] < Layer[p] /\ r \notin T,
         m[p].status = "ready", NEW d \in Nat, m[p].notReady <= d, d + 1 < NotReadyMod,
         NEW n, NEW t, Set([mem |-> m, tgt |-> tgt], p, slot, r) = [mem |-> n, tgt |-> t]
  PROVE  Honest(n, T, k) /\ n[p].notReady <= d + 1 /\ n[p].status = "ready"
<1>0. p \in Res /\ m \in Memory /\ m[p].notReady \in Nat
  BY StatusesDiffer, NumbersOf DEF Sound
<1>1. PICK u, v : u = [mem |-> m, tgt |-> tgt] /\ v = [mem |-> n, tgt |-> t]
  OBVIOUS
<1>2. u.mem = m /\ u.tgt = tgt /\ v.mem = n /\ Set(u, p, slot, r) = v
  BY <1>1
<1>3. PICK l, i : l = m[p].figli /\ i = Owner(m, p, tgt[slot])
  OBVIOUS
<1>4. l \in Seq(Res) /\ i \in 0..Len(l)
  <2>1. m[p].figli \in Seq(Res)
    BY <1>0, ListsType
  <2>2. PICK g : g = tgt[slot]
    OBVIOUS
  <2>3. Owner(m, p, g) \in 0..Len(m[p].figli)
    BY <2>1, OwnerIs
  <2> QED
    BY <2>1, <2>2, <2>3, <1>3
<1>5. CASE r = None \/ i = 0 \/ l[i] = r
  <2>1. v = u
    BY <1>2, <1>3, <1>5 DEF Set, UpdateTexture
  <2>2. n = m
    BY <2>1, <1>2
  <2> QED
    BY <2>2, <1>0
<1>6. CASE ~(r = None \/ i = 0 \/ l[i] = r)
  <2>1. PICK old : old = l[i]
    OBVIOUS
  <2>2. old \in Range(m[p].figli)
    <3>1. i \in 1..Len(l) /\ DOMAIN l = 1..Len(l)
      BY <1>4, <1>6
    <3> QED
      BY <3>1, <2>1, <1>3 DEF Range
  <2>3. PICK w : w = Replaced(m, p, old, r)
    OBVIOUS
  <2>4. PICK z : z = [u.tgt EXCEPT ![slot] = DataOf(w, r)]
    OBVIOUS
  <2>5. v = [mem |-> w, tgt |-> z]
    BY <2>1, <2>3, <2>4, <1>2, <1>3, <1>6 DEF Set, UpdateTexture, Replaced
  <2>6. n = w
    BY <2>5, <1>2
  <2>7. r \in Res /\ b[r] > 0 /\ Layer[r] < Layer[p] /\ r \notin T
    BY <1>6
  <2> QED
    BY <2>2, <2>3, <2>6, <2>7, ReplacedHonest
<1> QED
  BY <1>5, <1>6

(* A new material shows the default texture twice.                         *)
LEMMA MadeHonest ==
  ASSUME CountersFit, NEW m, NEW b, Sound(m, b), NEW T, NEW k \in Nat, Honest(m, T, k),
         NEW p \in Hands, p \in T, p # Bianca, ~Known(m, p), b[Bianca] > 0, Bianca \notin T,
         NEW n, n = NewMaterial(m, p)
  PROVE  Honest(n, T, k)
<1>0. /\ p \in Res /\ Bianca \in Res /\ Layer[Bianca] < Layer[p] /\ m \in Memory
      /\ b \in [Res -> Nat] /\ 0 + 1 < NotReadyMod /\ 1 + 1 < NotReadyMod
  BY StatusesDiffer, Res2Assumption, LayerAssumption, GraphAssumption DEF Sound, CountersFit
<1>1. PICK n0 : n0 = [m EXCEPT ![p] = Reserved("ready")]
  OBVIOUS
<1>2. PICK c : c = More(b, p)
  OBVIOUS
<1>3. Sound(n0, c) /\ n0[p] = Reserved("ready") /\ \A x \in Res : x # p => n0[x] = m[x]
  <2>1. "ready" \in Status \ {"free"}
    BY DEF Status
  <2>2. /\ Sound([m EXCEPT ![p] = Reserved("ready")], More(b, p))
        /\ [m EXCEPT ![p] = Reserved("ready")][p] = Reserved("ready")
        /\ \A x \in Res : x # p => [m EXCEPT ![p] = Reserved("ready")][x] = m[x]
    BY <2>1, <1>0, SoundNew
  <2> QED
    BY <2>2, <1>1, <1>2
<1>4. Honest(n0, T, k)
  BY <1>0, <1>3, HonestNew
<1>5. n0[p].status = "ready" /\ n0[p].notReady <= 0 /\ Known(n0, p)
  BY <1>3 DEF Reserved, FreeSlot, Known
<1>6. c[Bianca] > 0
  BY <1>0, <1>2, MoreIs
<1>7. PICK n1 : n1 = WithBianca(n0, p)
  OBVIOUS
<1>8. Honest(n1, T, k) /\ n1[p].notReady <= 0 + 1
  BY <1>0, <1>3, <1>4, <1>5, <1>6, <1>7, HeldHonest DEF WithBianca
<1>9. Sound(n1, c) /\ n1[p].status = "ready" /\ Known(n1, p)
  <2>1. /\ Sound(n1, c)
        /\ \A x \in Res : /\ n1[x].status = n0[x].status
                          /\ n1[x].figli = IF x = p THEN <<Bianca>> \o n0[x].figli ELSE n0[x].figli
    BY <1>0, <1>3, <1>5, <1>6, <1>7, LinkHeld DEF WithBianca
  <2> QED
    BY <2>1, <1>0, <1>5 DEF Known
<1>10. n = IncRefCount(AddChild(n1, p, Bianca), Bianca)
  BY <1>1, <1>7 DEF NewMaterial, WithBianca
<1>11. n1[p].notReady <= 1
  BY <1>8
<1> QED
  BY <1>0, <1>6, <1>8, <1>9, <1>10, <1>11, HeldHonest

(* asset_hotreload may leave the counter of the asset one too high.        *)
LEMMA ShownHonest ==
  ASSUME NEW m, NEW b, Sound(m, b), NEW T, T \intersect Sigs = {}, NEW k \in Nat, Honest(m, T, k),
         NEW a \in Assets, a \in T, m[a].status = "ready", NEW old \in Range(m[a].figli),
         NEW s \in Versions[a], NEW j \in Nat, j = k + 1, j < NotReadyMod,
         NEW n, n = Shown(m, a, old, s)
  PROVE  Honest(n, T, j)
<1>0. /\ a \in Res /\ a \notin Sigs /\ s \in Sigs /\ s \in Res /\ s # a /\ s \notin T /\ Layer[s] < Layer[a]
      /\ m \in Memory /\ b \in [Res -> Nat]
  BY StatusesDiffer, Res2Assumption, LayerAssumption DEF Sound
<1>1. PICK m2 : m2 = Released[Depth][<<RemoveChild(m, a, old), old>>]
  OBVIOUS
<1>2. /\ Sound(m2, b) /\ Honest(m2, T, k) /\ Known(m2, a) /\ m2[a].status = "ready"
  BY <1>0, <1>1, LetGoHonest
<1>3. m2[a].notReady <= k /\ m2[a].notReady \in Nat
  <2>1. m2 \in Memory
    BY <1>2 DEF Sound
  <2>2. m2[a].notReady \in Nat
    BY <2>1, <1>0, NumbersOf
  <2> QED
    BY <2>2, <1>2 DEF Honest, Room
<1>4. Honest(m2, T, j)
  <2>1. ASSUME NEW x \in Assets, Known(m2, x) PROVE m2[x].notReady <= j
    <3>1. x \in Res /\ m2 \in Memory
      BY <1>2, StatusesDiffer DEF Sound
    <3>2. m2[x].notReady \in Nat
      BY <3>1, NumbersOf
    <3>3. m2[x].notReady <= k
      BY <2>1, <1>2 DEF Honest, Room
    <3> QED
      BY <3>2, <3>3
  <2> QED
    BY <2>1, <1>2 DEF Honest, Room
<1>5. PICK m3 : m3 = GetOrCreateSig(m2, s)
  OBVIOUS
<1>6. PICK c : c = More(b, s)
  OBVIOUS
<1>7. /\ Sound(m3, c)
      /\ \A q \in Res : /\ m3[q].status = IF q = s /\ ~Known(m2, s) THEN "unloaded" ELSE m2[q].status
                        /\ m3[q].figli = m2[q].figli
  BY <1>2, <1>0, <1>5, <1>6, GetOrCreateSigIs
<1>8. Honest(m3, T, j) /\ m3[a].notReady = m2[a].notReady
  BY <1>0, <1>2, <1>4, <1>5, SigHonest
<1>9. m3[a].status = "ready" /\ Known(m3, a)
  BY <1>0, <1>2, <1>7 DEF Known
<1>10. Heedless(m3, a)
  BY <1>8 DEF Heedless, Honest, Unlisted
<1>11. c[s] > 0
  BY <1>0, <1>6, FewerOfMore
<1>12. m3[a].notReady < j /\ m3[a].notReady + 1 < NotReadyMod
  BY <1>3, <1>8, GraphAssumption
<1>13. n = AddChild(m3, a, s)
  BY <1>1, <1>5 DEF Shown
<1> QED
  BY <1>0, <1>7, <1>8, <1>9, <1>10, <1>11, <1>12, <1>13, LinkHonest

LEMMA RangeOfTail ==
  ASSUME NEW S, NEW l \in Seq(S), l # <<>>
  PROVE  Range(Tail(l)) \subseteq Range(l) /\ Head(l) \in Range(l)
<1>1. PICK t : t = Tail(l)
  OBVIOUS
<1>2. Len(t) = Len(l) - 1 /\ Len(l) \in Nat \ {0} /\ \A i \in 1..Len(t) : t[i] = l[i + 1]
  BY <1>1
<1>3. DOMAIN t = 1..Len(t) /\ DOMAIN l = 1..Len(l) /\ Head(l) = l[1]
  BY <1>1
<1>4. Head(l) \in Range(l)
  BY <1>2, <1>3 DEF Range
<1>5. ASSUME NEW x \in Range(t) PROVE x \in Range(l)
  <2>1. PICK i \in 1..Len(t) : t[i] = x
    BY <1>3 DEF Range
  <2>2. i + 1 \in 1..Len(l)
    BY <1>2
  <2> QED
    BY <2>1, <2>2, <1>2, <1>3 DEF Range
<1> QED
  BY <1>1, <1>4, <1>5

LEMMA RangeOfPart ==
  ASSUME NEW S, NEW l \in Seq(S), NEW i \in Nat \ {0}, NEW j \in 0..Len(l)
  PROVE  Range(SubSeq(l, i, j)) \subseteq Range(l)
<1>1. PICK t : t = SubSeq(l, i, j)
  OBVIOUS
<1>2. t \in Seq(S) /\ Len(t) = (IF i <= j THEN j - i + 1 ELSE 0) /\ \A k \in 1..Len(t) : t[k] = l[i + k - 1]
  BY <1>1
<1>3. DOMAIN t = 1..Len(t) /\ DOMAIN l = 1..Len(l) /\ Len(l) \in Nat
  BY <1>2
<1>4. ASSUME NEW x \in Range(t) PROVE x \in Range(l)
  <2>1. PICK k \in 1..Len(t) : t[k] = x
    BY <1>3 DEF Range
  <2>2. i + k - 1 \in 1..Len(l)
    BY <1>2, <1>3
  <2> QED
    BY <2>1, <2>2, <1>2, <1>3 DEF Range
<1> QED
  BY <1>1, <1>4

LEMMA RangeOfAppend ==
  ASSUME NEW S, NEW l \in Seq(S), NEW y, NEW x \in Range(Append(l, y))
  PROVE  x \in Range(l) \/ x = y
<1>1. PICK q : q = Append(l, y)
  OBVIOUS
<1>2. Len(q) = Len(l) + 1 /\ \A i \in 1..Len(l) : q[i] = l[i]
  BY <1>1
<1>3. q[Len(l) + 1] = y /\ DOMAIN q = 1..Len(q) /\ DOMAIN l = 1..Len(l) /\ Len(l) \in Nat
  BY <1>1
<1>4. PICK i \in 1..Len(q) : q[i] = x
  BY <1>1, <1>3 DEF Range
<1> QED
  BY <1>2, <1>3, <1>4 DEF Range

-----------------------------------------------------------------------------
(* The messages.                                                           *)

(* An on_load that binds what the file of the resource names.              *)
Binding(x) ==
  x.what # "FINISHED_KO" /\ (Kind[x.descr] = "composite" \/ (Kind[x.descr] = "pipeline" /\ x.step = 0))

(* p, t and u are what q1, todo and q2 hold.  What is still to be bound has*)
(* no children, and only pipelines go back to the loader.                  *)
MailOK(m, p, t, u) ==
  /\ \A x \in Range(p) : /\ x.what = "LOAD" => m[x.descr].figli = <<>>
                         /\ x.what = "LOAD_CONTINUED" => Kind[x.descr] = "pipeline"
  /\ \A x \in Range(t) \union Range(u) : Binding(x) => m[x.descr].figli = <<>>

(* A load that is on its way is of a resource that is loading.             *)
LEMMA MailExists ==
  ASSUME NEW m, NEW p \in Seq(Request), NEW t \in Seq(Reply), NEW u \in Seq(Reply), NEW lost \in [Res -> Nat],
         NEW away, LoadingOnce(m, away, p), away = [r \in Res |-> Loads(t, r) + Loads(u, r) + lost[r]]
  PROVE  /\ \A x \in Range(p) : x.what # "LOAD_FINISHED" => x.descr \in Sigs /\ Known(m, x.descr)
         /\ \A x \in Range(t) \union Range(u) : x.what # "FINISHED_KO" => x.descr \in Sigs /\ Known(m, x.descr)
<1>1. ASSUME NEW s \in Sigs
      PROVE  /\ Loads(p, s) \in Nat /\ Loads(t, s) \in Nat /\ Loads(u, s) \in Nat
             /\ Loads(p, s) # 0 \/ Loads(t, s) # 0 \/ Loads(u, s) # 0 => Known(m, s)
  <2>1. Loads(p, s) \in Nat /\ Loads(t, s) \in Nat /\ Loads(u, s) \in Nat
    BY LoadsType
  <2>2. s \in Res /\ lost[s] \in Nat
    BY StatusesDiffer
  <2>3. Loads(t, s) + Loads(u, s) + lost[s] + Loads(p, s) = IF m[s].status = "loading" THEN 1 ELSE 0
    BY <2>2 DEF LoadingOnce
  <2>4. PICK i \in Nat, j \in Nat, k \in Nat, l \in Nat :
          i = Loads(t, s) /\ j = Loads(u, s) /\ k = lost[s] /\ l = Loads(p, s)
    BY <2>1, <2>2
  <2>5. i + j + k + l = IF m[s].status = "loading" THEN 1 ELSE 0
    BY <2>3, <2>4
  <2>6. l # 0 \/ i # 0 \/ j # 0 => i + j + k + l # 0
    OBVIOUS
  <2>7. l # 0 \/ i # 0 \/ j # 0 => m[s].status = "loading"
    BY <2>5, <2>6
  <2> QED
    BY <2>1, <2>4, <2>7 DEF Known
<1>2. ASSUME NEW S, NEW l \in Seq(S), NEW x \in Range(l), NEW s, Carries(x, s)
      PROVE  Loads(l, s) # 0
  <2>1. PICK i \in 1..Len(l) : l[i] = x
    BY DEF Range
  <2> QED
    BY <2>1, <1>2, LoadsType
<1>3. ASSUME NEW x \in Range(p), x.what # "LOAD_FINISHED" PROVE x.descr \in Sigs /\ Known(m, x.descr)
  <2>1. PICK s \in Sigs : s = x.descr
    BY RequestIs
  <2>2. Loads(p, s) # 0
    BY <2>1, <1>2, <1>3 DEF Carries
  <2> QED
    BY <2>1, <2>2, <1>1
<1>4. ASSUME NEW l \in Seq(Reply), NEW x \in Range(l), x.what # "FINISHED_KO"
      PROVE  /\ x.descr \in Sigs /\ Loads(l, x.descr) # 0
  <2>1. x \in Reply
    BY DEF Range
  <2>2. x.descr \in Sigs /\ Carries(x, x.descr)
    BY <2>1, <1>4 DEF Reply, Carries
  <2> QED
    BY <2>2, <1>2
<1>5. ASSUME NEW x \in Range(t) \union Range(u), x.what # "FINISHED_KO"
      PROVE  x.descr \in Sigs /\ Known(m, x.descr)
  <2>1. PICK s : s = x.descr
    OBVIOUS
  <2>2. s \in Sigs /\ (Loads(t, s) # 0 \/ Loads(u, s) # 0)
    BY <2>1, <1>4, <1>5
  <2> QED
    BY <2>1, <2>2, <1>1
<1> QED
  BY <1>3, <1>5

(* What keeps the children of the signatures keeps the messages true.      *)
LEMMA MailKept ==
  ASSUME NEW m, NEW p \in Seq(Request), NEW t \in Seq(Reply), NEW u \in Seq(Reply), NEW lost \in [Res -> Nat],
         NEW away, LoadingOnce(m, away, p), away = [r \in Res |-> Loads(t, r) + Loads(u, r) + lost[r]],
         MailOK(m, p, t, u), NEW n, LoadingOnce(n, away, p),
         \A s \in Sigs : Known(m, s) /\ Known(n, s) => n[s].figli = m[s].figli \/ n[s].figli = <<>>
  PROVE  MailOK(n, p, t, u)
<1>1. /\ \A x \in Range(p) : x.what # "LOAD_FINISHED" => x.descr \in Sigs /\ Known(m, x.descr)
      /\ \A x \in Range(t) \union Range(u) : x.what # "FINISHED_KO" => x.descr \in Sigs /\ Known(m, x.descr)
  BY MailExists
<1>2. /\ \A x \in Range(p) : x.what # "LOAD_FINISHED" => x.descr \in Sigs /\ Known(n, x.descr)
      /\ \A x \in Range(t) \union Range(u) : x.what # "FINISHED_KO" => x.descr \in Sigs /\ Known(n, x.descr)
  BY MailExists
<1>3. ASSUME NEW x \in Range(p), x.what = "LOAD" PROVE n[x.descr].figli = <<>>
  <2>1. x.what # "LOAD_FINISHED" /\ m[x.descr].figli = <<>>
    BY <1>3 DEF MailOK
  <2> QED
    BY <2>1, <1>1, <1>2
<1>4. ASSUME NEW x \in Range(t) \union Range(u), Binding(x) PROVE n[x.descr].figli = <<>>
  <2>1. x.what # "FINISHED_KO" /\ m[x.descr].figli = <<>>
    BY <1>4 DEF MailOK, Binding
  <2> QED
    BY <2>1, <1>1, <1>2
<1> QED
  BY <1>3, <1>4 DEF MailOK

(* What creates and asks keeps the messages true, but for what it binds.   *)
LEMMA MailAdds ==
  ASSUME NEW e, NEW h, NEW away, EngineOK(e, h, away),
         NEW t \in Seq(Reply), NEW u \in Seq(Reply), NEW lost \in [Res -> Nat],
         away = [r \in Res |-> Loads(t, r) + Loads(u, r) + lost[r]],
         MailOK(e.mem, e.q1, t, u), NEW v, FreshLoads(v), NEW S, Adds(e, v, S),
         NEW t2, Range(t2) \subseteq Range(t),
         \A x \in Range(t2) \union Range(u) : Binding(x) => x.descr \notin S
  PROVE  MailOK(v.mem, v.q1, t2, u)
<1>1. PICK m, p : m = e.mem /\ p = e.q1
  OBVIOUS
<1>2. p \in Seq(Request) /\ LoadingOnce(m, away, p)
  BY <1>1 DEF EngineOK
<1>3. \A x \in Range(t) \union Range(u) : x.what # "FINISHED_KO" => x.descr \in Sigs /\ Known(m, x.descr)
  BY <1>2, MailExists
<1>4. ASSUME NEW x \in Range(v.q1), x.what = "LOAD_CONTINUED" PROVE Kind[x.descr] = "pipeline"
  <2>1. x \in Range(p)
    BY <1>1, <1>4 DEF Adds
  <2> QED
    BY <2>1, <1>1, <1>4 DEF MailOK
<1>5. ASSUME NEW x \in Range(t2) \union Range(u), Binding(x) PROVE v.mem[x.descr].figli = <<>>
  <2>1. x \in Range(t) \union Range(u)
    OBVIOUS
  <2>2. x.what # "FINISHED_KO" /\ m[x.descr].figli = <<>>
    BY <2>1, <1>1, <1>5 DEF MailOK, Binding
  <2>3. x.descr \in Res /\ Known(m, x.descr) /\ x.descr \notin S
    BY <2>1, <2>2, <1>3, <1>5, StatusesDiffer
  <2> QED
    BY <2>2, <2>3, <1>1 DEF Adds
<1>6. \A x \in Range(v.q1) : x.what = "LOAD" => v.mem[x.descr].figli = <<>>
  BY DEF FreshLoads
<1> QED
  BY <1>4, <1>5, <1>6 DEF MailOK

(* The engine sends one message more.                                      *)
LEMMA MailSent ==
  ASSUME NEW m, NEW p \in Seq(Request), NEW t, NEW u, MailOK(m, p, t, u),
         NEW y \in Request, y.what # "LOAD", y.what = "LOAD_CONTINUED" => Kind[y.descr] = "pipeline"
  PROVE  MailOK(m, Append(p, y), t, u)
<1>1. \A x \in Range(Append(p, y)) : x \in Range(p) \/ x = y
  BY RangeOfAppend
<1> QED
  BY <1>1 DEF MailOK

-----------------------------------------------------------------------------
(* The application hot reloads nothing that hangs below something else: it *)
(* shows no assets in materials, and no file names another.                *)
OnTop ==
  app.textures \subseteq Hands /\ (\A s \in Sigs : Binds[s] = <<>>) /\ MaxReload + 1 < NotReadyMod

Fits == CountersFit /\ (NoReload \/ OnTop)

(* What is on no list of children.                                         *)
Tops == (Hands \ {Bianca}) \union (IF NoReload THEN {} ELSE Assets)

Trust == Honest(mem, Tops, 1 + reloads) /\ MailOK(mem, q1, todo, q2)

LEMMA TopsIs ==
  ASSUME Shape, Fits
  PROVE  /\ Tops \intersect Sigs = {} /\ Bianca \notin Tops /\ \A h \in Hands : h # Bianca => h \in Tops
         /\ \A s \in Sigs : \A a \in Range(Binds[s]) : a \notin Tops
         /\ \A r \in app.textures : r \notin Tops
         /\ 1 + reloads \in Nat \ {0} /\ reloads \in Nat
         /\ ~NoReload => OnTop /\ \A a \in Assets : a \in Tops
<1>1. Tops \intersect Sigs = {} /\ Bianca \notin Tops /\ \A h \in Hands : h # Bianca => h \in Tops
  BY Res2Assumption, StatusesDiffer DEF Tops
<1>2. ASSUME NEW s \in Sigs, NEW a \in Range(Binds[s]) PROVE a \notin Tops
  <2>1. Binds[s] \in Seq(Assets)
    BY Res2Assumption
  <2>2. a \in Assets
    BY <2>1 DEF Range
  <2>3. CASE NoReload
    BY <2>2, <2>3, StatusesDiffer DEF Tops
  <2>4. CASE ~NoReload
    <3>1. Binds[s] = <<>>
      BY <2>4 DEF Fits, OnTop
    <3> QED
      BY <3>1 DEF Range
  <2> QED
    BY <2>3, <2>4
<1>3. ASSUME NEW r \in app.textures PROVE r \notin Tops
  <2>1. r \in Assets \union Hands
    BY Res2Assumption DEF Shape
  <2>2. ~(r \in Hands \ {Bianca})
    <3>1. r \in UNION {x.textures : x \in Apps}
      BY DEF Shape
    <3>2. r \in Hands \ {Bianca} => Layer[r] < Layer[r]
      BY <3>1, LayerAssumption
    <3>3. r \in Res /\ Layer[r] \in Int
      BY <2>1, StatusesDiffer, LayerAssumption, GraphAssumption
    <3> QED
      BY <3>2, <3>3
  <2>3. ~NoReload => r \notin Assets
    BY StatusesDiffer DEF Fits, OnTop
  <2> QED
    BY <2>2, <2>3 DEF Tops
<1>4. reloads \in Nat
  BY Res2Assumption DEF Shape
<1>5. ~NoReload => OnTop /\ \A a \in Assets : a \in Tops
  BY DEF Fits, Tops
<1> QED
  BY <1>1, <1>2, <1>3, <1>4, <1>5

LEMMA TopsStay ==
  ASSUME app' = app
  PROVE  Tops' = Tops /\ (Fits => Fits')
BY DEF Tops, Fits, NoReload, OnTop, CountersFit

LEMMA TrustedNow ==
  ASSUME NEW lost, Consistent(lost), Trust
  PROVE  /\ Trusted(Engine, Tops, 1 + reloads) /\ MailOK(Engine.mem, Engine.q1, todo, q2)
         /\ EngineOK(Engine, held, Away(lost)) /\ lost \in [Res -> Nat]
         /\ Away(lost) = [r \in Res |-> Loads(todo, r) + Loads(q2, r) + lost[r]]
<1>1. Engine.mem = mem /\ Engine.q1 = q1 /\ EngineOK(Engine, held, Away(lost))
  BY AwayType
<1> QED
  BY <1>1 DEF Trusted, Trust, FreshLoads, MailOK, Away, Consistent, LostLoads

(* A step that creates and asks.                                           *)
LEMMA EngineTrust ==
  ASSUME Shape, NEW lost, Consistent(lost), Trust,
         NEW v, Trusted(v, Tops, 1 + reloads), Adds(Engine, v, {}),
         mem' = v.mem, q1' = v.q1, UNCHANGED <<app, todo, q2, reloads>>
  PROVE  Trust'
<1>1. PICK e, h, a, t, u, S : e = Engine /\ h = held /\ a = Away(lost) /\ t = todo /\ u = q2 /\ S = {}
  OBVIOUS
<1>2. /\ MailOK(e.mem, e.q1, t, u) /\ EngineOK(e, h, a) /\ lost \in [Res -> Nat]
      /\ a = [r \in Res |-> Loads(t, r) + Loads(u, r) + lost[r]]
  BY <1>1, TrustedNow
<1>3. t \in Seq(Reply) /\ u \in Seq(Reply) /\ Range(t) \subseteq Range(t)
  BY <1>1 DEF Shape
<1>4. FreshLoads(v) /\ Adds(e, v, S) /\ \A x \in Range(t) \union Range(u) : Binding(x) => x.descr \notin S
  BY <1>1 DEF Trusted
<1>5. MailOK(v.mem, v.q1, todo, q2)
  <2>1. MailOK(v.mem, v.q1, t, u)
    BY <1>2, <1>3, <1>4, MailAdds
  <2> QED
    BY <2>1, <1>1
<1>6. Tops' = Tops
  BY TopsStay
<1> QED
  BY <1>5, <1>6 DEF Trust, Trusted

(* A step that sends and receives nothing.                                 *)
LEMMA QuietTrust ==
  ASSUME Shape, NEW lost, Consistent(lost), Consistent(lost)', Trust,
         NEW n, mem' = n, NEW k, k = 1 + reloads', Honest(n, Tops, k),
         UNCHANGED <<app, q1, todo, q2>>,
         \A s \in Sigs : Known(mem, s) /\ Known(n, s) => n[s].figli = mem[s].figli \/ n[s].figli = <<>>
  PROVE  Trust'
<1>1. PICK a : a = Away(lost)
  OBVIOUS
<1>2. /\ EngineOK(Engine, held, a) /\ lost \in [Res -> Nat] /\ Engine.mem = mem /\ Engine.q1 = q1
      /\ a = [r \in Res |-> Loads(todo, r) + Loads(q2, r) + lost[r]]
  BY <1>1, TrustedNow, AwayType
<1>3. q1 \in Seq(Request) /\ LoadingOnce(mem, a, q1)
  BY <1>2 DEF EngineOK
<1>4. todo \in Seq(Reply) /\ q2 \in Seq(Reply)
  BY DEF Shape
<1>5. LoadingOnce(n, a, q1)
  <2>1. Away(lost)' = a
    BY <1>1 DEF Away
  <2>2. Engine' = [mem |-> n, q1 |-> q1]
    BY DEF Engine
  <2>3. EngineOK(Engine, held, Away(lost))'
    BY DEF Consistent
  <2>4. LoadingOnce(Engine.mem, Away(lost), Engine.q1)'
    BY <2>3 DEF EngineOK
  <2> QED
    BY <2>1, <2>2, <2>4
<1>6. MailOK(mem, q1, todo, q2)
  BY DEF Trust
<1>7. MailOK(n, q1, todo, q2)
  BY <1>2, <1>3, <1>4, <1>5, <1>6, MailKept
<1>8. Tops' = Tops
  BY TopsStay
<1> QED
  BY <1>7, <1>8 DEF Trust

LEMMA CreateTrust ==
  ASSUME Shape, Fits, NEW lost, Consistent(lost), Trust, app' = app,
         NEW a \in app.assets, NEW asap, CreateFromAsset(a, asap)
  PROVE  Trust'
<1>1. a \in Assets /\ db[a] \in Versions[a]
  BY Res2Assumption DEF Shape
<1>2. /\ Tops \intersect Sigs = {} /\ 1 + reloads \in Nat \ {0} /\ CountersFit
  BY TopsIs DEF Fits
<1>3. PICK e, h, w, T, k : e = Engine /\ h = held /\ w = Away(lost) /\ T = Tops /\ k = 1 + reloads
  OBVIOUS
<1>4. EngineOK(e, h, w) /\ Trusted(e, T, k) /\ T \intersect Sigs = {} /\ k \in Nat \ {0}
  BY <1>2, <1>3, TrustedNow
<1>5. PICK v : v = GetOrCreateAsset(e, a, asap)
  OBVIOUS
<1>6. /\ mem' = v.mem /\ q1' = v.q1 /\ UNCHANGED <<app, todo, q2, reloads>>
  BY <1>3, <1>5 DEF CreateFromAsset
<1>7. Trusted(v, T, k) /\ Adds(e, v, {})
  <2>1. Trusted(GetOrCreateAsset(e, a, asap), T, k) /\ Adds(e, GetOrCreateAsset(e, a, asap), {})
    BY <1>1, <1>2, <1>4, GetAssetTrusted
  <2> QED
    BY <2>1, <1>5
<1> QED
  BY <1>3, <1>6, <1>7, EngineTrust

LEMMA GetTrust ==
  ASSUME Shape, Fits, NEW lost, Consistent(lost), Trust, app' = app, NEW r \in Res, Get(r)
  PROVE  Trust'
<1>2. 1 + reloads \in Nat
  BY TopsIs
<1>3. PICK e, h, w, T, k : e = Engine /\ h = held /\ w = Away(lost) /\ T = Tops /\ k = 1 + reloads
  OBVIOUS
<1>4. EngineOK(e, h, w) /\ Trusted(e, T, k) /\ k \in Nat
  BY <1>2, <1>3, TrustedNow
<1>5. PICK v : v = ScheduleLoad[Depth][<<e, r>>]
  OBVIOUS
<1>6. /\ mem' = v.mem /\ q1' = v.q1 /\ UNCHANGED <<app, todo, q2, reloads>>
  BY <1>3, <1>5 DEF Get
<1>7. EngineOK(v, h, w) /\ Asks(e, v)
  <2>1. e \in EngineSet /\ h \in [Res -> Nat] /\ w \in [Res -> Nat]
    BY <1>4 DEF EngineOK
  <2> QED
    BY <2>1, <1>4, <1>5, ScheduleLoadIs DEF Schedules
<1>8. Trusted(v, T, k) /\ Adds(e, v, {})
  BY <1>4, <1>7, AsksTrusted
<1> QED
  BY <1>3, <1>6, <1>8, EngineTrust

LEMMA ReleaseTrust ==
  ASSUME Shape, Fits, NEW lost, Consistent(lost), Consistent(lost)', Trust, app' = app,
         NEW r \in Res, Release(r), Spares(mem, mem', r)
  PROVE  Trust'
<1>1. PICK T, k, n, b : T = Tops /\ k = 1 + reloads /\ n = mem' /\ b = Base(held, Away(lost), q1)'
  OBVIOUS
<1>2. UNCHANGED <<app, q1, todo, q2, reloads>> /\ k = 1 + reloads'
  BY <1>1 DEF Release
<1>3. k \in Nat /\ Honest(mem, T, k) /\ mem \in Memory
  BY <1>1, TopsIs, AwayType DEF Trust
<1>4. Sound(n, b)
  <2>1. EngineOK(Engine, held, Away(lost))'
    BY DEF Consistent
  <2>2. Sound(mem, Base(held, Away(lost), q1))'
    BY <2>1 DEF EngineOK, Engine
  <2> QED
    BY <2>2, <1>1
<1>5. Spares(mem, n, r)
  BY <1>1
<1>6. Honest(n, T, k)
  BY <1>3, <1>4, <1>5, SparedHonest
<1>7. \A s \in Sigs : Known(mem, s) /\ Known(n, s) => n[s].figli = mem[s].figli
  BY <1>5, StatusesDiffer DEF Spares, Survives, SameHandle
<1> QED
  BY <1>1, <1>2, <1>6, <1>7, QuietTrust

LEMMA MadeTrust ==
  ASSUME Shape, Fits, NEW lost, Consistent(lost), Consistent(lost)', Trust, app' = app,
         NEW p \in Hands, MaterialCreate(p), Unmoved(mem, mem', p)
  PROVE  Trust'
<1>1. PICK T, k, n, b : T = Tops /\ k = 1 + reloads /\ n = mem' /\ b = Base(held, Away(lost), q1)
  OBVIOUS
<1>2. UNCHANGED <<app, q1, todo, q2, reloads>> /\ k = 1 + reloads' /\ p # Bianca /\ ~Known(mem, p)
  BY <1>1 DEF MaterialCreate
<1>3. n = NewMaterial(mem, p)
  BY <1>1 DEF MaterialCreate, NewMaterial, WithBianca
<1>4. k \in Nat /\ Honest(mem, T, k) /\ p \in T /\ Bianca \notin T /\ CountersFit
  BY <1>1, <1>2, TopsIs DEF Trust, Fits
<1>5. Sound(mem, b) /\ b[Bianca] > 0
  <2>1. Sound(mem, b)
    BY <1>1, AwayType
  <2>2. Bianca \in Res /\ held[Bianca] > 0
    BY Res2Assumption, StatusesDiffer DEF Shape
  <2>3. held \in [Res -> Nat] /\ Away(lost) \in [Res -> Nat] /\ q1 \in Seq(Request)
    BY AwayType
  <2>4. b[Bianca] > 0
    BY <2>2, <2>3, <1>1, BaseFewer
  <2> QED
    BY <2>1, <2>4
<1>6. Honest(n, T, k)
  BY <1>2, <1>3, <1>4, <1>5, MadeHonest
<1>7. \A s \in Sigs : Known(mem, s) /\ Known(n, s) => n[s].figli = mem[s].figli
  BY <1>1, StatusesDiffer DEF Unmoved
<1> QED
  BY <1>1, <1>2, <1>6, <1>7, QuietTrust

LEMMA UpdateTrust ==
  ASSUME Shape, Fits, NEW lost, Consistent(lost), Consistent(lost)', Trust, app' = app,
         NEW p \in Hands, NEW d \in app.textures \union {None}, NEW n \in app.textures \union {None},
         MaterialUpdate(p, d, n), Updates(mem, mem', p)
  PROVE  Trust'
<1>1. /\ p # Bianca /\ held[p] > 0 /\ p \in Res /\ IsReady(mem, p)
      /\ \A r \in {d, n} \ {None} : held[r] > 0
      /\ UNCHANGED <<app, held, q1, q2, todo, reloads>>
  BY StatusesDiffer DEF MaterialUpdate
<1>2. PICK T, k, h, a, b : T = Tops /\ k = 1 + reloads /\ h = held /\ a = Away(lost) /\ b = Base(h, a, q1)
  OBVIOUS
<1>3. k \in Nat /\ Honest(mem, T, k) /\ p \in T /\ CountersFit
  BY <1>1, <1>2, TopsIs DEF Trust, Fits
<1>4. /\ EngineOK(At(mem, q1), h, a) /\ target[p] \in [Slots -> Data]
      /\ h \in [Res -> Nat] /\ a \in [Res -> Nat] /\ q1 \in Seq(Request) /\ Sound(mem, b)
  BY <1>2, AwayType DEF At, Engine, Shape, Data
<1>5. ASSUME NEW r \in Res, h[r] > 0 PROVE b[r] > 0
  BY <1>2, <1>4, <1>5, BaseFewer
<1>6. ASSUME NEW r \in {d, n}, r # None
      PROVE  r \in Assets \union Hands /\ h[r] > 0 /\ Layer[r] < Layer[p] /\ r \in Res /\ b[r] > 0 /\ r \notin T
  <2>1. r \in app.textures /\ app \in Apps
    BY <1>6 DEF Shape
  <2>2. r \in Assets \union Hands
    BY <2>1, Res2Assumption
  <2>3. r \in UNION {x.textures : x \in Apps}
    BY <2>1
  <2>4. r \in Res /\ h[r] > 0
    BY <2>2, <1>1, <1>2, <1>6, StatusesDiffer
  <2>5. Layer[r] < Layer[p]
    BY <2>3, <1>1, LayerAssumption
  <2>6. r \notin T
    BY <2>1, <1>2, TopsIs
  <2> QED
    BY <2>2, <2>4, <2>5, <2>6, <1>5
<1>7. PICK t0 : t0 = target[p]
  OBVIOUS
<1>8. "diffuse" \in Slots /\ "normal" \in Slots /\ t0 \in [Slots -> Data] /\ h[p] > 0 /\ b[p] > 0
  BY <1>1, <1>2, <1>4, <1>5, <1>7 DEF Slots
<1>9. PICK m1, t1 : /\ Set([mem |-> mem, tgt |-> t0], p, "diffuse", d) = [mem |-> m1, tgt |-> t1]
                    /\ EngineOK(At(m1, q1), h, a) /\ t1 \in [Slots -> Data]
  <2>1. d # None => d \in Assets \union Hands /\ h[d] > 0 /\ Layer[d] < Layer[p]
    BY <1>6
  <2>2. Updated(Set([mem |-> mem, tgt |-> t0], p, "diffuse", d), mem, t0, q1, h, a, p)
    BY <2>1, <1>4, <1>8, SetIs
  <2> QED
    BY <2>2 DEF Updated
<1>10. PICK m2, t2 : /\ Set([mem |-> m1, tgt |-> t1], p, "normal", n) = [mem |-> m2, tgt |-> t2]
                     /\ EngineOK(At(m2, q1), h, a)
  <2>1. n # None => n \in Assets \union Hands /\ h[n] > 0 /\ Layer[n] < Layer[p]
    BY <1>6
  <2>2. Updated(Set([mem |-> m1, tgt |-> t1], p, "normal", n), m1, t1, q1, h, a, p)
    BY <2>1, <1>8, <1>9, SetIs
  <2> QED
    BY <2>2 DEF Updated
<1>11. mem' = m2
  <2>1. PICK v : v = [mem |-> m2, tgt |-> t2]
    OBVIOUS
  <2>2. v = Set(Set([mem |-> mem, tgt |-> target[p]], p, "diffuse", d), p, "normal", n)
    BY <2>1, <1>7, <1>9, <1>10
  <2>3. mem' = v.mem
    BY <2>2 DEF MaterialUpdate, Set
  <2> QED
    BY <2>1, <2>3
<1>12. mem[p].status = "ready" /\ mem[p].notReady <= 0 /\ 0 \in Nat /\ 0 + 1 < NotReadyMod
  BY <1>1, <1>3, GraphAssumption DEF IsReady, CountersFit
<1>13. Honest(m1, T, k) /\ m1[p].notReady <= 1 /\ m1[p].status = "ready"
  <2>1. d # None => d \in Res /\ b[d] > 0 /\ Layer[d] < Layer[p] /\ d \notin T
    BY <1>6
  <2>2. PICK z \in Nat : z = 0
    OBVIOUS
  <2>3. mem[p].notReady <= z /\ z + 1 < NotReadyMod
    BY <2>2, <1>12
  <2>4. Honest(m1, T, k) /\ m1[p].notReady <= z + 1 /\ m1[p].status = "ready"
    BY <2>1, <2>3, <1>3, <1>4, <1>8, <1>9, <1>12, SetHonest
  <2> QED
    BY <2>2, <2>4
<1>14. Honest(m2, T, k)
  <2>1. n # None => n \in Res /\ b[n] > 0 /\ Layer[n] < Layer[p] /\ n \notin T
    BY <1>6
  <2>2. PICK z \in Nat : z = 1
    OBVIOUS
  <2>3. m1[p].notReady <= z /\ z + 1 < NotReadyMod
    BY <2>2, <1>3, <1>13, GraphAssumption DEF CountersFit
  <2>4. Sound(m1, b)
    BY <1>2, <1>9 DEF EngineOK, At
  <2> QED
    BY <2>1, <2>3, <2>4, <1>3, <1>8, <1>10, <1>13, SetHonest
<1>15. \A s \in Sigs : Known(mem, s) /\ Known(m2, s) => m2[s].figli = mem[s].figli
  BY <1>11, StatusesDiffer DEF Updates
<1> QED
  BY <1>1, <1>2, <1>11, <1>14, <1>15, QuietTrust

(* asset_hotreload keeps the children of what is not the asset, or         *)
(* destroys it.                                                            *)
LEMMA ShownFigli ==
  ASSUME NEW m, NEW b, Sound(m, b), NEW T, NEW k \in Nat, Honest(m, T, k),
         NEW a \in Assets, NEW old \in Range(m[a].figli), NEW s \in Versions[a], Known(m, a),
         NEW n, n = Shown(m, a, old, s)
  PROVE  \A q \in Res : q # a => n[q].figli = m[q].figli \/ n[q].figli = <<>>
<1>0. /\ a \in Res /\ a \notin Sigs /\ s \in Sigs /\ s \in Res /\ Layer[s] < Layer[a]
      /\ m \in Memory /\ b \in [Res -> Nat]
  BY StatusesDiffer, Res2Assumption, LayerAssumption DEF Sound
<1>1. PICK m1, c : m1 = RemoveChild(m, a, old) /\ c = More(b, old)
  OBVIOUS
<1>2. old \in Res /\ Layer[old] < Depth /\ c[old] > 0
  <2>1. old \in Res
    BY <1>0, Below
  <2>2. Layer[old] < Depth
    BY <2>1, LayerAssumption, GraphAssumption
  <2> QED
    BY <2>1, <2>2, <1>0, <1>1, FewerOfMore
<1>3. Sound(m1, c) /\ \A q \in Res : q # a => m1[q].figli = m[q].figli
  BY <1>0, <1>1, SoundRemoveChild
<1>4. PICK m2 : m2 = Released[Depth][<<m1, old>>]
  OBVIOUS
<1>5. Sound(m2, b) /\ Known(m2, a)
  BY <1>0, <1>1, <1>4, LetGoHonest
<1>6. Spares(m1, m2, old)
  <2>1. m1 \in Memory /\ c \in [Res -> Nat]
    BY <1>3 DEF Sound
  <2> QED
    BY <2>1, <1>2, <1>3, <1>4, ReleasedIs DEF Releases
<1>7. \A q \in Res : q # a => m2[q].figli = m[q].figli \/ m2[q].figli = <<>>
  BY <1>3, <1>5, <1>6 DEF Spares, Survives, SameHandle, Sound, FreeUnused
<1>8. PICK m3, d : m3 = GetOrCreateSig(m2, s) /\ d = More(b, s)
  OBVIOUS
<1>9. /\ Sound(m3, d)
      /\ \A q \in Res : /\ m3[q].status = IF q = s /\ ~Known(m2, s) THEN "unloaded" ELSE m2[q].status
                        /\ m3[q].figli = m2[q].figli
  BY <1>5, <1>0, <1>8, GetOrCreateSigIs
<1>10. d[s] > 0 /\ Known(m3, a)
  BY <1>0, <1>5, <1>8, <1>9, FewerOfMore DEF Known
<1>11. n = AddChild(m3, a, s)
  BY <1>1, <1>4, <1>8 DEF Shown
<1>12. \A q \in Res : q # a => n[q].figli = m3[q].figli
  <2>1. \A q \in Res : n[q].figli = IF q = a THEN <<s>> \o m3[q].figli ELSE m3[q].figli
    BY <1>0, <1>9, <1>10, <1>11, SoundAddChild
  <2> QED
    BY <2>1
<1> QED
  BY <1>7, <1>9, <1>12

LEMMA ReloadTrust ==
  ASSUME Shape, Fits, NEW lost, Consistent(lost), Consistent(lost)', Trust, app' = app,
         NEW a \in Assets, NEW s \in Versions[a], HotReload(a, s)
  PROVE  Trust'
<1>1. /\ Known(mem, a) /\ reloads < MaxReload /\ reloads' = reloads + 1
      /\ UNCHANGED <<app, q1, todo, q2>> /\ ~NoReload
  BY DEF HotReload, NoReload
<1>2. PICK T, k, j, b : T = Tops /\ k = 1 + reloads /\ j = 1 + reloads' /\ b = Base(held, Away(lost), q1)
  OBVIOUS
<1>3. k \in Nat /\ Honest(mem, T, k) /\ a \in T /\ T \intersect Sigs = {} /\ OnTop /\ reloads \in Nat
  BY <1>1, <1>2, TopsIs DEF Trust
<1>4. j \in Nat /\ j = k + 1 /\ j < NotReadyMod
  BY <1>1, <1>2, <1>3, Res2Assumption, GraphAssumption DEF OnTop
<1>5. PICK n, old : old = Head(mem[a].figli) /\ n = Shown(mem, a, old, s)
  OBVIOUS
<1>6. mem' = n
  BY <1>5 DEF HotReload, Shown
<1>7. Sound(mem, b) /\ mem[a].status = "ready" /\ old \in Range(mem[a].figli)
  <2>1. AssetsShow(mem) /\ Sound(mem, b)
    BY <1>2, AwayType DEF EngineOK
  <2>2. mem[a].status = "ready" /\ \E x \in Versions[a] : mem[a].figli = <<x>>
    BY <2>1, <1>1 DEF AssetsShow, AssetShows
  <2>3. PICK x, l : l = mem[a].figli /\ l = <<x>>
    BY <2>2
  <2>4. Head(l) = x /\ 1 \in DOMAIN l /\ l[1] = x
    BY <2>3
  <2>5. Head(l) \in Range(l)
    BY <2>4 DEF Range
  <2> QED
    BY <2>1, <2>2, <2>3, <2>5, <1>5
<1>8. Honest(n, T, j)
  BY <1>3, <1>4, <1>5, <1>7, ShownHonest
<1>9. \A q \in Res : q # a => n[q].figli = mem[q].figli \/ n[q].figli = <<>>
  BY <1>1, <1>3, <1>5, <1>7, ShownFigli
<1>10. \A x \in Sigs : Known(mem, x) /\ Known(n, x) => n[x].figli = mem[x].figli \/ n[x].figli = <<>>
  BY <1>9, StatusesDiffer
<1> QED
  BY <1>1, <1>2, <1>6, <1>8, <1>10, QuietTrust

LEMMA MailLess ==
  ASSUME NEW m, NEW p, NEW t, NEW u, MailOK(m, p, t, u), NEW p2, NEW t2, NEW u2,
         Range(p2) \subseteq Range(p), Range(t2) \union Range(u2) \subseteq Range(t) \union Range(u)
  PROVE  MailOK(m, p2, t2, u2)
BY DEF MailOK

LEMMA PopTrust ==
  ASSUME Shape, Trust, app' = app, FlushPop
  PROVE  Trust'
<1>1. q2 \in Seq(Reply) /\ q2 # <<>> /\ UNCHANGED <<app, mem, q1, reloads>>
  BY DEF FlushPop, Shape
<1>2. PICK n, t, u : /\ n = Min({MaxFlush, Len(q2)})
                     /\ t = SubSeq(q2, 1, n) /\ u = SubSeq(q2, n + 1, Len(q2))
  OBVIOUS
<1>3. todo' = t /\ q2' = u
  BY <1>2 DEF FlushPop
<1>4. n \in 0..Len(q2) /\ n + 1 \in Nat \ {0} /\ 1 \in Nat \ {0} /\ Len(q2) \in 0..Len(q2)
  <2>1. MaxFlush \in Nat /\ Len(q2) \in Nat
    BY <1>1, Res2Assumption
  <2>2. {MaxFlush, Len(q2)} \in SUBSET Nat /\ {MaxFlush, Len(q2)} # {} /\ Len(q2) \in {MaxFlush, Len(q2)}
    BY <2>1
  <2>3. n \in {MaxFlush, Len(q2)} /\ n <= Len(q2)
    BY <2>2, <1>2, MinIsLeast
  <2> QED
    BY <2>1, <2>3
<1>5. Range(t) \subseteq Range(q2) /\ Range(u) \subseteq Range(q2)
  BY <1>1, <1>2, <1>4, RangeOfPart
<1>6. MailOK(mem, q1, t, u)
  BY <1>5, MailLess DEF Trust
<1>7. Tops' = Tops
  BY TopsStay
<1> QED
  BY <1>1, <1>3, <1>6, <1>7 DEF Trust

LEMMA LoaderTrust ==
  ASSUME Shape, NEW lost, Consistent(lost), Trust, app' = app, LoaderStep
  PROVE  Trust'
<1>1. q1 # <<>> /\ q1' = Tail(q1) /\ UNCHANGED <<app, mem, todo, reloads>>
      /\ q1 \in Seq(Request) /\ q2 \in Seq(Reply)
  BY AwayType DEF LoaderStep, Shape
<1>2. PICK x, p : x = Head(q1) /\ p = Tail(q1)
  OBVIOUS
<1>3. Range(p) \subseteq Range(q1) /\ x \in Range(q1) /\ x \in Request
  <2>1. Range(p) \subseteq Range(q1) /\ x \in Range(q1)
    BY <1>1, <1>2, RangeOfTail
  <2> QED
    BY <2>1, <1>1, RequestIs
<1>4. MailOK(mem, q1, todo, q2)
  BY DEF Trust
<1>5. \/ q2' = q2
      \/ \E y : q2' = Append(q2, y) /\ (y.what = "FINISHED_KO" \/ (y = Answer(x) /\ x.what # "LOAD_FINISHED"))
  <2>1. Msg("FINISHED_KO", None, 0).what = "FINISHED_KO"
    BY DEF Msg
  <2> QED
    BY <2>1, <1>2 DEF LoaderStep
<1>6. ASSUME x.what # "LOAD_FINISHED", Binding(Answer(x)) PROVE mem[Answer(x).descr].figli = <<>>
  <2>1. x.what = "LOAD" \/ x.what = "LOAD_CONTINUED"
    BY <1>3, <1>6 DEF Request, ToLoader
  <2>2. Answer(x).descr = x.descr
    BY DEF Answer, Msg
  <2>3. CASE x.what = "LOAD"
    BY <2>2, <2>3, <1>3, <1>4 DEF MailOK
  <2>4. CASE x.what = "LOAD_CONTINUED"
    <3>1. Kind[x.descr] = "pipeline"
      BY <2>4, <1>3, <1>4 DEF MailOK
    <3>2. Answer(x).step = 1 \/ Answer(x).step = 2
      BY <2>4 DEF Answer, Msg
    <3> QED
      BY <2>2, <3>1, <3>2, <1>6 DEF Binding
  <2> QED
    BY <2>1, <2>3, <2>4
<1>7. PICK u : u = q2'
  OBVIOUS
<1>8. MailOK(mem, p, todo, u)
  <2>1. CASE u = q2
    <3>1. Range(todo) \union Range(q2) \subseteq Range(todo) \union Range(q2)
      OBVIOUS
    <3> QED
      BY <2>1, <3>1, <1>3, <1>4, MailLess
  <2>2. ASSUME NEW y, u = Append(q2, y), y.what = "FINISHED_KO" \/ (y = Answer(x) /\ x.what # "LOAD_FINISHED")
        PROVE  MailOK(mem, p, todo, u)
    <3>1. ASSUME NEW z \in Range(u), Binding(z) PROVE mem[z.descr].figli = <<>>
      <4>1. z \in Range(q2) \/ z = y
        BY <2>2, <1>1, RangeOfAppend
      <4>2. CASE z \in Range(q2)
        BY <4>2, <3>1, <1>4 DEF MailOK
      <4>3. CASE z = y
        BY <4>3, <2>2, <3>1, <1>6 DEF Binding
      <4> QED
        BY <4>1, <4>2, <4>3
    <3> QED
      BY <3>1, <1>3, <1>4 DEF MailOK
  <2> QED
    BY <2>1, <2>2, <1>5, <1>7
<1>9. Tops' = Tops
  BY TopsStay
<1> QED
  BY <1>1, <1>2, <1>7, <1>8, <1>9 DEF Trust

LEMMA OnLoadTrusted ==
  ASSUME Shape, Fits, NEW lost, Consistent(lost), Trust, NEW x \in Reply, x.what # "FINISHED_KO",
         x \in Range(todo), NEW s, s = x.descr, s \in Sigs, Away(lost)[s] > 0, NEW result,
         NEW S, s \in S
  PROVE  Trusted(OnLoad(x, result), Tops, 1 + reloads) /\ Adds(Engine, OnLoad(x, result), S)
<1>1. PICK e, h, w, T, k : e = Engine /\ h = held /\ w = Away(lost) /\ T = Tops /\ k = 1 + reloads
  OBVIOUS
<1>2. /\ EngineOK(e, h, w) /\ Trusted(e, T, k) /\ T \intersect Sigs = {} /\ k \in Nat \ {0} /\ CountersFit
      /\ \A a \in Range(Binds[s]) : a \notin T
  BY <1>1, TrustedNow, TopsIs DEF Fits
<1>3. PICK v : v = OnLoad(x, result)
  OBVIOUS
<1>4. v = e \/ (Binding(x) /\ v = BindAll(e, s, Binds[s]))
  BY <1>1, <1>3 DEF OnLoad, Binding
<1>5. CASE v = e
  BY <1>1, <1>2, <1>3, <1>5 DEF Adds
<1>6. CASE Binding(x) /\ v = BindAll(e, s, Binds[s])
  <2>1. e.mem[s].figli = <<>>
    <3>1. e.mem = mem
      BY <1>1, AwayType
    <3> QED
      BY <3>1, <1>6 DEF Trust, MailOK
  <2>2. \A a \in Assets : db[a] \in Versions[a]
    BY DEF Shape
  <2>3. w[s] > 0
    BY <1>1
  <2>4. Trusted(BindAll(e, s, Binds[s]), T, k) /\ Adds(e, BindAll(e, s, Binds[s]), S)
    BY <2>1, <2>2, <2>3, <1>2, BindAllTrusted
  <2> QED
    BY <2>4, <1>1, <1>3, <1>6
<1> QED
  BY <1>4, <1>5, <1>6

LEMMA FlushTrust ==
  ASSUME Shape, Fits, NEW lost, Consistent(lost), Trust, app' = app, FlushOne
  PROVE  Trust'
<1>0. /\ todo # <<>> /\ todo' = Tail(todo) /\ UNCHANGED <<app, held, q2, reloads>>
      /\ q2 \in Seq(Reply) /\ todo \in Seq(Reply) /\ lost \in [Res -> Nat]
  BY DEF FlushOne, Shape, Consistent, LostLoads
<1>1. PICK x, t, u : x = Head(todo) /\ t = Tail(todo) /\ u = q2
  OBVIOUS
<1>2. /\ x \in Reply /\ t \in Seq(Reply) /\ u \in Seq(Reply)
      /\ x.what # "FINISHED_KO" =>
           x.descr \in Sigs /\ \A r \in Res : Loads(todo, r) = Loads(t, r) + (IF r = x.descr THEN 1 ELSE 0)
      /\ Range(t) \subseteq Range(todo) /\ x \in Range(todo)
  BY <1>0, <1>1, ReplyLoads, RangeOfTail
<1>3. Tops' = Tops
  BY TopsStay
<1>4. /\ MailOK(Engine.mem, Engine.q1, todo, q2) /\ Honest(mem, Tops, 1 + reloads)
      /\ EngineOK(Engine, held, Away(lost)) /\ Engine.mem = mem /\ Engine.q1 = q1
      /\ Away(lost) = [r \in Res |-> Loads(todo, r) + Loads(q2, r) + lost[r]]
  BY TrustedNow, AwayType DEF Trust
<1>5. CASE x.what = "FINISHED_KO"
  <2>1. UNCHANGED <<mem, q1>>
    BY <1>1, <1>5 DEF FlushOne, HandleLoaded
  <2>2. Range(q1) \subseteq Range(q1) /\ Range(t) \union Range(q2) \subseteq Range(todo) \union Range(q2)
    BY <1>2
  <2>3. MailOK(mem, q1, todo, q2)
    BY <1>4
  <2>4. MailOK(mem, q1, t, q2)
    BY <2>2, <2>3, MailLess
  <2> QED
    BY <2>1, <2>4, <1>0, <1>1, <1>3, <1>4 DEF Trust
<1>6. CASE x.what # "FINISHED_KO"
  <2>1. PICK result \in OnLoadResults(x) : HandleLoaded(x, result)
    BY <1>1, <1>6 DEF FlushOne
  <2>2. PICK s, e, v, a, h, T, k, S : /\ s = x.descr /\ e = Engine /\ v = OnLoad(x, result) /\ a = Away(lost)
                                      /\ h = held /\ T = Tops /\ k = 1 + reloads /\ S = {s}
    OBVIOUS
  <2>3. s \in Sigs /\ s \in Res /\ s \in S /\ k \in Nat
    BY <2>2, <1>2, <1>6, StatusesDiffer, TopsIs
  <2>4. a[s] > 0 /\ Loads(t, s) = 0 /\ Loads(u, s) = 0
    <3>1. Loads(t, s) \in Nat /\ Loads(u, s) \in Nat /\ lost[s] \in Nat
      BY <1>0, <1>2, <2>3, LoadsType
    <3>2. a[s] = Loads(t, s) + 1 + Loads(u, s) + lost[s]
      BY <1>1, <1>2, <1>4, <1>6, <2>2, <2>3, <3>1
    <3>3. a[s] > 0
      BY <3>1, <3>2
    <3>4. LoadsOK(e, h, a)
      BY <1>4, <2>2, EngineIs
    <3>5. a[s] = 1
      BY <3>3, <3>4, <2>3, AwayExists
    <3> QED
      BY <3>1, <3>2, <3>5
  <2>5. EngineOK(v, h, a)
    <3>1. EngineOK(OnLoad(x, result), held, Away(lost))
      BY <1>2, <2>2, <2>3, <2>4, OnLoadIs
    <3> QED
      BY <3>1, <2>2
  <2>6. Trusted(v, T, k) /\ Adds(e, v, S)
    <3>1. Away(lost)[s] > 0
      BY <2>2, <2>4
    <3>2. Trusted(OnLoad(x, result), Tops, 1 + reloads) /\ Adds(Engine, OnLoad(x, result), S)
      BY <3>1, <1>2, <1>6, <2>2, <2>3, OnLoadTrusted
    <3> QED
      BY <3>2, <2>2
  <2>7. MailOK(v.mem, v.q1, t, u)
    <3>1. ASSUME NEW l \in Seq(Reply), Loads(l, s) = 0, NEW y \in Range(l), Binding(y) PROVE y.descr \notin S
      <4>1. y \in Reply /\ \E i \in 1..Len(l) : l[i] = y
        BY DEF Range
      <4>2. ~Carries(y, s)
        BY <4>1, <3>1, LoadsType
      <4>3. y.what # "LOAD_FINISHED"
        BY <4>1, <3>1 DEF Reply, Binding
      <4> QED
        BY <4>2, <4>3, <2>2 DEF Carries
    <3>2. \A y \in Range(t) \union Range(u) : Binding(y) => y.descr \notin S
      BY <3>1, <2>4, <1>2
    <3>3. PICK d : d = todo
      OBVIOUS
    <3>4. /\ EngineOK(e, h, a) /\ d \in Seq(Reply) /\ Range(t) \subseteq Range(d)
          /\ a = [r \in Res |-> Loads(d, r) + Loads(u, r) + lost[r]] /\ MailOK(e.mem, e.q1, d, u)
      BY <3>3, <1>0, <1>1, <1>2, <1>4, <2>2
    <3>5. FreshLoads(v)
      BY <2>6 DEF Trusted
    <3> QED
      BY <3>2, <3>4, <3>5, <1>0, <1>2, <2>6, MailAdds
  <2>8. v.q1 \in Seq(Request) /\ Honest(v.mem, T, k)
    BY <2>5, <2>6 DEF EngineOK, Trusted
  <2>9. x \in Message
    BY <1>2 DEF Reply
  <2>10. CASE result = "pending"
    <3>1. x.what = "WANT_CALLBACK" /\ Kind[s] = "pipeline"
      BY <2>1, <2>2, <2>10, <1>2, <1>6 DEF OnLoadResults, Reply
    <3>2. PICK y : y = [x EXCEPT !.what = "LOAD_CONTINUED"]
      OBVIOUS
    <3>3. y \in Request /\ y.descr = s /\ y.what = "LOAD_CONTINUED"
      <4>1. y \in Message /\ y.descr = x.descr /\ y.what = "LOAD_CONTINUED"
        BY <2>9, <3>2 DEF Message, ToLoader
      <4> QED
        BY <4>1, <2>2, <2>3 DEF Request, ToLoader
    <3>4. PICK q : q = Append(v.q1, y)
      OBVIOUS
    <3>5. mem' = v.mem /\ q1' = q
      BY <3>1, <3>2, <3>4, <2>1, <2>2, <2>10 DEF HandleLoaded
    <3>6. MailOK(v.mem, q, t, u)
      BY <3>1, <3>3, <3>4, <2>7, <2>8, MailSent
    <3> QED
      BY <3>5, <3>6, <2>2, <2>8, <1>0, <1>1, <1>3 DEF Trust
  <2>11. CASE result # "pending"
    <3>1. PICK status : status = IF result = "success" THEN "ready" ELSE "error"
      OBVIOUS
    <3>2. PICK n : n = Ended(v.mem, s, status)
      OBVIOUS
    <3>3. PICK y : y = [x EXCEPT !.what = "LOAD_FINISHED"]
      OBVIOUS
    <3>4. PICK q : q = q1'
      OBVIOUS
    <3>5. mem' = n /\ (q = v.q1 \/ q = Append(v.q1, y))
      BY <3>1, <3>2, <3>3, <3>4, <2>1, <2>2, <2>11 DEF HandleLoaded, Ended
    <3>6. Honest(n, T, k) /\ \A r \in Res : n[r].figli = v.mem[r].figli
      <4>1. status \in {"ready", "error"}
        BY <3>1
      <4>2. Honest(n, T, k)
        BY <4>1, <3>2, <2>3, <2>4, <2>5, <2>8, EndTrusted
      <4>3. SameFigli(v.mem, n)
        BY <4>1, <3>2, <2>3, <2>4, <2>5, <2>8, EndTrusted
      <4> QED
        BY <4>2, <4>3 DEF SameFigli
    <3>7. y \in Request /\ y.what = "LOAD_FINISHED"
      <4>1. y \in Message /\ y.descr = x.descr /\ y.what = "LOAD_FINISHED"
        BY <2>9, <3>3 DEF Message, ToLoader
      <4> QED
        BY <4>1, <2>2, <2>3 DEF Request, ToLoader
    <3>8. MailOK(v.mem, q, t, u)
      BY <3>5, <3>7, <2>7, <2>8, MailSent
    <3>9. q \in Seq(Request)
      BY <3>5, <3>7, <2>8
    <3>10. MailOK(n, q, t, u)
      <4>1. ASSUME NEW z \in Range(q), z.what = "LOAD" PROVE n[z.descr].figli = <<>>
        <5>1. z.descr \in Res
          BY <3>9, RequestIs
        <5> QED
          BY <5>1, <4>1, <3>6, <3>8 DEF MailOK
      <4>2. ASSUME NEW l \in Seq(Reply), NEW z \in Range(l), Binding(z) PROVE z.descr \in Res
        <5>1. z \in Reply
          BY DEF Range
        <5> QED
          BY <5>1, <4>2, StatusesDiffer DEF Reply, Binding
      <4>3. ASSUME NEW z \in Range(t) \union Range(u), Binding(z) PROVE n[z.descr].figli = <<>>
        <5>1. z.descr \in Res
          BY <4>2, <4>3, <1>2
        <5> QED
          BY <5>1, <4>3, <3>6, <3>8 DEF MailOK
      <4> QED
        BY <4>1, <4>3, <3>8 DEF MailOK
    <3> QED
      BY <3>4, <3>5, <3>6, <3>10, <2>2, <1>0, <1>1, <1>3 DEF Trust
  <2> QED
    BY <2>10, <2>11
<1> QED
  BY <1>5, <1>6

LEMMA InitTrust == Init => Trust
<1> SUFFICES ASSUME Init PROVE Trust
  OBVIOUS
<1>1. ASSUME NEW r \in Res PROVE mem[r].notReady = 0 /\ mem[r].figli = <<>>
  <2>1. mem[r] = Reserved("ready") \/ mem[r] = FreeSlot
    BY DEF Init
  <2>2. /\ Reserved("ready").notReady = 0 /\ Reserved("ready").figli = <<>>
        /\ FreeSlot.notReady = 0 /\ FreeSlot.figli = <<>>
    BY DEF Reserved, FreeSlot
  <2> QED
    BY <2>1, <2>2
<1>2. ASSUME NEW r \in Res PROVE Unready(mem, mem[r].figli) = 0 /\ Range(mem[r].figli) = {} /\ Len(mem[r].figli) = 0
  BY <1>1, UnreadyNone DEF Range
<1>3. ASSUME NEW s \in Sigs PROVE mem[s].notReady <= Len(mem[s].figli)
  BY <1>1, <1>2, StatusesDiffer
<1>4. ASSUME NEW a \in Assets PROVE mem[a].notReady <= 1 + reloads
  BY <1>1, StatusesDiffer DEF Init
<1>5. Honest(mem, Tops, 1 + reloads)
  BY <1>1, <1>2, <1>3, <1>4, StatusesDiffer DEF Honest, Covers, Unlisted, Room, Blank
<1>6. MailOK(mem, q1, todo, q2)
  BY DEF Init, MailOK, Range
<1> QED
  BY <1>5, <1>6 DEF Trust

LEMMA TrustKeeps ==
  ASSUME IInv, Fits, Trust, Next
  PROVE  Trust'
<1>0. Shape /\ app' = app
  BY DEF IInv, Next
<1>1. PICK lost : Consistent(lost)
  BY DEF IInv
<1>2. ASSUME NEW a \in app.assets, NEW asap \in BOOLEAN, CreateFromAsset(a, asap) PROVE Trust'
  BY <1>0, <1>1, <1>2, CreateTrust
<1>3. ASSUME NEW r \in Res, Get(r) PROVE Trust'
  BY <1>0, <1>1, <1>3, GetTrust
<1>4. ASSUME NEW r \in Res, Release(r) PROVE Trust'
  <2>1. Consistent(lost)' /\ Spares(mem, mem', r)
    BY <1>0, <1>1, <1>4, ReleaseKeeps
  <2> QED
    BY <2>1, <1>0, <1>1, <1>4, ReleaseTrust
<1>5. ASSUME NEW h \in Hands, MaterialCreate(h) PROVE Trust'
  <2>1. Consistent(lost)' /\ Unmoved(mem, mem', h)
    BY <1>0, <1>1, <1>5, MaterialCreateKeeps
  <2> QED
    BY <2>1, <1>0, <1>1, <1>5, MadeTrust
<1>6. ASSUME NEW h \in Hands, NEW d \in app.textures \union {None}, NEW n \in app.textures \union {None},
             MaterialUpdate(h, d, n)
      PROVE  Trust'
  <2>1. Consistent(lost)' /\ Updates(mem, mem', h)
    BY <1>0, <1>1, <1>6, MaterialUpdateKeeps
  <2> QED
    BY <2>1, <1>0, <1>1, <1>6, UpdateTrust
<1>7. ASSUME NEW a \in Assets, NEW s \in Versions[a], HotReload(a, s) PROVE Trust'
  <2>1. Consistent(lost)'
    BY <1>0, <1>1, <1>7, HotReloadKeeps
  <2> QED
    BY <2>1, <1>0, <1>1, <1>7, ReloadTrust
<1>8. ASSUME FlushPop PROVE Trust'
  BY <1>0, <1>8, PopTrust
<1>9. ASSUME FlushOne PROVE Trust'
  BY <1>0, <1>1, <1>9, FlushTrust
<1>10. ASSUME LoaderStep PROVE Trust'
  BY <1>0, <1>1, <1>10, LoaderTrust
<1> QED
  BY <1>2, <1>3, <1>4, <1>5, <1>6, <1>7, <1>8, <1>9, <1>10 DEF Next, AppNext

LEMMA TrustStep ==
  ASSUME IInv, Fits, Trust, [Next]_vars
  PROVE  Fits' /\ Trust'
<1>1. Fits'
  BY AppStays, TopsStay
<1>2. CASE Next
  BY <1>1, <1>2, TrustKeeps
<1>3. CASE UNCHANGED vars
  BY <1>1, <1>3 DEF vars, runVars, Trust, Tops, NoReload
<1> QED
  BY <1>2, <1>3

(* A counter that is zero speaks for every child.                          *)
LEMMA InvReady == IInv /\ Trust => ReadyMeansLoaded
<1> SUFFICES ASSUME IInv, Trust, NEW p \in Res, IsReady(mem, p), NEW c \in Range(mem[p].figli)
             PROVE  IsReady(mem, c)
  BY DEF ReadyMeansLoaded
<1>1. mem \in Memory
  BY AwayType DEF IInv
<1>2. mem[p].figli \in Seq(Res) /\ Unready(mem, mem[p].figli) \in Nat
  BY <1>1, NumbersOf
<1>3. Unready(mem, mem[p].figli) <= mem[p].notReady /\ mem[p].notReady = 0
  BY DEF Trust, Honest, Covers, IsReady
<1>4. Unready(mem, mem[p].figli) = 0
  BY <1>2, <1>3
<1> QED
  BY <1>2, <1>4, AllReady

(* is_ready can be trusted as long as no counter of children that are not  *)
(* ready can reach its end and what is reloaded hangs below nothing: what  *)
(* is ready stands on resources that are loaded, at any depth, whatever the*)
(* graph of assets, the interleaving and the failures.                     *)
THEOREM ReadyIsLoaded == Spec /\ Fits => []ReadyMeansLoaded
<1>1. IInv /\ Fits /\ Trust /\ [Next]_vars => Fits' /\ Trust'
  BY TrustStep
<1> QED
  BY <1>1, InitTrust, InvReady, InvIsInductive, PTL DEF Spec
==============================================================================
