----------------------------- MODULE Gpu_proofs ------------------------------
(*****************************************************************************)
(* Theorems about what the engine and the GPU share: the lists of free       *)
(* ranges and the components that live off them (FreespaceTracker and        *)
(* MemManager for every size of a block and of a page, BufferMan for every   *)
(* size of a buffer), TextureArray for any number of textures and of         *)
(* indices, reserved or not, and the frames in flight for every set of       *)
(* images and every number of swapchains.                                    *)
(*****************************************************************************)
EXTENDS FreespaceTracker, MemManager, BufferMan, TextureArray, Frames, Lemmas

(* Lists of free ranges.                                                   *)

(* A list of ranges within the first n blocks, sorted, no two of which     *)
(* overlap or touch, and what it says about a block.                       *)
RangeRecord == [start : Nat, num : Nat \ {0}]

Covers(r, x) == r.start <= x /\ x < End(r)

InFree(list, x) == \E k \in DOMAIN list : Covers(list[k], x)

Ranges(list, n) ==
  /\ list \in Seq(RangeRecord)
  /\ \A j, k \in DOMAIN list : j < k => End(list[j]) < list[k].start
  /\ \A k \in DOMAIN list : End(list[k]) <= n

LEMMA RecordFields ==
  ASSUME NEW list \in Seq(RangeRecord), NEW k \in DOMAIN list
  PROVE  /\ list[k] \in RangeRecord
         /\ list[k].start \in Nat /\ list[k].num \in Nat \ {0}
         /\ End(list[k]) \in Nat /\ list[k].start < End(list[k])
<1>1. list[k] \in RangeRecord
  OBVIOUS
<1>2. list[k].start \in Nat /\ list[k].num \in Nat \ {0}
  BY <1>1 DEF RangeRecord
<1> QED
  BY <1>1, <1>2 DEF End

LEMMA OneRange ==
  ASSUME NEW n \in Nat \ {0}
  PROVE  /\ Ranges(<<RangeAt(0, n)>>, n)
         /\ \A x \in 0..n - 1 : InFree(<<RangeAt(0, n)>>, x)
<1> DEFINE l == <<RangeAt(0, n)>>
<1>1. l \in Seq(RangeRecord) /\ DOMAIN l = {1} /\ l[1] = RangeAt(0, n)
  BY DEF RangeRecord, RangeAt
<1>2. l[1].start = 0 /\ End(l[1]) = n
  BY <1>1 DEF RangeAt, End
<1> HIDE DEF l
<1> QED
  BY <1>1, <1>2 DEF Ranges, InFree, Covers, l

(* The first range that fits.                                              *)
LEMMA FirstFitIs ==
  ASSUME NEW list \in Seq(RangeRecord), NEW n \in Nat
  PROVE  LET i == FirstFit(list, n) IN
         /\ i \in DOMAIN list \union {0}
         /\ i # 0 => list[i].num >= n
         /\ i = 0 => \A k \in DOMAIN list : list[k].num < n
<1> DEFINE I == {k \in 1..Len(list) : list[k].num >= n}
<1>1. FirstFit(list, n) = IF I # {} THEN Min(I) ELSE 0
  BY DEF FirstFit, SelectInSeq
<1>2. I \in SUBSET Nat /\ DOMAIN list = 1..Len(list)
  OBVIOUS
<1>3. CASE I # {}
  <2> HIDE DEF I
  <2>1. Min(I) \in I
    BY <1>2, <1>3, MinIsLeast
  <2> QED
    BY <1>1, <1>2, <1>3, <2>1 DEF I
<1>4. CASE I = {}
  <2>1. \A k \in DOMAIN list : ~(list[k].num >= n) /\ list[k].num \in Nat
    BY <1>2, <1>4, RecordFields
  <2> QED
    BY <1>1, <1>4, <2>1
<1> QED
  BY <1>3, <1>4

(* A run of free blocks lies under one range, because no two of them touch.*)
LEMMA RunInOneRange ==
  ASSUME NEW n \in Nat, NEW list, Ranges(list, n),
         NEW first \in Nat, NEW num \in Nat \ {0},
         \A x \in first..first + num - 1 : InFree(list, x)
  PROVE  \E k \in DOMAIN list : list[k].start <= first /\ first + num <= End(list[k])
<1>1. PICK k \in DOMAIN list : list[k].start <= first /\ first < End(list[k])
  <2>1. first \in first..first + num - 1
    OBVIOUS
  <2> QED
    BY <2>1 DEF InFree, Covers
<1>2. list[k].start \in Nat /\ End(list[k]) \in Nat
  BY RecordFields DEF Ranges
<1>3. ASSUME End(list[k]) < first + num PROVE FALSE
  <2>1. End(list[k]) \in first..first + num - 1
    BY <1>1, <1>2, <1>3
  <2>2. PICK j \in DOMAIN list : list[j].start <= End(list[k]) /\ End(list[k]) < End(list[j])
    BY <2>1 DEF InFree, Covers
  <2>3. list[j].start \in Nat /\ End(list[j]) \in Nat /\ list[k].start < End(list[k]) /\ j \in Nat /\ k \in Nat
    BY RecordFields DEF Ranges
  <2>4. j < k => End(list[j]) < list[k].start
    BY DEF Ranges
  <2>5. k < j => End(list[k]) < list[j].start
    BY DEF Ranges
  <2> QED
    BY <1>2, <2>2, <2>3, <2>4, <2>5
<1> QED
  BY <1>1, <1>2, <1>3

(* Entries a to b replaced by one that stays clear of the others.  l may   *)
(* differ from list at the entries replaced.                               *)
CanReplace(list, n, l, a, b, e) ==
  /\ l \in Seq(RangeRecord) /\ Len(l) = Len(list)
  /\ a \in 1..Len(list) + 1 /\ b \in a - 1..Len(list)
  /\ \A k \in 1..Len(list) : k < a \/ k > b => l[k] = list[k]
  /\ e \in RangeRecord /\ End(e) <= n
  /\ \A k \in 1..Len(list) : k < a => End(list[k]) < e.start
  /\ \A k \in 1..Len(list) : k > b => End(e) < list[k].start

LEMMA Replace ==
  ASSUME NEW n \in Nat, NEW list, Ranges(list, n),
         NEW l, NEW a, NEW b, NEW e, CanReplace(list, n, l, a, b, e)
  PROVE  /\ Ranges(Spliced(l, a, b, e), n)
         /\ \A x : InFree(Spliced(l, a, b, e), x)
                   <=> \/ Covers(e, x)
                       \/ \E k \in DOMAIN list : (k < a \/ k > b) /\ Covers(list[k], x)
<1> DEFINE t == Spliced(l, a, b, e)
           m == Len(list)
           d == b - a
           At(k) == IF k < a THEN k ELSE k + d   \* where entry k of t comes from
<1>0. /\ l \in Seq(RangeRecord) /\ Len(l) = Len(list)
      /\ a \in 1..Len(list) + 1 /\ b \in a - 1..Len(list)
      /\ \A k \in 1..Len(list) : k < a \/ k > b => l[k] = list[k]
      /\ e \in RangeRecord /\ End(e) <= n
      /\ \A k \in 1..Len(list) : k < a => End(list[k]) < e.start
      /\ \A k \in 1..Len(list) : k > b => End(e) < list[k].start
  BY DEF CanReplace
<1> USE <1>0
<1>1. /\ list \in Seq(RangeRecord) /\ m \in Nat /\ DOMAIN list = 1..m
      /\ a \in 1..m + 1 /\ b \in a - 1..m
      /\ a \in Nat /\ b \in Nat /\ d \in Int /\ a + d = b
  BY DEF Ranges
<1>2. /\ t \in Seq(RangeRecord) /\ Len(t) = m - d /\ DOMAIN t = 1..m - d
      /\ \A k \in 1..m - d : t[k] = IF k < a THEN l[k] ELSE IF k = a THEN e ELSE l[k + d]
  <2>1. a \in 1..Len(l) + 1 /\ b \in a - 1..Len(l) /\ Len(l) - (b - a) = m - d
    OBVIOUS
  <2>2. /\ t \in Seq(RangeRecord)
        /\ Len(t) = Len(l) - (b - a)
        /\ \A k \in 1..Len(l) - (b - a) :
              t[k] = IF k < a THEN l[k] ELSE IF k = a THEN e ELSE l[k + (b - a)]
    <3>1. l \in Seq(RangeRecord) /\ e \in RangeRecord
      OBVIOUS
    <3> HIDE DEF m, d, At
    <3>2. t \in Seq(RangeRecord) /\ IsSpliced(t, l, a, b, e)
      BY ONLY <2>1, <3>1, Splice
    <3> QED
      BY ONLY <3>2 DEF IsSpliced
  <2>3. Len(t) = m - d /\ DOMAIN t = 1..m - d
    BY <2>1, <2>2
  <2> QED
    BY <2>1, <2>2, <2>3
<1> HIDE DEF t, m, d
<1>3. a \in 1..m - d
  BY <1>1
<1>4. ASSUME NEW k \in 1..m - d, k # a
      PROVE  /\ At(k) \in 1..m /\ (At(k) < a <=> k < a) /\ (At(k) > b <=> k > a)
             /\ t[k] = list[At(k)]
  <2>1. At(k) \in 1..m /\ (At(k) < a <=> k < a) /\ (At(k) > b <=> k > a) /\ (k < a \/ k > a)
    BY <1>1, <1>4
  <2>2. t[k] = l[At(k)]
    BY <1>2, <1>4
  <2> HIDE DEF At
  <2> QED
    BY <2>1, <2>2 DEF m
<1>5. t[a] = e
  <2>1. ~(a < a)
    BY <1>1
  <2> QED
    BY <1>2, <1>3, <2>1
<1>6. \A k \in 1..m : End(list[k]) \in Nat /\ list[k].start \in Nat
  BY <1>1, RecordFields
<1>7. e.start \in Nat /\ End(e) \in Nat
  BY DEF RangeRecord, End
<1>8. ASSUME NEW j \in 1..m - d, NEW k \in 1..m - d, j < k PROVE End(t[j]) < t[k].start
  <2>1. CASE j # a /\ k # a
    <3>1. At(j) < At(k)
      BY <1>1, <1>8, <2>1
    <3> HIDE DEF At
    <3>2. At(j) \in 1..m /\ At(k) \in 1..m /\ t[j] = list[At(j)] /\ t[k] = list[At(k)]
      BY <1>4, <2>1
    <3>3. End(list[At(j)]) < list[At(k)].start
      BY <1>1, <3>1, <3>2 DEF Ranges
    <3> QED
      BY <3>2, <3>3
  <2>2. CASE j = a
    <3>1. k # a /\ k > a
      BY <1>1, <1>8, <2>2
    <3> HIDE DEF At
    <3> QED
      BY <1>4, <1>5, <2>2, <3>1 DEF m
  <2>3. CASE k = a
    <3>1. j # a /\ j < a
      BY <1>1, <1>8, <2>3
    <3> HIDE DEF At
    <3> QED
      BY <1>4, <1>5, <2>3, <3>1 DEF m
  <2> QED
    BY <2>1, <2>2, <2>3
<1>9. \A k \in 1..m - d : End(t[k]) <= n
  <2> TAKE k \in 1..m - d
  <2> HIDE DEF At
  <2> QED
    BY <1>1, <1>4, <1>5 DEF Ranges
<1>10. Ranges(t, n)
  BY <1>2, <1>8, <1>9 DEF Ranges
<1>11. ASSUME NEW x, InFree(t, x)
       PROVE  Covers(e, x) \/ \E k \in DOMAIN list : (k < a \/ k > b) /\ Covers(list[k], x)
  <2>1. PICK k \in 1..m - d : Covers(t[k], x)
    BY <1>2, <1>11 DEF InFree
  <2>2. k # a => (k < a \/ k > a)
    BY <1>1
  <2> HIDE DEF At
  <2> QED
    BY <1>1, <1>4, <1>5, <2>1, <2>2
<1>12. ASSUME NEW x, Covers(e, x) PROVE InFree(t, x)
  BY <1>2, <1>3, <1>5, <1>12 DEF InFree
<1>13. ASSUME NEW x, NEW k \in DOMAIN list, k < a \/ k > b, Covers(list[k], x)
       PROVE  InFree(t, x)
  <2>1. k \in 1..m /\ k \in Nat
    BY <1>1
  <2>2. \E j \in 1..m - d : j # a /\ At(j) = k
    <3>1. CASE k < a
      <4>1. k \in 1..m - d /\ k # a /\ At(k) = k
        BY <1>1, <2>1, <3>1
      <4> QED
        BY <4>1
    <3>2. CASE k > b
      <4>1. k - d \in 1..m - d /\ k - d # a /\ ~(k - d < a) /\ (k - d) + d = k
        BY <1>1, <2>1, <3>2
      <4> QED
        BY <4>1
    <3> QED
      BY <1>13, <3>1, <3>2
  <2> HIDE DEF At
  <2>3. PICK j \in 1..m - d : j # a /\ At(j) = k
    BY <2>2
  <2>4. j \in DOMAIN t /\ Covers(t[j], x)
    BY <1>2, <1>4, <1>13, <2>3
  <2> QED
    BY <2>4 DEF InFree
<1> QED
  BY <1>10, <1>11, <1>12, <1>13 DEF t

(* One entry taken out.                                                    *)
LEMMA Drop ==
  ASSUME NEW n \in Nat, NEW list, Ranges(list, n), NEW i \in 1..Len(list)
  PROVE  /\ Ranges(RemoveAt(list, i), n)
         /\ \A x : InFree(RemoveAt(list, i), x) <=> \E k \in DOMAIN list : k # i /\ Covers(list[k], x)
<1> DEFINE m == Len(list)
           t == RemoveAt(list, i)
           At(k) == IF k < i THEN k ELSE k + 1
<1>1. list \in Seq(RangeRecord) /\ m \in Nat /\ DOMAIN list = 1..m /\ i \in 1..m
  BY DEF Ranges
<1>2. /\ t \in Seq(RangeRecord) /\ Len(t) = m - 1 /\ DOMAIN t = 1..m - 1
      /\ \A k \in 1..m - 1 : t[k] = list[At(k)]
  <2>1. /\ t \in Seq(RangeRecord) /\ Len(t) = m - 1
        /\ \A k \in 1..m - 1 : t[k] = IF k < i THEN list[k] ELSE list[k + 1]
    BY <1>1, Cut
  <2> QED
    BY <2>1
<1> HIDE DEF m, t
<1>3. \A k \in 1..m - 1 : At(k) \in 1..m /\ At(k) # i
  BY <1>1
<1>4. \A j, k \in 1..m - 1 : j < k => At(j) < At(k)
  BY <1>1
<1>5. \A k \in 1..m : k # i => \E j \in 1..m - 1 : At(j) = k
  <2> TAKE k \in 1..m
  <2> HAVE k # i
  <2> DEFINE j == IF k < i THEN k ELSE k - 1
  <2>1. j \in 1..m - 1 /\ At(j) = k
    BY <1>1
  <2> QED
    BY <2>1
<1> HIDE DEF At
<1>6. Ranges(t, n)
  BY <1>1, <1>2, <1>3, <1>4 DEF Ranges
<1>7. ASSUME NEW x, InFree(t, x) PROVE \E k \in DOMAIN list : k # i /\ Covers(list[k], x)
  BY <1>1, <1>2, <1>3, <1>7 DEF InFree
<1>8. ASSUME NEW x, NEW k \in DOMAIN list, k # i, Covers(list[k], x) PROVE InFree(t, x)
  BY <1>1, <1>2, <1>5, <1>8 DEF InFree
<1> QED
  BY <1>6, <1>7, <1>8 DEF t

-----------------------------------------------------------------------------
(* Two ranges of a list have no block in common.                           *)
LEMMA Apart ==
  ASSUME NEW n \in Nat, NEW list, Ranges(list, n), NEW x \in Int,
         NEW j \in DOMAIN list, NEW k \in DOMAIN list,
         Covers(list[j], x), Covers(list[k], x)
  PROVE  j = k
<1>1. j \in Nat /\ k \in Nat /\ list \in Seq(RangeRecord)
  BY DEF Ranges
<1>2. /\ list[j].start \in Nat /\ End(list[j]) \in Nat
      /\ list[k].start \in Nat /\ End(list[k]) \in Nat
  BY <1>1, RecordFields
<1>3. (j < k => End(list[j]) < list[k].start) /\ (k < j => End(list[k]) < list[j].start)
  BY DEF Ranges
<1> QED
  BY <1>1, <1>2, <1>3 DEF Covers

LEMMA ExceptIs ==
  ASSUME NEW l \in Seq(RangeRecord), NEW i \in 1..Len(l), NEW e \in RangeRecord
  PROVE  /\ [l EXCEPT ![i] = e] \in Seq(RangeRecord)
         /\ Len([l EXCEPT ![i] = e]) = Len(l)
         /\ \A k \in 1..Len(l) : [l EXCEPT ![i] = e][k] = IF k = i THEN e ELSE l[k]
OBVIOUS

PutAt(l, i, e) == [l EXCEPT ![i] = e]

LEMMA ExceptIsSplice ==
  ASSUME NEW l \in Seq(RangeRecord), NEW i \in 1..Len(l), NEW e \in RangeRecord
  PROVE  PutAt(l, i, e) = Spliced(l, i, i, e)
<1> DEFINE u == [l EXCEPT ![i] = e]
<1> PICK b : b = i
  OBVIOUS
<1> DEFINE t == Spliced(l, i, b, e)
<1>1. i \in 1..Len(l) + 1 /\ b \in i - 1..Len(l) /\ Len(l) \in Nat
  OBVIOUS
<1>2. u \in Seq(RangeRecord) /\ Len(u) = Len(l) /\ \A k \in 1..Len(l) : u[k] = IF k = i THEN e ELSE l[k]
  BY ExceptIs
<1> HIDE DEF u
<1>3. t \in Seq(RangeRecord) /\ IsSpliced(t, l, i, b, e)
  BY ONLY <1>1, Splice, e \in RangeRecord, l \in Seq(RangeRecord)
<1> HIDE DEF t
<1>4. Len(t) = Len(l) - (b - i)
  BY ONLY <1>3 DEF IsSpliced
<1>5. \A k \in 1..Len(l) - (b - i) :
        t[k] = IF k < i THEN l[k] ELSE IF k = i THEN e ELSE l[k + (b - i)]
  BY ONLY <1>3 DEF IsSpliced
<1>6. b - i = 0
  BY <1>1
<1>7. Len(t) = Len(u) /\ \A k \in 1..Len(t) : t[k] = u[k]
  <2>1. Len(t) = Len(l) /\ Len(u) = Len(l)
    BY ONLY <1>1, <1>2, <1>4, <1>6
  <2>3. ASSUME NEW k \in 1..Len(l) PROVE t[k] = IF k = i THEN e ELSE l[k]
    <3>1. k \in 1..Len(l) - (b - i) /\ k + (b - i) = k /\ (k < i => k # i)
      BY <1>1, <1>6
    <3>2. t[k] = IF k < i THEN l[k] ELSE IF k = i THEN e ELSE l[k]
      BY <1>5, <3>1
    <3> QED
      BY ONLY <3>1, <3>2
  <2> QED
    BY ONLY <1>2, <2>1, <2>3
<1>8. t = u
  BY <1>2, <1>3, <1>7, SeqEqual
<1> QED
  BY <1>8 DEF t, u, PutAt

(* What is taken was free, and is all that is no longer free.              *)
LEMMA TakenIs ==
  ASSUME NEW n \in Nat, NEW list, Ranges(list, n), NEW num \in Nat \ {0},
         FirstFit(list, num) # 0
  PROVE  LET first == list[FirstFit(list, num)].start IN
         /\ first \in Nat /\ first + num <= n
         /\ \A x \in first..first + num - 1 : InFree(list, x)
         /\ Ranges(Taken(list, num), n)
         /\ \A x \in Int : InFree(Taken(list, num), x)
                           <=> InFree(list, x) /\ x \notin first..first + num - 1
<1> DEFINE i == FirstFit(list, num)
           r == list[i]
           first == r.start
<1>1. /\ list \in Seq(RangeRecord) /\ Len(list) \in Nat /\ DOMAIN list = 1..Len(list)
      /\ i \in DOMAIN list /\ r.num >= num
  BY FirstFitIs DEF Ranges
<1>2. /\ r \in RangeRecord /\ first \in Nat /\ r.num \in Nat \ {0} /\ End(r) = first + r.num
      /\ End(r) <= n /\ i \in 1..Len(list) /\ i \in Nat
  BY <1>1, RecordFields DEF Ranges, End
<1>3. \A x \in first..first + num - 1 : Covers(r, x)
  BY <1>1, <1>2 DEF Covers
<1>4. Taken(list, num) = IF r.num = num THEN RemoveAt(list, i)
                         ELSE [list EXCEPT ![i] = RangeAt(r.start + num, r.num - num)]
  BY DEF Taken
<1> HIDE DEF i
<1>5. first + num <= n /\ \A x \in first..first + num - 1 : InFree(list, x)
  BY <1>1, <1>2, <1>3 DEF InFree
<1>6. ASSUME NEW x \in Int, NEW k \in DOMAIN list, k # i, Covers(list[k], x)
      PROVE  ~Covers(r, x)
  BY <1>1, <1>6, Apart
<1>7. CASE r.num = num
  <2>1. Taken(list, num) = RemoveAt(list, i)
    BY <1>4, <1>7
  <2>2. /\ Ranges(Taken(list, num), n)
        /\ \A x : InFree(Taken(list, num), x) <=> \E k \in DOMAIN list : k # i /\ Covers(list[k], x)
    BY <1>2, <2>1, Drop
  <2>3. \A x \in Int : Covers(r, x) <=> x \in first..first + num - 1
    BY <1>2, <1>7 DEF Covers
  <2>4. \A x \in Int : InFree(list, x) <=> Covers(r, x) \/ \E k \in DOMAIN list : k # i /\ Covers(list[k], x)
    BY <1>1 DEF InFree
  <2>5. ASSUME NEW x \in Int
        PROVE  InFree(Taken(list, num), x) <=> InFree(list, x) /\ x \notin first..first + num - 1
    <3> DEFINE Elsewhere == \E k \in DOMAIN list : k # i /\ Covers(list[k], x)
    <3>1. Elsewhere => ~Covers(r, x)
      BY <1>6
    <3>2. InFree(Taken(list, num), x) <=> Elsewhere
      BY <2>2
    <3>3. InFree(list, x) <=> Covers(r, x) \/ Elsewhere
      BY <2>4
    <3>4. Covers(r, x) <=> x \in first..first + num - 1
      BY <2>3
    <3> QED
      BY ONLY <3>1, <3>2, <3>3, <3>4
  <2> QED
    BY <1>2, <1>5, <2>2, <2>5 DEF i
<1>8. CASE r.num # num
  <2> DEFINE e == RangeAt(r.start + num, r.num - num)
  <2>1. e \in RangeRecord /\ e.start = first + num /\ End(e) = End(r)
    <3>1. r.start = first /\ first + num \in Nat /\ r.num - num \in Nat \ {0}
          /\ (first + num) + (r.num - num) = End(r)
      BY <1>1, <1>2, <1>8
    <3>2. e = RangeAt(first + num, r.num - num)
      BY <3>1
    <3> QED
      BY ONLY <3>1, <3>2 DEF RangeAt, RangeRecord, End
  <2> HIDE DEF e
  <2>2. Taken(list, num) = Spliced(list, i, i, e)
    <3>1. Taken(list, num) = PutAt(list, i, e)
      BY <1>4, <1>8 DEF e, PutAt
    <3>2. PutAt(list, i, e) = Spliced(list, i, i, e)
      BY <1>1, <1>2, <2>1, ExceptIsSplice, Zenon
    <3> QED
      BY ONLY <3>1, <3>2
  <2>3. /\ \A k \in 1..Len(list) : k < i => End(list[k]) < e.start
        /\ \A k \in 1..Len(list) : k > i => End(e) < list[k].start
    <3>1. \A k \in 1..Len(list) : k < i => End(list[k]) < first
      BY <1>1 DEF Ranges
    <3>2. \A k \in 1..Len(list) : End(list[k]) \in Nat
      BY <1>1, RecordFields
    <3>3. \A k \in 1..Len(list) : k > i => End(r) < list[k].start
      BY <1>1, <1>2 DEF Ranges
    <3>4. e.start = first + num /\ End(e) = End(r) /\ first \in Nat
      BY <1>2, <2>1
    <3> HIDE DEF r, first
    <3> QED
      BY ONLY <3>1, <3>2, <3>3, <3>4, num \in Nat
  <2>4. i \in 1..Len(list) + 1 /\ i \in i - 1..Len(list)
    BY <1>1, <1>2
  <2>5. /\ Ranges(Taken(list, num), n)
        /\ \A x : InFree(Taken(list, num), x)
                  <=> \/ Covers(e, x)
                      \/ \E k \in DOMAIN list : (k < i \/ k > i) /\ Covers(list[k], x)
    <3> HIDE DEF r, first
    <3>1. CanReplace(list, n, list, i, i, e)
      BY <1>1, <1>2, <2>1, <2>3, <2>4 DEF CanReplace
    <3> QED
      BY <2>2, <3>1, Replace
  <2>6. \A x \in Int : Covers(r, x) /\ x \notin first..first + num - 1 <=> Covers(e, x)
    BY <1>1, <1>2, <2>1 DEF Covers
  <2>7. \A x \in Int : InFree(list, x) <=> Covers(r, x) \/ \E k \in DOMAIN list : (k < i \/ k > i) /\ Covers(list[k], x)
    BY <1>1, <1>2 DEF InFree
  <2>8. ASSUME NEW x \in Int, NEW k \in DOMAIN list, k < i \/ k > i, Covers(list[k], x)
        PROVE  x \notin first..first + num - 1
    BY <1>1, <1>2, <1>3, <1>6, <2>8
  <2>9. \A x \in Int : InFree(Taken(list, num), x)
                           <=> InFree(list, x) /\ x \notin first..first + num - 1
    <3> HIDE DEF r, first
    <3> QED
      BY <2>5, <2>6, <2>7, <2>8
  <2> QED
    BY <1>2, <1>5, <2>5, <2>9 DEF i
<1> QED
  BY <1>7, <1>8

-----------------------------------------------------------------------------
(* The entries that touch one another around entry i are merged.           *)
MergedAt(l, a, b) == Spliced(l, a, b, RangeAt(l[a].start, End(l[b]) - l[a].start))

LEMMA TryMergeIs ==
  ASSUME NEW l \in Seq(RangeRecord), NEW i \in 1..Len(l),
         NEW a \in 1..i, NEW b \in i..Len(l),
         \A j \in a..b - 1 : Touches(l, j),
         a > 1 => ~Touches(l, a - 1),
         b < Len(l) => ~Touches(l, b)
  PROVE  TryMerge(l, i) = MergedAt(l, a, b)
<1> DEFINE A == {k \in 1..i : \A j \in k..i - 1 : Touches(l, j)}
           B == {k \in i..Len(l) : \A j \in i..k - 1 : Touches(l, j)}
<1>0. i \in Nat /\ Len(l) \in Nat /\ a \in Nat /\ b \in Nat
  OBVIOUS
<1>1. A \in SUBSET Int /\ B \in SUBSET Int
  BY <1>0
<1>2. a \in A /\ b \in B
  BY <1>0
<1>3. \A y \in A : a <= y
  <2> SUFFICES ASSUME NEW y \in A, y < a PROVE FALSE
    BY <1>0
  <2>1. a > 1 /\ a - 1 \in y..i - 1
    BY <1>0
  <2> QED
    BY <2>1
<1>4. \A y \in B : b >= y
  <2> SUFFICES ASSUME NEW y \in B, y > b PROVE FALSE
    BY <1>0
  <2>1. b < Len(l) /\ b \in i..y - 1
    BY <1>0
  <2> QED
    BY <2>1
<1> HIDE DEF A, B
<1>5. Min(A) = a /\ Max(B) = b
  BY <1>1, <1>2, <1>3, <1>4, MinIs, MaxIs
<1> QED
  BY <1>5 DEF TryMerge, MergedAt, Spliced, A, B

(* Where the search of Freed stops: before the first range that starts     *)
(* after what is freed.                                                    *)
StopsAt(list, first, num) ==
  LET found == SelectInSeq(list, LAMBDA r : r.start >= first + num)
  IN  IF found = 0 THEN Len(list) + 1 ELSE found

LEMMA PlaceIs ==
  ASSUME NEW n \in Nat, NEW list, Ranges(list, n),
         NEW first \in Nat, NEW num \in Nat \ {0},
         \A x \in first..first + num - 1 : ~InFree(list, x)
  PROVE  LET i == StopsAt(list, first, num) IN
         /\ i \in 1..Len(list) + 1
         /\ \A k \in 1..Len(list) : k < i => End(list[k]) <= first
         /\ \A k \in 1..Len(list) : k >= i => first + num <= list[k].start
<1> DEFINE I == {k \in 1..Len(list) : list[k].start >= first + num}
           i == StopsAt(list, first, num)
<1>1. /\ list \in Seq(RangeRecord) /\ Len(list) \in Nat /\ DOMAIN list = 1..Len(list)
  BY DEF Ranges
<1>2. SelectInSeq(list, LAMBDA r : r.start >= first + num) = IF I # {} THEN Min(I) ELSE 0
  BY DEF SelectInSeq
<1>3. I \in SUBSET Nat
  BY <1>1
<1>4. \A k \in 1..Len(list) : /\ list[k].start \in Nat /\ End(list[k]) \in Nat
                              /\ list[k].start < End(list[k])
  BY <1>1, RecordFields
<1>5. /\ i \in 1..Len(list) + 1
      /\ \A k \in 1..Len(list) : k < i => list[k].start < first + num
      /\ i <= Len(list) => list[i].start >= first + num
  <2>1. CASE I # {}
    <3> HIDE DEF I
    <3>1. Min(I) \in I /\ \A y \in I : Min(I) <= y
      BY <1>3, <2>1, MinIsLeast
    <3>2. Min(I) \in 1..Len(list)
      BY <3>1 DEF I
    <3>3. i = Min(I)
      BY <1>1, <1>2, <2>1, <3>2 DEF StopsAt
    <3> HIDE DEF i
    <3>4. \A k \in 1..Len(list) : k < i => k \notin I
      BY <3>1, <3>3, <3>2
    <3>5. \A k \in 1..Len(list) : k < i => list[k].start < first + num
      BY <1>4, <3>4 DEF I
    <3> QED
      BY <1>1, <3>1, <3>2, <3>3, <3>5 DEF I
  <2>2. CASE I = {}
    <3>1. i = Len(list) + 1
      BY <1>2, <2>2 DEF StopsAt
    <3>2. \A k \in 1..Len(list) : list[k].start < first + num
      BY <1>4, <2>2
    <3> HIDE DEF i, I
    <3> QED
      BY <1>1, <3>1, <3>2
  <2> QED
    BY <2>1, <2>2
<1> HIDE DEF i
<1>6. ASSUME NEW k \in 1..Len(list), k < i PROVE End(list[k]) <= first
  <2> SUFFICES ASSUME first < End(list[k]) PROVE FALSE
    BY <1>4
  <2> DEFINE x == IF list[k].start <= first THEN first ELSE list[k].start
  <2>1. list[k].start < first + num
    BY <1>5, <1>6
  <2>2. x \in first..first + num - 1 /\ Covers(list[k], x)
    BY <1>4, <2>1 DEF Covers
  <2> HIDE DEF x
  <2> QED
    BY <1>1, <2>2 DEF InFree
<1>7. ASSUME NEW k \in 1..Len(list), k >= i PROVE first + num <= list[k].start
  <2>1. i <= Len(list) /\ i \in 1..Len(list) /\ (i = k \/ i < k)
    BY <1>1, <1>5, <1>7
  <2>2. i < k => End(list[i]) < list[k].start
    BY <1>1, <2>1 DEF Ranges
  <2> QED
    BY <1>4, <1>5, <2>1, <2>2
<1> QED
  BY <1>5, <1>6, <1>7 DEF i

(* What is freed becomes free, merged with the ranges it touches.          *)
MergesRun(list, first, num, a, b, e) ==
  \A x \in Int : Covers(e, x) <=> \/ x \in first..first + num - 1
                                  \/ \E k \in a..b : Covers(list[k], x)

LEMMA FreedIs ==
  ASSUME NEW n \in Nat, NEW list, Ranges(list, n),
         NEW first \in Nat, NEW num \in Nat \ {0}, first + num <= n,
         \A x \in first..first + num - 1 : ~InFree(list, x)
  PROVE  /\ Ranges(Freed(list, first, num), n)
         /\ \A x \in Int : InFree(Freed(list, first, num), x)
                           <=> InFree(list, x) \/ x \in first..first + num - 1
<1> DEFINE m == Len(list)
           i == StopsAt(list, first, num)
           t == Freed(list, first, num)
           touchesNext == i <= m /\ list[i].start = first + num
           touchesPrev == i > 1 /\ End(list[i - 1]) = first
<1>1. t = CASE touchesNext ->
                 TryMerge([list EXCEPT ![i] = RangeAt(first, num + list[i].num)], i)
            [] ~touchesNext /\ touchesPrev ->
                 TryMerge([list EXCEPT ![i - 1].num = @ + num], i - 1)
            [] OTHER -> InsertAt(list, i, RangeAt(first, num))
  BY DEF Freed, StopsAt
<1>2. /\ i \in 1..m + 1
      /\ \A k \in 1..m : k < i => End(list[k]) <= first
      /\ \A k \in 1..m : k >= i => first + num <= list[k].start
  BY PlaceIs
<1> HIDE DEF i, t
<1>3. /\ list \in Seq(RangeRecord) /\ m \in Nat /\ DOMAIN list = 1..m /\ i \in Nat
  BY <1>2 DEF Ranges
<1>4. \A k \in 1..m : /\ list[k] \in RangeRecord
                      /\ list[k].start \in Nat /\ list[k].num \in Nat \ {0}
                      /\ End(list[k]) \in Nat /\ list[k].start < End(list[k]) /\ End(list[k]) <= n
                      /\ End(list[k]) = list[k].start + list[k].num
  BY <1>3, RecordFields DEF Ranges, End
<1>5. \A j, k \in 1..m : j < k => End(list[j]) < list[k].start
  BY <1>3 DEF Ranges
<1> HIDE DEF m
(* Whatever is merged, entries a to b and the run become one entry e.      *)
<1>6. ASSUME NEW l, NEW a, NEW b, NEW e, CanReplace(list, n, l, a, b, e),
             MergesRun(list, first, num, a, b, e), t = Spliced(l, a, b, e)
      PROVE  /\ Ranges(t, n)
             /\ \A x \in Int : InFree(t, x) <=> InFree(list, x) \/ x \in first..first + num - 1
  <2>0. a \in 1..m + 1 /\ b \in a - 1..m
    BY <1>6 DEF CanReplace, m
  <2>1. /\ Ranges(t, n)
        /\ \A x : InFree(t, x) <=> \/ Covers(e, x)
                                   \/ \E k \in DOMAIN list : (k < a \/ k > b) /\ Covers(list[k], x)
    BY <1>6, Replace
  <2>2. \A k \in DOMAIN list : k \in a..b \/ k < a \/ k > b
    BY <1>3, <2>0
  <2>3. \A k \in a..b : k \in DOMAIN list
    BY <1>3, <2>0
  <2>4. \A x \in Int : InFree(list, x) <=> \/ \E k \in a..b : Covers(list[k], x)
                                           \/ \E k \in DOMAIN list : (k < a \/ k > b) /\ Covers(list[k], x)
    BY <2>2, <2>3 DEF InFree
  <2>5. \A x \in Int : Covers(e, x) <=> \/ x \in first..first + num - 1
                                        \/ \E k \in a..b : Covers(list[k], x)
    BY <1>6 DEF MergesRun
  <2> QED
    BY <2>1, <2>4, <2>5
<1>7. CASE touchesNext
  <2> PICK a : a = IF touchesPrev THEN i - 1 ELSE i
    OBVIOUS
  <2> DEFINE new == RangeAt(first, num + list[i].num)
             l == [list EXCEPT ![i] = new]
             e == RangeAt(l[a].start, End(l[i]) - l[a].start)
  <2>1. i \in 1..m /\ list[i].start = first + num
    BY <1>2, <1>3, <1>7
  <2>2. new \in RangeRecord /\ new.start = first /\ End(new) = End(list[i]) /\ new.num = num + list[i].num
    BY <1>4, <2>1 DEF RangeAt, RangeRecord, End
  <2> HIDE DEF new
  <2>3. l \in Seq(RangeRecord) /\ Len(l) = m /\ \A k \in 1..m : l[k] = IF k = i THEN new ELSE list[k]
    <3>1. i \in 1..Len(list) /\ new \in RangeRecord
      BY <2>1, <2>2 DEF m
    <3> QED
      BY <1>3, <3>1, ExceptIs DEF m
  <2> HIDE DEF l
  <2>4. a \in 1..i /\ a \in 1..m + 1 /\ i \in a - 1..m
    BY <1>2, <1>3, <2>1
  <2>5. \A j \in a..i - 1 : Touches(l, j)
    <3> TAKE j \in a..i - 1
    <3>1. touchesPrev /\ j = i - 1 /\ j \in 1..m /\ j # i /\ j + 1 = i
      BY <1>3, <2>1
    <3> QED
      BY <2>1, <2>2, <2>3, <3>1 DEF Touches
  <2>6. a > 1 => ~Touches(l, a - 1)
    <3> SUFFICES ASSUME a > 1 PROVE ~Touches(l, a - 1)
      OBVIOUS
    <3>1. a - 1 \in 1..m /\ a - 1 < i /\ a - 1 # i /\ (a - 1) + 1 = a /\ a \in 1..m
      BY <1>3, <2>1, <2>4
    <3>2. l[a - 1] = list[a - 1] /\ End(list[a - 1]) \in Nat
      BY <1>4, <2>3, <3>1
    <3>3. CASE touchesPrev
      <4>1. a = i - 1 /\ l[a] = list[a]
        BY <2>3, <3>1, <3>3
      <4>2. End(list[a - 1]) < list[a].start
        BY <1>5, <3>1
      <4> QED
        BY <1>4, <3>1, <3>2, <4>1, <4>2 DEF Touches
    <3>4. CASE ~touchesPrev
      <4>1. a = i /\ l[a] = new /\ End(list[i - 1]) # first
        BY <2>3, <3>1, <3>4
      <4> QED
        BY <2>2, <3>1, <3>2, <4>1 DEF Touches
    <3> QED
      BY <3>3, <3>4
  <2>7. i < Len(l) => ~Touches(l, i)
    <3> SUFFICES ASSUME i < m PROVE ~Touches(l, i)
      BY <2>3
    <3>1. i + 1 \in 1..m /\ i + 1 # i /\ i < i + 1
      BY <1>3, <2>1
    <3>2. End(list[i]) < list[i + 1].start /\ End(list[i]) \in Nat /\ l[i] = new /\ l[i + 1] = list[i + 1]
      BY <1>4, <1>5, <2>1, <2>3, <3>1
    <3> QED
      BY <1>4, <2>2, <3>1, <3>2 DEF Touches
  <2>8. t = Spliced(l, a, i, e)
    <3>1. i \in 1..Len(l) /\ a \in 1..i /\ i \in i..Len(l)
      BY <1>3, <2>1, <2>3, <2>4
    <3>2. TryMerge(l, i) = MergedAt(l, a, i)
      BY ONLY <2>3, <2>5, <2>6, <2>7, <3>1, TryMergeIs
    <3> QED
      BY <1>1, <1>7, <3>2 DEF l, new, MergedAt
  <2>9. /\ e \in RangeRecord /\ End(e) = End(list[i]) /\ e.start \in Nat
        /\ e.start = IF touchesPrev THEN list[i - 1].start ELSE first
    <3>1. l[i] = new
      BY <2>1, <2>3
    <3>2. CASE touchesPrev
      <4>1. a = i - 1 /\ i - 1 \in 1..m /\ l[a] = list[i - 1] /\ list[i - 1].start < first
        BY <1>3, <1>4, <2>1, <2>3, <3>2
      <4>2. e = RangeAt(list[i - 1].start, End(list[i]) - list[i - 1].start)
        BY <2>2, <3>1, <4>1
      <4>3. list[i - 1].start \in Nat /\ End(list[i]) \in Nat /\ list[i - 1].start < End(list[i])
        BY <1>4, <2>1, <4>1
      <4> HIDE DEF e
      <4> QED
        BY <3>2, <4>2, <4>3 DEF RangeAt, RangeRecord, End
    <3>3. CASE ~touchesPrev
      <4>1. e = RangeAt(first, End(list[i]) - first)
        BY <2>2, <3>1, <3>3
      <4>2. End(list[i]) \in Nat /\ first < End(list[i])
        BY <1>4, <2>1
      <4> HIDE DEF e
      <4> QED
        BY <3>3, <4>1, <4>2 DEF RangeAt, RangeRecord, End
    <3> QED
      BY <3>2, <3>3
  <2> HIDE DEF e
  <2>10. \A k \in 1..m : k < a => End(list[k]) < e.start
    <3> TAKE k \in 1..m
    <3> HAVE k < a
    <3>1. CASE touchesPrev
      <4>1. i - 1 \in 1..m /\ k < i - 1
        BY <1>3, <2>1, <3>1
      <4> QED
        BY <1>5, <2>9, <3>1, <4>1
    <3>2. CASE ~touchesPrev
      <4>1. k < i /\ End(list[k]) <= first
        BY <1>2, <3>2
      <4>2. End(list[k]) # first
        <5> SUFFICES ASSUME End(list[k]) = first PROVE FALSE
          OBVIOUS
        <5>1. i > 1 /\ i - 1 \in 1..m /\ k # i - 1
          BY <1>3, <2>1, <3>2, <4>1
        <5>2. k < i - 1 /\ i - 1 < i
          BY <1>3, <4>1, <5>1
        <5>3. End(list[k]) < list[i - 1].start /\ End(list[i - 1]) <= first
          BY <1>2, <1>5, <5>1, <5>2
        <5> QED
          BY <1>4, <5>1, <5>3
      <4> QED
        BY <1>4, <2>9, <3>2, <4>1, <4>2
    <3> QED
      BY <3>1, <3>2
  <2>11. \A k \in 1..m : k > i => End(e) < list[k].start
    BY <1>5, <2>1, <2>9
  <2>12. \A x \in Int : Covers(e, x) <=> \/ x \in first..first + num - 1
                                         \/ \E k \in a..i : Covers(list[k], x)
    <3> TAKE x \in Int
    <3>1. Covers(list[i], x) <=> first + num <= x /\ x < End(list[i])
      BY <2>1 DEF Covers
    <3>2. CASE touchesPrev
      <4>1. a = i - 1 /\ i - 1 \in 1..m /\ (\A k \in a..i : k = i - 1 \/ k = i) /\ i - 1 \in a..i /\ i \in a..i
        BY <1>3, <2>1, <3>2
      <4>2. Covers(list[i - 1], x) <=> list[i - 1].start <= x /\ x < first
        BY <3>2 DEF Covers
      <4>3. Covers(e, x) <=> list[i - 1].start <= x /\ x < End(list[i])
        BY <2>9, <3>2 DEF Covers
      <4>4. (\E k \in a..i : Covers(list[k], x)) <=> Covers(list[i - 1], x) \/ Covers(list[i], x)
        BY <4>1
      <4>5. list[i - 1].start \in Nat /\ End(list[i]) \in Nat /\ list[i - 1].start < first /\ first + num < End(list[i])
        BY <1>4, <2>1, <3>2, <4>1
      <4> QED
        BY <3>1, <4>2, <4>3, <4>4, <4>5
    <3>3. CASE ~touchesPrev
      <4>1. a = i /\ (\A k \in a..i : k = i) /\ i \in a..i
        BY <1>3, <3>3
      <4>2. Covers(e, x) <=> first <= x /\ x < End(list[i])
        BY <2>9, <3>3 DEF Covers
      <4>3. (\E k \in a..i : Covers(list[k], x)) <=> Covers(list[i], x)
        BY <4>1
      <4>4. End(list[i]) \in Nat /\ first + num < End(list[i])
        BY <1>4, <2>1
      <4> QED
        BY <3>1, <4>2, <4>3, <4>4
    <3> QED
      BY <3>2, <3>3
  <2>13. \A k \in 1..m : k < a \/ k > i => l[k] = list[k]
    BY <1>3, <2>3, <2>4
  <2>14. End(e) <= n
    BY <1>4, <2>1, <2>9
  <2>15. /\ Ranges(t, n)
         /\ \A x \in Int : InFree(t, x) <=> InFree(list, x) \/ x \in first..first + num - 1
    <3>1. CanReplace(list, n, l, a, i, e)
      BY <2>3, <2>4, <2>9, <2>10, <2>11, <2>13, <2>14 DEF CanReplace, m
    <3>2. MergesRun(list, first, num, a, i, e)
      BY <2>12 DEF MergesRun
    <3> QED
      BY <1>6, <2>8, <3>1, <3>2
  <2> QED
    BY <2>15 DEF t
<1>8. ASSUME ~touchesNext, NEW k \in 1..m, k >= i PROVE first + num < list[k].start
  <2>1. i \in 1..m /\ list[i].start # first + num /\ first + num <= list[i].start
    BY <1>2, <1>3, <1>8
  <2>2. CASE i = k
    BY <1>4, <2>1, <2>2
  <2>3. CASE i < k
    <3>1. End(list[i]) < list[k].start
      BY <1>5, <2>1, <2>3
    <3>2. list[i].start \in Nat /\ End(list[i]) \in Nat /\ list[i].start < End(list[i]) /\ list[k].start \in Nat
      BY <1>4, <2>1
    <3> QED
      BY <2>1, <3>1, <3>2
  <2> QED
    BY <1>3, <1>8, <2>2, <2>3
<1>9. CASE ~touchesNext /\ touchesPrev
  <2> PICK a : a = i - 1
    OBVIOUS
  <2> DEFINE new == RangeAt(list[a].start, list[a].num + num)
             l == [list EXCEPT ![a] = new]
             e == RangeAt(l[a].start, End(l[a]) - l[a].start)
  <2>1. a \in 1..m /\ a \in Nat /\ End(list[a]) = first /\ a < i /\ i = a + 1
    BY <1>2, <1>3, <1>9
  <2>2. new \in RangeRecord /\ new.start = list[a].start /\ End(new) = first + num
    BY <1>4, <2>1 DEF RangeAt, RangeRecord, End
  <2>3. [list EXCEPT ![a].num = @ + num] = l
    <3>1. list[a] \in RangeRecord
      BY <1>4, <2>1
    <3>2. [list[a] EXCEPT !.num = @ + num] = new
      BY <3>1 DEF RangeRecord, RangeAt
    <3>3. [list EXCEPT ![a].num = @ + num] = [list EXCEPT ![a] = [list[a] EXCEPT !.num = @ + num]]
      BY <1>3, <2>1
    <3> QED
      BY <3>2, <3>3
  <2> HIDE DEF new
  <2>4. l \in Seq(RangeRecord) /\ Len(l) = m /\ \A k \in 1..m : l[k] = IF k = a THEN new ELSE list[k]
    <3>1. a \in 1..Len(list) /\ new \in RangeRecord
      BY <2>1, <2>2 DEF m
    <3> QED
      BY <1>3, <3>1, ExceptIs DEF m
  <2>5. t = TryMerge(l, a)
    BY <1>1, <1>9, <2>3
  <2> HIDE DEF l
  <2>6. a > 1 => ~Touches(l, a - 1)
    <3> SUFFICES ASSUME a > 1 PROVE ~Touches(l, a - 1)
      OBVIOUS
    <3>1. a - 1 \in 1..m /\ a - 1 # a /\ a - 1 < a /\ (a - 1) + 1 = a
      BY <1>3, <2>1
    <3>2. l[a - 1] = list[a - 1] /\ l[a] = new /\ End(list[a - 1]) < list[a].start
      BY <1>5, <2>1, <2>4, <3>1
    <3> QED
      BY <1>4, <2>1, <2>2, <3>1, <3>2 DEF Touches
  <2>7. a < Len(l) => ~Touches(l, a)
    <3> SUFFICES ASSUME a < m PROVE ~Touches(l, a)
      BY <2>4
    <3>1. a + 1 \in 1..m /\ a + 1 # a
      BY <1>3, <2>1
    <3>2. l[a + 1] = list[a + 1] /\ l[a] = new /\ first + num < list[a + 1].start
      BY <1>3, <1>8, <1>9, <2>1, <2>4, <3>1
    <3> QED
      BY <1>4, <2>2, <3>1, <3>2 DEF Touches
  <2>8. t = Spliced(l, a, a, e)
    <3>1. a \in 1..Len(l) /\ a \in 1..a /\ a \in a..Len(l) /\ \A j \in a..a - 1 : FALSE
      BY <1>3, <2>1, <2>4
    <3>2. \A j \in a..a - 1 : Touches(l, j)
      BY <3>1
    <3>3. TryMerge(l, a) = MergedAt(l, a, a)
      BY ONLY <2>4, <2>6, <2>7, <3>1, <3>2, TryMergeIs
    <3> QED
      BY <2>5, <3>3 DEF MergedAt
  <2>9. e \in RangeRecord /\ e.start = list[a].start /\ End(e) = first + num
    <3>1. l[a] = new
      BY <2>1, <2>4
    <3>2. e = RangeAt(list[a].start, first + num - list[a].start)
      <4>1. l[a].start = list[a].start /\ list[a].start \in Nat
        BY <1>4, <2>1, <2>2, <3>1
      <4>2. End(l[a]) - l[a].start = first + num - list[a].start
        BY <2>2, <3>1, <4>1
      <4> QED
        BY <4>1, <4>2
    <3>3. list[a].start \in Nat /\ list[a].start < first
      BY <1>4, <2>1
    <3> HIDE DEF e
    <3> QED
      BY <3>2, <3>3 DEF RangeAt, RangeRecord, End
  <2> HIDE DEF e
  <2>10. \A k \in 1..m : k < a => End(list[k]) < e.start
    BY <1>5, <2>1, <2>9
  <2>11. \A k \in 1..m : k > a => End(e) < list[k].start
    <3>1. \A k \in 1..m : k > a => k >= i
      BY <1>3, <2>1
    <3> QED
      BY <1>8, <1>9, <2>9, <3>1
  <2>12. \A x \in Int : Covers(e, x) <=> \/ x \in first..first + num - 1
                                         \/ \E k \in a..a : Covers(list[k], x)
    <3> TAKE x \in Int
    <3>1. (\E k \in a..a : Covers(list[k], x)) <=> Covers(list[a], x)
      BY <2>1
    <3>2. Covers(list[a], x) <=> list[a].start <= x /\ x < first
      BY <2>1 DEF Covers
    <3>3. Covers(e, x) <=> list[a].start <= x /\ x < first + num
      BY <2>9 DEF Covers
    <3>4. list[a].start \in Nat /\ list[a].start < first
      BY <1>4, <2>1
    <3> QED
      BY <3>1, <3>2, <3>3, <3>4
  <2>13. \A k \in 1..m : k < a \/ k > a => l[k] = list[k]
    BY <2>1, <2>4
  <2>14. a \in 1..m + 1 /\ a \in a - 1..m /\ End(e) <= n
    BY <1>3, <2>1, <2>9
  <2>15. /\ Ranges(t, n)
         /\ \A x \in Int : InFree(t, x) <=> InFree(list, x) \/ x \in first..first + num - 1
    <3>1. CanReplace(list, n, l, a, a, e)
      BY <2>4, <2>9, <2>10, <2>11, <2>13, <2>14 DEF CanReplace, m
    <3>2. MergesRun(list, first, num, a, a, e)
      BY <2>12 DEF MergesRun
    <3> QED
      BY <1>6, <2>8, <3>1, <3>2
  <2> QED
    BY <2>15 DEF t
<1>10. CASE ~touchesNext /\ ~touchesPrev
  <2> DEFINE e == RangeAt(first, num)
  <2> PICK b : b = i - 1
    OBVIOUS
  <2>1. e \in RangeRecord /\ e.start = first /\ End(e) = first + num
    BY DEF RangeAt, RangeRecord, End
  <2>2. b + 1 = i /\ i \in 1..m + 1 /\ b \in i - 1..m
    BY <1>2, <1>3
  <2>3. t = Spliced(list, i, b, e)
    BY <1>1, <1>10, <2>2 DEF InsertAt, Spliced
  <2> HIDE DEF e
  <2>4. \A k \in 1..m : k < i => End(list[k]) < first
    <3> TAKE k \in 1..m
    <3> HAVE k < i
    <3>1. End(list[k]) <= first
      BY <1>2
    <3>2. i > 1 /\ i - 1 \in 1..m /\ (k = i - 1 \/ k < i - 1) /\ i - 1 < i
      BY <1>2, <1>3
    <3>3. End(list[i - 1]) # first /\ End(list[i - 1]) <= first
      BY <1>2, <1>10, <3>2
    <3>4. k < i - 1 => End(list[k]) < list[i - 1].start
      BY <1>5, <3>2
    <3> QED
      BY <1>4, <3>1, <3>2, <3>3, <3>4
  <2>5. \A k \in 1..m : k > b => End(e) < list[k].start
    <3>1. \A k \in 1..m : k > b => k >= i
      BY <1>3, <2>2
    <3> QED
      BY <1>8, <1>10, <2>1, <3>1
  <2>6. \A x \in Int : Covers(e, x) <=> \/ x \in first..first + num - 1
                                        \/ \E k \in i..b : Covers(list[k], x)
    <3>1. \A k \in i..b : FALSE
      BY <1>3, <2>2
    <3> QED
      BY <2>1, <3>1 DEF Covers
  <2>7. \A k \in 1..m : k < i \/ k > b => list[k] = list[k]
    OBVIOUS
  <2>8. \A k \in 1..m : k < i => End(list[k]) < e.start
    BY <2>1, <2>4
  <2>9. End(e) <= n /\ Len(list) = m
    BY <2>1 DEF m
  <2>10. /\ Ranges(t, n)
         /\ \A x \in Int : InFree(t, x) <=> InFree(list, x) \/ x \in first..first + num - 1
    <3>1. CanReplace(list, n, list, i, b, e)
      BY <1>3, <2>1, <2>2, <2>5, <2>7, <2>8, <2>9 DEF CanReplace, m
    <3>2. MergesRun(list, first, num, i, b, e)
      BY <2>6 DEF MergesRun
    <3> QED
      BY <1>6, <2>3, <3>1, <3>2
  <2> QED
    BY <2>10 DEF t
<1> QED
  BY <1>7, <1>9, <1>10 DEF t

-----------------------------------------------------------------------------
(* A list is exact if it is the free blocks of n of which those of held are*)
(* handed out; so it stays when blocks are taken and freed.                *)
Exact(list, held, n) ==
  /\ Ranges(list, n)
  /\ held \subseteq 0..n - 1
  /\ \A x \in 0..n - 1 : InFree(list, x) <=> x \notin held

RunOf(first, num) == first..first + num - 1

LEMMA RunSize ==
  ASSUME NEW first \in Nat, NEW num \in Nat
  PROVE  IsFiniteSet(RunOf(first, num)) /\ Cardinality(RunOf(first, num)) = num
<1>1. first \in Int /\ first + num - 1 \in Int
  OBVIOUS
<1>2. /\ IsFiniteSet(first..first + num - 1)
      /\ Cardinality(first..first + num - 1) =
           IF first > first + num - 1 THEN 0 ELSE (first + num - 1) - first + 1
  BY <1>1, FS_Interval
<1>3. (IF first > first + num - 1 THEN 0 ELSE (first + num - 1) - first + 1) = num
  OBVIOUS
<1> QED
  BY <1>2, <1>3 DEF RunOf

LEMMA HeldFinite ==
  ASSUME NEW n \in Nat, NEW held, held \subseteq 0..n - 1
  PROVE  IsFiniteSet(held) /\ Cardinality(held) \in Nat /\ Cardinality(held) <= n
<1>1. 0 \in Nat /\ RunOf(0, n) = 0..n - 1
  BY DEF RunOf
<1>2. IsFiniteSet(0..n - 1) /\ Cardinality(0..n - 1) = n
  BY <1>1, RunSize
<1> QED
  BY <1>2, FS_Subset, FS_CardinalityType

LEMMA AllFree ==
  ASSUME NEW n \in Nat \ {0}
  PROVE  Exact(<<RangeAt(0, n)>>, {}, n)
BY OneRange DEF Exact

(* Where the run that is taken begins.                                     *)
FirstOf(list, num) == list[FirstFit(list, num)].start

(* What it means to take num blocks from the list of those of n that are   *)
(* not held.                                                               *)
TakenSafely(list, held, n, num) ==
  /\ FirstOf(list, num) \in Nat /\ FirstOf(list, num) + num <= n
  /\ RunOf(FirstOf(list, num), num) \subseteq 0..n - 1
  /\ RunOf(FirstOf(list, num), num) \intersect held = {}
  /\ Exact(Taken(list, num), held \union RunOf(FirstOf(list, num), num), n)
  /\ Cardinality(held \union RunOf(FirstOf(list, num), num)) = Cardinality(held) + num

LEMMA TakenExact ==
  ASSUME NEW n \in Nat, NEW list, NEW held, Exact(list, held, n), NEW num \in Nat \ {0},
         FirstFit(list, num) # 0
  PROVE  TakenSafely(list, held, n, num)
<1> DEFINE first == FirstOf(list, num)
           run == RunOf(first, num)
<1>1. /\ Ranges(list, n)
      /\ held \subseteq 0..n - 1
      /\ \A x \in 0..n - 1 : InFree(list, x) <=> x \notin held
  BY DEF Exact
<1>2. /\ first \in Nat /\ first + num <= n
      /\ \A x \in run : InFree(list, x)
      /\ Ranges(Taken(list, num), n)
      /\ \A x \in Int : InFree(Taken(list, num), x) <=> InFree(list, x) /\ x \notin run
  BY <1>1, TakenIs DEF RunOf, FirstOf
<1> HIDE DEF first
<1>3. run \subseteq 0..n - 1
  BY <1>2 DEF RunOf
<1>4. IsFiniteSet(run) /\ Cardinality(run) = num /\ IsFiniteSet(held) /\ Cardinality(held) \in Nat
  BY <1>1, <1>2, RunSize, HeldFinite
<1> HIDE DEF run
<1>5. run \intersect held = {}
  BY <1>1, <1>2, <1>3
<1>6. Exact(Taken(list, num), held \union run, n)
  BY <1>1, <1>2, <1>3 DEF Exact
<1>7. Cardinality(held \union run) = Cardinality(held) + num
  <2>1. held \intersect run = {}
    BY <1>5
  <2>2. Cardinality(held \union run)
          = Cardinality(held) + Cardinality(run) - Cardinality(held \intersect run)
    BY <1>4, FS_Union, Zenon
  <2>3. Cardinality(held \intersect run) = 0
    BY <2>1, FS_EmptySet, Zenon
  <2> QED
    BY ONLY <1>4, <2>2, <2>3
<1> QED
  BY <1>2, <1>3, <1>5, <1>6, <1>7 DEF first, run, TakenSafely

LEMMA FreedExact ==
  ASSUME NEW n \in Nat, NEW list, NEW held, Exact(list, held, n),
         NEW first \in Nat, NEW num \in Nat \ {0},
         RunOf(first, num) \subseteq held
  PROVE  /\ Exact(Freed(list, first, num), held \ RunOf(first, num), n)
         /\ Cardinality(held \ RunOf(first, num)) = Cardinality(held) - num
<1> DEFINE run == RunOf(first, num)
<1>1. /\ Ranges(list, n)
      /\ held \subseteq 0..n - 1
      /\ \A x \in 0..n - 1 : InFree(list, x) <=> x \notin held
  BY DEF Exact
<1>2. first + num - 1 \in run
  BY DEF RunOf
<1>3. first + num <= n /\ run \subseteq 0..n - 1
  <2>1. first + num - 1 \in 0..n - 1 /\ run \subseteq 0..n - 1
    BY <1>1, <1>2
  <2> QED
    BY <2>1
<1>4. \A x \in first..first + num - 1 : ~InFree(list, x)
  BY <1>1 DEF RunOf
<1>5. /\ Ranges(Freed(list, first, num), n)
      /\ \A x \in Int : InFree(Freed(list, first, num), x) <=> InFree(list, x) \/ x \in run
  BY <1>1, <1>3, <1>4, FreedIs DEF RunOf
<1>6. IsFiniteSet(run) /\ Cardinality(run) = num /\ IsFiniteSet(held) /\ Cardinality(held) \in Nat
  BY <1>1, RunSize, HeldFinite
<1> HIDE DEF run
<1>7. Exact(Freed(list, first, num), held \ run, n)
  BY <1>1, <1>3, <1>5 DEF Exact
<1>8. Cardinality(held \ run) = Cardinality(held) - num
  <2>1. held \intersect run = run
    BY DEF run
  <2> QED
    BY <1>6, <2>1, FS_Difference
<1> QED
  BY <1>7, <1>8 DEF run

(* What an exact list says of one block: it is free once or held once.     *)
LEMMA ExactCounts ==
  ASSUME NEW n \in Nat, NEW list, NEW held, Exact(list, held, n), NEW x \in 0..n - 1
  PROVE  LET I == {i \in DOMAIN list : x \in list[i].start..End(list[i]) - 1} IN
         IsFiniteSet(I) /\ Cardinality(I) = IF x \in held THEN 0 ELSE 1
<1> DEFINE I == {i \in DOMAIN list : x \in list[i].start..End(list[i]) - 1}
<1>1. Ranges(list, n) /\ list \in Seq(RangeRecord) /\ (InFree(list, x) <=> x \notin held) /\ x \in Int
  BY DEF Exact, Ranges
<1>2. \A i \in DOMAIN list : x \in list[i].start..End(list[i]) - 1 <=> Covers(list[i], x)
  BY <1>1, RecordFields DEF Covers
<1>3. \A i, j \in I : i = j
  BY <1>1, <1>2, Apart
<1>4. x \in held => I = {}
  BY <1>1, <1>2 DEF InFree
<1>5. x \notin held => \E i : I = {i}
  <2> HAVE x \notin held
  <2>1. PICK i \in DOMAIN list : Covers(list[i], x)
    BY <1>1 DEF InFree
  <2>2. i \in I
    BY <1>2, <2>1
  <2> HIDE DEF I
  <2> QED
    BY <1>3, <2>2
<1> HIDE DEF I
<1>6. IsFiniteSet(I) /\ Cardinality(I) = IF x \in held THEN 0 ELSE 1
  BY <1>4, <1>5, FS_EmptySet, FS_Singleton
<1> QED
  BY <1>6 DEF I

(* A run of free blocks is enough for a request.                           *)
LEMMA RefusedExact ==
  ASSUME NEW n \in Nat, NEW list, NEW held, Exact(list, held, n), NEW num \in Nat \ {0},
         FirstFit(list, num) = 0, NEW first \in Nat, first + num <= n
  PROVE  RunOf(first, num) \intersect held # {}
<1> SUFFICES ASSUME RunOf(first, num) \intersect held = {} PROVE FALSE
  OBVIOUS
<1>1. Ranges(list, n) /\ list \in Seq(RangeRecord) /\ \A x \in 0..n - 1 : InFree(list, x) <=> x \notin held
  BY DEF Exact, Ranges
<1>2. \A x \in first..first + num - 1 : InFree(list, x)
  BY <1>1 DEF RunOf
<1>3. PICK k \in DOMAIN list : list[k].start <= first /\ first + num <= End(list[k])
  BY <1>1, <1>2, RunInOneRange
<1>4. list[k].start \in Nat /\ list[k].num \in Nat /\ End(list[k]) = list[k].start + list[k].num
  BY <1>1, RecordFields DEF End
<1>5. list[k].num < num
  BY <1>1, FirstFitIs
<1> QED
  BY <1>3, <1>4, <1>5

LEMMA RangesTyped ==
  ASSUME NEW n \in Nat, NEW list, Ranges(list, n)
  PROVE  list \in Seq([start : 0..n - 1, num : 1..n])
<1>1. list \in Seq(RangeRecord)
  BY DEF Ranges
<1>2. \A k \in DOMAIN list : list[k] \in [start : 0..n - 1, num : 1..n]
  <2> TAKE k \in DOMAIN list
  <2>1. /\ list[k] \in RangeRecord
        /\ list[k].start \in Nat /\ list[k].num \in Nat \ {0} /\ End(list[k]) <= n
    BY <1>1, RecordFields DEF Ranges
  <2>2. list[k].start \in 0..n - 1 /\ list[k].num \in 1..n
    BY <2>1 DEF End
  <2> QED
    BY <2>1, <2>2 DEF RangeRecord
<1>3. Len(list) \in Nat /\ DOMAIN list = 1..Len(list) /\ list = [k \in 1..Len(list) |-> list[k]]
  BY <1>1
<1> DEFINE T == [start : 0..n - 1, num : 1..n]
<1>4. list \in [1..Len(list) -> T]
  BY <1>2, <1>3
<1> HIDE DEF T
<1>5. list \in Seq(T)
  BY <1>3, <1>4, SeqDef
<1> QED
  BY <1>5 DEF T

-----------------------------------------------------------------------------
LEMMA DivExact ==
  ASSUME NEW q \in Nat, NEW d \in Nat \ {0}
  PROVE  q * d \in Nat /\ (q * d) \div d = q
OBVIOUS

(* Blocks hold what is asked for, and none is wasted.                      *)
LEMMA SlotsSuffice ==
  ASSUME NEW bytes \in Nat, NEW d \in Nat \ {0}
  PROVE  LET n == SlotsFor(bytes, d) IN
         /\ n \in Nat /\ bytes <= n * d /\ n * d < bytes + d
         /\ bytes = 0 => n = 0
         /\ bytes # 0 => n # 0
<1> DEFINE n == SlotsFor(bytes, d)
           t == bytes + d - 1
<1>1. t \in Nat /\ n = t \div d
  BY DEF SlotsFor
<1> HIDE DEF t, n
<1>2. n \in Nat /\ n * d <= t /\ t < n * d + d
  BY <1>1
<1> DEFINE p == n * d
<1>3. n = 0 => p = 0
  OBVIOUS
<1>4. n # 0 => p >= d
  BY <1>2
<1>5. p \in Nat
  BY <1>2
<1> HIDE DEF p
<1>6. p <= t /\ t < p + d
  BY <1>2 DEF p
<1>7. /\ bytes <= p /\ p < bytes + d
      /\ bytes = 0 => n = 0
      /\ bytes # 0 => n # 0
  BY <1>1, <1>2, <1>3, <1>4, <1>5, <1>6 DEF t
<1> QED
  BY <1>2, <1>7 DEF n, p

LEMMA MoreSlots ==
  ASSUME NEW a \in Nat, NEW b \in Nat, a <= b, NEW d \in Nat \ {0}
  PROVE  SlotsFor(a, d) <= SlotsFor(b, d)
<1> DEFINE m == SlotsFor(a, d)
           n == SlotsFor(b, d)
<1>1. m \in Nat /\ n \in Nat /\ m * d < a + d /\ b <= n * d
  BY SlotsSuffice
<1> HIDE DEF m, n
<1>2. m * d < n * d + d
  BY <1>1
<1>3. m > n => m * d >= n * d + d
  BY <1>1
<1>4. m * d \in Nat /\ n * d \in Nat
  BY <1>1
<1>5. ~(m > n)
  BY <1>2, <1>3, <1>4
<1> QED
  BY <1>1, <1>5 DEF m, n
-----------------------------------------------------------------------------
(* FreespaceTracker.                                                       *)

(* What the AllocInfo of a run says.                                       *)
Info(first, num) == [offset |-> first * BlockSize, size |-> num * BlockSize]

LEMMA InfoIs ==
  ASSUME NEW first \in Nat, NEW num \in Nat \ {0}
  PROVE  /\ Info(first, num) \in [offset : Nat, size : Nat]
         /\ Info(first, num).offset \div BlockSize = first
         /\ Info(first, num).size \div BlockSize = num
         /\ BlocksOf(Info(first, num)) = RunOf(first, num)
         /\ Info(first, num) # NoSpace
<1>1. /\ first * BlockSize \in Nat /\ (first * BlockSize) \div BlockSize = first
      /\ num * BlockSize \in Nat /\ (num * BlockSize) \div BlockSize = num
      /\ ((first + num) * BlockSize) \div BlockSize = first + num
  BY DivExact, TrackerAssumption
<1>2. first * BlockSize + num * BlockSize = (first + num) * BlockSize
  BY TrackerAssumption
<1>3. Info(first, num).offset = first * BlockSize /\ Info(first, num).size = num * BlockSize
  BY DEF Info
<1>4. Info(first, num) # NoSpace
  BY <1>1, <1>3 DEF NoSpace
<1>5. BlocksOf(Info(first, num)) = RunOf(first, num)
  BY <1>1, <1>2, <1>3 DEF BlocksOf, RunOf
<1>6. Info(first, num) \in [offset : Nat, size : Nat]
  BY <1>1 DEF Info
<1> QED
  BY <1>1, <1>3, <1>4, <1>5, <1>6

-----------------------------------------------------------------------------
(* The inductive invariant.                                                *)
LiveAreRuns ==
  \A info \in live : \E first \in Nat, num \in Nat \ {0} :
    info = Info(first, num) /\ first + num <= NumBlocks

LiveApart ==
  \A i, j \in live : \A b \in 0..NumBlocks - 1 : b \in BlocksOf(i) /\ b \in BlocksOf(j) => i = j

AnswerOK ==
  /\ request \in 0..MaxBytes
  /\ answer # NoSpace => \E first \in Nat, num \in Nat \ {0} :
       answer = Info(first, num) /\ num = SlotsFor(request, BlockSize)

TrackerInv ==
  /\ Exact(freerangeList, HeldBlocks, NumBlocks)
  /\ num_allocated_block = Cardinality(HeldBlocks)
  /\ LiveAreRuns /\ LiveApart /\ AnswerOK

LEMMA TrackerStart == TrackerInit => TrackerInv
<1> HAVE TrackerInit
<1> USE TrackerAssumption DEF TrackerInit
<1>1. HeldBlocks = {}
  BY DEF HeldBlocks
<1>2. Exact(freerangeList, {}, NumBlocks)
  BY AllFree
<1>3. Cardinality({}) = 0
  BY FS_EmptySet
<1> QED
  BY <1>1, <1>2, <1>3 DEF TrackerInv, LiveAreRuns, LiveApart, AnswerOK

(* What a request that fits gets.                                          *)
LEMMA AllocGets ==
  ASSUME TrackerInv, NEW bytes \in 1..MaxBytes, Alloc(bytes)
  PROVE  \E first \in Nat, num \in Nat \ {0} :
           /\ num = SlotsFor(bytes, BlockSize)
           /\ first + num <= NumBlocks
           /\ answer' = Info(first, num) /\ request' = bytes
           /\ live' = live \union {Info(first, num)}
           /\ RunOf(first, num) \intersect HeldBlocks = {}
           /\ RunOf(first, num) \subseteq 0..NumBlocks - 1
           /\ Exact(freerangeList', HeldBlocks \union RunOf(first, num), NumBlocks)
           /\ num_allocated_block' = Cardinality(HeldBlocks \union RunOf(first, num))
<1> DEFINE num == SlotsFor(bytes, BlockSize)
           first == freerangeList[FirstFit(freerangeList, num)].start
<1>1. num \in Nat \ {0}
  BY SlotsSuffice, TrackerAssumption
<1>2. /\ FirstFit(freerangeList, num) # 0
      /\ freerangeList' = Taken(freerangeList, num)
      /\ num_allocated_block' = num_allocated_block + num
      /\ live' = live \union {Info(first, num)}
      /\ request' = bytes
      /\ answer' = Info(first, num)
  BY DEF Alloc, Info
<1> HIDE DEF num
<1>3. /\ first \in Nat /\ first + num <= NumBlocks
      /\ RunOf(first, num) \subseteq 0..NumBlocks - 1
      /\ RunOf(first, num) \intersect HeldBlocks = {}
      /\ Exact(Taken(freerangeList, num), HeldBlocks \union RunOf(first, num), NumBlocks)
      /\ Cardinality(HeldBlocks \union RunOf(first, num)) = Cardinality(HeldBlocks) + num
  BY <1>1, <1>2, TakenExact, TrackerAssumption DEF TrackerInv, FirstOf, TakenSafely
<1> HIDE DEF first
<1>4. num_allocated_block' = Cardinality(HeldBlocks \union RunOf(first, num))
  BY <1>2, <1>3 DEF TrackerInv, first
<1>5. num = SlotsFor(bytes, BlockSize)
  BY DEF num
<1> QED
  BY <1>1, <1>2, <1>3, <1>4, <1>5 DEF first

LEMMA AllocKeeps ==
  ASSUME TrackerInv, NEW bytes \in 1..MaxBytes, Alloc(bytes)
  PROVE  TrackerInv'
<1>1. PICK first \in Nat, num \in Nat \ {0} :
           /\ num = SlotsFor(bytes, BlockSize)
           /\ first + num <= NumBlocks
           /\ answer' = Info(first, num) /\ request' = bytes
           /\ live' = live \union {Info(first, num)}
           /\ RunOf(first, num) \intersect HeldBlocks = {}
           /\ RunOf(first, num) \subseteq 0..NumBlocks - 1
           /\ Exact(freerangeList', HeldBlocks \union RunOf(first, num), NumBlocks)
           /\ num_allocated_block' = Cardinality(HeldBlocks \union RunOf(first, num))
  BY AllocGets
<1> DEFINE new == Info(first, num)
<1>2. BlocksOf(new) = RunOf(first, num)
  BY InfoIs
<1> HIDE DEF new
<1>3. HeldBlocks' = HeldBlocks \union RunOf(first, num)
  BY <1>1, <1>2 DEF HeldBlocks, new
<1>4. LiveAreRuns'
  BY <1>1 DEF TrackerInv, LiveAreRuns
<1>5. LiveApart'
  <2> SUFFICES ASSUME NEW i \in live', NEW j \in live', NEW b \in 0..NumBlocks - 1,
                      b \in BlocksOf(i), b \in BlocksOf(j)
               PROVE  i = j
    BY DEF LiveApart
  <2>1. \A k \in live : b \in BlocksOf(k) => b \in HeldBlocks
    BY DEF HeldBlocks
  <2>2. b \in BlocksOf(new) => b \notin HeldBlocks
    BY <1>1, <1>2
  <2>3. (i \in live \/ i = new) /\ (j \in live \/ j = new)
    BY <1>1 DEF new
  <2> QED
    BY <2>1, <2>2, <2>3 DEF TrackerInv, LiveApart
<1>6. AnswerOK'
  <2>1. request' \in 0..MaxBytes
    BY <1>1, TrackerAssumption
  <2> QED
    BY <1>1, <2>1 DEF AnswerOK
<1> QED
  BY <1>1, <1>3, <1>4, <1>5, <1>6 DEF TrackerInv

LEMMA FreeKeeps ==
  ASSUME TrackerInv, NEW info \in live, FreeInfo(info)
  PROVE  TrackerInv'
<1>1. PICK first \in Nat, num \in Nat \ {0} : info = Info(first, num) /\ first + num <= NumBlocks
  BY DEF TrackerInv, LiveAreRuns
<1>2. /\ BlocksOf(info) = RunOf(first, num)
      /\ info.offset \div BlockSize = first /\ info.size \div BlockSize = num
  BY <1>1, InfoIs
<1>3. /\ live' = live \ {info}
      /\ freerangeList' = Freed(freerangeList, first, num)
      /\ num_allocated_block' = num_allocated_block - num
      /\ request' = request /\ answer' = answer
  BY <1>2 DEF FreeInfo
<1>4. RunOf(first, num) \subseteq 0..NumBlocks - 1
  BY <1>1, TrackerAssumption DEF RunOf
<1>5. RunOf(first, num) \subseteq HeldBlocks
  BY <1>2, <1>4 DEF HeldBlocks
<1>6. /\ Exact(freerangeList', HeldBlocks \ RunOf(first, num), NumBlocks)
      /\ num_allocated_block' = Cardinality(HeldBlocks \ RunOf(first, num))
  BY <1>3, <1>5, FreedExact, TrackerAssumption DEF TrackerInv
<1>7. HeldBlocks' = HeldBlocks \ RunOf(first, num)
  <2>1. \A b \in 0..NumBlocks - 1, j \in live : b \in BlocksOf(j) /\ b \in BlocksOf(info) => j = info
    BY DEF TrackerInv, LiveApart
  <2> QED
    BY <1>2, <1>3, <2>1 DEF HeldBlocks
<1>8. LiveAreRuns' /\ LiveApart' /\ AnswerOK'
  BY <1>3 DEF TrackerInv, LiveAreRuns, LiveApart, AnswerOK
<1> QED
  BY <1>6, <1>7, <1>8 DEF TrackerInv

LEMMA TrackerStep == TrackerInv /\ [TrackerNext]_trackerVars => TrackerInv'
<1> SUFFICES ASSUME TrackerInv, [TrackerNext]_trackerVars PROVE TrackerInv'
  OBVIOUS
<1>1. ASSUME NEW bytes \in 1..MaxBytes, AllocFails(bytes) PROVE TrackerInv'
  <2>1. /\ request' = bytes /\ answer' = NoSpace
        /\ UNCHANGED <<freerangeList, num_allocated_block, live>>
    BY <1>1 DEF AllocFails
  <2>2. HeldBlocks' = HeldBlocks /\ LiveAreRuns' /\ LiveApart'
    BY <2>1 DEF HeldBlocks, TrackerInv, LiveAreRuns, LiveApart
  <2>3. AnswerOK'
    BY <2>1, TrackerAssumption DEF AnswerOK
  <2> QED
    BY <2>1, <2>2, <2>3 DEF TrackerInv
<1>2. CASE UNCHANGED trackerVars
  <2>1. HeldBlocks' = HeldBlocks /\ LiveAreRuns' /\ LiveApart' /\ AnswerOK'
    BY <1>2 DEF trackerVars, HeldBlocks, TrackerInv, LiveAreRuns, LiveApart, AnswerOK
  <2> QED
    BY <1>2, <2>1 DEF trackerVars, TrackerInv
<1> QED
  BY <1>1, <1>2, AllocKeeps, FreeKeeps DEF TrackerNext

-----------------------------------------------------------------------------
(* The invariant says what TrackerSound says.                              *)
LEMMA TrackerImplied == TrackerInv => TrackerSound
<1> SUFFICES ASSUME TrackerInv PROVE TrackerSound
  OBVIOUS
<1>1. HeldBlocks \subseteq 0..NumBlocks - 1 /\ Ranges(freerangeList, NumBlocks)
  BY DEF TrackerInv, Exact
<1>2. Cardinality(HeldBlocks) \in 0..NumBlocks
  <2>1. NumBlocks \in Nat
    BY TrackerAssumption
  <2>2. Cardinality(HeldBlocks) \in Nat /\ Cardinality(HeldBlocks) <= NumBlocks
    BY <1>1, <2>1, HeldFinite
  <2> QED
    BY <2>1, <2>2
<1>3. \A info \in live : info \in [offset : Nat, size : Nat]
  BY InfoIs DEF TrackerInv, LiveAreRuns
<1>4. answer \in [offset : Nat \union {-1}, size : Nat]
  <2>1. CASE answer = NoSpace
    BY <2>1 DEF NoSpace
  <2>2. CASE answer # NoSpace
    <3>1. answer \in [offset : Nat, size : Nat]
      BY <2>2, InfoIs DEF TrackerInv, AnswerOK
    <3> QED
      BY <3>1
  <2> QED
    BY <2>1, <2>2
<1>5. TrackerTypeOK
  BY <1>1, <1>2, <1>3, <1>4, RangesTyped, TrackerAssumption DEF TrackerTypeOK, TrackerInv, AnswerOK
<1>6. ASSUME NEW b \in 0..NumBlocks - 1
      PROVE  Cardinality({i \in DOMAIN freerangeList :
                            b \in freerangeList[i].start..End(freerangeList[i]) - 1})
               + Cardinality({info \in live : b \in BlocksOf(info)}) = 1
  <2> DEFINE S == {info \in live : b \in BlocksOf(info)}
  <2>1. b \in HeldBlocks <=> S # {}
    BY DEF HeldBlocks
  <2>2. \A i, j \in S : i = j
    BY DEF TrackerInv, LiveApart
  <2> HIDE DEF S
  <2>3. S # {} => \E i : S = {i}
    <3> HAVE S # {}
    <3>1. PICK i : i \in S
      OBVIOUS
    <3>2. S = {i}
      BY <2>2, <3>1
    <3> QED
      BY <3>2
  <2>4. Cardinality(S) = IF b \in HeldBlocks THEN 1 ELSE 0
    BY <2>1, <2>3, FS_EmptySet, FS_Singleton
  <2>5. Cardinality({i \in DOMAIN freerangeList :
                       b \in freerangeList[i].start..End(freerangeList[i]) - 1})
          = IF b \in HeldBlocks THEN 0 ELSE 1
    BY ExactCounts, TrackerAssumption DEF TrackerInv
  <2> QED
    BY <2>4, <2>5 DEF S
<1>7. EveryBlockOnce
  BY <1>6 DEF EveryBlockOnce, TrackerInv
<1>8. SortedAndCoalesced
  <2> SUFFICES ASSUME NEW i \in 1..Len(freerangeList) - 1
               PROVE  End(freerangeList[i]) < freerangeList[i + 1].start
    BY DEF SortedAndCoalesced
  <2>1. freerangeList \in Seq(RangeRecord)
    BY <1>1 DEF Ranges
  <2>2. i \in DOMAIN freerangeList /\ i + 1 \in DOMAIN freerangeList /\ i < i + 1
    BY <2>1
  <2> QED
    BY <1>1, <2>2 DEF Ranges
<1>9. AnswerCovers
  <2> SUFFICES ASSUME answer # NoSpace
               PROVE  answer.size >= request /\ answer.size < request + BlockSize
    BY DEF AnswerCovers
  <2>1. PICK first \in Nat, num \in Nat \ {0} : answer = Info(first, num) /\ num = SlotsFor(request, BlockSize)
    BY DEF TrackerInv, AnswerOK
  <2>2. request \in Nat /\ answer.size = SlotsFor(request, BlockSize) * BlockSize
    BY <2>1, TrackerAssumption DEF TrackerInv, AnswerOK, Info
  <2>3. /\ request <= SlotsFor(request, BlockSize) * BlockSize
        /\ SlotsFor(request, BlockSize) * BlockSize < request + BlockSize
        /\ SlotsFor(request, BlockSize) * BlockSize \in Nat
    BY <2>1, <2>2, SlotsSuffice, DivExact, TrackerAssumption
  <2> QED
    BY <2>2, <2>3, TrackerAssumption
<1> QED
  BY <1>5, <1>7, <1>8, <1>9 DEF TrackerSound

(* Blocks are requested and freed in any order, for any number and size of *)
(* blocks: each is free or handed out exactly once, the ranges stay sorted *)
(* and merged, and what is handed out covers the request.                  *)
THEOREM TrackerIsSound == TrackerSpec => []TrackerSound
  BY TrackerStart, TrackerStep, TrackerImplied, PTL DEF TrackerSpec

-----------------------------------------------------------------------------
(* Refinement: the tracker is a manager of blocks.                         *)
TakenRuns == {Run(info) : info \in live}

LEMMA RunIs ==
  ASSUME NEW first \in Nat, NEW num \in Nat \ {0}
  PROVE  /\ Run(Info(first, num)) = [first |-> first, num |-> num]
         /\ Manager!Blocks(Run(Info(first, num))) = RunOf(first, num)
         /\ Manager!Blocks(Run(Info(first, num))) = BlocksOf(Info(first, num))
<1> DEFINE info == Info(first, num)
<1>1. /\ info.offset \div BlockSize = first /\ info.size \div BlockSize = num
      /\ info # NoSpace /\ BlocksOf(info) = RunOf(first, num)
  BY InfoIs
<1> HIDE DEF info
<1>2. Run(info) = [first |-> first, num |-> num]
  BY <1>1 DEF Run
<1>3. Manager!Blocks(Run(info)) = RunOf(first, num)
  BY <1>2 DEF Manager!Blocks, RunOf
<1> QED
  BY <1>1, <1>2, <1>3 DEF info

LEMMA ManagerStart == TrackerInit => Manager!Init
<1> HAVE TrackerInit
<1>1. SlotsFor(0, BlockSize) = 0
  BY SlotsSuffice, TrackerAssumption
<1>2. {Run(info) : info \in live} = {}
  BY DEF TrackerInit
<1>3. NoSpace.size \div BlockSize = 0
  BY DivExact, TrackerAssumption DEF NoSpace
<1> QED
  BY <1>1, <1>2, <1>3 DEF TrackerInit, Manager!Init, Manager!Refused, Run, NoSpace

LEMMA RequestsAsked ==
  ASSUME NEW bytes \in 1..MaxBytes
  PROVE  SlotsFor(bytes, BlockSize) \in 1..SlotsFor(MaxBytes, BlockSize)
<1>1. bytes \in Nat /\ bytes # 0 /\ MaxBytes \in Nat /\ bytes <= MaxBytes /\ BlockSize \in Nat \ {0}
  BY TrackerAssumption
<1>2. SlotsFor(bytes, BlockSize) \in Nat \ {0} /\ SlotsFor(MaxBytes, BlockSize) \in Nat
  BY <1>1, SlotsSuffice
<1>3. SlotsFor(bytes, BlockSize) <= SlotsFor(MaxBytes, BlockSize)
  BY <1>1, MoreSlots
<1> QED
  BY <1>2, <1>3

LEMMA AllocIsGrant ==
  ASSUME TrackerInv, NEW bytes \in 1..MaxBytes, Alloc(bytes)
  PROVE  Manager!Grant(SlotsFor(bytes, BlockSize))
<1>1. PICK first \in Nat, num \in Nat \ {0} :
           /\ num = SlotsFor(bytes, BlockSize)
           /\ first + num <= NumBlocks
           /\ answer' = Info(first, num) /\ request' = bytes
           /\ live' = live \union {Info(first, num)}
           /\ RunOf(first, num) \intersect HeldBlocks = {}
           /\ RunOf(first, num) \subseteq 0..NumBlocks - 1
  BY AllocGets
<1> DEFINE run == Run(Info(first, num))
<1>2. run = [first |-> first, num |-> num] /\ Manager!Blocks(run) = RunOf(first, num)
  BY RunIs
<1>3. Manager!Blocks(run) \subseteq 0..NumBlocks - 1
  BY <1>1, <1>2
<1>4. \A t \in TakenRuns : Manager!Blocks(t) \intersect Manager!Blocks(run) = {}
  <2> TAKE t \in TakenRuns
  <2>1. PICK info \in live : t = Run(info)
    BY DEF TakenRuns
  <2>2. PICK f \in Nat, n \in Nat \ {0} : info = Info(f, n) /\ f + n <= NumBlocks
    BY DEF TrackerInv, LiveAreRuns
  <2>3. Manager!Blocks(t) = BlocksOf(info) /\ BlocksOf(info) = RunOf(f, n)
    BY <2>1, <2>2, RunIs, InfoIs
  <2>4. \A b \in Manager!Blocks(run) : b \in 0..NumBlocks - 1 /\ b \notin HeldBlocks
    BY <1>1, <1>2, <1>3
  <2>5. \A b \in 0..NumBlocks - 1 : b \in BlocksOf(info) => b \in HeldBlocks
    BY DEF HeldBlocks
  <2> QED
    BY <2>3, <2>4, <2>5
<1>5. run \in [first : 0..NumBlocks - 1, num : {num}]
  <2>1. first \in 0..NumBlocks - 1
    BY <1>1, TrackerAssumption
  <2> QED
    BY <1>2, <2>1
<1>6. TakenRuns' = TakenRuns \union {run}
  BY <1>1 DEF TakenRuns
<1> HIDE DEF run
<1>7. run \in Manager!Runs(num)
  BY <1>3, <1>4, <1>5 DEF Manager!Runs, Manager!Free, TakenRuns
<1>8. Run(answer)' = run
  BY <1>1 DEF run
<1>9. SlotsFor(request, BlockSize)' = SlotsFor(bytes, BlockSize)
  BY <1>1
<1> QED
  BY <1>1, <1>6, <1>7, <1>8, <1>9 DEF Manager!Grant, TakenRuns

LEMMA FailIsRefuse ==
  ASSUME TrackerInv, NEW bytes \in 1..MaxBytes, AllocFails(bytes)
  PROVE  Manager!Refuse(SlotsFor(bytes, BlockSize))
<1> DEFINE num == SlotsFor(bytes, BlockSize)
<1>1. num \in Nat \ {0}
  BY SlotsSuffice, TrackerAssumption
<1>2. /\ FirstFit(freerangeList, num) = 0 /\ request' = bytes /\ answer' = NoSpace
      /\ UNCHANGED <<freerangeList, num_allocated_block, live>>
  BY DEF AllocFails
<1> HIDE DEF num
<1>3. ASSUME NEW run \in Manager!Runs(num) PROVE FALSE
  <2>1. /\ run \in [first : 0..NumBlocks - 1, num : {num}]
        /\ Manager!Blocks(run) \subseteq 0..NumBlocks - 1
        /\ \A t \in TakenRuns : Manager!Blocks(t) \intersect Manager!Blocks(run) = {}
    BY <1>3 DEF Manager!Runs, Manager!Free, TakenRuns
  <2>2. run.first \in Nat /\ run.num = num /\ Manager!Blocks(run) = RunOf(run.first, num)
    BY <2>1, TrackerAssumption DEF Manager!Blocks, RunOf
  <2>3. run.first + num - 1 \in RunOf(run.first, num)
    BY <1>1, <2>2 DEF RunOf
  <2>4. run.first + num <= NumBlocks
    <3>1. run.first + num - 1 \in 0..NumBlocks - 1
      BY <2>1, <2>2, <2>3
    <3> QED
      BY <1>1, <2>2, <3>1, TrackerAssumption
  <2>5. PICK b \in RunOf(run.first, num) : b \in HeldBlocks
    BY <1>1, <1>2, <2>2, <2>4, RefusedExact, TrackerAssumption DEF TrackerInv
  <2>6. PICK info \in live : b \in BlocksOf(info)
    BY <2>5 DEF HeldBlocks
  <2>7. PICK f \in Nat, n \in Nat \ {0} : info = Info(f, n)
    BY DEF TrackerInv, LiveAreRuns
  <2>8. Manager!Blocks(Run(info)) = BlocksOf(info) /\ Run(info) \in TakenRuns
    BY <2>7, RunIs DEF TakenRuns
  <2> QED
    BY <2>1, <2>2, <2>5, <2>6, <2>8
<1>4. Manager!Runs(num) = {}
  BY <1>3
<1>5. NoSpace.size \div BlockSize = 0
  BY DivExact, TrackerAssumption DEF NoSpace
<1>6. Run(answer)' = Manager!Refused
  BY <1>2, <1>5 DEF Run, Manager!Refused
<1>7. SlotsFor(request, BlockSize)' = num /\ TakenRuns' = TakenRuns
  BY <1>2 DEF num, TakenRuns
<1> QED
  BY <1>4, <1>6, <1>7 DEF Manager!Refuse, TakenRuns, num

LEMMA FreeIsReturn ==
  ASSUME TrackerInv, NEW info \in live, FreeInfo(info)
  PROVE  Manager!Return
<1>1. live' = live \ {info} /\ request' = request /\ answer' = answer
  BY DEF FreeInfo
<1>2. \A j \in live : Run(j) = Run(info) => j = info
  <2> TAKE j \in live
  <2> HAVE Run(j) = Run(info)
  <2>1. PICK f \in Nat, n \in Nat \ {0} : info = Info(f, n)
    BY DEF TrackerInv, LiveAreRuns
  <2>2. PICK g \in Nat, m \in Nat \ {0} : j = Info(g, m)
    BY DEF TrackerInv, LiveAreRuns
  <2>3. [first |-> g, num |-> m] = [first |-> f, num |-> n]
    BY <2>1, <2>2, RunIs
  <2>4. g = f /\ m = n
    BY <2>3
  <2> QED
    BY <2>1, <2>2, <2>4
<1>3. TakenRuns' = TakenRuns \ {Run(info)}
  BY <1>1, <1>2 DEF TakenRuns
<1>4. Run(info) \in TakenRuns /\ Run(answer)' = Run(answer)
      /\ SlotsFor(request, BlockSize)' = SlotsFor(request, BlockSize)
  BY <1>1 DEF TakenRuns
<1> QED
  BY <1>3, <1>4 DEF Manager!Return, TakenRuns

LEMMA ManagerStep ==
  TrackerInv /\ [TrackerNext]_trackerVars => [Manager!Next]_Manager!spaceVars
<1> SUFFICES ASSUME TrackerInv, [TrackerNext]_trackerVars
             PROVE  Manager!Next \/ UNCHANGED Manager!spaceVars
  OBVIOUS
<1>1. CASE UNCHANGED trackerVars
  BY <1>1 DEF trackerVars, Manager!spaceVars
<1>2. ASSUME NEW bytes \in 1..MaxBytes, Alloc(bytes) \/ AllocFails(bytes) PROVE Manager!Next
  BY <1>2, AllocIsGrant, FailIsRefuse, RequestsAsked DEF Manager!Next
<1>3. ASSUME NEW info \in live, FreeInfo(info) PROVE Manager!Next
  BY <1>3, FreeIsReturn DEF Manager!Next
<1> QED
  BY <1>1, <1>2, <1>3 DEF TrackerNext

(* Seen from outside the tracker is a manager of blocks that refuses only  *)
(* what no run of free blocks can hold.                                    *)
THEOREM TrackerIsManager == TrackerSpec => ImplementsSpace
  BY TrackerStart, TrackerStep, ManagerStart, ManagerStep, PTL
     DEF TrackerSpec, ImplementsSpace, Manager!Spec
-----------------------------------------------------------------------------
(* MemManager.                                                             *)

LEMMA RemainderIs ==
  ASSUME NEW a \in Nat, NEW d \in Nat \ {0}
  PROVE  /\ a % d \in 0..d - 1 /\ a \div d \in Nat
         /\ a = d * (a \div d) + (a % d)
OBVIOUS

LEMMA RemainderUnique ==
  ASSUME NEW d \in Nat \ {0}, NEW q \in Nat, NEW r \in 0..d - 1
  PROVE  (d * q + r) % d = r
OBVIOUS

(* The counter of the guards follows the number of handles made.           *)
LEMMA RemainderSucc ==
  ASSUME NEW a \in Nat, NEW d \in Nat \ {0}
  PROVE  ((a % d) + 1) % d = (a + 1) % d
<1> DEFINE q == a \div d
           r == a % d
<1>1. q \in Nat /\ r \in 0..d - 1 /\ a = d * q + r
  BY RemainderIs
<1> HIDE DEF q, r
<1>2. d * q \in Nat
  BY <1>1
<1>3. CASE r + 1 < d
  <2>1. r + 1 \in 0..d - 1 /\ a + 1 = d * q + (r + 1)
    BY <1>1, <1>2, <1>3
  <2> DEFINE t == r + 1
  <2>2. t \in 0..d - 1 /\ a + 1 = d * q + t
    BY <2>1
  <2> HIDE DEF t
  <2>3. (d * q + t) % d = t
    BY <1>1, <2>2, RemainderUnique
  <2>4. (d * 0 + t) % d = t
    BY <2>2, RemainderUnique
  <2>5. d * 0 + t = t
    BY <2>2
  <2> QED
    BY <2>2, <2>3, <2>4, <2>5 DEF r, t
<1>4. CASE r + 1 = d
  <2>1. a + 1 = d * (q + 1) + 0 /\ q + 1 \in Nat /\ 0 \in 0..d - 1
    BY <1>1, <1>2, <1>4
  <2> DEFINE p == q + 1
  <2>2. a + 1 = d * p + 0 /\ p \in Nat
    BY <2>1
  <2> HIDE DEF p
  <2>3. (d * p + 0) % d = 0
    BY <2>1, <2>2, RemainderUnique
  <2>4. (d * 1 + 0) % d = 0
    BY <2>1, RemainderUnique
  <2>5. d * 1 + 0 = r + 1
    BY <1>4
  <2> QED
    BY <2>2, <2>3, <2>4, <2>5 DEF r
<1> QED
  BY <1>1, <1>3, <1>4

(* Numbers with one remainder are a multiple apart.                        *)
LEMMA RemaindersApart ==
  ASSUME NEW a \in Nat, NEW b \in Nat, a < b, NEW d \in Nat \ {0}, a % d = b % d
  PROVE  (b - a) % d = 0
<1> DEFINE p == a \div d
           q == b \div d
           r == a % d
<1>1. p \in Nat /\ q \in Nat /\ r \in 0..d - 1 /\ a = d * p + r /\ b = d * q + r
  BY RemainderIs
<1> HIDE DEF p, q, r
<1>2. d * p \in Nat /\ d * q \in Nat
  BY <1>1
<1>3. d * p < d * q
  BY <1>1, <1>2
<1>4. p < q
  <2>1. p >= q => d * p >= d * q
    BY <1>1
  <2> QED
    BY <1>1, <1>2, <1>3, <2>1
<1> DEFINE m == q - p
<1>5. m \in Nat /\ d * m = d * q - d * p
  BY <1>1, <1>4
<1> HIDE DEF m
<1>6. b - a = d * m + 0 /\ 0 \in 0..d - 1
  BY <1>1, <1>2, <1>5
<1>7. (d * m + 0) % d = 0
  BY <1>5, <1>6, RemainderUnique
<1> QED
  BY <1>6, <1>7

-----------------------------------------------------------------------------
(* The inductive invariant: of each page its list of free ranges is what   *)
(* the descriptors held leave; the words that are handles are those of the *)
(* descriptors held; and the guard of a handle is the number of handles    *)
(* made before it, modulo Guards.                                          *)
PageRecord == [blob : BOOLEAN, list : Seq(RangeRecord), count : Nat]

MemTyped ==
  /\ pages \in [Page -> PageRecord]
  /\ word \in [Page -> [Slot -> ResHandle \union {NoHandle}]]
  /\ issued \in 0..MaxReserve /\ guard = issued % Guards
  /\ owned \subseteq Issue /\ old \subseteq Issue
  /\ refused \in Sizes \union {0}

PagesExact ==
  \A p \in Page : /\ Exact(pages[p].list, HeldSlots(p), SlotsPerPage)
                  /\ pages[p].count = Cardinality(HeldSlots(p))

OwnedFit == \A x \in owned : x.handle.slot + x.handle.num <= SlotsPerPage

WordsOwned ==
  \A p \in Page, s \in Slot : word[p][s] # NoHandle =>
    \E y \in owned : y.handle = word[p][s] /\ y.handle.page = p /\ y.handle.slot = s

GuardsFollow ==
  \A x \in owned \union old : x.n < issued /\ x.handle.guard = x.n % Guards

OldBefore == \A x \in old, y \in owned : x.handle = y.handle => x.n < y.n

MemInv ==
  /\ MemTyped /\ PagesExact /\ OwnedFit /\ OwnedResolve /\ WordsOwned
  /\ GuardsFollow /\ OldBefore /\ RefusedWhenFull

LEMMA Assumed ==
  /\ NumPages \in Nat \ {0} /\ SlotsPerPage \in Nat \ {0} /\ SlotsPerPage \in Nat
  /\ \A n \in Sizes : n \in Nat \ {0} /\ n <= SlotsPerPage
  /\ Guards \in Nat \ {0} /\ MaxReserve \in Nat /\ 0 \in Page
  /\ Page \subseteq Nat /\ Slot \subseteq Nat
BY MemAssumption DEF Page, Slot

LEMMA HandleFields ==
  ASSUME NEW h \in ResHandle
  PROVE  /\ h.page \in Page /\ h.slot \in Slot /\ h.num \in Sizes
         /\ h.slot \in Nat /\ h.num \in Nat \ {0} /\ h # NoHandle
<1>1. h.page \in Page /\ h.slot \in Slot /\ h.num \in Sizes
  BY DEF ResHandle
<1>2. NoHandle.num = 0
  BY DEF NoHandle
<1> QED
  BY <1>1, <1>2, Assumed

LEMMA IssueFields ==
  ASSUME NEW x \in Issue
  PROVE  x.handle \in ResHandle /\ x.n \in Nat
BY DEF Issue

LEMMA HeldByOne ==
  ASSUME MemTyped, OwnedResolve, NEW x \in owned, NEW y \in owned,
         x.handle.page = y.handle.page, NEW s \in Nat,
         s \in RunOf(x.handle.slot, x.handle.num), s \in RunOf(y.handle.slot, y.handle.num)
  PROVE  x = y
<1>1. x \in Issue /\ y \in Issue
  BY DEF MemTyped
<1>2. /\ x.handle.slot \in Nat /\ x.handle.num \in Nat
      /\ y.handle.slot \in Nat /\ y.handle.num \in Nat
  BY <1>1, IssueFields, HandleFields
<1>3. /\ x.handle.slot <= s /\ s < x.handle.slot + x.handle.num
      /\ y.handle.slot <= s /\ s < y.handle.slot + y.handle.num
  BY <1>2 DEF RunOf
<1>4. \/ x = y
      \/ x.handle.slot + x.handle.num <= y.handle.slot
      \/ y.handle.slot + y.handle.num <= x.handle.slot
  BY DEF OwnedResolve
<1> QED
  BY <1>2, <1>3, <1>4

LEMMA SameHandleSame ==
  ASSUME MemTyped, OwnedResolve, NEW x \in owned, NEW y \in owned, x.handle = y.handle
  PROVE  x = y
<1>1. x \in Issue
  BY DEF MemTyped
<1>2. x.handle.slot \in Nat /\ x.handle.num \in Nat \ {0}
  BY <1>1, IssueFields, HandleFields
<1>3. x.handle.slot \in RunOf(x.handle.slot, x.handle.num)
  BY <1>2 DEF RunOf
<1> QED
  BY <1>2, <1>3, HeldByOne

LEMMA HeldRun ==
  ASSUME MemTyped, OwnedFit, NEW x \in owned, NEW p \in Page
  PROVE  /\ x.handle.slot \in Nat /\ x.handle.num \in Nat \ {0}
         /\ RunOf(x.handle.slot, x.handle.num) \subseteq Slot
         /\ \A s \in Slot : (/\ x.handle.slot <= s /\ s < x.handle.slot + x.handle.num)
                            <=> s \in RunOf(x.handle.slot, x.handle.num)
<1>1. x \in Issue
  BY DEF MemTyped
<1>2. x.handle.slot \in Nat /\ x.handle.num \in Nat \ {0}
  BY <1>1, IssueFields, HandleFields
<1>3. x.handle.slot + x.handle.num <= SlotsPerPage
  BY DEF OwnedFit
<1>4. RunOf(x.handle.slot, x.handle.num) \subseteq Slot
  BY <1>2, <1>3, Assumed DEF RunOf, Slot
<1>5. \A s \in Slot : (/\ x.handle.slot <= s /\ s < x.handle.slot + x.handle.num)
                            <=> s \in RunOf(x.handle.slot, x.handle.num)
  BY <1>2, Assumed DEF RunOf, Slot
<1> QED
  BY <1>2, <1>4, <1>5

LEMMA HeldSlotsAre ==
  ASSUME MemTyped, OwnedFit, NEW p \in Page
  PROVE  HeldSlots(p) = UNION {RunOf(x.handle.slot, x.handle.num) : x \in {y \in owned : y.handle.page = p}}
BY HeldRun DEF HeldSlots

LEMMA MemStart == MemInit => MemInv
<1> HAVE MemInit
<1> USE DEF MemInit
<1>1. 0 \in Nat /\ RangeAt(0, SlotsPerPage) \in RangeRecord
  BY Assumed DEF RangeAt, RangeRecord
<1>2. <<RangeAt(0, SlotsPerPage)>> \in Seq(RangeRecord)
  BY <1>1
<1>3. MemTyped
  <2>1. 0 % Guards = 0
    BY Assumed
  <2>2. pages \in [Page -> PageRecord]
    BY <1>2 DEF PageRecord
  <2> QED
    BY <2>1, <2>2, Assumed DEF MemTyped
<1>4. PagesExact
  <2> SUFFICES ASSUME NEW p \in Page
               PROVE  /\ Exact(pages[p].list, HeldSlots(p), SlotsPerPage)
                      /\ pages[p].count = Cardinality(HeldSlots(p))
    BY DEF PagesExact
  <2>1. HeldSlots(p) = {}
    BY DEF HeldSlots
  <2>2. pages[p].list = <<RangeAt(0, SlotsPerPage)>> /\ pages[p].count = 0
    OBVIOUS
  <2>3. Exact(<<RangeAt(0, SlotsPerPage)>>, {}, SlotsPerPage) /\ Cardinality({}) = 0
    BY AllFree, Assumed, FS_EmptySet
  <2> QED
    BY <2>1, <2>2, <2>3
<1>5. WordsOwned
  BY DEF WordsOwned
<1> QED
  BY <1>3, <1>4, <1>5
     DEF MemInv, OwnedFit, OwnedResolve, GuardsFollow, OldBefore, RefusedWhenFull

-----------------------------------------------------------------------------
LEMMA ReserveKeeps ==
  ASSUME MemInv, NEW n \in Sizes, PrivReserve(n)
  PROVE  MemInv'
<1> USE Assumed
<1> DEFINE p == Min(PagesThatFit(n))
           list == pages[p].list
           first == list[FirstFit(list, n)].start
           h == [guard |-> guard, page |-> p, slot |-> first, num |-> n]
           x == [handle |-> h, n |-> issued]
           run == RunOf(first, n)
<1>1. /\ issued < MaxReserve /\ PagesThatFit(n) # {}
      /\ pages' = [pages EXCEPT ![p] = [blob |-> TRUE, list |-> Taken(@.list, n), count |-> @.count + n]]
      /\ word' = [word EXCEPT ![p][first] = h]
      /\ owned' = owned \union {x}
      /\ guard' = NextGuard /\ issued' = issued + 1 /\ refused' = 0 /\ old' = old
  BY DEF PrivReserve
<1>2. p \in Page /\ FirstFit(list, n) # 0
  <2>1. PagesThatFit(n) \in SUBSET Nat
    BY DEF PagesThatFit
  <2>2. p \in PagesThatFit(n)
    BY <1>1, <2>1, MinIsLeast
  <2> HIDE DEF p
  <2> QED
    BY <2>2 DEF PagesThatFit
<1>3. /\ MemTyped /\ PagesExact /\ OwnedFit /\ OwnedResolve /\ WordsOwned
      /\ GuardsFollow /\ OldBefore
  BY DEF MemInv
<1> HIDE DEF p
<1>4. Exact(list, HeldSlots(p), SlotsPerPage) /\ pages[p].count = Cardinality(HeldSlots(p))
  BY <1>2, <1>3 DEF PagesExact
<1> HIDE DEF list
<1>5. n \in Nat \ {0}
  OBVIOUS
<1>6. /\ first \in Nat /\ first + n <= SlotsPerPage
      /\ run \subseteq 0..SlotsPerPage - 1
      /\ run \intersect HeldSlots(p) = {}
      /\ Exact(Taken(list, n), HeldSlots(p) \union run, SlotsPerPage)
      /\ Cardinality(HeldSlots(p) \union run) = Cardinality(HeldSlots(p)) + n
  <2>1. /\ Exact(list, HeldSlots(p), SlotsPerPage) /\ SlotsPerPage \in Nat
        /\ n \in Nat \ {0} /\ FirstFit(list, n) # 0
    BY <1>2, <1>4, <1>5 DEF list
  <2> HIDE DEF first, run
  <2>2. first = FirstOf(list, n) /\ run = RunOf(first, n)
    BY DEF first, run, FirstOf
  <2>3. TakenSafely(list, HeldSlots(p), SlotsPerPage, n)
    BY ONLY <2>1, TakenExact
  <2> QED
    BY ONLY <2>2, <2>3 DEF TakenSafely
<1> HIDE DEF first
<1>7. first \in Slot /\ first \in run
  BY <1>5, <1>6 DEF Slot, RunOf
<1>8. guard = issued % Guards /\ issued \in Nat /\ guard \in 0..Guards - 1
  BY <1>3, RemainderIs DEF MemTyped
<1>9. h \in ResHandle /\ x \in Issue
  BY <1>2, <1>7, <1>8 DEF ResHandle, Issue
<1>10. /\ h.page = p /\ h.slot = first /\ h.num = n /\ h.guard = guard
       /\ x.handle = h /\ x.n = issued
  OBVIOUS
<1> HIDE DEF h
<1> HIDE DEF x
<1>11. pages' \in [Page -> PageRecord]
       /\ pages'[p].list = Taken(list, n) /\ pages'[p].count = pages[p].count + n
       /\ \A q \in Page : q # p => pages'[q] = pages[q]
  <2>1. pages[p] \in PageRecord /\ pages \in [Page -> PageRecord]
    BY <1>2, <1>3 DEF MemTyped
  <2>2. Taken(list, n) \in Seq(RangeRecord)
    BY <1>6 DEF Exact, Ranges
  <2>3. pages[p].count + n \in Nat
    BY <1>5, <2>1 DEF PageRecord
  <2> DEFINE r == [blob |-> TRUE, list |-> Taken(list, n), count |-> pages[p].count + n]
  <2>4. r \in PageRecord
    BY <2>2, <2>3 DEF PageRecord
  <2>5. pages' = [pages EXCEPT ![p] = r]
    BY <1>1 DEF list
  <2>6. r.list = Taken(list, n) /\ r.count = pages[p].count + n
    OBVIOUS
  <2> HIDE DEF r
  <2> QED
    BY <1>2, <2>1, <2>4, <2>5, <2>6
<1>12. MemTyped'
  <2>1. issued' \in 0..MaxReserve /\ refused' \in Sizes \union {0}
    BY <1>1, <1>3, <1>8 DEF MemTyped
  <2>2. guard' = issued' % Guards
    BY <1>1, <1>8, RemainderSucc DEF NextGuard
  <2>3. word' \in [Page -> [Slot -> ResHandle \union {NoHandle}]]
    BY <1>1, <1>2, <1>3, <1>7, <1>9 DEF MemTyped
  <2>4. owned' \subseteq Issue /\ old' \subseteq Issue
    BY <1>1, <1>3, <1>9 DEF MemTyped
  <2> QED
    BY <1>11, <2>1, <2>2, <2>3, <2>4 DEF MemTyped
<1>13. OwnedFit'
  BY <1>1, <1>3, <1>6, <1>10 DEF OwnedFit
<1>14. \A q \in Page : HeldSlots(q)' = IF q = p THEN HeldSlots(p) \union run ELSE HeldSlots(q)
  <2> TAKE q \in Page
  <2>1. \A s \in Slot : (first <= s /\ s < first + n) <=> s \in run
    BY <1>5, <1>6 DEF Slot, RunOf
  <2>2. run \subseteq Slot
    BY <1>6 DEF Slot
  <2> HIDE DEF run
  <2>3. HeldSlots(q)' = HeldSlots(q) \union {s \in Slot : q = p /\ s \in run}
    BY <1>1, <1>10, <2>1 DEF HeldSlots
  <2> QED
    BY <2>2, <2>3
<1>15. PagesExact'
  <2> SUFFICES ASSUME NEW q \in Page
               PROVE  /\ Exact(pages[q].list, HeldSlots(q), SlotsPerPage)'
                      /\ pages'[q].count = Cardinality(HeldSlots(q)')
    BY DEF PagesExact
  <2>1. CASE q = p
    <3>1. HeldSlots(q)' = HeldSlots(p) \union run
      BY <1>14, <2>1
    <3>2. pages'[q].list = Taken(list, n) /\ pages'[q].count = pages[p].count + n
      BY <1>11, <2>1
    <3> QED
      BY <1>4, <1>6, <3>1, <3>2
  <2>2. CASE q # p
    <3>1. HeldSlots(q)' = HeldSlots(q) /\ pages'[q] = pages[q]
      BY <1>11, <1>14, <2>2
    <3> QED
      BY <1>3, <3>1 DEF PagesExact
  <2> QED
    BY <2>1, <2>2
<1>16. \A y \in owned : \/ y.handle.page # p
                        \/ y.handle.slot + y.handle.num <= first
                        \/ first + n <= y.handle.slot
  <2> SUFFICES ASSUME NEW y \in owned, y.handle.page = p,
                      ~(y.handle.slot + y.handle.num <= first),
                      ~(first + n <= y.handle.slot)
               PROVE  FALSE
    OBVIOUS
  <2>1. y.handle.slot \in Nat /\ y.handle.num \in Nat \ {0} /\ y.handle.slot + y.handle.num <= SlotsPerPage
    BY <1>2, <1>3, HeldRun DEF OwnedFit
  <2> DEFINE s == IF y.handle.slot <= first THEN first ELSE y.handle.slot
  <2>2. s \in run /\ y.handle.slot <= s /\ s < y.handle.slot + y.handle.num
    BY <1>5, <1>6, <2>1 DEF RunOf
  <2>3. s \in Slot
    BY <1>6, <2>2 DEF Slot
  <2> HIDE DEF s, run
  <2> QED
    BY <1>6, <2>2, <2>3 DEF HeldSlots
<1>17. \A q \in Page, s \in Slot :
          word'[q][s] = IF q = p /\ s = first THEN h ELSE word[q][s]
  BY <1>1, <1>2, <1>3, <1>7 DEF MemTyped
<1>18. OwnedResolve'
  <2>1. ASSUME NEW y \in owned' PROVE word'[y.handle.page][y.handle.slot] = y.handle
    <3>1. CASE y = x
      BY <1>2, <1>7, <1>10, <1>17, <3>1
    <3>2. CASE y \in owned
      <4>1. /\ y.handle.page \in Page /\ y.handle.slot \in Slot
            /\ y.handle.slot \in Nat /\ y.handle.num \in Nat \ {0}
        BY <1>3, <3>2, IssueFields, HandleFields DEF MemTyped
      <4>2. ~(y.handle.page = p /\ y.handle.slot = first)
        BY <1>5, <1>6, <1>16, <3>2, <4>1
      <4>3. word[y.handle.page][y.handle.slot] = y.handle
        BY <1>3, <3>2 DEF OwnedResolve, IsValidHandle
      <4> QED
        BY <1>17, <4>1, <4>2, <4>3
    <3> QED
      BY <1>1, <2>1, <3>1, <3>2
  <2>2. ASSUME NEW y \in owned', NEW z \in owned'
        PROVE  \/ y = z
               \/ y.handle.page # z.handle.page
               \/ y.handle.slot + y.handle.num <= z.handle.slot
               \/ z.handle.slot + z.handle.num <= y.handle.slot
    <3>1. (y \in owned \/ y = x) /\ (z \in owned \/ z = x)
      BY <1>1
    <3>2. CASE y \in owned /\ z \in owned
      BY <1>3, <3>2 DEF OwnedResolve
    <3>3. CASE y \in owned /\ z = x
      BY <1>10, <1>16, <3>3
    <3>4. CASE y = x /\ z \in owned
      BY <1>10, <1>16, <3>4
    <3> QED
      BY <3>1, <3>2, <3>3, <3>4
  <2> QED
    BY <2>1, <2>2 DEF OwnedResolve, IsValidHandle
<1>19. WordsOwned'
  <2> SUFFICES ASSUME NEW q \in Page, NEW s \in Slot, word'[q][s] # NoHandle
               PROVE  \E y \in owned' : y.handle = word'[q][s] /\ y.handle.page = q /\ y.handle.slot = s
    BY DEF WordsOwned
  <2>1. CASE q = p /\ s = first
    BY <1>1, <1>10, <1>17, <2>1
  <2>2. CASE ~(q = p /\ s = first)
    <3>1. word'[q][s] = word[q][s]
      BY <1>17, <2>2
    <3> QED
      BY <1>1, <1>3, <3>1 DEF WordsOwned
  <2> QED
    BY <2>1, <2>2
<1>20. GuardsFollow'
  <2> SUFFICES ASSUME NEW y \in owned' \union old'
               PROVE  y.n < issued' /\ y.handle.guard = y.n % Guards
    BY DEF GuardsFollow
  <2>1. CASE y = x
    BY <1>1, <1>8, <1>10, <2>1
  <2>2. CASE y \in owned \union old
    <3>1. y.n < issued /\ y.handle.guard = y.n % Guards /\ y.n \in Nat
      BY <1>3, <2>2, IssueFields DEF GuardsFollow, MemTyped
    <3> QED
      BY <1>1, <1>8, <3>1
  <2> QED
    BY <1>1, <2>1, <2>2
<1>21. OldBefore'
  <2> SUFFICES ASSUME NEW y \in old', NEW z \in owned', y.handle = z.handle PROVE y.n < z.n
    BY DEF OldBefore
  <2>1. y \in old /\ (z \in owned \/ z = x)
    BY <1>1
  <2>2. y.n < issued
    BY <1>3, <2>1 DEF GuardsFollow
  <2> QED
    BY <1>3, <1>10, <2>1, <2>2 DEF OldBefore
<1>22. RefusedWhenFull'
  BY <1>1 DEF RefusedWhenFull
<1> QED
  BY <1>12, <1>13, <1>15, <1>18, <1>19, <1>20, <1>21, <1>22 DEF MemInv

LEMMA ReserveFailsKeeps ==
  ASSUME MemInv, NEW n \in Sizes, PrivReserveFails(n)
  PROVE  MemInv'
<1> USE Assumed
<1>1. /\ PagesThatFit(n) = {}
      /\ pages' = [p \in Page |-> [pages[p] EXCEPT !.blob = TRUE]]
      /\ refused' = n
      /\ word' = word /\ guard' = guard /\ issued' = issued /\ owned' = owned /\ old' = old
  BY DEF PrivReserveFails
<1>2. /\ MemTyped /\ PagesExact /\ OwnedFit /\ OwnedResolve /\ WordsOwned
      /\ GuardsFollow /\ OldBefore
  BY DEF MemInv
<1>3. \A p \in Page : /\ pages'[p] \in PageRecord /\ pages'[p].blob
                      /\ pages'[p].list = pages[p].list /\ pages'[p].count = pages[p].count
  <2> TAKE p \in Page
  <2>1. pages[p] \in PageRecord
    BY <1>2 DEF MemTyped
  <2> QED
    BY <1>1, <2>1 DEF PageRecord
<1>4. \A p : HeldSlots(p)' = HeldSlots(p)
  BY <1>1 DEF HeldSlots
<1>5. MemTyped'
  <2>1. pages' \in [Page -> PageRecord]
    BY <1>1, <1>3
  <2> QED
    BY <1>1, <1>2, <2>1 DEF MemTyped
<1>6. PagesExact'
  BY <1>2, <1>3, <1>4 DEF PagesExact
<1>7. OwnedFit' /\ OwnedResolve' /\ WordsOwned' /\ GuardsFollow' /\ OldBefore'
  BY <1>1, <1>2 DEF OwnedFit, OwnedResolve, IsValidHandle, WordsOwned, GuardsFollow, OldBefore
<1>8. RefusedWhenFull'
  <2> SUFFICES ASSUME NEW p \in Page, NEW s \in Slot, s + n <= SlotsPerPage
               PROVE  \E x \in owned : /\ x.handle.page = p
                                       /\ x.handle.slot < s + n
                                       /\ s < x.handle.slot + x.handle.num
    BY <1>1, <1>3 DEF RefusedWhenFull
  <2>1. FirstFit(pages[p].list, n) = 0 /\ n \in Nat \ {0} /\ s \in Nat
    BY <1>1 DEF PagesThatFit
  <2>2. PICK t \in RunOf(s, n) : t \in HeldSlots(p)
    BY <1>2, <2>1, RefusedExact DEF PagesExact
  <2>3. PICK x \in owned : x.handle.page = p /\ x.handle.slot <= t /\ t < x.handle.slot + x.handle.num
    BY <2>2 DEF HeldSlots
  <2>4. x.handle.slot \in Nat /\ x.handle.num \in Nat
    BY <1>2, HeldRun
  <2>5. t \in Nat /\ s <= t /\ t < s + n
    BY <2>1, <2>2 DEF RunOf
  <2> QED
    BY <2>1, <2>3, <2>4, <2>5
<1> QED
  BY <1>5, <1>6, <1>7, <1>8 DEF MemInv

LEMMA ReleaseKeeps ==
  ASSUME MemInv, NEW x \in owned \union old, ReleaseHandle(x)
  PROVE  MemInv'
<1> USE Assumed
<1>1. /\ MemTyped /\ PagesExact /\ OwnedFit /\ OwnedResolve /\ WordsOwned
      /\ GuardsFollow /\ OldBefore
  BY DEF MemInv
<1>2. refused' = 0 /\ guard' = guard /\ issued' = issued
  BY DEF ReleaseHandle
<1>3. RefusedWhenFull' /\ refused' \in Sizes \union {0}
  BY <1>2 DEF RefusedWhenFull
<1>4. CASE ~IsValidHandle(x.handle)
  <2>1. pages' = pages /\ word' = word /\ owned' = owned /\ old' = old
    BY <1>4 DEF ReleaseHandle
  <2>2. \A p : HeldSlots(p)' = HeldSlots(p)
    BY <2>1 DEF HeldSlots
  <2> QED
    BY <1>1, <1>2, <1>3, <2>1, <2>2
       DEF MemInv, MemTyped, PagesExact, OwnedFit, OwnedResolve, IsValidHandle, WordsOwned, GuardsFollow, OldBefore
<1>5. CASE IsValidHandle(x.handle)
  <2> DEFINE h == x.handle
             p == h.page
             list == pages[p].list
             run == RunOf(h.slot, h.num)
  <2>1. h \in ResHandle /\ word[p][h.slot] = h /\ p \in Page /\ h.slot \in Slot /\ h.slot \in Nat
        /\ h.num \in Nat \ {0} /\ h # NoHandle
    BY <1>1, <1>5, IssueFields, HandleFields DEF MemTyped, IsValidHandle
  <2>2. PICK y \in owned : y.handle = h
    <3> HIDE DEF h, p, list, run
    <3> QED
      BY <1>1, <2>1 DEF WordsOwned
  <2>3. {z \in owned : z.handle = h} = {y}
    BY <1>1, <2>2, SameHandleSame
  <2>4. /\ owned' = owned \ {y} /\ old' = old \union {y} /\ FreeSlots(h)
    BY <1>5, <2>3 DEF ReleaseHandle
  <2> HIDE DEF h
  <2>5. /\ pages' = [pages EXCEPT ![p] =
                  [blob |-> @.blob, list |-> Freed(@.list, h.slot, h.num), count |-> @.count - h.num]]
        /\ word' = [word EXCEPT ![p][h.slot] = NoHandle]
    BY <2>4 DEF FreeSlots
  <2> HIDE DEF p
  <2>6. Exact(list, HeldSlots(p), SlotsPerPage) /\ pages[p].count = Cardinality(HeldSlots(p))
    BY <1>1, <2>1 DEF PagesExact
  <2> HIDE DEF list
  <2>7. run \subseteq Slot /\ \A s \in Slot : (h.slot <= s /\ s < h.slot + h.num) <=> s \in run
    BY <1>1, <2>1, <2>2, HeldRun
  <2>8. run \subseteq HeldSlots(p)
    BY <2>2, <2>7 DEF HeldSlots, p
  <2>9. /\ Exact(Freed(list, h.slot, h.num), HeldSlots(p) \ run, SlotsPerPage)
        /\ Cardinality(HeldSlots(p) \ run) = Cardinality(HeldSlots(p)) - h.num
    <3>1. RunOf(h.slot, h.num) \subseteq HeldSlots(p) /\ SlotsPerPage \in Nat
      BY <2>8
    <3>2. h.slot \in Nat /\ h.num \in Nat \ {0}
      BY <2>1
    <3>3. Exact(list, HeldSlots(p), SlotsPerPage)
      BY <2>6
    <3> QED
      BY ONLY <3>1, <3>2, <3>3, FreedExact
  <2>10. Cardinality(HeldSlots(p) \ run) \in Nat
    <3>1. HeldSlots(p) \ run \subseteq 0..SlotsPerPage - 1
      BY <2>9 DEF Exact
    <3> QED
      BY <3>1, HeldFinite
  <2>11. /\ pages' \in [Page -> PageRecord]
         /\ pages'[p].list = Freed(list, h.slot, h.num)
         /\ pages'[p].count = Cardinality(HeldSlots(p) \ run)
         /\ \A q \in Page : q # p => pages'[q] = pages[q]
    <3>1. pages[p] \in PageRecord /\ pages \in [Page -> PageRecord]
      BY <1>1, <2>1 DEF MemTyped
    <3>2. Freed(list, h.slot, h.num) \in Seq(RangeRecord)
      BY <2>9 DEF Exact, Ranges
    <3> DEFINE r == [blob |-> pages[p].blob, list |-> Freed(list, h.slot, h.num), count |-> pages[p].count - h.num]
    <3>3. r.list = Freed(list, h.slot, h.num) /\ r.count = pages[p].count - h.num
      OBVIOUS
    <3>4. r.count = Cardinality(HeldSlots(p) \ run)
      BY <2>6, <2>9, <3>3
    <3>5. r \in PageRecord
      BY <2>10, <3>1, <3>2, <3>3, <3>4 DEF PageRecord
    <3>6. pages' = [pages EXCEPT ![p] = r]
      BY <2>5 DEF list
    <3> HIDE DEF r
    <3> QED
      BY <2>1, <3>1, <3>3, <3>4, <3>5, <3>6
  <2>12. \A q \in Page, s \in Slot :
            word'[q][s] = IF q = p /\ s = h.slot THEN NoHandle ELSE word[q][s]
    BY <1>1, <2>1, <2>5 DEF MemTyped
  <2>13. MemTyped'
    <3>1. word' \in [Page -> [Slot -> ResHandle \union {NoHandle}]]
      BY <1>1, <2>1, <2>5 DEF MemTyped
    <3>2. owned' \subseteq Issue /\ old' \subseteq Issue
      BY <1>1, <2>4 DEF MemTyped
    <3> QED
      BY <1>1, <1>2, <1>3, <2>11, <3>1, <3>2 DEF MemTyped
  <2>14. \A q \in Page : HeldSlots(q)' = IF q = p THEN HeldSlots(p) \ run ELSE HeldSlots(q)
    <3> TAKE q \in Page
    <3>1. CASE q # p
      BY <2>2, <2>4, <3>1 DEF HeldSlots, p
    <3>2. CASE q = p
      <4>1. ASSUME NEW s \in HeldSlots(q)' PROVE s \in HeldSlots(p) \ run
        <5>1. PICK z \in owned : /\ z # y /\ z.handle.page = p /\ s \in Slot
                                 /\ z.handle.slot <= s /\ s < z.handle.slot + z.handle.num
          BY <2>4, <3>2, <4>1 DEF HeldSlots
        <5>2. s \in RunOf(z.handle.slot, z.handle.num)
          BY <1>1, <2>1, <5>1, HeldRun
        <5>3. s \notin run
          BY <1>1, <2>2, <5>1, <5>2, HeldByOne DEF p
        <5> QED
          BY <5>1, <5>3 DEF HeldSlots
      <4>2. ASSUME NEW s \in HeldSlots(p) \ run PROVE s \in HeldSlots(q)'
        <5>1. PICK z \in owned : /\ z.handle.page = p /\ s \in Slot
                                 /\ z.handle.slot <= s /\ s < z.handle.slot + z.handle.num
          BY DEF HeldSlots
        <5>2. z # y
          BY <2>2, <2>7, <5>1
        <5> QED
          BY <2>4, <3>2, <5>1, <5>2 DEF HeldSlots
      <4> QED
        BY <3>2, <4>1, <4>2
    <3> QED
      BY <3>1, <3>2
  <2>15. PagesExact'
    <3> SUFFICES ASSUME NEW q \in Page
                 PROVE  /\ Exact(pages[q].list, HeldSlots(q), SlotsPerPage)'
                        /\ pages'[q].count = Cardinality(HeldSlots(q)')
      BY DEF PagesExact
    <3>1. CASE q = p
      <4>1. HeldSlots(q)' = HeldSlots(p) \ run
        BY <2>14, <3>1
      <4> QED
        BY <2>9, <2>11, <3>1, <4>1
    <3>2. CASE q # p
      <4>1. HeldSlots(q)' = HeldSlots(q) /\ pages'[q] = pages[q]
        BY <2>11, <2>14, <3>2
      <4> QED
        BY <1>1, <4>1 DEF PagesExact
    <3> QED
      BY <3>1, <3>2
  <2>16. OwnedFit'
    BY <1>1, <2>4 DEF OwnedFit
  <2>17. OwnedResolve'
    <3>1. ASSUME NEW z \in owned' PROVE word'[z.handle.page][z.handle.slot] = z.handle
      <4>1. /\ z.handle.page \in Page /\ z.handle.slot \in Slot /\ z \in owned /\ z # y
        BY <1>1, <2>4, IssueFields, HandleFields DEF MemTyped
      <4>2. word[z.handle.page][z.handle.slot] = z.handle
        BY <1>1, <4>1 DEF OwnedResolve, IsValidHandle
      <4>3. ~(z.handle.page = p /\ z.handle.slot = h.slot)
        <5>1. z.handle = h => z = y
          BY <2>3, <4>1
        <5> QED
          BY <2>1, <4>1, <4>2, <5>1
      <4> QED
        BY <2>12, <4>1, <4>2, <4>3
    <3> QED
      BY <1>1, <2>4, <3>1 DEF OwnedResolve, IsValidHandle
  <2>18. WordsOwned'
    <3> SUFFICES ASSUME NEW q \in Page, NEW s \in Slot, word'[q][s] # NoHandle
                 PROVE  \E z \in owned' : z.handle = word'[q][s] /\ z.handle.page = q /\ z.handle.slot = s
      BY DEF WordsOwned
    <3>1. ~(q = p /\ s = h.slot) /\ word'[q][s] = word[q][s]
      BY <2>12
    <3>2. PICK z \in owned : z.handle = word[q][s] /\ z.handle.page = q /\ z.handle.slot = s
      BY <1>1, <3>1 DEF WordsOwned
    <3>3. z # y
      BY <2>2, <3>1, <3>2 DEF p
    <3> QED
      BY <2>4, <3>1, <3>2, <3>3
  <2>19. GuardsFollow'
    BY <1>1, <1>2, <2>4 DEF GuardsFollow
  <2>20. OldBefore'
    BY <1>1, <2>4, SameHandleSame DEF OldBefore
  <2> QED
    BY <1>3, <2>13, <2>15, <2>16, <2>17, <2>18, <2>19, <2>20 DEF MemInv
<1> QED
  BY <1>4, <1>5

LEMMA MemStep == MemInv /\ [MemNext]_memVars => MemInv'
<1> SUFFICES ASSUME MemInv, [MemNext]_memVars PROVE MemInv'
  OBVIOUS
<1>1. CASE UNCHANGED memVars
  <2>1. \A p : HeldSlots(p)' = HeldSlots(p)
    BY <1>1 DEF memVars, HeldSlots
  <2> QED
    BY <1>1, <2>1
       DEF memVars, MemInv, MemTyped, PagesExact, OwnedFit, OwnedResolve, IsValidHandle, WordsOwned,
           GuardsFollow, OldBefore, RefusedWhenFull
<1> QED
  BY <1>1, ReserveKeeps, ReserveFailsKeeps, ReleaseKeeps DEF MemNext

-----------------------------------------------------------------------------
(* Descriptors are reserved and released in any order, through any copies  *)
(* of their handles, and pages fill, for any geometry and any number of    *)
(* values of the guard: what is held is held alone and resolves, is        *)
(* counted, and is refused only for want of room.                          *)
THEOREM MemIsSound == MemSpec => []MemSound
<1>1. MemInv => MemSound
  <2> SUFFICES ASSUME MemInv PROVE MemSound
    OBVIOUS
  <2> USE Assumed
  <2>1. MemTyped /\ PagesExact
    BY DEF MemInv
  <2>2. \A p \in Page : /\ pages[p].list \in Seq([start : Slot, num : 1..SlotsPerPage])
                        /\ pages[p].count \in 0..SlotsPerPage
    <3> TAKE p \in Page
    <3>1. /\ Ranges(pages[p].list, SlotsPerPage) /\ HeldSlots(p) \subseteq 0..SlotsPerPage - 1
          /\ pages[p].count = Cardinality(HeldSlots(p))
      BY <2>1 DEF PagesExact, Exact
    <3>2. Cardinality(HeldSlots(p)) \in Nat /\ Cardinality(HeldSlots(p)) <= SlotsPerPage
      BY <3>1, HeldFinite
    <3> QED
      BY <3>1, <3>2, RangesTyped DEF Slot
  <2>3. MemTypeOK
    <3> DEFINE R == [blob : BOOLEAN, list : Seq([start : Slot, num : 1..SlotsPerPage]), count : 0..SlotsPerPage]
    <3>1. \A p \in Page : pages[p] \in R
      <4> TAKE p \in Page
      <4>1. pages[p] \in PageRecord
        BY <2>1 DEF MemTyped
      <4> QED
        BY <2>2, <4>1 DEF PageRecord
    <3> HIDE DEF R
    <3>2. pages \in [Page -> R]
      BY <2>1, <3>1 DEF MemTyped
    <3>3. issued \in Nat /\ guard \in 0..Guards - 1
      BY <2>1, RemainderIs DEF MemTyped
    <3> QED
      BY <2>1, <3>2, <3>3 DEF MemTypeOK, MemTyped, R
  <2>4. PagesAccounted
    BY <2>1 DEF PagesAccounted, PagesExact
  <2> QED
    BY <2>3, <2>4 DEF MemSound, MemInv
<1> QED
  BY <1>1, MemStart, MemStep, PTL DEF MemSpec

(* A handle that was released resolves again only once the counter of the  *)
(* guards has gone round, for any number of values of the guard.           *)
THEOREM StaleResolvesOnlyAfterWrap == MemSpec => []StaleOnlyAfterWrap
<1>1. MemInv => StaleOnlyAfterWrap
  <2> SUFFICES ASSUME MemInv, NEW x \in old, IsValidHandle(x.handle)
               PROVE  \E y \in owned : /\ y.handle = x.handle
                                       /\ y.n > x.n
                                       /\ (y.n - x.n) % Guards = 0
    BY DEF StaleOnlyAfterWrap
  <2>1. x \in Issue /\ MemTyped
    BY DEF MemInv, MemTyped
  <2>2. x.handle \in ResHandle /\ x.n \in Nat
    BY <2>1, IssueFields
  <2>3. x.handle.page \in Page /\ x.handle.slot \in Slot /\ x.handle # NoHandle
    BY <2>2, HandleFields
  <2>4. PICK y \in owned : y.handle = x.handle
    BY <2>3 DEF MemInv, WordsOwned, IsValidHandle
  <2>5. y.n \in Nat
    BY <2>1, IssueFields DEF MemTyped
  <2>6. x.n < y.n
    BY <2>4 DEF MemInv, OldBefore
  <2>7. x.n % Guards = y.n % Guards
    BY <2>4 DEF MemInv, GuardsFollow
  <2>8. (y.n - x.n) % Guards = 0
    BY <2>2, <2>5, <2>6, <2>7, RemaindersApart, Assumed
  <2> QED
    BY <2>2, <2>4, <2>5, <2>6, <2>8
<1> QED
  BY <1>1, MemStart, MemStep, PTL DEF MemSpec
-----------------------------------------------------------------------------
(* BufferMan.                                                              *)

(* The layouts of the elements fit a block a whole number of times: what   *)
(* the size of a block, 32 * 3 bytes, is chosen for.                       *)
LayoutsFit == \A s \in Shapes : \E m \in Nat : BlockBytes = m * s.elem

(* The blocks of a buffer under a shape.                                   *)
HeldOf(b) == {k \in 0..BlocksPerBuffer - 1 : \E s \in shapes : Holds(s, b, k)}

(* The inductive invariant: of each buffer the list is what the shapes     *)
(* alive leave; each of them is a run of whole blocks, or nowhere, and its *)
(* numbers are those of the elements it was built from.                    *)
ListsExact(list) ==
  /\ list \in Seq(Seq(RangeRecord)) /\ DOMAIN buffers \subseteq DOMAIN list
  /\ \A b \in DOMAIN list : Exact(list[b], HeldOf(b), BlocksPerBuffer)

PlacedAt(s, first, num) ==
  /\ s.offset = first * BlockBytes /\ s.size = num * BlockBytes
  /\ first + num <= BlocksPerBuffer
  /\ s.num * s.elem <= s.size
  /\ s.start = s.offset \div s.elem
  /\ \E shape \in Shapes : s.elem = shape.elem

ShapesPlaced ==
  \A s \in shapes : s.buffer # 0 =>
    /\ s.buffer \in DOMAIN buffers
    /\ \E first \in Nat, num \in Nat \ {0} : PlacedAt(s, first, num)

ShapesApart ==
  \A s, t \in shapes : \A b \in DOMAIN buffers, k \in 0..BlocksPerBuffer - 1 :
    Holds(s, b, k) /\ Holds(t, b, k) => s = t

BufInv == ListsExact(buffers) /\ ShapesPlaced /\ ShapesApart

LEMMA BufAssumed ==
  /\ BlocksPerBuffer \in Nat \ {0} /\ BlocksPerBuffer \in Nat
  /\ BlockBytes \in Nat \ {0}
  /\ \A s \in Shapes : s.num \in Nat \ {0} /\ s.elem \in Nat \ {0} /\ s.num * s.elem \in Nat \ {0}
<1>1. \A m, n \in Nat \ {0} : m * n \in Nat \ {0}
  OBVIOUS
<1> QED
  BY <1>1, BufAssumption DEF BlockBytes

(* A shape holds the blocks of the run it is placed at.                    *)
LEMMA PlacedHolds ==
  ASSUME NEW s, NEW first \in Nat, NEW num \in Nat \ {0}, PlacedAt(s, first, num),
         NEW b, NEW k \in Int
  PROVE  Holds(s, b, k) <=> s.buffer = b /\ k \in RunOf(first, num)
<1>1. s.offset = first * 96 /\ s.size = num * 96
  BY DEF PlacedAt, BlockBytes
<1>2. k * 96 >= first * 96 /\ k * 96 < first * 96 + num * 96 <=> first <= k /\ k < first + num
  OBVIOUS
<1>3. k \in RunOf(first, num) <=> first <= k /\ k < first + num
  BY DEF RunOf
<1> QED
  BY <1>1, <1>2, <1>3 DEF Holds, BlockBytes

LEMMA BufStart == BufInit => BufInv
  BY DEF BufInit, BufInv, ListsExact, ShapesPlaced, ShapesApart

-----------------------------------------------------------------------------
LEMMA PlaceKeeps ==
  ASSUME BufInv, NEW id, NEW shape \in Shapes, NEW list, ListsExact(list), NEW b \in DOMAIN list,
         FirstFit(list[b], SlotsFor(shape.num * shape.elem, BlockBytes)) # 0,
         Place(id, shape, SlotsFor(shape.num * shape.elem, BlockBytes), list, b)
  PROVE  BufInv'
<1> USE BufAssumed
<1> DEFINE bytes == shape.num * shape.elem
           n == SlotsFor(bytes, BlockBytes)
           first == list[b][FirstFit(list[b], n)].start
           new == GPUShapeData(id, shape, b, first * BlockBytes, n * BlockBytes)
           run == RunOf(first, n)
<1>1. bytes \in Nat \ {0} /\ n \in Nat \ {0} /\ bytes <= n * BlockBytes
  <2>1. bytes \in Nat \ {0}
    OBVIOUS
  <2> HIDE DEF bytes
  <2> QED
    BY <2>1, SlotsSuffice
<1>2. /\ FirstFit(list[b], n) # 0
      /\ buffers' = [list EXCEPT ![b] = Taken(@, n)]
      /\ shapes' = shapes \union {new}
  BY DEF Place
<1> HIDE DEF n
<1>3. /\ list \in Seq(Seq(RangeRecord)) /\ DOMAIN buffers \subseteq DOMAIN list
      /\ \A c \in DOMAIN list : Exact(list[c], HeldOf(c), BlocksPerBuffer)
      /\ b \in Nat \ {0}
  BY DEF ListsExact
<1>4. /\ first \in Nat /\ first + n <= BlocksPerBuffer
      /\ run \subseteq 0..BlocksPerBuffer - 1
      /\ run \intersect HeldOf(b) = {}
      /\ Exact(Taken(list[b], n), HeldOf(b) \union run, BlocksPerBuffer)
  <2>1. Exact(list[b], HeldOf(b), BlocksPerBuffer) /\ n \in Nat \ {0} /\ FirstFit(list[b], n) # 0
        /\ BlocksPerBuffer \in Nat
    BY <1>1, <1>2, <1>3
  <2> QED
    BY <2>1, TakenExact DEF FirstOf, TakenSafely
<1> HIDE DEF first
<1>5. new.buffer = b /\ PlacedAt(new, first, n)
  BY <1>1, <1>4 DEF GPUShapeData, PlacedAt
<1> HIDE DEF new
<1>6. \A c, k : k \in 0..BlocksPerBuffer - 1 => (Holds(new, c, k) <=> c = b /\ k \in run)
  BY <1>1, <1>4, <1>5, PlacedHolds
<1>7. Taken(list[b], n) \in Seq(RangeRecord)
  BY <1>4 DEF Exact, Ranges
<1> HIDE DEF run
<1>8. /\ buffers' \in Seq(Seq(RangeRecord)) /\ DOMAIN buffers' = DOMAIN list
      /\ \A c \in DOMAIN list : buffers'[c] = IF c = b THEN Taken(list[b], n) ELSE list[c]
  BY <1>2, <1>3, <1>7
<1>9. \A c : HeldOf(c)' = IF c = b THEN HeldOf(b) \union run ELSE HeldOf(c)
  <2> TAKE c
  <2>1. HeldOf(c)' = HeldOf(c) \union {k \in 0..BlocksPerBuffer - 1 : Holds(new, c, k)}
    BY <1>2 DEF HeldOf, Holds
  <2>2. {k \in 0..BlocksPerBuffer - 1 : Holds(new, c, k)} = IF c = b THEN run ELSE {}
    BY <1>4, <1>6
  <2> QED
    BY <2>1, <2>2
<1>10. \A c \in DOMAIN list : Exact(buffers'[c], HeldOf(c)', BlocksPerBuffer)
  <2> TAKE c \in DOMAIN list
  <2>1. CASE c = b
    BY <1>4, <1>8, <1>9, <2>1
  <2>2. CASE c # b
    BY <1>3, <1>8, <1>9, <2>2
  <2> QED
    BY <2>1, <2>2
<1>11. ListsExact(buffers)'
  BY <1>8, <1>10 DEF ListsExact
<1>12. ShapesPlaced'
  <2> SUFFICES ASSUME NEW s \in shapes', s.buffer # 0
               PROVE  /\ s.buffer \in DOMAIN buffers'
                      /\ \E f \in Nat, m \in Nat \ {0} : PlacedAt(s, f, m)
    BY DEF ShapesPlaced, PlacedAt
  <2>1. CASE s = new
    BY <1>1, <1>4, <1>5, <1>8, <2>1
  <2>2. CASE s \in shapes
    BY <1>3, <1>8, <2>2 DEF BufInv, ShapesPlaced
  <2> QED
    BY <1>2, <2>1, <2>2
<1>13. ShapesApart'
  <2> SUFFICES ASSUME NEW s \in shapes', NEW t \in shapes',
                      NEW c \in DOMAIN buffers', NEW k \in 0..BlocksPerBuffer - 1,
                      Holds(s, c, k), Holds(t, c, k)
               PROVE  s = t
    BY DEF ShapesApart, Holds
  <2>1. \A x \in shapes : Holds(x, c, k) => k \in HeldOf(c)
    BY DEF HeldOf
  <2>2. \A x \in shapes : Holds(x, c, k) => c \in DOMAIN buffers
    <3> TAKE x \in shapes
    <3> HAVE Holds(x, c, k)
    <3>1. x.buffer = c /\ c # 0
      BY <1>3, <1>8 DEF Holds
    <3> QED
      BY <3>1 DEF BufInv, ShapesPlaced
  <2>3. Holds(new, c, k) => c = b /\ k \notin HeldOf(b)
    BY <1>4, <1>6
  <2>4. (s \in shapes \/ s = new) /\ (t \in shapes \/ t = new)
    BY <1>2
  <2>5. CASE s \in shapes /\ t \in shapes
    BY <2>2, <2>5 DEF BufInv, ShapesApart
  <2> QED
    BY <2>1, <2>3, <2>4, <2>5
<1> QED
  BY <1>11, <1>12, <1>13 DEF BufInv

(* A new buffer, all free: no shape is in it yet.                          *)
LEMMA MoreExact ==
  ASSUME BufInv
  PROVE  LET more == Append(buffers, NewBuffer) IN
         /\ ListsExact(more) /\ Len(more) \in DOMAIN more
         /\ more[Len(more)] = NewBuffer /\ Len(more) # 0
         /\ Exact(NewBuffer, {}, BlocksPerBuffer)
<1> USE BufAssumed
<1> DEFINE more == Append(buffers, NewBuffer)
           n == Len(buffers)
<1>1. /\ buffers \in Seq(Seq(RangeRecord)) /\ n \in Nat /\ DOMAIN buffers = 1..n
      /\ \A b \in DOMAIN buffers : Exact(buffers[b], HeldOf(b), BlocksPerBuffer)
  BY DEF BufInv, ListsExact
<1>2. Exact(NewBuffer, {}, BlocksPerBuffer)
  BY AllFree DEF NewBuffer
<1>3. NewBuffer \in Seq(RangeRecord)
  BY <1>2 DEF Exact, Ranges
<1>4. /\ more \in Seq(Seq(RangeRecord)) /\ Len(more) = n + 1 /\ DOMAIN more = 1..n + 1
      /\ \A b \in 1..n : more[b] = buffers[b]
      /\ more[n + 1] = NewBuffer
  BY <1>1, <1>3
<1> HIDE DEF more, n
<1>5. HeldOf(n + 1) = {}
  <2>1. n + 1 \notin 1..n /\ n + 1 # 0
    BY <1>1
  <2> QED
    BY <1>1, <2>1 DEF BufInv, ShapesPlaced, HeldOf, Holds
<1>6. \A b \in DOMAIN more : Exact(more[b], HeldOf(b), BlocksPerBuffer)
  <2> TAKE b \in DOMAIN more
  <2>1. CASE b \in 1..n
    BY <1>1, <1>4, <2>1
  <2>2. CASE b = n + 1
    BY <1>2, <1>4, <1>5, <2>2
  <2> QED
    BY <1>1, <1>4, <2>1, <2>2
<1>7. DOMAIN buffers \subseteq DOMAIN more /\ Len(more) \in DOMAIN more /\ Len(more) # 0
  BY <1>1, <1>4
<1> QED
  BY <1>2, <1>4, <1>6, <1>7 DEF ListsExact, more

LEMMA BuildKeeps ==
  ASSUME BufInv, NEW id \in Ids, NEW shape \in Shapes, Build(id, shape)
  PROVE  BufInv'
<1> USE BufAssumed
<1> DEFINE n == SlotsFor(shape.num * shape.elem, BlockBytes)
           more == Append(buffers, NewBuffer)
<1>1. n \in Nat \ {0}
  BY SlotsSuffice
<1>2. \/ /\ BuffersThatFit(n) # {}
         /\ Place(id, shape, n, buffers, Min(BuffersThatFit(n)))
      \/ /\ n <= BlocksPerBuffer
         /\ Place(id, shape, n, more, Len(more))
      \/ /\ buffers' = more
         /\ shapes' = shapes \union {GPUShapeData(id, shape, 0, 0, 0)}
  BY DEF Build
<1>3. /\ ListsExact(more) /\ Len(more) \in DOMAIN more
      /\ more[Len(more)] = NewBuffer /\ Len(more) # 0
      /\ Exact(NewBuffer, {}, BlocksPerBuffer)
  BY MoreExact
<1> HIDE DEF more
<1>4. CASE BuffersThatFit(n) # {} /\ Place(id, shape, n, buffers, Min(BuffersThatFit(n)))
  <2>1. BuffersThatFit(n) \in SUBSET Nat
    BY DEF BuffersThatFit, BufInv, ListsExact
  <2>2. Min(BuffersThatFit(n)) \in BuffersThatFit(n)
    BY <1>4, <2>1, MinIsLeast
  <2>3. Min(BuffersThatFit(n)) \in DOMAIN buffers /\ FirstFit(buffers[Min(BuffersThatFit(n))], n) # 0
    BY <2>2 DEF BuffersThatFit
  <2> QED
    BY <1>4, <2>3, PlaceKeeps DEF BufInv
<1>5. CASE n <= BlocksPerBuffer /\ Place(id, shape, n, more, Len(more))
  <2>1. FirstFit(NewBuffer, n) # 0
    <3>1. NewBuffer \in Seq(RangeRecord) /\ 1 \in DOMAIN NewBuffer /\ NewBuffer[1].num = BlocksPerBuffer
      BY <1>3 DEF NewBuffer, RangeAt, Exact, Ranges
    <3> QED
      BY <1>1, <1>5, <3>1, FirstFitIs
  <2> QED
    BY <1>3, <1>5, <2>1, PlaceKeeps
<1>6. CASE buffers' = more /\ shapes' = shapes \union {GPUShapeData(id, shape, 0, 0, 0)}
  <2> DEFINE new == GPUShapeData(id, shape, 0, 0, 0)
  <2>1. new.buffer = 0
    BY DEF GPUShapeData
  <2> HIDE DEF new
  <2>2. /\ more \in Seq(Seq(RangeRecord)) /\ DOMAIN buffers \subseteq DOMAIN more
        /\ \A b \in DOMAIN more : Exact(more[b], HeldOf(b), BlocksPerBuffer)
        /\ \A b \in DOMAIN more : b # 0
    BY <1>3 DEF ListsExact
  <2>3. shapes' = shapes \union {new}
    BY <1>6 DEF new
  <2>4. \A b \in DOMAIN more, k \in 0..BlocksPerBuffer - 1 : ~Holds(new, b, k)
    BY <2>1, <2>2 DEF Holds
  <2>5. \A b \in DOMAIN more : HeldOf(b)' = HeldOf(b)
    BY <2>3, <2>4 DEF HeldOf, Holds
  <2>6. ListsExact(buffers)'
    BY <1>6, <2>2, <2>5 DEF ListsExact
  <2>7. ShapesPlaced'
    BY <1>6, <2>1, <2>2, <2>3 DEF BufInv, ShapesPlaced, PlacedAt
  <2>8. ShapesApart'
    <3> SUFFICES ASSUME NEW s \in shapes', NEW t \in shapes',
                        NEW c \in DOMAIN buffers', NEW k \in 0..BlocksPerBuffer - 1,
                        Holds(s, c, k), Holds(t, c, k)
                 PROVE  s = t
      BY DEF ShapesApart, Holds
    <3>1. s \in shapes /\ t \in shapes
      BY <1>6, <2>3, <2>4
    <3>2. c \in DOMAIN buffers
      BY <1>6, <2>2, <3>1 DEF BufInv, ShapesPlaced, Holds
    <3> QED
      BY <3>1, <3>2 DEF BufInv, ShapesApart
  <2> QED
    BY <2>6, <2>7, <2>8 DEF BufInv
<1> QED
  BY <1>2, <1>4, <1>5, <1>6

LEMMA DestroyKeeps ==
  ASSUME BufInv, NEW s \in shapes, Destroy(s)
  PROVE  BufInv'
<1> USE BufAssumed
<1>1. /\ shapes' = shapes \ {s}
      /\ buffers' = IF s.buffer = 0 THEN buffers
                    ELSE [buffers EXCEPT ![s.buffer] = Freed(@, s.offset \div BlockBytes, s.size \div BlockBytes)]
  BY DEF Destroy
<1>2. /\ buffers \in Seq(Seq(RangeRecord))
      /\ \A b \in DOMAIN buffers : Exact(buffers[b], HeldOf(b), BlocksPerBuffer)
      /\ \A b \in DOMAIN buffers : b # 0
  BY DEF BufInv, ListsExact
<1>3. CASE s.buffer = 0
  <2>1. \A b \in DOMAIN buffers : HeldOf(b)' = HeldOf(b)
    BY <1>1, <1>2, <1>3 DEF HeldOf, Holds
  <2>2. buffers' = buffers
    BY <1>1, <1>3
  <2>3. ListsExact(buffers)'
    BY <1>2, <2>1, <2>2 DEF ListsExact
  <2>4. ShapesPlaced'
    <3>1. shapes' \subseteq shapes /\ ShapesPlaced
      BY <1>1 DEF BufInv
    <3> QED
      BY ONLY <2>2, <3>1 DEF ShapesPlaced, PlacedAt
  <2>5. ShapesApart'
    <3>1. shapes' \subseteq shapes /\ ShapesApart
      BY <1>1 DEF BufInv
    <3> QED
      BY ONLY <2>2, <3>1 DEF ShapesApart
  <2> QED
    BY <2>3, <2>4, <2>5 DEF BufInv
<1>4. CASE s.buffer # 0
  <2> DEFINE b == s.buffer
  <2>1. b \in DOMAIN buffers /\ \E f \in Nat, n \in Nat \ {0} : PlacedAt(s, f, n)
    BY <1>4 DEF BufInv, ShapesPlaced
  <2>2. PICK first \in Nat, num \in Nat \ {0} : PlacedAt(s, first, num)
    BY <2>1
  <2>3. first + num <= BlocksPerBuffer
    BY <2>2 DEF PlacedAt
  <2>4. s.offset \div BlockBytes = first /\ s.size \div BlockBytes = num
    BY <2>2, DivExact DEF PlacedAt
  <2> DEFINE run == RunOf(first, num)
  <2>5. buffers' = [buffers EXCEPT ![b] = Freed(buffers[b], first, num)]
    BY <1>1, <1>4, <2>4
  <2>6. \A c, k : k \in 0..BlocksPerBuffer - 1 => (Holds(s, c, k) <=> c = b /\ k \in run)
    BY <2>2, PlacedHolds
  <2>7. run \subseteq 0..BlocksPerBuffer - 1
    BY <2>3 DEF RunOf
  <2> HIDE DEF b, run
  <2>8. run \subseteq HeldOf(b)
    BY <2>6, <2>7 DEF HeldOf
  <2>9. Exact(Freed(buffers[b], first, num), HeldOf(b) \ run, BlocksPerBuffer)
    <3>1. RunOf(first, num) \subseteq HeldOf(b) /\ Exact(buffers[b], HeldOf(b), BlocksPerBuffer)
          /\ BlocksPerBuffer \in Nat
      BY <1>2, <2>1, <2>8 DEF run
    <3> QED
      BY ONLY <3>1, first \in Nat, num \in Nat \ {0}, FreedExact DEF run
  <2>10. Freed(buffers[b], first, num) \in Seq(RangeRecord)
    BY <2>9 DEF Exact, Ranges
  <2>11. /\ buffers' \in Seq(Seq(RangeRecord)) /\ DOMAIN buffers' = DOMAIN buffers
         /\ \A c \in DOMAIN buffers :
              buffers'[c] = IF c = b THEN Freed(buffers[b], first, num) ELSE buffers[c]
    BY <1>2, <2>1, <2>5, <2>10
  <2>12. \A c \in DOMAIN buffers : HeldOf(c)' = IF c = b THEN HeldOf(b) \ run ELSE HeldOf(c)
    <3> TAKE c \in DOMAIN buffers
    <3>1. HeldOf(c)' = {k \in 0..BlocksPerBuffer - 1 : \E t \in shapes : t # s /\ Holds(t, c, k)}
      BY <1>1 DEF HeldOf, Holds
    <3>2. \A t \in shapes, k \in 0..BlocksPerBuffer - 1 : Holds(t, c, k) /\ Holds(s, c, k) => t = s
      BY DEF BufInv, ShapesApart
    <3>3. HeldOf(c)' = {k \in HeldOf(c) : ~Holds(s, c, k)}
      BY <3>1, <3>2 DEF HeldOf
    <3>4. \A k \in HeldOf(c) : Holds(s, c, k) <=> c = b /\ k \in run
      BY <2>6 DEF HeldOf
    <3> HIDE DEF HeldOf
    <3>5. CASE c = b
      BY <3>3, <3>4, <3>5
    <3>6. CASE c # b
      BY <3>3, <3>4, <3>6
    <3> QED
      BY <3>5, <3>6
  <2>13. ListsExact(buffers)'
    <3>1. \A c \in DOMAIN buffers : Exact(buffers'[c], HeldOf(c)', BlocksPerBuffer)
      <4> TAKE c \in DOMAIN buffers
      <4>1. CASE c = b
        BY <2>9, <2>11, <2>12, <4>1
      <4>2. CASE c # b
        BY <1>2, <2>11, <2>12, <4>2
      <4> QED
        BY <4>1, <4>2
    <3> QED
      BY <2>11, <3>1 DEF ListsExact
  <2>14. ShapesPlaced'
    BY <1>1, <2>11 DEF BufInv, ShapesPlaced, PlacedAt
  <2>15. ShapesApart'
    BY <1>1, <2>11 DEF BufInv, ShapesApart, Holds
  <2> QED
    BY <2>13, <2>14, <2>15 DEF BufInv
<1> QED
  BY <1>3, <1>4

LEMMA BufStep == BufInv /\ [BufNext]_bufVars => BufInv'
<1> SUFFICES ASSUME BufInv, [BufNext]_bufVars PROVE BufInv'
  OBVIOUS
<1>1. CASE UNCHANGED bufVars
  <2>1. \A b : HeldOf(b)' = HeldOf(b)
    BY <1>1 DEF bufVars, HeldOf, Holds
  <2> QED
    BY <1>1, <2>1 DEF bufVars, BufInv, ListsExact, ShapesPlaced, ShapesApart, PlacedAt, Holds
<1> QED
  BY <1>1, BuildKeeps, DestroyKeeps DEF BufNext

-----------------------------------------------------------------------------
LEMMA BlocksOnce == BufInv => BufferBlocksOnce
<1> SUFFICES ASSUME BufInv, NEW b \in DOMAIN buffers, NEW k \in 0..BlocksPerBuffer - 1
             PROVE  Cardinality({s \in shapes : Holds(s, b, k)})
                      + Cardinality({i \in DOMAIN buffers[b] :
                                       k >= buffers[b][i].start /\ k < End(buffers[b][i])}) = 1
  BY DEF BufferBlocksOnce
<1> DEFINE S == {s \in shapes : Holds(s, b, k)}
           list == buffers[b]
<1>1. Exact(list, HeldOf(b), BlocksPerBuffer) /\ BlocksPerBuffer \in Nat
  BY BufAssumed DEF BufInv, ListsExact
<1>2. k \in HeldOf(b) <=> S # {}
  BY DEF HeldOf
<1>3. \A s, t \in S : s = t
  BY DEF BufInv, ShapesApart
<1>4. Cardinality(S) = IF k \in HeldOf(b) THEN 1 ELSE 0
  <2> HIDE DEF S
  <2>1. CASE S = {}
    BY <1>2, <2>1, FS_EmptySet
  <2>2. CASE S # {}
    <3>1. PICK s : s \in S
      BY <2>2
    <3>2. S = {s}
      BY <1>3, <3>1
    <3> QED
      BY <1>2, <2>2, <3>2, FS_Singleton
  <2> QED
    BY <2>1, <2>2
<1> HIDE DEF list
<1>5. Cardinality({i \in DOMAIN list : k \in list[i].start..End(list[i]) - 1})
        = IF k \in HeldOf(b) THEN 0 ELSE 1
  BY <1>1, ExactCounts
<1>6. {i \in DOMAIN list : k \in list[i].start..End(list[i]) - 1}
        = {i \in DOMAIN list : k >= list[i].start /\ k < End(list[i])}
  <2>1. list \in Seq(RangeRecord)
    BY <1>1 DEF Exact, Ranges
  <2>2. \A i \in DOMAIN list : list[i].start \in Nat /\ End(list[i]) \in Nat
    BY <2>1, RecordFields
  <2> QED
    BY <2>2
<1>7. Cardinality({i \in DOMAIN list : k >= list[i].start /\ k < End(list[i])})
        = IF k \in HeldOf(b) THEN 0 ELSE 1
  BY <1>5, <1>6
<1> DEFINE C == Cardinality({i \in DOMAIN list : k >= list[i].start /\ k < End(list[i])})
           D == Cardinality(S)
<1>8. C = (IF k \in HeldOf(b) THEN 0 ELSE 1) /\ D = (IF k \in HeldOf(b) THEN 1 ELSE 0)
  BY <1>4, <1>7
<1>9. D + C = 1
  <2> HIDE DEF C, D
  <2> QED
    BY <1>8
<1> QED
  BY <1>9 DEF list

LEMMA ElementsFit == LayoutsFit /\ BufInv => ElementsExact
<1> SUFFICES ASSUME LayoutsFit, BufInv, NEW s \in shapes, s.buffer # 0
             PROVE  s.start * s.elem = s.offset /\ s.num * s.elem <= s.size
  BY DEF ElementsExact
<1>1. PICK first \in Nat, num \in Nat \ {0} : PlacedAt(s, first, num)
  BY DEF BufInv, ShapesPlaced
<1>2. /\ s.offset = first * BlockBytes /\ s.num * s.elem <= s.size
      /\ s.start = s.offset \div s.elem
  BY <1>1 DEF PlacedAt
<1>3. PICK shape \in Shapes : s.elem = shape.elem
  BY <1>1 DEF PlacedAt
<1>4. PICK m \in Nat : BlockBytes = m * s.elem
  BY <1>3 DEF LayoutsFit
<1> DEFINE e == s.elem
           q == first * m
<1>5. e \in Nat \ {0}
  BY <1>3, BufAssumed
<1>6. q \in Nat /\ s.offset = q * e
  BY <1>2, <1>4, <1>5
<1> HIDE DEF e, q
<1>7. (q * e) \div e = q
  BY <1>5, <1>6, DivExact
<1> QED
  BY <1>2, <1>6, <1>7 DEF e

(* Whatever the sizes of the elements, every block of every buffer is free *)
(* or under one shape, never both (VtxBufferMan::reserve,                  *)
(* Engine::priv_gpushape_build and the destruction of a shape).            *)
THEOREM BlocksHeldOnce == BufSpec => []BufferBlocksOnce
BY BlocksOnce, BufStart, BufStep, PTL DEF BufSpec

(* Shapes are built and destroyed in any order over any number of buffers  *)
(* of any size, also shapes too large for a buffer: every block is free or *)
(* under one shape, and, when the sizes of the elements divide the size of *)
(* a block, the first element of a shape is where its bytes are.           *)
THEOREM ShapesAreExact == LayoutsFit => (BufSpec => []ShapesExact)
<1>1. LayoutsFit /\ BufInv => ShapesExact
  BY BlocksOnce, ElementsFit DEF ShapesExact
<1>2. ASSUME LayoutsFit PROVE BufSpec => []ShapesExact
  <2>1. BufInv => ShapesExact
    BY <1>1, <1>2
  <2> QED
    BY <2>1, BufStart, BufStep, PTL DEF BufSpec
<1> QED
  BY <1>2

-----------------------------------------------------------------------------
(* TextureArray.                                                           *)

USE TextureAssumption DEF TextureAssumption

-----------------------------------------------------------------------------
(* Why the properties hold: different textures have different indices, and *)
(* at an index in use the descriptor set shows its texture.                *)
IndexInv ==
  /\ \A t \in DOMAIN indexOf : indexOf[t] \in 0..NumMax - 1
  /\ \A t, u \in DOMAIN indexOf : indexOf[t] = indexOf[u] => t = u
  /\ \A t \in DOMAIN indexOf : texIndex[t] = indexOf[t]
  /\ \A t \in DOMAIN indexOf : indexOf[t] \in DOMAIN binding /\ binding[indexOf[t]] = t

TextureInv == IndexInv /\ BitsExact

LEMMA WithoutIs ==
  ASSUME NEW f, NEW x
  PROVE  /\ DOMAIN Without(f, x) = DOMAIN f \ {x}
         /\ \A z \in DOMAIN f : z # x => Without(f, x)[z] = f[z]
BY DEF Without

(* A new texture at an index no other has.                                 *)
LEMMA Added ==
  ASSUME TextureInv, NEW t, t \notin DOMAIN texIndex, NEW i \in 0..NumMax - 1,
         \A u \in DOMAIN indexOf : indexOf[u] # i,
         indexOf' = With(indexOf, t, i),
         texIndex' = With(texIndex, t, i),
         binding' = With(binding, i, t),
         bitmask' = bitmask \union {i}
  PROVE  TextureInv'
<1>1. t \notin DOMAIN indexOf /\ i # Invalid
  BY DEF TextureInv, BitsExact, Invalid
<1>2. /\ DOMAIN indexOf' = DOMAIN indexOf \union {t}
      /\ indexOf'[t] = i
      /\ \A u \in DOMAIN indexOf : indexOf'[u] = indexOf[u]
  BY <1>1 DEF With
<1>3. /\ DOMAIN texIndex' = DOMAIN texIndex \union {t}
      /\ texIndex'[t] = i
      /\ \A u \in DOMAIN texIndex : texIndex'[u] = texIndex[u]
  BY DEF With
<1>4. /\ DOMAIN binding' = DOMAIN binding \union {i}
      /\ binding'[i] = t
      /\ \A k \in DOMAIN binding : k # i => binding'[k] = binding[k]
  BY DEF With
<1>5. DOMAIN indexOf \subseteq DOMAIN texIndex
  BY DEF TextureInv, BitsExact
<1>6. IndexInv'
  BY <1>2, <1>3, <1>4, <1>5 DEF TextureInv, IndexInv
<1>7. {indexOf'[u] : u \in DOMAIN indexOf'} = {indexOf[u] : u \in DOMAIN indexOf} \union {i}
  BY <1>2
<1>8. bitmask' = 0..NumReserved - 1 \union {indexOf'[u] : u \in DOMAIN indexOf'}
  BY <1>7 DEF TextureInv, BitsExact
<1>9. /\ \A u \in DOMAIN texIndex' : texIndex'[u] # Invalid <=> u \in DOMAIN indexOf'
      /\ DOMAIN indexOf' \subseteq DOMAIN texIndex'
  BY <1>1, <1>2, <1>3, <1>5 DEF TextureInv, BitsExact
<1> QED
  BY <1>6, <1>8, <1>9 DEF TextureInv, BitsExact

LEMMA TextureStep == TextureInv /\ [TextureNext]_textureVars => TextureInv'
<1> SUFFICES ASSUME TextureInv, [TextureNext]_textureVars PROVE TextureInv'
  OBVIOUS
<1>1. ASSUME NEW t \in Textures, NEW i \in 0..NumReserved - 1, CreateReserved(t, i)
      PROVE  TextureInv'
  <2>1. \A u \in DOMAIN indexOf : indexOf[u] # i
    BY <1>1 DEF CreateReserved, TextureInv, IndexInv, BitsExact
  <2>2. bitmask' = bitmask \union {i} /\ i \in 0..NumMax - 1
    BY <1>1 DEF CreateReserved, TextureInv, BitsExact
  <2> QED
    BY <1>1, <2>1, <2>2, Added DEF CreateReserved
<1>2. ASSUME NEW t \in Textures, CreateTexture(t) PROVE TextureInv'
  <2> DEFINE i == Min(FreeBits)
  <2>1. i \in FreeBits
    BY <1>2, MinIsLeast DEF CreateTexture, FreeBits
  <2>2. i \in 0..NumMax - 1 /\ i \notin bitmask
    BY <2>1 DEF FreeBits
  <2>3. \A u \in DOMAIN indexOf : indexOf[u] # i
    BY <2>2 DEF TextureInv, BitsExact
  <2>4. /\ t \notin DOMAIN texIndex
        /\ indexOf' = With(indexOf, t, i)
        /\ texIndex' = With(texIndex, t, i)
        /\ binding' = With(binding, i, t)
        /\ bitmask' = bitmask \union {i}
    BY <1>2 DEF CreateTexture
  <2> HIDE DEF i
  <2> QED
    BY <2>2, <2>3, <2>4, Added
<1>3. ASSUME NEW t \in Textures, CreateWithoutIndex(t) PROVE TextureInv'
  <2>1. /\ DOMAIN texIndex' = DOMAIN texIndex \union {t}
        /\ texIndex'[t] = Invalid
        /\ \A u \in DOMAIN texIndex : texIndex'[u] = texIndex[u]
    BY <1>3 DEF CreateWithoutIndex, With
  <2>2. t \notin DOMAIN indexOf /\ DOMAIN indexOf \subseteq DOMAIN texIndex
    BY <1>3 DEF CreateWithoutIndex, TextureInv, BitsExact
  <2>3. IndexInv'
    BY <1>3, <2>1, <2>2 DEF CreateWithoutIndex, TextureInv, IndexInv
  <2>4. BitsExact'
    BY <1>3, <2>1, <2>2 DEF CreateWithoutIndex, TextureInv, BitsExact
  <2> QED
    BY <2>3, <2>4 DEF TextureInv
<1>4. ASSUME NEW t \in Textures, DestroyTexture(t) PROVE TextureInv'
  <2>1. /\ DOMAIN texIndex' = DOMAIN texIndex \ {t}
        /\ \A u \in DOMAIN texIndex : u # t => texIndex'[u] = texIndex[u]
        /\ binding' = binding
    BY <1>4, WithoutIs DEF DestroyTexture
  <2>2. DOMAIN indexOf \subseteq DOMAIN texIndex
    BY DEF TextureInv, BitsExact
  <2>3. CASE t \in DOMAIN indexOf
    <3>1. /\ DOMAIN indexOf' = DOMAIN indexOf \ {t}
          /\ \A u \in DOMAIN indexOf : u # t => indexOf'[u] = indexOf[u]
          /\ bitmask' = bitmask \ {indexOf[t]}
          /\ indexOf[t] \notin 0..NumReserved - 1
      <4>1. indexOf[t] \in 0..NumMax - 1 /\ indexOf[t] >= NumReserved
        BY <1>4, <2>3 DEF DestroyTexture, TextureInv, IndexInv
      <4>2. indexOf[t] \notin 0..NumReserved - 1
        BY <4>1
      <4> QED
        BY <1>4, <2>3, <4>2, WithoutIs DEF DestroyTexture
    <3>2. IndexInv'
      BY <2>1, <2>2, <3>1 DEF TextureInv, IndexInv
    <3>3. {indexOf'[u] : u \in DOMAIN indexOf'} = {indexOf[u] : u \in DOMAIN indexOf} \ {indexOf[t]}
      BY <2>3, <3>1 DEF TextureInv, IndexInv
    <3>4. bitmask' = 0..NumReserved - 1 \union {indexOf'[u] : u \in DOMAIN indexOf'}
      BY <3>1, <3>3 DEF TextureInv, BitsExact
    <3>5. /\ \A u \in DOMAIN texIndex' : texIndex'[u] # Invalid <=> u \in DOMAIN indexOf'
          /\ DOMAIN indexOf' \subseteq DOMAIN texIndex'
      BY <2>1, <2>2, <3>1 DEF TextureInv, BitsExact
    <3> QED
      BY <3>2, <3>4, <3>5 DEF TextureInv, BitsExact
  <2>4. CASE t \notin DOMAIN indexOf
    <3>1. indexOf' = indexOf /\ bitmask' = bitmask
      BY <1>4, <2>4 DEF DestroyTexture
    <3>2. IndexInv'
      BY <2>1, <2>2, <2>4, <3>1 DEF TextureInv, IndexInv
    <3>3. BitsExact'
      BY <2>1, <2>2, <2>4, <3>1 DEF TextureInv, BitsExact
    <3> QED
      BY <3>2, <3>3 DEF TextureInv
  <2> QED
    BY <2>3, <2>4
<1>5. CASE UNCHANGED textureVars
  BY <1>5 DEF textureVars, TextureInv, IndexInv, BitsExact
<1> QED
  BY <1>1, <1>2, <1>3, <1>4, <1>5 DEF TextureNext

LEMMA TextureStart == TextureInit => TextureInv
<1> SUFFICES ASSUME TextureInit PROVE TextureInv
  OBVIOUS
<1>1. DOMAIN indexOf = {} /\ DOMAIN texIndex = {}
  BY DEF TextureInit
<1> QED
  BY <1>1 DEF TextureInit, TextureInv, IndexInv, BitsExact

(* For any number of textures and indices, created and destroyed in any    *)
(* order: the index of a texture shows that texture, and the bits set are  *)
(* those of the reserved indices and of the textures that exist.           *)
THEOREM TexturesAreExact == TextureSpec => []TexturesExact
<1>1. TextureInv => TexturesExact
  BY DEF TextureInv, IndexInv, BitsExact, TexturesExact, SampledIsOwn
<1> QED
  BY <1>1, TextureStart, TextureStep, PTL DEF TextureSpec

HIDE TextureAssumption DEF TextureAssumption
-----------------------------------------------------------------------------
(* Frames: an image is drawn into for the swapchain it comes from, held    *)

Waiting == acquire.state = "waitingFence"

(* Held as a set: what is waited for, what is acquired, what is drawn.     *)
Awaited == IF Waiting THEN {acquire.img} ELSE {}
Ready == {acquired[k] : k \in DOMAIN acquired}
Drawn == IF job.busy THEN {job.img} ELSE {}
HeldSet == Awaited \union Ready \union Drawn

(* The images acquired from the current swapchain and not held any more.   *)
Lost == {i \in ours : Image(i) \notin HeldSet}

Picture(c) == [image : Images \union {NoImage}, chain : 0 .. c]

FramesTypeOK ==
  /\ step \in {"update", "acquire", "image", "fence", "stale", "job", "draw", "submit"}
  /\ chain \in Nat \ {0} /\ recreated \in BOOLEAN
  /\ scheduled \in BOOLEAN /\ failures \in Nat
  /\ ours \subseteq Images /\ IsFiniteSet(ours)
  /\ acquire \in [state : {"idle", "acquiring", "waitingFence"}, img : Picture(chain)]
  /\ acquireFence \in {"reset", "pending", "signaled"}
  /\ acquired \in Seq(Picture(chain))
  /\ job \in [busy : BOOLEAN, img : Picture(chain), chain : 0 .. chain]
  /\ jobFence \in {"reset", "pending", "signaled"}
  /\ jobFinished \in BOOLEAN

(* Where the loop is, and what is true of the fences there.                *)
FencesInStep ==
  /\ acquireFence = "reset" <=> ~Waiting
  /\ jobFence = "reset" <=> ~job.busy
  /\ step \in {"acquire", "image"} => ~Waiting
  /\ step = "fence" => Waiting
  /\ step \in {"draw", "submit"} /\ jobFinished => ~job.busy

(* A swapchain made in this frame has given at most one image, nothing     *)
(* older is left once the list has been emptied, and the cameras follow.   *)
AfterRecreation ==
  recreated =>
    /\ failures = 0
    /\ ours = {} \/ (scheduled /\ \E i \in Images : ours = {i})
    /\ step = "image" => ours = {} /\ scheduled
    /\ step \in {"update", "acquire", "job", "draw", "submit"} => acquired = <<>>

(* The images that are there belong to the swapchain that is there.        *)
OfThisChain ==
  /\ Waiting => acquire.img.chain = chain
  /\ ~recreated => \A k \in DOMAIN acquired : acquired[k].chain = chain
  /\ ~recreated \/ step \in {"update", "acquire", "submit"} => aspect = chain
  /\ job.busy => job.img.chain = job.chain

(* HeldOnce, part by part.                                                 *)
EachOnce ==
  /\ \A j, k \in DOMAIN acquired : acquired[j] = acquired[k] => j = k
  /\ Waiting => acquire.img \notin Ready /\ acquire.img \notin Drawn
  /\ job.busy => job.img \notin Ready
  /\ \A h \in HeldSet : h.chain = chain => h.image \in ours

FewLost == Cardinality(Lost) <= failures + (IF scheduled THEN 1 ELSE 0)

FInv == /\ FramesTypeOK /\ FencesInStep /\ AfterRecreation
        /\ OfThisChain /\ EachOnce /\ FewLost
-----------------------------------------------------------------------------
(* The types.                                                              *)

LEMMA PictureGrows ==
  ASSUME NEW c \in Nat
  PROVE  /\ Picture(c) \subseteq Picture(c + 1)
         /\ \A q \in Seq(Picture(c)) : q \in Seq(Picture(c + 1))
<1>1. Picture(c) \subseteq Picture(c + 1)
  BY DEF Picture
<1> QED BY <1>1, SeqMonotonic

LEMMA SomePictures ==
  ASSUME FramesTypeOK
  PROVE  /\ None \in Picture(chain)
         /\ \A i \in Images : Image(i) \in Picture(chain)
BY DEF FramesTypeOK, Picture, None, Image

(* The first of the acquired images and the rest.                          *)
LEMMA FirstAcquired ==
  ASSUME FramesTypeOK, acquired # <<>>
  PROVE  /\ Head(acquired) \in Picture(chain)
         /\ Tail(acquired) \in Seq(Picture(chain))
         /\ acquired[1] = Head(acquired) /\ Len(acquired) >= 1
         /\ Len(Tail(acquired)) = Len(acquired) - 1
         /\ DOMAIN acquired = 1 .. Len(acquired)
         /\ DOMAIN Tail(acquired) = 1 .. Len(acquired) - 1
         /\ \A k \in DOMAIN Tail(acquired) : Tail(acquired)[k] = acquired[k + 1]
BY HeadTailProperties DEF FramesTypeOK

THEOREM FramesTypeStart == FramesInit => FramesTypeOK
<1> SUFFICES ASSUME FramesInit PROVE FramesTypeOK
  OBVIOUS
<1>1. None \in Picture(1)
  BY DEF None, Picture
<1>2. <<>> \in Seq(Picture(1))
  OBVIOUS
<1> USE DEF FramesInit
<1>3. acquire \in [state : {"idle", "acquiring", "waitingFence"}, img : Picture(chain)]
  BY <1>1
<1>4. job \in [busy : BOOLEAN, img : Picture(chain), chain : 0 .. chain]
  BY <1>1
<1>5. ours \subseteq Images /\ IsFiniteSet(ours)
  BY FS_EmptySet
<1>6. acquired \in Seq(Picture(chain))
  BY <1>2
<1>7. /\ step = "update" /\ chain = 1 /\ recreated = FALSE /\ scheduled = FALSE
      /\ failures = 0 /\ acquireFence = "reset" /\ jobFence = "reset" /\ jobFinished = TRUE
  OBVIOUS
<1> HIDE DEF FramesInit
<1>8. /\ step \in {"update", "acquire", "image", "fence", "stale", "job", "draw", "submit"}
      /\ chain \in Nat \ {0} /\ failures \in Nat
      /\ acquireFence \in {"reset", "pending", "signaled"}
      /\ jobFence \in {"reset", "pending", "signaled"}
  BY ONLY <1>7
<1>9. recreated \in BOOLEAN /\ scheduled \in BOOLEAN /\ jobFinished \in BOOLEAN
  BY ONLY <1>7
<1> QED BY ONLY <1>3, <1>4, <1>5, <1>6, <1>8, <1>9, Zenon DEF FramesTypeOK

LEMMA FramesTypeStep ==
  ASSUME FramesTypeOK, [FramesNext]_framesVars
  PROVE  FramesTypeOK'
<1> USE DEF FramesTypeOK, framesVars, gpuVars, loopVars
<1>1. CASE SignalAcquired
  BY <1>1 DEF SignalAcquired
<1>2. CASE SignalJob
  BY <1>2 DEF SignalJob
<1>3. CASE Resized
  BY <1>3 DEF Resized
<1>4. CASE RunBegins
  BY <1>4 DEF RunBegins
<1>5. CASE NotYetTime
  BY <1>5 DEF NotYetTime
<1>6. CASE RecreateInTime
  BY <1>6, PictureGrows, FS_EmptySet DEF RecreateInTime, Recreate
<1>7. CASE NothingDue
  BY <1>7 DEF NothingDue
<1>8. CASE \E i \in Images : GotImage(i)
  BY <1>8, SomePictures, FS_AddElement DEF GotImage
<1>9. CASE NoImageYet
  BY <1>9, SomePictures DEF NoImageYet
<1>10. CASE OutOfDate
  <2>1. chain' = chain + 1 /\ chain \in Nat /\ Picture(chain) \subseteq Picture(chain')
    BY <1>10, PictureGrows DEF OutOfDate, Recreate
  <2>2. acquire' \in [state : {"idle", "acquiring", "waitingFence"}, img : Picture(chain')]
    BY <1>10, <2>1, SomePictures DEF OutOfDate
  <2>3. acquired' \in Seq(Picture(chain'))
    BY <1>10, <2>1, PictureGrows DEF OutOfDate
  <2>4. job' \in [busy : BOOLEAN, img : Picture(chain'), chain : 0 .. chain']
    BY <1>10, <2>1 DEF OutOfDate
  <2>5. /\ step' = "stale" /\ recreated' = TRUE /\ scheduled' = FALSE /\ failures' = 0
        /\ ours' = {} /\ UNCHANGED <<jobFinished, acquireFence>>
        /\ jobFence' \in {jobFence, "signaled"}
    BY <1>10 DEF OutOfDate, Recreate
  <2> HIDE DEF FramesTypeOK, framesVars, gpuVars, loopVars
  <2>6. /\ chain' \in Nat \ {0} /\ failures' \in Nat
        /\ step' \in {"update", "acquire", "image", "fence", "stale", "job", "draw", "submit"}
        /\ acquireFence' \in {"reset", "pending", "signaled"}
        /\ jobFence' \in {"reset", "pending", "signaled"}
    BY <2>1, <2>5 DEF FramesTypeOK
  <2>7. recreated' \in BOOLEAN /\ scheduled' \in BOOLEAN /\ jobFinished' \in BOOLEAN
    BY <2>5 DEF FramesTypeOK
  <2>8. ours' \subseteq Images /\ IsFiniteSet(ours')
    BY <2>5, FS_EmptySet
  <2> QED BY ONLY <2>2, <2>3, <2>4, <2>6, <2>7, <2>8, Zenon DEF FramesTypeOK
<1>11. CASE AcquireFinished
  BY <1>11 DEF AcquireFinished
<1>12. CASE StillWaiting
  BY <1>12 DEF StillWaiting
<1>13. CASE DropStale
  BY <1>13 DEF DropStale
<1>14. CASE JobRunning
  BY <1>14 DEF JobRunning
<1>15. CASE JobIdle
  BY <1>15 DEF JobIdle
<1>16. CASE JobDone
  BY <1>16, FS_RemoveElement DEF JobDone
<1>17. CASE Cameras
  BY <1>17 DEF Cameras
<1>18. CASE Submit
  BY <1>18, FirstAcquired DEF Submit, CanSubmit
<1>19. CASE SubmitFails
  BY <1>19, FirstAcquired DEF SubmitFails, CanSubmit
<1>20. CASE NothingToDraw
  BY <1>20 DEF NothingToDraw
<1>21. CASE UNCHANGED framesVars
  BY <1>21
<1> QED BY <1>1, <1>2, <1>3, <1>4, <1>5, <1>6, <1>7, <1>8, <1>9, <1>10, <1>11, <1>12, <1>13, <1>14, <1>15, <1>16, <1>17, <1>18, <1>19, <1>20, <1>21 DEF FramesNext

(* The fences.                                                             *)

LEMMA FencesStep ==
  ASSUME FramesTypeOK, FencesInStep, [FramesNext]_framesVars
  PROVE  FencesInStep'
<1> USE DEF FencesInStep, Waiting, FramesTypeOK, framesVars, gpuVars, loopVars, CanSubmit
<1>1. CASE SignalAcquired
  BY <1>1 DEF SignalAcquired
<1>2. CASE SignalJob
  BY <1>2 DEF SignalJob
<1>3. CASE Resized
  BY <1>3 DEF Resized
<1>4. CASE RunBegins
  BY <1>4 DEF RunBegins
<1>5. CASE NotYetTime
  BY <1>5 DEF NotYetTime
<1>6. CASE RecreateInTime
  BY <1>6 DEF RecreateInTime, Recreate
<1>7. CASE NothingDue
  BY <1>7 DEF NothingDue
<1>8. CASE \E i \in Images : GotImage(i)
  BY <1>8 DEF GotImage
<1>9. CASE NoImageYet
  BY <1>9 DEF NoImageYet
<1>10. CASE OutOfDate
  BY <1>10 DEF OutOfDate, Recreate, None
<1>11. CASE AcquireFinished
  BY <1>11 DEF AcquireFinished
<1>12. CASE StillWaiting
  BY <1>12 DEF StillWaiting
<1>13. CASE DropStale
  BY <1>13 DEF DropStale
<1>14. CASE JobRunning
  BY <1>14 DEF JobRunning
<1>15. CASE JobIdle
  BY <1>15 DEF JobIdle
<1>16. CASE JobDone
  BY <1>16 DEF JobDone
<1>17. CASE Cameras
  BY <1>17 DEF Cameras
<1>18. CASE Submit
  BY <1>18 DEF Submit
<1>19. CASE SubmitFails
  BY <1>19 DEF SubmitFails
<1>20. CASE NothingToDraw
  BY <1>20 DEF NothingToDraw
<1>21. CASE UNCHANGED framesVars
  BY <1>21
<1> QED BY <1>1, <1>2, <1>3, <1>4, <1>5, <1>6, <1>7, <1>8, <1>9, <1>10, <1>11, <1>12, <1>13, <1>14, <1>15, <1>16, <1>17, <1>18, <1>19, <1>20, <1>21 DEF FramesNext

(* What a new swapchain leaves behind.                                     *)

LEMMA RecreationStep ==
  ASSUME FramesTypeOK, FencesInStep, AfterRecreation, [FramesNext]_framesVars
  PROVE  AfterRecreation'
<1> USE DEF AfterRecreation, FencesInStep, Waiting, FramesTypeOK, framesVars, gpuVars, loopVars, CanSubmit
<1>1. CASE SignalAcquired
  BY <1>1 DEF SignalAcquired
<1>2. CASE SignalJob
  BY <1>2 DEF SignalJob
<1>3. CASE Resized
  BY <1>3 DEF Resized
<1>4. CASE RunBegins
  BY <1>4 DEF RunBegins
<1>5. CASE NotYetTime
  BY <1>5 DEF NotYetTime
<1>6. CASE RecreateInTime
  BY <1>6 DEF RecreateInTime, Recreate
<1>7. CASE NothingDue
  BY <1>7 DEF NothingDue
<1>8. CASE \E i \in Images : GotImage(i)
  BY <1>8 DEF GotImage
<1>9. CASE NoImageYet
  BY <1>9 DEF NoImageYet
<1>10. CASE OutOfDate
  BY <1>10 DEF OutOfDate, Recreate, None
<1>11. CASE AcquireFinished
  BY <1>11 DEF AcquireFinished
<1>12. CASE StillWaiting
  BY <1>12 DEF StillWaiting
<1>13. CASE DropStale
  BY <1>13 DEF DropStale
<1>14. CASE JobRunning
  BY <1>14 DEF JobRunning
<1>15. CASE JobIdle
  BY <1>15 DEF JobIdle
<1>16. CASE JobDone
  BY <1>16 DEF JobDone
<1>17. CASE Cameras
  BY <1>17 DEF Cameras
<1>18. CASE Submit
  BY <1>18 DEF Submit
<1>19. CASE SubmitFails
  BY <1>19 DEF SubmitFails
<1>20. CASE NothingToDraw
  BY <1>20 DEF NothingToDraw
<1>21. CASE UNCHANGED framesVars
  BY <1>21
<1> QED BY <1>1, <1>2, <1>3, <1>4, <1>5, <1>6, <1>7, <1>8, <1>9, <1>10, <1>11, <1>12, <1>13, <1>14, <1>15, <1>16, <1>17, <1>18, <1>19, <1>20, <1>21 DEF FramesNext

(* The swapchain of what is held.                                          *)

LEMMA ChainStep ==
  ASSUME FramesTypeOK, FencesInStep, AfterRecreation, OfThisChain, [FramesNext]_framesVars
  PROVE  OfThisChain'
<1> USE DEF OfThisChain, AfterRecreation, FencesInStep, Waiting, FramesTypeOK, Picture, framesVars, gpuVars, loopVars, CanSubmit, Image
<1>1. CASE SignalAcquired
  BY <1>1 DEF SignalAcquired
<1>2. CASE SignalJob
  BY <1>2 DEF SignalJob
<1>3. CASE Resized
  BY <1>3 DEF Resized
<1>4. CASE RunBegins
  BY <1>4 DEF RunBegins
<1>5. CASE NotYetTime
  BY <1>5 DEF NotYetTime
<1>6. CASE RecreateInTime
  BY <1>6 DEF RecreateInTime, Recreate
<1>7. CASE NothingDue
  BY <1>7 DEF NothingDue
<1>8. CASE \E i \in Images : GotImage(i)
  BY <1>8 DEF GotImage
<1>9. CASE NoImageYet
  BY <1>9 DEF NoImageYet
<1>10. CASE OutOfDate
  BY <1>10 DEF OutOfDate, Recreate, None
<1>11. CASE AcquireFinished
  BY <1>11 DEF AcquireFinished
<1>12. CASE StillWaiting
  BY <1>12 DEF StillWaiting
<1>13. CASE DropStale
  BY <1>13 DEF DropStale
<1>14. CASE JobRunning
  BY <1>14 DEF JobRunning
<1>15. CASE JobIdle
  BY <1>15 DEF JobIdle
<1>16. CASE JobDone
  BY <1>16 DEF JobDone
<1>17. CASE Cameras
  BY <1>17 DEF Cameras
<1>18. CASE Submit
  BY <1>18 DEF Submit
<1>19. CASE SubmitFails
  BY <1>19 DEF SubmitFails
<1>20. CASE NothingToDraw
  BY <1>20 DEF NothingToDraw
<1>21. CASE UNCHANGED framesVars
  BY <1>21
<1> QED BY <1>1, <1>2, <1>3, <1>4, <1>5, <1>6, <1>7, <1>8, <1>9, <1>10, <1>11, <1>12, <1>13, <1>14, <1>15, <1>16, <1>17, <1>18, <1>19, <1>20, <1>21 DEF FramesNext

(* What is held and what is lost.                                          *)

LEMMA LostIsFinite ==
  ASSUME FramesTypeOK
  PROVE  IsFiniteSet(Lost) /\ Lost \subseteq ours /\ Cardinality(Lost) \in Nat
BY FS_Subset, FS_CardinalityType DEF FramesTypeOK, Lost

LEMMA OneMore ==
  ASSUME NEW S, IsFiniteSet(S), NEW x
  PROVE  IsFiniteSet(S \union {x}) /\ Cardinality(S \union {x}) <= Cardinality(S) + 1
<1>1. IsFiniteSet(S \union {x})
  BY ONLY IsFiniteSet(S), FS_AddElement
<1>2. Cardinality(S) \in Nat
  BY FS_CardinalityType
<1>3. CASE x \in S
  <2>1. S \union {x} = S
    BY <1>3
  <2> QED BY <2>1, <1>1, <1>2
<1>4. CASE x \notin S
  BY <1>4, <1>1, <1>2, FS_AddElement
<1> QED BY <1>3, <1>4

LEMMA HeldArePictures ==
  ASSUME FramesTypeOK
  PROVE  HeldSet \subseteq Picture(chain)
<1>1. \A k \in DOMAIN acquired : acquired[k] \in Picture(chain)
  BY DEF FramesTypeOK
<1> QED BY <1>1 DEF FramesTypeOK, HeldSet, Awaited, Ready, Drawn, Waiting

(* A step that touches nothing that is held.                               *)
LEMMA NothingMoves ==
  ASSUME EachOnce, UNCHANGED <<chain, ours, acquired, job>>, Waiting' <=> Waiting,
         Waiting => acquire'.img = acquire.img
  PROVE  EachOnce' /\ Lost' = Lost
<1>1. Awaited' = Awaited
  BY DEF Awaited, Waiting
<1>2. Ready' = Ready /\ Drawn' = Drawn
  BY DEF Ready, Drawn
<1>3. HeldSet' = HeldSet
  BY <1>1, <1>2 DEF HeldSet
<1>4. EachOnce'
  BY <1>2, <1>3 DEF EachOnce
<1>5. Lost' = Lost
  BY <1>3 DEF Lost, Image
<1> QED BY <1>4, <1>5

LEMMA NoMoreLost ==
  ASSUME FramesTypeOK, FewLost, Lost' \subseteq Lost, UNCHANGED <<failures, scheduled>>
  PROVE  FewLost'
<1>1. Cardinality(Lost') <= Cardinality(Lost) /\ Cardinality(Lost') \in Nat
  BY LostIsFinite, FS_Subset, FS_CardinalityType
<1> QED BY <1>1, LostIsFinite DEF FewLost, FramesTypeOK

(* A swapchain is made: nothing that is held comes from it.                *)
LEMMA RecreateHolds ==
  ASSUME FramesTypeOK, EachOnce, chain' = chain + 1, ours' = {}, failures' = 0,
         UNCHANGED <<acquired, job>>, ~Waiting, ~Waiting'
  PROVE  EachOnce' /\ FewLost'
<1>1. Awaited' = {} /\ Awaited = {} /\ Ready' = Ready /\ Drawn' = Drawn
  BY DEF Awaited, Ready, Drawn
<1>2. HeldSet' = HeldSet
  BY <1>1 DEF HeldSet
<1>3. \A h \in HeldSet' : h.chain # chain'
  BY <1>2, HeldArePictures DEF Picture, FramesTypeOK
<1>4. EachOnce'
  BY <1>1, <1>3 DEF EachOnce
<1>5. Lost' = {}
  BY DEF Lost
<1> QED BY <1>4, <1>5, FS_EmptySet DEF FewLost

LEMMA HeldStep ==
  ASSUME FInv, [FramesNext]_framesVars, FramesTypeOK'
  PROVE  EachOnce' /\ FewLost'
<1> USE DEF FInv
<1>1. CASE \/ SignalAcquired \/ SignalJob \/ Resized \/ RunBegins \/ NotYetTime \/ NothingDue
           \/ NoImageYet \/ StillWaiting \/ JobRunning \/ JobIdle \/ Cameras \/ NothingToDraw
           \/ UNCHANGED framesVars
  <2>1. UNCHANGED <<chain, ours, acquired, job, failures, scheduled>>
    BY <1>1 DEF SignalAcquired, SignalJob, Resized, RunBegins, NotYetTime, NothingDue, NoImageYet,
      StillWaiting, JobRunning, JobIdle, Cameras, NothingToDraw, framesVars, gpuVars, loopVars
  <2>2. acquire' = acquire \/ (RunBegins \/ NoImageYet)
    BY <1>1 DEF SignalAcquired, SignalJob, Resized, NotYetTime, NothingDue,
      StillWaiting, JobRunning, JobIdle, Cameras, NothingToDraw, framesVars, loopVars
  <2>3. (Waiting' <=> Waiting) /\ (Waiting => acquire'.img = acquire.img)
    BY <2>2 DEF RunBegins, NoImageYet, Waiting, FramesTypeOK, FencesInStep
  <2> QED BY <2>1, <2>3, NothingMoves, NoMoreLost
<1>2. CASE RecreateInTime
  BY <1>2, RecreateHolds DEF RecreateInTime, Recreate, FencesInStep, Waiting, loopVars
<1>3. CASE OutOfDate
  BY <1>3, RecreateHolds DEF OutOfDate, Recreate, FencesInStep, Waiting, FramesTypeOK
<1>4. ASSUME NEW i \in Images, GotImage(i)
      PROVE  EachOnce' /\ FewLost'
  <2> USE <1>4 DEF GotImage
  <2>1. ~Waiting /\ Waiting' /\ acquire'.img = Image(i) /\ UNCHANGED <<chain, acquired, job>>
    BY DEF Waiting, FencesInStep
  <2>2. Image(i) \notin HeldSet
    BY DEF EachOnce, Image
  <2>3. Ready' = Ready /\ Drawn' = Drawn /\ Awaited' = {Image(i)} /\ Awaited = {}
    BY <2>1 DEF Ready, Drawn, Awaited
  <2>4. HeldSet' = HeldSet \union {Image(i)}
    BY <2>3 DEF HeldSet
  <2>5. \A h \in HeldSet' : h.chain = chain' => h.image \in ours'
    BY <2>1, <2>4 DEF EachOnce, Image
  <2>6. EachOnce'
    BY <2>1, <2>2, <2>3, <2>5 DEF EachOnce, HeldSet
  <2>7. Lost' \subseteq Lost
    BY <2>1, <2>4 DEF Lost, Image
  <2> QED BY <2>6, <2>7, NoMoreLost
<1>5. CASE AcquireFinished
  <2> USE <1>5 DEF AcquireFinished
  <2>1. Waiting /\ ~Waiting' /\ acquired' = Append(acquired, acquire.img)
        /\ UNCHANGED <<chain, ours, job, failures, scheduled>>
    BY DEF Waiting, FencesInStep, FramesTypeOK, gpuVars
  <2>2. /\ DOMAIN acquired' = 1 .. Len(acquired) + 1 /\ DOMAIN acquired = 1 .. Len(acquired)
        /\ \A k \in DOMAIN acquired : acquired'[k] = acquired[k]
        /\ acquired'[Len(acquired) + 1] = acquire.img /\ Len(acquired) \in Nat
    BY <2>1 DEF FramesTypeOK
  <2>3. Ready' = Ready \union {acquire.img}
    BY <2>2 DEF Ready
  <2>4. Awaited' = {} /\ Awaited = {acquire.img} /\ Drawn' = Drawn
    BY <2>1 DEF Awaited, Drawn
  <2>5. HeldSet' = HeldSet
    BY <2>3, <2>4 DEF HeldSet
  <2>6. \A j, k \in DOMAIN acquired' : acquired'[j] = acquired'[k] => j = k
    BY <2>1, <2>2 DEF EachOnce, Ready
  <2>7. job'.busy => job'.img \notin Ready'
    BY <2>1, <2>3 DEF EachOnce, Drawn
  <2>8. EachOnce'
    BY <2>1, <2>5, <2>6, <2>7 DEF EachOnce
  <2>9. Lost' = Lost
    BY <2>1, <2>5 DEF Lost, Image
  <2> QED BY <2>1, <2>8, <2>9, NoMoreLost
<1>6. CASE DropStale /\ ~recreated
  BY <1>6, NothingMoves, NoMoreLost DEF DropStale, Waiting, gpuVars
<1>7. CASE DropStale /\ recreated
  <2> USE <1>7 DEF DropStale
  <2>1. acquired' = <<>> /\ UNCHANGED <<acquire, job, gpuVars>>
    OBVIOUS
  <2>2. Ready' = {} /\ Awaited' = Awaited /\ Drawn' = Drawn
    BY <2>1 DEF Ready, Awaited, Drawn, Waiting
  <2>3. HeldSet' \subseteq HeldSet
    BY <2>2 DEF HeldSet
  <2>4. EachOnce'
    BY <2>1, <2>2, <2>3 DEF EachOnce, Waiting, gpuVars
  <2>5. Lost' \subseteq ours /\ IsFiniteSet(ours)
    BY <2>1 DEF Lost, FramesTypeOK, gpuVars
  <2>6. Cardinality(Lost') <= Cardinality(ours) /\ Cardinality(Lost') \in Nat
        /\ Cardinality(ours) \in Nat
    BY <2>5, FS_Subset, FS_CardinalityType
  <2>7. Cardinality(ours) <= IF scheduled THEN 1 ELSE 0
    <3>1. ours = {} \/ (scheduled /\ \E i \in Images : ours = {i})
      BY DEF AfterRecreation
    <3>2. CASE ours = {}
      BY ONLY <3>2, FS_EmptySet
    <3>3. CASE scheduled /\ \E i \in Images : ours = {i}
      BY ONLY <3>3, FS_Singleton
    <3> QED BY <3>1, <3>2, <3>3
  <2>8. FewLost'
    BY <2>1, <2>6, <2>7 DEF FewLost, AfterRecreation, gpuVars
  <2> QED BY <2>4, <2>8
<1>8. CASE JobDone
  <2> USE <1>8 DEF JobDone
  <2>1. /\ UNCHANGED <<chain, acquire, acquired, failures, scheduled>> /\ job.busy /\ ~job'.busy
        /\ ours' = IF job.chain = chain THEN ours \ {job.img.image} ELSE ours
    BY DEF FramesTypeOK
  <2>2. Ready' = Ready /\ Awaited' = Awaited /\ Drawn' = {} /\ Drawn = {job.img}
    BY <2>1 DEF Ready, Awaited, Drawn, Waiting
  <2>3. HeldSet' = HeldSet \ {job.img}
    BY <2>1, <2>2 DEF HeldSet, EachOnce, Awaited, Drawn
  <2>4. ASSUME NEW h \in HeldSet', h.chain = chain' PROVE h.image \in ours'
    <3>1. h \in HeldSet /\ h # job.img /\ h.image \in ours
      BY <2>1, <2>3, <2>4 DEF EachOnce
    <3>2. CASE job.chain = chain
      <4>1. job.img.chain = chain
        BY <3>2, <2>1 DEF OfThisChain
      <4>2. h \in Picture(chain) /\ job.img \in Picture(chain)
        BY <3>1, HeldArePictures DEF FramesTypeOK
      <4>3. h.image # job.img.image
        BY <4>1, <4>2, <3>1, <2>4, <2>1 DEF Picture
      <4> QED BY <4>3, <3>1, <2>1
    <3>3. CASE job.chain # chain
      BY <3>3, <3>1, <2>1
    <3> QED BY <3>2, <3>3
  <2>5. EachOnce'
    BY <2>1, <2>2, <2>4 DEF EachOnce, Waiting
  <2>6. ASSUME NEW i \in Lost' PROVE i \in Lost
    <3>1. i \in ours /\ i \in ours' /\ Image(i) \notin HeldSet'
      BY <2>1 DEF Lost, Image
    <3>2. Image(i) # job.img
      BY <3>1, <2>1 DEF Image, OfThisChain
    <3> QED BY <3>1, <3>2, <2>3 DEF Lost
  <2> QED BY <2>1, <2>5, <2>6, NoMoreLost
<1> DEFINE head == Head(acquired)
<1>9. ASSUME step = "submit", CanSubmit, acquired' = Tail(acquired)
      PROVE  /\ ~job.busy /\ head \in Picture(chain) /\ head \in Ready
             /\ Ready' = Ready \ {head}
             /\ \A j, k \in DOMAIN acquired' : acquired'[j] = acquired'[k] => j = k
  <2>1. acquired # <<>> /\ ~job.busy
    BY <1>9 DEF CanSubmit, FencesInStep
  <2>2. /\ head \in Picture(chain) /\ acquired[1] = head
        /\ Len(acquired) \in Nat /\ Len(acquired) >= 1
        /\ DOMAIN acquired = 1 .. Len(acquired)
        /\ DOMAIN acquired' = 1 .. Len(acquired) - 1
        /\ \A k \in DOMAIN acquired' : acquired'[k] = acquired[k + 1]
    BY <1>9, <2>1, FirstAcquired DEF FramesTypeOK
  <2>3. head \in Ready
    BY <2>2 DEF Ready
  <2> HIDE DEF head
  <2>4. \A j, k \in DOMAIN acquired : acquired[j] = acquired[k] => j = k
    BY DEF EachOnce
  <2>5. \A j, k \in DOMAIN acquired' : acquired'[j] = acquired'[k] => j = k
    BY ONLY <2>2, <2>4
  <2>6. ASSUME NEW x \in Ready' PROVE x \in Ready /\ x # head
    <3>1. PICK k \in DOMAIN acquired' : x = acquired'[k]
      BY <2>6 DEF Ready
    <3>2. k + 1 \in DOMAIN acquired /\ x = acquired[k + 1] /\ k + 1 # 1 /\ 1 \in DOMAIN acquired
      BY <3>1, <2>2
    <3> QED BY <3>2, <2>2, <2>4 DEF Ready
  <2>7. ASSUME NEW x \in Ready, x # head PROVE x \in Ready'
    <3>1. PICK k \in DOMAIN acquired : x = acquired[k]
      BY <2>7 DEF Ready
    <3>2. k # 1 /\ k - 1 \in DOMAIN acquired' /\ acquired'[k - 1] = x
      BY <3>1, <2>2, <2>7
    <3> QED BY <3>2 DEF Ready
  <2> QED BY <2>1, <2>2, <2>3, <2>5, <2>6, <2>7
<1>10. CASE Submit
  <2> USE <1>10 DEF Submit
  <2>1. /\ UNCHANGED <<chain, ours, failures, scheduled, acquire>> /\ job'.busy /\ job'.img = head
    BY DEF gpuVars
  <2>2. Drawn' = {head} /\ Drawn = {} /\ Ready' = Ready \ {head} /\ head \in Ready
        /\ Awaited' = Awaited
    BY <2>1, <1>9 DEF Drawn, Awaited, Waiting
  <2> HIDE DEF head
  <2>3. HeldSet' = HeldSet
    BY <2>2 DEF HeldSet
  <2>4. Waiting' => acquire'.img \notin Ready' /\ acquire'.img \notin Drawn'
    BY <2>1, <2>2 DEF EachOnce, Waiting
  <2>5. EachOnce'
    BY <2>1, <2>2, <2>3, <2>4, <1>9 DEF EachOnce
  <2>6. Lost' = Lost
    BY <2>1, <2>3 DEF Lost, Image
  <2> QED BY <2>1, <2>5, <2>6, NoMoreLost
<1>11. CASE SubmitFails
  <2> USE <1>11 DEF SubmitFails
  <2>1. /\ UNCHANGED <<chain, ours, scheduled, acquire>> /\ ~job'.busy /\ failures' = failures + 1
    OBVIOUS
  <2>2. /\ Drawn' = {} /\ Drawn = {} /\ Ready' = Ready \ {head} /\ head \in Ready
        /\ Awaited' = Awaited
    BY <2>1, <1>9 DEF Drawn, Awaited, Waiting
  <2>3. head \in Picture(chain)
    BY <1>9
  <2> HIDE DEF head
  <2>4. HeldSet' \subseteq HeldSet /\ HeldSet \subseteq HeldSet' \union {head}
    BY <2>2 DEF HeldSet
  <2>5. EachOnce'
    BY <2>1, <2>2, <2>4, <1>9 DEF EachOnce, Waiting
  <2>6. ASSUME NEW i \in Lost', i # head.image PROVE i \in Lost
    <3>1. i \in ours /\ Image(i) \notin HeldSet'
      BY <2>1 DEF Lost, Image
    <3>2. Image(i) # head
      BY <2>6 DEF Image
    <3> QED BY <3>1, <3>2, <2>4 DEF Lost
  <2>7. Cardinality(Lost') <= Cardinality(Lost) + 1 /\ Cardinality(Lost') \in Nat
    <3>1. IsFiniteSet(Lost \union {head.image})
          /\ Cardinality(Lost \union {head.image}) <= Cardinality(Lost) + 1
      BY LostIsFinite, OneMore
    <3>2. Lost' \subseteq Lost \union {head.image}
      BY <2>6
    <3>3. Cardinality(Lost') <= Cardinality(Lost \union {head.image}) /\ IsFiniteSet(Lost')
      BY <3>1, <3>2, FS_Subset
    <3>4. Cardinality(Lost') \in Nat /\ Cardinality(Lost \union {head.image}) \in Nat
      BY <3>1, <3>3, FS_CardinalityType
    <3> QED BY ONLY <3>1, <3>3, <3>4, LostIsFinite, FramesTypeOK
  <2>8. FewLost'
    BY <2>1, <2>7, LostIsFinite DEF FewLost, FramesTypeOK
  <2> QED BY <2>5, <2>8
<1> QED BY <1>1, <1>2, <1>3, <1>4, <1>5, <1>6, <1>7, <1>8, <1>10, <1>11 DEF FramesNext
-----------------------------------------------------------------------------
(* Held, the list, has the elements of HeldSet, once each.                 *)

Joined(a, b, c) == a \o b \o c

LEMMA ThreeParts ==
  ASSUME NEW S, NEW a \in Seq(S), NEW b \in Seq(S), NEW c \in Seq(S)
  PROVE  /\ DOMAIN Joined(a, b, c) = 1 .. Len(a) + Len(b) + Len(c)
         /\ \A k \in 1 .. Len(a) : Joined(a, b, c)[k] = a[k]
         /\ \A k \in 1 .. Len(b) : Joined(a, b, c)[Len(a) + k] = b[k]
         /\ \A k \in 1 .. Len(c) : Joined(a, b, c)[Len(a) + Len(b) + k] = c[k]
<1> DEFINE ab == a \o b
           t == Joined(a, b, c)
<1>1. ab \in Seq(S) /\ Len(ab) = Len(a) + Len(b) /\ Len(a) \in Nat /\ Len(b) \in Nat /\ Len(c) \in Nat
  BY ConcatProperties
<1>2. \A k \in 1 .. Len(ab) : ab[k] = IF k <= Len(a) THEN a[k] ELSE b[k - Len(a)]
  BY <1>1, ConcatProperties
<1>3. t = ab \o c
  BY DEF Joined
<1> HIDE DEF ab, t
<1>4. t \in Seq(S) /\ Len(t) = Len(ab) + Len(c)
      /\ \A k \in 1 .. Len(ab) + Len(c) : t[k] = IF k <= Len(ab) THEN ab[k] ELSE c[k - Len(ab)]
  <2>1. ab \o c \in Seq(S) /\ Len(ab \o c) = Len(ab) + Len(c)
    BY <1>1, ConcatProperties
  <2>2. \A k \in 1 .. Len(ab) + Len(c) : (ab \o c)[k] = IF k <= Len(ab) THEN ab[k] ELSE c[k - Len(ab)]
    BY <1>1, ConcatProperties
  <2> QED BY <2>1, <2>2, <1>3
<1>5. DOMAIN t = 1 .. Len(a) + Len(b) + Len(c)
  BY <1>4, <1>1
<1>6. \A k \in 1 .. Len(a) : t[k] = a[k]
  BY ONLY <1>1, <1>2, <1>4
<1>7. ASSUME NEW k \in 1 .. Len(b) PROVE t[Len(a) + k] = b[k]
  <2>1. Len(a) + k \in 1 .. Len(ab) /\ ~(Len(a) + k <= Len(a)) /\ (Len(a) + k) - Len(a) = k
    BY ONLY <1>1, k \in 1 .. Len(b)
  <2>2. ab[Len(a) + k] = b[k]
    BY ONLY <2>1, <1>2
  <2> QED BY ONLY <2>1, <2>2, <1>1, <1>4
<1>8. ASSUME NEW k \in 1 .. Len(c) PROVE t[Len(a) + Len(b) + k] = c[k]
  <2>1. Len(a) + Len(b) + k \in 1 .. Len(ab) + Len(c) /\ ~(Len(a) + Len(b) + k <= Len(ab))
        /\ (Len(a) + Len(b) + k) - Len(ab) = k
    BY ONLY <1>1, k \in 1 .. Len(c)
  <2> QED BY ONLY <2>1, <1>4
<1> QED BY <1>5, <1>6, <1>7, <1>8 DEF t

AwaitedFirst == IF Waiting THEN 1 ELSE 0
DrawnLast == IF job.busy THEN 1 ELSE 0

LEMMA HeldEntries ==
  ASSUME FramesTypeOK
  PROVE  /\ DOMAIN Held = 1 .. AwaitedFirst + Len(acquired) + DrawnLast
         /\ Waiting => Held[1] = acquire.img
         /\ \A k \in 1 .. Len(acquired) : Held[AwaitedFirst + k] = acquired[k]
         /\ job.busy => Held[AwaitedFirst + Len(acquired) + 1] = job.img
<1> DEFINE W == IF acquire.state = "waitingFence" THEN <<acquire.img>> ELSE <<>>
           J == IF job.busy THEN <<job.img>> ELSE <<>>
<1>1. acquire.img \in Picture(chain) /\ job.img \in Picture(chain)
  BY DEF FramesTypeOK
<1>2. W \in Seq(Picture(chain)) /\ Len(W) = AwaitedFirst /\ (Waiting => W[1] = acquire.img)
  BY <1>1 DEF Waiting, AwaitedFirst
<1>3. J \in Seq(Picture(chain)) /\ Len(J) = DrawnLast /\ (job.busy => J[1] = job.img)
  BY <1>1 DEF DrawnLast
<1>4. acquired \in Seq(Picture(chain))
  BY DEF FramesTypeOK
<1>5. Held = Joined(W, acquired, J)
  BY DEF Held, Joined
<1> HIDE DEF W, J
<1>6. /\ DOMAIN Held = 1 .. Len(W) + Len(acquired) + Len(J)
      /\ \A k \in 1 .. Len(W) : Held[k] = W[k]
      /\ \A k \in 1 .. Len(acquired) : Held[Len(W) + k] = acquired[k]
      /\ \A k \in 1 .. Len(J) : Held[Len(W) + Len(acquired) + k] = J[k]
  <2> DEFINE t == Joined(W, acquired, J)
  <2>1. W \in Seq(Picture(chain)) /\ J \in Seq(Picture(chain))
    BY <1>2, <1>3
  <2>2. /\ DOMAIN t = 1 .. Len(W) + Len(acquired) + Len(J)
        /\ \A k \in 1 .. Len(W) : t[k] = W[k]
        /\ \A k \in 1 .. Len(acquired) : t[Len(W) + k] = acquired[k]
        /\ \A k \in 1 .. Len(J) : t[Len(W) + Len(acquired) + k] = J[k]
    <3> DEFINE P == Picture(chain)
    <3>1. \A a, b, c \in Seq(P) :
             /\ DOMAIN Joined(a, b, c) = 1 .. Len(a) + Len(b) + Len(c)
             /\ \A k \in 1 .. Len(a) : Joined(a, b, c)[k] = a[k]
             /\ \A k \in 1 .. Len(b) : Joined(a, b, c)[Len(a) + k] = b[k]
             /\ \A k \in 1 .. Len(c) : Joined(a, b, c)[Len(a) + Len(b) + k] = c[k]
      BY ThreeParts
    <3>2. W \in Seq(P) /\ acquired \in Seq(P) /\ J \in Seq(P)
      BY <2>1, <1>4
    <3> HIDE DEF P
    <3> QED BY ONLY <3>1, <3>2 DEF t
  <2>3. Held = t
    BY <1>5
  <2> HIDE DEF t
  <2> QED BY ONLY <2>2, <2>3
<1>7. Waiting => Held[1] = acquire.img
  <2>1. Waiting => 1 \in 1 .. Len(W)
    BY <1>2 DEF AwaitedFirst
  <2> QED BY <2>1, <1>2, <1>6
<1>8. job.busy => Held[AwaitedFirst + Len(acquired) + 1] = job.img
  <2>1. job.busy => 1 \in 1 .. Len(J)
    BY <1>3 DEF DrawnLast
  <2> QED BY <2>1, <1>2, <1>3, <1>6
<1>9. \A k \in 1 .. Len(acquired) : Held[AwaitedFirst + k] = acquired[k]
  BY <1>2, <1>6
<1>10. DOMAIN Held = 1 .. AwaitedFirst + Len(acquired) + DrawnLast
  BY <1>2, <1>3, <1>6
<1> QED BY <1>7, <1>8, <1>9, <1>10

(* The index of an entry says which of the three it is.                    *)
LEMMA HeldAt ==
  ASSUME FramesTypeOK, NEW k \in DOMAIN Held
  PROVE  \/ Waiting /\ k = 1 /\ Held[k] = acquire.img
         \/ \E a \in DOMAIN acquired :
              k = AwaitedFirst + a /\ Held[k] = acquired[a]
         \/ job.busy /\ Held[k] = job.img
              /\ k = AwaitedFirst + Len(acquired) + 1
<1>1. Len(acquired) \in Nat /\ DOMAIN acquired = 1 .. Len(acquired)
  BY DEF FramesTypeOK
<1>2. k \in Int /\ AwaitedFirst \in {0, 1} /\ DrawnLast \in {0, 1}
  BY <1>1, HeldEntries DEF AwaitedFirst, DrawnLast
<1>3. CASE Waiting /\ k = 1
  BY <1>3, HeldEntries
<1>4. CASE k - AwaitedFirst \in 1 .. Len(acquired)
  <2>1. Held[AwaitedFirst + (k - AwaitedFirst)]
          = acquired[k - AwaitedFirst]
    BY <1>4, HeldEntries
  <2>2. AwaitedFirst + (k - AwaitedFirst) = k
    BY <1>2
  <2> QED BY <1>1, <1>4, <2>1, <2>2
<1>5. CASE ~(Waiting /\ k = 1) /\ ~(k - AwaitedFirst \in 1 .. Len(acquired))
  <2>1. /\ k \in 1 .. AwaitedFirst + Len(acquired) + DrawnLast
        /\ AwaitedFirst \in {0, 1} /\ (Waiting <=> AwaitedFirst = 1)
        /\ DrawnLast \in {0, 1} /\ (DrawnLast = 1 => job.busy)
    <3>1. k \in 1 .. AwaitedFirst + Len(acquired) + DrawnLast
      BY HeldEntries
    <3>2. AwaitedFirst \in {0, 1} /\ (Waiting <=> AwaitedFirst = 1)
      BY DEF AwaitedFirst
    <3>3. CASE job.busy
      BY <3>1, <3>2, <3>3 DEF DrawnLast
    <3>4. CASE ~job.busy
      BY <3>1, <3>2, <3>4 DEF DrawnLast
    <3> QED BY <3>3, <3>4
  <2>2. k = AwaitedFirst + Len(acquired) + 1 /\ job.busy
    BY ONLY <1>1, <1>5, <2>1
  <2> QED BY <2>2, HeldEntries
<1> QED BY <1>3, <1>4, <1>5

LEMMA HeldIsHeldSet ==
  ASSUME FramesTypeOK
  PROVE  {Held[k] : k \in DOMAIN Held} = HeldSet
<1>1. Len(acquired) \in Nat /\ DOMAIN acquired = 1 .. Len(acquired)
  BY DEF FramesTypeOK
<1>2. /\ DOMAIN Held = 1 .. AwaitedFirst + Len(acquired) + DrawnLast
      /\ AwaitedFirst \in {0, 1} /\ (Waiting => AwaitedFirst = 1)
      /\ DrawnLast \in {0, 1} /\ (job.busy => DrawnLast = 1)
  BY HeldEntries DEF AwaitedFirst, DrawnLast
<1>3. ASSUME NEW k \in DOMAIN Held PROVE Held[k] \in HeldSet
  BY HeldAt DEF HeldSet, Awaited, Ready, Drawn
<1>4. ASSUME NEW h \in HeldSet PROVE \E k \in DOMAIN Held : Held[k] = h
  <2>1. CASE h \in Awaited
    <3>1. Waiting /\ h = acquire.img
      BY <2>1 DEF Awaited
    <3>2. 1 \in DOMAIN Held
      BY ONLY <1>1, <1>2, <3>1
    <3> QED BY <3>1, <3>2, HeldEntries
  <2>2. CASE h \in Ready
    <3>1. PICK a \in DOMAIN acquired : h = acquired[a]
      BY <2>2 DEF Ready
    <3>2. AwaitedFirst + a \in DOMAIN Held
      BY ONLY <1>1, <1>2, <3>1
    <3>3. Held[AwaitedFirst + a] = h
      BY <1>1, <3>1, HeldEntries
    <3> QED BY <3>2, <3>3
  <2>3. CASE h \in Drawn
    <3>1. job.busy /\ h = job.img
      BY <2>3 DEF Drawn
    <3>2. AwaitedFirst + Len(acquired) + 1 \in DOMAIN Held
      BY ONLY <1>1, <1>2, <3>1
    <3> QED BY <3>1, <3>2, HeldEntries
  <2> QED BY <2>1, <2>2, <2>3 DEF HeldSet
<1> QED BY <1>3, <1>4

(* FInv says all that FramesSound says.                                    *)
LEMMA FramesAreSound ==
  ASSUME FInv
  PROVE  FramesSound
<1> USE DEF FInv
<1>1. DrawsIntoCurrent
  BY DEF DrawsIntoCurrent, OfThisChain, AfterRecreation
<1>2. FencesFree
  BY DEF FencesFree, FencesInStep, Waiting
<1>3. ASSUME NEW j \in DOMAIN Held, NEW k \in DOMAIN Held, Held[j] = Held[k]
      PROVE  j = k
  <2>1. /\ \/ Waiting /\ j = 1 /\ Held[j] = acquire.img
           \/ \E a \in DOMAIN acquired :
                 j = AwaitedFirst + a /\ Held[j] = acquired[a]
           \/ job.busy /\ Held[j] = job.img
                 /\ j = AwaitedFirst + Len(acquired) + 1
        /\ \/ Waiting /\ k = 1 /\ Held[k] = acquire.img
           \/ \E a \in DOMAIN acquired :
                 k = AwaitedFirst + a /\ Held[k] = acquired[a]
           \/ job.busy /\ Held[k] = job.img
                 /\ k = AwaitedFirst + Len(acquired) + 1
    BY HeldAt
  <2>2. /\ Waiting => \A a \in DOMAIN acquired : acquire.img # acquired[a]
        /\ Waiting /\ job.busy => acquire.img # job.img
        /\ job.busy => \A a \in DOMAIN acquired : job.img # acquired[a]
        /\ \A a, b \in DOMAIN acquired : acquired[a] = acquired[b] => a = b
    BY DEF EachOnce, Ready, Drawn
  <2> QED BY ONLY <1>3, <2>1, <2>2
<1>4. \A k \in DOMAIN Held : Held[k].chain = chain => Held[k].image \in ours
  BY HeldIsHeldSet DEF EachOnce
<1>5. HeldOnce
  BY <1>3, <1>4 DEF HeldOnce
<1>6. ours \ {Held[k].image : k \in {j \in DOMAIN Held : Held[j].chain = chain}} \subseteq Lost
  <2>1. SUFFICES ASSUME NEW i \in ours, Image(i) \in HeldSet
                 PROVE  \E k \in DOMAIN Held : Held[k].chain = chain /\ Held[k].image = i
    BY DEF Lost
  <2>2. PICK k \in DOMAIN Held : Held[k] = Image(i)
    BY <2>1, HeldIsHeldSet
  <2> QED BY <2>2 DEF Image
<1>7. FewForgotten
  <2> DEFINE F == ours \ {Held[k].image : k \in {j \in DOMAIN Held : Held[j].chain = chain}}
  <2>1. F \subseteq Lost /\ IsFiniteSet(Lost)
    BY <1>6, LostIsFinite
  <2>2. FewForgotten <=> Cardinality(F) <= failures + (IF scheduled THEN 1 ELSE 0)
    BY DEF FewForgotten
  <2> HIDE DEF F
  <2>3. Cardinality(F) <= Cardinality(Lost) /\ Cardinality(F) \in Nat
    BY <2>1, FS_Subset, FS_CardinalityType
  <2> QED BY <2>2, <2>3, LostIsFinite DEF FewLost, FramesTypeOK
<1> QED BY <1>1, <1>2, <1>5, <1>7 DEF FramesSound
-----------------------------------------------------------------------------
LEMMA FramesStart == FramesInit => FInv
<1> SUFFICES ASSUME FramesInit PROVE FInv
  OBVIOUS
<1>1. FramesTypeOK
  BY FramesTypeStart
<1>2. HeldSet = {}
  BY DEF FramesInit, HeldSet, Awaited, Ready, Drawn, Waiting
<1>3. Lost = {}
  BY DEF FramesInit, Lost
<1>4. FencesInStep /\ AfterRecreation /\ OfThisChain
  BY DEF FramesInit, FencesInStep, AfterRecreation, OfThisChain, Waiting
<1>5. EachOnce
  BY <1>2 DEF FramesInit, EachOnce, Waiting
<1>6. FewLost
  BY <1>3, FS_EmptySet DEF FramesInit, FewLost
<1> QED BY <1>1, <1>4, <1>5, <1>6 DEF FInv

(* Whatever the user does with the window and whenever the GPU is done     *)
(* (MainLoop2::run, AquireSwapChainImage, GFXJob): a frame is drawn into   *)
(* an image of the swapchain of the moment, no image is held twice or      *)
(* before it is acquired, none is forgotten but those of failed            *)
(* submissions and one of a swapchain made again in time, and a fence is   *)
(* free when Vulkan gets it.                                               *)
THEOREM FramesStaySound == FramesSpec => []FramesSound
<1>1. FInv /\ [FramesNext]_framesVars => FInv'
  BY FramesTypeStep, FencesStep, RecreationStep, ChainStep, HeldStep DEF FInv
<1> QED BY <1>1, FramesStart, FramesAreSound, PTL DEF FramesSpec
==============================================================================
