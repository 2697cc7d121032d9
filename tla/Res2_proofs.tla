----------------------------- MODULE Res2_proofs -----------------------------
(*****************************************************************************)
(* Theorems about the engine's resources for any assets, versions, kinds of  *)
(* load, files that bind others and applications: counts of references, what *)
(* is left of a released descriptor, the loads in flight and the slots of    *)
(* materials.  The invariant has two parts.  Sound is about the graph alone  *)
(* and is kept by every function of Res2Graph; Consistent ties the counts to *)
(* the handles of the application and to the messages of loads under way.    *)
(*****************************************************************************)
EXTENDS Res2, Lemmas

(* A walk down a list leads through values it keeps in V.                  *)
Maps(f, V, S) == \A x \in V, r \in S : f[<<x, r>>] \in V

Walks(h, f, V, v, l) ==
  /\ h \in [0..Len(l) -> V] /\ h[0] = v
  /\ \A k \in 1..Len(l) : h[k] = f[<<h[k - 1], l[k]>>]

LEMMA EachIs ==
  ASSUME NEW V, NEW S, NEW f, Maps(f, V, S),
         NEW v \in V, NEW l \in Seq(S), NEW N, N = Len(l)
  PROVE  \E h : Walks(h, f, V, v, l) /\ Each(f, v, l) = h[N]
<1>0. N \in Nat /\ \A k \in 1..N : l[k] \in S
  OBVIOUS
<1> DEFINE step == [y \in V \X (1..N) |-> f[<<y[1], l[y[2]]>>]]
           Is(h) == h = [k \in 0..N |-> IF k = 0 THEN v ELSE f[<<h[k - 1], l[k]>>]]
<1>1. \A x \in V, k \in 1..N : step[<<x, k>>] = f[<<x, l[k]>>] /\ step[<<x, k>>] \in V
  BY <1>0 DEF Maps
<1>a. Stays(step, V, N)
  BY <1>1 DEF Stays
<1> HIDE DEF step
<1>2. PICK h : Iterates(h, step, V, N, v)
  BY <1>0, <1>a, IterationExists
<1>3. h \in [0..N -> V] /\ h[0] = v
  BY <1>2 DEF Iterates
<1>4. ASSUME NEW k \in 1..N
      PROVE  k - 1 \in 0..N /\ k \in 0..N /\ k # 0 /\ h[k] = f[<<h[k - 1], l[k]>>]
  <2>1. k - 1 \in 0..N /\ k \in 0..N /\ k # 0
    BY <1>0
  <2>2. h[k] = step[<<h[k - 1], k>>] /\ h[k - 1] \in V
    BY <2>1, <1>2 DEF Iterates
  <2> QED
    BY <2>1, <2>2, <1>1
<1>5. ASSUME NEW k \in 0..N PROVE h[k] = IF k = 0 THEN v ELSE f[<<h[k - 1], l[k]>>]
  <2>1. k = 0 \/ k \in 1..N
    BY <1>0
  <2> QED
    BY <2>1, <1>3, <1>4
<1>8. Is(h)
  BY <1>3, <1>5
<1>9. ASSUME NEW g, Is(g) PROVE g = h
  <2> DEFINE G == {k \in 0..N : g[k] = h[k]}
  <2>0. 0 \in 0..N
    BY <1>0
  <2>1. 0 \in G
    BY <1>3, <1>9, <2>0
  <2>2. ASSUME NEW k \in 1..N, k - 1 \in G PROVE k \in G
    <3>1. k - 1 \in 0..N /\ k \in 0..N /\ k # 0 /\ g[k - 1] = h[k - 1]
      BY <2>2, <1>0
    <3>2. g[k] = f[<<g[k - 1], l[k]>>] /\ h[k] = f[<<h[k - 1], l[k]>>]
      BY <3>1, <1>4, <1>9
    <3> QED
      BY <3>1, <3>2
  <2>3. \A k \in 1..N : k - 1 \in G => k \in G
    BY <2>2
  <2>4. \A k \in 0..N : k \in G
    <3> HIDE DEF G
    <3> QED
      BY <2>1, <2>3, <1>0, UpTo
  <2> QED
    BY <2>4, <1>8, <1>9
<1>6. Each(f, v, l) = (CHOOSE g : Is(g))[N]
  BY DEF Each
<1>7. (CHOOSE g : Is(g)) = h
  BY <1>8, <1>9
<1> HIDE DEF Is
<1>10. Walks(h, f, V, v, l)
  BY <1>3, <1>4 DEF Walks
<1> QED
  BY <1>6, <1>7, <1>10

(* What each step of the walk hands to the next holds at its end.          *)
LEMMA EachKeeps ==
  ASSUME NEW V, NEW S, NEW f, Maps(f, V, S),
         NEW v \in V, NEW l \in Seq(S), NEW N, N = Len(l),
         NEW P, v \in P[0],
         \A k \in 1..N, x \in V : x \in P[k - 1] => f[<<x, l[k]>>] \in P[k]
  PROVE  Each(f, v, l) \in V /\ Each(f, v, l) \in P[N]
<1>0. N \in Nat
  OBVIOUS
<1>a. PICK h : Walks(h, f, V, v, l) /\ Each(f, v, l) = h[N]
  BY EachIs
<1>1. /\ h \in [0..N -> V] /\ h[0] = v /\ Each(f, v, l) = h[N]
      /\ \A k \in 1..N : h[k] = f[<<h[k - 1], l[k]>>]
  BY <1>a DEF Walks
<1> DEFINE G == {k \in 0..N : h[k] \in P[k]}
<1>2. 0 \in G
  BY <1>1, <1>0
<1>3. ASSUME NEW k \in 1..N, k - 1 \in G PROVE k \in G
  <2>1. k - 1 \in 0..N /\ k \in 0..N /\ h[k - 1] \in V /\ h[k - 1] \in P[k - 1]
    BY <1>3, <1>0, <1>1
  <2> QED
    BY <2>1, <1>1
<1>4. N \in G
  <2>1. \A k \in 1..N : k - 1 \in G => k \in G
    BY <1>3
  <2> HIDE DEF G
  <2>2. \A k \in 0..N : k \in G
    BY <1>0, <1>2, <2>1, UpTo
  <2> QED
    BY <1>0, <2>2
<1> QED
  BY <1>0, <1>1, <1>4

LEMMA EachTyped ==
  ASSUME NEW V, NEW S, NEW f, Maps(f, V, S), NEW v \in V, NEW l \in Seq(S)
  PROVE  Each(f, v, l) \in V
<1> DEFINE P == [k \in 0..Len(l) |-> V]
<1>1. Len(l) \in Nat /\ v \in P[0]
  OBVIOUS
<1>2. \A k \in 1..Len(l), x \in V : x \in P[k - 1] => f[<<x, l[k]>>] \in P[k]
  BY <1>1 DEF Maps
<1> HIDE DEF P
<1> QED
  BY <1>1, <1>2, EachKeeps

LEMMA EachOfNone ==
  ASSUME NEW V, NEW S, NEW f, Maps(f, V, S), NEW v \in V
  PROVE  Each(f, v, <<>>) = v
<1> DEFINE P == [k \in {0} |-> {v}]
           l == <<>>
<1>1. l \in Seq(S) /\ Len(l) = 0 /\ v \in P[0] /\ P[0] = {v}
  OBVIOUS
<1>2. \A k \in 1..0, x \in V : x \in P[k - 1] => f[<<x, l[k]>>] \in P[k]
  OBVIOUS
<1> HIDE DEF P, l
<1>3. Each(f, v, l) \in P[0]
  BY <1>1, <1>2, EachKeeps
<1> QED
  BY <1>1, <1>3 DEF l

-----------------------------------------------------------------------------
(* The counters: what a change of readiness does to the memory.            *)

(* All but the counters is as before.                                      *)
SameButCounts(m1, m2) ==
  /\ m2 \in Memory
  /\ \A r \in Res : /\ m2[r].status = m1[r].status /\ m2[r].ref = m1[r].ref
                    /\ m2[r].padri = m1[r].padri /\ m2[r].figli = m1[r].figli

LEMMA Counted ==
  ASSUME NEW m \in Memory, NEW p \in Res, NEW d \in Nat
  PROVE  SameButCounts(m, [m EXCEPT ![p].notReady = (@ + d) % NotReadyMod])
<1>1. NotReadyMod \in Nat \ {0}
  BY GraphAssumption
<1>2. m[p] \in ResDescr
  BY DEF Memory
<1>3. PICK k : k = (m[p].notReady + d) % NotReadyMod
  OBVIOUS
<1>4. k \in 0..NotReadyMod - 1
  BY <1>1, <1>2, <1>3 DEF ResDescr
<1>5. [m EXCEPT ![p].notReady = k] \in Memory
  BY <1>2, <1>4 DEF Memory, ResDescr
<1>6. SameButCounts(m, [m EXCEPT ![p].notReady = k])
  BY <1>2, <1>5 DEF SameButCounts, Memory, ResDescr
<1> QED
  BY <1>3, <1>6

LEMMA SameButCountsTrans ==
  ASSUME NEW m1, NEW m2, NEW m3, SameButCounts(m1, m2), SameButCounts(m2, m3)
  PROVE  SameButCounts(m1, m3)
BY DEF SameButCounts

(* f leaves all but the counters alone.                                    *)
Informs(f) == \A m \in Memory, r \in Res : SameButCounts(m, f[<<m, r>>])

LEMMA InformsMaps ==
  ASSUME NEW f, Informs(f)
  PROVE  Maps(f, Memory, Res)
BY DEF Informs, Maps, SameButCounts

LEMMA EachInforms ==
  ASSUME NEW f, Informs(f), NEW m \in Memory, NEW l \in Seq(Res)
  PROVE  SameButCounts(m, Each(f, m, l))
<1> DEFINE Same == {x \in Memory : SameButCounts(m, x)}
           P == [k \in 0..Len(l) |-> Same]
<1>1. Maps(f, Memory, Res)
  BY InformsMaps
<1>2. Len(l) \in Nat /\ \A k \in 1..Len(l) : l[k] \in Res
  OBVIOUS
<1>3. m \in P[0]
  BY <1>2 DEF SameButCounts
<1>4. ASSUME NEW k \in 1..Len(l), NEW x \in Memory, x \in P[k - 1]
      PROVE  f[<<x, l[k]>>] \in P[k]
  <2>1. k - 1 \in 0..Len(l) /\ k \in 0..Len(l)
    BY <1>2
  <2>2. SameButCounts(m, x) /\ SameButCounts(x, f[<<x, l[k]>>])
    BY <1>2, <1>4, <2>1 DEF Informs
  <2>3. SameButCounts(m, f[<<x, l[k]>>]) /\ f[<<x, l[k]>>] \in Memory
    BY <2>2, SameButCountsTrans DEF SameButCounts
  <2> QED
    BY <2>1, <2>3
<1>5. \A k \in 1..Len(l), x \in Memory : x \in P[k - 1] => f[<<x, l[k]>>] \in P[k]
  BY <1>4
<1>6. \A x : x \in P[Len(l)] => SameButCounts(m, x)
  BY <1>2
<1> HIDE DEF P
<1>7. Each(f, m, l) \in P[Len(l)]
  BY <1>1, <1>3, <1>5, EachKeeps
<1> QED
  BY <1>6, <1>7

LEMMA BecomeReadyInforms ==
  ASSUME NEW f, Informs(f), NEW m \in Memory, NEW p \in Res
  PROVE  SameButCounts(m, OnChildrenBecomeReady(m, p, f))
<1> DEFINE n == [m EXCEPT ![p].notReady = (@ + (NotReadyMod - 1)) % NotReadyMod]
<1>1. NotReadyMod - 1 \in Nat
  BY GraphAssumption
<1>2. SameButCounts(m, n)
  BY <1>1, Counted
<1>3. n = [m EXCEPT ![p].notReady = (@ + NotReadyMod - 1) % NotReadyMod]
  <2>1. m[p].notReady + (NotReadyMod - 1) = m[p].notReady + NotReadyMod - 1
    BY GraphAssumption DEF Memory, ResDescr
  <2> QED
    BY <2>1
<1> HIDE DEF n
<1>4. n \in Memory /\ n[p].padri \in Seq(Res)
  BY <1>2 DEF SameButCounts, Memory, ResDescr
<1>5. SameButCounts(n, Each(f, n, n[p].padri))
  BY <1>4, EachInforms
<1>6. SameButCounts(m, Each(f, n, n[p].padri))
  BY <1>2, <1>5, SameButCountsTrans
<1> QED
  BY <1>2, <1>3, <1>6 DEF OnChildrenBecomeReady

LEMMA BecomeNotReadyInforms ==
  ASSUME NEW f, Informs(f), NEW m \in Memory, NEW p \in Res
  PROVE  SameButCounts(m, OnChildrenBecomeNotReady(m, p, f))
<1> DEFINE n == [m EXCEPT ![p].notReady = (@ + 1) % NotReadyMod]
<1>2. SameButCounts(m, n)
  BY Counted
<1>3. n = [m EXCEPT ![p].notReady = (@ + 1) % NotReadyMod]
  OBVIOUS
<1> HIDE DEF n
<1>4. n \in Memory /\ n[p].padri \in Seq(Res)
  BY <1>2 DEF SameButCounts, Memory, ResDescr
<1>5. SameButCounts(n, Each(f, n, n[p].padri))
  BY <1>4, EachInforms
<1>6. SameButCounts(m, Each(f, n, n[p].padri))
  BY <1>2, <1>5, SameButCountsTrans
<1> QED
  BY <1>2, <1>3, <1>6 DEF OnChildrenBecomeNotReady

(* The functions that inform the parents leave the rest alone.             *)
LEMMA InformReadyIs ==
  \A n \in 0..Depth :
    /\ Informs(InformReady[n])
    /\ InformReady[n] = [x \in Memory \X Res |->
                        IF n = 0 THEN x[1] ELSE OnChildrenBecomeReady(x[1], x[2], InformReady[n - 1])]
<1> DEFINE V == {g \in [Memory \X Res -> Memory] : Informs(g)}
           Above(g) == [x \in Memory \X Res |-> OnChildrenBecomeReady(x[1], x[2], g)]
           first == [x \in Memory \X Res |-> x[1]]
           step == [y \in V \X (1..Depth) |-> Above(y[1])]
           Is(h) == h = [n \in 0..Depth |->
                           [x \in Memory \X Res |->
                              IF n = 0 THEN x[1] ELSE OnChildrenBecomeReady(x[1], x[2], h[n - 1])]]
<1>0. Depth \in Nat
  BY GraphAssumption
<1>1. first \in V
  BY DEF Informs, SameButCounts
<1>2. ASSUME NEW g \in V PROVE Above(g) \in V
  <2>1. \A m \in Memory, r \in Res : /\ Above(g)[<<m, r>>] = OnChildrenBecomeReady(m, r, g)
                                     /\ SameButCounts(m, OnChildrenBecomeReady(m, r, g))
    BY BecomeReadyInforms
  <2>2. Informs(Above(g))
    BY <2>1 DEF Informs
  <2>3. \A x \in Memory \X Res : OnChildrenBecomeReady(x[1], x[2], g) \in Memory
    BY <2>1 DEF SameButCounts
  <2> QED
    BY <2>2, <2>3
<1> HIDE DEF V, first, Above
<1>3. \A g \in V, n \in 1..Depth : step[<<g, n>>] = Above(g)
  OBVIOUS
<1>4. Stays(step, V, Depth)
  BY <1>2, <1>3 DEF Stays
<1> HIDE DEF step
<1>5. PICK h : Iterates(h, step, V, Depth, first)
  BY <1>0, <1>1, <1>4, IterationExists
<1>6. ASSUME NEW n \in 0..Depth
      PROVE  h[n] = [x \in Memory \X Res |->
                       IF n = 0 THEN x[1] ELSE OnChildrenBecomeReady(x[1], x[2], h[n - 1])]
  <2>1. CASE n = 0
    BY <2>1, <1>5 DEF Iterates, first
  <2>2. CASE n # 0
    <3>1. n \in 1..Depth /\ n - 1 \in 0..Depth
      BY <2>2, <1>0
    <3>2. h[n] = Above(h[n - 1])
      BY <3>1, <1>3, <1>5 DEF Iterates
    <3> QED
      BY <3>2, <2>2 DEF Above
  <2> QED
    BY <2>1, <2>2
<1>7. h \in [0..Depth -> V]
  BY <1>5 DEF Iterates
<1>8. Is(h)
  BY <1>6, <1>7
<1>9. Is(InformReady)
  BY <1>8 DEF InformReady
<1>10. ASSUME NEW g, Is(g) PROVE \A n \in 0..Depth : Informs(g[n])
  <2> DEFINE G == {n \in 0..Depth : g[n] \in V}
  <2>1. 0 \in G
    <3>1. g[0] = first
      BY <1>0, <1>10 DEF first
    <3> QED
      BY <1>0, <1>1, <3>1
  <2>2. ASSUME NEW n \in 1..Depth, n - 1 \in G PROVE n \in G
    <3>1. n \in 0..Depth /\ n # 0 /\ g[n - 1] \in V
      BY <2>2, <1>0
    <3>2. g[n] = Above(g[n - 1])
      BY <3>1, <1>10 DEF Above
    <3> QED
      BY <3>1, <3>2, <1>2
  <2>3. \A n \in 1..Depth : n - 1 \in G => n \in G
    BY <2>2
  <2>4. \A n \in 0..Depth : n \in G
    <3> HIDE DEF G
    <3> QED
      BY <2>1, <2>3, <1>0, UpTo
  <2> QED
    BY <2>4, <1>0 DEF V
<1>11. \A n \in 0..Depth :
         InformReady[n] = [x \in Memory \X Res |->
                          IF n = 0 THEN x[1] ELSE OnChildrenBecomeReady(x[1], x[2], InformReady[n - 1])]
  BY <1>9
<1> HIDE DEF Is
<1>12. \A n \in 0..Depth : Informs(InformReady[n])
  BY <1>9, <1>10
<1> QED
  BY <1>11, <1>12

LEMMA InformReadyInforms ==
  Informs(InformReady[Depth])
<1>1. Depth \in 0..Depth
  BY GraphAssumption
<1> QED
  BY <1>1, InformReadyIs

LEMMA InformNotReadyIs ==
  \A n \in 0..Depth :
    /\ Informs(InformNotReady[n])
    /\ InformNotReady[n] = [x \in Memory \X Res |->
                        IF n = 0 THEN x[1] ELSE OnChildrenBecomeNotReady(x[1], x[2], InformNotReady[n - 1])]
<1> DEFINE V == {g \in [Memory \X Res -> Memory] : Informs(g)}
           Above(g) == [x \in Memory \X Res |-> OnChildrenBecomeNotReady(x[1], x[2], g)]
           first == [x \in Memory \X Res |-> x[1]]
           step == [y \in V \X (1..Depth) |-> Above(y[1])]
           Is(h) == h = [n \in 0..Depth |->
                           [x \in Memory \X Res |->
                              IF n = 0 THEN x[1] ELSE OnChildrenBecomeNotReady(x[1], x[2], h[n - 1])]]
<1>0. Depth \in Nat
  BY GraphAssumption
<1>1. first \in V
  BY DEF Informs, SameButCounts
<1>2. ASSUME NEW g \in V PROVE Above(g) \in V
  <2>1. \A m \in Memory, r \in Res : /\ Above(g)[<<m, r>>] = OnChildrenBecomeNotReady(m, r, g)
                                     /\ SameButCounts(m, OnChildrenBecomeNotReady(m, r, g))
    BY BecomeNotReadyInforms
  <2>2. Informs(Above(g))
    BY <2>1 DEF Informs
  <2>3. \A x \in Memory \X Res : OnChildrenBecomeNotReady(x[1], x[2], g) \in Memory
    BY <2>1 DEF SameButCounts
  <2> QED
    BY <2>2, <2>3
<1> HIDE DEF V, first, Above
<1>3. \A g \in V, n \in 1..Depth : step[<<g, n>>] = Above(g)
  OBVIOUS
<1>4. Stays(step, V, Depth)
  BY <1>2, <1>3 DEF Stays
<1> HIDE DEF step
<1>5. PICK h : Iterates(h, step, V, Depth, first)
  BY <1>0, <1>1, <1>4, IterationExists
<1>6. ASSUME NEW n \in 0..Depth
      PROVE  h[n] = [x \in Memory \X Res |->
                       IF n = 0 THEN x[1] ELSE OnChildrenBecomeNotReady(x[1], x[2], h[n - 1])]
  <2>1. CASE n = 0
    BY <2>1, <1>5 DEF Iterates, first
  <2>2. CASE n # 0
    <3>1. n \in 1..Depth /\ n - 1 \in 0..Depth
      BY <2>2, <1>0
    <3>2. h[n] = Above(h[n - 1])
      BY <3>1, <1>3, <1>5 DEF Iterates
    <3> QED
      BY <3>2, <2>2 DEF Above
  <2> QED
    BY <2>1, <2>2
<1>7. h \in [0..Depth -> V]
  BY <1>5 DEF Iterates
<1>8. Is(h)
  BY <1>6, <1>7
<1>9. Is(InformNotReady)
  BY <1>8 DEF InformNotReady
<1>10. ASSUME NEW g, Is(g) PROVE \A n \in 0..Depth : Informs(g[n])
  <2> DEFINE G == {n \in 0..Depth : g[n] \in V}
  <2>1. 0 \in G
    <3>1. g[0] = first
      BY <1>0, <1>10 DEF first
    <3> QED
      BY <1>0, <1>1, <3>1
  <2>2. ASSUME NEW n \in 1..Depth, n - 1 \in G PROVE n \in G
    <3>1. n \in 0..Depth /\ n # 0 /\ g[n - 1] \in V
      BY <2>2, <1>0
    <3>2. g[n] = Above(g[n - 1])
      BY <3>1, <1>10 DEF Above
    <3> QED
      BY <3>1, <3>2, <1>2
  <2>3. \A n \in 1..Depth : n - 1 \in G => n \in G
    BY <2>2
  <2>4. \A n \in 0..Depth : n \in G
    <3> HIDE DEF G
    <3> QED
      BY <2>1, <2>3, <1>0, UpTo
  <2> QED
    BY <2>4, <1>0 DEF V
<1>11. \A n \in 0..Depth :
         InformNotReady[n] = [x \in Memory \X Res |->
                          IF n = 0 THEN x[1] ELSE OnChildrenBecomeNotReady(x[1], x[2], InformNotReady[n - 1])]
  BY <1>9
<1> HIDE DEF Is
<1>12. \A n \in 0..Depth : Informs(InformNotReady[n])
  BY <1>9, <1>10
<1> QED
  BY <1>11, <1>12

LEMMA InformNotReadyInforms ==
  Informs(InformNotReady[Depth])
<1>1. Depth \in 0..Depth
  BY GraphAssumption
<1> QED
  BY <1>1, InformNotReadyIs

(* change_state gives r the status and leaves the rest alone.              *)
LEMMA ChangeStateIs ==
  ASSUME NEW m \in Memory, NEW r \in Res, NEW s \in Status
  PROVE  SameButCounts([m EXCEPT ![r].status = s], ChangeState(m, r, s))
<1> DEFINE n == [m EXCEPT ![r].status = s]
<1>1. n \in Memory
  BY DEF Memory, ResDescr
<1>2. SameButCounts(n, n)
  BY <1>1 DEF SameButCounts
<1>3. n[r].padri \in Seq(Res)
  BY <1>1 DEF Memory, ResDescr
<1> HIDE DEF n
<1>4. /\ SameButCounts(n, Each(InformReady[Depth], n, n[r].padri))
      /\ SameButCounts(n, Each(InformNotReady[Depth], n, n[r].padri))
  BY <1>1, <1>3, EachInforms, InformReadyInforms, InformNotReadyInforms
<1>5. ChangeState(m, r, s) \in {n, Each(InformReady[Depth], n, n[r].padri), Each(InformNotReady[Depth], n, n[r].padri)}
  BY DEF ChangeState, n
<1> QED
  BY <1>2, <1>4, <1>5 DEF n

-----------------------------------------------------------------------------
(* Lists of parents and children.                                          *)

LEMMA OccurrencesType ==
  ASSUME NEW S, NEW s \in Seq(S), NEW x
  PROVE  /\ Occurrences(s, x) \in Nat /\ IsFiniteSet({i \in DOMAIN s : s[i] = x})
         /\ Occurrences(s, x) > 0 <=> x \in Range(s)
<1> DEFINE I == {i \in DOMAIN s : s[i] = x}
<1>1. IsFiniteSet(1..Len(s)) /\ I \in SUBSET (1..Len(s))
  BY FS_Interval
<1>2. IsFiniteSet(I) /\ Cardinality(I) \in Nat
  BY <1>1, FS_Subset, FS_CardinalityType
<1>3. Cardinality(I) = 0 <=> I = {}
  BY <1>2, FS_EmptySet
<1>4. I = {} <=> x \notin Range(s)
  BY DEF Range
<1> HIDE DEF I
<1>5. Cardinality(I) > 0 <=> Cardinality(I) # 0
  BY <1>2
<1>6. Cardinality(I) > 0 <=> x \in Range(s)
  BY <1>3, <1>4, <1>5
<1> QED
  BY <1>2, <1>6 DEF I, Occurrences

(* t is s without its entry i.                                             *)
Without(t, s, i) ==
  Len(s) = Len(t) + 1 /\ \A k \in 1..Len(t) : t[k] = IF k < i THEN s[k] ELSE s[k + 1]

LEMMA OneLess ==
  ASSUME NEW S, NEW s \in Seq(S), NEW t \in Seq(S), NEW i \in 1..Len(s), Without(t, s, i), NEW x
  PROVE  Occurrences(s, x) = Occurrences(t, x) + (IF s[i] = x THEN 1 ELSE 0)
<1> DEFINE I == {k \in DOMAIN s : s[k] = x}
           J == {k \in DOMAIN t : t[k] = x}
           f == [k \in J |-> IF k < i THEN k ELSE k + 1]
<1>0. PICK n \in Nat : n = Len(t)
  OBVIOUS
<1>1. /\ Len(s) = n + 1 /\ i \in 1..n + 1
      /\ \A k \in 1..n : t[k] = IF k < i THEN s[k] ELSE s[k + 1]
  BY <1>0 DEF Without
<1>2. /\ \A k : k \in I <=> k \in 1..n + 1 /\ s[k] = x
      /\ \A k : k \in J <=> k \in 1..n /\ t[k] = x
  BY <1>0, <1>1
<1> HIDE DEF I, J
<1>3. ASSUME NEW k \in J PROVE f[k] \in I \ {i}
  <2>1. k \in 1..n /\ k + 1 \in 1..n + 1 /\ k \in 1..n + 1 /\ t[k] = x
    BY <1>2
  <2>2. CASE k < i
    BY <2>1, <2>2, <1>1, <1>2
  <2>3. CASE ~(k < i)
    <3>1. s[k + 1] = x /\ k + 1 # i
      BY <2>1, <2>3, <1>1
    <3> QED
      BY <3>1, <2>1, <2>3, <1>2
  <2> QED
    BY <2>2, <2>3
<1>4. \A k, l \in J : f[k] = f[l] => k = l
  BY <1>1, <1>2
<1>5. ASSUME NEW k \in I \ {i} PROVE \E l \in J : f[l] = k
  <2>1. CASE k < i
    <3>1. k \in 1..n /\ k \in J
      BY <2>1, <1>1, <1>2
    <3> QED
      BY <3>1, <2>1
  <2>2. CASE ~(k < i)
    <3>1. k - 1 \in 1..n /\ ~(k - 1 < i) /\ (k - 1) + 1 = k
      BY <2>2, <1>1, <1>2
    <3>2. k - 1 \in J
      BY <3>1, <1>1, <1>2
    <3> QED
      BY <3>1, <3>2
  <2> QED
    BY <2>1, <2>2
<1>6. f \in Bijection(J, I \ {i})
  <2>1. f \in [J -> I \ {i}]
    BY <1>3
  <2> HIDE DEF f
  <2> QED
    BY <2>1, <1>4, <1>5 DEF Bijection, Injection, IsInjective, Surjection
<1>7. IsFiniteSet(I) /\ IsFiniteSet(J)
  BY OccurrencesType DEF I, J
<1>8. Cardinality(I \ {i}) = Cardinality(J)
  BY <1>6, <1>7, FS_Bijection DEF ExistsBijection
<1>9. /\ Cardinality(I \ {i}) = IF i \in I THEN Cardinality(I) - 1 ELSE Cardinality(I)
      /\ Cardinality(I) \in Nat /\ Cardinality(J) \in Nat
  BY <1>7, FS_RemoveElement, FS_CardinalityType
<1>10. i \in I <=> s[i] = x
  BY <1>1, <1>2
<1> QED
  BY <1>8, <1>9, <1>10 DEF Occurrences, I, J

LEMMA OneMoreInFront ==
  ASSUME NEW S, NEW s \in Seq(S), NEW c \in S
  PROVE  /\ <<c>> \o s \in Seq(S) /\ Range(<<c>> \o s) = Range(s) \union {c}
         /\ \A x : Occurrences(<<c>> \o s, x) = Occurrences(s, x) + (IF c = x THEN 1 ELSE 0)
<1> DEFINE o == <<c>>
<1>1. o \in Seq(S) /\ Len(o) = 1 /\ o[1] = c
  OBVIOUS
<1> HIDE DEF o
<1>2. PICK t : t = o \o s
  OBVIOUS
<1>3. /\ t \in Seq(S) /\ Len(t) = Len(o) + Len(s)
      /\ \A k \in 1..Len(o) + Len(s) : t[k] = IF k <= Len(o) THEN o[k] ELSE s[k - Len(o)]
  BY <1>1, <1>2, ConcatProperties
<1>4. PICK n \in Nat : n = Len(s)
  OBVIOUS
<1>5. Len(t) = n + 1 /\ t[1] = c /\ \A k \in 1..n : t[k + 1] = s[k]
  BY <1>1, <1>3, <1>4
<1>6. Without(s, t, 1)
  BY <1>4, <1>5 DEF Without
<1>7. \A x : Occurrences(t, x) = Occurrences(s, x) + (IF c = x THEN 1 ELSE 0)
  <2> TAKE x
  <2>1. 1 \in 1..Len(t)
    BY <1>5
  <2>2. Occurrences(t, x) = Occurrences(s, x) + (IF t[1] = x THEN 1 ELSE 0)
    BY <1>3, <1>6, <2>1, OneLess
  <2> QED
    BY <2>2, <1>5
<1>8. Range(t) = Range(s) \union {c}
  <2>1. \A k \in 1..n + 1 : k = 1 \/ (k - 1 \in 1..n /\ t[k] = s[k - 1])
    BY <1>3, <1>4, <1>1
  <2>2. DOMAIN t = 1..n + 1 /\ DOMAIN s = 1..n
    BY <1>3, <1>4, <1>5
  <2>3. \A y : y \in Range(t) <=> \E k \in 1..n + 1 : y = t[k]
    BY <2>2 DEF Range
  <2>4. \A y : y \in Range(s) <=> \E k \in 1..n : y = s[k]
    BY <2>2 DEF Range
  <2>5. 1 \in 1..n + 1 /\ \A k \in 1..n : k + 1 \in 1..n + 1
    OBVIOUS
  <2>6. ASSUME NEW y \in Range(t) PROVE y = c \/ y \in Range(s)
    <3>1. PICK k \in 1..n + 1 : y = t[k]
      BY <2>3
    <3> QED
      BY <3>1, <2>1, <2>4, <1>5
  <2>7. c \in Range(t) /\ \A y \in Range(s) : y \in Range(t)
    BY <2>3, <2>4, <2>5, <1>5
  <2> QED
    BY <2>6, <2>7
<1> QED
  BY <1>2, <1>3, <1>7, <1>8 DEF o

(* The first entry for c.                                                  *)
LEMMA FirstIs ==
  ASSUME NEW S, NEW s \in Seq(S), NEW c, c \in Range(s)
  PROVE  \E i \in 1..Len(s) : /\ s[i] = c /\ \A j \in 1..Len(s) : s[j] = c => i <= j
                              /\ {j \in 1..Len(s) : s[j] = c} # {}
                              /\ Min({j \in 1..Len(s) : s[j] = c}) = i
                              /\ RemoveFirst(s, c) = RemoveAt(s, i)
<1> DEFINE I == {j \in 1..Len(s) : s[j] = c}
<1>1. I # {} /\ I \in SUBSET Nat
  BY DEF Range
<1>2. PICK i : i = Min(I)
  OBVIOUS
<1>3. i \in I /\ \A j \in I : i <= j
  BY <1>1, <1>2, MinIsLeast
<1>5. RemoveFirst(s, c) = RemoveAt(s, i)
  BY <1>1, <1>2 DEF RemoveFirst, SelectInSeq
<1> QED
  BY <1>1, <1>2, <1>3, <1>5

LEMMA FirstRemoved ==
  ASSUME NEW S, NEW s \in Seq(S), NEW c, c \in Range(s)
  PROVE  /\ RemoveFirst(s, c) \in Seq(S) /\ Range(RemoveFirst(s, c)) \subseteq Range(s)
         /\ \A x : Occurrences(s, x) = Occurrences(RemoveFirst(s, c), x) + (IF c = x THEN 1 ELSE 0)
<1>1. PICK i \in 1..Len(s) : s[i] = c /\ RemoveFirst(s, c) = RemoveAt(s, i)
  BY FirstIs
<1>2. PICK t : t = RemoveAt(s, i)
  OBVIOUS
<1>3. PICK n \in Nat : n = Len(s)
  OBVIOUS
<1>4. t \in Seq(S) /\ Len(t) = n - 1 /\ \A k \in 1..n - 1 : t[k] = IF k < i THEN s[k] ELSE s[k + 1]
  BY <1>2, <1>3, Cut
<1>5. i \in 1..n /\ n = (n - 1) + 1
  BY <1>1, <1>3
<1>6. Without(t, s, i)
  BY <1>3, <1>4, <1>5 DEF Without
<1>7. \A x : Occurrences(s, x) = Occurrences(t, x) + (IF c = x THEN 1 ELSE 0)
  <2> TAKE x
  <2>1. Occurrences(s, x) = Occurrences(t, x) + (IF s[i] = x THEN 1 ELSE 0)
    BY <1>1, <1>4, <1>6, OneLess
  <2> QED
    BY <2>1, <1>1
<1>8. Range(t) \subseteq Range(s)
  <2>1. DOMAIN t = 1..n - 1 /\ DOMAIN s = 1..n
    BY <1>3, <1>4
  <2>2. \A k \in 1..n - 1 : k \in 1..n /\ k + 1 \in 1..n
    BY <1>3
  <2> QED
    BY <2>1, <2>2, <1>4 DEF Range
<1> QED
  BY <1>1, <1>2, <1>4, <1>7, <1>8

(* What is left of s after the first entry for c.                          *)
LEMMA RestAfter ==
  ASSUME NEW S, NEW s \in Seq(S), NEW c, c \in Range(s)
  PROVE  \E t \in Seq(S) :
           /\ t = SubSeq(s, Min({j \in 1..Len(s) : s[j] = c}) + 1, Len(s))
           /\ {j \in 1..Len(s) : s[j] = c} # {}
           /\ \A x : Occurrences(t, x) + (IF c = x THEN 1 ELSE 0) <= Occurrences(s, x)
<1>1. PICK i \in 1..Len(s) : s[i] = c /\ Min({j \in 1..Len(s) : s[j] = c}) = i /\ {j \in 1..Len(s) : s[j] = c} # {}
  BY FirstIs
<1>2. PICK t : t = SubSeq(s, i + 1, Len(s))
  OBVIOUS
<1>3. PICK n \in Nat : n = Len(s)
  OBVIOUS
<1>4. i \in 1..n /\ DOMAIN s = 1..n /\ \A k \in 1..n : s[k] \in S
  BY <1>3
<1>5. t \in Seq(S) /\ Len(t) = n - i /\ \A k \in 1..n - i : t[k] = s[i + k]
  <2>1. i + 1 \in Int /\ n \in Int /\ \A k \in i + 1..n : s[k] \in S
    BY <1>4
  <2>2. \A k \in 1..n - (i + 1) + 1 : t[k] = s[(i + 1) + k - 1]
    BY <2>1, <1>2, <1>3, SubSeqProperties
  <2>3. t \in Seq(S) /\ Len(t) = IF i + 1 <= n THEN n - (i + 1) + 1 ELSE 0
    BY <2>1, <1>2, <1>3, SubSeqProperties
  <2> QED
    BY <2>2, <2>3, <1>4
<1>6. ASSUME NEW x PROVE Occurrences(t, x) + (IF c = x THEN 1 ELSE 0) <= Occurrences(s, x)
  <2> DEFINE I == {k \in DOMAIN s : s[k] = x}
             J == {k \in DOMAIN t : t[k] = x}
             f == [k \in J |-> i + k]
  <2>1. /\ \A k : k \in I <=> k \in 1..n /\ s[k] = x
        /\ \A k : k \in J <=> k \in 1..n - i /\ t[k] = x
    BY <1>4, <1>5
  <2>2. IsFiniteSet(I) /\ IsFiniteSet(J)
    BY <1>5, OccurrencesType
  <2> HIDE DEF I, J
  <2>3. ASSUME NEW k \in J PROVE f[k] \in I \ {i}
    <3>1. k \in 1..n - i /\ t[k] = x
      BY <2>1
    <3>2. i + k \in 1..n /\ i + k # i /\ s[i + k] = x
      BY <3>1, <1>4, <1>5
    <3> QED
      BY <3>2, <2>1
  <2>4. \A k, l \in J : f[k] = f[l] => k = l
    BY <2>1, <1>4
  <2>5. f \in Injection(J, I \ {i})
    <3>1. f \in [J -> I \ {i}]
      BY <2>3
    <3> HIDE DEF f
    <3> QED
      BY <3>1, <2>4 DEF Injection, IsInjective
  <2>6. IsFiniteSet(I \ {i}) /\ Cardinality(I \ {i}) = IF i \in I THEN Cardinality(I) - 1 ELSE Cardinality(I)
    BY <2>2, FS_RemoveElement
  <2>7. Cardinality(J) <= Cardinality(I \ {i})
    BY <2>5, <2>6, FS_Injection
  <2>8. i \in I <=> c = x
    BY <1>1, <1>4, <2>1
  <2>9. Cardinality(I) \in Nat /\ Cardinality(J) \in Nat
    BY <2>2, FS_CardinalityType
  <2> QED
    BY <2>6, <2>7, <2>8, <2>9 DEF Occurrences, I, J
<1> QED
  BY <1>1, <1>2, <1>5, <1>6

LEMMA LinksType ==
  ASSUME NEW m \in Memory, NEW r
  PROVE  /\ IsFiniteSet(Links(m, r)) /\ Cardinality(Links(m, r)) \in Nat
         /\ Cardinality(Links(m, r)) = 0 <=> \A p \in Res : r \notin Range(m[p].figli)
         /\ \A p \in Res : Occurrences(m[p].figli, r) <= Cardinality(Links(m, r))
<1> DEFINE I(p) == {i \in DOMAIN m[p].figli : m[p].figli[i] = r}
           F(p) == {p} \X I(p)
           f == [p \in Res |-> F(p)]
           T == {F(p) : p \in Res}
<1>0. \A p \in Res : m[p].figli \in Seq(Res)
  BY DEF Memory, ResDescr
<1>1. ASSUME NEW p \in Res
      PROVE  IsFiniteSet(F(p)) /\ Cardinality(F(p)) = Occurrences(m[p].figli, r)
  <2>1. IsFiniteSet(I(p))
    BY <1>0, OccurrencesType
  <2>2. Cardinality(I(p)) = Occurrences(m[p].figli, r)
    BY DEF Occurrences
  <2>3. IsFiniteSet({p}) /\ Cardinality({p}) = 1
    BY FS_Singleton
  <2>4. Cardinality(I(p)) \in Nat
    BY <2>1, FS_CardinalityType
  <2> HIDE DEF I
  <2>5. IsFiniteSet({p} \X I(p)) /\ Cardinality({p} \X I(p)) = Cardinality({p}) * Cardinality(I(p))
    BY <2>1, <2>3, FS_Product
  <2>6. Cardinality({p}) * Cardinality(I(p)) = Cardinality(I(p))
    BY <2>3, <2>4
  <2> QED
    BY <2>2, <2>5, <2>6
<1>2. Links(m, r) = UNION T
  BY DEF Links
<1>3. ASSUME NEW p \in Res PROVE F(p) = {} <=> r \notin Range(m[p].figli)
  <2>1. I(p) = {} <=> r \notin Range(m[p].figli)
    BY DEF Range
  <2> HIDE DEF I
  <2>2. \A i \in I(p) : <<p, i>> \in F(p)
    OBVIOUS
  <2>3. \A x \in F(p) : x[2] \in I(p)
    OBVIOUS
  <2> QED
    BY <2>1, <2>2, <2>3
<1> HIDE DEF F
<1>4. IsFiniteSet(T)
  <2>1. f \in Surjection(Res, T)
    <3>1. f \in [Res -> T] /\ \A t \in T : \E p \in Res : f[p] = t
      OBVIOUS
    <3> QED
      BY <3>1 DEF Surjection
  <2> QED
    BY <2>1, GraphAssumption, FS_Surjection
<1>5. \A t \in T : IsFiniteSet(t)
  BY <1>1
<1>6. IsFiniteSet(UNION T)
  <2> HIDE DEF T
  <2> QED
    BY <1>4, <1>5, FS_UNION
<1>7. IsFiniteSet(Links(m, r)) /\ Cardinality(Links(m, r)) \in Nat
  BY <1>2, <1>6, FS_CardinalityType
<1>8. Cardinality(Links(m, r)) = 0 <=> Links(m, r) = {}
  BY <1>7, FS_EmptySet
<1>9. Links(m, r) = {} <=> \A p \in Res : F(p) = {}
  BY <1>2
<1>10. ASSUME NEW p \in Res PROVE Occurrences(m[p].figli, r) <= Cardinality(Links(m, r))
  <2>1. F(p) \in SUBSET Links(m, r)
    BY <1>2
  <2>2. Cardinality(F(p)) <= Cardinality(Links(m, r))
    BY <2>1, <1>7, FS_Subset
  <2> QED
    BY <2>2, <1>1
<1> QED
  BY <1>3, <1>7, <1>8, <1>9, <1>10

(* The count of links changes by what changes on one list.                 *)
LEMMA LinksChange ==
  ASSUME NEW m1 \in Memory, NEW m2 \in Memory, NEW p \in Res, NEW r,
         \A q \in Res : q # p => m2[q].figli = m1[q].figli
  PROVE  Cardinality(Links(m2, r)) + Occurrences(m1[p].figli, r)
           = Cardinality(Links(m1, r)) + Occurrences(m2[p].figli, r)
<1> DEFINE B == UNION {{q} \X {i \in DOMAIN m1[q].figli : m1[q].figli[i] = r} : q \in Res \ {p}}
           I(m) == {i \in DOMAIN m[p].figli : m[p].figli[i] = r}
<1>1. ASSUME NEW m \in Memory, Links(m, r) = B \union ({p} \X I(m))
      PROVE  Cardinality(Links(m, r)) = Cardinality(B) + Occurrences(m[p].figli, r) /\ Cardinality(B) \in Nat
  <2>0. m[p].figli \in Seq(Res)
    BY DEF Memory, ResDescr
  <2>1. IsFiniteSet(I(m))
    BY <2>0, OccurrencesType
  <2>2. Cardinality(I(m)) = Occurrences(m[p].figli, r)
    BY DEF Occurrences
  <2>3. IsFiniteSet({p}) /\ Cardinality({p}) = 1
    BY FS_Singleton
  <2>4. Cardinality(I(m)) \in Nat
    BY <2>1, FS_CardinalityType
  <2>5. B \intersect ({p} \X I(m)) = {}
    OBVIOUS
  <2>6. IsFiniteSet(B)
    BY <1>1, LinksType, FS_Subset
  <2> HIDE DEF I, B
  <2>7. IsFiniteSet({p} \X I(m)) /\ Cardinality({p} \X I(m)) = Cardinality({p}) * Cardinality(I(m))
    BY <2>1, <2>3, FS_Product
  <2>8. Cardinality({p}) * Cardinality(I(m)) = Cardinality(I(m))
    BY <2>3, <2>4
  <2>9. Cardinality(B \union ({p} \X I(m))) = Cardinality(B) + Cardinality({p} \X I(m)) - Cardinality({})
    BY <2>5, <2>6, <2>7, FS_Union
  <2>10. Cardinality({}) = 0 /\ Cardinality(B) \in Nat
    BY <2>6, FS_EmptySet, FS_CardinalityType
  <2> QED
    BY <1>1, <2>2, <2>4, <2>7, <2>8, <2>9, <2>10
<1>2. Links(m1, r) = B \union ({p} \X I(m1))
  BY DEF Links
<1>3. Links(m2, r) = B \union ({p} \X I(m2))
  BY DEF Links
<1> HIDE DEF B
<1>4. /\ Cardinality(Links(m1, r)) = Cardinality(B) + Occurrences(m1[p].figli, r)
      /\ Cardinality(Links(m2, r)) = Cardinality(B) + Occurrences(m2[p].figli, r)
      /\ Cardinality(B) \in Nat
  BY <1>1, <1>2, <1>3
<1>5. Occurrences(m1[p].figli, r) \in Nat /\ Occurrences(m2[p].figli, r) \in Nat
  BY OccurrencesType DEF Memory, ResDescr
<1> QED
  BY <1>4, <1>5

-----------------------------------------------------------------------------
(* Sound memories.  base says how many references to each descriptor do    *)
(* not come from a list of children: handles and loads.                    *)

Counts(m, r) == Cardinality(Links(m, r))

RefsExact(m, base) == \A r \in Res : Known(m, r) => m[r].ref = base[r] + Counts(m, r)

FreeUnused(m, base) ==
  \A r \in Res : ~Known(m, r) =>
    /\ m[r].ref = 0 /\ m[r].padri = <<>> /\ m[r].figli = <<>>
    /\ base[r] = 0 /\ Counts(m, r) = 0

(* Who takes p for a parent is its child, as often.                        *)
ParentsShow(m) == \A p, c \in Res : Occurrences(m[c].padri, p) <= Occurrences(m[p].figli, c)

Layered(m) == \A p \in Res : \A c \in Range(m[p].figli) : Layer[c] < Layer[p]

Sound(m, base) ==
  /\ m \in Memory /\ base \in [Res -> Nat]
  /\ RefsExact(m, base) /\ FreeUnused(m, base) /\ ParentsShow(m) /\ Layered(m)

More(base, r) == [base EXCEPT ![r] = @ + 1]
Fewer(base, r) == [base EXCEPT ![r] = @ - 1]

LEMMA CountsType ==
  ASSUME NEW m \in Memory, NEW r
  PROVE  /\ Counts(m, r) \in Nat
         /\ \A p \in Res : Occurrences(m[p].figli, r) <= Counts(m, r)
         /\ \A p \in Res : r \in Range(m[p].figli) => Counts(m, r) > 0
<1>1. /\ Cardinality(Links(m, r)) \in Nat
      /\ Cardinality(Links(m, r)) = 0 <=> \A p \in Res : r \notin Range(m[p].figli)
      /\ \A p \in Res : Occurrences(m[p].figli, r) <= Cardinality(Links(m, r))
  BY LinksType
<1> QED
  BY <1>1 DEF Counts

LEMMA ListsType ==
  ASSUME NEW m \in Memory, NEW r \in Res
  PROVE  /\ m[r].padri \in Seq(Res) /\ m[r].figli \in Seq(Res) /\ m[r].status \in Status /\ m[r].ref \in Int
         /\ \A x : Occurrences(m[r].padri, x) \in Nat /\ Occurrences(m[r].figli, x) \in Nat
<1>1. m[r].padri \in Seq(Res) /\ m[r].figli \in Seq(Res) /\ m[r].status \in Status /\ m[r].ref \in Int
  BY DEF Memory, ResDescr
<1>2. \A x : Occurrences(m[r].padri, x) \in Nat /\ Occurrences(m[r].figli, x) \in Nat
  BY <1>1, OccurrencesType
<1> QED
  BY <1>1, <1>2

(* Children and parents of a sound memory exist, and so does whoever is    *)
(* referred to from outside.                                               *)
LEMMA SoundKnows ==
  ASSUME NEW m, NEW base, Sound(m, base), NEW r \in Res
  PROVE  /\ base[r] > 0 => Known(m, r)
         /\ Counts(m, r) > 0 => Known(m, r)
         /\ \A p \in Res : r \in Range(m[p].figli) => Known(m, r) /\ Known(m, p)
         /\ \A p \in Res : p \in Range(m[r].padri) => Known(m, r) /\ Known(m, p) /\ r \in Range(m[p].figli)
<1>1. m \in Memory /\ base \in [Res -> Nat]
  BY DEF Sound
<1>2. ~Known(m, r) => base[r] = 0 /\ Counts(m, r) = 0 /\ m[r].padri = <<>>
  BY DEF Sound, FreeUnused
<1>3. Range(<<>>) = {}
  BY DEF Range
<1>4. ASSUME NEW p \in Res, r \in Range(m[p].figli) PROVE Known(m, r) /\ Known(m, p)
  <2>1. Counts(m, r) > 0
    BY <1>1, <1>4, CountsType
  <2>2. m[p].figli # <<>>
    BY <1>3, <1>4
  <2>3. Known(m, p)
    BY <2>2 DEF Sound, FreeUnused
  <2> QED
    BY <2>1, <2>3, <1>2
<1>5. ASSUME NEW p \in Res, p \in Range(m[r].padri) PROVE r \in Range(m[p].figli)
  <2>1. Occurrences(m[r].padri, p) > 0
    BY <1>1, <1>5, ListsType, OccurrencesType
  <2>2. Occurrences(m[r].padri, p) <= Occurrences(m[p].figli, r)
    BY DEF Sound, ParentsShow
  <2>a. Occurrences(m[r].padri, p) \in Nat /\ Occurrences(m[p].figli, r) \in Nat
    BY <1>1, ListsType
  <2>3. Occurrences(m[p].figli, r) > 0
    BY <2>1, <2>2, <2>a
  <2> QED
    BY <2>3, <1>1, ListsType, OccurrencesType
<1> QED
  BY <1>1, <1>2, <1>4, <1>5

(* What keeps the lists of children keeps the counts.                      *)
LEMMA SameCounts ==
  ASSUME NEW m1, NEW m2, \A p \in Res : m2[p].figli = m1[p].figli, NEW r
  PROVE  Counts(m2, r) = Counts(m1, r)
<1>1. Links(m2, r) = Links(m1, r)
  BY DEF Links
<1> QED
  BY <1>1 DEF Counts

LEMMA SoundSame ==
  ASSUME NEW m, NEW base, Sound(m, base), NEW m2, SameButCounts(m, m2)
  PROVE  Sound(m2, base) /\ \A r \in Res : Known(m2, r) <=> Known(m, r)
<1>1. \A r \in Res : Known(m2, r) <=> Known(m, r)
  BY DEF SameButCounts, Known
<1>2. \A r \in Res : Counts(m2, r) = Counts(m, r)
  BY SameCounts DEF SameButCounts
<1>3. RefsExact(m2, base)
  BY <1>1, <1>2 DEF Sound, RefsExact, SameButCounts
<1>4. FreeUnused(m2, base)
  BY <1>1, <1>2 DEF Sound, FreeUnused, SameButCounts
<1>5. ParentsShow(m2)
  BY DEF Sound, ParentsShow, SameButCounts
<1>6. Layered(m2)
  BY DEF Sound, Layered, SameButCounts
<1> QED
  BY <1>1, <1>3, <1>4, <1>5, <1>6 DEF Sound, SameButCounts

(* A reference more, or one less.                                          *)
LEMMA SoundRef ==
  ASSUME NEW m, NEW base, Sound(m, base), NEW r \in Res, Known(m, r),
         NEW d \in Int, base[r] + d >= 0
  PROVE  Sound([m EXCEPT ![r].ref = @ + d], [base EXCEPT ![r] = @ + d])
<1>0. m \in Memory /\ base \in [Res -> Nat]
  BY DEF Sound
<1> DEFINE n == [m EXCEPT ![r].ref = @ + d]
           b == [base EXCEPT ![r] = @ + d]
<1>1. /\ n \in Memory
      /\ \A q \in Res : /\ n[q].status = m[q].status /\ n[q].figli = m[q].figli /\ n[q].padri = m[q].padri
                        /\ n[q].ref = IF q = r THEN m[q].ref + d ELSE m[q].ref
  <2>1. \A q \in Res : m[q] \in ResDescr
    BY <1>0 DEF Memory
  <2>2. PICK k \in Int : k = m[r].ref + d
    BY <2>1 DEF ResDescr
  <2>3. n = [m EXCEPT ![r].ref = k]
    BY <2>2
  <2> HIDE DEF n
  <2>4. n \in Memory
    BY <1>0, <2>1, <2>3 DEF Memory, ResDescr
  <2>5. \A q \in Res : /\ n[q].status = m[q].status /\ n[q].figli = m[q].figli /\ n[q].padri = m[q].padri
                        /\ n[q].ref = IF q = r THEN k ELSE m[q].ref
    BY <1>0, <2>1, <2>3 DEF Memory, ResDescr
  <2> QED
    BY <2>2, <2>4, <2>5
<1>2. b \in [Res -> Nat] /\ \A q \in Res : b[q] = IF q = r THEN base[q] + d ELSE base[q]
  BY <1>0
<1> HIDE DEF n, b
<1>3. \A q \in Res : (Known(n, q) <=> Known(m, q)) /\ Counts(n, q) = Counts(m, q) /\ Counts(m, q) \in Nat
  BY <1>0, <1>1, SameCounts, CountsType DEF Known
<1>4. RefsExact(n, b)
  <2>1. ASSUME NEW q \in Res, Known(m, q) PROVE n[q].ref = b[q] + Counts(m, q)
    <3>1. m[q].ref = base[q] + Counts(m, q) /\ base[q] \in Nat
      BY <2>1, <1>0 DEF Sound, RefsExact
    <3> QED
      BY <3>1, <1>1, <1>2, <1>3
  <2> QED
    BY <2>1, <1>3 DEF RefsExact
<1>5. FreeUnused(n, b)
  <2>1. \A q \in Res : ~Known(n, q) => q # r /\ ~Known(m, q)
    BY <1>3
  <2> QED
    BY <2>1, <1>1, <1>2, <1>3 DEF Sound, FreeUnused
<1>6. ParentsShow(n) /\ Layered(n)
  BY <1>1 DEF Sound, ParentsShow, Layered
<1> QED
  BY <1>1, <1>2, <1>4, <1>5, <1>6 DEF Sound, n, b

LEMMA SoundInc ==
  ASSUME NEW m, NEW base, Sound(m, base), NEW r \in Res, Known(m, r)
  PROVE  /\ Sound(IncRefCount(m, r), More(base, r))
         /\ \A q \in Res : /\ IncRefCount(m, r)[q].status = m[q].status
                           /\ IncRefCount(m, r)[q].figli = m[q].figli
                           /\ IncRefCount(m, r)[q].notReady = m[q].notReady
                           /\ IncRefCount(m, r)[q].ref = IF q = r THEN m[q].ref + 1 ELSE m[q].ref
<1>1. base \in [Res -> Nat] /\ m \in Memory
  BY DEF Sound
<1>2. base[r] + 1 >= 0
  BY <1>1
<1>3. Sound([m EXCEPT ![r].ref = @ + 1], [base EXCEPT ![r] = @ + 1])
  BY <1>2, SoundRef
<1> QED
  BY <1>1, <1>3 DEF IncRefCount, More, Memory, ResDescr

LEMMA SoundDec ==
  ASSUME NEW m, NEW base, Sound(m, base), NEW r \in Res, base[r] > 0
  PROVE  /\ Sound(DecRefCount(m, r), Fewer(base, r))
         /\ DecRefCount(m, r)[r].ref = m[r].ref - 1
         /\ \A q \in Res : /\ DecRefCount(m, r)[q].status = m[q].status
                           /\ DecRefCount(m, r)[q].figli = m[q].figli
                           /\ DecRefCount(m, r)[q].notReady = m[q].notReady
                           /\ q # r => DecRefCount(m, r)[q].ref = m[q].ref
<1>1. base \in [Res -> Nat] /\ m \in Memory
  BY DEF Sound
<1>2. base[r] + -1 >= 0 /\ -1 \in Int
  BY <1>1
<1>3. Sound([m EXCEPT ![r].ref = @ + -1], [base EXCEPT ![r] = @ + -1])
  BY <1>2, SoundRef, SoundKnows
<1>4. m[r].ref + -1 = m[r].ref - 1 /\ base[r] + -1 = base[r] - 1
  BY <1>1 DEF Memory, ResDescr
<1>5. [m EXCEPT ![r].ref = @ + -1] = DecRefCount(m, r) /\ [base EXCEPT ![r] = @ + -1] = Fewer(base, r)
  BY <1>4 DEF DecRefCount, Fewer
<1>6. /\ DecRefCount(m, r)[r].ref = m[r].ref - 1
      /\ \A q \in Res : /\ DecRefCount(m, r)[q].status = m[q].status
                        /\ DecRefCount(m, r)[q].figli = m[q].figli
                        /\ DecRefCount(m, r)[q].notReady = m[q].notReady
                        /\ q # r => DecRefCount(m, r)[q].ref = m[q].ref
  BY <1>1 DEF DecRefCount, Memory, ResDescr
<1> QED
  BY <1>3, <1>5, <1>6

(* A known descriptor changes its status and stays known.                  *)
LEMMA SoundStatus ==
  ASSUME NEW m, NEW base, Sound(m, base), NEW r \in Res, Known(m, r),
         NEW s \in Status \ {"free"}
  PROVE  /\ Sound(ChangeState(m, r, s), base)
         /\ \A q \in Res : /\ ChangeState(m, r, s)[q].status = IF q = r THEN s ELSE m[q].status
                           /\ ChangeState(m, r, s)[q].figli = m[q].figli
                           /\ ChangeState(m, r, s)[q].ref = m[q].ref
<1>0. m \in Memory
  BY DEF Sound
<1> DEFINE n == [m EXCEPT ![r].status = s]
<1>1. /\ n \in Memory
      /\ \A q \in Res : /\ n[q].status = IF q = r THEN s ELSE m[q].status
                        /\ n[q].figli = m[q].figli /\ n[q].padri = m[q].padri /\ n[q].ref = m[q].ref
  BY <1>0 DEF Memory, ResDescr
<1>2. SameButCounts(n, ChangeState(m, r, s))
  BY <1>0, ChangeStateIs
<1> HIDE DEF n
<1>3. \A q \in Res : (Known(n, q) <=> Known(m, q)) /\ Counts(n, q) = Counts(m, q)
  BY <1>1, SameCounts DEF Known
<1>4. RefsExact(n, base) /\ FreeUnused(n, base)
  BY <1>1, <1>3 DEF Sound, RefsExact, FreeUnused
<1>5. ParentsShow(n) /\ Layered(n)
  BY <1>1 DEF Sound, ParentsShow, Layered
<1>6. Sound(n, base)
  BY <1>1, <1>4, <1>5 DEF Sound
<1>7. Sound(ChangeState(m, r, s), base)
  BY <1>2, <1>6, SoundSame
<1>8. \A q \in Res : /\ ChangeState(m, r, s)[q].status = n[q].status
                     /\ ChangeState(m, r, s)[q].figli = n[q].figli
                     /\ ChangeState(m, r, s)[q].ref = n[q].ref
  BY <1>2 DEF SameButCounts
<1> QED
  BY <1>1, <1>7, <1>8

(* A slot is handed out.                                                   *)
LEMMA SoundNew ==
  ASSUME NEW m, NEW base, Sound(m, base), NEW r \in Res, ~Known(m, r),
         NEW s \in Status \ {"free"}
  PROVE  /\ Sound([m EXCEPT ![r] = Reserved(s)], More(base, r))
         /\ [m EXCEPT ![r] = Reserved(s)][r] = Reserved(s)
         /\ \A q \in Res : q # r => [m EXCEPT ![r] = Reserved(s)][q] = m[q]
<1>0. m \in Memory /\ base \in [Res -> Nat]
  BY DEF Sound
<1> DEFINE n == [m EXCEPT ![r] = Reserved(s)]
           b == More(base, r)
<1>1. /\ Reserved(s).status = s /\ Reserved(s).ref = 1
      /\ Reserved(s).padri = <<>> /\ Reserved(s).figli = <<>>
  BY DEF Reserved, FreeSlot
<1>2. Reserved(s) \in ResDescr
  <2>1. 0 \in 0..NotReadyMod - 1
    BY GraphAssumption
  <2>2. <<>> \in Seq(Res)
    OBVIOUS
  <2>3. FreeSlot \in ResDescr
    BY <2>1, <2>2 DEF FreeSlot, ResDescr, Status
  <2>4. s \in Status /\ 1 \in Int
    OBVIOUS
  <2>5. [FreeSlot EXCEPT !.status = s] \in ResDescr
    BY <2>3, <2>4 DEF ResDescr
  <2>6. Reserved(s) = [[FreeSlot EXCEPT !.status = s] EXCEPT !.ref = 1]
    BY DEF Reserved
  <2> QED
    BY <2>4, <2>5, <2>6 DEF ResDescr
<1>3. n \in Memory /\ n[r] = Reserved(s) /\ \A q \in Res : q # r => n[q] = m[q]
  BY <1>0, <1>2 DEF Memory
<1>4. b \in [Res -> Nat] /\ \A q \in Res : b[q] = IF q = r THEN base[q] + 1 ELSE base[q]
  BY <1>0 DEF More
<1>5. m[r].ref = 0 /\ m[r].padri = <<>> /\ m[r].figli = <<>> /\ base[r] = 0 /\ Counts(m, r) = 0
  BY DEF Sound, FreeUnused
<1> HIDE DEF n, b
<1>6. \A q \in Res : n[q].figli = m[q].figli /\ n[q].padri = m[q].padri
  BY <1>1, <1>3, <1>5
<1>7. \A q \in Res : Counts(n, q) = Counts(m, q)
  BY <1>6, SameCounts
<1>8. \A q \in Res : Known(n, q) <=> q = r \/ Known(m, q)
  BY <1>1, <1>3 DEF Known
<1>9. RefsExact(n, b)
  <2>1. n[r].ref = b[r] + Counts(n, r)
    BY <1>1, <1>3, <1>4, <1>5, <1>7
  <2>2. \A q \in Res : q # r /\ Known(m, q) => n[q].ref = b[q] + Counts(n, q)
    BY <1>3, <1>4, <1>7 DEF Sound, RefsExact
  <2> QED
    BY <2>1, <2>2, <1>8 DEF RefsExact
<1>10. FreeUnused(n, b)
  BY <1>3, <1>4, <1>7, <1>8 DEF Sound, FreeUnused
<1>11. ParentsShow(n) /\ Layered(n)
  BY <1>6 DEF Sound, ParentsShow, Layered
<1> QED
  BY <1>3, <1>4, <1>9, <1>10, <1>11 DEF Sound, n, b

(* m2 is m but for the children of p and the parents of c.                 *)
Relinks(m, m2, p, c) ==
  /\ m2 \in Memory
  /\ \A q \in Res : /\ m2[q].status = m[q].status /\ m2[q].ref = m[q].ref
                    /\ q # p => m2[q].figli = m[q].figli
                    /\ q # c => m2[q].padri = m[q].padri

(* A reference of the caller becomes the entry on the list of p.           *)
LEMMA SoundAddChild ==
  ASSUME NEW m, NEW base, Sound(m, base), NEW p \in Res, NEW c \in Res,
         Known(m, p), base[c] > 0, Layer[c] < Layer[p]
  PROVE  /\ Sound(AddChild(m, p, c), Fewer(base, c))
         /\ \A q \in Res : /\ AddChild(m, p, c)[q].status = m[q].status
                           /\ AddChild(m, p, c)[q].ref = m[q].ref
                           /\ AddChild(m, p, c)[q].figli = IF q = p THEN <<c>> \o m[q].figli ELSE m[q].figli
<1>0. m \in Memory /\ base \in [Res -> Nat] /\ p # c /\ Known(m, c)
  <2>1. Layer \in [Res -> 0..Depth - 1] /\ Depth \in Nat
    BY LayerAssumption, GraphAssumption
  <2>2. Layer[c] \in Int /\ Layer[p] \in Int
    BY <2>1
  <2> QED
    BY <2>2, SoundKnows DEF Sound
<1> DEFINE n == [m EXCEPT ![p].figli = <<c>> \o @, ![c].padri = <<p>> \o @]
           b == Fewer(base, c)
<1>1. PICK f, g : f = <<c>> \o m[p].figli /\ g = <<p>> \o m[c].padri
  OBVIOUS
<1>2. m[p].figli \in Seq(Res) /\ m[c].padri \in Seq(Res)
  BY <1>0, ListsType
<1>3. /\ f \in Seq(Res) /\ Range(f) = Range(m[p].figli) \union {c}
      /\ \A x : Occurrences(f, x) = Occurrences(m[p].figli, x) + (IF c = x THEN 1 ELSE 0)
  BY <1>1, <1>2, OneMoreInFront
<1>4. /\ g \in Seq(Res)
      /\ \A x : Occurrences(g, x) = Occurrences(m[c].padri, x) + (IF p = x THEN 1 ELSE 0)
  <2>1. PICK l \in Seq(Res) : l = m[c].padri
    BY <1>2
  <2>2. /\ <<p>> \o l \in Seq(Res)
        /\ \A x : Occurrences(<<p>> \o l, x) = Occurrences(l, x) + (IF p = x THEN 1 ELSE 0)
    BY OneMoreInFront
  <2> QED
    BY <1>1, <2>1, <2>2
<1>5. n = [m EXCEPT ![p].figli = f, ![c].padri = g]
  BY <1>0, <1>1
<1>6. Relinks(m, n, p, c) /\ n[p].figli = f /\ n[c].padri = g
  <2> HIDE DEF n
  <2>1. \A q \in Res : m[q] \in ResDescr
    BY <1>0 DEF Memory
  <2>2. n \in Memory
    BY <1>0, <1>3, <1>4, <1>5, <2>1 DEF Memory, ResDescr
  <2>3. /\ n[p].figli = f /\ n[c].padri = g
        /\ \A q \in Res : /\ n[q].status = m[q].status /\ n[q].ref = m[q].ref
                          /\ q # p => n[q].figli = m[q].figli
                          /\ q # c => n[q].padri = m[q].padri
    BY <1>0, <1>5, <2>1 DEF Memory, ResDescr
  <2> QED
    BY <2>2, <2>3 DEF Relinks
<1>7. b \in [Res -> Nat] /\ \A q \in Res : b[q] = IF q = c THEN base[q] - 1 ELSE base[q]
  BY <1>0 DEF Fewer
<1>n. /\ AddChild(m, p, c) \in {n, InformNotReady[Depth][<<n, p>>]}
  BY DEF AddChild
<1> HIDE DEF n, b
<1>8. \A q \in Res : Known(n, q) <=> Known(m, q)
  BY <1>6 DEF Relinks, Known
<1>9. ASSUME NEW q \in Res PROVE Counts(n, q) = Counts(m, q) + (IF q = c THEN 1 ELSE 0)
  <2>1. Cardinality(Links(n, q)) + Occurrences(m[p].figli, q) = Cardinality(Links(m, q)) + Occurrences(n[p].figli, q)
    BY <1>0, <1>6, LinksChange DEF Relinks
  <2>2. Counts(m, q) \in Nat /\ Counts(n, q) \in Nat /\ Occurrences(m[p].figli, q) \in Nat
    BY <1>0, <1>6, CountsType, ListsType DEF Relinks
  <2>3. Occurrences(n[p].figli, q) = Occurrences(m[p].figli, q) + (IF c = q THEN 1 ELSE 0)
    BY <1>3, <1>6
  <2> QED
    BY <2>1, <2>2, <2>3 DEF Counts
<1>10. RefsExact(n, b)
  <2>1. ASSUME NEW q \in Res, Known(m, q) PROVE n[q].ref = b[q] + Counts(n, q)
    <3>1. n[q].ref = m[q].ref /\ m[q].ref = base[q] + Counts(m, q) /\ base[q] \in Nat /\ Counts(m, q) \in Nat
      BY <2>1, <1>0, <1>6, CountsType DEF Sound, RefsExact, Relinks
    <3> QED
      BY <3>1, <1>7, <1>9
  <2> QED
    BY <2>1, <1>8 DEF RefsExact
<1>11. FreeUnused(n, b)
  <2>1. ASSUME NEW q \in Res, ~Known(n, q)
        PROVE  n[q].ref = 0 /\ n[q].padri = <<>> /\ n[q].figli = <<>> /\ b[q] = 0 /\ Counts(n, q) = 0
    <3>1. ~Known(m, q) /\ q # c /\ q # p
      BY <2>1, <1>0, <1>8
    <3>2. m[q].ref = 0 /\ m[q].padri = <<>> /\ m[q].figli = <<>> /\ base[q] = 0 /\ Counts(m, q) = 0
      BY <3>1 DEF Sound, FreeUnused
    <3> QED
      BY <3>1, <3>2, <1>6, <1>7, <1>9 DEF Relinks
  <2> QED
    BY <2>1 DEF FreeUnused
<1>12. ParentsShow(n)
  <2>1. ASSUME NEW x \in Res, NEW y \in Res
        PROVE  Occurrences(n[y].padri, x) <= Occurrences(n[x].figli, y)
    <3>1. Occurrences(m[y].padri, x) <= Occurrences(m[x].figli, y)
      BY DEF Sound, ParentsShow
    <3>2. Occurrences(m[y].padri, x) \in Nat /\ Occurrences(m[x].figli, y) \in Nat
      BY <1>0, ListsType
    <3>3. Occurrences(n[y].padri, x) = Occurrences(m[y].padri, x) + (IF y = c /\ x = p THEN 1 ELSE 0)
      BY <1>4, <1>6, <3>2 DEF Relinks
    <3>4. Occurrences(n[x].figli, y) = Occurrences(m[x].figli, y) + (IF y = c /\ x = p THEN 1 ELSE 0)
      BY <1>3, <1>6, <3>2 DEF Relinks
    <3> QED
      BY <3>1, <3>2, <3>3, <3>4
  <2> QED
    BY <2>1 DEF ParentsShow
<1>13. Layered(n)
  BY <1>3, <1>6 DEF Sound, Layered, Relinks
<1>14. Sound(n, b)
  BY <1>6, <1>7, <1>10, <1>11, <1>12, <1>13 DEF Sound, Relinks
<1>15. n \in Memory
  BY <1>6 DEF Relinks
<1>16. SameButCounts(n, AddChild(m, p, c))
  <2>1. SameButCounts(n, n) /\ SameButCounts(n, InformNotReady[Depth][<<n, p>>])
    BY <1>15, InformNotReadyInforms DEF SameButCounts, Informs
  <2> QED
    BY <2>1, <1>n
<1>17. Sound(AddChild(m, p, c), b)
  BY <1>14, <1>16, SoundSame
<1> QED
  BY <1>1, <1>6, <1>16, <1>17 DEF b, Relinks, SameButCounts

(* The entry on the list of p becomes a reference of the caller.           *)
LEMMA RemoveChildIs ==
  ASSUME NEW m \in Memory, NEW p \in Res, NEW c \in Range(m[p].figli)
  PROVE  \E n : /\ c \in Res /\ n = RemoveChild(m, p, c) /\ Relinks(m, n, p, c)
                /\ n[p].figli = RemoveFirst(m[p].figli, c)
                /\ \A x : Occurrences(n[c].padri, x) <= Occurrences(m[c].padri, x)
                /\ Occurrences(n[c].padri, p) = 0 \/ Occurrences(n[c].padri, p) + 1 <= Occurrences(m[c].padri, p)
<1>1. PICK f : f = RemoveFirst(m[p].figli, c)
  OBVIOUS
<1>0. c \in Res
  BY ListsType DEF Range
<1>2. m[p].figli \in Seq(Res) /\ m[c].padri \in Seq(Res)
  BY <1>0, ListsType
<1>3. f \in Seq(Res)
  <2>1. PICK l \in Seq(Res) : l = m[p].figli
    BY <1>2
  <2> QED
    BY <1>1, <2>1, FirstRemoved
<1>4. PICK k : k = IF IsReady(m, c) THEN m[p].notReady ELSE (m[p].notReady + NotReadyMod - 1) % NotReadyMod
  OBVIOUS
<1>5. \A q \in Res : m[q] \in ResDescr
  BY DEF Memory
<1>6. k \in 0..NotReadyMod - 1
  <2>1. NotReadyMod \in Nat \ {0} /\ m[p].notReady \in 0..NotReadyMod - 1
    BY <1>5, GraphAssumption DEF ResDescr
  <2>2. m[p].notReady + NotReadyMod - 1 \in Nat
    BY <2>1
  <2>3. PICK j \in Nat : j = m[p].notReady + NotReadyMod - 1
    BY <2>2
  <2>4. j % NotReadyMod \in 0..NotReadyMod - 1
    BY <2>1
  <2> QED
    BY <1>4, <2>1, <2>3, <2>4
<1> DEFINE u == [m EXCEPT ![p].figli = f, ![p].notReady = k]
<1>7. u \in Memory
  BY <1>3, <1>5, <1>6 DEF Memory, ResDescr
<1>8. /\ u[p].figli = f /\ u[c].padri = m[c].padri
      /\ \A q \in Res : /\ u[q].status = m[q].status /\ u[q].ref = m[q].ref
                        /\ q # p => u[q].figli = m[q].figli
                        /\ u[q].padri = m[q].padri
  BY <1>0, <1>5 DEF Memory, ResDescr
<1>9. u = [m EXCEPT ![p].figli = RemoveFirst(@, c),
                    ![p].notReady = IF IsReady(m, c) THEN @ ELSE (@ + NotReadyMod - 1) % NotReadyMod]
  BY <1>1, <1>4
<1>t. \A x : Occurrences(m[c].padri, x) \in Nat
  BY <1>0, ListsType
<1> HIDE DEF u
<1>10. CASE p \notin Range(m[c].padri)
  <2>1. RemoveChild(m, p, c) = u
    BY <1>9, <1>10 DEF RemoveChild
  <2>2. Occurrences(u[c].padri, p) = 0
    <3>1. PICK l \in Seq(Res) : l = m[c].padri
      BY <1>2
    <3>2. Occurrences(l, p) \in Nat /\ ~(Occurrences(l, p) > 0)
      BY <3>1, <1>10, OccurrencesType
    <3> QED
      BY <3>1, <3>2, <1>8
  <2>3. \A x : Occurrences(u[c].padri, x) <= Occurrences(m[c].padri, x)
    BY <1>8, <1>t
  <2> QED
    BY <2>1, <2>2, <2>3, <1>0, <1>1, <1>7, <1>8 DEF Relinks
<1>11. CASE p \in Range(m[c].padri)
  <2>1. PICK t \in Seq(Res) :
           /\ t = SubSeq(m[c].padri, Min({j \in 1..Len(m[c].padri) : m[c].padri[j] = p}) + 1, Len(m[c].padri))
           /\ {j \in 1..Len(m[c].padri) : m[c].padri[j] = p} # {}
           /\ \A x : Occurrences(t, x) + (IF p = x THEN 1 ELSE 0) <= Occurrences(m[c].padri, x)
    <3>1. PICK l \in Seq(Res) : l = m[c].padri
      BY <1>2
    <3>2. p \in Range(l)
      BY <3>1, <1>11
    <3>3. \E t \in Seq(Res) :
             /\ t = SubSeq(l, Min({j \in 1..Len(l) : l[j] = p}) + 1, Len(l))
             /\ {j \in 1..Len(l) : l[j] = p} # {}
             /\ \A x : Occurrences(t, x) + (IF p = x THEN 1 ELSE 0) <= Occurrences(l, x)
      BY <3>2, RestAfter, Zenon
    <3> QED
      BY <3>1, <3>3, Zenon
  <2> DEFINE n == [u EXCEPT ![c].padri = t]
  <2>2. n \in Memory
    BY <1>7 DEF Memory, ResDescr
  <2>3. n[c].padri = t /\ n[p].figli = f /\ Relinks(m, n, p, c)
    <3>1. \A q \in Res : u[q] \in ResDescr
      BY <1>7 DEF Memory
    <3>2. /\ n[c].padri = t /\ n[p].figli = u[p].figli
          /\ \A q \in Res : /\ n[q].status = u[q].status /\ n[q].ref = u[q].ref
                            /\ n[q].figli = u[q].figli
                            /\ q # c => n[q].padri = u[q].padri
      BY <3>1, <1>0, <1>7 DEF Memory, ResDescr
    <3> QED
      BY <3>2, <2>2, <1>8 DEF Relinks
  <2>4. n = [u EXCEPT ![c].padri =
               SubSeq(@, Min({j \in 1..Len(@) : @[j] = p}) + 1, Len(@))]
    BY <2>1, <1>0, <1>8
  <2>5. {j \in 1..Len(u[c].padri) : u[c].padri[j] = p} # {}
    BY <2>1, <1>8
  <2> HIDE DEF n
  <2>6. RemoveChild(m, p, c) = n
    BY <2>4, <2>5, <1>9, <1>11 DEF RemoveChild, SelectInSeq
  <2>7. \A x : Occurrences(t, x) <= Occurrences(m[c].padri, x)
    <3> TAKE x
    <3>1. Occurrences(t, x) + (IF p = x THEN 1 ELSE 0) <= Occurrences(m[c].padri, x)
      BY <2>1
    <3>2. Occurrences(t, x) \in Nat
      BY OccurrencesType
    <3> QED
      BY <3>1, <3>2, <1>t
  <2>8. Occurrences(t, p) + 1 <= Occurrences(m[c].padri, p)
    <3>1. Occurrences(t, p) + (IF p = p THEN 1 ELSE 0) <= Occurrences(m[c].padri, p)
      BY <2>1
    <3> QED
      BY <3>1
  <2> QED
    BY <2>3, <2>6, <2>7, <2>8, <1>0, <1>1
<1> QED
  BY <1>10, <1>11

LEMMA Below ==
  ASSUME NEW m, NEW base, Sound(m, base), NEW p \in Res, NEW c \in Range(m[p].figli)
  PROVE  /\ c \in Res /\ c # p /\ Layer[c] < Layer[p]
         /\ Layer[c] \in Nat /\ Layer[p] \in Nat /\ Known(m, c) /\ Known(m, p)
<1>1. m[p].figli \in Seq(Res)
  BY ListsType DEF Sound
<1>2. c \in Res
  BY <1>1 DEF Range
<1>3. Layer[c] < Layer[p]
  BY DEF Sound, Layered
<1>4. Layer[c] \in Nat /\ Layer[p] \in Nat
  BY <1>2, LayerAssumption, GraphAssumption
<1> QED
  BY <1>2, <1>3, <1>4, SoundKnows

LEMMA SoundRemoveChild ==
  ASSUME NEW m, NEW base, Sound(m, base), NEW p \in Res, NEW c \in Range(m[p].figli)
  PROVE  /\ Sound(RemoveChild(m, p, c), More(base, c))
         /\ \A q \in Res : /\ RemoveChild(m, p, c)[q].status = m[q].status
                           /\ RemoveChild(m, p, c)[q].ref = m[q].ref
                           /\ RemoveChild(m, p, c)[q].figli =
                                IF q = p THEN RemoveFirst(m[p].figli, c) ELSE m[q].figli
<1>0. m \in Memory /\ base \in [Res -> Nat]
  BY DEF Sound
<1>1. c \in Res /\ p # c /\ Known(m, p) /\ Known(m, c)
  BY Below
<1>2. PICK n : /\ n = RemoveChild(m, p, c) /\ Relinks(m, n, p, c)
               /\ n[p].figli = RemoveFirst(m[p].figli, c)
               /\ \A x : Occurrences(n[c].padri, x) <= Occurrences(m[c].padri, x)
               /\ Occurrences(n[c].padri, p) = 0 \/ Occurrences(n[c].padri, p) + 1 <= Occurrences(m[c].padri, p)
  BY <1>0, <1>1, RemoveChildIs
<1>3. /\ n \in Memory
      /\ \A q \in Res : /\ n[q].status = m[q].status /\ n[q].ref = m[q].ref
                        /\ q # p => n[q].figli = m[q].figli
                        /\ q # c => n[q].padri = m[q].padri
  BY <1>2 DEF Relinks
<1>4. /\ Range(n[p].figli) \subseteq Range(m[p].figli)
      /\ \A x : Occurrences(m[p].figli, x) = Occurrences(n[p].figli, x) + (IF c = x THEN 1 ELSE 0)
  <2>1. PICK l \in Seq(Res) : l = m[p].figli
    BY <1>0, ListsType
  <2>2. c \in Range(l)
    BY <2>1
  <2>3. /\ Range(RemoveFirst(l, c)) \subseteq Range(l)
        /\ \A x : Occurrences(l, x) = Occurrences(RemoveFirst(l, c), x) + (IF c = x THEN 1 ELSE 0)
    BY <2>2, FirstRemoved
  <2> QED
    BY <2>1, <2>3, <1>2
<1> DEFINE b == More(base, c)
<1>5. b \in [Res -> Nat] /\ \A q \in Res : b[q] = IF q = c THEN base[q] + 1 ELSE base[q]
  BY <1>0, <1>1 DEF More
<1> HIDE DEF b
<1>6. \A q \in Res : Known(n, q) <=> Known(m, q)
  BY <1>3 DEF Known
<1>7. ASSUME NEW q \in Res PROVE Counts(m, q) = Counts(n, q) + (IF q = c THEN 1 ELSE 0)
  <2>1. Cardinality(Links(n, q)) + Occurrences(m[p].figli, q) = Cardinality(Links(m, q)) + Occurrences(n[p].figli, q)
    BY <1>0, <1>3, LinksChange
  <2>2. Counts(m, q) \in Nat /\ Counts(n, q) \in Nat /\ Occurrences(n[p].figli, q) \in Nat
    BY <1>0, <1>3, CountsType, ListsType
  <2>3. Occurrences(m[p].figli, q) = Occurrences(n[p].figli, q) + (IF c = q THEN 1 ELSE 0)
    BY <1>4
  <2> QED
    BY <2>1, <2>2, <2>3 DEF Counts
<1>8. RefsExact(n, b)
  <2>1. ASSUME NEW q \in Res, Known(m, q) PROVE n[q].ref = b[q] + Counts(n, q)
    <3>1. n[q].ref = m[q].ref /\ m[q].ref = base[q] + Counts(m, q) /\ base[q] \in Nat /\ Counts(n, q) \in Nat
      BY <2>1, <1>0, <1>3, CountsType DEF Sound, RefsExact
    <3> QED
      BY <3>1, <1>5, <1>7
  <2> QED
    BY <2>1, <1>6 DEF RefsExact
<1>9. FreeUnused(n, b)
  <2>1. ASSUME NEW q \in Res, ~Known(n, q)
        PROVE  n[q].ref = 0 /\ n[q].padri = <<>> /\ n[q].figli = <<>> /\ b[q] = 0 /\ Counts(n, q) = 0
    <3>1. ~Known(m, q) /\ q # c /\ q # p
      BY <2>1, <1>1, <1>6
    <3>2. m[q].ref = 0 /\ m[q].padri = <<>> /\ m[q].figli = <<>> /\ base[q] = 0 /\ Counts(m, q) = 0
      BY <3>1 DEF Sound, FreeUnused
    <3>3. Counts(n, q) \in Nat
      BY <1>3, CountsType
    <3> QED
      BY <3>1, <3>2, <3>3, <1>3, <1>5, <1>7
  <2> QED
    BY <2>1 DEF FreeUnused
<1>10. ParentsShow(n)
  <2>1. ASSUME NEW x \in Res, NEW y \in Res
        PROVE  Occurrences(n[y].padri, x) <= Occurrences(n[x].figli, y)
    <3>1. Occurrences(m[y].padri, x) <= Occurrences(m[x].figli, y)
      BY DEF Sound, ParentsShow
    <3>2. /\ Occurrences(m[y].padri, x) \in Nat /\ Occurrences(m[x].figli, y) \in Nat
          /\ Occurrences(n[y].padri, x) \in Nat /\ Occurrences(n[x].figli, y) \in Nat
      BY <1>0, <1>3, ListsType
    <3>3. Occurrences(n[y].padri, x) <= Occurrences(m[y].padri, x)
      <4>1. CASE y = c
        BY <4>1, <1>2
      <4>2. CASE y # c
        BY <4>2, <1>3, <3>2
      <4> QED
        BY <4>1, <4>2
    <3>4. CASE x = p /\ y = c
      <4>1. Occurrences(m[p].figli, c) = Occurrences(n[p].figli, c) + 1
        BY <1>4
      <4> QED
        BY <4>1, <3>1, <3>2, <3>4, <1>2
    <3>5. CASE ~(x = p /\ y = c)
      <4>1. Occurrences(n[x].figli, y) = Occurrences(m[x].figli, y)
        <5>1. CASE x = p
          BY <5>1, <3>2, <3>5, <1>4
        <5>2. CASE x # p
          BY <5>2, <1>3
        <5> QED
          BY <5>1, <5>2
      <4> QED
        BY <4>1, <3>1, <3>2, <3>3
    <3> QED
      BY <3>4, <3>5
  <2> QED
    BY <2>1 DEF ParentsShow
<1>11. Layered(n)
  BY <1>3, <1>4 DEF Sound, Layered
<1>12. Sound(n, b)
  BY <1>3, <1>5, <1>8, <1>9, <1>10, <1>11 DEF Sound
<1> QED
  BY <1>2, <1>3, <1>12 DEF b

-----------------------------------------------------------------------------
(* res2__release.                                                          *)

LEMMA RemoveChildType ==
  ASSUME NEW m \in Memory, NEW p \in Res, NEW c \in Res
  PROVE  RemoveChild(m, p, c) \in Memory
<1>1. CASE c \in Range(m[p].figli)
  BY <1>1, RemoveChildIs DEF Relinks
<1>2. CASE c \notin Range(m[p].figli)
  <2>1. RemoveChild(m, p, c) = m
    BY <1>2 DEF RemoveChild, SelectInSeq
  <2> QED
    BY <2>1
<1> QED
  BY <1>1, <1>2

(* Only the counter of p changes, and only when c is not ready.            *)
LEMMA RemoveChildCounts ==
  ASSUME NEW m \in Memory, NEW p \in Res, NEW c \in Range(m[p].figli), NEW q \in Res
  PROVE  RemoveChild(m, p, c)[q].notReady =
           IF q = p /\ ~IsReady(m, c) THEN (m[p].notReady + NotReadyMod - 1) % NotReadyMod ELSE m[q].notReady
<1> DEFINE k == IF IsReady(m, c) THEN m[p].notReady ELSE (m[p].notReady + NotReadyMod - 1) % NotReadyMod
           n == RemoveChild(m, p, c)
<1>0. c \in Res
  BY ListsType DEF Range
<1>1. \A r \in Res : m[r] \in ResDescr
  BY DEF Memory
<1>2. PICK f : f = RemoveFirst(m[p].figli, c)
  OBVIOUS
<1> DEFINE u == [m EXCEPT ![p].figli = f, ![p].notReady = k]
<1>3. \E g : n = u \/ n = [u EXCEPT ![c].padri = g]
  BY <1>2 DEF RemoveChild, Range
<1>4. PICK g : n = u \/ n = [u EXCEPT ![c].padri = g]
  BY <1>3
<1> HIDE DEF n, k
<1>5. u[q].notReady = IF q = p THEN k ELSE m[q].notReady
  BY <1>1 DEF Memory, ResDescr
<1>6. u \in [Res -> [status : Status, notReady : {u[r].notReady : r \in Res}, ref : Int,
                     padri : {u[r].padri : r \in Res}, figli : {u[r].figli : r \in Res}]]
  BY <1>1 DEF Memory, ResDescr
<1> HIDE DEF u
<1>7. [u EXCEPT ![c].padri = g][q].notReady = u[q].notReady
  BY <1>6, <1>0
<1>8. n[q].notReady = u[q].notReady
  BY <1>4, <1>7
<1> QED
  BY <1>5, <1>8 DEF n, k

(* A change that informs nobody.                                           *)
LEMMA ChangeStateQuiet ==
  ASSUME NEW m \in Memory, NEW r \in Res, NEW s \in Status,
         \/ m[r].padri = <<>>
         \/ ~IsReady(m, r) /\ (s # "ready" \/ m[r].notReady # 0)
  PROVE  \A q \in Res : ChangeState(m, r, s)[q].notReady = m[q].notReady
<1> DEFINE n == [m EXCEPT ![r].status = s]
<1>1. /\ n \in Memory /\ n[r].padri = m[r].padri /\ n[r].status = s
      /\ \A q \in Res : n[q].notReady = m[q].notReady
  BY DEF Memory, ResDescr
<1> HIDE DEF n
<1>2. CASE m[r].padri = <<>>
  <2>1. /\ Each(InformReady[Depth], n, <<>>) = n /\ Each(InformNotReady[Depth], n, <<>>) = n
    BY <1>1, InformReadyInforms, InformNotReadyInforms, InformsMaps, EachOfNone
  <2>2. ChangeState(m, r, s) = n
    BY <2>1, <1>1, <1>2 DEF ChangeState, n
  <2> QED
    BY <2>2, <1>1
<1>3. CASE ~IsReady(m, r) /\ (s # "ready" \/ m[r].notReady # 0)
  <2>1. ~IsReady(m, r) /\ ~IsReady(n, r)
    BY <1>1, <1>3 DEF IsReady
  <2>2. ChangeState(m, r, s) = n
    BY <2>1 DEF ChangeState, n
  <2> QED
    BY <2>2, <1>1
<1> QED
  BY <1>2, <1>3

(* Who is on no list knows no parent.                                      *)
LEMMA NoParents ==
  ASSUME NEW m, NEW base, Sound(m, base), NEW r \in Res, \A p \in Res : r \notin Range(m[p].figli)
  PROVE  m[r].padri = <<>>
<1>1. PICK l \in Seq(Res) : l = m[r].padri
  BY ListsType DEF Sound
<1>2. ASSUME NEW p \in Range(l) PROVE FALSE
  BY <1>1, SoundKnows DEF Range
<1>3. Len(l) \in Nat /\ DOMAIN l = 1..Len(l)
  OBVIOUS
<1>4. ASSUME Len(l) # 0 PROVE FALSE
  <2>1. 1 \in DOMAIN l
    BY <1>3, <1>4
  <2>2. l[1] \in Range(l)
    BY <2>1 DEF Range
  <2> QED
    BY <2>2, <1>2
<1> QED
  BY <1>1, <1>4

LEMMA FreeSlotType ==
  FreeSlot \in ResDescr
<1>1. 0 \in 0..NotReadyMod - 1
  BY GraphAssumption
<1>2. <<>> \in Seq(Res)
  OBVIOUS
<1> QED
  BY <1>1, <1>2 DEF FreeSlot, ResDescr, Status

(* The walk of DropChildren removes the head of the list each time.        *)
LEMMA HeadRemoved ==
  ASSUME NEW S, NEW l \in Seq(S), NEW k \in 1..Len(l)
  PROVE  /\ l[k] \in Range(SubSeq(l, k, Len(l)))
         /\ RemoveFirst(SubSeq(l, k, Len(l)), l[k]) = SubSeq(l, k + 1, Len(l))
<1>a. PICK N \in Nat : N = Len(l)
  OBVIOUS
<1>b. PICK s : s = SubSeq(l, k, N)
  OBVIOUS
<1>0. N \in Nat /\ k \in 1..N /\ \A j \in 1..N : l[j] \in S
  BY <1>a
<1>1. s \in Seq(S) /\ Len(s) = N - k + 1 /\ Len(s) \in Nat \ {0} /\ \A j \in 1..N - k + 1 : s[j] = l[k + j - 1]
  <2>1. \A j \in k..N : l[j] \in S
    BY <1>0
  <2>2. k \in Int /\ N \in Int
    BY <1>0
  <2> QED
    BY <1>0, <1>b, <2>1, <2>2, SubSeqProperties
<1>2. 1 \in 1..Len(s) /\ s[1] = l[k] /\ l[k] \in Range(s)
  <2>1. 1 \in 1..Len(s) /\ s[1] = l[k]
    BY <1>0, <1>1
  <2>2. DOMAIN s = 1..Len(s)
    BY <1>1
  <2>3. s[1] \in Range(s)
    BY <2>1, <2>2 DEF Range
  <2> QED
    BY <2>1, <2>3
<1>3. PICK i \in 1..Len(s) : /\ \A j \in 1..Len(s) : s[j] = l[k] => i <= j
                             /\ RemoveFirst(s, l[k]) = RemoveAt(s, i)
  BY <1>1, <1>2, FirstIs
<1>4. i = 1
  <2>1. i <= 1
    BY <1>2, <1>3
  <2> QED
    BY <2>1, <1>1
<1>5. PICK t : t = RemoveAt(s, i)
  OBVIOUS
<1>6. PICK n \in Nat : n = Len(s)
  BY <1>1
<1>7. t \in Seq(S) /\ Len(t) = n - 1 /\ \A j \in 1..n - 1 : t[j] = IF j < i THEN s[j] ELSE s[j + 1]
  <2>1. PICK w \in Seq(S) : w = s
    BY <1>1
  <2>2. i \in 1..Len(w)
    BY <2>1, <1>3
  <2>3. /\ RemoveAt(w, i) \in Seq(S) /\ Len(RemoveAt(w, i)) = Len(w) - 1
        /\ \A j \in 1..Len(w) - 1 : RemoveAt(w, i)[j] = IF j < i THEN w[j] ELSE w[j + 1]
    BY <2>2, Cut
  <2>4. t = RemoveAt(w, i) /\ n = Len(w)
    BY <2>1, <1>5, <1>6
  <2> QED
    BY <2>1, <2>3, <2>4
<1>8. PICK u : u = SubSeq(l, k + 1, N)
  OBVIOUS
<1>9. u \in Seq(S) /\ Len(u) = N - k /\ \A j \in 1..N - k : u[j] = l[k + j]
  <2>1. \A j \in k + 1..N : l[j] \in S
    BY <1>0
  <2>2. k + 1 \in Int /\ N \in Int
    BY <1>0
  <2>3. u \in Seq(S) /\ Len(u) = (IF k + 1 <= N THEN N - (k + 1) + 1 ELSE 0)
    BY <2>1, <2>2, <1>8, SubSeqProperties
  <2>4. \A j \in 1..N - (k + 1) + 1 : u[j] = l[(k + 1) + j - 1]
    BY <2>1, <2>2, <1>8, SubSeqProperties
  <2> QED
    BY <2>3, <2>4, <1>0
<1>10. n - 1 = N - k
  BY <1>0, <1>1, <1>6
<1>11. ASSUME NEW j \in 1..N - k PROVE t[j] = u[j]
  <2>1. j \in 1..n - 1 /\ j + 1 \in 1..N - k + 1 /\ ~(j < i) /\ k + (j + 1) - 1 = k + j
    BY <1>0, <1>4, <1>10
  <2>2. t[j] = s[j + 1] /\ s[j + 1] = l[k + (j + 1) - 1]
    BY <2>1, <1>1, <1>7
  <2> QED
    BY <2>1, <2>2, <1>9
<1>12. t = u
  <2>1. Len(t) = Len(u) /\ \A j \in 1..Len(t) : t[j] = u[j]
    BY <1>7, <1>9, <1>10, <1>11
  <2> QED
    BY <2>1, <1>7, <1>9, SeqEqual
<1> QED
  BY <1>a, <1>b, <1>2, <1>3, <1>5, <1>8, <1>12

(* A descriptor without references and children is given back.             *)
LEMMA SoundFree ==
  ASSUME NEW m, NEW base, Sound(m, base), NEW r \in Res, Known(m, r),
         m[r].ref = 0, m[r].figli = <<>>
  PROVE  /\ DropParents(m, r) = m
         /\ Sound([m EXCEPT ![r] = FreeSlot], base)
         /\ ~Known([m EXCEPT ![r] = FreeSlot], r)
         /\ \A q \in Res : q # r => [m EXCEPT ![r] = FreeSlot][q] = m[q]
<1>0. m \in Memory /\ base \in [Res -> Nat]
  BY DEF Sound
<1>1. base[r] = 0 /\ Counts(m, r) = 0
  <2>1. m[r].ref = base[r] + Counts(m, r) /\ base[r] \in Nat /\ Counts(m, r) \in Nat
    BY <1>0, CountsType DEF Sound, RefsExact
  <2> QED
    BY <2>1
<1>2. m[r].padri = <<>>
  <2>1. \A p \in Res : r \notin Range(m[p].figli)
    BY <1>0, <1>1, CountsType
  <2> QED
    BY <2>1, NoParents
<1>3. DropParents(m, r) = m
  <2> DEFINE f == [x \in Memory \X Res |-> RemoveChild(x[1], x[2], r)]
  <2>1. Maps(f, Memory, Res)
    BY RemoveChildType DEF Maps
  <2> HIDE DEF f
  <2>2. Each(f, m, <<>>) = m
    BY <2>1, <1>0, EachOfNone
  <2> QED
    BY <2>2, <1>2 DEF DropParents, f
<1> DEFINE n == [m EXCEPT ![r] = FreeSlot]
<1>4. n \in Memory /\ n[r] = FreeSlot /\ \A q \in Res : q # r => n[q] = m[q]
  BY <1>0, FreeSlotType DEF Memory
<1>5. FreeSlot.status = "free" /\ FreeSlot.ref = 0 /\ FreeSlot.padri = <<>> /\ FreeSlot.figli = <<>>
  BY DEF FreeSlot
<1> HIDE DEF n
<1>6. \A q \in Res : n[q].figli = m[q].figli /\ n[q].padri = m[q].padri
  BY <1>2, <1>4, <1>5
<1>7. \A q \in Res : Counts(n, q) = Counts(m, q)
  BY <1>6, SameCounts
<1>8. \A q \in Res : Known(n, q) <=> q # r /\ Known(m, q)
  BY <1>4, <1>5 DEF Known
<1>9. RefsExact(n, base)
  BY <1>4, <1>7, <1>8 DEF Sound, RefsExact
<1>10. FreeUnused(n, base)
  BY <1>1, <1>4, <1>5, <1>7, <1>8 DEF Sound, FreeUnused
<1>11. ParentsShow(n) /\ Layered(n)
  BY <1>6 DEF Sound, ParentsShow, Layered
<1>12. Sound(n, base)
  BY <1>0, <1>4, <1>9, <1>10, <1>11 DEF Sound
<1> QED
  BY <1>3, <1>4, <1>8, <1>12 DEF n

(* What a release leaves alone: what it does not free keeps its status, its*)
(* children and how many of them are not ready, and what lies as high as r *)
(* keeps its references as well.                                           *)
SameHandle(m, n, q) ==
  n[q].status = m[q].status /\ n[q].figli = m[q].figli /\ n[q].notReady = m[q].notReady

Survives(m, n, q) == Known(m, q) /\ SameHandle(m, n, q) /\ (m[q].ref > 0 => n[q].ref > 0)

Spares(m, n, r) ==
  \A q \in Res :
    /\ Known(n, q) => Survives(m, n, q)
    /\ q # r /\ Layer[q] >= Layer[r] => SameHandle(m, n, q) /\ n[q].ref = m[q].ref

Releases(f, d) ==
  \A m \in Memory, base \in [Res -> Nat], r \in Res :
    Sound(m, base) /\ base[r] > 0 /\ Layer[r] < d
      => Sound(f[<<m, r>>], Fewer(base, r)) /\ Spares(m, f[<<m, r>>], r)

(* n is m after the release of some children of r.                         *)
Dropped(m, n, base, r) ==
  /\ Sound(n, base) /\ n[r].status = m[r].status /\ n[r].ref = m[r].ref
  /\ \A q \in Res \ {r} :
       /\ Known(n, q) => Survives(m, n, q)
       /\ Layer[q] >= Layer[r] => SameHandle(m, n, q) /\ n[q].ref = m[q].ref

(* One child of a descriptor under destruction is dropped.                 *)
LEMMA DropOne ==
  ASSUME NEW m, NEW base, Sound(m, base), NEW r \in Res, NEW c \in Range(m[r].figli),
         NEW d \in Nat, Layer[r] <= d, NEW g, Releases(g, d)
  PROVE  /\ Dropped(m, g[<<RemoveChild(m, r, c), c>>], base, r)
         /\ g[<<RemoveChild(m, r, c), c>>][r].figli = RemoveFirst(m[r].figli, c)
<1>n. PICK n : n = g[<<RemoveChild(m, r, c), c>>]
  OBVIOUS
<1>0. /\ c \in Res /\ c # r /\ Layer[c] < Layer[r] /\ Layer[c] \in Nat /\ Layer[r] \in Nat
      /\ Known(m, r) /\ m \in Memory /\ base \in [Res -> Nat]
  BY Below DEF Sound
<1> DEFINE u == RemoveChild(m, r, c)
           b == More(base, c)
<1>1. /\ Sound(u, b)
      /\ \A q \in Res : /\ u[q].status = m[q].status /\ u[q].ref = m[q].ref
                        /\ u[q].figli = IF q = r THEN RemoveFirst(m[r].figli, c) ELSE m[q].figli
  BY SoundRemoveChild
<1>2. b[c] > 0 /\ Fewer(b, c) = base /\ b \in [Res -> Nat]
  <2>1. PICK k \in Nat : k = base[c]
    BY <1>0
  <2>2. b = [base EXCEPT ![c] = k + 1]
    BY <2>1 DEF More
  <2>3. Fewer(b, c) = [base EXCEPT ![c] = k + 1 - 1]
    BY <2>2, <1>0 DEF Fewer
  <2>4. k + 1 - 1 = k /\ k + 1 > 0 /\ k + 1 \in Nat
    OBVIOUS
  <2> QED
    BY <2>1, <2>2, <2>3, <2>4, <1>0
<1> HIDE DEF u, b
<1>3. Layer[c] < d /\ u \in Memory
  BY <1>0, <1>1 DEF Sound
<1>4. n = g[<<u, c>>]
  BY <1>n DEF u
<1>5. Sound(n, base) /\ Spares(u, n, c)
  BY <1>0, <1>1, <1>2, <1>3, <1>4 DEF Releases
<1>6. n[r].status = m[r].status /\ n[r].ref = m[r].ref /\ n[r].figli = RemoveFirst(m[r].figli, c)
  <2>1. Layer[r] >= Layer[c]
    BY <1>0
  <2> QED
    BY <2>1, <1>0, <1>1, <1>5 DEF Spares, SameHandle
<1>7. ASSUME NEW q \in Res \ {r}
      PROVE  /\ Known(n, q) => Survives(m, n, q)
             /\ Layer[q] >= Layer[r] => SameHandle(m, n, q) /\ n[q].ref = m[q].ref
  <2>1. SameHandle(m, u, q) /\ u[q].ref = m[q].ref /\ (Known(u, q) <=> Known(m, q))
    <3>1. u[q].notReady = m[q].notReady
      BY <1>0, RemoveChildCounts DEF u
    <3> QED
      BY <3>1, <1>1 DEF SameHandle, Known
  <2>2. Known(n, q) => Survives(u, n, q)
    BY <1>5 DEF Spares
  <2>3. ASSUME Layer[q] >= Layer[r] PROVE SameHandle(u, n, q) /\ n[q].ref = u[q].ref
    <3>1. Layer[q] \in Nat
      BY LayerAssumption, GraphAssumption
    <3>2. q # c /\ Layer[q] >= Layer[c]
      BY <3>1, <2>3, <1>0
    <3> QED
      BY <3>2, <1>5 DEF Spares
  <2> QED
    BY <2>1, <2>2, <2>3 DEF SameHandle, Survives
<1> QED
  BY <1>n, <1>5, <1>6, <1>7 DEF Dropped

LEMMA DroppedTrans ==
  ASSUME NEW m1, NEW m2, NEW m3, NEW base, NEW r,
         Dropped(m1, m2, base, r), Dropped(m2, m3, base, r)
  PROVE  Dropped(m1, m3, base, r)
BY DEF Dropped, SameHandle, Survives

LEMMA DropAll ==
  ASSUME NEW m, NEW base, Sound(m, base), NEW r \in Res,
         NEW d \in Nat, Layer[r] <= d, NEW g \in [Memory \X Res -> Memory], Releases(g, d)
  PROVE  Dropped(m, DropChildren(m, r, g), base, r) /\ DropChildren(m, r, g)[r].figli = <<>>
<1> DEFINE f == [x \in Memory \X Res |-> g[<<RemoveChild(x[1], r, x[2]), x[2]>>]]
<1>0. m \in Memory
  BY DEF Sound
<1>1. \A x \in Memory, c \in Res : /\ f[<<x, c>>] = g[<<RemoveChild(x, r, c), c>>]
                                   /\ f[<<x, c>>] \in Memory
  BY RemoveChildType
<1> HIDE DEF f
<1>2. Maps(f, Memory, Res)
  BY <1>1 DEF Maps
<1>3. PICK l \in Seq(Res) : l = m[r].figli
  BY <1>0, ListsType
<1>4. PICK N \in Nat : N = Len(l)
  OBVIOUS
<1> DEFINE P == [k \in 0..N |-> {x \in Memory : Dropped(m, x, base, r) /\ x[r].figli = SubSeq(l, k + 1, N)}]
<1>5. m \in P[0]
  <2>1. SubSeq(l, 0 + 1, N) = l
    BY <1>4
  <2>2. Dropped(m, m, base, r)
    BY DEF Dropped, SameHandle, Survives
  <2> QED
    BY <2>1, <2>2, <1>0, <1>3
<1>6. ASSUME NEW k \in 1..N, NEW x \in Memory, x \in P[k - 1]
      PROVE  f[<<x, l[k]>>] \in P[k]
  <2>1. k - 1 \in 0..N /\ k \in 0..N /\ k - 1 + 1 = k /\ l[k] \in Res
    BY <1>4
  <2>2. Dropped(m, x, base, r) /\ x[r].figli = SubSeq(l, k, N)
    BY <2>1, <1>6
  <2> HIDE DEF P
  <2>3. PICK s : s = x[r].figli /\ s = SubSeq(l, k, N)
    BY <2>2
  <2>4. l[k] \in Range(s) /\ RemoveFirst(s, l[k]) = SubSeq(l, k + 1, N)
    <3>1. k \in 1..Len(l)
      BY <1>4
    <3>2. /\ l[k] \in Range(SubSeq(l, k, Len(l)))
          /\ RemoveFirst(SubSeq(l, k, Len(l)), l[k]) = SubSeq(l, k + 1, Len(l))
      BY <3>1, HeadRemoved
    <3> QED
      BY <3>2, <2>3, <1>4
  <2>5. PICK n : n = g[<<RemoveChild(x, r, l[k]), l[k]>>]
    OBVIOUS
  <2>6. Dropped(x, n, base, r) /\ n[r].figli = RemoveFirst(s, l[k])
    <3>1. Sound(x, base)
      BY <2>2 DEF Dropped
    <3>2. PICK c : c = l[k]
      OBVIOUS
    <3>3. c \in Range(x[r].figli) /\ n = g[<<RemoveChild(x, r, c), c>>]
      BY <2>3, <2>4, <2>5, <3>2
    <3>4. Dropped(x, g[<<RemoveChild(x, r, c), c>>], base, r)
          /\ g[<<RemoveChild(x, r, c), c>>][r].figli = RemoveFirst(x[r].figli, c)
      BY <3>1, <3>3, DropOne
    <3> QED
      BY <3>2, <3>3, <3>4, <2>3
  <2>7. Dropped(m, n, base, r)
    BY <2>2, <2>6, DroppedTrans
  <2>8. f[<<x, l[k]>>] = n /\ n \in Memory
    BY <2>1, <2>5, <1>1
  <2> QED
    BY <2>1, <2>4, <2>6, <2>7, <2>8 DEF P
<1>7. \A k \in 1..N, x \in Memory : x \in P[k - 1] => f[<<x, l[k]>>] \in P[k]
  BY <1>6
<1>8. \A x : x \in P[N] => Dropped(m, x, base, r) /\ x[r].figli = <<>>
  <2>1. SubSeq(l, N + 1, N) = <<>>
    BY <1>4
  <2> QED
    BY <2>1
<1> HIDE DEF P
<1>9. Each(f, m, l) \in P[N]
  BY <1>0, <1>2, <1>4, <1>5, <1>7, EachKeeps
<1>10. DropChildren(m, r, g) = Each(f, m, l)
  BY <1>3 DEF DropChildren, f
<1> QED
  BY <1>8, <1>9, <1>10

LEMMA ReleaseStep ==
  ASSUME NEW m, NEW base, Sound(m, base), NEW r \in Res, base[r] > 0,
         NEW d \in Nat, Layer[r] <= d, NEW g \in [Memory \X Res -> Memory], Releases(g, d)
  PROVE  Sound(ReleaseHandle(m, r, g), Fewer(base, r)) /\ Spares(m, ReleaseHandle(m, r, g), r)
<1>0. m \in Memory /\ base \in [Res -> Nat] /\ Known(m, r)
  BY SoundKnows DEF Sound
<1> DEFINE u == DecRefCount(m, r)
           b == Fewer(base, r)
<1>1. /\ Sound(u, b) /\ u[r].ref = m[r].ref - 1
      /\ \A q \in Res : /\ u[q].status = m[q].status /\ u[q].figli = m[q].figli
                        /\ u[q].notReady = m[q].notReady
                        /\ q # r => u[q].ref = m[q].ref
  BY SoundDec
<1> HIDE DEF u, b
<1>2. CASE m[r].ref > 1
  <2>1. ReleaseHandle(m, r, g) = u
    BY <1>2 DEF ReleaseHandle, u
  <2>2. Spares(m, u, r)
    <3>1. m[r].ref - 1 > 0
      BY <1>2, <1>0, ListsType
    <3> QED
      BY <3>1, <1>1 DEF Spares, Survives, SameHandle, Known
  <2> QED
    BY <2>1, <2>2, <1>1 DEF b
<1>3. CASE ~(m[r].ref > 1)
  <2>1. m[r].ref = 1
    <3>1. m[r].ref = base[r] + Counts(m, r) /\ Counts(m, r) \in Nat /\ base[r] \in Nat
      BY <1>0, CountsType DEF Sound, RefsExact
    <3> QED
      BY <3>1, <1>3
  <2> DEFINE v == ChangeState(u, r, "deleting")
             w == DropChildren(v, r, g)
             n == [w EXCEPT ![r] = FreeSlot]
  <2>2. Known(u, r) /\ "deleting" \in Status \ {"free"}
    BY <1>0, <1>1 DEF Known, Status
  <2>3. /\ Sound(v, b)
        /\ \A q \in Res : /\ v[q].status = IF q = r THEN "deleting" ELSE u[q].status
                          /\ v[q].figli = u[q].figli /\ v[q].ref = u[q].ref
    BY <2>2, <1>1, SoundStatus
  <2>a. \A q \in Res : v[q].notReady = u[q].notReady
    <3>1. u \in Memory /\ Counts(u, r) \in Nat /\ b[r] \in Nat
      BY <1>1, CountsType DEF Sound
    <3>2. Counts(u, r) = 0
      <4>1. u[r].ref = b[r] + Counts(u, r) /\ u[r].ref = 0
        BY <2>1, <2>2, <1>1 DEF Sound, RefsExact
      <4> QED
        BY <4>1, <3>1
    <3>3. u[r].padri = <<>>
      BY <3>1, <3>2, <1>1, CountsType, NoParents
    <3> QED
      BY <3>1, <3>3, <2>2, ChangeStateQuiet DEF v
  <2> HIDE DEF v
  <2>4. Dropped(v, w, b, r) /\ w[r].figli = <<>>
    BY <2>3, DropAll
  <2> HIDE DEF w
  <2>5. Sound(w, b) /\ Known(w, r) /\ w[r].ref = 0
    BY <2>1, <2>3, <2>4, <1>1 DEF Dropped, Known
  <2>6. /\ DropParents(w, r) = w /\ Sound(n, b) /\ ~Known(n, r)
        /\ \A q \in Res : q # r => n[q] = w[q]
    BY <2>4, <2>5, SoundFree
  <2>7. ReleaseHandle(m, r, g) = n
    BY <2>6, <1>3 DEF ReleaseHandle, w, v, u
  <2> HIDE DEF n
  <2>8. Spares(m, n, r)
    <3>1. ASSUME NEW q \in Res, Known(n, q) PROVE Survives(m, n, q)
      <4>1. q # r /\ Known(w, q) /\ n[q] = w[q]
        BY <3>1, <2>6 DEF Known
      <4>2. Survives(v, w, q)
        BY <4>1, <2>4 DEF Dropped
      <4> QED
        BY <4>1, <4>2, <2>3, <2>a, <1>1 DEF SameHandle, Survives, Known
    <3>2. ASSUME NEW q \in Res, q # r, Layer[q] >= Layer[r]
          PROVE  SameHandle(m, n, q) /\ n[q].ref = m[q].ref
      <4>1. SameHandle(v, w, q) /\ w[q].ref = v[q].ref
        BY <3>2, <2>4 DEF Dropped
      <4> QED
        BY <4>1, <3>2, <2>3, <2>a, <2>6, <1>1 DEF SameHandle
    <3> QED
      BY <3>1, <3>2 DEF Spares
  <2> QED
    BY <2>6, <2>7, <2>8 DEF b
<1> QED
  BY <1>2, <1>3

LEMMA ReleaseHandleType ==
  ASSUME NEW g \in [Memory \X Res -> Memory], NEW m \in Memory, NEW r \in Res
  PROVE  ReleaseHandle(m, r, g) \in Memory
<1>1. DecRefCount(m, r) \in Memory
  <2>1. m[r] \in ResDescr
    BY DEF Memory
  <2>2. PICK k \in Int : k = m[r].ref - 1
    BY <2>1 DEF ResDescr
  <2>3. [m EXCEPT ![r].ref = k] \in Memory
    BY <2>1 DEF Memory, ResDescr
  <2> QED
    BY <2>2, <2>3 DEF DecRefCount
<1> DEFINE u == DecRefCount(m, r)
           v == ChangeState(u, r, "deleting")
           w == DropChildren(v, r, g)
           x == DropParents(w, r)
           fc == [y \in Memory \X Res |-> g[<<RemoveChild(y[1], r, y[2]), y[2]>>]]
           fp == [y \in Memory \X Res |-> RemoveChild(y[1], y[2], r)]
<1>2. v \in Memory
  <2>1. "deleting" \in Status
    BY DEF Status
  <2> HIDE DEF u
  <2>2. SameButCounts([u EXCEPT ![r].status = "deleting"], v)
    BY <1>1, <2>1, ChangeStateIs DEF u
  <2> QED
    BY <2>2 DEF SameButCounts
<1>3. Maps(fc, Memory, Res) /\ Maps(fp, Memory, Res)
  BY RemoveChildType DEF Maps
<1> HIDE DEF fc, fp, v
<1>4. w \in Memory
  BY <1>2, <1>3, ListsType, EachTyped DEF DropChildren, fc
<1> HIDE DEF w
<1>5. x \in Memory
  BY <1>4, <1>3, ListsType, EachTyped DEF DropParents, fp
<1>6. [x EXCEPT ![r] = FreeSlot] \in Memory
  <2> HIDE DEF x
  <2> QED
    BY <1>5, FreeSlotType DEF Memory
<1>7. ReleaseHandle(m, r, g) \in {u, [x EXCEPT ![r] = FreeSlot]}
  BY DEF ReleaseHandle, w, v
<1> QED
  BY <1>1, <1>6, <1>7

(* A release takes one reference off r, and the memory stays sound.        *)
LEMMA ReleasedIs ==
  /\ Released[Depth] \in [Memory \X Res -> Memory]
  /\ Releases(Released[Depth], Depth)
<1> DEFINE V == [Memory \X Res -> Memory]
           Above(g) == [x \in Memory \X Res |-> ReleaseHandle(x[1], x[2], g)]
           first == [x \in Memory \X Res |-> x[1]]
           step == [y \in V \X (1..Depth) |-> Above(y[1])]
           Is(h) == h = [n \in 0..Depth |->
                           [x \in Memory \X Res |->
                              IF n = 0 THEN x[1] ELSE ReleaseHandle(x[1], x[2], h[n - 1])]]
<1>0. Depth \in Nat
  BY GraphAssumption
<1>1. first \in V
  OBVIOUS
<1>2. ASSUME NEW g \in V
      PROVE  Above(g) \in V /\ \A m \in Memory, r \in Res : Above(g)[<<m, r>>] = ReleaseHandle(m, r, g)
  BY ReleaseHandleType
<1>a. ASSUME NEW g \in V, NEW d \in Nat, Releases(g, d)
      PROVE  Releases(Above(g), d + 1)
  <2> HIDE DEF Above
  <2>1. ASSUME NEW m \in Memory, NEW base \in [Res -> Nat], NEW r \in Res,
               Sound(m, base), base[r] > 0, Layer[r] < d + 1
        PROVE  Sound(Above(g)[<<m, r>>], Fewer(base, r)) /\ Spares(m, Above(g)[<<m, r>>], r)
    <3>1. Layer[r] <= d
      <4>1. Layer[r] \in Nat
        BY LayerAssumption, GraphAssumption
      <4> QED
        BY <4>1, <2>1
    <3>2. Sound(ReleaseHandle(m, r, g), Fewer(base, r)) /\ Spares(m, ReleaseHandle(m, r, g), r)
      BY <3>1, <2>1, <1>a, ReleaseStep
    <3> QED
      BY <3>2, <1>2
  <2> QED
    BY <2>1 DEF Releases
<1>b. Releases(first, 0)
  <2>1. \A r \in Res : ~(Layer[r] < 0)
    BY LayerAssumption, GraphAssumption
  <2> QED
    BY <2>1 DEF Releases
<1> HIDE DEF V, first, Above
<1>3. \A g \in V, n \in 1..Depth : step[<<g, n>>] = Above(g)
  OBVIOUS
<1>4. Stays(step, V, Depth)
  BY <1>2, <1>3 DEF Stays
<1> HIDE DEF step
<1>5. PICK h : Iterates(h, step, V, Depth, first)
  BY <1>0, <1>1, <1>4, IterationExists
<1>6. ASSUME NEW n \in 0..Depth
      PROVE  h[n] = [x \in Memory \X Res |->
                       IF n = 0 THEN x[1] ELSE ReleaseHandle(x[1], x[2], h[n - 1])]
  <2>1. CASE n = 0
    BY <2>1, <1>5 DEF Iterates, first
  <2>2. CASE n # 0
    <3>1. n \in 1..Depth /\ n - 1 \in 0..Depth
      BY <2>2, <1>0
    <3>2. h[n] = Above(h[n - 1])
      BY <3>1, <1>3, <1>5 DEF Iterates
    <3> QED
      BY <3>2, <2>2 DEF Above
  <2> QED
    BY <2>1, <2>2
<1>7. h \in [0..Depth -> V]
  BY <1>5 DEF Iterates
<1>8. Is(h)
  BY <1>6, <1>7
<1>9. Is(Released)
  BY <1>8 DEF Released
<1>10. ASSUME NEW g, Is(g) PROVE g[Depth] \in V /\ Releases(g[Depth], Depth)
  <2> DEFINE G == {n \in 0..Depth : g[n] \in V /\ Releases(g[n], n)}
  <2>1. 0 \in G
    <3>1. g[0] = first
      BY <1>0, <1>10 DEF first
    <3> QED
      BY <1>0, <1>1, <1>b, <3>1
  <2>2. ASSUME NEW n \in 1..Depth, n - 1 \in G PROVE n \in G
    <3>1. n \in 0..Depth /\ n # 0 /\ g[n - 1] \in V /\ Releases(g[n - 1], n - 1) /\ n - 1 \in Nat
      BY <2>2, <1>0
    <3>2. g[n] = Above(g[n - 1])
      BY <3>1, <1>10 DEF Above
    <3>3. Releases(Above(g[n - 1]), n - 1 + 1)
      BY <3>1, <1>a
    <3>4. n - 1 + 1 = n
      BY <3>1
    <3> QED
      BY <3>1, <3>2, <3>3, <3>4, <1>2
  <2>3. \A n \in 1..Depth : n - 1 \in G => n \in G
    BY <2>2
  <2>4. \A n \in 0..Depth : n \in G
    <3> HIDE DEF G
    <3> QED
      BY <2>1, <2>3, <1>0, UpTo
  <2> QED
    BY <2>4, <1>0
<1> HIDE DEF Is
<1>11. Released[Depth] \in V /\ Releases(Released[Depth], Depth)
  BY <1>9, <1>10
<1> QED
  BY <1>11 DEF V

-----------------------------------------------------------------------------
(* Loads that are on their way in a list of messages.                      *)

Carries(x, r) == x.descr = r /\ x.what # "LOAD_FINISHED"

Loads(s, r) == Cardinality({i \in DOMAIN s : Carries(s[i], r)})

LEMMA LoadsType ==
  ASSUME NEW S, NEW s \in Seq(S), NEW r
  PROVE  /\ Loads(s, r) \in Nat /\ IsFiniteSet({i \in DOMAIN s : Carries(s[i], r)})
         /\ (Loads(s, r) = 0 <=> \A i \in 1..Len(s) : ~Carries(s[i], r))
<1> DEFINE I == {i \in DOMAIN s : Carries(s[i], r)}
<1>1. IsFiniteSet(1..Len(s)) /\ I \in SUBSET (1..Len(s))
  BY FS_Interval
<1>2. IsFiniteSet(I) /\ Cardinality(I) \in Nat
  BY <1>1, FS_Subset, FS_CardinalityType
<1>3. Cardinality(I) = 0 <=> I = {}
  BY <1>2, FS_EmptySet
<1>4. DOMAIN s = 1..Len(s)
  OBVIOUS
<1>5. I = {} <=> \A i \in 1..Len(s) : ~Carries(s[i], r)
  BY <1>4
<1> HIDE DEF I
<1>6. Cardinality(I) = 0 <=> \A i \in 1..Len(s) : ~Carries(s[i], r)
  BY <1>3, <1>5
<1> QED
  BY <1>2, <1>6 DEF I, Loads

LEMMA LoadsConcat ==
  ASSUME NEW S, NEW s \in Seq(S), NEW t \in Seq(S), NEW r
  PROVE  Loads(s \o t, r) = Loads(s, r) + Loads(t, r)
<1>1. PICK u : u = s \o t
  OBVIOUS
<1>2. PICK m \in Nat, n \in Nat : m = Len(s) /\ n = Len(t)
  OBVIOUS
<1>3. /\ u \in Seq(S) /\ Len(u) = m + n
      /\ \A k \in 1..m + n : u[k] = IF k <= m THEN s[k] ELSE t[k - m]
  BY <1>1, <1>2, ConcatProperties
<1> DEFINE I == {i \in DOMAIN s : Carries(s[i], r)}
           J == {i \in DOMAIN t : Carries(t[i], r)}
           K == {i \in DOMAIN u : Carries(u[i], r)}
           f == [j \in J |-> m + j]
<1>4. IsFiniteSet(I) /\ IsFiniteSet(J) /\ IsFiniteSet(K)
  BY <1>3, LoadsType
<1>5. /\ \A i : i \in I <=> i \in 1..m /\ Carries(s[i], r)
      /\ \A i : i \in J <=> i \in 1..n /\ Carries(t[i], r)
      /\ \A i : i \in K <=> i \in 1..m + n /\ Carries(u[i], r)
  BY <1>2, <1>3
<1> HIDE DEF I, J, K
<1>6. I \in SUBSET K
  <2>1. ASSUME NEW i \in I PROVE i \in K
    <3>1. i \in 1..m /\ i \in 1..m + n /\ i <= m
      BY <1>5
    <3>2. u[i] = s[i]
      BY <3>1, <1>3
    <3> QED
      BY <3>1, <3>2, <1>5
  <2> QED
    BY <2>1
<1>7. ASSUME NEW j \in J PROVE f[j] \in K \ I
  <2>1. j \in 1..n /\ m + j \in 1..m + n /\ ~(m + j <= m) /\ m + j - m = j
    BY <1>5
  <2>2. u[m + j] = t[j]
    BY <2>1, <1>3
  <2> QED
    BY <2>1, <2>2, <1>5
<1>8. \A j, l \in J : f[j] = f[l] => j = l
  BY <1>5
<1>9. ASSUME NEW k \in K \ I PROVE \E j \in J : f[j] = k
  <2>1. k \in 1..m + n /\ Carries(u[k], r)
    BY <1>5
  <2>2. ~(k <= m)
    <3>1. ASSUME k <= m PROVE FALSE
      <4>1. k \in 1..m /\ u[k] = s[k]
        BY <2>1, <3>1, <1>3
      <4> QED
        BY <4>1, <2>1, <1>5
    <3> QED
      BY <3>1
  <2>3. k - m \in 1..n /\ u[k] = t[k - m] /\ m + (k - m) = k
    BY <2>1, <2>2, <1>3
  <2>4. k - m \in J
    BY <2>1, <2>3, <1>5
  <2> QED
    BY <2>3, <2>4
<1>10. f \in Bijection(J, K \ I)
  <2>1. f \in [J -> K \ I]
    BY <1>7
  <2> HIDE DEF f
  <2> QED
    BY <2>1, <1>8, <1>9 DEF Bijection, Injection, IsInjective, Surjection
<1>11. IsFiniteSet(K \ I)
  BY <1>4, FS_Difference
<1>12. Cardinality(K \ I) = Cardinality(J)
  BY <1>4, <1>10, <1>11, FS_Bijection DEF ExistsBijection
<1>13. Cardinality(K \ I) = Cardinality(K) - Cardinality(K \intersect I)
  BY <1>4, FS_Difference
<1>14. K \intersect I = I
  BY <1>6
<1>15. Cardinality(I) \in Nat /\ Cardinality(J) \in Nat /\ Cardinality(K) \in Nat
  BY <1>4, FS_CardinalityType
<1>16. Cardinality(K) = Cardinality(I) + Cardinality(J)
  <2>1. PICK i \in Nat, j \in Nat, k \in Nat : i = Cardinality(I) /\ j = Cardinality(J) /\ k = Cardinality(K)
    BY <1>15
  <2>2. j = k - i
    BY <2>1, <1>12, <1>13, <1>14
  <2>3. k = i + j
    BY <2>2
  <2> QED
    BY <2>1, <2>3
<1> QED
  BY <1>1, <1>16 DEF Loads, I, J, K

LEMMA LoadsOne ==
  ASSUME NEW x, NEW r
  PROVE  Loads(<<x>>, r) = IF Carries(x, r) THEN 1 ELSE 0
<1> DEFINE s == <<x>>
           I == {i \in DOMAIN s : Carries(s[i], r)}
<1>1. DOMAIN s = {1} /\ s[1] = x
  OBVIOUS
<1>2. I = IF Carries(x, r) THEN {1} ELSE {}
  BY <1>1
<1>3. Cardinality({1}) = 1 /\ Cardinality({}) = 0
  BY FS_Singleton, FS_EmptySet
<1> HIDE DEF I
<1>4. Cardinality(I) = IF Carries(x, r) THEN 1 ELSE 0
  BY <1>2, <1>3
<1> QED
  BY <1>4 DEF I, Loads

LEMMA LoadsAppend ==
  ASSUME NEW S, NEW s \in Seq(S), NEW x \in S, NEW r
  PROVE  Loads(Append(s, x), r) = Loads(s, r) + (IF Carries(x, r) THEN 1 ELSE 0)
<1>1. PICK o : o = <<x>>
  OBVIOUS
<1>2. o \in Seq(S)
  BY <1>1
<1>3. Append(s, x) = s \o o
  <2>1. Append(s, x) = s \o <<x>>
    BY AppendIsConcat
  <2> QED
    BY <2>1, <1>1
<1>4. Loads(s \o o, r) = Loads(s, r) + Loads(o, r)
  BY <1>2, LoadsConcat
<1> QED
  BY <1>1, <1>3, <1>4, LoadsOne

LEMMA LoadsTail ==
  ASSUME NEW S, NEW s \in Seq(S), s # <<>>, NEW r
  PROVE  /\ Head(s) \in S /\ Tail(s) \in Seq(S)
         /\ Loads(s, r) = Loads(Tail(s), r) + (IF Carries(Head(s), r) THEN 1 ELSE 0)
<1>0. PICK n \in Nat : n = Len(s)
  OBVIOUS
<1>a. PICK x, t : x = Head(s) /\ t = Tail(s)
  OBVIOUS
<1>b. x = s[1]
  BY <1>a
<1>c. x \in S /\ t \in Seq(S) /\ Len(t) = Len(s) - 1 /\ \A i \in 1..Len(t) : t[i] = s[i + 1]
  BY <1>a, HeadTailProperties
<1>1. /\ x \in S /\ t \in Seq(S) /\ x = Head(s) /\ t = Tail(s) /\ x = s[1]
      /\ Len(t) = n - 1 /\ \A i \in 1..n - 1 : t[i] = s[i + 1]
  BY <1>0, <1>a, <1>b, <1>c
<1>2. PICK o : o = <<x>>
  OBVIOUS
<1>3. o \in Seq(S)
  BY <1>1, <1>2
<1>4. s = o \o t
  <2>1. PICK u : u = o \o t
    OBVIOUS
  <2>2. Len(o) = 1 /\ o[1] = x
    BY <1>2
  <2>3. /\ u \in Seq(S) /\ Len(u) = 1 + (n - 1)
        /\ \A i \in 1..1 + (n - 1) : u[i] = IF i <= 1 THEN o[i] ELSE t[i - 1]
    <3>1. /\ u \in Seq(S) /\ Len(u) = Len(o) + Len(t)
          /\ \A i \in 1..Len(o) + Len(t) : u[i] = IF i <= Len(o) THEN o[i] ELSE t[i - Len(o)]
      BY <2>1, <1>1, <1>3, ConcatProperties
    <3> QED
      BY <3>1, <2>2, <1>1
  <2>4. ASSUME NEW i \in 1..n PROVE u[i] = s[i]
    <3>1. CASE i = 1
      BY <3>1, <2>2, <2>3, <1>0, <1>1
    <3>2. CASE i # 1
      <4>1. i - 1 \in 1..n - 1 /\ i - 1 + 1 = i /\ ~(i <= 1) /\ i \in 1..1 + (n - 1)
        BY <3>2, <1>0
      <4> QED
        BY <4>1, <2>3, <1>1
    <3> QED
      BY <3>1, <3>2
  <2>5. Len(s) = Len(u) /\ \A i \in 1..Len(s) : s[i] = u[i]
    BY <2>3, <2>4, <1>0
  <2>6. s = u
    BY <2>3, <2>5, SeqEqual
  <2> QED
    BY <2>1, <2>6
<1>5. Loads(o \o t, r) = Loads(o, r) + Loads(t, r)
  BY <1>1, <1>3, LoadsConcat
<1>6. Loads(o, r) = IF Carries(x, r) THEN 1 ELSE 0
  BY <1>2, LoadsOne
<1>7. Loads(t, r) \in Nat
  BY <1>1, LoadsType
<1>8. Loads(s, r) = Loads(t, r) + Loads(o, r)
  BY <1>4, <1>5, <1>6, <1>7
<1> QED
  BY <1>1, <1>6, <1>8

-----------------------------------------------------------------------------
(* The engine between two messages.  h are the references of the           *)
(* application (and of the function that is running), away the loads that  *)
(* are not in q1: in the hands of the loader, on their way back, or lost.  *)

Request == {x \in Message : x.what \in ToLoader /\ x.descr \in Sigs}

Base(h, away, q) == [r \in Res |-> h[r] + away[r] + Loads(q, r)]

LoadingOnce(m, away, q) ==
  \A s \in Sigs : away[s] + Loads(q, s) = IF m[s].status = "loading" THEN 1 ELSE 0

AssetShows(m, a) == m[a].status = "ready" /\ \E s \in Versions[a] : m[a].figli = <<s>>

AssetsShow(m) == \A a \in Assets : Known(m, a) => AssetShows(m, a)

EngineOK(e, h, away) ==
  /\ e \in EngineSet /\ e.q1 \in Seq(Request) /\ h \in [Res -> Nat] /\ away \in [Res -> Nat]
  /\ Sound(e.mem, Base(h, away, e.q1)) /\ LoadingOnce(e.mem, away, e.q1) /\ AssetsShow(e.mem)

(* The references r has beyond the one that keeps it and the one of a load.*)
Slack(m, r) ==
  m[r].ref - (IF Known(m, r) THEN 1 ELSE 0) - (IF r \in Sigs /\ m[r].status = "loading" THEN 1 ELSE 0)

(* What creating and loading resources leaves alone.                       *)
Kept(m, n) ==
  /\ \A q \in Res : Slack(n, q) >= Slack(m, q)
  /\ \A q \in Assets \union Hands : Known(m, q) => Known(n, q) /\ n[q].figli = m[q].figli
  /\ \A q \in Hands : Known(n, q) => Known(m, q)

LEMMA SlackType ==
  ASSUME NEW m \in Memory, NEW r \in Res
  PROVE  Slack(m, r) \in Int
BY ListsType DEF Slack

LEMMA KeptTrans ==
  ASSUME NEW m1 \in Memory, NEW m2 \in Memory, NEW m3 \in Memory, Kept(m1, m2), Kept(m2, m3)
  PROVE  Kept(m1, m3)
<1>1. ASSUME NEW q \in Res PROVE Slack(m3, q) >= Slack(m1, q)
  <2>1. Slack(m1, q) \in Int /\ Slack(m2, q) \in Int /\ Slack(m3, q) \in Int
    BY SlackType
  <2>2. Slack(m3, q) >= Slack(m2, q) /\ Slack(m2, q) >= Slack(m1, q)
    BY DEF Kept
  <2> QED
    BY <2>1, <2>2
<1>2. /\ \A q \in Assets \union Hands : Known(m1, q) => Known(m3, q) /\ m3[q].figli = m1[q].figli
      /\ \A q \in Hands : Known(m3, q) => Known(m1, q)
  BY DEF Kept
<1> QED
  BY <1>1, <1>2 DEF Kept

LEMMA KeptSelf ==
  ASSUME NEW m \in Memory
  PROVE  Kept(m, m)
<1>1. \A q \in Res : Slack(m, q) >= Slack(m, q)
  BY SlackType
<1> QED
  BY <1>1 DEF Kept

LEMMA BaseType ==
  ASSUME NEW h \in [Res -> Nat], NEW away \in [Res -> Nat], NEW q \in Seq(Request)
  PROVE  /\ Base(h, away, q) \in [Res -> Nat]
         /\ \A r \in Res : Base(h, away, q)[r] = h[r] + away[r] + Loads(q, r) /\ Loads(q, r) \in Nat
<1>1. \A r \in Res : Loads(q, r) \in Nat
  BY LoadsType
<1>2. \A r \in Res : h[r] + away[r] + Loads(q, r) \in Nat
  BY <1>1
<1> QED
  BY <1>1, <1>2 DEF Base

LEMMA BaseMore ==
  ASSUME NEW h \in [Res -> Nat], NEW away \in [Res -> Nat], NEW q \in Seq(Request), NEW r \in Res
  PROVE  More(h, r) \in [Res -> Nat] /\ More(Base(h, away, q), r) = Base(More(h, r), away, q)
<1>1. More(h, r) \in [Res -> Nat] /\ \A x \in Res : More(h, r)[x] = IF x = r THEN h[x] + 1 ELSE h[x]
  BY DEF More
<1>2. PICK b : b = Base(h, away, q)
  OBVIOUS
<1>3. b \in [Res -> Nat] /\ \A x \in Res : b[x] = h[x] + away[x] + Loads(q, x) /\ Loads(q, x) \in Nat
  BY <1>2, BaseType
<1>4. More(b, r) \in [Res -> Nat] /\ \A x \in Res : More(b, r)[x] = IF x = r THEN b[x] + 1 ELSE b[x]
  BY <1>3 DEF More
<1>5. PICK c : c = Base(More(h, r), away, q)
  OBVIOUS
<1>6. c \in [Res -> Nat] /\ \A x \in Res : c[x] = More(h, r)[x] + away[x] + Loads(q, x)
  BY <1>1, <1>5, BaseType
<1>7. ASSUME NEW x \in Res PROVE More(b, r)[x] = c[x]
  <2>1. PICK i \in Nat, j \in Nat, k \in Nat : i = h[x] /\ j = away[x] /\ k = Loads(q, x)
    BY <1>3
  <2>2. b[x] = i + j + k
    BY <2>1, <1>3
  <2>3. More(b, r)[x] = IF x = r THEN i + j + k + 1 ELSE i + j + k
    BY <2>2, <1>4
  <2>4. c[x] = (IF x = r THEN i + 1 ELSE i) + j + k
    BY <2>1, <1>1, <1>6
  <2> QED
    BY <2>3, <2>4
<1>8. More(b, r) = c
  BY <1>4, <1>6, <1>7
<1> QED
  BY <1>1, <1>2, <1>5, <1>8

LEMMA FewerOfMore ==
  ASSUME NEW b \in [Res -> Nat], NEW r \in Res
  PROVE  Fewer(More(b, r), r) = b /\ More(b, r) \in [Res -> Nat] /\ More(b, r)[r] > 0
<1>1. PICK k \in Nat : k = b[r]
  OBVIOUS
<1>2. More(b, r) = [b EXCEPT ![r] = k + 1]
  BY <1>1 DEF More
<1>3. Fewer(More(b, r), r) = [b EXCEPT ![r] = k + 1 - 1]
  BY <1>2 DEF Fewer
<1>4. k + 1 - 1 = k /\ k + 1 > 0 /\ k + 1 \in Nat
  OBVIOUS
<1> QED
  BY <1>1, <1>2, <1>3, <1>4

LEMMA MoreOfFewer ==
  ASSUME NEW b \in [Res -> Nat], NEW r \in Res, b[r] > 0
  PROVE  More(Fewer(b, r), r) = b /\ Fewer(b, r) \in [Res -> Nat]
<1>1. PICK k \in Nat : k = b[r]
  OBVIOUS
<1>2. Fewer(b, r) = [b EXCEPT ![r] = k - 1]
  BY <1>1 DEF Fewer
<1>3. More(Fewer(b, r), r) = [b EXCEPT ![r] = k - 1 + 1]
  BY <1>2 DEF More
<1>4. k - 1 + 1 = k /\ k - 1 \in Nat
  BY <1>1
<1> QED
  BY <1>1, <1>2, <1>3, <1>4

LEMMA BaseLoad ==
  ASSUME NEW h \in [Res -> Nat], NEW away \in [Res -> Nat], NEW q \in Seq(Request),
         NEW x \in Request, x.what # "LOAD_FINISHED"
  PROVE  /\ x.descr \in Res /\ Append(q, x) \in Seq(Request)
         /\ \A s : Loads(Append(q, x), s) = Loads(q, s) + (IF s = x.descr THEN 1 ELSE 0)
         /\ Base(h, away, Append(q, x)) = More(Base(h, away, q), x.descr)
<1>r. PICK r : r = x.descr
  OBVIOUS
<1>1. r \in Res
  BY <1>r DEF Request, Res
<1>2. PICK t : t = Append(q, x)
  OBVIOUS
<1>3. t \in Seq(Request)
  BY <1>2
<1>4. ASSUME NEW s PROVE Loads(t, s) = Loads(q, s) + (IF s = r THEN 1 ELSE 0)
  <2>1. Loads(Append(q, x), s) = Loads(q, s) + (IF Carries(x, s) THEN 1 ELSE 0)
    BY LoadsAppend
  <2>2. Carries(x, s) <=> s = r
    BY <1>r DEF Carries
  <2> QED
    BY <2>1, <2>2, <1>2
<1>5. PICK b : b = Base(h, away, q)
  OBVIOUS
<1>6. b \in [Res -> Nat] /\ \A s \in Res : b[s] = h[s] + away[s] + Loads(q, s) /\ Loads(q, s) \in Nat
  BY <1>5, BaseType
<1>7. More(b, r) \in [Res -> Nat] /\ \A s \in Res : More(b, r)[s] = IF s = r THEN b[s] + 1 ELSE b[s]
  BY <1>1, <1>6 DEF More
<1>8. PICK c : c = Base(h, away, t)
  OBVIOUS
<1>9. c \in [Res -> Nat] /\ \A s \in Res : c[s] = h[s] + away[s] + Loads(t, s)
  BY <1>3, <1>8, BaseType
<1>10. ASSUME NEW s \in Res PROVE More(b, r)[s] = c[s]
  <2>1. h[s] \in Nat /\ away[s] \in Nat /\ Loads(t, s) = Loads(q, s) + (IF s = r THEN 1 ELSE 0)
    BY <1>4
  <2> QED
    BY <2>1, <1>6, <1>7, <1>9
<1>11. More(b, r) = c
  BY <1>7, <1>9, <1>10
<1> QED
  BY <1>r, <1>1, <1>2, <1>3, <1>4, <1>5, <1>8, <1>11

LEMMA StatusesDiffer ==
  /\ Sigs \subseteq Res /\ Assets \subseteq Res /\ Hands \subseteq Res
  /\ \A s \in Sigs : s \notin Assets /\ s \notin Hands
  /\ \A a \in Assets : a \notin Hands
BY GraphAssumption DEF Res

LEMMA RequestsAreMessages ==
  ASSUME NEW q \in Seq(Request)
  PROVE  q \in Seq(Message)
<1>1. \A x \in Request : x \in Message
  BY DEF Request
<1> QED
  BY <1>1

(* What asking for loads changes: what was unloaded may be loading, and    *)
(* then it is asked for.                                                   *)
Asks(e, v) ==
  /\ \A q \in Res :
       /\ v.mem[q].figli = e.mem[q].figli /\ v.mem[q].notReady = e.mem[q].notReady
       /\ v.mem[q].status = e.mem[q].status
            \/ (e.mem[q].status = "unloaded" /\ v.mem[q].status = "loading")
  /\ \A x \in Range(v.q1) :
       x \in Range(e.q1) \/ (x.what = "LOAD" /\ x.descr \in Res /\ e.mem[x.descr].status = "unloaded")

LEMMA AsksTrans ==
  ASSUME NEW e, NEW v, NEW w, Asks(e, v), Asks(v, w)
  PROVE  Asks(e, w)
<1>1. ASSUME NEW q \in Res
      PROVE  /\ w.mem[q].figli = e.mem[q].figli /\ w.mem[q].notReady = e.mem[q].notReady
             /\ w.mem[q].status = e.mem[q].status
                  \/ (e.mem[q].status = "unloaded" /\ w.mem[q].status = "loading")
             /\ v.mem[q].status = "unloaded" => e.mem[q].status = "unloaded"
  BY DEF Asks
<1>2. ASSUME NEW x \in Range(w.q1), x \notin Range(e.q1)
      PROVE  x.what = "LOAD" /\ x.descr \in Res /\ e.mem[x.descr].status = "unloaded"
  BY <1>1, <1>2 DEF Asks
<1> QED
  BY <1>1, <1>2 DEF Asks

(* The request that starts a load.                                         *)
LEMMA StartLoad ==
  ASSUME NEW v, NEW h, NEW away, EngineOK(v, h, away),
         NEW r \in Sigs, v.mem[r].status = "unloaded",
         NEW w, w = [mem |-> IncRefCount(ChangeState(v.mem, r, "loading"), r),
                     q1  |-> Append(v.q1, Msg("LOAD", r, 0))]
  PROVE  EngineOK(w, h, away) /\ Kept(v.mem, w.mem) /\ Asks(v, w)
<1> DEFINE m == v.mem
           q == v.q1
           x == Msg("LOAD", r, 0)
           n == ChangeState(m, r, "loading")
           o == IncRefCount(n, r)
           b == Base(h, away, q)
<1>0. /\ r \in Res /\ h \in [Res -> Nat] /\ away \in [Res -> Nat] /\ q \in Seq(Request)
      /\ Sound(m, b) /\ LoadingOnce(m, away, q) /\ AssetsShow(m) /\ m \in Memory
      /\ b \in [Res -> Nat]
  BY StatusesDiffer DEF EngineOK, Sound
<1>1. x \in Request /\ x.what # "LOAD_FINISHED" /\ x.descr = r
  BY <1>0 DEF Msg, Request, Message, ToLoader
<1> HIDE DEF b, x
<1>2. "loading" \in Status \ {"free"} /\ Known(m, r)
  BY DEF Status, Known
<1>3. /\ Sound(n, b)
      /\ \A p \in Res : /\ n[p].status = IF p = r THEN "loading" ELSE m[p].status
                        /\ n[p].figli = m[p].figli /\ n[p].ref = m[p].ref
  BY <1>0, <1>2, SoundStatus
<1>a. \A p \in Res : n[p].notReady = m[p].notReady
  <2>1. ~IsReady(m, r) /\ "loading" # "ready" /\ "loading" \in Status
    BY DEF IsReady, Status
  <2> QED
    BY <2>1, <1>0, ChangeStateQuiet
<1> HIDE DEF n
<1>4. Known(n, r)
  BY <1>0, <1>3 DEF Known
<1>5. /\ Sound(o, More(b, r))
      /\ \A p \in Res : /\ o[p].status = n[p].status /\ o[p].figli = n[p].figli
                        /\ o[p].notReady = n[p].notReady
                        /\ o[p].ref = IF p = r THEN n[p].ref + 1 ELSE n[p].ref
  BY <1>0, <1>3, <1>4, SoundInc
<1>6. w.mem = o /\ w.q1 = Append(q, x) /\ w = [mem |-> o, q1 |-> Append(q, x)]
  <2>1. w = [mem |-> o, q1 |-> Append(q, x)]
    BY DEF n, x
  <2>2. PICK c, d : c = o /\ d = Append(q, x)
    OBVIOUS
  <2>3. w = [mem |-> c, q1 |-> d]
    BY <2>1, <2>2
  <2>4. w.mem = c /\ w.q1 = d
    BY <2>3
  <2> QED
    BY <2>1, <2>2, <2>4
<1> HIDE DEF o
<1>7. /\ Append(q, x) \in Seq(Request)
      /\ \A s : Loads(Append(q, x), s) = Loads(q, s) + (IF s = r THEN 1 ELSE 0)
      /\ Base(h, away, Append(q, x)) = More(b, r)
  <2>1. PICK k \in Seq(Request), y \in Request : k = q /\ y = x
    BY <1>0, <1>1
  <2>2. y.what # "LOAD_FINISHED" /\ r = y.descr
    BY <2>1, <1>1
  <2>3. /\ Append(k, y) \in Seq(Request)
        /\ \A s : Loads(Append(k, y), s) = Loads(k, s) + (IF s = y.descr THEN 1 ELSE 0)
        /\ Base(h, away, Append(k, y)) = More(Base(h, away, k), y.descr)
    BY <2>2, <1>0, BaseLoad, ZenonT(40)
  <2> QED
    BY <2>1, <2>2, <2>3 DEF b
<1>8. o \in Memory
  BY <1>5 DEF Sound
<1>9. w \in EngineSet
  BY <1>6, <1>7, <1>8, RequestsAreMessages DEF EngineSet
<1>10. LoadingOnce(o, away, Append(q, x))
  <2>1. ASSUME NEW s \in Sigs
        PROVE  away[s] + Loads(Append(q, x), s) = IF o[s].status = "loading" THEN 1 ELSE 0
    <3>1. s \in Res /\ away[s] \in Nat /\ Loads(q, s) \in Nat
      BY <1>0, StatusesDiffer, BaseType
    <3>2. away[s] + Loads(q, s) = IF m[s].status = "loading" THEN 1 ELSE 0
      BY <1>0 DEF LoadingOnce
    <3>3. CASE s = r
      <4>1. away[s] + Loads(q, s) = 0
        BY <3>2, <3>3
      <4>2. Loads(Append(q, x), s) = Loads(q, s) + 1
        BY <3>3, <1>7
      <4>3. o[s].status = "loading"
        BY <3>1, <3>3, <1>3, <1>5
      <4> QED
        BY <3>1, <4>1, <4>2, <4>3
    <3>4. CASE s # r
      <4>1. o[s].status = m[s].status
        BY <3>1, <3>4, <1>3, <1>5
      <4>2. Loads(Append(q, x), s) = Loads(q, s) + 0
        BY <3>4, <1>7
      <4>3. Loads(Append(q, x), s) = Loads(q, s)
        BY <4>2, <3>1
      <4> QED
        BY <4>1, <4>3, <3>2
    <3> QED
      BY <3>3, <3>4
  <2> QED
    BY <2>1 DEF LoadingOnce
<1>11. AssetsShow(o)
  <2>1. ASSUME NEW a \in Assets, Known(o, a) PROVE AssetShows(o, a)
    <3>1. a \in Res /\ a # r
      BY StatusesDiffer
    <3>2. o[a].status = m[a].status /\ o[a].figli = m[a].figli
      BY <3>1, <1>3, <1>5
    <3>3. AssetShows(m, a)
      BY <3>2, <2>1, <1>0 DEF AssetsShow, Known
    <3> QED
      BY <3>2, <3>3 DEF AssetShows
  <2> QED
    BY <2>1 DEF AssetsShow
<1>12. Kept(m, o)
  <2>1. ASSUME NEW p \in Res PROVE Slack(o, p) >= Slack(m, p)
    <3>1. m[p].ref \in Int
      BY <1>0, ListsType
    <3>2. o[p].status = (IF p = r THEN "loading" ELSE m[p].status) /\ o[p].ref = (IF p = r THEN m[p].ref + 1 ELSE m[p].ref)
      BY <1>3, <1>5
    <3>3. CASE p = r
      <4>1. Known(m, p) /\ Known(o, p) /\ o[p].status = "loading" /\ m[p].status # "loading" /\ o[p].ref = m[p].ref + 1
        BY <3>2, <3>3 DEF Known
      <4> QED
        BY <4>1, <3>1 DEF Slack
    <3>4. CASE p # r
      <4>1. (Known(m, p) <=> Known(o, p)) /\ o[p].status = m[p].status /\ o[p].ref = m[p].ref
        BY <3>2, <3>4 DEF Known
      <4>2. Slack(o, p) = Slack(m, p)
        BY <4>1 DEF Slack
      <4> QED
        BY <4>2, <1>0, SlackType
    <3> QED
      BY <3>3, <3>4
  <2>2. \A p \in Assets \union Hands : p \in Res /\ p # r
    BY StatusesDiffer
  <2> QED
    BY <2>1, <2>2, <1>3, <1>5 DEF Kept, Known
<1>13. EngineOK(w, h, away)
  BY <1>0, <1>5, <1>6, <1>7, <1>9, <1>10, <1>11 DEF EngineOK
<1>14. Asks(v, w)
  <2>1. Range(Append(q, x)) = Range(q) \union {x}
    <3>1. PICK k \in Seq(Request), y \in Request : k = q /\ y = x
      BY <1>0, <1>1
    <3>2. Range(Append(k, y)) = Range(k) \union {y}
      BY DEF Range
    <3> QED
      BY <3>1, <3>2
  <2>2. x.what = "LOAD"
    BY DEF Msg, x
  <2> QED
    BY <2>1, <2>2, <1>0, <1>1, <1>3, <1>a, <1>5, <1>6 DEF Asks
<1> QED
  BY <1>6, <1>12, <1>13, <1>14

-----------------------------------------------------------------------------
(* res2__get_or_schedule_load.                                             *)

Schedules(f) ==
  \A e \in EngineSet, r \in Res, h, away \in [Res -> Nat] :
    EngineOK(e, h, away) =>
      EngineOK(f[<<e, r>>], h, away) /\ Kept(e.mem, f[<<e, r>>].mem) /\ Asks(e, f[<<e, r>>])

LEMMA EngineOKType ==
  ASSUME NEW e, NEW h, NEW away, EngineOK(e, h, away)
  PROVE  /\ e \in EngineSet /\ e.mem \in Memory /\ h \in [Res -> Nat] /\ away \in [Res -> Nat]
         /\ Kept(e.mem, e.mem) /\ Asks(e, e)
BY KeptSelf DEF EngineOK, Sound, Asks

LEMMA ScheduleStep ==
  ASSUME NEW g, Schedules(g), NEW e, NEW h, NEW away, EngineOK(e, h, away), NEW r \in Res
  PROVE  /\ EngineOK(GetOrScheduleLoad(e, r, g), h, away) /\ Kept(e.mem, GetOrScheduleLoad(e, r, g).mem)
         /\ Asks(e, GetOrScheduleLoad(e, r, g))
<1> DEFINE V == {x \in EngineSet : EngineOK(x, h, away) /\ Kept(e.mem, x.mem) /\ Asks(e, x)}
<1>0. e \in EngineSet /\ e.mem \in Memory /\ h \in [Res -> Nat] /\ away \in [Res -> Nat] /\ Kept(e.mem, e.mem)
      /\ Asks(e, e)
  BY EngineOKType
<1>1. Maps(g, V, Res)
  <2>1. ASSUME NEW x \in V, NEW c \in Res PROVE g[<<x, c>>] \in V
    <3>1. EngineOK(g[<<x, c>>], h, away) /\ Kept(x.mem, g[<<x, c>>].mem) /\ Asks(x, g[<<x, c>>])
      BY <2>1, <1>0 DEF Schedules
    <3>2. x.mem \in Memory /\ g[<<x, c>>].mem \in Memory /\ g[<<x, c>>] \in EngineSet
      BY <3>1, EngineOKType
    <3>3. Kept(e.mem, g[<<x, c>>].mem)
      BY <3>1, <3>2, <1>0, KeptTrans
    <3>4. Asks(e, g[<<x, c>>])
      BY <3>1, AsksTrans
    <3> QED
      BY <3>1, <3>2, <3>3, <3>4
  <2> QED
    BY <2>1 DEF Maps
<1>2. e \in V
  BY <1>0
<1> DEFINE v == Each(g, e, e.mem[r].figli)
<1> HIDE DEF V
<1>3. v \in V
  BY <1>0, <1>1, <1>2, ListsType, EachTyped
<1>4. EngineOK(v, h, away) /\ Kept(e.mem, v.mem) /\ Asks(e, v)
  BY <1>3 DEF V
<1>5. EngineOK(e, h, away) /\ Kept(e.mem, e.mem) /\ Asks(e, e)
  BY <1>0
<1> DEFINE w == [mem |-> IncRefCount(ChangeState(v.mem, r, "loading"), r),
                 q1  |-> Append(v.q1, Msg("LOAD", r, 0))]
<1>6. ASSUME r \in Sigs, v.mem[r].status = "unloaded"
      PROVE  EngineOK(w, h, away) /\ Kept(e.mem, w.mem) /\ Asks(e, w)
  <2> HIDE DEF v
  <2>1. EngineOK(w, h, away) /\ Kept(v.mem, w.mem) /\ Asks(v, w)
    BY <1>4, <1>6, StartLoad
  <2> HIDE DEF w
  <2>2. v.mem \in Memory /\ w.mem \in Memory
    BY <2>1, <1>4, EngineOKType
  <2> QED
    BY <2>1, <2>2, <1>0, <1>4, KeptTrans, AsksTrans
<1>7. \/ GetOrScheduleLoad(e, r, g) = e
      \/ GetOrScheduleLoad(e, r, g) = v
      \/ r \in Sigs /\ v.mem[r].status = "unloaded" /\ GetOrScheduleLoad(e, r, g) = w
  BY DEF GetOrScheduleLoad
<1> HIDE DEF v, w
<1> QED
  BY <1>4, <1>5, <1>6, <1>7

LEMMA GetOrScheduleLoadType ==
  ASSUME NEW g \in [EngineSet \X Res -> EngineSet], NEW e \in EngineSet, NEW r \in Res
  PROVE  GetOrScheduleLoad(e, r, g) \in EngineSet
<1>1. Maps(g, EngineSet, Res)
  BY DEF Maps
<1>2. e.mem \in Memory
  BY DEF EngineSet
<1> DEFINE v == Each(g, e, e.mem[r].figli)
           m == ChangeState(v.mem, r, "loading")
           o == IncRefCount(m, r)
           w == [mem |-> o, q1 |-> Append(v.q1, Msg("LOAD", r, 0))]
<1>3. v \in EngineSet
  BY <1>1, <1>2, ListsType, EachTyped
<1>4. GetOrScheduleLoad(e, r, g) \in {e, v, w}
  BY DEF GetOrScheduleLoad
<1> HIDE DEF v
<1>5. v.mem \in Memory /\ v.q1 \in Seq(Message)
  BY <1>3 DEF EngineSet
<1>6. m \in Memory
  <2>1. "loading" \in Status
    BY DEF Status
  <2>2. SameButCounts([v.mem EXCEPT ![r].status = "loading"], m)
    BY <1>5, <2>1, ChangeStateIs
  <2> QED
    BY <2>2 DEF SameButCounts
<1> HIDE DEF m
<1>7. o \in Memory
  <2>1. m[r] \in ResDescr
    BY <1>6 DEF Memory
  <2>2. PICK k \in Int : k = m[r].ref + 1
    BY <2>1 DEF ResDescr
  <2>3. [m EXCEPT ![r].ref = k] \in Memory
    BY <1>6, <2>1 DEF Memory, ResDescr
  <2> QED
    BY <2>2, <2>3 DEF IncRefCount
<1>8. Msg("LOAD", r, 0) \in Message
  BY DEF Msg, Message, ToLoader
<1> HIDE DEF o
<1>9. w \in EngineSet
  BY <1>5, <1>7, <1>8 DEF EngineSet
<1> QED
  BY <1>3, <1>4, <1>9

(* Asking for a load keeps the engine in order, at any depth.              *)
LEMMA ScheduleLoadIs ==
  Schedules(ScheduleLoad[Depth])
<1> DEFINE V == {g \in [EngineSet \X Res -> EngineSet] : Schedules(g)}
           Above(g) == [x \in EngineSet \X Res |-> GetOrScheduleLoad(x[1], x[2], g)]
           first == [x \in EngineSet \X Res |-> x[1]]
           step == [y \in V \X (1..Depth) |-> Above(y[1])]
           Is(h) == h = [n \in 0..Depth |->
                           [x \in EngineSet \X Res |->
                              IF n = 0 THEN x[1] ELSE GetOrScheduleLoad(x[1], x[2], h[n - 1])]]
<1>0. Depth \in Nat
  BY GraphAssumption
<1>1. first \in V
  <2>1. Schedules(first)
    BY EngineOKType DEF Schedules
  <2> QED
    BY <2>1
<1>2. ASSUME NEW g \in V PROVE Above(g) \in V
  <2>1. \A e \in EngineSet, r \in Res : /\ Above(g)[<<e, r>>] = GetOrScheduleLoad(e, r, g)
                                        /\ GetOrScheduleLoad(e, r, g) \in EngineSet
    BY GetOrScheduleLoadType
  <2>2. Above(g) \in [EngineSet \X Res -> EngineSet]
    BY <2>1
  <2> HIDE DEF Above
  <2>3. ASSUME NEW e \in EngineSet, NEW r \in Res, NEW h \in [Res -> Nat], NEW away \in [Res -> Nat],
               EngineOK(e, h, away)
        PROVE  /\ EngineOK(Above(g)[<<e, r>>], h, away) /\ Kept(e.mem, Above(g)[<<e, r>>].mem)
               /\ Asks(e, Above(g)[<<e, r>>])
    <3>1. Schedules(g)
      OBVIOUS
    <3>2. /\ EngineOK(GetOrScheduleLoad(e, r, g), h, away) /\ Kept(e.mem, GetOrScheduleLoad(e, r, g).mem)
          /\ Asks(e, GetOrScheduleLoad(e, r, g))
      BY <2>3, <3>1, ScheduleStep
    <3> QED
      BY <3>2, <2>1
  <2>4. Schedules(Above(g))
    BY <2>3 DEF Schedules
  <2> QED
    BY <2>2, <2>4
<1> HIDE DEF V, first, Above
<1>3. \A g \in V, n \in 1..Depth : step[<<g, n>>] = Above(g)
  OBVIOUS
<1>4. Stays(step, V, Depth)
  BY <1>2, <1>3 DEF Stays
<1> HIDE DEF step
<1>5. PICK h : Iterates(h, step, V, Depth, first)
  BY <1>0, <1>1, <1>4, IterationExists
<1>6. ASSUME NEW n \in 0..Depth
      PROVE  h[n] = [x \in EngineSet \X Res |->
                       IF n = 0 THEN x[1] ELSE GetOrScheduleLoad(x[1], x[2], h[n - 1])]
  <2>1. CASE n = 0
    BY <2>1, <1>5 DEF Iterates, first
  <2>2. CASE n # 0
    <3>1. n \in 1..Depth /\ n - 1 \in 0..Depth
      BY <2>2, <1>0
    <3>2. h[n] = Above(h[n - 1])
      BY <3>1, <1>3, <1>5 DEF Iterates
    <3> QED
      BY <3>2, <2>2 DEF Above
  <2> QED
    BY <2>1, <2>2
<1>7. h \in [0..Depth -> V]
  BY <1>5 DEF Iterates
<1>8. Is(h)
  BY <1>6, <1>7
<1>9. Is(ScheduleLoad)
  BY <1>8 DEF ScheduleLoad
<1>10. ASSUME NEW g, Is(g) PROVE Schedules(g[Depth])
  <2> DEFINE G == {n \in 0..Depth : g[n] \in V}
  <2>1. 0 \in G
    <3>1. g[0] = first
      BY <1>0, <1>10 DEF first
    <3> QED
      BY <1>0, <1>1, <3>1
  <2>2. ASSUME NEW n \in 1..Depth, n - 1 \in G PROVE n \in G
    <3>1. n \in 0..Depth /\ n # 0 /\ g[n - 1] \in V
      BY <2>2, <1>0
    <3>2. g[n] = Above(g[n - 1])
      BY <3>1, <1>10 DEF Above
    <3> QED
      BY <3>1, <3>2, <1>2
  <2>3. \A n \in 1..Depth : n - 1 \in G => n \in G
    BY <2>2
  <2>4. \A n \in 0..Depth : n \in G
    <3> HIDE DEF G
    <3> QED
      BY <2>1, <2>3, <1>0, UpTo
  <2> QED
    BY <2>4, <1>0 DEF V
<1> HIDE DEF Is
<1> QED
  BY <1>9, <1>10

-----------------------------------------------------------------------------
(* res2__get_or_create_asset_from_UIDs and the on_load callbacks.          *)

LEMMA GetOrCreateSigIs ==
  ASSUME NEW m, NEW base, Sound(m, base), NEW s \in Sigs
  PROVE  /\ Sound(GetOrCreateSig(m, s), More(base, s))
         /\ \A q \in Res :
              /\ GetOrCreateSig(m, s)[q].status = IF q = s /\ ~Known(m, s) THEN "unloaded" ELSE m[q].status
              /\ GetOrCreateSig(m, s)[q].figli = m[q].figli
              /\ GetOrCreateSig(m, s)[q].ref = IF q = s THEN m[q].ref + 1 ELSE m[q].ref
<1>0. s \in Res
  BY StatusesDiffer
<1>1. CASE Known(m, s)
  <2>1. GetOrCreateSig(m, s) = IncRefCount(m, s)
    BY <1>1 DEF GetOrCreateSig
  <2> QED
    BY <1>0, <1>1, <2>1, SoundInc
<1>2. CASE ~Known(m, s)
  <2> DEFINE n == [m EXCEPT ![s] = Reserved("unloaded")]
  <2>1. GetOrCreateSig(m, s) = n
    BY <1>2 DEF GetOrCreateSig
  <2>2. "unloaded" \in Status \ {"free"}
    BY DEF Status
  <2>3. Sound(n, More(base, s)) /\ n[s] = Reserved("unloaded") /\ \A q \in Res : q # s => n[q] = m[q]
    BY <1>0, <1>2, <2>2, SoundNew
  <2> HIDE DEF n
  <2>4. Reserved("unloaded").status = "unloaded" /\ Reserved("unloaded").ref = 1 /\ Reserved("unloaded").figli = <<>>
    BY DEF Reserved, FreeSlot
  <2>5. m[s].ref = 0 /\ m[s].figli = <<>>
    BY <1>0, <1>2 DEF Sound, FreeUnused
  <2> QED
    BY <1>2, <2>1, <2>3, <2>4, <2>5
<1> QED
  BY <1>1, <1>2

Created(e, a, s) ==
  [e EXCEPT !.mem = AddChild(GetOrCreateSig([e.mem EXCEPT ![a] = Reserved("ready")], s), a, s)]

LEMMA CreateAsset ==
  ASSUME NEW e, NEW h, NEW away, EngineOK(e, h, away),
         NEW a \in Assets, ~Known(e.mem, a), NEW s \in Versions[a]
  PROVE  EngineOK(Created(e, a, s), More(h, a), away) /\ Kept(e.mem, Created(e, a, s).mem)
<1>w. PICK w : w = Created(e, a, s)
  OBVIOUS
<1>0. /\ e.mem \in Memory /\ h \in [Res -> Nat] /\ away \in [Res -> Nat] /\ e.q1 \in Seq(Request)
      /\ Sound(e.mem, Base(h, away, e.q1)) /\ LoadingOnce(e.mem, away, e.q1) /\ AssetsShow(e.mem) /\ e \in EngineSet
  BY DEF EngineOK, Sound
<1>1. PICK m \in Memory, q \in Seq(Request) : m = e.mem /\ q = e.q1
  BY <1>0
<1>2. PICK b \in [Res -> Nat] : b = Base(h, away, q)
  BY <1>0, BaseType
<1>3. s \in Sigs /\ s \in Res /\ a \in Res /\ s # a /\ Layer[s] < Layer[a]
  BY StatusesDiffer, Res2Assumption, LayerAssumption
<1> DEFINE n1 == [m EXCEPT ![a] = Reserved("ready")]
           n2 == GetOrCreateSig(n1, s)
           n3 == AddChild(n2, a, s)
           c == More(b, a)
<1>4. Sound(m, b) /\ LoadingOnce(m, away, q) /\ AssetsShow(m) /\ ~Known(m, a)
  BY <1>0, <1>1, <1>2
<1>5. Sound(n1, c) /\ n1[a] = Reserved("ready") /\ \A p \in Res : p # a => n1[p] = m[p]
  <2>1. "ready" \in Status \ {"free"}
    BY DEF Status
  <2>2. Sound(m, b) /\ a \in Res /\ ~Known(m, a)
    BY <1>3, <1>4
  <2> HIDE DEF n2, n3
  <2>3. /\ Sound([m EXCEPT ![a] = Reserved("ready")], More(b, a))
        /\ [m EXCEPT ![a] = Reserved("ready")][a] = Reserved("ready")
        /\ \A p \in Res : p # a => [m EXCEPT ![a] = Reserved("ready")][p] = m[p]
    BY <2>1, <2>2, SoundNew, SMTT(30)
  <2> QED
    BY <2>3 DEF n1, c
<1>6. Reserved("ready").status = "ready" /\ Reserved("ready").ref = 1 /\ Reserved("ready").figli = <<>>
  BY DEF Reserved, FreeSlot
<1>7. c = Base(More(h, a), away, q) /\ More(h, a) \in [Res -> Nat] /\ c \in [Res -> Nat]
  <2>1. More(h, a) \in [Res -> Nat] /\ More(Base(h, away, q), a) = Base(More(h, a), away, q)
    <3> HIDE DEF n1, n2, n3, c
    <3>1. h \in [Res -> Nat] /\ away \in [Res -> Nat] /\ q \in Seq(Request) /\ a \in Res
      BY <1>0, <1>3
    <3> QED
      BY <3>1, BaseMore, ZenonT(40)
  <2>2. Base(More(h, a), away, q) \in [Res -> Nat]
    BY <2>1, <1>0, BaseType
  <2> QED
    BY <2>1, <2>2, <1>2
<1> HIDE DEF n1, c
<1>8. /\ Sound(n2, More(c, s))
      /\ \A p \in Res : /\ n2[p].status = IF p = s /\ ~Known(n1, s) THEN "unloaded" ELSE n1[p].status
                        /\ n2[p].figli = n1[p].figli
                        /\ n2[p].ref = IF p = s THEN n1[p].ref + 1 ELSE n1[p].ref
  BY <1>3, <1>5, GetOrCreateSigIs
<1> HIDE DEF n2
<1>9. Known(n2, a) /\ (Known(n1, s) <=> Known(m, s))
  BY <1>3, <1>5, <1>6, <1>8 DEF Known
<1>10. More(c, s)[s] > 0 /\ Fewer(More(c, s), s) = c
  BY <1>3, <1>7, FewerOfMore
<1>11. /\ Sound(n3, c)
       /\ \A p \in Res : /\ n3[p].status = n2[p].status /\ n3[p].ref = n2[p].ref
                         /\ n3[p].figli = IF p = a THEN <<s>> \o n2[a].figli ELSE n2[p].figli
  <2>1. /\ Sound(n3, Fewer(More(c, s), s))
        /\ \A p \in Res : /\ n3[p].status = n2[p].status /\ n3[p].ref = n2[p].ref
                          /\ n3[p].figli = IF p = a THEN <<s>> \o n2[p].figli ELSE n2[p].figli
    BY <1>3, <1>8, <1>9, <1>10, SoundAddChild
  <2> QED
    BY <2>1, <1>10
<1>12. w.mem = n3 /\ w.q1 = q /\ w = [mem |-> n3, q1 |-> q]
  BY <1>0, <1>1, <1>w DEF n3, n2, n1, EngineSet, Created
<1> HIDE DEF n3
<1>13. n3[a].status = "ready" /\ n3[a].figli = <<s>> /\ n3[a].ref = 1
  <2>1. n2[a].figli = <<>> /\ n2[a].status = "ready" /\ n2[a].ref = 1
    BY <1>3, <1>5, <1>6, <1>8
  <2>2. <<s>> \o <<>> = <<s>>
    OBVIOUS
  <2> QED
    BY <2>1, <2>2, <1>3, <1>11
<1>14. \A p \in Res : p # a =>
         /\ n3[p].status = (IF p = s /\ ~Known(m, s) THEN "unloaded" ELSE m[p].status)
         /\ n3[p].figli = m[p].figli
         /\ n3[p].ref = IF p = s THEN m[p].ref + 1 ELSE m[p].ref
  BY <1>3, <1>5, <1>8, <1>9, <1>11
<1>15. n3 \in Memory
  BY <1>11 DEF Sound
<1>16. w \in EngineSet
  BY <1>1, <1>12, <1>15, RequestsAreMessages DEF EngineSet
<1>17. LoadingOnce(n3, away, q)
  <2>1. ASSUME NEW t \in Sigs
        PROVE  away[t] + Loads(q, t) = IF n3[t].status = "loading" THEN 1 ELSE 0
    <3>1. t \in Res /\ t # a
      BY StatusesDiffer
    <3>2. away[t] + Loads(q, t) = IF m[t].status = "loading" THEN 1 ELSE 0
      BY <1>4 DEF LoadingOnce
    <3>3. CASE t = s /\ ~Known(m, s)
      <4>1. m[t].status # "loading" /\ n3[t].status # "loading"
        BY <3>1, <3>3, <1>14 DEF Known
      <4> QED
        BY <4>1, <3>2
    <3>4. CASE ~(t = s /\ ~Known(m, s))
      BY <3>1, <3>2, <3>4, <1>14
    <3> QED
      BY <3>3, <3>4
  <2> QED
    BY <2>1 DEF LoadingOnce
<1>18. AssetsShow(n3)
  <2>1. AssetShows(n3, a)
    BY <1>13 DEF AssetShows
  <2>2. \A x \in Assets : x \in Res /\ x # s
    BY <1>3, StatusesDiffer
  <2> QED
    BY <2>1, <2>2, <1>4, <1>14 DEF AssetsShow, AssetShows, Known
<1>19. Kept(m, n3)
  <2>1. ASSUME NEW p \in Res PROVE Slack(n3, p) >= Slack(m, p)
    <3>1. m[p].ref \in Int
      BY ListsType
    <3>2. CASE p = a
      <4>1. m[a].ref = 0 /\ m[a].status = "free"
        BY <1>3, <1>4 DEF Sound, FreeUnused, Known
      <4>2. Slack(m, a) = 0
        BY <4>1 DEF Slack, Known
      <4>3. Slack(n3, a) = 0
        BY <1>13 DEF Slack, Known
      <4> QED
        BY <3>2, <4>2, <4>3
    <3>3. CASE p = s /\ ~Known(m, s)
      <4>1. m[s].ref = 0 /\ m[s].status = "free"
        BY <1>3, <1>4, <3>3 DEF Sound, FreeUnused, Known
      <4>2. Slack(m, s) = 0
        BY <4>1 DEF Slack, Known
      <4>3. n3[s].status = "unloaded" /\ n3[s].ref = 1
        BY <1>3, <1>14, <3>3, <4>1
      <4>4. Slack(n3, s) = 0
        BY <4>3 DEF Slack, Known
      <4> QED
        BY <3>3, <4>2, <4>4
    <3>4. CASE p # a /\ ~(p = s /\ ~Known(m, s))
      <4>1. n3[p].status = m[p].status /\ (n3[p].ref = m[p].ref \/ n3[p].ref = m[p].ref + 1)
        BY <1>14, <3>4
      <4> QED
        BY <4>1, <3>1 DEF Slack, Known
    <3> QED
      BY <3>2, <3>3, <3>4
  <2>2. \A p \in Assets \union Hands : p \in Res /\ p # s
    BY <1>3, StatusesDiffer
  <2>3. a \notin Hands
    BY StatusesDiffer
  <2> QED
    BY <2>1, <2>2, <2>3, <1>4, <1>14 DEF Kept, Known
<1>20. EngineOK(w, More(h, a), away)
  BY <1>0, <1>7, <1>11, <1>12, <1>16, <1>17, <1>18, <1>1 DEF EngineOK
<1> QED
  BY <1>w, <1>1, <1>12, <1>19, <1>20

(* The loads of a state of the engine, whatever its assets show.           *)
LoadsOK(e, h, away) ==
  /\ e \in EngineSet /\ e.q1 \in Seq(Request) /\ h \in [Res -> Nat] /\ away \in [Res -> Nat]
  /\ Sound(e.mem, Base(h, away, e.q1)) /\ LoadingOnce(e.mem, away, e.q1)

LEMMA EngineIs ==
  ASSUME NEW e, NEW h, NEW away
  PROVE  EngineOK(e, h, away) <=> LoadsOK(e, h, away) /\ AssetsShow(e.mem)
BY DEF EngineOK, LoadsOK

(* A change of references keeps what is loading: the loads that are on     *)
(* their way own a reference.                                              *)
LEMMA LoadsSame ==
  ASSUME NEW e, NEW h, NEW away, LoadsOK(e, h, away), NEW h2 \in [Res -> Nat],
         NEW n, Sound(n, Base(h2, away, e.q1)),
         \A q \in Sigs : Known(n, q) =>
           n[q].status = e.mem[q].status \/ (~Known(e.mem, q) /\ n[q].status = "unloaded")
  PROVE  LoadsOK([mem |-> n, q1 |-> e.q1], h2, away)
<1>0. /\ h \in [Res -> Nat] /\ away \in [Res -> Nat] /\ e.q1 \in Seq(Request) /\ n \in Memory
      /\ LoadingOnce(e.mem, away, e.q1)
  BY DEF LoadsOK, Sound
<1>1. PICK m, q : q \in Seq(Request) /\ m = e.mem /\ q = e.q1
  BY <1>0
<1> DEFINE w == [mem |-> n, q1 |-> q]
<1>2. w.mem = n /\ w.q1 = q /\ w \in EngineSet
  <2>1. n \in Memory /\ q \in Seq(Message)
    BY <1>0, <1>1, RequestsAreMessages
  <2> QED
    BY <2>1 DEF EngineSet
<1>3. LoadingOnce(n, away, q)
  <2>1. ASSUME NEW t \in Sigs
        PROVE  away[t] + Loads(q, t) = IF n[t].status = "loading" THEN 1 ELSE 0
    <3>1. t \in Res
      BY StatusesDiffer
    <3>2. away[t] + Loads(q, t) = IF m[t].status = "loading" THEN 1 ELSE 0
      BY <1>0, <1>1 DEF LoadingOnce
    <3>3. PICK b : b = Base(h2, away, q)
      OBVIOUS
    <3>4. b[t] = h2[t] + away[t] + Loads(q, t) /\ Loads(q, t) \in Nat /\ h2[t] \in Nat /\ away[t] \in Nat
      <4>1. h2 \in [Res -> Nat] /\ away \in [Res -> Nat] /\ q \in Seq(Request)
        BY <1>0, <1>1
      <4>2. Base(h2, away, q)[t] = h2[t] + away[t] + Loads(q, t) /\ Loads(q, t) \in Nat
        BY <4>1, <3>1, BaseType
      <4> QED
        BY <4>1, <4>2, <3>1, <3>3
    <3>5. CASE m[t].status = "loading"
      <4>1. b[t] > 0
        BY <3>2, <3>4, <3>5
      <4>2. Known(n, t)
        BY <4>1, <3>1, <3>3, <1>1, SoundKnows
      <4>3. n[t].status = "loading"
        BY <4>2, <3>1, <3>5, <1>1 DEF Known
      <4> QED
        BY <4>3, <3>2, <3>5
    <3>6. CASE m[t].status # "loading"
      <4>1. n[t].status # "loading"
        BY <3>1, <3>6, <1>1 DEF Known
      <4> QED
        BY <4>1, <3>2, <3>6
    <3> QED
      BY <3>5, <3>6
  <2> QED
    BY <2>1 DEF LoadingOnce
<1> HIDE DEF w
<1>5. LoadsOK(w, h2, away)
  BY <1>0, <1>1, <1>2, <1>3 DEF LoadsOK
<1> QED
  BY <1>1, <1>5 DEF w

(* What still exists existed before, as it is, and shows the same.         *)
Steady(m, n) ==
  \A q \in Res : Known(n, q) =>
    /\ Known(m, q) /\ n[q].status = m[q].status
    /\ q \in Assets => n[q].figli = m[q].figli

LEMMA EngineSame ==
  ASSUME NEW e, NEW h, NEW away, EngineOK(e, h, away), NEW h2 \in [Res -> Nat],
         NEW n, Sound(n, Base(h2, away, e.q1)), Steady(e.mem, n)
  PROVE  EngineOK([mem |-> n, q1 |-> e.q1], h2, away)
<1>0. LoadsOK(e, h, away) /\ AssetsShow(e.mem)
  BY EngineIs
<1>1. \A q \in Sigs : Known(n, q) => n[q].status = e.mem[q].status
  BY StatusesDiffer DEF Steady
<1>2. AssetsShow(n)
  <2>1. \A a \in Assets : a \in Res
    BY StatusesDiffer
  <2> QED
    BY <2>1, <1>0 DEF AssetsShow, AssetShows, Steady
<1> DEFINE w == [mem |-> n, q1 |-> e.q1]
<1>3. LoadsOK(w, h2, away)
  BY <1>0, <1>1, LoadsSame
<1>4. w.mem = n
  OBVIOUS
<1> HIDE DEF w
<1>5. EngineOK(w, h2, away)
  BY <1>2, <1>3, <1>4, EngineIs
<1> QED
  BY <1>5 DEF w

LEMMA GetOrCreateAssetIs ==
  ASSUME NEW e, NEW h, NEW away, EngineOK(e, h, away),
         NEW a \in Assets, db[a] \in Versions[a], NEW asap
  PROVE  /\ EngineOK(GetOrCreateAsset(e, a, asap), More(h, a), away)
         /\ Kept(e.mem, GetOrCreateAsset(e, a, asap).mem)
<1>0. /\ e.mem \in Memory /\ h \in [Res -> Nat] /\ away \in [Res -> Nat] /\ e.q1 \in Seq(Request)
      /\ Sound(e.mem, Base(h, away, e.q1)) /\ e \in EngineSet
  BY DEF EngineOK, Sound
<1>a. PICK m \in Memory, q \in Seq(Request) : m = e.mem /\ q = e.q1 /\ e = [mem |-> m, q1 |-> q]
  BY <1>0 DEF EngineSet
<1>b. a \in Res /\ a \notin Sigs
  BY StatusesDiffer
<1>c. More(h, a) \in [Res -> Nat] /\ More(Base(h, away, q), a) = Base(More(h, a), away, q)
  <2>1. h \in [Res -> Nat] /\ away \in [Res -> Nat] /\ a \in Res
    BY <1>0, <1>b
  <2> QED
    BY <2>1, BaseMore
<1>1. CASE Known(e.mem, a)
  <2> DEFINE n == IncRefCount(m, a)
  <2>1. GetOrCreateAsset(e, a, asap) = [mem |-> n, q1 |-> q]
    BY <1>1, <1>a DEF GetOrCreateAsset
  <2>2. Known(m, a) /\ Sound(m, Base(h, away, q))
    BY <1>0, <1>1, <1>a
  <2>3. /\ Sound(n, More(Base(h, away, q), a))
        /\ \A p \in Res : /\ n[p].status = m[p].status /\ n[p].figli = m[p].figli
                          /\ n[p].ref = IF p = a THEN m[p].ref + 1 ELSE m[p].ref
    BY <1>b, <2>2, SoundInc
  <2> HIDE DEF n
  <2>4. Sound(n, Base(More(h, a), away, e.q1))
    BY <2>3, <1>c, <1>a
  <2>5. Steady(e.mem, n)
    BY <2>3, <1>a DEF Known, Steady
  <2>6. EngineOK([mem |-> n, q1 |-> e.q1], More(h, a), away)
    BY <2>4, <2>5, <1>c, EngineSame
  <2>7. Kept(m, n)
    <3>1. ASSUME NEW p \in Res PROVE Slack(n, p) >= Slack(m, p)
      <4>1. m[p].ref \in Int /\ (n[p].ref = m[p].ref \/ n[p].ref = m[p].ref + 1) /\ n[p].status = m[p].status
        BY <2>3, ListsType
      <4> QED
        BY <4>1 DEF Slack, Known
    <3>2. \A p \in Assets \union Hands : p \in Res
      BY StatusesDiffer
    <3> QED
      BY <3>1, <3>2, <2>3 DEF Kept, Known
  <2>8. PICK v : v = [mem |-> n, q1 |-> q]
    OBVIOUS
  <2>9. v.mem = n
    BY <2>8
  <2> QED
    BY <2>1, <2>6, <2>7, <2>8, <2>9, <1>a
<1>2. CASE ~Known(e.mem, a)
  <2> DEFINE w == Created(e, a, db[a])
             z == ScheduleLoad[Depth][<<w, a>>]
  <2>1. db[a] \in Sigs
    BY Res2Assumption
  <2>2. EngineOK(w, More(h, a), away) /\ Kept(e.mem, w.mem)
    BY <1>2, CreateAsset
  <2>3. GetOrCreateAsset(e, a, asap) = IF asap THEN z ELSE w
    BY <1>2 DEF GetOrCreateAsset, Created
  <2> HIDE DEF w
  <2>4. w \in EngineSet /\ w.mem \in Memory
    BY <2>2, EngineOKType
  <2>5. EngineOK(z, More(h, a), away) /\ Kept(w.mem, z.mem)
    BY <2>2, <2>4, <1>0, <1>b, <1>c, ScheduleLoadIs DEF Schedules
  <2> HIDE DEF z
  <2>6. z.mem \in Memory
    BY <2>5, EngineOKType
  <2>7. Kept(e.mem, z.mem)
    BY <2>2, <2>4, <2>5, <2>6, <1>0, KeptTrans
  <2> QED
    BY <2>2, <2>3, <2>5, <2>7
<1> QED
  BY <1>1, <1>2

LEMMA BaseFewer ==
  ASSUME NEW h \in [Res -> Nat], NEW away \in [Res -> Nat], NEW q \in Seq(Request),
         NEW r \in Res, h[r] > 0
  PROVE  /\ Fewer(h, r) \in [Res -> Nat] /\ Base(h, away, q)[r] > 0
         /\ Fewer(Base(h, away, q), r) = Base(Fewer(h, r), away, q)
<1>1. PICK k : k = Fewer(h, r)
  OBVIOUS
<1>2. k \in [Res -> Nat] /\ More(k, r) = h
  BY <1>1, MoreOfFewer
<1>3. PICK b : b = Base(k, away, q)
  OBVIOUS
<1>4. b \in [Res -> Nat] /\ More(b, r) = Base(h, away, q)
  <2>1. More(Base(k, away, q), r) = Base(More(k, r), away, q)
    BY <1>2, BaseMore
  <2>2. Base(k, away, q) \in [Res -> Nat]
    BY <1>2, BaseType
  <2> QED
    BY <2>1, <2>2, <1>2, <1>3
<1>5. Fewer(More(b, r), r) = b /\ More(b, r)[r] > 0
  BY <1>4, FewerOfMore
<1> QED
  BY <1>1, <1>2, <1>3, <1>4, <1>5

(* A handle the caller owns is released.                                   *)
LEMMA ReleaseLoads ==
  ASSUME NEW e, NEW h, NEW away, LoadsOK(e, h, away), NEW r \in Res, h[r] > 0
  PROVE  /\ LoadsOK([mem |-> Released[Depth][<<e.mem, r>>], q1 |-> e.q1], Fewer(h, r), away)
         /\ Spares(e.mem, Released[Depth][<<e.mem, r>>], r)
<1>0. /\ e.mem \in Memory /\ h \in [Res -> Nat] /\ away \in [Res -> Nat] /\ e.q1 \in Seq(Request)
      /\ Sound(e.mem, Base(h, away, e.q1))
  BY DEF LoadsOK, Sound
<1>1. PICK m, q : m \in Memory /\ q \in Seq(Request) /\ m = e.mem /\ q = e.q1
  BY <1>0
<1>2. PICK b : b = Base(h, away, q)
  OBVIOUS
<1>3. b \in [Res -> Nat] /\ b[r] > 0 /\ Fewer(h, r) \in [Res -> Nat] /\ Fewer(b, r) = Base(Fewer(h, r), away, q)
  BY <1>0, <1>1, <1>2, BaseFewer, BaseType
<1>4. Layer[r] < Depth
  BY LayerAssumption, GraphAssumption
<1>5. PICK n : n = Released[Depth][<<m, r>>]
  OBVIOUS
<1>6. Sound(n, Fewer(b, r)) /\ Spares(m, n, r)
  BY <1>0, <1>1, <1>2, <1>3, <1>4, <1>5, ReleasedIs DEF Releases
<1>7. \A p \in Sigs : Known(n, p) => n[p].status = e.mem[p].status
  BY <1>1, <1>6, StatusesDiffer DEF Spares, Survives, SameHandle
<1>8. Sound(n, Base(Fewer(h, r), away, e.q1))
  BY <1>1, <1>3, <1>6
<1>9. LoadsOK([mem |-> n, q1 |-> e.q1], Fewer(h, r), away)
  BY <1>3, <1>7, <1>8, LoadsSame
<1> QED
  BY <1>1, <1>5, <1>6, <1>9

LEMMA ReleaseIs ==
  ASSUME NEW e, NEW h, NEW away, EngineOK(e, h, away), NEW r \in Res, h[r] > 0
  PROVE  /\ EngineOK([mem |-> Released[Depth][<<e.mem, r>>], q1 |-> e.q1], Fewer(h, r), away)
         /\ Spares(e.mem, Released[Depth][<<e.mem, r>>], r)
<1>1. PICK n : n = Released[Depth][<<e.mem, r>>]
  OBVIOUS
<1>2. PICK w : w = [mem |-> n, q1 |-> e.q1]
  OBVIOUS
<1>3. LoadsOK(e, h, away) /\ AssetsShow(e.mem)
  BY EngineIs
<1>4. LoadsOK(w, Fewer(h, r), away) /\ Spares(e.mem, n, r)
  BY <1>1, <1>2, <1>3, ReleaseLoads
<1>5. AssetsShow(n)
  BY <1>3, <1>4, StatusesDiffer DEF AssetsShow, AssetShows, Spares, Survives, SameHandle
<1>6. w.mem = n
  BY <1>2
<1>7. EngineOK(w, Fewer(h, r), away)
  BY <1>4, <1>5, <1>6, EngineIs
<1> QED
  BY <1>1, <1>2, <1>4, <1>7

(* What is on its way exists.                                              *)
LEMMA AwayExists ==
  ASSUME NEW e, NEW h, NEW away, LoadsOK(e, h, away), NEW s \in Sigs, away[s] > 0
  PROVE  /\ e.mem[s].status = "loading" /\ Known(e.mem, s) /\ away[s] = 1 /\ Loads(e.q1, s) = 0
         /\ Base(h, away, e.q1)[s] > 0
<1>0. /\ h \in [Res -> Nat] /\ away \in [Res -> Nat] /\ e.q1 \in Seq(Request)
      /\ LoadingOnce(e.mem, away, e.q1) /\ s \in Res
  BY StatusesDiffer DEF LoadsOK
<1>1. PICK q \in Seq(Request) : q = e.q1
  BY <1>0
<1>2. /\ away[s] \in Nat /\ Loads(q, s) \in Nat /\ h[s] \in Nat
      /\ Base(h, away, q)[s] = h[s] + away[s] + Loads(q, s)
      /\ away[s] + Loads(q, s) = IF e.mem[s].status = "loading" THEN 1 ELSE 0
  BY <1>0, <1>1, BaseType DEF LoadingOnce
<1>3. e.mem[s].status = "loading"
  BY <1>2
<1> QED
  BY <1>1, <1>2, <1>3 DEF Known

(* An asset that hangs below s is bound to s.                              *)
Bound(x, s, a) ==
  [GetOrCreateAsset(x, a, TRUE) EXCEPT !.mem = AddChild(@, s, a)]

LEMMA BindOne ==
  ASSUME NEW e, NEW h, NEW away, EngineOK(e, h, away), NEW s \in Sigs, away[s] > 0,
         NEW a \in Assets, db[a] \in Versions[a], Layer[a] < Layer[s]
  PROVE  EngineOK(Bound(e, s, a), h, away) /\ Kept(e.mem, Bound(e, s, a).mem)
<1>0. e.mem \in Memory /\ h \in [Res -> Nat] /\ away \in [Res -> Nat] /\ s \in Res /\ a \in Res /\ s \notin Assets
  BY EngineOKType, StatusesDiffer
<1>1. PICK got : got = GetOrCreateAsset(e, a, TRUE)
  OBVIOUS
<1>2. EngineOK(got, More(h, a), away) /\ Kept(e.mem, got.mem)
  BY <1>1, GetOrCreateAssetIs
<1>3. PICK k : k = More(h, a)
  OBVIOUS
<1>4. k \in [Res -> Nat] /\ k[a] > 0 /\ Fewer(k, a) = h /\ EngineOK(got, k, away)
  BY <1>0, <1>2, <1>3, FewerOfMore
<1>5. got.mem \in Memory /\ got.q1 \in Seq(Request) /\ got \in EngineSet /\ Sound(got.mem, Base(k, away, got.q1))
  BY <1>4 DEF EngineOK, Sound
<1>6. PICK m, q : m \in Memory /\ q \in Seq(Request) /\ m = got.mem /\ q = got.q1 /\ got = [mem |-> m, q1 |-> q]
  BY <1>5 DEF EngineSet
<1>7. PICK b : b = Base(k, away, q)
  OBVIOUS
<1>8. b[a] > 0 /\ Fewer(b, a) = Base(h, away, q) /\ Sound(m, b)
  <2>1. Base(k, away, q)[a] > 0 /\ Fewer(Base(k, away, q), a) = Base(Fewer(k, a), away, q)
    <3>1. k \in [Res -> Nat] /\ away \in [Res -> Nat] /\ q \in Seq(Request) /\ a \in Res /\ k[a] > 0
      BY <1>0, <1>4, <1>6
    <3> QED
      BY <3>1, BaseFewer
  <2> QED
    BY <2>1, <1>4, <1>5, <1>6, <1>7
<1>9. Known(m, s)
  <2>1. LoadsOK(got, k, away)
    BY <1>4, EngineIs
  <2> QED
    BY <2>1, <1>6, AwayExists
<1>10. PICK n : n = AddChild(m, s, a)
  OBVIOUS
<1>11. /\ Sound(n, Fewer(b, a))
       /\ \A p \in Res : /\ n[p].status = m[p].status /\ n[p].ref = m[p].ref
                         /\ n[p].figli = IF p = s THEN <<a>> \o m[p].figli ELSE m[p].figli
  BY <1>0, <1>8, <1>9, <1>10, SoundAddChild
<1>12. Steady(got.mem, n)
  BY <1>0, <1>6, <1>11 DEF Steady, Known
<1>13. EngineOK([mem |-> n, q1 |-> got.q1], h, away)
  BY <1>0, <1>4, <1>6, <1>8, <1>11, <1>12, EngineSame
<1>14. Kept(m, n)
  <2>1. ASSUME NEW p \in Res PROVE Slack(n, p) >= Slack(m, p)
    <3>1. m[p].ref \in Int /\ n[p].ref = m[p].ref /\ n[p].status = m[p].status
      BY <1>6, <1>11, ListsType
    <3> QED
      BY <3>1 DEF Slack, Known
  <2>2. \A p \in Assets \union Hands : p \in Res /\ p # s
    BY StatusesDiffer
  <2> QED
    BY <2>1, <2>2, <1>11 DEF Kept, Known
<1>15. n \in Memory
  BY <1>11 DEF Sound
<1>16. Kept(e.mem, n)
  BY <1>0, <1>2, <1>6, <1>14, <1>15, KeptTrans
<1>17. PICK w : w = Bound(e, s, a)
  OBVIOUS
<1>18. w = [mem |-> n, q1 |-> q] /\ w.mem = n
  BY <1>1, <1>6, <1>10, <1>17 DEF Bound
<1> QED
  BY <1>6, <1>13, <1>16, <1>17, <1>18

LEMMA BindAllIs ==
  ASSUME NEW e, NEW h, NEW away, EngineOK(e, h, away), NEW s \in Sigs, away[s] > 0,
         \A a \in Assets : db[a] \in Versions[a]
  PROVE  EngineOK(BindAll(e, s, Binds[s]), h, away) /\ Kept(e.mem, BindAll(e, s, Binds[s]).mem)
<1> DEFINE V == {x \in EngineSet : EngineOK(x, h, away) /\ Kept(e.mem, x.mem)}
           S == {a \in Assets : Layer[a] < Layer[s]}
           f == [x \in EngineSet \X Assets |-> Bound(x[1], s, x[2])]
<1>0. e \in EngineSet /\ e.mem \in Memory /\ Kept(e.mem, e.mem)
  BY EngineOKType
<1>1. Binds[s] \in Seq(S)
  <2>1. PICK l : l = Binds[s]
    OBVIOUS
  <2>2. l \in Seq(Assets) /\ \A a \in Range(l) : Layer[a] < Layer[s]
    BY <2>1, Res2Assumption, LayerAssumption
  <2>3. \A i \in 1..Len(l) : l[i] \in S
    BY <2>2 DEF Range
  <2>4. l \in Seq(S)
    BY <2>2, <2>3
  <2> QED
    BY <2>1, <2>4
<1>2. Maps(f, V, S)
  <2>1. ASSUME NEW x \in V, NEW a \in S PROVE f[<<x, a>>] \in V
    <3>1. f[<<x, a>>] = Bound(x, s, a)
      BY <2>1
    <3>2. EngineOK(Bound(x, s, a), h, away) /\ Kept(x.mem, Bound(x, s, a).mem)
      BY <2>1, BindOne
    <3>3. x.mem \in Memory /\ Bound(x, s, a) \in EngineSet /\ Bound(x, s, a).mem \in Memory
      BY <2>1, <3>2, EngineOKType
    <3>4. Kept(e.mem, Bound(x, s, a).mem)
      BY <2>1, <3>2, <3>3, <1>0, KeptTrans
    <3> QED
      BY <3>1, <3>2, <3>3, <3>4
  <2> QED
    BY <2>1 DEF Maps
<1>3. e \in V
  BY <1>0
<1>4. BindAll(e, s, Binds[s]) = Each(f, e, Binds[s])
  BY DEF BindAll, Bound
<1> HIDE DEF V, S, f
<1>5. Each(f, e, Binds[s]) \in V
  BY <1>1, <1>2, <1>3, EachTyped
<1> QED
  BY <1>4, <1>5 DEF V

-----------------------------------------------------------------------------
(* The states of the specification.                                        *)

(* What the loader sends.                                                  *)
Reply ==
  {x \in Message :
     \/ x.what = "FINISHED_KO" /\ x.descr = None
     \/ /\ x.what \in {"FINISHED_OK", "WANT_CALLBACK"} /\ x.descr \in Sigs
        /\ x.what = "FINISHED_OK" => Kind[x.descr] = "direct" \/ x.step = 2}

Shape ==
  /\ app \in Apps /\ target \in [Hands -> [Slots -> Sigs \union Hands \union {None}]]
  /\ db \in [Assets -> Sigs] /\ \A a \in Assets : db[a] \in Versions[a]
  /\ held \in [Res -> 0..MaxHeld + 1] /\ held[Bianca] > 0 /\ reloads \in 0..MaxReload
  /\ todo \in Seq(Reply) /\ q2 \in Seq(Reply)

(* The loads that are with the engine again, and those the loader lost.    *)
Away(lost) == [r \in Res |-> Loads(todo, r) + Loads(q2, r) + lost[r]]

LoaderSucceeds == "loader" \notin app.fails

(* Applications that do not release what is loading, nor replace it.       *)
Calm == app.does \subseteq {"onDemand", "hotReload"}

(* lost counts the loads the loader gave up.                               *)
LostLoads(lost) ==
  lost \in [Res -> Nat] /\ \A r \in Res : r \notin Sigs \/ LoaderSucceeds => lost[r] = 0

NoMaterials == \A q \in Hands \ {Bianca} : ~Known(mem, q)

Consistent(lost) ==
  /\ LostLoads(lost)
  /\ EngineOK(Engine, held, Away(lost))
  /\ Calm => NoMaterials /\ \A r \in Res : Slack(mem, r) + lost[r] >= 0

IInv == Shape /\ \E lost : Consistent(lost)

LEMMA AwayType ==
  ASSUME NEW lost, Consistent(lost)
  PROVE  /\ Away(lost) \in [Res -> Nat] /\ held \in [Res -> Nat] /\ mem \in Memory
         /\ q1 \in Seq(Request) /\ Engine \in EngineSet /\ Engine.mem = mem /\ Engine.q1 = q1
         /\ EngineOK(Engine, held, Away(lost)) /\ Sound(mem, Base(held, Away(lost), q1))
<1>1. Engine.mem = mem /\ Engine.q1 = q1
  BY DEF Engine
<1> QED
  BY <1>1 DEF Consistent, EngineOK, Sound

(* A step of the engine that only creates and loads.                       *)
LEMMA EngineStep ==
  ASSUME NEW lost, Consistent(lost), NEW e, NEW h, EngineOK(e, h, Away(lost)), Kept(mem, e.mem),
         mem' = e.mem, q1' = e.q1, held' = h, UNCHANGED <<app, todo, q2>>
  PROVE  Consistent(lost)'
<1>1. Away(lost)' = Away(lost) /\ LoaderSucceeds' = LoaderSucceeds /\ Calm' = Calm
  BY DEF Away, LoaderSucceeds, Calm
<1>2. Engine' = e
  <2>1. e \in EngineSet
    BY EngineOKType
  <2> QED
    BY <2>1 DEF Engine, EngineSet
<1>3. mem \in Memory /\ mem' \in Memory
  <2>1. e.mem \in Memory
    BY EngineOKType
  <2> QED
    BY <2>1, AwayType
<1>4. ASSUME Calm, NEW r \in Res PROVE Slack(mem', r) + lost[r] >= 0
  <2>1. lost[r] \in Nat /\ Slack(mem, r) + lost[r] >= 0
    BY <1>4 DEF Consistent, LostLoads
  <2>2. Slack(mem, r) \in Int /\ Slack(mem', r) \in Int
    BY <1>3, SlackType
  <2>3. Slack(mem', r) >= Slack(mem, r)
    BY DEF Kept
  <2> QED
    BY <2>1, <2>2, <2>3
<1>5. LostLoads(lost)'
  BY <1>1 DEF Consistent, LostLoads
<1>6. EngineOK(Engine', held', Away(lost)')
  BY <1>1, <1>2
<1>7. Calm => NoMaterials'
  BY DEF Consistent, NoMaterials, Kept
<1> QED
  BY <1>1, <1>4, <1>5, <1>6, <1>7 DEF Consistent

LEMMA CreateKeeps ==
  ASSUME Shape, NEW lost, Consistent(lost), app' = app,
         NEW a \in app.assets, NEW asap, CreateFromAsset(a, asap)
  PROVE  Shape' /\ Consistent(lost)' /\ Kept(mem, mem')
<1>1. a \in Assets /\ a \in Res /\ db[a] \in Versions[a] /\ a # Bianca
  BY Res2Assumption, StatusesDiffer DEF Shape
<1>2. PICK e : e = GetOrCreateAsset(Engine, a, asap) /\ mem' = e.mem /\ q1' = e.q1
  BY DEF CreateFromAsset
<1>3. held[a] < MaxHeld /\ held' = More(held, a) /\ UNCHANGED <<target, db, q2, todo, reloads>>
  BY DEF CreateFromAsset, More
<1>4. EngineOK(e, More(held, a), Away(lost)) /\ Kept(mem, e.mem)
  BY <1>1, <1>2, AwayType, GetOrCreateAssetIs
<1>5. Consistent(lost)'
  BY <1>2, <1>3, <1>4, EngineStep
<1>6. Shape'
  <2>1. held' \in [Res -> 0..MaxHeld + 1] /\ held'[Bianca] > 0
    <3>1. held[a] + 1 \in 0..MaxHeld + 1
      BY <1>1, <1>3, Res2Assumption DEF Shape
    <3> QED
      BY <3>1, <1>1, <1>3 DEF Shape, More
  <2> QED
    BY <2>1, <1>3 DEF Shape
<1> QED
  BY <1>2, <1>4, <1>5, <1>6

LEMMA GetKeeps ==
  ASSUME Shape, NEW lost, Consistent(lost), app' = app, NEW r \in Res, Get(r)
  PROVE  Shape' /\ Consistent(lost)' /\ Kept(mem, mem')
<1>1. PICK e : e = ScheduleLoad[Depth][<<Engine, r>>] /\ mem' = e.mem /\ q1' = e.q1
  BY DEF Get
<1>2. UNCHANGED <<target, db, held, q2, todo, reloads>>
  BY DEF Get
<1>3. EngineOK(e, held, Away(lost)) /\ Kept(mem, e.mem)
  BY <1>1, AwayType, ScheduleLoadIs DEF Schedules
<1>4. Consistent(lost)'
  BY <1>1, <1>2, <1>3, EngineStep
<1>5. Shape'
  BY <1>2 DEF Shape
<1> QED
  BY <1>1, <1>3, <1>4, <1>5

LEMMA LoadsNone ==
  ASSUME NEW s
  PROVE  Loads(<<>>, s) = 0
<1>1. PICK o : o = <<>>
  OBVIOUS
<1>2. o \in Seq(Request) /\ Len(o) = 0
  BY <1>1
<1>3. Loads(o, s) = 0 <=> \A i \in 1..Len(o) : ~Carries(o[i], s)
  BY <1>2, LoadsType
<1>4. \A i \in 1..Len(o) : ~Carries(o[i], s)
  BY <1>2
<1> QED
  BY <1>1, <1>3, <1>4

(* When nothing is on its way, an application that is calm lets every      *)
(* descriptor have a reference: a load that is not over has been lost.     *)
LEMMA QuietSlack ==
  ASSUME NEW lost, LostLoads(lost), NEW e, NEW h, EngineOK(e, h, Away(lost)),
         e.q1 = <<>>, todo = <<>>, q2 = <<>>, NEW r \in Res
  PROVE  Slack(e.mem, r) + lost[r] >= 0 <=> (Known(e.mem, r) => e.mem[r].ref > 0)
<1>1. PICK m : m = e.mem
  OBVIOUS
<1>2. /\ m \in Memory /\ Sound(m, Base(h, Away(lost), e.q1)) /\ LoadingOnce(m, Away(lost), e.q1)
      /\ lost[r] \in Nat /\ m[r].ref \in Int
  BY <1>1, ListsType DEF EngineOK, Sound, LostLoads
<1>3. \A s : Loads(<<>>, s) = 0
  BY LoadsNone
<1>4. Away(lost)[r] + Loads(e.q1, r) = lost[r]
  BY <1>2, <1>3 DEF Away
<1>5. r \in Sigs => lost[r] = IF m[r].status = "loading" THEN 1 ELSE 0
  BY <1>2, <1>4 DEF LoadingOnce
<1>6. r \notin Sigs => lost[r] = 0
  BY DEF LostLoads
<1>7. ~Known(m, r) => m[r].ref = 0 /\ m[r].status # "loading"
  BY <1>2 DEF Sound, FreeUnused, Known
<1>8. m[r].status = "loading" => Known(m, r)
  BY DEF Known
<1>9. CASE r \in Sigs /\ m[r].status = "loading"
  BY <1>1, <1>2, <1>5, <1>8, <1>9 DEF Slack
<1>10. CASE ~(r \in Sigs /\ m[r].status = "loading")
  <2>1. lost[r] = 0
    BY <1>5, <1>6, <1>10
  <2> QED
    BY <1>1, <1>2, <1>7, <1>10, <2>1 DEF Slack
<1> QED
  BY <1>9, <1>10

(* A step of the engine that takes something away.                         *)
LEMMA TakeStep ==
  ASSUME NEW lost, Consistent(lost), NEW n, NEW h, EngineOK([mem |-> n, q1 |-> q1], h, Away(lost)),
         mem' = n, q1' = q1, held' = h, UNCHANGED <<app, todo, q2>>, Idle,
         Calm => LoaderIdle /\ \A r \in Res : Known(n, r) /\ (Known(mem, r) => mem[r].ref > 0) => n[r].ref > 0,
         \A q \in Hands : Known(n, q) => Known(mem, q)
  PROVE  Consistent(lost)'
<1>1. Away(lost)' = Away(lost) /\ LoaderSucceeds' = LoaderSucceeds /\ Calm' = Calm
  BY DEF Away, LoaderSucceeds, Calm
<1>2. PICK e : e = [mem |-> n, q1 |-> q1]
  OBVIOUS
<1>3. Engine' = e /\ e.mem = n /\ e.q1 = q1
  BY <1>2 DEF Engine
<1>4. LostLoads(lost)
  BY DEF Consistent
<1>5. ASSUME Calm, NEW r \in Res PROVE Slack(mem', r) + lost[r] >= 0
  <2>1. q1 = <<>> /\ q2 = <<>> /\ todo = <<>>
    BY <1>5 DEF LoaderIdle, Idle
  <2>2. Slack(mem, r) + lost[r] >= 0
    BY <1>5 DEF Consistent
  <2>3. Known(mem, r) => mem[r].ref > 0
    <3>1. EngineOK(Engine, held, Away(lost)) /\ Engine.mem = mem /\ Engine.q1 = <<>>
      BY <2>1, AwayType
    <3>2. Slack(Engine.mem, r) + lost[r] >= 0 <=> (Known(Engine.mem, r) => Engine.mem[r].ref > 0)
      BY <3>1, <2>1, <1>4, QuietSlack
    <3> QED
      BY <3>1, <3>2, <2>2
  <2>4. Known(n, r) => n[r].ref > 0
    BY <2>3, <1>5
  <2>5. Slack(e.mem, r) + lost[r] >= 0 <=> (Known(e.mem, r) => e.mem[r].ref > 0)
    <3>1. EngineOK(e, h, Away(lost)) /\ e.q1 = <<>>
      BY <1>2, <1>3, <2>1
    <3> QED
      BY <3>1, <2>1, <1>4, QuietSlack
  <2> QED
    BY <2>4, <2>5, <1>3
<1>6. LostLoads(lost)'
  BY <1>1, <1>4 DEF LostLoads
<1>7. EngineOK(Engine', held', Away(lost)')
  BY <1>1, <1>2, <1>3
<1>8. Calm => NoMaterials'
  BY DEF Consistent, NoMaterials
<1> QED
  BY <1>1, <1>5, <1>6, <1>7, <1>8 DEF Consistent

LEMMA ReleaseKeeps ==
  ASSUME Shape, NEW lost, Consistent(lost), app' = app, NEW r \in Res, Release(r)
  PROVE  Shape' /\ Consistent(lost)' /\ Spares(mem, mem', r)
<1>1. /\ held[r] > 0 /\ r # Bianca /\ Idle /\ held' = Fewer(held, r)
      /\ UNCHANGED <<db, q1, q2, todo, reloads>>
  BY DEF Release, Fewer
<1>2. PICK n : n = Released[Depth][<<mem, r>>]
  OBVIOUS
<1>3. mem' = n
  BY <1>2 DEF Release
<1>4. EngineOK([mem |-> n, q1 |-> q1], Fewer(held, r), Away(lost)) /\ Spares(mem, n, r)
  <2>1. EngineOK(Engine, held, Away(lost)) /\ Engine.mem = mem /\ Engine.q1 = q1
    BY AwayType
  <2>2. /\ EngineOK([mem |-> Released[Depth][<<Engine.mem, r>>], q1 |-> Engine.q1], Fewer(held, r), Away(lost))
        /\ Spares(Engine.mem, Released[Depth][<<Engine.mem, r>>], r)
    BY <2>1, <1>1, ReleaseIs
  <2> QED
    BY <2>1, <2>2, <1>2
<1>5. Calm => LoaderIdle
  BY DEF Calm, Release
<1>6. /\ \A q \in Res : Known(n, q) /\ (Known(mem, q) => mem[q].ref > 0) => n[q].ref > 0
      /\ \A q \in Hands : Known(n, q) => Known(mem, q)
  BY <1>4, StatusesDiffer DEF Spares, Survives
<1>7. Consistent(lost)'
  BY <1>1, <1>3, <1>4, <1>5, <1>6, TakeStep
<1>8. Shape'
  <2>1. held' \in [Res -> 0..MaxHeld + 1] /\ held'[Bianca] > 0
    <3>1. held[r] - 1 \in 0..MaxHeld + 1
      BY <1>1, Res2Assumption DEF Shape
    <3>2. Bianca \in Res
      BY Res2Assumption, StatusesDiffer
    <3> QED
      BY <3>1, <3>2, <1>1 DEF Shape, Fewer
  <2>2. target' \in [Hands -> [Slots -> Sigs \union Hands \union {None}]]
    BY DEF Shape, Release
  <2> QED
    BY <2>1, <2>2, <1>1 DEF Shape
<1> QED
  BY <1>3, <1>4, <1>7, <1>8

LEMMA OneRemoved ==
  ASSUME NEW x
  PROVE  RemoveFirst(<<x>>, x) = <<>>
<1>1. PICK l : l = <<x>>
  OBVIOUS
<1>2. l \in Seq({x}) /\ Len(l) = 1 /\ l[1] = x /\ 1 \in 1..Len(l)
  BY <1>1
<1>3. RemoveFirst(SubSeq(l, 1, Len(l)), l[1]) = SubSeq(l, 1 + 1, Len(l))
  BY <1>2, HeadRemoved
<1>4. SubSeq(l, 1, 1) = l
  <2>1. PICK t : t = SubSeq(l, 1, 1)
    OBVIOUS
  <2>2. \A i \in 1..1 : l[i] \in {x}
    BY <1>2
  <2>3. t \in Seq({x}) /\ Len(t) = 1 /\ \A i \in 1..1 : t[i] = l[1 + i - 1]
    BY <2>1, <2>2, SubSeqProperties
  <2>4. Len(t) = Len(l) /\ \A i \in 1..Len(t) : t[i] = l[i]
    BY <2>3, <1>2
  <2>5. t = l
    BY <2>3, <2>4, <1>2, SeqEqual
  <2> QED
    BY <2>1, <2>5
<1>5. SubSeq(l, 2, 1) = <<>>
  BY SubSeqEmpty
<1>6. Len(l) = 1 /\ 1 + 1 = 2 /\ l[1] = x
  BY <1>2
<1>7. RemoveFirst(l, x) = <<>>
  BY <1>3, <1>4, <1>5, <1>6
<1> QED
  BY <1>1, <1>7

LEMMA TwoRemoved ==
  ASSUME NEW x, NEW y
  PROVE  RemoveFirst(<<x, y>>, x) = <<y>> /\ (x # y => RemoveFirst(<<x, y>>, y) = <<x>>)
<1>1. PICK l : l = <<x, y>>
  OBVIOUS
<1>2. l \in Seq({x, y}) /\ Len(l) = 2 /\ l[1] = x /\ l[2] = y /\ 1 \in 1..Len(l) /\ 2 \in 1..Len(l)
  BY <1>1
<1>3. RemoveFirst(l, x) = <<y>>
  <2>1. RemoveFirst(SubSeq(l, 1, Len(l)), l[1]) = SubSeq(l, 1 + 1, Len(l))
    BY <1>2, HeadRemoved
  <2>2. SubSeq(l, 1, Len(l)) = l
    BY <1>2, SubSeqFull
  <2>3. SubSeq(l, 2, 2) = <<y>>
    <3>1. PICK t, o : t = SubSeq(l, 2, 2) /\ o = <<y>>
      OBVIOUS
    <3>2. \A i \in 2..2 : l[i] \in {x, y}
      BY <1>2
    <3>3. t \in Seq({x, y}) /\ Len(t) = 1 /\ \A i \in 1..1 : t[i] = l[2 + i - 1]
      BY <3>1, <3>2, SubSeqProperties
    <3>4. o \in Seq({x, y}) /\ Len(o) = 1 /\ o[1] = y
      BY <3>1
    <3>5. Len(t) = Len(o) /\ \A i \in 1..Len(t) : t[i] = o[i]
      BY <3>3, <3>4, <1>2
    <3>6. t = o
      BY <3>3, <3>4, <3>5, SeqEqual
    <3> QED
      BY <3>1, <3>6
  <2>4. Len(l) = 2 /\ l[1] = x /\ 1 + 1 = 2
    BY <1>2
  <2> QED
    BY <2>1, <2>2, <2>3, <2>4
<1>4. ASSUME x # y PROVE RemoveFirst(l, y) = <<x>>
  <2>1. y \in Range(l)
    BY <1>2 DEF Range
  <2>2. PICK i \in 1..Len(l) : l[i] = y /\ RemoveFirst(l, y) = RemoveAt(l, i)
    BY <1>2, <2>1, FirstIs
  <2>3. i = 2
    BY <1>2, <1>4, <2>2
  <2>4. PICK t, o : t = RemoveAt(l, 2) /\ o = <<x>>
    OBVIOUS
  <2>5. t \in Seq({x, y}) /\ Len(t) = 1 /\ t[1] = x
    <3>1. /\ t \in Seq({x, y}) /\ Len(t) = Len(l) - 1
          /\ \A k \in 1..Len(l) - 1 : t[k] = IF k < 2 THEN l[k] ELSE l[k + 1]
      BY <1>2, <2>4, Cut
    <3> QED
      BY <3>1, <1>2
  <2>6. o \in Seq({x, y}) /\ Len(o) = 1 /\ o[1] = x
    BY <2>4
  <2>7. Len(t) = Len(o) /\ \A k \in 1..Len(t) : t[k] = o[k]
    BY <2>5, <2>6
  <2>8. t = o
    BY <2>5, <2>6, <2>7, SeqEqual
  <2> QED
    BY <2>2, <2>3, <2>4, <2>8
<1> QED
  BY <1>1, <1>3, <1>4

LEMMA FirstMade ==
  ASSUME NEW x
  PROVE  <<x>> \o <<>> = <<x>>
<1>1. PICK s, t : s = <<x>> \o <<>> /\ t = <<x>>
  OBVIOUS
<1>2. s \in Seq({x}) /\ Len(s) = 1 /\ s[1] = x
  BY <1>1
<1>3. t \in Seq({x}) /\ Len(t) = 1 /\ t[1] = x
  BY <1>1
<1>4. \A i \in 1..Len(s) : s[i] = t[i]
  BY <1>2, <1>3
<1>5. s = t
  BY <1>2, <1>3, <1>4, SeqEqual
<1> QED
  BY <1>1, <1>5

(* asset_hotreload: a lets go of what it shows, and shows s.               *)
Shown(m, a, old, s) ==
  AddChild(GetOrCreateSig(Released[Depth][<<RemoveChild(m, a, old), old>>], s), a, s)

LEMMA ShownIs ==
  ASSUME NEW e, NEW h, NEW away, EngineOK(e, h, away), NEW a \in Assets,
         Known(e.mem, a), NEW s \in Versions[a]
  PROVE  /\ EngineOK([mem |-> Shown(e.mem, a, Head(e.mem[a].figli), s), q1 |-> e.q1], h, away)
         /\ \A q \in Res :
              LET n == Shown(e.mem, a, Head(e.mem[a].figli), s)
              IN  /\ Known(n, q) /\ (Known(e.mem, q) => e.mem[q].ref > 0) => n[q].ref > 0
                  /\ Known(n, q) => q = s \/ Known(e.mem, q)
<1>0. /\ e.mem \in Memory /\ h \in [Res -> Nat] /\ away \in [Res -> Nat] /\ e.q1 \in Seq(Request)
      /\ Sound(e.mem, Base(h, away, e.q1)) /\ LoadsOK(e, h, away) /\ AssetsShow(e.mem)
  BY DEF EngineOK, LoadsOK, Sound
<1>1. PICK m, q1a : m \in Memory /\ q1a \in Seq(Request) /\ m = e.mem /\ q1a = e.q1
  BY <1>0
<1>2. PICK old : old \in Versions[a] /\ m[a].figli = <<old>> /\ Head(m[a].figli) = old
  BY <1>0, <1>1 DEF AssetsShow, AssetShows
<1>3. /\ s \in Sigs /\ s \in Res /\ old \in Sigs /\ old \in Res /\ a \in Res
      /\ a # s /\ a # old /\ s \notin Assets /\ old \notin Assets
      /\ Layer[s] < Layer[a] /\ Layer[old] < Layer[a] /\ Layer[a] \in Nat /\ Layer[old] \in Nat
  BY <1>2, StatusesDiffer, Res2Assumption, LayerAssumption
<1>4. old \in Range(m[a].figli)
  <2>1. PICK l : l = m[a].figli
    OBVIOUS
  <2>2. DOMAIN l = 1..1 /\ l[1] = old
    BY <2>1, <1>2
  <2> QED
    BY <2>1, <2>2 DEF Range
<1>5. PICK m1 : m1 = RemoveChild(m, a, old)
  OBVIOUS
<1>6. /\ Sound(m1, More(Base(h, away, q1a), old))
      /\ \A p \in Res : /\ m1[p].status = m[p].status /\ m1[p].ref = m[p].ref
                        /\ m1[p].figli = IF p = a THEN RemoveFirst(m[a].figli, old) ELSE m[p].figli
  BY <1>0, <1>1, <1>3, <1>4, <1>5, SoundRemoveChild
<1>7. m1[a].figli = <<>>
  <2>1. RemoveFirst(<<old>>, old) = <<>>
    BY OneRemoved
  <2> QED
    BY <2>1, <1>2, <1>3, <1>6
<1>8. PICK h1 : h1 = More(h, old)
  OBVIOUS
<1>9. h1 \in [Res -> Nat] /\ h1[old] > 0 /\ Fewer(h1, old) = h /\ Sound(m1, Base(h1, away, q1a))
  <2>1. More(Base(h, away, q1a), old) = Base(More(h, old), away, q1a)
    <3>1. h \in [Res -> Nat] /\ away \in [Res -> Nat] /\ q1a \in Seq(Request) /\ old \in Res
      BY <1>0, <1>1, <1>3
    <3> QED
      BY <3>1, BaseMore
  <2>2. h1 \in [Res -> Nat] /\ h1[old] > 0 /\ Fewer(h1, old) = h
    BY <1>0, <1>3, <1>8, FewerOfMore
  <2> QED
    BY <2>1, <2>2, <1>6, <1>8
<1>10. PICK e1 : e1 = [mem |-> m1, q1 |-> q1a]
  OBVIOUS
<1>11. LoadsOK(e1, h1, away) /\ e1.mem = m1 /\ e1.q1 = q1a
  <2>1. \A p \in Sigs : Known(m1, p) => m1[p].status = e.mem[p].status
    BY <1>1, <1>6, StatusesDiffer
  <2>2. LoadsOK([mem |-> m1, q1 |-> e.q1], h1, away)
    BY <2>1, <1>0, <1>1, <1>9, LoadsSame
  <2> QED
    BY <2>2, <1>1, <1>10
<1>12. PICK m2 : m2 = Released[Depth][<<m1, old>>]
  OBVIOUS
<1>13. PICK e2 : e2 = [mem |-> m2, q1 |-> q1a]
  OBVIOUS
<1>14. LoadsOK(e2, h, away) /\ Spares(m1, m2, old) /\ e2.mem = m2 /\ e2.q1 = q1a
  <2>1. /\ LoadsOK([mem |-> Released[Depth][<<e1.mem, old>>], q1 |-> e1.q1], Fewer(h1, old), away)
        /\ Spares(e1.mem, Released[Depth][<<e1.mem, old>>], old)
    BY <1>3, <1>9, <1>11, ReleaseLoads
  <2> QED
    BY <2>1, <1>9, <1>11, <1>12, <1>13
<1>15. Sound(m2, Base(h, away, q1a)) /\ m2 \in Memory
  BY <1>14 DEF LoadsOK, Sound
<1>16. PICK m3 : m3 = GetOrCreateSig(m2, s)
  OBVIOUS
<1>17. /\ Sound(m3, More(Base(h, away, q1a), s))
       /\ \A p \in Res :
            /\ m3[p].status = IF p = s /\ ~Known(m2, s) THEN "unloaded" ELSE m2[p].status
            /\ m3[p].figli = m2[p].figli
            /\ m3[p].ref = IF p = s THEN m2[p].ref + 1 ELSE m2[p].ref
  BY <1>3, <1>15, <1>16, GetOrCreateSigIs
<1>18. PICK b : b = Base(h, away, q1a)
  OBVIOUS
<1>19. b \in [Res -> Nat] /\ More(b, s)[s] > 0 /\ Fewer(More(b, s), s) = b
  <2>1. b \in [Res -> Nat]
    BY <1>0, <1>1, <1>18, BaseType
  <2> QED
    BY <2>1, <1>3, FewerOfMore
<1>20. Known(m2, a) /\ m2[a].status = m[a].status /\ m2[a].figli = <<>> /\ Known(m3, a)
  <2>1. m2[a].status = m1[a].status /\ m2[a].figli = m1[a].figli
    BY <1>3, <1>14 DEF Spares, SameHandle
  <2> QED
    BY <2>1, <1>1, <1>3, <1>6, <1>7, <1>17 DEF Known
<1>21. PICK n : n = AddChild(m3, a, s)
  OBVIOUS
<1>22. /\ Sound(n, b)
       /\ \A p \in Res : /\ n[p].status = m3[p].status /\ n[p].ref = m3[p].ref
                         /\ n[p].figli = IF p = a THEN <<s>> \o m3[p].figli ELSE m3[p].figli
  <2>1. /\ Sound(n, Fewer(More(b, s), s))
        /\ \A p \in Res : /\ n[p].status = m3[p].status /\ n[p].ref = m3[p].ref
                          /\ n[p].figli = IF p = a THEN <<s>> \o m3[p].figli ELSE m3[p].figli
    BY <1>3, <1>17, <1>18, <1>19, <1>20, <1>21, SoundAddChild
  <2> QED
    BY <2>1, <1>19
<1>23. PICK w : w = [mem |-> n, q1 |-> q1a]
  OBVIOUS
<1>24. LoadsOK(w, h, away) /\ w.mem = n
  <2>1. \A p \in Sigs : Known(n, p) =>
          n[p].status = e2.mem[p].status \/ (~Known(e2.mem, p) /\ n[p].status = "unloaded")
    BY <1>14, <1>17, <1>22, StatusesDiffer
  <2>2. Sound(n, Base(h, away, e2.q1))
    BY <1>14, <1>18, <1>22
  <2>3. LoadsOK([mem |-> n, q1 |-> e2.q1], h, away)
    BY <2>1, <2>2, <1>0, <1>14, LoadsSame
  <2> QED
    BY <2>3, <1>14, <1>23
<1>25. AssetsShow(n)
  <2>1. AssetShows(n, a)
    <3>1. n[a].figli = <<s>> \o m3[a].figli
      BY <1>3, <1>22
    <3>2. n[a].figli = <<s>> /\ n[a].status = m[a].status
      BY <3>1, <1>3, <1>17, <1>20, <1>22, FirstMade
    <3>3. m[a].status = "ready"
      BY <1>0, <1>1 DEF AssetsShow, AssetShows
    <3> QED
      BY <3>2, <3>3 DEF AssetShows
  <2>2. ASSUME NEW x \in Assets, x # a, Known(n, x) PROVE AssetShows(n, x)
    <3>1. x \in Res /\ x # s
      BY <1>3, StatusesDiffer
    <3>2. n[x].status = m2[x].status /\ n[x].figli = m2[x].figli
      BY <3>1, <2>2, <1>17, <1>22
    <3>3. Known(m2, x) /\ SameHandle(m1, m2, x)
      BY <3>1, <3>2, <2>2, <1>14 DEF Spares, Survives, Known
    <3>4. n[x].status = m[x].status /\ n[x].figli = m[x].figli /\ Known(m, x)
      BY <3>1, <3>2, <3>3, <2>2, <1>6 DEF SameHandle, Known
    <3> QED
      BY <3>4, <1>0, <1>1 DEF AssetsShow, AssetShows
  <2> QED
    BY <2>1, <2>2 DEF AssetsShow
<1>26. EngineOK(w, h, away)
  BY <1>24, <1>25, EngineIs
<1>27. ASSUME NEW p \in Res, Known(n, p), Known(m, p) => m[p].ref > 0 PROVE n[p].ref > 0
  <2>1. m2[p].ref \in Int
    BY <1>15, ListsType
  <2>2. Known(m2, p) => Known(m1, p) /\ (m1[p].ref > 0 => m2[p].ref > 0)
    BY <1>14 DEF Spares, Survives
  <2>3. Known(m2, p) => m2[p].ref > 0
    BY <2>2, <1>6, <1>27 DEF Known
  <2>4. ~Known(m2, p) => p = s /\ m2[p].ref = 0
    BY <1>15, <1>17, <1>22, <1>27 DEF Known, Sound, FreeUnused
  <2> QED
    BY <2>1, <2>3, <2>4, <1>17, <1>22
<1>28. n = Shown(e.mem, a, Head(e.mem[a].figli), s)
  BY <1>1, <1>2, <1>5, <1>12, <1>16, <1>21 DEF Shown
<1>29. ASSUME NEW p \in Res, Known(n, p) PROVE p = s \/ Known(m, p)
  BY <1>6, <1>14, <1>17, <1>22, <1>29 DEF Spares, Survives, Known
<1> QED
  BY <1>1, <1>23, <1>26, <1>27, <1>28, <1>29

LEMMA HotReloadKeeps ==
  ASSUME Shape, NEW lost, Consistent(lost), app' = app,
         NEW a \in Assets, NEW s \in Versions[a], HotReload(a, s)
  PROVE  Shape' /\ Consistent(lost)'
<1>1. /\ Known(mem, a) /\ Idle /\ reloads < MaxReload /\ reloads' = reloads + 1
      /\ db' = [db EXCEPT ![a] = s] /\ UNCHANGED <<target, held, q1, q2, todo>>
  BY DEF HotReload
<1>2. PICK n : n = Shown(mem, a, Head(mem[a].figli), s)
  OBVIOUS
<1>3. mem' = n
  BY <1>2 DEF HotReload, Shown
<1>4. /\ EngineOK([mem |-> n, q1 |-> q1], held, Away(lost))
      /\ \A q \in Res : /\ Known(n, q) /\ (Known(mem, q) => mem[q].ref > 0) => n[q].ref > 0
                        /\ Known(n, q) => q = s \/ Known(mem, q)
  <2>1. EngineOK(Engine, held, Away(lost)) /\ Engine.mem = mem /\ Engine.q1 = q1
    BY AwayType
  <2>2. /\ EngineOK([mem |-> Shown(Engine.mem, a, Head(Engine.mem[a].figli), s), q1 |-> Engine.q1],
                    held, Away(lost))
        /\ \A q \in Res :
             LET k == Shown(Engine.mem, a, Head(Engine.mem[a].figli), s)
             IN  /\ Known(k, q) /\ (Known(Engine.mem, q) => Engine.mem[q].ref > 0) => k[q].ref > 0
                 /\ Known(k, q) => q = s \/ Known(Engine.mem, q)
    BY <2>1, <1>1, ShownIs
  <2> QED
    BY <2>1, <2>2, <1>2
<1>5. Calm => LoaderIdle
  BY DEF Calm, HotReload
<1>6. Consistent(lost)'
  <2>1. \A q \in Hands : Known(n, q) => Known(mem, q)
    BY <1>4, Res2Assumption, StatusesDiffer
  <2> QED
    BY <2>1, <1>1, <1>3, <1>4, <1>5, TakeStep
<1>7. Shape'
  <2>1. s \in Sigs
    BY Res2Assumption
  <2>2. reloads' \in 0..MaxReload
    BY <1>1, Res2Assumption DEF Shape
  <2>3. db' \in [Assets -> Sigs] /\ \A x \in Assets : db'[x] \in Versions[x]
    BY <2>1, <1>1 DEF Shape
  <2> QED
    BY <2>2, <2>3, <1>1 DEF Shape
<1> QED
  BY <1>6, <1>7

-----------------------------------------------------------------------------
(* Loads that move.                                                        *)

LEMMA EngineMoves ==
  ASSUME NEW e, NEW h, NEW away, EngineOK(e, h, away),
         NEW away2 \in [Res -> Nat], NEW q \in Seq(Request),
         \A r \in Res : away2[r] + Loads(q, r) = away[r] + Loads(e.q1, r)
  PROVE  EngineOK([mem |-> e.mem, q1 |-> q], h, away2)
<1>0. /\ e.mem \in Memory /\ h \in [Res -> Nat] /\ away \in [Res -> Nat] /\ e.q1 \in Seq(Request)
      /\ Sound(e.mem, Base(h, away, e.q1)) /\ LoadingOnce(e.mem, away, e.q1) /\ AssetsShow(e.mem)
  BY DEF EngineOK, Sound
<1>1. PICK m, p : m \in Memory /\ p \in Seq(Request) /\ m = e.mem /\ p = e.q1
  BY <1>0
<1>2. PICK w : w = [mem |-> m, q1 |-> q]
  OBVIOUS
<1>3. w.mem = m /\ w.q1 = q /\ w \in EngineSet
  BY <1>1, <1>2, RequestsAreMessages DEF EngineSet
<1>4. Base(h, away2, q) = Base(h, away, p)
  <2>1. PICK b, c : b = Base(h, away, p) /\ c = Base(h, away2, q)
    OBVIOUS
  <2>2. /\ b \in [Res -> Nat] /\ c \in [Res -> Nat]
        /\ \A r \in Res : /\ b[r] = h[r] + away[r] + Loads(p, r) /\ Loads(p, r) \in Nat
                          /\ c[r] = h[r] + away2[r] + Loads(q, r) /\ Loads(q, r) \in Nat
    <3>1. h \in [Res -> Nat] /\ away \in [Res -> Nat] /\ p \in Seq(Request)
      BY <1>0, <1>1
    <3>2. /\ Base(h, away, p) \in [Res -> Nat]
          /\ \A r \in Res : Base(h, away, p)[r] = h[r] + away[r] + Loads(p, r) /\ Loads(p, r) \in Nat
      BY <3>1, BaseType
    <3>3. /\ Base(h, away2, q) \in [Res -> Nat]
          /\ \A r \in Res : Base(h, away2, q)[r] = h[r] + away2[r] + Loads(q, r) /\ Loads(q, r) \in Nat
      BY <3>1, BaseType
    <3> QED
      BY <3>2, <3>3, <2>1
  <2>3. ASSUME NEW r \in Res PROVE b[r] = c[r]
    <3>1. away2[r] + Loads(q, r) = away[r] + Loads(e.q1, r)
      OBVIOUS
    <3>2. PICK i, j, k, x, y : /\ i = h[r] /\ j = away[r] /\ k = away2[r]
                               /\ x = Loads(p, r) /\ y = Loads(q, r)
      OBVIOUS
    <3>3. i \in Nat /\ j \in Nat /\ k \in Nat
      BY <1>0, <3>2
    <3>4. b[r] = i + j + x /\ x \in Nat /\ c[r] = i + k + y /\ y \in Nat
      BY <2>2, <3>2
    <3>5. k + y = j + x
      BY <3>1, <3>2, <1>1
    <3> QED
      BY <3>3, <3>4, <3>5
  <2>4. b = c
    BY <2>2, <2>3
  <2> QED
    BY <2>1, <2>4
<1>5. LoadingOnce(m, away2, q)
  BY <1>0, <1>1, StatusesDiffer DEF LoadingOnce
<1>6. EngineOK(w, h, away2)
  BY <1>0, <1>1, <1>3, <1>4, <1>5 DEF EngineOK
<1> QED
  BY <1>1, <1>2, <1>6

LEMMA FewerIs ==
  ASSUME NEW b \in [Res -> Nat], NEW r \in Res, b[r] > 0
  PROVE  Fewer(b, r) \in [Res -> Nat] /\ \A x \in Res : Fewer(b, r)[x] = IF x = r THEN b[x] - 1 ELSE b[x]
BY DEF Fewer

LEMMA MoreIs ==
  ASSUME NEW b \in [Res -> Nat], NEW r \in Res
  PROVE  More(b, r) \in [Res -> Nat] /\ \A x \in Res : More(b, r)[x] = IF x = r THEN b[x] + 1 ELSE b[x]
BY DEF More

(* A load ends: its reference goes, and s is not loading any more.         *)
Ended(m, s, status) == DecRefCount(ChangeState(m, s, status), s)

LEMMA LoadEnds ==
  ASSUME NEW e, NEW h, NEW away, EngineOK(e, h, away), NEW s \in Sigs, away[s] > 0,
         NEW status \in {"ready", "error"}
  PROVE  /\ EngineOK([mem |-> Ended(e.mem, s, status), q1 |-> e.q1], h, Fewer(away, s))
         /\ Kept(e.mem, Ended(e.mem, s, status))
<1>0. /\ h \in [Res -> Nat] /\ away \in [Res -> Nat] /\ s \in Res /\ s \notin Assets /\ s \notin Hands
      /\ Sound(e.mem, Base(h, away, e.q1)) /\ LoadingOnce(e.mem, away, e.q1) /\ AssetsShow(e.mem)
      /\ LoadsOK(e, h, away)
  BY StatusesDiffer DEF EngineOK, LoadsOK
<1>1. PICK m, q : m \in Memory /\ q \in Seq(Request) /\ m = e.mem /\ q = e.q1
  BY DEF EngineOK, Sound
<1>2. /\ m[s].status = "loading" /\ Known(m, s) /\ away[s] = 1 /\ Loads(q, s) = 0
      /\ Base(h, away, q)[s] > 0
  BY <1>0, <1>1, AwayExists
<1>3. PICK b : b = Base(h, away, q)
  OBVIOUS
<1>4. PICK m1 : m1 = ChangeState(m, s, status)
  OBVIOUS
<1>5. /\ Sound(m1, b)
      /\ \A p \in Res : /\ m1[p].status = IF p = s THEN status ELSE m[p].status
                        /\ m1[p].figli = m[p].figli /\ m1[p].ref = m[p].ref
  <2>1. status \in Status \ {"free"} /\ Sound(m, b)
    BY <1>0, <1>1, <1>3 DEF Status
  <2> QED
    BY <2>1, <1>0, <1>2, <1>4, SoundStatus
<1>6. PICK n : n = DecRefCount(m1, s)
  OBVIOUS
<1>7. /\ Sound(n, Fewer(b, s)) /\ n \in Memory /\ n[s].ref = m1[s].ref - 1
      /\ \A p \in Res : /\ n[p].status = m1[p].status /\ n[p].figli = m1[p].figli
                        /\ p # s => n[p].ref = m1[p].ref
  <2>1. b[s] > 0
    BY <1>2, <1>3
  <2>2. /\ Sound(n, Fewer(b, s)) /\ n[s].ref = m1[s].ref - 1
        /\ \A p \in Res : /\ n[p].status = m1[p].status /\ n[p].figli = m1[p].figli
                          /\ p # s => n[p].ref = m1[p].ref
    BY <2>1, <1>0, <1>5, <1>6, SoundDec
  <2> QED
    BY <2>2 DEF Sound
<1>8. PICK a : a = Fewer(away, s)
  OBVIOUS
<1>9. a \in [Res -> Nat] /\ \A x \in Res : a[x] = IF x = s THEN 0 ELSE away[x]
  BY <1>0, <1>2, <1>8, FewerIs
<1>10. Fewer(b, s) = Base(h, a, q)
  <2>1. PICK c : c = Base(h, a, q)
    OBVIOUS
  <2>2. /\ b \in [Res -> Nat] /\ c \in [Res -> Nat]
        /\ \A r \in Res : /\ b[r] = h[r] + away[r] + Loads(q, r) /\ Loads(q, r) \in Nat
                          /\ c[r] = h[r] + a[r] + Loads(q, r)
    <3>1. h \in [Res -> Nat] /\ away \in [Res -> Nat] /\ a \in [Res -> Nat] /\ q \in Seq(Request)
      BY <1>0, <1>1, <1>9
    <3>2. /\ Base(h, away, q) \in [Res -> Nat]
          /\ \A r \in Res : Base(h, away, q)[r] = h[r] + away[r] + Loads(q, r) /\ Loads(q, r) \in Nat
      BY <3>1, BaseType
    <3>3. /\ Base(h, a, q) \in [Res -> Nat]
          /\ \A r \in Res : Base(h, a, q)[r] = h[r] + a[r] + Loads(q, r)
      BY <3>1, BaseType
    <3> QED
      BY <3>2, <3>3, <2>1, <1>3
  <2>3. PICK d : d = Fewer(b, s)
    OBVIOUS
  <2>4. d \in [Res -> Nat] /\ \A r \in Res : d[r] = IF r = s THEN b[r] - 1 ELSE b[r]
    BY <2>2, <2>3, <1>0, <1>2, <1>3, FewerIs
  <2>5. ASSUME NEW r \in Res PROVE d[r] = c[r]
    <3>1. h[r] \in Nat /\ away[r] \in Nat
      BY <1>0
    <3> QED
      BY <3>1, <2>2, <2>4, <1>2, <1>9
  <2>6. d = c
    BY <2>2, <2>4, <2>5
  <2> QED
    BY <2>1, <2>3, <2>6
<1>11. PICK w : w = [mem |-> n, q1 |-> q]
  OBVIOUS
<1>12. w.mem = n /\ w.q1 = q /\ w \in EngineSet
  BY <1>1, <1>7, <1>11, RequestsAreMessages DEF EngineSet
<1>13. LoadingOnce(n, a, q)
  <2>1. ASSUME NEW t \in Sigs
        PROVE  a[t] + Loads(q, t) = IF n[t].status = "loading" THEN 1 ELSE 0
    <3>1. t \in Res
      BY StatusesDiffer
    <3>2. away[t] + Loads(q, t) = IF m[t].status = "loading" THEN 1 ELSE 0
      BY <1>0, <1>1 DEF LoadingOnce
    <3>3. CASE t = s
      BY <3>3, <1>0, <1>2, <1>5, <1>7, <1>9
    <3>4. CASE t # s
      BY <3>1, <3>2, <3>4, <1>5, <1>7, <1>9
    <3> QED
      BY <3>3, <3>4
  <2> QED
    BY <2>1 DEF LoadingOnce
<1>14. AssetsShow(n)
  <2>1. \A x \in Assets : x \in Res /\ x # s
    BY <1>0, StatusesDiffer
  <2> QED
    BY <2>1, <1>0, <1>1, <1>5, <1>7 DEF AssetsShow, AssetShows, Known
<1>15. EngineOK(w, h, a)
  <2>1. Sound(w.mem, Base(h, a, w.q1)) /\ LoadingOnce(w.mem, a, w.q1) /\ AssetsShow(w.mem)
    BY <1>7, <1>10, <1>12, <1>13, <1>14
  <2> QED
    BY <2>1, <1>0, <1>1, <1>9, <1>12 DEF EngineOK
<1>16. Kept(m, n)
  <2>1. ASSUME NEW p \in Res PROVE Slack(n, p) >= Slack(m, p)
    <3>1. m[p].ref \in Int
      BY <1>1, ListsType
    <3>2. CASE p = s
      <4>1. n[s].status = status /\ n[s].ref = m[s].ref - 1 /\ status # "loading" /\ status # "free"
        BY <1>0, <1>5, <1>7
      <4>2. Slack(n, s) = m[s].ref - 1 - 1 - 0
        BY <4>1 DEF Slack, Known
      <4>3. Slack(m, s) = m[s].ref - 1 - 1
        BY <1>2 DEF Slack
      <4> QED
        BY <3>1, <3>2, <4>2, <4>3
    <3>3. CASE p # s
      <4>1. n[p].status = m[p].status /\ n[p].ref = m[p].ref
        BY <3>3, <1>5, <1>7
      <4> QED
        BY <4>1, <3>1 DEF Slack, Known
    <3> QED
      BY <3>2, <3>3
  <2>2. \A p \in Assets \union Hands : p \in Res /\ p # s
    BY <1>0, StatusesDiffer
  <2> QED
    BY <2>1, <2>2, <1>5, <1>7 DEF Kept, Known
<1> QED
  BY <1>1, <1>4, <1>6, <1>8, <1>11, <1>15, <1>16 DEF Ended

(* The state after a step whose loads have been accounted for.             *)
LEMMA Closes ==
  ASSUME NEW lost, Consistent(lost), NEW l \in [Res -> Nat], app' = app,
         \A r \in Res : r \notin Sigs \/ LoaderSucceeds => l[r] = 0,
         NEW e, EngineOK(e, held, Away(l)'), mem' = e.mem, q1' = e.q1, held' = held,
         Kept(mem, mem'), \A r \in Res : l[r] >= lost[r]
  PROVE  Consistent(l)'
<1>1. LoaderSucceeds' = LoaderSucceeds /\ Calm' = Calm
  BY DEF LoaderSucceeds, Calm
<1>2. e \in EngineSet /\ e.mem \in Memory
  BY EngineOKType
<1>3. Engine' = e
  BY <1>2 DEF Engine, EngineSet
<1>4. LostLoads(l)'
  BY <1>1 DEF LostLoads
<1>5. ASSUME Calm, NEW r \in Res PROVE Slack(mem', r) + l[r] >= 0
  <2>1. lost[r] \in Nat /\ Slack(mem, r) + lost[r] >= 0 /\ l[r] \in Nat /\ l[r] >= lost[r]
    BY <1>5 DEF Consistent, LostLoads
  <2>2. Slack(mem, r) \in Int /\ Slack(mem', r) \in Int
    BY <1>2, AwayType, SlackType
  <2>3. Slack(mem', r) >= Slack(mem, r)
    BY DEF Kept
  <2> QED
    BY <2>1, <2>2, <2>3
<1>6. EngineOK(Engine', held', Away(l)')
  BY <1>3
<1>7. Calm => NoMaterials'
  BY DEF Consistent, NoMaterials, Kept
<1> QED
  BY <1>1, <1>4, <1>5, <1>6, <1>7 DEF Consistent

LEMMA ReplyLoads ==
  ASSUME NEW l \in Seq(Reply), l # <<>>
  PROVE  /\ Head(l) \in Reply /\ Tail(l) \in Seq(Reply)
         /\ Head(l).what = "FINISHED_KO" => \A r \in Res : Loads(l, r) = Loads(Tail(l), r)
         /\ Head(l).what # "FINISHED_KO" =>
              /\ Head(l).descr \in Sigs
              /\ \A r \in Res : Loads(l, r) = Loads(Tail(l), r) + (IF r = Head(l).descr THEN 1 ELSE 0)
<1>1. PICK x, t : x = Head(l) /\ t = Tail(l)
  OBVIOUS
<1>2. /\ x \in Reply /\ t \in Seq(Reply)
      /\ \A r : Loads(l, r) = Loads(t, r) + (IF Carries(x, r) THEN 1 ELSE 0)
  BY <1>1, LoadsTail
<1>3. \A r : Loads(t, r) \in Nat
  BY <1>2, LoadsType
<1>4. ASSUME x.what = "FINISHED_KO", NEW r \in Res PROVE Loads(l, r) = Loads(t, r)
  <2>1. ~Carries(x, r)
    BY <1>2, <1>4, Res2Assumption DEF Reply, Carries
  <2> QED
    BY <2>1, <1>2, <1>3
<1>5. ASSUME x.what # "FINISHED_KO"
      PROVE  /\ x.descr \in Sigs
             /\ \A r \in Res : Loads(l, r) = Loads(t, r) + (IF r = x.descr THEN 1 ELSE 0)
  <2>1. x.descr \in Sigs /\ x.what # "LOAD_FINISHED"
    BY <1>2, <1>5 DEF Reply
  <2>2. \A r : Carries(x, r) <=> r = x.descr
    BY <2>1 DEF Carries
  <2> QED
    BY <2>1, <2>2, <1>2
<1> QED
  BY <1>1, <1>2, <1>4, <1>5

LEMMA FlushPopKeeps ==
  ASSUME Shape, NEW lost, Consistent(lost), app' = app, FlushPop
  PROVE  Shape' /\ Consistent(lost)'
<1>1. todo = <<>> /\ q2 # <<>> /\ UNCHANGED <<mem, target, db, held, q1, reloads>> /\ q2 \in Seq(Reply)
  BY DEF FlushPop, Shape
<1>2. PICK n : n = Min({MaxFlush, Len(q2)})
  OBVIOUS
<1>3. todo' = SubSeq(q2, 1, n) /\ q2' = SubSeq(q2, n + 1, Len(q2))
  BY <1>2 DEF FlushPop
<1>4. n \in 0..Len(q2)
  <2>1. MaxFlush \in Nat /\ Len(q2) \in Nat
    BY <1>1, Res2Assumption
  <2>2. {MaxFlush, Len(q2)} \in SUBSET Nat /\ {MaxFlush, Len(q2)} # {} /\ Len(q2) \in {MaxFlush, Len(q2)}
    BY <2>1
  <2>3. n \in {MaxFlush, Len(q2)} /\ n <= Len(q2)
    BY <2>2, <1>2, MinIsLeast
  <2> QED
    BY <2>1, <2>3
<1>5. todo' \o q2' = q2
  <2>1. 1 \in 1..Len(q2) + 1 /\ n \in 1 - 1..Len(q2) /\ Len(q2) \in n..Len(q2)
    BY <1>1, <1>4
  <2>2. SubSeq(q2, 1, n) \o SubSeq(q2, n + 1, Len(q2)) = SubSeq(q2, 1, Len(q2))
    BY <2>1, <1>1, ConcatAdjacentSubSeq
  <2>3. SubSeq(q2, 1, Len(q2)) = q2
    BY <1>1, SubSeqFull
  <2> QED
    BY <2>2, <2>3, <1>3
<1>6. todo' \in Seq(Reply) /\ q2' \in Seq(Reply)
  <2>1. \A i \in 1..Len(q2) : q2[i] \in Reply
    BY <1>1
  <2>2. /\ 1 \in Int /\ n \in Int /\ n + 1 \in Int /\ Len(q2) \in Int
        /\ \A i \in 1..n : q2[i] \in Reply
        /\ \A i \in n + 1..Len(q2) : q2[i] \in Reply
    BY <2>1, <1>1, <1>4
  <2> QED
    BY <2>2, <1>3, SubSeqProperties
<1>7. \A r \in Res : Loads(todo', r) + Loads(q2', r) = Loads(todo, r) + Loads(q2, r)
  <2>1. ASSUME NEW r \in Res PROVE Loads(todo', r) + Loads(q2', r) = Loads(todo, r) + Loads(q2, r)
    <3>1. Loads(todo' \o q2', r) = Loads(todo', r) + Loads(q2', r)
      BY <1>6, LoadsConcat
    <3>2. Loads(todo, r) = 0
      BY <1>1, LoadsNone
    <3>3. Loads(q2, r) \in Nat
      BY <1>1, LoadsType
    <3> QED
      BY <3>1, <3>2, <3>3, <1>5
  <2> QED
    BY <2>1
<1>8. Away(lost)' = Away(lost)
  BY <1>7 DEF Away
<1>9. Consistent(lost)'
  <2>1. Engine' = Engine /\ Calm' = Calm /\ LostLoads(lost)' = LostLoads(lost) /\ NoMaterials' = NoMaterials
    BY <1>1 DEF Engine, Calm, LostLoads, LoaderSucceeds, NoMaterials
  <2> QED
    BY <2>1, <1>1, <1>8 DEF Consistent
<1>10. Shape'
  BY <1>1, <1>6 DEF Shape
<1> QED
  BY <1>9, <1>10

LEMMA AnswerIs ==
  ASSUME NEW m \in Request, m.what # "LOAD_FINISHED"
  PROVE  /\ m.descr \in Sigs /\ m.descr \in Res /\ Answer(m) \in Reply
         /\ \A r : Carries(Answer(m), r) <=> r = m.descr
<1>1. m \in Message /\ m.descr \in Sigs /\ m.descr \in Res
  BY StatusesDiffer DEF Request
<1>2. /\ Answer(m).descr = m.descr /\ Answer(m).step \in 0..2
      /\ Answer(m).what \in {"FINISHED_OK", "WANT_CALLBACK"}
      /\ Answer(m).what = "FINISHED_OK" => Kind[m.descr] = "direct" \/ Answer(m).step = 2
      /\ Answer(m) = Msg(Answer(m).what, Answer(m).descr, Answer(m).step)
  BY DEF Answer, Msg
<1>3. Answer(m) \in Message
  BY <1>1, <1>2 DEF Msg, Message, ToEngine
<1>4. Answer(m) \in Reply
  BY <1>1, <1>2, <1>3 DEF Reply
<1> QED
  BY <1>1, <1>2, <1>4 DEF Carries

LEMMA LoaderStepKeeps ==
  ASSUME Shape, NEW lost, Consistent(lost), app' = app, LoaderStep
  PROVE  Shape' /\ \E l : Consistent(l)'
<1>0. /\ q1 # <<>> /\ q1' = Tail(q1) /\ UNCHANGED <<mem, target, db, held, todo, reloads>>
      /\ q1 \in Seq(Request) /\ q2 \in Seq(Reply) /\ todo \in Seq(Reply) /\ lost \in [Res -> Nat]
      /\ Away(lost) \in [Res -> Nat] /\ EngineOK(Engine, held, Away(lost)) /\ Engine.mem = mem /\ Engine.q1 = q1
      /\ mem \in Memory
  BY AwayType DEF LoaderStep, Shape, Consistent, LostLoads
<1>1. PICK x, t : x = Head(q1) /\ t = Tail(q1)
  OBVIOUS
<1>2. /\ x \in Request /\ t \in Seq(Request)
      /\ \A r : Loads(q1, r) = Loads(t, r) + (IF Carries(x, r) THEN 1 ELSE 0)
      /\ \A r : Loads(t, r) \in Nat /\ Loads(q2, r) \in Nat /\ Loads(todo, r) \in Nat
  BY <1>0, <1>1, LoadsTail, LoadsType
<1>3. Kept(mem, mem') /\ mem' = mem
  BY <1>0, KeptSelf
<1>4. \A r \in Res : r \notin Sigs \/ LoaderSucceeds => lost[r] = 0
  BY DEF Consistent, LostLoads
<1>5. ASSUME NEW l \in [Res -> Nat], q2' \in Seq(Reply),
             \A r \in Res : r \notin Sigs \/ LoaderSucceeds => l[r] = 0,
             \A r \in Res : l[r] >= lost[r],
             \A r \in Res : Loads(q2', r) + l[r] = Loads(q2, r) + lost[r] + (IF Carries(x, r) THEN 1 ELSE 0)
      PROVE  Shape' /\ Consistent(l)'
  <2>1. PICK a : a = Away(l)'
    OBVIOUS
  <2>2. /\ a \in [Res -> Nat]
        /\ \A r \in Res : a[r] = Loads(todo, r) + Loads(q2', r) + l[r] /\ Loads(q2', r) \in Nat
    <3>1. \A r \in Res : Loads(q2', r) \in Nat
      BY <1>5, LoadsType
    <3>2. todo' = todo
      BY <1>0
    <3> QED
      BY <2>1, <3>1, <3>2, <1>2, <1>5 DEF Away
  <2>3. \A r \in Res : Away(lost)[r] = Loads(todo, r) + Loads(q2, r) + lost[r]
    BY DEF Away
  <2>4. \A r \in Res : a[r] + Loads(t, r) = Away(lost)[r] + Loads(q1, r)
    <3>1. ASSUME NEW r \in Res PROVE a[r] + Loads(t, r) = Away(lost)[r] + Loads(q1, r)
      <4>1. PICK i \in Nat, j \in Nat, k \in Nat, u \in Nat, v \in Nat, w \in Nat :
              /\ i = Loads(todo, r) /\ j = Loads(q2, r) /\ k = Loads(q2', r)
              /\ u = l[r] /\ v = lost[r] /\ w = Loads(t, r)
        BY <1>0, <1>2, <1>5, <2>2
      <4>2. a[r] = i + k + u /\ Away(lost)[r] = i + j + v
        BY <4>1, <2>2, <2>3
      <4>3. k + u = j + v + (IF Carries(x, r) THEN 1 ELSE 0)
        BY <4>1, <1>5
      <4>4. Loads(q1, r) = w + (IF Carries(x, r) THEN 1 ELSE 0)
        BY <4>1, <1>2
      <4> QED
        BY <4>1, <4>2, <4>3, <4>4
    <3> QED
      BY <3>1
  <2>5. PICK e : e = [mem |-> mem, q1 |-> t]
    OBVIOUS
  <2>6. EngineOK(e, held, a)
    <3>1. \A r \in Res : a[r] + Loads(t, r) = Away(lost)[r] + Loads(Engine.q1, r)
      BY <2>4, <1>0
    <3>2. EngineOK([mem |-> Engine.mem, q1 |-> t], held, a)
      BY <3>1, <2>2, <1>0, <1>2, EngineMoves
    <3> QED
      BY <3>2, <2>5, <1>0
  <2>7. mem' = e.mem /\ q1' = e.q1 /\ held' = held
    BY <2>5, <1>0, <1>1
  <2>8. Consistent(l)'
    BY <2>1, <2>6, <2>7, <1>3, <1>5, Closes
  <2>9. Shape'
    BY <1>0, <1>5 DEF Shape
  <2> QED
    BY <2>8, <2>9
<1>6. \/ x.what = "LOAD_FINISHED" /\ q2' = q2
      \/ x.what # "LOAD_FINISHED" /\ q2' = Append(q2, Answer(x))
      \/ x.what # "LOAD_FINISHED" /\ "loader" \in app.fails /\ q2' = Append(q2, Msg("FINISHED_KO", None, 0))
  BY <1>1 DEF LoaderStep
<1>7. CASE x.what = "LOAD_FINISHED" /\ q2' = q2
  <2>1. \A r : ~Carries(x, r)
    BY <1>7 DEF Carries
  <2>2. \A r \in Res : Loads(q2', r) + lost[r] = Loads(q2, r) + lost[r] + (IF Carries(x, r) THEN 1 ELSE 0)
    BY <2>1, <1>0, <1>2, <1>7
  <2>3. \A r \in Res : lost[r] >= lost[r]
    BY <1>0
  <2> QED
    BY <2>2, <2>3, <1>0, <1>4, <1>5, <1>7
<1>8. CASE x.what # "LOAD_FINISHED" /\ q2' = Append(q2, Answer(x))
  <2>1. PICK y : y = Answer(x)
    OBVIOUS
  <2>2. y \in Reply /\ \A r : Carries(y, r) <=> Carries(x, r)
    <3>1. \A r : Carries(x, r) <=> r = x.descr
      BY <1>8 DEF Carries
    <3> QED
      BY <3>1, <2>1, <1>2, <1>8, AnswerIs
  <2>3. q2' = Append(q2, y) /\ q2' \in Seq(Reply)
    BY <2>1, <2>2, <1>0, <1>8
  <2>4. \A r \in Res : Loads(q2', r) + lost[r] = Loads(q2, r) + lost[r] + (IF Carries(x, r) THEN 1 ELSE 0)
    <3>1. ASSUME NEW r \in Res
          PROVE  Loads(q2', r) + lost[r] = Loads(q2, r) + lost[r] + (IF Carries(x, r) THEN 1 ELSE 0)
      <4>1. Loads(q2', r) = Loads(q2, r) + (IF Carries(y, r) THEN 1 ELSE 0)
        BY <2>2, <2>3, <1>0, LoadsAppend
      <4>2. Loads(q2, r) \in Nat /\ lost[r] \in Nat
        BY <1>0, <1>2
      <4> QED
        BY <4>1, <4>2, <2>2
    <3> QED
      BY <3>1
  <2>5. \A r \in Res : lost[r] >= lost[r]
    BY <1>0
  <2> QED
    BY <2>3, <2>4, <2>5, <1>0, <1>4, <1>5
<1>9. CASE x.what # "LOAD_FINISHED" /\ "loader" \in app.fails /\ q2' = Append(q2, Msg("FINISHED_KO", None, 0))
  <2>1. PICK y, s : y = Msg("FINISHED_KO", None, 0) /\ s = x.descr
    OBVIOUS
  <2>2. /\ y \in Reply /\ s \in Sigs /\ s \in Res
        /\ \A r \in Res : ~Carries(y, r) /\ (Carries(x, r) <=> r = s)
    <3>1. y \in Reply /\ \A r \in Res : ~Carries(y, r)
      BY <2>1, Res2Assumption DEF Msg, Reply, Message, ToEngine, Carries
    <3>2. s \in Sigs /\ s \in Res
      BY <2>1, <1>2, StatusesDiffer DEF Request
    <3>3. \A r \in Res : Carries(x, r) <=> r = s
      BY <2>1, <1>9 DEF Carries
    <3> QED
      BY <3>1, <3>2, <3>3
  <2>3. q2' = Append(q2, y) /\ q2' \in Seq(Reply)
    BY <2>1, <2>2, <1>0, <1>9
  <2>4. PICK l : l = More(lost, s)
    OBVIOUS
  <2>5. l \in [Res -> Nat] /\ \A r \in Res : l[r] = IF r = s THEN lost[r] + 1 ELSE lost[r]
    BY <2>2, <2>4, <1>0, MoreIs
  <2>6. \A r \in Res : Loads(q2', r) + l[r] = Loads(q2, r) + lost[r] + (IF Carries(x, r) THEN 1 ELSE 0)
    <3>1. ASSUME NEW r \in Res
          PROVE  Loads(q2', r) + l[r] = Loads(q2, r) + lost[r] + (IF Carries(x, r) THEN 1 ELSE 0)
      <4>1. Loads(q2', r) = Loads(q2, r) + (IF Carries(y, r) THEN 1 ELSE 0)
        BY <2>2, <2>3, <1>0, LoadsAppend
      <4>2. Loads(q2, r) \in Nat /\ lost[r] \in Nat
        BY <1>0, <1>2
      <4> QED
        BY <4>1, <4>2, <2>2, <2>5
    <3> QED
      BY <3>1
  <2>7. \A r \in Res : l[r] >= lost[r]
    <3>1. \A r \in Res : lost[r] \in Nat
      BY <1>0
    <3> QED
      BY <3>1, <2>5
  <2>8. \A r \in Res : r \notin Sigs \/ LoaderSucceeds => l[r] = 0
    BY <2>2, <2>5, <1>4, <1>9 DEF LoaderSucceeds
  <2> QED
    BY <2>3, <2>5, <2>6, <2>7, <2>8, <1>5
<1> QED
  BY <1>6, <1>7, <1>8, <1>9

LEMMA OnLoadIs ==
  ASSUME Shape, NEW lost, Consistent(lost), NEW x \in Reply, x.descr \in Sigs,
         Away(lost)[x.descr] > 0, NEW result
  PROVE  EngineOK(OnLoad(x, result), held, Away(lost)) /\ Kept(mem, OnLoad(x, result).mem)
<1>1. PICK s : s = x.descr
  OBVIOUS
<1>2. EngineOK(Engine, held, Away(lost)) /\ Engine.mem = mem /\ mem \in Memory
  BY AwayType
<1>3. EngineOK(BindAll(Engine, s, Binds[s]), held, Away(lost)) /\ Kept(mem, BindAll(Engine, s, Binds[s]).mem)
  <2>1. s \in Sigs /\ Away(lost)[s] > 0 /\ \A a \in Assets : db[a] \in Versions[a]
    BY <1>1 DEF Shape
  <2>2. /\ EngineOK(BindAll(Engine, s, Binds[s]), held, Away(lost))
        /\ Kept(Engine.mem, BindAll(Engine, s, Binds[s]).mem)
    BY <2>1, <1>2, BindAllIs
  <2> QED
    BY <2>2, <1>2
<1>4. EngineOK(Engine, held, Away(lost)) /\ Kept(mem, Engine.mem)
  BY <1>2, KeptSelf
<1>5. OnLoad(x, result) = BindAll(Engine, s, Binds[s]) \/ OnLoad(x, result) = Engine
  BY <1>1 DEF OnLoad
<1> QED
  BY <1>3, <1>4, <1>5

LEMMA LoadsMore ==
  ASSUME NEW p \in Seq(Request), NEW y \in Request
  PROVE  /\ Append(p, y) \in Seq(Request)
         /\ \A r : Loads(Append(p, y), r) = Loads(p, r) + (IF Carries(y, r) THEN 1 ELSE 0) /\ Loads(p, r) \in Nat
<1>1. Append(p, y) \in Seq(Request)
  OBVIOUS
<1>2. ASSUME NEW r
      PROVE  Loads(Append(p, y), r) = Loads(p, r) + (IF Carries(y, r) THEN 1 ELSE 0)
  BY LoadsAppend
<1>3. ASSUME NEW r PROVE Loads(p, r) \in Nat
  BY LoadsType
<1> QED
  BY <1>1, <1>2, <1>3

LEMMA FlushOneKeeps ==
  ASSUME Shape, NEW lost, Consistent(lost), app' = app, FlushOne
  PROVE  Shape' /\ Consistent(lost)' /\ Kept(mem, mem')
<1>0. /\ todo # <<>> /\ todo' = Tail(todo) /\ UNCHANGED <<target, db, held, q2, reloads>>
      /\ q2 \in Seq(Reply) /\ todo \in Seq(Reply) /\ lost \in [Res -> Nat]
      /\ mem \in Memory
  BY AwayType DEF FlushOne, Shape, Consistent, LostLoads
<1>1. PICK x, t : x = Head(todo) /\ t = Tail(todo)
  OBVIOUS
<1>2. /\ x \in Reply /\ t \in Seq(Reply)
      /\ x.what = "FINISHED_KO" => \A r \in Res : Loads(todo, r) = Loads(t, r)
      /\ x.what # "FINISHED_KO" =>
           x.descr \in Sigs /\ \A r \in Res : Loads(todo, r) = Loads(t, r) + (IF r = x.descr THEN 1 ELSE 0)
  BY <1>0, <1>1, ReplyLoads
<1>3. \A r : Loads(t, r) \in Nat /\ Loads(q2, r) \in Nat
  BY <1>0, <1>2, LoadsType
<1>4. Shape'
  BY <1>0, <1>1, <1>2 DEF Shape
<1>5. /\ \A r \in Res : r \notin Sigs \/ LoaderSucceeds => lost[r] = 0
      /\ \A r \in Res : lost[r] \in Nat /\ lost[r] >= lost[r]
  BY DEF Consistent, LostLoads
<1>6. /\ Away(lost) = [r \in Res |-> Loads(todo, r) + Loads(q2, r) + lost[r]]
      /\ Away(lost)' = [r \in Res |-> Loads(t, r) + Loads(q2, r) + lost[r]]
  BY <1>0, <1>1 DEF Away
<1>7. CASE x.what = "FINISHED_KO"
  <2>1. UNCHANGED <<mem, q1>>
    BY <1>1, <1>7 DEF FlushOne, HandleLoaded
  <2>2. Away(lost)' = Away(lost)
    BY <1>2, <1>6, <1>7
  <2>3. EngineOK(Engine, held, Away(lost)') /\ mem' = Engine.mem /\ q1' = Engine.q1 /\ held' = held
    BY <2>1, <2>2, <1>0, AwayType
  <2>4. Kept(mem, mem')
    BY <2>1, <1>0, KeptSelf
  <2>5. Consistent(lost)'
    BY <2>3, <2>4, <1>0, <1>5, Closes
  <2> QED
    BY <2>4, <2>5, <1>4
<1>8. CASE x.what # "FINISHED_KO"
  <2>1. PICK result \in OnLoadResults(x) : HandleLoaded(x, result)
    BY <1>1, <1>8 DEF FlushOne
  <2>2. PICK s, e, a, b : s = x.descr /\ e = OnLoad(x, result) /\ a = Away(lost) /\ b = Away(lost)'
    OBVIOUS
  <2>3. s \in Sigs /\ s \in Res
    BY <2>2, <1>2, <1>8, StatusesDiffer
  <2>4. /\ a \in [Res -> Nat] /\ b \in [Res -> Nat] /\ a[s] > 0 /\ b = Fewer(a, s)
        /\ \A r \in Res : a[r] = b[r] + (IF r = s THEN 1 ELSE 0)
    <3>1. \A r \in Res : Loads(todo, r) = Loads(t, r) + (IF r = s THEN 1 ELSE 0)
      BY <2>2, <1>2, <1>8
    <3>2. /\ \A r \in Res : a[r] = Loads(todo, r) + Loads(q2, r) + lost[r]
          /\ \A r \in Res : b[r] = Loads(t, r) + Loads(q2, r) + lost[r]
      BY <2>2, <1>6
    <3>3. \A r \in Res : b[r] \in Nat /\ a[r] = b[r] + (IF r = s THEN 1 ELSE 0)
      BY <3>1, <3>2, <1>3, <1>5
    <3>4. a \in [Res -> Nat] /\ b \in [Res -> Nat]
      BY <3>3, <2>2, <1>6
    <3>5. a[s] > 0
      BY <3>3, <2>3
    <3>6. PICK c : c = Fewer(a, s)
      OBVIOUS
    <3>7. c \in [Res -> Nat] /\ \A r \in Res : c[r] = IF r = s THEN a[r] - 1 ELSE a[r]
      BY <3>4, <3>5, <3>6, <2>3, FewerIs
    <3>8. \A r \in Res : c[r] = b[r]
      BY <3>3, <3>7
    <3>9. c = b
      BY <3>4, <3>7, <3>8
    <3> QED
      BY <3>3, <3>4, <3>5, <3>6, <3>9
  <2>5. EngineOK(e, held, a) /\ Kept(mem, e.mem)
    BY <2>2, <2>3, <2>4, <1>2, OnLoadIs
  <2>6. e.mem \in Memory /\ e.q1 \in Seq(Request) /\ held \in [Res -> Nat]
    BY <2>5 DEF EngineOK, Sound
  <2>7. CASE result = "pending"
    <3>1. x.what = "WANT_CALLBACK"
      BY <2>1, <2>7, <1>2, <1>8 DEF OnLoadResults, Reply
    <3>2. PICK y : y = [x EXCEPT !.what = "LOAD_CONTINUED"]
      OBVIOUS
    <3>3. PICK q : q = Append(e.q1, y)
      OBVIOUS
    <3>4. mem' = e.mem /\ q1' = q
      BY <3>1, <3>2, <3>3, <2>1, <2>2, <2>7 DEF HandleLoaded
    <3>5. y \in Request /\ y.descr = s /\ y.what = "LOAD_CONTINUED"
      <4>1. x \in Message
        BY <1>2 DEF Reply
      <4>2. y \in Message /\ y.descr = x.descr /\ y.what = "LOAD_CONTINUED"
        BY <4>1, <3>2 DEF Message, ToLoader
      <4> QED
        BY <4>2, <2>2, <2>3 DEF Request, ToLoader
    <3>6. q \in Seq(Request) /\ \A r \in Res : b[r] + Loads(q, r) = a[r] + Loads(e.q1, r)
      <4>1. ASSUME NEW r \in Res PROVE b[r] + Loads(q, r) = a[r] + Loads(e.q1, r)
        <5>1. Loads(q, r) = Loads(e.q1, r) + (IF Carries(y, r) THEN 1 ELSE 0) /\ Loads(e.q1, r) \in Nat
          BY <3>3, <3>5, <2>6, LoadsMore
        <5>2. Carries(y, r) <=> r = s
          BY <3>5 DEF Carries
        <5>3. b[r] \in Nat /\ a[r] = b[r] + (IF r = s THEN 1 ELSE 0)
          BY <2>4
        <5> QED
          BY <5>1, <5>2, <5>3
      <4> QED
        BY <4>1, <3>3, <3>5, <2>6
    <3>7. PICK w : w = [mem |-> e.mem, q1 |-> q]
      OBVIOUS
    <3>8. EngineOK(w, held, b) /\ w.mem = e.mem /\ w.q1 = q
      BY <3>6, <3>7, <2>4, <2>5, EngineMoves
    <3>9. EngineOK(w, held, Away(lost)') /\ mem' = w.mem /\ q1' = w.q1 /\ held' = held /\ Kept(mem, mem')
      BY <3>4, <3>8, <2>2, <2>5, <1>0
    <3>10. Consistent(lost)'
      BY <3>9, <1>0, <1>5, Closes
    <3> QED
      BY <3>9, <3>10, <1>4
  <2>8. CASE result # "pending"
    <3>1. PICK status : status = IF result = "success" THEN "ready" ELSE "error"
      OBVIOUS
    <3>2. PICK n : n = Ended(e.mem, s, status)
      OBVIOUS
    <3>3. PICK y : y = [x EXCEPT !.what = "LOAD_FINISHED"]
      OBVIOUS
    <3>4. mem' = n /\ (q1' = e.q1 \/ q1' = Append(e.q1, y))
      BY <3>1, <3>2, <3>3, <2>1, <2>2, <2>8 DEF HandleLoaded, Ended
    <3>5. PICK w : w = [mem |-> n, q1 |-> e.q1]
      OBVIOUS
    <3>6. EngineOK(w, held, b) /\ Kept(e.mem, n) /\ w.mem = n /\ w.q1 = e.q1
      <4>1. status \in {"ready", "error"}
        BY <3>1
      <4>2. EngineOK([mem |-> n, q1 |-> e.q1], held, Fewer(a, s)) /\ Kept(e.mem, n)
        BY <4>1, <3>2, <2>3, <2>4, <2>5, LoadEnds
      <4> QED
        BY <4>2, <3>5, <2>4
    <3>7. Kept(mem, n)
      <4>1. n \in Memory
        BY <3>6, EngineOKType
      <4> QED
        BY <4>1, <3>6, <2>5, <2>6, <1>0, KeptTrans
    <3>8. PICK q : q = q1'
      OBVIOUS
    <3>9. q \in Seq(Request) /\ \A r \in Res : b[r] + Loads(q, r) = b[r] + Loads(w.q1, r)
      <4>1. y \in Request
        <5>1. x \in Message
          BY <1>2 DEF Reply
        <5>2. y \in Message /\ y.descr = x.descr /\ y.what = "LOAD_FINISHED"
          BY <5>1, <3>3 DEF Message, ToLoader
        <5> QED
          BY <5>2, <2>2, <2>3 DEF Request, ToLoader
      <4>2. CASE q = e.q1
        BY <4>2, <3>6, <2>6
      <4>3. CASE q = Append(e.q1, y)
        <5>1. \A r : ~Carries(y, r)
          <6>1. y.what = "LOAD_FINISHED"
            <7>1. x \in Message
              BY <1>2 DEF Reply
            <7> QED
              BY <7>1, <3>3 DEF Message
          <6> QED
            BY <6>1 DEF Carries
        <5>2. \A r \in Res : Loads(q, r) = Loads(e.q1, r)
          <6>1. ASSUME NEW r \in Res PROVE Loads(q, r) = Loads(e.q1, r)
            <7>1. Loads(q, r) = Loads(e.q1, r) + (IF Carries(y, r) THEN 1 ELSE 0) /\ Loads(e.q1, r) \in Nat
              BY <4>1, <4>3, <2>6, LoadsMore
            <7> QED
              BY <7>1, <5>1
          <6> QED
            BY <6>1
        <5> QED
          BY <5>2, <4>1, <4>3, <3>6, <2>6
      <4> QED
        BY <4>2, <4>3, <3>4, <3>8
    <3>10. PICK z : z = [mem |-> n, q1 |-> q]
      OBVIOUS
    <3>11. EngineOK(z, held, b) /\ z.mem = n /\ z.q1 = q
      <4>1. EngineOK([mem |-> w.mem, q1 |-> q], held, b)
        BY <3>6, <3>9, <2>4, EngineMoves
      <4> QED
        BY <4>1, <3>6, <3>10
    <3>12. EngineOK(z, held, Away(lost)') /\ mem' = z.mem /\ q1' = z.q1 /\ held' = held /\ Kept(mem, mem')
      BY <3>4, <3>7, <3>8, <3>11, <2>2, <1>0
    <3>13. Consistent(lost)'
      BY <3>12, <1>0, <1>5, Closes
    <3> QED
      BY <3>12, <3>13, <1>4
  <2> QED
    BY <2>7, <2>8
<1> QED
  BY <1>7, <1>8

-----------------------------------------------------------------------------
(* Materials made by hand.                                                 *)

(* The material p hangs c below itself, and takes a reference for the list.*)
LEMMA LinkHeld ==
  ASSUME NEW m, NEW b, Sound(m, b), NEW p \in Res, NEW c \in Res,
         Known(m, p), b[c] > 0, Layer[c] < Layer[p]
  PROVE  /\ Sound(IncRefCount(AddChild(m, p, c), c), b)
         /\ \A q \in Res :
              /\ IncRefCount(AddChild(m, p, c), c)[q].status = m[q].status
              /\ IncRefCount(AddChild(m, p, c), c)[q].figli = IF q = p THEN <<c>> \o m[q].figli ELSE m[q].figli
<1>1. PICK n1 : n1 = AddChild(m, p, c)
  OBVIOUS
<1>2. /\ Sound(n1, Fewer(b, c))
      /\ \A q \in Res : /\ n1[q].status = m[q].status
                        /\ n1[q].figli = IF q = p THEN <<c>> \o m[q].figli ELSE m[q].figli
  BY <1>1, SoundAddChild
<1>3. b \in [Res -> Nat]
  BY DEF Sound
<1>4. More(Fewer(b, c), c) = b
  BY <1>3, MoreOfFewer
<1>5. Known(m, c)
  BY SoundKnows
<1>6. Known(n1, c)
  BY <1>2, <1>5 DEF Known
<1>7. PICK n2 : n2 = IncRefCount(n1, c)
  OBVIOUS
<1>8. /\ Sound(n2, More(Fewer(b, c), c))
      /\ \A q \in Res : n2[q].status = n1[q].status /\ n2[q].figli = n1[q].figli
  BY <1>2, <1>6, <1>7, SoundInc
<1> QED
  BY <1>1, <1>2, <1>4, <1>7, <1>8

(* What the update of a slot leaves alone.                                 *)
Updates(m, n, p) ==
  \A q \in Res : Known(n, q) => Known(m, q) /\ (q # p => n[q].figli = m[q].figli)

Replacement(m, n, p, old, r) ==
  Updates(m, n, p) /\ n[p].figli = <<r>> \o RemoveFirst(m[p].figli, old)

(* One child of the material makes room for r.                             *)
Replaced(m, p, old, r) ==
  IncRefCount(AddChild(Released[Depth][<<RemoveChild(m, p, old), old>>], p, r), r)

LEMMA ReplacedIs ==
  ASSUME NEW e, NEW h, NEW away, EngineOK(e, h, away), NEW p \in Hands, h[p] > 0,
         NEW old \in Range(e.mem[p].figli), NEW r \in Res, h[r] > 0, Layer[r] < Layer[p]
  PROVE  /\ EngineOK([mem |-> Replaced(e.mem, p, old, r), q1 |-> e.q1], h, away)
         /\ Replacement(e.mem, Replaced(e.mem, p, old, r), p, old, r)
<1>0. /\ e.mem \in Memory /\ h \in [Res -> Nat] /\ away \in [Res -> Nat] /\ e.q1 \in Seq(Request)
      /\ Sound(e.mem, Base(h, away, e.q1)) /\ p \in Res /\ p \notin Assets
  BY StatusesDiffer DEF EngineOK, Sound
<1>1. PICK m, q : m \in Memory /\ q \in Seq(Request) /\ m = e.mem /\ q = e.q1
  BY <1>0
<1>2. PICK b : b = Base(h, away, q)
  OBVIOUS
<1>3. Sound(m, b) /\ b \in [Res -> Nat]
  BY <1>0, <1>1, <1>2 DEF Sound
<1>4. b[p] > 0 /\ b[r] > 0
  <2>1. h \in [Res -> Nat] /\ away \in [Res -> Nat]
    BY <1>0
  <2>2. Base(h, away, q)[p] > 0 /\ Base(h, away, q)[r] > 0
    BY <2>1, <1>0, <1>1, BaseFewer
  <2> QED
    BY <2>2, <1>2
<1>5. old \in Res /\ old # p /\ Layer[old] < Layer[p] /\ Layer[old] \in Nat /\ Layer[p] \in Nat /\ Known(m, p)
  BY <1>0, <1>1, <1>3, Below
<1>6. PICK m1 : m1 = RemoveChild(m, p, old)
  OBVIOUS
<1>7. /\ Sound(m1, More(b, old))
      /\ \A x \in Res : /\ m1[x].status = m[x].status
                        /\ m1[x].figli = IF x = p THEN RemoveFirst(m[p].figli, old) ELSE m[x].figli
  BY <1>0, <1>1, <1>3, <1>6, SoundRemoveChild
<1>8. PICK h1 : h1 = More(h, old)
  OBVIOUS
<1>9. h1 \in [Res -> Nat] /\ h1[old] > 0 /\ Fewer(h1, old) = h /\ Sound(m1, Base(h1, away, q))
  <2>1. More(Base(h, away, q), old) = Base(More(h, old), away, q)
    <3>1. h \in [Res -> Nat] /\ away \in [Res -> Nat] /\ q \in Seq(Request) /\ old \in Res
      BY <1>0, <1>1, <1>5
    <3> QED
      BY <3>1, BaseMore
  <2>2. h1 \in [Res -> Nat] /\ h1[old] > 0 /\ Fewer(h1, old) = h
    BY <1>0, <1>5, <1>8, FewerOfMore
  <2> QED
    BY <2>1, <2>2, <1>2, <1>7, <1>8
<1>10. PICK e1 : e1 = [mem |-> m1, q1 |-> q]
  OBVIOUS
<1>11. EngineOK(e1, h1, away) /\ e1.mem = m1 /\ e1.q1 = q
  <2>1. Steady(e.mem, m1)
    BY <1>0, <1>1, <1>7 DEF Steady, Known
  <2>2. EngineOK([mem |-> m1, q1 |-> e.q1], h1, away)
    BY <2>1, <1>1, <1>9, EngineSame
  <2> QED
    BY <2>2, <1>1, <1>10
<1>12. PICK m2 : m2 = Released[Depth][<<m1, old>>]
  OBVIOUS
<1>13. PICK e2 : e2 = [mem |-> m2, q1 |-> q]
  OBVIOUS
<1>14. EngineOK(e2, h, away) /\ Spares(m1, m2, old) /\ e2.mem = m2 /\ e2.q1 = q
  <2>1. /\ EngineOK([mem |-> Released[Depth][<<e1.mem, old>>], q1 |-> e1.q1], Fewer(h1, old), away)
        /\ Spares(e1.mem, Released[Depth][<<e1.mem, old>>], old)
    BY <1>5, <1>9, <1>11, ReleaseIs
  <2> QED
    BY <2>1, <1>9, <1>11, <1>12, <1>13
<1>15. Sound(m2, b)
  BY <1>2, <1>14 DEF EngineOK
<1>16. Known(m2, p) /\ m2[p].status = m[p].status /\ m2[p].figli = RemoveFirst(m[p].figli, old)
  <2>1. SameHandle(m1, m2, p)
    BY <1>0, <1>5, <1>14 DEF Spares
  <2> QED
    BY <2>1, <1>0, <1>5, <1>7 DEF SameHandle, Known
<1>17. PICK n : n = IncRefCount(AddChild(m2, p, r), r)
  OBVIOUS
<1>18. /\ Sound(n, b)
       /\ \A x \in Res : /\ n[x].status = m2[x].status
                         /\ n[x].figli = IF x = p THEN <<r>> \o m2[x].figli ELSE m2[x].figli
  BY <1>0, <1>4, <1>15, <1>16, <1>17, LinkHeld
<1>19. EngineOK([mem |-> n, q1 |-> q], h, away)
  <2>1. Steady(e2.mem, n)
    BY <1>0, <1>14, <1>18 DEF Steady, Known
  <2>2. Sound(n, Base(h, away, e2.q1))
    BY <1>2, <1>14, <1>18
  <2>3. EngineOK([mem |-> n, q1 |-> e2.q1], h, away)
    BY <2>1, <2>2, <1>0, <1>14, EngineSame
  <2> QED
    BY <2>3, <1>14
<1>20. n[p].figli = <<r>> \o RemoveFirst(m[p].figli, old)
  BY <1>0, <1>16, <1>18
<1>21. ASSUME NEW x \in Res, Known(n, x) PROVE Known(m, x) /\ (x # p => n[x].figli = m[x].figli)
  BY <1>7, <1>14, <1>18, <1>21 DEF Spares, Survives, SameHandle, Known
<1>22. n = Replaced(m, p, old, r)
  BY <1>6, <1>12, <1>17 DEF Replaced
<1>23. Replacement(m, n, p, old, r)
  BY <1>20, <1>21 DEF Replacement, Updates
<1> QED
  BY <1>1, <1>19, <1>22, <1>23

(* What a slot may point to.                                               *)
Data == Sigs \union Hands \union {None}

LEMMA DataOfIs ==
  ASSUME NEW e, NEW h, NEW away, EngineOK(e, h, away), NEW r \in Assets \union Hands, h[r] > 0
  PROVE  DataOf(e.mem, r) \in Data
<1>0. /\ h \in [Res -> Nat] /\ away \in [Res -> Nat] /\ e.q1 \in Seq(Request)
      /\ Sound(e.mem, Base(h, away, e.q1)) /\ AssetsShow(e.mem) /\ r \in Res
  BY StatusesDiffer DEF EngineOK
<1>1. PICK q : q \in Seq(Request) /\ q = e.q1
  BY <1>0
<1>2. Base(h, away, q)[r] > 0
  BY <1>0, <1>1, BaseFewer
<1>3. Known(e.mem, r)
  BY <1>0, <1>1, <1>2, SoundKnows
<1>4. CASE r \in Assets
  <2>1. PICK s \in Versions[r] : e.mem[r].figli = <<s>>
    BY <1>0, <1>3, <1>4 DEF AssetsShow, AssetShows
  <2>2. Head(<<s>>) = s /\ s \in Sigs
    BY <2>1, <1>4, Res2Assumption
  <2> QED
    BY <2>1, <2>2, <1>4 DEF DataOf, Data
<1>5. CASE r \notin Assets
  BY <1>5 DEF DataOf, Data
<1> QED
  BY <1>4, <1>5

LEMMA OwnerIs ==
  ASSUME NEW m, NEW p, NEW S, m[p].figli \in Seq(S), NEW t
  PROVE  /\ Owner(m, p, t) \in 0..Len(m[p].figli)
         /\ Owner(m, p, t) # 0 => DataOf(m, m[p].figli[Owner(m, p, t)]) = t
         /\ \A k \in 1..Len(m[p].figli) : DataOf(m, m[p].figli[k]) = t => Owner(m, p, t) # 0 /\ Owner(m, p, t) <= k
<1>1. PICK l : l = m[p].figli
  OBVIOUS
<1> DEFINE I == {k \in 1..Len(l) : DataOf(m, l[k]) = t}
<1>2. Owner(m, p, t) = IF I # {} THEN Min(I) ELSE 0
  BY <1>1 DEF Owner, SelectInSeq
<1>3. PICK i : i = Owner(m, p, t)
  OBVIOUS
<1>4. I \in SUBSET Nat /\ Len(l) \in Nat
  BY <1>1
<1>5. ASSUME I # {} PROVE Min(I) \in I /\ \A k \in I : Min(I) <= k
  BY <1>4, <1>5, MinIsLeast
<1>6. \A k : k \in I <=> k \in 1..Len(l) /\ DataOf(m, l[k]) = t
  OBVIOUS
<1> HIDE DEF I
<1>7. i \in 0..Len(l) /\ (i # 0 => DataOf(m, l[i]) = t)
  BY <1>2, <1>3, <1>4, <1>5, <1>6
<1>8. \A k \in 1..Len(l) : DataOf(m, l[k]) = t => i # 0 /\ i <= k
  BY <1>2, <1>3, <1>4, <1>5, <1>6
<1> QED
  BY <1>1, <1>3, <1>7, <1>8

(* p shows what the two slots of t point to.                               *)
Pairs(m, x, y, t) == DataOf(m, x) = t["diffuse"] /\ DataOf(m, y) = t["normal"]

Shows(m, t, p) ==
  \E x, y \in Res : m[p].figli = <<x, y>> /\ (Pairs(m, x, y, t) \/ Pairs(m, y, x, t))

At(m, q) == [mem |-> m, q1 |-> q]

(* v is what an update of p leaves.                                        *)
Updated(v, m, tgt, q, h, away, p) ==
  \E n, t : /\ v = [mem |-> n, tgt |-> t] /\ EngineOK(At(n, q), h, away)
            /\ t \in [Slots -> Data] /\ Updates(m, n, p)
            /\ Shows(m, tgt, p) => Shows(n, t, p)

(* The child of p that stays shows what the other slot points to.          *)
Other(m, tgt, p, slot, z) ==
  /\ RemoveFirst(m[p].figli, m[p].figli[Owner(m, p, tgt[slot])]) = <<z>>
  /\ \A s \in Slots \ {slot} : DataOf(m, z) = tgt[s]

(* Of two children the one that owns the data makes room.                  *)
LEMMA PairUpdated ==
  ASSUME NEW m \in Memory, NEW tgt \in [Slots -> Data], NEW p \in Res, NEW slot \in Slots,
         Shows(m, tgt, p), Owner(m, p, tgt[slot]) # 0
  PROVE  \E z \in Res : Other(m, tgt, p, slot, z)
<1>1. PICK x \in Res, y \in Res : m[p].figli = <<x, y>> /\ (Pairs(m, x, y, tgt) \/ Pairs(m, y, x, tgt))
  BY DEF Shows
<1>2. PICK l, i : l = m[p].figli /\ i = Owner(m, p, tgt[slot])
  OBVIOUS
<1>3. l \in Seq(Res) /\ l = <<x, y>> /\ Len(l) = 2 /\ l[1] = x /\ l[2] = y
  BY <1>1, <1>2
<1>4. /\ i \in 0..2 /\ i # 0 /\ DataOf(m, l[i]) = tgt[slot]
      /\ \A k \in 1..2 : DataOf(m, l[k]) = tgt[slot] => i <= k
  <2>1. m[p].figli \in Seq(Res) /\ Len(m[p].figli) = 2 /\ m[p].figli = l
    BY <1>2, <1>3
  <2>2. PICK g : g = tgt[slot]
    OBVIOUS
  <2>3. /\ Owner(m, p, g) \in 0..Len(m[p].figli)
        /\ Owner(m, p, g) # 0 => DataOf(m, m[p].figli[Owner(m, p, g)]) = g
        /\ \A k \in 1..Len(m[p].figli) : DataOf(m, m[p].figli[k]) = g => Owner(m, p, g) # 0 /\ Owner(m, p, g) <= k
    BY <2>1, OwnerIs
  <2>4. i = Owner(m, p, g) /\ i # 0
    BY <1>2, <2>2
  <2> QED
    BY <2>1, <2>2, <2>3, <2>4
<1>5. RemoveFirst(<<x, y>>, x) = <<y>> /\ (x # y => RemoveFirst(<<x, y>>, y) = <<x>>)
  BY TwoRemoved
<1>6. \A s \in Slots : s = "diffuse" \/ s = "normal"
  BY DEF Slots
<1>7. CASE i = 1
  <2>1. RemoveFirst(l, l[i]) = <<y>>
    BY <1>3, <1>5, <1>7
  <2>2. \A s \in Slots \ {slot} : DataOf(m, y) = tgt[s]
    BY <1>1, <1>3, <1>4, <1>6, <1>7 DEF Pairs
  <2> QED
    BY <2>1, <2>2, <1>2 DEF Other
<1>8. CASE i = 2
  <2>1. DataOf(m, x) # tgt[slot]
    <3>1. DataOf(m, l[1]) = tgt[slot] => i <= 1
      BY <1>4
    <3> QED
      BY <3>1, <1>3, <1>8
  <2>2. x # y
    BY <2>1, <1>3, <1>4, <1>8
  <2>3. RemoveFirst(l, l[i]) = <<x>>
    BY <2>2, <1>3, <1>5, <1>8
  <2>4. \A s \in Slots \ {slot} : DataOf(m, x) = tgt[s]
    BY <2>1, <1>1, <1>3, <1>4, <1>6, <1>8 DEF Pairs
  <2> QED
    BY <2>3, <2>4, <1>2 DEF Other
<1> QED
  BY <1>4, <1>7, <1>8

LEMMA PairMade ==
  ASSUME NEW x, NEW y
  PROVE  <<x>> \o <<y>> = <<x, y>>
<1>1. PICK s, t : s = <<x>> \o <<y>> /\ t = <<x, y>>
  OBVIOUS
<1>2. s \in Seq({x, y}) /\ Len(s) = 2 /\ s[1] = x /\ s[2] = y
  BY <1>1
<1>3. t \in Seq({x, y}) /\ Len(t) = 2 /\ t[1] = x /\ t[2] = y
  BY <1>1
<1>4. \A i \in 1..Len(s) : s[i] = t[i]
  BY <1>2, <1>3
<1>5. s = t
  BY <1>2, <1>3, <1>4, SeqEqual
<1> QED
  BY <1>1, <1>5

LEMMA UpdatesNothing ==
  ASSUME NEW m, NEW tgt \in [Slots -> Data], NEW q, NEW h, NEW away, EngineOK(At(m, q), h, away), NEW p
  PROVE  Updated([mem |-> m, tgt |-> tgt], m, tgt, q, h, away, p)
<1>1. Updates(m, m, p)
  BY DEF Updates
<1> QED
  BY <1>1 DEF Updated

(* What a resource shows does not change with another material.            *)
LEMMA DataStays ==
  ASSUME NEW m, NEW n, NEW p \in Hands, Updates(m, n, p), NEW z \in Res, Known(n, z)
  PROVE  DataOf(n, z) = DataOf(m, z)
<1>1. p \notin Assets
  BY StatusesDiffer
<1> QED
  BY <1>1 DEF Updates, DataOf

LEMMA UpdateTextureIs ==
  ASSUME NEW m, NEW tgt \in [Slots -> Data], NEW q, NEW h, NEW away, EngineOK(At(m, q), h, away),
         NEW p \in Hands, h[p] > 0, NEW slot \in Slots,
         NEW r \in Assets \union Hands, h[r] > 0, Layer[r] < Layer[p]
  PROVE  Updated(UpdateTexture([mem |-> m, tgt |-> tgt], p, slot, r), m, tgt, q, h, away, p)
<1>1. PICK u : u = [mem |-> m, tgt |-> tgt]
  OBVIOUS
<1>2. u.mem = m /\ u.tgt = tgt
  BY <1>1
<1>3. PICK l, i : l = m[p].figli /\ i = Owner(m, p, tgt[slot])
  OBVIOUS
<1>4. PICK e : e = At(m, q)
  OBVIOUS
<1>5. e.mem = m /\ e.q1 = q /\ EngineOK(e, h, away)
  BY <1>4 DEF At
<1>6. /\ m \in Memory /\ p \in Res /\ r \in Res /\ p \notin Assets /\ Sound(m, Base(h, away, q))
      /\ h \in [Res -> Nat] /\ away \in [Res -> Nat] /\ q \in Seq(Request)
  BY <1>5, StatusesDiffer DEF EngineOK, Sound
<1>7. l \in Seq(Res) /\ i \in 0..Len(l)
  <2>1. m[p].figli \in Seq(Res)
    BY <1>6, ListsType
  <2>2. PICK g : g = tgt[slot]
    OBVIOUS
  <2>3. Owner(m, p, g) \in 0..Len(m[p].figli)
    BY <2>1, OwnerIs
  <2> QED
    BY <2>1, <2>2, <2>3, <1>3
<1>8. CASE i = 0 \/ l[i] = r
  <2>1. UpdateTexture(u, p, slot, r) = u
    BY <1>2, <1>3, <1>8 DEF UpdateTexture
  <2> QED
    BY <2>1, <1>1, UpdatesNothing
<1>9. CASE ~(i = 0 \/ l[i] = r)
  <2>1. PICK old : old = l[i]
    OBVIOUS
  <2>2. old \in Range(m[p].figli)
    <3>1. i \in 1..Len(l) /\ DOMAIN l = 1..Len(l)
      BY <1>7, <1>9
    <3> QED
      BY <3>1, <2>1, <1>3 DEF Range
  <2>3. PICK n : n = Replaced(m, p, old, r)
    OBVIOUS
  <2>4. PICK t : t = [tgt EXCEPT ![slot] = DataOf(n, r)]
    OBVIOUS
  <2>5. UpdateTexture(u, p, slot, r) = [mem |-> n, tgt |-> t]
    BY <2>1, <2>3, <2>4, <1>2, <1>3, <1>9 DEF UpdateTexture, Replaced
  <2>6. /\ EngineOK([mem |-> n, q1 |-> q], h, away) /\ Updates(m, n, p)
        /\ n[p].figli = <<r>> \o RemoveFirst(m[p].figli, old)
    <3>1. old \in Range(e.mem[p].figli)
      BY <2>2, <1>5
    <3>2. /\ EngineOK([mem |-> Replaced(e.mem, p, old, r), q1 |-> e.q1], h, away)
          /\ Replacement(e.mem, Replaced(e.mem, p, old, r), p, old, r)
      BY <3>1, <1>5, <1>6, ReplacedIs
    <3> QED
      BY <3>2, <2>3, <1>5 DEF Replacement
  <2>7. EngineOK(At(n, q), h, away)
    BY <2>6 DEF At
  <2>8. t \in [Slots -> Data]
    <3>1. PICK f : f = At(n, q)
      OBVIOUS
    <3>2. f.mem = n /\ EngineOK(f, h, away)
      BY <3>1, <2>7 DEF At
    <3>3. DataOf(f.mem, r) \in Data
      BY <3>2, DataOfIs
    <3> QED
      BY <3>2, <3>3, <2>4
  <2>9. ASSUME Shows(m, tgt, p) PROVE Shows(n, t, p)
    <3>1. PICK z \in Res : /\ RemoveFirst(m[p].figli, old) = <<z>>
                           /\ \A s \in Slots \ {slot} : DataOf(m, z) = tgt[s]
      <4>1. \E z \in Res : Other(m, tgt, p, slot, z)
        BY <2>9, <1>3, <1>6, <1>9, PairUpdated
      <4> QED
        BY <4>1, <2>1, <1>3 DEF Other
    <3>2. n[p].figli = <<r, z>>
      BY <3>1, <2>6, PairMade
    <3>3. Known(n, z)
      <4>1. Sound(n, Base(h, away, q))
        BY <2>6 DEF EngineOK
      <4>2. z \in Range(n[p].figli)
        BY <3>2 DEF Range
      <4> QED
        BY <4>1, <4>2, <3>1, <1>6, SoundKnows
    <3>4. DataOf(n, z) = DataOf(m, z)
      BY <3>1, <3>3, <2>6, DataStays
    <3>5. t[slot] = DataOf(n, r) /\ \A s \in Slots \ {slot} : t[s] = DataOf(n, z)
      BY <3>1, <3>4, <2>4
    <3>6. slot = "diffuse" \/ slot = "normal"
      BY DEF Slots
    <3>7. Pairs(n, r, z, t) \/ Pairs(n, z, r, t)
      BY <3>5, <3>6 DEF Pairs, Slots
    <3> QED
      BY <3>1, <3>2, <3>7, <1>6 DEF Shows
  <2>10. Updated([mem |-> n, tgt |-> t], m, tgt, q, h, away, p)
    BY <2>6, <2>7, <2>8, <2>9 DEF Updated
  <2> QED
    BY <2>5, <2>10, <1>1
<1> QED
  BY <1>8, <1>9

(* One of the two updates of a material: r may be None.                    *)
Set(u, p, slot, r) == IF r = None THEN u ELSE UpdateTexture(u, p, slot, r)

LEMMA SetIs ==
  ASSUME NEW m, NEW tgt \in [Slots -> Data], NEW q, NEW h, NEW away, EngineOK(At(m, q), h, away),
         NEW p \in Hands, h[p] > 0, NEW slot \in Slots,
         NEW r, r # None => r \in Assets \union Hands /\ h[r] > 0 /\ Layer[r] < Layer[p]
  PROVE  Updated(Set([mem |-> m, tgt |-> tgt], p, slot, r), m, tgt, q, h, away, p)
<1>1. CASE r = None
  <2>1. Set([mem |-> m, tgt |-> tgt], p, slot, r) = [mem |-> m, tgt |-> tgt]
    BY <1>1 DEF Set
  <2> QED
    BY <2>1, UpdatesNothing
<1>2. CASE r # None
  <2>1. Set([mem |-> m, tgt |-> tgt], p, slot, r) = UpdateTexture([mem |-> m, tgt |-> tgt], p, slot, r)
    BY <1>2 DEF Set
  <2> QED
    BY <2>1, <1>2, UpdateTextureIs
<1> QED
  BY <1>1, <1>2

(* A step of the engine that touches materials: the application is not calm.*)
LEMMA MaterialStep ==
  ASSUME NEW lost, Consistent(lost), ~Calm, NEW n, NEW h, EngineOK(At(n, q1), h, Away(lost)),
         mem' = n, q1' = q1, held' = h, UNCHANGED <<app, todo, q2>>
  PROVE  Consistent(lost)'
<1>1. /\ Away(lost)' = Away(lost) /\ Calm' = Calm /\ LostLoads(lost)' = LostLoads(lost)
      /\ Engine' = At(n, q1)
  BY DEF Away, LoaderSucceeds, Calm, LostLoads, Engine, At
<1> QED
  BY <1>1 DEF Consistent

LEMMA HeldKnown ==
  ASSUME NEW lost, Consistent(lost), NEW r \in Res, held[r] > 0
  PROVE  Known(mem, r)
<1>1. PICK b, a, q : a = Away(lost) /\ q = q1 /\ b = Base(held, a, q)
  OBVIOUS
<1>2. a \in [Res -> Nat] /\ held \in [Res -> Nat] /\ q \in Seq(Request) /\ Sound(mem, b)
  BY <1>1, AwayType
<1>3. Base(held, a, q)[r] > 0
  BY <1>2, BaseFewer
<1>4. b[r] > 0
  BY <1>1, <1>3
<1> QED
  BY <1>2, <1>4, SoundKnows

LEMMA MaterialUpdateKeeps ==
  ASSUME Shape, NEW lost, Consistent(lost), app' = app,
         NEW p \in Hands, NEW d \in app.textures \union {None}, NEW n \in app.textures \union {None},
         MaterialUpdate(p, d, n)
  PROVE  /\ Shape' /\ Consistent(lost)'
         /\ Updates(mem, mem', p) /\ (Shows(mem, target[p], p) => Shows(mem', target'[p], p))
<1>1. /\ p # Bianca /\ held[p] > 0 /\ p \in Res
      /\ \A r \in {d, n} \ {None} : held[r] > 0
      /\ UNCHANGED <<db, held, q1, q2, todo, reloads>>
  BY StatusesDiffer DEF MaterialUpdate
<1>2. EngineOK(At(mem, q1), held, Away(lost)) /\ target[p] \in [Slots -> Data]
  BY AwayType DEF At, Engine, Shape, Data
<1>3. ASSUME NEW r \in {d, n}, r # None
      PROVE  r \in Assets \union Hands /\ held[r] > 0 /\ Layer[r] < Layer[p]
  <2>1. r \in app.textures /\ app \in Apps
    BY <1>3 DEF Shape
  <2>2. r \in Assets \union Hands
    BY <2>1, Res2Assumption
  <2>3. r \in UNION {x.textures : x \in Apps}
    BY <2>1
  <2> QED
    BY <2>2, <2>3, <1>1, <1>3, LayerAssumption
<1>4. PICK t0 : t0 = target[p]
  OBVIOUS
<1>5. Updated(Set([mem |-> mem, tgt |-> t0], p, "diffuse", d), mem, t0, q1, held, Away(lost), p)
  <2>1. "diffuse" \in Slots
    BY DEF Slots
  <2>2. d # None => d \in Assets \union Hands /\ held[d] > 0 /\ Layer[d] < Layer[p]
    BY <1>3
  <2>3. t0 \in [Slots -> Data]
    BY <1>2, <1>4
  <2> QED
    BY <2>1, <2>2, <2>3, <1>1, <1>2, SetIs
<1>6. PICK m1, t1 : /\ Set([mem |-> mem, tgt |-> t0], p, "diffuse", d) = [mem |-> m1, tgt |-> t1]
                    /\ EngineOK(At(m1, q1), held, Away(lost)) /\ t1 \in [Slots -> Data]
                    /\ Updates(mem, m1, p) /\ (Shows(mem, t0, p) => Shows(m1, t1, p))
  BY <1>5 DEF Updated
<1>7. Updated(Set([mem |-> m1, tgt |-> t1], p, "normal", n), m1, t1, q1, held, Away(lost), p)
  <2>1. "normal" \in Slots
    BY DEF Slots
  <2>2. n # None => n \in Assets \union Hands /\ held[n] > 0 /\ Layer[n] < Layer[p]
    BY <1>3
  <2>3. EngineOK(At(m1, q1), held, Away(lost)) /\ t1 \in [Slots -> Data]
    BY <1>6
  <2> QED
    BY <2>1, <2>2, <2>3, <1>1, SetIs
<1>8. PICK m2, t2 : /\ Set([mem |-> m1, tgt |-> t1], p, "normal", n) = [mem |-> m2, tgt |-> t2]
                    /\ EngineOK(At(m2, q1), held, Away(lost)) /\ t2 \in [Slots -> Data]
                    /\ Updates(m1, m2, p) /\ (Shows(m1, t1, p) => Shows(m2, t2, p))
  BY <1>7 DEF Updated
<1>9. mem' = m2 /\ target' = [target EXCEPT ![p] = t2]
  <2>1. PICK v : v = [mem |-> m2, tgt |-> t2]
    OBVIOUS
  <2>2. v.mem = m2 /\ v.tgt = t2
    BY <2>1
  <2>3. v = Set(Set([mem |-> mem, tgt |-> target[p]], p, "diffuse", d), p, "normal", n)
    BY <2>1, <1>4, <1>6, <1>8
  <2>4. mem' = v.mem /\ target' = [target EXCEPT ![p] = v.tgt]
    BY <2>3 DEF MaterialUpdate, Set
  <2> QED
    BY <2>2, <2>4
<1>10. ~Calm
  <2>1. ASSUME Calm PROVE FALSE
    <3>1. ~Known(mem, p)
      BY <2>1, <1>1 DEF Consistent, NoMaterials
    <3>2. Known(mem, p)
      BY <1>1, HeldKnown
    <3> QED
      BY <3>1, <3>2
  <2> QED
    BY <2>1
<1>11. Consistent(lost)'
  BY <1>1, <1>8, <1>9, <1>10, MaterialStep
<1>12. Shape'
  BY <1>1, <1>8, <1>9 DEF Shape, Data
<1>13. Updates(mem, mem', p) /\ (Shows(mem, target[p], p) => Shows(mem', target'[p], p))
  <2>1. Shows(mem, t0, p) => Shows(m2, t2, p)
    BY <1>6, <1>8
  <2>2. target'[p] = t2
    BY <1>9 DEF Shape
  <2>3. Updates(mem, m2, p)
    BY <1>6, <1>8 DEF Updates
  <2> QED
    BY <2>1, <2>2, <2>3, <1>4, <1>9
<1> QED
  BY <1>11, <1>12, <1>13

(* A new material shows the default texture twice.                         *)
WithBianca(m, p) == IncRefCount(AddChild(m, p, Bianca), Bianca)
NewMaterial(m, p) == WithBianca(WithBianca([m EXCEPT ![p] = Reserved("ready")], p), p)

Unmoved(m, n, p) ==
  \A x \in Res \ {p} : n[x].status = m[x].status /\ n[x].figli = m[x].figli

LEMMA MaterialMade ==
  ASSUME NEW m, NEW q, NEW h, NEW away, EngineOK(At(m, q), h, away),
         NEW p \in Hands, p # Bianca, ~Known(m, p), h[Bianca] > 0
  PROVE  /\ h[p] = 0 /\ EngineOK(At(NewMaterial(m, p), q), More(h, p), away)
         /\ NewMaterial(m, p)[p].figli = <<Bianca, Bianca>>
         /\ Unmoved(m, NewMaterial(m, p), p)
<1>1. /\ p \in Res /\ Bianca \in Res /\ p \notin Assets /\ p \notin Sigs /\ Layer[Bianca] < Layer[p]
  BY StatusesDiffer, Res2Assumption, LayerAssumption
<1>2. PICK e : e = At(m, q)
  OBVIOUS
<1>3. e.mem = m /\ e.q1 = q /\ EngineOK(e, h, away)
  BY <1>2 DEF At
<1>4. /\ h \in [Res -> Nat] /\ away \in [Res -> Nat] /\ m \in Memory /\ q \in Seq(Request)
      /\ Sound(m, Base(h, away, q))
  BY <1>3 DEF EngineOK, Sound
<1>5. PICK b : b = Base(h, away, q)
  OBVIOUS
<1>6. b \in [Res -> Nat] /\ b[p] = 0 /\ h[p] = 0 /\ b[Bianca] > 0 /\ Sound(m, b)
  <2>1. /\ Base(h, away, q) \in [Res -> Nat]
        /\ \A r \in Res : /\ Base(h, away, q)[r] = h[r] + away[r] + Loads(q, r)
                          /\ Loads(q, r) \in Nat
    BY <1>4, BaseType
  <2>2. Sound(m, b) /\ b[p] = 0
    BY <1>1, <1>4, <1>5 DEF Sound, FreeUnused
  <2>3. PICK x, y, u : x = Loads(q, p) /\ y = h[p] /\ u = away[p]
    OBVIOUS
  <2>4. x \in Nat /\ y \in Nat /\ u \in Nat /\ y + u + x = 0
    BY <2>1, <2>2, <2>3, <1>1, <1>4, <1>5
  <2>5. y = 0
    BY <2>4
  <2>6. h[p] = 0 /\ b[Bianca] > 0
    BY <2>3, <2>5, <1>1, <1>4, <1>5, BaseFewer
  <2> QED
    BY <2>1, <2>2, <2>6, <1>5
<1>7. PICK n0 : n0 = [m EXCEPT ![p] = Reserved("ready")]
  OBVIOUS
<1>8. PICK c : c = More(b, p)
  OBVIOUS
<1>9. Sound(n0, c) /\ n0[p] = Reserved("ready") /\ \A x \in Res : x # p => n0[x] = m[x]
  <2>1. "ready" \in Status \ {"free"}
    BY DEF Status
  <2>2. /\ Sound([m EXCEPT ![p] = Reserved("ready")], More(b, p))
        /\ [m EXCEPT ![p] = Reserved("ready")][p] = Reserved("ready")
        /\ \A x \in Res : x # p => [m EXCEPT ![p] = Reserved("ready")][x] = m[x]
    BY <2>1, <1>1, <1>6, SoundNew
  <2> QED
    BY <2>2, <1>7, <1>8
<1>10. c \in [Res -> Nat] /\ c[Bianca] > 0
  BY <1>1, <1>6, <1>8, MoreIs
<1>11. Reserved("ready").status = "ready" /\ Reserved("ready").figli = <<>>
  BY DEF Reserved, FreeSlot
<1>12. PICK n1 : n1 = WithBianca(n0, p)
  OBVIOUS
<1>13. /\ Sound(n1, c)
       /\ \A x \in Res : /\ n1[x].status = n0[x].status
                         /\ n1[x].figli = IF x = p THEN <<Bianca>> \o n0[x].figli ELSE n0[x].figli
  <2>1. Known(n0, p)
    BY <1>9, <1>11 DEF Known
  <2> QED
    BY <2>1, <1>1, <1>9, <1>10, <1>12, LinkHeld DEF WithBianca
<1>14. PICK n : n = WithBianca(n1, p)
  OBVIOUS
<1>15. /\ Sound(n, c)
       /\ \A x \in Res : /\ n[x].status = n1[x].status
                         /\ n[x].figli = IF x = p THEN <<Bianca>> \o n1[x].figli ELSE n1[x].figli
  <2>1. Known(n1, p)
    BY <1>1, <1>9, <1>11, <1>13 DEF Known
  <2> QED
    BY <2>1, <1>1, <1>10, <1>13, <1>14, LinkHeld DEF WithBianca
<1>16. n = NewMaterial(m, p)
  BY <1>7, <1>12, <1>14 DEF NewMaterial
<1>17. PICK k : k = More(h, p)
  OBVIOUS
<1>18. k \in [Res -> Nat] /\ c = Base(k, away, q)
  <2>1. h \in [Res -> Nat] /\ away \in [Res -> Nat] /\ q \in Seq(Request) /\ p \in Res
    BY <1>1, <1>4
  <2>2. More(h, p) \in [Res -> Nat] /\ More(Base(h, away, q), p) = Base(More(h, p), away, q)
    BY <2>1, BaseMore
  <2> QED
    BY <2>2, <1>5, <1>8, <1>17
<1>19. n[p].figli = <<Bianca, Bianca>>
  <2>1. n1[p].figli = <<Bianca>> \o <<>> /\ n[p].figli = <<Bianca>> \o n1[p].figli
    BY <1>1, <1>9, <1>11, <1>13, <1>15
  <2>2. <<Bianca>> \o <<>> = <<Bianca>> /\ <<Bianca>> \o <<Bianca>> = <<Bianca, Bianca>>
    BY PairMade
  <2> QED
    BY <2>1, <2>2
<1>20. Unmoved(m, n, p)
  BY <1>9, <1>13, <1>15 DEF Unmoved
<1>21. EngineOK(At(n, q), k, away)
  <2>1. LoadsOK(e, h, away) /\ AssetsShow(m)
    BY <1>3, EngineIs
  <2>2. LoadsOK([mem |-> n, q1 |-> e.q1], k, away)
    <3>1. Sound(n, Base(k, away, e.q1))
      BY <1>3, <1>15, <1>18
    <3>2. \A x \in Sigs : Known(n, x) =>
            n[x].status = e.mem[x].status \/ (~Known(e.mem, x) /\ n[x].status = "unloaded")
      BY <1>1, <1>3, <1>20, StatusesDiffer DEF Unmoved
    <3> QED
      BY <2>1, <3>1, <3>2, <1>18, LoadsSame
  <2>3. AssetsShow(n)
    <3>1. \A x \in Assets : x \in Res /\ x # p
      BY <1>1, StatusesDiffer
    <3> QED
      BY <2>1, <3>1, <1>20 DEF Unmoved, AssetsShow, AssetShows, Known
  <2>4. LoadsOK(At(n, q), k, away) /\ At(n, q).mem = n
    BY <2>2, <1>3 DEF At
  <2> QED
    BY <2>3, <2>4, EngineIs
<1> QED
  BY <1>6, <1>16, <1>17, <1>19, <1>20, <1>21

LEMMA MaterialCreateKeeps ==
  ASSUME Shape, NEW lost, Consistent(lost), app' = app, NEW p \in Hands, MaterialCreate(p)
  PROVE  /\ Shape' /\ Consistent(lost)'
         /\ mem'[p].figli = <<Bianca, Bianca>> /\ Unmoved(mem, mem', p)
<1>1. /\ p # Bianca /\ p \in Res /\ ~Known(mem, p) /\ "materials" \in app.does
      /\ target' = [target EXCEPT ![p] = [s \in Slots |-> Bianca]]
      /\ held' = [held EXCEPT ![p] = 1] /\ UNCHANGED <<db, q1, q2, todo, reloads>>
      /\ Bianca \in Res /\ Bianca \in Hands /\ held[Bianca] > 0
  BY StatusesDiffer, Res2Assumption DEF MaterialCreate, Shape
<1>2. mem' = NewMaterial(mem, p)
  BY DEF MaterialCreate, NewMaterial, WithBianca
<1>3. EngineOK(At(mem, q1), held, Away(lost)) /\ held \in [Res -> Nat]
  BY AwayType DEF At, Engine
<1>4. PICK n : n = NewMaterial(mem, p)
  OBVIOUS
<1>5. /\ held[p] = 0 /\ EngineOK(At(n, q1), More(held, p), Away(lost))
      /\ n[p].figli = <<Bianca, Bianca>> /\ Unmoved(mem, n, p)
  BY <1>1, <1>3, <1>4, MaterialMade
<1>6. held' = More(held, p)
  BY <1>1, <1>3, <1>5 DEF More
<1>7. ~Calm
  BY <1>1 DEF Calm
<1>8. Consistent(lost)'
  BY <1>1, <1>2, <1>4, <1>5, <1>6, <1>7, MaterialStep
<1>9. Shape'
  <2>1. held' \in [Res -> 0..MaxHeld + 1] /\ held'[Bianca] > 0
    <3>1. 1 \in 0..MaxHeld + 1
      BY Res2Assumption
    <3> QED
      BY <3>1, <1>1 DEF Shape
  <2> QED
    BY <2>1, <1>1 DEF Shape
<1> QED
  BY <1>2, <1>4, <1>5, <1>8, <1>9

-----------------------------------------------------------------------------
(* The first state: nothing but the default texture.                       *)
Zero == [r \in Res |-> 0]
Nothing == [r \in Res |-> FreeSlot]
Setup == [Nothing EXCEPT ![Bianca] = Reserved("ready")]

LEMMA NothingIsSound ==
  Sound(Nothing, Zero)
<1>1. PICK m, z : m = Nothing /\ z = Zero
  OBVIOUS
<1>2. m \in Memory /\ \A r \in Res : m[r] = FreeSlot
  BY <1>1, FreeSlotType DEF Memory, Nothing
<1>3. z \in [Res -> Nat] /\ \A r \in Res : z[r] = 0
  BY <1>1 DEF Zero
<1>4. \A r \in Res : /\ ~Known(m, r) /\ m[r].ref = 0
                     /\ m[r].padri = <<>> /\ m[r].figli = <<>>
  BY <1>2 DEF Known, FreeSlot
<1>5. Range(<<>>) = {}
  BY DEF Range
<1>6. ASSUME NEW r \in Res PROVE Counts(m, r) = 0
  <2>1. \A p \in Res : r \notin Range(m[p].figli)
    BY <1>4, <1>5
  <2> QED
    BY <2>1, <1>2, LinksType DEF Counts
<1>7. ASSUME NEW p \in Res, NEW c \in Res
      PROVE  Occurrences(m[c].padri, p) <= Occurrences(m[p].figli, c)
  <2>1. m[c].padri = m[p].figli /\ m[c].padri = <<>>
    BY <1>4
  <2>2. PICK o : o = m[c].padri
    OBVIOUS
  <2>3. o \in Seq(Res) /\ Range(o) = {}
    BY <2>1, <2>2, <1>2, <1>5, ListsType
  <2>4. PICK x, y : x = Occurrences(o, p) /\ y = Occurrences(o, c)
    OBVIOUS
  <2>5. x \in Nat /\ y \in Nat /\ ~(x > 0) /\ ~(y > 0)
    BY <2>3, <2>4, OccurrencesType
  <2> QED
    BY <2>1, <2>2, <2>4, <2>5
<1>8. RefsExact(m, z)
  BY <1>4 DEF RefsExact
<1>9. FreeUnused(m, z)
  BY <1>3, <1>4, <1>6 DEF FreeUnused
<1>10. ParentsShow(m)
  BY <1>7 DEF ParentsShow
<1>11. Layered(m)
  BY <1>4, <1>5 DEF Layered
<1> QED
  BY <1>1, <1>2, <1>3, <1>8, <1>9, <1>10, <1>11 DEF Sound

LEMMA InitKeeps ==
  Init => Shape /\ Consistent(Zero)
<1> SUFFICES ASSUME Init PROVE Shape /\ Consistent(Zero)
  OBVIOUS
<1>0. /\ Bianca \in Res /\ Bianca \notin Assets /\ Bianca \notin Sigs /\ Bianca \in Hands
      /\ held = [r \in Res |-> IF r = Bianca THEN 1 ELSE 0]
      /\ q1 = <<>> /\ todo = <<>> /\ q2 = <<>>
  BY Res2Assumption, StatusesDiffer DEF Init
<1>1. PICK m : m = Nothing
  OBVIOUS
<1>2. Sound(m, Zero) /\ m \in [Res -> {FreeSlot}] /\ \A r \in Res : m[r] = FreeSlot
  BY <1>1, NothingIsSound DEF Nothing
<1>3. FreeSlot.status = "free" /\ Reserved("ready").status = "ready" /\ Reserved("ready").ref = 1
  BY DEF FreeSlot, Reserved
<1>4. PICK n : n = Setup
  OBVIOUS
<1>5. Sound(n, More(Zero, Bianca)) /\ n[Bianca] = Reserved("ready") /\ \A r \in Res : r # Bianca => n[r] = FreeSlot
  <2>1. "ready" \in Status \ {"free"} /\ ~Known(m, Bianca)
    BY <1>0, <1>2, <1>3 DEF Status, Known
  <2>2. /\ Sound([m EXCEPT ![Bianca] = Reserved("ready")], More(Zero, Bianca))
        /\ [m EXCEPT ![Bianca] = Reserved("ready")][Bianca] = Reserved("ready")
        /\ \A r \in Res : r # Bianca => [m EXCEPT ![Bianca] = Reserved("ready")][r] = m[r]
    BY <2>1, <1>0, <1>2, SoundNew
  <2> QED
    BY <2>2, <1>1, <1>2, <1>4 DEF Setup
<1>6. mem = n
  BY <1>0, <1>4 DEF Init, Setup, Nothing
<1>7. PICK o : o = <<>>
  OBVIOUS
<1>8. o \in Seq(Request) /\ o \in Seq(Reply) /\ o \in Seq(Message) /\ \A r : Loads(o, r) = 0
  BY <1>7, LoadsNone
<1>9. PICK a : a = Away(Zero)
  OBVIOUS
<1>10. a \in [Res -> Nat] /\ \A r \in Res : a[r] = 0
  BY <1>0, <1>7, <1>8, <1>9 DEF Away, Zero
<1>11. held \in [Res -> Nat] /\ Base(held, a, o) = More(Zero, Bianca)
  BY <1>0, <1>8, <1>10 DEF Base, More, Zero
<1>12. PICK e : e = [mem |-> n, q1 |-> o]
  OBVIOUS
<1>13. e.mem = n /\ e.q1 = o /\ e = Engine
  BY <1>0, <1>6, <1>7, <1>12 DEF Engine
<1>14. n \in Memory
  BY <1>5 DEF Sound
<1>15. EngineOK(e, held, a)
  <2>1. e \in EngineSet
    BY <1>8, <1>12, <1>14 DEF EngineSet
  <2>2. LoadingOnce(n, a, o)
    <3> SUFFICES ASSUME NEW s \in Sigs
                 PROVE  a[s] + Loads(o, s) = IF n[s].status = "loading" THEN 1 ELSE 0
      BY DEF LoadingOnce
    <3>1. s \in Res /\ s # Bianca
      BY <1>0, StatusesDiffer
    <3>2. n[s].status = "free"
      BY <3>1, <1>3, <1>5
    <3>3. a[s] = 0 /\ Loads(o, s) = 0
      BY <3>1, <1>8, <1>10
    <3> QED
      BY <3>2, <3>3
  <2>3. AssetsShow(n)
    <3>1. \A x \in Assets : x \in Res /\ x # Bianca
      BY <1>0, StatusesDiffer
    <3> QED
      BY <3>1, <1>3, <1>5 DEF AssetsShow, Known
  <2>4. Sound(n, Base(held, a, o))
    BY <1>5, <1>11
  <2> QED
    BY <2>1, <2>2, <2>3, <2>4, <1>8, <1>10, <1>11, <1>13 DEF EngineOK
<1>16. \A r \in Res : Slack(n, r) + Zero[r] >= 0
  <2> TAKE r \in Res
  <2>1. Zero[r] = 0
    BY DEF Zero
  <2>2. r = Bianca => Slack(n, r) = 0
    BY <1>0, <1>3, <1>5 DEF Slack, Known
  <2>3. r # Bianca => Slack(n, r) = 0
    BY <1>3, <1>5 DEF Slack, Known, FreeSlot
  <2> QED
    BY <2>1, <2>2, <2>3
<1>17. NoMaterials
  <2>1. \A q \in Hands : q \in Res
    BY StatusesDiffer
  <2> QED
    BY <2>1, <1>3, <1>5, <1>6 DEF NoMaterials, Known
<1>18. LostLoads(Zero)
  BY DEF LostLoads, Zero
<1>19. Consistent(Zero)
  BY <1>6, <1>9, <1>13, <1>15, <1>16, <1>17, <1>18 DEF Consistent
<1>20. Shape
  <2>1. 1 \in 0..MaxHeld + 1 /\ 0 \in 0..MaxHeld + 1 /\ 0 \in 0..MaxReload
    BY Res2Assumption
  <2>2. held \in [Res -> 0..MaxHeld + 1] /\ held[Bianca] > 0
    BY <2>1, <1>0
  <2>3. todo \in Seq(Reply) /\ q2 \in Seq(Reply)
    BY <1>0, <1>7, <1>8
  <2> QED
    BY <2>1, <2>2, <2>3 DEF Shape, Init
<1> QED
  BY <1>19, <1>20

-----------------------------------------------------------------------------
(* Every step keeps the state in order.                                    *)

LEMMA InitIInv == Init => IInv
BY InitKeeps DEF IInv

(* What the materials show.                                                *)
NoReload == app.does \intersect {"hotReload", "hotReloadUnready"} = {}

MaterialsShow == \A p \in Hands \ {Bianca} : Known(mem, p) => Shows(mem, target[p], p)

SameAssets(m, n) == \A a \in Assets : Known(m, a) /\ Known(n, a) => n[a].figli = m[a].figli

LEMMA ShowsStays ==
  ASSUME NEW m, NEW b, Sound(m, b), NEW n, NEW c, Sound(n, c), SameAssets(m, n),
         NEW p \in Hands, n[p].figli = m[p].figli, NEW t, Shows(m, t, p)
  PROVE  Shows(n, t, p)
<1>1. PICK x \in Res, y \in Res : m[p].figli = <<x, y>> /\ (Pairs(m, x, y, t) \/ Pairs(m, y, x, t))
  BY DEF Shows
<1>2. p \in Res /\ x \in Range(m[p].figli) /\ y \in Range(m[p].figli)
  BY <1>1, StatusesDiffer DEF Range
<1>3. Known(m, x) /\ Known(n, x) /\ Known(m, y) /\ Known(n, y)
  BY <1>2, SoundKnows
<1>4. DataOf(n, x) = DataOf(m, x) /\ DataOf(n, y) = DataOf(m, y)
  BY <1>3 DEF SameAssets, DataOf
<1> QED
  BY <1>1, <1>4 DEF Shows, Pairs

(* A step that leaves the materials that remain as they are.               *)
LEMMA MaterialsStay ==
  ASSUME NEW lost, Consistent(lost), NEW l, Consistent(l)', SameAssets(mem, mem'),
         NEW p \in Hands, Known(mem', p) => Known(mem, p) /\ mem'[p].figli = mem[p].figli,
         target'[p] = target[p], Known(mem, p) => Shows(mem, target[p], p), Known(mem', p)
  PROVE  Shows(mem', target'[p], p)
<1>1. Sound(mem, Base(held, Away(lost), q1))
  BY AwayType
<1>2. \E b : Sound(mem', b)
  BY DEF Consistent, EngineOK, Engine
<1> QED
  BY <1>1, <1>2, ShowsStays

LEMMA KeptShows ==
  ASSUME NEW lost, Consistent(lost), NEW l, Consistent(l)', Kept(mem, mem'), target' = target,
         MaterialsShow
  PROVE  MaterialsShow'
<1>1. SameAssets(mem, mem')
  BY DEF Kept, SameAssets
<1>2. ASSUME NEW p \in Hands \ {Bianca}, Known(mem', p) PROVE Shows(mem', target'[p], p)
  <2>1. Known(mem, p) /\ mem'[p].figli = mem[p].figli
    BY <1>2 DEF Kept
  <2>2. Known(mem, p) => Shows(mem, target[p], p)
    BY DEF MaterialsShow
  <2> QED
    BY <2>1, <2>2, <1>1, <1>2, MaterialsStay
<1> QED
  BY <1>2 DEF MaterialsShow

LEMMA ReleaseShows ==
  ASSUME NEW lost, Consistent(lost), NEW l, Consistent(l)', NEW r \in Res, Spares(mem, mem', r),
         Release(r), MaterialsShow
  PROVE  MaterialsShow'
<1>1. SameAssets(mem, mem')
  BY StatusesDiffer DEF Spares, Survives, SameHandle, SameAssets
<1>2. ASSUME NEW p \in Hands \ {Bianca}, Known(mem', p) PROVE Shows(mem', target'[p], p)
  <2>1. Known(mem, p) /\ mem'[p].figli = mem[p].figli
    BY <1>2, StatusesDiffer DEF Spares, Survives, SameHandle
  <2>2. Known(mem, p) => Shows(mem, target[p], p)
    BY DEF MaterialsShow
  <2>3. target'[p] = target[p]
    BY <1>2 DEF Release
  <2> QED
    BY <2>1, <2>2, <2>3, <1>1, <1>2, MaterialsStay
<1> QED
  BY <1>2 DEF MaterialsShow

LEMMA UpdateShows ==
  ASSUME Shape, NEW lost, Consistent(lost), NEW l, Consistent(l)', NEW h \in Hands, NEW d, NEW n,
         MaterialUpdate(h, d, n), MaterialsShow,
         Updates(mem, mem', h), Shows(mem, target[h], h) => Shows(mem', target'[h], h)
  PROVE  MaterialsShow'
<1>1. SameAssets(mem, mem') /\ h \notin Assets
  BY StatusesDiffer DEF Updates, SameAssets
<1>2. ASSUME NEW p \in Hands \ {Bianca}, Known(mem', p) PROVE Shows(mem', target'[p], p)
  <2>1. Known(mem, p) /\ (p # h => mem'[p].figli = mem[p].figli)
    BY <1>2, StatusesDiffer DEF Updates
  <2>2. Shows(mem, target[p], p)
    BY <2>1 DEF MaterialsShow
  <2>3. p # h => target'[p] = target[p]
    BY DEF MaterialUpdate, Shape
  <2> QED
    BY <2>1, <2>2, <2>3, <1>1, <1>2, MaterialsStay
<1> QED
  BY <1>2 DEF MaterialsShow

LEMMA CreateShows ==
  ASSUME Shape, NEW lost, Consistent(lost), NEW l, Consistent(l)', NEW h \in Hands,
         MaterialCreate(h), MaterialsShow,
         mem'[h].figli = <<Bianca, Bianca>>, Unmoved(mem, mem', h)
  PROVE  MaterialsShow'
<1>1. SameAssets(mem, mem') /\ h \notin Assets /\ Bianca \in Res /\ Bianca \notin Assets
  BY StatusesDiffer, Res2Assumption DEF Unmoved, SameAssets
<1>2. ASSUME NEW p \in Hands \ {Bianca}, Known(mem', p) PROVE Shows(mem', target'[p], p)
  <2>1. CASE p = h
    <3>1. target'[p] = [s \in Slots |-> Bianca]
      BY <2>1 DEF MaterialCreate, Shape
    <3>2. Pairs(mem', Bianca, Bianca, target'[p])
      BY <3>1, <1>1 DEF Pairs, DataOf, Slots
    <3> QED
      BY <3>2, <2>1, <1>1 DEF Shows
  <2>2. CASE p # h
    <3>1. Known(mem, p) /\ mem'[p].figli = mem[p].figli
      BY <2>2, <1>2, StatusesDiffer DEF Unmoved, Known
    <3>2. Shows(mem, target[p], p)
      BY <3>1 DEF MaterialsShow
    <3>3. target'[p] = target[p]
      BY <2>2 DEF MaterialCreate, Shape
    <3> QED
      BY <3>1, <3>2, <3>3, <1>1, <1>2, MaterialsStay
  <2> QED
    BY <2>1, <2>2
<1> QED
  BY <1>2 DEF MaterialsShow

(* One case for each operation of the application, the engine and the      *)
(* loader.                                                                 *)
LEMMA StepKeeps ==
  ASSUME IInv, Next
  PROVE  /\ Shape' /\ \E l : Consistent(l)'
         /\ NoReload /\ MaterialsShow => MaterialsShow'
<1>0. Shape /\ app' = app
  BY DEF IInv, Next
<1>1. PICK lost : Consistent(lost)
  BY DEF IInv
<1>2. ASSUME NEW a \in app.assets, NEW asap \in BOOLEAN, CreateFromAsset(a, asap)
      PROVE  Shape' /\ (\E l : Consistent(l)') /\ (MaterialsShow => MaterialsShow')
  <2>1. Shape' /\ Consistent(lost)' /\ Kept(mem, mem')
    BY <1>0, <1>1, <1>2, CreateKeeps
  <2>2. target' = target
    BY <1>2 DEF CreateFromAsset
  <2> QED
    BY <2>1, <2>2, <1>1, KeptShows
<1>3. ASSUME NEW r \in Res, Get(r)
      PROVE  Shape' /\ (\E l : Consistent(l)') /\ (MaterialsShow => MaterialsShow')
  <2>1. Shape' /\ Consistent(lost)' /\ Kept(mem, mem')
    BY <1>0, <1>1, <1>3, GetKeeps
  <2>2. target' = target
    BY <1>3 DEF Get
  <2> QED
    BY <2>1, <2>2, <1>1, KeptShows
<1>4. ASSUME NEW r \in Res, Release(r)
      PROVE  Shape' /\ (\E l : Consistent(l)') /\ (MaterialsShow => MaterialsShow')
  <2>1. Shape' /\ Consistent(lost)' /\ Spares(mem, mem', r)
    BY <1>0, <1>1, <1>4, ReleaseKeeps
  <2> QED
    BY <2>1, <1>1, <1>4, ReleaseShows
<1>5. ASSUME NEW h \in Hands, MaterialCreate(h)
      PROVE  Shape' /\ (\E l : Consistent(l)') /\ (MaterialsShow => MaterialsShow')
  <2>1. Shape' /\ Consistent(lost)' /\ mem'[h].figli = <<Bianca, Bianca>> /\ Unmoved(mem, mem', h)
    BY <1>0, <1>1, <1>5, MaterialCreateKeeps
  <2> QED
    BY <2>1, <1>0, <1>1, <1>5, CreateShows
<1>6. ASSUME NEW h \in Hands, NEW d \in app.textures \union {None}, NEW n \in app.textures \union {None},
             MaterialUpdate(h, d, n)
      PROVE  Shape' /\ (\E l : Consistent(l)') /\ (MaterialsShow => MaterialsShow')
  <2>1. /\ Shape' /\ Consistent(lost)'
        /\ Updates(mem, mem', h) /\ (Shows(mem, target[h], h) => Shows(mem', target'[h], h))
    BY <1>0, <1>1, <1>6, MaterialUpdateKeeps
  <2> QED
    BY <2>1, <1>0, <1>1, <1>6, UpdateShows
<1>7. ASSUME NEW a \in Assets, NEW s \in Versions[a], HotReload(a, s)
      PROVE  Shape' /\ (\E l : Consistent(l)') /\ ~NoReload
  <2>1. Shape' /\ Consistent(lost)'
    BY <1>0, <1>1, <1>7, HotReloadKeeps
  <2>2. ~NoReload
    BY <1>7 DEF HotReload, NoReload
  <2> QED
    BY <2>1, <2>2
<1>8. ASSUME FlushPop
      PROVE  Shape' /\ (\E l : Consistent(l)') /\ (MaterialsShow => MaterialsShow')
  <2>1. Shape' /\ Consistent(lost)'
    BY <1>0, <1>1, <1>8, FlushPopKeeps
  <2>2. target' = target /\ mem' = mem
    BY <1>8 DEF FlushPop
  <2>3. MaterialsShow => MaterialsShow'
    BY <2>2 DEF MaterialsShow
  <2> QED
    BY <2>1, <2>3
<1>9. ASSUME FlushOne
      PROVE  Shape' /\ (\E l : Consistent(l)') /\ (MaterialsShow => MaterialsShow')
  <2>1. Shape' /\ Consistent(lost)' /\ Kept(mem, mem')
    BY <1>0, <1>1, <1>9, FlushOneKeeps
  <2>2. target' = target
    BY <1>9 DEF FlushOne
  <2> QED
    BY <2>1, <2>2, <1>1, KeptShows
<1>10. ASSUME LoaderStep
       PROVE  Shape' /\ (\E l : Consistent(l)') /\ (MaterialsShow => MaterialsShow')
  <2>1. Shape' /\ \E l : Consistent(l)'
    BY <1>0, <1>1, <1>10, LoaderStepKeeps
  <2>2. target' = target /\ mem' = mem
    BY <1>10 DEF LoaderStep
  <2>3. MaterialsShow => MaterialsShow'
    BY <2>2 DEF MaterialsShow
  <2> QED
    BY <2>1, <2>3
<1> QED
  BY <1>2, <1>3, <1>4, <1>5, <1>6, <1>7, <1>8, <1>9, <1>10 DEF Next, AppNext

LEMMA IInvStep == IInv /\ [Next]_vars => IInv'
<1> SUFFICES ASSUME IInv, [Next]_vars PROVE IInv'
  OBVIOUS
<1>1. CASE Next
  BY <1>1, StepKeeps DEF IInv
<1>2. CASE UNCHANGED vars
  BY <1>2 DEF vars, runVars, IInv, Shape, Consistent, LostLoads, LoaderSucceeds, Engine, Away, Calm, NoMaterials
<1> QED
  BY <1>1, <1>2

LEMMA InvIsInductive == Spec => []IInv
BY InitIInv, IInvStep, PTL DEF Spec
-----------------------------------------------------------------------------
(* What the invariant says of the properties.                              *)

LEMMA InFlightIs ==
  ASSUME Shape, NEW lost, Consistent(lost), NEW r \in Res
  PROVE  /\ InFlight(r) \in Nat
         /\ InFlight(r) + lost[r] = Away(lost)[r] + Loads(q1, r)
<1>1. q1 \in Seq(Message) /\ todo \in Seq(Message) /\ q2 \in Seq(Message)
  <2>1. \A x \in Reply : x \in Message
    BY DEF Reply
  <2>2. todo \in Seq(Reply) /\ q2 \in Seq(Reply) /\ q1 \in Seq(Request)
    BY AwayType DEF Shape
  <2> QED
    BY <2>1, <2>2, RequestsAreMessages
<1>2. q1 \o todo \in Seq(Message)
  BY <1>1
<1>3. PICK x, y, z, u : /\ x = Loads(q1, r) /\ y = Loads(todo, r) /\ z = Loads(q2, r)
                        /\ u = Loads((q1 \o todo) \o q2, r)
  OBVIOUS
<1>4. u = Loads(q1 \o todo, r) + z /\ Loads(q1 \o todo, r) = x + y
  <2>1. Loads((q1 \o todo) \o q2, r) = Loads(q1 \o todo, r) + Loads(q2, r)
    BY <1>1, <1>2, LoadsConcat
  <2>2. Loads(q1 \o todo, r) = Loads(q1, r) + Loads(todo, r)
    BY <1>1, LoadsConcat
  <2> QED
    BY <2>1, <2>2, <1>3
<1>5. x \in Nat /\ y \in Nat /\ z \in Nat
  BY <1>1, <1>3, LoadsType
<1>6. InFlight(r) = u
  <2>1. (q1 \o todo) \o q2 = q1 \o todo \o q2
    OBVIOUS
  <2> QED
    BY <2>1, <1>3 DEF InFlight, InTransit, Loads, Carries
<1>7. lost[r] \in Nat /\ Away(lost)[r] = y + z + lost[r]
  BY <1>3 DEF Away, Consistent, LostLoads
<1> QED
  BY <1>3, <1>4, <1>5, <1>6, <1>7

LEMMA InvTyped == IInv => TypeOK
<1> SUFFICES ASSUME IInv PROVE TypeOK
  OBVIOUS
<1>1. PICK lost : Consistent(lost)
  BY DEF IInv
<1>2. Shape
  BY DEF IInv
<1>3. q1 \in Seq(Message) /\ todo \in Seq(Message) /\ q2 \in Seq(Message)
  <2>1. \A x \in Reply : x \in Message
    BY DEF Reply
  <2>2. todo \in Seq(Reply) /\ q2 \in Seq(Reply) /\ q1 \in Seq(Request)
    BY <1>1, <1>2, AwayType DEF Shape
  <2> QED
    BY <2>1, <2>2, RequestsAreMessages
<1>4. PICK b : Sound(mem, b)
  BY <1>1, AwayType
<1>5. mem \in Memory /\ b \in [Res -> Nat]
  BY <1>4 DEF Sound
<1>6. ASSUME NEW r \in Res PROVE mem[r].ref \in Nat
  <2>1. CASE Known(mem, r)
    <3>1. mem[r].ref = b[r] + Counts(mem, r)
      BY <2>1, <1>4 DEF Sound, RefsExact
    <3>2. Counts(mem, r) \in Nat /\ b[r] \in Nat
      BY <1>5, CountsType
    <3> QED
      BY <3>1, <3>2
  <2>2. CASE ~Known(mem, r)
    BY <2>2, <1>4 DEF Sound, FreeUnused
  <2> QED
    BY <2>1, <2>2
<1> QED
  BY <1>2, <1>3, <1>5, <1>6 DEF TypeOK, Shape

LEMMA InvNoDangling == IInv => NoDangling
<1> SUFFICES ASSUME IInv, NEW r \in Res, ~Known(mem, r)
             PROVE  /\ held[r] = 0 /\ InFlight(r) = 0
                    /\ \A p \in Res : r \notin Range(mem[p].figli) \union Range(mem[p].padri)
  BY DEF NoDangling
<1>1. PICK lost : Consistent(lost)
  BY DEF IInv
<1>2. PICK a, h : a = Away(lost) /\ h = held
  OBVIOUS
<1>3. /\ a \in [Res -> Nat] /\ h \in [Res -> Nat] /\ q1 \in Seq(Request) /\ Sound(mem, Base(h, a, q1))
      /\ lost[r] \in Nat
  BY <1>1, <1>2, AwayType DEF Consistent, LostLoads
<1>4. Base(h, a, q1)[r] = h[r] + a[r] + Loads(q1, r) /\ Loads(q1, r) \in Nat
  BY <1>3, BaseType
<1>5. Base(h, a, q1)[r] = 0
  BY <1>3 DEF Sound, FreeUnused
<1>6. PICK x, y, z : x = h[r] /\ y = a[r] /\ z = Loads(q1, r)
  OBVIOUS
<1>7. x \in Nat /\ y \in Nat /\ z \in Nat /\ x + y + z = 0
  BY <1>3, <1>4, <1>5, <1>6
<1>8. x = 0 /\ y + z = 0
  BY <1>7
<1>9. InFlight(r) \in Nat /\ InFlight(r) + lost[r] = y + z
  BY <1>1, <1>2, <1>6, InFlightIs DEF IInv
<1>10. InFlight(r) = 0
  BY <1>3, <1>8, <1>9
<1>11. \A p \in Res : r \notin Range(mem[p].figli) /\ r \notin Range(mem[p].padri)
  BY <1>3, SoundKnows
<1> QED
  BY <1>2, <1>6, <1>8, <1>10, <1>11

LEMMA InvCounts == IInv /\ LoaderSucceeds => RefCountExact
<1> SUFFICES ASSUME IInv, LoaderSucceeds, NEW r \in Res, Known(mem, r)
             PROVE  mem[r].ref = held[r] + InFlight(r) + Cardinality(Links(mem, r))
  BY DEF RefCountExact
<1>1. PICK lost : Consistent(lost)
  BY DEF IInv
<1>2. PICK a, h : a = Away(lost) /\ h = held
  OBVIOUS
<1>3. /\ a \in [Res -> Nat] /\ h \in [Res -> Nat] /\ q1 \in Seq(Request) /\ Sound(mem, Base(h, a, q1))
      /\ lost[r] = 0 /\ mem \in Memory
  BY <1>1, <1>2, AwayType DEF Consistent, LostLoads
<1>4. Base(h, a, q1)[r] = h[r] + a[r] + Loads(q1, r) /\ Loads(q1, r) \in Nat
  BY <1>3, BaseType
<1>5. mem[r].ref = Base(h, a, q1)[r] + Counts(mem, r)
  BY <1>3 DEF Sound, RefsExact
<1>6. InFlight(r) \in Nat /\ InFlight(r) + lost[r] = a[r] + Loads(q1, r)
  BY <1>1, <1>2, InFlightIs DEF IInv
<1>7. Counts(mem, r) \in Nat /\ Counts(mem, r) = Cardinality(Links(mem, r))
  BY <1>3, CountsType DEF Counts
<1>8. PICK x, y, z, u, v : x = h[r] /\ y = a[r] /\ z = Loads(q1, r) /\ u = Counts(mem, r) /\ v = InFlight(r)
  OBVIOUS
<1>9. /\ x \in Nat /\ y \in Nat /\ z \in Nat /\ u \in Nat /\ v \in Nat
      /\ v = y + z /\ mem[r].ref = (x + y + z) + u
  BY <1>3, <1>4, <1>5, <1>6, <1>7, <1>8
<1>10. mem[r].ref = x + v + u
  BY <1>9
<1> QED
  BY <1>2, <1>7, <1>8, <1>10

LEMMA InvLoads == IInv /\ LoaderSucceeds => LoadingIsInFlight
<1> SUFFICES ASSUME IInv, LoaderSucceeds, NEW s \in Sigs
             PROVE  InFlight(s) = IF mem[s].status = "loading" THEN 1 ELSE 0
  BY DEF LoadingIsInFlight
<1>1. PICK lost : Consistent(lost)
  BY DEF IInv
<1>2. lost[s] = 0 /\ LoadingOnce(mem, Away(lost), q1) /\ s \in Res
  BY <1>1, StatusesDiffer DEF Consistent, LostLoads, EngineOK, Engine
<1>3. InFlight(s) \in Nat /\ InFlight(s) + lost[s] = Away(lost)[s] + Loads(q1, s)
  BY <1>1, <1>2, InFlightIs DEF IInv
<1> QED
  BY <1>2, <1>3 DEF LoadingOnce

LEMMA InvLive == IInv /\ Calm => LiveIsOwned
<1> SUFFICES ASSUME IInv, Calm, NEW r \in Res, Known(mem, r)
             PROVE  mem[r].ref > 0
  BY DEF LiveIsOwned
<1>1. PICK lost : Consistent(lost)
  BY DEF IInv
<1>2. PICK a : a = Away(lost)
  OBVIOUS
<1>3. /\ Slack(mem, r) + lost[r] >= 0 /\ lost[r] \in Nat /\ (r \notin Sigs => lost[r] = 0)
      /\ mem \in Memory /\ LoadingOnce(mem, a, q1) /\ q1 \in Seq(Request)
  BY <1>1, <1>2, AwayType DEF Consistent, LostLoads, EngineOK
<1>4. mem[r].ref \in Int
  BY <1>3, ListsType
<1>5. ASSUME r \in Sigs PROVE lost[r] <= IF mem[r].status = "loading" THEN 1 ELSE 0
  <2>1. a[r] + Loads(q1, r) = IF mem[r].status = "loading" THEN 1 ELSE 0
    BY <1>3, <1>5 DEF LoadingOnce
  <2>2. InFlight(r) \in Nat /\ InFlight(r) + lost[r] = a[r] + Loads(q1, r)
    BY <1>1, <1>2, InFlightIs DEF IInv
  <2> QED
    BY <2>1, <2>2, <1>3
<1> QED
  BY <1>3, <1>4, <1>5 DEF Slack

LEMMA InvSlots == IInv /\ MaterialsShow => SlotOwnsData
<1> SUFFICES ASSUME MaterialsShow, NEW h \in Hands \ {Bianca}, Known(mem, h), NEW s \in Slots
             PROVE  \E c \in Range(mem[h].figli) : DataOf(mem, c) = target[h][s]
  BY DEF SlotOwnsData
<1>1. PICK x \in Res, y \in Res :
        mem[h].figli = <<x, y>> /\ (Pairs(mem, x, y, target[h]) \/ Pairs(mem, y, x, target[h]))
  BY DEF MaterialsShow, Shows
<1>2. x \in Range(mem[h].figli) /\ y \in Range(mem[h].figli)
  BY <1>1 DEF Range
<1>3. s = "diffuse" \/ s = "normal"
  BY DEF Slots
<1> QED
  BY <1>1, <1>2, <1>3 DEF Pairs

LEMMA InitShows == Init => MaterialsShow
<1> SUFFICES ASSUME Init, NEW p \in Hands \ {Bianca} PROVE ~Known(mem, p)
  BY DEF MaterialsShow
<1>1. p \in Res
  BY StatusesDiffer
<1> QED
  BY <1>1 DEF Init, Known, FreeSlot

LEMMA ShowsStep ==
  ASSUME IInv, NoReload, MaterialsShow, [Next]_vars
  PROVE  NoReload' /\ MaterialsShow'
<1>1. CASE Next
  <2>1. MaterialsShow'
    BY <1>1, StepKeeps
  <2>2. app' = app
    BY <1>1 DEF Next
  <2> QED
    BY <2>1, <2>2 DEF NoReload
<1>2. CASE UNCHANGED vars
  BY <1>2 DEF vars, runVars, NoReload, MaterialsShow
<1> QED
  BY <1>1, <1>2

(* The application does not change.                                        *)
LEMMA AppStays == [Next]_vars => app' = app
BY DEF Next, vars

(* Whatever the application does, and wherever loads fail, every variable  *)
(* keeps its type, and a descriptor the engine has given back is nowhere:  *)
(* not held, on no list, in no load that is not over.                      *)
THEOREM ResourcesTyped == Spec => []TypeOK
BY InvIsInductive, InvTyped, PTL

THEOREM NothingDangles == Spec => []NoDangling
BY InvIsInductive, InvNoDangling, PTL

(* The counts of references are exact, for every application, every graph  *)
(* of assets and every interleaving of engine and loader, as long as the   *)
(* loader does not fail (its failure leaves a reference behind).           *)
THEOREM GraphIsSound == Spec /\ LoaderSucceeds => []GraphSound
<1>1. LoaderSucceeds /\ [Next]_vars => LoaderSucceeds'
  BY AppStays DEF LoaderSucceeds
<1>2. IInv /\ LoaderSucceeds => GraphSound
  BY InvTyped, InvNoDangling, InvCounts DEF GraphSound
<1> QED
  BY <1>1, <1>2, InvIsInductive, PTL DEF Spec

(* No load is requested twice and none is forgotten: what is loading is in *)
(* flight exactly once, until the engine has handled the answer.           *)
THEOREM LoadsInFlightOnce == Spec /\ LoaderSucceeds => []LoadingIsInFlight
<1>1. LoaderSucceeds /\ [Next]_vars => LoaderSucceeds'
  BY AppStays DEF LoaderSucceeds
<1> QED
  BY <1>1, InvLoads, InvIsInductive, PTL DEF Spec

(* An application that neither releases nor replaces what is loading, and  *)
(* makes no materials, leaves no descriptor behind that nobody refers to,  *)
(* even when loads fail.                                                   *)
THEOREM LiveOnesAreOwned == Spec /\ Calm => []LiveIsOwned
<1>1. Calm /\ [Next]_vars => Calm'
  BY AppStays DEF Calm
<1> QED
  BY <1>1, InvLive, InvIsInductive, PTL DEF Spec

(* Without hot reloads the slots of every material point to the data of    *)
(* its children, in the order the updates left them.                       *)
THEOREM SlotsOwnTheirData == Spec /\ NoReload => []SlotOwnsData
<1>1. IInv /\ NoReload /\ MaterialsShow /\ [Next]_vars => NoReload' /\ MaterialsShow'
  BY ShowsStep
<1> QED
  BY <1>1, InitShows, InvSlots, InvIsInductive, PTL DEF Spec
==============================================================================
