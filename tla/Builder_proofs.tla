--------------------------- MODULE Builder_proofs ---------------------------
(***************************************************************************)
(* Theorems about Builder and Monitor for any files, texts, clients and    *)
(* number of changes: what a successful build leaves in the database and   *)
(* on disk, what it reports as updated, that no change the watcher has     *)
(* seen is forgotten, and that every client is told what was updated.      *)
(*                                                                         *)
(* The invariant BuilderInv ties the database of a build to its backup.    *)
(* In the scan the database is the backup less a set of rows that no edge  *)
(* enters, and an asset whose built file is missing stands on a file that  *)
(* differs from its row: the scan will find it, as long as no such file    *)
(* gets the time of its row back.  In the build every asset is touched     *)
(* or as it was in the backup, and a step adds edges only from files and   *)
(* from a new asset, so nothing an old asset stands on changes under it.   *)
(* Whoever is updated stands therefore on a touched asset with a new       *)
(* signature.                                                              *)
(***************************************************************************)
EXTENDS Monitor, Lemmas

-----------------------------------------------------------------------------
(* What is reached along edges.                                            *)
Follows(edges, X) == \A e \in edges : e[1] \in X => e[2] \in X

(* Reached is the least set that has S and that no edge leaves.            *)
IsReached(R, edges, S) ==
  /\ S \subseteq R /\ Follows(edges, R)
  /\ \A X : S \subseteq X /\ Follows(edges, X) => R \subseteq X

(* The nodes of the dependency graph, and the steps of Reached on it.      *)
Nodes == Files \union Assets
More(edges, T) == {e[2] : e \in {d \in edges : d[1] \in T}} \ T
NodesOf(edges, S) == S \union {e[2] : e \in edges}
Least(edges, S, T) ==
  {n \in NodesOf(edges, S) : \A X \in SUBSET NodesOf(edges, S) :
     T \subseteq X /\ Follows(edges, X) => n \in X}

(* What one edge reaches is in the least set already.                      *)
LEMMA LeastOfMore ==
  ASSUME NEW E, NEW S, NEW T \in SUBSET NodesOf(E, S)
  PROVE  /\ T \union More(E, T) \in SUBSET NodesOf(E, S)
         /\ More(E, T) = {} => Least(E, S, T) = T
         /\ Least(E, S, T) = Least(E, S, T \union More(E, T))
<1>1. /\ \A n : n \in More(E, T) <=> n \notin T /\ \E e \in E : e[1] \in T /\ e[2] = n
      /\ \A e \in E : e[2] \in NodesOf(E, S)
  BY DEF More, NodesOf
<1>2. T \union More(E, T) \in SUBSET NodesOf(E, S)
  BY <1>1
<1>3. ASSUME More(E, T) = {} PROVE Least(E, S, T) = T
  <2>1. Follows(E, T)
    BY <1>1, <1>3 DEF Follows
  <2> QED
    BY <2>1 DEF Least
<1>4. ASSUME NEW X PROVE T \subseteq X /\ Follows(E, X) <=> T \union More(E, T) \subseteq X /\ Follows(E, X)
  BY <1>1 DEF Follows
<1> QED
  BY <1>2, <1>3, <1>4 DEF Least

(* The least set is the one IsReached speaks of.                           *)
LEMMA LeastIs ==
  ASSUME NEW E, NEW S
  PROVE  IsReached(Least(E, S, S), E, S)
<1> DEFINE N == NodesOf(E, S)
<1>1. S \subseteq N /\ \A e \in E : e[2] \in N
  BY DEF NodesOf
<1>2. \A n : n \in Least(E, S, S) <=>
        n \in N /\ \A X \in SUBSET N : S \subseteq X /\ Follows(E, X) => n \in X
  BY DEF Least
<1> HIDE DEF N
<1>3. S \subseteq Least(E, S, S) /\ Follows(E, Least(E, S, S))
  BY <1>1, <1>2 DEF Follows
<1>4. ASSUME NEW X, S \subseteq X, Follows(E, X) PROVE Least(E, S, S) \subseteq X
  <2>1. X \intersect N \in SUBSET N /\ S \subseteq X \intersect N /\ Follows(E, X \intersect N)
    BY <1>1, <1>4 DEF Follows
  <2> QED
    BY <1>2, <2>1
<1> QED
  BY <1>3, <1>4 DEF IsReached

(* The recursion of Reached ends at the least set: the nodes not reached   *)
(* yet are fewer at every turn.                                            *)
LEMMA ReachedIs ==
  ASSUME NEW N, IsFiniteSet(N), NEW E \in SUBSET (N \X N), NEW S \in SUBSET N
  PROVE  IsReached(Reached(E, S), E, S)
<1> DEFINE P == NodesOf(E, S)
           Step(f, T) == IF More(E, T) = {} THEN T ELSE f[T \union More(E, T)]
           Steps(f) == [T \in SUBSET P |-> Step(f, T)]
           g == [T \in SUBSET P |-> Least(E, S, T)]
           w == CHOOSE f : f = Steps(f)
<1>1. Reached(E, S) = w[S]
  BY DEF Reached, More, NodesOf
<1> HIDE DEF w
<1>2. P \in SUBSET N /\ S \in SUBSET P
  BY DEF NodesOf
<1>3. \A T \in SUBSET P : /\ T \union More(E, T) \in SUBSET P
                          /\ More(E, T) = {} => Least(E, S, T) = T
                          /\ Least(E, S, T) = Least(E, S, T \union More(E, T))
  BY LeastOfMore
<1> HIDE DEF P
<1>4. g = Steps(g)
  <2>1. \A T \in SUBSET P : g[T] = Least(E, S, T)
    OBVIOUS
  <2>2. ASSUME NEW T \in SUBSET P PROVE Step(g, T) = Least(E, S, T)
    <3> HIDE DEF g
    <3> QED
      BY <1>3, <2>1
  <2> QED
    BY <2>2
<1> HIDE DEF g, Step
<1>5. w = Steps(w)
  <2> HIDE DEF Steps
  <2> QED
    BY <1>4, Zenon DEF w
<1>6. \A T \in SUBSET P : w[T] = Step(w, T)
  <2>1. \A T \in SUBSET P : Steps(w)[T] = Step(w, T)
    OBVIOUS
  <2> QED
    BY <1>5, <2>1
<1> HIDE DEF Steps
<1>f. IsFiniteSet(P)
  BY <1>2, FS_Subset
(* The set with the fewest nodes left that the two differ on.              *)
<1> DEFINE Wrong == {n \in Nat : \E T \in SUBSET P : Cardinality(P \ T) = n /\ w[T] # Least(E, S, T)}
<1>7. Wrong = {}
  <2> SUFFICES ASSUME Wrong # {} PROVE FALSE
    OBVIOUS
  <2>1. PICK n \in Wrong : \A j \in Wrong : n <= j
    <3>1. Wrong \in SUBSET Nat
      OBVIOUS
    <3> HIDE DEF Wrong
    <3> QED
      BY <3>1, LeastExists
  <2>2. PICK T \in SUBSET P : Cardinality(P \ T) = n /\ w[T] # Least(E, S, T)
    BY <2>1
  <2>3. More(E, T) # {}
    BY <1>3, <1>6, <2>2 DEF Step
  <2> DEFINE U == T \union More(E, T)
  <2>4. U \in SUBSET P /\ (P \ U) \in SUBSET (P \ T) /\ P \ U # P \ T
    <3>1. More(E, T) \subseteq P /\ \A x \in More(E, T) : x \notin T
      BY <1>3 DEF More
    <3> QED
      BY <2>3, <3>1
  <2>5. w[U] # Least(E, S, U)
    BY <1>3, <1>6, <2>2, <2>3 DEF Step
  <2> HIDE DEF U
  <2>6. /\ Cardinality(P \ U) \in Nat /\ Cardinality(P \ T) \in Nat
        /\ Cardinality(P \ U) < Cardinality(P \ T)
    <3>1. IsFiniteSet(P \ T)
      BY <1>f, FS_Difference
    <3>2. /\ IsFiniteSet(P \ U) /\ Cardinality(P \ U) <= Cardinality(P \ T)
          /\ Cardinality(P \ U) # Cardinality(P \ T)
      BY <2>4, <3>1, FS_Subset
    <3>3. Cardinality(P \ U) \in Nat /\ Cardinality(P \ T) \in Nat
      BY <3>1, <3>2, FS_CardinalityType
    <3> QED
      BY <3>2, <3>3
  <2>7. Cardinality(P \ U) \in Wrong
    BY <2>4, <2>5, <2>6
  <2> HIDE DEF Wrong
  <2>8. n <= Cardinality(P \ U)
    BY <2>1, <2>7
  <2> QED
    BY <2>2, <2>6, <2>8
<1>8. w[S] = Least(E, S, S)
  <2>1. IsFiniteSet(P \ S)
    BY <1>f, FS_Difference
  <2>2. Cardinality(P \ S) \in Nat
    BY <2>1, FS_CardinalityType
  <2>3. Cardinality(P \ S) \notin Wrong
    BY <1>7
  <2> QED
    BY <1>2, <2>2, <2>3
<1> QED
  BY <1>1, <1>8, LeastIs

(* No edge enters X.                                                       *)
Enters(edges, X) == \A e \in edges : e[2] \in X => e[1] \in X

(* Users is the least set that has S and that no edge enters.              *)
IsUsers(R, edges, S) ==
  /\ S \subseteq R /\ Enters(edges, R)
  /\ \A X : S \subseteq X /\ Enters(edges, X) => R \subseteq X

(* The nodes of the dependency graph are finitely many.                    *)
LEMMA FiniteNodes ==
  /\ IsFiniteSet(Files) /\ IsFiniteSet(Assets) /\ IsFiniteSet(Nodes)
<1>1. IsFiniteSet(Files)
  <2>1. /\ Paths \in [1..Len(Paths) -> Files] /\ Len(Paths) \in Nat
        /\ \A f \in Files : \E i \in 1..Len(Paths) : Paths[i] = f
    <3>1. Paths \in Seq(Files)
      BY BuilderAssumption
    <3>2. \A f \in Files : \E i \in DOMAIN Paths : Paths[i] = f
      BY DEF Files, ToSet
    <3> QED
      BY <3>1, <3>2
  <2>2. Paths \in Surjection(1..Len(Paths), Files)
    BY <2>1 DEF Surjection
  <2>3. IsFiniteSet(1..Len(Paths))
    BY <2>1, FS_Interval
  <2> QED
    BY <2>2, <2>3, FS_Surjection
<1>2. IsFiniteSet(Assets)
  <2> DEFINE f == [decl \in Declarations |-> decl.rtname]
             T == {decl.rtname : decl \in Declarations}
  <2>1. f \in Surjection(Declarations, T)
    BY DEF Surjection
  <2>2. IsFiniteSet(T)
    BY <2>1, TextsAssumption, FS_Surjection
  <2>3. IsFiniteSet(Inis)
    BY <1>1, BuilderAssumption, FS_Subset
  <2> QED
    BY <2>2, <2>3, FS_Product DEF Assets
<1> QED
  BY <1>1, <1>2, FS_Union DEF Nodes

(* Needs follows the edges of the graph (dependency_get_dependecies_list). *)
LEMMA NeedsIs ==
  ASSUME NEW E \in SUBSET (Nodes \X Nodes), NEW S \in SUBSET Nodes
  PROVE  IsReached(Needs(E, S), E, S)
BY FiniteNodes, ReachedIs DEF Needs

(* Users follows them backwards.                                           *)
LEMMA UsersIs ==
  ASSUME NEW E \in SUBSET (Nodes \X Nodes), NEW S \in SUBSET Nodes
  PROVE  IsUsers(Users(E, S), E, S)
<1> DEFINE B == {<<e[2], e[1]>> : e \in E}
<1>1. /\ B \in SUBSET (Nodes \X Nodes)
      /\ \A X : Follows(B, X) <=> Enters(E, X)
  <2>1. ASSUME NEW X, Follows(B, X), NEW e \in E, e[2] \in X PROVE e[1] \in X
    <3>1. <<e[2], e[1]>> \in B
      OBVIOUS
    <3> QED
      BY <2>1, <3>1 DEF Follows
  <2>2. ASSUME NEW X, Enters(E, X), NEW b \in B, b[1] \in X PROVE b[2] \in X
    <3>1. PICK e \in E : b = <<e[2], e[1]>>
      OBVIOUS
    <3> QED
      BY <2>2, <3>1 DEF Enters
  <2>3. B \in SUBSET (Nodes \X Nodes)
    OBVIOUS
  <2> HIDE DEF B
  <2> QED
    BY <2>1, <2>2, <2>3 DEF Follows, Enters
<1>2. IsReached(Reached(B, S), B, S)
  <2> HIDE DEF B
  <2> QED
    BY <1>1, FiniteNodes, ReachedIs
<1>3. Users(E, S) = Reached(B, S)
  BY DEF Users
<1> HIDE DEF B
<1> QED
  BY <1>1, <1>2, <1>3 DEF IsReached, IsUsers

(* What a needs are the nodes that a is a user of.                         *)
LEMMA UsersOfNeeds ==
  ASSUME NEW E \in SUBSET (Nodes \X Nodes), NEW a \in Nodes, NEW b \in Nodes
  PROVE  b \in Needs(E, {a}) <=> a \in Users(E, {b})
<1>1. \A n \in Nodes : IsReached(Needs(E, {n}), E, {n}) /\ IsUsers(Users(E, {n}), E, {n})
  BY NeedsIs, UsersIs
<1>2. \A e \in E : e[1] \in Nodes /\ e[2] \in Nodes
  OBVIOUS
<1>3. ASSUME a \in Users(E, {b}) PROVE b \in Needs(E, {a})
  <2> DEFINE X == {n \in Nodes : b \in Needs(E, {n})}
  <2>1. b \in X
    BY <1>1 DEF IsReached
  <2>2. ASSUME NEW e \in E, e[2] \in X PROVE e[1] \in X
    <3>1. e[1] \in Nodes /\ e[2] \in Nodes /\ b \in Needs(E, {e[2]})
      BY <1>2, <2>2
    <3>2. e[2] \in Needs(E, {e[1]}) /\ Follows(E, Needs(E, {e[1]}))
      BY <1>1, <3>1 DEF IsReached, Follows
    <3>3. Needs(E, {e[2]}) \subseteq Needs(E, {e[1]})
      BY <1>1, <3>1, <3>2 DEF IsReached
    <3> QED
      BY <3>1, <3>3
  <2> HIDE DEF X
  <2>3. {b} \subseteq X /\ Enters(E, X)
    BY <2>1, <2>2 DEF Enters
  <2>4. Users(E, {b}) \subseteq X
    BY <1>1, <2>3 DEF IsUsers
  <2> QED
    BY <1>3, <2>4 DEF X
<1>4. ASSUME b \in Needs(E, {a}) PROVE a \in Users(E, {b})
  <2> DEFINE X == {n \in Nodes : a \in Users(E, {n})}
  <2>1. a \in X
    BY <1>1 DEF IsUsers
  <2>2. ASSUME NEW e \in E, e[1] \in X PROVE e[2] \in X
    <3>1. e[1] \in Nodes /\ e[2] \in Nodes /\ a \in Users(E, {e[1]})
      BY <1>2, <2>2
    <3>2. e[1] \in Users(E, {e[2]}) /\ Enters(E, Users(E, {e[2]}))
      BY <1>1, <3>1 DEF IsUsers, Enters
    <3>3. Users(E, {e[1]}) \subseteq Users(E, {e[2]})
      BY <1>1, <3>1, <3>2 DEF IsUsers
    <3> QED
      BY <3>1, <3>3
  <2> HIDE DEF X
  <2>3. {a} \subseteq X /\ Follows(E, X)
    BY <2>1, <2>2 DEF Follows
  <2>4. Needs(E, {a}) \subseteq X
    BY <1>1, <2>3 DEF IsReached
  <2> QED
    BY <1>4, <2>4 DEF X
<1> QED
  BY <1>3, <1>4

(* The users of several are the users of each.                             *)
LEMMA UsersOfOne ==
  ASSUME NEW E \in SUBSET (Nodes \X Nodes), NEW S \in SUBSET Nodes, NEW a
  PROVE  a \in Users(E, S) <=> \E b \in S : a \in Users(E, {b})
<1>1. IsUsers(Users(E, S), E, S) /\ \A b \in S : IsUsers(Users(E, {b}), E, {b})
  BY UsersIs
<1>2. ASSUME NEW b \in S PROVE Users(E, {b}) \subseteq Users(E, S)
  BY <1>1 DEF IsUsers
<1>3. ASSUME a \in Users(E, S) PROVE \E b \in S : a \in Users(E, {b})
  <2> DEFINE X == UNION {Users(E, {b}) : b \in S}
  <2>0. \A n : n \in X <=> \E b \in S : n \in Users(E, {b})
    OBVIOUS
  <2> HIDE DEF X
  <2>1. S \subseteq X
    BY <1>1, <2>0 DEF IsUsers
  <2>2. Enters(E, X)
    <3>1. \A b \in S : Enters(E, Users(E, {b}))
      BY <1>1 DEF IsUsers
    <3> QED
      BY <2>0, <3>1 DEF Enters
  <2>3. a \in X
    BY <1>1, <1>3, <2>1, <2>2 DEF IsUsers
  <2> QED
    BY <2>3 DEF X
<1> QED
  BY <1>2, <1>3

-----------------------------------------------------------------------------
(* The database.                                                           *)
Tables == {"res", "depends", "assets", "sigs", "sigsRT"}

(* The edges are between files and assets that are there; what a file      *)
(* needs are files; an asset needs its .gosasset_d and the assets of its   *)
(* signature.                                                              *)
Shape(d) ==
  /\ DOMAIN d = Tables
  /\ d.depends \in SUBSET (Nodes \X Nodes)
  /\ DOMAIN d.res \subseteq Files /\ DOMAIN d.assets \subseteq Assets
  /\ \A e \in d.depends : /\ e[1] \in Files => e[2] \in Files
                          /\ e[1] \in Assets => e[1] \in DOMAIN d.assets
                          /\ e[2] \in Assets => e[2] \in DOMAIN d.assets
  /\ \A a \in DOMAIN d.assets :
       /\ a[1] \in DOMAIN d.res /\ <<a, a[1]>> \in d.depends
       /\ \A b \in Assets : b \in d.assets[a].used <=> <<a, b>> \in d.depends
       /\ d.assets[a].used \subseteq Assets

(* The signatures are those of the assets.                                 *)
SigsExact(d) == \A s : s \in d.sigs <=> \E a \in DOMAIN d.assets : d.assets[a] = s

(* The database t is d without the rows in D.                              *)
Minus(t, d, D) ==
  /\ DOMAIN t = Tables
  /\ DOMAIN t.res = DOMAIN d.res \ D /\ \A f \in DOMAIN t.res : t.res[f] = d.res[f]
  /\ DOMAIN t.assets = DOMAIN d.assets \ D /\ \A a \in DOMAIN t.assets : t.assets[a] = d.assets[a]
  /\ \A e : e \in t.depends <=> e \in d.depends /\ e[1] \notin D /\ e[2] \notin D
  /\ t.sigs = d.sigs

(* With adds one value.                                                    *)
LEMMA WithIs ==
  ASSUME NEW f, NEW x, NEW v
  PROVE  /\ DOMAIN With(f, x, v) = DOMAIN f \union {x}
         /\ With(f, x, v)[x] = v
         /\ \A y \in DOMAIN f : y # x => With(f, x, v)[y] = f[y]
BY DEF With

(* DeleteRows takes rows, assets and edges away and nothing else.          *)
LEMMA DeleteRowsIs ==
  ASSUME NEW d, DOMAIN d = Tables, NEW S
  PROVE  Minus(DeleteRows(d, S), d, S)
<1> DEFINE t == DeleteRows(d, S)
<1>1. /\ DOMAIN t = Tables /\ t.res = Without(d.res, S) /\ t.assets = Without(d.assets, S)
      /\ t.depends = {e \in d.depends : e[1] \notin S /\ e[2] \notin S} /\ t.sigs = d.sigs
  BY DEF DeleteRows, Tables
<1> HIDE DEF t
<1>2. \A e : e \in t.depends <=> e \in d.depends /\ e[1] \notin S /\ e[2] \notin S
  BY <1>1
<1>3. DOMAIN t.res = DOMAIN d.res \ S /\ \A f \in DOMAIN t.res : t.res[f] = d.res[f]
  <2>1. t.res = Without(d.res, S)
    BY <1>1
  <2> QED
    BY <2>1 DEF Without
<1>4. DOMAIN t.assets = DOMAIN d.assets \ S /\ \A a \in DOMAIN t.assets : t.assets[a] = d.assets[a]
  <2>1. t.assets = Without(d.assets, S)
    BY <1>1
  <2> QED
    BY <2>1 DEF Without
<1>5. DOMAIN t = Tables /\ t.sigs = d.sigs
  BY <1>1
<1> QED
  BY <1>2, <1>3, <1>4, <1>5 DEF Minus, t

(* Nothing is deleted at first.                                            *)
LEMMA MinusNothing ==
  ASSUME NEW d, DOMAIN d = Tables
  PROVE  Minus(d, d, {})
BY DEF Minus

(* Deletions add up.                                                       *)
LEMMA MinusMinus ==
  ASSUME NEW d, NEW t, NEW u, NEW D, NEW S, Minus(t, d, D), Minus(u, t, S)
  PROVE  Minus(u, d, D \union S)
<1>1. DOMAIN u.res = DOMAIN d.res \ (D \union S) /\ \A f \in DOMAIN u.res : u.res[f] = d.res[f]
  BY DEF Minus
<1>2. DOMAIN u.assets = DOMAIN d.assets \ (D \union S) /\ \A a \in DOMAIN u.assets : u.assets[a] = d.assets[a]
  BY DEF Minus
<1>3. \A e : e \in u.depends <=> e \in d.depends /\ e[1] \notin (D \union S) /\ e[2] \notin (D \union S)
  BY DEF Minus
<1> QED
  BY <1>1, <1>2, <1>3 DEF Minus

(* Rows go with all that needs them: what is left has its shape.           *)
LEMMA MinusShape ==
  ASSUME NEW d, NEW t, NEW D, Shape(d), Minus(t, d, D), Enters(d.depends, D)
  PROVE  Shape(t)
<1>1. /\ DOMAIN t = Tables /\ t.depends \in SUBSET (Nodes \X Nodes)
      /\ DOMAIN t.res \subseteq Files /\ DOMAIN t.assets \subseteq Assets
  BY DEF Shape, Minus
<1>2. \A e \in t.depends : /\ e[1] \in Files => e[2] \in Files
                           /\ e[1] \in Assets => e[1] \in DOMAIN t.assets
                           /\ e[2] \in Assets => e[2] \in DOMAIN t.assets
  BY DEF Shape, Minus
<1>3. ASSUME NEW a \in DOMAIN t.assets
      PROVE  /\ a[1] \in DOMAIN t.res /\ <<a, a[1]>> \in t.depends
             /\ \A b \in Assets : b \in t.assets[a].used <=> <<a, b>> \in t.depends
             /\ t.assets[a].used \subseteq Assets
  <2>1. a \in DOMAIN d.assets /\ a \notin D /\ t.assets[a] = d.assets[a]
    BY DEF Minus
  <2>2. /\ a[1] \in DOMAIN d.res /\ <<a, a[1]>> \in d.depends
        /\ \A b \in Assets : b \in d.assets[a].used <=> <<a, b>> \in d.depends
        /\ d.assets[a].used \subseteq Assets
    BY <2>1 DEF Shape
  <2>3. \A b : <<a, b>> \in d.depends <=> <<a, b>> \in t.depends
    <3>1. ASSUME NEW b, <<a, b>> \in d.depends PROVE b \notin D
      <4>1. <<a, b>>[1] = a /\ <<a, b>>[2] = b
        OBVIOUS
      <4> QED
        BY <2>1, <3>1, <4>1 DEF Enters
    <3>2. \A b : <<a, b>>[1] = a /\ <<a, b>>[2] = b
      OBVIOUS
    <3> QED
      BY <2>1, <3>1, <3>2 DEF Minus
  <2>4. a[1] \notin D
    <3>1. <<a, a[1]>>[1] = a /\ <<a, a[1]>>[2] = a[1]
      OBVIOUS
    <3> QED
      BY <2>1, <2>2, <3>1 DEF Enters
  <2>5. a[1] \in DOMAIN t.res
    BY <2>2, <2>4 DEF Minus
  <2> QED
    BY <2>1, <2>2, <2>3, <2>5
<1> QED
  BY <1>1, <1>2, <1>3 DEF Shape

(* One turn of the loop of CleanUp.                                        *)
Cleaned(d, f, candidates) ==
  IF f \in candidates /\ \A e \in d.depends : e[2] # f THEN DeleteRows(d, {f}) ELSE d

(* The turns of that loop, from the first to the k-th.                     *)
IsCleaning(h, k, d, candidates) ==
  h = [n \in 0..k |-> IF n = 0 THEN d ELSE Cleaned(h[n - 1], Uids[n], candidates)]

(* The recursion of CleanUp is well founded.                               *)
LEMMA CleaningExists ==
  ASSUME NEW d, NEW candidates, NEW k \in Nat
  PROVE  \E h : IsCleaning(h, k, d, candidates)
<1> DEFINE Wrong == {n \in Nat : ~\E h : IsCleaning(h, n, d, candidates)}
<1>1. Wrong = {}
  <2> SUFFICES ASSUME Wrong # {} PROVE FALSE
    OBVIOUS
  <2>1. PICK n \in Wrong : \A j \in Wrong : n <= j
    <3>1. Wrong \in SUBSET Nat
      OBVIOUS
    <3> HIDE DEF Wrong
    <3> QED
      BY <3>1, LeastExists
  <2>2. n \in Nat /\ ~\E h : IsCleaning(h, n, d, candidates)
    BY <2>1
  <2>3. n # 0
    <3> DEFINE h == [x \in 0..0 |-> d]
    <3>1. IsCleaning(h, 0, d, candidates)
      <4>1. h = [x \in 0..0 |-> IF x = 0 THEN d ELSE Cleaned(h[x - 1], Uids[x], candidates)]
        OBVIOUS
      <4> QED
        BY <4>1 DEF IsCleaning
    <3> QED
      BY <2>2, <3>1
  <2>4. PICK h : IsCleaning(h, n - 1, d, candidates)
    <3>1. n - 1 \in Nat /\ ~(n <= n - 1)
      BY <2>2, <2>3
    <3>2. n - 1 \notin Wrong
      BY <2>1, <3>1
    <3> HIDE DEF Wrong
    <3> QED
      BY <3>1, <3>2 DEF Wrong
  <2>5. h = [x \in 0..(n - 1) |-> IF x = 0 THEN d ELSE Cleaned(h[x - 1], Uids[x], candidates)]
    BY <2>4 DEF IsCleaning
  <2> DEFINE g == [x \in 0..n |-> IF x = 0 THEN d ELSE Cleaned(h[x - 1], Uids[x], candidates)]
  <2>6. \A x \in 0..(n - 1) : g[x] = h[x]
    BY <2>2, <2>3, <2>5
  <2>7. IsCleaning(g, n, d, candidates)
    <3>1. \A x \in 0..n : x # 0 => x - 1 \in 0..(n - 1)
      BY <2>2
    <3>2. \A x \in 0..n : x # 0 => g[x - 1] = h[x - 1]
      BY <2>6, <3>1
    <3>3. g = [x \in 0..n |-> IF x = 0 THEN d ELSE Cleaned(g[x - 1], Uids[x], candidates)]
      BY <3>2
    <3> QED
      BY <3>3 DEF IsCleaning
  <2> QED
    BY <2>2, <2>7
<1> QED
  BY <1>1

(* CleanUp deletes resources, and only those that nothing left needs.      *)
LEMMA CleanUpIs ==
  ASSUME NEW d, DOMAIN d = Tables, NEW candidates
  PROVE  \E D \in SUBSET Files : Minus(CleanUp(d, candidates), d, D) /\ Enters(d.depends, D)
<1>l. Len(Uids) \in Nat /\ \A n \in 1..Len(Uids) : Uids[n] \in Files
  BY BuilderAssumption
<1> DEFINE L == Len(Uids)
           w == CHOOSE h : h = [n \in 0..L |-> IF n = 0 THEN d ELSE Cleaned(h[n - 1], Uids[n], candidates)]
<1>1. CleanUp(d, candidates) = w[L]
  BY DEF CleanUp, Cleaned
<1>2. w = [n \in 0..L |-> IF n = 0 THEN d ELSE Cleaned(w[n - 1], Uids[n], candidates)]
  <2>1. \E h : h = [n \in 0..L |-> IF n = 0 THEN d ELSE Cleaned(h[n - 1], Uids[n], candidates)]
    <3>1. PICK h : IsCleaning(h, L, d, candidates)
      BY <1>l, CleaningExists
    <3>2. h = [n \in 0..L |-> IF n = 0 THEN d ELSE Cleaned(h[n - 1], Uids[n], candidates)]
      BY <3>1, Zenon DEF IsCleaning
    <3> QED
      BY <3>2, Zenon
  <2> HIDE DEF L
  <2> QED
    BY <2>1, Zenon
<1> HIDE DEF w
<1> DEFINE Right(n) == \E D \in SUBSET Files : Minus(w[n], d, D) /\ Enters(d.depends, D)
           Wrong == {n \in Nat : n \in 0..L /\ ~Right(n)}
<1>3. Wrong = {}
  <2> SUFFICES ASSUME Wrong # {} PROVE FALSE
    OBVIOUS
  <2>1. PICK n \in Wrong : \A j \in Wrong : n <= j
    <3>1. Wrong \in SUBSET Nat
      OBVIOUS
    <3> HIDE DEF Wrong
    <3> QED
      BY <3>1, LeastExists
  <2>2. n \in Nat /\ n \in 0..L /\ ~Right(n)
    BY <2>1
  <2>3. n # 0
    <3>1. w[0] = d
      BY <1>2, <1>l
    <3>2. Right(0)
      BY <3>1, MinusNothing DEF Enters
    <3> QED
      BY <2>2, <3>2
  <2>4. n - 1 \in 0..L /\ n - 1 \in Nat /\ ~(n <= n - 1) /\ n \in 1..L
    BY <1>l, <2>2, <2>3
  <2>5. Right(n - 1)
    <3>1. n - 1 \notin Wrong
      BY <2>1, <2>4
    <3> HIDE DEF Right
    <3> QED
      BY <2>4, <3>1
  <2>6. PICK D \in SUBSET Files : Minus(w[n - 1], d, D) /\ Enters(d.depends, D)
    BY <2>5
  <2>7. w[n] = Cleaned(w[n - 1], Uids[n], candidates)
    BY <1>2, <2>2, <2>3
  <2> DEFINE f == Uids[n]
  <2>8. f \in Files
    BY <1>l, <2>4
  <2> HIDE DEF f
  <2>9. CASE f \in candidates /\ \A e \in w[n - 1].depends : e[2] # f
    <3>1. w[n] = DeleteRows(w[n - 1], {f})
      BY <2>7, <2>9 DEF Cleaned, f
    <3>2. Minus(w[n], w[n - 1], {f})
      BY <2>6, <3>1, DeleteRowsIs DEF Minus
    <3>3. Minus(w[n], d, D \union {f})
      BY <2>6, <3>2, MinusMinus
    <3>4. Enters(d.depends, D \union {f})
      BY <2>6, <2>9 DEF Enters, Minus
    <3> QED
      BY <2>2, <2>8, <3>3, <3>4
  <2>10. CASE ~(f \in candidates /\ \A e \in w[n - 1].depends : e[2] # f)
    <3>1. w[n] = w[n - 1]
      BY <2>7, <2>10 DEF Cleaned, f
    <3> QED
      BY <2>2, <2>5, <3>1
  <2> QED
    BY <2>9, <2>10
<1>4. Right(L)
  <2>1. L \notin Wrong
    BY <1>3
  <2> HIDE DEF Right
  <2> QED
    BY <1>l, <2>1
<1> QED
  BY <1>1, <1>4

-----------------------------------------------------------------------------
(* The inductive invariant.                                                *)
Timed(d, now) == \A f \in DOMAIN d.res : d.res[f] \in Nat /\ 0 < d.res[f] /\ d.res[f] <= now

(* An asset that stands on a file with another time than its row.          *)
Stale(file, d, a) == \E f \in DOMAIN d.res : d.res[f] # file[f].time /\ a \in Users(d.depends, {f})

(* Whatever has no built file is stale.                                    *)
LostAreStale(d, file, built) ==
  \A a \in DOMAIN d.assets : d.assets[a] \in built \/ Stale(file, d, a)

(* Every row has the time of its file.                                     *)
Current(d, file) == \A f \in DOMAIN d.res : d.res[f] = file[f].time

(* u is what UpdatedExactly says of the databases d and b.                 *)
Exact(u, d, b) ==
  u = {a \in DOMAIN d.assets : a \in DOMAIN b.assets => Content(d, a) # Content(b, a)}

(* The frames of the build: their rows of sources have times.              *)
TimesOfSources == UNION {[S -> Nat] : S \in SUBSET Files}
RowsOfSources == TimesOfSources \union {<<>>}
BuildFrames == [ini : Inis, read : BOOLEAN, include : Seq(Inis), declare : Seq(Declarations), res : RowsOfSources]

(* A file is gone or has a text, and no time is ahead of the clock.        *)
FilesSound ==
  /\ clock \in Nat /\ 1 <= clock /\ DOMAIN files = Files
  /\ \A f \in Files : /\ files[f].time \in Nat /\ files[f].time <= clock
                      /\ Exists(files, f) => files[f].text \in Texts[f]

(* The locals of priv_build and the history are what they are.             *)
Locals ==
  /\ DOMAIN job = {"first", "rows", "todo", "deleted", "oldSigs", "oldRes", "stack", "touched"}
  /\ DOMAIN outcome = {"builds", "ok", "quiet", "complete", "failed", "hidden", "undone", "missed"}
  /\ phase \in {"idle", "scan", "build"}

(* A database whose first build failed stays as it is and promises         *)
(* nothing.                                                                *)
Spoilt == hasDb /\ ~outcome.complete /\ ~(phase # "idle" /\ job.first)

(* Before the first build, and during it, there is nothing to go back to.  *)
FirstGood ==
  /\ ~hasDb => phase = "idle" /\ db = EmptyDb /\ ~outcome.ok
  /\ phase # "idle" /\ job.first => backup = EmptyDb /\ hasDb /\ ~outcome.complete
  /\ phase # "idle" => ~outcome.ok

(* Between builds.                                                         *)
IdleGood ==
  /\ Shape(db) /\ Timed(db, clock) /\ SigsExact(db)
  /\ hasDb /\ ~outcome.undone => LostAreStale(db, files, DOMAIN bin)
  /\ ~outcome.failed /\ hasDb => DOMAIN bin = db.sigs
  /\ outcome.ok => /\ ~outcome.undone => db.sigs \subseteq DOMAIN bin
                   /\ outcome.quiet => Current(db, files)
                   /\ backup = EmptyDb \/ Exact(updated, db, backup)

(* In the scan the rows in D are gone, with all that needs them.           *)
ScannedBut(D) ==
  /\ Minus(db, backup, D) /\ Enters(backup.depends, D)
  /\ \A a \in DOMAIN backup.assets :
       a \in D => /\ backup.assets[a] \in job.oldSigs
                  /\ ~outcome.undone => Stale(files, backup, a)
  /\ ~outcome.undone =>
       \A a \in DOMAIN backup.assets :
         \/ a \in D \/ backup.assets[a] \in DOMAIN bin
         \/ \E f \in job.rows : backup.res[f] # files[f].time /\ a \in Users(backup.depends, {f})
  /\ outcome.quiet =>
       \A f \in DOMAIN backup.res : f \in job.rows \/ f \in D \/ backup.res[f] = files[f].time

(* The scan works on the database of the backup, less the rows it has      *)
(* dropped.                                                                *)
ScanGood ==
  /\ Shape(backup) /\ Timed(backup, clock) /\ SigsExact(backup)
  /\ ~outcome.failed => DOMAIN bin = backup.sigs
  /\ job.rows \subseteq DOMAIN backup.res /\ job.todo \subseteq Inis
  /\ job.stack = <<>> /\ job.touched = <<>>
  /\ \E D \in SUBSET Nodes : ScannedBut(D)

(* An asset of the database was built by this build or is as it was.       *)
TouchedGood ==
  /\ \A a \in DOMAIN job.touched : a \in DOMAIN db.assets /\ job.touched[a] = db.assets[a]
  /\ \A a \in DOMAIN db.assets :
       \/ a \in DOMAIN job.touched
       \/ a \in DOMAIN backup.assets /\ backup.assets[a] = db.assets[a]

(* Every frame has its row; those below the top wait for an include.       *)
StackGood ==
  /\ job.todo \subseteq Inis /\ job.stack \in Seq(BuildFrames)
  /\ \A k \in 1..Len(job.stack) : job.stack[k].ini \in DOMAIN db.res
  /\ \A k \in 1..Len(job.stack) - 1 : job.stack[k].include # <<>>

(* What an abandoned build goes back to.                                   *)
BackupGood ==
  /\ Shape(backup) /\ Timed(backup, clock) /\ SigsExact(backup)
  /\ ~outcome.undone => LostAreStale(backup, files, DOMAIN bin)

(* What a build has made so far.                                           *)
DbGood ==
  /\ Shape(db) /\ Timed(db, clock) /\ SigsExact(db)
  /\ ~outcome.undone => db.sigs \subseteq DOMAIN bin
  /\ ~outcome.failed => DOMAIN bin = db.sigs
  /\ outcome.quiet => Current(db, files)

(* A database whose first build was successful, or is under way.           *)
Good ==
  /\ FirstGood
  /\ phase = "idle" => IdleGood
  /\ phase = "scan" => ScanGood
  /\ phase = "build" => BackupGood /\ DbGood /\ StackGood /\ TouchedGood

(* The invariant.                                                          *)
BuilderInv == FilesSound /\ Locals /\ (Spoilt \/ Good)

(* The invariant holds before the first build.                             *)
LEMMA InitGood == BuilderInit => BuilderInv
<1> SUFFICES ASSUME BuilderInit PROVE BuilderInv
  OBVIOUS
<1>1. FilesSound
  BY BuilderAssumption DEF BuilderInit, FilesSound, Exists
<1>2. Locals
  BY DEF BuilderInit, Locals, NoJob
<1>3. Shape(db) /\ Timed(db, clock) /\ SigsExact(db)
  BY DEF BuilderInit, EmptyDb, Shape, Timed, SigsExact, Tables
<1>4. Good
  BY <1>3 DEF BuilderInit, Good, FirstGood, IdleGood
<1> QED
  BY <1>1, <1>2, <1>4 DEF BuilderInv

(* A change that undoes nothing leaves a file that differs from its row    *)
(* different, in the tables that are kept.                                 *)
LEMMA StaysStale ==
  ASSUME FilesSound, Locals, NEW f \in Files, Change(f), NEW d \in Kept,
         DOMAIN d.res \subseteq Files
  PROVE  ~outcome'.undone =>
           /\ ~outcome.undone
           /\ \A g \in DOMAIN d.res : d.res[g] # files[g].time => d.res[g] # files'[g].time
           /\ \A a : Stale(files, d, a) => Stale(files', d, a)
<1> SUFFICES ASSUME ~outcome'.undone
             PROVE  /\ ~outcome.undone
                    /\ \A g \in DOMAIN d.res : d.res[g] # files[g].time => d.res[g] # files'[g].time
                    /\ \A a : Stale(files, d, a) => Stale(files', d, a)
  OBVIOUS
<1> DEFINE same == {e \in Kept : f \in DOMAIN e.res /\ ~Behind(e, f)'}
<1>1. outcome'.undone = (outcome.undone \/ \E e \in same : Behind(e, f))
  BY DEF Change, Locals
<1>2. ASSUME NEW g \in DOMAIN d.res, d.res[g] # files[g].time PROVE d.res[g] # files'[g].time
  <2>1. CASE g = f
    BY <1>1, <1>2, <2>1 DEF Behind
  <2>2. CASE g # f
    <3>1. g \in Files /\ files'[g] = files[g]
      BY <2>2 DEF Change, FilesSound
    <3> QED
      BY <1>2, <3>1
  <2> QED
    BY <2>1, <2>2
<1> QED
  BY <1>1, <1>2 DEF Stale

(* A change of a file, at any moment, keeps the invariant.                 *)
LEMMA ChangeGood ==
  ASSUME BuilderInv, NEW f \in Files, Change(f)
  PROVE  BuilderInv'
<1>1. /\ clock' = clock + 1 /\ UNCHANGED <<db, backup, bin, phase, job, updated, hasDb>>
      /\ \E hidden, undone : outcome' = [outcome EXCEPT !.quiet = FALSE, !.hidden = hidden, !.undone = undone]
  BY DEF Change
<1>2. FilesSound /\ Locals
  BY DEF BuilderInv
<1>3. FilesSound'
  <2>1. DOMAIN files' = Files /\ clock' \in Nat /\ 1 <= clock'
    BY <1>1, <1>2 DEF Change, FilesSound
  <2>2. ASSUME NEW g \in Files
        PROVE  files'[g] = files[g] \/ files'[g] = Gone
                 \/ (g = f /\ \E text \in Texts[f], time \in 1 .. clock + 1 :
                                files'[g] = [time |-> time, text |-> text, data |-> clock + 1])
    <3>1. DOMAIN files = Files
      BY <1>2 DEF FilesSound
    <3>2. PICK v : /\ files' = [files EXCEPT ![f] = v]
                   /\ \/ v = Gone
                      \/ \E text \in Texts[f], time \in 1 .. clock + 1 :
                           v = [time |-> time, text |-> text, data |-> clock + 1]
      BY DEF Change
    <3>3. files'[g] = files[g] \/ (g = f /\ files'[g] = v)
      BY <3>1, <3>2
    <3> QED
      BY <3>2, <3>3
  <2>3. ASSUME NEW g \in Files
        PROVE  /\ files'[g].time \in Nat /\ files'[g].time <= clock'
               /\ Exists(files', g) => files'[g].text \in Texts[g]
    <3>1. CASE files'[g] = files[g]
      BY <1>1, <1>2, <3>1 DEF FilesSound, Exists
    <3>2. CASE files'[g] = Gone
      BY <1>1, <1>2, <3>2 DEF FilesSound, Exists, Gone
    <3>3. ASSUME g = f, NEW text \in Texts[f], NEW time \in 1 .. clock + 1,
                 files'[g] = [time |-> time, text |-> text, data |-> clock + 1]
          PROVE  /\ files'[g].time \in Nat /\ files'[g].time <= clock'
                 /\ Exists(files', g) => files'[g].text \in Texts[g]
      BY <1>1, <1>2, <3>3 DEF FilesSound, Exists
    <3> QED
      BY <2>2, <3>1, <3>2, <3>3
  <2> QED
    BY <2>1, <2>3 DEF FilesSound
<1>4. Locals' /\ ~outcome'.quiet /\ outcome'.ok = outcome.ok /\ outcome'.failed = outcome.failed
              /\ outcome'.complete = outcome.complete
  BY <1>1, <1>2 DEF Locals
<1>5. CASE Spoilt
  BY <1>1, <1>3, <1>4, <1>5 DEF Spoilt, BuilderInv
<1>6. CASE Good
  <2>1. FirstGood'
    BY <1>1, <1>4, <1>6 DEF Good, FirstGood
  <2>t. ASSUME NEW d, Timed(d, clock) PROVE Timed(d, clock')
    BY <1>1, <1>2, <2>t DEF FilesSound, Timed
  <2>2. ASSUME NEW d \in Kept, Shape(d), NEW built
        PROVE  ~outcome'.undone =>
                 /\ ~outcome.undone
                 /\ LostAreStale(d, files, built) => LostAreStale(d, files', built)
    <3>1. DOMAIN d.res \subseteq Files
      BY <2>2 DEF Shape
    <3> QED
      BY <1>2, <2>2, <3>1, StaysStale DEF LostAreStale
  <2>u. ~outcome'.undone => ~outcome.undone
    BY <1>2 DEF Change, Locals
  <2>3. ASSUME phase = "idle" PROVE IdleGood'
    <3>1. IdleGood /\ db \in Kept
      BY <1>6, <2>3 DEF Good, Kept
    <3>2. hasDb /\ ~outcome'.undone => LostAreStale(db, files', DOMAIN bin)
      BY <2>2, <3>1 DEF IdleGood
    <3> QED
      BY <1>1, <1>4, <2>t, <2>u, <3>1, <3>2 DEF IdleGood
  <2>4. ASSUME phase = "scan" PROVE ScanGood'
    <3>1. ScanGood
      BY <1>6, <2>4 DEF Good
    <3>2. PICK D \in SUBSET Nodes : ScannedBut(D)
      BY <3>1 DEF ScanGood
    <3>3. ~outcome'.undone =>
            /\ \A g \in DOMAIN backup.res : backup.res[g] # files[g].time => backup.res[g] # files'[g].time
            /\ \A a : Stale(files, backup, a) => Stale(files', backup, a)
      <4>1. DOMAIN backup.res \subseteq Files /\ backup \in Kept
        BY <2>4, <3>1 DEF ScanGood, Shape, Kept
      <4> QED
        BY <1>2, <4>1, StaysStale
    <3>4. ScannedBut(D)'
      BY <1>1, <1>4, <2>u, <3>1, <3>2, <3>3 DEF ScannedBut, ScanGood
    <3> QED
      BY <1>1, <1>4, <2>t, <3>1, <3>4 DEF ScanGood
  <2>5. ASSUME phase = "build" PROVE BackupGood' /\ DbGood' /\ StackGood' /\ TouchedGood'
    <3>1. BackupGood /\ DbGood /\ StackGood /\ TouchedGood
      BY <1>6, <2>5 DEF Good
    <3>2. ~outcome'.undone => LostAreStale(backup, files', DOMAIN bin)
      <4>1. backup \in Kept
        BY <2>5 DEF Kept
      <4> QED
        BY <2>2, <3>1, <4>1 DEF BackupGood
    <3>3. BackupGood'
      BY <1>1, <2>t, <3>1, <3>2 DEF BackupGood
    <3>4. DbGood'
      BY <1>1, <1>4, <2>t, <2>u, <3>1 DEF DbGood
    <3> QED
      BY <1>1, <3>1, <3>3, <3>4 DEF StackGood, TouchedGood
  <2>6. Good'
    BY <1>1, <2>1, <2>3, <2>4, <2>5 DEF Good
  <2> QED
    BY <1>3, <1>4, <2>6 DEF BuilderInv
<1> QED
  BY <1>5, <1>6 DEF BuilderInv

(* The start of a build.                                                   *)
LEMMA BeginGood ==
  ASSUME BuilderInv, Begin
  PROVE  BuilderInv'
<1>1. /\ phase = "idle" /\ phase' = "scan" /\ hasDb' = TRUE /\ backup' = db
      /\ bin' = (IF hasDb THEN bin ELSE <<>>)
      /\ UNCHANGED <<files, clock, db>>
  BY DEF Begin
<1>2. FilesSound /\ Locals
  BY DEF BuilderInv
<1>3. /\ job'.first = ~hasDb /\ job'.rows = DOMAIN db.res /\ job'.todo \subseteq Inis
      /\ job'.stack = <<>> /\ job'.touched = <<>>
      /\ DOMAIN job' = {"first", "rows", "todo", "deleted", "oldSigs", "oldRes", "stack", "touched"}
  BY DEF Begin, NoJob
<1>4. /\ outcome'.quiet = TRUE /\ outcome'.ok = FALSE /\ outcome'.failed = outcome.failed
      /\ outcome'.complete = (hasDb /\ outcome.complete) /\ outcome'.undone = outcome.undone
      /\ DOMAIN outcome' = DOMAIN outcome
  BY <1>2 DEF Begin, Locals
<1>5. FilesSound' /\ Locals'
  BY <1>1, <1>2, <1>3, <1>4 DEF FilesSound, Locals
<1>6. CASE Spoilt
  <2>1. Spoilt'
    BY <1>1, <1>3, <1>4, <1>6 DEF Spoilt
  <2> QED
    BY <1>5, <2>1 DEF BuilderInv
<1>7. CASE Good
  <2>1. FirstGood'
    BY <1>1, <1>3, <1>4, <1>7 DEF Good, FirstGood
  <2>2. IdleGood /\ DOMAIN db = Tables /\ (~hasDb => db = EmptyDb)
    BY <1>1, <1>7 DEF Good, FirstGood, IdleGood, Shape
  <2>3. ScannedBut({})'
    <3>1. Minus(db, db, {}) /\ Enters(db.depends, {})
      BY <2>2, MinusNothing DEF Enters
    <3>2. ASSUME ~outcome.undone, NEW a \in DOMAIN db.assets
          PROVE  \/ db.assets[a] \in DOMAIN bin'
                 \/ \E f \in DOMAIN db.res : db.res[f] # files[f].time /\ a \in Users(db.depends, {f})
      <4>1. hasDb
        BY <2>2, <3>2 DEF EmptyDb
      <4> QED
        BY <1>1, <2>2, <3>2, <4>1 DEF IdleGood, LostAreStale, Stale
    <3> QED
      BY <1>1, <1>3, <1>4, <3>1, <3>2 DEF ScannedBut
  <2>4. ~outcome.failed => DOMAIN bin' = db.sigs
    <3>1. CASE hasDb
      BY <1>1, <2>2, <3>1 DEF IdleGood
    <3>2. CASE ~hasDb
      BY <1>1, <2>2, <3>2 DEF EmptyDb
    <3> QED
      BY <3>1, <3>2
  <2>5. ScanGood'
    BY <1>1, <1>3, <1>4, <2>2, <2>3, <2>4 DEF ScanGood, IdleGood
  <2> QED
    BY <1>1, <1>5, <2>1, <2>5 DEF Good, BuilderInv
<1> QED
  BY <1>6, <1>7 DEF BuilderInv

-----------------------------------------------------------------------------
(* The scan.                                                               *)
LEMMA FirstOfIn ==
  ASSUME NEW order, order \in Seq(Files), ToSet(order) = Files,
         NEW S \in SUBSET Files, S # {}
  PROVE  FirstOf(order, S) \in S
<1> DEFINE I == {i \in Nat : i \in DOMAIN order /\ order[i] \in S}
<1>1. DOMAIN order \subseteq Nat /\ \A f \in Files : \E i \in DOMAIN order : order[i] = f
  BY DEF ToSet
<1>2. I \in SUBSET Nat /\ I # {}
  BY <1>1
<1>3. \A j \in DOMAIN order : order[j] \in S => j \in I
  BY <1>1
<1>4. \A i \in I : i \in DOMAIN order /\ order[i] \in S
  OBVIOUS
<1> HIDE DEF I
<1>5. PICK i \in I : \A j \in I : i <= j
  BY <1>2, LeastExists
<1>6. \E k \in DOMAIN order : order[k] \in S /\ \A j \in DOMAIN order : order[j] \in S => k <= j
  BY <1>3, <1>4, <1>5
<1> QED
  BY <1>6 DEF FirstOf

(* Users stays in the graph.                                               *)
LEMMA UsersAreNodes ==
  ASSUME NEW E \in SUBSET (Nodes \X Nodes), NEW S \in SUBSET Nodes
  PROVE  Users(E, S) \subseteq Nodes
<1>1. Enters(E, Nodes)
  BY DEF Enters
<1> QED
  BY <1>1, UsersIs DEF IsUsers

(* Rows that went with all their users leave the users of the others.      *)
LEMMA MinusUsers ==
  ASSUME NEW d, NEW t, NEW D, NEW f \in Nodes, Shape(d), Shape(t),
         Minus(t, d, D), Enters(d.depends, D)
  PROVE  /\ Users(t.depends, {f}) \subseteq Users(d.depends, {f})
         /\ Users(d.depends, {f}) \subseteq D \union Users(t.depends, {f})
         /\ Enters(d.depends, D \union Users(t.depends, {f}))
         /\ f \in Users(t.depends, {f})
<1>1. /\ IsUsers(Users(t.depends, {f}), t.depends, {f})
      /\ IsUsers(Users(d.depends, {f}), d.depends, {f})
  BY UsersIs DEF Shape
<1> DEFINE U == Users(t.depends, {f})
           V == Users(d.depends, {f})
<1> HIDE DEF U, V
<1>2. {f} \subseteq V /\ Enters(t.depends, V)
  BY <1>1 DEF IsUsers, Enters, Minus, V
<1>3. U \subseteq V
  BY <1>1, <1>2 DEF IsUsers, U
<1>4. {f} \subseteq U /\ Enters(t.depends, U)
  BY <1>1 DEF IsUsers, U
<1>5. Enters(d.depends, D \union U)
  BY <1>4 DEF Enters, Minus
<1>6. V \subseteq D \union U
  <2>1. {f} \subseteq D \union U
    BY <1>4
  <2> QED
    BY <1>1, <1>5, <2>1 DEF IsUsers, V
<1> QED
  BY <1>3, <1>4, <1>5, <1>6 DEF U, V

(* A turn of the scan on a row that is current.                            *)
LEMMA ScanRowKeeps ==
  ASSUME Locals, ScanGood, NEW f \in job.rows, backup.res[f] = files[f].time,
         job' = [job EXCEPT !.rows = @ \ {f}], db' = db,
         UNCHANGED <<files, clock, backup, bin, outcome>>
  PROVE  ScanGood'
<1>1. /\ job'.rows = job.rows \ {f} /\ job'.todo = job.todo /\ job'.oldSigs = job.oldSigs
      /\ job'.stack = job.stack /\ job'.touched = job.touched
  BY DEF Locals
<1>2. PICK D \in SUBSET Nodes : ScannedBut(D)
  BY DEF ScanGood
<1>3. ScannedBut(D)'
  BY <1>1, <1>2 DEF ScannedBut
<1> QED
  BY <1>1, <1>3 DEF ScanGood

(* And on one that is not.                                                 *)
Sweeps(f, users, assets) ==
  /\ users = Users(db.depends, {f}) \ {f}
  /\ assets = {a \in users \ Files : a[1] \in DOMAIN db.res}
  /\ db' = DeleteRows(db, users \union {f})
  /\ job'.rows = job.rows \ {f} /\ job'.todo \subseteq Inis
  /\ job'.oldSigs = job.oldSigs \union {db.assets[a] : a \in assets}
  /\ job'.stack = job.stack /\ job'.touched = job.touched

(* A turn of the scan that finds a changed file: its row goes with all     *)
(* that needs it, assets included, and the signatures of these are         *)
(* remembered.                                                             *)
LEMMA ScanRowSweeps ==
  ASSUME ScanGood, NEW f \in job.rows, backup.res[f] # files[f].time,
         NEW users, NEW assets, Sweeps(f, users, assets),
         UNCHANGED <<files, clock, backup, bin, outcome>>
  PROVE  ScanGood'
<1>1. PICK D \in SUBSET Nodes : ScannedBut(D)
  BY DEF ScanGood
<1>2. f \in DOMAIN backup.res /\ f \in Files /\ f \in Nodes
  BY DEF ScanGood, Shape, Nodes
<1>3. Shape(backup) /\ Shape(db)
  BY <1>1, MinusShape DEF ScanGood, ScannedBut
<1> DEFINE U == Users(db.depends, {f})
<1>4. /\ U \subseteq Users(backup.depends, {f}) /\ Users(backup.depends, {f}) \subseteq D \union U
      /\ Enters(backup.depends, D \union U) /\ f \in U
  BY <1>1, <1>2, <1>3, MinusUsers DEF ScannedBut
<1>5. U \subseteq Nodes
  BY <1>2, <1>3, UsersAreNodes DEF Shape
<1>6. users \union {f} = U /\ users = U \ {f}
  BY <1>4 DEF Sweeps
<1> HIDE DEF U
<1>7. Minus(db', db, U)
  BY <1>3, <1>6, DeleteRowsIs DEF Sweeps, Shape
<1>8. Minus(db', backup, D \union U)
  BY <1>1, <1>7, MinusMinus DEF ScannedBut
<1>9. ASSUME NEW a \in DOMAIN backup.assets, a \in D \union U
      PROVE  backup.assets[a] \in job'.oldSigs /\ (~outcome.undone => Stale(files, backup, a))
  <2>1. CASE a \in D
    BY <1>1, <2>1 DEF ScannedBut, Sweeps
  <2>2. CASE a \notin D
    <3>1. a \in U /\ a \in DOMAIN db.assets /\ db.assets[a] = backup.assets[a]
      BY <1>1, <1>9, <2>2 DEF ScannedBut, Minus
    <3>2. a \in Assets /\ a \notin Files /\ a[1] \in DOMAIN db.res
      BY <1>3, <3>1, TextsAssumption DEF Shape
    <3>3. a \in assets
      BY <1>2, <1>6, <3>1, <3>2 DEF Sweeps
    <3>4. db.assets[a] \in job'.oldSigs
      BY <3>3 DEF Sweeps
    <3>5. Stale(files, backup, a)
      BY <1>2, <1>4, <3>1 DEF Stale
    <3> QED
      BY <3>1, <3>4, <3>5
  <2> QED
    BY <2>1, <2>2
<1>10. ASSUME ~outcome.undone,
              NEW a \in DOMAIN backup.assets, a \notin D \union U, backup.assets[a] \notin DOMAIN bin
       PROVE  \E g \in job'.rows : backup.res[g] # files[g].time /\ a \in Users(backup.depends, {g})
  <2>1. PICK g \in job.rows : backup.res[g] # files[g].time /\ a \in Users(backup.depends, {g})
    BY <1>1, <1>10 DEF ScannedBut
  <2>2. g # f
    BY <1>4, <1>10, <2>1
  <2> QED
    BY <2>1, <2>2 DEF Sweeps
<1>11. ASSUME outcome.quiet, NEW g \in DOMAIN backup.res
       PROVE  g \in job'.rows \/ g \in D \union U \/ backup.res[g] = files[g].time
  <2>1. g \in job.rows \/ g \in D \/ backup.res[g] = files[g].time
    BY <1>1, <1>11 DEF ScannedBut
  <2>2. job'.rows = job.rows \ {f}
    BY DEF Sweeps
  <2> QED
    BY <1>4, <2>1, <2>2
<1>w. PICK W : W = D \union U
  OBVIOUS
<1>12. /\ Minus(db', backup, W) /\ Enters(backup.depends, W)
       /\ \A a \in DOMAIN backup.assets :
            a \in W => backup.assets[a] \in job'.oldSigs /\ (~outcome.undone => Stale(files, backup, a))
  BY <1>4, <1>8, <1>9, <1>w
<1>13. ~outcome.undone =>
         \A a \in DOMAIN backup.assets :
           \/ a \in W \/ backup.assets[a] \in DOMAIN bin
           \/ \E g \in job'.rows : backup.res[g] # files[g].time /\ a \in Users(backup.depends, {g})
  BY <1>10, <1>w
<1>14. W \in SUBSET Nodes
  BY <1>5, <1>w
<1>15. ASSUME outcome.quiet, NEW g \in DOMAIN backup.res
       PROVE  g \in job'.rows \/ g \in W \/ backup.res[g] = files[g].time
  BY <1>11, <1>15, <1>w
<1>16. outcome' = outcome /\ files' = files /\ backup' = backup /\ bin' = bin
  OBVIOUS
<1>17. ScannedBut(W)'
  <2>1. outcome'.quiet => \A g \in DOMAIN backup.res : g \in job'.rows \/ g \in W \/ backup.res[g] = files[g].time
    BY <1>15, <1>16
  <2> QED
    BY ONLY <1>12, <1>13, <1>16, <2>1 DEF ScannedBut
<1>18. \E X \in SUBSET Nodes : ScannedBut(X)'
  BY <1>14, <1>17, Zenon
<1> QED
  BY <1>16, <1>18 DEF ScanGood, Sweeps

(* A turn of the scan.                                                     *)
LEMMA ScanRowGood ==
  ASSUME BuilderInv, ScanRow
  PROVE  BuilderInv'
<1>1. /\ phase = "scan" /\ job.rows # {}
      /\ UNCHANGED <<files, clock, backup, bin, phase, updated, outcome, hasDb>>
  BY DEF ScanRow
<1>2. FilesSound /\ Locals
  BY DEF BuilderInv
<1> DEFINE f == FirstOf(Paths, job.rows)
           users == Users(db.depends, {f}) \ {f}
           assets == {a \in users \ Files : a[1] \in DOMAIN db.res}
           inis == ((users \intersect Inis) \intersect DOMAIN db.res) \union {a[1] : a \in assets}
           removed == job.deleted \union {g \in {f} \intersect Inis : ~Exists(files, g)}
           todo == job.todo \union (inis \ removed) \union {g \in {f} \intersect Inis : Exists(files, g)}
<1>3. \/ /\ files[f].time = RowTime(f) /\ job' = [job EXCEPT !.rows = @ \ {f}] /\ db' = db
      \/ /\ files[f].time # RowTime(f)
         /\ db' = Swept(db, f, users)
         /\ job' = [job EXCEPT !.rows = @ \ {f},
                      !.deleted = removed \union inis,
                      !.todo = @ \union (inis \ removed)
                                 \union {g \in {f} \intersect Inis : Exists(files, g)},
                      !.oldSigs = @ \union {db.assets[a] : a \in assets},
                      !.oldRes = @ \union (Needs(db.depends, {f}) \ {f})]
  BY DEF ScanRow
<1> HIDE DEF f, users, assets, inis, removed
<1>4. Locals' /\ job'.first = job.first
  BY <1>1, <1>2, <1>3 DEF Locals
<1>5. FilesSound'
  BY <1>1, <1>2 DEF FilesSound
<1>6. CASE Spoilt
  BY <1>1, <1>4, <1>5, <1>6 DEF Spoilt, BuilderInv
<1>7. CASE Good
  <2>1. ScanGood
    BY <1>1, <1>7 DEF Good
  <2>2. f \in job.rows /\ f \in Files
    <3>1. job.rows \in SUBSET Files
      BY <2>1 DEF ScanGood, Shape
    <3> QED
      BY <1>1, <3>1, BuilderAssumption, FirstOfIn DEF f, Files
  <2>3. ASSUME files[f].time # RowTime(f), db' = Swept(db, f, users),
               job' = [job EXCEPT !.rows = @ \ {f},
                         !.deleted = removed \union inis,
                         !.todo = @ \union (inis \ removed)
                                    \union {g \in {f} \intersect Inis : Exists(files, g)},
                         !.oldSigs = @ \union {db.assets[a] : a \in assets},
                         !.oldRes = @ \union (Needs(db.depends, {f}) \ {f})]
        PROVE  ScanGood'
    <3>1. Shape(db)
      BY <2>1, MinusShape DEF ScanGood, ScannedBut
    <3>2. inis \subseteq Inis
      <4>1. Users(db.depends, {f}) \subseteq Nodes
        BY <2>2, <3>1, UsersAreNodes DEF Shape, Nodes
      <4>2. assets \subseteq Assets
        BY <4>1 DEF assets, users, Nodes
      <4>3. \A a \in assets : a[1] \in Inis
        BY <4>2 DEF Assets
      <4> QED
        BY <4>3 DEF inis
    <3>3. job'.todo = todo
      BY <1>2, <2>3 DEF Locals
    <3>4. job'.todo \subseteq Inis
      BY <2>1, <3>2, <3>3 DEF ScanGood
    <3>5. /\ job'.rows = job.rows \ {f}
          /\ job'.oldSigs = job.oldSigs \union {db.assets[a] : a \in assets}
          /\ job'.stack = job.stack /\ job'.touched = job.touched
      BY <1>2, <2>3 DEF Locals
    <3>6. Sweeps(f, users, assets)
      BY <2>3, <3>4, <3>5 DEF Sweeps, Swept, users, assets
    <3> QED
      BY <1>1, <2>1, <2>2, <2>3, <3>6, ScanRowSweeps DEF RowTime
  <2>4. ScanGood'
    BY <1>1, <1>2, <1>3, <2>1, <2>2, <2>3, ScanRowKeeps DEF RowTime
  <2>5. FirstGood'
    BY <1>1, <1>4, <1>7 DEF Good, FirstGood
  <2> QED
    BY <1>1, <1>4, <1>5, <2>4, <2>5 DEF Good, BuilderInv
<1> QED
  BY <1>6, <1>7 DEF BuilderInv

(* The end of the scan: what is left has its file, and no signature of a   *)
(* deleted asset stays unless another asset has it.                        *)
LEMMA DropGood ==
  ASSUME BuilderInv, DropSignatures
  PROVE  BuilderInv'
<1> DEFINE dropped == {s \in job.oldSigs : ~InUse(db, s)}
<1>1. /\ phase = "scan" /\ phase' = "build" /\ job.rows = {}
      /\ db' = DeleteSigs(db, dropped) /\ bin' = Without(bin, dropped)
      /\ UNCHANGED <<files, clock, backup, job, updated, outcome, hasDb>>
  BY DEF DropSignatures
<1>2. \A s : s \in dropped <=> s \in job.oldSigs /\ \A a \in DOMAIN db.assets : db.assets[a] # s
  BY DEF InUse
<1> HIDE DEF dropped
<1>3. FilesSound' /\ Locals'
  BY <1>1 DEF BuilderInv, FilesSound, Locals
<1>4. CASE Spoilt
  BY <1>1, <1>3, <1>4 DEF Spoilt, BuilderInv
<1>5. CASE Good
  <2>1. ScanGood
    BY <1>1, <1>5 DEF Good
  <2>2. PICK D \in SUBSET Nodes : ScannedBut(D)
    BY <2>1 DEF ScanGood
  <2>3. Shape(db) /\ Shape(backup) /\ DOMAIN db = Tables
    BY <2>1, <2>2, MinusShape DEF ScanGood, ScannedBut, Minus
  <2>4. /\ db'.res = db.res /\ db'.depends = db.depends /\ db'.assets = db.assets
        /\ db'.sigs = db.sigs \ dropped /\ DOMAIN db' = Tables
    BY <1>1, <2>3 DEF DeleteSigs, Tables
  <2>5. DOMAIN bin' = DOMAIN bin \ dropped
    BY <1>1 DEF Without
  <2>6. /\ DOMAIN db.assets = DOMAIN backup.assets \ D
        /\ \A a \in DOMAIN db.assets : db.assets[a] = backup.assets[a]
        /\ DOMAIN db.res = DOMAIN backup.res \ D /\ \A g \in DOMAIN db.res : db.res[g] = backup.res[g]
        /\ db.sigs = backup.sigs
    BY <2>2 DEF ScannedBut, Minus
  <2>7. Shape(db')
    BY <2>3, <2>4 DEF Shape
  <2>8. SigsExact(db')
    <3>1. ASSUME NEW s \in db'.sigs PROVE \E a \in DOMAIN db'.assets : db'.assets[a] = s
      <4>1. s \in backup.sigs /\ s \notin dropped
        BY <2>4, <2>6
      <4>2. PICK a \in DOMAIN backup.assets : backup.assets[a] = s
        BY <2>1, <4>1 DEF ScanGood, SigsExact
      <4>3. CASE a \in D
        <5>1. s \in job.oldSigs
          BY <2>2, <4>2, <4>3 DEF ScannedBut
        <5> QED
          BY <1>2, <2>4, <4>1, <5>1
      <4> QED
        BY <2>4, <2>6, <4>2, <4>3
    <3>2. ASSUME NEW a \in DOMAIN db'.assets PROVE db'.assets[a] \in db'.sigs
      <4>1. a \in DOMAIN backup.assets /\ db'.assets[a] = backup.assets[a] /\ db'.assets[a] = db.assets[a]
        BY <2>4, <2>6
      <4>2. db'.assets[a] \in backup.sigs
        BY <2>1, <4>1 DEF ScanGood, SigsExact
      <4> QED
        BY <1>2, <2>4, <2>6, <4>1, <4>2
    <3> QED
      BY <3>1, <3>2 DEF SigsExact
  <2>9. ASSUME ~outcome.undone, NEW a \in DOMAIN backup.assets
        PROVE  a \in D \/ backup.assets[a] \in DOMAIN bin
    BY <1>1, <2>2, <2>9 DEF ScannedBut
  <2>10. ~outcome.undone => db'.sigs \subseteq DOMAIN bin'
    <3> SUFFICES ASSUME ~outcome.undone, NEW s \in db'.sigs PROVE s \in DOMAIN bin'
      OBVIOUS
    <3>1. PICK a \in DOMAIN db.assets : db.assets[a] = s
      BY <2>4, <2>8 DEF SigsExact
    <3>2. s \in DOMAIN bin
      BY <2>6, <2>9, <3>1
    <3>3. s \notin dropped
      BY <1>2, <3>1
    <3> QED
      BY <2>5, <3>2, <3>3
  <2>11. ~outcome'.failed => DOMAIN bin' = db'.sigs
    BY <1>1, <2>1, <2>4, <2>5, <2>6 DEF ScanGood
  <2>12. ~outcome.undone => LostAreStale(backup, files, DOMAIN bin')
    <3> SUFFICES ASSUME ~outcome.undone,
                        NEW a \in DOMAIN backup.assets, backup.assets[a] \notin DOMAIN bin'
                 PROVE  Stale(files, backup, a)
      BY DEF LostAreStale
    <3>1. a \in D
      <4> SUFFICES ASSUME a \notin D PROVE FALSE
        OBVIOUS
      <4>1. a \in DOMAIN db.assets /\ db.assets[a] = backup.assets[a]
        BY <2>6
      <4>2. backup.assets[a] \in DOMAIN bin /\ backup.assets[a] \notin dropped
        BY <1>2, <2>9, <4>1
      <4> QED
        BY <2>5, <4>2
    <3> QED
      BY <2>2, <3>1 DEF ScannedBut
  <2>13. Timed(db', clock) /\ (outcome.quiet => Current(db', files))
    <3>1. Timed(db', clock)
      BY <2>1, <2>4, <2>6 DEF Timed, ScanGood
    <3>2. ASSUME outcome.quiet, NEW g \in DOMAIN db.res PROVE db.res[g] = files[g].time
      BY <1>1, <2>2, <2>6, <3>2 DEF ScannedBut
    <3> QED
      BY <2>4, <3>1, <3>2 DEF Current
  <2>14. BackupGood' /\ DbGood'
    BY <1>1, <2>1, <2>7, <2>8, <2>10, <2>11, <2>12, <2>13 DEF BackupGood, DbGood, ScanGood
  <2>15. StackGood' /\ TouchedGood'
    <3>1. job.stack = <<>> /\ job.touched = <<>> /\ job.todo \subseteq Inis
      BY <2>1 DEF ScanGood
    <3> QED
      BY <1>1, <2>4, <2>6, <3>1 DEF StackGood, TouchedGood
  <2>16. FirstGood'
    BY <1>1, <1>5 DEF Good, FirstGood
  <2> QED
    BY <1>1, <1>3, <2>14, <2>15, <2>16 DEF Good, BuilderInv
<1> QED
  BY <1>4, <1>5 DEF BuilderInv

-----------------------------------------------------------------------------
(* The build.  Most of its steps only add rows of files and edges between  *)
(* files to the database.                                                  *)
Extended(t, d) ==
  /\ DOMAIN t = Tables /\ t.assets = d.assets /\ t.sigs = d.sigs
  /\ DOMAIN d.res \subseteq DOMAIN t.res /\ DOMAIN t.res \subseteq Files
  /\ \A f \in DOMAIN t.res : \/ f \in DOMAIN d.res /\ t.res[f] = d.res[f]
                             \/ Exists(files, f) /\ t.res[f] = files[f].time
  /\ d.depends \subseteq t.depends
  /\ \A e \in t.depends : e \in d.depends \/ e \in Files \X Files

(* How builds ended, and what the proofs need of the history, is as it     *)
(* was.                                                                    *)
SameOutcome ==
  /\ DOMAIN outcome' = DOMAIN outcome
  /\ outcome'.ok = outcome.ok /\ outcome'.quiet = outcome.quiet /\ outcome'.failed = outcome.failed
  /\ outcome'.complete = outcome.complete /\ outcome'.undone = outcome.undone

(* Rows and edges of files disturb neither the assets nor what they stand  *)
(* on.                                                                     *)
LEMMA ExtendedGood ==
  ASSUME FilesSound, DbGood, BackupGood, TouchedGood, Extended(db', db),
         job'.touched = job.touched,
         UNCHANGED <<files, clock, backup, bin>>, SameOutcome
  PROVE  DbGood' /\ BackupGood' /\ TouchedGood'
<1>1. Shape(db) /\ Timed(db, clock) /\ SigsExact(db)
  BY DEF DbGood
<1>2. Shape(db')
  <2>1. DOMAIN db' = Tables /\ DOMAIN db'.res \subseteq Files /\ DOMAIN db'.assets \subseteq Assets
    BY <1>1 DEF Shape, Extended
  <2>2. db'.depends \in SUBSET (Nodes \X Nodes)
    BY <1>1 DEF Shape, Extended, Nodes
  <2>3. \A e \in db'.depends : /\ e[1] \in Files => e[2] \in Files
                               /\ e[1] \in Assets => e[1] \in DOMAIN db'.assets
                               /\ e[2] \in Assets => e[2] \in DOMAIN db'.assets
    BY <1>1, TextsAssumption DEF Shape, Extended
  <2>4. ASSUME NEW a \in DOMAIN db'.assets
        PROVE  /\ a[1] \in DOMAIN db'.res /\ <<a, a[1]>> \in db'.depends
               /\ \A b \in Assets : b \in db'.assets[a].used <=> <<a, b>> \in db'.depends
               /\ db'.assets[a].used \subseteq Assets
    <3>1. a \in DOMAIN db.assets /\ db'.assets[a] = db.assets[a] /\ a \in Assets /\ a \notin Files
      BY <1>1, TextsAssumption DEF Shape, Extended
    <3>2. /\ a[1] \in DOMAIN db.res /\ <<a, a[1]>> \in db.depends
          /\ \A b \in Assets : b \in db.assets[a].used <=> <<a, b>> \in db.depends
          /\ db.assets[a].used \subseteq Assets
      BY <1>1, <3>1 DEF Shape
    <3>3. \A b : <<a, b>> \in db'.depends <=> <<a, b>> \in db.depends
      BY <3>1 DEF Extended
    <3>4. a[1] \in DOMAIN db'.res
      BY <3>2 DEF Extended
    <3> QED
      BY <3>1, <3>2, <3>3, <3>4
  <2> QED
    BY <2>1, <2>2, <2>3, <2>4 DEF Shape
<1>3. Timed(db', clock)
  BY <1>1 DEF Timed, Extended, FilesSound, Exists
<1>4. SigsExact(db')
  BY <1>1 DEF SigsExact, Extended
<1>5. outcome.quiet => Current(db', files)
  <2> SUFFICES ASSUME outcome.quiet PROVE Current(db', files)
    OBVIOUS
  <2>1. Current(db, files)
    BY DEF DbGood
  <2> QED
    BY <2>1 DEF Current, Extended
<1>6. /\ outcome'.quiet = outcome.quiet /\ outcome'.failed = outcome.failed
      /\ outcome'.undone = outcome.undone
      /\ files' = files /\ backup' = backup /\ bin' = bin /\ clock' = clock
  BY DEF SameOutcome
<1>7. DbGood'
  <2>1. db'.sigs = db.sigs
    BY DEF Extended
  <2>2. /\ ~outcome.undone => db'.sigs \subseteq DOMAIN bin
        /\ ~outcome.failed => DOMAIN bin = db'.sigs
    BY <2>1 DEF DbGood
  <2> QED
    BY <1>2, <1>3, <1>4, <1>5, <1>6, <2>2 DEF DbGood
<1>8. BackupGood'
  BY <1>6 DEF BackupGood
<1>9. TouchedGood'
  BY <1>6 DEF TouchedGood, Extended
<1> QED
  BY <1>7, <1>8, <1>9

(* A step may leave the database alone.                                    *)
LEMMA ExtendedSame ==
  ASSUME FilesSound, Shape(db)
  PROVE  Extended(db, db)
BY DEF Extended, Shape

(* A step of the build that only extends the database.                     *)
LEMMA BuildStepGood ==
  ASSUME BuilderInv, phase = "build",
         UNCHANGED <<files, clock, backup, bin, phase, hasDb>>, SameOutcome,
         DOMAIN job' = DOMAIN job, job'.first = job.first, job'.touched = job.touched,
         DbGood /\ StackGood => Extended(db', db) /\ StackGood'
  PROVE  BuilderInv'
<1>1. FilesSound' /\ Locals'
  BY DEF BuilderInv, FilesSound, Locals, SameOutcome
<1>2. CASE Spoilt
  BY <1>1, <1>2 DEF Spoilt, BuilderInv, SameOutcome
<1>3. CASE Good
  <2>1. BackupGood /\ DbGood /\ StackGood /\ TouchedGood /\ FilesSound
    BY <1>3 DEF Good, BuilderInv
  <2>2. DbGood' /\ BackupGood' /\ TouchedGood'
    BY <2>1, ExtendedGood
  <2>3. FirstGood'
    BY <1>3 DEF Good, FirstGood, SameOutcome
  <2> QED
    BY <1>1, <2>1, <2>2, <2>3 DEF Good, BuilderInv
<1> QED
  BY <1>2, <1>3 DEF BuilderInv

(* The stack of files under way.                                           *)
LEMMA TopIs ==
  ASSUME StackGood, job.stack # <<>>
  PROVE  /\ Top \in BuildFrames /\ Top.ini \in DOMAIN db.res
         /\ Len(job.stack) \in Nat /\ 1 <= Len(job.stack)
<1>1. Len(job.stack) \in Nat /\ 1 <= Len(job.stack)
  BY EmptySeq, LenProperties DEF StackGood
<1> QED
  BY <1>1 DEF StackGood, Top

(* A new top of the stack for the same .gosasset_d.                        *)
LEMMA StackedIs ==
  ASSUME StackGood, job.stack # <<>>, NEW fr \in BuildFrames, fr.ini = Top.ini, Locals,
         DOMAIN db.res \subseteq DOMAIN db'.res, job' = Stacked(fr)
  PROVE  StackGood'
<1>1. Top.ini \in DOMAIN db.res /\ Len(job.stack) \in Nat /\ 1 <= Len(job.stack)
  BY TopIs
<1>2. job'.todo = job.todo /\ job'.stack = [job.stack EXCEPT ![Len(job.stack)] = fr]
  BY DEF Stacked, Locals
<1>3. /\ job'.stack \in Seq(BuildFrames) /\ Len(job'.stack) = Len(job.stack)
      /\ \A k \in 1..Len(job.stack) : job'.stack[k] = IF k = Len(job.stack) THEN fr ELSE job.stack[k]
  BY <1>1, <1>2 DEF StackGood
<1> QED
  BY <1>1, <1>2, <1>3 DEF StackGood

(* The row of a .gosasset_d is written before it is read.                  *)
LEMMA OpenedIs ==
  ASSUME StackGood, Locals, FilesSound, Shape(db), NEW j, DOMAIN j = DOMAIN job, j.todo \subseteq Inis, j.stack = job.stack,
         NEW ini \in Inis, Exists(files, ini), ini \notin DOMAIN db.res, OpenedBy(j, ini),
         job.stack = <<>> \/ Top.include # <<>>
  PROVE  StackGood' /\ Extended(db', db)
<1> DEFINE fr == [ini |-> ini, read |-> FALSE, include |-> <<>>, declare |-> <<>>, res |-> <<>>]
<1>1. fr \in BuildFrames /\ fr.ini = ini
  <2>1. <<>> \in RowsOfSources
    BY DEF RowsOfSources
  <2>2. <<>> \in Seq(Inis) /\ <<>> \in Seq(Declarations)
    BY EmptySeq
  <2> QED
    BY <2>1, <2>2 DEF BuildFrames
<1>2. /\ job'.todo = j.todo /\ job'.stack = Append(job.stack, fr)
      /\ db' = [db EXCEPT !.res = With(@, ini, files[ini].time)]
  BY DEF OpenedBy, Locals
<1> HIDE DEF fr
<1>3. /\ DOMAIN db' = Tables /\ db'.res = With(db.res, ini, files[ini].time)
      /\ db'.assets = db.assets /\ db'.depends = db.depends /\ db'.sigs = db.sigs
  BY <1>2 DEF Shape, Tables
<1>4. /\ DOMAIN db'.res = DOMAIN db.res \union {ini} /\ db'.res[ini] = files[ini].time
      /\ \A y \in DOMAIN db.res : y # ini => db'.res[y] = db.res[y]
  <2>1. db'.res = With(db.res, ini, files[ini].time)
    BY <1>3
  <2> QED
    BY ONLY <2>1 DEF With
<1>5. ini \in Files /\ DOMAIN db.res \subseteq Files
  BY BuilderAssumption DEF Shape
<1>6. Extended(db', db)
  <2>1. \A f \in DOMAIN db'.res : \/ f \in DOMAIN db.res /\ db'.res[f] = db.res[f]
                                  \/ Exists(files, f) /\ db'.res[f] = files[f].time
    BY <1>4
  <2> QED
    BY <1>3, <1>4, <1>5, <2>1 DEF Extended
<1>7. /\ job'.stack \in Seq(BuildFrames) /\ Len(job'.stack) = Len(job.stack) + 1
      /\ \A k \in 1..Len(job'.stack) : job'.stack[k] = fr \/ (k \in 1..Len(job.stack) /\ job'.stack[k] = job.stack[k])
  BY <1>1, <1>2 DEF StackGood
<1>k. \A k \in 1..Len(job.stack) : job'.stack[k] = job.stack[k]
  BY <1>1, <1>2 DEF StackGood
<1>8. StackGood'
  <2>1. \A k \in 1..Len(job.stack) : job.stack[k].ini \in DOMAIN db.res
    BY DEF StackGood
  <2>2. \A k \in 1..Len(job'.stack) : job'.stack[k].ini \in DOMAIN db'.res
    BY <1>1, <1>4, <1>7, <2>1
  <2>3. Len(job.stack) \in Nat /\ \A k \in 1..Len(job.stack) : job.stack[k].include # <<>>
    <3>1. CASE job.stack = <<>>
      BY <3>1
    <3>2. CASE job.stack # <<>>
      BY <3>2, TopIs DEF StackGood, Top
    <3> QED
      BY <3>1, <3>2
  <2>4. \A k \in 1..Len(job'.stack) - 1 : job'.stack[k].include # <<>>
    BY <1>7, <1>k, <2>3
  <2> QED
    BY <1>2, <1>7, <2>2, <2>4 DEF StackGood
<1> QED
  BY <1>6, <1>8

(* The next of the list of .gosasset_d.                                    *)
LEMMA NextIniGood ==
  ASSUME BuilderInv, NextIni
  PROVE  BuilderInv'
<1> DEFINE ini == FirstOf(Uids, job.todo)
           rest == [job EXCEPT !.todo = @ \ {ini}]
<1>1. /\ phase = "build" /\ job.stack = <<>> /\ job.todo # {}
      /\ UNCHANGED <<files, clock, backup, bin, phase, updated, outcome, hasDb>>
  BY DEF NextIni
<1>2. \/ Exists(files, ini) /\ ini \notin DOMAIN db.res /\ OpenedBy(rest, ini)
      \/ job' = rest /\ db' = db
  BY DEF NextIni
<1>3. FilesSound /\ Locals
  BY DEF BuilderInv
<1>4. /\ DOMAIN rest = DOMAIN job /\ rest.todo = job.todo \ {ini} /\ rest.stack = job.stack
      /\ rest.first = job.first /\ rest.touched = job.touched
  BY <1>3 DEF Locals
<1> HIDE DEF ini, rest
<1>5. DOMAIN job' = DOMAIN job /\ job'.first = job.first /\ job'.touched = job.touched
  <2>1. CASE OpenedBy(rest, ini)
    BY <1>3, <1>4, <2>1 DEF OpenedBy, Locals
  <2> QED
    BY <1>2, <1>4, <2>1
<1>6. ASSUME DbGood, StackGood PROVE Extended(db', db) /\ StackGood'
  <2>1. ini \in Inis
    <3>1. job.todo \in SUBSET Files
      BY <1>6, BuilderAssumption DEF StackGood
    <3>2. ini \in job.todo
      BY <1>1, <3>1, BuilderAssumption, FirstOfIn DEF ini
    <3> QED
      BY <1>6, <3>2 DEF StackGood
  <2>2. Shape(db)
    BY <1>6 DEF DbGood
  <2>3. rest.todo \subseteq Inis
    BY <1>4, <1>6 DEF StackGood
  <2>4. CASE job' = rest /\ db' = db
    BY <1>3, <1>4, <1>6, <2>2, <2>3, <2>4, ExtendedSame DEF StackGood
  <2>5. CASE Exists(files, ini) /\ ini \notin DOMAIN db.res /\ OpenedBy(rest, ini)
    BY <1>1, <1>3, <1>4, <1>6, <2>1, <2>2, <2>3, <2>5, OpenedIs
  <2> QED
    BY <1>2, <2>4, <2>5
<1> QED
  BY <1>1, <1>5, <1>6, BuildStepGood DEF SameOutcome

(* What a new top leaves alone.                                            *)
LEMMA StackedKeeps ==
  ASSUME Locals, NEW fr, job' = Stacked(fr)
  PROVE  DOMAIN job' = DOMAIN job /\ job'.first = job.first /\ job'.touched = job.touched
BY DEF Stacked, Locals

(* A .gosasset_d is read.                                                  *)
LEMMA ParseIniGood ==
  ASSUME BuilderInv, ParseIni
  PROVE  BuilderInv'
<1> DEFINE text == files[Top.ini].text
           fr == [Top EXCEPT !.read = TRUE, !.include = text.include, !.declare = text.declare]
<1>1. /\ phase = "build" /\ job.stack # <<>> /\ Exists(files, Top.ini) /\ text # Bad
      /\ job' = Stacked(fr) /\ db' = db
      /\ UNCHANGED <<files, clock, backup, bin, phase, updated, outcome, hasDb>>
  BY DEF ParseIni, Building
<1>2. FilesSound /\ Locals
  BY DEF BuilderInv
<1>3. ASSUME DbGood, StackGood PROVE Extended(db', db) /\ StackGood'
  <2>1. Top \in BuildFrames
    BY <1>1, <1>3, TopIs
  <2>2. Top.ini \in Inis /\ Top.ini \in Files
    BY <2>1, BuilderAssumption DEF BuildFrames
  <2>3. text \in IniTexts
    <3>1. text \in Texts[Top.ini] /\ text # Bad
      BY <1>1, <1>2, <2>2 DEF FilesSound
    <3> HIDE DEF text
    <3>2. \A i \in Inis : \A t \in Texts[i] : t # Bad => t \in IniTexts
      BY DEF IniTexts
    <3> QED
      BY <2>2, <3>1, <3>2
  <2>4. text.include \in Seq(Inis) /\ text.declare \in Seq(Declarations)
    BY <2>3, TextsAssumption
  <2> HIDE DEF text
  <2>5. fr \in BuildFrames /\ fr.ini = Top.ini
    BY <2>1, <2>4 DEF BuildFrames
  <2> HIDE DEF fr
  <2>6. StackGood'
    BY <1>1, <1>2, <1>3, <2>5, StackedIs
  <2>7. Extended(db', db)
    BY <1>1, <1>2, <1>3, ExtendedSame DEF DbGood
  <2> QED
    BY <2>6, <2>7
<1> HIDE DEF text, fr
<1>4. DOMAIN job' = DOMAIN job /\ job'.first = job.first /\ job'.touched = job.touched
  BY <1>1, <1>2, StackedKeeps
<1> QED
  BY <1>1, <1>3, <1>4, BuildStepGood DEF SameOutcome

(* An edge between two files.                                              *)
LEMMA DependingIs ==
  ASSUME FilesSound, Shape(db), NEW f \in Files, NEW g \in Files, db' = Depending(db, f, g)
  PROVE  Extended(db', db)
<1>1. /\ DOMAIN db' = Tables /\ db'.res = db.res /\ db'.assets = db.assets
      /\ db'.depends = db.depends \union {<<f, g>>} /\ db'.sigs = db.sigs
  BY DEF Depending, Shape, Tables
<1>2. DOMAIN db.res \subseteq Files
  BY DEF Shape
<1> QED
  BY <1>1, <1>2 DEF Extended

(* A .gosasset_d includes another.                                         *)
LEMMA IncludeGood ==
  ASSUME BuilderInv, Include
  PROVE  BuilderInv'
<1> DEFINE ini == Head(Top.include)
           fr == [Top EXCEPT !.include = Tail(@)]
<1>1. /\ phase = "build" /\ job.stack # <<>> /\ Top.include # <<>> /\ Exists(files, ini)
      /\ UNCHANGED <<files, clock, backup, bin, phase, updated, outcome, hasDb>>
  BY DEF Include, Building
<1>2. \/ ini \notin DOMAIN db.res /\ OpenedBy(job, ini)
      \/ db' = Depending(db, Top.ini, ini) /\ job' = Stacked(fr)
  BY DEF Include
<1>3. FilesSound /\ Locals
  BY DEF BuilderInv
<1>4. ASSUME DbGood, StackGood PROVE Extended(db', db) /\ StackGood'
  <2>1. Top \in BuildFrames
    BY <1>1, <1>4, TopIs
  <2>2. Top.include \in Seq(Inis) /\ Top.ini \in Inis
    BY <2>1 DEF BuildFrames
  <2>3. ini \in Inis /\ Tail(Top.include) \in Seq(Inis)
    BY <1>1, <2>2, HeadTailProperties
  <2>4. fr \in BuildFrames /\ fr.ini = Top.ini
    BY <2>1, <2>3 DEF BuildFrames
  <2> HIDE DEF ini, fr
  <2>5. Shape(db) /\ job.todo \subseteq Inis
    BY <1>4 DEF DbGood, StackGood
  <2>6. CASE ini \notin DOMAIN db.res /\ OpenedBy(job, ini)
    BY <1>1, <1>3, <1>4, <2>3, <2>5, <2>6, OpenedIs
  <2>7. CASE db' = Depending(db, Top.ini, ini) /\ job' = Stacked(fr)
    <3>1. Extended(db', db)
      BY <1>3, <2>2, <2>3, <2>5, <2>7, BuilderAssumption, DependingIs
    <3>2. DOMAIN db.res \subseteq DOMAIN db'.res
      BY <3>1 DEF Extended
    <3> QED
      BY <1>1, <1>3, <1>4, <2>4, <2>7, <3>1, <3>2, StackedIs
  <2> QED
    BY <1>2, <2>6, <2>7
<1> HIDE DEF ini, fr
<1>5. DOMAIN job' = DOMAIN job /\ job'.first = job.first /\ job'.touched = job.touched
  <2>1. CASE OpenedBy(job, ini)
    BY <1>3, <2>1 DEF OpenedBy, Locals
  <2> QED
    BY <1>2, <1>3, <2>1, StackedKeeps
<1> QED
  BY <1>1, <1>4, <1>5, BuildStepGood DEF SameOutcome

(* The declaration under way.                                              *)
LEMMA DeclIs ==
  ASSUME StackGood, Declaring
  PROVE  /\ Decl \in Declarations /\ Tail(Top.declare) \in Seq(Declarations)
         /\ Top \in BuildFrames /\ Top.ini \in Inis /\ Top.ini \in DOMAIN db.res
         /\ Decl.src \in (Files \ Inis) \union {NoSource}
<1>1. job.stack # <<>> /\ Top.declare # <<>>
  BY DEF Declaring, Building
<1>2. Top \in BuildFrames /\ Top.ini \in DOMAIN db.res
  BY <1>1, TopIs
<1>3. Top.declare \in Seq(Declarations) /\ Top.ini \in Inis
  BY <1>2 DEF BuildFrames
<1>4. Decl \in Declarations /\ Tail(Top.declare) \in Seq(Declarations)
  BY <1>1, <1>3, HeadTailProperties DEF Decl
<1> QED
  BY <1>2, <1>3, <1>4, TextsAssumption

(* What a source includes, at any depth, is files.                         *)
LEMMA SourcesAreFiles ==
  ASSUME NEW decl \in Declarations
  PROVE  SourcesOf(decl) \subseteq Files
<1>1. CASE decl.src = NoSource
  BY <1>1 DEF SourcesOf
<1>2. CASE decl.src # NoSource
  <2> DEFINE E == {e \in (Files \ Inis) \X Files : e[2] \in files[e[1]].text}
  <2>1. decl.src \in Files
    BY <1>2, TextsAssumption
  <2>2. E \in SUBSET (Files \X Files) /\ SourcesOf(decl) = Reached(E, {decl.src})
    BY <1>2 DEF SourcesOf, Included
  <2> HIDE DEF E
  <2>3. IsReached(Reached(E, {decl.src}), E, {decl.src})
    BY <2>1, <2>2, FiniteNodes, ReachedIs
  <2>4. {decl.src} \subseteq Files /\ Follows(E, Files)
    BY <2>1, <2>2 DEF Follows
  <2> QED
    BY <2>2, <2>3, <2>4 DEF IsReached
<1> QED
  BY <1>1, <1>2

(* The rows of the sources of a declaration (prot_needResource).           *)
LEMMA NeedResourceGood ==
  ASSUME BuilderInv, NeedResource
  PROVE  BuilderInv'
<1> DEFINE needed == Needed
           rows == [f \in needed |-> RowOf(f)]
           nested == Nested
           fr == [Top EXCEPT !.res = rows]
<1>1. /\ Declaring /\ phase = "build" /\ job.stack # <<>> /\ Decl.src # NoSource
      /\ UNCHANGED <<files, clock, backup, bin, phase, updated, hasDb>>
      /\ \E missed : outcome' = [outcome EXCEPT !.missed = missed]
      /\ db' = [db EXCEPT !.res = [f \in DOMAIN @ \union needed |-> IF f \in needed THEN RowOf(f) ELSE @[f]],
                          !.depends = @ \union (nested \union {<<Top.ini, Decl.src>>})]
      /\ job' = Stacked(fr)
  BY DEF NeedResource, Needing, WithRows, Declaring, Building
<1>2. FilesSound /\ Locals
  BY DEF BuilderInv
<1>3. ASSUME DbGood, StackGood PROVE Extended(db', db) /\ StackGood'
  <2>1. /\ Decl \in Declarations /\ Top \in BuildFrames /\ Top.ini \in Inis /\ Top.ini \in Files
        /\ Decl.src \in Files
    BY <1>1, <1>3, DeclIs, BuilderAssumption
  <2>2. needed \subseteq Files /\ \A f \in needed : Exists(files, f) \/ f \in DOMAIN db.res
    BY <2>1, SourcesAreFiles DEF Needed, Found
  <2>3. Shape(db) /\ Timed(db, clock)
    BY <1>3 DEF DbGood
  <2>4. /\ DOMAIN rows = needed
        /\ \A f \in needed : /\ rows[f] = RowOf(f)
                             /\ RowOf(f) = IF f \in DOMAIN db.res THEN db.res[f] ELSE files[f].time
    BY DEF RowOf
  <2>5. rows \in RowsOfSources
    <3>1. rows \in [needed -> Nat]
      BY <1>2, <2>2, <2>3 DEF Timed, FilesSound, RowOf
    <3> HIDE DEF rows, needed
    <3>2. [needed -> Nat] \in {[S -> Nat] : S \in SUBSET Files}
      BY <2>2
    <3> QED
      BY <3>1, <3>2 DEF RowsOfSources, TimesOfSources
  <2>6. nested \subseteq Files \X Files
    BY <2>2 DEF Nested
  <2> HIDE DEF rows, needed, nested
  <2>7. fr \in BuildFrames /\ fr.ini = Top.ini
    BY <2>1, <2>5 DEF BuildFrames
  <2> HIDE DEF fr
  <2>8. /\ DOMAIN db' = Tables /\ db'.assets = db.assets /\ db'.sigs = db.sigs
        /\ db'.depends = db.depends \union nested \union {<<Top.ini, Decl.src>>}
        /\ db'.res = [f \in DOMAIN db.res \union needed |-> IF f \in needed THEN RowOf(f) ELSE db.res[f]]
    BY <1>1, <2>3 DEF Shape, Tables
  <2>9. /\ DOMAIN db'.res = DOMAIN db.res \union needed
        /\ \A f \in DOMAIN db'.res : db'.res[f] = IF f \in needed THEN RowOf(f) ELSE db.res[f]
    <3>1. db'.res = [f \in DOMAIN db.res \union needed |-> IF f \in needed THEN RowOf(f) ELSE db.res[f]]
      BY <2>8
    <3> QED
      BY ONLY <3>1
  <2>10. \A f \in DOMAIN db'.res : \/ f \in DOMAIN db.res /\ db'.res[f] = db.res[f]
                                   \/ Exists(files, f) /\ db'.res[f] = files[f].time
    BY <2>2, <2>4, <2>9
  <2>11. DOMAIN db.res \subseteq DOMAIN db'.res /\ DOMAIN db'.res \subseteq Files
    BY <2>2, <2>3, <2>9 DEF Shape
  <2>12. db.depends \subseteq db'.depends /\ \A e \in db'.depends : e \in db.depends \/ e \in Files \X Files
    <3>1. <<Top.ini, Decl.src>> \in Files \X Files
      BY <2>1
    <3>2. db'.depends = db.depends \union nested \union {<<Top.ini, Decl.src>>}
      BY <2>8
    <3> QED
      BY <2>6, <3>1, <3>2
  <2>13. DOMAIN db' = Tables /\ db'.assets = db.assets /\ db'.sigs = db.sigs
    BY <2>8
  <2>14. Extended(db', db)
    BY <2>10, <2>11, <2>12, <2>13 DEF Extended
  <2>15. StackGood'
    BY <1>1, <1>2, <1>3, <2>7, <2>11, StackedIs
  <2> QED
    BY <2>14, <2>15
<1> HIDE DEF fr
<1>4. DOMAIN job' = DOMAIN job /\ job'.first = job.first /\ job'.touched = job.touched
  BY <1>1, <1>2, StackedKeeps
<1>5. UNCHANGED <<files, clock, backup, bin, phase, hasDb>> /\ phase = "build" /\ SameOutcome
  BY <1>1, <1>2 DEF Locals, SameOutcome
<1> QED
  BY <1>3, <1>4, <1>5, BuildStepGood

(* A stack without its top.                                                *)
LEMMA FrontIs ==
  ASSUME NEW s \in Seq(BuildFrames), 1 <= Len(s)
  PROVE  /\ Front(s) \in Seq(BuildFrames) /\ Len(Front(s)) = Len(s) - 1
         /\ \A k \in 1..Len(s) - 1 : Front(s)[k] = s[k]
<1>1. Len(s) \in Nat /\ \A i \in 1..Len(s) - 1 : s[i] \in BuildFrames
  OBVIOUS
<1>2. /\ SubSeq(s, 1, Len(s) - 1) \in Seq(BuildFrames)
      /\ Len(SubSeq(s, 1, Len(s) - 1)) = IF 1 <= Len(s) - 1 THEN Len(s) - 1 - 1 + 1 ELSE 0
      /\ \A i \in 1..Len(s) - 1 - 1 + 1 : SubSeq(s, 1, Len(s) - 1)[i] = s[1 + i - 1]
  BY <1>1, SubSeqProperties
<1> DEFINE t == SubSeq(s, 1, Len(s) - 1)
<1>3. Front(s) = t
  BY DEF Front
<1> HIDE DEF t
<1>4. t \in Seq(BuildFrames) /\ Len(t) = Len(s) - 1
  <2>1. PICK n : n = Len(s)
    OBVIOUS
  <2>2. n \in Nat /\ 1 <= n
    BY <1>1, <2>1
  <2>3. (IF 1 <= n - 1 THEN n - 1 - 1 + 1 ELSE 0) = n - 1
    BY <2>2
  <2> QED
    BY <1>2, <2>1, <2>3 DEF t
<1>5. ASSUME NEW k \in 1..Len(s) - 1 PROVE t[k] = s[k]
  <2>1. k \in 1..Len(s) - 1 - 1 + 1 /\ 1 + k - 1 = k
    BY <1>1
  <2> QED
    BY <1>2, <2>1 DEF t
<1> QED
  BY <1>3, <1>4, <1>5

(* The end of a .gosasset_d, which goes back to the one that included it.  *)
LEMMA CloseIniGood ==
  ASSUME BuilderInv, CloseIni
  PROVE  BuilderInv'
<1> DEFINE above == job.stack[Len(job.stack) - 1]
           fr == [above EXCEPT !.include = Tail(@)]
<1>1. /\ phase = "build" /\ job.stack # <<>>
      /\ UNCHANGED <<files, clock, backup, bin, phase, updated, outcome, hasDb>>
  BY DEF CloseIni, Building
<1>2. \/ /\ Len(job.stack) = 1 /\ job' = [job EXCEPT !.stack = <<>>] /\ db' = db
      \/ /\ Len(job.stack) # 1 /\ db' = Depending(db, above.ini, Top.ini)
         /\ job' = [job EXCEPT !.stack = Append(Front(Front(@)), fr)]
  BY DEF CloseIni
<1>3. FilesSound /\ Locals
  BY DEF BuilderInv
<1> HIDE DEF fr
<1>4. DOMAIN job' = DOMAIN job /\ job'.first = job.first /\ job'.touched = job.touched /\ job'.todo = job.todo
  BY <1>2, <1>3 DEF Locals
<1>5. ASSUME DbGood, StackGood PROVE Extended(db', db) /\ StackGood'
  <2>1. /\ Top \in BuildFrames /\ Top.ini \in DOMAIN db.res
        /\ Len(job.stack) \in Nat /\ 1 <= Len(job.stack)
    BY <1>1, <1>5, TopIs
  <2>2. Shape(db)
    BY <1>5 DEF DbGood
  <2>3. CASE Len(job.stack) = 1 /\ job' = [job EXCEPT !.stack = <<>>] /\ db' = db
    <3>1. job'.stack = <<>>
      BY <1>3, <2>3 DEF Locals
    <3> QED
      BY <1>3, <1>4, <1>5, <2>2, <2>3, <3>1, ExtendedSame, EmptySeq DEF StackGood
  <2>4. CASE /\ Len(job.stack) # 1 /\ db' = Depending(db, above.ini, Top.ini)
             /\ job' = [job EXCEPT !.stack = Append(Front(Front(@)), fr)]
    <3>0. Len(job.stack) \in Nat /\ 1 <= Len(job.stack) - 1 /\ Len(job.stack) - 1 <= Len(job.stack)
      <4>1. PICK n : n = Len(job.stack)
        OBVIOUS
      <4>2. n \in Nat /\ 1 <= n /\ n # 1
        BY <2>1, <2>4, <4>1
      <4>3. 1 <= n - 1 /\ n - 1 <= n
        BY <4>2
      <4> QED
        BY <4>1, <4>2, <4>3
    <3>1. /\ Len(job.stack) - 1 \in 1..Len(job.stack) /\ job.stack \in Seq(BuildFrames)
          /\ above \in BuildFrames /\ above.ini \in DOMAIN db.res /\ above.include # <<>>
      <4>1. Len(job.stack) - 1 \in 1..Len(job.stack) /\ Len(job.stack) - 1 \in 1..Len(job.stack) - 1
        BY <3>0
      <4>2. job.stack \in Seq(BuildFrames)
        BY <1>5 DEF StackGood
      <4> QED
        BY <1>5, <4>1, <4>2 DEF StackGood
    <3>2. above.include \in Seq(Inis) /\ above.ini \in Inis /\ Top.ini \in Inis
      BY <2>1, <3>1 DEF BuildFrames
    <3>3. Tail(above.include) \in Seq(Inis)
      BY <3>1, <3>2, HeadTailProperties
    <3>4. fr \in BuildFrames /\ fr.ini = above.ini
      BY <3>1, <3>3 DEF BuildFrames, fr
    <3> HIDE DEF above
    <3>5. Extended(db', db)
      BY <1>3, <2>2, <2>4, <3>2, BuilderAssumption, DependingIs
    <3>6. job'.stack = Append(Front(Front(job.stack)), fr)
      BY <1>3, <2>4 DEF Locals
    <3>7. /\ Front(Front(job.stack)) \in Seq(BuildFrames)
          /\ Len(Front(Front(job.stack))) = Len(job.stack) - 2
          /\ \A k \in 1..Len(job.stack) - 2 : Front(Front(job.stack))[k] = job.stack[k]
      <4>1. /\ Front(job.stack) \in Seq(BuildFrames) /\ Len(Front(job.stack)) = Len(job.stack) - 1
            /\ \A k \in 1..Len(job.stack) - 1 : Front(job.stack)[k] = job.stack[k]
        BY <2>1, <3>1, FrontIs
      <4>2. 1 <= Len(Front(job.stack))
        BY <3>0, <4>1
      <4>3. /\ Front(Front(job.stack)) \in Seq(BuildFrames)
            /\ Len(Front(Front(job.stack))) = Len(Front(job.stack)) - 1
            /\ \A k \in 1..Len(Front(job.stack)) - 1 : Front(Front(job.stack))[k] = Front(job.stack)[k]
        BY <4>1, <4>2, FrontIs
      <4> QED
        BY <2>1, <3>0, <4>1, <4>3
    <3>8. /\ job'.stack \in Seq(BuildFrames) /\ Len(job'.stack) = Len(job.stack) - 1
          /\ \A k \in 1..Len(job'.stack) : job'.stack[k] = fr \/ (k \in 1..Len(job.stack) /\ job'.stack[k] = job.stack[k])
          /\ \A k \in 1..Len(job'.stack) - 1 : k \in 1..Len(job.stack) - 1 /\ job'.stack[k] = job.stack[k]
      BY <2>1, <3>0, <3>4, <3>6, <3>7
    <3>9. DOMAIN db'.res = DOMAIN db.res
      BY <2>2, <2>4 DEF Depending, Shape, Tables
    <3>10. StackGood'
      BY <1>4, <1>5, <3>1, <3>4, <3>8, <3>9 DEF StackGood
    <3> QED
      BY <3>5, <3>10
  <2> QED
    BY <1>2, <2>3, <2>4
<1> QED
  BY <1>1, <1>4, <1>5, BuildStepGood DEF SameOutcome

(* An asset is made, under a new name and over assets that are there.      *)
LEMMA InsertedIs ==
  ASSUME Shape(db), SigsExact(db), NEW ini \in Inis, ini \in DOMAIN db.res, NEW decl \in Declarations, NEW sig, NEW used,
         used \subseteq DOMAIN db.assets, sig.used = used, <<ini, decl.rtname>> \notin DOMAIN db.assets,
         db' = Inserted(db, <<ini, decl.rtname>>, decl, sig, used)
  PROVE  /\ Shape(db') /\ SigsExact(db') /\ db'.res = db.res /\ db'.sigs = db.sigs \union {sig}
         /\ DOMAIN db'.assets = DOMAIN db.assets \union {<<ini, decl.rtname>>}
         /\ db'.assets[<<ini, decl.rtname>>] = sig
         /\ \A a \in DOMAIN db.assets : db'.assets[a] = db.assets[a]
<1>1. PICK asset : asset = <<ini, decl.rtname>>
  OBVIOUS
<1>2. asset[1] = ini /\ asset \in Assets /\ asset \notin DOMAIN db.assets /\ asset \notin Files
  BY <1>1, TextsAssumption DEF Assets
<1> DEFINE needs == {asset[1]} \union used \union ({decl.src} \ {NoSource})
<1>3. /\ DOMAIN db' = Tables /\ db'.res = db.res /\ db'.sigs = db.sigs \union {sig}
      /\ db'.assets = With(db.assets, asset, sig)
      /\ db'.depends = db.depends \union {<<asset, x>> : x \in needs}
  BY <1>1 DEF Inserted, Shape, Tables
<1>4. /\ DOMAIN db'.assets = DOMAIN db.assets \union {asset}
      /\ db'.assets[asset] = sig
      /\ \A a \in DOMAIN db.assets : db'.assets[a] = db.assets[a]
  <2>1. db'.assets = With(db.assets, asset, sig)
    BY <1>3
  <2> QED
    BY ONLY <1>2, <2>1 DEF With
<1>5. /\ \A x \in needs : x \in Files \/ x \in used
      /\ \A x \in used : x \in needs /\ x \in Assets /\ x # asset
      /\ ini \in needs /\ ini \in Files
  BY <1>2, BuilderAssumption, TextsAssumption DEF Shape
<1> HIDE DEF needs
<1>6. \A e : e \in db'.depends <=> e \in db.depends \/ \E x \in needs : e = <<asset, x>>
  BY <1>3
<1>7. /\ db.depends \in SUBSET (Nodes \X Nodes) /\ DOMAIN db.res \subseteq Files /\ DOMAIN db.assets \subseteq Assets
      /\ \A e \in db.depends : /\ e[1] \in Files => e[2] \in Files
                               /\ e[1] \in Assets => e[1] \in DOMAIN db.assets
                               /\ e[2] \in Assets => e[2] \in DOMAIN db.assets
  BY DEF Shape
<1>8. \A x : <<asset, x>>[1] = asset /\ <<asset, x>>[2] = x
  OBVIOUS
<1>9. db'.depends \in SUBSET (Nodes \X Nodes)
  <2>1. \A x \in needs : <<asset, x>> \in Nodes \X Nodes
    BY <1>2, <1>5 DEF Nodes
  <2> QED
    BY <1>6, <1>7, <2>1
<1>10. \A e \in db'.depends : /\ e[1] \in Files => e[2] \in Files
                              /\ e[1] \in Assets => e[1] \in DOMAIN db'.assets
                              /\ e[2] \in Assets => e[2] \in DOMAIN db'.assets
  BY <1>2, <1>4, <1>5, <1>6, <1>7, <1>8, TextsAssumption
<1>11. ASSUME NEW a \in DOMAIN db'.assets
       PROVE  /\ a[1] \in DOMAIN db'.res /\ <<a, a[1]>> \in db'.depends
              /\ \A b \in Assets : b \in db'.assets[a].used <=> <<a, b>> \in db'.depends
              /\ db'.assets[a].used \subseteq Assets
  <2>1. CASE a = asset
    <3>1. <<a, a[1]>> \in db'.depends
      BY <1>2, <1>5, <1>6, <2>1
    <3>2. ASSUME NEW b \in Assets PROVE b \in used <=> <<a, b>> \in db'.depends
      <4>1. <<a, b>> \notin db.depends
        BY <1>2, <1>7, <1>8, <2>1
      <4>2. <<a, b>> \in db'.depends <=> b \in needs
        BY <1>6, <1>8, <2>1, <4>1
      <4>3. b \notin Files
        BY TextsAssumption
      <4> QED
        BY <1>5, <4>2, <4>3
    <3> QED
      BY <1>2, <1>3, <1>4, <1>5, <2>1, <3>1, <3>2
  <2>2. CASE a # asset
    <3>1. a \in DOMAIN db.assets /\ db'.assets[a] = db.assets[a]
      BY <1>4, <2>2
    <3>2. /\ a[1] \in DOMAIN db.res /\ <<a, a[1]>> \in db.depends
          /\ \A b \in Assets : b \in db.assets[a].used <=> <<a, b>> \in db.depends
          /\ db.assets[a].used \subseteq Assets
      BY <3>1 DEF Shape
    <3>3. \A b : <<a, b>> \in db'.depends <=> <<a, b>> \in db.depends
      BY <1>6, <2>2
    <3> QED
      BY <1>3, <3>1, <3>2, <3>3
  <2> QED
    BY <2>1, <2>2
<1>12. Shape(db')
  <2>1. DOMAIN db' = Tables /\ DOMAIN db'.res \subseteq Files /\ DOMAIN db'.assets \subseteq Assets
    BY <1>2, <1>3, <1>4, <1>7
  <2> QED
    BY <1>9, <1>10, <1>11, <2>1 DEF Shape
<1>13. SigsExact(db')
  BY <1>3, <1>4 DEF SigsExact
<1> QED
  BY <1>1, <1>3, <1>4, <1>12, <1>13

(* A declaration is built (build_begin, build_exe): its asset is new, so   *)
(* no other stands on it yet.                                              *)
LEMMA MakeAssetGood ==
  ASSUME BuilderInv, MakeAsset
  PROVE  BuilderInv'
<1> DEFINE fr == [Top EXCEPT !.declare = Tail(@), !.res = <<>>]
<1>1. /\ Declaring /\ phase = "build" /\ job.stack # <<>> /\ Accepted(db, Decl)
      /\ db' = Inserted(db, Asset, Decl, Sig, Used)
      /\ bin' = (IF Sig \in db.sigs THEN bin ELSE With(bin, Sig, MadeOf(db, Decl)))
      /\ job' = [Stacked(fr) EXCEPT !.touched = With(@, Asset, Sig)]
      /\ UNCHANGED <<files, clock, backup, phase, updated, outcome, hasDb>>
  BY DEF MakeAsset, Ready, Declaring, Building
<1>2. FilesSound /\ Locals
  BY DEF BuilderInv
<1> HIDE DEF fr
<1>3. /\ DOMAIN job' = DOMAIN job /\ job'.first = job.first /\ job'.todo = job.todo
      /\ job'.stack = [job.stack EXCEPT ![Len(job.stack)] = fr]
      /\ job'.touched = With(job.touched, Asset, Sig)
  BY <1>1, <1>2 DEF Stacked, Locals
<1>4. FilesSound' /\ Locals'
  BY <1>1, <1>2, <1>3 DEF FilesSound, Locals
<1>5. CASE Spoilt
  BY <1>1, <1>3, <1>4, <1>5 DEF Spoilt, BuilderInv
<1>6. CASE Good
  <2>1. BackupGood /\ DbGood /\ StackGood /\ TouchedGood /\ FirstGood
    BY <1>1, <1>6 DEF Good
  <2>2. /\ Decl \in Declarations /\ Tail(Top.declare) \in Seq(Declarations)
        /\ Top \in BuildFrames /\ Top.ini \in Inis /\ Top.ini \in DOMAIN db.res
    BY <1>1, <2>1, DeclIs
  <2>3. Used \subseteq DOMAIN db.assets
    BY DEF Used, UsedBy, Named
  <2>4. Sig.used = Used
    BY DEF Sig, Signature
  <2>5. Asset = <<Top.ini, Decl.rtname>> /\ Asset \notin DOMAIN db.assets
    BY <1>1 DEF Asset, Accepted, Named
  <2>6. /\ Shape(db') /\ SigsExact(db') /\ db'.res = db.res /\ db'.sigs = db.sigs \union {Sig}
        /\ DOMAIN db'.assets = DOMAIN db.assets \union {Asset}
        /\ db'.assets[Asset] = Sig
        /\ \A a \in DOMAIN db.assets : db'.assets[a] = db.assets[a]
    <3>1. Shape(db) /\ SigsExact(db)
      BY <2>1 DEF DbGood
    <3>2. db' = Inserted(db, <<Top.ini, Decl.rtname>>, Decl, Sig, Used)
      BY <1>1, <2>5
    <3> HIDE DEF Top, Decl, Sig, Used, Asset
    <3> QED
      BY <2>2, <2>3, <2>4, <2>5, <3>1, <3>2, InsertedIs
  <2>7. ~outcome.undone \/ ~outcome.failed => DOMAIN bin' = DOMAIN bin \union {Sig}
    <3>1. CASE Sig \in db.sigs
      BY <1>1, <2>1, <3>1 DEF DbGood
    <3>2. CASE Sig \notin db.sigs
      <4>1. bin' = With(bin, Sig, MadeOf(db, Decl))
        BY <1>1, <3>2
      <4> QED
        BY <4>1 DEF With
    <3> QED
      BY <3>1, <3>2
  <2>8. DbGood'
    <3>1. Timed(db', clock) /\ (outcome.quiet => Current(db', files))
      <4>1. Timed(db, clock) /\ (outcome.quiet => Current(db, files))
        BY <2>1 DEF DbGood
      <4>2. db'.res = db.res
        BY <2>6
      <4> QED
        BY <4>1, <4>2 DEF Timed, Current
    <3>2. ~outcome.undone => db'.sigs \subseteq DOMAIN bin'
      BY <2>1, <2>6, <2>7 DEF DbGood
    <3>3. ~outcome.failed => DOMAIN bin' = db'.sigs
      BY <2>1, <2>6, <2>7 DEF DbGood
    <3> QED
      BY <1>1, <2>6, <3>1, <3>2, <3>3 DEF DbGood
  <2>9. BackupGood'
    BY <1>1, <2>1, <2>7 DEF BackupGood, LostAreStale
  <2>10. StackGood'
    <3>1. Len(job.stack) \in Nat /\ 1 <= Len(job.stack) /\ job.stack \in Seq(BuildFrames)
      BY <1>1, <2>1, TopIs DEF StackGood
    <3>2. fr \in BuildFrames /\ fr.ini = Top.ini
      <4>1. <<>> \in RowsOfSources
        BY DEF RowsOfSources
      <4> QED
        BY <2>2, <4>1 DEF BuildFrames, fr
    <3>3. /\ job'.stack \in Seq(BuildFrames) /\ Len(job'.stack) = Len(job.stack)
          /\ \A k \in 1..Len(job.stack) : job'.stack[k] = IF k = Len(job.stack) THEN fr ELSE job.stack[k]
      BY <1>3, <3>1, <3>2
    <3>4. job'.todo \subseteq Inis /\ DOMAIN db'.res = DOMAIN db.res
      BY <1>3, <2>1, <2>6 DEF StackGood
    <3>5. \A k \in 1..Len(job.stack) : job.stack[k].ini \in DOMAIN db.res
      BY <2>1 DEF StackGood
    <3>6. \A k \in 1..Len(job.stack) - 1 : job.stack[k].include # <<>>
      BY <2>1 DEF StackGood
    <3>7. \A k \in 1..Len(job'.stack) : job'.stack[k].ini \in DOMAIN db'.res
      BY <2>2, <3>2, <3>3, <3>4, <3>5
    <3>8. \A k \in 1..Len(job'.stack) - 1 : job'.stack[k].include # <<>>
      <4>1. \A k \in 1..Len(job.stack) - 1 : k \in 1..Len(job.stack) /\ k # Len(job.stack)
        BY <3>1
      <4> QED
        BY <3>3, <3>6, <4>1
    <3> QED
      BY <3>3, <3>4, <3>7, <3>8 DEF StackGood
  <2>11. TouchedGood'
    <3>1. /\ DOMAIN job'.touched = DOMAIN job.touched \union {Asset} /\ job'.touched[Asset] = Sig
          /\ \A a \in DOMAIN job.touched : a # Asset => job'.touched[a] = job.touched[a]
      <4>1. job'.touched = With(job.touched, Asset, Sig)
        BY <1>3
      <4> QED
        BY <4>1 DEF With
    <3>2. /\ \A a \in DOMAIN job.touched : a \in DOMAIN db.assets /\ job.touched[a] = db.assets[a]
          /\ \A a \in DOMAIN db.assets : \/ a \in DOMAIN job.touched
                                         \/ a \in DOMAIN backup.assets /\ backup.assets[a] = db.assets[a]
      BY <2>1 DEF TouchedGood
    <3>3. \A a \in DOMAIN job'.touched : a \in DOMAIN db'.assets /\ job'.touched[a] = db'.assets[a]
      BY <2>5, <2>6, <3>1, <3>2
    <3>4. \A a \in DOMAIN db'.assets : \/ a \in DOMAIN job'.touched
                                       \/ a \in DOMAIN backup.assets /\ backup.assets[a] = db'.assets[a]
      BY <2>6, <3>1, <3>2
    <3>5. backup' = backup
      BY <1>1
    <3> QED
      BY <3>3, <3>4, <3>5 DEF TouchedGood
  <2>12. FirstGood'
    BY <1>1, <1>3, <2>1 DEF FirstGood
  <2> QED
    BY <1>1, <1>4, <2>8, <2>9, <2>10, <2>11, <2>12 DEF Good, BuilderInv
<1> QED
  BY <1>5, <1>6 DEF BuilderInv

(* A build that cannot go on.                                              *)
LEMMA AbandonGood ==
  ASSUME BuilderInv, phase = "build", NEW left, Abandon(left)
  PROVE  BuilderInv'
<1>1. /\ db' = (IF job.first THEN left ELSE backup)
      /\ phase' = "idle" /\ job' = NoJob
      /\ outcome' = [outcome EXCEPT !.failed = TRUE]
      /\ UNCHANGED <<files, clock, backup, bin, updated, hasDb>>
  BY DEF Abandon
<1>2. FilesSound /\ Locals
  BY DEF BuilderInv
<1>3. /\ outcome'.failed = TRUE /\ outcome'.ok = outcome.ok /\ outcome'.quiet = outcome.quiet
      /\ outcome'.complete = outcome.complete /\ outcome'.undone = outcome.undone
      /\ DOMAIN outcome' = DOMAIN outcome
  BY <1>1, <1>2 DEF Locals
<1>4. FilesSound' /\ Locals'
  BY <1>1, <1>2, <1>3 DEF FilesSound, Locals, NoJob
<1>5. CASE Spoilt
  <2>1. Spoilt'
    BY <1>1, <1>3, <1>5 DEF Spoilt
  <2> QED
    BY <1>4, <2>1 DEF BuilderInv
<1>6. CASE Good
  <2>1. BackupGood /\ FirstGood /\ ~outcome.ok
    BY <1>6 DEF Good, FirstGood
  <2>2. CASE job.first
    <3>1. Spoilt'
      BY <1>1, <1>3, <2>1, <2>2 DEF FirstGood, Spoilt
    <3> QED
      BY <1>4, <3>1 DEF BuilderInv
  <2>3. CASE ~job.first
    <3>1. db' = backup
      BY <1>1, <2>3
    <3>2. IdleGood'
      BY <1>1, <1>3, <2>1, <3>1 DEF BackupGood, IdleGood
    <3>3. FirstGood'
      BY <1>1, <1>3, <2>1 DEF FirstGood
    <3> QED
      BY <1>1, <1>4, <3>2, <3>3 DEF Good, BuilderInv
  <2> QED
    BY <2>2, <2>3
<1> QED
  BY <1>5, <1>6 DEF BuilderInv

(* A file that is not there or does not parse ends the build.              *)
LEMMA NoFileGood ==
  ASSUME BuilderInv, NoFile
  PROVE  BuilderInv'
<1>1. phase = "build" /\ Abandon(db)
  BY DEF NoFile, Building
<1> QED
  BY <1>1, AbandonGood

(* So does a source that includes too many.                                *)
LEMMA TooManyNestedGood ==
  ASSUME BuilderInv, TooManyNested
  PROVE  BuilderInv'
<1>1. phase = "build"
  BY DEF TooManyNested, Needing, Declaring, Building
<1>2. \E left : Abandon(left)
  BY DEF TooManyNested
<1> QED
  BY <1>1, <1>2, AbandonGood

(* So does a declaration that is refused, whatever it has inserted.        *)
LEMMA NoAssetGood ==
  ASSUME BuilderInv, NoAsset
  PROVE  BuilderInv'
<1>1. phase = "build"
  BY DEF NoAsset, Ready, Declaring, Building
<1>2. \E left : Abandon(left)
  BY DEF NoAsset
<1> QED
  BY <1>1, <1>2, AbandonGood

-----------------------------------------------------------------------------
(* The end of a build.                                                     *)

(* An asset that needs only assets with the signatures they had needs the  *)
(* assets it needed.                                                       *)
LEMMA SameContent ==
  ASSUME NEW d, NEW b, Shape(d), Shape(b), NEW a \in DOMAIN d.assets,
         \A x \in Needs(d.depends, {a}) : x \in DOMAIN d.assets =>
           x \in DOMAIN b.assets /\ b.assets[x] = d.assets[x]
  PROVE  Content(d, a) = Content(b, a)
<1>1. /\ d.depends \in SUBSET (Nodes \X Nodes) /\ b.depends \in SUBSET (Nodes \X Nodes)
      /\ a \in Assets /\ a \in Nodes
      /\ DOMAIN d.assets \subseteq Assets /\ DOMAIN b.assets \subseteq Assets
  BY DEF Shape, Nodes
<1> DEFINE R == Needs(d.depends, {a})
           Q == Needs(b.depends, {a})
<1>2. IsReached(R, d.depends, {a}) /\ IsReached(Q, b.depends, {a})
  BY <1>1, NeedsIs
<1>3. \A x \in R : x \in DOMAIN d.assets => x \in DOMAIN b.assets /\ b.assets[x] = d.assets[x]
  OBVIOUS
<1>4. Content(d, a) = {<<x, d.assets[x]>> : x \in R \intersect DOMAIN d.assets}
  BY DEF Content
<1>5. Content(b, a) = {<<x, b.assets[x]>> : x \in Q \intersect DOMAIN b.assets}
  BY DEF Content
<1> HIDE DEF R, Q
<1>6. \A n \in Nodes : n \notin Files <=> n \in Assets
  BY TextsAssumption DEF Nodes
<1>7. ASSUME NEW x \in DOMAIN d.assets, x \in DOMAIN b.assets, d.assets[x] = b.assets[x], NEW y \in Assets
      PROVE  <<x, y>> \in d.depends <=> <<x, y>> \in b.depends
  BY <1>7 DEF Shape
<1>8. R \subseteq {n \in R : n \in Assets => n \in DOMAIN d.assets /\ n \in Q}
  <2> DEFINE X == {n \in R : n \in Assets => n \in DOMAIN d.assets /\ n \in Q}
  <2>1. {a} \subseteq X
    BY <1>2 DEF IsReached
  <2>2. ASSUME NEW e \in d.depends, e[1] \in X PROVE e[2] \in X
    <3>1. e[1] \in Nodes /\ e[2] \in Nodes /\ e = <<e[1], e[2]>>
      BY <1>1
    <3>2. e[1] \in R /\ e[2] \in R
      BY <1>2, <2>2 DEF IsReached, Follows
    <3>3. ASSUME e[2] \in Assets PROVE e[2] \in DOMAIN d.assets /\ e[2] \in Q
      <4>1. e[2] \in DOMAIN d.assets /\ e[1] \in Assets
        BY <1>6, <3>1, <3>3 DEF Shape
      <4>2. e[1] \in DOMAIN d.assets /\ e[1] \in Q
        BY <2>2, <4>1
      <4>3. <<e[1], e[2]>> \in b.depends
        BY <1>3, <1>7, <3>1, <3>2, <3>3, <4>2
      <4>4. e \in b.depends
        BY <3>1, <4>3
      <4> QED
        BY <1>2, <4>1, <4>2, <4>4 DEF IsReached, Follows
    <3> QED
      BY <3>2, <3>3
  <2> HIDE DEF X
  <2>3. Follows(d.depends, X)
    BY <2>2 DEF Follows
  <2>4. R \subseteq X
    BY <1>2, <2>1, <2>3 DEF IsReached
  <2> QED
    BY <2>4 DEF X
<1>9. Q \subseteq {n \in Nodes : n \in Assets => n \in R}
  <2> DEFINE Y == {n \in Nodes : n \in Assets => n \in R}
  <2>1. {a} \subseteq Y
    BY <1>1, <1>2 DEF IsReached
  <2>2. ASSUME NEW e \in b.depends, e[1] \in Y PROVE e[2] \in Y
    <3>1. e[1] \in Nodes /\ e[2] \in Nodes /\ e = <<e[1], e[2]>>
      BY <1>1
    <3>2. ASSUME e[2] \in Assets PROVE e[2] \in R
      <4>1. e[1] \in Assets
        BY <1>6, <3>1, <3>2 DEF Shape
      <4>2. e[1] \in R /\ e[1] \in DOMAIN d.assets
        BY <1>8, <2>2, <4>1
      <4>3. <<e[1], e[2]>> \in d.depends
        BY <1>3, <1>7, <3>1, <3>2, <4>2
      <4>4. e \in d.depends
        BY <3>1, <4>3
      <4> QED
        BY <1>2, <4>2, <4>4 DEF IsReached, Follows
    <3> QED
      BY <3>1, <3>2
  <2> HIDE DEF Y
  <2>3. Follows(b.depends, Y)
    BY <2>2 DEF Follows
  <2>4. Q \subseteq Y
    BY <1>2, <2>1, <2>3 DEF IsReached
  <2> QED
    BY <2>4 DEF Y
<1>10. R \intersect DOMAIN d.assets = Q \intersect DOMAIN b.assets
  BY <1>1, <1>3, <1>8, <1>9
<1>11. \A x \in R \intersect DOMAIN d.assets : b.assets[x] = d.assets[x]
  BY <1>3
<1> QED
  BY <1>4, <1>5, <1>10, <1>11

(* The assets found to be updated are those whose content is not what it   *)
(* was.                                                                    *)
LEMMA UpdatedIs ==
  ASSUME NEW d, Shape(d), Shape(backup),
         \A a \in DOMAIN job.touched : a \in DOMAIN d.assets /\ job.touched[a] = d.assets[a],
         \A a \in DOMAIN d.assets : \/ a \in DOMAIN job.touched
                                    \/ a \in DOMAIN backup.assets /\ backup.assets[a] = d.assets[a]
  PROVE  Exact(UpdatedAssets(d), d, backup)
<1> DEFINE new == {a \in DOMAIN job.touched :
                     a \in DOMAIN backup.assets => backup.assets[a] # job.touched[a]}
<1>1. UpdatedAssets(d) = Users(d.depends, new) \intersect DOMAIN d.assets
  BY DEF UpdatedAssets
<1>2. /\ \A x \in DOMAIN d.assets :
           x \notin new => x \in DOMAIN backup.assets /\ backup.assets[x] = d.assets[x]
      /\ \A x \in new : /\ x \in DOMAIN d.assets
                        /\ x \in DOMAIN backup.assets => backup.assets[x] # d.assets[x]
  OBVIOUS
<1> HIDE DEF new
<1>3. /\ d.depends \in SUBSET (Nodes \X Nodes) /\ DOMAIN d.assets \subseteq Nodes /\ new \in SUBSET Nodes
  BY <1>2 DEF Shape, Nodes
<1>4. ASSUME NEW a \in DOMAIN d.assets
      PROVE  a \in Users(d.depends, new) <=> \E x \in new : x \in Needs(d.depends, {a})
  BY <1>3, UsersOfOne, UsersOfNeeds
<1>5. ASSUME NEW a \in DOMAIN d.assets, a \in DOMAIN backup.assets, Content(d, a) = Content(backup, a),
             NEW x \in new, x \in Needs(d.depends, {a})
      PROVE  FALSE
  <2>1. <<x, d.assets[x]>> \in Content(d, a)
    BY <1>2, <1>5 DEF Content
  <2>2. <<x, d.assets[x]>> \in Content(backup, a)
    BY <1>5, <2>1
  <2>3. PICK y \in DOMAIN backup.assets : <<x, d.assets[x]>> = <<y, backup.assets[y]>>
    BY <2>2 DEF Content
  <2> QED
    BY <1>2, <2>3
<1>6. ASSUME NEW a \in DOMAIN d.assets, \A x \in new : x \notin Needs(d.depends, {a})
      PROVE  a \in DOMAIN backup.assets /\ Content(d, a) = Content(backup, a)
  <2>1. \A x \in Needs(d.depends, {a}) : x \in DOMAIN d.assets =>
          x \in DOMAIN backup.assets /\ backup.assets[x] = d.assets[x]
    BY <1>2, <1>6
  <2>2. a \in Needs(d.depends, {a})
    BY <1>3, NeedsIs DEF IsReached
  <2> QED
    BY <2>1, <2>2, SameContent
<1>7. \A a : a \in UpdatedAssets(d) <=>
        a \in DOMAIN d.assets /\ (a \in DOMAIN backup.assets => Content(d, a) # Content(backup, a))
  BY <1>1, <1>4, <1>5, <1>6
<1> QED
  BY <1>7 DEF Exact

(* The end of a successful build.                                          *)
LEMMA FinishGood ==
  ASSUME BuilderInv, Finish
  PROVE  BuilderInv'
<1>1. /\ phase = "build" /\ phase' = "idle" /\ job' = NoJob
      /\ db' = CleanUp(db, job.oldRes)
      /\ updated' = (IF job.first THEN {} ELSE UpdatedAssets(CleanUp(db, job.oldRes)))
      /\ outcome' = [outcome EXCEPT !.ok = TRUE, !.complete = @ \/ job.first]
      /\ UNCHANGED <<files, clock, backup, bin, hasDb>>
  BY DEF Finish
<1>2. FilesSound /\ Locals
  BY DEF BuilderInv
<1>3. /\ outcome'.failed = outcome.failed /\ outcome'.ok = TRUE /\ outcome'.quiet = outcome.quiet
      /\ outcome'.complete = (outcome.complete \/ job.first) /\ outcome'.undone = outcome.undone
      /\ DOMAIN outcome' = DOMAIN outcome
  BY <1>1, <1>2 DEF Locals
<1>4. FilesSound' /\ Locals'
  BY <1>1, <1>2, <1>3 DEF FilesSound, Locals, NoJob
<1>5. CASE Spoilt
  <2>1. hasDb /\ ~outcome.complete /\ ~job.first
    BY <1>1, <1>5 DEF Spoilt
  <2>2. Spoilt'
    BY <1>1, <1>3, <2>1 DEF Spoilt
  <2> QED
    BY <1>4, <2>2 DEF BuilderInv
<1>6. CASE Good
  <2>1. BackupGood /\ DbGood /\ TouchedGood /\ FirstGood
    BY <1>1, <1>6 DEF Good
  <2>2. Shape(db) /\ DOMAIN db = Tables
    BY <2>1 DEF DbGood, Shape
  <2>3. PICK D \in SUBSET Files : Minus(db', db, D) /\ Enters(db.depends, D)
    BY <1>1, <2>2, CleanUpIs
  <2>4. Shape(db')
    BY <2>2, <2>3, MinusShape
  <2>5. /\ DOMAIN db'.res \subseteq DOMAIN db.res /\ \A f \in DOMAIN db'.res : db'.res[f] = db.res[f]
        /\ DOMAIN db'.assets = DOMAIN db.assets /\ \A a \in DOMAIN db.assets : db'.assets[a] = db.assets[a]
        /\ db'.sigs = db.sigs
    <3>1. DOMAIN db.assets \intersect D = {}
      BY <2>2, TextsAssumption DEF Shape
    <3> QED
      BY <2>3, <3>1 DEF Minus
  <2>6. Timed(db', clock) /\ SigsExact(db') /\ (outcome.quiet => Current(db', files))
    <3>1. Timed(db, clock) /\ SigsExact(db)
      BY <2>1 DEF DbGood
    <3>2. Timed(db', clock)
      BY <2>5, <3>1 DEF Timed
    <3>3. SigsExact(db')
      BY <2>5, <3>1 DEF SigsExact
    <3>4. ASSUME outcome.quiet PROVE Current(db', files)
      BY <2>1, <2>5, <3>4 DEF DbGood, Current
    <3> QED
      BY <3>2, <3>3, <3>4
  <2>7. /\ ~outcome.undone => db'.sigs \subseteq DOMAIN bin
        /\ ~outcome.failed => DOMAIN bin = db'.sigs
    BY <2>1, <2>5 DEF DbGood
  <2>8. ~outcome.undone => LostAreStale(db', files, DOMAIN bin)
    <3>1. \A a \in DOMAIN db'.assets : db'.assets[a] \in db'.sigs
      BY <2>6 DEF SigsExact
    <3> QED
      BY <2>7, <3>1 DEF LostAreStale
  <2>9. backup = EmptyDb \/ Exact(updated', db', backup)
    <3>1. CASE job.first
      BY <1>1, <2>1, <3>1 DEF FirstGood
    <3>2. CASE ~job.first
      <4>1. updated' = UpdatedAssets(db')
        BY <1>1, <3>2
      <4>2. /\ \A a \in DOMAIN job.touched : a \in DOMAIN db'.assets /\ job.touched[a] = db'.assets[a]
            /\ \A a \in DOMAIN db'.assets : \/ a \in DOMAIN job.touched
                                            \/ a \in DOMAIN backup.assets /\ backup.assets[a] = db'.assets[a]
        BY <2>1, <2>5 DEF TouchedGood
      <4>3. Shape(backup)
        BY <2>1 DEF BackupGood
      <4> QED
        BY <2>4, <4>1, <4>2, <4>3, UpdatedIs
    <3> QED
      BY <3>1, <3>2
  <2>10. IdleGood'
    BY <1>1, <1>3, <2>4, <2>6, <2>7, <2>8, <2>9 DEF IdleGood
  <2>11. FirstGood'
    BY <1>1, <1>3, <2>1 DEF FirstGood
  <2> QED
    BY <1>1, <1>4, <2>10, <2>11 DEF Good, BuilderInv
<1> QED
  BY <1>5, <1>6 DEF BuilderInv

-----------------------------------------------------------------------------
(* Every step keeps the invariant, whoever drives the builder.             *)
LEMMA StutterGood ==
  ASSUME BuilderInv, UNCHANGED builderVars
  PROVE  BuilderInv'
<1>1. /\ files' = files /\ clock' = clock /\ db' = db /\ backup' = backup /\ bin' = bin /\ phase' = phase
      /\ job' = job /\ updated' = updated /\ outcome' = outcome /\ hasDb' = hasDb
  BY DEF builderVars
<1>2. FilesSound' /\ Locals' /\ FirstGood' = FirstGood /\ (Spoilt => Spoilt')
  BY <1>1 DEF BuilderInv, FilesSound, Locals, FirstGood, Spoilt
<1>3. \A D : ScannedBut(D) => ScannedBut(D)'
  BY <1>1 DEF ScannedBut
<1>4. ScanGood => ScanGood'
  BY <1>1, <1>3 DEF ScanGood
<1>5. (IdleGood => IdleGood') /\ (BackupGood => BackupGood') /\ (DbGood => DbGood')
  BY <1>1 DEF IdleGood, BackupGood, DbGood
<1>6. (StackGood => StackGood') /\ (TouchedGood => TouchedGood')
  BY <1>1 DEF StackGood, TouchedGood
<1>7. Good => Good'
  BY <1>1, <1>2, <1>4, <1>5, <1>6 DEF Good
<1> QED
  BY <1>2, <1>7 DEF BuilderInv

(* Every step of the builder keeps the invariant.                          *)
LEMMA StepGood ==
  ASSUME BuilderInv, [BuilderNext]_builderVars
  PROVE  BuilderInv'
<1>1. ASSUME NEW f \in Files, Change(f) PROVE BuilderInv'
  BY <1>1, ChangeGood
<1>2. CASE Begin
  BY <1>2, BeginGood
<1>3. CASE ScanRow
  BY <1>3, ScanRowGood
<1>4. CASE DropSignatures
  BY <1>4, DropGood
<1>5. CASE NextIni
  BY <1>5, NextIniGood
<1>6. CASE ParseIni
  BY <1>6, ParseIniGood
<1>7. CASE Include
  BY <1>7, IncludeGood
<1>8. CASE NeedResource
  BY <1>8, NeedResourceGood
<1>9. CASE MakeAsset
  BY <1>9, MakeAssetGood
<1>10. CASE CloseIni
  BY <1>10, CloseIniGood
<1>11. CASE NoFile
  BY <1>11, NoFileGood
<1>12. CASE NoAsset \/ TooManyNested
  BY <1>12, NoAssetGood, TooManyNestedGood
<1>13. CASE Finish
  BY <1>13, FinishGood
<1>14. CASE UNCHANGED builderVars
  BY <1>14, StutterGood
<1> QED
  BY <1>1, <1>2, <1>3, <1>4, <1>5, <1>6, <1>7, <1>8, <1>9, <1>10, <1>11, <1>12, <1>13, <1>14
  DEF BuilderNext

(* What the invariant says of a database at rest.                          *)
LEMMA RestGood ==
  ASSUME BuilderInv, AtRest
  PROVE  IdleGood /\ hasDb
BY DEF BuilderInv, AtRest, Spoilt, Good, FirstGood

(* The three properties of a database at rest follow.                      *)
LEMMA RestIsSettled ==
  ASSUME BuilderInv
  PROVE  QuietBuildSettles /\ FilesBuilt /\ UpdatedExactly
<1> SUFFICES ASSUME AtRest
             PROVE  QuietBuildSettles /\ FilesBuilt /\ UpdatedExactly
  BY DEF QuietBuildSettles, FilesBuilt, UpdatedExactly
<1>1. IdleGood /\ hasDb /\ outcome.ok
  BY RestGood DEF AtRest
<1>2. QuietBuildSettles
  BY <1>1 DEF QuietBuildSettles, NothingChanged, IdleGood, Current
<1>3. FilesBuilt
  <2>1. db.sigs = Range(db.assets)
    BY <1>1 DEF IdleGood, SigsExact, Range
  <2>2. /\ ~outcome.undone => db.sigs \subseteq DOMAIN bin
        /\ ~outcome.failed => DOMAIN bin = db.sigs
    BY <1>1 DEF IdleGood
  <2> QED
    BY <2>1, <2>2 DEF FilesBuilt
<1>4. UpdatedExactly
  BY <1>1 DEF UpdatedExactly, IdleGood, Exact
<1> QED
  BY <1>2, <1>3, <1>4
-----------------------------------------------------------------------------
(* The theorems.                                                           *)

(* BuilderInv is an invariant of the builder, whoever calls it.            *)
THEOREM BuilderKeeps == BuilderSpec => []BuilderInv
<1>1. BuilderInv /\ [BuilderNext]_builderVars => BuilderInv'
  BY StepGood
<1> QED
  BY <1>1, InitGood, PTL DEF BuilderSpec

(* What the thread of the monitor does to the builder is what the builder  *)
(* does: the other steps of Monitor (events, connections, notifications)   *)
(* leave it alone.                                                         *)
LEMMA MonitorStepBuilds == [MonitorNext]_allVars => [BuilderNext]_builderVars
<1> SUFFICES ASSUME [MonitorNext]_allVars PROVE BuilderNext \/ UNCHANGED builderVars
  OBVIOUS
<1>1. CASE FirstBuild \/ TimerFires
  BY <1>1 DEF FirstBuild, TimerFires, BuilderNext
<1>2. CASE BuildStep
  BY <1>2 DEF BuildStep, BuilderNext
<1>3. CASE GivesUp \/ Watch \/ Restart
  BY <1>3 DEF GivesUp, Watch, Restart
<1>4. CASE Wait \/ HandleEvent \/ EventsHandled
  BY <1>4 DEF Wait, HandleEvent, EventsHandled
<1>5. CASE Rebuilt \/ AssertFails \/ Send \/ NextUid \/ AllSent
  BY <1>5 DEF Rebuilt, AssertFails, Send, NextUid, AllSent
<1>6. ASSUME NEW f \in Files, Write(f) PROVE BuilderNext
  BY <1>6 DEF Write, BuilderNext
<1>7. CASE UNCHANGED allVars
  BY <1>7 DEF allVars
<1> QED
  BY <1>1, <1>2, <1>3, <1>4, <1>5, <1>6, <1>7 DEF MonitorNext, MonitorThread

(* Every behaviour of the monitor is one of the builder, so what holds of  *)
(* the builder holds under run and priv_build of gosAsset2Monitor.cpp.     *)
THEOREM MonitorBuilds == MonitorSpec => BuilderSpec
<1>1. MonitorInit => BuilderInit
  BY DEF MonitorInit
<1> QED
  BY <1>1, MonitorStepBuilds, PTL DEF MonitorSpec, BuilderSpec

(* A successful build during which no file changed leaves no row of the    *)
(* database behind its file (priv_resource_scan_DB).                       *)
THEOREM BuildsSettle == MonitorSpec => []QuietBuildSettles
BY MonitorBuilds, BuilderKeeps, RestIsSettled, PTL

(* After a successful build the signatures are those of the assets.        *)
(* Unless a build has failed the files are theirs and no others, whatever  *)
(* times the files of the project have; after a failure each signature has *)
(* its file, as long as no file that had changed has got back the time of  *)
(* its row (signature_is_still_in_use, the compilers).                     *)
THEOREM BuildsLeaveTheirFiles == MonitorSpec => []FilesBuilt
BY MonitorBuilds, BuilderKeeps, RestIsSettled, PTL

(* The list of updated assets is that of the assets that are new or stand, *)
(* at any depth, on one whose signature is not what it was                 *)
(* (build_result_list).                                                    *)
THEOREM BuildsTellWhatChanged == MonitorSpec => []UpdatedExactly
BY MonitorBuilds, BuilderKeeps, RestIsSettled, PTL
-----------------------------------------------------------------------------
(* The watcher.  Its descriptor is open only while the thread waits or     *)
(* handles events, and nothing is owed while it is closed.                 *)
WatchSound ==
  /\ waiting \in SUBSET Clients /\ live \in SUBSET Clients
  /\ events \in Seq(Clients \union {"fsw"})
  /\ at # "events" => events = <<>>
  /\ open \in BOOLEAN /\ (open <=> at \in {"loop", "events"})
  /\ ~open => owed = {}
  /\ SeenChangesAreOwed

(* Every descriptor that is ready is among the events.                     *)
LEMMA AllReadyAreEvents ==
  ASSUME NEW ready, IsFiniteSet(ready), NEW evs \in SetToSeqs(ready)
  PROVE  /\ evs \in Seq(ready) /\ ToSet(evs) = ready
         /\ \A i, j \in 1 .. Len(evs) : evs[i] = evs[j] => i = j
<1> DEFINE D == 1 .. Cardinality(ready)
<1>1. Cardinality(ready) \in Nat /\ IsFiniteSet(D) /\ Cardinality(D) = Cardinality(ready)
  BY FS_CardinalityType, FS_Interval, SMT
<1>2. evs \in [D -> ready] /\ \A i, j \in D : i # j => evs[i] # evs[j]
  BY DEF SetToSeqs
<1>3. evs \in Injection(D, ready)
  BY <1>2 DEF Injection, IsInjective
<1>4. evs \in Surjection(D, ready)
  BY <1>1, <1>3, FS_Injection
<1>5. evs \in Seq(ready) /\ Len(evs) = Cardinality(ready)
  BY <1>1, <1>2
<1>6. ToSet(evs) = {evs[i] : i \in D}
  BY <1>1, <1>5 DEF ToSet
<1>7. \A y \in ready : \E i \in D : evs[i] = y
  BY <1>4 DEF Surjection
<1> QED
  BY <1>2, <1>5, <1>6, <1>7

(* The watcher at the start.                                               *)
LEMMA WatchInit == MonitorInit => WatchSound
<1>1. <<>> \in Seq(Clients \union {"fsw"})
  OBVIOUS
<1> QED
  BY <1>1 DEF MonitorInit, WatchSound, SeenChangesAreOwed

(* A wait empties the descriptor of the watcher only into its events.      *)
LEMMA WaitKeeps == WatchSound /\ Wait => WatchSound'
<1> SUFFICES ASSUME WatchSound, Wait PROVE WatchSound'
  OBVIOUS
<1>1. PICK data \in SUBSET live, c \in waiting \union {0} :
        /\ events' \in SetToSeqs((IF queued # {} THEN {"fsw"} ELSE {}) \union data)
        /\ IF c = 0 THEN UNCHANGED <<waiting, live, list, number>> ELSE Connects(c)
  BY DEF Wait
<1> DEFINE ready == (IF queued # {} THEN {"fsw"} ELSE {}) \union data
<1>2. IsFiniteSet(data)
  BY MonitorAssumption, FS_Subset DEF WatchSound
<1>3. IsFiniteSet({"fsw"}) /\ IsFiniteSet({})
  BY FS_Singleton, FS_EmptySet
<1>4. IsFiniteSet(ready)
  BY <1>2, <1>3, FS_Union
<1>5. events' \in Seq(ready) /\ ToSet(events') = ready
  BY <1>1, <1>4, AllReadyAreEvents
<1>6. ready \subseteq Clients \union {"fsw"}
  BY DEF WatchSound
<1>7. events' \in Seq(Clients \union {"fsw"})
  BY <1>5, <1>6
<1>8. waiting' \in SUBSET Clients /\ live' \in SUBSET Clients
  BY <1>1 DEF WatchSound, Connects
<1>9. /\ at = "loop" /\ queued' = {} /\ at' = "events"
      /\ open' = open /\ timer' = timer /\ owed' = owed
  BY DEF Wait
<1>10. ToSet(events) = {}
  BY <1>9 DEF WatchSound, ToSet
<1>11. SeenChangesAreOwed'
  BY <1>5, <1>9, <1>10 DEF WatchSound, SeenChangesAreOwed
<1> QED
  BY <1>7, <1>8, <1>9, <1>11 DEF WatchSound

(* An event of the watcher that is handled sets the timer.                 *)
LEMMA HandleEventKeeps == WatchSound /\ HandleEvent => WatchSound'
<1> SUFFICES ASSUME WatchSound, HandleEvent PROVE WatchSound'
  OBVIOUS
<1>1. /\ at = "events" /\ events # <<>> /\ at' = at /\ events' = Tail(events)
      /\ open' = open /\ owed' = owed /\ waiting' = waiting /\ queued' = queued
  BY DEF HandleEvent
<1>2. events' \in Seq(Clients \union {"fsw"})
  BY <1>1 DEF WatchSound
<1>3. ToSet(events) \subseteq {Head(events)} \union ToSet(events')
  <2>1. events \in Seq(Clients \union {"fsw"})
    BY DEF WatchSound
  <2>2. Len(events) \in Nat /\ Len(events) > 0 /\ Len(Tail(events)) = Len(events) - 1
    BY <1>1, <2>1
  <2>3. ASSUME NEW i \in 1 .. Len(events), i # 1
        PROVE  i - 1 \in 1 .. Len(Tail(events)) /\ Tail(events)[i - 1] = events[i]
    <3>1. i \in Nat /\ 1 <= i - 1 /\ i - 1 <= Len(events) - 1
      BY <2>2, <2>3
    <3>2. i - 1 \in 1 .. Len(Tail(events)) /\ i - 1 + 1 = i
      BY <2>2, <3>1
    <3> QED
      BY <1>1, <2>1, <3>2, HeadTailProperties
  <2>4. ASSUME NEW i \in 1 .. Len(events) PROVE events[i] \in {Head(events)} \union ToSet(Tail(events))
    <3>1. CASE i = 1
      BY <1>1, <2>1, <3>1
    <3>2. CASE i # 1
      <4>1. PICK tail : tail = Tail(events) /\ tail \in Seq(Clients \union {"fsw"})
        BY <1>1, <2>1
      <4>2. DOMAIN tail = 1 .. Len(tail)
        BY <4>1
      <4>3. \A j \in DOMAIN tail : tail[j] \in ToSet(tail)
        BY DEF ToSet
      <4> QED
        BY <2>3, <3>2, <4>1, <4>2, <4>3
    <3> QED
      BY <3>1, <3>2
  <2>5. ToSet(events) = {events[i] : i \in 1 .. Len(events)}
    BY DEF ToSet
  <2> QED
    BY <1>1, <2>4, <2>5
<1>4. live' \in SUBSET Clients
  BY DEF WatchSound, HandleEvent, Dies
<1>5. timer' = TRUE \/ (Head(events) # "fsw" /\ timer' = timer)
  BY DEF HandleEvent
<1>6. SeenChangesAreOwed'
  BY <1>1, <1>3, <1>5 DEF WatchSound, SeenChangesAreOwed
<1> QED
  BY <1>1, <1>2, <1>4, <1>6 DEF WatchSound

(* inotify reports a change only while the descriptor is open.             *)
LEMMA WriteKeeps == ASSUME NEW f \in Files, WatchSound, Write(f) PROVE WatchSound'
<1>1. PICK reported : /\ queued' = queued \union reported /\ owed' = owed \union reported
                      /\ ~open => reported = {}
  BY DEF Write
<1>2. at' = at /\ open' = open /\ timer' = timer /\ waiting' = waiting /\ live' = live /\ events' = events
  BY DEF Write, serverVars
<1> QED
  BY <1>1, <1>2 DEF WatchSound, SeenChangesAreOwed

(* The steps that do not touch the events.                                 *)
LEMMA OthersKeep ==
  ASSUME WatchSound,
         \/ FirstBuild \/ BuildStep \/ GivesUp \/ Watch \/ TimerFires \/ Restart
         \/ EventsHandled \/ Rebuilt \/ AssertFails \/ Send \/ NextUid \/ AllSent
         \/ UNCHANGED allVars
  PROVE  WatchSound'
<1> USE DEF WatchSound, SeenChangesAreOwed
<1>1. CASE FirstBuild
  BY <1>1 DEF FirstBuild, serverVars
<1>2. CASE BuildStep
  BY <1>2 DEF BuildStep, monitorVars, serverVars
<1>3. CASE GivesUp
  BY <1>3 DEF GivesUp, serverVars
<1>4. CASE Watch
  BY <1>4 DEF Watch, serverVars
<1>5. CASE TimerFires
  BY <1>5 DEF TimerFires, serverVars
<1>6. CASE Restart
  BY <1>6 DEF Restart
<1>7. CASE EventsHandled
  BY <1>7 DEF EventsHandled, serverVars
<1>8. CASE Rebuilt
  BY <1>8 DEF Rebuilt, serverVars
<1>9. CASE Send
  BY <1>9 DEF Send, Dies, monitorVars
<1>10. CASE NextUid
  BY <1>10 DEF NextUid, monitorVars, serverVars
<1>11. CASE AllSent
  BY <1>11 DEF AllSent, serverVars
<1>12. CASE UNCHANGED allVars
  BY <1>12 DEF allVars, monitorVars, serverVars
<1>13. CASE AssertFails
  BY <1>13 DEF AssertFails, serverVars
<1> QED
  BY <1>1, <1>2, <1>3, <1>4, <1>5, <1>6, <1>7, <1>8, <1>9, <1>10, <1>11, <1>12, <1>13

(* Every step of the monitor.                                              *)
LEMMA WatchStep ==
  ASSUME WatchSound, [MonitorNext]_allVars
  PROVE  WatchSound'
<1>1. ASSUME NEW f \in Files, Write(f) PROVE WatchSound'
  BY <1>1, WriteKeeps
<1>2. CASE Wait
  BY <1>2, WaitKeeps
<1>3. CASE HandleEvent
  BY <1>3, HandleEventKeeps
<1> QED
  BY <1>1, <1>2, <1>3, OthersKeep DEF MonitorNext, MonitorThread

(* A change inotify has reported is queued, among the events of the last   *)
(* wait, or the timer runs, until a build begins after it: closing the     *)
(* descriptor and clearing the timer lose nothing (run, priv_build).       *)
THEOREM ChangesAreOwed == MonitorSpec => []SeenChangesAreOwed
<1>1. WatchSound /\ [MonitorNext]_allVars => WatchSound'
  BY WatchStep
<1>2. WatchSound => SeenChangesAreOwed
  BY DEF WatchSound
<1> QED
  BY <1>1, <1>2, WatchInit, PTL DEF MonitorSpec
-----------------------------------------------------------------------------
(* What a client was told.  Sifted keeps what is not in X, in order.       *)
IsSifting(h, k, s, X) ==
  h = [n \in 0..k |-> IF n = 0 THEN <<>> ELSE IF s[n] \in X THEN h[n - 1] ELSE Append(h[n - 1], s[n])]

(* The recursion of Sifted is well founded.                                *)
LEMMA SiftingExists ==
  ASSUME NEW s, NEW X, NEW k \in Nat
  PROVE  \E h : IsSifting(h, k, s, X)
<1> DEFINE Wrong == {n \in Nat : ~\E h : IsSifting(h, n, s, X)}
<1>1. Wrong = {}
  <2> SUFFICES ASSUME Wrong # {} PROVE FALSE
    OBVIOUS
  <2>1. PICK n \in Wrong : \A j \in Wrong : n <= j
    <3>1. Wrong \in SUBSET Nat
      OBVIOUS
    <3> HIDE DEF Wrong
    <3> QED
      BY <3>1, LeastExists
  <2>2. n \in Nat /\ ~\E h : IsSifting(h, n, s, X)
    BY <2>1
  <2> DEFINE Turn(f, x) == IF x = 0 THEN <<>> ELSE IF s[x] \in X THEN f[x - 1] ELSE Append(f[x - 1], s[x])
  <2>3. n # 0
    <3> DEFINE h == [x \in 0..0 |-> <<>>]
    <3>1. h = [x \in 0..0 |-> Turn(h, x)]
      OBVIOUS
    <3> QED
      BY <2>2, <3>1 DEF IsSifting
  <2>4. PICK h : IsSifting(h, n - 1, s, X)
    <3>1. n - 1 \in Nat /\ ~(n <= n - 1)
      BY <2>2, <2>3
    <3>2. n - 1 \notin Wrong
      BY <2>1, <3>1
    <3> HIDE DEF Wrong
    <3> QED
      BY <3>1, <3>2 DEF Wrong
  <2>5. h = [x \in 0..(n - 1) |-> Turn(h, x)]
    BY <2>4, Zenon DEF IsSifting
  <2> DEFINE g == [x \in 0..n |-> Turn(h, x)]
  <2>6. \A x \in 0..n : x # 0 => x - 1 \in 0..(n - 1) /\ x - 1 \in 0..n
    BY <2>2
  <2>7. \A x \in 0..(n - 1) : x \in 0..n
    BY <2>2
  <2>8. \A x \in 0..(n - 1) : g[x] = h[x]
    <3> HIDE DEF Turn
    <3> QED
      BY <2>5, <2>7
  <2>9. \A x \in 0..n : Turn(g, x) = Turn(h, x)
    <3> HIDE DEF g
    <3> QED
      BY <2>6, <2>8
  <2>10. g = [x \in 0..n |-> Turn(g, x)]
    <3> HIDE DEF Turn
    <3> QED
      BY <2>9
  <2>11. IsSifting(g, n, s, X)
    <3> HIDE DEF g
    <3> QED
      BY <2>10, Zenon DEF IsSifting
  <2> QED
    BY <2>2, <2>11
<1> QED
  BY <1>1

(* Sifted is what that recursion ends with.                                *)
LEMMA SiftedIs ==
  ASSUME NEW s, Len(s) \in Nat, NEW X
  PROVE  \E h : IsSifting(h, Len(s), s, X) /\ Sifted(s, X) = h[Len(s)]
<1> DEFINE L == Len(s)
           w == CHOOSE h : h = [n \in 0..L |-> IF n = 0 THEN <<>> ELSE IF s[n] \in X THEN h[n - 1] ELSE Append(h[n - 1], s[n])]
<1>1. Sifted(s, X) = w[L]
  BY DEF Sifted
<1>2. IsSifting(w, L, s, X)
  <2>1. \E h : h = [n \in 0..L |-> IF n = 0 THEN <<>> ELSE IF s[n] \in X THEN h[n - 1] ELSE Append(h[n - 1], s[n])]
    <3>1. PICK h : IsSifting(h, L, s, X)
      BY SiftingExists
    <3>2. h = [n \in 0..L |-> IF n = 0 THEN <<>> ELSE IF s[n] \in X THEN h[n - 1] ELSE Append(h[n - 1], s[n])]
      BY <3>1, Zenon DEF IsSifting
    <3> QED
      BY <3>2, Zenon
  <2>2. w = [n \in 0..L |-> IF n = 0 THEN <<>> ELSE IF s[n] \in X THEN w[n - 1] ELSE Append(w[n - 1], s[n])]
    <3> HIDE DEF L
    <3> QED
      BY <2>1, Zenon
  <2> HIDE DEF w, L
  <2> QED
    BY <2>2, Zenon DEF IsSifting
<1> HIDE DEF w
<1> QED
  BY <1>1, <1>2

(* Two turns that see the same agree.                                      *)
LEMMA SiftingsAgree ==
  ASSUME NEW k \in Nat, NEW m \in Nat, k <= m, NEW s, NEW t, NEW X, \A n \in 1..k : s[n] = t[n],
         NEW h, NEW g, IsSifting(h, k, s, X), IsSifting(g, m, t, X)
  PROVE  h[k] = g[k]
<1> DEFINE Wrong == {n \in Nat : n <= k /\ h[n] # g[n]}
<1>1. Wrong = {}
  <2> SUFFICES ASSUME Wrong # {} PROVE FALSE
    OBVIOUS
  <2>1. PICK n \in Wrong : \A j \in Wrong : n <= j
    <3>1. Wrong \in SUBSET Nat
      OBVIOUS
    <3> HIDE DEF Wrong
    <3> QED
      BY <3>1, LeastExists
  <2>2. n \in Nat /\ n <= k /\ h[n] # g[n] /\ n \in 0..k /\ n \in 0..m
    BY <2>1
  <2>3. h[n] = IF n = 0 THEN <<>> ELSE IF s[n] \in X THEN h[n - 1] ELSE Append(h[n - 1], s[n])
    BY <2>2 DEF IsSifting
  <2>4. g[n] = IF n = 0 THEN <<>> ELSE IF t[n] \in X THEN g[n - 1] ELSE Append(g[n - 1], t[n])
    BY <2>2 DEF IsSifting
  <2>5. n # 0
    BY <2>2, <2>3, <2>4
  <2>6. n - 1 \in Nat /\ n - 1 <= k /\ ~(n <= n - 1) /\ n \in 1..k
    BY <2>2, <2>5
  <2>7. n - 1 \notin Wrong
    BY <2>1, <2>6
  <2>8. h[n - 1] = g[n - 1] /\ s[n] = t[n]
    BY <2>6, <2>7
  <2> QED
    BY <2>2, <2>3, <2>4, <2>5, <2>8
<1> QED
  BY <1>1

(* Nothing is left of nothing.                                             *)
LEMMA SiftedEmpty == ASSUME NEW X PROVE Sifted(<<>>, X) = <<>>
<1>1. Len(<<>>) = 0 /\ Len(<<>>) \in Nat
  OBVIOUS
<1>2. PICK h : IsSifting(h, 0, <<>>, X) /\ Sifted(<<>>, X) = h[0]
  BY <1>1, SiftedIs
<1> QED
  BY <1>2 DEF IsSifting

(* One element more.                                                       *)
LEMMA SiftedAppend ==
  ASSUME NEW S, NEW s \in Seq(S), NEW e \in S, NEW X
  PROVE  Sifted(Append(s, e), X) = IF e \in X THEN Sifted(s, X) ELSE Append(Sifted(s, X), e)
<1>1. PICK k \in Nat : k = Len(s)
  OBVIOUS
<1>2. PICK t : t = Append(s, e)
  OBVIOUS
<1>3. PICK m \in Nat : /\ Len(t) = m /\ m = k + 1 /\ m # 0 /\ m - 1 = k
                      /\ t[m] = e /\ \A n \in 1..k : s[n] = t[n]
  BY <1>1, <1>2, AppendProperties
<1>4. PICK h : IsSifting(h, k, s, X) /\ Sifted(s, X) = h[k]
  BY <1>1, SiftedIs
<1>5. PICK g : IsSifting(g, m, t, X) /\ Sifted(t, X) = g[m]
  BY <1>3, SiftedIs
<1>6. h[k] = g[k]
  BY <1>3, <1>4, <1>5, SiftingsAgree
<1>7. g[m] = IF e \in X THEN g[k] ELSE Append(g[k], e)
  <2>1. m \in 0..m
    OBVIOUS
  <2>2. g[m] = IF m = 0 THEN <<>> ELSE IF t[m] \in X THEN g[m - 1] ELSE Append(g[m - 1], t[m])
    BY <1>5, <2>1 DEF IsSifting
  <2> QED
    BY <1>3, <2>2
<1> QED
  BY <1>2, <1>4, <1>5, <1>6, <1>7

(* Sifting by less first changes nothing.                                  *)
LEMMA SiftedTwice ==
  ASSUME NEW S, NEW X, NEW Y, X \subseteq Y, NEW seq \in Seq(S)
  PROVE  Sifted(Sifted(seq, X), Y) = Sifted(seq, Y)
<1> DEFINE Right(s) == Sifted(s, X) \in Seq(S) /\ Sifted(Sifted(s, X), Y) = Sifted(s, Y)
           Wrong == {n \in Nat : \E s \in Seq(S) : Len(s) = n /\ ~Right(s)}
<1>1. Wrong = {}
  <2> SUFFICES ASSUME Wrong # {} PROVE FALSE
    OBVIOUS
  <2>1. PICK n \in Wrong : \A j \in Wrong : n <= j
    <3>1. Wrong \in SUBSET Nat
      OBVIOUS
    <3> HIDE DEF Wrong
    <3> QED
      BY <3>1, LeastExists
  <2>2. PICK s \in Seq(S) : n \in Nat /\ Len(s) = n /\ ~Right(s)
    BY <2>1
  <2> HIDE DEF Right
  <2>3. CASE n = 0
    <3>1. s = <<>>
      BY <2>2, <2>3
    <3>2. <<>> \in Seq(S) /\ Sifted(<<>>, X) = <<>> /\ Sifted(<<>>, Y) = <<>>
      BY SiftedEmpty
    <3> QED
      BY <2>2, <3>1, <3>2 DEF Right
  <2>4. CASE n # 0
    <3>1. PICK f \in Seq(S), e \in S : s = Append(f, e) /\ Len(f) = n - 1
      <4>1. SubSeq(s, 1, n - 1) \in Seq(S) /\ Len(SubSeq(s, 1, n - 1)) = n - 1 /\ s[n] \in S
        BY <2>2, <2>4
      <4>2. s = Append(SubSeq(s, 1, n - 1), s[n])
        BY <2>2, <2>4
      <4> QED
        BY <4>1, <4>2
    <3>2. n - 1 \in Nat /\ ~(n <= n - 1)
      BY <2>2, <2>4
    <3>3. Right(f)
      BY <2>1, <3>1, <3>2
    <3>4. PICK x : x = Sifted(f, X) /\ x \in Seq(S) /\ Sifted(x, Y) = Sifted(f, Y)
      BY <3>3 DEF Right
    <3>5. /\ Sifted(s, X) = IF e \in X THEN x ELSE Append(x, e)
          /\ Sifted(s, Y) = IF e \in Y THEN Sifted(f, Y) ELSE Append(Sifted(f, Y), e)
          /\ Sifted(Append(x, e), Y) = IF e \in Y THEN Sifted(x, Y) ELSE Append(Sifted(x, Y), e)
      <4>0. x \in Seq(S)
        BY <3>4
      <4>1. Sifted(Append(f, e), X) = IF e \in X THEN Sifted(f, X) ELSE Append(Sifted(f, X), e)
        BY SiftedAppend
      <4>2. Sifted(Append(f, e), Y) = IF e \in Y THEN Sifted(f, Y) ELSE Append(Sifted(f, Y), e)
        BY SiftedAppend
      <4>3. Sifted(Append(x, e), Y) = IF e \in Y THEN Sifted(x, Y) ELSE Append(Sifted(x, Y), e)
        BY <4>0, SiftedAppend
      <4> QED
        BY <3>1, <3>4, <4>1, <4>2, <4>3
    <3>6. Append(x, e) \in Seq(S)
      BY <3>4
    <3>7. CASE e \in X
      BY <2>2, <3>4, <3>5, <3>7 DEF Right
    <3>8. CASE e \notin X
      BY <2>2, <3>4, <3>5, <3>6, <3>8 DEF Right
    <3> QED
      BY <3>7, <3>8
  <2> QED
    BY <2>3, <2>4
<1> HIDE DEF Right
<1>2. \A s \in Seq(S) : Len(s) \in Nat
  OBVIOUS
<1>3. \A s \in Seq(S) : Right(s)
  BY <1>1, <1>2
<1> QED
  BY <1>3 DEF Right

(* What agrees without X agrees without more.                              *)
LEMMA SiftedMore ==
  ASSUME NEW S, NEW s \in Seq(S), NEW t \in Seq(S), NEW X, NEW Y, X \subseteq Y,
         Sifted(s, X) = Sifted(t, X)
  PROVE  Sifted(s, Y) = Sifted(t, Y)
<1>1. ASSUME NEW r \in Seq(S) PROVE Sifted(Sifted(r, X), Y) = Sifted(r, Y)
  BY SiftedTwice
<1> QED
  BY <1>1
-----------------------------------------------------------------------------
(* The list of clients: its first elements are those that live, each once. *)
ListSound ==
  /\ number \in Nat /\ list \in Seq(Clients) /\ number <= Len(list)
  /\ \A c : c \in live <=> \E k \in 1..number : list[k] = c
  /\ \A j, k \in 1..number : list[j] = list[k] => j = k
  /\ waiting \in SUBSET Clients /\ waiting \intersect live = {}

(* A connection whose events are under way lives, and is met once.         *)
EventsSound ==
  /\ events \in Seq(Clients \union {"fsw"})
  /\ \A k \in 1..Len(events) : events[k] # "fsw" => events[k] \in live
  /\ \A j, k \in 1..Len(events) : events[j] = events[k] => j = k

(* The list t is that of the clients and c.                                *)
Lengthened(t, c) ==
  /\ t \in Seq(Clients) /\ number + 1 <= Len(t) /\ t[number + 1] = c
  /\ \A k \in 1..number : t[k] = list[k]

(* A new client goes after the others, over what was left there.           *)
LEMMA AppendedIs ==
  ASSUME ListSound, NEW c \in Clients
  PROVE  Lengthened(Appended(c), c)
<1>t. PICK t : t = Appended(c)
  OBVIOUS
<1>1. PICK m \in Nat : m = Len(list)
  BY DEF ListSound
<1>2. number \in Nat /\ number <= m /\ list \in Seq(Clients) /\ \A k \in 1..m : list[k] \in Clients
  BY <1>1 DEF ListSound
<1>3. PICK a : a = SubSeq(list, 1, number)
  OBVIOUS
<1>4. a \in Seq(Clients) /\ Len(a) = number /\ \A k \in 1..number : a[k] = list[k]
  BY <1>2, <1>3
<1>5. PICK z : z = SubSeq(list, number + 2, Len(list))
  OBVIOUS
<1>6. z \in Seq(Clients)
  BY <1>1, <1>2, <1>5
<1>7. PICK b : b = a \o <<c>> /\ b = Append(a, c)
  BY <1>4, AppendIsConcat
<1>8. /\ b \in Seq(Clients) /\ Len(b) = number + 1 /\ b[number + 1] = c
      /\ \A k \in 1..number : b[k] = list[k]
  BY <1>2, <1>4, <1>7, AppendProperties
<1>9. t = b \o z
  BY <1>3, <1>5, <1>7, <1>t DEF Appended
<1>b. b \in Seq(Clients)
  BY <1>8
<1>10. /\ b \o z \in Seq(Clients) /\ Len(b \o z) = Len(b) + Len(z)
       /\ \A k \in 1 .. Len(b) + Len(z) : (b \o z)[k] = IF k <= Len(b) THEN b[k] ELSE z[k - Len(b)]
  BY <1>6, <1>b, ConcatProperties, Zenon
<1>11. t \in Seq(Clients) /\ Len(t) = number + 1 + Len(z) /\ Len(z) \in Nat
  BY <1>6, <1>8, <1>9, <1>10
<1>c. \A k \in 1..number + 1 : t[k] = b[k]
  <2>1. \A k \in 1..number + 1 : k \in 1 .. Len(b) + Len(z) /\ k <= Len(b)
    BY <1>2, <1>8, <1>11
  <2> QED
    BY <1>9, <1>10, <2>1, Zenon
<1>12. number + 1 <= Len(t)
  BY <1>2, <1>11
<1>13. number + 1 \in 1..number + 1 /\ \A k \in 1..number : k \in 1..number + 1
  BY <1>2
<1> QED
  BY <1>8, <1>11, <1>12, <1>13, <1>c, <1>t DEF Lengthened

(* A connection is of one that has not connected.                          *)
LEMMA ConnectsKeeps ==
  ASSUME ListSound, NEW c \in waiting, Connects(c)
  PROVE  ListSound' /\ live \subseteq live'
<1>1. /\ waiting' = waiting \ {c}
      /\ \/ live' = live \union {c} /\ list' = Appended(c) /\ number' = number + 1
         \/ UNCHANGED <<live, list, number>>
  BY DEF Connects
<1>2. CASE UNCHANGED <<live, list, number>>
  BY <1>1, <1>2 DEF ListSound
<1>3. CASE live' = live \union {c} /\ list' = Appended(c) /\ number' = number + 1
  <2>1. c \in Clients /\ c \notin live /\ number \in Nat
    BY DEF ListSound
  <2>2. PICK t : t = Appended(c)
    OBVIOUS
  <2>3. /\ t \in Seq(Clients) /\ number + 1 <= Len(t) /\ t[number + 1] = c
        /\ \A k \in 1..number : t[k] = list[k]
    BY <2>1, <2>2, AppendedIs DEF Lengthened
  <2>4. \A k \in 1..number + 1 : k \in 1..number \/ k = number + 1
    BY <2>1
  <2>5. number + 1 \in 1..number + 1 /\ number + 1 \in Nat /\ \A k \in 1..number : k \in 1..number + 1
    BY <2>1
  <2>6. \A x : x \in live \union {c} <=> \E k \in 1..number + 1 : t[k] = x
    BY <2>3, <2>4, <2>5 DEF ListSound
  <2>7. \A k \in 1..number : t[k] # c
    BY <2>1, <2>3 DEF ListSound
  <2>8. \A j, k \in 1..number + 1 : t[j] = t[k] => j = k
    BY <2>3, <2>4, <2>7 DEF ListSound
  <2>9. waiting \ {c} \in SUBSET Clients /\ (waiting \ {c}) \intersect (live \union {c}) = {}
    BY DEF ListSound
  <2> QED
    BY <1>1, <1>3, <2>2, <2>3, <2>5, <2>6, <2>8, <2>9 DEF ListSound
<1> QED
  BY <1>1, <1>2, <1>3

(* A client that dies leaves the others in the list, each once.            *)
LEMMA DiesKeeps ==
  ASSUME ListSound, NEW c \in live, Dies(c), waiting' = waiting
  PROVE  /\ ListSound' /\ Len(list') = Len(list) /\ number' = number - 1
         /\ live' = live \ {c}
<1>1. PICK i \in 1..number :
        /\ list[i] = c
        /\ list' = [j \in 1 .. Len(list) |-> IF j \in i .. number - 1 THEN list[j + 1] ELSE list[j]]
  <2> DEFINE i == CHOOSE j \in 1..number : list[j] = c
  <2>1. \E j \in 1..number : list[j] = c
    BY DEF ListSound
  <2>2. i \in 1..number /\ list[i] = c
    BY <2>1
  <2>3. list' = [j \in 1 .. Len(list) |-> IF j \in i .. number - 1 THEN list[j + 1] ELSE list[j]]
    BY DEF Dies
  <2> HIDE DEF i
  <2> QED
    BY <2>2, <2>3
<1>2. live' = live \ {c} /\ number' = number - 1
  BY DEF Dies
<1>3. PICK m \in Nat : m = Len(list)
  BY DEF ListSound
<1>4. /\ number \in Nat /\ number <= m /\ list \in Seq(Clients) /\ \A k \in 1..m : list[k] \in Clients
      /\ i \in Nat /\ 1 <= i /\ i <= number /\ number - 1 \in Nat /\ number - 1 <= m
  BY <1>1, <1>3 DEF ListSound
<1>5. PICK t : t = list'
  OBVIOUS
<1>6. \A j \in 1..m : t[j] = IF j \in i..number - 1 THEN list[j + 1] ELSE list[j]
  BY <1>1, <1>3, <1>5
<1>7. \A j \in i..number - 1 : j + 1 \in 1..m
  BY <1>4
<1>8. t \in [1..m -> Clients]
  <2>1. \A j \in 1..m : t[j] \in Clients
    BY <1>4, <1>6, <1>7
  <2>2. t = [j \in 1..m |-> t[j]]
    BY <1>1, <1>3, <1>5
  <2> QED
    BY <2>1, <2>2
<1>9. t \in Seq(Clients) /\ Len(t) = m
  BY <1>8
<1>10. /\ \A k \in 1..number - 1 : k < i => t[k] = list[k] /\ k \in 1..number /\ k # i
       /\ \A k \in 1..number - 1 : i <= k => t[k] = list[k + 1] /\ k + 1 \in 1..number /\ k + 1 # i
  BY <1>4, <1>6
<1>11. /\ \A k \in 1..number : k < i => k \in 1..number - 1
       /\ \A k \in 1..number : i < k => k - 1 \in 1..number - 1 /\ i <= k - 1 /\ k - 1 + 1 = k
  BY <1>4
<1>12. ASSUME NEW x PROVE x \in live \ {c} <=> \E k \in 1..number - 1 : t[k] = x
  <2>1. ASSUME x \in live \ {c} PROVE \E k \in 1..number - 1 : t[k] = x
    <3>1. PICK k \in 1..number : list[k] = x /\ k # i /\ k \in Nat
      BY <1>1, <1>4, <2>1 DEF ListSound
    <3>2. CASE k < i
      BY <1>10, <1>11, <3>1, <3>2
    <3>3. CASE i < k
      <4>1. k - 1 \in 1..number - 1 /\ t[k - 1] = list[k]
        BY <1>10, <1>11, <3>1, <3>3
      <4> QED
        BY <3>1, <4>1
    <3> QED
      BY <1>4, <3>1, <3>2, <3>3
  <2>2. ASSUME NEW k \in 1..number - 1, t[k] = x PROVE x \in live \ {c}
    <3>1. k \in Nat /\ (k < i \/ i <= k)
      BY <1>4, <2>2
    <3>2. \E j \in 1..number : j # i /\ list[j] = x
      BY <1>10, <2>2, <3>1
    <3> QED
      BY <1>1, <3>2 DEF ListSound
  <2> QED
    BY <2>1, <2>2
<1>13. ASSUME NEW j \in 1..number - 1, NEW k \in 1..number - 1, t[j] = t[k] PROVE j = k
  <2>1. j \in Nat /\ k \in Nat /\ (j < i \/ i <= j) /\ (k < i \/ i <= k)
    BY <1>4, <1>13
  <2>w. ASSUME NEW x \in 1..number - 1, x \in Nat
        PROVE  \E xx \in 1..number : t[x] = list[xx] /\ (x < i => xx = x) /\ (i <= x => xx = x + 1)
    <3>1. CASE x < i
      <4>1. t[x] = list[x] /\ x \in 1..number /\ ~(i <= x)
        BY <1>4, <1>10, <2>w, <3>1
      <4> QED
        BY <4>1
    <3>2. CASE i <= x
      <4>1. t[x] = list[x + 1] /\ x + 1 \in 1..number /\ ~(x < i)
        BY <1>4, <1>10, <2>w, <3>2
      <4> QED
        BY <4>1
    <3> QED
      BY <1>4, <2>w, <3>1, <3>2
  <2>2. PICK jj \in 1..number : /\ t[j] = list[jj] /\ (j < i => jj = j) /\ (i <= j => jj = j + 1)
    BY <2>1, <2>w
  <2>3. PICK kk \in 1..number : /\ t[k] = list[kk] /\ (k < i => kk = k) /\ (i <= k => kk = k + 1)
    BY <2>1, <2>w
  <2>4. jj = kk
    BY <1>13, <2>2, <2>3 DEF ListSound
  <2> QED
    BY <1>4, <2>1, <2>2, <2>3, <2>4
<1>14. waiting' \in SUBSET Clients /\ waiting' \intersect live' = {}
  BY <1>2 DEF ListSound
<1> QED
  BY <1>2, <1>3, <1>4, <1>5, <1>9, <1>12, <1>13, <1>14 DEF ListSound
-----------------------------------------------------------------------------
(* The list of updated assets is finite, in a spoilt database as well.     *)
Bounded(d) == DOMAIN d = Tables /\ IsFiniteSet(DOMAIN d.assets)
DbFinite == Bounded(db) /\ Bounded(backup) /\ IsFiniteSet(updated)

(* An empty database is bounded.                                           *)
LEMMA DbFiniteInit == BuilderInit => DbFinite
<1>1. IsFiniteSet({})
  BY FS_EmptySet
<1>2. DOMAIN EmptyDb = Tables /\ DOMAIN EmptyDb.assets = {}
  BY DEF EmptyDb, Tables
<1> QED
  BY <1>1, <1>2 DEF BuilderInit, DbFinite, Bounded

(* Tables other than that of the assets may change.                        *)
LEMMA SameAssetsBounded ==
  ASSUME NEW d, NEW t, Bounded(d), DOMAIN t = DOMAIN d, DOMAIN t.assets \subseteq DOMAIN d.assets
  PROVE  Bounded(t)
BY FS_Subset DEF Bounded

(* An asset is one more.                                                   *)
LEMMA InsertedBounded ==
  ASSUME NEW d, NEW asset, NEW decl, NEW sig, NEW used, Bounded(d)
  PROVE  Bounded(Inserted(d, asset, decl, sig, used))
<1>1. PICK t : t = Inserted(d, asset, decl, sig, used)
  OBVIOUS
<1>2. DOMAIN t = Tables /\ t.assets = With(d.assets, asset, sig)
  BY <1>1 DEF Inserted, Bounded, Tables
<1>3. PICK w : w = With(d.assets, asset, sig)
  OBVIOUS
<1>4. DOMAIN w = DOMAIN d.assets \union {asset}
  BY <1>3, WithIs
<1>5. IsFiniteSet(DOMAIN d.assets \union {asset})
  BY FS_AddElement DEF Bounded
<1> QED
  BY <1>1, <1>2, <1>3, <1>4, <1>5 DEF Bounded

(* Deletions leave fewer.                                                  *)
LEMMA MinusBounded ==
  ASSUME NEW d, NEW t, NEW D, Bounded(d), Minus(t, d, D)
  PROVE  Bounded(t)
BY SameAssetsBounded DEF Minus, Bounded

(* The steps that write rows of files and edges.                           *)
LEMMA RowsBounded ==
  ASSUME Bounded(db), NextIni \/ Include \/ NeedResource \/ CloseIni
  PROVE  Bounded(db')
<1>1. \A j, ini : OpenedBy(j, ini) => DOMAIN db' = DOMAIN db /\ db'.assets = db.assets
  BY DEF OpenedBy, Bounded, Tables
<1>2. \A i, j : DOMAIN Depending(db, i, j) = DOMAIN db /\ Depending(db, i, j).assets = db.assets
  BY DEF Depending, Bounded, Tables
<1>3. CASE NextIni
  BY <1>1, <1>3, SameAssetsBounded DEF NextIni
<1>4. CASE Include
  <2>1. \/ \E ini : OpenedBy(job, ini)
        \/ \E i, j : db' = Depending(db, i, j)
    BY <1>4 DEF Include
  <2> QED
    BY <1>1, <1>2, <2>1, SameAssetsBounded
<1>5. CASE NeedResource
  <2>1. \E res, depends : db' = [db EXCEPT !.res = res, !.depends = depends]
    BY <1>5 DEF NeedResource, WithRows
  <2>2. DOMAIN db' = DOMAIN db /\ db'.assets = db.assets
    BY <2>1 DEF Bounded, Tables
  <2> QED
    BY <2>2, SameAssetsBounded
<1>6. CASE CloseIni
  <2>1. db' = db \/ \E i, j : db' = Depending(db, i, j)
    BY <1>6 DEF CloseIni
  <2> QED
    BY <1>2, <2>1, SameAssetsBounded
<1> QED
  BY <1>3, <1>4, <1>5, <1>6

(* A build that is abandoned leaves what it made or the backup.            *)
LEMMA AbandonBounded ==
  ASSUME Bounded(db), Bounded(backup), NoFile \/ NoAsset \/ TooManyNested
  PROVE  Bounded(db') /\ backup' = backup /\ updated' = updated
<1>1. \A left : Abandon(left) => (db' = left \/ db' = backup) /\ backup' = backup /\ updated' = updated
  BY DEF Abandon
<1>2. CASE NoFile
  BY <1>1, <1>2 DEF NoFile
<1>3. CASE NoAsset
  <2>1. \/ Abandon(db)
        \/ \E some : Abandon(Inserted(db, Asset, Decl, Sig, some))
    BY <1>3 DEF NoAsset
  <2>2. \A some : Bounded(Inserted(db, Asset, Decl, Sig, some))
    BY InsertedBounded
  <2> QED
    BY <1>1, <2>1, <2>2
<1>4. CASE TooManyNested
  <2>1. PICK some, edges : Abandon(WithRows(db, some, edges))
    BY <1>4 DEF TooManyNested
  <2>2. PICK left : left = WithRows(db, some, edges)
    OBVIOUS
  <2>3. DOMAIN left = DOMAIN db /\ left.assets = db.assets
    BY <2>2 DEF WithRows, Bounded, Tables
  <2>4. Bounded(left)
    BY <2>3, SameAssetsBounded
  <2> QED
    BY <1>1, <2>1, <2>2, <2>4
<1> QED
  BY <1>2, <1>3, <1>4

(* A step of the builder.                                                  *)
LEMMA DbFiniteStep ==
  ASSUME DbFinite, [BuilderNext]_builderVars
  PROVE  DbFinite'
<1>0. Bounded(db) /\ Bounded(backup) /\ IsFiniteSet(updated)
  BY DEF DbFinite
<1>1. ASSUME NEW f \in Files, Change(f) PROVE DbFinite'
  BY <1>0, <1>1 DEF Change, DbFinite
<1>2. CASE Begin
  <2>1. db' = db /\ backup' = db /\ updated' = {}
    BY <1>2 DEF Begin
  <2>2. IsFiniteSet({})
    BY FS_EmptySet
  <2> QED
    BY <1>0, <2>1, <2>2 DEF DbFinite
<1>3. CASE ScanRow
  <2>1. /\ backup' = backup /\ updated' = updated
        /\ db' = db \/ \E S : db' = DeleteRows(db, S)
    BY <1>3 DEF ScanRow, Swept
  <2>2. \A S : Bounded(DeleteRows(db, S))
    BY <1>0, DeleteRowsIs, MinusBounded DEF Bounded
  <2> QED
    BY <1>0, <2>1, <2>2 DEF DbFinite
<1>4. CASE DropSignatures
  <2>1. /\ backup' = backup /\ updated' = updated
        /\ \E S : db' = DeleteSigs(db, S)
    BY <1>4 DEF DropSignatures
  <2>2. DOMAIN db' = DOMAIN db /\ db'.assets = db.assets
    BY <1>0, <2>1 DEF DeleteSigs, Bounded, Tables
  <2> QED
    BY <1>0, <2>1, <2>2, SameAssetsBounded DEF DbFinite
<1>5. CASE NextIni \/ Include \/ NeedResource \/ CloseIni
  <2>1. backup' = backup /\ updated' = updated
    BY <1>5 DEF NextIni, Include, NeedResource, CloseIni
  <2> QED
    BY <1>0, <1>5, <2>1, RowsBounded DEF DbFinite
<1>6. CASE ParseIni \/ UNCHANGED builderVars
  BY <1>0, <1>6 DEF ParseIni, builderVars, DbFinite
<1>7. CASE MakeAsset
  <2>1. /\ backup' = backup /\ updated' = updated
        /\ db' = Inserted(db, Asset, Decl, Sig, Used)
    BY <1>7 DEF MakeAsset
  <2> QED
    BY <1>0, <2>1, InsertedBounded DEF DbFinite
<1>8. CASE NoFile \/ NoAsset \/ TooManyNested
  BY <1>0, <1>8, AbandonBounded DEF DbFinite
<1>9. CASE Finish
  <2>1. PICK d : d = CleanUp(db, job.oldRes)
    OBVIOUS
  <2>2. Bounded(d)
    BY <1>0, <2>1, CleanUpIs, MinusBounded DEF Bounded
  <2>3. db' = d /\ backup' = backup /\ (updated' = {} \/ updated' \subseteq DOMAIN d.assets)
    BY <1>9, <2>1 DEF Finish, UpdatedAssets
  <2>4. IsFiniteSet({}) /\ IsFiniteSet(DOMAIN d.assets)
    BY <2>2, FS_EmptySet DEF Bounded
  <2>5. IsFiniteSet(updated')
    BY <2>3, <2>4, FS_Subset
  <2> QED
    BY <1>0, <2>2, <2>3, <2>5 DEF DbFinite
<1> QED
  BY <1>1, <1>2, <1>3, <1>4, <1>5, <1>6, <1>7, <1>8, <1>9 DEF BuilderNext

(* The list of the assets to tell of has each of them.                     *)
LEMMA UidlistIs ==
  ASSUME IsFiniteSet(updated)
  PROVE  Uidlist \in Seq(updated)
<1> DEFINE n == Cardinality(updated)
<1>1. n \in Nat /\ IsFiniteSet(1..n) /\ Cardinality(1..n) = n
  BY FS_CardinalityType, FS_Interval, SMT
<1>2. ExistsBijection(1..n, updated)
  BY FS_CardinalityType
<1>3. \E f \in [1..n -> updated] : IsInjective(f)
  BY <1>2 DEF ExistsBijection, Bijection, Injection, IsInjective
<1>4. Uidlist \in [1..n -> updated]
  BY <1>3 DEF Uidlist, SetToSeq
<1> QED
  BY <1>1, <1>4
-----------------------------------------------------------------------------
(* The list and the events along the steps of the monitor.  Before any     *)
(* connection both are empty.                                              *)
LEMMA ServerInit == MonitorInit => ListSound /\ EventsSound
<1>1. <<>> \in Seq(Clients) /\ <<>> \in Seq(Clients \union {"fsw"}) /\ Len(<<>>) = 0
  OBVIOUS
<1>2. \A k : k \notin 1..0
  OBVIOUS
<1> QED
  BY <1>1, <1>2 DEF MonitorInit, ListSound, EventsSound

(* A wait gives events of connections that live, each once.                *)
LEMMA WaitServer ==
  ASSUME WatchSound, ListSound, Wait
  PROVE  ListSound' /\ EventsSound'
<1>1. PICK data \in SUBSET live, c \in waiting \union {0} :
        /\ events' \in SetToSeqs((IF queued # {} THEN {"fsw"} ELSE {}) \union data)
        /\ IF c = 0 THEN UNCHANGED <<waiting, live, list, number>> ELSE Connects(c)
  BY DEF Wait
<1>2. PICK ready : ready = (IF queued # {} THEN {"fsw"} ELSE {}) \union data
  OBVIOUS
<1>3. IsFiniteSet(ready)
  <2>1. IsFiniteSet(data)
    BY MonitorAssumption, FS_Subset DEF WatchSound
  <2>2. IsFiniteSet({"fsw"}) /\ IsFiniteSet({})
    BY FS_Singleton, FS_EmptySet
  <2> QED
    BY <1>2, <2>1, <2>2, FS_Union
<1>4. PICK evs : evs = events' /\ evs \in SetToSeqs(ready)
  BY <1>1, <1>2
<1>5. /\ evs \in Seq(ready)
      /\ \A i, j \in 1 .. Len(evs) : evs[i] = evs[j] => i = j
  BY <1>3, <1>4, AllReadyAreEvents
<1>6. ListSound' /\ live \subseteq live'
  <2>1. CASE c = 0
    BY <1>1, <2>1 DEF ListSound
  <2>2. CASE c # 0
    BY <1>1, <2>2, ConnectsKeeps
  <2> QED
    BY <2>1, <2>2
<1>7. evs \in Seq(Clients \union {"fsw"})
  <2>1. ready \subseteq Clients \union {"fsw"}
    BY <1>2 DEF WatchSound
  <2> QED
    BY <1>5, <2>1
<1>8. \A k \in 1 .. Len(evs) : evs[k] # "fsw" => evs[k] \in live'
  <2>1. \A k \in 1 .. Len(evs) : evs[k] \in ready
    BY <1>5
  <2> QED
    BY <1>2, <1>6, <2>1
<1> QED
  BY <1>4, <1>5, <1>6, <1>7, <1>8 DEF EventsSound

(* An event is handled once, so the client it finds dead was alive, and    *)
(* the other events are of others.                                         *)
LEMMA HandleServer ==
  ASSUME ListSound, EventsSound, HandleEvent
  PROVE  ListSound' /\ EventsSound'
<1>1. /\ events # <<>> /\ events' = Tail(events) /\ waiting' = waiting
      /\ \/ UNCHANGED <<live, list, number>>
         \/ Head(events) # "fsw" /\ Dies(Head(events))
  BY DEF HandleEvent
<1>2. PICK n \in Nat : n = Len(events)
  BY DEF EventsSound
<1>3. PICK rest : rest = Tail(events)
  OBVIOUS
<1>4. /\ n # 0 /\ Head(events) = events[1]
      /\ rest \in Seq(Clients \union {"fsw"}) /\ Len(rest) = n - 1
      /\ \A k \in 1..n - 1 : rest[k] = events[k + 1]
  BY <1>1, <1>2, <1>3, EmptySeq, HeadTailProperties DEF EventsSound
<1>5. 1 \in 1..n /\ \A k \in 1..n - 1 : k + 1 \in 1..n /\ k + 1 # 1
  BY <1>4
<1>6. \A k \in 1..n - 1 : rest[k] # "fsw" => rest[k] \in live /\ rest[k] # Head(events)
  BY <1>2, <1>4, <1>5 DEF EventsSound
<1>7. \A j, k \in 1..n - 1 : rest[j] = rest[k] => j = k
  <2>1. \A j, k \in 1..n - 1 : j + 1 = k + 1 => j = k
    OBVIOUS
  <2> QED
    BY <1>2, <1>4, <1>5, <2>1 DEF EventsSound
<1>8. CASE UNCHANGED <<live, list, number>>
  BY <1>1, <1>3, <1>4, <1>6, <1>7, <1>8 DEF ListSound, EventsSound
<1>9. CASE Head(events) # "fsw" /\ Dies(Head(events))
  <2>1. Head(events) \in live
    BY <1>2, <1>4, <1>5, <1>9 DEF EventsSound
  <2>2. ListSound' /\ live' = live \ {Head(events)}
    BY <1>1, <1>9, <2>1, DiesKeeps
  <2> QED
    BY <1>1, <1>3, <1>4, <1>6, <1>7, <2>2 DEF EventsSound
<1> QED
  BY <1>1, <1>8, <1>9

(* A client may die while it is written to; no event is under way then.    *)
LEMMA SendServer ==
  ASSUME WatchSound, ListSound, Send
  PROVE  ListSound' /\ EventsSound'
<1>1. /\ events' = events /\ events = <<>> /\ waiting' = waiting
      /\ \/ UNCHANGED <<live, list, number>>
         \/ \E c \in live : Dies(c)
  BY DEF Send, WatchSound
<1>2. ListSound'
  <2>1. CASE UNCHANGED <<live, list, number>>
    BY <1>1, <2>1 DEF ListSound
  <2>2. CASE \E c \in live : Dies(c)
    BY <1>1, <2>2, DiesKeeps
  <2> QED
    BY <1>1, <2>1, <2>2
<1>3. EventsSound'
  <2>1. <<>> \in Seq(Clients \union {"fsw"}) /\ Len(<<>>) = 0 /\ \A k : k \notin 1..0
    OBVIOUS
  <2> QED
    BY <1>1, <2>1 DEF EventsSound
<1> QED
  BY <1>2, <1>3

(* Every step of the monitor.                                              *)
LEMMA ServerStep ==
  ASSUME WatchSound, ListSound, EventsSound, [MonitorNext]_allVars
  PROVE  ListSound' /\ EventsSound'
<1>1. CASE UNCHANGED <<waiting, live, list, number, events>>
  BY <1>1 DEF ListSound, EventsSound
<1>2. CASE Wait
  BY <1>2, WaitServer
<1>3. CASE HandleEvent
  BY <1>3, HandleServer
<1>4. CASE Send
  BY <1>4, SendServer
<1>5. CASE Restart
  <2>1. /\ live' = {} /\ list' = <<>> /\ number' = 0 /\ events' = <<>> /\ waiting' = waiting
    BY <1>5 DEF Restart
  <2>2. <<>> \in Seq(Clients) /\ <<>> \in Seq(Clients \union {"fsw"}) /\ Len(<<>>) = 0 /\ \A k : k \notin 1..0
    OBVIOUS
  <2> QED
    BY <2>1, <2>2 DEF ListSound, EventsSound
<1>6. CASE FirstBuild \/ BuildStep \/ GivesUp \/ Watch \/ TimerFires
  BY <1>1, <1>6 DEF FirstBuild, BuildStep, GivesUp, Watch, TimerFires, serverVars
<1>7. CASE EventsHandled \/ Rebuilt \/ AssertFails \/ NextUid \/ AllSent
  BY <1>1, <1>7 DEF EventsHandled, Rebuilt, AssertFails, NextUid, AllSent, serverVars
<1>8. ASSUME NEW f \in Files, Write(f) PROVE UNCHANGED <<waiting, live, list, number, events>>
  BY <1>8 DEF Write, serverVars
<1>9. CASE UNCHANGED allVars
  BY <1>1, <1>9 DEF allVars, serverVars
<1> QED
  BY <1>1, <1>2, <1>3, <1>4, <1>5, <1>6, <1>7, <1>8, <1>9 DEF MonitorNext, MonitorThread
-----------------------------------------------------------------------------
(* The notification.  Either every client was told what is done, and the   *)
(* asset under way is spoilt or there is none, or the clients before the   *)
(* index were told that asset too, and the list is as long as it was when  *)
(* its number was read.                                                    *)
Caught(done) ==
  /\ notice.uids = <<>> \/ Head(notice.uids) \in spoilt
  /\ \A c \in live : Sifted(told[c], spoilt) = Sifted(done, spoilt)
Halfway(done) ==
  /\ notice.uids # <<>> /\ number = notice.num
  /\ \A k \in 1..number : Sifted(told[list[k]], spoilt)
                          = Sifted(IF k <= notice.i THEN Append(done, Head(notice.uids)) ELSE done, spoilt)

(* done is what was sent of Uidlist.                                       *)
Sending(done) ==
  /\ notice \in [uids : Seq(updated), num : Nat, i : Nat]
  /\ notice.i <= notice.num /\ notice.num <= Len(list)
  /\ told \in [Clients -> Seq(updated)]
  /\ done \in Seq(updated) /\ Uidlist = done \o notice.uids
  /\ Caught(done) \/ Halfway(done)
TellingSound ==
  /\ at = "notify" => \E done : Sending(done)
  /\ EveryClientTold

(* The first of what is to send joins what was sent.                       *)
LEMMA HeadMoves ==
  ASSUME NEW S, NEW s \in Seq(S), NEW t \in Seq(S), t # <<>>
  PROVE  /\ Head(t) \in S /\ Tail(t) \in Seq(S)
         /\ Append(s, Head(t)) \in Seq(S) /\ Append(s, Head(t)) \o Tail(t) = s \o t
<1>1. PICK h, r : h = Head(t) /\ r = Tail(t) /\ h \in S /\ r \in Seq(S)
  BY HeadTailProperties
<1>2. t = <<h>> \o r
  BY <1>1
<1>3. Append(s, h) = s \o <<h>> /\ <<h>> \in Seq(S) /\ Append(s, h) \in Seq(S)
  BY <1>1, AppendIsConcat, AppendProperties
<1>4. (s \o <<h>>) \o r = s \o (<<h>> \o r)
  BY <1>1, <1>3, ConcatAssociative
<1> QED
  BY <1>1, <1>2, <1>3, <1>4

(* No client was told anything before the first asset.                     *)
LEMMA RebuiltTells ==
  ASSUME ListSound, DbFinite, Rebuilt
  PROVE  Sending(<<>>)'
<1>1. /\ notice' = [uids |-> Uidlist, num |-> number, i |-> 0] /\ told' = Nothing
      /\ updated' = updated /\ live' = live /\ list' = list /\ number' = number
  BY DEF Rebuilt, builderVars, serverVars
<1>2. Uidlist \in Seq(updated) /\ <<>> \in Seq(updated) /\ Uidlist = <<>> \o Uidlist
  <2>1. Uidlist \in Seq(updated)
    BY UidlistIs DEF DbFinite
  <2> QED
    BY <2>1, EmptySeq, ConcatEmptySeq
<1>3. Uidlist' = Uidlist
  BY <1>1 DEF Uidlist
<1>4. number \in Nat /\ number <= Len(list) /\ \A k \in 1..number : list[k] \in Clients
  BY DEF ListSound
<1>5. /\ notice'.uids = Uidlist /\ notice'.num = number /\ notice'.i = 0
      /\ notice' \in [uids : Seq(updated), num : Nat, i : Nat]
  BY <1>1, <1>2, <1>4
<1>6. told' \in [Clients -> Seq(updated)] /\ \A c \in Clients : told'[c] = <<>>
  BY <1>1, <1>2 DEF Nothing
<1>7. CASE Uidlist = <<>>
  <2>1. \A c \in live : c \in Clients
    BY <1>4 DEF ListSound
  <2>2. Caught(<<>>)'
    BY <1>1, <1>5, <1>6, <1>7, <2>1 DEF Caught
  <2> QED
    BY <1>1, <1>2, <1>3, <1>4, <1>5, <1>6, <2>2 DEF Sending
<1>8. CASE Uidlist # <<>>
  <2>1. \A k \in 1..number : ~(k <= 0)
    OBVIOUS
  <2>2. Halfway(<<>>)'
    BY <1>1, <1>4, <1>5, <1>6, <1>8, <2>1 DEF Halfway
  <2> QED
    BY <1>1, <1>2, <1>3, <1>4, <1>5, <1>6, <2>2 DEF Sending
<1> QED
  BY <1>7, <1>8

(* What is known of a client that is written to.                           *)
LEMMA SendIs ==
  ASSUME ListSound, NEW done, Sending(done), Send
  PROVE  /\ updated' = updated /\ Uidlist' = Uidlist
         /\ list[notice.i + 1] \in Clients /\ Head(notice.uids) \in updated
         /\ notice' \in [uids : Seq(updated), num : Nat, i : Nat]
         /\ notice'.uids = notice.uids /\ notice'.num = notice.num /\ notice'.i = notice.i + 1
         /\ notice.i + 1 <= notice.num /\ notice.uids # <<>>
<1>1. /\ updated' = updated /\ notice' = [notice EXCEPT !.i = @ + 1]
      /\ notice.uids # <<>> /\ notice.i < notice.num
  BY DEF Send, builderVars
<1>2. Uidlist' = Uidlist
  BY <1>1 DEF Uidlist
<1>3. PICK m \in Nat : m = Len(list) /\ \A k \in 1..m : list[k] \in Clients
  BY DEF ListSound
<1>4. notice.i \in Nat /\ notice.num \in Nat /\ notice.num <= m /\ notice.uids \in Seq(updated)
  BY <1>3 DEF Sending
<1>5. notice.i + 1 \in 1..m /\ notice.i + 1 <= notice.num
  BY <1>1, <1>4
<1>6. Head(notice.uids) \in updated
  BY <1>1, <1>4, HeadTailProperties
<1>7. /\ notice' \in [uids : Seq(updated), num : Nat, i : Nat]
      /\ notice'.uids = notice.uids /\ notice'.num = notice.num /\ notice'.i = notice.i + 1
  <2>1. PICK r, S : r = notice /\ S = Seq(updated) /\ r \in [uids : S, num : Nat, i : Nat]
    BY DEF Sending
  <2>2. notice' = [r EXCEPT !.i = r.i + 1] /\ r.i + 1 \in Nat
    BY <1>1, <2>1
  <2> QED
    BY <2>1, <2>2
<1> QED
  BY <1>1, <1>2, <1>3, <1>5, <1>6, <1>7

(* A client that is written to was told one more.                          *)
LEMMA SentTells ==
  ASSUME ListSound, NEW done, Sending(done), Send, UNCHANGED <<live, list, number, spoilt>>,
         NEW c, c = list[notice.i + 1],
         told' = IF c \in live THEN [told EXCEPT ![c] = Append(@, Head(notice.uids))] ELSE told
  PROVE  Sending(done)'
<1>1. /\ updated' = updated /\ Uidlist' = Uidlist
      /\ c \in Clients /\ Head(notice.uids) \in updated
      /\ notice' \in [uids : Seq(updated), num : Nat, i : Nat]
      /\ notice'.uids = notice.uids /\ notice'.num = notice.num /\ notice'.i = notice.i + 1
      /\ notice.i + 1 <= notice.num /\ notice.uids # <<>>
  BY SendIs
<1>2. /\ notice.i \in Nat /\ notice.num \in Nat /\ notice.num <= Len(list)
      /\ told \in [Clients -> Seq(updated)] /\ done \in Seq(updated) /\ Uidlist = done \o notice.uids
      /\ Caught(done) \/ Halfway(done)
  BY DEF Sending
<1>3. PICK u \in updated : u = Head(notice.uids)
  BY <1>1
<1>4. /\ told' \in [Clients -> Seq(updated)]
      /\ \A x \in Clients : x # c => told'[x] = told[x]
      /\ told'[c] = IF c \in live THEN Append(told[c], u) ELSE told[c]
  <2>1. Append(told[c], u) \in Seq(updated)
    BY <1>1, <1>2, <1>3, AppendProperties
  <2> QED
    BY <1>1, <1>2, <1>3, <2>1
<1>5. /\ Sifted(Append(told[c], u), spoilt)
         = IF u \in spoilt THEN Sifted(told[c], spoilt) ELSE Append(Sifted(told[c], spoilt), u)
      /\ Sifted(Append(done, u), spoilt)
         = IF u \in spoilt THEN Sifted(done, spoilt) ELSE Append(Sifted(done, spoilt), u)
  <2>1. PICK t \in Seq(updated) : t = told[c]
    BY <1>1, <1>2
  <2>2. Sifted(Append(t, u), spoilt) = IF u \in spoilt THEN Sifted(t, spoilt) ELSE Append(Sifted(t, spoilt), u)
    BY SiftedAppend
  <2>3. Sifted(Append(done, u), spoilt)
        = IF u \in spoilt THEN Sifted(done, spoilt) ELSE Append(Sifted(done, spoilt), u)
    <3>1. done \in Seq(updated)
      BY <1>2
    <3> QED
      BY <3>1, SiftedAppend
  <2> QED
    BY <2>1, <2>2, <2>3
<1>6. CASE Caught(done)
  <2>1. u \in spoilt /\ \A x \in live : Sifted(told[x], spoilt) = Sifted(done, spoilt)
    BY <1>1, <1>3, <1>6 DEF Caught
  <2>2. \A x \in live : x \in Clients
    BY DEF ListSound
  <2>3. \A x \in live : Sifted(told'[x], spoilt) = Sifted(done, spoilt)
    BY <1>4, <1>5, <2>1, <2>2
  <2>4. Caught(done)'
    BY <1>1, <1>3, <2>1, <2>3 DEF Caught
  <2> QED
    BY <1>1, <1>2, <1>4, <2>4 DEF Sending
<1>7. CASE Halfway(done)
  <2>1. /\ number = notice.num
        /\ \A k \in 1..number : Sifted(told[list[k]], spoilt)
                                = Sifted(IF k <= notice.i THEN Append(done, u) ELSE done, spoilt)
    BY <1>3, <1>7 DEF Halfway
  <2>2. /\ notice.i + 1 \in 1..number /\ ~(notice.i + 1 <= notice.i)
        /\ \A k \in 1..number : k # notice.i + 1 => (k <= notice.i + 1 <=> k <= notice.i)
    BY <1>1, <1>2, <2>1
  <2>3. c \in live /\ Sifted(told[c], spoilt) = Sifted(done, spoilt)
    BY <2>1, <2>2 DEF ListSound
  <2>4. \A k \in 1..number : list[k] \in Clients /\ (k # notice.i + 1 => list[k] # c)
    BY <2>2 DEF ListSound
  <2>5. ASSUME NEW k \in 1..number
        PROVE  Sifted(told'[list[k]], spoilt)
               = Sifted(IF k <= notice.i + 1 THEN Append(done, u) ELSE done, spoilt)
    <3>1. CASE k = notice.i + 1
      <4>1. k <= notice.i + 1 /\ list[k] = c
        BY <1>2, <3>1
      <4>2. Sifted(told'[c], spoilt) = Sifted(Append(done, u), spoilt)
        BY <1>4, <1>5, <2>3
      <4> QED
        BY <4>1, <4>2
    <3>2. CASE k # notice.i + 1
      BY <1>4, <2>1, <2>2, <2>4, <3>2
    <3> QED
      BY <3>1, <3>2
  <2>6. Halfway(done)'
    BY <1>1, <1>3, <2>1, <2>5 DEF Halfway
  <2> QED
    BY <1>1, <1>2, <1>4, <2>6 DEF Sending
<1> QED
  BY <1>2, <1>6, <1>7

(* A client that dies spoils the asset under way for the others.           *)
LEMMA DeathTells ==
  ASSUME ListSound, NEW done, Sending(done), Send, NEW c \in live, Dies(c),
         spoilt' = spoilt \union {Head(notice.uids)}, told' = told
  PROVE  Sending(done)'
<1>1. /\ updated' = updated /\ Uidlist' = Uidlist /\ Head(notice.uids) \in updated
      /\ notice' \in [uids : Seq(updated), num : Nat, i : Nat]
      /\ notice'.uids = notice.uids /\ notice'.num = notice.num /\ notice'.i = notice.i + 1
      /\ notice.i + 1 <= notice.num /\ notice.uids # <<>>
  BY SendIs
<1>2. /\ notice.i \in Nat /\ notice.num \in Nat /\ notice.num <= Len(list)
      /\ told \in [Clients -> Seq(updated)] /\ done \in Seq(updated) /\ Uidlist = done \o notice.uids
      /\ Caught(done) \/ Halfway(done)
  BY DEF Sending
<1>3. live' = live \ {c} /\ Len(list') = Len(list)
  <2>1. waiting' = waiting
    BY DEF Send
  <2> QED
    BY <2>1, DiesKeeps
<1>4. PICK u \in updated : u = Head(notice.uids)
  BY <1>1
<1>5. PICK Y : Y = spoilt'
  OBVIOUS
<1>6. spoilt \subseteq Y /\ u \in Y
  BY <1>4, <1>5
<1>7. ASSUME NEW x \in live PROVE Sifted(told[x], Y) = Sifted(done, Y)
  <2>1. told[x] \in Seq(updated)
    <3>1. x \in Clients
      <4>1. PICK k \in 1..number : list[k] = x
        BY DEF ListSound
      <4>2. list \in Seq(Clients) /\ k \in 1..Len(list)
        BY DEF ListSound
      <4> QED
        BY <4>1, <4>2
    <3> QED
      BY <1>2, <3>1
  <2>2. CASE Sifted(told[x], spoilt) = Sifted(done, spoilt)
    BY <1>2, <1>6, <2>1, <2>2, SiftedMore
  <2>3. CASE Sifted(told[x], spoilt) = Sifted(Append(done, u), spoilt)
    <3>1. PICK t \in Seq(updated), w \in Seq(updated) : t = told[x] /\ w = Append(done, u)
      BY <1>2, <2>1, AppendProperties
    <3>2. Sifted(t, spoilt) = Sifted(w, spoilt)
      BY <2>3, <3>1
    <3>3. Sifted(t, Y) = Sifted(w, Y)
      BY <1>6, <3>2, SiftedMore
    <3>4. Sifted(Append(done, u), Y) = Sifted(done, Y)
      BY <1>2, <1>6, SiftedAppend
    <3> QED
      BY <3>1, <3>3, <3>4
  <2>4. \/ Sifted(told[x], spoilt) = Sifted(done, spoilt)
        \/ Sifted(told[x], spoilt) = Sifted(Append(done, u), spoilt)
    <3>1. CASE Caught(done)
      BY <3>1 DEF Caught
    <3>2. CASE Halfway(done)
      <4>1. PICK k \in 1..number : list[k] = x
        BY DEF ListSound
      <4> QED
        BY <1>4, <3>2, <4>1 DEF Halfway
    <3> QED
      BY <1>2, <3>1, <3>2
  <2> QED
    BY <2>2, <2>3, <2>4
<1>8. Caught(done)'
  BY <1>1, <1>3, <1>4, <1>5, <1>6, <1>7 DEF Caught
<1> QED
  BY <1>1, <1>2, <1>3, <1>8 DEF Sending

(* An asset that was sent to all is done.                                  *)
LEMMA NextUidTells ==
  ASSUME ListSound, NEW done, Sending(done), NextUid
  PROVE  \E more : Sending(more)'
<1>1. /\ notice.uids # <<>> /\ notice.i = notice.num
      /\ notice' = [uids |-> Tail(notice.uids), num |-> number, i |-> 0]
      /\ updated' = updated /\ live' = live /\ list' = list /\ number' = number
      /\ told' = told /\ spoilt' = spoilt
  BY DEF NextUid, builderVars, serverVars
<1>2. /\ notice.i \in Nat /\ notice.uids \in Seq(updated)
      /\ told \in [Clients -> Seq(updated)] /\ done \in Seq(updated) /\ Uidlist = done \o notice.uids
      /\ Caught(done) \/ Halfway(done)
  BY DEF Sending
<1>3. Uidlist' = Uidlist
  BY <1>1 DEF Uidlist
<1>4. PICK u, rest, more :
        /\ u = Head(notice.uids) /\ rest = Tail(notice.uids) /\ more = Append(done, u)
        /\ u \in updated /\ rest \in Seq(updated) /\ more \in Seq(updated) /\ more \o rest = Uidlist
  <2>1. PICK t \in Seq(updated) : t = notice.uids /\ t # <<>>
    BY <1>1, <1>2
  <2>2. /\ Head(t) \in updated /\ Tail(t) \in Seq(updated)
        /\ Append(done, Head(t)) \in Seq(updated) /\ Append(done, Head(t)) \o Tail(t) = done \o t
    <3>1. done \in Seq(updated)
      BY <1>2
    <3>2. t # <<>>
      BY <2>1
    <3> QED
      BY <3>1, <3>2, HeadMoves, Zenon
  <2> QED
    BY <1>2, <2>1, <2>2
<1>5. number \in Nat /\ number <= Len(list)
  BY DEF ListSound
<1>6. /\ notice'.uids = rest /\ notice'.num = number /\ notice'.i = 0
      /\ notice' \in [uids : Seq(updated), num : Nat, i : Nat]
  BY <1>1, <1>4, <1>5
<1>7. ASSUME NEW x \in live PROVE Sifted(told[x], spoilt) = Sifted(more, spoilt)
  <2>1. CASE Caught(done)
    <3>1. u \in spoilt /\ Sifted(told[x], spoilt) = Sifted(done, spoilt)
      BY <1>1, <1>4, <2>1 DEF Caught
    <3>2. Sifted(more, spoilt) = Sifted(done, spoilt)
      BY <1>2, <1>4, <3>1, SiftedAppend
    <3> QED
      BY <3>1, <3>2
  <2>2. CASE Halfway(done)
    <3>1. PICK k \in 1..number : list[k] = x
      BY DEF ListSound
    <3>2. k <= notice.i
      BY <1>1, <2>2 DEF Halfway
    <3> QED
      BY <1>4, <2>2, <3>1, <3>2 DEF Halfway
  <2> QED
    BY <1>2, <2>1, <2>2
<1>8. /\ notice' \in [uids : Seq(updated'), num : Nat, i : Nat]
      /\ notice'.i <= notice'.num /\ notice'.num <= Len(list')
      /\ told' \in [Clients -> Seq(updated')]
      /\ more \in Seq(updated') /\ Uidlist' = more \o notice'.uids
  <2>1. notice'.i <= notice'.num /\ notice'.num <= Len(list')
    BY <1>1, <1>5, <1>6
  <2>2. Uidlist' = more \o notice'.uids
    BY <1>3, <1>4, <1>6
  <2> QED
    BY <1>1, <1>2, <1>4, <1>6, <2>1, <2>2
<1>9. CASE rest = <<>>
  <2>1. Caught(more)'
    BY <1>1, <1>6, <1>7, <1>9 DEF Caught
  <2> QED
    BY <1>8, <2>1 DEF Sending
<1>10. CASE rest # <<>>
  <2>1. \A k \in 1..number : ~(k <= 0) /\ list[k] \in live
    BY DEF ListSound
  <2>2. Halfway(more)'
    BY <1>1, <1>6, <1>7, <1>10, <2>1 DEF Halfway
  <2> QED
    BY <1>8, <2>2 DEF Sending
<1> QED
  BY <1>9, <1>10

(* Nothing is left to send when the thread goes on.                        *)
LEMMA AllSentTells ==
  ASSUME NEW done, Sending(done), AllSent
  PROVE  EveryClientTold'
<1>1. /\ notice.uids = <<>>
      /\ updated' = updated /\ live' = live /\ told' = told /\ spoilt' = spoilt
  BY DEF AllSent, builderVars, serverVars, noticeVars
<1>2. Uidlist' = Uidlist
  BY <1>1 DEF Uidlist
<1>3. Uidlist = done
  BY <1>1, ConcatEmptySeq DEF Sending
<1>4. \A c \in live : Sifted(told[c], spoilt) = Sifted(done, spoilt)
  BY <1>1 DEF Sending, Caught, Halfway
<1> QED
  BY <1>1, <1>2, <1>3, <1>4 DEF EveryClientTold
(* The steps that do not touch the notification, changes of files among    *)
(* them.                                                                   *)
LEMMA SameTelling ==
  ASSUME TellingSound, UNCHANGED <<at, updated, live, list, number, notice, told, spoilt>>,
         outcome'.ok = outcome.ok
  PROVE  TellingSound'
<1>1. Uidlist' = Uidlist
  BY DEF Uidlist
<1>2. ASSUME NEW done, Sending(done) PROVE Sending(done)'
  <2>1. Caught(done)' = Caught(done) /\ Halfway(done)' = Halfway(done)
    BY DEF Caught, Halfway
  <2> QED
    BY <1>1, <1>2, <2>1 DEF Sending
<1>3. EveryClientTold'
  BY <1>1 DEF TellingSound, EveryClientTold
<1> QED
  BY <1>2, <1>3 DEF TellingSound

(* A step of the loop over the clients.                                    *)
LEMMA SendTells ==
  ASSUME ListSound, TellingSound, Send
  PROVE  TellingSound'
<1>1. at = "notify" /\ at' = "notify"
  BY DEF Send, monitorVars
<1>2. PICK done : Sending(done)
  BY <1>1 DEF TellingSound
<1>3. PICK c : c = list[notice.i + 1]
  OBVIOUS
<1>4. \/ /\ told' = IF c \in live THEN [told EXCEPT ![c] = Append(@, Head(notice.uids))] ELSE told
         /\ UNCHANGED <<live, list, number, spoilt>>
      \/ /\ c \in live /\ Dies(c)
         /\ spoilt' = spoilt \union {Head(notice.uids)} /\ told' = told
  BY <1>3 DEF Send
<1>5. Sending(done)'
  BY <1>2, <1>3, <1>4, SentTells, DeathTells
<1> QED
  BY <1>1, <1>5 DEF TellingSound, EveryClientTold

(* Every step of the monitor.                                              *)
LEMMA TellingStep ==
  ASSUME Locals, DbFinite, ListSound, TellingSound, [MonitorNext]_allVars
  PROVE  TellingSound'
<1>1. CASE at' \notin {"notify", "rescan"}
  BY <1>1 DEF TellingSound, EveryClientTold
<1>2. CASE Rebuilt
  <2>1. Sending(<<>>)'
    BY <1>2, RebuiltTells
  <2>2. at' = (IF outcome.ok THEN "notify" ELSE "rescan") /\ outcome' = outcome
    BY <1>2 DEF Rebuilt, builderVars
  <2> QED
    BY <2>1, <2>2 DEF TellingSound, EveryClientTold
<1>3. CASE Send
  BY <1>3, SendTells
<1>4. CASE NextUid
  <2>1. at = "notify" /\ at' = "notify"
    BY <1>4 DEF NextUid, monitorVars
  <2>2. PICK done : Sending(done)
    BY <2>1 DEF TellingSound
  <2>3. \E more : Sending(more)'
    BY <1>4, <2>2, NextUidTells
  <2> QED
    BY <2>1, <2>3 DEF TellingSound, EveryClientTold
<1>5. CASE AllSent
  <2>1. at = "notify" /\ at' = "rescan"
    BY <1>5 DEF AllSent
  <2>2. PICK done : Sending(done)
    BY <2>1 DEF TellingSound
  <2>3. EveryClientTold'
    BY <1>5, <2>2, AllSentTells
  <2> QED
    BY <2>1, <2>3 DEF TellingSound
<1>6. ASSUME NEW f \in Files, Write(f) PROVE TellingSound'
  <2>1. /\ UNCHANGED <<at, updated, live, list, number, notice, told, spoilt>>
        /\ \E hidden, undone :
             outcome' = [outcome EXCEPT !.quiet = FALSE, !.hidden = hidden, !.undone = undone]
    BY <1>6 DEF Write, Change, serverVars, noticeVars
  <2>2. outcome'.ok = outcome.ok
    BY <2>1 DEF Locals
  <2> QED
    BY <2>1, <2>2, SameTelling
<1>7. CASE UNCHANGED allVars
  BY <1>7, SameTelling DEF allVars, builderVars, monitorVars, serverVars, noticeVars
<1>8. CASE FirstBuild \/ BuildStep \/ GivesUp \/ Watch \/ TimerFires
  BY <1>1, <1>8 DEF FirstBuild, BuildStep, GivesUp, Watch, TimerFires, monitorVars
<1>9. CASE Restart \/ Wait \/ HandleEvent \/ EventsHandled \/ AssertFails
  BY <1>1, <1>9 DEF Restart, Wait, HandleEvent, EventsHandled, AssertFails
<1> QED
  BY <1>2, <1>3, <1>4, <1>5, <1>6, <1>7, <1>8, <1>9 DEF MonitorNext, MonitorThread

(* Once a notification is over, every client that lives was sent the UID   *)
(* of every updated asset once and in order, but for those during whose    *)
(* sending a client died: its handle leaves the list the loop of           *)
(* priv_build runs over by index (client_getByIndex).  A notification that *)
(* the assertion on that index stops is never over.                        *)
THEOREM ClientsAreTold == MonitorSpec => []EveryClientTold
<1> DEFINE Inv == WatchSound /\ DbFinite /\ ListSound /\ EventsSound /\ TellingSound
<1>1. MonitorInit => Inv
  <2>1. MonitorInit => TellingSound
    BY DEF MonitorInit, TellingSound, EveryClientTold
  <2>2. MonitorInit => BuilderInit
    BY DEF MonitorInit
  <2> QED
    BY <2>1, <2>2, WatchInit, DbFiniteInit, ServerInit
<1>2. Inv /\ BuilderInv /\ [MonitorNext]_allVars => Inv'
  <2> SUFFICES ASSUME Inv, BuilderInv, [MonitorNext]_allVars PROVE Inv'
    OBVIOUS
  <2>1. WatchSound'
    BY WatchStep
  <2>2. DbFinite'
    BY MonitorStepBuilds, DbFiniteStep
  <2>3. ListSound' /\ EventsSound'
    BY ServerStep
  <2>4. TellingSound'
    BY TellingStep DEF BuilderInv
  <2> QED
    BY <2>1, <2>2, <2>3, <2>4
<1>3. Inv => EveryClientTold
  BY DEF TellingSound
<1> QED
  BY <1>1, <1>2, <1>3, MonitorBuilds, BuilderKeeps, PTL DEF MonitorSpec
=============================================================================
