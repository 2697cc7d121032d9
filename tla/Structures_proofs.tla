-------------------------- MODULE Structures_proofs --------------------------
(*****************************************************************************)
(* Theorems about the containers: SparseSet for any set of indices and any   *)
(* size of page; SortedMap for any keys; HandleList for every layout of the  *)
(* handle: the free lists are exact, live handles resolve, stale ones are    *)
(* rejected, and reserve fails only when nothing is free; ObjectPool for any *)
(* number of objects in a page and of pages.                                 *)
(*****************************************************************************)
EXTENDS SparseSet, SortedMap, HandleList, ObjectPool, Lemmas

(* SparseSet.                                                              *)

USE SparseAssumption DEF SparseAssumption

(* An index is known by its page and its offset in it.                     *)
LEMMA PageAndOffset ==
  ASSUME NEW x \in Nat
  PROVE  /\ PageOf(x) \in Nat /\ OffsetOf(x) \in Offset
         /\ x = NumDataPerPage * PageOf(x) + OffsetOf(x)
BY DEF PageOf, OffsetOf, Offset

LEMMA SamePlaceSameIndex ==
  ASSUME NEW x \in Nat, NEW y \in Nat, PageOf(x) = PageOf(y), OffsetOf(x) = OffsetOf(y)
  PROVE  x = y
BY PageAndOffset
-----------------------------------------------------------------------------
(* The invariant.                                                          *)

PageRecord == [indicesList : [Offset -> Nat], numElements : Nat]

(* Where the sparse array says x is.                                       *)
Pos(x) == PositionIn(pageList, x)

(* The places of the dense array with an element of page p.                *)
On(entries, p) == {i \in DOMAIN entries : PageOf(entries[i]) = p}

TypesInv ==
  /\ denseList \in Seq(Indices)
  /\ iter \in Nat
  /\ pageList \in [DOMAIN pageList -> PageRecord]

(* The two arrays lead to each other.                                      *)
PlacesInv ==
  /\ \A x \in Indices : Pos(x) # NoPosition =>
       Pos(x) \in 1..Len(denseList) /\ denseList[Pos(x)] = x
  /\ \A i \in 1..Len(denseList) : Pos(denseList[i]) = i

(* A page exists while it has elements and knows how many.                 *)
CountsInv ==
  \A p : /\ p \in DOMAIN pageList <=> On(denseList, p) # {}
         /\ p \in DOMAIN pageList => pageList[p].numElements = Cardinality(On(denseList, p))

(* What the iterator is past, it has returned or could not.                *)
PassedInv == \A i \in 1..Len(denseList) : i <= iter => denseList[i] \in seen \union behind

SparseInv == TypesInv /\ PlacesInv /\ CountsInv /\ PassedInv

LEMMA Places ==
  ASSUME TypesInv
  PROVE  /\ DOMAIN denseList = 1..Len(denseList) /\ Len(denseList) \in Nat
         /\ \A i \in 1..Len(denseList) : denseList[i] \in Indices /\ denseList[i] \in Nat
         /\ \A p : IsFiniteSet(On(denseList, p)) /\ Cardinality(On(denseList, p)) \in Nat
<1>1. /\ DOMAIN denseList = 1..Len(denseList) /\ Len(denseList) \in Nat
      /\ \A i \in 1..Len(denseList) : denseList[i] \in Indices /\ denseList[i] \in Nat
  BY DEF TypesInv
<1>2. ASSUME NEW p PROVE IsFiniteSet(On(denseList, p)) /\ Cardinality(On(denseList, p)) \in Nat
  <2>1. IsFiniteSet(1..Len(denseList)) /\ On(denseList, p) \subseteq 1..Len(denseList)
    BY <1>1, FS_Interval DEF On
  <2> QED
    BY <2>1, FS_Subset, FS_CardinalityType
<1> QED
  BY <1>1, <1>2

LEMMA InvIsExact == SparseInv => SparseSound
<1> SUFFICES ASSUME SparseInv PROVE SparseSound
  OBVIOUS
<1>1. DOMAIN denseList = 1..Len(denseList)
  BY Places DEF SparseInv
<1>2. DOMAIN pageList = {PageOf(denseList[i]) : i \in DOMAIN denseList}
  BY DEF SparseInv, CountsInv, On
<1>3. \A p \in DOMAIN pageList :
        pageList[p].numElements = Cardinality({i \in DOMAIN denseList : PageOf(denseList[i]) = p})
  BY DEF SparseInv, CountsInv, On
<1>4. \A x \in Indices : PositionIn(pageList, x) # NoPosition =>
        /\ PositionIn(pageList, x) <= Len(denseList)
        /\ denseList[PositionIn(pageList, x)] = x
  BY DEF SparseInv, PlacesInv, Pos
<1>5. \A i \in DOMAIN denseList : PositionIn(pageList, denseList[i]) = i
  BY <1>1 DEF SparseInv, PlacesInv, Pos
<1>6. IterationComplete
  BY <1>1, Places DEF SparseInv, PassedInv, IterationComplete, TypesInv
<1> QED
  BY <1>2, <1>3, <1>4, <1>5, <1>6 DEF SparseSound, SparseExact

LEMMA SparseStart == SparseInit => SparseInv
<1> SUFFICES ASSUME SparseInit PROVE SparseInv
  OBVIOUS
<1>1. denseList = <<>> /\ Len(denseList) = 0 /\ DOMAIN denseList = {} /\ DOMAIN pageList = {}
  BY DEF SparseInit
<1>2. TypesInv
  BY <1>1 DEF SparseInit, TypesInv
<1>3. PlacesInv
  BY <1>1 DEF PlacesInv, Pos, PositionIn
<1>4. CountsInv
  BY <1>1 DEF CountsInv, On
<1>5. PassedInv
  BY <1>1 DEF PassedInv
<1> QED
  BY <1>2, <1>3, <1>4, <1>5 DEF SparseInv
-----------------------------------------------------------------------------
(* What adding and removing do to the sparse array.                        *)

LEMMA AddToPages ==
  ASSUME TypesInv, NEW x \in Indices, AddIfNotExists(x)
  PROVE  LET p == PageOf(x) IN
         /\ DOMAIN pageList' = DOMAIN pageList \union {p}
         /\ pageList' \in [DOMAIN pageList' -> PageRecord]
         /\ PositionIn(pageList', x) = Len(denseList) + 1
         /\ \A z \in Indices : z # x => PositionIn(pageList', z) = Pos(z)
         /\ \A q \in DOMAIN pageList : q # p => pageList'[q] = pageList[q]
         /\ pageList'[p].numElements =
              (IF p \in DOMAIN pageList THEN pageList[p].numElements ELSE 0) + 1
<1> DEFINE p == PageOf(x)
           n == Len(denseList) + 1
           page == IF p \in DOMAIN pageList THEN pageList[p] ELSE EmptyPage
<1>1. n \in Nat /\ x \in Nat /\ OffsetOf(x) \in Offset
  BY PageAndOffset, Places
<1>2. page \in PageRecord
  BY DEF TypesInv, PageRecord, EmptyPage, NoPosition
<1>3. pageList' = [q \in DOMAIN pageList \union {p} |->
                     IF q = p THEN WithElement(page, OffsetOf(x), n) ELSE pageList[q]]
  BY DEF AddIfNotExists
<1> HIDE DEF n
<1>4. /\ WithElement(page, OffsetOf(x), n) \in PageRecord
      /\ WithElement(page, OffsetOf(x), n).indicesList[OffsetOf(x)] = n
      /\ \A o \in Offset : o # OffsetOf(x) =>
           WithElement(page, OffsetOf(x), n).indicesList[o] = page.indicesList[o]
      /\ WithElement(page, OffsetOf(x), n).numElements = page.numElements + 1
  BY <1>1, <1>2 DEF WithElement, PageRecord
<1> HIDE DEF page
<1>5. /\ DOMAIN pageList' = DOMAIN pageList \union {p}
      /\ pageList'[p] = WithElement(page, OffsetOf(x), n)
      /\ \A q \in DOMAIN pageList : q # p => pageList'[q] = pageList[q]
  BY <1>3
<1>6. pageList' \in [DOMAIN pageList' -> PageRecord]
  BY <1>3, <1>4 DEF TypesInv
<1>7. PositionIn(pageList', x) = n
  BY <1>4, <1>5 DEF Pos, PositionIn
<1>8. ASSUME NEW z \in Indices, z # x PROVE PositionIn(pageList', z) = Pos(z)
  <2>1. CASE PageOf(z) # p
    BY <1>5, <2>1 DEF Pos, PositionIn
  <2>2. CASE PageOf(z) = p
    <3>1. z \in Nat /\ OffsetOf(z) \in Offset /\ OffsetOf(z) # OffsetOf(x)
      BY <1>1, <1>8, <2>2, PageAndOffset, SamePlaceSameIndex
    <3>2. PositionIn(pageList', z) = page.indicesList[OffsetOf(z)]
      BY <1>4, <1>5, <2>2, <3>1 DEF Pos, PositionIn
    <3>3. Pos(z) = page.indicesList[OffsetOf(z)]
      BY <2>2, <3>1 DEF Pos, PositionIn, page, EmptyPage
    <3> QED
      BY <3>2, <3>3
  <2> QED
    BY <2>1, <2>2
<1>9. page.numElements = IF p \in DOMAIN pageList THEN pageList[p].numElements ELSE 0
  BY DEF page, EmptyPage
<1> QED
  BY <1>4, <1>5, <1>6, <1>7, <1>8, <1>9 DEF n

LEMMA AddCounts ==
  ASSUME TypesInv, NEW x \in Indices, denseList' = Append(denseList, x)
  PROVE  LET p == PageOf(x) IN
         /\ On(denseList', p) # {}
         /\ Cardinality(On(denseList', p)) = Cardinality(On(denseList, p)) + 1
         /\ \A q : q # p => On(denseList', q) = On(denseList, q)
<1> DEFINE p == PageOf(x)
           n == Len(denseList) + 1
<1>1. /\ Len(denseList') = n /\ DOMAIN denseList' = 1..n /\ n \in Nat
      /\ \A i \in 1..Len(denseList) : denseList'[i] = denseList[i]
      /\ denseList'[n] = x
  BY AppendProperties DEF TypesInv
<1>2. DOMAIN denseList = 1..Len(denseList) /\ 1..n = 1..Len(denseList) \union {n} /\ n \notin 1..Len(denseList)
  BY Places
<1> HIDE DEF n
<1>3. On(denseList', p) = On(denseList, p) \union {n} /\ n \notin On(denseList, p)
  BY <1>1, <1>2 DEF On
<1>4. \A q : q # p => On(denseList', q) = On(denseList, q)
  BY <1>1, <1>2 DEF On
<1>5. Cardinality(On(denseList, p) \union {n}) = Cardinality(On(denseList, p)) + 1
  BY <1>3, Places, FS_AddElement
<1> QED
  BY <1>3, <1>4, <1>5

LEMMA AddStep == ASSUME SparseInv, NEW x \in Indices, AddIfNotExists(x) PROVE SparseInv'
<1> DEFINE p == PageOf(x)
           n == Len(denseList) + 1
<1> USE DEF SparseInv
<1>1. /\ denseList' = Append(denseList, x) /\ iter' = iter /\ seen' = seen
      /\ behind' = IF n <= iter THEN behind \union {x} ELSE behind
      /\ Pos(x) = NoPosition
  BY DEF AddIfNotExists, Pos
<1>2. /\ Len(denseList') = n /\ n \in Nat /\ denseList' \in Seq(Indices)
      /\ \A j \in 1..Len(denseList) : denseList'[j] = denseList[j]
      /\ denseList'[n] = x
  BY <1>1, AppendProperties DEF TypesInv
<1>3. \A j \in 1..n : j \in 1..Len(denseList) \/ j = n
  BY Places
<1>4. /\ PositionIn(pageList', x) = n
      /\ \A z \in Indices : z # x => PositionIn(pageList', z) = Pos(z)
  BY AddToPages
<1>5. TypesInv'
  BY <1>1, <1>2, AddToPages DEF TypesInv
<1>6. PlacesInv'
  <2>1. \A z \in Indices : PositionIn(pageList', z) # NoPosition =>
          /\ PositionIn(pageList', z) \in 1..Len(denseList')
          /\ denseList'[PositionIn(pageList', z)] = z
    <3>1. n \in 1..n /\ \A j \in 1..Len(denseList) : j \in 1..n
      BY Places
    <3> QED
      BY <1>2, <1>4, <3>1 DEF PlacesInv
  <2>2. ASSUME NEW j \in 1..n PROVE PositionIn(pageList', denseList'[j]) = j
    <3>1. \A k \in 1..Len(denseList) : denseList[k] \in Indices /\ denseList[k] # x
      BY <1>1, Places DEF PlacesInv, NoPosition
    <3>2. CASE j = n
      BY <1>2, <1>4, <3>2
    <3>3. CASE j \in 1..Len(denseList)
      BY <1>2, <1>4, <3>1, <3>3 DEF PlacesInv
    <3> QED
      BY <1>3, <3>2, <3>3
  <2> QED
    BY <1>2, <2>1, <2>2 DEF PlacesInv, Pos
<1>7. CountsInv'
  <2>1. On(denseList, p) = {} => Cardinality(On(denseList, p)) = 0
    BY FS_EmptySet
  <2>2. /\ p \in DOMAIN pageList' /\ On(denseList', p) # {}
        /\ pageList'[p].numElements = Cardinality(On(denseList', p))
    BY <1>1, <2>1, AddToPages, AddCounts DEF CountsInv
  <2>3. ASSUME NEW q, q # p
        PROVE  /\ q \in DOMAIN pageList' <=> On(denseList', q) # {}
               /\ q \in DOMAIN pageList' => pageList'[q].numElements = Cardinality(On(denseList', q))
    <3>1. On(denseList', q) = On(denseList, q)
      BY <1>1, <2>3, AddCounts
    <3>2. /\ DOMAIN pageList' = DOMAIN pageList \union {p}
          /\ \A r \in DOMAIN pageList : r # p => pageList'[r] = pageList[r]
      BY AddToPages
    <3>3. /\ q \in DOMAIN pageList' <=> q \in DOMAIN pageList
          /\ q \in DOMAIN pageList => pageList'[q] = pageList[q]
      BY <2>3, <3>2
    <3> QED
      BY <3>1, <3>3 DEF CountsInv
  <2> QED
    BY <2>2, <2>3 DEF CountsInv
<1>8. PassedInv'
  BY <1>1, <1>2, <1>3 DEF PassedInv, TypesInv
<1> QED
  BY <1>5, <1>6, <1>7, <1>8
-----------------------------------------------------------------------------
(* The page of an element goes when it was the only one: what else would   *)
(* be found through it is not there.                                       *)
LEMMA RemoveFromPages ==
  ASSUME SparseInv, NEW x \in Indices, Pos(x) # NoPosition
  PROVE  LET p == PageOf(x)
             pages == PagesWithout(x) IN
         /\ pages \in [DOMAIN pages -> PageRecord]
         /\ \A z \in Indices : z # x => PositionIn(pages, z) = Pos(z)
         /\ PositionIn(pages, x) = NoPosition
         /\ \A q : q # p => (q \in DOMAIN pages <=> q \in DOMAIN pageList)
         /\ \A q \in DOMAIN pages : q # p => pages[q].numElements = pageList[q].numElements
         /\ p \in DOMAIN pages <=> Cardinality(On(denseList, p)) # 1
         /\ p \in DOMAIN pages => pages[p].numElements = Cardinality(On(denseList, p)) - 1
<1> DEFINE p == PageOf(x)
           page == [indicesList |-> [pageList[p].indicesList EXCEPT ![OffsetOf(x)] = NoPosition],
                    numElements |-> pageList[p].numElements - 1]
           pages == PagesWithout(x)
<1> USE DEF SparseInv
<1>1. /\ p \in DOMAIN pageList /\ pageList[p] \in PageRecord /\ x \in Nat
      /\ Pos(x) \in 1..Len(denseList) /\ denseList[Pos(x)] = x
      /\ OffsetOf(x) \in Offset
  BY PageAndOffset DEF Pos, PositionIn, TypesInv, PlacesInv
<1>2. /\ pageList[p].numElements = Cardinality(On(denseList, p))
      /\ Pos(x) \in On(denseList, p)
  BY <1>1, Places DEF CountsInv, On
<1>3. Cardinality(On(denseList, p)) \in Nat /\ Cardinality(On(denseList, p)) # 0
  BY <1>2, Places, FS_EmptySet
<1>4. /\ page \in PageRecord
      /\ page.indicesList[OffsetOf(x)] = NoPosition
      /\ \A o \in Offset : o # OffsetOf(x) => page.indicesList[o] = pageList[p].indicesList[o]
      /\ page.numElements = Cardinality(On(denseList, p)) - 1
  BY <1>1, <1>2, <1>3 DEF PageRecord, NoPosition
<1>5. pages = IF page.numElements = 0 THEN [q \in DOMAIN pageList \ {p} |-> pageList[q]]
              ELSE [pageList EXCEPT ![p] = page]
  BY DEF PagesWithout
<1> HIDE DEF page, pages
<1>6. CASE Cardinality(On(denseList, p)) = 1
  <2>1. pages = [q \in DOMAIN pageList \ {p} |-> pageList[q]]
    BY <1>4, <1>5, <1>6
  <2>2. ASSUME NEW z \in Indices, z # x PROVE PositionIn(pages, z) = Pos(z)
    <3>1. CASE PageOf(z) # p
      BY <2>1, <3>1 DEF PositionIn, Pos
    <3>2. CASE PageOf(z) = p
      <4>1. PositionIn(pages, z) = NoPosition
        BY <2>1, <3>2 DEF PositionIn
      <4>2. ASSUME Pos(z) # NoPosition PROVE FALSE
        <5>1. Pos(z) \in 1..Len(denseList) /\ denseList[Pos(z)] = z
          BY <4>2 DEF PlacesInv
        <5>2. Pos(z) \in On(denseList, p) /\ Pos(z) # Pos(x)
          BY <1>1, <2>2, <3>2, <5>1, Places DEF On
        <5>3. \E u : On(denseList, p) = {u}
          BY <1>6, Places, FS_Singleton
        <5> QED
          BY <1>2, <5>2, <5>3
      <4> QED
        BY <4>1, <4>2
    <3> QED
      BY <3>1, <3>2
  <2>3. PositionIn(pages, x) = NoPosition
    BY <2>1 DEF PositionIn
  <2>4. pages \in [DOMAIN pages -> PageRecord] /\ DOMAIN pages = DOMAIN pageList \ {p}
    BY <2>1 DEF TypesInv
  <2>5. \A q \in DOMAIN pages : pages[q] = pageList[q]
    BY <2>1
  <2> QED
    BY <1>6, <2>2, <2>3, <2>4, <2>5 DEF pages
<1>7. CASE Cardinality(On(denseList, p)) # 1
  <2>1. pages = [pageList EXCEPT ![p] = page]
    BY <1>3, <1>4, <1>5, <1>7
  <2>2. /\ DOMAIN pages = DOMAIN pageList /\ pages[p] = page
        /\ \A q \in DOMAIN pageList : q # p => pages[q] = pageList[q]
        /\ pages \in [DOMAIN pages -> PageRecord]
    BY <1>1, <1>4, <2>1 DEF TypesInv
  <2>3. ASSUME NEW z \in Indices, z # x PROVE PositionIn(pages, z) = Pos(z)
    <3>1. CASE PageOf(z) # p
      BY <2>2, <3>1 DEF PositionIn, Pos
    <3>2. CASE PageOf(z) = p
      <4>1. z \in Nat /\ OffsetOf(z) \in Offset /\ OffsetOf(z) # OffsetOf(x)
        BY <1>1, <2>3, <3>2, PageAndOffset, SamePlaceSameIndex
      <4> QED
        BY <1>1, <1>4, <2>2, <3>2, <4>1 DEF PositionIn, Pos
    <3> QED
      BY <3>1, <3>2
  <2>4. PositionIn(pages, x) = NoPosition
    BY <1>1, <1>4, <2>2 DEF PositionIn
  <2> QED
    BY <1>1, <1>4, <1>7, <2>2, <2>3, <2>4 DEF pages
<1> QED
  BY <1>6, <1>7

(* The last element moves to place i and the places end one earlier.       *)
LEMMA MoveLast ==
  ASSUME TypesInv, NEW i \in 1..Len(denseList),
         denseList' = SubSeq([denseList EXCEPT ![i] = denseList[Len(denseList)]],
                             1, Len(denseList) - 1)
  PROVE  /\ denseList' \in Seq(Indices) /\ Len(denseList') = Len(denseList) - 1
         /\ DOMAIN denseList' = 1..Len(denseList) - 1
         /\ i # Len(denseList) => denseList'[i] = denseList[Len(denseList)]
         /\ \A j \in 1..Len(denseList) - 1 : j # i => denseList'[j] = denseList[j]
<1> DEFINE n == Len(denseList)
           moved == [denseList EXCEPT ![i] = denseList[n]]
<1>1. n \in Nat /\ n # 0 /\ denseList[n] \in Indices /\ n \in 1..n
  BY Places
<1>2. moved \in Seq(Indices) /\ Len(moved) = n
  BY <1>1 DEF TypesInv
<1>3. /\ moved[i] = denseList[n]
      /\ \A j \in 1..n : j # i => moved[j] = denseList[j]
  BY <1>1 DEF TypesInv
<1> HIDE DEF n, moved
<1>4. denseList' = SubSeq(moved, 1, n - 1)
  BY DEF n, moved
<1>5. /\ denseList' \in Seq(Indices) /\ Len(denseList') = n - 1
      /\ \A j \in 1..n - 1 : denseList'[j] = moved[j]
  BY <1>1, <1>2, <1>4
<1>6. i \in 1..n
  BY DEF n
<1> QED
  BY <1>1, <1>3, <1>5, <1>6 DEF n

LEMMA RemoveCounts ==
  ASSUME TypesInv, NEW i \in 1..Len(denseList),
         denseList' = SubSeq([denseList EXCEPT ![i] = denseList[Len(denseList)]],
                             1, Len(denseList) - 1)
  PROVE  LET p == PageOf(denseList[i]) IN
         /\ Cardinality(On(denseList', p)) = Cardinality(On(denseList, p)) - 1
         /\ \A q : q # p => Cardinality(On(denseList', q)) = Cardinality(On(denseList, q))
         /\ \A q : IsFiniteSet(On(denseList', q))
<1> DEFINE n == Len(denseList)
           p == PageOf(denseList[i])
<1>1. /\ DOMAIN denseList' = 1..n - 1
      /\ i # n => denseList'[i] = denseList[n]
      /\ \A j \in 1..n - 1 : j # i => denseList'[j] = denseList[j]
  BY MoveLast
<1>a. n \in Nat /\ i \in 1..n /\ DOMAIN denseList = 1..n
  BY Places
<1>b. \A q : IsFiniteSet(On(denseList, q)) /\ Cardinality(On(denseList, q)) \in Nat
  BY Places
<1> HIDE DEF n
<1>2. n \in 1..n /\ 1..n - 1 = 1..n \ {n} /\ (i # n => i \in 1..n - 1)
  BY <1>a
<1>3. i \in On(denseList, p)
  BY <1>a DEF On
<1>4. \A q : n \in On(denseList, q) <=> q = PageOf(denseList[n])
  BY <1>a, <1>2 DEF On
<1>5. ASSUME NEW q, IF q = p THEN n \in On(denseList, q) ELSE n \in On(denseList, q) /\ i = n
      PROVE  On(denseList', q) = On(denseList, q) \ {n}
  BY <1>a, <1>1, <1>2, <1>5 DEF On
<1>6. ASSUME n \notin On(denseList, p)
      PROVE  On(denseList', p) = On(denseList, p) \ {i}
  BY <1>a, <1>1, <1>2, <1>6 DEF On
<1>7. Cardinality(On(denseList', p)) = Cardinality(On(denseList, p)) - 1
  <2>1. \A u \in On(denseList, p) :
          Cardinality(On(denseList, p) \ {u}) = Cardinality(On(denseList, p)) - 1
    BY <1>b, FS_RemoveElement
  <2>2. CASE n \in On(denseList, p)
    BY <1>5, <2>1, <2>2
  <2>3. CASE n \notin On(denseList, p)
    BY <1>3, <1>6, <2>1, <2>3
  <2> QED
    BY <2>2, <2>3
<1>8. ASSUME NEW q, q # p PROVE Cardinality(On(denseList', q)) = Cardinality(On(denseList, q))
  <2>1. i \notin On(denseList, q)
    BY <1>8 DEF On
  <2>2. CASE n \notin On(denseList, q)
    <3>1. On(denseList', q) = On(denseList, q)
      BY <1>a, <1>1, <1>2, <2>1, <2>2 DEF On
    <3> QED
      BY <3>1
  <2>3. CASE n \in On(denseList, q)
    <3>1. i # n
      BY <2>1, <2>3
    <3>2. On(denseList', q) = (On(denseList, q) \ {n}) \union {i}
      BY <1>a, <1>1, <1>2, <2>1, <2>3, <3>1 DEF On
    <3>3. /\ IsFiniteSet(On(denseList, q) \ {n})
          /\ Cardinality(On(denseList, q) \ {n}) = Cardinality(On(denseList, q)) - 1
      BY <2>3, Places, FS_RemoveElement
    <3>4. Cardinality(On(denseList', q)) = Cardinality(On(denseList, q) \ {n}) + 1
      BY <2>1, <3>2, <3>3, FS_AddElement
    <3> QED
      BY <3>3, <3>4, Places
  <2> QED
    BY <2>2, <2>3
<1>9. ASSUME NEW q PROVE IsFiniteSet(On(denseList', q))
  <2>1. On(denseList', q) \subseteq 1..n - 1 /\ n - 1 \in Int
    BY <1>a, <1>1 DEF On
  <2>2. IsFiniteSet(1..n - 1)
    BY <2>1, FS_Interval
  <2> QED
    BY <2>1, <2>2, FS_Subset
<1> QED
  BY <1>7, <1>8, <1>9

LEMMA RemoveStep == ASSUME SparseInv, NEW x \in Indices, RemoveIndex(x) PROVE SparseInv'
<1> DEFINE n == Len(denseList)
           i == Pos(x)
           y == denseList[n]
           p == PageOf(x)
           pages == PagesWithout(x)
<1> USE DEF SparseInv
<1>1. /\ i # NoPosition /\ iter' = iter /\ seen' = seen \ {x}
      /\ denseList' = SubSeq([denseList EXCEPT ![i] = y], 1, n - 1)
      /\ behind' = (IF i <= iter /\ n > iter THEN behind \union {y} ELSE behind) \ {x}
  BY DEF RemoveIndex, Pos
<1>2. pageList' = IF y = x THEN pages
                  ELSE [pages EXCEPT ![PageOf(y)].indicesList[OffsetOf(y)] = i]
  BY DEF RemoveIndex, Pos
<1>3. i \in 1..n /\ denseList[i] = x /\ n \in Nat /\ n \in 1..n /\ y \in Indices /\ y \in Nat
  BY <1>1, Places DEF PlacesInv
<1>4. /\ denseList' \in Seq(Indices) /\ Len(denseList') = n - 1
      /\ i # n => denseList'[i] = y
      /\ \A j \in 1..n - 1 : j # i => denseList'[j] = denseList[j]
  BY <1>1, <1>3, MoveLast
<1>5. /\ pages \in [DOMAIN pages -> PageRecord]
      /\ \A z \in Indices : z # x => PositionIn(pages, z) = Pos(z)
      /\ PositionIn(pages, x) = NoPosition
  BY <1>1, RemoveFromPages
<1>6. y = x <=> i = n
  BY <1>3 DEF PlacesInv
<1> HIDE DEF pages, y
<1>7. /\ pageList' \in [DOMAIN pageList' -> PageRecord]
      /\ DOMAIN pageList' = DOMAIN pages
      /\ \A q \in DOMAIN pages : pageList'[q].numElements = pages[q].numElements
      /\ PositionIn(pageList', x) = NoPosition
      /\ \A z \in Indices : z # x /\ z # y => PositionIn(pageList', z) = Pos(z)
      /\ y # x => PositionIn(pageList', y) = i
  <2>1. CASE y = x
    BY <1>2, <1>5, <2>1
  <2>2. CASE y # x
    <3> DEFINE r == PageOf(y)
               o == OffsetOf(y)
               page == [pages[r] EXCEPT !.indicesList[o] = i]
    <3>1. Pos(y) = n /\ n # NoPosition
      BY <1>3 DEF PlacesInv, NoPosition, y
    <3>2. r \in DOMAIN pages /\ pages[r] \in PageRecord /\ o \in Offset /\ i \in Nat
      BY <1>3, <1>5, <2>2, <3>1, PageAndOffset DEF PositionIn
    <3>3. pageList' = [pages EXCEPT ![r] = page]
      BY <1>2, <2>2
    <3>4. /\ page \in PageRecord /\ page.indicesList[o] = i
          /\ page.numElements = pages[r].numElements
          /\ \A k \in Offset : k # o => page.indicesList[k] = pages[r].indicesList[k]
      BY <3>2 DEF PageRecord
    <3> HIDE DEF page
    <3>5. /\ DOMAIN pageList' = DOMAIN pages /\ pageList'[r] = page
          /\ \A q \in DOMAIN pages : q # r => pageList'[q] = pages[q]
          /\ pageList' \in [DOMAIN pageList' -> PageRecord]
      BY <1>5, <3>2, <3>3, <3>4
    <3>6. ASSUME NEW z \in Indices, z # y PROVE PositionIn(pageList', z) = PositionIn(pages, z)
      <4>1. CASE PageOf(z) # r
        BY <3>5, <4>1 DEF PositionIn
      <4>2. CASE PageOf(z) = r
        <5>1. OffsetOf(z) \in Offset /\ OffsetOf(z) # o
          BY <1>3, <3>6, <4>2, PageAndOffset, SamePlaceSameIndex
        <5> QED
          BY <3>2, <3>4, <3>5, <4>2, <5>1 DEF PositionIn
      <4> QED
        BY <4>1, <4>2
    <3>7. PositionIn(pageList', y) = i
      BY <3>2, <3>4, <3>5 DEF PositionIn
    <3>8. \A q \in DOMAIN pages : pageList'[q].numElements = pages[q].numElements
      BY <3>4, <3>5
    <3> QED
      BY <1>5, <2>2, <3>5, <3>6, <3>7, <3>8
  <2> QED
    BY <2>1, <2>2
<1>8. TypesInv'
  BY <1>1, <1>4, <1>7 DEF TypesInv
<1>9. PlacesInv'
  <2>1. ASSUME NEW z \in Indices, PositionIn(pageList', z) # NoPosition
        PROVE  /\ PositionIn(pageList', z) \in 1..n - 1
               /\ denseList'[PositionIn(pageList', z)] = z
    <3>1. z # x
      BY <1>7, <2>1
    <3>2. CASE z = y
      BY <1>3, <1>4, <1>6, <1>7, <3>1, <3>2
    <3>3. CASE z # y
      <4>1. PositionIn(pageList', z) = Pos(z) /\ Pos(z) \in 1..n /\ denseList[Pos(z)] = z
        BY <1>7, <2>1, <3>1, <3>3 DEF PlacesInv
      <4>2. Pos(z) # i /\ Pos(z) # n
        BY <1>3, <3>1, <3>3, <4>1 DEF y
      <4> QED
        BY <1>3, <1>4, <4>1, <4>2
    <3> QED
      BY <3>2, <3>3
  <2>2. ASSUME NEW j \in 1..n - 1 PROVE PositionIn(pageList', denseList'[j]) = j
    <3>1. CASE j = i
      <4>1. i # n /\ denseList'[j] = y
        BY <1>3, <1>4, <2>2, <3>1
      <4> QED
        BY <1>6, <1>7, <3>1, <4>1
    <3>2. CASE j # i
      <4>1. denseList'[j] = denseList[j] /\ j \in 1..n /\ j # n
        BY <1>3, <1>4, <2>2, <3>2
      <4>2. denseList[j] \in Indices /\ Pos(denseList[j]) = j /\ Pos(y) = n
        BY <1>3, <4>1, Places DEF PlacesInv, y
      <4>3. denseList[j] # x /\ denseList[j] # y
        BY <1>3, <3>2, <4>1, <4>2
      <4> QED
        BY <1>7, <4>1, <4>2, <4>3
    <3> QED
      BY <3>1, <3>2
  <2> QED
    BY <1>4, <2>1, <2>2 DEF PlacesInv, Pos
<1>10. CountsInv'
  <2>1. /\ Cardinality(On(denseList', p)) = Cardinality(On(denseList, p)) - 1
        /\ \A q : q # p => Cardinality(On(denseList', q)) = Cardinality(On(denseList, q))
        /\ \A q : IsFiniteSet(On(denseList', q))
    <3>1. denseList' = SubSeq([denseList EXCEPT ![i] = denseList[n]], 1, n - 1)
      BY <1>1 DEF y
    <3> HIDE DEF i
    <3>2. LET o == PageOf(denseList[i]) IN
          /\ Cardinality(On(denseList', o)) = Cardinality(On(denseList, o)) - 1
          /\ \A q : q # o => Cardinality(On(denseList', q)) = Cardinality(On(denseList, q))
          /\ \A q : IsFiniteSet(On(denseList', q))
      BY <1>3, <3>1, RemoveCounts
    <3> QED
      BY <1>3, <3>2
  <2>2. /\ p \in DOMAIN pages <=> Cardinality(On(denseList, p)) # 1
        /\ p \in DOMAIN pages => pages[p].numElements = Cardinality(On(denseList, p)) - 1
        /\ \A q : q # p => (q \in DOMAIN pages <=> q \in DOMAIN pageList)
        /\ \A q \in DOMAIN pages : q # p => pages[q].numElements = pageList[q].numElements
    BY <1>1, RemoveFromPages DEF pages
  <2>3. ASSUME NEW q PROVE On(denseList', q) = {} <=> Cardinality(On(denseList', q)) = 0
    BY <2>1, FS_EmptySet
  <2>4. ASSUME NEW q PROVE On(denseList, q) = {} <=> Cardinality(On(denseList, q)) = 0
    BY Places, FS_EmptySet
  <2>5. Cardinality(On(denseList, p)) \in Nat
    BY Places
  <2>6. /\ p \in DOMAIN pageList' <=> On(denseList', p) # {}
        /\ p \in DOMAIN pageList' => pageList'[p].numElements = Cardinality(On(denseList', p))
    BY <1>7, <2>1, <2>2, <2>3, <2>5
  <2>7. ASSUME NEW q, q # p
        PROVE  /\ q \in DOMAIN pageList' <=> On(denseList', q) # {}
               /\ q \in DOMAIN pageList' => pageList'[q].numElements = Cardinality(On(denseList', q))
    <3>1. /\ q \in DOMAIN pageList <=> On(denseList, q) # {}
          /\ q \in DOMAIN pageList => pageList[q].numElements = Cardinality(On(denseList, q))
      BY DEF CountsInv
    <3> QED
      BY <1>7, <2>1, <2>2, <2>3, <2>4, <2>7, <3>1
  <2> QED
    BY <2>6, <2>7 DEF CountsInv
<1>11. PassedInv'
  <2>1. ASSUME NEW j \in 1..n - 1, j <= iter PROVE denseList'[j] \in seen' \union behind'
    <3>1. CASE j = i
      <4>1. denseList'[j] = y /\ y # x /\ i # n
        BY <1>3, <1>4, <1>6, <2>1, <3>1
      <4>2. CASE n > iter
        BY <1>1, <2>1, <3>1, <4>1, <4>2
      <4>3. CASE n <= iter
        <5>1. y \in seen \union behind
          BY <1>3, <4>3 DEF PassedInv, y
        <5> QED
          BY <1>1, <4>1, <5>1
      <4> QED
        BY <1>3, <4>2, <4>3 DEF TypesInv
    <3>2. CASE j # i
      <4>1. denseList'[j] = denseList[j] /\ j \in 1..n
        BY <1>3, <1>4, <2>1, <3>2
      <4>2. denseList[j] # x
        BY <1>3, <3>2, <4>1 DEF PlacesInv
      <4>3. denseList[j] \in seen \union behind
        BY <2>1, <4>1 DEF PassedInv
      <4> QED
        BY <1>1, <4>1, <4>2, <4>3
    <3> QED
      BY <3>1, <3>2
  <2> QED
    BY <1>1, <1>4, <2>1 DEF PassedInv
<1> QED
  BY <1>8, <1>9, <1>10, <1>11
-----------------------------------------------------------------------------
LEMMA SparseStep == SparseInv /\ [SparseNext]_sparseVars => SparseInv'
<1> SUFFICES ASSUME SparseInv, [SparseNext]_sparseVars PROVE SparseInv'
  OBVIOUS
<1>1. ASSUME NEW x \in Indices, AddIfNotExists(x) \/ RemoveIndex(x) PROVE SparseInv'
  BY <1>1, AddStep, RemoveStep
<1> USE DEF SparseInv, TypesInv, PlacesInv, CountsInv, PassedInv, Pos
<1>2. CASE ToStart
  BY <1>2 DEF ToStart
<1>3. CASE NextElement
  BY <1>3 DEF NextElement
<1>4. CASE UNCHANGED sparseVars
  BY <1>4 DEF sparseVars
<1> QED
  BY <1>1, <1>2, <1>3, <1>4 DEF SparseNext

(* For any indices and pages: however elements are added and removed, also *)
(* while an iterator is under way, every element is found through the      *)
(* sparse array, pages come and go with their elements, and an iterator    *)
(* that ends has returned all but what was put at a place it was past.     *)
THEOREM SparseSetIsSound == SparseSpec => []SparseSound
BY InvIsExact, SparseStart, SparseStep, PTL DEF SparseSpec

HIDE SparseAssumption DEF SparseAssumption
-----------------------------------------------------------------------------
(* SortedMap.                                                              *)

USE MapAssumption DEF MapAssumption

Pair == [key : Keys, value : Vals]

Sorted(l) == \A i, j \in 1..Len(l) : i < j => l[i].key < l[j].key

KeysOf(l) == {l[i].key : i \in 1..Len(l)}

MapInv ==
  /\ list \in Seq(Pair) /\ Sorted(list)
  /\ DOMAIN content = KeysOf(list)
  /\ \A i \in 1..Len(list) : content[list[i].key] = list[i].value

LEMMA PairFields ==
  ASSUME NEW l \in Seq(Pair), NEW i \in 1..Len(l)
  PROVE  /\ l[i] \in Pair /\ l[i].key \in Keys /\ l[i].value \in Vals /\ l[i].key \in Int
         /\ l[i] = [key |-> l[i].key, value |-> l[i].value]
<1>1. l[i] \in Pair
  OBVIOUS
<1> QED
  BY <1>1 DEF Pair

-----------------------------------------------------------------------------
(* What the scan of a part of the array returns: no element of it is as    *)
(* large as the key, or one is the first of these.                         *)
None(s, e, key) == \A j \in s..e : ~(list[j].key >= key)

First(s, e, key, i) ==
  /\ i \in s..e /\ list[i].key >= key
  /\ \A j \in s..e : j < i => ~(list[j].key >= key)

LEMMA ScanFirst ==
  ASSUME NEW s \in Nat, NEW e \in Nat, NEW key \in Int, NEW i, First(s, e, key, i)
  PROVE  Scan(s, e, key) = [found |-> list[i].key = key, index |-> i]
<1> DEFINE S == {k \in s..e : list[k].key >= key}
<1>1. i \in S /\ S \subseteq Int /\ \A j \in S : i <= j
  BY DEF First
<1>2. S # {}
  BY <1>1
<1>3. \A k \in S : (\A j \in S : k <= j) => k = i
  BY <1>1
<1>4. (CHOOSE k \in S : \A j \in S : k <= j) = i
  BY <1>1, <1>3
<1> QED
  BY <1>2, <1>4 DEF Scan

LEMMA ScanNone ==
  ASSUME NEW s \in Nat, NEW e \in Nat, NEW key \in Int, None(s, e, key)
  PROVE  Scan(s, e, key) = [found |-> FALSE, index |-> e + 1]
<1>1. {k \in s..e : list[k].key >= key} = {}
  BY DEF None
<1> QED
  BY <1>1 DEF Scan

LEMMA ScanCases ==
  ASSUME NEW s \in Nat, NEW e \in Nat, NEW key \in Int
  PROVE  None(s, e, key) \/ \E i : First(s, e, key, i)
<1> DEFINE S == {k \in s..e : list[k].key >= key}
<1>1. CASE S = {}
  BY <1>1 DEF None
<1>2. CASE S # {}
  <2>1. S \in SUBSET Nat
    OBVIOUS
  <2> HIDE DEF S
  <2>2. PICK i \in S : \A j \in S : i <= j
    BY <1>2, <2>1, LeastExists
  <2>3. \A j \in S : ~(j < i)
    BY <2>1, <2>2
  <2> QED
    BY <2>2, <2>3 DEF S, First
<1> QED
  BY <1>1, <1>2

(* One step of the binary search: the half it goes on with holds what a    *)
(* scan of the whole part finds.                                           *)
LEMMA Middle ==
  ASSUME NEW s \in Nat, NEW e \in Nat, ~(1 + e - s <= Linear)
  PROVE  LET m == s + (1 + e - s) \div 2 IN m \in Nat /\ s < m /\ m <= e
<1>1. PICK n \in Nat : n = 1 + e - s /\ n >= 2
  OBVIOUS
<1>2. n \div 2 \in Nat /\ 1 <= n \div 2 /\ n \div 2 <= n - 1
  BY <1>1
<1> QED
  BY <1>1, <1>2

HalvedAt(s, e, m, key) ==
  /\ m + 1 \in 1..Len(list) + 1 /\ m - 1 \in 0..Len(list)
  /\ list[m].key = key => Scan(s, e, key) = [found |-> TRUE, index |-> m]
  /\ key > list[m].key => Scan(s, e, key) = Scan(m + 1, e, key)
  /\ ~(list[m].key = key) /\ ~(key > list[m].key) => Scan(s, e, key) = Scan(s, m - 1, key)

LEMMA Halves ==
  ASSUME MapInv, NEW key \in Int,
         NEW s \in 1..Len(list) + 1, NEW e \in 0..Len(list),
         NEW m \in Nat, s < m, m <= e
  PROVE  HalvedAt(s, e, m, key)
<1>0. Len(list) \in Nat /\ s \in Nat /\ e \in Nat
  BY DEF MapInv
<1>1. m \in s..e /\ m \in 1..Len(list)
  BY <1>0
<1>2. m + 1 \in 1..Len(list) + 1 /\ m - 1 \in 0..Len(list) /\ m + 1 \in Nat /\ m - 1 \in Nat
  BY <1>0, <1>1
<1>3. \A j \in s..e : j \in 1..Len(list) /\ list[j].key \in Int
  <2> SUFFICES ASSUME NEW j \in s..e PROVE j \in 1..Len(list) /\ list[j].key \in Int
    OBVIOUS
  <2>1. j \in 1..Len(list)
    BY <1>0
  <2>2. list \in Seq(Pair)
    BY DEF MapInv
  <2> QED
    BY ONLY <2>1, <2>2, PairFields
<1>4. /\ \A j \in s..e : j < m => list[j].key < list[m].key
      /\ \A j \in s..e : m < j => list[m].key < list[j].key
  BY <1>1, <1>3 DEF MapInv, Sorted
<1>5. ASSUME list[m].key = key PROVE Scan(s, e, key) = [found |-> TRUE, index |-> m]
  <2>1. First(s, e, key, m)
    BY <1>1, <1>3, <1>4, <1>5 DEF First
  <2>2. Scan(s, e, key) = [found |-> list[m].key = key, index |-> m]
    BY <1>0, <2>1, ScanFirst
  <2>3. (list[m].key = key) = TRUE
    BY <1>5
  <2> QED
    BY <2>2, <2>3
<1>6. ASSUME key > list[m].key PROVE Scan(s, e, key) = Scan(m + 1, e, key)
  <2>1. m + 1..e \subseteq s..e
    BY <1>0, <1>1
  <2>2. ASSUME NEW j \in s..e, j \notin m + 1..e PROVE ~(list[j].key >= key)
    <3>1. j < m \/ j = m
      BY <1>0, <1>1, <2>2
    <3>2. list[j].key \in Int /\ list[m].key \in Int
      BY <1>1, <1>3
    <3>3. j < m => list[j].key < list[m].key
      BY <1>4
    <3>4. CASE j < m
      BY ONLY <1>6, <3>2, <3>3, <3>4, key \in Int
    <3>5. CASE j = m
      BY ONLY <1>6, <3>2, <3>5, key \in Int
    <3> QED
      BY <3>1, <3>4, <3>5
  <2>3. CASE None(m + 1, e, key)
    <3>1. None(s, e, key)
      BY ONLY <2>2, <2>3 DEF None
    <3>2. Scan(s, e, key) = [found |-> FALSE, index |-> e + 1]
      BY <1>0, <3>1, ScanNone
    <3>3. Scan(m + 1, e, key) = [found |-> FALSE, index |-> e + 1]
      BY <1>0, <1>2, <2>3, ScanNone
    <3> QED
      BY ONLY <3>2, <3>3
  <2>4. ASSUME NEW i, First(m + 1, e, key, i)
        PROVE  Scan(s, e, key) = Scan(m + 1, e, key)
    <3>1. First(s, e, key, i)
      BY <2>1, <2>2, <2>4 DEF First
    <3>2. Scan(s, e, key) = [found |-> list[i].key = key, index |-> i]
      BY <1>0, <3>1, ScanFirst
    <3>3. Scan(m + 1, e, key) = [found |-> list[i].key = key, index |-> i]
      BY <1>0, <1>2, <2>4, ScanFirst
    <3> QED
      BY ONLY <3>2, <3>3
  <2> QED
    BY <1>0, <1>2, <2>3, <2>4, ScanCases
<1>7. ASSUME ~(list[m].key = key), ~(key > list[m].key)
      PROVE  Scan(s, e, key) = Scan(s, m - 1, key)
  <2>1. /\ s..m - 1 \subseteq s..e /\ (m - 1) + 1 = m
        /\ \A j \in s..e : j < m => j \in s..m - 1
    BY <1>0, <1>1
  <2>2. list[m].key >= key
    BY <1>1, <1>3, <1>7
  <2>3. CASE None(s, m - 1, key)
    <3>1. Scan(s, m - 1, key) = [found |-> FALSE, index |-> m]
      BY <1>0, <1>2, <2>1, <2>3, ScanNone
    <3>2. First(s, e, key, m)
      BY <1>1, <2>1, <2>2, <2>3 DEF None, First
    <3>3. Scan(s, e, key) = [found |-> list[m].key = key, index |-> m]
      BY <1>0, <3>2, ScanFirst
    <3>4. (list[m].key = key) = FALSE
      BY <1>7
    <3> QED
      BY <3>1, <3>3, <3>4
  <2>4. ASSUME NEW i, First(s, m - 1, key, i)
        PROVE  Scan(s, e, key) = Scan(s, m - 1, key)
    <3>1. i \in s..e /\ i < m /\ \A j \in s..e : j < i => j \in s..m - 1
      BY <1>0, <1>1, <2>1, <2>4 DEF First
    <3>2. First(s, e, key, i)
      BY <2>4, <3>1 DEF First
    <3>3. Scan(s, e, key) = [found |-> list[i].key = key, index |-> i]
      BY <1>0, <3>2, ScanFirst
    <3>4. Scan(s, m - 1, key) = [found |-> list[i].key = key, index |-> i]
      BY <1>0, <1>2, <2>4, ScanFirst
    <3> QED
      BY <3>3, <3>4
  <2> QED
    BY <1>0, <1>2, <2>3, <2>4, ScanCases
<1> QED
  BY <1>2, <1>5, <1>6, <1>7 DEF HalvedAt

(* The binary search returns what a scan would.                            *)
LEMMA RangeFields ==
  /\ \A s \in 1..Len(list) + 1, e \in 0..Len(list) :
       /\ Between(s, e) \in SearchRange
       /\ Between(s, e).start = s /\ Between(s, e).end_incluso = e
  /\ \A r \in SearchRange : r.start \in 1..Len(list) + 1 /\ r.end_incluso \in 0..Len(list)
BY DEF Between, SearchRange

ScanOf(r, key) == Scan(r.start, r.end_incluso, key)

SizeOf(r) == 1 + r.end_incluso - r.start

MiddleOf(r) == r.start + SizeOf(r) \div 2

Lower(r) == Between(r.start, MiddleOf(r) - 1)

Upper(r) == Between(MiddleOf(r) + 1, r.end_incluso)

LEMMA HalvesOf ==
  ASSUME MapInv, NEW key \in Int, NEW r \in SearchRange, ~(SizeOf(r) <= Linear)
  PROVE  /\ Lower(r) \in SearchRange /\ SizeOf(Lower(r)) < SizeOf(r)
         /\ Upper(r) \in SearchRange /\ SizeOf(Upper(r)) < SizeOf(r)
         /\ 0 < SizeOf(r)
         /\ list[MiddleOf(r)].key = key => ScanOf(r, key) = [found |-> TRUE, index |-> MiddleOf(r)]
         /\ key > list[MiddleOf(r)].key => ScanOf(r, key) = ScanOf(Upper(r), key)
         /\ ~(list[MiddleOf(r)].key = key) /\ ~(key > list[MiddleOf(r)].key)
              => ScanOf(r, key) = ScanOf(Lower(r), key)
<1>1. PICK s, e : s = r.start /\ e = r.end_incluso
  OBVIOUS
<1>2. s \in 1..Len(list) + 1 /\ e \in 0..Len(list) /\ s \in Nat /\ e \in Nat /\ Len(list) \in Nat
  BY <1>1, RangeFields DEF MapInv
<1>3. PICK m : m = MiddleOf(r)
  OBVIOUS
<1>4. ~(1 + e - s <= Linear) /\ m = s + (1 + e - s) \div 2
  BY <1>1, <1>3 DEF SizeOf, MiddleOf
<1>5. m \in Nat /\ s < m /\ m <= e
  BY <1>2, <1>4, Middle
<1>6. HalvedAt(s, e, m, key)
  BY <1>2, <1>5, Halves
<1>7. /\ Lower(r) \in SearchRange /\ Lower(r).start = s /\ Lower(r).end_incluso = m - 1
      /\ Upper(r) \in SearchRange /\ Upper(r).start = m + 1 /\ Upper(r).end_incluso = e
  BY <1>1, <1>2, <1>3, <1>6, RangeFields DEF Lower, Upper, HalvedAt
<1>8. /\ ScanOf(r, key) = Scan(s, e, key)
      /\ ScanOf(Lower(r), key) = Scan(s, m - 1, key)
      /\ ScanOf(Upper(r), key) = Scan(m + 1, e, key)
  BY <1>1, <1>7 DEF ScanOf
<1>9. SizeOf(Lower(r)) < SizeOf(r) /\ SizeOf(Upper(r)) < SizeOf(r) /\ 0 < SizeOf(r)
  BY <1>1, <1>2, <1>5, <1>7 DEF SizeOf
<1> QED
  BY <1>3, <1>6, <1>7, <1>8, <1>9 DEF HalvedAt

LEMMA SearchIsScan ==
  ASSUME MapInv, NEW key \in Int, NEW r \in SearchRange
  PROVE  BinarySearch(key)[r] = ScanOf(r, key)
<1> DEFINE Step(f, x) ==
             IF SizeOf(x) <= Linear THEN ScanOf(x, key)
             ELSE IF list[MiddleOf(x)].key = key THEN [found |-> TRUE, index |-> MiddleOf(x)]
             ELSE IF key > list[MiddleOf(x)].key THEN f[Upper(x)]
             ELSE f[Lower(x)]
           Steps(f) == [x \in SearchRange |-> Step(f, x)]
           g == [x \in SearchRange |-> ScanOf(x, key)]
           w == BinarySearch(key)
<1>1. w = CHOOSE f : f = Steps(f)
  BY DEF BinarySearch, SizeOf, ScanOf, MiddleOf, Upper, Lower
<1> HIDE DEF w
<1>2. ASSUME NEW f, NEW x \in SearchRange,
             ~(SizeOf(x) <= Linear) =>
               f[Upper(x)] = ScanOf(Upper(x), key) /\ f[Lower(x)] = ScanOf(Lower(x), key)
      PROVE  Step(f, x) = ScanOf(x, key)
  <2>1. CASE SizeOf(x) <= Linear
    BY <2>1
  <2>2. CASE ~(SizeOf(x) <= Linear)
    <3>1. /\ list[MiddleOf(x)].key = key => ScanOf(x, key) = [found |-> TRUE, index |-> MiddleOf(x)]
          /\ key > list[MiddleOf(x)].key => ScanOf(x, key) = ScanOf(Upper(x), key)
          /\ ~(list[MiddleOf(x)].key = key) /\ ~(key > list[MiddleOf(x)].key)
               => ScanOf(x, key) = ScanOf(Lower(x), key)
      BY <2>2, HalvesOf
    <3> QED
      BY <1>2, <2>2, <3>1
  <2> QED
    BY <2>1, <2>2
<1> HIDE DEF Step
<1>3. g = Steps(g)
  <2>1. ASSUME NEW x \in SearchRange PROVE Step(g, x) = ScanOf(x, key)
    <3>1. \A a \in SearchRange : g[a] = ScanOf(a, key)
      OBVIOUS
    <3>2. ~(SizeOf(x) <= Linear) => Upper(x) \in SearchRange /\ Lower(x) \in SearchRange
      BY HalvesOf
    <3> HIDE DEF g
    <3> QED
      BY <1>2, <3>1, <3>2
  <2> QED
    BY <2>1
<1> HIDE DEF g
<1>4. w = Steps(w)
  <2> HIDE DEF Steps
  <2> QED
    BY <1>1, <1>3, Zenon
<1>5. \A x \in SearchRange : w[x] = Step(w, x)
  <2>1. \A x \in SearchRange : Steps(w)[x] = Step(w, x)
    OBVIOUS
  <2> QED
    BY <1>4, <2>1
<1> HIDE DEF Steps
<1>s. \A x \in SearchRange : SizeOf(x) \in Int
  BY RangeFields DEF MapInv, SizeOf
(* No part is the smallest on which the search and the scan differ.        *)
<1> DEFINE Wrong == {n \in Nat : \E x \in SearchRange : SizeOf(x) <= n /\ w[x] # ScanOf(x, key)}
<1>6. Wrong = {}
  <2> SUFFICES ASSUME Wrong # {} PROVE FALSE
    OBVIOUS
  <2>1. PICK n \in Wrong : \A j \in Wrong : n <= j
    <3>1. Wrong \in SUBSET Nat
      OBVIOUS
    <3> HIDE DEF Wrong
    <3> QED
      BY <3>1, LeastExists
  <2>2. PICK x \in SearchRange : SizeOf(x) <= n /\ w[x] # ScanOf(x, key)
    BY <2>1
  <2>3. n \in Nat /\ SizeOf(x) \in Int
    BY <1>s, <2>1
  <2>4. ASSUME NEW a \in SearchRange, SizeOf(a) < SizeOf(x), 0 < SizeOf(x)
        PROVE  w[a] = ScanOf(a, key)
    <3>1. n - 1 \in Nat /\ SizeOf(a) <= n - 1 /\ ~(n <= n - 1)
      BY <1>s, <2>2, <2>3, <2>4
    <3>2. n - 1 \notin Wrong
      BY <2>1, <3>1
    <3> QED
      BY <3>1, <3>2
  <2> HIDE DEF Wrong
  <2>5. Step(w, x) = ScanOf(x, key)
    <3>1. ~(SizeOf(x) <= Linear) =>
            /\ Upper(x) \in SearchRange /\ SizeOf(Upper(x)) < SizeOf(x)
            /\ Lower(x) \in SearchRange /\ SizeOf(Lower(x)) < SizeOf(x)
            /\ 0 < SizeOf(x)
      BY HalvesOf
    <3> QED
      BY <1>2, <2>4, <3>1
  <2> QED
    BY <1>5, <2>2, <2>5
<1>7. PICK n \in Nat : SizeOf(r) <= n
  <2>1. SizeOf(r) <= 0 \/ (SizeOf(r) \in Nat /\ SizeOf(r) <= SizeOf(r))
    BY <1>s
  <2> QED
    BY <2>1
<1> QED
  BY <1>6, <1>7 DEF w

(* findPosition scans the array.                                           *)
LEMMA FindIsScan ==
  ASSUME MapInv, NEW key \in Int
  PROVE  FindPosition(key) = Scan(1, Len(list), key)
<1>0. Len(list) \in Nat /\ 1 \in 1..Len(list) + 1 /\ Len(list) \in 0..Len(list) /\ list \in Seq(Pair)
  BY DEF MapInv
<1>1. CASE list = <<>>
  <2>1. Len(list) = 0 /\ None(1, Len(list), key)
    BY <1>1 DEF None
  <2>2. Scan(1, Len(list), key) = [found |-> FALSE, index |-> Len(list) + 1]
    BY <1>0, <2>1, ScanNone
  <2> QED
    BY <1>1, <2>1, <2>2 DEF FindPosition
<1>2. CASE list # <<>>
  <2>1. /\ Between(1, Len(list)) \in SearchRange
        /\ ScanOf(Between(1, Len(list)), key) = Scan(1, Len(list), key)
    BY <1>0, RangeFields DEF ScanOf
  <2> QED
    BY <1>2, <2>1, SearchIsScan DEF FindPosition
<1> QED
  BY <1>1, <1>2

(* The position a search returns: every key before it is smaller, no other *)
(* one is, and the key is there or nowhere.                                *)
Where(pos, key) ==
  /\ pos.index \in 1..Len(list) + 1
  /\ \A i \in 1..Len(list) : list[i].key < key <=> i < pos.index
  /\ pos.found => pos.index \in 1..Len(list) /\ list[pos.index].key = key
  /\ pos.found = (key \in KeysOf(list))

LEMMA FindIs ==
  ASSUME MapInv, NEW key \in Int
  PROVE  Where(FindPosition(key), key)
<1> DEFINE n == Len(list)
           pos == FindPosition(key)
<1>0. n \in Nat /\ 1 \in Nat /\ list \in Seq(Pair) /\ Sorted(list)
  BY DEF MapInv
<1> HIDE DEF n, pos
<1>1. \A i \in 1..n : list[i].key \in Int
  BY <1>0, PairFields DEF n
<1>2. \A i, j \in 1..n : i < j => list[i].key < list[j].key
  BY <1>0 DEF Sorted, n
<1>3. pos = Scan(1, n, key)
  BY FindIsScan DEF pos, n
<1>4. CASE None(1, n, key)
  <2>1. pos.found = FALSE /\ pos.index = n + 1
    BY <1>0, <1>3, <1>4, ScanNone
  <2>2. \A i \in 1..n : ~(list[i].key >= key)
    BY <1>4 DEF None
  <2>3. pos.index \in 1..n + 1 /\ \A i \in 1..n : i < pos.index
    BY <1>0, <2>1
  <2>4. \A i \in 1..n : list[i].key < key /\ list[i].key # key
    BY <1>1, <2>2
  <2>5. key \notin KeysOf(list)
    BY <2>4 DEF KeysOf, n
  <2>6. /\ pos.found = (key \in KeysOf(list))
        /\ \A i \in 1..n : list[i].key < key <=> i < pos.index
        /\ ~pos.found
    <3>1. (key \in KeysOf(list)) = FALSE
      BY <2>5
    <3>2. pos.found = (key \in KeysOf(list))
      BY <2>1, <3>1
    <3> QED
      BY <2>1, <2>3, <2>4, <3>2
  <2> QED
    BY <2>3, <2>6 DEF Where, n, pos
<1>5. ASSUME NEW i, First(1, n, key, i) PROVE Where(pos, key)
  <2>1. /\ i \in 1..n /\ list[i].key >= key
        /\ \A j \in 1..n : j < i => ~(list[j].key >= key)
    BY <1>5 DEF First
  <2>2. pos = [found |-> list[i].key = key, index |-> i]
    BY <1>0, <1>3, <1>5, ScanFirst
  <2>3. pos.found = (list[i].key = key) /\ pos.index = i
    BY <2>2
  <2>4. ASSUME NEW j \in 1..n PROVE list[j].key < key <=> j < i
    <3>1. CASE j < i
      BY <1>1, <2>1, <3>1
    <3>2. CASE j = i
      BY <1>1, <2>1, <3>2
    <3>3. CASE i < j
      BY <1>1, <1>2, <2>1, <3>3
    <3> QED
      BY <2>1, <3>1, <3>2, <3>3
  <2>5. key \in KeysOf(list) <=> list[i].key = key
    <3>1. ASSUME NEW j \in 1..n, list[j].key = key PROVE list[i].key = key
      <4>1. ~(j < i) /\ ~(list[j].key < key)
        BY <1>1, <2>4, <3>1
      <4>2. i < j => list[i].key < list[j].key
        BY <1>2, <2>1
      <4>3. i = j
        BY <1>1, <2>1, <3>1, <4>1, <4>2
      <4> QED
        BY <3>1, <4>3
    <3> QED
      BY <2>1, <3>1 DEF KeysOf, n
  <2>6. i \in 1..n + 1
    BY <1>0, <2>1
  <2>7. pos.found = (key \in KeysOf(list))
    BY <2>3, <2>5
  <2> QED
    BY <2>1, <2>3, <2>4, <2>6, <2>7 DEF Where, n
<1> QED
  BY <1>0, <1>4, <1>5, ScanCases DEF pos
-----------------------------------------------------------------------------
(* What a step does to the array keeps it sorted and in step with the      *)
(* content.                                                                *)
MapOf(l, c) ==
  /\ l \in Seq(Pair) /\ Sorted(l)
  /\ DOMAIN c = KeysOf(l)
  /\ \A i \in 1..Len(l) : c[l[i].key] = l[i].value

With(c, key, val) == [k \in DOMAIN c \union {key} |-> IF k = key THEN val ELSE c[k]]

LEMMA InvIsMap == MapInv <=> MapOf(list, content)
BY DEF MapInv, MapOf

LEMMA InsertKeeps ==
  ASSUME MapInv, NEW key \in Keys, NEW val \in Vals, NEW pos, Where(pos, key), ~pos.found
  PROVE  MapOf(InsertAt(list, pos.index, [key |-> key, value |-> val]), With(content, key, val))
<1> DEFINE n == Len(list)
           p == pos.index
           e == [key |-> key, value |-> val]
           t == InsertAt(list, p, e)
           c == With(content, key, val)
<1>a. key \notin KeysOf(list)
  BY DEF Where
<1>0. /\ n \in Nat /\ list \in Seq(Pair) /\ p \in 1..n + 1 /\ key \in Int /\ key \notin KeysOf(list)
      /\ \A i \in 1..n : list[i].key < key <=> i < p
      /\ DOMAIN content = KeysOf(list)
      /\ \A i \in 1..n : content[list[i].key] = list[i].value
      /\ \A i, j \in 1..n : i < j => list[i].key < list[j].key
  BY <1>a DEF MapInv, Where, Sorted
<1>1. e \in Pair /\ e.key = key /\ e.value = val
  BY DEF Pair
<1>2. \A i \in 1..n : list[i] \in Pair /\ list[i].key \in Int /\ list[i].key \in KeysOf(list)
  BY <1>0, PairFields DEF KeysOf
<1>3. \A i \in 1..n : list[i].key # key
  BY <1>0, <1>2
<1> HIDE DEF e, p, n
<1>4. /\ t \in Seq(Pair) /\ Len(t) = n + 1
      /\ \A k \in 1..n + 1 : t[k] = IF k < p THEN list[k] ELSE IF k = p THEN e ELSE list[k - 1]
  <2>1. PICK b : b = p - 1
    OBVIOUS
  <2>2. b \in p - 1..n /\ n - (b - p) = n + 1 /\ b + 1 = p /\ \A k \in Int : k + (b - p) = k - 1
    BY <1>0, <2>1
  <2>3. t = Spliced(list, p, b, e)
    BY <2>2 DEF InsertAt, Spliced, n
  <2>4. /\ Spliced(list, p, b, e) \in Seq(Pair)
        /\ Len(Spliced(list, p, b, e)) = n - (b - p)
        /\ \A k \in 1..n - (b - p) :
              Spliced(list, p, b, e)[k] =
                IF k < p THEN list[k] ELSE IF k = p THEN e ELSE list[k + (b - p)]
    <3>1. p \in 1..Len(list) + 1 /\ b \in p - 1..Len(list) /\ list \in Seq(Pair) /\ e \in Pair
      BY <1>0, <1>1, <2>2 DEF n
    <3>2. Spliced(list, p, b, e) \in Seq(Pair) /\ IsSpliced(Spliced(list, p, b, e), list, p, b, e)
      BY ONLY <3>1, Splice
    <3> QED
      BY ONLY <3>2 DEF IsSpliced, n
  <2> HIDE DEF t
  <2>5. /\ t \in Seq(Pair) /\ Len(t) = n + 1
        /\ \A k \in 1..n + 1 :
              t[k] = IF k < p THEN list[k] ELSE IF k = p THEN e ELSE list[k + (b - p)]
    BY <2>2, <2>3, <2>4
  <2>6. \A k \in 1..n + 1 : k + (b - p) = k - 1
    BY <2>2
  <2> QED
    BY <2>5, <2>6
<1> HIDE DEF t
<1>5. ASSUME NEW k \in 1..n + 1
      PROVE  \/ k < p /\ k \in 1..n /\ t[k] = list[k] /\ list[k].key < key
             \/ k = p /\ t[k] = e
             \/ p < k /\ k - 1 \in 1..n /\ t[k] = list[k - 1] /\ key < list[k - 1].key
  <2>1. CASE k < p
    <3>1. k \in 1..n
      BY <1>0, <2>1
    <3> QED
      BY <1>0, <1>4, <2>1, <3>1
  <2>2. CASE k = p
    BY <1>4, <2>2
  <2>3. CASE p < k
    <3>1. k - 1 \in 1..n /\ ~(k - 1 < p) /\ ~(k < p) /\ k # p
      BY <1>0, <2>3
    <3>2. ~(list[k - 1].key < key) /\ list[k - 1].key \in Int /\ list[k - 1].key # key
      BY <1>0, <1>2, <1>3, <3>1
    <3> QED
      BY <1>0, <1>4, <2>3, <3>1, <3>2
  <2> QED
    BY <1>0, <2>1, <2>2, <2>3
<1>6. Sorted(t)
  <2> SUFFICES ASSUME NEW i \in 1..n + 1, NEW j \in 1..n + 1, i < j PROVE t[i].key < t[j].key
    BY <1>4 DEF Sorted
  <2>1. \/ i < p /\ i \in 1..n /\ t[i] = list[i] /\ list[i].key < key
        \/ i = p /\ t[i] = e
        \/ p < i /\ i - 1 \in 1..n /\ t[i] = list[i - 1] /\ key < list[i - 1].key
    BY <1>5
  <2>2. \/ j < p /\ j \in 1..n /\ t[j] = list[j] /\ list[j].key < key
        \/ j = p /\ t[j] = e
        \/ p < j /\ j - 1 \in 1..n /\ t[j] = list[j - 1] /\ key < list[j - 1].key
    BY <1>5
  <2>3. CASE i < p /\ j < p
    <3>1. i \in 1..n /\ j \in 1..n /\ t[i] = list[i] /\ t[j] = list[j]
      BY <1>0, <2>1, <2>2, <2>3
    <3> QED
      BY <1>0, <3>1
  <2>4. CASE i < p /\ j = p
    <3>1. i \in 1..n /\ t[i] = list[i] /\ list[i].key < key /\ t[j] = e
      BY <1>0, <2>1, <2>2, <2>4
    <3> QED
      BY <1>1, <3>1
  <2>5. CASE i < p /\ p < j
    <3>1. /\ i \in 1..n /\ j - 1 \in 1..n /\ t[i] = list[i] /\ t[j] = list[j - 1]
          /\ list[i].key < key /\ key < list[j - 1].key
      BY <1>0, <2>1, <2>2, <2>5
    <3>2. list[i].key \in Int /\ list[j - 1].key \in Int /\ key \in Int
      BY <1>0, <1>2, <3>1
    <3>3. list[i].key < list[j - 1].key
      BY ONLY <3>1, <3>2
    <3> QED
      BY ONLY <3>1, <3>3
  <2>6. CASE i = p /\ p < j
    <3>1. j - 1 \in 1..n /\ t[i] = e /\ t[j] = list[j - 1] /\ key < list[j - 1].key
      BY <1>0, <2>1, <2>2, <2>6
    <3> QED
      BY <1>1, <3>1
  <2>7. CASE p < i /\ p < j
    <3>1. /\ i - 1 \in 1..n /\ j - 1 \in 1..n /\ t[i] = list[i - 1] /\ t[j] = list[j - 1]
          /\ i - 1 < j - 1
      BY <1>0, <2>1, <2>2, <2>7
    <3> QED
      BY <1>0, <3>1
  <2> QED
    BY <1>0, <2>3, <2>4, <2>5, <2>6, <2>7
<1>7. p \in 1..n + 1 /\ t[p] = e
  BY <1>0, <1>4
<1>8. ASSUME NEW i \in 1..n PROVE \E k \in 1..n + 1 : t[k] = list[i]
  <2>1. CASE i < p
    <3>1. i \in 1..n + 1
      BY <1>0
    <3> QED
      BY <1>4, <2>1, <3>1
  <2>2. CASE ~(i < p)
    <3>1. i + 1 \in 1..n + 1 /\ ~(i + 1 < p) /\ i + 1 # p /\ (i + 1) - 1 = i
      BY <1>0, <2>2
    <3>2. t[i + 1] = list[i]
      BY <1>4, <3>1
    <3> QED
      BY <3>1, <3>2
  <2> QED
    BY <2>1, <2>2
<1>9. KeysOf(t) = KeysOf(list) \union {key}
  <2>1. KeysOf(t) = {t[k].key : k \in 1..n + 1} /\ KeysOf(list) = {list[i].key : i \in 1..n}
    BY <1>4 DEF KeysOf, n
  <2>2. ASSUME NEW k \in 1..n + 1 PROVE t[k].key \in KeysOf(list) \union {key}
    BY <1>1, <1>2, <1>5
  <2>3. \A i \in 1..n : \E k \in 1..n + 1 : t[k] = list[i]
    BY <1>8
  <2> QED
    BY ONLY <1>1, <1>7, <2>1, <2>2, <2>3
<1>10. DOMAIN c = KeysOf(list) \union {key} /\ c[key] = val
       /\ \A k \in KeysOf(list) : c[k] = content[k]
  BY <1>0 DEF With
<1> HIDE DEF c
<1>11. ASSUME NEW k \in 1..n + 1 PROVE c[t[k].key] = t[k].value
  <2>1. \/ k \in 1..n /\ t[k] = list[k]
        \/ t[k] = e
        \/ k - 1 \in 1..n /\ t[k] = list[k - 1]
    BY <1>5
  <2>2. \A i \in 1..n : c[list[i].key] = list[i].value
    BY <1>0, <1>2, <1>10
  <2> QED
    BY ONLY <1>1, <1>10, <2>1, <2>2
<1>12. MapOf(t, c)
  BY <1>4, <1>6, <1>9, <1>10, <1>11 DEF MapOf
<1> QED
  BY <1>12 DEF t, c, e, p

LEMMA ReplaceKeeps ==
  ASSUME MapInv, NEW key \in Keys, NEW val \in Vals, NEW pos, Where(pos, key), pos.found
  PROVE  MapOf([list EXCEPT ![pos.index].value = val], With(content, key, val))
<1> DEFINE n == Len(list)
           p == pos.index
           t == [list EXCEPT ![p].value = val]
           c == With(content, key, val)
<1>0. /\ n \in Nat /\ list \in Seq(Pair) /\ p \in 1..n /\ key \in Int
      /\ list[p].key = key
      /\ DOMAIN content = KeysOf(list)
      /\ \A i \in 1..n : content[list[i].key] = list[i].value
      /\ \A i, j \in 1..n : i < j => list[i].key < list[j].key
  <2>1. /\ n \in Nat /\ list \in Seq(Pair) /\ p \in 1..n /\ key \in Int
        /\ list[p].key = key
    <3>1. p \in 1..n /\ list[p].key = key
      BY Zenon DEF Where
    <3>2. list \in Seq(Pair)
      BY DEF MapInv
    <3>3. key \in Int
      BY ONLY MapAssumption, key \in Keys DEF MapAssumption
    <3> QED
      BY ONLY <3>1, <3>2, <3>3
  <2>2. /\ DOMAIN content = KeysOf(list)
        /\ \A i \in 1..n : content[list[i].key] = list[i].value
    BY DEF MapInv
  <2>3. \A i, j \in 1..n : i < j => list[i].key < list[j].key
    BY DEF MapInv, Sorted
  <2> QED
    BY <2>1, <2>2, <2>3
<1>2. \A i \in 1..n : list[i] \in Pair /\ list[i].key \in Int /\ list[i].key \in KeysOf(list)
  BY <1>0, PairFields DEF KeysOf
<1>1. PICK e : e = [key |-> key, value |-> val]
  OBVIOUS
<1>3. e \in Pair /\ e.key = key /\ e.value = val
  BY <1>1 DEF Pair
<1>4. t = [list EXCEPT ![p] = e]
  <2>1. [list[p] EXCEPT !.value = val] = e
    <3>1. list[p] = [key |-> key, value |-> list[p].value]
      BY <1>0, PairFields
    <3>2. PICK v : v = list[p].value
      OBVIOUS
    <3>3. list[p] = [key |-> key, value |-> v]
      BY <3>1, <3>2
    <3> QED
      BY ONLY <1>1, <3>3
  <2> QED
    BY <1>0, <2>1
<1> HIDE DEF p, n, t
<1>5. /\ t \in Seq(Pair) /\ Len(t) = n /\ t[p] = e
      /\ \A k \in 1..n : k # p => t[k] = list[k]
  BY <1>0, <1>3, <1>4 DEF n
<1>6. \A k \in 1..n : t[k].key = list[k].key
  BY <1>0, <1>3, <1>5
<1>7. Sorted(t)
  BY <1>0, <1>5, <1>6 DEF Sorted
<1>8. KeysOf(t) = KeysOf(list)
  BY <1>5, <1>6 DEF KeysOf, n
<1>9. DOMAIN c = KeysOf(list) /\ c[key] = val /\ \A k \in KeysOf(list) : k # key => c[k] = content[k]
  BY <1>0, <1>2 DEF With
<1> HIDE DEF c
<1>10. ASSUME NEW k \in 1..n PROVE c[t[k].key] = t[k].value
  <2>1. CASE k = p
    BY <1>3, <1>5, <1>9, <2>1
  <2>2. CASE k # p
    <3>1. list[k].key # key
      BY <1>0, <1>2, <2>2
    <3> QED
      BY <1>0, <1>2, <1>5, <1>9, <2>2, <3>1
  <2> QED
    BY <2>1, <2>2
<1>11. MapOf(t, c)
  BY <1>5, <1>7, <1>8, <1>9, <1>10 DEF MapOf
<1> QED
  BY <1>11 DEF t, c, p

LEMMA RemoveKeeps ==
  ASSUME MapInv, NEW key \in Keys, NEW pos, Where(pos, key), pos.found
  PROVE  MapOf(RemoveAt(list, pos.index), [k \in DOMAIN content \ {key} |-> content[k]])
<1> DEFINE n == Len(list)
           p == pos.index
           t == RemoveAt(list, p)
           c == [k \in DOMAIN content \ {key} |-> content[k]]
<1>0. /\ n \in Nat /\ list \in Seq(Pair) /\ p \in 1..n /\ key \in Int
      /\ list[p].key = key
      /\ DOMAIN content = KeysOf(list)
      /\ \A i \in 1..n : content[list[i].key] = list[i].value
      /\ \A i, j \in 1..n : i < j => list[i].key < list[j].key
  <2>1. /\ n \in Nat /\ list \in Seq(Pair) /\ p \in 1..n /\ key \in Int
        /\ list[p].key = key
    <3>1. p \in 1..n /\ list[p].key = key
      BY Zenon DEF Where
    <3>2. list \in Seq(Pair)
      BY DEF MapInv
    <3>3. key \in Int
      BY ONLY MapAssumption, key \in Keys DEF MapAssumption
    <3> QED
      BY ONLY <3>1, <3>2, <3>3
  <2>2. /\ DOMAIN content = KeysOf(list)
        /\ \A i \in 1..n : content[list[i].key] = list[i].value
    BY DEF MapInv
  <2>3. \A i, j \in 1..n : i < j => list[i].key < list[j].key
    BY DEF MapInv, Sorted
  <2> QED
    BY <2>1, <2>2, <2>3
<1>2. \A i \in 1..n : list[i] \in Pair /\ list[i].key \in Int /\ list[i].key \in KeysOf(list)
  BY <1>0, PairFields DEF KeysOf
<1> HIDE DEF p
<1>4. /\ t \in Seq(Pair) /\ Len(t) = n - 1
      /\ \A k \in 1..n - 1 : t[k] = IF k < p THEN list[k] ELSE list[k + 1]
  BY <1>0, Cut
<1> HIDE DEF n, t
<1>5. ASSUME NEW k \in 1..n - 1
      PROVE  \/ k < p /\ k \in 1..n /\ t[k] = list[k]
             \/ ~(k < p) /\ k + 1 \in 1..n /\ k + 1 # p /\ t[k] = list[k + 1]
  <2>1. k \in 1..n /\ k + 1 \in 1..n /\ (~(k < p) => k + 1 # p)
    BY <1>0
  <2> QED
    BY <1>4, <2>1
<1>6. Sorted(t)
  <2> SUFFICES ASSUME NEW i \in 1..n - 1, NEW j \in 1..n - 1, i < j PROVE t[i].key < t[j].key
    BY <1>4 DEF Sorted
  <2>1. CASE i < p /\ j < p
    BY <1>0, <1>5, <2>1
  <2>2. CASE i < p /\ ~(j < p)
    <3>1. i \in 1..n /\ t[i] = list[i] /\ j + 1 \in 1..n /\ t[j] = list[j + 1] /\ i < j + 1
      BY <1>0, <1>5, <2>2
    <3> QED
      BY <1>0, <3>1
  <2>3. CASE ~(i < p)
    <3>1. /\ i + 1 \in 1..n /\ t[i] = list[i + 1] /\ j + 1 \in 1..n /\ t[j] = list[j + 1]
          /\ i + 1 < j + 1
      BY <1>0, <1>5, <2>3
    <3> QED
      BY <1>0, <3>1
  <2> QED
    BY <2>1, <2>2, <2>3
<1>7. \A i \in 1..n : i # p => list[i].key # key
  BY <1>0, <1>2
<1>8. KeysOf(t) = KeysOf(list) \ {key}
  <2>1. KeysOf(t) = {t[k].key : k \in 1..n - 1} /\ KeysOf(list) = {list[i].key : i \in 1..n}
    BY <1>4 DEF KeysOf, n
  <2>2. ASSUME NEW k \in 1..n - 1 PROVE t[k].key \in KeysOf(list) /\ t[k].key # key
    <3>1. PICK i \in 1..n : i # p /\ t[k] = list[i]
      BY <1>0, <1>5
    <3> QED
      BY <1>2, <1>7, <3>1
  <2>3. ASSUME NEW i \in 1..n, list[i].key # key PROVE \E k \in 1..n - 1 : t[k] = list[i]
    <3>1. CASE i < p
      <4>1. i \in 1..n - 1
        BY <1>0, <3>1
      <4> QED
        BY <1>4, <3>1, <4>1
    <3>2. CASE ~(i < p)
      <4>1. i # p
        BY <1>0, <2>3
      <4>2. i - 1 \in 1..n - 1 /\ ~(i - 1 < p) /\ (i - 1) + 1 = i
        BY <1>0, <3>2, <4>1
      <4>3. t[i - 1] = list[i]
        BY <1>4, <4>2
      <4> QED
        BY <4>2, <4>3
    <3> QED
      BY <3>1, <3>2
  <2> QED
    BY <2>1, <2>2, <2>3
<1>9. DOMAIN c = KeysOf(list) \ {key} /\ \A k \in KeysOf(list) \ {key} : c[k] = content[k]
  BY <1>0
<1> HIDE DEF c
<1>10. ASSUME NEW k \in 1..n - 1 PROVE c[t[k].key] = t[k].value
  <2>1. PICK i \in 1..n : i # p /\ t[k] = list[i]
    BY <1>0, <1>5
  <2> QED
    BY <1>0, <1>2, <1>7, <1>9, <2>1
<1>11. MapOf(t, c)
  BY <1>4, <1>6, <1>8, <1>9, <1>10 DEF MapOf
<1> QED
  BY <1>11 DEF t, c, p
-----------------------------------------------------------------------------
LEMMA MapStart == MapInit => MapInv
<1> SUFFICES ASSUME MapInit PROVE MapInv
  OBVIOUS
<1>1. list = <<>> /\ content = <<>> /\ Len(list) = 0 /\ DOMAIN content = {}
  BY DEF MapInit
<1> QED
  BY <1>1 DEF MapInv, Sorted, KeysOf

LEMMA MapStep == MapInv /\ [MapNext]_mapVars => MapInv'
<1> SUFFICES ASSUME MapInv, [MapNext]_mapVars PROVE MapInv'
  OBVIOUS
<1>0. ASSUME MapOf(list', content') PROVE MapInv'
  BY <1>0 DEF MapOf, MapInv
<1>s. ASSUME UNCHANGED mapVars PROVE MapInv'
  BY <1>s DEF mapVars, MapInv
<1>f. \A key \in Keys : Where(FindPosition(key), key)
  BY FindIs
<1>1. ASSUME NEW key \in Keys, NEW val \in Vals, InsertIfNotExists(key, val) PROVE MapInv'
  <2>1. PICK pos : pos = FindPosition(key) /\ Where(pos, key)
    BY <1>f
  <2>2. CASE pos.found
    BY <1>1, <1>s, <2>1, <2>2 DEF InsertIfNotExists
  <2>3. CASE ~pos.found
    <3>1. /\ list' = InsertAt(list, pos.index, [key |-> key, value |-> val])
          /\ content' = With(content, key, val)
      BY <1>1, <2>1, <2>3 DEF InsertIfNotExists, With
    <3>2. MapOf(InsertAt(list, pos.index, [key |-> key, value |-> val]), With(content, key, val))
      BY <2>1, <2>3, InsertKeeps
    <3>3. MapOf(list', content')
      BY <3>1, <3>2
    <3> QED
      BY <1>0, <3>3
  <2> QED
    BY <2>2, <2>3
<1>2. ASSUME NEW key \in Keys, NEW val \in Vals, InsertOrReplaceValue(key, val) PROVE MapInv'
  <2>1. PICK pos : pos = FindPosition(key) /\ Where(pos, key)
    BY <1>f
  <2>2. CASE pos.found
    <3>1. /\ list' = [list EXCEPT ![pos.index].value = val]
          /\ content' = With(content, key, val)
      BY <1>2, <2>1, <2>2 DEF InsertOrReplaceValue, With
    <3>2. MapOf([list EXCEPT ![pos.index].value = val], With(content, key, val))
      BY <2>1, <2>2, ReplaceKeeps
    <3>3. MapOf(list', content')
      BY <3>1, <3>2
    <3> QED
      BY <1>0, <3>3
  <2>3. CASE ~pos.found
    <3>1. /\ list' = InsertAt(list, pos.index, [key |-> key, value |-> val])
          /\ content' = With(content, key, val)
      BY <1>2, <2>1, <2>3 DEF InsertOrReplaceValue, With
    <3>2. MapOf(InsertAt(list, pos.index, [key |-> key, value |-> val]), With(content, key, val))
      BY <2>1, <2>3, InsertKeeps
    <3>3. MapOf(list', content')
      BY <3>1, <3>2
    <3> QED
      BY <1>0, <3>3
  <2> QED
    BY <2>2, <2>3
<1>3. ASSUME NEW key \in Keys, RemoveKey(key) PROVE MapInv'
  <2>1. PICK pos : pos = FindPosition(key) /\ Where(pos, key)
    BY <1>f
  <2>2. CASE ~pos.found
    BY <1>3, <1>s, <2>1, <2>2 DEF RemoveKey
  <2>3. CASE pos.found
    <3>1. /\ list' = RemoveAt(list, pos.index)
          /\ content' = [k \in DOMAIN content \ {key} |-> content[k]]
      BY <1>3, <2>1, <2>3 DEF RemoveKey
    <3>2. MapOf(RemoveAt(list, pos.index), [k \in DOMAIN content \ {key} |-> content[k]])
      BY <2>1, <2>3, RemoveKeeps
    <3>3. MapOf(list', content')
      BY <3>1, <3>2
    <3> QED
      BY <1>0, <3>3
  <2> QED
    BY <2>2, <2>3
<1> QED
  BY <1>1, <1>2, <1>3, <1>s DEF MapNext

LEMMA MapImplied == MapInv => SearchExact
<1> SUFFICES ASSUME MapInv PROVE SearchExact
  OBVIOUS
<1>0. /\ list \in Seq(Pair) /\ Len(list) \in Nat /\ DOMAIN list = 1..Len(list)
      /\ DOMAIN content = KeysOf(list)
      /\ \A i \in 1..Len(list) : content[list[i].key] = list[i].value
  BY DEF MapInv
<1>1. ASSUME NEW key \in Keys
      PROVE  LET pos == FindPosition(key)
             IN  /\ pos.found = (key \in DOMAIN content)
                 /\ pos.found => list[pos.index] = [key |-> key, value |-> content[key]]
                 /\ \A i \in DOMAIN list : list[i].key < key <=> i < pos.index
  <2>1. PICK pos : pos = FindPosition(key) /\ Where(pos, key)
    BY FindIs
  <2>2. /\ pos.found = (key \in KeysOf(list))
        /\ \A i \in 1..Len(list) : list[i].key < key <=> i < pos.index
        /\ pos.found => pos.index \in 1..Len(list) /\ list[pos.index].key = key
    BY <2>1 DEF Where
  <2>3. ASSUME pos.found PROVE list[pos.index] = [key |-> key, value |-> content[key]]
    <3>1. PICK i \in 1..Len(list) : i = pos.index /\ list[i].key = key
      BY <2>2, <2>3
    <3>2. list[i] = [key |-> list[i].key, value |-> list[i].value]
      BY <1>0, PairFields
    <3>3. content[key] = list[i].value
      BY <1>0, <3>1
    <3> QED
      BY <3>1, <3>2, <3>3
  <2> QED
    BY <1>0, <2>1, <2>2, <2>3
<1>2. SortedOnce
  <2>1. \A i \in 1..Len(list) - 1 : i \in 1..Len(list) /\ i + 1 \in 1..Len(list) /\ i < i + 1
    BY <1>0
  <2>2. \A i \in 1..Len(list) - 1 : list[i].key < list[i + 1].key
    BY <2>1 DEF MapInv, Sorted
  <2> QED
    BY <1>0, <2>2 DEF SortedOnce, KeysOf
<1> QED
  BY <1>1, <1>2 DEF SearchExact

(* Whatever was inserted, replaced and removed before, the search finds    *)
(* exactly the keys that are present, with their values, and tells where   *)
(* each other key belongs: for any number of elements, and for any number  *)
(* of them that is scanned one by one (gosHashMap.h:358-414).              *)
THEOREM SearchIsExact == MapSpec => []SearchExact
<1>1. MapSpec => []MapInv
  BY MapStart, MapStep, PTL DEF MapSpec
<1> QED
  BY <1>1, MapImplied, PTL

HIDE MapAssumption DEF MapAssumption
-----------------------------------------------------------------------------
(* HandleList.                                                             *)

(* Arithmetic modulo N.                                           *)
LEMMA ModSplit ==
  ASSUME NEW N \in Nat \ {0, 1}, NEW a \in Nat
  PROVE  /\ a % N \in 0..N - 1
         /\ a \div N \in Nat
         /\ a = N * (a \div N) + (a % N)
OBVIOUS

LEMMA ModUnique ==
  ASSUME NEW N \in Nat \ {0, 1}, NEW a \in Nat, NEW q \in Nat, NEW r \in 0..N - 1, a = N * q + r
  PROVE  a % N = r
OBVIOUS

LEMMA ModShift ==
  ASSUME NEW N \in Nat \ {0, 1}, NEW a \in Nat, NEW n \in 0..N - 1
  PROVE  (a + n) % N = IF (a % N) + n < N
                                  THEN (a % N) + n
                                  ELSE ((a % N) + n) - N
<1> DEFINE q == a \div N
           r == a % N
<1>1. q \in Nat /\ r \in 0..N - 1 /\ a = N * q + r
  BY ModSplit
<1> HIDE DEF q, r
<1>4. N * q \in Nat /\ a + n \in Nat
  BY <1>1
<1>2. CASE r + n < N
  <2>1. r + n \in 0..N - 1 /\ a + n = N * q + (r + n)
    BY <1>1, <1>2
  <2>2. (a + n) % N = r + n
    BY <1>1, <2>1, ModUnique
  <2> QED
    BY <1>2, <2>2 DEF r
<1>3. CASE ~(r + n < N)
  <2>1. (r + n) - N \in 0..N - 1
    BY <1>1, <1>3
  <2>2. N * (q + 1) = N * q + N
    BY <1>1
  <2>3. q + 1 \in Nat /\ a + n = N * (q + 1) + ((r + n) - N)
    BY <1>1, <2>2
  <2>4. (a + n) % N = (r + n) - N
    <3> DEFINE m == a + n
               t == (r + n) - N
    <3>1. m \in Nat /\ t \in 0..N - 1 /\ q + 1 \in Nat /\ m = N * (q + 1) + t
      BY <1>4, <2>1, <2>3
    <3> HIDE DEF m, t
    <3>2. m % N = t
      BY <3>1, ModUnique
    <3> QED
      BY <3>2 DEF m, t
  <2> QED
    BY <1>3, <2>4 DEF r
<1> QED
  BY <1>2, <1>3

LEMMA ModSucc ==
  ASSUME NEW N \in Nat \ {0, 1}, NEW a \in Nat
  PROVE  ((a % N) + 1) % N = (a + 1) % N
<1> DEFINE r == a % N
<1>1. r \in 0..N - 1 /\ r \in Nat /\ 1 \in 0..N - 1
  BY ModSplit
<1>2. (a + 1) % N = IF r + 1 < N THEN r + 1 ELSE (r + 1) - N
  BY <1>1, ModShift
<1> HIDE DEF r
<1>3. (r + 1) % N = IF r + 1 < N THEN r + 1 ELSE (r + 1) - N
  <2>1. CASE r + 1 < N
    BY <1>1, <2>1
  <2>2. CASE r + 1 = N
    BY <1>1, <2>2
  <2> QED
    BY <1>1, <2>1, <2>2
<1> QED
  BY <1>2, <1>3 DEF r

LEMMA ModDistinct ==
  ASSUME NEW N \in Nat \ {0, 1}, NEW a \in Nat, NEW n \in 1..N - 1
  PROVE  (a + n) % N # (a % N)
<1> DEFINE r == a % N
<1>1. n \in 0..N - 1 /\ r \in 0..N - 1
  BY ModSplit
<1>2. (a + n) % N = IF r + n < N THEN r + n ELSE (r + n) - N
  BY <1>1, ModShift
<1> HIDE DEF r
<1>3. (a + n) % N # r
  BY <1>1, <1>2
<1> QED
  BY <1>3 DEF r
-----------------------------------------------------------------------------
(* Sequences: taking the head away and putting a new one.                  *)
LEMMA TailFacts ==
  ASSUME NEW S, NEW s \in Seq(S), s # <<>>
  PROVE  /\ Tail(s) \in Seq(S)
         /\ Len(s) \in Nat \ {0}
         /\ Len(Tail(s)) = Len(s) - 1
         /\ s[1] \in S
         /\ \A k \in 1..Len(s) - 1 : Tail(s)[k] = s[k + 1]
OBVIOUS

LEMMA ConsFacts ==
  ASSUME NEW S, NEW s \in Seq(S), NEW x \in S
  PROVE  /\ <<x>> \o s \in Seq(S)
         /\ <<x>> \o s # <<>>
         /\ Len(s) \in Nat
         /\ Len(<<x>> \o s) = Len(s) + 1
         /\ (<<x>> \o s)[1] = x
         /\ \A k \in 1..Len(s) : (<<x>> \o s)[k + 1] = s[k]
OBVIOUS

LEMMA EmptyIsLenZero ==
  ASSUME NEW S, NEW s \in Seq(S)
  PROVE  s = <<>> <=> Len(s) = 0
OBVIOUS

(* Taking the first element of a list, and putting one in front of it.     *)
LEMMA ListTail ==
  ASSUME NEW S, NEW s \in Seq(S), s # <<>>, NEW next, NEW head, IsList(s, head, next)
  PROVE  head = s[1] /\ IsList(Tail(s), next[head], next)
<1> DEFINE t == Tail(s)
<1>1. /\ t \in Seq(S) /\ Len(s) \in Nat \ {0} /\ Len(t) = Len(s) - 1
      /\ \A k \in 1..Len(s) - 1 : t[k] = s[k + 1]
  BY TailFacts
<1>2. t = <<>> <=> Len(t) = 0
  BY <1>1, EmptyIsLenZero
<1> HIDE DEF t
<1>3. head = s[1]
  BY DEF IsList
<1>4. next[head] = IF t = <<>> THEN EndOfList ELSE t[1]
  BY <1>1, <1>2, <1>3 DEF IsList
<1>5. ASSUME NEW k \in 1..Len(t)
      PROVE  next[t[k]] = IF k = Len(t) THEN EndOfList ELSE t[k + 1]
  <2>1. k + 1 \in 1..Len(s) /\ k \in 1..Len(s) - 1 /\ t[k] = s[k + 1]
    BY <1>1
  <2>2. next[s[k + 1]] = IF k + 1 = Len(s) THEN EndOfList ELSE s[(k + 1) + 1]
    BY <2>1 DEF IsList
  <2>3. CASE k = Len(t)
    BY <1>1, <2>1, <2>2, <2>3
  <2>4. CASE k # Len(t)
    <3>1. k + 1 \in 1..Len(s) - 1
      BY <1>1, <2>1, <2>4
    <3>2. t[k + 1] = s[(k + 1) + 1] /\ k + 1 # Len(s)
      BY <1>1, <3>1
    <3> QED
      BY <2>1, <2>2, <2>4, <3>2
  <2> QED
    BY <2>3, <2>4
<1> QED
  BY <1>3, <1>4, <1>5 DEF IsList, t

LEMMA EnumerateTail ==
  ASSUME NEW S, NEW U, NEW s \in Seq(U), s # <<>>, Enumerates(s, S)
  PROVE  s[1] \in S /\ Enumerates(Tail(s), S \ {s[1]})
<1> DEFINE t == Tail(s)
<1>1. /\ Len(s) \in Nat \ {0} /\ Len(t) = Len(s) - 1
      /\ \A k \in 1..Len(s) - 1 : t[k] = s[k + 1]
  BY TailFacts
<1> HIDE DEF t
<1>2. s[1] \in S
  BY <1>1 DEF Enumerates
<1>3. ASSUME NEW x \in S \ {s[1]}
      PROVE  \E k \in 1..Len(t) : t[k] = x
  <2>1. PICK k \in 1..Len(s) : s[k] = x
    BY DEF Enumerates
  <2>2. k # 1 /\ k - 1 \in 1..Len(t) /\ (k - 1) + 1 = k
    BY <1>1, <2>1
  <2>3. t[k - 1] = x
    BY <1>1, <2>1, <2>2
  <2> QED
    BY <2>2, <2>3
<1>4. ASSUME NEW k \in 1..Len(t)
      PROVE  t[k] \in S \ {s[1]}
  BY <1>1 DEF Enumerates
<1>5. ASSUME NEW j \in 1..Len(t), NEW k \in 1..Len(t), t[j] = t[k]
      PROVE  j = k
  <2>1. j + 1 \in 1..Len(s) /\ k + 1 \in 1..Len(s) /\ s[j + 1] = s[k + 1]
    BY <1>1, <1>5
  <2>2. j + 1 = k + 1
    BY <2>1 DEF Enumerates
  <2> QED
    BY <1>1, <2>2
<1> QED
  BY <1>2, <1>3, <1>4, <1>5 DEF Enumerates, t

LEMMA ListCons ==
  ASSUME NEW S, NEW s \in Seq(S), NEW x \in S, NEW next, NEW head, NEW newNext,
         IsList(s, head, next),
         \A k \in 1..Len(s) : s[k] # x,
         \A y \in S : newNext[y] = IF y = x THEN head ELSE next[y]
  PROVE  IsList(<<x>> \o s, x, newNext)
<1> DEFINE t == <<x>> \o s
<1>1. /\ t # <<>> /\ Len(s) \in Nat /\ Len(t) = Len(s) + 1 /\ t[1] = x
      /\ \A k \in 1..Len(s) : t[k + 1] = s[k]
  BY ConsFacts
<1>2. s = <<>> <=> Len(s) = 0
  BY EmptyIsLenZero
<1>3. \A k \in 1..Len(s) : s[k] \in S
  OBVIOUS
<1> HIDE DEF t
<1>4. newNext[t[1]] = IF 1 = Len(t) THEN EndOfList ELSE t[1 + 1]
  <2>1. newNext[x] = head
    OBVIOUS
  <2>2. CASE s = <<>>
    BY <1>1, <1>2, <2>1, <2>2 DEF IsList
  <2>3. CASE s # <<>>
    <3>1. 1 \in 1..Len(s) /\ 1 # Len(t)
      BY <1>1, <1>2, <2>3
    <3>2. t[1 + 1] = s[1] /\ head = s[1]
      BY <1>1, <2>3, <3>1 DEF IsList
    <3> QED
      BY <1>1, <2>1, <3>1, <3>2
  <2> QED
    BY <2>2, <2>3
<1>5. ASSUME NEW k \in 1..Len(s)
      PROVE  newNext[t[k + 1]] = IF k + 1 = Len(t) THEN EndOfList ELSE t[(k + 1) + 1]
  <2>1. newNext[s[k]] = next[s[k]]
    BY <1>3
  <2>2. newNext[t[k + 1]] = IF k = Len(s) THEN EndOfList ELSE s[k + 1]
    BY <1>1, <2>1 DEF IsList
  <2>3. CASE k = Len(s)
    BY <1>1, <2>2, <2>3
  <2>4. CASE k # Len(s)
    <3>1. k + 1 \in 1..Len(s) /\ k + 1 # Len(t)
      BY <1>1, <2>4
    <3> QED
      BY <1>1, <2>2, <2>4, <3>1
  <2> QED
    BY <2>3, <2>4
<1>6. ASSUME NEW k \in 1..Len(t)
      PROVE  newNext[t[k]] = IF k = Len(t) THEN EndOfList ELSE t[k + 1]
  <2>1. CASE k = 1
    BY <1>4, <2>1
  <2>2. CASE k # 1
    <3>1. k - 1 \in 1..Len(s) /\ (k - 1) + 1 = k
      BY <1>1, <2>2
    <3>2. newNext[t[(k - 1) + 1]] = IF (k - 1) + 1 = Len(t) THEN EndOfList ELSE t[((k - 1) + 1) + 1]
      BY <1>5, <3>1
    <3> QED
      BY <3>1, <3>2
  <2> QED
    BY <2>1, <2>2
<1>7. x = IF t = <<>> THEN EndOfList ELSE t[1]
  BY <1>1
<1> QED
  BY <1>6, <1>7 DEF IsList, t

LEMMA EnumerateCons ==
  ASSUME NEW S, NEW U, NEW s \in Seq(U), NEW x \in U, x \notin S, Enumerates(s, S)
  PROVE  Enumerates(<<x>> \o s, S \union {x})
<1> DEFINE t == <<x>> \o s
<1>1. /\ Len(s) \in Nat /\ Len(t) = Len(s) + 1 /\ t[1] = x
      /\ \A k \in 1..Len(s) : t[k + 1] = s[k]
  BY ConsFacts
<1> HIDE DEF t
<1>2. ASSUME NEW y \in S \union {x}
      PROVE  \E k \in 1..Len(t) : t[k] = y
  <2>1. CASE y = x
    <3>1. 1 \in 1..Len(t)
      BY <1>1
    <3> QED
      BY <1>1, <2>1, <3>1
  <2>2. CASE y # x
    <3>1. PICK k \in 1..Len(s) : s[k] = y
      BY <2>2 DEF Enumerates
    <3>2. k + 1 \in 1..Len(t) /\ t[k + 1] = y
      BY <1>1, <3>1
    <3> QED
      BY <3>2
  <2> QED
    BY <2>1, <2>2
<1>3. \A k \in 1..Len(t) : k = 1 \/ (k - 1 \in 1..Len(s) /\ t[k] = s[k - 1])
  <2> SUFFICES ASSUME NEW k \in 1..Len(t), k # 1
               PROVE  k - 1 \in 1..Len(s) /\ t[k] = s[k - 1]
    OBVIOUS
  <2>1. k - 1 \in 1..Len(s) /\ (k - 1) + 1 = k
    BY <1>1
  <2>2. t[(k - 1) + 1] = s[k - 1]
    BY <1>1, <2>1
  <2> QED
    BY <2>1, <2>2
<1>4. ASSUME NEW k \in 1..Len(t)
      PROVE  t[k] \in S \union {x}
  BY <1>1, <1>3 DEF Enumerates
<1>5. ASSUME NEW j \in 1..Len(t), NEW k \in 1..Len(t), t[j] = t[k]
      PROVE  j = k
  <2>1. \A i \in 1..Len(s) : s[i] # x
    BY DEF Enumerates
  <2>2. j = 1 <=> k = 1
    BY <1>1, <1>3, <1>5, <2>1
  <2>3. CASE j # 1 /\ k # 1
    <3>1. j - 1 \in 1..Len(s) /\ k - 1 \in 1..Len(s) /\ s[j - 1] = s[k - 1]
      BY <1>3, <1>5, <2>3
    <3>2. j - 1 = k - 1
      BY <3>1 DEF Enumerates
    <3> QED
      BY <1>1, <3>2
  <2> QED
    BY <2>2, <2>3
<1> QED
  BY <1>2, <1>4, <1>5 DEF Enumerates, t
-----------------------------------------------------------------------------
(* The counter of a record tells, modulo 2^C, how often it was released.   *)
CounterInv == \A r \in Chunk \X Index :
                curCounter[r[1]][r[2]] = (reuse[r] + 1) % NumCounter

UsedInMemory == \A r \in used : r[1] \in allocated

IInv == TypeOK /\ FreeListLinked /\ FreeListExact /\ CounterInv /\ UsedInMemory

LEMMA Constants ==
  /\ NumCounter \in Nat \ {0, 1}
  /\ MaxReuse \in Nat
  /\ 0 \in Chunk
  /\ 0 \in Index
  /\ EndOfList \notin Index
  /\ 1 \in Counter
  /\ Counter = 0..NumCounter - 1
<1>1. /\ NumChunk \in Nat \ {0} /\ PerChunk \in Nat \ {0} /\ PerChunk =< 32768
      /\ NumCounter \in Nat \ {0, 1} /\ MaxReuse \in Nat
  BY HandleListAssumption DEF HandleListAssumption
<1>2. 0 \in Chunk /\ 1 \in Counter /\ Counter = 0..NumCounter - 1
  BY ONLY <1>1 DEF Chunk, Counter
<1>3. 0 \in Index /\ EndOfList \notin Index
  BY ONLY <1>1 DEF Index, EndOfList
<1> QED
  BY ONLY <1>1, <1>2, <1>3

LEMMA FreshList ==
  /\ FreshFree \in Seq(Index)
  /\ FreshNext \in [Index -> Index \union {EndOfList}]
  /\ IsList(FreshFree, 0, FreshNext)
  /\ Enumerates(FreshFree, Index)
<1>1. PerChunk \in Nat \ {0} /\ PerChunk =< 32768
  BY HandleListAssumption DEF HandleListAssumption
<1>2. FreshFree \in Seq(Index) /\ Len(FreshFree) = PerChunk /\ FreshFree # <<>>
  <2>1. \A k \in 1..PerChunk : k - 1 \in Index
    BY <1>1 DEF Index
  <2>2. FreshFree \in Seq(Index) /\ Len(FreshFree) = PerChunk
    BY ONLY <1>1, <2>1 DEF FreshFree
  <2> QED
    BY ONLY <1>1, <2>2
<1>3. FreshNext \in [Index -> Index \union {EndOfList}]
  BY <1>1 DEF FreshNext, Index, EndOfList
<1>4. IsList(FreshFree, 0, FreshNext)
  BY <1>1, <1>2 DEF IsList, FreshFree, FreshNext, Index
<1>5. Enumerates(FreshFree, Index)
  <2>1. \A i \in Index : i + 1 \in 1..PerChunk /\ FreshFree[i + 1] = i
    BY <1>1 DEF FreshFree, Index
  <2>2. \A k \in 1..PerChunk : FreshFree[k] = k - 1 /\ k - 1 \in Index
    BY <1>1 DEF FreshFree, Index
  <2> QED
    BY <1>1, <1>2, <2>1, <2>2 DEF Enumerates
<1> QED
  BY <1>2, <1>3, <1>4, <1>5

LEMMA InitInv == Init => IInv
<1> SUFFICES ASSUME Init PROVE IInv
  OBVIOUS
<1>1. 1 % NumCounter = 1
  BY Constants
<1>2. TypeOK
  BY Constants, FreshList DEF Init, TypeOK, FreshCounter
<1>3. FreeListLinked
  BY FreshList DEF Init, FreeListLinked
<1>4. FreeListExact
  <2>1. ASSUME NEW c \in Chunk PROVE NotUsed(c) = Index
    BY DEF Init, NotUsed
  <2> QED
    BY <2>1, FreshList DEF Init, FreeListExact
<1>5. CounterInv
  BY <1>1 DEF Init, CounterInv, FreshCounter
<1>6. UsedInMemory
  BY DEF Init, UsedInMemory
<1> QED
  BY <1>2, <1>3, <1>4, <1>5, <1>6 DEF IInv

LEMMA ReserveKeeps == ASSUME IInv, NEW c \in Chunk, Reserve(c) PROVE IInv'
<1> DEFINE i == firstFree[c]
<1>1. /\ TypeOK /\ FreeListLinked /\ FreeListExact /\ CounterInv /\ UsedInMemory
  BY DEF IInv
<1>2. /\ free[c] \in Seq(Index)
      /\ IsList(free[c], i, nextFree[c])
      /\ Enumerates(free[c], NotUsed(c))
  BY <1>1 DEF TypeOK, FreeListLinked, FreeListExact
<1>3. free[c] # <<>>
  BY <1>2 DEF IsList, Reserve, HasFree
<1>4. i = free[c][1] /\ i \in Index /\ Tail(free[c]) \in Seq(Index)
  BY <1>2, <1>3, TailFacts DEF IsList
<1>5. IsList(Tail(free[c]), nextFree[c][i], nextFree[c])
  BY <1>2, <1>3, ListTail
<1>6. i \in NotUsed(c) /\ Enumerates(Tail(free[c]), NotUsed(c) \ {i})
  BY <1>2, <1>3, <1>4, EnumerateTail
<1> HIDE DEF i
<1>7. /\ firstFree' = [firstFree EXCEPT ![c] = nextFree[c][i]]
      /\ free' = [free EXCEPT ![c] = Tail(free[c])]
      /\ used' = used \union {<<c, i>>}
      /\ allocated' = allocated \union {c}
      /\ result' = "reserved"
      /\ UNCHANGED <<nextFree, curCounter, reuse>>
  BY <1>1 DEF Reserve, TypeOK, i
<1>8. TypeOK'
  BY <1>1, <1>4, <1>7 DEF TypeOK
<1>9. FreeListLinked'
  BY <1>1, <1>5, <1>7 DEF FreeListLinked, TypeOK
<1>10. FreeListExact'
  <2>1. NotUsed(c)' = NotUsed(c) \ {i}
    BY <1>7 DEF NotUsed
  <2>2. ASSUME NEW b \in Chunk, b # c PROVE NotUsed(b)' = NotUsed(b)
    BY <1>7, <2>2 DEF NotUsed
  <2> QED
    BY <1>1, <1>6, <1>7, <2>1, <2>2 DEF FreeListExact, TypeOK
<1>11. CounterInv' /\ UsedInMemory'
  BY <1>1, <1>7 DEF CounterInv, UsedInMemory
<1> QED
  BY <1>8, <1>9, <1>10, <1>11 DEF IInv

LEMMA ReleaseKeeps == ASSUME IInv, NEW h \in Handle, Release(h) PROVE IInv'
<1> DEFINE c == h.chunk
           i == h.index
<1>1. /\ TypeOK /\ FreeListLinked /\ FreeListExact /\ CounterInv /\ UsedInMemory
  BY DEF IInv
<1>2. c \in Chunk /\ i \in Index /\ h.counter \in Counter /\ h = [chunk |-> c, index |-> i, counter |-> h.counter]
  BY DEF Handle
<1>3. h.counter = (reuse[<<c, i>>] + 1) % NumCounter /\ <<c, i>> \in used /\ reuse[<<c, i>>] < MaxReuse
  BY DEF Release, Live, Issued
<1>4. /\ curCounter' = [curCounter EXCEPT ![c][i] = (h.counter + 1) % NumCounter]
      /\ nextFree' = [nextFree EXCEPT ![c][i] = firstFree[c]]
      /\ firstFree' = [firstFree EXCEPT ![c] = i]
      /\ result' = "released"
      /\ used' = used \ {<<c, i>>}
      /\ reuse' = [reuse EXCEPT ![<<c, i>>] = reuse[<<c, i>>] + 1]
      /\ free' = [free EXCEPT ![c] = <<i>> \o free[c]]
      /\ UNCHANGED allocated
  BY <1>1, <1>2 DEF Release, TypeOK
<1> HIDE DEF c, i
<1>5. /\ free[c] \in Seq(Index)
      /\ IsList(free[c], firstFree[c], nextFree[c])
      /\ Enumerates(free[c], NotUsed(c))
  BY <1>1, <1>2 DEF TypeOK, FreeListLinked, FreeListExact
<1>6. i \notin NotUsed(c)
  BY <1>3 DEF NotUsed
<1>7. \A k \in 1..Len(free[c]) : free[c][k] # i
  BY <1>5, <1>6 DEF Enumerates
<1>8. \A y \in Index : nextFree'[c][y] = IF y = i THEN firstFree[c] ELSE nextFree[c][y]
  BY <1>1, <1>2, <1>4 DEF TypeOK
<1>9. IsList(<<i>> \o free[c], i, nextFree'[c])
  BY <1>2, <1>5, <1>7, <1>8, ListCons
<1>10. Enumerates(<<i>> \o free[c], NotUsed(c) \union {i})
  BY <1>2, <1>5, <1>6, EnumerateCons
<1>11. reuse[<<c, i>>] \in Nat /\ reuse[<<c, i>>] + 1 \in 0..MaxReuse
  BY <1>1, <1>2, <1>3, Constants DEF TypeOK
<1>12. (h.counter + 1) % NumCounter \in Counter
  BY <1>2, Constants
<1>13. (h.counter + 1) % NumCounter = ((reuse[<<c, i>>] + 1) + 1) % NumCounter
  <2> DEFINE n == reuse[<<c, i>>] + 1
  <2>1. n \in Nat /\ h.counter = n % NumCounter
    BY <1>3, <1>11
  <2> HIDE DEF n
  <2>2. ((n % NumCounter) + 1) % NumCounter = (n + 1) % NumCounter
    BY <2>1, ModSucc, Constants
  <2> QED
    BY <2>1, <2>2 DEF n
<1>14. TypeOK'
  <2>1. <<i>> \o free[c] \in Seq(Index)
    BY <1>2, <1>5, ConsFacts
  <2>2. firstFree[c] \in Index \union {EndOfList}
    BY <1>1, <1>2 DEF TypeOK
  <2>3. nextFree' \in [Chunk -> [Index -> Index \union {EndOfList}]]
    BY <1>1, <1>2, <1>4, <2>2 DEF TypeOK
  <2>4. curCounter' \in [Chunk -> [Index -> Counter]]
    BY <1>1, <1>2, <1>4, <1>12 DEF TypeOK
  <2> QED
    BY <1>1, <1>2, <1>4, <1>11, <2>1, <2>3, <2>4 DEF TypeOK
<1>15. FreeListLinked'
  <2>1. ASSUME NEW b \in Chunk, b # c
        PROVE  firstFree'[b] = firstFree[b] /\ nextFree'[b] = nextFree[b] /\ free'[b] = free[b]
    BY <1>1, <1>4, <2>1 DEF TypeOK
  <2>2. firstFree'[c] = i /\ free'[c] = <<i>> \o free[c]
    BY <1>1, <1>2, <1>4 DEF TypeOK
  <2> QED
    BY <1>1, <1>9, <2>1, <2>2 DEF FreeListLinked
<1>16. FreeListExact'
  <2>1. NotUsed(c)' = NotUsed(c) \union {i}
    BY <1>2, <1>4 DEF NotUsed
  <2>2. ASSUME NEW b \in Chunk, b # c PROVE NotUsed(b)' = NotUsed(b) /\ free'[b] = free[b]
    BY <1>1, <1>4, <2>2 DEF NotUsed, TypeOK
  <2>3. free'[c] = <<i>> \o free[c]
    BY <1>1, <1>2, <1>4 DEF TypeOK
  <2> QED
    BY <1>1, <1>10, <2>1, <2>2, <2>3 DEF FreeListExact
<1>17. CounterInv'
  <2> SUFFICES ASSUME NEW b \in Chunk, NEW j \in Index
               PROVE  curCounter'[b][j] = (reuse'[<<b, j>>] + 1) % NumCounter
    BY DEF CounterInv
  <2>1. CASE b = c /\ j = i
    BY <1>1, <1>2, <1>4, <1>13, <2>1 DEF TypeOK
  <2>2. CASE ~(b = c /\ j = i)
    <3>1. curCounter'[b][j] = curCounter[b][j] /\ reuse'[<<b, j>>] = reuse[<<b, j>>]
      BY <1>1, <1>2, <1>4, <2>2 DEF TypeOK
    <3>2. <<b, j>> \in Chunk \X Index /\ <<b, j>>[1] = b /\ <<b, j>>[2] = j
      OBVIOUS
    <3> QED
      BY <1>1, <3>1, <3>2 DEF CounterInv
  <2> QED
    BY <2>1, <2>2
<1>18. UsedInMemory'
  BY <1>1, <1>4 DEF UsedInMemory
<1> QED
  BY <1>14, <1>15, <1>16, <1>17, <1>18 DEF IInv

LEMMA NextInv == IInv /\ [Next]_vars => IInv'
<1> SUFFICES ASSUME IInv, [Next]_vars PROVE IInv'
  OBVIOUS
<1>1. ASSUME NEW c \in Chunk, Reserve(c) PROVE IInv'
  BY <1>1, ReserveKeeps
<1>2. ASSUME ReserveFails PROVE IInv'
  BY <1>2 DEF ReserveFails, IInv, TypeOK, FreeListLinked, FreeListExact, NotUsed,
              CounterInv, UsedInMemory
<1>3. ASSUME NEW h \in Handle, Release(h) PROVE IInv'
  BY <1>3, ReleaseKeeps
<1>4. ASSUME NEW h \in Handle, ReleaseStale(h) PROVE IInv'
  BY <1>4 DEF ReleaseStale, IInv, TypeOK, FreeListLinked, FreeListExact, NotUsed,
              CounterInv, UsedInMemory
<1>5. CASE UNCHANGED vars
  BY <1>5 DEF vars, IInv, TypeOK, FreeListLinked, FreeListExact, NotUsed,
              CounterInv, UsedInMemory
<1> QED
  BY <1>1, <1>2, <1>3, <1>4, <1>5 DEF Next

LEMMA InvHolds == Spec => []IInv
BY InitInv, NextInv, PTL DEF Spec

(* The types hold in every reachable state, for every layout of a handle.  *)
THEOREM TypeCorrect == Spec => []TypeOK
<1>1. IInv => TypeOK
  BY DEF IInv
<1> QED
  BY <1>1, InvHolds, PTL

(* The free list of every chunk is well linked and holds exactly the       *)
(* records nobody uses: no record is lost, none is given out twice.        *)
THEOREM FreeListsAreExact == Spec => [](FreeListLinked /\ FreeListExact)
<1>1. IInv => FreeListLinked /\ FreeListExact
  BY DEF IInv
<1> QED
  BY <1>1, InvHolds, PTL

(* A handle resolves from its reserve to its release.                      *)
THEOREM LiveHandlesResolve == Spec => []LiveResolves
<1>1. IInv => LiveResolves
  <2> SUFFICES ASSUME IInv, NEW r \in used
               PROVE  r[1] \in allocated /\ Resolves(Issued(r[1], r[2], reuse[r]))
    BY DEF LiveResolves
  <2>1. r \in Chunk \X Index
    BY DEF IInv, TypeOK
  <2> QED
    BY <2>1 DEF IInv, UsedInMemory, CounterInv, Resolves, Issued
<1> QED
  BY <1>1, InvHolds, PTL

(* A handle released less than 2^C releases of its record ago does not     *)
(* resolve, whoever uses the record now.                                   *)
THEOREM StaleHandlesRejected == Spec => []StaleRejected
<1>1. IInv => StaleRejected
  <2> SUFFICES ASSUME IInv, NEW h \in Handle, NEW n \in 1..NumCounter - 1, Stale(h, n)
               PROVE  ~Resolves(h)
    BY DEF StaleRejected
  <2> DEFINE r == <<h.chunk, h.index>>
             a == (reuse[r] - n) + 1
  <2>1. r \in Chunk \X Index /\ r[1] = h.chunk /\ r[2] = h.index
    BY DEF Handle
  <2>2. reuse[r] \in Nat /\ n \in 1..reuse[r]
    BY <2>1, Constants DEF IInv, TypeOK, Stale
  <2>3. h.counter = a % NumCounter
    BY DEF Stale, Issued
  <2>4. curCounter[h.chunk][h.index] = (reuse[r] + 1) % NumCounter
    BY <2>1 DEF IInv, CounterInv
  <2>5. a \in Nat /\ reuse[r] + 1 = a + n
    BY <2>2
  <2> HIDE DEF a
  <2>6. (a + n) % NumCounter # (a % NumCounter)
    BY <2>5, Constants, ModDistinct
  <2> QED
    BY <2>3, <2>4, <2>5, <2>6 DEF Resolves
<1> QED
  BY <1>1, InvHolds, PTL

LEMMA FailsWhenFull == IInv /\ ReserveFails => used = Chunk \X Index
<1> SUFFICES ASSUME IInv, ReserveFails, NEW c \in Chunk, NEW i \in Index
             PROVE  <<c, i>> \in used
  BY DEF IInv, TypeOK
<1>1. firstFree[c] = EndOfList /\ EndOfList \notin Index
  BY Constants DEF ReserveFails, HasFree
<1>2. /\ free[c] \in Seq(Index)
      /\ IsList(free[c], firstFree[c], nextFree[c])
      /\ Enumerates(free[c], NotUsed(c))
  BY DEF IInv, TypeOK, FreeListLinked, FreeListExact
<1>3. free[c] = <<>>
  <2>1. free[c] # <<>> => free[c][1] \in Index /\ firstFree[c] = free[c][1]
    BY <1>2, TailFacts DEF IsList
  <2> QED
    BY <1>1, <2>1
<1>4. Len(free[c]) = 0
  BY <1>2, <1>3, EmptyIsLenZero
<1>5. i \notin NotUsed(c)
  BY <1>2, <1>4 DEF Enumerates
<1> QED
  BY <1>5 DEF NotUsed

(* reserve scans every chunk: it gives up only when each record of each    *)
(* chunk is in use.                                                        *)
THEOREM ReserveFailsOnlyWhenFull == Spec => []FullMeansFull
<1>1. Init => FullMeansFull
  BY DEF Init, FullMeansFull
<1>2. IInv /\ FullMeansFull /\ [Next]_vars => FullMeansFull'
  <2> SUFFICES ASSUME IInv, FullMeansFull, [Next]_vars, result' = "full"
               PROVE  used' = Chunk \X Index
    BY DEF FullMeansFull, Chunk, Index
  <2>1. ASSUME NEW c \in Chunk, Reserve(c) PROVE FALSE
    BY <2>1 DEF Reserve
  <2>2. ASSUME NEW h \in Handle, Release(h) \/ ReleaseStale(h) PROVE FALSE
    BY <2>2 DEF Release, ReleaseStale
  <2>3. CASE ReserveFails
    BY <2>3, FailsWhenFull DEF ReserveFails
  <2>4. CASE UNCHANGED vars
    BY <2>4 DEF vars, FullMeansFull
  <2> QED
    BY <2>1, <2>2, <2>3, <2>4 DEF Next
<1> QED
  BY <1>1, <1>2, InvHolds, PTL DEF Spec
-----------------------------------------------------------------------------
(* ObjectPool.                                                             *)

USE PoolAssumption DEF PoolAssumption

Links == [Position -> 0..NumPerPage + 1]
PoolPage == [freeList : 0..NumPerPage + 1, num_free : Nat]

(* s is the list of a page: it visits different objects, starts at         *)
(* freeList, follows the links and ends.                                   *)
Threaded(page, links, s) ==
  /\ s \in Seq(Position)
  /\ Len(s) = page.num_free
  /\ page.freeList = IF Len(s) = 0 THEN EndOfPage ELSE s[1]
  /\ \A k \in 1..Len(s) : links[s[k]] = IF k = Len(s) THEN EndOfPage ELSE s[k + 1]
  /\ \A j, k \in 1..Len(s) : s[j] = s[k] => j = k

Objects(s) == {s[k] : k \in 1..Len(s)}

(* alloc takes the first object of the list, and its client writes in it.  *)
LEMMA TakeFirst ==
  ASSUME NEW page \in PoolPage, NEW links \in Links, NEW s, Threaded(page, links, s),
         page.num_free # 0
  PROVE  LET i == page.freeList IN
         /\ i \in Position
         /\ i \in Objects(s)
         /\ Objects(Tail(s)) = Objects(s) \ {i}
         /\ Threaded([freeList |-> links[i], num_free |-> page.num_free - 1],
                     [links EXCEPT ![i] = Written], Tail(s))
<1> DEFINE i == page.freeList
           n == page.num_free
           t == Tail(s)
           after == [links EXCEPT ![i] = Written]
<1>1. /\ s \in Seq(Position) /\ Len(s) = n /\ n \in Nat /\ n # 0 /\ s # <<>> /\ i = s[1]
      /\ \A k \in 1..n : s[k] \in Position
      /\ \A k \in 1..n : links[s[k]] = IF k = n THEN EndOfPage ELSE s[k + 1]
      /\ \A j, k \in 1..n : s[j] = s[k] => j = k
  BY DEF Threaded, PoolPage
<1>2. /\ t \in Seq(Position) /\ Len(t) = n - 1
      /\ \A k \in 1..n - 1 : t[k] = s[k + 1]
  BY <1>1, HeadTailProperties
<1> HIDE DEF t, n, i
<1>3. 1 \in 1..n /\ i \in Position
  BY <1>1
<1>4. \A k \in 1..n - 1 : t[k] \in Position /\ t[k] # i /\ after[t[k]] = links[t[k]]
  <2>1. ASSUME NEW k \in 1..n - 1 PROVE t[k] \in Position /\ t[k] # i
    <3>1. k + 1 \in 1..n /\ k + 1 # 1 /\ t[k] = s[k + 1]
      BY <1>1, <1>2
    <3> QED
      BY <1>1, <1>3, <3>1
  <2> QED
    BY <2>1 DEF Links
<1>5. \A k \in 1..n - 1 : after[t[k]] = IF k = n - 1 THEN EndOfPage ELSE t[k + 1]
  <2> TAKE k \in 1..n - 1
  <2>1. k + 1 \in 1..n /\ t[k] = s[k + 1] /\ (k # n - 1 => t[k + 1] = s[k + 2] /\ k + 1 # n)
        /\ (k = n - 1 => k + 1 = n) /\ (k + 1) + 1 = k + 2
    BY <1>1, <1>2
  <2>2. links[s[k + 1]] = IF k + 1 = n THEN EndOfPage ELSE s[(k + 1) + 1]
    BY <1>1, <2>1
  <2> QED
    BY <1>4, <2>1, <2>2
<1>6. links[i] = IF n - 1 = 0 THEN EndOfPage ELSE t[1]
  <2>1. links[s[1]] = IF 1 = n THEN EndOfPage ELSE s[1 + 1]
    BY <1>1, <1>3
  <2>2. n # 1 => t[1] = s[1 + 1]
    BY <1>1, <1>2
  <2> QED
    BY <1>1, <2>1, <2>2
<1>7. \A j, k \in 1..n - 1 : t[j] = t[k] => j = k
  <2> TAKE j, k \in 1..n - 1
  <2>1. j + 1 \in 1..n /\ k + 1 \in 1..n /\ t[j] = s[j + 1] /\ t[k] = s[k + 1]
    BY <1>1, <1>2
  <2>2. s[j + 1] = s[k + 1] => j + 1 = k + 1
    BY <1>1, <2>1
  <2>3. j + 1 = k + 1 => j = k
    OBVIOUS
  <2> QED
    BY <2>1, <2>2, <2>3
<1>8. Objects(t) = Objects(s) \ {i}
  <2>1. ASSUME NEW x \in Objects(t) PROVE x \in Objects(s) \ {i}
    <3>1. PICK k \in 1..n - 1 : x = t[k]
      BY <1>2 DEF Objects
    <3>2. k + 1 \in 1..n /\ x = s[k + 1]
      BY <1>1, <1>2, <3>1
    <3> QED
      BY <1>1, <1>4, <3>1, <3>2 DEF Objects
  <2>2. ASSUME NEW x \in Objects(s) \ {i} PROVE x \in Objects(t)
    <3>1. PICK k \in 1..n : x = s[k] /\ k # 1
      BY <1>1 DEF Objects
    <3>2. k - 1 \in 1..n - 1 /\ (k - 1) + 1 = k
      BY <1>1, <3>1
    <3>3. x = t[k - 1]
      BY <1>2, <3>1, <3>2
    <3> QED
      BY <1>2, <3>2, <3>3 DEF Objects
  <2> QED
    BY <2>1, <2>2
<1>9. i \in Objects(s)
  BY <1>1, <1>3 DEF Objects
<1>10. Threaded([freeList |-> links[i], num_free |-> n - 1], after, t)
  BY <1>2, <1>5, <1>6, <1>7 DEF Threaded
<1> QED
  BY <1>3, <1>8, <1>9, <1>10 DEF i, n, t

(* free puts the object in front of the list.                              *)
LEMMA PutFirst ==
  ASSUME NEW page \in PoolPage, NEW links \in Links, NEW s, Threaded(page, links, s),
         NEW i \in Position, i \notin Objects(s)
  PROVE  \E t : /\ Objects(t) = Objects(s) \union {i}
                /\ Threaded([freeList |-> i, num_free |-> page.num_free + 1],
                            [links EXCEPT ![i] = page.freeList], t)
<1> DEFINE n == page.num_free
           t == [k \in 1..n + 1 |-> IF k = 1 THEN i ELSE s[k - 1]]
           after == [links EXCEPT ![i] = page.freeList]
<1>1. /\ s \in Seq(Position) /\ Len(s) = n /\ n \in Nat
      /\ page.freeList = IF n = 0 THEN EndOfPage ELSE s[1]
      /\ \A k \in 1..n : s[k] \in Position /\ s[k] # i
      /\ \A k \in 1..n : links[s[k]] = IF k = n THEN EndOfPage ELSE s[k + 1]
      /\ \A j, k \in 1..n : s[j] = s[k] => j = k
  BY DEF Threaded, PoolPage, Objects
<1>2. \A k \in 1..n + 1 : k = 1 \/ (k - 1 \in 1..n /\ k # 1)
  BY <1>1
<1>3. /\ t[1] = i
      /\ \A k \in 1..n + 1 : k # 1 => t[k] = s[k - 1]
  BY <1>1
<1>4. t \in Seq(Position) /\ Len(t) = n + 1
  <2>1. \A k \in 1..n + 1 : (IF k = 1 THEN i ELSE s[k - 1]) \in Position
    BY <1>1, <1>2
  <2>2. n + 1 \in Nat
    BY <1>1
  <2> HIDE DEF n
  <2> QED
    BY <2>1, <2>2
<1> HIDE DEF t, n
<1>5. after[i] = page.freeList /\ \A x \in Position : x # i => after[x] = links[x]
  BY DEF Links
<1> HIDE DEF after
<1>6. \A k \in 1..n + 1 : after[t[k]] = IF k = n + 1 THEN EndOfPage ELSE t[k + 1]
  <2> TAKE k \in 1..n + 1
  <2>1. CASE k = 1
    <3>1. n # 0 => 2 \in 1..n + 1 /\ t[2] = s[1]
      BY <1>1, <1>3
    <3> QED
      BY <1>1, <1>3, <1>5, <2>1, <3>1
  <2>2. CASE k # 1
    <3>1. k - 1 \in 1..n /\ (k - 1) + 1 = k /\ (k = n + 1 <=> k - 1 = n) /\ t[k] = s[k - 1]
      BY <1>1, <1>3, <2>2
    <3>2. after[t[k]] = IF k - 1 = n THEN EndOfPage ELSE s[k]
      BY <1>1, <1>5, <3>1
    <3>3. k # n + 1 => k + 1 \in 1..n + 1 /\ t[k + 1] = s[k]
      <4>1. k # n + 1 => k + 1 \in 1..n + 1 /\ k + 1 # 1 /\ (k + 1) - 1 = k
        BY <1>1
      <4> QED
        BY <1>3, <4>1
    <3> QED
      BY <3>1, <3>2, <3>3
  <2> QED
    BY <2>1, <2>2
<1>7. \A j, k \in 1..n + 1 : t[j] = t[k] => j = k
  <2> TAKE j, k \in 1..n + 1
  <2>1. j = 1 \/ (j - 1 \in 1..n /\ j # 1)
    BY <1>2
  <2>2. k = 1 \/ (k - 1 \in 1..n /\ k # 1)
    BY <1>2
  <2>3. j - 1 = k - 1 => j = k
    BY <1>1
  <2> QED
    BY <1>1, <1>3, <2>1, <2>2, <2>3
<1>8. Objects(t) = Objects(s) \union {i}
  <2>1. ASSUME NEW x \in Objects(t) PROVE x \in Objects(s) \union {i}
    BY <1>1, <1>2, <1>3, <1>4, <2>1 DEF Objects
  <2>2. ASSUME NEW x \in Objects(s) PROVE x \in Objects(t)
    <3>1. PICK k \in 1..n : x = s[k]
      BY <1>1, <2>2 DEF Objects
    <3>2. k + 1 \in 1..n + 1 /\ k + 1 # 1 /\ (k + 1) - 1 = k
      BY <1>1
    <3>3. t[k + 1] = x
      BY <1>3, <3>1, <3>2
    <3> QED
      BY <1>4, <3>2, <3>3 DEF Objects
  <2>3. 1 \in 1..n + 1
    BY <1>1
  <2>4. i \in Objects(t)
    BY <1>3, <1>4, <2>3 DEF Objects
  <2> QED
    BY ONLY <2>1, <2>2, <2>4
<1>9. Threaded([freeList |-> i, num_free |-> n + 1], after, t)
  BY <1>1, <1>3, <1>4, <1>6, <1>7 DEF Threaded
<1> QED
  BY <1>8, <1>9 DEF n, after

(* A new page threads its objects in their order.                          *)
LEMMA FreshThreaded ==
  /\ FreshPage \in PoolPage /\ FreshLink \in Links
  /\ \E s : Threaded(FreshPage, FreshLink, s) /\ Objects(s) = Position
<1> DEFINE s == [k \in 1..NumPerPage |-> k]
<1>1. FreshPage \in PoolPage /\ FreshLink \in Links
  BY DEF FreshPage, FreshLink, PoolPage, Links, Position, EndOfPage
<1>2. s \in Seq(Position) /\ Len(s) = NumPerPage /\ \A k \in 1..NumPerPage : s[k] = k
  BY DEF Position
<1> HIDE DEF s
<1>3. Objects(s) = Position
  BY <1>2 DEF Objects, Position
<1>4. Threaded(FreshPage, FreshLink, s)
  BY <1>2 DEF Threaded, FreshPage, FreshLink, Position
<1> QED
  BY <1>1, <1>3, <1>4
-----------------------------------------------------------------------------
(* The invariant: every page has a list of the objects that nobody holds.  *)

FreeObjects(p) == {i \in Position : <<p, i>> \notin inUse}

PoolInv ==
  /\ poolPages \in Seq(PoolPage) /\ link \in Seq(Links) /\ Len(link) = Len(poolPages)
  /\ inUse \subseteq (1..Len(poolPages)) \X Position
  /\ \A p \in 1..Len(poolPages) :
       \E s : Threaded(poolPages[p], link[p], s) /\ Objects(s) = FreeObjects(p)

LEMMA PoolStart == PoolInit => PoolInv
<1> SUFFICES ASSUME PoolInit PROVE PoolInv
  OBVIOUS
<1>1. poolPages = <<FreshPage>> /\ link = <<FreshLink>> /\ inUse = {}
  BY DEF PoolInit
<1>2. /\ poolPages \in Seq(PoolPage) /\ Len(poolPages) = 1 /\ poolPages[1] = FreshPage
      /\ link \in Seq(Links) /\ Len(link) = 1 /\ link[1] = FreshLink
  BY <1>1, FreshThreaded
<1>3. FreeObjects(1) = Position
  BY <1>1 DEF FreeObjects
<1> QED
  BY <1>1, <1>2, <1>3, FreshThreaded DEF PoolInv

(* An object is taken from one page of a list of pages that are as the     *)
(* invariant says.                                                         *)
LEMMA Taken ==
  ASSUME NEW pages \in Seq(PoolPage), NEW links \in Seq(Links), Len(links) = Len(pages),
         inUse \subseteq (1..Len(pages)) \X Position,
         \A p \in 1..Len(pages) :
           \E s : Threaded(pages[p], links[p], s) /\ Objects(s) = FreeObjects(p),
         NEW p \in 1..Len(pages), pages[p].num_free # 0,
         AllocFromPage(pages, links, p)
  PROVE  PoolInv'
<1> DEFINE i == pages[p].freeList
           page == [freeList |-> links[p][i], num_free |-> pages[p].num_free - 1]
           after == [links[p] EXCEPT ![i] = Written]
<1>1. pages[p] \in PoolPage /\ links[p] \in Links
  OBVIOUS
<1>2. PICK s : Threaded(pages[p], links[p], s) /\ Objects(s) = FreeObjects(p)
  OBVIOUS
<1>3. /\ i \in Position /\ i \in Objects(s)
      /\ Objects(Tail(s)) = Objects(s) \ {i}
      /\ Threaded(page, after, Tail(s))
  BY <1>1, <1>2, TakeFirst
<1>4. page \in PoolPage /\ after \in Links
  <2>1. pages[p].num_free - 1 \in Nat
    BY <1>1 DEF PoolPage
  <2>2. links[p][i] \in 0..NumPerPage + 1 /\ Written \in 0..NumPerPage + 1
    BY <1>1, <1>3 DEF Links, Written
  <2> QED
    BY <1>1, <2>1, <2>2 DEF PoolPage, Links
<1>5. /\ poolPages' = [pages EXCEPT ![p] = page]
      /\ link' = [links EXCEPT ![p] = after]
      /\ inUse' = inUse \union {<<p, i>>}
  BY DEF AllocFromPage
<1> HIDE DEF page, after, i
<1>6. /\ poolPages' \in Seq(PoolPage) /\ Len(poolPages') = Len(pages)
      /\ poolPages'[p] = page
      /\ \A q \in 1..Len(pages) : q # p => poolPages'[q] = pages[q]
  BY <1>4, <1>5
<1>7. /\ link' \in Seq(Links) /\ Len(link') = Len(pages)
      /\ link'[p] = after
      /\ \A q \in 1..Len(pages) : q # p => link'[q] = links[q]
  BY <1>4, <1>5
<1>8. FreeObjects(p)' = FreeObjects(p) \ {i} /\ \A q : q # p => FreeObjects(q)' = FreeObjects(q)
  BY <1>5 DEF FreeObjects
<1>9. \A q \in 1..Len(pages) :
        \E t : Threaded(poolPages'[q], link'[q], t) /\ Objects(t) = FreeObjects(q)'
  BY <1>2, <1>3, <1>6, <1>7, <1>8
<1>10. inUse' \subseteq (1..Len(pages)) \X Position
  BY <1>3, <1>5
<1> QED
  BY <1>6, <1>7, <1>9, <1>10 DEF PoolInv, FreeObjects

LEMMA AllocPageStep == PoolInv /\ AllocPage => PoolInv'
<1> SUFFICES ASSUME PoolInv, AllocPage PROVE PoolInv'
  OBVIOUS
<1> DEFINE n == Len(poolPages)
           pages == Append(poolPages, FreshPage)
           links == Append(link, FreshLink)
<1>1. AllocFromPage(pages, links, n + 1)
  BY DEF AllocPage
<1>2. /\ pages \in Seq(PoolPage) /\ Len(pages) = n + 1 /\ pages[n + 1] = FreshPage
      /\ \A p \in 1..n : pages[p] = poolPages[p]
  BY FreshThreaded, AppendProperties DEF PoolInv
<1>3. /\ links \in Seq(Links) /\ Len(links) = n + 1 /\ links[n + 1] = FreshLink
      /\ \A p \in 1..n : links[p] = link[p]
  BY FreshThreaded, AppendProperties DEF PoolInv
<1>4. n \in Nat /\ n + 1 \in 1..n + 1 /\ \A p \in 1..n + 1 : p \in 1..n \/ p = n + 1
  BY DEF PoolInv
<1> HIDE DEF n, pages, links
<1>5. inUse \subseteq (1..n) \X Position
  BY DEF PoolInv, n
<1>6. FreeObjects(n + 1) = Position
  BY <1>4, <1>5 DEF FreeObjects
<1>7. \A p \in 1..n + 1 :
        \E s : Threaded(pages[p], links[p], s) /\ Objects(s) = FreeObjects(p)
  <2> TAKE p \in 1..n + 1
  <2>1. CASE p = n + 1
    BY <1>2, <1>3, <1>6, <2>1, FreshThreaded
  <2>2. CASE p \in 1..n
    BY <1>2, <1>3, <2>2 DEF PoolInv, n
  <2> QED
    BY <1>4, <2>1, <2>2
<1>8. inUse \subseteq (1..n + 1) \X Position
  BY <1>4, <1>5
<1>9. pages[n + 1].num_free # 0
  BY <1>2 DEF FreshPage
<1> QED
  BY <1>1, <1>2, <1>3, <1>4, <1>7, <1>8, <1>9, Taken

LEMMA FreeStep ==
  ASSUME PoolInv, NEW p \in DOMAIN poolPages, NEW i \in Position, FreeObject(p, i)
  PROVE  PoolInv'
<1> DEFINE page == [freeList |-> i, num_free |-> poolPages[p].num_free + 1]
           after == [link[p] EXCEPT ![i] = poolPages[p].freeList]
<1>1. /\ p \in 1..Len(poolPages) /\ poolPages[p] \in PoolPage /\ link[p] \in Links
  BY DEF PoolInv
<1>2. PICK s : Threaded(poolPages[p], link[p], s) /\ Objects(s) = FreeObjects(p)
  BY <1>1 DEF PoolInv
<1>3. i \notin Objects(s)
  BY <1>2 DEF FreeObject, FreeObjects
<1>4. PICK t : Objects(t) = Objects(s) \union {i} /\ Threaded(page, after, t)
  BY <1>1, <1>2, <1>3, PutFirst
<1>5. page \in PoolPage /\ after \in Links
  BY <1>1 DEF PoolPage, Links, Position
<1>6. /\ poolPages' = [poolPages EXCEPT ![p] = page]
      /\ link' = [link EXCEPT ![p] = after]
      /\ inUse' = inUse \ {<<p, i>>}
  BY DEF FreeObject
<1> HIDE DEF page, after
<1>7. /\ poolPages' \in Seq(PoolPage) /\ Len(poolPages') = Len(poolPages)
      /\ poolPages'[p] = page
      /\ \A q \in 1..Len(poolPages) : q # p => poolPages'[q] = poolPages[q]
  BY <1>1, <1>5, <1>6 DEF PoolInv
<1>8. /\ link' \in Seq(Links) /\ Len(link') = Len(poolPages)
      /\ link'[p] = after
      /\ \A q \in 1..Len(poolPages) : q # p => link'[q] = link[q]
  BY <1>1, <1>5, <1>6 DEF PoolInv
<1>9. FreeObjects(p)' = FreeObjects(p) \union {i} /\ \A q : q # p => FreeObjects(q)' = FreeObjects(q)
  BY <1>6 DEF FreeObjects
<1>10. \A q \in 1..Len(poolPages) :
         \E u : Threaded(poolPages'[q], link'[q], u) /\ Objects(u) = FreeObjects(q)'
  BY <1>2, <1>4, <1>7, <1>8, <1>9 DEF PoolInv
<1>11. inUse' \subseteq (1..Len(poolPages)) \X Position
  BY <1>6 DEF PoolInv
<1> QED
  BY <1>7, <1>8, <1>10, <1>11 DEF PoolInv, FreeObjects

LEMMA PoolStep == PoolInv /\ [PoolNext]_poolVars => PoolInv'
<1> SUFFICES ASSUME PoolInv, [PoolNext]_poolVars PROVE PoolInv'
  OBVIOUS
<1>1. ASSUME NEW p \in DOMAIN poolPages, AllocObject(p) PROVE PoolInv'
  <2>1. p \in 1..Len(poolPages) /\ poolPages[p].num_free # 0 /\ AllocFromPage(poolPages, link, p)
    BY <1>1 DEF AllocObject, PoolInv
  <2> QED
    BY <2>1, Taken DEF PoolInv
<1>2. CASE UNCHANGED poolVars
  BY <1>2 DEF poolVars, PoolInv, FreeObjects
<1> QED
  BY <1>1, <1>2, FreeStep, AllocPageStep DEF PoolNext
-----------------------------------------------------------------------------
(* What the walk along a list visits.                                      *)

(* n steps along the list of a page lead to the object n + 1 of its list,  *)
(* and behind the last one to its end.                                     *)
LEMMA WalkIsList ==
  ASSUME PoolInv, NEW p \in 1..Len(poolPages), NEW s,
         Threaded(poolPages[p], link[p], s), Objects(s) = FreeObjects(p),
         NEW n \in 0..NumPerPage
  PROVE  Walk(p)[n] = IF n < Len(s) THEN s[n + 1] ELSE EndOfPage
<1> DEFINE At(k) == IF k < Len(s) THEN s[k + 1] ELSE EndOfPage
           Steps(f) == [k \in 0..NumPerPage |->
                          IF k = 0 THEN poolPages[p].freeList
                          ELSE IF f[k - 1] \in Position THEN link[p][f[k - 1]]
                          ELSE f[k - 1]]
           g == [k \in 0..NumPerPage |-> At(k)]
<1>1. ASSUME NEW k \in 0..NumPerPage
      PROVE  At(k) = IF k = 0 THEN poolPages[p].freeList
                     ELSE IF At(k - 1) \in Position THEN link[p][At(k - 1)]
                     ELSE At(k - 1)
  <2>1. /\ s \in Seq(Position) /\ Len(s) \in Nat
        /\ poolPages[p].freeList = IF Len(s) = 0 THEN EndOfPage ELSE s[1]
        /\ \A j \in 1..Len(s) : s[j] \in Position
        /\ \A j \in 1..Len(s) : link[p][s[j]] = IF j = Len(s) THEN EndOfPage ELSE s[j + 1]
    BY DEF Threaded
  <2>2. EndOfPage \notin Position /\ k \in Nat
    BY DEF EndOfPage, Position
  <2> DEFINE l == Len(s)
  <2> HIDE DEF l
  <2>3. CASE k = 0
    BY <2>1, <2>3
  <2>4. CASE k # 0 /\ k - 1 < Len(s)
    <3>1. k \in 1..l /\ (k - 1) + 1 = k /\ (k < l <=> k # l)
      BY <2>1, <2>2, <2>4 DEF l
    <3>2. At(k - 1) = s[k] /\ s[k] \in Position
      BY <2>1, <2>4, <3>1 DEF l
    <3>3. link[p][s[k]] = IF k = l THEN EndOfPage ELSE s[k + 1]
      BY <2>1, <3>1 DEF l
    <3> QED
      BY <2>4, <3>1, <3>2, <3>3 DEF l
  <2>5. CASE k # 0 /\ ~(k - 1 < Len(s))
    <3>1. ~(k - 1 < l) /\ ~(k < l)
      BY <2>1, <2>2, <2>5 DEF l
    <3> QED
      BY <2>2, <2>5, <3>1 DEF l
  <2> QED
    BY <2>3, <2>4, <2>5
<1>2. g = Steps(g)
  <2>1. ASSUME NEW k \in 0..NumPerPage PROVE g[k] = Steps(g)[k]
    <3>1. k # 0 => k - 1 \in 0..NumPerPage
      OBVIOUS
    <3> HIDE DEF At
    <3>2. g[k] = At(k) /\ (k # 0 => g[k - 1] = At(k - 1))
      BY <3>1
    <3>3. Steps(g)[k] = IF k = 0 THEN poolPages[p].freeList
                        ELSE IF g[k - 1] \in Position THEN link[p][g[k - 1]]
                        ELSE g[k - 1]
      OBVIOUS
    <3> HIDE DEF g, Steps
    <3> QED
      BY <1>1, <3>2, <3>3
  <2> HIDE DEF At
  <2> QED
    BY <2>1
<1>3. Walk(p) = CHOOSE f : f = Steps(f)
  BY DEF Walk
<1> HIDE DEF At, g, Steps
<1>4. Walk(p) = Steps(Walk(p))
  BY <1>2, <1>3, Zenon
<1> DEFINE w == Walk(p)
<1> HIDE DEF w
<1>5. w = Steps(w)
  BY <1>4 DEF w
<1>6. ASSUME NEW k \in 0..NumPerPage
      PROVE  w[k] = IF k = 0 THEN poolPages[p].freeList
                    ELSE IF w[k - 1] \in Position THEN link[p][w[k - 1]]
                    ELSE w[k - 1]
  <2>1. Steps(w)[k] = IF k = 0 THEN poolPages[p].freeList
                      ELSE IF w[k - 1] \in Position THEN link[p][w[k - 1]]
                      ELSE w[k - 1]
    BY DEF Steps
  <2> QED
    BY <1>5, <2>1
<1> DEFINE Wrong == {k \in 0..NumPerPage : w[k] # At(k)}
<1>7. Wrong = {}
  <2> SUFFICES ASSUME Wrong # {} PROVE FALSE
    OBVIOUS
  <2>1. PICK k \in Wrong : \A j \in Wrong : k <= j
    <3>1. Wrong \in SUBSET Nat
      OBVIOUS
    <3> HIDE DEF Wrong
    <3> QED
      BY <3>1, LeastExists
  <2>2. k \in 0..NumPerPage /\ w[k] # At(k)
    BY <2>1
  <2>3. k # 0 => k - 1 \in 0..NumPerPage /\ ~(k <= k - 1)
    BY <2>2
  <2>4. k # 0 => w[k - 1] = At(k - 1)
    BY <2>1, <2>3
  <2> QED
    BY <1>1, <1>6, <2>2, <2>4
<1> QED
  BY <1>7 DEF w, At

(* A list has as many objects as steps.                                    *)
LEMMA ListCounts ==
  ASSUME NEW page, NEW links, NEW s, Threaded(page, links, s)
  PROVE  Len(s) \in 0..NumPerPage /\ Cardinality(Objects(s)) = Len(s)
<1>1. /\ s \in Seq(Position) /\ Len(s) \in Nat
      /\ \A j, k \in 1..Len(s) : s[j] = s[k] => j = k
      /\ \A k \in 1..Len(s) : s[k] \in Position
      /\ s \in [1..Len(s) -> Position]
  BY DEF Threaded
<1>2. Objects(s) \subseteq Position
  BY <1>1 DEF Objects
<1>3. s \in Bijection(1..Len(s), Objects(s))
  BY <1>1 DEF Bijection, Injection, Surjection, IsInjective, Objects
<1>4. IsFiniteSet(Position) /\ Cardinality(Position) = NumPerPage
  BY FS_Interval DEF Position
<1>5. IsFiniteSet(1..Len(s)) /\ Cardinality(1..Len(s)) = Len(s)
  <2>1. /\ IsFiniteSet(1..Len(s))
        /\ Cardinality(1..Len(s)) = IF 1 > Len(s) THEN 0 ELSE Len(s) - 1 + 1
    <3>1. 1 \in Int /\ Len(s) \in Int
      BY <1>1
    <3> QED
      BY <3>1, FS_Interval
  <2> DEFINE l == Len(s)
  <2> HIDE DEF l
  <2>2. (IF 1 > l THEN 0 ELSE l - 1 + 1) = l
    BY <1>1 DEF l
  <2> QED
    BY <2>1, <2>2 DEF l
<1>6. Cardinality(Objects(s)) = Len(s)
  BY <1>3, <1>5, FS_Bijection DEF ExistsBijection
<1>7. Cardinality(Objects(s)) <= NumPerPage
  BY <1>2, <1>4, FS_Subset
<1> QED
  BY <1>1, <1>6, <1>7

LEMMA PagesAreExact == PoolInv => PoolExact
<1> SUFFICES ASSUME PoolInv, NEW p \in DOMAIN poolPages
    PROVE  LET n == poolPages[p].num_free
           IN  /\ n \in 0..NumPerPage
               /\ {Walk(p)[k] : k \in 0..n - 1} = {i \in Position : <<p, i>> \notin inUse}
               /\ Cardinality({Walk(p)[k] : k \in 0..n - 1}) = n
               /\ Walk(p)[n] = EndOfPage
  BY DEF PoolExact
<1> DEFINE n == poolPages[p].num_free
<1>0. p \in 1..Len(poolPages)
  BY DEF PoolInv
<1>1. PICK s : Threaded(poolPages[p], link[p], s) /\ Objects(s) = FreeObjects(p)
  BY <1>0 DEF PoolInv
<1>2. n = Len(s) /\ n \in 0..NumPerPage /\ Cardinality(Objects(s)) = n
  <2>1. Len(s) \in 0..NumPerPage /\ Cardinality(Objects(s)) = Len(s)
    BY <1>1, ListCounts
  <2> QED
    BY <1>1, <2>1 DEF Threaded
<1> HIDE DEF n
<1>3. \A k \in 0..n - 1 : Walk(p)[k] = s[k + 1]
  <2> TAKE k \in 0..n - 1
  <2>1. k \in 0..NumPerPage /\ k < n
    BY <1>2
  <2> QED
    BY <1>0, <1>1, <1>2, <2>1, WalkIsList
<1>4. Walk(p)[n] = EndOfPage
  <2>1. n \in 0..NumPerPage /\ ~(n < n)
    BY <1>2
  <2> QED
    BY <1>0, <1>1, <1>2, <2>1, WalkIsList
<1>5. {Walk(p)[k] : k \in 0..n - 1} = Objects(s)
  <2>1. ASSUME NEW x \in Objects(s) PROVE x \in {Walk(p)[k] : k \in 0..n - 1}
    <3>1. PICK k \in 1..n : x = s[k]
      BY <1>2, <2>1 DEF Objects
    <3>2. k - 1 \in 0..n - 1 /\ (k - 1) + 1 = k
      BY <1>2
    <3>3. x = Walk(p)[k - 1]
      BY <1>3, <3>1, <3>2
    <3> QED
      BY <3>2, <3>3
  <2>2. ASSUME NEW k \in 0..n - 1 PROVE Walk(p)[k] \in Objects(s)
    <3>1. k + 1 \in 1..n
      BY <1>2
    <3> QED
      BY <1>2, <1>3, <3>1 DEF Objects
  <2> QED
    BY <2>1, <2>2
<1> QED
  BY <1>1, <1>2, <1>4, <1>5 DEF n, FreeObjects

(* The list of a page visits the objects nobody holds, each once, and ends *)
(* after num_free of them, however objects are taken and given back: alloc *)
(* never follows a link a client has written over (gosObjectPool.h:93-146).*)
THEOREM PoolIsExact == PoolSpec => []PoolExact
<1>1. PoolSpec => []PoolInv
  BY PoolStart, PoolStep, PTL DEF PoolSpec
<1> QED
  BY <1>1, PagesAreExact, PTL
==============================================================================
