------------------------------ MODULE SparseSet ------------------------------
(***************************************************************************)
(* gos::SparseSet (gosSparseSet.h): data addressed by index, packed in a   *)
(* dense array without holes.  Pages of a sparse array say where the datum *)
(* of an index is in the dense one; a page exists while it has an element. *)
(* The components of the entities are kept in such sets and scanned with   *)
(* an iterator, which is a position in the dense array.                    *)
(***************************************************************************)
EXTENDS Naturals, Sequences, FiniteSets

CONSTANTS Indices,       \* the indices in use, numbers
          NumDataPerPage

ASSUME SparseAssumption == Indices \subseteq Nat /\ NumDataPerPage \in Nat \ {0}

VARIABLES pageList,   \* page index -> [indicesList, numElements]
          denseList,  \* sequence of indices; the data go with them
          iter,       \* position of an iterator: how many elements it is past
          seen,       \* history: the elements it has returned that are still there
          behind      \* history: those put at a position it is past

sparseVars == <<pageList, denseList, iter, seen, behind>>

Offset == 0..NumDataPerPage - 1
NoPosition == 0  \* u32MAX

PageOf(x) == x \div NumDataPerPage
OffsetOf(x) == x % NumDataPerPage

SparseInit ==
  /\ pageList = <<>> /\ denseList = <<>>
  /\ iter = 0 /\ seen = {} /\ behind = {}

EmptyPage == [indicesList |-> [o \in Offset |-> NoPosition], numElements |-> 0]

(* Where the sparse array says x is, in a list of pages.                   *)
PositionIn(list, x) ==
  IF PageOf(x) \in DOMAIN list THEN list[PageOf(x)].indicesList[OffsetOf(x)] ELSE NoPosition

WithElement(page, o, position) ==
  [indicesList |-> [page.indicesList EXCEPT ![o] = position], numElements |-> page.numElements + 1]

(* addIfNotExists; for an index that is there it returns NULL.             *)
AddIfNotExists(x) ==
  LET p == PageOf(x)
      n == Len(denseList) + 1
      page == IF p \in DOMAIN pageList THEN pageList[p] ELSE EmptyPage
  IN  /\ PositionIn(pageList, x) = NoPosition
      /\ pageList' = [q \in DOMAIN pageList \union {p} |->
                        IF q = p THEN WithElement(page, OffsetOf(x), n) ELSE pageList[q]]
      /\ denseList' = Append(denseList, x)
      /\ behind' = IF n <= iter THEN behind \union {x} ELSE behind
      /\ UNCHANGED <<iter, seen>>

(* The pages without x; a page that is left empty goes away.               *)
PagesWithout(x) ==
  LET p == PageOf(x)
      page == [indicesList |-> [pageList[p].indicesList EXCEPT ![OffsetOf(x)] = NoPosition],
               numElements |-> pageList[p].numElements - 1]
  IN  IF page.numElements = 0 THEN [q \in DOMAIN pageList \ {p} |-> pageList[q]]
      ELSE [pageList EXCEPT ![p] = page]

(* Mutant: the sparse array is not told of the element that was moved.     *)
RemoveIndex_notMoved(x) ==
  LET i == PositionIn(pageList, x)
      y == denseList[Len(denseList)]
  IN  /\ i # NoPosition
      /\ denseList' = SubSeq([denseList EXCEPT ![i] = y], 1, Len(denseList) - 1)
      /\ pageList' = PagesWithout(x)
      /\ seen' = seen \ {x}
      /\ behind' = behind \ {x}
      /\ UNCHANGED iter

(* remove: the last element of the dense array takes the place of x.       *)
RemoveIndex(x) ==
  LET i == PositionIn(pageList, x)
      y == denseList[Len(denseList)]
      pages == PagesWithout(x)
  IN  /\ i # NoPosition
      /\ denseList' = SubSeq([denseList EXCEPT ![i] = y], 1, Len(denseList) - 1)
      /\ pageList' = IF y = x THEN pages
                     ELSE [pages EXCEPT ![PageOf(y)].indicesList[OffsetOf(y)] = i]
      /\ seen' = seen \ {x}
      /\ behind' = (IF i <= iter /\ Len(denseList) > iter THEN behind \union {y} ELSE behind) \ {x}
      /\ UNCHANGED iter

ToStart == iter' = 0 /\ seen' = {} /\ behind' = {} /\ UNCHANGED <<pageList, denseList>>

(* next, when it returns true.                                             *)
NextElement ==
  /\ iter < Len(denseList)
  /\ seen' = seen \union {denseList[iter + 1]}
  /\ iter' = iter + 1
  /\ UNCHANGED <<pageList, denseList, behind>>

SparseNext == \/ \E x \in Indices : AddIfNotExists(x) \/ RemoveIndex(x)
              \/ ToStart \/ NextElement

SparseSpec == SparseInit /\ [][SparseNext]_sparseVars
-----------------------------------------------------------------------------
(* Properties.                                                             *)

(* The sparse array leads from each index to its place in the dense one    *)
(* and nowhere else, the dense array has no element twice, and the pages   *)
(* are those that have elements and know how many.                         *)
SparseExact ==
  /\ \A x \in Indices : PositionIn(pageList, x) # NoPosition =>
       /\ PositionIn(pageList, x) <= Len(denseList)
       /\ denseList[PositionIn(pageList, x)] = x
  /\ \A i \in DOMAIN denseList : PositionIn(pageList, denseList[i]) = i
  /\ DOMAIN pageList = {PageOf(denseList[i]) : i \in DOMAIN denseList}
  /\ \A p \in DOMAIN pageList :
       pageList[p].numElements = Cardinality({i \in DOMAIN denseList : PageOf(denseList[i]) = p})

(* Elements may be added and removed while an iterator is under way: when  *)
(* it ends it has returned every element but those that were put at a      *)
(* place it was past.  Removing an element the iterator has returned makes *)
(* it skip one that it has not.                                            *)
IterationComplete ==
  iter >= Len(denseList) => {denseList[i] : i \in DOMAIN denseList} \subseteq seen \union behind

(* Whatever order of adding, removing and iterating, the set is found and  *)
(* walked in full.                                                         *)
SparseSound == SparseExact /\ IterationComplete
=============================================================================
