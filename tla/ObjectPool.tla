----------------------------- MODULE ObjectPool ------------------------------
(***************************************************************************)
(* gos::ObjectPool (gosObjectPool.h): objects of one size in pages that    *)
(* are never given back.  The free objects of a page form a list threaded  *)
(* through the objects themselves: whoever holds an object overwrites its  *)
(* link.  The resources keep the nodes of their lists of parents and of    *)
(* children in one.                                                        *)
(***************************************************************************)
EXTENDS Naturals, Sequences, FiniteSets

CONSTANTS NumPerPage,
          MaxPoolPages   \* bound: pages

ASSUME PoolAssumption == NumPerPage \in Nat \ {0} /\ MaxPoolPages \in Nat \ {0}

Position == 1..NumPerPage

EndOfPage == 0             \* NULL
Written == NumPerPage + 1  \* what a client left where the link was

VARIABLES poolPages,  \* sequence of [freeList, num_free]
          link,       \* next_free of every object of every page
          inUse       \* history: the objects handed out and not freed

poolVars == <<poolPages, link, inUse>>

FreshPage == [freeList |-> 1, num_free |-> NumPerPage]
FreshLink == [i \in Position |-> IF i = NumPerPage THEN EndOfPage ELSE i + 1]

PoolInit == poolPages = <<FreshPage>> /\ link = <<FreshLink>> /\ inUse = {}

(* priv_allocFromPage, and the client that writes into what it gets.       *)
AllocFromPage(list, links, p) ==
  LET i == list[p].freeList
  IN  /\ poolPages' = [list EXCEPT ![p] = [freeList |-> links[p][i], num_free |-> @.num_free - 1]]
      /\ link' = [links EXCEPT ![p][i] = Written]
      /\ inUse' = inUse \union {<<p, i>>}

AllocObject(p) ==
  /\ poolPages[p].num_free # 0
  /\ \A q \in 1..p - 1 : poolPages[q].num_free = 0
  /\ AllocFromPage(poolPages, link, p)

AllocPage ==
  /\ \A p \in DOMAIN poolPages : poolPages[p].num_free = 0
  /\ Len(poolPages) < MaxPoolPages
  /\ AllocFromPage(Append(poolPages, FreshPage), Append(link, FreshLink), Len(poolPages) + 1)

(* Mutant: the head of the list is linked behind itself.                   *)
FreeObject_swapped(p, i) ==
  /\ <<p, i>> \in inUse
  /\ inUse' = inUse \ {<<p, i>>}
  /\ poolPages' = [poolPages EXCEPT ![p] = [freeList |-> i, num_free |-> @.num_free + 1]]
  /\ link' = [link EXCEPT ![p][i] = i]

(* Objects are freed once, by whoever holds them.                          *)
FreeObject(p, i) ==
  /\ <<p, i>> \in inUse
  /\ inUse' = inUse \ {<<p, i>>}
  /\ poolPages' = [poolPages EXCEPT ![p] = [freeList |-> i, num_free |-> @.num_free + 1]]
  /\ link' = [link EXCEPT ![p][i] = poolPages[p].freeList]

PoolNext ==
  \/ \E p \in DOMAIN poolPages :
       AllocObject(p) \/ \E i \in Position : FreeObject(p, i)
  \/ AllocPage

PoolSpec == PoolInit /\ [][PoolNext]_poolVars
-----------------------------------------------------------------------------
(* Properties.                                                             *)

(* Walk(p)[n]: where n steps along the list of page p lead.                *)
Walk(p) ==
  LET walk[n \in 0..NumPerPage] ==
        IF n = 0 THEN poolPages[p].freeList
        ELSE IF walk[n - 1] \in Position THEN link[p][walk[n - 1]]
        ELSE walk[n - 1]
  IN  walk

(* The list of a page visits the objects of the page that nobody holds,    *)
(* each once, and ends after num_free of them: alloc never follows a link  *)
(* a client has written over, and finds an object where it counts one.     *)
PoolExact ==
  \A p \in DOMAIN poolPages :
    LET n == poolPages[p].num_free
    IN  /\ n \in 0..NumPerPage
        /\ {Walk(p)[k] : k \in 0..n - 1} = {i \in Position : <<p, i>> \notin inUse}
        /\ Cardinality({Walk(p)[k] : k \in 0..n - 1}) = n
        /\ Walk(p)[n] = EndOfPage
=============================================================================
