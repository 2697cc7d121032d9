----------------------------- MODULE MemManager ------------------------------
(***************************************************************************)
(* res2::MemManager: the descriptors of the resources live in pages of     *)
(* slots, placed by a FreespaceTracker per page.  A handle names the page, *)
(* the first slot, the number of slots and a guard of 3 bits taken from a  *)
(* counter of the manager; it is written into the first word of the        *)
(* descriptor, and a handle is valid if that word is equal to it.          *)
(*                                                                         *)
(* Handles are copied freely: one that was released may still be used.     *)
(***************************************************************************)
EXTENDS FreeRanges, FiniteSets, FiniteSetsExt

CONSTANTS NumPages,      \* NUM_PAGES, 16 in the code
          SlotsPerPage,  \* PAGE_SIZE / SLOT_SIZE
          Sizes,         \* slots of a descriptor of each type of resource
          Guards,        \* values of the guard in a handle, 8 in the code
          MaxReserve     \* bound: calls of reserve

ASSUME MemAssumption == /\ NumPages \in Nat \ {0} /\ SlotsPerPage \in Nat \ {0}
                        /\ Sizes \subseteq 1..SlotsPerPage
                        /\ Guards \in Nat \ {0} /\ MaxReserve \in Nat

Page == 0..NumPages - 1
Slot == 0..SlotsPerPage - 1
ResHandle == [guard : 0..Guards - 1, page : Page, slot : Slot, num : Sizes]

VARIABLES
  pages,     \* per page: is the blob allocated, the tracker's list and counter
  word,      \* first word of each slot: a handle to this slot, or no such thing
  guard,     \* the counter, modulo Guards
  issued,    \* number of handles made
  owned,     \* [handle, n] held by clients, n says how many were made before
  old,       \* those whose descriptor was released, of which copies remain
  refused    \* slots asked for, if the last call was a reserve that failed

memVars == <<pages, word, guard, issued, owned, old, refused>>

NoHandle == [guard |-> 0, page |-> 0, slot |-> 0, num |-> 0]  \* what is no handle to the slot

MemInit ==
  /\ pages = [p \in Page |-> [blob |-> p = 0, list |-> <<RangeAt(0, SlotsPerPage)>>, count |-> 0]]
  /\ word = [p \in Page |-> [s \in Slot |-> NoHandle]]
  /\ guard = 0 /\ issued = 0
  /\ owned = {} /\ old = {}
  /\ refused = 0
-----------------------------------------------------------------------------
(* A page without a blob gets one, all free, when the scan comes to it.    *)
PagesThatFit(n) == {p \in Page : FirstFit(pages[p].list, n) # 0}

NextGuard == (guard + 1) % Guards

(* Mutant: the page is left out of the handle.                             *)
PrivReserve_noPage(n) ==
  /\ issued < MaxReserve /\ PagesThatFit(n) # {}
  /\ LET p == Min(PagesThatFit(n))
         first == pages[p].list[FirstFit(pages[p].list, n)].start
         h == [guard |-> guard, page |-> 0, slot |-> first, num |-> n]
     IN  /\ pages' = [pages EXCEPT ![p] = [blob |-> TRUE, list |-> Taken(@.list, n), count |-> @.count + n]]
         /\ word' = [word EXCEPT ![p][first] = h]
         /\ owned' = owned \union {[handle |-> h, n |-> issued]}
  /\ guard' = NextGuard
  /\ issued' = issued + 1
  /\ refused' = 0
  /\ UNCHANGED old

(* The first page with room.  Of the words of a descriptor only the first  *)
(* is written here.  The others keep what they held: the resources put     *)
(* pointers, numbers and sizes there, and it is assumed that none of these *)
(* has the bits of a handle to the slot it stands in.                      *)
PrivReserve(n) ==
  /\ issued < MaxReserve /\ PagesThatFit(n) # {}
  /\ LET p == Min(PagesThatFit(n))
         first == pages[p].list[FirstFit(pages[p].list, n)].start
         h == [guard |-> guard, page |-> p, slot |-> first, num |-> n]
     IN  /\ pages' = [pages EXCEPT ![p] = [blob |-> TRUE, list |-> Taken(@.list, n), count |-> @.count + n]]
         /\ word' = [word EXCEPT ![p][first] = h]
         /\ owned' = owned \union {[handle |-> h, n |-> issued]}
  /\ guard' = NextGuard
  /\ issued' = issued + 1
  /\ refused' = 0
  /\ UNCHANGED old

(* No page has room: by then every page has been allocated.                *)
PrivReserveFails(n) ==
  /\ PagesThatFit(n) = {}
  /\ pages' = [p \in Page |-> [pages[p] EXCEPT !.blob = TRUE]]
  /\ refused' = n
  /\ UNCHANGED <<word, guard, issued, owned, old>>

(* priv__is_valid_handle.                                                  *)
IsValidHandle(h) == word[h.page][h.slot] = h

(* Mutant: the first word keeps the handle.                                *)
FreeSlots_keepsWord(h) ==
  /\ pages' = [pages EXCEPT ![h.page] =
                 [blob |-> @.blob, list |-> Freed(@.list, h.slot, h.num), count |-> @.count - h.num]]
  /\ UNCHANGED word

FreeSlots(h) ==
  /\ pages' = [pages EXCEPT ![h.page] =
                 [blob |-> @.blob, list |-> Freed(@.list, h.slot, h.num), count |-> @.count - h.num]]
  /\ word' = [word EXCEPT ![h.page][h.slot] = NoHandle]

(* release through any copy of a handle.  If it resolves the descriptor is *)
(* freed, and whoever holds an equal handle now holds an old one: it is    *)
(* the owner that releases, or the counter of the guards has gone round.   *)
ReleaseHandle(x) ==
  /\ x \in owned \union old
  /\ IF IsValidHandle(x.handle)
     THEN LET gone == {y \in owned : y.handle = x.handle}
          IN  FreeSlots(x.handle) /\ owned' = owned \ gone /\ old' = old \union gone
     ELSE UNCHANGED <<pages, word, owned, old>>
  /\ refused' = 0
  /\ UNCHANGED <<guard, issued>>

MemNext ==
  \/ \E n \in Sizes : PrivReserve(n) \/ PrivReserveFails(n)
  \/ \E x \in owned \union old : ReleaseHandle(x)

MemSpec == MemInit /\ [][MemNext]_memVars
-----------------------------------------------------------------------------
(* Properties.                                                             *)

Issue == [handle : ResHandle, n : Nat]

MemTypeOK ==
  /\ pages \in [Page -> [blob : BOOLEAN, list : Seq([start : Slot, num : 1..SlotsPerPage]), count : 0..SlotsPerPage]]
  /\ word \in [Page -> [Slot -> ResHandle \union {NoHandle}]]
  /\ guard \in 0..Guards - 1 /\ issued \in 0..MaxReserve
  /\ owned \subseteq Issue /\ old \subseteq Issue 
  /\ refused \in Sizes \union {0}

(* A handle resolves, to slots nobody else has, until it is released.      *)
OwnedResolve ==
  /\ \A x \in owned : IsValidHandle(x.handle)
  /\ \A x, y \in owned :
       \/ x = y
       \/ x.handle.page # y.handle.page
       \/ x.handle.slot + x.handle.num <= y.handle.slot
       \/ y.handle.slot + y.handle.num <= x.handle.slot

(* A handle that was released resolves again only once the counter of the  *)
(* guards has gone round, never before, however the slots were reused: a   *)
(* descriptor that starts in the middle of it, ends elsewhere or lies over *)
(* it is not taken for it.                                                 *)
StaleOnlyAfterWrap ==
  \A x \in old : IsValidHandle(x.handle) =>
    \E y \in owned : /\ y.handle = x.handle
                     /\ y.n > x.n
                     /\ (y.n - x.n) % Guards = 0

(* The slots of a page under a descriptor that is held.                    *)
HeldSlots(p) ==
  {s \in Slot : \E x \in owned : /\ x.handle.page = p
                                /\ x.handle.slot <= s /\ s < x.handle.slot + x.handle.num}

(* The bytes each page counts as allocated are those of the descriptors it *)
(* holds: MemManager::unsetup asserts that none are left once every client *)
(* has released.                                                           *)
PagesAccounted ==
  \A p \in Page : pages[p].count = Cardinality(HeldSlots(p))

(* reserve gives up only when no page has room.                            *)
RefusedWhenFull ==
  refused # 0 =>
    \A p \in Page : /\ pages[p].blob
                    /\ \A s \in Slot : s + refused <= SlotsPerPage =>
                         \E x \in owned : /\ x.handle.page = p
                                                    /\ x.handle.slot < s + refused
                                                    /\ s < x.handle.slot + x.handle.num

(* Descriptors are reserved and released in any order and pages fill: what *)
(* is held is held alone, is counted, and is refused only for want of room.*)
MemSound == MemTypeOK /\ OwnedResolve /\ PagesAccounted /\ RefusedWhenFull
=============================================================================
