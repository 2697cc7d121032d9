----------------------------- MODULE HandleList -----------------------------
(***************************************************************************)
(* gos::HandleList (gosHandle.h): records addressed by handles.  A handle  *)
(* is a word made of the chunk of its record, the index of the record in   *)
(* the chunk and a counter; a record remembers the counter of the handle   *)
(* that may reach it.  Chunks are allocated when they are first needed and *)
(* never given back; the free records of a chunk form a list threaded      *)
(* through nextFree.                                                       *)
(*                                                                         *)
(* Threads, message queues, GPU objects, windows and TCP clients are all   *)
(* reached through such handles, and copies of a handle outlive its        *)
(* release: what matters is which record a handle of any age resolves to.  *)
(***************************************************************************)
EXTENDS Naturals, Sequences

CONSTANTS NumChunk,     \* getNumMaxChunk(), 2^B
          PerChunk,     \* getNumMaxHandlePerChunk(), 2^(A-B)
          NumCounter,   \* getNumMaxCounter(), 2^C
          MaxReuse      \* bound: how often one record is released

ASSUME HandleListAssumption ==
  /\ NumChunk \in Nat \ {0}
  /\ PerChunk \in Nat \ {0} /\ PerChunk =< 32768   \* A <= 16 and B > 0
  /\ NumCounter \in Nat \ {0, 1}  \* C > 0
  /\ MaxReuse \in Nat

Chunk == 0..NumChunk - 1
Index == 0..PerChunk - 1
Counter == 0..NumCounter - 1
Handle == [chunk : Chunk, index : Index, counter : Counter]

EndOfList == 65535   \* 0xFFFF

VARIABLES
  allocated,   \* chunks whose memory exists (chunkList[i] is not NULL)
  firstFree,   \* head of the free list of each chunk
  nextFree,    \* the link of every record
  curCounter,  \* the counter of every record
  result,      \* what the last call did
  \* history variables, not in the code
  used,        \* the records a client has reserved and not released
  reuse,       \* how often each record has been released
  free         \* the free list of each allocated chunk as a sequence

vars == <<allocated, firstFree, nextFree, curCounter, result, used, reuse, free>>

(* What priv_allocChunk writes into a chunk.                               *)
FreshNext == [i \in Index |-> IF i = PerChunk - 1 THEN EndOfList ELSE i + 1]
FreshCounter == [i \in Index |-> 1]
FreshFree == [k \in 1..PerChunk |-> k - 1]

(* Memory that does not exist yet is written when the chunk is allocated.  *)
Init ==
  /\ allocated = {0}
  /\ firstFree = [c \in Chunk |-> 0]
  /\ nextFree = [c \in Chunk |-> FreshNext]
  /\ curCounter = [c \in Chunk |-> FreshCounter]
  /\ result = "none"
  /\ used = {}
  /\ reuse = [r \in Chunk \X Index |-> 0]
  /\ free = [c \in Chunk |-> FreshFree]

(* reserve scans the chunks in order and takes the head of the first free  *)
(* list that is not empty, allocating the chunk if it has no memory yet.   *)
HasFree(c) == firstFree[c] # EndOfList

(* Mutant: the chunk is not allocated.                                     *)
Reserve_noMemory(c) ==
  /\ HasFree(c)
  /\ \A b \in Chunk : b < c => ~HasFree(b)
  /\ firstFree' = [firstFree EXCEPT ![c] = nextFree[c][@]]
  /\ result' = "reserved"
  /\ used' = used \union {<<c, firstFree[c]>>}
  /\ free' = [free EXCEPT ![c] = Tail(@)]
  /\ UNCHANGED <<allocated, nextFree, curCounter, reuse>>

Reserve(c) ==
  /\ HasFree(c)
  /\ \A b \in Chunk : b < c => ~HasFree(b)
  /\ allocated' = allocated \union {c}
  /\ firstFree' = [firstFree EXCEPT ![c] = nextFree[c][@]]
  /\ result' = "reserved"
  /\ used' = used \union {<<c, firstFree[c]>>}
  /\ free' = [free EXCEPT ![c] = Tail(@)]
  /\ UNCHANGED <<nextFree, curCounter, reuse>>

ReserveFails ==
  /\ \A c \in Chunk : ~HasFree(c)
  /\ result' = "full"
  /\ UNCHANGED <<allocated, firstFree, nextFree, curCounter, used, reuse, free>>

(* The record a handle resolves to (priv_getRecordFromHandle): none if the *)
(* counters differ.                                                        *)
Resolves(h) == h.counter = curCounter[h.chunk][h.index]

(* The handle reserve gave out for record <<c, i>> the n-th time (from 0): *)
(* inc_counterValue wraps the counter at 2^C.                              *)
Issued(c, i, n) == [chunk |-> c, index |-> i, counter |-> (n + 1) % NumCounter]

Live(h) == /\ <<h.chunk, h.index>> \in used
           /\ h = Issued(h.chunk, h.index, reuse[<<h.chunk, h.index>>])

(* A handle given out earlier and released since, as often as n tells.     *)
Stale(h, n) == /\ n \in 1..reuse[<<h.chunk, h.index>>]
               /\ h = Issued(h.chunk, h.index, reuse[<<h.chunk, h.index>>] - n)

(* Mutant: the counter stays.                                              *)
Release_sameCounter(h) ==
  /\ reuse[<<h.chunk, h.index>>] < MaxReuse /\ Live(h) /\ Resolves(h)
  /\ nextFree' = [nextFree EXCEPT ![h.chunk][h.index] = firstFree[h.chunk]]
  /\ firstFree' = [firstFree EXCEPT ![h.chunk] = h.index]
  /\ result' = "released"
  /\ used' = used \ {<<h.chunk, h.index>>}
  /\ reuse' = [reuse EXCEPT ![<<h.chunk, h.index>>] = @ + 1]
  /\ free' = [free EXCEPT ![h.chunk] = <<h.index>> \o @]
  /\ UNCHANGED <<allocated, curCounter>>

Release(h) ==
  /\ reuse[<<h.chunk, h.index>>] < MaxReuse
  /\ Live(h)
  /\ Resolves(h)
  /\ curCounter' = [curCounter EXCEPT ![h.chunk][h.index] = (h.counter + 1) % NumCounter]
  /\ nextFree' = [nextFree EXCEPT ![h.chunk][h.index] = firstFree[h.chunk]]
  /\ firstFree' = [firstFree EXCEPT ![h.chunk] = h.index]
  /\ result' = "released"
  /\ used' = used \ {<<h.chunk, h.index>>}
  /\ reuse' = [reuse EXCEPT ![<<h.chunk, h.index>>] = @ + 1]
  /\ free' = [free EXCEPT ![h.chunk] = <<h.index>> \o @]
  /\ UNCHANGED allocated

(* Mutant: the counter of the handle is not compared.                      *)
ReleaseStale_accepted(h) ==
  /\ \E n \in 1..NumCounter - 1 : Stale(h, n)
  /\ nextFree' = [nextFree EXCEPT ![h.chunk][h.index] = firstFree[h.chunk]]
  /\ firstFree' = [firstFree EXCEPT ![h.chunk] = h.index]
  /\ free' = [free EXCEPT ![h.chunk] = <<h.index>> \o @]
  /\ result' = "released"
  /\ UNCHANGED <<allocated, curCounter, used, reuse>>

(* A second release of a handle: the code notices and stops in DBGBREAK.   *)
ReleaseStale(h) ==
  /\ \E n \in 1..NumCounter - 1 : Stale(h, n)
  /\ ~Resolves(h)
  /\ result' = "rejected"
  /\ UNCHANGED <<allocated, firstFree, nextFree, curCounter, used, reuse, free>>

Next == \/ \E c \in Chunk : Reserve(c)
        \/ ReserveFails
        \/ \E h \in Handle : Release(h) \/ ReleaseStale(h)

Spec == Init /\ [][Next]_vars
-----------------------------------------------------------------------------
TypeOK ==
  /\ allocated \subseteq Chunk
  /\ firstFree \in [Chunk -> Index \union {EndOfList}]
  /\ nextFree \in [Chunk -> [Index -> Index \union {EndOfList}]]
  /\ curCounter \in [Chunk -> [Index -> Counter]]
  /\ result \in {"none", "reserved", "full", "released", "rejected"}
  /\ used \subseteq Chunk \X Index
  /\ reuse \in [Chunk \X Index -> 0..MaxReuse]
  /\ free \in [Chunk -> Seq(Index)]

(* The sequence s is the list that starts at head and follows next.        *)
IsList(s, head, next) ==
  /\ head = IF s = <<>> THEN EndOfList ELSE s[1]
  /\ \A k \in 1..Len(s) : next[s[k]] = IF k = Len(s) THEN EndOfList ELSE s[k + 1]

(* The sequence s visits exactly the elements of S, each once.             *)
Enumerates(s, S) ==
  /\ \A x \in S : \E k \in 1..Len(s) : s[k] = x
  /\ \A k \in 1..Len(s) : s[k] \in S
  /\ \A j, k \in 1..Len(s) : s[j] = s[k] => j = k

(* The list threaded through nextFree is the one that starts at firstFree  *)
(* and visits the free records in the order in which they were released.   *)
FreeListLinked == \A c \in Chunk : IsList(free[c], firstFree[c], nextFree[c])

(* It visits exactly the records nobody uses, each once: no record is lost *)
(* and none is given to two clients (the check HandleList::unsetup makes   *)
(* in debug builds, in every state).                                       *)
NotUsed(c) == {i \in Index : <<c, i>> \notin used}

FreeListExact == \A c \in Chunk : Enumerates(free[c], NotUsed(c))

(* A client's handle resolves, in memory that exists, until the client     *)
(* releases it.                                                            *)
LiveResolves ==
  \A r \in used : /\ r[1] \in allocated
                  /\ Resolves(Issued(r[1], r[2], reuse[r]))

(* A copy of a handle kept after its release is rejected, whether the      *)
(* record is free or in use again, until the record has been released as   *)
(* many times as the counter has values.                                   *)
StaleRejected ==
  \A h \in Handle, n \in 1..NumCounter - 1 : Stale(h, n) => ~Resolves(h)

(* reserve fails only when every record of every chunk is in use.          *)
FullMeansFull == result = "full" => used = Chunk \X Index
=============================================================================
