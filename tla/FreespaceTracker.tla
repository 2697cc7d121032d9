-------------------------- MODULE FreespaceTracker --------------------------
(***************************************************************************)
(* gos::FreespaceTracker: which blocks of a buffer are free, kept as an    *)
(* array of ranges sorted by position, first fit, merged when freed.  The  *)
(* MemManager of the resources and the vertex and index buffer managers of *)
(* the engine place their data with it.                                    *)
(***************************************************************************)
EXTENDS FreeRanges, FiniteSets, FiniteSetsExt

CONSTANTS NumBlocks,  \* num_max_blocks
          BlockSize,  \* sizeof_block
          MaxBytes    \* bound: the largest request

ASSUME TrackerAssumption == /\ NumBlocks \in Nat \ {0}
                            /\ BlockSize \in Nat \ {0}
                            /\ MaxBytes \in Nat

VARIABLES freerangeList,        \* sequence of [start, num]
          num_allocated_block,
          live,                 \* the AllocInfo handed out and not freed, in bytes
          request,              \* the bytes last asked for
          answer                \* the AllocInfo they got

trackerVars == <<freerangeList, num_allocated_block, live, request, answer>>

NoSpace == [offset |-> -1, size |-> 0]  \* offset is u32MAX

TrackerInit ==
  /\ freerangeList = <<RangeAt(0, NumBlocks)>>
  /\ num_allocated_block = 0
  /\ live = {}
  /\ request = 0
  /\ answer = NoSpace

Alloc(bytes) ==
  LET n == SlotsFor(bytes, BlockSize)
      i == FirstFit(freerangeList, n)
      info == [offset |-> freerangeList[i].start * BlockSize, size |-> n * BlockSize]
  IN  /\ i # 0
      /\ freerangeList' = Taken(freerangeList, n)
      /\ num_allocated_block' = num_allocated_block + n
      /\ live' = live \union {info}
      /\ request' = bytes
      /\ answer' = info

AllocFails(bytes) ==
  /\ FirstFit(freerangeList, SlotsFor(bytes, BlockSize)) = 0
  /\ request' = bytes
  /\ answer' = NoSpace
  /\ UNCHANGED <<freerangeList, num_allocated_block, live>>

FreeInfo(info) ==
  /\ info \in live
  /\ live' = live \ {info}
  /\ LET num == info.size \div BlockSize
     IN  /\ freerangeList' = Freed(freerangeList, info.offset \div BlockSize, num)
         /\ num_allocated_block' = num_allocated_block - num
  /\ UNCHANGED <<request, answer>>

TrackerNext ==
  \/ \E bytes \in 1..MaxBytes : Alloc(bytes) \/ AllocFails(bytes)
  \/ \E info \in live : FreeInfo(info)

TrackerSpec == TrackerInit /\ [][TrackerNext]_trackerVars
-----------------------------------------------------------------------------
(* Properties.                                                             *)

BlocksOf(info) == info.offset \div BlockSize..(info.offset + info.size) \div BlockSize - 1

(* The blocks under the pieces handed out.                                 *)
HeldBlocks == {b \in 0..NumBlocks - 1 : \E info \in live : b \in BlocksOf(info)}

TrackerTypeOK ==
  /\ freerangeList \in Seq([start : 0..NumBlocks - 1, num : 1..NumBlocks])
  /\ num_allocated_block \in 0..NumBlocks
  /\ live \subseteq [offset : Nat, size : Nat]
  /\ request \in 0..MaxBytes
  /\ answer \in [offset : Nat \union {-1}, size : Nat]

(* Every block is in exactly one place: under one range of the free list   *)
(* or in one piece handed out; and the counter that MemManager::unsetup    *)
(* asserts to be 0 says how many are handed out.                           *)
EveryBlockOnce ==
  /\ \A b \in 0..NumBlocks - 1 :
       Cardinality({i \in DOMAIN freerangeList :
                      b \in freerangeList[i].start..End(freerangeList[i]) - 1})
         + Cardinality({info \in live : b \in BlocksOf(info)}) = 1
  /\ num_allocated_block = Cardinality(HeldBlocks)

(* The ranges are sorted and no two of them touch: what is free together   *)
(* can be allocated together, whatever the order in which it was freed.    *)
SortedAndCoalesced ==
  \A i \in 1..Len(freerangeList) - 1 : End(freerangeList[i]) < freerangeList[i + 1].start

(* What is handed out covers the request.                                  *)
AnswerCovers == answer # NoSpace => answer.size >= request /\ answer.size < request + BlockSize

(* The free list after any order of requests and frees.                    *)
TrackerSound == TrackerTypeOK /\ EveryBlockOnce /\ SortedAndCoalesced /\ AnswerCovers

(* Seen from outside the tracker is a manager of blocks that refuses only  *)
(* what no run of free blocks can hold.                                    *)
Run(info) == [first |-> IF info = NoSpace THEN -1 ELSE info.offset \div BlockSize,
              num |-> info.size \div BlockSize]

Manager == INSTANCE Space WITH MaxAsked <- SlotsFor(MaxBytes, BlockSize),
                               taken <- {Run(info) : info \in live},
                               asked <- SlotsFor(request, BlockSize),
                               out <- Run(answer)

ImplementsSpace == Manager!Spec
=============================================================================
