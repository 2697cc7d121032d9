------------------------------ MODULE BufferMan ------------------------------
(***************************************************************************)
(* The vertex and index buffer managers of the engine (the same code       *)
(* twice) with the shapes that are built over them and destroyed: a list   *)
(* of GPU buffers of one size, cut into blocks of 32 * 3 bytes by a        *)
(* FreespaceTracker each.  A shape is drawn by element number, so its      *)
(* offset in bytes has to be a multiple of the size of its elements.       *)
(***************************************************************************)
EXTENDS FreeRanges, FiniteSets, FiniteSetsExt

CONSTANTS BlocksPerBuffer,  \* BUFFER_SIZE / BlockBytes
          Shapes,           \* what is built: [num, elem], elements and bytes of one
          Ids,              \* the descriptors of shapes
          MaxBuffers        \* bound: GPU buffers

(* Mutant: a power of two.                                                 *)
BlockBytes_power == 32

BlockBytes == 96

ASSUME BufAssumption == /\ BlocksPerBuffer \in Nat \ {0}
                        /\ \A s \in Shapes : s.num \in Nat \ {0} /\ s.elem \in Nat \ {0}
                        /\ MaxBuffers \in Nat

VARIABLES buffers,  \* free list of the tracker of each buffer
          shapes    \* the shapes alive

bufVars == <<buffers, shapes>>

NewBuffer == <<RangeAt(0, BlocksPerBuffer)>>

(* What priv_gpushape_build writes into the descriptor of a shape; buffer  *)
(* is 0 if reserve failed.                                                 *)
GPUShapeData(id, s, buffer, offset, size) ==
  [id |-> id, num |-> s.num, elem |-> s.elem, buffer |-> buffer, offset |-> offset,
   size |-> size, start |-> offset \div s.elem]

BufInit == buffers = <<>> /\ shapes = {}

BuffersThatFit(n) == {b \in DOMAIN buffers : FirstFit(buffers[b], n) # 0}

Place(id, s, n, list, b) ==
  LET offset == list[b][FirstFit(list[b], n)].start * BlockBytes
  IN  /\ buffers' = [list EXCEPT ![b] = Taken(@, n)]
      /\ shapes' = shapes \union {GPUShapeData(id, s, b, offset, n * BlockBytes)}

(* priv_gpushape_build over reserve: the first buffer with room, else a    *)
(* new one, which stays even if the shape is larger than a buffer; that    *)
(* reserve failed is not noticed.                                          *)
Build(id, s) ==
  LET n == SlotsFor(s.num * s.elem, BlockBytes)
      more == Append(buffers, NewBuffer)
  IN  /\ \A x \in shapes : x.id # id
      /\ \/ /\ BuffersThatFit(n) # {}
            /\ Place(id, s, n, buffers, Min(BuffersThatFit(n)))
         \/ /\ BuffersThatFit(n) = {} /\ Len(buffers) < MaxBuffers
            /\ n <= BlocksPerBuffer
            /\ Place(id, s, n, more, Len(more))
         \/ /\ BuffersThatFit(n) = {} /\ Len(buffers) < MaxBuffers
            /\ n > BlocksPerBuffer
            /\ buffers' = more
            /\ shapes' = shapes \union {GPUShapeData(id, s, 0, 0, 0)}

(* res2__gpushapeRes_callback_on_destroy: no buffer has the handle of a    *)
(* shape whose reserve failed.                                             *)
Destroy(s) ==
  /\ s \in shapes
  /\ shapes' = shapes \ {s}
  /\ buffers' = IF s.buffer = 0 THEN buffers
                ELSE [buffers EXCEPT ![s.buffer] = Freed(@, s.offset \div BlockBytes, s.size \div BlockBytes)]

BufNext == \/ \E id \in Ids, s \in Shapes : Build(id, s)
           \/ \E s \in shapes : Destroy(s)

BufSpec == BufInit /\ [][BufNext]_bufVars
-----------------------------------------------------------------------------
(* Properties.                                                             *)

Holds(s, b, k) == s.buffer = b /\ k * BlockBytes >= s.offset /\ k * BlockBytes < s.offset + s.size

(* Every block of every buffer is free or under exactly one shape.         *)
BufferBlocksOnce ==
  \A b \in DOMAIN buffers, k \in 0..BlocksPerBuffer - 1 :
    Cardinality({s \in shapes : Holds(s, b, k)})
      + Cardinality({i \in DOMAIN buffers[b] : k >= buffers[b][i].start /\ k < End(buffers[b][i])}) = 1

(* A shape drawn from element number start on shows its own elements and   *)
(* no others: the division of the offset is exact and the bytes suffice.   *)
ElementsExact ==
  \A s \in shapes : s.buffer # 0 => /\ s.start * s.elem = s.offset
                                    /\ s.num * s.elem <= s.size

(* Shapes come and go in any order over several buffers and none shows the *)
(* elements of another.                                                    *)
ShapesExact == BufferBlocksOnce /\ ElementsExact
=============================================================================
