------------------------------- MODULE Queues -------------------------------
(***************************************************************************)
(* The two queues of gos: the linked one and the one in a ring of cells.   *)
(***************************************************************************)
EXTENDS Fifo, FixedFifo

(* Both queues, whatever the order of pushes and pops: the list visits the *)
(* memory the FIFO holds (gosFIFO.h), and the positions and the counter of *)
(* the ring agree (gosFIFOFixedSize.h).                                    *)
QueuesSound == FifoTypeOK /\ ListIsMemory /\ RingExact
=============================================================================
