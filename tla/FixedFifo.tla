----------------------------- MODULE FixedFifo ------------------------------
(***************************************************************************)
(* gos::FIFOFixedSize (gosFIFOFixedSize.h): a queue in an array of N       *)
(* elements; a push into a full queue overwrites the oldest element.  The  *)
(* main loop of the GPU keeps the acquired swapchain images in one.        *)
(***************************************************************************)
EXTENDS Naturals, Sequences

CONSTANTS N,
          Values,
          NoValue   \* what *out_val holds if pop or top returns false

ASSUME FixedFifoAssumption == N \in Nat \ {0} /\ NoValue \notin Values

VARIABLES iPush, iPop, numElem,
          blob,
          out        \* what the last pop or top gave

fixedVars == <<iPush, iPop, numElem, blob, out>>

Cells == 0..N - 1

(* The constructor does not write blob: a cell that no push has written    *)
(* holds anything.                                                         *)
FixedInit ==
  /\ iPush = 0 /\ iPop = 0 /\ numElem = 0
  /\ blob \in [Cells -> Values]
  /\ out = NoValue

Inc(i) == IF i + 1 = N THEN 0 ELSE i + 1

(* Mutant: the oldest element stays the next to be popped.                 *)
PushFull_keepsPop(v) ==
  /\ numElem = N
  /\ blob' = [blob EXCEPT ![iPush] = v]
  /\ iPush' = Inc(iPush)
  /\ UNCHANGED <<iPop, numElem, out>>

(* The write position drags the read position along, and back to 0 when it *)
(* gets there itself.                                                      *)
PushFull(v) ==
  /\ numElem = N
  /\ blob' = [blob EXCEPT ![iPush] = v]
  /\ iPush' = Inc(iPush)
  /\ iPop' = IF iPush + 1 = N THEN 0 ELSE iPop + 1
  /\ UNCHANGED <<numElem, out>>

PushRoom(v) ==
  /\ numElem # N
  /\ blob' = [blob EXCEPT ![iPush] = v]
  /\ iPush' = Inc(iPush)
  /\ numElem' = numElem + 1
  /\ UNCHANGED <<iPop, out>>

PopFixed ==
  /\ numElem # 0
  /\ out' = blob[iPop]
  /\ iPop' = Inc(iPop)
  /\ numElem' = numElem - 1
  /\ UNCHANGED <<iPush, blob>>

Top ==
  /\ numElem # 0
  /\ out' = blob[iPop]
  /\ UNCHANGED <<iPush, iPop, numElem, blob>>

(* pop and top of an empty queue return false.                             *)
FindEmpty ==
  /\ numElem = 0
  /\ out' = NoValue
  /\ UNCHANGED <<iPush, iPop, numElem, blob>>

Reset ==
  /\ iPush' = 0 /\ iPop' = 0 /\ numElem' = 0
  /\ UNCHANGED <<blob, out>>

FixedNext == \/ \E v \in Values : PushFull(v) \/ PushRoom(v)
             \/ PopFixed \/ Top \/ FindEmpty \/ Reset

FixedSpec == FixedInit /\ [][FixedNext]_fixedVars
-----------------------------------------------------------------------------
(* Properties.                                                             *)

(* The read and the write position are cells, and the distance between     *)
(* them is the number of elements: what push asserts of the two.           *)
RingExact ==
  /\ iPush \in Cells /\ iPop \in Cells /\ numElem \in 0..N
  /\ blob \in [Cells -> Values]
  /\ out \in Values \union {NoValue}
  /\ iPush = iPop + numElem \/ iPush + N = iPop + numElem

(* The cell of the k-th oldest element.                                    *)
CellOf(k) == IF iPop + k - 1 < N THEN iPop + k - 1 ELSE iPop + k - 1 - N

(* The array behaves as a queue that forgets its oldest element when it is *)
(* full.                                                                   *)
Window == INSTANCE LossyQueue WITH
            content <- [k \in 1..numElem |-> blob[CellOf(k)]]

ImplementsLossyQueue == Window!Spec
=============================================================================
