----------------------------- MODULE LossyQueue ------------------------------
(***************************************************************************)
(* What gos::FIFOFixedSize promises: a queue of the last elements pushed,  *)
(* N at most.                                                              *)
(***************************************************************************)
EXTENDS Naturals, Sequences

CONSTANTS N, Values,
          NoValue

VARIABLES content,  \* oldest element first
          out       \* what the last pop or top gave

Init == content = <<>> /\ out = NoValue

Push(v) ==
  /\ content' = Append(IF Len(content) = N THEN Tail(content) ELSE content, v)
  /\ UNCHANGED out

Pop ==
  /\ content # <<>>
  /\ out' = Head(content)
  /\ content' = Tail(content)

Peek ==
  /\ out' = IF content = <<>> THEN NoValue ELSE Head(content)
  /\ UNCHANGED content

Clear == content' = <<>> /\ UNCHANGED out

Next == (\E v \in Values : Push(v)) \/ Pop \/ Peek \/ Clear

Spec == Init /\ [][Next]_<<content, out>>
=============================================================================
