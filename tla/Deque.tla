------------------------------- MODULE Deque -------------------------------
(***************************************************************************)
(* What gos::FIFO promises: a queue one can also push in front of.         *)
(***************************************************************************)
EXTENDS Naturals, Sequences

CONSTANTS Data,
          Nothing    \* what pop leaves in *out_data when it returns false

VARIABLES content,   \* the queue, next element to be popped first
          popped     \* what the last pop returned

Init == content = <<>> /\ popped = Nothing

Push(d) == content' = Append(content, d) /\ UNCHANGED popped

PushOnTop(d) == content' = <<d>> \o content /\ UNCHANGED popped

Pop == IF content = <<>>
       THEN popped' = Nothing /\ UNCHANGED content
       ELSE popped' = Head(content) /\ content' = Tail(content)

Empty == content' = <<>> /\ UNCHANGED popped

Next == (\E d \in Data : Push(d) \/ PushOnTop(d)) \/ Pop \/ Empty

Spec == Init /\ [][Next]_<<content, popped>>
=============================================================================
