----------------------------- MODULE MsgChannel -----------------------------
(***************************************************************************)
(* What a message queue of gos::thread promises its users, without locks,  *)
(* events or memory: one reader obtains the messages in the order of the   *)
(* queue, each exactly once, several at a time if it asks for several.  A  *)
(* message normally enters at the back; pushMsg_on_top puts it in front of *)
(* all the others.  Closing the queue discards what nobody has read.       *)
(***************************************************************************)
EXTENDS Naturals, Sequences

CONSTANT Message

VARIABLES pending,    \* messages in the queue, next one to be read first
          delivered   \* messages obtained by the reader, in order

Init == /\ pending = <<>>
        /\ delivered = <<>>

Send(m) == /\ pending' = Append(pending, m)
           /\ UNCHANGED delivered

SendOnTop(m) == /\ pending' = <<m>> \o pending
                /\ UNCHANGED delivered

Deliver(n) == /\ delivered' = delivered \o SubSeq(pending, 1, n)
              /\ pending' = SubSeq(pending, n + 1, Len(pending))

Close == /\ pending' = <<>>
         /\ UNCHANGED delivered

Next == \/ \E m \in Message : Send(m) \/ SendOnTop(m)
        \/ \E n \in 1..Len(pending) : Deliver(n)
        \/ Close

Spec == Init /\ [][Next]_<<pending, delivered>>
=============================================================================
