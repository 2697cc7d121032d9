-------------------------------- MODULE MsgQ --------------------------------
(***************************************************************************)
(* A message queue of gos::thread (gosThreadMsgQ.cpp) from its creation to *)
(* deleteMsgQ: a FIFO and a mutex in a record reached through a handle,    *)
(* and an event that wakes the reader.                                     *)
(*                                                                         *)
(* On Linux the event is an eventfd watched edge triggered by epoll        *)
(* (linuxOSEvent.cpp): every write raises an edge, edges that nobody has   *)
(* collected merge, and epoll_pwait consumes the edge although the message *)
(* stays in the FIFO.  A reader that goes back to sleep must therefore     *)
(* have seen the FIFO empty; the one modelled here is the loop of the      *)
(* loader thread, which drains the FIFO in batches of popMultipleMsg.      *)
(*                                                                         *)
(* A pusher works in four steps, as its code does: look the handle up and  *)
(* copy the payload; take the mutex and link the message; fire the event;  *)
(* release the mutex.  fifo is a sequence here: module Fifo shows that the *)
(* linked list of gosFIFO.h is one.                                        *)
(***************************************************************************)
EXTENDS Naturals, Sequences

CONSTANTS Writers,   \* threads that own the write handle
          MaxPush,   \* bound: pushes attempted by one writer
          MaxPop,    \* numMaxMessagesToPop of popMultipleMsg
          Bodies,    \* what the writers may push
          NoOwner    \* the mutex is free

(* A body: the command it carries, whether msg.buffer is a private copy    *)
(* (bufferSize > 0) that deleteMsg has to free or the caller's own pointer *)
(* (bufferSize = 0), and whether pushMsg_on_top pushes it.                 *)
Body == [what : {"work", "die"}, copied : BOOLEAN, onTop : BOOLEAN]

ASSUME MsgQAssumption == /\ MaxPush \in Nat
                         /\ MaxPop \in Nat \ {0}
                         /\ Bodies \subseteq Body
                         /\ NoOwner \notin Writers

(* A message: who pushed it, and which of its pushes it was.               *)
Message == [from : Writers, num : 1..MaxPush, body : Bodies]

VARIABLES
  alive,     \* the handle resolves to the record of the queue
  fifo,      \* the messages linked in the FIFO
  lock,      \* owner of sThreadMsgQ::cs
  edge,      \* an edge is ready in the epoll instance of hEvent
  heap,      \* messages whose private buffer is allocated
  wpc,       \* where each writer is in pushMsg
  wmsg,      \* the sMsg each writer has on its stack
  pushed,    \* number of pushes each writer has attempted
  rpc,       \* where the reader is in its loop
  batch,     \* the reader's msgList, from the next message to be handled
  bQuit,     \* the reader has handled a DIE
  handled    \* history: the messages handled, in order

vars == <<alive, fifo, lock, edge, heap, wpc, wmsg, pushed, rpc, batch, bQuit, handled>>

readerVars == <<rpc, batch, bQuit, handled>>
writerVars == <<wpc, wmsg, pushed>>

Init ==
  /\ alive = TRUE
  /\ fifo = <<>>
  /\ lock = NoOwner
  /\ edge = FALSE
  /\ heap = {}
  /\ wpc = [w \in Writers |-> "idle"]
  /\ wmsg = [w \in Writers |-> <<>>]
  /\ pushed = [w \in Writers |-> 0]
  /\ rpc = "wait"
  /\ batch = <<>>
  /\ bQuit = FALSE
  /\ handled = <<>>
-----------------------------------------------------------------------------
(* The writers.                                                            *)

(* The handle is looked up without any lock; a queue that is gone swallows *)
(* the push.  The private copy of the payload is made before locking.      *)
PushPrepare(w, m) ==
  /\ wpc[w] = "idle"
  /\ pushed[w] < MaxPush
  /\ m.from = w
  /\ m.num = pushed[w] + 1
  /\ pushed' = [pushed EXCEPT ![w] = @ + 1]
  /\ IF alive
     THEN /\ wpc' = [wpc EXCEPT ![w] = "prepared"]
          /\ wmsg' = [wmsg EXCEPT ![w] = <<m>>]
          /\ heap' = IF m.body.copied THEN heap \union {m} ELSE heap
     ELSE UNCHANGED <<wpc, wmsg, heap>>
  /\ UNCHANGED <<alive, fifo, lock, edge, readerVars>>

(* Mutant: always pushes in front.                                         *)
PushLink_front(w) ==
  /\ wpc[w] = "prepared" /\ lock = NoOwner
  /\ lock' = w
  /\ fifo' = wmsg[w] \o fifo
  /\ wpc' = [wpc EXCEPT ![w] = "linked"]
  /\ wmsg' = [wmsg EXCEPT ![w] = <<>>]
  /\ UNCHANGED <<alive, edge, heap, pushed, readerVars>>

PushLink(w) ==
  /\ wpc[w] = "prepared"
  /\ lock = NoOwner
  /\ lock' = w
  /\ fifo' = IF wmsg[w][1].body.onTop THEN wmsg[w] \o fifo ELSE fifo \o wmsg[w]
  /\ wpc' = [wpc EXCEPT ![w] = "linked"]
  /\ wmsg' = [wmsg EXCEPT ![w] = <<>>]
  /\ UNCHANGED <<alive, edge, heap, pushed, readerVars>>

(* Mutant: forgets signal_fire.                                            *)
PushFire_silent(w) ==
  /\ wpc[w] = "linked"
  /\ wpc' = [wpc EXCEPT ![w] = "fired"]
  /\ UNCHANGED <<alive, fifo, lock, edge, heap, wmsg, pushed, readerVars>>

PushFire(w) ==
  /\ wpc[w] = "linked"
  /\ edge' = TRUE
  /\ wpc' = [wpc EXCEPT ![w] = "fired"]
  /\ UNCHANGED <<alive, fifo, lock, heap, wmsg, pushed, readerVars>>

PushUnlock(w) ==
  /\ wpc[w] = "fired"
  /\ lock' = NoOwner
  /\ wpc' = [wpc EXCEPT ![w] = "idle"]
  /\ UNCHANGED <<alive, fifo, edge, heap, wmsg, pushed, readerVars>>
-----------------------------------------------------------------------------
(* The reader: waitForAnEvent, then popMultipleMsg until it returns 0.     *)

WaitForAnEvent ==
  /\ rpc = "wait"
  /\ edge
  /\ edge' = FALSE
  /\ rpc' = "pop"
  /\ UNCHANGED <<alive, fifo, lock, heap, writerVars, batch, bQuit, handled>>

(* The messages one call of popMultipleMsg obtains.                        *)
PopCount == IF Len(fifo) < MaxPop THEN Len(fifo) ELSE MaxPop

(* Mutant: empties the FIFO whatever fits in the caller's list.            *)
PopMultipleMsg_all ==
  /\ rpc = "pop" /\ lock = NoOwner
  /\ batch' = SubSeq(fifo, 1, PopCount)
  /\ fifo' = <<>>
  /\ rpc' = IF PopCount = 0 THEN "wait" ELSE "handle"
  /\ UNCHANGED <<alive, lock, edge, heap, writerVars, bQuit, handled>>

PopMultipleMsg ==
  /\ rpc = "pop"
  /\ lock = NoOwner
  /\ batch' = SubSeq(fifo, 1, PopCount)
  /\ fifo' = SubSeq(fifo, PopCount + 1, Len(fifo))
  /\ rpc' = IF PopCount = 0 THEN "wait" ELSE "handle"
  /\ UNCHANGED <<alive, lock, edge, heap, writerVars, bQuit, handled>>

(* Mutant: forgets deleteMsg.                                              *)
HandleMsg_leak ==
  /\ rpc = "handle"
  /\ bQuit' = (bQuit \/ Head(batch).body.what = "die")
  /\ handled' = Append(handled, Head(batch))
  /\ batch' = Tail(batch)
  /\ rpc' = IF Len(batch) > 1 THEN "handle" ELSE IF bQuit' THEN "ended" ELSE "pop"
  /\ UNCHANGED <<alive, fifo, lock, edge, heap, writerVars>>

(* One turn of the loop over msgList, deleteMsg included.  A DIE only sets *)
(* bQuit: the rest of the batch is handled, what is still in the FIFO is   *)
(* not.                                                                    *)
HandleMsg ==
  /\ rpc = "handle"
  /\ bQuit' = (bQuit \/ Head(batch).body.what = "die")
  /\ handled' = Append(handled, Head(batch))
  /\ heap' = heap \ {Head(batch)}
  /\ batch' = Tail(batch)
  /\ rpc' = IF Len(batch) > 1 THEN "handle" ELSE IF bQuit' THEN "ended" ELSE "pop"
  /\ UNCHANGED <<alive, fifo, lock, edge, writerVars>>
-----------------------------------------------------------------------------
(* The owner of the queue.  gosThreadMsgQ.h asks the caller of deleteMsgQ  *)
(* to make sure that no thread is still using the queue.                   *)
DeleteMsgQ ==
  /\ alive
  /\ rpc = "ended"
  /\ \A w \in Writers : wpc[w] = "idle"
  /\ lock = NoOwner
  /\ heap' = heap \ {fifo[i] : i \in DOMAIN fifo}
  /\ fifo' = <<>>
  /\ alive' = FALSE
  /\ UNCHANGED <<lock, edge, writerVars, readerVars>>
-----------------------------------------------------------------------------
Push(w) == \/ \E m \in Message : PushPrepare(w, m)
           \/ PushLink(w)
           \/ PushFire(w)
           \/ PushUnlock(w)

Reader == WaitForAnEvent \/ PopMultipleMsg \/ HandleMsg

Next == \/ \E w \in Writers : Push(w)
        \/ Reader
        \/ DeleteMsgQ

Spec == Init /\ [][Next]_vars

(* A thread inside pushMsg goes on, and so does the reader; nobody has to  *)
(* start a push or delete the queue.                                       *)
Fairness == /\ \A w \in Writers : WF_vars(PushLink(w) \/ PushFire(w) \/ PushUnlock(w))
            /\ WF_vars(Reader)

FairSpec == Spec /\ Fairness
-----------------------------------------------------------------------------
(* Properties.                                                             *)

TypeOK ==
  /\ alive \in BOOLEAN
  /\ fifo \in Seq(Message)
  /\ lock \in Writers \union {NoOwner}
  /\ edge \in BOOLEAN
  /\ heap \subseteq Message
  /\ wpc \in [Writers -> {"idle", "prepared", "linked", "fired"}]
  /\ wmsg \in [Writers -> Seq(Message)]
  /\ pushed \in [Writers -> 0..MaxPush]
  /\ rpc \in {"wait", "pop", "handle", "ended"}
  /\ batch \in Seq(Message)
  /\ bQuit \in BOOLEAN
  /\ handled \in Seq(Message)

(* A reader about to sleep in waitForAnEvent never sleeps on a message:    *)
(* if the FIFO is not empty, an edge is ready or the thread that linked    *)
(* the last message is still about to fire (signal_fire is inside the      *)
(* mutex, epoll_pwait is not).                                             *)
NoLostWakeup ==
  rpc = "wait" /\ fifo # <<>> => edge \/ \E w \in Writers : wpc[w] = "linked"

(* The messages somebody still has to free: in the FIFO, in the reader's   *)
(* list, on the stack of a writer.                                         *)
InTransit == {fifo[i] : i \in DOMAIN fifo} \union {batch[i] : i \in DOMAIN batch}
               \union UNION {{wmsg[w][i] : i \in DOMAIN wmsg[w]} : w \in Writers}

(* The private buffers allocated by pushMsg are exactly those of the       *)
(* messages in transit: none leaks (not even those a DIE leaves behind for *)
(* deleteMsgQ), none is freed while a message still points to it.          *)
BuffersAccounted == heap = {m \in InTransit : m.body.copied}

(* Everything the reader has obtained or can still obtain, in order.       *)
Trail == handled \o batch \o fifo

(* No message is obtained twice, and the messages one thread appends are   *)
(* obtained in the order in which it pushed them, whatever other threads   *)
(* do and whatever pushMsg_on_top puts in front.                           *)
ExactlyOnceInOrder ==
  \A i, j \in DOMAIN Trail :
    i < j => /\ Trail[i] # Trail[j]
             /\ \/ Trail[i].from # Trail[j].from
                \/ Trail[i].body.onTop
                \/ Trail[j].body.onTop
                \/ Trail[i].num < Trail[j].num

(* Locks, edges and batches are invisible: the queue is a MsgChannel whose *)
(* messages are delivered when popMultipleMsg copies them out.             *)
Channel == INSTANCE MsgChannel WITH pending <- fifo, delivered <- handled \o batch

ImplementsChannel == Channel!Spec

(* A message that is in the FIFO is handled sooner or later, unless the    *)
(* reader stops first.                                                     *)
EveryMessageHandled ==
  \A m \in Message : (\E i \in DOMAIN fifo : fifo[i] = m)
                        ~> ((\E i \in DOMAIN handled : handled[i] = m) \/ rpc = "ended")
=============================================================================
