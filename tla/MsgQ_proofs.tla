----------------------------- MODULE MsgQ_proofs -----------------------------
(*****************************************************************************)
(* Theorems about MsgQ and Threads for any number of writers, threads,       *)
(* pushes and messages: the absence of lost wake-ups and the refinement of   *)
(* MsgChannel; each message is obtained at most once and in the order of its *)
(* pusher, and its private buffer lives exactly as long as it is in transit; *)
(* wait_end and the shutdown of the library keep their promises, and the     *)
(* queue is deleted when nobody uses it, so that the theorems about MsgQ     *)
(* hold of the queue of an engine that starts and stops.                     *)
(*****************************************************************************)
EXTENDS Threads, SequenceTheorems, TLAPS

(* The queue.                                                              *)

USE MsgQAssumption DEF MsgQAssumption

(* What a push and a drain do to a sequence of messages.                   *)
LEMMA PopCountBounds ==
  ASSUME fifo \in Seq(Message)
  PROVE  /\ PopCount \in 0..Len(fifo)
         /\ PopCount = 0 => fifo = <<>>
BY DEF PopCount

LEMMA EmptyIsLenZero ==
  ASSUME NEW S, NEW s \in Seq(S)
  PROVE  s = <<>> <=> Len(s) = 0
OBVIOUS

LEMMA JoinAssociative ==
  ASSUME NEW s \in Seq(Message), NEW t \in Seq(Message), NEW u \in Seq(Message)
  PROVE  (s \o t) \o u = s \o (t \o u)
BY ConcatAssociative

(* Every variable keeps its type; in particular the reader only ever takes *)
(* the head of a batch that has one.                                       *)
BatchInv == rpc = "handle" <=> batch # <<>>

WmsgInv == \A w \in Writers :
             IF wpc[w] = "prepared" THEN Len(wmsg[w]) = 1 ELSE wmsg[w] = <<>>

LEMMA InitType == Init => TypeOK /\ BatchInv /\ WmsgInv
<1> SUFFICES ASSUME Init PROVE TypeOK /\ BatchInv /\ WmsgInv
  OBVIOUS
<1>1. <<>> \in Seq(Message)
  OBVIOUS
<1>2. 0 \in 0..MaxPush
  OBVIOUS
<1>3. TypeOK
  BY <1>1, <1>2 DEF Init, TypeOK
<1>4. BatchInv /\ WmsgInv
  BY DEF Init, BatchInv, WmsgInv
<1> QED
  BY <1>3, <1>4

LEMMA NextType == TypeOK /\ BatchInv /\ WmsgInv /\ [Next]_vars
                    => (TypeOK /\ BatchInv /\ WmsgInv)'
<1> SUFFICES ASSUME TypeOK, BatchInv, WmsgInv, [Next]_vars
             PROVE  TypeOK' /\ BatchInv' /\ WmsgInv'
  OBVIOUS
<1> USE DEF TypeOK, BatchInv, WmsgInv
<1>1. ASSUME NEW w \in Writers, NEW m \in Message, PushPrepare(w, m)
      PROVE  TypeOK' /\ BatchInv' /\ WmsgInv'
  <2>1. <<m>> \in Seq(Message) /\ Len(<<m>>) = 1
    OBVIOUS
  <2>2. pushed' \in [Writers -> 0..MaxPush]
    BY <1>1 DEF PushPrepare
  <2>3. CASE alive
    <3>1. wmsg' = [wmsg EXCEPT ![w] = <<m>>] /\ wpc' = [wpc EXCEPT ![w] = "prepared"]
      BY <1>1, <2>3 DEF PushPrepare
    <3>2. WmsgInv' /\ wmsg' \in [Writers -> Seq(Message)]
      BY <2>1, <3>1
    <3>3. heap' \subseteq Message
      BY <1>1, <2>3 DEF PushPrepare
    <3> QED
      BY <1>1, <2>2, <3>1, <3>2, <3>3 DEF PushPrepare, readerVars
  <2>4. CASE ~alive
    BY <1>1, <2>2, <2>4 DEF PushPrepare, readerVars
  <2> QED
    BY <2>3, <2>4
<1>2. ASSUME NEW w \in Writers, PushLink(w)
      PROVE  TypeOK' /\ BatchInv' /\ WmsgInv'
  BY <1>2 DEF PushLink, readerVars
<1>3. ASSUME NEW w \in Writers, PushFire(w)
      PROVE  TypeOK' /\ BatchInv' /\ WmsgInv'
  BY <1>3 DEF PushFire, readerVars
<1>4. ASSUME NEW w \in Writers, PushUnlock(w)
      PROVE  TypeOK' /\ BatchInv' /\ WmsgInv'
  BY <1>4 DEF PushUnlock, readerVars
<1>5. CASE WaitForAnEvent
  BY <1>5 DEF WaitForAnEvent, writerVars
<1>6. CASE PopMultipleMsg
  <2>1. PopCount \in 0..Len(fifo)
    BY PopCountBounds
  <2>2. /\ batch' \in Seq(Message) /\ Len(batch') = PopCount
        /\ fifo' \in Seq(Message)
    BY <1>6, <2>1 DEF PopMultipleMsg
  <2>3. batch' # <<>> <=> PopCount # 0
    BY <2>1, <2>2
  <2> QED
    BY <1>6, <2>2, <2>3 DEF PopMultipleMsg, writerVars
<1>7. CASE HandleMsg
  <2>1. Head(batch) \in Message /\ Tail(batch) \in Seq(Message)
        /\ Len(Tail(batch)) = Len(batch) - 1
    BY <1>7 DEF HandleMsg
  <2>2. Tail(batch) # <<>> <=> Len(batch) > 1
    <3>1. Len(batch) \in Nat \ {0}
      BY <1>7 DEF HandleMsg
    <3>2. Tail(batch) = <<>> <=> Len(Tail(batch)) = 0
      <4> HIDE DEF TypeOK, BatchInv, WmsgInv
      <4> QED
        BY <2>1, EmptyIsLenZero
    <3>3. Len(Tail(batch)) # 0 <=> Len(batch) > 1
      <4> HIDE DEF TypeOK, BatchInv, WmsgInv
      <4> QED
        BY <2>1, <3>1
    <3> QED
      BY <3>2, <3>3, Zenon
  <2>3. bQuit' \in BOOLEAN
    BY <1>7 DEF HandleMsg
  <2> QED
    BY <1>7, <2>1, <2>2, <2>3 DEF HandleMsg, writerVars
<1>8. CASE DeleteMsgQ
  BY <1>8 DEF DeleteMsgQ, writerVars, readerVars
<1>9. CASE UNCHANGED vars
  BY <1>9 DEF vars
<1> QED
  BY <1>1, <1>2, <1>3, <1>4, <1>5, <1>6, <1>7, <1>8, <1>9 DEF Next, Push, Reader

(* The types hold in every reachable state of the queue, for any number of *)
(* writers and pushes.                                                     *)
THEOREM TypeCorrect == Spec => []TypeOK
<1>1. Spec => [](TypeOK /\ BatchInv /\ WmsgInv)
  BY InitType, NextType, PTL DEF Spec
<1> QED
  BY <1>1, PTL

LEMMA WellFormed == Spec => [](TypeOK /\ BatchInv /\ WmsgInv)
BY InitType, NextType, PTL DEF Spec
-----------------------------------------------------------------------------
(* The absence of lost wake-ups is inductive given the types: a link is    *)
(* followed by a fire of the same thread, and the reader goes to sleep     *)
(* only from a popMultipleMsg that found the FIFO empty.                   *)
LEMMA NextWakeup == TypeOK /\ NoLostWakeup /\ [Next]_vars => NoLostWakeup'
<1> SUFFICES ASSUME TypeOK, NoLostWakeup, [Next]_vars
             PROVE  NoLostWakeup'
  OBVIOUS
<1> USE DEF TypeOK, NoLostWakeup
<1>1. ASSUME NEW w \in Writers, NEW m \in Message, PushPrepare(w, m)
      PROVE  NoLostWakeup'
  BY <1>1 DEF PushPrepare, readerVars
<1>2. ASSUME NEW w \in Writers, PushLink(w)
      PROVE  NoLostWakeup'
  BY <1>2 DEF PushLink
<1>3. ASSUME NEW w \in Writers, PushFire(w)
      PROVE  NoLostWakeup'
  BY <1>3 DEF PushFire
<1>4. ASSUME NEW w \in Writers, PushUnlock(w)
      PROVE  NoLostWakeup'
  BY <1>4 DEF PushUnlock, readerVars
<1>5. CASE WaitForAnEvent
  BY <1>5 DEF WaitForAnEvent
<1>6. CASE PopMultipleMsg
  <2>1. CASE PopCount = 0
    <3>1. fifo = <<>> /\ fifo' = SubSeq(fifo, 1, 0)
      BY <1>6, <2>1, PopCountBounds DEF PopMultipleMsg
    <3>2. fifo' = <<>>
      BY <3>1
    <3> QED
      BY <3>2
  <2>2. CASE PopCount # 0
    BY <1>6, <2>2 DEF PopMultipleMsg
  <2> QED
    BY <2>1, <2>2
<1>7. CASE HandleMsg
  BY <1>7 DEF HandleMsg
<1>8. CASE DeleteMsgQ
  BY <1>8 DEF DeleteMsgQ
<1>9. CASE UNCHANGED vars
  BY <1>9 DEF vars
<1> QED
  BY <1>1, <1>2, <1>3, <1>4, <1>5, <1>6, <1>7, <1>8, <1>9 DEF Next, Push, Reader

(* The reader never sleeps on a message: in no reachable state is it in    *)
(* waitForAnEvent with a non-empty FIFO, no edge ready and nobody about to *)
(* fire one.                                                               *)
THEOREM NoWakeupIsLost == Spec => []NoLostWakeup
<1>1. Init => NoLostWakeup
  BY DEF Init, NoLostWakeup
<1> QED
  BY <1>1, NextWakeup, TypeCorrect, PTL DEF Spec
-----------------------------------------------------------------------------
(* Steps of the queue as steps of the abstract channel.                    *)
LEMMA ChannelStep == TypeOK /\ BatchInv /\ WmsgInv /\ [Next]_vars
                       => [Channel!Next]_<<fifo, handled \o batch>>
<1> SUFFICES ASSUME TypeOK, BatchInv, WmsgInv, [Next]_vars
             PROVE  Channel!Next \/ UNCHANGED <<fifo, handled \o batch>>
  OBVIOUS
<1> USE DEF TypeOK, BatchInv, WmsgInv
<1>1. ASSUME NEW w \in Writers, NEW m \in Message, PushPrepare(w, m)
      PROVE  UNCHANGED <<fifo, handled \o batch>>
  BY <1>1 DEF PushPrepare, readerVars
<1>2. ASSUME NEW w \in Writers, PushLink(w)
      PROVE  Channel!Next
  <2> DEFINE m == wmsg[w][1]
  <2>1. m \in Message /\ wmsg[w] = <<m>>
    BY <1>2 DEF PushLink
  <2>2. UNCHANGED (handled \o batch)
    BY <1>2 DEF PushLink, readerVars
  <2>3. CASE m.body.onTop
    <3>1. Channel!SendOnTop(m)
      BY <1>2, <2>1, <2>2, <2>3 DEF PushLink, Channel!SendOnTop
    <3> QED
      BY <2>1, <3>1 DEF Channel!Next
  <2>4. CASE ~m.body.onTop
    <3>1. fifo \o <<m>> = Append(fifo, m)
      BY <2>1
    <3>2. Channel!Send(m)
      BY <1>2, <2>1, <2>2, <2>4, <3>1 DEF PushLink, Channel!Send
    <3> QED
      BY <2>1, <3>2 DEF Channel!Next
  <2> QED
    BY <2>3, <2>4
<1>3. ASSUME NEW w \in Writers, PushFire(w) \/ PushUnlock(w)
      PROVE  UNCHANGED <<fifo, handled \o batch>>
  BY <1>3 DEF PushFire, PushUnlock, readerVars
<1>5. CASE WaitForAnEvent
  BY <1>5 DEF WaitForAnEvent
<1>6. CASE PopMultipleMsg
  <2>1. PopCount \in 0..Len(fifo) /\ batch = <<>> /\ UNCHANGED handled
    BY <1>6, PopCountBounds DEF PopMultipleMsg
  <2>2. handled \o batch = handled
    BY <2>1
  <2>3. handled' \o batch' = (handled \o batch) \o SubSeq(fifo, 1, PopCount)
    BY <1>6, <2>1, <2>2 DEF PopMultipleMsg
  <2>4. CASE PopCount = 0
    <3>1. fifo = <<>> /\ fifo' = SubSeq(fifo, 1, 0) /\ batch' = SubSeq(fifo, 1, 0)
      BY <1>6, <2>4, PopCountBounds DEF PopMultipleMsg
    <3>2. fifo' = fifo /\ batch' = batch
      BY <2>1, <3>1
    <3> QED
      BY <2>1, <3>2
  <2>5. CASE PopCount # 0
    <3>1. PopCount \in 1..Len(fifo)
      BY <2>1, <2>5
    <3>2. Channel!Deliver(PopCount)
      BY <1>6, <2>3 DEF PopMultipleMsg, Channel!Deliver
    <3> QED
      BY <3>1, <3>2 DEF Channel!Next
  <2> QED
    BY <2>4, <2>5
<1>7. CASE HandleMsg
  <2>1. batch \in Seq(Message) /\ batch # <<>> /\ handled \in Seq(Message)
    BY <1>7 DEF HandleMsg
  <2>2. Append(handled, Head(batch)) \o Tail(batch) = handled \o batch
    <3> DEFINE h == <<Head(batch)>>
               t == Tail(batch)
    <3>1. h \in Seq(Message) /\ t \in Seq(Message) /\ h \o t = batch
      BY <2>1
    <3>2. Append(handled, Head(batch)) = handled \o h
      BY <2>1
    <3> HIDE DEF h, t
    <3>3. (handled \o h) \o t = handled \o (h \o t)
      BY ONLY <2>1, <3>1, JoinAssociative
    <3> QED
      BY ONLY <3>1, <3>2, <3>3 DEF t
  <2> QED
    BY <1>7, <2>2 DEF HandleMsg
<1>8. CASE DeleteMsgQ
  <2>1. Channel!Close
    BY <1>8 DEF DeleteMsgQ, readerVars, Channel!Close
  <2> QED
    BY <2>1 DEF Channel!Next
<1>9. CASE UNCHANGED vars
  BY <1>9 DEF vars
<1> QED
  BY <1>1, <1>2, <1>3, <1>5, <1>6, <1>7, <1>8, <1>9 DEF Next, Push, Reader

(* The queue implements MsgChannel: locks, edges, batches and the steps of *)
(* a push are invisible, no message is lost, duplicated or overtaken       *)
(* between pushMsg and popMultipleMsg.                                     *)
THEOREM QueueIsChannel == Spec => ImplementsChannel
<1>1. Init => Channel!Init
  BY DEF Init, Channel!Init
<1> QED
  BY <1>1, ChannelStep, WellFormed, PTL DEF Spec, ImplementsChannel, Channel!Spec

HIDE MsgQAssumption DEF MsgQAssumption
-----------------------------------------------------------------------------
(* Its messages.                                                           *)

(* What ExactlyOnceInOrder says of two messages of the trail, a before b.  *)
Before(a, b) == /\ a # b
                /\ \/ a.from # b.from
                   \/ a.body.onTop
                   \/ b.body.onTop
                   \/ a.num < b.num

Ordered(T) == \A i, j \in 1..Len(T) : i < j => Before(T[i], T[j])

(* No message of T is one that its writer has yet to push.                 *)
Numbered(T) == \A i \in 1..Len(T) : T[i].num =< pushed[T[i].from]

(* What a writer is about to link is its last push: later than all its     *)
(* messages in T.                                                          *)
Latest(T, w) == /\ wmsg[w][1].from = w
                /\ wmsg[w][1].num = pushed[w]
                /\ \A i \in 1..Len(T) : T[i].from = w => T[i].num < pushed[w]

Fresh(T) == \A w \in Writers : wpc[w] = "prepared" => Latest(T, w)

OrderInv == Ordered(Trail) /\ Numbered(Trail) /\ Fresh(Trail)

Inv == TypeOK /\ BatchInv /\ WmsgInv
-----------------------------------------------------------------------------
(* U is T with m inserted after its first p elements.                      *)
Inserted(T, U, p, m) == /\ Len(U) = Len(T) + 1
                        /\ \A k \in 1..p : U[k] = T[k]
                        /\ U[p + 1] = m
                        /\ \A k \in p + 1..Len(T) : U[k + 1] = T[k]

LEMMA InsertInside ==
  ASSUME NEW S, NEW p \in Seq(S), NEW f \in Seq(S), NEW m \in S
  PROVE  /\ Len(p) \in 0..Len(p \o f)
         /\ p \o (<<m>> \o f) \in Seq(S)
         /\ Inserted(p \o f, p \o (<<m>> \o f), Len(p), m)
BY DEF Inserted

LEMMA InsertAtEnd ==
  ASSUME NEW S, NEW p \in Seq(S), NEW f \in Seq(S), NEW m \in S
  PROVE  /\ Len(p \o f) \in 0..Len(p \o f)
         /\ p \o (f \o <<m>>) \in Seq(S)
         /\ Inserted(p \o f, p \o (f \o <<m>>), Len(p \o f), m)
BY DEF Inserted

(* Every element of U is m or an element of T, at the same place or one    *)
(* earlier.                                                                *)
LEMMA InsertedCases ==
  ASSUME NEW S, NEW T \in Seq(S), NEW U \in Seq(S), NEW p \in 0..Len(T), NEW m \in S,
         Inserted(T, U, p, m), NEW k \in 1..Len(U)
  PROVE  \/ k \in 1..p /\ k \in 1..Len(T) /\ U[k] = T[k]
         \/ k = p + 1 /\ U[k] = m
         \/ k - 1 \in p + 1..Len(T) /\ k - 1 \in 1..Len(T) /\ U[k] = T[k - 1]
<1>1. Len(T) \in Nat /\ Len(U) = Len(T) + 1
  BY DEF Inserted
<1>2. CASE k =< p
  BY <1>1, <1>2 DEF Inserted
<1>3. CASE k = p + 1
  BY <1>3 DEF Inserted
<1>4. CASE k > p + 1
  <2>1. k - 1 \in p + 1..Len(T) /\ k - 1 \in 1..Len(T) /\ (k - 1) + 1 = k
    BY <1>1, <1>4
  <2>2. U[(k - 1) + 1] = T[k - 1]
    BY <2>1 DEF Inserted
  <2> QED
    BY <2>1, <2>2
<1> QED
  BY <1>1, <1>2, <1>3, <1>4

LEMMA InsertOrdered ==
  ASSUME NEW T \in Seq(Message), NEW U \in Seq(Message), NEW p \in 0..Len(T),
         NEW m \in Message, Inserted(T, U, p, m), Ordered(T),
         \A k \in 1..p : Before(T[k], m),
         \A k \in p + 1..Len(T) : Before(m, T[k])
  PROVE  Ordered(U)
<1> SUFFICES ASSUME NEW i \in 1..Len(U), NEW j \in 1..Len(U), i < j
             PROVE  Before(U[i], U[j])
  BY DEF Ordered
<1>1. \/ i \in 1..p /\ i \in 1..Len(T) /\ U[i] = T[i]
      \/ i = p + 1 /\ U[i] = m
      \/ i - 1 \in p + 1..Len(T) /\ i - 1 \in 1..Len(T) /\ U[i] = T[i - 1]
  BY InsertedCases
<1>2. \/ j \in 1..p /\ j \in 1..Len(T) /\ U[j] = T[j]
      \/ j = p + 1 /\ U[j] = m
      \/ j - 1 \in p + 1..Len(T) /\ j - 1 \in 1..Len(T) /\ U[j] = T[j - 1]
  BY InsertedCases
<1>3. \A a, b \in 1..Len(T) : a < b => Before(T[a], T[b])
  BY DEF Ordered
<1>4. p \in Nat /\ i \in Nat /\ j \in Nat
  OBVIOUS
<1>5. CASE i \in 1..p /\ i \in 1..Len(T) /\ U[i] = T[i]
  <2>1. CASE j \in 1..p /\ j \in 1..Len(T) /\ U[j] = T[j]
    BY <1>3, <1>5, <2>1
  <2>2. CASE j = p + 1 /\ U[j] = m
    BY <1>5, <2>2
  <2>3. CASE j - 1 \in p + 1..Len(T) /\ j - 1 \in 1..Len(T) /\ U[j] = T[j - 1]
    <3>1. i < j - 1
      BY <1>4, <1>5, <2>3
    <3> QED
      BY <1>3, <1>5, <2>3, <3>1
  <2> QED
    BY <1>2, <2>1, <2>2, <2>3
<1>6. CASE i = p + 1 /\ U[i] = m
  <2>1. j - 1 \in p + 1..Len(T) /\ U[j] = T[j - 1]
    BY <1>2, <1>4, <1>6
  <2> QED
    BY <1>6, <2>1
<1>7. CASE i - 1 \in p + 1..Len(T) /\ i - 1 \in 1..Len(T) /\ U[i] = T[i - 1]
  <2>1. j - 1 \in p + 1..Len(T) /\ j - 1 \in 1..Len(T) /\ U[j] = T[j - 1]
    BY <1>2, <1>4, <1>7
  <2>2. i - 1 < j - 1
    BY <1>4
  <2> QED
    BY <1>3, <1>7, <2>1, <2>2
<1> QED
  BY <1>1, <1>5, <1>6, <1>7
-----------------------------------------------------------------------------
LEMMA TrailType ==
  ASSUME TypeOK
  PROVE  /\ Trail \in Seq(Message)
         /\ Trail = (handled \o batch) \o fifo
         /\ \A i \in 1..Len(Trail) : /\ Trail[i] \in Message
                                     /\ Trail[i].from \in Writers
                                     /\ Trail[i].num \in Nat
<1>1. Trail \in Seq(Message) /\ Trail = (handled \o batch) \o fifo
  BY DEF TypeOK, Trail
<1>2. \A i \in 1..Len(Trail) : Trail[i] \in Message
  BY <1>1
<1>3. \A m \in Message : m.from \in Writers /\ m.num \in Nat
  BY DEF Message
<1> QED
  BY <1>1, <1>2, <1>3

LEMMA PushedType ==
  ASSUME TypeOK, NEW w \in Writers
  PROVE  pushed[w] \in Nat
BY DEF TypeOK

(* The three parts of OrderInv depend on the trail and the writers only.   *)
LEMMA OrderSame ==
  ASSUME OrderInv, Trail' = Trail, UNCHANGED <<wpc, wmsg, pushed>>
  PROVE  OrderInv'
BY DEF OrderInv, Ordered, Numbered, Fresh, Latest, Before

LEMMA PrepareOrder ==
  ASSUME Inv, OrderInv, NEW w \in Writers, NEW m \in Message, PushPrepare(w, m)
  PROVE  OrderInv'
<1>1. TypeOK /\ Trail' = Trail /\ pushed' = [pushed EXCEPT ![w] = pushed[w] + 1]
  BY DEF Inv, PushPrepare, readerVars, Trail
<1>2. /\ pushed'[w] = pushed[w] + 1
      /\ \A v \in Writers : v # w => pushed'[v] = pushed[v]
      /\ \A v \in Writers : pushed[v] =< pushed'[v]
      /\ \A v \in Writers : pushed[v] \in Nat /\ pushed'[v] \in Nat
  BY <1>1, PushedType DEF TypeOK
<1>3. Ordered(Trail')
  BY <1>1 DEF OrderInv
<1>4. \A i \in 1..Len(Trail) : Trail[i].from \in Writers /\ Trail[i].num \in Nat
                               /\ Trail[i].num =< pushed[Trail[i].from]
  BY <1>1, TrailType DEF OrderInv, Numbered
<1>5. Numbered(Trail)'
  BY <1>1, <1>2, <1>4 DEF Numbered
<1>6. Fresh(Trail)'
  <2> SUFFICES ASSUME NEW v \in Writers, wpc'[v] = "prepared"
               PROVE  Latest(Trail, v)'
    BY DEF Fresh
  <2>1. CASE v = w
    <3>1. alive
      BY <2>1 DEF PushPrepare
    <3>2. wmsg'[w] = <<m>> /\ m.from = w /\ m.num = pushed'[w]
      BY <1>1, <1>2, <3>1 DEF PushPrepare, TypeOK
    <3>3. \A i \in 1..Len(Trail) : Trail[i].from = w => Trail[i].num < pushed'[w]
      BY <1>2, <1>4
    <3> QED
      BY <1>1, <2>1, <3>2, <3>3 DEF Latest
  <2>2. CASE v # w
    <3>1. wmsg'[v] = wmsg[v] /\ wpc[v] = "prepared"
      BY <1>1, <2>2 DEF PushPrepare, TypeOK
    <3>2. Latest(Trail, v)
      BY <3>1 DEF OrderInv, Fresh
    <3> QED
      BY <1>1, <1>2, <2>2, <3>1, <3>2 DEF Latest
  <2> QED
    BY <2>1, <2>2
<1> QED
  BY <1>1, <1>3, <1>5, <1>6 DEF OrderInv, Ordered, Before

LEMMA LinkOrder ==
  ASSUME Inv, OrderInv, NEW w \in Writers, PushLink(w)
  PROVE  OrderInv'
<1> DEFINE m == wmsg[w][1]
           P == handled \o batch
           T == P \o fifo
<1>1. /\ TypeOK /\ wpc[w] = "prepared" /\ Trail = T /\ T \in Seq(Message)
      /\ P \in Seq(Message) /\ fifo \in Seq(Message)
      /\ m \in Message /\ wmsg[w] = <<m>>
  <2>1. TypeOK /\ wpc[w] = "prepared" /\ Len(wmsg[w]) = 1 /\ wmsg[w] \in Seq(Message)
    BY DEF Inv, PushLink, WmsgInv, TypeOK
  <2>2. m \in Message /\ wmsg[w] = <<m>>
    BY <2>1
  <2> QED
    BY <2>1, <2>2, TrailType DEF TypeOK
<1>2. m.from = w /\ m.num = pushed[w] /\ (\A i \in 1..Len(T) : T[i].from = w => T[i].num < pushed[w])
  BY <1>1 DEF OrderInv, Fresh, Latest
<1>3. /\ Ordered(T)
      /\ \A i \in 1..Len(T) : /\ T[i] \in Message /\ T[i].from \in Writers /\ T[i].num \in Nat
                              /\ T[i].num =< pushed[T[i].from]
  BY <1>1, TrailType DEF OrderInv, Numbered
<1>4. \A v \in Writers : pushed[v] \in Nat
  BY <1>1, PushedType
<1>5. /\ wpc' = [wpc EXCEPT ![w] = "linked"] /\ UNCHANGED <<pushed, handled, batch>>
      /\ wmsg' = [wmsg EXCEPT ![w] = <<>>]
      /\ fifo' = IF m.body.onTop THEN <<m>> \o fifo ELSE fifo \o <<m>>
  BY <1>1 DEF PushLink, readerVars
<1>6. Trail' = P \o fifo'
  <2>1. fifo' \in Seq(Message)
    BY <1>1, <1>5
  <2>2. (handled \o batch \o fifo)' = P \o fifo'
    BY <1>5
  <2> QED
    BY <2>2 DEF Trail
<1> DEFINE U == P \o fifo'
<1>7. \E p \in 0..Len(T) : /\ Inserted(T, U, p, m) /\ U \in Seq(Message)
                           /\ (~m.body.onTop => p = Len(T))
  <2>1. CASE m.body.onTop
    <3>1. /\ Len(P) \in 0..Len(P \o fifo)
          /\ P \o (<<m>> \o fifo) \in Seq(Message)
          /\ Inserted(P \o fifo, P \o (<<m>> \o fifo), Len(P), m)
      BY <1>1, InsertInside
    <3>2. fifo' = <<m>> \o fifo
      BY <1>5, <2>1
    <3> QED
      BY <2>1, <3>1, <3>2
  <2>2. CASE ~m.body.onTop
    <3>1. /\ Len(P \o fifo) \in 0..Len(P \o fifo)
          /\ P \o (fifo \o <<m>>) \in Seq(Message)
          /\ Inserted(P \o fifo, P \o (fifo \o <<m>>), Len(P \o fifo), m)
      BY <1>1, InsertAtEnd
    <3>2. fifo' = fifo \o <<m>>
      BY <1>5, <2>2
    <3> QED
      BY <2>2, <3>1, <3>2
  <2> QED
    BY <2>1, <2>2
<1> HIDE DEF m, T, U
<1>8. PICK p \in 0..Len(T) : /\ Inserted(T, U, p, m) /\ U \in Seq(Message)
                            /\ (~m.body.onTop => p = Len(T))
  BY <1>7
<1>9. \A k \in 1..Len(T) : Before(T[k], m)
  <2> TAKE k \in 1..Len(T)
  <2>1. T[k].from = w => T[k].num < m.num
    BY <1>2
  <2>2. T[k].from \in Writers /\ T[k].num \in Nat /\ m.num \in Nat /\ m.from = w
    BY <1>2, <1>3, <1>4
  <2>3. T[k] # m
    BY <2>1, <2>2
  <2> QED
    BY <2>1, <2>2, <2>3 DEF Before
<1>10. \A k \in p + 1..Len(T) : Before(m, T[k])
  <2> TAKE k \in p + 1..Len(T)
  <2>1. k \in 1..Len(T) /\ m.body.onTop
    BY <1>1, <1>8
  <2>2. Before(T[k], m)
    BY <1>9, <2>1
  <2> QED
    BY <2>1, <2>2 DEF Before
<1>11. Ordered(U)
  <2>1. \A k \in 1..p : Before(T[k], m)
    <3>1. \A k \in 1..p : k \in 1..Len(T)
      BY <1>1
    <3> QED
      BY <1>9, <3>1
  <2> QED
    BY <1>1, <1>3, <1>8, <1>10, <2>1, InsertOrdered
<1>12. \A k \in 1..Len(U) : U[k] = m \/ \E i \in 1..Len(T) : U[k] = T[i]
  BY <1>1, <1>8, InsertedCases
<1>13. Numbered(Trail)'
  <2>1. ASSUME NEW k \in 1..Len(U) PROVE U[k].num =< pushed[U[k].from]
    <3>1. CASE U[k] = m
      BY <1>2, <1>4, <3>1
    <3>2. CASE \E i \in 1..Len(T) : U[k] = T[i]
      BY <1>3, <3>2
    <3> QED
      BY <1>12, <3>1, <3>2
  <2> QED
    BY <1>5, <1>6, <2>1 DEF Numbered, U
<1>14. Fresh(Trail)'
  <2> SUFFICES ASSUME NEW v \in Writers, wpc'[v] = "prepared"
               PROVE  Latest(Trail, v)'
    BY DEF Fresh
  <2>1. v # w /\ wpc[v] = "prepared" /\ wmsg'[v] = wmsg[v]
    BY <1>1, <1>5 DEF TypeOK
  <2>2. Latest(T, v)
    BY <1>1, <2>1 DEF OrderInv, Fresh
  <2>3. \A k \in 1..Len(U) : U[k].from = v => U[k].num < pushed[v]
    BY <1>2, <1>12, <2>1, <2>2 DEF Latest
  <2> QED
    BY <1>5, <1>6, <2>1, <2>2, <2>3 DEF Latest, U
<1> QED
  BY <1>6, <1>11, <1>13, <1>14 DEF OrderInv, U, Ordered, Before

LEMMA CutAndJoin ==
  ASSUME NEW S, NEW s \in Seq(S), NEW n \in 0..Len(s)
  PROVE  SubSeq(s, 1, n) \o SubSeq(s, n + 1, Len(s)) = s
<1> DEFINE a == SubSeq(s, 1, n)
           b == SubSeq(s, n + 1, Len(s))
<1>1. Len(s) \in Nat /\ n \in Nat /\ n =< Len(s)
  OBVIOUS
<1>2. a \in Seq(S) /\ Len(a) = n /\ \A k \in 1..n : a[k] = s[k]
  OBVIOUS
<1>3. b \in Seq(S) /\ Len(b) = Len(s) - n /\ \A k \in 1..Len(s) - n : b[k] = s[n + k]
  OBVIOUS
<1> HIDE DEF a, b
<1>4. /\ a \o b \in Seq(S)
      /\ Len(a \o b) = Len(s)
      /\ \A k \in 1..Len(s) : (a \o b)[k] = IF k =< n THEN a[k] ELSE b[k - n]
  BY <1>1, <1>2, <1>3, ConcatProperties
<1>5. \A k \in 1..Len(s) : (a \o b)[k] = s[k]
  <2> TAKE k \in 1..Len(s)
  <2>1. CASE k =< n
    BY <1>1, <1>2, <1>4, <2>1
  <2>2. CASE k > n
    <3>1. k - n \in 1..Len(s) - n /\ n + (k - n) = k
      BY <1>1, <2>2
    <3>2. b[k - n] = s[n + (k - n)]
      BY <1>3, <3>1
    <3> QED
      BY <1>1, <1>4, <2>2, <3>1, <3>2
  <2>3. k =< n \/ k > n
    BY <1>1
  <2> QED
    BY <2>1, <2>2, <2>3
<1>6. a \o b = s
  BY <1>4, <1>5, SeqEqual
<1> QED
  BY <1>6 DEF a, b

(* popMultipleMsg and the handling of a message move messages along the    *)
(* trail.                                                                  *)
LEMMA ReaderKeepsTrail ==
  ASSUME Inv, PopMultipleMsg \/ HandleMsg
  PROVE  Trail' = Trail
<1>1. /\ TypeOK /\ BatchInv
      /\ fifo \in Seq(Message) /\ batch \in Seq(Message) /\ handled \in Seq(Message)
  BY DEF Inv, TypeOK
<1>2. CASE PopMultipleMsg
  <2>1. PopCount \in 0..Len(fifo) /\ batch = <<>>
    BY <1>1, <1>2, PopCountBounds DEF PopMultipleMsg, BatchInv
  <2>2. SubSeq(fifo, 1, PopCount) \o SubSeq(fifo, PopCount + 1, Len(fifo)) = fifo
    BY <1>1, <2>1, CutAndJoin
  <2>3. Trail' = handled \o SubSeq(fifo, 1, PopCount) \o SubSeq(fifo, PopCount + 1, Len(fifo))
    BY <1>2 DEF PopMultipleMsg, Trail
  <2> DEFINE a == SubSeq(fifo, 1, PopCount)
             b == SubSeq(fifo, PopCount + 1, Len(fifo))
  <2>4. a \in Seq(Message) /\ b \in Seq(Message)
    BY <1>1, <2>1
  <2> HIDE DEF a, b
  <2>5. (handled \o a) \o b = handled \o (a \o b)
    BY <1>1, <2>4
  <2>6. (handled \o batch) \o fifo = handled \o fifo
    BY <1>1, <2>1
  <2> QED
    BY <2>2, <2>3, <2>5, <2>6 DEF a, b, Trail
<1>3. CASE HandleMsg
  <2>1. batch # <<>>
    BY <1>1, <1>3 DEF HandleMsg, BatchInv
  <2>2. Append(handled, Head(batch)) \o Tail(batch) = handled \o batch
    BY <1>1, <2>1
  <2>3. handled' \o batch' = handled \o batch /\ fifo' = fifo
    BY <1>3, <2>2 DEF HandleMsg
  <2>4. Trail' = (handled' \o batch') \o fifo'
    BY DEF Trail
  <2> QED
    BY <2>3, <2>4 DEF Trail
<1> QED
  BY <1>2, <1>3

LEMMA DeleteOrder ==
  ASSUME Inv, OrderInv, DeleteMsgQ
  PROVE  OrderInv'
<1> DEFINE P == handled \o batch
<1>1. /\ fifo \in Seq(Message) /\ P \in Seq(Message) /\ Trail = P \o fifo /\ Trail \in Seq(Message)
  BY TrailType DEF Inv, TypeOK
<1>2. UNCHANGED <<wpc, wmsg, pushed, handled, batch>> /\ fifo' = <<>>
  BY DEF DeleteMsgQ, writerVars, readerVars
<1>3. Trail' = P
  <2>1. Trail' = P \o <<>>
    BY <1>2 DEF Trail
  <2> QED
    BY <1>1, <2>1
<1> HIDE DEF P
<1>4. \A k \in 1..Len(P) : k \in 1..Len(Trail) /\ P[k] = Trail[k]
  BY <1>1
<1>5. Ordered(Trail)'
  BY <1>3, <1>4 DEF OrderInv, Ordered, Before
<1>6. Numbered(Trail)'
  BY <1>2, <1>3, <1>4 DEF OrderInv, Numbered
<1>7. Fresh(Trail)'
  BY <1>2, <1>3, <1>4 DEF OrderInv, Fresh, Latest
<1> QED
  BY <1>5, <1>6, <1>7 DEF OrderInv

LEMMA NextOrder == Inv /\ OrderInv /\ [Next]_vars => OrderInv'
<1> SUFFICES ASSUME Inv, OrderInv, [Next]_vars PROVE OrderInv'
  OBVIOUS
<1>1. ASSUME NEW w \in Writers, NEW m \in Message, PushPrepare(w, m) PROVE OrderInv'
  BY <1>1, PrepareOrder
<1>2. ASSUME NEW w \in Writers, PushLink(w) PROVE OrderInv'
  BY <1>2, LinkOrder
<1>3. ASSUME NEW w \in Writers, PushFire(w) \/ PushUnlock(w) PROVE OrderInv'
  <2>1. /\ Trail' = Trail /\ UNCHANGED <<wmsg, pushed>>
        /\ \A v \in Writers : wpc'[v] = "prepared" => wpc[v] = "prepared"
    BY <1>3 DEF PushFire, PushUnlock, readerVars, Trail, Inv, TypeOK
  <2> QED
    BY <2>1 DEF OrderInv, Ordered, Numbered, Fresh, Latest, Before
<1>5. CASE WaitForAnEvent
  <2>1. Trail' = Trail /\ UNCHANGED <<wpc, wmsg, pushed>>
    BY <1>5 DEF WaitForAnEvent, writerVars, Trail
  <2> QED
    BY <2>1, OrderSame
<1>6. CASE PopMultipleMsg \/ HandleMsg
  <2>1. Trail' = Trail /\ UNCHANGED <<wpc, wmsg, pushed>>
    BY <1>6, ReaderKeepsTrail DEF PopMultipleMsg, HandleMsg, writerVars
  <2> QED
    BY <2>1, OrderSame
<1>7. CASE DeleteMsgQ
  BY <1>7, DeleteOrder
<1>8. CASE UNCHANGED vars
  <2>1. Trail' = Trail /\ UNCHANGED <<wpc, wmsg, pushed>>
    BY <1>8 DEF vars, Trail
  <2> QED
    BY <2>1, OrderSame
<1> QED
  BY <1>1, <1>2, <1>3, <1>5, <1>6, <1>7, <1>8 DEF Next, Push, Reader

LEMMA InitOrder == Init => OrderInv
<1> SUFFICES ASSUME Init PROVE OrderInv
  OBVIOUS
<1>1. Trail = <<>> /\ Len(Trail) = 0
  BY DEF Init, Trail
<1>2. \A w \in Writers : wpc[w] = "idle"
  BY DEF Init
<1> QED
  BY <1>1, <1>2 DEF OrderInv, Ordered, Numbered, Fresh

LEMMA OrderHolds == Spec => [](Inv /\ OrderInv)
<1>1. Spec => []Inv
  BY WellFormed DEF Inv
<1> QED
  BY <1>1, InitOrder, NextOrder, PTL DEF Spec

(* No message is obtained twice, and the messages one thread appends are   *)
(* obtained in the order of its calls of pushMsg, whatever other threads   *)
(* push and whatever pushMsg_on_top puts in front of them.                 *)
THEOREM MessagesInOrder == Spec => []ExactlyOnceInOrder
<1>1. Inv /\ OrderInv => ExactlyOnceInOrder
  <2> SUFFICES ASSUME Inv, OrderInv, NEW i \in DOMAIN Trail, NEW j \in DOMAIN Trail, i < j
               PROVE  Before(Trail[i], Trail[j])
    BY DEF ExactlyOnceInOrder, Before
  <2>1. DOMAIN Trail = 1..Len(Trail)
    BY TrailType DEF Inv
  <2> QED
    BY <2>1 DEF OrderInv, Ordered
<1> QED
  BY <1>1, OrderHolds, PTL
-----------------------------------------------------------------------------
(* The messages in transit, a writer's stack reduced to the one message it *)
(* can hold.                                                               *)
Elems(s) == {s[i] : i \in 1..Len(s)}

Prepared == {w \in Writers : wpc[w] = "prepared"}

Stack == {wmsg[w][1] : w \in Prepared}

Transit == Elems(fifo) \union Elems(batch) \union Stack

LEMMA TransitIs == Inv => InTransit = Transit
<1> SUFFICES ASSUME Inv PROVE InTransit = Transit
  OBVIOUS
<1>1. DOMAIN fifo = 1..Len(fifo) /\ DOMAIN batch = 1..Len(batch)
  BY DEF Inv, TypeOK
<1>2. ASSUME NEW w \in Writers
      PROVE  {wmsg[w][i] : i \in DOMAIN wmsg[w]} = IF w \in Prepared THEN {wmsg[w][1]} ELSE {}
  <2>1. wmsg[w] \in Seq(Message) /\ DOMAIN wmsg[w] = 1..Len(wmsg[w])
    BY DEF Inv, TypeOK
  <2>2. CASE wpc[w] = "prepared"
    <3>1. Len(wmsg[w]) = 1 /\ w \in Prepared
      BY <2>2 DEF Inv, WmsgInv, Prepared
    <3>2. 1..1 = {1}
      OBVIOUS
    <3>3. DOMAIN wmsg[w] = {1}
      BY <2>1, <3>1, <3>2
    <3> QED
      BY <3>1, <3>3
  <2>3. CASE wpc[w] # "prepared"
    <3>1. DOMAIN wmsg[w] = {} /\ w \notin Prepared
      BY <2>1, <2>3 DEF Inv, WmsgInv, Prepared
    <3> QED
      BY <3>1
  <2> QED
    BY <2>2, <2>3
<1>3. UNION {{wmsg[w][i] : i \in DOMAIN wmsg[w]} : w \in Writers} = Stack
  <2> DEFINE D(w) == {wmsg[w][i] : i \in DOMAIN wmsg[w]}
  <2>1. \A w \in Writers : D(w) = IF w \in Prepared THEN {wmsg[w][1]} ELSE {}
    BY <1>2
  <2>2. Prepared \subseteq Writers
    BY DEF Prepared
  <2> HIDE DEF D
  <2>3. UNION {D(w) : w \in Writers} = Stack
    BY <2>1, <2>2 DEF Stack
  <2> QED
    BY <2>3 DEF D
<1> QED
  BY <1>1, <1>3 DEF InTransit, Transit, Elems

LEMMA ElemsConcat ==
  ASSUME NEW s \in Seq(Message), NEW t \in Seq(Message)
  PROVE  Elems(s \o t) = Elems(s) \union Elems(t)
<1>1. /\ Len(s) \in Nat /\ Len(t) \in Nat /\ Len(s \o t) = Len(s) + Len(t)
      /\ \A i \in 1..Len(s) + Len(t) : (s \o t)[i] = IF i =< Len(s) THEN s[i] ELSE t[i - Len(s)]
  BY ConcatProperties
<1>2. ASSUME NEW x \in Elems(s \o t) PROVE x \in Elems(s) \union Elems(t)
  <2>1. PICK i \in 1..Len(s) + Len(t) : x = (s \o t)[i]
    BY <1>1 DEF Elems
  <2>2. CASE i =< Len(s)
    BY <1>1, <2>1, <2>2 DEF Elems
  <2>3. CASE i > Len(s)
    <3>1. i - Len(s) \in 1..Len(t) /\ x = t[i - Len(s)]
      BY <1>1, <2>1, <2>3
    <3> QED
      BY <3>1 DEF Elems
  <2> QED
    BY <1>1, <2>2, <2>3
<1>3. ASSUME NEW x \in Elems(s) PROVE x \in Elems(s \o t)
  <2>1. PICK i \in 1..Len(s) : x = s[i]
    BY DEF Elems
  <2>2. i \in 1..Len(s \o t) /\ x = (s \o t)[i]
    BY <1>1, <2>1
  <2> QED
    BY <2>2 DEF Elems
<1>4. ASSUME NEW x \in Elems(t) PROVE x \in Elems(s \o t)
  <2>1. PICK i \in 1..Len(t) : x = t[i]
    BY DEF Elems
  <2>2. i + Len(s) \in 1..Len(s) + Len(t) /\ ~(i + Len(s) =< Len(s)) /\ (i + Len(s)) - Len(s) = i
    BY <1>1
  <2>3. i + Len(s) \in 1..Len(s \o t) /\ x = (s \o t)[i + Len(s)]
    BY <1>1, <2>1, <2>2
  <2> QED
    BY <2>3 DEF Elems
<1> QED
  BY <1>2, <1>3, <1>4

LEMMA ElemsSmall ==
  ASSUME NEW m
  PROVE  Elems(<<m>>) = {m} /\ Elems(<<>>) = {}
BY DEF Elems

(* A message of an ordered trail does not come back after its place.       *)
LEMMA NotAgain ==
  ASSUME NEW P \in Seq(Message), NEW R \in Seq(Message), NEW m \in Message,
         Ordered(P \o (<<m>> \o R))
  PROVE  m \notin Elems(R)
<1> DEFINE Q == <<m>> \o R
           T == P \o Q
           p == Len(P)
<1>1. /\ Q \in Seq(Message) /\ Len(Q) = Len(R) + 1 /\ Q[1] = m
      /\ \A k \in 1..Len(R) : Q[k + 1] = R[k]
      /\ p \in Nat /\ Len(R) \in Nat
  OBVIOUS
<1>2. /\ Len(T) = p + Len(Q)
      /\ \A i \in 1..p + Len(Q) : T[i] = IF i =< p THEN P[i] ELSE Q[i - p]
  BY <1>1, ConcatProperties
<1> HIDE DEF Q, T, p
<1>3. p + 1 \in 1..Len(T) /\ T[p + 1] = m
  <2>1. p + 1 \in 1..p + Len(Q) /\ ~(p + 1 =< p) /\ (p + 1) - p = 1
    BY <1>1
  <2> QED
    BY <1>1, <1>2, <2>1
<1>4. ASSUME NEW k \in 1..Len(R) PROVE m # R[k]
  <2> DEFINE i == p + (k + 1)
  <2>1. i \in 1..p + Len(Q) /\ ~(i =< p) /\ i - p = k + 1 /\ p + 1 < i
    BY <1>1
  <2>2. T[i] = R[k] /\ i \in 1..Len(T)
    BY <1>1, <1>2, <2>1
  <2>3. Before(T[p + 1], T[i])
    BY <1>3, <2>1, <2>2 DEF Ordered, T, Q
  <2> QED
    BY <1>3, <2>2, <2>3 DEF Before
<1> QED
  BY <1>4 DEF Elems
-----------------------------------------------------------------------------
(* How each step moves the messages in transit.                            *)
LEMMA PrepareTransit ==
  ASSUME Inv, NEW w \in Writers, NEW m \in Message, PushPrepare(w, m)
  PROVE  Transit' = IF alive THEN Transit \union {m} ELSE Transit
<1>1. wpc[w] = "idle" /\ UNCHANGED <<fifo, batch>> /\ TypeOK
  BY DEF Inv, PushPrepare, readerVars
<1>2. CASE alive
  <2>1. wpc' = [wpc EXCEPT ![w] = "prepared"] /\ wmsg' = [wmsg EXCEPT ![w] = <<m>>]
    BY <1>2 DEF PushPrepare
  <2>2. Prepared' = Prepared \union {w} /\ w \notin Prepared
    BY <1>1, <2>1 DEF Prepared, TypeOK
  <2>3. wmsg'[w][1] = m /\ \A v \in Prepared : wmsg'[v] = wmsg[v]
    BY <1>1, <2>1, <2>2 DEF TypeOK, Prepared
  <2>4. Stack' = Stack \union {m}
    BY <2>2, <2>3 DEF Stack
  <2> QED
    BY <1>1, <1>2, <2>4 DEF Transit, Elems
<1>3. CASE ~alive
  BY <1>1, <1>3 DEF PushPrepare, Transit, Elems, Stack, Prepared
<1> QED
  BY <1>2, <1>3

LEMMA LinkTransit ==
  ASSUME Inv, NEW w \in Writers, PushLink(w)
  PROVE  Transit' = Transit
<1> DEFINE m == wmsg[w][1]
<1>1. TypeOK /\ wpc[w] = "prepared" /\ UNCHANGED batch
  BY DEF Inv, PushLink, readerVars
<1>2. m \in Message /\ wmsg[w] = <<m>> /\ fifo \in Seq(Message) /\ <<m>> \in Seq(Message)
  <2>1. Len(wmsg[w]) = 1 /\ wmsg[w] \in Seq(Message)
    BY <1>1 DEF Inv, WmsgInv, TypeOK
  <2>2. m \in Message /\ wmsg[w] = <<m>>
    BY <2>1
  <2> QED
    BY <1>1, <2>2 DEF TypeOK
<1>3. fifo' = <<m>> \o fifo \/ fifo' = fifo \o <<m>>
  BY <1>2 DEF PushLink
<1>4. Elems(<<m>> \o fifo) = {m} \union Elems(fifo) /\ Elems(fifo \o <<m>>) = Elems(fifo) \union {m}
  <2> HIDE DEF m
  <2>0. PICK u \in Seq(Message) : u = <<m>>
    BY <1>2
  <2>4. u \in Seq(Message) /\ fifo \in Seq(Message)
    BY <1>2, <2>0
  <2>1. Elems(u \o fifo) = Elems(u) \union Elems(fifo)
    BY ONLY <2>4, ElemsConcat, Zenon
  <2>2. Elems(fifo \o u) = Elems(fifo) \union Elems(u)
    BY ONLY <2>4, ElemsConcat, Zenon
  <2>3. Elems(<<m>>) = {m}
    BY ElemsSmall
  <2> QED
    BY ONLY <2>0, <2>1, <2>2, <2>3
<1>5. wpc' = [wpc EXCEPT ![w] = "linked"] /\ wmsg' = [wmsg EXCEPT ![w] = <<>>]
  BY DEF PushLink
<1>6. Prepared' = Prepared \ {w} /\ w \in Prepared
  BY <1>1, <1>5 DEF Prepared, TypeOK
<1>7. \A v \in Prepared : v # w => wmsg'[v] = wmsg[v]
  BY <1>1, <1>5 DEF TypeOK, Prepared
<1>8. Stack = Stack' \union {m}
  BY <1>6, <1>7 DEF Stack
<1> HIDE DEF m
<1>9. Elems(fifo)' = Elems(fifo') /\ Elems(batch)' = Elems(batch)
  BY <1>1 DEF Elems
<1>10. Elems(fifo') = Elems(fifo) \union {m}
  BY <1>3, <1>4
<1> QED
  BY <1>8, <1>9, <1>10 DEF Transit

LEMMA PopTransit ==
  ASSUME Inv, PopMultipleMsg
  PROVE  Transit' = Transit
<1> DEFINE a == SubSeq(fifo, 1, PopCount)
           b == SubSeq(fifo, PopCount + 1, Len(fifo))
<1>1. PopCount \in 0..Len(fifo) /\ batch = <<>> /\ fifo \in Seq(Message)
  BY PopCountBounds DEF PopMultipleMsg, Inv, TypeOK, BatchInv
<1>2. a \o b = fifo /\ a \in Seq(Message) /\ b \in Seq(Message)
  <2>1. a \o b = fifo
    BY <1>1, CutAndJoin
  <2>2. a \in Seq(Message) /\ b \in Seq(Message)
    BY <1>1
  <2> QED
    BY <2>1, <2>2
<1>3. batch' = a /\ fifo' = b /\ UNCHANGED <<wpc, wmsg>>
  BY DEF PopMultipleMsg, writerVars
<1> HIDE DEF a, b
<1>4. Elems(fifo) = Elems(a) \union Elems(b) /\ Elems(<<>>) = {}
  <2>1. Elems(a \o b) = Elems(a) \union Elems(b)
    BY <1>2, ElemsConcat, Zenon
  <2>2. Elems(<<>>) = {}
    BY ElemsSmall
  <2> QED
    BY <1>2, <2>1, <2>2
<1>5. Elems(fifo)' = Elems(b) /\ Elems(batch)' = Elems(a)
  BY <1>3 DEF Elems
<1>6. Stack' = Stack
  BY <1>3 DEF Stack, Prepared
<1> QED
  BY <1>1, <1>4, <1>5, <1>6 DEF Transit

LEMMA HandleTransit ==
  ASSUME Inv, OrderInv, HandleMsg
  PROVE  Transit' = Transit \ {Head(batch)}
<1> DEFINE h == Head(batch)
           t == Tail(batch)
<1>1. batch # <<>> /\ batch \in Seq(Message) /\ fifo \in Seq(Message) /\ handled \in Seq(Message)
  BY DEF HandleMsg, Inv, TypeOK, BatchInv
<1>2. h \in Message /\ t \in Seq(Message) /\ batch = <<h>> \o t /\ <<h>> \in Seq(Message)
  BY <1>1
<1>3. batch' = t /\ UNCHANGED <<fifo, wpc, wmsg>>
  BY DEF HandleMsg, writerVars
<1> HIDE DEF h, t
<1>4. Trail = handled \o (<<h>> \o (t \o fifo)) /\ t \o fifo \in Seq(Message)
  <2>1. Trail = (handled \o (<<h>> \o t)) \o fifo
    BY <1>2 DEF Trail
  <2>2. (handled \o (<<h>> \o t)) \o fifo = handled \o (<<h>> \o (t \o fifo))
    <3> DEFINE u == <<h>>
    <3>1. u \in Seq(Message) /\ u \o t \in Seq(Message)
      BY <1>2
    <3> HIDE DEF u
    <3>2. (handled \o (u \o t)) \o fifo = handled \o ((u \o t) \o fifo)
      BY ONLY <1>1, <3>1, JoinAssociative
    <3>3. (u \o t) \o fifo = u \o (t \o fifo)
      BY ONLY <1>1, <1>2, <3>1, JoinAssociative
    <3> QED
      BY ONLY <3>2, <3>3 DEF u
  <2>3. t \o fifo \in Seq(Message)
    BY <1>1, <1>2
  <2> QED
    BY ONLY <2>1, <2>2, <2>3
<1>5. h \notin Elems(t \o fifo)
  BY <1>1, <1>2, <1>4, NotAgain DEF OrderInv
<1>6. Elems(t \o fifo) = Elems(t) \union Elems(fifo) /\ Elems(batch) = {h} \union Elems(t)
  <2>1. Elems(t \o fifo) = Elems(t) \union Elems(fifo)
    BY <1>1, <1>2, ElemsConcat, Zenon
  <2>2. Elems(<<h>> \o t) = Elems(<<h>>) \union Elems(t)
    BY <1>2, ElemsConcat, Zenon
  <2>3. Elems(<<h>>) = {h}
    BY ElemsSmall
  <2> QED
    BY <1>2, <2>1, <2>2, <2>3
<1>7. h \notin Stack
  <2> SUFFICES ASSUME NEW w \in Prepared, h = wmsg[w][1] PROVE FALSE
    BY DEF Stack
  <2>1. w \in Writers /\ Latest(Trail, w)
    BY DEF Prepared, OrderInv, Fresh
  <2> DEFINE R == <<h>> \o (t \o fifo)
             i == Len(handled) + 1
  <2>2. R \in Seq(Message) /\ R[1] = h /\ Len(R) >= 1 /\ Len(handled) \in Nat /\ Len(R) \in Nat
    BY <1>2, <1>4
  <2>3. i \in 1..Len(handled) + Len(R) /\ ~(i =< Len(handled)) /\ i - Len(handled) = 1
    BY <2>2
  <2>4. i \in 1..Len(Trail) /\ Trail[i] = h
    BY <1>1, <1>4, <2>2, <2>3, ConcatProperties
  <2>5. pushed[w] \in Nat
    BY <2>1, PushedType DEF Inv
  <2> QED
    BY <2>1, <2>4, <2>5 DEF Latest
<1>8. Elems(fifo)' = Elems(fifo) /\ Elems(batch)' = Elems(t) /\ Stack' = Stack
  BY <1>3 DEF Elems, Stack, Prepared
<1>9. Transit' = Transit \ {h}
  BY <1>5, <1>6, <1>7, <1>8 DEF Transit
<1> QED
  BY <1>9 DEF h

(* deleteMsgQ finds the reader gone and every writer outside pushMsg: what *)
(* is left is in the FIFO.                                                 *)
LEMMA DeleteTransit ==
  ASSUME Inv, DeleteMsgQ
  PROVE  Transit = Elems(fifo) /\ Transit' = {}
<1>1. batch = <<>> /\ Prepared = {} /\ fifo \in Seq(Message) /\ fifo' = <<>>
      /\ UNCHANGED <<batch, wpc, wmsg>>
  BY DEF Inv, BatchInv, TypeOK, DeleteMsgQ, Prepared, writerVars, readerVars
<1>2. Elems(<<>>) = {} /\ Stack = {}
  BY <1>1, ElemsSmall DEF Stack
<1>3. Elems(fifo)' = Elems(<<>>) /\ Elems(batch)' = Elems(<<>>) /\ Stack' = Stack
  BY <1>1 DEF Elems, Stack, Prepared
<1> QED
  BY <1>1, <1>2, <1>3 DEF Transit

Copied(S) == {m \in S : m.body.copied}

BuffersInv == heap = Copied(Transit)

LEMMA NextBuffers ==
  Inv /\ OrderInv /\ BuffersInv /\ [Next]_vars => BuffersInv'
<1> SUFFICES ASSUME Inv, OrderInv, heap = Copied(Transit), [Next]_vars
             PROVE  heap' = Copied(Transit')
  BY DEF Copied, BuffersInv
<1>1. ASSUME NEW w \in Writers, NEW m \in Message, PushPrepare(w, m)
      PROVE  heap' = Copied(Transit')
  <2>1. Transit' = IF alive THEN Transit \union {m} ELSE Transit
    BY <1>1, PrepareTransit
  <2>2. heap' = IF alive /\ m.body.copied THEN heap \union {m} ELSE heap
    BY <1>1 DEF PushPrepare
  <2> QED
    BY ONLY <2>1, <2>2, heap = Copied(Transit) DEF Copied
<1>2. ASSUME NEW w \in Writers, PushLink(w) PROVE heap' = Copied(Transit')
  BY <1>2, LinkTransit DEF PushLink
<1>3. ASSUME NEW w \in Writers, PushFire(w) \/ PushUnlock(w) PROVE heap' = Copied(Transit')
  <2>1. Prepared' = Prepared /\ UNCHANGED <<heap, fifo, batch, wmsg>>
    BY <1>3 DEF PushFire, PushUnlock, readerVars, Prepared, Inv, TypeOK
  <2> QED
    BY <2>1 DEF Transit, Elems, Stack
<1>5. CASE WaitForAnEvent
  BY <1>5 DEF WaitForAnEvent, writerVars, Transit, Elems, Stack, Prepared
<1>6. CASE PopMultipleMsg
  BY <1>6, PopTransit DEF PopMultipleMsg
<1>7. CASE HandleMsg
  <2>1. heap' = heap \ {Head(batch)} /\ Transit' = Transit \ {Head(batch)}
    BY <1>7, HandleTransit DEF HandleMsg
  <2> QED
    BY <2>1 DEF Copied
<1>8. CASE DeleteMsgQ
  <2>1. fifo \in Seq(Message) /\ DOMAIN fifo = 1..Len(fifo)
    BY DEF Inv, TypeOK
  <2>2. heap' = heap \ Elems(fifo)
    BY <1>8, <2>1 DEF DeleteMsgQ, Elems
  <2> QED
    BY <1>8, <2>2, DeleteTransit DEF Copied
<1>9. CASE UNCHANGED vars
  BY <1>9 DEF vars, Transit, Elems, Stack, Prepared
<1> QED
  BY <1>1, <1>2, <1>3, <1>5, <1>6, <1>7, <1>8, <1>9 DEF Next, Push, Reader

(* The private buffers allocated by pushMsg are, in every reachable state, *)
(* exactly those of the messages in transit: nothing leaks, nothing is     *)
(* freed early or twice.                                                   *)
THEOREM BuffersFollowMessages == Spec => []BuffersAccounted
<1>1. Init => BuffersInv
  BY DEF Init, BuffersInv, Copied, Transit, Elems, Stack, Prepared
<1>2. Spec => []BuffersInv
  BY <1>1, NextBuffers, OrderHolds, PTL DEF Spec
<1>3. Inv /\ BuffersInv => BuffersAccounted
  BY TransitIs DEF Copied, BuffersInv, BuffersAccounted
<1> QED
  BY <1>2, <1>3, OrderHolds, PTL
-----------------------------------------------------------------------------
(* The threads that use it.                                                *)

USE ThreadsAssumption DEF ThreadsAssumption

Quitting == {"wait", "deleted", "done"}
Deleted == {"deleted", "done"}

(* What ties the threads to the owner and to the queue: only a running     *)
(* thread is inside a push or reads; a handle resolves while its thread    *)
(* has not released it; the owner waits for nobody before it is done       *)
(* pushing, and deletes the queue after it has waited for all.             *)
UsersInv ==
  /\ \A w \in Writers \ {Owner} : stage[w] # "running" => wpc[w] = "idle"
  /\ stage[ReadingThread] \in {"returned", "released", "ended"} => rpc = "ended"
  /\ main \in Quitting => wpc[Owner] = "idle"
  /\ main \notin Deleted => alive

HandlesInv ==
  /\ handles = {t \in Spawned : stage[t] \in {"running", "returned"}}
  /\ main # "create" => \A t \in Spawned : stage[t] # "none"
  /\ main \notin Quitting => waited = {} /\ joining = Nobody
  /\ \A t \in waited : stage[t] \in {"refused", "released", "ended"}
  /\ main \in Deleted => waited = Spawned

QueueInv == TypeOK /\ BatchInv /\ WmsgInv
-----------------------------------------------------------------------------
(* Every step of the threads but the deletion is one of the queue, or      *)
(* leaves it alone.                                                        *)
LEMMA StepOfQueue == [ThreadsNext]_allVars => [Next]_vars \/ OwnerDeletes
<1> SUFFICES ASSUME [ThreadsNext]_allVars, ~OwnerDeletes PROVE [Next]_vars
  OBVIOUS
<1>1. CASE Creation
  BY <1>1 DEF Creation, Create, CreateFails, AllCreated
<1>2. CASE OwnerPushes
  BY <1>2 DEF OwnerPushes, Next, Push
<1>3. CASE Shutdown
  BY <1>3 DEF Shutdown, StartWaiting, WaitEnd, Joined, Deinit
<1>4. ASSUME NEW t \in Spawned, Wrapper(t) PROVE [Next]_vars
  BY <1>4 DEF Wrapper, Return, ReleaseHandle, End
<1>5. ASSUME NEW w \in Writers \ {Owner}, WriterPushes(w) PROVE [Next]_vars
  BY <1>5 DEF WriterPushes, Next
<1>6. CASE ReaderReads
  BY <1>6 DEF ReaderReads, Next, Reader
<1>7. CASE UNCHANGED allVars
  BY <1>7 DEF allVars
<1> QED
  BY <1>1, <1>2, <1>3, <1>4, <1>5, <1>6, <1>7 DEF ThreadsNext

LEMMA QueueStep == QueueInv /\ [ThreadsNext]_allVars => QueueInv'
<1> SUFFICES ASSUME QueueInv, [ThreadsNext]_allVars PROVE QueueInv'
  OBVIOUS
<1>1. CASE [Next]_vars
  BY <1>1, NextType DEF QueueInv
<1>2. CASE OwnerDeletes
  <2>1. fifo' = <<>> /\ alive' = FALSE /\ heap' \subseteq heap
    BY <1>2 DEF OwnerDeletes
  <2>2. UNCHANGED <<lock, edge, wpc, wmsg, pushed, rpc, batch, bQuit, handled>>
    BY <1>2 DEF OwnerDeletes, writerVars, readerVars
  <2>a. <<>> \in Seq(Message)
    OBVIOUS
  <2>b. fifo' \in Seq(Message) /\ alive' \in BOOLEAN /\ heap' \subseteq Message
    BY <2>1, <2>a DEF QueueInv, TypeOK
  <2>3. TypeOK'
    BY <2>2, <2>b DEF QueueInv, TypeOK
  <2>4. BatchInv' /\ WmsgInv'
    BY <2>2 DEF QueueInv, BatchInv, WmsgInv
  <2> QED
    BY <2>3, <2>4 DEF QueueInv
<1> QED
  BY <1>1, <1>2, StepOfQueue

LEMMA ThreadsTypeStep == ThreadsTypeOK /\ [ThreadsNext]_allVars => ThreadsTypeOK'
<1> SUFFICES ASSUME ThreadsTypeOK, [ThreadsNext]_allVars PROVE ThreadsTypeOK'
  OBVIOUS
<1> USE DEF ThreadsTypeOK, Stages
<1>1. CASE Creation
  BY <1>1 DEF Creation, Create, CreateFails, AllCreated
<1>2. CASE OwnerPushes
  BY <1>2 DEF OwnerPushes, threadVars
<1>3. CASE Shutdown
  BY <1>3 DEF Shutdown, StartWaiting, WaitEnd, Joined, OwnerDeletes, Deinit
<1>4. ASSUME NEW t \in Spawned, Wrapper(t) PROVE ThreadsTypeOK'
  BY <1>4 DEF Wrapper, Return, ReleaseHandle, End, Moves
<1>5. ASSUME NEW w \in Writers \ {Owner}, WriterPushes(w) PROVE ThreadsTypeOK'
  BY <1>5 DEF WriterPushes, threadVars
<1>6. CASE ReaderReads
  BY <1>6 DEF ReaderReads, threadVars
<1>7. CASE UNCHANGED allVars
  BY <1>7 DEF allVars, threadVars
<1> QED
  BY <1>1, <1>2, <1>3, <1>4, <1>5, <1>6, <1>7 DEF ThreadsNext

(* The owner's and the threads' steps on stages, handles and waits.        *)
LEMMA HandlesStep == ThreadsTypeOK /\ HandlesInv /\ [ThreadsNext]_allVars => HandlesInv'
<1> SUFFICES ASSUME ThreadsTypeOK, HandlesInv, [ThreadsNext]_allVars PROVE HandlesInv'
  OBVIOUS
<1> USE DEF ThreadsTypeOK, HandlesInv, Quitting, Deleted
<1>1. CASE Creation
  BY <1>1 DEF Creation, Create, CreateFails, AllCreated
<1>2. CASE OwnerPushes
  BY <1>2 DEF OwnerPushes, threadVars
<1>3. CASE Shutdown
  <2>1. CASE StartWaiting
    BY <2>1 DEF StartWaiting
  <2>2. ASSUME NEW t \in Spawned, WaitEnd(t) PROVE HandlesInv'
    <3>1. t \notin handles => stage[t] \in {"refused", "released", "ended"}
      BY <2>2 DEF WaitEnd, Stages
    <3> QED
      BY <2>2, <3>1 DEF WaitEnd
  <2>3. CASE Joined
    BY <2>3 DEF Joined
  <2>4. CASE OwnerDeletes
    BY <2>4 DEF OwnerDeletes
  <2>5. CASE Deinit
    BY <2>5 DEF Deinit
  <2> QED
    BY <1>3, <2>1, <2>2, <2>3, <2>4, <2>5 DEF Shutdown
<1>4. ASSUME NEW t \in Spawned, Wrapper(t) PROVE HandlesInv'
  BY <1>4 DEF Wrapper, Return, ReleaseHandle, End, Moves
<1>5. ASSUME NEW w \in Writers \ {Owner}, WriterPushes(w) PROVE HandlesInv'
  BY <1>5 DEF WriterPushes, threadVars
<1>6. CASE ReaderReads
  BY <1>6 DEF ReaderReads, threadVars
<1>7. CASE UNCHANGED allVars
  BY <1>7 DEF allVars, threadVars
<1> QED
  BY <1>1, <1>2, <1>3, <1>4, <1>5, <1>6, <1>7 DEF ThreadsNext
-----------------------------------------------------------------------------
(* A push moves only its own writer, and not the reader.                   *)
LEMMA PushMoves ==
  ASSUME QueueInv, NEW w \in Writers,
         \/ \E m \in Message : PushPrepare(w, m)
         \/ PushLink(w) \/ PushFire(w) \/ PushUnlock(w)
  PROVE  \A u \in Writers \ {w} : wpc'[u] = wpc[u]
BY DEF QueueInv, TypeOK, PushPrepare, PushLink, PushFire, PushUnlock

LEMMA PushKeeps ==
  ASSUME NEW w \in Writers,
         \/ \E m \in Message : PushPrepare(w, m)
         \/ PushLink(w) \/ PushFire(w) \/ PushUnlock(w)
  PROVE  rpc' = rpc /\ alive' = alive
BY DEF PushPrepare, PushLink, PushFire, PushUnlock, readerVars

LEMMA UsersStep ==
  QueueInv /\ ThreadsTypeOK /\ HandlesInv /\ UsersInv /\ [ThreadsNext]_allVars => UsersInv'
<1> SUFFICES ASSUME QueueInv, ThreadsTypeOK, HandlesInv, UsersInv, [ThreadsNext]_allVars
             PROVE  UsersInv'
  OBVIOUS
<1> USE DEF UsersInv, Quitting, Deleted
<1>a. Owner \notin Spawned /\ ReadingThread \in Spawned /\ Writers \ {Owner} \subseteq Spawned
  BY DEF Spawned
<1>1. CASE Creation
  BY <1>a, <1>1 DEF Creation, Create, CreateFails, AllCreated, vars, ThreadsTypeOK
<1>2. CASE OwnerPushes
  <2>1. ASSUME NEW m \in Message, PushPrepare(Owner, m), main = "push",
               main' \in {"quit", "push"}, UNCHANGED stage
        PROVE  UsersInv'
    BY <2>1, PushMoves, PushKeeps
  <2>2. CASE (PushLink(Owner) \/ PushFire(Owner) \/ PushUnlock(Owner)) /\ UNCHANGED threadVars
    <3>1. wpc[Owner] # "idle"
      BY <2>2 DEF PushLink, PushFire, PushUnlock
    <3> QED
      BY <2>2, <3>1, PushMoves, PushKeeps DEF threadVars
  <2> QED
    BY <1>2, <2>1, <2>2 DEF OwnerPushes
<1>3. CASE Shutdown
  BY <1>3 DEF Shutdown, StartWaiting, WaitEnd, Joined, OwnerDeletes, Deinit, vars, writerVars, readerVars
<1>4. ASSUME NEW t \in Spawned, Wrapper(t) PROVE UsersInv'
  BY <1>a, <1>4 DEF Wrapper, Return, ReleaseHandle, End, Moves, vars, ThreadsTypeOK
<1>5. ASSUME NEW w \in Writers \ {Owner}, WriterPushes(w) PROVE UsersInv'
  BY <1>5, PushMoves, PushKeeps DEF WriterPushes, Push, threadVars
<1>6. CASE ReaderReads
  <2>1. UNCHANGED <<wpc, alive>> /\ stage[ReadingThread] = "running" /\ UNCHANGED threadVars
    BY <1>6 DEF ReaderReads, WaitForAnEvent, PopMultipleMsg, HandleMsg, writerVars
  <2> QED
    BY <2>1 DEF threadVars
<1>7. CASE UNCHANGED allVars
  BY <1>7 DEF allVars, threadVars, vars
<1> QED
  BY <1>1, <1>2, <1>3, <1>4, <1>5, <1>6, <1>7 DEF ThreadsNext
-----------------------------------------------------------------------------
Inductive == QueueInv /\ ThreadsTypeOK /\ HandlesInv /\ UsersInv

LEMMA InitInductive == ThreadsInit => Inductive
<1> SUFFICES ASSUME ThreadsInit PROVE Inductive
  OBVIOUS
<1>1. QueueInv
  BY InitType DEF ThreadsInit, QueueInv
<1>2. ThreadsTypeOK
  BY DEF ThreadsInit, ThreadsTypeOK, Stages
<1>3. HandlesInv
  BY DEF ThreadsInit, HandlesInv, Quitting, Deleted
<1>4. UsersInv
  BY DEF ThreadsInit, Init, UsersInv, Quitting, Deleted, Spawned
<1> QED
  BY <1>1, <1>2, <1>3, <1>4 DEF Inductive

LEMMA AlwaysInductive == ThreadsSpec => []Inductive
<1>1. Inductive /\ [ThreadsNext]_allVars => Inductive'
  BY QueueStep, ThreadsTypeStep, HandlesStep, UsersStep DEF Inductive
<1> QED
  BY <1>1, InitInductive, PTL DEF ThreadsSpec

(* Whatever threads are refused and in whatever order they end and are     *)
(* waited for: a thread wait_end has returned for is out of its main       *)
(* function, and no thread handle is left at gos::deinit.                  *)
THEOREM ThreadsAreSound == ThreadsSpec => []ThreadsSound
<1>1. Inductive => ThreadsSound
  BY DEF Inductive, HandlesInv, ThreadsSound, WaitedHaveReturned, HandlesReleased, Deleted, Quitting
<1> QED
  BY <1>1, AlwaysInductive, PTL
-----------------------------------------------------------------------------
(* The deletion by the owner is the deleteMsgQ that its header asks for:   *)
(* the reader has ended and no writer is inside a push.  The reader must   *)
(* have been created: one that was refused never ends its loop.            *)
LEMMA DeletionIsSafe ==
  ASSUME Inductive, OwnerDeletes, stage[ReadingThread] # "refused"
  PROVE  DeleteMsgQ
<1> USE DEF Inductive
<1>1. waited = Spawned /\ main = "wait"
  BY DEF OwnerDeletes
<1>2. \A t \in Spawned : stage[t] \in {"refused", "released", "ended"}
  BY <1>1 DEF HandlesInv
<1>3. rpc = "ended"
  BY <1>2 DEF UsersInv, Spawned
<1>4. \A w \in Writers : wpc[w] = "idle"
  BY <1>1, <1>2 DEF UsersInv, Quitting, Spawned
<1>5. alive
  BY <1>1 DEF UsersInv, Deleted
<1> QED
  BY <1>3, <1>4, <1>5 DEF OwnerDeletes, DeleteMsgQ

ReaderExists == stage[ReadingThread] # "refused"

(* If the reader cannot be refused, the threads use the queue as MsgQ, its *)
(* theorems and gosThreadMsgQ.h assume, whatever other threads are refused *)
(* and whenever they end.                                                  *)
THEOREM QueueUsedSafely ==
  ASSUME ReadingThread \notin MayFail
  PROVE  ThreadsSpec => QueueUsedAsMsgQ
<1>1. ThreadsInit => ReaderExists
  BY DEF ThreadsInit, ReaderExists, Spawned
<1>2. ThreadsTypeOK /\ ReaderExists /\ [ThreadsNext]_allVars => ReaderExists'
  <2> SUFFICES ASSUME ThreadsTypeOK, ReaderExists, [ThreadsNext]_allVars PROVE ReaderExists'
    OBVIOUS
  <2> USE DEF ReaderExists, ThreadsTypeOK
  <2>a. ReadingThread \in Spawned
    BY DEF Spawned
  <2>1. CASE Creation
    BY <2>a, <2>1 DEF Creation, Create, CreateFails, AllCreated
  <2>2. CASE OwnerPushes \/ Shutdown \/ ReaderReads \/ UNCHANGED allVars
    BY <2>2 DEF OwnerPushes, Shutdown, StartWaiting, WaitEnd, Joined, OwnerDeletes, Deinit,
                ReaderReads, threadVars, allVars
  <2>3. ASSUME NEW t \in Spawned, Wrapper(t) PROVE ReaderExists'
    BY <2>a, <2>3 DEF Wrapper, Return, ReleaseHandle, End, Moves
  <2>4. ASSUME NEW w \in Writers \ {Owner}, WriterPushes(w) PROVE ReaderExists'
    BY <2>4 DEF WriterPushes, threadVars
  <2> QED
    BY <2>1, <2>2, <2>3, <2>4 DEF ThreadsNext
<1>3. ThreadsInit => Init
  BY DEF ThreadsInit
<1>4. Inductive /\ ReaderExists /\ [ThreadsNext]_allVars => [Next]_vars
  BY StepOfQueue, DeletionIsSafe DEF Next, ReaderExists
<1>5. Inductive => ThreadsTypeOK
  BY DEF Inductive
<1> QED
  BY <1>1, <1>2, <1>3, <1>4, <1>5, AlwaysInductive, PTL DEF ThreadsSpec, QueueUsedAsMsgQ, Spec
==============================================================================
