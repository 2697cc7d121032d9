------------------------------- MODULE Threads -------------------------------
(***************************************************************************)
(* The threads around a message queue (thread::create, wait_end and the    *)
(* wrapper in gosThreadMsgQ.cpp, linuxOSThread.cpp): an owner makes the    *)
(* reader and the other writers, pushes, tells the reader to DIE, waits    *)
(* for the threads, deletes the queue and shuts the library down, as       *)
(* Engine::unsetup and gos::deinit do.  MsgQ is the queue they work on;    *)
(* here nobody promises that the queue is deleted when it is not in use.   *)
(***************************************************************************)
EXTENDS MsgQ, FiniteSets

CONSTANTS Owner,    \* the writer that owns the queue and the threads
          ReadingThread, \* the thread that reads the queue
          MayFail,  \* threads the system may refuse to create
          Nobody

Spawned == (Writers \ {Owner}) \union {ReadingThread}

ASSUME ThreadsAssumption == /\ Owner \in Writers
                            /\ ReadingThread \notin Writers
                            /\ MayFail \subseteq Spawned
                            /\ Nobody \notin Spawned

(* A thread: not made; refused by the system; in its main function; back   *)
(* in the wrapper; without a handle; gone.                                 *)
Stages == {"none", "refused", "running", "returned", "released", "ended"}

VARIABLES
  main,     \* what the owner is doing
  stage,    \* where each thread is
  handles,  \* threads whose handle resolves in threadHandleList
  infos,    \* threads whose sThreadInfo is allocated
  joining,  \* the thread wait_end is joining
  waited    \* threads wait_end has returned for

threadVars == <<main, stage, handles, infos, joining, waited>>
allVars == <<vars, threadVars>>

ThreadsInit ==
  /\ Init
  /\ main = "create"
  /\ stage = [t \in Spawned |-> "none"]
  /\ handles = {} /\ infos = {} /\ waited = {}
  /\ joining = Nobody
-----------------------------------------------------------------------------
(* The owner.                                                              *)

Create(t) ==
  /\ main = "create" /\ stage[t] = "none"
  /\ stage' = [stage EXCEPT ![t] = "running"]
  /\ handles' = handles \union {t}
  /\ infos' = infos \union {t}
  /\ UNCHANGED <<vars, main, joining, waited>>

(* Mutant: keeps the handle of a thread that was not created.              *)
CreateFails_keepsHandle(t) ==
  /\ main = "create" /\ stage[t] = "none" /\ t \in MayFail
  /\ stage' = [stage EXCEPT ![t] = "refused"]
  /\ infos' = infos \union {t}
  /\ handles' = handles \union {t}
  /\ UNCHANGED <<vars, main, joining, waited>>

(* pthread_create fails: the handle is given back, the sThreadInfo is not. *)
CreateFails(t) ==
  /\ main = "create" /\ stage[t] = "none" /\ t \in MayFail
  /\ stage' = [stage EXCEPT ![t] = "refused"]
  /\ infos' = infos \union {t}
  /\ UNCHANGED <<vars, main, handles, joining, waited>>

AllCreated ==
  /\ main = "create" /\ \A t \in Spawned : stage[t] # "none"
  /\ main' = "push"
  /\ UNCHANGED <<vars, stage, handles, infos, joining, waited>>

(* The DIE of the owner is the last thing it pushes.                       *)
OwnerPushes ==
  \/ /\ main = "push"
     /\ \E m \in Message : /\ PushPrepare(Owner, m)
                           /\ main' = IF m.body.what = "die" THEN "quit" ELSE "push"
     /\ UNCHANGED <<stage, handles, infos, joining, waited>>
  \/ (PushLink(Owner) \/ PushFire(Owner) \/ PushUnlock(Owner)) /\ UNCHANGED threadVars

StartWaiting ==
  /\ main = "quit" /\ wpc[Owner] = "idle"
  /\ main' = "wait"
  /\ UNCHANGED <<vars, stage, handles, infos, joining, waited>>

(* Mutant: never joins.                                                    *)
WaitEnd_returns(t) ==
  /\ main = "wait" /\ joining = Nobody /\ t \notin waited
  /\ waited' = waited \union {t}
  /\ UNCHANGED <<vars, main, stage, handles, infos, joining>>

(* wait_end returns at once if the handle does not resolve: the thread was *)
(* refused, or has released its handle; otherwise it joins.                *)
WaitEnd(t) ==
  /\ main = "wait" /\ joining = Nobody /\ t \notin waited
  /\ IF t \in handles THEN joining' = t /\ UNCHANGED waited
     ELSE waited' = waited \union {t} /\ UNCHANGED joining
  /\ UNCHANGED <<vars, main, stage, handles, infos>>

Joined ==
  /\ joining # Nobody /\ stage[joining] = "ended"
  /\ joining' = Nobody
  /\ waited' = waited \union {joining}
  /\ UNCHANGED <<vars, main, stage, handles, infos>>

(* deleteMsgQ takes the mutex and looks at nothing else.                   *)
OwnerDeletes ==
  /\ main = "wait" /\ waited = Spawned
  /\ lock = NoOwner
  /\ heap' = heap \ {fifo[i] : i \in DOMAIN fifo}
  /\ fifo' = <<>>
  /\ alive' = FALSE
  /\ main' = "deleted"
  /\ UNCHANGED <<lock, edge, writerVars, readerVars, stage, handles, infos, joining, waited>>

(* gos::deinit: the list of errors and the allocator of the threads go.    *)
Deinit ==
  /\ main = "deleted"
  /\ main' = "done"
  /\ UNCHANGED <<vars, stage, handles, infos, joining, waited>>
-----------------------------------------------------------------------------
(* A thread.                                                               *)

Moves(t, from, to) == stage[t] = from /\ stage' = [stage EXCEPT ![t] = to]

(* Nobody but the owner tells the reader to DIE.                           *)
WriterPushes(w) ==
  /\ stage[w] = "running"
  /\ Push(w)
  /\ \A i \in DOMAIN wmsg'[w] : wmsg'[w][i].body.what # "die"
  /\ UNCHANGED threadVars

ReaderReads ==
  /\ stage[ReadingThread] = "running"
  /\ WaitForAnEvent \/ PopMultipleMsg \/ HandleMsg
  /\ UNCHANGED threadVars

(* The reader ends after a DIE, a writer when it likes, between pushes.    *)
Return(t) ==
  /\ IF t = ReadingThread THEN rpc = "ended" ELSE wpc[t] = "idle"
  /\ Moves(t, "running", "returned")
  /\ UNCHANGED <<vars, main, handles, infos, joining, waited>>

(* Mutant: the handle is released before the main function runs.          *)
ReleaseHandle_first(t) ==
  /\ stage[t] \in {"running", "returned"} /\ t \in handles
  /\ stage' = [stage EXCEPT ![t] = IF @ = "returned" THEN "released" ELSE @]
  /\ handles' = handles \ {t}
  /\ UNCHANGED <<vars, main, infos, joining, waited>>

ReleaseHandle(t) ==
  /\ Moves(t, "returned", "released")
  /\ handles' = handles \ {t}
  /\ UNCHANGED <<vars, main, infos, joining, waited>>

(* The wrapper drops the error list of the thread (nothing here depends on *)
(* it), LinuxInternalThreadProc frees its argument, the thread ends.       *)
End(t) ==
  /\ Moves(t, "released", "ended")
  /\ infos' = infos \ {t}
  /\ UNCHANGED <<vars, main, handles, joining, waited>>
-----------------------------------------------------------------------------
Wrapper(t) == Return(t) \/ ReleaseHandle(t) \/ End(t)

Creation == (\E t \in Spawned : Create(t) \/ CreateFails(t)) \/ AllCreated

Shutdown == StartWaiting \/ (\E t \in Spawned : WaitEnd(t)) \/ Joined \/ OwnerDeletes \/ Deinit

ThreadsNext ==
  \/ Creation \/ OwnerPushes \/ Shutdown
  \/ \E t \in Spawned : Wrapper(t)
  \/ \E w \in Writers \ {Owner} : WriterPushes(w)
  \/ ReaderReads

ThreadsSpec == ThreadsInit /\ [][ThreadsNext]_allVars

(* Threads are scheduled, and the main function of a writer comes to an    *)
(* end; the owner makes its threads without waiting for anything, as       *)
(* Engine::setup does, and goes on once it has decided to quit.            *)
ThreadsFairness ==
  /\ WF_allVars(Creation)
  /\ WF_allVars(Shutdown)
  /\ \A t \in Spawned : WF_allVars(Wrapper(t))
  /\ \A w \in Writers : WF_allVars((PushLink(w) \/ PushFire(w) \/ PushUnlock(w)) /\ UNCHANGED threadVars)
  /\ WF_allVars(ReaderReads)

ThreadsFairSpec == ThreadsSpec /\ ThreadsFairness
-----------------------------------------------------------------------------
(* Properties.                                                             *)

ThreadsTypeOK ==
  /\ main \in {"create", "push", "quit", "wait", "deleted", "done"}
  /\ stage \in [Spawned -> Stages]
  /\ handles \subseteq Spawned /\ infos \subseteq Spawned /\ waited \subseteq Spawned
  /\ joining \in Spawned \union {Nobody}

(* The queue is used as MsgQ, its theorems and gosThreadMsgQ.h assume: it  *)
(* is deleted when nobody uses it, although wait_end may return before a   *)
(* thread has ended.                                                       *)
QueueUsedAsMsgQ == Spec

(* After wait_end the main function of the thread has returned: what it    *)
(* computed can be read (testThread.cpp), what it used can be destroyed.   *)
WaitedHaveReturned == \A t \in waited : stage[t] # "running"

(* At gos::deinit no thread handle is left, as HandleList::unsetup checks. *)
HandlesReleased == main = "done" => handles = {}

(* Once the owner has told the reader to DIE, the shutdown ends.           *)
ShutdownEnds == main = "quit" ~> main = "done"

(* No sThreadInfo is left in the allocator of the threads when it is       *)
(* destroyed (~AllocatorHeap).                                             *)
AllocatorEmptyAtDeinit == main = "done" => infos = {}

(* While threads are created and refused, end and are waited for in any    *)
(* order, what the owner relies on holds.                                  *)
ThreadsSound == ThreadsTypeOK /\ WaitedHaveReturned /\ HandlesReleased
=============================================================================
