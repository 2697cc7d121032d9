------------------------------- MODULE Monitor -------------------------------
(***************************************************************************)
(* gos::asset2::Monitor (gosAsset2Monitor.cpp): one thread that builds,    *)
(* watches the folders of the files it has read (FSWatcher over inotify),  *)
(* waits on its TCP server (ServerTCP over an epoll group) for changes,    *)
(* connections and data, builds again two seconds after the last change    *)
(* and writes the UID of every updated asset to every client.              *)
(***************************************************************************)
EXTENDS Builder

CONSTANTS Clients,    \* bound: the connections made, each with a handle of its own
          Folder      \* the folder of every file

ASSUME MonitorAssumption ==
  IsFiniteSet(Clients) /\ Folder \in [Files -> {Folder[f] : f \in Files}]

VARIABLES at,         \* where the thread is: see MonitorNext
          folders,    \* folder_list of the watcher
          open,       \* its inotify descriptor is open
          queued,     \* the files with events nobody has read yet
          timer,      \* time_to_rebuild_msec is set
          owed,       \* history: the files with events no build began after
          waiting,    \* the connections not yet accepted
          live,       \* handleArray, and the sockets in the epoll group
          list,       \* the memory of clientList
          number,     \* its nElem
          events,     \* the events of the last wait not yet handled
          notice,     \* the locals of priv_build: [uids, num, i]
          told,       \* history: what each client was sent by this notification
          spoilt      \* history: the assets during whose sending a client died

monitorVars == <<at, folders, open, queued, timer, owed>>
serverVars == <<waiting, live, list, number, events>>
noticeVars == <<notice, told, spoilt>>
allVars == <<builderVars, monitorVars, serverVars, noticeVars>>

NoNotice == [uids |-> <<>>, num |-> 0, i |-> 0]
Nothing == [c \in Clients |-> <<>>]

MonitorInit ==
  /\ BuilderInit
  /\ at = "start" /\ folders = {} /\ open = FALSE /\ queued = {} /\ timer = FALSE /\ owed = {}
  /\ waiting = Clients /\ live = {} /\ list = <<>> /\ number = 0 /\ events = <<>>
  /\ notice = NoNotice /\ told = Nothing /\ spoilt = {}
-----------------------------------------------------------------------------
(* A file is written, moved or deleted.  inotify queues the event if the   *)
(* folder is watched; internal__on_events_fired reports a file that was    *)
(* moved away, and drops the event of one that was deleted.                *)
Write(f) ==
  /\ Change(f)
  /\ LET watched == open /\ Folder[f] \in folders
     IN  \E reported \in SUBSET {f} :
           /\ reported # {} => watched
           /\ watched /\ Exists(files', f) => reported # {}
           /\ queued' = queued \union reported /\ owed' = owed \union reported
  /\ UNCHANGED <<at, folders, open, timer, serverVars, noticeVars>>

(* The build, called by run and by priv_build.                             *)
FirstBuild ==
  /\ at = "start" /\ Begin
  /\ at' = "first" /\ owed' = {}
  /\ UNCHANGED <<folders, open, queued, timer, serverVars, noticeVars>>

BuildStep ==
  /\ at \in {"first", "rebuild"}
  /\ ScanRow \/ DropSignatures \/ NextIni \/ ParseIni \/ Include \/ NeedResource
     \/ MakeAsset \/ CloseIni \/ NoFile \/ TooManyNested \/ NoAsset \/ Finish
  /\ UNCHANGED <<monitorVars, serverVars, noticeVars>>

(* A first build that fails ends run.                                      *)
GivesUp ==
  /\ at = "first" /\ phase = "idle" /\ ~outcome.ok
  /\ at' = "ended"
  /\ UNCHANGED <<builderVars, folders, open, queued, timer, owed, serverVars, noticeVars>>

(* priv_scan_DB_and_add_path, and the watcher joins the wait list.         *)
Watch ==
  /\ phase = "idle"
  /\ (at = "first" /\ outcome.ok) \/ at = "rescan"
  /\ folders' = {Folder[f] : f \in DOMAIN db.res}
  /\ open' = TRUE /\ queued' = {}
  /\ at' = "loop"
  /\ UNCHANGED <<builderVars, timer, owed, serverVars, noticeVars>>

(* Mutant: the events stay.                                                *)
TimerFires_keepsOpen ==
  /\ at = "loop" /\ timer /\ Begin
  /\ at' = "rebuild" /\ owed' = {}
  /\ UNCHANGED <<folders, open, queued, timer, serverVars, noticeVars>>

(* fsWatcher__remove_from_wait_list closes the descriptor, and with it go  *)
(* the events nobody has read; then the build begins.                      *)
TimerFires ==
  /\ at = "loop" /\ timer /\ Begin
  /\ open' = FALSE /\ queued' = {}
  /\ at' = "rebuild" /\ owed' = {}
  /\ UNCHANGED <<folders, timer, serverVars, noticeVars>>

(* The user stops the monitor while it waits, and may start it again.      *)
Restart ==
  /\ at \in {"loop", "ended"}
  /\ at' = "start" /\ folders' = {} /\ open' = FALSE /\ queued' = {} /\ timer' = FALSE /\ owed' = {}
  /\ live' = {} /\ list' = <<>> /\ number' = 0 /\ events' = <<>>
  /\ UNCHANGED <<builderVars, waiting, noticeVars>>
-----------------------------------------------------------------------------
(* clientList.append, over what earlier elements left in the memory.       *)
Appended(c) == SubSeq(list, 1, number) \o <<c>> \o SubSeq(list, number + 2, Len(list))

(* priv_onClientDeath.  remove moves the elements after it down and leaves *)
(* the last one where it was.                                              *)
Dies(c) ==
  /\ live' = live \ {c}
  /\ number' = number - 1
  /\ LET i == CHOOSE j \in 1 .. number : list[j] = c
     IN  list' = [j \in 1 .. Len(list) |-> IF j \in i .. number - 1 THEN list[j + 1] ELSE list[j]]

Connects(c) ==
  /\ waiting' = waiting \ {c}
  /\ \/ live' = live \union {c} /\ list' = Appended(c) /\ number' = number + 1
     \/ UNCHANGED <<live, list, number>>   \* no valid handshake within 5 seconds

(* ServerTCP::wait.  Every descriptor that is ready gives an event; the    *)
(* watcher's is emptied and a connection is accepted on the way.           *)
Wait ==
  /\ at = "loop"
  /\ \E data \in SUBSET live, c \in waiting \union {0} :
       LET ready == (IF queued # {} THEN {"fsw"} ELSE {}) \union data
       IN  /\ ready # {} \/ c # 0
           /\ events' \in SetToSeqs(ready)
           /\ IF c = 0 THEN UNCHANGED <<waiting, live, list, number>> ELSE Connects(c)
  /\ queued' = {}
  /\ at' = "events"
  /\ UNCHANGED <<builderVars, folders, open, timer, owed, noticeVars>>

(* A change sets the timer; a read from a client may find it gone.         *)
HandleEvent ==
  /\ at = "events" /\ events # <<>>
  /\ \/ Head(events) = "fsw" /\ timer' = TRUE /\ UNCHANGED <<live, list, number>>
     \/ Head(events) # "fsw" /\ timer' = timer /\ UNCHANGED <<live, list, number>>
     \/ Head(events) # "fsw" /\ timer' = timer /\ Dies(Head(events))
  /\ events' = Tail(events)
  /\ UNCHANGED <<builderVars, at, folders, open, queued, owed, waiting, noticeVars>>

EventsHandled ==
  /\ at = "events" /\ events = <<>>
  /\ at' = "loop"
  /\ UNCHANGED <<builderVars, folders, open, queued, timer, owed, serverVars, noticeVars>>
-----------------------------------------------------------------------------
(* priv_build once the build is over: the number of clients is read before *)
(* each asset is sent to them.                                             *)
Uidlist == SetToSeq(updated)

Rebuilt ==
  /\ at = "rebuild" /\ phase = "idle"
  /\ timer' = FALSE
  /\ at' = (IF outcome.ok THEN "notify" ELSE "rescan")
  /\ notice' = [uids |-> Uidlist, num |-> number, i |-> 0]
  /\ told' = Nothing /\ spoilt' = {}
  /\ UNCHANGED <<builderVars, folders, open, queued, owed, serverVars>>

(* client_getByIndex asserts that its index is in the list, which it is    *)
(* not once a client has died in the loop: a build with assertions ends.   *)
AssertFails ==
  /\ at = "notify" /\ notice.uids # <<>> /\ notice.i < notice.num
  /\ notice.i >= number
  /\ at' = "ended"
  /\ UNCHANGED <<builderVars, folders, open, queued, timer, owed, serverVars, noticeVars>>

(* client_getByIndex and client_writeBuffer, which may fail.  A build      *)
(* without assertions reads past the end, where an old handle still is.    *)
Send ==
  /\ at = "notify" /\ notice.uids # <<>> /\ notice.i < notice.num
  /\ LET c == list[notice.i + 1]
     IN  \/ /\ told' = IF c \in live THEN [told EXCEPT ![c] = Append(@, Head(notice.uids))] ELSE told
            /\ UNCHANGED <<live, list, number, spoilt>>
         \/ /\ c \in live /\ Dies(c)
            /\ spoilt' = spoilt \union {Head(notice.uids)} /\ told' = told
  /\ notice' = [notice EXCEPT !.i = @ + 1]
  /\ UNCHANGED <<builderVars, monitorVars, waiting, events>>

(* Mutant: the number of clients is read once.                             *)
NextUid_sameNumber ==
  /\ at = "notify" /\ notice.uids # <<>> /\ notice.i = notice.num
  /\ notice' = [uids |-> Tail(notice.uids), num |-> notice.num, i |-> 0]
  /\ UNCHANGED <<builderVars, monitorVars, serverVars, told, spoilt>>

NextUid ==
  /\ at = "notify" /\ notice.uids # <<>> /\ notice.i = notice.num
  /\ notice' = [uids |-> Tail(notice.uids), num |-> number, i |-> 0]
  /\ UNCHANGED <<builderVars, monitorVars, serverVars, told, spoilt>>

AllSent ==
  /\ at = "notify" /\ notice.uids = <<>>
  /\ at' = "rescan"
  /\ UNCHANGED <<builderVars, folders, open, queued, timer, owed, serverVars, noticeVars>>

MonitorThread ==
  \/ FirstBuild \/ BuildStep \/ GivesUp \/ Watch \/ TimerFires
  \/ Wait \/ HandleEvent \/ EventsHandled \/ Rebuilt \/ AssertFails \/ Send \/ NextUid \/ AllSent

MonitorNext == MonitorThread \/ Restart \/ \E f \in Files : Write(f)

MonitorSpec == MonitorInit /\ [][MonitorNext]_allVars
-----------------------------------------------------------------------------
(* s without the elements of X.                                            *)
Sifted(s, X) ==
  LET left[n \in 0..Len(s)] ==
        IF n = 0 THEN <<>> ELSE IF s[n] \in X THEN left[n - 1] ELSE Append(left[n - 1], s[n])
  IN  left[Len(s)]

(* Every client that stays is sent every updated asset once and in order.  *)
(* One that dies under the loop of priv_build spoils the sending of that   *)
(* one asset only in a build without assertions, and in one with them      *)
(* either the same holds or the notification has no end, and with it the   *)
(* program (client_getNumConnected, client_getByIndex).                    *)
EveryClientTold ==
  at = "rescan" /\ outcome.ok =>
    \A c \in live : Sifted(told[c], spoilt) = Sifted(Uidlist, spoilt)

(* A change inotify has reported is not forgotten: until a build begins    *)
(* after it, it is still queued, or among the events of the last wait, or  *)
(* the timer runs.  Closing the descriptor or clearing the timer drops     *)
(* nothing a build has not read (run, fsWatcher__remove).                  *)
SeenChangesAreOwed ==
  owed # {} => queued # {} \/ "fsw" \in ToSet(events) \/ (timer /\ at # "rebuild")
=============================================================================
