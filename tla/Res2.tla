-------------------------------- MODULE Res2 --------------------------------
(***************************************************************************)
(* Assets and resources of the engine and the loader thread that loads     *)
(* them (gosEngine.h, gosEngine.cpp, gosEngine_res2.cpp,                   *)
(* gosEngine_res2_loaderThread_mainFN.cpp), over the graph of Res2Graph.   *)
(*                                                                         *)
(* An asset is a parent whose only child is the resource its signature     *)
(* names; the asset database (external) says which, and may change its     *)
(* mind, which is a hot reload.  A resource is loaded by a conversation    *)
(* between engine and loader over two message queues; the theorems of      *)
(* MsgQ_proofs justify taking each for a sequence.  The engine releases    *)
(* its own reference by hand when the load is over.                        *)
(*                                                                         *)
(* A UID is in the engine's hash maps exactly while its descriptor exists: *)
(* both are set and cleared together, so Known stands for the look-up.     *)
(***************************************************************************)
EXTENDS Res2Graph, FiniteSetsExt

CONSTANTS
  Apps,        \* the applications that may be running, see Application
  Versions,    \* asset -> signatures the database may associate with it
  Kind,        \* signature -> how it loads, see Kinds
  Binds,       \* signature -> assets its file names, in the order of the file
  Bianca,      \* the default texture, made at setup
  Layer,       \* resource -> the longest way down from it over what it shows or binds
  MaxHeld,     \* bound: references the application takes on one handle
  MaxReload,   \* bound: hot reloads
  MaxFlush,    \* LOADER_THREAD__NUM_MAX_MESSAGES_TO_READ
  None

(* direct: the loader reads the file and is done with it (shaders).        *)
(* callback: the engine still needs the file (textures, shapes).           *)
(* composite: callback whose on_load binds other assets (materials, models)*)
(* pipeline: binds its shaders, then the loader uses them.                 *)
Kinds == {"direct", "callback", "composite", "pipeline"}

Habits == {"onDemand", "releaseInFlight", "hotReload", "hotReloadUnready", "materials"}

Slots == {"diffuse", "normal"}

(* An application: the assets it creates and polls itself, what it puts in *)
(* a material (assets or hand-made textures), what it does beyond creating *)
(* and polling, and where its loads may fail.                              *)
Application == [assets : SUBSET Assets, textures : SUBSET (Assets \union Hands),
                does : SUBSET Habits, fails : SUBSET {"loader", "engine"}]

ASSUME Res2Assumption ==
  /\ Apps # {} /\ \A a \in Apps : a.assets \subseteq Assets /\ a.textures \subseteq Assets \union Hands
                                 /\ a.does \subseteq Habits /\ a.fails \subseteq {"loader", "engine"}
  /\ Versions \in [Assets -> SUBSET Sigs] /\ \A a \in Assets : Versions[a] # {}
  /\ Kind \in [Sigs -> Kinds] /\ Binds \in [Sigs -> Seq(Assets)]
  /\ Bianca \in Hands /\ None \notin Res
  /\ MaxHeld \in Nat /\ MaxReload \in Nat /\ MaxFlush \in Nat \ {0}

(* A resource shows or binds only what lies below it: an asset the versions*)
(* of its signature, a file the assets it names (a pipeline its shaders, a *)
(* material its textures), a material made by hand its textures.           *)
ASSUME LayerAssumption ==
  /\ Layer \in [Res -> 0..Depth - 1]
  /\ \A a \in Assets : \A s \in Versions[a] : Layer[s] < Layer[a]
  /\ \A s \in Sigs : \A a \in Range(Binds[s]) : Layer[a] < Layer[s]
  /\ \A h \in Hands \ {Bianca} : \A t \in {Bianca} \union UNION {x.textures : x \in Apps} :
        Layer[t] < Layer[h]

VARIABLES
  app,     \* the application that is running
  mem,     \* the descriptors
  target,  \* material -> slot -> the resource whose data the slot points to
  db,      \* asset -> signature, as the database has it
  held,    \* references the application owns
  q1,      \* res2__msgq_1: engine to loader
  q2,      \* res2__msgq_2: loader to engine
  todo,    \* the batch res2__flushLoaderThreadMsg has popped and not handled
  reloads  \* number of hot reloads so far

runVars == <<mem, target, db, held, q1, q2, todo, reloads>>
vars == <<app, runVars>>

ToLoader == {"LOAD", "LOAD_CONTINUED", "LOAD_FINISHED"}
ToEngine == {"FINISHED_OK", "WANT_CALLBACK", "FINISHED_KO"}

(* CallbackData_onLoad: the descriptor, and user_2, the step of a pipeline.*)
Msg(what, r, step) == [what |-> what, descr |-> r, step |-> step]

Message == [what : ToLoader \union ToEngine, descr : Res \union {None}, step : 0..2]

Init ==
  /\ app \in Apps
  /\ mem = [r \in Res |-> IF r = Bianca THEN Reserved("ready") ELSE FreeSlot]
  /\ target = [h \in Hands |-> [s \in Slots |-> None]]
  /\ db \in [Assets -> Sigs] /\ \A a \in Assets : db[a] \in Versions[a]
  /\ held = [r \in Res |-> IF r = Bianca THEN 1 ELSE 0]
  /\ q1 = <<>> /\ q2 = <<>> /\ todo = <<>>
  /\ reloads = 0
-----------------------------------------------------------------------------
(* The functions of the engine, over e = [mem, q1].                        *)

Engine == [mem |-> mem, q1 |-> q1]

EngineSet == [mem : Memory, q1 : Seq(Message)]

(* Mutant: the loader does not get a reference of its own.                 *)
GetOrScheduleLoad_noRef(e, r, schedule) ==
  LET v == Each(schedule, e, e.mem[r].figli)
  IN  IF IsReady(e.mem, r) \/ e.mem[r].status = "error" THEN e
      ELSE IF r \in Sigs /\ v.mem[r].status = "unloaded"
           THEN [mem |-> ChangeState(v.mem, r, "loading"), q1 |-> Append(v.q1, Msg("LOAD", r, 0))]
           ELSE v

(* Mutant: asks again for what is already loading.                         *)
GetOrScheduleLoad_twice(e, r, schedule) ==
  LET v == Each(schedule, e, e.mem[r].figli)
  IN  IF IsReady(e.mem, r) \/ e.mem[r].status = "error" THEN e
      ELSE IF r \in Sigs /\ v.mem[r].status \in {"unloaded", "loading"}
           THEN [mem |-> IncRefCount(ChangeState(v.mem, r, "loading"), r),
                 q1  |-> Append(v.q1, Msg("LOAD", r, 0))]
           ELSE v

(* res2__get_or_schedule_load, which calls itself (schedule) for the       *)
(* children; it returns true when r was ready.                             *)
GetOrScheduleLoad(e, r, schedule) ==
  LET v == Each(schedule, e, e.mem[r].figli)
  IN  IF IsReady(e.mem, r) \/ e.mem[r].status = "error" THEN e
      ELSE IF r \in Sigs /\ v.mem[r].status = "unloaded"
           THEN [mem |-> IncRefCount(ChangeState(v.mem, r, "loading"), r),
                 q1  |-> Append(v.q1, Msg("LOAD", r, 0))]
           ELSE v

ScheduleLoad[n \in 0..Depth] ==
  [x \in EngineSet \X Res |->
     IF n = 0 THEN x[1] ELSE GetOrScheduleLoad(x[1], x[2], ScheduleLoad[n - 1])]

(* The children of r leave it, the first of the list first, and are        *)
(* released; the parents that are left lose it.                            *)
DropChildren(m, r, release) ==
  Each([x \in Memory \X Res |-> release[<<RemoveChild(x[1], r, x[2]), x[2]>>]], m, m[r].figli)

DropParents(m, r) ==
  Each([x \in Memory \X Res |-> RemoveChild(x[1], x[2], r)], m, m[r].padri)

(* res2__release, which calls itself (release) for the children, with      *)
(* res2::destroy and MemManager::release.                                  *)
ReleaseHandle(m, r, release) ==
  IF m[r].ref > 1 THEN DecRefCount(m, r)
  ELSE LET deleting == ChangeState(DecRefCount(m, r), r, "deleting")
       IN  [DropParents(DropChildren(deleting, r, release), r) EXCEPT ![r] = FreeSlot]

Released[n \in 0..Depth] ==
  [x \in Memory \X Res |-> IF n = 0 THEN x[1] ELSE ReleaseHandle(x[1], x[2], Released[n - 1])]

(* res2__get_or_create_from_signatureUID.                                  *)
GetOrCreateSig(m, s) ==
  IF Known(m, s) THEN IncRefCount(m, s) ELSE [m EXCEPT ![s] = Reserved("unloaded")]

(* res2__get_or_create_asset_from_UIDs.                                    *)
GetOrCreateAsset(e, a, asap) ==
  LET reserved == [e.mem EXCEPT ![a] = Reserved("ready")]
      created == [e EXCEPT !.mem = AddChild(GetOrCreateSig(reserved, db[a]), a, db[a])]
  IN  CASE Known(e.mem, a) -> [e EXCEPT !.mem = IncRefCount(@, a)]
        [] ~Known(e.mem, a) /\ asap -> ScheduleLoad[Depth][<<created, a>>]
        [] OTHER -> created

(* The on_load callbacks bind to s the assets its file names, all asap.    *)
BindAll(e, s, assets) ==
  LET Bound(x) == LET got == GetOrCreateAsset(x[1], x[2], TRUE)
                  IN  [got EXCEPT !.mem = AddChild(@, s, x[2])]
  IN  Each([x \in EngineSet \X Assets |-> Bound(x)], e, assets)
-----------------------------------------------------------------------------
(* The application, between two updates of the engine.                     *)

Idle == todo = <<>>
LoaderIdle == q1 = <<>> /\ q2 = <<>>

CreateFromAsset(a, asap) ==
  /\ Idle /\ held[a] < MaxHeld
  /\ asap \/ "onDemand" \in app.does
  /\ LET e == GetOrCreateAsset(Engine, a, asap) IN mem' = e.mem /\ q1' = e.q1
  /\ held' = [held EXCEPT ![a] = @ + 1]
  /\ UNCHANGED <<target, db, q2, todo, reloads>>

(* A get with a timeout is a get, then updates until r is ready.           *)
Get(r) ==
  /\ Idle /\ held[r] > 0
  /\ LET e == ScheduleLoad[Depth][<<Engine, r>>] IN mem' = e.mem /\ q1' = e.q1
  /\ UNCHANGED <<target, db, held, q2, todo, reloads>>

Release(r) ==
  /\ Idle /\ held[r] > 0 /\ r # Bianca
  /\ LoaderIdle \/ "releaseInFlight" \in app.does
  /\ mem' = Released[Depth][<<mem, r>>]
  /\ held' = [held EXCEPT ![r] = @ - 1]
  /\ target' = [h \in Hands |-> IF Known(mem', h) THEN target[h] ELSE [s \in Slots |-> None]]
  /\ UNCHANGED <<db, q1, q2, todo, reloads>>

(* materialPBR_create: both slots get the default texture.                 *)
MaterialCreate(h) ==
  /\ Idle /\ "materials" \in app.does /\ h # Bianca /\ ~Known(mem, h)
  /\ LET WithBianca(m) == IncRefCount(AddChild(m, h, Bianca), Bianca)
     IN  mem' = WithBianca(WithBianca([mem EXCEPT ![h] = Reserved("ready")]))
  /\ target' = [target EXCEPT ![h] = [s \in Slots |-> Bianca]]
  /\ held' = [held EXCEPT ![h] = 1]
  /\ UNCHANGED <<db, q1, q2, todo, reloads>>

(* The resource whose data a slot that shows r points to.                  *)
DataOf(m, r) == IF r \in Assets THEN Head(m[r].figli) ELSE r

(* Where the list of h has the child that owns data; 0 when it has none.   *)
Owner(m, h, data) == SelectInSeq(m[h].figli, LAMBDA c : DataOf(m, c) = data)

(* Mutant: the slot keeps pointing to the old data.                        *)
UpdateTexture_sameData(u, h, slot, r) ==
  LET m == u.mem
      i == Owner(m, h, u.tgt[slot])
      old == m[h].figli[i]
      removed == Released[Depth][<<RemoveChild(m, h, old), old>>]
  IN  IF i = 0 \/ old = r THEN u
      ELSE [mem |-> IncRefCount(AddChild(removed, h, r), r), tgt |-> u.tgt]

(* priv__materialPBR_update_texture on u = [mem, tgt]: the child that owns *)
(* the data the slot points to makes room for r.                           *)
UpdateTexture(u, h, slot, r) ==
  LET m == u.mem
      i == Owner(m, h, u.tgt[slot])
      old == m[h].figli[i]
      removed == Released[Depth][<<RemoveChild(m, h, old), old>>]
      new == IncRefCount(AddChild(removed, h, r), r)
  IN  IF i = 0 \/ old = r THEN u
      ELSE [mem |-> new, tgt |-> [u.tgt EXCEPT ![slot] = DataOf(new, r)]]

(* get_for_update, then materialPBR_update_texture_diffuse and _normal;    *)
(* the application may leave a slot as it is.                              *)
MaterialUpdate(h, diffuse, normal) ==
  /\ Idle /\ h # Bianca /\ held[h] > 0 /\ IsReady(mem, h)
  /\ \A r \in {diffuse, normal} \ {None} : held[r] > 0
  /\ LET Set(u, slot, r) == IF r = None THEN u ELSE UpdateTexture(u, h, slot, r)
         first == Set([mem |-> mem, tgt |-> target[h]], "diffuse", diffuse)
         both == Set(first, "normal", normal)
     IN  /\ mem' = both.mem
         /\ target' = [target EXCEPT ![h] = both.tgt]
  /\ UNCHANGED <<db, held, q1, q2, todo, reloads>>

(* asset_hotreload after the database moved a to signature s.              *)
HotReload(a, s) ==
  /\ Idle /\ Known(mem, a) /\ reloads < MaxReload
  /\ \/ "hotReload" \in app.does /\ IsReady(mem, a) /\ LoaderIdle
     \/ "hotReloadUnready" \in app.does
  /\ db' = [db EXCEPT ![a] = s]
  /\ LET old == Head(mem[a].figli)
         m == Released[Depth][<<RemoveChild(mem, a, old), old>>]
     IN  mem' = AddChild(GetOrCreateSig(m, s), a, s)
  /\ reloads' = reloads + 1
  /\ UNCHANGED <<target, held, q1, q2, todo>>
-----------------------------------------------------------------------------
(* The engine: res2__flushLoaderThreadMsg, once per update.                *)

FlushPop ==
  /\ todo = <<>> /\ q2 # <<>>
  /\ LET n == Min({MaxFlush, Len(q2)})
     IN  todo' = SubSeq(q2, 1, n) /\ q2' = SubSeq(q2, n + 1, Len(q2))
  /\ UNCHANGED <<mem, target, db, held, q1, reloads>>

(* What on_load leaves: [e, result].                                       *)
OnLoad(m, result) ==
  LET r == m.descr
  IN  IF result # "fail" /\ (Kind[r] = "composite" \/ (Kind[r] = "pipeline" /\ m.step = 0))
      THEN BindAll(Engine, r, Binds[r])
      ELSE Engine

(* A pipeline goes back to the loader twice; the others end here.          *)
OnLoadResults(m) ==
  IF Kind[m.descr] = "pipeline"
  THEN IF m.step < 2 THEN {"pending"} ELSE {"success"}
  ELSE {"success"} \union (IF "engine" \in app.fails THEN {"fail"} ELSE {})

(* Mutant: a failure in on_load does not change the state.                 *)
HandleLoaded_noError(m, result) ==
  LET e == OnLoad(m, result)
      r == m.descr
      done == IF result = "success" THEN ChangeState(e.mem, r, "ready") ELSE e.mem
  IN  /\ mem' = IF result = "pending" THEN e.mem ELSE DecRefCount(done, r)
      /\ q1' = CASE m.what = "FINISHED_OK" -> e.q1
                 [] m.what # "FINISHED_OK" /\ result = "pending" ->
                        Append(e.q1, [m EXCEPT !.what = "LOAD_CONTINUED"])
                 [] OTHER -> Append(e.q1, [m EXCEPT !.what = "LOAD_FINISHED"])

(* Mutant: LOAD_CONTINUED overtakes the loads of the shaders.              *)
HandleLoaded_onTop(m, result) ==
  LET e == OnLoad(m, result)
      r == m.descr
      status == IF result = "success" THEN "ready" ELSE "error"
  IN  /\ mem' = IF result = "pending" THEN e.mem
                ELSE DecRefCount(ChangeState(e.mem, r, status), r)
      /\ q1' = CASE m.what = "FINISHED_OK" -> e.q1
                 [] m.what # "FINISHED_OK" /\ result = "pending" ->
                        <<[m EXCEPT !.what = "LOAD_CONTINUED"]>> \o e.q1
                 [] OTHER -> Append(e.q1, [m EXCEPT !.what = "LOAD_FINISHED"])

(* change_state and the two kinds of message that carry the outcome of a   *)
(* load.  res2::release only counts: nothing here destroys what reaches 0. *)
HandleLoaded(m, result) ==
  LET e == OnLoad(m, result)
      r == m.descr
      status == IF result = "success" THEN "ready" ELSE "error"
  IN  /\ mem' = IF result = "pending" THEN e.mem
                ELSE DecRefCount(ChangeState(e.mem, r, status), r)
      /\ q1' = CASE m.what = "FINISHED_OK" -> e.q1
                 [] m.what # "FINISHED_OK" /\ result = "pending" ->
                        Append(e.q1, [m EXCEPT !.what = "LOAD_CONTINUED"])
                 [] OTHER -> Append(e.q1, [m EXCEPT !.what = "LOAD_FINISHED"])

FlushOne ==
  /\ todo # <<>>
  /\ todo' = Tail(todo)
  /\ \/ /\ Head(todo).what = "FINISHED_KO"
        /\ UNCHANGED <<mem, q1>>
     \/ /\ Head(todo).what # "FINISHED_KO"
        /\ \E result \in OnLoadResults(Head(todo)) : HandleLoaded(Head(todo), result)
  /\ UNCHANGED <<target, db, held, q2, reloads>>
-----------------------------------------------------------------------------
(* The loader thread handles one message at a time, in order.              *)

(* The message that answers m when the loader does not fail.               *)
Answer(m) ==
  CASE m.what = "LOAD" ->
         Msg(IF Kind[m.descr] = "direct" THEN "FINISHED_OK" ELSE "WANT_CALLBACK", m.descr, 0)
    [] m.what # "LOAD" /\ m.step = 0 -> Msg("WANT_CALLBACK", m.descr, 1)
    [] OTHER -> Msg("FINISHED_OK", m.descr, 2)

LoaderStep ==
  /\ q1 # <<>>
  /\ q1' = Tail(q1)
  /\ LET m == Head(q1)
     IN  \/ m.what = "LOAD_FINISHED" /\ UNCHANGED q2
         \/ m.what # "LOAD_FINISHED" /\ q2' = Append(q2, Answer(m))
         \/ /\ m.what = "LOAD" \/ (m.what = "LOAD_CONTINUED" /\ m.step = 1)
            /\ "loader" \in app.fails
            /\ q2' = Append(q2, Msg("FINISHED_KO", None, 0))
  /\ UNCHANGED <<mem, target, db, held, todo, reloads>>

AppNext ==
  \/ \E a \in app.assets, asap \in BOOLEAN : CreateFromAsset(a, asap)
  \/ \E r \in Res : Get(r) \/ Release(r)
  \/ \E h \in Hands : MaterialCreate(h)
  \/ \E h \in Hands, d, n \in app.textures \union {None} : MaterialUpdate(h, d, n)
  \/ \E a \in Assets : \E s \in Versions[a] : HotReload(a, s)

Next == (AppNext \/ FlushPop \/ FlushOne \/ LoaderStep) /\ UNCHANGED app

Spec == Init /\ [][Next]_vars

(* What some application may ask for again and again.                     *)
Polled == UNION {a.assets : a \in Apps} \union (Hands \ {Bianca})

(* The application updates the engine every frame and asks again for what  *)
(* it draws; the loader thread is scheduled.  Asking is strongly fair: it  *)
(* waits for a flush to end, but happens in every frame.  Handles is the   *)
(* trace FlushOne leaves on todo, and only FlushOne does: fairness for it  *)
(* is fairness for FlushOne, with an ENABLED that is cheap to evaluate.    *)
Handles == todo # <<>> /\ todo' = Tail(todo)

Fairness == /\ WF_runVars(FlushPop) /\ WF_todo(Handles) /\ WF_runVars(LoaderStep)
            /\ \A r \in Polled : SF_runVars(Get(r))

FairSpec == Spec /\ Fairness
-----------------------------------------------------------------------------
(* Properties.                                                             *)

InTransit == q1 \o todo \o q2

(* Loads of r that have been requested and have not ended.                 *)
InFlight(r) ==
  Cardinality({i \in DOMAIN InTransit : /\ InTransit[i].descr = r
                                        /\ InTransit[i].what # "LOAD_FINISHED"})

(* Every variable has its type; a message to the loader names a signature  *)
(* that exists in the database (CallbackData_onLoad, ResDescr).            *)
TypeOK ==
  /\ app \in Apps
  /\ mem \in Memory /\ \A r \in Res : mem[r].ref \in Nat
  /\ target \in [Hands -> [Slots -> Sigs \union Hands \union {None}]]
  /\ db \in [Assets -> Sigs]
  /\ held \in [Res -> 0..MaxHeld + 1] /\ reloads \in 0..MaxReload
  /\ q1 \in Seq(Message) /\ q2 \in Seq(Message) /\ todo \in Seq(Message)

(* The entries for r on the lists of children.                             *)
Links(m, r) == UNION {{p} \X {i \in DOMAIN m[p].figli : m[p].figli[i] = r} : p \in Res}

(* A descriptor counts exactly who uses it: the handles of the application,*)
(* the children lists it is on, and the load in flight that protects it    *)
(* from res2__release (gosEngine_res2.cpp).                                *)
RefCountExact ==
  \A r \in Res : Known(mem, r) =>
    mem[r].ref = held[r] + InFlight(r) + Cardinality(Links(mem, r))

(* A released descriptor is on no list of the graph, in no message of a    *)
(* load that is not over, and the application holds no handle to it.       *)
NoDangling ==
  \A r \in Res : ~Known(mem, r) =>
    /\ held[r] = 0 /\ InFlight(r) = 0
    /\ \A p \in Res : r \notin Range(mem[p].figli) \union Range(mem[p].padri)

(* The counts and the lists of the graph agree while loads run.            *)
GraphSound == TypeOK /\ RefCountExact /\ NoDangling

(* A resource is loading exactly while one load of it is in flight: no     *)
(* load is requested twice, none is forgotten.                             *)
LoadingIsInFlight ==
  \A s \in Sigs : InFlight(s) = IF mem[s].status = "loading" THEN 1 ELSE 0

(* is_ready can be trusted: what the renderer takes for ready hangs over   *)
(* loaded resources only, at any depth.                                    *)
ReadyMeansLoaded ==
  \A p \in Res : IsReady(mem, p) =>
    \A c \in Range(mem[p].figli) : IsReady(mem, c)

(* num_child_not_ready says how many children are not ready                *)
(* (enumAndDefine.h).                                                      *)
CountersExact ==
  \A p \in Res : Known(mem, p) =>
    mem[p].notReady = Cardinality({i \in DOMAIN mem[p].figli : ~IsReady(mem, mem[p].figli[i])})

(* The two directions of the graph agree: remove_child takes padre, and    *)
(* nobody else, off the parents of child (res2.cpp).                       *)
EdgesMirrored ==
  \A p, c \in Res : Occurrences(mem[p].figli, c) = Occurrences(mem[c].padri, p)

(* A resource nobody refers to does not exist: what reaches refCount 0 is  *)
(* freed (res2::release).                                                  *)
LiveIsOwned == \A r \in Res : Known(mem, r) => mem[r].ref > 0

(* The loader never meets a descriptor that has been released.             *)
LoaderSeesLive == \A i \in DOMAIN q1 : Known(mem, q1[i].descr)

(* When the loader builds a pipeline its shaders are loaded: the requests  *)
(* for them left first and the queues keep the order.                      *)
PipelineShadersReady ==
  q1 # <<>> /\ Head(q1).what = "LOAD_CONTINUED" /\ Head(q1).step = 1 =>
    \A c \in Range(mem[Head(q1).descr].figli) : IsReady(mem, c)

(* A slot of a material points to the data of one of its children, which   *)
(* keeps the data from being freed.                                        *)
SlotOwnsData ==
  \A h \in Hands \ {Bianca} : Known(mem, h) =>
    \A s \in Slots : \E c \in Range(mem[h].figli) : DataOf(mem, c) = target[h][s]

(* Every load comes to an end.                                             *)
EveryLoadEnds == \A s \in Sigs : mem[s].status = "loading" ~> mem[s].status # "loading"

(* A load of s has failed, in the engine or in the loader, whose failure   *)
(* the engine ignores.                                                     *)
Failed(s) == mem[s].status = "error" \/ (mem[s].status = "loading" /\ InFlight(s) = 0)

(* What the application keeps asking for becomes ready, unless it lets go  *)
(* or some load fails (res2__get_or_schedule_load).                        *)
PolledBecomesReady ==
  \A r \in Polled :
    held[r] > 0 ~> IsReady(mem, r) \/ held[r] = 0 \/ \E s \in Sigs : Failed(s)
=============================================================================
