------------------------------- MODULE Builder -------------------------------
(***************************************************************************)
(* gos::asset2::Builder (gosAsset2Builder.cpp), which keeps the built      *)
(* assets of a project up to date: it scans the rows of its database for   *)
(* files that changed, deletes what depends on them, builds again the      *)
(* .gosasset_d files involved, and tells which assets were updated.  The   *)
(* files may change under its hands, and it knows them by the time of      *)
(* their last change, in seconds.  Aliases, names of sections and the      *)
(* several classes of asset are left out: a declaration takes its data     *)
(* from a source, or refers to other assets, or both.                      *)
(***************************************************************************)
EXTENDS Naturals, Sequences, FiniteSets, SequencesExt

CONSTANTS Paths,        \* every file, in the order of its path
          Uids,         \* every file, in the order of its UID
          Inis,         \* those that are .gosasset_d
          Shaders,      \* those that are shader_txt, which may include others
          MaxNested,    \* NUM_MAX_NESTED_RESOURCES
          Texts,        \* the texts each file may have
          Bad,          \* the text of a file that does not parse
          NoSource,     \* a declaration without a source
          FirstTexts,   \* bound: the texts of the files at the start
          Removable,    \* bound: the files that may be removed
          MaxChanges,   \* bound: changes of files
          MaxBuilds     \* bound: builds

Files == ToSet(Paths)

(* A text of a .gosasset_d is Bad or [include, declare], sequences of      *)
(* files and of declarations [rtname, src, param, uses]; a text of a       *)
(* source is the set of the sources it includes.                           *)
IniTexts == (UNION {Texts[i] : i \in Inis}) \ {Bad}
Declarations == UNION {ToSet(text.declare) : text \in IniTexts}
Assets == Inis \X {decl.rtname : decl \in Declarations}

ASSUME BuilderAssumption ==
  /\ Paths \in Seq(Files) /\ Uids \in Seq(Files) /\ ToSet(Uids) = Files
  /\ Inis \subseteq Files /\ Shaders \subseteq Files \ Inis /\ MaxNested \in Nat
  /\ \A f \in Files : FirstTexts[f] \in Texts[f]
  /\ Removable \subseteq Files /\ MaxChanges \in Nat /\ MaxBuilds \in Nat

ASSUME TextsAssumption ==
  /\ \A text \in IniTexts : text.include \in Seq(Inis) /\ text.declare \in Seq(Declarations)
  /\ \A decl \in Declarations : decl.src \in (Files \ Inis) \union {NoSource}
  /\ IsFiniteSet(Declarations) /\ Assets \intersect Files = {}

Gone == [time |-> 0, text |-> {}, data |-> 0]
Exists(file, f) == file[f].time # 0

VARIABLES files,      \* what is on disk, [time, text, data] of every file
          clock,      \* the changes so far, bounded by MaxChanges
          db,         \* the tables: res, depends, assets, sigs, sigsRT
          backup,     \* the database as it was before the build
          bin,        \* the built files: what each was made of
          phase,      \* "idle", "scan", "build"
          job,        \* the locals of priv_build
          updated,    \* build_result_list
          outcome,    \* how builds ended, and history: see BuilderInit
          hasDb       \* the database exists

builderVars == <<files, clock, db, backup, bin, phase, job, updated, outcome, hasDb>>

EmptyDb == [res |-> <<>>, depends |-> {}, assets |-> <<>>, sigs |-> {}, sigsRT |-> {}]
NoJob == [first |-> FALSE, rows |-> {}, todo |-> {}, deleted |-> {}, oldSigs |-> {}, oldRes |-> {},
          stack |-> <<>>, touched |-> <<>>]

(* The rest of outcome is history: no file has changed since the build     *)
(* began (quiet), the first build of this database was successful, a build *)
(* has failed, a change has left a file with the time a row has for it     *)
(* (hidden), and has so hidden from the row one that it had seen (undone), *)
(* a file that a source includes was not found when its row was looked for *)
(* (missed).                                                               *)
BuilderInit ==
  /\ files = [f \in Files |-> [time |-> 1, text |-> FirstTexts[f], data |-> 1]]
  /\ clock = 1
  /\ hasDb = FALSE /\ db = EmptyDb /\ backup = EmptyDb /\ bin = <<>>
  /\ phase = "idle" /\ job = NoJob /\ updated = {}
  /\ outcome = [builds |-> 0, ok |-> FALSE, quiet |-> FALSE, complete |-> FALSE, failed |-> FALSE,
                hidden |-> FALSE, undone |-> FALSE, missed |-> FALSE]
-----------------------------------------------------------------------------
(* The tables that may come back: the backup too, during a build.          *)
Kept == IF phase = "idle" THEN {db} ELSE {db, backup}
Behind(d, f) == f \in DOMAIN d.res /\ files[f].time # d.res[f]

(* Files change, appear and go at any moment.  Times are in seconds: a     *)
(* file that changes may keep the time it has, and one that is moved into  *)
(* place brings its own, such as that of a file that was there before.     *)
Change(f) ==
  /\ clock <= MaxChanges
  /\ \/ \E text \in Texts[f], time \in 1 .. clock + 1 :
          files' = [files EXCEPT ![f] = [time |-> time, text |-> text, data |-> clock + 1]]
     \/ Exists(files, f) /\ f \in Removable /\ files' = [files EXCEPT ![f] = Gone]
  /\ clock' = clock + 1
  /\ LET same == {d \in Kept : f \in DOMAIN d.res /\ ~Behind(d, f)'}
     IN  outcome' = [outcome EXCEPT !.quiet = FALSE, !.hidden = @ \/ same # {},
                                    !.undone = @ \/ \E d \in same : Behind(d, f)]
  /\ UNCHANGED <<db, backup, bin, phase, job, updated, hasDb>>
-----------------------------------------------------------------------------
(* The database.                                                           *)

Without(f, S) == [x \in DOMAIN f \ S |-> f[x]]
With(f, x, v) == [y \in DOMAIN f \union {x} |-> IF y = x THEN v ELSE f[y]]

(* What is reached from S along the edges, at any depth.                   *)
Reached(edges, S) ==
  LET nodes == S \union {e[2] : e \in edges}
      grown[T \in SUBSET nodes] ==
        LET more == {e[2] : e \in {d \in edges : d[1] \in T}} \ T
        IN  IF more = {} THEN T ELSE grown[T \union more]
  IN  grown[S]

(* dependency_get_dependecies_list.                                        *)
Needs(edges, S) == Reached(edges, S)

(* dependency_get_requireBy_list: what needs a member of S, at any depth.  *)
Users(edges, S) == Reached({<<e[2], e[1]>> : e \in edges}, S)

(* res_delete and asset_delete: the rows and every edge at either end.     *)
DeleteRows(d, S) ==
  [d EXCEPT !.res = Without(@, S), !.assets = Without(@, S),
            !.depends = {e \in @ : e[1] \notin S /\ e[2] \notin S}]

(* Mutant: nobody shares a signature.                                      *)
InUse_no(d, sig) == FALSE

(* signature_is_still_in_use, signature_delete.                            *)
InUse(d, sig) == \E a \in DOMAIN d.assets : d.assets[a] = sig
DeleteSigs(d, S) ==
  [d EXCEPT !.sigs = @ \ S, !.sigsRT = {e \in @ : e[1] \notin S /\ e[2] \notin S}]

FirstOf(order, S) ==
  order[CHOOSE i \in DOMAIN order : order[i] \in S /\ \A j \in DOMAIN order : order[j] \in S => i <= j]
Named(d, rtname) == {a \in DOMAIN d.assets : a[2] = rtname}
-----------------------------------------------------------------------------
(* build: the first time, or with a backup of the database to go back to.  *)
(* priv_gosassetd_scan_folder looks for .gosasset_d that have no row.      *)
Begin ==
  /\ phase = "idle" /\ outcome.builds < MaxBuilds
  /\ phase' = "scan" /\ hasDb' = TRUE
  /\ backup' = db
  /\ bin' = (IF hasDb THEN bin ELSE <<>>)   \* rebuild_all
  /\ job' = [NoJob EXCEPT !.first = ~hasDb, !.rows = DOMAIN db.res,
                          !.todo = {f \in Inis : Exists(files, f)} \ DOMAIN db.res]
  /\ updated' = {}
  /\ outcome' = [outcome EXCEPT !.builds = @ + 1, !.ok = FALSE, !.quiet = TRUE,
                                !.complete = hasDb /\ @]
  /\ UNCHANGED <<files, clock, db>>

(* The rows are those the query found, deleted since or not: it sorts      *)
(* them, so it has read them all.                                          *)
RowTime(f) == backup.res[f]

(* Mutant: keeps the row of the file itself.                               *)
Swept_keepsRow(d, f, users) == DeleteRows(d, users)

(* The row of the file, and those of all that needs it.                    *)
Swept(d, f, users) == DeleteRows(d, users \union {f})

(* A turn of the loop of priv_resource_scan_DB.  A file that changed takes *)
(* with it all that needs it; the .gosasset_d among these, and those of    *)
(* the assets among these, will be built again.                            *)
ScanRow ==
  /\ phase = "scan" /\ job.rows # {}
  /\ LET f == FirstOf(Paths, job.rows)
         changed == files[f].time # RowTime(f)
         users == Users(db.depends, {f}) \ {f}
         assets == {a \in users \ Files : a[1] \in DOMAIN db.res}
         inis == ((users \intersect Inis) \intersect DOMAIN db.res) \union {a[1] : a \in assets}
         removed == job.deleted \union {g \in {f} \intersect Inis : ~Exists(files, g)}
     IN  IF ~changed
         THEN /\ job' = [job EXCEPT !.rows = @ \ {f}]
              /\ db' = db
         ELSE /\ job' = [job EXCEPT !.rows = @ \ {f},
                           !.deleted = removed \union inis,
                           !.todo = @ \union (inis \ removed)
                                      \union {g \in {f} \intersect Inis : Exists(files, g)},
                           !.oldSigs = @ \union {db.assets[a] : a \in assets},
                           !.oldRes = @ \union (Needs(db.depends, {f}) \ {f})]
              /\ db' = Swept(db, f, users)
  /\ UNCHANGED <<files, clock, backup, bin, phase, updated, outcome, hasDb>>

(* The signatures of the deleted assets that nobody else has go, and with  *)
(* them their files.                                                       *)
DropSignatures ==
  /\ phase = "scan" /\ job.rows = {}
  /\ LET dropped == {s \in job.oldSigs : ~InUse(db, s)}
     IN  db' = DeleteSigs(db, dropped) /\ bin' = Without(bin, dropped)
  /\ phase' = "build"
  /\ UNCHANGED <<files, clock, backup, job, updated, outcome, hasDb>>
-----------------------------------------------------------------------------
(* The build of a .gosasset_d, which may build the ones it includes first. *)
(* A frame is [ini, read, include, declare, res]: its text once it is      *)
(* read, and the rows of the sources of the declaration under way.         *)

Top == job.stack[Len(job.stack)]
Stacked(frame) == [job EXCEPT !.stack[Len(job.stack)] = frame]

(* Its row is written first, with the time it has now.                     *)
OpenedBy(j, ini) ==
  /\ db' = [db EXCEPT !.res = With(@, ini, files[ini].time)]
  /\ job' = [j EXCEPT !.stack = Append(@, [ini |-> ini, read |-> FALSE, include |-> <<>>,
                                           declare |-> <<>>, res |-> <<>>])]

(* The next of the list, skipped if it is gone or has a row.               *)
NextIni ==
  /\ phase = "build" /\ job.stack = <<>> /\ job.todo # {}
  /\ LET ini == FirstOf(Uids, job.todo)
         rest == [job EXCEPT !.todo = @ \ {ini}]
     IN  IF Exists(files, ini) /\ ini \notin DOMAIN db.res
         THEN OpenedBy(rest, ini)
         ELSE job' = rest /\ db' = db
  /\ UNCHANGED <<files, clock, backup, bin, phase, updated, outcome, hasDb>>

Building == phase = "build" /\ job.stack # <<>>

ParseIni ==
  /\ Building /\ ~Top.read
  /\ Exists(files, Top.ini) /\ files[Top.ini].text # Bad
  /\ LET text == files[Top.ini].text
     IN  job' = Stacked([Top EXCEPT !.read = TRUE, !.include = text.include, !.declare = text.declare])
  /\ UNCHANGED <<files, clock, db, backup, bin, phase, updated, outcome, hasDb>>

(* Mutant: no dependency.                                                  *)
Depending_not(d, ini, included) == d

(* priv_gosassetd_build_parseIncludeSection: the file depends on the one   *)
(* it includes, once that one is built.                                    *)
Depending(d, ini, included) == [d EXCEPT !.depends = @ \union {<<ini, included>>}]

Include ==
  /\ Building /\ Top.include # <<>>
  /\ LET ini == Head(Top.include)
     IN  /\ Exists(files, ini)
         /\ IF ini \notin DOMAIN db.res
            THEN OpenedBy(job, ini)
            ELSE /\ db' = Depending(db, Top.ini, ini)
                 /\ job' = Stacked([Top EXCEPT !.include = Tail(@)])
  /\ UNCHANGED <<files, clock, backup, bin, phase, updated, outcome, hasDb>>

Declaring == Building /\ Top.read /\ Top.include = <<>> /\ Top.declare # <<>>
Decl == Head(Top.declare)

(* What a source includes, at any depth, now.                              *)
Included(file, S) == Reached({e \in (Files \ Inis) \X Files : e[2] \in file[e[1]].text}, S)

SourcesOf(decl) == IF decl.src = NoSource THEN {} ELSE Included(files, {decl.src})

(* num_nested_resources once all is read: an include counts each time it   *)
(* is met.                                                                 *)
NestedCount(src) ==
  LET count[f \in Files \ Inis, depth \in 0 .. MaxNested] ==
        IF depth = 0 THEN 0
        ELSE MapThenSumSet(LAMBDA g : 1 + count[g, depth - 1], files[f].text)
  IN  count[src, MaxNested]

(* What is found: a file with a row is not looked for, but a shader is     *)
(* opened, for what it includes.                                           *)
Found(f) == Exists(files, f) \/ (f \in DOMAIN db.res /\ f \notin Shaders)
Needed == {f \in SourcesOf(Decl) : Found(f)}
Nested == {e \in Needed \X Needed : e[2] \in files[e[1]].text}
RowOf(f) == IF f \in DOMAIN db.res THEN db.res[f] ELSE files[f].time
WithRows(d, S, edges) ==
  [d EXCEPT !.res = [f \in DOMAIN @ \union S |-> IF f \in S THEN RowOf(f) ELSE @[f]],
            !.depends = @ \union edges]

Needing == Declaring /\ Decl.src # NoSource /\ Top.res = <<>>

(* prot_needResource: a row, with the time it has now, for the source of   *)
(* the declaration and for all it includes that has none.                  *)
NeedResource ==
  /\ Needing /\ Found(Decl.src) /\ NestedCount(Decl.src) < MaxNested
  /\ db' = WithRows(db, Needed, Nested \union {<<Top.ini, Decl.src>>})
  /\ job' = Stacked([Top EXCEPT !.res = [f \in Needed |-> RowOf(f)]])
  /\ outcome' = [outcome EXCEPT !.missed = @ \/ Needed # SourcesOf(Decl)]
  /\ UNCHANGED <<files, clock, backup, bin, phase, updated, hasDb>>

UsedBy(d, decl) == UNION {Named(d, n) : n \in decl.uses}

(* signature_createUID over the parameters: the rows of the sources and    *)
(* the UIDs of the assets it refers to.                                    *)
Signature(decl, rows, used) ==
  [param |-> decl.param, rows |-> {<<f, rows[f]>> : f \in DOMAIN rows}, used |-> used]

(* What a file is made of: sources as they are now, signatures of others.  *)
MadeOf(d, decl) ==
  [sources |-> {<<f, files[f].data>> : f \in SourcesOf(decl)},
   sigs |-> {d.assets[a] : a \in UsedBy(d, decl)}]

(* build_begin: the assets it refers to are known and the name is new.     *)
Accepted(d, decl) == (\A n \in decl.uses : Named(d, n) # {}) /\ Named(d, decl.rtname) = {}

(* A row of sig_dependsRT that is there already is an error.               *)
FreshRT(d, sig, used) ==
  /\ \A a \in used : <<sig, d.assets[a]>> \notin d.sigsRT
  /\ \A a, b \in used : d.assets[a] = d.assets[b] => a = b

(* The compiler of a new signature finds all it reads.                     *)
Compiles(d, decl, sig) ==
  sig \in d.sigs \/ \A f \in SourcesOf(decl) : Exists(files, f)

(* prot_setupAsset and the dependencies, on the assets in used.            *)
Inserted(d, asset, decl, sig, used) ==
  [d EXCEPT !.assets = With(@, asset, sig),
            !.sigs = @ \union {sig},
            !.sigsRT = @ \union {<<sig, d.assets[a]>> : a \in used},
            !.depends = @ \union {<<asset, x>> : x \in {asset[1]} \union used \union ({decl.src} \ {NoSource})}]

Asset == <<Top.ini, Decl.rtname>>
Used == UsedBy(db, Decl)
Sig == Signature(Decl, Top.res, Used)
Ready == Declaring /\ (Decl.src # NoSource => Top.res # <<>>)

(* build_begin and build_exe of a builder, and the file it makes unless    *)
(* the signature is there.                                                 *)
MakeAsset ==
  /\ Ready /\ Accepted(db, Decl) /\ FreshRT(db, Sig, Used) /\ Compiles(db, Decl, Sig)
  /\ db' = Inserted(db, Asset, Decl, Sig, Used)
  /\ bin' = (IF Sig \in db.sigs THEN bin ELSE With(bin, Sig, MadeOf(db, Decl)))
  /\ job' = [Stacked([Top EXCEPT !.declare = Tail(@), !.res = <<>>])
               EXCEPT !.touched = With(@, Asset, Sig)]
  /\ UNCHANGED <<files, clock, backup, phase, updated, outcome, hasDb>>

CloseIni ==
  /\ Building /\ Top.read /\ Top.include = <<>> /\ Top.declare = <<>>
  /\ IF Len(job.stack) = 1
     THEN job' = [job EXCEPT !.stack = <<>>] /\ db' = db
     ELSE LET above == job.stack[Len(job.stack) - 1]
          IN  /\ db' = Depending(db, above.ini, Top.ini)
              /\ job' = [job EXCEPT !.stack = Append(Front(Front(@)), [above EXCEPT !.include = Tail(@)])]
  /\ UNCHANGED <<files, clock, backup, bin, phase, updated, outcome, hasDb>>

(* Any step of the build of a .gosasset_d that cannot be taken ends the    *)
(* build.  The previous database comes back, if there was one; if there    *)
(* was none, the new one stays with what it has.                           *)
Abandon(left) ==
  /\ db' = (IF job.first THEN left ELSE backup)
  /\ phase' = "idle" /\ job' = NoJob
  /\ outcome' = [outcome EXCEPT !.failed = TRUE]
  /\ UNCHANGED <<files, clock, backup, bin, updated, hasDb>>

NoFile ==
  /\ Building
  /\ \/ ~Top.read /\ (~Exists(files, Top.ini) \/ files[Top.ini].text = Bad)
     \/ Top.include # <<>> /\ ~Exists(files, Head(Top.include))
     \/ Needing /\ ~Found(Decl.src)
  /\ Abandon(db)

(* More includes than there is room for: the rows and edges made so far.   *)
TooManyNested ==
  /\ Needing /\ Found(Decl.src) /\ NestedCount(Decl.src) >= MaxNested
  /\ \E some \in SUBSET Needed, edges \in SUBSET Nested : Abandon(WithRows(db, some, edges))

NoAsset ==
  /\ Ready
  /\ \/ ~Accepted(db, Decl) /\ Abandon(db)
     \/ /\ Accepted(db, Decl) /\ ~FreshRT(db, Sig, Used)
        /\ \E some \in SUBSET Used : Abandon(Inserted(db, Asset, Decl, Sig, some))
     \/ /\ Accepted(db, Decl) /\ FreshRT(db, Sig, Used) /\ ~Compiles(db, Decl, Sig)
        /\ Abandon(Inserted(db, Asset, Decl, Sig, Used))

(* The resources that changed files needed and nobody needs now, one by    *)
(* one in the order of their UIDs.                                         *)
CleanUp(d, candidates) ==
  LET after[n \in 0..Len(Uids)] ==
        IF n = 0 THEN d
        ELSE IF Uids[n] \in candidates /\ \A e \in after[n - 1].depends : e[2] # Uids[n]
        THEN DeleteRows(after[n - 1], {Uids[n]})
        ELSE after[n - 1]
  IN  after[Len(Uids)]

(* Mutant: without those that need them.                                   *)
UpdatedAssets_alone(d) ==
  LET new == {a \in DOMAIN job.touched :
                a \in DOMAIN backup.assets => backup.assets[a] # job.touched[a]}
  IN  new

(* The assets that were built and have a signature the backup does not     *)
(* give them, and all that need one of these.                              *)
UpdatedAssets(d) ==
  LET new == {a \in DOMAIN job.touched :
                a \in DOMAIN backup.assets => backup.assets[a] # job.touched[a]}
  IN  Users(d.depends, new) \intersect DOMAIN d.assets

Finish ==
  /\ phase = "build" /\ job.stack = <<>> /\ job.todo = {}
  /\ db' = CleanUp(db, job.oldRes)
  /\ updated' = (IF job.first THEN {} ELSE UpdatedAssets(CleanUp(db, job.oldRes)))
  /\ phase' = "idle" /\ job' = NoJob
  /\ outcome' = [outcome EXCEPT !.ok = TRUE, !.complete = @ \/ job.first]
  /\ UNCHANGED <<files, clock, backup, bin, hasDb>>

BuilderNext ==
  \/ \E f \in Files : Change(f)
  \/ Begin \/ ScanRow \/ DropSignatures \/ NextIni \/ ParseIni \/ Include
  \/ NeedResource \/ MakeAsset \/ CloseIni \/ NoFile \/ TooManyNested \/ NoAsset \/ Finish

BuilderSpec == BuilderInit /\ [][BuilderNext]_builderVars
-----------------------------------------------------------------------------
(* What a build of everything would give for the files as they are.        *)

Declared ==
  UNION {{<<i, d>> : d \in ToSet(files[i].text.declare)} :
           i \in {f \in Inis : Exists(files, f) /\ files[f].text # Bad}}
FullUses(decl) == {<<p[1], p[2].rtname>> : p \in {q \in Declared : q[2].rtname \in decl.uses}}
FullSig(decl) ==
  [param |-> decl.param, used |-> FullUses(decl),
   rows |-> {<<f, files[f].time>> : f \in SourcesOf(decl)}]
FullAssets ==
  [a \in {<<p[1], p[2].rtname>> : p \in Declared} |->
     FullSig((CHOOSE p \in Declared : p[1] = a[1] /\ p[2].rtname = a[2])[2])]

AtRest == phase = "idle" /\ outcome.ok /\ outcome.complete
NothingChanged == \A f \in DOMAIN db.res : db.res[f] = files[f].time
NothingToDo == NothingChanged /\ \A i \in Inis : Exists(files, i) => i \in DOMAIN db.res

(* A build may find nothing to do only when nothing is out of date: the    *)
(* assets, the signatures, what they need at run time and the files are    *)
(* then those a build of everything would make, of the data there is now,  *)
(* whatever changed during the builds before, as long as each change of a  *)
(* file with a row gave it another time than the row's and no build missed *)
(* a file that a source includes (priv_build).  It is said of projects in  *)
(* which a .gosasset_d includes those whose assets it refers to; of the    *)
(* others InDbMeansBuilt says what goes wrong.                             *)
NothingToDoMeansUpToDate ==
  AtRest /\ NothingToDo /\ ~outcome.hidden /\ ~outcome.missed =>
    /\ db.assets = FullAssets
    /\ db.sigs = Range(FullAssets)
    /\ db.sigsRT = UNION {{<<FullAssets[a], FullAssets[b]>> : b \in FullAssets[a].used} : a \in DOMAIN FullAssets}
    /\ \A a \in DOMAIN FullAssets :
         /\ FullAssets[a] \in DOMAIN bin
         /\ bin[FullAssets[a]] = [sources |-> {<<r[1], files[r[1]].data>> : r \in FullAssets[a].rows},
                                 sigs |-> {FullAssets[b] : b \in FullAssets[a].used}]

(* A successful build during which nothing changed leaves no row behind    *)
(* its file, so that the next one is not sent over the same files again    *)
(* (priv_resource_scan_DB).                                                *)
QuietBuildSettles == AtRest /\ outcome.quiet => NothingChanged

(* After a successful build the signatures are those of the assets, though *)
(* assets share signatures and come and go.  Unless a build has failed the *)
(* files are theirs, neither more nor less, whatever times files have;     *)
(* after a failure each signature still has its file, unless a file that   *)
(* had changed has got back the time of its row (signature_is_still_in_    *)
(* use, and the database that comes back without the files).               *)
FilesBuilt ==
  AtRest => /\ db.sigs = Range(db.assets)
            /\ ~outcome.undone => db.sigs \subseteq DOMAIN bin
            /\ ~outcome.failed => DOMAIN bin = db.sigs

(* The list of updated assets is exactly that of the assets that are new   *)
(* or stand, at any depth, on one whose signature is not what it was: the  *)
(* monitor tells its clients to load these again and no others             *)
(* (build_result_list).                                                    *)
Content(d, a) == {<<b, d.assets[b]>> : b \in Needs(d.depends, {a}) \intersect DOMAIN d.assets}
UpdatedExactly ==
  AtRest /\ backup # EmptyDb =>
    updated = {a \in DOMAIN db.assets :
                 a \in DOMAIN backup.assets => Content(db, a) # Content(backup, a)}

(* What priv_gosassetd_build says of a .gosasset_d that has a row: that it *)
(* has been built, so its assets are in the database.                      *)
InDbMeansBuilt ==
  AtRest /\ NothingToDo =>
    \A p \in Declared : p[1] \in DOMAIN db.res => <<p[1], p[2].rtname>> \in DOMAIN db.assets
=============================================================================
