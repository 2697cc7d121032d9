# TLA+ models of the gos engine

gos is a C++ game engine: a kernel library (`gos`: threads, queues, handles,
containers, files, sockets), an asset pipeline (`gosAsset2`, `gosDB`), a Vulkan
layer (`gosGPU`) and the engine itself (`gosEngine`). This directory models the
parts that are hardest to test: the hand-over of resources between the engine
and its loader thread, the graph of dependencies that decides what may be drawn,
the builder and the monitor that keep the assets of a project up to date, and
the threads, queues, handles, containers and allocators they stand on. Paths
below are relative to `src/engine/src/`.

## 1. Inventory

| part | state | operations | what is hard | what makes it correct |
|---|---|---|---|---|
| message queues and signals (`gos/gosThreadMsgQ.cpp`, `gos/platform/linux/linuxOSEvent.cpp`) | FIFO, mutex and event per queue, reached through a handle | createMsgQ, pushMsg, pushMsg_on_top, waitForAnEvent, popMsg, popMultipleMsg, deleteMsg, deleteMsgQ | many writers; an edge-triggered event that is consumed while messages remain; buffers owned by messages | no lost wake-up, order per sender, exactly once, no leaked buffer, DIE ends the reader |
| threads (`gosThreadMsgQ.cpp` 79-134, `linuxOSThread.cpp`) | handle and record of every thread | create, wrapper, wait_end, deinit | a thread that is refused; a handle released before the thread has ended | wait_end waits, the queue is deleted when nobody uses it, the shutdown ends |
| FIFO (`gos/gosFIFO.h`) | linked records, first, last | push, push_on_top, pop, empty | freed memory stays readable | the list is the memory owned; it is a queue |
| handles (`gos/gosHandle.h`) | chunks of records, free lists, counters | reserve, release, fromHandleToPointer | copies of handles outlive the release | free lists exact, stale handles rejected |
| FreespaceTracker (`gos/gosFreespaceTracker.cpp`) | sorted array of free ranges, a counter | alloc, free | every order of frees, merges on both sides | every block in one place, free runs maximal |
| containers (`gosFIFOFixedSize.h`, `gosObjectPool.h`, `gosHashMap.h`, `gosUniqueSortedList.h`, `gosSparseSet.h`) | arrays, lists threaded through memory, pages | push and pop, alloc and free, insert, find and remove, iterate | wrap, full and empty; a page that has just gone; removal under an iterator | the container is the queue, set or map it stands for |
| MemManager (`gosEngine/res2/MemManager.cpp`) | pages of slots, a guard | reserve, get, release | handles of 3 guard bits; a stale handle that points into a larger descriptor | a stale handle resolves only after the guard has gone round |
| buffer managers, texture array (`gosEngine_vtxBufferMan.cpp`, `gosEngine_idxBufferMan.cpp`, `gosEngine_dynTextureArray.cpp`) | GPU buffers cut into blocks; a bit per texture index | reserve, release; add, remove | offsets must be multiples of element sizes; indices are reused | no shape shows another's elements, no index shows another's texture |
| resource graph (`gosEngine/res2/res2.cpp`) | status, counters, parents and children per descriptor | add_child, remove_child, change_state, inc_refCount, release, destroy | propagation over a shared graph | counters equal unready children, edges mirrored |
| assets and loads (`gosEngine/gosEngine.h`, `gosEngine.cpp`, `gosEngine_res2.cpp`) | known-UID maps, reference counts, two queues | create from asset, get, release, hot reload, material update, flush | loads in flight while the application releases and reloads; loads that bind further loads; failures in three places | references exact, nothing dangling, loads end, ready means loaded |
| loader thread (`gosEngine/gosEngine_res2_loaderThread_mainFN.cpp`, `res2/loaders/`) | local buffers, the conversation of each load | LOAD, LOAD_CONTINUED, LOAD_FINISHED, DIE | reads descriptors the engine owns | never sees a released descriptor |
| builder and database (`gosAsset2/gosAsset2Builder.cpp`, `gosAsset2.cpp`, `builders/`, `gosDB`) | rows of files, dependencies, assets, signatures; the files made | scan, delete, build, clean up, list of updates, backup and restore | files change under a build; assets share signatures; a build fails half-way | what looks up to date is up to date; the list of updates is exact |
| monitor, TCP server, waitable group, file watcher (`gosAsset2Monitor.cpp`, `gosServerTCP.cpp`, `linuxOSWaitableGrp.cpp`, `linuxOSFSWatcher.cpp`) | inotify descriptor, folders, timer, clients, events of the current wait | build, watch, wait, accept, notify, restart | changes during a build; a client that dies while it is told | every reported change is built, every client that stays is told |
| frames in flight (`gosGPU/utils/gosGPUMainLoop.cpp`, the swapchain of `gosGPU/gosGPU.cpp`, the loop of `gosEngine/defaultApp/gosDefaultApp.cpp`) | swapchain number, images acquired, two fences, the job being drawn | acquire, recreate, submit, present | the GPU signals when it likes; a resize makes queued and drawn images invalid | draw into and present images of the current swapchain only; none lost |
| models and entities, render pipelines, the rest of the GPU, input, allocators, text and files | see `PROJECT.json` | | | |

How they interact. The application, the engine and all callbacks run on one
thread. The engine pushes LOAD, LOAD_CONTINUED and LOAD_FINISHED on
`res2__msgq_1`; the loader thread answers FINISHED_OK, WANT_CALLBACK or
FINISHED_KO on `res2__msgq_2`, which `Engine::update` and a `get` with a timeout
flush. A message carries a pointer to the descriptor, which lives in the slots
of a MemManager; the reference count taken in `res2__get_or_schedule_load` is
what should keep it alive. When a resource becomes ready, `res2.cpp` tells its
parents, and those theirs. The database the engine reads is written by another
program, the monitor, whose clients hot reload the assets it tells them of.

The hazards, each at its line with the properties that watch it, are in
`PROJECT.json`.

## 2. Modules

| module | models | abstract specification |
|---|---|---|
| `MsgQ` | a message queue, its writers and a reader that behaves like the loader thread | `MsgChannel` |
| `Threads` | creation, end and shutdown of the threads around that queue | `MsgQ` |
| `Fifo` | `TemplateFIFO` in memory | `Deque` |
| `FixedFifo` | `FIFOFixedSize` | `LossyQueue` |
| `Queues` | the two queues together: what both must say of themselves | - |
| `HandleList`, `ObjectPool`, `SortedMap`, `SparseSet` | the containers of these names | stated as invariants over a history variable |
| `FreeRanges` | the free list of a FreespaceTracker, as operators | - |
| `FreespaceTracker` | a tracker and its clients | `Space` |
| `MemManager`, `BufferMan` | descriptors and shapes placed by trackers, over `FreeRanges` | - |
| `TextureArray` | `DynamicTextureArray` and the textures in it | - |
| `Frames` | the main loop of the GPU, the swapchain and the loop that draws | - |
| `Res2Graph` | the functions of `res2.cpp` as operators on a map of descriptors | - |
| `Res2` | engine, application and loader thread over that graph | - |
| `Builder` | the builder over the files and the tables of the database | - |
| `Monitor` | monitor, watcher, server and clients around the builder | - |
| `MCMsgQ`, `MCStructures`, `MCRes2`, `MCBuilder`, `MCMonitor` | instances for TLC | - |
| `MsgQ_proofs`, `Queues_proofs`, `Structures_proofs`, `Gpu_proofs`, `Res2_proofs`, `Ready_proofs`, `Builder_proofs`; `Lemmas` | theorems; lemmas that several of them cite | - |

### MsgQ and Threads

A push takes four steps, as in the code: `PushPrepare` looks up the handle and
copies the payload without a lock; `PushLink` takes the mutex and links;
`PushFire` writes the eventfd; `PushUnlock` releases. The reader waits
(`WaitForAnEvent` consumes the edge), pops up to `MaxPop` messages
(`PopMultipleMsg`) and handles them one by one with `deleteMsg` (`HandleMsg`);
an empty pop sends it back to sleep. `DeleteMsgQ` has the precondition the
header demands of its caller. `heap` holds the buffers the messages own.

`Threads` discharges that precondition. An owner creates the reader and the
other writers (`Create`, or `CreateFails` where the system refuses one), pushes,
pushes DIE, waits for each thread (`StartWaiting`, `WaitEnd`), deletes the queue
(`OwnerDeletes`, without any precondition about the other threads) and shuts the
library down (`Deinit`): the order of `Engine::unsetup` and `gos::deinit`. A
thread leaves in the three steps of its wrapper: back from its function, handle
released, gone. The steps of the queue are those of `MsgQ`, and
`QueueUsedAsMsgQ` says that whatever the threads do is a behaviour of `MsgQ`.
The handle list of the threads is a set: `HandleList` models it.

### Containers and allocators

Sequential components: one action per operation, and the client's behaviour is
every legal order of calls. Where memory that was freed or never written can
be read, its content is kept. History variables say what the container must
mean: who uses which record (`HandleList`), which objects are held
(`ObjectPool`), what was inserted (`SortedMap`), what the iterator returned
(`SparseSet`), which handles are stale (`MemManager`).

`FreeRanges` follows the code's case analysis of `priv__free`; the tracker, the
MemManager and the buffer managers use it. `priv_tryMerge` calls itself after a
merge; what it does is written without recursion: `Touches` finds the entries
around the given one that follow each other without a gap, and `TryMerge`
replaces them by one. The list of a `Fifo` is what following the links from the
first record visits (`Along`); the search of `SortedMap` is a recursive function
of the range that is left, `sSearchRange` in the code.
A request of 0 bytes is left out, no caller makes it. `BufferMan` is the vertex
and the index buffer manager (one code twice) with the shapes built over it.
`TextureArray` has the creation and destruction of the textures in its actions,
because `add_if_dont_exists` is called from there only.

### Frames

`step` is where the loop of the application is: `Engine::update`, then
`MainLoop2::run` (acquire, wait for the fence, drop the images of a swapchain
that is gone, look at the job), the cameras, and the submission if
`gfxJob_canSubmit`. An image is its index and the `swapchainAutoID` under which
it was acquired; the code keeps the index only, and the second is what the
properties are about. `SignalAcquired` and `SignalJob` are Vulkan's, at any
moment; what Vulkan answers to an acquire is any image not in use, with or
without the advice to make the swapchain again, nothing yet, or that it is out
of date. Time is abstract: a scheduled recreation may or may not have come due.
`priv_swapChain_recreate` waits for the GPU, so a pending job is then signaled,
and handles window events, which may schedule the next one. `acquiredList` is a
plain sequence: it never holds more than two of its four places, and a
`FixedFifo` below its capacity is the queue its theorem says it is.

### Res2Graph and Res2

`mem` maps a UID to its descriptor; "free" is a descriptor that does not exist.
The hash maps of known UIDs are set and cleared together with the descriptor,
hence `Known`. An asset is a parent with one child, the resource its signature
names, which `db`, the external database, decides and may change. `AddChild`,
`RemoveChild`, `ChangeState` and the propagation are translated function by
function, the loop of `remove_child` with its unmoved trailing pointer included.
The functions of the code that follow the graph call themselves. Here each takes
the function it calls for the next descriptor as an argument (`schedule`,
`release`, `inform`), `Each` is a loop over a list, and a recursive function of the
number of steps left ties the knot (`ScheduleLoad`, `Released`, `InformReady`,
`InformNotReady`); after `Depth` steps it stops. That bound is never met, by
`LayerAssumption`: every resource lies in one of `Depth` layers, above what its
signature names or its file binds. The code has the same need, since its functions
would not return on a graph with a cycle, and the assets meet it: models are over
materials, materials over textures, pipelines over shaders, and each asset over
its resource.
`GetOrScheduleLoad`, `ReleaseHandle` and `GetOrCreateAsset` are the engine's
functions; `CreateFromAsset`, `Get`, `Release`, `MaterialCreate`,
`MaterialUpdate` and `HotReload` are what the application calls; `FlushPop` and
`FlushOne` are `res2__flushLoaderThreadMsg`, one message at a time so that the
loader runs in between; `LoaderStep` is one message of the loader.

Four `Kind`s of load stand for the loaders: `direct` (shaders: no callback),
`callback` (textures, shapes, skeletons), `composite` (materials, models: the
callback binds further assets) and `pipeline` (three trips). The queues are
plain sequences; `QueueIsChannel`, proved, and the order of a single writer on
each queue justify that. A descriptor is its UID; `MemManager` justifies that.
`Apps` lists the applications a run considers, chosen at the start: which assets
each creates and polls, what it puts in materials, what it does beyond that
(create on demand, release while loads are in flight, hot reload when idle or at
any time, use materials) and which loads may fail.

### Builder and Monitor

`Builder` is one build after another over `files`, which `Change` writes,
creates and removes at any moment. A file is its time, its text and its data.
`Change` gives it new data and any time that is not ahead of the clock: two saves
in one second have one time, and a file that is moved into place brings its own,
such as that of the file that was there before. `Begin` copies the database to the backup;
`ScanRow` looks at one row of it, deletes what depends on a changed file and
lists the `.gosasset_d` files to build; `DropSignatures` deletes those nobody
uses any more; `NextIni`, `ParseIni`, `Include` and `CloseIni` read the listed
files and those they include, on a stack as the code's recursion; for each
declaration `NeedResource` reads the rows of its source and of what that
includes and `MakeAsset` writes signature, file, asset and edges; `NoFile`,
`TooManyNested` and `NoAsset` are the failures, which restore the backup; `Finish`
cleans up and makes the list of updates. A text is what the file includes and
declares. A declaration takes its data from a source (a texture, a
shader), refers to other assets by name (a material), or both. A built file
(`bin`) records the data it was made of, which is how a property can tell that it
is out of date although every time agrees. `outcome` has the history that bounds
what the builder can promise: `hidden`, a change left a file with the time its row
has; `undone`, it had another time before, so that a build would have seen it;
`missed`, an included file was not there when its row was looked for.

`Monitor` adds the thread of `Monitor::run`: build, watch the folders of the
files of the database, wait, handle the events of one wait one at a time, start
the timer at a change, and when it expires take the watcher off, build, watch
again and write the UIDs of the updated assets to the clients (`Send` is one
write, so that a client can die between two). After a client has died in that
loop, `client_getByIndex` is asked for a place past the end of the list. That is an
assertion: `AssertFails` ends the program, as a build with assertions does, and
`Send` goes on, as one without does; the list keeps what lies in memory beyond its
end, which is what is read then. `Write` is `Change` with its event: a file written
or moved is reported, one that goes is reported if it was moved away and not if it
was deleted. `Restart` is the user who stops the program and starts it
again.

## 3. Runs

Passing runs.

- `msgq`: an owner, a second writer the system may refuse, a reader, two pushes
  each of three kinds (copied and on top, by pointer, DIE), batches of two, then
  the shutdown. Two writers are enough for every interleaving of the lock and
  the event; a batch of two leaves messages both in the batch and in the queue
  when a DIE is met. The run checks the queue (no lost wake-up, buffers, order,
  the refinement of `MsgChannel`, every message is handled) and the threads
  (`ThreadsSound`, the refinement of `MsgQ`, the end of the shutdown).
- `structures`: eleven components that share no state; each behaviour is of one of
  them (`part`), so the run is the sum and not the product of the eleven. The
  constants let every list become empty and full again: three records of memory
  for the linked queue; two chunks of two records with a counter of three values and four releases each; a ring of four;
  pages of three objects; six keys searched down to two elements; three sparse
  pages, two of them with two indices and one with one; six blocks of two bytes and
  requests up to thirteen bytes, more than there are, so that ranges are split, used up and merged on one
  and on both sides and requests round up or cannot be met; two pages of three
  slots, two guards and five reservations, so that a guard goes round; buffers
  of three blocks under shapes with elements of 8, 24 and 32 bytes, one of them
  larger than a buffer; five textures for two free indices; three images, of which
  two queue and one is drawn, and two recreations of the swapchain, so that a
  second one may come before the consequences of the first are over.
- `res2_shared`: two assets, two signatures both may resolve to, one loaded
  without callback; creation on demand, releases in flight, three hot reloads at
  any moment, failures in the engine. This is the run in which everything
  collides. Reference counts and the absence of dangling references
  (`GraphSound`) and the loads in flight hold. So does `ReadyMeansLoaded`: the
  counters are wrong in some states of this run (see section 5), but never in
  the direction that makes a parent ready too early.
- `res2_apps`: two applications. One loads from files a pipeline over two
  shaders and a material both textures of which are the same asset, with two hot
  reloads while the loader is idle. The other makes a material whose two slots
  are set to the default texture and to two assets in every order while these
  load, and fail in the engine or in the loader; no reload happens there, see
  `res2_slot`. Graph, slots and pipelines are exact, and polling succeeds. The
  first application holds no shader assets of its own: with one created on
  demand and never polled, `PipelineShadersReady` fails, because
  `res2__get_or_create_asset_from_UIDs` (gosEngine.h:266-271) ignores the load
  mode of an asset that is known.
- `monitor`: a project of a texture, a shader with an include and a material
  over both, in two `.gosasset_d` files the second of which includes the first;
  two changes of files to any of their texts (an asset that takes its data from
  another source, has other parameters, shares a signature, takes a name already
  taken; a file that does not parse; a shader with one include more than the limit
  of the run allows), three files that can go and come back (a `.gosasset_d`, a
  source, an include), three builds. Two changes are needed for a change under a
  build that another change caused, and for a file that goes and comes back; three
  builds for a failed one between two that succeed. Each behaviour is one of two
  kinds (`alone`). Either the builder runs by itself and each change gives any file
  any time up to the clock's; or the monitor runs around it, with restarts and two
  clients, and the changes are of the first `.gosasset_d`, the shader and its
  include, each with a new time. The monitor carries builds out and no more
  (theorem `MonitorBuilds`), and its two properties do not look at times.
  `NothingToDoMeansUpToDate` fails in this run without either of its exceptions
  (`hidden`, `missed`), and `FilesBuilt` without its own (`undone`).

Runs that find a disagreement between the code and its own comments and checks.
Each is the smallest instance that shows it; `PROJECT.json` quotes the lines.

- `threads_deinit`: `wait_end` returns for a thread that has not freed its
  record; the allocator it frees into may be destroyed by then.
- `res2_unlink`: `remove_child` loses other parents of the child.
- `res2_zombie`: a resource released while it loads is never freed.
- `res2_finished`: the loader is told LOAD_FINISHED about a freed descriptor.
- `res2_failed`: a load that fails in the loader stays in loading for ever.
- `res2_slot`: after a hot reload a material points to the released texture.
- `builder_skipped`: a `.gosasset_d` whose asset refers by name to an asset of a
  file it does not include loses that asset when the other changes, and is
  skipped as built for ever after. In the project of `monitor` the file is
  included, so that the other properties can be seen to hold without this.

Names. Some properties gather several: `ThreadsSound` (types, what was waited
for has returned, no handle left), `QueuesSound` (both queues in memory),
`SparseSound` (set exact, iteration complete), `TrackerSound` (every block once,
sorted and coalesced), `MemSound` (types, owners resolve, pages accounted,
refused when full), `FramesSound` (the current swapchain with its own aspect
ratio, no image in two places, few forgotten, fences free), `ShapesExact`, `TexturesExact`, `SearchExact`, `GraphSound`.

Bounds. `MaxPush`, `MaxReuse`, `MaxHeld`, `MaxReload`, `MaxBytes`, `MaxReserve`,
`MaxBuffers`, `MaxPoolPages`, `MaxChains`, `MaxChanges`, `MaxBuilds` are in guards and named
as bounds where they are declared. `MaxFlush` is 16 in the code and 2 here, so
that a flush leaves messages behind. `MaxNested` is 64 in the code and 2 here. `NotReadyMod` is the code's 256, `BlockBytes`
the code's 96. `Depth` is at least the number of layers an instance has. Deadlock is checked in the runs of `Res2`. In the others the
system may stop: the program of `Threads` ends, `Monitor` and `Builder` run out of
changes and builds, the clients of the containers out of the calls their bounds
allow.

Fairness. In `Threads`: the owner goes on creating and shutting down, a thread
inside a push or back in its wrapper goes on, and the reader is scheduled; nobody
has to push. In `Res2`: the loader thread is scheduled, the engine is updated
(weak fairness of `FlushPop` and of handling a popped message), and the
application asks again, each frame, for what it draws. The last is strong
fairness, because `Get` is disabled while a flush is being handled, which the
code does inside one call of `update`: a frame always reaches its `get`s. The
fairness of `FlushOne` is written as weak fairness of `Handles`, which is the
same set of steps with a cheaper ENABLED. `Monitor` states no fairness: instead
of "every change is built at last", `SeenChangesAreOwed` says that a change that
was reported and not built is always queued, among the events at hand or behind a
running timer, so that the thread, if it goes on, must come to it.

## 4. Proofs

All are theorems of a specification without fairness, for every value of the
constants that meets the module's assumption; each proof exhibits an inductive
invariant, one lemma or step per action, and combines them with PTL. `Lemmas`
has what several proofs cite: a set of numbers that is not empty has a least
element, which is the one `Min` chooses, and what a sequence is after some of its
entries are replaced by one (`Splice`) or taken out (`Cut`).

`MsgQ_proofs`, from `MsgQAssumption` (a batch has at least one message, no
writer is the absent owner). Type correctness needs two more conjuncts:
`BatchInv` (the reader is handling exactly when its batch is not empty, so
`Head` is only taken of a batch that has one) and `WmsgInv` (a writer holds one
message exactly when it is prepared). `NoWakeupIsLost` is inductive given the
types: a link is followed by a fire of the same thread, and the reader goes to
sleep only from a pop that found the FIFO empty. `QueueIsChannel` maps every
step to a step of `MsgChannel` or to a stutter.

The same module proves the other two safety properties of the queue.
`ExactlyOnceInOrder` speaks of the messages that were linked only, and says
nothing of the one a writer is about to link; `OrderInv` adds that a prepared
writer holds its latest push, numbered above all of its messages in the trail,
and that no message in the trail is numbered above the pushes of its writer. A
link then inserts a message of which every comparison is known, at the end or
at the head of the FIFO; pop and handling leave the trail as it is.
`BuffersAccounted` follows with `OrderInv`: the buffer that `HandleMsg` frees
belongs to no other message because no message appears twice.

It then proves `Threads`, for any number of threads any of which may be refused.
`ThreadsAreSound` needs to know which threads have a handle at each stage, and
that the owner waits for nobody before it is done pushing. `QueueUsedSafely`,
for a reader that is created: every step but `OwnerDeletes` is a step of `MsgQ`
as it stands, and `OwnerDeletes` is `DeleteMsgQ` because everybody the owner has
waited for is out of a push and of the reader's loop (`UsersInv`). The theorems
about `MsgQ` then hold of a queue whose deletion nobody guards.

`Structures_proofs`, for `HandleList` from `HandleListAssumption` (sizes as the
template's static conditions demand): `FreeListExact` is strengthened by
`FreeListLinked`, which ties the code's links to the sequence the history variable
holds; from the two follow that reserve takes a record nobody uses, that release
adds one that was used, and that reserve gives up only when everything is in use.
`LiveResolves` and `StaleRejected` rest on `CounterInv`: the counter of a record is
one more than the number of its releases, modulo 2^C. For `ObjectPool` the
invariant says that a sequence of different objects exists that starts at
`freeList`, follows the links, ends, has `num_free` elements and visits the
objects nobody holds. alloc takes its first, free puts one in front (`TakeFirst`,
`PutFirst`), so no history variable is needed. `PoolExact` speaks of a recursive
function, the walk: a function that satisfies its equation exists (the one that
reads the sequence), and a least number of steps at which the walk would differ
from the sequence cannot exist.

It also has the two maps. `SparseSet`: the set is exact by cases on whether the removed element
and the one that takes its place are the same, in the same page or in a page that
goes; the iterator by an invariant that every element before its position was
returned or put there later. `SortedMap`: on a sorted array the binary search and
the scan it ends in answer the same place, the first that is not below the key,
because a range of searches that goes wrong would contain a smaller one (again a
least counterexample); insertion there and removal keep the array sorted and in
step with the history.

`Queues_proofs`. `Fifo`, from `FifoAssumption` (memory is finite and has no record
called NULL): as for the pool, a sequence of different records exists that starts at
`first`, ends at `last` and follows the links, and its records are those
allocated. `List` is then that sequence, again by the least step at which they
would differ; a push appends to it, a push on top puts one in front, a pop takes
the first, whatever the links of freed records say, and each of these is the
operation of `Deque` on the data. `FixedFifo`: `PositionsAgree` is inductive as it
stands, since both positions move on a push into a full ring; with it each
operation maps to that of `LossyQueue`, the content being read from `iPop` on,
round the end.

`Gpu_proofs`, first the free lists. One fact carries the four modules that live off
them: a list is `Exact` for a set
of blocks that are held if its ranges are sorted, leave a gap between any two and
cover exactly the other blocks. `Taken` keeps it and adds the run that was found
(`TakenExact`); `Freed` keeps it and removes the run that is given back
(`FreedExact`): an entry is inserted or extended, whatever neighbours it meets, and
`TryMerge` makes one of those that touch. `TrackerIsSound` adds that what clients hold are whole runs of
blocks, disjoint, as many as the counter says; `TrackerIsManager` maps every
operation to the step of `Space` on runs, and a refusal to a refusal: no free run
is long enough because a run of free blocks lies inside one range. `MemIsSound`
does the same per page, and ties each slot to the handle whose first it is;
`StaleResolvesOnlyAfterWrap` needs `GuardsFollow`: the guard is the number of handles
made, modulo the number of guards, and a slot that says a handle was written when
that handle, or one that many reservations later, was made. `ShapesAreExact` has a
hypothesis, `LayoutsFit`: a block is a whole number of elements of every layout.
The code chooses blocks of 32 * 3 bytes for that (gosEngine_vtxBufferMan.cpp:104), and
it holds of the layouts in use, with elements of 12, 24 and 32 bytes; without it the
division that gives a shape its first element rounds. `BlocksHeldOnce` needs no such
hypothesis.

Then textures and frames. `TextureArray`: different textures have different indices because the
first free bit is the least of a set of numbers and belongs to it. `Frames`, from
nothing but a name for no image: `FramesSound` speaks of a few steps of the loop,
and `FInv` says for every step what can be left of an old swapchain.
`AfterRecreation` is the heart of it: while `swapChain_wasRecreated` is set, the new
swapchain has given at most one image, and none before the call that made it
returns; from the moment the list has been emptied until the next acquisition ends
it stays empty. So what the list loses in that moment is old, or that one image.
`EachOnce` says that what is waited for, acquired and drawn are different images,
those of the current swapchain acquired and not presented. `FewForgotten` counts,
and the count changes with a failed submission and in that one moment only.

`Builder_proofs`, from `BuilderAssumption`, `TextsAssumption` and
`MonitorAssumption`: files and clients are finitely many, what files include and
declare are files and declarations, a source is not a `.gosasset_d`, and an asset
is not a file. `Reached`, the recursion over the dependencies, is the least set that
the edges do not leave: the nodes not reached yet become fewer, and a least number
of them with which the recursion were wrong cannot exist (`ReachedIs`). `MonitorBuilds`
maps each step of the monitor to one of the builder or to none, so the rest is
about the builder alone. `BuilderInv` has a part for each phase. Between builds, what
has no built file stands on a file that differs from its row (`LostAreStale`); this
is what a failed build leaves. It holds as long as no file that had changed gets back
the time of its row (`undone`), as one moved away and back does (section 5).
Everything else in `FilesBuilt`, and the
whole of it where no build has failed, needs nothing about times. In the scan the database is the backup less a set of rows that no edge
enters (`ScannedBut`), what is missing is out of date or still to be scanned, and the
signatures of what is gone are listed; when no row is left, everything in the
database has its file, and `DropSignatures` takes what nobody has. In the build
every asset was touched or is as it was in the backup (`TouchedGood`), and edges are
added from files or from a new asset only, so an old asset stands on what it
stood on. `BuildsTellWhatChanged` follows: the set of assets an asset stands on
differs from the backup's only if it stands on a touched one with a new signature.
A database whose first build failed is excluded, as in the properties. `ChangesAreOwed`
needs to know when the watcher is open and that a wait turns whatever is queued
into an event (`AllReadyAreEvents`). `ClientsAreTold` needs the client list: its first
`number` elements are the clients that live, each once, and what is beyond them is
left over (`ListSound`); an event under way is of a client that lives and is met once,
so that two deaths are never of the same (`EventsSound`). During a notification
(`TellingSound`) a part of the list of updated assets is done. Either the clients
before the index were told the asset under way and the others not (`Halfway`), or a
client has died, the index may be beside its place, and everybody was told what is
done, that one asset left aside (`Caught`); the number read again for the next asset
brings back `Halfway`. What is left aside only grows, and lists that agree without
fewer assets agree without more (`SiftedMore`).

`Res2_proofs`, from `GraphAssumption`, `Res2Assumption` and `LayerAssumption`: for
any finite set of assets with any versions, any kinds of load, any files that bind
others, any applications, and counters of any width. The invariant is `IInv`.

Its first part, `Sound(m, base)`, is about a graph alone: the references to each
descriptor are `base`, those from outside, plus its entries on lists of children
(`RefsExact`); a free slot is empty; whoever is listed as a parent lists the child at
least as often; and edges lead down the layers. The last two say less than that
edges are mirrored, which `remove_child` breaks (run `res2_unlink`), and are what
survives it. Each function of the graph then has one lemma: `add_child` turns a
reference of the caller into an entry, `remove_child` the reverse, a change of status
informs parents and touches counters only, and `Released` takes one reference off and
leaves the graph sound, by induction on the layer of what is released, through the
whole destruction of children and parents.

The second, `Consistent(lost)`, says what the references from outside are: the
handles of the application and the loads under way, whether in `q1`, in `q2` or in
the batch being flushed (`EngineOK`). Each signature that is loading has exactly one
load under way (`LoadingOnce`), and an asset is ready and has its one child
(`AssetsShow`). `lost` are the loads the loader gave up: FINISHED_KO names no
descriptor (run `res2_failed`), so their references stay for ever. They are a
witness of the proof, not of the specification.

`ResourcesTyped` and `NothingDangles` follow without any hypothesis, for every
behaviour. That is the claim of the code that its comment makes
(gosEngine_res2.cpp:214): nothing the engine still needs is freed, neither by a
release in flight nor by a hot reload. `GraphIsSound` and `LoadsInFlightOnce` need
`LoaderSucceeds`, that no load fails in the loader (loads may fail in the engine):
a lost load is a reference without an owner, and a load that never ends.
`LiveOnesAreOwned` is about applications that are `Calm`: they release and reload
only while nothing is in flight, because the others leave descriptors without owner
(run `res2_zombie`), and make no materials. A lost load then keeps its reference, so
that the theorem holds where loads fail. `SlotsOwnTheirData` excludes hot reloads,
which leave slots behind (run `res2_slot`); it needs to know which of a material's two
children is the one of each slot (`MaterialsShow`), the same texture in both slots
included, for `UpdateTexture` releases the first child that owns the data.

`Ready_proofs` adds what `is_ready` says. `ReadyIsLoaded`: a resource that is ready
stands on resources that are ready, at any depth, failures, releases in flight and
loads asked for twice included. A counter of children that are not ready may be
wrong (section 5), but only in one direction, and that is the invariant `Trust`. Its
part `Honest` is about the graph: each counter is at least the number of children
that are not ready (`Covers`); it stays below the width of a u8 (`Room`), for a
counter that wraps to zero would make its resource ready; and what is not loaded
has no children (`Blank`). Its part `MailOK` is about the messages: an answer that
will bind children is about a resource that has none yet, so the counter it sets is
of that list alone. Each function of the graph keeps `Honest`; the hard cases are
those in which a status changes, where all parents must be told, once for each
entry on a list. `remove_child` may have dropped a parent that still lists the child.
That does no harm while children only become ready: the parent waits for ever. It
does when a child stops being ready: the parent is not told and stays ready. A
material given another texture may stop being ready, but is on no list (`Unlisted`);
an asset that is hot reloaded may be on some. Hence the hypothesis `Fits`:
`CountersFit`, that the numbers of children a file can bind fit the counter; and that
the application either reloads nothing (`NoReload`) or only what hangs below nothing
(`OnTop`), so rarely that the counters of the assets, which each reload may leave one
too high, cannot reach 256. `res2_shared` is such an application, of the second kind, with
reloads of what is not ready. The first kind is every application without hot
reload, with any materials and pipelines.

Model-checked only. Liveness (`EveryMessageHandled`, `ShutdownEnds`,
`EveryLoadEnds`, `PolledBecomesReady`): fairness is out of the prover's reach.
`NothingToDoMeansUpToDate`: it compares the database with a build of everything for
the files as they are, and needs an invariant that says what each row, edge and
signature was made of at every step of a build. Of `Res2`: `EdgesMirrored`,
`CountersExact` and `PipelineShadersReady` do not hold of every application, because
`remove_child` loses parents, a hot reload of what is not ready loses count (section
5) and an asset created on demand is not loaded when it is bound (section 3).
The runs say for which applications they were found to hold. `LiveIsOwned` for applications
that make materials is left to `res2_apps` too.

## 5. What the models say about the code

Besides the runs above, some facts follow from the same mechanisms.

- When an asset is hot reloaded while its old resource is not ready,
  `remove_child` can make the asset ready without telling the parents
  (res2.cpp:334-338), so that `num_child_not_ready` of a material above counts
  one child twice: adding `hotReloadUnready` to the second application of
  `res2_apps` violates `CountersExact`. The counter is a u8 (res2.cpp:155): a
  drift of that kind repeated 256 times wraps.
- The watcher is off from the start of a build until the clients have been told: a
  change made then, to a file the build has read already, waits for the next
  reported change. Nothing in the code can see it sooner.
- A file is known by the second of its last change (linuxOSFS.cpp:105-111), and any
  other second counts as a change, an earlier one too (gosAsset2Builder.cpp:753-754).
  So a file replaced by an older one is built again, but a source saved twice in one
  second, with a build in between, is not, and what was built of it stays old.
- A failed build restores the database but not the files of the signatures it has
  deleted (gosAsset2Builder.cpp:446-455, 392-399). The only sign of that is the row of
  the file that had changed. If a source is moved away, a build fails, and the source
  is moved back with its old time, the next build finds nothing to do and succeeds,
  over a signature without its file; and an asset built again with that signature is
  taken for already built.
- An included file that is missing when `prot_needResource` reads the rows of a
  source, and back when the shader compiles, gets no row and no edge
  (gosAsset2BuilderInterface.cpp:119-124): its changes are not seen until the
  source that includes it changes. `NothingToDoMeansUpToDate` leaves such
  databases aside (`missed`).
- Source files that include each other make `priv_do_needResource` call itself until
  its place in `list_of_nested_resources` is past the end: the limit is looked at
  after the call returns (gosAsset2BuilderInterface.cpp:120-130).
- When a client dies while the monitor writes to it, the others move down the list
  under the loop, one is passed over, and the loop asks for a position past the end.
  `queryElem` asserts that nobody does (gosFastArray.h:101, gosServerTCP.h:117), and a
  build with assertions ends there. Without assertions an old handle is read there: a client may be sent the same
  asset twice, or not at all. Only the asset being sent is affected (`spoilt`).
  `EveryClientTold` speaks of the notifications that come to their end.
- When the time for a new swapchain has come, `GPU::swapChain_acquireImage` makes it
  and acquires an image of it in the same call. `swapChain_wasRecreated` stays true
  until the next image is asked for, so that `MainLoop2::run` drops that image with
  the old ones (gosGPUMainLoop.cpp:223) and it is never presented: one image fewer
  goes round until the swapchain is made again. A submission that fails forgets its
  image too. `FewForgotten` bounds the loss by exactly these two.

## 6. Not modelled, and why

In the models that exist. Resources: file contents, pixel and vertex data; GPU
objects created in the callbacks; signatures and default textures bound by a
file (only asset UIDs are bound); the pool of list nodes (`ObjectPool` by
itself); the data race between loader and engine on the lists of a pipeline;
shutdown with loads in flight; model instances and skeletons; the failure of a
pipeline after it has bound its shaders, which is in the model but in no run.
Threads: the serialisation of messages, which changes no state; the race of
several threads on `threadHandleList`, which they reserve and release without a
lock (gosThreadMsgQ.cpp:98, 109, 120) and which is a set here. Descriptors: of the
words after the first, which `MemManager` never reads but through an old handle, it
is assumed that no pointer, number or size in them has the bits of a handle to the
slot it stands in. Buffers: a GPU that refuses to make one.

Builder: aliases, anonymous and inline sections, the classes of asset, the edges
between the database and hash lists of signatures; the SQL; failures to open or
copy the database. Files that include each other are excluded, because the code
does not end on them. A build that is killed in the middle leaves half a database, and is left
out; a failed build restores the database but not the files it has deleted, which
is modelled. After a first build that fails, the rows it made let the next one
find nothing to do: the properties of `Builder` speak of databases a build has
completed.

Monitor: the bytes of the handshake; the client program; the events of files that
are not of the project, and of those with a name that starts with a dot, which the
watcher drops. Deletions are asked for (linuxOSFSWatcher.cpp:70) but dropped when
they come (200-206), so a deleted file gives no event in `Write`, while one that is
moved away does (171); the names of the watched folders, which are only
logged. Time: the timer may expire in any iteration of the loop.

Frames: the transfer and compute jobs and jobs that present nothing, which the loop
of the application never submits; a swapchain that cannot be made; viewports and render
targets resized with it; statistics.

Not at all: the objects of Vulkan, render pipelines, input, mathematics, geometry,
images: data for the GPU or floating-point computation, with no protocol of their own. Text,
files and data blobs: parsing and formatting. The heaps: the allocator is the
vendored one of Doug Lea, and SQLite, spirv-reflect and stb are vendored too. The
plain arrays, the bit field, the LIFO and the sparse buffer are used as
sequences and sets by the other models.

## 7. What is left to do

1. `Models`: models, skeletons and instances over `Res2Graph`, hot reload of
   a model under an instance; the shutdown of the engine with loads in flight.
2. The entity registry over `SparseSet` and `SortedMap`.
3. The client of the monitor, composed with `Res2`: from a changed file to a hot
   reload.
4. Proofs: `CountersExact` and `EdgesMirrored` for applications in which
   every asset is referred to once, where `remove_child` loses no parent;
   `NothingToDoMeansUpToDate`, for which `BuilderInv` has to say what each row and
   edge was made of.
