------------------------------- MODULE Frames --------------------------------
(***************************************************************************)
(* The frames in flight: MainLoop2, its AquireSwapChainImage and GFXJob    *)
(* (gosGPUMainLoop.cpp), the swapchain of GPU (gosGPU.cpp) and the loop of *)
(* the default application, which draws.  The GPU signals fences whenever  *)
(* it likes, the window is resized whenever the user likes, and a new      *)
(* swapchain makes every image of the old one invalid.  acquiredList is a  *)
(* FixedFifo that never gets full.                                         *)
(***************************************************************************)
EXTENDS Naturals, Sequences, FiniteSets, SequencesExt

CONSTANTS Images,    \* the indices of the images of a swapchain
          MaxChains, \* bound: swapchains made
          NoImage

ASSUME FramesAssumption == NoImage \notin Images /\ MaxChains \in Nat \ {0}

VARIABLES
  step,         \* where the loop of the application is
  chain,        \* swapchainAutoID
  recreated,    \* bSwapChainRecreatedDuringThisFrame
  due,          \* timeToRecreateSwapchain_msec is set
  acquire,      \* stato and acquiredImg of AquireSwapChainImage
  acquireFence,
  acquired,     \* acquiredList
  job,          \* GFXJob: [busy, img, chain], chain being its swapChainAutoID
  jobFence,
  jobFinished,  \* gfxJobFinished
  aspect,       \* the swapchain whose aspect ratio the cameras have
  ours,         \* history: images of the current swapchain acquired and not presented
  failures,     \* history: submissions that failed since the swapchain was made
  scheduled     \* history: it was made when the time for it had come

gpuVars == <<chain, recreated, due, ours, failures, scheduled>>
loopVars == <<acquire, acquired, job, jobFinished, aspect>>
framesVars == <<step, gpuVars, loopVars, acquireFence, jobFence>>

Image(i) == [image |-> i, chain |-> chain]
None == [image |-> NoImage, chain |-> 0]

FramesInit ==
  /\ step = "update"
  /\ chain = 1 /\ recreated = FALSE /\ due = FALSE
  /\ acquire = [state |-> "idle", img |-> None] /\ acquireFence = "reset"
  /\ acquired = <<>>
  /\ job = [busy |-> FALSE, img |-> None, chain |-> 0] /\ jobFence = "reset"
  /\ jobFinished = TRUE /\ aspect = 1
  /\ ours = {} /\ failures = 0 /\ scheduled = FALSE
-----------------------------------------------------------------------------
(* The GPU and the user.                                                   *)

SignalAcquired ==
  /\ acquireFence = "pending" /\ acquireFence' = "signaled"
  /\ UNCHANGED <<step, gpuVars, loopVars, jobFence>>

SignalJob ==
  /\ jobFence = "pending" /\ jobFence' = "signaled"
  /\ UNCHANGED <<step, gpuVars, loopVars, acquireFence>>

(* _internal__onWindowResized and vsync_enable, from Engine::update and    *)
(* from what the application does in a frame.                              *)
Resized ==
  /\ step \in {"update", "draw"} /\ due' = TRUE
  /\ UNCHANGED <<step, chain, recreated, ours, failures, scheduled, loopVars, acquireFence, jobFence>>
-----------------------------------------------------------------------------
(* MainLoop2::run.                                                         *)

RunBegins ==
  /\ step = "update"
  /\ step' = IF Len(acquired) >= 2 THEN "stale"
             ELSE IF acquire.state = "waitingFence" THEN "fence" ELSE "acquire"
  /\ acquire' = IF step' = "acquire" THEN [acquire EXCEPT !.state = "acquiring"] ELSE acquire
  /\ UNCHANGED <<gpuVars, acquired, job, jobFinished, aspect, acquireFence, jobFence>>

(* priv_swapChain_recreate waits until the GPU is idle, and handles the    *)
(* events of a window without size.                                        *)
Recreate(dueBefore) ==
  /\ chain < MaxChains
  /\ chain' = chain + 1 /\ recreated' = TRUE
  /\ due' \in {dueBefore, TRUE}
  /\ jobFence' = IF jobFence = "pending" THEN "signaled" ELSE jobFence
  /\ ours' = {} /\ failures' = 0

(* swapChain_acquireImage, up to the call of Vulkan.                       *)
NotYetTime ==
  /\ step = "acquire" /\ due
  /\ recreated' = FALSE /\ step' = "stale"
  /\ UNCHANGED <<chain, due, ours, failures, scheduled, loopVars, acquireFence, jobFence>>

RecreateInTime ==
  /\ step = "acquire" /\ due
  /\ Recreate(FALSE) /\ scheduled' = TRUE
  /\ step' = "image"
  /\ UNCHANGED <<loopVars, acquireFence>>

NothingDue ==
  /\ step = "acquire" /\ ~due
  /\ recreated' = FALSE /\ step' = "image"
  /\ UNCHANGED <<chain, due, ours, failures, scheduled, loopVars, acquireFence, jobFence>>

(* What Vulkan answers: an image, with which it may say that the swapchain *)
(* should be made again.                                                   *)
GotImage(i) ==
  /\ step = "image" /\ i \notin ours
  /\ ours' = ours \union {i}
  /\ due' \in {due, TRUE}
  /\ acquire' = [state |-> "waitingFence", img |-> Image(i)]
  /\ acquireFence' = "pending"
  /\ step' = "fence"
  /\ UNCHANGED <<chain, recreated, failures, scheduled, acquired, job, jobFinished, aspect, jobFence>>

NoImageYet ==
  /\ step = "image" /\ step' = "stale"
  /\ acquire' = [acquire EXCEPT !.img = None]
  /\ UNCHANGED <<gpuVars, acquired, job, jobFinished, aspect, acquireFence, jobFence>>

OutOfDate ==
  /\ step = "image" /\ Recreate(due) /\ scheduled' = FALSE
  /\ acquire' = [acquire EXCEPT !.img = None]
  /\ step' = "stale"
  /\ UNCHANGED <<acquired, job, jobFinished, aspect, acquireFence>>

AcquireFinished ==
  /\ step = "fence" /\ acquireFence = "signaled"
  /\ acquireFence' = "reset"
  /\ acquire' = [acquire EXCEPT !.state = "idle"]
  /\ acquired' = Append(acquired, acquire.img)
  /\ step' = "stale"
  /\ UNCHANGED <<gpuVars, job, jobFinished, aspect, jobFence>>

StillWaiting ==
  /\ step = "fence" /\ acquireFence = "pending" /\ step' = "stale"
  /\ UNCHANGED <<gpuVars, loopVars, acquireFence, jobFence>>

(* Mutant: the images of the swapchain that is gone stay in the list.      *)
DropStale_keeps ==
  /\ step = "stale" /\ step' = "job"
  /\ UNCHANGED <<gpuVars, loopVars, acquireFence, jobFence>>

DropStale ==
  /\ step = "stale" /\ step' = "job"
  /\ acquired' = IF recreated THEN <<>> ELSE acquired
  /\ UNCHANGED <<gpuVars, acquire, job, jobFinished, aspect, acquireFence, jobFence>>

(* GFXJob::hasFinished: presents, unless the swapchain is not the one the  *)
(* image was submitted for.                                                *)
JobRunning ==
  /\ step = "job" /\ job.busy /\ jobFence = "pending"
  /\ jobFinished' = FALSE /\ step' = "draw"
  /\ UNCHANGED <<gpuVars, acquire, acquired, job, aspect, acquireFence, jobFence>>

JobIdle ==
  /\ step = "job" /\ ~job.busy
  /\ jobFinished' = TRUE /\ step' = "draw"
  /\ UNCHANGED <<gpuVars, acquire, acquired, job, aspect, acquireFence, jobFence>>

JobDone ==
  /\ step = "job" /\ job.busy /\ jobFence = "signaled"
  /\ jobFence' = "reset"
  /\ job' = [job EXCEPT !.busy = FALSE]
  /\ ours' = IF job.chain = chain THEN ours \ {job.img.image} ELSE ours
  /\ jobFinished' = TRUE /\ step' = "draw"
  /\ UNCHANGED <<chain, recreated, due, failures, scheduled, acquire, acquired, aspect, acquireFence>>
-----------------------------------------------------------------------------
(* The loop of the default application: the cameras follow the swapchain,  *)
(* and a frame is drawn if there is an image and the GPU is free.          *)
Cameras ==
  /\ step = "draw" /\ step' = "submit"
  /\ aspect' = IF recreated THEN chain ELSE aspect
  /\ UNCHANGED <<gpuVars, acquire, acquired, job, jobFinished, acquireFence, jobFence>>

CanSubmit == jobFinished /\ acquired # <<>>

Submit ==
  /\ step = "submit" /\ CanSubmit
  /\ acquired' = Tail(acquired)
  /\ job' = [busy |-> TRUE, img |-> Head(acquired), chain |-> chain]
  /\ jobFence' = "pending"
  /\ step' = "update"
  /\ UNCHANGED <<gpuVars, acquire, jobFinished, aspect, acquireFence>>

SubmitFails ==
  /\ step = "submit" /\ CanSubmit
  /\ acquired' = Tail(acquired)
  /\ job' = [busy |-> FALSE, img |-> Head(acquired), chain |-> chain]
  /\ failures' = failures + 1
  /\ step' = "update"
  /\ UNCHANGED <<chain, recreated, due, ours, scheduled, acquire, jobFinished, aspect, acquireFence, jobFence>>

NothingToDraw ==
  /\ step = "submit" /\ ~CanSubmit /\ step' = "update"
  /\ UNCHANGED <<gpuVars, loopVars, acquireFence, jobFence>>

FramesNext ==
  \/ SignalAcquired \/ SignalJob \/ Resized
  \/ RunBegins \/ NotYetTime \/ RecreateInTime \/ NothingDue
  \/ (\E i \in Images : GotImage(i)) \/ NoImageYet \/ OutOfDate
  \/ AcquireFinished \/ StillWaiting \/ DropStale
  \/ JobRunning \/ JobIdle \/ JobDone
  \/ Cameras \/ Submit \/ SubmitFails \/ NothingToDraw

FramesSpec == FramesInit /\ [][FramesNext]_framesVars
-----------------------------------------------------------------------------
(* Properties.                                                             *)

(* The images the program knows of: waited for, acquired, being drawn.     *)
Held == (IF acquire.state = "waitingFence" THEN <<acquire.img>> ELSE <<>>)
          \o acquired \o (IF job.busy THEN <<job.img>> ELSE <<>>)

(* A frame is drawn into an image of the current swapchain, seen by        *)
(* cameras with its aspect ratio, and presented to the swapchain it was    *)
(* acquired from or not at all.                                            *)
DrawsIntoCurrent ==
  /\ step = "submit" =>
       aspect = chain /\ \A k \in DOMAIN acquired : acquired[k].chain = chain
  /\ job.busy => job.img.chain = job.chain

(* No image is in two places, and none of the current swapchain is         *)
(* presented or drawn into unless it has been acquired.                    *)
HeldOnce ==
  /\ \A j, k \in DOMAIN Held : Held[j] = Held[k] => j = k
  /\ \A k \in DOMAIN Held : Held[k].chain = chain => Held[k].image \in ours

(* The images the program has forgotten and not given back are those of    *)
(* failed submissions, and at most one more if the swapchain was made      *)
(* again in time: the image acquired in the same call.                     *)
FewForgotten ==
  Cardinality(ours \ {Held[k].image : k \in {j \in DOMAIN Held : Held[j].chain = chain}})
    <= failures + IF scheduled THEN 1 ELSE 0

(* A fence is free when it is given to Vulkan, and the commands are        *)
(* recorded when the GPU does not execute them (priv_submit asserts it).   *)
FencesFree ==
  /\ acquireFence = "reset" <=> acquire.state # "waitingFence"
  /\ jobFence = "reset" <=> ~job.busy
  /\ step = "submit" /\ jobFinished => ~job.busy

(* Whatever the user does with the window and whenever the GPU is done,    *)
(* images, fences and swapchains are not mixed up.                         *)
FramesSound == DrawsIntoCurrent /\ HeldOnce /\ FewForgotten /\ FencesFree
=============================================================================
