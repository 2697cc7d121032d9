---------------------------- MODULE MCStructures -----------------------------
(* The containers and allocators of gos and of the engine and the frames   *)
(* of the GPU, one of them in a behaviour: they share no state.            *)
EXTENDS HandleList, Queues, ObjectPool, SortedMap, SparseSet,
        FreespaceTracker, MemManager, BufferMan, TextureArray, Frames

VARIABLE part

structuresVars == <<part, vars, fifoVars, fixedVars, poolVars, mapVars, sparseVars,
                    trackerVars, memVars, bufVars, textureVars, framesVars>>

(* The layouts in use: a flat position (lines), position and normal        *)
(* (prefabs), position, normal and texture coordinates (models).  A piece  *)
(* of a block, exactly two blocks, more than a buffer.                     *)
SomeShapes == {[num |-> 4, elem |-> 8], [num |-> 2, elem |-> 24],
               [num |-> 6, elem |-> 32], [num |-> 10, elem |-> 32]}

(* Memory that nobody has written matters to the queue that is used only.  *)
StructuresInit ==
  /\ part \in {"handles", "fifo", "fixed", "pool", "map", "sparse",
               "tracker", "manager", "buffers", "textures", "frames"}
  /\ Init /\ FifoInit /\ FixedInit /\ PoolInit /\ MapInit /\ SparseInit
  /\ TrackerInit /\ MemInit /\ BufInit /\ TextureInit /\ FramesInit
  /\ part # "fifo" => data = [r \in Records |-> CHOOSE d \in Data : TRUE]
  /\ part # "fixed" => blob = [c \in Cells |-> CHOOSE v \in Values : TRUE]

Others ==
  /\ UNCHANGED part
  /\ IF part = "handles" THEN TRUE ELSE UNCHANGED vars
  /\ IF part = "fifo" THEN TRUE ELSE UNCHANGED fifoVars
  /\ IF part = "fixed" THEN TRUE ELSE UNCHANGED fixedVars
  /\ IF part = "pool" THEN TRUE ELSE UNCHANGED poolVars
  /\ IF part = "map" THEN TRUE ELSE UNCHANGED mapVars
  /\ IF part = "sparse" THEN TRUE ELSE UNCHANGED sparseVars
  /\ IF part = "tracker" THEN TRUE ELSE UNCHANGED trackerVars
  /\ IF part = "manager" THEN TRUE ELSE UNCHANGED memVars
  /\ IF part = "buffers" THEN TRUE ELSE UNCHANGED bufVars
  /\ IF part = "textures" THEN TRUE ELSE UNCHANGED textureVars
  /\ IF part = "frames" THEN TRUE ELSE UNCHANGED framesVars

StructuresNext ==
  /\ \/ part = "handles" /\ Next
     \/ part = "fifo" /\ FifoNext
     \/ part = "fixed" /\ FixedNext
     \/ part = "pool" /\ PoolNext
     \/ part = "map" /\ MapNext
     \/ part = "sparse" /\ SparseNext
     \/ part = "tracker" /\ TrackerNext
     \/ part = "manager" /\ MemNext
     \/ part = "buffers" /\ BufNext
     \/ part = "textures" /\ TextureNext
     \/ part = "frames" /\ FramesNext
  /\ Others

StructuresSpec == StructuresInit /\ [][StructuresNext]_structuresVars
=============================================================================
