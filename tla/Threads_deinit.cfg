CONSTANTS
  Writers = {w1}
  MaxPush = 1
  MaxPop = 2
  Bodies <- EngineBodies
  NoOwner = NoOwner
  Owner = w1
  ReadingThread = reader
  MayFail = {}
  Nobody = Nobody
SPECIFICATION ThreadsSpec
CHECK_DEADLOCK FALSE
INVARIANT AllocatorEmptyAtDeinit
