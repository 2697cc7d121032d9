CONSTANTS
  Writers = {w1, w2}
  MaxPush = 2
  MaxPop = 2
  Bodies <- EngineBodies
  NoOwner = NoOwner
  Owner = w1
  ReadingThread = reader
  MayFail = {w2}
  Nobody = Nobody
SPECIFICATION ThreadsFairSpec
CHECK_DEADLOCK FALSE
INVARIANTS NoLostWakeup BuffersAccounted ExactlyOnceInOrder ThreadsSound
PROPERTIES ImplementsChannel EveryMessageHandled QueueUsedAsMsgQ ShutdownEnds
