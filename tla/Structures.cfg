CONSTANTS
  NumChunk = 2  PerChunk = 2  NumCounter = 3  MaxReuse = 4
  Records = {r1, r2, r3}  Data = {a, b}  NULL = NULL  Nothing = Nothing
  N = 4  Values = {v1, v2}  NoValue = NoValue
  NumPerPage = 3  MaxPoolPages = 3
  Keys = {1, 2, 3, 4, 5, 6}  Vals = {v1, v2}  Linear = 2
  Indices = {0, 1, 2, 4, 5}  NumDataPerPage = 2
  NumBlocks = 6  BlockSize = 2  MaxBytes = 13
  NumPages = 2  SlotsPerPage = 3  Sizes = {1, 2}  Guards = 2  MaxReserve = 5
  BlocksPerBuffer = 3  Ids = {d1, d2, d3, d4}  Shapes <- SomeShapes  MaxBuffers = 3
  Textures = {t1, t2, t3, t4, t5}  NumReserved = 2  NumMax = 4
  Images = {1, 2, 3}  MaxChains = 3  NoImage = 0
SPECIFICATION StructuresSpec
CHECK_DEADLOCK FALSE
INVARIANTS FreeListExact LiveResolves StaleRejected QueuesSound
INVARIANTS PoolExact SearchExact SparseSound TrackerSound
INVARIANTS MemSound StaleOnlyAfterWrap ShapesExact TexturesExact FramesSound
PROPERTIES ImplementsDeque ImplementsLossyQueue ImplementsSpace
