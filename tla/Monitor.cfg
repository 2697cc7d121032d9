CONSTANTS
  i1 = i1
  i2 = i2
  img = img
  inc = inc
  sh = sh
  a = a
  b = b
  Clients = {a, b}
  Folder <- MCFolder
  Paths <- MCPaths
  Uids <- MCUids
  Inis = {i1, i2}
  Shaders = {inc, sh}
  MaxNested = 2
  Texts <- MCTexts
  Bad = Bad
  NoSource = NoSource
  FirstTexts <- MCFirst
  Removable = {i1, img, inc}
  MaxChanges = 2
  MaxBuilds = 3
SPECIFICATION MCSpec
CHECK_DEADLOCK FALSE
INVARIANTS NothingToDoMeansUpToDate QuietBuildSettles FilesBuilt UpdatedExactly
INVARIANTS EveryClientTold SeenChangesAreOwed
SYMMETRY Symmetry
