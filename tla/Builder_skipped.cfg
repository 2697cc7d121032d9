CONSTANTS
  i1 = i1
  i2 = i2
  img = img
  inc = inc
  sh = sh
  Paths <- MCPaths
  Uids <- MCLooseUids
  Inis = {i1, i2}
  Shaders = {inc, sh}
  MaxNested = 2
  Texts <- MCLooseTexts
  Bad = Bad
  NoSource = NoSource
  FirstTexts <- MCLooseFirst
  Removable = {}
  MaxChanges = 1
  MaxBuilds = 2
SPECIFICATION BuilderSpec
CHECK_DEADLOCK FALSE
INVARIANT InDbMeansBuilt
