SPECIFICATION Spec
CONSTANTS
  r1 = r1  r2 = r2  u = u  v = v  w = w  x = x
  Runs <- TwoRuns
  NumGroups = 2
  Paths <- MCPaths
  Copies <- MCCopies
  Size <- MCSize
  MTime <- MCMTime
  PathLen <- MCPathLen
  Depth <- MCDepth
  Rank <- MCRank
  Strategies = {"newest", "oldest"}
  MinWastes = {0, 5}
  Removable <- Kept1
INVARIANTS TypeOK CopyKept Accounted CleanExit
SYMMETRY RunSymmetry
CHECK_DEADLOCK FALSE
