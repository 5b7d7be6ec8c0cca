SPECIFICATION Spec
CONSTANTS
  NumFiles = 3
  Large <- ThreeLarge
  NumProcesses = 1
  MaxLarge = 2
  PoolMayBreak = FALSE
INVARIANTS WaitsForOpenFilesOnly
CHECK_DEADLOCK FALSE
