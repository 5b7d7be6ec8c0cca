SPECIFICATION Spec
CONSTANTS
  NumPaths = 2
  Tol = 1
  CleanBatch = 1
  Contents <- TwoContents
  Size <- OneSize
  Sample <- Samples
  FirstContents <- AllOne
  ReuseReport <- Never
  MTimes <- Later
  FirstMTime = 1
  MaxScans = 2
  MaxChanges = 1
  MaxCleans = 0
  MaxFaults = 0
  MaxEvents = 1
  KeepScans = 1
  ClockMaySkew = TRUE
INVARIANTS LinesTrue
CHECK_DEADLOCK FALSE
