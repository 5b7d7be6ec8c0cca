SPECIFICATION Spec
CONSTANTS
  NumPaths = 2
  Tol = 1
  CleanBatch = 1
  Contents <- ThreeContents
  Size <- OneSize
  Sample <- Samples
  FirstContents <- AllOne
  ReuseReport <- Either
  MTimes <- FewMTimes
  FirstMTime = 1
  MaxScans = 2
  MaxChanges = 2
  MaxCleans = 1
  MaxFaults = 1
  MaxEvents = 3
  KeepScans = 1
  ClockMaySkew = TRUE
INVARIANTS TypeOK RowsTruthful LinesTrueUnlessMisled PairsReported LatestIsLast
PROPERTIES CleanExact
CHECK_DEADLOCK FALSE
