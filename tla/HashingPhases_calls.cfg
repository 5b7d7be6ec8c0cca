SPECIFICATION PhasesSpec
CONSTANTS
  NumFiles = 4
  Large <- TwoLarge
  NumProcesses = 1
  MaxLarge = 1
  PoolMayBreak = TRUE
  PartialFiles = 3
  PartialLarge <- SizeGroup
  NumThreads = 3
  MaxFd = 2
INVARIANTS PhasesTypeOK InflightBounded LargeSlotsKept DigestsReturned
  PartialFilesBounded PartialReturns
PROPERTIES PhasesEnd
CHECK_DEADLOCK FALSE
