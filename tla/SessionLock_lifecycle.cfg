SPECIFICATION FairSpec
CONSTANTS
  p1 = p1  p2 = p2  p3 = p3
  Procs <- ThreeProcs
  TTL = 2
  MaxSessions = 2
INVARIANTS TypeOK HolderKeepsLock FreshScansExclusive RowFollowsScan
PROPERTIES LockNeverStuck
