CONSTANTS
  p1 = p1
  p2 = p2
  p3 = p3
  Procs = {p1, p2}
  CanCrash = TRUE
  CanOutlast = TRUE
  NoFile = NoFile
SPECIFICATION LockFairSpec
PROPERTIES WaitEnds SpinsOnlyOvertaken AbandonedLockFreed
CHECK_DEADLOCK FALSE
