CONSTANTS
  p1 = p1
  p2 = p2
  p3 = p3
  Procs = {p1, p2, p3}
  CanCrash = TRUE
  CanOutlast = FALSE
  NoFile = NoFile
SPECIFICATION LockSpec
INVARIANTS MutualExclusion
CHECK_DEADLOCK FALSE
