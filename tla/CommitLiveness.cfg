CONSTANTS
  personal = personal
  shared = shared
  fact = fact
  factUntil = factUntil
  rule = rule
  X = X
  Implicit = Implicit
  Namespaces <- MCNamespaces
  Clauses <- MCClauses
  OperationIds <- MCOperationIds
  Until <- MCUntil
  Forbidden <- MCForbidden
  Requests <- TwoCalls
  Procs = {p1, p2}
  LongLived = {}
  MaxJournalEntries = 1
  MaxFailures = 1
  CleanupCanFail = FALSE
  StatCanFail = TRUE
  NoFile = NoFile
  Torn = Torn
  Free = Free
  Abandoned = Abandoned
  Construct = Construct
  Snapshot = Snapshot
SPECIFICATION FairSpec
PROPERTIES PendingResolved CallsEnd
CHECK_DEADLOCK FALSE
