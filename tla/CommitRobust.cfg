CONSTANTS
  personal = personal
  shared = shared
  fact = fact
  factUntil = factUntil
  rule = rule
  X = X
  Implicit = Implicit
  Namespaces <- MCNamespaces
  Clauses <- MCClauses
  OperationIds <- MCOperationIds
  Until <- MCUntil
  Forbidden <- MCForbidden
  Requests <- WritingCalls
  Procs = {p1, p2}
  LongLived = {p1, p2}
  MaxJournalEntries = 2
  MaxFailures = 2
  CleanupCanFail = TRUE
  StatCanFail = FALSE
  NoFile = NoFile
  Torn = Torn
  Free = Free
  Abandoned = Abandoned
  Construct = Construct
  Snapshot = Snapshot
SPECIFICATION Spec
INVARIANTS RecoverySucceeds SnapshotConsistent OncePerOperation
PROPERTIES OnlyCommitsChange ImplementsSettled
CHECK_DEADLOCK FALSE
