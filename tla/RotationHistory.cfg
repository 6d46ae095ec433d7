CONSTANTS
  personal = personal
  shared = shared
  fact = fact
  factUntil = factUntil
  rule = rule
  X = X
  weekly = weekly
  noon = noon
  Implicit = Implicit
  Namespaces <- MCNamespaces
  Clauses <- MCClauses
  OperationIds <- MCOperationIds
  Until <- MCUntil
  Forbidden <- MCForbidden
  CheckpointIds = {weekly}
  Instants = {noon}
  NoInstant = NoInstant
  Recovered = Recovered
  Absent = Absent
  Requests <- RotationCalls
  Compactions <- EveryCompaction
  MaxJournalEntries = 2
  MaxSegments = 2
  MaxTotalEntries = 4
  MaxFailures = 2
SPECIFICATION Spec
INVARIANTS ChainComplete CheckpointsExact RotationsAnswered HistoryComplete IntegrityKept
PROPERTIES RotationInvisible
CHECK_DEADLOCK FALSE
