CONSTANTS
  personal = personal
  shared = shared
  fact = fact
  factUntil = factUntil
  rule = rule
  X = X
  Implicit = Implicit
  Namespaces <- MCNamespaces
  Clauses <- MCClauses
  OperationIds <- MCOperationIds
  Until <- MCUntil
  Forbidden <- MCForbidden
  Requests <- WritingCalls
  c1 = c1
  c2 = c2
  Conns = {c1, c2}
  NoTransaction = NoTransaction
  NoCall = NoCall
  MaxJournalEntries = 3
  MaxRevision = 4
  MaxFailures = 1
SPECIFICATION Spec
INVARIANTS CommittedSound
PROPERTIES NothingLost
SYMMETRY Alike
CHECK_DEADLOCK FALSE
