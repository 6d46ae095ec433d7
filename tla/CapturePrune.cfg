CONSTANTS
  personal = personal
  shared = shared
  fact = fact
  factUntil = factUntil
  rule = rule
  X = X
  Implicit = Implicit
  h1 = h1
  h2 = h2
  Namespaces <- MCNamespaces
  Clauses <- MCClauses
  OperationIds <- CaptureOperationIds
  Until <- MCUntil
  Forbidden <- MCForbidden
  Requests <- UserCalls
  Hooks <- MCHooks
  Texts = {"a", "b"}
  NoText = "none"
  Facts <- MCFacts
  DailyCap = 1
  Days = {"monday", "tuesday"}
  Stops <- EveryStop
  MaxJournalEntries = 5
  MaxFailures = 1
  MaxPrunes = 1
SPECIFICATION Spec
INVARIANTS OneModelCallPerText CapHonoured OutcomeRecorded OutcomeTrue
PROPERTIES PruneSparesAsserted
SYMMETRY RunsAlike
CHECK_DEADLOCK FALSE
