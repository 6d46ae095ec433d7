CONSTANTS
  a = a
  b = b
  c = c
  N = N
  X = X
  Y = Y
  Z = Z
  Wildcard = Wildcard
  NoCount = NoCount
  Programs <- MCPrograms
  Variables <- MCVariables
  Plus <- MCPlus
  MaxFacts = 15
  MaxIterations = 4
  MaxAggregateRows = 3
  MaxVisits = 60
  MaxRows = 2
SPECIFICATION EngineSpec
INVARIANTS StrataLeast ProofsGrounded LimitsDeserved ModelReached
CHECK_DEADLOCK FALSE
