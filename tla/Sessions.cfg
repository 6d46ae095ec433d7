CONSTANTS
  p1 = p1
  p2 = p2
  Procs = {p1, p2}
  Keys = {1, 2, 3}
  Transcript <- MCTranscript
  Beginning <- MCBeginning
  Captured = {1}
  CapBytes = 5
  Budget = 2
  WindowTurns = 2
  WindowGap = 1
  WindowBytes = 3
  MaxFailures = 1
  MaxDamages = 1
  MaxForgets = 1
  MaxTroubles = 2
  NoFile = NoFile
  NoIndex = NoIndex
  Free = Free
SPECIFICATION Spec
INVARIANTS AnswerStored StoredOnce IndexExact CapHonoured
PROPERTIES CutsRecoverable TurnsKept WindowsStable
SYMMETRY ProcsAlike
CHECK_DEADLOCK FALSE
