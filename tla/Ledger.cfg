CONSTANTS
  p1 = p1
  p2 = p2
  Procs = {p1, p2}
  Interactive = {"cli"}
  Refs = {"main"}
  Main = "main"
  Labels = {"v1"}
  Baseline = "baseline"
  NoLabel = "none"
  OperationIds = {a, b}
  Broken = {1}
  MaxHead = 1
  MaxVersions = 3
  MaxDecisions = 2
  a = a
  b = b
  Absent = Absent
  Refused = Refused
SPECIFICATION Spec
INVARIANTS RefsGated RefsChained OncePerOperation RetriesAnswered
SYMMETRY Alike
CHECK_DEADLOCK FALSE
