SPECIFICATION Spec
CONSTANTS
  NGen = 3
  NSurvive = 1
  NField = 1
  NRoot = 2
  NExt = 0
  Upto = {2}
  MlogEnabled = TRUE
  LogCap = 4
  Sanitize = TRUE
  DebugBuild = FALSE
  Acyclic = TRUE
  MaxObjs = 3
  MaxLog = 2
  Nil = Nil
INVARIANTS NoDangling
