SPECIFICATION Spec
CONSTANTS
  NGen = 2
  NSurvive = 1
  NField = 1
  NRoot = 2
  NExt = 0
  Upto = {1, 2}
  MlogEnabled = TRUE
  LogCap = 4
  Sanitize = TRUE
  DebugBuild = FALSE
  Acyclic = FALSE
  MaxObjs = 2
  MaxLog = 1
  Nil = Nil
CHECK_DEADLOCK FALSE
INVARIANT NoCrash
