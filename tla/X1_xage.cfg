SPECIFICATION Spec
CONSTANTS
  NGen = 2
  NSurvive = 3
  NField = 1
  NRoot = 2
  NExt = 0
  Upto = {1}
  MlogEnabled = TRUE
  LogCap = 4
  Sanitize = TRUE
  DebugBuild = FALSE
  Acyclic = TRUE
  MaxObjs = 2
  MaxLog = 1
  Nil = Nil
INVARIANT RememberedSet
