SPECIFICATION FairSpec
CONSTANTS
  NGen = 3
  NSurvive = 1
  NField = 2
  NRoot = 2
  NExt = 0
  Upto = {1, 2}
  MlogEnabled = TRUE
  LogCap = 4
  Sanitize = TRUE
  DebugBuild = FALSE
  Acyclic = TRUE
  MaxObjs = 2
  MaxLog = 1
  Nil = Nil
INVARIANT AgeGeneration
PROPERTIES HeapKept Terminates
