SPECIFICATION VsmSpec
CONSTANTS
  Forms <- FormsMC
  Builtins <- BuiltinsMC
  Primitive <- PrimitiveMC
  Terms <- TermsMC
  Data <- DataMC
  MaxHeight = 40
  MaxForms = 2
  MaxVsmCalls = 5
CHECK_DEADLOCK FALSE
INVARIANT NestedDefineUnreachable
