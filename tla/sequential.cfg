SPECIFICATION MCSpec
CONSTANTS
  Key = {1, 2, 3, 4, 5, 6}
  Val = {0}
  GroupSize = 3
  LoadNum = 2
  LoadDen = 3
  Hashes <- HashesMC
  MaxGroups = 4
  Page = 2
  Reserves = {2, 6}
  Efficiency = 2
  MaxPiece = 3
  Bytes = 3
  TreeKey = {1, 2, 3, 4, 5, 6, 7}
  ValueOf <- ValueOfMC
  BpKey = {1, 2, 3, 4, 5, 6, 7, 8, 9, 10, 11}
  Bf = 4
  SizeLimit = 100
  MaxIndexed = 1
  MaxCallbacks = 3
  MaxDeferred = 3
  MaxDepth = 3
  WordZ = 2
  HeaderZ = 2
  GuardZ = 0
  PageZ = 8
  ReserveZ = 24
  SizeMod = 256
  StoreHeader = TRUE
  ReqZ <- ArenaSizes
  SuperAllocs = FALSE
  EmptyReset = TRUE
  MaxRegions = 5
  MaxResets = 3
  Forms <- FormsMC
  Builtins <- BuiltinsMC
  Primitive <- PrimitiveMC
  Terms <- TermsMC
  Data <- DataMC
  MaxHeight = 40
  MaxForms = 3
  MaxVsmCalls = 5
  Primary = {1}
  Fifo = {2, 3}
  Sorted = {4}
  Feeds <- FeedsMC
  T0 = 1
  MaxTime = 3
  MaxCalls = 3
INVARIANT EachSourceOnce
INVARIANT HeapTimes
INVARIANT TableVerifies
INVARIANT CallsDoTheirPart
INVARIANT InputIsUnread
INVARIANT WasteIsBounded
INVARIANT TreeInShape
INVARIANT OrderStatistics
INVARIANT LoopsUndisturbed
INVARIANT ChangesAreMade
INVARIANT BpShape
INVARIANT BpSortedMap
INVARIANT InCommitted
INVARIANT IterationExact
INVARIANT EmptyIteration
INVARIANT GuardedDisjoint
INVARIANT RegistersPreserved
INVARIANT ResultIsMeaning
INVARIANT StackIsNesting
PROPERTY EarliestFirst
CHECK_DEADLOCK FALSE
