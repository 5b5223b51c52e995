SPECIFICATION MCSpec
CONSTANTS
  App = {a, b}
  Budgets <- BudgetsMC
  Primary = {1}
  Fifo = {2, 3}
  Sorted = {4}
  Feeds <- FeedsMC
  T0 = 1
  MaxTime = 3
  MaxCalls = 2
INVARIANT NothingLost
INVARIANT OutputIsLive
INVARIANT StoppedIsQuiet
INVARIANT NoSleepWhenStopped
PROPERTY StagedIsWritten
PROPERTY InterruptEndsService
PROPERTY JoinEndsThread
PROPERTY NextIsDelivered
CHECK_DEADLOCK FALSE
