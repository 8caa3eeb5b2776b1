CONSTANTS
  numThreads = 3
  MaxDeals = 3
SPECIFICATION LiveSpec
INVARIANTS LoopsUsable JoinedBeforeGone Balanced
PROPERTIES StartReturns RunningIsJoined
CHECK_DEADLOCK FALSE
