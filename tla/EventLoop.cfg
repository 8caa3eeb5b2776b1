SPECIFICATION LiveSpec
CONSTANTS
  Callers = {c1, c2}
  Owner = owner
  MaxFunctors = 3
  MaxWakeups = 1
INVARIANTS
  NoLostWakeup
  Conservation
PROPERTIES
  ImplementsExecutor
  PendingRuns
  QuitStops
CHECK_DEADLOCK FALSE
