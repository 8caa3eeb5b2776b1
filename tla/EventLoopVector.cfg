SPECIFICATION Spec
CONSTANTS
  Callers = {c1, c2}
  Owner = owner
  MaxFunctors = 3
  MaxWakeups = 1
INVARIANT VectorExclusive
CHECK_DEADLOCK FALSE
