CONSTANTS
  Callers = {t1, t2}
  Lens = {1, 2}
  highWaterMark = 3
  MaxMessages = 3
SPECIFICATION Spec
INVARIANT RestSaved
CHECK_DEADLOCK FALSE
