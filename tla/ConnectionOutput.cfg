CONSTANTS
  Callers = {t1, t2}
  Lens = {1, 2}
  highWaterMark = 3
  MaxMessages = 3
SPECIFICATION Spec
INVARIANTS TypeOK WatchedWhileBuffered SentInOrder CompleteMeansSent
CHECK_DEADLOCK FALSE
PROPERTY FlushedBeforeShutdown
