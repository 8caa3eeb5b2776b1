CONSTANTS
  Conn = {c1, c2}
  Base = base
  l1 = l1
  SubLoops <- SubLoopSeq
  ThreadNums = {0, 1}
  Listen = listen
  Shared = {c1}
  None = none
SPECIFICATION LiveSpec
INVARIANTS TypeOK ReportedOnce OneTeardown MapTracks WatchedWhileUp
PROPERTIES CloseReported Forgotten
CHECK_DEADLOCK FALSE
