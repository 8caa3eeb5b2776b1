CONSTANTS
  Fds = {4, 5, 6}
  Workers = {w1, w2}
  Main = main
  Listen = listen
  None = none
  m_max_requests = 1
  MAX_FD = 3
  MaxClients = 3
SPECIFICATION LiveSpec
INVARIANTS OneHolder QueueAccounted UsersCounted
PROPERTIES HangUpCloses
CHECK_DEADLOCK FALSE
