CONSTANTS
  Fds = {5, 6}
  fd_s = 3
  BUFSIZE = 2
  MaxClients = 3
  MaxBytes = 3
SPECIFICATION Spec
INVARIANTS TypeOK NothingForgotten EventsCurrent
PROPERTIES EofCloses
CHECK_DEADLOCK FALSE
