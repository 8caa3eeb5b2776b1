CONSTANTS
  Streams <- AllStreams
  Files = {1, 2}
  Dirs = {3}
  FILE_LEN = 2
  READ_BUFFER_SIZE = 10
  WRITE_BUFFER_SIZE = 12
  MaxConns = 2
SPECIFICATION Spec
INVARIANTS TypeOK SplitIndependent WaitsOnlyForMore SentInOrder AnswerComplete
CHECK_DEADLOCK FALSE
