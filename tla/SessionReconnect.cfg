SPECIFICATION Spec
CONSTANTS
  READ_SIZE = 12
  OUT_SIZE = 6
  MAX_ARGS = 1
  Text <- Words
  Message <- Messages
  Window = 11
  MaxMessages = 4
  MaxConnections = 2
INVARIANT NeverOverruns
CHECK_DEADLOCK FALSE
