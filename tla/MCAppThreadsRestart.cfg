SPECIFICATION Spec
CONSTANTS
  MaxReaders = 2
  MaxPlayers = 1
  MaxThreads = 2
INVARIANT ConnectedSends
CHECK_DEADLOCK FALSE
