SPECIFICATION FairSpec
CONSTANTS
  MaxReaders = 3
  MaxPlayers = 1
  MaxThreads = 2
INVARIANTS
  CanCallAgain
  ObjectsAgree
  ObjectOutlivesUse
PROPERTIES
  WaitsEnd
CHECK_DEADLOCK FALSE
