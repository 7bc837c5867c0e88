SPECIFICATION FairSpec
CONSTANTS
  Frames <- Stream
  LossJump = 4
  EvictDelays = {2}
  Spaces = {1}
  FrameTimer = 1
  SkipAhead = 1
  Elapsed = {0, 1}
  UseFec = TRUE
  SlowLinks = {FALSE, TRUE}
  MaxClock = 6
  MaxResets = 1
INVARIANTS
  ReceiverInv
PROPERTIES
  ImplementsPlayback
  Drains
