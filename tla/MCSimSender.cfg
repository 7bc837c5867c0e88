SPECIFICATION Spec
CONSTANTS
  UseFec = TRUE
  FecBatch = 2
  FecFull = 2
  RepairWindow = 1
  WindowReset = 2
  FecKeep = 2
  SegKeep = 3
  NackMaxAge = 2
  ResendGap = 1
  MaxFrame = 2
  MaxPackets = 3
  MaxFecs = 1
  MaxTime = 4
INVARIANTS
  SenderInv
PROPERTY
  FecFromLive
