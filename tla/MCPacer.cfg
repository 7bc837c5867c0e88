SPECIFICATION Spec
CONSTANTS
  Seqs = {1, 2, 3}
  SizeOf <- MCSizeOf
  MaxSize = 3
  MinPacketLimitMs = 2
  MaxIntervalMs = 3
  WindowMs = 4
  MaxQueMs = 3
  OverdueMs = 5
  MinRateKbps = 3
  PaceFactor = 2
  Estimates = {3, 6}
  MaxTime = 7
INVARIANTS
  QueueInv
  BytesExact
  RateBound
PROPERTY
  ImplementsPromise
