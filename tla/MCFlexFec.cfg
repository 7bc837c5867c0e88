SPECIFICATION Spec
CONSTANTS
  Plans <- MCPlans
  MatrixMin = 4
  MaxSegments = 5
  MaxSpan = 1
  MaxWait = 1
  EvictDelay = 3
  MaxLeft = 1
  Gaps = {1, 5}
INVARIANTS
  RebuiltIsGenuine
  
  NothingMissed
PROPERTY
  NoneOutlivesTimer
