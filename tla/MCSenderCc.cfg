SPECIFICATION Spec
CONSTANTS
  Beta <- MCBeta
  Growth <- MCGrowth
  GrowthMs = 6
  RateStep = 1
  NearMaxStep = 8
  ClampSlack = 1
  ReduceMs <- MCReduceMs
  InitialMs = 10
  OveruseMs = 20
  FrameRate = 30
  PacketBits = 8
  DetectMs = 3
  DeltasKept = 3
  LossUnit = 256
  LowLoss = 5
  HighLoss = 26
  LimitPackets = 20
  IncreaseMs = 6
  StartMs = 7
  ReportMs = 9
  FeedbackLostMs = 11
  TimeoutMs = 6
  DecreaseMs = 3
  SlopeReports = 1
  Limits <- MCLimits
  FloorRate = 1
  CeilRate = 150
  DelayCeil = 1280
  HeartbeatMs = 3
  NotifyMs = 7
  GapMs = 7
  TrendWindow = 2
  DefaultRtt = 3
  Messages <- MCMessages
  Samples <- MCSamples
  Rates = {0, 30}
  Spreads = {5}
  Rtts = {1}
  Delays = {2, 4}
  StartTime = 10
  MaxTime = 22
  MaxMessages = 2
  MaxChanges = 1
INVARIANTS
  RatesAgree
  PacerFollows
  OveruseLasts
PROPERTIES
  OveruseNeverRaises
  LossCutsOnce
  GrowsFromLeast
CHECK_DEADLOCK FALSE
