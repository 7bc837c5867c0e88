SPECIFICATION Spec
CONSTANTS
  FilterWindow = 1
  MinWindow = 150
  InitialWindow = 300
  MaxWindow = 600
  MaxPacketSize = 100
  MaxSegmentSize = 100
  InitialRtt = 24
  MinRttFloor = 8
  MinRttExpiry = 59
  ProbeRttMs = 26
  StartupRounds = 1
  CycleLength = 3
  SeqSpace = 16
  HistoryMs = 45
  PacketSize = 100
  Limits <- MCLimits
  RateUnit = 8
  BitrateStep = 32
  HeartbeatMs = 20
  FeedbackMs = 10
  FeedbackFull = 2
  FeedbackMin = 0
  MaxSamples = 5
  DeltaSpace = 64
  Delays = {30}
  MaxTime = 121
  MaxPackets = 4
  MaxInFlight = 3
  MaxFaults = 1
CONSTRAINT
  FewUnderWay
INVARIANTS
  InFlightBounded
  AckedOnce
  ControllerInv
  BandwidthIsRecent
PROPERTIES
  RateFollowsWindow
CHECK_DEADLOCK FALSE
