SPECIFICATION Spec
CONSTANTS
  SeqSpace = 6
  HistoryMs = 3
  LossMs = 3
  LossPackets = 3
  LossAtLeast = 2
  ReportEvery = 1
  BackMs = 3
  MaxIds = 2
  MaxSamples = 3
  AtOnce = 3
  TsSpace = 3
  WndSize = 3
  Scale = 8
  DelayWnd = 2
  DriftMs = 50
  CalmMs = 20
  SlowRttMs = 1500
  CalmLoss = 52
  StepRates <- MCSteps
  Transports = {"gcc", "remb"}
  Sizes = {2}
  Limits <- MCLimits
  Rtts = {10, 100}
  RembEvery = 1
  StrayLosses = {255}
  Delays = {1, 3}
  StartTime = 3
  MaxTime = 6
  MaxPackets <- MCPackets
  NetCap <- MCNet
  BackCap <- MCBack
  MaxFaults <- MCFaults
INVARIANTS
  SamplesGenuine
  NoneSkipped
  LossesReal
  RembInv
CHECK_DEADLOCK FALSE
