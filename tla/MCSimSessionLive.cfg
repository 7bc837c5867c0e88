SPECIFICATION LiveSpec
CONSTANTS
  Peers = {a, b}
  Callers = {a}
  MaxCalls = 2
  MaxFir = 0
  NetCap = 1
  KeepaliveCap = 1
  Networks = {"reliable", "lossy"}
  Repeating = {}
  MayFail = TRUE
  ConnectTick = 2
  PingTick = 1
  ConnectTries = 1
  PingTries = 2
  InterruptAfter = 2
PROPERTIES
  ConnectEnds
  DeadPeerDetected
  HangupEnds
CHECK_DEADLOCK FALSE
