SPECIFICATION Spec
CONSTANTS
  Peers = {a, b}
  Callers = {a, b}
  MaxCalls = 2
  MaxFir = 1
  NetCap = 3
  KeepaliveCap = 2
  Networks = {"lossy"}
  Repeating = {"lossy"}
  MayFail = FALSE
  ConnectTick = 2
  PingTick = 1
  ConnectTries = 1
  PingTries = 2
  InterruptAfter = 1
SYMMETRY Alike
CONSTRAINT FewOnTheWay
INVARIANTS
  SessionInv
PROPERTIES
  PlayingIsTold
  LiveCallKeepsReceiver
CHECK_DEADLOCK FALSE
