SPECIFICATION Spec
CONSTANTS
  DEFAULT_PACKET_SIZE = 16
  SIM_VIDEO_SIZE = 4
  SIM_TOKEN_SIZE = 2
  SIM_FEEDBACK_SIZE = 4
  PADDING_DATA_SIZE = 3
  NACK_NUM = 2
  RecvSize = 40
  Messages <- MCMessages
  Damages = {0, 1, 128, 255}
  DamageUpTo = 14
  MaxSends = 2
  MaxFaults = 1
INVARIANTS
  DecodesAsSent
  DamageRefused
CHECK_DEADLOCK FALSE
