SPECIFICATION Spec
CONSTANTS
  OwnId = "gnd"
  PeerId = "air"
  SessionStream = 127
  SessionSize = 4
  MinPayload = 2
  MaxPayload = 6
  BadKey = 9
  SwitchThreshold = 1
  MaxGap = 10
  ManyPackets = 3
  FewPackets = 2
  Traffic <- MCTraffic
INVARIANT TakesBestCard
\* Nothing need be on the air.
CHECK_DEADLOCK FALSE
