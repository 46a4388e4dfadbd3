SPECIFICATION Spec
CONSTANTS
  FecModes = {TRUE, FALSE}
  QueueSize = 1
  PacketType <- MCPacketType
  default_packet_type = 1
  enable_retransmission = TRUE
  retransmission_packet_type_mask = {}
  Item <- MCItem
  HistorySize = 2
  HistoryLimits = {0, 2}
  MaxItems = 2
  RequestNumbers = {0, 2}
INVARIANT InjectedCounted
CHECK_DEADLOCK FALSE
