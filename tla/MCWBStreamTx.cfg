SPECIFICATION Spec
CONSTANTS
  FecModes = {TRUE, FALSE}
  QueueSize = 2
  PacketType <- MCPacketType
  default_packet_type = 1
  enable_retransmission = TRUE
  retransmission_packet_type_mask = {}
  Item <- MCItem
  HistorySize = 2
  HistoryLimits = {0, 2}
  MaxItems = 3
  RequestNumbers = {1}
INVARIANTS
  TypeOK
  DropsAccounted
  HistoryIsTail
  AnsweredOnce
  SeenAnswered
  StopsSoon
PROPERTY WorkerProgress
CHECK_DEADLOCK FALSE
