SPECIFICATION Spec
CONSTANTS
  ThreadModes = {TRUE, FALSE}
  packet_queue_size = 1
  enable_retransmission = TRUE
  RetransmissionType <- MCRetransmissionType
  retransmission_request_retries = 2
  MaxPerGap = 2
  IdxMod = 16
  FEC_DISABLED_MAX_SIZE_OF_MAP = 4
  Stream <- MCStream
  MaxArrivals = 4
  MaxSessions = 1
INVARIANT EverySessionForwarded
CHECK_DEADLOCK FALSE
