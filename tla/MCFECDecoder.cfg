SPECIFICATION Spec
CONSTANTS
  RX_QUEUE_MAX_SIZE = 2
  maxNFragmentsPerBlock = 4
  m_forward_gapped_fragments = TRUE
  Block <- MCBlock
  NPrimary <- MCNPrimary
  NSecondary <- MCNSecondary
  MaxResets = 1
INVARIANTS
  TypeOK
  NoAssertFails
  QueueShape
  QueuedIncomplete
  CountersMatchMap
  BlockDoneTruthful
  BlocksAccountedFor
PROPERTY DeliversInOrder
