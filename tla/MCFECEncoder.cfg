SPECIFICATION TransferSpec
CONSTANTS
  FEC_PACKET_MAX_PAYLOAD_SIZE = 4
  MTU = 3
  MAX_PAYLOAD_BEFORE_FEC = 6
  MAX_N_P_FRAGMENTS_PER_BLOCK = 8
  MAX_N_S_FRAGMENTS_PER_BLOCK = 8
  IdxMod = 8
  HdrMod = 16
  FragmentCounts <- MCFragmentCounts
  FrameSizes <- MCFrameSizes
  MaxBlockSizes <- MCMaxBlockSizes
  Overheads <- MCOverheads
  GF_BITS = 4
  min_poly = 3
  Lane = 9
  ReceivedBlocks <- MCReceivedBlocks
  SmallBlock = 8
  MaxLost = 2
INVARIANTS
  EncoderAsserts
  FrameCarried
  BlocksDecodable
  EvenlySplit
  FrameRecovered
CHECK_DEADLOCK FALSE
