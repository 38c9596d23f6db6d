SPECIFICATION FairSpec
CONSTANTS
  NUM_RX_DESC = 4
  HEADER_FRAME_SIZE = 4
  MAGIC_NUMBER <- MCMagic
  SizeBytes = 1
  ByteBase = 256
  PageBytes = 4
  Payloads <- MCPayloads
  ChunkBytes = 5
  Noise <- NoNoise
  NoiseBound = 0
  Pace = "waiting"
  EqualMeansAll = TRUE
PROPERTY WorkloadAccepted
CHECK_DEADLOCK FALSE
