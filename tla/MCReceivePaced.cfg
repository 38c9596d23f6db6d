SPECIFICATION FairSpec
CONSTANTS
  NUM_RX_DESC = 4
  HEADER_FRAME_SIZE = 4
  MAGIC_NUMBER <- MCMagic
  SizeBytes = 1
  ByteBase = 256
  PageBytes = 4
  Payloads <- MCPayloads
  ChunkBytes = 5
  Noise <- Unrelated
  NoiseBound = 2
  Pace = "halted"
  EqualMeansAll = TRUE
INVARIANTS
  RingInStep
  RunsWhatWasSent
PROPERTY ImplementsWorkloadService
CHECK_DEADLOCK FALSE
