SPECIFICATION Spec
CONSTANTS
  NUM_RX_DESC = 3
  HEADER_FRAME_SIZE = 4
  MAGIC_NUMBER <- MCMagic
  SizeBytes = 1
  ByteBase = 256
  PageBytes = 4
  Payloads <- MCPayloads
  ChunkBytes = 5
  Noise <- AnyNoise
  NoiseBound = 1
  Pace = "free"
  EqualMeansAll = TRUE
INVARIANTS
  TypeOK
  HeapSafe
  LaunchIsComplete
PROPERTY RunningIsFrozen
CHECK_DEADLOCK FALSE
