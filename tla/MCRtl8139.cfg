SPECIFICATION Spec
CONSTANTS
  RING = 32
  WORD = 64
  Lengths <- MCLengths
  FrameBound = 6
  Prompt = TRUE
INVARIANTS
  TypeOK
  RingInStep
  NothingForgotten
PROPERTY ImplementsRxQueue
CHECK_DEADLOCK FALSE
