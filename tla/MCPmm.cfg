SPECIFICATION Spec
CONSTANTS
  PageSize = 4
  ByteBits = 2
  HugeBytes = 2
  AddrLimit = 64
  Memmap <- MCMemmap
  RunLengths = {0, 2, 3}
INVARIANTS
  TypeOK
  Exclusive
  Conservation
  FreeFramesDrift
PROPERTY ImplementsFrameAllocator
