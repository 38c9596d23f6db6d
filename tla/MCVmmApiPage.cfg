SPECIFICATION VmmSpec
CONSTANTS
  PageSize = 4
  ByteBits = 4
  HugeBytes = 2
  AddrLimit = 512
  Memmap <- MCMemmap
  RunLengths = {4}
  LEVELS = 4
  IdentityPages = 4
  KernelVirt = 3584
  KernelPhys = 64
  HhdmOffset = 1024
  HEAP_START = 2048
  KERNEL_API_ADDRESS = 40
  MmioPhys = 80
  MmioPages = 2
  RingFrames = 3
  BufferRun = 4
  Requests = {0, 1, 2}
  MaxHeap = 3
INVARIANT ApiPagePrivate
