SPECIFICATION Spec
CONSTANTS
  SpuriousBound = 2
  FrameBound = 2
  COUNT = 16
  LIMIT = 10
  PIT_FREQ_HZ = 7
  CyclesPerTick = 3
  StartGap = {0, 3, 9}
  MaxGap = 6
  Answered <- MCAnswered
  Cpus <- MCCpus
  Buses <- MCBuses
INVARIANTS
  TypeOK
  InterruptsAreNotExceptions
  ServiceClean
  CalibrationExact
  PollingMeansReady
PROPERTIES
  OnlyNicTouched
  BootEnds
  NicServed
CHECK_DEADLOCK FALSE
