SPECIFICATION StartFairSpec
CONSTANTS
  p0 = p0
  p1 = p1
  p2 = p2
  Processor <- MCProcessor
  Firmware <- MCFirmware
  Areas <- MCAreas
  Word = 32
  Period = 2
  InitWait = 5
  StartWait = 1
  Counters <- MCCounters
INVARIANTS OwnStack StartsTheOthers
PROPERTIES InitAPsReturns SipiComesLater
CHECK_DEADLOCK FALSE
