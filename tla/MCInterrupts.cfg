SPECIFICATION FairSpec
CONSTANTS
  Thread = {t1, t2}
  BootContext = boot0
  DevicePin = 16
  MaxNesting = 2
  MaxDevice = 1
INVARIANTS InServiceIsCurrent ClockFindsProcessor
PROPERTIES AcknowledgesItsOwn TicksKeepComing
CHECK_DEADLOCK FALSE
