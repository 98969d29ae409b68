SPECIFICATION Spec
CONSTANTS
  IntervalMin = 900
  IntervalMax = 86400
  IntervalDefault = 3600
  BootPersistEvery = 8
  WriteAttempts = 3
  BackoffFirst = 900
  BackoffMax = 3600
  Requests = {899, 900, 7200}
  MaxBoots = 1
  FlashFails = FALSE
INVARIANT InvalidIsIgnored
CHECK_DEADLOCK FALSE
