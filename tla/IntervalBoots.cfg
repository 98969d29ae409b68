SPECIFICATION Spec
CONSTANTS
  IntervalMin = 900
  IntervalMax = 86400
  IntervalDefault = 3600
  BootPersistEvery = 8
  WriteAttempts = 3
  BackoffFirst = 900
  BackoffMax = 3600
  Requests = {}
  MaxBoots = 10
  FlashFails = FALSE
INVARIANT BootCountKeepsUp
CHECK_DEADLOCK FALSE
