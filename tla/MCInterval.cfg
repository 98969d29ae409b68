SPECIFICATION Spec
CONSTANTS
  IntervalMin = 900
  IntervalMax = 86400
  IntervalDefault = 3600
  BootPersistEvery = 2
  WriteAttempts = 3
  BackoffFirst = 900
  BackoffMax = 3600
  Requests = {899, 900, 86400, 86401}
  MaxBoots = 3
  FlashFails = TRUE
INVARIANTS
  FairUse
  BackoffCannotWrap
  RetriesAreBounded
PROPERTIES
  CommandGovernsSleeps
  RetryKeepsCadence
  HeldRecordIsQuiet
  AgreementKept
CHECK_DEADLOCK FALSE
