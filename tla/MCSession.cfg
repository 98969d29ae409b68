SPECIFICATION Spec
CONSTANTS
  Margin = 2
  WriteFailuresBeforeForget = 2
  RecoveryRetryCalls = 1
  FailuresBeforeRejoin = 2
  MaxSession = 3
  MaxCounter = 5
INVARIANTS
  NoReplay
  CeilingDescribesFile
  NoStaleSession
PROPERTIES
  EscapeOnlyOnKeepalive
  FlashHeldByGate
  ImplementsReserve
