SPECIFICATION FairSpec
CONSTANTS
  Margin = 1
  WriteFailuresBeforeForget = 1
  RecoveryRetryCalls = 1
  FailuresBeforeRejoin = 1
  MaxSession = 2
  MaxCounter = 2
PROPERTIES
  DeferralIsBounded
