SPECIFICATION Spec
CONSTANTS
  InvalidLimit = 2
  SilentAllowance = 2
  UnsampledAllowance = 3
  BootSilence = 2
  BootSpacing = 6
  LadderRetry = 4
  CountMax = 3
  MaxCycles = 12
INVARIANTS
  LadderKeepsComing
  PidWasHeard
  EveryAddressIsTried
PROPERTIES
  LaddersAreSpaced
  BootsAreSpaced
