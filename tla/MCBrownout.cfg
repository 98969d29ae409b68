SPECIFICATION FairSpec
CONSTANTS
  TxInhibit = 960
  TxResume = 1020
  InvalidLimit = 4
  KeepaliveCycles = 24
  Voltages = {959, 960, 961, 1019, 1020, 1021}
  FlashFails = TRUE
INVARIANTS
  NoKeepaliveWhenLow
  SilenceHolds
  HoldIsReachable
PROPERTIES
  HoldRunsItsCourse
  RollbackIsHonest
  NeverMuted
  ImplementsHold
