SPECIFICATION Spec
CONSTANTS
  Word = 64
  Milli = 4
  TickRate = 5
  Slice = 3
  BootGrace = 5
  Wrap = 17
  MaxSleep = 8
  MaxAwake = 3
  MaxAge = 40
INVARIANTS SleepIsWhole GraceIsOnce
CHECK_DEADLOCK FALSE
