SPECIFICATION Spec
CONSTANTS
  Readings <- MCReadings
  Frames <- MCFrames
  Allowances = {0, 2, 8, 11, 14, 35, 53}
  BufferSize = 64
  MaxQuiet = 17
INVARIANTS
  MostImportantFirst
  FrameIsWhole
  CommandIsFresh
  SilenceIsBounded
PROPERTIES
  AnnouncedWaitIsKept
