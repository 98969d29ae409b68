SPECIFICATION FairSpec
CONSTANTS
  Count = 2
  Spans <- MCSpans
  Retries = 1
  MaxDrain = 2
  Noise = {131}
  Damaged = {2, 5}
  Cuts = {4}
  Slots = 2
INVARIANTS VerdictWasSent HeardIsBelieved
PROPERTIES ReadEnds
