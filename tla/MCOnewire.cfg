SPECIFICATION Spec
CONSTANTS
  SeqRange = 2
  RxCapacity = 40
  ProvIdOffset = 1
  MaxSends = 2
  Reports <- MCReports
  PackSeqs = {28}
  Cuts = {13}
  Breaks = {15}
  MaxSaid = 2
  Backlog = 13
CONSTRAINT NoForgery
INVARIANTS ReadingWasSaid LatchIsAnnounced ReplyAssigns
