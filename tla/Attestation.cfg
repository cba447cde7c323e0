SPECIFICATION FairSpec
CONSTANTS
  MaxCerts = 3
  Empty = Empty
  Garbage = Garbage
INVARIANTS
  TypeOK
  NewestIsSaved
  RestartKeepsUp
PROPERTIES
  WatchdogRenews
