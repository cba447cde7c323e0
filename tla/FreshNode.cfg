SPECIFICATION FairSpec
CONSTANTS
  MaxCerts = 2
  Empty = Empty
  Garbage = Garbage
PROPERTY
  FreshNodeIsAttested
