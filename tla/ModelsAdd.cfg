SPECIFICATION Spec
CONSTANTS
  MaxCerts = 2
  Empty = Empty
  Garbage = Garbage
INVARIANT
  AddedPersists
