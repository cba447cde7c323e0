SPECIFICATION Spec
CONSTANTS
  Leader = L
  Verifiers = {v1}
  Texts = {a, b}
  Layouts = {x, y}
  NoOutput = NoOutput
  MaxAttempts = 2
SYMMETRY Symmetry
INVARIANTS
  TypeOK
  ResultIsDownloadable
  KeyOpensBlob
  VerifierFollowsLeader
  HonestRoundAgrees
  StoredKeyStays
