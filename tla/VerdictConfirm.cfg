SPECIFICATION Spec
CONSTANTS
  Leader = L
  Verifiers = {v1}
  Texts = {a, b}
  Layouts = {x}
  NoOutput = NoOutput
  MaxAttempts = 1
INVARIANT
  ConfirmMeansMatch
