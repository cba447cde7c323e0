SPECIFICATION RegistrySpec
CONSTANTS
  Custom <- MCCustom
  MaxCustom = 2
INVARIANTS
  ExactMatchFirst
