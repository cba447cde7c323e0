SPECIFICATION BeatSpec
CONSTANTS
  Interval = 6
  OnChainMax = 2
  IclMax = 0
  HoldMax = 0
INVARIANTS
  EligibleWhileRunning
