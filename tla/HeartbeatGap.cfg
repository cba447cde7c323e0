SPECIFICATION BeatSpec
CONSTANTS
  Interval = 6
  OnChainMax = 3
  IclMax = 1
  HoldMax = 0
INVARIANTS
  OnChainEveryTenDays
