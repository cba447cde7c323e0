SPECIFICATION BridgeFairSpec
CONSTANTS
  Callers = {j1}
  Free = Free
  StderrRoom = 1
  MaxCalls = 3
  MaxStrays = 0
PROPERTIES
  EveryJobEnds
