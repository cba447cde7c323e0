SPECIFICATION Spec
CONSTANTS
  Senders = {"first", "second"}
  Amount <- MCAmount
  Interval = 4
  OnChainMax = 3
  IclMax = 2
  HoldMax = 1
  Retries = 1
  AttemptMax = 2
  Downloads = {"one", "two"}
  Cids = {"prompt"}
  Primary = "pinata"
  Fallbacks <- MCFallbacks
  Ttl = 4
  Custom <- MCCustom
  MaxCustom = 3
  Life = 6
  Margin = 2
  CallMax = 1
  Nodes = {"n1", "n2"}
  Jobs = {"a", "b"}
  Leader <- MCLeader
  MaxRoom = 2
  PollLimit = 2
  BlockMax = 1
  IoMax = 1
  Callers = {"job1", "job2"}
  Free = "nobody"
  StderrRoom = 2
  MaxCalls = 5
  MaxStrays = 2
INVARIANTS
  ServicesTypeOK
  OwnTurn
  IclGraceKept
  OnChainInTime
  FreshSignature
  WrongBlobForgotten
  FailsAfterAllGateways
  RoutesAsRegistered
  AlwaysAnswered
  PermitHonoured
  SkippedOnlyLate
  AnswerLagsByStrays
  NoPileUp
PROPERTIES
  CommandsInOrder
  CommandsEnd
  HeartbeatsGoOn
  RoundsEnd
  CallReturns
\* a sender's one command, the request and the jobs come to an end
CHECK_DEADLOCK FALSE
