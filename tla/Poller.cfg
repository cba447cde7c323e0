SPECIFICATION FairSpec
CONSTANTS
  Jobs = {j1, j2, j3}
  NoId = NoId
  Tasks = {t1, t2, t3}
  MaxPermits = 2
  MaxBatch = 2
INVARIANTS
  TypeOK
  OneTaskPerJob
  InFlightExact
  PermitConservation
  NoLostWakeup
PROPERTIES
  ClaimedRunsOnce
  NoSpawnWhenStopping
  ImplementsJobPool
  EveryTaskIsCollected
  PollerKeepsPolling
  ShutdownCompletes
