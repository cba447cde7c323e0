SPECIFICATION Spec
CONSTANTS
  Jobs = {j1}
  NoId = NoId
  Tasks = {t1, t2}
  MaxPermits = 2
  MaxBatch = 1
INVARIANT
  SkippedJobIsAlive
