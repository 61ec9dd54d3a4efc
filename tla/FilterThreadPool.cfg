SPECIFICATION PoolFairSpec
CONSTANTS
  NumThreads = 3
  TaskCounts = {0, 2, 4}
  MaxRuns = 2
  MaxSpurious = 1
INVARIANTS
  PoolTypeOK
  CallerOwnsFunction
  NoLostWakeup
PROPERTIES
  ImplementsParallelFor
  CallerReturns
