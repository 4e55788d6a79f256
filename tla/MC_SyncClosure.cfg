SPECIFICATION SyncFairSpec
CONSTANTS
  Jobs = {a1, s1, s2}
  SyncJobs = {s1, s2}
  Runners <- MCRunners
  None = None
  Producers = {p1, p2}
  Worker = Worker
  Deleter = Deleter
  MaxSpurious = 1
INVARIANTS FifoExactlyOnce NoLostWakeup WokenMeansRan NoUseAfterFree
PROPERTIES ImplementsService EveryJobRuns WaitReturnsEventually DeleteReturns
