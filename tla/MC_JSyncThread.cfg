SPECIFICATION FairSpec
CONSTANTS
  Jobs = {j1, j2, j3}
  Runners <- MCRunners
  None = None
  MaxStarts = 2
  Owner = Owner
  StopsFirst = TRUE
INVARIANTS OneThread StoppedMeansEnded SetupSeesEarlierCalls NoRunAfterDestroy
PROPERTY DeferredCallsAreServed
PROPERTIES DeferredCallsRun
