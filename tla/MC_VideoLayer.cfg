SPECIFICATION MCSpec
CONSTANTS
  Calls = {c1, c2}
  None = None
  MaxJobs = 2
  Packets = 2
INVARIANTS RefcountIsPending  FramesAreWhole
PROPERTIES DeletesReturn FeedsReturn
CHECK_DEADLOCK FALSE
