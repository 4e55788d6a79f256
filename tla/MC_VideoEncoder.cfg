CONSTANTS
  Bytes <- MCBytes
  Requested = 7
  Inputs <- MCInputs
  Counts <- MCCounts
  HeaderBytes = 2
  Frames <- MCFrames
  MaxBytes = 14
SPECIFICATION EncoderFairSpec
INVARIANTS FileIsOneRun OnlyTheUnwantedGoesWrong
PROPERTIES ImplementsFifo StopReturns
