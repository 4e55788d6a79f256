CONSTANTS
  Channels = 2
  SampleBytes = 2
  ScreenBytes = 8
  FirstBytes = 8
  MixBytes = 16
  MixedBytes = 16
  Period = 1
  EncodeFrames = 1
  Garbage <- MCGarbage
  Packets <- MCPackets
  MaxDecoded = 6
  MaxHeard = 1
  MaxWirings = 2
  MaxStreams = 1
SPECIFICATION AudioSpec
INVARIANTS SoundInOrder SoundStaysWhole UsesWhatItWasGiven
CHECK_DEADLOCK FALSE
