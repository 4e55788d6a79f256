SPECIFICATION MCSpec
CONSTANTS
  Ctrls = {kbd, osc, joy}
  Singletons = {kbd, joy}
  None = None
  Osc = osc
  MaxCommands = 2
INVARIANTS WalksOnTheLiving PolledOnce CommandsInOrder
PROPERTIES FrameEnds CommandsAreDispatched
CHECK_DEADLOCK FALSE
