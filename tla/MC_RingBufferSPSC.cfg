CONSTANTS
  Size = 4
  Blocks = {1, 2, 3, 4}
  MaxBytes = 9
  WindowObserved = FALSE
SPECIFICATION FairSpec
INVARIANTS InOrder CopiesAreDisjoint
PROPERTIES EverythingArrives
