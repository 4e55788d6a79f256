CONSTANTS
  Size = 4
  Blocks = {1, 2, 3, 4}
  MaxBytes = 9
  WindowObserved = TRUE
SPECIFICATION Spec
INVARIANTS InOrder
