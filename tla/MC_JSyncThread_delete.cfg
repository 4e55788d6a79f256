SPECIFICATION Spec
CONSTANTS
  Jobs = {j1, j2, j3}
  Runners <- MCRunners
  None = None
  MaxStarts = 2
  Owner = Owner
  StopsFirst = FALSE
INVARIANT NoRunAfterDestroy
