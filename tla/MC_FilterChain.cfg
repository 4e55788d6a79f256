SPECIFICATION MCSpec
CONSTANTS
  Entries = {e1, e2, e3}
  Lists = {filters, l1, l2}
  NULL = NULL
  MaxPos = 4
  Filters = filters
  Tunable = {e1, e2}
  Settings = {low, high}
INVARIANTS WellLinked FrameGoesThroughChain ParametersArrive
PROPERTY CallsImplementLists
SYMMETRY Alike
