SPECIFICATION Spec
CONSTANTS
  V = 4
  Graphs <- MixedSigns
  Colorings <- OwnColors
  Pools <- Powers
  Unit = 8
  Limits = {0}
  None = None
INVARIANT MinimumForest
CHECK_DEADLOCK FALSE
