SPECIFICATION MCSpec
CONSTANTS
  Width = 5
  Rows <- MCRows
  Cols = 6
  Ks = {1, 2, 3}
  Lens = {}
  Unwritten = Unwritten
  BitsPerPass = 2
  Blocks = 2
  BufLens = {0, 2, 3}
  WarpSize = 2
  Capacities = {1, 2, 4}
  MaxBufLen = 2
  MultiFactor = 2
  SingleFactor = 1
  BlockSizes = {2, 4, 6}
  GridSizes = {0, 3}
  Garbage = {2}
  IndexBits = 5
INVARIANTS
  TypeOK
  KSmallest
  HandedOver
PROPERTY SelectEnds
CHECK_DEADLOCK FALSE
