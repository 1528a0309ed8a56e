SPECIFICATION MCSpec
CONSTANTS
  Inputs <- MCInputs
  Ks = {1, 2}
  Infinity = 10
  Nblk = 2
  Slots = 4
  PoolSizes = {0, 1, 2}
  Offsets = {5}
  TileCols = 3
  Unknown = 0
INVARIANTS TypeOK OneOwner NearestFound
PROPERTY SearchEnds
CHECK_DEADLOCK FALSE
