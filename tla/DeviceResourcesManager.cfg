SPECIFICATION Spec
CONSTANTS
  Threads = {t1, t2, t3}
  Setters = {t1}
  Devices = {d1, d2}
  StreamCounts = {2}
  PoolShapes <- Shapes
  Sizes = {8}
  Resources = {m1}
  None = None
INVARIANTS TypeOK BuiltFromParams StreamsSpread
PROPERTY PoolPlaced
CHECK_DEADLOCK FALSE
SYMMETRY Alike
