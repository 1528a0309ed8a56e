SPECIFICATION Spec
CONSTANTS
  Ranks = {0, 1, 2}
  Tags = {0}
  MaxOps <- OneEach
  MaxBatch <- LastSilent
  High = 8
  Ucxx = TRUE
  Threaded = {1}
  Faults = TRUE
  NoOp = NoOp
CHECK_DEADLOCK FALSE
INVARIANTS WaitallDelivers SourceFilters
