SPECIFICATION FairSpec
CONSTANTS
  Ranks = {0, 1}
  Tags = {0}
  MaxOps <- TwoAndOne
  MaxBatch <- FirstWaits
  High = 8
  Ucxx = FALSE
  Threaded = {}
  Faults = TRUE
  NoOp = NoOp
CHECK_DEADLOCK FALSE
INVARIANTS TypeOK IdsAccounted OwnedOnce WaitallComplete
PROPERTIES TimeoutHonest WaitallEnds
