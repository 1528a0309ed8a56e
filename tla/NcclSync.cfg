SPECIFICATION FairSpec
CONSTANTS
  Ranks = {0, 1}
  Program <- RootFirst
  Cancellable = {0}
  Faulty = {1}
INVARIANTS TypeOK BarrierHolds
PROPERTIES SyncEnds ProgramEnds
CHECK_DEADLOCK FALSE
