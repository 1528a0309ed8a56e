SPECIFICATION FairSpec
CONSTANTS
  V = 4
  Graphs <- TwoWeights
  Colorings <- Joined
  Pools <- Powers
  Unit = 8
  Limits = {0, 1}
  None = None
INVARIANTS TypeOK EdgesOnce ColorsAreTrees ChosenMinimal MinimumForest
PROPERTY SolveEnds
CHECK_DEADLOCK FALSE
