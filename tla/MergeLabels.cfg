SPECIFICATION FairSpec
CONSTANTS
  N = 3
  MAX_LABEL = 9
  Labellings <- Groups
INVARIANTS TypeOK MergesOnlyEquivalent MergedToSmallest
PROPERTY MergeEnds
CHECK_DEADLOCK FALSE
