CONSTANTS
  Keys = {k1, k2}
  Vals = {v1, v2}
  EmptyVal = EmptyVal
  Ranges <- PruneRanges
  MaxTime = 2
  MaxOps = 3
SPECIFICATION Spec
SYMMETRY VaultSymmetry
CHECK_DEADLOCK FALSE
PROPERTY RestoredSurvives
