SPECIFICATION LosSpec
CONSTANTS
  File <- MCFile
  Factor = {2}
  Precision = 16
  MaxScalings = 1
INVARIANT DistanceIsEuclidean
CHECK_DEADLOCK FALSE
