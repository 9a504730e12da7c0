SPECIFICATION Spec
CONSTANTS
  N = 6
  Sparse = {1, 2, 3, 4}
  Ends = {3, 5}
  NumChunks = 2
  MaxBatch = 2
  MaxCrashes = 2
INVARIANT NeverOffloadedTwice
CHECK_DEADLOCK FALSE
