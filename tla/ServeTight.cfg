SPECIFICATION Spec
CONSTANTS
  NumLayers = 1
  NumExperts = 3
  GpuSlots = {g1}
  SmSlots = {}
  Docks = {d1, d2, d3}
  ExpOps = {x1}
  SmOps = {m1}
  Margin = 0
  Plannings = {TRUE,FALSE}
  PrefetchTopK = 2
  NumComputeWorkers = 2
  Null = Null
  Garbled = Garbled
SYMMETRY RegionSymmetry
INVARIANT InFlightOwnsRegions
PROPERTY ServesEachOnce
CHECK_DEADLOCK FALSE
