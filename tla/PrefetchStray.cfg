SPECIFICATION Spec
CONSTANTS
  NumLayers = 2
  NumExperts = 2
  GpuSlots = {g1, g2}
  SmSlots = {s1, s2}
  Docks = {d1, d2}
  ExpOps = {x1}
  SmOps = {m1}
  Margin = 0
  Plannings = {TRUE}
  PrefetchTopK = 1
  NumComputeWorkers = 2
  Null = Null
  Garbled = Garbled
INVARIANT CachedWeightsAreOwn

CHECK_DEADLOCK FALSE
