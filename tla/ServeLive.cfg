SPECIFICATION FairSpec
CONSTANTS
  NumLayers = 2
  NumExperts = 2
  GpuSlots = {g1, g2}
  SmSlots = {s1, s2}
  Docks = {d1, d2}
  ExpOps = {x1, x2}
  SmOps = {m1}
  Margin = 0
  Plannings = {TRUE}
  PrefetchTopK = 0
  NumComputeWorkers = 2
  Null = Null
  Garbled = Garbled
PROPERTIES LayerCompletes
INVARIANT CountMatchesOps
