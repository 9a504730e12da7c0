SPECIFICATION Spec
CONSTANTS
  NumLayers = 3
  NumExperts = 2
  GpuSlots = {g1, g2}
  SmSlots = {s1, s2}
  Docks = {d1, d2}
  ExpOps = {x1}
  SmOps = {m1}
  Margin = 0
  Plannings = {TRUE}
  PrefetchTopK = 0
  NumComputeWorkers = 2
  Null = Null
  Garbled = Garbled
SYMMETRY RegionSymmetry
INVARIANTS TypeOK NeverFaults NeverEvicts OneOwner InFlightOwnsRegions IdleCoherent CachedWeightsAreOwn PendingCountsUnanswered
PROPERTIES HeldNodeKeepsSlots ServesEachOnce
