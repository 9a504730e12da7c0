SPECIFICATION StartSpec
CONSTANTS
  None = None
  Cells = {c1, c2, c3, c4, c5, c6}
  Models <- MCModels
  Experts = 12
  Layers = 6
  SmSlot = 1
  Steps = 25
  Mems = {30, 45, 60, 85, 86, 100, 140}
  Weights <- MCWeights
  Algorithms = {"ZipMoE", "LRU"}
  IsSwitch = FALSE
  Configured = 50
  Chunks = 2
  TensorsPerExpert = 2
  ComputePool = 2
  DecompDelay = 1
  ExpDelay = 1
  SmDelay = 3
SYMMETRY CellSymmetry
INVARIANTS PlanFits FallbackUnused HitsAddUp PoolPartitioned ExpertsInPlace HeldWhileWanted OnlyLastHeld PointersKnown NextHookIsSafe
