SPECIFICATION Spec
CONSTANTS
  Nodes = {n1, n2, n3, n4}
  NumSlots = 2
  Policies = {"ZipMoE", "LRU", "LFU", "FIFO", "Marking"}
  Weights = {1, 2}
  Bound = 3
  Null = Null
INVARIANT TablesAgree
PROPERTY CachesByPolicy
CHECK_DEADLOCK FALSE
