SPECIFICATION BlockSpec
CONSTANTS
  Experts = {e1, e2, e3}
  NumTokens = 3
  TopK = 2
INVARIANTS PendingBehindOutputs CombinesRouted
PROPERTIES WaitReturnsAll InputsFixed
