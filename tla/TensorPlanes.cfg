SPECIFICATION Spec
CONSTANTS
  NumTensors = 2
  MaxElements = 7
  MaxChunks = 4
  ElementsPerThread = 3
  ThreadsPerBlock = 2
  Weight <- MCWeight
INVARIANTS PlanesInPlace ThreadsDisjoint RecoveredIsOriginal
CHECK_DEADLOCK FALSE
