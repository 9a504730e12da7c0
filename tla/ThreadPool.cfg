SPECIFICATION FairSpec
CONSTANTS
  w1 = w1
  w2 = w2
  t1 = t1
  t2 = t2
  t3 = t3
  Null = Null
  Workers <- MCWorkers
  Tasks <- MCTasks
  Priority <- MCPriority
CHECK_DEADLOCK FALSE
INVARIANTS TypeOK NobodySleepsOnWork
PROPERTIES RunsEachOnce AllAnswered
