CONSTANTS
  w1 = w1
  w2 = w2
  idle = idle
  none = none
  Tasks <- MCTasks
  Workers <- MCWorkers
  Idle = idle
  NoTask = none
  Prio <- MCPrio
  MaxDepth <- MCMaxDepth
SPECIFICATION Spec
PROPERTIES
  LockStarvationFree
