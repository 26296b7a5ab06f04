CONSTANTS
  k1 = k1
  h1 = h1
  h2 = h2
  p1 = p1
  p2 = p2
  none = none
  KThreads <- MCKThreads
  HeapUsers <- MCHeapUsers
  Procs <- MCProcs
  NoTask = none
  PoolLen <- MCPoolLen
  KInit <- MCKInit
  UInit <- MCUInit
  VInit <- MCVInit
  Requests <- MCRequests
  BlocksPerArena <- MCBlocksPerArena
  Debug = TRUE
SPECIFICATION Spec
\* Each task makes its allocations and stops.
CHECK_DEADLOCK FALSE
INVARIANTS
  FramesExclusive
