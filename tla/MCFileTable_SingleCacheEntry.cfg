CONSTANTS
  p1 = p1
  p2 = p2
  p3 = p3
  n1 = n1
  n2 = n2
  e1 = e1
  e2 = e2
  e3 = e3
  noInode = noInode
  noEnt = noEnt
  noFd = noFd
  noDent = noDent
  NoDent = noDent
  NoInode = noInode
  NoEnt = noEnt
  NoFd = noFd
  Procs <- MCProcs
  InitProcs <- MCInitProcs
  Names <- MCNames
  Inodes <- MCInodes
  Slots <- MCSlots
  Fds <- MCFds
  Ids <- MCIds
  InitDents <- MCInitDents
  DSlots <- MCDSlots
  CntMod <- MCCntMod
  MaxOpenCnt <- MCMaxOpenCnt
SPECIFICATION Spec
CHECK_DEADLOCK FALSE
INVARIANTS
  SingleCacheEntry
