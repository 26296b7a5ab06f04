CONSTANTS
  d1 = d1
  d2 = d2
  r1 = r1
  main = main
  idle = idle
  none = none
  Tasks <- MCTasks
  Idle <- idle
  Main <- main
  NoTask <- none
  Prio <- MCPrio
  DiskUsers <- MCDiskUsers
  Readers <- MCReaders
  Req <- MCReq
  Chunk <- MCChunk
  SleepTicks <- MCSleepTicks
  BuffSize <- MCBuffSize
  MaxKeys <- MCMaxKeys
SPECIFICATION Spec
INVARIANT TypeOK
INVARIANT DiskDoneTracksCommand
INVARIANT RingHoldsPending
INVARIANT ReaderSleepsOnlyWhenEmpty
PROPERTY RequestsComplete
PROPERTY KeysDelivered
