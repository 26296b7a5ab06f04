\* Boot with one or two scanned disks: every layout of up to three EBRs on
\* sdb, two on sdd, logic_parts scaled from 8 to 2 slots; sectors of 2 bytes,
\* 16 inodes of 1 byte, and partitions of 28 or 30 sectors.
CONSTANTS
  HdCnts = {2, 4}
  SdbLayouts <- MCLayouts
  SddLayouts <- MCSddLayouts
  MaxLogic = 2
  MaxChain = 3
  Debug = TRUE
  SectorBytes = 2
  MaxFiles = 16
  InodeBytes = 1
  PartSizes = {28, 30}
SPECIFICATION Spec
INVARIANT BootPreparesPartitions
CHECK_DEADLOCK FALSE
