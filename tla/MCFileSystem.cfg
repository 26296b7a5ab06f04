CONSTANTS
  a = a
  b = b
  B = 2
  Direct = 4
  PerTable = 2
  PerSec = 2
  BBytes = 1
  IBytes = 1
  InitBlockBits <- MCBlockBits
  InitInodeBits <- MCInodeBits
  DataStart = 100
  BlockBitmapLba = 90
  MaxLba = 163839
  Counts = {1, 2}
  Offsets <- MCOffsets
  MaxWrites = 3
  Names <- MCNames
  Debug = FALSE
SPECIFICATION Spec
INVARIANTS TypeOK RoundTrip BlocksExclusive DirSize ImageCoversMemory
PROPERTIES ReadReturnsContent
SYMMETRY MCSym
VIEW MCView
