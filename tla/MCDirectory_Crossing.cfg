\* Two direct blocks of two entries each: the fourth entry of the root is the
\* second in its indirect table.
CONSTANTS
  a = a
  b = b
  c = c
  Direct = 2
  PerTable = 2
  PerSec = 2
  BBytes = 1
  IBytes = 1
  InitBlockBits <- MCRoomyBlockBits
  InitInodeBits <- MCRoomyInodeBits
  DataStart = 100
  Names <- MCNames3
  Debug = FALSE
SPECIFICATION Spec
INVARIANT DirSize
SYMMETRY MCSym3
VIEW MCView
\* A call that fails without a change is a stutter; the kernel runs on.
CHECK_DEADLOCK FALSE
