\* The bounds of the directory part of MCFileSystem, with two names.
CONSTANTS
  a = a
  b = b
  c = c
  Direct = 4
  PerTable = 2
  PerSec = 2
  BBytes = 1
  IBytes = 1
  InitBlockBits <- MCBlockBits
  InitInodeBits <- MCInodeBits
  DataStart = 100
  Names <- MCNames2
  Debug = FALSE
SPECIFICATION Spec
INVARIANT FsckClean
SYMMETRY MCSym2
VIEW MCView
\* A call that fails without a change is a stutter; the kernel runs on.
CHECK_DEADLOCK FALSE
