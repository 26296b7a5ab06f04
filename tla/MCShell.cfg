\* The shell's commands over every argument of MCArgs, from a fresh partition
\* and from one holding a file /a.
CONSTANTS
  Inodes <- MCInodes
  Args <- MCArgs
  InitTrees <- MCInitTrees
  MaxFds = 1
  MaxSlots = 2
SPECIFICATION Spec
\* A failed ASSERT stops the kernel (panic_spin); nothing runs after it.
CHECK_DEADLOCK FALSE
INVARIANT TypeOK
PROPERTY ShellResolvesPaths
PROPERTY CommandsFollowResolution
