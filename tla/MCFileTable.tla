---------------------------- MODULE MCFileTable ----------------------------
EXTENDS FileTable

CONSTANTS p1, p2, p3, n1, n2, e1, e2, e3, noInode, noEnt, noFd, noDent

MCProcs == {p1, p2}
\* p2 only comes to exist through sys_fork of p1.
MCInitProcs == {p1}
MCNames == {n1, n2}
MCInodes == 1..3
MCSlots == 1..2
MCFds == 1..1
MCIds == {e1, e2}
\* 2^32 in the code; TLC integers stop at 2^31 - 1, and no count here
\* comes near either.
MCCntMod == 65536
MCMaxOpenCnt == 3
\* One directory slot per inode; n1 names an existing file in the first,
\* n2 is free for O_CREAT.
MCDSlots == 1..3
MCInitDents == [k \in MCDSlots |-> IF k = 1 THEN [name |-> n1, ino |-> 1] ELSE noDent]
=============================================================================
