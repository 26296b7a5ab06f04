---------------------------- MODULE MCDirectory ----------------------------
(***************************************************************************)
(* Directory for TLC on its own: one byte of block and of inode bitmap,    *)
(* bits 0 .. 4 of each in use at mount, so three blocks and three inodes  *)
(* are free.                                                               *)
(***************************************************************************)
EXTENDS Directory, TLC

CONSTANTS a, b, c

MCNames2 == {a, b}
MCNames3 == {a, b, c}
MCBlockBits == 0 .. 4
MCInodeBits == 0 .. 4
\* Room for the root to fill its direct blocks and take a second table.
MCRoomyBlockBits == 0 .. 2
MCRoomyInodeBits == 0 .. 1

\* No property names a name: any permutation of the names maps a behaviour
\* to one that satisfies the same properties.
MCSym2 == Permutations(MCNames2)
MCSym3 == Permutations(MCNames3)

(***************************************************************************)
(* The state up to data no call reads again: the table on disk when the  *)
(* root has none, and the entries of sectors nothing points to (a sector *)
(* a directory takes is zeroed and written whole first).                 *)
(***************************************************************************)
Refd == {DirPtr(p) : p \in DirPtrs}
MCView == <<root, IF root.sec[Direct] # 0 THEN rtab ELSE NoTable,
            [l \in DataLbas |-> IF l \in Refd THEN dblk[l] ELSE [k \in Slots |-> Empty]],
            itab, bbm, ibm, dbbm, dibm, opened, panicked>>
====
