---------------------------- MODULE MCFileSystem ----------------------------
(***************************************************************************)
(* FileSystem for TLC: blocks of 2 bytes and 4 direct blocks for the file, *)
(* a root whose sectors hold 2 entries, and one name (b is declared for a *)
(* run with two names, which takes past five minutes).  Block bits 0 .. 4 *)
(* are in use at mount, so the file and the directories compete for three *)
(* free blocks; inode bits 0 .. 4 too (the root, the open file and files  *)
(* the model does not name), so three inodes are free.                    *)
(***************************************************************************)
EXTENDS FileSystem, TLC

CONSTANTS a, b

MCNames == {a}
MCBlockBits == 0 .. 4
MCInodeBits == 0 .. 4
MCOffsets == {-1, 0, 1}

\* No property names a name: any permutation of the names maps a behaviour
\* to one that satisfies the same properties (trivial with one name).
MCSym == Permutations(MCNames)

(***************************************************************************)
(* The state up to data no call reads again: the table on disk when the  *)
(* root has none (sync_dir_entry writes a whole new one before it points  *)
(* to it), and the entries of directory sectors nothing points to (a     *)
(* sector a directory takes is zeroed and written whole first).          *)
(***************************************************************************)
Refd == {Dir!DirPtr(p) : p \in Dir!DirPtrs}
MCView == <<fileVars, root, IF root.sec[Direct] # 0 THEN rtab ELSE Dir!NoTable,
            [l \in FD!DataLbas |-> IF l \in Refd THEN dblk[l] ELSE [k \in Dir!Slots |-> Dir!Empty]],
            itab, bbm, ibm, dbbm, dibm, opened, panicked>>
====
