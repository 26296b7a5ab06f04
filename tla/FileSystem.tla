------------------------------ MODULE FileSystem ------------------------------
(***************************************************************************)
(* The data path of an open file (FileData) and the root directory with   *)
(* the calls that change it (Directory), on one partition: both allocate  *)
(* from the same block and inode bitmaps through block_bitmap_alloc and   *)
(* inode_bitmap_alloc, and stop the same kernel.  The file FileData       *)
(* writes is already open; its entry is in a directory the calls on the   *)
(* root do not reach, so its inode is one of the bits in use at mount.    *)
(*                                                                         *)
(* The sectors of the file (disk) and of the directories (dblk) are kept  *)
(* apart; BlocksExclusive checks that no block is both.                   *)
(***************************************************************************)
EXTENDS Integers

CONSTANTS B, Direct, PerTable, PerSec, BBytes, IBytes, InitBlockBits, InitInodeBits,
          DataStart, BlockBitmapLba, MaxLba, Counts, Offsets, MaxWrites, Names, Debug

VARIABLES
  size, pos, sectors, table, disk, content, lastRead, nwrites, flag,   \* the file
  root, rtab, dblk, itab, dbbm, dibm, opened,                          \* the directories
  bbm, ibm, panicked                                                   \* shared

fileVars == <<size, pos, sectors, table, disk, content, lastRead, nwrites, flag>>
dirOnly  == <<root, rtab, dblk, itab, dibm, opened>>
vars == <<fileVars, dirOnly, dbbm, bbm, ibm, panicked>>

FD  == INSTANCE FileData
Dir == INSTANCE Directory

Init == FD!Init /\ Dir!Init

(***************************************************************************)
(* A call on the open file.  file_write follows each block_bitmap_alloc   *)
(* of a data block with bitmap_sync of the bit's sector (file.c 360, 428, *)
(* 476, 511); one byte of bitmap is one sector, so the block bitmap on    *)
(* disk is then the one in memory.  The table block of case 2 (line 439)  *)
(* is synced only by the loop after it: when inode_bitmap_alloc returns   *)
(* -1 at once (line 455), file_write returns with that bit set in memory  *)
(* only, and inode_sectors[12] set.                                       *)
(***************************************************************************)
TableUnsynced == sectors'[Direct] # sectors[Direct] /\ ~panicked'

FileStep ==
  /\ FD!Next
  /\ dbbm' = IF bbm' = bbm \/ TableUnsynced THEN dbbm ELSE bbm'
  /\ UNCHANGED dirOnly

\* A call on the root directory.
DirStep == Dir!Next /\ UNCHANGED fileVars

Next == FileStep \/ DirStep

Spec == Init /\ [][Next]_vars
-----------------------------------------------------------------------------
TypeOK == FD!TypeOK /\ Dir!TypeOK

RoundTrip == FD!RoundTrip

ReadReturnsContent == FD!ReadReturnsContent

DirSize == Dir!DirSize

ImageCoversMemory == Dir!ImageCoversMemory

(***************************************************************************)
(* Every block has one owner: each block the file or a directory points   *)
(* to is a data block whose bit is set in the block bitmap, no two         *)
(* pointers of the file and the directories name the same block, and none *)
(* but the root's block 0 is a block in use at mount.  file_write,         *)
(* sync_dir_entry and sys_mkdir allocate from the same bitmap, and        *)
(* delete_dir_entry and sys_rmdir give blocks back to it: a block handed  *)
(* out twice, or freed while still pointed to, would have its sectors     *)
(* written by two owners.                                                  *)
(***************************************************************************)
Owners == ({"file"} \X FD!Entries) \cup ({"dir"} \X Dir!DirPtrs)
PtrOf(o) == IF o[1] = "file" THEN FD!Ptrs[o[2]] ELSE Dir!DirPtr(o[2])

BlocksExclusive ==
  /\ \A o \in Owners : PtrOf(o) \in FD!DataLbas /\ bbm[PtrOf(o) - DataStart] = 1
  /\ \A o1, o2 \in Owners : o1 # o2 => PtrOf(o1) # PtrOf(o2)
  /\ \A o \in Owners : PtrOf(o) - DataStart \in InitBlockBits => o = <<"dir", <<0, 0>>>>
====
