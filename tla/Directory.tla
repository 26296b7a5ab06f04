------------------------------ MODULE Directory ------------------------------
(***************************************************************************)
(* The root directory of fs/dir.c and the system calls of fs/fs.c that     *)
(* change it: sys_open with O_CREAT (file_create), sys_close of the new    *)
(* descriptor, sys_unlink, sys_mkdir and sys_rmdir (dir_remove,            *)
(* inode_release).  Paths are "/name": search_file looks the name up in    *)
(* the root with search_dir_entry.                                         *)
(*                                                                         *)
(* The root inode is kept in memory (root_dir.inode, cached from mount on) *)
(* and on disk (the inode table, written by inode_sync); the bitmaps too:  *)
(* the copies in memory, and the sectors bitmap_sync writes.  A sector of *)
(* directory entries holds PerSec of them (512 / 24 = 21 in the code).    *)
(* An inode's size is counted in directory entries; the code keeps bytes, *)
(* dir_entry_size times as many.                                          *)
(*                                                                         *)
(* Every call runs to its end: a system call runs with interrupts off and *)
(* the disk waits inside are those of Devices.                            *)
(***************************************************************************)
EXTENDS Integers, FiniteSets, FiniteSetsExt

CONSTANTS
  Direct,          \* the direct entries of inode_sectors (12)
  PerTable,        \* the entries of the indirect table (128)
  PerSec,          \* directory entries per sector (21)
  BBytes,          \* block_bitmap.btmp_bytes_len
  IBytes,          \* inode_bitmap.btmp_bytes_len
  InitBlockBits,   \* the block bits in use at mount: the root's block 0, and others
  InitInodeBits,   \* the inode bits in use at mount: the root's 0, and others
  DataStart,       \* su_block->data_start_lba
  Names,           \* the names the calls use
  Debug            \* TRUE when ASSERT is compiled in

MaxBlocks == Direct + PerTable
DataLbas  == DataStart .. DataStart + 8 * BBytes - 1
InodeBits == 0 .. 8 * IBytes - 1
Slots     == 0 .. PerSec - 1
FTypes    == {"FT_UNKNOWN", "FT_REGULAR", "FT_DIRECTORY"}

ASSUME /\ Direct \in Nat \ {0} /\ PerTable \in Nat \ {0} /\ PerSec >= 2
       /\ 0 \in InitBlockBits /\ 0 \in InitInodeBits
       /\ {".", "..", ""} \cap Names = {}

VARIABLES
  root,      \* root_dir.inode in memory: [no, size, sec], sec[Direct] the table
  rtab,      \* the indirect table on disk the root points to
  dblk,      \* directory sectors on disk: lba -> the entries in its slots
  itab,      \* the inode table on disk: inode number -> [no, size, sec]
  bbm,       \* block_bitmap in memory, and the bit after it
  ibm,       \* inode_bitmap in memory, and the bit after it
  dbbm,      \* the block bitmap's sectors on disk
  dibm,      \* the inode bitmap's sectors on disk
  opened,    \* the inodes of the files file_create opened and not yet closed
  panicked   \* the kernel stopped in panic_spin

vars == <<root, rtab, dblk, itab, bbm, ibm, dbbm, dibm, opened, panicked>>

BBitmap == INSTANCE BitmapScan WITH BytesLen <- BBytes, Sizes <- {1}, InitBits <- {},
                                   bits <- bbm, runs <- {}, boot <- {}
IBitmap == INSTANCE BitmapScan WITH BytesLen <- IBytes, Sizes <- {1}, InitBits <- {},
                                   bits <- ibm, runs <- {}, boot <- {}
Panic == BBitmap!Panic

Lba(bit) == DataStart + bit
Bit(lba) == lba - DataStart
SetBit(bm, i) == [bm EXCEPT ![i] = 1]

\* struct dir_entry; a slot memset to 0 has type FT_UNKNOWN and name "".
Entry == [name : Names \cup {".", "..", ""}, ino : InodeBits, ft : FTypes]
Empty == [name |-> "", ino |-> 0, ft |-> "FT_UNKNOWN"]
Inode == [no : InodeBits, size : 0 .. PerSec * MaxBlocks,
          sec : [0 .. Direct -> {0} \cup DataLbas]]

\* create_dir_entry (dir.c 134-142).
NewEntry(n, i, t) == [name |-> n, ino |-> i, ft |-> t]
\* inode_init (inode.c 183-197): no blocks and size 0.
NewInode(i) == [no |-> i, size |-> 0, sec |-> [k \in 0 .. Direct |-> 0]]
\* A sector zeroed in io_buf with entry e copied to its start.
OneEntry(e) == [k \in Slots |-> IF k = 0 THEN e ELSE Empty]

TypeOK ==
  /\ root \in Inode /\ itab \in [InodeBits -> Inode]
  /\ rtab \in [Direct .. MaxBlocks - 1 -> {0} \cup DataLbas]
  /\ dblk \in [DataLbas -> [Slots -> Entry]]
  /\ bbm \in [BBitmap!Mem -> {0, 1}] /\ ibm \in [IBitmap!Mem -> {0, 1}]
  /\ dbbm \in [BBitmap!Mem -> {0, 1}] /\ dibm \in [IBitmap!Mem -> {0, 1}]
  /\ opened \subseteq InodeBits /\ panicked \in BOOLEAN

\* The partition as format (fs.c) leaves it and mount loads it: the root,
\* inode 0, of two entries in its block at data_start_lba, which holds "."
\* and "..", both inode 0.
RootInode == [no |-> 0, size |-> 2,
              sec |-> [k \in 0 .. Direct |-> IF k = 0 THEN DataStart ELSE 0]]
Init ==
  /\ root = RootInode
  /\ rtab = [j \in Direct .. MaxBlocks - 1 |-> 0]
  /\ dblk = [l \in DataLbas |->
               IF l = DataStart
                 THEN [k \in Slots |-> CASE k = 0 -> NewEntry(".", 0, "FT_DIRECTORY")
                                         [] k = 1 -> NewEntry("..", 0, "FT_DIRECTORY")
                                         [] OTHER -> Empty]
                 ELSE [k \in Slots |-> Empty]]
  /\ itab = [i \in InodeBits |-> IF i = 0 THEN RootInode ELSE NewInode(0)]
  /\ bbm = [i \in BBitmap!Mem |-> IF i \in InitBlockBits THEN 1 ELSE 0]
  /\ ibm = [i \in IBitmap!Mem |-> IF i \in InitInodeBits THEN 1 ELSE 0]
  /\ dbbm = bbm /\ dibm = ibm
  /\ opened = {} /\ panicked = FALSE
-----------------------------------------------------------------------------
(***************************************************************************)
(* all_blocks of a directory inode r whose table on disk is tab: the       *)
(* direct entries, then the table when sec[Direct] is set.                 *)
(***************************************************************************)
DirBlocks(r, tab) ==
  [j \in 0 .. MaxBlocks - 1 |-> IF j < Direct THEN r.sec[j]
                                ELSE IF r.sec[Direct] # 0 THEN tab[j] ELSE 0]

(***************************************************************************)
(* search_dir_entry (dir.c 47-111) of name n in the root: the first slot, *)
(* block by block, whose filename is n.  Its ide_read of the table is     *)
(* given the value all_blcoks[12], not its address (line 71), so entries  *)
(* 12..139 of all_blcoks keep what sys_malloc left there; the model takes *)
(* them as 0, and the search sees the direct blocks only.                 *)
(***************************************************************************)
Hits(n) == {jk \in (0 .. Direct - 1) \X Slots :
              root.sec[jk[1]] # 0 /\ dblk[root.sec[jk[1]]][jk[2]].name = n}
Found(n) == Hits(n) # {}
FirstHit(n) == CHOOSE h \in Hits(n) :
                 \A g \in Hits(n) : h[1] < g[1] \/ (h[1] = g[1] /\ h[2] <= g[2])
FoundEntry(n) == dblk[root.sec[FirstHit(n)[1]]][FirstHit(n)[2]]
-----------------------------------------------------------------------------
HasFree(s) == \E k \in Slots : s[k].ft = "FT_UNKNOWN"
FreeSlot(s) == Min({k \in Slots : s[k].ft = "FT_UNKNOWN"})

\* The block_idx at which the loop of sync_dir_entry stops: the first direct
\* entry that is 0 or has a free slot, else 12, where all_blocks[12], never
\* read from the table, is 0.
SyncAt(blk) ==
  Min({j \in 0 .. Direct : j = Direct \/ root.sec[j] = 0 \/ HasFree(blk[root.sec[j]])})

\* The outcome of a directory operation: how it ended, and the root inode,
\* its table, the directory sectors and the two copies of the block bitmap.
Outcome(res, r, tab, blk, bm, dbm) ==
  [res |-> res, root |-> r, tab |-> tab, blk |-> blk, bm |-> bm, dbm |-> dbm]

(***************************************************************************)
(* sync_dir_entry (dir.c 151-260) of entry e into the root, from the       *)
(* bitmaps bm and dbm and the sectors blk.  A direct block with a free     *)
(* slot takes e.  A 0 entry gets a block from block_bitmap_alloc, synced   *)
(* at once.  At 12 that block becomes the table and a second one the data *)
(* block; when the second allocation fails, the table's bit is cleared in  *)
(* memory only (line 212) and inode_sectors[12] set to 0.                  *)
(***************************************************************************)
\* Mutant: the entry is written but inode_size is not raised.
GrownNot(r) == r

\* inode_size += dir_entry_size once the entry is on disk (dir.c 238, 251).
Grown(r) == [r EXCEPT !.size = @ + 1]

SyncDirEntry(bm, dbm, blk, e) ==
  LET j   == SyncAt(blk)
      a   == BBitmap!BitmapScan(bm, 1)
      bm1 == SetBit(bm, a)
      t   == BBitmap!BitmapScan(bm1, 1)
  IN CASE j < Direct /\ root.sec[j] # 0 ->
            LET l == root.sec[j]
            IN Outcome("ok", Grown(root), rtab,
                       [blk EXCEPT ![l][FreeSlot(blk[l])] = e], bm, dbm)
       [] a = Panic -> Outcome("panic", root, rtab, blk, bm, dbm)
       [] a = -1 -> Outcome("fail", root, rtab, blk, bm, dbm)
       [] j < Direct ->
            Outcome("ok", Grown([root EXCEPT !.sec[j] = Lba(a)]), rtab,
                    [blk EXCEPT ![Lba(a)] = OneEntry(e)], bm1, bm1)
       [] t = Panic -> Outcome("panic", root, rtab, blk, bm1, bm1)
       [] t = -1 ->
            Outcome("fail", [root EXCEPT !.sec[Direct] = 0], rtab, blk,
                    [bm1 EXCEPT ![a] = 0], bm1)
       [] OTHER ->
            Outcome("ok", Grown([root EXCEPT !.sec[Direct] = Lba(a)]),
                    [k \in Direct .. MaxBlocks - 1 |-> IF k = Direct THEN Lba(t) ELSE 0],
                    [blk EXCEPT ![Lba(t)] = OneEntry(e)], SetBit(bm1, t), SetBit(bm1, t))

(***************************************************************************)
(* delete_dir_entry (dir.c 273-418) of the entry of inode ino in the root. *)
(* The first block holding it decides: when the entry is the only one     *)
(* besides "." and ".." and the block is not the one with ".", the block  *)
(* is freed and synced and inode_sectors[block_idx] set to 0 (the test of *)
(* line 338 is on dir_entry_count, always 1 there, so an index of 12 or   *)
(* more clears the table pointer or writes past the array, which the      *)
(* model does not keep); otherwise the slot is zeroed.  The size drops by *)
(* one entry; the caller syncs the inode.                                  *)
(***************************************************************************)
IsFile(s, k) == s[k].ft # "FT_UNKNOWN" /\ s[k].name \notin {".", ".."}

\* Mutant: no block counts as the directory's first.
FirstBlockNever(s) == FALSE

\* is_dir_first_block: the sector holds "." (dir.c 318-321).
FirstBlock(s) == \E m \in Slots : s[m].ft # "FT_UNKNOWN" /\ s[m].name = "."

DeleteDirEntry(ino) ==
  LET ab  == DirBlocks(root, rtab)
      at  == {j \in 0 .. MaxBlocks - 1 :
                ab[j] # 0 /\ \E k \in Slots : IsFile(dblk[ab[j]], k) /\ dblk[ab[j]][k].ino = ino}
      j   == Min(at)
      l   == ab[j]
      k   == CHOOSE k \in Slots : IsFile(dblk[l], k) /\ dblk[l][k].ino = ino
      cnt == Cardinality({m \in Slots : IsFile(dblk[l], m)})
      shrunk == [root EXCEPT !.size = @ - 1]
      bm  == [bbm EXCEPT ![Bit(l)] = 0]
  IN CASE at = {} -> Outcome("fail", root, rtab, dblk, bbm, dbbm)
       [] cnt = 1 /\ ~FirstBlock(dblk[l]) ->
            Outcome("ok", [shrunk EXCEPT !.sec[j] = 0], rtab, dblk, bm, bm)
       [] OTHER ->
            Outcome("ok", shrunk, rtab, [dblk EXCEPT ![l][k] = Empty], bbm, dbbm)
-----------------------------------------------------------------------------
\* The kernel stops: PANIC, or an ASSERT that fails.
Halt ==
  /\ panicked' = TRUE
  /\ UNCHANGED <<root, rtab, dblk, itab, bbm, ibm, dbbm, dibm, opened>>

\* The directory part of an outcome becomes the state.
Apply(o) ==
  /\ root' = o.root /\ rtab' = o.tab /\ dblk' = o.blk /\ bbm' = o.bm /\ dbbm' = o.dbm

\* Mutant: the new inode's bit is not synced to disk.
CommitNoBitmapSync(s, i, r) ==
  /\ Apply(s) /\ itab' = [itab EXCEPT ![0] = s.root, ![i] = r]
  /\ ibm' = SetBit(ibm, i) /\ dibm' = dibm

\* The end of file_create and sys_mkdir after sync_dir_entry s put the entry
\* of the new inode i in: inode_sync of the root, inode_sync of the new
\* inode r, and bitmap_sync of bit i of the inode bitmap.
Commit(s, i, r) ==
  /\ Apply(s) /\ itab' = [itab EXCEPT ![0] = s.root, ![i] = r]
  /\ ibm' = SetBit(ibm, i) /\ dibm' = SetBit(ibm, i)

(***************************************************************************)
(* sys_open("/n", O_CREAT | O_RDWR) (fs.c 435-505) when search_file does   *)
(* not find n, and file_create (file.c 134-230): inode_bitmap_alloc, the   *)
(* entry, then inode_sync of the root and of the new inode and bitmap_sync *)
(* of the inode bit; the descriptor stays open.  When sync_dir_entry fails *)
(* the rollback clears the inode bit in memory.  The failures that change *)
(* nothing (no inode, a malloc, a full file_table) are left out.          *)
(***************************************************************************)
FileCreate(n) ==
  /\ ~panicked /\ ~Found(n)
  /\ LET i == IBitmap!BitmapScan(ibm, 1)
         s == SyncDirEntry(bbm, dbbm, dblk, NewEntry(n, i, "FT_REGULAR"))
     IN /\ i # -1
        /\ CASE i = Panic \/ s.res = "panic" -> Halt
             [] s.res = "fail" -> Apply(s) /\ UNCHANGED <<itab, ibm, dibm, opened, panicked>>
             [] OTHER ->
                  /\ Commit(s, i, NewInode(i))
                  /\ opened' = opened \cup {i}
                  /\ UNCHANGED panicked

\* sys_close (fs.c 528-538) of the new file's descriptor: file_close
\* (file.c 285-295) drops the open inode; nothing on disk changes.
SysClose(i) ==
  /\ ~panicked /\ i \in opened
  /\ opened' = opened \ {i}
  /\ UNCHANGED <<root, rtab, dblk, itab, bbm, ibm, dbbm, dibm, panicked>>

(***************************************************************************)
(* sys_unlink("/n") (fs.c 632-690): a regular file no file_table slot     *)
(* holds loses its entry (delete_dir_entry, which syncs the root).  The   *)
(* inode and its blocks are not released.                                  *)
(***************************************************************************)
SysUnlink(n) ==
  /\ ~panicked /\ Found(n)
  /\ FoundEntry(n).ft = "FT_REGULAR" /\ FoundEntry(n).ino \notin opened
  /\ LET d == DeleteDirEntry(FoundEntry(n).ino)
     IN /\ Apply(d)
        /\ itab' = [itab EXCEPT ![0] = d.root]
        /\ UNCHANGED <<ibm, dibm, opened, panicked>>

(***************************************************************************)
(* sys_mkdir("/n") (fs.c 698-835): inode_bitmap_alloc, block_bitmap_alloc *)
(* and its bitmap_sync, "." and ".." written to the block, the entry, then *)
(* inode_sync of the root and of the new inode and bitmap_sync of the     *)
(* inode bit.  Rollback step 2 clears the inode bit only: the block stays *)
(* allocated, in memory and on disk.                                        *)
(***************************************************************************)
SysMkdir(n) ==
  /\ ~panicked /\ ~Found(n)
  /\ LET i   == IBitmap!BitmapScan(ibm, 1)
         b   == BBitmap!BitmapScan(bbm, 1)
         bm1 == SetBit(bbm, b)
         blk == [dblk EXCEPT ![Lba(b)] =
                   [k \in Slots |-> CASE k = 0 -> NewEntry(".", i, "FT_DIRECTORY")
                                      [] k = 1 -> NewEntry("..", root.no, "FT_DIRECTORY")
                                      [] OTHER -> Empty]]
         s   == SyncDirEntry(bm1, bm1, blk, NewEntry(n, i, "FT_DIRECTORY"))
     IN /\ i # -1 /\ b # -1
        /\ CASE i = Panic \/ b = Panic \/ s.res = "panic" -> Halt
             [] s.res = "fail" -> Apply(s) /\ UNCHANGED <<itab, ibm, dibm, opened, panicked>>
             [] OTHER ->
                  /\ Commit(s, i, [no |-> i, size |-> 2,
                                    sec |-> [k \in 0 .. Direct |-> IF k = 0 THEN Lba(b) ELSE 0]])
                  /\ UNCHANGED <<opened, panicked>>

(***************************************************************************)
(* sys_rmdir("/n") (fs.c 922-963) of a directory whose inode, read from    *)
(* disk by dir_open, has the size of "." and ".." (dir_is_empty), and      *)
(* dir_remove (dir.c 512-540): delete_dir_entry, then inode_release        *)
(* (inode.c 243-304), which frees the blocks of the inode with a          *)
(* bitmap_sync each, clears its inode bit and syncs it as BLOCK_BITMAP     *)
(* (line 295), and zeroes the inode on disk (inode_delete).                *)
(***************************************************************************)
\* dir_is_empty (dir.c 498-503): the inode holds "." and ".." only.
DirIsEmpty(c) == c.size = 2

\* The block bitmap bm after inode_release (inode.c 250-291) cleared, and
\* synced, the bits of the blocks of inode c.  A subdirectory never has a
\* table: sync_dir_entry only ever adds to the root.
ReleaseBlocks(c, bm) ==
  [i \in DOMAIN bm |-> IF \E k \in 0 .. Direct : c.sec[k] = Lba(i) THEN 0 ELSE bm[i]]

SysRmdir(n) ==
  /\ ~panicked /\ Found(n)
  /\ FoundEntry(n).ft = "FT_DIRECTORY"
  /\ LET c == itab[FoundEntry(n).ino]
         d == DeleteDirEntry(c.no)
     IN /\ DirIsEmpty(c)
        /\ root' = d.root /\ rtab' = d.tab /\ dblk' = d.blk
        /\ bbm' = ReleaseBlocks(c, d.bm) /\ dbbm' = ReleaseBlocks(c, d.bm)
        /\ ibm' = [ibm EXCEPT ![c.no] = 0]
        /\ itab' = [itab EXCEPT ![0] = d.root, ![c.no] = NewInode(0)]
        /\ UNCHANGED <<dibm, opened, panicked>>

Next ==
  \/ \E n \in Names : FileCreate(n) \/ SysMkdir(n) \/ SysUnlink(n) \/ SysRmdir(n)
  \/ \E i \in opened : SysClose(i)

Spec == Init /\ [][Next]_vars

-----------------------------------------------------------------------------
\* The used slots of a directory inode r with table tab, as <<block, slot>>.
UsedSlots(r, tab) ==
  LET ab == DirBlocks(r, tab)
  IN {jk \in (0 .. MaxBlocks - 1) \X Slots :
        ab[jk[1]] # 0 /\ dblk[ab[jk[1]]][jk[2]].ft # "FT_UNKNOWN"}
RootEntries == {dblk[DirBlocks(root, rtab)[jk[1]]][jk[2]] : jk \in UsedSlots(root, rtab)}
ChildDirs == {e.ino : e \in {e \in RootEntries : e.ft = "FT_DIRECTORY" /\ e.name \in Names}}
NoTable == [j \in Direct .. MaxBlocks - 1 |-> 0]

\* The blocks the root and its subdirectories point to, by position: the
\* root's all_blocks and its table block, and block 0 of each subdirectory.
PtrPos == ({0} \X (0 .. MaxBlocks)) \cup (ChildDirs \X {0})
DirPtr(p) == IF p[1] # 0 THEN itab[p[1]].sec[0]
             ELSE IF p[2] = MaxBlocks THEN root.sec[Direct]
             ELSE DirBlocks(root, rtab)[p[2]]
DirPtrs == {p \in PtrPos : DirPtr(p) # 0}

(***************************************************************************)
(* The spec's directory invariant: the size of every directory inode is    *)
(* the number of used entries in its blocks, and "." and ".." are in its  *)
(* block 0.  It needs sync_dir_entry to put each new entry where the root *)
(* keeps finding it, and delete_dir_entry to take one entry off the count *)
(* for each one it clears, also when it frees the block.                  *)
(***************************************************************************)
DotsInFirst(r) ==
  /\ r.sec[0] # 0
  /\ \E k \in Slots : dblk[r.sec[0]][k].name = "." /\ dblk[r.sec[0]][k].ft = "FT_DIRECTORY"
  /\ \E k \in Slots : dblk[r.sec[0]][k].name = ".." /\ dblk[r.sec[0]][k].ft = "FT_DIRECTORY"

DirSize ==
  /\ Cardinality(UsedSlots(root, rtab)) = root.size /\ DotsInFirst(root)
  /\ \A i \in ChildDirs :
       Cardinality(UsedSlots(itab[i], NoTable)) = itab[i].size /\ DotsInFirst(itab[i])

(***************************************************************************)
(* Between system calls the disk covers memory: the root inode on disk is *)
(* the one in memory, and every block and inode bit set in memory is set  *)
(* in the bitmap sectors.  A mount after a power loss then sees the root  *)
(* as it was and hands out nothing that is in use.  It is about the       *)
(* inode_sync and bitmap_sync calls at the end of file_create, sys_mkdir  *)
(* and delete_dir_entry, and the rollbacks that skip them.                *)
(***************************************************************************)
ImageCoversMemory ==
  /\ itab[0] = root
  /\ \A i \in DOMAIN bbm : bbm[i] = 1 => dbbm[i] = 1
  /\ \A i \in DOMAIN ibm : ibm[i] = 1 => dibm[i] = 1

(***************************************************************************)
(* The file system is clean, as a checker run after any call would find  *)
(* it: memory and disk hold the same bitmaps, a block bit is set exactly  *)
(* for the blocks in use at mount and those the root and its             *)
(* subdirectories point to, and an inode bit exactly for those in use at *)
(* mount and those the root's entries name.  The spec: inode_release     *)
(* clears the inode bit, unlink frees the inode and its blocks, and      *)
(* bitmap changes are written through to disk.                           *)
(***************************************************************************)
FsckClean ==
  /\ dbbm = bbm /\ dibm = ibm
  /\ {i \in 0 .. 8 * BBytes - 1 : bbm[i] = 1} = InitBlockBits \cup {Bit(DirPtr(p)) : p \in DirPtrs}
  /\ {i \in InodeBits : ibm[i] = 1} =
       InitInodeBits \cup {e.ino : e \in {e \in RootEntries : e.name \in Names}}
====
