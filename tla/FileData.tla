------------------------------ MODULE FileData ------------------------------
(***************************************************************************)
(* The data path of one regular file in fs/file.c and fs/fs.c: file_write, *)
(* file_read and sys_lseek on a descriptor opened O_RDWR, with the block   *)
(* and inode allocators (block_bitmap_alloc, inode_bitmap_alloc) and the   *)
(* bitmap_sync that follows every allocation.                               *)
(*                                                                         *)
(* A block holds B bytes (512 in the code), an inode Direct direct blocks  *)
(* (12) and an indirect table of PerTable entries (128); MaxBlocks is the  *)
(* 140 of the code's limits.  The disk is modelled from data_start_lba on: *)
(* one sequence of B bytes per data block.  Bitmaps are those of           *)
(* BitmapScan, whose scan both allocators call with cnt = 1.  The byte     *)
(* written by the k-th write is k, so that a read tells writes apart.      *)
(*                                                                         *)
(* Every call runs to its end without a context switch in the model: the  *)
(* file has one user, and the disk requests inside are those of Devices.  *)
(***************************************************************************)
EXTENDS Integers, Sequences, FiniteSets, Functions

CONSTANTS
  B,               \* BLOCK_SIZE
  Direct,          \* the direct entries of inode_sectors (12)
  PerTable,        \* the entries of the indirect table (128)
  BBytes,          \* block_bitmap.btmp_bytes_len
  IBytes,          \* inode_bitmap.btmp_bytes_len
  InitBlockBits,   \* the block bits in use before the file's first write
  InitInodeBits,   \* the inode bits in use (the root and this file)
  DataStart,       \* su_block->data_start_lba
  BlockBitmapLba,  \* su_block->block_bitmap_lba
  MaxLba,          \* max_lba of ide.c, the last sector of the disk
  Counts,          \* the count arguments of sys_write and sys_read
  Offsets,         \* the offset arguments of sys_lseek
  MaxWrites,       \* bound on the sys_write calls
  Debug            \* TRUE when ASSERT is compiled in

MaxBlocks == Direct + PerTable
BlockBits == 0 .. 8 * BBytes - 1
InodeBits == 0 .. 8 * IBytes - 1
DataLbas  == DataStart .. DataStart + 8 * BBytes - 1
Bytes     == 0 .. MaxWrites
Whences   == {"SEEK_START", "SEEK_CUR", "SEEK_END"}
Flags     == {"O_RDONLY", "O_WRONLY", "O_RDWR"}

ASSUME /\ B \in Nat \ {0} /\ Direct \in Nat \ {0} /\ PerTable \in Nat \ {0}
       /\ InitBlockBits \subseteq BlockBits /\ 0 \in InitBlockBits
       /\ InitInodeBits \subseteq InodeBits
       \* The inode numbers are all below data_start_lba, as in the partition
       \* format of fs.c for the inodes the model hands out.
       /\ 8 * IBytes <= DataStart

VARIABLES
  size,      \* fd_inode->inode_size
  pos,       \* fd_pos
  sectors,   \* fd_inode->inode_sectors[0..12]; 0 is no block
  table,     \* the indirect table on disk, entries 12..139 of all_blocks
  disk,      \* the data blocks: lba -> the B bytes of the sector
  bbm,       \* block_bitmap, and the bit after it
  ibm,       \* inode_bitmap, and the bit after it
  content,   \* what the calls that returned wrote, in order
  lastRead,  \* the bytes the last sys_read returned
  nwrites,   \* the sys_write calls so far
  flag,      \* fd_flag of the descriptor
  panicked   \* the kernel stopped in panic_spin

vars == <<size, pos, sectors, table, disk, bbm, ibm, content, lastRead, nwrites, flag, panicked>>

BBitmap == INSTANCE BitmapScan WITH BytesLen <- BBytes, Sizes <- {1}, InitBits <- {},
                                   bits <- bbm, runs <- {}, boot <- {}
IBitmap == INSTANCE BitmapScan WITH BytesLen <- IBytes, Sizes <- {1}, InitBits <- {},
                                   bits <- ibm, runs <- {}, boot <- {}
Panic == BBitmap!Panic

TypeOK ==
  /\ size \in 0 .. B * MaxBlocks /\ pos \in 0 .. B * MaxBlocks
  /\ sectors \in [0 .. Direct -> {0} \cup DataLbas]
  /\ table \in [Direct .. MaxBlocks - 1 -> {0} \cup DataLbas]
  /\ disk \in [DataLbas -> [1 .. B -> Bytes]]
  /\ bbm \in [BBitmap!Mem -> {0, 1}] /\ ibm \in [IBitmap!Mem -> {0, 1}]
  /\ content \in Seq(Bytes) /\ lastRead \in Seq(Bytes)
  /\ nwrites \in 0 .. MaxWrites /\ flag \in Flags /\ panicked \in BOOLEAN

\* A file just made by sys_open with O_CREAT | O_RDWR: inode_init clears
\* inode_sectors and inode_size, file_create sets fd_pos to 0.
Init ==
  /\ size = 0 /\ pos = 0
  /\ sectors = [i \in 0 .. Direct |-> 0]
  /\ table = [i \in Direct .. MaxBlocks - 1 |-> 0]
  /\ disk = [l \in DataLbas |-> [i \in 1 .. B |-> 0]]
  /\ bbm = [i \in BBitmap!Mem |-> IF i \in InitBlockBits THEN 1 ELSE 0]
  /\ ibm = [i \in IBitmap!Mem |-> IF i \in InitInodeBits THEN 1 ELSE 0]
  /\ content = <<>> /\ lastRead = <<>> /\ nwrites = 0 /\ flag = "O_RDWR"
  /\ panicked = FALSE

SetBit(bm, i) == [bm EXCEPT ![i] = 1]

(***************************************************************************)
(* bitmap_sync (file.c 102-127) of block bit idx, an unsigned 32-bit       *)
(* value: the sector it writes is block_bitmap_lba + idx / 4096.  An idx   *)
(* below 0 wraps to 2^32 + idx.  ide_write refuses a sector past max_lba:  *)
(* its ASSERT (ide.c 390) panics, and without it the drive reports an     *)
(* error and busy_wait fails, which panics at ide.c 421.                   *)
(***************************************************************************)
OffSec(idx) == IF idx >= 0 THEN idx \div 4096 ELSE 2^20 + idx \div 4096
SyncFails(idx) == BlockBitmapLba + OffSec(idx) > MaxLba

(***************************************************************************)
(* The allocation loops of file_write: k calls of block_bitmap_alloc       *)
(* (file.c 85-94), each a scan, a bitmap_set and a bitmap_sync.  The       *)
(* result has the bitmap after the loop, the bits it handed out in order   *)
(* and how the loop ended: "ok", "fail" (a scan returned -1, file_write    *)
(* returns -1 keeping what it allocated) or "panic".                       *)
(***************************************************************************)
\* Mutant: block_bitmap_alloc without the bitmap_set of line 92.
RECURSIVE AllocBlocksNoSet(_, _)
AllocBlocksNoSet(bm, k) ==
  IF k = 0 THEN [bm |-> bm, got |-> <<>>, res |-> "ok"]
  ELSE LET r == BBitmap!BitmapScan(bm, 1) IN
       IF r = Panic THEN [bm |-> bm, got |-> <<>>, res |-> "panic"]
       ELSE IF r = -1 THEN [bm |-> bm, got |-> <<>>, res |-> "fail"]
       ELSE LET rest == AllocBlocksNoSet(bm, k - 1)
            IN [rest EXCEPT !.got = <<r>> \o rest.got]

RECURSIVE AllocBlocks(_, _)
AllocBlocks(bm, k) ==
  IF k = 0 THEN [bm |-> bm, got |-> <<>>, res |-> "ok"]
  ELSE LET r == BBitmap!BitmapScan(bm, 1) IN
       IF r = Panic THEN [bm |-> bm, got |-> <<>>, res |-> "panic"]
       ELSE IF r = -1 THEN [bm |-> bm, got |-> <<>>, res |-> "fail"]
       ELSE LET rest == AllocBlocks(SetBit(bm, r), k - 1)
            IN [rest EXCEPT !.got = <<r>> \o rest.got]

\* Block j of the blocks from `from` on that an allocation loop handed out.
Placed(f, from, got) ==
  [j \in DOMAIN f |-> IF j - from + 1 \in 1 .. Len(got) THEN DataStart + got[j - from + 1]
                      ELSE f[j]]
-----------------------------------------------------------------------------
\* all_blocks as file_write fills it from the inode and the indirect table.
AllBlocks(sec, tab) == [j \in 0 .. MaxBlocks - 1 |-> IF j < Direct THEN sec[j] ELSE tab[j]]

(***************************************************************************)
(* The write loop of file_write (file.c 518-546) of c bytes of value k at  *)
(* offsets size .. size+c-1 through all_blocks ab.  The first block is     *)
(* read, patched and written back; every later one is zeroed in io_buf     *)
(* and overwritten from its start.                                          *)
(***************************************************************************)
Touched(ab, c) == {ab[j] : j \in size \div B .. (size + c - 1) \div B}

\* Mutant: the first block is not read before the patch (the
\* first_write_block test dropped), so its earlier bytes become 0.
WriteLoopNoRead(d, ab, c, k) ==
  [l \in DOMAIN d |->
     IF l \notin Touched(ab, c) THEN d[l]
     ELSE LET j == CHOOSE j \in size \div B .. (size + c - 1) \div B : ab[j] = l
          IN [i \in 1 .. B |-> IF j * B + i - 1 \in size .. size + c - 1 THEN k ELSE 0]]

WriteLoop(d, ab, c, k) ==
  [l \in DOMAIN d |->
     IF l \notin Touched(ab, c) THEN d[l]
     ELSE LET j == CHOOSE j \in size \div B .. (size + c - 1) \div B : ab[j] = l
          IN [i \in 1 .. B |-> IF j * B + i - 1 \in size .. size + c - 1 THEN k
                                ELSE IF j = size \div B THEN d[l][i] ELSE 0]]

\* The kernel stops: PANIC, or an ASSERT that fails.
Halt ==
  /\ panicked' = TRUE
  /\ UNCHANGED <<size, pos, sectors, table, disk, bbm, ibm, content, lastRead, nwrites, flag>>

\* file_write returns -1 keeping the blocks it allocated before the failure.
WriteFails(sec, tab, bm) ==
  /\ sectors' = sec /\ table' = tab /\ bbm' = bm /\ nwrites' = nwrites + 1
  /\ UNCHANGED <<size, pos, disk, ibm, content, lastRead, panicked, flag>>

\* The write loop, then fd_pos = size - 1 + c (file.c 520, 543) and the
\* new inode_size; inode_sync writes the inode, which the model keeps in memory.
WriteCommits(sec, tab, bm, c) ==
  /\ sectors' = sec /\ table' = tab /\ bbm' = bm
  /\ disk' = WriteLoop(disk, AllBlocks(sec, tab), c, nwrites + 1)
  /\ size' = size + c /\ pos' = size + c - 1
  /\ content' = content \o [i \in 1 .. c |-> nwrites + 1]
  /\ nwrites' = nwrites + 1
  /\ UNCHANGED <<ibm, lastRead, panicked, flag>>

\* How a write ends after an allocation loop with result a.
AfterAlloc(a, sec, tab, c) ==
  CASE a.res = "ok"   -> WriteCommits(sec, tab, a.bm, c)
    [] a.res = "fail" -> WriteFails(sec, tab, a.bm)
    [] OTHER          -> Halt

\* Case 1 (file.c 403-431): blocks has .. will-1 are direct; each new one
\* goes into inode_sectors as soon as it is allocated.
GrowDirect(sec, bm, has, will, c) ==
  LET a == AllocBlocks(bm, will - has)
  IN AfterAlloc(a, Placed(sec, has, a.got), table, c)

(***************************************************************************)
(* Case 2 (file.c 432-482): the write crosses into the indirect blocks.    *)
(* The table block comes from block_bitmap_alloc and goes into            *)
(* inode_sectors[12]; the first new data block comes from                  *)
(* inode_bitmap_alloc (line 454).  That bit is an inode number, below      *)
(* data_start_lba, so bitmap_sync gets idx = bit - data_start_lba < 0 and  *)
(* writes past max_lba: the kernel stops before the loop goes on.          *)
(***************************************************************************)
CrossToIndirect(sec, bm) ==
  LET t == AllocBlocks(bm, 1)
      r == IBitmap!BitmapScan(ibm, 1)
  IN CASE t.res = "panic" -> Halt
       [] t.res = "fail"  -> WriteFails(sec, table, t.bm)
       [] r = Panic       -> Halt
       [] r = -1          -> WriteFails([sec EXCEPT ![Direct] = DataStart + t.got[1]], table, t.bm)
       [] OTHER           -> SyncFails(r - DataStart) /\ Halt

\* Case 3 (file.c 483-516): every new block is in the table, which is written
\* back only after the loop (line 514): a failure keeps the bits, not the table.
GrowIndirect(sec, bm, has, will, c) ==
  LET a == AllocBlocks(bm, will - has)
  IN IF a.res = "fail" THEN WriteFails(sec, table, a.bm)
     ELSE AfterAlloc(a, sec, Placed(table, has, a.got), c)

(***************************************************************************)
(* sys_write(fd, buf, c) on the file (the descriptor is open O_RDWR) and   *)
(* file_write (file.c 305-560).  A write that would pass B * MaxBlocks     *)
(* bytes returns -1 at line 309 and changes nothing; the malloc failures   *)
(* of io_buf and all_blocks are left out.  A file without a block gets one *)
(* first (lines 346-361); ASSERT(will <= 140) stops the kernel (without    *)
(* it, block 140 would go past all_blocks, where the model stops too);     *)
(* with add = 0 the last block takes the bytes, otherwise one of the      *)
(* three cases allocates.                                                  *)
(***************************************************************************)
FileWrite(c) ==
  /\ ~panicked /\ nwrites < MaxWrites
  /\ size + c <= B * MaxBlocks
  /\ LET a0   == AllocBlocks(bbm, IF sectors[0] = 0 THEN 1 ELSE 0)
         sec0 == Placed(sectors, 0, a0.got)
         has  == size \div B + 1
         will == (size + c) \div B + 1
     IN CASE a0.res = "panic" -> Halt
          [] a0.res = "fail"  -> WriteFails(sectors, table, bbm)
          [] will > MaxBlocks -> Halt
          [] will = has       -> WriteCommits(sec0, table, a0.bm, c)
          [] will <= Direct   -> GrowDirect(sec0, a0.bm, has, will, c)
          [] has <= Direct    -> CrossToIndirect(sec0, a0.bm)
          [] OTHER            -> GrowIndirect(sec0, a0.bm, has, will, c)
-----------------------------------------------------------------------------
(***************************************************************************)
(* all_blocks as file_read fills it (file.c 603-668) for the blocks start  *)
(* .. end: the direct entries it reads, and the whole indirect table when  *)
(* end reaches it.  Entries it leaves alone hold whatever sys_malloc       *)
(* returned.                                                               *)
(***************************************************************************)
ReadBlocks(start, end) ==
  LET direct == IF start = end THEN {end} \cap (0 .. Direct - 1)
                ELSE (start .. end) \cap (0 .. Direct - 1)
      ab == AllBlocks(sectors, table)
  IN [j \in direct \cup (IF end >= Direct THEN Direct .. MaxBlocks - 1 ELSE {}) |-> ab[j]]

\* Byte p of the file through all_blocks ab.  A sector outside the data
\* blocks, or an entry file_read did not fill, holds none of the writes' bytes.
ByteAt(ab, p) ==
  IF p \div B \in DOMAIN ab /\ ab[p \div B] \in DataLbas
    THEN disk[ab[p \div B]][(p % B) + 1] ELSE 0

\* Mutant: the read is not cut at the end of the file (line 569 dropped).
ReadSizeNoClamp(c) == c

\* The bytes file_read reads: count, cut at the end of the file (file.c 569-578).
ReadSize(c) == IF pos + c > size THEN size - pos ELSE c

(***************************************************************************)
(* sys_read(fd, buf, c) on the file (fs.c 1213-1216) and file_read (file.c *)
(* 562-699): -1 when nothing is left, the ASSERT that both block indices   *)
(* are below 139 (line 598), then the read loop, which moves fd_pos.       *)
(***************************************************************************)
FileRead(c) ==
  /\ ~panicked
  /\ LET n == ReadSize(c)
         start == pos \div B
         end == (pos + n) \div B
     IN CASE n = 0 -> lastRead' = <<>> /\ UNCHANGED <<size, pos, sectors, table, disk, bbm,
                                                       ibm, content, nwrites, panicked, flag>>
          [] Debug /\ (start >= MaxBlocks - 1 \/ end >= MaxBlocks - 1) -> Halt
          [] OTHER ->
               /\ lastRead' = [i \in 1 .. n |-> ByteAt(ReadBlocks(start, end), pos + i - 1)]
               /\ pos' = pos + n
               /\ UNCHANGED <<size, sectors, table, disk, bbm, ibm, content, nwrites, panicked, flag>>

\* Mutant: sys_lseek without the test new_pos < 0.
LseekNoCheck(off, whence) ==
  LET new == CASE whence = "SEEK_START" -> off
               [] whence = "SEEK_CUR"   -> pos + off
               [] whence = "SEEK_END"   -> size + off
  IN /\ ~panicked /\ new <= size - 1 /\ pos' = new
     /\ UNCHANGED <<size, sectors, table, disk, bbm, ibm, content, lastRead, nwrites, panicked, flag>>

(***************************************************************************)
(* sys_lseek (fs.c 588-626): the new offset from the start, the current    *)
(* position or the end; one outside 0 .. size-1 returns -1 and changes     *)
(* nothing, a stutter.                                                     *)
(***************************************************************************)
Lseek(off, whence) ==
  LET new == CASE whence = "SEEK_START" -> off
               [] whence = "SEEK_CUR"   -> pos + off
               [] whence = "SEEK_END"   -> size + off
  IN /\ ~panicked /\ new >= 0 /\ new <= size - 1 /\ pos' = new
     /\ UNCHANGED <<size, sectors, table, disk, bbm, ibm, content, lastRead, nwrites, panicked, flag>>

\* sys_close, then sys_open of the file with flags f: file_open (file.c
\* 242-278) sets fd_pos to 0 and fd_flag to f.  write_deny, which it tests
\* for a writer, is clear: file_close cleared it and the file has one user.
Reopen(f) ==
  /\ ~panicked /\ pos' = 0 /\ flag' = f
  /\ UNCHANGED <<size, sectors, table, disk, bbm, ibm, content, lastRead, nwrites, panicked>>

(***************************************************************************)
(* sys_write (fs.c 548-586) on the file's descriptor: file_write when      *)
(* fd_flag has O_WRONLY or O_RDWR, otherwise -1 and no change.  sys_read   *)
(* tests no flag.                                                           *)
(***************************************************************************)
SysWrite(c) == flag \in {"O_WRONLY", "O_RDWR"} /\ FileWrite(c)

Next ==
  \/ \E c \in Counts : SysWrite(c) \/ FileRead(c)
  \/ \E off \in Offsets, w \in Whences : Lseek(off, w)
  \/ \E f \in Flags : Reopen(f)

Spec == Init /\ [][Next]_vars
-----------------------------------------------------------------------------
\* The file's bytes as the inode and the disk hold them.
FileBytes == [i \in 1 .. size |-> ByteAt(AllBlocks(sectors, table), i - 1)]

(***************************************************************************)
(* The spec's round trip: the bytes of the file are the bytes the          *)
(* successful sys_write calls wrote, in order, and the kernel runs.  It    *)
(* needs file_write to pick the right block and offset for every chunk,    *)
(* keep the bytes of the first block it patches, and allocate every block  *)
(* a file grows into.                                                      *)
(***************************************************************************)
RoundTrip == ~panicked /\ FileBytes = content

\* The block pointers of the file: all_blocks, and at MaxBlocks the block of
\* the indirect table (inode_sectors[12]).
Ptrs == [j \in 0 .. MaxBlocks |-> IF j < MaxBlocks THEN AllBlocks(sectors, table)[j]
                                  ELSE sectors[Direct]]
Entries == {j \in 0 .. MaxBlocks : Ptrs[j] # 0}

(***************************************************************************)
(* A read returns what was written there: every sys_read returns the       *)
(* bytes of the successful writes from fd_pos on, as many as asked for and *)
(* are left.  It is about file_read's choice of blocks and its cut at the  *)
(* end, and about the fd_pos that file_write and sys_lseek leave behind.   *)
(***************************************************************************)
ReadReturnsContent ==
  [][\A c \in Counts :
       FileRead(c) /\ ~panicked' =>
         lastRead' = SubSeq(content, pos + 1, IF pos + c > size THEN size ELSE pos + c)]_vars
====
