---------------------------- MODULE PartitionScan ----------------------------
(***************************************************************************)
(* The boot-time discovery of partitions: ide_init calls partition_scan   *)
(* on the second drive of each channel (sdb, sdd), which walks the MBR and *)
(* the chain of extended boot records, fills the disk's prim_parts and     *)
(* logic_parts and appends each to partition_list; then filesystem_init   *)
(* walks the slots of those disks and reads (or formats) each partition.   *)
(*                                                                         *)
(* A disk is <<channel, dev_no>>.  Its sectors come from a layout: the     *)
(* kinds of the four MBR entries, and for each EBR of the chain the kinds *)
(* of its first two entries (the last two are zero).  The layout fixes     *)
(* every LBA, so the partitions the tables describe (Described) are known  *)
(* apart from the code that finds them.                                    *)
(***************************************************************************)
EXTENDS Integers, Sequences, FiniteSets

CONSTANTS
  HdCnts,       \* the values the BIOS leaves at 0x475
  SdbLayouts,   \* layouts of the disk on channel 0
  SddLayouts,   \* layouts of the disk on channel 1
  MaxLogic,     \* length of logic_parts (8 in ide.h)
  Debug,        \* ASSERT compiled in (no NDEBUG)
  SectorBytes,  \* SECTOR_SIZE (512)
  MaxFiles,     \* MAX_FILES_PER_PART (4096)
  InodeBytes    \* sizeof(struct inode) (76)

VARIABLES
  hdCnt,        \* hd_cnt
  layout,       \* the layout of each scanned disk
  phase,        \* "off", "ide" (ide_init done), "fs" (filesystem_init done)
  scan,         \* the globals and side effects of the scans (ScanState)
  visited,      \* the partitions filesystem_init read the superblock of
  fsImage,      \* what partition_format wrote to each of them
  mounted       \* current_partition: the partition named sdb1, or NoPart

vars == <<hdCnt, layout, phase, scan, visited, fsImage, mounted>>

Ext == 5          \* fs_type of an extended partition
Data == 131       \* any other non-zero fs_type
Gap == 40         \* distance between the EBRs of a chain
ExtBase(d) == 200 * (d[1] + 1)
PrimStart(j) == 1 + Gap * (j - 1)
NoPart == [disk |-> <<0, 0>>, kind |-> "prim", idx |-> 0, start |-> 0, cnt |-> 0]

Zero == [type |-> 0, start |-> 0, cnt |-> 0]
ZeroSector == <<Zero, Zero, Zero, Zero>>
EbrLba(d, k) == ExtBase(d) + Gap * (k - 1)

\* The sector ide_read returns at lba; sectors no table names are zero.
Sector(d, lba) ==
  LET l == layout[d]
      MbrEntry(j) ==
        CASE l.mbr[j] = "prim" -> [type |-> Data, start |-> PrimStart(j), cnt |-> l.size]
          [] l.mbr[j] = "ext"  -> [type |-> Ext, start |-> ExtBase(d), cnt |-> Gap * Len(l.ebrs)]
          [] OTHER             -> Zero
      EbrEntry(k, s) ==
        CASE s > 2 -> Zero
          [] l.ebrs[k][s] = "log"  -> [type |-> Data, start |-> 1, cnt |-> l.size]
          [] l.ebrs[k][s] = "link" -> [type |-> Ext, start |-> Gap * k, cnt |-> Gap]
          [] OTHER                 -> Zero
  IN CASE lba = 0 -> [j \in 1..4 |-> MbrEntry(j)]
       [] \E k \in 1..Len(l.ebrs) : lba = EbrLba(d, k) ->
            LET n == CHOOSE n \in 1..Len(l.ebrs) : lba = EbrLba(d, n)
            IN [s \in 1..4 |-> EbrEntry(n, s)]
       [] OTHER -> ZeroSector

\* The disks ide_init scans: dev_no 1 of each of DIV_ROUND_UP(hd_cnt, 2) channels.
Scanned(n) == {<<c, 1>> : c \in 0..((n + 1) \div 2 - 1)}
ScanOrder(n) == [i \in 1..Cardinality(Scanned(n)) |-> <<i - 1, 1>>]

(***************************************************************************)
(* The state partition_scan works on: ext_lba_base, primary_hd_no,         *)
(* logic_hd_no, partition_list (a sequence of the partition structs        *)
(* appended), the boot sectors never freed, the halt of a failed ASSERT,   *)
(* the writes past logic_parts, and ret, set while a frame is returning    *)
(* early.                                                                   *)
(***************************************************************************)
ScanState == [base : Nat, prim : Nat, logic : Nat, parts : Seq([disk : Nat \X Nat,
               kind : {"prim", "log"}, idx : Nat, start : Nat, cnt : Nat]),
               leaks : Nat, panic : BOOLEAN, oob : BOOLEAN, ret : BOOLEAN]

InitScan == [base |-> 0, prim |-> 0, logic |-> 0, parts |-> <<>>,
             leaks |-> 0, panic |-> FALSE, oob |-> FALSE, ret |-> FALSE]

\* A primary entry of the MBR: fill prim_parts[primary_hd_no], append, ASSERT.
AddPrim(d, e, st) ==
  [st EXCEPT !.parts = Append(@, [disk |-> d, kind |-> "prim", idx |-> st.prim,
                                  start |-> e.start, cnt |-> e.cnt]),
             !.prim = @ + 1,
             !.panic = Debug /\ st.prim + 1 >= 4]

\* A data entry of an EBR: fill logic_parts[logic_hd_no], append, and
\* return from this frame once logic_hd_no reaches 8.
AddLogic(d, lba, e, st) ==
  [st EXCEPT !.parts = Append(@, [disk |-> d, kind |-> "log", idx |-> st.logic,
                                  start |-> lba + e.start, cnt |-> e.cnt]),
             !.logic = @ + 1,
             !.oob = @ \/ st.logic >= MaxLogic,
             !.ret = st.logic + 1 >= MaxLogic]

RECURSIVE partition_scan(_, _, _), ScanEntries(_, _, _, _, _)

\* while (part_idx++ < 4) over the entries of the sector read at lba.
ScanEntries(d, lba, sec, i, st) ==
  IF i > 4 \/ st.panic THEN st
  ELSE LET e == sec[i]
           st2 == CASE e.type = Ext /\ st.base # 0 ->
                         partition_scan(d, e.start + st.base, st)
                    [] e.type = Ext ->
                         partition_scan(d, e.start, [st EXCEPT !.base = e.start])
                    [] e.type # 0 /\ lba = 0 -> AddPrim(d, e, st)
                    [] e.type # 0 -> AddLogic(d, lba, e, st)
                    [] OTHER -> st
       IN IF st2.ret \/ st2.panic THEN st2 ELSE ScanEntries(d, lba, sec, i + 1, st2)

\* sys_malloc a boot sector, ide_read it, scan it, sys_free it; the early
\* return skips the sys_free and ends only this frame.
partition_scan(d, lba, st) ==
  LET r == ScanEntries(d, lba, Sector(d, lba), 1, st)
  IN IF r.ret THEN [r EXCEPT !.ret = FALSE, !.leaks = @ + 1] ELSE r

RECURSIVE ScanDisks(_, _, _)
\* The loop of ide_init over the scanned disks: scan, then reset
\* primary_hd_no and logic_hd_no (not ext_lba_base).
ScanDisks(ds, i, st) ==
  IF i > Len(ds) \/ st.panic THEN st
  ELSE LET r == partition_scan(ds[i], 0, st)
       IN ScanDisks(ds, i + 1, [r EXCEPT !.prim = 0, !.logic = 0])

\* The partition struct in slot k of disk d: prim_parts[0..3], then logic_parts.
Slots == 4 + MaxLogic
InSlot(p, d, k) ==
  /\ p.disk = d
  /\ \/ k < 4 /\ p.kind = "prim" /\ p.idx = k
     \/ k >= 4 /\ p.kind = "log" /\ p.idx = k - 4

RECURSIVE FsVisit(_, _, _)
\* The loops of filesystem_init: part_idx is set to 0 once, before the
\* loop over the disks, and counts the slots with sec_cnt != 0.
FsVisit(ds, i, partIdx) ==
  IF i > Len(ds) THEN {}
  ELSE {p \in {scan.parts[j] : j \in 1..Len(scan.parts)} :
          \E k \in partIdx..(Slots - 1) : InSlot(p, ds[i], k) /\ p.cnt # 0}
       \cup FsVisit(ds, i + 1, Slots)   \* the loop left part_idx at 12

BitsPerSector == 8 * SectorBytes
DivRoundUp(x, y) == (x + y - 1) \div y

\* Sectors before the block bitmap: boot sector, superblock, inode bitmap
\* and inode table (the block bitmap follows the superblock).
UsedSects == 2 + DivRoundUp(MaxFiles, BitsPerSector)
                + DivRoundUp(InodeBytes * MaxFiles, SectorBytes)

(***************************************************************************)
(* partition_format: the superblock's layout, and the block bitmap it      *)
(* writes.  buf comes from sys_malloc's large path, which zeroes its       *)
(* pages; bit 0 is the root's block; from block_bitmap_last_byte to the    *)
(* end of its sector every byte is set, then bits 0..last_bit of that      *)
(* byte are cleared again.  The inode bitmap, inode table and root         *)
(* directory written after it are the superblock's fields (ibLba, itLba,   *)
(* rootSector).                                                            *)
(***************************************************************************)
partition_format(p) ==
  LET ibSects  == DivRoundUp(MaxFiles, BitsPerSector)
      itSects  == DivRoundUp(InodeBytes * MaxFiles, SectorBytes)
      freeSects == p.cnt - UsedSects
      bitLen   == freeSects - DivRoundUp(freeSects, BitsPerSector)
      bbSects  == DivRoundUp(bitLen, BitsPerSector)
      bbLba    == p.start + 2
      dataStart == bbLba + bbSects + ibSects + itSects
      lastByte == bitLen \div 8
      lastBit  == bitLen % 8
      lastat   == SectorBytes - (lastByte % SectorBytes)
      Bit(i) == CASE 8 * lastByte <= i /\ i < 8 * (lastByte + lastat) ->
                       IF i - 8 * lastByte <= lastBit THEN 0 ELSE 1
                  [] OTHER -> IF i = 0 THEN 1 ELSE 0
  IN [bbLba |-> bbLba, bbSects |-> bbSects, ibLba |-> bbLba + bbSects,
      itLba |-> bbLba + bbSects + ibSects, dataStart |-> dataStart,
      bitLen |-> bitLen, rootSector |-> dataStart,
      blockBits |-> [i \in 0..(bbSects * BitsPerSector - 1) |-> Bit(i)]]

\* mount_partition, called by list_traversal for each entry until the one
\* named "sdb1": the first primary of the disk on channel 0.
Sdb1(parts) == {p \in parts : p.disk = <<0, 1>> /\ p.kind = "prim" /\ p.idx = 0}

Init ==
  /\ hdCnt \in HdCnts
  /\ \E sdb \in SdbLayouts, sdd \in SddLayouts :
       layout = [d \in Scanned(hdCnt) |-> IF d[1] = 0 THEN sdb ELSE sdd]
  /\ phase = "off"
  /\ scan = InitScan
  /\ visited = {}
  /\ fsImage = <<>>
  /\ mounted = NoPart

\* ide_init: scan each disk; a failed ASSERT halts the kernel there.
ide_init ==
  /\ phase = "off"
  /\ scan' = ScanDisks(ScanOrder(hdCnt), 1, InitScan)
  /\ phase' = "ide"
  /\ UNCHANGED <<hdCnt, layout, visited, fsImage, mounted>>

\* filesystem_init: read the superblock of every slot it reaches; on a
\* fresh disk none has the magic, so each is formatted; then mount sdb1.
filesystem_init ==
  /\ phase = "ide"
  /\ ~scan.panic
  /\ LET v == FsVisit(ScanOrder(hdCnt), 1, 0)
         m == Sdb1({scan.parts[j] : j \in 1..Len(scan.parts)})
     IN /\ visited' = v
        /\ fsImage' = [p \in v |-> partition_format(p)]
        /\ mounted' = IF m = {} THEN NoPart ELSE CHOOSE p \in m : TRUE
  /\ phase' = "fs"
  /\ UNCHANGED <<hdCnt, layout, scan>>

Next == ide_init \/ filesystem_init

Spec == Init /\ [][Next]_vars
-----------------------------------------------------------------------------
TypeOK ==
  /\ hdCnt \in HdCnts
  /\ phase \in {"off", "ide", "fs"}
  /\ scan \in ScanState
  /\ visited \subseteq {scan.parts[j] : j \in 1..Len(scan.parts)}
  /\ DOMAIN fsImage = visited
  /\ mounted \in visited \cup {NoPart}

\* The partitions the tables of disk d describe (spec 4.5): each primary of
\* the MBR, and each data entry of each EBR at its EBR's LBA plus its start.
Described(d) ==
  {[kind |-> "prim", start |-> PrimStart(j), cnt |-> layout[d].size] : j \in {j \in 1..4 : layout[d].mbr[j] = "prim"}}
  \cup
  IF \E j \in 1..4 : layout[d].mbr[j] = "ext"
  THEN {[kind |-> "log", start |-> EbrLba(d, k) + 1, cnt |-> layout[d].size] :
          k \in {k \in 1..Len(layout[d].ebrs) : "log" \in {layout[d].ebrs[k][1], layout[d].ebrs[k][2]}}}
  ELSE {}

Listed(d) == {[kind |-> p.kind, start |-> p.start, cnt |-> p.cnt] :
                p \in {q \in {scan.parts[j] : j \in 1..Len(scan.parts)} : q.disk = d}}

CountOf(d, k, S) == Cardinality({p \in S : p.kind = k})
MinOf(a, b) == IF a < b THEN a ELSE b

\* A formatted partition as spec 4.6 lays it out: the data region ends
\* inside the partition; its block bitmap has bit 0 (the root's block) set
\* and the other bits of the data region free; and no free bit stands for
\* a block past the partition's last sector.
FormatKeepsInside(p, f) ==
  /\ f.dataStart + f.bitLen <= p.start + p.cnt
  /\ f.blockBits[0] = 1
  /\ \A i \in 1..(f.bitLen - 1) : f.blockBits[i] = 0
  /\ \A i \in DOMAIN f.blockBits : f.blockBits[i] = 0 => f.dataStart + i < p.start + p.cnt

(***************************************************************************)
(* Boot prepares the partitions the tables describe (spec 4.5, 4.6): once *)
(* ide_init is done the kernel is running, no struct was written past     *)
(* logic_parts and every boot sector was freed; each disk's entries on    *)
(* partition_list are partitions its tables describe, all its primaries   *)
(* and min(logicals, 8) of its logicals; filesystem_init reads every      *)
(* partition on the list, and the bitmap partition_format writes lets     *)
(* block_bitmap_alloc hand out only blocks inside the partition.  It ties *)
(* the recursion of partition_scan, the globals ide_init resets between   *)
(* disks, the slot index of filesystem_init and the arithmetic of         *)
(* partition_format together.                                             *)
(***************************************************************************)
BootPreparesPartitions ==
  /\ phase # "off" =>
       /\ ~scan.panic /\ ~scan.oob /\ scan.leaks = 0
       /\ \A d \in Scanned(hdCnt) :
            /\ Listed(d) \subseteq Described(d)
            /\ CountOf(d, "prim", Listed(d)) = CountOf(d, "prim", Described(d))
            /\ CountOf(d, "log", Listed(d)) = MinOf(CountOf(d, "log", Described(d)), MaxLogic)
  /\ phase = "fs" =>
       /\ visited = {scan.parts[j] : j \in 1..Len(scan.parts)}
       /\ \A p \in DOMAIN fsImage : FormatKeepsInside(p, fsImage[p])
====
