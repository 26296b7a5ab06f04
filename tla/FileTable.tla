------------------------------ MODULE FileTable ------------------------------
(***************************************************************************)
(* The open-file bookkeeping of the file system: the global file_table    *)
(* (fs/file.c), the per-process fd_table, the partition's list of open    *)
(* inodes with their inode_open_cnts and write_deny (fs/inode.c), the      *)
(* entries of one directory and the inode bitmap, under sys_open (open    *)
(* and create), sys_close, sys_unlink (fs/fs.c) and sys_fork              *)
(* (userprog/fork.c).                                                      *)
(*                                                                         *)
(* System calls run with interrupts off, so a call runs on until it       *)
(* blocks.  It blocks in two kinds of place:                               *)
(*  - the disk.  ide_read and ide_write hold the channel lock across their *)
(*    wait (ide.c 338-375), and a caller goes on from one to the next     *)
(*    without yielding, so it holds the disk from its first read to the    *)
(*    end of its bookkeeping.  search_file reads the disk first, so no    *)
(*    other open, create or unlink starts meanwhile.  close and fork run; *)
(*  - the user pool lock.  sys_malloc on behalf of a process takes it.     *)
(*    The only task that holds it while preempted is a process in         *)
(*    start_process (get_a_page, interrupts on).  inode_open's buffer     *)
(*    (inode.c 135-139), file_create's io_buf (file.c 137) and            *)
(*    sys_unlink's io_buf (fs.c 677) are allocated after the call's check *)
(*    and before its update.  A call that finds the lock taken waits there *)
(*    with its check made.  Then any call may run, and the check may go    *)
(*    stale.                                                               *)
(* The process keeps its pending call in op[p]: wait is TRUE while it     *)
(* waits for the user pool lock, FALSE while it holds the disk.            *)
(***************************************************************************)
EXTENDS Integers, Sequences, SequencesExt, FiniteSets

CONSTANTS
  Procs,      \* task_structs of user processes
  Names,      \* file names in the one directory modelled
  DSlots,     \* the directory's entry slots, in search order (1..N)
  Inodes,     \* inode numbers of regular files (1..N; 0 is the root)
  Slots,      \* indices 3..MAX_FILE_OPEN-1 of file_table, as 1..N
  Fds,        \* local descriptors 3..MAX_FILES_OPEN_PER_PROC-1, as 1..N
  Ids,        \* addresses sys_malloc may give a struct inode
  InitProcs,  \* processes that exist at the start
  NoInode, NoEnt, NoFd,  \* the 0 / NULL / -1 of the code
  NoDent      \* a directory slot of file_type FT_UNKNOWN

ASSUME Inodes \subseteq Nat /\ Slots \subseteq Nat /\ Fds \subseteq Nat
ASSUME InitProcs \subseteq Procs

Flags == {"R", "W"}    \* O_RDONLY, and O_WRONLY or O_RDWR

\* inode_open_cnts is a uint32_t: counts are kept modulo CntMod, 2^32 in the
\* code.  Any modulus above the counts a model reaches behaves the same.
CONSTANT CntMod
ASSUME CntMod \in Nat \ {0}

\* Bound of the model: opens leaked by a refused open or by two opens racing
\* for one slot raise a count for good; no open raises one past MaxOpenCnt.
CONSTANT MaxOpenCnt
ASSUME MaxOpenCnt \in Nat

VARIABLES
  dents,      \* dents[k]: the directory entry in slot k, or NoDent
  ibits,      \* inode bitmap: the allocated inode numbers
  olist,      \* part->open_inodes, head first: addresses of cached inodes
  icache,     \* icache[e]: the struct inode at address e
  ftable,     \* file_table[s]: fd_inode and fd_flag
  fdt,        \* fdt[p][f]: task p's fd_table entry
  live,       \* processes that exist
  op,         \* the call a process is blocked in, or [kind |-> "none"]
  fdIno,      \* history: the inode the call that returned fd f opened
  starter     \* the process in start_process: "idle", "holds" the user
              \* pool lock, or "done"

vars == <<dents, ibits, olist, icache, ftable, fdt, live, op, fdIno, starter>>

NoOp == [kind |-> "none"]

\* Addresses held by a cached inode or by a file_create past its bookkeeping.
InUse == ToSet(olist) \cup {op[p].ent : p \in {q \in Procs : op[q].kind = "create" /\ ~op[q].wait}}

\* Some process is between its first disk access and the end of its call.
ChannelHeld == \E q \in Procs : op[q] # NoOp /\ ~op[q].wait

\* sys_malloc for a process waits on the user pool lock.
PoolWait == starter = "holds"

TypeOK ==
  /\ dents \in [DSlots -> [name : Names, ino : Inodes] \cup {NoDent}]
  /\ ibits \subseteq Inodes
  /\ olist \in Seq(Ids) /\ IsInjective(olist)
  /\ icache \in [Ids -> [ino : Inodes, cnt : 0..(CntMod - 1), wdeny : BOOLEAN]]
  /\ ftable \in [Slots -> [ent : Ids \cup {NoEnt}, flag : Flags]]
  /\ fdt \in [Procs -> [Fds -> Slots \cup {NoFd}]]
  /\ live \subseteq Procs
  /\ fdIno \in [Procs -> [Fds -> Inodes \cup {NoInode}]]
  /\ starter \in {"idle", "holds", "done"}

\* What the model keeps of a freed struct inode: nothing that can be read.
Freed == [ino |-> CHOOSE i \in Inodes : TRUE, cnt |-> 0, wdeny |-> FALSE]

\* The smallest element of a non-empty set of numbers.
Least(S) == CHOOSE x \in S : \A y \in S : x <= y

\* The directory slots holding an entry named n.
Named(n) == {k \in DSlots : dents[k] # NoDent /\ dents[k].name = n}

\* search_dir_entry: the inode of the first entry named n, or NoInode.
Lookup(n) == IF Named(n) = {} THEN NoInode ELSE dents[Least(Named(n))].ino

\* The empty slots of the directory.
FreeDents == {k \in DSlots : dents[k] = NoDent}

\* inode_open's search: the first cached inode on the list with number i.
FirstCached(i) ==
  olist[CHOOSE k \in 1..Len(olist) :
          /\ icache[olist[k]].ino = i
          /\ \A j \in 1..(k - 1) : icache[olist[j]].ino # i]

IsCached(i) == \E e \in ToSet(olist) : icache[e].ino = i

\* get_free_slot_in_global: the first slot whose fd_inode is NULL.
FreeSlots == {s \in Slots : ftable[s].ent = NoEnt}

(***************************************************************************)
(* pcb_fd_install: the first free local descriptor of p gets the slot; if  *)
(* there is none the call returns -1 and the slot stays taken.             *)
(***************************************************************************)
PcbFdInstall(p, s, i) ==
  LET free == {f \in Fds : fdt[p][f] = NoFd}
  IN  IF free = {}
        THEN UNCHANGED <<fdt, fdIno>>
        ELSE /\ fdt' = [fdt EXCEPT ![p][Least(free)] = s]
             /\ fdIno' = [fdIno EXCEPT ![p][Least(free)] = i]

(***************************************************************************)
(* The rest of file_open once inode_open has returned the inode at e and  *)
(* ic is the inode cache: fill the slot, then take write_deny for a       *)
(* writer.  A writer that finds write_deny set returns -1 and leaves the  *)
(* slot and the open count as they are.                                    *)
(***************************************************************************)
FileOpenRest(p, s, e, ic, flag) ==
  /\ ftable' = [ftable EXCEPT ![s] = [ent |-> e, flag |-> flag]]
  /\ IF flag = "W" /\ ic[e].wdeny
       THEN /\ icache' = ic
            /\ UNCHANGED <<fdt, fdIno>>
       ELSE /\ icache' = IF flag = "W" THEN [ic EXCEPT ![e].wdeny = TRUE] ELSE ic
            /\ PcbFdInstall(p, s, ic[e].ino)

\* Mutant: inode_open returns a cached inode without raising its count.
CachedOpenNoCount(p, s, e, flag) ==
  /\ icache[e].cnt < MaxOpenCnt
  /\ FileOpenRest(p, s, e, icache, flag)
  /\ UNCHANGED <<olist, op>>

\* Mutant: inode_open pushes a cached inode onto the open list again.
CachedOpenRepush(p, s, e, flag) ==
  /\ icache[e].cnt < MaxOpenCnt
  /\ FileOpenRest(p, s, e, [icache EXCEPT ![e].cnt = @ + 1], flag)
  /\ olist' = <<e>> \o olist
  /\ UNCHANGED op

\* inode_open of the inode at e, found on the open list (inode.c 108-117):
\* its count goes up and file_open goes on with slot s at once.
CachedOpen(p, s, e, flag) ==
  /\ icache[e].cnt < MaxOpenCnt
  /\ FileOpenRest(p, s, e, [icache EXCEPT ![e].cnt = @ + 1], flag)
  /\ UNCHANGED <<olist, op>>

(***************************************************************************)
(* sys_open without O_CREAT of an existing file (fs.c 435-505, file.c     *)
(* 242-278, inode.c 105-154): search_file reads the disk, file_open takes *)
(* the first free slot and inode_open searches the open list.  On a miss  *)
(* inode_open allocates its buffer from the user pool, waiting there if   *)
(* the starter holds the lock, and then reads the inode from the disk;    *)
(* the slot stays unfilled meanwhile.                                     *)
(***************************************************************************)
OpenStart(p, n, flag) ==
  /\ p \in live /\ op[p] = NoOp
  /\ ~ChannelHeld
  /\ Lookup(n) # NoInode
  /\ FreeSlots # {}
  /\ IF IsCached(Lookup(n))
       THEN CachedOpen(p, Least(FreeSlots), FirstCached(Lookup(n)), flag)
       ELSE /\ op' = [op EXCEPT ![p] = [kind |-> "open", slot |-> Least(FreeSlots),
                                         ino |-> Lookup(n), flag |-> flag, wait |-> PoolWait]]
            /\ UNCHANGED <<olist, icache, ftable, fdt, fdIno>>
  /\ UNCHANGED <<dents, ibits, live, starter>>

(***************************************************************************)
(* inode_open after its ide_read: the inode read from disk (write_deny is *)
(* stored false) goes at the head of the open list with count 1, and      *)
(* file_open goes on with the slot it chose before blocking.               *)
(***************************************************************************)
OpenFinish(p) ==
  /\ op[p].kind = "open" /\ ~op[p].wait
  /\ Ids \ InUse # {}
  /\ LET e == CHOOSE x \in Ids \ InUse : TRUE
         ic == [icache EXCEPT ![e] = [ino |-> op[p].ino, cnt |-> 1, wdeny |-> FALSE]]
     IN  /\ olist' = <<e>> \o olist
         /\ FileOpenRest(p, op[p].slot, e, ic, op[p].flag)
  /\ op' = [op EXCEPT ![p] = NoOp]
  /\ UNCHANGED <<dents, ibits, live, starter>>

\* file_create's bookkeeping with inode i, struct inode e and slot s: the
\* inode (inode_init: count 0, write_deny false) fills the slot with
\* write_deny false whatever the flag, and sync_dir_entry writes the entry
\* into the first empty slot of the directory; the process then holds the
\* disk through its writes.
CreateWith(p, n, flag, i, e, s) ==
  /\ ibits' = ibits \cup {i}
  /\ icache' = [icache EXCEPT ![e] = [ino |-> i, cnt |-> 0, wdeny |-> FALSE]]
  /\ ftable' = [ftable EXCEPT ![s] = [ent |-> e, flag |-> flag]]
  /\ dents' = [dents EXCEPT ![Least(FreeDents)] = [name |-> n, ino |-> i]]
  /\ op' = [op EXCEPT ![p] = [kind |-> "create", ent |-> e, slot |-> s, ino |-> i, wait |-> FALSE]]

(***************************************************************************)
(* file_create (file.c 134-233) once it has its io_buf: the lowest free   *)
(* inode number, a struct inode and the first free slot; without one of   *)
(* them it rolls back and returns -1 with nothing changed.                 *)
(***************************************************************************)
CreateBody(p, n, flag) ==
  IF Inodes \ ibits = {} \/ Ids \ InUse = {} \/ FreeSlots = {}
    THEN /\ op' = [op EXCEPT ![p] = NoOp]
         /\ UNCHANGED <<dents, ibits, icache, ftable>>
    ELSE CreateWith(p, n, flag, Least(Inodes \ ibits), CHOOSE x \in Ids \ InUse : TRUE,
                    Least(FreeSlots))

(***************************************************************************)
(* sys_open with O_CREAT of a name search_file did not find (fs.c 435-   *)
(* 505): file_create allocates its io_buf from the user pool first,       *)
(* waiting there if the starter holds the lock.                            *)
(***************************************************************************)
CreateStart(p, n, flag) ==
  /\ p \in live /\ op[p] = NoOp
  /\ ~ChannelHeld
  /\ Lookup(n) = NoInode
  /\ IF PoolWait
       THEN /\ op' = [op EXCEPT ![p] = [kind |-> "create", name |-> n, flag |-> flag, wait |-> TRUE]]
            /\ UNCHANGED <<dents, ibits, icache, ftable>>
       ELSE CreateBody(p, n, flag)
  /\ UNCHANGED <<olist, fdt, live, fdIno, starter>>

\* file_create after its disk writes: the inode joins the open list with count 1.
CreateFinish(p) ==
  /\ op[p].kind = "create" /\ ~op[p].wait
  /\ LET e == op[p].ent
     IN  /\ olist' = <<e>> \o olist
         /\ icache' = [icache EXCEPT ![e].cnt = 1]
  /\ PcbFdInstall(p, op[p].slot, op[p].ino)
  /\ op' = [op EXCEPT ![p] = NoOp]
  /\ UNCHANGED <<dents, ibits, ftable, live, starter>>

(***************************************************************************)
(* A call waiting in sys_malloc gets the user pool lock once the starter  *)
(* has released it, and goes on to the disk (its first ide_read waits for *)
(* the channel).  A file_create does its bookkeeping now, trusting the    *)
(* search it made before waiting: it does not search again.               *)
(***************************************************************************)
Resume(p) ==
  /\ op[p] # NoOp /\ op[p].wait
  /\ ~PoolWait /\ ~ChannelHeld
  /\ IF op[p].kind = "create"
       THEN CreateBody(p, op[p].name, op[p].flag)
       ELSE /\ op' = [op EXCEPT ![p].wait = FALSE]
            /\ UNCHANGED <<dents, ibits, icache, ftable>>
  /\ UNCHANGED <<olist, fdt, live, fdIno, starter>>

(***************************************************************************)
(* The process in start_process: get_a_page takes the user pool lock      *)
(* (memory.c 358) and, with interrupts on, can be preempted before its    *)
(* abandon_lock (memory.c 387).  One process starts in the model.          *)
(***************************************************************************)
StarterLock ==
  /\ starter = "idle" /\ starter' = "holds"
  /\ UNCHANGED <<dents, ibits, olist, icache, ftable, fdt, live, op, fdIno>>

StarterUnlock ==
  /\ starter = "holds" /\ starter' = "done"
  /\ UNCHANGED <<dents, ibits, olist, icache, ftable, fdt, live, op, fdIno>>

\* Mutant: inode_close frees the inode whatever its count.
InodeCloseAlwaysFree(ic, e) ==
  [ic |-> [ic EXCEPT ![e] = Freed], freed |-> TRUE]

(***************************************************************************)
(* inode_close (inode.c 162-176): drop the count (a uint32_t, so it wraps *)
(* below zero) and free the inode, taking it off the open list, at zero.   *)
(***************************************************************************)
InodeClose(ic, e) ==
  LET cnt == (ic[e].cnt + CntMod - 1) % CntMod
  IN  IF cnt = 0
        THEN [ic |-> [ic EXCEPT ![e] = Freed], freed |-> TRUE]
        ELSE [ic |-> [ic EXCEPT ![e].cnt = cnt], freed |-> FALSE]

(***************************************************************************)
(* sys_close (fs.c 528-538) and file_close (file.c 285-295): clear         *)
(* write_deny of the inode, whatever the descriptor's flag, inode_close,  *)
(* and free the slot and the local descriptor.  A descriptor whose slot   *)
(* has been emptied would make file_close dereference NULL, which the     *)
(* model does not follow.                                                  *)
(***************************************************************************)
Close(p, f) ==
  /\ p \in live /\ op[p] = NoOp
  /\ fdt[p][f] # NoFd
  /\ LET s == fdt[p][f]
         e == ftable[s].ent
         r == InodeClose([icache EXCEPT ![e].wdeny = FALSE], e)
     IN  /\ e # NoEnt
         /\ icache' = r.ic
         /\ olist' = IF r.freed THEN SelectSeq(olist, LAMBDA x : x # e) ELSE olist
         /\ ftable' = [ftable EXCEPT ![s].ent = NoEnt]
  /\ fdt' = [fdt EXCEPT ![p][f] = NoFd]
  /\ fdIno' = [fdIno EXCEPT ![p][f] = NoInode]
  /\ UNCHANGED <<dents, ibits, live, op, starter>>

(***************************************************************************)
(* sys_unlink (fs.c 632-690): search_file, then refuse when some slot of  *)
(* file_table holds the inode.  Otherwise it allocates its io_buf from    *)
(* the user pool (waiting if the starter holds the lock) and              *)
(* delete_dir_entry reads the directory and removes the entry of that     *)
(* inode.  The inode and its blocks are not released.                     *)
(***************************************************************************)
UnlinkStart(p, n) ==
  /\ p \in live /\ op[p] = NoOp
  /\ ~ChannelHeld
  /\ Lookup(n) # NoInode
  /\ ~\E s \in Slots : ftable[s].ent # NoEnt /\ icache[ftable[s].ent].ino = Lookup(n)
  /\ op' = [op EXCEPT ![p] = [kind |-> "unlink", ino |-> Lookup(n), wait |-> PoolWait]]
  /\ UNCHANGED <<dents, ibits, olist, icache, ftable, fdt, live, fdIno, starter>>

UnlinkFinish(p) ==
  /\ op[p].kind = "unlink" /\ ~op[p].wait
  /\ dents' = [k \in DSlots |-> IF dents[k] # NoDent /\ dents[k].ino = op[p].ino
                                 THEN NoDent ELSE dents[k]]
  /\ op' = [op EXCEPT ![p] = NoOp]
  /\ UNCHANGED <<ibits, olist, icache, ftable, fdt, live, fdIno, starter>>

(***************************************************************************)
(* sys_fork (fork.c 201-223): the child's PCB is a copy of the parent's,   *)
(* fd_table included, so both refer to the same slots; update_inode_open_ *)
(* cnts raises the count of the inode behind each of the child's           *)
(* descriptors.                                                            *)
(***************************************************************************)
Fork(p, c) ==
  /\ p \in live /\ op[p] = NoOp
  /\ c \notin live
  /\ \A f \in Fds : fdt[p][f] # NoFd => ftable[fdt[p][f]].ent # NoEnt
  /\ \A f \in Fds : fdt[p][f] # NoFd => icache[ftable[fdt[p][f]].ent].cnt < MaxOpenCnt
  /\ live' = live \cup {c}
  /\ fdt' = [fdt EXCEPT ![c] = fdt[p]]
  /\ fdIno' = [fdIno EXCEPT ![c] = fdIno[p]]
  /\ icache' = [e \in Ids |->
                 [icache[e] EXCEPT !.cnt = @ + Cardinality({f \in Fds :
                     fdt[p][f] # NoFd /\ ftable[fdt[p][f]].ent = e})]]
  /\ UNCHANGED <<dents, ibits, olist, ftable, op, starter>>

-----------------------------------------------------------------------------
CONSTANT InitDents  \* the directory's entries at mount time

\* Every entry has an inode of its own and inodes are never released, so
\* the directory never fills (sync_dir_entry's new block is not needed).
ASSUME /\ InitDents \in [DSlots -> [name : Names, ino : Inodes] \cup {NoDent}]
       /\ Cardinality(DSlots) >= Cardinality(Inodes)

Init ==
  /\ dents = InitDents
  /\ ibits = {InitDents[k].ino : k \in {j \in DSlots : InitDents[j] # NoDent}}
  /\ olist = <<>>
  /\ icache = [e \in Ids |-> Freed]
  /\ ftable = [s \in Slots |-> [ent |-> NoEnt, flag |-> "R"]]
  /\ fdt = [p \in Procs |-> [f \in Fds |-> NoFd]]
  /\ live = InitProcs
  /\ op = [p \in Procs |-> NoOp]
  /\ fdIno = [p \in Procs |-> [f \in Fds |-> NoInode]]
  /\ starter = "idle"

Next ==
  \/ \E p \in Procs, n \in Names, flag \in Flags :
        OpenStart(p, n, flag) \/ CreateStart(p, n, flag)
  \/ \E p \in Procs : OpenFinish(p) \/ CreateFinish(p) \/ UnlinkFinish(p) \/ Resume(p)
  \/ \E p \in Procs, f \in Fds : Close(p, f)
  \/ \E p \in Procs, n \in Names : UnlinkStart(p, n)
  \/ \E p, c \in Procs : Fork(p, c)
  \/ StarterLock \/ StarterUnlock

Spec == Init /\ [][Next]_vars

-----------------------------------------------------------------------------
\* The slots of file_table that hold the inode at e.
SlotsOf(e) == {s \in Slots : ftable[s].ent = e}

\* Slots some process reaches through a descriptor.
Installed == {fdt[p][f] : p \in live, f \in Fds} \ {NoFd}

(***************************************************************************)
(* No slot of file_table points at a struct inode that inode_close has     *)
(* freed: the open count of a cached inode never drops to zero while a    *)
(* slot still holds it, whatever fork, a refused open or two opens racing *)
(* for one slot did to the counts.                                         *)
(***************************************************************************)
NoDanglingSlot ==
  \A s \in Slots : ftable[s].ent # NoEnt => ftable[s].ent \in InUse

(***************************************************************************)
(* inode_open_cnts of a cached inode is at least the number of slots that *)
(* hold it, so the closes of those slots cannot free it early.            *)
(***************************************************************************)
OpenCountCoversSlots ==
  \A e \in ToSet(olist) : icache[e].cnt >= Cardinality(SlotsOf(e))

(***************************************************************************)
(* The open list caches each inode at most once (spec 3: one in-memory    *)
(* inode per open file).  inode_open searches the list, may wait for the  *)
(* user pool lock in sys_malloc, and pushes its copy without searching    *)
(* again.                                                                  *)
(***************************************************************************)
SingleCacheEntry ==
  \A e1, e2 \in ToSet(olist) : e1 # e2 => icache[e1].ino # icache[e2].ino

(***************************************************************************)
(* A descriptor reads and writes the file its open returned it for.  Two  *)
(* opens pick the same free slot when the first waits in inode_open      *)
(* before filling it, and the later fill overwrites the other's.          *)
(***************************************************************************)
OpenedFileInstalled ==
  \A p \in live, f \in Fds :
    fdt[p][f] # NoFd /\ ftable[fdt[p][f]].ent # NoEnt
      => icache[ftable[fdt[p][f]].ent].ino = fdIno[p][f]

(***************************************************************************)
(* The directory holds at most one entry of each name (spec: entries are  *)
(* keyed by name; sys_open refuses O_CREAT of a name it finds).  A        *)
(* file_create that waited for the user pool lock after its search does   *)
(* not search again.                                                       *)
(***************************************************************************)
UniqueNames == \A n \in Names : Cardinality(Named(n)) <= 1

====
