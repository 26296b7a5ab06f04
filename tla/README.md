# TLA+ models of the Gos kernel

These modules model the concurrency and bookkeeping of the Gos kernel
(`src/Gos`). Gos is a single-CPU, preemptive x86 kernel. The models are checked
with TLC.

`PROJECT.json` has four lists:

- the components, and how far each one is modelled;
- the runs;
- the mutant that tests each property;
- the hazards.

It also gives the source lines every definition translates.

## 1. The system and how its parts interact

| Part | Source | Module |
|---|---|---|
| Scheduler | `thread/thread.c`, `device/timer.c` | `Thread` |
| Intrusive list | `lib/kernel/list.c` | `Thread` |
| Semaphore and recursive lock | `thread/sync.c` | `Sync`, `RecursiveMutex` |
| Bitmap | `lib/kernel/bitmap.c` | `BitmapScan` |
| Frame pools, page tables, heap | `kernel/memory.c` | `Memory` |
| IDE driver | `device/ide.c` | `Devices` |
| Keyboard ring | `device/ioqueue.c`, `device/keyboard.c` | `Devices` |
| Open files, inode cache, fork's fd copy | `fs/file.c`, `fs/inode.c`, `fs/fs.c`, `userprog/fork.c` | `FileTable` |
| File data path | `fs/file.c`, `fs/fs.c` | `FileData` |
| Root directory, create/unlink/mkdir/rmdir, inode release | `fs/dir.c`, `fs/fs.c`, `fs/file.c`, `fs/inode.c` | `Directory` |
| The file and the directories on one partition | the above | `FileSystem` |
| Partition scan at boot, and `filesystem_init`'s walk of the partitions | `device/ide.c`, `fs/fs.c` | `PartitionScan` |
| The shell's path commands, and the path syscalls they make | `shell/in_cmd.c`, `shell/shell.c`, `fs/fs.c`, `fs/dir.c`, `fs/file.c` | `Shell` |

How the parts interact:

- **Blocking.** Every blocking primitive ends in `thread_block`, then `schedule`.
  - A semaphore wait blocks this way.
  - So does a wait for the disk, which is a wait on `disk_done`.
  - So does a keyboard read, through `ioqueue_wait`.
- **Preemption.** The timer interrupt preempts the running task when its quantum is used up.
- **Interrupts during system calls.** System calls enter through an interrupt gate, so they run with interrupts off.
  - A system call loses the CPU only where it blocks or yields.
  - Kernel threads and `start_process` run with interrupts on. The timer can preempt them between any two statements.
- **File I/O.** A file operation goes through these layers:
  - the global file table;
  - the cached inode;
  - the block pointers;
  - `ide_read`/`ide_write`, under the channel lock;
  - a wait on `disk_done`;
  - the disk interrupt, which ups `disk_done`.
- **Shell.** The shell is a user process. Each command line is one system call after another: `getcwd` for a relative path, then `mkdir`, `rmdir`, `open`, `unlink`, `chdir` or `stat` on the washed absolute path. Each call runs with interrupts off, so a command's calls do not interleave with anything the shell itself does.
- **Boot.** `ide_init` scans the partition tables of the second drive of each channel (`sdb`, `sdd`) into `partition_list`. `filesystem_init` then reads, or formats, each partition it finds in the disks' slot arrays, and mounts `sdb1`.

## 2. Modules

### Thread

`Thread` models the scheduler as state transformers: operators that take the scheduler state and return the new one.

| Operator | Code |
|---|---|
| `Unblock` | `thread_unblock`: push at the head of the ready list |
| `Schedule` | `schedule`: append a still-running task with a new quantum; unblock idle if the list is empty; pop the head |
| `Block` | `thread_block` |
| `YieldSched` | `thread_yield`, which does not refill the quantum |
| `TimerTick` | `intr_timer_handler` |
| `ListPush`, `ListAppend`, `ListPop` | `list_push`, `list_append`, `list_pop` |

The intrusive list is kept as a sequence. Each list operation is one step, because `list_insert_before` and `list_remove` run with interrupts off.

Other modules compose these operators the way the C functions call each other. For example, `sema_down` is `list_append`, then `thread_block`, then `schedule`, as one atomic step.

### Sync and RecursiveMutex

Workers run the console writers' loop: `console_put_str` takes the console lock, re-entering it up to `MaxDepth` times, then releases every hold.

Atomicity follows the code's interrupt state:

- `sema_down` and `sema_up` are one step each.
- The steps of `get_lock` and `abandon_lock` are separate, because they run with interrupts on. These are `GetLock`, `SemaDown`, `GetLockOwn`, `AbandonLock` and `SemaUp`.
- The timer (`Tick`) can fire between any two of them.

`RecursiveMutex` is the abstract lock, with an owner and a count. `LockRefinesMutex` checks `Sync` against it:

- the refinement mapping `AbsOwner` is the worker that holds the semaphore;
- `AbsCount` is its nesting depth.

`Memory` uses `RecursiveMutex` as its pool locks.

### BitmapScan

`bitmap_scan` is written as three RECURSIVE operators, one per loop of the code. `RefScan` is a first-fit reference, and `FirstFit` and `ReservationsExclusive` state the scan against it.

The model includes the bit after the bitmap, which the scan reads. `Memory` instantiates it for its pools, so the `memory` runs check it under `vaddr_get`, `palloc` and their frees. A run of its own once checked `FirstFit` and `ReservationsExclusive` on a two-byte bitmap under `vaddr_get`/`vaddr_remove`. It was retired to make room for the shell run, so no run checks these two properties now.

### Memory

These actors run with interrupts on, so `palloc`'s scan and its `bitmap_set` are separate steps:

- kernel threads in `get_kernel_pages(1)`;
- kernel threads in `sys_malloc`/`sys_free`;
- processes in `get_a_page` for their user stack. Here `page_table_add` takes a page-table frame from the **kernel** pool without its lock.

The heap is modelled in full:

- seven descriptors with their free lists;
- arenas with a free count;
- large arenas of whole pages.

### FileTable

`FileTable` models these structures:

- the global `file_table`;
- the per-process `fd_table`;
- the open-inode list, with `inode_open_cnts` and `write_deny`;
- one directory's entries (`dents`), searched by `search_dir_entry` and filled by `sync_dir_entry`;
- the inode bitmap;
- the user pool lock, as `starter`: a process in `start_process` takes it in `get_a_page` and may be preempted while holding it.

It models `sys_open`, `sys_close`, `sys_unlink` and `sys_fork` acting on them.

Where a call can be interleaved decides how it is split:

- **The disk does not split a call.** `ide_read` and `ide_write` hold the channel lock across their wait on `disk_done` (`ide.c:338-375`). A call that reaches the disk holds the channel until its bookkeeping ends, so no other search, open, create or unlink runs meanwhile. The model expresses this as `ChannelHeld`.
- **The user pool lock does split a call.** `sys_malloc` for a process takes the user pool lock (`memory.c:483`). This happens in `inode_open`'s buffer, `file_create`'s `io_buf` and `sys_unlink`'s `io_buf`. If the starter holds that lock, the call waits with its search already made. The pending part is kept in `op[p]` with `wait` set, and `Resume` continues it once the lock is free. A resumed create does not search again.

### Devices

`Devices` extends `Thread`. It models three kinds of task, and the main thread:

- **Disk users.** A user calls `sys_read`/`sys_write` on a file. The model follows the request through `ide_read`/`ide_write`:
  - the channel lock;
  - `cmd_out`, which sets `expecting_intr`;
  - the wait on `disk_done`;
  - `busy_wait`, which sleeps through `mtime_sleep` while the drive is busy;
  - the data transfer.
- **The drive.** The drive is a small state machine (`dev`) that raises IRQ14.
- **IRQ14.** `intr_hd_handler` (`DiskIntr`) ups `disk_done` only while `expecting_intr` is set. `UnexpectedIrq` is an IRQ14 that arrives while the channel is idle and expects none, for example a status change of the other drive on the channel. Interrupts are on, so it is taken at once, and the handler's test at ide.c:443 must ignore it. An IRQ14 latched while interrupts are off, and taken only after the next `cmd_out`, would look like that command's completion; it is not modelled.
- **Keyboard readers.** A reader calls `sys_read(0)`, which is `ioqueue_get_char`. The keyboard interrupt puts a key into the ring unless the ring is full.
- **The main thread.** The main thread is always runnable. It is the task `Main`, with no steps of its own, and it keeps interrupts on.

### FileData

`FileData` models the data path of one file:

- `sys_write`/`file_write`, with its three allocation cases;
- `sys_read`/`file_read`;
- `sys_lseek`;
- reopening.

The block and inode bitmaps are `BitmapScan` instances.

The model is scaled down:

- a block is `B` bytes;
- a file has `Direct` direct blocks and a table of `PerTable` entries.

Byte `k` of the contents is written by the k-th write, so a read can tell writes apart.

`bitmap_sync` is computed in unsigned 32-bit arithmetic. An index below 0 becomes 2^32 + idx, and the sector it names is checked against `max_lba`.

### Directory

`Directory` models the root directory and the system calls that change it, on `/name` paths:

| Action | Code |
|---|---|
| `FileCreate` | `sys_open` with `O_CREAT` when `search_file` misses, and `file_create` |
| `SysClose` | `sys_close` of the new descriptor |
| `SysUnlink` | `sys_unlink` of a regular file nobody has open |
| `SysMkdir` | `sys_mkdir`, with its rollback |
| `SysRmdir` | `sys_rmdir`: `dir_is_empty`, `dir_remove`, `inode_release`, `inode_delete` |

The helpers are `SyncDirEntry` (`sync_dir_entry`), `DeleteDirEntry` (`delete_dir_entry`) and `Hits` (`search_dir_entry`). An operation's result is an `Outcome` record that the action applies.

State:

- `root` is the root inode in memory; `itab` is the inode table on disk.
- `rtab` is the root's indirect table on disk; `dblk` holds the directory sectors.
- `bbm`/`ibm` are the bitmaps in memory; `dbbm`/`dibm` are their sectors on disk.

A sector holds `PerSec` entries. A size counts entries, not bytes. Each call is one step: system calls run with interrupts off, and their disk waits are those `Devices` models.

Two undefined reads are fixed to one outcome:

- `search_dir_entry` reads the table to the address the value `all_blcoks[12]` holds. The entries after 12 of its `sys_malloc` buffer are taken as 0, so the search sees the direct blocks only.
- `delete_dir_entry`'s write past `inode_sectors` for a table index above 12 is left out. It is unreachable, since a table only ever gets one entry.

### FileSystem

`FileSystem` composes `FileData` and `Directory` with `INSTANCE`. They share `bbm`, `ibm` and `panicked`. A step is a file call (`FileStep`) or a directory call (`DirStep`).

A file step also writes the block bitmap sector when it allocated, as `file_write`'s `bitmap_sync` does. The exception is case 2's table block when `inode_bitmap_alloc` fails at once (`TableUnsynced`).

The open file's inode is in use at mount. Its entry is in a directory the root calls do not reach.

### PartitionScan

`PartitionScan` models boot as two steps: `ide_init` and then `filesystem_init`. `Init` chooses `hd_cnt` and a partition layout for each scanned disk.

- **Layouts.** A layout gives the kinds of the four MBR entries: none, primary or extended, with at most one extended. Under the extended entry it gives a chain of EBRs. Each EBR has a data entry and a link in either order, or just one of them; the last EBR has no link.
  - The layout fixes every LBA. The extended partition of the disk on channel c starts at 200(c+1), and the EBRs are 40 sectors (`Gap`) apart.
  - `Sector` is what `ide_read` returns. A sector that no table names reads as zeros.
  - `Described` gives the partitions each table describes, as spec 4.5 defines them. It is independent of the scanning code.
- **Scan.** `partition_scan` and its entry loop (`ScanEntries`) are `RECURSIVE` operators. They thread a record of the globals the code uses: `ext_lba_base`, `primary_hd_no`, `logic_hd_no`, `partition_list`.
  - The record also holds what goes wrong: boot sectors not freed, a failed `ASSERT`, and writes past `logic_parts`.
  - A `ret` flag carries the early `return` out of one frame only, as C does.
- **Disk loop.** `ScanDisks` is `ide_init`'s loop over the disks. Between disks it resets `primary_hd_no` and `logic_hd_no`, but not `ext_lba_base`.
- **Slot loop.** `FsVisit` is `filesystem_init`'s loop over the slots, with its single `part_idx`.
- **Format and mount.** The disks start unformatted, so `filesystem_init` formats every partition it reads. `partition_format` is an operator. It gives the superblock's layout and the block bitmap the code writes, bit by bit, including the tail it sets and the bits it clears again. `mounted` is the partition `mount_partition` picks as `sdb1`.
- **Abstractions.**
  - `logic_parts` has `MaxLogic` slots (8 in `ide.h`, 2 here). The 12 of `part_idx < 12` is `4 + MaxLogic`.
  - Sectors have 2 bytes (16 bits) instead of 512, and there are 16 inodes of 1 byte instead of 4096 of 76. Before the block bitmap come 11 sectors: boot sector, superblock, 1 inode-bitmap sector and 8 inode-table sectors.
  - The contents of the inode table and the root directory, and partition names, are not modelled.

### Shell

`Shell` models the shell's path commands from the typed argument to the change in the namespace. The namespace is a function from inode numbers to a record: type (`none`, `dir` or `file`), parent, name and whether an entry links it. A path is a sequence of characters, so every string step is modelled by what it does.

| Operator | Code |
|---|---|
| `path_parse`, `ParseNames`, `PathNames`, `path_depth_cnt` | `path_parse` and the loop `path_depth_cnt`, `wash_path` and `search_file` share |
| `WashStep`, `wash_path` | `wash_path`: `..` cuts at the last `/`, keeping `/`; `.` is skipped |
| `make_clear_abs_path`, `AbsPath`, `ClearPath` | `getcwd`, the `/` after a path other than `/`, then `wash_path` |
| `search_dir_entry`, `Search`, `Visit`, `search_file` | `search_file`'s loop: a regular file ends it; `parent`, `depth` and the last name are what `searched_record` keeps |
| `UpWalk`, `ReversedPath`, `sys_getcwd` | the walk up `..` (`get_parent_dir_inode_no`, `get_child_dir_name`) and the `strrchr` reversal |
| `Halt`, `WashPathAssert`, `PathFails` | a kernel `ASSERT` in `getcwd` (`panic_spin`), and the shell's own `assert` in `wash_path` when `getcwd` returned NULL and the path stayed relative. The second is never reached here: `rmdir` frees a directory's inode, so `getcwd` from a removed cwd panics first. |
| `sys_chdir`, `sys_mkdir`, `sys_rmdir`, `sys_unlink` | the calls, with their depth checks, `ASSERT`s and refusals |
| `sys_open_creat`, `file_create` | `sys_open` with `O_CREAT`; `file_create` takes the inode and the slot before `pcb_fd_install` can fail |
| `in_pwd`, `in_cd`, `in_ls`, `in_mkdir`, `in_rmdir`, `in_mkfile`, `in_rm` | the commands; `Pwd`, `ChangeDir`, `List` and `PathCommand` are their bodies, given the path they computed; `Syscall` is the user-side wrapper each path command calls |
| `Next` | `my_shell`'s loop |

Two things serve TLC's speed, not the code:
- `Washed` and `Parsed` tabulate `wash_path` and the parse of its results over every path the shell can build: a `getcwd` path of up to one name per inode, followed by an argument. TLC evaluates these constant tables once.
- An intermediate value that is used more than once (the `search_file` record `s`, the path `r`, getcwd's answer `g`, the walk `w`) is passed to an operator as a parameter rather than bound by `LET`. TLC's profiler, which the runs use to see every action fire, expands a `LET` definition again at every use.

`held` is the set of inodes that `file_table` slots hold, and `fds` counts the shell's used local descriptors. `in_mkfile` never closes its descriptor (`in_cmd.c:427` is commented out). `halted` is the kernel stopped by a failed `ASSERT`. `last` records the command, its argument, the path it used and the cwd it ran in, for the properties.

Against the code, two references are written from the spec: `SpecPath` is section 6's literal normalisation, and `Resolve` is section 4's lookup. `ShellResolvesPaths` says every path the shell uses is the spec's. `CommandsFollowResolution` says the namespace and the cwd change exactly as the spec's lookup of that path says.

## 3. Runs

| Run | Bounds | What it shows |
|---|---|---|
| `sync` | 2 workers and idle, quantum 1, depth 2 | Mutual exclusion (`SemaphoreConserved`), `LockAccounting`, `NoLostTask`, progress (`LockProgress`, `WaiterWoken`) and the refinement `LockRefinesMutex` hold. |
| `sync_starvation` | same | **Violation** of `LockStarvationFree`. A worker woken by `sema_up` loses the lock to the releaser again and again. |
| `filetable` | 2 processes (one by fork), 2 inodes, 2 slots | No slot points to a freed inode (`NoDanglingSlot`), and open counts cover the slots (`OpenCountCoversSlots`). |
| `filetable_inode_cache` | same | **Violation**. An open waits for the user pool lock after its search misses, and a second open of the same inode caches it too. |
| `memory` | 1 page thread, 2 heap users, 2 processes, 8-frame pools with 4 free kernel frames and 1 free user frame | User frames are exclusive, and the heap is consistent. Every kernel-pool allocation returns with its lock released (`KernelAllocationsFinish`), also when `malloc_page` runs out of frames halfway. The second process takes `get_a_page`'s `NULL` return, which keeps the user pool lock (hazard at `memory.c:383`). |
| `memory_frame_race` | same | **Violation**. The unlocked kernel-pool `palloc` and a locked one take the same frame. |
| `devices` | 2 disk users (a 2-sector read, a 1-sector write), 1 reader, ring of 3, 3 keys | The `disk_done` handshake matches each command, and an unexpected IRQ14 leaves no token (`DiskDoneTracksCommand`). The ring keeps pending keys in order. A reader sleeps only on an empty ring. Every request completes, and every accepted key is delivered. |
| `file_system` | blocks of 2 bytes, 4 direct blocks, 3 writes of 1–2 bytes; root sectors of 2 entries, one name; 3 free block bits and 3 free inode bits shared | `RoundTrip`: the file's bytes are what the writes wrote. `ReadReturnsContent`: every read returns the written bytes from `fd_pos` on. `BlocksExclusive`: every block of the file and of the directories has one owner and its bit set, also after failed allocations and frees. `DirSize`: every directory's size is its number of entries, with `.` and `..` in block 0. `ImageCoversMemory`: the root inode on disk is the one in memory, and the bitmaps on disk cover memory. |
| `shell` | 4 inodes; arguments `a`, `/a`, `..`, `a/b`, `/a/../b`, `//b/`; 1 free local descriptor, 2 free slots; a fresh root or one with a file `/a` | Every path the shell uses is the one the spec resolves the argument to (`ShellResolvesPaths`). Each command changes the namespace and the cwd as the spec's lookup says (`CommandsFollowResolution`). Both hold up to the `getcwd` `ASSERT` that stops the kernel after `rmdir` of the cwd. |
| `directory_crossing` | `Directory` alone, 2 direct blocks, sectors of 2 entries, 3 names, 5 free blocks | **Violation** of `DirSize`. The root's second entry past the direct blocks replaces its indirect table. |
| `partition_scan` | `hd_cnt` 2 or 4; all 1392 shapes of `sdb` with up to 3 EBRs, each with both sizes (2784 layouts); 2 layouts of `sdd`; partitions of 28 or 30 sectors; `MaxLogic` 2; `ASSERT` compiled in | **Violation** of `BootPreparesPartitions`. A disk with four primary partitions halts the kernel in `partition_scan`. |
| `directory_fsck` | `Directory` alone, the bounds of `file_system` with 2 names | **Violation** of `FsckClean`. After `mkdir` then `rmdir`, the on-disk inode bitmap keeps the removed inode. |

Why these bounds are enough:

- **`sync`, `memory`.** A quantum of one tick lets the timer fall into every window between two steps.
- **`devices`.**
  - `SleepTicks` is 3, because the main thread's turn lasts two ticks. This lets `busy_wait`'s sleep both yield and end.
  - `Chunk` is 1, so a 2-sector read takes two rounds.
- **`file_system`.**
  - The file and the directories draw on the same three free blocks, so each runs out because of the other. The failure paths of `file_write`, `sync_dir_entry` and `sys_mkdir` are taken.
  - Writes of 1 or 2 bytes on 2-byte blocks cover a partial first block, writes that span blocks, and writes ending on a block boundary, where `size/512 + 1` takes a block early.
  - With two entries per sector, the root's first entry needs a new block, and its removal frees that block again.
  - One name suffices: the name can be a file, then a directory, and leaked inodes make the three free inodes run out.
  - The run reaches 54,840 distinct states in about four minutes with coverage reporting on. Two names multiply that past the time limit.
- **Reductions.**
  - `SYMMETRY` permutes the names, since no property names one.
  - `VIEW` drops two kinds of data no call reads again: the disk table when the root has none, and sectors nobody points to. A directory zeroes and writes a sector whole before it points to it.
- **`partition_scan`.**
  - Three EBRs with a cap of two logicals reach the cap both with the data entry before the link and with the link before it.
  - Two disks, each with an extended partition, show what `ext_lba_base` carries from one disk to the next.
  - The kernel build defines no `NDEBUG`, so `Debug` is `TRUE` here and in `memory_frame_race`. The `memory`, `file_system`, `directory_crossing` and `directory_fsck` runs set `Debug` to `FALSE`: they check an `NDEBUG` build. With `ASSERT` compiled in, `bitmap_scan`'s `ASSERT(idx_byte < btmp_bytes_len)` (`bitmap.c:46`) panics on a full bitmap. The callers' `NULL` and `-1` paths (a full pool, no free block or inode) then never run. Without it, those paths run and are what these runs check.
  - Partition sizes cover both outcomes of `partition_format`'s rounding. At 30 sectors the block bitmap keeps all the sectors it first reserved. At 28 it shrinks by one, which leaves one spare sector at the end of the partition.
  - Boot is a one-shot sequence, so this cfg sets `CHECK_DEADLOCK FALSE`.
- **`shell`.**
  - Four inodes give the root, a directory, an entry inside it, and one inode free to be reused after a `rmdir`.
  - The arguments cover a relative and an absolute name, `..` at the top and in the middle, a name under a name, and runs of `/` with a trailing `/`.
  - One descriptor and two slots let `mkfile` run out of descriptors before slots, and slots before inodes.
  - The file `/a` at boot is one no slot holds, so `rm` can remove it, and `rm a/b` resolves to it.
  - The run reaches about 32,000 distinct states in under a minute and a half. It sets `CHECK_DEADLOCK FALSE`, because a failed `ASSERT` stops the kernel in `panic_spin`.
- **`CHECK_DEADLOCK FALSE`.** This is set in the `Directory` cfgs, in `partition_scan` and in `shell` only. Once every resource leaks, each call fails without a change, which the model leaves out as a stutter. The kernel itself keeps running.

## 4. Findings

**Lock starvation** (`sync_starvation`, spec gap).
- `sema_up` wakes the head waiter but does not hand it the lock.
- So the lock has FIFO wake-up, not FIFO acquisition.

**Inode cached twice** (`filetable_inode_cache`).
- `inode_open` does not search the open list again after `sys_malloc` waited for the user pool lock (`inode.c:136`), which `start_process` holds while it is preempted.
- The disk reads do not open this window, because `ide_read` holds the channel lock.

**Shared frame** (`memory_frame_race`).
- `page_table_add` calls `palloc(&kernel_pool)` while holding only the user pool lock.

**Partition scan** (`partition_scan`, code bugs in `ide.c` and `fs.c`).
- `partition_scan` increments `primary_hd_no` and then asserts `primary_hd_no < 4` (`ide.c:294`). So the fourth primary partition halts the kernel, though spec 4.5 allows four. This is the trace TLC reports.
- `BootPreparesPartitions` catches four more bugs. Each was confirmed by checking the property over a restricted set of layouts:
  - **Leak at the cap.** On a chain that reaches the logical cap, the `return` at `ide.c:307` skips `sys_free(bs)`.
  - **Write past `logic_parts`.** That `return` ends only the innermost frame. An outer EBR whose link comes before its data entry goes on and writes `logic_parts[MaxLogic]`, past the array (into `channels[1]`), and appends it to `partition_list`.
  - **Stale base.** With two disks that both have an extended partition, `ext_lba_base` still holds the first disk's base, so the second disk's first EBR is read from the wrong sector and its logical partitions are lost (`ide.c:270`, no reset at `ide.c:518`).
  - **Block past the partition left free.** `partition_format` clears bits `0..block_bitmap_last_bit` of the bitmap's last byte (`fs.c:112`), one bit more than the data region has. With 30-sector partitions, the block that bit stands for is the first sector after the partition, so a full disk writes into the next partition. At 28 sectors the bit falls on the partition's spare sector and does no harm. Spec 4.6 says the padding bits are set.
  - **Second disk never read.** With four disks, `filesystem_init`'s `part_idx` (`fs.c:221`) is already 12 when it reaches `sdd`, so `sdd`'s partitions are listed but never read or formatted.

**File past 12 blocks** (code bug at `file.c:454`, no run).
- Once a file grows past its 12 direct blocks, `file_write` allocates data blocks with `inode_bitmap_alloc`.
- The inode number it gets is below `data_start_lba`, so the `bitmap_sync` index underflows.
- `ide_write` is then asked for a sector past `max_lba`, and the kernel panics.
- Any file larger than 6 KiB stops the kernel. Spec property 8 says files up to 71680 bytes round-trip.
- `FileData`'s `RoundTrip` fails on it, with 4 direct blocks and 7 free block bits. A single 7 KiB write shows the bug, which a unit test reaches, so the run budget goes to the partition scan instead.

**Directory past 12 blocks** (`directory_crossing`, code bug at `dir.c:167`).
- `sync_dir_entry` never reads the indirect table. Every entry past the direct blocks allocates a new table and data block, and overwrites `inode_sectors[12]`.
- `search_dir_entry` (`dir.c:71`) never sees the table either. So the trace creates a second file of a name already there, and the first one's entry is lost.
- `inode_size` still counts the lost entry, against spec property 9.

**Removed inodes stay allocated on disk** (`directory_fsck`, code bug at `inode.c:295`).
- `inode_release` syncs the cleared inode bit with type `BLOCK_BITMAP`, so the inode bitmap on disk keeps the bit.
- `sys_unlink` (`fs.c:686`) never calls `inode_release`, and `sys_mkdir`'s rollback keeps the new directory's block. `FsckClean` catches both.
- The spec says unlink frees the inode and its blocks (property 10), and that bitmap changes are written through to disk.

**Shell removes its own cwd** (code bug at `fs.c:929`, no run).
- `sys_rmdir` never compares the directory with a task's `cwd_inode_no`. The shell run reaches both outcomes.
- `mkdir a`, `cd a`, `rmdir /a`, `pwd`: `getcwd` walks up from the freed inode, `get_parent_dir_inode_no` asserts that its first block is a data block (`fs.c:978`), and the kernel stops.
- `mkdir a`, `cd a`, `rmdir /a`, `mkdir /a`: the new directory takes the freed inode, and the shell's cwd is silently the new `/a`.
- Both properties hold on these traces: the model takes the stop as the end. The run budget has no room for a violation run of its own.

**`mkfile` keeps every file open** (code bug at `in_cmd.c:427`, checked by `shell`).
- The `close(fd)` after `open(O_CREAT)` is commented out, so each `mkfile` keeps a local descriptor and a `file_table` slot.
- Once the descriptors run out, `file_create` has already written the entry and taken the slot when `pcb_fd_install` fails, so `mkfile` reports an error for a file it created.
- `rm` of any file `mkfile` made fails, because `sys_unlink` refuses a file that a slot holds. `CommandsFollowResolution` states both outcomes, and holds.

**Divergences kept as hazards.** None of these has a run of its own. Most show in a single short call sequence:

- **Arena never returned.** `sys_malloc` never decrements an arena's `cnt`, so `sys_free` never returns the arena.
- **Pages kept by a failed `malloc_page`.** When `palloc` fails partway through a multi-page `malloc_page` (`memory.c:307`), it returns NULL without clearing the virtual-address bits or freeing the frames it already mapped. `Memory` keeps them set, but no run checks that every set bit has an owner.
- **Ring holds 63 keys.** The keyboard ring holds 63 keys, not 64, because `ioqueue_is_full` leaves one slot unused.
- **Run past the bitmap.** `bitmap_scan`'s loop runs one bit too far (`bitmap.c:67`), so it can return a run that ends on the bit after the bitmap. `BitmapScan` keeps that bit in its model.
- **Duplicate name.** `sys_open(O_CREAT)` searches, then `file_create`'s `sys_malloc(io_buf)` (`file.c:137`) waits for the user pool lock. A second create of the same name completes meanwhile, and the resumed first one adds a second entry. `UniqueNames` in `FileTable` states the property. TLC finds it violated in eight steps under `MCFileTable.cfg`: fork, the starter locks, a create waits, the starter unlocks, a second create completes, the first resumes. No run checks it.
- **Two writers.** `file_close` clears `write_deny` for every descriptor, and `file_create` leaves it false. So a second writer can open a file that is still open for writing, against spec property 11.

## 5. Fairness

| Module | Fairness | Justification |
|---|---|---|
| `Sync` | `WF(Run)`, `WF(Tick)` | The CPU always runs the running task. The timer is masked only during atomic steps. |
| `Memory` | `WF` on each task's step | The round-robin scheduler gives every READY task the CPU again. |
| `Devices` | `SF` on each user's step | A task may be preempted by the tick before every step, so each step is enabled only intermittently. |
| `Devices` | `WF` on the drive and the tick | The drive finishes a command. The main thread keeps interrupts on until the timer fires. |
| `Devices` | `SF` on IRQ14 delivery | The timer, at higher priority, may take each window. |
| `Devices` | none on key presses | Nobody has to press a key. |
| `FileTable`, `BitmapScan`, `FileData`, `Directory`, `FileSystem`, `PartitionScan`, `Shell` | none | They check safety only. |

## 6. Not modelled

| Part | Reason |
|---|---|
| `identify_disk`, and `hd_cnt` of 1 or 3 | Port I/O. With an odd `hd_cnt`, `ide_init` still probes the absent second drive of the last channel. |
| Partitions smaller than the metadata | `partition_format`'s `free_sects = sec_cnt - used_sects` wraps in a `uint32_t` on a partition of fewer than 611 sectors. The layouts keep every partition larger (`ASSUME` in `MCPartitionScan`). |
| Cyclic EBR chains, and a second extended entry in an MBR | An EBR link back into the chain recurses without end. The models keep to chains a partitioning tool writes. |
| `busy_wait`'s time limit (`ide.c:177`) | `time_limit -= 10 >= 0` subtracts 1 per round. The models do not bound how long the drive stays busy. |
| `dir_read`/`sys_readdir`, `sys_stat` | They only read, apart from `dir_pos`. `sys_stat` never closes the parent directory that `search_file` opened, so each `ls -l` leaks a `dir` struct and an open count. No model counts directory opens. |
| Writes into subdirectories on disk | `Shell` resolves paths of any depth over an abstract namespace. On disk, a subdirectory's `sync_dir_entry` is the root's with another inode. |
| `dir_open`/`dir_close` open counts in `Directory` | `FileTable` models the open-inode list. |
| The syscall table and register marshalling, string and printing routines | No state. `Shell` has the wrappers the shell calls as `Syscall`. |
| `readline`, `cmd_parse`, `ps`, `clear` | The spec puts the shell's command parsing out of scope. `readline` writes `buf[count]` before its bound check, and `cmd_parse` lets `argc` reach `MAX_ARG_NO + 1`, one past `argv`. Both are string work that TLC cannot reach without modelling the characters of a line. |
| Boot, GDT/IDT/TSS, `frequency_set`, VGA output | Pure I/O. |
| The page copy of `fork` | No concurrent state. |

`FileData` also leaves out these parts:

- The `malloc` failures of `file_write`'s buffers.
- The on-disk inode (`inode_sync`). The inode is kept in memory. `Directory` models `inode_sync` for the directories.
- The layout with more than `data_start_lba` inodes in use, where the crossing instead overwrites a low sector.
