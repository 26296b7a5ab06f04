------------------------------- MODULE Memory -------------------------------
(***************************************************************************)
(* The physical frame pools and the kernel heap of kernel/memory.c under  *)
(* concurrent use.                                                         *)
(*                                                                         *)
(* The kernel pool and the user pool each have a bitmap (one bit a frame) *)
(* and a lock.  Three kinds of task use them:                              *)
(*  - kernel threads calling get_kernel_pages(1): under the kernel pool   *)
(*    lock, malloc_page reserves a page of kernel_vaddr, takes a frame     *)
(*    with palloc(&kernel_pool) and maps it;                               *)
(*  - kernel threads calling sys_malloc(size) and later sys_free on the    *)
(*    result: under the kernel pool lock, a small request pops a block of *)
(*    its size class, building a new arena with malloc_page(1) when the   *)
(*    class's free list is empty; a large one takes its own pages;         *)
(*  - new processes in start_process, which call                          *)
(*    get_a_page(PF_USER, USER_STACK3_VADDR): under the user pool lock it *)
(*    takes a user frame, and page_table_add, finding no page table for   *)
(*    the stack (a new page directory only has the kernel's), takes one   *)
(*    more frame from the KERNEL pool for it, without the kernel pool lock. *)
(*                                                                         *)
(* All run with interrupts on (kernel_thread calls intr_enable), so the   *)
(* timer may switch tasks between any two statements; palloc's scan and   *)
(* its bitmap_set are separate steps.  What the kernel pool lock alone    *)
(* protects (kernel_vaddr, the block descriptors, the arenas) is touched  *)
(* only by its holder, so each such stretch is one step.  The pool locks  *)
(* are the recursive mutex of RecursiveMutex, which Sync shows            *)
(* get_lock/abandon_lock implement.  A process's own vaddr bitmap is      *)
(* private to it.                                                          *)
(***************************************************************************)
EXTENDS Integers, FiniteSets, Sequences, Functions

CONSTANTS
  KThreads,   \* kernel threads calling get_kernel_pages(1)
  HeapUsers,  \* kernel threads calling sys_malloc, then sys_free
  Procs,      \* processes in start_process
  NoTask,     \* lock.holder = NULL
  PoolLen,    \* pool_bitmap.btmp_bytes_len of either pool, and of kernel_vaddr
  KInit,      \* kernel pool bitmap after boot
  UInit,      \* user pool bitmap after boot
  VInit,      \* kernel_vaddr bitmap after boot, and the bit after it
  Requests,   \* the sizes passed to sys_malloc
  BlocksPerArena, \* mem_block_desc.blocks_per_arena, scaled down
  Debug       \* ASSERT compiled in

Tasks == KThreads \cup HeapUsers \cup Procs

ASSUME /\ KThreads \cap HeapUsers = {} /\ Procs \cap (KThreads \cup HeapUsers) = {}
       /\ NoTask \notin Tasks
       /\ BlocksPerArena \in Nat \ {0}

Pools == {"K", "U"}

PgSize == 4096
MEM_DESC_CNT == 7
Classes == 0 .. MEM_DESC_CNT - 1
ArenaHdr == 12        \* sizeof(struct arena): desc, cnt, large

\* The sizes pass the test of line 476: 0 < size < pool_size.
ASSUME Requests \subseteq 1 .. 8 * PoolLen * PgSize - 1

VARIABLES
  bm,         \* bm[pool]: kernel_pool / user_pool .pool_bitmap
  kowner,     \* kernel_pool.lock
  kcount,
  uowner,     \* user_pool.lock
  ucount,
  pc,         \* where each task is
  idx,        \* palloc's local bit_idx between its scan and its bitmap_set
  claims,     \* the frames the tasks took: [pool, frame, task]
  pde,        \* the page table frame start_process maps its stack with
  vbm,        \* kernel_vaddr.vaddr_bitmap, and the bit after it
  kpte,       \* kpte[v]: the frame kernel heap page v maps, if any
  va,         \* malloc_page's vaddr_start
  left,       \* malloc_page's cnt: pages still to map
  req,        \* the size each heap user asks sys_malloc for
  held,       \* the block sys_malloc returned to each heap user
  arenas,     \* arenas[v]: the arena header at kernel page v
  freeList,   \* freeList[c]: k_block_descs[c].free_list, head first
  panicked    \* the kernel stopped in panic_spin

vars == <<bm, kowner, kcount, uowner, ucount, pc, idx, claims, pde,
          vbm, kpte, va, left, req, held, arenas, freeList, panicked>>
heapVars == <<vbm, kpte, va, left, req, held, arenas, freeList>>

Bitmap == INSTANCE BitmapScan
            WITH BytesLen <- PoolLen, Sizes <- 1 .. 8 * PoolLen, InitBits <- {},
                 bits <- vbm, runs <- {}, boot <- {}

KLock == INSTANCE RecursiveMutex
           WITH Holders <- Tasks, None <- NoTask, owner <- kowner, count <- kcount
ULock == INSTANCE RecursiveMutex
           WITH Holders <- Tasks, None <- NoTask, owner <- uowner, count <- ucount

Frames == 0 .. 8 * PoolLen - 1
VPages == 0 .. 8 * PoolLen - 1

\* The pool a task's own allocation comes from.
PoolOf(t) == IF t \in Procs THEN "U" ELSE "K"

\* The pool palloc works on at this pc: page_table_add allocates from the
\* kernel pool.
PallocPool(t) == IF pc[t] \in {"pt_scan", "pt_set"} THEN "K" ELSE PoolOf(t)

\* PDE and PTE values: not present, and present with the NULL that palloc
\* returned.
Absent == -1
NullTable == -2

\* block_desc_init (memory.c 407-421): class c holds blocks of 16 * 2^c.
BlockSize(c) == 16 * 2 ^ c

\* sys_malloc's loop over the descriptors (memory.c 507-514): the first
\* class whose blocks are large enough.
ClassOf(size) ==
  CHOOSE c \in Classes : size <= BlockSize(c) /\ \A d \in 0 .. c - 1 : size > BlockSize(d)

IsLarge(size) == size > 1024

\* DIV_ROUND_UP(size + sizeof(struct arena), PG_SIZE) (memory.c 487).
PageCnt(size) == (size + ArenaHdr + PgSize - 1) \div PgSize

\* The pages malloc_page maps for task t.
PagesOf(t) == IF t \in HeapUsers /\ IsLarge(req[t]) THEN PageCnt(req[t]) ELSE 1

NoArena == [desc |-> -1, cnt |-> 0, large |-> FALSE]
NoBlock == [arena |-> -1, idx |-> -1]

\* A pointer sys_malloc returns: block idx of the arena at page v
\* (arena2block, memory.c 429-432; block2arena, 439-443, recovers v), or
\* the payload of a large arena (idx -1).
Blocks == [arena : VPages, idx : -1 .. BlocksPerArena - 1]

\* The blocks of the small arena at page v, in arena2block order.
ArenaBlocks(v) == [i \in 1 .. BlocksPerArena |-> [arena |-> v, idx |-> i - 1]]

PCs == {"lock", "malloc", "scan", "set", "pt_scan", "pt_set", "arena",
        "unlock", "flock", "free", "done"}

TypeOK ==
  /\ bm \in [Pools -> [Frames -> {0, 1}]]
  /\ KLock!MutexTypeOK /\ ULock!MutexTypeOK
  /\ pc \in [Tasks -> PCs]
  /\ idx \in [Tasks -> Frames \cup {-1}]
  /\ claims \subseteq [pool : Pools, frame : Frames, task : Tasks]
  /\ pde \in [Procs -> Frames \cup {Absent, NullTable}]
  /\ vbm \in [0 .. 8 * PoolLen -> {0, 1}]
  /\ kpte \in [VPages -> Frames \cup {Absent}]
  /\ va \in [Tasks -> VPages \cup {-1}]
  /\ left \in [Tasks -> 0 .. 8 * PoolLen]
  /\ req \in [HeapUsers -> Requests]
  /\ held \in [HeapUsers -> Blocks \cup {NoBlock}]
  /\ arenas \in [VPages -> [desc : Classes \cup {-1}, cnt : Nat, large : BOOLEAN]]
  /\ freeList \in [Classes -> Seq(Blocks)]
  /\ panicked \in BOOLEAN

(***************************************************************************)
(* mem_pool_init (memory.c 57-123): both pool bitmaps and kernel_vaddr    *)
(* cleared, both locks initialised; block_desc_init (407-421) empties the *)
(* free lists.  Then boot and the main thread have taken some frames and  *)
(* kernel pages (whose mappings the model does not track).  The kernel    *)
(* page tables for the heap exist from boot (memory.c 63-64).             *)
(***************************************************************************)
Init ==
  /\ bm = [p \in Pools |-> IF p = "K" THEN KInit ELSE UInit]
  /\ KLock!MutexInit /\ ULock!MutexInit
  /\ pc = [t \in Tasks |-> "lock"]
  /\ idx = [t \in Tasks |-> -1]
  /\ claims = {}
  /\ pde = [p \in Procs |-> Absent]
  /\ vbm = VInit
  /\ kpte = [v \in VPages |-> Absent]
  /\ va = [t \in Tasks |-> -1]
  /\ left = [t \in Tasks |-> 0]
  /\ req \in [HeapUsers -> Requests]
  /\ held = [t \in HeapUsers |-> NoBlock]
  /\ arenas = [v \in VPages |-> NoArena]
  /\ freeList = [c \in Classes |-> << >>]
  /\ panicked = FALSE

-----------------------------------------------------------------------------
(***************************************************************************)
(* get_lock of get_kernel_pages (memory.c 322), of sys_malloc (483), of   *)
(* sys_free (709) and of get_a_page (memory.c 358); get_a_page then marks *)
(* the page in the process's own vaddr bitmap.                             *)
(***************************************************************************)
Lock(t) ==
  /\ pc[t] \in {"lock", "flock"}
  /\ IF t \in Procs THEN ULock!Acquire(t) /\ UNCHANGED <<kowner, kcount>>
                    ELSE KLock!Acquire(t) /\ UNCHANGED <<uowner, ucount>>
  /\ pc' = [pc EXCEPT ![t] = CASE pc[t] = "flock" -> "free"
                               [] t \in Procs -> "scan"
                               [] OTHER -> "malloc"]
  /\ UNCHANGED <<bm, idx, claims, pde, heapVars, panicked>>

(***************************************************************************)
(* vaddr_get(PF_KERNEL, n) (memory.c 145-166) at the start of malloc_page *)
(* (288-295): on -1 malloc_page returns NULL and its caller releases the  *)
(* lock.                                                                   *)
(***************************************************************************)
VaddrGet(t, n) ==
  LET r == Bitmap!BitmapScan(vbm, n) IN
    CASE r = Bitmap!Panic -> panicked' = TRUE /\ UNCHANGED <<pc, vbm, va, left>>
      [] r = -1 -> pc' = [pc EXCEPT ![t] = "unlock"] /\ UNCHANGED <<vbm, va, left, panicked>>
      [] OTHER -> /\ vbm' = Bitmap!SetRun(vbm, r, n, 1)
                  /\ va' = [va EXCEPT ![t] = r]
                  /\ left' = [left EXCEPT ![t] = n]
                  /\ pc' = [pc EXCEPT ![t] = "scan"]
                  /\ UNCHANGED panicked

\* A small request whose size class has a free block.
FromFreeList(t) ==
  t \in HeapUsers /\ ~IsLarge(req[t]) /\ freeList[ClassOf(req[t])] # << >>

\* Mutant: the small path hands out the head block without list_pop.
MallocNoPop(t) ==
  /\ pc[t] = "malloc"
  /\ IF FromFreeList(t)
       THEN /\ held' = [held EXCEPT ![t] = Head(freeList[ClassOf(req[t])])]
            /\ pc' = [pc EXCEPT ![t] = "unlock"]
            /\ UNCHANGED <<vbm, va, left, freeList, panicked>>
       ELSE VaddrGet(t, PagesOf(t)) /\ UNCHANGED <<held, freeList>>
  /\ UNCHANGED <<bm, kowner, kcount, uowner, ucount, idx, claims, pde, kpte, req, arenas>>

(***************************************************************************)
(* The body of sys_malloc under the lock (memory.c 484-517, 543-548) and  *)
(* the malloc_page of get_kernel_pages: a small request whose class has a *)
(* free block pops it (list_pop) and returns it; otherwise malloc_page     *)
(* starts with vaddr_get for the page count (one for a new arena).         *)
(***************************************************************************)
Malloc(t) ==
  /\ pc[t] = "malloc"
  /\ IF FromFreeList(t)
       THEN LET c == ClassOf(req[t]) IN
              /\ held' = [held EXCEPT ![t] = Head(freeList[c])]
              /\ freeList' = [freeList EXCEPT ![c] = Tail(@)]
              /\ pc' = [pc EXCEPT ![t] = "unlock"]
              /\ UNCHANGED <<vbm, va, left, panicked>>
       ELSE VaddrGet(t, PagesOf(t)) /\ UNCHANGED <<held, freeList>>
  /\ UNCHANGED <<bm, kowner, kcount, uowner, ucount, idx, claims, pde, kpte, req, arenas>>

\* Mutant: palloc without its test for -1 (memory.c 229-232).
PallocScanNoNullCheck(t) ==
  /\ pc[t] \in {"scan", "pt_scan"}
  /\ LET r == Bitmap!BitmapScan(bm[PallocPool(t)], 1) IN
       IF r = Bitmap!Panic
         THEN panicked' = TRUE /\ UNCHANGED <<pc, idx, pde>>
         ELSE /\ idx' = [idx EXCEPT ![t] = r]
              /\ pc' = [pc EXCEPT ![t] = IF pc[t] = "scan" THEN "set" ELSE "pt_set"]
              /\ UNCHANGED <<pde, panicked>>
  /\ UNCHANGED <<bm, kowner, kcount, uowner, ucount, claims, heapVars>>

(***************************************************************************)
(* The scan of palloc (memory.c 226-232), bitmap_scan(&pool_bitmap, 1).    *)
(* On -1 the callers differ:                                               *)
(*  - malloc_page returns NULL (memory.c 305-308), leaving the vaddr bits *)
(*    and the frames it took, and its caller releases the lock;            *)
(*  - get_a_page returns NULL keeping the user pool lock (memory.c 380-383); *)
(*  - page_table_add does not test for NULL: it writes PDE = 0 | flags and *)
(*    zeroes the "page table" at physical 0 (memory.c 270-277).            *)
(***************************************************************************)
\* get_a_page's palloc finding no frame returns NULL at once, skipping its
\* abandon_lock (memory.c 380-384): the process is done and keeps the lock.
GetAPageNull(t) == t \in Procs /\ pc[t] = "scan"

PallocScan(t) ==
  /\ pc[t] \in {"scan", "pt_scan"}
  /\ LET r == Bitmap!BitmapScan(bm[PallocPool(t)], 1) IN
       CASE r = Bitmap!Panic ->
              /\ panicked' = TRUE
              /\ UNCHANGED <<pc, idx, pde>>
         [] r = -1 ->
              /\ pc' = [pc EXCEPT ![t] = IF GetAPageNull(t) THEN "done" ELSE "unlock"]
              /\ pde' = IF pc[t] = "pt_scan" THEN [pde EXCEPT ![t] = NullTable] ELSE pde
              /\ UNCHANGED <<idx, panicked>>
         [] OTHER ->
              /\ idx' = [idx EXCEPT ![t] = r]
              /\ pc' = [pc EXCEPT ![t] = IF pc[t] = "scan" THEN "set" ELSE "pt_set"]
              /\ UNCHANGED <<pde, panicked>>
  /\ UNCHANGED <<bm, kowner, kcount, uowner, ucount, claims, heapVars>>

\* The pc after a frame is mapped: a process's first page needs its page
\* table; malloc_page's loop goes round while pages are left (memory.c 302);
\* sys_malloc then builds its arena.
AfterMap(t) ==
  CASE t \in Procs /\ pc[t] = "set" -> "pt_scan"
    [] t \in Procs -> "unlock"
    [] left[t] > 1 -> "scan"
    [] t \in HeapUsers -> "arena"
    [] OTHER -> "unlock"

\* The kernel heap page the frame of this step maps.
MappedPage(t) == va[t] + PagesOf(t) - left[t]

\* Mutant: page_table_add takes its frame from the user pool.
PallocSetUserPool(t) ==
  /\ pc[t] \in {"set", "pt_set"}
  /\ bm' = [bm EXCEPT !["U"][idx[t]] = 1]
  /\ claims' = claims \cup {[pool |-> "U", frame |-> idx[t], task |-> t]}
  /\ pc' = [pc EXCEPT ![t] = AfterMap(t)]
  /\ pde' = IF pc[t] = "pt_set" THEN [pde EXCEPT ![t] = idx[t]] ELSE pde
  /\ kpte' = IF t \in Procs THEN kpte ELSE [kpte EXCEPT ![MappedPage(t)] = idx[t]]
  /\ left' = IF t \in Procs THEN left ELSE [left EXCEPT ![t] = @ - 1]
  /\ idx' = [idx EXCEPT ![t] = -1]
  /\ UNCHANGED <<kowner, kcount, uowner, ucount, vbm, va, req, held, arenas, freeList, panicked>>

(***************************************************************************)
(* The bitmap_set of palloc (memory.c 234-236) with the frame the scan    *)
(* found, and the page_table_add that maps it (memory.c 245-278): a       *)
(* kernel heap page has its page table, a process's first user page does  *)
(* not, so page_table_add goes back to palloc for the kernel pool; with   *)
(* the page table frame the PDE is written.                                *)
(***************************************************************************)
PallocSet(t) ==
  /\ pc[t] \in {"set", "pt_set"}
  /\ bm' = [bm EXCEPT ![PallocPool(t)][idx[t]] = 1]
  /\ claims' = claims \cup {[pool |-> PallocPool(t), frame |-> idx[t], task |-> t]}
  /\ pc' = [pc EXCEPT ![t] = AfterMap(t)]
  /\ pde' = IF pc[t] = "pt_set" THEN [pde EXCEPT ![t] = idx[t]] ELSE pde
  /\ kpte' = IF t \in Procs THEN kpte ELSE [kpte EXCEPT ![MappedPage(t)] = idx[t]]
  /\ left' = IF t \in Procs THEN left ELSE [left EXCEPT ![t] = @ - 1]
  /\ idx' = [idx EXCEPT ![t] = -1]
  /\ UNCHANGED <<kowner, kcount, uowner, ucount, vbm, va, req, held, arenas, freeList, panicked>>

(***************************************************************************)
(* The rest of sys_malloc once malloc_page returned its pages.  A large   *)
(* request gets an arena with no descriptor and cnt = page_cnt and the    *)
(* pointer after the header (memory.c 489-497).  A small one makes the    *)
(* page an arena of its class with cnt = blocks_per_arena, appends every  *)
(* block to the class's free list and pops the head (memory.c 524-545).   *)
(***************************************************************************)
MakeArena(t) ==
  /\ pc[t] = "arena"
  /\ IF IsLarge(req[t])
       THEN /\ arenas' = [arenas EXCEPT ![va[t]] = [desc |-> -1, cnt |-> PageCnt(req[t]), large |-> TRUE]]
            /\ held' = [held EXCEPT ![t] = [arena |-> va[t], idx |-> -1]]
            /\ UNCHANGED freeList
       ELSE LET c == ClassOf(req[t])
                l == freeList[c] \o ArenaBlocks(va[t])
            IN /\ arenas' = [arenas EXCEPT ![va[t]] = [desc |-> c, cnt |-> BlocksPerArena, large |-> FALSE]]
               /\ held' = [held EXCEPT ![t] = Head(l)]
               /\ freeList' = [freeList EXCEPT ![c] = Tail(l)]
  /\ pc' = [pc EXCEPT ![t] = "unlock"]
  /\ UNCHANGED <<bm, kowner, kcount, uowner, ucount, idx, claims, pde, vbm, kpte, va, left, req, panicked>>

\* Mutant: the caller returns without abandon_lock.
UnlockForgotten(t) ==
  /\ pc[t] = "unlock"
  /\ pc' = [pc EXCEPT ![t] = "done"]
  /\ UNCHANGED <<bm, kowner, kcount, uowner, ucount, idx, claims, pde, heapVars, panicked>>

(***************************************************************************)
(* abandon_lock of get_kernel_pages (memory.c 328), sys_malloc (496, 501, *)
(* 522, 547), sys_free (734) and get_a_page (387).  A heap user that got  *)
(* a block goes on to free it.                                             *)
(***************************************************************************)
Unlock(t) ==
  /\ pc[t] = "unlock"
  /\ IF t \in Procs THEN ULock!Release(t) /\ UNCHANGED <<kowner, kcount>>
                    ELSE KLock!Release(t) /\ UNCHANGED <<uowner, ucount>>
  /\ pc' = [pc EXCEPT ![t] = IF t \in HeapUsers /\ held[t] # NoBlock THEN "flock" ELSE "done"]
  /\ UNCHANGED <<bm, idx, claims, pde, heapVars, panicked>>

(***************************************************************************)
(* mfree_page(PF_KERNEL, v, n) (memory.c 634-680) of the pages P: for each *)
(* page, pfree (556-574) clears the bit of the frame its PTE maps and      *)
(* page_table_pte_remove (580-587) clears the PTE; then vaddr_remove       *)
(* (595-625) clears the vaddr bits.                                        *)
(***************************************************************************)
MfreePages(P) ==
  LET Fs == {kpte[v] : v \in P} IN
    /\ bm' = [bm EXCEPT !["K"] = [f \in Frames |-> IF f \in Fs THEN 0 ELSE bm["K"][f]]]
    /\ claims' = {c \in claims : ~(c.pool = "K" /\ c.frame \in Fs)}
    /\ kpte' = [v \in VPages |-> IF v \in P THEN Absent ELSE kpte[v]]
    /\ vbm' = [i \in DOMAIN vbm |-> IF i \in P THEN 0 ELSE vbm[i]]

(***************************************************************************)
(* sys_free under the lock (memory.c 710-733).  A large arena gives back  *)
(* its cnt pages.  A small block is appended to its class's free list and *)
(* ++cnt compared with blocks_per_arena: when equal, every block of the   *)
(* arena leaves the list and its page is given back.                       *)
(***************************************************************************)
Free(t) ==
  /\ pc[t] = "free"
  /\ LET b == held[t]
         ar == arenas[b.arena]
         l == Append(freeList[ar.desc], b)
         release == ar.large \/ ar.cnt + 1 = BlocksPerArena
         P == IF ~release THEN {} ELSE b.arena .. b.arena + (IF ar.large THEN ar.cnt ELSE 1) - 1
     IN /\ freeList' = IF ar.large THEN freeList
                       ELSE [freeList EXCEPT ![ar.desc] =
                               IF release THEN SelectSeq(l, LAMBDA x : x.arena # b.arena) ELSE l]
        /\ arenas' = [arenas EXCEPT ![b.arena] = IF release THEN NoArena ELSE [ar EXCEPT !.cnt = @ + 1]]
        /\ MfreePages(P)
  /\ held' = [held EXCEPT ![t] = NoBlock]
  /\ pc' = [pc EXCEPT ![t] = "unlock"]
  /\ UNCHANGED <<kowner, kcount, uowner, ucount, idx, pde, va, left, req, panicked>>

Step(t) ==
  /\ ~panicked
  /\ \/ Lock(t) \/ Malloc(t) \/ PallocScan(t) \/ PallocSet(t)
     \/ MakeArena(t) \/ Unlock(t) \/ Free(t)

Next == \E t \in Tasks : Step(t)

(***************************************************************************)
(* The round-robin scheduler gives every READY task the CPU again (Sync's  *)
(* WaiterWoken): each task that can take a step eventually does.           *)
(***************************************************************************)
Fairness == \A t \in Tasks : WF_vars(Step(t))

Spec == Init /\ [][Next]_vars /\ Fairness

-----------------------------------------------------------------------------
\* Two claims on one frame of pool p.
SharedFrame(p) ==
  \E c1, c2 \in claims : c1 # c2 /\ c1.pool = p /\ c2.pool = p /\ c1.frame = c2.frame

\* Every claim is on a frame that was free after boot and is now set.
ClaimsInBitmap(p) ==
  \A c \in claims : c.pool = p =>
    bm[p][c.frame] = 1 /\ (IF p = "K" THEN KInit ELSE UInit)[c.frame] = 0

(***************************************************************************)
(* The user pool hands out each frame once: every start_process takes its *)
(* stack frame under the user pool lock, across the preemptions between   *)
(* palloc's scan and its bitmap_set.                                       *)
(***************************************************************************)
UserFramesExclusive == ~SharedFrame("U") /\ ClaimsInBitmap("U")

(***************************************************************************)
(* The spec's frame-pool invariant: a frame bit is 1 iff one mapping or   *)
(* pending allocation owns the frame, so no two tasks get the same frame. *)
(* page_table_add takes a kernel frame under the user pool lock only.      *)
(***************************************************************************)
FramesExclusive == \A p \in Pools : ~SharedFrame(p) /\ ClaimsInBitmap(p)

(***************************************************************************)
(* Every kernel-pool allocation returns: each kernel thread gets past the *)
(* kernel pool lock and out of get_kernel_pages, sys_malloc and sys_free, *)
(* unless the kernel panics, even when malloc_page runs out of frames      *)
(* halfway and returns NULL.  Processes are left out: get_a_page returns   *)
(* NULL on an empty user pool still holding the user pool lock, so a      *)
(* later start_process would wait on it forever.                          *)
(***************************************************************************)
KernelAllocationsFinish ==
  <>(panicked \/ \A t \in KThreads \cup HeapUsers : pc[t] = "done")

\* The blocks on some free list, and the blocks the heap users hold.
OnFreeList == UNION {Range(freeList[c]) : c \in Classes}
HeldBlocks == {held[t] : t \in {u \in HeapUsers : held[u] # NoBlock}}

LiveArena(v) == arenas[v] # NoArena
ArenaPages(v) == v .. v + (IF arenas[v].large THEN arenas[v].cnt ELSE 1) - 1

(***************************************************************************)
(* The heap's bookkeeping across sys_malloc and sys_free of several tasks: *)
(* every block of a live small arena is on its class's free list or held *)
(* by one caller, never both and never twice; a held pointer is in a live *)
(* arena; a live arena's pages are mapped, reserved in kernel_vaddr, and  *)
(* their frames set in the kernel pool.                                    *)
(***************************************************************************)
HeapConsistent ==
  /\ \A c \in Classes : IsInjective(freeList[c])
  /\ \A c \in Classes : \A b \in Range(freeList[c]) : arenas[b.arena].desc = c
  /\ OnFreeList \cap HeldBlocks = {}
  /\ \A t, u \in HeapUsers : t # u /\ held[t] # NoBlock => held[t] # held[u]
  /\ \A t \in HeapUsers : held[t] # NoBlock => LiveArena(held[t].arena)
  /\ \A v \in VPages : LiveArena(v) /\ ~arenas[v].large =>
       \A i \in 1 .. BlocksPerArena : ArenaBlocks(v)[i] \in OnFreeList \cup HeldBlocks
  /\ \A v \in VPages : LiveArena(v) =>
       \A p \in ArenaPages(v) : kpte[p] # Absent /\ vbm[p] = 1 /\ bm["K"][kpte[p]] = 1
=============================================================================
