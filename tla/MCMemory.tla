------------------------------- MODULE MCMemory -------------------------------
(***************************************************************************)
(* One kernel thread in get_kernel_pages(1), two kernel threads in        *)
(* sys_malloc/sys_free, and two starting processes, over pools of eight   *)
(* frames and a kernel_vaddr of eight pages.  Boot has used four kernel   *)
(* frames, seven of the eight user frames and four kernel pages, so the  *)
(* second process finds the user pool empty; the bit after               *)
(* kernel_vaddr is set, so its scans stay inside it (BitmapScan checks   *)
(* the other case).  A heap user asks for 16 bytes (class 0) or 5000     *)
(* bytes (a large arena of two pages).  The kernel pool has four frames   *)
(* for up to seven requests, so some orders exhaust it; arenas hold two   *)
(* blocks, so two heap users share one.                                   *)
(***************************************************************************)
EXTENDS Memory

CONSTANTS k1, h1, h2, p1, p2, none

MCKThreads == {k1}
MCHeapUsers == {h1, h2}
MCProcs == {p1, p2}
MCPoolLen == 1
MCKInit == [f \in 0..7 |-> IF f < 4 THEN 1 ELSE 0]
MCUInit == [f \in 0..7 |-> IF f < 7 THEN 1 ELSE 0]
MCVInit == [i \in 0..8 |-> IF i < 4 \/ i = 8 THEN 1 ELSE 0]
MCRequests == {16, 5000}
MCBlocksPerArena == 2
=============================================================================
