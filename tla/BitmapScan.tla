----------------------------- MODULE BitmapScan -----------------------------
(***************************************************************************)
(* bitmap_scan and bitmap_set of lib/kernel/bitmap.c, and the kernel      *)
(* virtual-address allocator of kernel/memory.c that uses them:           *)
(* vaddr_get reserves a run of pg_cnt pages and vaddr_remove gives it     *)
(* back.                                                                   *)
(*                                                                         *)
(* A bitmap is a function from bit indices to {0,1}.  Bit i lives in byte *)
(* i \div 8 at position i % 8, as in bitmap_scan_test.  The scan of the    *)
(* code reads one bit past the end of the bitmap (bit 8*BytesLen, in the first  *)
(* byte after it), so the model's bitmap has that bit too: it is whatever  *)
(* memory follows the bitmap, arbitrary at Init.                           *)
(***************************************************************************)
EXTENDS Integers, FiniteSets

CONSTANTS
  BytesLen,        \* btmp_bytes_len
  Sizes,      \* the pg_cnt values callers request
  Debug,      \* TRUE when ASSERT is compiled in (NDEBUG not defined)
  InitBits    \* the bitmaps the allocator may start from

ASSUME BytesLen \in Nat \ {0}
ASSUME Sizes \subseteq Nat \ {0}
ASSUME Debug \in BOOLEAN

Bits == 0 .. 8 * BytesLen - 1     \* the bits of the bitmap
Mem  == 0 .. 8 * BytesLen         \* ... and the bit the scan reads past its end

\* The result of a scan that stops the kernel in the ASSERT of line 46.
Panic == -2

ByteFull(bm, b) == \A k \in 0..7 : bm[8 * b + k] = 1

(***************************************************************************)
(* The loops of bitmap_scan (bitmap.c 36-90), one recursive operator each. *)
(* SkipFull: skip the bytes that are 0xff (lines 38-43).                   *)
(* FirstZero: the first 0 bit of a byte that is not full (lines 52-57).    *)
(* RunFrom: the search for cnt consecutive 0 bits that starts after the    *)
(* first free bit with count = 1 and bit_left = 8*BytesLen - start iterations,  *)
(* resetting count on a 1 bit (lines 66-89).                               *)
(***************************************************************************)
\* Mutant: bytes with any bit set are skipped, not only full ones.
RECURSIVE SkipUsed(_, _)
SkipUsed(bm, b) ==
  IF b < BytesLen /\ \E k \in 0..7 : bm[8 * b + k] = 1 THEN SkipUsed(bm, b + 1) ELSE b

RECURSIVE SkipFull(_, _)
SkipFull(bm, b) == IF b < BytesLen /\ ByteFull(bm, b) THEN SkipFull(bm, b + 1) ELSE b

RECURSIVE FirstZero(_, _, _)
FirstZero(bm, b, k) == IF bm[8 * b + k] = 1 THEN FirstZero(bm, b, k + 1) ELSE k

\* Mutant: a 1 bit does not reset the count of free bits.
RECURSIVE RunFromNoReset(_, _, _, _, _)
RunFromNoReset(bm, next, left, count, cnt) ==
  IF left = 0 THEN -1
  ELSE LET c == IF bm[next] = 0 THEN count + 1 ELSE count
       IN IF c = cnt THEN next - cnt + 1
          ELSE RunFromNoReset(bm, next + 1, left - 1, c, cnt)

RECURSIVE RunFrom(_, _, _, _, _)
RunFrom(bm, next, left, count, cnt) ==
  IF left = 0 THEN -1
  ELSE LET c == IF bm[next] = 0 THEN count + 1 ELSE 0
       IN IF c = cnt THEN next - cnt + 1
          ELSE RunFrom(bm, next + 1, left - 1, c, cnt)

(***************************************************************************)
(* bitmap_scan (bitmap.c 36-90).  When every byte is full, the ASSERT of   *)
(* line 46 panics if it is compiled in; otherwise line 49 returns -1.      *)
(***************************************************************************)
BitmapScan(bm, cnt) ==
  LET b == SkipFull(bm, 0)
  IN IF b = BytesLen THEN (IF Debug THEN Panic ELSE -1)
     ELSE LET start == 8 * b + FirstZero(bm, b, 0)
          IN IF cnt = 1 THEN start
             ELSE RunFrom(bm, start + 1, 8 * BytesLen - start, 1, cnt)

\* bitmap_set (bitmap.c 98-111) of the bits lo .. lo+n-1 to v, the loops of
\* vaddr_get (memory.c 162-165) and vaddr_remove (memory.c 606-610).
SetRun(bm, lo, n, v) == [i \in DOMAIN bm |-> IF i \in lo .. lo + n - 1 THEN v ELSE bm[i]]

(***************************************************************************)
(* What bitmap_scan should return: the least start of cnt free bits of the *)
(* bitmap, or -1 when there is none (the spec's bitmap property).          *)
(***************************************************************************)
FreeRunAt(bm, i, cnt) == i + cnt <= 8 * BytesLen /\ \A j \in i .. i + cnt - 1 : bm[j] = 0

RefScan(bm, cnt) ==
  IF \E i \in Bits : FreeRunAt(bm, i, cnt)
    THEN CHOOSE i \in Bits : FreeRunAt(bm, i, cnt) /\ \A j \in 0 .. i - 1 : ~FreeRunAt(bm, j, cnt)
    ELSE -1

-----------------------------------------------------------------------------
VARIABLES
  bits,       \* kernel_vaddr.vaddr_bitmap, and the bit after it
  runs,       \* the reservations callers hold: [start, n]
  boot,       \* the bits reserved before the callers run, never released
  panicked    \* the kernel stopped in panic_spin

vars == <<bits, runs, boot, panicked>>

TypeOK ==
  /\ bits \in [Mem -> {0, 1}]
  /\ runs \subseteq [start : Mem, n : Sizes]
  /\ boot \subseteq Bits
  /\ panicked \in BOOLEAN

\* bitmap_init (bitmap.c 12-15) clears the bitmap; the pages reserved
\* during boot are set after it; the byte after it is other memory.
Init ==
  /\ bits \in InitBits
  /\ boot = {i \in Bits : bits[i] = 1}
  /\ runs = {}
  /\ panicked = FALSE

\* Mutant: vaddr_get without the check for -1 (memory.c 155-159).
AllocNoFailCheck(n) ==
  /\ ~panicked
  /\ LET r == BitmapScan(bits, n) IN
       IF r = Panic THEN panicked' = TRUE /\ UNCHANGED <<bits, runs, boot>>
       ELSE /\ bits' = SetRun(bits, r, n, 1)
            /\ runs' = runs \cup {[start |-> r, n |-> n]}
            /\ UNCHANGED <<boot, panicked>>

(***************************************************************************)
(* vaddr_get(PF_KERNEL, n) (memory.c 145-166): scan, return NULL on -1,    *)
(* set the n bits from the start the scan returned.                        *)
(***************************************************************************)
Alloc(n) ==
  /\ ~panicked
  /\ LET r == BitmapScan(bits, n) IN
       CASE r = Panic -> panicked' = TRUE /\ UNCHANGED <<bits, runs, boot>>
         [] r = -1 -> UNCHANGED <<bits, runs, boot, panicked>>
         [] OTHER -> /\ bits' = SetRun(bits, r, n, 1)
                     /\ runs' = runs \cup {[start |-> r, n |-> n]}
                              /\ UNCHANGED <<boot, panicked>>

\* vaddr_remove(PF_KERNEL, vaddr, n) (memory.c 597-611) of a reservation.
Release(r) ==
  /\ ~panicked
  /\ bits' = SetRun(bits, r.start, r.n, 0)
  /\ runs' = runs \ {r}
  /\ UNCHANGED <<boot, panicked>>

Next ==
  \/ \E n \in Sizes : Alloc(n)
  \/ \E r \in runs : Release(r)

Spec == Init /\ [][Next]_vars

-----------------------------------------------------------------------------
(***************************************************************************)
(* Reservations are exclusive: every bit of the bitmap is set exactly when *)
(* boot or a reservation a caller holds has it, and no two reservations   *)
(* share a bit.  A wrong run from the scan loop of bitmap_scan hands out   *)
(* a page twice, which this catches only after the run is set and a later  *)
(* vaddr_remove clears a bit that another reservation still uses.          *)
(***************************************************************************)
Covers(r, i) == i \in r.start .. r.start + r.n - 1

ReservationsExclusive ==
  /\ \A i \in Bits : bits[i] = 1 <=> (i \in boot \/ \E r \in runs : Covers(r, i))
  /\ \A r \in runs, i \in boot : ~Covers(r, i)
  /\ \A r1, r2 \in runs : r1 # r2 => \A i \in Mem : ~(Covers(r1, i) /\ Covers(r2, i))

(***************************************************************************)
(* First fit: whenever the bitmap has a run of n free bits, vaddr_get      *)
(* returns the lowest one, whatever the bytes before it hold.              *)
(***************************************************************************)
FirstFit ==
  [][\A n \in Sizes : Alloc(n) /\ RefScan(bits, n) # -1 =>
        [start |-> RefScan(bits, n), n |-> n] \in runs']_vars
=============================================================================
