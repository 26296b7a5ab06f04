------------------------------ MODULE Devices ------------------------------
(***************************************************************************)
(* The two interrupt-driven devices of the kernel, run by tasks on the     *)
(* scheduler of Thread:                                                    *)
(*                                                                         *)
(*  - one IDE channel (device/ide.c): ide_read and ide_write under the    *)
(*    channel lock, the cmd_out / disk_done / intr_hd_handler handshake,  *)
(*    and busy_wait with its mtime_sleep (device/timer.c);                *)
(*  - the keyboard ring (device/ioqueue.c): the keyboard interrupt         *)
(*    (device/keyboard.c) produces, sys_read(0, ..) (fs/fs.c) consumes    *)
(*    through ioqueue_get_char.                                            *)
(*                                                                         *)
(* Disk users and keyboard readers are tasks inside a system call, which  *)
(* enters through an interrupt gate: they run with interrupts off, so a   *)
(* task's step is atomic up to the point where it blocks or yields.  The  *)
(* Main task stands for the kernel main thread, which after boot loops    *)
(* with interrupts on and is always runnable; interrupts are delivered    *)
(* only while it, or a task back in user mode, is running.                *)
(*                                                                         *)
(* A disk command moves the device through its states: a read makes it    *)
(* BSY, then DRQ with an interrupt; a write makes it BSY, then DRQ without *)
(* one, and after the data is written BSY again, then idle with an        *)
(* interrupt.  A request of more than Chunk sectors is split as the code  *)
(* splits it at 256.  Keys are numbered in typing order.                   *)
(***************************************************************************)
EXTENDS Thread

CONSTANTS
  DiskUsers,    \* tasks that call ide_read / ide_write in a system call
  Readers,      \* tasks that call sys_read(0, buf, 1) in a loop
  Main,         \* the kernel main thread, runnable with interrupts on
  NoTask,       \* NULL
  Req,          \* Req[t]: [op |-> "read" or "write", secs |-> sec_cnt]
  Chunk,        \* the 256 sectors of one command, scaled
  SleepTicks,   \* the ticks ticks_to_sleep waits (mtime_sleep passes 10)
  BuffSize,     \* BUFF_SIZE of ioqueue.h, scaled
  MaxKeys       \* keys typed in a behaviour

ASSUME DiskUsers \cup Readers \cup {Main, Idle} = Tasks
ASSUME Req \in [DiskUsers -> [op : {"read", "write"}, secs : Nat \ {0}]]
ASSUME Chunk \in Nat \ {0} /\ SleepTicks \in Nat \ {0}
ASSUME BuffSize \in Nat \ {0, 1} /\ MaxKeys \in Nat

Users == DiskUsers \cup Readers
Locks == {"chan", "kbd"}
DevStates == {"idle", "rbusy", "rdrq", "wbusy", "wdrq", "wwrite"}
Slots == 0 .. BuffSize - 1
Keys == 1 .. MaxKeys
PCs == {"call", "lock", "cmd", "down", "bw", "sleep", "unlock", "user",
        "ruser", "get", "qlock", "qunlock"}

VARIABLES
  pc,         \* where each user task is in its system call
  lk,         \* lk[l]: the lock's holder and its semaphore (value, waiters)
  expecting,  \* channel->expecting_intr
  dval,       \* channel->disk_done.value
  dwait,      \* channel->disk_done.wait_threads
  dev,        \* the drive's state: BSY and DRQ of its status register
  irq,        \* IRQ14 raised by the drive and not yet delivered
  done,       \* done_sectors of each disk user's request
  slept,      \* ticks - start_tick of a task in ticks_to_sleep
  head, tail, \* keyboard_buff.head, .tail
  buf,        \* keyboard_buff.buff
  consumer,   \* keyboard_buff.consummer
  typed,      \* the keys typed so far
  accepted,   \* the keys the keyboard handler put in the ring, in order
  got,        \* the keys the readers took from the ring, in order
  panicked    \* the kernel stopped in PANIC

diskVars == <<expecting, dval, dwait, dev, irq, done, slept>>
kbdVars == <<head, tail, buf, consumer, typed, accepted, got>>
vars == <<schedVars, pc, lk, diskVars, kbdVars, panicked>>

TypeOK ==
  /\ SchedTypeOK
  /\ pc \in [Users -> PCs]
  /\ lk \in [Locks -> [holder : Users \cup {NoTask}, val : 0 .. 1, waiters : Seq(Users)]]
  /\ expecting \in BOOLEAN /\ dval \in 0 .. 1 /\ dwait \in Seq(DiskUsers)
  /\ dev \in DevStates /\ irq \in BOOLEAN
  /\ done \in [DiskUsers -> Nat] /\ slept \in [DiskUsers -> 0 .. SleepTicks]
  /\ head \in Slots /\ tail \in Slots /\ buf \in [Slots -> 0 .. MaxKeys]
  /\ consumer \in Readers \cup {NoTask}
  /\ typed \in 0 .. MaxKeys /\ accepted \in Seq(Keys) /\ got \in Seq(Keys)
  /\ panicked \in BOOLEAN

\* Main runs; every user task is READY in user mode, about to trap.
Init ==
  /\ status = [t \in Tasks |-> CASE t = Main -> "RUNNING"
                                 [] t = Idle -> "BLOCKED"
                                 [] OTHER -> "READY"]
  /\ readyQ \in {s \in [1 .. Cardinality(Users) -> Users] : ToSet(s) = Users}
  /\ running = Main
  /\ ticks = Prio
  /\ pc = [t \in Users |-> IF t \in DiskUsers THEN "call" ELSE "ruser"]
  /\ lk = [l \in Locks |-> [holder |-> NoTask, val |-> 1, waiters |-> <<>>]]
  /\ expecting = FALSE /\ dval = 0 /\ dwait = <<>> /\ dev = "idle" /\ irq = FALSE
  /\ done = [t \in DiskUsers |-> 0] /\ slept = [t \in DiskUsers |-> 0]
  /\ head = 0 /\ tail = 0 /\ buf = [i \in Slots |-> 0] /\ consumer = NoTask
  /\ typed = 0 /\ accepted = <<>> /\ got = <<>>
  /\ panicked = FALSE

\* Interrupts are on while Main, or a task in user mode, runs.
IntrOn == running = Main \/ (running \in Users /\ pc[running] \in {"call", "user", "ruser"})

\* A step of the running task t.
Running(t) == running = t /\ ~panicked

(***************************************************************************)
(* The lock of sync.c as a system call takes it: with interrupts off,      *)
(* get_lock's sema_down either takes the value 1 or appends the task to    *)
(* the wait list and blocks it (sync.c 33-55, 81-96); when the task runs   *)
(* again it tries anew.  abandon_lock clears the holder and sema_up makes  *)
(* the head waiter READY and sets the value to 1 (sync.c 61-75, 102-114).  *)
(* No caller here takes a lock it already holds, so holder_repeat_nr is   *)
(* always 1 and is not kept.                                               *)
(***************************************************************************)
Acquire(l, t) == lk' = [lk EXCEPT ![l] = [holder |-> t, val |-> 0, waiters |-> @.waiters]]

LockWait(l, t) ==
  /\ lk' = [lk EXCEPT ![l].waiters = ListAppend(@, t)]
  /\ SetSched(Block(status, readyQ, ticks, t))

ReleaseLock(l) ==
  LET w == lk[l].waiters
      u == IF w = <<>> THEN [st |-> status, rq |-> readyQ] ELSE Unblock(status, readyQ, Head(w))
  IN  /\ lk' = [lk EXCEPT ![l] = [holder |-> NoTask, val |-> 1,
                                  waiters |-> IF w = <<>> THEN w ELSE ListPop(w)]]
      /\ status' = u.st /\ readyQ' = u.rq
      /\ UNCHANGED <<running, ticks>>

-----------------------------------------------------------------------------
(* The IDE channel. *)

IsRead(t) == Req[t].op = "read"

\* per_op_sectors of the loops of ide_read / ide_write.
Per(t) == IF done[t] + Chunk <= Req[t].secs THEN Chunk ELSE Req[t].secs - done[t]

\* The test of the while loop after done_sectors grew to d.
AfterChunk(t, d) == IF d < Req[t].secs THEN "cmd" ELSE "unlock"

Busy == dev \in {"rbusy", "wbusy", "wwrite"}
Drq == dev \in {"rdrq", "wdrq"}

\* The system call traps into the kernel (sys_read / sys_write -> file_read
\* / file_write -> ide_read / ide_write).
DiskCall(t) ==
  /\ pc[t] = "call"
  /\ pc' = [pc EXCEPT ![t] = "lock"]
  /\ UNCHANGED <<schedVars, lk, diskVars, kbdVars, panicked>>

\* get_lock(&channel->lock) and select_disk (ide.c 338-341, 392-395).
ChanLock(t) ==
  /\ pc[t] = "lock"
  /\ IF lk["chan"].val = 1
       THEN /\ Acquire("chan", t)
            /\ pc' = [pc EXCEPT ![t] = "cmd"]
            /\ done' = [done EXCEPT ![t] = 0]
            /\ UNCHANGED schedVars
       ELSE LockWait("chan", t) /\ UNCHANGED <<pc, done>>
  /\ UNCHANGED <<expecting, dval, dwait, dev, irq, slept, kbdVars, panicked>>

\* Mutant: cmd_out writes the command without setting expecting_intr.
CmdOutNoExpect(t) ==
  /\ pc[t] = "cmd"
  /\ dev' = IF IsRead(t) THEN "rbusy" ELSE "wbusy"
  /\ pc' = [pc EXCEPT ![t] = IF IsRead(t) THEN "down" ELSE "bw"]
  /\ UNCHANGED <<schedVars, lk, expecting, dval, dwait, irq, done, slept, kbdVars, panicked>>

(***************************************************************************)
(* select_sector and cmd_out (ide.c 98-124) in the loop of ide_read (346-  *)
(* 363) and ide_write (398-414): expecting_intr is set, then the command   *)
(* makes the drive busy.  A read next waits on disk_done, a write polls   *)
(* with busy_wait.                                                         *)
(***************************************************************************)
CmdOut(t) ==
  /\ pc[t] = "cmd"
  /\ expecting' = TRUE
  /\ dev' = IF IsRead(t) THEN "rbusy" ELSE "wbusy"
  /\ pc' = [pc EXCEPT ![t] = IF IsRead(t) THEN "down" ELSE "bw"]
  /\ UNCHANGED <<schedVars, lk, dval, dwait, irq, done, slept, kbdVars, panicked>>

(***************************************************************************)
(* sema_down(&channel->disk_done) (sync.c 33-55): value 1 is taken, else  *)
(* the task blocks on the wait list.  After it a read polls (ide.c 366); a *)
(* write has finished its chunk (ide.c 426-427).                          *)
(***************************************************************************)
DiskDown(t) ==
  /\ pc[t] = "down"
  /\ IF dval > 0
       THEN /\ dval' = dval - 1
            /\ IF IsRead(t)
                 THEN pc' = [pc EXCEPT ![t] = "bw"] /\ UNCHANGED done
                 ELSE /\ done' = [done EXCEPT ![t] = @ + Per(t)]
                      /\ pc' = [pc EXCEPT ![t] = AfterChunk(t, done'[t])]
            /\ UNCHANGED <<schedVars, dwait>>
       ELSE /\ dwait' = ListAppend(dwait, t)
            /\ SetSched(Block(status, readyQ, ticks, t))
            /\ UNCHANGED <<dval, pc, done>>
  /\ UNCHANGED <<lk, expecting, dev, irq, slept, kbdVars, panicked>>

\* read_from_sector (ide.c 132-145): insw of the sectors empties the
\* drive's buffer and ends the read.
ReadFromSector == dev' = "idle"

\* write2sector (ide.c 153-166): outsw of the sectors; the drive writes.
Write2Sector == dev' = "wwrite"

(***************************************************************************)
(* busy_wait (ide.c 173-191) and what its caller does with the answer.    *)
(* While the drive is BSY the task calls mtime_sleep, whose ticks_to_sleep *)
(* (timer.c 28-47) remembers the global ticks and yields.  When BSY is    *)
(* clear, DRQ decides: a read takes the data (read_from_sector, ide.c     *)
(* 374-375), a write gives it (write2sector, 421) and then waits on        *)
(* disk_done; without DRQ ide_read / ide_write PANIC (367-372, 415-420).  *)
(* The 30000 polls of busy_wait are not counted: the model does not bound *)
(* how long the drive stays busy.                                          *)
(***************************************************************************)
BusyWait(t) ==
  /\ pc[t] = "bw"
  /\ CASE Busy ->
            /\ pc' = [pc EXCEPT ![t] = "sleep"]
            /\ slept' = [slept EXCEPT ![t] = 0]
            /\ SetSched(YieldSched)
            /\ UNCHANGED <<dev, done, panicked>>
       [] Drq /\ IsRead(t) ->
            /\ ReadFromSector
            /\ done' = [done EXCEPT ![t] = @ + Per(t)]
            /\ pc' = [pc EXCEPT ![t] = AfterChunk(t, done'[t])]
            /\ UNCHANGED <<schedVars, slept, panicked>>
       [] Drq ->
            /\ Write2Sector
            /\ pc' = [pc EXCEPT ![t] = "down"]
            /\ UNCHANGED <<schedVars, done, slept, panicked>>
       [] OTHER ->
            /\ panicked' = TRUE
            /\ UNCHANGED <<schedVars, pc, dev, done, slept>>
  /\ UNCHANGED <<lk, expecting, dval, dwait, irq, kbdVars>>

\* The loop of ticks_to_sleep (timer.c 31-34): yield until the global
\* ticks moved SleepTicks past the start, then poll again.
Sleep(t) ==
  /\ pc[t] = "sleep"
  /\ IF slept[t] >= SleepTicks
       THEN pc' = [pc EXCEPT ![t] = "bw"] /\ UNCHANGED schedVars
       ELSE SetSched(YieldSched) /\ UNCHANGED pc
  /\ UNCHANGED <<lk, diskVars, kbdVars, panicked>>

\* Mutant: ide_read / ide_write return without abandon_lock.
ChanUnlockForgotten(t) ==
  /\ pc[t] = "unlock"
  /\ pc' = [pc EXCEPT ![t] = "user"]
  /\ UNCHANGED <<schedVars, lk, diskVars, kbdVars, panicked>>

\* abandon_lock(&channel->lock) at the end of ide_read / ide_write
\* (ide.c 378, 429) and the return to user mode.
ChanUnlock(t) ==
  /\ pc[t] = "unlock"
  /\ ReleaseLock("chan")
  /\ pc' = [pc EXCEPT ![t] = "user"]
  /\ UNCHANGED <<diskVars, kbdVars, panicked>>

\* The drive finishes what the last command asked; a read's data and the
\* end of a write raise IRQ14, the request for a write's data does not.
DiskDevice ==
  /\ dev \in {"rbusy", "wbusy", "wwrite"}
  /\ dev' = CASE dev = "rbusy" -> "rdrq" [] dev = "wbusy" -> "wdrq" [] OTHER -> "idle"
  /\ irq' = (dev # "wbusy")
  /\ UNCHANGED <<schedVars, pc, lk, expecting, dval, dwait, done, slept, kbdVars, panicked>>

(***************************************************************************)
(* intr_hd_handler (ide.c 436-451), run when IRQ14 is delivered: if the    *)
(* channel expects it, clear expecting_intr, sema_up(&disk_done) (sync.c   *)
(* 61-75: wake the head waiter, value + 1) and read the status, which     *)
(* acknowledges the drive.  An unexpected interrupt is dropped.           *)
(***************************************************************************)
\* Mutant: intr_hd_handler without its test of expecting_intr.
IntrHdHandlerNoGuard ==
  LET u == IF dwait = <<>> THEN [st |-> status, rq |-> readyQ]
           ELSE Unblock(status, readyQ, Head(dwait))
  IN /\ expecting' = FALSE
     /\ dval' = dval + 1
     /\ dwait' = IF dwait = <<>> THEN dwait ELSE ListPop(dwait)
     /\ status' = u.st /\ readyQ' = u.rq

\* The handler's body: only an interrupt the channel expects ups disk_done.
IntrHdHandler ==
  IF expecting
    THEN LET u == IF dwait = <<>> THEN [st |-> status, rq |-> readyQ]
                  ELSE Unblock(status, readyQ, Head(dwait))
         IN /\ expecting' = FALSE
            /\ dval' = dval + 1
            /\ dwait' = IF dwait = <<>> THEN dwait ELSE ListPop(dwait)
            /\ status' = u.st /\ readyQ' = u.rq
    ELSE UNCHANGED <<expecting, dval, dwait, status, readyQ>>

DiskIntr ==
  /\ IntrOn /\ irq /\ ~panicked
  /\ irq' = FALSE
  /\ IntrHdHandler
  /\ UNCHANGED <<running, ticks, pc, lk, dev, done, slept, kbdVars, panicked>>

\* An IRQ14 the channel does not expect (a status change of the idle
\* drive, or of the other drive on the channel), taken at once because
\* interrupts are on: the handler's test of expecting_intr is there for it.
UnexpectedIrq ==
  /\ IntrOn /\ ~irq /\ ~panicked
  /\ ~expecting /\ dev = "idle"
  /\ IntrHdHandler
  /\ UNCHANGED <<running, ticks, pc, lk, dev, irq, done, slept, kbdVars, panicked>>

\* intr_timer_handler (timer.c 68-86): the global ticks advance, which is
\* what a task in ticks_to_sleep waits for, and the quantum runs down.
Tick ==
  /\ IntrOn /\ ~panicked
  /\ TimerTick
  /\ slept' = [t \in DiskUsers |-> IF pc[t] = "sleep" /\ slept[t] < SleepTicks
                                     THEN slept[t] + 1 ELSE slept[t]]
  /\ UNCHANGED <<pc, lk, expecting, dval, dwait, dev, irq, done, kbdVars, panicked>>

-----------------------------------------------------------------------------
(* The keyboard ring. *)

\* Mutant: next_pos without the modulo.
NextPosNoWrap(pos) == pos + 1

\* next_pos (ioqueue.c 23-26).
NextPos(pos) == (pos + 1) % BuffSize

\* ioqueue_is_full and ioqueue_is_empty (ioqueue.c 33-48).
IsFull == NextPos(head) = tail
IsEmpty == head = tail

\* Mutant: ioqueue_putchar does not wake the waiting consumer.
PutcharNoWakeup(k) ==
  /\ buf' = [buf EXCEPT ![head] = k]
  /\ head' = NextPos(head)
  /\ accepted' = Append(accepted, k)
  /\ UNCHANGED <<status, readyQ, consumer>>

(***************************************************************************)
(* ioqueue_putchar (ioqueue.c 105-125) on a ring that is not full: store  *)
(* at head, advance head, and wake the consumer if one waits (wakeup,     *)
(* ioqueue.c 65-70: thread_unblock, then clear the slot).  Its loop that   *)
(* blocks the producer on a full ring is never entered: the keyboard      *)
(* handler calls it only when the ring is not full.                       *)
(***************************************************************************)
Putchar(k) ==
  /\ buf' = [buf EXCEPT ![head] = k]
  /\ head' = NextPos(head)
  /\ accepted' = Append(accepted, k)
  /\ IF consumer # NoTask
       THEN LET u == Unblock(status, readyQ, consumer)
            IN status' = u.st /\ readyQ' = u.rq /\ consumer' = NoTask
       ELSE UNCHANGED <<status, readyQ, consumer>>

\* Mutant: the keyboard handler puts the character without the full test.
KeyPressNoFullCheck ==
  /\ IntrOn /\ ~panicked /\ typed < MaxKeys
  /\ typed' = typed + 1
  /\ Putchar(typed + 1)
  /\ UNCHANGED <<running, ticks, pc, lk, diskVars, tail, got, panicked>>

(***************************************************************************)
(* intr_keyboard_handler (keyboard.c 117-246) for a key with a character:  *)
(* put it if the ring is not full, else drop it (keyboard.c 210-217).      *)
(* The scancode decoding and the shift, ctrl and caps state only choose   *)
(* which character it is.                                                 *)
(***************************************************************************)
KeyPress ==
  /\ IntrOn /\ ~panicked /\ typed < MaxKeys
  /\ typed' = typed + 1
  /\ IF IsFull
       THEN UNCHANGED <<status, readyQ, buf, head, accepted, consumer>>
       ELSE Putchar(typed + 1)
  /\ UNCHANGED <<running, ticks, pc, lk, diskVars, tail, got, panicked>>

\* The reader's user program traps into sys_read(0, buf, 1) (fs.c 1191-1218).
ReadCall(r) ==
  /\ pc[r] = "ruser"
  /\ pc' = [pc EXCEPT ![r] = "get"]
  /\ UNCHANGED <<schedVars, lk, diskVars, kbdVars, panicked>>

\* Mutant: ioqueue_get_char sleeps without testing the ring first.
GetCharNoEmptyTest(r) ==
  /\ pc[r] = "get"
  /\ pc' = [pc EXCEPT ![r] = "qlock"]
  /\ UNCHANGED <<schedVars, lk, diskVars, kbdVars, panicked>>

(***************************************************************************)
(* ioqueue_get_char (ioqueue.c 77-98): while the ring is empty, sleep      *)
(* (QLock, QUnlock); then take buff[tail], advance tail, and return to     *)
(* user mode.  The producer slot is never set, since the producer never   *)
(* waits, so the wakeup of lines 92-96 never happens.                     *)
(***************************************************************************)
GetChar(r) ==
  /\ pc[r] = "get"
  /\ IF IsEmpty
       THEN pc' = [pc EXCEPT ![r] = "qlock"] /\ UNCHANGED <<tail, got>>
       ELSE /\ got' = Append(got, buf[tail])
            /\ tail' = NextPos(tail)
            /\ pc' = [pc EXCEPT ![r] = "ruser"]
  /\ UNCHANGED <<schedVars, lk, diskVars, head, buf, consumer, typed, accepted, panicked>>

(***************************************************************************)
(* get_lock(&ioqueue->lock) and ioqueue_wait(&ioqueue->consummer)          *)
(* (ioqueue.c 84-85, 54-59): once the lock is taken the task sets the      *)
(* consumer slot to itself and blocks, without testing the ring again.    *)
(* The ASSERT that the slot is empty is compiled in.                       *)
(***************************************************************************)
QLock(r) ==
  /\ pc[r] = "qlock"
  /\ IF lk["kbd"].val = 1
       THEN /\ Acquire("kbd", r)
            /\ IF consumer # NoTask
                 THEN panicked' = TRUE /\ UNCHANGED <<schedVars, pc, consumer>>
                 ELSE /\ consumer' = r
                      /\ SetSched(Block(status, readyQ, ticks, r))
                      /\ pc' = [pc EXCEPT ![r] = "qunlock"]
                      /\ UNCHANGED panicked
       ELSE LockWait("kbd", r) /\ UNCHANGED <<pc, consumer, panicked>>
  /\ UNCHANGED <<diskVars, head, tail, buf, typed, accepted, got>>

\* abandon_lock(&ioqueue->lock) after the wakeup (ioqueue.c 86), and the
\* loop tests the ring again.
QUnlock(r) ==
  /\ pc[r] = "qunlock"
  /\ ReleaseLock("kbd")
  /\ pc' = [pc EXCEPT ![r] = "get"]
  /\ UNCHANGED <<diskVars, kbdVars, panicked>>

-----------------------------------------------------------------------------
Step(t) ==
  /\ Running(t)
  /\ \/ DiskCall(t) \/ ChanLock(t) \/ CmdOut(t) \/ DiskDown(t)
     \/ BusyWait(t) \/ Sleep(t) \/ ChanUnlock(t)
     \/ ReadCall(t) \/ GetChar(t) \/ QLock(t) \/ QUnlock(t)

Next ==
  \/ \E t \in Users : Step(t)
  \/ DiskDevice \/ DiskIntr \/ UnexpectedIrq \/ Tick \/ KeyPress

(***************************************************************************)
(* A task that is given the CPU again and again gets to its next step     *)
(* (SF of each task's step: every time it is scheduled it runs for a whole *)
(* timer period, in which user code reaches its next system call and      *)
(* kernel code its next statement), the drive                             *)
(* finishes a command (WF), the timer fires while interrupts are on (WF:   *)
(* Main, which has no steps of its own, keeps them on until it fires), and *)
(* a pending IRQ14 is delivered once interrupts are on often enough (SF:  *)
(* the timer, of higher priority at the PIC, may preempt each window).     *)
(* Nobody has to press a key.                                              *)
(***************************************************************************)
Fairness ==
  /\ \A t \in Users : SF_vars(Step(t))
  /\ WF_vars(DiskDevice) /\ SF_vars(DiskIntr) /\ WF_vars(Tick)

Spec == Init /\ [][Next]_vars /\ Fairness

-----------------------------------------------------------------------------
(***************************************************************************)
(* The disk_done handshake: disk_done and expecting_intr together hold     *)
(* exactly one token while the lock holder's command is outstanding (from *)
(* cmd_out until its sema_down takes it) and none otherwise, so a sema_down *)
(* never returns for an earlier command's interrupt or for an IRQ14 the  *)
(* channel did not expect, and no interrupt of the current command is     *)
(* lost; only the lock holder waits on disk_done, and the drive works     *)
(* only for the lock holder.                                               *)
(***************************************************************************)
Holder == lk["chan"].holder

Outstanding ==
  /\ Holder # NoTask
  /\ pc[Holder] \in IF IsRead(Holder) THEN {"down"} ELSE {"bw", "sleep", "down"}

DiskDoneTracksCommand ==
  /\ (IF expecting THEN 1 ELSE 0) + dval = (IF Outstanding THEN 1 ELSE 0)
  /\ ToSet(dwait) \subseteq {Holder}
  /\ dev # "idle" => Holder # NoTask

(***************************************************************************)
(* The ring holds the keys the keyboard handler accepted and no reader     *)
(* took yet, from tail to head in the order they were typed: no key is     *)
(* overwritten, lost or read twice by the head/tail arithmetic.            *)
(***************************************************************************)
RingContents == [i \in 1 .. (head - tail) % BuffSize |-> buf[(tail + i - 1) % BuffSize]]

RingHoldsPending == accepted = got \o RingContents

(***************************************************************************)
(* A reader sleeps in the consumer slot only while the ring is empty: a   *)
(* key that arrives while it sleeps wakes it.                              *)
(***************************************************************************)
ReaderSleepsOnlyWhenEmpty == consumer # NoTask => IsEmpty

(***************************************************************************)
(* Every ide_read and ide_write returns: the interrupt wakes the waiting  *)
(* driver, busy_wait's sleeps end, and the channel lock is handed on.      *)
(***************************************************************************)
RequestsComplete == <>(\A t \in DiskUsers : pc[t] = "user")

(***************************************************************************)
(* Every key put in the ring is eventually returned by sys_read(0, ..).    *)
(***************************************************************************)
KeysDelivered == \A k \in Keys : k \in ToSet(accepted) ~> k \in ToSet(got)

=============================================================================
