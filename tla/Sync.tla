-------------------------------- MODULE Sync --------------------------------
(***************************************************************************)
(* Binary semaphores and recursive locks of thread/sync.c, run by kernel   *)
(* threads under the preemptive scheduler of Thread.  Each worker runs the *)
(* loop of spec scenario S7: take the lock (possibly re-entering it up to  *)
(* MaxDepth times), leave it, and optionally thread_yield.                 *)
(*                                                                         *)
(* sema_down and sema_up run with interrupts disabled and are single       *)
(* steps.  get_lock and abandon_lock run with interrupts enabled, so the   *)
(* timer may preempt the worker between their statements: each statement  *)
(* group between two such points is its own step, tracked by pc.          *)
(***************************************************************************)
EXTENDS Thread

CONSTANTS
  Workers,    \* kernel threads started by thread_start
  MaxDepth,   \* how often a worker re-enters the lock it holds
  NoTask      \* NULL as a lock holder

ASSUME Workers \subseteq Tasks /\ Idle \notin Workers
ASSUME Tasks = Workers \cup {Idle}
ASSUME MaxDepth \in Nat \ {0}
ASSUME NoTask \notin Tasks

VARIABLES
  pc,         \* where each worker is in its loop
  depth,      \* how many get_lock calls the worker has not yet undone
  holder,     \* lock.holder
  repeat,     \* lock.holder_repeat_nr
  semval,     \* lock.sema.value
  waiters     \* lock.sema.wait_threads, head first

syncVars == <<pc, depth, holder, repeat, semval, waiters>>
vars == <<schedVars, syncVars>>

PCs == {"lock", "down", "own", "cs", "unlock", "up", "ncs"}

TypeOK ==
  /\ SchedTypeOK
  /\ pc \in [Workers -> PCs]
  /\ depth \in [Workers -> 0..MaxDepth]
  /\ holder \in Workers \cup {NoTask}
  /\ repeat \in 0..MaxDepth
  /\ semval \in 0..255
  /\ waiters \in Seq(Workers)

(***************************************************************************)
(* thread_init / thread_start: one worker is the running main thread, the  *)
(* others and the idle task wait on the ready list in creation order; the  *)
(* lock is free (lock_init, sema_init(&sema, 1)).                          *)
(***************************************************************************)
Init ==
  /\ \E m \in Workers : \E q \in SetToSeqs(Workers \ {m}) :
        /\ running = m
        /\ readyQ = Append(q, Idle)
        /\ status = [t \in Tasks |-> IF t = m THEN "RUNNING" ELSE "READY"]
  /\ ticks = Prio
  /\ pc = [w \in Workers |-> "lock"]
  /\ depth = [w \in Workers |-> 0]
  /\ holder = NoTask
  /\ repeat = 0
  /\ semval = 1
  /\ waiters = <<>>

-----------------------------------------------------------------------------
(***************************************************************************)
(* get_lock (sync.c 81-96).  The holder test, the sema_down and the        *)
(* assignment of the holder are three steps: interrupts are on between    *)
(* them.                                                                   *)
(***************************************************************************)
\* Mutant: a re-entry that does not count itself in holder_repeat_nr.
GetLockNoCount(t) ==
  /\ pc[t] = "lock"
  /\ \/ /\ holder = t
        /\ depth' = [depth EXCEPT ![t] = @ + 1]
        /\ pc' = [pc EXCEPT ![t] = "cs"]
        /\ UNCHANGED repeat
     \/ /\ holder # t
        /\ pc' = [pc EXCEPT ![t] = "down"]
        /\ UNCHANGED <<depth, repeat>>
  /\ UNCHANGED <<holder, semval, waiters, schedVars>>

\* Mutant: the re-entry test compares the holder with NULL, not with the caller.
GetLockAnyHolder(t) ==
  /\ pc[t] = "lock"
  /\ \/ /\ holder # NoTask
        /\ repeat' = repeat + 1
        /\ depth' = [depth EXCEPT ![t] = @ + 1]
        /\ pc' = [pc EXCEPT ![t] = "cs"]
     \/ /\ holder = NoTask
        /\ pc' = [pc EXCEPT ![t] = "down"]
        /\ UNCHANGED <<depth, repeat>>
  /\ UNCHANGED <<holder, semval, waiters, schedVars>>

GetLock(t) ==
  /\ pc[t] = "lock"
  /\ \/ /\ holder = t
        /\ repeat' = repeat + 1
        /\ depth' = [depth EXCEPT ![t] = @ + 1]
        /\ pc' = [pc EXCEPT ![t] = "cs"]
     \/ /\ holder # t
        /\ pc' = [pc EXCEPT ![t] = "down"]
        /\ UNCHANGED <<depth, repeat>>
  /\ UNCHANGED <<holder, semval, waiters, schedVars>>

GetLockOwn(t) ==
  /\ pc[t] = "own"
  /\ holder' = t
  /\ repeat' = 1
  /\ depth' = [depth EXCEPT ![t] = @ + 1]
  /\ pc' = [pc EXCEPT ![t] = "cs"]
  /\ UNCHANGED <<semval, waiters, schedVars>>

\* Mutant: sema_down that forgets to decrement the value.
SemaDownNoDecrement(t) ==
  /\ pc[t] = "down"
  /\ \/ /\ semval > 0
        /\ pc' = [pc EXCEPT ![t] = "own"]
        /\ UNCHANGED <<semval, waiters, schedVars>>
     \/ /\ semval = 0
        /\ waiters' = ListAppend(waiters, t)
        /\ SetSched(Block(status, readyQ, ticks, t))
        /\ UNCHANGED <<pc, semval>>
  /\ UNCHANGED <<depth, holder, repeat>>

(***************************************************************************)
(* sema_down (sync.c 33-55): while the value is 0 the task appends itself  *)
(* to the wait list and blocks; when it runs again it tests the value      *)
(* anew.  A positive value is decremented.                                 *)
(***************************************************************************)
SemaDown(t) ==
  /\ pc[t] = "down"
  /\ \/ /\ semval > 0
        /\ semval' = semval - 1
        /\ pc' = [pc EXCEPT ![t] = "own"]
        /\ UNCHANGED <<waiters, schedVars>>
     \/ /\ semval = 0
        /\ waiters' = ListAppend(waiters, t)
        /\ SetSched(Block(status, readyQ, ticks, t))
        /\ UNCHANGED <<pc, semval>>
  /\ UNCHANGED <<depth, holder, repeat>>

\* The critical section: re-enter the lock, or start undoing the get_locks.
CriticalSection(t) ==
  /\ pc[t] = "cs"
  /\ \/ depth[t] < MaxDepth /\ pc' = [pc EXCEPT ![t] = "lock"]
     \/ pc' = [pc EXCEPT ![t] = "unlock"]
  /\ UNCHANGED <<depth, holder, repeat, semval, waiters, schedVars>>

\* Mutant: the last abandon_lock returns without calling sema_up.
AbandonLockNoUp(t) ==
  /\ pc[t] = "unlock"
  /\ \/ /\ repeat > 1
        /\ repeat' = repeat - 1
        /\ depth' = [depth EXCEPT ![t] = @ - 1]
        /\ UNCHANGED <<pc, holder>>
     \/ /\ repeat <= 1
        /\ holder' = NoTask
        /\ repeat' = 0
        /\ depth' = [depth EXCEPT ![t] = 0]
        /\ pc' = [pc EXCEPT ![t] = "ncs"]
  /\ UNCHANGED <<semval, waiters, schedVars>>

(***************************************************************************)
(* abandon_lock (sync.c 102-114): a nested hold only counts down; the last *)
(* release clears holder and count and then calls sema_up (next step).     *)
(* A worker undoes all its get_lock calls before it takes the lock again.  *)
(***************************************************************************)
AbandonLock(t) ==
  /\ pc[t] = "unlock"
  /\ \/ /\ repeat > 1
        /\ repeat' = repeat - 1
        /\ depth' = [depth EXCEPT ![t] = @ - 1]
        /\ UNCHANGED <<pc, holder>>
     \/ /\ repeat <= 1
        /\ holder' = NoTask
        /\ repeat' = 0
        /\ depth' = [depth EXCEPT ![t] = 0]
        /\ pc' = [pc EXCEPT ![t] = "up"]
  /\ UNCHANGED <<semval, waiters, schedVars>>

\* Mutant: sema_up pops the waiter but never calls thread_unblock.
SemaUpNoUnblock(t) ==
  /\ pc[t] = "up"
  /\ waiters' = IF waiters # <<>> THEN ListPop(waiters) ELSE waiters
  /\ semval' = semval + 1
  /\ pc' = [pc EXCEPT ![t] = "ncs"]
  /\ UNCHANGED <<depth, holder, repeat, schedVars>>

\* Mutant: sema_up wakes a waiter only when two or more are waiting.
SemaUpOffByOne(t) ==
  /\ pc[t] = "up"
  /\ IF Len(waiters) > 1
       THEN LET u == Unblock(status, readyQ, Head(waiters))
            IN  /\ status' = u.st
                /\ readyQ' = u.rq
                /\ waiters' = ListPop(waiters)
       ELSE UNCHANGED <<status, readyQ, waiters>>
  /\ semval' = semval + 1
  /\ pc' = [pc EXCEPT ![t] = "ncs"]
  /\ UNCHANGED <<depth, holder, repeat, running, ticks>>

(***************************************************************************)
(* sema_up (sync.c 61-75): wake the head of the wait list (thread_unblock  *)
(* puts it at the head of the ready list) and increment the value.         *)
(***************************************************************************)
SemaUp(t) ==
  /\ pc[t] = "up"
  /\ IF waiters # <<>>
       THEN LET u == Unblock(status, readyQ, Head(waiters))
            IN  /\ status' = u.st
                /\ readyQ' = u.rq
                /\ waiters' = ListPop(waiters)
       ELSE UNCHANGED <<status, readyQ, waiters>>
  /\ semval' = semval + 1
  /\ pc' = [pc EXCEPT ![t] = "ncs"]
  /\ UNCHANGED <<depth, holder, repeat, running, ticks>>

\* Outside the lock: go round again, or first give up the CPU (thread_yield).
NonCritical(t) ==
  /\ pc[t] = "ncs"
  /\ pc' = [pc EXCEPT ![t] = "lock"]
  /\ \/ UNCHANGED schedVars
     \/ SetSched(YieldSched)
  /\ UNCHANGED <<depth, holder, repeat, semval, waiters>>

(***************************************************************************)
(* idle (thread.c 222-231): block, then sti; hlt until the next interrupt. *)
(* The halt only waits for an interrupt, which Tick supplies.              *)
(***************************************************************************)
IdleBlock ==
  /\ running = Idle
  /\ SetSched(Block(status, readyQ, ticks, Idle))
  /\ UNCHANGED syncVars

Tick ==
  /\ TimerTick
  /\ UNCHANGED syncVars

WorkerStep(t) ==
  \/ GetLock(t) \/ SemaDown(t) \/ GetLockOwn(t) \/ CriticalSection(t)
  \/ AbandonLock(t) \/ SemaUp(t) \/ NonCritical(t)

\* The CPU executes the running task.
Run ==
  \/ \E t \in Workers : running = t /\ WorkerStep(t)
  \/ IdleBlock

Next == Run \/ Tick

(***************************************************************************)
(* The timer fires whenever interrupts are on (always, for kernel threads  *)
(* outside the atomic steps) and the CPU keeps executing the running task. *)
(***************************************************************************)
Fairness == WF_vars(Run) /\ WF_vars(Tick)

Spec == Init /\ [][Next]_vars /\ Fairness

-----------------------------------------------------------------------------
\* The worker has the lock's semaphore: from its sema_down to its sema_up.
HasSema(t) ==
  \/ pc[t] \in {"own", "cs", "unlock", "up"}
  \/ pc[t] = "lock" /\ depth[t] > 0

(***************************************************************************)
(* Mutual exclusion (spec 5): at most one worker is between the sema_down *)
(* of its first get_lock and the sema_up of its last abandon_lock, and     *)
(* the semaphore's value counts exactly the free lock, so sema_down and    *)
(* sema_up never see a value that breaks their binary-semaphore ASSERTs.   *)
(***************************************************************************)
SemaphoreConserved ==
  semval + Cardinality({t \in Workers : HasSema(t)}) = 1

(***************************************************************************)
(* The recursive lock's bookkeeping matches the calls made: while a worker *)
(* is inside the lock, holder names it and holder_repeat_nr equals the     *)
(* number of get_lock calls abandon_lock has not yet undone, so its last  *)
(* abandon_lock, and only that one, releases the semaphore.               *)
(***************************************************************************)
LockAccounting ==
  \A t \in Workers :
    (pc[t] \in {"cs", "unlock"} \/ (pc[t] = "lock" /\ depth[t] > 0))
      => holder = t /\ repeat = depth[t]

(***************************************************************************)
(* No task is lost (sema_down / sema_up with thread_block, thread_unblock, *)
(* schedule): every BLOCKED worker is on the semaphore's wait list, once, *)
(* waiting in sema_down; every task on the wait list is BLOCKED; and the   *)
(* ready list holds exactly the READY tasks.                               *)
(***************************************************************************)
NoLostTask ==
  /\ RunQueueConsistent
  /\ Len(waiters) = Cardinality(ToSet(waiters))
  /\ \A t \in Workers :
       status[t] = "BLOCKED" <=> t \in ToSet(waiters)
  /\ \A t \in ToSet(waiters) : pc[t] = "down"

(***************************************************************************)
(* Progress of the lock: whenever a worker waits in sema_down some worker  *)
(* later enters the critical section; the holder is never blocked, so the *)
(* timer hands it the CPU and it releases the lock.                        *)
(***************************************************************************)
LockProgress ==
  \A t \in Workers : pc[t] = "down" ~> \E u \in Workers : pc[u] = "cs"

(***************************************************************************)
(* A worker blocked in sema_down is eventually woken by a sema_up.         *)
(***************************************************************************)
WaiterWoken ==
  \A t \in Workers : status[t] = "BLOCKED" ~> status[t] # "BLOCKED"

(***************************************************************************)
(* Spec 5 says the mutex inherits the semaphore's FIFO fairness: a worker  *)
(* that calls get_lock eventually holds the lock.  sema_up only makes the  *)
(* head waiter READY; the releasing worker may run its next get_lock and   *)
(* sema_down first, and the woken worker then finds the value 0 and goes  *)
(* back to the tail of the wait list.                                      *)
(***************************************************************************)
LockStarvationFree ==
  \A t \in Workers : pc[t] = "down" ~> pc[t] = "cs"

-----------------------------------------------------------------------------
(***************************************************************************)
(* Refinement: the lock is a recursive mutex.  The owner is the worker    *)
(* that holds the semaphore; the count is the number of its get_lock calls *)
(* not yet undone, counting the first one from the sema_down that wins the *)
(* value (before get_lock records the holder) until the sema_up that gives *)
(* it back (after abandon_lock has cleared holder and holder_repeat_nr).   *)
(***************************************************************************)
AbsOwner ==
  IF \E t \in Workers : HasSema(t) THEN CHOOSE t \in Workers : HasSema(t) ELSE NoTask

AbsCount ==
  IF AbsOwner = NoTask THEN 0
  ELSE IF pc[AbsOwner] \in {"own", "up"} THEN depth[AbsOwner] + 1 ELSE depth[AbsOwner]

Mutex == INSTANCE RecursiveMutex
           WITH Holders <- Workers, None <- NoTask, owner <- AbsOwner, count <- AbsCount

(***************************************************************************)
(* Every step of the workers is a step of the recursive mutex or leaves   *)
(* its owner and count alone: no worker takes the lock while another one  *)
(* holds it, and it becomes free only at the sema_up of the last          *)
(* abandon_lock.                                                           *)
(***************************************************************************)
LockRefinesMutex == Mutex!MutexSpec
=============================================================================
