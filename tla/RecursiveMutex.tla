--------------------------- MODULE RecursiveMutex ---------------------------
(***************************************************************************)
(* What the lock of thread/sync.c promises its callers (spec 5): a        *)
(* recursive mutex.  One task at a time owns it; the owner may take it    *)
(* again, and it is free once the owner has released it as often as it    *)
(* took it.  Sync shows that get_lock/abandon_lock over the semaphore     *)
(* implement this specification (LockRefinesMutex), and Memory uses it as  *)
(* the model of the pool locks.                                            *)
(***************************************************************************)
EXTENDS Naturals

CONSTANTS
  Holders,    \* the tasks that call get_lock
  None        \* lock.holder = NULL

VARIABLES
  owner,      \* the task that holds the lock, or None
  count       \* how many times the owner has taken it

mutexVars == <<owner, count>>

MutexTypeOK == owner \in Holders \cup {None} /\ count \in Nat

MutexInit == owner = None /\ count = 0

Acquire(t) ==
  /\ owner \in {None, t}
  /\ owner' = t
  /\ count' = count + 1

Release(t) ==
  /\ owner = t
  /\ count' = count - 1
  /\ owner' = IF count = 1 THEN None ELSE t

MutexNext == \E t \in Holders : Acquire(t) \/ Release(t)

MutexSpec == MutexInit /\ [][MutexNext]_mutexVars
=============================================================================
