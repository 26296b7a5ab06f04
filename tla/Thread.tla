------------------------------- MODULE Thread -------------------------------
(***************************************************************************)
(* The single-CPU scheduler of thread/thread.c and the timer tick of       *)
(* device/timer.c.  The module holds the scheduler state and the steps     *)
(* that change it; the modules of the components that run on top of it     *)
(* (Sync, IdeChannel) EXTEND it and supply the tasks' own programs.        *)
(*                                                                         *)
(* Every operation here runs with interrupts disabled in the code, so each *)
(* one is a single atomic step.  The state transformers take the          *)
(* scheduler state as arguments and return the new one, so that an action *)
(* of a client module can compose them the way the C functions call each  *)
(* other (sema_down -> thread_block -> schedule).                          *)
(***************************************************************************)
EXTENDS Integers, Sequences, SequencesExt, FiniteSets

CONSTANTS
  Tasks,      \* every TCB: the workers and the idle task
  Idle,       \* idle_thread, started by thread_init
  Prio        \* Prio[t]: the priority, i.e. the quantum in ticks

ASSUME Idle \in Tasks
ASSUME Prio \in [Tasks -> Nat \ {0}]

VARIABLES
  status,     \* task_struct.task_status
  readyQ,     \* thread_ready_list, head first
  running,    \* running_thread(): the TCB the CPU executes
  ticks       \* task_struct.ticks, the rest of the quantum

schedVars == <<status, readyQ, running, ticks>>

Status == {"RUNNING", "READY", "BLOCKED"}

SchedTypeOK ==
  /\ status \in [Tasks -> Status]
  /\ readyQ \in Seq(Tasks)
  /\ running \in Tasks
  /\ ticks \in [Tasks -> Nat]
  /\ \A t \in Tasks : ticks[t] <= Prio[t]

(***************************************************************************)
(* The ready list is an intrusive doubly linked list (lib/kernel/list.c);  *)
(* the model keeps the order of its elements as a sequence.  Every link    *)
(* update runs with interrupts off, so each call is one step.              *)
(***************************************************************************)
\* list_push: list_insert_before the first element.
ListPush(q, t) == Cons(t, q)

\* list_append: list_insert_before the tail sentinel.
ListAppend(q, t) == Append(q, t)

\* list_pop: list_remove of the first element.
ListPop(q) == Tail(q)

(***************************************************************************)
(* thread_unblock (thread.c 254-273): push the task at the HEAD of the     *)
(* ready list (list_push) and mark it READY.  A task that is already READY *)
(* is left alone.                                                          *)
(***************************************************************************)
Unblock(st, rq, t) ==
  IF st[t] = "READY"
    THEN [st |-> st, rq |-> rq]
    ELSE [st |-> [st EXCEPT ![t] = "READY"], rq |-> ListPush(rq, t)]

(***************************************************************************)
(* schedule (thread.c 182-217), called by the running task cur after it    *)
(* has set its own status.  A task still RUNNING goes to the tail with a   *)
(* fresh quantum; if the list is then empty the idle task is unblocked;    *)
(* the head of the list becomes the running task.  process_activate and   *)
(* switch_to only change the address space and the stack.                 *)
(***************************************************************************)
Schedule(st, rq, tk, cur) ==
  LET preempted == st[cur] = "RUNNING"
      st1 == IF preempted THEN [st EXCEPT ![cur] = "READY"] ELSE st
      rq1 == IF preempted THEN ListAppend(rq, cur) ELSE rq
      tk1 == IF preempted THEN [tk EXCEPT ![cur] = Prio[cur]] ELSE tk
      u   == IF rq1 = <<>> THEN Unblock(st1, rq1, Idle) ELSE [st |-> st1, rq |-> rq1]
      nxt == Head(u.rq)
  IN  [st |-> [u.st EXCEPT ![nxt] = "RUNNING"], rq |-> ListPop(u.rq),
       tk |-> tk1, run |-> nxt]

\* Assign the result of Schedule to the scheduler variables.
SetSched(s) ==
  /\ status' = s.st
  /\ readyQ' = s.rq
  /\ ticks' = s.tk
  /\ running' = s.run

(***************************************************************************)
(* thread_block (thread.c 237-248): the running task sets its own status   *)
(* and calls schedule.                                                     *)
(***************************************************************************)
Block(st, rq, tk, cur) ==
  Schedule([st EXCEPT ![cur] = "BLOCKED"], rq, tk, cur)

(***************************************************************************)
(* thread_yield (thread.c 279-288): append the running task, mark it       *)
(* READY and schedule.  Unlike a preemption the quantum is not refilled.  *)
(***************************************************************************)
YieldSched ==
  Schedule([status EXCEPT ![running] = "READY"], ListAppend(readyQ, running),
           ticks, running)

(***************************************************************************)
(* intr_timer_handler (timer.c 68-86): the running task loses the CPU when *)
(* its quantum is used up, otherwise the quantum shrinks by one.          *)
(* elapsed_ticks and the global ticks counter only feed sys_ps and         *)
(* mtime_sleep and are not kept.                                           *)
(***************************************************************************)
TimerTick ==
  IF ticks[running] = 0
    THEN SetSched(Schedule(status, readyQ, ticks, running))
    ELSE /\ ticks' = [ticks EXCEPT ![running] = @ - 1]
         /\ UNCHANGED <<status, readyQ, running>>

(***************************************************************************)
(* The run-queue discipline (spec 3, TCB invariants (a) and (b)): exactly  *)
(* the running task is RUNNING, a task is on the ready list iff it is      *)
(* READY, and no task is on it twice.                                      *)
(***************************************************************************)
RunQueueConsistent ==
  /\ status[running] = "RUNNING"
  /\ \A t \in Tasks : status[t] = "RUNNING" => t = running
  /\ \A t \in Tasks : status[t] = "READY" <=> t \in ToSet(readyQ)
  /\ Len(readyQ) = Cardinality(ToSet(readyQ))
=============================================================================
