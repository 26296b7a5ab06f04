------------------------------- MODULE MCSync -------------------------------
EXTENDS Sync

CONSTANTS w1, w2, idle, none

MCTasks == {w1, w2, idle}
MCWorkers == {w1, w2}
\* A quantum of one tick lets the timer preempt a worker inside every window.
MCPrio == [t \in MCTasks |-> 1]
MCMaxDepth == 2
=============================================================================
