------------------------------ MODULE MCDevices ------------------------------
EXTENDS Devices

CONSTANTS d1, d2, r1, main, idle, none

MCTasks == {d1, d2, r1, main, idle}
MCDiskUsers == {d1, d2}
MCReaders == {r1}
\* A quantum of one tick lets the timer preempt Main and user mode often.
MCPrio == [t \in MCTasks |-> 1]
\* A read of two chunks loops in ide_read; a write exercises busy_wait's
\* sleep and the interrupt after the data.
MCReq == (d1 :> [op |-> "read", secs |-> 2]) @@ (d2 :> [op |-> "write", secs |-> 1])
MCChunk == 1
\* Main's turn lasts two ticks (its quantum refilled), so a sleep of three
\* ticks makes ticks_to_sleep yield more than once.
MCSleepTicks == 3
\* A ring of 3 slots holds 2 keys; 3 keys fill it and wrap head and tail.
MCBuffSize == 3
MCMaxKeys == 3
=============================================================================
