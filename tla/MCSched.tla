------------------------------ MODULE MCSched ------------------------------
EXTENDS Sched
SamePrio == [p \in Procs |-> 10]
=============================================================================
