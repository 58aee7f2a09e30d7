------------------------ MODULE MCSchedulerLifetime ------------------------
(* Two threads that serve two tasks, and the node's scheduler: one thread,  *)
(* and DumpData as its periodic task.                                       *)
EXTENDS SchedulerLifetime

CONSTANTS t1, t2, a, schedulerThread, DumpData

TwoThreads == {t1, t2}
OneOnce == {a}
NodeThreads == {schedulerThread}
NodeTasks == {DumpData}
NoTask == {}
=============================================================================
