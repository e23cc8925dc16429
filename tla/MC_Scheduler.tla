---------------------------- MODULE MC_Scheduler ----------------------------
\* Programs that never end; and the two tasks of kmain.c, with the fault that
\* umain runs into, and a second one that is a kernel thread and returns.
EXTENDS Scheduler

CONSTANTS t1, t2, t3, t4

SomeCasts ==
  {[tasks |-> {t1, t2, t3, t4}, faulting |-> {}, returning |-> {}],
   [tasks |-> {t1, t2}, faulting |-> {t1}, returning |-> {}],
   [tasks |-> {t1, t2}, faulting |-> {t1}, returning |-> {t2}]}

ExitCasts == {[tasks |-> {t1, t2, t3}, faulting |-> {t1, t2, t3}, returning |-> {}]}
=============================================================================
