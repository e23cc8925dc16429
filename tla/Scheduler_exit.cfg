SPECIFICATION SchedSpec
CONSTANTS
  t1 = t1
  t2 = t2
  t3 = t3
  t4 = t4
  Nodes = {t1, t2, t3, t4}
  NULL = NULL
  IDLE = IDLE
  Bsp = t1
  Casts <- ExitCasts
  MAX_SLICES = 2
INVARIANTS
  RunnableQueued
