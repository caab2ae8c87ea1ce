SPECIFICATION MCSpec
CONSTANTS
  Parts = {"mm_malloc"}
  Faults = FALSE
  ClientSpares = FALSE
  t1 = t1
  t2 = t2
  t3 = t3
  e1 = e1
  e2 = e2
  e3 = e3
  e4 = e4
  e5 = e5
  e6 = e6
  Thread <- Threads
  NoThread = none
  PoolSize = 3
INVARIANTS
  LiveBlocksHeld
CHECK_DEADLOCK FALSE
