SPECIFICATION MCSpec
CONSTANTS
  Parts = {"sbrk"}
  Faults = FALSE
  ClientSpares = TRUE
  t1 = t1
  t2 = t2
  t3 = t3
  e1 = e1
  e2 = e2
  e3 = e3
  e4 = e4
  e5 = e5
  e6 = e6
  Thread <- Threads
  NoThread = none
  PoolSize = 3
INVARIANTS
  HeapMapped
CHECK_DEADLOCK FALSE
