SPECIFICATION MCSpec
CONSTANTS
  Parts = {"rw_lock", "console"}
  t1 = t1
  t2 = t2
  t3 = t3
  t4 = t4
  none = none
  handler = handler
  Thread <- Threads
  NoThread = none
INVARIANTS
  RwLockExact
PROPERTIES
  NobodyStuck
  ImplementsRwLock
  ConsoleRight
\* The machine stops after a panic and a shutdown.
CHECK_DEADLOCK FALSE
