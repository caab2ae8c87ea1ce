SPECIFICATION MCSpec
CONSTANTS
  Parts = {"lock", "intq", "ide", "partitions", "files", "clock"}
  t1 = t1
  t2 = t2
  t3 = t3
  t4 = t4
  none = none
  b1 = b1
  b2 = b2
  d1 = d1
  d2 = d2
  s1 = s1
  Thread <- Threads
  NoThread = none
INVARIANTS
  LockExact
  NoSleepWithWork
  AccessOnDevice
PROPERTIES
  ImplementsLock
  ImplementsFifo
  DiskRight
  ImplementsFiles
  TimerRight
\* A panic stops the kernel, and the scan of a disk ends.
CHECK_DEADLOCK FALSE
