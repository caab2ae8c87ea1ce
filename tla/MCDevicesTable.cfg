SPECIFICATION MCSpec
CONSTANTS
  Parts = {"partitions"}
  t1 = t1
  t2 = t2
  t3 = t3
  t4 = t4
  none = none
  b1 = b1
  b2 = b2
  d1 = d1
  d2 = d2
  s1 = s1
  Thread <- Threads
  NoThread = none
INVARIANTS
  FoundAsDescribed
CHECK_DEADLOCK FALSE
