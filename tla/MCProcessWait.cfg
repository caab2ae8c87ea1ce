SPECIFICATION MCSpec
CONSTANTS
  Parts = {"process"}
  p1 = p1
  p2 = p2
  none = none
  Proc <- TwoProcs
  Main = main
  Idle = idle
  Kernel = kernel
  Wild = wild
PROPERTIES
  WaitEnds
CHECK_DEADLOCK FALSE
