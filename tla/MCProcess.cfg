SPECIFICATION MCSpec
CONSTANTS
  Parts = {"process", "pagedir", "load", "shell", "line", "pwords"}
  p1 = p1
  p2 = p2
  none = none
  Proc <- TwoProcs
  Main = main
  Idle = idle
  Kernel = kernel
  Wild = wild
INVARIANTS
  AddressSpaceRight
  MemoryExact
  LineUnderstood
PROPERTIES
  WaitRight
  TranslationRight
  LoadsRight
  ShellRight
  WordsCounted
\* The system ends when main has launched everything, or sleeps for ever.
CHECK_DEADLOCK FALSE
