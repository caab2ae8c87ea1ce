SPECIFICATION MCSpec
CONSTANTS
  Parts = {"threads", "library", "keyboard", "display", "archive"}
  idle = idle
  p1 = p1
  p2 = p2
  p3 = p3
  main = main
  none = none
  client = client
  started = started
  tidLock = tidLock
  Page <- AllPages
  Idle = idle
  Main = main
  NoThread = none
  ClientSema <- Client
  IdleStarted = started
  TidSema = tidLock
  TimeSlice = 2
  MaxTid = 5
  MaxValue = 2
SYMMETRY Symmetry
INVARIANTS
  TypeOK
  OneList
  NoDanglingThread
  UniqueTid
  NoLostWakeup
  LibraryRight
  TerminalRight
  ArchiveRight
PROPERTIES
  RoundRobin
