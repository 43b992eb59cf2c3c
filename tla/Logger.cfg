\* Main and another thread, two entries each, a short line or one of almost a file
SPECIFICATION Spec
CONSTANTS
  Producers = {main, p1}
  Main = main
  Dummy = Dummy
  Null = Null
  Lengths = {1, 3}
  FileSize = 5
  MaxPushes = 2
INVARIANTS TypeOK LogInOrder LinesFit
PROPERTIES EntriesWritten ShutdownReturns
CHECK_DEADLOCK FALSE
