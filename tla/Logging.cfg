SPECIFICATION Spec
CONSTANTS
  Threads = {t1, t2}
  UsedLevels = {"DEBUG", "FATAL"}
  MaxClock = 2
  MaxLines = 2
  MaxOperands = 2
  TextLengths = {3919}
  Pointers = {4090}
  Ints <- MCInts
SYMMETRY Symmetric
INVARIANTS
  LineTellsItsTime
  LineIsWhole
  FatalIsWritten
CHECK_DEADLOCK FALSE
