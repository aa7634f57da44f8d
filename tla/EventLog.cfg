SPECIFICATION Spec
CONSTANTS
  Procs = {p1, p2}
  NoProc = NoProc
  MaxEvents = 4
  MaxReads = 1
SYMMETRY Symmetry
INVARIANTS
  TypeOK
  AckedReadable
  OneLossPerCut
PROPERTIES
  ReadableStays
  ImplementsAtomicLog
CHECK_DEADLOCK FALSE
