SPECIFICATION FairSpec
CONSTANTS
  Procs = {p1, p2}
  Runs = {r1}
  Digests = {d1, d2}
  None = None
  MaxEvents = 4
  MaxTries = 2
INVARIANTS
  TypeOK
  RecordedUnlessFailed
PROPERTIES
  ImplementsOutbox
  EveryCallEnds
CHECK_DEADLOCK FALSE
