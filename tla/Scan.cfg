SPECIFICATION Spec
CONSTANTS
  lock1 = lock1
  lock2 = lock2
  reqs = reqs
  root = root
  Guards = {g1}
  Scanners = {s1}
  Packages = {v1, v2}
  None = None
  TTL = 0
  MaxTime = 1
  MaxBack = 1
  MaxCalls = 1
  Files = {lock1, lock2, reqs, root}
  Candidates <- MCCandidates
  MaxChanges = 2
  Installed = {"osv-scanner", "pip-audit", "cargo-vet", "bumblebee"}
SYMMETRY Symmetry
INVARIANTS
  TypeOK
  RecordedScanIsBacked
  SkipsAddUp
  HandedFilesWereThere
PROPERTIES
  UsedAnswersAreRecent
  NoEntryLost
CHECK_DEADLOCK FALSE
