SPECIFICATION FairSpec
CONSTANTS
  Procs = {p1, p2}
  Packages = {pkg}
  Hashes = {h1, h2}
  AnyHash = AnyHash
  LockIsExclusive = TRUE
  MaxCalls = 3
INVARIANTS
  TypeOK
  ExactRecordsUnique
  MirrorFollowsFile
PROPERTIES
  NoLostApproval
  ImplementsAtomicStore
  EveryCallReturns
CHECK_DEADLOCK FALSE
