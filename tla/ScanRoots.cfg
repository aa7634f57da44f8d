SPECIFICATION Spec
CONSTANTS
  lock1 = lock1
  lock2 = lock2
  reqs = reqs
  root = root
  Guards = {}
  Scanners = {s1}
  Packages = {v1}
  None = None
  TTL = 0
  MaxTime = 1
  MaxBack = 1
  MaxCalls = 1
  Files = {lock1, lock2, reqs, root}
  Candidates <- MCCandidates
  MaxChanges = 0
  Installed = {"osv-scanner", "cargo-vet"}
INVARIANT RootsAreQueried
CHECK_DEADLOCK FALSE
