CONSTANTS
  Ages <- MCAges
  MaxCandidates = 2
  MaxTicks = 1
SPECIFICATION Spec
INVARIANTS
  RefreshFailureBlocks
