CONSTANTS
  Ages <- MCAges
  MaxCandidates = 3
  MaxTicks = 2
SPECIFICATION Spec
INVARIANTS
  TypeOK
  AllowedIsMatureAndClean
  SelectedWasChecked
  NewestSafeVersionWins
