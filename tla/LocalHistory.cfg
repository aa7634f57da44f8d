CONSTANTS
  e = e
  r1 = r1
  r2 = r2
  r3 = r3
  v1 = v1
  v2 = v2
  h1 = h1
  h2 = h2
  m1 = m1
  m2 = m2
  m3 = m3
  Runs = {e, r1, r2, r3}
  Earlier = {e}
  Packages = {1, 2}
  Versions = {v1, v2}
  Hashes = {h1, h2}
  Maintainers = {m1, m2, m3}
  Unnamed = Unnamed
  Unversioned = Unversioned
  Redacted <- MCRedacted
  ReportChoices <- MCReports
  EarlierChoices <- MCEarlier
SPECIFICATION Spec
SYMMETRY RunSymmetry
INVARIANTS
  TypeOK
  TrustedOnFirstUseOnce
