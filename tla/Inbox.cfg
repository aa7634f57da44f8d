SPECIFICATION Spec
CONSTANTS
  Procs = {p1, p2}
  Runs = {r1}
  Models = {m1}
  Packages = {a1, a2}
  Limits = {1}
  None = None
  Reports <- MCReports
  MaxEvents = 3
SYMMETRY Symmetry
INVARIANTS
  TypeOK
  ApprovalsHaveTheirRun
  StandingBlockRefuses
  ReviewsAgreeUnlessRaced
