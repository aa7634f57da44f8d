SPECIFICATION Spec
CONSTANTS
  Procs = {p1}
  Runs = {r1, r2}
  Models = {m1}
  Packages = {a1}
  Limits = {1, 2}
  None = None
  Reports <- MCListed
  MaxEvents = 3
SYMMETRY Symmetry
INVARIANTS
  ReviewsAreAnswers
PROPERTIES
  ListFollowsDecisions
