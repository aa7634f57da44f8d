CONSTANTS
  top = top
  dep = dep
  r1 = r1
  earlier = earlier
  Earlier = earlier
  Runs = {r1}
  Packages = {top, dep}
  Top = top
  Forms = {"requirements"}
  FindingChoices <- MCFindings
  AdvisoryChoices <- MCAdvisories
  Ages <- MCAges
SPECIFICATION Spec
INVARIANTS
  EveryStagedFileApproved
