CONSTANTS
  top = top
  dep = dep
  r1 = r1
  earlier = earlier
  Earlier = earlier
  Runs = {r1}
  Packages = {top, dep}
  Top = top
  Forms = {"npm", "npmExec", "pip", "oneShot", "unsupported", "requirements", "lockfile", "download", "other"}
  FindingChoices <- MCFindings
  AdvisoryChoices <- MCAdvisories
  Ages <- MCAges
SPECIFICATION Spec
INVARIANTS
  TypeOK
  BlockNeverExecuted
  AllowlistCoversInstall
  SilentRunIsAudited
  SilentRunWasSeen
  ExecutedWasRecorded
PROPERTIES
  OnlyApprovalsRelax
